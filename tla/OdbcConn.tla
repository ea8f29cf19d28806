------------------------------ MODULE OdbcConn ------------------------------
(***************************************************************************)
(* One call of the provisioner on the ODBC driver: the goroutine of the    *)
(* request, through database/sql, in Conn, Tx, Stmt and Rows.  Each call   *)
(* of the ODBC API is a step; it succeeds, fails with the connection as it *)
(* was, or finds it lost.  The driver never returns driver.ErrBadConn and  *)
(* knows no deadline.                                                      *)
(***************************************************************************)
EXTENDS SqlCall

VARIABLES
    live,           \* the connection c.h and its session at the server
    inTx,           \* c.tx # nil
    auto,           \* SQL_ATTR_AUTOCOMMIT
    work,           \* the lines of the open transaction
    limbo,          \* what the server does when the client has lost it
    stmt,           \* the ODBCStmt: whether s.h is set, usedByStmt, usedByRows
    err             \* the error of the request so far

session == <<live, inTx, auto, work, limbo>>
odbcVars == <<live, inTx, auto, work, limbo, stmt, err>>

NoStmt == [h |-> FALSE, usedByStmt |-> FALSE, usedByRows |-> FALSE]

OdbcInit ==
    /\ live = FALSE /\ inTx = FALSE /\ auto = TRUE
    /\ work = <<>> /\ limbo = <<>>
    /\ stmt = NoStmt /\ err = FALSE

-----------------------------------------------------------------------------
(* The connection is lost: the server rolls back, or does what it was      *)
(* asked for before it notices.                                            *)
Loses(effect) ==
    /\ live' = FALSE /\ work' = <<>>
    /\ limbo' \in {<<>>, effect}
    /\ UNCHANGED <<inTx, auto, applied>>

LimboEnds ==
    /\ limbo # <<>> /\ limbo' = <<>>
    /\ applied' = applied \o limbo
    /\ UNCHANGED <<driver, call, pc, req, line, live, inTx, auto, work, stmt, err>>

(* Driver.Open: SQLAllocHandle, SQLDriverConnect.                          *)
Open ==
    /\ pc = "connect"
    /\ \/ /\ live' = TRUE /\ inTx' = FALSE /\ auto' = TRUE /\ work' = <<>>
          /\ pc' = IF req = "begin" THEN "begin" ELSE "prepare"
       \/ pc' = "failed" /\ UNCHANGED <<live, inTx, auto, work>>
    /\ err' = FALSE
    /\ UNCHANGED <<driver, call, req, line, applied, limbo, stmt>>

(* Conn.Begin sets c.tx, and then the attribute.                           *)
Begin ==
    /\ pc = "begin"
    /\ inTx' = TRUE
    /\ \/ /\ auto' = FALSE /\ pc' = "prepare" /\ req' = "line"
          /\ UNCHANGED err
       \/ err' = TRUE /\ pc' = "close" /\ UNCHANGED <<auto, req>>
    /\ UNCHANGED <<driver, call, line, applied, live, work, limbo, stmt>>

(* Mutant: a line that fails is returned without a rollback.               *)
AfterRequestReturns(e) ==
    IF InTx /\ ~e
    THEN /\ pc' = IF line = LastLine THEN "end" ELSE "prepare"
         /\ req' = IF line = LastLine THEN "commit" ELSE req
         /\ line' = IF line = LastLine THEN line ELSE line + 1
    ELSE pc' = "close" /\ UNCHANGED <<req, line>>

(* What follows the end of a request.                                      *)
AfterRequest(e) ==
    IF InTx
    THEN /\ pc' = IF e \/ line = LastLine THEN "end" ELSE "prepare"
         /\ req' = IF e THEN "rollback" ELSE IF line = LastLine THEN "commit" ELSE req
         /\ line' = IF e \/ line = LastLine THEN line ELSE line + 1
    ELSE pc' = "close" /\ UNCHANGED <<req, line>>

(* Conn.PrepareODBCStmt: SQLAllocHandle, SQLPrepare, ExtractParameters.    *)
Prepare ==
    /\ pc = "prepare"
    /\ \/ /\ stmt' = [h |-> TRUE, usedByStmt |-> TRUE, usedByRows |-> FALSE]
          /\ pc' = "execute" /\ err' = FALSE
          /\ UNCHANGED <<req, line>>
       \/ /\ stmt' = NoStmt /\ err' = TRUE
          /\ AfterRequest(TRUE)
    /\ UNCHANGED <<driver, call, applied, session>>

(* SQLExecute; the server refuses the line, perhaps with its transaction.  *)
(* The row count, or the columns, may be refused after the line was        *)
(* executed.                                                               *)
Execute ==
    /\ pc = "execute"
    /\ \/ /\ live /\ err' \in BOOLEAN /\ Understood(line)
          /\ IF req = "query" THEN UNCHANGED <<applied, work>>
             ELSE IF auto THEN applied' = Append(applied, line) /\ UNCHANGED work
             ELSE work' = Append(work, line) /\ UNCHANGED applied
          /\ UNCHANGED <<live, inTx, auto, limbo>>
       \/ /\ live /\ err' = TRUE
          /\ work' \in {work, <<>>}
          /\ UNCHANGED <<live, inTx, auto, limbo, applied>>
       \/ /\ live /\ err' = TRUE
          /\ Loses(IF auto /\ req = "line" /\ Understood(line) THEN <<line>> ELSE <<>>)
       \/ ~live /\ err' = TRUE /\ UNCHANGED <<session, applied>>
    /\ IF req = "query" /\ ~err'
       THEN pc' = "fetch" /\ stmt' = [stmt EXCEPT !.usedByRows = TRUE]
       ELSE pc' = "closeStmt" /\ UNCHANGED stmt
    /\ UNCHANGED <<driver, call, req, line>>

(* Mutant: the rows are not closed after an error of SQLFetch.             *)
FetchLeavesRows ==
    /\ pc = "fetch" /\ pc' = "closeStmt"
    /\ err' \in BOOLEAN
    /\ stmt' = IF err' THEN stmt ELSE [stmt EXCEPT !.usedByRows = FALSE]
    /\ UNCHANGED <<driver, call, req, line, applied, session>>

(* Row.Scan: SQLFetch, and Rows.Close, which closes the cursor.            *)
Fetch ==
    /\ pc = "fetch" /\ pc' = "closeStmt"
    /\ err' \in BOOLEAN
    /\ stmt' = IF stmt.usedByStmt THEN [stmt EXCEPT !.usedByRows = FALSE] ELSE NoStmt
    /\ UNCHANGED <<driver, call, req, line, applied, session>>

(* Stmt.Close: the handle is freed unless the rows still use it.  s.h is   *)
(* cleared before SQLFreeHandle, whose error database/sql drops: a handle  *)
(* that the driver manager does not free is its own until SQLDisconnect.   *)
CloseStmt ==
    /\ pc = "closeStmt"
    /\ stmt' = IF stmt.usedByRows THEN [stmt EXCEPT !.usedByStmt = FALSE] ELSE NoStmt
    /\ AfterRequest(err)
    /\ UNCHANGED <<driver, call, applied, session, err>>

(* Conn.endTx: c.tx is cleared, then SQLEndTran, then the attribute, whose *)
(* failure makes an error of a commit that has happened.                   *)
EndTx ==
    /\ pc = "end" /\ pc' = "close"
    /\ inTx' = FALSE
    /\ \/ /\ live /\ work' = <<>>
          /\ applied' = IF req = "commit" THEN applied \o work ELSE applied
          /\ \/ auto' = TRUE /\ err' = FALSE
             \/ err' = TRUE /\ UNCHANGED auto
          /\ UNCHANGED <<live, limbo>>
       \/ /\ err' = TRUE
          /\ UNCHANGED <<live, auto, work, limbo, applied>>
       \/ /\ live /\ err' = TRUE
          /\ live' = FALSE /\ work' = <<>>
          /\ limbo' \in {<<>>, IF req = "commit" THEN work ELSE <<>>}
          /\ UNCHANGED <<auto, applied>>
    /\ UNCHANGED <<driver, call, req, line, stmt>>

(* Conn.Close: SQLDisconnect is refused while a transaction is open, and   *)
(* then the session stays.  Otherwise it ends, or the driver manager parks *)
(* it (SQL_CP_ONE_PER_HENV) and resets it before it is used again, which   *)
(* counts as its end here.  The call goes on, or is over.                  *)
Close ==
    /\ pc = "close"
    /\ \/ /\ work = <<>> /\ live' = FALSE /\ auto' = TRUE
          /\ UNCHANGED <<inTx, work, limbo>>
       \/ UNCHANGED session
    /\ IF call.kind = "exec" /\ ~err /\ line < LastLine
       THEN pc' = "connect" /\ line' = line + 1
       ELSE /\ pc' = IF ~err /\ req # "rollback" THEN "ok"
                     ELSE IF err /\ req = "rollback" THEN "panic"
                     ELSE "failed"
            /\ UNCHANGED line
    /\ UNCHANGED <<driver, call, req, applied, stmt, err>>

OdbcNext ==
    \/ (Start /\ UNCHANGED odbcVars)
    \/ LimboEnds
    \/ Open \/ Begin \/ Prepare \/ Execute \/ Fetch \/ CloseStmt \/ EndTx \/ Close
=============================================================================
