----------------------------- MODULE SqlDrivers -----------------------------
(***************************************************************************)
(* A call of the provisioner on the driver that its configuration names.   *)
(***************************************************************************)
EXTENDS MssqlConn, OdbcConn, Descent

vars == <<callVars, mssqlVars, odbcVars>>

Init == CallInit /\ MssqlInit /\ OdbcInit

Next ==
    \/ driver = "mssql" /\ MssqlNext /\ UNCHANGED odbcVars
    \/ driver = "odbc" /\ OdbcNext /\ UNCHANGED mssqlVars

Spec == Init /\ [][Next]_vars

(* The two goroutines of a call on go-mssqldb run.  Nothing is assumed of  *)
(* the server, which may keep a statement waiting for ever: the client has *)
(* deadlines.                                                              *)
FairSpec ==
    /\ Spec
    /\ WF_vars(driver = "mssql" /\ Parse /\ UNCHANGED odbcVars)
    /\ WF_vars(driver = "mssql" /\ Caller /\ UNCHANGED odbcVars)

-----------------------------------------------------------------------------
Kinds == {"begin", "line", "commit", "rollback", "query"}
Tokens == {"begun", "ended", "columns", "row", "done", "error", "refused"}
Trans == [open : BOOLEAN, work : Seq(Nat)]
Requests == [kind : Kinds, line : Nat, n : Nat]
PacketType == [of : Nat, toks : Seq(Tokens)]
MssqlSteps == {"connect", "send", "wait", "scan", "found", "none"}
OdbcSteps == {"connect", "begin", "prepare", "execute", "fetch", "closeStmt", "end", "close"}

CallTypeOK ==
    /\ driver \in {"mssql", "odbc"} /\ call \in Calls
    /\ pc \in {"idle"} \cup Over \cup IF driver = "mssql" THEN MssqlSteps ELSE OdbcSteps
    /\ req \in Kinds /\ line \in 1..LastLine
    /\ applied \in Seq(Nat)

ServerTypeOK ==
    /\ wire \in Seq(Requests) /\ tran \in Trans
    /\ late \subseteq [line : Nat, tries : Nat, wire : Seq(Requests), tran : Trans]
    /\ \A s \in late : s.wire # <<>>

ReaderTypeOK ==
    /\ inbound \in Seq(PacketType) /\ torn \in BOOLEAN
    /\ \A k \in DOMAIN inbound : inbound[k].toks # <<>>
    /\ parser \in {"off", "read", "parse"} /\ buf \in PacketType
    /\ parser = "parse" => buf.toks # <<>>
    /\ chan \in Seq(Tokens \cup Errors)

MssqlTypeOK ==
    /\ tries \in 1..MaxTries
    /\ link \in {"none", "up", "cut"} /\ sent \in Nat /\ tranid \in BOOLEAN
    /\ ServerTypeOK /\ ReaderTypeOK

OdbcTypeOK ==
    /\ live \in BOOLEAN /\ inTx \in BOOLEAN /\ auto \in BOOLEAN /\ err \in BOOLEAN
    /\ work \in Seq(Nat) /\ limbo \in Seq(Nat)
    /\ stmt \in [h : BOOLEAN, usedByStmt : BOOLEAN, usedByRows : BOOLEAN]

(* Every variable stays within its type; a parser that parses has a token. *)
TypeOK == CallTypeOK /\ MssqlTypeOK /\ OdbcTypeOK

(* One goroutine at a time uses the session: the request goroutine writes  *)
(* or closes it only when processResponse, of this or of an earlier        *)
(* request, has read its last (mssql.go: sess.buf has no lock).            *)
OneReader == parser # "off" => pc \in {"wait", "scan", "found", "none"}

(* A late answer is never taken for the answer to a later request, unless  *)
(* that request is the rollback (net.go:53-58: after a deadline has passed *)
(* the connection can be used again).                                      *)
AnswersAreOwn ==
    parser # "off" /\ req # "rollback" =>
        /\ ~torn
        /\ parser = "parse" => buf.of = sent
        /\ \A k \in DOMAIN inbound : inbound[k].of = sent

(* No transaction of an ODBC connection outlives its call, with its locks: *)
(* Conn.Close cannot disconnect while one is open (conn.go:38-46), and     *)
(* nobody else closes it.  It may if the rollback has failed, which ends   *)
(* the process as well, or if the commit has.                              *)
TransactionsEnd == pc \in Over /\ work # <<>> => pc = "panic" \/ req = "commit"

(* Both Stmt and Rows refer to an ODBCStmt; the last one of them gives its *)
(* handle to SQLFreeHandle, before the connection is closed or used again  *)
(* (odbcstmt.go: 57-94), whichever calls have failed.                      *)
StatementsClosedFirst ==
    /\ stmt.h <=> stmt.usedByStmt \/ stmt.usedByRows
    /\ pc \in {"prepare", "end", "close", "connect"} \cup Over => ~stmt.h

(* A line may say something else than its template says of the arguments   *)
(* only if an argument has the mark at which compileTemplate trims it      *)
(* (provisioner.go:196-204), and it takes effect only if an argument has a *)
(* bracket or quote as well: without one, what is trimmed leaves its own   *)
(* delimiter open.  The code checks no ID for either                       *)
(* (mssql_service_broker.go:44, 92-93): of an ID with both, nothing is     *)
(* promised.                                                               *)
Meant(n) == Filled(call.template[n], call.args)
StatementsAsMeant ==
    \A n \in 1..LastLine : Text(n) # Meant(n) =>
        /\ \E k \in DOMAIN call.args : Contains(call.args[k], Extra)
        /\ Contains(applied, n) => \E k \in DOMAIN call.args : ~Plain(call.args[k])

(* What is left of a call: the requests it may still make, the tries of    *)
(* this one, its steps, and what is on the way to it.                      *)
RequestsLeft ==
    CASE req = "begin" -> LastLine + 1
      [] req \in {"line", "query"} -> LastLine + 1 - line
      [] OTHER -> 0

StepsLeft ==
    [idle |-> 9, connect |-> 8, begin |-> 7, send |-> 6, prepare |-> 6,
     wait |-> 5, execute |-> 5, scan |-> 4, fetch |-> 4, closeStmt |-> 3,
     found |-> 2, none |-> 2, end |-> 2, close |-> 1,
     ok |-> 0, failed |-> 0, panic |-> 0]

Remaining ==
    <<RequestsLeft, MaxTries - tries, StepsLeft[pc], IF link = "up" THEN 1 ELSE 0,
      Len(wire), Len(inbound), Len(buf.toks), IF parser = "off" THEN 0 ELSE 1,
      Len(chan), Len(limbo)>>

(* No retry, rollback, late packet or full channel starts a round that was *)
(* there before: whatever fails, every step of either goroutine and of the *)
(* connection brings a call nearer its end.  Only the server, with what    *)
(* closed connections have left, takes steps that do not count.            *)
CallsAdvance ==
    [][\/ Lower(Remaining', Remaining)
       \/ late' # late /\ UNCHANGED Remaining]_vars

(* Every call on go-mssqldb returns, whatever the server does: the         *)
(* deadlines of timeoutConn end each wait, database/sql gives up after     *)
(* MaxTries, and neither goroutine waits for the other for ever.           *)
CallsReturn == driver = "mssql" /\ pc = "connect" ~> pc \in Over
=============================================================================
