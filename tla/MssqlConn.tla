----------------------------- MODULE MssqlConn -----------------------------
(***************************************************************************)
(* One call of the provisioner on the go-mssqldb driver: the goroutine of  *)
(* the request (the provisioner, database/sql and MssqlConn or MssqlStmt), *)
(* the goroutine of processResponse with its channel of tokens, the TCP    *)
(* connection, and the session at the server.  A packet is the sequence of *)
(* its tokens.  Every read and write has a deadline; the server has none.  *)
(* Two connections of a call have nothing in common, so the numbers of the *)
(* requests begin anew with each; what a connection that is closed leaves  *)
(* at the server is in late.                                               *)
(***************************************************************************)
EXTENDS SqlCall

CONSTANTS
    ChanCap,        \* the capacity of the channel of tokens (5)
    MaxTries        \* how often database/sql tries (maxBadConnRetries, 10)

ASSUME ChanCapType == ChanCap \in Nat \ {0}
ASSUME MaxTriesType == MaxTries \in Nat \ {0}

VARIABLES
    tries,          \* how often the request has been sent
    link,           \* the connection: "none", "up", "cut"
    sent,           \* the number of requests written to it
    tranid,         \* sess.tranid # 0
    wire,           \* the requests the server has not executed
    tran,           \* the transaction of the session at the server
    inbound,        \* the packets that were not read
    torn,           \* a packet was read in part
    parser,         \* processResponse: "off", "read", "parse"
    buf,            \* what is left of the packet in sess.buf
    chan,           \* tokchan
    late            \* what closed connections have left at the server

caller == <<driver, call, pc, req, line, tries>>
server == <<wire, tran, late, applied>>
reader == <<parser, buf, chan>>
mssqlVars == <<tries, link, sent, tranid, wire, tran, inbound, torn, parser,
               buf, chan, late>>

Errors == {"refused", "bad", "plain"}
NoTran == [open |-> FALSE, work |-> <<>>]
NoPacket == [of |-> 0, toks |-> <<>>]

MssqlInit ==
    /\ tries = 1
    /\ link = "none" /\ sent = 0 /\ tranid = FALSE
    /\ wire = <<>> /\ tran = NoTran /\ inbound = <<>> /\ torn = FALSE
    /\ parser = "off" /\ buf = NoPacket /\ chan = <<>>
    /\ late = {}

-----------------------------------------------------------------------------
(* The server.                                                             *)

(* The transaction of a session after r has been executed in t.            *)
After(r, t) ==
    CASE r.kind = "begin" -> [open |-> TRUE, work |-> <<>>]
      [] r.kind = "line" /\ t.open -> [open |-> TRUE, work |-> Append(t.work, r.line)]
      [] r.kind \in {"commit", "rollback"} -> NoTran
      [] OTHER -> t

(* The lines that take effect with r: outside of a transaction, r itself.  *)
Effect(r, t) ==
    CASE r.kind = "line" /\ ~t.open -> <<r.line>>
      [] r.kind = "commit" -> t.work
      [] OTHER -> <<>>

Reply(r) ==
    CASE r.kind = "begin" -> <<"begun", "done">>
      [] r.kind = "query" -> <<"columns", "row", "done">>
      [] r.kind \in {"commit", "rollback"} -> <<"ended", "done">>
      [] OTHER -> <<"done">>

Executed(r, t) == [tran |-> After(r, t), effect |-> Effect(r, t), toks |-> Reply(r)]
Refused(t) == [tran |-> t, effect |-> <<>>, toks |-> <<"error", "refused">>]
Aborted == [tran |-> NoTran, effect |-> <<>>, toks |-> <<"error", "ended", "refused">>]

(* What the server may make of r: it executes it, or refuses it, which may *)
(* be the end of the transaction.                                          *)
Outcomes(r, t) ==
    {Refused(t)}
    \cup (IF t.open THEN {Aborted} ELSE {})
    \cup (IF /\ (r.kind \in {"commit", "rollback"} => t.open)
              /\ (r.kind \in {"line", "query"} => Understood(r.line))
           THEN {Executed(r, t)} ELSE {})

(* The answer to request n, in one packet or in two.                       *)
Packets(n, toks, k) ==
    IF k = Len(toks) THEN <<[of |-> n, toks |-> toks]>>
    ELSE <<[of |-> n, toks |-> SubSeq(toks, 1, k)],
           [of |-> n, toks |-> SubSeq(toks, k + 1, Len(toks))]>>

Serve ==
    /\ link = "up" /\ wire # <<>>
    /\ \E o \in Outcomes(Head(wire), tran) :
          /\ tran' = o.tran
          /\ applied' = applied \o o.effect
          /\ \E k \in 1..Len(o.toks) :
                inbound' = inbound \o Packets(Head(wire).n, o.toks, k)
    /\ wire' = Tail(wire)
    /\ UNCHANGED <<caller, link, sent, tranid, torn, reader, late>>

(* What the client leaves behind when it loses or closes the connection.   *)
Leftover ==
    IF wire = <<>> THEN {}
    ELSE {[line |-> line, tries |-> tries, wire |-> wire, tran |-> tran]}

(* The server notices that the client is gone, and rolls back.             *)
LateEnds(s) ==
    /\ late' = late \ {s}
    /\ UNCHANGED <<caller, link, sent, tranid, wire, tran, inbound, torn, reader, applied>>

(* Or it executes what it has received first.                              *)
LateServe(s) ==
    /\ \E o \in Outcomes(Head(s.wire), s.tran) :
          /\ applied' = applied \o o.effect
          /\ late' = (late \ {s}) \cup
                (IF Len(s.wire) = 1 THEN {}
                 ELSE {[s EXCEPT !.wire = Tail(@), !.tran = o.tran]})
    /\ UNCHANGED <<caller, link, sent, tranid, wire, tran, inbound, torn, reader>>

(* The connection is lost, with some of what is under way.                 *)
Cut ==
    /\ link = "up"
    /\ link' = "cut"
    /\ \E k \in 0..Len(inbound) : inbound' = SubSeq(inbound, 1, k)
    /\ wire' = <<>> /\ tran' = NoTran
    /\ late' = late \cup Leftover
    /\ UNCHANGED <<caller, sent, tranid, torn, reader, applied>>

-----------------------------------------------------------------------------
(* processResponse and tdsBuffer.                                          *)

(* ch <- err, or the last token; and close(ch).                            *)
Closes(tok) ==
    /\ Len(chan) < ChanCap
    /\ chan' = Append(chan, tok)
    /\ parser' = "off"

(* BeginRead, or readNextPacket in the middle of an answer.                *)
ReadPacket ==
    /\ parser = "read" /\ inbound # <<>> /\ ~torn
    /\ buf' = Head(inbound) /\ inbound' = Tail(inbound)
    /\ parser' = "parse"
    /\ UNCHANGED <<caller, link, sent, tranid, server, torn, chan>>

(* Mutant: a read has no deadline.                                         *)
ReadFailsWithoutDeadline ==
    /\ parser = "read" /\ link = "cut" /\ inbound = <<>>
    /\ \E e \in {"bad", "plain"} : Closes(e)
    /\ UNCHANGED <<caller, link, sent, tranid, server, inbound, torn, buf>>

(* The deadline passes (a net.Error), perhaps in the middle of a packet;   *)
(* the connection is closed by the server (io.EOF, or in the middle of a   *)
(* packet ErrUnexpectedEOF), or lost; or what is read as a packet is the   *)
(* rest of one, and means anything.                                        *)
ReadFails ==
    /\ parser = "read"
    /\ \/ link = "up" /\ ~torn /\ inbound = <<>> /\ Closes("bad") /\ UNCHANGED torn
       \/ link = "up" /\ ~torn /\ inbound # <<>> /\ Closes("bad") /\ torn' = TRUE
       \/ /\ link = "cut" /\ ~torn /\ inbound = <<>> /\ UNCHANGED torn
          /\ \E e \in {"bad", "plain"} : Closes(e)
       \/ torn /\ (\E tok \in {"bad", "plain", "done"} : Closes(tok)) /\ UNCHANGED torn
    /\ UNCHANGED <<caller, link, sent, tranid, server, inbound, buf>>

(* The loop over the tokens of a packet.                                   *)
Token == Head(buf.toks)
LastOfPacket == Len(buf.toks) = 1
Advance ==
    /\ buf' = [buf EXCEPT !.toks = Tail(@)]
    /\ parser' = IF LastOfPacket THEN "read" ELSE "parse"

ParseData ==
    /\ parser = "parse" /\ Token \in {"columns", "row"}
    /\ Len(chan) < ChanCap /\ chan' = Append(chan, Token)
    /\ Advance
    /\ UNCHANGED <<caller, link, sent, tranid, server, inbound, torn>>

(* processEnvChg; tokenError is only remembered.                           *)
ParseEnvChange ==
    /\ parser = "parse" /\ Token \in {"begun", "ended", "error"}
    /\ tranid' = IF Token = "error" THEN tranid ELSE Token = "begun"
    /\ Advance
    /\ UNCHANGED <<caller, link, sent, server, inbound, torn, chan>>

ParseDone ==
    /\ parser = "parse" /\ Token \in {"done", "refused"}
    /\ Closes(Token)
    /\ buf' = [buf EXCEPT !.toks = Tail(@)]
    /\ UNCHANGED <<caller, link, sent, tranid, server, inbound, torn>>

-----------------------------------------------------------------------------
(* The goroutine of the request.                                           *)

(* Close: without idle connections database/sql closes each one when the   *)
(* statement, or the transaction, is over.                                 *)
HangUp ==
    /\ link' = "none" /\ sent' = 0 /\ tranid' = FALSE
    /\ wire' = <<>> /\ tran' = NoTran /\ late' = late \cup Leftover
    /\ inbound' = <<>> /\ torn' = FALSE
    /\ chan' = <<>>
    /\ UNCHANGED <<driver, call, parser, buf, applied>>

(* MssqlDriver.Open, whose errors are not driver.ErrBadConn.               *)
Connect ==
    /\ pc = "connect"
    /\ \/ link' = "up" /\ pc' = "send"
       \/ pc' = "failed" /\ UNCHANGED link
    /\ UNCHANGED <<driver, call, req, line, tries, sent, tranid, server, inbound, torn, reader>>

(* A request is written and processResponse started; a connection that is  *)
(* lost may take it all the same.                                          *)
Send ==
    /\ pc = "send" /\ pc' = "wait"
    /\ sent' = sent + 1
    /\ wire' = IF link = "up"
               THEN Append(wire, [kind |-> req, line |-> line, n |-> sent + 1])
               ELSE wire
    /\ parser' = "read" /\ buf' = NoPacket /\ chan' = <<>>
    /\ UNCHANGED <<driver, call, req, line, tries, link, tranid, tran, late, applied, inbound, torn>>

(* Mutant: the last try is followed by another.                            *)
ResendsOnce(e) == e = "bad" /\ ~tranid /\ (InTx => req = "begin") /\ tries <= MaxTries

(* Mutant: CheckBadConn is asked within a transaction, too.                *)
ResendsInTx(e) == e = "bad" /\ tries < MaxTries

(* What becomes of an error e of the request.  Outside of a transaction    *)
(* CheckBadConn makes driver.ErrBadConn of it, and database/sql starts     *)
(* again with another connection.                                          *)
Resends(e) == e = "bad" /\ ~tranid /\ (InTx => req = "begin") /\ tries < MaxTries

(* Mutant: the template loop leaves, and the transaction is committed.     *)
FailsButCommits(e) ==
    IF InTx /\ req = "line"
    THEN /\ pc' = "send" /\ req' = "commit"
         /\ chan' = <<>>
         /\ UNCHANGED <<driver, call, line, tries, link, sent, tranid, server, inbound, torn, parser, buf>>
    ELSE /\ HangUp /\ pc' = "failed"
         /\ UNCHANGED <<req, line, tries>>

(* Mutant: a rollback that fails is tried again.                           *)
FailsRollsBackAgain(e) ==
    IF InTx /\ req \in {"line", "rollback"}
    THEN /\ pc' = "send" /\ req' = "rollback"
         /\ chan' = <<>>
         /\ UNCHANGED <<driver, call, line, tries, link, sent, tranid, server, inbound, torn, parser, buf>>
    ELSE /\ HangUp /\ pc' = "failed"
         /\ UNCHANGED <<req, line, tries>>

Fails(e) ==
    \/ /\ Resends(e)
       /\ HangUp
       /\ pc' = "connect" /\ tries' = tries + 1
       /\ UNCHANGED <<req, line>>
    \/ /\ InTx /\ req = "line"
       /\ pc' = "send" /\ req' = "rollback"
       /\ chan' = <<>>
       /\ UNCHANGED <<driver, call, line, tries, link, sent, tranid, server, inbound, torn, parser, buf>>
    \/ /\ ~Resends(e) /\ ~(InTx /\ req = "line")
       /\ HangUp
       /\ pc' = IF req = "rollback" THEN "panic" ELSE "failed"
       /\ UNCHANGED <<req, line, tries>>

SendFails ==
    /\ pc = "send" /\ link = "cut"
    /\ \E e \in {"bad", "plain"} : Fails(e)

ReceiveError ==
    /\ pc = "wait" /\ chan # <<>> /\ Head(chan) \in Errors
    /\ Fails(Head(chan))

(* for tok := range tokchan: Exec, Begin, Commit and Rollback.             *)
ReceiveToken ==
    /\ pc = "wait" /\ req # "query"
    /\ chan # <<>> /\ Head(chan) \notin Errors
    /\ chan' = Tail(chan)
    /\ UNCHANGED <<caller, link, sent, tranid, server, inbound, torn, parser, buf>>

Closed == pc = "wait" /\ chan = <<>> /\ parser = "off"

(* nil: the next request of the transaction.                               *)
NextInTx ==
    /\ Closed /\ InTx /\ req \in {"begin", "line"}
    /\ pc' = "send" /\ tries' = 1
    /\ IF req = "line" /\ line = LastLine
       THEN req' = "commit" /\ UNCHANGED line
       ELSE req' = "line" /\ line' = IF req = "begin" THEN 1 ELSE line + 1
    /\ UNCHANGED <<driver, call, link, sent, tranid, server, inbound, torn, reader>>

(* nil: the next line, on a connection of its own.                         *)
NextLine ==
    /\ Closed /\ call.kind = "exec"
    /\ HangUp
    /\ IF line = LastLine
       THEN pc' = "ok" /\ UNCHANGED <<line, tries>>
       ELSE pc' = "connect" /\ line' = line + 1 /\ tries' = 1
    /\ UNCHANGED req

(* nil: the end of the transaction.                                        *)
EndOfTx ==
    /\ Closed /\ req \in {"commit", "rollback"}
    /\ HangUp
    /\ pc' = IF req = "commit" THEN "ok" ELSE "failed"
    /\ UNCHANGED <<req, line, tries>>

(* Query returns with the first token; Next looks for a row.  The end of   *)
(* the rows is io.EOF, and so is a connection that the server closes.      *)
QueryReturns ==
    /\ pc = "wait" /\ req = "query"
    /\ \/ chan # <<>> /\ Head(chan) \notin Errors /\ chan' = Tail(chan)
       \/ chan = <<>> /\ parser = "off" /\ UNCHANGED chan
    /\ pc' = "scan"
    /\ UNCHANGED <<driver, call, req, line, tries, link, sent, tranid, server, inbound, torn, parser, buf>>

Scan ==
    /\ pc = "scan"
    /\ \/ /\ chan # <<>> /\ chan' = Tail(chan)
          /\ pc' = CASE Head(chan) = "row" -> "found"
                     [] Head(chan) \in Errors -> "none"
                     [] OTHER -> "scan"
       \/ chan = <<>> /\ parser = "off" /\ pc' = "none" /\ UNCHANGED chan
    /\ UNCHANGED <<driver, call, req, line, tries, link, sent, tranid, server, inbound, torn, parser, buf>>

(* Rows.Close drains the channel.                                          *)
Drain ==
    /\ pc \in {"found", "none"} /\ chan # <<>>
    /\ chan' = Tail(chan)
    /\ UNCHANGED <<caller, link, sent, tranid, server, inbound, torn, parser, buf>>

(* Mutant: Rows.Close does not drain the channel.                          *)
RowsClosedAtOnce ==
    /\ pc \in {"found", "none"}
    /\ HangUp
    /\ pc' = IF pc = "found" THEN "ok" ELSE "failed"
    /\ UNCHANGED <<req, line, tries>>

RowsClosed ==
    /\ pc \in {"found", "none"} /\ chan = <<>> /\ parser = "off"
    /\ HangUp
    /\ pc' = IF pc = "found" THEN "ok" ELSE "failed"
    /\ UNCHANGED <<req, line, tries>>

-----------------------------------------------------------------------------
Parse == ReadPacket \/ ReadFails \/ ParseData \/ ParseEnvChange \/ ParseDone

Caller ==
    \/ (Start /\ UNCHANGED mssqlVars)
    \/ Connect \/ Send \/ SendFails \/ ReceiveError \/ ReceiveToken
    \/ NextInTx \/ NextLine \/ EndOfTx
    \/ QueryReturns \/ Scan \/ Drain \/ RowsClosed

MssqlNext ==
    \/ Parse \/ Caller \/ Serve \/ Cut
    \/ \E s \in late : LateEnds(s) \/ LateServe(s)
=============================================================================
