-------------------------- MODULE SqlDriversProofs --------------------------
(***************************************************************************)
(* The properties of SqlDrivers hold for every set of calls, every         *)
(* capacity of the channel and every number of tries.                      *)
(***************************************************************************)
EXTENDS SqlDrivers, TLAPS

-----------------------------------------------------------------------------
(* The invariant of a call on go-mssqldb.                                  *)

UpTo(n) == [m \in 1..n |-> m]
Has(n) == \E m \in DOMAIN applied : applied[m] = n
Reached(n) == n \in 1..LastLine /\ (n = 1 \/ Has(n - 1))

KindOK ==
    /\ call.kind = "tx" => req \in {"begin", "line", "commit", "rollback"}
    /\ call.kind = "exec" => req = "line" /\ Reached(line)
    /\ call.kind = "exec" => \A n \in 1..(line - 1) : Has(n)
    /\ call.kind = "query" => req = "query" /\ applied = <<>>

(* The transaction of the session when request req arrives.                *)
OpenWith(w) == [open |-> TRUE, work |-> w]
Before ==
    IF InTx /\ req = "line" THEN OpenWith(UpTo(line - 1))
    ELSE IF req = "commit" THEN OpenWith(UpTo(LastLine))
    ELSE NoTran

(* What it means that req was executed.                                    *)
Answered ==
    /\ wire = <<>>
    /\ call.kind = "exec" => Has(line)
    /\ req = "commit" => applied = UpTo(LastLine)
    /\ InTx /\ link = "up" /\ req = "begin" => tran = OpenWith(<<>>)
    /\ InTx /\ link = "up" /\ req = "line" => tran = OpenWith(UpTo(line))

Waiting == {"wait", "scan", "found", "none"}

(* Between two connections there is nothing; before a request that is not  *)
(* the rollback, nothing of the one before.                                *)
RestOK ==
    /\ pc \notin Waiting \cup {"send"} =>
          /\ parser = "off" /\ link = "none" /\ wire = <<>> /\ inbound = <<>>
          /\ ~torn /\ chan = <<>> /\ tran = NoTran
    /\ pc \in {"idle", "connect"} /\ InTx => req = "begin"
    /\ pc = "send" =>
          /\ parser = "off" /\ chan = <<>>
          /\ req # "rollback" =>
                /\ wire = <<>> /\ inbound = <<>> /\ ~torn
                /\ link = "up" => tran = Before

ReaderOK ==
    /\ pc \in {"scan", "found", "none"} => req = "query"
    /\ \A k \in DOMAIN chan : chan[k] \in Errors \cup {"done"} => parser = "off"
    /\ \A k \in DOMAIN chan : chan[k] \in Errors \cup {"done", "columns", "row"}
    /\ req # "query" => \A k \in DOMAIN chan : k = 1 /\ chan[k] \in Errors \cup {"done"}
    /\ \A k \in DOMAIN wire : wire[k].kind = "query" => req = "query"
    /\ \A k \in DOMAIN inbound : \A j \in DOMAIN inbound[k].toks :
          inbound[k].toks[j] \in {"columns", "row"} => req = "query"
    /\ parser = "parse" => \A j \in DOMAIN buf.toks :
          buf.toks[j] \in {"columns", "row"} => req = "query"

(* The answer to a request that is not the rollback: a "done" is its last  *)
(* token, and was sent when the request had been executed.                 *)
AnswerOK ==
    pc \in Waiting /\ req # "rollback" =>
        /\ parser # "off" => ~torn
        /\ wire # <<>> =>
              /\ wire = <<[kind |-> req, line |-> line, n |-> sent]>>
              /\ inbound = <<>> /\ parser # "parse" /\ link = "up" /\ tran = Before
        /\ \A k \in DOMAIN inbound :
              /\ inbound[k].of = sent
              /\ \A j \in DOMAIN inbound[k].toks :
                    inbound[k].toks[j] = "done" => k = Len(inbound) /\ Answered
        /\ parser = "parse" =>
              /\ buf.of = sent
              /\ \A j \in DOMAIN buf.toks :
                    buf.toks[j] = "done" => inbound = <<>> /\ Answered
        /\ \A k \in DOMAIN chan : chan[k] = "done" => inbound = <<>> /\ Answered /\ ~torn
        /\ pc = "wait" /\ chan = <<>> /\ parser = "off" => inbound = <<>> /\ Answered /\ ~torn

(* A line outlives its client in its transaction only, at the head of what *)
(* is left; a commit alone, with all lines before it, and only once.       *)
Commits(s) == \E k \in DOMAIN s.wire : s.wire[k].kind = "commit"

TxLateOK(s) ==
    /\ \A k \in DOMAIN s.wire :
          /\ s.wire[k].kind \in {"begin", "line", "rollback", "commit"}
          /\ s.wire[k].kind = "line" => k = 1 /\ s.tran.open
    /\ Commits(s) =>
          /\ Len(s.wire) = 1 /\ s.tran = OpenWith(UpTo(LastLine))
          /\ req = "commit" /\ pc # "send" /\ wire = <<>> /\ applied = <<>>
          /\ \A t \in late : Commits(t) => t = s

TxOK ==
    InTx =>
        /\ applied \in {<<>>, UpTo(LastLine)}
        /\ applied # <<>> => req = "commit" /\ pc # "send" /\ wire = <<>>
        /\ req = "rollback" => \A k \in DOMAIN wire :
              /\ wire[k].kind \in {"line", "rollback"}
              /\ wire[k].kind = "line" => k = 1 /\ tran.open
        /\ \A s \in late : TxLateOK(s)

NoTxOK ==
    ~InTx =>
        /\ tran = NoTran
        /\ \A s \in late :
              /\ s.tran = NoTran
              /\ \A k \in DOMAIN s.wire :
                    /\ s.wire[k].kind = req
                    /\ req = "line" => Reached(s.wire[k].line)

MssqlInv ==
    /\ KindOK /\ OneReader /\ RestOK /\ ReaderOK /\ AnswerOK /\ TxOK /\ NoTxOK
    /\ live = FALSE /\ inTx = FALSE /\ auto = TRUE /\ work = <<>> /\ limbo = <<>>
    /\ stmt = NoStmt /\ err = FALSE

-----------------------------------------------------------------------------
(* The invariant of a call on the ODBC driver.                             *)

StmtOK ==
    /\ stmt.h <=> pc \in {"execute", "fetch", "closeStmt"}
    /\ stmt.usedByStmt <=> stmt.h
    /\ stmt.usedByRows <=> pc = "fetch"

(* Outside of a transaction each line takes effect at once.                *)
AutoOK ==
    ~InTx =>
        /\ auto /\ work = <<>> /\ pc \notin {"begin", "end"}
        /\ call.kind = "query" => limbo = <<>>
        /\ pc = "fetch" => call.kind = "query"
        /\ \A k \in DOMAIN limbo : k = 1 /\ Reached(limbo[k])
        /\ pc \in {"closeStmt", "close"} /\ ~err /\ call.kind = "exec" => Has(line)

(* In a transaction: before its end, and after it.                         *)
WorkOK ==
    InTx =>
        /\ pc # "fetch"
        /\ pc \in {"idle", "connect", "begin"} => req = "begin" /\ line = 1 /\ work = <<>>
        /\ pc \in {"prepare", "execute", "closeStmt"} => req = "line"
        /\ pc \in {"idle", "connect", "begin", "prepare", "execute", "closeStmt", "end"} =>
              applied = <<>> /\ limbo = <<>>
        /\ pc \in {"prepare", "execute", "closeStmt", "end"} => ~auto
        /\ pc \in {"prepare", "execute"} => work = UpTo(line - 1)
        /\ pc = "closeStmt" /\ ~err => work = UpTo(line)
        /\ pc = "end" => req \in {"commit", "rollback"}
        /\ pc = "end" /\ req = "commit" => work = UpTo(LastLine)

EndOK ==
    InTx /\ pc \in {"close"} \cup Over =>
        /\ req \in {"begin", "commit", "rollback"}
        /\ applied \in {<<>>, UpTo(LastLine)} /\ limbo \in {<<>>, UpTo(LastLine)}
        /\ applied = <<>> \/ limbo = <<>>
        /\ req # "commit" => applied = <<>> /\ limbo = <<>>
        /\ req = "begin" => work = <<>>
        /\ pc = "close" /\ req = "begin" => err
        /\ pc = "close" /\ req = "commit" /\ ~err => applied = UpTo(LastLine)
        /\ pc = "close" /\ req = "rollback" /\ ~err => work = <<>>
        /\ pc \in Over /\ req = "rollback" => pc = "panic" \/ work = <<>>

OdbcInv ==
    /\ KindOK /\ StmtOK /\ AutoOK /\ WorkOK /\ EndOK
    /\ parser = "off"

(* Nothing is under way before the call.                                   *)
IdleOK == pc = "idle" => late = {} /\ limbo = <<>>

IInv ==
    /\ TypeOK /\ IdleOK
    /\ driver = "mssql" => MssqlInv
    /\ driver = "odbc" => OdbcInv
-----------------------------------------------------------------------------
(* Types.                                                                  *)

(* Sequences with an element more or less.                                 *)
LEMMA AppendFacts ==
    ASSUME NEW S, NEW s \in Seq(S), NEW e \in S
    PROVE  /\ Append(s, e) \in Seq(S) /\ Append(s, e) # <<>>
           /\ Len(Append(s, e)) = Len(s) + 1
           /\ DOMAIN Append(s, e) = 1..(Len(s) + 1)
           /\ \A k \in DOMAIN s : Append(s, e)[k] = s[k]
           /\ Append(s, e)[Len(s) + 1] = e
           /\ \A k \in DOMAIN Append(s, e) :
                 Append(s, e)[k] = e \/ (k \in DOMAIN s /\ Append(s, e)[k] = s[k])
           /\ s = <<>> => DOMAIN Append(s, e) = {1}
<1>1. /\ Append(s, e) \in Seq(S) /\ Append(s, e) # <<>> /\ Len(s) \in Nat
      /\ Len(Append(s, e)) = Len(s) + 1
      /\ DOMAIN Append(s, e) = 1..(Len(s) + 1) /\ DOMAIN s = 1..Len(s)
      /\ \A k \in DOMAIN s : Append(s, e)[k] = s[k]
      /\ Append(s, e)[Len(s) + 1] = e
  OBVIOUS
<1>2. \A k \in 1..(Len(s) + 1) : k \in 1..Len(s) \/ k = Len(s) + 1
  BY <1>1
<1>3. s = <<>> => Len(s) = 0
  OBVIOUS
<1>4. Len(s) = 0 => 1..(Len(s) + 1) = {1}
  OBVIOUS
<1> QED
  BY <1>1, <1>2, <1>3, <1>4

LEMMA OneElement ==
    ASSUME NEW S, NEW s \in Seq(S), Len(s) = 1
    PROVE  s = <<s[1]>> /\ s[1] \in S
<1>1. s[1] \in S
  OBVIOUS
<1> DEFINE t == <<s[1]>>
<1>2. t \in Seq(S) /\ Len(t) = 1 /\ t[1] = s[1]
  BY <1>1
<1> HIDE DEF t
<1>3. \A i \in 1..1 : s[i] = t[i]
  BY <1>2
<1>4. s = t
  BY <1>2, <1>3
<1> QED
  BY <1>1, <1>4 DEF t

LEMMA NotEmpty ==
    ASSUME NEW S, NEW s \in Seq(S)
    PROVE  s # <<>> <=> Len(s) > 0
OBVIOUS

LEMMA TailFacts ==
    ASSUME NEW S, NEW s \in Seq(S), s # <<>>
    PROVE  /\ Tail(s) \in Seq(S) /\ Head(s) \in S /\ Head(s) = s[1]
           /\ Len(s) \in Nat /\ Len(s) >= 1 /\ Len(Tail(s)) = Len(s) - 1
           /\ \A k \in DOMAIN Tail(s) : k + 1 \in DOMAIN s /\ Tail(s)[k] = s[k + 1]
           /\ 1 \in DOMAIN s
           /\ Len(s) # 1 => Tail(s) # <<>>
<1>1. Tail(s) \in Seq(S) /\ Len(Tail(s)) = Len(s) - 1 /\ Len(s) \in Nat /\ Len(s) >= 1
  OBVIOUS
<1>2. Len(s) # 1 => Len(Tail(s)) > 0
  BY <1>1
<1>3. Len(s) # 1 => Tail(s) # <<>>
  BY <1>1, <1>2, NotEmpty
<1>4. /\ Head(s) \in S /\ Head(s) = s[1] /\ 1 \in DOMAIN s
      /\ \A k \in DOMAIN Tail(s) : k + 1 \in DOMAIN s /\ Tail(s)[k] = s[k + 1]
  OBVIOUS
<1> QED
  BY <1>1, <1>3, <1>4

LEMMA ConcatFacts ==
    ASSUME NEW S, NEW s \in Seq(S), NEW t \in Seq(S)
    PROVE  /\ s \o t \in Seq(S)
           /\ \A k \in DOMAIN (s \o t) :
                 \/ k \in DOMAIN s /\ (s \o t)[k] = s[k]
                 \/ k - Len(s) \in DOMAIN t /\ (s \o t)[k] = t[k - Len(s)]
           /\ \A k \in DOMAIN s : k \in DOMAIN (s \o t) /\ (s \o t)[k] = s[k]
           /\ \A k \in DOMAIN t : k + Len(s) \in DOMAIN (s \o t) /\ (s \o t)[k + Len(s)] = t[k]
OBVIOUS

LEMMA PrefixFacts ==
    ASSUME NEW S, NEW s \in Seq(S), NEW n \in 0..Len(s)
    PROVE  /\ SubSeq(s, 1, n) \in Seq(S) /\ Len(SubSeq(s, 1, n)) = n
           /\ \A k \in DOMAIN SubSeq(s, 1, n) : k \in DOMAIN s /\ SubSeq(s, 1, n)[k] = s[k]
OBVIOUS

(* The number of lines of a template.                                      *)
LEMMA LastLineType ==
    ASSUME call \in Calls
    PROVE  LastLine \in Nat /\ LastLine >= 1
<1>1. call.template \in Seq(Seq(STRING)) /\ call.template # <<>>
  BY CallsType
<1> QED
  BY <1>1 DEF LastLine

(* What the server sends is tokens, and its transactions have lines.       *)
LEMMA OutcomeType ==
    ASSUME NEW r \in Requests, NEW t \in Trans, NEW o \in Outcomes(r, t)
    PROVE  /\ o.tran \in Trans /\ o.effect \in Seq(Nat)
           /\ o.toks \in Seq(Tokens) /\ o.toks # <<>>
<1>1. NoTran \in Trans
  BY DEF NoTran, Trans
<1>2. After(r, t) \in Trans
  <2>1. [open |-> TRUE, work |-> Append(t.work, r.line)] \in Trans
    <3>1. t.work \in Seq(Nat) /\ r.line \in Nat
      BY DEF Trans, Requests
    <3>2. Append(t.work, r.line) \in Seq(Nat)
      BY <3>1
    <3> QED
      BY <3>2 DEF Trans
  <2>2. [open |-> TRUE, work |-> <<>>] \in Trans
    BY DEF Trans
  <2> QED
    BY <1>1, <2>1, <2>2 DEF After, Requests, Kinds
<1>3. Effect(r, t) \in Seq(Nat)
  BY DEF Effect, Trans, Requests
<1>4. Reply(r) \in Seq(Tokens) /\ Reply(r) # <<>>
  <2>1. \A a \in Tokens : <<a>> \in Seq(Tokens) /\ <<a>> # <<>>
    OBVIOUS
  <2>2. \A a, b \in Tokens : <<a, b>> \in Seq(Tokens) /\ <<a, b>> # <<>>
    OBVIOUS
  <2>3. \A a, b, c \in Tokens : <<a, b, c>> \in Seq(Tokens) /\ <<a, b, c>> # <<>>
    OBVIOUS
  <2>4. {"begun", "done", "columns", "row", "ended"} \subseteq Tokens
    BY DEF Tokens
  <2> QED
    BY <2>1, <2>2, <2>3, <2>4 DEF Reply
<1>5. CASE o = Refused(t)
  BY <1>5 DEF Refused, Tokens
<1>6. CASE o = Aborted
  BY <1>1, <1>6 DEF Aborted, Tokens
<1>7. CASE o = Executed(r, t)
  BY <1>2, <1>3, <1>4, <1>7 DEF Executed
<1> QED
  BY <1>5, <1>6, <1>7 DEF Outcomes

(* An answer is one or two packets, each with a token.                     *)
LEMMA PacketsType ==
    ASSUME NEW n \in Nat, NEW toks \in Seq(Tokens), NEW k \in 1..Len(toks)
    PROVE  /\ Packets(n, toks, k) \in Seq(PacketType)
           /\ \A i \in DOMAIN Packets(n, toks, k) : Packets(n, toks, k)[i].toks # <<>>
<1>1. SubSeq(toks, 1, k) \in Seq(Tokens) /\ SubSeq(toks, 1, k) # <<>>
  BY DEF Packets
<1>2. CASE k = Len(toks)
  BY <1>2 DEF Packets, PacketType
<1>3. CASE k # Len(toks)
  <2>1. k + 1 \in 1..Len(toks) /\ Len(toks) \in Nat
    BY <1>3
  <2>2. SubSeq(toks, k + 1, Len(toks)) \in Seq(Tokens)
    BY <2>1
  <2>3. Len(SubSeq(toks, k + 1, Len(toks))) = Len(toks) - k
    BY <2>1
  <2>4. SubSeq(toks, k + 1, Len(toks)) # <<>>
    <3>1. Len(toks) - k > 0
      BY <1>3, <2>1
    <3> QED
      BY <2>2, <2>3, <3>1, NotEmpty
  <2> DEFINE p == [of |-> n, toks |-> SubSeq(toks, 1, k)]
             q == [of |-> n, toks |-> SubSeq(toks, k + 1, Len(toks))]
  <2>5. p \in PacketType /\ q \in PacketType
    BY <1>1, <2>2 DEF PacketType
  <2>6. Packets(n, toks, k) = <<p, q>>
    BY <1>3 DEF Packets
  <2> HIDE DEF p, q
  <2>7. <<p, q>> \in Seq(PacketType) /\ DOMAIN <<p, q>> = {1, 2}
    BY <2>5
  <2>8. p.toks # <<>> /\ q.toks # <<>>
    BY <1>1, <2>4 DEF p, q
  <2> QED
    BY <2>6, <2>7, <2>8
<1> QED
  BY <1>2, <1>3

(* Each step of the parser keeps the types.                                *)
LEMMA ParserTypes ==
    ASSUME MssqlTypeOK, Parse
    PROVE  MssqlTypeOK'
<1> USE DEF MssqlTypeOK, ReaderTypeOK, caller, server
<1>0. ServerTypeOK'
  BY DEF Parse, ReadPacket, ReadFails, ParseData, ParseEnvChange, ParseDone, ServerTypeOK
<1>1. CASE ReadPacket
  BY <1>0, <1>1, TailFacts DEF ReadPacket
<1>2. CASE ReadFails
  <2>1. {"bad", "plain", "done"} \subseteq Tokens \cup Errors
    BY DEF Tokens, Errors
  <2>2. \A e \in Tokens \cup Errors : Append(chan, e) \in Seq(Tokens \cup Errors)
    BY AppendFacts
  <2>3. inbound' = inbound /\ buf' = buf /\ torn' \in BOOLEAN
    BY <1>2 DEF ReadFails
  <2>4. \E e \in {"bad", "plain", "done"} : chan' = Append(chan, e) /\ parser' = "off"
    BY <1>2 DEF ReadFails, Closes
  <2>5. UNCHANGED <<tries, link, sent, tranid>>
    BY <1>2 DEF ReadFails
  <2> QED
    BY <1>0, <2>1, <2>2, <2>3, <2>4, <2>5
<1>p. parser = "parse" =>
         /\ Token \in Tokens
         /\ [buf EXCEPT !.toks = Tail(@)] \in PacketType
         /\ ~LastOfPacket => [buf EXCEPT !.toks = Tail(@)].toks # <<>>
  <2>1. buf.toks \in Seq(Tokens)
    BY DEF PacketType
  <2>2. buf.toks # <<>> => Tail(buf.toks) \in Seq(Tokens)
    BY <2>1
  <2>3. buf.toks # <<>> => Head(buf.toks) \in Tokens
    BY <2>1, TailFacts
  <2>5. buf.toks # <<>> /\ Len(buf.toks) # 1 => Tail(buf.toks) # <<>>
    BY <2>1, TailFacts
  <2>6. [buf EXCEPT !.toks = Tail(@)].toks = Tail(buf.toks)
    BY DEF PacketType
  <2> QED
    BY <2>2, <2>3, <2>5, <2>6 DEF PacketType, Token, LastOfPacket
<1>3. CASE ParseData
  BY <1>0, <1>3, <1>p, AppendFacts DEF ParseData, Advance
<1>4. CASE ParseEnvChange
  BY <1>0, <1>4, <1>p DEF ParseEnvChange, Advance
<1>5. CASE ParseDone
  BY <1>0, <1>5, <1>p, AppendFacts DEF ParseDone, Closes
<1> QED
  BY <1>1, <1>2, <1>3, <1>4, <1>5 DEF Parse

(* Each step of the server, and the loss of the connection.                *)
LEMMA LeftoverType ==
    ASSUME CallTypeOK, MssqlTypeOK
    PROVE  late \cup Leftover \subseteq
              [line : Nat, tries : Nat, wire : Seq(Requests), tran : Trans]
           /\ \A s \in late \cup Leftover : s.wire # <<>>
<1>1. line \in Nat /\ tries \in Nat
  BY LastLineType, MaxTriesType DEF CallTypeOK, MssqlTypeOK
<1> QED
  BY <1>1 DEF Leftover, MssqlTypeOK, ServerTypeOK

LEMMA ServerTypes ==
    ASSUME CallTypeOK, MssqlTypeOK,
           Serve \/ Cut \/ \E s \in late : LateEnds(s) \/ LateServe(s)
    PROVE  MssqlTypeOK' /\ applied' \in Seq(Nat) /\ UNCHANGED caller
<1> USE DEF MssqlTypeOK, ReaderTypeOK, ServerTypeOK, reader
<1>1. CASE Serve
  <2>1. PICK o \in Outcomes(Head(wire), tran) :
           /\ tran' = o.tran /\ applied' = applied \o o.effect
           /\ \E k \in 1..Len(o.toks) :
                 inbound' = inbound \o Packets(Head(wire).n, o.toks, k)
    BY <1>1 DEF Serve
  <2>2. Head(wire) \in Requests /\ Head(wire).n \in Nat /\ wire' \in Seq(Requests)
    <3>1. Head(wire) \in Requests /\ Tail(wire) \in Seq(Requests)
      BY <1>1, TailFacts DEF Serve
    <3> QED
      BY <1>1, <3>1 DEF Serve, Requests
  <2>3. /\ o.tran \in Trans /\ o.effect \in Seq(Nat)
        /\ o.toks \in Seq(Tokens) /\ o.toks # <<>>
    BY <2>2, OutcomeType
  <2>4. PICK k \in 1..Len(o.toks) : inbound' = inbound \o Packets(Head(wire).n, o.toks, k)
    BY <2>1
  <2> DEFINE ps == Packets(Head(wire).n, o.toks, k)
  <2>5. ps \in Seq(PacketType) /\ \A i \in DOMAIN ps : ps[i].toks # <<>>
    BY <2>2, <2>3, PacketsType
  <2>6. inbound' \in Seq(PacketType) /\ \A i \in DOMAIN inbound' : inbound'[i].toks # <<>>
    <3>1. inbound' = inbound \o ps
      BY <2>4
    <3> HIDE DEF ps
    <3>2. inbound \o ps \in Seq(PacketType)
      BY <2>5
    <3>3. \A i \in DOMAIN (inbound \o ps) :
             \/ i \in DOMAIN inbound /\ (inbound \o ps)[i] = inbound[i]
             \/ i - Len(inbound) \in DOMAIN ps /\ (inbound \o ps)[i] = ps[i - Len(inbound)]
      BY <2>5, ConcatFacts
    <3> QED
      BY <3>1, <3>2, <3>3, <2>5
  <2>7. applied' \in Seq(Nat)
    BY <2>1, <2>3 DEF CallTypeOK
  <2> QED
    BY <1>1, <2>1, <2>2, <2>3, <2>6, <2>7 DEF Serve, caller
<1>2. CASE Cut
  <2>1. inbound' \in Seq(PacketType) /\ \A i \in DOMAIN inbound' : inbound'[i].toks # <<>>
    BY <1>2, PrefixFacts DEF Cut
  <2>2. wire' \in Seq(Requests) /\ tran' \in Trans
    BY <1>2 DEF Cut, NoTran, Trans
  <2> QED
    BY <1>2, <2>1, <2>2, LeftoverType DEF Cut, caller, CallTypeOK
<1>3. ASSUME NEW s \in late, LateEnds(s)
      PROVE  MssqlTypeOK' /\ applied' \in Seq(Nat) /\ UNCHANGED caller
  BY <1>3 DEF LateEnds, caller, CallTypeOK
<1>4. ASSUME NEW s \in late, LateServe(s)
      PROVE  MssqlTypeOK' /\ applied' \in Seq(Nat) /\ UNCHANGED caller
  <2>1. s \in [line : Nat, tries : Nat, wire : Seq(Requests), tran : Trans] /\ s.wire # <<>>
    OBVIOUS
  <2>2. PICK o \in Outcomes(Head(s.wire), s.tran) :
           /\ applied' = applied \o o.effect
           /\ late' = (late \ {s}) \cup
                 (IF Len(s.wire) = 1 THEN {}
                  ELSE {[s EXCEPT !.wire = Tail(@), !.tran = o.tran]})
    BY <1>4 DEF LateServe
  <2>3. s.wire \in Seq(Requests) /\ s.tran \in Trans
    BY <2>1
  <2>4. Head(s.wire) \in Requests /\ Tail(s.wire) \in Seq(Requests)
        /\ (Len(s.wire) # 1 => Tail(s.wire) # <<>>)
    BY <2>1, <2>3, TailFacts
  <2>5. o.tran \in Trans /\ o.effect \in Seq(Nat)
    BY <2>3, <2>4, OutcomeType
  <2>6. /\ [s EXCEPT !.wire = Tail(@), !.tran = o.tran] \in
              [line : Nat, tries : Nat, wire : Seq(Requests), tran : Trans]
        /\ [s EXCEPT !.wire = Tail(@), !.tran = o.tran].wire = Tail(s.wire)
    BY <2>1, <2>4, <2>5
  <2>7. ServerTypeOK'
    BY <1>4, <2>2, <2>4, <2>6 DEF LateServe
  <2>8. applied' \in Seq(Nat)
    BY <2>2, <2>5 DEF CallTypeOK
  <2> QED
    BY <1>4, <2>7, <2>8 DEF LateServe, caller
<1> QED
  BY <1>1, <1>2, <1>3, <1>4

(* Each step of the goroutine of the request.                              *)
LEMMA HangUpTypes ==
    ASSUME CallTypeOK, MssqlTypeOK, HangUp
    PROVE  /\ ServerTypeOK' /\ ReaderTypeOK'
           /\ link' \in {"none", "up", "cut"} /\ sent' \in Nat /\ tranid' \in BOOLEAN
<1>1. wire' \in Seq(Requests) /\ tran' \in Trans
  BY DEF HangUp, NoTran, Trans
<1>2. ReaderTypeOK'
  <2>1. inbound' = <<>> /\ torn' = FALSE /\ chan' = <<>> /\ parser' = parser /\ buf' = buf
    BY DEF HangUp
  <2>2. inbound' \in Seq(PacketType) /\ chan' \in Seq(Tokens \cup Errors)
        /\ \A k \in DOMAIN inbound' : inbound'[k].toks # <<>>
    BY <2>1
  <2> QED
    BY <2>1, <2>2 DEF MssqlTypeOK, ReaderTypeOK
<1> QED
  BY <1>1, <1>2, LeftoverType DEF HangUp, ServerTypeOK, MssqlTypeOK

LEMMA FailsTypes ==
    ASSUME CallTypeOK, MssqlTypeOK, driver = "mssql", NEW e, Fails(e)
    PROVE  CallTypeOK' /\ MssqlTypeOK'
<1> USE DEF CallTypeOK, Over, MssqlSteps, Kinds
<1>l. UNCHANGED <<driver, call>> => LastLine' = LastLine
  BY DEF LastLine
<1>1. CASE /\ Resends(e) /\ HangUp
           /\ pc' = "connect" /\ tries' = tries + 1 /\ UNCHANGED <<req, line>>
  <2>1. tries' \in 1..MaxTries
    BY <1>1, MaxTriesType DEF Resends, MssqlTypeOK
  <2> QED
    BY <1>1, <1>l, <2>1, HangUpTypes DEF HangUp, MssqlTypeOK
<1>2. CASE /\ pc' = "send" /\ req' = "rollback" /\ chan' = <<>>
           /\ UNCHANGED <<driver, call, line, tries, link, sent, tranid, server, inbound, torn, parser, buf>>
  <2>1. chan' \in Seq(Tokens \cup Errors)
    BY <1>2
  <2> QED
    BY <1>2, <1>l, <2>1 DEF server, MssqlTypeOK, ServerTypeOK, ReaderTypeOK
<1>3. CASE /\ HangUp /\ pc' = (IF req = "rollback" THEN "panic" ELSE "failed")
           /\ UNCHANGED <<req, line, tries>>
  BY <1>3, <1>l, HangUpTypes DEF HangUp, MssqlTypeOK
<1> QED
  BY <1>1, <1>2, <1>3 DEF Fails

LEMMA CallerTypes ==
    ASSUME CallTypeOK, MssqlTypeOK, driver = "mssql", Caller
    PROVE  CallTypeOK' /\ MssqlTypeOK'
<1> USE DEF CallTypeOK, Over, MssqlSteps, Kinds
<1>l. UNCHANGED <<driver, call>> => LastLine' = LastLine
  BY DEF LastLine
<1>c. chan # <<>> => Tail(chan) \in Seq(Tokens \cup Errors)
  BY DEF MssqlTypeOK, ReaderTypeOK
<1>1. CASE Start /\ UNCHANGED mssqlVars
  BY <1>1, <1>l DEF Start, mssqlVars, MssqlTypeOK, ServerTypeOK, ReaderTypeOK
<1>2. CASE Connect
  BY <1>2, <1>l DEF Connect, server, reader, MssqlTypeOK, ServerTypeOK, ReaderTypeOK
<1>3. CASE Send
  <2>1. [kind |-> req, line |-> line, n |-> sent + 1] \in Requests
    BY LastLineType DEF Requests, MssqlTypeOK
  <2>2. wire' \in Seq(Requests)
    BY <1>3, <2>1, AppendFacts DEF Send, MssqlTypeOK, ServerTypeOK
  <2>3. buf' \in PacketType /\ chan' \in Seq(Tokens \cup Errors)
    BY <1>3 DEF Send, NoPacket, PacketType
  <2>4. ServerTypeOK'
    BY <1>3, <2>2 DEF Send, MssqlTypeOK, ServerTypeOK
  <2>5. ReaderTypeOK'
    BY <1>3, <2>3 DEF Send, MssqlTypeOK, ReaderTypeOK
  <2> QED
    BY <1>3, <1>l, <2>4, <2>5 DEF Send, MssqlTypeOK
<1>4. CASE SendFails
  BY <1>4, FailsTypes DEF SendFails
<1>5. CASE ReceiveError
  BY <1>5, FailsTypes DEF ReceiveError
<1>6. CASE ReceiveToken \/ Drain
  BY <1>6, <1>l, <1>c DEF ReceiveToken, Drain, caller, server, MssqlTypeOK, ServerTypeOK, ReaderTypeOK
<1>7. CASE NextInTx
  <2>1. line' \in 1..LastLine
    BY <1>7, LastLineType DEF NextInTx
  <2>2. tries' \in 1..MaxTries
    BY <1>7, MaxTriesType DEF NextInTx
  <2> QED
    BY <1>7, <1>l, <2>1, <2>2 DEF NextInTx, server, reader, MssqlTypeOK, ServerTypeOK, ReaderTypeOK
<1>8. CASE NextLine
  <2>1. line' \in 1..LastLine
    BY <1>8, LastLineType DEF NextLine
  <2>2. tries' \in 1..MaxTries
    BY <1>8, MaxTriesType DEF NextLine, MssqlTypeOK
  <2> QED
    BY <1>8, <1>l, <2>1, <2>2, HangUpTypes DEF NextLine, HangUp, MssqlTypeOK
<1>9. CASE EndOfTx \/ RowsClosed
  BY <1>9, <1>l, HangUpTypes DEF EndOfTx, RowsClosed, HangUp, MssqlTypeOK
<1>10. CASE QueryReturns
  BY <1>10, <1>l, <1>c DEF QueryReturns, server, MssqlTypeOK, ServerTypeOK, ReaderTypeOK
<1>11. CASE Scan
  BY <1>11, <1>l, <1>c DEF Scan, server, MssqlTypeOK, ServerTypeOK, ReaderTypeOK
<1> QED
  BY <1>1, <1>2, <1>3, <1>4, <1>5, <1>6, <1>7, <1>8, <1>9, <1>10, <1>11 DEF Caller

(* Each step of a call on the ODBC driver keeps the types.                 *)
LEMMA OdbcTypes ==
    ASSUME CallTypeOK, OdbcTypeOK, driver = "odbc", OdbcNext
    PROVE  CallTypeOK' /\ OdbcTypeOK'
<1> USE DEF CallTypeOK, OdbcTypeOK, Over, OdbcSteps, Kinds, session, NoStmt
<1>l. UNCHANGED <<driver, call>> => LastLine' = LastLine
  BY DEF LastLine
<1>n. line \in Nat /\ <<line>> \in Seq(Nat) /\ <<>> \in Seq(Nat)
      /\ Append(work, line) \in Seq(Nat) /\ Append(applied, line) \in Seq(Nat)
      /\ applied \o limbo \in Seq(Nat) /\ applied \o work \in Seq(Nat)
  <2>1. line \in Nat
    BY LastLineType
  <2> QED
    BY <2>1, AppendFacts, ConcatFacts
<1>a. ASSUME NEW e, AfterRequest(e)
      PROVE  /\ pc' \in {"end", "prepare", "close"}
             /\ req' \in Kinds /\ line' \in 1..LastLine
  BY <1>a, LastLineType DEF AfterRequest
<1>1. CASE Start /\ UNCHANGED odbcVars
  BY <1>1, <1>l DEF Start, odbcVars
<1>2. CASE LimboEnds
  BY <1>2, <1>l, <1>n DEF LimboEnds
<1>3. CASE Open
  BY <1>3, <1>l, <1>n DEF Open
<1>4. CASE Begin
  BY <1>4, <1>l DEF Begin
<1>5. CASE Prepare
  <2>1. /\ stmt' \in [h : BOOLEAN, usedByStmt : BOOLEAN, usedByRows : BOOLEAN]
        /\ err' \in BOOLEAN /\ UNCHANGED <<driver, call, applied, live, inTx, auto, work, limbo>>
    <3>1. stmt' \in {[h |-> TRUE, usedByStmt |-> TRUE, usedByRows |-> FALSE], NoStmt}
          /\ err' \in {TRUE, FALSE}
      BY <1>5 DEF Prepare
    <3>2. UNCHANGED <<driver, call, applied, live, inTx, auto, work, limbo>>
      BY <1>5 DEF Prepare
    <3>3. [h |-> TRUE, usedByStmt |-> TRUE, usedByRows |-> FALSE]
             \in [h : BOOLEAN, usedByStmt : BOOLEAN, usedByRows : BOOLEAN]
      OBVIOUS
    <3>4. NoStmt \in [h : BOOLEAN, usedByStmt : BOOLEAN, usedByRows : BOOLEAN]
      OBVIOUS
    <3> QED
      BY <3>1, <3>2, <3>3, <3>4
  <2>2. /\ pc' \in {"execute", "end", "prepare", "close"}
        /\ req' \in Kinds /\ line' \in 1..LastLine
    BY <1>5, <1>a DEF Prepare
  <2> QED
    BY <2>1, <2>2, <1>l
<1>6. CASE Execute
  <2>1. /\ live' \in BOOLEAN /\ inTx' \in BOOLEAN /\ auto' \in BOOLEAN /\ err' \in BOOLEAN
        /\ work' \in Seq(Nat) /\ limbo' \in Seq(Nat) /\ applied' \in Seq(Nat)
    BY <1>6, <1>n DEF Execute, Loses
  <2>2. /\ pc' \in {"fetch", "closeStmt"} /\ UNCHANGED <<driver, call, req, line>>
        /\ stmt' \in [h : BOOLEAN, usedByStmt : BOOLEAN, usedByRows : BOOLEAN]
    BY <1>6 DEF Execute
  <2> QED
    BY <2>1, <2>2, <1>l
<1>7. CASE Fetch
  BY <1>7, <1>l DEF Fetch
<1>8. CASE CloseStmt
  BY <1>8, <1>l, <1>a DEF CloseStmt
<1>9. CASE EndTx
  BY <1>9, <1>l, <1>n DEF EndTx
<1>10. CASE Close
  <2>1. line' \in 1..LastLine
    BY <1>10, LastLineType DEF Close
  <2> QED
    BY <1>10, <1>l, <2>1 DEF Close
<1> QED
  BY <1>1, <1>2, <1>3, <1>4, <1>5, <1>6, <1>7, <1>8, <1>9, <1>10 DEF OdbcNext

LEMMA TypeInit ==
    ASSUME Init
    PROVE  TypeOK
<1>1. CallTypeOK
  <2>1. CallInit
    BY DEF Init
  <2>2. line \in 1..LastLine
    BY <2>1, LastLineType DEF CallInit
  <2>3. req \in Kinds
    BY <2>1, CallsType DEF CallInit, First, Kinds
  <2> QED
    BY <2>1, <2>2, <2>3 DEF CallInit, CallTypeOK
<1>0. MssqlInit
  BY DEF Init
<1>2. ServerTypeOK
  BY <1>0 DEF MssqlInit, ServerTypeOK, NoTran, Trans
<1>3. ReaderTypeOK
  <2>1. inbound \in Seq(PacketType) /\ chan \in Seq(Tokens \cup Errors)
        /\ \A k \in DOMAIN inbound : inbound[k].toks # <<>>
    BY <1>0 DEF MssqlInit
  <2>2. buf \in PacketType
    BY <1>0 DEF MssqlInit, NoPacket, PacketType
  <2> QED
    BY <1>0, <2>1, <2>2 DEF MssqlInit, ReaderTypeOK
<1>4. MssqlTypeOK
  <2>1. tries \in 1..MaxTries
    BY <1>0, MaxTriesType DEF MssqlInit
  <2> QED
    BY <1>0, <1>2, <1>3, <2>1 DEF MssqlInit, MssqlTypeOK
<1>5. OdbcTypeOK
  <2>1. OdbcInit
    BY DEF Init
  <2> QED
    <3>1. stmt \in [h : BOOLEAN, usedByStmt : BOOLEAN, usedByRows : BOOLEAN]
      BY <2>1 DEF OdbcInit, NoStmt
    <3>2. work \in Seq(Nat) /\ limbo \in Seq(Nat)
      BY <2>1 DEF OdbcInit
    <3> QED
      BY <2>1, <3>1, <3>2 DEF OdbcInit, OdbcTypeOK
<1> QED
  BY <1>1, <1>4, <1>5 DEF TypeOK

LEMMA TypeStep ==
    ASSUME TypeOK, [Next]_vars
    PROVE  TypeOK'
<1> USE DEF TypeOK
<1>1. CASE driver = "mssql" /\ MssqlNext /\ UNCHANGED odbcVars
  <2>1. OdbcTypeOK'
    BY <1>1 DEF OdbcTypeOK, odbcVars
  <2>2. CASE Parse
    <3>1. UNCHANGED <<caller, applied>>
      BY <2>2 DEF Parse, ReadPacket, ReadFails, ParseData, ParseEnvChange, ParseDone, server
    <3>2. CallTypeOK'
      BY <3>1 DEF CallTypeOK, caller, LastLine
    <3> QED
      BY <2>1, <2>2, <3>2, ParserTypes
  <2>3. CASE Caller
    BY <1>1, <2>1, <2>3, CallerTypes
  <2>4. CASE Serve \/ Cut \/ \E s \in late : LateEnds(s) \/ LateServe(s)
    <3>1. MssqlTypeOK' /\ applied' \in Seq(Nat) /\ UNCHANGED caller
      BY <2>4, ServerTypes
    <3>2. CallTypeOK'
      BY <3>1 DEF CallTypeOK, caller, LastLine
    <3> QED
      BY <2>1, <3>1, <3>2
  <2> QED
    BY <1>1, <2>2, <2>3, <2>4 DEF MssqlNext
<1>2. CASE driver = "odbc" /\ OdbcNext /\ UNCHANGED mssqlVars
  <2>1. MssqlTypeOK'
    BY <1>2 DEF MssqlTypeOK, ServerTypeOK, ReaderTypeOK, mssqlVars
  <2> QED
    BY <1>2, <2>1, OdbcTypes
<1>3. CASE UNCHANGED vars
  BY <1>3 DEF vars, callVars, mssqlVars, odbcVars, CallTypeOK, MssqlTypeOK, ServerTypeOK,
     ReaderTypeOK, OdbcTypeOK, LastLine
<1> QED
  BY <1>1, <1>2, <1>3 DEF Next

(* Every variable keeps its type, whatever the calls are and however large *)
(* the channel and the number of tries (a parser that parses has a token). *)
THEOREM DriversTypeCorrect == Spec => []TypeOK
<1>1. Init => TypeOK
  BY TypeInit
<1>2. TypeOK /\ [Next]_vars => TypeOK'
  BY TypeStep
<1> QED
  BY <1>1, <1>2, PTL DEF Spec

-----------------------------------------------------------------------------
(* The sessions of a call on the ODBC driver.                              *)

(* The lines that have taken effect stay, with those that follow.          *)
LEMMA HasMore ==
    ASSUME applied \in Seq(Nat), NEW s \in Seq(Nat), applied' = applied \o s
    PROVE  /\ \A n : Has(n) => Has(n)'
           /\ \A k \in DOMAIN s : Has(s[k])'
<1>1. /\ \A k \in DOMAIN applied : k \in DOMAIN applied' /\ applied'[k] = applied[k]
      /\ \A k \in DOMAIN s : k + Len(applied) \in DOMAIN applied' /\ applied'[k + Len(applied)] = s[k]
  BY ConcatFacts
<1> QED
  BY <1>1 DEF Has

LEMMA HasNext ==
    ASSUME applied \in Seq(Nat), NEW n \in Nat, applied' = Append(applied, n)
    PROVE  (\A m : Has(m) => Has(m)') /\ Has(n)'
<1>1. /\ \A k \in DOMAIN applied : applied'[k] = applied[k]
      /\ applied'[Len(applied) + 1] = n /\ DOMAIN applied' = 1..(Len(applied) + 1)
  BY AppendFacts
<1>2. DOMAIN applied \subseteq DOMAIN applied' /\ Len(applied) + 1 \in DOMAIN applied'
  BY <1>1
<1> QED
  BY <1>1, <1>2 DEF Has

(* One line more.                                                          *)
LEMMA UpToNext ==
    ASSUME NEW n \in Nat
    PROVE  UpTo(n) \in Seq(Nat) /\ Append(UpTo(n), n + 1) = UpTo(n + 1)
           /\ UpTo(0) = <<>>
<1>1. UpTo(n) \in Seq(Nat) /\ Len(UpTo(n)) = n
  BY DEF UpTo
<1>2. Append(UpTo(n), n + 1) = UpTo(n + 1)
  BY <1>1 DEF UpTo
<1> QED
  BY <1>1, <1>2 DEF UpTo

(* A call of some kind goes on to make the same requests.                  *)
LEMMA KindKept ==
    ASSUME KindOK, UNCHANGED <<call, req, line>>, \A n : Has(n) => Has(n)',
           call.kind = "query" => applied' = applied
    PROVE  KindOK'
BY DEF KindOK, Reached, LastLine

LEMMA KindInTx ==
    ASSUME call \in Calls, InTx, UNCHANGED call, req' \in {"begin", "line", "commit", "rollback"}
    PROVE  KindOK'
BY DEF KindOK, InTx

LEMMA KindNextLine ==
    ASSUME CallTypeOK, KindOK, call.kind = "exec", UNCHANGED <<call, req, applied>>,
           Has(line), line < LastLine, line' = line + 1
    PROVE  KindOK'
<1>1. line \in Nat /\ LastLine \in Nat /\ LastLine' = LastLine /\ line \in 1..LastLine
  BY LastLineType DEF CallTypeOK, LastLine
<1>2. (line + 1) - 1 = line
  BY <1>1
<1>3. line' \in 1..LastLine'
  BY <1>1
<1>4. \A n \in 1..line : n \in 1..(line - 1) \/ n = line
  BY <1>1
<1>5. \A n : Has(n)' <=> Has(n)
  BY DEF Has
<1>6. Reached(line)'
  BY <1>2, <1>3, <1>5 DEF Reached
<1>7. \A n \in 1..(line' - 1) : Has(n)'
  BY <1>2, <1>4, <1>5 DEF KindOK
<1> QED
  BY <1>6, <1>7 DEF KindOK

(* What Stmt and Rows hold.                                                *)
LEMMA StmtStep ==
    ASSUME OdbcTypeOK, StmtOK, OdbcNext
    PROVE  StmtOK'
<1> USE DEF OdbcTypeOK, StmtOK, NoStmt
<1>a. ASSUME NEW e, AfterRequest(e)
      PROVE  pc' \in {"end", "prepare", "close"}
  BY <1>a DEF AfterRequest
<1>1. CASE (Start /\ UNCHANGED odbcVars) \/ LimboEnds \/ Open \/ Begin
  BY <1>1 DEF Start, odbcVars, LimboEnds, Open, Begin
<1>2. CASE Prepare
  <2>1. CASE stmt' = [h |-> TRUE, usedByStmt |-> TRUE, usedByRows |-> FALSE] /\ pc' = "execute"
    BY <2>1
  <2>2. CASE stmt' = NoStmt /\ AfterRequest(TRUE)
    BY <2>2, <1>a
  <2> QED
    BY <1>2, <2>1, <2>2 DEF Prepare
<1>3. CASE Execute
  BY <1>3 DEF Execute
<1>4. CASE Fetch
  BY <1>4 DEF Fetch
<1>5. CASE CloseStmt
  BY <1>5, <1>a DEF CloseStmt
<1>6. CASE EndTx \/ Close
  BY <1>6 DEF EndTx, Close
<1> QED
  BY <1>1, <1>2, <1>3, <1>4, <1>5, <1>6 DEF OdbcNext

(* Outside of a transaction.                                               *)
LEMMA AutoStep ==
    ASSUME TypeOK, OdbcInv, driver = "odbc", ~InTx, OdbcNext
    PROVE  KindOK' /\ AutoOK'
<1> USE DEF TypeOK, OdbcInv
<1>0. /\ CallTypeOK /\ KindOK /\ applied \in Seq(Nat) /\ line \in 1..LastLine /\ line \in Nat
      /\ auto /\ work = <<>> /\ limbo \in Seq(Nat)
  BY LastLineType DEF CallTypeOK, OdbcTypeOK, AutoOK
<1>1. UNCHANGED call
  BY DEF OdbcNext, Start, odbcVars, LimboEnds, Open, Begin, Prepare, Execute, Fetch, CloseStmt, EndTx, Close
<1>2. call.kind \in {"exec", "query"} /\ ~InTx' /\ LastLine' = LastLine
  BY <1>1, CallsType DEF InTx, LastLine, CallTypeOK
<1>4. /\ call.kind = "exec" => req = "line" /\ Reached(line)
      /\ call.kind = "query" => req = "query" /\ applied = <<>> /\ limbo = <<>>
      /\ pc \notin {"begin", "end"}
      /\ \A k \in DOMAIN limbo : k = 1 /\ Reached(limbo[k])
  BY <1>0 DEF KindOK, AutoOK
<1>k. ASSUME UNCHANGED <<req, line>>, \A n : Has(n) => Has(n)', call.kind = "query" => applied' = applied
      PROVE  KindOK' /\ (\A n : Reached(n) => Reached(n)')
  BY <1>0, <1>1, <1>2, <1>k, KindKept DEF Reached
<1>u. applied' = applied => \A n : Has(n) <=> Has(n)'
  BY DEF Has
<1>a. ASSUME NEW e, AfterRequest(e)
      PROVE  pc' = "close" /\ UNCHANGED <<req, line>>
  BY <1>2, <1>a DEF AfterRequest
<1>5. CASE (Start /\ UNCHANGED odbcVars) \/ Open
  <2>1. /\ UNCHANGED <<req, line, applied, limbo>> /\ work' = <<>> /\ auto' = TRUE
        /\ pc' \in {"connect", "prepare", "failed"}
    BY <1>5, <1>0, <1>2, <1>4 DEF Start, odbcVars, Open
  <2> QED
    BY <1>0, <1>1, <1>2, <1>4, <1>k, <1>u, <2>1 DEF AutoOK
<1>6. CASE LimboEnds
  <2>1. \A n : Has(n) => Has(n)'
    BY <1>6, <1>0, HasMore DEF LimboEnds
  <2>2. limbo' = <<>> /\ UNCHANGED <<pc, req, line, auto, work, err>> /\ call.kind = "exec"
    BY <1>6, <1>2, <1>4 DEF LimboEnds
  <2> QED
    BY <1>0, <1>2, <1>4, <1>k, <2>1, <2>2 DEF AutoOK
<1>7. CASE Prepare
  <2>1. UNCHANGED <<req, line, applied, limbo, work, auto>> /\ pc' \in {"execute", "close"}
        /\ (pc' = "close" => err')
    BY <1>7, <1>a DEF Prepare, session
  <2> QED
    BY <1>0, <1>1, <1>2, <1>4, <1>k, <1>u, <2>1 DEF AutoOK
<1>8. CASE Execute
  <2>1. UNCHANGED <<req, line, auto>> /\ work' = <<>> /\ pc' \in {"fetch", "closeStmt"}
    BY <1>8, <1>0, <1>2, <1>4 DEF Execute, Loses, session
  <2>f. pc' = "fetch" => call.kind = "query"
    BY <1>8, <1>2, <1>4 DEF Execute
  <2>2. \/ applied' = applied /\ limbo' = limbo /\ (err' \/ call.kind = "query")
        \/ applied' = Append(applied, line) /\ limbo' = limbo /\ call.kind = "exec"
        \/ applied' = applied /\ limbo' = <<>> /\ err'
        \/ applied' = applied /\ limbo' = <<line>> /\ err' /\ call.kind = "exec"
    BY <1>8, <1>0, <1>2, <1>4 DEF Execute, Loses, session
  <2>3. (\A n : Has(n) => Has(n)') /\ (applied' = Append(applied, line) => Has(line)')
    <3>1. CASE applied' = applied
      <4>1. applied # Append(applied, line)
        BY <1>0
      <4> QED
        BY <1>u, <3>1, <4>1
    <3>2. CASE applied' = Append(applied, line)
      <4>1. applied \in Seq(Nat) /\ line \in Nat
        BY <1>0
      <4>2. (\A n : Has(n) => Has(n)') /\ Has(line)'
        BY <2>1, <3>2, <4>1, HasNext
      <4> QED
        BY <4>2
    <3> QED
      BY <2>2, <3>1, <3>2
  <2>4. KindOK' /\ \A n : Reached(n) => Reached(n)'
    BY <1>k, <2>1, <2>2, <2>3
  <2>5. \A k \in DOMAIN limbo' : k = 1 /\ Reached(limbo[k])'
    <3>1. CASE limbo' = limbo
      BY <1>4, <2>4, <3>1
    <3>2. CASE limbo' = <<>>
      BY <3>2
    <3>3. CASE limbo' = <<line>> /\ call.kind = "exec"
      <4>1. Reached(line)'
        BY <2>1, <2>4, <3>3 DEF KindOK
      <4> QED
        BY <2>1, <3>3, <4>1
    <3> QED
      BY <2>2, <3>1, <3>2, <3>3
  <2>6. call.kind = "query" => limbo' = <<>>
    BY <1>4, <2>2
  <2>7. ~err' /\ call.kind = "exec" => Has(line)'
    BY <2>1, <2>2, <2>3
  <2> QED
    BY <1>0, <1>1, <1>2, <2>1, <2>4, <2>5, <2>6, <2>7, <2>f DEF AutoOK
<1>9. CASE Fetch
  <2>1. UNCHANGED <<req, line, applied, limbo, work, auto>> /\ pc = "fetch" /\ pc' = "closeStmt"
    BY <1>9 DEF Fetch, session
  <2>2. call.kind = "query"
    BY <1>0, <2>1 DEF AutoOK
  <2> QED
    BY <1>0, <1>1, <1>2, <1>4, <1>k, <1>u, <2>1, <2>2 DEF AutoOK
<1>10. CASE CloseStmt
  <2>1. UNCHANGED <<req, line, applied, limbo, work, auto, err>> /\ pc = "closeStmt" /\ pc' = "close"
    BY <1>10, <1>a DEF CloseStmt, session
  <2> QED
    BY <1>0, <1>1, <1>2, <1>4, <1>k, <1>u, <2>1 DEF AutoOK
<1>11. CASE Begin \/ EndTx
  BY <1>11, <1>4 DEF Begin, EndTx
<1>12. CASE Close
  <2>1. UNCHANGED <<req, applied, limbo, work>> /\ auto' = TRUE /\ pc = "close"
        /\ pc' \in {"connect", "failed", "ok", "panic"}
    BY <1>12, <1>0 DEF Close, session
  <2>2. \/ UNCHANGED line
        \/ call.kind = "exec" /\ Has(line) /\ line < LastLine /\ line' = line + 1
    BY <1>12, <1>0, <1>2, <2>1 DEF Close, AutoOK
  <2>3. KindOK'
    BY <1>0, <1>1, <1>k, <1>u, <2>1, <2>2, KindNextLine
  <2>4. \A n : Reached(n) => Reached(n)'
    BY <1>2, <1>u, <2>1 DEF Reached
  <2> QED
    BY <1>0, <1>1, <1>2, <1>4, <2>1, <2>3, <2>4 DEF AutoOK
<1> QED
  BY <1>5, <1>6, <1>7, <1>8, <1>9, <1>10, <1>11, <1>12 DEF OdbcNext

(* In a transaction.                                                       *)
LEMMA WorkStep ==
    ASSUME TypeOK, OdbcInv, driver = "odbc", InTx, OdbcNext
    PROVE  KindOK' /\ WorkOK' /\ EndOK'
<1> USE DEF TypeOK, OdbcInv
<1>0. /\ CallTypeOK /\ KindOK /\ line \in 1..LastLine /\ line \in Nat /\ LastLine \in Nat
      /\ call \in Calls /\ WorkOK /\ EndOK
  BY LastLineType DEF CallTypeOK
<1>1. UNCHANGED call
  BY DEF OdbcNext, Start, odbcVars, LimboEnds, Open, Begin, Prepare, Execute, Fetch, CloseStmt, EndTx, Close
<1>2. call.kind = "tx" /\ InTx' /\ LastLine' = LastLine
  BY <1>1 DEF InTx, LastLine
<1>k. req' \in {"begin", "line", "commit", "rollback"} => KindOK'
  BY <1>0, <1>1, KindInTx
<1>r. req \in {"begin", "line", "commit", "rollback"}
  BY <1>0, <1>2 DEF KindOK
<1>n. /\ (line + 1) - 1 = line /\ UpTo(1 - 1) = <<>>
      /\ Append(UpTo(line - 1), line) = UpTo(line)
      /\ (line # LastLine => line + 1 \in 1..LastLine)
  <2>1. line - 1 \in Nat /\ (line - 1) + 1 = line /\ (line + 1) - 1 = line /\ 1 - 1 = 0
    BY <1>0
  <2>2. Append(UpTo(line - 1), (line - 1) + 1) = UpTo((line - 1) + 1) /\ UpTo(0) = <<>>
    BY <2>1, UpToNext
  <2>3. line # LastLine => line + 1 \in 1..LastLine
    BY <1>0
  <2> QED
    BY <2>1, <2>2, <2>3
<1> USE DEF Over
<1>3. CASE (Start /\ UNCHANGED odbcVars) \/ Open
  BY <1>0, <1>2, <1>3, <1>k, <1>r DEF Start, odbcVars, Open, WorkOK, EndOK
<1>4. CASE LimboEnds
  <2>1. UNCHANGED <<pc, req, line, auto, work, err>> /\ limbo # <<>> /\ limbo' = <<>>
        /\ applied' = applied \o limbo
    BY <1>4 DEF LimboEnds
  <2>2. pc \in {"close"} \cup Over
    BY <1>0, <1>2, <2>1 DEF WorkOK, CallTypeOK, OdbcSteps
  <2>3. applied = <<>> /\ limbo = UpTo(LastLine) /\ req = "commit"
    BY <1>0, <2>1, <2>2 DEF EndOK
  <2>4. applied' = UpTo(LastLine)
    BY <1>0, <2>1, <2>3, UpToNext
  <2> QED
    BY <1>0, <1>2, <1>k, <1>r, <2>1, <2>2, <2>3, <2>4 DEF WorkOK, EndOK
<1>5. CASE Begin
  BY <1>0, <1>2, <1>5, <1>k, <1>n DEF Begin, WorkOK, EndOK
<1>6. CASE Prepare
  BY <1>0, <1>2, <1>6, <1>k DEF Prepare, AfterRequest, session, WorkOK, EndOK
<1>7. CASE Execute
  <2>1. /\ pc = "execute" /\ req = "line" /\ applied = <<>> /\ limbo = <<>> /\ ~auto
        /\ work = UpTo(line - 1)
    BY <1>0, <1>2, <1>7 DEF Execute, WorkOK
  <2>2. UNCHANGED <<applied, limbo, auto, req, line>> /\ pc' = "closeStmt"
    BY <1>7, <2>1 DEF Execute, Loses, session
  <2>3. ~err' => work' = Append(work, line)
    BY <1>7, <2>1 DEF Execute, Loses, session
  <2> QED
    BY <1>0, <1>2, <1>k, <1>n, <2>1, <2>2, <2>3 DEF WorkOK, EndOK
<1>8. CASE Fetch
  BY <1>0, <1>2, <1>8 DEF Fetch, WorkOK
<1>9. CASE CloseStmt
  BY <1>0, <1>2, <1>9, <1>k, <1>n DEF CloseStmt, AfterRequest, session, WorkOK, EndOK
<1>10. CASE EndTx
  <2>1. /\ pc = "end" /\ pc' = "close" /\ UNCHANGED <<req, line>>
        /\ applied = <<>> /\ limbo = <<>> /\ req \in {"commit", "rollback"}
        /\ (req = "commit" => work = UpTo(LastLine))
    BY <1>0, <1>2, <1>10 DEF EndTx, WorkOK
  <2>2. \/ /\ work' = <<>> /\ limbo' = limbo
           /\ applied' = IF req = "commit" THEN applied \o work ELSE applied
        \/ err' /\ UNCHANGED <<work, limbo, applied>>
        \/ err' /\ limbo' \in {<<>>, IF req = "commit" THEN work ELSE <<>>} /\ UNCHANGED applied
    BY <1>10 DEF EndTx
  <2>3. req = "commit" => applied \o work = UpTo(LastLine)
    BY <1>0, <2>1, UpToNext
  <2> QED
    BY <1>0, <1>2, <1>k, <2>1, <2>2, <2>3 DEF WorkOK, EndOK
<1>11. CASE Close
  <2>0. call.kind # "exec"
    BY <1>2
  <2>1. /\ pc = "close" /\ pc' \in Over /\ UNCHANGED <<req, line, applied, limbo>>
        /\ (req = "rollback" => pc' = IF err THEN "panic" ELSE "failed")
    <3>1. UNCHANGED <<limbo, applied, req>>
      BY <1>11 DEF Close, session
    <3>2. /\ pc' = IF ~err /\ req # "rollback" THEN "ok"
                   ELSE IF err /\ req = "rollback" THEN "panic"
                   ELSE "failed"
          /\ UNCHANGED line
      BY <1>11, <2>0 DEF Close
    <3>3. pc = "close"
      BY <1>11 DEF Close
    <3> QED
      BY <3>1, <3>2, <3>3
  <2>2. work' \in {<<>>, work} /\ (work = <<>> => work' = <<>>)
    BY <1>11 DEF Close, session
  <2> QED
    BY <1>0, <1>2, <1>k, <1>r, <2>1, <2>2 DEF WorkOK, EndOK
<1> QED
  BY <1>3, <1>4, <1>5, <1>6, <1>7, <1>8, <1>9, <1>10, <1>11 DEF OdbcNext

LEMMA OdbcStep ==
    ASSUME TypeOK, OdbcInv, driver = "odbc", OdbcNext, UNCHANGED mssqlVars
    PROVE  OdbcInv'
<1>1. parser' = "off" /\ UNCHANGED call
  BY DEF OdbcInv, mssqlVars, OdbcNext, Start, odbcVars, LimboEnds, Open, Begin, Prepare,
     Execute, Fetch, CloseStmt, EndTx, Close
<1>2. StmtOK'
  BY StmtStep DEF TypeOK, OdbcInv
<1>3. InTx' <=> InTx
  BY <1>1 DEF InTx
<1>4. CASE InTx
  BY <1>1, <1>2, <1>3, <1>4, WorkStep DEF OdbcInv, AutoOK
<1>5. CASE ~InTx
  BY <1>1, <1>2, <1>3, <1>5, AutoStep DEF OdbcInv, WorkOK, EndOK
<1> QED
  BY <1>4, <1>5

-----------------------------------------------------------------------------
(* The sessions of a call on go-mssqldb.                                   *)

(* What a step of the server may add to the lines that have taken effect.  *)
Takes ==
    \/ applied' = applied
    \/ InTx /\ req = "commit" /\ applied = <<>> /\ applied' = UpTo(LastLine)
    \/ call.kind = "exec" /\ \E n \in 1..LastLine : Reached(n) /\ applied' = Append(applied, n)

(* What depends on the request and the server only.                        *)
LEMMA AnsweredKept ==
    ASSUME UNCHANGED <<call, req, line, applied, wire, tran>>, link' # "up" \/ link' = link
    PROVE  Answered => Answered'
BY DEF Answered, Has, InTx, LastLine, UpTo, OpenWith

LEMMA ServerKept ==
    ASSUME UNCHANGED <<call, pc, req, line, applied, wire, tran, late>>, KindOK, TxOK, NoTxOK
    PROVE  KindOK' /\ TxOK' /\ NoTxOK' /\ Before' = Before
BY DEF KindOK, TxOK, NoTxOK, TxLateOK, Commits, Reached, Has, InTx, LastLine, UpTo, OpenWith, Before, NoTran

(* The parser.                                                             *)
LEMMA ParserStep ==
    ASSUME TypeOK, MssqlInv, driver = "mssql", Parse
    PROVE  KindOK' /\ OneReader' /\ RestOK' /\ ReaderOK' /\ AnswerOK' /\ TxOK' /\ NoTxOK'
<1> USE DEF MssqlInv
<1>0. /\ UNCHANGED <<driver, call, pc, req, line, applied, wire, tran, late, link, sent>> /\ parser # "off"
  BY DEF Parse, ReadPacket, ReadFails, ParseData, ParseEnvChange, ParseDone, caller, server
<1>1. pc \in Waiting
  BY <1>0 DEF OneReader, Waiting
<1>2. KindOK' /\ TxOK' /\ NoTxOK' /\ Before' = Before /\ (Answered => Answered')
  BY <1>0, ServerKept, AnsweredKept
<1>3. OneReader' /\ RestOK'
  BY <1>0, <1>1 DEF OneReader, RestOK, Waiting
<1>4. /\ inbound \in Seq(PacketType) /\ chan \in Seq(Tokens \cup Errors) /\ buf \in PacketType
      /\ buf.toks \in Seq(Tokens)
  BY DEF TypeOK, MssqlTypeOK, ReaderTypeOK, PacketType
<1>e. {"bad", "plain", "done", "refused", "columns", "row"} \subseteq Tokens \cup Errors
  BY DEF Tokens, Errors
<1>a. \A e \in Tokens \cup Errors :
         /\ Append(chan, e) # <<>>
         /\ \A k \in DOMAIN Append(chan, e) :
               Append(chan, e)[k] = e \/ (k \in DOMAIN chan /\ Append(chan, e)[k] = chan[k])
         /\ chan = <<>> => DOMAIN Append(chan, e) = {1}
  BY <1>4, AppendFacts
<1>5. \A k \in DOMAIN chan : chan[k] \in {"columns", "row"}
  BY <1>0 DEF ReaderOK
<1>6. req # "query" => chan = <<>>
  <2>1. req # "query" => DOMAIN chan = {}
    BY <1>5 DEF ReaderOK, Errors
  <2> QED
    BY <1>4, <2>1
<1>7. CASE ReadPacket
  <2>1. /\ inbound # <<>> /\ ~torn /\ torn' = torn /\ chan' = chan /\ parser' = "parse"
        /\ buf' = inbound[1] /\ inbound' = Tail(inbound)
    BY <1>7, <1>4 DEF ReadPacket
  <2>2. /\ Len(inbound) \in Nat /\ Len(inbound') = Len(inbound) - 1 /\ 1 \in DOMAIN inbound
        /\ \A k \in DOMAIN inbound' : k + 1 \in DOMAIN inbound /\ inbound'[k] = inbound[k + 1]
    BY <1>4, <2>1, TailFacts
  <2>3. Len(inbound) = 1 => inbound' = <<>>
    BY <1>4, <2>1, <2>2
  <2>4. ReaderOK'
    BY <1>0, <1>5, <1>6, <2>1, <2>2 DEF ReaderOK, Errors
  <2>5. ASSUME req # "rollback" PROVE AnswerOK'
    <3>1. wire = <<>>
      BY <1>1, <2>1, <2>5 DEF AnswerOK
    <3>2. ASSUME NEW k \in DOMAIN inbound'
          PROVE  /\ inbound'[k].of = sent
                 /\ \A j \in DOMAIN inbound'[k].toks :
                       inbound'[k].toks[j] = "done" => k = Len(inbound') /\ Answered
      BY <1>1, <2>2, <2>5 DEF AnswerOK
    <3>3. /\ buf'.of = sent
          /\ \A j \in DOMAIN buf'.toks : buf'.toks[j] = "done" => inbound' = <<>> /\ Answered
      BY <1>1, <2>1, <2>2, <2>3, <2>5 DEF AnswerOK
    <3> QED
      BY <1>0, <1>2, <1>5, <2>1, <3>1, <3>2, <3>3 DEF AnswerOK
  <2>6. req = "rollback" => AnswerOK'
    BY <1>0 DEF AnswerOK
  <2> QED
    BY <1>2, <1>3, <2>4, <2>5, <2>6
<1>8. CASE ReadFails
  <2>1. /\ inbound' = inbound /\ buf' = buf /\ parser = "read" /\ parser' = "off"
        /\ \E e \in {"bad", "plain", "done"} : chan' = Append(chan, e) /\ (e = "done" => torn)
    BY <1>8 DEF ReadFails, Closes
  <2>2. PICK e \in {"bad", "plain", "done"} : chan' = Append(chan, e) /\ (e = "done" => torn)
    BY <2>1
  <2>3. /\ chan' # <<>> /\ \A k \in DOMAIN chan' : chan'[k] = e \/ (k \in DOMAIN chan /\ chan'[k] = chan[k])
        /\ (chan = <<>> => DOMAIN chan' = {1})
    BY <1>a, <1>e, <2>2
  <2>4. ReaderOK'
    BY <1>0, <1>5, <1>6, <2>1, <2>2, <2>3 DEF ReaderOK, Errors
  <2>5. req # "rollback" => e # "done"
    BY <1>0, <1>1, <2>2 DEF AnswerOK
  <2>6. AnswerOK'
    BY <1>0, <1>2, <1>5, <2>1, <2>2, <2>3, <2>5 DEF AnswerOK
  <2> QED
    BY <1>2, <1>3, <2>4, <2>6
<1>p. parser = "parse" =>
        /\ buf.toks # <<>> /\ Token = buf.toks[1] /\ 1 \in DOMAIN buf.toks
        /\ [buf EXCEPT !.toks = Tail(@)].of = buf.of
        /\ [buf EXCEPT !.toks = Tail(@)].toks = Tail(buf.toks)
        /\ \A j \in DOMAIN Tail(buf.toks) : j + 1 \in DOMAIN buf.toks /\ Tail(buf.toks)[j] = buf.toks[j + 1]
  <2>1. parser = "parse" => buf.toks # <<>>
    BY DEF TypeOK, MssqlTypeOK, ReaderTypeOK
  <2> QED
    BY <1>4, <2>1, TailFacts DEF Token, PacketType
<1>9. CASE ParseData
  <2>1. /\ parser = "parse" /\ Token \in {"columns", "row"} /\ chan' = Append(chan, Token)
        /\ parser' \in {"read", "parse"} /\ inbound' = inbound /\ torn' = torn
        /\ buf' = [buf EXCEPT !.toks = Tail(@)]
    BY <1>9 DEF ParseData, Advance
  <2>2. \A k \in DOMAIN chan' : chan'[k] = Token \/ (k \in DOMAIN chan /\ chan'[k] = chan[k])
    BY <1>a, <1>e, <2>1
  <2>3. req = "query"
    BY <1>p, <2>1 DEF ReaderOK
  <2>4. ReaderOK'
    BY <1>0, <1>5, <1>p, <2>1, <2>2, <2>3 DEF ReaderOK, Errors
  <2>5. AnswerOK'
    BY <1>0, <1>1, <1>2, <1>5, <1>p, <2>1, <2>2, <2>3 DEF AnswerOK
  <2> QED
    BY <1>2, <1>3, <2>4, <2>5
<1>10. CASE ParseEnvChange
  <2>1. /\ parser = "parse" /\ chan' = chan
        /\ parser' \in {"read", "parse"} /\ inbound' = inbound /\ torn' = torn
        /\ buf' = [buf EXCEPT !.toks = Tail(@)]
    BY <1>10 DEF ParseEnvChange, Advance
  <2>2. ReaderOK'
    BY <1>0, <1>5, <1>6, <1>p, <2>1 DEF ReaderOK, Errors
  <2>3. AnswerOK'
    BY <1>0, <1>1, <1>2, <1>5, <1>p, <2>1 DEF AnswerOK
  <2> QED
    BY <1>2, <1>3, <2>2, <2>3
<1>11. CASE ParseDone
  <2>1. /\ parser = "parse" /\ Token \in {"done", "refused"} /\ chan' = Append(chan, Token)
        /\ parser' = "off" /\ inbound' = inbound /\ torn' = torn
    BY <1>11 DEF ParseDone, Closes
  <2>2. /\ chan' # <<>> /\ \A k \in DOMAIN chan' : chan'[k] = Token \/ (k \in DOMAIN chan /\ chan'[k] = chan[k])
        /\ (chan = <<>> => DOMAIN chan' = {1})
    BY <1>a, <1>e, <2>1
  <2>3. ReaderOK'
    BY <1>0, <1>5, <1>6, <2>1, <2>2 DEF ReaderOK, Errors
  <2>4. req # "rollback" /\ Token = "done" => inbound = <<>> /\ Answered /\ ~torn
    BY <1>0, <1>1, <1>p, <2>1 DEF AnswerOK
  <2>5. AnswerOK'
    BY <1>0, <1>1, <1>2, <1>5, <2>1, <2>2, <2>4 DEF AnswerOK
  <2> QED
    BY <1>2, <1>3, <2>3, <2>5
<1> QED
  BY <1>2, <1>3, <1>7, <1>8, <1>9, <1>10, <1>11 DEF Parse

(* What the server sends: "done" comes last and when r was executed.       *)
LEMMA OutcomeFacts ==
    ASSUME NEW r \in Requests, NEW t \in Trans, NEW o \in Outcomes(r, t)
    PROVE  /\ \/ /\ o.tran = After(r, t) /\ o.effect = Effect(r, t)
                 /\ r.kind \in {"commit", "rollback"} => t.open
              \/ /\ o.tran \in {t, NoTran} /\ o.effect = <<>>
                 /\ \A j \in DOMAIN o.toks : o.toks[j] # "done"
           /\ \A j \in DOMAIN o.toks :
                 /\ o.toks[j] = "done" => j = Len(o.toks)
                 /\ o.toks[j] \in {"columns", "row"} => r.kind = "query"
<1>1. CASE o = Refused(t)
  BY <1>1 DEF Refused
<1>2. CASE o = Aborted
  BY <1>2 DEF Aborted
<1>3. CASE o = Executed(r, t) /\ (r.kind \in {"commit", "rollback"} => t.open)
  <2>1. o.tran = After(r, t) /\ o.effect = Effect(r, t) /\ o.toks = Reply(r)
    BY <1>3 DEF Executed
  <2>2. \A j \in DOMAIN Reply(r) :
           /\ Reply(r)[j] = "done" => j = Len(Reply(r))
           /\ Reply(r)[j] \in {"columns", "row"} => r.kind = "query"
    <3>1. CASE r.kind = "query"
      BY <3>1 DEF Reply
    <3>2. CASE r.kind # "query" /\ r.kind \in {"begin", "commit", "rollback"}
      BY <3>2 DEF Reply
    <3>3. CASE r.kind # "query" /\ r.kind \notin {"begin", "commit", "rollback"}
      BY <3>3 DEF Reply
    <3> QED
      BY <3>1, <3>2, <3>3
  <2> QED
    BY <1>3, <2>1, <2>2
<1> QED
  BY <1>1, <1>2, <1>3 DEF Outcomes

(* The tokens of an answer in its packets.                                 *)
LEMMA PacketsFacts ==
    ASSUME NEW n \in Nat, NEW toks \in Seq(Tokens), NEW k \in 1..Len(toks),
           NEW i \in DOMAIN Packets(n, toks, k)
    PROVE  /\ Packets(n, toks, k)[i].of = n
           /\ \A j \in DOMAIN Packets(n, toks, k)[i].toks : \E m \in DOMAIN toks :
                 /\ Packets(n, toks, k)[i].toks[j] = toks[m]
                 /\ m = Len(toks) => i = Len(Packets(n, toks, k))
<1>1. \A j \in DOMAIN SubSeq(toks, 1, k) : j \in DOMAIN toks /\ j <= k /\ SubSeq(toks, 1, k)[j] = toks[j]
  OBVIOUS
<1>2. CASE k = Len(toks)
  <2>1. Packets(n, toks, k) = <<[of |-> n, toks |-> toks]>>
    BY <1>2 DEF Packets
  <2>2. i = 1 /\ Len(Packets(n, toks, k)) = 1
    BY <2>1
  <2>3. Packets(n, toks, k)[i] = [of |-> n, toks |-> toks]
    BY <2>1, <2>2
  <2> QED
    BY <2>2, <2>3
<1>3. CASE k # Len(toks)
  <2> DEFINE rest == SubSeq(toks, k + 1, Len(toks))
             p == [of |-> n, toks |-> SubSeq(toks, 1, k)]
             q == [of |-> n, toks |-> rest]
  <2>1. Packets(n, toks, k) = <<p, q>>
    BY <1>3 DEF Packets
  <2>2. \A j \in DOMAIN rest : j + k \in DOMAIN toks /\ rest[j] = toks[j + k]
    OBVIOUS
  <2>3. p.of = n /\ q.of = n /\ p.toks = SubSeq(toks, 1, k) /\ q.toks = rest
    OBVIOUS
  <2> HIDE DEF p, q, rest
  <2>4. i \in {1, 2} /\ Len(Packets(n, toks, k)) = 2
    BY <2>1
  <2>5. (i = 1 => Packets(n, toks, k)[i] = p) /\ (i = 2 => Packets(n, toks, k)[i] = q)
    BY <2>1
  <2>6. \A j \in DOMAIN SubSeq(toks, 1, k) : j # Len(toks)
    BY <1>1, <1>3
  <2> QED
    BY <1>1, <2>2, <2>3, <2>4, <2>5, <2>6
<1> QED
  BY <1>2, <1>3

Spread(ps, toks) ==
    \A i \in DOMAIN ps : \A j \in DOMAIN ps[i].toks : \E m \in DOMAIN toks :
        ps[i].toks[j] = toks[m] /\ (m = Len(toks) => i = Len(ps))

LEMMA PacketsAll ==
    ASSUME NEW n \in Nat, NEW toks \in Seq(Tokens), NEW k \in 1..Len(toks),
           NEW ps, ps = Packets(n, toks, k)
    PROVE  /\ ps \in Seq(PacketType)
           /\ \A i \in DOMAIN ps : ps[i].of = n
           /\ Spread(ps, toks)
BY PacketsType, PacketsFacts DEF Spread

(* The server.                                                             *)
LEMMA ServeStep ==
    ASSUME TypeOK, MssqlInv, driver = "mssql", Serve
    PROVE  KindOK' /\ OneReader' /\ RestOK' /\ ReaderOK' /\ AnswerOK' /\ TxOK' /\ NoTxOK' /\ Takes
<1> USE DEF MssqlInv
<1> DEFINE r == wire[1]
<1>1. PICK o \in Outcomes(Head(wire), tran) :
         /\ tran' = o.tran /\ applied' = applied \o o.effect
         /\ \E k \in 1..Len(o.toks) :
               inbound' = inbound \o Packets(Head(wire).n, o.toks, k)
  BY DEF Serve
<1>2. PICK k \in 1..Len(o.toks) : inbound' = inbound \o Packets(Head(wire).n, o.toks, k)
  BY <1>1
<1>3. /\ wire # <<>> /\ link = "up" /\ wire' = Tail(wire)
      /\ UNCHANGED <<driver, call, pc, req, line, link, sent, torn, parser, buf, chan, late>>
  BY DEF Serve, caller, reader
<1>4. /\ CallTypeOK /\ wire \in Seq(Requests) /\ tran \in Trans /\ inbound \in Seq(PacketType)
      /\ applied \in Seq(Nat) /\ call \in Calls
  BY DEF TypeOK, CallTypeOK, MssqlTypeOK, ServerTypeOK, ReaderTypeOK
<1>5. /\ Head(wire) = r /\ r \in Requests /\ 1 \in DOMAIN wire /\ Len(wire) \in Nat
      /\ Len(Tail(wire)) = Len(wire) - 1 /\ r.n \in Nat /\ r.line \in Nat
      /\ \A m \in DOMAIN wire' : m + 1 \in DOMAIN wire /\ wire'[m] = wire[m + 1] /\ m + 1 # 1
  <2>1. /\ Head(wire) = r /\ r \in Requests /\ 1 \in DOMAIN wire /\ Len(wire) \in Nat
        /\ Len(Tail(wire)) = Len(wire) - 1
        /\ \A m \in DOMAIN Tail(wire) : m + 1 \in DOMAIN wire /\ Tail(wire)[m] = wire[m + 1]
    BY <1>3, <1>4, TailFacts
  <2>2. \A m \in DOMAIN Tail(wire) : m + 1 # 1
    BY <1>3, <1>4
  <2> QED
    BY <1>3, <2>1, <2>2 DEF Requests
<1>6. /\ o \in Outcomes(r, tran) /\ o.effect \in Seq(Nat) /\ o.toks \in Seq(Tokens)
      /\ \/ /\ o.tran = After(r, tran) /\ o.effect = Effect(r, tran)
            /\ r.kind \in {"commit", "rollback"} => tran.open
         \/ /\ o.tran \in {tran, NoTran} /\ o.effect = <<>>
            /\ \A j \in DOMAIN o.toks : o.toks[j] # "done"
      /\ \A j \in DOMAIN o.toks :
            /\ o.toks[j] = "done" => j = Len(o.toks)
            /\ o.toks[j] \in {"columns", "row"} => r.kind = "query"
  BY <1>1, <1>4, <1>5, OutcomeType, OutcomeFacts
<1> DEFINE ps == Packets(r.n, o.toks, k)
<1> HIDE DEF r
<1>8. inbound' = inbound \o ps
  BY <1>2, <1>5
<1>p. ps = Packets(r.n, o.toks, k)
  OBVIOUS
<1> HIDE DEF ps
<1>7. /\ ps \in Seq(PacketType)
      /\ \A i \in DOMAIN ps : ps[i].of = r.n
      /\ \A i \in DOMAIN ps : \A j \in DOMAIN ps[i].toks : \E m \in DOMAIN o.toks :
            ps[i].toks[j] = o.toks[m] /\ (m = Len(o.toks) => i = Len(ps))
  <2>1. r.n \in Nat /\ o.toks \in Seq(Tokens) /\ k \in 1..Len(o.toks)
    BY <1>5, <1>6
  <2> QED
    <3>1. ps \in Seq(PacketType)
      BY <1>p, <2>1, PacketsAll
    <3>2. \A i \in DOMAIN ps : ps[i].of = r.n
      BY <1>p, <2>1, PacketsAll
    <3>3. Spread(ps, o.toks)
      BY <1>p, <2>1, PacketsAll
    <3> QED
      BY <3>1, <3>2, <3>3 DEF Spread
<1>9. /\ \A i \in DOMAIN inbound' :
            \/ i \in DOMAIN inbound /\ inbound'[i] = inbound[i]
            \/ i - Len(inbound) \in DOMAIN ps /\ inbound'[i] = ps[i - Len(inbound)]
      /\ inbound = <<>> => inbound' = ps
  <2>1. \A i \in DOMAIN (inbound \o ps) :
            \/ i \in DOMAIN inbound /\ (inbound \o ps)[i] = inbound[i]
            \/ i - Len(inbound) \in DOMAIN ps /\ (inbound \o ps)[i] = ps[i - Len(inbound)]
    BY <1>4, <1>7, ConcatFacts
  <2>2. inbound = <<>> => inbound \o ps = ps
    BY <1>7
  <2> QED
    BY <1>8, <2>1, <2>2
<1>10. pc \in Waiting \/ (pc = "send" /\ req = "rollback")
  BY <1>3 DEF RestOK
<1>11. OneReader' /\ RestOK'
  BY <1>3, <1>10 DEF OneReader, RestOK, Waiting
<1>12. /\ applied' = applied \o o.effect
       /\ \A n : Has(n) => Has(n)'
       /\ o.effect = <<>> => applied' = applied
  <2>1. o.effect = <<>> => applied \o o.effect = applied
    BY <1>4
  <2> QED
    BY <1>1, <1>4, <1>6, <2>1, HasMore
<1>13. req # "rollback" =>
         /\ r.kind = req /\ r.line = line /\ r.n = sent /\ wire' = <<>> /\ inbound = <<>>
         /\ tran = Before /\ parser # "parse" /\ pc \in Waiting
         /\ \A m \in DOMAIN chan : chan[m] # "done"
         /\ ~(pc = "wait" /\ chan = <<>> /\ parser = "off")
  <2>1. ASSUME req # "rollback"
        PROVE  wire = <<[kind |-> req, line |-> line, n |-> sent]>>
    BY <1>3, <1>10, <2>1 DEF AnswerOK
  <2>2. ASSUME NEW q, wire = <<q>>
        PROVE  r = q /\ Tail(wire) = <<>>
    BY <2>2 DEF r
  <2> QED
    BY <1>3, <1>10, <2>1, <2>2 DEF AnswerOK, Answered
<1>14. ReaderOK'
  <2>1. r.kind = "query" => req = "query"
    BY <1>5 DEF ReaderOK, r
  <2>2. \A i \in DOMAIN inbound' : \A j \in DOMAIN inbound'[i].toks :
           inbound'[i].toks[j] \in {"columns", "row"} => req = "query"
    BY <1>6, <1>7, <1>9, <2>1 DEF ReaderOK
  <2> QED
    BY <1>3, <1>5, <2>2 DEF ReaderOK
<1>k. /\ call.kind \in {"tx", "exec", "query"} /\ LastLine' = LastLine /\ (InTx' <=> InTx)
      /\ InTx => req \in {"begin", "line", "commit", "rollback"}
      /\ call.kind = "exec" => req = "line" /\ Reached(line)
      /\ call.kind = "query" => req = "query"
      /\ (~InTx => tran = NoTran /\ r.kind = req)
      /\ ~NoTran.open
  <2>1. ~InTx => tran = NoTran /\ r.kind = req
    BY <1>13, <1>4, CallsType DEF KindOK, InTx, NoTxOK
  <2> QED
    BY <1>3, <1>4, <2>1, CallsType DEF KindOK, InTx, LastLine, NoTran
<1>l. /\ UpTo(LastLine) \in Seq(Nat) /\ <<>> \o UpTo(LastLine) = UpTo(LastLine)
      /\ Append(UpTo(line - 1), line) = UpTo(line)
  <2>1. LastLine \in Nat /\ line - 1 \in Nat /\ (line - 1) + 1 = line
    BY <1>4, LastLineType DEF CallTypeOK
  <2>2. UpTo(LastLine) \in Seq(Nat)
    BY <2>1, UpToNext
  <2>3. Append(UpTo(line - 1), (line - 1) + 1) = UpTo((line - 1) + 1)
    BY <2>1, UpToNext
  <2> QED
    BY <2>1, <2>2, <2>3
<1>e. \/ o.effect = <<>>
      \/ InTx /\ req = "commit" /\ o.effect = UpTo(LastLine) /\ applied = <<>>
      \/ ~InTx /\ req = "line" /\ o.effect = <<line>>
  <2>1. CASE o.effect = <<>>
    BY <2>1
  <2>2. CASE o.effect = Effect(r, tran) /\ o.effect # <<>>
    <3>1. \/ r.kind = "line" /\ ~tran.open /\ o.effect = <<r.line>>
          \/ r.kind = "commit" /\ o.effect = tran.work
      BY <2>2 DEF Effect
    <3>2. CASE ~InTx
      <4>1. req \in {"line", "query"}
        BY <1>k, <3>2 DEF InTx
      <4>2. r.kind = "line" /\ req = "line" /\ r.line = line
        BY <1>k, <1>13, <3>1, <3>2, <4>1
      <4> QED
        BY <3>1, <3>2, <4>2
    <3>3. CASE InTx
      <4>1. req # "rollback"
        BY <1>3, <1>5, <3>1, <3>3 DEF TxOK, r
      <4>2. r.kind = req /\ tran = Before
        BY <1>13, <4>1
      <4>3. req # "line"
        BY <3>1, <3>3, <4>2 DEF Before, OpenWith
      <4>4. req = "commit" /\ tran.work = UpTo(LastLine)
        BY <3>1, <4>2, <4>3 DEF Before, OpenWith
      <4>5. applied = <<>>
        BY <1>3, <3>3 DEF TxOK
      <4> QED
        BY <3>1, <3>3, <4>2, <4>4, <4>5
    <3> QED
      BY <3>2, <3>3
  <2> QED
    BY <1>6, <2>1, <2>2
<1>a. ASSUME req # "rollback", \E m \in DOMAIN o.toks : o.toks[m] = "done"
      PROVE  Answered'
  <2>1. /\ o.tran = After(r, tran) /\ o.effect = Effect(r, tran)
        /\ r.kind = req /\ r.line = line /\ tran = Before /\ wire' = <<>>
    BY <1>6, <1>13, <1>a
  <2>2. call.kind = "exec" => Has(line)'
    <3>1. call.kind = "exec" => o.effect = <<line>>
      BY <1>k, <2>1 DEF Effect, InTx
    <3>2. \A m \in DOMAIN o.effect : Has(o.effect[m])'
      BY <1>1, <1>4, <1>6, HasMore
    <3> QED
      BY <1>3, <3>1, <3>2
  <2>3. req = "commit" => applied' = UpTo(LastLine)
    <3>1. req = "commit" => InTx
      BY <1>k DEF InTx
    <3>2. req = "commit" => o.effect = UpTo(LastLine)
      BY <2>1, <3>1 DEF Effect, Before, OpenWith
    <3>3. req = "commit" => applied = <<>>
      BY <1>3, <3>1 DEF TxOK
    <3> QED
      BY <1>12, <1>l, <3>2, <3>3
  <2>4. InTx /\ req = "begin" => tran' = OpenWith(<<>>)
    BY <1>1, <2>1 DEF After, OpenWith
  <2>5. InTx /\ req = "line" => tran' = OpenWith(UpTo(line))
    BY <1>1, <1>l, <2>1 DEF After, Before, OpenWith
  <2>6. UpTo(LastLine)' = UpTo(LastLine) /\ UpTo(line)' = UpTo(line)
        /\ OpenWith(<<>>)' = OpenWith(<<>>) /\ OpenWith(UpTo(line))' = OpenWith(UpTo(line))
    BY <1>3, <1>k DEF UpTo, OpenWith
  <2> QED
    BY <1>3, <1>k, <2>1, <2>2, <2>3, <2>4, <2>5, <2>6 DEF Answered
<1>15. AnswerOK'
  <2>1. ASSUME req # "rollback"
        PROVE  AnswerOK'
    <3>1. inbound' = ps /\ wire' = <<>> /\ parser' # "parse" /\ pc' \in Waiting
          /\ (parser' # "off" => ~torn')
      BY <1>3, <1>9, <1>13, <2>1 DEF AnswerOK
    <3>2. \A i \in DOMAIN inbound' :
             /\ inbound'[i].of = sent'
             /\ \A j \in DOMAIN inbound'[i].toks :
                   inbound'[i].toks[j] = "done" => i = Len(inbound') /\ Answered'
      <4>1. \A i \in DOMAIN ps : ps[i].of = sent
        BY <1>7, <1>13, <2>1
      <4>2. \A i \in DOMAIN ps : \A j \in DOMAIN ps[i].toks :
               ps[i].toks[j] = "done" => i = Len(ps) /\ Answered'
        BY <1>6, <1>7, <1>a, <2>1
      <4> QED
        BY <1>3, <3>1, <4>1, <4>2
    <3> QED
      BY <1>3, <1>13, <2>1, <3>1, <3>2 DEF AnswerOK
  <2>2. req = "rollback" => AnswerOK'
    BY <1>3 DEF AnswerOK
  <2> QED
    BY <2>1, <2>2
<1>t. Takes
  <2>1. CASE o.effect = <<>>
    BY <1>12, <2>1 DEF Takes
  <2>2. CASE InTx /\ req = "commit" /\ o.effect = UpTo(LastLine) /\ applied = <<>>
    BY <1>12, <1>l, <2>2 DEF Takes
  <2>3. CASE ~InTx /\ req = "line" /\ o.effect = <<line>>
    <3>1. line \in Nat /\ line \in 1..LastLine
      BY <1>4, LastLineType DEF CallTypeOK
    <3>2. applied \o <<line>> = Append(applied, line)
      BY <1>4, <3>1
    <3>3. call.kind = "exec" /\ Reached(line)
      BY <1>k, <2>3 DEF InTx
    <3> QED
      BY <1>12, <2>3, <3>1, <3>2, <3>3 DEF Takes
  <2> QED
    BY <1>e, <2>1, <2>2, <2>3
<1>16. CASE InTx
  <2>1. KindOK' /\ NoTxOK'
    BY <1>3, <1>4, <1>16, <1>k, KindInTx DEF NoTxOK
  <2>2. \/ applied' = <<>>
        \/ applied' = UpTo(LastLine) /\ req = "commit" /\ pc # "send" /\ wire' = <<>>
    <3>1. applied = <<>>
      BY <1>3, <1>16 DEF TxOK
    <3>2. CASE o.effect = <<>>
      BY <1>12, <3>1, <3>2
    <3>3. CASE req = "commit" /\ o.effect = UpTo(LastLine)
      BY <1>10, <1>12, <1>13, <1>l, <3>1, <3>3 DEF Waiting
    <3> QED
      BY <1>16, <1>e, <3>2, <3>3
  <2>3. req = "rollback" => \A m \in DOMAIN wire' : wire'[m].kind = "rollback"
    BY <1>5, <1>16 DEF TxOK
  <2>4. ASSUME NEW s \in late PROVE TxLateOK(s)'
    <3>1. TxLateOK(s) /\ ~Commits(s)
      BY <1>3, <1>16 DEF TxOK, TxLateOK
    <3> QED
      BY <3>1 DEF TxLateOK, Commits
  <2>5. UpTo(LastLine)' = UpTo(LastLine)
    BY <1>k DEF UpTo
  <2>6. TxOK'
    BY <1>3, <1>k, <2>2, <2>3, <2>4, <2>5 DEF TxOK
  <2> QED
    BY <1>11, <1>14, <1>15, <1>t, <2>1, <2>6
<1>17. CASE ~InTx
  <2>1. call.kind = "query" => o.effect = <<>>
    BY <1>e, <1>k, <1>17
  <2>2. KindOK'
    BY <1>3, <1>12, <2>1, KindKept
  <2>3. tran' = NoTran
    BY <1>1, <1>6, <1>k, <1>17 DEF After, InTx
  <2>4. \A n : Reached(n) => Reached(n)'
    BY <1>12, <1>k DEF Reached
  <2>5. NoTxOK'
    BY <1>3, <1>17, <1>k, <2>3, <2>4 DEF NoTxOK, NoTran
  <2>6. TxOK'
    BY <1>17, <1>k DEF TxOK
  <2> QED
    BY <1>11, <1>14, <1>15, <1>t, <2>2, <2>5, <2>6
<1> QED
  BY <1>16, <1>17

(* What a closed connection has left at the server.                        *)
LEMMA LateStep ==
    ASSUME TypeOK, MssqlInv, driver = "mssql", NEW s \in late, LateEnds(s) \/ LateServe(s)
    PROVE  KindOK' /\ OneReader' /\ RestOK' /\ ReaderOK' /\ AnswerOK' /\ TxOK' /\ NoTxOK' /\ Takes
<1> USE DEF MssqlInv
<1>0. UNCHANGED <<driver, call, pc, req, line, link, sent, wire, tran, inbound, torn, parser, buf, chan>>
  BY DEF LateEnds, LateServe, caller, reader
<1>1. /\ CallTypeOK /\ applied \in Seq(Nat) /\ call \in Calls
      /\ s.wire \in Seq(Requests) /\ s.wire # <<>> /\ s.tran \in Trans
  BY DEF TypeOK, CallTypeOK, MssqlTypeOK, ServerTypeOK
<1>2. LastLine' = LastLine /\ (InTx' <=> InTx) /\ Before' = Before /\ UpTo(LastLine)' = UpTo(LastLine)
  BY <1>0 DEF LastLine, InTx, Before, OpenWith, UpTo, NoTran
<1>3. OneReader' /\ RestOK' /\ ReaderOK'
  BY <1>0, <1>2 DEF OneReader, RestOK, ReaderOK
<1>4. LastLine \in Nat /\ UpTo(LastLine) \in Seq(Nat) /\ <<>> \o UpTo(LastLine) = UpTo(LastLine)
  BY <1>1, LastLineType, UpToNext DEF CallTypeOK
<1> DEFINE r == s.wire[1]
<1>5. /\ Head(s.wire) = r /\ r \in Requests /\ 1 \in DOMAIN s.wire /\ Len(s.wire) \in Nat
      /\ \A m \in DOMAIN Tail(s.wire) :
            m + 1 \in DOMAIN s.wire /\ Tail(s.wire)[m] = s.wire[m + 1] /\ m + 1 # 1
  <2>1. /\ Head(s.wire) = r /\ r \in Requests /\ 1 \in DOMAIN s.wire /\ Len(s.wire) \in Nat
        /\ \A m \in DOMAIN Tail(s.wire) : m + 1 \in DOMAIN s.wire /\ Tail(s.wire)[m] = s.wire[m + 1]
    BY <1>1, TailFacts
  <2>2. \A m \in DOMAIN Tail(s.wire) : m + 1 # 1
    BY <1>1
  <2> QED
    BY <2>1, <2>2
<1> HIDE DEF r
<1>k. /\ call.kind \in {"tx", "exec", "query"} /\ ~NoTran.open
      /\ ~InTx => req \in {"line", "query"} /\ s.tran = NoTran /\ r.kind = req
      /\ call.kind = "query" => req = "query"
      /\ InTx => TxLateOK(s)
  BY <1>1, <1>5, CallsType DEF KindOK, InTx, NoTran, NoTxOK, TxOK, r
<1>6. CASE LateEnds(s)
  <2>1. late' \subseteq late /\ applied' = applied
    BY <1>6 DEF LateEnds
  <2>2. \A n : Has(n)' <=> Has(n)
    BY <2>1 DEF Has
  <2>3. Answered => Answered'
    BY <1>0, <2>1, AnsweredKept
  <2>4. KindOK' /\ AnswerOK'
    BY <1>0, <1>2, <2>1, <2>2, <2>3, KindKept DEF AnswerOK
  <2>5. \A t \in late' : TxLateOK(t) => TxLateOK(t)'
    BY <1>0, <1>2, <2>1 DEF TxLateOK, Commits, OpenWith
  <2>6. TxOK'
    BY <1>0, <1>2, <2>1, <2>5 DEF TxOK
  <2>7. NoTxOK'
    BY <1>0, <1>2, <2>1, <2>2 DEF NoTxOK, Reached, NoTran
  <2> QED
    BY <1>3, <2>1, <2>4, <2>6, <2>7 DEF Takes
<1>7. CASE LateServe(s)
  <2> DEFINE Rest(o) == [s EXCEPT !.wire = Tail(@), !.tran = o.tran]
  <2>1. PICK o \in Outcomes(r, s.tran) :
           /\ applied' = applied \o o.effect
           /\ late' = (late \ {s}) \cup (IF Len(s.wire) = 1 THEN {} ELSE {Rest(o)})
    BY <1>5, <1>7 DEF LateServe
  <2>2. /\ o.effect \in Seq(Nat)
        /\ \/ /\ o.tran = After(r, s.tran) /\ o.effect = Effect(r, s.tran)
              /\ r.kind \in {"commit", "rollback"} => s.tran.open
           \/ o.tran \in {s.tran, NoTran} /\ o.effect = <<>>
    BY <1>1, <1>5, OutcomeType, OutcomeFacts
  <2>3. Rest(o).wire = Tail(s.wire) /\ Rest(o).tran = o.tran
    BY DEF TypeOK, MssqlTypeOK, ServerTypeOK
  <2> DEFINE q == Rest(o)
  <2>4. \A t \in late' : (t \in late /\ t # s) \/ (t = q /\ Len(s.wire) # 1)
    BY <2>1
  <2>5. q.wire = Tail(s.wire) /\ q.tran = o.tran
    BY <2>3
  <2> HIDE DEF q, Rest
  <2>6. /\ \A n : Has(n) => Has(n)'
        /\ o.effect = <<>> => applied' = applied
    <3>1. o.effect = <<>> => applied \o o.effect = applied
      BY <1>1
    <3> QED
      BY <1>1, <2>1, <2>2, <3>1, HasMore
  <2>7. CASE InTx
    <3>1. CASE o.effect = <<>>
      <4>1. applied' = applied
        BY <2>6, <3>1
      <4>2. TxLateOK(q)' \/ Len(s.wire) = 1
        <5>1. Len(s.wire) # 1 => ~Commits(s)
          BY <1>k, <2>7 DEF TxLateOK
        <5>2. Len(s.wire) # 1 => ~Commits(q)
          BY <1>5, <2>5, <5>1 DEF Commits
        <5>3. \A m \in DOMAIN q.wire :
                 q.wire[m].kind \in {"begin", "line", "rollback", "commit"} /\ q.wire[m].kind # "line"
          BY <1>5, <1>k, <2>5, <2>7 DEF TxLateOK
        <5> QED
          BY <5>2, <5>3 DEF TxLateOK, Commits
      <4>3. ASSUME NEW t \in late, t \in late' PROVE TxLateOK(t)'
        <5>1. TxLateOK(t)
          BY <2>7 DEF TxOK
        <5>2. Commits(t) => \A u \in late' : Commits(u) => u = t
          <6>1. Commits(t) /\ Len(s.wire) # 1 => ~Commits(q)
            BY <1>5, <1>k, <2>5, <2>7 DEF TxLateOK, Commits
          <6> QED
            BY <2>4, <5>1, <6>1 DEF TxLateOK
        <5> QED
          BY <1>0, <1>2, <4>1, <5>1, <5>2 DEF TxLateOK, Commits, OpenWith
      <4>4. TxOK'
        BY <1>0, <1>2, <2>4, <4>1, <4>2, <4>3 DEF TxOK
      <4>5. Answered => Answered'
        BY <1>0, <4>1, AnsweredKept
      <4>6. KindOK' /\ AnswerOK'
        BY <1>0, <1>2, <2>6, <4>1, <4>5, KindKept DEF AnswerOK
      <4> QED
        BY <1>2, <1>3, <2>7, <4>1, <4>4, <4>6 DEF NoTxOK, Takes
    <3>2. CASE o.effect # <<>>
      <4>1. r.kind = "commit" /\ o.effect = s.tran.work
        BY <1>5, <1>k, <2>2, <2>7, <3>2 DEF Effect, TxLateOK, r
      <4>2. Commits(s)
        BY <1>5, <4>1 DEF Commits, r
      <4>3. /\ Len(s.wire) = 1 /\ o.effect = UpTo(LastLine) /\ req = "commit" /\ pc # "send"
            /\ wire = <<>> /\ applied = <<>> /\ \A t \in late : Commits(t) => t = s
        BY <1>k, <2>7, <4>1, <4>2 DEF TxLateOK, OpenWith
      <4>4. applied' = UpTo(LastLine)
        BY <1>4, <2>1, <4>3
      <4>5. \A t \in late' : t \in late /\ ~Commits(t)
        BY <2>4, <4>3
      <4>6. \A t \in late' : TxLateOK(t)'
        BY <2>7, <4>5 DEF TxOK, TxLateOK, Commits
      <4>7. TxOK'
        BY <1>0, <1>2, <4>3, <4>4, <4>6 DEF TxOK
      <4>8. Answered => Answered'
        BY <1>0, <1>2, <2>7, <4>3, <4>4 DEF Answered, InTx, OpenWith, UpTo
      <4>9. KindOK' /\ AnswerOK'
        BY <1>0, <1>2, <2>7, <4>8 DEF AnswerOK, KindOK, InTx
      <4> QED
        BY <1>2, <1>3, <2>7, <4>3, <4>4, <4>7, <4>9 DEF NoTxOK, Takes
    <3> QED
      BY <3>1, <3>2
  <2>8. CASE ~InTx
    <3>1. o.tran = NoTran /\ (req = "query" => o.effect = <<>>)
      BY <1>k, <2>2, <2>8 DEF After, Effect
    <3>2. KindOK'
      BY <1>0, <1>k, <2>6, <3>1, KindKept
    <3>3. Answered => Answered'
      BY <1>0, <1>2, <1>k, <2>6, <2>8 DEF Answered
    <3>4. AnswerOK'
      BY <1>0, <1>2, <3>3 DEF AnswerOK
    <3>5. \A n : Reached(n) => Reached(n)'
      BY <1>2, <2>6 DEF Reached
    <3>6. \A t \in late' : t.tran = NoTran /\ \A m \in DOMAIN t.wire :
             t.wire[m].kind = req /\ (req = "line" => Reached(t.wire[m].line))
      <4>1. \A t \in late : t.tran = NoTran /\ \A m \in DOMAIN t.wire :
               t.wire[m].kind = req /\ (req = "line" => Reached(t.wire[m].line))
        BY <2>8 DEF NoTxOK
      <4>2. q.tran = NoTran /\ \A m \in DOMAIN q.wire :
               q.wire[m].kind = req /\ (req = "line" => Reached(q.wire[m].line))
        <5>1. \A m \in DOMAIN q.wire : m + 1 \in DOMAIN s.wire /\ q.wire[m] = s.wire[m + 1]
          BY <1>5, <2>5
        <5> QED
          BY <2>5, <3>1, <4>1, <5>1
      <4> QED
        BY <2>4, <4>1, <4>2
    <3>7. NoTxOK' /\ TxOK'
      BY <1>0, <1>2, <2>8, <3>5, <3>6 DEF NoTxOK, TxOK, NoTran
    <3>8. Takes
      <4>1. CASE o.effect = <<>>
        BY <2>6, <4>1 DEF Takes
      <4>2. CASE o.effect # <<>>
        <5>1. r.kind = "line" /\ o.effect = <<r.line>> /\ req = "line"
          BY <1>k, <2>2, <2>8, <4>2 DEF Effect
        <5>2. Reached(r.line) /\ r.line \in Nat
          BY <1>5, <2>8, <5>1 DEF NoTxOK, r, Requests
        <5>3. call.kind = "exec"
          BY <1>k, <2>8, <5>1 DEF InTx
        <5>4. applied \o <<r.line>> = Append(applied, r.line)
          BY <1>1, <5>2
        <5> QED
          BY <2>1, <5>1, <5>2, <5>3, <5>4 DEF Takes, Reached
      <4> QED
        BY <4>1, <4>2
    <3> QED
      BY <1>3, <3>2, <3>4, <3>7, <3>8
  <2> QED
    BY <2>7, <2>8
<1> QED
  BY <1>6, <1>7

LEMMA LeftoverFacts ==
    ASSUME TypeOK, MssqlInv, NEW s \in Leftover
    PROVE  /\ wire # <<>> /\ s.wire # <<>>
           /\ InTx =>
                 /\ applied = <<>> /\ \A t \in late : ~Commits(t)
                 /\ \A k \in DOMAIN s.wire :
                       /\ s.wire[k].kind \in {"begin", "line", "rollback", "commit"}
                       /\ s.wire[k].kind = "line" => k = 1 /\ s.tran.open
                 /\ Commits(s) =>
                       /\ Len(s.wire) = 1 /\ s.tran = OpenWith(UpTo(LastLine))
                       /\ req = "commit" /\ pc # "send"
           /\ ~InTx =>
                 /\ s.tran = NoTran
                 /\ \A k \in DOMAIN s.wire :
                       s.wire[k].kind = req /\ (req = "line" => Reached(s.wire[k].line))
<1> USE DEF MssqlInv
<1>1. wire # <<>> /\ s.wire = wire /\ s.tran = tran
  BY DEF Leftover
<1>2. call.kind \in {"tx", "exec", "query"} /\ call \in Calls
  BY CallsType DEF TypeOK, CallTypeOK
<1>3. CASE req # "rollback"
  <2>1. wire = <<[kind |-> req, line |-> line, n |-> sent]>> /\ tran = Before /\ pc # "send"
    BY <1>1, <1>3 DEF RestOK, AnswerOK
  <2>2. Len(wire) = 1 /\ \A k \in DOMAIN wire : k = 1 /\ wire[k].kind = req /\ wire[k].line = line
    BY <2>1
  <2>3. CASE InTx
    <3>1. req \in {"begin", "line", "commit"}
      BY <1>3, <2>3 DEF KindOK, InTx
    <3>2. applied = <<>> /\ \A t \in late : ~Commits(t)
      BY <1>1, <2>3 DEF TxOK, TxLateOK
    <3>3. req = "line" => tran.open
      BY <2>1, <2>3 DEF Before, OpenWith
    <3>4. req = "commit" => tran = OpenWith(UpTo(LastLine))
      BY <2>1 DEF Before
    <3>5. Commits(s) => req = "commit"
      BY <1>1, <2>2 DEF Commits
    <3>6. \A k \in DOMAIN s.wire :
             /\ s.wire[k].kind \in {"begin", "line", "rollback", "commit"}
             /\ s.wire[k].kind = "line" => k = 1 /\ s.tran.open
      BY <1>1, <2>2, <3>1, <3>3
    <3>7. Commits(s) => Len(s.wire) = 1 /\ s.tran = OpenWith(UpTo(LastLine))
      BY <1>1, <2>2, <3>4, <3>5
    <3> QED
      BY <1>1, <2>1, <2>3, <3>2, <3>5, <3>6, <3>7
  <2>4. CASE ~InTx
    BY <1>1, <1>2, <2>2, <2>4 DEF KindOK, NoTxOK, InTx
  <2> QED
    BY <2>3, <2>4
<1>4. CASE req = "rollback"
  <2>1. InTx
    BY <1>2, <1>4 DEF KindOK, InTx
  <2>2. applied = <<>> /\ \A t \in late : ~Commits(t)
    BY <1>1, <2>1 DEF TxOK, TxLateOK
  <2>3. \A k \in DOMAIN wire : wire[k].kind \in {"line", "rollback"} /\ (wire[k].kind = "line" => k = 1 /\ tran.open)
    BY <1>4, <2>1 DEF TxOK
  <2> QED
    BY <1>1, <2>1, <2>2, <2>3 DEF Commits
<1> QED
  BY <1>3, <1>4

(* A connection that is closed, by either side, leaves what it may leave.  *)
LEMMA LeaveStep ==
    ASSUME TypeOK, MssqlInv, UNCHANGED <<call, req, applied>>, pc' = "send" => pc = "send",
           wire' = <<>>, tran' = NoTran, late' = late \cup Leftover
    PROVE  TxOK' /\ NoTxOK'
<1> USE DEF MssqlInv
<1>1. LastLine' = LastLine /\ (InTx' <=> InTx) /\ UpTo(LastLine)' = UpTo(LastLine)
      /\ OpenWith(UpTo(LastLine))' = OpenWith(UpTo(LastLine)) /\ \A n : Has(n)' <=> Has(n)
  BY DEF LastLine, InTx, UpTo, OpenWith, Has
<1>2. ~InTx => NoTxOK' /\ TxOK'
  BY <1>1, LeftoverFacts DEF NoTxOK, TxOK, Reached, NoTran
<1>3. CASE InTx
  <2>1. ASSUME NEW s \in late PROVE TxLateOK(s)'
    <3>1. TxLateOK(s)
      BY <1>3 DEF TxOK
    <3>2. Commits(s) => Leftover = {}
      BY <3>1 DEF TxLateOK, Leftover
    <3>3. Commits(s) => \A t \in late' : Commits(t) => t = s
      BY <3>1, <3>2 DEF TxLateOK
    <3> QED
      BY <1>1, <3>1, <3>3 DEF TxLateOK, Commits
  <2>2. ASSUME NEW s \in Leftover PROVE TxLateOK(s)'
    <3>1. \A t \in Leftover : t = s
      BY DEF Leftover
    <3>2. Commits(s) => \A t \in late' : Commits(t) => t = s
      BY <1>3, <3>1, LeftoverFacts
    <3>3. wire # <<>>
      BY LeftoverFacts
    <3> QED
      BY <1>1, <1>3, <3>2, <3>3, LeftoverFacts DEF TxLateOK, Commits
  <2>3. applied' # <<>> => req' = "commit" /\ pc' # "send"
    BY <1>3 DEF TxOK
  <2>4. applied' \in {<<>>, UpTo(LastLine)'}
    BY <1>1, <1>3 DEF TxOK
  <2> QED
    BY <1>1, <1>3, <2>1, <2>2, <2>3, <2>4 DEF TxOK, NoTxOK
<1> QED
  BY <1>2, <1>3

LEMMA CutStep ==
    ASSUME TypeOK, MssqlInv, driver = "mssql", Cut
    PROVE  KindOK' /\ OneReader' /\ RestOK' /\ ReaderOK' /\ AnswerOK' /\ TxOK' /\ NoTxOK'
<1> USE DEF MssqlInv
<1>1. /\ link = "up" /\ link' = "cut" /\ wire' = <<>> /\ tran' = NoTran /\ late' = late \cup Leftover
      /\ UNCHANGED <<driver, call, pc, req, line, sent, torn, parser, buf, chan, applied>>
  BY DEF Cut, caller, reader
<1>2. PICK n \in 0..Len(inbound) : inbound' = SubSeq(inbound, 1, n)
  BY DEF Cut
<1>3. inbound \in Seq(PacketType)
  BY DEF TypeOK, MssqlTypeOK, ReaderTypeOK
<1>4. /\ inbound' \in Seq(PacketType) /\ Len(inbound') = n /\ n <= Len(inbound) /\ Len(inbound) \in Nat
      /\ \A k \in DOMAIN inbound' : k \in DOMAIN inbound /\ inbound'[k] = inbound[k] /\ k <= n
      /\ inbound = <<>> => inbound' = <<>>
  <2>1. \A k \in DOMAIN inbound' : k <= n
    BY <1>2, <1>3, PrefixFacts
  <2>2. inbound = <<>> => inbound' = <<>>
    BY <1>2, <1>3
  <2> QED
    BY <1>2, <1>3, <2>1, <2>2, PrefixFacts
<1>5. pc \in Waiting \cup {"send"}
  BY <1>1 DEF RestOK
<1>6. OneReader' /\ RestOK' /\ ReaderOK'
  BY <1>1, <1>4, <1>5 DEF OneReader, RestOK, ReaderOK, Waiting
<1>7. \A m : Has(m)' <=> Has(m)
  BY <1>1 DEF Has
<1>8. KindOK'
  BY <1>1, <1>7, KindKept
<1>9. Answered => Answered'
  BY <1>1 DEF Answered, Has, InTx, LastLine, UpTo, OpenWith
<1>10. ASSUME req # "rollback", pc \in Waiting PROVE AnswerOK'
  <2>1. ASSUME NEW k \in DOMAIN inbound'
        PROVE  /\ inbound'[k].of = sent
               /\ \A j \in DOMAIN inbound'[k].toks :
                     inbound'[k].toks[j] = "done" => k = Len(inbound') /\ Answered
    <3>1. k \in DOMAIN inbound /\ inbound'[k] = inbound[k] /\ (k = Len(inbound) => k = Len(inbound'))
      BY <1>4
    <3> QED
      BY <1>10, <3>1 DEF AnswerOK
  <2> QED
    BY <1>1, <1>4, <1>9, <1>10, <2>1 DEF AnswerOK
<1>11. AnswerOK'
  BY <1>1, <1>10 DEF AnswerOK
<1>12. TxOK' /\ NoTxOK'
  BY <1>1, LeaveStep
<1> QED
  BY <1>6, <1>8, <1>11, <1>12

-----------------------------------------------------------------------------
(* The goroutine of the request.                                           *)

(* A connection is closed when the parser has ended.                       *)
LEMMA HangUpStep ==
    ASSUME TypeOK, MssqlInv, HangUp, UNCHANGED req, parser = "off",
           pc' \in {"connect"} \cup Over, pc' = "connect" /\ InTx => req = "begin"
    PROVE  OneReader' /\ RestOK' /\ ReaderOK' /\ AnswerOK' /\ TxOK' /\ NoTxOK'
<1>1. /\ link' = "none" /\ wire' = <<>> /\ tran' = NoTran /\ late' = late \cup Leftover
      /\ inbound' = <<>> /\ torn' = FALSE /\ chan' = <<>> /\ parser' = "off"
      /\ UNCHANGED <<call, applied>>
  BY DEF HangUp
<1>2. OneReader' /\ AnswerOK'
  BY <1>1 DEF OneReader, AnswerOK, Waiting, Over
<1>3. RestOK'
  BY <1>1 DEF RestOK, Waiting, Over, InTx, NoTran
<1>4. ReaderOK'
  BY <1>1 DEF ReaderOK, Over
<1>5. TxOK' /\ NoTxOK'
  BY <1>1, LeaveStep DEF Over
<1> QED
  BY <1>2, <1>3, <1>4, <1>5

(* When the request has failed, the rollback is written.                   *)
LEMMA FailsStep ==
    ASSUME TypeOK, MssqlInv, driver = "mssql", NEW e, Fails(e), parser = "off"
    PROVE  KindOK' /\ OneReader' /\ RestOK' /\ ReaderOK' /\ AnswerOK' /\ TxOK' /\ NoTxOK'
<1> USE DEF MssqlInv
<1>1. UNCHANGED <<call, applied>>
  BY DEF Fails, HangUp, server
<1>2. \A n : Has(n)' <=> Has(n)
  BY <1>1 DEF Has
<1>3. UNCHANGED <<req, line>> => KindOK'
  BY <1>1, <1>2, KindKept
<1>4. CASE HangUp /\ pc' \in {"connect", "panic", "failed"} /\ UNCHANGED <<req, line>>
           /\ (pc' = "connect" /\ InTx => req = "begin")
  BY <1>3, <1>4, HangUpStep DEF Over
<1>5. CASE /\ InTx /\ req = "line" /\ pc' = "send" /\ req' = "rollback" /\ chan' = <<>>
           /\ UNCHANGED <<driver, call, line, tries, link, sent, tranid, server, inbound, torn, parser, buf>>
  <2>1. KindOK'
    BY <1>1, <1>5, KindInTx DEF TypeOK, CallTypeOK
  <2>2. wire = <<>> \/ (wire = <<[kind |-> "line", line |-> line, n |-> sent]>> /\ tran = Before)
    BY <1>5 DEF RestOK, AnswerOK
  <2>3. \A k \in DOMAIN wire : wire[k].kind = "line" /\ k = 1 /\ tran.open
    BY <1>5, <2>2 DEF Before, OpenWith
  <2>4. OneReader' /\ RestOK' /\ AnswerOK'
    BY <1>5 DEF OneReader, RestOK, AnswerOK, Waiting
  <2>5. ReaderOK'
    BY <1>5, <2>3 DEF ReaderOK, server
  <2>6. applied' = <<>> /\ InTx'
    BY <1>1, <1>5 DEF TxOK, InTx
  <2>7. ASSUME NEW s \in late PROVE TxLateOK(s)'
    BY <1>5, <2>7 DEF TxOK, TxLateOK, Commits
  <2>8. TxOK' /\ NoTxOK'
    BY <1>5, <2>3, <2>6, <2>7 DEF TxOK, NoTxOK, server
  <2> QED
    BY <2>1, <2>4, <2>5, <2>8
<1> QED
  BY <1>4, <1>5 DEF Fails, Resends

(* The rows of a query.                                                    *)
LEMMA RowsStep ==
    ASSUME TypeOK, MssqlInv, driver = "mssql", req = "query",
           pc \in {"wait", "scan", "found", "none"}, pc' \in {"scan", "found", "none"},
           chan' = chan \/ (chan # <<>> /\ chan' = Tail(chan)),
           UNCHANGED <<call, req, line, link, sent, server, inbound, torn, parser, buf>>
    PROVE  KindOK' /\ OneReader' /\ RestOK' /\ ReaderOK' /\ AnswerOK' /\ TxOK' /\ NoTxOK'
<1> USE DEF MssqlInv
<1>1. \A k \in DOMAIN chan' : \E m \in DOMAIN chan : chan'[k] = chan[m]
  <2>1. chan \in Seq(Tokens \cup Errors)
    BY DEF TypeOK, MssqlTypeOK, ReaderTypeOK
  <2>2. chan # <<>> => \A k \in DOMAIN Tail(chan) : k + 1 \in DOMAIN chan /\ Tail(chan)[k] = chan[k + 1]
    BY <2>1, TailFacts
  <2> QED
    BY <2>2
<1>2. /\ LastLine' = LastLine /\ Before' = Before /\ \A n : Has(n)' <=> Has(n)
      /\ ~InTx /\ ~InTx'
  BY DEF LastLine, Before, Has, InTx, OpenWith, UpTo, NoTran, KindOK, server
<1>3. Answered => Answered'
  BY AnsweredKept DEF server
<1>4. KindOK'
  BY <1>2, KindKept DEF server
<1>5. OneReader' /\ RestOK'
  BY DEF OneReader, RestOK, Waiting
<1>6. ReaderOK'
  BY <1>1 DEF ReaderOK, server
<1>7. AnswerOK'
  BY <1>1, <1>2, <1>3 DEF AnswerOK, Waiting, server
<1>8. TxOK' /\ NoTxOK'
  BY <1>2 DEF TxOK, NoTxOK, Reached, NoTran, server
<1> QED
  BY <1>4, <1>5, <1>6, <1>7, <1>8

LEMMA CallerStep ==
    ASSUME TypeOK, MssqlInv, driver = "mssql", Caller
    PROVE  KindOK' /\ OneReader' /\ RestOK' /\ ReaderOK' /\ AnswerOK' /\ TxOK' /\ NoTxOK'
<1> USE DEF MssqlInv
<1>0. /\ CallTypeOK /\ call \in Calls /\ call.kind \in {"tx", "exec", "query"}
      /\ line \in 1..LastLine /\ LastLine \in Nat /\ line \in Nat
      /\ inbound \in Seq(PacketType) /\ chan \in Seq(Tokens \cup Errors) /\ wire \in Seq(Requests)
  BY LastLineType, CallsType DEF TypeOK, CallTypeOK, MssqlTypeOK, ReaderTypeOK, ServerTypeOK
<1>1. UNCHANGED <<call, applied>>
  BY DEF Caller, Start, mssqlVars, Connect, Send, SendFails, ReceiveError, ReceiveToken, NextInTx,
     NextLine, EndOfTx, QueryReturns, Scan, Drain, RowsClosed, Fails, HangUp, server, caller
<1>2. /\ LastLine' = LastLine /\ (InTx' <=> InTx) /\ \A n : Has(n)' <=> Has(n)
      /\ \A n : Reached(n)' <=> Reached(n)
      /\ \A n : UpTo(n)' = UpTo(n)
  BY <1>1 DEF LastLine, Has, InTx, UpTo, Reached
<1>3. UNCHANGED <<req, line>> => KindOK'
  BY <1>1, <1>2, KindKept
<1>4. /\ InTx => req \in {"begin", "line", "commit", "rollback"}
      /\ ~InTx => req \in {"line", "query"}
      /\ req = "query" => ~InTx
  BY <1>0 DEF KindOK, InTx
<1>5. CASE Start /\ UNCHANGED mssqlVars
  <2>1. /\ pc = "idle" /\ pc' = "connect" /\ UNCHANGED <<driver, req, line>>
        /\ UNCHANGED <<tries, link, sent, tranid, wire, tran, inbound, torn, parser, buf, chan, late>>
    BY <1>5 DEF Start, mssqlVars
  <2>2. OneReader' /\ RestOK' /\ ReaderOK' /\ AnswerOK'
    BY <1>2, <2>1 DEF OneReader, RestOK, ReaderOK, AnswerOK, Waiting, NoTran
  <2>3. \A s \in late : TxLateOK(s) => TxLateOK(s)'
    BY <1>1, <1>2, <2>1 DEF TxLateOK, Commits, OpenWith
  <2>4. TxOK'
    BY <1>1, <1>2, <2>1, <2>3 DEF TxOK
  <2>5. NoTxOK'
    BY <1>2, <2>1 DEF NoTxOK, NoTran
  <2> QED
    BY <1>3, <2>1, <2>2, <2>4, <2>5
<1>6. CASE Connect
  <2>1. /\ pc = "connect" /\ UNCHANGED <<driver, req, line>>
        /\ (link' = "up" /\ pc' = "send") \/ (pc' = "failed" /\ link' = link)
        /\ UNCHANGED <<tries, sent, tranid, wire, tran, inbound, torn, parser, buf, chan, late>>
    BY <1>6 DEF Connect, server, reader
  <2>2. /\ parser = "off" /\ link = "none" /\ wire = <<>> /\ inbound = <<>>
        /\ ~torn /\ chan = <<>> /\ tran = NoTran /\ (InTx => req = "begin")
    BY <2>1 DEF RestOK, Waiting
  <2>3. Before' = NoTran
    BY <1>2, <1>4, <2>1, <2>2 DEF Before, NoTran
  <2>4. OneReader' /\ AnswerOK'
    BY <2>1, <2>2 DEF OneReader, AnswerOK, Waiting
  <2>5. RestOK'
    BY <2>1, <2>2, <2>3 DEF RestOK, Waiting, NoTran
  <2>6. ReaderOK'
    BY <2>1, <2>2 DEF ReaderOK
  <2>7. \A s \in late : InTx => TxLateOK(s)'
    BY <1>2, <2>1, <2>2 DEF TxOK, TxLateOK, Commits
  <2>8. TxOK' /\ NoTxOK'
    BY <1>1, <1>2, <2>1, <2>2, <2>7 DEF TxOK, NoTxOK, NoTran
  <2> QED
    BY <1>3, <2>1, <2>4, <2>5, <2>6, <2>8
<1>7. CASE Send
  <2> DEFINE q == [kind |-> req, line |-> line, n |-> sent + 1]
  <2>1. /\ pc = "send" /\ pc' = "wait" /\ sent' = sent + 1 /\ parser' = "read" /\ chan' = <<>>
        /\ wire' = IF link = "up" THEN Append(wire, q) ELSE wire
        /\ UNCHANGED <<driver, req, line, link, tran, late, inbound, torn>>
    BY <1>7 DEF Send
  <2>2. /\ wire' = wire \/ \A k \in DOMAIN wire' : wire'[k] = q \/ (k \in DOMAIN wire /\ wire'[k] = wire[k])
        /\ wire = <<>> => wire' = <<>> \/ (wire' = <<q>> /\ link = "up")
    <3>1. q \in Requests
      BY <1>0 DEF Requests, TypeOK, CallTypeOK, MssqlTypeOK
    <3>2. \A k \in DOMAIN Append(wire, q) : Append(wire, q)[k] = q \/ (k \in DOMAIN wire /\ Append(wire, q)[k] = wire[k])
      BY <1>0, <3>1, AppendFacts
    <3>3. wire = <<>> => Append(wire, q) = <<q>>
      BY <3>1
    <3> QED
      BY <2>1, <3>2, <3>3
  <2>3. q.kind = req /\ q' = [kind |-> req', line |-> line', n |-> sent' + 1]
    OBVIOUS
  <2>4. \A k \in DOMAIN wire' : wire'[k].kind = req \/ (k \in DOMAIN wire /\ wire'[k] = wire[k])
    BY <2>2, <2>3
  <2>5. req # "rollback" =>
          /\ wire = <<>> /\ inbound = <<>> /\ ~torn /\ (link = "up" => tran = Before)
    BY <2>1 DEF RestOK
  <2>6. OneReader' /\ RestOK'
    BY <2>1 DEF OneReader, RestOK, Waiting
  <2>7. ReaderOK'
    BY <2>1, <2>4 DEF ReaderOK
  <2>8. Before' = Before
    BY <1>2, <2>1 DEF Before, OpenWith, NoTran
  <2>9. wire' # <<>> /\ req # "rollback" => wire' = <<[kind |-> req', line |-> line', n |-> sent']>> /\ link = "up"
    BY <2>1, <2>2, <2>5
  <2>10. AnswerOK'
    <3> HIDE DEF q
    <3> QED
      BY <2>1, <2>5, <2>8, <2>9 DEF AnswerOK, Waiting
  <2>11. applied = <<>> \/ ~InTx
    BY <2>1 DEF TxOK
  <2>12. ASSUME NEW s \in late, InTx PROVE TxLateOK(s)'
    BY <2>1, <2>12 DEF TxOK, TxLateOK, Commits
  <2>13. InTx /\ req = "rollback" => \A k \in DOMAIN wire' :
           wire'[k].kind \in {"line", "rollback"} /\ (wire'[k].kind = "line" => k = 1 /\ tran.open)
    BY <2>4 DEF TxOK
  <2>14. TxOK'
    <3> HIDE DEF q
    <3> QED
      BY <1>1, <1>2, <2>1, <2>11, <2>12, <2>13 DEF TxOK
  <2>15. NoTxOK'
    BY <1>2, <2>1 DEF NoTxOK, NoTran
  <2> QED
    BY <1>3, <2>1, <2>6, <2>7, <2>10, <2>14, <2>15
<1>8. CASE SendFails \/ ReceiveError
  <2>1. parser = "off"
    <3>1. pc = "send" \/ (chan # <<>> /\ Head(chan) \in Errors)
      BY <1>8 DEF SendFails, ReceiveError
    <3>2. chan # <<>> => 1 \in DOMAIN chan /\ Head(chan) = chan[1]
      BY <1>0, TailFacts
    <3> QED
      BY <3>1, <3>2 DEF RestOK, ReaderOK
  <2> QED
    BY <1>8, <2>1, FailsStep DEF SendFails, ReceiveError
<1>9. CASE ReceiveToken
  <2>1. /\ pc = "wait" /\ req # "query" /\ chan # <<>> /\ Head(chan) \notin Errors /\ chan' = Tail(chan)
        /\ UNCHANGED <<driver, pc, req, line, tries, link, sent, tranid, inbound, torn, parser, buf>>
        /\ UNCHANGED <<wire, tran, late>>
    BY <1>9 DEF ReceiveToken, caller, server
  <2>2. 1 \in DOMAIN chan /\ chan[1] = "done" /\ parser = "off"
    <3>1. 1 \in DOMAIN chan /\ Head(chan) = chan[1]
      BY <1>0, <2>1, TailFacts
    <3> QED
      BY <2>1, <3>1 DEF ReaderOK
  <2>3. chan' = <<>>
    <3>1. Len(chan) \in Nat /\ Len(chan) >= 1 /\ Len(chan) \in DOMAIN chan
      BY <1>0, <2>1, TailFacts
    <3>2. Len(chan) = 1
      BY <2>1, <3>1 DEF ReaderOK
    <3> QED
      BY <1>0, <2>1, <3>2
  <2>5. Answered => Answered'
    BY <1>1, <2>1, AnsweredKept
  <2>6. OneReader' /\ RestOK' /\ ReaderOK'
    BY <2>1, <2>3 DEF OneReader, RestOK, ReaderOK, Waiting
  <2>4. req # "rollback" => inbound = <<>> /\ Answered /\ ~torn /\ wire = <<>>
    BY <2>1, <2>2 DEF AnswerOK, Answered, Waiting
  <2>7. AnswerOK'
    BY <2>1, <2>2, <2>3, <2>4, <2>5 DEF AnswerOK, Waiting
  <2> QED
    BY <1>1, <2>1, <2>6, <2>7, ServerKept
<1>c. Closed => /\ wire = <<>> \/ req = "rollback"
                /\ req # "rollback" => inbound = <<>> /\ Answered /\ ~torn
                /\ parser = "off" /\ pc = "wait" /\ chan = <<>>
  BY DEF Closed, AnswerOK, Answered, Waiting
<1>10. CASE NextInTx
  <2>1. /\ Closed /\ InTx /\ req \in {"begin", "line"} /\ pc' = "send"
        /\ \/ req = "line" /\ line = LastLine /\ req' = "commit" /\ line' = line
           \/ req = "line" /\ req' = "line" /\ line' = line + 1
           \/ req = "begin" /\ req' = "line" /\ line' = 1
        /\ UNCHANGED <<driver, link, sent, wire, tran, inbound, torn, parser, buf, chan, late>>
    BY <1>10 DEF NextInTx, server, reader
  <2>2. /\ wire = <<>> /\ inbound = <<>> /\ Answered /\ ~torn /\ parser = "off" /\ chan = <<>>
    BY <1>c, <2>1
  <2>3. link = "up" => tran' = Before'
    <3>1. (line + 1) - 1 = line /\ 1 - 1 = 0 /\ UpTo(0) = <<>>
      BY <1>0, UpToNext
    <3>2. CASE req = "begin" /\ req' = "line" /\ line' = 1
      BY <1>2, <2>1, <2>2, <3>1, <3>2 DEF Answered, Before, OpenWith
    <3>3. CASE req = "line" /\ req' = "line" /\ line' = line + 1
      BY <1>2, <2>1, <2>2, <3>1, <3>3 DEF Answered, Before, OpenWith
    <3>4. CASE req = "line" /\ line = LastLine /\ req' = "commit"
      BY <1>2, <2>1, <2>2, <3>4 DEF Answered, Before, OpenWith
    <3> QED
      BY <2>1, <3>2, <3>3, <3>4
  <2>4. KindOK'
    BY <1>0, <1>1, <2>1, KindInTx
  <2>5. OneReader' /\ AnswerOK'
    BY <2>1, <2>2 DEF OneReader, AnswerOK, Waiting
  <2>6. RestOK'
    BY <2>1, <2>2, <2>3 DEF RestOK, Waiting
  <2>7. ReaderOK'
    BY <2>1, <2>2 DEF ReaderOK
  <2>8. \A s \in late : TxLateOK(s)'
    BY <2>1 DEF TxOK, TxLateOK, Commits
  <2>9. TxOK' /\ NoTxOK'
    BY <1>1, <1>2, <2>1, <2>2, <2>8 DEF TxOK, NoTxOK
  <2> QED
    BY <2>4, <2>5, <2>6, <2>7, <2>9
<1>11. CASE NextLine
  <2>1. /\ Closed /\ call.kind = "exec" /\ HangUp /\ UNCHANGED req
        /\ (pc' = "ok" /\ line' = line) \/ (pc' = "connect" /\ line # LastLine /\ line' = line + 1)
    BY <1>11 DEF NextLine
  <2>2. ~InTx /\ Has(line)
    BY <1>c, <2>1 DEF InTx, KindOK, Answered
  <2>3. KindOK'
    BY <1>0, <1>1, <1>3, <2>1, <2>2, KindNextLine
  <2>4. parser = "off" /\ pc' \in {"connect"} \cup Over
    BY <1>c, <2>1 DEF Over
  <2> QED
    BY <2>1, <2>2, <2>3, <2>4, HangUpStep
<1>12. CASE EndOfTx
  BY <1>3, <1>c, <1>12, HangUpStep DEF EndOfTx, HangUp, Over
<1>13. CASE QueryReturns \/ Scan \/ Drain
  <2>1. /\ req = "query" /\ UNCHANGED <<call, req, line, link, sent, server, inbound, torn, parser, buf>>
        /\ pc \in {"wait", "scan", "found", "none"}
        /\ chan' = chan \/ (chan # <<>> /\ chan' = Tail(chan))
    BY <1>13 DEF QueryReturns, Scan, Drain, ReaderOK, caller
  <2>2. pc' \in {"scan", "found", "none"}
    BY <1>13 DEF QueryReturns, Scan, Drain, caller
  <2> QED
    BY <2>1, <2>2, RowsStep
<1>14. CASE RowsClosed
  BY <1>3, <1>14, HangUpStep DEF RowsClosed, HangUp, Over
<1> QED
  BY <1>5, <1>6, <1>7, <1>8, <1>9, <1>10, <1>11, <1>12, <1>13, <1>14 DEF Caller

-----------------------------------------------------------------------------
(* The invariant, and what follows from it.                                *)

LEMMA InvInit ==
    ASSUME Init
    PROVE  IInv
<1>1. TypeOK /\ CallInit /\ MssqlInit /\ OdbcInit
  BY TypeInit DEF Init
<1>2. /\ call \in Calls /\ call.kind \in {"tx", "exec", "query"} /\ applied = <<>> /\ line = 1
      /\ pc = "idle" /\ req = First /\ LastLine \in Nat /\ LastLine >= 1
  BY <1>1, CallsType, LastLineType DEF CallInit
<1>3. KindOK
  <2>1. 1 \in 1..LastLine /\ 1..(1 - 1) = {}
    BY <1>2
  <2> QED
    BY <1>2, <2>1 DEF KindOK, First, Reached
<1>4. MssqlInv
  <2>1. OneReader /\ RestOK /\ ReaderOK /\ AnswerOK
    BY <1>1, <1>2 DEF MssqlInit, OneReader, RestOK, ReaderOK, AnswerOK, Waiting, First, InTx
  <2>2. TxOK /\ NoTxOK
    BY <1>1, <1>2 DEF MssqlInit, TxOK, NoTxOK, NoTran
  <2> QED
    BY <1>1, <1>3, <2>1, <2>2 DEF MssqlInv, OdbcInit
<1>5. OdbcInv
  BY <1>1, <1>2, <1>3 DEF OdbcInv, MssqlInit, OdbcInit, NoStmt, StmtOK, AutoOK, WorkOK, EndOK, First, InTx, Over
<1> QED
  BY <1>1, <1>4, <1>5 DEF IInv, IdleOK, MssqlInit, OdbcInit

LEMMA IdleStep ==
    ASSUME IInv, [Next]_vars
    PROVE  IdleOK'
<1>1. CASE driver = "mssql" /\ MssqlNext /\ UNCHANGED odbcVars
  <2>1. pc = "idle" => late = {} /\ link = "none" /\ parser = "off" /\ limbo = <<>>
    BY <1>1 DEF IInv, IdleOK, MssqlInv, RestOK, Waiting
  <2>2. pc' = "idle" => pc = "idle"
    BY <1>1 DEF MssqlNext, Parse, ReadPacket, ReadFails, ParseData, ParseEnvChange, ParseDone, Caller,
       Start, Connect, Send, SendFails, ReceiveError, Fails, ReceiveToken, NextInTx, NextLine, EndOfTx,
       QueryReturns, Scan, Drain, RowsClosed, HangUp, Serve, Cut, LateEnds, LateServe, caller
  <2>3. CASE Caller
    <3>1. pc' # "idle"
      BY <2>1, <2>2, <2>3 DEF Caller, Start, Connect, Send, SendFails, ReceiveError, ReceiveToken, NextInTx,
         NextLine, EndOfTx, QueryReturns, Scan, Drain, RowsClosed, Closed, caller
    <3> QED
      BY <3>1 DEF IdleOK
  <2>4. CASE Parse \/ Serve \/ Cut \/ \E s \in late : LateEnds(s) \/ LateServe(s)
    BY <1>1, <2>1, <2>2, <2>4 DEF IdleOK, Parse, ReadPacket, ReadFails, ParseData, ParseEnvChange,
       ParseDone, Serve, Cut, odbcVars
  <2> QED
    BY <1>1, <2>3, <2>4 DEF MssqlNext
<1>2. CASE driver = "odbc" /\ OdbcNext /\ UNCHANGED mssqlVars
  <2>1. pc = "idle" => limbo = <<>> /\ late = {}
    BY DEF IInv, IdleOK
  <2>2. pc' = "idle" => pc = "idle" /\ UNCHANGED limbo
    BY <1>2, <2>1 DEF OdbcNext, Start, LimboEnds, Open, Begin, Prepare, Execute, Fetch, CloseStmt, EndTx, Close,
       AfterRequest
  <2> QED
    BY <1>2, <2>1, <2>2 DEF IdleOK, mssqlVars
<1>3. CASE UNCHANGED vars
  BY <1>3 DEF IInv, IdleOK, vars, callVars, mssqlVars, odbcVars
<1> QED
  BY <1>1, <1>2, <1>3 DEF Next

LEMMA InvStep ==
    ASSUME IInv, [Next]_vars
    PROVE  IInv'
<1>1. TypeOK /\ TypeOK' /\ IdleOK'
  BY TypeStep, IdleStep DEF IInv
<1>2. CASE driver = "mssql" /\ MssqlNext /\ UNCHANGED odbcVars
  <2>1. MssqlInv
    BY <1>2 DEF IInv
  <2>2. UNCHANGED driver
    BY <1>2 DEF MssqlNext, Parse, ReadPacket, ReadFails, ParseData, ParseEnvChange, ParseDone, Caller,
       Start, Connect, Send, SendFails, ReceiveError, Fails, ReceiveToken, NextInTx, NextLine, EndOfTx,
       QueryReturns, Scan, Drain, RowsClosed, HangUp, Serve, Cut, LateEnds, LateServe, caller
  <2>3. KindOK' /\ OneReader' /\ RestOK' /\ ReaderOK' /\ AnswerOK' /\ TxOK' /\ NoTxOK'
    BY <1>1, <1>2, <2>1, ParserStep, CallerStep, ServeStep, CutStep, LateStep DEF MssqlNext
  <2>4. MssqlInv'
    BY <1>2, <2>1, <2>3 DEF MssqlInv, odbcVars
  <2> QED
    BY <1>1, <1>2, <2>2, <2>4 DEF IInv
<1>3. CASE driver = "odbc" /\ OdbcNext /\ UNCHANGED mssqlVars
  <2>1. UNCHANGED driver
    BY <1>3 DEF OdbcNext, Start, LimboEnds, Open, Begin, Prepare, Execute, Fetch, CloseStmt, EndTx, Close
  <2> QED
    BY <1>1, <1>3, <2>1, OdbcStep DEF IInv
<1>4. CASE UNCHANGED vars
  <2> USE DEF vars, callVars, mssqlVars, odbcVars
  <2>1. KindOK' <=> KindOK
    BY <1>4 DEF KindOK, Reached, Has, LastLine
  <2>2. OneReader' /\ RestOK' /\ ReaderOK' /\ AnswerOK' /\ TxOK' /\ NoTxOK'
        <=> OneReader /\ RestOK /\ ReaderOK /\ AnswerOK /\ TxOK /\ NoTxOK
    BY <1>4 DEF OneReader, RestOK, ReaderOK, AnswerOK, Answered, Before, OpenWith, TxOK, NoTxOK, TxLateOK,
       Commits, Reached, Has, InTx, LastLine, UpTo, NoTran
  <2>3. MssqlInv' <=> MssqlInv
    BY <1>4, <2>1, <2>2 DEF MssqlInv
  <2>4. OdbcInv' <=> OdbcInv
    BY <1>4, <2>1 DEF OdbcInv, StmtOK, AutoOK, WorkOK, EndOK, Reached, Has, InTx, LastLine, UpTo
  <2> QED
    BY <1>1, <1>4, <2>3, <2>4 DEF IInv
<1> QED
  BY <1>2, <1>3, <1>4 DEF Next

LEMMA DriversInv == Spec => []IInv
<1>1. Init => IInv
  BY InvInit
<1>2. IInv /\ [Next]_vars => IInv'
  BY InvStep
<1> QED
  BY <1>1, <1>2, PTL DEF Spec

(* Never two readers of a session (mssql.go: sess.buf has no lock).        *)
THEOREM DriversOneReader == Spec => []OneReader
<1>1. IInv => OneReader
  BY DEF IInv, TypeOK, CallTypeOK, MssqlInv, OdbcInv, OneReader
<1> QED
  BY <1>1, DriversInv, PTL

(* No answer is taken for that to another request, but for the rollback's  *)
(* (net.go:53-58).                                                         *)
THEOREM DriversAnswersAreOwn == Spec => []AnswersAreOwn
<1>1. IInv => AnswersAreOwn
  BY DEF IInv, TypeOK, CallTypeOK, MssqlInv, OdbcInv, OneReader, AnswerOK, Waiting, AnswersAreOwn
<1> QED
  BY <1>1, DriversInv, PTL

(* No ODBC transaction outlives its call, but for a failed rollback, which *)
(* is a panic, and a failed commit (tx.go, conn.go:38-46).                 *)
THEOREM DriversTransactionsEnd == Spec => []TransactionsEnd
<1>1. IInv => TransactionsEnd
  BY DEF IInv, TypeOK, CallTypeOK, MssqlInv, OdbcInv, AutoOK, EndOK, TransactionsEnd
<1> QED
  BY <1>1, DriversInv, PTL

(* The handle of a statement is freed by the last that uses it, before the *)
(* connection is used for anything else (odbcstmt.go:56-94).               *)
THEOREM DriversStatementsClosedFirst == Spec => []StatementsClosedFirst
<1>1. IInv => StatementsClosedFirst
  BY DEF IInv, TypeOK, CallTypeOK, MssqlInv, OdbcInv, NoStmt, StmtOK, StatementsClosedFirst, Over
<1> QED
  BY <1>1, DriversInv, PTL

-----------------------------------------------------------------------------
(* Both drivers deliver what SqlDelivery promises.                         *)

LEMMA Taken ==
    ASSUME call \in Calls, Takes, UNCHANGED <<call, pc, req>>, pc # "idle"
    PROVE  [Delivery!DeliveryNext]_<<call, Stage, applied>>
<1>1. Stage' = Stage /\ Stage # "idle" /\ (Stage = "undone" => InTx /\ req # "commit")
      /\ Stage \in {"busy", "ok", "failed", "undone"}
  BY DEF Stage, InTx
<1>2. CASE applied' = applied
  BY <1>1, <1>2
<1>3. CASE InTx /\ req = "commit" /\ applied = <<>> /\ applied' = UpTo(LastLine)
  <2>1. UpTo(LastLine) = Delivery!AllLines(call)
    BY DEF UpTo, LastLine, Delivery!AllLines, Delivery!Lines
  <2> QED
    BY <1>1, <1>3, <2>1 DEF Delivery!DeliveryNext, Delivery!TakeEffect, InTx
<1>4. CASE call.kind = "exec" /\ \E n \in 1..LastLine : Reached(n) /\ applied' = Append(applied, n)
  <2>1. Stage \in {"busy", "ok", "failed"}
    BY <1>1, <1>4 DEF InTx
  <2>2. PICK n \in 1..LastLine : Reached(n) /\ applied' = Append(applied, n)
    BY <1>4
  <2>3. n \in 1..Delivery!Lines(call) /\ (n = 1 \/ \E m \in DOMAIN applied : applied[m] = n - 1)
    BY <2>2 DEF Reached, Has, Delivery!Lines, LastLine
  <2> QED
    BY <1>1, <1>4, <2>1, <2>2, <2>3 DEF Delivery!DeliveryNext, Delivery!TakeEffect
<1> QED
  BY <1>2, <1>3, <1>4 DEF Takes

(* The call returns.                                                       *)
LEMMA Returned ==
    ASSUME call \in Calls, UNCHANGED <<call, req, applied>>, pc \notin {"idle"} \cup Over,
           pc' \in Over,
           InTx /\ pc' # "ok" /\ req # "commit" => applied = <<>>,
           InTx /\ pc' = "ok" => applied = UpTo(LastLine),
           call.kind = "exec" /\ pc' = "ok" => \A n \in 1..LastLine : Has(n)
    PROVE  [Delivery!DeliveryNext]_<<call, Stage, applied>>
<1>1. Stage = "busy"
  BY DEF Stage, Over
<1>2. CASE pc' = "ok"
  <2>1. Stage' = "ok"
    BY <1>2 DEF Stage
  <2>2. call.kind = "tx" => applied = Delivery!AllLines(call)
    BY <1>2 DEF UpTo, LastLine, Delivery!AllLines, Delivery!Lines, InTx
  <2>3. call.kind = "exec" => \A n \in 1..Delivery!Lines(call) : \E m \in DOMAIN applied : applied[m] = n
    BY <1>2 DEF Has, Delivery!Lines, LastLine
  <2> QED
    BY <1>1, <2>1, <2>2, <2>3 DEF Delivery!DeliveryNext, Delivery!Succeed
<1>3. CASE pc' # "ok" /\ InTx /\ req # "commit"
  <2>1. Stage' = "undone"
    BY <1>3 DEF Stage, Over, InTx
  <2> QED
    BY <1>1, <1>3, <2>1 DEF Delivery!DeliveryNext, Delivery!Undo, InTx
<1>4. CASE pc' # "ok" /\ ~(InTx /\ req # "commit")
  <2>1. Stage' = "failed"
    BY <1>4 DEF Stage, Over, InTx
  <2> QED
    BY <1>1, <2>1 DEF Delivery!DeliveryNext, Delivery!Give
<1> QED
  BY <1>2, <1>3, <1>4

LEMMA Goes ==
    ASSUME UNCHANGED <<call, applied>>, pc \notin {"idle"} \cup Over, pc' \notin {"idle"} \cup Over
    PROVE  [Delivery!DeliveryNext]_<<call, Stage, applied>>
BY DEF Stage, Over

LEMMA Started ==
    ASSUME Start
    PROVE  [Delivery!DeliveryNext]_<<call, Stage, applied>>
BY DEF Start, Stage, Delivery!DeliveryNext, Delivery!Invoke

(* Every line has taken effect when the last one has.                      *)
LEMMA AllTaken ==
    ASSUME TypeOK, KindOK, call.kind = "exec", Has(line), line = LastLine
    PROVE  \A n \in 1..LastLine : Has(n)
<1>1. \A n \in 1..line : n \in 1..(line - 1) \/ n = line
  BY LastLineType DEF TypeOK, CallTypeOK
<1> QED
  BY <1>1 DEF KindOK

LEMMA MssqlDelivers ==
    ASSUME IInv, driver = "mssql", MssqlNext
    PROVE  [Delivery!DeliveryNext]_<<call, Stage, applied>>
<1> USE DEF IInv, MssqlInv
<1>0. /\ call \in Calls /\ TypeOK
      /\ pc \in {"idle"} \cup Over => link = "none" /\ parser = "off"
  BY DEF TypeOK, CallTypeOK, RestOK, Waiting, Over
<1>1. CASE Parse
  <2>1. UNCHANGED <<call, pc, req, applied>>
    BY <1>1 DEF Parse, ReadPacket, ReadFails, ParseData, ParseEnvChange, ParseDone, caller, server
  <2> QED
    BY <2>1 DEF Stage, InTx
<1>2. CASE Cut
  BY <1>2 DEF Cut, caller, Stage, InTx
<1>3. CASE Serve
  <2>1. Takes /\ UNCHANGED <<call, pc, req>> /\ pc # "idle"
    BY <1>0, <1>3, ServeStep DEF Serve, caller
  <2> QED
    BY <1>0, <2>1, Taken
<1>4. ASSUME NEW s \in late, LateEnds(s) \/ LateServe(s)
      PROVE  [Delivery!DeliveryNext]_<<call, Stage, applied>>
  <2>1. Takes /\ UNCHANGED <<call, pc, req>> /\ pc # "idle"
    BY <1>0, <1>4, LateStep DEF LateEnds, LateServe, caller, IdleOK
  <2> QED
    BY <1>0, <2>1, Taken
<1>5. CASE Caller
  <2>1. UNCHANGED <<call, applied>>
    BY <1>5 DEF Caller, Start, mssqlVars, Connect, Send, SendFails, ReceiveError, ReceiveToken, NextInTx,
       NextLine, EndOfTx, QueryReturns, Scan, Drain, RowsClosed, Fails, HangUp, server, caller
  <2>2. CASE Start
    BY <2>2, Started
  <2>3. CASE ~Start
    <3>1. pc \in MssqlSteps
      BY <1>5, <2>3 DEF Caller, Connect, Send, SendFails, ReceiveError, ReceiveToken, NextInTx,
         NextLine, EndOfTx, QueryReturns, Scan, Drain, RowsClosed, Closed, MssqlSteps
    <3>2. pc \notin {"idle"} \cup Over
      BY <3>1 DEF MssqlSteps, Over
    <3>3. CASE pc' \notin Over
      <4>1. pc' # "idle"
        BY <1>5, <2>3, <3>1 DEF Caller, Connect, Send, SendFails, ReceiveError, Fails, ReceiveToken, NextInTx,
           NextLine, EndOfTx, QueryReturns, Scan, Drain, RowsClosed, caller, MssqlSteps
      <4> QED
        BY <2>1, <3>2, <3>3, <4>1, Goes
    <3>4. CASE pc' \in Over
      <4>1. UNCHANGED req
        BY <1>5, <2>3, <3>1, <3>4 DEF Caller, Connect, Send, SendFails, ReceiveError, Fails, ReceiveToken, NextInTx,
           NextLine, EndOfTx, QueryReturns, Scan, Drain, RowsClosed, caller, MssqlSteps, Over
      <4>2. InTx /\ req # "commit" => applied = <<>>
        BY DEF TxOK
      <4>3. ASSUME pc' = "ok"
            PROVE  (NextLine /\ line = LastLine) \/ (EndOfTx /\ req = "commit") \/ RowsClosed
        <5>1. ~(SendFails \/ ReceiveError)
          BY <4>3 DEF SendFails, ReceiveError, Fails
        <5>2. ~(Connect \/ Send \/ ReceiveToken \/ NextInTx \/ QueryReturns \/ Drain)
          BY <3>1, <4>3 DEF Connect, Send, ReceiveToken, NextInTx, QueryReturns, Drain, caller, MssqlSteps
        <5>3. ~Scan
          BY <4>3 DEF Scan
        <5>4. (NextLine => line = LastLine) /\ (EndOfTx => req = "commit")
          BY <4>3 DEF NextLine, EndOfTx
        <5> QED
          BY <1>5, <2>3, <5>1, <5>2, <5>3, <5>4 DEF Caller
      <4>4. Closed /\ req # "rollback" => Answered
        BY DEF Closed, AnswerOK, Waiting
      <4>5. RowsClosed => req = "query"
        BY DEF RowsClosed, ReaderOK
      <4>6. InTx /\ pc' = "ok" => applied = UpTo(LastLine)
        BY <4>3, <4>4, <4>5 DEF NextLine, EndOfTx, Answered, InTx, KindOK
      <4>7. call.kind = "exec" /\ pc' = "ok" => \A n \in 1..LastLine : Has(n)
        <5>1. call.kind = "exec" /\ pc' = "ok" => NextLine /\ line = LastLine
          BY <4>3, <4>5 DEF KindOK
        <5>2. call.kind = "exec" /\ pc' = "ok" => Has(line) /\ line = LastLine
          BY <4>4, <5>1 DEF NextLine, Answered, KindOK
        <5> QED
          BY <5>2, AllTaken
      <4> QED
        BY <1>0, <2>1, <3>2, <3>4, <4>1, <4>2, <4>6, <4>7, Returned
    <3> QED
      BY <3>3, <3>4
  <2> QED
    BY <2>2, <2>3
<1> QED
  BY <1>1, <1>2, <1>3, <1>4, <1>5 DEF MssqlNext

LEMMA OdbcDelivers ==
    ASSUME IInv, driver = "odbc", OdbcNext
    PROVE  [Delivery!DeliveryNext]_<<call, Stage, applied>>
<1> USE DEF IInv, OdbcInv
<1>0. /\ call \in Calls /\ TypeOK /\ call.kind \in {"tx", "exec", "query"} /\ applied \in Seq(Nat)
      /\ line \in 1..LastLine /\ line \in Nat /\ LastLine \in Nat /\ work \in Seq(Nat) /\ limbo \in Seq(Nat)
      /\ UpTo(LastLine) \in Seq(Nat) /\ <<>> \o UpTo(LastLine) = UpTo(LastLine)
  <2>1. /\ call \in Calls /\ TypeOK /\ call.kind \in {"tx", "exec", "query"} /\ applied \in Seq(Nat)
        /\ line \in 1..LastLine /\ work \in Seq(Nat) /\ limbo \in Seq(Nat)
    BY CallsType DEF TypeOK, CallTypeOK, OdbcTypeOK
  <2>2. line \in Nat /\ LastLine \in Nat
    BY <2>1, LastLineType
  <2>3. UpTo(LastLine) \in Seq(Nat)
    BY <2>2, UpToNext
  <2> QED
    BY <2>1, <2>2, <2>3
<1>1. UNCHANGED call
  BY DEF OdbcNext, Start, odbcVars, LimboEnds, Open, Begin, Prepare, Execute, Fetch, CloseStmt, EndTx, Close
<1>2. CASE Start
  BY <1>2, Started
<1>3. CASE LimboEnds
  <2>1. applied' = applied \o limbo /\ limbo # <<>> /\ UNCHANGED <<call, pc, req>> /\ pc # "idle"
    BY <1>3 DEF LimboEnds, IdleOK
  <2>2. InTx => req = "commit" /\ applied = <<>> /\ limbo = UpTo(LastLine)
    BY <2>1 DEF TypeOK, CallTypeOK, OdbcSteps, WorkOK, EndOK
  <2>3. ~InTx => call.kind = "exec" /\ limbo = <<limbo[1]>> /\ Reached(limbo[1]) /\ limbo[1] \in Nat
    <3>1. ASSUME ~InTx PROVE 1 \in DOMAIN limbo /\ Len(limbo) = 1
      <4>1. Len(limbo) \in DOMAIN limbo /\ 1 \in DOMAIN limbo
        BY <1>0, <2>1, TailFacts
      <4> QED
        BY <3>1, <4>1 DEF AutoOK
    <3>2. ~InTx => limbo = <<limbo[1]>> /\ limbo[1] \in Nat
      BY <1>0, <3>1, OneElement
    <3> QED
      BY <1>0, <2>1, <3>1, <3>2 DEF AutoOK, InTx
  <2>4. ~InTx => applied' = Append(applied, limbo[1])
    <3>1. \A n \in Nat : applied \o <<n>> = Append(applied, n)
      BY <1>0
    <3> QED
      BY <2>1, <2>3, <3>1
  <2>5. Takes
    BY <1>0, <2>1, <2>2, <2>3, <2>4 DEF Takes, Reached
  <2> QED
    BY <1>0, <2>1, <2>5, Taken
<1>4. CASE Begin \/ Prepare \/ Fetch \/ CloseStmt
  <2>1. pc \notin {"idle"} \cup Over /\ UNCHANGED applied
    BY <1>4 DEF Begin, Prepare, Fetch, CloseStmt, session, Over
  <2>2. pc' \notin {"idle"} \cup Over
    BY <1>4 DEF Begin, Prepare, Fetch, CloseStmt, AfterRequest, Over
  <2> QED
    BY <1>1, <2>1, <2>2, Goes
<1>5. CASE Open
  <2>1. pc = "connect" /\ UNCHANGED <<req, applied>> /\ pc' \in {"begin", "prepare", "failed"}
    BY <1>5 DEF Open
  <2>2. InTx => applied = <<>>
    BY <2>1 DEF WorkOK
  <2>3. CASE pc' = "failed"
    BY <1>0, <1>1, <2>1, <2>2, <2>3, Returned DEF Over
  <2>4. CASE pc' # "failed"
    BY <1>1, <2>1, <2>4, Goes DEF Over
  <2> QED
    BY <2>3, <2>4
<1>6. CASE Execute
  <2>1. pc = "execute" /\ UNCHANGED req /\ pc' \in {"fetch", "closeStmt"}
    BY <1>6 DEF Execute
  <2>2. applied' = applied \/ (req # "query" /\ auto /\ applied' = Append(applied, line))
    BY <1>6 DEF Execute, Loses, session
  <2>3. req # "query" /\ auto => call.kind = "exec" /\ Reached(line)
    BY <1>0, <2>1 DEF KindOK, WorkOK, InTx
  <2>4. Stage = "busy" /\ Stage' = "busy"
    BY <2>1 DEF Stage, Over
  <2>5. CASE applied' = applied
    BY <1>1, <2>4, <2>5
  <2>6. CASE call.kind = "exec" /\ Reached(line) /\ applied' = Append(applied, line)
    BY <1>0, <1>1, <2>4, <2>6 DEF Delivery!DeliveryNext, Delivery!TakeEffect, Delivery!Lines, Reached, Has, LastLine
  <2> QED
    BY <2>2, <2>3, <2>5, <2>6
<1>7. CASE EndTx
  <2>1. pc = "end" /\ pc' = "close" /\ UNCHANGED req
    BY <1>7 DEF EndTx
  <2>2. InTx /\ applied = <<>> /\ (req = "commit" => work = UpTo(LastLine))
    BY <2>1 DEF AutoOK, WorkOK
  <2>3. applied' = applied \/ (req = "commit" /\ applied' = applied \o work)
    BY <1>7 DEF EndTx
  <2>4. Stage = "busy" /\ Stage' = "busy"
    BY <2>1 DEF Stage, Over
  <2>5. UpTo(LastLine) = Delivery!AllLines(call)
    BY DEF UpTo, LastLine, Delivery!AllLines, Delivery!Lines
  <2>6. applied' = applied \/ (applied = <<>> /\ applied' = Delivery!AllLines(call))
    BY <1>0, <2>2, <2>3, <2>5
  <2> QED
    BY <1>1, <2>2, <2>4, <2>6 DEF Delivery!DeliveryNext, Delivery!TakeEffect, InTx
<1>8. CASE Close
  <2>1. pc = "close" /\ UNCHANGED <<req, applied>>
    BY <1>8 DEF Close
  <2>2. CASE call.kind = "exec" /\ ~err /\ line < LastLine
    <3>1. pc' = "connect"
      BY <1>8, <2>2 DEF Close
    <3> QED
      BY <1>1, <2>1, <3>1, Goes DEF Over
  <2>3. CASE ~(call.kind = "exec" /\ ~err /\ line < LastLine)
    <3>1. pc' = IF ~err /\ req # "rollback" THEN "ok"
                ELSE IF err /\ req = "rollback" THEN "panic" ELSE "failed"
      BY <1>8, <2>3 DEF Close
    <3>2. pc' \in Over /\ (pc' = "ok" <=> ~err /\ req # "rollback")
      BY <3>1 DEF Over
    <3>3. InTx /\ req # "commit" => applied = <<>>
      BY <2>1 DEF EndOK
    <3>4. InTx /\ pc' = "ok" => applied = UpTo(LastLine)
      BY <2>1, <3>2 DEF EndOK
    <3>5. call.kind = "exec" /\ pc' = "ok" => \A n \in 1..LastLine : Has(n)
      <4>1. call.kind = "exec" /\ pc' = "ok" => ~InTx /\ ~err
        BY <3>2 DEF InTx
      <4>2. call.kind = "exec" /\ pc' = "ok" => Has(line)
        BY <2>1, <4>1 DEF AutoOK
      <4>3. call.kind = "exec" /\ pc' = "ok" => line = LastLine
        BY <1>0, <2>3, <4>1
      <4> QED
        BY <1>0, <4>2, <4>3, AllTaken
    <3> QED
      BY <1>0, <1>1, <2>1, <3>2, <3>3, <3>4, <3>5, Returned DEF Over
  <2> QED
    BY <2>2, <2>3
<1> QED
  BY <1>2, <1>3, <1>4, <1>5, <1>6, <1>7, <1>8 DEF OdbcNext

(* A call takes effect as SqlDelivery says, on both drivers, whatever      *)
(* becomes of its connections (mssql.go:24-267, tx.go, stmt.go).           *)
THEOREM DriversDeliver == Spec => ImplementsDelivery
<1>1. Init => Delivery!DeliveryInit
  <2>1. ASSUME Init PROVE call \in Calls /\ pc = "idle" /\ applied = <<>>
    BY <2>1 DEF Init, CallInit
  <2> QED
    BY <2>1 DEF Stage, Delivery!DeliveryInit
<1>2. IInv /\ [Next]_vars => [Delivery!DeliveryNext]_<<call, Stage, applied>>
  <2>1. UNCHANGED vars => UNCHANGED <<call, Stage, applied>>
    BY DEF vars, callVars, Stage, InTx
  <2> QED
    BY <2>1, MssqlDelivers, OdbcDelivers DEF Next
<1> QED
  BY <1>1, <1>2, DriversInv, PTL DEF Spec, ImplementsDelivery, Delivery!DeliverySpec, Delivery!deliveryVars
=============================================================================
