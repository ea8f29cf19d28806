------------------------- MODULE SqlProgressProofs -------------------------
(***************************************************************************)
(* A call of the provisioner takes finitely many steps: each one lowers    *)
(* Remaining, in an order without infinite descents.                       *)
(***************************************************************************)
EXTENDS SqlDriversProofs, WellFoundedInduction

-----------------------------------------------------------------------------
(* The order.                                                              *)

(* Tuples of n naturals.                                                   *)
Ranks(n) == [1..n -> Nat]

(* A rank that is lower has fewer successors: the order is the             *)
(* lexicographic one, of which the library knows that it is well-founded.  *)
(* It holds of the numbers of a call here and of those of a request        *)
(* (RequestRanked in BrokerSafetyProofs) alike.                            *)
THEOREM NoEndlessDescent ==
    ASSUME NEW n \in Nat
    PROVE  IsWellFoundedOn({ab \in Ranks(n) \X Ranks(n) : Lower(ab[1], ab[2])}, Ranks(n))
<1> DEFINE Less == {ss \in Nat \X Nat : ss[1] < ss[2]}
<1>1. IsWellFoundedOn(LexProductOrdering(Less, Nat, n), Ranks(n))
  <2>1. IsWellFoundedOn(Less, Nat)
    BY NatLessThanWellFounded DEF OpToRel
  <2> HIDE DEF Less
  <2> QED
    BY <2>1, WFLexProductOrdering DEF Ranks
<1>2. ASSUME NEW ab \in Ranks(n) \X Ranks(n), Lower(ab[1], ab[2])
      PROVE  ab \in LexProductOrdering(Less, Nat, n)
  <2>1. PICK k \in DOMAIN ab[2] :
           0 <= ab[1][k] /\ ab[1][k] < ab[2][k] /\ \A j \in 1..(k - 1) : ab[1][j] = ab[2][j]
    BY <1>2 DEF Lower
  <2>2. k \in 1..n /\ ab[1][k] \in Nat /\ ab[2][k] \in Nat
    BY <2>1 DEF Ranks
  <2>3. <<ab[1][k], ab[2][k]>> \in Less
    BY <2>1, <2>2
  <2> HIDE DEF Less
  <2> QED
    BY <2>1, <2>2, <2>3 DEF LexProductOrdering, Ranks
<1>3. {ab \in Ranks(n) \X Ranks(n) : Lower(ab[1], ab[2])} \cap (Ranks(n) \X Ranks(n))
         \subseteq LexProductOrdering(Less, Nat, n)
  BY <1>2
<1> HIDE DEF Less
<1> QED
  BY <1>1, <1>3, IsWellFoundedOnSubrelation

-----------------------------------------------------------------------------
(* Steps that lower the rank.                                              *)

Numbers == 10

(* The numbers of Remaining.                                               *)
LEMMA RemainingDomain == DOMAIN Remaining = 1..Numbers
BY DEF Remaining, Numbers

(* The first number that differs is the k-th.                              *)
LEMMA LowerAt ==
    ASSUME NEW k \in 1..Numbers, 0 <= Remaining'[k], Remaining'[k] < Remaining[k],
           \A j \in 1..(k - 1) : Remaining'[j] = Remaining[j]
    PROVE  Lower(Remaining', Remaining)
BY RemainingDomain DEF Lower

LEMMA RemainingIs ==
    /\ Remaining[1] = RequestsLeft /\ Remaining[2] = MaxTries - tries
    /\ Remaining[3] = StepsLeft[pc] /\ Remaining[4] = IF link = "up" THEN 1 ELSE 0
    /\ Remaining[5] = Len(wire) /\ Remaining[6] = Len(inbound)
    /\ Remaining[7] = Len(buf.toks) /\ Remaining[8] = IF parser = "off" THEN 0 ELSE 1
    /\ Remaining[9] = Len(chan) /\ Remaining[10] = Len(limbo)
BY DEF Remaining, Numbers

LEMMA RemainingWillBe ==
    /\ Remaining'[1] = RequestsLeft' /\ Remaining'[2] = MaxTries - tries'
    /\ Remaining'[3] = StepsLeft[pc'] /\ Remaining'[4] = IF link' = "up" THEN 1 ELSE 0
    /\ Remaining'[5] = Len(wire') /\ Remaining'[6] = Len(inbound')
    /\ Remaining'[7] = Len(buf'.toks) /\ Remaining'[8] = IF parser' = "off" THEN 0 ELSE 1
    /\ Remaining'[9] = Len(chan') /\ Remaining'[10] = Len(limbo')
BY DEF Remaining, StepsLeft

LEMMA Steps ==
    /\ StepsLeft["idle"] = 9
    /\ StepsLeft["connect"] = 8
    /\ StepsLeft["begin"] = 7
    /\ StepsLeft["send"] = 6
    /\ StepsLeft["prepare"] = 6
    /\ StepsLeft["wait"] = 5
    /\ StepsLeft["execute"] = 5
    /\ StepsLeft["scan"] = 4
    /\ StepsLeft["fetch"] = 4
    /\ StepsLeft["closeStmt"] = 3
    /\ StepsLeft["found"] = 2
    /\ StepsLeft["none"] = 2
    /\ StepsLeft["end"] = 2
    /\ StepsLeft["close"] = 1
    /\ StepsLeft["ok"] = 0
    /\ StepsLeft["failed"] = 0
    /\ StepsLeft["panic"] = 0
BY DEF StepsLeft

(* What is left to do is not negative.                                     *)
LEMMA LeftType ==
    ASSUME TypeOK
    PROVE  /\ RequestsLeft \in Nat /\ MaxTries - tries \in Nat
           /\ StepsLeft[pc] \in Nat /\ Len(wire) \in Nat /\ Len(inbound) \in Nat
           /\ Len(buf.toks) \in Nat /\ Len(chan) \in Nat /\ Len(limbo) \in Nat
<1>1. LastLine \in Nat /\ line \in 1..LastLine
  BY LastLineType DEF TypeOK, CallTypeOK
<1>2. RequestsLeft \in Nat
  BY <1>1 DEF RequestsLeft
<1>3. MaxTries - tries \in Nat
  BY MaxTriesType DEF TypeOK, MssqlTypeOK
<1>4. StepsLeft[pc] \in Nat
  BY Steps DEF TypeOK, CallTypeOK, Over, MssqlSteps, OdbcSteps
<1>5. Len(wire) \in Nat /\ Len(inbound) \in Nat /\ Len(chan) \in Nat /\ Len(limbo) \in Nat
  BY DEF TypeOK, MssqlTypeOK, ServerTypeOK, ReaderTypeOK, OdbcTypeOK
<1>6. Len(buf.toks) \in Nat
  BY DEF TypeOK, MssqlTypeOK, ReaderTypeOK, PacketType
<1> QED
  BY <1>2, <1>3, <1>4, <1>5, <1>6

(* A request is over, a try is, or a step.                                 *)
LEMMA RequestOver ==
    ASSUME 0 <= RequestsLeft', RequestsLeft' < RequestsLeft
    PROVE  Lower(Remaining', Remaining)
<1>1. 0 <= Remaining'[1] /\ Remaining'[1] < Remaining[1]
  BY RemainingIs, RemainingWillBe
<1>2. 1 \in 1..Numbers /\ \A j \in 1..(1 - 1) : Remaining'[j] = Remaining[j]
  BY DEF Numbers
<1> QED
  BY <1>1, <1>2, LowerAt

LEMMA TryOver ==
    ASSUME RequestsLeft' = RequestsLeft, 0 <= MaxTries - tries',
           MaxTries - tries' < MaxTries - tries
    PROVE  Lower(Remaining', Remaining)
<1>1. 0 <= Remaining'[2] /\ Remaining'[2] < Remaining[2]
  BY RemainingIs, RemainingWillBe
<1>2. Remaining'[1] = Remaining[1]
  BY RemainingIs, RemainingWillBe
<1>3. 2 \in 1..Numbers /\ \A j \in 1..(2 - 1) : Remaining'[j] = Remaining[j]
  BY <1>2 DEF Numbers
<1> QED
  BY <1>1, <1>3, LowerAt

LEMMA StepOver ==
    ASSUME RequestsLeft' = RequestsLeft, tries' = tries,
           0 <= StepsLeft[pc'], StepsLeft[pc'] < StepsLeft[pc]
    PROVE  Lower(Remaining', Remaining)
<1>1. 0 <= Remaining'[3] /\ Remaining'[3] < Remaining[3]
  BY RemainingIs, RemainingWillBe
<1>2. Remaining'[1] = Remaining[1] /\ Remaining'[2] = Remaining[2]
  BY RemainingIs, RemainingWillBe
<1>3. 3 \in 1..Numbers /\ \A j \in 1..(3 - 1) : Remaining'[j] = Remaining[j]
  BY <1>2 DEF Numbers
<1> QED
  BY <1>1, <1>3, LowerAt

(* A request leaves the wire, a packet or a token what is to be read, the  *)
(* parser ends, a token leaves the channel: within one step of the caller. *)
SameStep == RequestsLeft' = RequestsLeft /\ UNCHANGED <<tries, pc>>

LEMMA UnderwayOver ==
    ASSUME TypeOK, SameStep,
           \/ link = "up" /\ link' # "up"
           \/ link' = link /\ 0 <= Len(wire') /\ Len(wire') < Len(wire)
           \/ UNCHANGED <<link, wire>> /\ 0 <= Len(inbound') /\ Len(inbound') < Len(inbound)
           \/ /\ UNCHANGED <<link, wire, inbound>>
              /\ 0 <= Len(buf'.toks) /\ Len(buf'.toks) < Len(buf.toks)
           \/ UNCHANGED <<link, wire, inbound, buf>> /\ parser # "off" /\ parser' = "off"
           \/ /\ UNCHANGED <<link, wire, inbound, buf, parser>>
              /\ 0 <= Len(chan') /\ Len(chan') < Len(chan)
           \/ /\ UNCHANGED <<link, wire, inbound, buf, parser, chan>>
              /\ 0 <= Len(limbo') /\ Len(limbo') < Len(limbo)
    PROVE  Lower(Remaining', Remaining)
<1>1. Remaining'[1] = Remaining[1] /\ Remaining'[2] = Remaining[2] /\ Remaining'[3] = Remaining[3]
  <2>1. RequestsLeft' = RequestsLeft /\ tries' = tries /\ pc' = pc
    BY DEF SameStep
  <2> QED
    BY <2>1, RemainingIs, RemainingWillBe
<1>4. CASE link = "up" /\ link' # "up"
  <2>1. 4 \in 1..Numbers /\ 0 <= Remaining'[4] /\ Remaining'[4] < Remaining[4]
    BY <1>4, RemainingIs, RemainingWillBe DEF Numbers
  <2>2. \A j \in 1..(4 - 1) : Remaining'[j] = Remaining[j]
    BY <1>1
  <2> QED
    BY <2>1, <2>2, LowerAt
<1>5. CASE link' = link /\ 0 <= Len(wire') /\ Len(wire') < Len(wire)
  <2>1. 5 \in 1..Numbers /\ 0 <= Remaining'[5] /\ Remaining'[5] < Remaining[5]
    BY <1>5, RemainingIs, RemainingWillBe DEF Numbers
  <2>2. /\ Remaining'[4] = Remaining[4]
    BY <1>5, RemainingIs, RemainingWillBe
  <2>3. \A j \in 1..(5 - 1) : Remaining'[j] = Remaining[j]
    BY <1>1, <2>2
  <2> QED
    BY <2>1, <2>3, LowerAt
<1>6. CASE UNCHANGED <<link, wire>> /\ 0 <= Len(inbound') /\ Len(inbound') < Len(inbound)
  <2>1. 6 \in 1..Numbers /\ 0 <= Remaining'[6] /\ Remaining'[6] < Remaining[6]
    BY <1>6, RemainingIs, RemainingWillBe DEF Numbers
  <2>2. /\ Remaining'[4] = Remaining[4] /\ Remaining'[5] = Remaining[5]
    BY <1>6, RemainingIs, RemainingWillBe
  <2>3. \A j \in 1..(6 - 1) : Remaining'[j] = Remaining[j]
    BY <1>1, <2>2
  <2> QED
    BY <2>1, <2>3, LowerAt
<1>7. CASE /\ UNCHANGED <<link, wire, inbound>>
           /\ 0 <= Len(buf'.toks) /\ Len(buf'.toks) < Len(buf.toks)
  <2>1. 7 \in 1..Numbers /\ 0 <= Remaining'[7] /\ Remaining'[7] < Remaining[7]
    BY <1>7, RemainingIs, RemainingWillBe DEF Numbers
  <2>2. /\ Remaining'[4] = Remaining[4] /\ Remaining'[5] = Remaining[5]
        /\ Remaining'[6] = Remaining[6]
    BY <1>7, RemainingIs, RemainingWillBe
  <2>3. \A j \in 1..(7 - 1) : Remaining'[j] = Remaining[j]
    BY <1>1, <2>2
  <2> QED
    BY <2>1, <2>3, LowerAt
<1>8. CASE UNCHANGED <<link, wire, inbound, buf>> /\ parser # "off" /\ parser' = "off"
  <2>1. 8 \in 1..Numbers /\ 0 <= Remaining'[8] /\ Remaining'[8] < Remaining[8]
    BY <1>8, RemainingIs, RemainingWillBe DEF Numbers
  <2>2. /\ Remaining'[4] = Remaining[4] /\ Remaining'[5] = Remaining[5]
        /\ Remaining'[6] = Remaining[6] /\ Remaining'[7] = Remaining[7]
    BY <1>8, RemainingIs, RemainingWillBe
  <2>3. \A j \in 1..(8 - 1) : Remaining'[j] = Remaining[j]
    BY <1>1, <2>2
  <2> QED
    BY <2>1, <2>3, LowerAt
<1>9. CASE /\ UNCHANGED <<link, wire, inbound, buf, parser>>
           /\ 0 <= Len(chan') /\ Len(chan') < Len(chan)
  <2>1. 9 \in 1..Numbers /\ 0 <= Remaining'[9] /\ Remaining'[9] < Remaining[9]
    BY <1>9, RemainingIs, RemainingWillBe DEF Numbers
  <2>2. /\ Remaining'[4] = Remaining[4] /\ Remaining'[5] = Remaining[5]
        /\ Remaining'[6] = Remaining[6] /\ Remaining'[7] = Remaining[7]
        /\ Remaining'[8] = Remaining[8]
    BY <1>9, RemainingIs, RemainingWillBe
  <2>3. \A j \in 1..(9 - 1) : Remaining'[j] = Remaining[j]
    BY <1>1, <2>2
  <2> QED
    BY <2>1, <2>3, LowerAt
<1>10. CASE /\ UNCHANGED <<link, wire, inbound, buf, parser, chan>>
           /\ 0 <= Len(limbo') /\ Len(limbo') < Len(limbo)
  <2>1. 10 \in 1..Numbers /\ 0 <= Remaining'[10] /\ Remaining'[10] < Remaining[10]
    BY <1>10, RemainingIs, RemainingWillBe DEF Numbers
  <2>2. /\ Remaining'[4] = Remaining[4] /\ Remaining'[5] = Remaining[5]
        /\ Remaining'[6] = Remaining[6] /\ Remaining'[7] = Remaining[7]
        /\ Remaining'[8] = Remaining[8] /\ Remaining'[9] = Remaining[9]
    BY <1>10, RemainingIs, RemainingWillBe
  <2>3. \A j \in 1..(10 - 1) : Remaining'[j] = Remaining[j]
    BY <1>1, <2>2
  <2> QED
    BY <2>1, <2>3, LowerAt
<1> QED
  BY <1>4, <1>5, <1>6, <1>7, <1>8, <1>9, <1>10

-----------------------------------------------------------------------------
(* The steps of a call on go-mssqldb.                                      *)

LEMMA LeftKept ==
    ASSUME UNCHANGED <<call, req, line>>
    PROVE  RequestsLeft' = RequestsLeft
BY DEF RequestsLeft, LastLine

LEMMA LeftAt ==
    ASSUME TypeOK
    PROVE  /\ LastLine \in Nat /\ LastLine >= 1 /\ line \in 1..LastLine
           /\ req = "begin" => RequestsLeft = LastLine + 1
           /\ req \in {"line", "query"} => RequestsLeft = LastLine + 1 - line
           /\ req \in {"commit", "rollback"} => RequestsLeft = 0
BY LastLineType DEF TypeOK, CallTypeOK, RequestsLeft

LEMMA LeftWillBe ==
    ASSUME call' = call
    PROVE  /\ LastLine' = LastLine
           /\ req' \in {"line", "query"} => RequestsLeft' = LastLine + 1 - line'
           /\ req' \in {"commit", "rollback"} => RequestsLeft' = 0
BY DEF RequestsLeft, LastLine

(* An error ends a try, the lines of a transaction, or the call.           *)
LEMMA FailsAdvances ==
    ASSUME TypeOK, pc \in {"send", "wait"}, NEW e, Fails(e)
    PROVE  Lower(Remaining', Remaining)
<1>1. CASE Resends(e) /\ HangUp /\ tries' = tries + 1 /\ UNCHANGED <<req, line>>
  <2>1. RequestsLeft' = RequestsLeft
    BY <1>1, LeftKept DEF HangUp
  <2>2. MaxTries \in Nat /\ tries \in Nat /\ tries < MaxTries
    BY <1>1, MaxTriesType DEF Resends, TypeOK, MssqlTypeOK
  <2> QED
    BY <1>1, <2>1, <2>2, TryOver
<1>2. CASE req = "line" /\ req' = "rollback" /\ call' = call
  <2>1. RequestsLeft' = 0 /\ RequestsLeft > 0
    BY <1>2, LeftAt, LeftWillBe
  <2> QED
    BY <2>1, RequestOver
<1>3. CASE HangUp /\ pc' \in {"panic", "failed"} /\ UNCHANGED <<req, line, tries>>
  <2>1. RequestsLeft' = RequestsLeft
    BY <1>3, LeftKept DEF HangUp
  <2>2. 0 <= StepsLeft[pc'] /\ StepsLeft[pc'] < StepsLeft[pc]
    BY <1>3, Steps
  <2> QED
    BY <1>3, <2>1, <2>2, StepOver
<1> QED
  BY <1>1, <1>2, <1>3 DEF Fails

(* The next line or the commit is a request less.                          *)
LEMMA NextAdvances ==
    ASSUME TypeOK, NextInTx \/ (NextLine /\ pc' # "ok" /\ req = "line")
    PROVE  Lower(Remaining', Remaining)
<1>1. CASE NextInTx
  <2>1. call' = call
    BY <1>1 DEF NextInTx
  <2>2. CASE req = "begin"
    <3>1. req' = "line" /\ line' = 1
      BY <1>1, <2>2 DEF NextInTx
    <3>2. RequestsLeft = LastLine + 1 /\ RequestsLeft' = LastLine /\ LastLine \in Nat
      BY <2>1, <2>2, <3>1, LeftAt, LeftWillBe
    <3> QED
      BY <3>2, RequestOver
  <2>3. CASE req = "line" /\ line = LastLine
    <3>1. req' = "commit"
      BY <1>1, <2>3 DEF NextInTx
    <3>2. RequestsLeft = 1 /\ RequestsLeft' = 0
      BY <2>1, <2>3, <3>1, LeftAt, LeftWillBe
    <3> QED
      BY <3>2, RequestOver
  <2>4. CASE req = "line" /\ line # LastLine
    <3>1. req' = "line" /\ line' = line + 1
      BY <1>1, <2>4 DEF NextInTx
    <3>2. /\ RequestsLeft = LastLine + 1 - line /\ RequestsLeft' = LastLine - line
          /\ LastLine \in Nat /\ line \in 1..LastLine
      BY <2>1, <2>4, <3>1, LeftAt, LeftWillBe
    <3> QED
      BY <3>2, RequestOver
  <2> QED
    BY <1>1, <2>2, <2>3, <2>4 DEF NextInTx
<1>2. CASE NextLine /\ pc' # "ok" /\ req = "line"
  <2>1. call' = call /\ req' = "line" /\ line' = line + 1 /\ line # LastLine
    BY <1>2 DEF NextLine, HangUp
  <2>2. /\ RequestsLeft = LastLine + 1 - line /\ RequestsLeft' = LastLine - line
        /\ LastLine \in Nat /\ line \in 1..LastLine
    BY <1>2, <2>1, LeftAt, LeftWillBe
  <2> QED
    BY <2>2, RequestOver
<1> QED
  BY <1>1, <1>2

(* A step of the caller that goes on with the same request.                *)
LEMMA CallerSteps ==
    ASSUME TypeOK, UNCHANGED <<call, req, line, tries>>,
           0 <= StepsLeft[pc'], StepsLeft[pc'] < StepsLeft[pc]
    PROVE  Lower(Remaining', Remaining)
BY LeftKept, StepOver

(* A token is taken from the channel.                                      *)
LEMMA TokenTaken ==
    ASSUME TypeOK, chan # <<>>, chan' = Tail(chan),
           UNCHANGED <<call, pc, req, line, tries, link, wire, inbound, parser, buf>>
    PROVE  Lower(Remaining', Remaining)
<1>1. SameStep
  BY LeftKept DEF SameStep
<1>2. chan \in Seq(Tokens \cup Errors)
  BY DEF TypeOK, MssqlTypeOK, ReaderTypeOK
<1>3. 0 <= Len(chan') /\ Len(chan') < Len(chan)
  BY <1>2, TailFacts
<1> QED
  BY <1>1, <1>3, UnderwayOver

(* Every step of the goroutine of the request.                             *)
LEMMA CallerAdvances ==
    ASSUME TypeOK, KindOK, Caller
    PROVE  Lower(Remaining', Remaining)
<1>1. CASE Start /\ UNCHANGED mssqlVars
  BY <1>1, Steps, CallerSteps DEF Start, mssqlVars
<1>2. CASE Connect
  BY <1>2, Steps, CallerSteps DEF Connect
<1>3. CASE Send
  BY <1>3, Steps, CallerSteps DEF Send
<1>4. CASE SendFails
  BY <1>4, FailsAdvances DEF SendFails
<1>5. CASE ReceiveError
  BY <1>5, FailsAdvances DEF ReceiveError
<1>6. CASE ReceiveToken \/ Drain
  BY <1>6, TokenTaken DEF ReceiveToken, Drain, caller, server
<1>7. CASE NextInTx
  BY <1>7, NextAdvances
<1>8. CASE NextLine
  <2>1. CASE pc' = "ok"
    <3>1. line = LastLine
      BY <1>8, <2>1 DEF NextLine
    <3>2. UNCHANGED <<call, req, line, tries>> /\ pc = "wait"
      BY <1>8, <3>1 DEF NextLine, HangUp, Closed
    <3> QED
      BY <2>1, <3>2, Steps, CallerSteps
  <2>2. CASE pc' # "ok"
    BY <1>8, <2>2, NextAdvances DEF NextLine, KindOK
  <2> QED
    BY <2>1, <2>2
<1>9. CASE EndOfTx
  BY <1>9, Steps, CallerSteps DEF EndOfTx, HangUp, Closed
<1>10. CASE QueryReturns
  BY <1>10, Steps, CallerSteps DEF QueryReturns
<1>11. CASE Scan
  <2>1. CASE pc' = "scan"
    <3>1. chan # <<>> /\ chan' = Tail(chan)
      BY <1>11, <2>1 DEF Scan
    <3> QED
      BY <1>11, <2>1, <3>1, TokenTaken DEF Scan, server
  <2>2. CASE pc' # "scan"
    <3>1. pc' \in {"found", "none"} /\ pc = "scan" /\ UNCHANGED <<call, req, line, tries>>
      BY <1>11, <2>2 DEF Scan
    <3> QED
      BY <3>1, Steps, CallerSteps
  <2> QED
    BY <2>1, <2>2
<1>12. CASE RowsClosed
  BY <1>12, Steps, CallerSteps DEF RowsClosed, HangUp
<1> QED
  BY <1>1, <1>2, <1>3, <1>4, <1>5, <1>6, <1>7, <1>8, <1>9, <1>10, <1>11, <1>12 DEF Caller

(* Every step of the parser.                                               *)
LEMMA ParserAdvances ==
    ASSUME TypeOK, Parse
    PROVE  Lower(Remaining', Remaining)
<1> USE DEF TypeOK, MssqlTypeOK, ReaderTypeOK
<1>1. SameStep
  <2>1. UNCHANGED caller
    BY DEF Parse, ReadPacket, ReadFails, ParseData, ParseEnvChange, ParseDone
  <2> QED
    BY <2>1, LeftKept DEF SameStep, caller
<1>2. UNCHANGED <<link, wire>>
  BY DEF Parse, ReadPacket, ReadFails, ParseData, ParseEnvChange, ParseDone, server
<1>3. CASE ReadPacket
  <2>1. 0 <= Len(inbound') /\ Len(inbound') < Len(inbound)
    BY <1>3, TailFacts DEF ReadPacket
  <2> QED
    BY <1>1, <1>2, <2>1, UnderwayOver
<1>4. CASE ReadFails
  <2>1. UNCHANGED <<inbound, buf>> /\ parser # "off" /\ parser' = "off"
    BY <1>4 DEF ReadFails, Closes
  <2> QED
    BY <1>1, <1>2, <2>1, UnderwayOver
<1>5. CASE ParseData \/ ParseEnvChange \/ ParseDone
  <2>1. parser = "parse" /\ inbound' = inbound /\ buf' = [buf EXCEPT !.toks = Tail(@)]
    BY <1>5 DEF ParseData, ParseEnvChange, ParseDone, Advance
  <2>2. buf.toks \in Seq(Tokens) /\ buf.toks # <<>> /\ buf'.toks = Tail(buf.toks)
    BY <2>1 DEF PacketType
  <2>3. 0 <= Len(buf'.toks) /\ Len(buf'.toks) < Len(buf.toks)
    BY <2>2, TailFacts
  <2> QED
    BY <1>1, <1>2, <2>1, <2>3, UnderwayOver
<1> QED
  BY <1>3, <1>4, <1>5 DEF Parse

(* A request that the server executes, and the loss of the connection.     *)
LEMMA ConnectionAdvances ==
    ASSUME TypeOK, Serve \/ Cut
    PROVE  Lower(Remaining', Remaining)
<1>1. SameStep
  <2>1. UNCHANGED caller
    BY DEF Serve, Cut
  <2> QED
    BY <2>1, LeftKept DEF SameStep, caller
<1>2. CASE Serve
  <2>1. wire \in Seq(Requests)
    BY DEF TypeOK, MssqlTypeOK, ServerTypeOK
  <2>2. link' = link /\ 0 <= Len(wire') /\ Len(wire') < Len(wire)
    BY <1>2, <2>1, TailFacts DEF Serve
  <2> QED
    BY <1>1, <2>2, UnderwayOver
<1>3. CASE Cut
  BY <1>1, <1>3, UnderwayOver DEF Cut
<1> QED
  BY <1>2, <1>3

(* What a closed connection has left is no concern of the call.            *)
LEMMA LateUnseen ==
    ASSUME TypeOK, NEW s \in late, LateEnds(s) \/ LateServe(s), UNCHANGED odbcVars
    PROVE  late' # late /\ UNCHANGED Remaining
<1>1. UNCHANGED <<caller, link, wire, inbound, reader, limbo>>
  BY DEF LateEnds, LateServe, odbcVars
<1>2. UNCHANGED Remaining
  <2>1. RequestsLeft' = RequestsLeft
    BY <1>1, LeftKept DEF caller
  <2> QED
    BY <1>1, <2>1 DEF Remaining, caller, reader, StepsLeft
<1>3. CASE LateEnds(s)
  BY <1>2, <1>3 DEF LateEnds
<1>4. CASE LateServe(s)
  <2>1. s \in [line : Nat, tries : Nat, wire : Seq(Requests), tran : Trans] /\ s.wire # <<>>
    BY DEF TypeOK, MssqlTypeOK, ServerTypeOK
  <2>2. s.wire \in Seq(Requests)
    BY <2>1
  <2>3. Tail(s.wire) # s.wire
    <3>1. Len(Tail(s.wire)) # Len(s.wire)
      BY <2>1, <2>2, TailFacts
    <3> QED
      BY <3>1
  <2>4. \A t : [s EXCEPT !.wire = Tail(@), !.tran = t] # s
    <3> TAKE t
    <3>1. [s EXCEPT !.wire = Tail(@), !.tran = t].wire = Tail(s.wire)
      BY <2>1
    <3> QED
      BY <2>3, <3>1
  <2>5. s \notin late'
    BY <1>4, <2>4 DEF LateServe
  <2> QED
    BY <1>2, <2>5
<1> QED
  BY <1>3, <1>4

-----------------------------------------------------------------------------
(* The steps of a call on odbc.                                            *)

(* A line of a transaction is followed by the next one, or by its end.     *)
LEMMA AfterLine ==
    ASSUME TypeOK, InTx, req = "line", call' = call, NEW e, AfterRequest(e)
    PROVE  Lower(Remaining', Remaining)
<1>1. /\ RequestsLeft = LastLine + 1 - line
      /\ LastLine \in Nat /\ line \in 1..LastLine
  BY LeftAt
<1>2. CASE e \/ line = LastLine
  <2>1. req' \in {"commit", "rollback"}
    BY <1>2 DEF AfterRequest
  <2>2. RequestsLeft' = 0
    BY <2>1, LeftWillBe
  <2> QED
    BY <1>1, <2>2, RequestOver
<1>3. CASE ~(e \/ line = LastLine)
  <2>1. req' = "line" /\ line' = line + 1
    BY <1>3 DEF AfterRequest
  <2>2. RequestsLeft' = LastLine - line
    BY <1>1, <2>1, LeftWillBe
  <2> QED
    BY <1>1, <2>2, RequestOver
<1> QED
  BY <1>2, <1>3

(* Every step of a call on odbc, and of what a lost connection has left.   *)
LEMMA OdbcAdvances ==
    ASSUME TypeOK, OdbcInv, OdbcNext, UNCHANGED mssqlVars
    PROVE  Lower(Remaining', Remaining)
<1>t. tries' = tries
  BY DEF mssqlVars
<1>1. CASE Start /\ UNCHANGED odbcVars
  BY <1>1, <1>t, Steps, CallerSteps DEF Start
<1>2. CASE LimboEnds
  <2>1. SameStep
    BY <1>2, <1>t, LeftKept DEF LimboEnds, SameStep
  <2>2. 0 <= Len(limbo') /\ Len(limbo') < Len(limbo)
    <3>1. limbo \in Seq(Nat) /\ limbo # <<>> /\ limbo' = <<>>
      BY <1>2 DEF LimboEnds, TypeOK, OdbcTypeOK
    <3>2. Len(limbo) > 0 /\ Len(limbo') = 0
      BY <3>1, NotEmpty
    <3> QED
      BY <3>2
  <2> QED
    BY <2>1, <2>2, UnderwayOver DEF mssqlVars
<1>3. CASE Open
  BY <1>3, <1>t, Steps, CallerSteps DEF Open
<1>4. CASE Begin
  <2>1. req = "begin"
    BY <1>4 DEF Begin, OdbcInv, AutoOK, WorkOK
  <2>2. CASE req' = "line"
    <3>1. RequestsLeft = LastLine + 1 /\ RequestsLeft' = LastLine + 1 - line
      BY <1>4, <2>1, <2>2, LeftAt, LeftWillBe DEF Begin
    <3> QED
      BY <3>1, LeftAt, RequestOver
  <2>3. CASE req' # "line"
    BY <1>4, <1>t, <2>3, Steps, CallerSteps DEF Begin
  <2> QED
    BY <2>2, <2>3
<1>5. CASE Prepare
  <2>1. CASE UNCHANGED <<req, line>> /\ pc' \in {"execute", "close"}
    BY <1>5, <1>t, <2>1, Steps, CallerSteps DEF Prepare
  <2>2. CASE InTx /\ AfterRequest(TRUE)
    BY <1>5, <2>2, AfterLine DEF Prepare, OdbcInv, WorkOK
  <2> QED
    BY <1>5, <2>1, <2>2 DEF Prepare, AfterRequest
<1>6. CASE Execute
  BY <1>6, <1>t, Steps, CallerSteps DEF Execute
<1>7. CASE Fetch
  BY <1>7, <1>t, Steps, CallerSteps DEF Fetch
<1>8. CASE CloseStmt
  <2>1. CASE UNCHANGED <<req, line>> /\ pc' = "close"
    BY <1>8, <1>t, <2>1, Steps, CallerSteps DEF CloseStmt
  <2>2. CASE InTx /\ AfterRequest(err)
    BY <1>8, <2>2, AfterLine DEF CloseStmt, OdbcInv, WorkOK
  <2> QED
    BY <1>8, <2>1, <2>2 DEF CloseStmt, AfterRequest
<1>9. CASE EndTx
  BY <1>9, <1>t, Steps, CallerSteps DEF EndTx
<1>10. CASE Close
  <2>1. CASE pc' \in Over /\ line' = line
    BY <1>10, <1>t, <2>1, Steps, CallerSteps DEF Close, Over
  <2>2. CASE call.kind = "exec" /\ line < LastLine /\ line' = line + 1
    <3>1. call' = call /\ req = "line" /\ req' = "line"
      BY <1>10, <2>2 DEF Close, OdbcInv, KindOK
    <3>2. /\ RequestsLeft = LastLine + 1 - line /\ RequestsLeft' = LastLine - line
          /\ LastLine \in Nat /\ line \in 1..LastLine
      BY <2>2, <3>1, LeftAt, LeftWillBe
    <3> QED
      BY <3>2, RequestOver
  <2> QED
    BY <1>10, <2>1, <2>2 DEF Close, Over
<1> QED
  BY <1>1, <1>2, <1>3, <1>4, <1>5, <1>6, <1>7, <1>8, <1>9, <1>10 DEF OdbcNext

-----------------------------------------------------------------------------
(* What is left of a call consists of natural numbers, so that the order   *)
(* of NoEndlessDescent is the one of its steps.                            *)
LEMMA DriversRanked == Spec => [](Remaining \in Ranks(Numbers))
<1>1. TypeOK => Remaining \in Ranks(Numbers)
  <2> SUFFICES ASSUME TypeOK PROVE Remaining \in Ranks(Numbers)
    OBVIOUS
  <2>1. \A a1, a2, a3, a4, a5, a6, a7, a8, a9, a10 \in Nat :
           <<a1, a2, a3, a4, a5, a6, a7, a8, a9, a10>> \in [1..10 -> Nat]
    OBVIOUS
  <2> QED
    BY <2>1, LeftType DEF Remaining, Ranks, Numbers
<1> QED
  BY <1>1, DriversTypeCorrect, PTL

(* A call on either driver takes finitely many steps, whatever fails (the  *)
(* retries of database/sql, the loops over templates, tokens and rows, the *)
(* rollback after an error): with fairness of the two goroutines and as    *)
(* neither waits for the other for ever this is CallsReturn.               *)
THEOREM DriversAdvance == Spec => CallsAdvance
<1> DEFINE Advances == \/ Lower(Remaining', Remaining)
                       \/ late' # late /\ UNCHANGED Remaining
<1>1. ASSUME IInv, [Next]_vars PROVE Advances \/ UNCHANGED vars
  <2>1. TypeOK
    BY <1>1 DEF IInv
  <2>2. CASE driver = "mssql" /\ MssqlNext /\ UNCHANGED odbcVars
    <3>1. KindOK
      BY <1>1, <2>2 DEF IInv, MssqlInv
    <3>2. CASE \E s \in late : LateEnds(s) \/ LateServe(s)
      BY <2>1, <2>2, <3>2, LateUnseen
    <3>3. CASE Parse \/ Caller \/ Serve \/ Cut
      BY <2>1, <3>1, <3>3, ParserAdvances, CallerAdvances, ConnectionAdvances
    <3> QED
      BY <2>2, <3>2, <3>3 DEF MssqlNext
  <2>3. CASE driver = "odbc" /\ OdbcNext /\ UNCHANGED mssqlVars
    BY <1>1, <2>1, <2>3, OdbcAdvances DEF IInv
  <2> QED
    BY <1>1, <2>2, <2>3 DEF Next
<1>2. IInv /\ [Next]_vars => [Advances]_vars
  BY <1>1
<1> QED
  BY <1>2, DriversInv, PTL DEF Spec, CallsAdvance

=============================================================================
