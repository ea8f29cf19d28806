--------------------------- MODULE ServiceProofs ---------------------------
(***************************************************************************)
(* Proofs about the Windows service, for any number of processes and with  *)
(* a service API that may fail.                                            *)
(***************************************************************************)
EXTENDS ServiceSafety, TLAPS

(* Execute starts with run, and acts upon nothing when it sends nothing.   *)
Fresh(p) ==
    /\ run[p] = "init" => exec[p] = "off"
    /\ exec[p] # "send" => acting[p] = None

(* Until run has ended the SCM regards p as the service and as not stopped.*)
SpeaksAlone(p) == Alive(p) /\ run[p] # "ended" => current = p /\ reported # "Stopped"

(* run's copy of the status is what it reported, once it reported one.     *)
Remembers(p) ==
    Looping(p) =>
       /\ exec[p] # "off"
       /\ acting[p] = "Start" =>
             exec[p] = "send" /\ sending[p] = "Running" /\ reported = "StartPending"
       /\ acting[p] # "Start" => status[p] = reported
       /\ acting[p] # "Start" /\ exec[p] # "exit" => reported \in {"Running", "Paused"}

(* What Execute sends is its answer to the control it acts upon.           *)
Answers(p) ==
    Looping(p) /\ exec[p] = "send" =>
       /\ acting[p] \in AllControls \cup {"Start"}
       /\ acting[p] # "Start" => sending[p] = Answer(acting[p], status[p])

(* A process starts with nothing underway.                                 *)
Inactive(p) ==
    /\ phase[p] = "off" => run[p] = "init" /\ cmd[p] = None /\ handling[p] = None
    /\ Alive(p) /\ run[p] = "init" => reported = "StartPending"

ServiceInv ==
    \A p \in Processes :
       Fresh(p) /\ SpeaksAlone(p) /\ Remembers(p) /\ Answers(p) /\ Inactive(p)
-----------------------------------------------------------------------------
(* The initial state has the types of TypeOK.                              *)
LEMMA InitTypeOK == Init => TypeOK
  BY DEF Init, TypeOK, Statuses, Phases

(* The end of a process keeps the types.                                   *)
LEMMA EndsTypeOK ==
  ASSUME TypeOK, NEW p \in Processes, Ends(p)
  PROVE  TypeOK'
  BY DEF TypeOK, Ends, Statuses, Phases

(* Every step keeps the types.                                             *)
LEMMA NextTypeOK == TypeOK /\ [Next]_vars => TypeOK'
  <1> SUFFICES ASSUME TypeOK, [Next]_vars PROVE TypeOK'
    OBVIOUS
  <1> USE DEF TypeOK, Statuses, Phases, scm, handler
  <1>1. ASSUME NEW p \in Processes, Launch(p) PROVE TypeOK'
    BY <1>1 DEF Launch
  <1>2. ASSUME NEW p \in Processes, CtlHandler(p) PROVE TypeOK'
    BY <1>2, ControlsType DEF CtlHandler, Accepted
  <1>3. ASSUME NEW p \in Processes, ServiceMain(p) PROVE TypeOK'
    BY <1>3 DEF ServiceMain
  <1>4. ASSUME NEW p \in Processes, ServiceMainReturns(p) PROVE TypeOK'
    BY <1>4 DEF ServiceMainReturns
  <1>5. ASSUME NEW p \in Processes, DispatcherReturns(p) PROVE TypeOK'
    BY <1>5, EndsTypeOK DEF DispatcherReturns
  <1>6. ASSUME NEW p \in Processes, RunStarts(p) PROVE TypeOK'
    BY <1>6, NoneIsNothing DEF RunStarts
  <1>7. ASSUME NEW p \in Processes, Receive(p) PROVE TypeOK'
    BY <1>7 DEF Receive
  <1>8. ASSUME NEW p \in Processes, Deliver(p) PROVE TypeOK'
    <2>1. Answer(cmd[p], status[p]) \in Statuses
      BY <1>8 DEF Deliver, Answer
    <2>2. cmd[p] \in AllControls
      BY <1>8 DEF Deliver
    <2>3. QED BY <1>8, <2>1, <2>2, NoneIsNothing DEF Deliver
  <1>9. ASSUME NEW p \in Processes, Report(p) PROVE TypeOK'
    <2>1. sending[p] \in Statuses
      BY <1>9 DEF Report
    <2>2. QED BY <1>9, <2>1 DEF Report, ExecuteGoesOn
  <1>10. ASSUME NEW p \in Processes, ExecuteExits(p) PROVE TypeOK'
    BY <1>10 DEF ExecuteExits
  <1>11. ASSUME NEW p \in Processes, Finish(p) PROVE TypeOK'
    BY <1>11 DEF Finish
  <1>12. ASSUME NEW p \in Processes, LoadAndConnect(p) PROVE TypeOK'
    BY <1>12, EndsTypeOK DEF LoadAndConnect
  <1>13. ASSUME NEW p \in Processes, Listen(p) PROVE TypeOK'
    BY <1>13, EndsTypeOK DEF Listen
  <1>14. ASSUME NEW p \in Processes, ServingPanics(p) PROVE TypeOK'
    BY <1>14, EndsTypeOK DEF ServingPanics
  <1>15. CASE UNCHANGED vars
    BY <1>15 DEF vars
  <1>16. QED BY <1>1, <1>2, <1>3, <1>4, <1>5, <1>6, <1>7, <1>8, <1>9, <1>10, <1>11, <1>12, <1>13, <1>14, <1>15 DEF Next, ServiceStep, BrokerStep

(* Every variable of the service stays within its type.                    *)
THEOREM ServiceTypeCorrect == Spec => []TypeOK
  <1>1. QED BY InitTypeOK, NextTypeOK, PTL DEF Spec

-----------------------------------------------------------------------------
(* The parts of ServiceInv of one process.                                 *)
Healthy(p) == Fresh(p) /\ SpeaksAlone(p) /\ Remembers(p) /\ Answers(p) /\ Inactive(p)

(* The invariant holds initially.                                          *)
LEMMA InitServiceInv == Init => ServiceInv
  <1> SUFFICES ASSUME Init, NEW p \in Processes PROVE Healthy(p)
    BY DEF ServiceInv, Healthy
  <1>1. /\ phase[p] = "off" /\ run[p] = "init" /\ exec[p] = "off"
        /\ acting[p] = None /\ cmd[p] = None /\ handling[p] = None
    BY DEF Init
  <1>2. QED
    BY <1>1 DEF Healthy, Fresh, SpeaksAlone, Remembers, Answers, Inactive, Looping, Alive

(* The end of a process leaves the others as they are.                     *)
LEMMA EndsServiceInv ==
  ASSUME TypeOK, ServiceInv, NEW p \in Processes, Ends(p)
  PROVE  ServiceInv'
  <1> SUFFICES ASSUME NEW q \in Processes PROVE Healthy(q)'
    BY DEF ServiceInv, Healthy
  <1> USE DEF TypeOK, ServiceInv, Fresh, SpeaksAlone, Remembers, Answers, Inactive, Looping, Alive
  <1>1. CASE q = p
    BY <1>1 DEF Ends, Healthy
  <1>2. CASE q # p
    <2>1. /\ phase'[q] = phase[q] /\ run'[q] = run[q] /\ exec'[q] = exec[q]
          /\ acting'[q] = acting[q] /\ sending'[q] = sending[q]
          /\ status'[q] = status[q] /\ cmd'[q] = cmd[q] /\ handling'[q] = handling[q]
      BY <1>2 DEF Ends
    <2>2. Alive(q) /\ run[q] # "ended" => current' = q /\ reported' = reported
      BY <1>2 DEF Ends
    <2>3. QED BY <2>1, <2>2 DEF Healthy
  <1>3. QED BY <1>1, <1>2

(* Every step keeps the invariant.                                         *)
LEMMA NextServiceInv == TypeOK /\ ServiceInv /\ [Next]_vars => ServiceInv'
  <1> SUFFICES ASSUME TypeOK, ServiceInv, [Next]_vars PROVE ServiceInv'
    OBVIOUS
  <1> USE DEF TypeOK, Fresh, SpeaksAlone, Remembers, Answers, Inactive, Looping, Alive, scm, handler
  <1>1. ASSUME NEW p \in Processes, Launch(p) PROVE ServiceInv'
    <2> SUFFICES ASSUME NEW q \in Processes PROVE Healthy(q)'
      BY DEF ServiceInv, Healthy
    <2>1. CASE q = p
      BY <1>1, <2>1, NoneIsNothing DEF Launch, ServiceInv, Healthy
    <2>2. CASE q # p
      BY <1>1, <2>2 DEF Launch, ServiceInv, Healthy
    <2>3. QED BY <2>1, <2>2
  <1>2. ASSUME NEW p \in Processes, CtlHandler(p) PROVE ServiceInv'
    <2> SUFFICES ASSUME NEW q \in Processes PROVE Healthy(q)'
      BY DEF ServiceInv, Healthy
    <2>1. CASE q = p
      BY <1>2, <2>1, NoneIsNothing DEF CtlHandler, ServiceInv, Healthy
    <2>2. CASE q # p
      BY <1>2, <2>2 DEF CtlHandler, ServiceInv, Healthy
    <2>3. QED BY <2>1, <2>2
  <1>3. ASSUME NEW p \in Processes, ServiceMain(p) PROVE ServiceInv'
    <2> SUFFICES ASSUME NEW q \in Processes PROVE Healthy(q)'
      BY DEF ServiceInv, Healthy
    <2>1. CASE q = p
      BY <1>3, <2>1, NoneIsNothing DEF ServiceMain, ServiceInv, Healthy
    <2>2. CASE q # p
      BY <1>3, <2>2 DEF ServiceMain, ServiceInv, Healthy
    <2>3. QED BY <2>1, <2>2
  <1>4. ASSUME NEW p \in Processes, ServiceMainReturns(p) PROVE ServiceInv'
    <2> SUFFICES ASSUME NEW q \in Processes PROVE Healthy(q)'
      BY DEF ServiceInv, Healthy
    <2>1. CASE q = p
      BY <1>4, <2>1, NoneIsNothing DEF ServiceMainReturns, ServiceInv, Healthy
    <2>2. CASE q # p
      BY <1>4, <2>2 DEF ServiceMainReturns, ServiceInv, Healthy
    <2>3. QED BY <2>1, <2>2
  <1>5. ASSUME NEW p \in Processes, DispatcherReturns(p) PROVE ServiceInv'
    <2>1. CASE Ends(p)
      BY <2>1, EndsServiceInv
    <2>2. QED BY <1>5, <2>1 DEF DispatcherReturns
  <1>6. ASSUME NEW p \in Processes, RunStarts(p) PROVE ServiceInv'
    <2> SUFFICES ASSUME NEW q \in Processes PROVE Healthy(q)'
      BY DEF ServiceInv, Healthy
    <2>1. CASE q = p
      BY <1>6, <2>1, NoneIsNothing DEF RunStarts, ServiceInv, Healthy
    <2>2. CASE q # p
      BY <1>6, <2>2 DEF RunStarts, ServiceInv, Healthy
    <2>3. QED BY <2>1, <2>2
  <1>7. ASSUME NEW p \in Processes, Receive(p) PROVE ServiceInv'
    <2> SUFFICES ASSUME NEW q \in Processes PROVE Healthy(q)'
      BY DEF ServiceInv, Healthy
    <2>1. CASE q = p
      BY <1>7, <2>1, NoneIsNothing DEF Receive, ServiceInv, Healthy
    <2>2. CASE q # p
      BY <1>7, <2>2 DEF Receive, ServiceInv, Healthy
    <2>3. QED BY <2>1, <2>2
  <1>8. ASSUME NEW p \in Processes, Deliver(p) PROVE ServiceInv'
    <2> SUFFICES ASSUME NEW q \in Processes PROVE Healthy(q)'
      BY DEF ServiceInv, Healthy
    <2>1. CASE q = p
      <3>1. cmd[p] \in AllControls /\ cmd[p] # "Start" /\ status[p] = reported
        BY <1>8 DEF Deliver, ServiceInv, AllControls
      <3>2. QED BY <1>8, <2>1, <3>1 DEF Deliver, ServiceInv, Healthy
    <2>2. CASE q # p
      BY <1>8, <2>2 DEF Deliver, ServiceInv, Healthy, Answer
    <2>3. QED BY <2>1, <2>2
  <1>9. ASSUME NEW p \in Processes, Report(p) PROVE ServiceInv'
    <2> SUFFICES ASSUME NEW q \in Processes PROVE Healthy(q)'
      BY DEF ServiceInv, Healthy
    <2>1. CASE q = p
      <3>1. current = p /\ reported # "Stopped" /\ run[p] = "loop" /\ phase[p] # "off"
        BY <1>9 DEF Report, ServiceInv
      <3>2. \/ sending[p] \in {"Running", "Paused"}
            \/ sending[p] = "StopPending" /\ acting[p] \in {"Stop", "Shutdown"}
        BY <1>9 DEF Report, ServiceInv, Answer, AllControls
      <3>3. /\ acting'[p] = None /\ None # "Start" /\ sending'[p] = None
            /\ exec'[p] = IF acting[p] \in {"Stop", "Shutdown"} THEN "exit" ELSE "select"
        BY <1>9, NoneIsNothing DEF Report, ExecuteGoesOn
      <3>4. CASE run' = [run EXCEPT ![p] = "broken"]
        BY <1>9, <2>1, <3>1, <3>3, <3>4 DEF Report, ServiceInv, Healthy
      <3>5. CASE UNCHANGED run
        <4>1. reported' = sending[p] /\ status'[p] = sending[p] /\ run'[p] = "loop"
          BY <1>9, <3>1, <3>5 DEF Report
        <4>2. QED BY <1>9, <2>1, <3>1, <3>2, <3>3, <4>1 DEF Report, Healthy
      <3>6. QED BY <1>9, <3>4, <3>5 DEF Report
    <2>2. CASE q # p
      BY <1>9, <2>2 DEF Report, ExecuteGoesOn, ServiceInv, Healthy
    <2>3. QED BY <2>1, <2>2
  <1>10. ASSUME NEW p \in Processes, ExecuteExits(p) PROVE ServiceInv'
    <2> SUFFICES ASSUME NEW q \in Processes PROVE Healthy(q)'
      BY DEF ServiceInv, Healthy
    <2>1. CASE q = p
      BY <1>10, <2>1, NoneIsNothing DEF ExecuteExits, ServiceInv, Healthy
    <2>2. CASE q # p
      BY <1>10, <2>2 DEF ExecuteExits, ServiceInv, Healthy
    <2>3. QED BY <2>1, <2>2
  <1>11. ASSUME NEW p \in Processes, Finish(p) PROVE ServiceInv'
    <2> SUFFICES ASSUME NEW q \in Processes PROVE Healthy(q)'
      BY DEF ServiceInv, Healthy
    <2>1. CASE q = p
      BY <1>11, <2>1, NoneIsNothing DEF Finish, ServiceInv, Healthy
    <2>2. CASE q # p
      BY <1>11, <2>2 DEF Finish, ServiceInv, Healthy
    <2>3. QED BY <2>1, <2>2
  <1>12. ASSUME NEW p \in Processes, LoadAndConnect(p) PROVE ServiceInv'
    <2>1. CASE Ends(p)
      BY <2>1, EndsServiceInv
    <2>2. CASE ~Ends(p)
      BY <1>12, <2>2 DEF LoadAndConnect, ServiceInv
    <2>3. QED BY <2>1, <2>2
  <1>13. ASSUME NEW p \in Processes, Listen(p) PROVE ServiceInv'
    <2>1. CASE Ends(p)
      BY <2>1, EndsServiceInv
    <2>2. CASE ~Ends(p)
      BY <1>13, <2>2 DEF Listen, ServiceInv
    <2>3. QED BY <2>1, <2>2
  <1>14. ASSUME NEW p \in Processes, ServingPanics(p) PROVE ServiceInv'
    <2>1. CASE Ends(p)
      BY <2>1, EndsServiceInv
    <2>2. QED BY <1>14, <2>1 DEF ServingPanics
  <1>15. CASE UNCHANGED vars
    BY <1>15 DEF vars, ServiceInv, Healthy
  <1>16. QED BY <1>1, <1>2, <1>3, <1>4, <1>5, <1>6, <1>7, <1>8, <1>9, <1>10, <1>11, <1>12, <1>13, <1>14, <1>15 DEF Next, ServiceStep, BrokerStep

(* The invariant and the types hold together.                              *)
LEMMA ServiceInvariant == Spec => [](TypeOK /\ ServiceInv)
  <1>1. QED BY InitTypeOK, NextTypeOK, InitServiceInv, NextServiceInv, PTL DEF Spec

(* What Execute echoes to an interrogation is what the SCM knows.          *)
THEOREM EchoesAreCurrent == Spec => []EchoIsCurrent
  <1>1. ServiceInv => EchoIsCurrent
    BY DEF ServiceInv, EchoIsCurrent, Remembers, Answers, Answer
  <1>2. QED BY <1>1, ServiceInvariant, PTL

(* Only the process started last reports to the SCM.                       *)
THEOREM ReportersAreAlone == Spec => []OneReporter
  <1>1. ServiceInv => OneReporter
    BY DEF ServiceInv, OneReporter, SpeaksAlone, Looping
  <1>2. QED BY <1>1, ServiceInvariant, PTL
-----------------------------------------------------------------------------
(* run is there while the main thread waits, and has ended when it returns;*)
(* Execute is there as long as the loop is.                                *)
Settled(p) ==
    /\ run[p] = "init" => handling[p] = None
    /\ run[p] = "loop" => exec[p] \in {"send", "select", "exit"}
    /\ phase[p] = "returned" => run[p] \in {"init", "ended"}
    /\ phase[p] \notin {"waiting", "returned"} => run[p] = "init"

SettledInv == \A p \in Processes : Settled(p)

LEMMA InitSettled == Init => SettledInv
  <1> SUFFICES ASSUME Init, NEW p \in Processes PROVE Settled(p)
    BY DEF SettledInv
  <1>1. phase[p] = "off" /\ run[p] = "init" /\ handling[p] = None
    BY DEF Init
  <1>2. QED BY <1>1 DEF Settled

(* The end of a process keeps it.                                          *)
LEMMA EndsSettled ==
  ASSUME TypeOK, SettledInv, NEW p \in Processes, Ends(p)
  PROVE  SettledInv'
  <1> SUFFICES ASSUME NEW q \in Processes PROVE Settled(q)'
    BY DEF SettledInv
  <1>1. CASE q = p
    BY <1>1 DEF Ends, TypeOK, Settled
  <1>2. CASE q # p
    <2>1. /\ phase'[q] = phase[q] /\ run'[q] = run[q] /\ exec'[q] = exec[q]
          /\ handling'[q] = handling[q]
      BY <1>2 DEF Ends, TypeOK
    <2>2. QED BY <2>1 DEF SettledInv, Settled, Alive
  <1>3. QED BY <1>1, <1>2

(* Every step keeps it.                                                    *)
LEMMA NextSettled == TypeOK /\ ServiceInv /\ SettledInv /\ [Next]_vars => SettledInv'
  <1> SUFFICES ASSUME TypeOK, ServiceInv, SettledInv, [Next]_vars PROVE SettledInv'
    OBVIOUS
  <1> USE DEF TypeOK, SettledInv, Settled, Alive, Looping, scm, handler
  <1>1. ASSUME NEW p \in Processes, Launch(p) PROVE SettledInv'
    BY <1>1 DEF Launch
  <1>2. ASSUME NEW p \in Processes, CtlHandler(p) PROVE SettledInv'
    <2>1. run[p] # "init"
      <3>1. reported # "StartPending"
        BY <1>2 DEF CtlHandler, Accepted
      <3>2. QED BY <1>2, <3>1 DEF CtlHandler, ServiceInv, Inactive
    <2>2. QED BY <1>2, <2>1 DEF CtlHandler
  <1>3. ASSUME NEW p \in Processes, ServiceMain(p) PROVE SettledInv'
    <2>1. run[p] = "init"
      BY <1>3 DEF ServiceMain
    <2>2. QED BY <1>3, <2>1 DEF ServiceMain
  <1>4. ASSUME NEW p \in Processes, ServiceMainReturns(p) PROVE SettledInv'
    BY <1>4 DEF ServiceMainReturns
  <1>5. ASSUME NEW p \in Processes, DispatcherReturns(p) PROVE SettledInv'
    BY <1>5, EndsSettled DEF DispatcherReturns
  <1>6. ASSUME NEW p \in Processes, RunStarts(p) PROVE SettledInv'
    BY <1>6 DEF RunStarts
  <1>7. ASSUME NEW p \in Processes, Receive(p) PROVE SettledInv'
    BY <1>7 DEF Receive
  <1>8. ASSUME NEW p \in Processes, Deliver(p) PROVE SettledInv'
    BY <1>8 DEF Deliver
  <1>9. ASSUME NEW p \in Processes, Report(p) PROVE SettledInv'
    BY <1>9 DEF Report, ExecuteGoesOn
  <1>10. ASSUME NEW p \in Processes, ExecuteExits(p) PROVE SettledInv'
    BY <1>10 DEF ExecuteExits
  <1>11. ASSUME NEW p \in Processes, Finish(p) PROVE SettledInv'
    BY <1>11 DEF Finish
  <1>12. ASSUME NEW p \in Processes, LoadAndConnect(p) PROVE SettledInv'
    <2>1. CASE Ends(p)
      BY <2>1, EndsSettled
    <2>2. CASE ~Ends(p)
      BY <1>12, <2>2 DEF LoadAndConnect
    <2>3. QED BY <2>1, <2>2
  <1>13. ASSUME NEW p \in Processes, Listen(p) PROVE SettledInv'
    <2>1. CASE Ends(p)
      BY <2>1, EndsSettled
    <2>2. CASE ~Ends(p)
      BY <1>13, <2>2 DEF Listen
    <2>3. QED BY <2>1, <2>2
  <1>14. ASSUME NEW p \in Processes, ServingPanics(p) PROVE SettledInv'
    BY <1>14, EndsSettled DEF ServingPanics
  <1>15. CASE UNCHANGED vars
    BY <1>15 DEF vars
  <1>16. QED BY <1>1, <1>2, <1>3, <1>4, <1>5, <1>6, <1>7, <1>8, <1>9, <1>10, <1>11, <1>12, <1>13, <1>14, <1>15 DEF Next, ServiceStep, BrokerStep

(* The threads and goroutines of a process wait for each other only when   *)
(* it is up and nothing is asked of it, or when a control is left over.    *)
THEOREM BlockedByControls == Spec => []BlockedOnlyByControls
  <1>1. TypeOK /\ ServiceInv /\ SettledInv => BlockedOnlyByControls
    <2> SUFFICES ASSUME TypeOK, ServiceInv, SettledInv, NEW p \in Processes, Blocked(p)
                 PROVE  \/ /\ Looping(p) /\ exec[p] = "select" /\ cmd[p] = None /\ handling[p] = None
                           /\ current = p /\ reported \in {"Running", "Paused"}
                        \/ phase[p] = "returned" /\ run[p] = "ended" /\ handling[p] # None
      BY DEF BlockedOnlyByControls
    <2>1. CASE phase[p] = "returned"
      BY <2>1 DEF Blocked, SettledInv, Settled
    <2>2. CASE phase[p] = "waiting" /\ run[p] = "loop"
      <3>1. Looping(p) /\ exec[p] = "select" /\ cmd[p] = None /\ handling[p] = None
        BY <2>2 DEF Blocked, SettledInv, Settled, Looping, Alive
      <3>2. acting[p] # "Start"
        BY <3>1, NoneIsNothing DEF ServiceInv, Fresh
      <3>3. current = p /\ reported \in {"Running", "Paused"}
        BY <3>1, <3>2 DEF ServiceInv, SpeaksAlone, Remembers, Looping
      <3>4. QED BY <3>1, <3>3
    <2>3. QED BY <2>1, <2>2 DEF Blocked
  <1>2. QED BY <1>1, ServiceInvariant, InitSettled, NextSettled, PTL DEF Spec

-----------------------------------------------------------------------------
(* The refinement of ServiceControl.                                       *)

Queue(a, b, c) == UnlessNone(a) \o UnlessNone(b) \o UnlessNone(c)

(* A control is a sequence of its own, and none is the empty one.          *)
LEMMA UnlessNoneSeq ==
  ASSUME NEW c \in AllControls \cup {"Start", None}
  PROVE  /\ UnlessNone(c) \in Seq(AllControls)
         /\ c \in AllControls => UnlessNone(c) = <<c>>
         /\ c \notin AllControls => UnlessNone(c) = <<>>
  <1>1. CASE c \in AllControls
    <2>1. c # None /\ c # "Start"
      BY <1>1, NoneIsNothing DEF AllControls
    <2>2. QED BY <1>1, <2>1 DEF UnlessNone
  <1>2. CASE c \notin AllControls
    BY <1>2 DEF UnlessNone
  <1>3. QED BY <1>1, <1>2

(* A control that the handler takes is the youngest one.                   *)
LEMMA QueueAsk ==
  ASSUME NEW a \in AllControls \cup {"Start", None}, NEW b \in AllControls \cup {None},
         NEW c \in AllControls
  PROVE  Queue(a, b, c) = Append(Queue(a, b, None), c)
  <1>1. /\ UnlessNone(a) \in Seq(AllControls) /\ UnlessNone(b) \in Seq(AllControls)
        /\ UnlessNone(c) = <<c>> /\ UnlessNone(None) = <<>>
    BY UnlessNoneSeq, NoneIsNothing
  <1>2. QED BY <1>1 DEF Queue

(* A control that moves on leaves the queue as it is.                      *)
LEMMA QueueMoves ==
  ASSUME NEW a \in AllControls \cup {"Start", None}, NEW b \in AllControls \cup {None}
  PROVE  /\ Queue(a, None, b) = Queue(a, b, None)
         /\ Queue(None, a, b) = Queue(a, None, b)
  <1>1. /\ UnlessNone(a) \in Seq(AllControls) /\ UnlessNone(b) \in Seq(AllControls)
        /\ UnlessNone(None) = <<>>
    BY UnlessNoneSeq, NoneIsNothing
  <1>2. QED BY <1>1 DEF Queue

(* The control Execute acts upon is the oldest one.                        *)
LEMMA QueueObey ==
  ASSUME NEW a \in AllControls, NEW b \in AllControls \cup {None},
         NEW c \in AllControls \cup {None}
  PROVE  /\ Queue(a, b, c) # <<>> /\ Head(Queue(a, b, c)) = a
         /\ Tail(Queue(a, b, c)) = Queue(None, b, c)
  <1> DEFINE rest == UnlessNone(b) \o UnlessNone(c)
  <1>1. /\ UnlessNone(b) \in Seq(AllControls) /\ UnlessNone(c) \in Seq(AllControls)
        /\ UnlessNone(a) = <<a>> /\ UnlessNone(None) = <<>>
    BY UnlessNoneSeq, NoneIsNothing
  <1>2. rest \in Seq(AllControls)
    BY <1>1
  <1>3. Queue(a, b, c) = <<a>> \o rest /\ Queue(None, b, c) = rest
    BY <1>1 DEF Queue
  <1>4. /\ <<a>> \o rest # <<>> /\ Head(<<a>> \o rest) = a
        /\ Tail(<<a>> \o rest) = rest
    <2> HIDE DEF rest
    <2>1. QED BY <1>2
  <1>5. QED BY <1>3, <1>4

(* What the mapping shows while p is the service.                          *)
LEMMA MappingOf ==
  ASSUME NEW p \in Processes, current = p, Alive(p)
  PROVE  /\ Listens <=> run[p] \in {"init", "loop"}
         /\ Listens => Asked = Queue(acting[p], cmd[p], handling[p])
         /\ ~Listens => Asked = <<>>
  BY NoneIsNothing DEF Listens, Asked, Underway, Queue

(* What it shows in the next state.                                        *)
LEMMA NextMappingOf ==
  ASSUME NEW p \in Processes, current' = p, Alive(p)'
  PROVE  /\ Listens' <=> run'[p] \in {"init", "loop"}
         /\ Listens' => Asked' = Queue(acting'[p], cmd'[p], handling'[p])
         /\ ~Listens' => Asked' = <<>>
  BY NoneIsNothing DEF Listens, Asked, Underway, Queue

(* What the mapping shows when the service has no process.                 *)
LEMMA MappingOfNone ==
  ASSUME current = None \/ ~Alive(current)
  PROVE  Listens = TRUE /\ Asked = <<>>
  BY DEF Listens, Asked

(* The initial states map to initial states.                               *)
LEMMA InitMaps == Init => SCM!ControlInit
  BY MappingOfNone DEF Init, SCM!ControlInit

Mapped == SCM!ControlNext \/ UNCHANGED <<reported, Asked, Listens>>

(* A step that touches nothing of the current process is not seen.         *)
LEMMA UnseenMaps ==
  ASSUME UNCHANGED <<reported, current>>,
         current # None =>
            /\ phase'[current] = phase[current] /\ run'[current] = run[current]
            /\ acting'[current] = acting[current] /\ cmd'[current] = cmd[current]
            /\ handling'[current] = handling[current]
  PROVE  UNCHANGED <<reported, Asked, Listens>>
  BY DEF Asked, Listens, Underway, Alive

(* A step of the service that the SCM does not see: no control is obeyed   *)
(* or lost, and run stays in, or out of, its loop.                         *)
LEMMA InnerMaps ==
  ASSUME NEW p \in Processes, current = p, current' = p, Alive(p), Alive(p)',
         reported' = reported,
         run[p] \in {"init", "loop"} <=> run'[p] \in {"init", "loop"},
         Queue(acting'[p], cmd'[p], handling'[p]) = Queue(acting[p], cmd[p], handling[p])
  PROVE  UNCHANGED <<reported, Asked, Listens>>
  <1>1. /\ Listens <=> run[p] \in {"init", "loop"}
        /\ Listens => Asked = Queue(acting[p], cmd[p], handling[p])
        /\ ~Listens => Asked = <<>>
    BY MappingOf
  <1>2. /\ Listens' <=> run'[p] \in {"init", "loop"}
        /\ Listens' => Asked' = Queue(acting'[p], cmd'[p], handling'[p])
        /\ ~Listens' => Asked' = <<>>
    BY NextMappingOf
  <1>3. Listens \in BOOLEAN /\ Listens' \in BOOLEAN
    BY DEF Listens
  <1>4. QED BY <1>1, <1>2, <1>3

(* The end of the service's process maps to the end of the service.        *)
LEMMA EndsMaps ==
  ASSUME TypeOK, NEW p \in Processes, Ends(p)
  PROVE  Mapped
  <1>1. CASE current = p
    <2>1. current' = p /\ ~Alive(p)' /\ reported' = "Stopped"
      BY <1>1 DEF Ends, Alive, TypeOK
    <2>2. Listens' = TRUE /\ Asked' = <<>>
      BY <2>1 DEF Listens, Asked
    <2>3. SCM!End
      BY <2>1, <2>2 DEF SCM!End
    <2>4. QED BY <2>3 DEF Mapped, SCM!ControlNext
  <1>2. CASE current # p
    <2>1. UNCHANGED <<reported, current>>
      BY <1>2 DEF Ends
    <2>2. current # None =>
            /\ phase'[current] = phase[current] /\ run'[current] = run[current]
            /\ acting'[current] = acting[current] /\ cmd'[current] = cmd[current]
            /\ handling'[current] = handling[current]
      BY <1>2 DEF Ends, TypeOK
    <2>3. QED BY <2>1, <2>2, UnseenMaps DEF Mapped
  <1>3. QED BY <1>1, <1>2


(* What ServiceInv says of the process that speaks to the SCM.             *)
LEMMA Speaking ==
  ASSUME TypeOK, ServiceInv, NEW p \in Processes, Looping(p)
  PROVE  /\ current = p /\ Alive(p) /\ run[p] = "loop" /\ phase[p] # "off"
         /\ Listens /\ Asked = Queue(acting[p], cmd[p], handling[p])
         /\ acting[p] \in AllControls \cup {"Start", None}
         /\ cmd[p] \in AllControls \cup {None}
         /\ handling[p] \in AllControls \cup {None}
  <1>1. current = p /\ Alive(p) /\ run[p] = "loop" /\ phase[p] # "off"
    BY DEF ServiceInv, SpeaksAlone, Looping, Alive
  <1>2. Listens /\ Asked = Queue(acting[p], cmd[p], handling[p])
    BY <1>1, MappingOf
  <1>3. QED BY <1>1, <1>2 DEF TypeOK

(* A loop that is left maps to a service that leaves off listening.        *)
LEMMA BreakMaps ==
  ASSUME NEW p \in Processes, current' = p, Alive(p)', reported' = reported,
         run'[p] = "broken"
  PROVE  Mapped
  <1>1. Listens' = FALSE /\ Asked' = <<>>
    <2>1. ~Listens' /\ Asked' = <<>>
      BY NextMappingOf
    <2>2. Listens' \in BOOLEAN
      BY DEF Listens
    <2>3. QED BY <2>1, <2>2
  <1>2. QED BY <1>1 DEF Mapped, SCM!ControlNext, SCM!LeaveOff

(* The start of a process maps to the start of the service.                *)
LEMMA LaunchMaps ==
  ASSUME TypeOK, ServiceInv, NEW p \in Processes, Launch(p)
  PROVE  Mapped
  <1>1. CASE phase' = [phase EXCEPT ![p] = "registering"]
    <2>1. /\ current' = p /\ reported = "Stopped" /\ reported' = "StartPending"
          /\ Alive(p)'
      BY <1>1 DEF Launch, Alive, TypeOK
    <2>2. /\ run'[p] = "init" /\ acting'[p] = None
          /\ cmd'[p] = None /\ handling'[p] = None
      BY DEF Launch, ServiceInv, Fresh, Inactive, handler
    <2>3. Listens' = TRUE /\ Asked' = Queue(None, None, None)
      <3>1. Listens' /\ Asked' = Queue(None, None, None)
        BY <2>1, <2>2, NextMappingOf
      <3>2. QED BY <3>1 DEF Listens
    <2>4. Queue(None, None, None) = <<>>
      BY DEF Queue, UnlessNone
    <2>5. QED BY <2>1, <2>3, <2>4 DEF Mapped, SCM!ControlNext, SCM!Start
  <1>2. CASE ~(phase' = [phase EXCEPT ![p] = "registering"])
    <2>1. UNCHANGED scm /\ phase' = [phase EXCEPT ![p] = "gone"] /\ phase[p] = "off"
      BY <1>2 DEF Launch
    <2>2. CASE current = p
      <3>1. ~Alive(current) /\ ~Alive(current)' /\ UNCHANGED <<reported, current>>
        BY <2>1, <2>2 DEF Alive, scm, TypeOK
      <3>2. Listens = TRUE /\ Asked = <<>> /\ Listens' = TRUE /\ Asked' = <<>>
        BY <3>1 DEF Listens, Asked
      <3>3. QED BY <3>1, <3>2 DEF Mapped
    <2>3. CASE current # p
      BY <2>1, <2>3, UnseenMaps DEF Launch, scm, handler, TypeOK, Mapped
    <2>4. QED BY <2>2, <2>3
  <1>3. QED BY <1>1, <1>2

(* A control handed to the handler is asked of the service, or is not      *)
(* seen when the loop has been left.                                       *)
LEMMA CtlHandlerMaps ==
  ASSUME TypeOK, ServiceInv, NEW p \in Processes, CtlHandler(p)
  PROVE  Mapped
  <1>1. PICK c \in Accepted(reported) : handling' = [handling EXCEPT ![p] = c]
    BY DEF CtlHandler
  <1>2. /\ current = p /\ current' = p /\ Alive(p) /\ Alive(p)' /\ reported' = reported
        /\ run' = run /\ acting' = acting /\ cmd' = cmd /\ handling[p] = None
        /\ handling'[p] = c
    BY <1>1 DEF CtlHandler, scm, handler, Alive, TypeOK
  <1>3. c \in AllControls /\ c \in SCM!Accepts(reported)
    BY <1>1, ControlsType DEF Accepted, SCM!Accepts, SCM!ControlCodes, AllControls
  <1>4. acting[p] \in AllControls \cup {"Start", None} /\ cmd[p] \in AllControls \cup {None}
    BY DEF TypeOK
  <1>5. /\ Listens <=> run[p] \in {"init", "loop"}
        /\ Listens => Asked = Queue(acting[p], cmd[p], None)
        /\ ~Listens => Asked = <<>>
    BY <1>2, MappingOf
  <1>6. /\ Listens' <=> run[p] \in {"init", "loop"}
        /\ Listens' => Asked' = Queue(acting[p], cmd[p], c)
        /\ ~Listens' => Asked' = <<>>
    BY <1>2, NextMappingOf
  <1>7. Listens' = Listens
    BY <1>5, <1>6 DEF Listens
  <1>8. CASE Listens
    <2>1. Asked' = Append(Asked, c)
      BY <1>3, <1>4, <1>5, <1>6, <1>7, <1>8, QueueAsk
    <2>2. SCM!Ask
      BY <1>2, <1>3, <1>7, <1>8, <2>1 DEF SCM!Ask
    <2>3. QED BY <2>2 DEF Mapped, SCM!ControlNext
  <1>9. CASE ~Listens
    BY <1>2, <1>5, <1>6, <1>7, <1>9 DEF Mapped
  <1>10. QED BY <1>8, <1>9


(* A received control moves on, or the loop is left.                       *)
LEMMA ReceiveMaps ==
  ASSUME TypeOK, ServiceInv, NEW p \in Processes, Receive(p)
  PROVE  Mapped
  <1>1. Looping(p)
    BY DEF Receive
  <1>2. /\ current = p /\ Alive(p) /\ run[p] = "loop" /\ current' = p /\ Alive(p)'
        /\ reported' = reported
    BY <1>1, Speaking DEF Receive, scm, Alive
  <1>3. CASE run' = [run EXCEPT ![p] = "broken"]
    <2>1. run'[p] = "broken"
      BY <1>3 DEF TypeOK
    <2>2. QED BY <1>2, <2>1, BreakMaps
  <1>4. CASE cmd' = [cmd EXCEPT ![p] = handling[p]] /\ UNCHANGED run
    <2>1. /\ acting'[p] = acting[p] /\ cmd'[p] = handling[p] /\ cmd[p] = None
          /\ handling'[p] = None /\ run'[p] = "loop"
      BY <1>2, <1>4 DEF Receive, handler, TypeOK
    <2>2. Queue(acting'[p], cmd'[p], handling'[p]) = Queue(acting[p], cmd[p], handling[p])
      BY <1>1, <2>1, Speaking, QueueMoves
    <2>3. QED BY <1>2, <2>1, <2>2, InnerMaps DEF Mapped
  <1>5. QED BY <1>3, <1>4 DEF Receive

(* A delivered control moves on.                                           *)
LEMMA DeliverMaps ==
  ASSUME TypeOK, ServiceInv, NEW p \in Processes, Deliver(p)
  PROVE  Mapped
  <1>1. Looping(p)
    BY DEF Deliver
  <1>2. /\ current = p /\ Alive(p) /\ run[p] = "loop" /\ current' = p /\ Alive(p)'
        /\ reported' = reported /\ run'[p] = "loop"
    BY <1>1, Speaking DEF Deliver, scm, Alive
  <1>3. acting[p] = None
    BY DEF Deliver, ServiceInv, Fresh
  <1>4. acting'[p] = cmd[p] /\ cmd'[p] = None /\ handling'[p] = handling[p]
    BY DEF Deliver, TypeOK
  <1>5. Queue(acting'[p], cmd'[p], handling'[p]) = Queue(acting[p], cmd[p], handling[p])
    BY <1>1, <1>3, <1>4, Speaking, QueueMoves
  <1>6. QED BY <1>2, <1>5, InnerMaps DEF Mapped

(* A reported status obeys the control that Execute acts upon, or says     *)
(* that the service is up.                                                 *)
LEMMA ReportMaps ==
  ASSUME TypeOK, ServiceInv, NEW p \in Processes, Report(p)
  PROVE  Mapped
  <1>1. Looping(p)
    BY DEF Report
  <1>2. /\ current = p /\ Alive(p) /\ run[p] = "loop" /\ current' = p /\ Alive(p)'
        /\ Listens /\ Asked = Queue(acting[p], cmd[p], handling[p])
    BY <1>1, Speaking DEF Report, Alive
  <1>3. acting[p] \in AllControls \cup {"Start"}
    BY <1>1 DEF Report, ServiceInv, Answers
  <1>4. acting'[p] = None /\ cmd'[p] = cmd[p] /\ handling'[p] = handling[p]
    BY DEF Report, ExecuteGoesOn, TypeOK
  <1>5. CASE run' = [run EXCEPT ![p] = "broken"] /\ UNCHANGED <<reported, status>>
    <2>1. run'[p] = "broken"
      BY <1>5 DEF TypeOK
    <2>2. QED BY <1>2, <1>5, <2>1, BreakMaps
  <1>6. CASE reported' = sending[p] /\ UNCHANGED run
    <2>1. Listens' /\ Listens' = Listens /\ Asked' = Queue(None, cmd[p], handling[p])
      <3>1. Listens' /\ Asked' = Queue(None, cmd[p], handling[p])
        BY <1>2, <1>4, <1>6, NextMappingOf
      <3>2. QED BY <1>2, <3>1 DEF Listens
    <2>2. CASE acting[p] = "Start"
      <3>1. reported = "StartPending" /\ reported' = "Running"
        BY <1>1, <1>6, <2>2 DEF ServiceInv, Remembers
      <3>2. Asked' = Asked
        BY <1>2, <2>1, <2>2, NoneIsNothing DEF Queue, UnlessNone
      <3>3. QED BY <1>2, <2>1, <3>1, <3>2 DEF Mapped, SCM!ControlNext, SCM!Up
    <2>3. CASE acting[p] # "Start"
      <3>1. acting[p] \in AllControls
        BY <1>3, <2>3
      <3>2. /\ reported \in {"Running", "Paused"}
            /\ sending[p] = Answer(acting[p], reported)
        BY <1>1, <2>3 DEF Report, ServiceInv, Remembers, Answers
      <3>3. Asked # <<>> /\ Head(Asked) = acting[p] /\ Asked' = Tail(Asked)
        <4>1. cmd[p] \in AllControls \cup {None} /\ handling[p] \in AllControls \cup {None}
          BY <1>1, Speaking
        <4>2. /\ Queue(acting[p], cmd[p], handling[p]) # <<>>
              /\ Head(Queue(acting[p], cmd[p], handling[p])) = acting[p]
              /\ Tail(Queue(acting[p], cmd[p], handling[p])) = Queue(None, cmd[p], handling[p])
          BY <3>1, <4>1, QueueObey, Zenon
        <4>3. QED BY <1>2, <2>1, <4>2, Zenon
      <3>4. reported' = SCM!Obeyed(Head(Asked), reported)
        BY <1>6, <3>1, <3>2, <3>3 DEF Answer, SCM!Obeyed, AllControls
      <3>5. QED BY <1>2, <2>1, <3>2, <3>3, <3>4 DEF Mapped, SCM!ControlNext, SCM!Obey
    <2>4. QED BY <2>2, <2>3
  <1>7. QED BY <1>5, <1>6 DEF Report

(* Every step of the service is a step of ServiceControl or is not seen.   *)
LEMMA NextMaps ==
  ASSUME TypeOK, ServiceInv, [Next]_vars
  PROVE  Mapped
  <1>1. ASSUME NEW p \in Processes, Launch(p) PROVE Mapped
    BY <1>1, LaunchMaps
  <1>2. ASSUME NEW p \in Processes, CtlHandler(p) PROVE Mapped
    BY <1>2, CtlHandlerMaps
  <1>3. ASSUME NEW p \in Processes, ServiceMain(p) \/ ServiceMainReturns(p) PROVE Mapped
    <2>1. UNCHANGED <<scm, handling, run, cmd, handler>>
      BY <1>3 DEF ServiceMain, ServiceMainReturns
    <2>2. \A q \in Processes : Alive(q)' = Alive(q)
      BY <1>3 DEF ServiceMain, ServiceMainReturns, Alive, TypeOK
    <2>3. current # None => current \in Processes
      BY DEF TypeOK
    <2>4. QED BY <2>1, <2>2, <2>3 DEF Mapped, Asked, Listens, Underway, scm, handler
  <1>4. ASSUME NEW p \in Processes, RunStarts(p) PROVE Mapped
    <2>1. /\ current = p /\ Alive(p) /\ current' = p /\ Alive(p)' /\ reported' = reported
          /\ run[p] = "init" /\ run'[p] = "loop" /\ acting[p] = None /\ acting'[p] = "Start"
          /\ cmd' = cmd /\ handling' = handling
      BY <1>4, NoneIsNothing DEF RunStarts, Alive, scm, ServiceInv, SpeaksAlone, Fresh, TypeOK
    <2>2. Queue("Start", cmd[p], handling[p]) = Queue(None, cmd[p], handling[p])
      BY DEF Queue, UnlessNone
    <2>3. QED BY <2>1, <2>2, InnerMaps DEF Mapped
  <1>5. ASSUME NEW p \in Processes, Receive(p) PROVE Mapped
    BY <1>5, ReceiveMaps
  <1>6. ASSUME NEW p \in Processes, Deliver(p) PROVE Mapped
    BY <1>6, DeliverMaps
  <1>7. ASSUME NEW p \in Processes, Report(p) PROVE Mapped
    BY <1>7, ReportMaps
  <1>8. ASSUME NEW p \in Processes, ExecuteExits(p) PROVE Mapped
    <2>1. /\ current' = p /\ Alive(p)' /\ reported' = reported /\ run'[p] = "broken"
      BY <1>8, Speaking DEF ExecuteExits, scm, Alive, TypeOK
    <2>2. QED BY <2>1, BreakMaps
  <1>9. ASSUME NEW p \in Processes, Finish(p) PROVE Mapped
    <2>1. /\ current = p /\ Alive(p) /\ current' = p /\ Alive(p)'
          /\ run[p] = "broken" /\ run'[p] = "ended"
      BY <1>9 DEF Finish, Alive, ServiceInv, SpeaksAlone, TypeOK
    <2>2. ~Listens /\ Asked = <<>> /\ ~Listens' /\ Asked' = <<>>
      BY <2>1, MappingOf, NextMappingOf
    <2>3. Listens \in BOOLEAN /\ Listens' \in BOOLEAN
      BY DEF Listens
    <2>4. CASE reported' = "Stopped"
      BY <2>2, <2>3, <2>4 DEF Mapped, SCM!ControlNext, SCM!End
    <2>5. CASE reported' = reported
      BY <2>2, <2>3, <2>5 DEF Mapped
    <2>6. QED BY <1>9, <2>4, <2>5 DEF Finish
  <1>10. ASSUME NEW p \in Processes,
                DispatcherReturns(p) \/ ServingPanics(p) \/ LoadAndConnect(p) \/ Listen(p)
         PROVE  Mapped
    <2>1. CASE Ends(p)
      BY <2>1, EndsMaps
    <2>2. CASE ~Ends(p)
      <3>1. UNCHANGED <<scm, phase, handling, run, cmd, handler>>
        BY <1>10, <2>2 DEF DispatcherReturns, ServingPanics, LoadAndConnect, Listen
      <3>2. QED BY <3>1, UnseenMaps DEF Mapped, scm, handler
    <2>3. QED BY <2>1, <2>2
  <1>11. CASE UNCHANGED vars
    BY <1>11, UnseenMaps DEF vars, Mapped
  <1>12. QED
    BY <1>1, <1>2, <1>3, <1>4, <1>5, <1>6, <1>7, <1>8, <1>9, <1>10, <1>11
       DEF Next, ServiceStep, BrokerStep

(* The service obeys the controls it accepted, one by one and in order.    *)
THEOREM ServiceRefinement == Spec => ImplementsServiceControl
  <1>1. TypeOK /\ ServiceInv /\ [Next]_vars => [SCM!ControlNext]_(SCM!controlVars)
    BY NextMaps DEF Mapped, SCM!controlVars
  <1>2. QED BY <1>1, InitMaps, ServiceInvariant, PTL DEF Spec, ImplementsServiceControl, SCM!ControlSpec

=============================================================================
