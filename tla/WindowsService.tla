--------------------------- MODULE WindowsService ---------------------------
(***************************************************************************)
(* The broker as a Windows service: svc.Run and its run loop, the control  *)
(* handler called by the dispatcher thread, WindowsService.Execute, and    *)
(* the runMain goroutine it starts, in every process that the service      *)
(* control manager (SCM) starts one after the other.  A status is its      *)
(* state: the controls it accepts follow from it.  runMain comes down to   *)
(* the steps at which it can end the process, and to the port it holds.    *)
(***************************************************************************)
EXTENDS Sequences

CONSTANTS
    Processes,      \* the processes in which the service may run
    Controls,       \* the controls that the SCM is asked to send
    None,           \* no process, no control, no status
    ApiFails        \* TRUE: SetServiceStatus and RegisterServiceCtrlHandler
                    \* may fail, a control may come on another thread

AllControls == {"Interrogate", "Pause", "Continue", "Stop", "Shutdown"}
Statuses == {"Stopped", "Running", "Paused", "StopPending"}
Phases == {"off", "registering", "waiting", "returned", "gone"}

ASSUME ControlsType == Controls \subseteq AllControls
ASSUME NoneIsNothing == None \notin Processes \cup AllControls \cup Statuses \cup {"Start"}
ASSUME ApiFailsType == ApiFails \in BOOLEAN

VARIABLES
    reported,       \* what the SCM knows of the service
    current,        \* the process the SCM started last
    phase,          \* phase[p]: how far the service main thread of p is
    handling,       \* handling[p]: the control on which s.c <- e blocks
    run,            \* run[p]: the goroutine of service.run
    cmd,            \* cmd[p]: its control, when outch is set and inch is not
    status,         \* status[p]: its copy of the status
    exec,           \* exec[p]: the goroutine of Execute
    acting,         \* acting[p]: the control Execute acts upon
    sending,        \* sending[p]: the status Execute sends
    broker,         \* broker[p]: the goroutine of runMain
    port            \* the process that listens on the broker's address

scm == <<reported, current>>
handler == <<exec, acting, sending>>
vars == <<reported, current, phase, handling, run, cmd, status, exec, acting,
          sending, broker, port>>

Accepted(s) == IF s \in {"Running", "Paused"} THEN Controls ELSE {}

Init ==
    /\ reported = "Stopped" /\ current = None /\ port = None
    /\ phase = [p \in Processes |-> "off"]
    /\ handling = [p \in Processes |-> None]
    /\ run = [p \in Processes |-> "init"]
    /\ cmd = [p \in Processes |-> None]
    /\ status = [p \in Processes |-> "Stopped"]
    /\ exec = [p \in Processes |-> "off"]
    /\ acting = [p \in Processes |-> None]
    /\ sending = [p \in Processes |-> None]
    /\ broker = [p \in Processes |-> "off"]

Alive(p) == phase[p] \in {"registering", "waiting", "returned"}

(* The process ends with its memory: its port is free, and the SCM knows.  *)
Ends(p) ==
    /\ phase' = [phase EXCEPT ![p] = "gone"]
    /\ port' = IF port = p THEN None ELSE port
    /\ reported' = IF current = p THEN "Stopped" ELSE reported
    /\ handling' = [handling EXCEPT ![p] = None]
    /\ run' = [run EXCEPT ![p] = "init"]
    /\ cmd' = [cmd EXCEPT ![p] = None]
    /\ status' = [status EXCEPT ![p] = "Stopped"]
    /\ exec' = [exec EXCEPT ![p] = "off"]
    /\ acting' = [acting EXCEPT ![p] = None]
    /\ sending' = [sending EXCEPT ![p] = None]
    /\ broker' = [broker EXCEPT ![p] = "off"]
    /\ UNCHANGED current

-----------------------------------------------------------------------------
(* The service control manager and the two threads it calls.               *)

(* main opens the log file, or panics, and calls svc.Run.                  *)
Launch(p) ==
    /\ reported = "Stopped" /\ phase[p] = "off"
    /\ \/ /\ phase' = [phase EXCEPT ![p] = "registering"]
          /\ current' = p
          /\ reported' = "StartPending"
       \/ phase' = [phase EXCEPT ![p] = "gone"] /\ UNCHANGED scm
    /\ UNCHANGED <<handling, run, cmd, status, handler, broker, port>>

(* servicemain registers the control handler and sets goWaits, or ends.    *)
ServiceMain(p) ==
    /\ phase[p] = "registering"
    /\ \/ phase' = [phase EXCEPT ![p] = "waiting"]
       \/ ApiFails /\ phase' = [phase EXCEPT ![p] = "returned"]
    /\ UNCHANGED <<scm, handling, run, cmd, status, handler, broker, port>>

(* The SCM sends one control at a time; its handler blocks on s.c.         *)
CtlHandler(p) ==
    /\ p = current /\ Alive(p) /\ handling[p] = None
    /\ \E c \in Accepted(reported) : handling' = [handling EXCEPT ![p] = c]
    /\ UNCHANGED <<scm, phase, run, cmd, status, handler, broker, port>>

(* Mutant: servicemain waits for goWaits, which run has consumed.          *)
ServiceMainWaitsWrong(p) ==
    /\ phase[p] = "waiting" /\ run[p] = "init"
    /\ phase' = [phase EXCEPT ![p] = "returned"]
    /\ UNCHANGED <<scm, handling, run, cmd, status, handler, broker, port>>

(* cWaits is set: servicemain returns.                                     *)
ServiceMainReturns(p) ==
    /\ phase[p] = "waiting" /\ run[p] = "ended"
    /\ phase' = [phase EXCEPT ![p] = "returned"]
    /\ UNCHANGED <<scm, handling, run, cmd, status, handler, broker, port>>

(* StartServiceCtrlDispatcher, svc.Run and main return.                    *)
DispatcherReturns(p) ==
    /\ phase[p] = "returned" /\ handling[p] = None
    /\ Ends(p)

-----------------------------------------------------------------------------
(* service.run.                                                            *)

RunStarts(p) ==
    /\ phase[p] = "waiting" /\ run[p] = "init"
    /\ run' = [run EXCEPT ![p] = "loop"]
    /\ exec' = [exec EXCEPT ![p] = "send"]
    /\ acting' = [acting EXCEPT ![p] = "Start"]
    /\ sending' = [sending EXCEPT ![p] = "Running"]
    /\ UNCHANGED <<scm, phase, handling, cmd, status, broker, port>>

Looping(p) == Alive(p) /\ run[p] = "loop"

(* Mutant: inch stays s.c while a control waits for Execute.               *)
ReceiveOverwrites(p) ==
    /\ Looping(p) /\ handling[p] # None
    /\ handling' = [handling EXCEPT ![p] = None]
    /\ cmd' = [cmd EXCEPT ![p] = handling[p]]
    /\ UNCHANGED <<scm, phase, run, status, handler, broker, port>>

(* case r := <-inch: inch is s.c while no control waits for Execute.       *)
Receive(p) ==
    /\ Looping(p) /\ cmd[p] = None /\ handling[p] # None
    /\ handling' = [handling EXCEPT ![p] = None]
    /\ \/ cmd' = [cmd EXCEPT ![p] = handling[p]] /\ UNCHANGED run
       \/ ApiFails /\ run' = [run EXCEPT ![p] = "broken"] /\ UNCHANGED cmd
    /\ UNCHANGED <<scm, phase, status, handler, broker, port>>

(* Mutant: an interrogation is answered with the state of a start.         *)
AnswerPending(c, currentStatus) ==
    CASE c = "Interrogate" -> "StartPending"
      [] c = "Pause" -> "Paused"
      [] c = "Continue" -> "Running"
      [] OTHER -> "StopPending"

(* What Execute answers to a change request.                               *)
Answer(c, currentStatus) ==
    CASE c = "Interrogate" -> currentStatus
      [] c = "Pause" -> "Paused"
      [] c = "Continue" -> "Running"
      [] OTHER -> "StopPending"

(* case outch <- ChangeRequest{cmd, status}, received by Execute.          *)
Deliver(p) ==
    /\ Looping(p) /\ cmd[p] # None /\ exec[p] = "select"
    /\ exec' = [exec EXCEPT ![p] = "send"]
    /\ acting' = [acting EXCEPT ![p] = cmd[p]]
    /\ sending' = [sending EXCEPT ![p] = Answer(cmd[p], status[p])]
    /\ cmd' = [cmd EXCEPT ![p] = None]
    /\ UNCHANGED <<scm, phase, handling, run, status, broker, port>>

(* Execute goes on once its status is received: it starts runMain after    *)
(* the first one, and returns after the last one.                          *)
ExecuteGoesOn(p) ==
    /\ exec' = [exec EXCEPT ![p] =
                  IF acting[p] \in {"Stop", "Shutdown"} THEN "exit" ELSE "select"]
    /\ broker' = [broker EXCEPT ![p] = IF acting[p] = "Start" THEN "loading" ELSE @]
    /\ acting' = [acting EXCEPT ![p] = None]
    /\ sending' = [sending EXCEPT ![p] = None]

(* Mutant: the status is reported and not remembered.                      *)
ReportForgets(p) ==
    /\ Looping(p) /\ exec[p] = "send"
    /\ ExecuteGoesOn(p)
    /\ reported' = sending[p]
    /\ UNCHANGED <<current, phase, handling, run, cmd, status, port>>

(* case c := <-changesFromHandler.                                         *)
Report(p) ==
    /\ Looping(p) /\ exec[p] = "send"
    /\ ExecuteGoesOn(p)
    /\ \/ /\ reported' = sending[p]
          /\ status' = [status EXCEPT ![p] = sending[p]]
          /\ UNCHANGED run
       \/ ApiFails /\ run' = [run EXCEPT ![p] = "broken"] /\ UNCHANGED <<reported, status>>
    /\ UNCHANGED <<current, phase, handling, cmd, port>>

(* Mutant: the break has no label and only leaves the select.              *)
ExecuteExitsSelect(p) ==
    /\ Looping(p) /\ exec[p] = "exit"
    /\ exec' = [exec EXCEPT ![p] = "done"]
    /\ UNCHANGED <<scm, phase, handling, run, cmd, status, acting, sending, broker, port>>

(* case ec = <-exitFromHandler.                                            *)
ExecuteExits(p) ==
    /\ Looping(p) /\ exec[p] = "exit"
    /\ exec' = [exec EXCEPT ![p] = "done"]
    /\ run' = [run EXCEPT ![p] = "broken"]
    /\ UNCHANGED <<scm, phase, handling, cmd, status, acting, sending, broker, port>>

(* After the loop: Stopped is reported and cWaits set.                     *)
Finish(p) ==
    /\ Alive(p) /\ run[p] = "broken"
    /\ run' = [run EXCEPT ![p] = "ended"]
    /\ \/ reported' = "Stopped"
       \/ ApiFails /\ UNCHANGED reported
    /\ UNCHANGED <<current, phase, handling, cmd, status, handler, broker, port>>

-----------------------------------------------------------------------------
(* runMain.                                                                *)

(* Configuration, log level and provisioner: each failure is a panic.      *)
LoadAndConnect(p) ==
    /\ Alive(p) /\ broker[p] = "loading"
    /\ \/ /\ broker' = [broker EXCEPT ![p] = "connected"]
          /\ UNCHANGED <<scm, phase, handling, run, cmd, status, handler, port>>
       \/ Ends(p)

(* Mutant: the error of ListenAndServe is logged and runMain returns.      *)
ListenLogs(p) ==
    /\ Alive(p) /\ broker[p] = "connected"
    /\ \/ port = None /\ port' = p /\ broker' = [broker EXCEPT ![p] = "serving"]
       \/ broker' = [broker EXCEPT ![p] = "off"] /\ UNCHANGED port
    /\ UNCHANGED <<scm, phase, handling, run, cmd, status, handler>>

(* ListenAndServe, whose error is a panic too; others may hold the port.   *)
Listen(p) ==
    /\ Alive(p) /\ broker[p] = "connected"
    /\ \/ /\ port = None
          /\ port' = p
          /\ broker' = [broker EXCEPT ![p] = "serving"]
          /\ UNCHANGED <<scm, phase, handling, run, cmd, status, handler>>
       \/ Ends(p)

(* A request panics in exitOnPanicWrapper, or the listener fails.          *)
ServingPanics(p) == Alive(p) /\ broker[p] = "serving" /\ Ends(p)

-----------------------------------------------------------------------------
ServiceStep(p) ==
    \/ ServiceMain(p) \/ ServiceMainReturns(p) \/ DispatcherReturns(p)
    \/ RunStarts(p) \/ Receive(p) \/ Deliver(p) \/ Report(p)
    \/ ExecuteExits(p) \/ Finish(p)

BrokerStep(p) == LoadAndConnect(p) \/ Listen(p)

Next ==
    \E p \in Processes :
       Launch(p) \/ CtlHandler(p) \/ ServiceStep(p) \/ BrokerStep(p) \/ ServingPanics(p)

Spec == Init /\ [][Next]_vars

(* Every goroutine and thread that can run does: the cases of the select   *)
(* are chosen at random, and each one that is ready stays so.              *)
Fairness ==
    \A p \in Processes :
       /\ WF_vars(ServiceMain(p)) /\ WF_vars(ServiceMainReturns(p))
       /\ WF_vars(DispatcherReturns(p)) /\ WF_vars(RunStarts(p))
       /\ WF_vars(Receive(p)) /\ WF_vars(Deliver(p)) /\ WF_vars(Report(p))
       /\ WF_vars(ExecuteExits(p)) /\ WF_vars(Finish(p))
       /\ WF_vars(LoadAndConnect(p)) /\ WF_vars(Listen(p))

FairSpec == Spec /\ Fairness
=============================================================================
