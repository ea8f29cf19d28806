---------------------------- MODULE ServiceSafety ----------------------------
(***************************************************************************)
(* What the Windows service has to guarantee, to the SCM and to the        *)
(* callers of the broker.                                                  *)
(***************************************************************************)
EXTENDS WindowsService

(* Every variable stays within its type; what is being sent is a status.   *)
TypeOK ==
    /\ reported \in Statuses \cup {"StartPending"}
    /\ current \in Processes \cup {None} /\ port \in Processes \cup {None}
    /\ phase \in [Processes -> Phases]
    /\ handling \in [Processes -> AllControls \cup {None}]
    /\ run \in [Processes -> {"init", "loop", "broken", "ended"}]
    /\ cmd \in [Processes -> AllControls \cup {None}]
    /\ status \in [Processes -> Statuses]
    /\ exec \in [Processes -> {"off", "send", "select", "exit", "done"}]
    /\ acting \in [Processes -> AllControls \cup {"Start", None}]
    /\ sending \in [Processes -> Statuses \cup {None}]
    /\ broker \in [Processes -> {"off", "loading", "connected", "serving"}]
    /\ \A p \in Processes : exec[p] = "send" => sending[p] # None

(* An interrogation never brings an old status back: what Execute echoes   *)
(* is what the SCM knows, although ChangeRequest was filled by another     *)
(* goroutine and other controls may have been obeyed since it was asked.   *)
EchoIsCurrent ==
    \A p \in Processes :
       Looping(p) /\ exec[p] = "send" /\ acting[p] = "Interrogate" =>
          sending[p] = reported

(* Only the process that the SCM started last tells it anything: a process *)
(* that is on its way out has left the loop before another one is started. *)
OneReporter ==
    \A p \in Processes : Looping(p) /\ exec[p] # "off" => current = p

(* No thread or goroutine of p has anything it can do: servicemain, the    *)
(* dispatcher behind it, the loop of run, and Execute.                     *)
Blocked(p) ==
    /\ \/ phase[p] = "waiting" /\ run[p] = "loop"
       \/ phase[p] = "returned" /\ handling[p] # None
    /\ run[p] = "loop" =>
          /\ exec[p] \notin {"send", "exit"}
          /\ cmd[p] = None => handling[p] = None
          /\ cmd[p] # None => exec[p] # "select"
    /\ run[p] # "broken"

(* Over two channels without a buffer and three events they wait for each  *)
(* other in two states only: a service that the SCM knows to be up waits   *)
(* for a control, or a control that came too late is left in the handler,  *)
(* and the dispatcher waits for it (ServiceExitsOnceExecuteCompletes).     *)
BlockedOnlyByControls ==
    \A p \in Processes : Blocked(p) =>
       \/ /\ Looping(p) /\ exec[p] = "select" /\ cmd[p] = None /\ handling[p] = None
          /\ current = p /\ reported \in {"Running", "Paused"}
       \/ phase[p] = "returned" /\ run[p] = "ended" /\ handling[p] # None

-----------------------------------------------------------------------------
(* The controls on their way through p, the oldest first: acted upon by    *)
(* Execute, offered to it, held by the handler.                            *)
UnlessNone(c) == IF c \in {None, "Start"} THEN <<>> ELSE <<c>>
Underway(p) == UnlessNone(acting[p]) \o UnlessNone(cmd[p]) \o UnlessNone(handling[p])

Listens ==
    current # None /\ Alive(current) => run[current] \in {"init", "loop"}

Asked ==
    IF current # None /\ Alive(current) /\ Listens THEN Underway(current) ELSE <<>>

SCM == INSTANCE ServiceControl WITH
    state <- reported, asked <- Asked, listens <- Listens

(* Controls are obeyed in the order in which the SCM sent them, none is    *)
(* skipped, and nothing but Stopped is reported after the service left off *)
(* listening.  Between the SCM and the status a control crosses three      *)
(* threads and two channels.                                               *)
ImplementsServiceControl == SCM!ControlSpec

-----------------------------------------------------------------------------
(* A service that is asked to stop is reported to have stopped, or its     *)
(* last call of SetServiceStatus has failed (service.go:241); whatever     *)
(* failed before, the Stop does not get lost between the three threads.    *)
StopIsObeyed ==
    \A p \in Processes :
       handling[p] \in {"Stop", "Shutdown"} ~>
          reported = "Stopped" \/ current # p \/ (ApiFails /\ run[p] = "ended")

(* Running is reported before runMain has even read its configuration; but *)
(* a service does not stay Running with no broker behind it: either the    *)
(* broker listens, or its failure takes the process away.                  *)
RunningMeansServing ==
    \A p \in Processes :
       (current = p /\ reported = "Running") ~> (port = p \/ current # p \/ ~Alive(p))

(* A service that has left its loop ends, so that the port is there for    *)
(* the next one, unless its handler is left with a control.                *)
StoppedProcessEnds ==
    \A p \in Processes :
       run[p] = "ended" ~> (phase[p] = "gone" /\ port # p) \/ handling[p] # None

(* service.go: "the service will exit once Execute completes".             *)
ServiceExitsOnceExecuteCompletes ==
    \A p \in Processes : exec[p] = "done" ~> ~Alive(p)
=============================================================================
