--------------------------- MODULE ServiceControl ---------------------------
(***************************************************************************)
(* What the service control manager may rely on: a service obeys the       *)
(* controls it accepted one by one, in the order in which they were sent,  *)
(* and what it reports is what it obeyed last.  It may stop listening, on  *)
(* its way out; from then on the only thing it still reports is Stopped.   *)
(***************************************************************************)
EXTENDS Sequences

VARIABLES
    state,          \* the state the service is known to be in
    asked,          \* the accepted controls it has not acted upon
    listens         \* FALSE: it acts upon none of them any more

controlVars == <<state, asked, listens>>

ControlCodes == {"Interrogate", "Pause", "Continue", "Stop", "Shutdown"}

States == {"Stopped", "StartPending", "Running", "Paused", "StopPending"}

(* The controls a service in state s is sent.                              *)
Accepts(s) == IF s \in {"Running", "Paused"} THEN ControlCodes ELSE {}

(* The state in which a service in state s is after it obeyed c.           *)
Obeyed(c, s) ==
    CASE c = "Pause" -> "Paused"
      [] c = "Continue" -> "Running"
      [] c = "Interrogate" -> s
      [] OTHER -> "StopPending"

ControlInit == state = "Stopped" /\ asked = <<>> /\ listens = TRUE

Start ==
    /\ state = "Stopped"
    /\ state' = "StartPending" /\ asked' = <<>> /\ listens' = TRUE

Up ==
    /\ state = "StartPending" /\ listens
    /\ state' = "Running"
    /\ UNCHANGED <<asked, listens>>

Ask ==
    /\ listens
    /\ \E c \in Accepts(state) : asked' = Append(asked, c)
    /\ UNCHANGED <<state, listens>>

Obey ==
    /\ listens /\ asked # <<>> /\ state \in {"Running", "Paused"}
    /\ state' = Obeyed(Head(asked), state)
    /\ asked' = Tail(asked)
    /\ UNCHANGED listens

LeaveOff ==
    /\ listens' = FALSE /\ asked' = <<>>
    /\ UNCHANGED state

End == state' = "Stopped" /\ asked' = <<>> /\ listens' \in BOOLEAN

ControlNext == Start \/ Up \/ Ask \/ Obey \/ LeaveOff \/ End

ControlSpec == ControlInit /\ [][ControlNext]_controlVars
=============================================================================
