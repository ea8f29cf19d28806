------------------------------ MODULE BrokerApi ------------------------------
(***************************************************************************)
(* The HTTP face of the broker: the handlers of brokerapi (api.go), which  *)
(* turn what an operation returned into a status, and what the caller sees *)
(* when the operation did not return.  Requests that brokerapi answers     *)
(* without calling the broker (401, 422, GET catalog) change no state and  *)
(* are stuttering steps of MssqlServiceBroker.                             *)
(***************************************************************************)
EXTENDS MssqlServiceBroker

SuccessStatus(o) == IF o \in {"provision", "bind"} THEN 201 ELSE 200

(* The switch of each handler; an error it does not name is a 500.         *)
ErrorStatus(o, err) ==
    CASE o = "provision" /\ err = "ErrInstanceAlreadyExists" -> 409
      [] o = "deprovision" /\ err = "ErrInstanceDoesNotExist" -> 410
      [] o = "bind" /\ err = "ErrInstanceDoesNotExist" -> 404
      [] o = "bind" /\ err = "ErrBindingAlreadyExists" -> 409
      [] o = "unbind" /\ err = "ErrInstanceDoesNotExist" -> 404
      [] o = "unbind" /\ err = "ErrBindingDoesNotExist" -> 410
      [] OTHER -> 500

Status(o, returned) ==
    IF returned = "nil" THEN SuccessStatus(o) ELSE ErrorStatus(o, returned)

NoStatus == 0

(* The status on its way to the caller of h.                               *)
WireStatus(h) ==
    IF h \in orphan THEN NoStatus
    ELSE CASE pc[h] \in Returned -> Status(op[h], pc[h])
           [] pc[h] = "flushed" -> 200
           [] OTHER -> NoStatus
=============================================================================
