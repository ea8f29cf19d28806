-------------------------- MODULE BrokerRefinement --------------------------
(***************************************************************************)
(* The broker implements the contract of its interface: a request takes    *)
(* effect when its last statement, or its commit, is executed.             *)
(***************************************************************************)
EXTENDS BrokerSafety

(* The refinement mapping.                                                 *)
ProvisionedInstances == {i \in Instances : mode[i] # "absent"}

IssuedPasswords == [i \in Instances |-> [b \in Bindings |-> users[i][b].pwd]]

RequestOf(h) ==
    [op |-> op[h], db |-> args[h].db, user |-> args[h].user, pwd |-> args[h].pwd]

PhaseOf(h) ==
    CASE pc[h] = "idle" -> "idle"
      [] pc[h] \in {"begin", "exec", "commit"} ->
            IF Running(h) THEN "accepted" ELSE "late"
      [] pc[h] \in Queries /\ Running(h) -> "pending"
      [] pc[h] \in Returned /\ Running(h) -> pc[h]
      [] OTHER -> "lost"

(* The interface has ErrBindingDoesNotExist for an Unbind without a        *)
(* binding (service_broker.go:22-28); the code returns another value       *)
(* (mssql_service_broker.go:154), which UnbindMissingIsGone is about.      *)
Contract == INSTANCE ServiceBrokerContract WITH
    instances <- ProvisionedInstances,
    bindings <- IssuedPasswords,
    call <- [h \in Handlers |-> RequestOf(h)],
    phase <- [h \in Handlers |-> PhaseOf(h)],
    Repeats <- DriverResends,
    UnbindMissing <- "ErrBindingAlreadyExists"

(* Each operation is atomic although it is a check and one to six          *)
(* statements on up to two connections (mssql_service_broker.go:40-163):   *)
(* an operation that returns nil took effect entirely, its checks having   *)
(* been true together at an instant of it; one that returns an error value *)
(* had no effect, and the value was true at an instant of it; what a       *)
(* failure leaves is all or nothing, now or, for a copy of its last        *)
(* statement, later; while other requests, of this and of other            *)
(* processes, run, and crashes, lost replies and late statements happen.   *)
ImplementsContract == Contract!ContractSpec
=============================================================================
