------------------------- MODULE BrokerExpectations -------------------------
(***************************************************************************)
(* What the comments and the tests of the repository say of the broker and *)
(* the code does not do.  Each of these properties is violated.            *)
(***************************************************************************)
EXTENDS BrokerRefinement

(* api_test.go:565-569, unbind, "but the binding does not exist ...        *)
(* returns a 410", 580-583 "returns a 404" without the instance.  Unbind   *)
(* returns ErrBindingAlreadyExists (mssql_service_broker.go:154), which    *)
(* the switch of brokerapi's unbind handler does not know.                 *)
UnbindMissingIsGone ==
    \A h \in Handlers :
        op[h] = "unbind" /\ pc[h] \in Errors => WireStatus(h) \in {NoStatus, 404, 410}

(* api_test.go:243-248 and 372-390: an operation that fails "returns a     *)
(* 500".  A failed operation panics instead (logger.Fatal), and the        *)
(* deferred close(done) of exitOnPanicWrapper (main.go:24-34) lets the     *)
(* server send an implicit 200 before the process has ended.               *)
FailureIsNeverSuccess ==
    \A h \in Handlers : PhaseOf(h) = "lost" => WireStatus(h) \notin {200, 201}

(* provisioner.go:10, "Sql templates are executed as a trascation": the    *)
(* template of DeleteDatabase is executed line by line (99-101, 181-194),  *)
(* so its first line can stay without its second.                          *)
DeleteDatabaseIsAllOrNothing ==
    \A i \in Instances :
        mode[i] = "single" =>
            \E h \in Handlers : op[h] = "deprovision" /\ args[h].db = i

(* api_test.go:296-301, provision, "when the instance already exists ...   *)
(* returns a 409".  Of two requests for one new instance both may find no  *)
(* database (mssql_service_broker.go:46-55); the second CREATE DATABASE is *)
(* refused and the process ends.                                           *)
ExistingInstanceIsConflict ==
    \A h \in Handlers :
        op[h] = "provision" /\ faults = 0 => pc[h] \notin {"panic", "flushed"}
=============================================================================
