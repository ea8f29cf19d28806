--------------------------- MODULE BrokerLiveness ---------------------------
(***************************************************************************)
(* What eventually happens, and the fairness it rests on.                  *)
(***************************************************************************)
EXTENDS BrokerRefinement

(* A handler goroutine that can run does run.  A statement that waits for  *)
(* a lock is enabled only while the lock is free; the server grants locks  *)
(* first come, first served, so it does not wait forever: strong fairness. *)
Serve(h) ==
    \/ Provision(h) \/ Deprovision(h) \/ Bind(h) \/ Unbind(h)
    \/ Begin(h) \/ ExecLine(h) \/ Commit(h) \/ Rollback(h)
    \/ QueryRefused(h) \/ StatementRefused(h) \/ Respond(h)

(* main.go:26-31: a panic ends the process, and the service manager        *)
(* restarts it.  The server notices the loss of a connection; the          *)
(* connections of applications do not last forever.                        *)
Fairness ==
    /\ \A h \in Handlers : SF_vars(Serve(h)) /\ WF_vars(Reap(h) \/ LateEffect(h))
    /\ \A k \in Brokers : WF_vars(Exit(k)) /\ WF_vars(Start(k)) /\ WF_vars(Listen(k))
    /\ \A i \in Instances : WF_vars(ApplicationLeaves(i))

FairSpec == Spec /\ Fairness

(* Every request ends, answered or lost, and its session with it: no wait  *)
(* for a lock of a live or a dead request lasts (provisioner.go:152-179),  *)
(* and no panic leaves a process half alive.                               *)
RequestsEnd == \A h \in Handlers : Busy(h) ~> ~Busy(h)

-----------------------------------------------------------------------------
(* The caller repeats Deprovision for as long as the broker is there.      *)
Persistent ==
    \A i \in Instances : SF_vars(\E h \in Handlers : Receive(h, "deprovision", i))

PersistentSpec == FairSpec /\ Persistent

(* Whatever a crash has left of an instance, a database in single_user     *)
(* mode or an open transaction (provisioner.go:19-22), Deprovision, when   *)
(* repeated, removes it in the end.                                        *)
DeprovisionConverges == \A i \in Instances : []<>(mode[i] = "absent")
=============================================================================
