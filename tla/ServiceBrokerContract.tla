------------------------ MODULE ServiceBrokerContract ------------------------
(***************************************************************************)
(* What a caller may rely on: the ServiceBroker interface of brokerapi     *)
(* (service_broker.go) as an atomic object.  A call that returns nil took  *)
(* effect, entirely, at one instant between its request and its response.  *)
(* A call that returns an error value had no effect, and at such an        *)
(* instant the state was the one the value names.  A call takes effect     *)
(* only if at an instant of it no error value was true.                    *)
(*                                                                         *)
(* The interface promises no answer.  A call may end without one, and      *)
(* then it took effect entirely or not at all; and a copy of it that       *)
(* nobody waits for any more may be left, which takes effect later, once   *)
(* and entirely, or never.                                                 *)
(***************************************************************************)
CONSTANTS Instances, Bindings, Passwords, Handlers, None
CONSTANT Repeats        \* TRUE: a call may take effect and be tried again
CONSTANT UnbindMissing  \* what Unbind returns when there is no such binding

VARIABLES
    instances,      \* the provisioned service instances
    bindings,       \* bindings[i][b]: the password of the binding, or None
    call,           \* call[h]: the request h serves: [op, db, user, pwd]
    phase           \* phase[h]: how far it got

contractVars == <<instances, bindings, call, phase>>

ErrorValues == {"ErrInstanceAlreadyExists", "ErrInstanceDoesNotExist",
                "ErrBindingAlreadyExists", UnbindMissing}

(* "late": nobody waits for the call, which may still take effect;         *)
(* "lost": it has no answer and will have no effect from now on.           *)
Phases == {"idle", "pending", "accepted", "nil", "late", "lost"} \cup ErrorValues

NoCall == [op |-> "none", db |-> None, user |-> None, pwd |-> None]

Unbound == [b \in Bindings |-> None]

ContractInit ==
    /\ instances = {}
    /\ bindings = [i \in Instances |-> Unbound]
    /\ call = [h \in Handlers |-> NoCall]
    /\ phase = [h \in Handlers |-> "idle"]

Bound(c) == bindings[c.db][c.user] # None

(* The state an error value of a call speaks of (service_broker.go:22-28). *)
Truthful(err, c) ==
    \/ /\ err = "ErrInstanceAlreadyExists"
       /\ c.op = "provision" /\ c.db \in instances
    \/ /\ err = "ErrInstanceDoesNotExist"
       /\ c.op \in {"deprovision", "bind", "unbind"} /\ c.db \notin instances
    \/ /\ err = "ErrBindingAlreadyExists"
       /\ c.op = "bind" /\ c.db \in instances /\ Bound(c)
    \/ /\ err = UnbindMissing
       /\ c.op = "unbind" /\ c.db \in instances /\ ~Bound(c)

(* The state in which a call takes effect: there is no error to return.    *)
Admissible(c) ==
    \/ c.op = "provision"   /\ c.db \notin instances
    \/ c.op = "deprovision" /\ c.db \in instances
    \/ c.op = "bind"        /\ c.db \in instances /\ ~Bound(c)
    \/ c.op = "unbind"      /\ c.db \in instances /\ Bound(c)

SetBinding(c, p) ==
    /\ bindings' = [bindings EXCEPT ![c.db][c.user] = p]
    /\ UNCHANGED instances

Effect(c) ==
    \/ /\ c.op = "provision"
       /\ instances' = instances \cup {c.db}
       /\ UNCHANGED bindings
    \/ /\ c.op = "deprovision"
       /\ instances' = instances \ {c.db}
       /\ bindings' = [bindings EXCEPT ![c.db] = Unbound]
    \/ c.op = "bind" /\ SetBinding(c, c.pwd)
    \/ c.op = "unbind" /\ SetBinding(c, None)

Invoke(h) ==
    /\ phase[h] = "idle"
    /\ \E o \in {"provision", "deprovision", "bind", "unbind"}, i \in Instances,
          b \in Bindings \cup {None}, p \in Passwords \cup {None} :
             /\ o = "bind" => p # None
             /\ call' = [call EXCEPT ![h] = [op |-> o, db |-> i,
                                             user |-> b, pwd |-> p]]
    /\ phase' = [phase EXCEPT ![h] = "pending"]
    /\ UNCHANGED <<instances, bindings>>

Become(h, p) ==
    /\ phase' = [phase EXCEPT ![h] = p]
    /\ call' = IF p = "idle" THEN [call EXCEPT ![h] = NoCall] ELSE call

Refuse(h) ==
    /\ phase[h] = "pending"
    /\ \E err \in ErrorValues : Truthful(err, call[h]) /\ Become(h, err)
    /\ UNCHANGED <<instances, bindings>>

Accept(h) ==
    /\ phase[h] = "pending"
    /\ Admissible(call[h])
    /\ Become(h, "accepted")
    /\ UNCHANGED <<instances, bindings>>

(* What is left of a call that has taken effect.                           *)
After(p) ==
    CASE p = "accepted" -> {"nil", "lost"} \cup (IF Repeats THEN {"accepted"} ELSE {})
      [] p = "late" -> {"idle"}
      [] OTHER -> {}

Perform(h) ==
    /\ Admissible(call[h])
    /\ Effect(call[h])
    /\ \E p \in After(phase[h]) : Become(h, p)

(* The call ends without an answer.                                        *)
Lose(h) ==
    /\ phase[h] \in {"pending", "accepted"}
    /\ Become(h, "lost")
    /\ UNCHANGED <<instances, bindings>>

(* The call is given up, or tried again, and a copy g of it is left.       *)
Leave(h, g) ==
    /\ phase[h] = "accepted"
    /\ phase[g] = "idle"
    /\ \E p \in {"lost"} \cup (IF Repeats THEN {"accepted"} ELSE {}) :
          phase' = [phase EXCEPT ![g] = "late", ![h] = p]
    /\ call' = [call EXCEPT ![g] = call[h]]
    /\ UNCHANGED <<instances, bindings>>

(* Nobody waits for the calls of S any more: their process has ended.      *)
Abandon(S) ==
    /\ \A h \in S : phase[h] # "idle"
    /\ phase' = [h \in Handlers |->
                    IF h \notin S THEN phase[h]
                    ELSE IF phase[h] \in {"accepted", "late"} THEN "late" ELSE "lost"]
    /\ UNCHANGED <<instances, bindings, call>>

(* The caller has its answer, or nothing is left of the call.              *)
Finish(h) ==
    /\ phase[h] \in ErrorValues \cup {"nil", "late", "lost"}
    /\ Become(h, "idle")
    /\ UNCHANGED <<instances, bindings>>

ContractNext ==
    \/ \E h \in Handlers : Invoke(h) \/ Refuse(h) \/ Accept(h) \/ Perform(h)
                           \/ Lose(h) \/ Finish(h)
    \/ \E h, g \in Handlers : Leave(h, g)
    \/ \E S \in SUBSET Handlers : Abandon(S)

ContractSpec == ContractInit /\ [][ContractNext]_contractVars
=============================================================================
