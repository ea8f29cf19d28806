------------------------- MODULE MssqlServiceBroker -------------------------
(***************************************************************************)
(* mssql_service_broker.go, with the handler goroutines of main.go that    *)
(* run it, the processes these goroutines live in, and the SQL Server they *)
(* share.  Several broker processes may serve the same SQL Server: the     *)
(* README has the broker "farmed", as it keeps no state of its own.        *)
(***************************************************************************)
EXTENDS MssqlProvisioner

CONSTANTS
    Brokers,        \* broker processes
    Host,           \* Host[h]: the process handler h runs in; None: h is no
                    \* handler, but a connection that was given up (GiveUp)
    Serialized      \* TRUE: the client sends one request per instance at a time

ASSUME HostAssumption == Host \in [Handlers -> Brokers \cup {None}] /\ None \notin Brokers
ASSUME SerializedAssumption == Serialized \in BOOLEAN

handlerVars == <<op, pc, line, args>>
vars == <<serverVars, handlerVars, orphan, faults, proc>>

(* What the operations return: nil, or an error value of brokerapi.        *)
Errors == {"ErrInstanceAlreadyExists", "ErrInstanceDoesNotExist",
           "ErrBindingAlreadyExists"}
Returned == {"nil"} \cup Errors

TypeOK ==
    /\ ServerTypeOK
    /\ op \in [Handlers -> Ops \cup {"none"}]
    /\ pc \in [Handlers -> {"idle", "panic", "flushed"} \cup Calls \cup Returned]
    /\ line \in [Handlers -> 1..4]
    /\ orphan \subseteq Handlers
    /\ faults \in 0..MaxFaults
    /\ proc \in [Brokers -> {"down", "starting", "serving"}]

Init ==
    /\ ServerInit
    /\ args = [h \in Handlers |-> NoArgs]
    /\ op = [h \in Handlers |-> "none"]
    /\ pc = [h \in Handlers |-> "idle"]
    /\ line = [h \in Handlers |-> 1]
    /\ orphan = {}
    /\ faults = 0
    /\ proc = [k \in Brokers |-> "down"]

Busy(h) == pc[h] # "idle"

-----------------------------------------------------------------------------
(* The requests: a PUT or DELETE of the CF service broker API, routed to   *)
(* the operation, past authentication and decoding.                        *)

(* secureRandomString: 256 random bits never repeat.                       *)
Fresh(p) ==
    /\ \A i \in Instances, b \in Bindings : users[i][b].pwd # p
    /\ \A h \in Handlers : args[h].pwd # p

MayRequest(h, i) ==
    Serialized =>
        \A g \in Handlers \ {h} : args[g].db = i => g \in orphan

Receive(h, o, i) ==
    /\ Host[h] \in Brokers /\ proc[Host[h]] = "serving"
    /\ ~Busy(h)
    /\ MayRequest(h, i)
    /\ \E b \in IF o \in WithTx THEN Bindings ELSE {None},
          p \in IF o = "bind" THEN {q \in Passwords : Fresh(q)} ELSE {None} :
             args' = [args EXCEPT ![h] = [db |-> i, user |-> b, pwd |-> p]]
    /\ op' = [op EXCEPT ![h] = o]
    /\ Goto(h, "IsDatabaseCreated")
    /\ UNCHANGED <<serverVars, line, orphan, faults, proc>>

-----------------------------------------------------------------------------
(* The four operations: what each does with the answer of a query.         *)

Answered(h, query) ==
    /\ Running(h) /\ pc[h] = query
    /\ query = "IsUserCreated" => DatabaseReadable(h)
    /\ UNCHANGED <<serverVars, args, op, line, orphan, faults, proc>>

(* Mutant: a brokerapi error that Provision has no reason to return.        *)
ProvisionWrongError(h) ==
    /\ op[h] = "provision"
    /\ Answered(h, "IsDatabaseCreated")
    /\ Goto(h, IF DatabaseExists(h) THEN "ErrInstanceLimitMet" ELSE "exec")

(* Mutant: Provision does not look at the answer of IsDatabaseCreated.      *)
ProvisionUnchecked(h) ==
    /\ op[h] = "provision"
    /\ Answered(h, "IsDatabaseCreated")
    /\ Goto(h, "exec")

Provision(h) ==
    /\ op[h] = "provision"
    /\ Answered(h, "IsDatabaseCreated")
    /\ Goto(h, IF DatabaseExists(h) THEN "ErrInstanceAlreadyExists" ELSE "exec")

Deprovision(h) ==
    /\ op[h] = "deprovision"
    /\ Answered(h, "IsDatabaseCreated")
    /\ Goto(h, IF DatabaseExists(h) THEN "exec" ELSE "ErrInstanceDoesNotExist")

InstanceCheck(h) ==
    /\ Answered(h, "IsDatabaseCreated")
    /\ Goto(h, IF DatabaseExists(h) THEN "IsUserCreated"
                                    ELSE "ErrInstanceDoesNotExist")

(* Mutant: a binding that exists is reported as an instance that exists.    *)
BindMisreported(h) ==
    /\ op[h] = "bind"
    /\ \/ InstanceCheck(h)
       \/ /\ Answered(h, "IsUserCreated")
          /\ Goto(h, IF UserExists(h) THEN "ErrInstanceAlreadyExists" ELSE "begin")

Bind(h) ==
    /\ op[h] = "bind"
    /\ \/ InstanceCheck(h)
       \/ /\ Answered(h, "IsUserCreated")
          /\ Goto(h, IF UserExists(h) THEN "ErrBindingAlreadyExists" ELSE "begin")

Unbind(h) ==
    /\ op[h] = "unbind"
    /\ \/ InstanceCheck(h)
       \/ /\ Answered(h, "IsUserCreated")
          /\ Goto(h, IF UserExists(h) THEN "begin" ELSE "ErrBindingAlreadyExists")

(* The query of the users fails: the database is gone, or closed to us.    *)
QueryRefused(h) ==
    /\ Running(h) /\ pc[h] = "IsUserCreated"
    /\ ~DatabaseReadable(h)
    /\ Fail(h)
    /\ UNCHANGED <<serverVars, args, op, line, orphan, faults, proc>>

Clear(h) ==
    /\ Goto(h, "idle")
    /\ op' = [op EXCEPT ![h] = "none"]
    /\ args' = [args EXCEPT ![h] = NoArgs]
    /\ line' = [line EXCEPT ![h] = 1]

(* brokerapi writes the response; its status is Status(op, returned) in    *)
(* module BrokerApi.                                                       *)
Respond(h) ==
    /\ Running(h) /\ pc[h] \in Returned
    /\ Clear(h)
    /\ UNCHANGED <<serverVars, orphan, faults, proc>>

-----------------------------------------------------------------------------
(* Mutant: the panic is recovered by net/http and ends the request only.    *)
ImplicitReplyRecovered(h) ==
    /\ Running(h) /\ pc[h] = "panic"
    /\ Goto(h, "idle")
    /\ op' = [op EXCEPT ![h] = "none"]
    /\ line' = [line EXCEPT ![h] = 1]
    /\ UNCHANGED <<serverVars, args, orphan, faults, proc>>

(* exitOnPanicWrapper: the deferred close(done) runs before the panic ends *)
(* the process, so ServeHTTP may return, and net/http send its implicit    *)
(* "200 OK" with no body, before the process is gone.                      *)
ImplicitReply(h) ==
    /\ Running(h) /\ pc[h] = "panic"
    /\ Goto(h, "flushed")
    /\ UNCHANGED <<serverVars, op, line, args, orphan, faults, proc>>

GoDown(k) ==
    /\ proc' = [proc EXCEPT ![k] = "down"]
    /\ orphan' = orphan \cup {h \in Handlers : Host[h] = k /\ Busy(h)}
    /\ UNCHANGED <<serverVars, handlerVars>>

Exit(k) ==
    /\ \E h \in Handlers :
          Host[h] = k /\ Running(h) /\ pc[h] \in {"panic", "flushed"}
    /\ GoDown(k)
    /\ UNCHANGED faults

(* The service manager or the machine ends the process.                    *)
Kill(k) ==
    /\ proc[k] # "down"
    /\ Fault
    /\ GoDown(k)

(* The service manager restarts the broker; runMain connects, then listens.*)
Start(k) ==
    /\ proc[k] = "down"
    /\ proc' = [proc EXCEPT ![k] = "starting"]
    /\ UNCHANGED <<serverVars, handlerVars, orphan, faults>>

Listen(k) ==
    /\ proc[k] = "starting"
    /\ proc' = [proc EXCEPT ![k] = "serving"]
    /\ UNCHANGED <<serverVars, handlerVars, orphan, faults>>

InitFails(k) ==
    /\ proc[k] = "starting"
    /\ Fault
    /\ proc' = [proc EXCEPT ![k] = "down"]
    /\ UNCHANGED <<serverVars, handlerVars, orphan>>

-----------------------------------------------------------------------------
(* A statement whose effect does not depend on what follows it, and which  *)
(* the server may execute although nobody waits for it.                    *)
MayBeLate(h) == pc[h] = "commit" \/ (pc[h] = "exec" /\ op[h] \notin WithTx)

(* The connection of h, with the statement that is on its way, becomes g.  *)
Detach(h, g) ==
    /\ Host[g] = None /\ ~Busy(g)
    /\ args' = [args EXCEPT ![g] = args[h]]
    /\ op' = [op EXCEPT ![g] = op[h]]
    /\ line' = [line EXCEPT ![g] = line[h]]
    /\ txn' = [txn EXCEPT ![g] = txn[h], ![h] = "none"]
    /\ at' = [at EXCEPT ![g] = at[h], ![h] = "master"]
    /\ orphan' = orphan \cup {g}
    /\ UNCHANGED <<databaseVars, proc>>

(* Mutant: the error of a call that was given up is not looked at.          *)
GiveUpUnnoticed(h, g) ==
    /\ Running(h) /\ MayBeLate(h)
    /\ Fault
    /\ Detach(h, g)
    /\ pc' = [pc EXCEPT ![g] = pc[h], ![h] = "nil"]

(* A call fails, by a deadline or a broken connection, while its statement *)
(* is on its way: the server may execute it at any later time, also after  *)
(* the request has its answer.  With go-mssqldb the connection is reported *)
(* bad, and outside a transaction database/sql sends the statement again   *)
(* on another one.                                                         *)
GiveUp(h, g) ==
    /\ Running(h) /\ MayBeLate(h)
    /\ Fault
    /\ Detach(h, g)
    /\ \E next \in {"panic"} \cup (IF Resends(h) THEN {pc[h]} ELSE {}) :
          pc' = [pc EXCEPT ![g] = pc[h], ![h] = next]

(* The server finishes with a connection whose client is gone or has given *)
(* it up: a statement that was on its way is executed, or not, and the     *)
(* session ends.                                                           *)

LateEffect(h) ==
    /\ h \in orphan
    /\ MayBeLate(h)
    /\ Succeeds(Statement(h), h)
    /\ Clear(h)
    /\ orphan' = orphan \ {h}
    /\ UNCHANGED <<faults, proc>>

Reap(h) ==
    /\ h \in orphan
    /\ EndSession(h)
    /\ Clear(h)
    /\ orphan' = orphan \ {h}
    /\ UNCHANGED <<faults, proc>>

(* A bound application connects; each connection counts as a fault.        *)
ApplicationConnects(i) ==
    /\ Fault
    /\ GuestArrives(i)
    /\ UNCHANGED <<handlerVars, orphan, proc>>

ApplicationLeaves(i) ==
    /\ GuestLeaves(i)
    /\ UNCHANGED <<handlerVars, orphan, faults, proc>>

-----------------------------------------------------------------------------
HandlerStep(h) ==
    \/ Provision(h) \/ Deprovision(h) \/ Bind(h) \/ Unbind(h)
    \/ Begin(h) \/ ExecLine(h) \/ Commit(h) \/ Rollback(h)
    \/ QueryRefused(h) \/ StatementRefused(h) \/ CallFails(h) \/ ReplyLost(h)
    \/ Respond(h) \/ ImplicitReply(h) \/ LateEffect(h) \/ Reap(h)
    \/ \E g \in Handlers : GiveUp(h, g)

ProcessStep(k) == Exit(k) \/ Kill(k) \/ Start(k) \/ Listen(k) \/ InitFails(k)

Next ==
    \/ \E h \in Handlers, o \in Ops, i \in Instances : Receive(h, o, i)
    \/ \E h \in Handlers : HandlerStep(h)
    \/ \E k \in Brokers : ProcessStep(k)
    \/ \E i \in Instances : ApplicationConnects(i) \/ ApplicationLeaves(i)

Spec == Init /\ [][Next]_vars
=============================================================================
