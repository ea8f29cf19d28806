---------------------------- MODULE BrokerSafety ----------------------------
(***************************************************************************)
(* Safety of the broker with its SQL Server, for any interleaving of       *)
(* requests on any number of broker processes, with crashes, lost replies, *)
(* resent statements and applications that log in.                         *)
(***************************************************************************)
EXTENDS BrokerApi, Descent

-----------------------------------------------------------------------------
(* The parts of the inductive invariant.                                   *)

(* What the arguments and the line of a request are while it is served.    *)
RequestOK(h) ==
    /\ pc[h] = "idle" <=> op[h] = "none"
    /\ pc[h] = "idle" =>
          args[h] = NoArgs /\ line[h] = 1 /\ txn[h] = "none" /\ h \notin orphan
    /\ pc[h] # "idle" =>
          /\ args[h].db \in Instances
          /\ op[h] \in WithTx <=> args[h].user \in Bindings
          /\ op[h] = "bind" <=> args[h].pwd \in Passwords
          /\ line[h] <= Len(Template(op[h]))
    /\ pc[h] \in {"begin", "commit", "rollback", "IsUserCreated"} => op[h] \in WithTx

(* What the session of a request holds before line n of a template: the    *)
(* work of the lines before it.                                            *)
Progress(o, n) ==
    IF n <= 2 THEN "clean"
    ELSE IF o = "unbind" THEN "dropped"
    ELSE IF n = 3 THEN "created" ELSE "owner"

Done(o) == IF o = "bind" THEN "owner" ELSE "dropped"

(* A transaction is as far as the loop over the template is, unless the    *)
(* server has ended the session.                                           *)
SessionOK(h) ==
    /\ txn[h] = "none" => at[h] = "master"
    /\ txn[h] # "none" =>
          /\ op[h] \in WithTx
          /\ pc[h] \in {"begin", "exec", "commit", "rollback", "panic", "flushed"}
          /\ txn[h] \in {"created", "owner"} => op[h] = "bind"
          /\ txn[h] = "dropped" => op[h] = "unbind"
          /\ pc[h] = "begin" => txn[h] = "clean" /\ at[h] = "master"
          /\ pc[h] = "exec" =>
                /\ txn[h] = Progress(op[h], line[h])
                /\ at[h] = IF line[h] = 1 THEN "master" ELSE "database"
          /\ pc[h] = "commit" => txn[h] = Done(op[h]) /\ at[h] = "master"
    /\ pc[h] \in {"IsDatabaseCreated", "IsUserCreated", "begin"} => line[h] = 1

(* An uncommitted change of a user is still possible when it commits: the  *)
(* database is there, the user is not (or is, for a drop), and no other    *)
(* session has an uncommitted change of it.                                *)
LockOK(h) ==
    /\ \A i \in Instances : Occupies(h, i) => mode[i] # "absent"
    /\ Dirty(h) => ~LockedByOther(h)
    /\ txn[h] \in {"created", "owner"} => users[args[h].db][args[h].user] = NoUser
    /\ txn[h] = "dropped" => users[args[h].db][args[h].user] # NoUser

(* An absent database has no users and nobody in it.                       *)
AbsentOK(i) ==
    mode[i] = "absent" =>
        /\ ~guest[i]
        /\ \A b \in Bindings : users[i][b] = NoUser

(* provisioner.go:25-30 in one transaction (152-179): whoever looks, a     *)
(* bound user has its password and is a db_owner; the user without the     *)
(* role, which the second line alone creates, is never seen.               *)
CommittedUsersAreOwners ==
    \A i \in Instances, b \in Bindings :
        users[i][b] # NoUser => users[i][b].owner /\ users[i][b].pwd \in Passwords

Consistent ==
    /\ \A h \in Handlers : RequestOK(h) /\ SessionOK(h) /\ LockOK(h)
    /\ \A i \in Instances : AbsentOK(i)
    /\ CommittedUsersAreOwners

-----------------------------------------------------------------------------
(* The statement that ends binding b of instance i is outstanding, for a   *)
(* request that asked for it: DROP DATABASE of a Deprovision, the commit   *)
(* of an Unbind.                                                           *)
Removes(h, i, b) ==
    /\ args[h].db = i
    /\ \/ op[h] = "deprovision" /\ Statement(h) = "drop database"
       \/ op[h] = "unbind" /\ args[h].user = b /\ Statement(h) = "commit"

(* The credentials of a binding stay valid until the last statement of a   *)
(* request for its removal (Unbind of it, Deprovision of its instance)     *)
(* removes them: a duplicate bind that loses, a failed or a resent         *)
(* statement, the end of a process or the request for another binding      *)
(* neither rewrites nor drops the user (provisioner.go:25-37, 95-109).     *)
(* The request need not be waiting any more: a copy of its statement on a  *)
(* connection that was given up (GiveUp) also removes a binding made after *)
(* the request was answered.                                               *)
BindingsEndOnRequest ==
    [][\A i \in Instances, b \in Bindings :
          users[i][b] # NoUser /\ users'[i][b] # users[i][b] =>
              users'[i][b] = NoUser /\ \E h \in Handlers : Removes(h, i, b)]_vars

(* What a request has before it: calls, lines of its template, and the     *)
(* failures from outside that may still make it repeat a statement.        *)
CallsLeft ==
    [IsDatabaseCreated |-> 9, IsUserCreated |-> 8, begin |-> 7, exec |-> 6,
     commit |-> 5, rollback |-> 4, panic |-> 3, flushed |-> 2, nil |-> 2,
     ErrInstanceAlreadyExists |-> 2, ErrInstanceDoesNotExist |-> 2,
     ErrBindingAlreadyExists |-> 2, idle |-> 1]

LeftToDo(h) == <<CallsLeft[pc[h]], 4 - line[h], MaxFaults - faults>>

(* Every step of a request brings it nearer its end, and no step of        *)
(* another request, a process or an application sets it back: a statement  *)
(* that fails or is sent again, a rollback that fails and a session that   *)
(* the server ends start nothing over (provisioner.go:152-194,             *)
(* mssql_service_broker.go).  A request therefore takes finitely many      *)
(* steps; RequestsEnd says that, besides, it does not wait for ever.       *)
RequestsAdvance ==
    [][\A h \in Handlers : Busy(h) =>
          IF LeftToDo(h)' = LeftToDo(h) THEN ~HandlerStep(h)
                                        ELSE Lower(LeftToDo(h)', LeftToDo(h))]_vars

(* The two answers a caller acts on, while nothing fails and requests for  *)
(* one instance come one at a time: the checks of Provision, Deprovision,  *)
(* Bind and Unbind (mssql_service_broker.go:46, 69, 96, 105, 139, 148) are *)
(* then enough.                                                            *)
Calm == Serialized /\ faults = 0

(* No request takes the process down (logger.Fatal, panic).                *)
CalmRequestsNeverCrash ==
    Calm => \A h \in Handlers : pc[h] \notin {"rollback", "panic", "flushed"}

(* When an operation returns nil, the server is in the state it promises.  *)
Promised(h) ==
    LET a == args[h]
    IN  CASE op[h] = "provision"   -> mode[a.db] = "multi"
          [] op[h] = "deprovision" -> mode[a.db] = "absent"
          [] op[h] = "bind"        -> users[a.db][a.user] = [pwd |-> a.pwd, owner |-> TRUE]
          [] op[h] = "unbind"      -> users[a.db][a.user] = NoUser

CalmAnswersHold ==
    Calm => \A h \in Handlers : pc[h] = "nil" => Promised(h)
=============================================================================
