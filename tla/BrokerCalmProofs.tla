-------------------------- MODULE BrokerCalmProofs --------------------------
(***************************************************************************)
(* While nothing fails and requests for one instance come one at a time,   *)
(* the checks of the four operations are enough, for every number of       *)
(* handlers, instances, bindings and passwords.                            *)
(***************************************************************************)
EXTENDS BrokerSafetyProofs

(* No two requests that are served have the same instance.                 *)
ServedAlone ==
    \A g \in Handlers, h \in Handlers :
        g # h /\ Busy(g) /\ Busy(h) => args[g].db # args[h].db

(* Nobody is left at the server: no dead client and no application.        *)
Quiet == orphan = {} /\ \A i \in Instances : ~guest[i]

(* What a request has found out about its instance is still true.          *)
Current(h) ==
    LET i == args[h].db
        b == args[h].user
    IN  /\ op[h] = "provision" /\ pc[h] = "exec" => mode[i] = "absent"
        /\ op[h] # "provision" /\ pc[h] \in {"IsUserCreated"} \cup Execs => mode[i] # "absent"
        /\ op[h] = "bind" /\ pc[h] \in Execs => users[i][b] = NoUser
        /\ op[h] = "unbind" /\ pc[h] \in Execs => users[i][b] # NoUser

Unharmed(h) ==
    /\ pc[h] \notin {"rollback", "panic", "flushed"}
    /\ op[h] \in WithTx /\ pc[h] \in {"exec", "commit"} => txn[h] # "none"
    /\ pc[h] = "nil" => Promised(h)

CalmInv == Quiet /\ ServedAlone /\ \A h \in Handlers : Current(h) /\ Unharmed(h)

CalmAlways == Calm => CalmInv

-----------------------------------------------------------------------------
(* The other requests.                                                     *)

(* A request keeps its part while its database and its session do.         *)
LEMMA BystanderCalm ==
    ASSUME NEW g \in Handlers, Current(g), Unharmed(g),
           op'[g] = op[g], pc'[g] = pc[g], args'[g] = args[g],
           Busy(g) => /\ mode'[args[g].db] = mode[args[g].db]
                      /\ users'[args[g].db] = users[args[g].db]
                      /\ txn'[g] = txn[g]
    PROVE  Current(g)' /\ Unharmed(g)'
<1>1. CASE Busy(g)
  <2>1. Current(g)'
    BY <1>1 DEF Current
  <2>2. Unharmed(g)'
    BY <1>1 DEF Unharmed, Promised
  <2> QED
    BY <2>1, <2>2
<1>2. CASE ~Busy(g)
  BY <1>2 DEF Busy, Current, Unharmed, Execs
<1> QED
  BY <1>1, <1>2

(* Requests stay apart while none begins.                                  *)
LEMMA StayAlone ==
    ASSUME ServedAlone,
           \A g \in Handlers : Busy(g)' => Busy(g) /\ args'[g] = args[g]
    PROVE  ServedAlone'
BY DEF ServedAlone

(* What a session touches belongs to a request that is served.             *)
LEMMA OccupantBusy ==
    ASSUME IInv, NEW g \in Handlers, txn[g] # "none"
    PROVE  Busy(g)
BY DEF IInv, Consistent, RequestOK, Busy

(* Nobody else is in the database of a request, or waits for its user.     *)
LEMMA NobodyElse ==
    ASSUME IInv, CalmInv, NEW h \in Handlers, Busy(h)
    PROVE  /\ \A g \in Handlers \ {h} : ~Occupies(g, args[h].db)
           /\ ~InUseByOthers(h, args[h].db)
           /\ ~LockedByOther(h)
<1>1. args[h].db \in Instances
  BY DEF IInv, Consistent, RequestOK, Busy
<1>2. ASSUME NEW g \in Handlers \ {h}, txn[g] # "none" PROVE args[g].db # args[h].db
  BY <1>2, OccupantBusy DEF CalmInv, ServedAlone
<1>3. ~guest[args[h].db]
  BY <1>1 DEF CalmInv, Quiet
<1> QED
  BY <1>2, <1>3 DEF Occupies, InUseByOthers, LockedByOther, Dirty

(* A statement leaves the databases and sessions of the others alone.      *)
LEMMA OthersUntouched ==
    ASSUME IInv, CalmInv, NEW h \in Handlers, pc[h] \in Execs, Effect(Statement(h), h),
           NEW g \in Handlers \ {h}, Busy(g)
    PROVE  /\ mode'[args[g].db] = mode[args[g].db]
           /\ users'[args[g].db] = users[args[g].db]
           /\ txn'[g] = txn[g]
<1>1. ServerTypeOK
  BY IInvArgs
<1>2. Busy(h) /\ args[g].db # args[h].db
  BY DEF Busy, Execs, CalmInv, ServedAlone
<1>3. args[g].db \in Instances /\ args[h].db \in Instances
  BY <1>2 DEF IInv, Consistent, RequestOK, Busy
<1>4. ~Occupies(g, args[h].db)
  BY <1>2, NobodyElse
<1>5. mode'[args[g].db] = mode[args[g].db]
  BY <1>1, <1>2, <1>3
     DEF Effect, ServerTypeOK, SetSingleUser, SetMode, DropDatabase, Work, MoveTo, CommitWork,
         EndSession, databaseVars
<1>6. users'[args[g].db] = users[args[g].db]
  BY <1>1, <1>2, <1>3
     DEF Effect, ServerTypeOK, SetSingleUser, DropDatabase, Work, MoveTo, CommitWork,
         EndSession, databaseVars
<1>7. txn'[g] = txn[g]
  BY <1>1, <1>4
     DEF Effect, ServerTypeOK, SetSingleUser, DropDatabase, Work, SetTxn, MoveTo, CommitWork,
         EndSession, databaseVars
<1> QED
  BY <1>5, <1>6, <1>7

(* No statement brings an application into a database.                     *)
LEMMA StatementBringsNobody ==
    ASSUME ServerTypeOK, \A i \in Instances : ~guest[i],
           NEW h \in Handlers, NEW s, Effect(s, h)
    PROVE  \A i \in Instances : ~guest'[i]
BY DEF Effect, ServerTypeOK, SetSingleUser, DropDatabase, Work, MoveTo, CommitWork,
       EndSession, databaseVars

-----------------------------------------------------------------------------
(* The request that executes a statement.                                  *)

(* The server accepts each statement.                                      *)
LEMMA NeverRefused ==
    ASSUME IInv, CalmInv, NEW h \in Handlers, pc[h] \in Execs
    PROVE  ~Refused(Statement(h), h)
<1>1. RequestOK(h) /\ SessionOK(h) /\ TypeOK /\ Current(h) /\ Unharmed(h)
  BY DEF IInv, Consistent, CalmInv
<1>2. ~InUseByOthers(h, args[h].db)
  BY NobodyElse DEF Busy, Execs
<1>3. CASE pc[h] # "exec"
  BY <1>1, <1>3 DEF Unharmed, RequestOK, Execs, Statement, Refused, Accepts
<1>4. CASE pc[h] = "exec" /\ op[h] \notin WithTx
  BY <1>1, <1>2, <1>4, StatementCases
     DEF Current, Execs, WithTx, Refused, Accepts
<1>5. CASE pc[h] = "exec" /\ op[h] \in WithTx
  <2>1. /\ txn[h] = Progress(op[h], line[h])
        /\ at[h] = IF line[h] = 1 THEN "master" ELSE "database"
        /\ txn[h] # "none"
    BY <1>1, <1>5 DEF SessionOK, Unharmed
  <2>2. mode[args[h].db] # "absent"
    BY <1>1, <1>5 DEF Current, Execs, WithTx
  <2>3. CASE op[h] = "bind"
    <3>1. users[args[h].db][args[h].user] = NoUser
      BY <1>1, <1>5, <2>3 DEF Current, Execs
    <3>2. \/ line[h] = 1 /\ Statement(h) = "use"
          \/ line[h] = 2 /\ Statement(h) = "create user"
          \/ line[h] = 3 /\ Statement(h) = "add role"
          \/ line[h] = 4 /\ Statement(h) = "use master"
      BY <1>1, <1>5, <2>3, StatementCases
    <3>3. /\ line[h] = 2 => txn[h] = "clean" /\ at[h] = "database"
          /\ line[h] = 3 => txn[h] = "created"
      BY <2>1, <2>3 DEF Progress
    <3> QED
      BY <1>2, <2>1, <2>2, <3>1, <3>2, <3>3 DEF Refused, Accepts
  <2>4. CASE op[h] = "unbind"
    <3>1. users[args[h].db][args[h].user] # NoUser
      BY <1>1, <1>5, <2>4 DEF Current, Execs
    <3>2. \/ line[h] = 1 /\ Statement(h) = "use"
          \/ line[h] = 2 /\ Statement(h) = "drop user"
          \/ line[h] = 3 /\ Statement(h) = "use master"
      BY <1>1, <1>5, <2>4, StatementCases
    <3>3. line[h] = 2 => txn[h] = "clean" /\ at[h] = "database"
      BY <2>1, <2>4 DEF Progress
    <3> QED
      BY <1>2, <2>1, <2>2, <3>1, <3>2, <3>3 DEF Refused, Accepts
  <2> QED
    BY <1>5, <2>3, <2>4 DEF WithTx
<1> QED
  BY <1>3, <1>4, <1>5

(* What is left to show of a statement is that its own request goes on.    *)
LEMMA StatementCalm ==
    ASSUME IInv, CalmInv, NEW h \in Handlers, pc[h] \in Execs, Effect(Statement(h), h),
           UNCHANGED <<args, op, orphan>>,
           \A g \in Handlers \ {h} : pc'[g] = pc[g],
           Current(h)', Unharmed(h)'
    PROVE  CalmInv'
<1>1. Busy(h) /\ ServerTypeOK
  BY IInvArgs DEF Busy, Execs
<1>2. Quiet'
  BY <1>1, StatementBringsNobody DEF CalmInv, Quiet
<1>3. ServedAlone'
  BY <1>1, StayAlone DEF CalmInv, Busy
<1>4. ASSUME NEW g \in Handlers \ {h} PROVE Current(g)' /\ Unharmed(g)'
  BY OthersUntouched, BystanderCalm DEF CalmInv
<1> QED
  BY <1>2, <1>3, <1>4 DEF CalmInv

LEMMA BeginCalm ==
    ASSUME IInv, CalmInv, NEW h \in Handlers, Begin(h)
    PROVE  CalmInv'
<1>1. RequestOK(h) /\ TypeOK /\ ServerTypeOK /\ Current(h)
  BY IInvArgs DEF IInv, Consistent, CalmInv
<1>2. /\ pc[h] = "begin" /\ pc' = [pc EXCEPT ![h] = "exec"]
      /\ Effect(Statement(h), h) /\ Statement(h) = "begin"
      /\ UNCHANGED <<args, op, orphan>>
  BY DEF Begin, Succeeds, Statement, Goto
<1>3. UNCHANGED <<mode, users>> /\ txn'[h] = "clean"
  BY <1>1, <1>2 DEF Effect, Work, SetTxn, databaseVars, ServerTypeOK
<1>4. pc'[h] = "exec" /\ op[h] \in WithTx
  BY <1>1, <1>2 DEF TypeOK, RequestOK
<1>5. Current(h)' /\ Unharmed(h)'
  BY <1>1, <1>2, <1>3, <1>4 DEF Current, Unharmed, Execs, WithTx
<1> QED
  BY <1>1, <1>2, <1>5, StatementCalm DEF TypeOK, Execs

LEMMA ExecLineCalm ==
    ASSUME IInv, CalmInv, NEW h \in Handlers, ExecLine(h)
    PROVE  CalmInv'
<1>1. RequestOK(h) /\ SessionOK(h) /\ TypeOK /\ ServerTypeOK /\ Current(h) /\ Unharmed(h)
  BY IInvArgs DEF IInv, Consistent, CalmInv
<1>2. /\ pc[h] = "exec" /\ Succeeds(Statement(h), h) /\ Effect(Statement(h), h)
      /\ UNCHANGED <<args, op, orphan>>
      /\ pc' = IF LastLine(h)
               THEN [pc EXCEPT ![h] = IF op[h] \in WithTx THEN "commit" ELSE "nil"] ELSE pc
  BY DEF ExecLine, Succeeds, Goto
<1>3. args[h].db \in Instances
  BY <1>1, <1>2 DEF RequestOK
<1> SUFFICES Current(h)' /\ Unharmed(h)'
  BY <1>1, <1>2, StatementCalm DEF TypeOK, Execs
<1>4. CASE op[h] = "provision"
  <2>1. Statement(h) = "create database" /\ LastLine(h)
    BY <1>1, <1>2, <1>4, StatementCases
  <2>2. mode'[args[h].db] = "multi" /\ pc'[h] = "nil"
    BY <1>1, <1>2, <1>3, <1>4, <2>1 DEF Effect, SetMode, ServerTypeOK, TypeOK, WithTx
  <2> QED
    BY <1>2, <1>4, <2>2 DEF Current, Unharmed, Promised, WithTx, Execs
<1>5. CASE op[h] = "deprovision"
  <2>1. CASE LastLine(h)
    <3>1. Statement(h) = "drop database"
      BY <1>1, <1>2, <1>5, <2>1, StatementCases
    <3>2. mode'[args[h].db] = "absent"
      BY <1>1, <1>2, <1>3, <3>1 DEF Effect, DropDatabase, SetMode, ServerTypeOK
    <3>3. pc'[h] = "nil"
      BY <1>1, <1>2, <1>5, <2>1 DEF TypeOK, WithTx
    <3> QED
      BY <1>2, <1>5, <3>2, <3>3 DEF Current, Unharmed, Promised, WithTx, Execs
  <2>2. CASE ~LastLine(h)
    <3>1. Statement(h) = "set single_user"
      BY <1>1, <1>2, <1>5, <2>2, StatementCases
    <3>2. mode'[args[h].db] = "single" /\ pc'[h] = "exec"
      BY <1>1, <1>2, <1>3, <2>2, <3>1 DEF Effect, SetSingleUser, SetMode, ServerTypeOK
    <3> QED
      BY <1>2, <1>5, <3>2 DEF Current, Unharmed, WithTx
  <2> QED
    BY <2>1, <2>2
<1>6. CASE op[h] \in WithTx
  <2>1. Statement(h) \in {"use", "create user", "add role", "drop user", "use master"}
    BY <1>1, <1>2, <1>6, StatementCases DEF WithTx
  <2>2. UNCHANGED <<mode, users>>
    BY <1>2, <2>1 DEF Effect, Work, MoveTo, databaseVars
  <2>3. txn'[h] # "none"
    <3>1. txn[h] # "none" /\ SessionAfter(Statement(h), h)
      BY <1>1, <1>2, <1>6, EffectOnSelf DEF Unharmed
    <3> QED
      BY <2>1, <3>1 DEF SessionAfter
  <2>4. pc'[h] \in {"exec", "commit"}
    BY <1>1, <1>2, <1>6 DEF TypeOK
  <2> QED
    BY <1>1, <1>2, <1>6, <2>2, <2>3, <2>4 DEF Current, Unharmed, WithTx, Execs
<1>7. op[h] \in WithTx \cup {"provision", "deprovision"}
  BY <1>1, <1>2 DEF TypeOK, RequestOK, Ops, WithTx
<1> QED
  BY <1>4, <1>5, <1>6, <1>7

LEMMA CommitCalm ==
    ASSUME IInv, CalmInv, NEW h \in Handlers, Commit(h)
    PROVE  CalmInv'
<1>1. RequestOK(h) /\ SessionOK(h) /\ TypeOK /\ ServerTypeOK /\ Unharmed(h)
  BY IInvArgs DEF IInv, Consistent, CalmInv
<1>2. /\ pc[h] = "commit" /\ pc' = [pc EXCEPT ![h] = "nil"]
      /\ Effect(Statement(h), h) /\ Statement(h) = "commit"
      /\ UNCHANGED <<args, op, orphan>>
  BY DEF Commit, Succeeds, Statement, Goto
<1>3. /\ pc'[h] = "nil" /\ op[h] \in WithTx
      /\ args[h].db \in Instances /\ args[h].user \in Bindings
  BY <1>1, <1>2 DEF TypeOK, RequestOK
<1>4. txn[h] = Done(op[h])
  BY <1>1, <1>2, <1>3 DEF SessionOK, Unharmed
<1>5. users'[args[h].db][args[h].user] = CommittedUser(h)
  BY <1>1, <1>2, <1>3, <1>4
     DEF Effect, CommitWork, Dirty, Done, WithTx, ServerTypeOK
<1>6. CommittedUser(h) = IF op[h] = "bind" THEN [pwd |-> args[h].pwd, owner |-> TRUE]
                                          ELSE NoUser
  BY <1>4 DEF CommittedUser, Done
<1>7. Current(h)' /\ Unharmed(h)'
  BY <1>2, <1>3, <1>5, <1>6 DEF Current, Unharmed, Promised, WithTx, Execs
<1> QED
  BY <1>1, <1>2, <1>7, StatementCalm DEF TypeOK, Execs

-----------------------------------------------------------------------------
(* The other steps of a request.                                           *)

(* A step at the broker alone.                                             *)
LEMMA LocalCalm ==
    ASSUME IInv, CalmInv, NEW h \in Handlers, UNCHANGED <<serverVars, orphan>>,
           \A g \in Handlers \ {h} : pc'[g] = pc[g] /\ op'[g] = op[g] /\ args'[g] = args[g],
           ServedAlone', Current(h)', Unharmed(h)'
    PROVE  CalmInv'
<1>1. Quiet'
  BY DEF CalmInv, Quiet, serverVars
<1>2. ASSUME NEW g \in Handlers \ {h} PROVE Current(g)' /\ Unharmed(g)'
  BY BystanderCalm DEF CalmInv, serverVars
<1> QED
  BY <1>1, <1>2 DEF CalmInv

(* The client sends no second request for an instance.                     *)
LEMMA ReceiveCalm ==
    ASSUME IInv, CalmInv, Serialized, NEW h \in Handlers, NEW o \in Ops, NEW i \in Instances,
           Receive(h, o, i)
    PROVE  CalmInv'
<1>1. TypeOK /\ ServerTypeOK
  BY IInvArgs DEF IInv
<1>2. /\ pc' = [pc EXCEPT ![h] = "IsDatabaseCreated"] /\ op' = [op EXCEPT ![h] = o]
      /\ args'[h].db = i /\ \A g \in Handlers \ {h} : args'[g] = args[g]
      /\ UNCHANGED <<serverVars, orphan>>
  BY <1>1 DEF Receive, Goto, ServerTypeOK
<1>3. pc'[h] = "IsDatabaseCreated"
  BY <1>1, <1>2 DEF TypeOK
<1>4. \A g \in Handlers \ {h} : args[g].db # i
  BY DEF Receive, MayRequest, CalmInv, Quiet
<1>5. ServedAlone'
  BY <1>1, <1>2, <1>4 DEF CalmInv, ServedAlone, Busy, TypeOK
<1>6. Current(h)' /\ Unharmed(h)'
  BY <1>3 DEF Current, Unharmed, Execs
<1> QED
  BY <1>1, <1>2, <1>5, <1>6, LocalCalm DEF TypeOK

(* The answer of a query stays true.                                       *)
LEMMA OperationCalm ==
    ASSUME IInv, CalmInv, NEW h \in Handlers,
           Provision(h) \/ Deprovision(h) \/ Bind(h) \/ Unbind(h)
    PROVE  CalmInv'
<1>1. TypeOK /\ RequestOK(h) /\ Current(h)
  BY DEF IInv, Consistent, CalmInv
<1>2. UNCHANGED <<serverVars, args, op, orphan>> /\ pc[h] \in Queries
  BY DEF Provision, Deprovision, Bind, Unbind, InstanceCheck, Answered, Queries
<1>3. \A g \in Handlers \ {h} : pc'[g] = pc[g]
  BY <1>1 DEF Provision, Deprovision, Bind, Unbind, InstanceCheck, Goto, TypeOK
<1>4. ServedAlone'
  BY <1>2, <1>3, StayAlone DEF CalmInv, Busy, Queries
<1>5. \/ pc'[h] \in Errors
      \/ pc'[h] = "exec" /\ op[h] = "provision" /\ mode[args[h].db] = "absent"
      \/ pc'[h] = "exec" /\ op[h] = "deprovision" /\ mode[args[h].db] # "absent"
      \/ pc'[h] = "IsUserCreated" /\ op[h] \in WithTx /\ mode[args[h].db] # "absent"
      \/ pc'[h] = "begin" /\ op[h] = "bind" /\ ~UserExists(h) /\ pc[h] = "IsUserCreated"
      \/ pc'[h] = "begin" /\ op[h] = "unbind" /\ UserExists(h) /\ pc[h] = "IsUserCreated"
  BY <1>1 DEF Provision, Deprovision, Bind, Unbind, InstanceCheck, Answered, Goto,
              DatabaseExists, TypeOK, Errors, WithTx
<1>6. Current(h)'
  BY <1>1, <1>2, <1>5 DEF Current, UserExists, Execs, Errors, serverVars, WithTx
<1>7. Unharmed(h)'
  BY <1>2, <1>5 DEF Unharmed, Errors, WithTx
<1> QED
  BY <1>2, <1>3, <1>4, <1>6, <1>7, LocalCalm

LEMMA RespondCalm ==
    ASSUME IInv, CalmInv, NEW h \in Handlers, Respond(h)
    PROVE  CalmInv'
<1>1. TypeOK /\ ServerTypeOK
  BY IInvArgs DEF IInv
<1>2. /\ pc'[h] = "idle" /\ UNCHANGED <<serverVars, orphan>>
      /\ \A g \in Handlers \ {h} : pc'[g] = pc[g] /\ op'[g] = op[g] /\ args'[g] = args[g]
  BY <1>1 DEF Respond, Clear, Goto, TypeOK, ServerTypeOK
<1>3. ServedAlone'
  BY <1>2, StayAlone DEF CalmInv, Busy
<1>4. Current(h)' /\ Unharmed(h)'
  BY <1>2 DEF Current, Unharmed, Execs
<1> QED
  BY <1>2, <1>3, <1>4, LocalCalm

(* The steps that need a failure do not happen.                            *)
LEMMA NothingFails ==
    ASSUME IInv, CalmInv, Calm'
    PROVE  /\ ~Fault
           /\ \A h \in Handlers :
                 ~(QueryRefused(h) \/ StatementRefused(h) \/ CallFails(h) \/ ReplyLost(h)
                   \/ Rollback(h) \/ ImplicitReply(h) \/ LateEffect(h) \/ Reap(h)
                   \/ \E g \in Handlers : GiveUp(h, g))
           /\ \A k \in Brokers : ~(Exit(k) \/ Kill(k) \/ InitFails(k))
           /\ \A i \in Instances : ~(ApplicationConnects(i) \/ ApplicationLeaves(i))
<1>1. ~Fault
  BY DEF IInv, TypeOK, Calm, Fault
<1>2. ASSUME NEW h \in Handlers PROVE ~QueryRefused(h)
  <2>1. SUFFICES ASSUME pc[h] = "IsUserCreated" PROVE DatabaseReadable(h)
    BY DEF QueryRefused
  <2>2. RequestOK(h) /\ Current(h)
    BY DEF IInv, Consistent, CalmInv
  <2>3. ~InUseByOthers(h, args[h].db)
    BY <2>1, NobodyElse DEF Busy
  <2> QED
    BY <2>1, <2>2, <2>3 DEF RequestOK, Current, WithTx, DatabaseReadable, DatabaseExists
<1>3. ASSUME NEW h \in Handlers PROVE ~StatementRefused(h)
  BY NeverRefused DEF StatementRefused
<1>4. ASSUME NEW h \in Handlers
      PROVE  ~(CallFails(h) \/ ReplyLost(h) \/ Rollback(h) \/ ImplicitReply(h)
               \/ LateEffect(h) \/ Reap(h) \/ \E g \in Handlers : GiveUp(h, g))
  BY <1>1 DEF CallFails, ReplyLost, Rollback, ImplicitReply, LateEffect, Reap, GiveUp,
              CalmInv, Quiet, Unharmed
<1>5. ASSUME NEW k \in Brokers PROVE ~(Exit(k) \/ Kill(k) \/ InitFails(k))
  BY <1>1 DEF Exit, Kill, InitFails, CalmInv, Unharmed
<1>6. ASSUME NEW i \in Instances PROVE ~(ApplicationConnects(i) \/ ApplicationLeaves(i))
  BY <1>1 DEF ApplicationConnects, ApplicationLeaves, GuestLeaves, CalmInv, Quiet
<1> QED
  BY <1>1, <1>2, <1>3, <1>4, <1>5, <1>6

-----------------------------------------------------------------------------
(* A failure is not forgotten.                                             *)
LEMMA CalmBefore ==
    ASSUME IInv, [Next]_vars, Calm'
    PROVE  Calm
<1>1. faults' = faults \/ faults' = faults + 1
  BY DEF Next, vars, Receive, HandlerStep, Provision, Deprovision, Bind, Unbind,
         InstanceCheck, Answered, Begin, ExecLine, Commit, Rollback, QueryRefused,
         StatementRefused, CallFails, ReplyLost, Fault, Respond, ImplicitReply, LateEffect,
         Reap, GiveUp, ProcessStep, Exit, Kill, Start, Listen, InitFails, ApplicationConnects,
         ApplicationLeaves
<1> QED
  BY <1>1 DEF IInv, TypeOK, Calm

LEMMA CalmNext == IInv /\ CalmAlways /\ [Next]_vars => CalmAlways'
<1> SUFFICES ASSUME IInv, CalmAlways, [Next]_vars, Calm' PROVE CalmInv'
  BY DEF CalmAlways
<1>1. CalmInv /\ Serialized
  BY CalmBefore DEF CalmAlways, Calm
<1>2. CASE UNCHANGED vars
  BY <1>1, <1>2 DEF vars, serverVars, handlerVars, CalmInv, Quiet, ServedAlone, Busy,
                    Current, Unharmed, Promised
<1>3. ASSUME NEW h \in Handlers, NEW o \in Ops, NEW i \in Instances, Receive(h, o, i)
      PROVE  CalmInv'
  BY <1>1, <1>3, ReceiveCalm
<1>4. ASSUME NEW h \in Handlers, HandlerStep(h) PROVE CalmInv'
  BY <1>1, <1>4, OperationCalm, BeginCalm, ExecLineCalm, CommitCalm, RespondCalm,
     NothingFails DEF HandlerStep
<1>5. ASSUME NEW k \in Brokers, ProcessStep(k) PROVE CalmInv'
  <2>1. Start(k) \/ Listen(k)
    BY <1>1, <1>5, NothingFails DEF ProcessStep
  <2>2. UNCHANGED <<serverVars, handlerVars, orphan>>
    BY <2>1 DEF Start, Listen
  <2> QED
    BY <1>1, <2>2 DEF serverVars, handlerVars, CalmInv, Quiet, ServedAlone, Busy,
                      Current, Unharmed, Promised
<1>6. ASSUME NEW i \in Instances PROVE ~(ApplicationConnects(i) \/ ApplicationLeaves(i))
  BY <1>1, NothingFails
<1> QED
  BY <1>2, <1>3, <1>4, <1>5, <1>6 DEF Next

LEMMA CalmInvAlways == Spec => []CalmAlways
<1>1. Init => CalmAlways
  BY DEF Init, ServerInit, CalmAlways, CalmInv, Quiet, ServedAlone, Busy, Current, Unharmed,
         Execs
<1> QED
  BY <1>1, CalmNext, InvAlways, PTL DEF Spec

(* While nothing fails, no request for an instance that nobody else uses   *)
(* reaches logger.Fatal (mssql_service_broker.go:46-58, 69-81, 96-117,     *)
(* 139-158): what it has asked for stays true until it acts upon it.       *)
THEOREM CalmNeverCrashes == Spec => []CalmRequestsNeverCrash
<1>1. CalmAlways => CalmRequestsNeverCrash
  BY DEF CalmAlways, CalmInv, Unharmed, CalmRequestsNeverCrash
<1> QED
  BY <1>1, CalmInvAlways, PTL

(* And when it returns nil, the database or the user is as promised until  *)
(* the response has been written.                                          *)
THEOREM CalmAnswersAreTrue == Spec => []CalmAnswersHold
<1>1. CalmAlways => CalmAnswersHold
  BY DEF CalmAlways, CalmInv, Unharmed, CalmAnswersHold
<1> QED
  BY <1>1, CalmInvAlways, PTL
=============================================================================
