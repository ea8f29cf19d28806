----------------------- MODULE BrokerRefinementProofs -----------------------
(***************************************************************************)
(* The broker implements the contract of BrokerRefinement, for every value *)
(* of the constants: every step of the broker is, under the refinement     *)
(* mapping, a step of the contract or leaves its state unchanged.          *)
(***************************************************************************)
EXTENDS BrokerRefinement, BrokerSafetyProofs

(* The two halves of the abstract state.                                   *)
ServerView == <<ProvisionedInstances, IssuedPasswords>>

SameRequest(g) == RequestOf(g)' = RequestOf(g) /\ PhaseOf(g)' = PhaseOf(g)

OthersSame(h) == \A g \in Handlers \ {h} : SameRequest(g)

(* What the abstract state of a request depends on.                        *)
LEMMA SameRequestIf ==
    ASSUME NEW g \in Handlers, op'[g] = op[g], pc'[g] = pc[g], args'[g] = args[g],
           g \in orphan' <=> g \in orphan
    PROVE  SameRequest(g)
BY DEF SameRequest, RequestOf, PhaseOf, Running

LEMMA PhaseValues ==
    ASSUME NEW g \in Handlers
    PROVE  /\ pc[g] = "idle" <=> PhaseOf(g) = "idle"
           /\ pc[g] \in {"begin", "exec", "commit"} =>
                 PhaseOf(g) = IF g \in orphan THEN "late" ELSE "accepted"
           /\ pc[g] \in Queries => PhaseOf(g) = IF g \in orphan THEN "lost" ELSE "pending"
           /\ pc[g] \in Returned => PhaseOf(g) = IF g \in orphan THEN "lost" ELSE pc[g]
           /\ pc[g] \in {"rollback", "panic", "flushed"} => PhaseOf(g) = "lost"
BY DEF PhaseOf, Running, Queries, Errors, Returned

LEMMA PhaseNext ==
    ASSUME NEW g \in Handlers
    PROVE  /\ pc'[g] = "idle" => PhaseOf(g)' = "idle"
           /\ pc'[g] \in {"begin", "exec", "commit"} =>
                 PhaseOf(g)' = IF g \in orphan' THEN "late" ELSE "accepted"
           /\ pc'[g] \in Queries => PhaseOf(g)' = IF g \in orphan' THEN "lost" ELSE "pending"
           /\ pc'[g] \in Returned => PhaseOf(g)' = IF g \in orphan' THEN "lost" ELSE pc'[g]
           /\ pc'[g] \in {"rollback", "panic", "flushed"} => PhaseOf(g)' = "lost"
BY DEF PhaseOf, Running, Queries, Errors, Returned

(* A step in which only the phase of h changes.                            *)
LEMMA BecomeStep ==
    ASSUME NEW h \in Handlers, OthersSame(h), NEW p, PhaseOf(h)' = p,
           IF p = "idle" THEN RequestOf(h)' = Contract!NoCall
                         ELSE RequestOf(h)' = RequestOf(h)
    PROVE  Contract!Become(h, p)
<1>1. [g \in Handlers |-> PhaseOf(g)'] =
        [[g \in Handlers |-> PhaseOf(g)] EXCEPT ![h] = p]
  BY DEF OthersSame, SameRequest
<1>2. CASE p = "idle"
  <2>1. [g \in Handlers |-> RequestOf(g)'] =
          [[g \in Handlers |-> RequestOf(g)] EXCEPT ![h] = Contract!NoCall]
    BY <1>2 DEF OthersSame, SameRequest
  <2> QED
    BY <1>1, <1>2, <2>1 DEF Contract!Become
<1>3. CASE p # "idle"
  <2>1. [g \in Handlers |-> RequestOf(g)'] = [g \in Handlers |-> RequestOf(g)]
    BY <1>3 DEF OthersSame, SameRequest
  <2> QED
    BY <1>1, <1>3, <2>1 DEF Contract!Become
<1> QED
  BY <1>2, <1>3

LEMMA StutterStep ==
    ASSUME \A g \in Handlers : SameRequest(g), UNCHANGED ServerView
    PROVE  UNCHANGED Contract!contractVars
BY DEF SameRequest, ServerView, Contract!contractVars

LEMMA LoseStep ==
    ASSUME NEW h \in Handlers, OthersSame(h), RequestOf(h)' = RequestOf(h),
           PhaseOf(h)' = "lost", PhaseOf(h) \in {"pending", "accepted", "lost"},
           UNCHANGED ServerView
    PROVE  Contract!ContractNext \/ UNCHANGED Contract!contractVars
<1>1. CASE PhaseOf(h) = "lost"
  BY <1>1, StutterStep DEF OthersSame, SameRequest
<1>2. CASE PhaseOf(h) \in {"pending", "accepted"}
  <2>1. Contract!Become(h, "lost")
    BY BecomeStep
  <2>2. Contract!Lose(h)
    BY <1>2, <2>1 DEF Contract!Lose, ServerView
  <2> QED
    BY <2>2 DEF Contract!ContractNext
<1> QED
  BY <1>1, <1>2

LEMMA FinishStep ==
    ASSUME NEW h \in Handlers, OthersSame(h), RequestOf(h)' = Contract!NoCall,
           PhaseOf(h)' = "idle", PhaseOf(h) \in Returned \cup {"late", "lost"},
           UNCHANGED ServerView
    PROVE  Contract!ContractNext
<1>1. Contract!Become(h, "idle")
  BY BecomeStep
<1>2. Contract!Finish(h)
  BY <1>1 DEF Contract!Finish, ServerView, Contract!ErrorValues, Returned, Errors
<1> QED
  BY <1>2 DEF Contract!ContractNext

LEMMA RefuseStep ==
    ASSUME NEW h \in Handlers, OthersSame(h), RequestOf(h)' = RequestOf(h),
           NEW err \in Errors, PhaseOf(h)' = err, PhaseOf(h) = "pending",
           Contract!Truthful(err, RequestOf(h)), UNCHANGED ServerView
    PROVE  Contract!ContractNext
<1>1. Contract!Become(h, err)
  BY BecomeStep DEF Errors
<1>2. Contract!Refuse(h)
  BY <1>1 DEF Contract!Refuse, Contract!ErrorValues, Errors, ServerView
<1> QED
  BY <1>2 DEF Contract!ContractNext

LEMMA AcceptStep ==
    ASSUME NEW h \in Handlers, OthersSame(h), RequestOf(h)' = RequestOf(h),
           PhaseOf(h)' = "accepted", PhaseOf(h) = "pending",
           Contract!Admissible(RequestOf(h)), UNCHANGED ServerView
    PROVE  Contract!ContractNext
<1>1. Contract!Become(h, "accepted")
  BY BecomeStep
<1>2. Contract!Accept(h)
  BY <1>1 DEF Contract!Accept, ServerView
<1> QED
  BY <1>2 DEF Contract!ContractNext

LEMMA PerformStep ==
    ASSUME NEW h \in Handlers, OthersSame(h),
           Contract!Admissible(RequestOf(h)), Contract!Effect(RequestOf(h)),
           \/ /\ PhaseOf(h) = "accepted"
              /\ RequestOf(h)' = RequestOf(h)
              /\ \/ PhaseOf(h)' \in {"nil", "lost"}
                 \/ DriverResends /\ PhaseOf(h)' = "accepted"
           \/ /\ PhaseOf(h) = "late"
              /\ PhaseOf(h)' = "idle" /\ RequestOf(h)' = Contract!NoCall
    PROVE  Contract!ContractNext
<1>1. PICK p \in {"nil", "lost", "accepted", "idle"} :
         p \in Contract!After(PhaseOf(h)) /\ Contract!Become(h, p)
  BY BecomeStep DEF Contract!After
<1>2. Contract!Perform(h)
  BY <1>1 DEF Contract!Perform
<1> QED
  BY <1>2 DEF Contract!ContractNext

-----------------------------------------------------------------------------
(* The statement with which a request takes effect.                        *)
TakesEffect(h) ==
    pc[h] = "commit" \/ Statement(h) \in {"create database", "drop database"}

LEMMA NoEffect ==
    ASSUME IInv, NEW h \in Handlers, pc[h] \in Execs, Succeeds(Statement(h), h),
           ~TakesEffect(h)
    PROVE  UNCHANGED ServerView
<1>1. TypeOK /\ RequestOK(h) /\ Effect(Statement(h), h)
  BY DEF IInv, Consistent, Succeeds
<1>2. Statement(h) \notin {"create database", "drop database", "commit"}
  <2>1. CASE pc[h] = "exec"
    BY <1>1, <2>1, StatementCases DEF TakesEffect
  <2>2. CASE pc[h] # "exec"
    BY <2>2 DEF Statement, TakesEffect
  <2> QED
    BY <2>1, <2>2
<1>3. CASE Statement(h) = "set single_user"
  <2>1. users' = users /\ mode' = [mode EXCEPT ![args[h].db] = "single"]
    BY <1>1, <1>3 DEF Effect, SetSingleUser, SetMode
  <2>2. mode[args[h].db] # "absent"
    BY <1>3 DEF Succeeds, Accepts
  <2>3. \A i \in Instances : mode'[i] # "absent" <=> mode[i] # "absent"
    BY <1>1, <2>1, <2>2 DEF TypeOK, ServerTypeOK
  <2> QED
    BY <2>1, <2>3 DEF ServerView, ProvisionedInstances, IssuedPasswords
<1>4. CASE Statement(h) # "set single_user"
  <2>1. users' = users /\ mode' = mode
    BY <1>1, <1>2, <1>4 DEF Effect, Work, MoveTo, EndSession, databaseVars
  <2> QED
    BY <2>1 DEF ServerView, ProvisionedInstances, IssuedPasswords
<1> QED
  BY <1>3, <1>4

LEMMA ItsEffect ==
    ASSUME IInv, NEW h \in Handlers, pc[h] \in Execs, Succeeds(Statement(h), h),
           TakesEffect(h)
    PROVE  Contract!Admissible(RequestOf(h)) /\ Contract!Effect(RequestOf(h))
<1> DEFINE i == args[h].db
<1> DEFINE b == args[h].user
<1>1. TypeOK /\ RequestOK(h) /\ SessionOK(h) /\ LockOK(h)
  BY DEF IInv, Consistent
<1>2. i \in Instances
  BY <1>1 DEF RequestOK, Execs
<1>3. Accepts(Statement(h), h) /\ Effect(Statement(h), h)
  BY DEF Succeeds
<1>4. /\ RequestOf(h).op = op[h] /\ RequestOf(h).db = i
      /\ RequestOf(h).user = b /\ RequestOf(h).pwd = args[h].pwd
  BY DEF RequestOf
<1>5. CASE Statement(h) = "create database"
  <2>1. op[h] = "provision"
    BY <1>1, <1>5, StatementCases DEF Statement, TakesEffect, Execs
  <2>2. mode[i] = "absent" /\ mode' = [mode EXCEPT ![i] = "multi"] /\ users' = users
    BY <1>3, <1>5 DEF Accepts, Effect, SetMode
  <2>3. ProvisionedInstances' = ProvisionedInstances \cup {i}
    BY <1>1, <1>2, <2>2 DEF ProvisionedInstances, TypeOK, ServerTypeOK
  <2>4. IssuedPasswords' = IssuedPasswords
    BY <2>2 DEF IssuedPasswords
  <2>5. i \notin ProvisionedInstances
    BY <2>2 DEF ProvisionedInstances
  <2> QED
    BY <1>4, <2>1, <2>3, <2>4, <2>5 DEF Contract!Admissible, Contract!Effect
<1>6. CASE Statement(h) = "drop database"
  <2>1. op[h] = "deprovision"
    BY <1>1, <1>6, StatementCases DEF Statement, TakesEffect, Execs
  <2>2. /\ mode[i] # "absent" /\ mode' = [mode EXCEPT ![i] = "absent"]
        /\ users' = [users EXCEPT ![i] = [c \in Bindings |-> NoUser]]
    BY <1>3, <1>6 DEF Accepts, Effect, DropDatabase, SetMode
  <2>3. ProvisionedInstances' = ProvisionedInstances \ {i}
    BY <1>1, <1>2, <2>2 DEF ProvisionedInstances, TypeOK, ServerTypeOK
  <2>4. IssuedPasswords' = [IssuedPasswords EXCEPT ![i] = Contract!Unbound]
    <3>1. [c \in Bindings |-> users'[i][c].pwd] = Contract!Unbound
      BY <1>1, <1>2, <2>2 DEF Contract!Unbound, NoUser, TypeOK, ServerTypeOK
    <3>2. \A j \in Instances : j # i => users'[j] = users[j]
      BY <1>1, <2>2 DEF TypeOK, ServerTypeOK
    <3> QED
      BY <1>2, <3>1, <3>2 DEF IssuedPasswords
  <2>5. i \in ProvisionedInstances
    BY <1>2, <2>2 DEF ProvisionedInstances
  <2> QED
    BY <1>4, <2>1, <2>3, <2>4, <2>5 DEF Contract!Admissible, Contract!Effect
<1>7. CASE pc[h] = "commit"
  <2>1. Statement(h) = "commit"
    BY <1>7 DEF Statement
  <2>2. op[h] \in WithTx /\ txn[h] = Done(op[h]) /\ CommitWork(h)
    BY <1>1, <1>3, <1>7, <2>1 DEF Accepts, Effect, SessionOK
  <2>3. b \in Bindings /\ (op[h] = "bind" <=> args[h].pwd \in Passwords)
    BY <1>1, <1>7, <2>2 DEF RequestOK
  <2>4. i \in ProvisionedInstances
    <3>1. Occupies(h, i)
      BY <2>2 DEF Occupies, Dirty, Done, WithTx
    <3> QED
      BY <1>1, <1>2, <3>1 DEF LockOK, ProvisionedInstances
  <2>5. mode' = mode /\ ProvisionedInstances' = ProvisionedInstances
    BY <2>2 DEF CommitWork, ProvisionedInstances
  <2>6. users' = [users EXCEPT ![i] = [users[i] EXCEPT ![b] = CommittedUser(h)]]
    BY <2>2 DEF CommitWork, Dirty, Done
  <2>7. IssuedPasswords' =
          [IssuedPasswords EXCEPT ![i] = [IssuedPasswords[i] EXCEPT ![b] = CommittedUser(h).pwd]]
    BY <1>1, <1>2, <2>3, <2>6 DEF IssuedPasswords, TypeOK, ServerTypeOK
  <2>8. CASE op[h] = "bind"
    <3>1. users[i][b] = NoUser
      BY <1>1, <2>2, <2>8 DEF LockOK, Done
    <3>2. IssuedPasswords[i][b] = None
      BY <1>2, <2>3, <3>1 DEF IssuedPasswords, NoUser
    <3>3. CommittedUser(h).pwd = args[h].pwd
      BY <2>2, <2>8 DEF CommittedUser, Done
    <3> QED
      BY <1>4, <2>4, <2>5, <2>7, <2>8, <3>2, <3>3
         DEF Contract!Admissible, Contract!Effect, Contract!Bound, Contract!SetBinding
  <2>9. CASE op[h] = "unbind"
    <3>1. users[i][b] # NoUser
      BY <1>1, <2>2, <2>9 DEF LockOK, Done
    <3>2. IssuedPasswords[i][b] # None
      <4>1. users[i][b].pwd \in Passwords
        BY <1>2, <2>3, <3>1 DEF IInv, Consistent, CommittedUsersAreOwners
      <4> QED
        BY <1>2, <2>3, <4>1, NoneAssumption DEF IssuedPasswords
    <3>3. CommittedUser(h).pwd = None
      BY <2>2, <2>9 DEF CommittedUser, Done, NoUser
    <3> QED
      BY <1>4, <2>4, <2>5, <2>7, <2>9, <3>2, <3>3
         DEF Contract!Admissible, Contract!Effect, Contract!Bound, Contract!SetBinding
  <2> QED
    BY <2>2, <2>8, <2>9 DEF WithTx
<1> QED
  BY <1>5, <1>6, <1>7 DEF TakesEffect

-----------------------------------------------------------------------------
(* The steps of the broker, as steps of the contract.                      *)

LEMMA ViewSame ==
    ASSUME UNCHANGED <<mode, users>>
    PROVE  UNCHANGED ServerView
BY DEF ServerView, ProvisionedInstances, IssuedPasswords

LEMMA ReceiveRefines ==
    ASSUME IInv, NEW h \in Handlers, NEW o \in Ops, NEW i \in Instances,
           Receive(h, o, i)
    PROVE  Contract!ContractNext
<1>1. PICK b \in IF o \in WithTx THEN Bindings ELSE {None},
           p \in IF o = "bind" THEN {q \in Passwords : Fresh(q)} ELSE {None} :
              args' = [args EXCEPT ![h] = [db |-> i, user |-> b, pwd |-> p]]
  BY DEF Receive
<1>2. /\ op' = [op EXCEPT ![h] = o] /\ pc' = [pc EXCEPT ![h] = "IsDatabaseCreated"]
      /\ UNCHANGED <<serverVars, orphan>> /\ pc[h] = "idle"
  BY DEF Receive, Goto, Busy
<1>3. TypeOK
  BY DEF IInv
<1>4. /\ b \in Bindings \cup {None} /\ p \in Passwords \cup {None}
      /\ o = "bind" => p # None
  BY NoneAssumption
<1>5. OthersSame(h)
  BY <1>1, <1>2, <1>3, SameRequestIf DEF OthersSame, TypeOK, ServerTypeOK
<1>6. PhaseOf(h) = "idle" /\ PhaseOf(h)' = "pending"
  <2>1. pc'[h] \in Queries
    BY <1>2, <1>3 DEF TypeOK, Queries
  <2>2. h \notin orphan'
    BY <1>2 DEF IInv, Consistent, RequestOK
  <2> QED
    BY <1>2, <2>1, <2>2, PhaseValues, PhaseNext
<1>7. RequestOf(h)' = [op |-> o, db |-> i, user |-> b, pwd |-> p]
  BY <1>1, <1>2, <1>3 DEF RequestOf, TypeOK, ServerTypeOK
<1>8. [g \in Handlers |-> RequestOf(g)'] =
        [[g \in Handlers |-> RequestOf(g)]
            EXCEPT ![h] = [op |-> o, db |-> i, user |-> b, pwd |-> p]]
  BY <1>5, <1>7 DEF OthersSame, SameRequest
<1>9. [g \in Handlers |-> PhaseOf(g)'] =
        [[g \in Handlers |-> PhaseOf(g)] EXCEPT ![h] = "pending"]
  BY <1>5, <1>6 DEF OthersSame, SameRequest
<1>10. UNCHANGED ServerView
  BY <1>2, ViewSame DEF serverVars
<1>11. o \in {"provision", "deprovision", "bind", "unbind"}
  BY DEF Ops
<1>12. Contract!Invoke(h)
  <2>1. [g \in Handlers |-> PhaseOf(g)][h] = "idle"
    BY <1>6
  <2>2. \E oo \in {"provision", "deprovision", "bind", "unbind"}, ii \in Instances,
           bb \in Bindings \cup {None}, pp \in Passwords \cup {None} :
              /\ oo = "bind" => pp # None
              /\ [g \in Handlers |-> RequestOf(g)'] =
                    [[g \in Handlers |-> RequestOf(g)]
                        EXCEPT ![h] = [op |-> oo, db |-> ii, user |-> bb, pwd |-> pp]]
    BY <1>4, <1>8, <1>11
  <2> QED
    BY <1>9, <1>10, <2>1, <2>2 DEF Contract!Invoke, ServerView
<1> QED
  BY <1>12 DEF Contract!ContractNext

(* What the contract sees of a step that moves h within its operation.     *)
LEMMA MoveView ==
    ASSUME IInv, NEW h \in Handlers, NEW q, Goto(h, q), UNCHANGED <<op, args, orphan>>
    PROVE  /\ OthersSame(h) /\ RequestOf(h)' = RequestOf(h)
           /\ pc'[h] = q
<1>1. TypeOK
  BY DEF IInv
<1>2. OthersSame(h)
  BY <1>1, SameRequestIf DEF OthersSame, TypeOK, Goto
<1> QED
  BY <1>1, <1>2 DEF RequestOf, TypeOK, Goto

LEMMA OperationRefines ==
    ASSUME IInv, NEW h \in Handlers,
           Provision(h) \/ Deprovision(h) \/ Bind(h) \/ Unbind(h)
    PROVE  Contract!ContractNext \/ UNCHANGED Contract!contractVars
<1>1. /\ pc[h] \in Queries /\ h \notin orphan
      /\ UNCHANGED <<mode, users, op, args, orphan>>
  BY DEF Provision, Deprovision, Bind, Unbind, InstanceCheck, Answered, Queries,
         Running, serverVars
<1>2. UNCHANGED ServerView
  BY <1>1, ViewSame
<1>3. RequestOK(h) /\ TypeOK
  BY DEF IInv, Consistent
<1>4. args[h].db \in Instances
  BY <1>1, <1>3 DEF RequestOK, Queries
<1>5. PhaseOf(h) = "pending"
  BY <1>1, PhaseValues
<1>6. DatabaseExists(h) <=> args[h].db \in ProvisionedInstances
  BY <1>4 DEF DatabaseExists, ProvisionedInstances
<1>7. op[h] \in WithTx => (UserExists(h) <=> Contract!Bound(RequestOf(h)))
  <2>1. SUFFICES ASSUME op[h] \in WithTx
                 PROVE  UserExists(h) <=> Contract!Bound(RequestOf(h))
    OBVIOUS
  <2>2. args[h].user \in Bindings
    BY <1>1, <1>3, <2>1 DEF RequestOK, Queries
  <2>3. Contract!Bound(RequestOf(h)) <=> users[args[h].db][args[h].user].pwd # None
    BY <1>4, <2>2 DEF Contract!Bound, RequestOf, IssuedPasswords
  <2>4. users[args[h].db][args[h].user] # NoUser =>
           users[args[h].db][args[h].user].pwd \in Passwords
    BY <1>4, <2>2 DEF IInv, Consistent, CommittedUsersAreOwners
  <2> QED
    BY <2>3, <2>4, NoneAssumption DEF UserExists, NoUser
<1>8. op[h] \in Ops /\ (pc[h] = "IsUserCreated" => op[h] \in WithTx)
  BY <1>1, <1>3 DEF TypeOK, RequestOK, Queries
<1>9. PICK q \in {"exec", "begin", "IsUserCreated"} \cup Errors :
         /\ Goto(h, q)
         /\ q \in Errors => Contract!Truthful(q, RequestOf(h))
         /\ q \in {"exec", "begin"} => Contract!Admissible(RequestOf(h))
  <2>1. RequestOf(h).op = op[h] /\ RequestOf(h).db = args[h].db
    BY DEF RequestOf
  <2>2. CASE Provision(h)
    BY <1>6, <2>1, <2>2 DEF Provision, Contract!Admissible, Contract!Truthful, Errors
  <2>3. CASE Deprovision(h)
    BY <1>6, <2>1, <2>3 DEF Deprovision, Contract!Admissible, Contract!Truthful, Errors
  <2>4. CASE (Bind(h) \/ Unbind(h)) /\ InstanceCheck(h)
    BY <1>6, <2>1, <2>4 DEF Bind, Unbind, InstanceCheck, Contract!Truthful, Errors
  <2>5. ASSUME op[h] \in WithTx, Answered(h, "IsUserCreated")
        PROVE  args[h].db \in ProvisionedInstances
    BY <1>6, <2>5 DEF Answered, DatabaseReadable
  <2>6. CASE /\ op[h] = "bind" /\ Answered(h, "IsUserCreated")
             /\ Goto(h, IF UserExists(h) THEN "ErrBindingAlreadyExists" ELSE "begin")
    BY <1>7, <2>1, <2>5, <2>6 DEF Contract!Admissible, Contract!Truthful, Errors, WithTx
  <2>7. CASE /\ op[h] = "unbind" /\ Answered(h, "IsUserCreated")
             /\ Goto(h, IF UserExists(h) THEN "begin" ELSE "ErrBindingAlreadyExists")
    BY <1>7, <2>1, <2>5, <2>7 DEF Contract!Admissible, Contract!Truthful, Errors, WithTx
  <2> QED
    BY <2>2, <2>3, <2>4, <2>6, <2>7 DEF Bind, Unbind
<1>10. OthersSame(h) /\ RequestOf(h)' = RequestOf(h) /\ pc'[h] = q /\ h \notin orphan'
  BY <1>1, <1>9, MoveView
<1>11. CASE q \in Errors
  <2>1. PhaseOf(h)' = q
    BY <1>10, <1>11, PhaseNext DEF Returned
  <2> QED
    BY <1>2, <1>5, <1>9, <1>10, <1>11, <2>1, RefuseStep
<1>12. CASE q = "IsUserCreated"
  <2>1. PhaseOf(h)' = "pending"
    BY <1>10, <1>12, PhaseNext DEF Queries
  <2>2. \A g \in Handlers : SameRequest(g)
    BY <1>5, <1>10, <2>1 DEF OthersSame, SameRequest
  <2> QED
    BY <1>2, <2>2, StutterStep
<1>13. CASE q \in {"exec", "begin"}
  <2>1. PhaseOf(h)' = "accepted"
    BY <1>10, <1>13, PhaseNext
  <2> QED
    BY <1>2, <1>5, <1>9, <1>10, <1>13, <2>1, AcceptStep
<1> QED
  BY <1>9, <1>11, <1>12, <1>13

LEMMA FailureRefines ==
    ASSUME IInv, NEW h \in Handlers,
           QueryRefused(h) \/ StatementRefused(h) \/ CallFails(h) \/ ImplicitReply(h)
    PROVE  Contract!ContractNext \/ UNCHANGED Contract!contractVars
<1>1. PICK q \in {"rollback", "panic", "flushed"} : Goto(h, q)
  BY DEF QueryRefused, StatementRefused, CallFails, ImplicitReply, Fail
<1>2. /\ pc[h] \in Calls \cup {"panic"} /\ h \notin orphan
      /\ UNCHANGED <<mode, users, op, args, orphan>>
  BY DEF QueryRefused, StatementRefused, CallFails, ImplicitReply, Calls,
         Queries, Execs, Running, serverVars
<1>3. OthersSame(h) /\ RequestOf(h)' = RequestOf(h) /\ pc'[h] = q
  BY <1>1, <1>2, MoveView
<1>4. PhaseOf(h)' = "lost"
  BY <1>3, PhaseNext
<1>5. UNCHANGED ServerView /\ PhaseOf(h) \in {"pending", "accepted", "lost"}
  BY <1>2, ViewSame, PhaseValues DEF Calls, Execs
<1> QED
  BY <1>3, <1>4, <1>5, LoseStep

(* A step that executes the outstanding statement of h.                    *)
LEMMA ExecutesRefines ==
    ASSUME IInv, NEW h \in Handlers, pc[h] \in Execs, Succeeds(Statement(h), h),
           OthersSame(h),
           \/ /\ h \notin orphan
              /\ RequestOf(h)' = RequestOf(h) /\ PhaseOf(h)' = "lost"
           \/ /\ h \in orphan /\ pc[h] # "rollback"
              /\ RequestOf(h)' = Contract!NoCall /\ PhaseOf(h)' = "idle"
           \/ /\ h \notin orphan
              /\ RequestOf(h)' = RequestOf(h)
              /\ TakesEffect(h) =>
                    PhaseOf(h)' = "nil" \/ (DriverResends /\ PhaseOf(h)' = "accepted")
              /\ ~TakesEffect(h) => PhaseOf(h)' = PhaseOf(h)
    PROVE  Contract!ContractNext \/ UNCHANGED Contract!contractVars
<1>1. PhaseOf(h) = IF pc[h] = "rollback" THEN "lost"
                   ELSE IF h \in orphan THEN "late" ELSE "accepted"
  BY PhaseValues DEF Execs
<1>2. CASE TakesEffect(h)
  <2>1. pc[h] # "rollback"
    BY <1>2 DEF TakesEffect, Statement
  <2> QED
    BY <1>1, <1>2, <2>1, ItsEffect, PerformStep
<1>3. CASE ~TakesEffect(h)
  <2>1. UNCHANGED ServerView
    BY <1>3, NoEffect
  <2>2. CASE h \notin orphan /\ RequestOf(h)' = RequestOf(h) /\ PhaseOf(h)' = "lost"
    BY <1>1, <2>1, <2>2, LoseStep
  <2>3. CASE /\ h \in orphan /\ pc[h] # "rollback"
             /\ RequestOf(h)' = Contract!NoCall /\ PhaseOf(h)' = "idle"
    BY <1>1, <2>1, <2>3, FinishStep
  <2>4. CASE RequestOf(h)' = RequestOf(h) /\ PhaseOf(h)' = PhaseOf(h)
    BY <2>1, <2>4, StutterStep DEF OthersSame, SameRequest
  <2> QED
    BY <1>3, <2>2, <2>3, <2>4
<1> QED
  BY <1>2, <1>3

LEMMA StatementRefines ==
    ASSUME IInv, NEW h \in Handlers, Begin(h) \/ ExecLine(h) \/ Commit(h) \/ Rollback(h)
    PROVE  Contract!ContractNext \/ UNCHANGED Contract!contractVars
<1>1. /\ pc[h] \in Execs /\ Succeeds(Statement(h), h) /\ h \notin orphan
      /\ UNCHANGED <<args, op, orphan>>
  BY DEF Begin, ExecLine, Commit, Rollback, Statement, Execs, Running
<1>2. TypeOK /\ RequestOK(h)
  BY DEF IInv, Consistent
<1>3. PICK q : /\ Goto(h, q)
               /\ pc[h] = "begin" => q = "exec"
               /\ pc[h] = "exec" => q = IF ~LastLine(h) THEN "exec"
                                        ELSE IF op[h] \in WithTx THEN "commit" ELSE "nil"
               /\ pc[h] = "commit" => q = "nil"
               /\ pc[h] = "rollback" => q = "panic"
  <2>1. CASE ExecLine(h) /\ ~LastLine(h)
    <3>1. pc' = [pc EXCEPT ![h] = "exec"]
      BY <1>2, <2>1 DEF ExecLine, TypeOK
    <3> QED
      BY <2>1, <3>1 DEF ExecLine, Goto
  <2>2. CASE ExecLine(h) /\ LastLine(h)
    BY <2>2 DEF ExecLine
  <2>3. CASE Begin(h) \/ Commit(h) \/ Rollback(h)
    BY <2>3 DEF Begin, Commit, Rollback
  <2> QED
    BY <2>1, <2>2, <2>3
<1>4. OthersSame(h) /\ RequestOf(h)' = RequestOf(h) /\ pc'[h] = q
  BY <1>1, <1>3, MoveView
<1>5. /\ q \in {"exec", "commit"} => PhaseOf(h)' = "accepted"
      /\ q = "nil" => PhaseOf(h)' = "nil"
      /\ q = "panic" => PhaseOf(h)' = "lost"
  BY <1>1, <1>4, PhaseNext DEF Returned
<1>6. /\ TakesEffect(h) => q = "nil"
      /\ ~TakesEffect(h) => q # "nil"
  <2>1. CASE pc[h] = "exec"
    BY <1>2, <1>3, <2>1, StatementCases DEF TakesEffect, WithTx
  <2>2. CASE pc[h] # "exec"
    BY <1>1, <1>3, <2>2 DEF TakesEffect, Statement, Execs
  <2> QED
    BY <2>1, <2>2
<1>7. pc[h] # "rollback" => PhaseOf(h) = "accepted"
  BY <1>1, PhaseValues DEF Execs
<1>8. q \in {"exec", "commit", "nil", "panic"}
  BY <1>1, <1>3 DEF Execs
<1>9. q # "panic" => pc[h] # "rollback"
  BY <1>3
<1>10. CASE q = "panic"
  BY <1>1, <1>4, <1>5, <1>10, ExecutesRefines
<1>11. CASE q = "nil"
  <2>1. TakesEffect(h) /\ PhaseOf(h)' = "nil"
    BY <1>5, <1>6, <1>11
  <2>2. ~TakesEffect(h) => PhaseOf(h)' = PhaseOf(h)
    BY <2>1
  <2>3. TakesEffect(h) =>
            PhaseOf(h)' = "nil" \/ (DriverResends /\ PhaseOf(h)' = "accepted")
    BY <2>1
  <2> QED
    BY <1>1, <1>4, <2>2, <2>3, ExecutesRefines
<1>12. CASE q \in {"exec", "commit"}
  <2>1. PhaseOf(h)' = PhaseOf(h) /\ ~TakesEffect(h)
    BY <1>5, <1>6, <1>7, <1>9, <1>12
  <2> QED
    BY <1>1, <1>4, <2>1, ExecutesRefines
<1> QED
  BY <1>8, <1>10, <1>11, <1>12

LEMMA ReplyLostRefines ==
    ASSUME IInv, NEW h \in Handlers, ReplyLost(h)
    PROVE  Contract!ContractNext \/ UNCHANGED Contract!contractVars
<1>1. /\ pc[h] \in Execs /\ Succeeds(Statement(h), h) /\ h \notin orphan
      /\ UNCHANGED <<args, op, orphan>>
      /\ Fail(h) \/ (Resends(h) /\ UNCHANGED pc)
  BY DEF ReplyLost, Running
<1>2. CASE Fail(h)
  <2>1. PICK q \in {"rollback", "panic"} : Goto(h, q)
    BY <1>2 DEF Fail
  <2>2. OthersSame(h) /\ RequestOf(h)' = RequestOf(h) /\ pc'[h] = q
    BY <1>1, <2>1, MoveView
  <2>3. PhaseOf(h)' = "lost"
    BY <2>2, PhaseNext
  <2> QED
    BY <1>1, <2>2, <2>3, ExecutesRefines
<1>3. CASE Resends(h) /\ UNCHANGED pc
  <2>1. DriverResends /\ pc' = pc /\ pc[h] \in {"begin", "exec"}
    BY <1>3 DEF Resends
  <2>2. \A g \in Handlers : SameRequest(g)
    BY <1>1, <2>1, SameRequestIf
  <2>3. PhaseOf(h) = "accepted"
    BY <1>1, <2>1, PhaseValues
  <2> QED
    BY <1>1, <2>1, <2>2, <2>3, ExecutesRefines DEF SameRequest, OthersSame
<1> QED
  BY <1>1, <1>2, <1>3

(* A step that clears the handler is its end for the contract as well.     *)
LEMMA ClearView ==
    ASSUME IInv, NEW h \in Handlers, Clear(h),
           \A g \in Handlers \ {h} : g \in orphan' <=> g \in orphan
    PROVE  /\ OthersSame(h)
           /\ RequestOf(h)' = Contract!NoCall /\ PhaseOf(h)' = "idle"
<1>1. TypeOK
  BY DEF IInv
<1>2. OthersSame(h)
  BY <1>1, SameRequestIf DEF OthersSame, Clear, Goto, TypeOK, ServerTypeOK
<1>3. op'[h] = "none" /\ args'[h] = NoArgs /\ pc'[h] = "idle"
  BY <1>1 DEF Clear, Goto, TypeOK, ServerTypeOK
<1>4. PhaseOf(h)' = "idle"
  BY <1>3, PhaseNext
<1> QED
  BY <1>2, <1>3, <1>4 DEF RequestOf, NoArgs, Contract!NoCall

LEMMA EndRefines ==
    ASSUME IInv, NEW h \in Handlers, Respond(h) \/ Reap(h)
    PROVE  Contract!ContractNext
<1>1. /\ Clear(h) /\ \A g \in Handlers \ {h} : g \in orphan' <=> g \in orphan
      /\ UNCHANGED <<mode, users>>
  BY DEF Respond, Reap, EndSession, databaseVars, serverVars
<1>2. PhaseOf(h) \in Returned \cup {"late", "lost"}
  <2>1. CASE Respond(h)
    BY <2>1, PhaseValues DEF Respond, Running
  <2>2. CASE Reap(h)
    <3>1. h \in orphan /\ pc[h] # "idle" /\ TypeOK
      BY <2>2 DEF Reap, IInv, Consistent, RequestOK
    <3> QED
      BY <3>1, PhaseValues DEF TypeOK, Calls, Execs
  <2> QED
    BY <2>1, <2>2
<1>3. UNCHANGED ServerView
  BY <1>1, ViewSame
<1> QED
  BY <1>1, <1>2, <1>3, ClearView, FinishStep

LEMMA LateEffectRefines ==
    ASSUME IInv, NEW h \in Handlers, LateEffect(h)
    PROVE  Contract!ContractNext \/ UNCHANGED Contract!contractVars
<1>1. /\ Clear(h) /\ \A g \in Handlers \ {h} : g \in orphan' <=> g \in orphan
      /\ pc[h] \in Execs /\ pc[h] # "rollback" /\ h \in orphan
      /\ Succeeds(Statement(h), h)
  BY DEF LateEffect, MayBeLate, Execs
<1> QED
  BY <1>1, ClearView, ExecutesRefines

(* A copy of a request that is given up, or sent again, appears.           *)
LEMMA GiveUpRefines ==
    ASSUME IInv, NEW h \in Handlers, NEW g \in Handlers, GiveUp(h, g)
    PROVE  Contract!ContractNext
<1>1. /\ pc[h] \in {"commit", "exec"} /\ h \notin orphan /\ pc[g] = "idle" /\ h # g
      /\ UNCHANGED <<mode, users>>
      /\ op' = [op EXCEPT ![g] = op[h]] /\ args' = [args EXCEPT ![g] = args[h]]
      /\ orphan' = orphan \cup {g}
  BY DEF GiveUp, MayBeLate, Running, Detach, Busy, databaseVars
<1>2. PICK next \in {"panic", pc[h]} :
         /\ pc' = [pc EXCEPT ![g] = pc[h], ![h] = next]
         /\ next = pc[h] => DriverResends
  BY <1>1 DEF GiveUp, Resends
<1>3. TypeOK
  BY DEF IInv
<1>4. pc'[g] = pc[h] /\ pc'[h] = next /\ h \notin orphan' /\ g \in orphan'
  BY <1>1, <1>2, <1>3 DEF TypeOK
<1>5. /\ PhaseOf(h) = "accepted" /\ PhaseOf(g) = "idle" /\ PhaseOf(g)' = "late"
      /\ PhaseOf(h)' = IF next = "panic" THEN "lost" ELSE "accepted"
  BY <1>1, <1>4, PhaseValues, PhaseNext
<1>6. RequestOf(g)' = RequestOf(h) /\ RequestOf(h)' = RequestOf(h)
  BY <1>1, <1>3 DEF RequestOf, TypeOK, ServerTypeOK
<1>7. \A k \in Handlers \ {h, g} : SameRequest(k)
  BY <1>1, <1>2, <1>3, SameRequestIf DEF TypeOK, ServerTypeOK
<1>8. [k \in Handlers |-> PhaseOf(k)'] =
         [[k \in Handlers |-> PhaseOf(k)]
             EXCEPT ![g] = "late", ![h] = IF next = "panic" THEN "lost" ELSE "accepted"]
  BY <1>1, <1>5, <1>7 DEF SameRequest
<1>9. [k \in Handlers |-> RequestOf(k)'] =
         [[k \in Handlers |-> RequestOf(k)] EXCEPT ![g] = RequestOf(h)]
  BY <1>6, <1>7 DEF SameRequest
<1>10. UNCHANGED ServerView
  BY <1>1, ViewSame
<1>11. Contract!Leave(h, g)
  <2>1. (IF next = "panic" THEN "lost" ELSE "accepted")
           \in {"lost"} \cup (IF DriverResends THEN {"accepted"} ELSE {})
    BY <1>2
  <2> QED
    BY <1>5, <1>8, <1>9, <1>10, <2>1 DEF Contract!Leave, ServerView
<1> QED
  BY <1>11 DEF Contract!ContractNext

LEMMA ProcessRefines ==
    ASSUME IInv, NEW k \in Brokers, ProcessStep(k)
    PROVE  Contract!ContractNext \/ UNCHANGED Contract!contractVars
<1>1. UNCHANGED <<serverVars, handlerVars>>
  BY DEF ProcessStep, Exit, Kill, Start, Listen, InitFails, GoDown
<1>2. UNCHANGED ServerView
  BY <1>1, ViewSame DEF serverVars
<1>3. \A g \in Handlers : RequestOf(g)' = RequestOf(g) /\ pc'[g] = pc[g]
  BY <1>1 DEF RequestOf, handlerVars
<1>4. CASE orphan' = orphan
  BY <1>1, <1>2, <1>4, SameRequestIf, StutterStep DEF handlerVars
<1>5. CASE GoDown(k)
  <2> DEFINE S == {g \in Handlers : Host[g] = k /\ Busy(g)}
  <2>1. orphan' = orphan \cup S
    BY <1>5 DEF GoDown
  <2>2. ASSUME NEW g \in Handlers
        PROVE  PhaseOf(g)' = IF g \notin S THEN PhaseOf(g)
                             ELSE IF PhaseOf(g) \in {"accepted", "late"} THEN "late"
                             ELSE "lost"
    <3>1. CASE g \in S
      <4>1. pc[g] # "idle" /\ g \in orphan' /\ pc'[g] = pc[g] /\ TypeOK
        BY <1>3, <2>1, <3>1 DEF Busy, IInv
      <4>2. CASE pc[g] \in {"begin", "exec", "commit"}
        BY <3>1, <4>1, <4>2, PhaseValues, PhaseNext
      <4>3. CASE pc[g] \in Queries \cup Returned \cup {"rollback", "panic", "flushed"}
        <5>1. PhaseOf(g)' = "lost"
          BY <4>1, <4>3, PhaseNext
        <5>2. PhaseOf(g) \notin {"accepted", "late"}
          BY <4>3, PhaseValues DEF Returned, Errors
        <5> QED
          BY <3>1, <5>1, <5>2
      <4> QED
        BY <4>1, <4>2, <4>3 DEF TypeOK, Calls, Execs
    <3>2. CASE g \notin S
      BY <1>1, <2>1, <3>2, SameRequestIf DEF handlerVars, SameRequest
    <3> QED
      BY <3>1, <3>2
  <2>3. \A g \in S : [f \in Handlers |-> PhaseOf(f)][g] # "idle"
    BY PhaseValues DEF Busy
  <2>4. [g \in Handlers |-> PhaseOf(g)'] =
          [g \in Handlers |->
              IF g \notin S THEN [f \in Handlers |-> PhaseOf(f)][g]
              ELSE IF [f \in Handlers |-> PhaseOf(f)][g] \in {"accepted", "late"}
                   THEN "late" ELSE "lost"]
    BY <2>2
  <2>5. [g \in Handlers |-> RequestOf(g)'] = [g \in Handlers |-> RequestOf(g)]
    BY <1>3
  <2>6. Contract!Abandon(S)
    BY <1>2, <2>3, <2>4, <2>5 DEF Contract!Abandon, ServerView
  <2>7. S \in SUBSET Handlers
    OBVIOUS
  <2> QED
    BY <2>6, <2>7 DEF Contract!ContractNext
<1> QED
  BY <1>4, <1>5 DEF ProcessStep, Exit, Kill, Start, Listen, InitFails

-----------------------------------------------------------------------------
(* The broker's four operations, with all their failures, implement the    *)
(* atomic operations of the ServiceBroker interface                        *)
(* (mssql_service_broker.go:40-163): nil only after the whole effect,      *)
(* nothing before an error value, which is the one that was true at an     *)
(* instant of the call, and all or nothing after a failure, also for a     *)
(* statement that is executed after the call has ended.                    *)
THEOREM Refinement == Spec => ImplementsContract
<1>1. Init => Contract!ContractInit
  <2>1. SUFFICES ASSUME Init PROVE Contract!ContractInit
    OBVIOUS
  <2>2. ProvisionedInstances = {}
    BY <2>1 DEF Init, ServerInit, ProvisionedInstances
  <2>3. IssuedPasswords = [i \in Instances |-> Contract!Unbound]
    BY <2>1 DEF Init, ServerInit, IssuedPasswords, Contract!Unbound, NoUser
  <2>4. \A h \in Handlers : RequestOf(h) = Contract!NoCall /\ PhaseOf(h) = "idle"
    BY <2>1, PhaseValues DEF Init, RequestOf, NoArgs, Contract!NoCall
  <2> QED
    BY <2>2, <2>3, <2>4 DEF Contract!ContractInit
<1>2. IInv /\ [Next]_vars => [Contract!ContractNext]_(Contract!contractVars)
  <2> SUFFICES ASSUME IInv, [Next]_vars
               PROVE  Contract!ContractNext \/ UNCHANGED Contract!contractVars
    OBVIOUS
  <2>1. CASE UNCHANGED vars
    <3>1. UNCHANGED <<mode, users, op, pc, args, orphan>>
      BY <2>1 DEF vars, serverVars, handlerVars
    <3> QED
      BY <3>1, ViewSame, SameRequestIf, StutterStep
  <2>2. ASSUME NEW h \in Handlers, NEW o \in Ops, NEW i \in Instances, Receive(h, o, i)
        PROVE  Contract!ContractNext
    BY <2>2, ReceiveRefines
  <2>3. ASSUME NEW h \in Handlers, HandlerStep(h)
        PROVE  Contract!ContractNext \/ UNCHANGED Contract!contractVars
    BY <2>3, OperationRefines, FailureRefines, StatementRefines, ReplyLostRefines,
       EndRefines, LateEffectRefines, GiveUpRefines DEF HandlerStep
  <2>4. ASSUME NEW k \in Brokers, ProcessStep(k)
        PROVE  Contract!ContractNext \/ UNCHANGED Contract!contractVars
    BY <2>4, ProcessRefines
  <2>5. ASSUME NEW i \in Instances, ApplicationConnects(i) \/ ApplicationLeaves(i)
        PROVE  UNCHANGED Contract!contractVars
    <3>1. UNCHANGED <<mode, users, op, pc, args, orphan>>
      BY <2>5 DEF ApplicationConnects, ApplicationLeaves, GuestArrives, GuestLeaves,
                  handlerVars
    <3> QED
      BY <3>1, ViewSame, SameRequestIf, StutterStep
  <2> QED
    BY <2>1, <2>2, <2>3, <2>4, <2>5 DEF Next
<1> QED
  BY <1>1, <1>2, InvAlways, PTL DEF Spec, ImplementsContract, Contract!ContractSpec
=============================================================================
