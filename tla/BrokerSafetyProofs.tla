------------------------- MODULE BrokerSafetyProofs -------------------------
(***************************************************************************)
(* The invariant of BrokerSafety holds for every number of handlers,       *)
(* processes, instances, bindings and failures.  First what one statement  *)
(* does to the server, then what each action does to the whole state.      *)
(***************************************************************************)
EXTENDS BrokerSafety, TLAPS

-----------------------------------------------------------------------------
(* A statement and the types of the server's state (SqlServer).            *)

(* Every statement the server executes leaves its state well-typed.        *)
LEMMA EffectType ==
    ASSUME NEW h \in Handlers, NEW s, ServerTypeOK, Effect(s, h)
    PROVE  /\ mode' \in [Instances -> {"absent", "multi", "single"}]
           /\ users' \in [Instances -> [Bindings -> User]]
           /\ guest' \in [Instances -> BOOLEAN]
           /\ txn' \in [Handlers -> {"none", "clean", "created", "owner", "dropped"}]
           /\ at' \in [Handlers -> {"master", "database"}]
<1>1. NoUser \in User
  BY DEF NoUser, User
<1>2. CommittedUser(h) \in User
  <2>1. args[h].pwd \in Passwords \cup {None}
    BY DEF ServerTypeOK, Args
  <2> QED
    BY <1>1, <2>1 DEF CommittedUser, User
<1>3. CASE s = "create database" /\ SetMode(h, "multi") /\ UNCHANGED <<users, guest, txn, at>>
  BY <1>3 DEF ServerTypeOK, SetMode
<1>4. CASE SetSingleUser(h)
  BY <1>4 DEF ServerTypeOK, SetMode, SetSingleUser
<1>5. CASE DropDatabase(h)
  BY <1>1, <1>5 DEF ServerTypeOK, SetMode, DropDatabase
<1>6. CASE \E t \in {"clean", "created", "owner", "dropped"} : Work(h, t)
  BY <1>6 DEF ServerTypeOK, Work, SetTxn, databaseVars
<1>7. CASE \E d \in {"master", "database"} : MoveTo(h, d)
  BY <1>7 DEF ServerTypeOK, MoveTo, databaseVars
<1>8. CASE CommitWork(h)
  <2>1. CASE Dirty(h)
    <3>1. users' = [users EXCEPT ![args[h].db][args[h].user] = CommittedUser(h)]
      BY <1>8, <2>1 DEF CommitWork
    <3>2. users' \in [Instances -> [Bindings -> User]]
      BY <1>2, <3>1 DEF ServerTypeOK
    <3> QED
      BY <1>8, <3>2 DEF ServerTypeOK, CommitWork, SetTxn
  <2>2. CASE ~Dirty(h)
    BY <1>8, <2>2 DEF ServerTypeOK, CommitWork, SetTxn
  <2> QED
    BY <2>1, <2>2
<1>9. CASE EndSession(h)
  BY <1>9 DEF ServerTypeOK, EndSession, SetTxn, databaseVars
<1> QED
  BY <1>3, <1>4, <1>5, <1>6, <1>7, <1>8, <1>9 DEF Effect

(* The session of another handler is left alone, or ended.                 *)
LEMMA EffectOnOthers ==
    ASSUME NEW h \in Handlers, NEW s, ServerTypeOK, Effect(s, h),
           NEW g \in Handlers \ {h}
    PROVE  \/ txn'[g] = txn[g] /\ at'[g] = at[g]
           \/ txn'[g] = "none" /\ at'[g] = "master"
<1>1. CASE SetSingleUser(h)
  BY <1>1 DEF SetSingleUser, ServerTypeOK
<1> QED
  BY <1>1 DEF Effect, ServerTypeOK, DropDatabase, Work, SetTxn, MoveTo, CommitWork,
              EndSession, databaseVars

(* The session of the handler itself advances by the statement.            *)
SessionAfter(s, h) ==
    CASE s = "begin" -> txn'[h] = "clean" /\ at'[h] = at[h]
      [] s = "use" -> txn'[h] = txn[h] /\ at'[h] = "database"
      [] s = "create user" -> txn'[h] = "created" /\ at'[h] = at[h]
      [] s = "add role" -> txn'[h] = "owner" /\ at'[h] = at[h]
      [] s = "drop user" -> txn'[h] = "dropped" /\ at'[h] = at[h]
      [] s = "use master" -> txn'[h] = txn[h] /\ at'[h] = "master"
      [] s \in {"commit", "rollback"} -> txn'[h] = "none" /\ at'[h] = "master"
      [] OTHER -> txn'[h] = txn[h] /\ at'[h] = at[h]

LEMMA EffectOnSelf ==
    ASSUME NEW h \in Handlers, NEW s, ServerTypeOK, Effect(s, h)
    PROVE  SessionAfter(s, h)
BY DEF Effect, ServerTypeOK, SetSingleUser, DropDatabase, Work, SetTxn, MoveTo,
       CommitWork, EndSession, databaseVars, SessionAfter

-----------------------------------------------------------------------------
(* A statement and the consistency of the server's state.                  *)

ArgsOK ==
    \A g \in Handlers :
        txn[g] # "none" => args[g].db \in Instances /\ args[g].user \in Bindings

(* Only a session without a transaction may lose its arguments.            *)
ArgsKept == \A g \in Handlers : txn'[g] # "none" => args'[g] = args[g]

ServerConsistent ==
    /\ \A g \in Handlers : LockOK(g)
    /\ \A i \in Instances : AbsentOK(i)

(* While no other session is in a database, none has a dirty user in it.   *)
LEMMA DirtyOccupies ==
    ASSUME NEW g \in Handlers, ArgsOK, Dirty(g)
    PROVE  txn[g] # "none" /\ Occupies(g, args[g].db) /\ args[g].db \in Instances
BY DEF ArgsOK, Dirty, Occupies

(* What LockOK of a session needs of a step that leaves the session alone  *)
(* or ends it.                                                             *)
LEMMA LockFrame ==
    ASSUME NEW g \in Handlers, LockOK(g),
           txn'[g] # "none" =>
              /\ txn'[g] = txn[g] /\ at'[g] = at[g] /\ args'[g] = args[g]
              /\ \A i \in Instances : Occupies(g, i) => mode'[i] # "absent"
              /\ Dirty(g) => /\ users'[args[g].db][args[g].user]
                                   = users[args[g].db][args[g].user]
                             /\ ~LockedByOther(g)'
    PROVE  LockOK(g)'
<1>1. CASE txn'[g] = "none"
  BY <1>1 DEF LockOK, Occupies, Dirty
<1>2. CASE txn'[g] # "none"
  BY <1>2 DEF LockOK, Occupies, Dirty
<1> QED
  BY <1>1, <1>2

(* No session gets a lock in the step, so none loses one to another.       *)
LEMMA NoNewLocks ==
    ASSUME NEW g \in Handlers, LockOK(g), Dirty(g), args'[g] = args[g],
           \A k \in Handlers \ {g} : Dirty(k)' => Dirty(k) /\ args'[k] = args[k]
    PROVE  ~LockedByOther(g)'
BY DEF LockOK, LockedByOther

LEMMA EffectConsistent ==
    ASSUME NEW h \in Handlers, NEW s, ServerTypeOK, ArgsOK, ServerConsistent,
           args[h].db \in Instances, Succeeds(s, h), ArgsKept,
           s = "drop database" => txn[h] = "none",
           s = "begin" => at[h] = "master"
    PROVE  ServerConsistent'
<1> DEFINE i == args[h].db
<1> DEFINE b == args[h].user
<1> USE DEF ServerConsistent, ArgsKept
<1>a. ~Waits(s, h) /\ Accepts(s, h) /\ Effect(s, h)
  BY DEF Succeeds
<1>b. ASSUME NEW g \in Handlers, users' = users,
             \A k \in Handlers : txn'[k] # "none" => txn'[k] = txn[k] /\ at'[k] = at[k],
             \A j \in Instances : Occupies(g, j) => mode'[j] # "absent"
      PROVE  LockOK(g)'
  <2>1. \A k \in Handlers : Dirty(k)' => Dirty(k) /\ args'[k] = args[k]
    BY <1>b DEF Dirty
  <2> QED
    BY <1>b, <2>1, LockFrame, NoNewLocks
<1>1. CASE s = "create database"
  <2>1. mode' = [mode EXCEPT ![i] = "multi"] /\ UNCHANGED <<users, guest, txn, at>>
    BY <1>a, <1>1 DEF Effect, SetMode
  <2>2. ASSUME NEW j \in Instances PROVE mode[j] # "absent" => mode'[j] # "absent"
    BY <2>1 DEF ServerTypeOK
  <2>3. ASSUME NEW g \in Handlers PROVE LockOK(g)'
    BY <1>b, <2>1, <2>2 DEF LockOK
  <2>4. ASSUME NEW j \in Instances PROVE AbsentOK(j)'
    BY <2>1, <2>2 DEF AbsentOK, ServerTypeOK
  <2> QED
    BY <2>3, <2>4
<1>2. CASE s = "set single_user"
  <2>1. mode[i] # "absent" /\ SetSingleUser(h)
    BY <1>a, <1>2 DEF Accepts, Effect
  <2>2. mode' = [mode EXCEPT ![i] = "single"] /\ guest' = [guest EXCEPT ![i] = FALSE]
        /\ users' = users
    BY <2>1 DEF SetSingleUser, SetMode
  <2>3. \A k \in Handlers : txn'[k] # "none" => txn'[k] = txn[k] /\ at'[k] = at[k]
    BY <2>1 DEF SetSingleUser, ServerTypeOK
  <2>4. ASSUME NEW j \in Instances PROVE mode[j] # "absent" => mode'[j] # "absent"
    BY <2>2 DEF ServerTypeOK
  <2>5. ASSUME NEW g \in Handlers PROVE LockOK(g)'
    BY <1>b, <2>2, <2>3, <2>4 DEF LockOK
  <2>6. ASSUME NEW j \in Instances PROVE AbsentOK(j)'
    BY <2>1, <2>2 DEF AbsentOK, ServerTypeOK
  <2> QED
    BY <2>5, <2>6
<1>3. CASE s = "drop database"
  <2>1. ~InUseByOthers(h, i) /\ DropDatabase(h)
    BY <1>a, <1>3 DEF Accepts, Effect
  <2>2. /\ mode' = [mode EXCEPT ![i] = "absent"]
        /\ users' = [users EXCEPT ![i] = [c \in Bindings |-> NoUser]]
        /\ UNCHANGED <<guest, txn, at>>
    BY <2>1 DEF DropDatabase, SetMode
  <2>3. ~guest[i] /\ \A g \in Handlers : ~Occupies(g, i)
    BY <1>3, <2>1 DEF InUseByOthers, Occupies
  <2>4. \A j \in Instances : j # i => mode'[j] = mode[j] /\ users'[j] = users[j]
    BY <2>2 DEF ServerTypeOK
  <2>5. ASSUME NEW g \in Handlers PROVE LockOK(g)'
    <3>1. \A j \in Instances : Occupies(g, j) => mode'[j] # "absent"
      BY <2>3, <2>4 DEF LockOK
    <3>2. Dirty(g) => users'[args[g].db] = users[args[g].db]
      BY <2>3, <2>4, DirtyOccupies
    <3>3. txn' = txn /\ at' = at
      BY <2>2
    <3>4. \A k \in Handlers : Dirty(k)' => Dirty(k) /\ args'[k] = args[k]
      BY <3>3 DEF Dirty
    <3> QED
      BY <3>1, <3>2, <3>3, <3>4, LockFrame, NoNewLocks
  <2>6. ASSUME NEW j \in Instances PROVE AbsentOK(j)'
    BY <2>2, <2>3 DEF AbsentOK, ServerTypeOK
  <2> QED
    BY <2>5, <2>6
<1>4. CASE s \in {"begin", "add role", "create user", "drop user"}
  <2>1. PICK t \in {"clean", "created", "owner", "dropped"} : Work(h, t)
    BY <1>a, <1>4 DEF Effect
  <2>2. txn' = [txn EXCEPT ![h] = t] /\ UNCHANGED <<databaseVars, at>>
    BY <2>1 DEF Work, SetTxn
  <2>3. UNCHANGED <<mode, users, guest, at>>
    BY <2>2 DEF databaseVars
  <2>4. args'[h] = args[h] /\ txn'[h] = t /\ txn'[h] # "none"
    BY <2>2 DEF ServerTypeOK
  <2>5. \A k \in Handlers \ {h} : txn'[k] = txn[k]
    BY <2>2 DEF ServerTypeOK
  <2>6. Dirty(h)' => ~LockedByOther(h)
    <3>1. CASE s = "begin"
      BY <1>a, <2>2, <2>4, <3>1 DEF Effect, Work, SetTxn, Dirty, ServerTypeOK
    <3>2. CASE s = "add role"
      BY <1>a, <3>2 DEF Accepts, LockOK, Dirty
    <3>3. CASE s \in {"create user", "drop user"}
      BY <1>a, <3>3 DEF Waits
    <3> QED
      BY <1>4, <3>1, <3>2, <3>3
  <2>7. ASSUME NEW g \in Handlers, g # h PROVE LockOK(g)'
    <3>1. txn'[g] = txn[g] /\ at'[g] = at[g] /\ (txn[g] # "none" => args'[g] = args[g])
      BY <2>3, <2>5, <2>7
    <3>2. Dirty(g) => ~LockedByOther(g)'
      <4>1. SUFFICES ASSUME Dirty(g), NEW k \in Handlers \ {g}, Dirty(k)'
                     PROVE  args'[k].db # args'[g].db \/ args'[k].user # args'[g].user
        BY DEF LockedByOther
      <4>2. args'[g] = args[g] /\ args'[k] = args[k]
        BY <3>1, <4>1 DEF Dirty
      <4>3. CASE k = h
        BY <2>6, <2>7, <4>1, <4>2, <4>3 DEF LockedByOther
      <4>4. CASE k # h
        <5>1. Dirty(k)
          BY <2>5, <4>1, <4>4 DEF Dirty
        <5>2. ~LockedByOther(g)
          BY <4>1 DEF LockOK
        <5> QED
          BY <4>1, <4>2, <5>1, <5>2 DEF LockedByOther
      <4> QED
        BY <4>3, <4>4
    <3>3. \A j \in Instances : Occupies(g, j) => mode'[j] # "absent"
      BY <2>3 DEF LockOK
    <3> QED
      BY <2>3, <3>1, <3>2, <3>3, LockFrame
  <2>8. LockOK(h)'
    <3>1. \A j \in Instances : Occupies(h, j)' => mode'[j] # "absent"
      <4>1. CASE s = "begin"
        BY <1>a, <2>2, <2>3, <2>4, <4>1
           DEF Effect, Work, SetTxn, Occupies, Dirty, ServerTypeOK
      <4>2. CASE s # "begin"
        <5>1. Occupies(h, i)
          BY <1>a, <1>4, <4>2 DEF Accepts, Occupies, Dirty
        <5> QED
          BY <2>3, <2>4, <5>1 DEF Occupies, LockOK
      <4> QED
        BY <4>1, <4>2
    <3>2. Dirty(h)' => ~LockedByOther(h)'
      BY <2>4, <2>5, <2>6 DEF LockedByOther, Dirty
    <3>3. /\ t \in {"created", "owner"} => users[i][b] = NoUser
          /\ t = "dropped" => users[i][b] # NoUser
      BY <1>a, <1>4, <2>4 DEF Accepts, LockOK, Effect, Work, SetTxn, ServerTypeOK
    <3> QED
      BY <2>3, <2>4, <3>1, <3>2, <3>3 DEF LockOK
  <2>9. ASSUME NEW j \in Instances PROVE AbsentOK(j)'
    BY <2>3 DEF AbsentOK
  <2> QED
    BY <2>7, <2>8, <2>9
<1>5. CASE s \in {"use", "use master"}
  <2>1. PICK d \in {"database", "master"} : MoveTo(h, d) /\ (d = "database" => s = "use")
    BY <1>a, <1>5 DEF Effect
  <2>2. at' = [at EXCEPT ![h] = d] /\ UNCHANGED <<mode, users, guest, txn>>
    BY <2>1 DEF MoveTo, databaseVars
  <2>3. s = "use" => mode[i] # "absent"
    BY <1>a DEF Accepts
  <2>4. \A k \in Handlers : Dirty(k)' => Dirty(k) /\ args'[k] = args[k]
    BY <2>2 DEF Dirty
  <2>5. ASSUME NEW g \in Handlers, g # h PROVE LockOK(g)'
    <3>1. at'[g] = at[g]
      BY <2>2, <2>5 DEF ServerTypeOK
    <3>2. \A j \in Instances : Occupies(g, j) => mode'[j] # "absent"
      BY <2>2 DEF LockOK
    <3> QED
      BY <2>2, <2>4, <3>1, <3>2, LockFrame, NoNewLocks
  <2>6. LockOK(h)'
    <3>1. at'[h] = d /\ txn[h] # "none" /\ args'[h] = args[h]
      BY <1>a, <1>5, <2>2 DEF Accepts, ServerTypeOK
    <3>2. \A j \in Instances : Occupies(h, j)' => mode'[j] # "absent"
      BY <2>1, <2>2, <2>3, <3>1 DEF Occupies, LockOK, Dirty
    <3>3. Dirty(h) => ~LockedByOther(h)'
      BY <2>4, <3>1, NoNewLocks
    <3> QED
      BY <2>2, <3>1, <3>2, <3>3 DEF LockOK, Dirty
  <2>7. ASSUME NEW j \in Instances PROVE AbsentOK(j)'
    BY <2>2 DEF AbsentOK
  <2> QED
    BY <2>5, <2>6, <2>7
<1>6. CASE s = "commit"
  <2>1. CommitWork(h)
    BY <1>a, <1>6 DEF Effect
  <2>2. UNCHANGED <<mode, guest>>
    BY <2>1 DEF CommitWork
  <2>3. ASSUME NEW j \in Instances, NEW c \in Bindings, ~(Dirty(h) /\ j = i /\ c = b)
        PROVE  users'[j][c] = users[j][c]
    <3>1. CASE ~Dirty(h)
      BY <2>1, <3>1 DEF CommitWork
    <3>2. CASE Dirty(h)
      <4>1. users' = [users EXCEPT ![i] = [users[i] EXCEPT ![b] = CommittedUser(h)]]
        BY <2>1, <3>2 DEF CommitWork
      <4> QED
        BY <2>3, <3>2, <4>1 DEF ServerTypeOK
    <3> QED
      BY <3>1, <3>2
  <2>4. \A k \in Handlers : txn'[k] # "none" => txn'[k] = txn[k] /\ at'[k] = at[k] /\ k # h
    BY <2>1 DEF CommitWork, SetTxn, ServerTypeOK
  <2>5. \A k \in Handlers : Dirty(k)' => Dirty(k) /\ args'[k] = args[k]
    BY <2>4 DEF Dirty
  <2>6. ASSUME NEW g \in Handlers PROVE LockOK(g)'
    <3>1. CASE txn'[g] = "none"
      BY <3>1, LockFrame
    <3>2. CASE txn'[g] # "none"
      <4>1. Dirty(g) => ~(Dirty(h) /\ args[g].db = i /\ args[g].user = b)
        BY <2>4, <3>2 DEF LockOK, LockedByOther
      <4>2. Dirty(g) => users'[args[g].db][args[g].user] = users[args[g].db][args[g].user]
        BY <2>3, <4>1 DEF ArgsOK, Dirty
      <4>3. \A j \in Instances : Occupies(g, j) => mode'[j] # "absent"
        BY <2>2 DEF LockOK
      <4> QED
        BY <2>4, <2>5, <3>2, <4>2, <4>3, LockFrame, NoNewLocks
    <3> QED
      BY <3>1, <3>2
  <2>7. ASSUME NEW j \in Instances PROVE AbsentOK(j)'
    BY <2>2, <2>3, DirtyOccupies DEF AbsentOK, LockOK
  <2> QED
    BY <2>6, <2>7
<1>7. CASE s = "rollback"
  <2>1. txn' = [txn EXCEPT ![h] = "none"] /\ at' = [at EXCEPT ![h] = "master"]
        /\ UNCHANGED <<mode, users, guest>>
    BY <1>a, <1>7 DEF Effect, EndSession, SetTxn, databaseVars
  <2>2. \A k \in Handlers : txn'[k] # "none" => txn'[k] = txn[k] /\ at'[k] = at[k]
    BY <2>1 DEF ServerTypeOK
  <2>3. ASSUME NEW g \in Handlers PROVE LockOK(g)'
    BY <1>b, <2>1, <2>2 DEF LockOK
  <2>4. ASSUME NEW j \in Instances PROVE AbsentOK(j)'
    BY <2>1 DEF AbsentOK
  <2> QED
    BY <2>3, <2>4
<1> QED
  BY <1>a, <1>1, <1>2, <1>3, <1>4, <1>5, <1>6, <1>7 DEF Effect

-----------------------------------------------------------------------------
(* The statement that is outstanding, by operation and line.               *)

LEMMA StatementCases ==
    ASSUME NEW h \in Handlers, TypeOK, RequestOK(h), pc[h] = "exec"
    PROVE  \/ /\ op[h] = "provision"
              /\ line[h] = 1 /\ Statement(h) = "create database" /\ LastLine(h)
           \/ /\ op[h] = "deprovision"
              /\ \/ line[h] = 1 /\ Statement(h) = "set single_user" /\ ~LastLine(h)
                 \/ line[h] = 2 /\ Statement(h) = "drop database" /\ LastLine(h)
           \/ /\ op[h] = "bind"
              /\ \/ line[h] = 1 /\ Statement(h) = "use" /\ ~LastLine(h)
                 \/ line[h] = 2 /\ Statement(h) = "create user" /\ ~LastLine(h)
                 \/ line[h] = 3 /\ Statement(h) = "add role" /\ ~LastLine(h)
                 \/ line[h] = 4 /\ Statement(h) = "use master" /\ LastLine(h)
           \/ /\ op[h] = "unbind"
              /\ \/ line[h] = 1 /\ Statement(h) = "use" /\ ~LastLine(h)
                 \/ line[h] = 2 /\ Statement(h) = "drop user" /\ ~LastLine(h)
                 \/ line[h] = 3 /\ Statement(h) = "use master" /\ LastLine(h)
<1>1. op[h] \in Ops /\ line[h] \in 1..4 /\ line[h] <= Len(Template(op[h]))
  BY DEF TypeOK, RequestOK
<1>2. CASE op[h] = "provision"
  <2>1. /\ Len(CreateDatabaseTemplate) = 1
        /\ CreateDatabaseTemplate[1] = "create database"
    BY DEF CreateDatabaseTemplate
  <2>2. Template(op[h]) = CreateDatabaseTemplate
    BY <1>2 DEF Template
  <2>3. Len(Template(op[h])) = 1
    BY <2>1, <2>2, Zenon
  <2>4. line[h] = 1
    BY <1>1, <2>3
  <2>5. Statement(h) = CreateDatabaseTemplate[line[h]]
    BY <2>2 DEF Statement
  <2>6. LastLine(h) <=> line[h] = 1
    BY <2>3, Zenon DEF LastLine
  <2> QED
    BY <1>2, <2>1, <2>4, <2>5, <2>6, Zenon
<1>3. CASE op[h] = "deprovision"
  <2>1. /\ Len(DeleteDatabaseTemplate) = 2
        /\ DeleteDatabaseTemplate[1] = "set single_user"
        /\ DeleteDatabaseTemplate[2] = "drop database"
    BY DEF DeleteDatabaseTemplate
  <2>2. Template(op[h]) = DeleteDatabaseTemplate
    BY <1>3 DEF Template
  <2>3. Len(Template(op[h])) = 2
    BY <2>1, <2>2, Zenon
  <2>4. line[h] = 1 \/ line[h] = 2
    BY <1>1, <2>3
  <2>5. Statement(h) = DeleteDatabaseTemplate[line[h]]
    BY <2>2 DEF Statement
  <2>6. LastLine(h) <=> line[h] = 2
    BY <2>3, Zenon DEF LastLine
  <2> QED
    BY <1>3, <2>1, <2>4, <2>5, <2>6, 1 # 2, Zenon
<1>4. CASE op[h] = "bind"
  <2>1. /\ Len(CreateUserTemplate) = 4
        /\ CreateUserTemplate[1] = "use"
        /\ CreateUserTemplate[2] = "create user"
        /\ CreateUserTemplate[3] = "add role"
        /\ CreateUserTemplate[4] = "use master"
    BY DEF CreateUserTemplate
  <2>2. Template(op[h]) = CreateUserTemplate
    BY <1>4 DEF Template
  <2>3. Len(Template(op[h])) = 4
    BY <2>1, <2>2, Zenon
  <2>4. line[h] = 1 \/ line[h] = 2 \/ line[h] = 3 \/ line[h] = 4
    BY <1>1, <2>3
  <2>5. Statement(h) = CreateUserTemplate[line[h]]
    BY <2>2 DEF Statement
  <2>6. LastLine(h) <=> line[h] = 4
    BY <2>3, Zenon DEF LastLine
  <2> QED
    BY <1>4, <2>1, <2>4, <2>5, <2>6, 1 # 4, 2 # 4, 3 # 4, Zenon
<1>5. CASE op[h] = "unbind"
  <2>1. /\ Len(DeleteUserTemplate) = 3
        /\ DeleteUserTemplate[1] = "use"
        /\ DeleteUserTemplate[2] = "drop user"
        /\ DeleteUserTemplate[3] = "use master"
    BY DEF DeleteUserTemplate
  <2>2. Template(op[h]) = DeleteUserTemplate
    BY <1>5 DEF Template
  <2>3. Len(Template(op[h])) = 3
    BY <2>1, <2>2, Zenon
  <2>4. line[h] = 1 \/ line[h] = 2 \/ line[h] = 3
    BY <1>1, <2>3
  <2>5. Statement(h) = DeleteUserTemplate[line[h]]
    BY <2>2 DEF Statement
  <2>6. LastLine(h) <=> line[h] = 3
    BY <2>3, Zenon DEF LastLine
  <2> QED
    BY <1>5, <2>1, <2>4, <2>5, <2>6, 1 # 3, 2 # 3, Zenon
<1> QED
  BY <1>1, <1>2, <1>3, <1>4, <1>5 DEF Ops

-----------------------------------------------------------------------------
IInv == TypeOK /\ Consistent

LEMMA IInvArgs ==
    ASSUME IInv
    PROVE  ServerTypeOK /\ ArgsOK /\ ServerConsistent
<1>1. ASSUME NEW g \in Handlers, txn[g] # "none"
      PROVE  args[g].db \in Instances /\ args[g].user \in Bindings
  BY <1>1 DEF IInv, Consistent, RequestOK, SessionOK
<1> QED
  BY <1>1 DEF IInv, TypeOK, Consistent, ArgsOK, ServerConsistent

(* A handler that takes no part in a step keeps its part of the invariant. *)
LEMMA BystanderOK ==
    ASSUME NEW g \in Handlers, RequestOK(g), SessionOK(g),
           op'[g] = op[g], pc'[g] = pc[g], line'[g] = line[g], args'[g] = args[g],
           pc[g] = "idle" => g \notin orphan',
           \/ txn'[g] = txn[g] /\ at'[g] = at[g]
           \/ txn'[g] = "none" /\ at'[g] = "master"
    PROVE  RequestOK(g)' /\ SessionOK(g)'
<1>1. RequestOK(g)'
  BY DEF RequestOK
<1>2. SessionOK(g)'
  BY DEF SessionOK
<1> QED
  BY <1>1, <1>2

(* A statement of a request keeps the server's part of the invariant.      *)
LEMMA StatementKeepsServer ==
    ASSUME NEW h \in Handlers, IInv, pc[h] \in Execs,
           Succeeds(Statement(h), h), ArgsKept
    PROVE  ServerConsistent' /\ CommittedUsersAreOwners'
<1>1. ServerTypeOK /\ ArgsOK /\ ServerConsistent
  BY IInvArgs
<1>2. RequestOK(h) /\ SessionOK(h) /\ TypeOK /\ CommittedUsersAreOwners
  BY DEF IInv, Consistent
<1>3. args[h].db \in Instances
  BY <1>2 DEF RequestOK, Execs
<1>4. pc[h] # "exec" => Statement(h) = pc[h]
  BY DEF Statement
<1>5. Statement(h) \in {"create database", "set single_user", "drop database"} =>
         pc[h] = "exec" /\ op[h] \notin WithTx /\ txn[h] = "none"
  BY <1>2, <1>4, StatementCases DEF Execs, SessionOK, WithTx
<1>6. Statement(h) = "begin" => at[h] = "master"
  BY <1>2, <1>4, StatementCases DEF SessionOK
<1>7. ServerConsistent'
  BY <1>1, <1>3, <1>5, <1>6, EffectConsistent
<1>8. CommittedUsersAreOwners'
  <2>1. CASE Statement(h) = "commit"
    <3>1. pc[h] = "commit"
      BY <1>2, <1>4, <2>1, StatementCases
    <3>2. txn[h] = Done(op[h]) /\ op[h] \in WithTx /\ CommitWork(h)
      BY <1>2, <2>1, <3>1 DEF Succeeds, Accepts, Effect, SessionOK
    <3>3. \/ CommittedUser(h) = NoUser
          \/ CommittedUser(h) = [pwd |-> args[h].pwd, owner |-> TRUE]
      BY <3>2 DEF Done, CommittedUser
    <3>4. op[h] = "bind" => args[h].pwd \in Passwords
      BY <1>2, <3>1 DEF RequestOK
    <3>5. CommittedUser(h) # NoUser =>
             CommittedUser(h).owner /\ CommittedUser(h).pwd \in Passwords
      BY <3>2, <3>3, <3>4 DEF Done, CommittedUser, WithTx
    <3>6. users' = [users EXCEPT ![args[h].db] =
                       [users[args[h].db] EXCEPT ![args[h].user] = CommittedUser(h)]]
      BY <3>2 DEF CommitWork, Dirty, Done
    <3> QED
      BY <1>1, <1>2, <3>5, <3>6 DEF CommittedUsersAreOwners, ServerTypeOK
  <2>2. CASE Statement(h) = "drop database"
    <3>1. users' = [users EXCEPT ![args[h].db] = [c \in Bindings |-> NoUser]]
      BY <2>2 DEF Succeeds, Effect, DropDatabase
    <3> QED
      BY <1>1, <1>2, <3>1 DEF CommittedUsersAreOwners, ServerTypeOK
  <2>3. CASE Statement(h) \notin {"commit", "drop database"}
    <3>1. users' = users
      BY <2>3 DEF Succeeds, Effect, SetSingleUser, Work, MoveTo, EndSession, databaseVars
    <3> QED
      BY <1>2, <3>1 DEF CommittedUsersAreOwners
  <2> QED
    BY <2>1, <2>2, <2>3
<1> QED
  BY <1>7, <1>8

-----------------------------------------------------------------------------
(* The actions.  What the broker's side of the state is typed as.          *)

BrokerTypeOK ==
    /\ args \in [Handlers -> Args]
    /\ op \in [Handlers -> Ops \cup {"none"}]
    /\ pc \in [Handlers -> {"idle", "panic", "flushed"} \cup Calls \cup Returned]
    /\ line \in [Handlers -> 1..4]
    /\ orphan \subseteq Handlers
    /\ faults \in 0..MaxFaults
    /\ proc \in [Brokers -> {"down", "starting", "serving"}]

(* A step of h that leaves the server alone.                               *)
LEMMA ServerUntouched ==
    ASSUME NEW h \in Handlers, IInv, BrokerTypeOK', UNCHANGED serverVars,
           \A g \in Handlers \ {h} :
              /\ op'[g] = op[g] /\ pc'[g] = pc[g]
              /\ line'[g] = line[g] /\ args'[g] = args[g]
              /\ pc[g] = "idle" => g \notin orphan',
           args'[h] = args[h] \/ txn[h] = "none",
           RequestOK(h)', SessionOK(h)'
    PROVE  IInv'
<1>1. UNCHANGED <<mode, users, guest, txn, at>>
  BY DEF serverVars
<1>2. TypeOK'
  BY <1>1 DEF IInv, TypeOK, ServerTypeOK, BrokerTypeOK
<1>3. \A g \in Handlers : RequestOK(g)' /\ SessionOK(g)'
  <2>1. SUFFICES ASSUME NEW g \in Handlers, g # h PROVE RequestOK(g)' /\ SessionOK(g)'
    OBVIOUS
  <2> QED
    BY <1>1, <2>1, BystanderOK DEF IInv, Consistent
<1>4. \A g \in Handlers : LockOK(g)'
  <2>1. SUFFICES ASSUME NEW g \in Handlers PROVE LockOK(g)'
    OBVIOUS
  <2>2. LockOK(g)
    BY DEF IInv, Consistent
  <2>3. \A k \in Handlers : Dirty(k) => args'[k] = args[k]
    BY DEF Dirty
  <2>4. Dirty(g) => ~LockedByOther(g)'
    BY <1>1, <2>2, <2>3, NoNewLocks DEF Dirty
  <2>5. txn[g] # "none" => args'[g] = args[g]
    OBVIOUS
  <2> QED
    BY <1>1, <2>2, <2>4, <2>5, LockFrame DEF LockOK
<1>5. \A i \in Instances : AbsentOK(i)'
  BY <1>1 DEF AbsentOK, IInv, Consistent
<1>6. CommittedUsersAreOwners'
  BY <1>1 DEF CommittedUsersAreOwners, IInv, Consistent
<1> QED
  BY <1>2, <1>3, <1>4, <1>5, <1>6 DEF IInv, Consistent

(* A step that only moves h to another place in its operation.             *)
LEMMA Moves ==
    ASSUME NEW h \in Handlers, IInv, NEW q, Goto(h, q), pc[h] # "idle",
           UNCHANGED <<serverVars, op, line, args, orphan, proc>>,
           faults' \in 0..MaxFaults,
           q \in {"panic", "flushed"} \cup Calls \cup Returned,
           q \in {"begin", "commit", "rollback", "IsUserCreated"} => op[h] \in WithTx,
           txn[h] # "none" => q \in {"rollback", "panic", "flushed"},
           q \in {"IsDatabaseCreated", "IsUserCreated", "begin"} => line[h] = 1
    PROVE  IInv'
<1>1. BrokerTypeOK'
  BY DEF IInv, TypeOK, ServerTypeOK, BrokerTypeOK, Goto
<1>2. /\ pc'[h] = q
      /\ \A g \in Handlers \ {h} : pc'[g] = pc[g]
  BY DEF IInv, TypeOK, Goto
<1>3. q # "idle"
  BY DEF Calls, Queries, Execs, Returned, Errors
<1>4. RequestOK(h)'
  BY <1>2, <1>3 DEF IInv, Consistent, RequestOK
<1>5. SessionOK(h)'
  BY <1>2 DEF IInv, Consistent, SessionOK, serverVars
<1>6. \A g \in Handlers : pc[g] = "idle" => g \notin orphan
  BY DEF IInv, Consistent, RequestOK
<1> QED
  BY <1>1, <1>2, <1>4, <1>5, <1>6, ServerUntouched

(* A step of h that executes its outstanding statement.                    *)
LEMMA Executes ==
    ASSUME NEW h \in Handlers, IInv, BrokerTypeOK', pc[h] \in Execs,
           Succeeds(Statement(h), h),
           \A g \in Handlers \ {h} :
              /\ op'[g] = op[g] /\ pc'[g] = pc[g]
              /\ line'[g] = line[g] /\ args'[g] = args[g]
              /\ pc[g] = "idle" => g \notin orphan',
           args'[h] = args[h] \/ txn'[h] = "none",
           RequestOK(h)', SessionOK(h)'
    PROVE  IInv'
<1>1. ArgsKept
  BY DEF ArgsKept
<1>2. ServerConsistent' /\ CommittedUsersAreOwners'
  BY <1>1, StatementKeepsServer
<1>3. ServerTypeOK /\ Effect(Statement(h), h)
  BY IInvArgs DEF Succeeds
<1>4. TypeOK'
  BY <1>3, EffectType DEF TypeOK, ServerTypeOK, BrokerTypeOK
<1>5. \A g \in Handlers : RequestOK(g)' /\ SessionOK(g)'
  <2>1. SUFFICES ASSUME NEW g \in Handlers, g # h PROVE RequestOK(g)' /\ SessionOK(g)'
    OBVIOUS
  <2>2. RequestOK(g) /\ SessionOK(g)
    BY DEF IInv, Consistent
  <2> QED
    BY <1>3, <2>1, <2>2, EffectOnOthers, BystanderOK
<1> QED
  BY <1>2, <1>4, <1>5 DEF IInv, Consistent, ServerConsistent

-----------------------------------------------------------------------------
(* The invariant holds initially.                                          *)
LEMMA InvInit == Init => IInv
<1> SUFFICES ASSUME Init PROVE IInv
  OBVIOUS
<1>1. TypeOK
  BY MaxFaultsAssumption
     DEF Init, ServerInit, TypeOK, ServerTypeOK, NoArgs, Args, NoUser, User
<1>2. \A h \in Handlers : RequestOK(h) /\ SessionOK(h) /\ LockOK(h)
  BY NoneAssumption
     DEF Init, ServerInit, RequestOK, SessionOK, LockOK, Occupies, Dirty, Execs
<1>3. \A i \in Instances : AbsentOK(i)
  BY DEF Init, ServerInit, AbsentOK
<1>4. CommittedUsersAreOwners
  BY DEF Init, ServerInit, CommittedUsersAreOwners
<1> QED
  BY <1>1, <1>2, <1>3, <1>4 DEF IInv, Consistent

(* The steps of the operations, up to the first statement.                 *)
LEMMA ReceiveInv ==
    ASSUME IInv, NEW h \in Handlers, NEW o \in Ops, NEW i \in Instances,
           Receive(h, o, i)
    PROVE  IInv'
<1>1. PICK b \in IF o \in WithTx THEN Bindings ELSE {None},
           p \in IF o = "bind" THEN {q \in Passwords : Fresh(q)} ELSE {None} :
              args' = [args EXCEPT ![h] = [db |-> i, user |-> b, pwd |-> p]]
  BY DEF Receive
<1>2. /\ op' = [op EXCEPT ![h] = o]
      /\ pc' = [pc EXCEPT ![h] = "IsDatabaseCreated"]
      /\ UNCHANGED <<serverVars, line, orphan, faults, proc>>
      /\ pc[h] = "idle"
  BY DEF Receive, Goto, Busy
<1>3. RequestOK(h) /\ SessionOK(h) /\ TypeOK
  BY DEF IInv, Consistent
<1>4. b \in Bindings \cup {None} /\ p \in Passwords \cup {None}
  OBVIOUS
<1>5. args'[h] = [db |-> i, user |-> b, pwd |-> p]
  BY <1>1, <1>3 DEF TypeOK, ServerTypeOK
<1>6. BrokerTypeOK'
  BY <1>1, <1>2, <1>3, <1>4
     DEF TypeOK, ServerTypeOK, BrokerTypeOK, Args, Calls, Queries
<1>7. op'[h] = o /\ pc'[h] = "IsDatabaseCreated" /\ line'[h] = 1 /\ txn[h] = "none"
  BY <1>2, <1>3 DEF TypeOK, RequestOK
<1>8. Len(Template(o)) >= 1
  BY DEF Ops, Template, CreateDatabaseTemplate, DeleteDatabaseTemplate,
         CreateUserTemplate, DeleteUserTemplate
<1>9. RequestOK(h)'
  BY <1>5, <1>7, <1>8, NoneAssumption DEF RequestOK, Ops, WithTx
<1>10. SessionOK(h)'
  BY <1>2, <1>3, <1>7 DEF SessionOK, serverVars
<1>11. \A g \in Handlers \ {h} :
          /\ op'[g] = op[g] /\ pc'[g] = pc[g]
          /\ line'[g] = line[g] /\ args'[g] = args[g]
          /\ pc[g] = "idle" => g \notin orphan'
  BY <1>1, <1>2 DEF IInv, Consistent, TypeOK, ServerTypeOK, RequestOK
<1> QED
  BY <1>2, <1>6, <1>7, <1>9, <1>10, <1>11, ServerUntouched

LEMMA OperationInv ==
    ASSUME IInv, NEW h \in Handlers,
           Provision(h) \/ Deprovision(h) \/ Bind(h) \/ Unbind(h)
    PROVE  IInv'
<1>1. PICK q \in {"exec", "begin", "IsUserCreated"} \cup Errors :
         /\ Goto(h, q)
         /\ q = "IsUserCreated" => op[h] \in WithTx
         /\ q = "begin" => op[h] \in WithTx
  BY DEF Provision, Deprovision, Bind, Unbind, InstanceCheck, WithTx, Errors
<1>2. /\ pc[h] \in Queries
      /\ UNCHANGED <<serverVars, op, line, args, orphan, proc>>
      /\ faults' = faults
  BY DEF Provision, Deprovision, Bind, Unbind, InstanceCheck, Answered, Queries
<1>3. txn[h] = "none" /\ line[h] = 1 /\ pc[h] # "idle" /\ faults \in 0..MaxFaults
  BY <1>2 DEF IInv, TypeOK, Consistent, SessionOK, Queries
<1>4. q \in Calls \cup Returned
  BY DEF Calls, Queries, Execs, Returned
<1>5. q \notin {"commit", "rollback", "IsDatabaseCreated"}
  BY DEF Errors
<1> QED
  BY <1>1, <1>2, <1>3, <1>4, <1>5, Moves

LEMMA FailureInv ==
    ASSUME IInv, NEW h \in Handlers,
           QueryRefused(h) \/ StatementRefused(h) \/ CallFails(h) \/ ImplicitReply(h)
    PROVE  IInv'
<1>1. PICK q \in {"rollback", "panic", "flushed"} :
         Goto(h, q) /\ (q = "rollback" => op[h] \in WithTx)
  BY DEF QueryRefused, StatementRefused, CallFails, ImplicitReply, Fail
<1>2. /\ pc[h] # "idle"
      /\ UNCHANGED <<serverVars, op, line, args, orphan, proc>>
      /\ faults' = faults \/ (faults < MaxFaults /\ faults' = faults + 1)
  BY DEF QueryRefused, StatementRefused, CallFails, ImplicitReply, Fault, Calls,
         Queries, Execs
<1>3. faults' \in 0..MaxFaults
  BY <1>2, MaxFaultsAssumption DEF IInv, TypeOK
<1>4. q \in {"panic", "flushed"} \cup Calls \cup Returned
  BY DEF Calls, Execs
<1> QED
  BY <1>1, <1>2, <1>3, <1>4, Moves

(* The steps that execute a statement: how far the session gets.           *)
LEMMA BeginInv ==
    ASSUME IInv, NEW h \in Handlers, Begin(h)
    PROVE  IInv'
<1>1. /\ pc[h] = "begin" /\ Statement(h) = "begin" /\ pc' = [pc EXCEPT ![h] = "exec"]
      /\ Succeeds("begin", h)
      /\ UNCHANGED <<args, op, line, orphan, faults, proc>>
  BY DEF Begin, Goto, Statement
<1>2. RequestOK(h) /\ SessionOK(h) /\ TypeOK
  BY DEF IInv, Consistent
<1>3. txn'[h] = "clean" /\ at'[h] = "master"
  BY <1>1, <1>2, EffectOnSelf DEF Succeeds, SessionAfter, SessionOK, TypeOK
<1>4. pc'[h] = "exec" /\ line[h] = 1 /\ op[h] \in WithTx
  BY <1>1, <1>2 DEF TypeOK, SessionOK, RequestOK
<1>5. RequestOK(h)'
  BY <1>1, <1>2, <1>4 DEF RequestOK
<1>6. SessionOK(h)'
  BY <1>1, <1>3, <1>4 DEF SessionOK, Progress
<1>7. BrokerTypeOK'
  BY <1>1, <1>2 DEF TypeOK, ServerTypeOK, BrokerTypeOK, Calls, Execs
<1> QED
  BY <1>1, <1>2, <1>5, <1>6, <1>7, Executes DEF TypeOK, Execs, IInv, Consistent, RequestOK

LEMMA LineNumbers == 2 + 1 = 3 /\ 3 + 1 = 4 /\ 2 # 1 /\ 3 # 1 /\ 4 # 1
OBVIOUS

(* A line of a template takes the session from one Progress to the next.   *)
LEMMA LineProgress ==
    ASSUME IInv, NEW h \in Handlers, pc[h] = "exec", Succeeds(Statement(h), h)
    PROVE  /\ op[h] \notin WithTx => txn'[h] = "none" /\ at'[h] = "master"
           /\ op[h] \in WithTx /\ LastLine(h) =>
                 txn'[h] = Done(op[h]) /\ at'[h] = "master"
           /\ op[h] \in WithTx /\ ~LastLine(h) =>
                 /\ txn'[h] = Progress(op[h], line[h] + 1)
                 /\ txn'[h] \in {"created", "owner"} => op[h] = "bind"
                 /\ txn'[h] = "dropped" => op[h] = "unbind"
                 /\ at'[h] = "database"
<1>1. RequestOK(h) /\ SessionOK(h) /\ TypeOK
  BY DEF IInv, Consistent
<1>2. SessionAfter(Statement(h), h)
  BY <1>1, EffectOnSelf DEF Succeeds, TypeOK
<1>3. txn[h] # "none" =>
         /\ op[h] \in WithTx
         /\ txn[h] = Progress(op[h], line[h])
         /\ at[h] = IF line[h] = 1 THEN "master" ELSE "database"
  BY <1>1 DEF SessionOK
<1>4. txn[h] = "none" => at[h] = "master"
  BY <1>1 DEF SessionOK
<1>5. Statement(h) \in {"use", "create user", "add role", "drop user", "use master"} =>
         txn[h] # "none"
  BY DEF Succeeds, Accepts
<1>6. CASE op[h] \notin WithTx
  <2>1. Statement(h) \in {"create database", "set single_user", "drop database"}
    BY <1>1, <1>6, StatementCases DEF WithTx
  <2>2. txn'[h] = txn[h] /\ at'[h] = at[h]
    BY <1>2, <2>1 DEF SessionAfter
  <2> QED
    BY <1>3, <1>4, <1>6, <2>2
<1>7. CASE op[h] = "bind"
  <2>1. CASE line[h] = 1 /\ Statement(h) = "use" /\ ~LastLine(h)
    <3>1. Progress("bind", 1) = "clean" /\ Progress("bind", 2) = "clean"
      BY DEF Progress
    <3>2. line[h] + 1 = 2
      BY <2>1
    <3>3. txn[h] # "none" /\ SessionAfter("use", h)
      BY <1>2, <1>5, <2>1
    <3>4. txn[h] = "clean"
      BY <1>3, <1>7, <2>1, <3>1, <3>3
    <3>5. at[h] = "master"
      BY <1>3, <2>1, <3>2, <3>3
    <3> QED
      BY <1>7, <2>1, <3>1, <3>2, <3>3, <3>4, <3>5 DEF SessionAfter, WithTx
  <2>2. CASE line[h] = 2 /\ Statement(h) = "create user" /\ ~LastLine(h)
    <3>1. Progress("bind", 2) = "clean" /\ Progress("bind", 3) = "created"
      BY DEF Progress
    <3>2. line[h] + 1 = 3 /\ line[h] # 1
      BY <2>2, LineNumbers, Zenon
    <3>3. txn[h] # "none" /\ SessionAfter("create user", h)
      BY <1>2, <1>5, <2>2
    <3>4. txn[h] = "clean"
      BY <1>3, <1>7, <2>2, <3>1, <3>3
    <3>5. at[h] = "database"
      BY <1>3, <2>2, <3>2, <3>3
    <3> QED
      BY <1>7, <2>2, <3>1, <3>2, <3>3, <3>4, <3>5 DEF SessionAfter, WithTx
  <2>3. CASE line[h] = 3 /\ Statement(h) = "add role" /\ ~LastLine(h)
    <3>1. Progress("bind", 3) = "created" /\ Progress("bind", 4) = "owner"
      BY DEF Progress
    <3>2. line[h] + 1 = 4 /\ line[h] # 1
      BY <2>3, LineNumbers, Zenon
    <3>3. txn[h] # "none" /\ SessionAfter("add role", h)
      BY <1>2, <1>5, <2>3
    <3>4. txn[h] = "created"
      BY <1>3, <1>7, <2>3, <3>1, <3>3
    <3>5. at[h] = "database"
      BY <1>3, <2>3, <3>2, <3>3
    <3> QED
      BY <1>7, <2>3, <3>1, <3>2, <3>3, <3>4, <3>5 DEF SessionAfter, WithTx
  <2>4. CASE line[h] = 4 /\ Statement(h) = "use master" /\ LastLine(h)
    <3>1. Progress("bind", 4) = "owner" /\ Done("bind") = "owner"
      BY DEF Progress, Done
    <3>2. line[h] # 1
      BY <2>4, LineNumbers, Zenon
    <3>3. txn[h] # "none" /\ SessionAfter("use master", h)
      BY <1>2, <1>5, <2>4
    <3>4. txn[h] = "owner"
      BY <1>3, <1>7, <2>4, <3>1, <3>3
    <3>5. at[h] = "database"
      BY <1>3, <2>4, <3>2, <3>3
    <3> QED
      BY <1>7, <2>4, <3>1, <3>2, <3>3, <3>4, <3>5 DEF SessionAfter, WithTx
  <2> QED
    BY <1>1, <1>7, <2>1, <2>2, <2>3, <2>4, StatementCases
<1>8. CASE op[h] = "unbind"
  <2>1. CASE line[h] = 1 /\ Statement(h) = "use" /\ ~LastLine(h)
    <3>1. Progress("unbind", 1) = "clean" /\ Progress("unbind", 2) = "clean"
      BY DEF Progress
    <3>2. line[h] + 1 = 2
      BY <2>1
    <3>3. txn[h] # "none" /\ SessionAfter("use", h)
      BY <1>2, <1>5, <2>1
    <3>4. txn[h] = "clean"
      BY <1>3, <1>8, <2>1, <3>1, <3>3
    <3>5. at[h] = "master"
      BY <1>3, <2>1, <3>2, <3>3
    <3> QED
      BY <1>8, <2>1, <3>1, <3>2, <3>3, <3>4, <3>5 DEF SessionAfter, WithTx
  <2>2. CASE line[h] = 2 /\ Statement(h) = "drop user" /\ ~LastLine(h)
    <3>1. Progress("unbind", 2) = "clean" /\ Progress("unbind", 3) = "dropped"
      BY DEF Progress
    <3>2. line[h] + 1 = 3 /\ line[h] # 1
      BY <2>2, LineNumbers, Zenon
    <3>3. txn[h] # "none" /\ SessionAfter("drop user", h)
      BY <1>2, <1>5, <2>2
    <3>4. txn[h] = "clean"
      BY <1>3, <1>8, <2>2, <3>1, <3>3
    <3>5. at[h] = "database"
      BY <1>3, <2>2, <3>2, <3>3
    <3> QED
      BY <1>8, <2>2, <3>1, <3>2, <3>3, <3>4, <3>5 DEF SessionAfter, WithTx
  <2>3. CASE line[h] = 3 /\ Statement(h) = "use master" /\ LastLine(h)
    <3>1. Progress("unbind", 3) = "dropped" /\ Done("unbind") = "dropped"
      BY DEF Progress, Done
    <3>2. line[h] # 1
      BY <2>3, LineNumbers, Zenon
    <3>3. txn[h] # "none" /\ SessionAfter("use master", h)
      BY <1>2, <1>5, <2>3
    <3>4. txn[h] = "dropped"
      BY <1>3, <1>8, <2>3, <3>1, <3>3
    <3>5. at[h] = "database"
      BY <1>3, <2>3, <3>2, <3>3
    <3> QED
      BY <1>8, <2>3, <3>1, <3>2, <3>3, <3>4, <3>5 DEF SessionAfter, WithTx
  <2> QED
    BY <1>1, <1>8, <2>1, <2>2, <2>3, StatementCases
<1> QED
  BY <1>6, <1>7, <1>8 DEF WithTx

LEMMA ExecLineInv ==
    ASSUME IInv, NEW h \in Handlers, ExecLine(h)
    PROVE  IInv'
<1>1. /\ pc[h] = "exec"
      /\ Succeeds(Statement(h), h)
      /\ UNCHANGED <<args, op, orphan, faults, proc>>
  BY DEF ExecLine
<1>2. RequestOK(h) /\ SessionOK(h) /\ TypeOK
  BY DEF IInv, Consistent
<1>3. CASE LastLine(h)
  <2>1. /\ line' = line
        /\ pc' = [pc EXCEPT ![h] = IF op[h] \in WithTx THEN "commit" ELSE "nil"]
    BY <1>3 DEF ExecLine, Goto
  <2>2. pc'[h] = IF op[h] \in WithTx THEN "commit" ELSE "nil"
    BY <1>2, <2>1 DEF TypeOK
  <2>3. RequestOK(h)'
    BY <1>1, <1>2, <2>1, <2>2 DEF RequestOK
  <2>4. SessionOK(h)'
    <3>1. CASE op[h] \in WithTx
      <4>1. txn'[h] = Done(op[h]) /\ at'[h] = "master"
        BY <1>1, <1>3, <3>1, LineProgress
      <4> QED
        BY <1>1, <2>2, <3>1, <4>1 DEF SessionOK, Done, WithTx
    <3>2. CASE op[h] \notin WithTx
      <4>1. txn'[h] = "none" /\ at'[h] = "master"
        BY <1>1, <3>2, LineProgress
      <4> QED
        BY <2>2, <3>2, <4>1 DEF SessionOK
    <3> QED
      BY <3>1, <3>2
  <2>5. BrokerTypeOK'
    BY <1>1, <1>2, <2>1 DEF TypeOK, ServerTypeOK, BrokerTypeOK, Calls, Execs, Returned
  <2> QED
    BY <1>1, <1>2, <2>1, <2>3, <2>4, <2>5, Executes
       DEF TypeOK, Execs, IInv, Consistent, RequestOK
<1>4. CASE ~LastLine(h)
  <2>1. line' = [line EXCEPT ![h] = line[h] + 1] /\ pc' = pc
    BY <1>4 DEF ExecLine
  <2>2. line'[h] = line[h] + 1
    BY <1>2, <2>1 DEF TypeOK
  <2>3. line[h] \in 1..3
    <3>1. line[h] = 1 \/ line[h] = 2 \/ line[h] = 3
      BY <1>1, <1>2, <1>4, StatementCases, Zenon
    <3> QED
      BY <3>1
  <2>4. line[h] + 1 \in 1..4 /\ line[h] + 1 # 1
    BY <2>3
  <2>5. line[h] + 1 <= Len(Template(op[h]))
    <3>1. Len(Template(op[h])) \in Nat
      BY <1>1, <1>2, StatementCases
         DEF Template, CreateDatabaseTemplate, DeleteDatabaseTemplate,
             CreateUserTemplate, DeleteUserTemplate
    <3>2. line[h] <= Len(Template(op[h])) /\ line[h] # Len(Template(op[h]))
      BY <1>1, <1>2, <1>4 DEF RequestOK, LastLine
    <3> QED
      BY <2>3, <3>1, <3>2
  <2>6. RequestOK(h)'
    BY <1>1, <1>2, <2>1, <2>2, <2>5 DEF RequestOK
  <2>7. SessionOK(h)'
    <3>1. CASE op[h] \in WithTx
      <4>1. /\ txn'[h] = Progress(op[h], line[h] + 1)
            /\ txn'[h] \in {"created", "owner"} => op[h] = "bind"
            /\ txn'[h] = "dropped" => op[h] = "unbind"
            /\ at'[h] = "database"
        BY <1>1, <1>4, <3>1, LineProgress
      <4>2. txn'[h] # "none"
        BY <2>3, <4>1 DEF Progress
      <4> QED
        BY <1>1, <2>1, <2>2, <2>4, <3>1, <4>1, <4>2 DEF SessionOK
    <3>2. CASE op[h] \notin WithTx
      <4>1. txn'[h] = "none" /\ at'[h] = "master"
        BY <1>1, <3>2, LineProgress
      <4> QED
        BY <1>1, <2>1, <3>2, <4>1 DEF SessionOK
    <3> QED
      BY <3>1, <3>2
  <2>8. BrokerTypeOK'
    BY <1>1, <1>2, <2>1, <2>4 DEF TypeOK, ServerTypeOK, BrokerTypeOK
  <2> QED
    BY <1>1, <1>2, <2>1, <2>6, <2>7, <2>8, Executes
       DEF TypeOK, Execs, IInv, Consistent, RequestOK
<1> QED
  BY <1>3, <1>4

LEMMA CommitRollbackInv ==
    ASSUME IInv, NEW h \in Handlers, Commit(h) \/ Rollback(h)
    PROVE  IInv'
<1>1. /\ pc[h] \in {"commit", "rollback"} /\ Statement(h) = pc[h]
      /\ Succeeds(pc[h], h)
      /\ pc' = [pc EXCEPT ![h] = IF pc[h] = "commit" THEN "nil" ELSE "panic"]
      /\ UNCHANGED <<args, op, line, orphan, faults, proc>>
  BY DEF Commit, Rollback, Goto, Statement
<1>2. RequestOK(h) /\ SessionOK(h) /\ TypeOK
  BY DEF IInv, Consistent
<1>3. txn'[h] = "none" /\ at'[h] = "master"
  BY <1>1, <1>2, EffectOnSelf DEF Succeeds, SessionAfter, TypeOK
<1>4. pc'[h] \in {"nil", "panic"}
  BY <1>1, <1>2 DEF TypeOK
<1>5. RequestOK(h)'
  BY <1>1, <1>2, <1>4 DEF RequestOK
<1>6. SessionOK(h)'
  BY <1>3, <1>4 DEF SessionOK
<1>7. BrokerTypeOK'
  BY <1>1, <1>2 DEF TypeOK, ServerTypeOK, BrokerTypeOK, Returned
<1> QED
  BY <1>1, <1>2, <1>5, <1>6, <1>7, Executes DEF TypeOK, Execs, IInv, Consistent, RequestOK

(* What any executed statement leaves in the session of its request.       *)
LEMMA StatementSession ==
    ASSUME IInv, NEW h \in Handlers, pc[h] \in Execs, Succeeds(Statement(h), h)
    PROVE  /\ txn'[h] = "none" => at'[h] = "master"
           /\ txn'[h] # "none" =>
                 /\ op[h] \in WithTx
                 /\ txn'[h] \in {"created", "owner"} => op[h] = "bind"
                 /\ txn'[h] = "dropped" => op[h] = "unbind"
           /\ pc[h] = "begin" => txn'[h] = "clean" /\ at'[h] = "master"
           /\ pc[h] = "commit" => txn'[h] = "none"
<1>1. RequestOK(h) /\ SessionOK(h) /\ TypeOK
  BY DEF IInv, Consistent
<1>2. SessionAfter(Statement(h), h)
  BY <1>1, EffectOnSelf DEF Succeeds, TypeOK
<1>3. CASE pc[h] = "begin"
  <2>1. txn'[h] = "clean" /\ at'[h] = at[h]
    BY <1>2, <1>3 DEF Statement, SessionAfter
  <2> QED
    BY <1>1, <1>3, <2>1 DEF SessionOK, RequestOK
<1>4. CASE pc[h] \in {"commit", "rollback"}
  <2>1. txn'[h] = "none" /\ at'[h] = "master"
    BY <1>2, <1>4 DEF Statement, SessionAfter
  <2> QED
    BY <1>4, <2>1
<1>5. CASE pc[h] = "exec"
  <2>1. CASE op[h] \notin WithTx
    BY <1>5, <2>1, LineProgress
  <2>2. CASE op[h] \in WithTx /\ LastLine(h)
    BY <1>5, <2>2, LineProgress DEF Done, WithTx
  <2>3. CASE op[h] \in WithTx /\ ~LastLine(h)
    <3>1. txn'[h] # "none"
      BY <1>5, <2>3, LineProgress DEF Progress
    <3> QED
      BY <1>5, <2>3, <3>1, LineProgress
  <2> QED
    BY <2>1, <2>2, <2>3
<1> QED
  BY <1>3, <1>4, <1>5 DEF Execs

LEMMA ReplyLostInv ==
    ASSUME IInv, NEW h \in Handlers, ReplyLost(h)
    PROVE  IInv'
<1>1. /\ pc[h] \in Execs
      /\ Succeeds(Statement(h), h)
      /\ UNCHANGED <<args, op, line, orphan, proc>>
      /\ faults < MaxFaults /\ faults' = faults + 1
  BY DEF ReplyLost, Fault
<1>2. RequestOK(h) /\ SessionOK(h) /\ TypeOK
  BY DEF IInv, Consistent
<1>3. faults' \in 0..MaxFaults
  BY <1>1, <1>2, MaxFaultsAssumption DEF TypeOK
<1>4. CASE Fail(h)
  <2>1. pc' = [pc EXCEPT ![h] = IF pc[h] = "exec" /\ op[h] \in WithTx
                                THEN "rollback" ELSE "panic"]
    BY <1>4 DEF Fail, Goto
  <2>2. pc'[h] = "panic" \/ (pc'[h] = "rollback" /\ op[h] \in WithTx)
    BY <1>2, <2>1 DEF TypeOK
  <2>3. RequestOK(h)'
    BY <1>1, <1>2, <2>2 DEF RequestOK, Execs
  <2>4. SessionOK(h)'
    BY <1>1, <2>2, StatementSession DEF SessionOK
  <2>5. BrokerTypeOK'
    BY <1>1, <1>2, <1>3, <2>1 DEF TypeOK, ServerTypeOK, BrokerTypeOK, Calls, Execs
  <2>6. \A g \in Handlers \ {h} : pc'[g] = pc[g]
    BY <1>2, <2>1 DEF TypeOK
  <2> QED
    BY <1>1, <1>2, <2>3, <2>4, <2>5, <2>6, Executes DEF IInv, Consistent, RequestOK
<1>5. CASE Resends(h) /\ UNCHANGED pc
  <2>1. pc' = pc /\ (pc[h] = "begin" \/ (pc[h] = "exec" /\ op[h] \notin WithTx))
    BY <1>5 DEF Resends
  <2>2. RequestOK(h)'
    BY <1>1, <1>2, <2>1 DEF RequestOK
  <2>3. SessionOK(h)'
    BY <1>1, <1>2, <2>1, StatementSession DEF SessionOK
  <2>4. BrokerTypeOK'
    BY <1>1, <1>2, <1>3, <2>1 DEF TypeOK, ServerTypeOK, BrokerTypeOK
  <2> QED
    BY <1>1, <1>2, <2>1, <2>2, <2>3, <2>4, Executes DEF IInv, Consistent, RequestOK
<1> QED
  BY <1>4, <1>5 DEF ReplyLost

(* A connection that is given up: the session goes from h to g with all it *)
(* holds, so the locks are held as before.                                 *)
LEMMA DetachedSession ==
    ASSUME IInv, NEW h \in Handlers, NEW g \in Handlers, pc[h] # "idle", Detach(h, g)
    PROVE  /\ pc[g] = "idle" /\ h # g
           /\ UNCHANGED <<mode, users, guest>>
           /\ txn'[g] = txn[h] /\ at'[g] = at[h] /\ args'[g] = args[h]
           /\ txn'[h] = "none" /\ at'[h] = "master" /\ args'[h] = args[h]
           /\ \A k \in Handlers \ {h, g} :
                 txn'[k] = txn[k] /\ at'[k] = at[k] /\ args'[k] = args[k]
           /\ ServerTypeOK'
<1>1. /\ pc[g] = "idle" /\ h # g
      /\ UNCHANGED <<mode, users, guest>>
      /\ txn' = [txn EXCEPT ![g] = txn[h], ![h] = "none"]
      /\ at' = [at EXCEPT ![g] = at[h], ![h] = "master"]
      /\ args' = [args EXCEPT ![g] = args[h]]
  BY DEF Detach, Busy, databaseVars
<1>2. TypeOK
  BY DEF IInv
<1>3. ServerTypeOK'
  BY <1>1, <1>2 DEF TypeOK, ServerTypeOK
<1> QED
  BY <1>1, <1>2, <1>3 DEF TypeOK, ServerTypeOK

LEMMA DetachedLocks ==
    ASSUME IInv, NEW h \in Handlers, NEW g \in Handlers, pc[h] # "idle", Detach(h, g),
           NEW k \in Handlers
    PROVE  LockOK(k)'
<1>1. /\ h # g
      /\ UNCHANGED <<mode, users>>
      /\ txn'[g] = txn[h] /\ at'[g] = at[h] /\ args'[g] = args[h]
      /\ txn'[h] = "none" /\ args'[h] = args[h]
      /\ \A j \in Handlers \ {h, g} :
            txn'[j] = txn[j] /\ at'[j] = at[j] /\ args'[j] = args[j]
  BY DetachedSession
<1>2. LockOK(h) /\ LockOK(k)
  BY DEF IInv, Consistent
<1>3. ~Dirty(h)' /\ (Dirty(g)' <=> Dirty(h))
      /\ \A j \in Handlers \ {h, g} : Dirty(j)' <=> Dirty(j)
  BY <1>1 DEF Dirty
<1>4. CASE k = h
  BY <1>1, <1>4 DEF LockOK, Occupies, Dirty
<1>5. CASE k = g
  <2>1. Dirty(g)' => ~LockedByOther(g)'
    BY <1>1, <1>2, <1>3 DEF LockOK, LockedByOther
  <2>2. \A i \in Instances : Occupies(g, i)' => mode'[i] # "absent"
    BY <1>1, <1>2 DEF LockOK, Occupies, Dirty
  <2> QED
    BY <1>1, <1>2, <1>5, <2>1, <2>2 DEF LockOK
<1>6. CASE k \notin {h, g}
  <2>1. Dirty(k) => ~LockedByOther(k)'
    <3>1. SUFFICES ASSUME Dirty(k), NEW j \in Handlers \ {k}, Dirty(j)'
                   PROVE  args'[j].db # args'[k].db \/ args'[j].user # args'[k].user
      BY DEF LockedByOther
    <3>2. ~LockedByOther(k)
      BY <1>2, <3>1 DEF LockOK
    <3>3. CASE j = g
      <4>1. Dirty(h) /\ args'[j] = args[h] /\ args'[k] = args[k]
        BY <1>1, <1>3, <1>6, <3>1, <3>3
      <4> QED
        BY <1>6, <3>2, <4>1 DEF LockedByOther
    <3>4. CASE j # g
      <4>1. Dirty(j) /\ args'[j] = args[j] /\ args'[k] = args[k]
        BY <1>1, <1>3, <1>6, <3>1, <3>4
      <4> QED
        BY <3>1, <3>2, <4>1 DEF LockedByOther
    <3> QED
      BY <3>3, <3>4
  <2>2. \A i \in Instances : Occupies(k, i) => mode'[i] # "absent"
    BY <1>1, <1>2 DEF LockOK
  <2>3. txn'[k] = txn[k] /\ at'[k] = at[k] /\ args'[k] = args[k] /\ users' = users
    BY <1>1, <1>6
  <2> QED
    BY <1>2, <2>1, <2>2, <2>3, LockFrame
<1> QED
  BY <1>4, <1>5, <1>6

LEMMA GiveUpInv ==
    ASSUME IInv, NEW h \in Handlers, NEW g \in Handlers, GiveUp(h, g)
    PROVE  IInv'
<1>1. /\ pc[h] = "commit" \/ (pc[h] = "exec" /\ op[h] \notin WithTx)
      /\ Detach(h, g)
      /\ faults < MaxFaults /\ faults' = faults + 1
  BY DEF GiveUp, MayBeLate, Fault
<1>2. PICK next \in {"panic", pc[h]} :
         /\ pc' = [pc EXCEPT ![g] = pc[h], ![h] = next]
         /\ next = pc[h] => pc[h] = "exec"
  BY <1>1 DEF GiveUp, Resends
<1>3. TypeOK /\ Consistent
  BY DEF IInv
<1>4. /\ op' = [op EXCEPT ![g] = op[h]]
      /\ line' = [line EXCEPT ![g] = line[h]]
      /\ orphan' = orphan \cup {g}
      /\ proc' = proc
  BY <1>1 DEF Detach
<1>5. /\ pc[h] # "idle" /\ pc[g] = "idle" /\ h # g
      /\ UNCHANGED <<mode, users, guest>>
      /\ txn'[g] = txn[h] /\ at'[g] = at[h] /\ args'[g] = args[h]
      /\ txn'[h] = "none" /\ at'[h] = "master" /\ args'[h] = args[h]
      /\ \A k \in Handlers \ {h, g} :
            txn'[k] = txn[k] /\ at'[k] = at[k] /\ args'[k] = args[k]
      /\ ServerTypeOK'
  BY <1>1, DetachedSession
<1>6. /\ pc'[g] = pc[h] /\ op'[g] = op[h] /\ line'[g] = line[h]
      /\ pc'[h] = next /\ op'[h] = op[h] /\ line'[h] = line[h]
      /\ \A k \in Handlers \ {h, g} :
            pc'[k] = pc[k] /\ op'[k] = op[k] /\ line'[k] = line[k]
  BY <1>2, <1>3, <1>4, <1>5 DEF TypeOK
<1>7. RequestOK(h) /\ SessionOK(h) /\ (\A k \in Handlers : RequestOK(k) /\ SessionOK(k))
  BY <1>3 DEF Consistent
<1>8. TypeOK'
  <2>1. faults' \in 0..MaxFaults
    BY <1>1, <1>3, MaxFaultsAssumption DEF TypeOK
  <2>2. pc' \in [Handlers -> {"idle", "panic", "flushed"} \cup Calls \cup Returned]
    BY <1>2, <1>3 DEF TypeOK
  <2>3. op' \in [Handlers -> Ops \cup {"none"}] /\ line' \in [Handlers -> 1..4]
    BY <1>3, <1>4 DEF TypeOK
  <2> QED
    BY <1>3, <1>4, <1>5, <2>1, <2>2, <2>3 DEF TypeOK
<1>9. RequestOK(g)' /\ SessionOK(g)'
  <2>1. RequestOK(g)'
    BY <1>1, <1>5, <1>6, <1>7 DEF RequestOK
  <2>2. SessionOK(g)'
    BY <1>1, <1>5, <1>6, <1>7 DEF SessionOK
  <2> QED
    BY <2>1, <2>2
<1>10. RequestOK(h)' /\ SessionOK(h)'
  <2>1. next # "idle" /\ next \notin {"begin", "commit", "rollback", "IsUserCreated"}
        /\ next \notin {"IsDatabaseCreated", "IsUserCreated", "begin"}
    BY <1>1, <1>2
  <2>2. RequestOK(h)'
    BY <1>5, <1>6, <1>7, <2>1 DEF RequestOK
  <2>3. SessionOK(h)'
    BY <1>5, <1>6, <2>1 DEF SessionOK
  <2> QED
    BY <2>2, <2>3
<1>11. ASSUME NEW k \in Handlers \ {h, g} PROVE RequestOK(k)' /\ SessionOK(k)'
  <2>1. pc[k] = "idle" => k \notin orphan'
    BY <1>4, <1>7 DEF RequestOK
  <2> QED
    BY <1>5, <1>6, <1>7, <2>1, BystanderOK
<1>12. \A k \in Handlers : LockOK(k)'
  BY <1>1, <1>5, DetachedLocks
<1>13. (\A i \in Instances : AbsentOK(i)') /\ CommittedUsersAreOwners'
  BY <1>3, <1>5 DEF Consistent, AbsentOK, CommittedUsersAreOwners
<1> QED
  BY <1>8, <1>9, <1>10, <1>11, <1>12, <1>13 DEF IInv, Consistent

(* The steps that end a request: its handler is as in the initial state.   *)
LEMMA Cleared ==
    ASSUME IInv, NEW h \in Handlers, Clear(h), orphan' \subseteq orphan,
           h \notin orphan', UNCHANGED <<faults, proc>>,
           txn'[h] = "none", at'[h] = "master"
    PROVE  /\ BrokerTypeOK'
           /\ RequestOK(h)' /\ SessionOK(h)'
           /\ \A g \in Handlers \ {h} :
                 /\ op'[g] = op[g] /\ pc'[g] = pc[g]
                 /\ line'[g] = line[g] /\ args'[g] = args[g]
                 /\ pc[g] = "idle" => g \notin orphan'
<1>1. TypeOK /\ RequestOK(h)
  BY DEF IInv, Consistent
<1>2. pc'[h] = "idle" /\ op'[h] = "none" /\ args'[h] = NoArgs /\ line'[h] = 1
  BY <1>1 DEF TypeOK, ServerTypeOK, Clear, Goto
<1>3. NoArgs \in Args
  BY DEF NoArgs, Args
<1>4. BrokerTypeOK'
  BY <1>1, <1>3 DEF TypeOK, ServerTypeOK, BrokerTypeOK, Clear, Goto
<1>5. RequestOK(h)'
  BY <1>2 DEF RequestOK
<1>6. SessionOK(h)'
  BY <1>2 DEF SessionOK
<1>7. \A g \in Handlers \ {h} :
         /\ op'[g] = op[g] /\ pc'[g] = pc[g]
         /\ line'[g] = line[g] /\ args'[g] = args[g]
  BY <1>1 DEF TypeOK, ServerTypeOK, Clear, Goto
<1>8. \A g \in Handlers : pc[g] = "idle" => g \notin orphan'
  BY DEF IInv, Consistent, RequestOK
<1> QED
  BY <1>4, <1>5, <1>6, <1>7, <1>8

LEMMA RespondInv ==
    ASSUME IInv, NEW h \in Handlers, Respond(h)
    PROVE  IInv'
<1>1. /\ Clear(h) /\ h \notin orphan /\ pc[h] \in Returned
      /\ UNCHANGED <<serverVars, orphan, faults, proc>>
  BY DEF Respond, Running
<1>2. txn[h] = "none" /\ at[h] = "master"
  BY <1>1 DEF IInv, Consistent, SessionOK, Returned, Errors
<1>3. txn'[h] = "none" /\ at'[h] = "master"
  BY <1>1, <1>2 DEF serverVars
<1> QED
  BY <1>1, <1>2, <1>3, Cleared, ServerUntouched

LEMMA LateEffectInv ==
    ASSUME IInv, NEW h \in Handlers, LateEffect(h)
    PROVE  IInv'
<1>1. /\ Clear(h) /\ orphan' = orphan \ {h}
      /\ pc[h] = "commit" \/ (pc[h] = "exec" /\ op[h] \notin WithTx)
      /\ Succeeds(Statement(h), h)
      /\ UNCHANGED <<faults, proc>>
  BY DEF LateEffect, MayBeLate
<1>2. pc[h] \in Execs
  BY <1>1 DEF Execs
<1>3. txn'[h] = "none" /\ at'[h] = "master"
  BY <1>1, <1>2, StatementSession
<1>4. orphan' \subseteq orphan /\ h \notin orphan'
  BY <1>1
<1> QED
  BY <1>1, <1>2, <1>3, <1>4, Cleared, Executes

LEMMA ReapInv ==
    ASSUME IInv, NEW h \in Handlers, Reap(h)
    PROVE  IInv'
<1>1. /\ Clear(h) /\ orphan' = orphan \ {h} /\ EndSession(h)
      /\ UNCHANGED <<faults, proc>>
  BY DEF Reap
<1>2. TypeOK /\ Consistent
  BY DEF IInv
<1>3. /\ txn'[h] = "none" /\ at'[h] = "master"
      /\ \A g \in Handlers \ {h} : txn'[g] = txn[g] /\ at'[g] = at[g]
      /\ UNCHANGED <<mode, users, guest>>
  BY <1>1, <1>2 DEF EndSession, SetTxn, databaseVars, TypeOK, ServerTypeOK
<1>4. orphan' \subseteq orphan /\ h \notin orphan'
  BY <1>1
<1>5. /\ BrokerTypeOK' /\ RequestOK(h)' /\ SessionOK(h)'
      /\ \A g \in Handlers \ {h} :
            /\ op'[g] = op[g] /\ pc'[g] = pc[g]
            /\ line'[g] = line[g] /\ args'[g] = args[g]
            /\ pc[g] = "idle" => g \notin orphan'
  BY <1>1, <1>3, <1>4, Cleared
<1>6. TypeOK'
  BY <1>1, <1>2, <1>5 DEF EndSession, SetTxn, databaseVars, TypeOK, ServerTypeOK, BrokerTypeOK
<1>7. ASSUME NEW g \in Handlers PROVE RequestOK(g)' /\ SessionOK(g)' /\ LockOK(g)'
  <2>1. CASE g = h
    BY <1>2, <1>3, <1>5, <2>1, LockFrame DEF Consistent
  <2>2. CASE g # h
    <3>1. RequestOK(g)' /\ SessionOK(g)'
      BY <1>2, <1>3, <1>5, <2>2, BystanderOK DEF Consistent
    <3>2. \A k \in Handlers : Dirty(k)' => Dirty(k) /\ args'[k] = args[k]
      BY <1>3, <1>5 DEF Dirty
    <3>3. LockOK(g)
      BY <1>2 DEF Consistent
    <3>4. Dirty(g) => ~LockedByOther(g)'
      BY <1>5, <2>2, <3>2, <3>3, NoNewLocks
    <3>5. \A i \in Instances : Occupies(g, i) => mode'[i] # "absent"
      BY <1>3, <3>3 DEF LockOK
    <3> QED
      BY <1>3, <1>5, <2>2, <3>1, <3>3, <3>4, <3>5, LockFrame
  <2> QED
    BY <2>1, <2>2
<1>8. (\A i \in Instances : AbsentOK(i)') /\ CommittedUsersAreOwners'
  BY <1>2, <1>3 DEF Consistent, AbsentOK, CommittedUsersAreOwners
<1> QED
  BY <1>6, <1>7, <1>8 DEF IInv, Consistent

(* The steps of the processes and of the applications.                     *)
LEMMA ProcessInv ==
    ASSUME IInv, NEW k \in Brokers, ProcessStep(k)
    PROVE  IInv'
<1>1. /\ UNCHANGED <<serverVars, handlerVars>>
      /\ proc' \in [Brokers -> {"down", "starting", "serving"}]
      /\ faults' = faults \/ (faults < MaxFaults /\ faults' = faults + 1)
      /\ orphan' = orphan \/ orphan' = orphan \cup {h \in Handlers : Host[h] = k /\ Busy(h)}
  BY DEF ProcessStep, Exit, Kill, Start, Listen, InitFails, GoDown, Fault, IInv, TypeOK
<1>2. TypeOK /\ Consistent
  BY DEF IInv
<1>3. TypeOK'
  BY <1>1, <1>2, MaxFaultsAssumption DEF TypeOK, ServerTypeOK, serverVars, handlerVars
<1>4. ASSUME NEW h \in Handlers PROVE RequestOK(h)' /\ SessionOK(h)' /\ LockOK(h)'
  <2>1. pc[h] = "idle" => h \notin orphan'
    BY <1>1, <1>2 DEF Consistent, RequestOK, Busy
  <2>2. RequestOK(h)' /\ SessionOK(h)'
    BY <1>1, <1>2, <2>1, BystanderOK DEF Consistent, serverVars, handlerVars
  <2>3. LockOK(h)'
    BY <1>1, <1>2 DEF Consistent, LockOK, Occupies, LockedByOther, Dirty, serverVars,
                      handlerVars
  <2> QED
    BY <2>2, <2>3
<1>5. (\A i \in Instances : AbsentOK(i)') /\ CommittedUsersAreOwners'
  BY <1>1, <1>2 DEF Consistent, AbsentOK, CommittedUsersAreOwners, serverVars
<1> QED
  BY <1>3, <1>4, <1>5 DEF IInv, Consistent

LEMMA ApplicationInv ==
    ASSUME IInv, NEW i \in Instances, ApplicationConnects(i) \/ ApplicationLeaves(i)
    PROVE  IInv'
<1>1. /\ UNCHANGED <<mode, users, txn, at, handlerVars, orphan, proc>>
      /\ faults' = faults \/ (faults < MaxFaults /\ faults' = faults + 1)
      /\ \/ guest' = [guest EXCEPT ![i] = FALSE]
         \/ /\ guest' = [guest EXCEPT ![i] = TRUE]
            /\ \E b \in Bindings : users[i][b] # NoUser
  BY DEF ApplicationConnects, ApplicationLeaves, GuestArrives, GuestLeaves, Fault
<1>2. TypeOK /\ Consistent
  BY DEF IInv
<1>3. TypeOK'
  <2>1. guest' \in [Instances -> BOOLEAN]
    BY <1>1, <1>2 DEF TypeOK, ServerTypeOK
  <2>2. faults' \in 0..MaxFaults
    BY <1>1, <1>2, MaxFaultsAssumption DEF TypeOK
  <2> QED
    BY <1>1, <1>2, <2>1, <2>2 DEF TypeOK, ServerTypeOK, handlerVars
<1>4. ASSUME NEW h \in Handlers PROVE RequestOK(h)' /\ SessionOK(h)' /\ LockOK(h)'
  <2>1. RequestOK(h)' /\ SessionOK(h)'
    BY <1>1, <1>2, BystanderOK DEF Consistent, RequestOK, handlerVars
  <2>2. LockOK(h)'
    BY <1>1, <1>2 DEF Consistent, LockOK, Occupies, LockedByOther, Dirty, handlerVars
  <2> QED
    BY <2>1, <2>2
<1>5. ASSUME NEW j \in Instances PROVE AbsentOK(j)'
  BY <1>1, <1>2 DEF Consistent, AbsentOK, TypeOK, ServerTypeOK
<1>6. CommittedUsersAreOwners'
  BY <1>1, <1>2 DEF Consistent, CommittedUsersAreOwners
<1> QED
  BY <1>3, <1>4, <1>5, <1>6 DEF IInv, Consistent

(* Every step of the system keeps the invariant.                           *)
LEMMA InvNext == IInv /\ [Next]_vars => IInv'
<1> SUFFICES ASSUME IInv, [Next]_vars PROVE IInv'
  OBVIOUS
<1>1. CASE UNCHANGED vars
  BY <1>1 DEF vars, serverVars, handlerVars, IInv, TypeOK, ServerTypeOK, Consistent,
              RequestOK, SessionOK, LockOK, Occupies, LockedByOther, Dirty, AbsentOK,
              CommittedUsersAreOwners
<1>2. ASSUME NEW h \in Handlers, NEW o \in Ops, NEW i \in Instances, Receive(h, o, i)
      PROVE  IInv'
  BY <1>2, ReceiveInv
<1>3. ASSUME NEW h \in Handlers, HandlerStep(h) PROVE IInv'
  BY <1>3, OperationInv, FailureInv, BeginInv, ExecLineInv, CommitRollbackInv,
     ReplyLostInv, RespondInv, LateEffectInv, ReapInv, GiveUpInv DEF HandlerStep
<1>4. ASSUME NEW k \in Brokers, ProcessStep(k) PROVE IInv'
  BY <1>4, ProcessInv
<1>5. ASSUME NEW i \in Instances, ApplicationConnects(i) \/ ApplicationLeaves(i)
      PROVE  IInv'
  BY <1>5, ApplicationInv
<1> QED
  BY <1>1, <1>2, <1>3, <1>4, <1>5 DEF Next

LEMMA InvAlways == Spec => []IInv
<1>1. Init => IInv
  BY InvInit
<1>2. IInv /\ [Next]_vars => IInv'
  BY InvNext
<1> QED
  BY <1>1, <1>2, PTL DEF Spec

-----------------------------------------------------------------------------
(* The state of the broker and of its server is always well-typed.         *)
THEOREM TypeCorrect == Spec => []TypeOK
<1>1. IInv => TypeOK
  BY DEF IInv
<1> QED
  BY <1>1, InvAlways, PTL

(* Sessions are as far as the loops over the templates are, and locks,     *)
(* users and databases agree (provisioner.go:152-194).                     *)
THEOREM ConsistentAlways == Spec => []Consistent
<1>1. IInv => Consistent
  BY DEF IInv
<1> QED
  BY <1>1, InvAlways, PTL

(* CreateUser is atomic (provisioner.go:103-105, 152-179): a bound user    *)
(* that anybody can see is a db_owner and has a password.                  *)
THEOREM OwnersAlways == Spec => []CommittedUsersAreOwners
<1>1. IInv => CommittedUsersAreOwners
  BY DEF IInv, Consistent
<1> QED
  BY <1>1, InvAlways, PTL

-----------------------------------------------------------------------------
(* A statement changes a user that is there in one way: it removes it, and *)
(* is the last one of a request that asked for it.                         *)
LEMMA StatementRemoves ==
    ASSUME IInv, NEW h \in Handlers, pc[h] \in Execs, Succeeds(Statement(h), h),
           NEW i \in Instances, NEW b \in Bindings, users[i][b] # NoUser
    PROVE  \/ users'[i][b] = users[i][b]
           \/ users'[i][b] = NoUser /\ Removes(h, i, b)
<1>1. TypeOK /\ ServerTypeOK /\ RequestOK(h) /\ SessionOK(h) /\ LockOK(h)
  BY DEF IInv, Consistent, TypeOK
<1>2. Effect(Statement(h), h)
  BY DEF Succeeds
<1>3. CASE Statement(h) = "commit" /\ CommitWork(h)
  <2>1. CASE ~Dirty(h)
    BY <1>3, <2>1 DEF CommitWork
  <2>2. CASE Dirty(h)
    <3>1. users' = [users EXCEPT ![args[h].db] =
                       [users[args[h].db] EXCEPT ![args[h].user] = CommittedUser(h)]]
      BY <1>3, <2>2 DEF CommitWork
    <3>2. CASE args[h].db = i /\ args[h].user = b
      <4>1. txn[h] = "dropped"
        BY <1>1, <2>2, <3>2 DEF LockOK, Dirty
      <4>2. CommittedUser(h) = NoUser
        BY <4>1 DEF CommittedUser
      <4>3. Removes(h, i, b)
        BY <1>1, <1>3, <3>2, <4>1 DEF SessionOK, Removes
      <4> QED
        BY <1>1, <3>1, <3>2, <4>2, <4>3 DEF ServerTypeOK
    <3>3. CASE ~(args[h].db = i /\ args[h].user = b)
      BY <1>1, <3>1, <3>3 DEF ServerTypeOK
    <3> QED
      BY <3>2, <3>3
  <2> QED
    BY <2>1, <2>2
<1>4. CASE Statement(h) = "drop database" /\ DropDatabase(h)
  <2>1. pc[h] = "exec"
    BY <1>4 DEF Statement, Execs
  <2>2. op[h] = "deprovision"
    BY <1>1, <1>4, <2>1, StatementCases
  <2>3. users' = [users EXCEPT ![args[h].db] = [c \in Bindings |-> NoUser]]
    BY <1>4 DEF DropDatabase
  <2> QED
    BY <1>1, <1>4, <2>2, <2>3 DEF ServerTypeOK, Removes
<1>5. CASE users' = users
  BY <1>5
<1> QED
  BY <1>2, <1>3, <1>4, <1>5
     DEF Effect, SetSingleUser, Work, MoveTo, EndSession, databaseVars

(* In any interleaving of requests, crashes, resent statements and copies  *)
(* that are executed late, even after their request was answered, only the *)
(* last statement of a request for its removal ends a binding              *)
(* (provisioner.go:25-37).                                                 *)
THEOREM BindingsLast == Spec => BindingsEndOnRequest
<1> DEFINE Stable == \A i \in Instances, b \in Bindings :
                        users[i][b] # NoUser /\ users'[i][b] # users[i][b] =>
                            users'[i][b] = NoUser /\ \E h \in Handlers : Removes(h, i, b)
<1>1. IInv /\ [Next]_vars => [Stable]_vars
  <2>1. SUFFICES ASSUME IInv, Next PROVE Stable
    OBVIOUS
  <2>2. CASE users' = users
    BY <2>2
  <2>3. ASSUME NEW h \in Handlers, pc[h] \in Execs, Succeeds(Statement(h), h)
        PROVE  Stable
    BY <2>1, <2>3, StatementRemoves
  <2>4. ASSUME NEW h \in Handlers, HandlerStep(h) PROVE Stable
    <3>1. CASE Begin(h) \/ ExecLine(h) \/ Commit(h) \/ Rollback(h)
               \/ ReplyLost(h) \/ LateEffect(h)
      <4>1. pc[h] \in Execs /\ Succeeds(Statement(h), h)
        BY <3>1 DEF Begin, ExecLine, Commit, Rollback, ReplyLost, LateEffect, MayBeLate,
                    Statement, Execs
      <4> QED
        BY <2>3, <4>1
    <3>2. CASE Provision(h) \/ Deprovision(h) \/ Bind(h) \/ Unbind(h)
      BY <2>2, <3>2 DEF Provision, Deprovision, Bind, Unbind, InstanceCheck, Answered,
                        serverVars
    <3>3. CASE QueryRefused(h) \/ StatementRefused(h) \/ CallFails(h) \/ Respond(h)
               \/ ImplicitReply(h) \/ Reap(h) \/ \E g \in Handlers : GiveUp(h, g)
      BY <2>2, <3>3 DEF QueryRefused, StatementRefused, CallFails, Respond, ImplicitReply,
                        Reap, GiveUp, Detach, EndSession, serverVars, databaseVars
    <3> QED
      BY <2>4, <3>1, <3>2, <3>3 DEF HandlerStep
  <2>5. ASSUME NEW h \in Handlers, NEW o \in Ops, NEW i \in Instances, Receive(h, o, i)
        PROVE  Stable
    BY <2>2, <2>5 DEF Receive, serverVars
  <2>6. ASSUME NEW k \in Brokers, ProcessStep(k) PROVE Stable
    BY <2>2, <2>6 DEF ProcessStep, Exit, Kill, Start, Listen, InitFails, GoDown, serverVars
  <2>7. ASSUME NEW i \in Instances, ApplicationConnects(i) \/ ApplicationLeaves(i)
        PROVE  Stable
    BY <2>2, <2>7 DEF ApplicationConnects, ApplicationLeaves, GuestArrives, GuestLeaves
  <2> QED
    BY <2>1, <2>4, <2>5, <2>6, <2>7 DEF Next
<1> QED
  BY <1>1, InvAlways, PTL DEF Spec, BindingsEndOnRequest

-----------------------------------------------------------------------------
(* The steps that a request has before it.                                 *)

LEMMA LeftIs ==
    ASSUME NEW h \in Handlers
    PROVE  /\ LeftToDo(h)[1] = CallsLeft[pc[h]]
           /\ LeftToDo(h)[2] = 4 - line[h]
           /\ LeftToDo(h)[3] = MaxFaults - faults
           /\ DOMAIN LeftToDo(h) = 1..3
BY DEF LeftToDo

LEMMA LeftWillBe ==
    ASSUME NEW h \in Handlers
    PROVE  /\ LeftToDo(h)'[1] = CallsLeft[pc'[h]]
           /\ LeftToDo(h)'[2] = 4 - line'[h]
           /\ LeftToDo(h)'[3] = MaxFaults - faults'
BY DEF LeftToDo, CallsLeft

LEMMA CallNumbers ==
    /\ CallsLeft["IsDatabaseCreated"] = 9 /\ CallsLeft["IsUserCreated"] = 8
    /\ CallsLeft["begin"] = 7 /\ CallsLeft["exec"] = 6 /\ CallsLeft["commit"] = 5
    /\ CallsLeft["rollback"] = 4 /\ CallsLeft["panic"] = 3 /\ CallsLeft["flushed"] = 2
    /\ CallsLeft["idle"] = 1
    /\ \A r \in Returned : CallsLeft[r] = 2
BY DEF CallsLeft, Returned, Errors

(* The numbers are naturals, so that Lower has no infinite descent.        *)
LEMMA RequestRanked ==
    ASSUME TypeOK, NEW h \in Handlers
    PROVE  LeftToDo(h) \in [1..3 -> Nat]
<1>1. CallsLeft[pc[h]] \in Nat
  BY CallNumbers DEF TypeOK, Calls, Queries, Execs
<1>2. 4 - line[h] \in Nat
  BY DEF TypeOK
<1>3. MaxFaults - faults \in Nat
  BY MaxFaultsAssumption DEF TypeOK
<1> QED
  BY <1>1, <1>2, <1>3 DEF LeftToDo

(* The request has gone on to a later call, to the next line, or has lost  *)
(* one more reply.                                                         *)
LEMMA CallOver ==
    ASSUME NEW h \in Handlers, 0 <= CallsLeft[pc'[h]], CallsLeft[pc'[h]] < CallsLeft[pc[h]]
    PROVE  Lower(LeftToDo(h)', LeftToDo(h))
<1>1. 0 <= LeftToDo(h)'[1] /\ LeftToDo(h)'[1] < LeftToDo(h)[1]
  BY LeftIs, LeftWillBe
<1>2. 1 \in DOMAIN LeftToDo(h) /\ \A j \in 1..(1 - 1) : LeftToDo(h)'[j] = LeftToDo(h)[j]
  BY LeftIs
<1> QED
  BY <1>1, <1>2 DEF Lower

LEMMA LineOver ==
    ASSUME NEW h \in Handlers, pc'[h] = pc[h], line[h] \in 1..4, line'[h] = line[h] + 1,
           line'[h] \in 1..4
    PROVE  Lower(LeftToDo(h)', LeftToDo(h))
<1>1. 0 <= LeftToDo(h)'[2] /\ LeftToDo(h)'[2] < LeftToDo(h)[2]
  BY LeftIs, LeftWillBe
<1>2. LeftToDo(h)'[1] = LeftToDo(h)[1]
  BY LeftIs, LeftWillBe
<1>3. 2 \in DOMAIN LeftToDo(h) /\ \A j \in 1..(2 - 1) : LeftToDo(h)'[j] = LeftToDo(h)[j]
  BY <1>2, LeftIs
<1> QED
  BY <1>1, <1>3 DEF Lower

LEMMA FaultOver ==
    ASSUME NEW h \in Handlers, pc'[h] = pc[h], line'[h] = line[h],
           TypeOK, TypeOK', faults' = faults + 1
    PROVE  Lower(LeftToDo(h)', LeftToDo(h))
<1>1. 0 <= LeftToDo(h)'[3] /\ LeftToDo(h)'[3] < LeftToDo(h)[3]
  BY LeftIs, LeftWillBe, MaxFaultsAssumption DEF TypeOK
<1>2. LeftToDo(h)'[1] = LeftToDo(h)[1] /\ LeftToDo(h)'[2] = LeftToDo(h)[2]
  BY LeftIs, LeftWillBe
<1>3. 3 \in DOMAIN LeftToDo(h) /\ \A j \in 1..(3 - 1) : LeftToDo(h)'[j] = LeftToDo(h)[j]
  BY <1>2, LeftIs
<1> QED
  BY <1>1, <1>3 DEF Lower

(* Nothing of the request changes, or there has been one more failure.     *)
LEMMA Untouched ==
    ASSUME NEW h \in Handlers, TypeOK, TypeOK', pc'[h] = pc[h], line'[h] = line[h],
           faults' = faults \/ faults' = faults + 1
    PROVE  LeftToDo(h)' = LeftToDo(h) \/ Lower(LeftToDo(h)', LeftToDo(h))
<1>1. CASE faults' = faults
  BY <1>1 DEF LeftToDo, CallsLeft
<1>2. CASE faults' = faults + 1
  BY <1>2, FaultOver
<1> QED
  BY <1>1, <1>2

(* An error is never the beginning of something that was there before.     *)
LEMMA FailureGoesOn ==
    ASSUME NEW h \in Handlers, TypeOK, pc[h] \in Calls, Fail(h)
    PROVE  Lower(LeftToDo(h)', LeftToDo(h))
<1>1. pc'[h] \in {"rollback", "panic"} /\ (pc[h] = "rollback" => pc'[h] = "panic")
  BY DEF Fail, Goto, TypeOK
<1> QED
  BY <1>1, CallNumbers, CallOver DEF Calls, Queries, Execs

(* Every action of a request is one of its last steps.                     *)
LEMMA StepGoesOn ==
    ASSUME NEW h \in Handlers, IInv, IInv', Busy(h), HandlerStep(h)
    PROVE  Lower(LeftToDo(h)', LeftToDo(h))
<1>1. TypeOK /\ TypeOK'
  BY DEF IInv
<1>2. CASE Provision(h) \/ Deprovision(h) \/ Bind(h) \/ Unbind(h)
  <2>1. pc[h] = "IsDatabaseCreated" =>
           pc'[h] \in Returned \cup {"exec", "IsUserCreated"}
    BY <1>1, <1>2 DEF Provision, Deprovision, Bind, Unbind, InstanceCheck, Answered,
                      Goto, TypeOK, Returned, Errors
  <2>2. pc[h] = "IsUserCreated" => pc'[h] \in Returned \cup {"begin"}
    BY <1>1, <1>2 DEF Provision, Deprovision, Bind, Unbind, InstanceCheck, Answered,
                      Goto, TypeOK, Returned, Errors
  <2>3. pc[h] = "IsDatabaseCreated" \/ pc[h] = "IsUserCreated"
    BY <1>2 DEF Provision, Deprovision, Bind, Unbind, InstanceCheck, Answered
  <2> QED
    BY <2>1, <2>2, <2>3, CallNumbers, CallOver
<1>3. CASE Begin(h)
  <2>1. pc[h] = "begin" /\ pc'[h] = "exec"
    BY <1>1, <1>3 DEF Begin, Goto, TypeOK
  <2> QED
    BY <2>1, CallNumbers, CallOver
<1>4. CASE ExecLine(h)
  <2>1. CASE LastLine(h)
    <3>1. pc[h] = "exec" /\ pc'[h] \in {"commit", "nil"}
      BY <1>1, <1>4, <2>1 DEF ExecLine, Goto, TypeOK
    <3>2. "nil" \in Returned
      BY DEF Returned
    <3> QED
      BY <3>1, <3>2, CallNumbers, CallOver
  <2>2. CASE ~LastLine(h)
    <3>1. pc'[h] = pc[h] /\ line'[h] = line[h] + 1
      BY <1>1, <1>4, <2>2 DEF ExecLine, TypeOK
    <3> QED
      BY <1>1, <3>1, LineOver DEF TypeOK
  <2> QED
    BY <2>1, <2>2
<1>5. CASE Commit(h) \/ Rollback(h)
  <2>1. \/ pc[h] = "commit" /\ pc'[h] = "nil"
        \/ pc[h] = "rollback" /\ pc'[h] = "panic"
    BY <1>1, <1>5 DEF Commit, Rollback, Goto, TypeOK
  <2>2. "nil" \in Returned
    BY DEF Returned
  <2> QED
    BY <2>1, <2>2, CallNumbers, CallOver
<1>6. CASE QueryRefused(h) \/ StatementRefused(h) \/ CallFails(h)
  BY <1>1, <1>6, FailureGoesOn
     DEF QueryRefused, StatementRefused, CallFails, Calls, Queries, Execs
<1>7. CASE ReplyLost(h)
  <2>1. CASE Fail(h)
    BY <1>1, <1>7, <2>1, FailureGoesOn DEF ReplyLost, Calls
  <2>2. CASE Resends(h) /\ UNCHANGED pc
    <3>1. pc'[h] = pc[h] /\ line'[h] = line[h] /\ faults' = faults + 1
      BY <1>7, <2>2 DEF ReplyLost, Fault
    <3> QED
      BY <1>1, <3>1, FaultOver
  <2> QED
    BY <1>7, <2>1, <2>2 DEF ReplyLost
<1>8. CASE ImplicitReply(h)
  <2>1. pc[h] = "panic" /\ pc'[h] = "flushed"
    BY <1>1, <1>8 DEF ImplicitReply, Goto, TypeOK
  <2> QED
    BY <2>1, CallNumbers, CallOver
<1>9. CASE Respond(h) \/ LateEffect(h) \/ Reap(h)
  <2>1. pc'[h] = "idle"
    BY <1>1, <1>9 DEF Respond, LateEffect, Reap, Clear, Goto, TypeOK
  <2>2. CallsLeft[pc[h]] > 1 /\ CallsLeft[pc[h]] \in Nat
    BY <1>1, CallNumbers DEF Busy, TypeOK, Calls, Queries, Execs
  <2> QED
    BY <2>1, <2>2, CallNumbers, CallOver
<1>10. ASSUME NEW g \in Handlers, GiveUp(h, g)
       PROVE  Lower(LeftToDo(h)', LeftToDo(h))
  <2>1. /\ pc[h] \in {"exec", "commit"} /\ h # g
        /\ faults' = faults + 1
        /\ line' = [line EXCEPT ![g] = line[h]]
    BY <1>10 DEF GiveUp, MayBeLate, Detach, Busy, Fault
  <2>2. PICK next \in {"panic", pc[h]} : pc' = [pc EXCEPT ![g] = pc[h], ![h] = next]
    BY <1>10 DEF GiveUp
  <2>3. pc'[h] = next /\ line'[h] = line[h]
    BY <1>1, <2>1, <2>2 DEF TypeOK
  <2>4. CASE next = "panic"
    BY <2>1, <2>3, <2>4, CallNumbers, CallOver
  <2>5. CASE next = pc[h]
    BY <1>1, <2>1, <2>3, <2>5, FaultOver
  <2> QED
    BY <2>4, <2>5
<1> QED
  BY <1>2, <1>3, <1>4, <1>5, <1>6, <1>7, <1>8, <1>9, <1>10 DEF HandlerStep

(* A request of another handler leaves this one where it is.               *)
LEMMA OthersTouchNothing ==
    ASSUME NEW h \in Handlers, NEW g \in Handlers \ {h}, TypeOK, Busy(h), HandlerStep(g)
    PROVE  /\ pc'[h] = pc[h] /\ line'[h] = line[h]
           /\ faults' = faults \/ faults' = faults + 1
<1>1. CASE Provision(g) \/ Deprovision(g) \/ Bind(g) \/ Unbind(g)
  BY <1>1 DEF Provision, Deprovision, Bind, Unbind, InstanceCheck, Answered, Goto, TypeOK
<1>2. CASE Begin(g) \/ ExecLine(g) \/ Commit(g) \/ Rollback(g) \/ ImplicitReply(g)
  BY <1>2 DEF Begin, ExecLine, Commit, Rollback, ImplicitReply, Goto, TypeOK
<1>3. CASE QueryRefused(g) \/ StatementRefused(g) \/ CallFails(g) \/ ReplyLost(g)
  BY <1>3 DEF QueryRefused, StatementRefused, CallFails, ReplyLost, Fail, Fault,
              Goto, TypeOK
<1>4. CASE Respond(g) \/ LateEffect(g) \/ Reap(g)
  BY <1>4 DEF Respond, LateEffect, Reap, Clear, Goto, TypeOK
<1>5. ASSUME NEW k \in Handlers, GiveUp(g, k)
      PROVE  pc'[h] = pc[h] /\ line'[h] = line[h] /\ faults' = faults + 1
  BY <1>5 DEF GiveUp, Detach, Busy, Fault, TypeOK
<1> QED
  BY <1>1, <1>2, <1>3, <1>4, <1>5 DEF HandlerStep

(* Whatever fails or is sent again, every step of a request brings it      *)
(* nearer its end, and no other step sets it back (provisioner.go:152-194, *)
(* mssql_service_broker.go): a request takes finitely many steps.          *)
THEOREM RequestsGoOn == Spec => RequestsAdvance
<1> DEFINE Nearer == \A h \in Handlers : Busy(h) =>
                        IF LeftToDo(h)' = LeftToDo(h)
                        THEN ~HandlerStep(h)
                        ELSE Lower(LeftToDo(h)', LeftToDo(h))
<1>1. ASSUME IInv, IInv', Next PROVE Nearer
  <2> SUFFICES ASSUME NEW h \in Handlers, Busy(h)
               PROVE  /\ HandlerStep(h) => LeftToDo(h)' # LeftToDo(h)
                      /\ LeftToDo(h)' = LeftToDo(h) \/ Lower(LeftToDo(h)', LeftToDo(h))
    OBVIOUS
  <2>1. TypeOK /\ TypeOK'
    BY <1>1 DEF IInv
  <2>2. ASSUME Lower(LeftToDo(h)', LeftToDo(h)) PROVE LeftToDo(h)' # LeftToDo(h)
    <3>1. LeftToDo(h) \in [1..3 -> Nat]
      BY <2>1, RequestRanked
    <3>2. PICK k \in DOMAIN LeftToDo(h) : LeftToDo(h)'[k] < LeftToDo(h)[k]
      BY <2>2 DEF Lower
    <3>3. LeftToDo(h)[k] \in Nat
      BY <3>1, <3>2
    <3> QED
      BY <3>2, <3>3
  <2>3. HandlerStep(h) => Lower(LeftToDo(h)', LeftToDo(h))
    BY <1>1, StepGoesOn
  <2>4. ASSUME ~HandlerStep(h)
        PROVE  /\ pc'[h] = pc[h] /\ line'[h] = line[h]
               /\ faults' = faults \/ faults' = faults + 1
    <3>1. ASSUME NEW g \in Handlers, HandlerStep(g)
          PROVE  /\ pc'[h] = pc[h] /\ line'[h] = line[h]
                 /\ faults' = faults \/ faults' = faults + 1
      BY <2>1, <2>4, <3>1, OthersTouchNothing
    <3>2. ASSUME NEW g \in Handlers, NEW o \in Ops, NEW i \in Instances, Receive(g, o, i)
          PROVE  pc'[h] = pc[h] /\ line'[h] = line[h] /\ faults' = faults
      BY <2>1, <3>2 DEF Receive, Busy, Goto, TypeOK
    <3>3. ASSUME NEW k \in Brokers, ProcessStep(k)
          PROVE  /\ pc'[h] = pc[h] /\ line'[h] = line[h]
                 /\ faults' = faults \/ faults' = faults + 1
      BY <3>3 DEF ProcessStep, Exit, Kill, Start, Listen, InitFails, GoDown, Fault,
                  handlerVars
    <3>4. ASSUME NEW i \in Instances, ApplicationConnects(i) \/ ApplicationLeaves(i)
          PROVE  /\ pc'[h] = pc[h] /\ line'[h] = line[h]
                 /\ faults' = faults \/ faults' = faults + 1
      BY <3>4 DEF ApplicationConnects, ApplicationLeaves, Fault, handlerVars
    <3> QED
      BY <1>1, <3>1, <3>2, <3>3, <3>4 DEF Next
  <2> QED
    BY <2>1, <2>2, <2>3, <2>4, Untouched
<1>2. IInv /\ IInv' /\ [Next]_vars => [Nearer]_vars
  BY <1>1
<1>3. [][Nearer]_vars => RequestsAdvance
  BY PTL DEF RequestsAdvance
<1> HIDE DEF Nearer
<1> QED
  BY <1>2, <1>3, InvAlways, PTL DEF Spec
=============================================================================
