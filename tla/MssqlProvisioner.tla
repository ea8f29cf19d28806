-------------------------- MODULE MssqlProvisioner --------------------------
(***************************************************************************)
(* provisioner/provisioner.go: the SQL templates and the two loops that    *)
(* execute them, line by line, with and without a transaction.  A handler  *)
(* is in a call of the provisioner while pc[h] \in Calls; what it does     *)
(* when the call returns is the caller's part (MssqlServiceBroker).        *)
(*                                                                         *)
(* Executing a statement and the handler's purely local reaction to its    *)
(* reply are one step: the next statement is the next visible event.       *)
(***************************************************************************)
EXTENDS SqlServer, Naturals, Sequences

CONSTANTS
    DriverResends,  \* TRUE: go-mssqldb (ErrBadConn is retried by database/sql)
    MaxFaults       \* bound on the failures from outside in a behaviour

ASSUME DriverResendsAssumption == DriverResends \in BOOLEAN
ASSUME MaxFaultsAssumption == MaxFaults \in Nat

VARIABLES
    op,             \* op[h]: the operation the handler serves
    pc,             \* pc[h]: the call it is in, or what the operation returned
    line,           \* line[h]: the next line of the template
    proc,           \* proc[k]: process k is "down", "starting" or "serving"
    orphan,         \* requests at the server whose client no longer waits
    faults          \* number of failures from outside so far

Ops == {"provision", "deprovision", "bind", "unbind"}

CreateDatabaseTemplate == <<"create database">>

(* Mutant: the database is closed but not dropped.                          *)
DeleteDatabaseTemplateNoDrop == <<"set single_user">>

DeleteDatabaseTemplate == <<"set single_user", "drop database">>

(* Mutant: a user that is created but never made a db_owner.                *)
CreateUserTemplateNoRole == <<"use", "create user", "use master">>

CreateUserTemplate == <<"use", "create user", "add role", "use master">>

(* Mutant: the transaction commits in the context of the database.          *)
DeleteUserTemplateNoMaster == <<"use", "drop user">>

DeleteUserTemplate == <<"use", "drop user", "use master">>

(* Mutant: DeleteUser executes the template of DeleteDatabase.              *)
TemplateMixedUp(o) ==
    CASE o = "provision" -> CreateDatabaseTemplate
      [] o = "bind"      -> CreateUserTemplate
      [] OTHER           -> DeleteDatabaseTemplate

Template(o) ==
    CASE o = "provision"   -> CreateDatabaseTemplate
      [] o = "deprovision" -> DeleteDatabaseTemplate
      [] o = "bind"        -> CreateUserTemplate
      [] o = "unbind"      -> DeleteUserTemplate

(* CreateUser and DeleteUser use executeTemplateWithTx, the others do not. *)
WithTx == {"bind", "unbind"}

Queries == {"IsDatabaseCreated", "IsUserCreated"}
Execs == {"begin", "exec", "commit", "rollback"}
Calls == Queries \cup Execs

-----------------------------------------------------------------------------
Running(h) == h \notin orphan

Goto(h, where) == pc' = [pc EXCEPT ![h] = where]

Fault == faults < MaxFaults /\ faults' = faults + 1

Statement(h) == IF pc[h] = "exec" THEN Template(op[h])[line[h]] ELSE pc[h]

LastLine(h) == line[h] = Len(Template(op[h]))

(* Mutant: after a failed line the transaction is begun again.              *)
FailStartsOver(h) ==
    Goto(h, IF pc[h] = "exec" /\ op[h] \in WithTx THEN "begin" ELSE "panic")

(* An error of a template line rolls the transaction back first.  Every    *)
(* other error, and the one of the rollback itself, ends in a panic: of    *)
(* executeTemplateWithTx, or logger.Fatal in the caller.                   *)
Fail(h) ==
    Goto(h, IF pc[h] = "exec" /\ op[h] \in WithTx THEN "rollback" ELSE "panic")

-----------------------------------------------------------------------------
(* Mutant: sys.databases is asked for databases in multi_user mode.         *)
DatabaseOpen(h) == mode[args[h].db] = "multi"

DatabaseExists(h) == mode[args[h].db] # "absent"

UserExists(h) == users[args[h].db][args[h].user] # NoUser

(* select count( * ) from [db].sys.database_principals needs the database. *)
DatabaseReadable(h) ==
    /\ DatabaseExists(h)
    /\ mode[args[h].db] = "single" => ~InUseByOthers(h, args[h].db)

-----------------------------------------------------------------------------
Begin(h) ==
    /\ Running(h) /\ pc[h] = "begin"
    /\ Succeeds("begin", h)
    /\ Goto(h, "exec")
    /\ UNCHANGED <<args, op, line, orphan, faults, proc>>

(* One round of the loop over the template.                                *)
ExecLine(h) ==
    /\ Running(h) /\ pc[h] = "exec"
    /\ Succeeds(Statement(h), h)
    /\ IF LastLine(h)
       THEN /\ Goto(h, IF op[h] \in WithTx THEN "commit" ELSE "nil")
            /\ UNCHANGED line
       ELSE /\ line' = [line EXCEPT ![h] = @ + 1]
            /\ UNCHANGED pc
    /\ UNCHANGED <<args, op, orphan, faults, proc>>

Commit(h) ==
    /\ Running(h) /\ pc[h] = "commit"
    /\ Succeeds("commit", h)
    /\ Goto(h, "nil")
    /\ UNCHANGED <<args, op, line, orphan, faults, proc>>

Rollback(h) ==
    /\ Running(h) /\ pc[h] = "rollback"
    /\ Succeeds("rollback", h)
    /\ Goto(h, "panic")
    /\ UNCHANGED <<args, op, line, orphan, faults, proc>>

(* The server refuses the outstanding statement.                           *)
StatementRefused(h) ==
    /\ Running(h) /\ pc[h] \in Execs
    /\ Refused(Statement(h), h)
    /\ Fail(h)
    /\ UNCHANGED <<serverVars, args, op, line, orphan, faults, proc>>

(* A call fails without an effect: no connection, a lock the server cannot *)
(* get, a deadline before the server has seen the statement.  What may     *)
(* still be executed after its call has failed is GiveUp.                  *)
CallFails(h) ==
    /\ Running(h) /\ pc[h] \in Calls
    /\ Fault
    /\ Fail(h)
    /\ UNCHANGED <<serverVars, args, op, line, orphan, proc>>

(* The statement was executed, its reply is lost.  With go-mssqldb the     *)
(* connection is reported bad and database/sql sends the statement again,  *)
(* unless it is part of a transaction.                                     *)
Resends(h) ==
    DriverResends /\ (pc[h] = "begin" \/ (pc[h] = "exec" /\ op[h] \notin WithTx))

ReplyLost(h) ==
    /\ Running(h) /\ pc[h] \in Execs
    /\ Fault
    /\ Succeeds(Statement(h), h)
    /\ Fail(h) \/ (Resends(h) /\ UNCHANGED pc)
    /\ UNCHANGED <<args, op, line, orphan, proc>>
=============================================================================
