----------------------------- MODULE SqlServer -----------------------------
(***************************************************************************)
(* The SQL Server instance the broker manages, as far as the statements of *)
(* provisioner.go can tell.  SQL Server is not part of the repository: the *)
(* statements are those of the templates (provisioner.go:13-43), and what  *)
(* they do is modelled from how the broker uses them.                      *)
(*                                                                         *)
(* A session belongs to a request handler.  Outside a transaction every    *)
(* statement has a connection of its own (SetMaxIdleConns(0)), so only a   *)
(* transaction leaves a session behind between two statements.             *)
(***************************************************************************)

CONSTANTS
    Instances,      \* service instance IDs; the database name is prefix + ID
    Bindings,       \* binding IDs; the user name is database name + "-" + ID
    Passwords,      \* what secureRandomString can return
    Handlers,       \* request handlers, each with its own session
    None            \* absence of a binding or of a password

ASSUME NoneAssumption == None \notin Bindings \cup Passwords \cup Instances

VARIABLES
    mode,           \* mode[i]: "absent", or the database's user access mode
    users,          \* users[i][b]: the committed contained database users
    guest,          \* guest[i]: a session from outside the broker is in i
    txn,            \* txn[h]: the uncommitted work of the session of h
    at,             \* at[h]: the database context of the session of h
    args            \* args[h]: the template arguments of the statements of h

databaseVars == <<mode, users, guest>>
sessionVars == <<txn, at>>
serverVars == <<mode, users, guest, txn, at>>

NoUser == [pwd |-> None, owner |-> FALSE]
User == [pwd : Passwords \cup {None}, owner : BOOLEAN]

NoArgs == [db |-> None, user |-> None, pwd |-> None]
Args == [db : Instances \cup {None}, user : Bindings \cup {None},
         pwd : Passwords \cup {None}]

ServerTypeOK ==
    /\ mode \in [Instances -> {"absent", "multi", "single"}]
    /\ users \in [Instances -> [Bindings -> User]]
    /\ guest \in [Instances -> BOOLEAN]
    /\ txn \in [Handlers -> {"none", "clean", "created", "owner", "dropped"}]
    /\ at \in [Handlers -> {"master", "database"}]
    /\ args \in [Handlers -> Args]

ServerInit ==
    /\ mode = [i \in Instances |-> "absent"]
    /\ users = [i \in Instances |-> [b \in Bindings |-> NoUser]]
    /\ guest = [i \in Instances |-> FALSE]
    /\ txn = [h \in Handlers |-> "none"]
    /\ at = [h \in Handlers |-> "master"]

-----------------------------------------------------------------------------
(* Who is in a database, and who holds an exclusive lock on a user.        *)

Dirty(g) == txn[g] \in {"created", "owner", "dropped"}

Occupies(g, i) ==
    /\ txn[g] # "none"
    /\ args[g].db = i
    /\ at[g] = "database" \/ Dirty(g)

InUseByOthers(h, i) ==
    guest[i] \/ \E g \in Handlers \ {h} : Occupies(g, i)

LockedByOther(h) ==
    \E g \in Handlers \ {h} :
        /\ Dirty(g)
        /\ args[g].db = args[h].db
        /\ args[g].user = args[h].user

-----------------------------------------------------------------------------
(* What the server says to a statement of h: a change of a user waits for  *)
(* the transaction that has an uncommitted change of the same user; else   *)
(* the statement succeeds or is refused with an error.                     *)

Waits(s, h) == s \in {"create user", "drop user"} /\ LockedByOther(h)

Accepts(s, h) ==
    LET i == args[h].db
        b == args[h].user
    IN  \/ s = "create database" /\ mode[i] = "absent"
        \/ /\ s = "set single_user"
           /\ mode[i] # "absent"
           /\ mode[i] = "single" => ~InUseByOthers(h, i)
        \/ s = "drop database" /\ mode[i] # "absent" /\ ~InUseByOthers(h, i)
        \/ s = "begin"
        \/ /\ s = "use"
           /\ txn[h] # "none"
           /\ mode[i] # "absent"
           /\ mode[i] = "single" => ~InUseByOthers(h, i)
        \/ /\ s = "create user"
           /\ txn[h] = "clean"
           /\ at[h] = "database"
           /\ users[i][b] = NoUser
        \/ s = "add role" /\ txn[h] = "created"
        \/ /\ s = "drop user"
           /\ txn[h] = "clean"
           /\ at[h] = "database"
           /\ users[i][b] # NoUser
        \/ s \in {"use master", "commit", "rollback"} /\ txn[h] # "none"

(* What an accepted statement does.                                        *)

SetMode(h, m) == mode' = [mode EXCEPT ![args[h].db] = m]

SetTxn(h, t) == txn' = [txn EXCEPT ![h] = t]

(* "with rollback immediate" ends every other session in the database and  *)
(* rolls its transaction back.                                             *)
SetSingleUser(h) ==
    LET i == args[h].db
    IN  /\ SetMode(h, "single")
        /\ guest' = [guest EXCEPT ![i] = FALSE]
        /\ txn' = [g \in Handlers |->
                      IF g # h /\ Occupies(g, i) THEN "none" ELSE txn[g]]
        /\ at' = [g \in Handlers |->
                      IF g # h /\ Occupies(g, i) THEN "master" ELSE at[g]]
        /\ UNCHANGED users

DropDatabase(h) ==
    /\ SetMode(h, "absent")
    /\ users' = [users EXCEPT ![args[h].db] = [b \in Bindings |-> NoUser]]
    /\ UNCHANGED <<guest, txn, at>>

CommittedUser(h) ==
    LET a == args[h]
    IN  CASE txn[h] = "created" -> [pwd |-> a.pwd, owner |-> FALSE]
          [] txn[h] = "owner"   -> [pwd |-> a.pwd, owner |-> TRUE]
          [] OTHER              -> NoUser

CommitWork(h) ==
    /\ IF Dirty(h)
       THEN users' = [users EXCEPT ![args[h].db][args[h].user] = CommittedUser(h)]
       ELSE UNCHANGED users
    /\ SetTxn(h, "none")
    /\ at' = [at EXCEPT ![h] = "master"]
    /\ UNCHANGED <<mode, guest>>

(* The end of a session that did not commit.                               *)
EndSession(h) ==
    /\ SetTxn(h, "none")
    /\ at' = [at EXCEPT ![h] = "master"]
    /\ UNCHANGED databaseVars

MoveTo(h, d) == at' = [at EXCEPT ![h] = d] /\ UNCHANGED <<databaseVars, txn>>

Work(h, t) == SetTxn(h, t) /\ UNCHANGED <<databaseVars, at>>

Effect(s, h) ==
    \/ /\ s = "create database"
       /\ SetMode(h, "multi")
       /\ UNCHANGED <<users, guest, txn, at>>
    \/ s = "set single_user" /\ SetSingleUser(h)
    \/ s = "drop database" /\ DropDatabase(h)
    \/ s = "begin" /\ Work(h, "clean")
    \/ s = "use" /\ MoveTo(h, "database")
    \/ s = "create user" /\ Work(h, "created")
    \/ s = "add role" /\ Work(h, "owner")
    \/ s = "drop user" /\ Work(h, "dropped")
    \/ s = "use master" /\ MoveTo(h, "master")
    \/ s = "commit" /\ CommitWork(h)
    \/ s = "rollback" /\ EndSession(h)

Succeeds(s, h) == ~Waits(s, h) /\ Accepts(s, h) /\ Effect(s, h)

Refused(s, h) == ~Waits(s, h) /\ ~Accepts(s, h)

-----------------------------------------------------------------------------
(* Sessions that are not the broker's: an application that logs in with    *)
(* the credentials of a binding, and goes away again.                      *)

GuestArrives(i) ==
    /\ ~guest[i]
    /\ \E b \in Bindings : users[i][b] # NoUser
    /\ mode[i] = "single" => \A g \in Handlers : ~Occupies(g, i)
    /\ guest' = [guest EXCEPT ![i] = TRUE]
    /\ UNCHANGED <<mode, users, txn, at>>

GuestLeaves(i) ==
    /\ guest[i]
    /\ guest' = [guest EXCEPT ![i] = FALSE]
    /\ UNCHANGED <<mode, users, txn, at>>
=============================================================================
