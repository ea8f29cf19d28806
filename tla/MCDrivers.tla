------------------------------ MODULE MCDrivers ------------------------------
(***************************************************************************)
(* The calls of the provisioner, with names as Cloud Foundry makes them,   *)
(* with names that have the mark of fmt in them, and with one that has a   *)
(* bracket.                                                                *)
(***************************************************************************)
EXTENDS SqlDrivers

Database == <<"database">>
User == <<"user">>
Marked == <<"a", Extra, "b">>
Bracketed == <<"a", "]", "b">>

ACall(kind, template, args) == [kind |-> kind, template |-> template, args |-> args]

TheCalls ==
    {ACall("exec", createDatabaseTemplate, <<Database>>),
     ACall("exec", deleteDatabaseTemplate, <<Database>>),
     ACall("tx", createUserTemplate, <<Database, User, <<"password">>>>),
     ACall("tx", deleteUserTemplate, <<Database, User>>),
     ACall("query", isDatabaseCreatedTemplate, <<Database>>),
     ACall("query", isUserCreatedTemplate, <<Database, Marked>>),
     ACall("exec", createDatabaseTemplate, <<Marked>>),
     ACall("exec", deleteDatabaseTemplate, <<Marked>>),
     ACall("tx", createUserTemplate, <<Database, Marked, <<"password">>>>),
     ACall("tx", deleteUserTemplate, <<Marked, User>>),
     ACall("exec", createDatabaseTemplate, <<Bracketed>>)}
=============================================================================
