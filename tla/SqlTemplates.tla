---------------------------- MODULE SqlTemplates ----------------------------
(***************************************************************************)
(* The templates of the provisioner and compileTemplate.  A text is a      *)
(* sequence of pieces: the verbs of fmt, brackets and quotes, the text     *)
(* that fmt writes for an argument without a verb, and anything else.      *)
(***************************************************************************)
EXTENDS Naturals, FiniteSets, SequencesExt

createDatabaseTemplate ==
    <<<<"create database", "[", "%[1]v", "]", "containment = partial">>>>

deleteDatabaseTemplate ==
    <<<<"alter database", "[", "%[1]v", "]", "set single_user with rollback immediate">>,
      <<"drop database", "[", "%[1]v", "]">>>>

createUserTemplate ==
    <<<<"use", "[", "%[1]v", "]">>,
      <<"create user", "[", "%[2]v", "]", "with password=", "'", "%[3]v", "'">>,
      <<"alter role", "[", "db_owner", "]", "add member", "[", "%[2]v", "]">>,
      <<"use master">>>>

deleteUserTemplate ==
    <<<<"use", "[", "%[1]v", "]">>,
      <<"drop user", "[", "%[2]v", "]">>,
      <<"use master">>>>

isDatabaseCreatedTemplate ==
    <<<<"select count(*) from [master].sys.databases where name =", "'", "%[1]v", "'">>>>

isUserCreatedTemplate ==
    <<<<"select count(*) from", "[", "%[1]v", "]", ".sys.database_principals where name =",
        "'", "%[2]v", "'">>>>

-----------------------------------------------------------------------------
Verbs == <<"%[1]v", "%[2]v", "%[3]v">>
IsVerb(p) == \E k \in DOMAIN Verbs : Verbs[k] = p
ArgumentOf(p) == CHOOSE k \in DOMAIN Verbs : Verbs[k] = p

(* The line with an argument, which is a text, in the place of its verb.   *)
Filled(line, args) ==
    FlattenSeq([n \in DOMAIN line |->
                   IF IsVerb(line[n]) THEN args[ArgumentOf(line[n])] ELSE <<line[n]>>])

(* fmt.Sprintf: arguments are superfluous when no verb names one.          *)
Extra == "%!(EXTRA"
Sprintf(line, args) ==
    IF args = <<>> \/ \E n \in DOMAIN line : IsVerb(line[n])
    THEN Filled(line, args)
    ELSE line \o <<Extra>> \o FlattenSeq(args) \o <<")">>

(* Mutant: what Sprintf adds for superfluous arguments is left.            *)
compileTemplateUntrimmed(line, args) == Sprintf(line, args)

compileTemplate(line, args) ==
    LET compiled == Sprintf(line, args)
        start == SelectLastInSeq(compiled, LAMBDA p : p = Extra)
    IN IF start = 0 THEN compiled ELSE SubSeq(compiled, 1, start - 1)

(* Whether the server finds each bracket and quote of a text closed, and   *)
(* only statements outside of them (counted, which is what the server does *)
(* as long as no argument opens or closes one of its own).                 *)
Count(text, p, n) == Cardinality({m \in 1..n : text[m] = p})
Quoted(text, n) ==
    \/ Count(text, "[", n) # Count(text, "]", n)
    \/ Count(text, "'", n) % 2 = 1
WellFormed(text) ==
    /\ ~Quoted(text, Len(text))
    /\ \A n \in DOMAIN text : text[n] = Extra => Quoted(text, n)

(* A line of a template has each verb in brackets or quotes, and otherwise *)
(* closes them.                                                            *)
Delimiters == {"[", "]", "'"}
Delimited(line) ==
    /\ \A n \in DOMAIN line : line[n] # Extra
    /\ \A n \in DOMAIN line : IsVerb(line[n]) => Quoted(line, n)
    /\ (\A n \in DOMAIN line : ~IsVerb(line[n])) => ~Quoted(line, Len(line))

(* An argument without a delimiter.  The passwords, which are base64, are; *)
(* nobody checks that an ID is one.                                        *)
Plain(arg) == \A n \in DOMAIN arg : arg[n] \notin Delimiters
=============================================================================
