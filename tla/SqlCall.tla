------------------------------ MODULE SqlCall ------------------------------
(***************************************************************************)
(* One call of the provisioner, on either driver: a template in a          *)
(* transaction, a template line by line, or a query.                       *)
(***************************************************************************)
EXTENDS SqlTemplates

CONSTANT Calls      \* the calls: [kind: {"tx", "exec", "query"}, template, args]

ASSUME CallsType ==
    \A c \in Calls :
        /\ c.kind \in {"tx", "exec", "query"}
        /\ c.template \in Seq(Seq(STRING)) \ {<<>>} /\ c.args \in Seq(Seq(STRING))

(* What the templates see to, whatever the arguments are: the IDs among    *)
(* them come from the URL as they are (mssql_service_broker.go:44, 92-93). *)
ASSUME CallsTemplated ==
    \A c \in Calls : \A n \in DOMAIN c.template :
        /\ Delimited(c.template[n])
        /\ \A m \in DOMAIN c.template[n] :
              IsVerb(c.template[n][m]) => ArgumentOf(c.template[n][m]) \in DOMAIN c.args

VARIABLES
    driver,         \* goSqlDriver
    call,           \* the call
    pc,             \* how far it is
    req, line,      \* the request it makes, and the line of the template
    applied         \* the lines that have taken effect, in this order

callVars == <<driver, call, pc, req, line, applied>>

InTx == call.kind = "tx"

(* The lines of the template, and what the server makes of one.            *)
LastLine == Len(call.template)
Text(n) == compileTemplate(call.template[n], call.args)
Understood(n) == WellFormed(Text(n))

(* The requests of a call: one query, each line, or a transaction.         *)
First == CASE call.kind = "tx" -> "begin"
           [] call.kind = "exec" -> "line"
           [] call.kind = "query" -> "query"

CallInit ==
    /\ driver \in {"mssql", "odbc"}
    /\ call \in Calls
    /\ pc = "idle" /\ req = First /\ line = 1
    /\ applied = <<>>

(* The provisioner makes the call, and database/sql opens a connection.    *)
Start ==
    /\ pc = "idle" /\ pc' = "connect"
    /\ UNCHANGED <<driver, call, req, line, applied>>

Over == {"ok", "failed", "panic"}

-----------------------------------------------------------------------------
(* The call as its caller sees it.                                         *)
Stage ==
    CASE pc = "idle" -> "idle"
      [] pc = "ok" -> "ok"
      [] pc \in {"failed", "panic"} -> IF InTx /\ req # "commit" THEN "undone" ELSE "failed"
      [] OTHER -> "busy"

Delivery == INSTANCE SqlDelivery WITH called <- call, stage <- Stage

(* What a driver may be asked to repeat (driver.ErrBadConn), what it       *)
(* reports, and what the server does after the client has given up: a      *)
(* transaction takes effect as a whole and once, and not at all when one   *)
(* of its lines has failed, and a call that succeeds has had its effects   *)
(* (provisioner.go:137-194 on mssql.go:156-267, on odbc tx.go and stmt.go).*)
ImplementsDelivery == Delivery!DeliverySpec
=============================================================================
