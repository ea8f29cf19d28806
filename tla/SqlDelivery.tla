---------------------------- MODULE SqlDelivery ----------------------------
(***************************************************************************)
(* What one call of the provisioner may expect of database/sql and its     *)
(* driver, whatever becomes of the connection.  The lines of a transaction *)
(* take effect together, once or not at all.  A line outside of one takes  *)
(* effect after the line before it has, perhaps again, perhaps after the   *)
(* call has ended.  A call that succeeds has had all its effects.          *)
(***************************************************************************)
EXTENDS Naturals, Sequences

CONSTANT Calls      \* the calls: [kind: {"tx", "exec", "query"}, template, ...]

VARIABLES
    called,         \* the call
    stage,          \* "idle", "busy", "ok", "failed"; "undone": failed, and
                    \* never to take effect
    applied         \* the lines that have taken effect, in this order

deliveryVars == <<called, stage, applied>>

Lines(c) == Len(c.template)
AllLines(c) == [n \in 1..Lines(c) |-> n]

DeliveryInit == called \in Calls /\ stage = "idle" /\ applied = <<>>

Invoke == stage = "idle" /\ stage' = "busy" /\ UNCHANGED <<called, applied>>

TakeEffect ==
    /\ stage \in {"busy", "ok", "failed"}
    /\ \/ called.kind = "tx" /\ applied = <<>> /\ applied' = AllLines(called)
       \/ /\ called.kind = "exec"
          /\ \E n \in 1..Lines(called) :
                /\ n = 1 \/ \E m \in DOMAIN applied : applied[m] = n - 1
                /\ applied' = Append(applied, n)
    /\ UNCHANGED <<called, stage>>

Succeed ==
    /\ stage = "busy" /\ stage' = "ok"
    /\ called.kind = "tx" => applied = AllLines(called)
    /\ called.kind = "exec" =>
          \A n \in 1..Lines(called) : \E m \in DOMAIN applied : applied[m] = n
    /\ UNCHANGED <<called, applied>>

Give == stage = "busy" /\ stage' = "failed" /\ UNCHANGED <<called, applied>>

Undo ==
    /\ stage = "busy" /\ stage' = "undone"
    /\ called.kind = "tx" /\ applied = <<>>
    /\ UNCHANGED <<called, applied>>

DeliveryNext == Invoke \/ TakeEffect \/ Succeed \/ Give \/ Undo

DeliverySpec == DeliveryInit /\ [][DeliveryNext]_deliveryVars
=============================================================================
