------------------------------ MODULE MCBroker ------------------------------
(* Small instances of the broker for TLC.                                  *)
EXTENDS BrokerLiveness, BrokerExpectations, TLC

CONSTANTS h1, h2, c1, k1, k2

(* Two handlers of one process, and room for a connection it gives up.     *)
OneProcess == [h \in Handlers |-> IF h = c1 THEN None ELSE k1]

(* A farm: each handler in a process of its own.                           *)
Farm == [h \in Handlers |-> CASE h = h1 -> k1 [] h = h2 -> k2 [] OTHER -> None]

(* Passwords, bindings, the two handlers of one process, and the two       *)
(* processes with their handlers, differ in nothing but their names.       *)
ProcessSymmetry ==
    Permutations(Passwords) \cup Permutations(Bindings) \cup Permutations({h1, h2})
FarmSymmetry ==
    Permutations(Passwords) \cup
        {(h1 :> h2) @@ (h2 :> h1) @@ (k1 :> k2) @@ (k2 :> k1)}
=============================================================================
