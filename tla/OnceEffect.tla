---------------------------- MODULE OnceEffect ----------------------------
(***************************************************************************)
(* What the reviewed execution promises of an external action, whoever     *)
(* tries it, however often, and whatever crashes: its effect happens at    *)
(* most once, and a receipt is kept only of an effect that happened.       *)
(* ExternalAction implements this for the actions whose absence no         *)
(* read-back asserts.                                                      *)
(***************************************************************************)
EXTENDS Integers

CONSTANT Action

VARIABLES
    effects,  \* effects[k]: how often the effect of action k has happened
    receipts  \* the actions with a receipt

Init ==
    /\ effects = [k \in Action |-> 0]
    /\ receipts = {}

Happen(k) ==
    /\ effects[k] = 0
    /\ effects' = [effects EXCEPT ![k] = 1]
    /\ UNCHANGED receipts

Witness(k) ==
    /\ effects[k] = 1
    /\ receipts' = receipts \cup {k}
    /\ UNCHANGED effects

Next == \E k \in Action : Happen(k) \/ Witness(k)

Spec == Init /\ [][Next]_<<effects, receipts>>
=============================================================================
