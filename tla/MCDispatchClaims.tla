-------------------------- MODULE MCDispatchClaims --------------------------
(* TLC instances of DispatchClaims.                                        *)
EXTENDS DispatchClaims, TLC

Symmetry == Permutations(Task) \cup Permutations(Slot) \cup Permutations(Pid)
=============================================================================
