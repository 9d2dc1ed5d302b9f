------------------------- MODULE MCDeploymentDrain -------------------------
(* TLC instances of DeploymentDrain.                                       *)
EXTENDS DeploymentDrain, TLC

Symmetry == Permutations(Slot)
=============================================================================
