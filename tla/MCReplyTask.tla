---------------------------- MODULE MCReplyTask ----------------------------
(* TLC instances of ReplyTask.                                             *)
EXTENDS ReplyTask, TLC

Symmetry == Permutations(Worker)
=============================================================================
