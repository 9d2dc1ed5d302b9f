------------------------- MODULE MCExternalAction -------------------------
(* TLC instances of ExternalAction.                                        *)
EXTENDS ExternalAction, TLC

CONSTANTS send, reply, append

\* The second candidate repeats both messages of the first, the other way
\* round, and then adds an approver.
Repeated == <<<<send, reply>>, <<reply, send, append>>>>

\* One candidate that adds an approver.
Single == <<<<append>>>>

Symmetry == Permutations(Executor)
=============================================================================
