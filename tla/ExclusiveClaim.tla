--------------------------- MODULE ExclusiveClaim ---------------------------
(***************************************************************************)
(* What the dispatcher promises of a queued source, with no lease, owner,  *)
(* generation, guard or clock: a source is taken only while nobody works   *)
(* on it and it is not settled; whoever works on it leaves, alone or with  *)
(* the whole process; a source is settled once, for good, and only when    *)
(* nobody is left at work on it.  DispatchClaims implements this where no  *)
(* stale-lock recovery runs.                                               *)
(***************************************************************************)
CONSTANTS
    Source,   \* what can be claimed
    Worker    \* who may work on it

VARIABLES
    workers,  \* workers[x]: who works on source x
    settled   \* the sources whose outcome is final

Init ==
    /\ workers = [x \in Source |-> {}]
    /\ settled = {}

Take(x, w) ==
    /\ x \notin settled
    /\ workers[x] = {}
    /\ \A y \in Source : w \notin workers[y]
    /\ workers' = [workers EXCEPT ![x] = {w}]
    /\ UNCHANGED settled

\* One worker that ends, or all of them in a crash; what ends may be settled
\* by it, and so may a source that nobody works on.
Leave(gone, ended) ==
    /\ workers' = [x \in Source |-> workers[x] \ gone]
    /\ settled' = settled \cup ended
    /\ \A x \in ended : workers'[x] = {}

Next ==
    \/ \E x \in Source, w \in Worker : Take(x, w)
    \/ \E gone \in SUBSET Worker, ended \in SUBSET Source : Leave(gone, ended)

Spec == Init /\ [][Next]_<<workers, settled>>
=============================================================================
