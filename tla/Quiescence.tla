----------------------------- MODULE Quiescence -----------------------------
(***************************************************************************)
(* What the drain promises whoever deploys, with no lock file, gate, lease *)
(* or transaction: work begins only in a running service whose door is     *)
(* open; the deployer finds it quiet only behind a shut door and with none *)
(* of the kept work left; only then is the service stopped, and started    *)
(* again before the door opens or, after that, by hand.  Work that is not  *)
(* kept may be overlooked and cut off.  DeploymentDrain implements this,   *)
(* the kept work being that of handlers whose lease renewals do not fail.  *)
(***************************************************************************)
CONSTANTS
    Worker,   \* who may be at work
    Kept      \* those whose work is never cut off

VARIABLES
    door,     \* open to new work, shut, or found quiet
    working,  \* who is at work
    up        \* whether the service runs

Init ==
    /\ door = "open"
    /\ working = {}
    /\ up = TRUE

Begin(w) ==
    /\ up /\ door = "open"
    /\ working' = working \cup {w}
    /\ UNCHANGED <<door, up>>

\* Work ends, or its processes die.
End(gone) ==
    /\ working' = working \ gone
    /\ UNCHANGED <<door, up>>

Shut ==
    /\ door' = "shut"
    /\ UNCHANGED <<working, up>>

FindQuiet ==
    /\ door = "shut"
    /\ working \cap Kept = {}
    /\ door' = "quiet"
    /\ UNCHANGED <<working, up>>

Open ==
    /\ door' = "open"
    /\ UNCHANGED <<working, up>>

Stop ==
    /\ door = "quiet"
    /\ working' = {}
    /\ up' = FALSE
    /\ UNCHANGED door

Start ==
    /\ ~up
    /\ door # "shut"
    /\ up' = TRUE
    /\ UNCHANGED <<door, working>>

Next ==
    \/ \E w \in Worker : Begin(w)
    \/ \E gone \in SUBSET Worker : End(gone)
    \/ Shut \/ FindQuiet \/ Open \/ Stop \/ Start

Spec == Init /\ [][Next]_<<door, working, up>>
=============================================================================
