-------------------------- MODULE DeploymentDrain --------------------------
(***************************************************************************)
(* How a deployment stops new work and waits for running work before it    *)
(* stops the service: app/deployment_drain.py (two flock files), the claim *)
(* transactions that go through it, the quiet wait and the stop, restart   *)
(* and rollback of app/repository_updater.py.                              *)
(*                                                                         *)
(* A slot is a claimer together with the work it claims: a dispatcher      *)
(* source, an Email action, a Workbench turn.  All slots belong to         *)
(* processes the deployment stops.  Deployers exclude each other by the    *)
(* repository mutex, so there is one.  A lock on a file is held through a  *)
(* descriptor and is gone when the descriptor is closed or its process     *)
(* dies.                                                                   *)
(***************************************************************************)
EXTENDS Integers, FiniteSets

CONSTANTS
    Slot,        \* claimers and their work
    Deployer,    \* the process that deploys
    Nobody,      \* holder of a free gate
    LeaseLoss,   \* slots whose handler may lose its lease (late renewal)
    Deadline     \* whether the deployer's waits may time out

ASSUME DrainAssumption ==
    /\ Deployer \notin Slot
    /\ Nobody \notin Slot \cup {Deployer}
    /\ LeaseLoss \subseteq Slot
    /\ Deadline \in BOOLEAN

VARIABLES
    up,        \* whether the service runs
    gate,      \* holder of the exclusive lock on .deployment-admission.lock
    sharers,   \* slots with a shared lock on .deployment-drain.lock
    exclusive, \* whether the deployer holds that lock exclusively
    slot,      \* slot[c]: where a claimer, or the work it claimed, is
    leased,    \* slots whose claim row has an unexpired lease
    deployer   \* where the deployer is

vars == <<up, gate, sharers, exclusive, slot, leased, deployer>>

Admitting == {"gated", "shared", "writing", "committed"}
Running == {"between", "turn"}       \* a handler: between two turns, in a turn
SlotPhase == {"idle"} \cup Admitting \cup Running

DeployerPhase == {"out", "asking", "waiting", "draining", "quiet", "stopped",
                  "restarted", "closing", "dying"}

-----------------------------------------------------------------------------
(* claim_connection, and the work that follows the claim.                  *)

\* Faulty: claimers go for the shared lock without asking at the gate.
SkipGate(c) ==
    /\ up
    /\ slot[c] = "idle" /\ c \notin leased
    /\ slot' = [slot EXCEPT ![c] = "gated"]
    /\ UNCHANGED <<up, gate, sharers, exclusive, leased, deployer>>

\* The gate is tried without blocking; when it is taken, by the deployer or
\* by another claimer, the claim yields None and the poll finds nothing.
TryGate(c) ==
    /\ up
    /\ slot[c] = "idle" /\ c \notin leased
    /\ gate = Nobody
    /\ gate' = c
    /\ slot' = [slot EXCEPT ![c] = "gated"]
    /\ UNCHANGED <<up, sharers, exclusive, leased, deployer>>

\* Faulty: the shared lock does not wait for the exclusive one.
TakeSharedAnyway(c) ==
    /\ slot[c] = "gated"
    /\ sharers' = sharers \cup {c}
    /\ slot' = [slot EXCEPT ![c] = "shared"]
    /\ UNCHANGED <<up, gate, exclusive, leased, deployer>>

\* The shared lock blocks, with the gate held, while the other is exclusive.
TakeShared(c) ==
    /\ slot[c] = "gated"
    /\ ~exclusive
    /\ sharers' = sharers \cup {c}
    /\ slot' = [slot EXCEPT ![c] = "shared"]
    /\ UNCHANGED <<up, gate, exclusive, leased, deployer>>

\* The gate is closed before the SQLite transaction begins.
LeaveGate(c) ==
    /\ slot[c] = "shared"
    /\ gate' = Nobody
    /\ slot' = [slot EXCEPT ![c] = "writing"]
    /\ UNCHANGED <<up, sharers, exclusive, leased, deployer>>

\* Faulty: the claim is committed without a lease.
CommitUnleased(c) ==
    /\ slot[c] = "writing"
    /\ slot' = [slot EXCEPT ![c] = "committed"]
    /\ UNCHANGED <<up, gate, sharers, exclusive, leased, deployer>>

\* The transaction commits a claim with its lease.
Commit(c) ==
    /\ slot[c] = "writing"
    /\ slot' = [slot EXCEPT ![c] = "committed"]
    /\ leased' = leased \cup {c}
    /\ UNCHANGED <<up, gate, sharers, exclusive, deployer>>

\* Faulty: a transaction that claims nothing leaves its descriptor open.
ClaimNothingHolding(c) ==
    /\ slot[c] = "writing"
    /\ slot' = [slot EXCEPT ![c] = "idle"]
    /\ UNCHANGED <<up, gate, sharers, exclusive, leased, deployer>>

\* Nothing was due, or the transaction failed: the shared lock goes with it.
ClaimNothing(c) ==
    /\ slot[c] = "writing"
    /\ slot' = [slot EXCEPT ![c] = "idle"]
    /\ sharers' = sharers \ {c}
    /\ UNCHANGED <<up, gate, exclusive, leased, deployer>>

\* The drain lock outlives the transaction; then the work is submitted.
LeaveDrain(c) ==
    /\ slot[c] = "committed"
    /\ sharers' = sharers \ {c}
    /\ slot' = [slot EXCEPT ![c] = "between"]
    /\ UNCHANGED <<up, gate, exclusive, leased, deployer>>

BeginTurn(c) ==
    /\ slot[c] = "between"
    /\ slot' = [slot EXCEPT ![c] = "turn"]
    /\ UNCHANGED <<up, gate, sharers, exclusive, leased, deployer>>

EndTurn(c) ==
    /\ slot[c] = "turn"
    /\ slot' = [slot EXCEPT ![c] = "between"]
    /\ UNCHANGED <<up, gate, sharers, exclusive, leased, deployer>>

\* Faulty: finished work keeps a phase of its own.
FinishAside(c) ==
    /\ slot[c] = "between"
    /\ slot' = [slot EXCEPT ![c] = "finished"]
    /\ leased' = leased \ {c}
    /\ UNCHANGED <<up, gate, sharers, exclusive, deployer>>

Finish(c) ==
    /\ slot[c] = "between"
    /\ slot' = [slot EXCEPT ![c] = "idle"]
    /\ leased' = leased \ {c}
    /\ UNCHANGED <<up, gate, sharers, exclusive, deployer>>

\* A renewal that failed is not repeated: the lease runs out, the work runs on.
LoseLease(c) ==
    /\ c \in LeaseLoss
    /\ slot[c] \in Running
    /\ leased' = leased \ {c}
    /\ UNCHANGED <<up, gate, sharers, exclusive, slot, deployer>>

\* The lease of work that a dead process left behind runs out or is cleared.
LeaseEnds(c) ==
    /\ slot[c] = "idle"
    /\ leased' = leased \ {c}
    /\ UNCHANGED <<up, gate, sharers, exclusive, slot, deployer>>

-----------------------------------------------------------------------------
(* deployment_drain and RepositoryUpdater.execute.                         *)

\* Faulty: only the turns are counted, not the leases.
CountedTurns(c) == slot[c] = "turn"

Counted(c) == slot[c] = "turn" \/ c \in leased

\* Processes end, and with them their locks and handlers; leases are rows.
Killed(dead) ==
    /\ slot' = [c \in Slot |-> IF c \in dead THEN "idle" ELSE slot[c]]
    /\ sharers' = sharers \ dead
    /\ gate' = IF gate \in dead THEN Nobody ELSE gate
    /\ UNCHANGED leased

Ask ==
    /\ deployer = "out"
    /\ deployer' = "asking"
    /\ UNCHANGED <<up, gate, sharers, exclusive, slot, leased>>

\* _exclusive_until(gate): polled until it is free.
CloseGate ==
    /\ deployer = "asking"
    /\ gate = Nobody
    /\ gate' = Deployer
    /\ deployer' = "waiting"
    /\ UNCHANGED <<up, sharers, exclusive, slot, leased>>

\* Faulty: the lock is taken while claim transactions still share it.
TakeDrainShared ==
    /\ deployer = "waiting"
    /\ exclusive' = TRUE
    /\ deployer' = "draining"
    /\ UNCHANGED <<up, gate, sharers, slot, leased>>

\* _exclusive_until(lock): polled until no claim transaction is left.
TakeDrain ==
    /\ deployer = "waiting"
    /\ sharers = {}
    /\ exclusive' = TRUE
    /\ deployer' = "draining"
    /\ UNCHANGED <<up, gate, sharers, slot, leased>>

\* wait_until_quiet: one statement counts the work a restart would cut off.
SeeQuiet ==
    /\ deployer = "draining"
    /\ \A c \in Slot : ~Counted(c)
    /\ deployer' = "quiet"
    /\ UNCHANGED <<up, gate, sharers, exclusive, slot, leased>>

\* bootout, before the update and again before a rollback.
Stop ==
    /\ deployer \in {"quiet", "restarted"}
    /\ deployer' = "stopped"
    /\ up' = FALSE
    /\ Killed(Slot)
    /\ UNCHANGED exclusive

\* The new code, or the original one on rollback.
Restart ==
    /\ deployer = "stopped"
    /\ deployer' = "restarted"
    /\ up' = TRUE
    /\ UNCHANGED <<gate, sharers, exclusive, slot, leased>>

\* The deployment ends, well or not: the drain's descriptor is closed first.
LeaveExclusive ==
    /\ deployer \in {"draining", "quiet", "stopped", "restarted"}
    /\ deployer' = "closing"
    /\ exclusive' = FALSE
    /\ UNCHANGED <<up, gate, sharers, slot, leased>>

OpenGate ==
    /\ deployer = "closing"
    /\ deployer' = "out"
    /\ gate' = Nobody
    /\ UNCHANGED <<up, sharers, exclusive, slot, leased>>

\* DeploymentDrainTimeout closes whatever was open.
TimeOut ==
    /\ Deadline
    /\ deployer \in {"asking", "waiting"}
    /\ deployer' = "out"
    /\ gate' = IF gate = Deployer THEN Nobody ELSE gate
    /\ UNCHANGED <<up, sharers, exclusive, slot, leased>>

\* The deploy process dies: its descriptors are closed in the order they
\* were opened, the gate before the drain.
DeployerDies ==
    /\ deployer \notin {"out", "dying"}
    /\ deployer' = "dying"
    /\ gate' = IF gate = Deployer THEN Nobody ELSE gate
    /\ UNCHANGED <<up, sharers, exclusive, slot, leased>>

\* Faulty: a lock that outlives the process that held it.
DeployerGoneLocked ==
    /\ deployer = "dying"
    /\ deployer' = "out"
    /\ UNCHANGED <<up, gate, sharers, exclusive, slot, leased>>

DeployerGone ==
    /\ deployer = "dying"
    /\ deployer' = "out"
    /\ exclusive' = FALSE
    /\ UNCHANGED <<up, gate, sharers, slot, leased>>

\* Some processes of the service crash; the supervisor starts them again.
ServiceCrash ==
    /\ up
    /\ \E dead \in SUBSET Slot : Killed(dead)
    /\ UNCHANGED <<up, exclusive, deployer>>

\* A service left stopped by a deployment is started by hand.
StartByHand ==
    /\ deployer = "out"
    /\ ~up
    /\ up' = TRUE
    /\ UNCHANGED <<gate, sharers, exclusive, slot, leased, deployer>>

-----------------------------------------------------------------------------
Init ==
    /\ up = TRUE
    /\ gate = Nobody
    /\ sharers = {}
    /\ exclusive = FALSE
    /\ slot = [c \in Slot |-> "idle"]
    /\ leased = {}
    /\ deployer = "out"

AdmissionStep(c) ==
    TakeShared(c) \/ LeaveGate(c) \/ Commit(c) \/ ClaimNothing(c) \/ LeaveDrain(c)

SlotStep(c) ==
    \/ TryGate(c) \/ AdmissionStep(c)
    \/ BeginTurn(c) \/ EndTurn(c) \/ Finish(c) \/ LoseLease(c)
    \/ LeaseEnds(c)

DeployStep ==
    \/ Ask \/ CloseGate \/ TakeDrain \/ SeeQuiet \/ Stop \/ Restart
    \/ LeaveExclusive \/ OpenGate \/ TimeOut \/ DeployerDies \/ DeployerGone

Next ==
    \/ \E c \in Slot : SlotStep(c)
    \/ DeployStep
    \/ ServiceCrash
    \/ StartByHand

Spec == Init /\ [][Next]_vars

\* A claim transaction runs to its end, a process that dies is gone, and the
\* deployer goes on.  No claimer has to try again and no handler has to end.
Fairness ==
    /\ \A c \in Slot : WF_vars(AdmissionStep(c))
    /\ WF_vars(TakeDrain)
    /\ WF_vars(LeaveExclusive)
    /\ WF_vars(OpenGate)
    /\ WF_vars(DeployerGone)

FairSpec == Spec /\ Fairness

-----------------------------------------------------------------------------
(* Properties.                                                             *)

TypeOK ==
    /\ up \in BOOLEAN
    /\ gate \in Slot \cup {Deployer, Nobody}
    /\ sharers \in SUBSET Slot
    /\ exclusive \in BOOLEAN
    /\ slot \in [Slot -> SlotPhase]
    /\ leased \in SUBSET Slot
    /\ deployer \in DeployerPhase

\* Who holds which lock: the descriptors agree with the code that opened them.
LocksHeld ==
    /\ \A c \in Slot : (gate = c) <=> slot[c] \in {"gated", "shared"}
    /\ (gate = Deployer) <=>
          deployer \in {"waiting", "draining", "quiet", "stopped", "restarted", "closing"}
    /\ \A c \in Slot : (c \in sharers) <=> slot[c] \in {"shared", "writing", "committed"}
    /\ deployer \in {"draining", "quiet", "stopped", "restarted"} => exclusive
    /\ exclusive => deployer \in {"draining", "quiet", "stopped", "restarted", "dying"}
    /\ exclusive => sharers = {}

\* A handler keeps its lease while it works, if its renewals do not fail: this
\* is what makes the leases a count of the running work.
WorkIsLeased ==
    \A c \in Slot \ LeaseLoss : slot[c] \in {"committed"} \cup Running => c \in leased

\* No claim transaction is open anywhere while a deployment has drained: from
\* the quiet check through backup, update, restart, health and rollback.
NoClaimDuringDrain ==
    deployer \in {"draining", "quiet", "stopped", "restarted"} =>
        \A c \in Slot : slot[c] \notin Admitting

\* The service is never stopped over leased work: from the quiet check on,
\* through stop, restart and rollback, no handler that keeps its lease is at
\* work, whatever becomes of the leases of others.
NeverRestartOverLeased ==
    deployer \in {"quiet", "stopped", "restarted"} =>
        \A c \in Slot \ LeaseLoss : slot[c] \notin Running

\* What wait_until_quiet says of itself: the service is never stopped over
\* running work.
NeverRestartOverWork ==
    deployer \in {"quiet", "stopped", "restarted"} =>
        \A c \in Slot : slot[c] \notin Running

\* Locks, leases and phases implement the promise of the drain: a claim
\* commits only outside of it, not even behind a dying deployer with the gate
\* already open, and the service is stopped and restarted only over work that
\* lost its lease.
AtWork == {c \in Slot : slot[c] \in {"committed"} \cup Running}

Door ==
    IF deployer \in {"quiet", "stopped", "restarted"} THEN "quiet"
    ELSE IF exclusive THEN "shut" ELSE "open"

Promise == INSTANCE Quiescence WITH
    Worker <- Slot, Kept <- Slot \ LeaseLoss, door <- Door, working <- AtWork

ImplementsQuiescence == Promise!Spec

\* Claimers cannot starve a deployer that has closed the gate.
ClosedGateDrains ==
    deployer = "waiting" ~> deployer # "waiting"

\* A claimer that got through the gate finishes its transaction: it never
\* waits forever behind a deployer, alive or dead.
AdmittedClaimEnds ==
    \A c \in Slot : slot[c] \in Admitting ~> slot[c] \notin Admitting
=============================================================================
