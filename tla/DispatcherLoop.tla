--------------------------- MODULE DispatcherLoop ---------------------------
(***************************************************************************)
(* The loop of app/dispatcher/service.py: passes over the queue adapters   *)
(* in turn, capacity that is reserved before a claim and given back by the *)
(* completion callbacks on the worker threads, and the event that wakes    *)
(* the loop between its bounded waits.                                     *)
(*                                                                         *)
(* Every adapter has a pool of workers of its own; those that run Agents   *)
(* also share one capacity.  What a claim, its lease and its renewal do to *)
(* the row is DispatchClaims; here a queue is only the number of its       *)
(* sources that are due.                                                   *)
(***************************************************************************)
EXTENDS Integers, Sequences, FiniteSets

CONSTANTS
    Adapter,        \* queue adapters
    Order,          \* the order in which they have their turn
    Agent,          \* shared_capacity_adapters
    Capacity,       \* max_in_flight, also the number of workers of a pool
    SharedCapacity, \* shared_max_in_flight
    Limit,          \* dispatch_limit: claims of one pass
    Future,         \* submitted futures
    None,           \* no adapter
    MaxDue,         \* bound: due sources of a queue
    MaxFaults       \* bound: faults

N == Len(Order)

ASSUME LoopAssumption ==
    /\ Order \in Seq(Adapter)
    /\ \A a \in Adapter : \E i \in 1 .. N : Order[i] = a
    /\ \A i, j \in 1 .. N : Order[i] = Order[j] => i = j
    /\ Adapter # {}
    /\ Agent \subseteq Adapter
    /\ Capacity \in [Adapter -> Nat \ {0}]
    /\ SharedCapacity \in Nat \ {0}
    /\ Limit \in Nat \ {0}
    /\ IsFiniteSet(Future)
    /\ None \notin Adapter
    /\ MaxDue \in Nat /\ MaxFaults \in Nat

VARIABLES
    pc,         \* where the loop is
    turn,       \* _next_adapter
    taken,      \* the adapter whose capacity is reserved for a claim
    seen,       \* the adapters passed in a row without a claim
    attempted,  \* claims of this pass
    submitted,  \* whether one of them was submitted
    inFlight,   \* _in_flight
    shared,     \* _shared_in_flight
    future,     \* _active: future[f] is the adapter of an unfinished future
    closing,    \* closing[a]: callbacks that have not signalled yet
    due,        \* due[a]: sources that can be claimed
    wake,       \* wake_event
    silent,     \* history: work came up with no signal since the pass began
    faults      \* faults so far

vars == <<pc, turn, taken, seen, attempted, submitted, inFlight, shared, future,
          closing, due, wake, silent, faults>>
pass == <<pc, turn, taken, seen, attempted, submitted>>
work == <<future, closing>>
signals == <<wake, silent>>

Fault == faults < MaxFaults /\ faults' = faults + 1

-----------------------------------------------------------------------------
(* Capacity.                                                               *)

Reserving(a) ==
    /\ inFlight' = [inFlight EXCEPT ![a] = @ + 1]
    /\ shared' = IF a \in Agent THEN shared + 1 ELSE shared

Releasing(a) ==
    /\ inFlight' = [inFlight EXCEPT ![a] = @ - 1]
    /\ shared' = IF a \in Agent THEN shared - 1 ELSE shared

\* Faulty: every queue waits for the capacity of the Agents.
RoomShared(a) == inFlight[a] < Capacity[a] /\ shared < SharedCapacity

Room(a) == inFlight[a] < Capacity[a] /\ (a \in Agent => shared < SharedCapacity)

-----------------------------------------------------------------------------
(* A pass of dispatch_available.                                           *)

\* What a pass counts starts anew with the next one.
NewPass == seen' = {} /\ attempted' = 0 /\ submitted' = FALSE

InPass == pc \in {"scan", "claiming", "submitting"}

\* Faulty: each pass begins with the first adapter.
BeginPassFirst ==
    /\ pc = "ready"
    /\ pc' = "scan" /\ turn' = 1
    /\ wake' = FALSE /\ silent' = FALSE
    /\ UNCHANGED <<taken, seen, attempted, submitted, inFlight, shared, work, due, faults>>

\* The event is cleared before the queues are looked at, not after.
BeginPass ==
    /\ pc = "ready"
    /\ pc' = "scan"
    /\ wake' = FALSE /\ silent' = FALSE
    /\ UNCHANGED <<turn, taken, seen, attempted, submitted, inFlight, shared, work,
                   due, faults>>

\* The adapter whose turn it is, and the next turn.
TakeTurn(a) ==
    /\ pc = "scan"
    /\ attempted < Limit /\ seen # Adapter
    /\ a = Order[turn]
    /\ turn' = IF turn = N THEN 1 ELSE turn + 1

SkipFull(a) ==
    /\ TakeTurn(a)
    /\ ~Room(a)
    /\ seen' = seen \cup {a}
    /\ UNCHANGED <<pc, taken, attempted, submitted, inFlight, shared, work, due,
                   signals, faults>>

Reserve(a) ==
    /\ TakeTurn(a)
    /\ Room(a)
    /\ Reserving(a)
    /\ taken' = a
    /\ pc' = "claiming"
    /\ UNCHANGED <<seen, attempted, submitted, work, due, signals, faults>>

ClaimEmpty(a) ==
    /\ pc = "claiming" /\ taken = a
    /\ Releasing(a)
    /\ taken' = None
    /\ seen' = seen \cup {a}
    /\ pc' = "scan"
    /\ UNCHANGED <<turn, attempted, submitted, work, due, wake>>

NothingDue(a) ==
    /\ due[a] = 0
    /\ ClaimEmpty(a)
    /\ UNCHANGED <<silent, faults>>

\* Another claimer is at the admission gate: the poll finds nothing.
GateBusy(a) ==
    /\ Fault
    /\ ClaimEmpty(a)
    /\ silent' = TRUE

Claim(a) ==
    /\ pc = "claiming" /\ taken = a
    /\ due[a] > 0
    /\ due' = [due EXCEPT ![a] = @ - 1]
    /\ attempted' = attempted + 1
    /\ seen' = {}
    /\ pc' = "submitting"
    /\ UNCHANGED <<turn, taken, submitted, inFlight, shared, work, signals, faults>>

Submit(a) ==
    /\ pc = "submitting" /\ taken = a
    /\ \E f \in Future :
         /\ future[f] = None
         /\ future' = [future EXCEPT ![f] = a]
    /\ taken' = None
    /\ submitted' = TRUE
    /\ pc' = "scan"
    /\ UNCHANGED <<turn, seen, attempted, inFlight, shared, closing, due,
                   signals, faults>>

\* The pool takes no work: the source and the capacity are given back.
Reject(a) ==
    /\ pc = "submitting" /\ taken = a
    /\ Fault
    /\ due' = [due EXCEPT ![a] = @ + 1]
    /\ Releasing(a)
    /\ taken' = None
    /\ silent' = TRUE
    /\ pc' = "scan"
    /\ UNCHANGED <<turn, seen, attempted, submitted, work, wake>>

PassOver == pc = "scan" /\ (attempted = Limit \/ seen = Adapter)

\* Faulty: the event is cleared when there was nothing to do.
EndPassClearing ==
    /\ PassOver
    /\ pc' = IF submitted THEN "ready" ELSE "waiting"
    /\ wake' = (wake /\ submitted)
    /\ NewPass
    /\ UNCHANGED <<turn, taken, inFlight, shared, work, due, silent, faults>>

EndPass ==
    /\ PassOver
    /\ pc' = IF submitted THEN "ready" ELSE "waiting"
    /\ NewPass
    /\ UNCHANGED <<turn, taken, inFlight, shared, work, due, signals, faults>>

\* The wait ends with the event, or after fallback_wait_seconds.
EndWait ==
    /\ pc = "waiting"
    /\ pc' = "ready"
    /\ UNCHANGED <<turn, taken, seen, attempted, submitted, inFlight, shared, work,
                   due, signals, faults>>

-----------------------------------------------------------------------------
(* The worker threads.                                                     *)

\* The handler has returned and _complete_future takes the future out and
\* gives the capacity back; the source may be due again at once.  Its worker
\* stays busy until the callback has ended.
Return(f, again) ==
    /\ future[f] # None
    /\ LET a == future[f] IN
         /\ closing[a] < Capacity[a]
         /\ due[a] + again <= MaxDue
         /\ due' = [due EXCEPT ![a] = @ + again]
         /\ Releasing(a)
         /\ closing' = [closing EXCEPT ![a] = @ + 1]
    /\ future' = [future EXCEPT ![f] = None]
    /\ UNCHANGED <<pass, signals, faults>>

\* Faulty: the capacity is given back again when the callback has ended.
SignalReleasing(a) ==
    /\ closing[a] > 0
    /\ closing' = [closing EXCEPT ![a] = @ - 1]
    /\ wake' = TRUE
    /\ Releasing(a)
    /\ UNCHANGED <<pass, future, due, silent, faults>>

\* The callback has written what became of the claim and wakes the loop.
Signal(a) ==
    /\ closing[a] > 0
    /\ closing' = [closing EXCEPT ![a] = @ - 1]
    /\ wake' = TRUE
    /\ UNCHANGED <<pass, inFlight, shared, future, due, silent, faults>>

\* Its writes raise: nobody is told that there is capacity again.
SignalLost(a) ==
    /\ closing[a] > 0
    /\ Fault
    /\ closing' = [closing EXCEPT ![a] = @ - 1]
    /\ silent' = TRUE
    /\ UNCHANGED <<pass, inFlight, shared, future, due, wake>>

-----------------------------------------------------------------------------
(* Producers, and the process.                                             *)

\* A source becomes due: a producer of this process says so, another
\* process or the end of a backoff does not.
Arrive(a) ==
    /\ due[a] < MaxDue
    /\ due' = [due EXCEPT ![a] = @ + 1]
    /\ \/ wake' = TRUE /\ UNCHANGED silent
       \/ silent' = TRUE /\ UNCHANGED wake
    /\ UNCHANGED <<pass, inFlight, shared, work, faults>>

\* Faulty: the loop is begun anew after an exception, not the process.
RestartLoop ==
    /\ Fault
    /\ pc' = "ready"
    /\ taken' = None
    /\ UNCHANGED <<turn, seen, attempted, submitted, inFlight, shared, work, due, signals>>

\* An exception leaves the loop, from a claim, a renewal or a release: the
\* component ends the process and the supervisor starts another.  The work it
\* had becomes due again later.
Restart ==
    /\ Fault
    /\ pc' = "ready" /\ turn' = 1 /\ taken' = None
    /\ NewPass
    /\ inFlight' = [a \in Adapter |-> 0] /\ shared' = 0
    /\ future' = [f \in Future |-> None]
    /\ closing' = [a \in Adapter |-> 0]
    /\ wake' = FALSE /\ silent' = FALSE
    /\ UNCHANGED due

-----------------------------------------------------------------------------
Init ==
    /\ pc = "ready" /\ turn = 1 /\ taken = None
    /\ seen = {} /\ attempted = 0 /\ submitted = FALSE
    /\ inFlight = [a \in Adapter |-> 0] /\ shared = 0
    /\ future = [f \in Future |-> None]
    /\ closing = [a \in Adapter |-> 0]
    /\ due = [a \in Adapter |-> 0]
    /\ wake = FALSE /\ silent = FALSE
    /\ faults = 0

Turn(a) ==
    SkipFull(a) \/ Reserve(a) \/ NothingDue(a) \/ GateBusy(a) \/ Claim(a)
       \/ Submit(a) \/ Reject(a)

LoopStep == BeginPass \/ EndPass \/ EndWait \/ \E a \in Adapter : Turn(a)

WorkerStep(f) == \E again \in {0, 1} : Return(f, again)

CallbackStep(a) == Signal(a) \/ SignalLost(a)

Next ==
    \/ LoopStep
    \/ \E f \in Future : WorkerStep(f)
    \/ \E a \in Adapter : CallbackStep(a) \/ Arrive(a)
    \/ Restart

Spec == Init /\ [][Next]_vars

\* The loop and the callbacks go on, and the handlers of the queues that have
\* a capacity of their own end; those of the Agents may run forever.
Fairness ==
    /\ WF_vars(LoopStep)
    /\ \A f \in Future : WF_vars(future[f] \notin Agent /\ WorkerStep(f))
    /\ \A a \in Adapter : WF_vars(CallbackStep(a))

FairSpec == Spec /\ Fairness

-----------------------------------------------------------------------------
(* Properties.                                                             *)

TypeOK ==
    /\ pc \in {"ready", "scan", "claiming", "submitting", "waiting"}
    /\ turn \in 1 .. N
    /\ taken \in Adapter \cup {None}
    /\ seen \subseteq Adapter
    /\ attempted \in 0 .. Limit
    /\ submitted \in BOOLEAN
    /\ inFlight \in [Adapter -> Nat]
    /\ shared \in Nat
    /\ future \in [Future -> Adapter \cup {None}]
    /\ closing \in [Adapter -> Nat]
    /\ due \in [Adapter -> Nat]
    /\ wake \in BOOLEAN /\ silent \in BOOLEAN
    /\ faults \in Nat

Of(a) == {f \in Future : future[f] = a}
OfAgents == {f \in Future : future[f] \in Agent}

\* Both counters say what is in flight, so that no capacity is lost or given
\* twice, and neither the pools nor the Agents together exceed theirs.
CapacityKept ==
    /\ \A a \in Adapter :
         /\ inFlight[a] = Cardinality(Of(a)) + (IF taken = a THEN 1 ELSE 0)
         /\ inFlight[a] <= Capacity[a]
    /\ shared = Cardinality(OfAgents) + (IF taken \in Agent THEN 1 ELSE 0)
    /\ shared <= SharedCapacity

\* Something will end the wait before its fallback, or nobody told.
Excused == wake \/ silent \/ \E a \in Adapter : closing[a] > 0

\* The loop never waits with work it could claim and no signal to come, unless
\* that work came from outside or a fault swallowed its signal.
NoLostWake ==
    pc = "waiting" /\ ~Excused => \A a \in Adapter : due[a] > 0 => ~Room(a)

Claimed(a) == pc = "submitting" /\ taken = a

\* Agents that run forever block no other pool: a due source of a queue with
\* its own capacity is claimed, however much the others have to do.
OwnPoolServed ==
    \A a \in Adapter \ Agent : due[a] > 0 ~> Claimed(a)

FreshRoom(a) ==
    pc = "scan" /\ attempted = 0 /\ seen = {} /\ Room(a) /\ due[a] > 0

FreedInPass == InPass /\ \E f \in Future : future[f] \in Agent /\ future'[f] = None

\* A queue that is due, with room, when passes begin is served in the end.  An
\* Agent queue only if not, forever, slots come free in the middle of a pass or
\* another pool's claims move the turn past it.
ServedInTurn ==
    \A a \in Adapter :
        []<>FreshRoom(a) =>
            \/ []<>Claimed(a)
            \/ a \in Agent /\ []<><<FreedInPass>>_vars
            \/ a \in Agent /\ []<>(\E b \in Adapter \ Agent : Claimed(b))
=============================================================================
