----------------------- MODULE DispatcherLoopProofs -----------------------
(***************************************************************************)
(* The dispatcher loop for any adapters, capacities and futures: its two   *)
(* counters say exactly what is in flight, and it never waits with work it *)
(* could claim and no signal to come.                                      *)
(***************************************************************************)
EXTENDS DispatcherLoop, FiniteSetTheorems, TLAPS

-----------------------------------------------------------------------------
(* The inductive invariant.                                                *)

\* What the place of the loop says of a pass and of its reservation.
PassPlace ==
    /\ taken # None <=> pc \in {"claiming", "submitting"}
    /\ pc \in {"ready", "waiting"} => seen = {} /\ attempted = 0 /\ ~submitted
    /\ pc = "claiming" => attempted < Limit
    /\ pc = "submitting" => seen = {}

\* A claim that did not become a future was rejected, which nobody signals.
RejectionsAreSilent ==
    pc \in {"scan", "claiming"} /\ attempted > 0 /\ ~submitted => silent

\* Room apart from what the loop itself has reserved.
RoomBeside(a) ==
    /\ inFlight[a] - (IF taken = a THEN 1 ELSE 0) < Capacity[a]
    /\ a \in Agent => shared - (IF taken \in Agent THEN 1 ELSE 0) < SharedCapacity

\* What was passed over has nothing to claim, or something will signal.
PassedOver == Excused \/ \A a \in seen : due[a] = 0 \/ ~RoomBeside(a)

IInv == /\ TypeOK
        /\ PassPlace
        /\ CapacityKept
        /\ RejectionsAreSilent
        /\ PassedOver
        /\ NoLostWake

-----------------------------------------------------------------------------
(* Counting futures.                                                       *)

\* The constants apart from the order of the turns.
LEMMA Constants ==
    /\ Agent \subseteq Adapter
    /\ Capacity \in [Adapter -> Nat \ {0}]
    /\ SharedCapacity \in Nat \ {0}
    /\ Limit \in Nat \ {0}
    /\ None \notin Adapter
BY LoopAssumption

LEMMA FuturesFinite == \A S \in SUBSET Future : IsFiniteSet(S) /\ Cardinality(S) \in Nat
BY LoopAssumption, FS_Subset, FS_CardinalityType

\* A future that is taken up or let go of changes the counts by one.
LEMMA FuturesCounted ==
    ASSUME TypeOK, NEW f \in Future, NEW a \in Adapter,
           \/ future[f] = None /\ future' = [future EXCEPT ![f] = a]
           \/ future[f] = a /\ future' = [future EXCEPT ![f] = None],
           NEW n \in {1, -1}, n = IF future[f] = None THEN 1 ELSE -1
    PROVE  /\ \A b \in Adapter :
                Cardinality(Of(b)') = Cardinality(Of(b)) + (IF b = a THEN n ELSE 0)
           /\ Cardinality(OfAgents') = Cardinality(OfAgents) + (IF a \in Agent THEN n ELSE 0)
<1> USE Constants DEF TypeOK
<1>1. \A S \in SUBSET Future : IsFiniteSet(S) /\ Cardinality(S) \in Nat
  BY FuturesFinite
<1>2. CASE future[f] = None
  <2>1. \A b \in Adapter : Of(b)' = IF b = a THEN Of(b) \cup {f} ELSE Of(b)
    BY <1>2 DEF Of
  <2>2. OfAgents' = IF a \in Agent THEN OfAgents \cup {f} ELSE OfAgents
    BY <1>2 DEF OfAgents
  <2>3. f \notin OfAgents /\ \A b \in Adapter : f \notin Of(b)
    BY <1>2 DEF Of, OfAgents
  <2>4. OfAgents \in SUBSET Future /\ \A b \in Adapter : Of(b) \in SUBSET Future
    BY DEF Of, OfAgents
  <2>5. n = 1
    BY <1>2
  <2>6. Cardinality(Of(a) \cup {f}) = Cardinality(Of(a)) + 1
    BY <1>1, <2>3, <2>4, FS_AddElement
  <2>7. Cardinality(OfAgents \cup {f}) = Cardinality(OfAgents) + 1
    BY <1>1, <2>3, <2>4, FS_AddElement
  <2>8. \A b \in Adapter : Cardinality(Of(b)) \in Nat
    BY <1>1, <2>4
  <2>9. Cardinality(OfAgents) \in Nat
    BY <1>1, <2>4
  <2>10. Cardinality(OfAgents') = Cardinality(OfAgents) + (IF a \in Agent THEN n ELSE 0)
    BY <2>2, <2>5, <2>7, <2>9
  <2>11. ASSUME NEW b \in Adapter
         PROVE  Cardinality(Of(b)') = Cardinality(Of(b)) + (IF b = a THEN n ELSE 0)
    <3>1. CASE b = a
      BY <2>1, <2>5, <2>6, <2>8, <3>1
    <3>2. CASE b # a
      BY <2>1, <2>8, <3>2
    <3> QED
      BY <3>1, <3>2
  <2> QED
    BY <2>10, <2>11
<1>3. CASE future[f] = a
  <2>1. \A b \in Adapter : Of(b)' = IF b = a THEN Of(b) \ {f} ELSE Of(b)
    BY <1>3 DEF Of
  <2>2. OfAgents' = IF a \in Agent THEN OfAgents \ {f} ELSE OfAgents
    BY <1>3 DEF OfAgents
  <2>3. f \in Of(a) /\ (a \in Agent => f \in OfAgents)
    BY <1>3 DEF Of, OfAgents
  <2>4. OfAgents \in SUBSET Future /\ \A b \in Adapter : Of(b) \in SUBSET Future
    BY DEF Of, OfAgents
  <2>5. n = -1
    BY <1>3
  <2>6. Cardinality(Of(a) \ {f}) = Cardinality(Of(a)) - 1
    BY <1>1, <2>3, <2>4, FS_RemoveElement
  <2>7. a \in Agent => Cardinality(OfAgents \ {f}) = Cardinality(OfAgents) - 1
    BY <1>1, <2>3, <2>4, FS_RemoveElement
  <2>8. \A b \in Adapter : Cardinality(Of(b)) \in Nat
    BY <1>1, <2>4
  <2>9. Cardinality(OfAgents) \in Nat
    BY <1>1, <2>4
  <2>10. Cardinality(OfAgents') = Cardinality(OfAgents) + (IF a \in Agent THEN n ELSE 0)
    BY <2>2, <2>5, <2>7, <2>9
  <2>11. ASSUME NEW b \in Adapter
         PROVE  Cardinality(Of(b)') = Cardinality(Of(b)) + (IF b = a THEN n ELSE 0)
    <3>1. CASE b = a
      BY <2>1, <2>5, <2>6, <2>8, <3>1
    <3>2. CASE b # a
      BY <2>1, <2>8, <3>2
    <3> QED
      BY <3>1, <3>2
  <2> QED
    BY <2>10, <2>11
<1> QED
  BY <1>2, <1>3

\* No future, no count.
LEMMA NothingCounted ==
    ASSUME future = [f \in Future |-> None]
    PROVE  /\ \A a \in Adapter : Cardinality(Of(a)) = 0
           /\ Cardinality(OfAgents) = 0
BY Constants, FS_EmptySet DEF Of, OfAgents

\* As long as no future changes, neither do the counts.
LEMMA CountsStay ==
    ASSUME UNCHANGED future
    PROVE  /\ \A a \in Adapter : Cardinality(Of(a)') = Cardinality(Of(a))
           /\ Cardinality(OfAgents') = Cardinality(OfAgents)
BY DEF Of, OfAgents

\* The counts are numbers.
LEMMA CountsAreNumbers ==
    /\ \A a \in Adapter : Cardinality(Of(a)) \in Nat
    /\ Cardinality(OfAgents) \in Nat
BY FuturesFinite DEF Of, OfAgents

-----------------------------------------------------------------------------
(* Types.                                                                  *)

\* The turn is always that of an adapter.
LEMMA TurnGoesRound ==
    ASSUME turn \in 1 .. N
    PROVE  N \in Nat \ {0} /\ (IF turn = N THEN 1 ELSE turn + 1) \in 1 .. N
<1>1. N \in Nat
  BY LoopAssumption DEF N
<1> QED
  BY <1>1

\* What was reserved or is in flight is counted, so giving it back is safe.
LEMMA GivenBack ==
    ASSUME TypeOK, CapacityKept, NEW a \in Adapter,
           taken = a \/ \E f \in Future : future[f] = a
    PROVE  inFlight[a] > 0 /\ (a \in Agent => shared > 0)
<1> USE Constants, CountsAreNumbers DEF TypeOK, CapacityKept
<1>1. CASE taken = a
  BY <1>1
<1>2. ASSUME NEW f \in Future, future[f] = a
      PROVE  inFlight[a] > 0 /\ (a \in Agent => shared > 0)
  <2>1. Of(a) # {} /\ IsFiniteSet(Of(a))
    BY <1>2, FuturesFinite DEF Of
  <2>2. a \in Agent => OfAgents # {} /\ IsFiniteSet(OfAgents)
    BY <1>2, FuturesFinite DEF OfAgents
  <2>3. Cardinality(Of(a)) # 0 /\ (a \in Agent => Cardinality(OfAgents) # 0)
    BY <2>1, <2>2, FS_EmptySet
  <2> QED
    BY <2>3
<1> QED
  BY <1>1, <1>2

LEMMA TypesKept ==
    ASSUME TypeOK, PassPlace, CapacityKept, Next
    PROVE  TypeOK'
<1> USE Constants DEF TypeOK
<1>1. CASE BeginPass \/ EndPass \/ EndWait
  <2>1. CASE BeginPass
    BY <2>1 DEF BeginPass, work
  <2>2. CASE EndPass
    <3>1. attempted' \in 0 .. Limit
      BY <2>2 DEF EndPass, NewPass
    <3>2. seen' \subseteq Adapter /\ submitted' \in BOOLEAN
      BY <2>2 DEF EndPass, NewPass
    <3>3. pc' \in {"ready", "waiting"}
      BY <2>2 DEF EndPass
    <3> QED
      BY <2>2, <3>1, <3>2, <3>3 DEF EndPass, work, signals
  <2>3. CASE EndWait
    BY <2>3 DEF EndWait, work, signals
  <2> QED
    BY <1>1, <2>1, <2>2, <2>3
<1>2. ASSUME NEW a \in Adapter, SkipFull(a) \/ Reserve(a) PROVE TypeOK'
  <2>1. turn' \in 1 .. N
    BY <1>2, TurnGoesRound DEF SkipFull, Reserve, TakeTurn
  <2> QED
    BY <1>2, <2>1 DEF SkipFull, Reserve, TakeTurn, Reserving, work, signals
<1>3. ASSUME NEW a \in Adapter, NothingDue(a) \/ GateBusy(a) PROVE TypeOK'
  <2>1. inFlight[a] > 0 /\ (a \in Agent => shared > 0)
    BY <1>3, GivenBack DEF NothingDue, GateBusy, ClaimEmpty
  <2>2. inFlight' \in [Adapter -> Nat] /\ shared' \in Nat
    BY <1>3, <2>1 DEF NothingDue, GateBusy, ClaimEmpty, Releasing
  <2>3. CASE NothingDue(a)
    BY <2>2, <2>3 DEF NothingDue, ClaimEmpty, work
  <2>4. CASE GateBusy(a)
    BY <2>2, <2>4 DEF GateBusy, ClaimEmpty, Fault, work
  <2> QED
    BY <1>3, <2>3, <2>4
<1>4. ASSUME NEW a \in Adapter, Claim(a) PROVE TypeOK'
  BY <1>4 DEF Claim, PassPlace, work, signals
<1>5. ASSUME NEW a \in Adapter, Submit(a) PROVE TypeOK'
  BY <1>5 DEF Submit, signals
<1>6. ASSUME NEW a \in Adapter, Reject(a) PROVE TypeOK'
  <2>1. inFlight[a] > 0 /\ (a \in Agent => shared > 0)
    BY <1>6, GivenBack DEF Reject
  <2>2. inFlight' \in [Adapter -> Nat] /\ shared' \in Nat
    BY <1>6, <2>1 DEF Reject, Releasing
  <2>3. due' \in [Adapter -> Nat]
    BY <1>6 DEF Reject
  <2> QED
    BY <1>6, <2>2, <2>3 DEF Reject, Fault, work
<1>7. ASSUME NEW f \in Future, NEW again \in {0, 1}, Return(f, again) PROVE TypeOK'
  <2>1. future[f] \in Adapter
    BY <1>7 DEF Return
  <2>2. inFlight[future[f]] > 0 /\ (future[f] \in Agent => shared > 0)
    BY <1>7, <2>1, GivenBack
  <2>3. inFlight' \in [Adapter -> Nat] /\ shared' \in Nat
    BY <1>7, <2>1, <2>2 DEF Return, Releasing
  <2>4. due' \in [Adapter -> Nat] /\ closing' \in [Adapter -> Nat]
    BY <1>7, <2>1 DEF Return
  <2>5. future' \in [Future -> Adapter \cup {None}]
    BY <1>7 DEF Return
  <2> QED
    BY <1>7, <2>3, <2>4, <2>5 DEF Return, pass, signals
<1>8. ASSUME NEW a \in Adapter, Signal(a) \/ SignalLost(a) \/ Arrive(a) PROVE TypeOK'
  <2>1. CASE Signal(a)
    BY <2>1 DEF Signal, pass
  <2>2. CASE SignalLost(a)
    BY <2>2 DEF SignalLost, Fault, pass
  <2>3. CASE Arrive(a)
    <3>1. due' \in [Adapter -> Nat]
      BY <2>3 DEF Arrive
    <3>2. wake' \in BOOLEAN /\ silent' \in BOOLEAN
      BY <2>3 DEF Arrive
    <3> QED
      BY <2>3, <3>1, <3>2 DEF Arrive, pass, work
  <2> QED
    BY <1>8, <2>1, <2>2, <2>3
<1>9. CASE Restart
  <2>1. turn' \in 1 .. N
    BY <1>9, TurnGoesRound DEF Restart
  <2>2. NewPass
    BY <1>9 DEF Restart
  <2>3. attempted' \in 0 .. Limit
    BY <2>2 DEF NewPass
  <2>4. seen' \subseteq Adapter /\ submitted' \in BOOLEAN
    BY <2>2 DEF NewPass
  <2>5. inFlight' \in [Adapter -> Nat] /\ closing' \in [Adapter -> Nat] /\ shared' \in Nat
    BY <1>9 DEF Restart
  <2>6. future' \in [Future -> Adapter \cup {None}]
    BY <1>9 DEF Restart
  <2>7. pc' = "ready" /\ taken' = None /\ due' = due /\ wake' = FALSE /\ silent' = FALSE
    BY <1>9 DEF Restart
  <2>8. faults' \in Nat
    BY <1>9 DEF Restart, Fault
  <2> QED
    BY <2>1, <2>3, <2>4, <2>5, <2>6, <2>7, <2>8
<1> QED
  BY <1>1, <1>2, <1>3, <1>4, <1>5, <1>6, <1>7, <1>8, <1>9
  DEF Next, LoopStep, Turn, WorkerStep, CallbackStep

-----------------------------------------------------------------------------
(* The steps.                                                              *)

LEMMA PlaceKept ==
    ASSUME TypeOK, PassPlace, Next
    PROVE  PassPlace'
<1> USE Constants DEF PassPlace, TypeOK
<1>1. CASE BeginPass \/ EndPass \/ EndWait
  BY <1>1 DEF BeginPass, EndPass, PassOver, EndWait, NewPass
<1>2. ASSUME NEW a \in Adapter, SkipFull(a) \/ Reserve(a) PROVE PassPlace'
  BY <1>2 DEF SkipFull, Reserve, TakeTurn
<1>3. ASSUME NEW a \in Adapter, NothingDue(a) \/ GateBusy(a) PROVE PassPlace'
  BY <1>3 DEF NothingDue, GateBusy, ClaimEmpty
<1>4. ASSUME NEW a \in Adapter, Claim(a) PROVE PassPlace'
  BY <1>4 DEF Claim
<1>5. ASSUME NEW a \in Adapter, Submit(a) \/ Reject(a) PROVE PassPlace'
  BY <1>5 DEF Submit, Reject
<1>6. ASSUME NEW f \in Future, NEW again \in {0, 1}, Return(f, again) PROVE PassPlace'
  BY <1>6 DEF Return, pass
<1>7. ASSUME NEW a \in Adapter, Signal(a) \/ SignalLost(a) \/ Arrive(a) PROVE PassPlace'
  BY <1>7 DEF Signal, SignalLost, Arrive, pass
<1>8. CASE Restart
  BY <1>8 DEF Restart, NewPass
<1> QED
  BY <1>1, <1>2, <1>3, <1>4, <1>5, <1>6, <1>7, <1>8
  DEF Next, LoopStep, Turn, WorkerStep, CallbackStep

\* Steps that move neither futures nor counters nor the reservation.
LEMMA CapacityUntouched ==
    ASSUME CapacityKept, UNCHANGED <<inFlight, shared, future, taken>>
    PROVE  CapacityKept'
BY CountsStay DEF CapacityKept

LEMMA CapacityStays ==
    ASSUME TypeOK, PassPlace, CapacityKept, Next
    PROVE  CapacityKept'
<1> USE Constants DEF TypeOK
<1>1. ASSUME NEW a \in Adapter, Reserve(a) PROVE CapacityKept'
  <2>1. /\ Room(a) /\ Reserving(a) /\ taken = None /\ taken' = a /\ UNCHANGED future
    BY <1>1 DEF Reserve, TakeTurn, PassPlace, work
  <2>2. ASSUME NEW b \in Adapter
        PROVE  /\ inFlight'[b] = Cardinality(Of(b)') + (IF taken' = b THEN 1 ELSE 0)
               /\ inFlight'[b] <= Capacity[b]
    BY <2>1, CountsStay, CountsAreNumbers DEF CapacityKept, Room, Reserving
  <2>3. /\ shared' = Cardinality(OfAgents') + (IF taken' \in Agent THEN 1 ELSE 0)
        /\ shared' <= SharedCapacity
    BY <2>1, CountsStay, CountsAreNumbers DEF CapacityKept, Room, Reserving
  <2> QED
    BY <2>2, <2>3 DEF CapacityKept
<1>2. ASSUME NEW a \in Adapter, NothingDue(a) \/ GateBusy(a) \/ Reject(a) PROVE CapacityKept'
  <2>1. /\ Releasing(a) /\ taken = a /\ taken' = None /\ UNCHANGED future
    BY <1>2 DEF NothingDue, GateBusy, Reject, ClaimEmpty, work
  <2>2. ASSUME NEW b \in Adapter
        PROVE  /\ inFlight'[b] = Cardinality(Of(b)') + (IF taken' = b THEN 1 ELSE 0)
               /\ inFlight'[b] <= Capacity[b]
    BY <2>1, CountsStay, CountsAreNumbers DEF CapacityKept, Releasing
  <2>3. /\ shared' = Cardinality(OfAgents') + (IF taken' \in Agent THEN 1 ELSE 0)
        /\ shared' <= SharedCapacity
    BY <2>1, CountsStay, CountsAreNumbers DEF CapacityKept, Releasing
  <2> QED
    BY <2>2, <2>3 DEF CapacityKept
<1>3. ASSUME NEW a \in Adapter, Submit(a) PROVE CapacityKept'
  <2>1. /\ taken = a /\ taken' = None /\ UNCHANGED <<inFlight, shared>>
    BY <1>3 DEF Submit
  <2>2. PICK f \in Future : future[f] = None /\ future' = [future EXCEPT ![f] = a]
    BY <1>3 DEF Submit
  <2>3. /\ \A b \in Adapter :
             Cardinality(Of(b)') = Cardinality(Of(b)) + (IF b = a THEN 1 ELSE 0)
        /\ Cardinality(OfAgents') = Cardinality(OfAgents) + (IF a \in Agent THEN 1 ELSE 0)
    BY <2>2, FuturesCounted
  <2> QED
    BY <2>1, <2>3, CountsAreNumbers DEF CapacityKept
<1>4. ASSUME NEW f \in Future, NEW again \in {0, 1}, Return(f, again) PROVE CapacityKept'
  <2> DEFINE a == future[f]
  <2>1. /\ a \in Adapter /\ Releasing(a) /\ UNCHANGED taken
        /\ future' = [future EXCEPT ![f] = None]
    BY <1>4 DEF Return, pass
  <2>2. /\ \A b \in Adapter :
             Cardinality(Of(b)') = Cardinality(Of(b)) + (IF b = a THEN -1 ELSE 0)
        /\ Cardinality(OfAgents') = Cardinality(OfAgents) + (IF a \in Agent THEN -1 ELSE 0)
    BY <2>1, FuturesCounted
  <2> HIDE DEF a
  <2>3. ASSUME NEW b \in Adapter
        PROVE  /\ inFlight'[b] = Cardinality(Of(b)') + (IF taken' = b THEN 1 ELSE 0)
               /\ inFlight'[b] <= Capacity[b]
    BY <2>1, <2>2, CountsAreNumbers DEF CapacityKept, Releasing
  <2>4. /\ shared' = Cardinality(OfAgents') + (IF taken' \in Agent THEN 1 ELSE 0)
        /\ shared' <= SharedCapacity
    BY <2>1, <2>2, CountsAreNumbers DEF CapacityKept, Releasing
  <2> QED
    BY <2>3, <2>4 DEF CapacityKept
<1>5. CASE Restart
  <2>1. /\ \A b \in Adapter : Cardinality(Of(b)') = 0
        /\ Cardinality(OfAgents') = 0
    <3>1. \A b \in Adapter : Of(b)' = {}
      BY <1>5 DEF Restart, Of
    <3>2. OfAgents' = {}
      BY <1>5 DEF Restart, OfAgents
    <3> QED
      BY <3>1, <3>2, FS_EmptySet
  <2>2. inFlight' = [b \in Adapter |-> 0] /\ shared' = 0 /\ taken' = None
    BY <1>5 DEF Restart
  <2> QED
    BY <2>1, <2>2 DEF CapacityKept
<1>6. ASSUME NEW a \in Adapter, SkipFull(a) \/ Claim(a) PROVE CapacityKept'
  BY <1>6, CapacityUntouched DEF SkipFull, Claim, work
<1>7. CASE BeginPass \/ EndPass \/ EndWait
  BY <1>7, CapacityUntouched DEF BeginPass, EndPass, EndWait, work
<1>8. ASSUME NEW a \in Adapter, Signal(a) \/ SignalLost(a) \/ Arrive(a) PROVE CapacityKept'
  BY <1>8, CapacityUntouched DEF Signal, SignalLost, Arrive, pass, work
<1> QED
  BY <1>1, <1>2, <1>3, <1>4, <1>5, <1>6, <1>7, <1>8
  DEF Next, LoopStep, Turn, WorkerStep, CallbackStep

LEMMA RejectionsKept ==
    ASSUME TypeOK, PassPlace, RejectionsAreSilent, Next
    PROVE  RejectionsAreSilent'
<1> USE Constants DEF PassPlace, TypeOK, RejectionsAreSilent
<1>1. CASE BeginPass \/ EndPass \/ EndWait
  BY <1>1 DEF BeginPass, EndPass, EndWait, NewPass
<1>2. ASSUME NEW a \in Adapter, SkipFull(a) \/ Reserve(a) PROVE RejectionsAreSilent'
  BY <1>2 DEF SkipFull, Reserve, TakeTurn, signals
<1>3. ASSUME NEW a \in Adapter, NothingDue(a) \/ GateBusy(a) PROVE RejectionsAreSilent'
  BY <1>3 DEF NothingDue, GateBusy, ClaimEmpty
<1>4. ASSUME NEW a \in Adapter, Claim(a) \/ Submit(a) \/ Reject(a)
      PROVE  RejectionsAreSilent'
  BY <1>4 DEF Claim, Submit, Reject
<1>5. ASSUME NEW f \in Future, NEW again \in {0, 1}, Return(f, again)
      PROVE  RejectionsAreSilent'
  BY <1>5 DEF Return, pass, signals
<1>6. ASSUME NEW a \in Adapter, Signal(a) \/ SignalLost(a) \/ Arrive(a)
      PROVE  RejectionsAreSilent'
  BY <1>6 DEF Signal, SignalLost, Arrive, pass
<1>7. CASE Restart
  BY <1>7 DEF Restart, NewPass
<1> QED
  BY <1>1, <1>2, <1>3, <1>4, <1>5, <1>6, <1>7
  DEF Next, LoopStep, Turn, WorkerStep, CallbackStep

\* Whatever the workers and producers change, somebody signals or nobody will.
LEMMA OthersSignal ==
    ASSUME TypeOK,
           \/ \E f \in Future, again \in {0, 1} : Return(f, again)
           \/ \E a \in Adapter : Signal(a) \/ SignalLost(a) \/ Arrive(a)
    PROVE  Excused'
<1>1. ASSUME NEW f \in Future, NEW again \in {0, 1}, Return(f, again) PROVE Excused'
  <2>1. future[f] \in Adapter /\ closing[future[f]] \in Nat
    BY <1>1 DEF Return, TypeOK
  <2>2. closing'[future[f]] > 0
    BY <1>1, <2>1 DEF Return, TypeOK
  <2> QED
    BY <2>1, <2>2 DEF Excused
<1>2. ASSUME NEW a \in Adapter, Signal(a) \/ SignalLost(a) \/ Arrive(a) PROVE Excused'
  BY <1>2 DEF Signal, SignalLost, Arrive, Excused
<1> QED
  BY <1>1, <1>2

LEMMA PassedOverKept ==
    ASSUME TypeOK, PassPlace, PassedOver, Next
    PROVE  PassedOver'
<1> USE Constants DEF PassedOver, PassPlace, TypeOK
<1>1. CASE BeginPass \/ EndPass \/ EndWait
  BY <1>1 DEF BeginPass, EndPass, EndWait, NewPass
<1>2. ASSUME NEW a \in Adapter, SkipFull(a) PROVE PassedOver'
  <2>1. /\ seen' = seen \cup {a} /\ ~Room(a) /\ taken = None
        /\ UNCHANGED <<taken, inFlight, shared, due, wake, silent, closing>>
    BY <1>2 DEF SkipFull, TakeTurn, work, signals
  <2>2. ~RoomBeside(a)
    BY <2>1 DEF Room, RoomBeside
  <2> QED
    BY <2>1, <2>2 DEF RoomBeside, Excused
<1>3. ASSUME NEW a \in Adapter, Reserve(a) PROVE PassedOver'
  <2>1. /\ Reserving(a) /\ taken = None /\ taken' = a
        /\ UNCHANGED <<seen, due, wake, silent, closing>>
    BY <1>3 DEF Reserve, TakeTurn, work, signals
  <2>2. \A b \in Adapter : RoomBeside(b)' <=> RoomBeside(b)
    BY <2>1 DEF RoomBeside, Reserving
  <2> QED
    BY <2>1, <2>2 DEF Excused
<1>4. ASSUME NEW a \in Adapter, NothingDue(a) PROVE PassedOver'
  <2>1. /\ Releasing(a) /\ taken = a /\ taken' = None /\ due[a] = 0
        /\ seen' = seen \cup {a} /\ UNCHANGED <<due, wake, silent, closing>>
    BY <1>4 DEF NothingDue, ClaimEmpty, work
  <2>2. \A b \in Adapter : RoomBeside(b)' <=> RoomBeside(b)
    BY <2>1 DEF RoomBeside, Releasing
  <2> QED
    BY <2>1, <2>2 DEF Excused
<1>5. ASSUME NEW a \in Adapter, GateBusy(a) PROVE PassedOver'
  BY <1>5 DEF GateBusy, Excused
<1>6. ASSUME NEW a \in Adapter, Claim(a) \/ Submit(a) \/ Reject(a) PROVE PassedOver'
  BY <1>6 DEF Claim, Submit, Reject
<1>7. CASE \/ \E f \in Future, again \in {0, 1} : Return(f, again)
           \/ \E a \in Adapter : Signal(a) \/ SignalLost(a) \/ Arrive(a)
  BY <1>7, OthersSignal
<1>8. CASE Restart
  BY <1>8 DEF Restart, NewPass
<1> QED
  BY <1>1, <1>2, <1>3, <1>4, <1>5, <1>6, <1>7, <1>8
  DEF Next, LoopStep, Turn, WorkerStep, CallbackStep

LEMMA WakeKept ==
    ASSUME IInv, Next
    PROVE  NoLostWake'
<1> USE Constants DEF IInv, PassPlace, TypeOK, NoLostWake
<1>1. CASE EndPass
  <2>1. CASE submitted
    BY <1>1, <2>1 DEF EndPass
  <2>2. CASE ~submitted /\ seen = Adapter
    <3>1. taken = None /\ UNCHANGED <<inFlight, shared, due, wake, silent, closing>>
      BY <1>1 DEF EndPass, PassOver, work, signals
    <3>2. ASSUME ~Excused, NEW a \in Adapter, due[a] > 0 PROVE ~Room(a)
      BY <2>2, <3>1, <3>2 DEF PassedOver, RoomBeside, Room
    <3> QED
      BY <3>1, <3>2 DEF Excused, Room
  <2>3. CASE ~submitted /\ attempted = Limit
    BY <1>1, <2>3 DEF EndPass, PassOver, RejectionsAreSilent, signals, Excused
  <2> QED
    BY <1>1, <2>1, <2>2, <2>3 DEF EndPass, PassOver
<1>2. CASE \/ \E f \in Future, again \in {0, 1} : Return(f, again)
           \/ \E a \in Adapter : Signal(a) \/ SignalLost(a) \/ Arrive(a)
  BY <1>2, OthersSignal
<1>3. CASE BeginPass \/ EndWait \/ Restart \/ \E a \in Adapter : Turn(a)
  BY <1>3 DEF BeginPass, EndWait, Restart, Turn, SkipFull, Reserve, TakeTurn, NothingDue,
              GateBusy, ClaimEmpty, Claim, Submit, Reject
<1> QED
  BY <1>1, <1>2, <1>3 DEF Next, LoopStep, WorkerStep, CallbackStep

-----------------------------------------------------------------------------
(* The theorems.                                                           *)

\* Nothing the invariant speaks of changes in a stuttering step.
LEMMA Stutters ==
    ASSUME IInv, UNCHANGED vars
    PROVE  IInv'
<1>1. TypeOK' /\ PassPlace' /\ RejectionsAreSilent'
  BY DEF IInv, vars, TypeOK, PassPlace, RejectionsAreSilent
<1>2. CapacityKept'
  BY CapacityUntouched DEF IInv, vars
<1>3. PassedOver' /\ NoLostWake'
  BY DEF IInv, vars, PassedOver, NoLostWake, Excused, RoomBeside, Room
<1> QED
  BY <1>1, <1>2, <1>3 DEF IInv

LEMMA LoopInvariant == Spec => []IInv
<1>1. Init => IInv
  <2> SUFFICES ASSUME Init PROVE IInv
    OBVIOUS
  <2>1. turn \in 1 .. N
    <3>1. PICK a \in Adapter : TRUE
      BY LoopAssumption
    <3>2. \E i \in 1 .. N : Order[i] = a
      BY LoopAssumption
    <3>3. N \in Nat
      BY LoopAssumption DEF N
    <3> QED
      BY <3>2, <3>3 DEF Init
  <2>2. TypeOK
    <3>1. attempted \in 0 .. Limit
      BY Constants DEF Init
    <3>2. /\ inFlight \in [Adapter -> Nat] /\ closing \in [Adapter -> Nat]
          /\ due \in [Adapter -> Nat] /\ shared \in Nat /\ faults \in Nat
          /\ future \in [Future -> Adapter \cup {None}]
      BY DEF Init
    <3> QED
      BY <2>1, <3>1, <3>2 DEF Init, TypeOK
  <2>3. CapacityKept
    BY NothingCounted, Constants DEF Init, CapacityKept
  <2> QED
    BY <2>2, <2>3, Constants
    DEF IInv, Init, PassPlace, RejectionsAreSilent, PassedOver, NoLostWake
<1>2. IInv /\ [Next]_vars => IInv'
  BY Stutters, TypesKept, PlaceKept, CapacityStays, RejectionsKept, PassedOverKept, WakeKept
  DEF IInv
<1> QED
  BY <1>1, <1>2, PTL DEF Spec

\* Every step keeps the loop, its counters, futures and queues in their types:
\* no release lets a counter of capacity fall below zero.
THEOREM LoopTypes == Spec => []TypeOK
BY LoopInvariant, PTL DEF IInv

\* For any pools and any futures, _in_flight and _shared_in_flight are exactly
\* what is claimed or submitted, and stay within max_in_flight and the capacity
\* of the Agents, whatever is rejected, polled in vain or cut off.
THEOREM CapacityIsExact == Spec => []CapacityKept
BY LoopInvariant, PTL DEF IInv

\* However callbacks and producers interleave with a pass, the loop does not
\* wait with work it could claim unless a signal is set or still to come, or
\* nobody signalled that work.
THEOREM NoWakeIsLost == Spec => []NoLostWake
BY LoopInvariant, PTL DEF IInv
=============================================================================
