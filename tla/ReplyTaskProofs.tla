--------------------------- MODULE ReplyTaskProofs ---------------------------
(***************************************************************************)
(* The generation fence for any number of handlers and without the bounds  *)
(* of the TLC instance mattering: generations only grow, a handler carries *)
(* the one it claimed in, and the holder of the claim of a processing task *)
(* is of the current one.                                                  *)
(***************************************************************************)
EXTENDS ReplyTask, TLAPS

USE ReplyTaskAssumption

\* What a handler carries agrees with the row: no handler is ahead of it, the
\* holder of the claim is a handler, and a turn of the current generation is
\* its latest run.
HandlersFit ==
    /\ holder \in Worker => worker[holder].phase # "idle"
    /\ \A w \in Worker : worker[w].gen <= task.gen
    /\ \A w \in Worker :
         worker[w].phase = "turn" /\ InGeneration(w) => latest = "running"

Fence == HandlersFit /\ OneTurnPerGeneration /\ HolderIsCurrent /\ SettledByItsGeneration

FenceInv == TypeOK /\ Fence

\* What starts a new generation keeps the types and raises the generation.
LEMMA NewGenerationFacts ==
    ASSUME TypeOK, NEW v \in Nat, NEW c \in Nat, NewGeneration(v, c)
    PROVE  /\ task' \in Task
           /\ latest' = "none"
           /\ task'.gen = task.gen + 1
           /\ task'.status = "pending"
BY DEF TypeOK, NewGeneration, Task, Status

\* A requeue either draws a new generation or only advances the input.
LEMMA RequeueFacts ==
    ASSUME TypeOK, Requeue
    PROVE  /\ UNCHANGED <<holder, worker, settled>>
           /\ task' \in Task
           /\ latest' \in RunStatus
           /\ \/ /\ task'.gen = task.gen + 1
                 /\ task'.status = "pending"
                 /\ latest' = "none"
              \/ /\ task'.gen = task.gen
                 /\ task'.status = task.status
                 /\ latest' = latest
                 /\ task.status \notin {"done", "failed"}
<1> USE DEF TypeOK, Task, RunStatus, Terminal
<1>1. task.version \in Nat /\ task.claimed \in Nat /\ task.version + 1 \in Nat
  OBVIOUS
<1>2. CASE NewInput
  BY <1>1, <1>2, NewGenerationFacts DEF NewInput
<1>3. CASE ReviseCard
  BY <1>1, <1>3, NewGenerationFacts DEF ReviseCard
<1>4. CASE ReplacePending
  BY <1>1, <1>4, NewGenerationFacts DEF ReplacePending
<1>5. CASE ManualRerun
  BY <1>1, <1>5, NewGenerationFacts DEF ManualRerun
<1>6. CASE RetryFailed
  BY <1>1, <1>6, NewGenerationFacts DEF RetryFailed
<1> QED
  BY <1>2, <1>3, <1>4, <1>5, <1>6 DEF Requeue

LEMMA RefundedNat == \A n \in Nat : Refunded(n) \in Nat
BY DEF Refunded

\* Every step keeps the row, the claim, the runs and the handlers in their types.
THEOREM ReplyTypes == Spec => []TypeOK
<1>1. Init => TypeOK
  BY DEF Init, TypeOK, Task, Status, Settled, RunStatus, Terminal, WorkerState, WorkerPhase,
         Settlement, Idle
<1>2. TypeOK /\ [Next]_vars => TypeOK'
  <2> SUFFICES ASSUME TypeOK, [Next]_vars PROVE TypeOK'
    OBVIOUS
  <2> USE DEF TypeOK, Task, Status, Settled, RunStatus, Terminal, WorkerState, WorkerPhase,
              Settlement, Idle, GoTo, Forgotten, FreeClaim
  <2>1. CASE Requeue
    BY <2>1, RequeueFacts
  <2>2. ASSUME NEW w \in Worker, HandlerStep(w) PROVE TypeOK'
    <3>1. CASE Claim(w)
      <4>0. task.attempts + 1 \in Nat /\ task.version \in Nat
        OBVIOUS
      <4>1. task' \in Task
        BY <3>1, <4>0 DEF Claim
      <4>2. worker' \in [Worker -> WorkerState]
        BY <3>1 DEF Claim
      <4> QED
        BY <3>1, <4>1, <4>2 DEF Claim
    <3>2. CASE BeginTurn(w) \/ EndTurn(w) \/ Raise(w) \/ GiveUp(w) \/ Return(w)
      BY <3>2 DEF BeginTurn, EndTurn, Raise, GiveUp, Return
    <3>3. CASE Finalize(w)
      <4>1. PICK asked \in Settled \cup {"pending"}, refund \in BOOLEAN :
              task' = [task EXCEPT
                         !.status = StatusAfter(asked, worker[w].run),
                         !.attempts = IF refund THEN Refunded(@) ELSE @]
        BY <3>3 DEF Finalize
      <4>2. task' \in Task
        BY <4>1, RefundedNat DEF StatusAfter
      <4>3. settled' \in Settlement
        BY <3>3 DEF Finalize, StatusAfter
      <4>4. worker' \in [Worker -> WorkerState]
        BY <3>3 DEF Finalize
      <4> QED
        BY <3>3, <4>2, <4>3, <4>4 DEF Finalize
    <3>4. CASE FinalizeWithoutRun(w)
      BY <3>4 DEF FinalizeWithoutRun
    <3>6. CASE Defer(w)
      <4>1. task' \in Task
        BY <3>6, RefundedNat DEF Defer
      <4> QED
        BY <3>6, <4>1 DEF Defer
    <3>5. CASE HandlerError(w)
      BY <3>5 DEF HandlerError
    <3> QED
      BY <2>2, <3>1, <3>2, <3>3, <3>4, <3>5, <3>6 DEF HandlerStep
  <2>3. CASE RecoverStaleLock \/ RunLeaseEnds
    BY <2>3 DEF RecoverStaleLock, RunLeaseEnds
  <2>4. CASE Restart
    <3>1. task' \in Task
      BY <2>4, RefundedNat DEF Restart
    <3> QED
      BY <2>4, <3>1 DEF Restart
  <2>5. CASE UNCHANGED vars
    BY <2>5 DEF vars
  <2> QED
    BY <2>1, <2>2, <2>3, <2>4, <2>5 DEF Next
<1> QED
  BY <1>1, <1>2, PTL DEF Spec

-----------------------------------------------------------------------------
(* The generation fence.                                                   *)

\* A requeue leaves handlers and claim alone; a new generation leaves no run
\* and no settlement to agree with.
LEMMA RequeueKeepsFence ==
    ASSUME FenceInv, Requeue
    PROVE  Fence'
<1> USE DEF FenceInv, Fence
<1>0. TypeOK
  OBVIOUS
<1>t. task.gen \in Nat /\ \A w \in Worker : worker[w].gen \in Nat
  BY DEF TypeOK, Task, WorkerState
<1>1. CASE task'.gen = task.gen + 1 /\ task'.status = "pending"
  BY <1>0, <1>1, <1>t, RequeueFacts DEF HandlersFit, OneTurnPerGeneration, HolderIsCurrent, SettledByItsGeneration, InGeneration, Settled
<1>2. CASE task'.gen = task.gen /\ task'.status = task.status /\ latest' = latest
  BY <1>0, <1>2, <1>t, RequeueFacts DEF HandlersFit, OneTurnPerGeneration, HolderIsCurrent, SettledByItsGeneration, InGeneration
<1> QED
  BY <1>0, <1>1, <1>2, RequeueFacts

\* A step by which one handler ends its turn, its work or itself, gives up at
\* most its own claim and leaves the generation alone, keeps the handlers fit.
LEMMA OneHandlerMoves ==
    ASSUME FenceInv, NEW w \in Worker,
           task'.gen = task.gen,
           \A v \in Worker \ {w} : worker'[v] = worker[v],
           worker'[w].phase # "turn",
           worker'[w].gen \in {0, worker[w].gen},
           worker'[w].phase = "idle" => holder' # w,
           holder' \in {holder, Nobody, LetGo},
           latest' # latest => worker[w].phase = "turn" /\ InGeneration(w)
    PROVE  HandlersFit' /\ OneTurnPerGeneration'
<1> USE DEF FenceInv, Fence, HandlersFit, OneTurnPerGeneration, InGeneration
<1>t. task.gen \in Nat /\ \A v \in Worker : worker[v].gen \in Nat
  BY DEF TypeOK, Task, WorkerState
<1>h. worker[w].phase # "idle" \/ holder # w
  OBVIOUS
<1>1. holder' \in Worker => worker'[holder'].phase # "idle"
  BY DEF TypeOK
<1>2. \A v \in Worker : worker'[v].gen <= task'.gen
  <2> SUFFICES ASSUME NEW v \in Worker PROVE worker'[v].gen <= task'.gen
    OBVIOUS
  <2>1. CASE v = w
    BY <1>t, <2>1
  <2>2. CASE v # w
    BY <1>t, <2>2
  <2> QED
    BY <2>1, <2>2
<1>3. \A v \in Worker :
        worker'[v].phase = "turn" /\ worker'[v].gen = task'.gen => latest' = "running"
  OBVIOUS
<1>4. OneTurnPerGeneration'
  OBVIOUS
<1> QED
  BY <1>1, <1>2, <1>3, <1>4

\* Each step of a handler keeps the fence.
LEMMA HandlerKeepsFence ==
    ASSUME FenceInv, NEW w \in Worker, HandlerStep(w)
    PROVE  Fence'
<1>t. /\ task \in Task /\ task.gen \in Nat
      /\ \A v \in Worker : worker[v] \in WorkerState /\ worker[v].gen \in Nat
      /\ worker \in [Worker -> WorkerState]
      /\ latest \in RunStatus
  BY DEF FenceInv, TypeOK, Task, WorkerState
<1>1. CASE Claim(w)
  <2>1. /\ task'.gen = task.gen /\ task'.status = "processing"
        /\ holder' = w /\ UNCHANGED <<latest, settled>>
        /\ worker'[w].gen = task.gen /\ worker'[w].phase = "work"
        /\ \A v \in Worker \ {w} : worker'[v] = worker[v]
    BY <1>1, <1>t DEF Claim, Task
  <2> QED
    BY <1>t, <2>1 DEF FenceInv, Fence, HandlersFit, OneTurnPerGeneration, HolderIsCurrent,
                      SettledByItsGeneration, InGeneration, Settled
<1>2. CASE BeginTurn(w)
  BY <1>2, <1>t DEF BeginTurn, GoTo, FenceInv, Fence, HandlersFit, OneTurnPerGeneration,
                    HolderIsCurrent, SettledByItsGeneration, InGeneration
<1>3. CASE EndTurn(w)
  <2>1. /\ UNCHANGED <<task, holder, settled>>
        /\ worker[w].phase = "turn" /\ InGeneration(w)
        /\ worker'[w].gen = worker[w].gen /\ worker'[w].phase = "work"
        /\ \A v \in Worker \ {w} : worker'[v] = worker[v]
    BY <1>3, <1>t DEF EndTurn, WorkerState
  <2>2. HandlersFit' /\ OneTurnPerGeneration'
    BY <2>1, OneHandlerMoves
  <2> QED
    BY <1>t, <2>1, <2>2 DEF FenceInv, Fence, HolderIsCurrent, SettledByItsGeneration,
                            InGeneration
<1>4. ASSUME task'.gen = task.gen, task'.status # "processing",
             task'.status \in Settled =>
               settled'.gen = task.gen /\ (task'.status = "done" => settled'.run = "completed"),
             UNCHANGED <<holder, latest>>,
             worker'[w].gen = worker[w].gen, worker'[w].phase \in {"returned", "raised"},
             \A v \in Worker \ {w} : worker'[v] = worker[v]
      PROVE  Fence'
  <2>1. HandlersFit' /\ OneTurnPerGeneration'
    BY <1>4, OneHandlerMoves
  <2> QED
    BY <1>4, <2>1 DEF Fence, HolderIsCurrent, SettledByItsGeneration
<1>5. CASE Finalize(w)
  <2>1. PICK asked \in Settled \cup {"pending"}, refund \in BOOLEAN :
          LET status == StatusAfter(asked, worker[w].run) IN
          /\ task' = [task EXCEPT !.status = status,
                        !.attempts = IF refund THEN Refunded(@) ELSE @]
          /\ settled' = IF status \in Settled
                        THEN [gen |-> task.gen, version |-> worker[w].seen,
                              run |-> worker[w].run]
                        ELSE settled
    BY <1>5 DEF Finalize
  <2>2. worker[w].run \in Terminal /\ UNCHANGED <<holder, latest>>
    BY <1>5 DEF Finalize
  <2>3. /\ task'.gen = task.gen
        /\ task'.status # "processing"
        /\ task'.status \in Settled => settled'.gen = task.gen /\ settled'.run = worker[w].run
        /\ task'.status = "done" => worker[w].run # "failed"
    BY <1>t, <2>1 DEF Task, Settled, StatusAfter
  <2>4. /\ worker'[w].gen = worker[w].gen /\ worker'[w].phase \in {"returned", "raised"}
        /\ \A v \in Worker \ {w} : worker'[v] = worker[v]
    BY <1>5, <1>t DEF Finalize, GoTo, WorkerState
  <2>5. task'.status = "done" => settled'.run = "completed"
    BY <2>2, <2>3 DEF Terminal, Settled
  <2> QED
    BY <1>4, <2>2, <2>3, <2>4, <2>5
<1>6. CASE FinalizeWithoutRun(w)
  <2>1. /\ task'.gen = task.gen /\ task'.status \in {"failed", "pending"}
        /\ task'.status = "failed" => settled'.gen = task.gen
        /\ UNCHANGED <<holder, latest>>
        /\ worker'[w].gen = worker[w].gen /\ worker'[w].phase = "returned"
        /\ \A v \in Worker \ {w} : worker'[v] = worker[v]
    BY <1>6, <1>t DEF FinalizeWithoutRun, GoTo, Task, WorkerState
  <2> QED
    BY <1>4, <2>1 DEF Settled
<1>7. CASE Defer(w)
  <2>1. /\ task'.gen = task.gen /\ task'.status = "pending"
        /\ UNCHANGED <<holder, latest>>
        /\ worker'[w].gen = worker[w].gen /\ worker'[w].phase = "returned"
        /\ \A v \in Worker \ {w} : worker'[v] = worker[v]
    BY <1>7, <1>t DEF Defer, GoTo, Task, WorkerState
  <2> QED
    BY <1>4, <2>1 DEF Settled
<1>8. CASE GiveUp(w) \/ Raise(w)
  <2>1. /\ UNCHANGED <<task, holder, settled>>
        /\ worker'[w].gen = worker[w].gen /\ worker'[w].phase \in {"returned", "raised"}
        /\ \A v \in Worker \ {w} : worker'[v] = worker[v]
        /\ latest' # latest => worker[w].phase = "turn" /\ InGeneration(w)
    BY <1>8, <1>t DEF GiveUp, Raise, GoTo, WorkerState
  <2>2. HandlersFit' /\ OneTurnPerGeneration'
    BY <2>1, OneHandlerMoves
  <2> QED
    BY <1>t, <2>1, <2>2 DEF FenceInv, Fence, HolderIsCurrent, SettledByItsGeneration,
                            InGeneration
<1>9. ASSUME task'.gen = task.gen, latest' = latest,
             holder' \in {holder, Nobody, LetGo}, holder' # w,
             worker'[w] = Idle,
             \A v \in Worker \ {w} : worker'[v] = worker[v]
      PROVE  HandlersFit' /\ OneTurnPerGeneration'
  BY <1>9, OneHandlerMoves DEF Idle
<1>10. CASE Return(w)
  <2>1. /\ UNCHANGED <<task, latest, settled>>
        /\ holder' \in {holder, Nobody, LetGo} /\ holder' # w
        /\ worker'[w] = Idle
        /\ \A v \in Worker \ {w} : worker'[v] = worker[v]
    BY <1>10, <1>t DEF Return, FreeClaim, Forgotten
  <2>2. HolderIsCurrent' /\ SettledByItsGeneration'
    BY <2>1 DEF FenceInv, Fence, HolderIsCurrent, SettledByItsGeneration, InGeneration
  <2> QED
    BY <1>9, <2>1, <2>2 DEF Fence
<1>11. CASE HandlerError(w)
  <2>1. /\ latest' = latest
        /\ holder' \in {holder, Nobody, LetGo} /\ holder' # w
        /\ worker'[w] = Idle
        /\ \A v \in Worker \ {w} : worker'[v] = worker[v]
    BY <1>11, <1>t DEF HandlerError, FreeClaim, Forgotten
  <2>2. CASE holder = w /\ task.status = "processing"
    <3>1. /\ task'.gen = task.gen /\ task'.status \in {"pending", "failed"}
          /\ task'.status = "failed" => settled'.gen = worker[w].gen
      BY <1>11, <1>t, <2>2 DEF HandlerError, Task
    <3>2. worker[w].gen = task.gen
      BY <2>2 DEF FenceInv, Fence, HolderIsCurrent, InGeneration
    <3>3. HolderIsCurrent' /\ SettledByItsGeneration'
      BY <3>1, <3>2 DEF HolderIsCurrent, SettledByItsGeneration, Settled
    <3> QED
      BY <1>9, <2>1, <3>1, <3>3 DEF Fence
  <2>3. CASE ~(holder = w /\ task.status = "processing")
    <3>1. UNCHANGED <<task, settled>>
      BY <1>11, <2>3 DEF HandlerError
    <3>2. HolderIsCurrent' /\ SettledByItsGeneration'
      BY <2>1, <3>1 DEF FenceInv, Fence, HolderIsCurrent, SettledByItsGeneration, InGeneration
    <3> QED
      BY <1>9, <2>1, <3>1, <3>2 DEF Fence
  <2> QED
    BY <2>2, <2>3
<1> QED
  BY <1>1, <1>2, <1>3, <1>5, <1>6, <1>7, <1>8, <1>10, <1>11 DEF HandlerStep

\* So do the recoveries, which never change the generation.
LEMMA RecoveryKeepsFence ==
    ASSUME FenceInv, RecoverStaleLock \/ Restart \/ RunLeaseEnds
    PROVE  Fence'
<1> USE DEF FenceInv, Fence, HandlersFit, OneTurnPerGeneration, HolderIsCurrent,
            SettledByItsGeneration, InGeneration, Settled
<1>t. task \in Task /\ task.gen \in Nat /\ \A v \in Worker : worker[v].gen \in Nat
  BY DEF TypeOK, Task, WorkerState
<1>1. CASE RecoverStaleLock
  <2>1. /\ task'.gen = task.gen /\ task'.status = "pending"
        /\ holder' \in {holder, Nobody} /\ UNCHANGED <<latest, worker, settled>>
    BY <1>1, <1>t DEF RecoverStaleLock, Task
  <2> QED
    BY <1>t, <2>1
<1>2. CASE Restart
  <2>1. /\ task'.gen = task.gen /\ task'.status \in {task.status, "pending"}
        /\ task'.status # "processing"
        /\ holder' = Nobody /\ UNCHANGED settled
        /\ \A w \in Worker : worker'[w] = Idle
    BY <1>2, <1>t DEF Restart, Task
  <2> QED
    BY <1>t, <2>1 DEF Idle
<1>3. CASE RunLeaseEnds
  BY <1>3, <1>t DEF RunLeaseEnds
<1> QED
  BY <1>1, <1>2, <1>3

LEMMA FenceInductive == Spec => []FenceInv
<1>1. Init => Fence
  BY DEF Init, Fence, HandlersFit, OneTurnPerGeneration, HolderIsCurrent,
         SettledByItsGeneration, InGeneration, Settled, Idle
<1>2. FenceInv /\ TypeOK' /\ [Next]_vars => Fence'
  <2>1. FenceInv /\ UNCHANGED vars => Fence'
    BY DEF vars, FenceInv, Fence, HandlersFit, OneTurnPerGeneration, HolderIsCurrent,
           SettledByItsGeneration, InGeneration
  <2> QED
    BY <2>1, RequeueKeepsFence, HandlerKeepsFence, RecoveryKeepsFence DEF Next
<1> QED
  BY <1>1, <1>2, ReplyTypes, PTL DEF Spec, FenceInv

\* Whoever holds the claim of a processing task claimed it in the generation
\* that is current: reruns and revisions never leave one behind.
THEOREM HolderInGeneration == Spec => []HolderIsCurrent
BY FenceInductive, PTL DEF FenceInv, Fence

\* A settlement belongs to the current generation, and done means a run that
\* completed, whichever of several handlers wrote it.
THEOREM SettlementIsCurrent == Spec => []SettledByItsGeneration
BY FenceInductive, PTL DEF FenceInv, Fence

\* No two handlers run a turn of the same generation.
THEOREM OneTurn == Spec => []OneTurnPerGeneration
BY FenceInductive, PTL DEF FenceInv, Fence

\* A superseded handler ends without touching task, runs or settlement.
THEOREM StaleInert == Spec => StaleHandlerIsInert
<1>1. FenceInv =>
        \A w \in Worker :
          HandlerStep(w) /\ worker[w].phase # "idle" /\ ~InGeneration(w)
          => UNCHANGED <<task, latest, settled>>
  <2> SUFFICES ASSUME FenceInv, NEW w \in Worker, HandlerStep(w),
                      worker[w].phase # "idle", ~InGeneration(w)
               PROVE  UNCHANGED <<task, latest, settled>>
    OBVIOUS
  <2>1. ~Claim(w) /\ ~BeginTurn(w) /\ ~EndTurn(w) /\ ~Finalize(w)
        /\ ~FinalizeWithoutRun(w) /\ ~Defer(w)
    BY DEF Claim, BeginTurn, EndTurn, Finalize, FinalizeWithoutRun, Defer
  <2>2. ~(holder = w /\ task.status = "processing")
    BY DEF FenceInv, Fence, HolderIsCurrent
  <2>3. CASE GiveUp(w) \/ Raise(w) \/ Return(w)
    BY <2>3 DEF GiveUp, Raise, Return
  <2>4. CASE HandlerError(w)
    BY <2>2, <2>4 DEF HandlerError
  <2> QED
    BY <2>1, <2>3, <2>4 DEF HandlerStep
<1> QED
  BY <1>1, FenceInductive, PTL DEF StaleHandlerIsInert

\* A settled task is worked on again only in a new generation: no recovery and
\* no late handler reopens it with the runs of the old decision.
ReopenedInNewGeneration ==
    [][task.status \in Settled /\ task'.status \notin Settled
       => task'.gen > task.gen]_vars

\* A settled task is only worked on again in a new generation.
THEOREM ReopenedFresh == Spec => ReopenedInNewGeneration
<1>1. TypeOK /\ [Next]_vars =>
        (task.status \in Settled /\ task'.status \notin Settled => task'.gen > task.gen)
  <2> SUFFICES ASSUME TypeOK, [Next]_vars, task.status \in Settled
               PROVE  task'.status \in Settled \/ task'.gen > task.gen
    OBVIOUS
  <2> USE DEF Settled
  <2>t. task.gen \in Nat
    BY DEF TypeOK, Task
  <2>1. CASE Requeue
    BY <2>t, <2>1, RequeueFacts
  <2>2. ASSUME NEW w \in Worker, HandlerStep(w) PROVE UNCHANGED task
    BY <2>2 DEF HandlerStep, Claim, BeginTurn, EndTurn, Finalize, FinalizeWithoutRun,
                Defer, GiveUp, Raise, Return, HandlerError
  <2>3. CASE RecoverStaleLock \/ Restart \/ RunLeaseEnds \/ UNCHANGED vars
    BY <2>3 DEF RecoverStaleLock, Restart, RunLeaseEnds, vars
  <2> QED
    BY <2>1, <2>2, <2>3 DEF Next
<1> QED
  BY <1>1, ReplyTypes, PTL DEF ReopenedInNewGeneration, Spec

-----------------------------------------------------------------------------
(* The promise of a generation.                                            *)

Promised == <<task.gen, Handlers, InTurn, Answered, Outcome>>

PromiseStep == Promise!Next \/ UNCHANGED Promised

\* A new generation begins with no handler, turn or answer.
LEMMA RequeueRenews ==
    ASSUME FenceInv, Requeue PROVE PromiseStep
<1>0. TypeOK
  BY DEF FenceInv
<1>1. task.gen \in Nat /\ \A w \in Worker : worker[w].gen \in Nat /\ worker[w].gen <= task.gen
  BY DEF FenceInv, Fence, HandlersFit, TypeOK, Task, WorkerState
<1>2. CASE task'.gen = task.gen + 1 /\ task'.status = "pending" /\ latest' = "none"
  <2>1. Handlers' = {} /\ InTurn' = {}
    BY <1>0, <1>1, <1>2, RequeueFacts DEF Handlers, InTurn, InGeneration
  <2>2. Answered' = FALSE
    BY <1>2, <2>1 DEF Answered
  <2>3. Outcome' = "open"
    BY <1>2 DEF Outcome, Settled
  <2>4. Promise!Renew
    BY <1>2, <2>1, <2>2, <2>3 DEF Promise!Renew
  <2> QED
    BY <2>4 DEF Promise!Next, PromiseStep
<1>3. CASE task'.gen = task.gen /\ task'.status = task.status /\ latest' = latest
  BY <1>0, <1>3, RequeueFacts
  DEF PromiseStep, Promised, Handlers, InTurn, InGeneration, Answered, Outcome
<1> QED
  BY <1>0, <1>2, <1>3, RequeueFacts

\* A handler that ends its work at most drops its answer.
LEMMA OneLeaves ==
    ASSUME FenceInv, NEW w \in Worker,
           \A v \in Worker \ {w} : worker'[v] = worker[v],
           task'.gen = task.gen, latest' = latest,
           worker[w].phase # "idle", worker[w].phase # "turn",
           \/ worker'[w] = Idle
           \/ /\ worker'[w].phase \in {"returned", "raised"}
              /\ worker'[w].gen = worker[w].gen /\ worker'[w].run = worker[w].run
    PROVE  /\ Handlers' \in {Handlers, Handlers \ {w}} /\ InTurn' = InTurn
           /\ Answered' \in {Answered, FALSE}
<1>1. \A v \in Worker \ {w} : v \in Handlers' <=> v \in Handlers
  BY DEF Handlers, InGeneration
<1>2. w \in Handlers' => w \in Handlers /\ worker'[w].run = worker[w].run
  BY DEF Handlers, InGeneration, Idle
<1>3. Handlers' \in {Handlers, Handlers \ {w}}
  BY <1>1, <1>2 DEF Handlers
<1>4. InTurn' = InTurn
  BY DEF InTurn, Handlers, InGeneration, Idle
<1>5. Answered' => Answered
  BY <1>1, <1>2 DEF Answered, Handlers
<1>6. Answered \in BOOLEAN /\ Answered' \in BOOLEAN
  BY DEF Answered
<1> QED
  BY <1>3, <1>4, <1>5, <1>6

\* A handler's decision, or its end without one.
LEMMA DecidesOrLeaves ==
    ASSUME FenceInv, NEW w \in Worker,
           /\ Handlers' \in {Handlers, Handlers \ {w}} /\ InTurn' = InTurn
           /\ Answered' \in {Answered, FALSE},
           task'.gen = task.gen,
           \/ Outcome' = Outcome
           \/ /\ w \in Handlers /\ Outcome = "open" /\ Outcome' \in {"done", "closed"}
              /\ Outcome' = "done" => Answered
    PROVE  PromiseStep
<1>1. CASE Outcome' = Outcome
  <2>1. w \notin InTurn \/ Handlers' = Handlers
    BY DEF InTurn
  <2>2. CASE Handlers' = Handlers
    <3>1. Promise!Leave({})
      BY <1>1, <2>2 DEF Promise!Leave
    <3> QED
      BY <3>1 DEF Promise!Next, PromiseStep
  <2>3. CASE Handlers' = Handlers \ {w} /\ w \notin InTurn
    <3>1. Promise!Leave({w})
      BY <1>1, <2>3 DEF Promise!Leave
    <3> QED
      BY <3>1 DEF Promise!Next, PromiseStep
  <2> QED
    BY <2>1, <2>2, <2>3
<1>2. CASE w \in Handlers /\ Outcome = "open" /\ Outcome' \in {"done", "closed"}
           /\ (Outcome' = "done" => Answered)
  <2>1. Promise!Decide(w)
    BY <1>2 DEF Promise!Decide
  <2> QED
    BY <2>1 DEF Promise!Next, PromiseStep
<1> QED
  BY <1>1, <1>2

LEMMA HandlerKeepsPromise ==
    ASSUME FenceInv, NEW w \in Worker, HandlerStep(w) PROVE PromiseStep
<1>t. /\ task \in Task /\ task.gen \in Nat
      /\ \A v \in Worker : worker[v] \in WorkerState /\ worker[v].gen \in Nat
      /\ worker \in [Worker -> WorkerState]
      /\ latest \in RunStatus
  BY DEF FenceInv, TypeOK, Task, WorkerState
<1>s. \A v \in Worker : InGeneration(v) /\ worker[v].phase = "turn" => latest = "running"
  BY DEF FenceInv, Fence, HandlersFit
<1>b. Answered \in BOOLEAN /\ Answered' \in BOOLEAN
  BY DEF Answered
<1>1. CASE Claim(w)
  <2>1. /\ task'.gen = task.gen /\ task'.status = "processing"
        /\ task.status \in {"pending", "processing"} /\ latest' = latest
        /\ worker[w].phase = "idle"
        /\ worker'[w].phase = "work" /\ worker'[w].gen = task.gen
        /\ worker'[w].run = "completed" => latest = "completed"
        /\ \A v \in Worker \ {w} : worker'[v] = worker[v]
    BY <1>1, <1>t DEF Claim, Task
  <2>2. Handlers' = Handlers \cup {w}
    BY <2>1 DEF Handlers, InGeneration
  <2>3. InTurn' = InTurn
    BY <2>1, <2>2 DEF InTurn, Handlers
  <2>4. Answered' = Answered
    <3>1. w \notin Handlers
      BY <2>1 DEF Handlers
    <3> QED
      BY <2>1, <2>2, <3>1 DEF Answered, Handlers
  <2>5. Outcome = "open" /\ Outcome' = "open"
    BY <2>1 DEF Outcome, Settled
  <2>6. Promise!Join(w)
    BY <2>1, <2>2, <2>3, <2>4, <2>5 DEF Promise!Join
  <2> QED
    BY <2>6 DEF Promise!Next, PromiseStep
<1>2. CASE BeginTurn(w)
  <2>1. /\ task' = task /\ worker[w].phase = "work" /\ InGeneration(w)
        /\ latest # "running" /\ latest' = "running"
        /\ worker'[w] = [worker[w] EXCEPT !.phase = "turn"]
        /\ \A v \in Worker \ {w} : worker'[v] = worker[v]
    BY <1>2, <1>t DEF BeginTurn, GoTo
  <2>2. worker'[w].phase = "turn" /\ worker'[w].gen = worker[w].gen /\ worker'[w].run = worker[w].run
    BY <1>t, <2>1 DEF WorkerState
  <2>3. Handlers' = Handlers /\ w \in Handlers
    <3>1. \A v \in Worker : v \in Handlers' <=> v \in Handlers
      BY <2>1, <2>2 DEF Handlers, InGeneration
    <3> QED
      BY <2>1, <3>1 DEF Handlers
  <2>4. InTurn = {}
    BY <1>s, <2>1 DEF InTurn, Handlers
  <2>5. InTurn' = {w}
    <3>1. \A v \in Worker \ {w} : v \notin InTurn'
      BY <2>1, <2>3, <2>4 DEF InTurn
    <3> QED
      BY <2>2, <2>3, <3>1 DEF InTurn, Handlers
  <2>6. Answered' => Answered
    BY <2>1, <2>2, <2>3 DEF Answered, Handlers
  <2>7. Promise!Begin(w)
    BY <1>b, <2>1, <2>3, <2>4, <2>5, <2>6 DEF Promise!Begin, Outcome
  <2> QED
    BY <2>7 DEF Promise!Next, PromiseStep
<1>3. ASSUME worker[w].phase = "turn", InGeneration(w), task' = task,
             worker'[w].phase \in {"work", "returned", "raised"}, worker'[w].gen = worker[w].gen,
             \A v \in Worker \ {w} : worker'[v] = worker[v]
      PROVE  PromiseStep
  <2>1. Handlers' = Handlers
    BY <1>3 DEF Handlers, InGeneration
  <2>2. InTurn = {w}
    BY <1>3 DEF FenceInv, Fence, OneTurnPerGeneration, InTurn, Handlers, InGeneration
  <2>3. InTurn' = {}
    <3>1. \A v \in Handlers' : v # w => v \in Handlers \ InTurn /\ worker'[v] = worker[v]
      BY <1>3, <2>1, <2>2 DEF Handlers
    <3>2. \A v \in Handlers' : worker'[v].phase # "turn"
      BY <1>3, <3>1 DEF InTurn
    <3> QED
      BY <3>2 DEF InTurn
  <2>4. Promise!End(w)
    BY <1>b, <1>3, <2>1, <2>2, <2>3 DEF Promise!End, Outcome
  <2> QED
    BY <2>4 DEF Promise!Next, PromiseStep
<1>4. CASE EndTurn(w)
  <2>1. /\ worker[w].phase = "turn" /\ InGeneration(w) /\ task' = task
        /\ worker'[w].phase = "work" /\ worker'[w].gen = worker[w].gen
        /\ \A v \in Worker \ {w} : worker'[v] = worker[v]
    BY <1>4, <1>t DEF EndTurn, WorkerState
  <2> QED
    BY <1>3, <2>1
<1>5. ASSUME NEW then \in {"returned", "raised"}, GoTo(w, then),
             worker[w].phase = "work", InGeneration(w), latest' = latest,
             task'.gen = task.gen, task.status \in {"pending", "processing"},
             task'.status \in {"pending"} \cup Settled,
             task'.status = "done" => worker[w].run = "completed"
      PROVE  PromiseStep
  <2>1. /\ worker'[w].phase = then /\ worker'[w].gen = worker[w].gen
        /\ worker'[w].run = worker[w].run
        /\ \A v \in Worker \ {w} : worker'[v] = worker[v]
    BY <1>5, <1>t DEF GoTo, WorkerState
  <2>2. w \in Handlers
    BY <1>5 DEF Handlers
  <2>3. Outcome = "open" /\ Outcome' \in {"open", "done", "closed"}
    BY <1>5 DEF Outcome, Settled
  <2>4. Outcome' = "done" => Answered
    BY <1>5, <2>2 DEF Outcome, Answered
  <2> QED
    BY <1>5, <2>1, <2>2, <2>3, <2>4, OneLeaves, DecidesOrLeaves
<1>6. CASE Finalize(w)
  <2>1. PICK asked \in Settled \cup {"pending"}, refund \in BOOLEAN :
          task' = [task EXCEPT !.status = StatusAfter(asked, worker[w].run),
                               !.attempts = IF refund THEN Refunded(@) ELSE @]
    BY <1>6 DEF Finalize
  <2>2. PICK then \in {"returned", "raised"} : GoTo(w, then)
    BY <1>6 DEF Finalize
  <2>3. /\ task'.gen = task.gen /\ task'.status \in {"pending"} \cup Settled
        /\ task'.status = "done" => worker[w].run # "failed"
    BY <1>t, <2>1 DEF Task, Settled, StatusAfter
  <2>4. /\ worker[w].phase = "work" /\ InGeneration(w) /\ latest' = latest
        /\ task.status \in {"pending", "processing"} /\ worker[w].run \in {"completed", "failed"}
    BY <1>6 DEF Finalize, Terminal
  <2> QED
    BY <1>5, <2>2, <2>3, <2>4
<1>7. CASE FinalizeWithoutRun(w) \/ Defer(w)
  <2>1. /\ GoTo(w, "returned") /\ worker[w].phase = "work" /\ InGeneration(w)
        /\ latest' = latest /\ task.status = "processing"
    BY <1>7 DEF FinalizeWithoutRun, Defer
  <2>2. task'.gen = task.gen /\ task'.status \in {"pending", "failed"}
    BY <1>7, <1>t DEF FinalizeWithoutRun, Defer, Task
  <2> QED
    BY <1>5, <2>1, <2>2 DEF Settled
<1>8. CASE GiveUp(w) \/ Raise(w)
  <2>1. /\ task' = task /\ worker[w].phase \in {"work", "turn"}
        /\ worker'[w].phase \in {"returned", "raised"}
        /\ worker'[w].gen = worker[w].gen /\ worker'[w].run = worker[w].run
        /\ \A v \in Worker \ {w} : worker'[v] = worker[v]
        /\ latest' # latest => worker[w].phase = "turn" /\ InGeneration(w)
    BY <1>8, <1>t DEF GiveUp, Raise, GoTo, WorkerState
  <2>2. CASE worker[w].phase = "turn" /\ InGeneration(w)
    BY <1>3, <2>1, <2>2
  <2>3. CASE worker[w].phase = "work"
    BY <2>1, <2>3, OneLeaves, DecidesOrLeaves DEF Outcome
  <2>4. CASE ~InGeneration(w)
    BY <2>1, <2>4 DEF PromiseStep, Promised, Handlers, InTurn, InGeneration, Answered, Outcome
  <2> QED
    BY <2>1, <2>2, <2>3, <2>4
<1>9. CASE Return(w) \/ HandlerError(w)
  <2>1. /\ latest' = latest /\ worker[w].phase \in {"returned", "raised"}
        /\ worker'[w] = Idle
        /\ \A v \in Worker \ {w} : worker'[v] = worker[v]
    BY <1>9, <1>t DEF Return, HandlerError, Forgotten
  <2>2. CASE task' = task
    BY <2>1, <2>2, OneLeaves, DecidesOrLeaves DEF Outcome
  <2>3. CASE task' # task
    <3>1. /\ holder = w /\ task.status = "processing"
          /\ task'.gen = task.gen /\ task'.status \in {"pending", "failed"}
      BY <1>9, <1>t, <2>3 DEF Return, HandlerError, Task
    <3>2. w \in Handlers
      BY <3>1 DEF FenceInv, Fence, HolderIsCurrent, Handlers
    <3>3. Outcome = "open" /\ Outcome' \in {"open", "closed"}
      BY <3>1 DEF Outcome, Settled
    <3> QED
      BY <2>1, <3>1, <3>2, <3>3, OneLeaves, DecidesOrLeaves
  <2> QED
    BY <2>2, <2>3
<1> QED
  BY <1>1, <1>2, <1>4, <1>6, <1>7, <1>8, <1>9 DEF HandlerStep

LEMMA RecoveryKeepsPromise ==
    ASSUME FenceInv, RecoverStaleLock \/ Restart \/ RunLeaseEnds \/ UNCHANGED vars
    PROVE  PromiseStep
<1>t. task \in Task
  BY DEF FenceInv, TypeOK
<1>1. CASE RecoverStaleLock \/ RunLeaseEnds \/ UNCHANGED vars
  <2>1. /\ worker' = worker /\ task'.gen = task.gen
        /\ latest' = "completed" <=> latest = "completed"
        /\ \/ task'.status = task.status
           \/ task.status = "processing" /\ task'.status = "pending"
    <3>1. CASE RecoverStaleLock
      BY <1>t, <3>1 DEF RecoverStaleLock, Task
    <3>2. CASE RunLeaseEnds \/ UNCHANGED vars
      BY <3>2 DEF RunLeaseEnds, vars
    <3> QED
      BY <1>1, <3>1, <3>2
  <2>2. Handlers' = Handlers /\ InTurn' = InTurn
    BY <2>1 DEF Handlers, InTurn, InGeneration
  <2>3. Answered' = Answered /\ Outcome' = Outcome
    BY <2>1, <2>2 DEF Answered, Outcome, Settled
  <2> QED
    BY <2>1, <2>2, <2>3 DEF PromiseStep, Promised
<1>2. CASE Restart
  <2>1. /\ task'.gen = task.gen
        /\ \/ task'.status = task.status
           \/ task.status = "processing" /\ task'.status = "pending"
        /\ latest' = "completed" => latest = "completed"
        /\ \A w \in Worker : worker'[w].phase = "idle"
    <3>1. \A w \in Worker : worker'[w].phase = "idle"
      BY <1>2 DEF Restart, Idle
    <3>2. CASE task.status = "processing"
      BY <1>2, <1>t, <3>1, <3>2 DEF Restart, Task
    <3>3. CASE task.status # "processing"
      BY <1>2, <3>1, <3>3 DEF Restart
    <3> QED
      BY <3>2, <3>3
  <2>2. Handlers' = {} /\ InTurn' = {}
    BY <2>1 DEF Handlers, InTurn
  <2>3. Outcome' = Outcome
    BY <2>1 DEF Outcome, Settled
  <2>4. Answered' \in {Answered, FALSE}
    BY <2>1, <2>2 DEF Answered
  <2>5. Handlers \subseteq Worker /\ InTurn \subseteq Worker
    BY DEF Handlers, InTurn
  <2>6. Promise!Leave(Worker)
    BY <2>1, <2>2, <2>3, <2>4, <2>5 DEF Promise!Leave
  <2> QED
    BY <2>6 DEF Promise!Next, PromiseStep
<1> QED
  BY <1>1, <1>2

\* Claim, generation fence and run rows implement the promise of a generation:
\* one decision, by a handler of its own, done only with an answer of one of its
\* own turns, however handlers, reruns, recoveries and restarts interleave; a
\* settled task is worked on again only in a new generation.
THEOREM DecidesOnce == Spec => ImplementsOneDecision
<1>1. Init => Promise!Init
  BY DEF Init, Promise!Init, Handlers, InTurn, Answered, Outcome, Settled, Idle
<1>2. FenceInv /\ [Next]_vars => [Promise!Next]_Promised
  BY RequeueRenews, HandlerKeepsPromise, RecoveryKeepsPromise DEF Next, PromiseStep
<1> QED
  BY <1>1, <1>2, FenceInductive, PTL DEF Spec, ImplementsOneDecision, Promise!Spec, Promised
=============================================================================
