----------------------------- MODULE ReplyTask -----------------------------
(***************************************************************************)
(* One reply task as a business object: its inputs, its execution          *)
(* generations, the Agent runs of a generation and the handlers that work  *)
(* on it (app/store.py, app/worker.py).                                    *)
(*                                                                         *)
(* Two fences protect the row.  The dispatcher claim (module               *)
(* DispatchClaims) is kept here only as its holder: whoever holds it, no   *)
(* other handler may claim.  The execution generation is what the writes   *)
(* of a handler are checked against: a rerun, a revised card or a new      *)
(* input of a settled task starts a new one.  Stale-lock recovery may free *)
(* the claim of a handler that is still at work, so two handlers of one    *)
(* generation can meet.                                                    *)
(*                                                                         *)
(* Generations are uuids, numbered here in the order they are drawn.       *)
(***************************************************************************)
EXTENDS Integers, FiniteSets

CONSTANTS
    Worker,         \* handlers
    Nobody,         \* holder of a free claim
    LetGo,          \* holder of a claim that still names its owner, but no live process
    MaxAttempts,    \* max_task_attempts
    MaxInputs,      \* bound on input_version
    MaxGenerations, \* bound on the generations drawn
    MaxClaims       \* bound on the attempts of one generation

ASSUME ReplyTaskAssumption ==
    /\ Nobody \notin Worker
    /\ LetGo \notin Worker \cup {Nobody}
    /\ MaxAttempts \in Nat \ {0}
    /\ {MaxInputs, MaxGenerations, MaxClaims} \subseteq Nat

VARIABLES
    task,    \* status, attempts, generation and input versions of the row
    holder,  \* the handler whose dispatcher claim is on the row, if any
    latest,  \* status of the latest run of the current generation
    worker,  \* worker[w]: what the handler read when it claimed, and its run
    settled  \* history: generation, input and run of the last settlement

vars == <<task, holder, latest, worker, settled>>

Settled == {"done", "failed", "needs_human", "skipped"}
Status == {"pending", "processing"} \cup Settled

\* Of a run.  "expired" is a running row whose own lease has run out.
Terminal == {"completed", "failed"}
RunStatus == {"none", "running", "expired"} \cup Terminal

Task == [status: Status, attempts: Nat, gen: Nat, version: Nat, claimed: Nat]

WorkerPhase == {"idle", "work", "turn", "returned", "raised"}
WorkerState == [phase: WorkerPhase, gen: Nat, seen: Nat, attempt: Nat,
                run: {"none"} \cup Terminal]

Idle == [phase |-> "idle", gen |-> 0, seen |-> 0, attempt |-> 0, run |-> "none"]

Settlement == [gen: Nat, version: Nat, run: {"none"} \cup Terminal]

Refunded(n) == IF n = 0 THEN 0 ELSE n - 1

\* expected_execution_generation is still the generation of the row.
InGeneration(w) == worker[w].gen = task.gen

GoTo(w, p) == worker' = [worker EXCEPT ![w].phase = p]

-----------------------------------------------------------------------------
(* What starts or restarts the work: a new execution generation.           *)

\* Faulty: a rerun that only swaps the generation of a task at work.
NewGenerationInPlace(newVersion, newClaimed) ==
    /\ task.gen < MaxGenerations
    /\ task' = [task EXCEPT !.attempts = 0, !.gen = @ + 1,
                  !.version = newVersion, !.claimed = newClaimed]
    /\ latest' = "none"

\* A new uuid, back in the queue, budget restored; no run of it exists yet.
NewGeneration(newVersion, newClaimed) ==
    /\ task.gen < MaxGenerations
    /\ task' = [status |-> "pending", attempts |-> 0, gen |-> task.gen + 1,
                version |-> newVersion, claimed |-> newClaimed]
    /\ latest' = "none"

\* _ensure_business_reply_task: another message about the same business
\* object.  The binding advances; only a done or failed task is reset.  (A
\* refreshed text of a queued message advances the binding the same way.)
NewInput ==
    /\ task.version < MaxInputs
    /\ IF task.status \in {"done", "failed"}
       THEN NewGeneration(task.version + 1, task.claimed)
       ELSE /\ task' = [task EXCEPT !.version = @ + 1]
            /\ UNCHANGED latest
    /\ UNCHANGED <<holder, worker, settled>>

\* requeue_terminal_reply_task_for_revised_trigger: a card that changed.
ReviseCard ==
    /\ task.version < MaxInputs
    /\ task.status \in {"done", "failed"}
    /\ NewGeneration(task.version + 1, task.version + 1)
    /\ UNCHANGED <<holder, worker, settled>>

\* replace_pending_single_chat_reply_task_trigger: a later message of the
\* chat takes the place of the queued one; running runs are superseded.
ReplacePending ==
    /\ task.version < MaxInputs
    /\ task.status = "pending" /\ task.attempts = 0
    /\ NewGeneration(task.version + 1, task.claimed)
    /\ UNCHANGED <<holder, worker, settled>>

\* enqueue_manual_rerun_reply_task: a person asks for a new decision, in any
\* status; running runs are superseded.
ManualRerun ==
    /\ task.version < MaxInputs
    /\ NewGeneration(task.version + 1, 0)
    /\ UNCHANGED <<holder, worker, settled>>

\* retry_failed_reply_task: a failed turn is reopened with the same input.
RetryFailed ==
    /\ task.status = "failed"
    /\ latest = "failed"
    /\ NewGeneration(task.version, task.claimed)
    /\ UNCHANGED <<holder, worker, settled>>

-----------------------------------------------------------------------------
(* A handler.                                                              *)

\* The dispatcher's claim pins the current input; it also takes over a claim
\* that was let go of.  A finished run of the generation is taken up by the
\* orchestrator instead of being repeated.
Claim(w) ==
    /\ \/ task.status = "pending" /\ holder \in {Nobody, LetGo}
       \/ task.status = "processing" /\ holder = LetGo
    /\ worker[w].phase = "idle"
    /\ task.attempts < MaxClaims
    /\ task' = [task EXCEPT !.status = "processing", !.attempts = @ + 1,
                            !.claimed = task.version]
    /\ holder' = w
    /\ worker' = [worker EXCEPT ![w] =
                    [phase |-> "work", gen |-> task.gen, seen |-> task.version,
                     attempt |-> task.attempts + 1,
                     run |-> IF latest \in Terminal THEN latest ELSE "none"]]
    /\ UNCHANGED <<latest, settled>>

\* Faulty: a turn that another handler runs is run again.
BeginTurnAgain(w) ==
    /\ worker[w].phase = "work"
    /\ InGeneration(w)
    /\ latest' = "running"
    /\ GoTo(w, "turn")
    /\ UNCHANGED <<task, holder, settled>>

\* claim_agent_run: refused in another generation; a turn that runs already
\* is not claimed twice.
BeginTurn(w) ==
    /\ worker[w].phase = "work"
    /\ InGeneration(w)
    /\ latest # "running"
    /\ latest' = "running"
    /\ GoTo(w, "turn")
    /\ UNCHANGED <<task, holder, settled>>

\* complete_agent_run / fail_agent_run, in the generation of the run.
EndTurn(w) ==
    /\ worker[w].phase = "turn"
    /\ InGeneration(w)
    /\ \E result \in Terminal :
         /\ latest' = result
         /\ worker' = [worker EXCEPT ![w].phase = "work", ![w].run = result]
    /\ UNCHANGED <<task, holder, settled>>

\* Faulty: what the caller asked for, whatever became of the run.
StatusAsAsked(asked, run) == asked

\* The result of a failed run cannot make the task done.
StatusAfter(asked, run) == IF asked = "done" /\ run = "failed" THEN "failed" ELSE asked

\* Faulty: "unchanged" is written to the row instead of leaving it alone.
FinalizeUnchanged(w) ==
    /\ worker[w].phase = "work"
    /\ InGeneration(w)
    /\ worker[w].run \in Terminal
    /\ task.status \in {"processing", "pending"}
    /\ task' = [task EXCEPT !.status = "unchanged"]
    /\ GoTo(w, "returned")
    /\ UNCHANGED <<holder, latest, settled>>

\* finalize_orchestrated_reply_task: attempt row and task in one transaction.
\* A task that was requeued meanwhile, in the same generation, is settled too.
Finalize(w) ==
    /\ worker[w].phase = "work"
    /\ InGeneration(w)
    /\ worker[w].run \in Terminal
    /\ task.status \in {"processing", "pending"}
    /\ \E asked \in Settled \cup {"pending"}, refund \in BOOLEAN :
         LET status == StatusAfter(asked, worker[w].run) IN
         /\ refund => asked = "pending"
         /\ asked = "pending" => refund \/ worker[w].attempt < MaxAttempts
         /\ task' = [task EXCEPT !.status = status,
                       !.attempts = IF refund THEN Refunded(@) ELSE @]
         /\ settled' = IF status \in Settled
                       THEN [gen |-> task.gen, version |-> worker[w].seen,
                             run |-> worker[w].run]
                       ELSE settled
    /\ \E then \in {"returned", "raised"} : GoTo(w, then)
    /\ UNCHANGED <<holder, latest>>

\* finalize_reply_task_without_run: nothing was run, or nothing usable.
FinalizeWithoutRun(w) ==
    /\ worker[w].phase = "work"
    /\ InGeneration(w)
    /\ task.status = "processing"
    /\ \E status \in {"failed", "pending"} :
         /\ status = "pending" => worker[w].attempt < MaxAttempts
         /\ task' = [task EXCEPT !.status = status]
         /\ settled' = IF status = "failed"
                       THEN [gen |-> task.gen, version |-> worker[w].seen, run |-> "none"]
                       ELSE settled
    /\ GoTo(w, "returned")
    /\ UNCHANGED <<holder, latest>>

\* Faulty: the deferral is fenced by the status alone.
DeferAnyGeneration(w) ==
    /\ worker[w].phase = "work"
    /\ task.status = "processing"
    /\ task' = [task EXCEPT !.status = "pending", !.attempts = Refunded(@)]
    /\ GoTo(w, "returned")
    /\ UNCHANGED <<holder, latest, settled>>

\* defer_reply_task: back in the queue, usually with the attempt refunded.
Defer(w) ==
    /\ worker[w].phase = "work"
    /\ InGeneration(w)
    /\ task.status = "processing"
    /\ \E refund \in BOOLEAN :
         /\ refund \/ worker[w].attempt < MaxAttempts
         /\ task' = [task EXCEPT !.status = "pending",
                       !.attempts = IF refund THEN Refunded(@) ELSE @]
    /\ GoTo(w, "returned")
    /\ UNCHANGED <<holder, latest, settled>>

\* AgentRunLeaseLostError: the generation or the task moved on, the handler
\* returns and writes nothing.
GiveUp(w) ==
    /\ worker[w].phase \in {"work", "turn"}
    /\ ~InGeneration(w) \/ (worker[w].phase = "work" /\ task.status # "processing")
    /\ GoTo(w, "returned")
    /\ UNCHANGED <<task, holder, latest, settled>>

\* Any exception.  The run of a turn that fails is closed in its generation.
Raise(w) ==
    /\ worker[w].phase \in {"work", "turn"}
    /\ latest' = IF worker[w].phase = "turn" /\ InGeneration(w) THEN "failed" ELSE latest
    /\ GoTo(w, "raised")
    /\ UNCHANGED <<task, holder, settled>>

Forgotten(w) == worker' = [worker EXCEPT ![w] = Idle]

FreeClaim(w, left) == holder' = IF holder = w THEN left ELSE holder

\* The callback of a handler that returned completes the claim, or lets go of
\* it when its lease has run out.
Return(w) ==
    /\ worker[w].phase = "returned"
    /\ \E left \in {Nobody, LetGo} : FreeClaim(w, left)
    /\ Forgotten(w)
    /\ UNCHANGED <<task, latest, settled>>

\* The callback of one that raised: _handle_handler_error is fenced by the
\* claim and by the status, not by the execution generation.
HandlerError(w) ==
    /\ worker[w].phase = "raised"
    /\ IF holder = w /\ task.status = "processing"
       THEN LET status == IF worker[w].attempt < MaxAttempts THEN "pending" ELSE "failed"
            IN /\ task' = [task EXCEPT !.status = status]
               /\ settled' = IF status = "failed"
                             THEN [gen |-> worker[w].gen, version |-> worker[w].seen,
                                   run |-> worker[w].run]
                             ELSE settled
            /\ FreeClaim(w, Nobody)
       ELSE UNCHANGED <<task, settled>> /\ FreeClaim(w, LetGo)
    /\ Forgotten(w)
    /\ UNCHANGED latest

-----------------------------------------------------------------------------
(* Recoveries.                                                             *)

\* Faulty: a task that is no longer processing is requeued as well.
RecoverAnyLock ==
    /\ latest \notin {"running", "expired"}
    /\ task' = [task EXCEPT !.status = "pending"]
    /\ holder' \in {holder, Nobody}
    /\ UNCHANGED <<latest, worker, settled>>

\* recover_stale_processing_reply_tasks: a lock with no run at work is
\* requeued in its generation; the claim goes with it when it has expired.
RecoverStaleLock ==
    /\ task.status = "processing"
    /\ latest \notin {"running", "expired"}
    /\ task' = [task EXCEPT !.status = "pending"]
    /\ holder' \in {holder, Nobody}
    /\ UNCHANGED <<latest, worker, settled>>

\* The service dies and starts again: no handler is left.  Without a run the
\* attempt is given back; otherwise the interrupted run is failed.
Restart ==
    /\ worker' = [w \in Worker |-> Idle]
    /\ holder' = Nobody
    /\ IF task.status = "processing"
       THEN /\ task' = [task EXCEPT !.status = "pending",
                          !.attempts = IF latest = "none" THEN Refunded(@) ELSE @]
            /\ latest' = IF latest \in {"running", "expired"} THEN "failed" ELSE latest
       ELSE UNCHANGED <<task, latest>>
    /\ UNCHANGED settled

\* The lease of a run that a dead process left behind, on a task that was not
\* processing, runs out: claim_agent_run may take the run over.
RunLeaseEnds ==
    /\ latest = "running"
    /\ \A w \in Worker : worker[w].phase = "turn" => ~InGeneration(w)
    /\ latest' = "expired"
    /\ UNCHANGED <<task, holder, worker, settled>>

-----------------------------------------------------------------------------
Init ==
    /\ task = [status |-> "pending", attempts |-> 0, gen |-> 0,
               version |-> 1, claimed |-> 0]
    /\ holder = Nobody
    /\ latest = "none"
    /\ worker = [w \in Worker |-> Idle]
    /\ settled = [gen |-> 0, version |-> 0, run |-> "none"]

Requeue ==
    NewInput \/ ReviseCard \/ ReplacePending \/ ManualRerun \/ RetryFailed

HandlerStep(w) ==
    \/ Claim(w) \/ BeginTurn(w) \/ EndTurn(w)
    \/ Finalize(w) \/ FinalizeWithoutRun(w) \/ Defer(w) \/ GiveUp(w) \/ Raise(w)
    \/ Return(w) \/ HandlerError(w)

Next ==
    \/ Requeue
    \/ \E w \in Worker : HandlerStep(w)
    \/ RecoverStaleLock \/ Restart \/ RunLeaseEnds

Spec == Init /\ [][Next]_vars

-----------------------------------------------------------------------------
(* Properties.                                                             *)

TypeOK ==
    /\ task \in Task
    /\ holder \in Worker \cup {Nobody, LetGo}
    /\ latest \in RunStatus
    /\ worker \in [Worker -> WorkerState]
    /\ settled \in Settlement

\* A settled task rests on a decision of its current generation, and a done
\* one on a run that completed: a rerun is never answered by the old run.
SettledByItsGeneration ==
    task.status \in Settled =>
        /\ settled.gen = task.gen
        /\ task.status = "done" => settled.run = "completed"

\* The claim alone is enough for the error path: a handler that still holds
\* the claim of a processing task is a handler of its current generation.
HolderIsCurrent ==
    \A w \in Worker :
        holder = w /\ task.status = "processing" =>
            worker[w].phase # "idle" /\ InGeneration(w)

\* One turn at a time in a generation, whoever claimed the task in between.
OneTurnPerGeneration ==
    \A w1, w2 \in Worker :
        /\ worker[w1].phase = "turn" /\ worker[w2].phase = "turn"
        /\ worker[w1].gen = worker[w2].gen
        => w1 = w2

\* A handler whose generation was superseded changes nothing any more, however
\* it ends: its finalization, its deferral and its error path are all fenced.
StaleHandlerIsInert ==
    [][\A w \in Worker :
         HandlerStep(w) /\ worker[w].phase # "idle" /\ ~InGeneration(w)
         => UNCHANGED <<task, latest, settled>>]_vars

\* Claim, fences and run rows implement the promise of a generation: it is
\* decided once, by one of its own handlers, done only with an answer of its
\* own, and reopened only by starting the next one.
Handlers == {w \in Worker : worker[w].phase # "idle" /\ InGeneration(w)}

InTurn == {w \in Handlers : worker[w].phase = "turn"}

Answered ==
    \/ latest = "completed"
    \/ \E w \in Handlers : worker[w].run = "completed"

Outcome ==
    IF task.status = "done" THEN "done"
    ELSE IF task.status \in Settled THEN "closed" ELSE "open"

Promise == INSTANCE OneDecision WITH
    Handler <- Worker, gen <- task.gen, handlers <- Handlers, turn <- InTurn,
    answered <- Answered, outcome <- Outcome

ImplementsOneDecision == Promise!Spec

\* A new input that reaches a task in execution requeues the task when the
\* round ends: it is not done with an input that no execution has read.
NewInputRequeues ==
    [][task.status # "done" /\ task'.status = "done"
       => settled'.version = task.version]_vars
=============================================================================
