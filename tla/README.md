# TLA+ models of ceo-agent-service

Models, model-checking instances and machine-checked proofs for the parts of
ceo-agent-service whose correctness rests on interleavings, leases, locks and
restarts rather than on the result of one call. Paths below are relative to the
repository; `app/...` is the Python service.

## The system

The service polls DingTalk, WeChat, email and schedules, turns what it finds into
rows of a SQLite database, and lets Agents decide and act on them.

| Part | State it keeps | Operations | Talks to |
|---|---|---|---|
| Dispatcher (`app/dispatcher/`) | futures in flight, capacity counters, renewal times | renew, claim, submit, completion callback | queue rows through adapters; handlers on thread pools |
| Claim lifecycle (`task_lifecycle_storage.py`, `dispatcher/adapters.py`) | owner, owner pid, claim generation, lease end on the Task row; passive history | acquire, renew, assert, transition, let go, prune | called by dispatcher, `ClaimGuard`, recoveries |
| Reply task (`store.py`, `worker.py`) | status, attempts, execution generation, input versions, runs | new input, rerun, revise, retry, finalize, defer, recover | producers, orchestrator, console |
| Orchestrator and turn runner (`agent_orchestrator.py`, `agent_turn_runner.py`) | Consumer and Audit runs, frozen candidate, review rounds | run a turn, correct, audit, execute | runtime router, system executor |
| Runtime router (`agent_runtime_router.py`) | runtime attempts with leases, route health, sessions | select, fail over, correct, recover | provider processes |
| External actions (`system_executor.py`, `reviewed_candidate_store.py`, `shared_action_lifecycle.py`, `system_action_handlers.py`) | execution leases, attempt journal per candidate, provider receipts | claim, journal, call, read back, record, finish | orchestrator, providers |
| Todo outbox, WeChat delivery (`todo_sync.py`, `wechat/`) | delivery rows and receipts | claim, send, reconcile | providers |
| Cron scheduler (`agent_cron/`) | planned instants in memory, one row per occurrence | plan, tick, catch up, merge, trigger | dispatcher, runtime routes, console edits |
| Workbench, meetings, OKR, email | queues of their own with the same lease idea | | dispatcher or own workers |
| Supervisor (`service_supervisor.py`) | three child processes | start order, restart | worker, audit web, email worker |
| Deployment (`deployment_drain.py`, `repository_updater.py`, `deploy.py`) | two lock files, upgrade receipt, backup | drain, quiet wait, stop, update, restart, roll back | every claimer, launchd, git |
| Audit web and console | read models | rerun, retry, close | store |

`PROJECT.json` lists every part with its status and every hazard with its line.

What is hard in it: handlers run on threads for up to an hour while their leases
are seconds to minutes long; the completion callback, the renewal pass, the claim
scan, stale-lock recovery, restart recovery and a person's rerun all write the same
row; any of these writes may fail; the process may die between any two; a
deployment must stop all of it without cutting work off.

What makes the parts correct, in one line each: a source is worked on once at a
time and is never stranded (claims); what a superseded execution does has no effect
(reply task); nothing is claimed under a drain and nothing running is stopped
(deployment); an uncertain external effect is read back, never repeated (actions,
outbox, WeChat); an attempt that fails over does not count twice (router); one run
per occurrence and version (scheduler); children start in order (supervisor).

## Modules

| Module | Models | Proofs | Instances |
|---|---|---|---|
| `ExclusiveClaim` | what a claim promises: taken while nobody works on the source, settled once with nobody at work | refined in `DispatchClaimsProofs` | |
| `DispatchClaims` | the claim of a reply task, dispatcher, handler, callback, recoveries, crash, time | `DispatchClaimsProofs` | `MCDispatchClaims` |
| `OneDecision` | what an execution generation promises: one decision, by a handler of its own, done only with an answer of its own | refined in `ReplyTaskProofs` | |
| `ReplyTask` | the task as business object: inputs, generations, runs, handlers | `ReplyTaskProofs` | `MCReplyTask` |
| `Quiescence` | what a drain promises: no work begins behind a shut door, quiet, stop and restart with no kept work left | refined in `DeploymentDrainProofs` | |
| `DeploymentDrain` | admission gate, drain lock, quiet check, stop, restart, rollback | `DeploymentDrainProofs` | `MCDeploymentDrain` |
| `DispatcherLoop` | passes over the queues in turn, capacity, wake event, callbacks, restart | `DispatcherLoopProofs` | `MCDispatcherLoop` |
| `CronScheduler` | planning and ticks of one scheduled task, its occurrences, the trigger consumer, a user's hand | `CronSchedulerProofs`, `CronRecordProofs` (one scheduler) | `MCCronScheduler` |
| `OnceEffect` | what reviewed execution promises: an effect at most once, a receipt only afterwards | refined in `ExternalActionProofs` | |
| `ExternalAction` | executions of candidates, leases, attempt journal, calls, read-backs, receipts | `ExternalActionProofs` | `MCExternalAction` |

Each module names its actions after what the code does; `PROJECT.json` maps every
one to its lines. Definitions whose comment starts with "Faulty" are plausible bugs
of the definition after them. They are not part of any specification; each exists to
show that a property would notice it.

### DispatchClaims

`row[t]` is the Task row and its claim, `handler[s]` a submitted future with its
envelope and `ClaimGuard`, `due` the snapshot of `renew_in_flight`, `service` the
pid of the worker. Deadlines are kept as ticks left; one tick is half a lease, the
renewal interval. `Claim` is one transaction of `_TaskQueueAdapter.claim` plus the
submit. A renewal pass is two steps, because callbacks run between its snapshot and
its writes. A callback is up to three steps (`Pop`, `Complete` or `Recover`,
`LetGo`), because the code uses that many transactions. `CallbackUnsaved` is a
failing write in the callback. `RecoverStaleLock`, `AfterRestart` and `ForgetClaim`
are the other writers. Start-up repairs that replace one settled status by another
are not modelled.

`ExclusiveClaim` has no lease, owner, generation or clock. `Promise` instantiates it
with the handlers that have not returned as workers and the done and failed tasks as
settled: `Claim` is `Take`, every other step is `Leave` (often of nobody).

The owner string and the owner pid are separate columns, and letting go clears only
the second; the live-owner guard reads the second and the fence the first, so both
are in the model.

### ReplyTask

The claim is reduced to `holder`, execution generations are numbered in the order
they are drawn, and `latest` is the latest run of the current generation.
`worker[w]` keeps what a handler read when it claimed: generation, input version,
attempt. `settled` is a history variable with the generation, input and run of the
last settlement. Stale-lock recovery may take the claim from a live handler (it
clears an expired one), so two handlers of one generation occur. A claim that was
let go of (`LetGo`) still names its owner, which is what lets a processing row be
claimed again. `replace_pending_single_chat_reply_task_trigger` sets the version to
the number of inputs of the task; the model advances it by one, since only the
comparison with what was claimed matters. Email tasks finish through
`complete_reply_task`, which is not part of this module.

`OneDecision` has no claim, attempt, input version or run row. `Promise` instantiates
it with the handlers of the current generation that have not ended, those of them in
a turn, whether a completed run is at hand (as the latest run, or with a handler that
read it), and the status folded to open, done or closed. A requeue with a new
generation is `Renew`, `Claim` is `Join`, the ends of a turn are `End`, the writes
that settle are `Decide`, and everything else is `Leave` (often of nobody).

### DeploymentDrain

A slot is a claimer with the work it claims. The steps of `claim_connection` are
separate actions: the gate is tried without blocking, the shared lock is taken with
the gate held, the gate is left before the transaction begins, the shared lock after
it committed. The deployer's steps follow `deployment_drain` and
`RepositoryUpdater.execute`. `Stop` and `Restart` may repeat (rollback), and every
early exit is `LeaveExclusive`, which can leave the service stopped. Either side may
die at any step. `Counted` is `in_flight_work`: an unexpired lease or a running
turn.

`LeaseLoss` is the set of claimers whose renewals may fail. What the drain promises
is promised to the others (`NeverRestartOverLeased`), also while these lose theirs.

`Quiescence` has neither locks nor leases: a door, who is at work, and whether the
service runs. `Promise` maps the exclusive drain lock to a shut door, the phases from
the quiet check to the last restart to a quiet one, and the slots from the commit of
their claim to their end to work; the slots outside `LeaseLoss` are the kept ones. A
deployer that dies after the quiet check leaves the door shut until its drain
descriptor is closed, which is a step back from quiet to shut.

### DispatcherLoop

A queue is the number of its sources that are due (`due`); what a claim does to a row
is `DispatchClaims`. A turn of `dispatch_available` is `SkipFull`, or `Reserve`
followed by `NothingDue`, `GateBusy` or `Claim`, the last followed by `Submit` or
`Reject`: capacity is reserved under the lock and given back by another thread, so the
steps are separate. `seen` is the set of queues passed without a claim, which is what
`empty_in_row` counts, because the turns go round. A callback is `Return` (the future
is popped and its capacity given back) and `Signal`, with its writes between; the
wake event is cleared by `BeginPass` before the queues are looked at. `silent` is a
history variable: work came up that nobody signalled since the pass began. An
exception that leaves the loop ends the process (`Restart`). `drain()` and the
cancelling of futures follow a stop event that no production caller sets, and are
left out.

### CronScheduler

One scheduled task; tasks meet only in the order of a tick. `tick()` is cut where it
reads or writes the store: `BeginTick` takes the due instant and plans the next one
under the lock, `Decide` reads the skip reason, `Classify` asks whether the route is
paused, and the creation compares version, overlap and coverage again and then
inserts, merges or asks for another try. `tick[s]` is what was read and may be stale.
`plan[s]` is lost in a crash; `Replan` is what `start()` and `reload()` make of the
rows, including the catch-up of the latest missed instant. A row stands for the
instants from `first` to `for`, since skipped rows and empty commands are merged.
Rows become executions through the trigger consumer (`DispatchAgent`, `LinkCommand`
and the failures). A user edits, pauses, deletes, runs by hand and reopens.

### ExternalAction

`Plan[e]` names the actions of candidate `e`; the same action may be in several
plans, since its key is made of the business object and the action, not of the
candidate. `attempt[e][k]` is the journal row, `holder[e]` the owner of an unexpired
lease. An executor's steps are the transactions and calls of `execute()`: `Look`,
`ReadPrior`, `Begin` (the journal is written before the call), `Call`, `Land`,
`Answer` or `Reconcile`, `Record`, `Finish`. A call that nobody waits for is
`inflight` until it lands or is lost. `Stop` is an exception or the death of the
process at any of these points, `Expire` a lease that runs out at any of them.
`Readback` are the actions whose handler may conclude from a read-back that there
was no effect (`OaAppendApproverHandler`, `OaRedirectHandler`); the others never do
after a call. When a next candidate may be adopted is taken from `_derive_state` of
the orchestrator. Not in the model: the calendar reservation across business
objects, permission requests, `reconciliation_only`, the content of receipts (a
conflict is one of the failures of `Look`), the dispatch claim of the sender per
delivery key, WeChat's lease heartbeat, and other parties causing the same effect.

`OnceEffect` has only effects and receipts. `Once` instantiates it for the actions
outside `Readback`.

## Runs

Passing:

- `claims_exclusive`: one worker per task, the worker holds its claim, no lease
  without a handler, and the refinement of `ExclusiveClaim`. The generation fence is
  checked in `claims_reclaim`, where more can break it. Stale-lock recovery and
  store outages are off; missed and failed renewals, crashes, late callbacks and
  capacity are on.
- `claims_reclaim`: everything on. The generation fence, `LiveClaimIsKept`,
  `SettledStaysSettled`, and under fairness `SettlesUnlessStranded`: once faults stop
  a task is settled unless a lease of the live service is left on it with no handler
  to hand it back. That this exception needs a failed callback write is
  `NoLeaseWithoutHandler`, which `claims_exclusive` checks and `NothingStranded`
  proves.
- `drain`: four claimers, two of which may lose their leases. Safety of the two locks
  with death of either side, no leased work stopped, the refinement of `Quiescence`,
  no starvation of the deployer, and no claimer stuck behind it.
- `loop_turns`: a queue with its own pool and two Agent queues behind one shared slot.
  Capacity is exact, no wake is lost, and each due queue is served in turn.
- `cron_triggers`: one scheduler with crashes, lock conflicts and route outages, and
  a user. One row per instant and version, overlap only by hand, the right
  configuration, merged rows lose no instant of the current version (nor of an older
  one whose rows stay where they are), and every instant or a later one is recorded in
  the end.
- `action_once`: two executors, two candidates that repeat each other's messages in
  the other order. At most one effect, true receipts, plan order, and `OnceEffect`.
- `reply_generations`: the generation fence with two handlers, and the refinement of
  `OneDecision`.

Violated, each a statement of the documentation against the code (`findings`):

- `claims_overlap`: the documentation says a source with an expired lease of a live
  owner is not claimed again so as not to execute twice; stale-lock recovery does so
  when the handler is between two turns.
- `claims_stranded`: a callback that fails to write and then fails to record the
  failure skips letting go; the source stays behind the live-owner guard.
- `drain_cut_off`: "never restart over it"; the quiet check does not see a handler
  with an expired lease between two turns.
- `action_readback`: "every equivalent external action executes at most once"; a
  read-back that finds an approval task unchanged concludes that a call which is
  still under way had no effect, and the retry appends the approver again.
- `reply_new_input`: "a new input during execution requeues the task when the round
  ends"; the orchestrated finalization does not compare input versions, only the
  email completion does.

### Bounds

| Constant | Value | Why it is enough |
|---|---|---|
| `Task`, `Slot`, `Pid` | 1, 2, 2 | the properties speak of one row and at most two handlers of it; a second slot is the second handler, a second pid the service after a restart. Tasks share only capacity. |
| `Lease`, `Stale`, `Backoff` | 2, 3, 1 | the renewal is half way, the lease can expire, and a lock gets stale after its lease expired, the order of the real values (minutes against the task timeout) |
| `MaxAttempts` | 2 | one retry and the last attempt |
| `MaxFaults` of the claims | 2 | a failed renewal and one more fault: a crash, a failed callback, an overrun. A stale recovery of a handler at work counts as one. |
| `Slot` of the drain | 4, of which 2 may lose their leases | two claimers in different steps, with leased and unleased work beside them |
| `MaxInputs`, `MaxGenerations`, `MaxClaims` | 3, 2, 2 | an input during execution, two reruns, a second attempt after a recovery |
| `Order`, `SharedCapacity`, `Limit`, `Future` | 3 queues, 1, 2, 2 | one queue with its own pool and two that compete for the shared slot; a pass that ends at its limit and one that ends empty. An instance with two shared slots and three futures was checked once as well. |
| `MaxDue`, `MaxFaults` of the loop | 1, 1 | the loop only asks whether a queue is empty; one fault at any point. |
| `Config`, `MaxTime`, `MaxRuns`, `MaxEvents` | 2 configurations, 3, 5, 2 | a missed, a due and a next instant; an edit after which the latest instant lies before one on record, and one the other way; a row for each and two by hand; two edits, runs, reopenings or faults in any combination. Time stops at the bound, hence no deadlock check. |
| `Plan`, `Executor`, `MaxCalls` | 2 candidates with 2 and 3 actions, 2, 1 (2 for the violation) | both orders of two shared actions and one of the read-back kind; the executor that lost its lease and the one that took over. A third plan was checked once. |

`MaxFaults`, `MaxInputs`, `MaxGenerations`, `MaxClaims`, `MaxDue`, `MaxTime`,
`MaxRuns`, `MaxEvents` and `MaxCalls` are the only bounds written as guards.
Symmetry is used in safety runs only. Deadlock is not checked for the cron and action
runs, which really end: time or the candidates are used up.

### Fairness

`DispatchClaims`: weak fairness of the dispatcher's renewal and claim, of a
handler's check, end and callback, of the reclaim thread, of the restart and of
time. The code runs each in a loop of its own thread, the supervisor restarts the
worker, and turns have timeouts. The end of a handler (`Leave`) is one fairness
condition: which way it ends is free, and a turn that failed raises. A retry that
always fails still ends at `MaxAttempts`.

`DeploymentDrain`: the steps of a claim transaction that has begun, the deployer
taking the drain lock, leaving and opening, and the end of a dying process. No
claimer has to retry, no handler has to finish, so `ClosedGateDrains` is the
turnstile's doing and nothing else's.

`DispatcherLoop`: the loop's thread goes on, callbacks end, and handlers of queues
with their own pool end. Handlers of Agent queues may run forever, so what is proved
of the others holds without them. `ServedInTurn` therefore excuses an Agent queue in
two cases only, both of which the code allows: a shared slot that, forever, comes
free in the middle of a pass, and claims of other pools that, forever, move the turn.

`CronScheduler`: the loop of a scheduler and its restart, the trigger consumer, the
end of executions, the recovery of the route, and time. Users do nothing by
assumption.

## Proofs

TLAPS proves these for all constants that satisfy the named assumptions
(`ClaimAssumption`, `DrainAssumption`, `ReplyTaskAssumption`, `LoopAssumption`,
`CronAssumption`, `ActionAssumption`: model values are distinct, limits are natural
numbers, a lease has at least two ticks, a plan names an action once, every adapter
has one turn).

- `DispatchClaims`: `TypeCorrect`. `Fencing` shows `ClaimsFenced`, which is
  inductive together with the types: every action other than `Claim` either hands a
  claim back or leaves owner and generation alone (lemmas `MoveHandsBack`,
  `StepHandsBack`, `HandsBackFenced`), and `Claim` draws a generation above every
  handler's (`ClaimFenced`). `LiveClaimSafe` and `SettledSafe` follow step by step.
  `WorkersKeepClaim`, `OneWorker` and `Exclusive` assume `ReclaimStaleLocks = FALSE`;
  their strengthening is `WorkersHoldClaim`: a working handler holds the claim with the service's pid on
  it, so its expired lease is guarded, and two holders of one row have one
  generation, hence are one handler. `Exclusive` is the refinement: a claim finds
  nobody at work (`ClaimTakes`), nobody else joins (`NobodyJoins`), and only the
  holder of the claim settles, when it has returned (`SettledByHolder`).
  `NothingStranded` assumes only `StoreOutage = FALSE`. The two violated claim runs show that neither assumption
  can be dropped.
- `DeploymentDrain`: `LocksSafe` ties lock holders to program positions and is
  inductive; `DrainExcludesClaims` and `NoCommitUnderDrain` follow from it.
  `LeasesCountWork` is `WorkIsLeased`, for the claimers outside `LeaseLoss`, and with
  the locks gives `NoLeasedWorkCutOff`: the quiet check sees every leased handler,
  and the drain keeps new ones out. `NoWorkCutOff` is the case `LeaseLoss = {}`, the
  assumption that the run `drain_cut_off` drops. `Quiesces` is the refinement of
  `Quiescence`, which says the same of all phases at once and adds that nothing is at
  work in a stopped service; for that `Service` is needed: only `Stop` takes the
  service down, and it ends every process. A slot joins the work only by `Commit`
  (`SlotsBeginOrEnd`), the deployer only moves the door (`DeployerMovesDoor`).
- `ReplyTask`: the strengthening `Fence` says that no handler is ahead of the row's
  generation, the holder of the claim is a handler, and a turn of the current
  generation is its latest run. `RequeueKeepsFence`, `HandlerKeepsFence` and
  `RecoveryKeepsFence` prove it inductive. From it follow `HolderInGeneration`,
  `SettlementIsCurrent`, `OneTurn` and `StaleInert`. `HolderIsCurrent` is why the
  dispatcher's error path may be fenced by the claim alone. `DecidesOnce` is the
  refinement of `OneDecision` from the same `Fence`: a requeue empties the generation
  (`RequeueRenews`), and a handler that writes a settlement is one of the current
  generation, the error path included (`HandlerKeepsPromise`).
- `DispatcherLoop`: the strengthening says what each place of the loop means for its
  reservation and its counts (`PassPlace`), that a claim without a future was rejected
  and hence silent (`RejectionsAreSilent`), and that each queue passed over has
  nothing to claim beside the loop's own reservation, unless something is going to
  signal (`PassedOver`). `FuturesCounted` is the arithmetic of the two counters. With
  these, `CapacityIsExact` and `NoWakeIsLost` hold for any adapters and futures.
- `CronScheduler`: any number of schedulers. The strengthening says what planned and
  read instants follow (`ScheduleFollowed`), that a pending row is linked to nothing
  that runs (`PendingUnlinked`), and, for overlap, that whoever is about to create a
  row knows the newest blocking one or will be refused (`OverlapKnown`,
  `OverlapSeen`). `NoOverlapOfItsOwn` and `ScheduleIsRun` follow.
- `CronRecordProofs`: one scheduler (`OneScheduler`), as production runs it, with its
  crashes and restarts. `OneRunPerInstant` and `RecordIsKept` are not inductive. The
  strengthening `RInv` says that a version names one configuration (`Snapshots`), that
  a row stands for one instant until it is merged and only a skip can be moved before
  its first one (`Spans`), that rows of one version stand for their instants in the
  order of their ids (`Ordered`), and that a tick works on the latest instant due at
  its beginning, with nothing on record later than that (`AtLatest`). The last part is
  what a second scheduler breaks. Most steps are `Quiet`: they move no row; inserting,
  grouping and coalescing have a lemma each. From `RInv` follow `OneRowPerInstant` and
  `RecordKept`. `LatestExists` (a nonempty set of instants has a latest one) is proved
  without induction, by the well-foundedness of strict inclusion on finite sets.
- `ExternalAction`: at most one call per action is journaled and unanswered
  (`OneCall`), whoever may record has its attempt open and nothing begun after it
  (`Journaled`), and what the journal lets be tried is quiet: no effect, no call in
  flight, nobody about to call (`JournalTells`). `Witnessed` says that who reports an
  effect has seen one. From the conjunction follow `EffectsHappenOnce`,
  `ReceiptsHold`, `PlanOrderHolds`, `OnlyCurrentAreDispatched`, and the refinement
  `ImplementsOnce`, for any plans, executors and candidates. The run `action_readback`
  shows why the actions of `Readback` are left out.

Only model-checked: the leads-to properties (`SettlesUnlessStranded`,
`EveryTaskSettles`, `ClosedGateDrains`, `AdmittedClaimEnds`, `OwnPoolServed`,
`ServedInTurn`, `CatchesUp`), since liveness under fairness is outside what the
prover handles. Every invariant and every action property of the passing runs, and
each refinement, is a theorem. `OneRowPerInstant` and `RecordKept` assume a single
scheduler, the others any number of actors.

## Abstractions to keep in mind

- A pass of the dispatcher is short against a tick; no lease expires between the
  snapshot and the write of one pass, except through a fault.
- A fresh service pid is on no row. Reuse of a pid is a listed hazard.
- Producers, Agent output and providers are nondeterministic outcomes.
- `ReleaseSource` (no WeChat account ready) is bounded as a fault; in the code it
  may repeat for as long as no account is ready.
- The ways a deployment fails between stop and restart are one exit.

## Observations

Behaviour met while modelling that no property claims otherwise:

- Dispatcher loop. The docstring of `ConsumerDispatcher` and `docs/architecture.md:280`
  speak of claiming fairly. The turn after a pass is the queue after the last claimed
  one, and a full queue is skipped. With one shared Agent slot, a queue with its own
  pool between two Agent queues can be claimed just when the slot is full, so that the
  turn passes the second Agent queue each time and the first gets the slot again.
  Without the second excuse of `ServedInTurn` TLC shows this; without the first it
  shows a similar starvation with three Agent queues, none with two. Both need the
  other queues to stay busy.
- Cron. With two schedulers on one store `OneRunPerInstant` and `RecordIsKept` are
  violated (a late tick merges backwards, `store.py:4459`); production runs one, and
  the run and the theorems of `CronRecordProofs` have one that crashes and restarts.
- Cron. Merging a skip compares the reason but not the snapshot (`store.py:4442-4470`).
  When a task is edited so that its latest instant lies before one on record, and a
  reopened execution is active again when the catch-up is decided, the trigger of the
  new version is merged backwards into a skip of the old one, which then no longer
  covers the instant it stood for. `RecordIsKept` excuses exactly this. Only the
  record of the old version suffers; nothing is executed twice.
- Cron. A manual run or a reopening that lands between the first skip reason and the
  creation of a catch-up row makes the catch-up a skipped row
  (`agent_cron/scheduler.py:210-246`; `docs/architecture.md:260` describes the
  catch-up as kept). A paused route that recovers between its resolution and
  `_runtime_route_is_paused` has the same effect (`:221`).
- Cron. The first instant of a task is lost when the scheduler starts or reloads in
  its very second (`:145-150`); instants that are due when a tick notices an edit are
  dropped (`:206`). A manual run hides an earlier active execution from the overlap
  check (`store.py:4394`), which is the exception of `OverlapOnlyByHand`. The reload
  after a wake is outside the handler for lock conflicts (`:339`): one there ends the
  thread.
- Actions. Ignoring an unexpired lease, or recording an answer late, does not by
  itself break `OneEffect`: journal and lease back each other up. Adopting a next
  candidate while the older one executes would.
- Actions. A failed attempt blocks its key for every later candidate and leaves their
  execution running until the lease expires, again and again. A process that dies
  between recording a preparation mismatch and finishing turns it into a plain
  failure on the next claim, with the same effect.
- The queue of scheduled triggers has no recovery of handler errors: a handler that
  always raises is claimed again without backoff or limit.

## Plan

Built: the modules above. Next, in this order:

1. `AgentRounds`: Consumer and Audit rounds of one generation, review budget,
   frozen candidate, restart in between; composed with `ReplyTask` and
   `ExternalAction`.
2. `RuntimeRouter`: attempts, failover, leases and reclaim of dead attempts.
3. `UpgradeTransaction`: backup, merge, schema, publication, restart, health and
   the rollback of each prefix; composed with `DeploymentDrain`.
4. Todo outbox and WeChat delivery, as further implementations of `OnceEffect`.
5. `Supervisor` (start order, readiness) and the email completion path of
   `ReplyTask`.
6. The drain of the dispatcher, when a production caller sets its stop event.

Proofs to come: an abstract record of triggers that `CronScheduler` implements, and,
with its module, the restored state after every failing prefix of an upgrade.

Not planned: prompt construction, parsing and validation of model output, provider
clients, classifier training, schema declarations and migrations, web pages. They
are sequential, or I/O whose outcomes the models already leave open.

## Running

`tlc -config claims_exclusive.cfg MCDispatchClaims` and likewise for every run in
`PROJECT.json`; `tlapm DispatchClaimsProofs.tla` and likewise for the other proof
modules. Each run ends within about two and a half minutes on two cores, each proof
module within a few minutes.
