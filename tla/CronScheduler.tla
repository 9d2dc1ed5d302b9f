--------------------------- MODULE CronScheduler ---------------------------
(***************************************************************************)
(* The triggers of one scheduled task: app/agent_cron/scheduler.py plans   *)
(* its instants and writes a row for each (schedule_occurrences), the      *)
(* trigger consumer of app/agent_cron/consumer.py turns a pending row into *)
(* an execution.  Users edit, pause and run the task by hand meanwhile.    *)
(*                                                                         *)
(* tick() is split where it reads or writes the store: what it has read is *)
(* in tick[s] and may be stale when it is used.  Several schedulers may    *)
(* work on one store (a restart that overlaps the old process).  Tasks     *)
(* meet only in the order of a tick, so one task is modelled.              *)
(***************************************************************************)
EXTENDS Integers, FiniteSets

CONSTANTS
    Scheduler,    \* scheduler threads
    Config,       \* task configurations: [cron: instants, command: BOOLEAN]
    NoPlan,       \* no planned instant
    Created,      \* created_at of the task
    MaxTime,      \* bound: the last moment
    MaxRuns,      \* bound: rows ever inserted
    MaxEvents     \* bound: edits, runs and reopenings by hand, and faults

Time == 0 .. MaxTime
Never == MaxTime + 1      \* an instant beyond the bound

ASSUME CronAssumption ==
    /\ MaxTime \in Nat /\ Created \in Time
    /\ MaxRuns \in Nat /\ MaxEvents \in Nat
    /\ Config \subseteq [cron : SUBSET Time, command : BOOLEAN]
    /\ NoPlan \notin [version : Nat, at : Nat]

VARIABLES
    now,      \* the clock
    task,     \* the task's row
    runs,     \* runs[r]: the occurrence with id r
    made,     \* ids given out
    plan,     \* plan[s]: _planned of the task
    tick,     \* tick[s]: what a tick in progress has read
    route,    \* whether the saved runtime route can be used
    events    \* manual runs, reopenings and faults so far

vars == <<now, task, runs, made, plan, tick, route, events>>
environment == <<route, events>>

Run == 1 .. MaxRuns
NoRun == 0
Version == 0 .. MaxEvents

\* What users and faults may still do within the bound.
Eventful == task.version + events < MaxEvents
Event == Eventful /\ events' = events + 1

\* An execution is linked to a row: an Agent execution is running, has ended
\* or was reopened by hand; a service command has ended, with or without work.
Terminated == {"done", "worked", "empty"}
Execution == {"none", "running", "again"} \cup Terminated

Row == [kind : {"scheduled", "manual"}, first : Nat, for : Nat, grouped : BOOLEAN,
        status : {"unused", "pending", "skipped", "dispatched", "failed", "deleted"},
        active : BOOLEAN,     \* skipped because the previous execution is active
        exec : Execution, version : Version, config : Config]

Idle == [phase |-> "idle"]
Down == [phase |-> "down"]

-----------------------------------------------------------------------------
(* Schedules.                                                              *)

\* The instants strictly after t, and the last one strictly before t.
NextAfter(cron, t) ==
    {i \in cron \cup {Never} : i > t /\ \A j \in cron : j > t => i <= j}

LatestBefore(cron, t) ==
    {i \in cron : i < t /\ \A j \in cron : j < t => j <= i}

\* Faulty: what was missed while nobody watched is not planned.
ReplanForward(cron, t) == NextAfter(cron, t)

\* The latest missed instant, unless the task is younger; else the next one.
Replan(cron, t) ==
    LET missed == {i \in LatestBefore(cron, t) : i > Created}
    IN  IF missed # {} THEN missed ELSE NextAfter(cron, t)

Planned(v, i) == [version |-> v, at |-> i]

-----------------------------------------------------------------------------
(* Rows.                                                                   *)

Live(r) == runs[r].status \notin {"unused", "deleted"}
Scheduled(r) == Live(r) /\ runs[r].kind = "scheduled"

\* The rows that can block a trigger: pending, or linked to an execution.
Blocking(r) == Live(r) /\ (runs[r].status = "pending" \/ runs[r].exec # "none")

\* latest_scheduled_task_overlap_candidate: only the newest of them counts.
IsCandidate(c) ==
    \/ c = NoRun /\ \A r \in Run : ~Blocking(r)
    \/ c \in Run /\ Blocking(c) /\ \A r \in Run : Blocking(r) => r <= c

\* _run_is_terminal
Active(r) ==
    Blocking(r) /\ (runs[r].status = "pending" \/ runs[r].exec \notin Terminated)

IsLatest(r) == Live(r) /\ \A q \in Run : Live(q) => q <= r

NewRow(kind, at, skip, active) ==
    [kind |-> kind, first |-> at, for |-> at, grouped |-> FALSE,
     status |-> IF skip THEN "skipped" ELSE "pending", active |-> active,
     exec |-> "none", version |-> task.version, config |-> task.config]

-----------------------------------------------------------------------------
(* AgentCronScheduler.                                                     *)

SetPlan(s, P) == \E p \in P : plan' = [plan EXCEPT ![s] = p]

\* What reload() leaves planned: an unchanged version keeps its instant.
Reloaded(s, t) ==
    IF ~task.enabled THEN {NoPlan}
    ELSE IF plan[s] # NoPlan /\ plan[s].version = task.version THEN {plan[s]}
    ELSE {Planned(task.version, i) : i \in Replan(task.config.cron, t)}

\* start(): nothing is remembered from an earlier process.
Start(s) ==
    /\ tick[s] = Down
    /\ tick' = [tick EXCEPT ![s] = Idle]
    /\ IF task.enabled
       THEN SetPlan(s, {Planned(task.version, i) : i \in Replan(task.config.cron, now)})
       ELSE SetPlan(s, {NoPlan})
    /\ UNCHANGED <<now, task, runs, made, environment>>

\* run_forever reloads between two ticks.
Reload(s) ==
    /\ tick[s] = Idle
    /\ SetPlan(s, Reloaded(s, now))
    /\ UNCHANGED <<now, task, runs, made, tick, environment>>

Due(s) == tick[s] = Idle /\ plan[s] # NoPlan /\ plan[s].at <= now

\* tick() meets a task that was paused or deleted, or one that was edited.
DropPlan(s) ==
    /\ Due(s)
    /\ ~task.enabled
    /\ SetPlan(s, {NoPlan})
    /\ UNCHANGED <<now, task, runs, made, tick, environment>>

PlanEdited(s) ==
    /\ Due(s)
    /\ task.enabled /\ task.version # plan[s].version
    /\ SetPlan(s, {Planned(task.version, i) : i \in NextAfter(task.config.cron, now)})
    /\ UNCHANGED <<now, task, runs, made, tick, environment>>

\* Older missed instants give way to the latest one.
Advanced(s) ==
    LET later == {i \in LatestBefore(task.config.cron, now + 1) :
                    i > Created /\ i > plan[s].at}
    IN  IF plan[s].at < now /\ later # {} THEN later ELSE {plan[s].at}

BeginTick(s) ==
    /\ Due(s)
    /\ task.enabled /\ task.version = plan[s].version
    /\ \E i \in Advanced(s) :
         /\ plan' = [plan EXCEPT ![s].at = i]
         /\ tick' = [tick EXCEPT ![s] =
                       [phase |-> "checking", at |-> i, now |-> now,
                        version |-> task.version, config |-> task.config]]
    /\ UNCHANGED <<now, task, runs, made, environment>>

\* A catch-up trigger waits for the previous execution; others go on.
KeepCatchUp(s) ==
    /\ tick[s].phase = "checking"
    /\ \E r \in Run : IsCandidate(r) /\ Active(r)
    /\ tick[s].at < tick[s].now
    /\ tick' = [tick EXCEPT ![s] = Idle]
    /\ UNCHANGED <<now, task, runs, made, plan, environment>>

GoOn(s) ==
    /\ tick[s].phase = "checking"
    /\ \/ \A r \in Run : IsCandidate(r) => ~Active(r)
       \/ tick[s].at = tick[s].now
    /\ tick' = [tick EXCEPT ![s].phase = "deciding"]
    /\ UNCHANGED <<now, task, runs, made, plan, environment>>

Decided(s, phase, c, skip, active) ==
    tick' = [tick EXCEPT ![s] =
               [phase |-> phase, at |-> tick[s].at, now |-> tick[s].now,
                version |-> tick[s].version, config |-> tick[s].config,
                overlap |-> c, skip |-> skip, active |-> active]]

\* _skip_reason: the candidate first, then what the task needs to run.
Decide(s) ==
    /\ tick[s].phase = "deciding"
    /\ \E c \in Run \cup {NoRun} :
         /\ IsCandidate(c)
         /\ \/ /\ c # NoRun /\ Active(c)
               /\ Decided(s, "creating", c, TRUE, TRUE)
            \/ /\ c # NoRun => ~Active(c)
               /\ IF route = "broken" /\ tick[s].config.command
                  THEN Decided(s, "creating", c, TRUE, FALSE)
                  ELSE IF route # "usable" /\ ~tick[s].config.command
                  THEN Decided(s, "classifying", c, TRUE, FALSE)
                  ELSE Decided(s, "creating", c, FALSE, FALSE)
    /\ UNCHANGED <<now, task, runs, made, plan, environment>>

\* _runtime_route_is_paused asks again: a paused route keeps the instant.
Classify(s) ==
    /\ tick[s].phase = "classifying"
    /\ tick' = [tick EXCEPT ![s] = IF route = "paused" THEN Idle
                                   ELSE [@ EXCEPT !.phase = "creating"]]
    /\ UNCHANGED <<now, task, runs, made, plan, environment>>

Creating(s) == tick[s].phase = "creating"

\* Faulty: only the switch is looked at, not the version that was planned.
CurrentIfEnabled(s) == task.enabled

Current(s) == task.enabled /\ task.version = tick[s].version

EndTick(s) ==
    /\ tick' = [tick EXCEPT ![s] = Idle]
    /\ UNCHANGED <<now, task, environment>>

SetNext(s) ==
    SetPlan(s, {Planned(tick[s].version, i) :
                  i \in NextAfter(tick[s].config.cron, tick[s].now)})

\* create_scheduled_task_run_if_current, by its result.
CreateStale(s) ==
    /\ Creating(s) /\ ~Current(s)
    /\ SetPlan(s, Reloaded(s, tick[s].now))
    /\ EndTick(s)
    /\ UNCHANGED <<runs, made>>

CreateRetry(s) ==
    /\ Creating(s) /\ Current(s) /\ ~IsCandidate(tick[s].overlap)
    /\ tick' = [tick EXCEPT ![s].phase = "deciding"]
    /\ UNCHANGED <<now, task, runs, made, plan, environment>>

\* Faulty: the overlap decision is not compared with the store again.
CreatableAsDecided(s) == Creating(s) /\ Current(s)

Creatable(s) == Creating(s) /\ Current(s) /\ IsCandidate(tick[s].overlap)

\* Faulty: only merged rows are looked at, the unique key is gone.
RecordedMerged(i, v) ==
    \E r \in Run : /\ Scheduled(r)
                  /\ runs[r].grouped /\ runs[r].version = v
                  /\ runs[r].first <= i /\ i <= runs[r].for

\* The instant has a row, or a row of the same snapshot covers it.
Recorded(i, v) ==
    \E r \in Run :
        /\ Scheduled(r)
        /\ \/ runs[r].for = i
           \/ runs[r].grouped /\ runs[r].version = v /\ runs[r].first <= i /\ i <= runs[r].for

CreateDuplicate(s) ==
    /\ Creatable(s) /\ Recorded(tick[s].at, tick[s].version)
    /\ SetNext(s)
    /\ EndTick(s)
    /\ UNCHANGED <<runs, made>>

Groupable(s, r) ==
    tick[s].active /\ IsLatest(r) /\ Scheduled(r) /\ runs[r].status = "skipped" /\ runs[r].active

\* Skips in a row share one occurrence, which moves to the latest instant.
CreateGrouped(s) ==
    /\ Creatable(s) /\ ~Recorded(tick[s].at, tick[s].version)
    /\ \E r \in Run :
         /\ Groupable(s, r)
         /\ runs' = [runs EXCEPT ![r].for = tick[s].at, ![r].grouped = TRUE]
    /\ SetNext(s)
    /\ EndTick(s)
    /\ UNCHANGED made

\* Faulty: the id of a new row is not used up.
CreateInsertedAgain(s) ==
    /\ Creatable(s) /\ ~Recorded(tick[s].at, tick[s].version)
    /\ \A r \in Run : ~Groupable(s, r)
    /\ made < MaxRuns
    /\ runs' = [runs EXCEPT ![made + 1] =
                  NewRow("scheduled", tick[s].at, tick[s].skip, tick[s].active)]
    /\ SetNext(s)
    /\ EndTick(s)
    /\ UNCHANGED made

CreateInserted(s) ==
    /\ Creatable(s) /\ ~Recorded(tick[s].at, tick[s].version)
    /\ \A r \in Run : ~Groupable(s, r)
    /\ made < MaxRuns
    /\ made' = made + 1
    /\ runs' = [runs EXCEPT ![made + 1] =
                  NewRow("scheduled", tick[s].at, tick[s].skip, tick[s].active)]
    /\ SetNext(s)
    /\ EndTick(s)

\* SQLite is locked: the tick ends, the instant stays planned.
Contention(s) ==
    /\ tick[s].phase \in {"checking", "deciding", "classifying", "creating"}
    /\ Event
    /\ tick' = [tick EXCEPT ![s] = Idle]
    /\ UNCHANGED <<now, task, runs, made, plan, route>>

Crash(s) ==
    /\ tick[s] # Down
    /\ Event
    /\ tick' = [tick EXCEPT ![s] = Down]
    /\ plan' = [plan EXCEPT ![s] = NoPlan]
    /\ UNCHANGED <<now, task, runs, made, route>>

-----------------------------------------------------------------------------
(* ScheduledTaskTriggerConsumer, under the dispatcher's claim of its row:   *)
(* a handler that dies or loses the claim leaves the row to the next one.  *)

Update(r, row) ==
    /\ runs' = [runs EXCEPT ![r] = row]
    /\ UNCHANGED <<now, task, made, plan, tick, environment>>

Pending(r, command) ==
    runs[r].status = "pending" /\ runs[r].config.command = command

Finish(r, status, exec) ==
    Update(r, [runs[r] EXCEPT !.status = status, !.exec = exec])

\* One transaction: the execution source, its link and the row's end.
DispatchAgent(r) == Pending(r, FALSE) /\ Finish(r, "dispatched", "running")

BuildFails(r) == Pending(r, FALSE) /\ Finish(r, "skipped", "none")

CommandFails(r) == Pending(r, TRUE) /\ runs[r].exec = "none" /\ Finish(r, "failed", "none")

\* The command ran: its result is linked first, the row ends afterwards.
LinkCommand(r) ==
    /\ Pending(r, TRUE) /\ runs[r].exec = "none"
    /\ \E result \in {"worked", "empty"} : Update(r, [runs[r] EXCEPT !.exec = result])

FinishCommand(r) ==
    Pending(r, TRUE) /\ runs[r].exec # "none" /\ Finish(r, "dispatched", runs[r].exec)

\* The row just before r, by instant and then by id.
Precedes(p, r) ==
    \/ runs[p].for < runs[r].for
    \/ runs[p].for = runs[r].for /\ p < r

IsPrior(p, r) ==
    /\ Live(p) /\ Precedes(p, r)
    /\ \A q \in Run : Live(q) /\ Precedes(q, r) => q = p \/ Precedes(q, p)

EmptyCommand(r) == Scheduled(r) /\ runs[r].status = "dispatched" /\ runs[r].exec = "empty"

\* Faulty: the later row does not take over where the earlier one began.
CoalesceShort(r) ==
    /\ EmptyCommand(r)
    /\ \E p \in Run :
         /\ IsPrior(p, r) /\ EmptyCommand(p) /\ runs[p].version = runs[r].version
         /\ runs[r].for \in NextAfter(runs[r].config.cron, runs[p].for)
         /\ runs' = [runs EXCEPT ![r].grouped = TRUE, ![p].status = "deleted"]
    /\ UNCHANGED <<now, task, made, plan, tick, environment>>

\* Two adjacent ticks that did nothing become one row, in a transaction of its
\* own after the later row ended; a handler that dies in between leaves both.
Coalesce(r) ==
    /\ EmptyCommand(r)
    /\ \E p \in Run :
         /\ IsPrior(p, r) /\ EmptyCommand(p) /\ runs[p].version = runs[r].version
         /\ runs[r].for \in NextAfter(runs[r].config.cron, runs[p].for)
         /\ runs' = [runs EXCEPT ![r].first = runs[p].first, ![r].grouped = TRUE,
                                 ![p].status = "deleted"]
    /\ UNCHANGED <<now, task, made, plan, tick, environment>>

\* The reply task of an Agent execution becomes terminal.
ExecutionEnds(r) ==
    /\ Live(r) /\ runs[r].exec \in {"running", "again"}
    /\ Update(r, [runs[r] EXCEPT !.exec = "done"])

-----------------------------------------------------------------------------
(* Users, the runtime and time.                                            *)

\* A manual trigger does not ask whether anything is active.
RunByHand ==
    /\ ~task.deleted
    /\ Event
    /\ made < MaxRuns
    /\ made' = made + 1
    /\ runs' = [runs EXCEPT ![made + 1] = NewRow("manual", now, FALSE, FALSE)]
    /\ UNCHANGED <<now, task, plan, tick, route>>

\* A settled reply task is reopened for another execution.
Reopen(r) ==
    /\ Live(r) /\ runs[r].exec = "done"
    /\ Event
    /\ runs' = [runs EXCEPT ![r].exec = "again"]
    /\ UNCHANGED <<now, task, made, plan, tick, route>>

\* Every edit is a compare-and-swap on the version and raises it.
Edited(t) ==
    /\ ~task.deleted
    /\ Eventful
    /\ task' = [t EXCEPT !.version = task.version + 1]
    /\ UNCHANGED <<now, runs, made, plan, tick, environment>>

Edit(c) == Edited([task EXCEPT !.config = c])
SetEnabled(b) == Edited([task EXCEPT !.enabled = b])
Delete == Edited([task EXCEPT !.enabled = FALSE, !.deleted = TRUE])

RouteFails ==
    /\ route = "usable"
    /\ Event
    /\ route' \in {"paused", "broken"}
    /\ UNCHANGED <<now, task, runs, made, plan, tick>>

RouteRecovers ==
    /\ route # "usable"
    /\ route' = "usable"
    /\ UNCHANGED <<now, task, runs, made, plan, tick, events>>

Pass ==
    /\ now < MaxTime
    /\ now' = now + 1
    /\ UNCHANGED <<task, runs, made, plan, tick, environment>>

-----------------------------------------------------------------------------
Init ==
    /\ now = Created
    /\ \E c \in Config :
         /\ task = [version |-> 0, config |-> c, enabled |-> TRUE, deleted |-> FALSE]
         /\ runs = [r \in Run |->
                      [kind |-> "scheduled", first |-> 0, for |-> 0, grouped |-> FALSE,
                       status |-> "unused", active |-> FALSE, exec |-> "none",
                       version |-> 0, config |-> c]]
    /\ made = 0
    /\ plan = [s \in Scheduler |-> NoPlan]
    /\ tick = [s \in Scheduler |-> Down]
    /\ route = "usable"
    /\ events = 0

Create(s) ==
    CreateStale(s) \/ CreateRetry(s) \/ CreateDuplicate(s)
        \/ CreateGrouped(s) \/ CreateInserted(s)

TickStep(s) ==
    \/ DropPlan(s) \/ PlanEdited(s) \/ BeginTick(s)
    \/ KeepCatchUp(s) \/ GoOn(s) \/ Decide(s) \/ Classify(s) \/ Create(s)

SchedulerStep(s) ==
    Start(s) \/ Reload(s) \/ TickStep(s) \/ Contention(s) \/ Crash(s)

ConsumerStep(r) ==
    DispatchAgent(r) \/ BuildFails(r) \/ CommandFails(r) \/ LinkCommand(r) \/ FinishCommand(r)

RunStep(r) ==
    ConsumerStep(r) \/ Coalesce(r) \/ ExecutionEnds(r) \/ Reopen(r)

Next ==
    \/ \E s \in Scheduler : SchedulerStep(s)
    \/ \E r \in Run : RunStep(r)
    \/ RunByHand
    \/ \E c \in Config : Edit(c)
    \/ \E b \in BOOLEAN : SetEnabled(b)
    \/ Delete
    \/ RouteFails \/ RouteRecovers
    \/ Pass

Spec == Init /\ [][Next]_vars

\* The scheduler's loop runs on, the supervisor restarts it, handlers and
\* executions end, an outage of the route ends, time passes.
Fairness ==
    /\ \A s \in Scheduler : WF_vars(Start(s)) /\ WF_vars(Reload(s)) /\ WF_vars(TickStep(s))
    /\ \A r \in Run : WF_vars(ConsumerStep(r)) /\ WF_vars(ExecutionEnds(r))
    /\ WF_vars(RouteRecovers)
    /\ WF_vars(Pass)

FairSpec == Spec /\ Fairness

-----------------------------------------------------------------------------
(* Properties.                                                             *)

Reading == [phase : {"checking", "deciding"}, at : Nat, now : Nat,
            version : Version, config : Config]

Decision == [phase : {"deciding", "classifying", "creating"}, at : Nat, now : Nat,
             version : Version, config : Config,
             overlap : Run \cup {NoRun}, skip : BOOLEAN, active : BOOLEAN]

TypeOK ==
    /\ now \in Time
    /\ task \in [version : Version, config : Config, enabled : BOOLEAN, deleted : BOOLEAN]
    /\ runs \in [Run -> Row]
    /\ made \in 0 .. MaxRuns
    /\ \A r \in Run : runs[r].status = "unused" <=> r > made
    /\ plan \in [Scheduler -> [version : Version, at : Nat] \cup {NoPlan}]
    /\ tick \in [Scheduler -> {Idle, Down} \cup Reading \cup Decision]
    /\ route \in {"usable", "paused", "broken"}
    /\ events \in Nat

\* The trigger's promise: one instant of one version of the task has one
\* occurrence, whatever restarts, retries, reloads and merged rows do.
OneRunPerInstant ==
    \A p, r \in Run :
        /\ Scheduled(p) /\ Scheduled(r)
        /\ runs[p].version = runs[r].version
        /\ \E i \in runs[r].config.cron : runs[p].first <= i /\ i <= runs[p].for
                                         /\ runs[r].first <= i /\ i <= runs[r].for
        => p = r

\* Two executions of the task overlap only by a user's hand: the scheduler
\* never adds one to an earlier one that is still active, unless a manual run
\* hid that one or it was reopened.
OverlapOnlyByHand ==
    \A p, r \in Run :
        Active(p) /\ Active(r) /\ p < r =>
            \/ runs[p].exec = "again"
            \/ \E m \in p + 1 .. r : runs[m].kind = "manual"

\* What is executed was planned by the schedule it is executed under: an edit
\* between plan, read and write never gives the new task an old instant.
RunsItsSchedule ==
    \A r \in Run :
        Scheduled(r) /\ runs[r].status # "skipped" =>
            runs[r].for \in runs[r].config.cron /\ Created < runs[r].for /\ runs[r].for <= now

Covers(r, i, v) ==
    Scheduled(r) /\ runs[r].version = v /\ runs[r].first <= i /\ i <= runs[r].for

\* Merging skips or empty ticks never loses the record of an instant of the
\* current version, nor one of an older version whose rows stay where they are.
\* A trigger of an edited task may be merged into a skip of its old schedule and
\* may lie before it: that skip then no longer covers what it stood for.
RecordIsKept ==
    [][\A i \in Time, v \in Version :
         /\ \E r \in Run : Covers(r, i, v)
         /\ v = task.version \/ \A r \in Run : Scheduled(r) => runs'[r].for = runs[r].for
         => (\E r \in Run : Covers(r, i, v))']_vars

\* An instant of the unedited task has come and neither it nor a later one is
\* on record.  The first instant of all is left out: a scheduler that starts in
\* its very second plans the one after it.
Behind ==
    /\ task.version = 0
    /\ \E j, i \in task.config.cron :
         /\ Created < j /\ j < i /\ i <= now
         /\ \A r \in Run : Scheduled(r) => runs[r].for < i

\* No instant is forgotten: through outages, lock conflicts, crashes and
\* running executions, it or a later one is recorded in the end.
CatchesUp == []<>~Behind
=============================================================================
