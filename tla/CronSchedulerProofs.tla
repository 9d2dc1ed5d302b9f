------------------------ MODULE CronSchedulerProofs ------------------------
(***************************************************************************)
(* What holds of the triggers of a task for every schedule, every number   *)
(* of schedulers on one store, and any bounds.                             *)
(***************************************************************************)
EXTENDS CronScheduler, TLAPS

Plans == [version : Version, at : Nat]
Ticks == {Idle, Down} \cup Reading \cup Decision

-----------------------------------------------------------------------------
(* Instants and rows.                                                      *)

\* Whatever the schedule is asked for, it answers with instants.
LEMMA InstantsAreNumbers ==
    ASSUME NEW c \in Config, NEW t \in Nat
    PROVE  /\ NextAfter(c.cron, t) \subseteq {i \in c.cron \cup {Never} : i \in Nat /\ i > t}
           /\ LatestBefore(c.cron, t) \subseteq {i \in c.cron : i \in Nat /\ i < t}
           /\ Replan(c.cron, t) \subseteq Nat
<1>1. c.cron \subseteq Time /\ Never \in Nat /\ Time \subseteq Nat
  BY CronAssumption DEF Never, Time
<1>2. NextAfter(c.cron, t) \subseteq {i \in c.cron \cup {Never} : i \in Nat /\ i > t}
  BY <1>1 DEF NextAfter
<1>3. LatestBefore(c.cron, t) \subseteq {i \in c.cron : i \in Nat /\ i < t}
  BY <1>1 DEF LatestBefore
<1> QED
  BY <1>2, <1>3 DEF Replan

\* What start() and reload() plan lies after the creation of the task.
LEMMA ReplanIsScheduled ==
    ASSUME NEW c \in Config, NEW t \in Nat, t >= Created,
           NEW i \in Replan(c.cron, t)
    PROVE  i \in c.cron \cup {Never} /\ i > Created
<1>1. CASE \E x \in LatestBefore(c.cron, t) : x > Created
  BY <1>1, InstantsAreNumbers DEF Replan
<1>2. CASE ~\E x \in LatestBefore(c.cron, t) : x > Created
  BY <1>2, InstantsAreNumbers, CronAssumption DEF Replan, Time
<1> QED
  BY <1>1, <1>2

\* What a step may do to a row that is there: no action turns a row active
\* again except a reopening, and only a skipped row moves to another instant.
Kept(r) ==
    /\ runs'[r].kind = runs[r].kind
    /\ runs'[r].version = runs[r].version
    /\ runs'[r].config = runs[r].config
    /\ runs'[r].status = "unused" <=> runs[r].status = "unused"
    /\ Blocking(r)' => Blocking(r)
    /\ Active(r)' => Active(r) \/ runs'[r].exec = "again"
    /\ Active(r)' /\ runs[r].exec = "again" => runs'[r].exec = "again"
    /\ runs'[r].status = "pending" =>
         runs[r].status = "pending" /\ (runs'[r].exec = runs[r].exec \/ runs'[r].exec \in {"worked", "empty"})
    /\ Scheduled(r)' /\ runs'[r].status # "skipped" =>
         Scheduled(r) /\ runs[r].status # "skipped" /\ runs'[r].for = runs[r].for

\* A pending row is linked to nothing but the result of its command.
PendingUnlinked ==
    \A r \in Run : runs[r].status = "pending" => runs[r].exec \in {"none", "worked", "empty"}

Inserted(kind, at, skip, active) ==
    /\ made < MaxRuns
    /\ made' = made + 1
    /\ runs' = [runs EXCEPT ![made + 1] = NewRow(kind, at, skip, active)]

Unchanged == runs' = runs /\ made' = made

\* An edited row keeps its type.
LEMMA RowTyped ==
    ASSUME TypeOK, NEW r \in Run, NEW row \in Row,
           row.status = "unused" <=> runs[r].status = "unused",
           runs' = [runs EXCEPT ![r] = row], made' = made
    PROVE  /\ runs' \in [Run -> Row]
           /\ \A q \in Run : runs'[q].status = "unused" <=> q > made'
<1>1. runs \in [Run -> Row] /\ \A q \in Run : runs[q].status = "unused" <=> q > made
  BY DEF TypeOK
<1>2. runs' \in [Run -> Row]
  BY <1>1
<1>3. ASSUME NEW q \in Run PROVE runs'[q].status = "unused" <=> q > made'
  <2>1. CASE q = r
    BY <1>1, <2>1
  <2>2. CASE q # r
    BY <1>1, <2>2
  <2> QED
    BY <2>1, <2>2
<1> QED
  BY <1>2, <1>3

\* Rows other than the one a step writes.
LEMMA OtherRowsKept ==
    ASSUME TypeOK, NEW r \in Run, NEW row,
           runs' = [runs EXCEPT ![r] = row], NEW q \in Run, q # r
    PROVE  Kept(q)
<1>1. runs'[q] = runs[q]
  BY DEF TypeOK
<1> QED
  BY <1>1 DEF Kept, Blocking, Active, Live, Scheduled

\* A step that writes the row of one trigger, by the fields it writes: the end
\* of a handler, or what an execution did.
LEMMA RowKeeps ==
    ASSUME TypeOK, PendingUnlinked, NEW r \in Run, NEW row \in Row,
           runs' = [runs EXCEPT ![r] = row], made' = made,
           row.kind = runs[r].kind, row.version = runs[r].version,
           row.config = runs[r].config, row.for = runs[r].for,
           row.status \notin {"unused", "deleted"}, Live(r),
           \/ /\ runs[r].status = "pending" /\ row.exec # "done" /\ row.exec # "again"
              /\ row.status = "pending" => row.exec \in {"worked", "empty"}
           \/ /\ runs[r].status # "pending" /\ row.status = runs[r].status
              /\ runs[r].exec # "none" /\ row.exec \in {"done", "again"}
    PROVE  /\ runs' \in [Run -> Row]
           /\ \A q \in Run : runs'[q].status = "unused" <=> q > made'
           /\ \A q \in Run : Kept(q)
<1>1. runs'[r] = row
  BY DEF TypeOK
<1>2. runs[r].status \notin {"unused", "deleted"}
  BY DEF Live
<1>3. Blocking(r)' => Blocking(r)
  BY <1>1, <1>2 DEF Blocking, Live
<1>4. Active(r)' => Active(r) \/ runs'[r].exec = "again"
  BY <1>1, <1>2 DEF Active, Blocking, Live, Terminated
<1>5. Active(r)' /\ runs[r].exec = "again" => runs'[r].exec = "again"
  BY <1>1, <1>2 DEF PendingUnlinked, Active, Blocking, Live, Terminated
<1>6. Scheduled(r)' /\ runs'[r].status # "skipped" =>
         Scheduled(r) /\ runs[r].status # "skipped" /\ runs'[r].for = runs[r].for
  BY <1>1, <1>2 DEF Scheduled, Live
<1>7. Kept(r)
  BY <1>1, <1>2, <1>3, <1>4, <1>5, <1>6 DEF Kept
<1>8. \A q \in Run : Kept(q)
  BY <1>7, OtherRowsKept
<1> QED
  BY <1>2, <1>8, RowTyped

\* The end of a handler.
LEMMA FinishKeeps ==
    ASSUME TypeOK, PendingUnlinked, NEW r \in Run, NEW status \in {"dispatched", "skipped", "failed"},
           NEW exec \in {"none", "running", "worked", "empty"},
           runs[r].status = "pending", Finish(r, status, exec)
    PROVE  /\ runs' \in [Run -> Row]
           /\ \A q \in Run : runs'[q].status = "unused" <=> q > made'
           /\ \A q \in Run : Kept(q)
<1>1. PICK row : row = [runs[r] EXCEPT !.status = status, !.exec = exec]
  OBVIOUS
<1>2. runs[r] \in Row
  BY DEF TypeOK
<1>3. /\ row \in Row /\ row.status = status /\ row.exec = exec /\ row.kind = runs[r].kind
      /\ row.version = runs[r].version /\ row.config = runs[r].config /\ row.for = runs[r].for
  BY <1>1, <1>2 DEF Row, Execution, Terminated
<1>4. runs' = [runs EXCEPT ![r] = row] /\ made' = made
  BY <1>1 DEF Finish, Update
<1>5. Live(r)
  BY DEF Live
<1> QED
  BY <1>3, <1>4, <1>5, RowKeeps

\* What an execution did is noted on its row.
LEMMA ExecKeeps ==
    ASSUME TypeOK, PendingUnlinked, NEW r \in Run, NEW exec \in Execution,
           NEW row, row = [runs[r] EXCEPT !.exec = exec],
           runs' = [runs EXCEPT ![r] = row], made' = made, Live(r),
           \/ runs[r].status = "pending" /\ exec \in {"worked", "empty"}
           \/ runs[r].status # "pending" /\ runs[r].exec # "none" /\ exec \in {"done", "again"}
    PROVE  /\ runs' \in [Run -> Row]
           /\ \A q \in Run : runs'[q].status = "unused" <=> q > made'
           /\ \A q \in Run : Kept(q)
<1>1. runs[r] \in Row /\ runs[r].status \notin {"unused", "deleted"}
  BY DEF TypeOK, Live
<1>2. /\ row \in Row /\ row.status = runs[r].status /\ row.exec = exec /\ row.kind = runs[r].kind
      /\ row.version = runs[r].version /\ row.config = runs[r].config /\ row.for = runs[r].for
  BY <1>1 DEF Row
<1> QED
  BY <1>1, <1>2, RowKeeps

\* Merging two empty ticks.
LEMMA CoalesceKeeps ==
    ASSUME TypeOK, NEW r \in Run, Coalesce(r)
    PROVE  /\ runs' \in [Run -> Row]
           /\ \A q \in Run : runs'[q].status = "unused" <=> q > made'
           /\ \A q \in Run : Kept(q)
<1>1. PICK p \in Run :
         /\ IsPrior(p, r) /\ EmptyCommand(p) /\ EmptyCommand(r)
         /\ runs' = [runs EXCEPT ![r].first = runs[p].first, ![r].grouped = TRUE,
                                 ![p].status = "deleted"]
  BY DEF Coalesce
<1>2. p # r
  BY <1>1, CronAssumption DEF IsPrior, Precedes, Run, TypeOK, Row
<1>3. runs \in [Run -> Row] /\ made' = made
  BY DEF TypeOK, Coalesce
<1>4. /\ runs'[r] = [runs[r] EXCEPT !.first = runs[p].first, !.grouped = TRUE]
      /\ runs'[p] = [runs[p] EXCEPT !.status = "deleted"]
      /\ \A q \in Run : q # r /\ q # p => runs'[q] = runs[q]
  BY <1>1, <1>2, <1>3
<1>5. /\ runs'[r] \in Row /\ runs'[p] \in Row
      /\ runs'[r].status = "dispatched" /\ runs'[r].exec = "empty" /\ runs'[r].kind = runs[r].kind
      /\ runs'[r].version = runs[r].version /\ runs'[r].config = runs[r].config
      /\ runs'[r].for = runs[r].for
      /\ runs'[p].status = "deleted" /\ runs'[p].kind = runs[p].kind
      /\ runs'[p].version = runs[p].version /\ runs'[p].config = runs[p].config
  BY <1>1, <1>3, <1>4 DEF Row, EmptyCommand
<1>6. Kept(r)
  BY <1>1, <1>5 DEF Kept, Blocking, Active, Live, Scheduled, Terminated, EmptyCommand
<1>7. Kept(p)
  BY <1>1, <1>5 DEF Kept, Blocking, Active, Live, Scheduled, EmptyCommand
<1>8. \A q \in Run : q # r /\ q # p => Kept(q)
  BY <1>4 DEF Kept, Blocking, Active, Live, Scheduled
<1>9. runs' \in [Run -> Row]
  <2>1. runs' = [q \in Run |-> runs'[q]]
    BY <1>1, <1>3
  <2> QED
    BY <1>3, <1>4, <1>5, <2>1
<1>10. \A q \in Run : runs'[q].status = "unused" <=> q > made'
  BY <1>3, <1>6, <1>7, <1>8 DEF Kept, TypeOK
<1> QED
  BY <1>6, <1>7, <1>8, <1>9, <1>10

\* Every step of a handler, an execution or a reopening.
LEMMA RunStepKeeps ==
    ASSUME TypeOK, PendingUnlinked, NEW r \in Run, RunStep(r)
    PROVE  /\ runs' \in [Run -> Row]
           /\ \A q \in Run : runs'[q].status = "unused" <=> q > made'
           /\ \A q \in Run : Kept(q)
           /\ now' = now /\ task' = task /\ made' = made /\ plan' = plan /\ tick' = tick
           /\ route' = route /\ events' \in Nat
<1>0. /\ now' = now /\ task' = task /\ made' = made /\ plan' = plan /\ tick' = tick
      /\ route' = route /\ events' \in Nat
  <2>1. events \in Nat
    BY DEF TypeOK
  <2>2. CASE ConsumerStep(r)
    BY <2>1, <2>2 DEF ConsumerStep, DispatchAgent, BuildFails, CommandFails, LinkCommand,
                      FinishCommand, Finish, Update, environment
  <2>3. CASE Coalesce(r) \/ ExecutionEnds(r)
    BY <2>1, <2>3 DEF Coalesce, ExecutionEnds, Update, environment
  <2>4. CASE Reopen(r)
    BY <2>1, <2>4 DEF Reopen, Event
  <2> QED
    BY <2>2, <2>3, <2>4 DEF RunStep
<1>1. CASE DispatchAgent(r)
  <2>1. runs[r].status = "pending" /\ Finish(r, "dispatched", "running")
    BY <1>1 DEF DispatchAgent, Pending
  <2> QED
    BY <1>0, <2>1, FinishKeeps
<1>2. CASE BuildFails(r)
  <2>1. runs[r].status = "pending" /\ Finish(r, "skipped", "none")
    BY <1>2 DEF BuildFails, Pending
  <2> QED
    BY <1>0, <2>1, FinishKeeps
<1>3. CASE CommandFails(r)
  <2>1. runs[r].status = "pending" /\ Finish(r, "failed", "none")
    BY <1>3 DEF CommandFails, Pending
  <2> QED
    BY <1>0, <2>1, FinishKeeps
<1>4. CASE LinkCommand(r)
  <2>1. PICK e \in {"worked", "empty"} : Update(r, [runs[r] EXCEPT !.exec = e])
    BY <1>4 DEF LinkCommand
  <2>2. runs' = [runs EXCEPT ![r] = [runs[r] EXCEPT !.exec = e]]
    BY <2>1 DEF Update
  <2>3. runs[r].status = "pending" /\ Live(r) /\ e \in Execution
    BY <1>4 DEF LinkCommand, Pending, Live, Execution, Terminated
  <2> QED
    BY <1>0, <2>2, <2>3, ExecKeeps
<1>5. CASE FinishCommand(r)
  <2>1. runs[r].status = "pending" /\ runs[r].exec # "none" /\ Finish(r, "dispatched", runs[r].exec)
    BY <1>5 DEF FinishCommand, Pending
  <2>2. runs[r].exec \in {"none", "running", "worked", "empty"}
    BY <2>1 DEF PendingUnlinked
  <2> QED
    BY <1>0, <2>1, <2>2, FinishKeeps
<1>6. CASE Coalesce(r)
  BY <1>0, <1>6, CoalesceKeeps
<1>7. CASE ExecutionEnds(r)
  <2>1. /\ Live(r) /\ runs[r].exec \in {"running", "again"}
        /\ runs' = [runs EXCEPT ![r] = [runs[r] EXCEPT !.exec = "done"]]
    BY <1>7 DEF ExecutionEnds, Update
  <2>2. runs[r].status # "pending" /\ "done" \in Execution
    BY <2>1 DEF PendingUnlinked, Execution, Terminated
  <2> QED
    BY <1>0, <2>1, <2>2, ExecKeeps
<1>8. CASE Reopen(r)
  <2>1. /\ Live(r) /\ runs[r].exec = "done"
        /\ runs' = [runs EXCEPT ![r] = [runs[r] EXCEPT !.exec = "again"]]
    BY <1>8 DEF Reopen, TypeOK
  <2>2. runs[r].status # "pending" /\ "again" \in Execution
    BY <2>1 DEF PendingUnlinked, Execution
  <2> QED
    BY <1>0, <2>1, <2>2, ExecKeeps
<1> QED
  BY <1>1, <1>2, <1>3, <1>4, <1>5, <1>6, <1>7, <1>8 DEF RunStep, ConsumerStep

-----------------------------------------------------------------------------
(* The strengthening.                                                      *)

\* What is planned or being decided for the current version belongs to the
\* current schedule; nothing is of a later version.
PlanFollows(p) ==
    p # NoPlan =>
        /\ p.version <= task.version
        /\ p.version = task.version => p.at \in task.config.cron \cup {Never} /\ p.at > Created

TickFollows(k) ==
    k.phase \notin {"idle", "down"} =>
        /\ Created <= k.now /\ k.version <= task.version
        /\ k.version = task.version =>
             /\ k.config = task.config
             /\ k.at \in task.config.cron /\ Created < k.at /\ k.at <= now

ScheduleFollowed ==
    /\ Created <= now
    /\ \A s \in Scheduler : PlanFollows(plan[s]) /\ TickFollows(tick[s])
    /\ RunsItsSchedule

ByHand(p, r) ==
    runs[p].exec = "again" \/ \E m \in p + 1 .. r : runs[m].kind = "manual"

\* An earlier active row is known to every later one that can block a trigger,
\* because only the newest of those is looked at.
OverlapKnown ==
    \A p, r \in Run : p < r /\ Active(p) /\ Blocking(r) => ByHand(p, r)

\* What a tick found inactive can only have been reopened since.
OverlapSeen(k) ==
    k.phase \in {"classifying", "creating"} /\ ~k.skip /\ k.overlap # NoRun =>
        /\ runs[k.overlap].status \notin {"pending", "unused"}
        /\ Active(k.overlap) => runs[k.overlap].exec = "again"

Overlaps == OverlapKnown /\ \A s \in Scheduler : OverlapSeen(tick[s])

IInv == TypeOK /\ PendingUnlinked /\ ScheduleFollowed /\ Overlaps

\* What a scheduler may plan next, and what it may have read next.
GoodPlan(p) == p \in Plans \cup {NoPlan} /\ PlanFollows(p)
GoodTick(k) == k \in Ticks /\ TickFollows(k) /\ OverlapSeen(k)

\* The tick's record, by its phase.
LEMMA TickCases ==
    ASSUME TypeOK, NEW s \in Scheduler
    PROVE  /\ tick[s] \in Ticks
           /\ tick[s].phase = "checking" => tick[s] \in Reading
           /\ tick[s].phase = "deciding" => tick[s] \in Reading \cup Decision
           /\ tick[s].phase \in {"classifying", "creating"} => tick[s] \in Decision
           /\ tick[s] \in Reading \cup Decision =>
                /\ tick[s].at \in Nat /\ tick[s].now \in Nat /\ tick[s].version \in Version
                /\ tick[s].config \in Config /\ tick[s].phase \notin {"idle", "down"}
<1>1. tick[s] \in {Idle, Down} \cup Reading \cup Decision
  BY DEF TypeOK
<1>2. /\ Idle.phase = "idle" /\ Down.phase = "down"
      /\ \A k \in Reading : k.phase \in {"checking", "deciding"}
      /\ \A k \in Decision : k.phase \in {"deciding", "classifying", "creating"}
  BY DEF Idle, Down, Reading, Decision
<1>3. \A k \in Reading \cup Decision :
         k.at \in Nat /\ k.now \in Nat /\ k.version \in Version /\ k.config \in Config
  BY DEF Reading, Decision
<1> QED
  BY <1>1, <1>2, <1>3 DEF Ticks

\* A fresh plan for the task as it is.
LEMMA FreshPlanGood ==
    ASSUME TypeOK, NEW t \in Nat, t >= Created,
           NEW i \in Replan(task.config.cron, t) \cup NextAfter(task.config.cron, t)
    PROVE  GoodPlan(Planned(task.version, i))
<1>1. task.config \in Config /\ task.version \in Version /\ task.version \in Nat
  BY DEF TypeOK, Version
<1>2. i \in Nat /\ i \in task.config.cron \cup {Never} /\ i > Created
  <2>1. CASE i \in Replan(task.config.cron, t)
    BY <1>1, <2>1, InstantsAreNumbers, ReplanIsScheduled
  <2>2. CASE i \in NextAfter(task.config.cron, t)
    <3>1. i \in {x \in task.config.cron \cup {Never} : x \in Nat /\ x > t}
      BY <1>1, <2>2, InstantsAreNumbers
    <3>2. i > t /\ i \in Nat /\ i \in task.config.cron \cup {Never} /\ Created \in Nat
      BY <3>1, CronAssumption DEF Time
    <3> QED
      BY <3>2
  <2> QED
    BY <2>1, <2>2
<1>3. Planned(task.version, i) \in Plans
  BY <1>1, <1>2 DEF Planned, Plans
<1>4. Planned(task.version, i).version = task.version /\ Planned(task.version, i).at = i
  BY DEF Planned
<1>5. task.version <= task.version
  BY <1>1
<1>6. PlanFollows(Planned(task.version, i))
  BY <1>2, <1>4, <1>5 DEF PlanFollows
<1> QED
  BY <1>3, <1>6 DEF GoodPlan

\* reload() keeps an unchanged plan and replans an edited task.
LEMMA ReloadedGood ==
    ASSUME TypeOK, ScheduleFollowed, NEW s \in Scheduler, NEW t \in Nat, t >= Created,
           NEW p \in Reloaded(s, t)
    PROVE  GoodPlan(p)
<1>1. plan[s] \in Plans \cup {NoPlan} /\ PlanFollows(plan[s])
  BY DEF TypeOK, Plans, ScheduleFollowed
<1>2. GoodPlan(NoPlan)
  BY DEF GoodPlan, PlanFollows
<1>3. p = NoPlan \/ p = plan[s] \/ \E i \in Replan(task.config.cron, t) : p = Planned(task.version, i)
  BY DEF Reloaded
<1> QED
  BY <1>1, <1>2, <1>3, FreshPlanGood DEF GoodPlan

-----------------------------------------------------------------------------
(* The scheduler.                                                          *)

\* Every step of a scheduler replaces its plan and its tick by good ones, and
\* leaves the rows alone, extends a skipped one or adds one.
Grouping(s) ==
    /\ Creatable(s)
    /\ made' = made
    /\ \E r \in Run :
         /\ Groupable(s, r)
         /\ runs' = [runs EXCEPT ![r].for = tick[s].at, ![r].grouped = TRUE]

Adding(s) ==
    /\ Creatable(s)
    /\ Inserted("scheduled", tick[s].at, tick[s].skip, tick[s].active)

SchedulerMoves(s) ==
    /\ now' = now /\ task' = task /\ route' = route /\ events' \in Nat
    /\ \E p \in Plans \cup {NoPlan} : GoodPlan(p) /\ plan' = [plan EXCEPT ![s] = p]
    /\ \E k \in Ticks : GoodTick(k) /\ tick' = [tick EXCEPT ![s] = k]
    /\ Unchanged \/ Grouping(s) \/ Adding(s)

LEMMA PlanStays ==
    ASSUME TypeOK, ScheduleFollowed, NEW s \in Scheduler, plan' = plan
    PROVE  \E p \in Plans \cup {NoPlan} : GoodPlan(p) /\ plan' = [plan EXCEPT ![s] = p]
<1>1. plan[s] \in Plans \cup {NoPlan} /\ PlanFollows(plan[s]) /\ plan = [plan EXCEPT ![s] = plan[s]]
  BY DEF TypeOK, Plans, ScheduleFollowed
<1> QED
  BY <1>1 DEF GoodPlan

LEMMA TickStays ==
    ASSUME IInv, NEW s \in Scheduler, tick' = tick
    PROVE  \E k \in Ticks : GoodTick(k) /\ tick' = [tick EXCEPT ![s] = k]
<1>1. tick[s] \in Ticks /\ TickFollows(tick[s]) /\ OverlapSeen(tick[s])
  BY DEF IInv, TypeOK, Ticks, ScheduleFollowed, Overlaps
<1>2. tick = [tick EXCEPT ![s] = tick[s]]
  BY DEF IInv, TypeOK
<1> QED
  BY <1>1, <1>2 DEF GoodTick

LEMMA QuietTicksGood == GoodTick(Idle) /\ GoodTick(Down)
BY DEF GoodTick, Ticks, Idle, Down, TickFollows, OverlapSeen

\* start, reload, and the head of tick().
LEMMA PlanningMoves ==
    ASSUME IInv, NEW s \in Scheduler,
           Start(s) \/ Reload(s) \/ DropPlan(s) \/ PlanEdited(s)
    PROVE  SchedulerMoves(s)
<1>1. TypeOK /\ ScheduleFollowed /\ now \in Nat /\ now >= Created /\ events \in Nat
  BY CronAssumption DEF IInv, ScheduleFollowed, TypeOK, Time
<1>2. GoodPlan(NoPlan)
  BY DEF GoodPlan, PlanFollows
<1>3. \A P : (\A p \in P : GoodPlan(p)) /\ SetPlan(s, P) =>
         \E p \in Plans \cup {NoPlan} : GoodPlan(p) /\ plan' = [plan EXCEPT ![s] = p]
  BY DEF SetPlan, GoodPlan
<1>4. CASE Start(s)
  <2>1. \E p \in Plans \cup {NoPlan} : GoodPlan(p) /\ plan' = [plan EXCEPT ![s] = p]
    <3>1. CASE task.enabled
      <4>1. SetPlan(s, {Planned(task.version, i) : i \in Replan(task.config.cron, now)})
        BY <1>4, <3>1 DEF Start
      <4>2. \A p \in {Planned(task.version, i) : i \in Replan(task.config.cron, now)} : GoodPlan(p)
        BY <1>1, FreshPlanGood
      <4> QED
        BY <1>3, <4>1, <4>2
    <3>2. CASE ~task.enabled
      BY <1>2, <1>3, <1>4, <3>2 DEF Start
    <3> QED
      BY <3>1, <3>2
  <2>2. tick' = [tick EXCEPT ![s] = Idle]
    BY <1>4 DEF Start
  <2> QED
    BY <1>1, <1>4, <2>1, <2>2, QuietTicksGood DEF SchedulerMoves, Start, Unchanged, environment, GoodTick
<1>5. CASE Reload(s)
  <2>1. SetPlan(s, Reloaded(s, now)) /\ tick' = tick
    BY <1>5 DEF Reload
  <2>2. \A p \in Reloaded(s, now) : GoodPlan(p)
    BY <1>1, ReloadedGood
  <2> QED
    BY <1>1, <1>3, <1>5, <2>1, <2>2, TickStays DEF SchedulerMoves, Reload, Unchanged, environment
<1>6. CASE DropPlan(s)
  <2>1. SetPlan(s, {NoPlan}) /\ tick' = tick
    BY <1>6 DEF DropPlan
  <2> QED
    BY <1>1, <1>2, <1>3, <1>6, <2>1, TickStays DEF SchedulerMoves, DropPlan, Unchanged, environment
<1>7. CASE PlanEdited(s)
  <2>1. SetPlan(s, {Planned(task.version, i) : i \in NextAfter(task.config.cron, now)}) /\ tick' = tick
    BY <1>7 DEF PlanEdited
  <2>2. \A p \in {Planned(task.version, i) : i \in NextAfter(task.config.cron, now)} : GoodPlan(p)
    BY <1>1, FreshPlanGood
  <2> QED
    BY <1>1, <1>3, <1>7, <2>1, <2>2, TickStays DEF SchedulerMoves, PlanEdited, Unchanged, environment
<1> QED
  BY <1>4, <1>5, <1>6, <1>7

\* A tick that goes on with what it has read.
LEMMA TickGoesOn ==
    ASSUME IInv, NEW s \in Scheduler, tick[s] \in Reading \cup Decision,
           NEW k \in Reading \cup Decision,
           k.at = tick[s].at, k.now = tick[s].now,
           k.version = tick[s].version, k.config = tick[s].config, OverlapSeen(k)
    PROVE  GoodTick(k)
<1>1. tick[s].phase \notin {"idle", "down"}
  BY TickCases DEF IInv
<1>2. TickFollows(tick[s])
  BY DEF IInv, ScheduleFollowed
<1>3. TickFollows(k)
  BY <1>1, <1>2 DEF TickFollows
<1> QED
  BY <1>3 DEF GoodTick, Ticks

\* A planned instant that is due is one of the schedule's.
LEMMA BeginMoves ==
    ASSUME IInv, NEW s \in Scheduler, BeginTick(s)
    PROVE  SchedulerMoves(s)
<1>0. /\ TypeOK /\ ScheduleFollowed /\ now \in Nat /\ now >= Created /\ events \in Nat
      /\ now < Never /\ Created \in Nat /\ Never \in Nat
  BY CronAssumption DEF IInv, ScheduleFollowed, TypeOK, Time, Never
<1>1. PICK i \in Advanced(s) :
         /\ plan' = [plan EXCEPT ![s].at = i]
         /\ tick' = [tick EXCEPT ![s] =
                       [phase |-> "checking", at |-> i, now |-> now,
                        version |-> task.version, config |-> task.config]]
  BY DEF BeginTick
<1>2. /\ plan[s] \in Plans /\ plan[s].version = task.version /\ plan[s].at <= now
      /\ PlanFollows(plan[s]) /\ plan[s] # NoPlan
  BY <1>0 DEF BeginTick, Due, TypeOK, Plans, ScheduleFollowed
<1>3. plan[s].at \in task.config.cron /\ plan[s].at > Created /\ plan[s].at \in Nat
  BY <1>0, <1>2 DEF PlanFollows, Plans
<1>4. task.config \in Config /\ task.version \in Version /\ task.version \in Nat /\ now + 1 \in Nat
  BY <1>0 DEF TypeOK, Version
<1>5. i \in task.config.cron /\ i > Created /\ i <= now /\ i \in Nat
  <2>1. CASE i = plan[s].at
    BY <1>2, <1>3, <2>1
  <2>2. CASE i \in LatestBefore(task.config.cron, now + 1) /\ i > Created
    <3>1. i \in {x \in task.config.cron : x \in Nat /\ x < now + 1}
      BY <1>4, <2>2, InstantsAreNumbers
    <3> QED
      BY <1>0, <2>2, <3>1
  <2> QED
    BY <2>1, <2>2 DEF Advanced
<1>6. PICK p : p = [plan[s] EXCEPT !.at = i]
  OBVIOUS
<1>7. p \in Plans /\ p.version = task.version /\ p.at = i
  BY <1>2, <1>5, <1>6 DEF Plans
<1>8. plan' = [plan EXCEPT ![s] = p]
  BY <1>1, <1>6 DEF BeginTick
<1>9. task.version <= task.version
  BY <1>4
<1>10. GoodPlan(p)
  BY <1>5, <1>7, <1>9 DEF GoodPlan, PlanFollows
<1>11. PICK k : k = [phase |-> "checking", at |-> i, now |-> now,
                     version |-> task.version, config |-> task.config]
  OBVIOUS
<1>12. k \in Reading /\ k.at = i /\ k.now = now /\ k.version = task.version
       /\ k.config = task.config /\ k.phase = "checking"
  BY <1>0, <1>4, <1>5, <1>11 DEF Reading
<1>13. GoodTick(k)
  BY <1>0, <1>5, <1>9, <1>12 DEF GoodTick, Ticks, TickFollows, OverlapSeen
<1>14. tick' = [tick EXCEPT ![s] = k]
  BY <1>1, <1>11
<1>15. now' = now /\ task' = task /\ route' = route /\ events' \in Nat /\ Unchanged
  BY <1>0 DEF BeginTick, environment, Unchanged
<1> QED
  BY <1>7, <1>8, <1>10, <1>12, <1>13, <1>14, <1>15 DEF SchedulerMoves, Ticks

\* The tick's reads, and its ends without a row.
LEMMA ReadingMoves ==
    ASSUME IInv, NEW s \in Scheduler,
           \/ KeepCatchUp(s) \/ GoOn(s) \/ Decide(s) \/ Classify(s) \/ CreateRetry(s)
           \/ Contention(s) \/ Crash(s)
    PROVE  SchedulerMoves(s)
<1>0. TypeOK /\ ScheduleFollowed /\ events \in Nat
  BY DEF IInv, TypeOK
<1>a. ASSUME plan' = plan PROVE \E p \in Plans \cup {NoPlan} : GoodPlan(p) /\ plan' = [plan EXCEPT ![s] = p]
  BY <1>0, <1>a, PlanStays
<1>b. ASSUME NEW k, GoodTick(k), tick' = [tick EXCEPT ![s] = k], plan' = plan, runs' = runs, made' = made,
             now' = now, task' = task, route' = route, events' \in Nat
      PROVE  SchedulerMoves(s)
  BY <1>a, <1>b DEF SchedulerMoves, GoodTick, Unchanged
<1>1. CASE KeepCatchUp(s)
  BY <1>0, <1>1, <1>b, QuietTicksGood DEF KeepCatchUp, environment
<1>2. CASE GoOn(s)
  <2>1. PICK k : k = [tick[s] EXCEPT !.phase = "deciding"]
    OBVIOUS
  <2>2. tick[s] \in Reading
    BY <1>0, <1>2, TickCases DEF GoOn
  <2>3. /\ k \in Reading /\ k.at = tick[s].at /\ k.now = tick[s].now
        /\ k.version = tick[s].version /\ k.config = tick[s].config /\ k.phase = "deciding"
    BY <2>1, <2>2 DEF Reading
  <2>4. GoodTick(k)
    BY <2>2, <2>3, TickGoesOn DEF OverlapSeen
  <2>5. tick' = [tick EXCEPT ![s] = k]
    BY <1>2, <2>1 DEF GoOn
  <2> QED
    BY <1>0, <1>2, <1>b, <2>4, <2>5 DEF GoOn, environment
<1>3. CASE Decide(s)
  <2>1. tick[s] \in Reading \cup Decision
    BY <1>0, <1>3, TickCases DEF Decide
  <2>2. PICK c \in Run \cup {NoRun}, phase \in {"creating", "classifying"}, skip \in BOOLEAN, active \in BOOLEAN :
           /\ Decided(s, phase, c, skip, active) /\ IsCandidate(c)
           /\ ~skip => c = NoRun \/ ~Active(c)
    <3>1. PICK c \in Run \cup {NoRun} :
             /\ IsCandidate(c)
             /\ \/ Active(c) /\ Decided(s, "creating", c, TRUE, TRUE)
                \/ /\ c # NoRun => ~Active(c)
                   /\ \/ Decided(s, "creating", c, TRUE, FALSE)
                      \/ Decided(s, "classifying", c, TRUE, FALSE)
                      \/ Decided(s, "creating", c, FALSE, FALSE)
      BY <1>3 DEF Decide
    <3> QED
      BY <3>1
  <2>3. PICK k : k = [phase |-> phase, at |-> tick[s].at, now |-> tick[s].now,
                      version |-> tick[s].version, config |-> tick[s].config,
                      overlap |-> c, skip |-> skip, active |-> active]
    OBVIOUS
  <2>4. /\ k \in Decision /\ k.at = tick[s].at /\ k.now = tick[s].now /\ k.phase = phase
        /\ k.version = tick[s].version /\ k.config = tick[s].config /\ k.overlap = c /\ k.skip = skip
    BY <1>0, <2>1, <2>3, TickCases DEF Decision
  <2>5. OverlapSeen(k)
    <3>1. CASE c = NoRun
      BY <2>4, <3>1 DEF OverlapSeen
    <3>2. CASE c \in Run /\ ~skip
      <4>1. Blocking(c) /\ ~Active(c)
        BY <2>2, <3>2, CronAssumption DEF IsCandidate, NoRun, Run
      <4> QED
        BY <2>4, <4>1 DEF OverlapSeen, Active, Blocking, Live
    <3>3. CASE skip
      BY <2>4, <3>3 DEF OverlapSeen
    <3> QED
      BY <3>1, <3>2, <3>3
  <2>6. GoodTick(k)
    BY <2>1, <2>4, <2>5, TickGoesOn
  <2>7. tick' = [tick EXCEPT ![s] = k]
    BY <2>2, <2>3 DEF Decided
  <2> QED
    BY <1>0, <1>3, <1>b, <2>6, <2>7 DEF Decide, environment
<1>4. CASE Classify(s)
  <2>1. tick[s] \in Decision /\ tick[s].phase = "classifying"
    BY <1>0, <1>4, TickCases DEF Classify
  <2>2. CASE route = "paused"
    BY <1>0, <1>4, <1>b, <2>2, QuietTicksGood DEF Classify, environment
  <2>3. CASE route # "paused"
    <3>1. PICK k : k = [tick[s] EXCEPT !.phase = "creating"]
      OBVIOUS
    <3>2. /\ k \in Decision /\ k.at = tick[s].at /\ k.now = tick[s].now /\ k.skip = tick[s].skip
          /\ k.version = tick[s].version /\ k.config = tick[s].config /\ k.overlap = tick[s].overlap
      BY <2>1, <3>1 DEF Decision
    <3>3. OverlapSeen(k)
      BY <2>1, <3>2 DEF IInv, Overlaps, OverlapSeen
    <3>4. GoodTick(k)
      BY <2>1, <3>2, <3>3, TickGoesOn
    <3>5. tick' = [tick EXCEPT ![s] = k]
      BY <1>0, <1>4, <2>3, <3>1 DEF Classify, TypeOK
    <3> QED
      BY <1>0, <1>4, <1>b, <3>4, <3>5 DEF Classify, environment
  <2> QED
    BY <2>2, <2>3
<1>5. CASE CreateRetry(s)
  <2>1. tick[s] \in Decision
    BY <1>0, <1>5, TickCases DEF CreateRetry, Creating
  <2>2. PICK k : k = [tick[s] EXCEPT !.phase = "deciding"]
    OBVIOUS
  <2>3. /\ k \in Decision /\ k.at = tick[s].at /\ k.now = tick[s].now /\ k.phase = "deciding"
        /\ k.version = tick[s].version /\ k.config = tick[s].config
    BY <2>1, <2>2 DEF Decision
  <2>4. GoodTick(k)
    BY <2>1, <2>3, TickGoesOn DEF OverlapSeen
  <2>5. tick' = [tick EXCEPT ![s] = k]
    BY <1>5, <2>2 DEF CreateRetry
  <2> QED
    BY <1>0, <1>5, <1>b, <2>4, <2>5 DEF CreateRetry, environment
<1>6. CASE Contention(s)
  <2>1. /\ tick' = [tick EXCEPT ![s] = Idle] /\ plan' = plan /\ runs' = runs /\ made' = made
        /\ now' = now /\ task' = task /\ route' = route /\ events' \in Nat
    BY <1>0, <1>6 DEF Contention, Event
  <2> QED
    BY <1>b, <2>1, QuietTicksGood
<1>7. CASE Crash(s)
  <2>1. GoodPlan(NoPlan)
    BY DEF GoodPlan, PlanFollows
  <2>2. /\ tick' = [tick EXCEPT ![s] = Down] /\ plan' = [plan EXCEPT ![s] = NoPlan]
        /\ now' = now /\ task' = task /\ route' = route /\ events' \in Nat /\ Unchanged
    BY <1>0, <1>7 DEF Crash, Event, Unchanged
  <2> QED
    BY <2>1, <2>2, QuietTicksGood DEF SchedulerMoves, GoodTick
<1> QED
  BY <1>1, <1>2, <1>3, <1>4, <1>5, <1>6, <1>7

\* The results of create_scheduled_task_run_if_current.
LEMMA CreatingMoves ==
    ASSUME IInv, NEW s \in Scheduler,
           CreateStale(s) \/ CreateDuplicate(s) \/ CreateGrouped(s) \/ CreateInserted(s)
    PROVE  SchedulerMoves(s)
<1>0. TypeOK /\ ScheduleFollowed /\ events \in Nat /\ Created \in Nat
  BY CronAssumption DEF IInv, TypeOK, Time
<1>1. /\ tick[s] \in Decision /\ tick[s].now \in Nat /\ tick[s].config \in Config
      /\ tick[s].version \in Version /\ tick[s].version \in Nat
      /\ TickFollows(tick[s]) /\ Created <= tick[s].now
  <2>1. tick[s].phase = "creating"
    BY DEF CreateStale, CreateDuplicate, CreateGrouped, CreateInserted, Creatable, Creating
  <2>2. tick[s] \in Decision /\ tick[s].now \in Nat /\ tick[s].config \in Config /\ tick[s].version \in Version
    BY <1>0, <2>1, TickCases
  <2>3. TickFollows(tick[s])
    BY <1>0 DEF ScheduleFollowed
  <2> QED
    BY <2>1, <2>2, <2>3 DEF TickFollows, Version
<1>2. \A P : (\A p \in P : GoodPlan(p)) /\ SetPlan(s, P) =>
         \E p \in Plans \cup {NoPlan} : GoodPlan(p) /\ plan' = [plan EXCEPT ![s] = p]
  BY DEF SetPlan, GoodPlan
<1>3. ASSUME EndTick(s) PROVE
         /\ now' = now /\ task' = task /\ route' = route /\ events' \in Nat
         /\ \E k \in Ticks : GoodTick(k) /\ tick' = [tick EXCEPT ![s] = k]
  BY <1>0, <1>3, QuietTicksGood DEF EndTick, environment, GoodTick
<1>4. ASSUME NEW i \in NextAfter(tick[s].config.cron, tick[s].now), Current(s)
      PROVE  GoodPlan(Planned(tick[s].version, i))
  <2>1. tick[s].version = task.version /\ tick[s].config = task.config
    BY <1>1, <1>4, TickCases, <1>0 DEF Current, TickFollows, Decision
  <2> QED
    BY <1>0, <1>1, <1>4, <2>1, FreshPlanGood
<1>5. ASSUME SetNext(s), Current(s)
      PROVE  \E p \in Plans \cup {NoPlan} : GoodPlan(p) /\ plan' = [plan EXCEPT ![s] = p]
  BY <1>2, <1>4, <1>5 DEF SetNext
<1>6. CASE CreateStale(s)
  <2>1. \A p \in Reloaded(s, tick[s].now) : GoodPlan(p)
    BY <1>0, <1>1, ReloadedGood
  <2> QED
    BY <1>2, <1>3, <1>6, <2>1 DEF CreateStale, SchedulerMoves, Unchanged
<1>7. CASE CreateDuplicate(s)
  BY <1>3, <1>5, <1>7 DEF CreateDuplicate, Creatable, SchedulerMoves, Unchanged
<1>8. CASE CreateGrouped(s)
  BY <1>3, <1>5, <1>8 DEF CreateGrouped, Creatable, SchedulerMoves, Grouping
<1>9. CASE CreateInserted(s)
  BY <1>3, <1>5, <1>9 DEF CreateInserted, Creatable, SchedulerMoves, Adding, Inserted
<1> QED
  BY <1>6, <1>7, <1>8, <1>9

LEMMA SchedulerStepMoves ==
    ASSUME IInv, NEW s \in Scheduler, SchedulerStep(s)
    PROVE  SchedulerMoves(s)
BY PlanningMoves, BeginMoves, ReadingMoves, CreatingMoves DEF SchedulerStep, TickStep, Create

-----------------------------------------------------------------------------
(* Rows that are added or extended.                                        *)

LEMMA InsertKeeps ==
    ASSUME TypeOK, PendingUnlinked, NEW kind \in {"scheduled", "manual"}, NEW at \in Nat,
           NEW skip \in BOOLEAN, NEW active \in BOOLEAN, Inserted(kind, at, skip, active)
    PROVE  /\ made + 1 \in Run /\ made \in Nat /\ made' = made + 1
           /\ runs' \in [Run -> Row]
           /\ \A q \in Run : runs'[q].status = "unused" <=> q > made'
           /\ \A q \in Run : q # made + 1 => Kept(q)
           /\ runs'[made + 1] = NewRow(kind, at, skip, active)
<1>1. made \in Nat /\ made + 1 \in Run /\ runs \in [Run -> Row]
  BY CronAssumption DEF TypeOK, Inserted, Run
<1>2. PICK row : row = NewRow(kind, at, skip, active)
  OBVIOUS
<1>3. row \in Row /\ row.status # "unused"
  BY <1>2 DEF NewRow, Row, Execution, TypeOK
<1>4. runs' = [runs EXCEPT ![made + 1] = row] /\ made' = made + 1
  BY <1>2 DEF Inserted
<1>5. runs' \in [Run -> Row] /\ runs'[made + 1] = row
  BY <1>1, <1>3, <1>4
<1>6. ASSUME NEW q \in Run, q # made + 1 PROVE Kept(q)
  BY <1>1, <1>4, <1>6, OtherRowsKept
<1>7. ASSUME NEW q \in Run PROVE runs'[q].status = "unused" <=> q > made'
  <2>1. runs[q].status = "unused" <=> q > made
    BY DEF TypeOK
  <2>2. CASE q = made + 1
    BY <1>1, <1>3, <1>4, <1>5, <2>2
  <2>3. CASE q # made + 1
    <3>1. runs'[q] = runs[q]
      BY <1>1, <1>4, <2>3
    <3> QED
      BY <1>1, <1>4, <2>1, <2>3, <3>1 DEF Run
  <2> QED
    BY <2>2, <2>3
<1> QED
  BY <1>1, <1>2, <1>4, <1>5, <1>6, <1>7

LEMMA GroupKeeps ==
    ASSUME TypeOK, PendingUnlinked, NEW s \in Scheduler, tick[s].at \in Nat, Grouping(s)
    PROVE  /\ runs' \in [Run -> Row]
           /\ \A q \in Run : runs'[q].status = "unused" <=> q > made'
           /\ \A q \in Run : Kept(q)
<1>1. PICK r \in Run :
         Groupable(s, r) /\ runs' = [runs EXCEPT ![r].for = tick[s].at, ![r].grouped = TRUE]
  BY DEF Grouping
<1>2. runs[r] \in Row /\ runs[r].status = "skipped" /\ made' = made
  BY <1>1 DEF TypeOK, Groupable, Grouping
<1>3. PICK row : row = [runs[r] EXCEPT !.for = tick[s].at, !.grouped = TRUE]
  OBVIOUS
<1>4. /\ row \in Row /\ row.status = "skipped" /\ row.exec = runs[r].exec /\ row.kind = runs[r].kind
      /\ row.version = runs[r].version /\ row.config = runs[r].config
  BY <1>2, <1>3 DEF Row
<1>5. runs' = [runs EXCEPT ![r] = row]
  BY <1>1, <1>3 DEF TypeOK
<1>6. runs'[r] = row
  BY <1>5 DEF TypeOK
<1>7. Kept(r)
  BY <1>2, <1>4, <1>6 DEF Kept, Blocking, Active, Live, Scheduled
<1>8. \A q \in Run : Kept(q)
  BY <1>5, <1>7, OtherRowsKept
<1> QED
  BY <1>2, <1>4, <1>5, <1>8, RowTyped

-----------------------------------------------------------------------------
(* Each part of the invariant, for rows that are kept or added.            *)

\* PendingUnlinked.
LEMMA UnlinkedStays ==
    ASSUME TypeOK, PendingUnlinked, \A q \in Run : Kept(q) PROVE PendingUnlinked'
BY DEF PendingUnlinked, Kept

\* OverlapKnown, if no row is added.
LEMMA OverlapKnownStays ==
    ASSUME TypeOK, OverlapKnown, \A q \in Run : Kept(q) PROVE OverlapKnown'
<1> SUFFICES ASSUME NEW p \in Run, NEW r \in Run, p < r, Active(p)', Blocking(r)'
             PROVE  ByHand(p, r)'
  BY DEF OverlapKnown
<1>1. CASE runs'[p].exec = "again"
  BY <1>1 DEF ByHand
<1>2. CASE runs'[p].exec # "again"
  <2>1. Active(p) /\ Blocking(r) /\ runs[p].exec # "again"
    BY <1>2 DEF Kept
  <2>2. PICK m \in p + 1 .. r : runs[m].kind = "manual"
    BY <2>1 DEF OverlapKnown, ByHand
  <2>3. m \in Run
    BY CronAssumption DEF Run
  <2> QED
    BY <2>2, <2>3 DEF ByHand, Kept
<1> QED
  BY <1>1, <1>2

\* What a tick has seen stays true of it.
LEMMA OverlapSeenStays ==
    ASSUME TypeOK, NEW s \in Scheduler, NEW k \in Ticks, OverlapSeen(k), tick'[s] = k,
           \A q \in Run : Kept(q) \/ runs[q].status = "unused"
    PROVE  OverlapSeen(tick[s])'
<1> SUFFICES ASSUME k.phase \in {"classifying", "creating"}, ~k.skip, k.overlap # NoRun
             PROVE  /\ runs'[k.overlap].status \notin {"pending", "unused"}
                    /\ Active(k.overlap)' => runs'[k.overlap].exec = "again"
  BY DEF OverlapSeen, Active, Blocking, Live
<1>1. PICK c \in Run : c = k.overlap
  BY DEF Ticks, Decision, Reading, Idle, Down
<1>2. /\ runs[c].status \notin {"pending", "unused"}
      /\ Active(c) => runs[c].exec = "again"
  BY <1>1 DEF OverlapSeen
<1>3. Kept(c)
  BY <1>2
<1>4. runs'[c].status \notin {"pending", "unused"} /\ (Active(c)' => runs'[c].exec = "again")
  BY <1>2, <1>3 DEF Kept
<1> QED
  BY <1>1, <1>4

\* OverlapKnown, when a row is added: by hand, skipped, or after the newest
\* row that could block it was found inactive.
LEMMA OverlapKnownAdded ==
    ASSUME TypeOK, PendingUnlinked, OverlapKnown, NEW n \in Run, n = made + 1, made' = n,
           \A q \in Run : runs'[q].status = "unused" <=> q > made',
           \A q \in Run : q # n => Kept(q),
           \/ runs'[n].kind = "manual"
           \/ ~Blocking(n)'
           \/ \E c \in Run \cup {NoRun} :
                /\ IsCandidate(c)
                /\ c # NoRun /\ Active(c) => runs[c].exec = "again"
    PROVE  OverlapKnown'
<1> SUFFICES ASSUME NEW p \in Run, NEW r \in Run, p < r, Active(p)', Blocking(r)'
             PROVE  ByHand(p, r)'
  BY DEF OverlapKnown
<1>0. made \in Nat /\ Run \subseteq Nat
  BY DEF TypeOK, Run
<1>1. r <= n
  BY <1>0 DEF Blocking, Live
<1>2. Kept(p) /\ p # n
  BY <1>0, <1>1
<1>3. CASE runs'[p].exec = "again"
  BY <1>3 DEF ByHand
<1>4. CASE runs'[p].exec # "again" /\ r # n
  <2>1. Active(p) /\ Blocking(r) /\ runs[p].exec # "again"
    BY <1>2, <1>4 DEF Kept
  <2>2. PICK m \in p + 1 .. r : runs[m].kind = "manual"
    BY <2>1 DEF OverlapKnown, ByHand
  <2>3. m \in Run /\ m # n
    BY <1>0, <1>1, <1>4, CronAssumption DEF Run
  <2>4. runs'[m].kind = "manual"
    BY <2>2, <2>3 DEF Kept
  <2> QED
    BY <2>4 DEF ByHand
<1>5. CASE runs'[p].exec # "again" /\ r = n
  <2>1. Active(p) /\ runs[p].exec # "again" /\ Blocking(p)
    BY <1>2, <1>5 DEF Kept, Active
  <2>2. CASE runs'[n].kind = "manual"
    <3>1. n \in p + 1 .. r
      BY <1>0, <1>5
    <3> QED
      BY <2>2, <3>1 DEF ByHand
  <2>3. CASE ~Blocking(n)'
    BY <1>5, <2>3 DEF Blocking, Live
  <2>4. ASSUME NEW c \in Run \cup {NoRun}, IsCandidate(c),
               c # NoRun /\ Active(c) => runs[c].exec = "again"
        PROVE  ByHand(p, r)'
    <3>1. c \in Run /\ Blocking(c) /\ p <= c /\ c # NoRun
      BY <2>1, <2>4, CronAssumption DEF IsCandidate, NoRun, Run
    <3>2. p < c
      <4>1. CASE p = c
        <5>1. Active(c) /\ runs[c].exec # "again"
          BY <2>1, <4>1
        <5> QED
          BY <2>4, <3>1, <5>1
      <4>2. CASE p # c
        BY <1>0, <3>1, <4>2
      <4> QED
        BY <4>1, <4>2
    <3>3. PICK m \in p + 1 .. c : runs[m].kind = "manual"
      BY <2>1, <3>1, <3>2 DEF OverlapKnown, ByHand
    <3>4. c <= made
      BY <1>0, <3>1 DEF TypeOK, Blocking, Live
    <3>5. m \in Run /\ m # n /\ m \in p + 1 .. r
      BY <1>0, <1>5, <3>1, <3>4, CronAssumption DEF Run
    <3>6. runs'[m].kind = "manual"
      BY <3>3, <3>5 DEF Kept
    <3> QED
      BY <3>5, <3>6 DEF ByHand
  <2> QED
    BY <2>2, <2>3, <2>4
<1> QED
  BY <1>3, <1>4, <1>5

\* RunsItsSchedule, row by row.
RunFollows(r) ==
    Scheduled(r) /\ runs[r].status # "skipped" =>
        runs[r].for \in runs[r].config.cron /\ Created < runs[r].for /\ runs[r].for <= now

LEMMA RunFollowsStays ==
    ASSUME RunsItsSchedule, NEW r \in Run, Kept(r), now \in Int, now' \in {now, now + 1},
           runs[r].for \in Int
    PROVE  RunFollows(r)'
BY DEF RunsItsSchedule, RunFollows, Kept

-----------------------------------------------------------------------------
(* The invariant.                                                          *)

LEMMA InitInv == Init => IInv
<1> SUFFICES ASSUME Init PROVE IInv
  OBVIOUS
<1>1. PICK c \in Config :
         /\ task = [version |-> 0, config |-> c, enabled |-> TRUE, deleted |-> FALSE]
         /\ runs = [r \in Run |->
                      [kind |-> "scheduled", first |-> 0, for |-> 0, grouped |-> FALSE,
                       status |-> "unused", active |-> FALSE, exec |-> "none",
                       version |-> 0, config |-> c]]
  BY DEF Init
<1>2. 0 \in Version /\ MaxRuns \in Nat /\ Created \in Time /\ Created \in Nat
  BY CronAssumption DEF Version, Time
<1>3. runs \in [Run -> Row] /\ \A r \in Run : runs[r].status = "unused"
  BY <1>1, <1>2 DEF Row, Execution
<1>4. \A r \in Run : ~Live(r)
  BY <1>3 DEF Live
<1>5. TypeOK
  <2>1. /\ now \in Time /\ made \in 0 .. MaxRuns /\ events \in Nat
        /\ plan \in [Scheduler -> [version : Version, at : Nat] \cup {NoPlan}]
        /\ tick \in [Scheduler -> {Idle, Down} \cup Reading \cup Decision]
        /\ route \in {"usable", "paused", "broken"}
    BY <1>2 DEF Init
  <2>2. task \in [version : Version, config : Config, enabled : BOOLEAN, deleted : BOOLEAN]
    BY <1>1, <1>2
  <2>3. \A r \in Run : runs[r].status = "unused" <=> r > made
    BY <1>2, <1>3 DEF Init, Run
  <2> QED
    BY <1>3, <2>1, <2>2, <2>3 DEF TypeOK
<1>6. PendingUnlinked
  BY <1>3 DEF PendingUnlinked
<1>7. ScheduleFollowed
  BY <1>2, <1>4 DEF Init, ScheduleFollowed, RunsItsSchedule, Scheduled, PlanFollows, TickFollows, Down
<1>8. Overlaps
  BY <1>4 DEF Init, Overlaps, OverlapKnown, OverlapSeen, Active, Blocking, Down
<1> QED
  BY <1>5, <1>6, <1>7, <1>8 DEF IInv

\* A step that changes rows only.
LEMMA RunStepInv ==
    ASSUME IInv, NEW r \in Run, RunStep(r) PROVE IInv'
<1>1. /\ runs' \in [Run -> Row]
      /\ \A q \in Run : runs'[q].status = "unused" <=> q > made'
      /\ \A q \in Run : Kept(q)
      /\ now' = now /\ task' = task /\ made' = made /\ plan' = plan /\ tick' = tick
      /\ route' = route /\ events' \in Nat
  BY RunStepKeeps DEF IInv
<1>2. TypeOK'
  BY <1>1 DEF IInv, TypeOK
<1>3. PendingUnlinked'
  BY <1>1, UnlinkedStays DEF IInv
<1>4. ScheduleFollowed'
  <2>1. Created <= now' /\ \A s \in Scheduler : PlanFollows(plan[s])' /\ TickFollows(tick[s])'
    BY <1>1 DEF IInv, ScheduleFollowed, PlanFollows, TickFollows
  <2>2. \A q \in Run : RunFollows(q)'
    <3>1. now \in Int /\ \A q \in Run : runs[q].for \in Int
      BY CronAssumption DEF IInv, TypeOK, Row, Time
    <3> QED
      BY <1>1, <3>1, RunFollowsStays DEF IInv, ScheduleFollowed
  <2> QED
    BY <2>1, <2>2 DEF ScheduleFollowed, RunsItsSchedule, RunFollows
<1>5. Overlaps'
  <2>1. OverlapKnown'
    BY <1>1, OverlapKnownStays DEF IInv, Overlaps
  <2>2. ASSUME NEW s \in Scheduler PROVE OverlapSeen(tick[s])'
    <3>1. tick[s] \in Ticks /\ OverlapSeen(tick[s]) /\ tick'[s] = tick[s]
      BY <1>1 DEF IInv, TypeOK, Ticks, Overlaps
    <3> QED
      BY <1>1, <3>1, OverlapSeenStays DEF IInv
  <2> QED
    BY <2>1, <2>2 DEF Overlaps
<1> QED
  BY <1>2, <1>3, <1>4, <1>5 DEF IInv

\* A scheduler's step.
LEMMA SchedulerStepInv ==
    ASSUME IInv, NEW s \in Scheduler, SchedulerStep(s) PROVE IInv'
<1>0. TypeOK /\ PendingUnlinked /\ ScheduleFollowed /\ Overlaps /\ SchedulerMoves(s)
  BY SchedulerStepMoves DEF IInv
<1>1. PICK p \in Plans \cup {NoPlan} : GoodPlan(p) /\ plan' = [plan EXCEPT ![s] = p]
  BY <1>0 DEF SchedulerMoves
<1>2. PICK k \in Ticks : GoodTick(k) /\ tick' = [tick EXCEPT ![s] = k]
  BY <1>0 DEF SchedulerMoves
<1>3. now' = now /\ task' = task /\ route' = route /\ events' \in Nat
  BY <1>0 DEF SchedulerMoves
<1>4. Unchanged \/ Grouping(s) \/ Adding(s)
  BY <1>0 DEF SchedulerMoves
<1>5. /\ plan \in [Scheduler -> Plans \cup {NoPlan}] /\ tick \in [Scheduler -> Ticks]
      /\ now \in Int /\ \A q \in Run : runs[q].for \in Int
  BY <1>0, CronAssumption DEF TypeOK, Plans, Ticks, Row, Time
<1>6. ASSUME Grouping(s) \/ Adding(s)
      PROVE  /\ tick[s] \in Decision /\ tick[s].at \in Nat /\ tick[s].phase = "creating"
             /\ Current(s) /\ IsCandidate(tick[s].overlap)
  BY <1>0, <1>6, TickCases DEF Grouping, Adding, Creatable, Creating
<1>7. ASSUME Adding(s)
      PROVE  /\ made + 1 \in Run /\ made \in Nat /\ made' = made + 1
             /\ runs' \in [Run -> Row]
             /\ \A q \in Run : runs'[q].status = "unused" <=> q > made'
             /\ \A q \in Run : q # made + 1 => Kept(q)
             /\ runs'[made + 1] = NewRow("scheduled", tick[s].at, tick[s].skip, tick[s].active)
  <2>1. tick[s].skip \in BOOLEAN /\ tick[s].active \in BOOLEAN
    BY <1>6, <1>7 DEF Decision
  <2> QED
    BY <1>0, <1>6, <1>7, <2>1, InsertKeeps DEF Adding
<1>8. ASSUME ~Adding(s)
      PROVE  /\ made' = made /\ runs' \in [Run -> Row]
             /\ \A q \in Run : runs'[q].status = "unused" <=> q > made'
             /\ \A q \in Run : Kept(q)
  <2>1. CASE Grouping(s)
    BY <1>0, <1>6, <2>1, GroupKeeps DEF Grouping
  <2>2. CASE Unchanged
    BY <1>0, <2>2 DEF Unchanged, TypeOK, Kept, Blocking, Active, Live, Scheduled
  <2> QED
    BY <1>4, <1>8, <2>1, <2>2
<1>9. /\ runs' \in [Run -> Row] /\ made' \in 0 .. MaxRuns
      /\ \A q \in Run : runs'[q].status = "unused" <=> q > made'
      /\ \A q \in Run : Kept(q) \/ runs[q].status = "unused"
  <2>1. CASE Adding(s)
    <3>1. made' \in 0 .. MaxRuns
      BY <1>7, <2>1, CronAssumption DEF Run
    <3>2. runs[made + 1].status = "unused"
      BY <1>0, <1>7, <2>1 DEF TypeOK
    <3> QED
      BY <1>7, <2>1, <3>1, <3>2
  <2>2. CASE ~Adding(s)
    BY <1>0, <1>8, <2>2 DEF TypeOK
  <2> QED
    BY <2>1, <2>2
<1>10. TypeOK'
  BY <1>0, <1>1, <1>2, <1>3, <1>5, <1>9 DEF TypeOK, Plans, Ticks
<1>11. PendingUnlinked'
  <2>1. CASE Adding(s)
    BY <1>0, <1>7, <2>1 DEF PendingUnlinked, Kept, NewRow
  <2>2. CASE ~Adding(s)
    BY <1>0, <1>8, <2>2, UnlinkedStays
  <2> QED
    BY <2>1, <2>2
<1>12. ScheduleFollowed'
  <2>1. Created <= now'
    BY <1>0, <1>3 DEF ScheduleFollowed
  <2>2. ASSUME NEW z \in Scheduler PROVE PlanFollows(plan[z])' /\ TickFollows(tick[z])'
    <3>1. CASE z = s
      <4>1. plan'[z] = p /\ tick'[z] = k /\ PlanFollows(p) /\ TickFollows(k)
        BY <1>1, <1>2, <1>5, <3>1 DEF GoodPlan, GoodTick
      <4> QED
        BY <1>3, <4>1 DEF PlanFollows, TickFollows
    <3>2. CASE z # s
      <4>1. plan'[z] = plan[z] /\ tick'[z] = tick[z] /\ PlanFollows(plan[z]) /\ TickFollows(tick[z])
        BY <1>0, <1>1, <1>2, <1>5, <3>2 DEF ScheduleFollowed
      <4> QED
        BY <1>3, <4>1 DEF PlanFollows, TickFollows
    <3> QED
      BY <3>1, <3>2
  <2>3. \A q \in Run : Kept(q) => RunFollows(q)'
    BY <1>0, <1>3, <1>5, RunFollowsStays DEF ScheduleFollowed
  <2>4. ASSUME NEW n \in Run, n = made + 1, Adding(s) PROVE RunFollows(n)'
    <3>1. TickFollows(tick[s]) /\ Current(s) /\ tick[s].phase = "creating"
      BY <1>0, <1>6, <2>4 DEF ScheduleFollowed
    <3>2. tick[s].at \in task.config.cron /\ Created < tick[s].at /\ tick[s].at <= now
      BY <3>1 DEF TickFollows, Current
    <3>3. runs'[n].for = tick[s].at /\ runs'[n].config = task.config
      BY <1>7, <2>4 DEF NewRow
    <3> QED
      BY <1>3, <3>2, <3>3 DEF RunFollows
  <2>5. \A q \in Run : RunFollows(q)'
    <3>1. CASE Adding(s)
      BY <1>7, <2>3, <2>4, <3>1
    <3>2. CASE ~Adding(s)
      BY <1>8, <2>3, <3>2
    <3> QED
      BY <3>1, <3>2
  <2> QED
    BY <2>1, <2>2, <2>5 DEF ScheduleFollowed, RunsItsSchedule, RunFollows
<1>13. OverlapKnown'
  <2>1. CASE Adding(s)
    <3>1. PICK n \in Run : n = made + 1
      BY <1>7, <2>1
    <3>2. \/ ~Blocking(n)'
          \/ \E c \in Run \cup {NoRun} :
               IsCandidate(c) /\ (c # NoRun /\ Active(c) => runs[c].exec = "again")
      <4>1. CASE tick[s].skip
        <5>1. runs'[n].status = "skipped" /\ runs'[n].exec = "none"
          BY <1>7, <2>1, <3>1, <4>1 DEF NewRow
        <5> QED
          BY <5>1 DEF Blocking
      <4>2. CASE ~tick[s].skip
        <5>1. OverlapSeen(tick[s])
          BY <1>0 DEF Overlaps
        <5>2. PICK c \in Run \cup {NoRun} : c = tick[s].overlap
          BY <1>6, <2>1 DEF Decision
        <5>3. c # NoRun /\ Active(c) => runs[c].exec = "again"
          BY <1>6, <2>1, <4>2, <5>1, <5>2 DEF OverlapSeen
        <5> QED
          BY <1>6, <2>1, <5>2, <5>3
      <4> QED
        BY <4>1, <4>2
    <3> QED
      BY <1>0, <1>7, <2>1, <3>1, <3>2, OverlapKnownAdded DEF Overlaps
  <2>2. CASE ~Adding(s)
    BY <1>0, <1>8, <2>2, OverlapKnownStays DEF Overlaps
  <2> QED
    BY <2>1, <2>2
<1>14. ASSUME NEW z \in Scheduler PROVE OverlapSeen(tick[z])'
  <2>1. CASE z = s
    BY <1>0, <1>2, <1>5, <1>9, <2>1, OverlapSeenStays DEF GoodTick
  <2>2. CASE z # s
    BY <1>0, <1>2, <1>5, <1>9, <2>2, OverlapSeenStays DEF Overlaps
  <2> QED
    BY <2>1, <2>2
<1> QED
  BY <1>10, <1>11, <1>12, <1>13, <1>14 DEF IInv, Overlaps

\* A run by hand: its row may be added beside an active one.
LEMMA RunByHandInv ==
    ASSUME IInv, RunByHand PROVE IInv'
<1>0. /\ TypeOK /\ PendingUnlinked /\ ScheduleFollowed /\ Overlaps
      /\ now \in Nat /\ events \in Nat /\ \A q \in Run : runs[q].for \in Int
  BY CronAssumption DEF IInv, TypeOK, Row, Time
<1>1. /\ Inserted("manual", now, FALSE, FALSE)
      /\ now' = now /\ task' = task /\ plan' = plan /\ tick' = tick /\ route' = route
      /\ events' \in Nat
  BY <1>0 DEF RunByHand, Inserted, Event
<1>2. /\ made + 1 \in Run /\ made \in Nat /\ made' = made + 1
      /\ runs' \in [Run -> Row]
      /\ \A q \in Run : runs'[q].status = "unused" <=> q > made'
      /\ \A q \in Run : q # made + 1 => Kept(q)
      /\ runs'[made + 1] = NewRow("manual", now, FALSE, FALSE)
  BY <1>0, <1>1, InsertKeeps
<1>3. PICK n \in Run : n = made + 1
  BY <1>2
<1>4. /\ runs'[n].kind = "manual" /\ runs'[n].exec = "none" /\ runs[n].status = "unused"
      /\ made' \in 0 .. MaxRuns
  BY <1>0, <1>2, <1>3, CronAssumption DEF NewRow, TypeOK, Run
<1>5. TypeOK'
  BY <1>0, <1>1, <1>2, <1>4 DEF TypeOK
<1>6. PendingUnlinked'
  BY <1>0, <1>2, <1>3, <1>4 DEF PendingUnlinked, Kept
<1>7. ScheduleFollowed'
  <2>1. Created <= now' /\ \A s \in Scheduler : PlanFollows(plan[s])' /\ TickFollows(tick[s])'
    BY <1>0, <1>1 DEF ScheduleFollowed, PlanFollows, TickFollows
  <2>2. RunFollows(n)'
    BY <1>4 DEF RunFollows, Scheduled
  <2>3. \A q \in Run : RunFollows(q)'
    BY <1>0, <1>1, <1>2, <1>3, <2>2, RunFollowsStays DEF ScheduleFollowed
  <2> QED
    BY <2>1, <2>3 DEF ScheduleFollowed, RunsItsSchedule, RunFollows
<1>8. OverlapKnown'
  BY <1>0, <1>2, <1>3, <1>4, OverlapKnownAdded DEF Overlaps
<1>9. ASSUME NEW s \in Scheduler PROVE OverlapSeen(tick[s])'
  <2>1. tick[s] \in Ticks /\ OverlapSeen(tick[s]) /\ tick'[s] = tick[s]
    BY <1>0, <1>1 DEF TypeOK, Ticks, Overlaps
  <2> QED
    BY <1>0, <1>2, <1>3, <1>4, <2>1, OverlapSeenStays
<1> QED
  BY <1>5, <1>6, <1>7, <1>8, <1>9 DEF IInv, Overlaps

\* The rest of the world: the task, the route, the clock.
LEMMA WorldStepInv ==
    ASSUME IInv,
           \/ \E c \in Config : Edit(c)
           \/ \E b \in BOOLEAN : SetEnabled(b)
           \/ Delete \/ RouteFails \/ RouteRecovers \/ Pass
           \/ UNCHANGED vars
    PROVE  IInv'
<1>0. /\ TypeOK /\ PendingUnlinked /\ ScheduleFollowed /\ Overlaps
      /\ now \in Time /\ now \in Nat /\ events \in Nat /\ Created \in Nat /\ MaxEvents \in Nat
      /\ task.version \in Nat /\ \A q \in Run : runs[q].for \in Int
  BY CronAssumption DEF IInv, TypeOK, Row, Time, Version
<1>1. runs' = runs /\ made' = made /\ plan' = plan /\ tick' = tick
  BY DEF Edit, SetEnabled, Delete, Edited, RouteFails, RouteRecovers, Pass, vars
<1>2. events' \in Nat /\ route' \in {"usable", "paused", "broken"}
  <2>1. events' = events \/ events' = events + 1
    BY DEF Edit, SetEnabled, Delete, Edited, RouteFails, RouteRecovers, Pass, vars, environment, Event
  <2>2. route' = route \/ route' \in {"usable", "paused", "broken"}
    BY DEF Edit, SetEnabled, Delete, Edited, RouteFails, RouteRecovers, Pass, vars, environment
  <2> QED
    BY <1>0, <2>1, <2>2 DEF TypeOK
<1>3. now' \in Time /\ now' \in {now, now + 1}
  <2>1. now' = now \/ (now < MaxTime /\ now' = now + 1)
    BY DEF Edit, SetEnabled, Delete, Edited, RouteFails, RouteRecovers, Pass, vars, environment
  <2> QED
    BY <1>0, <2>1, CronAssumption DEF Time
<1>4. /\ task' \in [version : Version, config : Config, enabled : BOOLEAN, deleted : BOOLEAN]
      /\ task' = task \/ task'.version = task.version + 1
  <2>1. ASSUME NEW t \in [version : Version, config : Config, enabled : BOOLEAN, deleted : BOOLEAN],
               Edited(t)
        PROVE  /\ task' \in [version : Version, config : Config, enabled : BOOLEAN, deleted : BOOLEAN]
               /\ task'.version = task.version + 1
    <3>1. task.version + 1 \in Version
      BY <1>0, <2>1 DEF Edited, Eventful, Version
    <3> QED
      BY <2>1, <3>1 DEF Edited
  <2>2. task \in [version : Version, config : Config, enabled : BOOLEAN, deleted : BOOLEAN]
    BY <1>0 DEF TypeOK
  <2>3. CASE \E c \in Config : Edit(c)
    BY <2>1, <2>2, <2>3 DEF Edit
  <2>4. CASE \E b \in BOOLEAN : SetEnabled(b)
    BY <2>1, <2>2, <2>4 DEF SetEnabled
  <2>5. CASE Delete
    BY <2>1, <2>2, <2>5 DEF Delete
  <2>6. CASE RouteFails \/ RouteRecovers \/ Pass \/ UNCHANGED vars
    BY <2>2, <2>6 DEF RouteFails, RouteRecovers, Pass, vars
  <2> QED
    BY <2>3, <2>4, <2>5, <2>6
<1>5. TypeOK'
  BY <1>0, <1>1, <1>2, <1>3, <1>4 DEF TypeOK
<1>6. PendingUnlinked' /\ OverlapKnown'
  BY <1>0, <1>1 DEF PendingUnlinked, Overlaps, OverlapKnown, ByHand, Active, Blocking, Live
<1>7. \A s \in Scheduler : OverlapSeen(tick[s])'
  BY <1>0, <1>1 DEF Overlaps, OverlapSeen, Active, Blocking, Live
<1>8. ScheduleFollowed'
  <2>1. Created <= now' /\ now <= now'
    BY <1>0, <1>3 DEF ScheduleFollowed
  <2>2. ASSUME NEW s \in Scheduler PROVE PlanFollows(plan[s])'
    <3>1. plan'[s] = plan[s] /\ PlanFollows(plan[s])
      BY <1>0, <1>1 DEF ScheduleFollowed
    <3>2. plan[s] # NoPlan => plan[s].version \in Nat
      BY <1>0 DEF TypeOK, Version
    <3>3. CASE task' = task
      BY <3>1, <3>3 DEF PlanFollows
    <3>4. CASE task'.version = task.version + 1
      BY <1>0, <3>1, <3>2, <3>4 DEF PlanFollows
    <3> QED
      BY <1>4, <3>3, <3>4
  <2>3. ASSUME NEW s \in Scheduler PROVE TickFollows(tick[s])'
    <3>1. tick'[s] = tick[s] /\ TickFollows(tick[s])
      BY <1>0, <1>1 DEF ScheduleFollowed
    <3>2. tick[s].phase \notin {"idle", "down"} => tick[s].version \in Nat /\ tick[s].at \in Nat
      BY <1>0, TickCases DEF Ticks, Idle, Down, Version
    <3>3. CASE task' = task
      BY <1>0, <1>3, <2>1, <3>1, <3>2, <3>3 DEF TickFollows
    <3>4. CASE task'.version = task.version + 1
      BY <1>0, <3>1, <3>2, <3>4 DEF TickFollows
    <3> QED
      BY <1>4, <3>3, <3>4
  <2>4. \A q \in Run : Kept(q)
    BY <1>1 DEF Kept, Blocking, Active, Live, Scheduled
  <2>5. \A q \in Run : RunFollows(q)'
    BY <1>0, <1>3, <2>4, RunFollowsStays DEF ScheduleFollowed
  <2> QED
    BY <2>1, <2>2, <2>3, <2>5 DEF ScheduleFollowed, RunsItsSchedule, RunFollows
<1> QED
  BY <1>5, <1>6, <1>7, <1>8 DEF IInv, Overlaps

\* IInv is an invariant of the scheduler and its rows.
LEMMA Invariant == Spec => []IInv
<1>1. IInv /\ [Next]_vars => IInv'
  BY SchedulerStepInv, RunStepInv, RunByHandInv, WorldStepInv DEF Next
<1> QED
  BY <1>1, InitInv, PTL DEF Spec

-----------------------------------------------------------------------------
(* What follows.                                                           *)

\* Type correctness, for every schedule and number of schedulers.
THEOREM CronTypes == Spec => []TypeOK
<1>1. IInv => TypeOK
  BY DEF IInv
<1> QED
  BY <1>1, Invariant, PTL

\* The scheduler never adds an execution to one that is active, unless a run
\* by hand hid it or it was reopened: however many schedulers race, the newest
\* blocking row is compared again when the trigger is written
\* (create_scheduled_task_run_if_current).
THEOREM NoOverlapOfItsOwn == Spec => []OverlapOnlyByHand
<1>1. IInv => OverlapOnlyByHand
  <2> SUFFICES ASSUME IInv, NEW p \in Run, NEW r \in Run, Active(p), Active(r), p < r
               PROVE  ByHand(p, r)
    BY DEF OverlapOnlyByHand, ByHand
  <2> QED
    BY DEF IInv, Overlaps, OverlapKnown, Active
<1> QED
  BY <1>1, Invariant, PTL

\* What is executed has an instant of the schedule it is executed under, later
\* than the task and not in the future, whatever edits fall between the plan,
\* the reads and the write of the scheduler.
THEOREM ScheduleIsRun == Spec => []RunsItsSchedule
<1>1. IInv => RunsItsSchedule
  BY DEF IInv, ScheduleFollowed
<1> QED
  BY <1>1, Invariant, PTL
=============================================================================
