--------------------------- MODULE CronRecordProofs ---------------------------
(***************************************************************************)
(* The record of a task's instants under one scheduler, as production runs *)
(* it: crashes and restarts included, for every schedule and any bounds.   *)
(* Two schedulers on one store break both theorems: a tick that began      *)
(* before another may write after it and merge backwards.                  *)
(***************************************************************************)
EXTENDS CronSchedulerProofs, FiniteSetTheorems, WellFoundedInduction

OneScheduler == \A s, t \in Scheduler : s = t

-----------------------------------------------------------------------------
(* The strengthening.                                                      *)

\* A version names one configuration.
Snapshots ==
    \A r \in Run : Scheduled(r) =>
        /\ runs[r].version <= task.version
        /\ runs[r].version = task.version => runs[r].config = task.config
        /\ \A p \in Run : Scheduled(p) /\ runs[p].version = runs[r].version =>
                            runs[p].config = runs[r].config

\* A row stands for one instant until it is merged with another; only a skip
\* can be moved before its first instant, by a trigger of an edited task.
Spans ==
    \A r \in Run : Scheduled(r) =>
        /\ runs[r].for <= now
        /\ ~runs[r].grouped => runs[r].first = runs[r].for
        /\ runs[r].status # "skipped" => runs[r].first <= runs[r].for
        /\ runs[r].version = task.version => runs[r].for \in runs[r].config.cron

Ticking(k) == k.phase \notin {"idle", "down"}

\* A tick works on the latest instant of its schedule, and nothing on record
\* is later than the moment it began.
AtLatest(k) ==
    Ticking(k) =>
        /\ \A j \in k.config.cron : j <= k.now => j <= k.at
        /\ k.at <= k.now
        /\ \A r \in Run : Scheduled(r) => runs[r].for <= k.now

\* Rows of one version stand for their instants in the order of their ids.
Ordered ==
    \A p, r \in Run :
        /\ Scheduled(p) /\ Scheduled(r)
        /\ runs[p].version = runs[r].version
        /\ p < r
        => \A i \in runs[r].config.cron :
               runs[p].first <= i /\ i <= runs[p].for => i < runs[r].first

Record == Snapshots /\ Spans /\ Ordered

RInv == Record /\ \A s \in Scheduler : AtLatest(tick[s])

-----------------------------------------------------------------------------
(* Numbers.                                                                *)

\* A nonempty set of instants has a latest one.  It is the one above which
\* the fewest others lie, so the finiteness of the set is all that is needed.
LEMMA LatestExists ==
    ASSUME NEW A, NEW m \in Nat, A \subseteq 0 .. m, A # {}
    PROVE  \E x \in A : \A y \in A : y <= x
<1> DEFINE Above(a) == {b \in A : b > a}
           T == {Above(a) : a \in A}
<1>1. IsFiniteSet(A)
  <2>1. IsFiniteSet(0 .. m)
    BY FS_Interval
  <2> QED
    BY <2>1, FS_Subset
<1>2. T \subseteq FiniteSubsetsOf(A) /\ T # {}
  <2>1. \A a \in A : Above(a) \subseteq A
    OBVIOUS
  <2>2. \A a \in A : IsFiniteSet(Above(a))
    <3> HIDE DEF Above
    <3> QED
      BY <1>1, <2>1, FS_Subset
  <2>3. T # {}
    OBVIOUS
  <2> HIDE DEF Above
  <2> QED
    BY <2>1, <2>2, <2>3, Zenon DEF FiniteSubsetsOf
<1>3. IsWellFoundedOn(StrictSubsetOrdering(A), FiniteSubsetsOf(A))
  BY FS_StrictSubsetOrderingWellFounded
<1>4. PICK S \in T : \A R \in T : ~ (<<R, S>> \in StrictSubsetOrdering(A))
  <2> HIDE DEF T
  <2> QED
    BY <1>2, <1>3, WFMin
<1>5. PICK x \in A : S = Above(x)
  OBVIOUS
<1>6. ASSUME NEW y \in A, y > x PROVE FALSE
  <2>1. A \subseteq Int
    OBVIOUS
  <2>2. Above(y) \in T
    OBVIOUS
  <2>3. \A b \in A : b > y => b > x
    BY <2>1, <1>6
  <2>4. Above(y) \subseteq Above(x)
    BY <2>3
  <2>5. y \in Above(x) /\ y \notin Above(y)
    BY <2>1, <1>6
  <2>6. Above(y) \subseteq A /\ S \subseteq A
    BY <1>5
  <2>7. <<Above(y), S>> \in StrictSubsetOrdering(A)
    <3> HIDE DEF Above
    <3> QED
      BY <1>5, <2>4, <2>5, <2>6 DEF StrictSubsetOrdering
  <2> QED
    BY <1>4, <2>2, <2>7
<1> QED
  BY <1>6

\* A schedule with an instant before t has a latest one before t.
LEMMA LatestBeforeExists ==
    ASSUME NEW c \in Config, NEW t \in Nat, NEW j \in c.cron, j < t
    PROVE  \E i \in LatestBefore(c.cron, t) : j <= i
<1> DEFINE A == {i \in c.cron : i < t}
<1>1. A \subseteq 0 .. MaxTime /\ A # {} /\ MaxTime \in Nat
  BY CronAssumption DEF Time
<1>2. PICK i \in A : \A y \in A : y <= i
  BY <1>1, LatestExists
<1> QED
  BY <1>2 DEF LatestBefore

LEMMA RecordTyped ==
    ASSUME TypeOK
    PROVE  /\ now \in Nat /\ task.version \in Nat /\ Run \subseteq Nat /\ made \in Nat
           /\ \A r \in Run :
                /\ runs[r].first \in Nat /\ runs[r].for \in Nat /\ runs[r].version \in Nat
                /\ runs[r].config \in Config
           /\ \A c \in Config : c.cron \subseteq Nat
           /\ task.config \in Config
<1>1. runs \in [Run -> Row] /\ now \in Time /\ task.version \in Version /\ task.config \in Config
      /\ made \in 0 .. MaxRuns
  BY DEF TypeOK
<1>2. Time \subseteq Nat /\ Version \subseteq Nat /\ Run \subseteq Nat /\ MaxRuns \in Nat
  BY CronAssumption DEF Time, Version, Run
<1>3. \A c \in Config : c.cron \subseteq Nat
  BY <1>2, CronAssumption
<1>4. ASSUME NEW r \in Run
      PROVE  /\ runs[r].first \in Nat /\ runs[r].for \in Nat /\ runs[r].version \in Nat
             /\ runs[r].config \in Config
  <2>1. runs[r] \in Row
    BY <1>1
  <2> QED
    BY <1>2, <2>1 DEF Row
<1>5. made \in Nat
  BY <1>1, <1>2
<1> QED
  BY <1>1, <1>2, <1>3, <1>4, <1>5

-----------------------------------------------------------------------------
(* Steps that leave the record alone.                                      *)

SpanKept(r) ==
    /\ Scheduled(r)' <=> Scheduled(r)
    /\ Scheduled(r) =>
         /\ runs'[r].first = runs[r].first /\ runs'[r].for = runs[r].for
         /\ runs'[r].grouped = runs[r].grouped
         /\ runs'[r].version = runs[r].version /\ runs'[r].config = runs[r].config
         /\ runs'[r].status # "skipped" => runs[r].status # "skipped"

\* A tick that is kept, over, or goes on with what it read when it began.
Resumed(s) ==
    \/ tick'[s] = tick[s]
    \/ ~Ticking(tick'[s])
    \/ /\ Ticking(tick[s])
       /\ tick'[s].at = tick[s].at /\ tick'[s].now = tick[s].now
       /\ tick'[s].config = tick[s].config

Quiet ==
    /\ \A r \in Run : SpanKept(r)
    /\ task' = task \/ task'.version = task.version + 1
    /\ now' = now \/ now' = now + 1
    /\ \A s \in Scheduler : Resumed(s) \/ BeginTick(s)

\* The record, when no row's span changes.
LEMMA RecordStays ==
    ASSUME TypeOK, Record, Quiet PROVE Record'
<1> USE RecordTyped
<1>1. Snapshots'
  BY DEF Record, Snapshots, Quiet, SpanKept
<1>2. Spans'
  BY DEF Record, Snapshots, Spans, Quiet, SpanKept
<1>3. Ordered'
  BY DEF Record, Ordered, Quiet, SpanKept
<1> QED
  BY <1>1, <1>2, <1>3 DEF Record

\* A tick, when nothing on record moves to a later instant.
LEMMA AtLatestStays ==
    ASSUME TypeOK, NEW s \in Scheduler, AtLatest(tick[s]), Resumed(s),
           \A r \in Run : Scheduled(r)' => Scheduled(r) /\ runs'[r].for = runs[r].for
    PROVE  AtLatest(tick[s])'
BY DEF AtLatest, Resumed, Ticking

\* tick() takes the latest instant that is due.
LEMMA BeginAtLatest ==
    ASSUME IInv, Record, NEW s \in Scheduler, BeginTick(s), runs' = runs
    PROVE  AtLatest(tick[s])'
<1>0. /\ TypeOK /\ ScheduleFollowed /\ now \in Nat /\ task.config \in Config
      /\ task.config.cron \subseteq Nat /\ Created \in Nat
      /\ Never \in Nat /\ Never > now
  BY RecordTyped, CronAssumption DEF IInv, TypeOK, Time, Never
<1>1. PICK i \in Advanced(s) :
         tick' = [tick EXCEPT ![s] = [phase |-> "checking", at |-> i, now |-> now,
                                      version |-> task.version, config |-> task.config]]
  BY DEF BeginTick
<1>2. tick'[s].at = i /\ tick'[s].now = now /\ tick'[s].config = task.config
  BY <1>0, <1>1 DEF TypeOK
<1>3. /\ plan[s].version = task.version /\ plan[s].at <= now /\ PlanFollows(plan[s])
      /\ plan[s] # NoPlan /\ plan[s].at \in Nat
  BY <1>0 DEF BeginTick, Due, ScheduleFollowed, TypeOK
<1>4. plan[s].at \in task.config.cron /\ plan[s].at > Created /\ plan[s].at \in Nat
  BY <1>0, <1>3 DEF PlanFollows
<1>5. i \in task.config.cron /\ i <= now /\ \A j \in task.config.cron : j <= now => j <= i
  <2> DEFINE later == {x \in LatestBefore(task.config.cron, now + 1) :
                         x > Created /\ x > plan[s].at}
  <2>1. CASE plan[s].at < now /\ later # {}
    <3>1. i \in LatestBefore(task.config.cron, now + 1)
      BY <2>1 DEF Advanced
    <3> QED
      BY <1>0, <3>1 DEF LatestBefore
  <2>2. CASE ~(plan[s].at < now /\ later # {})
    <3>1. i = plan[s].at
      BY <2>2 DEF Advanced
    <3>2. ASSUME NEW j \in task.config.cron, j <= now, j > i PROVE FALSE
      <4>1. PICK x \in LatestBefore(task.config.cron, now + 1) : j <= x
        BY <1>0, <3>2, LatestBeforeExists
      <4>2. x \in Nat
        BY <1>0 DEF LatestBefore
      <4>3. x > Created /\ x > plan[s].at /\ plan[s].at < now
        BY <1>0, <1>4, <3>1, <3>2, <4>1, <4>2
      <4> QED
        BY <2>2, <4>3
    <3> QED
      BY <1>0, <1>3, <1>4, <3>1, <3>2
  <2> QED
    BY <2>1, <2>2
<1>6. \A r \in Run : Scheduled(r)' => runs'[r].for <= now
  BY DEF Record, Spans, Scheduled, Live
<1> QED
  BY <1>0, <1>2, <1>5, <1>6 DEF AtLatest

\* A step that writes one row, but neither its span nor whose it is.
LEMMA OneRowQuiet ==
    ASSUME TypeOK, NEW r \in Run, NEW row, runs' = [runs EXCEPT ![r] = row], Live(r),
           row.kind = runs[r].kind, row.version = runs[r].version, row.config = runs[r].config,
           row.first = runs[r].first, row.for = runs[r].for, row.grouped = runs[r].grouped,
           row.status \notin {"unused", "deleted"},
           row.status # "skipped" => runs[r].status # "skipped"
    PROVE  \A q \in Run : SpanKept(q)
<1>1. runs'[r] = row /\ \A q \in Run : q # r => runs'[q] = runs[q]
  BY DEF TypeOK
<1>2. SpanKept(r)
  BY <1>1 DEF SpanKept, Scheduled, Live
<1>3. ASSUME NEW q \in Run, q # r PROVE SpanKept(q)
  BY <1>1, <1>3 DEF SpanKept, Scheduled, Live
<1> QED
  BY <1>2, <1>3

\* Handlers, executions and reopenings, except for merging.
LEMMA RunStepQuiet ==
    ASSUME TypeOK, NEW r \in Run, RunStep(r), ~Coalesce(r) PROVE Quiet
<1>1. task' = task /\ now' = now /\ tick' = tick
  BY DEF RunStep, ConsumerStep, DispatchAgent, BuildFails, CommandFails, LinkCommand,
         FinishCommand, Finish, Update, ExecutionEnds, Reopen
<1>2. \E status, exec :
        /\ runs' = [runs EXCEPT ![r] = [runs[r] EXCEPT !.status = status, !.exec = exec]]
        /\ status \notin {"unused", "deleted"} /\ Live(r)
        /\ status # "skipped" => runs[r].status # "skipped"
  <2>1. runs[r] \in Row
    BY DEF TypeOK
  <2>2. CASE DispatchAgent(r) \/ BuildFails(r) \/ CommandFails(r) \/ FinishCommand(r)
    <3>1. runs[r].status = "pending"
      BY <2>2 DEF DispatchAgent, BuildFails, CommandFails, FinishCommand, Pending
    <3>2. \E status \in {"dispatched", "skipped", "failed"} : \E exec : Finish(r, status, exec)
      BY <2>2 DEF DispatchAgent, BuildFails, CommandFails, FinishCommand
    <3> QED
      BY <3>1, <3>2 DEF Finish, Update, Live
  <2>3. CASE LinkCommand(r) \/ ExecutionEnds(r) \/ Reopen(r)
    <3>1. Live(r)
      BY <2>3 DEF LinkCommand, ExecutionEnds, Reopen, Pending, Live
    <3>2. \E exec : runs' = [runs EXCEPT ![r] = [runs[r] EXCEPT !.exec = exec]]
      BY <2>3 DEF LinkCommand, ExecutionEnds, Reopen, Update, TypeOK
    <3>3. PICK exec : runs' = [runs EXCEPT ![r] = [runs[r] EXCEPT !.exec = exec]]
      BY <3>2
    <3>4. [runs[r] EXCEPT !.exec = exec] = [runs[r] EXCEPT !.status = runs[r].status, !.exec = exec]
      BY <2>1 DEF Row
    <3> QED
      BY <3>1, <3>3, <3>4 DEF Live
  <2> QED
    BY <2>2, <2>3 DEF RunStep, ConsumerStep
<1>3. \A q \in Run : SpanKept(q)
  <2>1. PICK status, exec :
          /\ runs' = [runs EXCEPT ![r] = [runs[r] EXCEPT !.status = status, !.exec = exec]]
          /\ status \notin {"unused", "deleted"} /\ Live(r)
          /\ status # "skipped" => runs[r].status # "skipped"
    BY <1>2
  <2>2. runs[r] \in Row
    BY DEF TypeOK
  <2>3. PICK row : row = [runs[r] EXCEPT !.status = status, !.exec = exec]
    OBVIOUS
  <2>4. /\ row.kind = runs[r].kind /\ row.version = runs[r].version /\ row.config = runs[r].config
        /\ row.first = runs[r].first /\ row.for = runs[r].for /\ row.grouped = runs[r].grouped
        /\ row.status = status
    BY <2>2, <2>3 DEF Row
  <2>5. runs' = [runs EXCEPT ![r] = row]
    BY <2>1, <2>3
  <2> QED
    BY <2>1, <2>4, <2>5, OneRowQuiet
<1> QED
  BY <1>1, <1>3 DEF Quiet, Resumed

\* A run by hand, and the rest of the world.
LEMMA WorldStepQuiet ==
    ASSUME TypeOK,
           \/ RunByHand
           \/ \E c \in Config : Edit(c)
           \/ \E b \in BOOLEAN : SetEnabled(b)
           \/ Delete \/ RouteFails \/ RouteRecovers \/ Pass
           \/ UNCHANGED vars
    PROVE  Quiet
<1>1. CASE RunByHand
  <2>1. /\ task' = task /\ now' = now /\ tick' = tick /\ made + 1 \in Run /\ made \in Nat
        /\ runs' = [runs EXCEPT ![made + 1] = NewRow("manual", now, FALSE, FALSE)]
    BY <1>1, CronAssumption DEF RunByHand, TypeOK, Run
  <2>2. runs[made + 1].status = "unused" /\ runs'[made + 1].kind = "manual"
    BY <2>1 DEF TypeOK, NewRow
  <2>3. \A q \in Run : q # made + 1 => runs'[q] = runs[q]
    BY <2>1
  <2>4. \A q \in Run : SpanKept(q)
    BY <2>2, <2>3 DEF SpanKept, Scheduled, Live
  <2> QED
    BY <2>1, <2>4 DEF Quiet, Resumed
<1>2. CASE \/ \E c \in Config : Edit(c)
           \/ \E b \in BOOLEAN : SetEnabled(b)
           \/ Delete
  <2>1. \A t : Edited(t) => runs' = runs /\ now' = now /\ tick' = tick
    BY DEF Edited
  <2>2. ASSUME NEW t \in [version : Version, config : Config, enabled : BOOLEAN, deleted : BOOLEAN],
               Edited(t)
        PROVE  task'.version = task.version + 1
    BY <2>2 DEF Edited
  <2>3. task \in [version : Version, config : Config, enabled : BOOLEAN, deleted : BOOLEAN]
    BY DEF TypeOK
  <2>4. \E t \in [version : Version, config : Config, enabled : BOOLEAN, deleted : BOOLEAN] : Edited(t)
    BY <1>2, <2>3 DEF Edit, SetEnabled, Delete
  <2> QED
    BY <2>1, <2>2, <2>4 DEF Quiet, SpanKept, Resumed, Scheduled, Live
<1>3. CASE RouteFails \/ RouteRecovers \/ Pass \/ UNCHANGED vars
  <2>1. runs' = runs /\ task' = task /\ tick' = tick /\ (now' = now \/ now' = now + 1)
    BY <1>3 DEF RouteFails, RouteRecovers, Pass, vars
  <2> QED
    BY <2>1 DEF Quiet, SpanKept, Resumed, Scheduled, Live
<1> QED
  BY <1>1, <1>2, <1>3

\* A scheduler that does not write the record.
LEMMA SchedulerStepQuiet ==
    ASSUME TypeOK, OneScheduler, NEW s \in Scheduler, SchedulerStep(s),
           ~CreateGrouped(s), ~CreateInserted(s)
    PROVE  Quiet /\ runs' = runs
<1>1. runs' = runs /\ task' = task /\ now' = now
  BY DEF SchedulerStep, Start, Reload, TickStep, DropPlan, PlanEdited, BeginTick, KeepCatchUp,
         GoOn, Decide, Classify, Create, CreateStale, CreateRetry, CreateDuplicate, EndTick,
         Contention, Crash
<1>2. \A q \in Run : SpanKept(q)
  BY <1>1 DEF SpanKept, Scheduled, Live
<1>3. Resumed(s) \/ BeginTick(s)
  <2>1. tick \in [Scheduler -> Ticks] /\ ~Ticking(Idle) /\ ~Ticking(Down)
    BY DEF TypeOK, Ticks, Ticking, Idle, Down
  <2>2. CASE tick' = tick \/ tick' = [tick EXCEPT ![s] = Idle] \/ tick' = [tick EXCEPT ![s] = Down]
    BY <2>1, <2>2 DEF Resumed
  <2>3. CASE \E phase : Ticking(tick[s]) /\ tick' = [tick EXCEPT ![s].phase = phase]
    <3>1. tick[s] \in Reading \cup Decision
      BY <2>1, <2>3 DEF Ticks
    <3>2. PICK phase : Ticking(tick[s]) /\ tick' = [tick EXCEPT ![s].phase = phase]
      BY <2>3
    <3>3. tick'[s] = [tick[s] EXCEPT !.phase = phase]
      BY <2>1, <3>2
    <3> QED
      BY <3>1, <3>2, <3>3 DEF Reading, Decision, Resumed
  <2>4. CASE Decide(s)
    <3>1. Ticking(tick[s]) /\ \E phase, c, skip, active : Decided(s, phase, c, skip, active)
      BY <2>4 DEF Decide, Ticking
    <3> QED
      BY <2>1, <3>1 DEF Decided, Resumed
  <2>5. CASE Start(s) \/ Reload(s) \/ DropPlan(s) \/ PlanEdited(s) \/ KeepCatchUp(s)
             \/ CreateStale(s) \/ CreateDuplicate(s) \/ Contention(s) \/ Crash(s)
    BY <2>2, <2>5 DEF Start, Reload, DropPlan, PlanEdited, KeepCatchUp, CreateStale,
                      CreateDuplicate, EndTick, Contention, Crash
  <2>6. CASE GoOn(s) \/ CreateRetry(s)
    BY <2>3, <2>6 DEF GoOn, CreateRetry, Creating, Ticking
  <2>7. CASE Classify(s)
    <3>1. CASE route = "paused"
      BY <2>2, <2>7, <3>1 DEF Classify
    <3>2. CASE route # "paused"
      <4>1. Ticking(tick[s]) /\ tick' = [tick EXCEPT ![s].phase = "creating"]
        BY <2>7, <3>2 DEF Classify, Ticking
      <4> QED
        BY <2>3, <4>1
    <3> QED
      BY <3>1, <3>2
  <2> QED
    BY <2>4, <2>5, <2>6, <2>7 DEF SchedulerStep, TickStep, Create
<1> QED
  BY <1>1, <1>2, <1>3 DEF Quiet, OneScheduler

-----------------------------------------------------------------------------
(* Steps that write the record.                                            *)

\* What a tick about to write a row knows.
LEMMA WritingTick ==
    ASSUME IInv, NEW s \in Scheduler, AtLatest(tick[s]), Creatable(s)
    PROVE  /\ tick[s].version = task.version /\ tick[s].at \in task.config.cron
           /\ tick[s].at \in Nat /\ tick[s].at <= now
           /\ \A j \in task.config.cron : j <= tick[s].now => j <= tick[s].at
           /\ \A r \in Run : Scheduled(r) => runs[r].for <= tick[s].now
           /\ tick[s].now \in Nat
<1>1. tick[s].phase = "creating" /\ tick[s].version = task.version
  BY DEF Creatable, Creating, Current
<1>2. TickFollows(tick[s]) /\ task.version <= task.version
  BY RecordTyped DEF IInv, ScheduleFollowed
<1>3. tick[s].config = task.config /\ tick[s].at \in task.config.cron /\ tick[s].at <= now
  BY <1>1, <1>2 DEF TickFollows
<1>4. tick[s].at \in Nat /\ tick[s].now \in Nat
  BY <1>1, TickCases DEF IInv
<1> QED
  BY <1>1, <1>3, <1>4 DEF AtLatest, Ticking

\* The latest row moves to a later instant or, of an older version, anywhere:
\* no row follows it.
LEMMA GroupedRecord ==
    ASSUME IInv, Record, NEW s \in Scheduler, AtLatest(tick[s]), CreateGrouped(s)
    PROVE  Record'
<1>0. TypeOK
  BY DEF IInv
<1>1. Creatable(s)
  BY DEF CreateGrouped
<1>2. /\ tick[s].version = task.version /\ tick[s].at \in task.config.cron
      /\ tick[s].at \in Nat /\ tick[s].at <= now
  BY <1>1, WritingTick
<1>3. PICK r \in Run :
        /\ Groupable(s, r)
        /\ runs' = [runs EXCEPT ![r].for = tick[s].at, ![r].grouped = TRUE]
  BY DEF CreateGrouped
<1>4. task' = task /\ now' = now
  BY DEF CreateGrouped, EndTick
<1>5. /\ runs'[r].kind = runs[r].kind /\ runs'[r].status = runs[r].status
      /\ runs'[r].version = runs[r].version /\ runs'[r].config = runs[r].config
      /\ runs'[r].first = runs[r].first
      /\ runs'[r].for = tick[s].at /\ runs'[r].grouped = TRUE
      /\ \A q \in Run : q # r => runs'[q] = runs[q]
  <2>1. runs \in [Run -> Row] /\ runs[r] \in Row
    BY <1>0 DEF TypeOK
  <2> QED
    BY <1>3, <2>1 DEF Row
<1>6. Scheduled(r) /\ runs[r].status = "skipped" /\ \A q \in Run : Scheduled(q) => q <= r
  BY <1>3 DEF Groupable, IsLatest, Scheduled
<1>7. \A q \in Run : Scheduled(q)' <=> Scheduled(q)
  BY <1>5 DEF Scheduled, Live
<1>8. /\ \A q \in Run : runs'[q].version = runs[q].version /\ runs'[q].config = runs[q].config
                     /\ runs'[q].first = runs[q].first /\ runs'[q].status = runs[q].status
      /\ \A q \in Run : q # r => runs'[q].for = runs[q].for /\ runs'[q].grouped = runs[q].grouped
  BY <1>5
<1>9. Snapshots'
  BY <1>4, <1>7, <1>8 DEF Record, Snapshots
<1>10. Spans'
  <2> SUFFICES ASSUME NEW q \in Run, Scheduled(q)'
               PROVE  /\ runs'[q].for <= now'
                      /\ ~runs'[q].grouped => runs'[q].first = runs'[q].for
                      /\ runs'[q].status # "skipped" => runs'[q].first <= runs'[q].for
                      /\ runs'[q].version = task'.version => runs'[q].for \in runs'[q].config.cron
    BY DEF Spans
  <2>1. CASE q = r
    <3>1. runs[r].version = task.version => runs[r].config = task.config
      BY <1>6 DEF Record, Snapshots
    <3> QED
      BY <1>2, <1>4, <1>5, <1>6, <2>1, <3>1
  <2>2. CASE q # r
    BY <1>4, <1>7, <1>8, <2>2 DEF Record, Spans
  <2> QED
    BY <2>1, <2>2
<1>11. Ordered'
  <2> SUFFICES ASSUME NEW p \in Run, NEW q \in Run, Scheduled(p)', Scheduled(q)',
                      runs'[p].version = runs'[q].version, p < q,
                      NEW i \in runs'[q].config.cron, runs'[p].first <= i, i <= runs'[p].for
               PROVE  i < runs'[q].first
    BY DEF Ordered
  <2>1. p # r
    BY <1>0, <1>6, <1>7, RecordTyped
  <2> QED
    BY <1>7, <1>8, <2>1 DEF Record, Ordered
<1> QED
  BY <1>9, <1>10, <1>11 DEF Record

\* A new row is of an instant later than all that its version has on record.
LEMMA InsertedRecord ==
    ASSUME IInv, Record, NEW s \in Scheduler, AtLatest(tick[s]), CreateInserted(s)
    PROVE  Record'
<1>0. TypeOK
  BY DEF IInv
<1>1. Creatable(s)
  BY DEF CreateInserted
<1>2. /\ tick[s].version = task.version /\ tick[s].at \in task.config.cron
      /\ tick[s].at \in Nat /\ tick[s].at <= now
      /\ \A j \in task.config.cron : j <= tick[s].now => j <= tick[s].at
      /\ \A r \in Run : Scheduled(r) => runs[r].for <= tick[s].now
      /\ tick[s].now \in Nat
  BY <1>1, WritingTick
<1>3. task' = task /\ now' = now /\ made + 1 \in Run /\ made \in Nat
  BY <1>0, CronAssumption DEF CreateInserted, EndTick, TypeOK, Run
<1>4. PICK n \in Run : n = made + 1
  BY <1>3
<1>5. /\ runs'[n].kind = "scheduled" /\ runs'[n].version = task.version
      /\ runs'[n].config = task.config /\ runs'[n].first = tick[s].at
      /\ runs'[n].for = tick[s].at /\ runs'[n].grouped = FALSE
      /\ \A q \in Run : q # n => runs'[q] = runs[q]
  BY <1>0, <1>4 DEF CreateInserted, NewRow, TypeOK
<1>6. runs[n].status = "unused" /\ \A q \in Run : Scheduled(q) => q < n
  BY <1>0, <1>3, <1>4, RecordTyped DEF TypeOK, Scheduled, Live
<1>7. \A q \in Run : q # n /\ Scheduled(q)' => Scheduled(q) /\ q < n
  BY <1>5, <1>6 DEF Scheduled, Live
<1>8. Snapshots'
  <2> SUFFICES ASSUME NEW r \in Run, Scheduled(r)'
               PROVE  /\ runs'[r].version <= task'.version
                      /\ runs'[r].version = task'.version => runs'[r].config = task'.config
                      /\ \A p \in Run : Scheduled(p)' /\ runs'[p].version = runs'[r].version =>
                                          runs'[p].config = runs'[r].config
    BY DEF Snapshots
  <2>1. ASSUME NEW q \in Run, Scheduled(q)'
        PROVE  runs'[q].version <= task'.version
               /\ (runs'[q].version = task'.version => runs'[q].config = task'.config)
    <3>1. CASE q = n
      BY <1>0, <1>3, <1>5, <3>1, RecordTyped
    <3>2. CASE q # n
      BY <1>3, <1>5, <1>7, <2>1, <3>2 DEF Record, Snapshots
    <3> QED
      BY <3>1, <3>2
  <2>2. ASSUME NEW p \in Run, Scheduled(p)', runs'[p].version = runs'[r].version
        PROVE  runs'[p].config = runs'[r].config
    <3>1. CASE r = n \/ p = n
      BY <1>3, <1>5, <2>1, <2>2, <3>1
    <3>2. CASE r # n /\ p # n
      BY <1>5, <1>7, <2>2, <3>2 DEF Record, Snapshots
    <3> QED
      BY <3>1, <3>2
  <2> QED
    BY <2>1, <2>2
<1>9. Spans'
  <2> SUFFICES ASSUME NEW q \in Run, Scheduled(q)'
               PROVE  /\ runs'[q].for <= now'
                      /\ ~runs'[q].grouped => runs'[q].first = runs'[q].for
                      /\ runs'[q].status # "skipped" => runs'[q].first <= runs'[q].for
                      /\ runs'[q].version = task'.version => runs'[q].for \in runs'[q].config.cron
    BY DEF Spans
  <2>1. CASE q = n
    BY <1>2, <1>3, <1>5, <2>1
  <2>2. CASE q # n
    BY <1>3, <1>5, <1>7, <2>2 DEF Record, Spans
  <2> QED
    BY <2>1, <2>2
<1>10. Ordered'
  <2> SUFFICES ASSUME NEW p \in Run, NEW q \in Run, Scheduled(p)', Scheduled(q)',
                      runs'[p].version = runs'[q].version, p < q,
                      NEW i \in runs'[q].config.cron, runs'[p].first <= i, i <= runs'[p].for
               PROVE  i < runs'[q].first
    BY DEF Ordered
  <2>1. p # n /\ Scheduled(p) /\ p < n
    BY <1>0, <1>3, <1>4, <1>7, RecordTyped
  <2>2. CASE q = n
    <3>1. i \in task.config.cron /\ i \in Nat /\ runs[p].version = tick[s].version
          /\ runs[p].first <= i /\ i <= runs[p].for /\ runs[p].for <= tick[s].now
          /\ runs[p].for \in Nat /\ runs[p].first \in Nat
      BY <1>0, <1>2, <1>5, <2>1, <2>2, RecordTyped
    <3>2. i <= tick[s].at
      BY <1>2, <3>1
    <3>3. i # tick[s].at
      <4>1. ~Recorded(tick[s].at, tick[s].version)
        BY DEF CreateInserted
      <4>2. ~runs[p].grouped => runs[p].first = runs[p].for
        BY <2>1 DEF Record, Spans
      <4> QED
        BY <2>1, <3>1, <4>1, <4>2 DEF Recorded
    <3> QED
      BY <1>2, <1>5, <2>2, <3>1, <3>2, <3>3
  <2>3. CASE q # n
    BY <1>5, <1>7, <2>1, <2>3 DEF Record, Ordered
  <2> QED
    BY <2>2, <2>3
<1> QED
  BY <1>8, <1>9, <1>10 DEF Record

\* Two empty ticks side by side become one: the rows between them are of other
\* versions, or skips that were moved before their first instant.
LEMMA CoalescedOrder ==
    ASSUME IInv, Record, NEW p \in Run, NEW r \in Run, IsPrior(p, r), EmptyCommand(p),
           EmptyCommand(r), runs[p].version = runs[r].version
    PROVE  /\ p < r /\ runs[p].first <= runs[p].for /\ runs[p].for < runs[r].first
           /\ runs[r].first <= runs[r].for
           /\ runs[p].for \in runs[r].config.cron /\ runs[r].for \in runs[r].config.cron
<1>0. TypeOK /\ RunsItsSchedule
  BY DEF IInv, ScheduleFollowed
<1>1. /\ Scheduled(p) /\ Scheduled(r) /\ runs[p].status = "dispatched"
      /\ runs[r].status = "dispatched"
  BY DEF EmptyCommand
<1>2. /\ runs[p].first <= runs[p].for /\ runs[r].first <= runs[r].for
      /\ runs[p].config = runs[r].config
  BY <1>1 DEF Record, Spans, Snapshots
<1>3. runs[p].for \in runs[r].config.cron /\ runs[r].for \in runs[r].config.cron
  BY <1>0, <1>1, <1>2 DEF RunsItsSchedule
<1>4. Precedes(p, r)
  BY DEF IsPrior
<1>5. ~(r < p)
  <2>1. SUFFICES ASSUME r < p PROVE FALSE
    OBVIOUS
  <2>2. runs[r].for < runs[p].first
    BY <1>0, <1>1, <1>2, <1>3, <2>1, RecordTyped DEF Record, Ordered
  <2> QED
    BY <1>0, <1>2, <1>4, <2>1, <2>2, RecordTyped DEF Precedes
<1>6. p # r
  BY <1>0, <1>4, RecordTyped DEF Precedes
<1>7. p < r
  BY <1>0, <1>5, <1>6, RecordTyped
<1>8. runs[p].for < runs[r].first
  BY <1>0, <1>1, <1>2, <1>3, <1>7, RecordTyped DEF Record, Ordered
<1> QED
  BY <1>2, <1>3, <1>7, <1>8

LEMMA CoalescedRecord ==
    ASSUME IInv, Record, NEW r \in Run, Coalesce(r)
    PROVE  /\ Record'
           /\ \A q \in Run : Scheduled(q)' => Scheduled(q) /\ runs'[q].for = runs[q].for
<1>0. TypeOK
  BY DEF IInv
<1>1. PICK p \in Run :
        /\ IsPrior(p, r) /\ EmptyCommand(p) /\ EmptyCommand(r)
        /\ runs[p].version = runs[r].version
        /\ runs' = [runs EXCEPT ![r].first = runs[p].first, ![r].grouped = TRUE,
                                ![p].status = "deleted"]
  BY DEF Coalesce
<1>2. /\ p < r /\ runs[p].first <= runs[p].for /\ runs[p].for < runs[r].first
      /\ runs[r].first <= runs[r].for
      /\ runs[p].for \in runs[r].config.cron /\ runs[r].for \in runs[r].config.cron
  BY <1>1, CoalescedOrder
<1>3. task' = task /\ now' = now /\ p # r /\ p \in Nat /\ r \in Nat
  BY <1>0, <1>2, RecordTyped DEF Coalesce
<1>4. /\ runs'[r].kind = runs[r].kind /\ runs'[r].status = "dispatched"
      /\ runs'[r].version = runs[r].version /\ runs'[r].config = runs[r].config
      /\ runs'[r].for = runs[r].for
      /\ runs'[r].first = runs[p].first /\ runs'[r].grouped = TRUE
      /\ runs'[p].status = "deleted"
      /\ \A q \in Run : q # r /\ q # p => runs'[q] = runs[q]
  <2>1. runs \in [Run -> Row] /\ runs[r] \in Row /\ runs[p] \in Row /\ runs[r].status = "dispatched"
    BY <1>0, <1>1 DEF TypeOK, EmptyCommand
  <2> QED
    BY <1>1, <1>3, <2>1 DEF Row
<1>5. Scheduled(p) /\ Scheduled(r)
  BY <1>1 DEF EmptyCommand
<1>6. \A q \in Run : Scheduled(q)' => Scheduled(q) /\ q # p
  BY <1>4, <1>5 DEF Scheduled, Live
<1>7. \A q \in Run : q # p =>
        /\ runs'[q].version = runs[q].version /\ runs'[q].config = runs[q].config
        /\ runs'[q].for = runs[q].for
  BY <1>4
<1>8. Snapshots'
  BY <1>3, <1>6, <1>7 DEF Record, Snapshots
<1>9. Spans'
  <2> SUFFICES ASSUME NEW q \in Run, Scheduled(q)'
               PROVE  /\ runs'[q].for <= now'
                      /\ ~runs'[q].grouped => runs'[q].first = runs'[q].for
                      /\ runs'[q].status # "skipped" => runs'[q].first <= runs'[q].for
                      /\ runs'[q].version = task'.version => runs'[q].for \in runs'[q].config.cron
    BY DEF Spans
  <2>1. CASE q = r
    <3>1. runs[p].first <= runs[r].for
      BY <1>0, <1>2, RecordTyped
    <3>2. runs[r].for <= now
      BY <1>5 DEF Record, Spans
    <3> QED
      BY <1>2, <1>3, <1>4, <2>1, <3>1, <3>2
  <2>2. CASE q # r
    BY <1>3, <1>4, <1>6, <2>2 DEF Record, Spans
  <2> QED
    BY <2>1, <2>2
<1>10. Ordered'
  <2> SUFFICES ASSUME NEW a \in Run, NEW b \in Run, Scheduled(a)', Scheduled(b)',
                      runs'[a].version = runs'[b].version, a < b,
                      NEW i \in runs'[b].config.cron, runs'[a].first <= i, i <= runs'[a].for
               PROVE  i < runs'[b].first
    BY DEF Ordered
  <2>1. /\ a # p /\ b # p /\ Scheduled(a) /\ Scheduled(b)
        /\ runs[a].version = runs[b].version /\ i \in runs[b].config.cron /\ i \in Nat
        /\ runs[a].for \in Nat /\ runs[a].first \in Nat /\ runs[b].first \in Nat /\ runs[r].for \in Nat
        /\ runs[p].first \in Nat /\ runs[p].for \in Nat /\ runs[r].first \in Nat
        /\ a \in Nat /\ b \in Nat /\ i <= runs[a].for
    BY <1>0, <1>6, <1>7, RecordTyped
  <2>2. CASE a = r
    <3>1. runs[b].config = runs[r].config
      BY <2>1, <2>2 DEF Record, Snapshots
    <3>2. runs[r].for < runs[b].first
      BY <1>2, <2>1, <2>2, <3>1 DEF Record, Ordered
    <3> QED
      BY <1>3, <1>4, <2>1, <2>2, <3>2
  <2>3. CASE b = r
    <3>1. /\ runs'[a].first = runs[a].first /\ runs'[b].first = runs[p].first
          /\ runs[a].version = runs[p].version /\ runs[p].config = runs[r].config
          /\ runs[a].config = runs[r].config
      <4>1. runs[a].version = runs[p].version
        BY <1>1, <2>1, <2>3
      <4>2. runs[p].config = runs[r].config /\ runs[a].config = runs[r].config
        BY <1>1, <1>5, <2>1, <2>3, <4>1 DEF Record, Snapshots
      <4> QED
        BY <1>3, <1>4, <2>1, <2>3, <4>1, <4>2
    <3>2. runs[a].first <= i
      BY <3>1
    <3>3. CASE a < p
      BY <1>5, <2>1, <2>3, <3>1, <3>2, <3>3 DEF Record, Ordered
    <3>4. CASE p < a
      <4>1. runs[p].for < runs[a].first
        BY <1>2, <1>5, <2>1, <3>1, <3>4 DEF Record, Ordered
      <4>2. runs[p].for < runs[a].for
        BY <2>1, <3>2, <4>1
      <4>3. ~Precedes(a, r)
        <5>1. Precedes(a, r) => a = p \/ Precedes(a, p)
          BY <1>1, <2>1 DEF IsPrior, Scheduled
        <5> QED
          BY <1>1, <2>1, <4>2, <5>1 DEF Precedes
      <4>4. runs[r].for < runs[a].for
        BY <2>1, <2>3, <4>3 DEF Precedes
      <4>5. i < runs[r].first
        BY <2>1, <2>3, <3>2 DEF Record, Ordered
      <4>6. runs[a].first <= runs[r].for
        BY <1>2, <2>1, <3>2, <4>5
      <4>7. runs[r].for < runs[r].first
        BY <1>2, <1>5, <2>1, <2>3, <4>4, <4>6 DEF Record, Ordered
      <4> QED
        BY <1>2, <2>1, <4>7
    <3> QED
      BY <1>3, <2>1, <3>3, <3>4
  <2>4. CASE a # r /\ b # r
    BY <1>4, <2>1, <2>4 DEF Record, Ordered
  <2> QED
    BY <2>2, <2>3, <2>4
<1> QED
  BY <1>6, <1>7, <1>8, <1>9, <1>10 DEF Record
-----------------------------------------------------------------------------
(* RInv is inductive, given IInv.                                          *)

LEMMA InitRecord == Init => RInv
BY DEF Init, RInv, Record, Snapshots, Spans, Ordered, AtLatest, Ticking, Scheduled, Live, Down

\* The record and the one tick after a step that leaves the spans alone.
LEMMA QuietKeeps ==
    ASSUME IInv, RInv, Quiet, \A s \in Scheduler : BeginTick(s) => runs' = runs
    PROVE  RInv'
<1>1. TypeOK /\ Record
  BY DEF IInv, RInv
<1>2. Record'
  BY <1>1, RecordStays
<1>3. \A r \in Run : Scheduled(r)' => Scheduled(r) /\ runs'[r].for = runs[r].for
  BY DEF Quiet, SpanKept
<1>4. ASSUME NEW s \in Scheduler PROVE AtLatest(tick[s])'
  <2>1. CASE Resumed(s)
    BY <1>1, <1>3, <2>1, AtLatestStays DEF RInv
  <2>2. CASE BeginTick(s)
    BY <1>1, <2>2, BeginAtLatest
  <2> QED
    BY <2>1, <2>2 DEF Quiet
<1> QED
  BY <1>2, <1>4 DEF RInv

\* The tick that writes is the only one, and it is over.
LEMMA WritingKeeps ==
    ASSUME OneScheduler, IInv, RInv, NEW s \in Scheduler, CreateGrouped(s) \/ CreateInserted(s)
    PROVE  RInv'
<1>1. TypeOK /\ Record /\ AtLatest(tick[s])
  BY DEF IInv, RInv
<1>2. Record'
  BY <1>1, GroupedRecord, InsertedRecord
<1>3. tick'[s] = Idle
  BY <1>1 DEF CreateGrouped, CreateInserted, EndTick, TypeOK
<1>4. \A t \in Scheduler : AtLatest(tick[t])'
  BY <1>3 DEF OneScheduler, AtLatest, Ticking, Idle
<1> QED
  BY <1>2, <1>4 DEF RInv

LEMMA CoalesceKeepsRecord ==
    ASSUME IInv, RInv, NEW r \in Run, Coalesce(r)
    PROVE  RInv'
<1>1. TypeOK /\ Record
  BY DEF IInv, RInv
<1>2. /\ Record'
      /\ \A q \in Run : Scheduled(q)' => Scheduled(q) /\ runs'[q].for = runs[q].for
  BY <1>1, CoalescedRecord
<1>3. ASSUME NEW s \in Scheduler PROVE AtLatest(tick[s])'
  <2>1. Resumed(s)
    BY DEF Coalesce, Resumed
  <2> QED
    BY <1>1, <1>2, <2>1, AtLatestStays DEF RInv
<1> QED
  BY <1>2, <1>3 DEF RInv

\* What a step is, as far as the record is concerned.
LEMMA StepsOnRecord ==
    ASSUME OneScheduler, TypeOK, [Next]_vars
    PROVE  \/ Quiet /\ \A s \in Scheduler : BeginTick(s) => runs' = runs
           \/ \E s \in Scheduler : CreateGrouped(s) \/ CreateInserted(s)
           \/ \E r \in Run : Coalesce(r)
<1>1. \A s \in Scheduler : BeginTick(s) => runs' = runs
  BY DEF BeginTick
<1>2. CASE \E s \in Scheduler : SchedulerStep(s)
  BY <1>1, <1>2, SchedulerStepQuiet
<1>3. CASE \E r \in Run : RunStep(r)
  BY <1>1, <1>3, RunStepQuiet
<1>4. CASE \/ RunByHand
           \/ \E c \in Config : Edit(c)
           \/ \E b \in BOOLEAN : SetEnabled(b)
           \/ Delete \/ RouteFails \/ RouteRecovers \/ Pass
           \/ UNCHANGED vars
  BY <1>1, <1>4, WorldStepQuiet
<1> QED
  BY <1>2, <1>3, <1>4 DEF Next

LEMMA RecordInvariant ==
    ASSUME OneScheduler PROVE Spec => [](IInv /\ RInv)
<1>1. IInv /\ RInv /\ [Next]_vars => RInv'
  <2> SUFFICES ASSUME IInv, RInv, [Next]_vars PROVE RInv'
    OBVIOUS
  <2>1. TypeOK
    BY DEF IInv
  <2> QED
    BY <2>1, StepsOnRecord, QuietKeeps, WritingKeeps, CoalesceKeepsRecord
<1> QED
  BY <1>1, InitRecord, Invariant, PTL DEF Spec

-----------------------------------------------------------------------------
(* What follows.                                                           *)

\* The trigger's promise: under one scheduler an instant of a version of the
\* task has one row, over restarts, retries, reloads, edits and merged rows
\* (schedule_occurrences' unique key speaks only of rows that never moved).
THEOREM OneRowPerInstant ==
    ASSUME OneScheduler PROVE Spec => []OneRunPerInstant
<1>1. TypeOK /\ Record => OneRunPerInstant
  <2> SUFFICES ASSUME TypeOK, Record,
                      NEW p \in Run, NEW r \in Run, Scheduled(p), Scheduled(r),
                      runs[p].version = runs[r].version,
                      NEW i \in runs[r].config.cron,
                      runs[p].first <= i, i <= runs[p].for,
                      runs[r].first <= i, i <= runs[r].for
               PROVE  p = r
    BY DEF OneRunPerInstant
  <2>1. i \in Nat /\ p \in Nat /\ r \in Nat
        /\ runs[p].first \in Nat /\ runs[r].first \in Nat
    BY RecordTyped
  <2>2. i \in runs[p].config.cron
    BY DEF Record, Snapshots
  <2>3. ~(p < r)
    BY <2>1 DEF Record, Ordered
  <2>4. ~(r < p)
    BY <2>1, <2>2 DEF Record, Ordered
  <2> QED
    BY <2>1, <2>3, <2>4
<1>2. IInv /\ RInv => OneRunPerInstant
  BY <1>1 DEF IInv, RInv
<1> QED
  BY <1>2, RecordInvariant, PTL

\* What each step that writes the record does to what is covered.
LEMMA QuietCovers ==
    ASSUME Quiet, NEW i, NEW v, NEW r \in Run, Covers(r, i, v)
    PROVE  Covers(r, i, v)'
BY DEF Quiet, SpanKept, Covers

LEMMA InsertedCovers ==
    ASSUME IInv, NEW s \in Scheduler, CreateInserted(s), NEW i, NEW v,
           NEW r \in Run, Covers(r, i, v)
    PROVE  Covers(r, i, v)'
<1>0. TypeOK
  BY DEF IInv
<1>1. r # made + 1
  BY <1>0, RecordTyped DEF TypeOK, Covers, Scheduled, Live
<1>2. runs'[r] = runs[r]
  BY <1>0, <1>1 DEF CreateInserted, TypeOK
<1> QED
  BY <1>2 DEF Covers, Scheduled, Live

\* Of the current version the merged skip only grows; of an older one it may
\* move anywhere.
LEMMA GroupedCovers ==
    ASSUME IInv, Record, NEW s \in Scheduler, AtLatest(tick[s]), CreateGrouped(s),
           NEW i \in Nat, NEW v, NEW r \in Run, Covers(r, i, v),
           v = task.version \/ \A q \in Run : Scheduled(q) => runs'[q].for = runs[q].for
    PROVE  Covers(r, i, v)'
<1>0. TypeOK /\ Creatable(s)
  BY DEF IInv, CreateGrouped
<1>1. PICK q \in Run :
        /\ Groupable(s, q)
        /\ runs' = [runs EXCEPT ![q].for = tick[s].at, ![q].grouped = TRUE]
  BY DEF CreateGrouped
<1>2. CASE r # q
  BY <1>0, <1>1, <1>2 DEF Covers, Scheduled, Live, TypeOK
<1>3. CASE r = q
  <2>1. /\ runs'[r].kind = runs[r].kind /\ runs'[r].status = runs[r].status
        /\ runs'[r].version = runs[r].version /\ runs'[r].first = runs[r].first
        /\ runs'[r].for = tick[s].at
    <3>1. runs \in [Run -> Row] /\ runs[r] \in Row
      BY <1>0 DEF TypeOK
    <3> QED
      BY <1>1, <1>3, <3>1 DEF Row
  <2>2. i <= tick[s].at
    <3>1. CASE v = task.version
      <4>1. runs[r].for \in task.config.cron
        BY <3>1 DEF Record, Spans, Snapshots, Covers
      <4>2. runs[r].for <= tick[s].now
        BY <1>0, WritingTick DEF Covers
      <4>3. runs[r].for <= tick[s].at
        BY <1>0, <4>1, <4>2, WritingTick
      <4> QED
        BY <1>0, <4>3, WritingTick, RecordTyped DEF Covers
    <3>2. CASE \A x \in Run : Scheduled(x) => runs'[x].for = runs[x].for
      BY <2>1, <3>2 DEF Covers
    <3> QED
      BY <3>1, <3>2
  <2> QED
    BY <2>1, <2>2 DEF Covers, Scheduled, Live
<1> QED
  BY <1>2, <1>3

\* The later of two empty ticks takes over what the earlier one stood for.
LEMMA CoalescedCovers ==
    ASSUME IInv, Record, NEW r \in Run, Coalesce(r),
           NEW i \in Nat, NEW v, NEW q \in Run, Covers(q, i, v)
    PROVE  \E x \in Run : Covers(x, i, v)'
<1>0. TypeOK
  BY DEF IInv
<1>1. PICK p \in Run :
        /\ IsPrior(p, r) /\ EmptyCommand(p) /\ EmptyCommand(r)
        /\ runs[p].version = runs[r].version
        /\ runs' = [runs EXCEPT ![r].first = runs[p].first, ![r].grouped = TRUE,
                                ![p].status = "deleted"]
  BY DEF Coalesce
<1>2. /\ p # r /\ runs[p].first <= runs[p].for /\ runs[p].for < runs[r].first
      /\ runs[r].first <= runs[r].for
      /\ runs[p].first \in Nat /\ runs[p].for \in Nat
      /\ runs[r].first \in Nat /\ runs[r].for \in Nat
  BY <1>0, <1>1, CoalescedOrder, RecordTyped
<1>3. /\ runs'[r].kind = runs[r].kind /\ runs'[r].status = runs[r].status
      /\ runs'[r].version = runs[r].version
      /\ runs'[r].for = runs[r].for /\ runs'[r].first = runs[p].first
      /\ \A x \in Run : x # r /\ x # p => runs'[x] = runs[x]
  <2>1. runs \in [Run -> Row] /\ runs[r] \in Row
    BY <1>0 DEF TypeOK
  <2> QED
    BY <1>1, <1>2, <2>1 DEF Row
<1>4. Scheduled(r)'
  BY <1>1, <1>3 DEF EmptyCommand, Scheduled, Live
<1>5. CASE q \in {p, r}
  <2>1. runs[p].first <= i /\ i <= runs[r].for /\ v = runs[r].version
    BY <1>1, <1>2, <1>5 DEF Covers
  <2> QED
    BY <1>3, <1>4, <2>1 DEF Covers
<1>6. CASE q \notin {p, r}
  BY <1>3, <1>6 DEF Covers, Scheduled, Live
<1> QED
  BY <1>5, <1>6

\* No merge loses the record of an instant of the task as it is, nor of an
\* older version whose rows stay where they are.
THEOREM RecordKept ==
    ASSUME OneScheduler PROVE Spec => RecordIsKept
<1> DEFINE Keeps ==
      \A i \in Time, v \in Version :
         /\ \E r \in Run : Covers(r, i, v)
         /\ v = task.version \/ \A r \in Run : Scheduled(r) => runs'[r].for = runs[r].for
         => (\E r \in Run : Covers(r, i, v))'
<1>1. IInv /\ RInv /\ [Next]_vars => Keeps
  <2> SUFFICES ASSUME IInv, RInv, [Next]_vars,
                      NEW i \in Time, NEW v \in Version, NEW r \in Run, Covers(r, i, v),
                      \/ v = task.version
                      \/ \A q \in Run : Scheduled(q) => runs'[q].for = runs[q].for
               PROVE  (\E x \in Run : Covers(x, i, v))'
    OBVIOUS
  <2>1. TypeOK /\ Record /\ i \in Nat /\ \A s \in Scheduler : AtLatest(tick[s])
    BY CronAssumption DEF IInv, RInv, Time
  <2>2. CASE Quiet
    BY <2>2, QuietCovers
  <2>3. CASE \E s \in Scheduler : CreateInserted(s)
    BY <2>3, InsertedCovers
  <2>4. CASE \E s \in Scheduler : CreateGrouped(s)
    BY <2>1, <2>4, GroupedCovers
  <2>5. CASE \E q \in Run : Coalesce(q)
    BY <2>1, <2>5, CoalescedCovers
  <2> QED
    BY <2>1, <2>2, <2>3, <2>4, <2>5, StepsOnRecord
<1>2. IInv /\ RInv /\ [Next]_vars => [Keeps]_vars
  BY <1>1
<1> QED
  BY <1>2, RecordInvariant, PTL DEF Spec, RecordIsKept
=============================================================================
