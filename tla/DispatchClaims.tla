--------------------------- MODULE DispatchClaims ---------------------------
(***************************************************************************)
(* The claim of one queued reply task, from the dispatcher that takes it   *)
(* to the callback that hands it back:                                     *)
(*   - app/task_lifecycle_storage.py  the compare-and-set on the Task row; *)
(*   - app/dispatcher/adapters.py     who may be claimed, renew, release,  *)
(*                                    complete, handler errors, let_go;    *)
(*   - app/dispatcher/models.py       ClaimGuard, the handler's own view;  *)
(*   - app/dispatcher/service.py      the dispatcher thread and the        *)
(*                                    done-callback of a handler's future; *)
(*   - app/store.py                   the recoveries that also write the   *)
(*                                    claim: service start, stale locks.   *)
(*                                                                         *)
(* Time.  Every deadline is kept as the ticks left until it: a lease with  *)
(* ttl = 0 has lease_expires_at <= now (or '', which sorts before every    *)
(* time), a task with delay = 0 is due.  One tick is half of the dispatcher*)
(* lease, the renewal interval.                                            *)
(*                                                                         *)
(* Processes.  The supervisor runs one worker at a time, so there is one   *)
(* service pid, or none between a crash and the restart.  The owner string *)
(* `scheduled-dispatcher:<pid>` and owner_pid are separate columns and     *)
(* let_go clears only the second, so a row keeps both.                     *)
(***************************************************************************)
EXTENDS Integers, FiniteSets

CONSTANTS
    Task,              \* reply tasks in the queue
    Slot,              \* records of handlers that have been submitted and not forgotten
    Pid,               \* pids the worker process may get
    NoPid,             \* owner '' / owner_pid 0
    NoTask,            \* the task of an idle slot
    Capacity,          \* max_in_flight of the adapter
    Lease,             \* dispatcher lease, in ticks
    Backoff,           \* delay of a retry, in ticks
    Stale,             \* age in ticks at which a processing lock counts as stale
    MaxAttempts,       \* MAX_REPLY_TASK_ATTEMPTS
    MaxFaults,         \* bound: how many faults the environment injects
    ReclaimStaleLocks, \* whether the runtime-attempt-reclaim thread runs
    StoreOutage        \* whether a completion callback's writes may fail

ASSUME ClaimAssumption ==
    /\ NoPid \notin Pid
    /\ NoTask \notin Task
    /\ Capacity \in Nat \ {0}
    /\ Lease \in Nat \ {0, 1}
    /\ Backoff \in Nat
    /\ Stale \in Nat \ {0}
    /\ MaxAttempts \in Nat \ {0}
    /\ MaxFaults \in Nat
    /\ ReclaimStaleLocks \in BOOLEAN
    /\ StoreOutage \in BOOLEAN

VARIABLES
    service,  \* pid of the running worker, NoPid while it is down
    row,      \* row[t]: the Task row and its claim
    handler,  \* handler[s]: envelope, guard and progress of a submitted handler
    due,      \* slots the current renew_in_flight pass still has to renew
    faults    \* faults injected so far

vars == <<service, row, handler, due, faults>>

NoRenew == -1      \* renew_at is None
Unlocked == -1     \* locked_at is null

Owner == Pid \cup {NoPid}

Executing == {"work", "turn"}                 \* past the check of its claim
Working == {"start"} \cup Executing           \* the handler function has not returned
Active == Working \cup {"returned", "raised"} \* the future is in dispatcher._active
Closing == {"completing", "recovering", "lettingGo"}  \* inside _complete_future
Phase == {"idle"} \cup Active \cup Closing

Row == [status: {"pending", "processing", "done", "failed"},
        attempts: Nat, delay: Nat, age: Nat \cup {Unlocked},
        owner: Owner, pid: Owner, gen: Nat, ttl: Nat,
        terminal: BOOLEAN,                       \* history.terminal_at <> ''
        runs: {"none", "running", "ended"}]      \* agent runs of this execution

Handler == [phase: Phase, task: Task \cup {NoTask}, gen: Nat, attempt: Nat,
            lost: BOOLEAN, resolved: BOOLEAN, renewIn: Nat \cup {NoRenew}]

Idle == [phase |-> "idle", task |-> NoTask, gen |-> 0, attempt |-> 0,
         lost |-> FALSE, resolved |-> FALSE, renewIn |-> NoRenew]

-----------------------------------------------------------------------------
(* Reading a row.                                                          *)

\* Faulty: a processing row is returned whether its lease has expired or not.
EligibleAnyLease(r) ==
    \/ r.status = "pending" /\ r.delay = 0 /\ (r.owner = NoPid \/ r.ttl = 0)
    \/ r.status = "processing" /\ r.owner # NoPid

\* _TaskQueueAdapter._due: the rows a claim scan returns.
Eligible(r) ==
    \/ /\ r.status = "pending"
       /\ r.delay = 0
       /\ r.owner = NoPid \/ r.ttl = 0
    \/ /\ r.status = "processing"
       /\ r.owner # NoPid
       /\ r.ttl = 0

\* Faulty: the liveness test is inverted.
DeadExpiredOwner(r) ==
    r.owner # NoPid /\ r.ttl = 0 /\ r.pid # NoPid /\ r.pid # service

\* _live_expired_owner: an expired lease of a process that is still alive.
LiveExpiredOwner(r) ==
    /\ r.owner # NoPid
    /\ r.ttl = 0
    /\ r.pid # NoPid /\ r.pid = service

\* Faulty: without the live-owner guard.
ClaimableExpired(r) == Eligible(r)

Claimable(r) == Eligible(r) /\ ~LiveExpiredOwner(r)

\* The fence of transition_claim and recover_claims: owner and generation.
Holds(s) ==
    LET h == handler[s] IN
    /\ row[h.task].owner = service
    /\ row[h.task].gen = h.gen

\* ClaimGuard.assert_current: not marked lost, still the owner, not expired.
Current(s) == ~handler[s].lost /\ Holds(s) /\ row[handler[s].task].ttl > 0

InFlight == Cardinality({s \in Slot : handler[s].phase \in Active})

Unclaimed(r) == [r EXCEPT !.owner = NoPid, !.ttl = 0]

Refunded(n) == IF n = 0 THEN 0 ELSE n - 1

\* _TaskQueueAdapter.release: back to the queue with its attempt refunded.
Released(r) == [Unclaimed(r) EXCEPT !.status = "pending", !.age = Unlocked,
                                    !.attempts = Refunded(r.attempts)]

Fault == faults < MaxFaults /\ faults' = faults + 1

GoTo(s, p) == handler' = [handler EXCEPT ![s].phase = p]

Forgotten(s) == handler' = [handler EXCEPT ![s] = Idle]

-----------------------------------------------------------------------------
(* The dispatcher thread: dispatch_available renews, then claims.          *)

\* One adapter.claim that finds t, and the submit of its handler.  The two
\* are one step: only this thread looks at the envelope in between, and a
\* crash in between is Crash right after.
Claim(t, s) ==
    LET g == row[t].gen + 1
        a == row[t].attempts + 1
    IN
    /\ service # NoPid
    /\ due = {}
    /\ handler[s].phase = "idle"
    /\ InFlight < Capacity
    /\ Claimable(row[t])
    /\ row' = [row EXCEPT ![t] =
                 [@ EXCEPT !.status = "processing", !.attempts = a, !.delay = 0,
                           !.age = 0, !.owner = service, !.pid = service,
                           !.gen = g, !.ttl = Lease, !.terminal = FALSE]]
    /\ handler' = [handler EXCEPT ![s] =
                     [phase |-> "start", task |-> t, gen |-> g, attempt |-> a,
                      lost |-> FALSE, resolved |-> FALSE,
                      renewIn |-> Lease \div 2]]
    /\ UNCHANGED <<service, due, faults>>

\* renew_in_flight, first half: snapshot the due futures under the lock.
RenewScan ==
    LET found == {s \in Slot : handler[s].phase \in Working /\ handler[s].renewIn = 0}
    IN
    /\ due = {}
    /\ found # {}
    /\ due' = found
    /\ UNCHANGED <<service, row, handler, faults>>

\* The lease error is recorded, the guard marked lost and the future, if it
\* is still active, never renewed again.
StopRenewing(s) ==
    handler' = IF handler[s].phase = "idle" THEN handler ELSE
        [handler EXCEPT
            ![s].lost = TRUE,
            ![s].renewIn = IF handler[s].phase \in Active THEN NoRenew ELSE @]

\* renew_in_flight, second half: one adapter.renew per snapshotted future,
\* fenced by owner, generation and lease_expires_at > now.
Renew(s) ==
    /\ s \in due
    /\ due' = due \ {s}
    /\ IF handler[s].phase # "idle" /\ Holds(s) /\ row[handler[s].task].ttl > 0
       THEN /\ row' = [row EXCEPT ![handler[s].task].ttl = Lease]
            /\ handler' = [handler EXCEPT ![s].renewIn =
                             IF handler[s].phase \in Active THEN Lease \div 2 ELSE @]
       ELSE StopRenewing(s) /\ UNCHANGED row
    /\ UNCHANGED <<service, faults>>

\* The same renewal, failing in the store (a database locked past the retry).
RenewUnsaved(s) ==
    /\ s \in due
    /\ due' = due \ {s}
    /\ Fault
    /\ StopRenewing(s)
    /\ UNCHANGED <<service, row>>

-----------------------------------------------------------------------------
(* The handler: consume_reply and the worker it calls.                     *)

\* The claim is checked once, before any work: the task must be processing
\* and the guard current, otherwise the handler raises.
Begin(s) ==
    /\ handler[s].phase = "start"
    /\ GoTo(s, IF row[handler[s].task].status = "processing" /\ Current(s)
               THEN "work" ELSE "raised")
    /\ UNCHANGED <<service, row, due, faults>>

\* No WeChat account is ready: guard.release gives the task back at once.
ReleaseSource(s) ==
    LET t == handler[s].task IN
    /\ handler[s].phase = "start"
    /\ row[t].status = "processing"
    /\ Fault
    /\ IF Current(s)
       THEN /\ row' = [row EXCEPT ![t] = Released(@)]
            /\ handler' = [handler EXCEPT ![s].phase = "returned",
                                          ![s].lost = TRUE, ![s].resolved = TRUE]
       ELSE GoTo(s, "raised") /\ UNCHANGED row
    /\ UNCHANGED <<service, due>>

\* An Agent turn runs: its run row is running until the turn ends.  A run
\* that is still running elsewhere makes the handler defer instead.
BeginTurn(s) ==
    /\ handler[s].phase = "work"
    /\ row[handler[s].task].runs # "running"
    /\ row' = [row EXCEPT ![handler[s].task].runs = "running"]
    /\ GoTo(s, "turn")
    /\ UNCHANGED <<service, due, faults>>

EndTurn(s) ==
    /\ handler[s].phase = "turn"
    /\ row' = [row EXCEPT ![handler[s].task].runs = "ended"]
    /\ GoTo(s, "work")
    /\ UNCHANGED <<service, due, faults>>

\* finalize_orchestrated_reply_task / finalize_reply_task_without_run: fenced
\* by the task's status and execution generation, not by the claim.  What
\* follows the commit (notifications, cleanup) may still raise.
Settle(s) ==
    LET t == handler[s].task IN
    /\ handler[s].phase = "work"
    /\ \E outcome \in {"done", "failed", "pending"}, then \in {"returned", "raised"} :
         /\ \/ row[t].runs # "none" /\ row[t].status \in {"processing", "pending"}
            \/ row[t].status = "processing" /\ outcome # "done"
         /\ outcome = "pending" => handler[s].attempt < MaxAttempts
         /\ row' = [row EXCEPT ![t].status = outcome, ![t].age = Unlocked,
                      ![t].delay = IF outcome = "pending" THEN Backoff ELSE 0]
         /\ GoTo(s, then)
    /\ UNCHANGED <<service, due, faults>>

\* defer_reply_task with a refunded attempt: a provider, runtime or session
\* wait.  It clears the lock and leaves the lease to the callback.
Defer(s) ==
    LET t == handler[s].task IN
    /\ handler[s].phase = "work"
    /\ row[t].status = "processing"
    /\ Fault
    /\ row' = [row EXCEPT ![t].status = "pending", ![t].age = Unlocked,
                          ![t].delay = Backoff, ![t].attempts = Refunded(@)]
    /\ GoTo(s, "returned")
    /\ UNCHANGED <<service, due>>

\* AgentRunLeaseLostError is swallowed and the handler returns with nothing
\* written: free when another handler settled the task, a fault otherwise.
GiveUp(s) ==
    /\ handler[s].phase = "work"
    /\ \/ row[handler[s].task].status \in {"done", "failed"} /\ UNCHANGED faults
       \/ Fault
    /\ GoTo(s, "returned")
    /\ UNCHANGED <<service, row, due>>

\* Any exception that leaves the handler; the failed turn's run is closed.
Raise(s) ==
    /\ handler[s].phase \in {"work", "turn"}
    /\ row' = [row EXCEPT ![handler[s].task].runs =
                 IF handler[s].phase = "turn" THEN "ended" ELSE @]
    /\ GoTo(s, "raised")
    /\ UNCHANGED <<service, due, faults>>

-----------------------------------------------------------------------------
(* The done-callback, on the handler's thread: _complete_future.           *)

\* Leave _active and give the capacity back before touching the claim.
Pop(s) ==
    /\ handler[s].phase \in {"returned", "raised"}
    /\ IF handler[s].resolved
       THEN Forgotten(s)
       ELSE GoTo(s, IF handler[s].phase = "returned" THEN "completing" ELSE "recovering")
    /\ UNCHANGED <<service, row, due, faults>>

\* guard.complete: assert_current, then the ledger row is closed.  A failed
\* assertion is recorded, the guard marked lost and the claim let go.
Complete(s) ==
    /\ handler[s].phase = "completing"
    /\ IF Current(s)
       THEN /\ row' = [row EXCEPT ![handler[s].task] =
                         [Unclaimed(@) EXCEPT !.terminal = TRUE]]
            /\ Forgotten(s)
       ELSE /\ handler' = [handler EXCEPT ![s].phase = "lettingGo", ![s].lost = TRUE]
            /\ UNCHANGED row
    /\ UNCHANGED <<service, due, faults>>

\* Faulty: the error path does not look at the status of the task.
RecoverAnyStatus(s) ==
    LET t == handler[s].task
        exhausted == handler[s].attempt >= MaxAttempts
    IN
    /\ handler[s].phase = "recovering"
    /\ row' = IF Holds(s)
              THEN [row EXCEPT ![t] =
                      [Unclaimed(@) EXCEPT
                          !.status = IF exhausted THEN "failed" ELSE "pending",
                          !.delay = IF exhausted THEN 0 ELSE Backoff,
                          !.age = Unlocked]]
              ELSE row
    /\ handler' = [handler EXCEPT ![s].phase = "lettingGo", ![s].lost = TRUE]
    /\ UNCHANGED <<service, due, faults>>

\* Faulty: the retry is written with the pending status of the Workbench queue.
RecoverQueued(s) ==
    /\ handler[s].phase = "recovering"
    /\ row' = IF Holds(s) /\ row[handler[s].task].status = "processing"
              THEN [row EXCEPT ![handler[s].task] =
                      [Unclaimed(@) EXCEPT !.status = "queued", !.age = Unlocked]]
              ELSE row
    /\ handler' = [handler EXCEPT ![s].phase = "lettingGo", ![s].lost = TRUE]
    /\ UNCHANGED <<service, due, faults>>

\* handle_handler_error: back to the queue or failed, only while the claim
\* still holds a processing task; either way the claim is let go.
Recover(s) ==
    LET t == handler[s].task
        exhausted == handler[s].attempt >= MaxAttempts
    IN
    /\ handler[s].phase = "recovering"
    /\ IF Holds(s) /\ row[t].status = "processing"
       THEN row' = [row EXCEPT ![t] =
                      [Unclaimed(@) EXCEPT
                          !.status = IF exhausted THEN "failed" ELSE "pending",
                          !.delay = IF exhausted THEN 0 ELSE Backoff,
                          !.age = Unlocked]]
       ELSE UNCHANGED row
    /\ handler' = [handler EXCEPT ![s].phase = "lettingGo", ![s].lost = TRUE]
    /\ UNCHANGED <<service, due, faults>>

\* Faulty: the lease is ended, but the owner's pid stays on the row.
LetGoKeepingPid(s) ==
    /\ handler[s].phase = "lettingGo"
    /\ row' = IF Holds(s) THEN [row EXCEPT ![handler[s].task].ttl = 0] ELSE row
    /\ Forgotten(s)
    /\ UNCHANGED <<service, due, faults>>

\* _let_go_of_lease: nobody alive works on it, so the live-owner guard must
\* not protect it.  Fenced by owner and generation.
LetGo(s) ==
    /\ handler[s].phase = "lettingGo"
    /\ row' = IF Holds(s)
              THEN [row EXCEPT ![handler[s].task].pid = NoPid,
                               ![handler[s].task].ttl = 0]
              ELSE row
    /\ Forgotten(s)
    /\ UNCHANGED <<service, due, faults>>

\* A write of the callback fails.  When the lease error cannot be recorded
\* either, the exception leaves the callback before let_go is reached.
CallbackUnsaved(s) ==
    /\ StoreOutage
    /\ handler[s].phase \in Closing
    /\ Fault
    /\ \/ /\ handler[s].phase # "lettingGo"
          /\ handler' = [handler EXCEPT ![s].phase = "lettingGo", ![s].lost = TRUE]
       \/ Forgotten(s)
    /\ UNCHANGED <<service, row, due>>

-----------------------------------------------------------------------------
(* Recoveries, process life cycle, time.                                   *)

\* recover_stale_processing_reply_tasks: a lock past its age that no agent
\* run is working on is requeued; the claim is cleared only when expired.
\* It counts as a fault while a handler of the task has not handed it back.
RecoverStaleLock(t) ==
    /\ ReclaimStaleLocks
    /\ service # NoPid
    /\ row[t].status = "processing"
    /\ row[t].age = Stale
    /\ row[t].runs # "running"
    /\ IF \E s \in Slot : handler[s].task = t
       THEN Fault ELSE UNCHANGED faults
    /\ row' = [row EXCEPT ![t] =
                 [(IF @.ttl = 0 THEN [Unclaimed(@) EXCEPT !.pid = NoPid] ELSE @)
                    EXCEPT !.status = "pending", !.age = Unlocked, !.delay = 0]]
    /\ UNCHANGED <<service, handler, due>>

\* Faulty: the history of any unowned claim is dropped, closed or not.
ForgetAnyClaim(t) ==
    /\ row[t].owner = NoPid
    /\ row[t].gen # 0
    /\ row' = [row EXCEPT ![t].gen = 0, ![t].terminal = FALSE]
    /\ UNCHANGED <<service, handler, due, faults>>

\* _prune_completed_claim_history: the passive history of a closed claim is
\* dropped and the generation starts over.  Ten thousand later completions
\* come first, so no handler of the task is left.
ForgetClaim(t) ==
    /\ row[t].terminal
    /\ row[t].owner = NoPid
    /\ row[t].gen # 0
    /\ \A s \in Slot : handler[s].task # t
    /\ row' = [row EXCEPT ![t].gen = 0, ![t].terminal = FALSE]
    /\ UNCHANGED <<service, handler, due, faults>>

Crash ==
    /\ service # NoPid
    /\ Fault
    /\ service' = NoPid
    /\ handler' = [s \in Slot |-> Idle]
    /\ due' = {}
    /\ UNCHANGED row

\* The service starts: recover_orphaned_processing_reply_tasks gives a task
\* without any run its attempt back, recover_interrupted_agent_runs_after_
\* service_restart fails the runs and requeues every other processing task.
AfterRestart(r) ==
    IF r.status # "processing" THEN r
    ELSE [Unclaimed(r) EXCEPT
            !.status = "pending", !.pid = NoPid, !.age = Unlocked, !.delay = 0,
            !.attempts = IF r.runs = "none" THEN Refunded(@) ELSE @,
            !.runs = IF @ = "running" THEN "ended" ELSE @]

\* The pid is a fresh one: no row still names it.
Start(p) ==
    /\ service = NoPid
    /\ \A t \in Task : row[t].pid # p
    /\ service' = p
    /\ row' = [t \in Task |-> AfterRestart(row[t])]
    /\ UNCHANGED <<handler, due, faults>>

Less(n) == IF n > 0 THEN n - 1 ELSE n

\* A renewal pass and its claims are stamped with the time the pass started;
\* a pass is short against a tick, so no tick falls inside it.
Tick ==
    /\ due = {}
    /\ row' = [t \in Task |->
                 [row[t] EXCEPT !.ttl = Less(@), !.delay = Less(@),
                    !.age = IF @ = Unlocked \/ @ >= Stale THEN @ ELSE @ + 1]]
    /\ handler' = [s \in Slot |-> [handler[s] EXCEPT !.renewIn = Less(@)]]
    /\ UNCHANGED <<service, due, faults>>

-----------------------------------------------------------------------------
Init ==
    /\ service \in Pid
    /\ row = [t \in Task |->
                [status |-> "pending", attempts |-> 0, delay |-> 0,
                 age |-> Unlocked, owner |-> NoPid, pid |-> NoPid, gen |-> 0,
                 ttl |-> 0, terminal |-> FALSE, runs |-> "none"]]
    /\ handler = [s \in Slot |-> Idle]
    /\ due = {}
    /\ faults = 0

\* What takes a handler out of its work: bounded by the operation timeouts
\* of the agent and network consumers.
Leave(s) == Settle(s) \/ Defer(s) \/ GiveUp(s) \/ Raise(s)

Callback(s) == Pop(s) \/ Complete(s) \/ Recover(s) \/ LetGo(s)

HandlerStep(s) ==
    \/ Begin(s) \/ ReleaseSource(s) \/ BeginTurn(s) \/ EndTurn(s)
    \/ Leave(s) \/ Callback(s) \/ CallbackUnsaved(s)

DispatcherStep ==
    \/ RenewScan
    \/ \E s \in Slot : Renew(s) \/ RenewUnsaved(s)
    \/ \E t \in Task, s \in Slot : Claim(t, s)

Next ==
    \/ DispatcherStep
    \/ \E s \in Slot : HandlerStep(s)
    \/ \E t \in Task : RecoverStaleLock(t) \/ ForgetClaim(t)
    \/ Crash
    \/ \E p \in Pid : Start(p)
    \/ Tick

Spec == Init /\ [][Next]_vars

\* Every thread of a live service keeps running, handlers end, the
\* supervisor restarts the worker and time passes.
Fairness ==
    /\ WF_vars(RenewScan)
    /\ WF_vars(\E p \in Pid : Start(p))
    /\ WF_vars(Tick)
    /\ WF_vars(\E t \in Task, s \in Slot : Claim(t, s))
    /\ \A s \in Slot :
         /\ WF_vars(Renew(s))
         /\ WF_vars(Begin(s))
         /\ WF_vars(Leave(s))
         /\ WF_vars(Callback(s))
    /\ \A t \in Task : WF_vars(RecoverStaleLock(t))

FairSpec == Spec /\ Fairness

-----------------------------------------------------------------------------
(* Properties.                                                             *)

TypeOK ==
    /\ service \in Owner
    /\ row \in [Task -> Row]
    /\ handler \in [Slot -> Handler]
    /\ \A s \in Slot : handler[s].phase # "idle" => handler[s].task \in Task
    /\ due \in SUBSET Slot
    /\ faults \in Nat

\* The fencing that the generation of a claim rests on: handlers of one task
\* carry different generations, none newer than the row's, and a source that
\* was released or is held by another process is not held by them.
ClaimsFenced ==
    /\ \A s \in Slot : handler[s].phase # "idle" =>
         /\ service \in Pid
         /\ handler[s].gen <= row[handler[s].task].gen
         /\ handler[s].resolved => ~Holds(s)
    /\ \A s1, s2 \in Slot :
         /\ handler[s1].phase # "idle"
         /\ handler[s2].phase # "idle"
         /\ handler[s1].task = handler[s2].task
         /\ handler[s1].gen = handler[s2].gen
         => s1 = s2
    /\ \A t \in Task :
         row[t].owner # NoPid /\ row[t].pid # NoPid => row[t].pid = row[t].owner

\* Without stale-lock recovery a running handler keeps its claim for as long
\* as it runs, expired or not: this is what the live-owner guard is for.
WorkersHoldClaim ==
    \A s \in Slot : handler[s].phase \in Working =>
        Holds(s) /\ row[handler[s].task].pid = service

\* A source is worked on by at most one handler: an expired lease of a live
\* owner is not claimed again, so as not to execute it twice.
OneWorkerPerTask ==
    \A s1, s2 \in Slot :
        /\ handler[s1].phase \in Executing
        /\ handler[s2].phase \in Executing
        /\ handler[s1].task = handler[s2].task
        => s1 = s2

\* A claim marked with the live service's pid has a handler that will hand it
\* back: nothing that has returned keeps a source behind the live-owner guard.
NoLeaseWithoutHandler ==
    \A t \in Task :
        row[t].owner # NoPid /\ row[t].pid # NoPid /\ row[t].pid = service
        => \E s \in Slot : /\ handler[s].phase # "idle"
                           /\ handler[s].task = t
                           /\ handler[s].gen = row[t].gen

\* While a handler works under an unexpired claim, no other actor - another
\* claim, a stale callback, a recovery - takes that claim from it.
LiveClaimIsKept ==
    [][\A s \in Slot :
         /\ handler[s].phase \in Working
         /\ Holds(s)
         /\ row[handler[s].task].ttl > 0
         /\ service' = service
         => handler'[s] # handler[s] \/ Holds(s)']_vars

\* A task that was settled is not put back by anything that comes late: the
\* error path of the handler that settled it, an older handler, a recovery.
SettledStaysSettled ==
    [][\A t \in Task :
         row[t].status \in {"done", "failed"} => row'[t].status = row[t].status]_vars

\* Once faults stop, every queued task is settled: no lost wake-up, no lease
\* that outlives its handler, no lock that nobody clears.
EveryTaskSettles ==
    \A t \in Task :
        row[t].status \in {"pending", "processing"}
        ~> row[t].status \in {"done", "failed"}

\* The lease names the live service and nobody is left to hand it back: the
\* outcome of a callback that could not even record that it failed.
Stranded(t) ==
    /\ row[t].status = "pending"
    /\ row[t].owner # NoPid /\ row[t].pid # NoPid /\ row[t].pid = service
    /\ \A s \in Slot : handler[s].phase # "idle" /\ handler[s].task = t
                      => handler[s].gen # row[t].gen

\* With failing callback writes too: a task is settled unless exactly that
\* happened, whatever else crashes, comes late or is taken over.
SettlesUnlessStranded ==
    \A t \in Task :
        row[t].status \in {"pending", "processing"}
        ~> row[t].status \in {"done", "failed"} \/ Stranded(t)

\* The promise of a claim, with the handlers that have not returned as the
\* workers of their tasks.
WorkersOn(t) == {s \in Slot : handler[s].phase \in Working /\ handler[s].task = t}

Settled == {t \in Task : row[t].status \in {"done", "failed"}}

Promise == INSTANCE ExclusiveClaim WITH
    Source <- Task, Worker <- Slot,
    workers <- [t \in Task |-> WorkersOn(t)], settled <- Settled

\* Owner strings, generations, leases and the live-owner guard together
\* implement the exclusive claim: a task is handed to a new handler only when
\* no handler works on it, and it is settled once, with nobody left at work.
ImplementsExclusiveClaim == Promise!Spec
=============================================================================
