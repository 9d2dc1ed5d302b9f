-------------------------- MODULE ExternalAction --------------------------
(***************************************************************************)
(* The execution of reviewed candidates: app/system_executor.py, the       *)
(* execution lease and the attempt journal of                              *)
(* app/reviewed_candidate_store.py and app/shared_action_lifecycle.py, and *)
(* what the handlers of app/system_action_handlers.py may answer.          *)
(*                                                                         *)
(* A task has candidates 1, 2, ... in the order they are adopted; each has *)
(* a plan of external actions, and different candidates may name the same  *)
(* action (its key does not depend on the candidate).  An executor claims  *)
(* the execution of the newest candidate, journals an attempt before it    *)
(* calls the provider, and records what came of it.  A lease is only       *)
(* expired or not; every transaction that needs it checks it.  A call that *)
(* nobody waits for any more stays in flight until it takes effect, late,  *)
(* or is lost.                                                             *)
(***************************************************************************)
EXTENDS Integers, Sequences, FiniteSets

CONSTANTS
    Action,    \* external actions, by their keys
    Readback,  \* those whose handler may read back that there was no effect
    Reply,     \* replies to a message, found again by that message only
    Executor,  \* SystemExecutor.owner of the processes that execute
    Gone,      \* holder of a lease whose owner's process has died
    Nobody,    \* holder of an execution without an unexpired lease
    Plan,      \* Plan[e]: the actions of candidate e, in order
    MaxCalls   \* bound: calls of a Readback action that nobody waits for

Candidate == DOMAIN Plan

ASSUME ActionAssumption ==
    /\ Readback \subseteq Action
    /\ Reply \subseteq Action \ Readback
    /\ Gone \notin Executor
    /\ Nobody \notin Executor \cup {Gone}
    /\ Plan \in Seq(Seq(Action))
    /\ \A e \in Candidate : \A i, j \in DOMAIN Plan[e] :
          Plan[e][i] = Plan[e][j] => i = j
    /\ MaxCalls \in Nat

VARIABLES
    latest,    \* the newest adopted candidate, 0 before the first
    withdrawn, \* candidates that are invalidated or of an older generation
    status,    \* status[e]: status of the execution of candidate e
    holder,    \* holder[e]: who has its unexpired lease
    attempt,   \* attempt[e][k]: status of its attempt of action k
    receipts,  \* actions with a verified provider receipt
    exec,      \* exec[x]: what executor x is doing
    inflight,  \* inflight[k]: calls that nobody waits for, not yet in effect
    effects    \* effects[k]: how often the effect of action k has happened

vars == <<latest, withdrawn, status, holder, attempt, receipts, exec,
          inflight, effects>>

Plain == Action \ Readback

\* A failed attempt that was refused before the call, because the prepared
\* message did not match the reviewed one, is "mismatch".
Open == {"dispatched", "uncertain"}
AttemptStatus == Open \cup {"none", "verified", "no_effect", "failed", "mismatch"}
Ended == {"done", "skipped", "failed"}
ExecutionStatus == Ended \cup {"none", "running", "retry", "uncertain"}

Phase == {"idle", "look", "prior", "begin", "call", "waiting", "landed",
          "reconcile", "record", "finish"}
Verdict == {"none", "verified", "uncertain", "no_effect", "rejected", "failed",
            "mismatch", "changed", "unreadable", "done", "skipped"}

Idle == [at |-> "idle", candidate |-> 0, step |-> 0, seen |-> "none",
         verdict |-> "none"]

\* The action an executor is at.
Current(x) == Plan[exec[x].candidate][exec[x].step]

At(x, phase) == exec[x].at = phase
To(x, phase, verdict) ==
    exec' = [exec EXCEPT ![x].at = phase, ![x].verdict = verdict]

\* _leased_execution: also good after the candidate was withdrawn.
Leased(x) ==
    LET e == exec[x].candidate IN status[e] = "running" /\ holder[e] = x

\* _owned_execution.
Owned(x) == Leased(x) /\ exec[x].candidate \notin withdrawn

\* The attempt rows of an action that other candidates have; the last of them.
LastOther(d, e, k) ==
    /\ d \in Candidate \ {e}
    /\ attempt[d][k] # "none"
    /\ \A c \in Candidate \ {e} : attempt[c][k] # "none" => c <= d

Settle(e, k, result) == attempt' = [attempt EXCEPT ![e][k] = result]

\* On to the next action of the plan, or to the end of it.
Advanced(x) ==
    LET e == exec[x].candidate
        i == exec[x].step
    IN  exec' = [exec EXCEPT ![x] =
           IF i < Len(Plan[e])
           THEN [Idle EXCEPT !.at = "look", !.candidate = e, !.step = i + 1]
           ELSE [Idle EXCEPT !.at = "finish", !.candidate = e, !.step = i,
                             !.verdict = "done"]]

-----------------------------------------------------------------------------
(* The candidates.                                                         *)

\* Faulty: a next candidate while the last one is being executed.
AdoptAnyTime ==
    /\ latest < Len(Plan)
    /\ latest' = latest + 1
    /\ UNCHANGED <<withdrawn, status, holder, attempt, receipts, exec,
                   inflight, effects>>

\* The orchestrator turns to a next candidate when the last one is no longer
\* to be executed: it was withdrawn, or its execution ended in a way that asks
\* for a correction, a confirmation or a next stage.
Adopt ==
    /\ latest < Len(Plan)
    /\ latest # 0 => \/ latest \in withdrawn
                     \/ status[latest] \in {"done", "failed", "uncertain"}
    /\ latest' = latest + 1
    /\ UNCHANGED <<withdrawn, status, holder, attempt, receipts, exec,
                   inflight, effects>>

\* A supplement, an invalidation, a new generation.
Withdraw ==
    /\ latest > 0
    /\ withdrawn' = withdrawn \cup {latest}
    /\ UNCHANGED <<latest, status, holder, attempt, receipts, exec,
                   inflight, effects>>

-----------------------------------------------------------------------------
(* SystemExecutor.execute.                                                 *)

\* Nobody else is at work on the execution under an unexpired lease.
Claimable(x, e) ==
    /\ status[e] \notin Ended
    /\ holder[e] \in {Nobody, x}

Claim(x) ==
    /\ At(x, "idle")
    /\ latest > 0
    /\ latest \notin withdrawn
    /\ Claimable(x, latest)
    /\ status' = [status EXCEPT ![latest] = "running"]
    /\ holder' = [holder EXCEPT ![latest] = x]
    /\ exec' = [exec EXCEPT ![x] =
          IF Plan[latest] = <<>>
          THEN [Idle EXCEPT !.at = "finish", !.candidate = latest,
                            !.verdict = "skipped"]
          ELSE [Idle EXCEPT !.at = "look", !.candidate = latest, !.step = 1]]
    /\ UNCHANGED <<latest, withdrawn, attempt, receipts, inflight, effects>>

\* The lease is renewed, the attempt is read; unless there is one to look
\* after, the reviewed sources are read again, and may have changed or be out
\* of reach; a receipt may be one of other content.
Look(x) ==
    /\ At(x, "look") /\ Leased(x)
    /\ LET e == exec[x].candidate
           k == Current(x)
           read == attempt[e][k]
           mismatched == \E d \in Candidate :
                            LastOther(d, e, k) /\ attempt[d][k] = "mismatch"
       IN  \/ exec' = [exec EXCEPT ![x].seen = read,
                          ![x].at = IF mismatched THEN "prior" ELSE "begin"]
           \/ /\ read \notin Open \cup {"verified"}
              /\ \E v \in {"changed", "unreadable", "failed"} :
                    To(x, "finish", v)
           \/ /\ k \in receipts
              /\ To(x, "finish", "failed")
    /\ UNCHANGED <<latest, withdrawn, status, holder, attempt, receipts,
                   inflight, effects>>

\* A message attempt of another candidate failed for its preparation: what
\* the provider shows of it is read and recorded first.  That a reply is not
\* found says nothing.
ReadPrior(x) ==
    /\ At(x, "prior") /\ exec[x].verdict = "none"
    /\ \/ effects[Current(x)] > 0 /\ To(x, "prior", "verified")
       \/ /\ effects[Current(x)] = 0 /\ Current(x) \notin Reply
          /\ To(x, "prior", "no_effect")
       \/ To(x, "finish", "failed")
    /\ UNCHANGED <<latest, withdrawn, status, holder, attempt, receipts,
                   inflight, effects>>

RecordPrior(x) ==
    /\ At(x, "prior") /\ exec[x].verdict # "none"
    /\ Leased(x)
    /\ LET k == Current(x)
           v == exec[x].verdict
       IN  \E d \in Candidate :
             /\ LastOther(d, exec[x].candidate, k)
             /\ attempt[d][k] = "mismatch"
             /\ Settle(d, k, v)
             /\ receipts' = IF v = "verified" THEN receipts \cup {k} ELSE receipts
    /\ To(x, "begin", "none")
    /\ UNCHANGED <<latest, withdrawn, status, holder, inflight, effects>>

\* Faulty: an attempt that failed is taken for one without effect.
UntriedOrFailed(e, k) ==
    \A d \in Candidate : LastOther(d, e, k) =>
       attempt[d][k] \in {"no_effect", "failed", "mismatch"}

\* Whether an action may be tried by a candidate that has not tried it: the
\* last attempt of another candidate, if any, must have had no effect.
Untried(e, k) ==
    \A d \in Candidate : LastOther(d, e, k) => attempt[d][k] = "no_effect"

\* What the attempt becomes when its action is begun: journaled before the
\* call; known from a receipt; or, when it was already under way, uncertain.
Begun(e, k) ==
    CASE attempt[e][k] = "none" ->
            IF k \in receipts THEN "verified" ELSE "dispatched"
      [] attempt[e][k] = "dispatched" -> "uncertain"
      [] attempt[e][k] = "no_effect" -> "dispatched"
      [] OTHER -> attempt[e][k]

\* begin_candidate_action and what is done next; where it raises, Stop.
Begin(x) ==
    /\ At(x, "begin") /\ Owned(x)
    /\ LET e == exec[x].candidate
           k == Current(x)
           now == Begun(e, k)
       IN  /\ \A i \in 1 .. exec[x].step - 1 : attempt[e][Plan[e][i]] = "verified"
           /\ attempt[e][k] = "none" /\ k \notin receipts => Untried(e, k)
           /\ Settle(e, k, now)
           /\ IF now = "verified"
              THEN Advanced(x)
              ELSE exec' = [exec EXCEPT ![x].seen = "none",
                      ![x].at = CASE now \in {"failed", "mismatch"} -> "record"
                                  [] now = "dispatched" /\ exec[x].seen \notin Open ->
                                        "call"
                                  [] OTHER -> "reconcile",
                      ![x].verdict = IF now \in {"failed", "mismatch"}
                                     THEN "failed" ELSE "none"]
    /\ UNCHANGED <<latest, withdrawn, status, holder, receipts,
                   inflight, effects>>

\* A handler may refuse before it calls: a message does not match what was
\* prepared, the parameters or the provider's state are not as reviewed; or it
\* finds the effect already there.
Refuse(x) ==
    /\ At(x, "call")
    /\ \/ \E v \in {"failed", "rejected", "no_effect", "changed", "uncertain"} :
             To(x, "record", v)
       \/ Current(x) \in Plain /\ To(x, "record", "mismatch")
       \/ effects[Current(x)] > 0 /\ To(x, "record", "verified")
    /\ UNCHANGED <<latest, withdrawn, status, holder, attempt, receipts,
                   inflight, effects>>

\* A handler that can read back looks before it calls: what lands between the
\* two may as well land after the call.
Call(x) ==
    /\ At(x, "call")
    /\ Current(x) \in Readback =>
          effects[Current(x)] = 0 /\ inflight[Current(x)] < MaxCalls
    /\ To(x, "waiting", "none")
    /\ UNCHANGED <<latest, withdrawn, status, holder, attempt, receipts,
                   inflight, effects>>

\* The call takes effect.
Land(x) ==
    /\ At(x, "waiting")
    /\ effects' = [effects EXCEPT ![Current(x)] = @ + 1]
    /\ To(x, "landed", "none")
    /\ UNCHANGED <<latest, withdrawn, status, holder, attempt, receipts,
                   inflight>>

\* It is answered: verified; refused, without effect; or an exception or a
\* timeout that says nothing, and the call may still be under way.
Answer(x) ==
    /\ \/ At(x, "landed") /\ \E v \in {"verified", "uncertain", "failed", "changed"} :
             To(x, "record", v) /\ UNCHANGED inflight
       \/ At(x, "waiting") /\ \E v \in {"failed", "rejected"} :
             To(x, "record", v) /\ UNCHANGED inflight
       \/ /\ At(x, "waiting")
          /\ To(x, "record", "uncertain")
          /\ inflight' = [inflight EXCEPT ![Current(x)] = @ + 1]
    /\ UNCHANGED <<latest, withdrawn, status, holder, attempt, receipts,
                   effects>>

\* Faulty: what is not seen had no effect.
ReadBackAbsent(x, v) ==
    LET k == Current(x) IN
    \/ v \in {"uncertain", "failed", "changed"}
    \/ v = "mismatch" /\ k \in Reply
    \/ v = "verified" /\ effects[k] > 0
    \/ v = "no_effect" /\ effects[k] = 0

\* Faulty: an earlier message with the same text is taken for it.
ReadBackAnyMatch(x, v) ==
    LET k == Current(x) IN
    \/ v \in {"uncertain", "failed", "changed", "verified"}
    \/ v = "mismatch" /\ k \in Reply
    \/ v = "no_effect" /\ effects[k] = 0 /\ k \in Readback

\* What the provider shows.  A complete window without the message is a
\* failure; that there was no effect is concluded for some actions only.
ReadBack(x, v) ==
    LET k == Current(x) IN
    \/ v \in {"uncertain", "failed", "changed"}
    \/ v = "mismatch" /\ k \in Reply
    \/ v = "verified" /\ effects[k] > 0
    \/ v = "no_effect" /\ effects[k] = 0 /\ k \in Readback

Reconcile(x) ==
    /\ At(x, "reconcile")
    /\ \E v \in Verdict : ReadBack(x, v) /\ To(x, "record", v)
    /\ UNCHANGED <<latest, withdrawn, status, holder, attempt, receipts,
                   inflight, effects>>

\* Faulty: what a handler answers is recorded as it is.
OutcomeAsAnswered(v) == IF v = "rejected" THEN "no_effect" ELSE v

\* The attempt status that is recorded of an answer.
Outcome(v) ==
    CASE v \in {"failed", "changed"} -> "failed"
      [] v = "rejected" -> "no_effect"
      [] OTHER -> v

\* What finishes an execution: its status, with the lease given back.
End(x, final) ==
    LET e == exec[x].candidate IN
    /\ status' = [status EXCEPT ![e] = final]
    /\ holder' = [holder EXCEPT ![e] = Nobody]
    /\ exec' = [exec EXCEPT ![x] = Idle]

\* Faulty: an answer is recorded also after the lease has expired.
RecordLate(x) ==
    /\ At(x, "record")
    /\ LET v == exec[x].verdict
           k == Current(x)
       IN  /\ Settle(exec[x].candidate, k, Outcome(v))
           /\ \/ /\ v = "verified"
                 /\ receipts' = receipts \cup {k}
                 /\ Advanced(x)
                 /\ UNCHANGED <<status, holder>>
              \/ v = "rejected" /\ End(x, "failed") /\ UNCHANGED receipts
              \/ /\ v \notin {"verified", "rejected"}
                 /\ To(x, "finish", v)
                 /\ UNCHANGED <<status, holder, receipts>>
    /\ UNCHANGED <<latest, withdrawn, inflight, effects>>

\* A verified outcome leaves its receipt and the execution goes on; an input
\* the provider rejected is recorded with the end of the execution.
Record(x) ==
    /\ At(x, "record") /\ Leased(x)
    /\ LET v == exec[x].verdict
           k == Current(x)
       IN  /\ Settle(exec[x].candidate, k, Outcome(v))
           /\ \/ /\ v = "verified"
                 /\ receipts' = receipts \cup {k}
                 /\ Advanced(x)
                 /\ UNCHANGED <<status, holder>>
              \/ v = "rejected" /\ End(x, "failed") /\ UNCHANGED receipts
              \/ /\ v \notin {"verified", "rejected"}
                 /\ To(x, "finish", v)
                 /\ UNCHANGED <<status, holder, receipts>>
    /\ UNCHANGED <<latest, withdrawn, inflight, effects>>

Final(v) ==
    CASE v \in {"no_effect", "unreadable"} -> "retry"
      [] v \in {"failed", "changed", "mismatch"} -> "failed"
      [] OTHER -> v

Finish(x) ==
    /\ At(x, "finish") /\ Leased(x)
    /\ LET e == exec[x].candidate
           v == exec[x].verdict
       IN  /\ v = "done" => \A i \in DOMAIN Plan[e] :
                               attempt[e][Plan[e][i]] = "verified"
           /\ End(x, Final(v))
           /\ withdrawn' = IF v = "changed" THEN withdrawn \cup {e} ELSE withdrawn
    /\ UNCHANGED <<latest, attempt, receipts, inflight, effects>>

-----------------------------------------------------------------------------
(* What goes wrong.                                                        *)

\* execute() raises, or its process dies and comes back under a new owner; a
\* call that was made goes on without it.
Stop(x, dies) ==
    /\ ~At(x, "idle")
    /\ inflight' = IF At(x, "waiting")
                   THEN [inflight EXCEPT ![Current(x)] = @ + 1]
                   ELSE inflight
    /\ exec' = [exec EXCEPT ![x] = Idle]
    /\ holder' = IF dies
                 THEN [e \in Candidate |-> IF holder[e] = x THEN Gone ELSE holder[e]]
                 ELSE holder
    /\ UNCHANGED <<latest, withdrawn, status, attempt, receipts, effects>>

Expire(e) ==
    /\ holder[e] # Nobody
    /\ holder' = [holder EXCEPT ![e] = Nobody]
    /\ UNCHANGED <<latest, withdrawn, status, attempt, receipts, exec,
                   inflight, effects>>

\* A call that nobody waits for takes effect, or is lost.
LandLate(k) ==
    /\ inflight[k] > 0
    /\ inflight' = [inflight EXCEPT ![k] = @ - 1]
    /\ effects' = [effects EXCEPT ![k] = @ + 1]
    /\ UNCHANGED <<latest, withdrawn, status, holder, attempt, receipts,
                   exec>>

Lose(k) ==
    /\ inflight[k] > 0
    /\ inflight' = [inflight EXCEPT ![k] = @ - 1]
    /\ UNCHANGED <<latest, withdrawn, status, holder, attempt, receipts,
                   exec, effects>>

-----------------------------------------------------------------------------
Init ==
    /\ latest = 0
    /\ withdrawn = {}
    /\ status = [e \in Candidate |-> "none"]
    /\ holder = [e \in Candidate |-> Nobody]
    /\ attempt = [e \in Candidate |-> [k \in Action |-> "none"]]
    /\ receipts = {}
    /\ exec = [x \in Executor |-> Idle]
    /\ inflight = [k \in Action |-> 0]
    /\ effects = [k \in Action |-> 0]

Execute(x) ==
    \/ Claim(x) \/ Look(x) \/ ReadPrior(x) \/ RecordPrior(x) \/ Begin(x)
    \/ Refuse(x) \/ Call(x) \/ Answer(x) \/ Reconcile(x) \/ Record(x)
    \/ Finish(x)
    \/ \E dies \in BOOLEAN : Stop(x, dies)

Next ==
    \/ Adopt \/ Withdraw
    \/ \E x \in Executor : Execute(x) \/ Land(x)
    \/ \E e \in Candidate : Expire(e)
    \/ \E k \in Action : LandLate(k) \/ Lose(k)

Spec == Init /\ [][Next]_vars

-----------------------------------------------------------------------------
(* Properties.                                                             *)

TypeOK ==
    /\ latest \in 0 .. Len(Plan)
    /\ withdrawn \subseteq 1 .. latest
    /\ status \in [Candidate -> ExecutionStatus]
    /\ holder \in [Candidate -> Executor \cup {Gone, Nobody}]
    /\ attempt \in [Candidate -> [Action -> AttemptStatus]]
    /\ receipts \subseteq Action
    /\ exec \in [Executor -> [at : Phase, candidate : 0 .. Len(Plan), step : Nat,
                              seen : AttemptStatus, verdict : Verdict]]
    /\ inflight \in [Action -> Nat]
    /\ effects \in [Action -> Nat]

\* An action whose absence no read-back asserts takes effect at most once, for
\* all executors, candidates, crashes, expired leases and late calls together.
OneEffect == \A k \in Plain : effects[k] <= 1

\* What the business-object plan asks of every external action: whatever its
\* handler reads back, it takes effect at most once.
EveryEffectOnce == \A k \in Action : effects[k] <= 1

\* A receipt is only of an effect that happened, a verified attempt has its
\* receipt, and an execution that is done has had every effect of its plan.
ReceiptsAreReal ==
    /\ \A k \in receipts : effects[k] > 0
    /\ \A e \in Candidate : \A k \in Action :
          attempt[e][k] = "verified" => k \in receipts
    /\ \A e \in Candidate : status[e] = "done" =>
          \A i \in DOMAIN Plan[e] : effects[Plan[e][i]] > 0

\* An action is not begun before every earlier one of its plan is verified,
\* and these stay verified.
InPlanOrder ==
    \A e \in Candidate : \A i, j \in DOMAIN Plan[e] :
       i < j /\ attempt[e][Plan[e][j]] # "none" =>
          attempt[e][Plan[e][i]] = "verified"

\* A dispatch is journaled for the newest candidate only, while it is neither
\* withdrawn nor finished.
OnlyCurrentDispatches ==
    [][\A e \in Candidate : \A k \in Action :
         attempt[e][k] # "dispatched" /\ attempt'[e][k] = "dispatched" =>
            e = latest /\ e \notin withdrawn /\ status[e] = "running"]_vars

\* The journal, the leases and the calls together implement effects that
\* happen at most once and receipts that follow them.
Once == INSTANCE OnceEffect WITH
    Action <- Plain,
    effects <- [k \in Plain |-> effects[k]],
    receipts <- receipts \cap Plain

OnceImplemented == Once!Spec
=============================================================================
