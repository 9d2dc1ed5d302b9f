----------------------- MODULE ExternalActionProofs -----------------------
(***************************************************************************)
(* What holds of the reviewed execution for every set of actions, every    *)
(* sequence of candidates and every number of executors.                   *)
(***************************************************************************)
EXTENDS ExternalAction, TLAPS

-----------------------------------------------------------------------------
(* The inductive invariant.                                                *)

\* What an executor may be about to record, and to finish with.
Answers == {"verified", "uncertain", "no_effect", "rejected", "failed",
            "mismatch", "changed"}
Results == {"changed", "unreadable", "failed", "uncertain", "no_effect",
            "mismatch", "done", "skipped"}

\* Executors are at candidates that were adopted, and at actions of their plan.
AtWork ==
    \A x \in Executor :
       /\ ~At(x, "idle") => exec[x].candidate \in 1 .. latest
       /\ exec[x].at \notin {"idle", "finish"} =>
             exec[x].step \in DOMAIN Plan[exec[x].candidate]
       /\ At(x, "look") => exec[x].verdict = "none"
       /\ At(x, "prior") => exec[x].verdict \in {"none", "verified", "no_effect"}
       /\ At(x, "record") => exec[x].verdict \in Answers
       /\ At(x, "finish") => exec[x].verdict \in Results

\* Only the newest candidate runs unless it was withdrawn, and only adopted
\* candidates have attempts.
NewestRuns ==
    /\ \A e \in Candidate :
          status[e] = "running" /\ e \notin withdrawn => e = latest
    /\ \A e \in Candidate : \A k \in Action : attempt[e][k] # "none" => e <= latest

Calling(x, k) == exec[x].at \in {"call", "waiting"} /\ Current(x) = k

\* Nothing was done about the action, and nobody is about to.
Quiet(k) ==
    /\ effects[k] = 0
    /\ inflight[k] = 0
    /\ \A x \in Executor : ~Calling(x, k)

LastRow(d, k) ==
    /\ attempt[d][k] # "none"
    /\ \A c \in Candidate : c > d => attempt[c][k] = "none"

\* One call at a time, and none after an effect or a call in flight.
OneCall ==
    \A k \in Plain :
       /\ effects[k] + inflight[k] <= 1
       /\ \A x \in Executor : Calling(x, k) => effects[k] = 0 /\ inflight[k] = 0
       /\ \A x, y \in Executor : Calling(x, k) /\ Calling(y, k) => x = y

\* Between the journal and the record of the answer, for who has the lease.
Engaged(x) ==
    exec[x].at \in {"call", "waiting", "landed", "reconcile", "record"} /\ Leased(x)

\* The answers that give an action free again.
Frees(x) ==
    /\ At(x, "record")
    /\ Current(x) \in Plain
    /\ \/ exec[x].verdict \in {"no_effect", "rejected"}
       \/ exec[x].verdict = "mismatch" /\ Current(x) \notin Reply

\* An executor that may record has its attempt open, and begun nothing after.
Journaled ==
    \A x \in Executor : Engaged(x) =>
       LET e == exec[x].candidate
           i == exec[x].step
       IN  /\ \/ attempt[e][Plan[e][i]] \in Open
              \/ /\ At(x, "record") /\ exec[x].verdict = "failed"
                 /\ attempt[e][Plan[e][i]] # "none"
           /\ \A j \in DOMAIN Plan[e] : j > i => attempt[e][Plan[e][j]] = "none"

\* What the journal lets be tried is quiet; so is what failed for its
\* preparation, and what an executor is about to give free.
JournalTells ==
    \A k \in Plain :
       /\ (\A d \in Candidate : LastRow(d, k) => attempt[d][k] = "no_effect") => Quiet(k)
       /\ \A d \in Candidate :
             k \notin Reply /\ LastRow(d, k) /\ attempt[d][k] = "mismatch" => Quiet(k)
       /\ \A x \in Executor :
             Frees(x) /\ Leased(x) /\ Current(x) = k /\ LastRow(exec[x].candidate, k)
                => Quiet(k)

\* Whoever says verified has seen the effect.
Witnessed ==
    /\ \A x \in Executor :
          exec[x].at \in {"prior", "record"} /\ exec[x].verdict = "verified" =>
             effects[Current(x)] > 0
    /\ \A x \in Executor : At(x, "landed") => effects[Current(x)] > 0
    /\ \A x \in Executor :
          At(x, "prior") /\ exec[x].verdict = "no_effect" => Current(x) \notin Reply

IInv ==
    /\ TypeOK
    /\ AtWork
    /\ NewestRuns
    /\ OneCall
    /\ Journaled
    /\ JournalTells
    /\ Witnessed
    /\ ReceiptsAreReal
    /\ InPlanOrder

-----------------------------------------------------------------------------
(* What a step of an executor is, field by field.                          *)

Others(x) == \A y \in Executor : y # x => exec'[y] = exec[y]

\* An executor that goes on at the same action.
Turned(x) ==
    /\ Others(x)
    /\ exec'[x].candidate = exec[x].candidate
    /\ exec'[x].step = exec[x].step

\* Look, ReadPrior, Refuse, Call, Reconcile, and Answer but for a lost call.
Thinks(x) ==
    /\ Turned(x)
    /\ \/ /\ exec[x].at \in {"look", "prior"}
          /\ exec'[x].at = "finish"
          /\ exec'[x].verdict \in {"changed", "unreadable", "failed"}
       \/ /\ At(x, "look")
          /\ exec'[x].at \in {"prior", "begin"}
          /\ exec'[x].verdict = "none"
       \/ /\ At(x, "prior")
          /\ exec'[x].at = "prior"
          /\ \/ exec'[x].verdict = "verified" /\ effects[Current(x)] > 0
             \/ exec'[x].verdict = "no_effect" /\ Current(x) \notin Reply
       \/ At(x, "call") /\ exec'[x].at = "waiting" /\ exec'[x].verdict = "none"
       \/ /\ exec[x].at \in {"call", "waiting", "landed", "reconcile"}
          /\ exec'[x].at = "record"
          /\ exec'[x].verdict \in Answers
          /\ exec'[x].verdict = "verified" => effects[Current(x)] > 0
          /\ At(x, "landed") => exec'[x].verdict \notin {"no_effect", "rejected", "mismatch"}
          /\ At(x, "reconcile") =>
                /\ exec'[x].verdict \in {"no_effect", "rejected"} => Current(x) \notin Plain
                /\ exec'[x].verdict = "mismatch" => Current(x) \in Reply
    /\ UNCHANGED <<latest, withdrawn, status, holder, attempt, receipts,
                   inflight, effects>>

State == [at : Phase, candidate : 0 .. Len(Plan), step : Nat,
          seen : AttemptStatus, verdict : Verdict]

\* A move to another phase, field by field.
LEMMA ToFields ==
    ASSUME exec \in [Executor -> State], NEW x \in Executor, NEW p \in Phase,
           NEW v \in Verdict, To(x, p, v)
    PROVE  /\ exec' \in [Executor -> State]
           /\ Turned(x)
           /\ exec'[x].at = p
           /\ exec'[x].verdict = v
  BY DEF To, State, Turned, Others

\* Candidates are the numbers up to the length of the sequence of plans.
LEMMA PlansTyped ==
           /\ Len(Plan) \in Nat
           /\ Candidate = 1 .. Len(Plan)
           /\ \A e \in Candidate : /\ Plan[e] \in Seq(Action)
                                  /\ DOMAIN Plan[e] = 1 .. Len(Plan[e])
                                  /\ Len(Plan[e]) \in Nat
                                  /\ \A i \in DOMAIN Plan[e] : Plan[e][i] \in Action
  BY ActionAssumption DEF Candidate

\* An executor at work is at an action of an adopted candidate.
LEMMA AtAction ==
    ASSUME TypeOK, AtWork, NEW x \in Executor
    PROVE  /\ exec[x].at # "idle" =>
                 exec[x].candidate \in Candidate /\ exec[x].candidate <= latest
           /\ exec[x].at \notin {"idle", "finish"} =>
                 /\ exec[x].step \in DOMAIN Plan[exec[x].candidate]
                 /\ Current(x) \in Action
  BY PlansTyped DEF TypeOK, AtWork, At, Current

LEMMA Thinking ==
    ASSUME TypeOK, AtWork, Witnessed, NEW x \in Executor,
           \/ Look(x) \/ ReadPrior(x) \/ Refuse(x) \/ Call(x) \/ Reconcile(x)
           \/ Answer(x) /\ inflight' = inflight
    PROVE  Thinks(x) /\ exec' \in [Executor -> State]
<1>1. exec \in [Executor -> State]
  BY DEF TypeOK, State
<1>2. CASE Look(x)
  <2>1. exec[x].candidate \in Candidate /\ Current(x) \in Action
    BY <1>2, AtAction DEF Look, At
  <2>2. PICK read : read = attempt[exec[x].candidate][Current(x)]
    OBVIOUS
  <2>3. read \in AttemptStatus
    BY <2>1, <2>2 DEF TypeOK
  <2>4. CASE \E v \in {"changed", "unreadable", "failed"} : To(x, "finish", v)
    BY <1>1, <1>2, <2>4, ToFields DEF Look, At, Thinks, Phase, Verdict
  <2>5. CASE \E p \in {"prior", "begin"} :
               exec' = [exec EXCEPT ![x].seen = read, ![x].at = p]
    BY <1>1, <1>2, <2>3, <2>5
    DEF Look, At, Thinks, AtWork, Phase, Verdict, State, Turned, Others
  <2> QED
    BY <1>2, <2>2, <2>4, <2>5 DEF Look
<1>3. CASE ReadPrior(x)
  BY <1>1, <1>3, ToFields DEF ReadPrior, At, Thinks, Phase, Verdict
<1>4. CASE Refuse(x)
  BY <1>1, <1>4, ToFields DEF Refuse, At, Thinks, Phase, Verdict, Answers
<1>5. CASE Call(x)
  BY <1>1, <1>5, ToFields DEF Call, At, Thinks, Phase, Verdict
<1>6. CASE Reconcile(x)
  BY <1>1, <1>6, ToFields DEF Reconcile, ReadBack, At, Thinks, Phase, Verdict, Answers, Plain
<1>7. CASE Answer(x) /\ inflight' = inflight
  BY <1>1, <1>7, ToFields DEF Answer, At, Thinks, Phase, Verdict, Answers, Witnessed
<1> QED
  BY <1>2, <1>3, <1>4, <1>5, <1>6, <1>7

\* One attempt is written.
Wrote(e, k, result) ==
    /\ attempt'[e][k] = result
    /\ \A d \in Candidate : \A l \in Action :
          d # e \/ l # k => attempt'[d][l] = attempt[d][l]

LEMMA SettleFields ==
    ASSUME attempt \in [Candidate -> [Action -> AttemptStatus]],
           NEW e \in Candidate, NEW k \in Action, NEW result \in AttemptStatus,
           Settle(e, k, result)
    PROVE  Wrote(e, k, result) /\ attempt' \in [Candidate -> [Action -> AttemptStatus]]
  BY DEF Settle, Wrote

Advances(x) ==
    /\ Others(x)
    /\ exec'[x].candidate = exec[x].candidate
    /\ \/ /\ exec'[x].at = "look"
          /\ exec'[x].verdict = "none"
          /\ exec'[x].step \in DOMAIN Plan[exec[x].candidate]
       \/ exec'[x].at = "finish" /\ exec'[x].verdict = "done"

LEMMA AdvancedFields ==
    ASSUME exec \in [Executor -> State], NEW x \in Executor,
           exec[x].candidate \in Candidate,
           exec[x].step \in DOMAIN Plan[exec[x].candidate], Advanced(x)
    PROVE  Advances(x) /\ exec' \in [Executor -> State]
<1> DEFINE e == exec[x].candidate
           i == exec[x].step
<1>1. i \in Nat /\ i \in 1 .. Len(Plan[e]) /\ Len(Plan[e]) \in Nat /\ e \in 0 .. Len(Plan)
  BY PlansTyped
<1>2. CASE i < Len(Plan[e])
  <2>0. PICK s : s = [Idle EXCEPT !.at = "look", !.candidate = e, !.step = i + 1]
    OBVIOUS
  <2>1. s = [at |-> "look", candidate |-> e, step |-> i + 1,
             seen |-> "none", verdict |-> "none"]
    BY <2>0 DEF Idle
  <2>2. s \in State
    <3>1. i + 1 \in Nat
      BY <1>1
    <3>2. "look" \in Phase /\ "none" \in AttemptStatus /\ "none" \in Verdict
      BY DEF Phase, AttemptStatus, Verdict
    <3> HIDE DEF e, i
    <3> QED
      BY <1>1, <2>1, <3>1, <3>2 DEF State
  <2>3. exec' = [exec EXCEPT ![x] = s]
    BY <1>2, <2>0 DEF Advanced
  <2>4. i + 1 \in DOMAIN Plan[e]
    BY <1>1, <1>2, PlansTyped
  <2> HIDE DEF e, i
  <2>5. /\ s.at = "look" /\ s.candidate = e /\ s.step = i + 1 /\ s.verdict = "none"
    BY <2>1
  <2>6. exec'[x] = s /\ Others(x) /\ exec' \in [Executor -> State]
    BY <2>2, <2>3 DEF Others
  <2>7. s.step \in DOMAIN Plan[e]
    BY <2>4, <2>5
  <2> QED
    BY <2>5, <2>6, <2>7 DEF Advances, e
<1>3. CASE ~(i < Len(Plan[e]))
  <2>0. PICK s : s = [Idle EXCEPT !.at = "finish", !.candidate = e, !.step = i,
                                !.verdict = "done"]
    OBVIOUS
  <2>1. s = [at |-> "finish", candidate |-> e, step |-> i,
             seen |-> "none", verdict |-> "done"]
    BY <2>0 DEF Idle
  <2>2. s \in State
    <3>1. "finish" \in Phase /\ "none" \in AttemptStatus /\ "done" \in Verdict
      BY DEF Phase, AttemptStatus, Verdict
    <3> HIDE DEF e, i
    <3> QED
      BY <1>1, <2>1, <3>1 DEF State
  <2>3. exec' = [exec EXCEPT ![x] = s]
    BY <1>3, <2>0 DEF Advanced
  <2> HIDE DEF e, i
  <2> QED
    BY <2>1, <2>2, <2>3 DEF Advances, Others, e
<1> QED
  BY <1>2, <1>3

\* An execution that ends.
Ends(x, final) ==
    /\ Others(x)
    /\ At(x, "idle")'
    /\ status'[exec[x].candidate] = final
    /\ holder'[exec[x].candidate] = Nobody
    /\ \A e \in Candidate : e # exec[x].candidate =>
          status'[e] = status[e] /\ holder'[e] = holder[e]

LEMMA EndFields ==
    ASSUME TypeOK, NEW x \in Executor, exec[x].candidate \in Candidate,
           NEW final \in ExecutionStatus, End(x, final)
    PROVE  /\ Ends(x, final)
           /\ exec' \in [Executor -> State]
           /\ status' \in [Candidate -> ExecutionStatus]
           /\ holder' \in [Candidate -> Executor \cup {Gone, Nobody}]
<1>1. Idle \in State /\ Idle.at = "idle"
  BY PlansTyped DEF Idle, State, Phase, AttemptStatus, Verdict
<1>2. exec \in [Executor -> State]
  BY DEF TypeOK, State
<1> QED
  BY <1>1, <1>2 DEF End, Ends, Others, At, TypeOK

\* Begin, by what the attempt becomes.
Begins(x) ==
    LET e == exec[x].candidate
        k == Current(x)
    IN  /\ At(x, "begin") /\ Owned(x)
        /\ \A i \in 1 .. exec[x].step - 1 : attempt[e][Plan[e][i]] = "verified"
        /\ \/ /\ Wrote(e, k, "verified") /\ Advances(x)
              /\ attempt[e][k] = "verified" \/ k \in receipts
           \/ /\ attempt[e][k] \in {"failed", "mismatch"}
              /\ attempt' = attempt
              /\ Turned(x) /\ exec'[x].at = "record" /\ exec'[x].verdict = "failed"
           \/ /\ attempt[e][k] # "verified"
              /\ \E now \in Open : Wrote(e, k, now)
              /\ Turned(x) /\ exec'[x].at = "reconcile" /\ exec'[x].verdict = "none"
           \/ /\ \/ attempt[e][k] = "no_effect"
                 \/ attempt[e][k] = "none" /\ Untried(e, k)
              /\ Wrote(e, k, "dispatched")
              /\ Turned(x) /\ exec'[x].at = "call" /\ exec'[x].verdict = "none"
        /\ UNCHANGED <<latest, withdrawn, status, holder, receipts, inflight, effects>>

LEMMA Beginning ==
    ASSUME TypeOK, AtWork, NEW x \in Executor, Begin(x)
    PROVE  /\ Begins(x)
           /\ exec' \in [Executor -> State]
           /\ attempt' \in [Candidate -> [Action -> AttemptStatus]]
<1> DEFINE e == exec[x].candidate
           k == Current(x)
           now == Begun(e, k)
<1>1. /\ e \in Candidate /\ k \in Action /\ exec[x].step \in DOMAIN Plan[e]
      /\ At(x, "begin") /\ Owned(x)
  BY AtAction DEF Begin, At
<1>2. /\ exec \in [Executor -> State]
      /\ attempt \in [Candidate -> [Action -> AttemptStatus]]
      /\ attempt[e][k] \in AttemptStatus
  BY <1>1 DEF TypeOK, State
<1>3. now \in AttemptStatus \ {"none", "no_effect"}
  BY <1>2 DEF Begun, AttemptStatus, Open
<1>4. Wrote(e, k, now) /\ attempt' \in [Candidate -> [Action -> AttemptStatus]]
  BY <1>1, <1>2, <1>3, SettleFields DEF Begin
<1>5. /\ \A i \in 1 .. exec[x].step - 1 : attempt[e][Plan[e][i]] = "verified"
      /\ attempt[e][k] = "none" /\ k \notin receipts => Untried(e, k)
      /\ UNCHANGED <<latest, withdrawn, status, holder, receipts, inflight, effects>>
  BY DEF Begin
<1>6. CASE now = "verified"
  <2>1. Advances(x) /\ exec' \in [Executor -> State]
    BY <1>1, <1>2, <1>6, AdvancedFields DEF Begin
  <2>2. attempt[e][k] = "verified" \/ k \in receipts
    BY <1>6 DEF Begun
  <2> QED
    BY <1>1, <1>4, <1>5, <1>6, <2>1, <2>2 DEF Begins
<1>7. CASE now # "verified"
  <2>1. PICK p \in Phase, v \in Verdict :
           /\ exec' = [exec EXCEPT ![x].seen = "none", ![x].at = p, ![x].verdict = v]
           /\ p = CASE now \in {"failed", "mismatch"} -> "record"
                    [] now = "dispatched" /\ exec[x].seen \notin Open -> "call"
                    [] OTHER -> "reconcile"
           /\ v = IF now \in {"failed", "mismatch"} THEN "failed" ELSE "none"
    BY <1>7 DEF Begin, Phase, Verdict
  <2>2. /\ exec' \in [Executor -> State] /\ Turned(x)
        /\ exec'[x].at = p /\ exec'[x].verdict = v
    BY <1>2, <2>1 DEF State, Turned, Others, AttemptStatus
  <2>3. CASE now \in {"failed", "mismatch"}
    <3>1. attempt[e][k] = now
      BY <2>3, <1>2 DEF Begun
    <3>2. attempt' = attempt
      BY <1>1, <1>2, <3>1 DEF Begin, Settle
    <3> QED
      BY <1>1, <1>4, <1>5, <2>1, <2>2, <2>3, <3>1, <3>2 DEF Begins
  <2>4. CASE now = "dispatched" /\ exec[x].seen \notin Open
    <3>1. attempt[e][k] # "dispatched"
      BY <2>4 DEF Begun
    <3>2. attempt[e][k] = "no_effect" \/ (attempt[e][k] = "none" /\ k \notin receipts)
      BY <2>4, <3>1 DEF Begun
    <3> QED
      BY <1>1, <1>4, <1>5, <2>1, <2>2, <2>4, <3>2 DEF Begins
  <2>5. CASE now \notin {"failed", "mismatch"} /\ ~(now = "dispatched" /\ exec[x].seen \notin Open)
    <3>1. attempt[e][k] # "verified"
      BY <1>7 DEF Begun
    <3>2. now \in Open
      BY <1>3, <1>7, <2>5 DEF AttemptStatus
    <3> QED
      BY <1>1, <1>4, <1>5, <2>1, <2>2, <2>5, <3>1, <3>2 DEF Begins
  <2> QED
    BY <2>3, <2>4, <2>5
<1> QED
  BY <1>4, <1>6, <1>7

\* The other steps of an executor.
Claims(x) ==
    /\ At(x, "idle")
    /\ latest \in Candidate /\ latest \notin withdrawn
    /\ Others(x)
    /\ exec'[x].candidate = latest
    /\ \/ exec'[x].at = "finish" /\ exec'[x].verdict = "skipped"
       \/ /\ exec'[x].at = "look"
          /\ exec'[x].verdict = "none"
          /\ exec'[x].step \in DOMAIN Plan[latest]
    /\ status'[latest] = "running" /\ holder'[latest] = x
    /\ \A e \in Candidate : e # latest => status'[e] = status[e] /\ holder'[e] = holder[e]
    /\ UNCHANGED <<latest, withdrawn, attempt, receipts, inflight, effects>>

\* A count is one more for one action.
More(f, g, k) == g[k] = f[k] + 1 /\ \A l \in Action : l # k => g[l] = f[l]

Lands(x) ==
    /\ Turned(x) /\ At(x, "waiting") /\ exec'[x].at = "landed"
    /\ More(effects, effects', Current(x))
    /\ UNCHANGED <<latest, withdrawn, status, holder, attempt, receipts, inflight>>

Misses(x) ==
    /\ Turned(x) /\ At(x, "waiting")
    /\ exec'[x].at = "record" /\ exec'[x].verdict = "uncertain"
    /\ More(inflight, inflight', Current(x))
    /\ UNCHANGED <<latest, withdrawn, status, holder, attempt, receipts, effects>>

Records(x) ==
    LET e == exec[x].candidate
        v == exec[x].verdict
    IN  /\ At(x, "record") /\ Leased(x)
        /\ Wrote(e, Current(x), Outcome(v))
        /\ \/ /\ v = "verified"
              /\ receipts' = receipts \cup {Current(x)}
              /\ Advances(x)
              /\ UNCHANGED <<status, holder>>
           \/ v = "rejected" /\ Ends(x, "failed") /\ UNCHANGED receipts
           \/ /\ v \notin {"verified", "rejected"}
              /\ Turned(x) /\ exec'[x].at = "finish" /\ exec'[x].verdict = v
              /\ UNCHANGED <<status, holder, receipts>>
        /\ UNCHANGED <<latest, withdrawn, inflight, effects>>

RecordsPrior(x) ==
    LET k == Current(x)
        v == exec[x].verdict
    IN  /\ At(x, "prior") /\ v \in {"verified", "no_effect"}
        /\ \E d \in Candidate :
              attempt[d][k] = "mismatch" /\ LastOther(d, exec[x].candidate, k) /\ Wrote(d, k, v)
        /\ receipts' = IF v = "verified" THEN receipts \cup {k} ELSE receipts
        /\ Turned(x) /\ exec'[x].at = "begin" /\ exec'[x].verdict = "none"
        /\ UNCHANGED <<latest, withdrawn, status, holder, inflight, effects>>

Finishes(x) ==
    LET e == exec[x].candidate
        v == exec[x].verdict
    IN  /\ At(x, "finish") /\ Leased(x)
        /\ v = "done" => \A i \in DOMAIN Plan[e] : attempt[e][Plan[e][i]] = "verified"
        /\ Ends(x, Final(v))
        /\ withdrawn \subseteq withdrawn'
        /\ UNCHANGED <<latest, attempt, receipts, inflight, effects>>

Stops(x) ==
    /\ ~At(x, "idle") /\ At(x, "idle")'
    /\ Others(x)
    /\ \/ At(x, "waiting") /\ More(inflight, inflight', Current(x))
       \/ ~At(x, "waiting") /\ UNCHANGED inflight
    /\ \A e \in Candidate : holder'[e] = holder[e] \/ holder'[e] = Gone
    /\ UNCHANGED <<latest, withdrawn, status, attempt, receipts, effects>>

\* The steps of nobody.
Expires ==
    /\ \A e \in Candidate : holder'[e] = holder[e] \/ holder'[e] = Nobody
    /\ UNCHANGED <<latest, withdrawn, status, attempt, receipts, exec, inflight, effects>>

Lates(k) ==
    /\ More(inflight', inflight, k)
    /\ effects' = effects \/ More(effects, effects', k)
    /\ UNCHANGED <<latest, withdrawn, status, holder, attempt, receipts, exec>>

Moves(x) ==
    \/ Claims(x) \/ Thinks(x) \/ Begins(x) \/ Lands(x) \/ Misses(x)
    \/ Records(x) \/ RecordsPrior(x) \/ Finishes(x) \/ Stops(x)

\* Every step is one of these, and keeps the types.
LEMMA Claiming ==
    ASSUME TypeOK, AtWork, NEW x \in Executor, Claim(x)
    PROVE  Claims(x) /\ TypeOK'
<1>1. latest \in Candidate /\ latest \in 0 .. Len(Plan)
  BY PlansTyped DEF TypeOK, Claim
<1>2. exec \in [Executor -> State]
  BY DEF TypeOK, State
<1>3. PICK s : s = IF Plan[latest] = <<>>
                   THEN [Idle EXCEPT !.at = "finish", !.candidate = latest,
                                     !.verdict = "skipped"]
                   ELSE [Idle EXCEPT !.at = "look", !.candidate = latest, !.step = 1]
  OBVIOUS
<1>4. /\ s \in State
      /\ s.candidate = latest
      /\ \/ s.at = "finish" /\ s.verdict = "skipped"
         \/ s.at = "look" /\ s.verdict = "none" /\ s.step \in DOMAIN Plan[latest]
  <2>1. CASE Plan[latest] = <<>>
    <3>1. s = [at |-> "finish", candidate |-> latest, step |-> 0,
               seen |-> "none", verdict |-> "skipped"]
      BY <1>3, <2>1 DEF Idle
    <3> QED
      BY <1>1, <3>1 DEF State, Phase, AttemptStatus, Verdict
  <2>2. CASE Plan[latest] # <<>>
    <3>1. s = [at |-> "look", candidate |-> latest, step |-> 1,
               seen |-> "none", verdict |-> "none"]
      BY <1>3, <2>2 DEF Idle
    <3>2. 1 \in DOMAIN Plan[latest]
      BY <1>1, <2>2, PlansTyped
    <3> QED
      BY <1>1, <3>1, <3>2 DEF State, Phase, AttemptStatus, Verdict
  <2> QED
    BY <2>1, <2>2
<1>5. exec' = [exec EXCEPT ![x] = s]
  BY <1>3 DEF Claim
<1>6. exec' \in [Executor -> State] /\ Others(x) /\ exec'[x] = s
  BY <1>2, <1>4, <1>5 DEF Others
<1>7. /\ status' \in [Candidate -> ExecutionStatus]
      /\ holder' \in [Candidate -> Executor \cup {Gone, Nobody}]
      /\ status'[latest] = "running" /\ holder'[latest] = x
      /\ \A e \in Candidate : e # latest => status'[e] = status[e] /\ holder'[e] = holder[e]
  BY <1>1 DEF Claim, TypeOK, ExecutionStatus
<1>8. Claims(x)
  BY <1>1, <1>4, <1>6, <1>7 DEF Claim, Claims
<1> QED
  BY <1>6, <1>7, <1>8 DEF Claim, TypeOK, State

LEMMA Landing ==
    ASSUME TypeOK, AtWork, NEW x \in Executor, Land(x)
    PROVE  Lands(x) /\ TypeOK'
<1>1. Current(x) \in Action
  BY AtAction DEF Land, At
<1>2. exec' \in [Executor -> State] /\ Turned(x) /\ exec'[x].at = "landed"
  BY ToFields DEF Land, TypeOK, State, Phase, Verdict
<1>3. effects' \in [Action -> Nat] /\ More(effects, effects', Current(x))
  BY <1>1 DEF Land, TypeOK, More
<1> QED
  BY <1>2, <1>3 DEF Land, Lands, TypeOK, State

LEMMA Missing ==
    ASSUME TypeOK, AtWork, NEW x \in Executor, Answer(x), inflight' # inflight
    PROVE  Misses(x) /\ TypeOK'
<1>1. /\ At(x, "waiting") /\ To(x, "record", "uncertain")
      /\ inflight' = [inflight EXCEPT ![Current(x)] = @ + 1]
  BY DEF Answer
<1>2. Current(x) \in Action
  BY <1>1, AtAction DEF At
<1>3. /\ exec' \in [Executor -> State] /\ Turned(x)
      /\ exec'[x].at = "record" /\ exec'[x].verdict = "uncertain"
  BY <1>1, ToFields DEF TypeOK, State, Phase, Verdict
<1>4. inflight' \in [Action -> Nat] /\ More(inflight, inflight', Current(x))
  BY <1>1, <1>2 DEF TypeOK, More
<1> QED
  BY <1>1, <1>3, <1>4 DEF Answer, Misses, TypeOK, State

LEMMA Recording ==
    ASSUME TypeOK, AtWork, NEW x \in Executor, Record(x)
    PROVE  Records(x) /\ TypeOK'
<1> DEFINE e == exec[x].candidate
           v == exec[x].verdict
<1>1. /\ e \in Candidate /\ Current(x) \in Action /\ exec[x].step \in DOMAIN Plan[e]
      /\ v \in Answers
  BY AtAction DEF Record, At, AtWork
<1>2. exec \in [Executor -> State]
  BY DEF TypeOK, State
<1>3. Outcome(v) \in AttemptStatus
  BY <1>1 DEF Outcome, Answers, AttemptStatus, Open
<1>4. /\ Wrote(e, Current(x), Outcome(v))
      /\ attempt' \in [Candidate -> [Action -> AttemptStatus]]
  BY <1>1, <1>3, SettleFields DEF Record, TypeOK
<1>5. CASE v = "verified"
  <2>1. Advances(x) /\ exec' \in [Executor -> State]
    BY <1>1, <1>2, <1>5, AdvancedFields DEF Record
  <2> QED
    BY <1>1, <1>4, <1>5, <2>1 DEF Record, Records, TypeOK, State
<1>6. CASE v = "rejected"
  <2>1. End(x, "failed") /\ UNCHANGED receipts /\ "failed" \in ExecutionStatus
    BY <1>6 DEF Record, ExecutionStatus, Ended
  <2> QED
    BY <1>1, <1>4, <1>6, <2>1, EndFields DEF Record, Records, TypeOK, State
<1>7. CASE v \notin {"verified", "rejected"}
  <2>1. To(x, "finish", v) /\ UNCHANGED <<status, holder, receipts>>
    BY <1>7 DEF Record
  <2>2. "finish" \in Phase /\ v \in Verdict
    BY <1>1 DEF Phase, Answers, Verdict
  <2>3. /\ exec' \in [Executor -> State] /\ Turned(x)
        /\ exec'[x].at = "finish" /\ exec'[x].verdict = v
    BY <1>2, <2>1, <2>2, ToFields
  <2> QED
    BY <1>4, <1>7, <2>1, <2>3 DEF Record, Records, TypeOK, State
<1> QED
  BY <1>5, <1>6, <1>7

LEMMA RecordingPrior ==
    ASSUME TypeOK, AtWork, NEW x \in Executor, RecordPrior(x)
    PROVE  RecordsPrior(x) /\ TypeOK'
<1> DEFINE k == Current(x)
           v == exec[x].verdict
<1>1. k \in Action /\ v \in {"verified", "no_effect"} /\ At(x, "prior")
  BY AtAction DEF RecordPrior, At, AtWork
<1>2. PICK d \in Candidate :
         /\ LastOther(d, exec[x].candidate, k) /\ attempt[d][k] = "mismatch"
         /\ Settle(d, k, v)
         /\ receipts' = IF v = "verified" THEN receipts \cup {k} ELSE receipts
  BY DEF RecordPrior
<1>3. Wrote(d, k, v) /\ attempt' \in [Candidate -> [Action -> AttemptStatus]]
  BY <1>1, <1>2, SettleFields DEF TypeOK, AttemptStatus
<1>4. /\ exec' \in [Executor -> State] /\ Turned(x)
      /\ exec'[x].at = "begin" /\ exec'[x].verdict = "none"
  BY ToFields DEF RecordPrior, TypeOK, State, Phase, Verdict
<1>5. receipts' \subseteq Action
  BY <1>1, <1>2 DEF TypeOK
<1> QED
  BY <1>1, <1>2, <1>3, <1>4, <1>5 DEF RecordPrior, RecordsPrior, TypeOK, State

LEMMA Finishing ==
    ASSUME TypeOK, AtWork, NEW x \in Executor, Finish(x)
    PROVE  Finishes(x) /\ TypeOK'
<1> DEFINE e == exec[x].candidate
           v == exec[x].verdict
<1>1. e \in Candidate /\ e \in 1 .. latest /\ v \in Results
  BY AtAction DEF Finish, At, AtWork
<1>2. Final(v) \in ExecutionStatus
  BY <1>1 DEF Final, Results, ExecutionStatus, Ended
<1>3. withdrawn' \subseteq 1 .. latest /\ withdrawn \subseteq withdrawn'
  BY <1>1 DEF Finish, TypeOK
<1> QED
  BY <1>1, <1>2, <1>3, EndFields DEF Finish, Finishes, TypeOK, State

LEMMA Stopping ==
    ASSUME TypeOK, AtWork, NEW x \in Executor, NEW dies \in BOOLEAN, Stop(x, dies)
    PROVE  Stops(x) /\ TypeOK'
<1>1. Idle \in State /\ Idle.at = "idle"
  BY PlansTyped DEF Idle, State, Phase, AttemptStatus, Verdict
<1>2. exec' \in [Executor -> State] /\ Others(x) /\ At(x, "idle")'
  BY <1>1 DEF Stop, TypeOK, State, Others, At
<1>3. /\ holder' \in [Candidate -> Executor \cup {Gone, Nobody}]
      /\ \A e \in Candidate : holder'[e] = holder[e] \/ holder'[e] = Gone
  BY DEF Stop, TypeOK
<1>4. CASE At(x, "waiting")
  <2>1. Current(x) \in Action
    BY <1>4, AtAction DEF At
  <2>2. inflight' \in [Action -> Nat] /\ More(inflight, inflight', Current(x))
    BY <1>4, <2>1 DEF Stop, TypeOK, More
  <2> QED
    BY <1>2, <1>3, <1>4, <2>2 DEF Stop, Stops, TypeOK, State
<1>5. CASE ~At(x, "waiting")
  BY <1>2, <1>3, <1>5 DEF Stop, Stops, TypeOK, State
<1> QED
  BY <1>4, <1>5

LEMMA Steps ==
    ASSUME TypeOK, AtWork, Witnessed, [Next]_vars
    PROVE  /\ TypeOK'
           /\ \/ UNCHANGED vars
              \/ Adopt
              \/ Withdraw
              \/ \E x \in Executor : Moves(x)
              \/ Expires
              \/ \E k \in Action : Lates(k)
<1>1. CASE UNCHANGED vars
  BY <1>1 DEF vars, TypeOK
<1>2. CASE Adopt
  BY <1>2, PlansTyped DEF Adopt, TypeOK
<1>3. CASE Withdraw
  BY <1>3 DEF Withdraw, TypeOK
<1>4. ASSUME NEW x \in Executor, Execute(x) \/ Land(x) PROVE Moves(x) /\ TypeOK'
  <2>1. CASE Claim(x)
    BY <2>1, Claiming DEF Moves
  <2>2. CASE \/ Look(x) \/ ReadPrior(x) \/ Refuse(x) \/ Call(x) \/ Reconcile(x)
             \/ Answer(x) /\ inflight' = inflight
    <3>1. Thinks(x) /\ exec' \in [Executor -> State]
      BY <2>2, Thinking
    <3> QED
      BY <3>1 DEF Moves, Thinks, TypeOK, State
  <2>3. CASE Answer(x) /\ inflight' # inflight
    BY <2>3, Missing DEF Moves
  <2>4. CASE Begin(x)
    <3>1. /\ Begins(x) /\ exec' \in [Executor -> State]
          /\ attempt' \in [Candidate -> [Action -> AttemptStatus]]
      BY <2>4, Beginning
    <3> QED
      BY <3>1 DEF Moves, Begins, TypeOK, State
  <2>5. CASE Land(x)
    BY <2>5, Landing DEF Moves
  <2>6. CASE Record(x)
    BY <2>6, Recording DEF Moves
  <2>7. CASE RecordPrior(x)
    BY <2>7, RecordingPrior DEF Moves
  <2>8. CASE Finish(x)
    BY <2>8, Finishing DEF Moves
  <2>9. CASE \E dies \in BOOLEAN : Stop(x, dies)
    BY <2>9, Stopping DEF Moves
  <2> QED
    BY <1>4, <2>1, <2>2, <2>3, <2>4, <2>5, <2>6, <2>7, <2>8, <2>9 DEF Execute
<1>5. ASSUME NEW e \in Candidate, Expire(e) PROVE Expires /\ TypeOK'
  BY <1>5 DEF Expire, Expires, TypeOK
<1>6. ASSUME NEW k \in Action, LandLate(k) \/ Lose(k) PROVE Lates(k) /\ TypeOK'
  <2>0. PICK n \in Nat : n = inflight[k] - 1
    BY <1>6 DEF LandLate, Lose, TypeOK
  <2>1. inflight' \in [Action -> Nat] /\ More(inflight', inflight, k)
    <3>1. inflight' = [inflight EXCEPT ![k] = n] /\ inflight[k] = n + 1
      BY <1>6, <2>0 DEF LandLate, Lose, TypeOK
    <3> QED
      BY <3>1 DEF TypeOK, More
  <2>2. CASE LandLate(k)
    <3>1. effects' \in [Action -> Nat] /\ More(effects, effects', k)
      BY <2>2 DEF LandLate, TypeOK, More
    <3> QED
      BY <2>1, <2>2, <3>1 DEF LandLate, Lates, TypeOK
  <2>3. CASE Lose(k)
    BY <2>1, <2>3 DEF Lose, Lates, TypeOK
  <2> QED
    BY <1>6, <2>2, <2>3
<1> QED
  BY <1>1, <1>2, <1>3, <1>4, <1>5, <1>6 DEF Next

-----------------------------------------------------------------------------
(* The parts of the invariant, one by one.                                 *)

LEMMA AtWorkKept ==
    ASSUME IInv, [Next]_vars
    PROVE  AtWork'
<1>1. TypeOK /\ TypeOK' /\ AtWork
  BY Steps DEF IInv
<1>2. CASE \E x \in Executor : Moves(x)
  <2>1. PICK x \in Executor : Moves(x)
    BY <1>2
  <2>2. Others(x) /\ latest' = latest
    BY <2>1 DEF Moves, Claims, Thinks, Begins, Lands, Misses, Records, RecordsPrior,
                Finishes, Stops, Turned, Advances, Ends
  <2>3. /\ exec'[x].at # "idle" => exec'[x].candidate \in 1 .. latest
        /\ exec'[x].at \notin {"idle", "finish"} =>
              exec'[x].step \in DOMAIN Plan[exec'[x].candidate]
    <3>1. CASE Claims(x)
      BY <1>1, <3>1, PlansTyped DEF Claims, TypeOK
    <3>2. CASE Turned(x) /\ exec[x].at \notin {"idle", "finish"}
      BY <1>1, <3>2 DEF AtWork, At, Turned
    <3>3. CASE Advances(x) /\ exec[x].at \notin {"idle", "finish"}
      BY <1>1, <3>3 DEF AtWork, At, Advances
    <3>4. CASE exec'[x].at = "idle"
      BY <3>4
    <3> QED
      BY <2>1, <3>1, <3>2, <3>3, <3>4
      DEF Moves, Thinks, Begins, Lands, Misses, Records, RecordsPrior, Finishes,
          Stops, Ends, At
  <2>4. /\ exec'[x].at = "look" => exec'[x].verdict = "none"
        /\ exec'[x].at = "prior" => exec'[x].verdict \in {"none", "verified", "no_effect"}
        /\ exec'[x].at = "record" => exec'[x].verdict \in Answers
        /\ exec'[x].at = "finish" => exec'[x].verdict \in Results
    <3>1. CASE Records(x)
      BY <1>1, <3>1 DEF Records, Advances, Ends, At, AtWork, Answers, Results
    <3>2. CASE Claims(x) \/ Thinks(x) \/ Begins(x)
      BY <3>2 DEF Claims, Thinks, Begins, Advances, Answers, Results
    <3>3. CASE Lands(x) \/ Misses(x) \/ RecordsPrior(x) \/ Finishes(x) \/ Stops(x)
      BY <3>3 DEF Lands, Misses, RecordsPrior, Finishes, Stops, Ends, At, Answers, Results
    <3> QED
      BY <2>1, <3>1, <3>2, <3>3 DEF Moves
  <2> QED
    BY <1>1, <2>2, <2>3, <2>4 DEF AtWork, At, Others
<1>3. CASE ~\E x \in Executor : Moves(x)
  <2>1. exec' = exec /\ latest' \in Nat /\ latest \in Nat /\ latest <= latest'
    BY <1>1, <1>3, Steps, PlansTyped DEF IInv, vars, Adopt, Withdraw, Expires, Lates, TypeOK
  <2> QED
    BY <1>1, <2>1 DEF AtWork, At
<1> QED
  BY <1>2, <1>3

LEMMA NewestRunsKept ==
    ASSUME IInv, [Next]_vars
    PROVE  NewestRuns'
<1>1. TypeOK /\ TypeOK' /\ AtWork /\ NewestRuns
  BY Steps DEF IInv
<1>2. CASE \E x \in Executor : Moves(x)
  <2>1. PICK x \in Executor : Moves(x)
    BY <1>2
  <2>2. latest' = latest /\ withdrawn \subseteq withdrawn'
    BY <2>1 DEF Moves, Claims, Thinks, Begins, Lands, Misses, Records, RecordsPrior,
                Finishes, Stops
  <2>3. ASSUME NEW e \in Candidate, status'[e] = "running"
        PROVE  status[e] = "running" \/ e = latest
    <3>1. CASE Ends(x, "failed") \/ Finishes(x)
      BY <1>1, <2>3, <3>1 DEF Finishes, Ends, Final, At, AtWork, Results
    <3> QED
      BY <2>1, <2>3, <3>1 DEF Moves, Claims, Thinks, Begins, Lands, Misses, Records,
                              RecordsPrior, Stops
  <2>4. ASSUME NEW e \in Candidate, NEW k \in Action, attempt'[e][k] # "none"
        PROVE  e <= latest
    <3>1. attempt[e][k] # "none" \/ (e = exec[x].candidate /\ ~At(x, "idle"))
      BY <2>1, <2>4 DEF Moves, Claims, Thinks, Begins, Lands, Misses, Records,
                        RecordsPrior, Finishes, Stops, Wrote, At
    <3> QED
      BY <1>1, <3>1, AtAction DEF NewestRuns, At
  <2> QED
    BY <1>1, <2>2, <2>3, <2>4 DEF NewestRuns
<1>3. CASE Adopt
  <2>1. \A e \in Candidate : status[e] = "running" => e \in withdrawn
    BY <1>1, <1>3, PlansTyped DEF Adopt, NewestRuns
  <2>2. latest' = latest + 1 /\ latest \in Nat
    BY <1>1, <1>3, PlansTyped DEF Adopt, TypeOK
  <2>3. ASSUME NEW e \in Candidate, NEW k \in Action, attempt'[e][k] # "none"
        PROVE  e <= latest'
    BY <1>1, <1>3, <2>2, <2>3, PlansTyped DEF Adopt, NewestRuns
  <2> QED
    BY <1>3, <2>1, <2>3 DEF Adopt, NewestRuns
<1>4. CASE ~Adopt /\ ~\E x \in Executor : Moves(x)
  <2>1. latest' = latest /\ withdrawn \subseteq withdrawn' /\ UNCHANGED <<status, attempt>>
    BY <1>1, <1>4, Steps DEF IInv, vars, Withdraw, Expires, Lates
  <2> QED
    BY <1>1, <2>1 DEF NewestRuns
<1> QED
  BY <1>2, <1>3, <1>4

\* Effects are never taken back.
LEMMA EffectsGrow ==
    ASSUME IInv, [Next]_vars
    PROVE  \A k \in Action : effects[k] > 0 => effects'[k] > 0
<1>1. TypeOK /\ TypeOK'
  BY Steps DEF IInv
<1>2. \/ effects' = effects
      \/ \E k \in Action : More(effects, effects', k)
  <2>1. ASSUME NEW x \in Executor, Moves(x)
        PROVE  effects' = effects \/ (Lands(x) /\ Current(x) \in Action)
    BY <2>1, AtAction
    DEF IInv, Moves, Claims, Thinks, Begins, Lands, Misses, Records, RecordsPrior,
        Finishes, Stops, At
  <2> QED
    BY <2>1, Steps DEF IInv, vars, Adopt, Withdraw, Expires, Lates, Lands
<1>3. ASSUME NEW k \in Action, NEW l \in Action, More(effects, effects', l), effects[k] > 0
      PROVE  effects'[k] > 0
  <2>1. effects[k] \in Nat
    BY <1>1 DEF TypeOK
  <2>2. effects'[k] = effects[k] \/ effects'[k] = effects[k] + 1
    BY <1>3 DEF More
  <2> QED
    BY <1>3, <2>1, <2>2
<1> QED
  BY <1>2, <1>3

LEMMA WitnessedKept ==
    ASSUME IInv, [Next]_vars
    PROVE  Witnessed'
<1>1. TypeOK /\ TypeOK' /\ AtWork /\ Witnessed
  BY Steps DEF IInv
<1>2. CASE \E x \in Executor : Moves(x)
  <2>1. PICK x \in Executor : Moves(x)
    BY <1>2
  <2>2. Others(x)
    BY <2>1 DEF Moves, Claims, Thinks, Begins, Lands, Misses, Records, RecordsPrior,
                Finishes, Stops, Turned, Advances, Ends
  <2>3. ASSUME NEW y \in Executor, y # x, exec[y].at \in {"prior", "record", "landed"},
               effects[Current(y)] > 0
        PROVE  effects'[Current(y)'] > 0
    BY <1>1, <2>2, <2>3, AtAction, EffectsGrow DEF Others, Current
  <2>4. exec'[x].at \in {"prior", "record"} /\ exec'[x].verdict = "verified" =>
           effects'[Current(x)'] > 0
    BY <1>1, <2>1 DEF Moves, Claims, Thinks, Begins, Lands, Misses, Records,
                RecordsPrior, Finishes, Stops, Ends, Advances, Turned, Current, At
  <2>5. exec'[x].at = "landed" => effects'[Current(x)'] > 0
    <3>1. CASE Lands(x)
      <4>1. Current(x)' = Current(x) /\ Current(x) \in Action
        BY <1>1, <3>1, AtAction DEF Lands, Turned, Current, At
      <4>2. effects[Current(x)] \in Nat /\ effects'[Current(x)] = effects[Current(x)] + 1
        BY <1>1, <3>1, <4>1 DEF Lands, More, TypeOK
      <4> QED
        BY <4>1, <4>2
    <3> QED
      BY <2>1, <3>1 DEF Moves, Claims, Thinks, Begins, Misses, Records,
                RecordsPrior, Finishes, Stops, Ends, Advances, At
  <2>6. exec'[x].at = "prior" /\ exec'[x].verdict = "no_effect" => Current(x)' \notin Reply
    BY <2>1 DEF Moves, Claims, Thinks, Begins, Lands, Misses, Records,
                RecordsPrior, Finishes, Stops, Ends, Advances, Turned, Current, At
  <2> QED
    BY <1>1, <2>2, <2>3, <2>4, <2>5, <2>6 DEF Witnessed, Others, At, Current
<1>3. CASE ~\E x \in Executor : Moves(x)
  <2>1. exec' = exec
    BY <1>1, <1>3, Steps DEF IInv, vars, Adopt, Withdraw, Expires, Lates
  <2> QED
    BY <1>1, <2>1, AtAction, EffectsGrow DEF Witnessed, At, Current
<1> QED
  BY <1>2, <1>3

LEMMA ReceiptsAreRealKept ==
    ASSUME IInv, [Next]_vars
    PROVE  ReceiptsAreReal'
<1>1. TypeOK /\ TypeOK' /\ AtWork /\ Witnessed /\ ReceiptsAreReal
  BY Steps DEF IInv
<1>2. receipts \subseteq Action
  BY <1>1 DEF TypeOK
<1>3. CASE \E x \in Executor : Moves(x)
  <2>1. PICK x \in Executor : Moves(x)
    BY <1>3
  <2>2. \A k \in receipts' : k \in receipts \/ (k \in Action /\ effects[k] > 0)
    BY <1>1, <2>1, AtAction DEF Moves, Claims, Thinks, Begins, Lands, Misses, Records,
                RecordsPrior, Finishes, Stops, Witnessed, At
  <2>3. receipts \subseteq receipts'
    BY <2>1 DEF Moves, Claims, Thinks, Begins, Lands, Misses, Records,
                RecordsPrior, Finishes, Stops
  <2>4. ASSUME NEW e \in Candidate, NEW k \in Action, attempt'[e][k] = "verified"
        PROVE  k \in receipts'
    <3>1. CASE attempt[e][k] = "verified"
      BY <1>1, <2>3, <3>1 DEF ReceiptsAreReal
    <3>2. CASE attempt[e][k] # "verified" /\ Records(x)
      <4>1. k = Current(x) /\ Outcome(exec[x].verdict) = "verified"
        BY <2>4, <3>2 DEF Records, Wrote
      <4>2. exec[x].verdict = "verified"
        BY <4>1 DEF Outcome
      <4> QED
        BY <3>2, <4>1, <4>2 DEF Records
    <3>3. CASE attempt[e][k] # "verified" /\ RecordsPrior(x)
      BY <2>4, <3>3 DEF RecordsPrior, Wrote
    <3>4. CASE attempt[e][k] # "verified" /\ Begins(x)
      <4>1. Current(x) \in Action /\ exec[x].candidate \in Candidate
        BY <1>1, <3>4, AtAction DEF Begins, At
      <4> QED
        BY <1>1, <2>4, <3>4, <4>1 DEF Begins, Wrote, ReceiptsAreReal, Open
    <3> QED
      BY <2>1, <2>4, <3>1, <3>2, <3>3, <3>4
      DEF Moves, Claims, Thinks, Lands, Misses, Finishes, Stops
  <2>5. ASSUME NEW e \in Candidate, status'[e] = "done", NEW i \in DOMAIN Plan[e]
        PROVE  effects'[Plan[e][i]] > 0
    <3>1. CASE status[e] = "done"
      BY <1>1, <3>1, EffectsGrow, PlansTyped DEF ReceiptsAreReal
    <3>2. CASE status[e] # "done"
      <4>1. Finishes(x) /\ e = exec[x].candidate /\ Final(exec[x].verdict) = "done"
        BY <2>1, <2>5, <3>2 DEF Moves, Claims, Thinks, Begins, Lands, Misses,
                Records, RecordsPrior, Finishes, Stops, Ends
      <4>2. exec[x].verdict = "done"
        BY <4>1 DEF Final
      <4>3. attempt[e][Plan[e][i]] = "verified" /\ Plan[e][i] \in Action
        BY <4>1, <4>2, PlansTyped DEF Finishes
      <4> QED
        BY <1>1, <4>3, EffectsGrow DEF ReceiptsAreReal
    <3> QED
      BY <3>1, <3>2
  <2> QED
    BY <1>1, <1>2, <2>2, <2>4, <2>5, EffectsGrow DEF ReceiptsAreReal
<1>4. CASE ~\E x \in Executor : Moves(x)
  <2>1. UNCHANGED <<receipts, attempt, status>>
    BY <1>1, <1>4, Steps DEF IInv, vars, Adopt, Withdraw, Expires, Lates
  <2> QED
    BY <1>1, <1>2, <2>1, EffectsGrow, PlansTyped DEF ReceiptsAreReal
<1> QED
  BY <1>3, <1>4

\* Two executors do not hold the lease of one execution.
LEMMA OneHolder ==
    ASSUME NEW x \in Executor, NEW y \in Executor, Leased(x), Leased(y),
           exec[x].candidate = exec[y].candidate
    PROVE  x = y
  BY DEF Leased

\* No step but its own claim gives an executor a lease.
LEMMA LeaseKept ==
    ASSUME IInv, [Next]_vars, NEW y \in Executor, ~At(y, "idle"),
           exec'[y].candidate = exec[y].candidate, Leased(y)'
    PROVE  Leased(y)
<1>1. exec[y].candidate \in Candidate
  BY AtAction DEF IInv, At
<1>2. Gone # y /\ Nobody # y
  BY ActionAssumption
<1>3. CASE \E x \in Executor : Moves(x)
  <2>1. PICK x \in Executor : Moves(x)
    BY <1>3
  <2>2. CASE Claims(x)
    BY <1>1, <2>2 DEF Claims, Leased, At
  <2>3. CASE Ends(x, "failed") \/ Finishes(x)
    BY <1>1, <1>2, <2>3 DEF Finishes, Ends, Leased
  <2>4. CASE Stops(x)
    BY <1>1, <1>2, <2>4 DEF Stops, Leased
  <2> QED
    BY <2>1, <2>2, <2>3, <2>4 DEF Moves, Thinks, Begins, Lands, Misses, Records,
                                  RecordsPrior, Leased
<1>4. CASE ~\E x \in Executor : Moves(x)
  <2>1. /\ status' = status
        /\ \A e \in Candidate : holder'[e] = holder[e] \/ holder'[e] = Nobody
    BY <1>4, Steps DEF IInv, vars, Adopt, Withdraw, Expires, Lates
  <2> QED
    BY <1>1, <1>2, <2>1 DEF Leased
<1> QED
  BY <1>3, <1>4

\* An executor that begins is at the newest candidate.
LEMMA OwnedIsLatest ==
    ASSUME IInv, NEW x \in Executor, ~At(x, "idle"), Owned(x)
    PROVE  exec[x].candidate = latest
  BY AtAction DEF IInv, At, Owned, Leased, NewestRuns

\* What happens to the attempts: one row, and never back to nothing.
LEMMA AttemptsKept ==
    ASSUME IInv, [Next]_vars
    PROVE  \/ attempt' = attempt
           \/ \E x \in Executor : \E v \in AttemptStatus :
                 /\ Begins(x) \/ Records(x)
                 /\ exec[x].candidate \in Candidate /\ Current(x) \in Action
                 /\ v # "none" /\ Wrote(exec[x].candidate, Current(x), v)
           \/ \E x \in Executor : \E d \in Candidate :
                 /\ RecordsPrior(x) /\ Current(x) \in Action
                 /\ attempt[d][Current(x)] = "mismatch"
                 /\ LastOther(d, exec[x].candidate, Current(x))
                 /\ exec[x].verdict \in {"verified", "no_effect"}
                 /\ Wrote(d, Current(x), exec[x].verdict)
<1>1. CASE \E x \in Executor : Moves(x)
  <2>1. PICK x \in Executor : Moves(x)
    BY <1>1
  <2>2. CASE Begins(x)
    <3>1. exec[x].candidate \in Candidate /\ Current(x) \in Action
      BY <2>2, AtAction DEF IInv, Begins, At
    <3>2. attempt' = attempt \/ \E v \in AttemptStatus :
             v # "none" /\ Wrote(exec[x].candidate, Current(x), v)
      BY <2>2 DEF Begins, AttemptStatus, Open
    <3> QED
      BY <2>2, <3>1, <3>2
  <2>3. CASE Records(x)
    <3>1. exec[x].candidate \in Candidate /\ Current(x) \in Action /\ exec[x].verdict \in Answers
      BY <2>3, AtAction DEF IInv, AtWork, Records, At
    <3>2. Outcome(exec[x].verdict) \in AttemptStatus \ {"none"}
      BY <3>1 DEF Outcome, Answers, AttemptStatus, Open
    <3> QED
      BY <2>3, <3>1, <3>2 DEF Records
  <2>4. CASE RecordsPrior(x)
    <3>1. Current(x) \in Action
      BY <2>4, AtAction DEF IInv, RecordsPrior, At
    <3> QED
      BY <2>4, <3>1 DEF RecordsPrior
  <2> QED
    BY <2>1, <2>2, <2>3, <2>4 DEF Moves, Claims, Thinks, Lands, Misses, Finishes, Stops
<1>2. CASE ~\E x \in Executor : Moves(x)
  BY <1>2, Steps DEF IInv, vars, Adopt, Withdraw, Expires, Lates
<1> QED
  BY <1>1, <1>2

LEMMA NeverBack ==
    ASSUME IInv, [Next]_vars, NEW d \in Candidate, NEW k \in Action,
           attempt[d][k] # "none"
    PROVE  attempt'[d][k] # "none"
  BY AttemptsKept DEF Wrote

LEMMA JournaledKept ==
    ASSUME IInv, [Next]_vars
    PROVE  Journaled'
<1>1. TypeOK /\ TypeOK' /\ AtWork /\ Journaled /\ InPlanOrder
  BY Steps DEF IInv
<1> SUFFICES ASSUME NEW y \in Executor, Engaged(y)'
             PROVE  LET e == exec'[y].candidate
                        i == exec'[y].step
                    IN  /\ \/ attempt'[e][Plan[e][i]] \in Open
                           \/ /\ At(y, "record")' /\ exec'[y].verdict = "failed"
                              /\ attempt'[e][Plan[e][i]] # "none"
                        /\ \A j \in DOMAIN Plan[e] : j > i => attempt'[e][Plan[e][j]] = "none"
  BY DEF Journaled
<1> DEFINE e == exec[y].candidate
           i == exec[y].step
\* An executor that was engaged and whose action stays the same.
<1>2. ASSUME exec'[y].candidate = e, exec'[y].step = i, Engaged(y),
             \/ exec'[y].at = exec[y].at /\ exec'[y].verdict = exec[y].verdict
             \/ ~At(y, "record"),
             ~Begins(y), ~Records(y)
      PROVE  /\ \/ attempt'[e][Plan[e][i]] \in Open
                \/ /\ At(y, "record")' /\ exec'[y].verdict = "failed"
                   /\ attempt'[e][Plan[e][i]] # "none"
             /\ \A j \in DOMAIN Plan[e] : j > i => attempt'[e][Plan[e][j]] = "none"
  <2>1. /\ e \in Candidate /\ i \in DOMAIN Plan[e]
        /\ \A j \in DOMAIN Plan[e] : Plan[e][j] \in Action
    BY <1>1, <1>2, AtAction, PlansTyped DEF Engaged
  <2>2. /\ \/ attempt[e][Plan[e][i]] \in Open
           \/ /\ At(y, "record") /\ exec[y].verdict = "failed"
              /\ attempt[e][Plan[e][i]] # "none"
        /\ \A j \in DOMAIN Plan[e] : j > i => attempt[e][Plan[e][j]] = "none"
    BY <1>1, <1>2 DEF Journaled
  <2>3. ASSUME NEW k \in Action
        PROVE  \/ attempt'[e][k] = attempt[e][k]
               \/ attempt[e][k] = "mismatch" /\ attempt'[e][k] # "none"
    <3>1. ASSUME NEW x \in Executor, Begins(x) \/ Records(x), exec[x].candidate = e
          PROVE  FALSE
      <4>1. Leased(x) /\ Leased(y)
        BY <1>2, <3>1 DEF Engaged, Begins, Records, Owned
      <4> QED
        BY <1>2, <3>1, <4>1, OneHolder
    <3> QED
      BY <2>1, <3>1, AttemptsKept DEF Wrote
  <2> QED
    BY <1>2, <2>1, <2>2, <2>3 DEF At, Open
<1>3. CASE \E x \in Executor : Moves(x)
  <2>1. PICK x \in Executor : Moves(x)
    BY <1>3
  <2>2. CASE y # x
    <3>1. exec'[y] = exec[y]
      BY <2>1, <2>2 DEF Moves, Claims, Thinks, Begins, Lands, Misses, Records,
              RecordsPrior, Finishes, Stops, Turned, Advances, Ends, Others
    <3>2. Engaged(y)
      BY <3>1, LeaseKept DEF Engaged, At
    <3>3. ~Begins(y) /\ ~Records(y)
      <4>1. ASSUME Begins(y) PROVE FALSE
        BY <3>1, <3>2, <4>1 DEF Engaged, Begins, At
      <4>2. ASSUME Records(y) PROVE FALSE
        BY <3>1, <4>2 DEF Records, Advances, Ends, At, Engaged
      <4> QED
        BY <4>1, <4>2
    <3> QED
      BY <1>2, <3>1, <3>2, <3>3
  <2>3. CASE y = x /\ (Thinks(x) \/ Lands(x) \/ Misses(x))
    <3>1. /\ exec[y].at \in {"call", "waiting", "landed", "reconcile"}
          /\ exec'[y].candidate = e /\ exec'[y].step = i
      BY <2>3 DEF Thinks, Lands, Misses, Turned, Engaged, At
    <3>2. Engaged(y) /\ ~At(y, "record")
      BY <3>1, LeaseKept DEF Engaged, At
    <3>3. ~Begins(y) /\ ~Records(y)
      BY <3>1 DEF Begins, Records, At
    <3> QED
      BY <1>2, <3>1, <3>2, <3>3
  <2>4. CASE y = x /\ Begins(x)
    <3>1. /\ e \in Candidate /\ i \in DOMAIN Plan[e] /\ Current(y) = Plan[e][i]
          /\ \A j \in DOMAIN Plan[e] : Plan[e][j] \in Action
      BY <1>1, <2>4, AtAction, PlansTyped DEF Begins, At, Current
    <3>2. exec'[y].candidate = e /\ exec'[y].step = i
      BY <2>4 DEF Begins, Turned, Advances, Engaged
    <3>3. attempt[e][Plan[e][i]] # "verified"
      BY <2>4, <3>1 DEF Begins, Advances, Engaged
    <3>4. \A j \in DOMAIN Plan[e] : j > i => attempt[e][Plan[e][j]] = "none"
      BY <1>1, <3>1, <3>3, PlansTyped DEF InPlanOrder
    <3>5. ASSUME NEW j \in DOMAIN Plan[e], j > i PROVE Plan[e][j] # Plan[e][i]
      <4>1. i \in Nat /\ j \in Nat /\ i # j
        BY <3>1, <3>5, PlansTyped
      <4> QED
        BY <3>1, <4>1, ActionAssumption
    <3>6. ~Advances(y) /\ (At(y, "record")' => exec'[y].at = "record")
      BY DEF Advances, Engaged, At
    <3>7. /\ \/ attempt'[e][Plan[e][i]] \in Open
             \/ /\ At(y, "record")' /\ exec'[y].verdict = "failed"
                /\ attempt'[e][Plan[e][i]] # "none"
          /\ \/ attempt' = attempt
             \/ \E v \in AttemptStatus : Wrote(e, Plan[e][i], v)
      <4>1. CASE attempt' = attempt
        BY <2>4, <3>1, <3>6, <4>1 DEF Begins, At, Open, Wrote
      <4>2. CASE \E now \in Open : Wrote(e, Plan[e][i], now)
        BY <3>1, <4>2 DEF Wrote, Open, AttemptStatus
      <4> QED
        BY <2>4, <3>1, <3>6, <4>1, <4>2 DEF Begins, Open
    <3>8. \A j \in DOMAIN Plan[e] : j > i => attempt'[e][Plan[e][j]] = "none"
      BY <3>1, <3>4, <3>5, <3>7 DEF Wrote
    <3> QED
      BY <3>2, <3>7, <3>8
  <2> QED
    BY <2>1, <2>2, <2>3, <2>4 DEF Moves, Claims, Records, RecordsPrior, Finishes, Stops,
                                 Advances, Ends, Engaged, At
<1>4. CASE ~\E x \in Executor : Moves(x)
  <2>1. exec' = exec
    BY <1>1, <1>4, Steps DEF IInv, vars, Adopt, Withdraw, Expires, Lates
  <2>2. Engaged(y)
    BY <2>1, LeaseKept DEF Engaged, At
  <2> QED
    BY <1>2, <1>4, <2>1, <2>2 DEF Moves
<1> QED
  BY <1>3, <1>4

LEMMA InPlanOrderKept ==
    ASSUME IInv, [Next]_vars
    PROVE  InPlanOrder'
<1>1. TypeOK /\ AtWork /\ Journaled /\ InPlanOrder
  BY DEF IInv
<1> SUFFICES ASSUME NEW e \in Candidate, NEW i \in DOMAIN Plan[e],
                    NEW j \in DOMAIN Plan[e], i < j, attempt'[e][Plan[e][j]] # "none"
             PROVE  attempt'[e][Plan[e][i]] = "verified"
  BY DEF InPlanOrder
<1>2. /\ Plan[e][i] \in Action /\ Plan[e][j] \in Action /\ Plan[e][i] # Plan[e][j]
      /\ i \in Nat /\ j \in Nat
  BY PlansTyped, ActionAssumption
<1>3. attempt[e][Plan[e][j]] # "none" => attempt[e][Plan[e][i]] = "verified"
  BY <1>1 DEF InPlanOrder
<1>4. CASE attempt' = attempt
  BY <1>3, <1>4
<1>5. CASE \E x \in Executor : \E v \in AttemptStatus :
              /\ Begins(x) \/ Records(x)
              /\ exec[x].candidate \in Candidate /\ Current(x) \in Action
              /\ v # "none" /\ Wrote(exec[x].candidate, Current(x), v)
  <2>1. PICK x \in Executor, v \in AttemptStatus :
              /\ Begins(x) \/ Records(x)
              /\ exec[x].candidate \in Candidate /\ Current(x) \in Action
              /\ v # "none" /\ Wrote(exec[x].candidate, Current(x), v)
    BY <1>5
  <2>2. CASE exec[x].candidate # e \/ Current(x) \notin {Plan[e][i], Plan[e][j]}
    BY <1>2, <1>3, <2>1, <2>2 DEF Wrote
  <2>3. exec[x].step \in DOMAIN Plan[exec[x].candidate]
    BY <1>1, <2>1, AtAction DEF Begins, Records, At
  <2>4. CASE exec[x].candidate = e /\ Current(x) = Plan[e][i]
    <3>1. exec[x].step = i
      BY <2>3, <2>4, PlansTyped, ActionAssumption DEF Current
    <3>2. attempt[e][Plan[e][j]] # "none"
      BY <1>2, <2>1, <2>4 DEF Wrote
    <3>3. CASE Begins(x)
      BY <1>3, <2>4, <3>2, <3>3 DEF Begins, Wrote
    <3>4. CASE Records(x)
      <4>1. Engaged(x)
        BY <3>4 DEF Records, Engaged, At
      <4> QED
        BY <1>1, <1>2, <2>4, <3>1, <3>2, <4>1 DEF Journaled
    <3> QED
      BY <2>1, <3>3, <3>4
  <2>5. CASE exec[x].candidate = e /\ Current(x) = Plan[e][j]
    <3>1. exec[x].step = j
      BY <2>3, <2>5, PlansTyped, ActionAssumption DEF Current
    <3>2. attempt'[e][Plan[e][i]] = attempt[e][Plan[e][i]]
      BY <1>2, <2>1, <2>5 DEF Wrote
    <3>3. CASE Begins(x)
      <4>1. i \in 1 .. exec[x].step - 1
        BY <1>2, <3>1, PlansTyped
      <4> QED
        BY <2>5, <3>2, <3>3, <4>1 DEF Begins
    <3>4. CASE Records(x)
      <4>1. Engaged(x)
        BY <3>4 DEF Records, Engaged, At
      <4>2. attempt[e][Plan[e][j]] # "none"
        BY <1>1, <2>5, <3>1, <4>1 DEF Journaled, Open
      <4> QED
        BY <1>3, <3>2, <4>2
    <3> QED
      BY <2>1, <3>3, <3>4
  <2> QED
    BY <2>2, <2>4, <2>5
<1>6. CASE \E x \in Executor : \E d \in Candidate :
              /\ RecordsPrior(x) /\ Current(x) \in Action
              /\ attempt[d][Current(x)] = "mismatch"
              /\ LastOther(d, exec[x].candidate, Current(x))
              /\ exec[x].verdict \in {"verified", "no_effect"}
              /\ Wrote(d, Current(x), exec[x].verdict)
  BY <1>2, <1>3, <1>6 DEF Wrote
<1> QED
  BY <1>4, <1>5, <1>6, AttemptsKept

\* A call is about to be made.
Tries(x) == Begins(x) /\ exec'[x].at = "call"

\* It is made only of an action the journal lets be tried, by the newest
\* candidate.
LEMMA TryIsFree ==
    ASSUME IInv, NEW x \in Executor, Tries(x)
    PROVE  /\ exec[x].candidate = latest /\ latest \in Candidate
           /\ Current(x) \in Action
           /\ \A d \in Candidate :
                 LastRow(d, Current(x)) => attempt[d][Current(x)] = "no_effect"
           /\ Current(x) \in Plain => Quiet(Current(x))
           /\ Turned(x)
           /\ Wrote(latest, Current(x), "dispatched")
           /\ UNCHANGED <<effects, inflight>>
<1> DEFINE k == Current(x)
<1>1. /\ exec[x].candidate = latest /\ latest \in Candidate /\ k \in Action
      /\ Leased(x)
  BY AtAction, OwnedIsLatest DEF IInv, Tries, Begins, Owned, At
<1>2. /\ \/ attempt[latest][k] = "no_effect"
         \/ attempt[latest][k] = "none" /\ Untried(latest, k)
      /\ Wrote(latest, k, "dispatched")
      /\ Turned(x)
      /\ UNCHANGED <<effects, inflight>>
  BY <1>1 DEF Tries, Begins, Advances
<1>3. ASSUME NEW d \in Candidate, LastRow(d, k)
      PROVE  attempt[d][k] = "no_effect"
  <2>1. d \in Nat /\ latest \in Nat /\ d <= latest
    BY <1>1, <1>3, PlansTyped DEF IInv, NewestRuns, LastRow
  <2>2. CASE attempt[latest][k] = "no_effect"
    BY <1>1, <1>3, <2>1, <2>2 DEF LastRow
  <2>3. CASE attempt[latest][k] = "none" /\ Untried(latest, k)
    <3>1. d # latest
      BY <1>3, <2>3 DEF LastRow
    <3>2. \A c \in Candidate \ {latest} : attempt[c][k] # "none" => c <= d
      BY <1>3, <2>1, PlansTyped DEF LastRow
    <3> QED
      BY <1>3, <2>3, <3>1, <3>2 DEF Untried, LastOther, LastRow
  <2> QED
    BY <1>2, <2>2, <2>3
<1> QED
  BY <1>1, <1>2, <1>3 DEF IInv, JournalTells

\* Whoever is calling after a step was calling before it, unless it tries.
LEMMA CallersKept ==
    ASSUME IInv, [Next]_vars, NEW y \in Executor, NEW k \in Action, Calling(y, k)'
    PROVE  Calling(y, k) \/ (Tries(y) /\ Current(y) = k)
<1>1. CASE \E x \in Executor : Moves(x)
  <2>1. PICK x \in Executor : Moves(x)
    BY <1>1
  <2>2. CASE y # x
    BY <2>1, <2>2 DEF Moves, Claims, Thinks, Begins, Lands, Misses, Records,
              RecordsPrior, Finishes, Stops, Turned, Advances, Ends, Others, Calling, Current
  <2>3. CASE y = x
    BY <2>1, <2>3 DEF Moves, Claims, Thinks, Begins, Lands, Misses, Records,
              RecordsPrior, Finishes, Stops, Turned, Advances, Ends, Calling, Current,
              At, Tries
  <2> QED
    BY <2>2, <2>3
<1>2. CASE ~\E x \in Executor : Moves(x)
  <2>1. exec' = exec
    BY <1>2, Steps DEF IInv, vars, Adopt, Withdraw, Expires, Lates
  <2> QED
    BY <2>1 DEF Calling, Current
<1> QED
  BY <1>1, <1>2

\* What happens to the effects and the calls in flight: a caller's call takes
\* effect or is missed, or one in flight takes effect or is lost.
LEMMA CountsKept ==
    ASSUME IInv, [Next]_vars
    PROVE  \/ UNCHANGED <<effects, inflight>>
           \/ \E x \in Executor : \E k \in Action :
                 /\ Calling(x, k) /\ exec'[x].at \notin {"call", "waiting"}
                 /\ \/ More(effects, effects', k) /\ inflight' = inflight
                    \/ More(inflight, inflight', k) /\ effects' = effects
           \/ \E k \in Action :
                 /\ More(inflight', inflight, k)
                 /\ effects' = effects \/ More(effects, effects', k)
<1>1. CASE \E x \in Executor : Moves(x)
  <2>1. PICK x \in Executor : Moves(x)
    BY <1>1
  <2>2. CASE At(x, "waiting")
    <3>1. Current(x) \in Action
      BY <2>2, AtAction DEF IInv, At
    <3>2. Calling(x, Current(x))
      BY <2>2 DEF At, Calling
    <3> QED
      BY <2>1, <2>2, <3>1, <3>2
      DEF Moves, Claims, Thinks, Begins, Lands, Misses, Records,
          RecordsPrior, Finishes, Stops, At
  <2>3. CASE ~At(x, "waiting")
    BY <2>1, <2>3 DEF Moves, Claims, Thinks, Begins, Lands, Misses, Records,
              RecordsPrior, Finishes, Stops
  <2> QED
    BY <2>2, <2>3
<1>2. CASE ~\E x \in Executor : Moves(x)
  BY <1>2, Steps DEF IInv, vars, Adopt, Withdraw, Expires, Lates
<1> QED
  BY <1>1, <1>2

LEMMA OneCallKept ==
    ASSUME IInv, [Next]_vars
    PROVE  OneCall'
<1>1. TypeOK /\ TypeOK' /\ OneCall
  BY Steps DEF IInv
<1> SUFFICES ASSUME NEW k \in Plain
             PROVE  /\ (effects[k] + inflight[k] <= 1)'
                    /\ \A x \in Executor : Calling(x, k)' => effects'[k] = 0 /\ inflight'[k] = 0
                    /\ \A x, y \in Executor : Calling(x, k)' /\ Calling(y, k)' => x = y
  BY DEF OneCall
<1>2. k \in Action /\ effects[k] \in Nat /\ inflight[k] \in Nat
      /\ effects'[k] \in Nat /\ inflight'[k] \in Nat
  BY <1>1 DEF Plain, TypeOK
<1>3. /\ effects[k] + inflight[k] <= 1
      /\ \A x \in Executor : Calling(x, k) => effects[k] = 0 /\ inflight[k] = 0
      /\ \A x, y \in Executor : Calling(x, k) /\ Calling(y, k) => x = y
  BY <1>1 DEF OneCall
<1>4. CASE \E x \in Executor : Tries(x) /\ Current(x) = k
  <2>1. PICK x \in Executor : Tries(x) /\ Current(x) = k
    BY <1>4
  <2>2. Quiet(k) /\ Turned(x) /\ UNCHANGED <<effects, inflight>>
    BY <2>1, TryIsFree
  <2>3. \A y \in Executor : Calling(y, k)' => y = x
    BY <2>2 DEF Quiet, Turned, Others, Calling, Current
  <2> QED
    BY <2>2, <2>3 DEF Quiet
<1>5. CASE ~\E x \in Executor : Tries(x) /\ Current(x) = k
  <2>1. \A y \in Executor : Calling(y, k)' => Calling(y, k)
    BY <1>2, <1>5, CallersKept
  <2>2. CASE UNCHANGED <<effects, inflight>>
    BY <1>3, <2>1, <2>2
  <2>3. ASSUME NEW x \in Executor, NEW l \in Action,
               Calling(x, l), exec'[x].at \notin {"call", "waiting"},
               \/ More(effects, effects', l) /\ inflight' = inflight
               \/ More(inflight, inflight', l) /\ effects' = effects
        PROVE  /\ effects'[k] + inflight'[k] <= 1
               /\ \A z \in Executor : Calling(z, k)' => effects'[k] = 0 /\ inflight'[k] = 0
    <3>1. CASE l = k
      <4>1. effects[k] = 0 /\ inflight[k] = 0
        BY <1>3, <2>3, <3>1
      <4>2. effects'[k] + inflight'[k] = 1
        BY <2>3, <3>1, <4>1 DEF More
      <4>3. \A z \in Executor : ~Calling(z, k)'
        BY <1>3, <2>1, <2>3, <3>1 DEF Calling
      <4> QED
        BY <4>2, <4>3
    <3>2. CASE l # k
      <4>1. effects'[k] = effects[k] /\ inflight'[k] = inflight[k]
        BY <1>2, <2>3, <3>2 DEF More
      <4> QED
        BY <1>3, <2>1, <4>1
    <3> QED
      BY <3>1, <3>2
  <2>4. ASSUME NEW l \in Action, More(inflight', inflight, l),
               effects' = effects \/ More(effects, effects', l)
        PROVE  /\ effects'[k] + inflight'[k] <= 1
               /\ \A z \in Executor : Calling(z, k)' => effects'[k] = 0 /\ inflight'[k] = 0
    <3>1. CASE l = k
      <4>1. inflight[k] = inflight'[k] + 1
        BY <2>4, <3>1 DEF More
      <4>2. effects'[k] = effects[k] \/ effects'[k] = effects[k] + 1
        BY <2>4, <3>1 DEF More
      <4>3. effects'[k] + inflight'[k] <= 1
        BY <1>2, <1>3, <4>1, <4>2
      <4>4. \A z \in Executor : ~Calling(z, k)
        BY <1>2, <1>3, <4>1
      <4> QED
        BY <2>1, <4>3, <4>4
    <3>2. CASE l # k
      <4>1. effects'[k] = effects[k] /\ inflight'[k] = inflight[k]
        BY <1>2, <2>4, <3>2 DEF More
      <4> QED
        BY <1>3, <2>1, <4>1
    <3> QED
      BY <3>1, <3>2
  <2> QED
    BY <1>3, <2>1, <2>2, <2>3, <2>4, CountsKept
<1> QED
  BY <1>4, <1>5

\* A quiet action stays so until it is tried.
LEMMA QuietKept ==
    ASSUME IInv, [Next]_vars, NEW k \in Action, Quiet(k),
           ~\E x \in Executor : Tries(x) /\ Current(x) = k
    PROVE  Quiet(k)'
<1>1. effects[k] = 0 /\ inflight[k] = 0 /\ \A x \in Executor : ~Calling(x, k)
  BY DEF Quiet
<1>2. \A x \in Executor : ~Calling(x, k)'
  BY <1>1, CallersKept
<1>3. inflight'[k] \in Nat
  BY Steps DEF IInv, TypeOK
<1>4. effects'[k] = 0 /\ inflight'[k] = 0
  BY <1>1, <1>3, CountsKept DEF More
<1> QED
  BY <1>2, <1>4 DEF Quiet

\* A row that is last stays so unless the newest candidate begins, and no
\* other becomes last.
LEMMA LastRowKept ==
    ASSUME IInv, [Next]_vars, NEW d \in Candidate, NEW k \in Action,
           LastRow(d, k)', attempt[d][k] # "none"
    PROVE  LastRow(d, k)
  BY NeverBack DEF LastRow

LEMMA JournalTellsKept ==
    ASSUME IInv, [Next]_vars
    PROVE  JournalTells'
<1>1. TypeOK /\ TypeOK' /\ AtWork /\ JournalTells /\ Journaled /\ NewestRuns /\ OneCall
  BY Steps DEF IInv
<1> SUFFICES ASSUME NEW k \in Plain
             PROVE  /\ (\A d \in Candidate : LastRow(d, k)' => attempt'[d][k] = "no_effect")
                          => Quiet(k)'
                    /\ \A d \in Candidate :
                          k \notin Reply /\ LastRow(d, k)' /\ attempt'[d][k] = "mismatch"
                             => Quiet(k)'
                    /\ \A x \in Executor :
                          Frees(x)' /\ Leased(x)' /\ Current(x)' = k
                             /\ LastRow(exec[x].candidate, k)' => Quiet(k)'
  BY DEF JournalTells
<1>2. k \in Action
  BY DEF Plain
<1>3. /\ (\A d \in Candidate : LastRow(d, k) => attempt[d][k] = "no_effect") => Quiet(k)
      /\ \A d \in Candidate :
            k \notin Reply /\ LastRow(d, k) /\ attempt[d][k] = "mismatch" => Quiet(k)
      /\ \A x \in Executor :
            Frees(x) /\ Leased(x) /\ Current(x) = k /\ LastRow(exec[x].candidate, k)
               => Quiet(k)
  BY <1>1 DEF JournalTells
\* The action is tried: its last row says so.
<1>4. CASE \E x \in Executor : Tries(x) /\ Current(x) = k
  <2>1. PICK x \in Executor : Tries(x) /\ Current(x) = k
    BY <1>4
  <2>2. /\ exec[x].candidate = latest /\ latest \in Candidate /\ Turned(x)
        /\ Wrote(latest, k, "dispatched")
    BY <2>1, TryIsFree
  <2>3. \A d \in Candidate : d \in Nat
    BY PlansTyped
  <2>4. \A d \in Candidate : attempt'[d][k] # "none" => d <= latest
    <3>1. \A d \in Candidate : d # latest => attempt'[d][k] = attempt[d][k]
      BY <1>2, <2>2 DEF Wrote
    <3>2. \A d \in Candidate : attempt[d][k] # "none" => d <= latest
      BY <1>1, <1>2 DEF NewestRuns
    <3> QED
      BY <2>2, <2>3, <3>1, <3>2
  <2>5. \A d \in Candidate : LastRow(d, k)' => d = latest
    BY <2>2, <2>3, <2>4 DEF LastRow, Wrote
  <2>6. attempt'[latest][k] = "dispatched" /\ LastRow(latest, k)' /\ latest' = latest
    <3>1. \A d \in Candidate : d > latest => attempt'[d][k] = "none"
      BY <2>2, <2>3, <2>4
    <3>2. attempt'[latest][k] = "dispatched"
      BY <2>2 DEF Wrote
    <3>3. latest' = latest
      BY <2>1 DEF Tries, Begins
    <3> QED
      BY <3>1, <3>2, <3>3 DEF LastRow
  <2>7. ASSUME NEW y \in Executor, Frees(y)', Leased(y)', Current(y)' = k,
               LastRow(exec[y].candidate, k)'
        PROVE  FALSE
    <3>1. y # x
      BY <2>1, <2>7 DEF Frees, Tries, At
    <3>2. exec'[y] = exec[y]
      BY <2>2, <3>1 DEF Turned, Others
    <3>3. Leased(y) /\ ~At(y, "idle")
      BY <2>7, <3>2, LeaseKept DEF Frees, At
    <3>4. exec[y].candidate = latest
      BY <1>1, <2>5, <2>7, <3>2, <3>3, AtAction DEF At
    <3>5. Leased(x)
      BY <2>1 DEF Tries, Begins, Owned
    <3> QED
      BY <2>2, <3>1, <3>3, <3>4, <3>5, OneHolder
  <2>8. ~\A d \in Candidate : LastRow(d, k)' => attempt'[d][k] = "no_effect"
    BY <2>2, <2>6
  <2>9. \A d \in Candidate : LastRow(d, k)' => attempt'[d][k] # "mismatch"
    BY <2>5, <2>6
  <2> QED
    BY <2>7, <2>8, <2>9
<1>5. CASE ~\E x \in Executor : Tries(x) /\ Current(x) = k
  <2>1. Quiet(k) => Quiet(k)'
    BY <1>2, <1>5, QuietKept
  \* A row that is given free was the last one only if the action is quiet.
  <2>2. ASSUME NEW d \in Candidate, attempt'[d][k] # attempt[d][k], attempt[d][k] # "none",
               LastRow(d, k)',
               \/ attempt'[d][k] = "no_effect"
               \/ attempt'[d][k] = "mismatch" /\ k \notin Reply
        PROVE  Quiet(k)
    <3>1. LastRow(d, k)
      BY <1>2, <2>2, LastRowKept
    <3>2. ASSUME NEW x \in Executor, Records(x), NEW v \in AttemptStatus,
                 exec[x].candidate \in Candidate, Current(x) \in Action,
                 Wrote(exec[x].candidate, Current(x), v)
          PROVE  Quiet(k)
      <4>1. d = exec[x].candidate /\ k = Current(x)
        BY <1>2, <2>2, <3>2 DEF Wrote
      <4>2. Outcome(exec[x].verdict) = attempt'[d][k]
        BY <3>2, <4>1 DEF Records, Wrote
      <4>3. \/ exec[x].verdict \in {"no_effect", "rejected"}
            \/ exec[x].verdict = "mismatch" /\ k \notin Reply
        BY <2>2, <4>2 DEF Outcome
      <4>4. Frees(x) /\ Leased(x)
        BY <3>2, <4>1, <4>3 DEF Frees, Records
      <4> QED
        BY <1>3, <3>1, <4>1, <4>4
    <3>3. ASSUME NEW x \in Executor, Begins(x), NEW v \in AttemptStatus,
                 exec[x].candidate \in Candidate, Current(x) \in Action,
                 Wrote(exec[x].candidate, Current(x), v)
          PROVE  FALSE
      BY <1>2, <2>2, <3>3 DEF Begins, Wrote, Open
    <3>4. ASSUME NEW x \in Executor, NEW c \in Candidate,
                 RecordsPrior(x), Current(x) \in Action,
                 attempt[c][Current(x)] = "mismatch",
                 exec[x].verdict \in {"verified", "no_effect"},
                 Wrote(c, Current(x), exec[x].verdict)
          PROVE  Quiet(k)
      <4>1. d = c /\ k = Current(x) /\ exec[x].verdict = "no_effect"
        BY <1>2, <2>2, <3>4 DEF Wrote
      <4>2. k \notin Reply
        BY <3>4, <4>1 DEF IInv, Witnessed, RecordsPrior
      <4> QED
        BY <1>3, <3>1, <3>4, <4>1, <4>2
    <3> QED
      BY <2>2, <3>2, <3>3, <3>4, AttemptsKept
  \* A row that begins is not one that is given free.
  <2>3. ASSUME NEW d \in Candidate, attempt[d][k] = "none", attempt'[d][k] # "none"
        PROVE  attempt'[d][k] \notin {"no_effect", "mismatch"} /\ LastRow(d, k)'
    <3>1. PICK x \in Executor, v \in AttemptStatus :
             /\ Begins(x) \/ Records(x)
             /\ exec[x].candidate \in Candidate /\ Current(x) \in Action
             /\ v # "none" /\ Wrote(exec[x].candidate, Current(x), v)
      BY <1>2, <2>3, AttemptsKept DEF Wrote
    <3>2. d = exec[x].candidate /\ k = Current(x)
      BY <1>2, <2>3, <3>1 DEF Wrote
    <3>3. ~Records(x)
      <4>1. SUFFICES ASSUME Records(x) PROVE FALSE
        OBVIOUS
      <4>2. Engaged(x)
        BY <4>1 DEF Records, Engaged, At
      <4> QED
        BY <1>1, <2>3, <3>2, <4>2 DEF Journaled, Current, Open
    <3>4. exec[x].candidate = latest
      BY <3>1, <3>3, OwnedIsLatest DEF Begins, At
    <3>5. \A c \in Candidate : c > d => attempt'[c][k] = "none"
      <4>1. \A c \in Candidate : c > d => attempt[c][k] = "none"
        BY <1>1, <1>2, <3>2, <3>4, PlansTyped DEF NewestRuns
      <4>2. \A c \in Candidate : c > d => c # d
        BY PlansTyped
      <4> QED
        BY <1>2, <3>1, <3>2, <4>1, <4>2 DEF Wrote
    <3> QED
      BY <1>2, <2>3, <3>1, <3>2, <3>3, <3>5 DEF Begins, Wrote, Open, LastRow
  <2>4. ASSUME \A d \in Candidate : LastRow(d, k)' => attempt'[d][k] = "no_effect"
        PROVE  Quiet(k)'
    <3>1. \A d \in Candidate : attempt[d][k] = "none" => attempt'[d][k] = "none"
      BY <2>3, <2>4
    <3>2. \A d \in Candidate : LastRow(d, k) => LastRow(d, k)'
      BY <1>2, <3>1, NeverBack DEF LastRow
    <3>3. CASE \E d \in Candidate : LastRow(d, k) /\ attempt[d][k] # "no_effect"
      <4>1. PICK d \in Candidate : LastRow(d, k) /\ attempt[d][k] # "no_effect"
        BY <3>3
      <4>2. Quiet(k)
        BY <2>2, <2>4, <3>2, <4>1 DEF LastRow
      <4> QED
        BY <2>1, <4>2
    <3> QED
      BY <1>3, <2>1, <3>3
  <2>5. ASSUME NEW d \in Candidate, k \notin Reply, LastRow(d, k)', attempt'[d][k] = "mismatch"
        PROVE  Quiet(k)'
    <3>1. attempt[d][k] # "none"
      BY <2>3, <2>5
    <3>2. CASE attempt[d][k] = "mismatch"
      BY <1>2, <1>3, <2>1, <2>5, <3>1, <3>2, LastRowKept
    <3>3. CASE attempt[d][k] # "mismatch"
      BY <2>1, <2>2, <2>5, <3>1, <3>3
    <3> QED
      BY <3>2, <3>3
  <2>6. ASSUME NEW y \in Executor, Frees(y)', Leased(y)', Current(y)' = k,
               LastRow(exec[y].candidate, k)'
        PROVE  Quiet(k)'
    \* It was about to give the action free before.
    <3>1. ASSUME exec'[y] = exec[y]
          PROVE  Quiet(k)'
      <4>1. Frees(y) /\ Leased(y) /\ Current(y) = k /\ At(y, "record")
        <5>1. Frees(y) /\ Current(y) = k /\ At(y, "record")
          BY <2>6, <3>1 DEF Frees, At, Current
        <5>2. Leased(y)
          BY <2>6, <3>1, <5>1, LeaseKept DEF At
        <5> QED
          BY <5>1, <5>2
      <4>2. exec[y].candidate \in Candidate
        BY <1>1, <4>1, AtAction DEF At
      <4>3. attempt[exec[y].candidate][k] # "none"
        BY <1>1, <4>1 DEF Journaled, Engaged, Current, At, Open
      <4> QED
        BY <1>2, <1>3, <2>1, <2>6, <3>1, <4>1, <4>2, <4>3, LastRowKept
    \* It has just been answered.
    <3>2. ASSUME Thinks(y)
          PROVE  Quiet(k)'
      <4>1. /\ exec[y].at \in {"call", "waiting"} /\ Current(y) = k
            /\ UNCHANGED <<effects, inflight>> /\ exec'[y].at = "record"
        BY <2>6, <3>2 DEF Thinks, Frees, At, Turned, Current
      <4>2. Calling(y, k)
        BY <4>1 DEF Calling
      <4>3. effects[k] = 0 /\ inflight[k] = 0
        BY <1>1, <4>2 DEF OneCall
      <4>4. \A z \in Executor : ~Calling(z, k)'
        <5>1. ASSUME NEW z \in Executor, Calling(z, k)' PROVE FALSE
          <6>1. Calling(z, k)
            BY <1>2, <1>5, <5>1, CallersKept
          <6>2. z = y
            BY <1>1, <4>2, <6>1 DEF OneCall
          <6> QED
            BY <4>1, <5>1, <6>2 DEF Calling
        <5> QED
          BY <5>1
      <4> QED
        BY <4>1, <4>3, <4>4 DEF Quiet
    <3>3. exec'[y] = exec[y] \/ Thinks(y)
      <4>1. CASE \E x \in Executor : Moves(x)
        <5>1. PICK x \in Executor : Moves(x)
          BY <4>1
        <5>2. CASE y # x
          BY <5>1, <5>2 DEF Moves, Claims, Thinks, Begins, Lands, Misses, Records,
              RecordsPrior, Finishes, Stops, Turned, Advances, Ends, Others
        <5>3. CASE y = x
          BY <2>6, <5>1, <5>3 DEF Moves, Claims, Begins, Lands, Misses, Records,
              RecordsPrior, Finishes, Stops, Advances, Ends, Frees, At
        <5> QED
          BY <5>2, <5>3
      <4>2. CASE ~\E x \in Executor : Moves(x)
        BY <4>2, Steps DEF IInv, vars, Adopt, Withdraw, Expires, Lates
      <4> QED
        BY <4>1, <4>2
    <3> QED
      BY <3>1, <3>2, <3>3
  <2> QED
    BY <2>4, <2>5, <2>6
<1> QED
  BY <1>4, <1>5

-----------------------------------------------------------------------------
(* The invariant.                                                          *)

LEMMA InitInv == Init => IInv
<1> SUFFICES ASSUME Init PROVE IInv
  OBVIOUS
<1>1. \A x \in Executor : exec[x] = Idle
  BY DEF Init
<1>2. Idle \in State
  BY PlansTyped DEF Idle, State, Phase, AttemptStatus, Verdict
<1>3. \A x \in Executor : At(x, "idle")
  BY <1>1 DEF At, Idle
<1>4. TypeOK
  <2>1. exec \in [Executor -> State]
    BY <1>2 DEF Init
  <2> QED
    BY <2>1, PlansTyped DEF Init, TypeOK, State, ExecutionStatus, Ended, AttemptStatus
<1>5. AtWork
  BY <1>3 DEF AtWork, At
<1>6. NewestRuns
  BY DEF Init, NewestRuns
<1>7. \A x \in Executor : \A k \in Action : ~Calling(x, k)
  BY <1>3 DEF Calling, At
<1>8. \A k \in Action : Quiet(k)
  BY <1>7 DEF Quiet, Init
<1>9. OneCall
  BY <1>7, <1>8 DEF OneCall, Quiet, Plain
<1>10. Journaled
  BY <1>3 DEF Journaled, Engaged, At
<1>11. JournalTells
  BY <1>8 DEF JournalTells, Plain
<1>12. Witnessed
  BY <1>3 DEF Witnessed, At
<1>13. ReceiptsAreReal
  BY DEF Init, ReceiptsAreReal
<1>14. InPlanOrder
  BY PlansTyped DEF Init, InPlanOrder
<1> QED
  BY <1>4, <1>5, <1>6, <1>9, <1>10, <1>11, <1>12, <1>13, <1>14 DEF IInv

\* IInv is an invariant of the reviewed execution.
LEMMA Invariant == Spec => []IInv
<1>1. IInv /\ [Next]_vars => IInv'
  <2> SUFFICES ASSUME IInv, [Next]_vars PROVE IInv'
    OBVIOUS
  <2>1. TypeOK'
    BY Steps DEF IInv
  <2> QED
    BY <2>1, AtWorkKept, NewestRunsKept, OneCallKept, JournaledKept, JournalTellsKept,
       WitnessedKept, ReceiptsAreRealKept, InPlanOrderKept DEF IInv
<1> QED
  BY <1>1, InitInv, PTL DEF Spec

-----------------------------------------------------------------------------
(* What follows.                                                           *)

\* Type correctness, for every plan and number of executors.
THEOREM ActionTypes == Spec => []TypeOK
<1>1. IInv => TypeOK
  BY DEF IInv
<1> QED
  BY <1>1, Invariant, PTL

\* An action whose absence no read-back asserts takes effect at most once,
\* however many executors and candidates try it and whatever dies, expires or
\* is answered late: the journal is written before the call (begin_candidate_
\* action, begin_reviewed_action), and only what is sure to have had no effect
\* is tried again.
THEOREM EffectsHappenOnce == Spec => []OneEffect
<1>1. IInv => OneEffect
  <2> SUFFICES ASSUME IInv, NEW k \in Plain PROVE effects[k] <= 1
    BY DEF OneEffect
  <2>1. effects[k] \in Nat /\ inflight[k] \in Nat /\ effects[k] + inflight[k] <= 1
    BY DEF IInv, TypeOK, OneCall, Plain
  <2> QED
    BY <2>1
<1> QED
  BY <1>1, Invariant, PTL

\* Receipts are of effects that happened, verified attempts have one, and an
\* execution that is done has had every effect of its plan.
THEOREM ReceiptsHold == Spec => []ReceiptsAreReal
<1>1. IInv => ReceiptsAreReal
  BY DEF IInv
<1> QED
  BY <1>1, Invariant, PTL

\* No action of a plan is begun before all earlier ones are verified, and what
\* is verified under a begun successor stays verified.
THEOREM PlanOrderHolds == Spec => []InPlanOrder
<1>1. IInv => InPlanOrder
  BY DEF IInv
<1> QED
  BY <1>1, Invariant, PTL

\* A dispatch is journaled for the newest candidate only, neither withdrawn
\* nor finished (begin_candidate_action checks the candidate under the lease).
THEOREM OnlyCurrentAreDispatched == Spec => OnlyCurrentDispatches
<1> DEFINE Fits == \A e \in Candidate : \A k \in Action :
                      attempt[e][k] # "dispatched" /\ attempt'[e][k] = "dispatched" =>
                         e = latest /\ e \notin withdrawn /\ status[e] = "running"
<1>1. IInv /\ [Next]_vars => [Fits]_vars
  <2> SUFFICES ASSUME IInv, [Next]_vars, NEW e \in Candidate, NEW k \in Action,
                      attempt[e][k] # "dispatched", attempt'[e][k] = "dispatched"
               PROVE  e = latest /\ e \notin withdrawn /\ status[e] = "running"
    OBVIOUS
  <2>1. PICK x \in Executor, v \in AttemptStatus :
           /\ Begins(x) \/ Records(x)
           /\ exec[x].candidate = e /\ Current(x) = k
           /\ Wrote(e, k, v)
    BY AttemptsKept DEF Wrote
  <2>2. ~Records(x)
    BY <2>1 DEF Records, Wrote, Outcome, IInv, AtWork, Answers
  <2>3. Owned(x) /\ At(x, "begin")
    BY <2>1, <2>2 DEF Begins
  <2> QED
    BY <2>1, <2>3, OwnedIsLatest DEF Owned, Leased, At
<1> QED
  BY <1>1, Invariant, PTL DEF Spec, OnlyCurrentDispatches

-----------------------------------------------------------------------------
(* The refinement.                                                         *)

\* A receipt is added only of an effect that has happened.
LEMMA ReceiptsKept ==
    ASSUME IInv, [Next]_vars
    PROVE  \/ receipts' = receipts
           \/ /\ \E k \in Action : effects[k] > 0 /\ receipts' = receipts \cup {k}
              /\ effects' = effects
<1>1. CASE \E x \in Executor : Moves(x)
  <2>1. PICK x \in Executor : Moves(x)
    BY <1>1
  <2>2. CASE Records(x) \/ RecordsPrior(x)
    <3>1. Current(x) \in Action
      BY <2>2, AtAction DEF IInv, Records, RecordsPrior, At
    <3>2. exec[x].verdict = "verified" => effects[Current(x)] > 0
      BY <2>2 DEF IInv, Witnessed, Records, RecordsPrior, At
    <3> QED
      BY <2>2, <3>1, <3>2 DEF Records, RecordsPrior
  <2> QED
    BY <2>1, <2>2 DEF Moves, Claims, Thinks, Begins, Lands, Misses, Finishes, Stops
<1>2. CASE ~\E x \in Executor : Moves(x)
  BY <1>2, Steps DEF IInv, vars, Adopt, Withdraw, Expires, Lates
<1> QED
  BY <1>1, <1>2

\* An effect happens once at a time.
LEMMA EffectsKept ==
    ASSUME IInv, [Next]_vars
    PROVE  \/ effects' = effects
           \/ \E k \in Action : More(effects, effects', k)
  BY CountsKept

\* The executors implement effects that happen at most once and receipts that
\* follow them, for all actions whose absence no read-back asserts.
THEOREM ImplementsOnce == Spec => OnceImplemented
<1> DEFINE done == [k \in Plain |-> effects[k]]
           kept == receipts \cap Plain
<1>1. Init => Once!Init
  BY DEF Init, Once!Init, Plain
<1>2. IInv /\ IInv' /\ [Next]_vars => [Once!Next]_<<done, kept>>
  <2> SUFFICES ASSUME IInv, IInv', [Next]_vars
               PROVE  [Once!Next]_<<done, kept>>
    OBVIOUS
  <2>1. /\ \A k \in Plain : k \in Action /\ effects[k] \in {0, 1} /\ effects'[k] \in {0, 1}
    <3>1. ASSUME NEW k \in Plain PROVE effects[k] \in {0, 1} /\ effects'[k] \in {0, 1}
      <4>1. /\ effects[k] \in Nat /\ inflight[k] \in Nat
            /\ effects'[k] \in Nat /\ inflight'[k] \in Nat
        BY DEF IInv, TypeOK, Plain
      <4>2. effects[k] + inflight[k] <= 1 /\ effects'[k] + inflight'[k] <= 1
        BY DEF IInv, OneCall
      <4> QED
        BY <4>1, <4>2
    <3> QED
      BY <3>1 DEF Plain
  <2>2. CASE receipts' # receipts
    <3>1. PICK k \in Action : effects[k] > 0 /\ receipts' = receipts \cup {k}
      BY <2>2, ReceiptsKept
    <3>2. effects' = effects
      BY <2>2, ReceiptsKept
    <3>3. CASE k \in Plain
      <4>1. effects[k] = 1
        BY <2>1, <3>1, <3>3
      <4>2. Once!Witness(k)
        BY <3>1, <3>2, <3>3, <4>1 DEF Once!Witness
      <4> QED
        BY <3>3, <4>2 DEF Once!Next
    <3>4. CASE k \notin Plain
      BY <3>1, <3>2, <3>4
    <3> QED
      BY <3>3, <3>4
  <2>3. CASE receipts' = receipts
    <3>1. CASE effects' = effects
      BY <2>3, <3>1
    <3>2. ASSUME NEW k \in Action, More(effects, effects', k)
          PROVE  [Once!Next]_<<done, kept>>
      <4>1. \A l \in Plain : l # k => effects'[l] = effects[l]
        BY <2>1, <3>2 DEF More
      <4>2. CASE k \in Plain
        <5>1. effects[k] = 0 /\ effects'[k] = 1
          BY <2>1, <3>2, <4>2 DEF More
        <5>2. done' = [done EXCEPT ![k] = 1]
          BY <4>1, <4>2, <5>1
        <5>3. Once!Happen(k)
          BY <2>3, <4>2, <5>1, <5>2 DEF Once!Happen
        <5> QED
          BY <4>2, <5>3 DEF Once!Next
      <4>3. CASE k \notin Plain
        <5>1. done' = done
          BY <4>1, <4>3
        <5> QED
          BY <2>3, <5>1
      <4> QED
        BY <4>2, <4>3
    <3> QED
      BY <3>1, <3>2, EffectsKept
  <2> QED
    BY <2>2, <2>3
<1> QED
  BY <1>1, <1>2, Invariant, PTL DEF Spec, OnceImplemented, Once!Spec
=============================================================================
