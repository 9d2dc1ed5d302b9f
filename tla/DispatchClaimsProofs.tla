------------------------ MODULE DispatchClaimsProofs ------------------------
(***************************************************************************)
(* What holds of the claim protocol for every number of tasks, handlers,   *)
(* pids and ticks.  The argument: TypeOK; then the fencing of generations  *)
(* (ClaimsFenced), which needs nothing else; then, where no stale-lock     *)
(* recovery runs, that a running handler keeps its claim                   *)
(* (WorkersHoldClaim).  The properties follow from these.                  *)
(***************************************************************************)
EXTENDS DispatchClaims, TLAPS

-----------------------------------------------------------------------------
(* Lemmas about the model's operators.                                     *)

\* Half a lease, the renewal interval, is a number of ticks.
LEMMA HalfLease == Lease \div 2 \in Nat
BY ClaimAssumption

\* Giving an attempt back never takes the counter below zero.
LEMMA RefundedNat == ASSUME NEW n \in Nat PROVE Refunded(n) \in Nat
BY DEF Refunded

\* A countdown stays a countdown.
LEMMA LessNat == ASSUME NEW n \in Nat PROVE Less(n) \in Nat
BY DEF Less

LEMMA LessRenew == ASSUME NEW n \in Nat \cup {NoRenew} PROVE Less(n) \in Nat \cup {NoRenew}
BY DEF Less, NoRenew

\* Clearing a claim keeps a row a row and leaves its status and generation.
LEMMA UnclaimedRow ==
    ASSUME NEW r \in Row
    PROVE  /\ Unclaimed(r) \in Row
           /\ Unclaimed(r).status = r.status
           /\ Unclaimed(r).gen = r.gen
           /\ Unclaimed(r).pid = r.pid
           /\ Unclaimed(r).owner = NoPid
BY DEF Unclaimed, Row, Owner

\* A released row is a row that nobody owns.
LEMMA ReleasedRow ==
    ASSUME NEW r \in Row
    PROVE  /\ Released(r) \in Row
           /\ Released(r).gen = r.gen
           /\ Released(r).pid = r.pid
           /\ Released(r).owner = NoPid
<1>1. /\ Unclaimed(r) \in Row /\ Unclaimed(r).gen = r.gen
      /\ Unclaimed(r).pid = r.pid /\ Unclaimed(r).owner = NoPid
  BY UnclaimedRow
<1>2. Refunded(r.attempts) \in Nat
  BY RefundedNat DEF Row
<1> QED
  BY <1>1, <1>2 DEF Released, Row

\* The recovery at service start keeps a row a row and its generation; it
\* never gives a row to another owner.
LEMMA AfterRestartRow ==
    ASSUME NEW r \in Row
    PROVE  /\ AfterRestart(r) \in Row
           /\ AfterRestart(r).gen = r.gen
           /\ AfterRestart(r).owner \in {r.owner, NoPid}
           /\ AfterRestart(r).pid \in {r.pid, NoPid}
BY RefundedNat DEF AfterRestart, Unclaimed, Row, Owner, Unlocked

-----------------------------------------------------------------------------
(* Type correctness.                                                       *)

\* A handler that moves on keeps its type and its task.
LEMMA GoToType ==
    ASSUME TypeOK, NEW s \in Slot, handler[s].phase # "idle",
           NEW p \in Phase, GoTo(s, p)
    PROVE  /\ handler' \in [Slot -> Handler]
           /\ \A x \in Slot : handler'[x].phase # "idle" => handler'[x].task \in Task
BY DEF GoTo, TypeOK, Handler

\* A handler that is forgotten leaves an idle slot.
LEMMA ForgottenType ==
    ASSUME TypeOK, NEW s \in Slot, Forgotten(s)
    PROVE  /\ handler' \in [Slot -> Handler]
           /\ \A x \in Slot : handler'[x].phase # "idle" => handler'[x].task \in Task
BY DEF Forgotten, TypeOK, Handler, Idle, Phase, NoRenew

\* Writing a row to one task keeps every row in its type.
LEMMA RowWrite ==
    ASSUME TypeOK, NEW t \in Task, NEW r \in Row, row' = [row EXCEPT ![t] = r]
    PROVE  row' \in [Task -> Row]
BY DEF TypeOK

\* A handler that is marked lost and moves on.
LEMMA LostType ==
    ASSUME TypeOK, NEW s \in Slot, handler[s].phase # "idle",
           handler' = [handler EXCEPT ![s].phase = "lettingGo", ![s].lost = TRUE]
    PROVE  /\ handler' \in [Slot -> Handler]
           /\ \A x \in Slot : handler'[x].phase # "idle" => handler'[x].task \in Task
<1>1. handler[s] \in Handler /\ handler[s].task \in Task
  BY DEF TypeOK
<1>2. [handler[s] EXCEPT !.phase = "lettingGo", !.lost = TRUE] \in Handler
  BY <1>1 DEF Handler, Phase, Closing
<1>3. handler' = [handler EXCEPT ![s] = [handler[s] EXCEPT !.phase = "lettingGo", !.lost = TRUE]]
  BY DEF TypeOK
<1> QED
  BY <1>1, <1>2, <1>3 DEF TypeOK, Handler

\* A renewal that failed.
LEMMA StopRenewingType ==
    ASSUME TypeOK, NEW s \in Slot, StopRenewing(s)
    PROVE  /\ handler' \in [Slot -> Handler]
           /\ \A x \in Slot : handler'[x].phase # "idle" => handler'[x].task \in Task
<1>1. CASE handler[s].phase = "idle"
  BY <1>1 DEF StopRenewing, TypeOK
<1>2. CASE handler[s].phase # "idle"
  <2> DEFINE left == IF handler[s].phase \in Active THEN NoRenew ELSE handler[s].renewIn
             h == [handler[s] EXCEPT !.lost = TRUE, !.renewIn = left]
  <2>1. handler[s] \in Handler /\ handler[s].task \in Task
    BY <1>2 DEF TypeOK
  <2>2. left \in Nat \cup {NoRenew}
    BY <2>1 DEF Handler
  <2>3. handler' = [handler EXCEPT ![s] = h]
    BY <1>2 DEF StopRenewing, TypeOK
  <2> HIDE DEF left
  <2>4. h \in Handler /\ h.task \in Task
    BY <2>1, <2>2 DEF Handler
  <2> HIDE DEF h
  <2> QED
    BY <2>3, <2>4 DEF TypeOK
<1> QED
  BY <1>1, <1>2

\* Every action keeps every field of every row and handler in its type.
THEOREM TypeCorrect == Spec => []TypeOK
<1>1. Init => TypeOK
  BY ClaimAssumption DEF Init, TypeOK, Row, Owner, Handler, Idle, Phase, Active, Working,
     Executing, Closing, NoRenew, Unlocked
<1>2. TypeOK /\ [Next]_vars => TypeOK'
  <2> SUFFICES ASSUME TypeOK, [Next]_vars PROVE TypeOK'
    OBVIOUS
  <2>0. \A s \in Slot : handler[s].phase # "idle" =>
            handler[s].task \in Task /\ row[handler[s].task] \in Row
    BY DEF TypeOK
  <2>1. ASSUME NEW t \in Task, NEW s \in Slot, Claim(t, s) PROVE TypeOK'
    <3>1. row[t] \in Row /\ service \in Owner
      BY DEF TypeOK
    <3> DEFINE r == [row[t] EXCEPT !.status = "processing", !.attempts = row[t].attempts + 1,
                        !.delay = 0, !.age = 0, !.owner = service, !.pid = service,
                        !.gen = row[t].gen + 1, !.ttl = Lease, !.terminal = FALSE]
               h == [phase |-> "start", task |-> t, gen |-> row[t].gen + 1,
                     attempt |-> row[t].attempts + 1, lost |-> FALSE, resolved |-> FALSE,
                     renewIn |-> Lease \div 2]
    <3>2. r \in Row
      <4>1. row[t].attempts + 1 \in Nat /\ row[t].gen + 1 \in Nat /\ Lease \in Nat
        BY <3>1, ClaimAssumption DEF Row
      <4> DEFINE g == row[t].gen + 1
                 a == row[t].attempts + 1
      <4> HIDE DEF g, a
      <4>2. [row[t] EXCEPT !.status = "processing", !.attempts = a, !.delay = 0, !.age = 0,
               !.owner = service, !.pid = service, !.gen = g, !.ttl = Lease,
               !.terminal = FALSE] \in Row
        BY <3>1, <4>1 DEF Row, g, a
      <4> QED
        BY <4>2 DEF g, a
    <3>3. row' = [row EXCEPT ![t] = r] /\ handler' = [handler EXCEPT ![s] = h]
      BY <2>1 DEF Claim
    <3>4. h \in Handler /\ h.task \in Task
      BY <3>1, HalfLease DEF Row, Handler, Phase, Active, Working
    <3> HIDE DEF r, h
    <3>5. row' \in [Task -> Row]
      BY <3>2, <3>3, RowWrite
    <3>6. handler' \in [Slot -> Handler] /\ \A x \in Slot :
             handler'[x].phase # "idle" => handler'[x].task \in Task
      BY <3>3, <3>4 DEF TypeOK
    <3> QED
      BY <2>1, <3>5, <3>6 DEF TypeOK, Claim
  <2>2. ASSUME RenewScan PROVE TypeOK'
    BY <2>2 DEF TypeOK, RenewScan
  <2>3. ASSUME NEW s \in Slot, Renew(s) PROVE TypeOK'
    <3>1. CASE handler[s].phase # "idle" /\ Holds(s) /\ row[handler[s].task].ttl > 0
      <4>1. handler' \in [Slot -> Handler] /\ \A x \in Slot :
               handler'[x].phase # "idle" => handler'[x].task \in Task
        BY <2>3, <3>1, HalfLease DEF TypeOK, Renew, Handler
      <4>2. row' \in [Task -> Row]
        BY <2>3, <3>1, <2>0, ClaimAssumption DEF TypeOK, Renew, Row
      <4> QED
        BY <2>3, <4>1, <4>2 DEF TypeOK, Renew
    <3>2. CASE ~(handler[s].phase # "idle" /\ Holds(s) /\ row[handler[s].task].ttl > 0)
      BY <2>3, <3>2, StopRenewingType DEF TypeOK, Renew
    <3> QED
      BY <3>1, <3>2
  <2>4. ASSUME NEW s \in Slot, RenewUnsaved(s) PROVE TypeOK'
    BY <2>4, StopRenewingType DEF TypeOK, RenewUnsaved, Fault
  <2>5. ASSUME NEW s \in Slot, Begin(s) PROVE TypeOK'
    <3>1. PICK p \in {"work", "raised"} : GoTo(s, p)
      BY <2>5 DEF Begin
    <3> QED
      BY <2>5, <3>1, GoToType DEF TypeOK, Begin, Phase, Active, Working, Executing
  <2>6. ASSUME NEW s \in Slot, ReleaseSource(s) PROVE TypeOK'
    <3>0. handler[s].phase = "start" /\ handler[s].task \in Task /\ faults' \in Nat
      BY <2>6, <2>0 DEF ReleaseSource, Fault, TypeOK
    <3>1. CASE Current(s)
      <4>1. row' \in [Task -> Row]
        BY <2>0, <2>6, <3>0, <3>1, ReleasedRow, RowWrite DEF ReleaseSource
      <4>2. handler' \in [Slot -> Handler] /\ \A x \in Slot :
               handler'[x].phase # "idle" => handler'[x].task \in Task
        BY <2>6, <3>0, <3>1 DEF TypeOK, ReleaseSource, Handler, Phase, Active
      <4> QED
        BY <2>6, <3>0, <4>1, <4>2 DEF TypeOK, ReleaseSource
    <3>2. CASE ~Current(s)
      BY <2>6, <3>0, <3>2, GoToType DEF TypeOK, ReleaseSource, Phase, Active
    <3> QED
      BY <3>1, <3>2
  <2>7. ASSUME NEW s \in Slot, BeginTurn(s) PROVE TypeOK'
    <3>1. row' \in [Task -> Row]
      BY <2>7, <2>0 DEF TypeOK, BeginTurn, Row
    <3> QED
      BY <2>7, <3>1, GoToType DEF TypeOK, BeginTurn, Phase, Active, Working, Executing
  <2>8. ASSUME NEW s \in Slot, EndTurn(s) PROVE TypeOK'
    <3>1. row' \in [Task -> Row]
      BY <2>8, <2>0 DEF TypeOK, EndTurn, Row
    <3> QED
      BY <2>8, <3>1, GoToType DEF TypeOK, EndTurn, Phase, Active, Working, Executing
  <2>9. ASSUME NEW s \in Slot, Settle(s) PROVE TypeOK'
    <3>1. row' \in [Task -> Row]
      BY <2>9, <2>0, ClaimAssumption DEF TypeOK, Settle, Row, Unlocked
    <3>2. PICK then \in {"returned", "raised"} : GoTo(s, then)
      BY <2>9 DEF Settle
    <3> QED
      BY <2>9, <3>1, <3>2, GoToType DEF TypeOK, Settle, Phase, Active
  <2>10. ASSUME NEW s \in Slot, Defer(s) PROVE TypeOK'
    <3>1. row' \in [Task -> Row]
      BY <2>10, <2>0, RefundedNat, ClaimAssumption DEF TypeOK, Defer, Row, Unlocked
    <3> QED
      BY <2>10, <3>1, GoToType DEF TypeOK, Defer, Fault, Phase, Active
  <2>11. ASSUME NEW s \in Slot, GiveUp(s) PROVE TypeOK'
    BY <2>11, GoToType DEF TypeOK, GiveUp, Fault, Phase, Active
  <2>12. ASSUME NEW s \in Slot, Raise(s) PROVE TypeOK'
    <3>1. row' \in [Task -> Row]
      BY <2>12, <2>0 DEF TypeOK, Raise, Row
    <3> QED
      BY <2>12, <3>1, GoToType DEF TypeOK, Raise, Phase, Active
  <2>13. ASSUME NEW s \in Slot, Pop(s) PROVE TypeOK'
    <3>1. CASE handler[s].resolved
      BY <2>13, <3>1, ForgottenType DEF TypeOK, Pop
    <3>2. CASE ~handler[s].resolved
      <4>1. PICK p \in Closing : GoTo(s, p)
        BY <2>13, <3>2 DEF Pop, Closing
      <4> QED
        BY <2>13, <4>1, GoToType DEF TypeOK, Pop, Phase
    <3> QED
      BY <3>1, <3>2
  <2>14. ASSUME NEW s \in Slot, Complete(s) PROVE TypeOK'
    <3>1. CASE Current(s)
      <4>1. row' \in [Task -> Row]
        <5> DEFINE t == handler[s].task
                   r == [Unclaimed(row[t]) EXCEPT !.terminal = TRUE]
        <5>1. t \in Task /\ row[t] \in Row
          BY <2>14, <2>0 DEF Complete
        <5>2. r \in Row
          BY <5>1, UnclaimedRow DEF Row
        <5>3. row' = [row EXCEPT ![t] = r]
          BY <2>14, <3>1 DEF Complete
        <5> QED
          BY <5>1, <5>2, <5>3, RowWrite
      <4> QED
        BY <2>14, <3>1, <4>1, ForgottenType DEF TypeOK, Complete
    <3>2. CASE ~Current(s)
      BY <2>14, <3>2, LostType DEF TypeOK, Complete
    <3> QED
      BY <3>1, <3>2
  <2>15. ASSUME NEW s \in Slot, Recover(s) PROVE TypeOK'
    <3>1. row' \in [Task -> Row]
      <4> DEFINE t == handler[s].task
                 u == Unclaimed(row[t])
                 exhausted == handler[s].attempt >= MaxAttempts
                 r == [u EXCEPT !.status = IF exhausted THEN "failed" ELSE "pending",
                                !.delay = IF exhausted THEN 0 ELSE Backoff,
                                !.age = Unlocked]
      <4>1. t \in Task /\ u \in Row
        BY <2>15, <2>0, UnclaimedRow DEF Recover
      <4>2. row' = IF Holds(s) /\ row[t].status = "processing"
                   THEN [row EXCEPT ![t] = r] ELSE row
        BY <2>15 DEF Recover
      <4> HIDE DEF u
      <4>3. r \in Row
        BY <4>1, ClaimAssumption DEF Row
      <4> HIDE DEF r
      <4> QED
        BY <4>1, <4>2, <4>3, RowWrite DEF TypeOK
    <3> QED
      BY <2>15, <3>1, LostType DEF TypeOK, Recover
  <2>16. ASSUME NEW s \in Slot, LetGo(s) PROVE TypeOK'
    <3>1. row' \in [Task -> Row]
      BY <2>16, <2>0 DEF TypeOK, LetGo, Row, Owner
    <3> QED
      BY <2>16, <3>1, ForgottenType DEF TypeOK, LetGo
  <2>17. ASSUME NEW s \in Slot, CallbackUnsaved(s) PROVE TypeOK'
    <3>0. UNCHANGED <<service, row, due>> /\ faults' = faults + 1
      BY <2>17, Zenon DEF CallbackUnsaved, Fault
    <3>1. CASE Forgotten(s)
      BY <3>0, <3>1, ForgottenType DEF TypeOK
    <3>2. CASE ~Forgotten(s)
      <4>1. handler' = [handler EXCEPT ![s].phase = "lettingGo", ![s].lost = TRUE]
        BY <2>17, <3>2, Zenon DEF CallbackUnsaved
      <4>2. handler[s].phase # "idle"
        BY <2>17 DEF CallbackUnsaved, Closing
      <4> QED
        <5>1. handler' \in [Slot -> Handler] /\ \A x \in Slot :
                 handler'[x].phase # "idle" => handler'[x].task \in Task
          BY <4>1, <4>2, LostType
        <5> QED
          BY <3>0, <5>1 DEF TypeOK
    <3> QED
      BY <3>1, <3>2
  <2>18. ASSUME NEW t \in Task, RecoverStaleLock(t) PROVE TypeOK'
    <3>1. faults' \in Nat
      BY <2>18 DEF TypeOK, RecoverStaleLock, Fault
    <3>2. row' \in [Task -> Row]
      <4> DEFINE u == IF row[t].ttl = 0 THEN [Unclaimed(row[t]) EXCEPT !.pid = NoPid]
                      ELSE row[t]
                 r == [u EXCEPT !.status = "pending", !.age = Unlocked, !.delay = 0]
      <4>1. row[t] \in Row /\ Unclaimed(row[t]) \in Row
        BY UnclaimedRow DEF TypeOK
      <4>2. u \in Row
        BY <4>1 DEF Row, Owner
      <4>3. row' = [row EXCEPT ![t] = r]
        BY <2>18, Zenon DEF RecoverStaleLock
      <4> HIDE DEF u
      <4>4. r \in Row
        BY <4>2 DEF Row
      <4> HIDE DEF r
      <4> QED
        BY <4>3, <4>4, RowWrite
    <3> QED
      BY <2>18, <3>1, <3>2 DEF TypeOK, RecoverStaleLock
  <2>19. ASSUME NEW t \in Task, ForgetClaim(t) PROVE TypeOK'
    BY <2>19 DEF TypeOK, ForgetClaim, Row
  <2>20. ASSUME Crash PROVE TypeOK'
    BY <2>20 DEF TypeOK, Crash, Fault, Idle, Handler, Phase, NoRenew, Owner
  <2>21. ASSUME NEW p \in Pid, Start(p) PROVE TypeOK'
    BY <2>21, AfterRestartRow DEF TypeOK, Start, Owner
  <2>22. ASSUME Tick PROVE TypeOK'
    <3>1. row' \in [Task -> Row]
      <4> DEFINE r(t) == [row[t] EXCEPT !.ttl = Less(@), !.delay = Less(@),
                            !.age = IF @ = Unlocked \/ @ >= Stale THEN @ ELSE @ + 1]
      <4>1. ASSUME NEW t \in Task PROVE r(t) \in Row
        <5>1. row[t] \in Row
          BY DEF TypeOK
        <5>2. Less(row[t].ttl) \in Nat /\ Less(row[t].delay) \in Nat
          BY <5>1, LessNat DEF Row
        <5>3. (IF row[t].age = Unlocked \/ row[t].age >= Stale
               THEN row[t].age ELSE row[t].age + 1) \in Nat \cup {Unlocked}
          BY <5>1, ClaimAssumption DEF Row, Unlocked
        <5> QED
          BY <5>1, <5>2, <5>3 DEF Row
      <4> QED
        BY <2>22, <4>1 DEF Tick
    <3>2. handler' \in [Slot -> Handler] /\ \A x \in Slot :
             handler'[x].phase # "idle" => handler'[x].task \in Task
      BY <2>22, LessRenew DEF TypeOK, Tick, Handler
    <3> QED
      BY <2>22, <3>1, <3>2 DEF TypeOK, Tick
  <2>23. ASSUME UNCHANGED vars PROVE TypeOK'
    BY <2>23 DEF TypeOK, vars
  <2> QED
    BY <2>1, <2>2, <2>3, <2>4, <2>5, <2>6, <2>7, <2>8, <2>9, <2>10, <2>11, <2>12, <2>13,
       <2>14, <2>15, <2>16, <2>17, <2>18, <2>19, <2>20, <2>21, <2>22, <2>23
    DEF Next, DispatcherStep, HandlerStep, Leave, Callback
<1> QED
  BY <1>1, <1>2, PTL DEF Spec

-----------------------------------------------------------------------------
(* What a step other than a claim, a crash, a start or the pruning of the  *)
(* history can do to a claim: hand it back, never take or transfer it.     *)

\* Owner and pid of a task change only through its own handler, which then
\* stops working, or through the recovery of an expired stale lock.
OwnerKept(t) ==
    \/ row'[t].owner = row[t].owner /\ row'[t].pid = row[t].pid
    \/ ReclaimStaleLocks = TRUE /\ row[t].ttl = 0
    \/ \E s \in Slot : /\ handler[s].phase # "idle"
                       /\ handler[s].task = t
                       /\ Holds(s)
                       /\ handler'[s].phase \notin Working

RowsHandBack ==
    \A t \in Task :
        /\ row'[t].gen = row[t].gen
        /\ row'[t].owner \in {row[t].owner, NoPid}
        /\ row'[t].pid \in {row[t].pid, NoPid}
        /\ OwnerKept(t)

HandlerMoves(s) ==
    /\ handler'[s].phase # "idle" =>
         /\ handler[s].phase # "idle"
         /\ handler'[s].task = handler[s].task
         /\ handler'[s].gen = handler[s].gen
         /\ handler'[s].phase \in Working => handler[s].phase \in Working
         /\ handler'[s].resolved =>
              handler[s].resolved \/ row'[handler[s].task].owner = NoPid
    /\ handler[s].phase # "idle" /\ handler'[s].phase = "idle" =>
         \/ StoreOutage = TRUE
         \/ handler[s].resolved
         \/ ~Holds(s)
         \/ row'[handler[s].task].owner = NoPid
         \/ row'[handler[s].task].pid = NoPid

HandsBack ==
    /\ service' = service
    /\ RowsHandBack
    /\ \A s \in Slot : HandlerMoves(s)

\* A step that leaves the rows' claims alone and moves one handler on.
LEMMA MoveHandsBack ==
    ASSUME TypeOK, NEW s \in Slot, NEW p \in Phase, GoTo(s, p),
           handler[s].phase \notin {"idle"}, p # "idle",
           p \in Working => handler[s].phase \in Working,
           service' = service,
           \A t \in Task : /\ row'[t].gen = row[t].gen
                          /\ row'[t].owner = row[t].owner
                          /\ row'[t].pid = row[t].pid
    PROVE  HandsBack
<1>1. RowsHandBack
  BY DEF RowsHandBack, OwnerKept
<1>2. ASSUME NEW x \in Slot PROVE HandlerMoves(x)
  <2>1. CASE x = s
    BY <2>1 DEF HandlerMoves, GoTo, TypeOK, Handler
  <2>2. CASE x # s
    BY <2>2 DEF HandlerMoves, GoTo, TypeOK
  <2> QED
    BY <2>1, <2>2
<1> QED
  BY <1>1, <1>2 DEF HandsBack

LEMMA StepHandsBack ==
    ASSUME TypeOK, [Next]_vars
    PROVE  \/ HandsBack
           \/ \E t \in Task, s \in Slot : Claim(t, s)
           \/ \E t \in Task : ForgetClaim(t)
           \/ Crash
           \/ \E p \in Pid : Start(p)
<1>0. \A s \in Slot : handler[s].phase # "idle" =>
          handler[s].task \in Task /\ row[handler[s].task] \in Row
  BY DEF TypeOK
<1> USE DEF Phase, Active, Working, Executing, Closing
<1>2. ASSUME RenewScan PROVE HandsBack
  BY <1>2 DEF RenewScan, HandsBack, RowsHandBack, OwnerKept, HandlerMoves
<1>4. ASSUME NEW s \in Slot, StopRenewing(s), UNCHANGED <<service, row>> PROVE HandsBack
  BY <1>4 DEF StopRenewing, HandsBack, RowsHandBack, OwnerKept, HandlerMoves, TypeOK, Handler
<1>3. ASSUME NEW s \in Slot, Renew(s) PROVE HandsBack
  <2>1. CASE handler[s].phase # "idle" /\ Holds(s) /\ row[handler[s].task].ttl > 0
    <3>1. RowsHandBack
      BY <1>3, <2>1, <1>0 DEF Renew, RowsHandBack, OwnerKept, TypeOK, Row
    <3>2. \A x \in Slot : HandlerMoves(x)
      BY <1>3, <2>1 DEF Renew, HandlerMoves, TypeOK, Handler
    <3> QED
      BY <1>3, <3>1, <3>2 DEF HandsBack, Renew
  <2>2. CASE ~(handler[s].phase # "idle" /\ Holds(s) /\ row[handler[s].task].ttl > 0)
    BY <1>3, <2>2, <1>4 DEF Renew
  <2> QED
    BY <2>1, <2>2
<1>5. ASSUME NEW s \in Slot, RenewUnsaved(s) PROVE HandsBack
  BY <1>5, <1>4 DEF RenewUnsaved
<1>6. ASSUME NEW s \in Slot, Begin(s) PROVE HandsBack
  <2>1. PICK p \in {"work", "raised"} : GoTo(s, p)
    BY <1>6 DEF Begin
  <2> QED
    BY <1>6, <2>1, MoveHandsBack DEF Begin
<1>7. ASSUME NEW s \in Slot, ReleaseSource(s) PROVE HandsBack
  <2>1. CASE Current(s)
    <3> DEFINE t == handler[s].task
    <3>1. /\ handler[s].phase = "start" /\ t \in Task /\ Holds(s)
          /\ service' = service
          /\ row' = [row EXCEPT ![t] = Released(row[t])]
          /\ handler' = [handler EXCEPT ![s].phase = "returned",
                                        ![s].lost = TRUE, ![s].resolved = TRUE]
      BY <1>7, <1>0, <2>1 DEF ReleaseSource, Current
    <3>2. /\ row'[t].gen = row[t].gen /\ row'[t].owner = NoPid /\ row'[t].pid = row[t].pid
      BY <3>1, <1>0, ReleasedRow DEF TypeOK
    <3>3. RowsHandBack
      BY <3>1, <3>2 DEF RowsHandBack, OwnerKept, TypeOK, Handler
    <3>4. \A x \in Slot : HandlerMoves(x)
      BY <3>1, <3>2 DEF HandlerMoves, TypeOK, Handler
    <3> QED
      BY <3>1, <3>3, <3>4 DEF HandsBack
  <2>2. CASE ~Current(s)
    BY <1>7, <2>2, MoveHandsBack DEF ReleaseSource
  <2> QED
    BY <2>1, <2>2
<1>8. ASSUME NEW s \in Slot, BeginTurn(s) PROVE HandsBack
  BY <1>8, <1>0, MoveHandsBack DEF BeginTurn, TypeOK, Row
<1>9. ASSUME NEW s \in Slot, EndTurn(s) PROVE HandsBack
  BY <1>9, <1>0, MoveHandsBack DEF EndTurn, TypeOK, Row
<1>10. ASSUME NEW s \in Slot, Settle(s) PROVE HandsBack
  <2>1. PICK then \in {"returned", "raised"} : GoTo(s, then)
    BY <1>10 DEF Settle
  <2>2. service' = service /\ \A t \in Task : /\ row'[t].gen = row[t].gen
            /\ row'[t].owner = row[t].owner /\ row'[t].pid = row[t].pid
    BY <1>10, <1>0 DEF Settle, TypeOK, Row
  <2> QED
    BY <1>10, <2>1, <2>2, MoveHandsBack DEF Settle
<1>11. ASSUME NEW s \in Slot, Defer(s) PROVE HandsBack
  BY <1>11, <1>0, MoveHandsBack DEF Defer, TypeOK, Row
<1>12. ASSUME NEW s \in Slot, GiveUp(s) PROVE HandsBack
  BY <1>12, <1>0, MoveHandsBack DEF GiveUp
<1>13. ASSUME NEW s \in Slot, Raise(s) PROVE HandsBack
  BY <1>13, <1>0, MoveHandsBack DEF Raise, TypeOK, Row
<1>20. ASSUME NEW s \in Slot, Forgotten(s), service' = service,
             handler[s].phase \notin Working,
             RowsHandBack,
             \/ StoreOutage = TRUE
             \/ handler[s].resolved
             \/ ~Holds(s)
             \/ row'[handler[s].task].owner = NoPid
             \/ row'[handler[s].task].pid = NoPid
       PROVE HandsBack
  <2>1. ASSUME NEW x \in Slot PROVE HandlerMoves(x)
    BY <1>20, Zenon DEF Forgotten, HandlerMoves, Idle, TypeOK
  <2> QED
    BY <1>20, <2>1 DEF HandsBack
<1>14. ASSUME NEW s \in Slot, Pop(s) PROVE HandsBack
  <2>1. CASE handler[s].resolved
    <3>1. RowsHandBack
      BY <1>14 DEF Pop, RowsHandBack, OwnerKept
    <3> QED
      BY <1>14, <2>1, <3>1, <1>20 DEF Pop
  <2>2. CASE ~handler[s].resolved
    <3>1. PICK p \in {"completing", "recovering"} : GoTo(s, p)
      BY <1>14, <2>2 DEF Pop
    <3> QED
      BY <1>14, <3>1, MoveHandsBack DEF Pop
  <2> QED
    BY <2>1, <2>2
<1>21. ASSUME NEW s \in Slot, service' = service, RowsHandBack,
             handler[s].phase \in Closing,
             handler' = [handler EXCEPT ![s].phase = "lettingGo", ![s].lost = TRUE]
       PROVE HandsBack
  <2>1. \A x \in Slot : HandlerMoves(x)
    BY <1>21 DEF HandlerMoves, TypeOK, Handler
  <2> QED
    BY <1>21, <2>1 DEF HandsBack
<1>15. ASSUME NEW s \in Slot, Complete(s) PROVE HandsBack
  <2>1. CASE Current(s)
    <3> DEFINE t == handler[s].task
    <3>1. /\ handler[s].phase = "completing" /\ t \in Task /\ Holds(s) /\ service' = service
          /\ row' = [row EXCEPT ![t] = [Unclaimed(row[t]) EXCEPT !.terminal = TRUE]]
          /\ Forgotten(s)
      BY <1>15, <1>0, <2>1 DEF Complete, Current
    <3>2. /\ row'[t].gen = row[t].gen /\ row'[t].owner = NoPid /\ row'[t].pid = row[t].pid
      BY <3>1, <1>0, UnclaimedRow DEF TypeOK, Row
    <3>3. handler'[s].phase = "idle"
      BY <3>1 DEF Forgotten, Idle, TypeOK
    <3>4. RowsHandBack
      BY <3>1, <3>2, <3>3 DEF RowsHandBack, OwnerKept
    <3> QED
      BY <3>1, <3>2, <3>4, <1>20
  <2>2. CASE ~Current(s)
    <3>1. RowsHandBack
      BY <1>15, <2>2 DEF Complete, RowsHandBack, OwnerKept
    <3> QED
      BY <1>15, <2>2, <3>1, <1>21 DEF Complete
  <2> QED
    BY <2>1, <2>2
<1>16. ASSUME NEW s \in Slot, Recover(s) PROVE HandsBack
  <2> DEFINE t == handler[s].task
  <2>1. /\ t \in Task /\ handler[s].phase = "recovering" /\ service' = service
        /\ handler' = [handler EXCEPT ![s].phase = "lettingGo", ![s].lost = TRUE]
    BY <1>16, <1>0 DEF Recover
  <2>2. CASE Holds(s) /\ row[t].status = "processing"
    <3>1. /\ row'[t].gen = row[t].gen /\ row'[t].owner = NoPid /\ row'[t].pid = row[t].pid
          /\ \A x \in Task \ {t} : row'[x] = row[x]
      <4> DEFINE u == Unclaimed(row[t])
                 exhausted == handler[s].attempt >= MaxAttempts
                 r == [u EXCEPT !.status = IF exhausted THEN "failed" ELSE "pending",
                                !.delay = IF exhausted THEN 0 ELSE Backoff,
                                !.age = Unlocked]
      <4>1. u \in Row /\ u.gen = row[t].gen /\ u.owner = NoPid /\ u.pid = row[t].pid
        BY <2>1, <1>0, UnclaimedRow
      <4>2. row' = [row EXCEPT ![t] = r]
        BY <1>16, <2>2 DEF Recover
      <4> HIDE DEF u, exhausted
      <4>3. r.gen = u.gen /\ r.owner = u.owner /\ r.pid = u.pid
        BY <4>1 DEF Row
      <4> HIDE DEF r
      <4> QED
        BY <2>1, <4>1, <4>2, <4>3 DEF TypeOK
    <3>2. handler'[s].phase = "lettingGo"
      BY <2>1 DEF TypeOK, Handler
    <3>3. RowsHandBack
      BY <2>1, <2>2, <3>1, <3>2 DEF RowsHandBack, OwnerKept
    <3> QED
      BY <2>1, <3>3, <1>21
  <2>3. CASE ~(Holds(s) /\ row[t].status = "processing")
    <3>1. RowsHandBack
      BY <1>16, <2>3 DEF Recover, RowsHandBack, OwnerKept
    <3> QED
      BY <2>1, <3>1, <1>21
  <2> QED
    BY <2>2, <2>3
<1>17. ASSUME NEW s \in Slot, LetGo(s) PROVE HandsBack
  <2> DEFINE t == handler[s].task
  <2>1. t \in Task /\ handler[s].phase = "lettingGo" /\ service' = service /\ Forgotten(s)
    BY <1>17, <1>0 DEF LetGo
  <2>2. CASE Holds(s)
    <3>1. /\ row'[t].gen = row[t].gen /\ row'[t].owner = row[t].owner /\ row'[t].pid = NoPid
          /\ \A x \in Task \ {t} : row'[x] = row[x]
      BY <1>17, <2>1, <2>2, <1>0 DEF LetGo, TypeOK, Row
    <3>2. handler'[s].phase = "idle"
      BY <2>1 DEF Forgotten, Idle, TypeOK
    <3>3. RowsHandBack
      BY <2>1, <2>2, <3>1, <3>2 DEF RowsHandBack, OwnerKept
    <3> QED
      BY <2>1, <3>1, <3>3, <1>20
  <2>3. CASE ~Holds(s)
    <3>1. RowsHandBack
      BY <1>17, <2>3 DEF LetGo, RowsHandBack, OwnerKept
    <3> QED
      BY <2>1, <2>3, <3>1, <1>20
  <2> QED
    BY <2>2, <2>3
<1>18. ASSUME NEW s \in Slot, CallbackUnsaved(s) PROVE HandsBack
  <2>1. /\ UNCHANGED <<service, row>> /\ handler[s].phase \in Closing
        /\ \/ handler' = [handler EXCEPT ![s].phase = "lettingGo", ![s].lost = TRUE]
           \/ Forgotten(s)
    BY <1>18, Zenon DEF CallbackUnsaved
  <2>2. StoreOutage = TRUE
    BY <1>18, ClaimAssumption, Zenon DEF CallbackUnsaved
  <2>3. RowsHandBack
    BY <2>1 DEF RowsHandBack, OwnerKept
  <2> QED
    BY <2>1, <2>2, <2>3, <1>20, <1>21
<1>19. ASSUME NEW t \in Task, RecoverStaleLock(t) PROVE HandsBack
  <2>1. ReclaimStaleLocks = TRUE
    BY <1>19, ClaimAssumption, Zenon DEF RecoverStaleLock
  <2>2. row[t] \in Row
    BY DEF TypeOK
  <2>3. /\ service' = service /\ handler' = handler
        /\ \A x \in Task \ {t} : row'[x] = row[x]
    BY <1>19 DEF RecoverStaleLock, TypeOK
  <2>4. CASE row[t].ttl = 0
    <3>1. row'[t].gen = row[t].gen /\ row'[t].owner = NoPid /\ row'[t].pid = NoPid
      BY <1>19, <2>2, <2>4, UnclaimedRow DEF RecoverStaleLock, TypeOK, Row
    <3> QED
      BY <2>1, <2>3, <2>4, <3>1 DEF HandsBack, RowsHandBack, OwnerKept, HandlerMoves
  <2>5. CASE row[t].ttl # 0
    <3>1. row'[t].gen = row[t].gen /\ row'[t].owner = row[t].owner /\ row'[t].pid = row[t].pid
      BY <1>19, <2>2, <2>5 DEF RecoverStaleLock, TypeOK, Row
    <3> QED
      BY <2>3, <3>1 DEF HandsBack, RowsHandBack, OwnerKept, HandlerMoves
  <2> QED
    BY <2>4, <2>5
<1>22. ASSUME Tick PROVE HandsBack
  <2>1. service' = service /\ \A t \in Task :
           /\ row'[t].gen = row[t].gen
           /\ row'[t].owner = row[t].owner
           /\ row'[t].pid = row[t].pid
    BY <1>22 DEF Tick, TypeOK, Row
  <2>2. \A s \in Slot : HandlerMoves(s)
    BY <1>22 DEF Tick, TypeOK, Handler, HandlerMoves
  <2> QED
    BY <2>1, <2>2 DEF HandsBack, RowsHandBack, OwnerKept
<1>23. ASSUME UNCHANGED vars PROVE HandsBack
  BY <1>23 DEF vars, HandsBack, RowsHandBack, OwnerKept, HandlerMoves
<1> QED
  BY <1>2, <1>3, <1>5, <1>6, <1>7, <1>8, <1>9, <1>10, <1>11, <1>12, <1>13, <1>14, <1>15,
     <1>16, <1>17, <1>18, <1>19, <1>22, <1>23
  DEF Next, DispatcherStep, HandlerStep, Leave, Callback

-----------------------------------------------------------------------------
(* The fencing of generations.                                             *)

\* A step that hands claims back keeps the generations fenced.
LEMMA HandsBackFenced == TypeOK /\ ClaimsFenced /\ HandsBack => ClaimsFenced'
<1> SUFFICES ASSUME TypeOK, ClaimsFenced, HandsBack PROVE ClaimsFenced'
  OBVIOUS
<1>0. \A s \in Slot : handler[s].phase # "idle" => handler[s].task \in Task
  BY DEF TypeOK
<1>1. ASSUME NEW s \in Slot, handler'[s].phase # "idle"
      PROVE  /\ service' \in Pid
             /\ handler'[s].gen <= row'[handler'[s].task].gen
             /\ handler'[s].resolved => ~Holds(s)'
  <2>1. /\ handler[s].phase # "idle" /\ handler'[s].task = handler[s].task
        /\ handler'[s].gen = handler[s].gen /\ handler[s].task \in Task
    BY <1>0, <1>1 DEF HandsBack, HandlerMoves
  <2>2. /\ service' = service /\ service \in Pid /\ NoPid \notin Pid
        /\ row'[handler[s].task].gen = row[handler[s].task].gen
        /\ handler[s].gen <= row[handler[s].task].gen
    BY <2>1, ClaimAssumption DEF HandsBack, RowsHandBack, ClaimsFenced
  <2>3. ASSUME handler'[s].resolved PROVE ~Holds(s)'
    <3>1. CASE row'[handler[s].task].owner = NoPid
      BY <2>1, <2>2, <3>1 DEF Holds
    <3>2. CASE handler[s].resolved
      <4>1. ~Holds(s)
        BY <2>1, <3>2 DEF ClaimsFenced
      <4>2. row'[handler[s].task].owner \in {row[handler[s].task].owner, NoPid}
        BY <2>1 DEF HandsBack, RowsHandBack
      <4> QED
        BY <2>1, <2>2, <4>1, <4>2 DEF Holds
    <3> QED
      BY <1>1, <2>3, <3>1, <3>2 DEF HandsBack, HandlerMoves
  <2> QED
    BY <2>1, <2>2, <2>3
<1>2. ASSUME NEW s1 \in Slot, NEW s2 \in Slot,
             handler'[s1].phase # "idle", handler'[s2].phase # "idle",
             handler'[s1].task = handler'[s2].task, handler'[s1].gen = handler'[s2].gen
      PROVE  s1 = s2
  BY <1>2 DEF HandsBack, HandlerMoves, ClaimsFenced
<1>3. ASSUME NEW t \in Task, row'[t].owner # NoPid, row'[t].pid # NoPid
      PROVE  row'[t].pid = row'[t].owner
  BY <1>3 DEF HandsBack, RowsHandBack, ClaimsFenced
<1> QED
  BY <1>1, <1>2, <1>3 DEF ClaimsFenced

\* A claim takes a generation above every handler's of that task.
LEMMA ClaimFenced ==
    ASSUME TypeOK, ClaimsFenced, NEW t \in Task, NEW s \in Slot, Claim(t, s)
    PROVE  ClaimsFenced'
<1>0. \A x \in Slot : handler[x].phase # "idle" =>
         /\ handler[x].task \in Task /\ handler[x].gen \in Nat
         /\ handler[x].gen <= row[handler[x].task].gen
  BY DEF TypeOK, ClaimsFenced, Handler
<1>1. /\ service' = service /\ service \in Pid /\ NoPid \notin Pid
      /\ row'[t].gen = row[t].gen + 1 /\ row[t].gen \in Nat
      /\ row'[t].owner = service /\ row'[t].pid = service
      /\ \A x \in Task \ {t} : row'[x] = row[x]
  BY ClaimAssumption DEF Claim, TypeOK, Row, Owner
<1>2. /\ handler'[s].task = t /\ handler'[s].gen = row[t].gen + 1
      /\ handler'[s].resolved = FALSE
      /\ \A x \in Slot \ {s} : handler'[x] = handler[x]
  BY DEF Claim, TypeOK
<1>3. ASSUME NEW x \in Slot, handler'[x].phase # "idle"
      PROVE  /\ handler'[x].gen <= row'[handler'[x].task].gen
             /\ handler'[x].resolved => ~Holds(x)'
             /\ x # s /\ handler'[x].task = t => handler'[x].gen < row'[t].gen
  <2>1. CASE x = s
    BY <1>1, <1>2, <2>1
  <2>2. CASE x # s /\ handler[x].task = t
    BY <1>0, <1>1, <1>2, <1>3, <2>2 DEF Holds
  <2>3. CASE x # s /\ handler[x].task # t
    <3>1. handler'[x] = handler[x] /\ row'[handler[x].task] = row[handler[x].task]
      BY <1>0, <1>1, <1>2, <1>3, <2>3
    <3> QED
      BY <1>0, <1>1, <1>3, <2>3, <3>1 DEF Holds, ClaimsFenced
  <2> QED
    BY <2>1, <2>2, <2>3
<1>4. ASSUME NEW s1 \in Slot, NEW s2 \in Slot,
             handler'[s1].phase # "idle", handler'[s2].phase # "idle",
             handler'[s1].task = handler'[s2].task, handler'[s1].gen = handler'[s2].gen
      PROVE  s1 = s2
  <2>1. CASE s1 = s \/ s2 = s
    BY <1>0, <1>1, <1>2, <1>3, <1>4, <2>1
  <2>2. CASE s1 # s /\ s2 # s
    BY <1>2, <1>4, <2>2 DEF ClaimsFenced
  <2> QED
    BY <2>1, <2>2
<1>5. ASSUME NEW x \in Task, row'[x].owner # NoPid, row'[x].pid # NoPid
      PROVE  row'[x].pid = row'[x].owner
  BY <1>1, <1>5 DEF ClaimsFenced
<1> QED
  BY <1>1, <1>3, <1>4, <1>5 DEF ClaimsFenced

\* Claims are fenced in every reachable state, whatever the store, the
\* recoveries and the crashes do.
THEOREM Fencing == Spec => []ClaimsFenced
<1>1. Init => ClaimsFenced
  BY DEF Init, ClaimsFenced, Idle
<1>2. TypeOK /\ ClaimsFenced /\ [Next]_vars => ClaimsFenced'
  <2> SUFFICES ASSUME TypeOK, ClaimsFenced, [Next]_vars PROVE ClaimsFenced'
    OBVIOUS
  <2>1. ASSUME NEW t \in Task, ForgetClaim(t) PROVE ClaimsFenced'
    <3>1. /\ handler' = handler /\ service' = service
          /\ \A x \in Slot : handler[x].task # t
          /\ \A x \in Task \ {t} : row'[x] = row[x]
          /\ row'[t].owner = row[t].owner /\ row'[t].pid = row[t].pid
      BY <2>1 DEF ForgetClaim, TypeOK, Row
    <3>2. \A x \in Slot : handler[x].phase # "idle" => handler[x].task \in Task \ {t}
      BY <3>1 DEF TypeOK
    <3> QED
      BY <3>1, <3>2 DEF ClaimsFenced, Holds
  <2>2. ASSUME Crash PROVE ClaimsFenced'
    BY <2>2 DEF Crash, ClaimsFenced, Idle
  <2>3. ASSUME NEW p \in Pid, Start(p) PROVE ClaimsFenced'
    <3>1. \A x \in Slot : handler'[x].phase = "idle"
      BY <2>3, ClaimAssumption DEF Start, ClaimsFenced
    <3>2. \A t \in Task : /\ row'[t].owner \in {row[t].owner, NoPid}
                         /\ row'[t].pid \in {row[t].pid, NoPid}
      BY <2>3, AfterRestartRow DEF Start, TypeOK
    <3> QED
      BY <3>1, <3>2 DEF ClaimsFenced
  <2> QED
    BY <2>1, <2>2, <2>3, StepHandsBack, HandsBackFenced, ClaimFenced
<1> QED
  BY <1>1, <1>2, TypeCorrect, PTL DEF Spec

-----------------------------------------------------------------------------
(* What follows for the queue.                                             *)

\* Where no stale-lock recovery runs, a running handler keeps its claim.
LEMMA WorkersInductive ==
    ASSUME ReclaimStaleLocks = FALSE
    PROVE  TypeOK /\ ClaimsFenced /\ WorkersHoldClaim /\ [Next]_vars => WorkersHoldClaim'
<1> SUFFICES ASSUME TypeOK, ClaimsFenced, WorkersHoldClaim, [Next]_vars
             PROVE  WorkersHoldClaim'
  OBVIOUS
<1>0. \A s \in Slot : handler[s].phase \in Working =>
         /\ handler[s].phase # "idle" /\ handler[s].task \in Task /\ service \in Pid
         /\ row[handler[s].task].owner = service /\ row[handler[s].task].pid = service
         /\ row[handler[s].task].gen = handler[s].gen
  BY DEF WorkersHoldClaim, Holds, TypeOK, ClaimsFenced, Working, Executing
<1>1. ASSUME HandsBack, NEW s \in Slot, handler'[s].phase \in Working
      PROVE  Holds(s)' /\ row'[handler'[s].task].pid = service'
  <2> DEFINE t == handler[s].task
  <2>1. /\ handler[s].phase \in Working /\ handler'[s].task = t
        /\ handler'[s].gen = handler[s].gen /\ service' = service
    BY <1>1 DEF HandsBack, HandlerMoves, Working, Executing
  <2>2. t \in Task /\ row'[t].gen = row[t].gen /\ OwnerKept(t)
    BY <1>0, <1>1, <2>1 DEF HandsBack, RowsHandBack
  <2>3. row'[t].owner = row[t].owner /\ row'[t].pid = row[t].pid
    <3>1. ASSUME NEW x \in Slot, handler[x].phase # "idle", handler[x].task = t, Holds(x),
                 handler'[x].phase \notin Working
          PROVE FALSE
      BY <1>0, <1>1, <2>1, <3>1 DEF Holds, ClaimsFenced
    <3> QED
      BY <2>2, <3>1 DEF OwnerKept
  <2> QED
    BY <1>0, <2>1, <2>2, <2>3 DEF Holds
<1>2. ASSUME NEW t \in Task, NEW x \in Slot, Claim(t, x),
             NEW s \in Slot, handler'[s].phase \in Working
      PROVE  Holds(s)' /\ row'[handler'[s].task].pid = service'
  <2>1. /\ service' = service /\ service # NoPid
        /\ row'[t].owner = service /\ row'[t].pid = service
        /\ row'[t].gen = row[t].gen + 1
        /\ handler'[x].task = t /\ handler'[x].gen = row[t].gen + 1
        /\ \A y \in Task \ {t} : row'[y] = row[y]
        /\ \A y \in Slot \ {x} : handler'[y] = handler[y]
    BY <1>2 DEF Claim, TypeOK, Row
  <2>2. CASE s = x
    BY <2>1, <2>2 DEF Holds
  <2>3. CASE s # x
    <3>1. handler[s].phase \in Working /\ handler[s].task \in Task
      BY <1>0, <1>2, <2>1, <2>3
    <3>2. handler[s].task # t
      <4> SUFFICES ASSUME handler[s].task = t PROVE FALSE
        OBVIOUS
      <4>1. row[t].owner = service /\ row[t].pid = service
        BY <1>0, <3>1
      <4>2. Eligible(row[t]) /\ ~LiveExpiredOwner(row[t])
        BY <1>2 DEF Claim, Claimable
      <4> QED
        BY <2>1, <4>1, <4>2 DEF Eligible, LiveExpiredOwner
    <3> QED
      BY <1>0, <2>1, <2>3, <3>1, <3>2 DEF Holds
  <2> QED
    BY <2>2, <2>3
<1>3. ASSUME NEW t \in Task, ForgetClaim(t),
             NEW s \in Slot, handler'[s].phase \in Working
      PROVE  Holds(s)' /\ row'[handler'[s].task].pid = service'
  BY <1>0, <1>3 DEF ForgetClaim, Holds, TypeOK
<1>4. ASSUME Crash, NEW s \in Slot PROVE handler'[s].phase \notin Working
  BY <1>4 DEF Crash, Idle, Working, Executing
<1>5. ASSUME NEW p \in Pid, Start(p), NEW s \in Slot PROVE handler'[s].phase \notin Working
  BY <1>0, <1>5, ClaimAssumption DEF Start
<1> QED
  BY <1>1, <1>2, <1>3, <1>4, <1>5, StepHandsBack DEF WorkersHoldClaim

\* A running handler keeps its claim, expired or not: what the live-owner
\* guard of a claim scan is for.
THEOREM WorkersKeepClaim ==
    ASSUME ReclaimStaleLocks = FALSE
    PROVE  Spec => []WorkersHoldClaim
<1>1. Init => WorkersHoldClaim
  BY DEF Init, WorkersHoldClaim, Idle, Working, Executing
<1>2. TypeOK /\ ClaimsFenced /\ WorkersHoldClaim /\ [Next]_vars => WorkersHoldClaim'
  BY WorkersInductive
<1> QED
  BY <1>1, <1>2, TypeCorrect, Fencing, PTL DEF Spec

\* At most one handler executes a task: the live-owner guard is enough as
\* long as nothing else clears an expired lease.
THEOREM OneWorker ==
    ASSUME ReclaimStaleLocks = FALSE
    PROVE  Spec => []OneWorkerPerTask
<1>1. ClaimsFenced /\ WorkersHoldClaim => OneWorkerPerTask
  BY DEF ClaimsFenced, WorkersHoldClaim, OneWorkerPerTask, Holds, Working, Executing
<1> QED
  BY <1>1, WorkersKeepClaim, Fencing, PTL

\* No handler that has returned leaves its source behind the live-owner
\* guard, as long as the callback's own writes do not fail.
THEOREM NothingStranded ==
    ASSUME StoreOutage = FALSE
    PROVE  Spec => []NoLeaseWithoutHandler
<1>1. Init => NoLeaseWithoutHandler
  BY DEF Init, NoLeaseWithoutHandler
<1>2. TypeOK /\ ClaimsFenced /\ NoLeaseWithoutHandler /\ [Next]_vars => NoLeaseWithoutHandler'
  <2> SUFFICES ASSUME TypeOK, ClaimsFenced, NoLeaseWithoutHandler, [Next]_vars,
                      NEW t \in Task, row'[t].owner # NoPid, row'[t].pid # NoPid,
                      row'[t].pid = service'
               PROVE  \E s \in Slot : /\ handler'[s].phase # "idle"
                                      /\ handler'[s].task = t
                                      /\ handler'[s].gen = row'[t].gen
    BY DEF NoLeaseWithoutHandler
  <2>1. CASE HandsBack
    <3>1. /\ service' = service /\ row'[t].gen = row[t].gen
          /\ row'[t].owner = row[t].owner /\ row'[t].pid = row[t].pid
      BY <2>1 DEF HandsBack, RowsHandBack
    <3>2. PICK s \in Slot : /\ handler[s].phase # "idle" /\ handler[s].task = t
                            /\ handler[s].gen = row[t].gen
      BY <3>1 DEF NoLeaseWithoutHandler
    <3>3. Holds(s)
      BY <3>1, <3>2 DEF Holds, ClaimsFenced
    <3>4. ~handler[s].resolved
      BY <3>2, <3>3 DEF ClaimsFenced
    <3>5. handler'[s].phase # "idle"
      BY <2>1, <3>2, <3>3, <3>4 DEF HandsBack, HandlerMoves
    <3> QED
      BY <2>1, <3>1, <3>2, <3>5 DEF HandsBack, HandlerMoves
  <2>2. ASSUME NEW x \in Task, NEW s \in Slot, Claim(x, s)
        PROVE  \E y \in Slot : /\ handler'[y].phase # "idle"
                               /\ handler'[y].task = t
                               /\ handler'[y].gen = row'[t].gen
    <3>1. CASE x = t
      BY <2>2, <3>1 DEF Claim, TypeOK, Row
    <3>2. CASE x # t
      <4>1. row'[t] = row[t] /\ service' = service
        BY <2>2, <3>2 DEF Claim, TypeOK
      <4>2. PICK y \in Slot : /\ handler[y].phase # "idle" /\ handler[y].task = t
                              /\ handler[y].gen = row[t].gen
        BY <4>1 DEF NoLeaseWithoutHandler
      <4>3. handler'[y] = handler[y]
        BY <2>2, <4>2 DEF Claim, TypeOK
      <4> QED
        BY <4>1, <4>2, <4>3
    <3> QED
      BY <3>1, <3>2
  <2>3. ASSUME NEW x \in Task, ForgetClaim(x)
        PROVE  \E y \in Slot : /\ handler'[y].phase # "idle"
                               /\ handler'[y].task = t
                               /\ handler'[y].gen = row'[t].gen
    <3>1. x # t
      BY <2>3 DEF ForgetClaim, TypeOK, Row
    <3> QED
      BY <2>3, <3>1 DEF ForgetClaim, NoLeaseWithoutHandler, TypeOK
  <2>4. ~Crash
    BY DEF Crash
  <2>5. ASSUME NEW p \in Pid, Start(p) PROVE FALSE
    BY <2>5, AfterRestartRow DEF Start, TypeOK
  <2> QED
    BY <2>1, <2>2, <2>3, <2>4, <2>5, StepHandsBack
<1> QED
  BY <1>1, <1>2, TypeCorrect, Fencing, PTL DEF Spec

\* A running handler's unexpired claim is never taken from it, not even by
\* the stale-lock recovery.
THEOREM LiveClaimSafe == Spec => LiveClaimIsKept
<1>1. TypeOK /\ ClaimsFenced /\ [Next]_vars =>
        [\A s \in Slot :
           /\ handler[s].phase \in Working
           /\ Holds(s)
           /\ row[handler[s].task].ttl > 0
           /\ service' = service
           => handler'[s] # handler[s] \/ Holds(s)']_vars
  <2> SUFFICES ASSUME TypeOK, ClaimsFenced, [Next]_vars, NEW s \in Slot,
                      handler[s].phase \in Working, Holds(s),
                      row[handler[s].task].ttl > 0, service' = service,
                      handler'[s] = handler[s]
               PROVE  Holds(s)'
    OBVIOUS
  <2> DEFINE t == handler[s].task
  <2>0. handler[s].phase # "idle" /\ t \in Task /\ service \in Pid /\ service # NoPid
    BY ClaimAssumption DEF TypeOK, ClaimsFenced, Working, Executing
  <2>1. CASE HandsBack
    <3>1. row'[t].gen = row[t].gen /\ OwnerKept(t)
      BY <2>0, <2>1 DEF HandsBack, RowsHandBack
    <3>2. ASSUME NEW x \in Slot, handler[x].phase # "idle", handler[x].task = t, Holds(x),
                 handler'[x].phase \notin Working
          PROVE FALSE
      BY <2>0, <3>2 DEF Holds, ClaimsFenced
    <3>3. row'[t].owner = row[t].owner
      BY <3>1, <3>2 DEF OwnerKept
    <3> QED
      BY <3>1, <3>3 DEF Holds
  <2>2. ASSUME NEW x \in Task, NEW y \in Slot, Claim(x, y) PROVE Holds(s)'
    <3>1. x # t
      BY <2>0, <2>2 DEF Claim, Claimable, Eligible, Holds
    <3> QED
      BY <2>0, <2>2, <3>1 DEF Claim, Holds, TypeOK
  <2>3. ASSUME NEW x \in Task, ForgetClaim(x) PROVE Holds(s)'
    BY <2>0, <2>3 DEF ForgetClaim, Holds, TypeOK
  <2>4. ~Crash
    BY <2>0, ClaimAssumption DEF Crash
  <2>5. ASSUME NEW p \in Pid, Start(p) PROVE FALSE
    BY <2>0, <2>5 DEF Start
  <2> QED
    BY <2>1, <2>2, <2>3, <2>4, <2>5, StepHandsBack
<1> QED
  BY <1>1, TypeCorrect, Fencing, PTL DEF Spec, LiveClaimIsKept

\* Every write of a status is conditional on a status that is still open.
LEMMA SettledKept ==
    ASSUME TypeOK, [Next]_vars, NEW t \in Task,
           row[t].status \in {"done", "failed"}
    PROVE  row'[t].status = row[t].status
<1>0. row[t] \in Row /\ row[t].status \notin {"pending", "processing"}
  BY DEF TypeOK
<1>1. ASSUME NEW x \in Task, NEW s \in Slot, Claim(x, s) PROVE row'[t].status = row[t].status
  BY <1>0, <1>1 DEF Claim, Claimable, Eligible, TypeOK
<1>2. ASSUME NEW s \in Slot, Renew(s) PROVE row'[t].status = row[t].status
  BY <1>0, <1>2 DEF Renew, TypeOK, Row
<1>3. ASSUME NEW s \in Slot, ReleaseSource(s) PROVE row'[t].status = row[t].status
  BY <1>0, <1>3 DEF ReleaseSource, TypeOK
<1>4. ASSUME NEW s \in Slot, BeginTurn(s) \/ EndTurn(s) \/ Raise(s)
      PROVE  row'[t].status = row[t].status
  BY <1>0, <1>4 DEF BeginTurn, EndTurn, Raise, TypeOK, Row
<1>5. ASSUME NEW s \in Slot, Settle(s) PROVE row'[t].status = row[t].status
  <2>1. CASE handler[s].task = t
    BY <1>0, <1>5, <2>1 DEF Settle
  <2>2. CASE handler[s].task # t
    BY <1>5, <2>2 DEF Settle, TypeOK
  <2> QED
    BY <2>1, <2>2
<1>6. ASSUME NEW s \in Slot, Defer(s) PROVE row'[t].status = row[t].status
  BY <1>0, <1>6 DEF Defer, TypeOK
<1>7. ASSUME NEW s \in Slot, Complete(s) PROVE row'[t].status = row[t].status
  <2>1. Unclaimed(row[t]) \in Row /\ Unclaimed(row[t]).status = row[t].status
    BY <1>0, UnclaimedRow
  <2>2. row' = row \/ row' = [row EXCEPT ![handler[s].task] =
                             [Unclaimed(row[handler[s].task]) EXCEPT !.terminal = TRUE]]
    BY <1>7 DEF Complete
  <2> QED
    BY <2>1, <2>2 DEF TypeOK, Row
<1>8. ASSUME NEW s \in Slot, Recover(s) PROVE row'[t].status = row[t].status
  BY <1>0, <1>8 DEF Recover, TypeOK
<1>9. ASSUME NEW s \in Slot, LetGo(s) PROVE row'[t].status = row[t].status
  BY <1>0, <1>9 DEF LetGo, TypeOK, Row
<1>10. ASSUME NEW x \in Task, RecoverStaleLock(x) PROVE row'[t].status = row[t].status
  BY <1>0, <1>10 DEF RecoverStaleLock, TypeOK
<1>11. ASSUME NEW x \in Task, ForgetClaim(x) PROVE row'[t].status = row[t].status
  BY <1>0, <1>11 DEF ForgetClaim, TypeOK, Row
<1>12. ASSUME NEW p \in Pid, Start(p) PROVE row'[t].status = row[t].status
  BY <1>0, <1>12 DEF Start, AfterRestart
<1>13. ASSUME Tick PROVE row'[t].status = row[t].status
  BY <1>0, <1>13 DEF Tick, Row
<1>14. ASSUME UNCHANGED row PROVE row'[t].status = row[t].status
  BY <1>14
<1> QED
  BY <1>1, <1>2, <1>3, <1>4, <1>5, <1>6, <1>7, <1>8, <1>9, <1>10, <1>11, <1>12, <1>13, <1>14
  DEF Next, DispatcherStep, HandlerStep, Leave, Callback, RenewScan, RenewUnsaved, Begin,
      GiveUp, Pop, CallbackUnsaved, Crash, vars

\* Nothing that comes late puts a settled task back.
THEOREM SettledSafe == Spec => SettledStaysSettled
<1>1. TypeOK /\ [Next]_vars =>
        [\A t \in Task :
           row[t].status \in {"done", "failed"} => row'[t].status = row[t].status]_vars
  BY SettledKept
<1> QED
  BY <1>1, TypeCorrect, PTL DEF Spec, SettledStaysSettled

-----------------------------------------------------------------------------
(* The implementation of the exclusive claim.                              *)

\* A task is settled by the handler that still holds its claim, which has
\* then returned.
LEMMA SettledByHolder ==
    ASSUME TypeOK, WorkersHoldClaim, [Next]_vars, NEW t \in Task,
           row[t].status \notin {"done", "failed"},
           row'[t].status \in {"done", "failed"}
    PROVE  \E s \in Slot : /\ handler[s].phase # "idle"
                           /\ handler[s].task = t
                           /\ Holds(s)
                           /\ handler'[s].phase \notin Working
<1>0. row[t] \in Row
  BY DEF TypeOK
<1>1. ASSUME NEW x \in Task, NEW s \in Slot, Claim(x, s) PROVE FALSE
  BY <1>0, <1>1 DEF Claim, TypeOK, Row
<1>2. ASSUME NEW s \in Slot, Renew(s) PROVE FALSE
  BY <1>0, <1>2 DEF Renew, TypeOK, Row
<1>3. ASSUME NEW s \in Slot, ReleaseSource(s) PROVE FALSE
  <2>1. Released(row[t]).status = "pending"
    BY <1>0, UnclaimedRow DEF Released, Row
  <2> QED
    BY <1>0, <1>3, <2>1 DEF ReleaseSource, TypeOK
<1>4. ASSUME NEW s \in Slot, BeginTurn(s) \/ EndTurn(s) \/ Raise(s) PROVE FALSE
  BY <1>0, <1>4 DEF BeginTurn, EndTurn, Raise, TypeOK, Row
<1>5. ASSUME NEW s \in Slot, Settle(s)
      PROVE  /\ handler[s].phase # "idle" /\ handler[s].task = t /\ Holds(s)
             /\ handler'[s].phase \notin Working
  <2>1. handler[s].task = t
    BY <1>5 DEF Settle, TypeOK
  <2>2. handler[s].phase \in Working /\ handler[s].phase # "idle"
    BY <1>5 DEF Settle, Working, Executing
  <2>3. handler'[s].phase \in {"returned", "raised"}
    BY <1>5 DEF Settle, GoTo, TypeOK, Handler
  <2> QED
    BY <2>1, <2>2, <2>3 DEF WorkersHoldClaim, Working, Executing
<1>6. ASSUME NEW s \in Slot, Defer(s) PROVE FALSE
  BY <1>0, <1>6 DEF Defer, TypeOK, Row
<1>7. ASSUME NEW s \in Slot, Complete(s) PROVE FALSE
  <2>1. Unclaimed(row[t]) \in Row /\ Unclaimed(row[t]).status = row[t].status
    BY <1>0, UnclaimedRow
  <2>2. row' = row \/ row' = [row EXCEPT ![handler[s].task] =
                             [Unclaimed(row[handler[s].task]) EXCEPT !.terminal = TRUE]]
    BY <1>7 DEF Complete
  <2> QED
    BY <2>1, <2>2 DEF TypeOK, Row
<1>8. ASSUME NEW s \in Slot, Recover(s)
      PROVE  /\ handler[s].phase # "idle" /\ handler[s].task = t /\ Holds(s)
             /\ handler'[s].phase \notin Working
  <2>1. handler[s].task = t /\ Holds(s)
    BY <1>8 DEF Recover, TypeOK
  <2>2. handler[s].phase = "recovering" /\ handler'[s].phase = "lettingGo"
    BY <1>8 DEF Recover, TypeOK, Handler
  <2> QED
    BY <2>1, <2>2 DEF Working, Executing
<1>9. ASSUME NEW s \in Slot, LetGo(s) PROVE FALSE
  BY <1>0, <1>9 DEF LetGo, TypeOK, Row
<1>10. ASSUME NEW x \in Task, RecoverStaleLock(x) PROVE FALSE
  <2> DEFINE u == IF row[x].ttl = 0 THEN [Unclaimed(row[x]) EXCEPT !.pid = NoPid]
                  ELSE row[x]
  <2>1. u \in Row
    BY UnclaimedRow DEF TypeOK, Row, Owner
  <2>2. row' = [row EXCEPT ![x] = [u EXCEPT !.status = "pending", !.age = Unlocked,
                                            !.delay = 0]]
    BY <1>10, Zenon DEF RecoverStaleLock
  <2> HIDE DEF u
  <2> QED
    BY <2>1, <2>2 DEF TypeOK, Row
<1>11. ASSUME NEW x \in Task, ForgetClaim(x) PROVE FALSE
  BY <1>0, <1>11 DEF ForgetClaim, TypeOK, Row
<1>12. ASSUME NEW p \in Pid, Start(p) PROVE FALSE
  <2>1. row'[t] = AfterRestart(row[t])
    BY <1>12 DEF Start
  <2>2. CASE row[t].status # "processing"
    BY <2>1, <2>2 DEF AfterRestart
  <2>3. CASE row[t].status = "processing"
    <3>1. AfterRestart(row[t]).status = "pending"
      BY <1>0, <2>3, UnclaimedRow DEF AfterRestart, Row
    <3> QED
      BY <2>1, <3>1
  <2> QED
    BY <2>2, <2>3
<1>13. ASSUME Tick PROVE FALSE
  BY <1>0, <1>13 DEF Tick, Row
<1>14. ASSUME UNCHANGED row PROVE FALSE
  BY <1>14
<1> QED
  BY <1>1, <1>2, <1>3, <1>4, <1>5, <1>6, <1>7, <1>8, <1>9, <1>10, <1>11, <1>12, <1>13, <1>14
  DEF Next, DispatcherStep, HandlerStep, Leave, Callback, RenewScan, RenewUnsaved, Begin,
      GiveUp, Pop, CallbackUnsaved, Crash, vars

\* Nobody starts to work on a task but by a claim.
LEMMA NobodyJoins ==
    ASSUME TypeOK, [Next]_vars, ~\E t \in Task, s \in Slot : Claim(t, s),
           NEW x \in Slot, handler'[x].phase \in Working
    PROVE  /\ handler[x].phase \in Working
           /\ handler'[x].task = handler[x].task
           /\ handler'[x].gen = handler[x].gen
<1>1. CASE HandsBack
  BY <1>1 DEF HandsBack, HandlerMoves, Working, Executing
<1>2. ASSUME NEW t \in Task, ForgetClaim(t) PROVE handler' = handler
  BY <1>2 DEF ForgetClaim
<1>3. ~Crash
  BY DEF Crash, Idle, Working, Executing
<1>4. ASSUME NEW p \in Pid, Start(p) PROVE handler' = handler
  BY <1>4 DEF Start
<1> QED
  BY <1>1, <1>2, <1>3, <1>4, StepHandsBack

\* A claim that succeeds takes a task that nobody works on.
LEMMA ClaimTakes ==
    ASSUME TypeOK, ClaimsFenced, WorkersHoldClaim,
           NEW t \in Task, NEW s \in Slot, Claim(t, s)
    PROVE  /\ t \notin Settled
           /\ WorkersOn(t) = {}
           /\ WorkersOn(t)' = {s}
           /\ \A x \in Task : s \notin WorkersOn(x)
           /\ \A x \in Task \ {t} : WorkersOn(x)' = WorkersOn(x)
           /\ Settled' = Settled
<1>1. /\ service' = service /\ service # NoPid
      /\ handler[s].phase = "idle"
      /\ handler'[s].phase = "start" /\ handler'[s].task = t
      /\ \A x \in Slot \ {s} : handler'[x] = handler[x]
      /\ \A x \in Task \ {t} : row'[x] = row[x]
      /\ row'[t].status = "processing"
      /\ row[t].status \in {"pending", "processing"}
  BY DEF Claim, Claimable, Eligible, TypeOK, Row
<1>2. ASSUME NEW x \in Slot, handler[x].phase \in Working, handler[x].task = t PROVE FALSE
  <2>1. row[t].owner = service /\ row[t].pid = service
    BY <1>2 DEF WorkersHoldClaim, Holds
  <2>2. Eligible(row[t]) /\ ~LiveExpiredOwner(row[t])
    BY DEF Claim, Claimable
  <2> QED
    BY <1>1, <2>1, <2>2 DEF Eligible, LiveExpiredOwner
<1> QED
  BY <1>1, <1>2 DEF WorkersOn, Settled, Working, Executing

\* Any other step only lets workers leave, and settles a task when nobody is
\* left at work on it.
LEMMA OthersLeave ==
    ASSUME TypeOK, ClaimsFenced, WorkersHoldClaim, [Next]_vars,
           ~\E t \in Task, s \in Slot : Claim(t, s)
    PROVE  \E gone \in SUBSET Slot, ended \in SUBSET Task : Promise!Leave(gone, ended)
<1> DEFINE gone == {x \in Slot : handler[x].phase \in Working /\ handler'[x].phase \notin Working}
           ended == Settled' \ Settled
<1>1. ASSUME NEW t \in Task PROVE WorkersOn(t)' = WorkersOn(t) \ gone
  <2>1. ASSUME NEW x \in WorkersOn(t)' PROVE x \in WorkersOn(t) \ gone
    BY <2>1, NobodyJoins DEF WorkersOn
  <2>2. ASSUME NEW x \in WorkersOn(t) \ gone PROVE x \in WorkersOn(t)'
    BY <2>2, NobodyJoins DEF WorkersOn
  <2> QED
    BY <2>1, <2>2
<1>2. Settled' = Settled \cup ended
  BY SettledKept DEF Settled
<1>3. ASSUME NEW t \in ended, NEW x \in WorkersOn(t)' PROVE FALSE
  <2>1. t \in Task /\ row[t].status \notin {"done", "failed"} /\ row'[t].status \in {"done", "failed"}
    BY DEF Settled
  <2>2. PICK s \in Slot : /\ handler[s].phase # "idle" /\ handler[s].task = t
                          /\ Holds(s) /\ handler'[s].phase \notin Working
    BY <2>1, SettledByHolder
  <2>3. x \in Slot /\ handler[x].phase \in Working /\ handler[x].task = t
    BY <1>3, NobodyJoins DEF WorkersOn
  <2>4. Holds(x) /\ handler[x].phase # "idle"
    BY <2>3 DEF WorkersHoldClaim, Working, Executing
  <2>5. x = s
    BY <2>2, <2>3, <2>4 DEF Holds, ClaimsFenced
  <2> QED
    BY <1>3, <2>2, <2>5 DEF WorkersOn
<1>4. gone \in SUBSET Slot /\ ended \in SUBSET Task
  BY DEF Settled
<1>5. Promise!Leave(gone, ended)
  <2> HIDE DEF gone
  <2>1. [t \in Task |-> WorkersOn(t)]' =
          [t \in Task |-> [y \in Task |-> WorkersOn(y)][t] \ gone]
    BY <1>1
  <2>2. \A t \in ended : [y \in Task |-> WorkersOn(y)]'[t] = {}
    BY <1>3, <1>4
  <2> HIDE DEF ended
  <2> QED
    BY <1>2, <2>1, <2>2 DEF Promise!Leave
<1> QED
  BY <1>4, <1>5

\* Owner, generation, lease and live-owner guard implement the exclusive
\* claim, for any number of tasks, handlers and process ids.
THEOREM Exclusive ==
    ASSUME ReclaimStaleLocks = FALSE
    PROVE  Spec => ImplementsExclusiveClaim
<1>1. Init => Promise!Init
  BY DEF Init, Promise!Init, WorkersOn, Settled, Idle, Working, Executing
<1>2. TypeOK /\ ClaimsFenced /\ WorkersHoldClaim /\ [Next]_vars =>
        [Promise!Next]_<<[t \in Task |-> WorkersOn(t)], Settled>>
  <2> SUFFICES ASSUME TypeOK, ClaimsFenced, WorkersHoldClaim, [Next]_vars
               PROVE  Promise!Next
    OBVIOUS
  <2>1. ASSUME NEW t \in Task, NEW s \in Slot, Claim(t, s) PROVE Promise!Next
    <3>1. Promise!Take(t, s)
      BY <2>1, ClaimTakes DEF Promise!Take
    <3> QED
      BY <3>1 DEF Promise!Next
  <2> QED
    BY <2>1, OthersLeave DEF Promise!Next
<1> QED
  BY <1>1, <1>2, TypeCorrect, Fencing, WorkersKeepClaim, PTL
  DEF Spec, ImplementsExclusiveClaim, Promise!Spec

=============================================================================
