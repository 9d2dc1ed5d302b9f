------------------------ MODULE DeploymentDrainProofs ------------------------
(***************************************************************************)
(* The drain for any number of slots.  LocksHeld is inductive as it is and *)
(* gives the exclusion; WorkIsLeased makes the quiet check see every       *)
(* handler whose renewals do not fail, and the two together keep the       *)
(* service from being stopped over such work.  With Service they make the  *)
(* drain implement Quiescence.                                             *)
(***************************************************************************)
EXTENDS DeploymentDrain, TLAPS

\* Every step keeps locks, slots and leases in their types.
THEOREM DrainTypes == Spec => []TypeOK
<1> USE DrainAssumption DEF TypeOK, SlotPhase, Admitting, Running, DeployerPhase
<1>1. Init => TypeOK
  BY DEF Init
<1>2. TypeOK /\ [Next]_vars => TypeOK'
  <2> SUFFICES ASSUME TypeOK, [Next]_vars PROVE TypeOK'
    OBVIOUS
  <2>1. ASSUME NEW c \in Slot, SlotStep(c) PROVE TypeOK'
    BY <2>1 DEF SlotStep, TryGate, AdmissionStep, TakeShared, LeaveGate, Commit, ClaimNothing,
                LeaveDrain, BeginTurn, EndTurn, Finish, LoseLease, LeaseEnds
  <2>2. ASSUME NEW dead \in SUBSET Slot, Killed(dead)
        PROVE  /\ slot' \in [Slot -> SlotPhase] /\ sharers' \in SUBSET Slot
               /\ gate' \in Slot \cup {Deployer, Nobody} /\ leased' \in SUBSET Slot
    BY <2>2 DEF Killed
  <2>3. ASSUME DeployStep PROVE TypeOK'
    <3>1. CASE Stop
      BY <2>2, <3>1 DEF Stop
    <3> QED
      BY <2>3, <3>1 DEF DeployStep, Ask, CloseGate, TakeDrain, SeeQuiet, Restart,
                        LeaveExclusive, OpenGate, TimeOut, DeployerDies, DeployerGone
  <2>4. ASSUME ServiceCrash PROVE TypeOK'
    BY <2>2, <2>4 DEF ServiceCrash
  <2>5. ASSUME StartByHand \/ UNCHANGED vars PROVE TypeOK'
    BY <2>5 DEF StartByHand, vars
  <2> QED
    BY <2>1, <2>3, <2>4, <2>5 DEF Next
<1> QED
  BY <1>1, <1>2, PTL DEF Spec

\* Processes that die give up exactly the locks they hold.
LEMMA KilledLocks ==
    ASSUME TypeOK, LocksHeld, NEW dead \in SUBSET Slot, Killed(dead),
           exclusive' = exclusive, deployer' = deployer
    PROVE  LocksHeld'
BY DrainAssumption DEF TypeOK, LocksHeld, Killed

\* The locks are always held as the code that opened them says.
THEOREM LocksSafe == Spec => []LocksHeld
<1> USE DrainAssumption
<1>1. Init => LocksHeld
  BY DEF Init, LocksHeld
<1>2. TypeOK /\ LocksHeld /\ [Next]_vars => LocksHeld'
  <2> SUFFICES ASSUME TypeOK, LocksHeld, [Next]_vars PROVE LocksHeld'
    OBVIOUS
  <2>1. ASSUME NEW c \in Slot, TryGate(c) PROVE LocksHeld'
    BY <2>1 DEF TypeOK, LocksHeld, TryGate
  <2>2. ASSUME NEW c \in Slot, TakeShared(c) PROVE LocksHeld'
    BY <2>2 DEF TypeOK, LocksHeld, TakeShared
  <2>3. ASSUME NEW c \in Slot, LeaveGate(c) PROVE LocksHeld'
    BY <2>3 DEF TypeOK, LocksHeld, LeaveGate
  <2>4. ASSUME NEW c \in Slot, Commit(c) \/ ClaimNothing(c) \/ LeaveDrain(c) PROVE LocksHeld'
    BY <2>4 DEF TypeOK, LocksHeld, Commit, ClaimNothing, LeaveDrain
  <2>5. ASSUME NEW c \in Slot, BeginTurn(c) \/ EndTurn(c) \/ Finish(c) \/ LoseLease(c)
                               \/ LeaseEnds(c)
        PROVE  LocksHeld'
    BY <2>5 DEF TypeOK, LocksHeld, BeginTurn, EndTurn, Finish, LoseLease, LeaseEnds
  <2>6. ASSUME Ask \/ CloseGate \/ TakeDrain \/ SeeQuiet \/ Restart PROVE LocksHeld'
    BY <2>6 DEF TypeOK, LocksHeld, Ask, CloseGate, TakeDrain, SeeQuiet, Restart
  <2>7. ASSUME Stop PROVE LocksHeld'
    BY <2>7 DEF TypeOK, LocksHeld, Stop, Killed
  <2>8. ASSUME LeaveExclusive \/ OpenGate \/ TimeOut PROVE LocksHeld'
    BY <2>8 DEF TypeOK, LocksHeld, LeaveExclusive, OpenGate, TimeOut
  <2>9. ASSUME DeployerDies \/ DeployerGone PROVE LocksHeld'
    BY <2>9 DEF TypeOK, LocksHeld, DeployerDies, DeployerGone
  <2>10. ASSUME ServiceCrash PROVE LocksHeld'
    BY <2>10, KilledLocks DEF ServiceCrash
  <2>11. ASSUME StartByHand \/ UNCHANGED vars PROVE LocksHeld'
    BY <2>11 DEF LocksHeld, StartByHand, vars
  <2> QED
    BY <2>1, <2>2, <2>3, <2>4, <2>5, <2>6, <2>7, <2>8, <2>9, <2>10, <2>11
    DEF Next, SlotStep, AdmissionStep, DeployStep
<1> QED
  BY <1>1, <1>2, DrainTypes, PTL DEF Spec

\* With the drain held no claim transaction is open: the turnstile is shut
\* and every earlier transaction has let go of its shared lock.
LEMMA LocksExclude == TypeOK /\ LocksHeld => NoClaimDuringDrain
BY DrainAssumption DEF TypeOK, LocksHeld, NoClaimDuringDrain, Admitting

\* No claim transaction is open during a drain, for any number of claimers.
THEOREM DrainExcludesClaims == Spec => []NoClaimDuringDrain
BY DrainTypes, LocksSafe, LocksExclude, PTL

\* Nothing is claimed while the drain lock is exclusive, not even while its
\* holder is dying with the gate already open.
NothingClaimedUnderDrain ==
    [][\A c \in Slot : slot[c] # "committed" /\ slot'[c] = "committed" => ~exclusive]_vars

\* No claim commits while the drain lock is exclusive.
THEOREM NoCommitUnderDrain == Spec => NothingClaimedUnderDrain
<1>1. TypeOK /\ LocksHeld /\ [Next]_vars =>
        [\A c \in Slot : slot[c] # "committed" /\ slot'[c] = "committed" => ~exclusive]_vars
  <2> SUFFICES ASSUME TypeOK, LocksHeld, [Next]_vars, NEW c \in Slot,
                      slot[c] # "committed", slot'[c] = "committed"
               PROVE  ~exclusive
    OBVIOUS
  <2>1. ASSUME NEW dead \in SUBSET Slot, Killed(dead) PROVE FALSE
    BY <2>1 DEF Killed
  <2>2. Commit(c)
    BY <2>1 DEF TypeOK, Next, SlotStep, AdmissionStep, DeployStep, TryGate, TakeShared, LeaveGate,
       Commit, ClaimNothing, LeaveDrain, BeginTurn, EndTurn, Finish, LoseLease, LeaseEnds,
       Ask, CloseGate, TakeDrain, SeeQuiet, Stop, Restart, LeaveExclusive, OpenGate, TimeOut,
       DeployerDies, DeployerGone, ServiceCrash, StartByHand, vars
  <2> QED
    BY <2>2 DEF Commit, LocksHeld
<1> QED
  BY <1>1, DrainTypes, LocksSafe, PTL DEF Spec, NothingClaimedUnderDrain

\* A handler whose renewals do not fail has its lease from the commit of the
\* claim to its end.
THEOREM LeasesCountWork == Spec => []WorkIsLeased
<1> USE DrainAssumption
<1>1. Init => WorkIsLeased
  BY DEF Init, WorkIsLeased, Running
<1>2. TypeOK /\ WorkIsLeased /\ [Next]_vars => WorkIsLeased'
  <2> SUFFICES ASSUME TypeOK, WorkIsLeased, [Next]_vars PROVE WorkIsLeased'
    OBVIOUS
  <2> USE DEF TypeOK, WorkIsLeased, Running
  <2>1. ASSUME NEW c \in Slot, SlotStep(c) PROVE WorkIsLeased'
    BY <2>1 DEF SlotStep, TryGate, AdmissionStep, TakeShared, LeaveGate, Commit, ClaimNothing,
                LeaveDrain, BeginTurn, EndTurn, Finish, LoseLease, LeaseEnds
  <2>2. ASSUME NEW dead \in SUBSET Slot, Killed(dead) PROVE WorkIsLeased'
    BY <2>2 DEF Killed
  <2>3. ASSUME DeployStep PROVE WorkIsLeased'
    <3>1. CASE Stop
      BY <2>2, <3>1 DEF Stop
    <3> QED
      BY <2>3, <3>1 DEF DeployStep, Ask, CloseGate, TakeDrain, SeeQuiet, Restart,
                        LeaveExclusive, OpenGate, TimeOut, DeployerDies, DeployerGone
  <2>4. ASSUME ServiceCrash \/ StartByHand \/ UNCHANGED vars PROVE WorkIsLeased'
    BY <2>2, <2>4 DEF ServiceCrash, StartByHand, vars
  <2> QED
    BY <2>1, <2>3, <2>4 DEF Next
<1> QED
  BY <1>1, <1>2, DrainTypes, PTL DEF Spec

\* The service is never stopped, restarted or rolled back over a handler that
\* keeps its lease, even if others lose theirs.
THEOREM NoLeasedWorkCutOff == Spec => []NeverRestartOverLeased
<1> USE DrainAssumption
<1>1. Init => NeverRestartOverLeased
  BY DEF Init, NeverRestartOverLeased
<1>2. /\ TypeOK /\ LocksHeld /\ WorkIsLeased /\ NeverRestartOverLeased /\ [Next]_vars
      => NeverRestartOverLeased'
  <2> SUFFICES ASSUME TypeOK, LocksHeld, WorkIsLeased, NeverRestartOverLeased, [Next]_vars
               PROVE  NeverRestartOverLeased'
    OBVIOUS
  <2>0. NoClaimDuringDrain
    BY LocksExclude
  <2> USE DEF TypeOK, NeverRestartOverLeased, Running
  <2>1. ASSUME NEW c \in Slot, SlotStep(c) PROVE NeverRestartOverLeased'
    BY <2>0, <2>1 DEF SlotStep, TryGate, AdmissionStep, TakeShared, LeaveGate, Commit,
       ClaimNothing, LeaveDrain, BeginTurn, EndTurn, Finish, LoseLease, LeaseEnds,
       NoClaimDuringDrain, Admitting
  <2>2. ASSUME SeeQuiet PROVE NeverRestartOverLeased'
    BY <2>2 DEF SeeQuiet, Counted, WorkIsLeased
  <2>3. ASSUME Stop PROVE NeverRestartOverLeased'
    BY <2>3 DEF Stop, Killed
  <2>4. ASSUME DeployStep, ~SeeQuiet, ~Stop PROVE NeverRestartOverLeased'
    BY <2>4 DEF DeployStep, Ask, CloseGate, TakeDrain, Restart,
                LeaveExclusive, OpenGate, TimeOut, DeployerDies, DeployerGone
  <2>5. ASSUME ServiceCrash \/ StartByHand \/ UNCHANGED vars PROVE NeverRestartOverLeased'
    BY <2>5 DEF ServiceCrash, Killed, StartByHand, vars
  <2> QED
    BY <2>1, <2>2, <2>3, <2>4, <2>5 DEF Next
<1> QED
  BY <1>1, <1>2, DrainTypes, LocksSafe, LeasesCountWork, PTL DEF Spec

\* Where no handler loses its lease, no running work is ever cut off.
THEOREM NoWorkCutOff ==
    ASSUME LeaseLoss = {}
    PROVE  Spec => []NeverRestartOverWork
<1>1. NeverRestartOverLeased => NeverRestartOverWork
  BY DEF NeverRestartOverLeased, NeverRestartOverWork
<1> QED
  BY <1>1, NoLeasedWorkCutOff, PTL

-----------------------------------------------------------------------------
(* The drain implements its promise.                                       *)

\* Nothing runs in a stopped service, and only a stopped one is restarted.
Service ==
    /\ deployer = "stopped" => ~up
    /\ ~up => \A c \in Slot : slot[c] = "idle"

LEMMA ServiceHeld == Spec => []Service
<1>1. Init => Service
  BY DEF Init, Service
<1>2. TypeOK /\ Service /\ [Next]_vars => Service'
  <2> SUFFICES ASSUME TypeOK, Service, [Next]_vars PROVE Service'
    OBVIOUS
  <2> USE DEF TypeOK, Service
  <2>1. ASSUME NEW c \in Slot, SlotStep(c) PROVE Service'
    <3>1. up' = up /\ deployer' = deployer
      BY <2>1 DEF SlotStep, TryGate, AdmissionStep, TakeShared, LeaveGate, Commit, ClaimNothing,
                  LeaveDrain, BeginTurn, EndTurn, Finish, LoseLease, LeaseEnds
    <3>2. up \/ slot' = slot
      BY <2>1 DEF SlotStep, TryGate, AdmissionStep, TakeShared, LeaveGate, Commit, ClaimNothing,
                  LeaveDrain, BeginTurn, EndTurn, Finish, LoseLease, LeaseEnds, Running
    <3> QED
      BY <3>1, <3>2
  <2>2. ASSUME Stop PROVE Service'
    BY <2>2 DEF Stop, Killed
  <2>3. ASSUME DeployStep, ~Stop PROVE Service'
    BY <2>3 DEF DeployStep, Ask, CloseGate, TakeDrain, SeeQuiet, Restart,
                LeaveExclusive, OpenGate, TimeOut, DeployerDies, DeployerGone
  <2>4. ASSUME ServiceCrash \/ StartByHand \/ UNCHANGED vars PROVE Service'
    BY <2>4 DEF ServiceCrash, Killed, StartByHand, vars
  <2> QED
    BY <2>1, <2>2, <2>3, <2>4 DEF Next
<1> QED
  BY <1>1, <1>2, DrainTypes, PTL DEF Spec

\* Only the commit of a claim brings a slot to work, and it needs an open door.
LEMMA SlotsBeginOrEnd ==
    ASSUME TypeOK, LocksHeld, Service, NEW c \in Slot, SlotStep(c)
    PROVE  Promise!Next \/ UNCHANGED <<Door, AtWork, up>>
<1>1. Door' = Door /\ up' = up
  BY DEF SlotStep, TryGate, AdmissionStep, TakeShared, LeaveGate, Commit, ClaimNothing,
         LeaveDrain, BeginTurn, EndTurn, Finish, LoseLease, LeaseEnds, Door
<1>2. CASE Commit(c)
  <2>1. up /\ ~exclusive /\ Door = "open"
    BY <1>2 DEF Commit, LocksHeld, Service, Door
  <2>2. AtWork' = AtWork \cup {c}
    BY <1>2 DEF Commit, TypeOK, AtWork
  <2>3. Promise!Begin(c)
    BY <1>1, <2>1, <2>2 DEF Promise!Begin
  <2> QED
    BY <2>3 DEF Promise!Next
<1>3. CASE Finish(c)
  <2>1. AtWork' = AtWork \ {c}
    BY <1>3 DEF Finish, TypeOK, AtWork, Running
  <2>2. Promise!End({c})
    BY <1>1, <2>1 DEF Promise!End
  <2> QED
    BY <2>2 DEF Promise!Next
<1>4. CASE ~Commit(c) /\ ~Finish(c)
  <2>1. \A x \in Slot : slot'[x] \in {"committed"} \cup Running
                          <=> slot[x] \in {"committed"} \cup Running
    BY <1>4 DEF TypeOK, SlotStep, TryGate, AdmissionStep, TakeShared, LeaveGate, ClaimNothing,
                LeaveDrain, BeginTurn, EndTurn, LoseLease, LeaseEnds, Running
  <2>2. AtWork' = AtWork
    BY <2>1 DEF AtWork
  <2> QED
    BY <1>1, <2>2
<1> QED
  BY <1>2, <1>3, <1>4

\* What dying processes leave at work.
LEMMA KilledAtWork ==
    ASSUME NEW dead \in SUBSET Slot, Killed(dead)
    PROVE  AtWork' = AtWork \ dead
BY DEF Killed, AtWork, Running

\* The deployer's steps move the door, and only Stop touches the work.
LEMMA DeployerMovesDoor ==
    ASSUME TypeOK, LocksHeld, WorkIsLeased, Service, DeployStep
    PROVE  Promise!Next \/ UNCHANGED <<Door, AtWork, up>>
<1>1. CASE Stop
  <2>1. AtWork' = {} /\ Door = "quiet" /\ Door' = "quiet" /\ up' = FALSE
    BY <1>1, KilledAtWork DEF Stop, AtWork, Door
  <2>2. Promise!Stop
    BY <2>1 DEF Promise!Stop
  <2> QED
    BY <2>2 DEF Promise!Next
<1>2. CASE SeeQuiet
  <2>1. Door = "shut" /\ Door' = "quiet" /\ AtWork' = AtWork /\ up' = up
    BY <1>2 DEF SeeQuiet, Door, LocksHeld, AtWork
  <2>2. AtWork \cap (Slot \ LeaseLoss) = {}
    BY <1>2 DEF SeeQuiet, Counted, WorkIsLeased, AtWork
  <2>3. Promise!FindQuiet
    BY <2>1, <2>2 DEF Promise!FindQuiet
  <2> QED
    BY <2>3 DEF Promise!Next
<1>3. CASE Restart
  <2>1. ~up /\ up' = TRUE /\ Door = "quiet" /\ Door' = "quiet" /\ AtWork' = AtWork
    BY <1>3 DEF Restart, Service, Door, AtWork
  <2>2. Promise!Start
    BY <2>1 DEF Promise!Start
  <2> QED
    BY <2>2 DEF Promise!Next
<1>4. CASE ~Stop /\ ~SeeQuiet /\ ~Restart
  <2>1. slot' = slot /\ up' = up /\ Door' \in {"shut", "open", Door}
    BY <1>4 DEF DeployStep, Ask, CloseGate, TakeDrain, LeaveExclusive, OpenGate, TimeOut,
                DeployerDies, DeployerGone, Door
  <2>2. AtWork' = AtWork
    BY <2>1 DEF AtWork
  <2>3. Door' = "shut" => Promise!Shut
    BY <2>1, <2>2 DEF Promise!Shut
  <2>4. Door' = "open" => Promise!Open
    BY <2>1, <2>2 DEF Promise!Open
  <2> QED
    BY <2>1, <2>2, <2>3, <2>4 DEF Promise!Next
<1> QED
  BY <1>1, <1>2, <1>3, <1>4

LEMMA ServiceMoves ==
    ASSUME TypeOK, LocksHeld, ServiceCrash \/ StartByHand \/ UNCHANGED vars
    PROVE  Promise!Next \/ UNCHANGED <<Door, AtWork, up>>
<1>1. CASE ServiceCrash
  <2>1. PICK dead \in SUBSET Slot : Killed(dead)
    BY <1>1 DEF ServiceCrash
  <2>2. AtWork' = AtWork \ dead /\ Door' = Door /\ up' = up
    BY <1>1, <2>1, KilledAtWork DEF ServiceCrash, Door
  <2>3. Promise!End(dead)
    BY <2>2 DEF Promise!End
  <2> QED
    BY <2>3 DEF Promise!Next
<1>2. CASE StartByHand
  <2>1. ~up /\ up' = TRUE /\ Door = "open" /\ Door' = "open" /\ AtWork' = AtWork
    BY <1>2 DEF StartByHand, Door, LocksHeld, AtWork
  <2>2. Promise!Start
    BY <2>1 DEF Promise!Start
  <2> QED
    BY <2>2 DEF Promise!Next
<1>3. CASE UNCHANGED vars
  BY <1>3 DEF vars, Door, AtWork
<1> QED
  BY <1>1, <1>2, <1>3

\* Two lock files, a turnstile and the leases implement the promise of the
\* drain: no work begins behind it, and the service is found quiet, stopped
\* and restarted with no kept work left, for any claimers, deployers that die
\* at any point and processes that crash.
THEOREM Quiesces == Spec => ImplementsQuiescence
<1>1. Init => Promise!Init
  BY DEF Init, Promise!Init, Door, AtWork, Running
<1>2. TypeOK /\ LocksHeld /\ WorkIsLeased /\ Service /\ [Next]_vars =>
        [Promise!Next]_<<Door, AtWork, up>>
  BY SlotsBeginOrEnd, DeployerMovesDoor, ServiceMoves DEF Next
<1> QED
  BY <1>1, <1>2, DrainTypes, LocksSafe, LeasesCountWork, ServiceHeld, PTL
  DEF Spec, ImplementsQuiescence, Promise!Spec
=============================================================================
