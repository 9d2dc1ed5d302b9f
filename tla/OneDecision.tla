---------------------------- MODULE OneDecision ----------------------------
(***************************************************************************)
(* What the execution generations of a task promise, with no claim, lease, *)
(* attempt, input version or run row: the task is decided at most once in  *)
(* a generation, by a handler that joined it while it was undecided; done  *)
(* means that a turn of this very generation gave an answer; turns of one  *)
(* generation never overlap; and what joined an older generation has no    *)
(* part in it.  ReplyTask implements this.                                 *)
(***************************************************************************)
EXTENDS Naturals

CONSTANT Handler

VARIABLES
    gen,       \* the current generation
    handlers,  \* who works on it
    turn,      \* who is in a turn of it
    answered,  \* whether an answer of one of its turns is at hand
    outcome    \* open, done, or closed otherwise

Init ==
    /\ gen = 0
    /\ handlers = {} /\ turn = {}
    /\ answered = FALSE
    /\ outcome = "open"

\* Everything starts over: old handlers, turns and answers do not count.
Renew ==
    /\ gen' = gen + 1
    /\ handlers' = {} /\ turn' = {}
    /\ answered' = FALSE
    /\ outcome' = "open"

Join(h) ==
    /\ outcome = "open"
    /\ handlers' = handlers \cup {h}
    /\ UNCHANGED <<gen, turn, answered, outcome>>

\* A new turn may replace an answer.
Begin(h) ==
    /\ h \in handlers
    /\ turn = {}
    /\ turn' = {h}
    /\ answered' \in {answered, FALSE}
    /\ UNCHANGED <<gen, handlers, outcome>>

End(h) ==
    /\ turn = {h}
    /\ turn' = {}
    /\ answered' \in BOOLEAN
    /\ UNCHANGED <<gen, handlers, outcome>>

Decide(h) ==
    /\ h \in handlers
    /\ outcome = "open"
    /\ outcome' \in {"done", "closed"}
    /\ outcome' = "done" => answered
    /\ handlers' \in {handlers, handlers \ {h}}
    /\ answered' \in {answered, FALSE}
    /\ UNCHANGED <<gen, turn>>

\* Handlers end or die, perhaps with the answer that they had.
Leave(gone) ==
    /\ handlers' = handlers \ gone
    /\ turn' = turn \ gone
    /\ answered' \in {answered, FALSE}
    /\ UNCHANGED <<gen, outcome>>

Next ==
    \/ Renew
    \/ \E h \in Handler : Join(h) \/ Begin(h) \/ End(h) \/ Decide(h)
    \/ \E gone \in SUBSET Handler : Leave(gone)

Spec == Init /\ [][Next]_<<gen, handlers, turn, answered, outcome>>
=============================================================================
