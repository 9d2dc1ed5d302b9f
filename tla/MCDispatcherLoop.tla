-------------------------- MODULE MCDispatcherLoop --------------------------
(* TLC instances of DispatcherLoop.                                        *)
EXTENDS DispatcherLoop, TLC

CONSTANTS trigger, reply, meeting

MCOrder == <<trigger, reply, meeting>>
MCCapacity == (trigger :> 1) @@ (reply :> 2) @@ (meeting :> 1)
=============================================================================
