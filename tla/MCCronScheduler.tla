--------------------------- MODULE MCCronScheduler ---------------------------
(* CronScheduler on small instances.                                       *)
EXTENDS CronScheduler, TLC

\* A service command and an Agent task.  The latest instant of the first may lie
\* before one that the second has on record, and the other way round.
MCConfig == {[cron |-> {1, 2}, command |-> TRUE], [cron |-> {1, 3}, command |-> FALSE]}

Symmetry == Permutations(Scheduler)
=============================================================================
