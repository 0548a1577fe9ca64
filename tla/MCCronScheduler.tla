-------------------------- MODULE MCCronScheduler --------------------------
(* One job, stored with an interval or with a schedule that can no longer be *)
(* computed and edited to any other, under every pattern of two events with  *)
(* one goroutine and of one event with two goroutines.                       *)
EXTENDS CronScheduler, TLC

CONSTANTS j1, r1, r2, t1

Every == [kind |-> "every", n |-> 2]
At == [kind |-> "at", n |-> 1]
Bad == [kind |-> "bad", n |-> 1]

AllSchedules == {Every, At, Bad}
EveryOrBad == {Every, Bad}
OneShot == {At}

EventsPerCap == <<2, 1>>

Symmetry == Permutations({r1, r2})
=============================================================================
