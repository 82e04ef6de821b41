----------------------------- MODULE MCConcurrency -----------------------------
(* The kernel's two concurrency utilities, one or the other at work: four  *)
(* tasks on a keyed queue of two keys, or a fan-out of up to five retried  *)
(* calls.  The queue is used when the fan-out has no items.                *)
EXTENDS KeyedQueue, FanOut, TLC

CONSTANTS k1, k2, t1, t2, t3, t4

MCSizes == {0, 1, 3, 5}
MCLimits == {-1, 1, 2, 9}
MCRequested == {0, 2, Unusable}

MCInit == Init /\ FanOutInit /\ (size = 0 => limit = 1 /\ attempts = 2)

MCNext ==
    \/ size = 0 /\ Next /\ UNCHANGED fanOutVars
    \/ FanOutNext /\ UNCHANGED queueVars

MCSpec ==
    MCInit /\ [][MCNext]_<<queueVars, fanOutVars>> /\ Fairness

===============================================================================
