------------------------------- MODULE Scheduler -------------------------------
(***************************************************************************)
(* CronScheduler: a Map of registered jobs, each with its timer.  A cron   *)
(* job fires whenever its expression says so; an interval job arms its next*)
(* timer when a run ends.  Runs are never awaited, so they outlive stop.   *)
(* Each registration of a job (start, rescheduleCron) is a generation of   *)
(* it, with a timer of its own.                                            *)
(***************************************************************************)
EXTENDS Naturals

CONSTANTS
    IntervalJobs,
    CronJobs,
    RunOnStart,         \* the jobs that also run once when the scheduler starts
    Malformed,          \* the jobs isSchedulable refuses for their schedule
    MaxGeneration,      \* bound: registrations of one job
    MaxRuns             \* bound: runs in flight of one registration

Jobs == IntervalJobs \cup CronJobs

ASSUME JobAssumption ==
    /\ IntervalJobs \cap CronJobs = {}
    /\ RunOnStart \subseteq Jobs
    /\ Malformed \subseteq Jobs
ASSUME BoundAssumption == MaxGeneration \in Nat /\ MaxRuns \in Nat

Generations == 1 .. MaxGeneration
NotRegistered == 0

VARIABLES
    started,
    tasks,              \* tasks[j]: the registered generation of j, if any
    generation,         \* the last generation of each job
    timers,             \* the registrations whose timer may fire
    stopped,            \* the interval registrations told to stop
    timed,              \* timed[j][g]: runs in flight that this timer started
    boots               \* boots[j]: boot runs of j in flight

vars == <<started, tasks, generation, timers, stopped, timed, boots>>

Init ==
    /\ started = FALSE
    /\ tasks = [j \in Jobs |-> NotRegistered]
    /\ generation = [j \in Jobs |-> 0]
    /\ timers = {}
    /\ stopped = {}
    /\ timed = [j \in Jobs |-> [g \in Generations |-> 0]]
    /\ boots = [j \in Jobs |-> 0]

(* isSchedulable: the name is free and the schedule is well formed.        *)
Schedulable(j) == tasks[j] = NotRegistered /\ j \notin Malformed

Current == {<<j, tasks[j]>> : j \in {k \in Jobs : tasks[k] # NotRegistered}}

(* start(jobs): registers what it can, and runs what wants a boot run.     *)
Start(jobs) ==
    LET new == {j \in jobs : Schedulable(j)} IN
    /\ \A j \in new : generation[j] < MaxGeneration
    /\ \A j \in new \cap RunOnStart : boots[j] < MaxRuns
    /\ started' = TRUE
    /\ generation' = [j \in Jobs |-> generation[j] + (IF j \in new THEN 1 ELSE 0)]
    /\ tasks' = [j \in Jobs |-> IF j \in new THEN generation'[j] ELSE tasks[j]]
    /\ timers' = timers \cup {<<j, generation'[j]>> : j \in new}
    /\ boots' = [j \in Jobs |-> boots[j] + (IF j \in new \cap RunOnStart THEN 1 ELSE 0)]
    /\ UNCHANGED <<stopped, timed>>

(* Faulty: the interval's next timer is armed when the run begins.         *)
FireEveryInterval(j, g) ==
    /\ <<j, g>> \in timers
    /\ timed[j][g] < MaxRuns
    /\ timed' = [timed EXCEPT ![j][g] = @ + 1]
    /\ UNCHANGED <<started, tasks, generation, timers, stopped, boots>>

(* A timer fires: a cron expression matches again, a timeout is used up.   *)
Fire(j, g) ==
    /\ <<j, g>> \in timers
    /\ timed[j][g] < MaxRuns
    /\ timed' = [timed EXCEPT ![j][g] = @ + 1]
    /\ timers' = IF j \in IntervalJobs THEN timers \ {<<j, g>>} ELSE timers
    /\ UNCHANGED <<started, tasks, generation, stopped, boots>>

(* Faulty: the next timer is armed though the job was stopped meanwhile.   *)
EndRunRearmed(j, g) ==
    /\ timed[j][g] > 0
    /\ timed' = [timed EXCEPT ![j][g] = @ - 1]
    /\ timers' = IF j \in IntervalJobs THEN timers \cup {<<j, g>>} ELSE timers
    /\ UNCHANGED <<started, tasks, generation, stopped, boots>>

(* Faulty: only a run that resolved arms the next timer.                   *)
EndRunIfResolved(j, g) ==
    /\ timed[j][g] > 0
    /\ timed' = [timed EXCEPT ![j][g] = @ - 1]
    /\ timers' \in {timers, IF j \in IntervalJobs /\ <<j, g>> \notin stopped
                            THEN timers \cup {<<j, g>>} ELSE timers}
    /\ UNCHANGED <<started, tasks, generation, stopped, boots>>

(* A run resolves or throws, all the same: an interval job that was not    *)
(* stopped meanwhile arms its next timer.                                  *)
EndRun(j, g) ==
    /\ timed[j][g] > 0
    /\ timed' = [timed EXCEPT ![j][g] = @ - 1]
    /\ timers' = IF j \in IntervalJobs /\ <<j, g>> \notin stopped
                 THEN timers \cup {<<j, g>>} ELSE timers
    /\ UNCHANGED <<started, tasks, generation, stopped, boots>>

EndBootRun(j) ==
    /\ boots[j] > 0
    /\ boots' = [boots EXCEPT ![j] = @ - 1]
    /\ UNCHANGED <<started, tasks, generation, timers, stopped, timed>>

(* Faulty: the task that is replaced is left running.                      *)
RescheduleCronBeside(j) ==
    /\ j \in CronJobs /\ tasks[j] # NotRegistered
    /\ generation[j] < MaxGeneration
    /\ generation' = [generation EXCEPT ![j] = @ + 1]
    /\ tasks' = [tasks EXCEPT ![j] = generation'[j]]
    /\ timers' = timers \cup {<<j, generation'[j]>>}
    /\ UNCHANGED <<started, stopped, timed, boots>>

(* rescheduleCron with a valid expression, of a registered cron job; any   *)
(* other call changes nothing.                                             *)
RescheduleCron(j) ==
    /\ j \in CronJobs /\ tasks[j] # NotRegistered
    /\ generation[j] < MaxGeneration
    /\ generation' = [generation EXCEPT ![j] = @ + 1]
    /\ tasks' = [tasks EXCEPT ![j] = generation'[j]]
    /\ timers' = (timers \ {<<j, tasks[j]>>}) \cup {<<j, generation'[j]>>}
    /\ UNCHANGED <<started, stopped, timed, boots>>

(* stop: every registered task, whether its timer or a run is pending.     *)
Stop ==
    /\ started' = FALSE
    /\ timers' = timers \ Current
    /\ stopped' = stopped \cup {t \in Current : t[1] \in IntervalJobs}
    /\ tasks' = [j \in Jobs |-> NotRegistered]
    /\ UNCHANGED <<generation, timed, boots>>

Next ==
    \/ \E jobs \in SUBSET Jobs : Start(jobs)
    \/ \E j \in Jobs, g \in Generations : Fire(j, g) \/ EndRun(j, g)
    \/ \E j \in Jobs : EndBootRun(j)
    \/ \E j \in CronJobs : RescheduleCron(j)
    \/ Stop

Spec == Init /\ [][Next]_vars

(* Timers fire, and the runs of a job settle.                              *)
FairSpec ==
    Spec /\ \A j \in Jobs, g \in Generations :
                WF_vars(Fire(j, g)) /\ WF_vars(EndRun(j, g))

-------------------------------------------------------------------------------
(* Every timer that may fire, and every interval that will arm one when its*)
(* run ends, is the one the Map holds: stop and rescheduleCron leave no    *)
(* orphan behind that would fire for ever (scheduler.ts:121-123, 185-191). *)
NoOrphan ==
    /\ \A t \in timers : tasks[t[1]] = t[2]
    /\ \A j \in IntervalJobs, g \in Generations :
          timed[j][g] > 0 /\ <<j, g>> \notin stopped => tasks[j] = g

(* A timer of an interval job is never armed while its run is in flight: a *)
(* run slower than its interval does not meet the next one                 *)
(* (scheduler.ts:145-158).                                                 *)
TimedRunsNeverOverlap ==
    \A j \in IntervalJobs, g \in Generations :
        timed[j][g] + (IF <<j, g>> \in timers THEN 1 ELSE 0) <= 1

(* Stated by the comment in scheduleInterval ("The contract is 'at most one*)
(* run at a time'", scheduler.ts:148); the boot run of a job is outside it.*)
AtMostOneRunAtATime ==
    \A j \in IntervalJobs, g \in Generations : timed[j][g] + boots[j] <= 1

(* A registered interval job runs again and again, whatever its runs throw,*)
(* until it is stopped (scheduler.ts:157, 176-182).                        *)
KeepsRunning ==
    \A j \in IntervalJobs, g \in Generations :
        tasks[j] = g ~> timed[j][g] > 0 \/ tasks[j] # g

===============================================================================
