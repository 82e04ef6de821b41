--------------------------- MODULE ConcurrencyProofs ---------------------------
(***************************************************************************)
(* Proofs about the two ways the kernel runs several things at once:       *)
(* Scheduler, for any jobs and any number of registrations and of runs in  *)
(* flight, and FanOut, for any numbers of items, limits and attempts.      *)
(*                                                                         *)
(* A run of a job outlives the registration that started it, so the        *)
(* invariant of the scheduler relates the timers and the runs of every     *)
(* registration there ever was to the one the Map holds: only that one is  *)
(* armed or will be.  The lanes of a fan-out share nothing but an index, so*)
(* its invariant keeps account of the items by it: those before the index  *)
(* are each with one lane or have their result, unless a lane gave up.     *)
(***************************************************************************)
EXTENDS Scheduler, FanOut, FiniteSetTheorems, TLAPS

Registrations == Jobs \X Generations

(* Every variable keeps its type.                                          *)
TypeOK ==
    /\ started \in BOOLEAN
    /\ tasks \in [Jobs -> 0 .. MaxGeneration]
    /\ generation \in [Jobs -> 0 .. MaxGeneration]
    /\ timers \subseteq Registrations
    /\ stopped \subseteq Registrations
    /\ timed \in [Jobs -> [Generations -> Nat]]
    /\ boots \in [Jobs -> Nat]

(* What is registered, armed, stopped or in flight has been registered.    *)
OnlyRegistered ==
    \A j \in Jobs :
        /\ tasks[j] <= generation[j]
        /\ \A g \in Generations :
              /\ <<j, g>> \in stopped => g <= generation[j] /\ tasks[j] # g
              /\ timed[j][g] > 0 => g <= generation[j]

(* A timer that is armed is the registered one's.                          *)
TimersRegistered ==
    \A j \in Jobs, g \in Generations : <<j, g>> \in timers => tasks[j] = g

(* An interval run that will arm a timer is the registered one's.          *)
RunsRegistered ==
    \A j \in IntervalJobs, g \in Generations :
        timed[j][g] > 0 /\ <<j, g>> \notin stopped => tasks[j] = g

(* Of an interval registration, either the timer is armed or a run is in   *)
(* flight.                                                                 *)
EitherTimerOrRun ==
    \A j \in IntervalJobs, g \in Generations :
        timed[j][g] <= 1 /\ (<<j, g>> \in timers => timed[j][g] = 0)

(* A scheduler that is not started has nothing registered.                 *)
NoneUnlessStarted == ~started => \A j \in Jobs : tasks[j] = NotRegistered

IInv ==
    /\ TypeOK
    /\ OnlyRegistered
    /\ NoneUnlessStarted
    /\ TimersRegistered
    /\ RunsRegistered
    /\ EitherTimerOrRun

-------------------------------------------------------------------------------
(* Counting the runs of one registration leaves those of the others.       *)
Count(j, g, n) == timed' = [timed EXCEPT ![j][g] = n]

LEMMA TimedUpdate ==
    ASSUME TypeOK, NEW j \in Jobs, NEW g \in Generations, NEW n \in Nat, Count(j, g, n)
    PROVE  /\ timed' \in [Jobs -> [Generations -> Nat]]
           /\ timed'[j][g] = n
           /\ \A k \in Jobs, h \in Generations :
                 ~(k = j /\ h = g) => timed'[k][h] = timed[k][h]
BY DEF TypeOK, Count

LEMMA InvInit == Init => IInv
<1> SUFFICES ASSUME Init PROVE IInv
  OBVIOUS
<1>1. \A j \in Jobs, g \in Generations : timed[j][g] = 0
  BY DEF Init
<1>2. TypeOK
  <2>1. 0 \in 0 .. MaxGeneration
    BY BoundAssumption
  <2> QED BY <2>1 DEF Init, TypeOK, NotRegistered
<1>3. OnlyRegistered
  BY <1>1, BoundAssumption DEF Init, OnlyRegistered, NotRegistered
<1>4. TimersRegistered /\ RunsRegistered /\ EitherTimerOrRun
  BY <1>1 DEF Init, TimersRegistered, RunsRegistered, EitherTimerOrRun, Jobs
<1>5. NoneUnlessStarted
  BY DEF Init, NoneUnlessStarted
<1> QED BY <1>2, <1>3, <1>4, <1>5 DEF IInv

(* start registers a new generation of a job that had none registered: no  *)
(* run of it is in flight yet, and those of the old ones were stopped.     *)
LEMMA StartKeeps ==
    ASSUME IInv, NEW jobs \in SUBSET Jobs, Start(jobs)
    PROVE  IInv'
<1> DEFINE new == {j \in jobs : Schedulable(j)}
<1>1. /\ \A j \in new : j \in Jobs /\ tasks[j] = 0 /\ generation[j] < MaxGeneration
      /\ started' = TRUE
      /\ generation' = [j \in Jobs |-> generation[j] + (IF j \in new THEN 1 ELSE 0)]
      /\ tasks' = [j \in Jobs |-> IF j \in new THEN generation'[j] ELSE tasks[j]]
      /\ timers' = timers \cup {<<j, generation'[j]>> : j \in new}
      /\ boots' = [j \in Jobs |-> boots[j] + (IF j \in new \cap RunOnStart THEN 1 ELSE 0)]
      /\ UNCHANGED <<stopped, timed>>
  BY DEF Start, Schedulable, NotRegistered
<1> HIDE DEF new
<1>2. \A j \in Jobs : generation[j] \in 0 .. MaxGeneration /\ tasks[j] \in 0 .. MaxGeneration
  BY DEF IInv, TypeOK
<1>3. \A j \in Jobs : /\ generation'[j] \in 0 .. MaxGeneration
                      /\ generation[j] <= generation'[j]
                      /\ j \in new => /\ generation'[j] = generation[j] + 1
                                      /\ tasks'[j] = generation'[j]
                                      /\ generation'[j] \in Generations
                      /\ j \notin new => /\ generation'[j] = generation[j]
                                         /\ tasks'[j] = tasks[j]
  BY <1>1, <1>2, BoundAssumption DEF Generations
<1>4. \A j \in Jobs, g \in Generations :
          <<j, g>> \in timers' <=> <<j, g>> \in timers \/ (j \in new /\ g = generation'[j])
  BY <1>1
<1>5. TypeOK'
  <2>1. timers' \subseteq Registrations
    BY <1>1, <1>3 DEF IInv, TypeOK, Registrations
  <2>2. tasks' \in [Jobs -> 0 .. MaxGeneration] /\ generation' \in [Jobs -> 0 .. MaxGeneration]
    BY <1>1, <1>2, <1>3
  <2>3. boots' \in [Jobs -> Nat]
    BY <1>1 DEF IInv, TypeOK
  <2> QED BY <1>1, <2>1, <2>2, <2>3 DEF IInv, TypeOK
<1>6. OnlyRegistered'
  BY <1>1, <1>2, <1>3, BoundAssumption DEF IInv, OnlyRegistered, Generations
<1>7. TimersRegistered'
  BY <1>1, <1>3, <1>4 DEF IInv, TimersRegistered, Generations
<1>8. RunsRegistered'
  BY <1>1, <1>3 DEF IInv, RunsRegistered, Generations, Jobs
<1>9. EitherTimerOrRun'
  <2>1. ASSUME NEW j \in IntervalJobs, NEW g \in Generations
        PROVE  timed'[j][g] <= 1 /\ (<<j, g>> \in timers' => timed'[j][g] = 0)
    <3>1. j \in Jobs /\ timed[j][g] \in Nat
      BY DEF Jobs, IInv, TypeOK, Registrations
    <3>2. j \in new /\ g = generation'[j] => timed[j][g] = 0
      <4> SUFFICES ASSUME j \in new, g = generation'[j] PROVE timed[j][g] = 0
        OBVIOUS
      <4>1. g = generation[j] + 1 /\ generation[j] \in Nat
        BY <1>2, <1>3, <3>1, BoundAssumption
      <4>2. timed[j][g] > 0 => g <= generation[j]
        BY <3>1 DEF IInv, OnlyRegistered
      <4> QED BY <3>1, <4>1, <4>2
    <3> QED BY <1>1, <1>4, <3>1, <3>2 DEF IInv, EitherTimerOrRun
  <2> QED BY <2>1 DEF EitherTimerOrRun
<1>10. NoneUnlessStarted'
  BY <1>1 DEF NoneUnlessStarted
<1> QED BY <1>5, <1>6, <1>7, <1>8, <1>9, <1>10 DEF IInv

(* A timer that fires is the registered one's, and so is the run it starts.*)
LEMMA FireKeeps ==
    ASSUME IInv, NEW j \in Jobs, NEW g \in Generations, Fire(j, g)
    PROVE  IInv'
<1>1. /\ <<j, g>> \in timers
      /\ timed' = [timed EXCEPT ![j][g] = timed[j][g] + 1]
      /\ timers' = IF j \in IntervalJobs THEN timers \ {<<j, g>>} ELSE timers
      /\ UNCHANGED <<started, tasks, generation, stopped, boots>>
  BY DEF Fire
<1>2. timed[j][g] \in Nat /\ timed[j][g] + 1 \in Nat
  BY DEF IInv, TypeOK, Registrations
<1>3. /\ timed' \in [Jobs -> [Generations -> Nat]]
      /\ timed'[j][g] = timed[j][g] + 1
      /\ \A k \in Jobs, h \in Generations : ~(k = j /\ h = g) => timed'[k][h] = timed[k][h]
  <2>1. PICK n \in Nat : n = timed[j][g] + 1
    BY <1>2
  <2>2. TypeOK /\ Count(j, g, n)
    BY <1>1, <2>1 DEF IInv, Count
  <2>3. /\ timed' \in [Jobs -> [Generations -> Nat]]
        /\ timed'[j][g] = n
        /\ \A k \in Jobs, h \in Generations : ~(k = j /\ h = g) => timed'[k][h] = timed[k][h]
    BY <2>2, TimedUpdate
  <2> QED BY <2>1, <2>3
<1>4. tasks[j] = g
  BY <1>1 DEF IInv, TimersRegistered
<1>5. TypeOK'
  BY <1>1, <1>3 DEF IInv, TypeOK
<1>6. OnlyRegistered'
  BY <1>1, <1>3, <1>4 DEF IInv, OnlyRegistered
<1>7. TimersRegistered'
  BY <1>1 DEF IInv, TimersRegistered
<1>8. RunsRegistered' /\ EitherTimerOrRun'
  BY <1>1, <1>2, <1>3, <1>4 DEF IInv, RunsRegistered, EitherTimerOrRun, Jobs
<1>9. NoneUnlessStarted'
  BY <1>1 DEF IInv, NoneUnlessStarted
<1> QED BY <1>5, <1>6, <1>7, <1>8, <1>9 DEF IInv

(* A run that ends arms a timer only if its registration was not stopped,  *)
(* and then that one is registered and no other run of it is in flight.    *)
LEMMA EndRunKeeps ==
    ASSUME IInv, NEW j \in Jobs, NEW g \in Generations, EndRun(j, g)
    PROVE  IInv'
<1>1. /\ timed[j][g] > 0
      /\ timed' = [timed EXCEPT ![j][g] = timed[j][g] - 1]
      /\ timers' = IF j \in IntervalJobs /\ <<j, g>> \notin stopped
                   THEN timers \cup {<<j, g>>} ELSE timers
      /\ UNCHANGED <<started, tasks, generation, stopped, boots>>
  BY DEF EndRun
<1>2. timed[j][g] \in Nat /\ timed[j][g] - 1 \in Nat
  BY <1>1 DEF IInv, TypeOK, Registrations
<1>3. /\ timed' \in [Jobs -> [Generations -> Nat]]
      /\ timed'[j][g] = timed[j][g] - 1
      /\ \A k \in Jobs, h \in Generations : ~(k = j /\ h = g) => timed'[k][h] = timed[k][h]
  <2>1. PICK n \in Nat : n = timed[j][g] - 1
    BY <1>2
  <2>2. TypeOK /\ Count(j, g, n)
    BY <1>1, <2>1 DEF IInv, Count
  <2>3. /\ timed' \in [Jobs -> [Generations -> Nat]]
        /\ timed'[j][g] = n
        /\ \A k \in Jobs, h \in Generations : ~(k = j /\ h = g) => timed'[k][h] = timed[k][h]
    BY <2>2, TimedUpdate
  <2> QED BY <2>1, <2>3
<1>4. j \in IntervalJobs /\ <<j, g>> \notin stopped => tasks[j] = g
  BY <1>1 DEF IInv, RunsRegistered
<1>5. TypeOK'
  BY <1>1, <1>3 DEF IInv, TypeOK, Registrations
<1>6. OnlyRegistered'
  BY <1>1, <1>3 DEF IInv, OnlyRegistered
<1>7. TimersRegistered'
  BY <1>1, <1>4 DEF IInv, TimersRegistered
<1>8. RunsRegistered' /\ EitherTimerOrRun'
  BY <1>1, <1>2, <1>3, <1>4 DEF IInv, RunsRegistered, EitherTimerOrRun, Jobs
<1>9. NoneUnlessStarted'
  BY <1>1 DEF IInv, NoneUnlessStarted
<1> QED BY <1>5, <1>6, <1>7, <1>8, <1>9 DEF IInv

LEMMA EndBootRunKeeps ==
    ASSUME IInv, NEW j \in Jobs, EndBootRun(j)
    PROVE  IInv'
<1>1. TypeOK'
  BY DEF EndBootRun, IInv, TypeOK
<1>2. OnlyRegistered' /\ NoneUnlessStarted' /\ TimersRegistered'
  BY DEF EndBootRun, IInv, OnlyRegistered, NoneUnlessStarted, TimersRegistered
<1>3. RunsRegistered' /\ EitherTimerOrRun'
  BY DEF EndBootRun, IInv, RunsRegistered, EitherTimerOrRun
<1> QED BY <1>1, <1>2, <1>3 DEF IInv

(* The replaced cron task is stopped before the new one is armed.          *)
LEMMA RescheduleCronKeeps ==
    ASSUME IInv, NEW j \in CronJobs, RescheduleCron(j)
    PROVE  IInv'
<1>1. /\ tasks[j] # NotRegistered
      /\ generation[j] < MaxGeneration
      /\ generation' = [generation EXCEPT ![j] = generation[j] + 1]
      /\ tasks' = [tasks EXCEPT ![j] = generation'[j]]
      /\ timers' = (timers \ {<<j, tasks[j]>>}) \cup {<<j, generation'[j]>>}
      /\ UNCHANGED <<started, stopped, timed, boots>>
  BY DEF RescheduleCron
<1>2. j \in Jobs /\ j \notin IntervalJobs
  BY JobAssumption DEF Jobs
<1>3. \A k \in Jobs : generation[k] \in 0 .. MaxGeneration /\ tasks[k] \in 0 .. MaxGeneration
  BY DEF IInv, TypeOK
<1>4. /\ generation'[j] = generation[j] + 1 /\ tasks'[j] = generation'[j]
      /\ generation'[j] \in Generations
      /\ \A k \in Jobs \ {j} : generation'[k] = generation[k] /\ tasks'[k] = tasks[k]
  BY <1>1, <1>2, <1>3, BoundAssumption DEF IInv, TypeOK, Generations
<1>5. TypeOK'
  <2>1. tasks' \in [Jobs -> 0 .. MaxGeneration] /\ generation' \in [Jobs -> 0 .. MaxGeneration]
    <3>1. generation'[j] \in 0 .. MaxGeneration
      BY <1>4 DEF Generations
    <3> QED BY <1>1, <3>1 DEF IInv, TypeOK
  <2>2. timers' \subseteq Registrations
    BY <1>1, <1>2, <1>4 DEF IInv, TypeOK, Registrations
  <2> QED BY <1>1, <2>1, <2>2 DEF IInv, TypeOK
<1>6. OnlyRegistered'
  BY <1>1, <1>2, <1>3, <1>4, BoundAssumption DEF IInv, OnlyRegistered, Generations
<1>7. TimersRegistered'
  <2>1. ASSUME NEW k \in Jobs, NEW g \in Generations, <<k, g>> \in timers'
        PROVE  tasks'[k] = g
    <3>1. CASE k = j
      BY <1>1, <1>4, <2>1, <3>1 DEF IInv, TimersRegistered
    <3>2. CASE k # j
      BY <1>1, <1>4, <2>1, <3>2 DEF IInv, TimersRegistered
    <3> QED BY <3>1, <3>2
  <2> QED BY <2>1 DEF TimersRegistered
<1>8. RunsRegistered' /\ EitherTimerOrRun'
  BY <1>1, <1>2, <1>4 DEF IInv, RunsRegistered, EitherTimerOrRun, Jobs
<1>9. NoneUnlessStarted'
  BY <1>1, <1>2 DEF IInv, NoneUnlessStarted
<1> QED BY <1>5, <1>6, <1>7, <1>8, <1>9 DEF IInv

(* stop leaves no timer armed, and tells every interval registration that  *)
(* still has a run in flight.                                              *)
LEMMA StopKeeps ==
    ASSUME IInv, Stop
    PROVE  IInv'
<1>1. /\ started' = FALSE
      /\ timers' = timers \ Current
      /\ stopped' = stopped \cup {t \in Current : t[1] \in IntervalJobs}
      /\ tasks' = [j \in Jobs |-> NotRegistered]
      /\ UNCHANGED <<generation, timed, boots>>
  BY DEF Stop
<1>2. \A j \in Jobs, g \in Generations : <<j, g>> \in Current <=> tasks[j] = g
  BY BoundAssumption DEF Current, NotRegistered, Generations
<1>3. Current \subseteq Registrations
  BY BoundAssumption DEF Current, NotRegistered, Generations, Registrations, IInv, TypeOK
<1>4. timers' = {}
  <2>1. timers \subseteq Current
    BY <1>2 DEF IInv, TypeOK, Registrations, TimersRegistered
  <2> QED BY <1>1, <2>1
<1>5. \A j \in Jobs, g \in Generations :
          <<j, g>> \in stopped' <=> <<j, g>> \in stopped \/ (j \in IntervalJobs /\ tasks[j] = g)
  BY <1>1, <1>2
<1>6. \A j \in Jobs : tasks'[j] = 0
  BY <1>1 DEF NotRegistered
<1>7. TypeOK'
  <2>1. NotRegistered \in 0 .. MaxGeneration
    BY BoundAssumption DEF NotRegistered
  <2> QED BY <1>1, <1>3, <1>4, <2>1 DEF IInv, TypeOK
<1>8. OnlyRegistered'
  BY <1>1, <1>5, <1>6, BoundAssumption DEF IInv, TypeOK, OnlyRegistered, Generations
<1>9. RunsRegistered'
  BY <1>1, <1>5 DEF IInv, RunsRegistered, Jobs
<1>10. TimersRegistered' /\ EitherTimerOrRun'
  BY <1>1, <1>4 DEF IInv, TimersRegistered, EitherTimerOrRun
<1>11. NoneUnlessStarted'
  BY <1>6 DEF NoneUnlessStarted, NotRegistered
<1> QED BY <1>7, <1>8, <1>9, <1>10, <1>11 DEF IInv

LEMMA InvStep == IInv /\ [Next]_vars => IInv'
<1> SUFFICES ASSUME IInv, [Next]_vars PROVE IInv'
  OBVIOUS
<1>1. CASE UNCHANGED vars
  <2>1. TypeOK' /\ OnlyRegistered' /\ NoneUnlessStarted' /\ TimersRegistered'
    BY <1>1 DEF vars, IInv, TypeOK, OnlyRegistered, NoneUnlessStarted, TimersRegistered
  <2>2. RunsRegistered' /\ EitherTimerOrRun'
    BY <1>1 DEF vars, IInv, RunsRegistered, EitherTimerOrRun
  <2> QED BY <2>1, <2>2 DEF IInv
<1> QED BY <1>1, StartKeeps, FireKeeps, EndRunKeeps, EndBootRunKeeps, RescheduleCronKeeps,
           StopKeeps DEF Next

-------------------------------------------------------------------------------
(* The inductive invariant holds of every behaviour of the scheduler.      *)
THEOREM Invariance == Spec => []IInv
BY InvInit, InvStep, PTL DEF Spec

(* Whatever is registered, stopped and rescheduled while runs are in       *)
(* flight, no timer is armed or will be that the Map does not hold         *)
(* (scheduler.ts:121-123, 185-191).                                        *)
THEOREM NothingOrphaned == Spec => []NoOrphan
<1>1. IInv => NoOrphan
  BY DEF IInv, TypeOK, Registrations, TimersRegistered, RunsRegistered, NoOrphan
<1> QED BY <1>1, Invariance, PTL

(* However slow its runs are, an interval never meets its own next run     *)
(* (scheduler.ts:145-158).                                                 *)
THEOREM NeverOverlaps == Spec => []TimedRunsNeverOverlap
<1>1. IInv => TimedRunsNeverOverlap
  <2> SUFFICES ASSUME IInv, NEW j \in IntervalJobs, NEW g \in Generations
               PROVE  timed[j][g] + (IF <<j, g>> \in timers THEN 1 ELSE 0) <= 1
    BY DEF TimedRunsNeverOverlap
  <2>1. timed[j][g] \in Nat
    BY DEF IInv, TypeOK, Registrations, Jobs
  <2> QED BY <2>1 DEF IInv, EitherTimerOrRun
<1> QED BY <1>1, Invariance, PTL

(* A scheduler that was never started, or was stopped, fires nothing: no   *)
(* timer is armed, whatever runs it left behind end (scheduler.ts stop).   *)
Silent == ~started => timers = {}

(* However stop falls among the runs, the scheduler stays silent after it  *)
(* until it is started again (scheduler.ts:121-123).                       *)
THEOREM SilentOnceStopped == Spec => []Silent
<1>1. IInv => Silent
  BY DEF IInv, TypeOK, Registrations, TimersRegistered, NoneUnlessStarted, Silent,
         NotRegistered, Generations
<1> QED BY <1>1, Invariance, PTL

-------------------------------------------------------------------------------
(* The fan-out.                                                            *)

(* The arguments the caller may ask with.                                  *)
Arguments ==
    /\ Limits \subseteq Int
    /\ Sizes \subseteq Nat
    /\ Requested \subseteq Int \cup {Unusable}

LaneStates == {"calling", "sleeping", "ended", "failed"}
LaneType == [at : LaneStates, item : Nat, attempt : Int]

(* A lane that has an item to call for.                                    *)
Working(w) == lanes[w].at \in {"calling", "sleeping"}

(* Every variable keeps its type; there are lanes unless there is nothing  *)
(* to do.                                                                  *)
FanOutTypeOK ==
    /\ size \in Nat \ {0}
    /\ nextIndex \in Nat \ {0}
    /\ \E n \in Nat \ {0} : lanes \in [1 .. n -> LaneType]
    /\ results \in [1 .. size -> Nat]
    /\ begun \in [1 .. size -> Nat]
    /\ outcome \in {"pending", "resolved", "rejected"}

(* An item was begun once if the index has passed it, and a lane at work on*)
(* it is the only one and has no result for it yet.                        *)
ItemsTaken ==
    /\ \A i \in 1 .. size : begun[i] = IF i < nextIndex THEN 1 ELSE 0
    /\ \A w \in DOMAIN lanes : Working(w) =>
          /\ lanes[w].item \in 1 .. size
          /\ lanes[w].item < nextIndex
          /\ results[lanes[w].item] = NoItem
    /\ \A v, w \in DOMAIN lanes :
          Working(v) /\ Working(w) /\ lanes[v].item = lanes[w].item => v = w

(* What the index has passed is done, or at work, or given up.             *)
ItemsAccounted ==
    \A i \in 1 .. size :
        /\ results[i] \in {NoItem, i}
        /\ i >= nextIndex => results[i] = NoItem
        /\ i < nextIndex /\ results[i] = NoItem =>
              \/ \E w \in DOMAIN lanes : Working(w) /\ lanes[w].item = i
              \/ \E w \in DOMAIN lanes : lanes[w].at = "failed"

(* A lane only ends behind the last item, and all have ended when the whole*)
(* resolves.                                                               *)
EndedBehindLast ==
    /\ \A w \in DOMAIN lanes : lanes[w].at = "ended" => nextIndex > size
    /\ outcome = "resolved" =>
          /\ nextIndex > size
          /\ \A w \in DOMAIN lanes : lanes[w].at = "ended"

(* Without items there are no lanes, and nothing to wait for.              *)
Idle == size = 0 /\ lanes = <<>> /\ outcome = "resolved"

FanOutInv == Idle \/ (FanOutTypeOK /\ ItemsTaken /\ ItemsAccounted /\ EndedBehindLast)

-------------------------------------------------------------------------------
(* As many lanes as asked for, but no more than items and at least one.    *)
LEMMA LaneCount ==
    ASSUME NEW n \in Nat \ {0}, NEW asked \in Int
    PROVE  \E m \in 1 .. n : Lanes(n, asked) = 1 .. m /\ Cardinality(Lanes(n, asked)) = m
<1> DEFINE m == AtLeast(AtMost(asked, n), 1)
<1>1. m \in 1 .. n
  BY DEF AtLeast, AtMost
<1>2. Cardinality(1 .. m) = m
  BY <1>1, FS_Interval
<1> HIDE DEF m
<1>3. Lanes(n, asked) = 1 .. m
  BY DEF Lanes, m
<1> QED BY <1>1, <1>2, <1>3

LEMMA FanOutInvInit == Arguments /\ FanOutInit => FanOutInv
<1> SUFFICES ASSUME Arguments, FanOutInit PROVE FanOutInv
  OBVIOUS
<1>1. CASE size = 0
  BY <1>1 DEF FanOutInit, FanOutInv, Idle
<1>2. CASE size # 0
  <2>1. size \in Nat \ {0} /\ limit \in Int
    BY <1>2 DEF FanOutInit, Arguments
  <2>2. PICK m \in 1 .. size : /\ Lanes(size, limit) = 1 .. m
                               /\ Cardinality(Lanes(size, limit)) = m
    BY <2>1, LaneCount
  <2>3. /\ lanes = [w \in 1 .. m |-> Calling(w)]
        /\ nextIndex = m + 1
        /\ results = [i \in 1 .. size |-> NoItem]
        /\ begun = [i \in 1 .. size |-> IF i < nextIndex THEN 1 ELSE 0]
        /\ outcome = "pending"
    BY <1>2, <2>2 DEF FanOutInit
  <2>4. m \in Nat \ {0} /\ m <= size
    BY <2>1
  <2>5. \A w \in 1 .. m : /\ lanes[w] = Calling(w)
                          /\ lanes[w] \in LaneType
                          /\ lanes[w].at = "calling" /\ lanes[w].item = w
    BY <2>3, <2>4 DEF Calling, LaneType, LaneStates, MIN_ATTEMPTS
  <2>6. FanOutTypeOK
    BY <2>1, <2>3, <2>4, <2>5 DEF FanOutTypeOK, NoItem
  <2>7. ItemsTaken
    BY <2>1, <2>3, <2>4, <2>5 DEF ItemsTaken, Working, NoItem
  <2>8. ItemsAccounted
    BY <2>1, <2>3, <2>4, <2>5 DEF ItemsAccounted, Working, NoItem
  <2>9. EndedBehindLast
    BY <2>3, <2>5 DEF EndedBehindLast
  <2> QED BY <2>6, <2>7, <2>8, <2>9 DEF FanOutInv
<1> QED BY <1>1, <1>2

-------------------------------------------------------------------------------
(* A lane whose call resolved takes the item the index stands at, or ends. *)
LEMMA SucceedKeeps ==
    ASSUME FanOutTypeOK, ItemsTaken, ItemsAccounted, EndedBehindLast,
           NEW w \in DOMAIN lanes, Succeed(w)
    PROVE  FanOutInv'
<1> DEFINE item == lanes[w].item
           ends == nextIndex > size
           lane == IF ends THEN Lane("ended") ELSE Calling(nextIndex)
<1>1. /\ lanes[w].at = "calling"
      /\ results' = [results EXCEPT ![item] = item]
      /\ lanes' = [lanes EXCEPT ![w] = lane]
      /\ nextIndex' = nextIndex + 1
      /\ UNCHANGED <<size, limit, attempts>>
      /\ ends => begun' = begun
      /\ ~ends => begun' = [begun EXCEPT ![nextIndex] = @ + 1] /\ outcome' = outcome
      /\ ends => outcome' = IF \A v \in DOMAIN lanes \ {w} : lanes[v].at = "ended"
                            THEN "resolved" ELSE outcome
  BY DEF Succeed, RunNext
<1>2. PICK n \in Nat \ {0} : lanes \in [1 .. n -> LaneType]
  BY DEF FanOutTypeOK
<1>3. /\ item \in 1 .. size /\ item < nextIndex
      /\ size \in Nat \ {0} /\ nextIndex \in Nat \ {0}
      /\ DOMAIN lanes = 1 .. n
  BY <1>1, <1>2 DEF FanOutTypeOK, ItemsTaken, Working
<1>4. /\ lane \in LaneType
      /\ ends => lane.at = "ended"
      /\ ~ends => lane.at = "calling" /\ lane.item = nextIndex
  BY <1>3 DEF Lane, Calling, LaneType, LaneStates, NoItem, MIN_ATTEMPTS
<1> HIDE DEF lane, item
<1>5. /\ lanes' \in [1 .. n -> LaneType] /\ DOMAIN lanes' = DOMAIN lanes
      /\ lanes'[w] = lane
      /\ \A v \in DOMAIN lanes \ {w} : lanes'[v] = lanes[v]
  BY <1>1, <1>2, <1>4
<1>6. /\ results' \in [1 .. size -> Nat]
      /\ \A i \in 1 .. size : results'[i] = IF i = item THEN item ELSE results[i]
  BY <1>1, <1>3 DEF FanOutTypeOK
<1>7. /\ begun' \in [1 .. size -> Nat]
      /\ \A i \in 1 .. size : begun'[i] = IF i < nextIndex' THEN 1 ELSE 0
  <2>0. /\ begun \in [1 .. size -> Nat] /\ nextIndex' = nextIndex + 1
        /\ \A i \in 1 .. size : begun[i] = IF i < nextIndex THEN 1 ELSE 0
    BY <1>1 DEF FanOutTypeOK, ItemsTaken
  <2>1. CASE ends
    BY <1>1, <1>3, <2>0, <2>1
  <2>2. CASE ~ends
    <3>1. nextIndex \in 1 .. size
      BY <1>3, <2>2
    <3>2. begun' = [begun EXCEPT ![nextIndex] = begun[nextIndex] + 1]
      BY <1>1, <2>2
    <3> QED BY <1>3, <2>0, <3>1, <3>2
  <2> QED BY <2>1, <2>2
<1>8. FanOutTypeOK'
  <2>0. outcome \in {"pending", "resolved", "rejected"}
    BY DEF FanOutTypeOK
  <2>1. outcome' \in {"pending", "resolved", "rejected"} /\ nextIndex' \in Nat \ {0}
    <3>1. outcome' \in {"resolved", outcome}
      BY <1>1
    <3>2. nextIndex' = nextIndex + 1
      BY <1>1
    <3> QED BY <1>3, <2>0, <3>1, <3>2
  <2> QED BY <1>1, <1>3, <1>5, <1>6, <1>7, <2>1 DEF FanOutTypeOK
<1>9. ItemsTaken'
  <2>1. ASSUME NEW v \in DOMAIN lanes, Working(v)'
        PROVE  /\ lanes'[v].item \in 1 .. size
               /\ lanes'[v].item < nextIndex'
               /\ results'[lanes'[v].item] = NoItem
    <3>1. CASE v = w
      <4>1. ~ends /\ lanes'[v].item = nextIndex
        BY <1>4, <1>5, <2>1, <3>1 DEF Working
      <4>2. nextIndex \in 1 .. size /\ results[nextIndex] = NoItem
        BY <1>3, <4>1 DEF ItemsAccounted
      <4> QED BY <1>1, <1>3, <1>6, <4>1, <4>2
    <3>2. CASE v # w
      BY <1>1, <1>3, <1>5, <1>6, <2>1, <3>2 DEF ItemsTaken, Working, item
    <3> QED BY <3>1, <3>2
  <2>2. ASSUME NEW u \in DOMAIN lanes, NEW v \in DOMAIN lanes, Working(u)', Working(v)',
               lanes'[u].item = lanes'[v].item
        PROVE  u = v
    BY <1>1, <1>3, <1>4, <1>5, <2>2 DEF ItemsTaken, Working
  <2> QED BY <1>1, <1>5, <1>7, <2>1, <2>2 DEF ItemsTaken
<1>10. ItemsAccounted'
  <2> SUFFICES ASSUME NEW i \in 1 .. size
               PROVE  /\ results'[i] \in {NoItem, i}
                      /\ i >= nextIndex' => results'[i] = NoItem
                      /\ i < nextIndex' /\ results'[i] = NoItem =>
                            \/ \E v \in DOMAIN lanes : Working(v)' /\ lanes'[v].item = i
                            \/ \E v \in DOMAIN lanes : lanes'[v].at = "failed"
    BY <1>1, <1>5 DEF ItemsAccounted
  <2>1. results'[i] \in {NoItem, i} /\ (i >= nextIndex' => results'[i] = NoItem)
    BY <1>1, <1>3, <1>6 DEF ItemsAccounted
  <2>2. ASSUME i < nextIndex, i # item, results[i] = NoItem
        PROVE  \/ \E v \in DOMAIN lanes : Working(v)' /\ lanes'[v].item = i
               \/ \E v \in DOMAIN lanes : lanes'[v].at = "failed"
    <3>1. CASE \E v \in DOMAIN lanes : lanes[v].at = "failed"
      BY <1>1, <1>5, <3>1
    <3>2. ASSUME NEW v \in DOMAIN lanes, Working(v), lanes[v].item = i
          PROVE  Working(v)' /\ lanes'[v].item = i
      BY <1>5, <2>2, <3>2 DEF Working, item
    <3> QED BY <2>2, <3>1, <3>2 DEF ItemsAccounted
  <2>3. ASSUME i = nextIndex PROVE Working(w)' /\ lanes'[w].item = i
    BY <1>3, <1>4, <1>5, <2>3 DEF Working
  <2>4. i = item => results'[i] # NoItem
    BY <1>3, <1>6 DEF NoItem
  <2> QED BY <1>1, <1>3, <1>6, <2>1, <2>2, <2>3, <2>4
<1>11. EndedBehindLast'
  <2>1. ~ends => outcome # "resolved"
    BY <1>1 DEF EndedBehindLast
  <2> QED BY <1>1, <1>3, <1>4, <1>5, <2>1 DEF EndedBehindLast
<1> QED BY <1>8, <1>9, <1>10, <1>11 DEF FanOutInv

(* Between attempts a lane keeps its item.                                 *)
LEMMA AttemptKeeps ==
    ASSUME FanOutTypeOK, ItemsTaken, ItemsAccounted, EndedBehindLast,
           NEW w \in DOMAIN lanes, FailForNow(w) \/ Retry(w)
    PROVE  FanOutInv'
<1>1. PICK n \in Nat \ {0} : lanes \in [1 .. n -> LaneType]
  BY DEF FanOutTypeOK
<1>2. PICK lane \in LaneType :
          /\ lanes' = [lanes EXCEPT ![w] = lane]
          /\ lane.at \in {"calling", "sleeping"} /\ lane.item = lanes[w].item
  <2>1. CASE FailForNow(w)
    <3> DEFINE lane == [lanes[w] EXCEPT !.at = "sleeping"]
    <3>1. lane \in LaneType /\ lane.at = "sleeping" /\ lane.item = lanes[w].item
      BY <1>1 DEF LaneType, LaneStates
    <3> QED BY <2>1, <3>1 DEF FailForNow
  <2>2. CASE Retry(w)
    <3> DEFINE lane == [lanes[w] EXCEPT !.at = "calling", !.attempt = @ + 1]
    <3>1. lanes[w] \in LaneType /\ lanes[w].attempt + 1 \in Int
      BY <1>1 DEF LaneType
    <3>2. lane \in LaneType /\ lane.at = "calling" /\ lane.item = lanes[w].item
      BY <3>1 DEF LaneType, LaneStates
    <3> QED BY <2>2, <3>2 DEF Retry
  <2> QED BY <2>1, <2>2
<1>3. /\ Working(w)
      /\ UNCHANGED <<size, limit, attempts, nextIndex, results, outcome, begun>>
  BY DEF FailForNow, Retry, Working
<1>4. /\ lanes' \in [1 .. n -> LaneType] /\ DOMAIN lanes' = DOMAIN lanes
      /\ \A v \in DOMAIN lanes : /\ Working(v)' <=> Working(v)
                                 /\ lanes'[v].item = lanes[v].item
                                 /\ lanes'[v].at = "failed" <=> lanes[v].at = "failed"
                                 /\ lanes'[v].at = "ended" <=> lanes[v].at = "ended"
  BY <1>1, <1>2, <1>3 DEF Working
<1>5. FanOutTypeOK'
  BY <1>3, <1>4 DEF FanOutTypeOK
<1>6. ItemsTaken' /\ EndedBehindLast'
  BY <1>3, <1>4 DEF ItemsTaken, EndedBehindLast
<1>7. ItemsAccounted'
  BY <1>3, <1>4 DEF ItemsAccounted
<1> QED BY <1>5, <1>6, <1>7 DEF FanOutInv

(* A lane that gives up leaves its item without a result, and is seen.     *)
LEMMA GiveUpKeeps ==
    ASSUME FanOutTypeOK, ItemsTaken, ItemsAccounted, EndedBehindLast,
           NEW w \in DOMAIN lanes, GiveUp(w)
    PROVE  FanOutInv'
<1>1. PICK n \in Nat \ {0} : lanes \in [1 .. n -> LaneType]
  BY DEF FanOutTypeOK
<1>2. /\ lanes[w].at = "calling"
      /\ lanes' = [lanes EXCEPT ![w] = Lane("failed")]
      /\ outcome' = "rejected"
      /\ UNCHANGED <<size, limit, attempts, nextIndex, results, begun>>
  BY DEF GiveUp
<1>3. Lane("failed") \in LaneType /\ Lane("failed").at = "failed"
  BY DEF Lane, LaneType, LaneStates, NoItem
<1>4. /\ lanes' \in [1 .. n -> LaneType] /\ DOMAIN lanes' = DOMAIN lanes
      /\ lanes'[w].at = "failed"
      /\ \A v \in DOMAIN lanes \ {w} : lanes'[v] = lanes[v]
  BY <1>1, <1>2, <1>3
<1>5. FanOutTypeOK'
  BY <1>2, <1>4 DEF FanOutTypeOK
<1>6. ItemsTaken'
  BY <1>2, <1>4 DEF ItemsTaken, Working
<1>7. ItemsAccounted'
  BY <1>2, <1>4 DEF ItemsAccounted
<1>8. EndedBehindLast'
  BY <1>2, <1>4 DEF EndedBehindLast
<1> QED BY <1>5, <1>6, <1>7, <1>8 DEF FanOutInv

LEMMA FanOutInvStep == FanOutInv /\ [FanOutNext]_fanOutVars => FanOutInv'
<1> SUFFICES ASSUME FanOutInv, [FanOutNext]_fanOutVars PROVE FanOutInv'
  OBVIOUS
<1>1. CASE UNCHANGED fanOutVars
  BY <1>1 DEF fanOutVars, FanOutInv, Idle, FanOutTypeOK, ItemsTaken, ItemsAccounted,
                 EndedBehindLast, Working
<1>2. ASSUME Idle PROVE ~FanOutNext
  <2>1. DOMAIN lanes = {}
    BY <1>2 DEF Idle
  <2> QED BY <2>1 DEF FanOutNext
<1> QED BY <1>1, <1>2, SucceedKeeps, AttemptKeeps, GiveUpKeeps DEF FanOutInv, FanOutNext

-------------------------------------------------------------------------------
(* The inductive invariant holds of every behaviour of the fan-out.        *)
THEOREM FanOutInvariance == Arguments /\ FanOutSpec => []FanOutInv
BY FanOutInvInit, FanOutInvStep, PTL DEF FanOutSpec

(* For any number of items, lanes and attempts: no item is begun twice, a  *)
(* result is in its own item's place, and the whole only resolves with     *)
(* every result there and every lane at its end                            *)
(* (run-with-concurrency.ts:23-41).                                        *)
THEOREM FanOutSoundness == Arguments /\ FanOutSpec => []FanOutSound
<1>1. FanOutInv => FanOutSound
  <2> SUFFICES ASSUME FanOutInv PROVE FanOutSound
    OBVIOUS
  <2>1. CASE Idle
    BY <2>1 DEF Idle, FanOutSound
  <2>2. CASE FanOutTypeOK /\ ItemsTaken /\ ItemsAccounted /\ EndedBehindLast
    <3>1. \A i \in 1 .. size : begun[i] <= 1 /\ results[i] \in {NoItem, i}
      BY <2>2 DEF FanOutTypeOK, ItemsTaken, ItemsAccounted
    <3>2. ASSUME outcome = "resolved", NEW i \in 1 .. size
          PROVE  begun[i] = 1 /\ results[i] = i
      <4>1. i < nextIndex
        BY <2>2, <3>2 DEF FanOutTypeOK, EndedBehindLast
      <4>2. \A w \in DOMAIN lanes : ~Working(w) /\ lanes[w].at # "failed"
        BY <2>2, <3>2 DEF EndedBehindLast, Working
      <4> QED BY <2>2, <4>1, <4>2 DEF ItemsTaken, ItemsAccounted
    <3> QED BY <2>2, <3>1, <3>2 DEF FanOutSound, EndedBehindLast
  <2> QED BY <2>1, <2>2 DEF FanOutInv
<1> QED BY <1>1, FanOutInvariance, PTL

===============================================================================
