------------------------------ MODULE KeyedQueue ------------------------------
(***************************************************************************)
(* createKeyedQueue: work on one key runs one task at a time, in the order *)
(* it was asked for; distinct keys run concurrently.                       *)
(*                                                                         *)
(* A key's chain is a Map entry holding the tail promise of its last task. *)
(* A task waits for the tail that was there when it was queued; when its   *)
(* own tail resolves, it removes the entry if it is still the last.        *)
(***************************************************************************)
EXTENDS Naturals, Sequences

CONSTANTS
    Keys,
    Tasks,              \* calls of run, each made at most once
    NoTask

ASSUME NoTaskAssumption == NoTask \notin Tasks

VARIABLES
    chains,             \* chains[k]: the task whose tail the Map holds for k, or NoTask
    prev,               \* prev[t]: the task whose tail t waits for, or NoTask
    key,                \* key[t]: the key t was queued for (any key before that)
    state,              \* where t stands; "dropped" once its tail's reaction ran
    arrivals            \* history: the tasks of each key, in the order they were queued

queueVars == <<chains, prev, key, state, arrivals>>

States == {"new", "queued", "running", "resolved", "rejected", "dropped"}

Init ==
    /\ chains = [k \in Keys |-> NoTask]
    /\ prev = [t \in Tasks |-> NoTask]
    /\ key \in {[t \in Tasks |-> k] : k \in Keys}
    /\ state = [t \in Tasks |-> "new"]
    /\ arrivals = [k \in Keys |-> <<>>]

Settled(t) == state[t] \in {"resolved", "rejected", "dropped"}

(* run(key, task): chain behind the entry's tail, and become the entry.    *)
Run(t, k) ==
    /\ state[t] = "new"
    /\ state' = [state EXCEPT ![t] = "queued"]
    /\ key' = [key EXCEPT ![t] = k]
    /\ prev' = [prev EXCEPT ![t] = chains[k]]
    /\ chains' = [chains EXCEPT ![k] = t]
    /\ arrivals' = [arrivals EXCEPT ![k] = Append(@, t)]

(* Faulty: a task only waits for a predecessor that has not started yet.   *)
BeginBehindStarted(t) ==
    /\ state[t] = "queued"
    /\ prev[t] # NoTask => state[prev[t]] # "queued"
    /\ state' = [state EXCEPT ![t] = "running"]
    /\ UNCHANGED <<chains, prev, key, arrivals>>

(* Faulty: the chain goes on from the result of the task in front, not from*)
(* its settled tail: one that rejected rejects those behind it.            *)
BeginPoisoned(t) ==
    /\ state[t] = "queued"
    /\ prev[t] # NoTask => Settled(prev[t])
    /\ state' = [state EXCEPT ![t] = IF prev[t] # NoTask /\ state[prev[t]] = "rejected"
                                     THEN "rejected" ELSE "running"]
    /\ UNCHANGED <<chains, prev, key, arrivals>>

(* The settled tail in front, resolved or rejected alike, starts the task. *)
Begin(t) ==
    /\ state[t] = "queued"
    /\ prev[t] # NoTask => Settled(prev[t])
    /\ state' = [state EXCEPT ![t] = "running"]
    /\ UNCHANGED <<chains, prev, key, arrivals>>

(* The task resolves or rejects, and result, which its caller has, with it;*)
(* its tail resolves either way.                                           *)
Settle(t, how) ==
    /\ state[t] = "running"
    /\ state' = [state EXCEPT ![t] = how]
    /\ UNCHANGED <<chains, prev, key, arrivals>>

(* Faulty: the entry is dropped though a later task has become it.         *)
DropAlways(t) ==
    /\ state[t] \in {"resolved", "rejected"}
    /\ state' = [state EXCEPT ![t] = "dropped"]
    /\ chains' = [chains EXCEPT ![key[t]] = NoTask]
    /\ UNCHANGED <<prev, key, arrivals>>

(* Faulty: the entry is never dropped.                                     *)
DropNever(t) ==
    /\ state[t] \in {"resolved", "rejected"}
    /\ state' = [state EXCEPT ![t] = "dropped"]
    /\ UNCHANGED <<chains, prev, key, arrivals>>

(* The reaction to the task's own tail.                                    *)
Drop(t) ==
    /\ state[t] \in {"resolved", "rejected"}
    /\ state' = [state EXCEPT ![t] = "dropped"]
    /\ chains' = [chains EXCEPT ![key[t]] = IF @ = t THEN NoTask ELSE @]
    /\ UNCHANGED <<prev, key, arrivals>>

Next ==
    \E t \in Tasks :
        \/ \E k \in Keys : Run(t, k)
        \/ Begin(t)
        \/ \E how \in {"resolved", "rejected"} : Settle(t, how)
        \/ Drop(t)

Spec == Init /\ [][Next]_queueVars

(* The event loop runs what is ready, and a task that runs settles.        *)
Fairness ==
    \A t \in Tasks : WF_queueVars(\/ Begin(t)
                                   \/ \E how \in {"resolved", "rejected"} : Settle(t, how)
                                   \/ Drop(t))

-------------------------------------------------------------------------------
(* Every variable keeps its type.                                          *)
TypeOK ==
    /\ chains \in [Keys -> Tasks \cup {NoTask}]
    /\ prev \in [Tasks -> Tasks \cup {NoTask}]
    /\ key \in [Tasks -> Keys]
    /\ state \in [Tasks -> States]
    /\ arrivals \in [Keys -> Seq(Tasks)]

(* Work on one key never interleaves and keeps its order: a task only      *)
(* starts once every task queued before it for the key has settled, and a  *)
(* rejected one holds nothing up (keyed-queue.ts:26-32).                   *)
OneAtATimeInOrder ==
    \A k \in Keys : \A i, j \in 1 .. Len(arrivals[k]) :
        i < j /\ state[arrivals[k][j]] \notin {"new", "queued"}
            => Settled(arrivals[k][i])

(* The Map holds a key exactly while work for it is in flight: a later     *)
(* enqueue is never forgotten, and no key leaks (keyed-queue.ts:40-46).    *)
NoKeyForgotten ==
    \A t \in Tasks : state[t] \in {"queued", "running"} => chains[key[t]] # NoTask
NoKeyLeaked ==
    \A k \in Keys : chains[k] # NoTask => state[chains[k]] # "dropped"
ChainsTrackWork == NoKeyForgotten /\ NoKeyLeaked

(* Every task asked for is run, and settles by itself, whether those before*)
(* it for its key resolved or rejected (keyed-queue.ts:27-33).             *)
EveryTaskSettles ==
    \A t \in Tasks :
        /\ state[t] = "queued" ~> state[t] = "running"
        /\ state[t] = "running" ~> Settled(t)

===============================================================================
