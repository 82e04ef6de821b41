--------------------------- MODULE KeyedQueueProofs ---------------------------
(***************************************************************************)
(* Proofs about KeyedQueue, for any sets of keys and tasks.                *)
(*                                                                         *)
(* The code keeps no list of the tasks of a key: order is only in the      *)
(* promises, each task waiting for one tail.  The inductive invariant ties *)
(* that chain to the history of arrivals: each task waits for the one that *)
(* arrived before it, and the Map holds the last one until it is dropped.  *)
(***************************************************************************)
EXTENDS KeyedQueue, SequenceTheorems, TLAPS

Places(k) == 1 .. Len(arrivals[k])

(* The history is one: a task is in it once, for the key it was queued for,*)
(* and stays in it at least until it is dropped.                           *)
Recorded ==
    /\ \A k \in Keys : \A i \in Places(k) :
          /\ state[arrivals[k][i]] # "new"
          /\ key[arrivals[k][i]] = k
          /\ \A j \in Places(k) : arrivals[k][i] = arrivals[k][j] => i = j
    /\ \A t \in Tasks : state[t] \notin {"new", "dropped"} =>
          \E i \in Places(key[t]) : arrivals[key[t]][i] = t

(* A task waits for the one before it, unless that one was dropped first.  *)
Linked ==
    \A k \in Keys : \A i \in Places(k) :
        i > 1 => \/ prev[arrivals[k][i]] = arrivals[k][i - 1]
                 \/ Settled(arrivals[k][i - 1])

(* The Map holds the last task of a key until that task is dropped.        *)
HoldsLast ==
    \A k \in Keys :
        chains[k] = IF arrivals[k] # <<>> /\ state[arrivals[k][Len(arrivals[k])]] # "dropped"
                    THEN arrivals[k][Len(arrivals[k])] ELSE NoTask

IInv == TypeOK /\ Recorded /\ Linked /\ HoldsLast /\ OneAtATimeInOrder

-------------------------------------------------------------------------------
(* The arrivals of a key are tasks, and there is a last one if any.        *)
LEMMA ArrivalTypes ==
    ASSUME TypeOK, NEW k \in Keys
    PROVE  /\ arrivals[k] \in Seq(Tasks)
           /\ Len(arrivals[k]) \in Nat
           /\ \A i \in Places(k) : arrivals[k][i] \in Tasks
           /\ arrivals[k] # <<>> <=> Len(arrivals[k]) > 0
           /\ arrivals[k] # <<>> => Len(arrivals[k]) \in Places(k)
<1>1. arrivals[k] \in Seq(Tasks)
  BY DEF TypeOK
<1>2. Len(arrivals[k]) \in Nat /\ \A i \in Places(k) : arrivals[k][i] \in Tasks
  BY <1>1, ElementOfSeq, LenProperties DEF Places
<1>3. arrivals[k] # <<>> <=> Len(arrivals[k]) > 0
  BY <1>1, EmptySeq
<1> QED BY <1>1, <1>2, <1>3 DEF Places

(* Every variable keeps its type.                                          *)
LEMMA TypeStep == TypeOK /\ [Next]_queueVars => TypeOK'
<1> SUFFICES ASSUME TypeOK, [Next]_queueVars PROVE TypeOK'
  OBVIOUS
<1>1. ASSUME NEW t \in Tasks, NEW k \in Keys, Run(t, k) PROVE TypeOK'
  <2>1. Append(arrivals[k], t) \in Seq(Tasks)
    BY ArrivalTypes, AppendProperties
  <2>2. arrivals' \in [Keys -> Seq(Tasks)]
    BY <1>1, <2>1 DEF Run, TypeOK
  <2> QED BY <1>1, <2>2 DEF Run, TypeOK, States
<1>2. ASSUME NEW t \in Tasks, Begin(t) \/ \E how \in {"resolved", "rejected"} : Settle(t, how)
      PROVE  TypeOK'
  BY <1>2 DEF Begin, Settle, TypeOK, States
<1>3. ASSUME NEW t \in Tasks, Drop(t) PROVE TypeOK'
  BY <1>3 DEF Drop, TypeOK, States
<1>4. CASE UNCHANGED queueVars
  BY <1>4 DEF queueVars, TypeOK
<1> QED BY <1>1, <1>2, <1>3, <1>4 DEF Next

LEMMA InvInit == Init => IInv
<1> SUFFICES ASSUME Init PROVE IInv
  OBVIOUS
<1>1. TypeOK
  BY EmptySeq DEF Init, TypeOK, States
<1>2. \A k \in Keys : arrivals[k] = <<>> /\ Places(k) = {}
  <2>1. \A k \in Keys : arrivals[k] = <<>> /\ Len(arrivals[k]) = 0
    BY EmptySeq DEF Init
  <2>2. 1 .. 0 = {}
    OBVIOUS
  <2> QED BY <2>1, <2>2 DEF Places
<1>3. Recorded /\ Linked
  BY <1>2 DEF Init, Recorded, Linked
<1>4. HoldsLast
  BY <1>2 DEF Init, HoldsLast
<1>5. OneAtATimeInOrder
  BY <1>2 DEF OneAtATimeInOrder, Places
<1> QED BY <1>1, <1>3, <1>4, <1>5 DEF IInv

-------------------------------------------------------------------------------
(* Queueing a task appends it to the arrivals of its key and changes those *)
(* of no other key.                                                        *)
LEMMA RunAppends ==
    ASSUME IInv, NEW t \in Tasks, NEW k \in Keys, Run(t, k)
    PROVE  /\ Len(arrivals'[k]) = Len(arrivals[k]) + 1
           /\ arrivals'[k][Len(arrivals[k]) + 1] = t
           /\ \A i \in Places(k) : arrivals'[k][i] = arrivals[k][i]
           /\ \A l \in Keys \ {k} : arrivals'[l] = arrivals[l]
           /\ \A l \in Keys : \A i \in Places(l) : arrivals[l][i] \in Tasks \ {t}
<1>1. arrivals'[k] = Append(arrivals[k], t) /\ \A l \in Keys \ {k} : arrivals'[l] = arrivals[l]
  BY DEF Run, IInv, TypeOK
<1>2. \A l \in Keys : \A i \in Places(l) : arrivals[l][i] \in Tasks \ {t}
  BY ArrivalTypes DEF IInv, Recorded, Run
<1> QED BY <1>1, <1>2, ArrivalTypes, AppendProperties DEF IInv, Places

(* The invariant survives a task being queued: it waits for what the Map   *)
(* holds, which is the last task, unless that one is over.                 *)
LEMMA RunKeeps ==
    ASSUME IInv, TypeOK', NEW t \in Tasks, NEW k \in Keys, Run(t, k)
    PROVE  IInv'
<1> DEFINE n == Len(arrivals[k])
<1>1. /\ n \in Nat
      /\ \A l \in Keys : Len(arrivals[l]) \in Nat
      /\ arrivals[k] # <<>> <=> n > 0
      /\ arrivals'[k] # <<>>
  BY RunAppends, ArrivalTypes DEF IInv
<1>2. /\ Places(k)' = Places(k) \cup {n + 1}
      /\ n + 1 \notin Places(k)
      /\ \A l \in Keys \ {k} : Places(l)' = Places(l)
  BY <1>1, RunAppends DEF Places
<1>3. /\ state' = [state EXCEPT ![t] = "queued"]
      /\ key' = [key EXCEPT ![t] = k]
      /\ prev' = [prev EXCEPT ![t] = chains[k]]
      /\ chains' = [chains EXCEPT ![k] = t]
      /\ state[t] = "new"
  BY DEF Run
<1>4. /\ state'[t] = "queued" /\ key'[t] = k /\ prev'[t] = chains[k]
      /\ \A u \in Tasks \ {t} : state'[u] = state[u] /\ key'[u] = key[u] /\ prev'[u] = prev[u]
  BY <1>3 DEF IInv, TypeOK
<1>5. Recorded'
  <2>1. ASSUME NEW l \in Keys, NEW i \in Places(l)'
        PROVE  /\ state'[arrivals'[l][i]] # "new"
               /\ key'[arrivals'[l][i]] = l
               /\ \A j \in Places(l)' : arrivals'[l][i] = arrivals'[l][j] => i = j
    BY <1>2, <1>4, RunAppends DEF IInv, Recorded
  <2>2. ASSUME NEW u \in Tasks, state'[u] \notin {"new", "dropped"}
        PROVE  \E i \in Places(key[u])' : arrivals'[key'[u]][i] = u
    <3>1. CASE u = t
      BY <1>2, <1>4, <3>1, RunAppends
    <3>2. CASE u # t
      <4>1. state[u] \notin {"new", "dropped"} /\ key'[u] = key[u] /\ key[u] \in Keys
        BY <1>4, <2>2, <3>2 DEF IInv, TypeOK
      <4>2. PICK i \in Places(key[u]) : arrivals[key[u]][i] = u
        BY <4>1 DEF IInv, Recorded
      <4> QED BY <1>2, <4>1, <4>2, RunAppends
    <3> QED BY <3>1, <3>2
  <2> QED BY <2>1, <2>2 DEF Recorded
<1>6. Linked'
  <2> SUFFICES ASSUME NEW l \in Keys, NEW i \in Places(l)', i > 1
               PROVE  \/ prev'[arrivals'[l][i]] = arrivals'[l][i - 1]
                      \/ Settled(arrivals[l][i - 1])'
    BY DEF Linked
  <2>1. CASE l = k /\ i = n + 1
    <3>1. n \in Places(k) /\ arrivals'[k][n] = arrivals[k][n] /\ arrivals[k][n] \in Tasks \ {t}
      BY <1>1, <2>1, RunAppends DEF Places
    <3>2. chains[k] = arrivals[k][n] \/ state[arrivals[k][n]] = "dropped"
      BY <1>1, <2>1 DEF IInv, HoldsLast
    <3> QED BY <1>1, <1>4, <2>1, <3>1, <3>2, RunAppends DEF Settled
  <2>2. CASE ~(l = k /\ i = n + 1)
    <3>1. i \in Places(l) /\ i - 1 \in Places(l)
      BY <1>1, <1>2, <2>2 DEF Places
    <3>2. /\ arrivals'[l][i] = arrivals[l][i] /\ arrivals[l][i] \in Tasks \ {t}
          /\ arrivals'[l][i - 1] = arrivals[l][i - 1] /\ arrivals[l][i - 1] \in Tasks \ {t}
      BY <3>1, RunAppends
    <3> QED BY <1>4, <3>1, <3>2 DEF IInv, Linked, Settled
  <2> QED BY <2>1, <2>2
<1>7. HoldsLast'
  <2> SUFFICES ASSUME NEW l \in Keys
               PROVE  chains'[l] = IF /\ arrivals'[l] # <<>>
                                      /\ state'[arrivals'[l][Len(arrivals'[l])]] # "dropped"
                                   THEN arrivals'[l][Len(arrivals'[l])] ELSE NoTask
    BY DEF HoldsLast
  <2>1. CASE l = k
    BY <1>1, <1>3, <1>4, <2>1, RunAppends DEF IInv, TypeOK
  <2>2. CASE l # k
    <3>1. arrivals'[l] = arrivals[l] /\ chains'[l] = chains[l]
      BY <1>3, <2>2, RunAppends DEF IInv, TypeOK
    <3>2. arrivals[l] # <<>> => Len(arrivals[l]) \in Places(l)
      BY <1>1, ArrivalTypes DEF Places, IInv
    <3>3. arrivals[l] # <<>> => state'[arrivals[l][Len(arrivals[l])]] = state[arrivals[l][Len(arrivals[l])]]
      BY <1>4, <3>2, RunAppends
    <3> QED BY <3>1, <3>3 DEF IInv, HoldsLast
  <2> QED BY <2>1, <2>2
<1>8. OneAtATimeInOrder'
  <2> SUFFICES ASSUME NEW l \in Keys, NEW i \in Places(l)', NEW j \in Places(l)', i < j,
                      state'[arrivals'[l][j]] \notin {"new", "queued"}
               PROVE  Settled(arrivals[l][i])'
    BY DEF OneAtATimeInOrder, Places
  <2>1. ~(l = k /\ j = n + 1)
    BY <1>4, RunAppends
  <2>2. i \in Places(l) /\ j \in Places(l)
    BY <1>1, <1>2, <2>1 DEF Places
  <2>3. /\ arrivals'[l][i] = arrivals[l][i] /\ arrivals[l][i] \in Tasks \ {t}
        /\ arrivals'[l][j] = arrivals[l][j] /\ arrivals[l][j] \in Tasks \ {t}
    BY <2>2, RunAppends
  <2> QED BY <1>4, <2>2, <2>3 DEF IInv, OneAtATimeInOrder, Settled, Places
<1> QED BY <1>5, <1>6, <1>7, <1>8 DEF IInv

-------------------------------------------------------------------------------
(* A step that only moves one task on, never back to new, keeps the record *)
(* and the links, as long as a settled task stays settled.                 *)
LEMMA MoveKeeps ==
    ASSUME IInv, NEW t \in Tasks, NEW s \in States \ {"new"},
           state' = [state EXCEPT ![t] = s], state[t] \notin {"new", "dropped"},
           Settled(t) => s \in {"resolved", "rejected", "dropped"},
           UNCHANGED <<prev, key, arrivals>>
    PROVE  /\ Recorded' /\ Linked'
           /\ \A k \in Keys : Places(k)' = Places(k)
<1>1. \A u \in Tasks : state'[u] = IF u = t THEN s ELSE state[u]
  BY DEF IInv, TypeOK
<1>2. \A k \in Keys : Places(k)' = Places(k)
  BY DEF Places
<1>3. \A k \in Keys : \A i \in Places(k) : arrivals[k][i] \in Tasks
  BY ArrivalTypes DEF IInv
<1>4. Recorded'
  <2>1. \A u \in Tasks : key[u] \in Keys
    BY DEF IInv, TypeOK
  <2> QED BY <1>1, <1>2, <1>3, <2>1 DEF IInv, Recorded, Places
<1>5. Linked'
  <2> SUFFICES ASSUME NEW k \in Keys, NEW i \in Places(k), i > 1
               PROVE  \/ prev[arrivals[k][i]] = arrivals[k][i - 1]
                      \/ Settled(arrivals[k][i - 1])'
    BY <1>2 DEF Linked
  <2>1. i - 1 \in Places(k)
    BY ArrivalTypes DEF Places, IInv
  <2> QED BY <1>1, <1>3, <2>1 DEF IInv, Linked, Settled
<1> QED BY <1>2, <1>4, <1>5

(* The task a queued one waits for is the last of those before it to       *)
(* settle, so all of them have.                                            *)
LEMMA BeginKeeps ==
    ASSUME IInv, TypeOK', NEW t \in Tasks, Begin(t)
    PROVE  IInv'
<1>1. /\ state' = [state EXCEPT ![t] = "running"]
      /\ state[t] = "queued"
      /\ UNCHANGED <<chains, prev, key, arrivals>>
      /\ prev[t] # NoTask => Settled(prev[t])
  BY DEF Begin
<1>2. \A u \in Tasks : state'[u] = IF u = t THEN "running" ELSE state[u]
  BY <1>1 DEF IInv, TypeOK
<1>3. Recorded' /\ Linked' /\ \A k \in Keys : Places(k)' = Places(k)
  BY <1>1, MoveKeeps DEF Settled, States
<1>4. \A k \in Keys : /\ Len(arrivals[k]) \in Nat
                      /\ \A i \in Places(k) : arrivals[k][i] \in Tasks
                      /\ arrivals[k] # <<>> => Len(arrivals[k]) \in Places(k)
  BY ArrivalTypes DEF IInv, Places
<1>5. HoldsLast'
  BY <1>1, <1>2, <1>4 DEF IInv, HoldsLast
<1>6. OneAtATimeInOrder'
  <2> SUFFICES ASSUME NEW k \in Keys, NEW i \in Places(k), NEW j \in Places(k), i < j,
                      state'[arrivals[k][j]] \notin {"new", "queued"}
               PROVE  Settled(arrivals[k][i])'
    BY <1>1, <1>3 DEF OneAtATimeInOrder, Places
  <2>1. Settled(arrivals[k][i]) => Settled(arrivals[k][i])'
    BY <1>1, <1>2, <1>4 DEF Settled
  <2>2. CASE arrivals[k][j] # t
    BY <1>2, <1>4, <2>1, <2>2 DEF IInv, OneAtATimeInOrder, Places
  <2>3. CASE arrivals[k][j] = t
    <3>1. j - 1 \in Places(k) /\ j > 1 /\ i <= j - 1
      BY <1>4 DEF Places
    <3>2. Settled(arrivals[k][j - 1])
      <4>1. arrivals[k][j - 1] \in Tasks
        BY <1>4, <3>1
      <4> QED BY <1>1, <2>3, <3>1, <4>1, NoTaskAssumption DEF IInv, Linked
    <3>3. i < j - 1 => Settled(arrivals[k][i])
      BY <3>1, <3>2 DEF IInv, OneAtATimeInOrder, Settled, Places
    <3> QED BY <2>1, <3>1, <3>2, <3>3 DEF Places
  <2> QED BY <2>2, <2>3
<1> QED BY <1>3, <1>5, <1>6 DEF IInv

LEMMA SettleKeeps ==
    ASSUME IInv, TypeOK', NEW t \in Tasks, NEW how \in {"resolved", "rejected"}, Settle(t, how)
    PROVE  IInv'
<1>1. /\ state' = [state EXCEPT ![t] = how]
      /\ state[t] = "running"
      /\ UNCHANGED <<chains, prev, key, arrivals>>
  BY DEF Settle
<1>2. \A u \in Tasks : state'[u] = IF u = t THEN how ELSE state[u]
  BY <1>1 DEF IInv, TypeOK
<1>3. Recorded' /\ Linked' /\ \A k \in Keys : Places(k)' = Places(k)
  BY <1>1, MoveKeeps DEF Settled, States
<1>4. \A k \in Keys : /\ \A i \in Places(k) : arrivals[k][i] \in Tasks
                      /\ arrivals[k] # <<>> => Len(arrivals[k]) \in Places(k)
  BY ArrivalTypes DEF IInv, Places
<1>5. HoldsLast'
  BY <1>1, <1>2, <1>4 DEF IInv, HoldsLast
<1>6. OneAtATimeInOrder'
  BY <1>1, <1>2, <1>3, <1>4 DEF IInv, OneAtATimeInOrder, Settled, Places
<1> QED BY <1>3, <1>5, <1>6 DEF IInv

(* Only the last task of its key takes the entry with it.                  *)
LEMMA DropKeeps ==
    ASSUME IInv, TypeOK', NEW t \in Tasks, Drop(t)
    PROVE  IInv'
<1>1. /\ state' = [state EXCEPT ![t] = "dropped"]
      /\ state[t] \in {"resolved", "rejected"}
      /\ chains' = [chains EXCEPT ![key[t]] = IF @ = t THEN NoTask ELSE @]
      /\ UNCHANGED <<prev, key, arrivals>>
  BY DEF Drop
<1>2. \A u \in Tasks : state'[u] = IF u = t THEN "dropped" ELSE state[u]
  BY <1>1 DEF IInv, TypeOK
<1>3. Recorded' /\ Linked' /\ \A k \in Keys : Places(k)' = Places(k)
  BY <1>1, MoveKeeps DEF Settled, States
<1>4. \A k \in Keys : /\ \A i \in Places(k) : arrivals[k][i] \in Tasks
                      /\ arrivals[k] # <<>> => Len(arrivals[k]) \in Places(k)
  BY ArrivalTypes DEF IInv, Places
<1>5. HoldsLast'
  <2> SUFFICES ASSUME NEW k \in Keys
               PROVE  chains'[k] = IF /\ arrivals[k] # <<>>
                                      /\ state'[arrivals[k][Len(arrivals[k])]] # "dropped"
                                   THEN arrivals[k][Len(arrivals[k])] ELSE NoTask
    BY <1>1 DEF HoldsLast
  <2>1. chains'[k] = IF k = key[t] /\ chains[k] = t THEN NoTask ELSE chains[k]
    BY <1>1 DEF IInv, TypeOK
  <2>2. chains[k] = t => k = key[t]
    BY <1>4, NoTaskAssumption DEF IInv, HoldsLast, Recorded
  <2>3. CASE arrivals[k] = <<>>
    BY <2>1, <2>3, NoTaskAssumption DEF IInv, HoldsLast
  <2>4. CASE arrivals[k] # <<>>
    <3> DEFINE last == arrivals[k][Len(arrivals[k])]
    <3>1. last \in Tasks /\ last # NoTask
      BY <1>4, <2>4, NoTaskAssumption
    <3>2. chains[k] = IF state[last] # "dropped" THEN last ELSE NoTask
      BY <2>4 DEF IInv, HoldsLast
    <3>3. state'[last] = IF last = t THEN "dropped" ELSE state[last]
      BY <1>2, <3>1
    <3> HIDE DEF last
    <3>4. chains'[k] = IF state'[last] # "dropped" THEN last ELSE NoTask
      BY <1>1, <2>1, <2>2, <3>1, <3>2, <3>3, NoTaskAssumption
    <3> QED BY <2>4, <3>4 DEF last
  <2> QED BY <2>3, <2>4
<1>6. OneAtATimeInOrder'
  BY <1>1, <1>2, <1>3, <1>4 DEF IInv, OneAtATimeInOrder, Settled, Places
<1> QED BY <1>3, <1>5, <1>6 DEF IInv

LEMMA InvStep == IInv /\ [Next]_queueVars => IInv'
<1> SUFFICES ASSUME IInv, [Next]_queueVars PROVE IInv'
  OBVIOUS
<1>1. TypeOK'
  BY TypeStep DEF IInv
<1>2. CASE UNCHANGED queueVars
  BY <1>2 DEF queueVars, IInv, TypeOK, Recorded, Linked, HoldsLast, OneAtATimeInOrder,
              Settled, Places
<1> QED BY <1>1, <1>2, RunKeeps, BeginKeeps, SettleKeeps, DropKeeps DEF Next

-------------------------------------------------------------------------------
(* The inductive invariant holds of every behaviour of the queue.          *)
THEOREM Invariance == Spec => []IInv
BY InvInit, InvStep, PTL DEF Spec

(* Every variable keeps its type (keyed-queue.ts).                         *)
THEOREM TypeCorrect == Spec => []TypeOK
<1>1. IInv => TypeOK
  BY DEF IInv
<1> QED BY <1>1, Invariance, PTL

(* For any number of keys and of tasks, a task only starts once every task *)
(* queued for its key before it has settled, though it only waits for one  *)
(* of them (keyed-queue.ts:26-32).                                         *)
THEOREM QueueOrder == Spec => []OneAtATimeInOrder
<1>1. IInv => OneAtATimeInOrder
  BY DEF IInv
<1> QED BY <1>1, Invariance, PTL

(* What the invariant says of the Map: the entry of a key with work in     *)
(* flight is there, since the last task of that key is not over.           *)
LEMMA InvTracksWork == IInv => ChainsTrackWork
<1> SUFFICES ASSUME IInv PROVE ChainsTrackWork
  OBVIOUS
<1>1. \A k \in Keys : /\ \A i \in Places(k) : arrivals[k][i] \in Tasks
                      /\ arrivals[k] # <<>> => Len(arrivals[k]) \in Places(k)
  BY ArrivalTypes DEF IInv, Places
<1>2. NoKeyForgotten
  <2> SUFFICES ASSUME NEW t \in Tasks, state[t] \in {"queued", "running"},
                      chains[key[t]] = NoTask
               PROVE  FALSE
    BY DEF NoKeyForgotten
  <2> DEFINE k == key[t]
             n == Len(arrivals[k])
  <2>1. k \in Keys
    BY DEF IInv, TypeOK
  <2>2. PICK i \in Places(k) : arrivals[k][i] = t
    BY DEF IInv, Recorded
  <2>3. n \in Places(k) /\ n \in Nat /\ arrivals[k] # <<>> /\ i <= n
    BY <2>1, <2>2, ArrivalTypes DEF IInv, Places
  <2>4. state[arrivals[k][n]] = "dropped"
    BY <1>1, <2>1, <2>3, NoTaskAssumption DEF IInv, HoldsLast
  <2>5. i < n => Settled(t)
    BY <2>1, <2>2, <2>3, <2>4 DEF IInv, OneAtATimeInOrder, Places
  <2> QED BY <2>2, <2>3, <2>4, <2>5 DEF Settled, Places
<1>3. NoKeyLeaked
  BY <1>1 DEF IInv, HoldsLast, NoKeyLeaked
<1> QED BY <1>2, <1>3 DEF ChainsTrackWork

(* The Map holds a key exactly while there is work for it: no task in      *)
(* flight is forgotten by a task that ends, and no key of finished work    *)
(* stays (keyed-queue.ts:40-46).                                           *)
THEOREM QueueTracksWork == Spec => []ChainsTrackWork
BY Invariance, InvTracksWork, PTL

===============================================================================
