------------------------ MODULE JsonSettingsStoreProofs ------------------------
(***************************************************************************)
(* Proofs about JsonSettingsStore, for any record keys and any mutations:  *)
(* that it implements the port's store, and what a drain reports.          *)
(*                                                                         *)
(* The inductive invariant has three parts.  The file's queue keeps its    *)
(* own, which a crash restores by forgetting everyone.  So one task at a   *)
(* time stands between its load and its rename: what it loaded is still    *)
(* what the file holds, and what it filled the temporary file with is that *)
(* and its own record.  And what drain has already heard of is settled and *)
(* out of pending, so its verdict cannot change any more.                  *)
(***************************************************************************)
EXTENDS JsonSettingsStore, SequenceTheorems, TLAPS

FileQueue == INSTANCE KeyedQueueProofs
                WITH Keys <- {FILE_QUEUE_KEY}, Tasks <- Mutations, NoTask <- NoMutation

Files == [RecordKeys -> [revision : Nat, by : Mutations \cup {"nobody", "half a file"}]]
Calls == [kind : {"write", "delete"}, key : RecordKeys, expected : Nat]
Outcomes == {"none", "conflict", "failed", "saved"}

TypeOK ==
    /\ file \in Files /\ temporary \in Files
    /\ snapshot \in [Mutations -> Files]
    /\ call \in [Mutations -> Calls \cup {NoCall}]
    /\ step \in [Mutations -> {"idle", "load", "mkdir", "write", "rename"}]
    /\ outcome \in [Mutations -> Outcomes]
    /\ pending \subseteq Mutations
    /\ drain \in [pc : {"idle", "waiting", "done"}, awaited : SUBSET Mutations,
                  asked : SUBSET Mutations, failures : SUBSET Mutations]

(* A task is at a step exactly while its queue runs it, with its arguments.*)
AtAStep ==
    \A m \in Mutations :
        /\ step[m] # "idle" <=> state[m] = "running"
        /\ state[m] \in {"queued", "running"} => call[m] \in Calls

(* What a task loaded, and found at the revision it expects, still is so.  *)
Current ==
    \A m \in Mutations : step[m] \in {"mkdir", "write", "rename"} =>
        /\ snapshot[m] = file
        /\ call[m].kind = "write" => file[call[m].key].revision = call[m].expected

(* The temporary file about to be renamed is the one the task filled.      *)
Filled == \A m \in Mutations : step[m] = "rename" => temporary = Saved(m)

(* No call in flight is missing from pending.                              *)
Tracked ==
    \A m \in Mutations :
        /\ state[m] \in {"queued", "running"} => m \in pending
        /\ m \in pending => state[m] # "new"

(* A drain that waits has told the failures of all it asked for and does   *)
(* not await any more, and those have left pending.                        *)
Told ==
    drain.pc = "waiting" =>
        /\ drain.awaited \subseteq drain.asked
        /\ \A m \in drain.asked : state[m] # "new"
        /\ \A m \in drain.asked \ drain.awaited : m \notin pending
        /\ drain.failures = {m \in drain.asked \ drain.awaited : Rejected(m)}

IInv == FileQueue!IInv /\ TypeOK /\ AtAStep /\ Current /\ Filled /\ Tracked /\ Told

-------------------------------------------------------------------------------
(* The queue of the file: every step but a crash is a step of it or none,  *)
(* and a crash leaves it without anyone queued.                            *)
LEMMA QueueStep == FileQueue!IInv /\ [Next]_vars => FileQueue!IInv'
<1> SUFFICES ASSUME FileQueue!IInv, [Next]_vars PROVE FileQueue!IInv'
  OBVIOUS
<1>1. CASE Crash
  <2>1. /\ chains' = [k \in {FILE_QUEUE_KEY} |-> NoMutation]
        /\ prev' = [m \in Mutations |-> NoMutation]
        /\ arrivals' = [k \in {FILE_QUEUE_KEY} |-> <<>>]
        /\ state' = [m \in Mutations |-> IF state[m] = "new" THEN "new" ELSE "dropped"]
        /\ key' = key
    BY <1>1 DEF Crash
  <2>2. \A k \in {FILE_QUEUE_KEY} : arrivals'[k] = <<>> /\ FileQueue!Places(k)' = {}
    <3>1. \A k \in {FILE_QUEUE_KEY} : arrivals'[k] = <<>> /\ Len(arrivals'[k]) = 0
      BY <2>1, EmptySeq
    <3>2. 1 .. 0 = {}
      OBVIOUS
    <3> QED BY <3>1, <3>2 DEF FileQueue!Places
  <2>3. FileQueue!TypeOK'
    BY <2>1, EmptySeq DEF FileQueue!IInv, FileQueue!TypeOK, FileQueue!States
  <2>4. FileQueue!Recorded'
    BY <2>1, <2>2 DEF FileQueue!Recorded
  <2>5. FileQueue!Linked'
    BY <2>2 DEF FileQueue!Linked
  <2>6. FileQueue!HoldsLast'
    BY <2>1, <2>2 DEF FileQueue!HoldsLast
  <2>7. FileQueue!OneAtATimeInOrder'
    BY <2>2 DEF FileQueue!OneAtATimeInOrder, FileQueue!Places
  <2> QED BY <2>3, <2>4, <2>5, <2>6, <2>7 DEF FileQueue!IInv
<1>2. CASE ~Crash
  <2>1. ASSUME NEW m \in Mutations, NEW kind \in {"write", "delete"}, NEW k \in RecordKeys,
               NEW expected \in 0 .. MaxExpected, Call(m, kind, k, expected)
        PROVE  FileQueue!Next
    BY <2>1 DEF Call, Queue!Run, FileQueue!Next, FileQueue!Run
  <2>2. ASSUME NEW m \in Mutations, Start(m) PROVE FileQueue!Next
    BY <2>2 DEF Start, Queue!Begin, Queue!Settled, FileQueue!Next, FileQueue!Begin, FileQueue!Settled
  <2>3. ASSUME NEW m \in Mutations, Conflict(m) \/ Rename(m) \/ Fail(m) PROVE FileQueue!Next
    <3>1. PICK how \in {"resolved", "rejected"} : Queue!Settle(m, how)
      BY <2>3 DEF Conflict, Rename, Fail, Finish
    <3> QED BY <3>1 DEF Queue!Settle, FileQueue!Next, FileQueue!Settle
  <2>4. ASSUME NEW m \in Mutations, Leave(m) PROVE FileQueue!Next
    BY <2>4 DEF Leave, Queue!Drop, FileQueue!Next, FileQueue!Drop
  <2>5. ASSUME NEW m \in Mutations, Load(m) \/ BeginSave(m) \/ EndSave(m) \/ Untrack(m)
        PROVE  UNCHANGED queueVars
    BY <2>5 DEF Load, BeginSave, EndSave, Untrack
  <2>6. ASSUME Drain \/ DrainResumes \/ UNCHANGED vars PROVE UNCHANGED queueVars
    BY <2>6 DEF Drain, DrainResumes, vars, queueVars
  <2>7. FileQueue!Next \/ UNCHANGED queueVars
    BY <1>2, <2>1, <2>2, <2>3, <2>4, <2>5, <2>6 DEF Next, Task
  <2>8. [FileQueue!Next]_FileQueue!queueVars
    BY <2>7 DEF queueVars, FileQueue!queueVars
  <2> QED BY <2>8, FileQueue!InvStep, NoMutationAssumption
<1> QED BY <1>1, <1>2

(* Of the tasks of the one file, one runs at a time.                       *)
LEMMA OneRuns ==
    ASSUME FileQueue!IInv, NEW m \in Mutations, NEW n \in Mutations,
           state[m] = "running", state[n] = "running"
    PROVE  m = n
<1> DEFINE queue == arrivals[FILE_QUEUE_KEY]
<1>1. key[m] = FILE_QUEUE_KEY /\ key[n] = FILE_QUEUE_KEY
  BY DEF FileQueue!IInv, FileQueue!TypeOK
<1>2. PICK i \in FileQueue!Places(FILE_QUEUE_KEY) : queue[i] = m
  BY <1>1 DEF FileQueue!IInv, FileQueue!Recorded
<1>3. PICK j \in FileQueue!Places(FILE_QUEUE_KEY) : queue[j] = n
  BY <1>1 DEF FileQueue!IInv, FileQueue!Recorded
<1>4. ~(i < j) /\ ~(j < i)
  BY <1>2, <1>3 DEF FileQueue!IInv, FileQueue!OneAtATimeInOrder, FileQueue!Settled, FileQueue!Places
<1>5. i = j
  BY <1>4 DEF FileQueue!Places
<1> QED BY <1>2, <1>3, <1>5

-------------------------------------------------------------------------------
(* What a task saves is a whole file.                                      *)
LEMMA SavedType ==
    ASSUME TypeOK, NEW m \in Mutations, call[m] \in Calls
    PROVE  Saved(m) \in Files
<1>1. Port!Absent \in [revision : Nat, by : Mutations \cup {"nobody", "half a file"}]
  BY DEF Port!Absent
<1>2. [revision |-> call[m].expected + 1, by |-> m] \in [revision : Nat, by : Mutations \cup {"nobody", "half a file"}]
  <2>1. call[m].expected \in Nat
    BY DEF Calls
  <2>2. \A n \in Nat : n + 1 \in Nat
    OBVIOUS
  <2>3. call[m].expected + 1 \in Nat
    BY <2>1, <2>2
  <2> QED BY <2>3
<1>3. snapshot[m] \in Files
  BY DEF TypeOK
<1> QED BY <1>1, <1>2, <1>3 DEF Saved, Files

LEMMA EmptyType == Empty \in Files /\ HalfAFile \in Files
BY DEF Empty, HalfAFile, Files, Port!Absent

(* Every variable keeps its type.                                          *)
LEMMA TypeStep == TypeOK /\ AtAStep /\ FileQueue!TypeOK /\ [Next]_vars => TypeOK'
<1> SUFFICES ASSUME TypeOK, AtAStep, FileQueue!TypeOK, [Next]_vars PROVE TypeOK'
  OBVIOUS
<1>1. ASSUME NEW m \in Mutations, NEW kind \in {"write", "delete"}, NEW k \in RecordKeys,
             NEW expected \in 0 .. MaxExpected, Call(m, kind, k, expected)
      PROVE  TypeOK'
  <2>1. [kind |-> kind, key |-> k, expected |-> expected] \in Calls
    <3>1. expected \in Nat
      OBVIOUS
    <3> QED BY <3>1 DEF Calls
  <2> QED BY <1>1, <2>1 DEF Call, TypeOK
<1>2. ASSUME NEW m \in Mutations, Start(m) \/ Load(m) \/ Leave(m) \/ Untrack(m)
      PROVE  TypeOK'
  BY <1>2 DEF Start, Load, Leave, Untrack, TypeOK
<1>3. ASSUME NEW m \in Mutations, NEW result \in Outcomes, Finish(m, result),
             file' \in Files, UNCHANGED <<temporary, pending, drain>>
      PROVE  TypeOK'
  BY <1>3, EmptyType DEF Finish, TypeOK
<1>4. ASSUME NEW m \in Mutations, Conflict(m) \/ Rename(m) \/ Fail(m) PROVE TypeOK'
  <2>1. file' \in Files /\ UNCHANGED <<temporary, pending, drain>>
    BY <1>4 DEF Conflict, Rename, Fail, TypeOK
  <2> QED BY <1>3, <1>4, <2>1 DEF Conflict, Rename, Fail, Outcomes
<1>5. ASSUME NEW m \in Mutations, BeginSave(m) PROVE TypeOK'
  BY <1>5, EmptyType DEF BeginSave, TypeOK
<1>6. ASSUME NEW m \in Mutations, EndSave(m) PROVE TypeOK'
  <2>1. Saved(m) \in Files
    BY <1>6, SavedType DEF EndSave, AtAStep
  <2> QED BY <1>6, <2>1 DEF EndSave, TypeOK
<1>7. CASE Drain \/ DrainResumes
  <2> DEFINE Drains == [pc : {"idle", "waiting", "done"}, awaited : SUBSET Mutations,
                        asked : SUBSET Mutations, failures : SUBSET Mutations]
  <2>1. drain \in Drains /\ pending \in SUBSET Mutations
    BY DEF TypeOK
  <2>2. Drain => drain' \in Drains
    BY <2>1 DEF Drain
  <2>3. ASSUME DrainResumes PROVE drain' \in Drains
    <3>1. PICK failures : failures = drain.failures \cup {m \in drain.awaited : Rejected(m)}
      OBVIOUS
    <3>2. failures \in SUBSET Mutations
      BY <2>1, <3>1
    <3>3. drain' = [drain EXCEPT !.pc = IF pending = {} THEN "done" ELSE "waiting",
                        !.awaited = pending,
                        !.asked = IF pending = {} THEN {} ELSE @ \cup pending,
                        !.failures = failures]
      BY <2>3, <3>1 DEF DrainResumes
    <3> QED BY <2>1, <3>2, <3>3
  <2> QED BY <1>7, <2>2, <2>3 DEF Drain, DrainResumes, TypeOK
<1>8. CASE Crash
  BY <1>8, EmptyType DEF Crash, TypeOK, NoDrain, Outcomes
<1>9. CASE UNCHANGED vars
  BY <1>9 DEF vars, TypeOK
<1> QED BY <1>1, <1>2, <1>4, <1>5, <1>6, <1>7, <1>8, <1>9 DEF Next, Task

LEMMA InvInit == Init => IInv
<1> SUFFICES ASSUME Init PROVE IInv
  OBVIOUS
<1>1. FileQueue!IInv
  <2>1. FileQueue!Init
    BY DEF Init, Queue!Init, FileQueue!Init
  <2> QED BY <2>1, FileQueue!InvInit, NoMutationAssumption
<1>2. TypeOK
  BY EmptyType DEF Init, TypeOK, NoDrain, Outcomes
<1>3. state = [m \in Mutations |-> "new"]
  BY DEF Init, Queue!Init
<1>4. AtAStep /\ Current /\ Filled /\ Tracked /\ Told
  BY <1>3 DEF Init, AtAStep, Current, Filled, Tracked, Told, NoDrain
<1> QED BY <1>1, <1>2, <1>4 DEF IInv

-------------------------------------------------------------------------------
(* Where the tasks stand after a step: one more call is queued, one task   *)
(* starts, one ends, or a task that was settled is let go of.              *)
LEMMA AtAStepStep == IInv /\ [Next]_vars => AtAStep'
<1> SUFFICES ASSUME IInv, [Next]_vars PROVE AtAStep'
  OBVIOUS
<1>0. /\ state \in [Mutations -> FileQueue!States]
      /\ step \in [Mutations -> {"idle", "load", "mkdir", "write", "rename"}]
      /\ call \in [Mutations -> Calls \cup {NoCall}]
  BY DEF IInv, FileQueue!IInv, FileQueue!TypeOK, TypeOK
<1>1. ASSUME NEW m \in Mutations, NEW kind \in {"write", "delete"}, NEW k \in RecordKeys,
             NEW expected \in 0 .. MaxExpected, Call(m, kind, k, expected)
      PROVE  AtAStep'
  <2>1. expected \in Nat
    OBVIOUS
  <2>2. [kind |-> kind, key |-> k, expected |-> expected] \in Calls
    BY <2>1 DEF Calls
  <2>3. state' = [state EXCEPT ![m] = "queued"] /\ state[m] = "new" /\ step' = step
    BY <1>1 DEF Call, Queue!Run
  <2>4. call' = [call EXCEPT ![m] = [kind |-> kind, key |-> k, expected |-> expected]]
    BY <1>1 DEF Call
  <2> QED BY <1>0, <2>2, <2>3, <2>4 DEF IInv, AtAStep
<1>2. ASSUME NEW m \in Mutations, Start(m) PROVE AtAStep'
  BY <1>0, <1>2 DEF Start, Queue!Begin, IInv, AtAStep
<1>3. ASSUME NEW m \in Mutations, Load(m) \/ BeginSave(m) \/ EndSave(m) PROVE AtAStep'
  BY <1>0, <1>3 DEF Load, BeginSave, EndSave, queueVars, IInv, AtAStep
<1>4. ASSUME NEW m \in Mutations, Conflict(m) \/ Rename(m) \/ Fail(m) PROVE AtAStep'
  <2>1. PICK how \in {"resolved", "rejected"} :
           /\ state' = [state EXCEPT ![m] = how]
           /\ step' = [step EXCEPT ![m] = "idle"]
           /\ call' = [call EXCEPT ![m] = NoCall]
    BY <1>4 DEF Conflict, Rename, Fail, Finish, Queue!Settle
  <2> QED BY <1>0, <2>1 DEF IInv, AtAStep
<1>5. ASSUME NEW m \in Mutations, Leave(m) PROVE AtAStep'
  BY <1>0, <1>5 DEF Leave, Queue!Drop, IInv, AtAStep
<1>6. ASSUME \/ \E m \in Mutations : Untrack(m)
             \/ Drain \/ DrainResumes \/ UNCHANGED vars
      PROVE  AtAStep'
  <2>1. UNCHANGED <<state, step, call>>
    BY <1>6 DEF Untrack, Drain, DrainResumes, vars, queueVars
  <2> QED BY <2>1 DEF IInv, AtAStep
<1>7. CASE Crash
  BY <1>7 DEF Crash, AtAStep
<1> QED BY <1>1, <1>2, <1>3, <1>4, <1>5, <1>6, <1>7 DEF Next, Task

(* A task at a step is the only one, so nobody else's step changes what it *)
(* loaded or filled.                                                       *)
LEMMA OneAtAStep ==
    ASSUME IInv, NEW m \in Mutations, step[m] # "idle"
    PROVE  \A n \in Mutations \ {m} : step[n] = "idle"
<1> SUFFICES ASSUME NEW n \in Mutations \ {m}, step[n] # "idle" PROVE FALSE
  OBVIOUS
<1>1. state[m] = "running" /\ state[n] = "running"
  BY DEF IInv, AtAStep
<1> QED BY <1>1, OneRuns DEF IInv

LEMMA WorkStep == IInv /\ [Next]_vars => Current' /\ Filled'
<1> SUFFICES ASSUME IInv, [Next]_vars PROVE Current' /\ Filled'
  OBVIOUS
<1>0. /\ step \in [Mutations -> {"idle", "load", "mkdir", "write", "rename"}]
      /\ call \in [Mutations -> Calls \cup {NoCall}]
      /\ snapshot \in [Mutations -> Files]
  BY DEF IInv, TypeOK
<1>1. ASSUME NEW m \in Mutations, NEW kind \in {"write", "delete"}, NEW k \in RecordKeys,
             NEW expected \in 0 .. MaxExpected, Call(m, kind, k, expected)
      PROVE  Current' /\ Filled'
  <2>1. \A n \in Mutations : step[n] # "idle" => call'[n] = call[n]
    BY <1>0, <1>1 DEF Call, Queue!Run, IInv, AtAStep
  <2>2. UNCHANGED <<file, temporary, step, snapshot>>
    BY <1>1 DEF Call
  <2> QED BY <2>1, <2>2 DEF IInv, Current, Filled, Saved
<1>2. ASSUME NEW m \in Mutations, Start(m) PROVE Current' /\ Filled'
  BY <1>0, <1>2 DEF Start, IInv, Current, Filled, Saved
<1>3. ASSUME NEW m \in Mutations, Load(m) PROVE Current' /\ Filled'
  BY <1>0, <1>3 DEF Load, IInv, Current, Filled, Saved, AtAStep, Calls, NoCall
<1>4. ASSUME NEW m \in Mutations, Conflict(m) \/ Rename(m) \/ Fail(m) PROVE Current' /\ Filled'
  <2>1. step' = [step EXCEPT ![m] = "idle"] /\ step[m] # "idle"
    BY <1>4 DEF Conflict, Rename, Fail, Finish
  <2>2. \A n \in Mutations : step'[n] = "idle"
    BY <1>0, <2>1, OneAtAStep
  <2> QED BY <2>2 DEF Current, Filled
<1>5. ASSUME NEW m \in Mutations, BeginSave(m) \/ EndSave(m) PROVE Current' /\ Filled'
  <2>1. \A n \in Mutations \ {m} : step[n] = "idle" /\ step'[n] = "idle"
    BY <1>0, <1>5, OneAtAStep DEF BeginSave, EndSave
  <2>2. UNCHANGED <<file, call, snapshot>> /\ step[m] \in {"mkdir", "write", "rename"}
    BY <1>5 DEF BeginSave, EndSave
  <2>3. step'[m] = "rename" => temporary' = Saved(m)
    BY <1>0, <1>5 DEF BeginSave, EndSave
  <2> QED BY <2>1, <2>2, <2>3 DEF IInv, Current, Filled, Saved
<1>6. ASSUME \/ \E m \in Mutations : Leave(m) \/ Untrack(m)
             \/ Drain \/ DrainResumes \/ UNCHANGED vars
      PROVE  Current' /\ Filled'
  <2>1. UNCHANGED <<file, temporary, step, call, snapshot>>
    BY <1>6 DEF Leave, Untrack, Drain, DrainResumes, vars
  <2> QED BY <2>1 DEF IInv, Current, Filled, Saved
<1>7. CASE Crash
  BY <1>7 DEF Crash, Current, Filled
<1> QED BY <1>1, <1>2, <1>3, <1>4, <1>5, <1>6, <1>7 DEF Next, Task

-------------------------------------------------------------------------------
(* What drain relies on: a call is in pending from the moment it is made   *)
(* until it has settled, and never comes back.                             *)
LEMMA TrackedStep == IInv /\ [Next]_vars => Tracked'
<1> SUFFICES ASSUME IInv, [Next]_vars PROVE Tracked'
  OBVIOUS
<1>0. state \in [Mutations -> FileQueue!States]
  BY DEF IInv, FileQueue!IInv, FileQueue!TypeOK
<1>1. ASSUME NEW m \in Mutations, NEW kind \in {"write", "delete"}, NEW k \in RecordKeys,
             NEW expected \in 0 .. MaxExpected, Call(m, kind, k, expected)
      PROVE  Tracked'
  BY <1>0, <1>1 DEF Call, Queue!Run, IInv, Tracked
<1>2. ASSUME NEW m \in Mutations, Start(m) \/ Leave(m) PROVE Tracked'
  BY <1>0, <1>2 DEF Start, Queue!Begin, Leave, Queue!Drop, IInv, Tracked
<1>3. ASSUME NEW m \in Mutations, Conflict(m) \/ Rename(m) \/ Fail(m) PROVE Tracked'
  BY <1>0, <1>3 DEF Conflict, Rename, Fail, Finish, Queue!Settle, IInv, Tracked
<1>4. ASSUME NEW m \in Mutations, Untrack(m) PROVE Tracked'
  BY <1>0, <1>4 DEF Untrack, Settled, Queue!Settled, queueVars, IInv, Tracked
<1>5. ASSUME \/ \E m \in Mutations : Load(m) \/ BeginSave(m) \/ EndSave(m)
             \/ Drain \/ DrainResumes \/ UNCHANGED vars
      PROVE  Tracked'
  <2>1. UNCHANGED <<state, pending>>
    BY <1>5 DEF Load, BeginSave, EndSave, Drain, DrainResumes, queueVars, vars
  <2> QED BY <2>1 DEF IInv, Tracked
<1>6. CASE Crash
  BY <1>6 DEF Crash, Tracked
<1> QED BY <1>1, <1>2, <1>3, <1>4, <1>5, <1>6 DEF Next, Task

(* Whether an awaited call was rejected is settled once it is told.        *)
LEMMA ToldStep == IInv /\ [Next]_vars => Told'
<1> SUFFICES ASSUME IInv, [Next]_vars, drain'.pc = "waiting" PROVE Told'
  BY DEF Told
<1>0. /\ state \in [Mutations -> FileQueue!States]
      /\ outcome \in [Mutations -> Outcomes]
      /\ pending \in SUBSET Mutations
      /\ drain.awaited \in SUBSET Mutations /\ drain.asked \in SUBSET Mutations
      /\ drain \in [pc : {"idle", "waiting", "done"}, awaited : SUBSET Mutations,
                    asked : SUBSET Mutations, failures : SUBSET Mutations]
  BY DEF IInv, FileQueue!IInv, FileQueue!TypeOK, TypeOK
<1>1. ASSUME drain' = drain,
             \A n \in Mutations : state[n] # "new" => state'[n] # "new" /\ (n \in pending' => n \in pending),
             \A n \in drain.asked \ drain.awaited : Rejected(n)' <=> Rejected(n)
      PROVE  Told'
  BY <1>0, <1>1 DEF IInv, Told
<1>2. ASSUME NEW m \in Mutations, NEW kind \in {"write", "delete"}, NEW k \in RecordKeys,
             NEW expected \in 0 .. MaxExpected, Call(m, kind, k, expected)
      PROVE  Told'
  BY <1>0, <1>1, <1>2 DEF Call, Queue!Run, Rejected
<1>3. ASSUME NEW m \in Mutations, Start(m) \/ Leave(m) PROVE Told'
  BY <1>0, <1>1, <1>3 DEF Start, Queue!Begin, Leave, Queue!Drop, Rejected
<1>4. ASSUME NEW m \in Mutations, Conflict(m) \/ Rename(m) \/ Fail(m) PROVE Told'
  <2>1. PICK result : Finish(m, result)
    BY <1>4 DEF Conflict, Rename, Fail
  <2>2. /\ \E how \in {"resolved", "rejected"} : state' = [state EXCEPT ![m] = how]
        /\ state[m] = "running"
        /\ outcome' = [outcome EXCEPT ![m] = result]
        /\ UNCHANGED <<pending, drain>>
    BY <1>4, <2>1 DEF Finish, Queue!Settle, Conflict, Rename, Fail
  <2>3. m \notin drain.asked \ drain.awaited
    BY <2>2 DEF IInv, Told, Tracked
  <2>4. \A n \in drain.asked \ drain.awaited : Rejected(n)' <=> Rejected(n)
    BY <1>0, <2>2, <2>3 DEF Rejected
  <2> QED BY <1>0, <1>1, <2>2, <2>4
<1>5. ASSUME NEW m \in Mutations, Untrack(m) PROVE Told'
  BY <1>0, <1>1, <1>5 DEF Untrack, queueVars, Rejected
<1>6. ASSUME \/ \E m \in Mutations : Load(m) \/ BeginSave(m) \/ EndSave(m)
             \/ UNCHANGED vars
      PROVE  Told'
  <2>1. UNCHANGED <<state, outcome, pending, drain>>
    BY <1>6 DEF Load, BeginSave, EndSave, queueVars, vars
  <2> QED BY <1>1, <2>1 DEF Rejected
<1>7. CASE Drain
  <2>1. /\ UNCHANGED <<state, outcome, pending>>
        /\ drain'.awaited = pending /\ drain'.asked = pending /\ drain'.failures = {}
    BY <1>7 DEF Drain, queueVars
  <2> QED BY <1>0, <2>1 DEF IInv, Tracked, Told
<1>8. CASE DrainResumes
  <2>1. /\ UNCHANGED <<state, outcome, pending>>
        /\ drain.pc = "waiting" /\ drain.awaited \cap pending = {}
    BY <1>8 DEF DrainResumes, queueVars
  <2>2. pending # {}
    BY <1>0, <1>8 DEF DrainResumes
  <2>3. /\ drain'.awaited = pending
        /\ drain'.asked = drain.asked \cup pending
        /\ drain'.failures = drain.failures \cup {n \in drain.awaited : Rejected(n)}
    BY <1>0, <1>8, <2>2 DEF DrainResumes
  <2>4. \A n \in drain.asked : n \notin pending
    BY <2>1 DEF IInv, Told
  <2>5. drain'.failures = {n \in drain.asked : Rejected(n)}
    BY <2>1, <2>3 DEF IInv, Told
  <2>6. drain'.asked \ drain'.awaited = drain.asked
    BY <2>3, <2>4
  <2>7. \A n \in Mutations : Rejected(n)' <=> Rejected(n)
    BY <2>1 DEF Rejected
  <2>8. drain'.failures = {n \in drain'.asked \ drain'.awaited : Rejected(n)'}
    BY <1>0, <2>5, <2>6, <2>7
  <2>9. \A n \in drain'.asked : state'[n] # "new"
    BY <1>0, <2>1, <2>3 DEF IInv, Told, Tracked
  <2> QED BY <2>1, <2>3, <2>4, <2>6, <2>8, <2>9 DEF Told
<1>9. CASE Crash
  BY <1>9 DEF Crash, NoDrain
<1> QED BY <1>2, <1>3, <1>4, <1>5, <1>6, <1>7, <1>8, <1>9 DEF Next, Task

LEMMA InvStep == IInv /\ [Next]_vars => IInv'
<1>1. IInv => TypeOK /\ AtAStep /\ FileQueue!IInv /\ FileQueue!TypeOK
  BY DEF IInv, FileQueue!IInv
<1> QED BY <1>1, QueueStep, TypeStep, AtAStepStep, WorkStep, TrackedStep, ToldStep DEF IInv

-------------------------------------------------------------------------------
(* The inductive invariant holds of every behaviour of the store.          *)
THEOREM Invariance == Spec => []IInv
BY InvInit, InvStep, PTL DEF Spec

(* Every variable keeps its type, through crashes too.                     *)
THEOREM TypeCorrect == Spec => []TypeOK
<1>1. IInv => TypeOK
  BY DEF IInv
<1> QED BY <1>1, Invariance, PTL

-------------------------------------------------------------------------------
(* The only step that changes the file replaces it by what the task loaded *)
(* and its own record, on the revision the file still has.                 *)
LEMMA RenameWrites ==
    ASSUME IInv, NEW m \in Mutations, Rename(m)
    PROVE  Port!Next
<1>1. /\ call[m] \in Calls /\ step[m] = "rename"
      /\ file' = temporary
  BY DEF Rename, IInv, AtAStep
<1>2. file' = Saved(m) /\ snapshot[m] = file
  BY <1>1 DEF IInv, Filled, Current
<1>3. call[m].key \in RecordKeys
  BY <1>1 DEF Calls
<1>4. CASE call[m].kind = "delete"
  <2>1. file' = [file EXCEPT ![call[m].key] = Port!Absent]
    BY <1>2, <1>4 DEF Saved
  <2> QED BY <1>3, <2>1 DEF Port!Next, Port!Delete
<1>5. CASE call[m].kind = "write"
  <2>1. file[call[m].key].revision = call[m].expected
    BY <1>1, <1>5 DEF IInv, Current
  <2>2. file' = [file EXCEPT ![call[m].key] =
                    [revision |-> file[call[m].key].revision + 1, by |-> m]]
    BY <1>2, <1>5, <2>1 DEF Saved
  <2> QED BY <1>3, <2>2 DEF Port!Next, Port!Write
<1> QED BY <1>1, <1>4, <1>5 DEF Calls

(* For any mutations and keys, through failures at any step and crashes    *)
(* between any two, the one JSON file is the port's store: a write is a    *)
(* compare-and-set of one key, in one step (json-file-settings-store.ts,   *)
(* settings-records-file.ts saveRecords).                                  *)
THEOREM ImplementsPort == Spec => AtomicCompareAndSet
<1>1. Init => Port!Init
  BY DEF Init, Port!Init, Empty
<1>2. IInv /\ [Next]_vars => [Port!Next]_file
  <2> SUFFICES ASSUME IInv, [Next]_vars, file' # file PROVE Port!Next
    OBVIOUS
  <2>1. PICK m \in Mutations : Rename(m)
    BY DEF Next, Task, Call, Start, Load, Conflict, BeginSave, EndSave, Fail, Leave, Untrack,
           Drain, DrainResumes, Crash, vars
  <2> QED BY <2>1, RenameWrites
<1> QED BY <1>1, <1>2, Invariance, PTL DEF Spec, AtomicCompareAndSet, Port!Spec

(* A drain returns with no call in flight, and tells exactly the rejected  *)
(* ones of all those it awaited, however many came while it waited         *)
(* (json-file-settings-store.ts drain).                                    *)
THEOREM DrainTellsAll == Spec => DrainComplete
<1> DEFINE Complete ==
        drain.pc = "waiting" /\ drain'.pc = "done" =>
            /\ pending' = {}
            /\ \A m \in Mutations : state[m] \in {"queued", "running"} => m \notin drain.asked
            /\ drain'.failures = {m \in drain.asked : Rejected(m)}
<1>1. IInv /\ [Next]_vars => [Complete]_vars
  <2> SUFFICES ASSUME IInv, Next, drain.pc = "waiting", drain'.pc = "done" PROVE Complete
    OBVIOUS
  <2>1. DrainResumes
    BY DEF Next, Task, Call, Start, Load, Conflict, BeginSave, EndSave, Rename, Fail, Leave, Untrack,
           Drain, Crash, NoDrain
  <2>2. pending = {} /\ pending' = {}
    BY <2>1 DEF DrainResumes, IInv, TypeOK
  <2>3. \A m \in Mutations : state[m] \notin {"queued", "running"}
    BY <2>2 DEF IInv, Tracked
  <2>4. drain'.failures = drain.failures \cup {m \in drain.awaited : Rejected(m)}
    BY <2>1 DEF DrainResumes, IInv, TypeOK
  <2>5. drain'.failures = {m \in drain.asked : Rejected(m)}
    BY <2>4 DEF IInv, Told
  <2> QED BY <2>2, <2>3, <2>5
<1> QED BY <1>1, Invariance, PTL DEF Spec, DrainComplete

===============================================================================
