--------------------------- MODULE JsonSettingsStore ---------------------------
(***************************************************************************)
(* The sandbox bot's settings store over one JSON file: every write and    *)
(* delete goes through one key of a KeyedQueue, loads the whole file,      *)
(* checks the revision, writes a temporary file and renames it over the    *)
(* old one.  Reads are not queued.  The process may crash between any two  *)
(* steps; drain awaits what is pending.                                    *)
(***************************************************************************)
EXTENDS Naturals, Sequences

CONSTANTS
    RecordKeys,         \* (guildId, moduleId) pairs
    Mutations,          \* calls of write and delete, each made at most once
    NoMutation,
    MaxExpected         \* bound: the highest revision a caller expects

ASSUME NoMutationAssumption == NoMutation \notin Mutations

FILE_QUEUE_KEY == "file"

VARIABLES
    chains, prev, key, state, arrivals,     \* the queue
    file,               \* what the path holds: the records, or half a file
    temporary,          \* what the temporary path holds
    call,               \* call[m]: the arguments of m
    step,               \* step[m]: where the task of m stands, while it runs
    snapshot,           \* snapshot[m]: the records m loaded
    outcome,            \* outcome[m]: how m settled
    pending,            \* the mutations drain has to await
    drain               \* the state of a drain call

queueVars == <<chains, prev, key, state, arrivals>>
vars == <<chains, prev, key, state, arrivals,
          file, temporary, call, step, snapshot, outcome, pending, drain>>

Queue == INSTANCE KeyedQueue
            WITH Keys <- {FILE_QUEUE_KEY}, Tasks <- Mutations, NoTask <- NoMutation
Port == INSTANCE SettingsStore WITH Writers <- Mutations, Copies <- {}, records <- file

Empty == [k \in RecordKeys |-> Port!Absent]
HalfAFile == [k \in RecordKeys |-> [revision |-> 0, by |-> "half a file"]]
NoCall == [kind |-> "none", key |-> NoMutation, expected |-> 0]
NoDrain == [pc |-> "idle", awaited |-> {}, asked |-> {}, failures |-> {}]

Settled(m) == Queue!Settled(m)
Rejected(m) == outcome[m] \in {"conflict", "failed"}

Init ==
    /\ Queue!Init
    /\ file = Empty
    /\ temporary = Empty
    /\ call = [m \in Mutations |-> NoCall]
    /\ step = [m \in Mutations |-> "idle"]
    /\ snapshot = [m \in Mutations |-> Empty]
    /\ outcome = [m \in Mutations |-> "none"]
    /\ pending = {}
    /\ drain = NoDrain

-------------------------------------------------------------------------------
(* write and delete: queued, and tracked until they settle.                *)
Call(m, kind, k, expected) ==
    /\ kind = "delete" => expected = 0          \* delete expects nothing
    /\ Queue!Run(m, FILE_QUEUE_KEY)
    /\ call' = [call EXCEPT ![m] = [kind |-> kind, key |-> k, expected |-> expected]]
    /\ pending' = pending \cup {m}
    /\ UNCHANGED <<file, temporary, step, snapshot, outcome, drain>>

(* Faulty: the task does not go through the queue.                         *)
StartAtOnce(m) ==
    /\ state[m] = "queued"
    /\ state' = [state EXCEPT ![m] = "running"]
    /\ step' = [step EXCEPT ![m] = "load"]
    /\ UNCHANGED <<chains, prev, key, arrivals>>
    /\ UNCHANGED <<file, temporary, call, snapshot, outcome, pending, drain>>

Start(m) ==
    /\ Queue!Begin(m)
    /\ step' = [step EXCEPT ![m] = "load"]
    /\ UNCHANGED <<file, temporary, call, snapshot, outcome, pending, drain>>

Finish(m, result) ==
    /\ Queue!Settle(m, IF result = "saved" THEN "resolved" ELSE "rejected")
    /\ step' = [step EXCEPT ![m] = "idle"]
    /\ call' = [call EXCEPT ![m] = NoCall]
    /\ snapshot' = [snapshot EXCEPT ![m] = Empty]
    /\ outcome' = [outcome EXCEPT ![m] = result]

(* loadRecords, and the revision check of a write.                         *)
Load(m) ==
    /\ step[m] = "load"
    /\ call[m].kind = "delete" \/ file[call[m].key].revision = call[m].expected
    /\ snapshot' = [snapshot EXCEPT ![m] = file]
    /\ step' = [step EXCEPT ![m] = "mkdir"]
    /\ UNCHANGED queueVars
    /\ UNCHANGED <<file, temporary, call, outcome, pending, drain>>

Conflict(m) ==
    /\ step[m] = "load"
    /\ call[m].kind = "write" /\ file[call[m].key].revision # call[m].expected
    /\ Finish(m, "conflict")
    /\ UNCHANGED <<file, temporary, pending, drain>>

(* The records the task saves: its own key changed, the others kept.       *)
Saved(m) ==
    [snapshot[m] EXCEPT ![call[m].key] =
        IF call[m].kind = "delete" THEN Port!Absent
        ELSE [revision |-> call[m].expected + 1, by |-> m]]

(* Faulty: the file itself is written, not a temporary one.                *)
BeginSaveInPlace(m) ==
    /\ step[m] = "mkdir"
    /\ file' = HalfAFile
    /\ step' = [step EXCEPT ![m] = "write"]
    /\ UNCHANGED queueVars
    /\ UNCHANGED <<temporary, call, snapshot, outcome, pending, drain>>

(* saveRecords: writeFile fills the temporary file bit by bit, and rename  *)
(* replaces the old file in one step.                                      *)
BeginSave(m) ==
    /\ step[m] = "mkdir"
    /\ temporary' = HalfAFile
    /\ step' = [step EXCEPT ![m] = "write"]
    /\ UNCHANGED queueVars
    /\ UNCHANGED <<file, call, snapshot, outcome, pending, drain>>

EndSave(m) ==
    /\ step[m] = "write"
    /\ temporary' = Saved(m)
    /\ step' = [step EXCEPT ![m] = "rename"]
    /\ UNCHANGED queueVars
    /\ UNCHANGED <<file, call, snapshot, outcome, pending, drain>>

Rename(m) ==
    /\ step[m] = "rename"
    /\ file' = temporary
    /\ Finish(m, "saved")
    /\ UNCHANGED <<temporary, pending, drain>>

(* A file operation of the task fails (a corrupt file, a full disk).       *)
Fail(m) ==
    /\ step[m] \in {"load", "mkdir", "write", "rename"}
    /\ Finish(m, "failed")
    /\ UNCHANGED <<file, temporary, pending, drain>>

(* The reactions to a settled task: the queue's, and trackWrite's.         *)
Leave(m) ==
    /\ Queue!Drop(m)
    /\ UNCHANGED <<file, temporary, call, step, snapshot, outcome, pending, drain>>

Untrack(m) ==
    /\ Settled(m)
    /\ m \in pending
    /\ pending' = pending \ {m}
    /\ UNCHANGED queueVars
    /\ UNCHANGED <<file, temporary, call, step, snapshot, outcome, drain>>

-------------------------------------------------------------------------------
(* drain: awaits all that is pending, again and again until nothing is, and*)
(* keeps every rejection it saw.  trackWrite's reaction was registered     *)
(* before allSettled's, so what was awaited has left pending by then.      *)
Drain ==
    /\ drain.pc = "idle"
    /\ drain' = [pc |-> IF pending = {} THEN "done" ELSE "waiting",
                 awaited |-> pending, asked |-> pending, failures |-> {}]
    /\ UNCHANGED queueVars
    /\ UNCHANGED <<file, temporary, call, step, snapshot, outcome, pending>>

(* Faulty: drain awaits what was pending at first, and no more.            *)
DrainResumesOnce ==
    /\ drain.pc = "waiting"
    /\ drain.awaited \cap pending = {}
    /\ drain' = [drain EXCEPT !.pc = "done",
                     !.failures = @ \cup {m \in drain.awaited : Rejected(m)}]
    /\ UNCHANGED queueVars
    /\ UNCHANGED <<file, temporary, call, step, snapshot, outcome, pending>>

DrainResumes ==
    /\ drain.pc = "waiting"
    /\ drain.awaited \cap pending = {}
    /\ drain' = [drain EXCEPT !.pc = IF pending = {} THEN "done" ELSE "waiting",
                     !.awaited = pending,
                     !.asked = IF pending = {} THEN {} ELSE @ \cup pending,
                     !.failures = @ \cup {m \in drain.awaited : Rejected(m)}]
    /\ UNCHANGED queueVars
    /\ UNCHANGED <<file, temporary, call, step, snapshot, outcome, pending>>

(* The process dies and comes back with a new pid: only the file is left;  *)
(* a call it had not made yet may still be made.                           *)
Crash ==
    /\ \E m \in Mutations : state[m] \notin {"new", "dropped"}
    /\ state' = [m \in Mutations |-> IF state[m] = "new" THEN "new" ELSE "dropped"]
    /\ chains' = [k \in {FILE_QUEUE_KEY} |-> NoMutation]
    /\ prev' = [m \in Mutations |-> NoMutation]
    /\ arrivals' = [k \in {FILE_QUEUE_KEY} |-> <<>>]
    /\ temporary' = Empty
    /\ step' = [m \in Mutations |-> "idle"]
    /\ pending' = {}
    /\ drain' = NoDrain
    /\ call' = [m \in Mutations |-> NoCall]
    /\ snapshot' = [m \in Mutations |-> Empty]
    /\ outcome' = [m \in Mutations |-> "none"]
    /\ UNCHANGED <<key, file>>

Task(m) ==
    \/ Start(m)
    \/ Load(m)
    \/ Conflict(m)
    \/ BeginSave(m)
    \/ EndSave(m)
    \/ Rename(m)
    \/ Fail(m)
    \/ Leave(m)
    \/ Untrack(m)

Next ==
    \/ \E m \in Mutations, kind \in {"write", "delete"}, k \in RecordKeys,
          expected \in 0 .. MaxExpected : Call(m, kind, k, expected)
    \/ \E m \in Mutations : Task(m)
    \/ Drain
    \/ DrainResumes
    \/ Crash

Spec == Init /\ [][Next]_vars

-------------------------------------------------------------------------------
(* The file is an atomic compare-and-set store, isolated by key, across    *)
(* concurrent calls, failures and crashes, and never half a file           *)
(* (json-file-settings-store.ts, settings-records-file.ts saveRecords).    *)
AtomicCompareAndSet == Port!Spec

(* A finished drain left nothing behind it that it did not await: when it  *)
(* returns no mutation is pending, and it reports every rejection among    *)
(* those it awaited (json-file-settings-store.ts drain).                   *)
DrainComplete ==
    [][drain.pc = "waiting" /\ drain'.pc = "done" =>
          /\ pending' = {}
          /\ \A m \in Mutations : state[m] \in {"queued", "running"} => m \notin drain.asked
          /\ drain'.failures = {m \in drain.asked : Rejected(m)}]_vars

===============================================================================
