----------------------------- MODULE SettingsStore -----------------------------
(***************************************************************************)
(* What the SettingsStore port promises of its adapters: records keyed by  *)
(* guild and module that never touch each other, and a compare-and-set that*)
(* checks the revision and replaces the record in one atomic step.         *)
(***************************************************************************)
EXTENDS Naturals

CONSTANTS
    RecordKeys,         \* (guildId, moduleId) pairs
    Writers,            \* calls of write: each brings a record of its own
    Copies              \* records written as they were in another store

VARIABLE records

(* Revision 0 stands for the port's `null`, no record.                     *)
Absent == [revision |-> 0, by |-> "nobody"]

Init == records = [k \in RecordKeys |-> Absent]

(* A write lands only on the revision it expects; anything else is a       *)
(* ConflictError and changes nothing.                                      *)
Write(k, expected, record) ==
    /\ records[k].revision = expected
    /\ records' = [records EXCEPT ![k] = record]

Delete(k) == records' = [records EXCEPT ![k] = Absent]

Next ==
    \E k \in RecordKeys :
        \/ \E w \in Writers :
               LET expected == records[k].revision IN
               Write(k, expected, [revision |-> expected + 1, by |-> w])
        \/ \E copy \in Copies : Write(k, Absent.revision, copy)
        \/ Delete(k)

Spec == Init /\ [][Next]_records

===============================================================================
