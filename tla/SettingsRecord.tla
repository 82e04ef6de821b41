---------------------------- MODULE SettingsRecord ----------------------------
(***************************************************************************)
(* What the settings service promises of one guild's record of one module: *)
(* every change is one atomic step that builds on the record it replaces.  *)
(*                                                                         *)
(*  - a user's change merges a patch into what the current record reads    *)
(*    as, so no other user's change is lost;                               *)
(*  - the kernel rewrites a record on its own only to migrate it, once per *)
(*    version, and only when the migration succeeds (FR-018);              *)
(*  - a record of a newer version is never rewritten (FR-019);             *)
(*  - each change raises the revision by one.                              *)
(***************************************************************************)
EXTENDS SettingsData

CONSTANT InitialRecords     \* what earlier runs of the bot may have left

VARIABLE record

Init == record \in InitialRecords

UserWrites(v, patch) ==
    /\ Writable(v, record)
    /\ record' = [version  |-> v,
                  revision |-> record.revision + 1,
                  values   |-> Merge(Readable(v, record), patch),
                  by       |-> "user"]

KernelMigrates(v) ==
    /\ NeedsWriteBack(v, record)
    /\ record' = [version  |-> v,
                  revision |-> record.revision + 1,
                  values   |-> Migration(v, record).values,
                  by       |-> "kernel"]

Next == \E v \in Versions :
            \/ KernelMigrates(v)
            \/ \E patch \in Patch : UserWrites(v, patch)

Spec == Init /\ [][Next]_record

===============================================================================
