----------------------------- MODULE SettingsData -----------------------------
(***************************************************************************)
(* The record one module stores for one guild, and the pure functions the  *)
(* settings service applies to it: decoding, migrating, merging a patch.   *)
(*                                                                         *)
(* Records of different (guildId, moduleId) pairs never touch each other   *)
(* (the store, the cache and the generations are all keyed by the pair), so*)
(* the modules describe one pair.  A field's value is a member of Values;  *)
(* what makes it valid, and what a migration turns it into, are constants. *)
(***************************************************************************)
EXTENDS Naturals

CONSTANTS
    Fields,             \* field keys any declaration version knows
    Values,             \* stored values of one field
    Unset,              \* the field is absent from the stored object
    Versions,           \* declaration versions
    Declared,           \* Declared[v]: the fields version v declares
    Valid,              \* Valid[v]: the values that parse under version v
    Throws,             \* a migration that is missing, throws or returns no object
    Migrate(_, _, _)    \* Migrate(v, from, values): what version v's migrate returns

FieldMap == [Fields -> Values \cup {Unset}]
AllUnset == [f \in Fields |-> Unset]

ASSUME VersionsAssumption == Versions \subseteq Nat \ {0}
ASSUME ValuesAssumption == Unset \notin Values
ASSUME DeclarationsAssumption ==
    /\ Declared \in [Versions -> SUBSET Fields]
    /\ Valid \in [Versions -> SUBSET Values]
ASSUME MigrateAssumption ==
    \A v, from \in Versions : \A values \in FieldMap :
        Migrate(v, from, values) \in FieldMap \cup {Throws}

(* Who a write is attributed to: updatedBy is the user, or absent for a    *)
(* migration the kernel writes on its own.                                 *)
Authors == {"user", "kernel"}

StoredSettings ==
    [version : Versions, revision : Nat \ {0}, values : FieldMap, by : Authors]

(* The port's `null`: revisions start at 1, so revision 0 is "no record".  *)
NoRecord == [version |-> 0, revision |-> 0, values |-> AllUnset, by |-> "kernel"]

Patch == UNION {[S -> Values \cup {Unset}] : S \in SUBSET Fields}
EmptyPatch == [f \in {} |-> Unset]

-------------------------------------------------------------------------------
(* decodeStored: declared fields with a valid value; an undeclared one is  *)
(* dropped silently, an invalid one is dropped and reported.               *)
Decoded(v, values) ==
    [f \in Fields |-> IF f \in Declared[v] /\ values[f] \in Valid[v]
                      THEN values[f] ELSE Unset]

InvalidKeys(v, values) ==
    {f \in Declared[v] : values[f] # Unset /\ values[f] \notin Valid[v]}

(* migrateStored, for a record of an older version.                        *)
Migration(v, rec) ==
    LET migrated == Migrate(v, rec.version, rec.values) IN
    IF migrated = Throws
    THEN [ok |-> FALSE, values |-> Decoded(v, rec.values)]
    ELSE [ok |-> InvalidKeys(v, migrated) = {}, values |-> Decoded(v, migrated)]

(* readable: what a guild reads of a record, defaults not applied, and     *)
(* whether that is a migration still to be written back.                   *)
Outdated(v, rec) == rec # NoRecord /\ rec.version < v

Readable(v, rec) ==
    IF Outdated(v, rec) THEN Migration(v, rec).values ELSE Decoded(v, rec.values)

NeedsWriteBack(v, rec) == Outdated(v, rec) /\ Migration(v, rec).ok

(* Faulty: a record of any version is overwritten.                         *)
AlwaysWritable(v, rec) == TRUE

(* assertWritable: a record of a newer version is never overwritten.       *)
Writable(v, rec) == rec.version <= v

(* The values a set or a reset stores: the patch over what the guild reads.*)
Merge(values, patch) ==
    [f \in Fields |-> IF f \in DOMAIN patch THEN patch[f] ELSE values[f]]

===============================================================================
