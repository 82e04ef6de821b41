--------------------------- MODULE MCSettingsService ---------------------------
(***************************************************************************)
(* Instances of SettingsService for TLC.  Two fields, one of which version *)
(* 1 does not declare; a value "old" that only version 1 accepts and that  *)
(* the migration turns into "new"; a value "odd" that the migration keeps  *)
(* and version 2 rejects, so the migration of its record fails.            *)
(***************************************************************************)
EXTENDS SettingsService, TLC

CONSTANTS p1, p2, c1, c2, c3, unset, throws, f1, f2, old, new, odd

MCFields == {f1, f2}
MCValues == {old, new, odd}
MCDeclared == 1 :> {f1} @@ 2 :> {f1, f2}
MCValid == 1 :> {old, odd} @@ 2 :> {new}
MCMigrate(v, from, values) ==
    IF v = from THEN Throws
    ELSE [f \in Fields |-> IF values[f] = old THEN new ELSE values[f]]

OneProcess == {p1}
TwoProcesses == {p1, p2}
AllHome == [c \in {c1, c2, c3} |-> p1]
PairHome == [c \in {c1, c2} |-> IF c = c2 THEN p2 ELSE p1]

Stored(v, x) ==
    [version |-> v, revision |-> 1, by |-> "user",
     values |-> [f \in Fields |-> IF f = f1 THEN x ELSE Unset]]
MCInitial == {NoRecord, Stored(1, old), Stored(1, odd), Stored(2, new)}

MCPatches == {f1 :> old, f1 :> new, f2 :> new, f1 :> Unset}
FewPatches == {f1 :> old, f2 :> new}
MCResetKeys == {{f1}}
Everyone == Procs
Nobody == {}

===============================================================================
