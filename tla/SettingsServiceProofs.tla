-------------------------- MODULE SettingsServiceProofs --------------------------
(***************************************************************************)
(* Proofs about SettingsService, for any number of processes and requests, *)
(* any versions, fields, values and migrations, any time to live, with and *)
(* without a notifier that bridges processes.                              *)
(*                                                                         *)
(* The inductive invariant says of every request how far its locals may be *)
(* behind the shared state, and of every process what its cache may hold.  *)
(***************************************************************************)
EXTENDS SettingsService, TLAPS

(* A record is behind when it is the stored one or an older revision: a    *)
(* revision identifies the record.                                         *)
Behind(rec) ==
    /\ rec.revision <= store.revision
    /\ rec.revision = store.revision => rec = store

(* What a pending write relies on: the expectation is one the read record  *)
(* can meet, and that record allowed the write.                            *)
WriteInv(c) ==
    /\ Behind(req[c].base)
    /\ req[c].pc = "setRead" => req[c].expected <= store.revision
    /\ req[c].pc = "resetRead" => req[c].expected = 0
    /\ req[c].pc = "write" => /\ req[c].expected <= req[c].base.revision
                              /\ Writable(VersionOf(c), req[c].base)
    /\ req[c].pc = "writeBack" => NeedsWriteBack(VersionOf(c), req[c].base)

(* What a pending load relies on: it began after floor was announced, and  *)
(* unless its generation has passed, it has read all that was announced.   *)
LoadInv(c) ==
    LET p == Home[c] IN
    req[c].pc \in Loading =>
        /\ req[c].loadGen <= generation[p]
        /\ req[c].floor <= acked[p]
        /\ req[c].pc # "load" =>
              /\ req[c].floor <= req[c].base.revision
              /\ req[c].loadGen = generation[p] => acked[p] <= req[c].base.revision

ProcessInv(p) ==
    /\ acked[p] <= store.revision
    /\ \A rev \in events[p] : rev <= store.revision
    /\ Fresh(p) => /\ acked[p] <= cache[p].revision
                   /\ cache[p].revision <= store.revision
                   /\ cache[p].revision = store.revision
                         => cache[p].values = Readable(version[p], store)

IInv ==
    /\ TypeOK
    /\ \A c \in Requests : WriteInv(c) /\ LoadInv(c)
    /\ \A p \in Procs : ProcessInv(p)

-------------------------------------------------------------------------------
(* What the pure functions return.                                         *)
Rec == StoredSettings \cup {NoRecord}

(* No record is the only record of revision 0.                             *)
LEMMA RecordShape ==
    /\ AllUnset \in FieldMap
    /\ \A rec \in Rec : /\ rec.version \in Nat
                        /\ rec.revision \in Nat
                        /\ rec.values \in FieldMap
                        /\ rec # NoRecord => rec \in StoredSettings
                        /\ rec.revision = 0 <=> rec = NoRecord
<1>1. AllUnset \in FieldMap
  BY DEF AllUnset, FieldMap
<1>2. ASSUME NEW rec \in StoredSettings
      PROVE  /\ rec.version \in Nat
             /\ rec.revision \in Nat \ {0}
             /\ rec.values \in FieldMap
  BY VersionsAssumption DEF StoredSettings
<1>3. NoRecord.version = 0 /\ NoRecord.revision = 0 /\ NoRecord.values = AllUnset
  BY DEF NoRecord
<1> QED BY <1>1, <1>2, <1>3 DEF Rec

(* Decoding keeps or unsets each field.                                    *)
LEMMA DecodedType ==
    ASSUME NEW v, NEW values \in FieldMap
    PROVE  Decoded(v, values) \in FieldMap
BY DEF Decoded, FieldMap

(* A migration that succeeds or fails leaves a guild values to read.       *)
LEMMA MigrationType ==
    ASSUME NEW v \in Versions, NEW rec \in StoredSettings
    PROVE  Migration(v, rec).values \in FieldMap
<1> DEFINE migrated == Migrate(v, rec.version, rec.values)
<1>1. rec.version \in Versions /\ rec.values \in FieldMap
  BY DEF StoredSettings
<1>2. migrated \in FieldMap \cup {Throws}
  BY <1>1, MigrateAssumption
<1>3. CASE migrated = Throws
  BY <1>1, <1>3, DecodedType DEF Migration
<1>4. CASE migrated # Throws
  BY <1>2, <1>4, DecodedType DEF Migration
<1> QED BY <1>3, <1>4

(* What a guild reads is a value, or nothing, of each field.               *)
LEMMA ReadableType ==
    ASSUME NEW v \in Versions, NEW rec \in Rec
    PROVE  Readable(v, rec) \in FieldMap
<1>1. CASE Outdated(v, rec)
  BY <1>1, RecordShape, MigrationType DEF Readable, Outdated
<1>2. CASE ~Outdated(v, rec)
  BY <1>2, RecordShape, DecodedType DEF Readable
<1> QED BY <1>1, <1>2

(* A patch over values gives values.                                       *)
LEMMA MergeType ==
    ASSUME NEW values \in FieldMap, NEW patch \in Patch
    PROVE  Merge(values, patch) \in FieldMap
<1>1. \A f \in DOMAIN patch : patch[f] \in Values \cup {Unset}
  BY DEF Patch
<1> QED BY <1>1 DEF Merge, FieldMap

(* The record a request writes is one the store can hold.                  *)
LEMMA ReplacementType ==
    ASSUME TypeOK, NEW c \in Requests, NEW values \in FieldMap, NEW by \in Authors
    PROVE  Replacement(c, values, by) \in StoredSettings
<1>1. VersionOf(c) \in Versions
  BY HomeAssumption DEF TypeOK, VersionOf
<1>2. req[c].base \in Rec
  BY DEF TypeOK, Request, Rec
<1>3. req[c].base.revision + 1 \in Nat \ {0}
  BY <1>2, RecordShape
<1> QED BY <1>1, <1>3 DEF Replacement, StoredSettings

LEMMA IdleType == Idle \in Request
<1>1. EmptyPatch \in Patch
  BY DEF EmptyPatch, Patch
<1> QED BY <1>1 DEF Idle, Request, PCs

(* Dropping an entry and counting the invalidation.                        *)
LEMMA NoEntryType == NoEntry \in [left : 0 .. TTL, revision : Nat, values : FieldMap]
BY RecordShape, TTLAssumption DEF NoEntry

LEMMA InvalidatedType ==
    ASSUME TypeOK, NEW p \in Procs, NEW rev \in Nat, NEW bumps \in Nat,
           Invalidated(p, rev, bumps)
    PROVE  /\ cache' \in [Procs -> [left : 0 .. TTL, revision : Nat, values : FieldMap]]
           /\ generation' \in [Procs -> Nat]
           /\ acked' \in [Procs -> Nat]
BY NoEntryType DEF TypeOK, Invalidated, Higher

-------------------------------------------------------------------------------
(* Type correctness is preserved by every step.  A write-back also needs   *)
(* to know that it migrates a record there is.                             *)
LEMMA TypeStep == IInv /\ [Next]_vars => TypeOK'
<1> SUFFICES ASSUME TypeOK, \A c \in Requests : WriteInv(c), [Next]_vars
             PROVE  TypeOK'
  BY DEF IInv
<1> USE IdleType
<1>1. CASE UNCHANGED vars
  BY <1>1 DEF TypeOK, vars
<1>2. ASSUME NEW c \in Requests, Ask(c) PROVE TypeOK'
  <2>1. CASE GetMiss(c)
    <3>1. generation[Home[c]] \in Nat /\ acked[Home[c]] \in Nat
      BY HomeAssumption DEF TypeOK
    <3> QED BY <2>1, <3>1 DEF GetMiss, TypeOK, Request, PCs, Loading
  <2>2. ASSUME NEW patch \in Patches, NEW shown \in 0 .. MaxRevision, Set(c, patch, shown)
        PROVE  TypeOK'
    <3>1. patch \in Patch /\ shown \in Nat
      BY SubmissionAssumption
    <3> QED BY <2>2, <3>1 DEF Set, TypeOK, Request, PCs, Writing
  <2>3. ASSUME NEW keys \in ResetKeys, Reset(c, keys) PROVE TypeOK'
    <3>1. [f \in keys |-> Unset] \in Patch
      BY SubmissionAssumption DEF Patch
    <3> QED BY <2>3, <3>1 DEF Reset, TypeOK, Request, PCs, Writing
  <2> QED BY <1>2, <2>1, <2>2, <2>3 DEF Ask
<1>3. ASSUME NEW c \in Requests, Proceed(c) PROVE TypeOK'
  <2>1. CASE LoadRead(c) \/ Reread(c)
    BY <2>1 DEF LoadRead, Reread, TypeOK, Request, PCs, Loading
  <2>2. CASE WriteBackConflicts(c)
    BY <2>2 DEF WriteBackConflicts, TypeOK, Request, PCs, Loading
  <2>9. CASE WriteBackFails(c)
    BY <2>9 DEF WriteBackFails, TypeOK, Request, PCs, Loading
  <2>3. CASE WriterReads(c)
    <3> DEFINE expected == IF req[c].expected = 0 THEN store.revision ELSE req[c].expected
    <3>1. expected \in Nat
      BY RecordShape DEF TypeOK, Rec, Request
    <3>2. req' = [req EXCEPT ![c].pc = "write", ![c].base = store, ![c].expected = expected]
      BY <2>3 DEF WriterReads
    <3>3. UNCHANGED <<store, version, cache, generation, events, acked>>
      BY <2>3 DEF WriterReads
    <3> HIDE DEF expected
    <3>4. req[c] \in Request /\ store \in StoredSettings \cup {NoRecord}
      BY DEF TypeOK
    <3>5. [req[c] EXCEPT !.pc = "write", !.base = store, !.expected = expected] \in Request
      <4>1. "write" \in PCs
        BY DEF PCs, Writing
      <4> QED BY <3>1, <3>4, <4>1 DEF Request
    <3>6. req' \in [Requests -> Request]
      <4>1. req' = [req EXCEPT ![c] = [req[c] EXCEPT !.pc = "write", !.base = store,
                                                     !.expected = expected]]
        BY <3>2
      <4> QED BY <3>5, <4>1 DEF TypeOK
    <3> QED BY <3>3, <3>6 DEF TypeOK
  <2>4. CASE WriterTurnedAway(c) \/ WriteConflicts(c) \/ StoreFails(c)
    BY <2>4 DEF WriterTurnedAway, WriteConflicts, StoreFails, TypeOK
  <2>5. CASE WriteBackLands(c)
    <3> DEFINE next == Replacement(c, Migration(VersionOf(c), req[c].base).values, "kernel")
    <3>4. req[c].base \in StoredSettings /\ VersionOf(c) \in Versions
      BY <2>5, HomeAssumption, RecordShape
      DEF WriteBackLands, WriteInv, NeedsWriteBack, Outdated, TypeOK, Request, Rec, VersionOf
    <3>1. next \in StoredSettings
      BY <3>4, MigrationType, ReplacementType DEF Authors
    <3>2. /\ store' = next
          /\ req' = [req EXCEPT ![c].pc = "announceLoad", ![c].base = next]
          /\ UNCHANGED <<version, cache, generation, events, acked>>
      BY <2>5 DEF WriteBackLands
    <3> HIDE DEF next
    <3> QED BY <3>1, <3>2 DEF TypeOK, Request, PCs, Loading
  <2>6. CASE WriteLands(c)
    <3> DEFINE values == Merge(Readable(VersionOf(c), req[c].base), req[c].patch)
               next == Replacement(c, values, "user")
    <3>1. VersionOf(c) \in Versions /\ req[c].base \in Rec /\ req[c].patch \in Patch
      BY HomeAssumption DEF TypeOK, Request, Rec, VersionOf
    <3>2. next \in StoredSettings
      BY <3>1, ReadableType, MergeType, ReplacementType DEF Authors
    <3>3. /\ store' = next
          /\ req' = [req EXCEPT ![c].pc = "announce", ![c].base = next]
          /\ UNCHANGED <<version, cache, generation, events, acked>>
      BY <2>6 DEF WriteLands
    <3> HIDE DEF next
    <3> QED BY <3>2, <3>3 DEF TypeOK, Request, PCs, Writing
  <2>7. CASE Fill(c)
    <3> DEFINE p == Home[c]
               entry == [left |-> TTL, revision |-> req[c].base.revision,
                         values |-> Readable(VersionOf(c), req[c].base)]
    <3>1. p \in Procs /\ VersionOf(c) \in Versions /\ req[c].base \in Rec
      BY HomeAssumption DEF TypeOK, Request, Rec, VersionOf
    <3>2. entry \in [left : 0 .. TTL, revision : Nat, values : FieldMap]
      BY <3>1, RecordShape, ReadableType, TTLAssumption
    <3>3. /\ cache' = [cache EXCEPT ![p] = entry] \/ cache' = cache
          /\ req' = [req EXCEPT ![c] = Idle]
          /\ UNCHANGED <<store, version, generation, events, acked>>
      BY <2>7 DEF Fill
    <3> HIDE DEF p, entry
    <3> QED BY <3>1, <3>2, <3>3 DEF TypeOK
  <2>8. CASE Announce(c)
    <3> DEFINE rev == req[c].base.revision
    <3>1. rev \in Nat /\ Home[c] \in Procs
      BY HomeAssumption, RecordShape DEF TypeOK, Request, Rec
    <3>2. cache' \in [Procs -> [left : 0 .. TTL, revision : Nat, values : FieldMap]]
          /\ generation' \in [Procs -> Nat] /\ acked' \in [Procs -> Nat]
      BY <2>8, <3>1, InvalidatedType DEF Announce
    <3>3. events' \in [Procs -> SUBSET Nat]
      BY <2>8, <3>1 DEF Announce, TypeOK
    <3>4. req' \in [Requests -> Request]
      BY <2>8 DEF Announce, TypeOK, Request, PCs, Loading
    <3> QED BY <2>8, <3>2, <3>3, <3>4 DEF Announce, TypeOK
  <2> QED BY <1>3, <2>1, <2>2, <2>3, <2>4, <2>5, <2>6, <2>7, <2>8, <2>9 DEF Proceed
<1>4. CASE Deployment
  <2>1. CASE Tick
    <3>1. \A p \in Procs : Aged(cache[p]) \in [left : 0 .. TTL, revision : Nat, values : FieldMap]
      BY NoEntryType, TTLAssumption DEF Aged, TypeOK
    <3> QED BY <2>1, <3>1 DEF Tick, TypeOK
  <2>2. ASSUME NEW p \in Procs, NEW rev \in events[p], Deliver(p, rev) PROVE TypeOK'
    <3>1. rev \in Nat
      BY DEF TypeOK
    <3>2. cache' \in [Procs -> [left : 0 .. TTL, revision : Nat, values : FieldMap]]
          /\ generation' \in [Procs -> Nat] /\ acked' \in [Procs -> Nat]
      BY <2>2, <3>1, InvalidatedType DEF Deliver
    <3> QED BY <2>2, <3>2 DEF Deliver, TypeOK
  <2>3. ASSUME NEW p \in Procs, Restart(p) PROVE TypeOK'
    <3>1. cache' \in [Procs -> [left : 0 .. TTL, revision : Nat, values : FieldMap]]
      BY <2>3, NoEntryType DEF Restart, TypeOK
    <3>2. version' \in [Procs -> Versions]
      BY <2>3 DEF Restart, TypeOK
    <3> QED BY <2>3, <3>1, <3>2 DEF Restart, TypeOK
  <2> QED BY <1>4, <2>1, <2>2, <2>3 DEF Deployment
<1> QED BY <1>1, <1>2, <1>3, <1>4 DEF Next

-------------------------------------------------------------------------------
(* The invariant holds initially.                                          *)
LEMMA InvInit == Init => IInv
<1> SUFFICES ASSUME Init PROVE IInv
  OBVIOUS
<1>1. store \in Rec
  BY InitialAssumption DEF Init, Rec
<1>2. TypeOK
  BY <1>1, IdleType, NoEntryType DEF Init, TypeOK, Rec
<1>3. ASSUME NEW c \in Requests PROVE WriteInv(c) /\ LoadInv(c)
  <2>1. req[c] = Idle
    BY DEF Init
  <2>2. NoRecord.revision <= store.revision /\ (store.revision = 0 => store = NoRecord)
    BY <1>1, RecordShape DEF NoRecord
  <2> QED BY <2>1, <2>2 DEF WriteInv, LoadInv, Idle, Behind, Loading, NoRecord
<1>4. ASSUME NEW p \in Procs PROVE ProcessInv(p)
  BY <1>1, RecordShape DEF Init, ProcessInv, Fresh, NoEntry
<1> QED BY <1>2, <1>3, <1>4 DEF IInv

(* A step of one request that leaves the shared state alone only has to    *)
(* re-establish what that request relies on.                               *)
LEMMA OwnStep ==
    ASSUME IInv, TypeOK', NEW c \in Requests, NEW r,
           req' = [req EXCEPT ![c] = r],
           UNCHANGED <<store, version, cache, generation, events, acked>>,
           WriteInv(c)', LoadInv(c)'
    PROVE  IInv'
<1>1. ASSUME NEW d \in Requests, d # c PROVE (WriteInv(d) /\ LoadInv(d))'
  <2>1. req'[d] = req[d]
    BY <1>1 DEF IInv, TypeOK
  <2> QED BY <2>1 DEF IInv, WriteInv, LoadInv, Behind, VersionOf
<1>2. ASSUME NEW p \in Procs PROVE ProcessInv(p)'
  BY DEF IInv, ProcessInv, Fresh
<1> QED BY <1>1, <1>2 DEF IInv

(* A request that ends holds nothing.                                      *)
LEMMA EndStep ==
    ASSUME IInv, TypeOK', NEW c \in Requests, req' = [req EXCEPT ![c] = Idle],
           UNCHANGED <<store, version, cache, generation, events, acked>>
    PROVE  IInv'
<1>1. req'[c] = Idle
  BY DEF IInv, TypeOK
<1>2. store \in Rec
  BY DEF IInv, TypeOK, Rec
<1>3. NoRecord.revision <= store.revision /\ (store.revision = 0 => store = NoRecord)
  BY <1>2, RecordShape DEF NoRecord
<1>4. WriteInv(c)' /\ LoadInv(c)'
  BY <1>1, <1>3 DEF WriteInv, LoadInv, Idle, Behind, Loading, NoRecord
<1> QED BY <1>4, OwnStep

(* A write that lands raises the revision, so every other request and every*)
(* cache is behind it.                                                     *)
LEMMA LandStep ==
    ASSUME IInv, TypeOK', NEW c \in Requests, NEW r,
           req' = [req EXCEPT ![c] = r],
           store'.revision = store.revision + 1,
           UNCHANGED <<version, cache, generation, events, acked>>,
           WriteInv(c)', LoadInv(c)'
    PROVE  IInv'
<1>1. store.revision \in Nat
  BY RecordShape DEF IInv, TypeOK, Rec
<1>2. ASSUME NEW d \in Requests, d # c PROVE (WriteInv(d) /\ LoadInv(d))'
  <2>1. req'[d] = req[d] /\ req[d].base.revision \in Nat /\ req[d].expected \in Nat
    BY <1>2, RecordShape DEF IInv, TypeOK, Request, Rec
  <2>2. WriteInv(d) /\ LoadInv(d)
    BY DEF IInv
  <2>3. WriteInv(d)'
    BY <1>1, <2>1, <2>2 DEF WriteInv, Behind, VersionOf
  <2>4. LoadInv(d)'
    BY <2>1, <2>2 DEF LoadInv
  <2> QED BY <2>3, <2>4
<1>3. ASSUME NEW p \in Procs PROVE ProcessInv(p)'
  <2>1. /\ acked[p] \in Nat /\ cache[p].revision \in Nat
        /\ \A rev \in events[p] : rev \in Nat
    BY DEF IInv, TypeOK
  <2> QED BY <1>1, <2>1 DEF IInv, ProcessInv, Fresh
<1> QED BY <1>2, <1>3 DEF IInv

(* An invalidation empties the entry and passes every generation captured  *)
(* so far, so no load in flight has to have read what is announced.        *)
LEMMA InvalidateStep ==
    ASSUME IInv, TypeOK', NEW p \in Procs, NEW rev \in Nat, NEW bumps \in Nat \ {0},
           rev <= store.revision,
           Invalidated(p, rev, bumps),
           UNCHANGED <<store, version>>,
           NEW q \in Procs
    PROVE  /\ acked'[q] <= store.revision
           /\ acked[q] <= acked'[q]
           /\ generation[q] <= generation'[q]
           /\ q = p => generation[q] < generation'[q]
           /\ q # p => acked'[q] = acked[q] /\ generation'[q] = generation[q]
           /\ Fresh(q)' => q # p /\ cache'[q] = cache[q]
<1>1. /\ acked[q] \in Nat /\ generation[q] \in Nat
      /\ acked[q] <= store.revision
  BY DEF IInv, TypeOK, ProcessInv
<1>2. /\ cache'[q] = (IF q = p THEN NoEntry ELSE cache[q])
      /\ generation'[q] = (IF q = p THEN generation[q] + bumps ELSE generation[q])
      /\ acked'[q] = (IF q = p THEN Higher(acked[q], rev) ELSE acked[q])
  BY DEF Invalidated, IInv, TypeOK
<1>3. Fresh(q)' => q # p /\ cache'[q] = cache[q]
  BY <1>2 DEF Fresh, NoEntry
<1> QED BY <1>1, <1>2, <1>3 DEF Higher

(* What a load relies on survives an invalidation anywhere.                *)
LEMMA LoadSurvives ==
    ASSUME IInv, TypeOK', NEW p \in Procs, NEW rev \in Nat, NEW bumps \in Nat \ {0},
           rev <= store.revision,
           Invalidated(p, rev, bumps),
           UNCHANGED <<store, version>>,
           NEW d \in Requests,
           \/ req'[d] = req[d]
           \/ req[d].pc = "announceLoad" /\ req'[d] = [req[d] EXCEPT !.pc = "fill"]
    PROVE  WriteInv(d)' /\ LoadInv(d)'
<1>1. Home[d] \in Procs
  BY HomeAssumption
<1>2. WriteInv(d) /\ LoadInv(d) /\ req[d] \in Request
  BY DEF IInv, TypeOK
<1>3. /\ req[d].base.revision \in Nat /\ req[d].loadGen \in Nat /\ req[d].floor \in Nat
      /\ generation[Home[d]] \in Nat /\ generation'[Home[d]] \in Nat
      /\ acked[Home[d]] \in Nat /\ acked'[Home[d]] \in Nat
  BY <1>1, <1>2, RecordShape DEF IInv, TypeOK, Request, Rec
<1>4. /\ acked[Home[d]] <= acked'[Home[d]]
      /\ generation[Home[d]] <= generation'[Home[d]]
      /\ \/ generation[Home[d]] < generation'[Home[d]]
         \/ acked'[Home[d]] = acked[Home[d]] /\ generation'[Home[d]] = generation[Home[d]]
  BY <1>1, InvalidateStep
<1>5. WriteInv(d)'
  BY <1>2 DEF WriteInv, Behind, VersionOf, Request
<1>6. LoadInv(d)'
  BY <1>2, <1>3, <1>4 DEF LoadInv, Loading, Request
<1> QED BY <1>5, <1>6

-------------------------------------------------------------------------------
(* The invariant is preserved by every step.                               *)
LEMMA InvStep == IInv /\ [Next]_vars => IInv'
<1> SUFFICES ASSUME IInv, [Next]_vars PROVE IInv'
  OBVIOUS
<1>1. TypeOK /\ TypeOK'
  BY TypeStep DEF IInv
<1>2. store \in Rec /\ store.revision \in Nat
  BY <1>1, RecordShape DEF TypeOK, Rec
<1>3. CASE UNCHANGED vars
  <2>1. \A c \in Requests : (WriteInv(c) /\ LoadInv(c))'
    BY <1>3 DEF vars, IInv, WriteInv, LoadInv, Behind, VersionOf
  <2>2. \A p \in Procs : ProcessInv(p)'
    BY <1>3 DEF vars, IInv, ProcessInv, Fresh
  <2> QED BY <1>1, <2>1, <2>2 DEF IInv
<1>4. ASSUME NEW c \in Requests, Ask(c) PROVE IInv'
  <2>1. NoRecord.revision <= store.revision /\ (store.revision = NoRecord.revision => store = NoRecord)
    BY <1>2, RecordShape DEF NoRecord
  <2>2. CASE GetMiss(c)
    <3> DEFINE r == [Idle EXCEPT !.pc = "load", !.loadGen = generation[Home[c]],
                                 !.floor = acked[Home[c]]]
    <3>1. req' = [req EXCEPT ![c] = r]
          /\ UNCHANGED <<store, version, cache, generation, events, acked>>
      BY <2>2 DEF GetMiss
    <3>2. req'[c] = r
      BY <1>1, <3>1 DEF TypeOK
    <3>3. generation[Home[c]] \in Nat /\ acked[Home[c]] \in Nat
      BY <1>1, HomeAssumption DEF TypeOK
    <3>4. /\ r.pc = "load" /\ r.base = NoRecord
          /\ r.loadGen = generation[Home[c]] /\ r.floor = acked[Home[c]]
      BY DEF Idle
    <3> HIDE DEF r
    <3>5. WriteInv(c)' /\ LoadInv(c)'
      BY <2>1, <3>1, <3>2, <3>3, <3>4 DEF WriteInv, LoadInv, Behind, Loading
    <3> QED BY <1>1, <3>1, <3>5, OwnStep
  <2>3. ASSUME NEW patch \in Patches, NEW shown \in 0 .. MaxRevision, Set(c, patch, shown)
        PROVE  IInv'
    <3> DEFINE r == [Idle EXCEPT !.pc = "setRead", !.patch = patch, !.expected = shown]
    <3>1. req' = [req EXCEPT ![c] = r]
          /\ UNCHANGED <<store, version, cache, generation, events, acked>>
      BY <2>3 DEF Set
    <3>2. req'[c] = r
      BY <1>1, <3>1 DEF TypeOK
    <3>3. shown <= store.revision
      BY <1>2, <2>3 DEF Set
    <3>4. r.pc = "setRead" /\ r.base = NoRecord /\ r.expected = shown
      BY DEF Idle
    <3> HIDE DEF r
    <3>5. WriteInv(c)' /\ LoadInv(c)'
      BY <2>1, <3>1, <3>2, <3>3, <3>4 DEF WriteInv, LoadInv, Behind, Loading
    <3> QED BY <1>1, <3>1, <3>5, OwnStep
  <2>4. ASSUME NEW keys \in ResetKeys, Reset(c, keys) PROVE IInv'
    <3> DEFINE r == [Idle EXCEPT !.pc = "resetRead", !.patch = [f \in keys |-> Unset]]
    <3>1. req' = [req EXCEPT ![c] = r]
          /\ UNCHANGED <<store, version, cache, generation, events, acked>>
      BY <2>4 DEF Reset
    <3>2. req'[c] = r
      BY <1>1, <3>1 DEF TypeOK
    <3>3. r.pc = "resetRead" /\ r.base = NoRecord /\ r.expected = 0
      BY DEF Idle
    <3> HIDE DEF r
    <3>4. WriteInv(c)' /\ LoadInv(c)'
      BY <2>1, <3>1, <3>2, <3>3 DEF WriteInv, LoadInv, Behind, Loading
    <3> QED BY <1>1, <3>1, <3>4, OwnStep
  <2> QED BY <1>4, <2>2, <2>3, <2>4 DEF Ask
<1>5. ASSUME NEW c \in Requests, Proceed(c) PROVE IInv'
  <2> DEFINE p == Home[c]
  <2>1. /\ p \in Procs
        /\ req[c] \in Request
        /\ WriteInv(c) /\ LoadInv(c)
        /\ acked[p] \in Nat /\ acked[p] <= store.revision
        /\ generation[p] \in Nat
    BY <1>1, HomeAssumption DEF IInv, ProcessInv, TypeOK
  <2>2. /\ req[c].base \in Rec /\ req[c].base.revision \in Nat
        /\ req[c].expected \in Nat /\ req[c].floor \in Nat /\ req[c].loadGen \in Nat
    BY <2>1, RecordShape DEF Request, Rec
  <2>3. CASE LoadRead(c)
    <3> DEFINE r == [req[c] EXCEPT !.base = store,
                                   !.pc = IF NeedsWriteBack(VersionOf(c), store)
                                          THEN "writeBack" ELSE "fill"]
    <3>1. req' = [req EXCEPT ![c] = r]
          /\ UNCHANGED <<store, version, cache, generation, events, acked>>
      BY <2>3 DEF LoadRead
    <3>2. req'[c] = r
      BY <1>1, <3>1 DEF TypeOK
    <3>3. r.base = store /\ r.floor = req[c].floor /\ r.loadGen = req[c].loadGen
          /\ \/ r.pc = "writeBack" /\ NeedsWriteBack(VersionOf(c), store)
             \/ r.pc = "fill"
      BY <2>1 DEF Request
    <3> HIDE DEF r
    <3>4. WriteInv(c)'
      BY <1>2, <3>1, <3>2, <3>3 DEF WriteInv, Behind, VersionOf
    <3>5. LoadInv(c)'
      BY <1>2, <2>1, <2>2, <2>3, <3>1, <3>2, <3>3 DEF LoadInv, Loading, LoadRead
    <3> QED BY <1>1, <3>1, <3>4, <3>5, OwnStep
  <2>4. CASE Reread(c)
    <3> DEFINE r == [req[c] EXCEPT !.base = store, !.pc = "fill"]
    <3>1. req' = [req EXCEPT ![c] = r]
          /\ UNCHANGED <<store, version, cache, generation, events, acked>>
      BY <2>4 DEF Reread
    <3>2. req'[c] = r
      BY <1>1, <3>1 DEF TypeOK
    <3>3. r.base = store /\ r.floor = req[c].floor /\ r.loadGen = req[c].loadGen
          /\ r.pc = "fill"
      BY <2>1 DEF Request
    <3> HIDE DEF r
    <3>4. WriteInv(c)'
      BY <1>2, <3>1, <3>2, <3>3 DEF WriteInv, Behind
    <3>5. LoadInv(c)'
      BY <1>2, <2>1, <2>2, <2>4, <3>1, <3>2, <3>3 DEF LoadInv, Loading, Reread
    <3> QED BY <1>1, <3>1, <3>4, <3>5, OwnStep
  <2>5. ASSUME NEW pc \in {"reread", "fill"}, req[c].pc = "writeBack",
               req' = [req EXCEPT ![c].pc = pc],
               UNCHANGED <<store, version, cache, generation, events, acked>>
        PROVE  IInv'
    <3> DEFINE r == [req[c] EXCEPT !.pc = pc]
    <3>1. req' = [req EXCEPT ![c] = r]
      BY <2>5
    <3>2. req'[c] = r
      BY <1>1, <3>1 DEF TypeOK
    <3>3. r.base = req[c].base /\ r.floor = req[c].floor /\ r.loadGen = req[c].loadGen
          /\ r.pc \in {"reread", "fill"}
      BY <2>1, <2>5 DEF Request
    <3> HIDE DEF r
    <3>4. WriteInv(c)'
      BY <2>1, <2>5, <3>2, <3>3 DEF WriteInv, Behind
    <3>5. LoadInv(c)'
      BY <2>1, <2>2, <2>5, <3>2, <3>3 DEF LoadInv, Loading
    <3> QED BY <1>1, <2>5, <3>1, <3>4, <3>5, OwnStep
  <2>6. CASE WriteBackConflicts(c) \/ WriteBackFails(c)
    BY <2>5, <2>6 DEF WriteBackConflicts, WriteBackFails
  <2>7. CASE WriterReads(c)
    <3> DEFINE expected == IF req[c].expected = 0 THEN store.revision ELSE req[c].expected
               r == [req[c] EXCEPT !.pc = "write", !.base = store, !.expected = expected]
    <3>1. req' = [req EXCEPT ![c] = r]
          /\ UNCHANGED <<store, version, cache, generation, events, acked>>
      BY <2>7 DEF WriterReads
    <3>2. req'[c] = r
      BY <1>1, <3>1 DEF TypeOK
    <3>3. expected <= store.revision
      BY <1>2, <2>1, <2>2, <2>7 DEF WriterReads, WriteInv
    <3>4. r.base = store /\ r.expected = expected /\ r.pc = "write"
      BY <2>1 DEF Request
    <3>5. Writable(VersionOf(c), store)
      BY <2>7 DEF WriterReads
    <3> HIDE DEF r, expected
    <3>6. WriteInv(c)'
      BY <1>2, <3>1, <3>2, <3>3, <3>4, <3>5 DEF WriteInv, Behind, VersionOf
    <3>7. LoadInv(c)'
      BY <3>2, <3>4 DEF LoadInv, Loading
    <3> QED BY <1>1, <3>1, <3>6, <3>7, OwnStep
  <2>8. CASE WriterTurnedAway(c) \/ WriteConflicts(c) \/ StoreFails(c)
    BY <1>1, <2>8, EndStep DEF WriterTurnedAway, WriteConflicts, StoreFails
  <2>9. ASSUME NEW pc \in {"announce", "announceLoad"}, NEW next \in StoredSettings,
               pc = "announceLoad" => req[c].pc = "writeBack",
               next.revision = req[c].base.revision + 1,
               store.revision = req[c].base.revision,
               store' = next,
               req' = [req EXCEPT ![c].pc = pc, ![c].base = next],
               UNCHANGED <<version, cache, generation, events, acked>>
        PROVE  IInv'
    <3> DEFINE r == [req[c] EXCEPT !.pc = pc, !.base = next]
    <3>1. req' = [req EXCEPT ![c] = r]
      BY <2>9
    <3>2. req'[c] = r
      BY <1>1, <3>1 DEF TypeOK
    <3>3. r.base = next /\ r.floor = req[c].floor /\ r.loadGen = req[c].loadGen
          /\ r.pc = pc
      BY <2>1 DEF Request
    <3> HIDE DEF r
    <3>4. WriteInv(c)'
      BY <1>2, <2>9, <3>2, <3>3 DEF WriteInv, Behind
    <3>5. LoadInv(c)'
      BY <2>1, <2>2, <2>9, <3>2, <3>3 DEF LoadInv, Loading
    <3> QED BY <1>1, <2>9, <3>1, <3>4, <3>5, LandStep
  <2>10. CASE WriteBackLands(c)
    <3> DEFINE next == Replacement(c, Migration(VersionOf(c), req[c].base).values, "kernel")
    <3>1. store' = next /\ next \in StoredSettings
      BY <1>1, <2>2, <2>10, RecordShape DEF WriteBackLands, TypeOK, Replacement, NoRecord
    <3>2. next.revision = req[c].base.revision + 1
      BY DEF Replacement
    <3>3. store.revision = req[c].base.revision
      BY <2>10 DEF WriteBackLands, AtRevision
    <3> HIDE DEF next
    <3>4. req' = [req EXCEPT ![c].pc = "announceLoad", ![c].base = next]
      BY <2>10 DEF WriteBackLands, next
    <3>5. req[c].pc = "writeBack" /\ UNCHANGED <<version, cache, generation, events, acked>>
      BY <2>10 DEF WriteBackLands
    <3> QED BY <2>9, <3>1, <3>2, <3>3, <3>4, <3>5
  <2>11. CASE WriteLands(c)
    <3> DEFINE next == Replacement(c, Merge(Readable(VersionOf(c), req[c].base),
                                            req[c].patch), "user")
    <3>1. store' = next /\ next \in StoredSettings
      BY <1>1, <2>2, <2>11, RecordShape DEF WriteLands, TypeOK, Replacement, NoRecord
    <3>2. next.revision = req[c].base.revision + 1
      BY DEF Replacement
    <3>3. store.revision = req[c].base.revision
      BY <1>2, <2>1, <2>2, <2>11 DEF WriteLands, AtRevision, WriteInv, Behind
    <3> HIDE DEF next
    <3>4. req' = [req EXCEPT ![c].pc = "announce", ![c].base = next]
      BY <2>11 DEF WriteLands, next
    <3>5. req[c].pc = "write" /\ UNCHANGED <<version, cache, generation, events, acked>>
      BY <2>11 DEF WriteLands
    <3> QED BY <2>9, <3>1, <3>2, <3>3, <3>4, <3>5
  <2>12. CASE Fill(c)
    <3> DEFINE entry == [left |-> TTL, revision |-> req[c].base.revision,
                         values |-> Readable(VersionOf(c), req[c].base)]
    <3>1. /\ req[c].pc = "fill"
          /\ req' = [req EXCEPT ![c] = Idle]
          /\ UNCHANGED <<store, version, generation, events, acked>>
          /\ \/ cache' = cache
             \/ generation[p] = req[c].loadGen /\ cache' = [cache EXCEPT ![p] = entry]
      BY <2>12 DEF Fill
    <3>2. CASE cache' = cache
      BY <1>1, <3>1, <3>2, EndStep
    <3>3. CASE generation[p] = req[c].loadGen /\ cache' = [cache EXCEPT ![p] = entry]
      <4>1. ASSUME NEW d \in Requests PROVE (WriteInv(d) /\ LoadInv(d))'
        <5>1. CASE d = c
          <6>1. req'[d] = Idle
            BY <1>1, <3>1, <5>1 DEF TypeOK
          <6>2. NoRecord.revision <= store.revision
                /\ (store.revision = 0 => store = NoRecord)
            BY <1>2, RecordShape DEF NoRecord
          <6> QED BY <3>1, <6>1, <6>2 DEF WriteInv, LoadInv, Idle, Behind, Loading, NoRecord
        <5>2. CASE d # c
          <6>1. req'[d] = req[d]
            BY <1>1, <3>1, <5>2 DEF TypeOK
          <6> QED BY <3>1, <6>1 DEF IInv, WriteInv, LoadInv, Behind, VersionOf
        <5> QED BY <5>1, <5>2
      <4>2. ProcessInv(p)'
        <5>1. cache'[p] = entry
          BY <1>1, <2>1, <3>3 DEF TypeOK
        <5>2. acked[p] <= req[c].base.revision /\ Behind(req[c].base)
          BY <2>1, <2>2, <3>1, <3>3 DEF LoadInv, WriteInv, Loading
        <5>3. ProcessInv(p)
          BY <2>1 DEF IInv
        <5> QED BY <3>1, <5>1, <5>2, <5>3 DEF ProcessInv, Behind, VersionOf
      <4>3. ASSUME NEW q \in Procs, q # p PROVE ProcessInv(q)'
        <5>1. cache'[q] = cache[q]
          BY <1>1, <3>3, <4>3 DEF TypeOK
        <5> QED BY <3>1, <5>1 DEF IInv, ProcessInv, Fresh
      <4> QED BY <1>1, <4>1, <4>2, <4>3 DEF IInv
    <3> QED BY <3>1, <3>2, <3>3
  <2>13. CASE Announce(c)
    <3> DEFINE rev == req[c].base.revision
    <3>1. /\ req[c].pc \in {"announce", "announceLoad"}
          /\ Invalidated(p, rev, 2)
          /\ req' = [req EXCEPT ![c] = IF @.pc = "announce" THEN Idle
                                       ELSE [@ EXCEPT !.pc = "fill"]]
          /\ UNCHANGED <<store, version>>
      BY <2>13 DEF Announce
    <3>2. rev \in Nat /\ rev <= store.revision
      BY <2>1, <2>2 DEF WriteInv, Behind
    <3>3. ASSUME NEW d \in Requests PROVE (WriteInv(d) /\ LoadInv(d))'
      <4>1. CASE d = c /\ req[c].pc = "announce"
        <5>1. req'[d] = Idle
          BY <1>1, <3>1, <4>1 DEF TypeOK
        <5>2. NoRecord.revision <= store.revision
              /\ (store.revision = 0 => store = NoRecord)
          BY <1>2, RecordShape DEF NoRecord
        <5> QED BY <3>1, <5>1, <5>2 DEF WriteInv, LoadInv, Idle, Behind, Loading, NoRecord
      <4>2. CASE ~(d = c /\ req[c].pc = "announce")
        <5>1. \/ req'[d] = req[d]
              \/ req[d].pc = "announceLoad" /\ req'[d] = [req[d] EXCEPT !.pc = "fill"]
          BY <1>1, <3>1, <4>2 DEF TypeOK
        <5> QED BY <1>1, <2>1, <3>1, <3>2, <5>1, LoadSurvives
      <4> QED BY <4>1, <4>2
    <3>4. ASSUME NEW q \in Procs PROVE ProcessInv(q)'
      <4>1. /\ acked'[q] <= store.revision
            /\ Fresh(q)' => q # p /\ cache'[q] = cache[q]
            /\ q # p => acked'[q] = acked[q]
        BY <1>1, <2>1, <3>1, <3>2, InvalidateStep
      <4>2. \A r \in events'[q] : r \in events[q] \/ r = rev
        BY <2>13 DEF Announce
      <4>3. ProcessInv(q)
        BY DEF IInv
      <4> QED BY <3>1, <3>2, <4>1, <4>2, <4>3 DEF ProcessInv, Fresh
    <3> QED BY <1>1, <3>3, <3>4 DEF IInv
  <2> QED BY <1>5, <2>3, <2>4, <2>6, <2>7, <2>8, <2>10, <2>11, <2>12, <2>13 DEF Proceed
<1>6. CASE Deployment
  <2>1. CASE Tick
    <3>1. \A c \in Requests : (WriteInv(c) /\ LoadInv(c))'
      BY <2>1 DEF Tick, IInv, WriteInv, LoadInv, Behind, VersionOf
    <3>2. ASSUME NEW p \in Procs PROVE ProcessInv(p)'
      <4>1. cache'[p] = Aged(cache[p])
            /\ UNCHANGED <<store, version, generation, req, events, acked>>
        BY <2>1 DEF Tick
      <4>2. cache[p] \in [left : 0 .. TTL, revision : Nat, values : FieldMap]
        BY <1>1 DEF TypeOK
      <4>3. Fresh(p)' => /\ Fresh(p)
                         /\ cache'[p].revision = cache[p].revision
                         /\ cache'[p].values = cache[p].values
        BY <4>1, <4>2, TTLAssumption DEF Aged, Fresh, NoEntry
      <4> QED BY <4>1, <4>3 DEF IInv, ProcessInv
    <3> QED BY <1>1, <3>1, <3>2 DEF IInv
  <2>2. ASSUME NEW p \in Procs, NEW rev \in events[p], Deliver(p, rev) PROVE IInv'
    <3>1. /\ Invalidated(p, rev, 1)
          /\ events' = [events EXCEPT ![p] = @ \ {rev}]
          /\ UNCHANGED <<store, version, req>>
      BY <2>2 DEF Deliver
    <3>2. rev \in Nat /\ rev <= store.revision
      BY <1>1 DEF TypeOK, IInv, ProcessInv
    <3>3. \A d \in Requests : (WriteInv(d) /\ LoadInv(d))'
      BY <1>1, <3>1, <3>2, LoadSurvives
    <3>4. ASSUME NEW q \in Procs PROVE ProcessInv(q)'
      <4>1. /\ acked'[q] <= store.revision
            /\ Fresh(q)' => q # p /\ cache'[q] = cache[q]
            /\ q # p => acked'[q] = acked[q]
        BY <1>1, <3>1, <3>2, InvalidateStep
      <4>2. events'[q] \subseteq events[q]
        BY <1>1, <3>1 DEF TypeOK
      <4>3. ProcessInv(q)
        BY DEF IInv
      <4> QED BY <3>1, <4>1, <4>2, <4>3 DEF ProcessInv, Fresh
    <3> QED BY <1>1, <3>3, <3>4 DEF IInv
  <2>3. ASSUME NEW p \in Procs, Restart(p) PROVE IInv'
    <3>1. ASSUME NEW d \in Requests PROVE (WriteInv(d) /\ LoadInv(d))'
      <4>1. CASE Home[d] = p
        <5>1. req'[d] = Idle /\ store' = store
          BY <2>3, <4>1 DEF Restart
        <5>2. NoRecord.revision <= store.revision
              /\ (store.revision = 0 => store = NoRecord)
          BY <1>2, RecordShape DEF NoRecord
        <5> QED BY <5>1, <5>2 DEF WriteInv, LoadInv, Idle, Behind, Loading, NoRecord
      <4>2. CASE Home[d] # p
        <5>1. /\ req'[d] = req[d] /\ store' = store
              /\ version'[Home[d]] = version[Home[d]]
              /\ generation'[Home[d]] = generation[Home[d]]
              /\ acked'[Home[d]] = acked[Home[d]]
          BY <1>1, <2>3, <4>2, HomeAssumption DEF Restart, TypeOK
        <5> QED BY <5>1 DEF IInv, WriteInv, LoadInv, Behind, VersionOf
      <4> QED BY <4>1, <4>2
    <3>2. ASSUME NEW q \in Procs PROVE ProcessInv(q)'
      <4>1. CASE q = p
        <5>1. cache'[q] = NoEntry /\ acked'[q] = 0 /\ events'[q] = {} /\ store' = store
          BY <1>1, <2>3, <4>1 DEF Restart, TypeOK
        <5> QED BY <1>2, <5>1 DEF ProcessInv, Fresh, NoEntry
      <4>2. CASE q # p
        <5>1. /\ cache'[q] = cache[q] /\ acked'[q] = acked[q] /\ events'[q] = events[q]
              /\ version'[q] = version[q] /\ store' = store
          BY <1>1, <2>3, <4>2 DEF Restart, TypeOK
        <5> QED BY <5>1 DEF IInv, ProcessInv, Fresh
      <4> QED BY <4>1, <4>2
    <3> QED BY <1>1, <3>1, <3>2 DEF IInv
  <2> QED BY <1>6, <2>1, <2>2, <2>3 DEF Deployment
<1> QED BY <1>3, <1>4, <1>5, <1>6 DEF Next

-------------------------------------------------------------------------------
(* The invariant holds in every reachable state.                           *)
THEOREM Invariance == Spec => []IInv
<1>1. Init => IInv
  BY InvInit
<1>2. IInv /\ [Next]_vars => IInv'
  BY InvStep
<1> QED BY <1>1, <1>2, PTL DEF Spec

(* Every variable keeps its type: no sequence of awaits leaves a record, an*)
(* entry or a request of a shape the code does not expect.                 *)
THEOREM TypeCorrect == Spec => []TypeOK
<1>1. IInv => TypeOK
  BY DEF IInv
<1> QED BY <1>1, Invariance, PTL

(* A read that begins after a process announced a change answers with that *)
(* change or a later one (settings-service.ts write, cache.ts read).       *)
THEOREM ReadYourWrites == Spec => []ReadsSeeAnnounced
<1>1. IInv => ReadsSeeAnnounced
  <2> SUFFICES ASSUME IInv PROVE ReadsSeeAnnounced
    OBVIOUS
  <2>1. ASSUME NEW p \in Procs, Fresh(p) PROVE cache[p].revision >= acked[p]
    <3>1. acked[p] \in Nat /\ cache[p].revision \in Nat
      BY DEF IInv, TypeOK
    <3> QED BY <2>1, <3>1 DEF IInv, ProcessInv
  <2>2. ASSUME NEW c \in Requests, req[c].pc = "fill"
        PROVE  req[c].base.revision >= req[c].floor
    <3>1. req[c].base \in Rec /\ req[c].floor \in Nat
      BY DEF IInv, TypeOK, Request, Rec
    <3>2. req[c].base.revision \in Nat
      BY <3>1, RecordShape
    <3> QED BY <2>2, <3>1, <3>2 DEF IInv, LoadInv, Loading
  <2> QED BY <2>1, <2>2 DEF ReadsSeeAnnounced, CacheKeepsUp, LoadsKeepUp
<1> QED BY <1>1, Invariance, PTL

(* What a process caches for the current revision is what the record reads *)
(* as under its own declaration (settings-service.ts load, readable).      *)
THEOREM CacheHoldsWhatReads == Spec => []CacheFaithful
<1>1. IInv => CacheFaithful
  BY DEF IInv, ProcessInv, CacheFaithful
<1> QED BY <1>1, Invariance, PTL

-------------------------------------------------------------------------------
(* The record's functions are the service's.                               *)
LEMMA SameData ==
    /\ Record!Patch = Patch
    /\ \A v, rec : Record!Writable(v, rec) <=> Writable(v, rec)
    /\ \A v, rec : Record!NeedsWriteBack(v, rec) <=> NeedsWriteBack(v, rec)
    /\ \A v, rec : Record!Migration(v, rec) = Migration(v, rec)
    /\ \A v, rec : Record!Readable(v, rec) = Readable(v, rec)
    /\ \A values, patch : Record!Merge(values, patch) = Merge(values, patch)
BY DEF Record!Patch, Record!Writable, Record!NeedsWriteBack, Record!Outdated,
       Record!NoRecord, Record!AllUnset, Record!Migration, Record!Decoded,
       Record!InvalidKeys, Record!Readable, Record!Merge,
       Patch, Writable, NeedsWriteBack, Outdated, NoRecord, AllUnset, Migration,
       Decoded, InvalidKeys, Readable, Merge

(* Each step of the service is a step of the atomic record, or leaves the  *)
(* record alone: a write only lands on the record its request read.        *)
LEMMA RecordStep == IInv /\ [Next]_vars => [Record!Next]_store
<1> SUFFICES ASSUME IInv, [Next]_vars PROVE Record!Next \/ UNCHANGED store
  OBVIOUS
<1>1. ASSUME NEW c \in Requests, WriteBackLands(c) PROVE Record!Next
  <2>1. store = req[c].base
    BY <1>1 DEF WriteBackLands, AtRevision, IInv, WriteInv, Behind
  <2>2. NeedsWriteBack(VersionOf(c), store) /\ VersionOf(c) \in Versions
    BY <1>1, <2>1, HomeAssumption DEF WriteBackLands, IInv, WriteInv, TypeOK, VersionOf
  <2>3. store' = [version |-> VersionOf(c), revision |-> store.revision + 1,
                  values |-> Migration(VersionOf(c), store).values, by |-> "kernel"]
    BY <1>1, <2>1 DEF WriteBackLands, Replacement
  <2>4. Record!KernelMigrates(VersionOf(c))
    BY <2>2, <2>3, SameData DEF Record!KernelMigrates
  <2> QED BY <2>2, <2>4 DEF Record!Next
<1>2. ASSUME NEW c \in Requests, WriteLands(c) PROVE Record!Next
  <2>1. store = req[c].base
    <3>1. /\ req[c].base \in Rec /\ store \in Rec /\ req[c].expected \in Nat
          /\ WriteInv(c)
      BY DEF IInv, TypeOK, Request, Rec
    <3>2. req[c].base.revision \in Nat /\ store.revision \in Nat
      BY <3>1, RecordShape
    <3> QED BY <1>2, <3>1, <3>2 DEF WriteLands, AtRevision, WriteInv, Behind
  <2>2. Writable(VersionOf(c), store) /\ VersionOf(c) \in Versions /\ req[c].patch \in Patch
    BY <1>2, <2>1, HomeAssumption DEF WriteLands, IInv, WriteInv, TypeOK, Request, VersionOf
  <2>3. store' = [version |-> VersionOf(c), revision |-> store.revision + 1,
                  values |-> Merge(Readable(VersionOf(c), store), req[c].patch),
                  by |-> "user"]
    BY <1>2, <2>1 DEF WriteLands, Replacement
  <2>4. Record!UserWrites(VersionOf(c), req[c].patch)
    BY <2>2, <2>3, SameData DEF Record!UserWrites
  <2> QED BY <2>2, <2>4, SameData DEF Record!Next
<1>3. ASSUME NEW c \in Requests, Ask(c) PROVE UNCHANGED store
  BY <1>3 DEF Ask, GetMiss, Set, Reset
<1>4. ASSUME NEW c \in Requests, Proceed(c) PROVE Record!Next \/ UNCHANGED store
  BY <1>1, <1>2, <1>4 DEF Proceed, LoadRead, WriteBackConflicts, WriteBackFails, Reread, Fill,
     WriterReads, WriterTurnedAway, WriteConflicts, StoreFails, Announce
<1>5. CASE Deployment
  BY <1>5 DEF Deployment, Tick, Deliver, Restart
<1>6. CASE UNCHANGED vars
  BY <1>6 DEF vars
<1> QED BY <1>3, <1>4, <1>5, <1>6 DEF Next

(* The service implements the atomic record: no update is lost, a record is*)
(* migrated once per version, a newer one is never overwritten.            *)
THEOREM NoLostUpdate == Spec => AtomicRecord
<1>1. Init => Record!Init
  BY DEF Init, Record!Init
<1>2. IInv /\ [Next]_vars => [Record!Next]_store
  BY RecordStep
<1> QED BY <1>1, <1>2, Invariance, PTL DEF Spec, AtomicRecord, Record!Spec

(* FR-019: whatever processes of other versions do meanwhile, no step      *)
(* replaces a record by one of an older version.                           *)
THEOREM NewerVersionsAreKept == Spec => NewerVersionKept
<1>1. IInv /\ [Next]_vars => [store.version <= store'.version]_vars
  <2> SUFFICES ASSUME IInv, [Next]_vars PROVE store.version <= store'.version
    OBVIOUS
  <2>1. store.version \in Nat
    BY RecordShape DEF IInv, TypeOK, Rec
  <2>2. Record!Next \/ UNCHANGED store
    BY RecordStep
  <2>3. CASE Record!Next
    <3>1. PICK v \in Versions : \/ Record!KernelMigrates(v)
                               \/ \E patch \in Patch : Record!UserWrites(v, patch)
      BY <2>3, SameData DEF Record!Next
    <3>2. v \in Nat
      BY VersionsAssumption
    <3>3. store'.version = v /\ store.version <= v
      BY <2>1, <3>1, <3>2, SameData
      DEF Record!KernelMigrates, Record!UserWrites, NeedsWriteBack, Outdated, Writable
    <3> QED BY <3>3
  <2> QED BY <2>1, <2>2, <2>3
<1> QED BY <1>1, Invariance, PTL DEF Spec, NewerVersionKept

-------------------------------------------------------------------------------
(* Where no write passes a cache by: there is one process, or events reach *)
(* every other and no process is restarted, which would lose the events of *)
(* a write that has just landed.                                           *)
EveryWriteHeard ==
    \/ \E p \in Procs : Procs = {p}
    \/ Bridged /\ Restartable = {}

(* A stale entry, or a load about to become one, is owed an announcement.  *)
Coherent(p) ==
    /\ Current(p) \/ Owed(p)
    /\ \A c \in Requests :
          Home[c] = p /\ req[c].pc \in {"writeBack", "fill"} /\ req[c].loadGen = generation[p] =>
              req[c].base.revision = store.revision \/ Owed(p)

CoherenceInv == EveryWriteHeard /\ IInv /\ \A p \in Procs : Coherent(p)

LEMMA CoherenceInit == EveryWriteHeard /\ Init => CoherenceInv
<1> SUFFICES ASSUME Init, NEW p \in Procs PROVE Coherent(p)
  BY InvInit DEF CoherenceInv
<1>1. ~Fresh(p) /\ \A c \in Requests : req[c].pc = "idle"
  BY DEF Init, Fresh, NoEntry, Idle
<1> QED BY <1>1 DEF Coherent, Current

(* A step of a request that announces nothing leaves what is owed, and only*)
(* has to answer for its own load.                                         *)
LEMMA CoherentOwnStep ==
    ASSUME CoherenceInv, NEW c \in Requests, NEW r, req' = [req EXCEPT ![c] = r],
           req[c].pc \notin {"announce", "announceLoad"},
           UNCHANGED <<store, version, generation, events, acked>>,
           \/ r.pc \notin {"writeBack", "fill"}
           \/ r.base.revision = store.revision
           \/ /\ r.base = req[c].base /\ r.loadGen = req[c].loadGen
              /\ req[c].pc \in {"writeBack", "fill"},
           NEW p \in Procs,
           \/ cache' = cache
           \/ /\ req[c].pc = "fill" /\ Home[c] = p => req[c].loadGen = generation[p]
              /\ Fresh(p)' => \/ cache'[p].revision = req[c].base.revision
                                 /\ Home[c] = p /\ req[c].pc = "fill"
                              \/ cache'[p] = cache[p]
    PROVE  Coherent(p)'
<1>1. req'[c] = r /\ \A d \in Requests \ {c} : req'[d] = req[d]
  BY DEF CoherenceInv, IInv, TypeOK
<1>2. Coherent(p)
  BY DEF CoherenceInv
<1>3. Owed(p) => Owed(p)'
  BY <1>1 DEF Owed
<1>4. Current(p)' \/ Owed(p)'
  BY <1>2, <1>3 DEF Coherent, Current, Fresh
<1>5. ASSUME NEW d \in Requests, Home[d] = p, req'[d].pc \in {"writeBack", "fill"},
             req'[d].loadGen = generation[p]
      PROVE  req'[d].base.revision = store.revision \/ Owed(p)'
  BY <1>1, <1>2, <1>3, <1>5 DEF Coherent
<1> QED BY <1>4, <1>5 DEF Coherent

(* A write that lands owes every cache its announcement.                   *)
LEMMA CoherentLandStep ==
    ASSUME CoherenceInv, NEW c \in Requests, NEW next,
           NEW pc \in {"announce", "announceLoad"},
           store' = next, req' = [req EXCEPT ![c].pc = pc, ![c].base = next],
           NEW p \in Procs
    PROVE  Coherent(p)'
<1>1. req'[c].pc = pc /\ req'[c].base = next
  BY DEF CoherenceInv, IInv, TypeOK, Request
<1>2. Home[c] = p \/ Bridged
  BY HomeAssumption DEF CoherenceInv, EveryWriteHeard
<1>3. Owed(p)'
  BY <1>1, <1>2 DEF Owed
<1> QED BY <1>3 DEF Coherent

(* An invalidation empties the entry and overtakes every load of its       *)
(* process; it may only take from what is owed to that process.            *)
LEMMA CoherentInvalidation ==
    ASSUME CoherenceInv, TypeOK', NEW p \in Procs, NEW rev \in Nat, NEW bumps \in Nat \ {0},
           rev <= store.revision, Invalidated(p, rev, bumps), UNCHANGED <<store, version>>,
           \A d \in Requests :
               /\ req'[d].pc \in {"writeBack", "fill"} =>
                      /\ req[d].pc \in Loading
                      /\ req'[d].loadGen = req[d].loadGen
                      /\ Home[d] # p => req'[d] = req[d],
           \A q \in Procs \ {p} : Owed(q) => Owed(q)',
           NEW q \in Procs
    PROVE  Coherent(q)'
<1>1. /\ generation[q] \in Nat /\ generation'[q] \in Nat
      /\ q = p => generation[q] < generation'[q]
      /\ q # p => generation'[q] = generation[q]
      /\ Fresh(q)' => q # p /\ cache'[q] = cache[q]
  BY InvalidateStep DEF CoherenceInv, IInv, TypeOK
<1>2. CASE q = p
  <2>1. \A d \in Requests : Home[d] = q /\ req[d].pc \in Loading =>
            req[d].loadGen \in Nat /\ req[d].loadGen <= generation[q]
    BY DEF CoherenceInv, IInv, LoadInv, TypeOK, Request
  <2>2. \A d \in Requests : Home[d] = q /\ req'[d].pc \in {"writeBack", "fill"} =>
            req'[d].loadGen # generation'[q]
    BY <1>1, <1>2, <2>1
  <2> QED BY <1>1, <1>2, <2>2 DEF Coherent, Current
<1>3. CASE q # p
  <2>1. Coherent(q) /\ (Owed(q) => Owed(q)')
    BY <1>3 DEF CoherenceInv
  <2>2. Current(q)' \/ Owed(q)'
    BY <1>1, <1>3, <2>1 DEF Coherent, Current, Fresh
  <2>3. ASSUME NEW d \in Requests, Home[d] = q, req'[d].pc \in {"writeBack", "fill"},
               req'[d].loadGen = generation'[q]
        PROVE  req'[d].base.revision = store'.revision \/ Owed(q)'
    BY <1>1, <1>3, <2>1, <2>3 DEF Coherent
  <2> QED BY <2>2, <2>3 DEF Coherent
<1> QED BY <1>2, <1>3

LEMMA CoherenceStep == CoherenceInv /\ [Next]_vars => CoherenceInv'
<1> SUFFICES ASSUME CoherenceInv, [Next]_vars, NEW p \in Procs
             PROVE  Coherent(p)'
  BY InvStep DEF CoherenceInv, EveryWriteHeard
<1>0. TypeOK /\ TypeOK' /\ Coherent(p) /\ IInv
  BY TypeStep DEF CoherenceInv, IInv
<1>1. CASE UNCHANGED vars
  BY <1>0, <1>1 DEF vars, Coherent, Current, Owed, Fresh
<1>2. ASSUME NEW c \in Requests, Ask(c) PROVE Coherent(p)'
  <2>1. PICK r : req' = [req EXCEPT ![c] = r] /\ r.pc \notin {"writeBack", "fill"}
    <3>1. ASSUME GetMiss(c) PROVE \E r : req' = [req EXCEPT ![c] = r] /\ r.pc = "load"
      <4>1. PICK r : r = [Idle EXCEPT !.pc = "load", !.loadGen = generation[Home[c]],
                                      !.floor = acked[Home[c]]]
        OBVIOUS
      <4>2. req' = [req EXCEPT ![c] = r]
        BY <3>1, <4>1 DEF GetMiss
      <4>3. r.pc = "load"
        BY <4>1 DEF Idle
      <4> QED BY <4>2, <4>3
    <3>2. ASSUME NEW patch \in Patches, NEW shown \in 0 .. MaxRevision, Set(c, patch, shown)
          PROVE  \E r : req' = [req EXCEPT ![c] = r] /\ r.pc = "setRead"
      <4>1. PICK r : r = [Idle EXCEPT !.pc = "setRead", !.patch = patch, !.expected = shown]
        OBVIOUS
      <4>2. req' = [req EXCEPT ![c] = r]
        BY <3>2, <4>1 DEF Set
      <4>3. r.pc = "setRead"
        BY <4>1 DEF Idle
      <4> QED BY <4>2, <4>3
    <3>3. ASSUME NEW keys \in ResetKeys, Reset(c, keys)
          PROVE  \E r : req' = [req EXCEPT ![c] = r] /\ r.pc = "resetRead"
      <4>1. PICK r : r = [Idle EXCEPT !.pc = "resetRead", !.patch = [f \in keys |-> Unset]]
        OBVIOUS
      <4>2. req' = [req EXCEPT ![c] = r]
        BY <3>3, <4>1 DEF Reset
      <4>3. r.pc = "resetRead"
        BY <4>1 DEF Idle
      <4> QED BY <4>2, <4>3
    <3> QED BY <1>2, <3>1, <3>2, <3>3 DEF Ask
  <2>2. req[c].pc = "idle" /\ UNCHANGED <<store, version, cache, generation, events, acked>>
    BY <1>2 DEF Ask, GetMiss, Set, Reset
  <2> QED BY <2>1, <2>2, CoherentOwnStep
<1>3. ASSUME NEW c \in Requests, Proceed(c) PROVE Coherent(p)'
  <2>0. req[c] \in Request
    BY <1>0 DEF TypeOK
  <2>1. CASE LoadRead(c) \/ Reread(c)
    <3>1. PICK r : r = [req[c] EXCEPT !.base = store, !.pc = req'[c].pc]
      OBVIOUS
    <3>2. r.base = store
      BY <2>0, <3>1 DEF Request
    <3>3. req' = [req EXCEPT ![c] = r]
      <4>0. req \in [Requests -> Request]
        BY <1>0 DEF TypeOK
      <4>1. PICK pc : req' = [req EXCEPT ![c].base = store, ![c].pc = pc]
        BY <2>1 DEF LoadRead, Reread
      <4>2. req'[c].pc = pc
        BY <2>0, <4>0, <4>1 DEF Request
      <4> QED BY <3>1, <4>1, <4>2
    <3>4. /\ req[c].pc \in {"load", "reread"}
          /\ UNCHANGED <<store, version, cache, generation, events, acked>>
      BY <2>1 DEF LoadRead, Reread
    <3> QED BY <3>2, <3>3, <3>4, CoherentOwnStep
  <2>2. CASE WriteBackConflicts(c) \/ WriteBackFails(c)
    <3>1. PICK pc \in {"reread", "fill"} : req' = [req EXCEPT ![c].pc = pc]
      BY <2>2 DEF WriteBackConflicts, WriteBackFails
    <3>2. PICK r : r = [req[c] EXCEPT !.pc = pc]
      OBVIOUS
    <3>3. req' = [req EXCEPT ![c] = r]
      BY <3>1, <3>2
    <3>4. r.base = req[c].base /\ r.loadGen = req[c].loadGen
      BY <2>0, <3>2 DEF Request
    <3>5. /\ req[c].pc = "writeBack"
          /\ UNCHANGED <<store, version, cache, generation, events, acked>>
      BY <2>2 DEF WriteBackConflicts, WriteBackFails
    <3> QED BY <3>3, <3>4, <3>5, CoherentOwnStep
  <2>3. CASE WriterReads(c) \/ WriterTurnedAway(c) \/ WriteConflicts(c) \/ StoreFails(c)
    <3>1. PICK r : req' = [req EXCEPT ![c] = r] /\ r.pc \notin {"writeBack", "fill"}
      <4>1. CASE WriterReads(c)
        <5>1. PICK r : r = [req[c] EXCEPT !.pc = "write", !.base = store,
                               !.expected = IF req[c].expected = 0 THEN store.revision
                                            ELSE req[c].expected]
          OBVIOUS
        <5>2. r.pc = "write"
          BY <2>0, <5>1 DEF Request
        <5>3. req' = [req EXCEPT ![c] = r]
          BY <4>1, <5>1 DEF WriterReads
        <5> QED BY <5>2, <5>3
      <4>2. CASE ~WriterReads(c)
        BY <2>3, <4>2 DEF WriterTurnedAway, WriteConflicts, StoreFails, Idle
      <4> QED BY <4>1, <4>2
    <3>2. /\ req[c].pc \notin {"announce", "announceLoad"}
          /\ UNCHANGED <<store, version, cache, generation, events, acked>>
      BY <2>3 DEF WriterReads, WriterTurnedAway, WriteConflicts, StoreFails
    <3> QED BY <3>1, <3>2, CoherentOwnStep
  <2>4. CASE WriteBackLands(c) \/ WriteLands(c)
    <3>1. CASE WriteBackLands(c)
      BY <3>1, CoherentLandStep DEF WriteBackLands
    <3>2. CASE WriteLands(c)
      BY <3>2, CoherentLandStep DEF WriteLands
    <3> QED BY <2>4, <3>1, <3>2
  <2>5. CASE Fill(c)
    <3>1. /\ req' = [req EXCEPT ![c] = Idle] /\ Idle.pc = "idle" /\ req[c].pc = "fill"
          /\ UNCHANGED <<store, version, generation, events, acked>>
      BY <2>5 DEF Fill, Idle
    <3>2. CASE cache' = cache
      BY <3>1, <3>2, CoherentOwnStep
    <3>3. CASE cache' # cache
      <4>1. /\ generation[Home[c]] = req[c].loadGen
            /\ cache' = [cache EXCEPT ![Home[c]] =
                            [left |-> TTL, revision |-> req[c].base.revision,
                             values |-> Readable(VersionOf(c), req[c].base)]]
        BY <2>5, <3>3 DEF Fill
      <4>2. /\ Home[c] = p => cache'[p].revision = req[c].base.revision
            /\ Home[c] # p => cache'[p] = cache[p]
        BY <1>0, <4>1, HomeAssumption DEF TypeOK
      <4> QED BY <3>1, <4>1, <4>2, CoherentOwnStep
    <3> QED BY <3>2, <3>3
  <2>6. CASE Announce(c)
    <3> DEFINE home == Home[c]
               rev == req[c].base.revision
    <3>1. /\ home \in Procs /\ rev \in Nat /\ rev <= store.revision
          /\ Invalidated(home, rev, 2)
          /\ req[c].pc \in {"announce", "announceLoad"}
          /\ UNCHANGED <<store, version>>
      <4>1. req[c].base \in Rec /\ Behind(req[c].base)
        BY <1>0, <2>0 DEF IInv, WriteInv, Request, Rec
      <4> QED BY <2>6, <4>1, HomeAssumption, RecordShape DEF Announce, Behind
    <3>2. \A d \in Requests \ {c} : req'[d] = req[d]
      BY <1>0, <2>6 DEF Announce, TypeOK
    <3>3. /\ req[c].pc = "announce" => req'[c] = Idle
          /\ req[c].pc = "announceLoad" => req'[c] = [req[c] EXCEPT !.pc = "fill"]
      BY <1>0, <2>6 DEF Announce, TypeOK
    <3>4. \A d \in Requests :
              /\ req'[d].pc \in {"writeBack", "fill"} =>
                     /\ req[d].pc \in Loading
                     /\ req'[d].loadGen = req[d].loadGen
                     /\ Home[d] # home => req'[d] = req[d]
      <4>1. /\ req'[c].pc \in {"writeBack", "fill"} => req[c].pc = "announceLoad"
            /\ req[c].pc = "announceLoad" => req'[c].loadGen = req[c].loadGen
        BY <2>0, <3>1, <3>3 DEF Idle, Request
      <4> QED BY <3>2, <4>1 DEF Loading
    <3>5. ASSUME NEW q \in Procs \ {home}, Owed(q) PROVE Owed(q)'
      <4>1. events[q] \subseteq events'[q] /\ (Bridged => rev \in events'[q])
        BY <2>6, <3>5 DEF Announce
      <4>2. CASE store.revision \in events[q]
        BY <3>1, <4>1, <4>2 DEF Owed
      <4>3. CASE store.revision \notin events[q]
        <5>1. PICK d \in Requests : /\ req[d].pc \in {"announce", "announceLoad"}
                                    /\ req[d].base.revision = store.revision
                                    /\ Home[d] = q \/ Bridged
          BY <3>5, <4>3 DEF Owed
        <5>2. CASE d = c
          BY <3>1, <3>5, <4>1, <5>1, <5>2 DEF Owed
        <5>3. CASE d # c
          BY <3>1, <3>2, <5>1, <5>3 DEF Owed
        <5> QED BY <5>2, <5>3
      <4> QED BY <4>2, <4>3
    <3> HIDE DEF home, rev
    <3> QED BY <1>0, <3>1, <3>4, <3>5, CoherentInvalidation
  <2> QED BY <1>3, <2>1, <2>2, <2>3, <2>4, <2>5, <2>6 DEF Proceed
<1>4. CASE Tick
  <2>1. cache'[p] = Aged(cache[p])
        /\ UNCHANGED <<store, version, generation, req, events, acked>>
    BY <1>4 DEF Tick
  <2>2. cache[p] \in [left : 0 .. TTL, revision : Nat, values : FieldMap]
    BY <1>0 DEF TypeOK
  <2>3. Fresh(p)' => Fresh(p) /\ cache'[p].revision = cache[p].revision
    BY <2>1, <2>2, TTLAssumption DEF Aged, Fresh, NoEntry
  <2>4. Owed(p)' <=> Owed(p)
    BY <2>1 DEF Owed
  <2> QED BY <1>0, <2>1, <2>3, <2>4 DEF Coherent, Current
<1>5. ASSUME NEW q \in Procs, NEW rev \in events[q], Deliver(q, rev) PROVE Coherent(p)'
  <2>1. /\ Invalidated(q, rev, 1)
        /\ events' = [events EXCEPT ![q] = @ \ {rev}]
        /\ UNCHANGED <<store, version, req>>
    BY <1>5 DEF Deliver
  <2>2. rev \in Nat /\ rev <= store.revision
    BY <1>0 DEF TypeOK, IInv, ProcessInv
  <2>3. \A s \in Procs \ {q} : events'[s] = events[s]
    BY <1>0, <2>1 DEF TypeOK
  <2>4. \A s \in Procs \ {q} : Owed(s) => Owed(s)'
    BY <2>1, <2>3 DEF Owed
  <2>5. \A d \in Requests :
            /\ req'[d].pc \in {"writeBack", "fill"} =>
                   /\ req[d].pc \in Loading
                   /\ req'[d].loadGen = req[d].loadGen
                   /\ Home[d] # q => req'[d] = req[d]
    BY <2>1 DEF Loading
  <2> QED BY <1>0, <2>1, <2>2, <2>4, <2>5, CoherentInvalidation
<1>6. ASSUME NEW q \in Procs, Restart(q) PROVE Coherent(p)'
  <2>1. p = q
    BY <1>6 DEF Restart, CoherenceInv, EveryWriteHeard
  <2>2. ~Fresh(p)'
    BY <1>0, <1>6, <2>1 DEF Restart, TypeOK, Fresh, NoEntry
  <2>3. \A d \in Requests : Home[d] = p => req'[d].pc = "idle"
    BY <1>6, <2>1 DEF Restart, Idle
  <2> QED BY <2>2, <2>3 DEF Coherent, Current
<1> QED BY <1>1, <1>2, <1>3, <1>4, <1>5, <1>6 DEF Next, Deployment

(* Where every write is heard everywhere, a cache that is behind the store *)
(* has the announcement that drops its entry on the way, for any number of *)
(* processes, requests and events (settings-service.ts, cache.ts).         *)
THEOREM StaleOnlyWhileOwed == EveryWriteHeard /\ Spec => []CacheCoherent
<1>1. CoherenceInv => CacheCoherent
  BY DEF CoherenceInv, Coherent, CacheCoherent
<1> QED BY <1>1, CoherenceInit, CoherenceStep, PTL DEF Spec

===============================================================================
