---------------------------- MODULE SettingsService ----------------------------
(***************************************************************************)
(* createSettingsService over its ports, in every process that shares the  *)
(* store (Discord shards, an HTTP API): the read cache with its generations*)
(* and time to live, the lazy migration and its write-back, set and reset  *)
(* with their compare-and-set, and the change notifications.               *)
(*                                                                         *)
(* JavaScript runs a handler without interruption from one await to the    *)
(* next, so an action is the code between two awaits.  A store call takes  *)
(* effect in the action that awaits it; anything may happen between that   *)
(* and the action that resumes.                                            *)
(***************************************************************************)
EXTENDS SettingsData

CONSTANTS
    Procs,              \* processes, each with its own service and cache
    Requests,           \* callers, each making one request at a time
    Home,               \* Home[c]: the process caller c runs in
    InitialRecords,     \* what earlier runs of the bot may have left
    Patches,            \* the patches a submission may carry
    ResetKeys,          \* the key sets a reset may name
    TTL,                \* SETTINGS_CACHE_TTL_MS, in ticks of the clock
    Restartable,        \* processes that may restart, on any version
    Bridged,            \* the notifier reaches the other processes (an adapter)
    MaxRevision         \* bound: no user change starts from this revision on

ASSUME HomeAssumption == Home \in [Requests -> Procs]
ASSUME InitialAssumption == InitialRecords \subseteq StoredSettings \cup {NoRecord}
ASSUME SubmissionAssumption == Patches \subseteq Patch /\ ResetKeys \subseteq SUBSET Fields
ASSUME TTLAssumption == TTL \in Nat \ {0}
ASSUME DeploymentAssumption ==
    /\ Restartable \subseteq Procs
    /\ Bridged \in BOOLEAN
    /\ MaxRevision \in Nat

VARIABLES
    store,              \* the stored record, or NoRecord
    version,            \* version[p]: the declaration version p runs
    cache,              \* cache[p]: the entry p holds, left = 0 when none is fresh
    generation,         \* generation[p]: bumped by each invalidation
    req,                \* req[c]: where caller c's request stands, and its locals
    events,             \* events[p]: revisions other processes announced, on their way to p
    acked               \* history: the highest revision announced in p so far

vars == <<store, version, cache, generation, req, events, acked>>

NoEntry == [left |-> 0, revision |-> 0, values |-> AllUnset]

(* The locals of a request: the record it read (or just wrote), the        *)
(* revision its write expects (0 until read: the caller named none), its   *)
(* patch, and the generation its load captured.  floor is history: what    *)
(* was announced in the process when the read began.                       *)
Idle == [pc |-> "idle", base |-> NoRecord, expected |-> 0, patch |-> EmptyPatch,
         loadGen |-> 0, floor |-> 0]

Loading == {"load", "writeBack", "announceLoad", "reread", "fill"}
Writing == {"setRead", "resetRead", "write", "announce"}
PCs == {"idle"} \cup Loading \cup Writing

VersionOf(c) == version[Home[c]]
Fresh(p) == cache[p].left > 0
Higher(a, b) == IF a > b THEN a ELSE b

-------------------------------------------------------------------------------
Init ==
    /\ store \in InitialRecords
    /\ version \in [Procs -> Versions]
    /\ cache = [p \in Procs |-> NoEntry]
    /\ generation = [p \in Procs |-> 0]
    /\ req = [c \in Requests |-> Idle]
    /\ events = [p \in Procs |-> {}]
    /\ acked = [p \in Procs |-> 0]

(***************************************************************************)
(* Reading: get, through the cache.  A hit answers from the entry and      *)
(* changes nothing, so only a miss has actions.                            *)
(***************************************************************************)
GetMiss(c) ==
    LET p == Home[c] IN
    /\ req[c].pc = "idle"
    /\ ~Fresh(p)
    /\ req' = [req EXCEPT ![c] = [Idle EXCEPT !.pc = "load",
                                              !.loadGen = generation[p],
                                              !.floor = acked[p]]]
    /\ UNCHANGED <<store, version, cache, generation, events, acked>>

LoadRead(c) ==
    /\ req[c].pc = "load"
    /\ req' = [req EXCEPT ![c].base = store,
                          ![c].pc = IF NeedsWriteBack(VersionOf(c), store)
                                    THEN "writeBack" ELSE "fill"]
    /\ UNCHANGED <<store, version, cache, generation, events, acked>>

(* The record a write puts over base.                                      *)
Replacement(c, values, by) ==
    [version |-> VersionOf(c), revision |-> req[c].base.revision + 1,
     values |-> values, by |-> by]

(* Faulty: the store takes any write (last write wins).                    *)
AtAnyRevision(expected) == TRUE

(* The port's compare-and-set.                                             *)
AtRevision(expected) == store.revision = expected

WriteBackLands(c) ==
    LET next == Replacement(c, Migration(VersionOf(c), req[c].base).values, "kernel") IN
    /\ req[c].pc = "writeBack"
    /\ AtRevision(req[c].base.revision)
    /\ store' = next
    /\ req' = [req EXCEPT ![c].pc = "announceLoad", ![c].base = next]
    /\ UNCHANGED <<version, cache, generation, events, acked>>

(* Another writer won: its record is read again, and not written back.     *)
WriteBackConflicts(c) ==
    /\ req[c].pc = "writeBack"
    /\ ~AtRevision(req[c].base.revision)
    /\ req' = [req EXCEPT ![c].pc = "reread"]
    /\ UNCHANGED <<store, version, cache, generation, events, acked>>

(* Any other failure of the write-back is logged; the read goes on.        *)
WriteBackFails(c) ==
    /\ req[c].pc = "writeBack"
    /\ req' = [req EXCEPT ![c].pc = "fill"]
    /\ UNCHANGED <<store, version, cache, generation, events, acked>>

Reread(c) ==
    /\ req[c].pc = "reread"
    /\ req' = [req EXCEPT ![c].base = store, ![c].pc = "fill"]
    /\ UNCHANGED <<store, version, cache, generation, events, acked>>

(* Faulty: an entry is still served at the very tick it expires.           *)
FillOneTickLonger(c) ==
    /\ req[c].pc = "fill"
    /\ cache' = IF generation[Home[c]] = req[c].loadGen
                THEN [cache EXCEPT ![Home[c]] =
                        [left |-> TTL + 1, revision |-> req[c].base.revision,
                         values |-> Readable(VersionOf(c), req[c].base)]]
                ELSE cache
    /\ req' = [req EXCEPT ![c] = Idle]
    /\ UNCHANGED <<store, version, generation, events, acked>>

(* Faulty: the values as stored are kept, not as they read.                *)
FillAsStored(c) ==
    /\ req[c].pc = "fill"
    /\ generation[Home[c]] = req[c].loadGen
    /\ cache' = [cache EXCEPT ![Home[c]] =
                    [left |-> TTL, revision |-> req[c].base.revision,
                     values |-> req[c].base.values]]
    /\ req' = [req EXCEPT ![c] = Idle]
    /\ UNCHANGED <<store, version, generation, events, acked>>

(* Faulty: an overtaken load never settles.                                *)
FillUnlessOvertaken(c) ==
    /\ req[c].pc = "fill"
    /\ generation[Home[c]] = req[c].loadGen
    /\ cache' = [cache EXCEPT ![Home[c]] =
                    [left |-> TTL, revision |-> req[c].base.revision,
                     values |-> Readable(VersionOf(c), req[c].base)]]
    /\ req' = [req EXCEPT ![c] = Idle]
    /\ UNCHANGED <<store, version, generation, events, acked>>

(* The load is over: kept, unless an invalidation overtook it.  base is    *)
(* the record the values are those of: after a write-back that landed, the *)
(* migrated record, whose values decode to themselves.                     *)
Fill(c) ==
    LET p == Home[c] IN
    /\ req[c].pc = "fill"
    /\ cache' = IF generation[p] = req[c].loadGen
                THEN [cache EXCEPT ![p] =
                        [left |-> TTL, revision |-> req[c].base.revision,
                         values |-> Readable(VersionOf(c), req[c].base)]]
                ELSE cache
    /\ req' = [req EXCEPT ![c] = Idle]
    /\ UNCHANGED <<store, version, generation, events, acked>>

(***************************************************************************)
(* Writing: set and reset.  A refused submission (another guild, an        *)
(* unknown key, an invalid value) changes nothing.  The strict search of a *)
(* validation may read the settings: that read is a get of another caller. *)
(***************************************************************************)
Accepted(v, patch) ==
    \A f \in DOMAIN patch : f \in Declared[v] /\ patch[f] \in Valid[v] \cup {Unset}

(* A surface may name the revision it showed.  By the store's contract that*)
(* is one the caller has read (ports/settings-store.ts:65), so the record  *)
(* has had it; 0 names none.                                               *)
Set(c, patch, shown) ==
    /\ req[c].pc = "idle"
    /\ store.revision < MaxRevision
    /\ Accepted(VersionOf(c), patch)
    /\ shown \in 0 .. store.revision
    /\ req' = [req EXCEPT ![c] = [Idle EXCEPT !.pc = "setRead", !.patch = patch,
                                              !.expected = shown]]
    /\ UNCHANGED <<store, version, cache, generation, events, acked>>

Reset(c, keys) ==
    /\ req[c].pc = "idle"
    /\ store.revision < MaxRevision
    /\ keys \subseteq Declared[VersionOf(c)]
    /\ req' = [req EXCEPT ![c] = [Idle EXCEPT !.pc = "resetRead",
                                              !.patch = [f \in keys |-> Unset]]]
    /\ UNCHANGED <<store, version, cache, generation, events, acked>>

NothingToReset(c) == req[c].pc = "resetRead" /\ store = NoRecord

WriterReads(c) ==
    /\ req[c].pc \in {"setRead", "resetRead"}
    /\ ~NothingToReset(c)
    /\ Writable(VersionOf(c), store)
    /\ req' = [req EXCEPT ![c].pc = "write", ![c].base = store,
                          ![c].expected = IF req[c].expected = 0 THEN store.revision
                                                                 ELSE req[c].expected]
    /\ UNCHANGED <<store, version, cache, generation, events, acked>>

(* reset of an absent record returns; a newer record is a ConflictError.   *)
WriterTurnedAway(c) ==
    /\ req[c].pc \in {"setRead", "resetRead"}
    /\ NothingToReset(c) \/ ~Writable(VersionOf(c), store)
    /\ req' = [req EXCEPT ![c] = Idle]
    /\ UNCHANGED <<store, version, cache, generation, events, acked>>

WriteLands(c) ==
    LET next == Replacement(c, Merge(Readable(VersionOf(c), req[c].base), req[c].patch), "user") IN
    /\ req[c].pc = "write"
    /\ AtRevision(req[c].expected)
    /\ store' = next
    /\ req' = [req EXCEPT ![c].pc = "announce", ![c].base = next]
    /\ UNCHANGED <<version, cache, generation, events, acked>>

WriteConflicts(c) ==
    /\ req[c].pc = "write"
    /\ ~AtRevision(req[c].expected)
    /\ req' = [req EXCEPT ![c] = Idle]
    /\ UNCHANGED <<store, version, cache, generation, events, acked>>

(* A read or a write of the store rejects, and the request with it.        *)
StoreFails(c) ==
    /\ req[c].pc \in {"load", "reread", "setRead", "resetRead", "write"}
    /\ req' = [req EXCEPT ![c] = Idle]
    /\ UNCHANGED <<store, version, cache, generation, events, acked>>

(* Faulty: the entry is dropped, but loads in flight are not overtaken.    *)
InvalidatedEntryOnly(p, rev, bumps) ==
    /\ cache' = [cache EXCEPT ![p] = NoEntry]
    /\ UNCHANGED generation
    /\ acked' = [acked EXCEPT ![p] = Higher(@, rev)]

(***************************************************************************)
(* A write that landed resumes: invalidate, then notify, whose first       *)
(* listener is the cache itself, so the generation rises by two.           *)
(***************************************************************************)
Invalidated(p, rev, bumps) ==
    /\ cache' = [cache EXCEPT ![p] = NoEntry]
    /\ generation' = [generation EXCEPT ![p] = @ + bumps]
    /\ acked' = [acked EXCEPT ![p] = Higher(@, rev)]

(* Faulty: a migration the kernel writes back is not announced elsewhere.  *)
AnnounceUserWrites(c) ==
    LET p == Home[c]
        rev == req[c].base.revision IN
    /\ req[c].pc \in {"announce", "announceLoad"}
    /\ Invalidated(p, rev, 2)
    /\ events' = [q \in Procs |-> IF Bridged /\ q # p /\ req[c].pc = "announce"
                                  THEN events[q] \cup {rev} ELSE events[q]]
    /\ req' = [req EXCEPT ![c] = IF @.pc = "announce" THEN Idle
                                 ELSE [@ EXCEPT !.pc = "fill"]]
    /\ UNCHANGED <<store, version>>

Announce(c) ==
    LET p == Home[c]
        rev == req[c].base.revision IN
    /\ req[c].pc \in {"announce", "announceLoad"}
    /\ Invalidated(p, rev, 2)
    /\ events' = [q \in Procs |-> IF Bridged /\ q # p THEN events[q] \cup {rev}
                                                      ELSE events[q]]
    /\ req' = [req EXCEPT ![c] = IF @.pc = "announce" THEN Idle
                                 ELSE [@ EXCEPT !.pc = "fill"]]
    /\ UNCHANGED <<store, version>>

(***************************************************************************)
(* The deployment: events of other processes, the clock, restarts.  Events *)
(* arrive in any order; one that never arrives is one the adapter lost.    *)
(***************************************************************************)
Deliver(p, rev) ==
    /\ rev \in events[p]
    /\ Invalidated(p, rev, 1)
    /\ events' = [events EXCEPT ![p] = @ \ {rev}]
    /\ UNCHANGED <<store, version, req>>

(* Faulty: the clock is never looked at.                                   *)
AgedNever(entry) == entry

Aged(entry) == IF entry.left > 1 THEN [entry EXCEPT !.left = @ - 1] ELSE NoEntry

Tick ==
    /\ \E p \in Procs : Fresh(p)
    /\ cache' = [p \in Procs |-> Aged(cache[p])]
    /\ UNCHANGED <<store, version, generation, req, events, acked>>

(* A deploy, a rollback or a crash: the process comes back empty, on any   *)
(* version; its requests are gone wherever they stood.                     *)
Restart(p) ==
    /\ p \in Restartable
    /\ version' \in {[version EXCEPT ![p] = v] : v \in Versions}
    /\ cache' = [cache EXCEPT ![p] = NoEntry]
    /\ generation' = [generation EXCEPT ![p] = 0]
    /\ req' = [c \in Requests |-> IF Home[c] = p THEN Idle ELSE req[c]]
    /\ events' = [events EXCEPT ![p] = {}]
    /\ acked' = [acked EXCEPT ![p] = 0]
    /\ UNCHANGED store

-------------------------------------------------------------------------------
Ask(c) ==
    \/ GetMiss(c)
    \/ \E patch \in Patches : \E shown \in 0 .. MaxRevision : Set(c, patch, shown)
    \/ \E keys \in ResetKeys : Reset(c, keys)

(* The steps of a request that was made.                                   *)
Proceed(c) ==
    \/ LoadRead(c)
    \/ WriteBackLands(c)
    \/ WriteBackConflicts(c)
    \/ WriteBackFails(c)
    \/ Reread(c)
    \/ Fill(c)
    \/ WriterReads(c)
    \/ WriterTurnedAway(c)
    \/ WriteLands(c)
    \/ WriteConflicts(c)
    \/ StoreFails(c)
    \/ Announce(c)

Deployment ==
    \/ Tick
    \/ \E p \in Procs : \E rev \in events[p] : Deliver(p, rev)
    \/ \E p \in Procs : Restart(p)

Next ==
    \/ \E c \in Requests : Ask(c) \/ Proceed(c)
    \/ Deployment

Spec == Init /\ [][Next]_vars

(* A pending store call settles and the event loop resumes its caller;     *)
(* time passes.  Nothing forces a request, a delivery or a restart.        *)
FairSpec ==
    /\ Spec
    /\ \A c \in Requests : WF_vars(Proceed(c))
    /\ WF_vars(Tick)

-------------------------------------------------------------------------------
(* Every variable keeps its type.                                          *)
Request ==
    [pc : PCs, base : StoredSettings \cup {NoRecord}, expected : Nat, patch : Patch,
     loadGen : Nat, floor : Nat]

TypeOK ==
    /\ store \in StoredSettings \cup {NoRecord}
    /\ version \in [Procs -> Versions]
    /\ cache \in [Procs -> [left : 0 .. TTL, revision : Nat, values : FieldMap]]
    /\ generation \in [Procs -> Nat]
    /\ req \in [Requests -> Request]
    /\ events \in [Procs -> SUBSET Nat]
    /\ acked \in [Procs -> Nat]

(* The service implements the atomic record: whatever the awaits of its    *)
(* callers interleave with, each landed write is a user's patch merged into*)
(* the very record it replaces, or the one migration of it (settings-      *)
(* service.ts write, set, reset, writeBack).                               *)
Record == INSTANCE SettingsRecord WITH record <- store
AtomicRecord == Record!Spec

(* FR-019 across a rolling deploy or a rollback: no step of any process    *)
(* replaces a record by one of an older declaration version.               *)
NewerVersionKept == [][store.version <= store'.version]_vars

(* Once a process announced a change (its own write returned, or another   *)
(* process's event arrived), no read that begins later in that process     *)
(* answers with an older record: not from the cache, and not from a load   *)
(* (settings-service.ts:336 "a listener that reads back must see the new   *)
(* values"; cache.ts generations).                                         *)
CacheKeepsUp == \A p \in Procs : Fresh(p) => cache[p].revision >= acked[p]
LoadsKeepUp ==
    \A c \in Requests : req[c].pc = "fill" => req[c].base.revision >= req[c].floor
ReadsSeeAnnounced == CacheKeepsUp /\ LoadsKeepUp

(* An entry for the current revision holds exactly what that record reads  *)
(* as under the declaration of its process: never the unmigrated values,   *)
(* never a mix of two records.                                             *)
CacheFaithful ==
    \A p \in Procs : Fresh(p) /\ cache[p].revision = store.revision
                        => cache[p].values = Readable(version[p], store)

(* Where every write reaches every cache (one process, or a lossless       *)
(* bridge), a stale entry is only ever seen while the announcement that    *)
(* will drop it is still on its way: an overtaken load is never kept.      *)
Owed(p) ==
    \/ store.revision \in events[p]
    \/ \E c \in Requests : /\ req[c].pc \in {"announce", "announceLoad"}
                           /\ req[c].base.revision = store.revision
                           /\ Home[c] = p \/ Bridged
Current(p) == Fresh(p) => cache[p].revision = store.revision
CacheCoherent == \A p \in Procs : Current(p) \/ Owed(p)

(* Every request is answered: no await of the service waits for another    *)
(* request.                                                                *)
RequestsSettle == \A c \in Requests : req[c].pc # "idle" ~> req[c].pc = "idle"

(* The multi-process safety net (R15): whatever events are lost, once the  *)
(* record stops changing, every process comes to serve it, from the cache  *)
(* too, and serves nothing older ever after.                               *)
EventuallyCurrent == <>[](\A p \in Procs : Current(p))

===============================================================================
