------------------------------ MODULE BotAssembly ------------------------------
(***************************************************************************)
(* createBot, before anything runs: the checks of assembleModules over the *)
(* modules as declared, in their order, and those of buildModules over the *)
(* parts each module builds from the kernel's services.  The first failure *)
(* refuses the bot and names a module.  Pure operators: createBot awaits   *)
(* nothing.                                                                *)
(***************************************************************************)
EXTENDS Naturals, SequencesExt, FiniteSetsExt

CONSTANT KernelKeys     \* the keys of CORE_CATALOG and SETTINGS_CATALOG

MODULE_PARTS ==
    {"commands", "contextMenuCommands", "components", "events", "jobs", "setup", "teardown"}
KERNEL_SETTINGS_ID == "kernel"
InteractionCreate == "interactionCreate"

(* The parts a module declares or builds, by name.  A part may be there and*)
(* be undefined.                                                           *)
NoParts == [p \in {} |-> <<>>]
Part(of) == [given |-> TRUE, of |-> of]
Undefined == [given |-> FALSE, of |-> <<>>]
GivenParts(parts) == {p \in DOMAIN parts : parts[p].given}
PartOf(parts, p) == IF p \in DOMAIN parts THEN parts[p].of ELSE <<>>

BotModule(name) ==
    [name |-> name, gated |-> TRUE, label |-> {}, translations |-> {}, settings |-> <<>>,
     parts |-> NoParts, built |-> NoParts, buildThrows |-> FALSE]

(* A field, and a declaration, by the catalog keys they refer to.          *)
LabelledField(kind, texts, labels) ==
    [kind |-> kind, texts |-> texts, labels |-> labels, item |-> [kind |-> "text", texts |-> {}, labels |-> {}]]
Declaration(id, texts, fields) == [id |-> id, texts |-> texts, fields |-> fields]

Owned(modules, i) == {j \in DOMAIN modules : j < i}

-------------------------------------------------------------------------------
(* The catalog keys a declaration refers to.                               *)
SpecKeys(spec) ==
    IF spec.kind \in {"enum", "integer", "text", "toggles"} THEN spec.labels ELSE {}

FieldKeys(f) ==
    f.texts \cup SpecKeys(f)
    \cup (IF f.kind = "list" THEN f.item.texts \cup SpecKeys(f.item) ELSE {})

CatalogKeys(d) == d.texts \cup UNION {FieldKeys(f) : f \in ToSet(d.fields)}

(* createSettingsRegistry over one module's declarations and toggle: whose *)
(* toggle is labelled comes first, for the kernel's own declaration does.  *)
RegistryRefuses(m, known) ==
    \/ m.gated /\ ~(m.label \subseteq known)
    \/ \E i \in DOMAIN m.settings :
          \/ m.settings[i].id = KERNEL_SETTINGS_ID
          \/ \E j \in 1 .. i - 1 : m.settings[j].id = m.settings[i].id
          \/ ~(CatalogKeys(m.settings[i]) \subseteq known)

ReservesInteractions(parts) ==
    \E e \in ToSet(PartOf(parts, "events")) : e.name = InteractionCreate

(* A refusal by the first of some modules, if any.                         *)
FirstRefused(error, positions) ==
    IF positions = {} THEN <<>> ELSE <<[error |-> error, by |-> Min(positions)]>>

(* The first loop: names and events.                                       *)
NamesRefused(modules) ==
    LET repeated == {i \in DOMAIN modules : \E j \in Owned(modules, i) : modules[j].name = modules[i].name}
        reserving == {i \in DOMAIN modules : ReservesInteractions(modules[i].parts)}
        first == FirstRefused("ModuleRegistrationError", repeated \cup reserving)
    IN IF first # <<>> /\ first[1].by \in repeated
       THEN FirstRefused("DuplicateModuleError", repeated) ELSE first

(* The second: the catalogs, into one registry.                            *)
Known(modules) == KernelKeys \cup UNION {m.translations : m \in ToSet(modules)}

CatalogsRefused(modules) ==
    FirstRefused("ModuleRegistrationError",
        {i \in DOMAIN modules :
            modules[i].translations \cap Known(SubSeq(modules, 1, i - 1)) # {}})

(* Faulty: a module's settings are checked before the next one's catalog   *)
(* is there.                                                               *)
SettingsRefusedInOneLoop(modules) ==
    FirstRefused("ModuleRegistrationError",
        {i \in DOMAIN modules : RegistryRefuses(modules[i], Known(SubSeq(modules, 1, i)))})

(* The third: each module's own settings.                                  *)
SettingsRefused(modules) ==
    FirstRefused("ModuleRegistrationError",
        {i \in DOMAIN modules : RegistryRefuses(modules[i], Known(modules))})

(* The whole registry: an id of two modules is the second one's fault.     *)
Ids(m) == {d.id : d \in ToSet(m.settings)}
RegistryRefused(modules) ==
    FirstRefused("ModuleRegistrationError",
        {i \in DOMAIN modules : \E j \in Owned(modules, i) : Ids(modules[j]) \cap Ids(modules[i]) # {}})

FirstOf(refusals) == SubSeq(refusals, 1, Min({1, Len(refusals)}))

AssembleModules(modules) ==
    FirstOf(NamesRefused(modules) \o CatalogsRefused(modules) \o SettingsRefused(modules)
            \o RegistryRefused(modules))

-------------------------------------------------------------------------------
(* { ...module, ...parts }: what build gives wins, undefined or not.       *)
Merged(m) == [m EXCEPT !.parts = [p \in DOMAIN m.built \cup DOMAIN @ |->
                                     IF p \in DOMAIN m.built THEN m.built[p] ELSE @[p]]]

BuildRefuses(m) ==
    \/ m.buildThrows
    \/ GivenParts(m.parts) \cap GivenParts(m.built) # {}
    \/ ReservesInteractions(Merged(m).parts)

BuildRefused(modules) ==
    FirstRefused("ModuleRegistrationError", {i \in DOMAIN modules : BuildRefuses(modules[i])})

BuildModules(modules) == [i \in DOMAIN modules |-> Merged(modules[i])]

-------------------------------------------------------------------------------
(* What createBot promises, not how it looks for it: no name, catalog key  *)
(* or settings id twice, every text in the catalogs, no part twice, the    *)
(* interactions left to the router, and every build done.                  *)
Texts(m) == (IF m.gated THEN m.label ELSE {}) \cup UNION {CatalogKeys(d) : d \in ToSet(m.settings)}

OwnFault(modules, m) ==
    \/ m.buildThrows
    \/ \E p \in MODULE_PARTS : p \in GivenParts(m.parts) /\ p \in GivenParts(m.built)
    \/ \E e \in ToSet(PartOf(m.parts, "events") \o PartOf(m.built, "events")) : e.name = InteractionCreate
    \/ m.translations \cap KernelKeys # {}
    \/ KERNEL_SETTINGS_ID \in Ids(m) \/ Cardinality(Ids(m)) < Len(m.settings)
    \/ \E t \in Texts(m) \ KernelKeys : \A other \in ToSet(modules) : t \notin other.translations

Clash(m, other) ==
    \/ m.name = other.name
    \/ m.translations \cap other.translations # {}
    \/ Ids(m) \cap Ids(other) # {}

AtFault(modules, i) ==
    OwnFault(modules, modules[i]) \/ \E j \in Owned(modules, i) : Clash(modules[j], modules[i])

===============================================================================
