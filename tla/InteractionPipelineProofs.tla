----------------------- MODULE InteractionPipelineProofs -----------------------
(***************************************************************************)
(* Proofs about InteractionPipeline, for any interactions in flight, any   *)
(* modules and routes, any members and any window of the cooldowns.        *)
(*                                                                         *)
(* An interaction passes through code that knows nothing of the steps      *)
(* before it, so the inductive invariant says, of every place it can be at,*)
(* what has and what cannot have been done for it by then.                 *)
(***************************************************************************)
EXTENDS InteractionPipeline, TLAPS

Records ==
    [pc : PCs, route : Routes \cup {Nothing.route}, answer : Answers,
     deferred : BOOLEAN, replied : BOOLEAN, responses : Nat, tried : BOOLEAN,
     returned : BOOLEAN, failed : SUBSET {"guard", "handler", "view"},
     outage : BOOLEAN, off : BOOLEAN]

(* Every variable keeps its type.                                          *)
TypeOK ==
    /\ enabled \in [Switched -> BOOLEAN]
    /\ interaction \in [Interactions -> Records]
    /\ \A i \in Interactions : PC(i) # "idle" => Route(i) \in Routes
    /\ cooldowns \subseteq CooldownKeys
    /\ age \in [CooldownKeys -> Nat]

(* Where an interaction of a kind can be.                                  *)
Placed(r) ==
    /\ r.route.kind = "unknown" => r.pc \in {"idle", "route", "answer", "done", "escaped"}
    /\ r.route.kind = "autocomplete" =>
          r.pc \in {"idle", "route", "gate", "handler", "respond", "done", "escaped"}
    /\ r.pc = "respond" => r.route.kind = "autocomplete"
    /\ r.pc = "execute" => r.route.kind = "command"
    /\ r.returned => r.pc = "done"

(* What can have failed before it came there, and which view answers for   *)
(* it.                                                                     *)
Blamed(r) ==
    /\ r.pc \in {"idle", "route", "gate", "guard", "execute", "handler"} =>
          r.answer = "none" /\ r.failed = {}
    /\ r.pc = "respond" => r.failed = {}
    /\ r.pc = "answer" =>
          \/ r.answer \in Answers \ {"none", "failure"} /\ r.failed = {}
          \/ r.answer = "failure" /\ r.failed = {"handler"} /\ r.route.kind = "command"
    /\ r.pc = "escaped" /\ "handler" \in r.failed =>
          r.route.kind = "command" /\ r.answer = "failure" /\ "view" \in r.failed

(* Nothing is sent before a handler or an answer, and whatever sends next  *)
(* can tell from deferred and replied whether something was sent already.  *)
Counted(r) ==
    /\ r.pc \in {"idle", "route", "gate", "guard", "execute", "respond"} =>
          r.responses = 0 /\ ~r.deferred /\ ~r.replied
    /\ r.responses <= 1
    /\ r.pc \in {"handler", "answer"} /\ r.responses = 1 => r.deferred \/ r.replied
    /\ r.route.kind = "autocomplete" => ~r.deferred

(* One that is over was seen to, or it is known what it is left at.        *)
SeenTo(r) ==
    r.pc \in {"done", "escaped"} =>
        \/ r.tried \/ r.returned
        \/ r.route.kind = "unknown" /\ r.answer = "none"
        \/ LoggedOnly(r)
        \/ Rejected(r)

(* One whose module is off is known to be for a module that is off, and    *)
(* comes no further than the gate.                                         *)
TurnedAtGate(r) ==
    r.off =>
        /\ r.pc # "idle"
        /\ r.route.module \in Switched
        /\ ~enabled[r.route.module]
        /\ r.route.gated /\ ~r.outage /\ r.answer # "restarting" =>
              /\ r.answer \in {"none", "disabled"}
              /\ r.pc \notin {"guard", "execute", "handler"}
              /\ ~r.returned /\ r.failed \subseteq {"view"}

Sound(r) == Placed(r) /\ Blamed(r) /\ Counted(r) /\ SeenTo(r) /\ TurnedAtGate(r)

(* An entry is only missing from the Map when its window is over.          *)
Remembered == \A k \in CooldownKeys : k \notin cooldowns => Expired(k)

IInv ==
    /\ TypeOK
    /\ \A i \in Interactions : Sound(interaction[i])
    /\ Remembered

-------------------------------------------------------------------------------
(* A place nobody has taken, and an interaction that came in, are sound.   *)
LEMMA NothingSound == Nothing \in Records /\ Sound(Nothing) /\ Nothing.pc = "idle"
<1>1. Nothing \in Records /\ Nothing.pc = "idle"
  BY DEF Nothing, Idle, Records, PCs, Answers
<1> QED BY <1>1 DEF Nothing, Idle, Sound, Placed, Blamed, Counted, SeenTo, TurnedAtGate, LoggedOnly, Rejected

LEMMA InvInit == Init => IInv
<1> SUFFICES ASSUME Init PROVE IInv
  OBVIOUS
<1>1. TypeOK
  BY NothingSound, WindowAssumption DEF Init, TypeOK, PC
<1>2. Remembered
  BY WindowAssumption DEF Init, Remembered, Expired
<1> QED BY <1>1, <1>2, NothingSound DEF Init, IInv

-------------------------------------------------------------------------------
(* A step of one interaction that leaves the switches alone only has to    *)
(* leave that one sound.                                                   *)
LEMMA OwnStep ==
    ASSUME IInv, NEW i \in Interactions, NEW r \in Records, Becomes(i, r),
           r.pc # "idle" => r.route \in Routes,
           Sound(r), UNCHANGED <<enabled, cooldowns, age>>
    PROVE  IInv'
<1>1. interaction' = [interaction EXCEPT ![i] = r]
  BY DEF Becomes
<1>2. \A j \in Interactions : interaction'[j] = IF j = i THEN r ELSE interaction[j]
  BY <1>1 DEF IInv, TypeOK
<1>3. TypeOK'
  BY <1>1, <1>2 DEF IInv, TypeOK, PC, Route
<1>4. Remembered'
  BY DEF IInv, Remembered, Expired
<1>5. \A j \in Interactions : Sound(interaction[j])'
  BY <1>2 DEF IInv, Sound, Placed, Blamed, Counted, SeenTo, TurnedAtGate, LoggedOnly, Rejected
<1> QED BY <1>3, <1>4, <1>5 DEF IInv

LEMMA ArriveKeeps ==
    ASSUME IInv, NEW i \in Interactions, NEW route \in Routes, Arrive(i, route)
    PROVE  IInv'
<1> DEFINE new == [Idle(route) EXCEPT !.off = route.module \in Switched /\ ~enabled[route.module]]
           r == IF bot = "running" THEN [new EXCEPT !.pc = "route"]
                ELSE TurnedAway(new, "restarting")
<1>1. Becomes(i, r) /\ UNCHANGED shared
  BY DEF Arrive
<1>2. r \in Records /\ r.route = route
  BY DEF Idle, TurnedAway, Answering, Records, PCs, Answers
<1>3. Sound(r)
  <2>1. Placed(r) /\ Blamed(r)
    BY RouteAssumption DEF Idle, TurnedAway, Answering, Placed, Blamed, Answers
  <2>2. Counted(r)
    BY DEF Idle, TurnedAway, Answering, Counted
  <2>3. SeenTo(r)
    BY DEF Idle, TurnedAway, Answering, SeenTo
  <2>4. TurnedAtGate(r)
    BY DEF Idle, TurnedAway, Answering, TurnedAtGate
  <2> QED BY <2>1, <2>2, <2>3, <2>4 DEF Sound
<1> QED BY <1>1, <1>2, <1>3, OwnStep DEF shared

(* What becomes of a sound interaction that is turned away at the router or*)
(* at the gate, and of one that gets past the gate.                        *)
LEMMA TurnedAwaySound ==
    ASSUME NEW r \in Records, Sound(r), r.route \in Routes, r.pc \in {"route", "gate"},
           NEW what \in {"unavailable", "disabled"},
           what = "unavailable" => r.route.module \in Unavailable
    PROVE  /\ TurnedAway(r, what) \in Records
           /\ TurnedAway(r, what).route \in Routes
           /\ Sound(TurnedAway(r, what))
<1> DEFINE s == TurnedAway(r, what)
<1>1. s \in Records /\ s.route = r.route
  BY DEF TurnedAway, Answering, Records, PCs, Answers
<1>2. Placed(s) /\ Blamed(s)
  BY DEF TurnedAway, Answering, Sound, Placed, Blamed, Records, Answers
<1>3. Counted(s)
  BY DEF TurnedAway, Answering, Sound, Counted, Records
<1>4. SeenTo(s)
  BY DEF TurnedAway, Answering, SeenTo, Records
<1>5. TurnedAtGate(s)
  BY DEF TurnedAway, Answering, Sound, Placed, Blamed, TurnedAtGate, Records, Switched
<1> QED BY <1>1, <1>2, <1>3, <1>4, <1>5 DEF Sound

LEMMA PastGateSound ==
    ASSUME NEW r \in Records, Sound(r), r.route \in Routes, r.pc \in {"route", "gate"},
           r.route.kind # "unknown",
           r.off /\ r.route.gated => r.outage
    PROVE  /\ PastGate(r) \in Records
           /\ PastGate(r).route \in Routes
           /\ Sound(PastGate(r))
<1> DEFINE s == PastGate(r)
<1>1. s \in Records /\ s.route = r.route
  BY DEF PastGate, Answering, Records, PCs, Answers
<1>2. Placed(s) /\ Blamed(s)
  BY DEF PastGate, Answering, Sound, Placed, Blamed, Records, Answers
<1>3. Counted(s)
  BY DEF PastGate, Answering, Sound, Counted, Records
<1>4. SeenTo(s)
  BY DEF PastGate, Answering, SeenTo, Records
<1>5. TurnedAtGate(s)
  BY DEF PastGate, Answering, Sound, TurnedAtGate, Records
<1> QED BY <1>1, <1>2, <1>3, <1>4, <1>5 DEF Sound

LEMMA ClaimKeeps ==
    ASSUME IInv, NEW i \in Interactions, Claim(i)
    PROVE  IInv'
<1> DEFINE r == interaction[i]
<1>1. r \in Records /\ r.pc = "route" /\ r.route \in Routes /\ Sound(r)
  BY DEF Claim, IInv, TypeOK, PC, Route
<1>2. UNCHANGED <<enabled, cooldowns, age>>
  BY DEF Claim, shared
<1>3. CASE r.route.kind = "unknown"
  <2> DEFINE s == [r EXCEPT !.pc = "done"]
  <2>1. Becomes(i, s)
    BY <1>3 DEF Claim
  <2>2. s \in Records /\ s.route = r.route
    BY <1>1 DEF Records, PCs
  <2>3. Sound(s)
    BY <1>1, <1>3 DEF Sound, Placed, Blamed, Counted, SeenTo, TurnedAtGate, LoggedOnly, Rejected, Records
  <2> QED BY <1>1, <1>2, <2>1, <2>2, <2>3, OwnStep
<1>4. CASE r.route.kind # "unknown" /\ r.route.module \in Unavailable
  <2>1. Becomes(i, TurnedAway(r, "unavailable"))
    BY <1>4 DEF Claim
  <2> QED BY <1>1, <1>2, <1>4, <2>1, TurnedAwaySound, OwnStep
<1>5. CASE r.route.kind # "unknown" /\ r.route.module \notin Unavailable /\ r.route.gated
  <2> DEFINE s == [r EXCEPT !.pc = "gate"]
  <2>1. Becomes(i, s)
    BY <1>5 DEF Claim
  <2>2. s \in Records /\ s.route = r.route
    BY <1>1 DEF Records, PCs
  <2>3. Sound(s)
    BY <1>1, <1>5 DEF Sound, Placed, Blamed, Counted, SeenTo, TurnedAtGate, LoggedOnly, Rejected, Records
  <2> QED BY <1>1, <1>2, <2>1, <2>2, <2>3, OwnStep
<1>6. CASE r.route.kind # "unknown" /\ r.route.module \notin Unavailable /\ ~r.route.gated
  <2>1. Becomes(i, PastGate(r))
    BY <1>6 DEF Claim
  <2> QED BY <1>1, <1>2, <1>6, <2>1, PastGateSound, OwnStep
<1> QED BY <1>3, <1>4, <1>5, <1>6

(* One that came in while its module was off finds it off at the gate, or  *)
(* the switch was turned meanwhile, unless it cannot be read.              *)
LEMMA GateKeeps ==
    ASSUME IInv, NEW i \in Interactions, GateAnswers(i) \/ GateFailsOpen(i)
    PROVE  IInv'
<1> DEFINE r == interaction[i]
<1>1. r \in Records /\ r.pc = "gate" /\ r.route \in Routes /\ Sound(r)
  BY DEF GateAnswers, GateFailsOpen, IInv, TypeOK, PC, Route
<1>2. UNCHANGED <<enabled, cooldowns, age>>
  BY DEF GateAnswers, GateFailsOpen, shared
<1>3. r.route.kind # "unknown"
  BY <1>1 DEF Sound, Placed
<1>4. CASE GateAnswers(i) /\ enabled[r.route.module]
  <2>1. Becomes(i, PastGate(r))
    BY <1>4 DEF GateAnswers
  <2>2. ~r.off
    BY <1>1, <1>4 DEF Sound, TurnedAtGate
  <2> QED BY <1>1, <1>2, <1>3, <2>1, <2>2, PastGateSound, OwnStep
<1>5. CASE GateAnswers(i) /\ ~enabled[r.route.module]
  <2>1. Becomes(i, TurnedAway(r, "disabled"))
    BY <1>5 DEF GateAnswers
  <2> QED BY <1>1, <1>2, <2>1, TurnedAwaySound, OwnStep
<1>6. CASE GateFailsOpen(i)
  <2> DEFINE s == [r EXCEPT !.outage = TRUE]
  <2>1. Becomes(i, PastGate(s))
    BY <1>6 DEF GateFailsOpen
  <2>2. s \in Records /\ s.route = r.route /\ s.pc = "gate" /\ s.outage
    BY <1>1 DEF Records
  <2>3. Sound(s)
    BY <1>1 DEF Sound, Placed, Blamed, Counted, SeenTo, TurnedAtGate, LoggedOnly, Rejected, Records
  <2> HIDE DEF s
  <2> QED BY <1>1, <1>2, <1>3, <2>1, <2>2, <2>3, PastGateSound, OwnStep
<1> QED BY <1>4, <1>5, <1>6

-------------------------------------------------------------------------------
(* The guard: nothing is sent there, and one that is off does not come so  *)
(* far unless the switch could not be read.                                *)
LEMMA GuardKeeps ==
    ASSUME IInv, NEW i \in Interactions,
           Allowed(i) \/ Denied(i) \/ GuardThrows(i) \/ CooldownDenies(i)
    PROVE  IInv'
<1> DEFINE r == interaction[i]
<1>1. r \in Records /\ r.pc = "guard" /\ r.route \in Routes /\ Sound(r)
  BY DEF Allowed, Denied, GuardThrows, CooldownDenies, IInv, TypeOK, PC, Route
<1>2. UNCHANGED <<enabled, cooldowns, age>>
  BY DEF Allowed, Denied, GuardThrows, CooldownDenies, shared
<1>3. CASE Allowed(i)
  <2> DEFINE s == PastGuard(r)
  <2>1. Becomes(i, s)
    BY <1>3 DEF Allowed
  <2>2. s \in Records /\ s.route = r.route
    BY <1>1 DEF PastGuard, Records, PCs
  <2>3. Sound(s)
    BY <1>1, RouteAssumption
    DEF PastGuard, Sound, Placed, Blamed, Counted, SeenTo, TurnedAtGate, LoggedOnly, Rejected, Records, RouteType, Kinds
  <2> QED BY <1>1, <1>2, <2>1, <2>2, <2>3, OwnStep
<1>4. CASE Denied(i) \/ CooldownDenies(i)
  <2> DEFINE s == Answering(r, "denied")
  <2>1. Becomes(i, s)
    BY <1>4 DEF Denied, CooldownDenies
  <2>2. s \in Records /\ s.route = r.route
    BY <1>1 DEF Answering, Records, PCs, Answers
  <2>3. Sound(s)
    BY <1>1 DEF Answering, Sound, Placed, Blamed, Counted, SeenTo, TurnedAtGate, Records, Answers
  <2> QED BY <1>1, <1>2, <2>1, <2>2, <2>3, OwnStep
<1>5. CASE GuardThrows(i)
  <2> DEFINE s == [r EXCEPT !.pc = "escaped", !.failed = @ \cup {"guard"},
                       !.outage = @ \/ r.route.guard = "configured"]
  <2>1. Becomes(i, s)
    BY <1>5 DEF GuardThrows, Route
  <2>2. s \in Records /\ s.route = r.route
    BY <1>1 DEF Records, PCs
  <2>3. r.failed = {} /\ r.route.guard \in {"custom", "configured"}
    BY <1>1, <1>5 DEF GuardThrows, Route, Sound, Blamed
  <2>4. s.failed = {"guard"} /\ s.pc = "escaped"
    BY <1>1, <2>3 DEF Records
  <2>5. Placed(s) /\ Counted(s)
    BY <1>1 DEF Sound, Placed, Counted, Records
  <2>6. Blamed(s) /\ SeenTo(s)
    BY <2>2, <2>3, <2>4 DEF Blamed, SeenTo, Rejected
  <2>7. TurnedAtGate(s)
    BY <1>1 DEF Sound, TurnedAtGate, Records
  <2> QED BY <1>1, <1>2, <2>1, <2>2, <2>5, <2>6, <2>7, OwnStep DEF Sound
<1> QED BY <1>3, <1>4, <1>5

(* Passing the cooldown renews one entry, and only forgets expired ones.   *)
LEMMA CooldownPassesKeeps ==
    ASSUME IInv, NEW i \in Interactions, CooldownPasses(i)
    PROVE  IInv'
<1> DEFINE r == interaction[i]
           k == r.route.key
           s == PastGuard(r)
<1>1. r \in Records /\ r.pc = "guard" /\ r.route \in Routes /\ Sound(r)
  BY DEF CooldownPasses, IInv, TypeOK, PC, Route
<1>2. /\ interaction' = [interaction EXCEPT ![i] = s]
      /\ cooldowns' = Pruned(k)
      /\ age' = [age EXCEPT ![k] = 0]
      /\ enabled' = enabled
  BY DEF CooldownPasses, Route, Becomes
<1>3. k \in CooldownKeys
  BY <1>1, RouteAssumption DEF RouteType
<1>4. s \in Records /\ s.route = r.route
  BY <1>1 DEF PastGuard, Records, PCs
<1>5. Sound(s)
  BY <1>1, RouteAssumption
  DEF PastGuard, Sound, Placed, Blamed, Counted, SeenTo, TurnedAtGate, LoggedOnly, Rejected, Records, RouteType, Kinds
<1> HIDE DEF s
<1>6. \A j \in Interactions : interaction'[j] = IF j = i THEN s ELSE interaction[j]
  BY <1>2 DEF IInv, TypeOK
<1>7. TypeOK'
  BY <1>1, <1>2, <1>3, <1>4, <1>6 DEF IInv, TypeOK, PC, Route, Pruned
<1>8. \A j \in Interactions : Sound(interaction[j])'
  BY <1>2, <1>5, <1>6 DEF IInv, Sound, Placed, Blamed, Counted, SeenTo, TurnedAtGate, LoggedOnly, Rejected
<1>9. Remembered'
  BY <1>2, <1>3 DEF IInv, TypeOK, Remembered, Expired, Pruned
<1> QED BY <1>7, <1>8, <1>9 DEF IInv

-------------------------------------------------------------------------------
(* The handler, and its failure.                                           *)
LEMMA BeforeHandlerKeeps ==
    ASSUME IInv, NEW i \in Interactions, DeferReply(i) \/ BuildContext(i)
    PROVE  IInv'
<1> DEFINE r == interaction[i]
           deferred == [r EXCEPT !.pc = "handler", !.deferred = TRUE, !.tried = TRUE,
                                 !.responses = @ + 1]
           plain == [r EXCEPT !.pc = "handler"]
<1>1. r \in Records /\ r.pc = "execute" /\ r.route \in Routes /\ Sound(r)
  BY DEF DeferReply, BuildContext, IInv, TypeOK, PC, Route
<1>2. UNCHANGED <<enabled, cooldowns, age>>
  BY DEF DeferReply, BuildContext, shared
<1>3. Becomes(i, deferred) \/ Becomes(i, plain)
  BY DEF DeferReply, BuildContext
<1>4. /\ deferred \in Records /\ deferred.route = r.route
      /\ plain \in Records /\ plain.route = r.route
  <2>1. r.responses + 1 \in Nat
    BY <1>1 DEF Records
  <2> QED BY <1>1, <2>1 DEF Records, PCs
<1>5. Sound(deferred)
  BY <1>1 DEF Sound, Placed, Blamed, Counted, SeenTo, TurnedAtGate, LoggedOnly, Rejected, Records
<1>6. Sound(plain)
  BY <1>1 DEF Sound, Placed, Blamed, Counted, SeenTo, TurnedAtGate, LoggedOnly, Rejected, Records
<1> QED BY <1>1, <1>2, <1>3, <1>4, <1>5, <1>6, OwnStep

(* However often a handler sends, and whatever else was sent before, one   *)
(* initial response is counted.                                            *)
LEMMA SendKeeps ==
    ASSUME NEW r \in Records, Sound(r), r.route \in Routes,
           (r.pc = "handler" /\ r.route.kind # "autocomplete") \/ r.pc = "answer",
           NEW ok \in BOOLEAN, NEW pc \in {r.pc, "done"},
           r.pc = "handler" => pc = "handler"
    PROVE  LET sent == IF ok THEN Sent([r EXCEPT !.pc = pc])
                       ELSE [r EXCEPT !.pc = pc, !.tried = TRUE]
           IN  sent \in Records /\ sent.route = r.route /\ Sound(sent)
<1> DEFINE sent == IF ok THEN Sent([r EXCEPT !.pc = pc]) ELSE [r EXCEPT !.pc = pc, !.tried = TRUE]
<1>1. sent \in Records /\ sent.route = r.route
  <2>1. r.responses + 1 \in Nat /\ pc \in PCs
    BY DEF Records, PCs
  <2> QED BY <2>1 DEF Sent, Records
<1>2. Placed(sent) /\ Blamed(sent)
  BY DEF Sent, Sound, Placed, Blamed, Records
<1>3. Counted(sent)
  BY DEF Sent, Sound, Counted, Records
<1>4. SeenTo(sent)
  BY DEF Sent, SeenTo, Records
<1>5. TurnedAtGate(sent)
  BY DEF Sent, Sound, TurnedAtGate, Records
<1> QED BY <1>1, <1>2, <1>3, <1>4, <1>5 DEF Sound

LEMMA HandlerKeeps ==
    ASSUME IInv, NEW i \in Interactions,
           \/ \E ok \in BOOLEAN : HandlerSends(i, ok)
           \/ HandlerDefers(i) \/ HandlerSuggests(i) \/ HandlerReturns(i)
    PROVE  IInv'
<1> DEFINE r == interaction[i]
<1>1. r \in Records /\ r.pc = "handler" /\ r.route \in Routes /\ Sound(r)
  BY DEF HandlerSends, HandlerDefers, HandlerSuggests, HandlerReturns, IInv, TypeOK, PC, Route
<1>2. UNCHANGED <<enabled, cooldowns, age>>
  BY DEF HandlerSends, HandlerDefers, HandlerSuggests, HandlerReturns, shared
<1>3. r.responses + 1 \in Nat
  BY <1>1 DEF Records
<1>4. ASSUME NEW ok \in BOOLEAN, HandlerSends(i, ok) PROVE IInv'
  <2> DEFINE s == IF ok THEN Sent([r EXCEPT !.pc = "handler"])
                  ELSE [r EXCEPT !.pc = "handler", !.tried = TRUE]
  <2>1. [r EXCEPT !.pc = "handler"] = r /\ [r EXCEPT !.pc = "handler", !.tried = TRUE] = [r EXCEPT !.tried = TRUE]
    BY <1>1 DEF Records
  <2>2. Becomes(i, s) /\ r.route.kind # "autocomplete"
    BY <1>4, <2>1 DEF HandlerSends, Route
  <2>3. s \in Records /\ s.route = r.route /\ Sound(s)
    BY <1>1, <2>2, SendKeeps
  <2> QED BY <1>1, <1>2, <2>2, <2>3, OwnStep
<1>5. CASE HandlerDefers(i)
  <2> DEFINE s == [r EXCEPT !.deferred = TRUE, !.tried = TRUE, !.responses = @ + 1]
  <2>1. Becomes(i, s) /\ r.route.kind # "autocomplete" /\ ~r.deferred /\ ~r.replied
    BY <1>5 DEF HandlerDefers
  <2>2. s \in Records /\ s.route = r.route
    BY <1>1, <1>3 DEF Records
  <2>3. Sound(s)
    BY <1>1, <2>1 DEF Sound, Placed, Blamed, Counted, SeenTo, TurnedAtGate, LoggedOnly, Rejected, Records
  <2> QED BY <1>1, <1>2, <2>1, <2>2, <2>3, OwnStep
<1>6. CASE HandlerSuggests(i)
  <2> DEFINE s == [r EXCEPT !.replied = TRUE, !.tried = TRUE, !.responses = @ + 1]
  <2>1. Becomes(i, s) /\ r.route.kind = "autocomplete" /\ ~r.replied
    BY <1>6 DEF HandlerSuggests
  <2>2. s \in Records /\ s.route = r.route
    BY <1>1, <1>3 DEF Records
  <2>3. Sound(s)
    BY <1>1, <2>1 DEF Sound, Placed, Blamed, Counted, SeenTo, TurnedAtGate, LoggedOnly, Rejected, Records
  <2> QED BY <1>1, <1>2, <2>1, <2>2, <2>3, OwnStep
<1>7. CASE HandlerReturns(i)
  <2> DEFINE s == [r EXCEPT !.pc = "done", !.returned = TRUE]
  <2>1. Becomes(i, s)
    BY <1>7 DEF HandlerReturns
  <2>2. s \in Records /\ s.route = r.route
    BY <1>1 DEF Records, PCs
  <2>3. Sound(s)
    BY <1>1 DEF Sound, Placed, Blamed, Counted, SeenTo, TurnedAtGate, LoggedOnly, Rejected, Records
  <2> QED BY <1>1, <1>2, <2>1, <2>2, <2>3, OwnStep
<1> QED BY <1>4, <1>5, <1>6, <1>7

(* A failure is answered for a command and logged for the others: it comes *)
(* to nothing else, whatever was sent before it.                           *)
LEMMA HandlerThrowsKeeps ==
    ASSUME IInv, NEW i \in Interactions, HandlerThrows(i)
    PROVE  IInv'
<1> DEFINE r == interaction[i]
           s == Failed(r)
<1>1. r \in Records /\ r.pc \in {"execute", "handler"} /\ r.route \in Routes /\ Sound(r)
  BY DEF HandlerThrows, IInv, TypeOK, PC, Route
<1>2. Becomes(i, s) /\ UNCHANGED <<enabled, cooldowns, age>>
  BY DEF HandlerThrows, shared
<1>3. /\ s \in Records /\ s.route = r.route
      /\ s.deferred = r.deferred /\ s.replied = r.replied /\ s.responses = r.responses
      /\ s.outage = r.outage /\ s.off = r.off
  BY <1>1 DEF Failed, Answering, Records, PCs, Answers
<1>4. r.failed = {} /\ ~r.returned /\ r.route.kind # "unknown" /\ r.route.kind \in Kinds
  BY <1>1, RouteAssumption DEF Sound, Placed, Blamed, RouteType
<1>5. /\ s.failed = {"handler"} /\ ~s.returned
      /\ IF r.route.kind = "command" THEN s.pc = "answer" /\ s.answer = "failure"
                                     ELSE s.pc = "done" /\ s.answer = r.answer
  <2>1. r.failed \cup {"handler"} = {"handler"}
    BY <1>4
  <2> QED BY <1>1, <1>4, <2>1 DEF Failed, Answering, Records
<1>6. r.off /\ r.route.gated => r.outage \/ r.answer = "restarting"
  BY <1>1 DEF Sound, TurnedAtGate
<1> HIDE DEF s
<1>7. Placed(s) /\ Blamed(s)
  BY <1>1, <1>3, <1>4, <1>5 DEF Placed, Blamed
<1>8. Counted(s)
  BY <1>1, <1>3, <1>5 DEF Sound, Counted
<1>9. SeenTo(s)
  BY <1>3, <1>4, <1>5 DEF SeenTo, LoggedOnly, Kinds
<1>10. TurnedAtGate(s)
  BY <1>1, <1>3, <1>5, <1>6 DEF Sound, TurnedAtGate, Blamed
<1> QED BY <1>1, <1>2, <1>3, <1>7, <1>8, <1>9, <1>10, OwnStep DEF Sound

-------------------------------------------------------------------------------
(* The kernel's own answers, and the end.                                  *)
LEMMA AnswerKeeps ==
    ASSUME IInv, NEW i \in Interactions, NEW ok \in BOOLEAN,
           SendView(i, ok) \/ RespondEmpty(i, ok)
    PROVE  IInv'
<1> DEFINE r == interaction[i]
<1>1. r \in Records /\ r.pc \in {"answer", "respond"} /\ r.route \in Routes /\ Sound(r)
  BY DEF SendView, RespondEmpty, IInv, TypeOK, PC, Route
<1>2. UNCHANGED <<enabled, cooldowns, age>>
  BY DEF SendView, RespondEmpty, shared
<1>3. CASE SendView(i, ok)
  <2> DEFINE s == IF ok THEN Sent([r EXCEPT !.pc = "done"])
                  ELSE [r EXCEPT !.pc = "done", !.tried = TRUE]
  <2>1. Becomes(i, s) /\ r.pc = "answer"
    BY <1>3 DEF SendView, PC
  <2>2. s \in Records /\ s.route = r.route /\ Sound(s)
    BY <1>1, <2>1, SendKeeps
  <2> QED BY <1>1, <1>2, <2>1, <2>2, OwnStep
<1>4. CASE RespondEmpty(i, ok)
  <2> DEFINE t == [r EXCEPT !.tried = TRUE]
             s == [t EXCEPT !.pc = IF ok \/ t.answer # "restarting" THEN "done" ELSE "escaped",
                            !.responses = IF ok THEN @ + 1 ELSE @]
  <2>1. Becomes(i, s) /\ r.pc = "respond"
    BY <1>4 DEF RespondEmpty, PC
  <2>2. s \in Records /\ s.route = r.route
    <3>1. r.responses + 1 \in Nat
      BY <1>1 DEF Records
    <3> QED BY <1>1, <3>1 DEF Records, PCs
  <2>3. Placed(s) /\ Blamed(s) /\ SeenTo(s)
    BY <1>1, <2>1 DEF Sound, Placed, Blamed, SeenTo, Records
  <2>4. Counted(s)
    BY <1>1, <2>1 DEF Sound, Placed, Counted, Records
  <2>5. TurnedAtGate(s)
    BY <1>1, <2>1 DEF Sound, Placed, TurnedAtGate, Records
  <2> QED BY <1>1, <1>2, <2>1, <2>2, <2>3, <2>4, <2>5, OwnStep DEF Sound
<1> QED BY <1>3, <1>4

(* Where no view is sent, what it answers for is known to be its failure.  *)
LEMMA ViewThrowsKeeps ==
    ASSUME IInv, NEW i \in Interactions, ViewThrows(i)
    PROVE  IInv'
<1> DEFINE r == interaction[i]
           s == [r EXCEPT !.pc = "escaped", !.failed = @ \cup {"view"}]
<1>1. r \in Records /\ r.pc = "answer" /\ r.route \in Routes /\ Sound(r)
  BY DEF ViewThrows, IInv, TypeOK, PC, Route
<1>2. Becomes(i, s) /\ UNCHANGED <<enabled, cooldowns, age>>
  BY DEF ViewThrows, shared
<1>3. s \in Records /\ s.route = r.route
  BY <1>1 DEF Records, PCs
<1>4. Placed(s) /\ Blamed(s)
  BY <1>1 DEF Sound, Placed, Blamed, Records
<1>5. Counted(s)
  BY <1>1 DEF Sound, Counted, Records
<1>6. SeenTo(s)
  <2>1. CASE r.answer \in Answers \ {"none", "failure"} /\ r.failed = {}
    <3>1. s.failed = {"view"} /\ s.pc = "escaped" /\ s.answer = r.answer
      BY <1>1, <2>1 DEF Records
    <3> QED BY <2>1, <3>1 DEF SeenTo, Rejected
  <2>2. CASE r.answer = "failure" /\ r.failed = {"handler"}
    <3>1. s.failed = {"handler", "view"} /\ s.pc = "escaped" /\ s.answer = "failure"
      BY <1>1, <2>2 DEF Records
    <3> QED BY <3>1 DEF SeenTo, Rejected
  <2> QED BY <1>1, <2>1, <2>2 DEF Sound, Blamed
<1>7. TurnedAtGate(s)
  BY <1>1 DEF Sound, TurnedAtGate, Records
<1> QED BY <1>1, <1>2, <1>3, <1>4, <1>5, <1>6, <1>7, OwnStep DEF Sound

LEMMA ForgetKeeps ==
    ASSUME IInv, NEW i \in Interactions, Forget(i)
    PROVE  IInv'
BY NothingSound, OwnStep DEF Forget

(* A switch that is turned ends the time its module was off, for all that  *)
(* came in during it.                                                      *)
LEMMA ToggleKeeps ==
    ASSUME IInv, NEW m \in Switched, Toggle(m)
    PROVE  IInv'
<1>1. /\ enabled' = [enabled EXCEPT ![m] = ~@]
      /\ interaction' = [i \in Interactions |->
                            IF Route(i).module = m THEN [interaction[i] EXCEPT !.off = FALSE]
                            ELSE interaction[i]]
      /\ UNCHANGED <<cooldowns, age>>
  BY DEF Toggle
<1>2. ASSUME NEW i \in Interactions
      PROVE  /\ interaction'[i] \in Records
             /\ interaction'[i].pc = interaction[i].pc
             /\ interaction'[i].route = interaction[i].route
             /\ Sound(interaction[i])'
  <2> DEFINE r == interaction[i]
  <2>1. r \in Records /\ Sound(r)
    BY DEF IInv, TypeOK
  <2>2. CASE r.route.module = m
    <3> DEFINE s == [r EXCEPT !.off = FALSE]
    <3>1. interaction'[i] = s
      BY <1>1, <2>2 DEF Route
    <3>2. s \in Records /\ s.pc = r.pc /\ s.route = r.route
      BY <2>1 DEF Records
    <3>3. Placed(s) /\ Blamed(s) /\ Counted(s) /\ SeenTo(s) /\ ~s.off
      BY <2>1 DEF Sound, Placed, Blamed, Counted, SeenTo, LoggedOnly, Rejected, Records
    <3> HIDE DEF s
    <3> QED BY <3>1, <3>2, <3>3 DEF Sound, Placed, Blamed, Counted, SeenTo, TurnedAtGate, LoggedOnly, Rejected
  <2>3. CASE r.route.module # m
    <3>1. interaction'[i] = r
      BY <1>1, <2>3 DEF Route
    <3>2. r.off => enabled'[r.route.module] = enabled[r.route.module]
      BY <1>1, <2>1, <2>3 DEF Sound, TurnedAtGate, IInv, TypeOK
    <3>3. TurnedAtGate(interaction[i])'
      BY <2>1, <3>1, <3>2 DEF Sound, TurnedAtGate
    <3> QED BY <2>1, <3>1, <3>3 DEF Sound, Placed, Blamed, Counted, SeenTo
  <2> QED BY <2>2, <2>3
<1>3. TypeOK'
  <2>1. enabled' \in [Switched -> BOOLEAN]
    BY <1>1 DEF IInv, TypeOK
  <2>2. interaction' \in [Interactions -> Records]
    BY <1>1, <1>2
  <2> QED BY <1>1, <1>2, <2>1, <2>2 DEF IInv, TypeOK, PC, Route
<1>4. Remembered'
  BY <1>1 DEF IInv, Remembered, Expired
<1> QED BY <1>2, <1>3, <1>4 DEF IInv

LEMMA TickKeeps ==
    ASSUME IInv, Tick
    PROVE  IInv'
<1>1. /\ age' = [k \in CooldownKeys |-> IF Expired(k) THEN age[k] ELSE age[k] + 1]
      /\ UNCHANGED <<bot, enabled, interaction, cooldowns>>
  BY DEF Tick
<1>2. TypeOK' /\ Remembered'
  BY <1>1, WindowAssumption DEF IInv, TypeOK, PC, Route, Remembered, Expired
<1>3. \A i \in Interactions : Sound(interaction[i])'
  BY <1>1 DEF IInv, Sound, Placed, Blamed, Counted, SeenTo, TurnedAtGate, LoggedOnly, Rejected
<1> QED BY <1>2, <1>3 DEF IInv

LEMMA InvStep == IInv /\ [Next]_vars => IInv'
<1> SUFFICES ASSUME IInv, [Next]_vars PROVE IInv'
  OBVIOUS
<1>1. CASE BotMoves \/ UNCHANGED vars
  <2>1. UNCHANGED <<enabled, interaction, cooldowns, age>>
    BY <1>1 DEF BotMoves, vars
  <2>2. TypeOK' /\ Remembered'
    BY <2>1 DEF IInv, TypeOK, PC, Route, Remembered, Expired
  <2>3. \A i \in Interactions : Sound(interaction[i])'
    BY <2>1 DEF IInv, Sound, Placed, Blamed, Counted, SeenTo, TurnedAtGate, LoggedOnly, Rejected
  <2> QED BY <2>2, <2>3 DEF IInv
<1>2. ASSUME NEW i \in Interactions, Step(i) PROVE IInv'
  BY <1>2, ArriveKeeps, ClaimKeeps, GateKeeps, GuardKeeps, CooldownPassesKeeps,
     BeforeHandlerKeeps, HandlerKeeps, HandlerThrowsKeeps, AnswerKeeps, ViewThrowsKeeps, ForgetKeeps DEF Step
<1> QED BY <1>1, <1>2, ToggleKeeps, TickKeeps DEF Next

-------------------------------------------------------------------------------
(* The inductive invariant holds of every behaviour of the pipeline.       *)
THEOREM Invariance == Spec => []IInv
BY InvInit, InvStep, PTL DEF Spec

(* Discord is sent at most one initial response for an interaction,        *)
(* whichever of the handler, the deferral, its failure and the refusals    *)
(* are sent for it, in whatever order (send-view.ts).                      *)
THEOREM OneResponse == Spec => []AnsweredOnce
<1>1. IInv => AnsweredOnce
  BY DEF IInv, Sound, Counted, AnsweredOnce
<1> QED BY <1>1, Invariance, PTL

(* A module that is off answers alike whatever the interaction, as long as *)
(* its switch can be read (interaction-router.ts, module-gate.ts).         *)
THEOREM DisabledAlike == Spec => []DisabledAnswersAlike
<1>1. IInv => DisabledAnswersAlike
  BY DEF IInv, Sound, TurnedAtGate, DisabledAnswersAlike
<1> QED BY <1>1, Invariance, PTL

(* An interaction that is over, returned or rejected, for which nothing was*)
(* tried and no handler came to its end, is one that no dispatcher claimed,*)
(* one whose component or option handler failed, or one whose dispatch     *)
(* rejected for its guard or for a view that did not render                *)
(* (interaction-router.ts, command-router.ts, component-router.ts).        *)
THEOREM EveryoneSeenTo == Spec => []NobodyLeftOut
<1>1. IInv => NobodyLeftOut
  BY DEF IInv, Sound, SeenTo, NobodyLeftOut
<1> QED BY <1>1, Invariance, PTL

(* Nothing a handler throws rejects the dispatch by itself, whatever was   *)
(* sent before: one after whose handler failed the dispatch rejects is a   *)
(* command whose failure view did not render either (create-command.ts     *)
(* executeRoute, component-router.ts, autocomplete-dispatcher.ts).         *)
THEOREM OnlyViewsEscape == Spec => []HandlersContained
<1>1. IInv => HandlersContained
  BY DEF IInv, Sound, Blamed, HandlersContained
<1> QED BY <1>1, Invariance, PTL

-------------------------------------------------------------------------------
(* A step of one interaction moves no other.                               *)
LEMMA StepMovesOne ==
    ASSUME IInv, NEW i \in Interactions, NEW j \in Interactions, i # j, Step(i)
    PROVE  interaction'[j] = interaction[j]
<1>1. \E r : Becomes(i, r)
  <2>1. CASE \/ \E r \in Routes : Arrive(i, r)
             \/ Claim(i) \/ GateAnswers(i) \/ GateFailsOpen(i)
    BY <2>1 DEF Arrive, Claim, GateAnswers, GateFailsOpen
  <2>2. CASE Allowed(i) \/ Denied(i) \/ GuardThrows(i) \/ CooldownPasses(i) \/ CooldownDenies(i)
    BY <2>2 DEF Allowed, Denied, GuardThrows, CooldownPasses, CooldownDenies
  <2>3. CASE \/ DeferReply(i) \/ BuildContext(i)
             \/ \E ok \in BOOLEAN : HandlerSends(i, ok)
             \/ HandlerDefers(i) \/ HandlerSuggests(i) \/ HandlerReturns(i) \/ HandlerThrows(i)
    BY <2>3 DEF DeferReply, BuildContext, HandlerSends, HandlerDefers, HandlerSuggests,
                HandlerReturns, HandlerThrows
  <2>4. CASE \/ \E ok \in BOOLEAN : SendView(i, ok) \/ RespondEmpty(i, ok)
             \/ ViewThrows(i) \/ Forget(i)
    BY <2>4 DEF SendView, RespondEmpty, ViewThrows, Forget
  <2> QED BY <2>1, <2>2, <2>3, <2>4 DEF Step
<1> QED BY <1>1 DEF Becomes, IInv, TypeOK

(* A command only gets past a cooldown guard by CooldownPasses.            *)
LEMMA OnlyCooldownPasses ==
    ASSUME IInv, NEW i \in Interactions, Step(i),
           PC(i) = "guard", Route(i).guard = "cooldown", PC(i)' = "execute"
    PROVE  CooldownPasses(i)
<1> DEFINE r == interaction[i]
<1>1. r \in Records /\ r.pc = "guard" /\ r.route.guard = "cooldown"
  BY DEF PC, Route, IInv, TypeOK
<1>2. \A s : Becomes(i, s) => s.pc = "execute"
  BY DEF Becomes, PC, IInv, TypeOK
<1>3. ~Denied(i) /\ ~GuardThrows(i) /\ ~Allowed(i)
  BY DEF Denied, GuardThrows, Allowed
<1>4. ~CooldownDenies(i)
  <2>1. Answering(r, "denied").pc = "answer"
    BY <1>1 DEF Answering, Records
  <2> QED BY <1>2, <2>1 DEF CooldownDenies
<1>5. /\ \A route \in Routes : ~Arrive(i, route)
      /\ ~Claim(i) /\ ~GateAnswers(i) /\ ~GateFailsOpen(i)
  BY DEF Arrive, Claim, GateAnswers, GateFailsOpen
<1>6. /\ ~DeferReply(i) /\ ~BuildContext(i)
      /\ \A ok \in BOOLEAN : ~HandlerSends(i, ok)
      /\ ~HandlerDefers(i) /\ ~HandlerSuggests(i) /\ ~HandlerReturns(i) /\ ~HandlerThrows(i)
  BY DEF DeferReply, BuildContext, HandlerSends, HandlerDefers, HandlerSuggests,
         HandlerReturns, HandlerThrows
<1>7. /\ \A ok \in BOOLEAN : ~SendView(i, ok) /\ ~RespondEmpty(i, ok)
      /\ ~ViewThrows(i) /\ ~Forget(i)
  BY DEF SendView, RespondEmpty, ViewThrows, Forget
<1> QED BY <1>3, <1>4, <1>5, <1>6, <1>7 DEF Step

(* However many members use however many cooldowns, and whatever is pruned *)
(* from the Map meanwhile, two uses of one key are a window apart          *)
(* (guards/cooldown.ts).                                                   *)
THEOREM WindowsKept == Spec => CooldownRespected
<1>1. IInv /\ [Next]_vars =>
          [\A i \in Interactions :
              PC(i) = "guard" /\ Route(i).guard = "cooldown" /\ PC(i)' = "execute"
              => age[Route(i).key] >= Window]_vars
  <2> SUFFICES ASSUME IInv, Next, NEW i \in Interactions,
                      PC(i) = "guard", Route(i).guard = "cooldown", PC(i)' = "execute"
               PROVE  age[Route(i).key] >= Window
    OBVIOUS
  <2>1. interaction'[i] # interaction[i]
    BY DEF PC
  <2>2. ~BotMoves /\ ~Tick
    BY <2>1 DEF BotMoves, Tick
  <2>3. ASSUME NEW m \in Switched PROVE ~Toggle(m)
    <3>1. interaction[i] \in Records
      BY DEF IInv, TypeOK
    <3> QED BY <3>1 DEF Toggle, PC, Records
  <2>4. Step(i)
    BY <2>1, <2>2, <2>3, StepMovesOne DEF Next
  <2>5. CooldownPasses(i)
    BY <2>4, OnlyCooldownPasses
  <2>6. Route(i).key \in CooldownKeys
    BY RouteAssumption DEF IInv, TypeOK, RouteType
  <2> QED BY <2>5, <2>6 DEF CooldownPasses, IInv, Remembered, Expired
<1> QED BY <1>1, Invariance, PTL DEF Spec, CooldownRespected

===============================================================================
