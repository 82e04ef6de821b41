-------------------------- MODULE BotLifecycleProofs --------------------------
(***************************************************************************)
(* Proofs about BotLifecycle, for any databases, any modules and any       *)
(* choice of the optional ones and of those that have a teardown.          *)
(*                                                                         *)
(* The two sequences share nothing but a few variables, and interleave at  *)
(* every step.  The inductive invariant places each resource by where both *)
(* of them stand: what is held is arriving, or retained for a release that *)
(* the shutdown has not come to.  It rests on the two plans, of which the  *)
(* first lemmas say what is done where, and that each resource has one     *)
(* place in each.                                                          *)
(***************************************************************************)
EXTENDS BotLifecycle, SequenceTheorems, TLAPS

Targets == Resources \cup {"none"}
StartNames == {"databases.connect", "migrations.run", "gateway.login", "gateway.ready",
               "module.setup", "jobs.start"}
StopNames == {"start.settle", "jobs.stop", "module.teardown", "start.join",
              "databases.close", "gateway.destroy", "flush", "settings.unsubscribe"}

(* How many databases and modules there are.                               *)
D == Len(Databases)
M == Len(Modules)

(* A function over 1 .. n is a sequence of length n.                       *)
LEMMA Listed ==
    ASSUME NEW S, NEW n \in Nat, NEW f \in [1 .. n -> S]
    PROVE  f \in Seq(S) /\ Len(f) = n
OBVIOUS

(* What one sequence appended to another has at each place.                *)
LEMMA Appended ==
    ASSUME NEW S, NEW s \in Seq(S), NEW t \in Seq(S), NEW u, u = s \o t
    PROVE  /\ u \in Seq(S)
           /\ Len(u) = Len(s) + Len(t)
           /\ \A i \in 1 .. Len(s) : u[i] = s[i]
           /\ \A i \in 1 .. Len(t) : u[Len(s) + i] = t[i]
<1>1. Len(s) \in Nat /\ Len(t) \in Nat
  OBVIOUS
<1> QED BY <1>1, ConcatProperties

(* The databases and the modules are listed at 1 .. D and 1 .. M.          *)
LEMMA Lists ==
    /\ D \in Nat /\ M \in Nat
    /\ \A i \in 1 .. D : Databases[i] \in Each(Databases)
    /\ \A i \in 1 .. M : Modules[i] \in Each(Modules)
    /\ DOMAIN Databases = 1 .. D /\ DOMAIN Modules = 1 .. M
<1>1. /\ D \in Nat /\ DOMAIN Databases = 1 .. D
      /\ M \in Nat /\ DOMAIN Modules = 1 .. M
  BY PlanAssumption, LenProperties DEF D, M
<1> QED BY <1>1 DEF Each

(* What startSequence does at each place.                                  *)
LEMMA StartPlanAt ==
    /\ Len(StartPlan) = D + M + 4
    /\ DOMAIN StartPlan = 1 .. D + M + 4
    /\ \A i \in 1 .. D : StartPlan[i] = Step("databases.connect", Databases[i])
    /\ StartPlan[D + 1] = Step("migrations.run", "none")
    /\ StartPlan[D + 2] = Step("gateway.login", "gateway")
    /\ StartPlan[D + 3] = Step("gateway.ready", "none")
    /\ \A i \in 1 .. M : StartPlan[D + 3 + i] = Step("module.setup", Modules[i])
    /\ StartPlan[D + M + 4] = Step("jobs.start", "scheduler")
<1>0. PICK Steps, A, B, C, E :
          /\ Steps = [name : StartNames, target : Targets]
          /\ A = [i \in 1 .. Len(Databases) |-> Step("databases.connect", Databases[i])]
          /\ B = << Step("migrations.run", "none"),
                    Step("gateway.login", "gateway"),
                    Step("gateway.ready", "none") >>
          /\ C = [i \in 1 .. Len(Modules) |-> Step("module.setup", Modules[i])]
          /\ E = << Step("jobs.start", "scheduler") >>
  OBVIOUS
<1>1. \A n \in StartNames, t \in Targets : Step(n, t) \in Steps
  BY <1>0 DEF Step
<1>2. A \in [1 .. D -> Steps] /\ C \in [1 .. M -> Steps]
  BY <1>0, <1>1, Lists DEF StartNames, Targets, Resources, D, M
<1>3. A \in Seq(Steps) /\ Len(A) = D /\ C \in Seq(Steps) /\ Len(C) = M
  BY <1>2, Lists, Listed
<1>4. B \in Seq(Steps) /\ Len(B) = 3 /\ E \in Seq(Steps) /\ Len(E) = 1
  BY <1>0, <1>1 DEF StartNames, Targets, Resources
<1>5. /\ \A i \in 1 .. D : A[i] = Step("databases.connect", Databases[i])
      /\ \A i \in 1 .. M : C[i] = Step("module.setup", Modules[i])
      /\ B[1] = Step("migrations.run", "none")
      /\ B[2] = Step("gateway.login", "gateway")
      /\ B[3] = Step("gateway.ready", "none")
      /\ E[1] = Step("jobs.start", "scheduler")
  BY <1>0 DEF D, M
<1>6. PICK AB, ABC : AB = A \o B /\ ABC = AB \o C /\ StartPlan = ABC \o E
  BY <1>0 DEF StartPlan
<1>7. /\ AB \in Seq(Steps) /\ Len(AB) = D + 3
      /\ \A i \in 1 .. D : AB[i] = A[i]
      /\ \A i \in 1 .. 3 : AB[D + i] = B[i]
  <2>1. /\ AB \in Seq(Steps) /\ Len(AB) = Len(A) + Len(B)
        /\ \A i \in 1 .. Len(A) : AB[i] = A[i]
        /\ \A i \in 1 .. Len(B) : AB[Len(A) + i] = B[i]
    <3>1. A \in Seq(Steps) /\ B \in Seq(Steps) /\ AB = A \o B
      BY <1>3, <1>4, <1>6
    <3> QED BY <3>1, Appended
  <2> QED BY <2>1, <1>3, <1>4, <1>6
<1>8. /\ ABC \in Seq(Steps) /\ Len(ABC) = D + 3 + M
      /\ \A i \in 1 .. D + 3 : ABC[i] = AB[i]
      /\ \A i \in 1 .. M : ABC[D + 3 + i] = C[i]
  <2>1. /\ ABC \in Seq(Steps) /\ Len(ABC) = Len(AB) + Len(C)
        /\ \A i \in 1 .. Len(AB) : ABC[i] = AB[i]
        /\ \A i \in 1 .. Len(C) : ABC[Len(AB) + i] = C[i]
    <3>1. AB \in Seq(Steps) /\ C \in Seq(Steps) /\ ABC = AB \o C
      BY <1>3, <1>6, <1>7
    <3> QED BY <3>1, Appended
  <2> QED BY <2>1, <1>3, <1>6, <1>7
<1>9. /\ StartPlan \in Seq(Steps) /\ Len(StartPlan) = D + 3 + M + 1
      /\ \A i \in 1 .. D + 3 + M : StartPlan[i] = ABC[i]
      /\ \A i \in 1 .. 1 : StartPlan[D + 3 + M + i] = E[i]
  <2>1. /\ StartPlan \in Seq(Steps) /\ Len(StartPlan) = Len(ABC) + Len(E)
        /\ \A i \in 1 .. Len(ABC) : StartPlan[i] = ABC[i]
        /\ \A i \in 1 .. Len(E) : StartPlan[Len(ABC) + i] = E[i]
    <3>1. ABC \in Seq(Steps) /\ E \in Seq(Steps) /\ StartPlan = ABC \o E
      BY <1>4, <1>6, <1>8
    <3> QED BY <3>1, Appended
  <2> QED BY <2>1, <1>4, <1>6, <1>8
<1>10. DOMAIN StartPlan = 1 .. Len(StartPlan)
  BY <1>9, LenProperties
<1>11. \A i \in 1 .. D + 3 : StartPlan[i] = AB[i]
  <2>1. \A i \in 1 .. D + 3 : i \in 1 .. D + 3 + M
    BY Lists
  <2> QED BY <2>1, <1>8, <1>9
<1>12. \A i \in 1 .. M : StartPlan[D + 3 + i] = C[i]
  BY <1>8, <1>9, Lists
<1>13. StartPlan[D + M + 4] = E[1]
  <2>1. D + M + 4 = D + 3 + M + 1 /\ 1 \in 1 .. 1
    BY Lists
  <2> QED BY <2>1, <1>9
<1>14. /\ \A i \in 1 .. D : StartPlan[i] = A[i]
       /\ StartPlan[D + 1] = B[1] /\ StartPlan[D + 2] = B[2] /\ StartPlan[D + 3] = B[3]
  BY <1>7, <1>11, Lists
<1>15. Len(StartPlan) = D + M + 4
  BY <1>9, Lists
<1> QED BY <1>5, <1>10, <1>12, <1>13, <1>14, <1>15

(* What stopSequence does at each place.                                   *)
LEMMA StopPlanAt ==
    /\ Len(StopPlan) = D + M + 6
    /\ DOMAIN StopPlan = 1 .. D + M + 6
    /\ StopPlan[1] = Step("start.settle", "none")
    /\ StopPlan[2] = Step("jobs.stop", "scheduler")
    /\ \A i \in 1 .. M : StopPlan[2 + i] = Step("module.teardown", Modules[M + 1 - i])
    /\ StopPlan[M + 3] = Step("start.join", "none")
    /\ \A i \in 1 .. D :
          StopPlan[M + 3 + i] = Step("databases.close", Databases[D + 1 - i])
    /\ StopPlan[D + M + 4] = Step("gateway.destroy", "gateway")
    /\ StopPlan[D + M + 5] = Step("flush", "none")
    /\ StopPlan[D + M + 6] = Step("settings.unsubscribe", "none")
<1>0. PICK Steps, A, B, C, E, F :
          /\ Steps = [name : StopNames, target : Targets]
          /\ A = << Step("start.settle", "none"), Step("jobs.stop", "scheduler") >>
          /\ B = [i \in 1 .. Len(Modules) |->
                   Step("module.teardown", Modules[Len(Modules) + 1 - i])]
          /\ C = << Step("start.join", "none") >>
          /\ E = [i \in 1 .. Len(Databases) |->
                   Step("databases.close", Databases[Len(Databases) + 1 - i])]
          /\ F = << Step("gateway.destroy", "gateway"),
                  Step("flush", "none"),
                  Step("settings.unsubscribe", "none") >>
  OBVIOUS
<1>1. \A n \in StopNames, t \in Targets : Step(n, t) \in Steps
  BY <1>0 DEF Step
<1>2. \A i \in 1 .. M : M + 1 - i \in 1 .. M
  BY Lists
<1>3. \A i \in 1 .. D : D + 1 - i \in 1 .. D
  BY Lists
<1>4. B \in [1 .. M -> Steps] /\ E \in [1 .. D -> Steps]
  BY <1>0, <1>1, <1>2, <1>3, Lists DEF StopNames, Targets, Resources, D, M
<1>5. B \in Seq(Steps) /\ Len(B) = M /\ E \in Seq(Steps) /\ Len(E) = D
  BY <1>4, Lists, Listed
<1>6. /\ A \in Seq(Steps) /\ Len(A) = 2 /\ C \in Seq(Steps) /\ Len(C) = 1
      /\ F \in Seq(Steps) /\ Len(F) = 3
  BY <1>0, <1>1 DEF StopNames, Targets, Resources
<1>7. /\ \A i \in 1 .. M : B[i] = Step("module.teardown", Modules[M + 1 - i])
      /\ \A i \in 1 .. D : E[i] = Step("databases.close", Databases[D + 1 - i])
      /\ A[1] = Step("start.settle", "none")
      /\ A[2] = Step("jobs.stop", "scheduler")
      /\ C[1] = Step("start.join", "none")
      /\ F[1] = Step("gateway.destroy", "gateway")
      /\ F[2] = Step("flush", "none")
      /\ F[3] = Step("settings.unsubscribe", "none")
  BY <1>0 DEF D, M
<1>8. PICK AB, ABC, ABCE :
          AB = A \o B /\ ABC = AB \o C /\ ABCE = ABC \o E /\ StopPlan = ABCE \o F
  BY <1>0 DEF StopPlan
<1>9. /\ AB \in Seq(Steps) /\ Len(AB) = 2 + M
      /\ \A i \in 1 .. 2 : AB[i] = A[i]
      /\ \A i \in 1 .. M : AB[2 + i] = B[i]
  <2>1. /\ AB \in Seq(Steps) /\ Len(AB) = Len(A) + Len(B)
        /\ \A i \in 1 .. Len(A) : AB[i] = A[i]
        /\ \A i \in 1 .. Len(B) : AB[Len(A) + i] = B[i]
    <3>1. A \in Seq(Steps) /\ B \in Seq(Steps) /\ AB = A \o B
      BY <1>5, <1>6, <1>8
    <3> QED BY <3>1, Appended
  <2> QED BY <2>1, <1>5, <1>6, <1>8
<1>10. /\ ABC \in Seq(Steps) /\ Len(ABC) = 2 + M + 1
       /\ \A i \in 1 .. 2 + M : ABC[i] = AB[i]
       /\ \A i \in 1 .. 1 : ABC[2 + M + i] = C[i]
  <2>1. /\ ABC \in Seq(Steps) /\ Len(ABC) = Len(AB) + Len(C)
        /\ \A i \in 1 .. Len(AB) : ABC[i] = AB[i]
        /\ \A i \in 1 .. Len(C) : ABC[Len(AB) + i] = C[i]
    <3>1. AB \in Seq(Steps) /\ C \in Seq(Steps) /\ ABC = AB \o C
      BY <1>6, <1>8, <1>9
    <3> QED BY <3>1, Appended
  <2> QED BY <2>1, <1>6, <1>8, <1>9
<1>11. /\ ABCE \in Seq(Steps)
       /\ Len(ABCE) = 2 + M + 1 + D
       /\ \A i \in 1 .. 2 + M + 1 : ABCE[i] = ABC[i]
       /\ \A i \in 1 .. D : ABCE[2 + M + 1 + i] = E[i]
  <2>1. /\ ABCE \in Seq(Steps) /\ Len(ABCE) = Len(ABC) + Len(E)
        /\ \A i \in 1 .. Len(ABC) : ABCE[i] = ABC[i]
        /\ \A i \in 1 .. Len(E) : ABCE[Len(ABC) + i] = E[i]
    <3>1. ABC \in Seq(Steps) /\ E \in Seq(Steps) /\ ABCE = ABC \o E
      BY <1>5, <1>8, <1>10
    <3> QED BY <3>1, Appended
  <2>2. Len(ABC) = 2 + M + 1 /\ Len(E) = D
    BY <1>5, <1>10
  <2> QED BY <2>1, <2>2
<1>12. /\ StopPlan \in Seq(Steps) /\ Len(StopPlan) = 2 + M + 1 + D + 3
       /\ \A i \in 1 .. 2 + M + 1 + D : StopPlan[i] = ABCE[i]
       /\ \A i \in 1 .. 3 : StopPlan[2 + M + 1 + D + i] = F[i]
  <2>1. /\ StopPlan \in Seq(Steps) /\ Len(StopPlan) = Len(ABCE) + Len(F)
        /\ \A i \in 1 .. Len(ABCE) : StopPlan[i] = ABCE[i]
        /\ \A i \in 1 .. Len(F) : StopPlan[Len(ABCE) + i] = F[i]
    <3>1. ABCE \in Seq(Steps) /\ F \in Seq(Steps) /\ StopPlan = ABCE \o F
      BY <1>6, <1>8, <1>11
    <3> QED BY <3>1, Appended
  <2>2. Len(ABCE) = 2 + M + 1 + D /\ Len(F) = 3
    BY <1>6, <1>11
  <2> QED BY <2>1, <2>2
<1>13. DOMAIN StopPlan = 1 .. Len(StopPlan)
  BY <1>12, LenProperties
<1>14. \A i \in 1 .. 2 + M : StopPlan[i] = AB[i]
  BY <1>10, <1>11, <1>12, Lists
<1>15. StopPlan[1] = A[1] /\ StopPlan[2] = A[2]
  BY <1>9, <1>14, Lists
<1>16. \A i \in 1 .. M : StopPlan[2 + i] = B[i]
  BY <1>9, <1>14, Lists
<1>17. StopPlan[M + 3] = C[1]
  <2>1. M + 3 = 2 + M + 1 /\ 1 \in 1 .. 1 /\ M + 3 \in 1 .. 2 + M + 1
    BY Lists
  <2>2. M + 3 \in 1 .. 2 + M + 1 + D
    BY Lists
  <2> QED BY <2>1, <2>2, <1>10, <1>11, <1>12
<1>18. \A i \in 1 .. D : StopPlan[M + 3 + i] = E[i]
  <2> SUFFICES ASSUME NEW i \in 1 .. D PROVE StopPlan[M + 3 + i] = E[i]
    OBVIOUS
  <2>1. M + 3 + i = 2 + M + 1 + i /\ M + 3 + i \in 1 .. 2 + M + 1 + D
    BY Lists
  <2> QED BY <2>1, <1>11, <1>12
<1>19. /\ StopPlan[D + M + 4] = F[1] /\ StopPlan[D + M + 5] = F[2]
       /\ StopPlan[D + M + 6] = F[3]
  <2>1. /\ D + M + 4 = 2 + M + 1 + D + 1 /\ D + M + 5 = 2 + M + 1 + D + 2
        /\ D + M + 6 = 2 + M + 1 + D + 3
    BY Lists
  <2> QED BY <2>1, <1>12
<1>20. Len(StopPlan) = D + M + 6
  BY <1>12, Lists
<1> QED BY <1>7, <1>13, <1>15, <1>16, <1>17, <1>18, <1>19, <1>20

(* Databases, modules, gateway and scheduler are told apart.               *)
LEMMA Distinct ==
    /\ Each(Databases) \cap Each(Modules) = {}
    /\ {"gateway", "scheduler", "none"} \cap (Each(Databases) \cup Each(Modules)) = {}
    /\ Optional \subseteq Each(Modules) /\ WithTeardown \subseteq Each(Modules)
    /\ Resources = Each(Databases) \cup Each(Modules) \cup {"gateway", "scheduler"}
    /\ "none" \notin Resources
BY PlanAssumption, ModuleAssumption DEF Resources

(* Each step of startup is of one of six kinds.                            *)
LEMMA StartKinds ==
    ASSUME NEW i \in DOMAIN StartPlan
    PROVE  \/ i \in 1 .. D /\ StartPlan[i] = Step("databases.connect", Databases[i])
           \/ i = D + 1 /\ StartPlan[i] = Step("migrations.run", "none")
           \/ i = D + 2 /\ StartPlan[i] = Step("gateway.login", "gateway")
           \/ i = D + 3 /\ StartPlan[i] = Step("gateway.ready", "none")
           \/ /\ i - (D + 3) \in 1 .. M
              /\ StartPlan[i] = Step("module.setup", Modules[i - (D + 3)])
           \/ i = D + M + 4 /\ StartPlan[i] = Step("jobs.start", "scheduler")
<1>1. i \in 1 .. D + M + 4
  BY StartPlanAt
<1>2. \/ i \in 1 .. D \/ i = D + 1 \/ i = D + 2 \/ i = D + 3
      \/ i - (D + 3) \in 1 .. M /\ i = D + 3 + (i - (D + 3))
      \/ i = D + M + 4
  BY <1>1, Lists
<1> QED BY <1>2, StartPlanAt

(* Which steps acquire which resources.                                    *)
LEMMA StartTargets ==
    ASSUME NEW i \in DOMAIN StartPlan
    PROVE  /\ StartPlan[i].target \in Targets
           /\ StartPlan[i].name = "databases.connect" <=> StartPlan[i].target \in Each(Databases)
           /\ StartPlan[i].name = "module.setup" <=> StartPlan[i].target \in Each(Modules)
           /\ StartPlan[i].name = "gateway.login" <=> StartPlan[i].target = "gateway"
           /\ StartPlan[i].name = "jobs.start" <=> StartPlan[i].target = "scheduler"
           /\ StartPlan[i].name = "gateway.ready" => StartPlan[i].target = "none"
<1>1. \A j \in 1 .. D : Databases[j] \in Each(Databases)
  BY Lists
<1>2. \A j \in 1 .. M : Modules[j] \in Each(Modules)
  BY Lists
<1> QED BY <1>1, <1>2, StartKinds, Distinct DEF Step, Targets

(* Each resource is acquired by one step.                                  *)
LEMMA StartOnce ==
    ASSUME NEW i \in DOMAIN StartPlan, NEW j \in DOMAIN StartPlan,
           StartPlan[i].target \in Resources, StartPlan[i].target = StartPlan[j].target
    PROVE  i = j
<1>1. D \in Nat /\ M \in Nat
  BY Lists
<1>2. /\ \A k \in 1 .. D : Databases[k] \in Each(Databases)
      /\ \A k \in 1 .. M : Modules[k] \in Each(Modules)
      /\ \A k, l \in 1 .. D : Databases[k] = Databases[l] => k = l
      /\ \A k, l \in 1 .. M : Modules[k] = Modules[l] => k = l
  BY Lists, PlanAssumption
<1>3. i \in Int /\ j \in Int
  BY StartPlanAt, <1>1
<1>4. CASE StartPlan[i].target \in Each(Databases)
  <2>1. i \in 1 .. D /\ StartPlan[i].target = Databases[i]
    BY <1>2, <1>4, StartKinds, Distinct DEF Step
  <2>2. j \in 1 .. D /\ StartPlan[j].target = Databases[j]
    BY <1>2, <1>4, StartKinds, Distinct DEF Step
  <2> QED BY <1>2, <2>1, <2>2
<1>5. CASE StartPlan[i].target \in Each(Modules)
  <2>1. i - (D + 3) \in 1 .. M /\ StartPlan[i].target = Modules[i - (D + 3)]
    BY <1>2, <1>5, StartKinds, Distinct DEF Step
  <2>2. j - (D + 3) \in 1 .. M /\ StartPlan[j].target = Modules[j - (D + 3)]
    BY <1>2, <1>5, StartKinds, Distinct DEF Step
  <2>3. i - (D + 3) = j - (D + 3)
    BY <1>2, <2>1, <2>2
  <2> QED BY <1>1, <1>3, <2>3
<1>6. CASE StartPlan[i].target = "gateway"
  <2>1. i = D + 2
    BY <1>2, <1>6, StartKinds, Distinct DEF Step
  <2>2. StartPlan[j].target = "gateway"
    BY <1>6
  <2>3. j = D + 2
    BY <1>2, <2>2, StartKinds, Distinct DEF Step
  <2> QED BY <2>1, <2>3
<1>7. CASE StartPlan[i].target = "scheduler"
  <2>1. i = D + M + 4
    BY <1>2, <1>7, StartKinds, Distinct DEF Step
  <2>2. StartPlan[j].target = "scheduler"
    BY <1>7
  <2>3. j = D + M + 4
    BY <1>2, <2>2, StartKinds, Distinct DEF Step
  <2> QED BY <2>1, <2>3
<1> QED BY <1>4, <1>5, <1>6, <1>7, Distinct

(* Every resource is acquired by some step.                                *)
LEMMA StartAll ==
    ASSUME NEW r \in Resources
    PROVE  \E i \in DOMAIN StartPlan : StartPlan[i].target = r
<1>1. DOMAIN StartPlan = 1 .. D + M + 4 /\ D \in Nat /\ M \in Nat
  BY StartPlanAt, Lists
<1>2. CASE r \in Each(Databases)
  <2>1. PICK k \in 1 .. D : r = Databases[k]
    BY <1>2, Lists DEF Each
  <2>2. k \in DOMAIN StartPlan
    BY <1>1, <2>1
  <2>3. StartPlan[k] = Step("databases.connect", r)
    BY <2>1, StartPlanAt
  <2> QED BY <2>2, <2>3 DEF Step
<1>3. CASE r \in Each(Modules)
  <2>1. PICK k \in 1 .. M : r = Modules[k]
    BY <1>3, Lists DEF Each
  <2>2. D + 3 + k \in DOMAIN StartPlan
    BY <1>1, <2>1
  <2>3. StartPlan[D + 3 + k] = Step("module.setup", r)
    BY <2>1, StartPlanAt
  <2> QED BY <2>2, <2>3 DEF Step
<1>4. CASE r = "gateway"
  <2>1. D + 2 \in DOMAIN StartPlan
    BY <1>1
  <2>2. StartPlan[D + 2] = Step("gateway.login", "gateway")
    BY StartPlanAt
  <2> QED BY <1>4, <2>1, <2>2 DEF Step
<1>5. CASE r = "scheduler"
  <2>1. D + M + 4 \in DOMAIN StartPlan
    BY <1>1
  <2>2. StartPlan[D + M + 4] = Step("jobs.start", "scheduler")
    BY StartPlanAt
  <2> QED BY <1>5, <2>1, <2>2 DEF Step
<1> QED BY <1>2, <1>3, <1>4, <1>5, Distinct

JoinPlace == M + 3

(* Each step of the shutdown is of one of eight kinds.                     *)
LEMMA StopKinds ==
    ASSUME NEW i \in DOMAIN StopPlan
    PROVE  \/ i = 1 /\ StopPlan[i] = Step("start.settle", "none")
           \/ i = 2 /\ StopPlan[i] = Step("jobs.stop", "scheduler")
           \/ /\ i - 2 \in 1 .. M /\ M + 1 - (i - 2) \in 1 .. M
              /\ StopPlan[i] = Step("module.teardown", Modules[M + 1 - (i - 2)])
           \/ i = M + 3 /\ StopPlan[i] = Step("start.join", "none")
           \/ /\ i - (M + 3) \in 1 .. D /\ D + 1 - (i - (M + 3)) \in 1 .. D
              /\ StopPlan[i] = Step("databases.close", Databases[D + 1 - (i - (M + 3))])
           \/ i = D + M + 4 /\ StopPlan[i] = Step("gateway.destroy", "gateway")
           \/ i = D + M + 5 /\ StopPlan[i] = Step("flush", "none")
           \/ i = D + M + 6 /\ StopPlan[i] = Step("settings.unsubscribe", "none")
<1>1. i \in 1 .. D + M + 6
  BY StopPlanAt
<1>2. \/ i = 1 \/ i = 2
      \/ i - 2 \in 1 .. M /\ M + 1 - (i - 2) \in 1 .. M /\ i = 2 + (i - 2)
      \/ i = M + 3
      \/ /\ i - (M + 3) \in 1 .. D /\ D + 1 - (i - (M + 3)) \in 1 .. D
         /\ i = M + 3 + (i - (M + 3))
      \/ i = D + M + 4 \/ i = D + M + 5 \/ i = D + M + 6
  <2>1. D \in Nat /\ M \in Nat
    BY Lists
  <2> QED BY <1>1, <2>1
<1> QED BY <1>2, StopPlanAt

(* Which steps release which resources, and where startup is waited for.   *)
LEMMA StopTargets ==
    ASSUME NEW i \in DOMAIN StopPlan
    PROVE  /\ StopPlan[i].target \in Targets
           /\ StopPlan[i].name = "databases.close" <=> StopPlan[i].target \in Each(Databases)
           /\ StopPlan[i].name = "module.teardown" <=> StopPlan[i].target \in Each(Modules)
           /\ StopPlan[i].name = "gateway.destroy" <=> StopPlan[i].target = "gateway"
           /\ StopPlan[i].name = "jobs.stop" <=> StopPlan[i].target = "scheduler"
           /\ StopPlan[i].name = "start.settle" <=> i = 1
           /\ StopPlan[i].name = "start.join" <=> i = JoinPlace
           /\ StopPlan[i].target \in Resources => i > 1
           /\ StopPlan[i].name \in {"databases.close", "gateway.destroy"} => i > JoinPlace
<1>1. D \in Nat /\ M \in Nat
  BY Lists
<1>2. /\ \A j \in 1 .. D : Databases[j] \in Each(Databases)
      /\ \A j \in 1 .. M : Modules[j] \in Each(Modules)
  BY Lists
<1>3. i \in Int
  BY <1>1, StopPlanAt
<1>4. /\ StopPlan[i].target \in Targets
      /\ StopPlan[i].name = "databases.close" <=> StopPlan[i].target \in Each(Databases)
      /\ StopPlan[i].name = "module.teardown" <=> StopPlan[i].target \in Each(Modules)
      /\ StopPlan[i].name = "gateway.destroy" <=> StopPlan[i].target = "gateway"
      /\ StopPlan[i].name = "jobs.stop" <=> StopPlan[i].target = "scheduler"
  BY <1>2, StopKinds, Distinct DEF Step, Targets
<1>5. StopPlan[i].name = "start.settle" <=> i = 1
  BY <1>1, <1>3, StopKinds DEF Step
<1>6. StopPlan[i].name = "start.join" <=> i = JoinPlace
  BY <1>1, <1>3, StopKinds DEF Step, JoinPlace
<1>7. i = 1 => StopPlan[i].target = "none"
  <2>1. StopPlan[1] = Step("start.settle", "none")
    BY StopPlanAt
  <2> QED BY <2>1 DEF Step
<1>8. i \in 1 .. D + M + 6
  BY StopPlanAt
<1>9. StopPlan[i].target \in Resources => i > 1
  BY <1>1, <1>7, <1>8, Distinct
<1>10. StopPlan[i].name \in {"databases.close", "gateway.destroy"} => i > JoinPlace
  BY <1>1, <1>3, StopKinds DEF Step, JoinPlace
<1> QED BY <1>4, <1>5, <1>6, <1>9, <1>10

(* Each resource is released by one step.                                  *)
LEMMA StopOnce ==
    ASSUME NEW i \in DOMAIN StopPlan, NEW j \in DOMAIN StopPlan,
           StopPlan[i].target \in Resources, StopPlan[i].target = StopPlan[j].target
    PROVE  i = j
<1>1. D \in Nat /\ M \in Nat
  BY Lists
<1>2. /\ \A k \in 1 .. D : Databases[k] \in Each(Databases)
      /\ \A k \in 1 .. M : Modules[k] \in Each(Modules)
      /\ \A k, l \in 1 .. D : Databases[k] = Databases[l] => k = l
      /\ \A k, l \in 1 .. M : Modules[k] = Modules[l] => k = l
  BY Lists, PlanAssumption
<1>3. i \in Int /\ j \in Int
  BY StopPlanAt, <1>1
<1>4. CASE StopPlan[i].target \in Each(Databases)
  <2>1. /\ D + 1 - (i - (M + 3)) \in 1 .. D
        /\ StopPlan[i].target = Databases[D + 1 - (i - (M + 3))]
    BY <1>2, <1>4, StopKinds, Distinct DEF Step
  <2>2. /\ D + 1 - (j - (M + 3)) \in 1 .. D
        /\ StopPlan[j].target = Databases[D + 1 - (j - (M + 3))]
    BY <1>2, <1>4, StopKinds, Distinct DEF Step
  <2>3. D + 1 - (i - (M + 3)) = D + 1 - (j - (M + 3))
    BY <1>2, <2>1, <2>2
  <2> QED BY <1>1, <1>3, <2>3
<1>5. CASE StopPlan[i].target \in Each(Modules)
  <2>1. M + 1 - (i - 2) \in 1 .. M /\ StopPlan[i].target = Modules[M + 1 - (i - 2)]
    BY <1>2, <1>5, StopKinds, Distinct DEF Step
  <2>2. M + 1 - (j - 2) \in 1 .. M /\ StopPlan[j].target = Modules[M + 1 - (j - 2)]
    BY <1>2, <1>5, StopKinds, Distinct DEF Step
  <2>3. M + 1 - (i - 2) = M + 1 - (j - 2)
    BY <1>2, <2>1, <2>2
  <2> QED BY <1>1, <1>3, <2>3
<1>6. CASE StopPlan[i].target = "gateway"
  <2>1. i = D + M + 4
    BY <1>2, <1>6, StopKinds, Distinct DEF Step
  <2>2. StopPlan[j].target = "gateway"
    BY <1>6
  <2>3. j = D + M + 4
    BY <1>2, <2>2, StopKinds, Distinct DEF Step
  <2> QED BY <2>1, <2>3
<1>7. CASE StopPlan[i].target = "scheduler"
  <2>1. i = 2
    BY <1>2, <1>7, StopKinds, Distinct DEF Step
  <2>2. StopPlan[j].target = "scheduler"
    BY <1>7
  <2>3. j = 2
    BY <1>2, <2>2, StopKinds, Distinct DEF Step
  <2> QED BY <2>1, <2>3
<1> QED BY <1>4, <1>5, <1>6, <1>7, Distinct

(* Every resource is released by some step.                                *)
LEMMA StopAll ==
    ASSUME NEW r \in Resources
    PROVE  \E i \in DOMAIN StopPlan : StopPlan[i].target = r
<1>1. DOMAIN StopPlan = 1 .. D + M + 6 /\ D \in Nat /\ M \in Nat
  BY StopPlanAt, Lists
<1>2. CASE r \in Each(Databases)
  <2>1. PICK k \in 1 .. D : r = Databases[k]
    BY <1>2, Lists DEF Each
  <2>2. D + 1 - k \in 1 .. D /\ D + 1 - (D + 1 - k) = k
    BY <1>1
  <2>3. M + 3 + (D + 1 - k) \in DOMAIN StopPlan
    BY <1>1, <2>2
  <2>4. StopPlan[M + 3 + (D + 1 - k)] = Step("databases.close", r)
    BY <2>1, <2>2, StopPlanAt
  <2> QED BY <2>3, <2>4 DEF Step
<1>3. CASE r \in Each(Modules)
  <2>1. PICK k \in 1 .. M : r = Modules[k]
    BY <1>3, Lists DEF Each
  <2>2. M + 1 - k \in 1 .. M /\ M + 1 - (M + 1 - k) = k
    BY <1>1
  <2>3. 2 + (M + 1 - k) \in DOMAIN StopPlan
    BY <1>1, <2>2
  <2>4. StopPlan[2 + (M + 1 - k)] = Step("module.teardown", r)
    BY <2>1, <2>2, StopPlanAt
  <2> QED BY <2>3, <2>4 DEF Step
<1>4. CASE r = "gateway"
  <2>1. D + M + 4 \in DOMAIN StopPlan
    BY <1>1
  <2>2. StopPlan[D + M + 4] = Step("gateway.destroy", "gateway")
    BY StopPlanAt
  <2> QED BY <1>4, <2>1, <2>2 DEF Step
<1>5. CASE r = "scheduler"
  <2>1. 2 \in DOMAIN StopPlan
    BY <1>1
  <2>2. StopPlan[2] = Step("jobs.stop", "scheduler")
    BY StopPlanAt
  <2> QED BY <1>5, <2>1, <2>2 DEF Step
<1> QED BY <1>2, <1>3, <1>4, <1>5, Distinct

(* The lengths of the two plans.                                           *)
LEMMA PlanLengths ==
    /\ Len(StartPlan) \in Nat /\ DOMAIN StartPlan = 1 .. Len(StartPlan)
    /\ Len(StopPlan) \in Nat /\ DOMAIN StopPlan = 1 .. Len(StopPlan)
    /\ JoinPlace \in Nat /\ 2 < JoinPlace /\ JoinPlace < Len(StopPlan)
    /\ 0 < Len(StartPlan)
<1>1. D \in Nat /\ M \in Nat
  BY Lists
<1>2. /\ Len(StartPlan) = D + M + 4 /\ DOMAIN StartPlan = 1 .. D + M + 4
      /\ Len(StopPlan) = D + M + 6 /\ DOMAIN StopPlan = 1 .. D + M + 6
  BY StartPlanAt, StopPlanAt
<1> QED BY <1>1, <1>2 DEF JoinPlace

(* The steps of the shutdown that its invariant speaks of by name.         *)
LEMMA StopNamed ==
    /\ StopPlan[1].name = "start.settle"
    /\ StopPlan[JoinPlace].name = "start.join"
    /\ StopPlan[Len(StopPlan)].name = "settings.unsubscribe"
<1>1. /\ StopPlan[1] = Step("start.settle", "none")
      /\ StopPlan[JoinPlace] = Step("start.join", "none")
      /\ StopPlan[Len(StopPlan)] = Step("settings.unsubscribe", "none")
  BY StopPlanAt DEF JoinPlace
<1> QED BY <1>1 DEF Step

-------------------------------------------------------------------------------
(* The inductive invariant.                                                *)

StartupPhases == {"none", "acting", "settled", "releasing", "done", "failed"}
ShutdownPhases == {"none", "waiting", "settled", "done"}

(* Every variable keeps its type.                                          *)
TypeOK ==
    /\ state \in {"created", "starting", "running", "stopping", "stopped"}
    /\ startup \in [at : 0 .. Len(StartPlan), phase : StartupPhases, ok : BOOLEAN,
                    deadline : 0 .. GRACE_DEADLINE]
    /\ status \in [Each(Modules) -> {"pending", "ready", "unavailable"}]
    /\ connected \subseteq Each(Databases)
    /\ loginCalled \in BOOLEAN
    /\ shutdown \in [at : 0 .. Len(StopPlan), phase : ShutdownPhases,
                     deadline : 0 .. GRACE_DEADLINE]
    /\ budget \in [deadline : DEADLINE .. GRACE_DEADLINE, cleanup : BOOLEAN]
    /\ now \in 0 .. AfterGrace
    /\ held \in [Resources -> BOOLEAN]
    /\ releases \in [Resources -> Nat]

(* Startup is not, or no longer, at work.                                  *)
Quiet == startup.phase \in {"none", "done", "failed"}

(* Shutdown is past its i-th step, or that step is over.                   *)
Passed(i) == shutdown.at > i \/ (shutdown.at = i /\ shutdown.phase # "waiting")

(* The state the bot shows, and where the two sequences are.               *)
Phases ==
    /\ state \in {"created", "starting", "running"} <=> shutdown.phase = "none"
    /\ state = "stopped" <=> shutdown.phase = "done"
    /\ state = "created" => startup.phase = "none"
    /\ state = "starting" => startup.phase \in {"acting", "settled", "failed"}
    /\ state = "running" => startup.phase = "done"
    /\ startup.phase = "none" <=> startup.at = 0
    /\ shutdown.phase = "none" <=> shutdown.at = 0
    /\ shutdown.phase = "done" => shutdown.at = Len(StopPlan)
    /\ budget.cleanup <=> shutdown.at > 1

(* Nothing is waited for past the grace, and the second join until then.   *)
Clocked ==
    /\ now > 0 => shutdown.at > 0
    /\ shutdown.phase = "waiting" => shutdown.deadline >= DEADLINE
    /\ shutdown.phase = "waiting" /\ shutdown.at = JoinPlace =>
          shutdown.deadline = GRACE_DEADLINE
    /\ BoundedShutdown

(* The jobs start within one turn: no deadline passes, and a shutdown that *)
(* came in between is still at the first join.                             *)
JobsStartAtOnce ==
    startup.phase \in {"acting", "settled"} /\ StartStep.target = "scheduler" =>
        now = 0 /\ ~Passed(1)

(* Past the first join startup is over or reported; past the second it is  *)
(* over or the grace is.                                                   *)
StartupJoined ==
    /\ Passed(1) => Quiet \/ "start.settle" \in abandoned
    /\ Passed(JoinPlace) => Quiet \/ now >= GRACE_DEADLINE

(* The shutdown would release r, if it had come to it.                     *)
Retained(r) ==
    \/ r \in connected
    \/ r \in Each(Modules) /\ status[r] = "ready"
    \/ r = "gateway" /\ loginCalled
    \/ r = "scheduler" /\ held["scheduler"]

(* The shutdown has not come to the release of r.                          *)
Ahead(r) == \A i \in DOMAIN StopPlan : StopPlan[i].target = r => shutdown.at < i

(* Startup has done with its i-th step, or with the step that acquires r.  *)
Behind(i) ==
    \/ i < startup.at
    \/ i = startup.at /\ startup.phase \in {"releasing", "done", "failed"}
Past(r) == \A i \in DOMAIN StartPlan : StartPlan[i].target = r => Behind(i)

(* r has come in, and startup has not yet looked at what to do with it.    *)
Arriving(r) == startup.phase = "settled" /\ startup.ok /\ StartStep.target = r

(* What is held either comes in or waits for a release that is to come.    *)
HeldIsKnown ==
    \A r \in Resources : held[r] /\ HasRelease(r) => (Retained(r) /\ Ahead(r)) \/ Arriving(r)

(* Only what startup has done with is retained.                            *)
RetainedIsPast ==
    /\ \A r \in Each(Databases) \cup Each(Modules) : Retained(r) => Past(r)
    /\ startup.at > 0 /\ StartStep.target = "gateway" => loginCalled

(* A release is made by startup or by the shutdown, never by both; of the  *)
(* gateway by each of them.                                                *)
ReleasesCounted ==
    /\ \A r \in Each(Databases) \cup Each(Modules) :
          /\ releases[r] <= 1
          /\ releases[r] = 1 => Past(r) /\ ~(Retained(r) /\ Ahead(r))
    /\ releases["gateway"] <= 2
    /\ Ahead("gateway") \/ ~Past("gateway") => releases["gateway"] <= 1
    /\ Ahead("gateway") /\ ~Past("gateway") => releases["gateway"] = 0
    /\ releases["scheduler"] <= 1
    /\ Ahead("scheduler") => releases["scheduler"] = 0

(* Until a stop, what startup has done with and cannot do without is in    *)
(* service.                                                                *)
InService(r) == held[r] /\ (r \in Each(Modules) => status[r] = "ready")
Whole ==
    /\ state \in {"starting", "running"} =>
          \A i \in DOMAIN StartPlan :
              /\ StartPlan[i].target \in Resources \ Optional
              /\ i < startup.at \/ state = "running"
              => InService(StartPlan[i].target)
    /\ state = "starting" => \A r \in Resources : Arriving(r) => held[r]

(* An exit code of success was drawn from a clean report.                  *)
ExitedClean == exited = "success" => state = "stopped" /\ ReportOk

IInv ==
    /\ TypeOK
    /\ Phases
    /\ Clocked
    /\ JobsStartAtOnce
    /\ StartupJoined
    /\ HeldIsKnown
    /\ RetainedIsPast
    /\ ReleasesCounted
    /\ Whole
    /\ ExitedClean

-------------------------------------------------------------------------------
(* The initial states.                                                     *)
LEMMA InvInit == Init => IInv
<1> SUFFICES ASSUME Init PROVE IInv
  OBVIOUS
<1> USE DEF Init, NotStarted, NotStopping
<1>1. TypeOK
  <2>1. 0 \in 0 .. Len(StartPlan) /\ 0 \in 0 .. Len(StopPlan)
    BY PlanLengths
  <2>2. 0 \in 0 .. 2 /\ 1 \in 1 .. 2 /\ 0 \in 0 .. 3
    OBVIOUS
  <2> QED BY <2>1, <2>2 DEF TypeOK, StartupPhases, ShutdownPhases, DEADLINE, GRACE_DEADLINE, AfterGrace
<1>2. Phases
  BY DEF Phases
<1>3. JoinPlace > 0
  BY PlanLengths
<1>4. Clocked /\ JobsStartAtOnce /\ StartupJoined
  BY <1>3 DEF Clocked, BoundedShutdown, JobsStartAtOnce, StartupJoined, Quiet, AfterGrace
<1>5. \A r \in Resources : ~held[r] /\ releases[r] = 0
  OBVIOUS
<1>6. HeldIsKnown
  BY <1>5 DEF HeldIsKnown
<1>7. \A r \in Each(Databases) \cup Each(Modules) : r \in Resources /\ ~Retained(r)
  BY Distinct DEF Retained
<1>8. RetainedIsPast
  BY <1>7 DEF RetainedIsPast
<1>9. ReleasesCounted
  BY <1>5, <1>7, Distinct DEF ReleasesCounted
<1>10. Whole /\ ExitedClean
  BY DEF Whole, ExitedClean
<1> QED BY <1>1, <1>2, <1>4, <1>6, <1>8, <1>9, <1>10 DEF IInv

-------------------------------------------------------------------------------
(* The steps of the shutdown.                                              *)

(* A release is due exactly when its resource is retained.                 *)
LEMMA DueRelease ==
    ASSUME TypeOK, NEW i \in DOMAIN StopPlan, StopPlan[i].target \in Resources
    PROVE  Due(StopPlan[i]) <=>
              Retained(StopPlan[i].target) /\ HasRelease(StopPlan[i].target)
<1> DEFINE step == StopPlan[i]
<1>1. connected \subseteq Each(Databases)
  BY DEF TypeOK
<1>2. CASE step.target \in Each(Databases)
  <2>1. step.name = "databases.close"
    BY <1>2, StopTargets
  <2>2. Due(step) <=> step.target \in connected
    BY <2>1 DEF Due
  <2>3. Retained(step.target) <=> step.target \in connected
    BY <1>2, Distinct DEF Retained
  <2>4. HasRelease(step.target)
    BY <1>2, Distinct DEF HasRelease
  <2> QED BY <2>2, <2>3, <2>4
<1>3. CASE step.target \in Each(Modules)
  <2>1. step.name = "module.teardown"
    BY <1>3, StopTargets
  <2>2. Due(step) <=> status[step.target] = "ready" /\ step.target \in WithTeardown
    BY <2>1 DEF Due
  <2>3. Retained(step.target) <=> status[step.target] = "ready"
    BY <1>1, <1>3, Distinct DEF Retained
  <2>4. HasRelease(step.target) <=> step.target \in WithTeardown
    BY <1>3 DEF HasRelease
  <2> QED BY <2>2, <2>3, <2>4
<1>4. CASE step.target = "gateway"
  <2>1. step.name = "gateway.destroy"
    BY <1>4, StopTargets
  <2>2. Due(step) <=> loginCalled
    BY <2>1 DEF Due
  <2>3. Retained("gateway") <=> loginCalled
    BY <1>1, Distinct DEF Retained
  <2>4. HasRelease("gateway")
    BY Distinct DEF HasRelease
  <2> QED BY <1>4, <2>2, <2>3, <2>4
<1>5. CASE step.target = "scheduler"
  <2>1. step.name = "jobs.stop"
    BY <1>5, StopTargets
  <2>2. Due(step) <=> held["scheduler"]
    BY <2>1 DEF Due
  <2>3. Retained("scheduler") <=> held["scheduler"]
    BY <1>1, Distinct DEF Retained
  <2>4. HasRelease("scheduler")
    BY Distinct DEF HasRelease
  <2> QED BY <1>5, <2>2, <2>3, <2>4
<1> QED BY <1>2, <1>3, <1>4, <1>5, Distinct

(* What the shutdown goes on to is the first step that is due.             *)
LEMMA AdvanceInv ==
    ASSUME IInv, shutdown.phase \in {"none", "settled"}, Advance(shutdown.at + 1),
           state' = "stopping", exited = "no",
           UNCHANGED <<startup, status, connected, loginCalled, failed, abandoned, now, exited>>
    PROVE  IInv'
<1> DEFINE from == shutdown.at + 1
<1>1. PICK i \in from .. Len(StopPlan) :
          /\ IsNext(from, i)
          /\ BeginStopStep(i)
          /\ budget' = [budget EXCEPT !.cleanup = CleanupFrom(i)]
  BY DEF Advance
<1> DEFINE t == StopPlan[i].target
<1> HIDE DEF t
<1>2. TypeOK /\ Phases /\ Clocked
  BY DEF IInv
<1>3. shutdown.at \in Nat /\ i \in Nat /\ i \in DOMAIN StopPlan /\ i > shutdown.at
  <2>1. shutdown.at \in 0 .. Len(StopPlan)
    BY <1>2 DEF TypeOK
  <2>2. shutdown.at \in Nat
    BY <2>1, PlanLengths
  <2> QED BY <1>1, <2>2, PlanLengths
<1>4. StopPlan[i].name = "start.join" <=> i = JoinPlace
  BY <1>3, StopTargets
<1>5. /\ shutdown' = [at |-> i, phase |-> "waiting", deadline |-> shutdown'.deadline]
      /\ shutdown'.deadline = IF i = JoinPlace THEN GRACE_DEADLINE ELSE budget.deadline
  BY <1>1, <1>4 DEF BeginStopStep
<1>6. /\ shutdown'.at = i /\ shutdown'.phase = "waiting"
      /\ shutdown'.deadline \in 1 .. 2
      /\ i = JoinPlace => shutdown'.deadline = GRACE_DEADLINE
  <2>1. budget.deadline \in 1 .. 2
    BY <1>2 DEF TypeOK, DEADLINE, GRACE_DEADLINE
  <2>2. 2 \in 1 .. 2
    OBVIOUS
  <2> QED BY <1>5, <2>1, <2>2 DEF GRACE_DEADLINE
<1>7. /\ budget'.cleanup \in BOOLEAN /\ budget'.cleanup <=> budget.cleanup \/ i > 1
      /\ budget' \in [deadline : DEADLINE .. GRACE_DEADLINE, cleanup : BOOLEAN]
  <2>1. CleanupFrom(i) \in BOOLEAN /\ (CleanupFrom(i) <=> budget.cleanup \/ i > 1)
    BY <1>2 DEF CleanupFrom, TypeOK
  <2> QED BY <1>1, <1>2, <2>1 DEF TypeOK
<1>8. \A r \in Resources :
          /\ r # t => held'[r] = held[r] /\ releases'[r] = releases[r]
          /\ r = t => ~held'[r] /\ releases'[r] = releases[r] + 1
  BY <1>1, <1>2 DEF BeginStopStep, TypeOK, resourceVars, t
<1>9. held' \in [Resources -> BOOLEAN] /\ releases' \in [Resources -> Nat]
  <2>1. CASE t \in Resources
    <3>1. /\ held' = [held EXCEPT ![t] = FALSE]
          /\ releases' = [releases EXCEPT ![t] = @ + 1]
      BY <1>1, <2>1 DEF BeginStopStep, t
    <3>2. releases[t] + 1 \in Nat
      BY <1>2, <2>1 DEF TypeOK
    <3> QED BY <1>2, <2>1, <3>1, <3>2 DEF TypeOK
  <2>2. CASE t \notin Resources
    BY <1>1, <1>2, <2>2 DEF BeginStopStep, TypeOK, resourceVars, t
  <2> QED BY <2>1, <2>2
<1>10. Due(StopPlan[i]) /\ \A j \in from .. i - 1 : ~Due(StopPlan[j])
  BY <1>1 DEF IsNext
<1>11. \A r \in Resources : Ahead(r)' => Ahead(r)
  BY <1>3, <1>6, PlanLengths DEF Ahead
<1>12. \A r \in Resources : Retained(r) /\ HasRelease(r) /\ Ahead(r) /\ r # t => Ahead(r)'
  <2> SUFFICES ASSUME NEW r \in Resources, Retained(r), HasRelease(r), Ahead(r), r # t,
                      NEW b \in DOMAIN StopPlan, StopPlan[b].target = r
               PROVE  i < b
    BY <1>6 DEF Ahead
  <2>1. b \in Nat /\ shutdown.at < b
    BY PlanLengths DEF Ahead
  <2>2. Due(StopPlan[b])
    BY <1>2, DueRelease
  <2>3. b \notin from .. i - 1
    BY <1>10, <2>2
  <2>4. b # i
    BY DEF t
  <2> QED BY <1>3, <2>1, <2>3, <2>4
<1>13. t \in Resources => Retained(t) /\ HasRelease(t) /\ Ahead(t) /\ ~Ahead(t)'
  <2> SUFFICES ASSUME t \in Resources
               PROVE  Retained(t) /\ HasRelease(t) /\ Ahead(t) /\ ~Ahead(t)'
    OBVIOUS
  <2>1. Retained(t) /\ HasRelease(t)
    BY <1>2, <1>3, <1>10, DueRelease DEF t
  <2>2. \A b \in DOMAIN StopPlan : StopPlan[b].target = t => b = i
    BY <1>3, StopOnce DEF t
  <2>3. Ahead(t)
    BY <1>3, <2>2 DEF Ahead
  <2>4. ~Ahead(t)'
    BY <1>3, <1>6 DEF Ahead, t
  <2> QED BY <2>1, <2>3, <2>4
<1>14. \A r \in Resources :
          /\ Retained(r)' => Retained(r)
          /\ r # t => (Retained(r)' <=> Retained(r))
  <2>1. "scheduler" \in Resources
    BY Distinct
  <2> QED BY <1>8, <2>1 DEF Retained
<1>15. \A r \in Resources : Past(r)' <=> Past(r)
  BY DEF Past, Behind
<1>16. TypeOK'
  <2>1. i \in 0 .. Len(StopPlan) /\ shutdown'.deadline \in 0 .. 2
    BY <1>1, <1>3, <1>6
  <2>2. shutdown' \in [at : 0 .. Len(StopPlan), phase : ShutdownPhases,
                       deadline : 0 .. GRACE_DEADLINE]
    BY <1>5, <2>1 DEF ShutdownPhases, GRACE_DEADLINE
  <2> QED BY <1>2, <1>7, <1>9, <2>2 DEF TypeOK
<1>17. shutdown.at = 0 \/ Passed(1)
  BY <1>2, <1>3 DEF Phases, Passed
<1>18. shutdown.at = 0 /\ i > 1 => startup.phase = "none"
  <2>1. StopPlan[1].name = "start.settle"
    BY StopNamed
  <2> QED BY <1>3, <1>10, <2>1 DEF Due
<1>19. Phases'
  <2>1. i > 1 \/ shutdown.at = 0
    BY <1>3
  <2> QED BY <1>2, <1>3, <1>6, <1>7, <2>1 DEF Phases
<1>20. Clocked'
  BY <1>2, <1>3, <1>6 DEF Clocked, BoundedShutdown, DEADLINE, Phases
<1>21. JobsStartAtOnce'
  <2> SUFFICES ASSUME startup.phase \in {"acting", "settled"}, StartStep.target = "scheduler"
               PROVE  now = 0 /\ ~Passed(1)'
    BY DEF JobsStartAtOnce, StartStep
  <2>1. now = 0 /\ ~Passed(1)
    BY DEF IInv, JobsStartAtOnce
  <2>2. i = 1
    BY <1>3, <1>17, <1>18, <2>1
  <2> QED BY <1>6, <2>1, <2>2 DEF Passed
<1>22. Passed(1)' => Quiet \/ "start.settle" \in abandoned
  <2> SUFFICES ASSUME Passed(1)' PROVE Quiet \/ "start.settle" \in abandoned
    OBVIOUS
  <2>1. i > 1
    BY <1>3, <1>6 DEF Passed
  <2>2. StartupJoined
    BY DEF IInv
  <2> QED BY <1>17, <1>18, <2>1, <2>2 DEF StartupJoined, Quiet
<1>23. Passed(JoinPlace)' => Quiet \/ now >= GRACE_DEADLINE
  <2> SUFFICES ASSUME Passed(JoinPlace)' PROVE Quiet \/ now >= GRACE_DEADLINE
    OBVIOUS
  <2>1. i > JoinPlace
    BY <1>3, <1>6, PlanLengths DEF Passed
  <2>2. StartupJoined
    BY DEF IInv
  <2>3. CASE shutdown.at >= JoinPlace
    <3>1. Passed(JoinPlace)
      BY <1>2, <1>3, <2>3, PlanLengths DEF Phases, Passed
    <3> QED BY <2>2, <3>1 DEF StartupJoined
  <2>4. CASE shutdown.at < JoinPlace
    <3>1. JoinPlace \in from .. i - 1
      BY <1>3, <2>1, <2>4, PlanLengths
    <3>2. StopPlan[JoinPlace].name = "start.join"
      BY StopNamed
    <3>3. "start.settle" \notin abandoned
      BY <1>10, <3>1, <3>2 DEF Due
    <3>4. Passed(1)'
      BY <1>3, <1>6, <2>1, PlanLengths DEF Passed
    <3> QED BY <1>22, <3>3, <3>4
  <2> QED BY <1>3, <2>3, <2>4, PlanLengths
<1>24. StartupJoined'
  BY <1>22, <1>23 DEF StartupJoined, Quiet
<1>25. HeldIsKnown'
  <2> SUFFICES ASSUME NEW r \in Resources, held'[r], HasRelease(r)
               PROVE  (Retained(r)' /\ Ahead(r)') \/ Arriving(r)'
    BY DEF HeldIsKnown, HasRelease
  <2>1. r # t /\ held[r]
    BY <1>8
  <2>2. (Retained(r) /\ Ahead(r)) \/ Arriving(r)
    BY <2>1 DEF IInv, HeldIsKnown
  <2>3. Arriving(r) => Arriving(r)'
    BY DEF Arriving, StartStep
  <2> QED BY <1>12, <1>14, <2>1, <2>2, <2>3
<1>26. RetainedIsPast'
  <2>1. RetainedIsPast
    BY DEF IInv
  <2>2. \A r \in Each(Databases) \cup Each(Modules) : Retained(r)' => Past(r)'
    BY <1>14, <1>15, <2>1, Distinct DEF RetainedIsPast
  <2> QED BY <2>1, <2>2 DEF RetainedIsPast, StartStep
<1>27. ReleasesCounted'
  <2>1. ReleasesCounted
    BY DEF IInv
  <2>2. \A r \in Resources : releases[r] \in Nat
    BY <1>2 DEF TypeOK
  <2>3. \A r \in Each(Databases) \cup Each(Modules) :
            /\ releases'[r] <= 1
            /\ releases'[r] = 1 => Past(r)' /\ ~(Retained(r)' /\ Ahead(r)')
    <3> SUFFICES ASSUME NEW r \in Each(Databases) \cup Each(Modules)
                 PROVE  /\ releases'[r] <= 1
                        /\ releases'[r] = 1 => Past(r)' /\ ~(Retained(r)' /\ Ahead(r)')
      OBVIOUS
    <3>1. r \in Resources
      BY Distinct
    <3>2. /\ releases[r] <= 1
          /\ releases[r] = 1 => Past(r) /\ ~(Retained(r) /\ Ahead(r))
      BY <2>1 DEF ReleasesCounted
    <3>3. CASE r = t
      <4>1. Past(r)
        BY <1>13, <3>1, <3>3 DEF IInv, RetainedIsPast
      <4>2. releases[r] = 0
        BY <1>13, <2>2, <3>1, <3>2, <3>3
      <4> QED BY <1>8, <1>13, <1>15, <3>1, <3>3, <4>1, <4>2
    <3>4. CASE r # t
      BY <1>8, <1>11, <1>14, <1>15, <3>1, <3>2, <3>4
    <3> QED BY <3>3, <3>4
  <2>4. "gateway" \in Resources /\ "scheduler" \in Resources
    BY Distinct
  <2>5. /\ releases'["gateway"] <= 2
        /\ Ahead("gateway")' \/ ~Past("gateway")' => releases'["gateway"] <= 1
        /\ Ahead("gateway")' /\ ~Past("gateway")' => releases'["gateway"] = 0
    <3>1. /\ releases["gateway"] <= 2
          /\ Ahead("gateway") \/ ~Past("gateway") => releases["gateway"] <= 1
          /\ Ahead("gateway") /\ ~Past("gateway") => releases["gateway"] = 0
      BY <2>1 DEF ReleasesCounted
    <3>2. CASE t = "gateway"
      <4>1. Ahead("gateway") /\ ~Ahead("gateway")'
        BY <1>13, <2>4, <3>2
      <4>2. releases'["gateway"] = releases["gateway"] + 1
        BY <1>8, <2>4, <3>2
      <4> QED BY <1>15, <2>2, <2>4, <3>1, <4>1, <4>2
    <3>3. CASE t # "gateway"
      <4>1. releases'["gateway"] = releases["gateway"]
        BY <1>8, <2>4, <3>3
      <4> QED BY <1>11, <1>15, <2>4, <3>1, <4>1
    <3> QED BY <3>2, <3>3
  <2>6. releases'["scheduler"] <= 1 /\ (Ahead("scheduler")' => releases'["scheduler"] = 0)
    <3>1. releases["scheduler"] <= 1 /\ (Ahead("scheduler") => releases["scheduler"] = 0)
      BY <2>1 DEF ReleasesCounted
    <3>2. CASE t = "scheduler"
      BY <1>8, <1>13, <2>4, <3>1, <3>2
    <3>3. CASE t # "scheduler"
      BY <1>8, <1>11, <2>4, <3>1, <3>3
    <3> QED BY <3>2, <3>3
  <2> QED BY <2>3, <2>5, <2>6 DEF ReleasesCounted
<1>28. Whole' /\ ExitedClean'
  BY DEF Whole, ExitedClean
<1> QED BY <1>16, <1>19, <1>20, <1>21, <1>24, <1>25, <1>26, <1>27, <1>28 DEF IInv

(* The pending step is over, or left behind.                               *)
LEMMA StopSettleInv ==
    ASSUME IInv, shutdown.phase = "waiting", exited = "no",
           shutdown' = [shutdown EXCEPT !.phase = "settled"],
           budget' \in [deadline : DEADLINE .. GRACE_DEADLINE, cleanup : {budget.cleanup}],
           abandoned \subseteq abandoned',
           shutdown.at = 1 => Quiet \/ ("start.settle" \in abandoned' /\ now > 0),
           shutdown.at = JoinPlace => Quiet \/ now >= GRACE_DEADLINE,
           UNCHANGED <<state, startVars, now, resourceVars, exited>>
    PROVE  IInv'
<1> USE DEF startVars, resourceVars
<1>1. TypeOK /\ Phases /\ Clocked /\ StartupJoined
  BY DEF IInv
<1>2. /\ shutdown'.at = shutdown.at /\ shutdown'.phase = "settled"
      /\ shutdown' \in [at : 0 .. Len(StopPlan), phase : ShutdownPhases,
                        deadline : 0 .. GRACE_DEADLINE]
  BY <1>1 DEF TypeOK, ShutdownPhases
<1>3. budget'.cleanup = budget.cleanup
  OBVIOUS
<1>4. shutdown.at \in Nat /\ shutdown.at # 0
  BY <1>1, PlanLengths DEF TypeOK, Phases
<1>5. TypeOK'
  <2>1. budget' \in [deadline : DEADLINE .. GRACE_DEADLINE, cleanup : BOOLEAN]
    BY <1>1 DEF TypeOK
  <2> QED BY <1>1, <1>2, <2>1 DEF TypeOK
<1>6. Phases'
  BY <1>1, <1>2, <1>3 DEF Phases
<1>7. Clocked'
  BY <1>1, <1>2 DEF Clocked, BoundedShutdown
<1>8. \A i \in {1, JoinPlace} : Passed(i)' => Passed(i) \/ shutdown.at = i
  BY <1>2 DEF Passed
<1>9. JobsStartAtOnce'
  <2> SUFFICES ASSUME startup.phase \in {"acting", "settled"}, StartStep.target = "scheduler"
               PROVE  now = 0 /\ ~Passed(1)'
    BY DEF JobsStartAtOnce, StartStep
  <2>1. now = 0 /\ ~Passed(1)
    BY DEF IInv, JobsStartAtOnce
  <2> QED BY <1>8, <2>1 DEF Quiet
<1>10. StartupJoined'
  BY <1>1, <1>8 DEF StartupJoined, Quiet
<1>11. \A r \in Resources : /\ Ahead(r)' <=> Ahead(r)
                            /\ Past(r)' <=> Past(r)
                            /\ Retained(r)' <=> Retained(r)
                            /\ Arriving(r)' <=> Arriving(r)
  BY <1>2 DEF Ahead, Past, Behind, Retained, Arriving, StartStep
<1>12. HeldIsKnown'
  BY <1>11 DEF IInv, HeldIsKnown, HasRelease
<1>13. RetainedIsPast'
  BY <1>11, Distinct DEF IInv, RetainedIsPast, StartStep
<1>14. ReleasesCounted'
  BY <1>11, Distinct DEF IInv, ReleasesCounted
<1>15. Whole' /\ ExitedClean'
  BY <1>1 DEF Whole, ExitedClean, Phases
<1> QED BY <1>5, <1>6, <1>7, <1>9, <1>10, <1>12, <1>13, <1>14, <1>15 DEF IInv

(* A join of startup is over.                                              *)
LEMMA JoinedInv == ASSUME IInv, Joined, exited = "no" PROVE IInv'
<1>1. Quiet /\ shutdown.phase = "waiting"
  BY DEF Joined, Quiet, StartupSettled, JoinsStartup
<1>2. budget' \in [deadline : DEADLINE .. GRACE_DEADLINE, cleanup : {budget.cleanup}]
  BY DEF Joined, IInv, TypeOK
<1>3. /\ shutdown' = [shutdown EXCEPT !.phase = "settled"] /\ abandoned \subseteq abandoned'
      /\ UNCHANGED <<state, startVars, now, resourceVars, exited>>
  BY DEF Joined, hostVars
<1> QED BY <1>1, <1>2, <1>3, StopSettleInv

(* A release, the flush or the unsubscription is over.                     *)
LEMMA StopStepSettlesInv ==
    ASSUME IInv, NEW ok \in BOOLEAN, StopStepSettles(ok), exited = "no" PROVE IInv'
<1>1. shutdown.phase = "waiting" /\ ~JoinsStartup
  BY DEF StopStepSettles
<1>2. budget' \in [deadline : DEADLINE .. GRACE_DEADLINE, cleanup : {budget.cleanup}]
  BY DEF StopStepSettles, IInv, TypeOK
<1>3. /\ shutdown' = [shutdown EXCEPT !.phase = "settled"] /\ abandoned \subseteq abandoned'
      /\ UNCHANGED <<state, startVars, now, resourceVars, exited>>
  BY DEF StopStepSettles, hostVars
<1>4. StopPlan[1].name = "start.settle" /\ StopPlan[JoinPlace].name = "start.join"
  BY StopNamed
<1>5. shutdown.at # 1 /\ shutdown.at # JoinPlace
  BY <1>1, <1>4 DEF JoinsStartup, StopStep
<1> QED BY <1>1, <1>2, <1>3, <1>5, StopSettleInv

(* A step is left behind: at the first join reported, at the second past   *)
(* the grace.                                                              *)
LEMMA AbandonInv == ASSUME IInv, Abandon, exited = "no" PROVE IInv'
<1>1. TypeOK /\ Clocked
  BY DEF IInv
<1>2. shutdown.phase = "waiting" /\ now >= shutdown.deadline
  BY DEF Abandon
<1>3. /\ shutdown' = [shutdown EXCEPT !.phase = "settled"]
      /\ UNCHANGED <<state, startVars, now, resourceVars, exited>>
  BY DEF Abandon, hostVars
<1>4. /\ abandoned \subseteq abandoned'
      /\ budget' \in [deadline : DEADLINE .. GRACE_DEADLINE, cleanup : {budget.cleanup}]
  <2>1. GRACE_DEADLINE \in DEADLINE .. GRACE_DEADLINE
    BY DEF DEADLINE, GRACE_DEADLINE
  <2> QED BY <1>1, <2>1 DEF Abandon, Extended, TypeOK
<1>5. now \in Nat /\ shutdown.deadline \in Nat
  BY <1>1 DEF TypeOK, AfterGrace, GRACE_DEADLINE
<1>6. shutdown.deadline >= DEADLINE
  BY <1>1, <1>2 DEF Clocked
<1>7. now > 0
  BY <1>2, <1>5, <1>6 DEF DEADLINE
<1>8. shutdown.at = 1 => "start.settle" \in abandoned' /\ now > 0
  <2>1. StopPlan[1].name = "start.settle"
    BY StopNamed
  <2> QED BY <1>7, <2>1 DEF Abandon, StopStep
<1>9. shutdown.at = JoinPlace => now >= GRACE_DEADLINE
  BY <1>1, <1>2 DEF Clocked
<1> QED BY <1>2, <1>3, <1>4, <1>8, <1>9, StopSettleInv

(* The last step is always due: a shutdown that ends has been through all. *)
LEMMA StoppedInv == ASSUME IInv, Stopped, exited = "no" PROVE IInv'
<1> USE DEF startVars, resourceVars
<1>1. TypeOK /\ Phases /\ Clocked /\ StartupJoined
  BY DEF IInv
<1>2. /\ shutdown.phase = "settled" /\ state' = "stopped"
      /\ shutdown' = [shutdown EXCEPT !.phase = "done"]
      /\ UNCHANGED <<startVars, budget, failed, abandoned, now, resourceVars, exited>>
  BY DEF Stopped
<1>3. /\ shutdown'.at = shutdown.at /\ shutdown'.phase = "done"
      /\ shutdown' \in [at : 0 .. Len(StopPlan), phase : ShutdownPhases,
                        deadline : 0 .. GRACE_DEADLINE]
  BY <1>1, <1>2 DEF TypeOK, ShutdownPhases
<1>4. shutdown.at = Len(StopPlan)
  <2>1. StopPlan[Len(StopPlan)].name = "settings.unsubscribe"
    BY StopNamed
  <2>2. Due(StopPlan[Len(StopPlan)])
    BY <2>1 DEF Due
  <2>3. shutdown.at \in 0 .. Len(StopPlan) /\ Len(StopPlan) \in Nat
    BY <1>1, PlanLengths DEF TypeOK
  <2>4. Len(StopPlan) \notin shutdown.at + 1 .. Len(StopPlan)
    BY <2>2 DEF Stopped
  <2> QED BY <2>3, <2>4
<1>5. TypeOK'
  BY <1>1, <1>2, <1>3 DEF TypeOK
<1>6. Phases'
  BY <1>1, <1>2, <1>3, <1>4 DEF Phases
<1>7. Clocked'
  BY <1>1, <1>2, <1>3 DEF Clocked, BoundedShutdown
<1>8. \A i \in {1, JoinPlace} : Passed(i)' <=> Passed(i)
  BY <1>2, <1>3 DEF Passed
<1>9. JobsStartAtOnce' /\ StartupJoined'
  BY <1>2, <1>8 DEF IInv, JobsStartAtOnce, StartupJoined, Quiet, StartStep
<1>10. \A r \in Resources : /\ Ahead(r)' <=> Ahead(r)
                            /\ Past(r)' <=> Past(r)
                            /\ Retained(r)' <=> Retained(r)
                            /\ Arriving(r)' <=> Arriving(r)
  BY <1>2, <1>3 DEF Ahead, Past, Behind, Retained, Arriving, StartStep
<1>11. HeldIsKnown'
  BY <1>2, <1>10 DEF IInv, HeldIsKnown, HasRelease
<1>12. RetainedIsPast'
  BY <1>2, <1>10, Distinct DEF IInv, RetainedIsPast, StartStep
<1>13. ReleasesCounted'
  BY <1>2, <1>10, Distinct DEF IInv, ReleasesCounted
<1>14. Whole' /\ ExitedClean'
  BY <1>2 DEF Whole, ExitedClean
<1> QED BY <1>5, <1>6, <1>7, <1>9, <1>11, <1>12, <1>13, <1>14 DEF IInv

(* Time passes only while everything waits.                                *)
LEMMA TickInv == ASSUME IInv, Tick, exited = "no" PROVE IInv'
<1> USE DEF startVars, stopVars, resourceVars, hostVars
<1>1. TypeOK /\ Phases /\ Clocked
  BY DEF IInv
<1>2. /\ now < AfterGrace /\ now' = now + 1 /\ StartupWaits /\ ShutdownWaits
      /\ UNCHANGED <<state, startVars, stopVars, resourceVars, hostVars>>
  BY DEF Tick
<1>3. now \in Nat /\ now' \in 0 .. AfterGrace
  BY <1>1, <1>2 DEF TypeOK, AfterGrace
<1>4. /\ shutdown.deadline \in 0 .. GRACE_DEADLINE /\ shutdown.at \in Nat
      /\ shutdown.phase \in ShutdownPhases
  BY <1>1, PlanLengths DEF TypeOK
<1>5. /\ shutdown.phase \in {"waiting", "done"}
      /\ shutdown.phase = "waiting" => shutdown.deadline > now
  BY <1>2 DEF ShutdownWaits
<1>6. TypeOK'
  BY <1>1, <1>2, <1>3 DEF TypeOK
<1>7. Phases'
  BY <1>1, <1>2 DEF Phases
<1>8. shutdown.at > 0
  BY <1>1, <1>4, <1>5 DEF Phases
<1>9. BoundedShutdown'
  <2>1. now = 2 => shutdown.phase = "done"
    BY <1>3, <1>4, <1>5 DEF GRACE_DEADLINE
  <2> QED BY <1>1, <1>2, <1>3, <2>1 DEF BoundedShutdown, AfterGrace, Phases
<1>10. Clocked'
  BY <1>1, <1>2, <1>8, <1>9 DEF Clocked
<1>11. JobsStartAtOnce'
  <2>1. ~(startup.phase \in {"acting", "settled"} /\ StartStep.target = "scheduler")
    <3> SUFFICES ASSUME startup.phase \in {"acting", "settled"},
                        StartStep.target = "scheduler"
                 PROVE  FALSE
      OBVIOUS
    <3>1. startup.phase = "acting" /\ StartStep.name \notin Synchronous
      BY <1>2 DEF StartupWaits
    <3>2. startup.at \in DOMAIN StartPlan
      BY <1>1, <3>1, PlanLengths DEF TypeOK, Phases
    <3>3. StartStep.name = "jobs.start"
      BY <3>2, StartTargets DEF StartStep
    <3> QED BY <3>1, <3>3 DEF Synchronous
  <2> QED BY <1>2, <2>1 DEF JobsStartAtOnce, StartStep
<1>12. StartupJoined'
  BY <1>2, <1>3 DEF IInv, StartupJoined, Passed, Quiet, GRACE_DEADLINE
<1>13. \A r \in Resources : /\ Ahead(r)' <=> Ahead(r)
                            /\ Past(r)' <=> Past(r)
                            /\ Retained(r)' <=> Retained(r)
                            /\ Arriving(r)' <=> Arriving(r)
  BY <1>2 DEF Ahead, Past, Behind, Retained, Arriving, StartStep
<1>14. HeldIsKnown'
  BY <1>2, <1>13 DEF IInv, HeldIsKnown, HasRelease
<1>15. RetainedIsPast'
  BY <1>2, <1>13, Distinct DEF IInv, RetainedIsPast, StartStep
<1>16. ReleasesCounted'
  BY <1>2, <1>13, Distinct DEF IInv, ReleasesCounted
<1>17. Whole'
  BY <1>1, <1>2, <1>5 DEF Whole, Phases
<1>18. ExitedClean'
  BY <1>2 DEF ExitedClean
<1> QED BY <1>6, <1>7, <1>10, <1>11, <1>12, <1>14, <1>15, <1>16, <1>17, <1>18 DEF IInv

-------------------------------------------------------------------------------
(* The steps of startup.                                                   *)

(* While the bot starts nobody has asked for a stop.                       *)
LEMMA NotAsked ==
    ASSUME TypeOK, Phases, Clocked, state \in {"created", "starting", "running"}
    PROVE  /\ shutdown.phase = "none" /\ shutdown.at = 0 /\ now = 0 /\ ~budget.cleanup
           /\ ~Passed(1) /\ ~Passed(JoinPlace)
           /\ \A r \in Resources : Ahead(r)
<1>1. shutdown.phase = "none" /\ shutdown.at = 0 /\ ~budget.cleanup
  BY DEF Phases, TypeOK
<1>2. now = 0
  BY <1>1 DEF TypeOK, Clocked, AfterGrace
<1>3. ~Passed(1) /\ ~Passed(JoinPlace)
  BY <1>1, PlanLengths DEF Passed
<1>4. \A r \in Resources : Ahead(r)
  BY <1>1, PlanLengths DEF Ahead
<1> QED BY <1>1, <1>2, <1>3, <1>4

(* Before cleanup the shutdown has come to no release.                     *)
LEMMA NoReleaseBeforeCleanup ==
    ASSUME TypeOK, Phases, ~Passed(1) \/ ~budget.cleanup
    PROVE  \A r \in Resources : Ahead(r)
<1>1. shutdown.at \in Nat
  BY PlanLengths DEF TypeOK
<1>2. shutdown.at <= 1
  BY <1>1 DEF Passed, Phases
<1>3. \A i \in DOMAIN StopPlan : i \in Nat
  BY PlanLengths
<1>4. \A i \in DOMAIN StopPlan : StopPlan[i].target \in Resources => i > 1
  BY StopTargets
<1> QED BY <1>1, <1>2, <1>3, <1>4 DEF Ahead

(* start() is called: startup begins its first step.                       *)
LEMMA StartInv == ASSUME IInv, Start, exited = "no" PROVE IInv'
<1> USE DEF stopVars
<1>1. TypeOK /\ Phases /\ Clocked
  BY DEF IInv
<1>2. /\ state = "created" /\ state' = "starting"
      /\ startup' = [at |-> 1, phase |-> "acting", ok |-> TRUE, deadline |-> 0]
      /\ loginCalled' = (loginCalled \/ StartPlan[1].name = "gateway.login")
      /\ held' = [held EXCEPT !["scheduler"] = @ \/ StartPlan[1].name = "jobs.start"]
      /\ UNCHANGED <<status, connected, shutdown, budget, failed, abandoned, now,
                     releases, exited>>
  BY DEF Start, BeginStep
<1>3. /\ shutdown.phase = "none" /\ shutdown.at = 0 /\ now = 0 /\ ~budget.cleanup
      /\ ~Passed(1) /\ ~Passed(JoinPlace)
      /\ \A r \in Resources : Ahead(r)
  BY <1>1, <1>2, NotAsked
<1>4. startup.at = 0 /\ startup.phase = "none"
  BY <1>1, <1>2 DEF Phases
<1>5. 1 \in DOMAIN StartPlan /\ 1 \in 0 .. Len(StartPlan) /\ 0 \in 0 .. 2
  BY PlanLengths
<1>6. TypeOK'
  <2>1. startup' \in [at : 0 .. Len(StartPlan), phase : StartupPhases, ok : BOOLEAN,
                      deadline : 0 .. GRACE_DEADLINE]
    BY <1>2, <1>5 DEF StartupPhases, GRACE_DEADLINE
  <2>2. loginCalled' \in BOOLEAN
    BY <1>1, <1>2 DEF TypeOK
  <2>3. held' \in [Resources -> BOOLEAN]
    BY <1>1, <1>2 DEF TypeOK
  <2> QED BY <1>1, <1>2, <2>1, <2>2, <2>3 DEF TypeOK
<1>7. Phases'
  BY <1>1, <1>2, <1>3, <1>5 DEF Phases
<1>8. Clocked'
  BY <1>1, <1>2, <1>3 DEF Clocked, BoundedShutdown, AfterGrace
<1>9. JobsStartAtOnce' /\ StartupJoined'
  BY <1>2, <1>3 DEF JobsStartAtOnce, StartupJoined, Passed
<1>10. \A r \in Resources : Ahead(r)'
  BY <1>2, <1>3 DEF Ahead
<1>11. \A r \in Resources :
          /\ r # "scheduler" => held'[r] = held[r]
          /\ Retained(r) => Retained(r)'
          /\ ~Arriving(r)
  BY <1>1, <1>2, <1>4, Distinct DEF TypeOK, Retained, Arriving
<1>12. held'["scheduler"] => Retained("scheduler")'
  BY DEF Retained
<1>13. HeldIsKnown'
  BY <1>10, <1>11, <1>12 DEF IInv, HeldIsKnown, HasRelease
<1>14. \A r \in Each(Databases) \cup Each(Modules) : Retained(r)' => Retained(r)
  BY <1>2, Distinct DEF Retained
<1>15. \A r \in Resources : ~Past(r)
  <2> SUFFICES ASSUME NEW r \in Resources PROVE ~Past(r)
    OBVIOUS
  <2>1. PICK i \in DOMAIN StartPlan : StartPlan[i].target = r
    BY StartAll
  <2>2. ~Behind(i)
    BY <1>4, <2>1, PlanLengths DEF Behind
  <2> QED BY <2>1, <2>2 DEF Past
<1>16. RetainedIsPast'
  <2>1. \A r \in Each(Databases) \cup Each(Modules) : ~Retained(r)'
    BY <1>14, <1>15, Distinct DEF IInv, RetainedIsPast
  <2>2. StartPlan[1].target = "gateway" => loginCalled'
    BY <1>2, <1>5, StartTargets
  <2> QED BY <1>2, <2>1, <2>2 DEF RetainedIsPast, StartStep
<1>17. ReleasesCounted'
  <2>1. ReleasesCounted
    BY DEF IInv
  <2>2. \A r \in Each(Databases) \cup Each(Modules) : releases[r] # 1 /\ releases[r] <= 1
    BY <1>15, <2>1, Distinct DEF ReleasesCounted
  <2>3. releases["gateway"] = 0 /\ releases["scheduler"] = 0
    BY <1>3, <1>15, <2>1, Distinct DEF ReleasesCounted
  <2> QED BY <1>2, <2>2, <2>3 DEF ReleasesCounted
<1>18. Whole'
  <2>1. \A i \in DOMAIN StartPlan : ~(i < 1)
    BY PlanLengths
  <2> QED BY <1>2, <2>1 DEF Whole, Arriving
<1>19. ExitedClean'
  BY <1>2 DEF ExitedClean
<1> QED BY <1>6, <1>7, <1>8, <1>9, <1>13, <1>16, <1>17, <1>18, <1>19 DEF IInv

(* The pending step is over: what it acquired is held, and arrives.        *)
LEMMA SettleInv ==
    ASSUME IInv, NEW ok \in BOOLEAN, startup.phase = "acting", exited = "no",
           startup' = [startup EXCEPT !.phase = "settled", !.ok = ok],
           held' = IF ok /\ StartStep.target \in Resources
                   THEN [held EXCEPT ![StartStep.target] = TRUE] ELSE held,
           UNCHANGED <<state, status, connected, loginCalled, stopVars, now, releases, exited>>
    PROVE  IInv'
<1> USE DEF stopVars
<1>1. TypeOK /\ Phases /\ Clocked
  BY DEF IInv
<1>2. /\ startup'.at = startup.at /\ startup'.phase = "settled" /\ startup'.ok = ok
      /\ startup' \in [at : 0 .. Len(StartPlan), phase : StartupPhases, ok : BOOLEAN,
                       deadline : 0 .. GRACE_DEADLINE]
  BY <1>1 DEF TypeOK, StartupPhases
<1>3. startup.at \in DOMAIN StartPlan
  BY <1>1, PlanLengths DEF TypeOK, Phases
<1>4. TypeOK'
  <2>1. held' \in [Resources -> BOOLEAN]
    BY <1>1 DEF TypeOK
  <2> QED BY <1>1, <1>2, <2>1 DEF TypeOK
<1>5. Phases'
  BY <1>1, <1>2 DEF Phases
<1>6. Clocked'
  BY <1>1 DEF Clocked, BoundedShutdown
<1>7. JobsStartAtOnce' /\ StartupJoined'
  BY <1>2 DEF IInv, JobsStartAtOnce, StartupJoined, Passed, Quiet, StartStep
<1>8. \A r \in Resources :
          /\ held[r] => held'[r]
          /\ held'[r] /\ ~held[r] => ok /\ StartStep.target = r
  BY <1>1 DEF TypeOK
<1>9. "scheduler" \in Resources
  BY Distinct
<1>10. \A r \in Resources : /\ Ahead(r)' <=> Ahead(r)
                            /\ Past(r)' <=> Past(r)
                            /\ Retained(r) => Retained(r)'
                            /\ ~Arriving(r)
  BY <1>2, <1>8, <1>9 DEF Ahead, Past, Behind, Retained, Arriving, StartStep
<1>11. \A r \in Each(Databases) \cup Each(Modules) : Retained(r)' <=> Retained(r)
  BY Distinct DEF Retained
<1>12. HeldIsKnown'
  <2> SUFFICES ASSUME NEW r \in Resources, held'[r], HasRelease(r)
               PROVE  (Retained(r)' /\ Ahead(r)') \/ Arriving(r)'
    BY DEF HeldIsKnown, HasRelease
  <2>1. CASE held[r]
    BY <1>10, <2>1 DEF IInv, HeldIsKnown
  <2>2. CASE ~held[r]
    BY <1>2, <1>8, <2>2 DEF Arriving, StartStep
  <2> QED BY <2>1, <2>2
<1>13. RetainedIsPast'
  BY <1>2, <1>10, <1>11, Distinct DEF IInv, RetainedIsPast, StartStep
<1>14. ReleasesCounted'
  BY <1>10, <1>11, Distinct DEF IInv, ReleasesCounted
<1>15. Whole'
  <2>1. Whole
    BY DEF IInv
  <2>2. \A r \in Resources : InService(r) => InService(r)'
    BY <1>8 DEF InService
  <2>3. \A r \in Resources : Arriving(r)' => held'[r]
    BY <1>1, <1>2 DEF Arriving, StartStep, TypeOK
  <2>4. state \in {"starting", "running"} =>
           \A i \in DOMAIN StartPlan :
               /\ StartPlan[i].target \in Resources \ Optional
               /\ i < startup.at \/ state = "running"
               => InService(StartPlan[i].target)'
    BY <2>1, <2>2 DEF Whole
  <2> QED BY <1>2, <2>3, <2>4 DEF Whole
<1>16. ExitedClean'
  BY DEF ExitedClean
<1> QED BY <1>4, <1>5, <1>6, <1>7, <1>12, <1>13, <1>14, <1>15, <1>16 DEF IInv

(* The adapter answers the pending step.                                   *)
LEMMA StepSettlesInv ==
    ASSUME IInv, NEW ok \in BOOLEAN, StepSettles(ok), exited = "no" PROVE IInv'
BY SettleInv DEF StepSettles, hostVars

(* The wait for clientReady is called off.                                 *)
LEMMA ReadyCancelledInv == ASSUME IInv, ReadyCancelled, exited = "no" PROVE IInv'
<1>1. TypeOK /\ Phases /\ startup.phase = "acting" /\ StartStep.name = "gateway.ready"
  BY DEF IInv, ReadyCancelled
<1>2. startup.at \in DOMAIN StartPlan
  BY <1>1, PlanLengths DEF TypeOK, Phases
<1>3. StartStep.target \notin Resources
  BY <1>1, <1>2, StartTargets, Distinct DEF StartStep
<1>4. startup.ok \in BOOLEAN
  BY <1>1 DEF TypeOK
<1>5. startup' = [startup EXCEPT !.phase = "settled", !.ok = startup.ok]
  BY <1>1 DEF ReadyCancelled, TypeOK
<1>6. UNCHANGED <<state, status, connected, loginCalled, stopVars, now, held, releases, exited>>
  BY DEF ReadyCancelled, hostVars, resourceVars
<1> QED BY <1>1, <1>3, <1>4, <1>5, <1>6, SettleInv

(* Startup is over, with nothing arriving.                                 *)
LEMMA EndInv ==
    ASSUME IInv, NEW result \in {"done", "failed"}, EndStartup(result), exited = "no",
           \/ startup.phase = "releasing" /\ result = "done"
           \/ startup.phase = "settled" /\ ~startup.ok /\ result = "failed",
           budget' \in [deadline : DEADLINE .. GRACE_DEADLINE, cleanup : {budget.cleanup}],
           abandoned \subseteq abandoned',
           UNCHANGED <<state, status, connected, loginCalled, shutdown, now, resourceVars, exited>>
    PROVE  IInv'
<1> USE DEF resourceVars
<1>1. TypeOK /\ Phases /\ Clocked
  BY DEF IInv
<1>2. /\ startup'.at = startup.at /\ startup'.phase = result
      /\ startup' \in [at : 0 .. Len(StartPlan), phase : StartupPhases, ok : BOOLEAN,
                       deadline : 0 .. GRACE_DEADLINE]
  BY <1>1 DEF TypeOK, StartupPhases, EndStartup
<1>3. TypeOK'
  <2>1. budget' \in [deadline : DEADLINE .. GRACE_DEADLINE, cleanup : BOOLEAN]
    BY <1>1 DEF TypeOK
  <2> QED BY <1>1, <1>2, <2>1 DEF TypeOK
<1>4. Phases'
  <2>1. budget'.cleanup = budget.cleanup
    OBVIOUS
  <2> QED BY <1>1, <1>2, <2>1 DEF Phases
<1>5. Clocked'
  BY <1>1 DEF Clocked, BoundedShutdown
<1>6. JobsStartAtOnce' /\ StartupJoined'
  BY <1>2 DEF JobsStartAtOnce, StartupJoined, Quiet
<1>7. \A r \in Resources : /\ Ahead(r)' <=> Ahead(r)
                           /\ Retained(r)' <=> Retained(r)
                           /\ Past(r) => Past(r)'
                           /\ ~Arriving(r)
  BY <1>2 DEF Ahead, Past, Behind, Retained, Arriving, StartStep
<1>8. HeldIsKnown'
  BY <1>7 DEF IInv, HeldIsKnown, HasRelease
<1>9. RetainedIsPast'
  BY <1>2, <1>7, Distinct DEF IInv, RetainedIsPast, StartStep
<1>10. ReleasesCounted'
  BY <1>7, Distinct DEF IInv, ReleasesCounted
<1>11. Whole'
  <2>1. \A r \in Resources : InService(r)' <=> InService(r)
    BY DEF InService
  <2> QED BY <1>2, <2>1 DEF IInv, Whole, Arriving
<1>12. ExitedClean'
  BY DEF ExitedClean
<1> QED BY <1>3, <1>4, <1>5, <1>6, <1>8, <1>9, <1>10, <1>11, <1>12 DEF IInv

(* A required step of startup failed.                                      *)
LEMMA StartupFailsInv == ASSUME IInv, StartupFails, exited = "no" PROVE IInv'
<1>1. budget' \in [deadline : DEADLINE .. GRACE_DEADLINE, cleanup : {budget.cleanup}]
  BY DEF StartupFails, stopVars, IInv, TypeOK
<1>2. /\ startup.phase = "settled" /\ ~startup.ok /\ EndStartup("failed")
      /\ abandoned' = abandoned
      /\ UNCHANGED <<state, status, connected, loginCalled, shutdown, now, resourceVars, exited>>
  BY DEF StartupFails, stopVars, hostVars
<1> QED BY <1>1, <1>2, EndInv

(* The late release that startup waits for is over.                        *)
LEMMA LateReleaseSettlesInv ==
    ASSUME IInv, NEW ok \in BOOLEAN, LateReleaseSettles(ok), exited = "no" PROVE IInv'
<1>1. budget' \in [deadline : DEADLINE .. GRACE_DEADLINE, cleanup : {budget.cleanup}]
  BY DEF LateReleaseSettles, IInv, TypeOK
<1>2. /\ startup.phase = "releasing" /\ EndStartup("done")
      /\ abandoned' = abandoned
      /\ UNCHANGED <<state, status, connected, loginCalled, shutdown, now, resourceVars, exited>>
  BY DEF LateReleaseSettles, hostVars
<1> QED BY <1>1, <1>2, EndInv

(* The late release that startup waits for is left behind.                 *)
LEMMA LateReleaseAbandonedInv ==
    ASSUME IInv, LateReleaseAbandoned, exited = "no" PROVE IInv'
<1>1. /\ abandoned \subseteq abandoned'
      /\ budget' \in [deadline : DEADLINE .. GRACE_DEADLINE, cleanup : {budget.cleanup}]
  <2>1. GRACE_DEADLINE \in DEADLINE .. GRACE_DEADLINE
    BY DEF DEADLINE, GRACE_DEADLINE
  <2> QED BY <2>1 DEF LateReleaseAbandoned, Extended, IInv, TypeOK
<1>2. /\ startup.phase = "releasing" /\ EndStartup("done")
      /\ UNCHANGED <<state, status, connected, loginCalled, shutdown, now, resourceVars, exited>>
  BY DEF LateReleaseAbandoned, hostVars
<1> QED BY <1>1, <1>2, EndInv

(* What comes in after cleanup began is released by startup itself.        *)
LEMMA ReleaseLateInv == ASSUME IInv, ReleaseLate, exited = "no" PROVE IInv'
<1> USE DEF stopVars
<1>0. PICK t : t = StartStep.target
  OBVIOUS
<1>1. TypeOK /\ Phases /\ Clocked
  BY DEF IInv
<1>2. /\ startup.phase = "settled" /\ startup.ok /\ budget.cleanup /\ t \in Resources
      /\ startup' = [startup EXCEPT !.phase = "releasing", !.deadline = budget.deadline]
      /\ held' = [held EXCEPT ![t] = FALSE]
      /\ releases' = [releases EXCEPT ![t] = @ + 1]
      /\ UNCHANGED <<state, status, connected, loginCalled, shutdown, budget, failed,
                     abandoned, now, exited>>
  BY <1>0 DEF ReleaseLate, Releasable, hostVars
<1>3. startup.at \in DOMAIN StartPlan /\ StartPlan[startup.at].target = t
  BY <1>0, <1>1, <1>2, PlanLengths DEF TypeOK, Phases, StartStep
<1>4. /\ startup'.at = startup.at /\ startup'.phase = "releasing"
      /\ startup' \in [at : 0 .. Len(StartPlan), phase : StartupPhases, ok : BOOLEAN,
                       deadline : 0 .. GRACE_DEADLINE]
  <2>1. budget.deadline \in 0 .. GRACE_DEADLINE
    BY <1>1 DEF TypeOK, DEADLINE, GRACE_DEADLINE
  <2> QED BY <1>1, <1>2, <2>1 DEF TypeOK, StartupPhases
<1>5. t # "scheduler"
  <2>1. shutdown.at > 1 /\ shutdown.at \in Nat
    BY <1>1, <1>2, PlanLengths DEF TypeOK, Phases
  <2>2. Passed(1)
    BY <2>1 DEF Passed
  <2> QED BY <1>0, <1>2, <2>2 DEF IInv, JobsStartAtOnce
<1>6. state \notin {"created", "starting", "running"}
  <2>1. shutdown.at \in Nat /\ shutdown.at > 1
    BY <1>1, <1>2, PlanLengths DEF TypeOK, Phases
  <2> QED BY <1>1, <2>1 DEF Phases
<1>7. \A r \in Resources :
          /\ r # t => held'[r] = held[r] /\ releases'[r] = releases[r]
          /\ r = t => ~held'[r] /\ releases'[r] = releases[r] + 1
  BY <1>1, <1>2 DEF TypeOK
<1>8. TypeOK'
  <2>1. releases[t] + 1 \in Nat
    BY <1>1, <1>2 DEF TypeOK
  <2>2. releases' \in [Resources -> Nat] /\ held' \in [Resources -> BOOLEAN]
    BY <1>1, <1>2, <2>1 DEF TypeOK
  <2> QED BY <1>1, <1>2, <1>4, <2>2 DEF TypeOK
<1>9. Phases'
  BY <1>1, <1>2, <1>4, <1>6 DEF Phases
<1>10. Clocked'
  BY <1>1, <1>2 DEF Clocked, BoundedShutdown
<1>11. JobsStartAtOnce' /\ StartupJoined'
  BY <1>2, <1>4 DEF IInv, JobsStartAtOnce, StartupJoined, Quiet, Passed
<1>12. "scheduler" \in Resources /\ "gateway" \in Resources
  BY Distinct
<1>13. \A r \in Resources : /\ Ahead(r)' <=> Ahead(r)
                            /\ Retained(r)' <=> Retained(r)
                            /\ Past(r) => Past(r)'
                            /\ Past(r)' /\ ~Past(r) => r = t
                            /\ r # t => ~Arriving(r)
  <2>1. \A i \in DOMAIN StartPlan : Behind(i)' /\ ~Behind(i) => i = startup.at
    BY <1>2, <1>4 DEF Behind
  <2>2. \A i \in DOMAIN StartPlan : Behind(i) => Behind(i)'
    BY <1>2, <1>4 DEF Behind
  <2>3. \A r \in Resources : Past(r)' /\ ~Past(r) => r = t
    BY <1>3, <2>1 DEF Past
  <2>4. \A r \in Resources : Past(r) => Past(r)'
    BY <2>2 DEF Past
  <2>5. \A r \in Resources : Ahead(r)' <=> Ahead(r)
    BY <1>2 DEF Ahead
  <2>6. \A r \in Resources : Retained(r)' <=> Retained(r)
    BY <1>2, <1>5, <1>7, <1>12 DEF Retained
  <2> QED BY <1>0, <2>3, <2>4, <2>5, <2>6 DEF Arriving
<1>14. ~Past(t) /\ Past(t)'
  <2>1. ~Behind(startup.at)
    BY <1>2, <1>3, PlanLengths DEF Behind
  <2>3. \A i \in DOMAIN StartPlan : StartPlan[i].target = t => i = startup.at
    BY <1>2, <1>3, StartOnce
  <2>4. ~Past(t)
    BY <1>3, <2>1 DEF Past
  <2>5. \A i \in DOMAIN StartPlan : StartPlan[i].target = t => Behind(i)'
    BY <1>4, <2>3 DEF Behind
  <2> QED BY <2>4, <2>5 DEF Past
<1>15. HeldIsKnown'
  <2> SUFFICES ASSUME NEW r \in Resources, held'[r], HasRelease(r)
               PROVE  Retained(r)' /\ Ahead(r)'
    BY DEF HeldIsKnown, HasRelease
  <2>1. r # t /\ held[r]
    BY <1>7
  <2> QED BY <1>13, <2>1 DEF IInv, HeldIsKnown
<1>16. RetainedIsPast'
  BY <1>2, <1>4, <1>13, Distinct DEF IInv, RetainedIsPast, StartStep
<1>17. ReleasesCounted'
  <2>1. ReleasesCounted
    BY DEF IInv
  <2>2. \A r \in Resources : releases[r] \in Nat
    BY <1>1 DEF TypeOK
  <2>3. \A r \in Each(Databases) \cup Each(Modules) :
            /\ releases'[r] <= 1
            /\ releases'[r] = 1 => Past(r)' /\ ~(Retained(r)' /\ Ahead(r)')
    <3> SUFFICES ASSUME NEW r \in Each(Databases) \cup Each(Modules)
                 PROVE  /\ releases'[r] <= 1
                        /\ releases'[r] = 1 => Past(r)' /\ ~(Retained(r)' /\ Ahead(r)')
      OBVIOUS
    <3>1. r \in Resources
      BY Distinct
    <3>2. /\ releases[r] <= 1
          /\ releases[r] = 1 => Past(r) /\ ~(Retained(r) /\ Ahead(r))
      BY <2>1 DEF ReleasesCounted
    <3>3. CASE r = t
      <4>1. releases[r] = 0
        BY <1>14, <2>2, <3>1, <3>2, <3>3
      <4>2. ~Retained(r)
        BY <1>14, <3>3 DEF IInv, RetainedIsPast
      <4>3. releases'[r] = 1
        BY <1>7, <3>1, <3>3, <4>1
      <4>4. Past(r)' /\ ~Retained(r)'
        BY <1>13, <1>14, <3>1, <3>3, <4>2
      <4> QED BY <4>3, <4>4
    <3>4. CASE r # t
      BY <1>7, <1>13, <3>1, <3>2, <3>4
    <3> QED BY <3>3, <3>4
  <2>4. /\ releases'["gateway"] <= 2
        /\ Ahead("gateway")' \/ ~Past("gateway")' => releases'["gateway"] <= 1
        /\ Ahead("gateway")' /\ ~Past("gateway")' => releases'["gateway"] = 0
    <3>1. /\ releases["gateway"] <= 2
          /\ Ahead("gateway") \/ ~Past("gateway") => releases["gateway"] <= 1
          /\ Ahead("gateway") /\ ~Past("gateway") => releases["gateway"] = 0
      BY <2>1 DEF ReleasesCounted
    <3>2. CASE t = "gateway"
      <4>1. releases'["gateway"] = releases["gateway"] + 1
        BY <1>7, <1>12, <3>2
      <4>2. ~Past("gateway") /\ Past("gateway")' /\ (Ahead("gateway")' <=> Ahead("gateway"))
        BY <1>12, <1>13, <1>14, <3>2
      <4>3. releases["gateway"] \in Nat
        BY <1>12, <2>2
      <4> QED BY <3>1, <4>1, <4>2, <4>3
    <3>3. CASE t # "gateway"
      <4>1. releases'["gateway"] = releases["gateway"]
        BY <1>7, <1>12, <3>3
      <4> QED BY <1>12, <1>13, <3>1, <3>3, <4>1
    <3> QED BY <3>2, <3>3
  <2>5. releases'["scheduler"] <= 1 /\ (Ahead("scheduler")' => releases'["scheduler"] = 0)
    BY <1>5, <1>7, <1>12, <1>13, <2>1 DEF ReleasesCounted
  <2> QED BY <2>3, <2>4, <2>5 DEF ReleasesCounted
<1>18. Whole' /\ ExitedClean'
  BY <1>2, <1>6 DEF Whole, ExitedClean
<1> QED BY <1>8, <1>9, <1>10, <1>11, <1>15, <1>16, <1>17, <1>18 DEF IInv

(* On to the next step, or to the end: whether what came in was retained,  *)
(* had no release, or did not come in and can be done without.             *)
LEMMA ProceedInv ==
    ASSUME IInv, startup.phase = "settled", Proceed(startup.at + 1), exited = "no",
           UNCHANGED <<stopVars, now, releases, exited>>,
           connected \subseteq connected', connected' \subseteq Each(Databases),
           status' \in [Each(Modules) -> {"pending", "ready", "unavailable"}],
           \A r \in Each(Databases) : r # StartStep.target => (r \in connected' <=> r \in connected),
           \A r \in Each(Modules) : r # StartStep.target => status'[r] = status[r],
           \A r \in Resources : Arriving(r) /\ HasRelease(r) =>
               /\ ~budget.cleanup
               /\ r \in Each(Databases) => r \in connected'
               /\ r \in Each(Modules) => status'[r] = "ready",
           \A r \in Resources \ Optional : state = "starting" /\ StartStep.target = r =>
               held[r] /\ (r \in Each(Modules) => status'[r] = "ready")
    PROVE  IInv'
<1> USE DEF stopVars
<1>0. PICK t : t = StartStep.target
  OBVIOUS
<1> DEFINE next == startup.at + 1
<1>1. TypeOK /\ Phases /\ Clocked
  BY DEF IInv
<1>2. /\ startup.at \in DOMAIN StartPlan /\ StartPlan[startup.at].target = t
      /\ startup.at \in Nat /\ startup.at <= Len(StartPlan)
  BY <1>0, <1>1, PlanLengths DEF TypeOK, Phases, StartStep
<1>3. /\ \/ /\ startup' = [startup EXCEPT !.phase = "done"]
            /\ loginCalled' = loginCalled /\ held' = held
            /\ \/ state # "starting" /\ state' = state
               \/ state = "starting" /\ state' = "running" /\ next > Len(StartPlan)
         \/ /\ state = "starting" /\ state' = state /\ next <= Len(StartPlan)
            /\ BeginStep(next)
  BY DEF Proceed, EndStartup
<1>4. /\ \/ startup'.at = startup.at /\ startup'.phase = "done"
         \/ startup'.at = next /\ startup'.phase = "acting" /\ next \in DOMAIN StartPlan
      /\ startup' \in [at : 0 .. Len(StartPlan), phase : StartupPhases, ok : BOOLEAN,
                       deadline : 0 .. GRACE_DEADLINE]
  <2>1. 0 \in 0 .. GRACE_DEADLINE
    BY DEF GRACE_DEADLINE
  <2>2. CASE startup' = [startup EXCEPT !.phase = "done"]
    BY <1>1, <2>2 DEF TypeOK, StartupPhases
  <2>3. CASE next <= Len(StartPlan) /\ BeginStep(next)
    <3>1. startup' = [at |-> next, phase |-> "acting", ok |-> TRUE, deadline |-> 0]
      BY <2>3 DEF BeginStep
    <3>2. next \in 0 .. Len(StartPlan) /\ next \in DOMAIN StartPlan
      BY <1>2, <2>3, PlanLengths
    <3> QED BY <2>1, <3>1, <3>2 DEF StartupPhases
  <2> QED BY <1>3, <2>2, <2>3
<1>5. "scheduler" \in Resources /\ "gateway" \in Resources
  BY Distinct
<1>6. /\ held' \in [Resources -> BOOLEAN] /\ loginCalled' \in BOOLEAN
      /\ \A r \in Resources : r # "scheduler" => held'[r] = held[r]
      /\ held["scheduler"] => held'["scheduler"]
      /\ loginCalled => loginCalled'
  <2>1. CASE loginCalled' = loginCalled /\ held' = held
    BY <1>1, <2>1 DEF TypeOK
  <2>2. CASE BeginStep(next)
    BY <1>1, <1>5, <2>2 DEF TypeOK, BeginStep
  <2> QED BY <1>3, <2>1, <2>2
<1>7. held'["scheduler"] /\ ~held["scheduler"] => state = "starting"
  BY <1>3
<1>8. startup'.phase = "acting" => state = "starting"
  BY <1>1, <1>3 DEF TypeOK
<1>9. state = "starting" =>
          /\ shutdown.phase = "none" /\ shutdown.at = 0 /\ now = 0 /\ ~budget.cleanup
          /\ ~Passed(1) /\ ~Passed(JoinPlace)
          /\ \A r \in Resources : Ahead(r)
  BY <1>1, NotAsked
<1>10. TypeOK'
  <2>1. state' \in {"created", "starting", "running", "stopping", "stopped"}
    BY <1>1, <1>3 DEF TypeOK
  <2> QED BY <1>1, <1>4, <1>6, <2>1 DEF TypeOK
<1>11. state # "created" /\ state # "running"
  BY <1>1 DEF Phases
<1>12. Phases'
  <2>1. state' = "starting" => startup'.phase = "acting"
    BY <1>3 DEF BeginStep
  <2>2. state' = "running" => startup'.phase = "done"
    BY <1>1, <1>3, <1>11 DEF TypeOK
  <2>3. startup'.at # 0 /\ startup'.phase # "none"
    BY <1>2, <1>4, PlanLengths
  <2>4. state' \in {"created", "starting", "running"} <=> shutdown.phase = "none"
    BY <1>1, <1>3, <1>11 DEF Phases
  <2>5. /\ state' = "stopped" <=> shutdown.phase = "done"
        /\ state' # "created"
    BY <1>1, <1>3, <1>11 DEF Phases
  <2> QED BY <1>1, <2>1, <2>2, <2>3, <2>4, <2>5 DEF Phases
<1>13. Clocked'
  <2>1. now = AfterGrace => state' = "stopped"
    BY <1>1, <1>3, <1>9 DEF Clocked, BoundedShutdown, AfterGrace
  <2> QED BY <1>1, <2>1 DEF Clocked, BoundedShutdown
<1>14. JobsStartAtOnce'
  BY <1>4, <1>8, <1>9 DEF JobsStartAtOnce, Passed
<1>15. StartupJoined'
  BY DEF IInv, StartupJoined, Passed, Quiet
<1>16. \A r \in Resources : Ahead(r)' <=> Ahead(r)
  BY DEF Ahead
<1>17. \A r \in Resources : Past(r) => Past(r)'
  <2>1. \A i \in DOMAIN StartPlan : Behind(i) => Behind(i)'
    BY <1>2, <1>4, PlanLengths DEF Behind
  <2> QED BY <2>1 DEF Past
<1>18. \A i \in DOMAIN StartPlan : Behind(i)' /\ ~Behind(i) => i = startup.at
  BY <1>2, <1>4, PlanLengths DEF Behind
<1>19. \A i \in DOMAIN StartPlan : StartPlan[i].target = t /\ t \in Resources => i = startup.at
  BY <1>2, StartOnce
<1>20. \A r \in Resources : Past(r)' /\ ~Past(r) => r = t
  BY <1>2, <1>18 DEF Past
<1>21. t \in Resources => ~Past(t) /\ Past(t)'
  <2> SUFFICES ASSUME t \in Resources PROVE ~Past(t) /\ Past(t)'
    OBVIOUS
  <2>1. ~Behind(startup.at)
    BY <1>2 DEF Behind
  <2>2. startup.at < startup'.at \/ (startup.at = startup'.at /\ startup'.phase = "done")
    BY <1>2, <1>4
  <2>3. ~Past(t)
    BY <1>2, <2>1 DEF Past
  <2>4. \A i \in DOMAIN StartPlan : StartPlan[i].target = t => Behind(i)'
    BY <1>19, <2>2 DEF Behind
  <2> QED BY <2>3, <2>4 DEF Past
<1>22. RetainedIsPast
  BY DEF IInv
<1>23. \A r \in Each(Databases) \cup Each(Modules) :
           /\ r \in Resources
           /\ Retained(r) => Retained(r)'
           /\ Retained(r)' /\ ~Retained(r) => r = t
  <2> SUFFICES ASSUME NEW r \in Each(Databases) \cup Each(Modules)
               PROVE  /\ r \in Resources
                      /\ Retained(r) => Retained(r)'
                      /\ Retained(r)' /\ ~Retained(r) => r = t
    OBVIOUS
  <2>1. r \in Resources /\ r # "gateway" /\ r # "scheduler"
    BY Distinct
  <2>2. Retained(r) => r # t
    BY <1>21, <1>22, <2>1 DEF RetainedIsPast
  <2>3. r # t => (Retained(r)' <=> Retained(r))
    <3>1. connected \subseteq Each(Databases)
      BY <1>1 DEF TypeOK
    <3> QED BY <1>0, <2>1, <3>1 DEF Retained
  <2> QED BY <2>1, <2>2, <2>3
<1>24. \A r \in {"gateway", "scheduler"} : Retained(r) => Retained(r)'
  BY <1>6, Distinct DEF Retained
<1>25. HeldIsKnown'
  <2> SUFFICES ASSUME NEW r \in Resources, held'[r], HasRelease(r)
               PROVE  Retained(r)' /\ Ahead(r)'
    BY DEF HeldIsKnown, HasRelease
  <2>1. CASE ~held[r]
    <3>1. r = "scheduler" /\ state = "starting"
      BY <1>6, <1>7, <2>1
    <3> QED BY <1>9, <1>16, <3>1 DEF Retained
  <2>2. CASE held[r] /\ Retained(r) /\ Ahead(r)
    BY <1>16, <1>23, <1>24, <2>2, Distinct
  <2>3. CASE held[r] /\ Arriving(r)
    <3>1. ~budget.cleanup
      BY <2>3
    <3>2. Ahead(r)'
      BY <1>1, <1>16, <3>1, NoReleaseBeforeCleanup
    <3>3. Retained(r)'
      <4>1. CASE r \in Each(Databases) \cup Each(Modules)
        BY <2>3, <4>1 DEF Retained
      <4>2. CASE r = "gateway"
        BY <1>2, <1>6, <1>22, <2>3, <4>2 DEF Retained, RetainedIsPast, Arriving
      <4>3. CASE r = "scheduler"
        BY <4>3 DEF Retained
      <4> QED BY <4>1, <4>2, <4>3, Distinct
    <3> QED BY <3>2, <3>3
  <2> QED BY <2>1, <2>2, <2>3 DEF IInv, HeldIsKnown
<1>26. RetainedIsPast'
  <2>1. \A r \in Each(Databases) \cup Each(Modules) : Retained(r)' => Past(r)'
    <3> SUFFICES ASSUME NEW r \in Each(Databases) \cup Each(Modules), Retained(r)'
                 PROVE  Past(r)'
      OBVIOUS
    <3>1. CASE Retained(r)
      BY <1>17, <1>22, <1>23, <3>1 DEF RetainedIsPast
    <3>2. CASE ~Retained(r)
      BY <1>21, <1>23, <3>2
    <3> QED BY <3>1, <3>2
  <2>2. startup'.at > 0 /\ StartPlan[startup'.at].target = "gateway" => loginCalled'
    <3>1. CASE startup'.at = startup.at
      BY <1>2, <1>6, <1>22, <3>1 DEF RetainedIsPast, StartStep
    <3>2. CASE startup'.at = next /\ startup'.at # startup.at
      <4>1. next \in DOMAIN StartPlan /\ BeginStep(next)
        BY <1>1, <1>3, <1>4, <3>2 DEF TypeOK
      <4> QED BY <3>2, <4>1, StartTargets DEF BeginStep
    <3> QED BY <1>4, <3>1, <3>2
  <2> QED BY <2>1, <2>2 DEF RetainedIsPast, StartStep
<1>27. ReleasesCounted'
  <2>1. ReleasesCounted
    BY DEF IInv
  <2>2. \A r \in Each(Databases) \cup Each(Modules) :
            /\ releases[r] <= 1
            /\ releases[r] = 1 => Past(r)' /\ ~(Retained(r)' /\ Ahead(r)')
    <3> SUFFICES ASSUME NEW r \in Each(Databases) \cup Each(Modules), releases[r] = 1
                 PROVE  Past(r)' /\ ~(Retained(r)' /\ Ahead(r)')
      BY <2>1 DEF ReleasesCounted
    <3>1. Past(r) /\ ~(Retained(r) /\ Ahead(r)) /\ r \in Resources
      BY <1>23, <2>1 DEF ReleasesCounted
    <3>2. r # t
      BY <1>21, <3>1
    <3> QED BY <1>16, <1>17, <1>23, <3>1, <3>2
  <2> QED BY <1>5, <1>16, <1>17, <2>1, <2>2 DEF ReleasesCounted
<1>28. Whole'
  <2>1. Whole
    BY DEF IInv
  <2>2. ASSUME NEW i \in DOMAIN StartPlan, state' \in {"starting", "running"},
               StartPlan[i].target \in Resources \ Optional,
               i < startup'.at \/ state' = "running"
        PROVE  InService(StartPlan[i].target)'
    <3> DEFINE r == StartPlan[i].target
    <3>1. state = "starting"
      BY <1>3, <1>11, <2>2
    <3>2. i \in Nat /\ i <= startup.at
      <4>1. CASE state' = "running"
        BY <1>2, <1>3, <3>1, <4>1, PlanLengths
      <4>2. CASE i < startup'.at
        BY <1>2, <1>4, <4>2, PlanLengths
      <4> QED BY <2>2, <4>1, <4>2
    <3>3. held[r] => held'[r]
      BY <1>6, <2>2
    <3>4. CASE i = startup.at
      <4>1. r = t
        BY <1>2, <3>4
      <4> QED BY <1>0, <2>2, <3>1, <3>3, <4>1 DEF InService
    <3>5. CASE i < startup.at
      <4>1. InService(r)
        BY <2>1, <2>2, <3>1, <3>5 DEF Whole
      <4>2. r # t
        BY <1>2, <1>19, <2>2, <3>5
      <4> QED BY <1>0, <3>3, <4>1, <4>2 DEF InService
    <3> QED BY <1>2, <3>2, <3>4, <3>5
  <2>3. \A r \in Resources : ~Arriving(r)'
    BY <1>4 DEF Arriving
  <2> QED BY <2>2, <2>3 DEF Whole
<1>29. ExitedClean'
  BY DEF ExitedClean
<1> QED BY <1>10, <1>12, <1>13, <1>14, <1>15, <1>25, <1>26, <1>27, <1>28, <1>29 DEF IInv

(* What came in before cleanup is retained.                                *)
LEMMA RetainInv == ASSUME IInv, Retain, exited = "no" PROVE IInv'
<1>1. TypeOK /\ Phases /\ Whole
  BY DEF IInv
<1>2. /\ startup.phase = "settled" /\ startup.ok /\ ~budget.cleanup
      /\ connected' = IF StartStep.name = "databases.connect"
                      THEN connected \cup {StartStep.target} ELSE connected
      /\ status' = IF StartStep.name = "module.setup"
                   THEN [status EXCEPT ![StartStep.target] = "ready"] ELSE status
      /\ Proceed(startup.at + 1)
      /\ UNCHANGED <<stopVars, now, releases, exited>>
  BY DEF Retain, hostVars
<1>3. startup.at \in DOMAIN StartPlan
  BY <1>1, <1>2, PlanLengths DEF TypeOK, Phases
<1>4. /\ StartStep.name = "databases.connect" <=> StartStep.target \in Each(Databases)
      /\ StartStep.name = "module.setup" <=> StartStep.target \in Each(Modules)
  BY <1>3, StartTargets DEF StartStep
<1>5. connected \subseteq connected' /\ connected' \subseteq Each(Databases)
  BY <1>1, <1>2, <1>4 DEF TypeOK
<1>6. status' \in [Each(Modules) -> {"pending", "ready", "unavailable"}]
  BY <1>1, <1>2, <1>4 DEF TypeOK
<1>7. \A r \in Each(Databases) :
          /\ r # StartStep.target => (r \in connected' <=> r \in connected)
          /\ r = StartStep.target => r \in connected'
  BY <1>2, <1>4
<1>8. \A r \in Each(Modules) :
          /\ r # StartStep.target => status'[r] = status[r]
          /\ r = StartStep.target => status'[r] = "ready"
  BY <1>1, <1>2, <1>4 DEF TypeOK
<1>9. \A r \in Resources \ Optional : state = "starting" /\ StartStep.target = r =>
          held[r] /\ (r \in Each(Modules) => status'[r] = "ready")
  BY <1>1, <1>2, <1>8 DEF Whole, Arriving
<1>10. \A r \in Resources : Arriving(r) /\ HasRelease(r) =>
          /\ ~budget.cleanup
          /\ r \in Each(Databases) => r \in connected'
          /\ r \in Each(Modules) => status'[r] = "ready"
  BY <1>2, <1>7, <1>8 DEF Arriving
<1> QED BY <1>2, <1>5, <1>6, <1>7, <1>8, <1>9, <1>10, ProceedInv

(* What came in after cleanup began has no release.                        *)
LEMMA NothingToReleaseInv == ASSUME IInv, NothingToRelease, exited = "no" PROVE IInv'
<1>1. TypeOK /\ Phases /\ Clocked
  BY DEF IInv
<1>2. /\ startup.phase = "settled" /\ budget.cleanup /\ ~Releasable
      /\ Proceed(startup.at + 1)
      /\ UNCHANGED <<status, connected, stopVars, now, releases, exited>>
  BY DEF NothingToRelease, hostVars
<1>3. state # "starting"
  BY <1>1, <1>2, NotAsked
<1>4. \A r \in Resources : ~(Arriving(r) /\ HasRelease(r))
  BY <1>2 DEF Arriving, HasRelease, Releasable
<1>5. /\ connected \subseteq connected' /\ connected' \subseteq Each(Databases)
      /\ status' \in [Each(Modules) -> {"pending", "ready", "unavailable"}]
  BY <1>1, <1>2 DEF TypeOK
<1> QED BY <1>2, <1>3, <1>4, <1>5, ProceedInv

(* An optional module whose setup failed is disabled.                      *)
LEMMA DisableInv == ASSUME IInv, Disable, exited = "no" PROVE IInv'
<1>1. TypeOK /\ Phases
  BY DEF IInv
<1>2. /\ startup.phase = "settled" /\ ~startup.ok
      /\ StartStep.name = "module.setup" /\ StartStep.target \in Optional
      /\ status' = [status EXCEPT ![StartStep.target] = "unavailable"]
      /\ Proceed(startup.at + 1)
      /\ UNCHANGED <<connected, stopVars, now, releases, exited>>
  BY DEF Disable, SetupOptional, hostVars
<1>3. /\ connected \subseteq connected' /\ connected' \subseteq Each(Databases)
      /\ status' \in [Each(Modules) -> {"pending", "ready", "unavailable"}]
  BY <1>1, <1>2 DEF TypeOK
<1>4. \A r \in Each(Modules) : r # StartStep.target => status'[r] = status[r]
  BY <1>1, <1>2 DEF TypeOK
<1>5. \A r \in Resources : ~Arriving(r)
  BY <1>2 DEF Arriving
<1> QED BY <1>2, <1>3, <1>4, <1>5, ProceedInv

-------------------------------------------------------------------------------
(* What is left: nobody but the shutdown's own first caller begins it.     *)

(* A step that leaves the two sequences alone.                             *)
LEMMA UnchangedButExited ==
    ASSUME IInv, ExitedClean',
           UNCHANGED <<state, startup, status, connected, loginCalled, stopVars, now,
                       held, releases>>
    PROVE  IInv'
<1> USE DEF stopVars
<1>1. TypeOK' /\ Phases' /\ Clocked'
  BY DEF IInv, TypeOK, Phases, Clocked, BoundedShutdown
<1>2. JobsStartAtOnce' /\ StartupJoined'
  BY DEF IInv, JobsStartAtOnce, StartupJoined, Passed, Quiet, StartStep
<1>3. \A r : /\ Ahead(r)' <=> Ahead(r)
             /\ Past(r)' <=> Past(r)
             /\ Retained(r)' <=> Retained(r)
             /\ Arriving(r)' <=> Arriving(r)
             /\ InService(r)' <=> InService(r)
  BY DEF Ahead, Past, Behind, Retained, Arriving, StartStep, InService
<1>4. HeldIsKnown'
  BY <1>3 DEF IInv, HeldIsKnown, HasRelease
<1>5. RetainedIsPast'
  BY <1>3 DEF IInv, RetainedIsPast, StartStep
<1>6. ReleasesCounted'
  BY <1>3 DEF IInv, ReleasesCounted
<1>7. Whole'
  BY <1>3 DEF IInv, Whole
<1> QED BY <1>1, <1>2, <1>4, <1>5, <1>6, <1>7 DEF IInv

(* A step that also leaves the exit code alone.                            *)
LEMMA UnchangedInv ==
    ASSUME IInv, exited' = exited,
           UNCHANGED <<state, startup, status, connected, loginCalled, shutdown, budget,
                       failed, abandoned, now, held, releases>>
    PROVE  IInv'
<1>1. ExitedClean'
  BY DEF IInv, ExitedClean, ReportOk
<1> QED BY <1>1, UnchangedButExited DEF stopVars

(* Someone asks for a stop: the first one begins it.                       *)
LEMMA AskInv ==
    ASSUME IInv, StopNow, exited = "no",
           UNCHANGED <<startup, status, connected, loginCalled, failed, abandoned, now, exited>>
    PROVE  IInv'
<1>1. TypeOK /\ Phases /\ Clocked
  BY DEF IInv
<1>2. CASE /\ state \in {"created", "starting", "running"}
           /\ state' = "stopping" /\ Advance(1)
  <2>1. shutdown.phase = "none" /\ shutdown.at = 0
    BY <1>1, <1>2, NotAsked
  <2>2. Advance(shutdown.at + 1)
    <3>1. shutdown.at + 1 = 1
      BY <2>1
    <3> QED BY <1>2, <3>1
  <2> QED BY <1>2, <2>1, <2>2, AdvanceInv
<1>3. CASE UNCHANGED <<state, start, shutdown, budget, resourceVars>>
  BY <1>3, UnchangedInv DEF resourceVars
<1> QED BY <1>2, <1>3 DEF StopNow

(* A failed startup asks for the stop itself.                              *)
LEMMA StartFailsInv == ASSUME IInv, StartFails, exited = "no" PROVE IInv'
<1>1. TypeOK /\ Phases /\ Clocked
  BY DEF IInv
<1>2. UNCHANGED <<startup, status, connected, loginCalled, failed, abandoned, now, exited>>
  BY DEF StartFails, hostVars
<1>3. CASE state = "starting" /\ state' = "stopping" /\ Advance(1)
  <2>1. shutdown.phase = "none" /\ shutdown.at = 0
    BY <1>1, <1>3, NotAsked
  <2>2. Advance(shutdown.at + 1)
    <3>1. shutdown.at + 1 = 1
      BY <2>1
    <3> QED BY <1>3, <3>1
  <2> QED BY <1>2, <1>3, <2>1, <2>2, AdvanceInv
<1>4. CASE UNCHANGED <<state, shutdown, budget, resourceVars>>
  BY <1>2, <1>4, UnchangedInv DEF resourceVars
<1> QED BY <1>3, <1>4 DEF StartFails

(* The shutdown goes on to its next step.                                  *)
LEMMA NextStopStepInv == ASSUME IInv, NextStopStep, exited = "no" PROVE IInv'
<1>1. TypeOK /\ Phases
  BY DEF IInv
<1>2. /\ shutdown.phase = "settled" /\ Advance(shutdown.at + 1) /\ state' = state
      /\ UNCHANGED <<startup, status, connected, loginCalled, failed, abandoned, now, exited>>
  BY DEF NextStopStep, startVars, hostVars
<1>3. state = "stopping"
  BY <1>1, <1>2 DEF TypeOK, Phases
<1> QED BY <1>2, <1>3, AdvanceInv

(* The process handlers set the exit code.                                 *)
LEMMA ExitInv == ASSUME IInv, Exit PROVE IInv'
<1>1. UNCHANGED <<state, startVars, stopVars, now, resourceVars>>
  BY DEF Exit
<1>2. ExitedClean'
  BY DEF Exit, ExitedClean, ReportOk, stopVars
<1> QED BY <1>1, <1>2, UnchangedButExited DEF startVars, resourceVars

(* Every step keeps the invariant.                                         *)
LEMMA InvStep == IInv /\ [Next]_vars => IInv'
<1> SUFFICES ASSUME IInv, [Next]_vars PROVE IInv'
  OBVIOUS
<1>1. CASE UNCHANGED vars
  BY <1>1, UnchangedInv DEF vars, startVars, stopVars, resourceVars, hostVars
<1>2. CASE Next
  <2> SUFFICES ASSUME exited = "no", Adapters \/ Kernel \/ World PROVE IInv'
    BY <1>2 DEF Next
  <2>1. CASE Adapters
    BY <2>1, StepSettlesInv, StopStepSettlesInv, LateReleaseSettlesInv DEF Adapters
  <2>2. CASE Kernel
    <3>1. CASE ReadyCancelled \/ Retain \/ ReleaseLate \/ NothingToRelease \/ Disable
               \/ StartupFails \/ LateReleaseAbandoned
      BY <3>1, ReadyCancelledInv, RetainInv, ReleaseLateInv, NothingToReleaseInv,
         DisableInv, StartupFailsInv, LateReleaseAbandonedInv
    <3>2. CASE Joined \/ Abandon \/ NextStopStep \/ Stopped \/ StartFails \/ Exit \/ Tick
      BY <3>2, JoinedInv, AbandonInv, NextStopStepInv, StoppedInv, StartFailsInv, ExitInv,
         TickInv
    <3>3. CASE StartReturns \/ StartSettles
      BY <3>3, UnchangedInv
         DEF StartReturns, StartSettles, stopVars, resourceVars, hostVars
    <3> QED BY <2>2, <3>1, <3>2, <3>3 DEF Kernel
  <2>3. CASE World
    <3>1. CASE Start
      BY <3>1, StartInv
    <3>2. CASE Stop \/ Signal \/ Crash
      BY <3>2, AskInv DEF Stop, Signal, Crash, hostVars
    <3>3. CASE Serve \/ Served
      BY <3>3, UnchangedInv DEF Serve, Served, startVars, stopVars, resourceVars
    <3> QED BY <2>3, <3>1, <3>2, <3>3 DEF World
  <2> QED BY <2>1, <2>2, <2>3
<1> QED BY <1>1, <1>2 DEF vars

(* The phases of startup and shutdown, what is held, retained and released,*)
(* and what was joined and reported fit together in every state            *)
(* (lifecycle.ts).                                                         *)
THEOREM Invariance == Spec => []IInv
BY InvInit, InvStep, PTL DEF Spec

-------------------------------------------------------------------------------
(* Once both sequences are over nothing that has a release is held.        *)
LEMMA NothingLeftHeld ==
    ASSUME IInv, state = "stopped", Quiet, NEW r \in Resources, HasRelease(r)
    PROVE  ~held[r]
<1>1. TypeOK /\ Phases
  BY DEF IInv
<1>2. shutdown.at = Len(StopPlan)
  BY <1>1 DEF Phases
<1>3. PICK b \in DOMAIN StopPlan : StopPlan[b].target = r
  BY StopAll
<1>4. ~Ahead(r)
  BY <1>2, <1>3, PlanLengths DEF Ahead
<1>5. ~Arriving(r)
  BY DEF Arriving, Quiet
<1> QED BY <1>4, <1>5 DEF IInv, HeldIsKnown

(* Whatever startup acquires is released, before the shutdown or after it, *)
(* and released once; for any databases and modules and in any interleaving*)
(* of the two sequences (lifecycle.ts recordAcquisition, stopSequence).    *)
THEOREM EachReleasedOnce == Spec => []ReleasedOnce
<1>1. IInv => ReleasedOnce
  <2> SUFFICES ASSUME IInv PROVE ReleasedOnce
    OBVIOUS
  <2>1. \A r \in Resources : releases[r] <= IF r = "gateway" THEN 2 ELSE 1
    BY Distinct DEF IInv, ReleasesCounted
  <2>2. state = "stopped" /\ startup.phase \in {"none", "done", "failed"} =>
            \A r \in Resources : HasRelease(r) => ~held[r]
    BY NothingLeftHeld DEF Quiet
  <2> QED BY <2>1, <2>2 DEF ReleasedOnce
<1> QED BY <1>1, Invariance, PTL

(* A clean report and an exit code of success mean that startup is over and*)
(* nothing is left behind (lifecycle.ts:305-313, process-handlers.ts).     *)
THEOREM CleanExit == Spec => []CleanMeansClean
<1>1. IInv => CleanMeansClean
  <2> SUFFICES ASSUME IInv, (state = "stopped" /\ ReportOk) \/ exited = "success"
               PROVE  Quiet /\ \A r \in Resources : HasRelease(r) => ~held[r]
    BY DEF CleanMeansClean, Quiet
  <2>1. TypeOK /\ Phases
    BY DEF IInv
  <2>2. state = "stopped" /\ ReportOk
    BY DEF IInv, ExitedClean
  <2>3. Passed(1)
    BY <2>1, <2>2, PlanLengths DEF Phases, Passed
  <2>4. Quiet
    BY <2>2, <2>3 DEF IInv, StartupJoined, ReportOk
  <2> QED BY <2>2, <2>4, NothingLeftHeld
<1> QED BY <1>1, Invariance, PTL

(* However many steps hang, the shutdown ends by the deadline and one grace*)
(* (lifecycle.ts:330-333).                                                 *)
THEOREM ShutdownBounded == Spec => []BoundedShutdown
<1>1. IInv => BoundedShutdown
  BY DEF IInv, Clocked
<1> QED BY <1>1, Invariance, PTL

(* The shutdown closes no database and destroys no gateway under a startup *)
(* that is at work, before the grace is over (lifecycle.ts:266-273).       *)
THEOREM NothingClosedUnderStartup == Spec => ClosesUnderNobody
<1> DEFINE Closes == /\ shutdown' # shutdown /\ shutdown'.phase = "waiting"
                     /\ StopPlan[shutdown'.at].name \in {"databases.close", "gateway.destroy"}
                     /\ now < GRACE_DEADLINE
<1>1. IInv /\ IInv' /\ [Next]_vars =>
          [Closes => startup.phase \in {"none", "done", "failed"}]_vars
  <2> SUFFICES ASSUME IInv, IInv', Next, Closes PROVE Quiet
    BY DEF vars, startVars, stopVars, Quiet
  <2>1. shutdown'.phase # "none" /\ shutdown' \in
            [at : 0 .. Len(StopPlan), phase : ShutdownPhases, deadline : 0 .. GRACE_DEADLINE]
    BY DEF IInv, TypeOK
  <2>2. shutdown'.at \in DOMAIN StopPlan
    BY <2>1, PlanLengths DEF IInv, Phases
  <2>3. shutdown'.at > JoinPlace
    BY <2>2, StopTargets
  <2>4. Passed(JoinPlace)'
    BY <2>3 DEF Passed
  <2>5. Quiet' \/ now' >= GRACE_DEADLINE
    BY <2>4 DEF IInv, StartupJoined
  <2>6. startup' = startup /\ now' = now
    <3>1. shutdown.phase = "waiting" => shutdown' # [shutdown EXCEPT !.phase = "settled"]
      BY <2>1 DEF IInv, TypeOK
    <3>2. CASE Adapters
      BY <3>2 DEF Adapters, StepSettles, StopStepSettles, LateReleaseSettles, stopVars,
                  startVars, IInv, TypeOK
    <3>3. CASE Kernel
      BY <3>3 DEF Kernel, ReadyCancelled, Retain, ReleaseLate, NothingToRelease, Disable,
         StartupFails, Joined, Abandon, NextStopStep, Stopped, LateReleaseAbandoned,
         StartFails, StartReturns, StartSettles, Exit, Tick, stopVars, startVars
    <3>4. CASE World
      BY <3>4 DEF World, Start, Stop, Signal, Crash, Serve, Served, stopVars, startVars
    <3> QED BY <3>2, <3>3, <3>4 DEF Next
  <2>7. now \in Nat
    BY DEF IInv, TypeOK, AfterGrace
  <2> QED BY <2>5, <2>6, <2>7 DEF Quiet, GRACE_DEADLINE
<1> QED BY <1>1, Invariance, PTL DEF Spec, ClosesUnderNobody

(* A module's handler is only let in while everything it may count on is in*)
(* service (lifecycle-dispatcher.ts:26-29).                                *)
THEOREM ServedWhole == Spec => ServesWhole
<1>1. IInv /\ [Next]_vars =>
          [~serving /\ serving' =>
              /\ \A r \in Resources \ Optional : held[r]
              /\ \A m \in Each(Modules) \ Optional : status[m] = "ready"]_vars
  <2> SUFFICES ASSUME IInv, Next, ~serving, serving'
               PROVE  /\ \A r \in Resources \ Optional : held[r]
                      /\ \A m \in Each(Modules) \ Optional : status[m] = "ready"
    BY DEF vars, hostVars
  <2>1. state = "running"
    BY DEF Next, Adapters, StepSettles, StopStepSettles, LateReleaseSettles, Kernel,
           ReadyCancelled, Retain, ReleaseLate, NothingToRelease, Disable,
           StartupFails, Joined, Abandon, NextStopStep, Stopped, LateReleaseAbandoned,
           StartFails, StartReturns, StartSettles, Exit, Tick, World, Start, Stop, Signal,
           Crash, Serve, Served, hostVars
  <2>2. \A r \in Resources \ Optional : InService(r)
    <3> SUFFICES ASSUME NEW r \in Resources \ Optional PROVE InService(r)
      OBVIOUS
    <3>1. PICK i \in DOMAIN StartPlan : StartPlan[i].target = r
      BY StartAll
    <3> QED BY <2>1, <3>1 DEF IInv, Whole
  <2> QED BY <2>2, Distinct DEF InService
<1> QED BY <1>1, Invariance, PTL DEF Spec, ServesWhole

===============================================================================
