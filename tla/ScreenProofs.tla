------------------------------ MODULE ScreenProofs ------------------------------
(***************************************************************************)
(* Proofs about the messages that answer clicks.  SettingsScreen: however  *)
(* the entries of a declaration are laid out, every way of the layout leads*)
(* on and every control has a place; no level costs more components than a *)
(* message carries; every state stands on a path of the layout; and a modal*)
(* answers the round that showed it.  Paginators: the page shown was       *)
(* there, for any items, sources and clicks.                               *)
(***************************************************************************)
EXTENDS SettingsScreen, Paginators, FiniteSetTheorems, SequenceTheorems, WellFoundedInduction, TLAPS

-------------------------------------------------------------------------------
(* Lists: sequences, of whatever they hold.                                *)
IsList(s) == s \in Seq(ToSet(s))

LEMMA Listed ==
    ASSUME NEW S, NEW s \in Seq(S)
    PROVE  IsList(s)
<1>1. s \in [1 .. Len(s) -> ToSet(s)] /\ Len(s) \in Nat
  BY LenProperties DEF ToSet
<1> QED BY <1>1, SeqDef DEF IsList

LEMMA ListFacts ==
    ASSUME NEW s, IsList(s)
    PROVE  /\ Len(s) \in Nat /\ DOMAIN s = 1 .. Len(s)
           /\ s = <<>> <=> Len(s) = 0
           /\ \A e : e \in ToSet(s) <=> \E i \in 1 .. Len(s) : s[i] = e
BY DEF IsList, ToSet

LEMMA FunctionListed ==
    ASSUME NEW n \in Nat, NEW s, DOMAIN s = 1 .. n, s = [i \in 1 .. n |-> s[i]]
    PROVE  IsList(s) /\ Len(s) = n
<1>1. s \in [1 .. n -> ToSet(s)]
  BY DEF ToSet
<1>2. s \in Seq(ToSet(s))
  BY <1>1, SeqDef
<1> QED BY <1>2 DEF IsList

LEMMA EmptyListed == IsList(<<>>) /\ Len(<<>>) = 0
BY Listed, EmptySeq

LEMMA AppendListed ==
    ASSUME NEW s, IsList(s), NEW e
    PROVE  /\ IsList(Append(s, e)) /\ Len(Append(s, e)) = Len(s) + 1
           /\ \A i \in 1 .. Len(s) : Append(s, e)[i] = s[i]
           /\ Append(s, e)[Len(s) + 1] = e
<1>1. PICK S : S = ToSet(s) \cup {e}
  OBVIOUS
<1>2. s \in Seq(S) /\ e \in S
  BY <1>1, SeqMonotonic DEF IsList
<1>3. /\ Append(s, e) \in Seq(S) /\ Len(Append(s, e)) = Len(s) + 1
      /\ \A i \in 1 .. Len(s) : Append(s, e)[i] = s[i]
      /\ Append(s, e)[Len(s) + 1] = e
  BY <1>2, AppendProperties
<1>4. IsList(Append(s, e))
  BY <1>3, Listed
<1> QED BY <1>3, <1>4

LEMMA ConcatListed ==
    ASSUME NEW s, IsList(s), NEW t, IsList(t)
    PROVE  /\ IsList(s \o t) /\ Len(s \o t) = Len(s) + Len(t)
           /\ \A i \in 1 .. Len(s) + Len(t) :
                 (s \o t)[i] = IF i <= Len(s) THEN s[i] ELSE t[i - Len(s)]
<1>1. PICK S : S = ToSet(s) \cup ToSet(t)
  OBVIOUS
<1>2. s \in Seq(S) /\ t \in Seq(S)
  BY <1>1, SeqMonotonic DEF IsList
<1> QED BY <1>2, ConcatProperties, Listed

LEMMA SubSeqListed ==
    ASSUME NEW s, IsList(s), NEW m \in Int, NEW n \in Int, m >= 1, n <= Len(s)
    PROVE  /\ IsList(SubSeq(s, m, n))
           /\ Len(SubSeq(s, m, n)) = IF m <= n THEN n - m + 1 ELSE 0
           /\ \A i \in 1 .. n - m + 1 : SubSeq(s, m, n)[i] = s[m + i - 1]
<1>1. \A i \in m .. n : s[i] \in ToSet(s)
  BY ListFacts
<1>2. s \in Seq(ToSet(s))
  BY DEF IsList
<1>3. /\ SubSeq(s, m, n) \in Seq(ToSet(s))
      /\ Len(SubSeq(s, m, n)) = IF m <= n THEN n - m + 1 ELSE 0
      /\ \A i \in 1 .. n - m + 1 : SubSeq(s, m, n)[i] = s[m + i - 1]
  BY <1>1, <1>2, SubSeqProperties
<1>4. IsList(SubSeq(s, m, n))
  BY <1>3, Listed
<1> QED BY <1>3, <1>4

LEMMA ConcatSet ==
    ASSUME NEW s, IsList(s), NEW t, IsList(t)
    PROVE  ToSet(s \o t) = ToSet(s) \cup ToSet(t)
<1>1. \A e : e \in ToSet(s \o t) <=> \E i \in 1 .. Len(s \o t) : (s \o t)[i] = e
  BY ConcatListed, ListFacts
<1>2. \A e : e \in ToSet(s) <=> \E i \in 1 .. Len(s) : s[i] = e
  BY ListFacts
<1>3. \A e : e \in ToSet(t) <=> \E i \in 1 .. Len(t) : t[i] = e
  BY ListFacts
<1>4. Len(s) \in Nat /\ Len(t) \in Nat
  BY ListFacts
<1>5. ASSUME NEW e \in ToSet(s \o t) PROVE e \in ToSet(s) \cup ToSet(t)
  <2>1. PICK i \in 1 .. Len(s) + Len(t) : (s \o t)[i] = e
    BY <1>1, <1>5, ConcatListed
  <2>2. CASE i <= Len(s)
    BY <1>2, <1>4, <2>1, <2>2, ConcatListed
  <2>3. CASE ~(i <= Len(s))
    <3>1. i - Len(s) \in 1 .. Len(t) /\ t[i - Len(s)] = e
      BY <1>4, <2>1, <2>3, ConcatListed
    <3> QED BY <1>3, <3>1
  <2> QED BY <2>2, <2>3
<1>6. ASSUME NEW e \in ToSet(s) PROVE e \in ToSet(s \o t)
  <2>1. PICK i \in 1 .. Len(s) : s[i] = e
    BY <1>2, <1>6
  <2>2. i \in 1 .. Len(s \o t) /\ (s \o t)[i] = e
    BY <1>4, <2>1, ConcatListed
  <2> QED BY <1>1, <2>2
<1>7. ASSUME NEW e \in ToSet(t) PROVE e \in ToSet(s \o t)
  <2>1. PICK i \in 1 .. Len(t) : t[i] = e
    BY <1>3, <1>7
  <2>2. Len(s) + i \in 1 .. Len(s \o t) /\ (s \o t)[Len(s) + i] = e
    BY <1>4, <2>1, ConcatListed
  <2> QED BY <1>1, <2>2
<1> QED BY <1>5, <1>6, <1>7

(* The least of some naturals is one of them; and induction over the       *)
(* numbers up to one, of membership in a set.                              *)
LEMMA MinIsThere ==
    ASSUME NEW S \in SUBSET Nat, S # {}
    PROVE  Min(S) \in S /\ \A i \in S : Min(S) <= i
<1>1. PICK R : R = OpToRel(<, Nat)
  OBVIOUS
<1>2. IsWellFoundedOn(R, Nat)
  BY <1>1, NatLessThanWellFounded
<1>3. \A x, y \in Nat : x < y => <<x, y>> \in R
  BY <1>1 DEF OpToRel
<1>4. PICK x \in S : \A y \in S : <<y, x>> \notin R
  BY <1>2, WFMin
<1>5. \A y \in S : x <= y
  <2> TAKE y \in S
  <2>1. x \in Nat /\ y \in Nat
    OBVIOUS
  <2>2. ~(y < x)
    BY <1>3, <1>4, <2>1
  <2> QED BY <2>1, <2>2
<1> QED BY <1>5 DEF Min

LEMMA UpTo ==
    ASSUME NEW n \in Nat, NEW S, 0 \in S,
           \A i \in 1 .. n : (\A j \in 0 .. i - 1 : j \in S) => i \in S
    PROVE  \A i \in 0 .. n : i \in S
<1> DEFINE Out == {i \in 0 .. n : i \notin S}
<1>1. SUFFICES ASSUME Out # {} PROVE FALSE
  OBVIOUS
<1>2. Min(Out) \in Out /\ \A i \in Out : Min(Out) <= i
  BY <1>1, MinIsThere
<1>3. Min(Out) \in 1 .. n /\ \A j \in 0 .. Min(Out) - 1 : j \in S
  BY <1>2
<1> QED BY <1>2, <1>3

-------------------------------------------------------------------------------
(* What the layout makes is lists: units, packed units, sections.          *)
LEMMA FrontListed ==
    ASSUME NEW s, IsList(s), s # <<>>
    PROVE  /\ IsList(Front(s)) /\ Len(Front(s)) = Len(s) - 1
           /\ \A i \in 1 .. Len(s) - 1 : Front(s)[i] = s[i]
<1>1. Len(s) \in Nat /\ Len(s) # 0
  BY ListFacts
<1>2. Front(s) = SubSeq(s, 1, Len(s) - 1)
  BY DEF Front
<1>3. /\ IsList(SubSeq(s, 1, Len(s) - 1))
      /\ Len(SubSeq(s, 1, Len(s) - 1)) = IF 1 <= Len(s) - 1 THEN Len(s) - 1 - 1 + 1 ELSE 0
      /\ \A i \in 1 .. Len(s) - 1 - 1 + 1 : SubSeq(s, 1, Len(s) - 1)[i] = s[1 + i - 1]
  BY <1>1, SubSeqListed
<1>4. Len(SubSeq(s, 1, Len(s) - 1)) = Len(s) - 1
  <2>1. PICK n \in Nat : n = Len(s) /\ n # 0
    BY <1>1
  <2>2. (IF 1 <= n - 1 THEN n - 1 - 1 + 1 ELSE 0) = n - 1
    BY <2>1
  <2> QED BY <1>3, <2>1, <2>2
<1>5. \A i \in 1 .. Len(s) - 1 : SubSeq(s, 1, Len(s) - 1)[i] = s[i]
  <2> TAKE i \in 1 .. Len(s) - 1
  <2>1. i \in 1 .. Len(s) - 1 - 1 + 1 /\ 1 + i - 1 = i
    BY <1>1
  <2> QED BY <1>3, <2>1
<1> QED BY <1>2, <1>3, <1>4, <1>5

LEMMA OneListed ==
    ASSUME NEW e
    PROVE  IsList(<<e>>) /\ Len(<<e>>) = 1 /\ ToSet(<<e>>) = {e}
<1>1. <<e>> \in Seq({e})
  OBVIOUS
<1>2. IsList(<<e>>)
  BY <1>1, Listed
<1> QED BY <1>2 DEF ToSet

LEMMA ControlAdded ==
    ASSUME NEW units, IsList(units), NEW c
    PROVE  IsList(WithControl(units, c))
BY FrontListed, AppendListed DEF WithControl

(* The units, one control after the other.                                 *)
LEMMA UnitsMade ==
    ASSUME NEW controls, IsList(controls)
    PROVE  \E units : /\ units[0] = <<>> /\ ControlUnits(controls) = units[Len(controls)]
                      /\ \A i \in 1 .. Len(controls) : units[i] = WithControl(units[i - 1], controls[i])
<1> DEFINE n == Len(controls)
           Made(k, f) == f = [i \in 0 .. k |-> IF i = 0 THEN <<>> ELSE WithControl(f[i - 1], controls[i])]
<1>1. n \in Nat
  BY ListFacts
<1>2. \E f : Made(n, f)
  <2> DEFINE S == {k \in 0 .. n : \E f : Made(k, f)}
  <2>1. 0 \in S
    <3>1. PICK f : f = [i \in 0 .. 0 |-> <<>>]
      OBVIOUS
    <3>2. Made(0, f)
      BY <3>1
    <3> HIDE DEF Made
    <3> QED BY <1>1, <3>2
  <2>2. ASSUME NEW i \in 1 .. n, \A j \in 0 .. i - 1 : j \in S
        PROVE  i \in S
    <3>1. PICK f : Made(i - 1, f)
      BY <2>2
    <3>2. PICK g : g = [j \in 0 .. i |-> IF j = i THEN WithControl(f[i - 1], controls[i]) ELSE f[j]]
      OBVIOUS
    <3>3. Made(i, g)
      BY <3>1, <3>2
    <3> HIDE DEF Made
    <3> QED BY <3>3
  <2> HIDE DEF S
  <2>3. \A i \in 0 .. n : i \in S
    BY <1>1, <2>1, <2>2, UpTo
  <2> HIDE DEF Made
  <2> QED BY <1>1, <2>3 DEF S
<1> DEFINE units == CHOOSE f : Made(n, f)
<1>3. Made(n, units)
  BY <1>2
<1>4. ControlUnits(controls) = units[n]
  BY DEF ControlUnits
<1> HIDE DEF units
<1>5. units[0] = <<>> /\ \A i \in 1 .. n : units[i] = WithControl(units[i - 1], controls[i])
  BY <1>1, <1>3
<1> QED BY <1>4, <1>5

LEMMA UnitsListed ==
    ASSUME NEW controls, IsList(controls)
    PROVE  IsList(ControlUnits(controls))
<1>1. PICK units : /\ units[0] = <<>> /\ ControlUnits(controls) = units[Len(controls)]
                   /\ \A i \in 1 .. Len(controls) : units[i] = WithControl(units[i - 1], controls[i])
  BY UnitsMade
<1>2. PICK n \in Nat : n = Len(controls)
  BY ListFacts
<1> DEFINE S == {j \in 0 .. n : IsList(units[j])}
<1>3. 0 \in S
  BY <1>1, <1>2, EmptyListed
<1>4. ASSUME NEW i \in 1 .. n, \A j \in 0 .. i - 1 : j \in S
      PROVE  i \in S
  <2>1. units[i] = WithControl(units[i - 1], controls[i])
    BY <1>1, <1>2
  <2> QED BY <1>4, <2>1, ControlAdded
<1> HIDE DEF S
<1>5. n \in S
  <2>1. \A i \in 0 .. n : i \in S
    BY <1>2, <1>3, <1>4, UpTo
  <2> QED BY <1>2, <2>1
<1> QED BY <1>1, <1>2, <1>5 DEF S

LEMMA UnitAdded ==
    ASSUME NEW chunks, IsList(chunks), NEW unit, NEW size
    PROVE  IsList(WithUnit(chunks, unit, size))
BY FrontListed, AppendListed DEF WithUnit

(* The chunks of a group, one unit after the other.                        *)
LEMMA PackedMade ==
    ASSUME NEW units, IsList(units), NEW group, NEW size
    PROVE  \E chunks : /\ chunks[0] = <<>> /\ Packed(units, group, size) = chunks[Len(units)]
                       /\ \A i \in 1 .. Len(units) :
                             chunks[i] = IF units[i][1].group # group THEN chunks[i - 1]
                                         ELSE WithUnit(chunks[i - 1], units[i], size)
<1> DEFINE n == Len(units)
           Made(k, f) == f = [i \in 0 .. k |->
                                 IF i = 0 THEN <<>>
                                 ELSE IF units[i][1].group # group THEN f[i - 1]
                                 ELSE WithUnit(f[i - 1], units[i], size)]
<1>1. n \in Nat
  BY ListFacts
<1>2. \E f : Made(n, f)
  <2> DEFINE S == {k \in 0 .. n : \E f : Made(k, f)}
  <2>1. 0 \in S
    <3>1. PICK f : f = [i \in 0 .. 0 |-> <<>>]
      OBVIOUS
    <3>2. Made(0, f)
      BY <3>1
    <3> HIDE DEF Made
    <3> QED BY <1>1, <3>2
  <2>2. ASSUME NEW i \in 1 .. n, \A j \in 0 .. i - 1 : j \in S
        PROVE  i \in S
    <3>1. PICK f : Made(i - 1, f)
      BY <2>2
    <3>2. PICK g : g = [j \in 0 .. i |->
                           IF j # i THEN f[j]
                           ELSE IF units[i][1].group # group THEN f[i - 1]
                           ELSE WithUnit(f[i - 1], units[i], size)]
      OBVIOUS
    <3>3. Made(i, g)
      BY <3>1, <3>2
    <3> HIDE DEF Made
    <3> QED BY <3>3
  <2> HIDE DEF S
  <2>3. \A i \in 0 .. n : i \in S
    BY <1>1, <2>1, <2>2, UpTo
  <2> HIDE DEF Made
  <2> QED BY <1>1, <2>3 DEF S
<1> DEFINE chunks == CHOOSE f : Made(n, f)
<1>3. Made(n, chunks)
  BY <1>2
<1>4. Packed(units, group, size) = chunks[n]
  BY DEF Packed
<1> HIDE DEF chunks
<1>5. chunks[0] = <<>> /\ \A i \in 1 .. n :
                              chunks[i] = IF units[i][1].group # group THEN chunks[i - 1]
                                          ELSE WithUnit(chunks[i - 1], units[i], size)
  BY <1>1, <1>3
<1> QED BY <1>4, <1>5

LEMMA PackedListed ==
    ASSUME NEW units, IsList(units), NEW group, NEW size
    PROVE  IsList(Packed(units, group, size))
<1>1. PICK chunks : /\ chunks[0] = <<>> /\ Packed(units, group, size) = chunks[Len(units)]
                    /\ \A i \in 1 .. Len(units) :
                          chunks[i] = IF units[i][1].group # group THEN chunks[i - 1]
                                      ELSE WithUnit(chunks[i - 1], units[i], size)
  BY PackedMade
<1>2. PICK n \in Nat : n = Len(units)
  BY ListFacts
<1> DEFINE S == {j \in 0 .. n : IsList(chunks[j])}
<1>3. 0 \in S
  BY <1>1, <1>2, EmptyListed
<1>4. ASSUME NEW i \in 1 .. n, \A j \in 0 .. i - 1 : j \in S
      PROVE  i \in S
  <2>1. chunks[i] = chunks[i - 1] \/ chunks[i] = WithUnit(chunks[i - 1], units[i], size)
    BY <1>1, <1>2
  <2> QED BY <1>4, <2>1, UnitAdded
<1> HIDE DEF S
<1>5. n \in S
  <2>1. \A i \in 0 .. n : i \in S
    BY <1>2, <1>3, <1>4, UpTo
  <2> QED BY <1>2, <2>1
<1> QED BY <1>1, <1>2, <1>5 DEF S

(* The entries a place of the root stands for: none of them opens a level. *)
Offers(section) == IsList(section) /\ \A e \in ToSet(section) : e.kind # "level"

LEMMA SectionsOffer ==
    ASSUME NEW controls, IsList(controls)
    PROVE  /\ IsList(DeclarationSections(controls))
           /\ \A i \in 1 .. Len(DeclarationSections(controls)) : Offers(DeclarationSections(controls)[i])
<1>1. PICK units : units = ControlUnits(controls)
  OBVIOUS
<1>2. IsList(units) /\ Len(units) \in Nat /\ DOMAIN units = 1 .. Len(units)
  BY <1>1, UnitsListed, ListFacts
<1>3. \A c : Offers(<<ControlEntry(c)>>)
  BY OneListed DEF Offers, ControlEntry, Entry
<1>4. \A unit : Offers(SearchSection(unit))
  BY OneListed DEF Offers, SearchSection, Entry
<1>5. Offers(<<>>)
  BY EmptyListed DEF Offers, ToSet
<1>6. ASSUME NEW group
      PROVE  Offers(GroupSection(units, group))
  <2>1. PICK chunks : chunks = Packed(units, group, MaxModalComponents)
    OBVIOUS
  <2>2. IsList(chunks) /\ Len(chunks) \in Nat /\ DOMAIN chunks = 1 .. Len(chunks)
    BY <1>2, <2>1, PackedListed, ListFacts
  <2>3. PICK section : section = GroupSection(units, group)
    OBVIOUS
  <2>4. section = [i \in 1 .. Len(chunks) |-> Entry("group", group \o "#" \o ToString(i), chunks[i])]
    BY <2>1, <2>2, <2>3 DEF GroupSection
  <2>5. IsList(section) /\ Len(section) = Len(chunks)
    BY <2>2, <2>4, FunctionListed
  <2>6. \A i \in 1 .. Len(chunks) : section[i].kind = "group"
    BY <2>4 DEF Entry
  <2> QED BY <2>3, <2>5, <2>6, ListFacts DEF Offers
<1>7. PICK sections : sections = DeclarationSections(controls)
  OBVIOUS
<1>8. /\ sections = [i \in 1 .. Len(units) |-> sections[i]]
      /\ \A i \in 1 .. Len(units) :
            \/ \E c : sections[i] = <<ControlEntry(c)>>
            \/ \E unit : sections[i] = SearchSection(unit)
            \/ \E group : sections[i] = GroupSection(units, group)
            \/ sections[i] = <<>>
  BY <1>1, <1>2, <1>7 DEF DeclarationSections
<1>9. IsList(sections) /\ Len(sections) = Len(units)
  BY <1>2, <1>8, FunctionListed
<1> QED BY <1>3, <1>4, <1>5, <1>6, <1>7, <1>8, <1>9

(* A list of lists laid end to end, one after the other.                   *)
LEMMA FlattenMade ==
    ASSUME NEW parts, IsList(parts), parts # <<>>
    PROVE  \E flat : /\ FlattenSeq(parts) = flat[Len(parts)] /\ flat[1] = parts[1]
                     /\ \A i \in 2 .. Len(parts) : flat[i] = flat[i - 1] \o parts[i]
<1> DEFINE n == Len(parts)
           Made(k, f) == f = [i \in 1 .. k |-> IF i = 1 THEN parts[i] ELSE f[i - 1] \o parts[i]]
<1>1. n \in Nat /\ n # 0
  BY ListFacts
<1>2. \E f : Made(n, f)
  <2> DEFINE S == {k \in 0 .. n : \E f : Made(k, f)}
  <2>1. 0 \in S
    <3>1. PICK f : f = [i \in 1 .. 0 |-> <<>>]
      OBVIOUS
    <3>2. Made(0, f)
      BY <3>1
    <3> HIDE DEF Made
    <3> QED BY <1>1, <3>2
  <2>2. ASSUME NEW i \in 1 .. n, \A j \in 0 .. i - 1 : j \in S
        PROVE  i \in S
    <3>1. i - 1 \in S
      <4> HIDE DEF S
      <4> QED BY <2>2
    <3>2. PICK f : Made(i - 1, f)
      <4> HIDE DEF Made
      <4> QED BY <3>1
    <3>3. PICK g : g = [j \in 1 .. i |->
                           IF j = i THEN IF i = 1 THEN parts[i] ELSE f[i - 1] \o parts[i] ELSE f[j]]
      OBVIOUS
    <3>4. g = [j \in 1 .. i |-> IF j = 1 THEN parts[j] ELSE g[j - 1] \o parts[j]]
      <4>1. f = [j \in 1 .. i - 1 |-> IF j = 1 THEN parts[j] ELSE f[j - 1] \o parts[j]]
        BY <3>2
      <4>2. ASSUME NEW j \in 1 .. i
            PROVE  g[j] = IF j = 1 THEN parts[j] ELSE g[j - 1] \o parts[j]
        <5>1. CASE j = i
          BY <3>3, <5>1
        <5>2. CASE j # i
          <6>1. j \in 1 .. i - 1 /\ g[j] = f[j]
            BY <3>3, <5>2
          <6>2. j # 1 => j - 1 \in 1 .. i - 1 /\ g[j - 1] = f[j - 1]
            BY <3>3, <6>1
          <6> QED BY <4>1, <6>1, <6>2
        <5> QED BY <5>1, <5>2
      <4> QED BY <3>3, <4>2
    <3>5. Made(i, g)
      BY <3>4
    <3> HIDE DEF Made
    <3> QED BY <3>5
  <2>3. n \in S
    <3> HIDE DEF S
    <3>1. \A i \in 0 .. n : i \in S
      BY <1>1, <2>1, <2>2, UpTo
    <3> QED BY <1>1, <3>1
  <2> HIDE DEF Made
  <2> QED BY <2>3
<1> DEFINE flat == CHOOSE f : Made(n, f)
<1>3. Made(n, flat)
  BY <1>2
<1>4. FlattenSeq(parts) = flat[n]
  BY <1>1 DEF FlattenSeq
<1> HIDE DEF flat
<1>5. flat[1] = parts[1] /\ \A i \in 2 .. n : flat[i] = flat[i - 1] \o parts[i]
  <2>1. PICK m \in Nat : m = n /\ m # 0
    BY <1>1
  <2>2. flat = [i \in 1 .. m |-> IF i = 1 THEN parts[i] ELSE flat[i - 1] \o parts[i]]
    BY <1>3, <2>1
  <2>3. ASSUME NEW i \in 2 .. m PROVE flat[i] = flat[i - 1] \o parts[i]
    <3>1. i \in 1 .. m /\ i # 1
      BY <2>1
    <3> QED BY <2>2, <3>1
  <2>4. 1 \in 1 .. m
    BY <2>1
  <2> QED BY <2>1, <2>2, <2>3, <2>4
<1> QED BY <1>4, <1>5

(* A list of lists, laid end to end, is a list of what they hold.          *)
LEMMA FlattenHolds ==
    ASSUME NEW parts, IsList(parts), \A i \in 1 .. Len(parts) : IsList(parts[i])
    PROVE  /\ IsList(FlattenSeq(parts))
           /\ ToSet(FlattenSeq(parts)) = UNION {ToSet(parts[i]) : i \in 1 .. Len(parts)}
<1>1. CASE parts = <<>>
  <2>1. FlattenSeq(parts) = <<>> /\ Len(parts) = 0
    BY <1>1, EmptyListed DEF FlattenSeq
  <2> QED BY <2>1, EmptyListed DEF ToSet
<1>2. CASE parts # <<>>
  <2>1. PICK flat : /\ FlattenSeq(parts) = flat[Len(parts)] /\ flat[1] = parts[1]
                    /\ \A i \in 2 .. Len(parts) : flat[i] = flat[i - 1] \o parts[i]
    BY <1>2, FlattenMade
  <2>2. PICK n \in Nat : n = Len(parts) /\ n # 0
    BY <1>2, ListFacts
  <2> DEFINE Parts(i) == UNION {ToSet(parts[j]) : j \in 1 .. i}
             S == {j \in 0 .. n : j = 0 \/ (IsList(flat[j]) /\ ToSet(flat[j]) = Parts(j))}
  <2>3. 0 \in S
    BY <2>2
  <2>4. ASSUME NEW i \in 1 .. n, \A j \in 0 .. i - 1 : j \in S
        PROVE  i \in S
    <3>1. CASE i = 1
      <4>1. flat[i] = parts[i] /\ IsList(parts[i])
        BY <2>1, <2>2, <3>1
      <4>2. ToSet(parts[i]) = Parts(i)
        BY <3>1
      <4> QED BY <4>1, <4>2
    <3>2. CASE i # 1
      <4>1. i - 1 \in S /\ i - 1 # 0
        <5> HIDE DEF S
        <5> QED BY <2>4, <3>2
      <4>2. PICK a, b : a = flat[i - 1] /\ b = parts[i]
        OBVIOUS
      <4>3. IsList(a) /\ ToSet(a) = Parts(i - 1)
        BY <4>1, <4>2
      <4>4. IsList(b) /\ flat[i] = a \o b
        <5>1. i \in 2 .. Len(parts) /\ i \in 1 .. Len(parts)
          BY <2>2, <3>2
        <5> QED BY <2>1, <4>2, <5>1
      <4>5. IsList(a \o b) /\ ToSet(a \o b) = ToSet(a) \cup ToSet(b)
        BY <4>3, <4>4, ConcatListed, ConcatSet
      <4>6. Parts(i) = Parts(i - 1) \cup ToSet(parts[i])
        <5>1. \A j : j \in 1 .. i <=> j \in 1 .. i - 1 \/ j = i
          OBVIOUS
        <5> QED BY <5>1
      <4>7. IsList(flat[i]) /\ ToSet(flat[i]) = Parts(i)
        BY <4>2, <4>3, <4>4, <4>5, <4>6
      <4> HIDE DEF Parts
      <4> QED BY <4>7
    <3> QED BY <3>1, <3>2
  <2>5. n \in S
    <3> HIDE DEF S
    <3>1. \A i \in 0 .. n : i \in S
      BY <2>2, <2>3, <2>4, UpTo
    <3> QED BY <2>2, <3>1
  <2> QED BY <2>1, <2>2, <2>5
<1> QED BY <1>1, <1>2

LEMMA FlattenListed ==
    ASSUME NEW parts, IsList(parts), \A i \in 1 .. Len(parts) : IsList(parts[i])
    PROVE  /\ IsList(FlattenSeq(parts))
           /\ \A e \in ToSet(FlattenSeq(parts)) : \E i \in 1 .. Len(parts) : e \in ToSet(parts[i])
BY FlattenHolds

-------------------------------------------------------------------------------
(* Levels made one after the other: each holds a list of at most ten, and  *)
(* what opens a level opens one made before.                               *)
LeadsUp(fields, levels, n) ==
    \A e \in ToSet(fields) : e.kind = "level" => \E j \in 1 .. n : levels[j].key = e.key

LevelsSound(levels) ==
    /\ IsList(levels)
    /\ \A i \in 1 .. Len(levels) :
          /\ IsList(levels[i].fields) /\ Len(levels[i].fields) <= MaxLevelEntries
          /\ LeadsUp(levels[i].fields, levels, i - 1)

Above(fields, levels) == IsList(fields) /\ LevelsSound(levels) /\ LeadsUp(fields, levels, Len(levels))

(* More levels take none away.                                             *)
Longer(levels, more) ==
    /\ LevelsSound(more) /\ Len(levels) <= Len(more)
    /\ \A i \in 1 .. Len(levels) : more[i] = levels[i]

LEMMA LongerAbove ==
    ASSUME NEW fields, NEW levels, NEW more, Above(fields, levels), Longer(levels, more)
    PROVE  Above(fields, more)
<1>1. Len(levels) \in Nat /\ Len(more) \in Nat /\ Len(levels) <= Len(more)
  BY ListFacts DEF Above, LevelsSound, Longer
<1>2. LeadsUp(fields, more, Len(more))
  <2> SUFFICES ASSUME NEW e \in ToSet(fields), e.kind = "level"
               PROVE  \E j \in 1 .. Len(more) : more[j].key = e.key
    BY DEF LeadsUp
  <2>1. PICK j \in 1 .. Len(levels) : levels[j].key = e.key
    BY DEF Above, LeadsUp
  <2>2. more[j] = levels[j] /\ j \in 1 .. Len(more)
    BY <1>1 DEF Longer
  <2> QED BY <2>1, <2>2
<1> QED BY <1>2 DEF Above, Longer

LEMMA NewLevelAbove ==
    ASSUME NEW inner, Above(inner.fields, inner.levels), Len(inner.fields) <= MaxLevelEntries
    PROVE  /\ Longer(inner.levels, NewLevel(inner).levels)
           /\ NewLevel(inner).entry.kind = "level"
           /\ \E j \in 1 .. Len(NewLevel(inner).levels) :
                 NewLevel(inner).levels[j].key = NewLevel(inner).entry.key
<1>1. PICK key : key = "level#" \o ToString(Len(inner.levels) + 1)
  OBVIOUS
<1>2. PICK old : old = inner.levels
  OBVIOUS
<1>3. PICK made : made = [key |-> key, fields |-> inner.fields]
  OBVIOUS
<1>4. PICK more : more = Append(old, made)
  OBVIOUS
<1>5. NewLevel(inner).levels = more /\ NewLevel(inner).entry = Entry("level", key, <<>>)
  BY <1>1, <1>2, <1>3, <1>4 DEF NewLevel
<1>6. LevelsSound(old) /\ IsList(old) /\ Len(old) \in Nat
  BY <1>2, ListFacts DEF Above, LevelsSound
<1>7. /\ IsList(more) /\ Len(more) = Len(old) + 1
      /\ \A i \in 1 .. Len(old) : more[i] = old[i]
      /\ more[Len(old) + 1] = made
  BY <1>4, <1>6, AppendListed
<1>8. ASSUME NEW fields, NEW i \in 1 .. Len(old) + 1, LeadsUp(fields, old, i - 1)
      PROVE  LeadsUp(fields, more, i - 1)
  BY <1>6, <1>7, <1>8 DEF LeadsUp
<1>9. ASSUME NEW i \in 1 .. Len(more)
      PROVE  /\ IsList(more[i].fields) /\ Len(more[i].fields) <= MaxLevelEntries
             /\ LeadsUp(more[i].fields, more, i - 1)
  <2>1. CASE i = Len(old) + 1
    <3>1. more[i].fields = inner.fields /\ LeadsUp(inner.fields, old, i - 1)
      BY <1>2, <1>3, <1>6, <1>7, <2>1 DEF Above
    <3> QED BY <1>6, <1>7, <1>8, <2>1, <3>1 DEF Above
  <2>2. CASE i # Len(old) + 1
    <3>1. i \in 1 .. Len(old) /\ more[i] = old[i]
      BY <1>6, <1>7, <2>2
    <3>2. /\ IsList(old[i].fields) /\ Len(old[i].fields) <= MaxLevelEntries
          /\ LeadsUp(old[i].fields, old, i - 1)
      BY <1>6, <3>1 DEF LevelsSound
    <3> QED BY <1>6, <1>7, <1>8, <3>1, <3>2
  <2> QED BY <2>1, <2>2
<1>10. LevelsSound(more)
  BY <1>7, <1>9 DEF LevelsSound
<1>11. more[Len(more)].key = key /\ Len(more) \in 1 .. Len(more)
  BY <1>3, <1>6, <1>7
<1> QED BY <1>2, <1>5, <1>6, <1>7, <1>10, <1>11 DEF Longer, Entry

LEMMA LongerTwice ==
    ASSUME NEW levels, NEW more, NEW most, IsList(levels), Longer(levels, more), Longer(more, most)
    PROVE  Longer(levels, most)
<1>1. Len(levels) \in Nat /\ Len(more) \in Nat /\ Len(most) \in Nat
  BY ListFacts DEF Longer, LevelsSound
<1>2. ASSUME NEW i \in 1 .. Len(levels) PROVE most[i] = levels[i]
  <2>1. i \in 1 .. Len(more)
    BY <1>1 DEF Longer
  <2> QED BY <2>1 DEF Longer
<1> QED BY <1>1, <1>2 DEF Longer

(* A list and one way more.                                                *)
LEMMA WayAdded ==
    ASSUME NEW fields, NEW levels, NEW entry, Above(fields, levels),
           \E j \in 1 .. Len(levels) : levels[j].key = entry.key
    PROVE  Above(Append(fields, entry), levels)
<1>1. PICK s : s = Append(fields, entry)
  OBVIOUS
<1>2. /\ IsList(s) /\ Len(s) = Len(fields) + 1 /\ Len(fields) \in Nat
      /\ \A i \in 1 .. Len(fields) : s[i] = fields[i]
      /\ s[Len(fields) + 1] = entry
  BY <1>1, AppendListed, ListFacts DEF Above
<1>3. ASSUME NEW e \in ToSet(s) PROVE e = entry \/ e \in ToSet(fields)
  <2>1. PICK i \in 1 .. Len(s) : s[i] = e
    BY <1>2, ListFacts
  <2>2. i = Len(fields) + 1 \/ i \in 1 .. Len(fields)
    BY <1>2
  <2> QED BY <1>2, <2>1, <2>2, ListFacts DEF Above
<1>4. LeadsUp(s, levels, Len(levels))
  BY <1>3 DEF Above, LeadsUp
<1> QED BY <1>1, <1>2, <1>4 DEF Above

LEMMA PartAbove ==
    ASSUME NEW fields, NEW levels, Above(fields, levels), NEW m \in Int, NEW n \in Int,
           m >= 1, n <= Len(fields)
    PROVE  /\ Above(SubSeq(fields, m, n), levels)
           /\ Len(SubSeq(fields, m, n)) = IF m <= n THEN n - m + 1 ELSE 0
<1>1. PICK s : s = SubSeq(fields, m, n)
  OBVIOUS
<1>2. /\ IsList(s) /\ Len(s) = IF m <= n THEN n - m + 1 ELSE 0
      /\ \A i \in 1 .. n - m + 1 : s[i] = fields[m + i - 1]
  BY <1>1, SubSeqListed DEF Above
<1>3. ASSUME NEW e \in ToSet(s) PROVE e \in ToSet(fields)
  <2>1. PICK i \in 1 .. Len(s) : s[i] = e
    BY <1>2, ListFacts
  <2>2. m <= n /\ i \in 1 .. n - m + 1
    BY <1>2, <2>1
  <2>3. fields[m + i - 1] = e
    BY <1>2, <2>1, <2>2
  <2>4. Len(fields) \in Nat
    BY ListFacts DEF Above
  <2>5. m + i - 1 \in 1 .. Len(fields)
    BY <2>2, <2>4
  <2> QED BY <2>3, <2>5, ListFacts DEF Above
<1> QED BY <1>1, <1>2, <1>3 DEF Above, LeadsUp

(* A page: the last i entries, or the first of them and a way to the rest. *)
ShortPage(entries, levels, i) ==
    [fields |-> SubSeq(entries, Len(entries) - i + 1, Len(entries)), levels |-> levels]
LongPage(entries, i, inner) ==
    [fields |-> Append(SubSeq(entries, Len(entries) - i + 1, Len(entries) - i + (MaxLevelEntries - 1)),
                       NewLevel(inner).entry),
     levels |-> NewLevel(inner).levels]

LEMMA PagedMade ==
    ASSUME NEW entries, IsList(entries), NEW levels
    PROVE  \E paged : /\ Paged(entries, levels) = paged[Len(entries)]
                      /\ \A i \in 0 .. Len(entries) :
                            paged[i] = IF i <= MaxLevelEntries THEN ShortPage(entries, levels, i)
                                       ELSE LongPage(entries, i, paged[i - (MaxLevelEntries - 1)])
<1> DEFINE n == Len(entries)
           Page(i, inner) == IF i <= MaxLevelEntries THEN ShortPage(entries, levels, i)
                             ELSE LongPage(entries, i, inner)
           Made(k, f) == f = [i \in 0 .. k |-> Page(i, f[i - (MaxLevelEntries - 1)])]
<1>1. n \in Nat
  BY ListFacts
<1>2. \E f : Made(n, f)
  <2> DEFINE S == {k \in 0 .. n : \E f : Made(k, f)}
  <2>1. 0 \in S
    <3>1. PICK f : f = [i \in 0 .. 0 |-> ShortPage(entries, levels, 0)]
      OBVIOUS
    <3>2. Made(0, f)
      BY <3>1 DEF MaxLevelEntries
    <3> HIDE DEF Made
    <3> QED BY <1>1, <3>2
  <2>2. ASSUME NEW i \in 1 .. n, \A j \in 0 .. i - 1 : j \in S
        PROVE  i \in S
    <3>1. PICK f : Made(i - 1, f)
      BY <2>2
    <3>2. PICK last : last = Page(i, f[i - (MaxLevelEntries - 1)])
      OBVIOUS
    <3>3. PICK g : g = [j \in 0 .. i |-> IF j = i THEN last ELSE f[j]]
      OBVIOUS
    <3>4. ASSUME NEW j \in 0 .. i PROVE g[j] = Page(j, g[j - (MaxLevelEntries - 1)])
      <4>1. CASE j <= MaxLevelEntries
        BY <3>1, <3>2, <3>3, <4>1
      <4>2. CASE ~(j <= MaxLevelEntries)
        <5>1. g[j - (MaxLevelEntries - 1)] = f[j - (MaxLevelEntries - 1)]
          BY <3>3, <4>2 DEF MaxLevelEntries
        <5> QED BY <3>1, <3>2, <3>3, <5>1
      <4> QED BY <4>1, <4>2 DEF MaxLevelEntries
    <3>5. Made(i, g)
      <4> HIDE DEF Page
      <4> QED BY <3>3, <3>4
    <3> HIDE DEF Made
    <3> QED BY <3>5
  <2>3. n \in S
    <3> HIDE DEF S
    <3>1. \A i \in 0 .. n : i \in S
      BY <1>1, <2>1, <2>2, UpTo
    <3> QED BY <1>1, <3>1
  <2> HIDE DEF Made
  <2> QED BY <2>3
<1> DEFINE paged == CHOOSE f : Made(n, f)
<1>3. Made(n, paged)
  BY <1>2
<1>4. Paged(entries, levels) = paged[n]
  BY DEF Paged, ShortPage, LongPage
<1> HIDE DEF paged
<1>5. \A i \in 0 .. n : paged[i] = Page(i, paged[i - (MaxLevelEntries - 1)])
  <2> HIDE DEF Page
  <2> QED BY <1>3
<1> QED BY <1>4, <1>5

LEMMA PagedAbove ==
    ASSUME NEW entries, NEW levels, Above(entries, levels)
    PROVE  /\ Above(Paged(entries, levels).fields, Paged(entries, levels).levels)
           /\ Len(Paged(entries, levels).fields) <= MaxLevelEntries
           /\ Longer(levels, Paged(entries, levels).levels)
<1> DEFINE n == Len(entries)
<1>1. n \in Nat /\ IsList(entries)
  BY ListFacts DEF Above
<1>2. PICK paged : /\ Paged(entries, levels) = paged[n]
                   /\ \A i \in 0 .. n :
                         paged[i] = IF i <= MaxLevelEntries THEN ShortPage(entries, levels, i)
                                    ELSE LongPage(entries, i, paged[i - (MaxLevelEntries - 1)])
  BY <1>1, PagedMade
<1> DEFINE Good(p) == /\ Above(p.fields, p.levels) /\ Len(p.fields) <= MaxLevelEntries
                      /\ Longer(levels, p.levels)
           S == {i \in 0 .. n : Good(paged[i])}
<1>3. LevelsSound(levels) /\ Longer(levels, levels) /\ IsList(levels)
  BY ListFacts DEF Above, LevelsSound, Longer
<1>4. ASSUME NEW i \in 0 .. n, i <= MaxLevelEntries
      PROVE  i \in S
  <2>1. paged[i] = ShortPage(entries, levels, i)
    BY <1>2, <1>4
  <2>2. Above(SubSeq(entries, n - i + 1, n), levels) /\ Len(SubSeq(entries, n - i + 1, n)) <= MaxLevelEntries
    <3>1. n - i + 1 \in Int /\ n - i + 1 >= 1 /\ n \in Int /\ n <= Len(entries)
      BY <1>1
    <3>2. /\ Above(SubSeq(entries, n - i + 1, n), levels)
          /\ Len(SubSeq(entries, n - i + 1, n)) = IF n - i + 1 <= n THEN n - (n - i + 1) + 1 ELSE 0
      <4> HIDE DEF n
      <4> QED BY <3>1, PartAbove
    <3>3. (IF n - i + 1 <= n THEN n - (n - i + 1) + 1 ELSE 0) = i
      <4> HIDE DEF n
      <4> QED BY <1>1
    <3> QED BY <1>4, <3>2, <3>3
  <2>3. paged[i].fields = SubSeq(entries, n - i + 1, n) /\ paged[i].levels = levels
    <3>1. PICK part : part = SubSeq(entries, n - i + 1, n)
      OBVIOUS
    <3>2. PICK made : made = paged[i]
      OBVIOUS
    <3>3. made = [fields |-> part, levels |-> levels]
      BY <2>1, <3>1, <3>2 DEF ShortPage
    <3>4. made.fields = part /\ made.levels = levels
      <4> HIDE DEF n
      <4> QED BY <3>3
    <3> HIDE DEF n
    <3> QED BY <3>1, <3>2, <3>4
  <2> HIDE DEF n
  <2> QED BY <1>3, <2>2, <2>3
<1>5. ASSUME NEW i \in 1 .. n, ~(i <= MaxLevelEntries), i - (MaxLevelEntries - 1) \in S
      PROVE  i \in S
  <2>1. PICK inner : inner = paged[i - (MaxLevelEntries - 1)]
    OBVIOUS
  <2>2. paged[i] = LongPage(entries, i, inner)
    <3>1. i \in 0 .. n
      BY <1>1
    <3> QED BY <1>2, <1>5, <2>1, <3>1
  <2>3. Good(inner)
    BY <1>5, <2>1
  <2>4. PICK more, entry : more = NewLevel(inner).levels /\ entry = NewLevel(inner).entry
    OBVIOUS
  <2>5. /\ Longer(inner.levels, more)
        /\ \E j \in 1 .. Len(more) : more[j].key = entry.key
    BY <2>3, <2>4, NewLevelAbove
  <2>6. Longer(levels, more)
    BY <1>3, <2>3, <2>5, LongerTwice
  <2>7. PICK kept : kept = SubSeq(entries, n - i + 1, n - i + (MaxLevelEntries - 1))
    OBVIOUS
  <2>8. Above(kept, levels) /\ Len(kept) = MaxLevelEntries - 1
    <3>1. PICK a, b : a = n - i + 1 /\ b = n - i + (MaxLevelEntries - 1)
      OBVIOUS
    <3>2. a \in Int /\ b \in Int /\ a >= 1 /\ b <= Len(entries) /\ a <= b /\ b - a + 1 = MaxLevelEntries - 1
      BY <1>1, <1>5, <3>1 DEF MaxLevelEntries
    <3>3. kept = SubSeq(entries, a, b)
      BY <2>7, <3>1
    <3>4. Above(SubSeq(entries, a, b), levels) /\ Len(SubSeq(entries, a, b)) = b - a + 1
      BY <3>2, PartAbove
    <3> QED BY <3>2, <3>3, <3>4
  <2>9. Above(kept, more)
    BY <2>6, <2>8, LongerAbove
  <2>10. Above(Append(kept, entry), more) /\ Len(Append(kept, entry)) = MaxLevelEntries
    <3>1. Len(Append(kept, entry)) = MaxLevelEntries - 1 + 1
      BY <2>8, AppendListed DEF Above
    <3> QED BY <2>5, <2>9, <3>1, WayAdded DEF MaxLevelEntries
  <2>11. paged[i] = [fields |-> Append(kept, entry), levels |-> more]
    BY <2>2, <2>4, <2>7 DEF LongPage
  <2>12. paged[i].fields = Append(kept, entry) /\ paged[i].levels = more
    BY <2>11
  <2>13. PICK p : p = paged[i]
    OBVIOUS
  <2>14. Good(p)
    <3>1. p.fields = Append(kept, entry) /\ p.levels = more
      BY <2>12, <2>13
    <3>2. Above(p.fields, p.levels) /\ Len(p.fields) = MaxLevelEntries /\ Longer(levels, p.levels)
      BY <2>6, <2>10, <3>1
    <3> QED BY <3>2 DEF MaxLevelEntries
  <2> HIDE DEF Good
  <2> QED BY <2>13, <2>14
<1>6. n \in S
  <2>1. 0 \in S
    BY <1>1, <1>4 DEF MaxLevelEntries
  <2> HIDE DEF S
  <2>2. ASSUME NEW i \in 1 .. n, \A j \in 0 .. i - 1 : j \in S
        PROVE  i \in S
    <3>1. CASE i <= MaxLevelEntries
      BY <1>1, <1>4, <3>1
    <3>2. CASE ~(i <= MaxLevelEntries)
      <4>1. i - (MaxLevelEntries - 1) \in 0 .. i - 1
        BY <3>2 DEF MaxLevelEntries
      <4> QED BY <1>5, <2>2, <3>2, <4>1
    <3> QED BY <3>1, <3>2
  <2>3. \A i \in 0 .. n : i \in S
    BY <1>1, <2>1, <2>2, UpTo
  <2> QED BY <1>1, <2>3
<1> QED BY <1>2, <1>6

LEMMA OffersAbove ==
    ASSUME NEW section, NEW levels, Offers(section), LevelsSound(levels)
    PROVE  Above(section, levels)
BY DEF Offers, Above, LeadsUp

LEMMA NestedAbove ==
    ASSUME NEW section, NEW levels, Offers(section), LevelsSound(levels)
    PROVE  /\ Longer(levels, NestedLevel(section, levels).levels)
           /\ \E j \in 1 .. Len(NestedLevel(section, levels).levels) :
                 NestedLevel(section, levels).levels[j].key = NestedLevel(section, levels).entry.key
<1>1. Above(section, levels) /\ IsList(levels)
  BY OffersAbove DEF LevelsSound
<1>2. PICK inner : inner = Paged(section, levels)
  OBVIOUS
<1>3. /\ Above(inner.fields, inner.levels) /\ Len(inner.fields) <= MaxLevelEntries
      /\ Longer(levels, inner.levels)
  BY <1>1, <1>2, PagedAbove
<1>4. PICK new : new = NewLevel(inner)
  OBVIOUS
<1>5. /\ Longer(inner.levels, new.levels)
      /\ \E j \in 1 .. Len(new.levels) : new.levels[j].key = new.entry.key
  BY <1>3, <1>4, NewLevelAbove
<1>6. Longer(levels, new.levels)
  BY <1>1, <1>3, <1>5, LongerTwice
<1> QED BY <1>2, <1>4, <1>5, <1>6 DEF NestedLevel

LEMMA SectionAbove ==
    ASSUME NEW folded, folded = [fields |-> folded.fields, levels |-> folded.levels],
           Above(folded.fields, folded.levels), NEW section, Offers(section)
    PROVE  /\ WithSection(folded, section) = [fields |-> WithSection(folded, section).fields,
                                              levels |-> WithSection(folded, section).levels]
           /\ Above(WithSection(folded, section).fields, WithSection(folded, section).levels)
<1>1. PICK fields, levels : fields = folded.fields /\ levels = folded.levels
  OBVIOUS
<1>2. folded = [fields |-> fields, levels |-> levels] /\ Above(fields, levels)
  BY <1>1
<1>3. PICK made : made = WithSection(folded, section)
  OBVIOUS
<1>4. CASE Len(section) <= 1
  <2>1. PICK both : both = fields \o section
    OBVIOUS
  <2>2. made = [fields |-> both, levels |-> levels]
    BY <1>2, <1>3, <1>4, <2>1 DEF WithSection
  <2>3. IsList(both) /\ ToSet(both) = ToSet(fields) \cup ToSet(section)
    BY <1>2, <2>1, ConcatListed, ConcatSet DEF Above, Offers
  <2>4. Above(both, levels)
    BY <1>2, <2>3 DEF Above, Offers, LeadsUp
  <2> QED BY <1>3, <2>2, <2>4
<1>5. CASE ~(Len(section) <= 1)
  <2>1. PICK nested : nested = NestedLevel(section, levels)
    OBVIOUS
  <2>2. PICK more, way, both : /\ more = nested.levels /\ way = nested.entry
                               /\ both = Append(fields, nested.entry)
    OBVIOUS
  <2>3. made = [fields |-> both, levels |-> more]
    BY <1>2, <1>3, <1>5, <2>1, <2>2 DEF WithSection
  <2>4. Longer(levels, more) /\ \E j \in 1 .. Len(more) : more[j].key = way.key
    BY <1>2, <2>1, <2>2, NestedAbove DEF Above
  <2>5. Above(fields, more)
    BY <1>2, <2>4, LongerAbove
  <2>6. Above(both, more)
    BY <2>2, <2>4, <2>5, WayAdded
  <2> QED BY <1>3, <2>3, <2>6
<1> QED BY <1>4, <1>5

(* The root before it is paged, one section after the other.               *)
LEMMA FoldedMade ==
    ASSUME NEW sections, IsList(sections)
    PROVE  \E folded : /\ FoldedEntries(sections) = folded[Len(sections)]
                       /\ folded[0] = [fields |-> <<>>, levels |-> <<>>]
                       /\ \A i \in 1 .. Len(sections) : folded[i] = WithSection(folded[i - 1], sections[i])
<1> DEFINE n == Len(sections)
           Nothing == [fields |-> <<>>, levels |-> <<>>]
           Made(k, f) == f = [i \in 0 .. k |-> IF i = 0 THEN Nothing ELSE WithSection(f[i - 1], sections[i])]
<1>1. n \in Nat
  BY ListFacts
<1>2. \E f : Made(n, f)
  <2> DEFINE S == {k \in 0 .. n : \E f : Made(k, f)}
  <2>1. 0 \in S
    <3>1. PICK f : f = [i \in 0 .. 0 |-> Nothing]
      OBVIOUS
    <3>2. Made(0, f)
      BY <3>1
    <3> HIDE DEF Made
    <3> QED BY <1>1, <3>2
  <2>2. ASSUME NEW i \in 1 .. n, \A j \in 0 .. i - 1 : j \in S
        PROVE  i \in S
    <3>1. i - 1 \in S
      <4> HIDE DEF S
      <4> QED BY <2>2
    <3>2. PICK f : Made(i - 1, f)
      <4> HIDE DEF Made
      <4> QED BY <3>1
    <3>3. PICK g : g = [j \in 0 .. i |-> IF j = i THEN WithSection(f[i - 1], sections[i]) ELSE f[j]]
      OBVIOUS
    <3>4. Made(i, g)
      BY <3>2, <3>3
    <3> HIDE DEF Made
    <3> QED BY <3>4
  <2> HIDE DEF S
  <2>3. \A i \in 0 .. n : i \in S
    BY <1>1, <2>1, <2>2, UpTo
  <2> HIDE DEF Made
  <2> QED BY <1>1, <2>3 DEF S
<1> DEFINE folded == CHOOSE f : Made(n, f)
<1>3. Made(n, folded)
  BY <1>2
<1>4. FoldedEntries(sections) = folded[n]
  BY DEF FoldedEntries
<1> HIDE DEF folded
<1>5. folded[0] = Nothing /\ \A i \in 1 .. n : folded[i] = WithSection(folded[i - 1], sections[i])
  BY <1>1, <1>3
<1> QED BY <1>4, <1>5

LEMMA FoldedAbove ==
    ASSUME NEW sections, IsList(sections), \A i \in 1 .. Len(sections) : Offers(sections[i])
    PROVE  Above(FoldedEntries(sections).fields, FoldedEntries(sections).levels)
<1> DEFINE n == Len(sections)
<1>1. n \in Nat
  BY ListFacts
<1>2. PICK folded : /\ FoldedEntries(sections) = folded[n]
                    /\ folded[0] = [fields |-> <<>>, levels |-> <<>>]
                    /\ \A i \in 1 .. n : folded[i] = WithSection(folded[i - 1], sections[i])
  BY FoldedMade
<1> DEFINE Good(x) == x = [fields |-> x.fields, levels |-> x.levels] /\ Above(x.fields, x.levels)
           S == {j \in 0 .. n : Good(folded[j])}
<1>3. 0 \in S
  <2>1. Above(<<>>, <<>>)
    BY EmptyListed DEF Above, LevelsSound, LeadsUp, ToSet
  <2> QED BY <1>1, <1>2, <2>1
<1>4. ASSUME NEW i \in 1 .. n, \A j \in 0 .. i - 1 : j \in S
      PROVE  i \in S
  <2>1. PICK before, section : before = folded[i - 1] /\ section = sections[i]
    OBVIOUS
  <2>2. folded[i] = WithSection(before, section)
    BY <1>2, <2>1
  <2>3. Good(before)
    <3>1. i - 1 \in S
      <4> HIDE DEF S
      <4> QED BY <1>4
    <3> QED BY <2>1, <3>1
  <2>4. Offers(section)
    BY <2>1
  <2>5. Good(WithSection(before, section))
    BY <2>3, <2>4, SectionAbove
  <2> HIDE DEF Good
  <2> QED BY <2>2, <2>5
<1>5. n \in S
  <2> HIDE DEF S
  <2>1. \A i \in 0 .. n : i \in S
    BY <1>1, <1>3, <1>4, UpTo
  <2> QED BY <1>1, <2>1
<1> QED BY <1>2, <1>5

(* Whatever controls are laid out, however many: no level of the screen is *)
(* longer than a card holds, and every entry that opens a level opens one  *)
(* that is there, made before the level it stands on (layoutDeclaration).  *)
THEOREM EveryWayLeadsOn ==
    ASSUME NEW controls, IsList(controls)
    PROVE  /\ Above(LayoutDeclaration(controls).fields, LayoutDeclaration(controls).levels)
           /\ \A level \in ToSet(AllLevels(LayoutDeclaration(controls))) :
                 IsList(level.fields) /\ Len(level.fields) <= MaxLevelEntries
<1>1. PICK sections : sections = DeclarationSections(controls)
  OBVIOUS
<1>2. IsList(sections) /\ \A i \in 1 .. Len(sections) : Offers(sections[i])
  BY <1>1, SectionsOffer
<1>3. PICK flat, folded : flat = FlattenSeq(sections) /\ folded = FoldedEntries(sections)
  OBVIOUS
<1>4. Offers(flat)
  BY <1>2, <1>3, FlattenListed DEF Offers
<1>5. Above(folded.fields, folded.levels)
  BY <1>2, <1>3, FoldedAbove
<1>6. PICK made : made = LayoutDeclaration(controls)
  OBVIOUS
<1>7. made = IF Len(flat) <= MaxLevelEntries THEN [fields |-> flat, levels |-> <<>>]
             ELSE Paged(folded.fields, folded.levels)
  BY <1>1, <1>3, <1>6 DEF LayoutDeclaration
<1>8. Above(made.fields, made.levels) /\ Len(made.fields) <= MaxLevelEntries
  <2>1. CASE Len(flat) <= MaxLevelEntries
    <3>1. LevelsSound(<<>>)
      BY EmptyListed DEF LevelsSound
    <3> QED BY <1>4, <1>7, <2>1, <3>1, OffersAbove
  <2>2. CASE ~(Len(flat) <= MaxLevelEntries)
    BY <1>5, <1>7, <2>2, PagedAbove
  <2> QED BY <2>1, <2>2
<1>9. PICK root : root = [key |-> Root, fields |-> made.fields]
  OBVIOUS
<1>10. ToSet(AllLevels(made)) = {root} \cup ToSet(made.levels)
  BY <1>8, <1>9, OneListed, ConcatSet DEF AllLevels, Above, LevelsSound
<1>11. ASSUME NEW level \in ToSet(AllLevels(made))
       PROVE  IsList(level.fields) /\ Len(level.fields) <= MaxLevelEntries
  <2>1. CASE level = root
    BY <1>8, <1>9, <2>1 DEF Above
  <2>2. CASE level \in ToSet(made.levels)
    <3>1. IsList(made.levels)
      BY <1>8 DEF Above, LevelsSound
    <3>2. PICK i \in 1 .. Len(made.levels) : made.levels[i] = level
      BY <2>2, <3>1, ListFacts
    <3> QED BY <1>8, <3>2 DEF Above, LevelsSound
  <2> QED BY <1>10, <2>1, <2>2
<1> QED BY <1>6, <1>8, <1>11

-------------------------------------------------------------------------------
(* Parts: lists of lists, and what they hold together.                     *)
IsParts(parts) == IsList(parts) /\ \A i \in 1 .. Len(parts) : IsList(parts[i])
Held(parts) == UNION {ToSet(parts[i]) : i \in 1 .. Len(parts)}

LEMMA AppendSet ==
    ASSUME NEW s, IsList(s), NEW e
    PROVE  ToSet(Append(s, e)) = ToSet(s) \cup {e}
<1>1. PICK t : t = Append(s, e)
  OBVIOUS
<1>2. PICK n \in Nat : n = Len(s)
  BY ListFacts
<1>3. /\ IsList(t) /\ Len(t) = n + 1 /\ t[n + 1] = e
      /\ \A i \in 1 .. n : t[i] = s[i]
  BY <1>1, <1>2, AppendListed
<1>4. \A x : x \in ToSet(t) <=> \E i \in 1 .. n + 1 : t[i] = x
  BY <1>3, ListFacts
<1>5. \A x : x \in ToSet(s) <=> \E i \in 1 .. n : s[i] = x
  BY <1>2, ListFacts
<1>6. \A i : i \in 1 .. n + 1 <=> i \in 1 .. n \/ i = n + 1
  OBVIOUS
<1> QED BY <1>1, <1>3, <1>4, <1>5, <1>6

LEMMA PartAdded ==
    ASSUME NEW parts, IsParts(parts), NEW p, IsList(p)
    PROVE  /\ IsParts(Append(parts, p))
           /\ Held(Append(parts, p)) = Held(parts) \cup ToSet(p)
<1>1. PICK t : t = Append(parts, p)
  OBVIOUS
<1>2. PICK n \in Nat : n = Len(parts)
  BY ListFacts DEF IsParts
<1>3. /\ IsList(t) /\ Len(t) = n + 1 /\ t[n + 1] = p
      /\ \A i \in 1 .. n : t[i] = parts[i]
  BY <1>1, <1>2, AppendListed DEF IsParts
<1>4. \A i : i \in 1 .. n + 1 <=> i \in 1 .. n \/ i = n + 1
  OBVIOUS
<1>5. IsParts(t)
  BY <1>2, <1>3, <1>4 DEF IsParts
<1>6. ASSUME NEW x PROVE x \in Held(t) <=> x \in Held(parts) \cup ToSet(p)
  <2>1. x \in Held(t) <=> \E i \in 1 .. n + 1 : x \in ToSet(t[i])
    BY <1>3 DEF Held
  <2>2. x \in Held(parts) <=> \E i \in 1 .. n : x \in ToSet(parts[i])
    BY <1>2 DEF Held
  <2> QED BY <1>3, <1>4, <2>1, <2>2
<1>7. Held(t) = Held(parts) \cup ToSet(p)
  BY <1>6
<1> QED BY <1>1, <1>5, <1>7

LEMMA PartGrown ==
    ASSUME NEW parts, IsParts(parts), parts # <<>>, NEW p, IsList(p), NEW more,
           ToSet(p) = ToSet(Last(parts)) \cup more
    PROVE  /\ IsParts(Append(Front(parts), p))
           /\ Held(Append(Front(parts), p)) = Held(parts) \cup more
<1>1. PICK front : front = Front(parts)
  OBVIOUS
<1>2. PICK n \in Nat : n = Len(parts) /\ n # 0
  BY ListFacts DEF IsParts
<1>3. /\ IsList(front) /\ Len(front) = n - 1
      /\ \A i \in 1 .. n - 1 : front[i] = parts[i]
  BY <1>1, <1>2, FrontListed DEF IsParts
<1>4. \A i : i \in 1 .. n <=> i \in 1 .. n - 1 \/ i = n
  BY <1>2
<1>5. IsParts(front)
  BY <1>2, <1>3, <1>4 DEF IsParts
<1>6. Last(parts) = parts[n]
  BY <1>2 DEF Last
<1>7. ASSUME NEW x PROVE x \in Held(parts) <=> x \in Held(front) \cup ToSet(Last(parts))
  <2>1. x \in Held(front) <=> \E i \in 1 .. n - 1 : x \in ToSet(front[i])
    BY <1>3 DEF Held
  <2>2. x \in Held(parts) <=> \E i \in 1 .. n : x \in ToSet(parts[i])
    BY <1>2 DEF Held
  <2> QED BY <1>3, <1>4, <1>6, <2>1, <2>2
<1>8. Held(parts) = Held(front) \cup ToSet(Last(parts))
  BY <1>7
<1>9. IsParts(Append(front, p)) /\ Held(Append(front, p)) = Held(front) \cup ToSet(p)
  BY <1>5, PartAdded
<1> QED BY <1>1, <1>8, <1>9

LEMMA ControlHeld ==
    ASSUME NEW units, IsParts(units), NEW c
    PROVE  IsParts(WithControl(units, c)) /\ Held(WithControl(units, c)) = Held(units) \cup {c}
<1>1. CASE IsFreeEntry(c) /\ units # <<>> /\ Last(units)[1].field = c.field
  <2>1. IsList(Last(units))
    <3>1. PICK n \in Nat : n = Len(units) /\ n # 0
      BY <1>1, ListFacts DEF IsParts
    <3> QED BY <3>1 DEF Last, IsParts
  <2>2. PICK p : p = Append(Last(units), c)
    OBVIOUS
  <2>3. IsList(p) /\ ToSet(p) = ToSet(Last(units)) \cup {c}
    BY <2>1, <2>2, AppendListed, AppendSet
  <2>4. WithControl(units, c) = Append(Front(units), p)
    BY <1>1, <2>2 DEF WithControl
  <2> QED BY <1>1, <2>3, <2>4, PartGrown
<1>2. CASE ~(IsFreeEntry(c) /\ units # <<>> /\ Last(units)[1].field = c.field)
  <2>1. WithControl(units, c) = Append(units, <<c>>)
    BY <1>2 DEF WithControl
  <2>2. IsList(<<c>>) /\ ToSet(<<c>>) = {c}
    BY OneListed
  <2> QED BY <2>1, <2>2, PartAdded
<1> QED BY <1>1, <1>2

LEMMA UnitHeld ==
    ASSUME NEW chunks, IsParts(chunks), NEW unit, IsList(unit), NEW size
    PROVE  /\ IsParts(WithUnit(chunks, unit, size))
           /\ Held(WithUnit(chunks, unit, size)) = Held(chunks) \cup ToSet(unit)
<1>1. CASE chunks # <<>> /\ Len(Last(chunks)) + Len(unit) <= size
  <2>1. IsList(Last(chunks))
    <3>1. PICK n \in Nat : n = Len(chunks) /\ n # 0
      BY <1>1, ListFacts DEF IsParts
    <3> QED BY <3>1 DEF Last, IsParts
  <2>2. PICK p : p = Last(chunks) \o unit
    OBVIOUS
  <2>3. IsList(p) /\ ToSet(p) = ToSet(Last(chunks)) \cup ToSet(unit)
    BY <2>1, <2>2, ConcatListed, ConcatSet
  <2>4. WithUnit(chunks, unit, size) = Append(Front(chunks), p)
    BY <1>1, <2>2 DEF WithUnit
  <2> QED BY <1>1, <2>3, <2>4, PartGrown
<1>2. CASE ~(chunks # <<>> /\ Len(Last(chunks)) + Len(unit) <= size)
  <2>1. WithUnit(chunks, unit, size) = Append(chunks, unit)
    BY <1>2 DEF WithUnit
  <2> QED BY <2>1, PartAdded
<1> QED BY <1>1, <1>2

LEMMA NothingHeld == IsParts(<<>>) /\ Held(<<>>) = {}
<1>1. IsList(<<>>) /\ Len(<<>>) = 0
  BY EmptyListed
<1> QED BY <1>1 DEF IsParts, Held

(* Every control is in a unit.                                             *)
LEMMA UnitsHold ==
    ASSUME NEW controls, IsList(controls)
    PROVE  IsParts(ControlUnits(controls)) /\ Held(ControlUnits(controls)) = ToSet(controls)
<1>1. PICK units : /\ units[0] = <<>> /\ ControlUnits(controls) = units[Len(controls)]
                   /\ \A i \in 1 .. Len(controls) : units[i] = WithControl(units[i - 1], controls[i])
  BY UnitsMade
<1>2. PICK n \in Nat : n = Len(controls)
  BY ListFacts
<1> DEFINE First(i) == {controls[j] : j \in 1 .. i}
           Good(u, i) == IsParts(u) /\ Held(u) = First(i)
           S == {j \in 0 .. n : Good(units[j], j)}
<1>3. 0 \in S
  <2>1. First(0) = {}
    OBVIOUS
  <2> QED BY <1>1, <1>2, <2>1, NothingHeld
<1>4. ASSUME NEW i \in 1 .. n, \A j \in 0 .. i - 1 : j \in S
      PROVE  i \in S
  <2>1. PICK before : before = units[i - 1]
    OBVIOUS
  <2>2. Good(before, i - 1)
    <3>1. i - 1 \in S
      <4> HIDE DEF S
      <4> QED BY <1>4
    <3> QED BY <2>1, <3>1
  <2>3. units[i] = WithControl(before, controls[i])
    BY <1>1, <1>2, <2>1
  <2>4. First(i) = First(i - 1) \cup {controls[i]}
    <3>1. \A j : j \in 1 .. i <=> j \in 1 .. i - 1 \/ j = i
      OBVIOUS
    <3> QED BY <3>1
  <2>5. Good(WithControl(before, controls[i]), i)
    <3> HIDE DEF First
    <3> QED BY <2>2, <2>4, ControlHeld
  <2> HIDE DEF Good
  <2> QED BY <2>3, <2>5
<1>5. n \in S
  <2> HIDE DEF S
  <2>1. \A i \in 0 .. n : i \in S
    BY <1>2, <1>3, <1>4, UpTo
  <2> QED BY <1>2, <2>1
<1>6. First(n) = ToSet(controls)
  BY <1>2, ListFacts
<1> QED BY <1>1, <1>2, <1>5, <1>6

(* The units of a group are in its chunks, and nothing else.               *)
InGroup(units, group) == {j \in 1 .. Len(units) : units[j][1].group = group}

LEMMA PackedHold ==
    ASSUME NEW units, IsParts(units), NEW group, NEW size
    PROVE  /\ IsParts(Packed(units, group, size))
           /\ Held(Packed(units, group, size)) = UNION {ToSet(units[j]) : j \in InGroup(units, group)}
<1>1. PICK chunks : /\ chunks[0] = <<>> /\ Packed(units, group, size) = chunks[Len(units)]
                    /\ \A i \in 1 .. Len(units) :
                          chunks[i] = IF units[i][1].group # group THEN chunks[i - 1]
                                      ELSE WithUnit(chunks[i - 1], units[i], size)
  <2>1. IsList(units)
    BY DEF IsParts
  <2> QED BY <2>1, PackedMade
<1>2. PICK n \in Nat : n = Len(units)
  BY ListFacts DEF IsParts
<1> DEFINE In(i) == {j \in 1 .. i : units[j][1].group = group}
           First(i) == UNION {ToSet(units[j]) : j \in In(i)}
           Good(u, i) == IsParts(u) /\ Held(u) = First(i)
           S == {j \in 0 .. n : Good(chunks[j], j)}
<1>3. 0 \in S
  <2>1. First(0) = {}
    OBVIOUS
  <2> QED BY <1>1, <1>2, <2>1, NothingHeld
<1>4. ASSUME NEW i \in 1 .. n, \A j \in 0 .. i - 1 : j \in S
      PROVE  i \in S
  <2>1. PICK before, unit : before = chunks[i - 1] /\ unit = units[i]
    OBVIOUS
  <2>2. Good(before, i - 1)
    <3>1. i - 1 \in S
      <4> HIDE DEF S
      <4> QED BY <1>4
    <3> QED BY <2>1, <3>1
  <2>3. IsList(unit)
    BY <1>2, <2>1 DEF IsParts
  <2>4. \A j : j \in 1 .. i <=> j \in 1 .. i - 1 \/ j = i
    OBVIOUS
  <2>5. CASE units[i][1].group # group
    <3>1. In(i) = In(i - 1)
      BY <2>4, <2>5
    <3>2. First(i) = First(i - 1)
      <4> HIDE DEF In
      <4> QED BY <3>1
    <3>3. chunks[i] = before
      BY <1>1, <1>2, <2>1, <2>5
    <3>4. Good(before, i)
      <4> HIDE DEF First
      <4> QED BY <2>2, <3>2
    <3> HIDE DEF Good
    <3> QED BY <3>3, <3>4
  <2>6. CASE units[i][1].group = group
    <3>1. In(i) = In(i - 1) \cup {i}
      BY <2>4, <2>6
    <3>2. First(i) = First(i - 1) \cup ToSet(unit)
      <4> HIDE DEF In
      <4> QED BY <2>1, <3>1
    <3>3. chunks[i] = WithUnit(before, unit, size)
      BY <1>1, <1>2, <2>1, <2>6
    <3>4. Good(WithUnit(before, unit, size), i)
      <4> HIDE DEF First
      <4> QED BY <2>2, <2>3, <3>2, UnitHeld
    <3> HIDE DEF Good
    <3> QED BY <3>3, <3>4
  <2> QED BY <2>5, <2>6
<1>5. n \in S
  <2> HIDE DEF S
  <2>1. \A i \in 0 .. n : i \in S
    BY <1>2, <1>3, <1>4, UpTo
  <2> QED BY <1>2, <2>1
<1>6. In(n) = InGroup(units, group)
  BY <1>2 DEF InGroup
<1> HIDE DEF In
<1> QED BY <1>1, <1>2, <1>5, <1>6

-------------------------------------------------------------------------------
(* Entries: the controls they offer, in lists; and the ways they are.      *)
Content(entries) == UNION {ToSet(e.members) : e \in entries}
Filled(entries) == \A e \in entries : IsList(e.members)

(* The unit a group stands at.                                             *)
FirstIn(units, group) == SelectInSeq(units, LAMBDA u : u[1].group = group)

LEMMA FirstInGroup ==
    ASSUME NEW units, IsList(units), NEW group, NEW j \in InGroup(units, group)
    PROVE  FirstIn(units, group) \in InGroup(units, group)
<1>1. PICK first : first = FirstIn(units, group)
  OBVIOUS
<1>2. PICK I : I = InGroup(units, group)
  OBVIOUS
<1>3. I # {} /\ I \in SUBSET Nat
  BY <1>2, ListFacts DEF InGroup
<1>4. first = Min(I)
  BY <1>1, <1>2, <1>3 DEF FirstIn, SelectInSeq, InGroup
<1>5. first \in I
  BY <1>3, <1>4, MinIsThere
<1> QED BY <1>1, <1>2, <1>5

(* What the group of a unit is split into offers the units of the group.   *)
LEMMA GroupOffers ==
    ASSUME NEW units, IsParts(units), NEW group
    PROVE  /\ Filled(ToSet(GroupSection(units, group)))
           /\ Content(ToSet(GroupSection(units, group))) = UNION {ToSet(units[j]) : j \in InGroup(units, group)}
<1>1. PICK chunks : chunks = Packed(units, group, MaxModalComponents)
  OBVIOUS
<1>2. IsParts(chunks) /\ Held(chunks) = UNION {ToSet(units[j]) : j \in InGroup(units, group)}
  BY <1>1, PackedHold
<1>3. PICK n \in Nat : n = Len(chunks) /\ DOMAIN chunks = 1 .. n /\ IsList(chunks)
  BY <1>2, ListFacts DEF IsParts
<1>4. PICK section : section = GroupSection(units, group)
  OBVIOUS
<1>5. section = [i \in 1 .. n |-> Entry("group", group \o "#" \o ToString(i), chunks[i])]
  BY <1>1, <1>3, <1>4 DEF GroupSection
<1>6. IsList(section) /\ Len(section) = n
  BY <1>3, <1>5, FunctionListed
<1>7. \A i \in 1 .. n : section[i].members = chunks[i]
  BY <1>5 DEF Entry
<1>8. \A e : e \in ToSet(section) <=> \E i \in 1 .. n : section[i] = e
  BY <1>6, ListFacts
<1>9. Filled(ToSet(section))
  BY <1>2, <1>3, <1>7, <1>8 DEF Filled, IsParts
<1>10. Content(ToSet(section)) = Held(chunks)
  BY <1>3, <1>7, <1>8 DEF Content, Held
<1> QED BY <1>2, <1>4, <1>9, <1>10

LEMMA OneOffers ==
    /\ \A c : Filled(ToSet(<<ControlEntry(c)>>)) /\ Content(ToSet(<<ControlEntry(c)>>)) = {c}
    /\ \A unit : IsList(unit) => /\ Filled(ToSet(SearchSection(unit)))
                                 /\ Content(ToSet(SearchSection(unit))) = ToSet(unit)
    /\ Filled(ToSet(<<>>)) /\ Content(ToSet(<<>>)) = {}
<1>1. ASSUME NEW e, IsList(e.members)
      PROVE  Filled(ToSet(<<e>>)) /\ Content(ToSet(<<e>>)) = ToSet(e.members)
  <2>1. ToSet(<<e>>) = {e}
    BY OneListed
  <2> QED BY <1>1, <2>1 DEF Filled, Content
<1>2. ASSUME NEW c
      PROVE  Filled(ToSet(<<ControlEntry(c)>>)) /\ Content(ToSet(<<ControlEntry(c)>>)) = {c}
  <2>1. PICK e : e = ControlEntry(c)
    OBVIOUS
  <2>2. e.members = <<c>>
    BY <2>1 DEF ControlEntry, Entry
  <2>3. IsList(e.members) /\ ToSet(e.members) = {c}
    BY <2>2, OneListed
  <2>4. Filled(ToSet(<<e>>)) /\ Content(ToSet(<<e>>)) = ToSet(e.members)
    BY <1>1, <2>3
  <2> QED BY <2>1, <2>3, <2>4
<1>3. ASSUME NEW unit, IsList(unit)
      PROVE  Filled(ToSet(SearchSection(unit))) /\ Content(ToSet(SearchSection(unit))) = ToSet(unit)
  <2>1. PICK e : e = Entry("group", unit[1].field \o "#search", unit)
    OBVIOUS
  <2>2. e.members = unit /\ SearchSection(unit) = <<e>>
    BY <2>1 DEF Entry, SearchSection
  <2>3. Filled(ToSet(<<e>>)) /\ Content(ToSet(<<e>>)) = ToSet(e.members)
    BY <1>1, <1>3, <2>2
  <2> QED BY <2>2, <2>3
<1>4. ToSet(<<>>) = {}
  BY EmptyListed, ListFacts
<1>5. Filled(ToSet(<<>>)) /\ Content(ToSet(<<>>)) = {}
  BY <1>4 DEF Filled, Content
<1> QED BY <1>2, <1>3, <1>5

(* The sections of the root offer the controls, every one of them.         *)
LEMMA SectionsHold ==
    ASSUME NEW controls, IsList(controls), NEW sections, sections = DeclarationSections(controls)
    PROVE  /\ \A i \in 1 .. Len(sections) : Filled(ToSet(sections[i]))
           /\ UNION {Content(ToSet(sections[i])) : i \in 1 .. Len(sections)} = ToSet(controls)
<1>1. PICK units : units = ControlUnits(controls)
  OBVIOUS
<1>2. IsParts(units) /\ Held(units) = ToSet(controls)
  BY <1>1, UnitsHold
<1>3. PICK n \in Nat : n = Len(units) /\ DOMAIN units = 1 .. n /\ IsList(units)
  BY <1>2, ListFacts DEF IsParts
<1>4. /\ DOMAIN sections = 1 .. n /\ sections = [i \in 1 .. n |-> sections[i]]
      /\ \A i \in 1 .. n :
            sections[i] =
                IF units[i][1].group = None
                THEN IF Len(units[i]) = 1 THEN <<ControlEntry(units[i][1])>> ELSE SearchSection(units[i])
                ELSE IF FirstIn(units, units[i][1].group) = i
                     THEN GroupSection(units, units[i][1].group)
                     ELSE <<>>
  BY <1>1, <1>3 DEF DeclarationSections, FirstIn
<1>5. Len(sections) = n
  BY <1>3, <1>4, FunctionListed
<1> DEFINE Of(i) == Content(ToSet(sections[i]))
<1>6. ASSUME NEW i \in 1 .. n, units[i][1].group = None
      PROVE  Filled(ToSet(sections[i])) /\ Of(i) = ToSet(units[i])
  <2>1. PICK unit : unit = units[i]
    OBVIOUS
  <2>2. IsList(unit)
    BY <1>2, <1>3, <2>1 DEF IsParts
  <2>3. CASE Len(unit) = 1
    <3>1. sections[i] = <<ControlEntry(unit[1])>>
      BY <1>4, <1>6, <2>1, <2>3
    <3>2. ToSet(unit) = {unit[1]}
      <4>1. \A e : e \in ToSet(unit) <=> \E j \in 1 .. 1 : unit[j] = e
        BY <2>2, <2>3, ListFacts
      <4> QED BY <4>1
    <3> QED BY <2>1, <3>1, <3>2, OneOffers
  <2>4. CASE Len(unit) # 1
    <3>1. sections[i] = SearchSection(unit)
      BY <1>4, <1>6, <2>1, <2>4
    <3> QED BY <2>1, <2>2, <3>1, OneOffers
  <2> QED BY <2>3, <2>4
<1>7. ASSUME NEW i \in 1 .. n, units[i][1].group # None
      PROVE  /\ Filled(ToSet(sections[i]))
             /\ Of(i) = {} \/ Of(i) = UNION {ToSet(units[j]) : j \in InGroup(units, units[i][1].group)}
  <2>1. sections[i] = GroupSection(units, units[i][1].group) \/ sections[i] = <<>>
    BY <1>4, <1>7
  <2> QED BY <1>2, <2>1, GroupOffers, OneOffers
<1>8. ASSUME NEW j \in 1 .. n, units[j][1].group # None
      PROVE  \E i \in 1 .. n : ToSet(units[j]) \subseteq Of(i)
  <2>1. PICK group : group = units[j][1].group
    OBVIOUS
  <2>2. j \in InGroup(units, group)
    BY <1>3, <2>1 DEF InGroup
  <2>3. PICK i : i = FirstIn(units, group)
    OBVIOUS
  <2>4. i \in InGroup(units, group)
    BY <1>3, <2>2, <2>3, FirstInGroup
  <2>5. i \in 1 .. n /\ units[i][1].group = group
    BY <1>3, <2>4 DEF InGroup
  <2>6. sections[i] = GroupSection(units, group)
    <3>1. sections[i] = IF group = None
                        THEN IF Len(units[i]) = 1 THEN <<ControlEntry(units[i][1])>> ELSE SearchSection(units[i])
                        ELSE IF FirstIn(units, group) = i
                             THEN GroupSection(units, group) ELSE <<>>
      BY <1>4, <2>5
    <3> QED BY <1>8, <2>1, <2>3, <3>1
  <2>7. Of(i) = UNION {ToSet(units[k]) : k \in InGroup(units, group)}
    BY <1>2, <2>6, GroupOffers
  <2> QED BY <2>2, <2>5, <2>7
<1>9. \A i \in 1 .. n : Filled(ToSet(sections[i]))
  BY <1>6, <1>7
<1>10. ASSUME NEW x, NEW i \in 1 .. n, x \in Of(i)
       PROVE  \E j \in 1 .. n : x \in ToSet(units[j])
  <2>1. CASE units[i][1].group = None
    BY <1>6, <1>10, <2>1
  <2>2. CASE units[i][1].group # None
    <3>1. x \in UNION {ToSet(units[j]) : j \in InGroup(units, units[i][1].group)}
      BY <1>7, <1>10, <2>2
    <3> QED BY <1>3, <3>1 DEF InGroup
  <2> QED BY <2>1, <2>2
<1>11. ASSUME NEW x, NEW j \in 1 .. n, x \in ToSet(units[j])
       PROVE  \E i \in 1 .. n : x \in Of(i)
  BY <1>6, <1>8, <1>11
<1> HIDE DEF Of
<1>12. ASSUME NEW x
       PROVE  x \in UNION {Of(i) : i \in 1 .. n} <=> x \in UNION {ToSet(units[j]) : j \in 1 .. n}
  BY <1>10, <1>11
<1>13. UNION {Of(i) : i \in 1 .. n} = UNION {ToSet(units[j]) : j \in 1 .. n}
  BY <1>12
<1>14. UNION {ToSet(units[j]) : j \in 1 .. n} = ToSet(controls)
  BY <1>2, <1>3 DEF Held
<1> QED BY <1>5, <1>9, <1>13, <1>14 DEF Of

-------------------------------------------------------------------------------
(* What is on the levels, and the ways to them: from the entries that are  *)
(* not on a level yet, or from a level made later.                         *)
OnLevels(levels) == UNION {ToSet(levels[i].fields) : i \in 1 .. Len(levels)}
Later(levels, i) == UNION {ToSet(levels[j].fields) : j \in i + 1 .. Len(levels)}
Reached(entries, levels) ==
    \A i \in 1 .. Len(levels) :
        \E e \in entries \cup Later(levels, i) : e.kind = "level" /\ e.key = levels[i].key

(* The same entries, and ways, which offer no control.                     *)
Adds(more, entries) ==
    /\ entries \subseteq more
    /\ \A e \in more : e \in entries \/ (e.kind = "level" /\ e.members = <<>>)

LEMMA AddsOffer ==
    ASSUME NEW more, NEW entries, Adds(more, entries), Filled(entries)
    PROVE  Filled(more) /\ Content(more) = Content(entries)
<1>1. IsList(<<>>) /\ ToSet(<<>>) = {}
  BY EmptyListed, ListFacts
<1>2. ASSUME NEW x PROVE x \in Content(more) <=> x \in Content(entries)
  BY <1>1 DEF Adds, Content
<1> QED BY <1>1, <1>2 DEF Adds, Filled

LEMMA SubSeqSet ==
    ASSUME NEW s, IsList(s), NEW m \in Int, NEW n \in Int, m >= 1, n <= Len(s)
    PROVE  ToSet(SubSeq(s, m, n)) = {s[j] : j \in m .. n}
<1>1. PICK t : t = SubSeq(s, m, n)
  OBVIOUS
<1>2. /\ IsList(t) /\ Len(t) = IF m <= n THEN n - m + 1 ELSE 0
      /\ \A i \in 1 .. n - m + 1 : t[i] = s[m + i - 1]
  BY <1>1, SubSeqListed
<1>3. \A x : x \in ToSet(t) <=> \E i \in 1 .. Len(t) : t[i] = x
  BY <1>2, ListFacts
<1>4. ASSUME NEW x \in ToSet(t) PROVE \E j \in m .. n : s[j] = x
  <2>1. PICK i \in 1 .. Len(t) : t[i] = x
    BY <1>3
  <2>2. m <= n /\ i \in 1 .. n - m + 1
    BY <1>2
  <2>3. s[m + i - 1] = x /\ m + i - 1 \in m .. n
    BY <1>2, <2>1, <2>2
  <2> QED BY <2>3
<1>5. ASSUME NEW j \in m .. n PROVE s[j] \in ToSet(t)
  <2>1. j - m + 1 \in 1 .. n - m + 1 /\ m + (j - m + 1) - 1 = j /\ m <= n
    OBVIOUS
  <2>2. t[j - m + 1] = s[j] /\ j - m + 1 \in 1 .. Len(t)
    BY <1>2, <2>1
  <2> QED BY <1>3, <2>2
<1> QED BY <1>1, <1>4, <1>5

(* A level more: what was laid out goes on it, and the way to it stays.    *)
LEMMA NewLevelHolds ==
    ASSUME NEW inner, IsList(inner.levels), NEW others,
           Reached(others \cup ToSet(inner.fields), inner.levels)
    PROVE  /\ IsList(NewLevel(inner).levels)
           /\ OnLevels(NewLevel(inner).levels) = OnLevels(inner.levels) \cup ToSet(inner.fields)
           /\ Reached(others \cup {NewLevel(inner).entry}, NewLevel(inner).levels)
           /\ NewLevel(inner).entry.kind = "level" /\ NewLevel(inner).entry.members = <<>>
<1>1. PICK key : key = "level#" \o ToString(Len(inner.levels) + 1)
  OBVIOUS
<1>2. PICK old, fields : old = inner.levels /\ fields = inner.fields
  OBVIOUS
<1>3. PICK made : made = [key |-> key, fields |-> fields]
  OBVIOUS
<1>4. PICK more, entry : more = Append(old, made) /\ entry = Entry("level", key, <<>>)
  OBVIOUS
<1>5. NewLevel(inner).levels = more /\ NewLevel(inner).entry = entry
  BY <1>1, <1>2, <1>3, <1>4 DEF NewLevel
<1>6. PICK m \in Nat : m = Len(old) /\ IsList(old)
  BY <1>2, ListFacts
<1>7. /\ IsList(more) /\ Len(more) = m + 1 /\ more[m + 1] = made
      /\ \A i \in 1 .. m : more[i] = old[i]
  BY <1>4, <1>6, AppendListed
<1>8. entry.kind = "level" /\ entry.members = <<>> /\ entry.key = key /\ made.key = key /\ made.fields = fields
  BY <1>3, <1>4 DEF Entry
<1>9. \A i : i \in 1 .. m + 1 <=> i \in 1 .. m \/ i = m + 1
  OBVIOUS
<1>10. OnLevels(more) = OnLevels(old) \cup ToSet(fields)
  <2>1. ASSUME NEW x PROVE x \in OnLevels(more) <=> x \in OnLevels(old) \cup ToSet(fields)
    <3>1. x \in OnLevels(more) <=> \E i \in 1 .. m + 1 : x \in ToSet(more[i].fields)
      BY <1>7 DEF OnLevels
    <3>2. x \in OnLevels(old) <=> \E i \in 1 .. m : x \in ToSet(old[i].fields)
      BY <1>6 DEF OnLevels
    <3> QED BY <1>7, <1>8, <1>9, <3>1, <3>2
  <2> QED BY <2>1
<1>11. ASSUME NEW i \in 1 .. m + 1
       PROVE  \E e \in (others \cup {entry}) \cup Later(more, i) : e.kind = "level" /\ e.key = more[i].key
  <2>1. CASE i = m + 1
    BY <1>7, <1>8, <2>1
  <2>2. CASE i # m + 1
    <3>1. i \in 1 .. m /\ more[i] = old[i]
      BY <1>7, <2>2
    <3>2. PICK e \in (others \cup ToSet(fields)) \cup Later(old, i) : e.kind = "level" /\ e.key = old[i].key
      BY <1>2, <1>6, <3>1 DEF Reached
    <3>3. ToSet(fields) \subseteq Later(more, i)
      <4>1. m + 1 \in i + 1 .. Len(more) /\ more[m + 1].fields = fields
        BY <1>7, <1>8, <3>1
      <4> QED BY <4>1 DEF Later
    <3>4. Later(old, i) \subseteq Later(more, i)
      <4>1. \A j \in i + 1 .. m : j \in i + 1 .. m + 1 /\ more[j] = old[j]
        BY <1>7, <3>1
      <4> QED BY <1>6, <1>7, <4>1 DEF Later
    <3> QED BY <3>1, <3>2, <3>3, <3>4
  <2> QED BY <2>1, <2>2
<1>12. Reached(others \cup {entry}, more)
  BY <1>7, <1>11 DEF Reached
<1> QED BY <1>2, <1>5, <1>7, <1>8, <1>10, <1>12

LEMMA RangeSplit ==
    ASSUME NEW s, NEW a \in Int, NEW b \in Int, NEW c \in Int, a <= b + 1, b <= c
    PROVE  {s[j] : j \in a .. c} = {s[j] : j \in a .. b} \cup {s[j] : j \in b + 1 .. c}
<1>1. \A j : j \in a .. c <=> j \in a .. b \/ j \in b + 1 .. c
  OBVIOUS
<1> QED BY <1>1

(* Pages lose nothing: what is on them is the entries, and the ways on.    *)
LEMMA PagedHold ==
    ASSUME NEW entries, IsList(entries), NEW levels, IsList(levels), NEW others,
           Reached(others \cup ToSet(entries), levels)
    PROVE  /\ IsList(Paged(entries, levels).fields) /\ IsList(Paged(entries, levels).levels)
           /\ Reached(others \cup ToSet(Paged(entries, levels).fields), Paged(entries, levels).levels)
           /\ Adds(ToSet(Paged(entries, levels).fields) \cup OnLevels(Paged(entries, levels).levels),
                   ToSet(entries) \cup OnLevels(levels))
<1>1. PICK n \in Nat : n = Len(entries)
  BY ListFacts
<1>2. PICK paged : /\ Paged(entries, levels) = paged[n]
                   /\ \A i \in 0 .. n :
                         paged[i] = IF i <= MaxLevelEntries THEN ShortPage(entries, levels, i)
                                    ELSE LongPage(entries, i, paged[i - (MaxLevelEntries - 1)])
  BY <1>1, PagedMade
<1> DEFINE From(a, b) == {entries[j] : j \in a .. b}
           Good(p, i) == /\ IsList(p.fields) /\ IsList(p.levels)
                         /\ Reached((others \cup From(1, n - i)) \cup ToSet(p.fields), p.levels)
                         /\ Adds(ToSet(p.fields) \cup OnLevels(p.levels),
                                 From(n - i + 1, n) \cup OnLevels(levels))
           S == {i \in 0 .. n : Good(paged[i], i)}
<1>3. ToSet(entries) = From(1, n)
  BY <1>1, ListFacts
<1>4. ASSUME NEW i \in 0 .. n, i <= MaxLevelEntries
      PROVE  i \in S
  <2>1. PICK part : part = SubSeq(entries, n - i + 1, n)
    OBVIOUS
  <2>2. PICK p : p = paged[i]
    OBVIOUS
  <2>3. p = [fields |-> part, levels |-> levels]
    BY <1>1, <1>2, <1>4, <2>1, <2>2 DEF ShortPage
  <2>4. p.fields = part /\ p.levels = levels
    BY <2>3
  <2>5. n - i + 1 \in Int /\ n - i + 1 >= 1 /\ n \in Int /\ n <= Len(entries)
    BY <1>1
  <2>6. IsList(part) /\ ToSet(part) = From(n - i + 1, n)
    BY <2>1, <2>5, SubSeqListed, SubSeqSet
  <2>7. From(1, n) = From(1, n - i) \cup From(n - i + 1, n)
    <3>1. 1 \in Int /\ n - i \in Int /\ n \in Int /\ 1 <= n - i + 1 /\ n - i <= n
      OBVIOUS
    <3> QED BY <3>1, RangeSplit
  <2> HIDE DEF From
  <2>8. (others \cup From(1, n - i)) \cup ToSet(part) = others \cup ToSet(entries)
    BY <1>3, <2>6, <2>7
  <2>9. Good(p, i)
    BY <2>4, <2>6, <2>8 DEF Adds
  <2> HIDE DEF Good
  <2> QED BY <2>2, <2>9
<1>5. ASSUME NEW i \in 1 .. n, ~(i <= MaxLevelEntries), i - (MaxLevelEntries - 1) \in S
      PROVE  i \in S
  <2>1. PICK before \in Int : before = i - (MaxLevelEntries - 1)
    BY DEF MaxLevelEntries
  <2>2. PICK inner : inner = paged[before]
    OBVIOUS
  <2>3. Good(inner, before)
    BY <1>5, <2>1, <2>2
  <2>4. PICK a, b : a = n - i + 1 /\ b = n - i + (MaxLevelEntries - 1)
    OBVIOUS
  <2>5. /\ a \in Int /\ b \in Int /\ a >= 1 /\ b <= Len(entries) /\ b = n - before
        /\ a <= b + 1 /\ b <= n /\ n \in Int /\ 1 <= a /\ a - 1 <= b /\ 1 <= b + 1 /\ a - 1 = n - i
    BY <1>1, <1>5, <2>1, <2>4 DEF MaxLevelEntries
  <2>6. PICK kept : kept = SubSeq(entries, a, b)
    OBVIOUS
  <2>7. IsList(kept) /\ ToSet(kept) = From(a, b)
    <3>1. IsList(SubSeq(entries, a, b)) /\ ToSet(SubSeq(entries, a, b)) = {entries[j] : j \in a .. b}
      BY <2>5, SubSeqListed, SubSeqSet
    <3> QED BY <2>6, <3>1
  <2>8. PICK new : new = NewLevel(inner)
    OBVIOUS
  <2>9. /\ From(1, b) = From(1, n - i) \cup From(a, b)
        /\ From(a, n) = From(a, b) \cup From(b + 1, n)
    <3>1. From(1, b) = From(1, a - 1) \cup From(a - 1 + 1, b)
      <4>1. 1 \in Int /\ a - 1 \in Int /\ b \in Int /\ 1 <= a - 1 + 1 /\ a - 1 <= b
        BY <2>5
      <4> QED BY <4>1, RangeSplit
    <3>2. From(a, n) = From(a, b) \cup From(b + 1, n)
      BY <2>5, RangeSplit
    <3>3. a - 1 + 1 = a /\ a - 1 = n - i
      BY <2>5
    <3> HIDE DEF From
    <3> QED BY <3>1, <3>2, <3>3
  <2> HIDE DEF From
  <2>10. Reached((others \cup From(1, b)) \cup ToSet(inner.fields), inner.levels) /\ IsList(inner.levels)
    BY <2>3, <2>5
  <2>11. /\ IsList(new.levels)
         /\ OnLevels(new.levels) = OnLevels(inner.levels) \cup ToSet(inner.fields)
         /\ Reached((others \cup From(1, b)) \cup {new.entry}, new.levels)
         /\ new.entry.kind = "level" /\ new.entry.members = <<>>
    <3> HIDE DEF Good
    <3> QED BY <2>8, <2>10, NewLevelHolds
  <2>12. PICK fields, more : fields = Append(kept, new.entry) /\ more = new.levels
    OBVIOUS
  <2>13. IsList(fields) /\ ToSet(fields) = ToSet(kept) \cup {new.entry}
    BY <2>7, <2>12, AppendListed, AppendSet
  <2>14. PICK p : p = paged[i]
    OBVIOUS
  <2>15. p = [fields |-> fields, levels |-> more]
    <3>1. i \in 0 .. n
      OBVIOUS
    <3>2. p = LongPage(entries, i, inner)
      BY <1>2, <1>5, <2>1, <2>2, <2>14, <3>1
    <3> QED BY <1>1, <2>4, <2>6, <2>8, <2>12, <3>2 DEF LongPage
  <2>16. p.fields = fields /\ p.levels = more
    BY <2>15
  <2>17. (others \cup From(1, n - i)) \cup ToSet(fields) = (others \cup From(1, b)) \cup {new.entry}
    BY <2>7, <2>9, <2>13
  <2>18. Adds(ToSet(inner.fields) \cup OnLevels(inner.levels), From(b + 1, n) \cup OnLevels(levels))
    <3>1. n - before + 1 = b + 1
      BY <2>5
    <3> QED BY <2>3, <3>1
  <2>19. Adds(ToSet(fields) \cup OnLevels(more), From(a, n) \cup OnLevels(levels))
    BY <2>7, <2>9, <2>11, <2>12, <2>13, <2>18 DEF Adds
  <2>20. Good(p, i)
    BY <2>4, <2>11, <2>12, <2>13, <2>16, <2>17, <2>19
  <2> HIDE DEF Good
  <2> QED BY <2>14, <2>20
<1>6. n \in S
  <2> HIDE DEF S
  <2>1. 0 \in S
    <3>1. 0 \in 0 .. n /\ 0 <= MaxLevelEntries
      BY DEF MaxLevelEntries
    <3> QED BY <1>4, <3>1
  <2>2. ASSUME NEW i \in 1 .. n, \A j \in 0 .. i - 1 : j \in S
        PROVE  i \in S
    <3>1. CASE i <= MaxLevelEntries
      <4>1. i \in 0 .. n
        OBVIOUS
      <4> QED BY <1>4, <3>1, <4>1
    <3>2. CASE ~(i <= MaxLevelEntries)
      <4>1. i - (MaxLevelEntries - 1) \in 0 .. i - 1
        BY <3>2 DEF MaxLevelEntries
      <4> QED BY <1>5, <2>2, <3>2, <4>1
    <3> QED BY <3>1, <3>2
  <2>3. \A i \in 0 .. n : i \in S
    BY <1>1, <2>1, <2>2, UpTo
  <2> QED BY <1>1, <2>3
<1>7. PICK p : p = Paged(entries, levels)
  OBVIOUS
<1>8. Good(p, n)
  <2> HIDE DEF Good
  <2> QED BY <1>2, <1>6, <1>7
<1>9. From(1, n - n) = {} /\ n - n + 1 = 1
  OBVIOUS
<1> HIDE DEF From
<1>10. (others \cup From(1, n - n)) \cup ToSet(p.fields) = others \cup ToSet(p.fields)
  BY <1>9
<1> QED BY <1>3, <1>7, <1>8, <1>9, <1>10

LEMMA ReachedMore ==
    ASSUME NEW entries, NEW more, entries \subseteq more, NEW levels, Reached(entries, levels)
    PROVE  Reached(more, levels)
BY DEF Reached

(* A level of its own for a section.                                       *)
LEMMA NestedHolds ==
    ASSUME NEW section, IsList(section), NEW levels, IsList(levels), NEW others, Reached(others, levels)
    PROVE  /\ IsList(NestedLevel(section, levels).levels)
           /\ Reached(others \cup {NestedLevel(section, levels).entry}, NestedLevel(section, levels).levels)
           /\ Adds(OnLevels(NestedLevel(section, levels).levels), ToSet(section) \cup OnLevels(levels))
           /\ NestedLevel(section, levels).entry.kind = "level"
           /\ NestedLevel(section, levels).entry.members = <<>>
<1>1. PICK inner : inner = Paged(section, levels)
  OBVIOUS
<1>2. PICK new : new = NewLevel(inner)
  OBVIOUS
<1>3. new = NestedLevel(section, levels)
  BY <1>1, <1>2 DEF NestedLevel
<1>4. Reached(others \cup ToSet(section), levels)
  BY ReachedMore
<1>5. /\ IsList(inner.levels) /\ Reached(others \cup ToSet(inner.fields), inner.levels)
      /\ Adds(ToSet(inner.fields) \cup OnLevels(inner.levels), ToSet(section) \cup OnLevels(levels))
  BY <1>1, <1>4, PagedHold
<1>6. /\ IsList(new.levels) /\ Reached(others \cup {new.entry}, new.levels)
      /\ OnLevels(new.levels) = OnLevels(inner.levels) \cup ToSet(inner.fields)
      /\ new.entry.kind = "level" /\ new.entry.members = <<>>
  BY <1>2, <1>5, NewLevelHolds
<1>7. ToSet(inner.fields) \cup OnLevels(inner.levels) = OnLevels(new.levels)
  BY <1>6
<1> QED BY <1>3, <1>5, <1>6, <1>7

LEMMA SectionHolds ==
    ASSUME NEW folded, folded = [fields |-> folded.fields, levels |-> folded.levels],
           IsList(folded.fields), IsList(folded.levels), Reached(ToSet(folded.fields), folded.levels),
           NEW section, IsList(section)
    PROVE  /\ WithSection(folded, section) = [fields |-> WithSection(folded, section).fields,
                                              levels |-> WithSection(folded, section).levels]
           /\ IsList(WithSection(folded, section).fields) /\ IsList(WithSection(folded, section).levels)
           /\ Reached(ToSet(WithSection(folded, section).fields), WithSection(folded, section).levels)
           /\ Adds(ToSet(WithSection(folded, section).fields) \cup OnLevels(WithSection(folded, section).levels),
                   (ToSet(folded.fields) \cup OnLevels(folded.levels)) \cup ToSet(section))
<1>1. PICK fields, levels : fields = folded.fields /\ levels = folded.levels
  OBVIOUS
<1>2. /\ folded = [fields |-> fields, levels |-> levels]
      /\ IsList(fields) /\ IsList(levels) /\ Reached(ToSet(fields), levels)
  BY <1>1
<1>3. PICK made : made = WithSection(folded, section)
  OBVIOUS
<1>4. CASE Len(section) <= 1
  <2>1. PICK both : both = fields \o section
    OBVIOUS
  <2>2. made = [fields |-> both, levels |-> levels]
    BY <1>2, <1>3, <1>4, <2>1 DEF WithSection
  <2>3. IsList(both) /\ ToSet(both) = ToSet(fields) \cup ToSet(section)
    BY <1>2, <2>1, ConcatListed, ConcatSet
  <2>4. Reached(ToSet(both), levels)
    BY <1>2, <2>3, ReachedMore
  <2>5. Adds(ToSet(both) \cup OnLevels(levels), (ToSet(fields) \cup OnLevels(levels)) \cup ToSet(section))
    BY <2>3 DEF Adds
  <2>6. made.fields = both /\ made.levels = levels
    BY <2>2
  <2> QED BY <1>1, <1>2, <1>3, <2>2, <2>3, <2>4, <2>5, <2>6
<1>5. CASE ~(Len(section) <= 1)
  <2>1. PICK nested : nested = NestedLevel(section, levels)
    OBVIOUS
  <2>2. PICK more, way, both : more = nested.levels /\ way = nested.entry /\ both = Append(fields, nested.entry)
    OBVIOUS
  <2>3. made = [fields |-> both, levels |-> more]
    BY <1>2, <1>3, <1>5, <2>1, <2>2 DEF WithSection
  <2>4. /\ IsList(more) /\ Reached(ToSet(fields) \cup {way}, more)
        /\ Adds(OnLevels(more), ToSet(section) \cup OnLevels(levels))
        /\ way.kind = "level" /\ way.members = <<>>
    BY <1>2, <2>1, <2>2, NestedHolds
  <2>5. IsList(both) /\ ToSet(both) = ToSet(fields) \cup {way}
    BY <1>2, <2>2, AppendListed, AppendSet
  <2>6. Adds(ToSet(both) \cup OnLevels(more), (ToSet(fields) \cup OnLevels(levels)) \cup ToSet(section))
    BY <2>4, <2>5 DEF Adds
  <2>7. made.fields = both /\ made.levels = more
    BY <2>3
  <2> QED BY <1>1, <1>2, <1>3, <2>3, <2>4, <2>5, <2>6, <2>7
<1> QED BY <1>4, <1>5

LEMMA FoldedHold ==
    ASSUME NEW sections, IsParts(sections)
    PROVE  /\ IsList(FoldedEntries(sections).fields) /\ IsList(FoldedEntries(sections).levels)
           /\ Reached(ToSet(FoldedEntries(sections).fields), FoldedEntries(sections).levels)
           /\ Adds(ToSet(FoldedEntries(sections).fields) \cup OnLevels(FoldedEntries(sections).levels),
                   Held(sections))
<1>1. PICK n \in Nat : n = Len(sections)
  BY ListFacts DEF IsParts
<1>2. PICK folded : /\ FoldedEntries(sections) = folded[n]
                    /\ folded[0] = [fields |-> <<>>, levels |-> <<>>]
                    /\ \A i \in 1 .. n : folded[i] = WithSection(folded[i - 1], sections[i])
  BY <1>1, FoldedMade DEF IsParts
<1> DEFINE First(i) == UNION {ToSet(sections[j]) : j \in 1 .. i}
           Good(x, i) == /\ x = [fields |-> x.fields, levels |-> x.levels]
                         /\ IsList(x.fields) /\ IsList(x.levels)
                         /\ Reached(ToSet(x.fields), x.levels)
                         /\ Adds(ToSet(x.fields) \cup OnLevels(x.levels), First(i))
           S == {j \in 0 .. n : Good(folded[j], j)}
<1>3. 0 \in S
  <2>1. IsList(<<>>) /\ Len(<<>>) = 0 /\ ToSet(<<>>) = {}
    BY EmptyListed, ListFacts
  <2>2. Reached(ToSet(<<>>), <<>>) /\ OnLevels(<<>>) = {} /\ First(0) = {}
    BY <2>1 DEF Reached, OnLevels
  <2>3. Adds(ToSet(<<>>) \cup OnLevels(<<>>), First(0))
    BY <2>1, <2>2 DEF Adds
  <2>4. PICK nothing : nothing = folded[0]
    OBVIOUS
  <2>5. nothing = [fields |-> <<>>, levels |-> <<>>] /\ nothing.fields = <<>> /\ nothing.levels = <<>>
    BY <1>2, <2>4
  <2>6. Good(nothing, 0)
    <3> HIDE DEF First
    <3> QED BY <2>1, <2>2, <2>3, <2>5
  <2> HIDE DEF Good
  <2> QED BY <2>4, <2>6
<1>4. ASSUME NEW i \in 1 .. n, \A j \in 0 .. i - 1 : j \in S
      PROVE  i \in S
  <2>1. PICK before, section : before = folded[i - 1] /\ section = sections[i]
    OBVIOUS
  <2>2. PICK made : made = WithSection(before, section)
    OBVIOUS
  <2>3. folded[i] = made
    BY <1>2, <2>1, <2>2
  <2>4. Good(before, i - 1)
    <3>1. i - 1 \in S
      <4> HIDE DEF S
      <4> QED BY <1>4
    <3> QED BY <2>1, <3>1
  <2>5. IsList(section)
    BY <1>1, <2>1 DEF IsParts
  <2>6. First(i) = First(i - 1) \cup ToSet(section)
    <3>1. \A j : j \in 1 .. i <=> j \in 1 .. i - 1 \/ j = i
      OBVIOUS
    <3> QED BY <2>1, <3>1
  <2> HIDE DEF First
  <2>7. /\ made = [fields |-> made.fields, levels |-> made.levels]
        /\ IsList(made.fields) /\ IsList(made.levels) /\ Reached(ToSet(made.fields), made.levels)
        /\ Adds(ToSet(made.fields) \cup OnLevels(made.levels),
                (ToSet(before.fields) \cup OnLevels(before.levels)) \cup ToSet(section))
    BY <2>2, <2>4, <2>5, SectionHolds
  <2>8. Adds(ToSet(made.fields) \cup OnLevels(made.levels), First(i))
    BY <2>4, <2>6, <2>7 DEF Adds
  <2>9. Good(made, i)
    BY <2>7, <2>8
  <2> HIDE DEF Good
  <2> QED BY <2>3, <2>9
<1>5. n \in S
  <2> HIDE DEF S
  <2>1. \A i \in 0 .. n : i \in S
    BY <1>1, <1>3, <1>4, UpTo
  <2> QED BY <1>1, <2>1
<1>6. First(n) = Held(sections)
  BY <1>1 DEF Held
<1> HIDE DEF First
<1> QED BY <1>2, <1>5, <1>6

(* Whatever controls are laid out, however many: the entries of the root   *)
(* and of the levels offer all of them and nothing else, and every level   *)
(* has a way to it, on the root or on a level made after it: following the *)
(* ways back ends at the root (layoutDeclaration, foldedEntries, paged).  *)
THEOREM EveryControlHasAPlace ==
    ASSUME NEW controls, IsList(controls), NEW made, made = LayoutDeclaration(controls)
    PROVE  /\ Content(ToSet(made.fields) \cup OnLevels(made.levels)) = ToSet(controls)
           /\ \A i \in 1 .. Len(made.levels) :
                 \E e \in ToSet(made.fields) \cup Later(made.levels, i) :
                    e.kind = "level" /\ e.key = made.levels[i].key
<1>1. PICK sections : sections = DeclarationSections(controls)
  OBVIOUS
<1>2. IsParts(sections)
  BY <1>1, SectionsOffer DEF IsParts, Offers
<1>3. /\ \A i \in 1 .. Len(sections) : Filled(ToSet(sections[i]))
      /\ UNION {Content(ToSet(sections[i])) : i \in 1 .. Len(sections)} = ToSet(controls)
  BY <1>1, SectionsHold
<1>4. Filled(Held(sections)) /\ Content(Held(sections)) = ToSet(controls)
  <2>1. Filled(Held(sections))
    BY <1>3 DEF Filled, Held
  <2>2. ASSUME NEW c PROVE c \in Content(Held(sections)) <=> c \in ToSet(controls)
    <3>1. c \in Content(Held(sections)) <=>
             \E i \in 1 .. Len(sections) : \E e \in ToSet(sections[i]) : c \in ToSet(e.members)
      BY DEF Content, Held
    <3>2. c \in ToSet(controls) <=> \E i \in 1 .. Len(sections) : c \in Content(ToSet(sections[i]))
      BY <1>3
    <3> QED BY <3>1, <3>2 DEF Content
  <2> QED BY <2>1, <2>2
<1>5. PICK flat, folded : flat = FlattenSeq(sections) /\ folded = FoldedEntries(sections)
  OBVIOUS
<1>6. made = IF Len(flat) <= MaxLevelEntries THEN [fields |-> flat, levels |-> <<>>]
             ELSE Paged(folded.fields, folded.levels)
  BY <1>1, <1>5 DEF LayoutDeclaration
<1>7. /\ Reached(ToSet(made.fields), made.levels)
      /\ Adds(ToSet(made.fields) \cup OnLevels(made.levels), Held(sections))
  <2>1. CASE Len(flat) <= MaxLevelEntries
    <3>1. made.fields = flat /\ made.levels = <<>>
      BY <1>6, <2>1
    <3>2. ToSet(flat) = Held(sections)
      BY <1>2, <1>5, FlattenHolds DEF IsParts, Held
    <3>3. Reached(ToSet(flat), <<>>) /\ OnLevels(<<>>) = {}
      BY EmptyListed DEF Reached, OnLevels
    <3> QED BY <3>1, <3>2, <3>3 DEF Adds
  <2>2. CASE ~(Len(flat) <= MaxLevelEntries)
    <3>1. made = Paged(folded.fields, folded.levels)
      BY <1>6, <2>2
    <3>2. /\ IsList(folded.fields) /\ IsList(folded.levels) /\ Reached(ToSet(folded.fields), folded.levels)
          /\ Adds(ToSet(folded.fields) \cup OnLevels(folded.levels), Held(sections))
      BY <1>2, <1>5, FoldedHold
    <3>3. Reached({} \cup ToSet(folded.fields), folded.levels)
      BY <3>2, ReachedMore
    <3>4. /\ Reached({} \cup ToSet(made.fields), made.levels)
          /\ Adds(ToSet(made.fields) \cup OnLevels(made.levels), ToSet(folded.fields) \cup OnLevels(folded.levels))
      BY <3>1, <3>2, <3>3, PagedHold
    <3>5. Reached(ToSet(made.fields), made.levels)
      BY <3>4, ReachedMore
    <3>6. Adds(ToSet(made.fields) \cup OnLevels(made.levels), Held(sections))
      BY <3>2, <3>4 DEF Adds
    <3> QED BY <3>5, <3>6
  <2> QED BY <2>1, <2>2
<1>8. Content(ToSet(made.fields) \cup OnLevels(made.levels)) = ToSet(controls)
  BY <1>4, <1>7, AddsOffer
<1> QED BY <1>7, <1>8 DEF Reached

-------------------------------------------------------------------------------
(* The controls of every declaration that is opened are a list.            *)
LEMMA ChunkedListed ==
    ASSUME NEW s, Len(s) \in Nat, NEW size \in Nat \ {0}
    PROVE  /\ IsList(Chunked(s, size)) /\ Len(Chunked(s, size)) = (Len(s) + size - 1) \div size
           /\ Len(Chunked(s, size)) \in Nat
<1>1. (Len(s) + size - 1) \div size \in Nat
  BY SMT
<1>2. PICK n \in Nat : n = (Len(s) + size - 1) \div size
  BY <1>1
<1>3. PICK chunks : chunks = Chunked(s, size)
  OBVIOUS
<1>4. chunks = [i \in 1 .. n |-> SubSeq(s, (i - 1) * size + 1, Min({i * size, Len(s)}))]
  BY <1>2, <1>3 DEF Chunked
<1>5. DOMAIN chunks = 1 .. n /\ chunks = [i \in 1 .. n |-> chunks[i]]
  BY <1>4
<1> QED BY <1>2, <1>3, <1>5, FunctionListed

LEMMA FieldControlsListed ==
    ASSUME NEW f, f.choices \in Seq(ToSet(f.choices)), NEW options
    PROVE  IsList(FieldControls(f, options))
<1>1. CASE f.kind = "toggles"
  <2>1. PICK chunks : chunks = Chunked(f.choices, MaxSelectOptions)
    OBVIOUS
  <2>2. Len(f.choices) \in Nat /\ MaxSelectOptions \in Nat \ {0}
    BY LenProperties DEF MaxSelectOptions
  <2>3. IsList(chunks) /\ Len(chunks) \in Nat /\ DOMAIN chunks = 1 .. Len(chunks)
    BY <2>1, <2>2, ChunkedListed, ListFacts
  <2>4. PICK made : made = TogglesControls(f)
    OBVIOUS
  <2>5. DOMAIN made = 1 .. Len(chunks) /\ made = [i \in 1 .. Len(chunks) |-> made[i]]
    BY <2>1, <2>3, <2>4 DEF TogglesControls
  <2>6. IsList(made)
    BY <2>3, <2>5, FunctionListed
  <2> QED BY <1>1, <2>4, <2>6 DEF FieldControls
<1>2. CASE f.kind # "toggles"
  <2>1. \A x, y : IsList(<<x, y>>)
    <3> TAKE x, y
    <3>1. <<x, y>> \in Seq({x, y})
      OBVIOUS
    <3> QED BY <3>1, Listed
  <2>2. \A offered : IsList(SearchControls(f, offered))
    BY <2>1, OneListed DEF SearchControls
  <2> QED BY <1>2, <2>2, OneListed DEF FieldControls
<1> QED BY <1>1, <1>2

LEMMA ControlsListed ==
    ASSUME NEW s \in ToSet(Scenarios), NEW options
    PROVE  IsList(DisplayedControls(s.declaration, options))
<1>1. PICK decl : decl = s.declaration
  OBVIOUS
<1>2. PICK order : order = DisplayOrder(decl)
  OBVIOUS
<1>3. /\ IsList(order) /\ Len(order) \in Nat /\ DOMAIN order = 1 .. Len(order)
      /\ \A i \in 1 .. Len(order) : order[i].fields \in Seq(Keys(decl))
      /\ \A f \in ToSet(decl.fields) : f.choices \in Seq(ToSet(f.choices))
  <2>1. /\ order \in Seq(ToSet(order))
        /\ \A place \in ToSet(order) : place.fields \in Seq(Keys(decl))
        /\ \A f \in ToSet(decl.fields) : f.choices \in Seq(ToSet(f.choices))
    BY <1>1, <1>2, OrderAssumption
  <2>2. IsList(order)
    BY <2>1 DEF IsList
  <2> QED BY <2>1, <2>2, ListFacts
<1>4. PICK parts : parts = [i \in DOMAIN order |-> order[i].fields]
  OBVIOUS
<1>5. /\ IsList(parts) /\ Len(parts) = Len(order)
      /\ \A i \in 1 .. Len(parts) : parts[i] = order[i].fields
  BY <1>3, <1>4, FunctionListed
<1>6. \A i \in 1 .. Len(parts) : IsList(parts[i]) /\ ToSet(parts[i]) \subseteq Keys(decl)
  <2> TAKE i \in 1 .. Len(parts)
  <2>1. parts[i] \in Seq(Keys(decl))
    BY <1>3, <1>5
  <2>2. IsList(parts[i])
    BY <2>1, Listed
  <2>3. \A e \in ToSet(parts[i]) : e \in Keys(decl)
    BY <2>1, <2>2, ListFacts, ElementOfSeq
  <2> QED BY <2>2, <2>3
<1>7. PICK keys : keys = FlattenSeq(parts)
  OBVIOUS
<1>8. /\ IsList(keys) /\ ToSet(keys) \subseteq Keys(decl)
      /\ Len(keys) \in Nat /\ DOMAIN keys = 1 .. Len(keys)
  BY <1>5, <1>6, <1>7, FlattenListed, ListFacts
<1>9. PICK all : all = [i \in DOMAIN keys |-> FieldControls(FieldAt(decl, keys[i]), options)]
  OBVIOUS
<1>10. /\ IsList(all) /\ Len(all) = Len(keys)
       /\ \A i \in 1 .. Len(all) : all[i] = FieldControls(FieldAt(decl, keys[i]), options)
  BY <1>8, <1>9, FunctionListed
<1>11. ASSUME NEW i \in 1 .. Len(all) PROVE IsList(all[i])
  <2>1. keys[i] \in Keys(decl)
    BY <1>8, <1>10, ListFacts
  <2>2. FieldAt(decl, keys[i]) \in ToSet(decl.fields)
    BY <2>1 DEF FieldAt, Keys
  <2> QED BY <1>3, <1>10, <2>2, FieldControlsListed
<1>12. IsList(FlattenSeq(all))
  BY <1>10, <1>11, FlattenListed
<1> QED BY <1>1, <1>2, <1>4, <1>7, <1>9, <1>12 DEF DisplayedControls

-------------------------------------------------------------------------------
(* What a card carries, part by part.                                      *)
Counted(blocks) == IsList(blocks) /\ \A i \in 1 .. Len(blocks) : ComponentCount(blocks[i]) \in Nat

(* The sum of the first blocks, card included.                             *)
Summed(blocks, cost) ==
    /\ cost[0] = 1
    /\ \A i \in 1 .. Len(blocks) : cost[i] = cost[i - 1] + ComponentCount(blocks[i])
    /\ \A i \in 0 .. Len(blocks) : cost[i] \in Nat

LEMMA CardCost ==
    ASSUME NEW blocks, Counted(blocks)
    PROVE  \E cost : Summed(blocks, cost) /\ CardComponents(blocks) = cost[Len(blocks)]
<1> DEFINE n == Len(blocks)
           Made(k, f) == f = [i \in 0 .. k |-> IF i = 0 THEN 1 ELSE f[i - 1] + ComponentCount(blocks[i])]
<1>1. n \in Nat
  BY ListFacts DEF Counted
<1>2. \E f : Made(n, f)
  <2> DEFINE S == {k \in 0 .. n : \E f : Made(k, f)}
  <2>1. 0 \in S
    <3>1. PICK f : f = [i \in 0 .. 0 |-> 1]
      OBVIOUS
    <3>2. Made(0, f)
      BY <3>1
    <3> HIDE DEF Made
    <3> QED BY <1>1, <3>2
  <2>2. ASSUME NEW i \in 1 .. n, \A j \in 0 .. i - 1 : j \in S
        PROVE  i \in S
    <3>1. i - 1 \in S
      <4> HIDE DEF S
      <4> QED BY <2>2
    <3>2. PICK f : Made(i - 1, f)
      <4> HIDE DEF Made
      <4> QED BY <3>1
    <3>3. PICK g : g = [j \in 0 .. i |-> IF j = i THEN f[i - 1] + ComponentCount(blocks[i]) ELSE f[j]]
      OBVIOUS
    <3>4. Made(i, g)
      BY <3>2, <3>3
    <3> HIDE DEF Made
    <3> QED BY <3>4
  <2> HIDE DEF S
  <2>3. \A i \in 0 .. n : i \in S
    BY <1>1, <2>1, <2>2, UpTo
  <2> HIDE DEF Made
  <2> QED BY <1>1, <2>3 DEF S
<1> DEFINE cost == CHOOSE f : Made(n, f)
<1>3. Made(n, cost)
  BY <1>2
<1>4. CardComponents(blocks) = cost[n]
  BY DEF CardComponents
<1> HIDE DEF cost
<1> DEFINE S == {i \in 0 .. n : cost[i] \in Nat}
<1>5. 0 \in S
  BY <1>1, <1>3
<1>6. ASSUME NEW i \in 1 .. n, \A j \in 0 .. i - 1 : j \in S
      PROVE  i \in S
  <2>1. cost[i] = cost[i - 1] + ComponentCount(blocks[i])
    BY <1>3
  <2>2. i - 1 \in S
    <3> HIDE DEF S
    <3> QED BY <1>6
  <2> QED BY <2>1, <2>2 DEF Counted
<1>7. \A i \in 0 .. n : i \in S
  <2> HIDE DEF S
  <2> QED BY <1>1, <1>5, <1>6, UpTo
<1>8. cost[0] = 1 /\ \A i \in 1 .. n : cost[i] = cost[i - 1] + ComponentCount(blocks[i])
  BY <1>1, <1>3
<1> QED BY <1>4, <1>7, <1>8 DEF Summed

LEMMA JoinedCost ==
    ASSUME NEW s, Counted(s), NEW t, Counted(t)
    PROVE  Counted(s \o t) /\ CardComponents(s \o t) = CardComponents(s) + CardComponents(t) - 1
<1>1. PICK u : u = s \o t
  OBVIOUS
<1>2. PICK m, n \in Nat : m = Len(s) /\ n = Len(t)
  BY ListFacts DEF Counted
<1>3. m \in Nat
  BY <1>2, ListFacts DEF Counted
<1>4. /\ IsList(u) /\ Len(u) = m + n
      /\ \A i \in 1 .. m + n : u[i] = IF i <= m THEN s[i] ELSE t[i - m]
  BY <1>1, <1>2, ConcatListed DEF Counted
<1>5. /\ \A i \in 1 .. m : u[i] = s[i]
      /\ \A i \in 1 .. n : u[m + i] = t[i]
  <2>1. ASSUME NEW i \in 1 .. m PROVE u[i] = s[i]
    BY <1>2, <1>3, <1>4
  <2>2. ASSUME NEW i \in 1 .. n PROVE u[m + i] = t[i]
    <3>1. m + i \in 1 .. m + n /\ ~(m + i <= m) /\ (m + i) - m = i
      BY <1>2, <1>3
    <3>2. u[m + i] = t[(m + i) - m]
      BY <1>4, <3>1
    <3> QED BY <3>1, <3>2
  <2> QED BY <2>1, <2>2
<1>6. Counted(u)
  <2>1. ASSUME NEW i \in 1 .. m + n PROVE ComponentCount(u[i]) \in Nat
    <3>1. CASE i <= m
      BY <1>2, <1>3, <1>5, <3>1 DEF Counted
    <3>2. CASE ~(i <= m)
      <4>1. i - m \in 1 .. n /\ u[i] = t[i - m]
        BY <1>2, <1>3, <1>4, <3>2
      <4> QED BY <1>2, <4>1 DEF Counted
    <3> QED BY <3>1, <3>2
  <2> QED BY <1>4, <2>1 DEF Counted
<1>7. PICK a : Summed(s, a) /\ CardComponents(s) = a[m]
  BY <1>2, CardCost
<1>8. PICK b : Summed(t, b) /\ CardComponents(t) = b[n]
  BY <1>2, CardCost
<1>9. PICK c : Summed(u, c) /\ CardComponents(u) = c[m + n]
  BY <1>4, <1>6, CardCost
<1>10. /\ a[0] = 1 /\ \A i \in 1 .. m : a[i] = a[i - 1] + ComponentCount(s[i])
       /\ b[0] = 1 /\ \A i \in 1 .. n : b[i] = b[i - 1] + ComponentCount(t[i])
       /\ c[0] = 1 /\ \A i \in 1 .. m + n : c[i] = c[i - 1] + ComponentCount(u[i])
  BY <1>2, <1>4, <1>7, <1>8, <1>9 DEF Summed
<1>11. c[m] = a[m]
  <2> DEFINE S == {i \in 0 .. m : c[i] = a[i]}
  <2>1. 0 \in S
    BY <1>3, <1>10
  <2>2. ASSUME NEW i \in 1 .. m, \A j \in 0 .. i - 1 : j \in S
        PROVE  i \in S
    <3>1. i - 1 \in S
      <4> HIDE DEF S
      <4> QED BY <2>2
    <3>2. c[i - 1] = a[i - 1]
      BY <3>1
    <3>3. c[i] = c[i - 1] + ComponentCount(u[i])
      BY <1>2, <1>3, <1>10
    <3>4. a[i] = a[i - 1] + ComponentCount(s[i]) /\ u[i] = s[i]
      BY <1>5, <1>10
    <3> QED BY <3>2, <3>3, <3>4
  <2>3. \A i \in 0 .. m : i \in S
    <3> HIDE DEF S
    <3> QED BY <1>3, <2>1, <2>2, UpTo
  <2> QED BY <1>3, <2>3
<1>12. c[m + n] = a[m] + b[n] - 1
  <2> DEFINE S == {i \in 0 .. n : c[m + i] = a[m] + b[i] - 1}
  <2>1. 0 \in S
    BY <1>2, <1>3, <1>7, <1>10, <1>11 DEF Summed
  <2>2. ASSUME NEW i \in 1 .. n, \A j \in 0 .. i - 1 : j \in S
        PROVE  i \in S
    <3>1. i - 1 \in S
      <4> HIDE DEF S
      <4> QED BY <2>2
    <3>2. m + i \in 1 .. m + n /\ m + i - 1 = m + (i - 1) /\ u[m + i] = t[i]
      BY <1>2, <1>3, <1>5
    <3>3. c[m + i] = c[m + (i - 1)] + ComponentCount(t[i])
      BY <1>10, <3>2
    <3>4. b[i] = b[i - 1] + ComponentCount(t[i])
      BY <1>10
    <3>5. ComponentCount(t[i]) \in Nat /\ b[i - 1] \in Nat /\ a[m] \in Nat
      BY <1>2, <1>3, <1>7, <1>8 DEF Counted, Summed
    <3> QED BY <3>1, <3>3, <3>4, <3>5
  <2>3. \A i \in 0 .. n : i \in S
    <3> HIDE DEF S
    <3> QED BY <1>2, <2>1, <2>2, UpTo
  <2> QED BY <1>2, <2>3
<1> QED BY <1>1, <1>6, <1>7, <1>8, <1>9, <1>12

(* Blocks that cost no more than w each, of which there are no more than k.*)
LEMMA UniformCost ==
    ASSUME NEW w \in {1, 2, 3, 6}, NEW s, IsList(s),
           \A i \in 1 .. Len(s) : ComponentCount(s[i]) \in 0 .. w
    PROVE  Counted(s) /\ CardComponents(s) \in Nat /\ CardComponents(s) <= 1 + w * Len(s)
<1>1. Counted(s)
  BY DEF Counted
<1>2. PICK n \in Nat : n = Len(s)
  BY ListFacts
<1>3. PICK c : Summed(s, c) /\ CardComponents(s) = c[n]
  BY <1>1, <1>2, CardCost
<1>4. /\ c[0] = 1 /\ \A i \in 1 .. n : c[i] = c[i - 1] + ComponentCount(s[i])
      /\ \A i \in 0 .. n : c[i] \in Nat
  BY <1>2, <1>3 DEF Summed
<1>5. c[n] <= 1 + w * n
  <2> DEFINE S == {i \in 0 .. n : c[i] <= 1 + w * i}
  <2>1. 0 \in S
    BY <1>2, <1>4
  <2>2. ASSUME NEW i \in 1 .. n, \A j \in 0 .. i - 1 : j \in S
        PROVE  i \in S
    <3>1. i - 1 \in S
      <4> HIDE DEF S
      <4> QED BY <2>2
    <3>2. c[i] = c[i - 1] + ComponentCount(s[i]) /\ c[i] \in Nat /\ c[i - 1] \in Nat
      BY <1>3, <1>4
    <3>3. PICK k \in 0 .. w : k = ComponentCount(s[i])
      BY <1>2
    <3>4. c[i - 1] <= 1 + w * (i - 1)
      BY <3>1
    <3>5. c[i] <= 1 + w * i
      <4>1. CASE w = 1
        BY <3>2, <3>3, <3>4, <4>1
      <4>2. CASE w = 2
        BY <3>2, <3>3, <3>4, <4>2
      <4>3. CASE w = 3
        BY <3>2, <3>3, <3>4, <4>3
      <4>4. CASE w = 6
        BY <3>2, <3>3, <3>4, <4>4
      <4> QED BY <4>1, <4>2, <4>3, <4>4
    <3> QED BY <3>5
  <2>3. \A i \in 0 .. n : i \in S
    <3> HIDE DEF S
    <3> QED BY <1>2, <2>1, <2>2, UpTo
  <2> QED BY <1>2, <2>3
<1> QED BY <1>1, <1>2, <1>3, <1>4, <1>5

(* No more than so many components, the card itself aside.                 *)
AtMost(blocks, n) == Counted(blocks) /\ CardComponents(blocks) \in Nat /\ CardComponents(blocks) <= 1 + n

LEMMA JoinAtMost ==
    ASSUME NEW s, NEW t, NEW m \in Nat, NEW n \in Nat, AtMost(s, m), AtMost(t, n)
    PROVE  AtMost(s \o t, m + n)
<1>1. PICK a, b : a = CardComponents(s) /\ b = CardComponents(t)
  OBVIOUS
<1>2. a \in Nat /\ b \in Nat /\ a <= 1 + m /\ b <= 1 + n /\ Counted(s) /\ Counted(t)
  BY <1>1 DEF AtMost
<1>3. Counted(s \o t) /\ CardComponents(s \o t) = a + b - 1
  BY <1>1, <1>2, JoinedCost
<1>4. a >= 1
  <2>1. PICK cost : Summed(s, cost) /\ CardComponents(s) = cost[Len(s)]
    BY <1>2, CardCost
  <2>2. PICK k \in Nat : k = Len(s)
    BY <1>2, ListFacts DEF Counted
  <2>3. /\ cost[0] = 1 /\ \A i \in 1 .. k : cost[i] = cost[i - 1] + ComponentCount(s[i])
        /\ \A i \in 0 .. k : cost[i] \in Nat
    BY <2>1, <2>2 DEF Summed
  <2> DEFINE S == {i \in 0 .. k : cost[i] >= 1}
  <2>4. 0 \in S
    BY <2>2, <2>3
  <2>5. ASSUME NEW i \in 1 .. k, \A j \in 0 .. i - 1 : j \in S
        PROVE  i \in S
    <3>1. i - 1 \in S
      <4> HIDE DEF S
      <4> QED BY <2>5
    <3>2. ComponentCount(s[i]) \in Nat /\ cost[i - 1] \in Nat
      BY <1>2, <2>2, <2>3 DEF Counted
    <3> QED BY <2>3, <3>1, <3>2
  <2>6. \A i \in 0 .. k : i \in S
    <3> HIDE DEF S
    <3> QED BY <2>2, <2>4, <2>5, UpTo
  <2> QED BY <1>1, <2>1, <2>2, <2>6
<1> QED BY <1>2, <1>3, <1>4 DEF AtMost

LEMMA UniformAtMost ==
    ASSUME NEW w \in {1, 2, 3, 6}, NEW s, IsList(s), NEW n \in Nat, w * Len(s) <= n,
           \A i \in 1 .. Len(s) : ComponentCount(s[i]) \in 0 .. w
    PROVE  AtMost(s, n)
<1>1. PICK k \in Nat : k = Len(s)
  BY ListFacts
<1>2. Counted(s) /\ CardComponents(s) \in Nat /\ CardComponents(s) <= 1 + w * k
  BY <1>1, UniformCost
<1>3. w * k <= n /\ w * k \in Nat
  BY <1>1
<1> QED BY <1>2, <1>3 DEF AtMost

LEMMA BlockCosts ==
    /\ \A of : ComponentCount(Block("text", of)) = 1 /\ ComponentCount(Block("separator", of)) = 1
    /\ ComponentCount(Block("entry", <<>>)) = 1
    /\ \A of : ComponentCount(Block("entry", of)) \in {1, 3}
    /\ \A of : ComponentCount(Block("controls", of)) = 1 + Len(of)
BY DEF ComponentCount, Block

(* A level there is, whatever the key.                                     *)
LEMMA LevelThere ==
    ASSUME NEW made, IsList(made.levels), NEW key
    PROVE  LevelAt(made, key) \in ToSet(AllLevels(made))
<1>1. PICK all : all = AllLevels(made)
  OBVIOUS
<1>2. IsList(all) /\ Len(all) \in Nat /\ Len(all) >= 1
  <2>1. Len(made.levels) \in Nat
    BY ListFacts
  <2> QED BY <1>1, <2>1, OneListed, ConcatListed DEF AllLevels
<1> DEFINE I == {i \in 1 .. Len(all) : all[i].key = key}
<1>3. PICK n : n = SelectInSeq(all, LAMBDA l : l.key = key)
  OBVIOUS
<1>4. n = IF I # {} THEN Min(I) ELSE 0
  BY <1>3 DEF SelectInSeq
<1>5. n \in 0 .. Len(all)
  <2>1. CASE I = {}
    BY <1>2, <1>4, <2>1
  <2>2. CASE I # {}
    <3>1. I \in SUBSET Nat
      OBVIOUS
    <3>2. Min(I) \in I
      <4> HIDE DEF I
      <4> QED BY <2>2, <3>1, MinIsThere
    <3>3. n \in 1 .. Len(all)
      BY <1>4, <2>2, <3>2
    <3> QED BY <1>2, <3>3
  <2> QED BY <2>1, <2>2
<1>6. (IF n = 0 THEN 1 ELSE n) \in 1 .. Len(all)
  BY <1>2, <1>5
<1>7. LevelAt(made, key) = all[IF n = 0 THEN 1 ELSE n]
  BY <1>1, <1>3 DEF LevelAt
<1> QED BY <1>1, <1>2, <1>6, <1>7, ListFacts

(* Rows of five, of which twenty buttons fill four.                        *)
LEMMA ButtonRows ==
    ASSUME NEW buttons, IsList(buttons), Len(buttons) <= MaxButtonLevelEntries
    PROVE  LET rows == Chunked(buttons, ButtonsPerRow)
           IN  /\ IsList(rows) /\ Len(rows) \in 0 .. 4
               /\ \A i \in 1 .. Len(rows) : Len(rows[i]) \in 0 .. 5
<1>1. PICK n \in Nat : n = Len(buttons)
  BY ListFacts
<1>2. n <= 20
  BY <1>1 DEF MaxButtonLevelEntries
<1>3. PICK rows : rows = Chunked(buttons, 5)
  OBVIOUS
<1>4. IsList(rows) /\ Len(rows) = (n + 5 - 1) \div 5 /\ Len(rows) \in Nat
  BY <1>1, <1>3, ChunkedListed
<1>5. Len(rows) \in 0 .. 4
  BY <1>2, <1>4
<1>6. DOMAIN rows = 1 .. Len(rows)
  BY <1>4, ListFacts
<1>7. ASSUME NEW i \in 1 .. Len(rows)
      PROVE  Len(rows[i]) \in 0 .. 5
  <2>1. rows[i] = SubSeq(buttons, (i - 1) * 5 + 1, Min({i * 5, n}))
    BY <1>1, <1>3, <1>6, <1>7 DEF Chunked
  <2>2. PICK last : last = Min({i * 5, n})
    OBVIOUS
  <2>3. last \in Nat /\ last <= i * 5 /\ last <= n
    <3>1. PICK k \in Nat : k = i * 5
      OBVIOUS
    <3>2. {k, n} \in SUBSET Nat /\ {k, n} # {}
      OBVIOUS
    <3>3. Min({k, n}) \in {k, n} /\ \A j \in {k, n} : Min({k, n}) <= j
      BY <3>2, MinIsThere
    <3> QED BY <2>2, <3>1, <3>3
  <2>4. PICK first \in Int : first = (i - 1) * 5 + 1 /\ first >= 1
    OBVIOUS
  <2>5. Len(SubSeq(buttons, first, last)) = IF first <= last THEN last - first + 1 ELSE 0
    BY <1>1, <2>3, <2>4, SubSeqListed
  <2>6. (IF first <= last THEN last - first + 1 ELSE 0) \in 0 .. 5
    BY <2>3, <2>4
  <2> QED BY <2>1, <2>2, <2>4, <2>5, <2>6
<1> QED BY <1>3, <1>4, <1>5, <1>7 DEF ButtonsPerRow

-------------------------------------------------------------------------------
(* What frames the screen, and what is laid out on it.                     *)
Frames(c) ==
    /\ c.layout \in {"card", "embeds"} /\ c.extra \in Nat /\ c.preview \in Nat /\ c.actions \in Nat
    /\ c.layout = "card" => 2 * c.extra + c.preview <= 1 /\ c.actions <= EntryActionsReserve
    /\ c.layout = "embeds" => c.extra + 2 <= MaxRows

Laid(made) ==
    /\ Above(made.fields, made.levels)
    /\ \A level \in ToSet(AllLevels(made)) : IsList(level.fields)

LEMMA ButtonsFit ==
    ASSUME NEW c, Frames(c), c.layout = "card", NEW made, Laid(made), ~ViewRefuses(c, made),
           NEW level \in ToSet(AllLevels(made)), AsButtons(c, level), NEW s
    PROVE  IsList(LevelButtons(c, level, s)) /\ Len(LevelButtons(c, level, s)) <= MaxButtonLevelEntries
<1>1. PICK n \in Nat : n = Len(level.fields) /\ IsList(level.fields)
  BY ListFacts DEF Laid
<1>2. c.actions \in 0 .. 2
  BY DEF Frames, EntryActionsReserve
<1>3. /\ c.actions = 0 => n <= 20
      /\ c.actions # 0 => n <= 18
  <2>1. ~(n + (IF c.actions = 0 THEN 0 ELSE EntryActionsReserve) > MaxButtonLevelEntries)
    BY <1>1 DEF ViewRefuses
  <2> QED BY <1>2, <2>1 DEF EntryActionsReserve, MaxButtonLevelEntries
<1>4. \A k \in Nat : IsList([i \in 1 .. k |-> "action"]) /\ Len([i \in 1 .. k |-> "action"]) = k
  <2> TAKE k \in Nat
  <2>1. PICK f : f = [i \in 1 .. k |-> "action"]
    OBVIOUS
  <2> QED BY <2>1, FunctionListed
<1>5. PICK own : own = [i \in DOMAIN level.fields |-> level.fields[i].key]
  OBVIOUS
<1>6. IsList(own) /\ Len(own) = n
  BY <1>1, <1>5, ListFacts, FunctionListed
<1>7. PICK k \in Nat : k = c.actions
  BY <1>2
<1>8. PICK actions : actions = [i \in 1 .. k |-> "action"]
  OBVIOUS
<1>9. IsList(own \o actions) /\ Len(own \o actions) = n + k
  <2>1. IsList(actions) /\ Len(actions) = k
    BY <1>4, <1>7, <1>8
  <2> QED BY <1>6, <2>1, ConcatListed
<1>10. PICK buttons : buttons = LevelButtons(c, level, s)
  OBVIOUS
<1>11. CASE s.confirming = None
  <2>1. buttons = own \o actions
    BY <1>5, <1>7, <1>8, <1>10, <1>11 DEF LevelButtons
  <2> QED BY <1>1, <1>2, <1>3, <1>7, <1>9, <1>10, <2>1 DEF MaxButtonLevelEntries
<1>12. CASE s.confirming # None /\ c.actions = 0
  <2>1. buttons = <<>>
    BY <1>10, <1>12 DEF LevelButtons
  <2> QED BY <1>10, <2>1, EmptyListed DEF MaxButtonLevelEntries
<1>13. CASE s.confirming # None /\ c.actions # 0
  <2>1. buttons = [i \in 1 .. 2 |-> "action"]
    BY <1>10, <1>13 DEF LevelButtons, EntryActionsReserve
  <2>2. IsList(buttons) /\ Len(buttons) = 2
    BY <1>4, <2>1
  <2> QED BY <1>10, <2>2 DEF MaxButtonLevelEntries
<1> QED BY <1>11, <1>12, <1>13

(* The entries of any level, as sections or as rows.                       *)
LEMMA EntriesFit ==
    ASSUME NEW c, Frames(c), c.layout = "card", NEW made, Laid(made), ~ViewRefuses(c, made),
           NEW level \in ToSet(AllLevels(made)), NEW s, NEW entries,
           entries = LET rows == Chunked(LevelButtons(c, level, s), ButtonsPerRow)
                     IN  IF AsButtons(c, level)
                         THEN [i \in DOMAIN rows |-> Block("controls", rows[i])]
                         ELSE [i \in DOMAIN level.fields |-> Block("entry", <<level.fields[i].key>>)]
    PROVE  AtMost(entries, 30)
<1>1. CASE AsButtons(c, level)
  <2>1. PICK rows : rows = Chunked(LevelButtons(c, level, s), ButtonsPerRow)
    OBVIOUS
  <2>2. /\ IsList(rows) /\ Len(rows) \in 0 .. 4
        /\ \A i \in 1 .. Len(rows) : Len(rows[i]) \in 0 .. 5
    BY <1>1, <2>1, ButtonsFit, ButtonRows
  <2>3. entries = [i \in 1 .. Len(rows) |-> Block("controls", rows[i])]
    BY <1>1, <2>1, <2>2, ListFacts
  <2>4. IsList(entries) /\ Len(entries) = Len(rows)
    BY <2>2, <2>3, FunctionListed
  <2>5. ASSUME NEW i \in 1 .. Len(entries) PROVE ComponentCount(entries[i]) \in 0 .. 6
    <3>1. i \in 1 .. Len(rows) /\ entries[i] = Block("controls", rows[i])
      BY <2>3, <2>4
    <3>2. ComponentCount(entries[i]) = 1 + Len(rows[i])
      BY <3>1, BlockCosts
    <3>3. PICK k \in 0 .. 5 : k = Len(rows[i])
      BY <2>2, <3>1
    <3>4. 1 + k \in 0 .. 6
      OBVIOUS
    <3> QED BY <3>2, <3>3, <3>4
  <2>6. 6 * Len(entries) <= 30
    BY <2>2, <2>4
  <2> QED BY <2>4, <2>5, <2>6, UniformAtMost
<1>2. CASE ~AsButtons(c, level)
  <2>1. PICK n \in Nat : n = Len(level.fields) /\ IsList(level.fields) /\ DOMAIN level.fields = 1 .. n
    BY ListFacts DEF Laid
  <2>2. n <= 10
    <3>1. ~(n > MaxLevelEntries)
      BY <1>2, <2>1 DEF ViewRefuses
    <3> QED BY <2>1, <3>1 DEF MaxLevelEntries
  <2>3. entries = [i \in 1 .. n |-> Block("entry", <<level.fields[i].key>>)]
    BY <1>2, <2>1
  <2>4. IsList(entries) /\ Len(entries) = n
    BY <2>1, <2>3, FunctionListed
  <2>5. ASSUME NEW i \in 1 .. Len(entries)
        PROVE  ComponentCount(entries[i]) \in 0 .. 3
    <3>1. PICK of : entries[i] = Block("entry", of)
      BY <2>3, <2>4
    <3> QED BY <3>1, BlockCosts
  <2>6. 3 * Len(entries) <= 30
    BY <2>2, <2>4
  <2> QED BY <2>4, <2>5, <2>6, UniformAtMost
<1> QED BY <1>1, <1>2

LEMMA OneAtMost ==
    ASSUME NEW block, ComponentCount(block) = 1
    PROVE  AtMost(<<block>>, 1)
<1>1. PICK one : one = <<block>>
  OBVIOUS
<1>2. IsList(one) /\ Len(one) = 1 /\ one[1] = block
  BY <1>1, OneListed
<1>3. \A i \in 1 .. Len(one) : ComponentCount(one[i]) \in 0 .. 1
  BY <1>2
<1>4. 1 * Len(one) <= 1
  BY <1>2
<1>5. AtMost(one, 1)
  BY <1>2, <1>3, <1>4, UniformAtMost
<1> QED BY <1>1, <1>5

LEMMA NoticeFits ==
    ASSUME NEW c, NEW s
    PROVE  AtMost(NoticeBlocks(c, s), 1)
<1>1. AtMost(<<>>, 1)
  BY EmptyListed, UniformAtMost
<1> QED BY <1>1, OneAtMost, BlockCosts DEF NoticeBlocks

LEMMA OpenFits ==
    ASSUME NEW c, Frames(c), c.layout = "card", NEW made, Laid(made), ~ViewRefuses(c, made), NEW s
    PROVE  AtMost(OpenBlocks(c, made, s), 36)
<1>1. PICK x, p \in Nat : x = c.extra /\ p = c.preview
  BY DEF Frames
<1>2. x \in Nat /\ 2 * x + p <= 1
  BY <1>1 DEF Frames
<1>3. PICK level : level = CurrentLevel(made, s)
  OBVIOUS
<1>4. level \in ToSet(AllLevels(made))
  BY <1>3, LevelThere DEF CurrentLevel, Laid, Above, LevelsSound
<1>5. PICK b1, b2, b3, b4, b5, b7 :
        /\ b1 = <<Block("text", <<>>)>> /\ b2 = NoticeBlocks(c, s)
        /\ b3 = [i \in 1 .. x |-> Block("controls", <<"extra">>)]
        /\ b4 = <<Block("separator", <<>>)>>
        /\ b5 = [i \in 1 .. p |-> Block("text", <<>>)]
        /\ b7 = LET rows == Chunked(LevelButtons(c, level, s), ButtonsPerRow)
                IN  IF AsButtons(c, level)
                    THEN [i \in DOMAIN rows |-> Block("controls", rows[i])]
                    ELSE [i \in DOMAIN level.fields |-> Block("entry", <<level.fields[i].key>>)]
  OBVIOUS
<1>6. OpenBlocks(c, made, s) = b1 \o b2 \o b3 \o b4 \o b5 \o b4 \o b7 \o b1
  BY <1>1, <1>3, <1>5 DEF OpenBlocks
<1>7. AtMost(b1, 1) /\ AtMost(b4, 1)
  BY <1>5, OneAtMost, BlockCosts
<1>8. AtMost(b2, 1)
  BY <1>5, NoticeFits
<1>9. AtMost(b3, 2 * x)
  <2>1. IsList(b3) /\ Len(b3) = x
    BY <1>2, <1>5, FunctionListed
  <2>2. ASSUME NEW i \in 1 .. Len(b3) PROVE ComponentCount(b3[i]) \in 0 .. 2
    <3>1. b3[i] = Block("controls", <<"extra">>)
      BY <1>5, <2>1
    <3>2. Len(<<"extra">>) = 1
      BY OneListed
    <3>3. ComponentCount(b3[i]) = 1 + 1
      BY <3>1, <3>2, BlockCosts
    <3> QED BY <3>3
  <2> QED BY <1>2, <2>1, <2>2, UniformAtMost
<1>10. AtMost(b5, p)
  <2>1. IsList(b5) /\ Len(b5) = p
    BY <1>5, FunctionListed
  <2>2. \A i \in 1 .. Len(b5) : ComponentCount(b5[i]) \in 0 .. 1
    BY <1>5, <2>1, BlockCosts
  <2> QED BY <2>1, <2>2, UniformAtMost
<1>11. AtMost(b7, 30)
  BY <1>4, <1>5, EntriesFit
<1>12. AtMost(b1 \o b2, 2)
  BY <1>7, <1>8, JoinAtMost
<1>13. AtMost(b1 \o b2 \o b3, 2 + 2 * x)
  BY <1>2, <1>9, <1>12, JoinAtMost
<1>14. AtMost(b1 \o b2 \o b3 \o b4, 2 + 2 * x + 1)
  BY <1>2, <1>7, <1>13, JoinAtMost
<1>15. AtMost(b1 \o b2 \o b3 \o b4 \o b5, 2 + 2 * x + 1 + p)
  BY <1>2, <1>10, <1>14, JoinAtMost
<1>16. AtMost(b1 \o b2 \o b3 \o b4 \o b5 \o b4, 2 + 2 * x + 1 + p + 1)
  BY <1>2, <1>7, <1>15, JoinAtMost
<1>17. AtMost(b1 \o b2 \o b3 \o b4 \o b5 \o b4 \o b7, 2 + 2 * x + 1 + p + 1 + 30)
  BY <1>2, <1>11, <1>16, JoinAtMost
<1>18. AtMost(b1 \o b2 \o b3 \o b4 \o b5 \o b4 \o b7 \o b1, 2 + 2 * x + 1 + p + 1 + 30 + 1)
  BY <1>2, <1>7, <1>17, JoinAtMost
<1> QED BY <1>2, <1>6, <1>18 DEF AtMost

LEMMA OuterFits ==
    ASSUME NEW c, NEW s
    PROVE  Len(OuterButtons(c, s)) \in 0 .. 2
<1>1. \A x, y : Len(<<x, y>>) = 2
  OBVIOUS
<1>2. \A x : IsList(<<x>>) /\ Len(<<x>>) = 1
  BY OneListed
<1>3. PICK a, b : /\ a = ResetButtons(c, s)
                  /\ b = IF CanReturn(s.path) THEN <<BackButton>> ELSE <<>>
  OBVIOUS
<1>4. IsList(a) /\ Len(a) \in 0 .. 1 /\ IsList(b) /\ Len(b) \in 0 .. 1
  BY <1>2, <1>3, EmptyListed DEF ResetButtons
<1>5. Len(a \o b) \in 0 .. 2
  <2>1. Len(a \o b) = Len(a) + Len(b)
    BY <1>4, ConcatListed
  <2>2. PICK m, n \in 0 .. 1 : m = Len(a) /\ n = Len(b)
    BY <1>4
  <2>3. m \in 0 .. 1
    BY <1>4, <2>2
  <2>4. m + n \in 0 .. 2
    BY <2>3
  <2> QED BY <2>1, <2>2, <2>4
<1> QED BY <1>1, <1>3, <1>5 DEF OuterButtons

(* Whatever the level, its notice and its second click: it can be rendered.*)
LEMMA ScreenFits ==
    ASSUME NEW c, Frames(c), NEW made, Laid(made), ~ViewRefuses(c, made), NEW s
    PROVE  RendersWithin(c, made, s)
<1>1. CASE c.layout = "embeds"
  <2>1. EmbedRows(c, s) <= MaxRows
    BY <1>1 DEF Frames, EmbedRows, MaxRows
  <2> QED BY <1>1, <2>1 DEF RendersWithin
<1>2. CASE c.layout # "embeds"
  <2>1. c.layout = "card"
    BY <1>2 DEF Frames
  <2>2. PICK cost \in Nat : cost = CardComponents(OpenBlocks(c, made, s)) /\ cost <= 37
    BY <2>1, OpenFits DEF AtMost
  <2>3. PICK n \in 0 .. 2 : n = Len(OuterButtons(c, s))
    BY OuterFits
  <2>4. cost + (IF n = 0 THEN 0 ELSE 1 + n) <= 40
    <3>1. CASE n = 0
      BY <2>2, <3>1
    <3>2. CASE n # 0
      <4>1. cost <= 37
        BY <2>2
      <4>2. cost + (1 + n) <= 40
        BY <4>1
      <4> QED BY <3>2, <4>2
    <3> QED BY <3>1, <3>2
  <2> QED BY <1>2, <2>2, <2>3, <2>4 DEF RendersWithin, MaxCardComponents
<1> QED BY <1>1, <1>2

-------------------------------------------------------------------------------
(* The paths of a layout: from the root, over levels there are, and none of*)
(* them twice.                                                             *)
LevelKeys(made) == {l.key : l \in ToSet(AllLevels(made))}

OnPath(made, path) ==
    /\ IsList(path) /\ Len(path) >= 1 /\ path[1] = Root
    /\ IsInjective(path) /\ ToSet(path) \subseteq LevelKeys(made)

LEMMA LevelsThere ==
    ASSUME NEW made, IsList(made.levels)
    PROVE  /\ IsList(AllLevels(made)) /\ Root \in LevelKeys(made)
           /\ \A i \in 1 .. Len(made.levels) : made.levels[i].key \in LevelKeys(made)
<1>1. PICK root : root = [key |-> Root, fields |-> made.fields]
  OBVIOUS
<1>2. /\ IsList(<<root>>) /\ ToSet(<<root>>) = {root}
      /\ AllLevels(made) = <<root>> \o made.levels
  BY <1>1, OneListed DEF AllLevels
<1>3. IsList(AllLevels(made)) /\ ToSet(AllLevels(made)) = {root} \cup ToSet(made.levels)
  BY <1>2, ConcatListed, ConcatSet
<1>4. root.key = Root
  BY <1>1
<1>5. \A i \in 1 .. Len(made.levels) : made.levels[i] \in ToSet(made.levels)
  BY ListFacts
<1> QED BY <1>3, <1>4, <1>5 DEF LevelKeys

LEMMA WaysLead ==
    ASSUME NEW made, Laid(made), NEW e \in ToSet(AllFields(made)), e.kind = "level"
    PROVE  e.key \in LevelKeys(made)
<1>1. PICK all : all = AllLevels(made)
  OBVIOUS
<1>2. LevelsSound(made.levels) /\ IsList(made.levels) /\ IsList(all)
  BY <1>1, LevelsThere DEF Laid, Above, LevelsSound
<1>3. Len(all) \in Nat /\ DOMAIN all = 1 .. Len(all) /\ \A i \in 1 .. Len(all) : all[i] \in ToSet(all)
  BY <1>2, ListFacts
<1>4. PICK parts : parts = [i \in DOMAIN all |-> all[i].fields]
  OBVIOUS
<1>5. IsList(parts) /\ Len(parts) = Len(all) /\ \A i \in 1 .. Len(all) : parts[i] = all[i].fields
  BY <1>3, <1>4, FunctionListed
<1>6. \A i \in 1 .. Len(parts) : IsList(parts[i])
  BY <1>1, <1>3, <1>5 DEF Laid
<1>7. AllFields(made) = FlattenSeq(parts)
  BY <1>1, <1>4 DEF AllFields
<1>8. PICK i \in 1 .. Len(parts) : e \in ToSet(parts[i])
  BY <1>5, <1>6, <1>7, FlattenListed
<1>9. PICK level \in ToSet(all) : e \in ToSet(level.fields)
  BY <1>3, <1>5, <1>8
<1>10. \E j \in 1 .. Len(made.levels) : made.levels[j].key = e.key
  <2>1. PICK root : root = [key |-> Root, fields |-> made.fields]
    OBVIOUS
  <2>2. ToSet(all) = {root} \cup ToSet(made.levels)
    BY <1>1, <1>2, <2>1, OneListed, ConcatSet DEF AllLevels
  <2>3. CASE level = root
    <3>1. level.fields = made.fields
      BY <2>1, <2>3
    <3> QED BY <1>9, <3>1 DEF Laid, Above, LeadsUp
  <2>4. CASE level \in ToSet(made.levels)
    <3>1. PICK k \in 1 .. Len(made.levels) : made.levels[k] = level
      BY <1>2, <2>4, ListFacts
    <3>2. PICK j \in 1 .. k - 1 : made.levels[j].key = e.key
      BY <1>2, <1>9, <3>1 DEF LevelsSound, LeadsUp
    <3>3. j \in 1 .. Len(made.levels)
      BY <1>2, ListFacts
    <3> QED BY <3>2, <3>3
  <2> QED BY <2>2, <2>3, <2>4
<1> QED BY <1>2, <1>10, LevelsThere

LEMMA RootPath ==
    ASSUME NEW made, IsList(made.levels)
    PROVE  OnPath(made, <<Root>>)
<1>1. PICK path : path = <<Root>>
  OBVIOUS
<1>2. IsList(path) /\ Len(path) = 1 /\ ToSet(path) = {Root} /\ path[1] = Root /\ DOMAIN path = 1 .. 1
  BY <1>1, OneListed, ListFacts
<1> QED BY <1>1, <1>2, LevelsThere DEF OnPath, IsInjective

LEMMA PartOfPath ==
    ASSUME NEW made, NEW path, OnPath(made, path), NEW n \in 1 .. Len(path)
    PROVE  OnPath(made, SubSeq(path, 1, n))
<1>1. PICK len \in Nat : len = Len(path)
  BY ListFacts DEF OnPath
<1>2. PICK part : part = SubSeq(path, 1, n)
  OBVIOUS
<1>3. n \in 1 .. len
  BY <1>1
<1>4. IsList(part) /\ Len(part) = n /\ \A i \in 1 .. n : part[i] = path[i]
  <2>1. /\ IsList(part) /\ Len(part) = IF 1 <= n THEN n - 1 + 1 ELSE 0
        /\ \A i \in 1 .. n - 1 + 1 : part[i] = path[1 + i - 1]
    BY <1>1, <1>2, <1>3, SubSeqListed DEF OnPath
  <2>2. (IF 1 <= n THEN n - 1 + 1 ELSE 0) = n
    BY <1>3
  <2>3. ASSUME NEW i \in 1 .. n PROVE part[i] = path[i]
    <3>1. i \in 1 .. n - 1 + 1 /\ 1 + i - 1 = i
      BY <1>3
    <3> QED BY <2>1, <3>1
  <2> QED BY <2>1, <2>2, <2>3
<1>5. DOMAIN part = 1 .. n /\ DOMAIN path = 1 .. len
  BY <1>1, <1>4, ListFacts DEF OnPath
<1>6. ToSet(part) \subseteq ToSet(path)
  BY <1>1, <1>3, <1>4, <1>5 DEF ToSet
<1>7. IsInjective(part)
  BY <1>3, <1>4, <1>5 DEF OnPath, IsInjective
<1> QED BY <1>2, <1>3, <1>4, <1>6, <1>7 DEF OnPath

LEMMA PopKeeps ==
    ASSUME NEW made, NEW path, OnPath(made, path)
    PROVE  OnPath(made, PopLevel(path))
<1>1. PICK len \in Nat : len = Len(path)
  BY ListFacts DEF OnPath
<1>2. CASE len > 1
  <2>1. len - 1 \in 1 .. Len(path)
    BY <1>1, <1>2
  <2>2. OnPath(made, SubSeq(path, 1, len - 1))
    BY <2>1, PartOfPath
  <2> QED BY <1>1, <1>2, <2>2 DEF PopLevel, CanReturn, Front
<1>3. CASE ~(len > 1)
  BY <1>1, <1>3 DEF PopLevel, CanReturn
<1> QED BY <1>2, <1>3

LEMMA PushKeeps ==
    ASSUME NEW made, NEW path, OnPath(made, path), NEW key \in LevelKeys(made)
    PROVE  OnPath(made, PushLevel(path, key))
<1>1. PICK len \in Nat : len = Len(path)
  BY ListFacts DEF OnPath
<1>2. len >= 1 /\ DOMAIN path = 1 .. len /\ IsList(path)
  BY <1>1, ListFacts DEF OnPath
<1>3. CASE Contains(path, key)
  <2> DEFINE I == {i \in 1 .. len : path[i] = key}
  <2>1. I # {} /\ I \in SUBSET Nat
    BY <1>1, <1>2, <1>3 DEF Contains
  <2>2. PICK n : n = SelectInSeq(path, LAMBDA k : k = key)
    OBVIOUS
  <2>3. n = Min(I)
    BY <1>1, <2>1, <2>2 DEF SelectInSeq
  <2>4. n \in 1 .. len
    <3>1. Min(I) \in I
      <4> HIDE DEF I
      <4> QED BY <2>1, MinIsThere
    <3> QED BY <2>3, <3>1
  <2>5. PushLevel(path, key) = SubSeq(path, 1, n)
    BY <1>3, <2>2 DEF PushLevel
  <2> QED BY <1>1, <2>4, <2>5, PartOfPath
<1>4. CASE ~Contains(path, key)
  <2>1. PICK longer : longer = Append(path, key)
    OBVIOUS
  <2>2. /\ IsList(longer) /\ Len(longer) = len + 1 /\ longer[len + 1] = key
        /\ \A i \in 1 .. len : longer[i] = path[i]
    BY <1>1, <1>2, <2>1, AppendListed
  <2>3. \A i \in 1 .. len : path[i] # key
    BY <1>1, <1>2, <1>4 DEF Contains
  <2>4. DOMAIN longer = 1 .. len + 1
    BY <2>2, ListFacts
  <2>5. IsInjective(longer)
    <3> SUFFICES ASSUME NEW a \in 1 .. len + 1, NEW b \in 1 .. len + 1, longer[a] = longer[b]
                 PROVE  a = b
      BY <2>4 DEF IsInjective
    <3>1. CASE a \in 1 .. len /\ b \in 1 .. len
      BY <1>2, <2>2, <3>1 DEF OnPath, IsInjective
    <3>2. CASE a = len + 1 \/ b = len + 1
      BY <2>2, <2>3, <3>2
    <3> QED BY <3>1, <3>2
  <2>6. \A e \in ToSet(longer) : e \in LevelKeys(made)
    <3> TAKE e \in ToSet(longer)
    <3>1. PICK i \in 1 .. len + 1 : longer[i] = e
      BY <2>2, ListFacts
    <3>2. CASE i \in 1 .. len
      BY <1>1, <1>2, <2>2, <3>1, <3>2, ListFacts DEF OnPath
    <3>3. CASE i = len + 1
      BY <2>2, <3>1, <3>3
    <3> QED BY <3>2, <3>3
  <2>7. longer[1] = Root
    BY <1>2, <2>2 DEF OnPath
  <2>8. OnPath(made, longer)
    BY <1>2, <2>2, <2>5, <2>6, <2>7 DEF OnPath
  <2> QED BY <1>4, <2>1, <2>8 DEF PushLevel
<1> QED BY <1>3, <1>4

-------------------------------------------------------------------------------
(* The rounds of a screen, and the modals they wait for: an opening has its*)
(* own number, of one round and of the modal it showed.                    *)
IsRound(x) ==
    x = [at |-> x.at, entry |-> x.entry, id |-> x.id, serial |-> x.serial, heard |-> x.heard,
         form |-> x.form, answers |-> x.answers, from |-> x.from, patch |-> x.patch, next |-> x.next]
IsScreen(s) ==
    s = [subject |-> s.subject, notice |-> s.notice, confirming |-> s.confirming, path |-> s.path]

RoundsTyped == rounds = [r \in Rounds |-> rounds[r]] /\ \A r \in Rounds : IsRound(rounds[r])

Waits(x) == x.at = "asking" => x.id = CustomId(x.entry, x.serial) /\ x.heard = 0

AskedInv ==
    /\ RoundsTyped /\ opening \in Nat
    /\ \A m \in modals : m.id = CustomId(m.entry, m.serial) /\ m.serial \in 1 .. opening
    /\ \A r \in Rounds :
          /\ rounds[r].serial \in 0 .. opening /\ rounds[r].heard \in {0, rounds[r].serial}
          /\ Waits(rounds[r])
          /\ \A q \in Rounds \ {r} : rounds[r].serial # 0 => rounds[q].serial # rounds[r].serial

LEMMA IdleRound ==
    /\ IsRound(Idle) /\ Idle.at = "free" /\ Idle.serial = 0 /\ Idle.heard = 0
    /\ Idle.from = NoState /\ Idle.next = NoState
BY DEF Idle, IsRound

(* A round that goes on, or starts, without a modal shown to it.           *)
LEMMA RoundGoesOn ==
    ASSUME AskedInv, NEW r \in Rounds, NEW new, IsRound(new), rounds' = [rounds EXCEPT ![r] = new],
           \/ new.serial = 0 /\ new.heard = 0
           \/ new.serial = rounds[r].serial /\ new.heard = rounds[r].heard,
           new.at # "asking", opening' = opening, modals' = modals
    PROVE  AskedInv'
<1>1. \A q \in Rounds : rounds'[q] = IF q = r THEN new ELSE rounds[q]
  BY DEF AskedInv, RoundsTyped
<1>2. RoundsTyped'
  BY <1>1 DEF AskedInv, RoundsTyped
<1>3. /\ new.serial \in 0 .. opening /\ new.heard \in {0, new.serial} /\ Waits(new)
      /\ \A q \in Rounds \ {r} : /\ new.serial # 0 => rounds[q].serial # new.serial
                                 /\ rounds[q].serial # 0 => new.serial # rounds[q].serial
  BY DEF AskedInv, Waits
<1>4. ASSUME NEW q \in Rounds
      PROVE  /\ rounds'[q].serial \in 0 .. opening /\ rounds'[q].heard \in {0, rounds'[q].serial}
             /\ Waits(rounds'[q])
             /\ \A p \in Rounds \ {q} : rounds'[q].serial # 0 => rounds'[p].serial # rounds'[q].serial
  <2>1. CASE q = r
    BY <1>1, <1>3, <2>1
  <2>2. CASE q # r
    BY <1>1, <1>3, <2>2 DEF AskedInv
  <2> QED BY <2>1, <2>2
<1> QED BY <1>2, <1>4 DEF AskedInv, Waits

LEMMA UpdateAsks ==
    ASSUME AskedInv, NEW r \in Rounds, NEW next,
           rounds' = [rounds EXCEPT ![r] = [Idle EXCEPT !.at = "answering", !.next = next]],
           opening' = opening, modals' = modals
    PROVE  AskedInv'
<1>1. PICK new : new = [Idle EXCEPT !.at = "answering", !.next = next]
  OBVIOUS
<1>2. IsRound(new) /\ new.serial = 0 /\ new.heard = 0 /\ new.at # "asking"
  BY <1>1 DEF IsRound, Idle
<1> QED BY <1>1, <1>2, RoundGoesOn

LEMMA IdleAsks ==
    ASSUME AskedInv, NEW r \in Rounds, rounds' = [rounds EXCEPT ![r] = Idle],
           opening' = opening, modals' = modals
    PROVE  AskedInv'
BY IdleRound, RoundGoesOn

LEMMA AskAsks ==
    ASSUME AskedInv, NEW r \in Rounds, Ask(r)
    PROVE  AskedInv'
<1>1. PICK e : LET id == CustomId(e, NextModalOpenState(opening))
               IN  /\ opening' = opening + 1
                   /\ modals' = modals \cup {[id |-> id, serial |-> opening', entry |-> e,
                                              form |-> FormOf(e, state.subject)]}
                   /\ rounds' = [rounds EXCEPT ![r] =
                         [Idle EXCEPT !.at = "asking", !.entry = e, !.id = id,
                                      !.serial = opening', !.form = FormOf(e, state.subject)]]
  BY DEF Ask
<1>2. PICK n \in Nat : n = opening + 1
  BY DEF AskedInv
<1>3. PICK id, form, asked, new :
        /\ id = CustomId(e, n) /\ form = FormOf(e, state.subject)
        /\ asked = [id |-> id, serial |-> n, entry |-> e, form |-> form]
        /\ new = [Idle EXCEPT !.at = "asking", !.entry = e, !.id = id, !.serial = n, !.form = form]
  OBVIOUS
<1>4. /\ opening' = n /\ modals' = modals \cup {asked} /\ rounds' = [rounds EXCEPT ![r] = new]
  BY <1>1, <1>2, <1>3 DEF NextModalOpenState
<1>5. /\ IsRound(new) /\ new.at = "asking" /\ new.entry = e /\ new.id = id /\ new.serial = n
      /\ new.heard = 0
  BY <1>3 DEF IsRound, Idle
<1>6. \A q \in Rounds : rounds'[q] = IF q = r THEN new ELSE rounds[q]
  BY <1>4 DEF AskedInv, RoundsTyped
<1>7. RoundsTyped'
  BY <1>4, <1>5, <1>6 DEF AskedInv, RoundsTyped
<1>8. \A m \in modals' : m.id = CustomId(m.entry, m.serial) /\ m.serial \in 1 .. opening'
  <2>1. asked.id = CustomId(asked.entry, asked.serial) /\ asked.serial \in 1 .. n
    BY <1>2, <1>3 DEF AskedInv
  <2>2. ASSUME NEW m \in modals PROVE m.id = CustomId(m.entry, m.serial) /\ m.serial \in 1 .. n
    BY <1>2 DEF AskedInv
  <2> QED BY <1>4, <2>1, <2>2
<1>9. ASSUME NEW q \in Rounds
      PROVE  /\ rounds'[q].serial \in 0 .. opening' /\ rounds'[q].heard \in {0, rounds'[q].serial}
             /\ Waits(rounds'[q])
             /\ \A p \in Rounds \ {q} : rounds'[q].serial # 0 => rounds'[p].serial # rounds'[q].serial
  <2>1. \A p \in Rounds \ {r} : rounds'[p] = rounds[p] /\ rounds[p].serial # n /\ rounds[p].serial \in 0 .. n
    BY <1>2, <1>6 DEF AskedInv
  <2>2. rounds'[r] = new
    BY <1>6
  <2>3. CASE q = r
    <3>1. n \in 0 .. n /\ opening' = n
      BY <1>2, <1>4 DEF AskedInv
    <3>2. Waits(new)
      BY <1>3, <1>5 DEF Waits
    <3>3. \A p \in Rounds \ {r} : rounds'[p].serial # n
      BY <2>1
    <3> QED BY <1>5, <2>2, <2>3, <3>1, <3>2, <3>3
  <2>4. CASE q # r
    BY <1>4, <1>5, <2>1, <2>2, <2>4 DEF AskedInv
  <2> QED BY <2>3, <2>4
<1> QED BY <1>2, <1>4, <1>7, <1>8, <1>9 DEF AskedInv, Waits

LEMMA SubmitAsks ==
    ASSUME AskedInv, Submit
    PROVE  AskedInv'
<1>1. PICK m \in modals : \E answers \in Answers(m.entry, m.form) :
        LET taken(round) ==
                LET patch == PatchOf(round.entry, answers, state.subject)
                IN  [round EXCEPT !.at = IF patch = <<>> THEN "loading" ELSE "writing",
                                  !.answers = answers, !.heard = m.serial,
                                  !.from = state, !.patch = patch]
        IN  /\ modals' = modals \ {m}
            /\ rounds' = [r \in Rounds |-> IF rounds[r].at = "asking" /\ rounds[r].id = m.id
                                           THEN taken(rounds[r]) ELSE rounds[r]]
            /\ opening' = opening
  BY DEF Submit
<1>2. m.id = CustomId(m.entry, m.serial) /\ m.serial \in 1 .. opening
  BY DEF AskedInv
<1>3. modals' = modals \ {m} /\ opening' = opening
  BY <1>1
<1> DEFINE patchOf(round, answers) == PatchOf(round.entry, answers, state.subject)
           taken(round, answers) ==
               [round EXCEPT !.at = IF patchOf(round, answers) = <<>> THEN "loading" ELSE "writing",
                             !.answers = answers, !.heard = m.serial,
                             !.from = state, !.patch = patchOf(round, answers)]
<1>4. PICK given : rounds' = [r \in Rounds |-> IF rounds[r].at = "asking" /\ rounds[r].id = m.id
                                              THEN taken(rounds[r], given) ELSE rounds[r]]
  BY <1>1
<1>5. ASSUME NEW r \in Rounds
      PROVE  /\ IsRound(rounds'[r]) /\ rounds'[r].serial = rounds[r].serial
             /\ \/ rounds'[r] = rounds[r]
                \/ /\ rounds[r].at = "asking" /\ rounds[r].id = m.id
                   /\ rounds'[r].heard = m.serial /\ rounds'[r].at \in {"loading", "writing"}
  <2>1. PICK x : x = rounds[r]
    OBVIOUS
  <2>2. IsRound(x)
    BY <2>1 DEF AskedInv, RoundsTyped
  <2>3. CASE x.at = "asking" /\ x.id = m.id
    <3>1. rounds'[r] = taken(x, given)
      <4> HIDE DEF taken
      <4> QED BY <1>4, <2>1, <2>3
    <3>2. PICK at, patch : /\ at = IF patchOf(x, given) = <<>> THEN "loading" ELSE "writing"
                           /\ patch = patchOf(x, given)
      OBVIOUS
    <3>3. /\ at \in {"loading", "writing"}
          /\ rounds'[r] = [at |-> at, entry |-> x.entry, id |-> x.id, serial |-> x.serial,
                           heard |-> m.serial, form |-> x.form, answers |-> given,
                           from |-> state, patch |-> patch, next |-> x.next]
      <4> HIDE DEF patchOf
      <4>1. rounds'[r] = [x EXCEPT !.at = at, !.answers = given, !.heard = m.serial,
                                   !.from = state, !.patch = patch]
        BY <3>2, <3>1
      <4> QED BY <2>2, <3>2, <4>1 DEF IsRound
    <3> HIDE DEF patchOf
    <3> QED BY <2>1, <2>3, <3>3 DEF IsRound
  <2>4. CASE ~(x.at = "asking" /\ x.id = m.id)
    BY <1>1, <2>1, <2>2, <2>4
  <2> QED BY <2>3, <2>4
<1>6. rounds' = [r \in Rounds |-> rounds'[r]]
  BY <1>1
<1>7. ASSUME NEW r \in Rounds
      PROVE  rounds'[r].heard \in {0, rounds'[r].serial} /\ Waits(rounds'[r])
  <2>1. CASE rounds'[r] = rounds[r]
    BY <2>1 DEF AskedInv
  <2>2. CASE rounds'[r] # rounds[r]
    <3>1. /\ rounds[r].at = "asking" /\ rounds[r].id = m.id /\ rounds'[r].heard = m.serial
          /\ rounds'[r].at # "asking"
      BY <1>5, <2>2
    <3>2. CustomId(rounds[r].entry, rounds[r].serial) = CustomId(m.entry, m.serial)
      BY <1>2, <3>1 DEF AskedInv, Waits
    <3>3. rounds[r].serial = m.serial
      BY <3>2 DEF CustomId
    <3> QED BY <1>5, <3>1, <3>3 DEF Waits
  <2> QED BY <2>1, <2>2
<1> QED BY <1>3, <1>5, <1>6, <1>7 DEF AskedInv, RoundsTyped, Waits

LEMMA ProgressAsks ==
    ASSUME AskedInv, NEW r \in Rounds, Progress(r)
    PROVE  AskedInv'
<1>1. CASE Refuse(r) \/ Show(r)
  BY <1>1, UpdateAsks DEF Refuse, Show, Update, Settle
<1>2. CASE Expire(r) \/ Fail(r) \/ Answer(r)
  BY <1>2, IdleAsks DEF Expire, Fail, Answer, Settle
<1>3. CASE Write(r) \/ WriteReset(r) \/ Load(r)
  <2>1. PICK at, next : /\ at # "asking" /\ opening' = opening /\ modals' = modals
                        /\ rounds' = [rounds EXCEPT ![r] = [rounds[r] EXCEPT !.at = at, !.next = next]]
    <3>1. PICK x : x = rounds[r] /\ IsRound(x)
      BY DEF AskedInv, RoundsTyped
    <3>2. rounds = [q \in Rounds |-> rounds[q]]
      BY DEF AskedInv, RoundsTyped
    <3>3. CASE Write(r) \/ WriteReset(r)
      <4>1. rounds' = [rounds EXCEPT ![r] = [rounds[r] EXCEPT !.at = "loading"]]
        BY <3>3 DEF Write, WriteReset
      <4>2. [x EXCEPT !.at = "loading"] = [x EXCEPT !.at = "loading", !.next = x.next]
        BY <3>1 DEF IsRound
      <4> QED BY <3>1, <3>3, <4>1, <4>2 DEF Write, WriteReset, Settle
    <3>4. CASE Load(r)
      <4>1. PICK next : rounds' = [rounds EXCEPT ![r].at = "written", ![r].next = next]
        BY <3>4 DEF Load
      <4>2. rounds' = [rounds EXCEPT ![r] = [rounds[r] EXCEPT !.at = "written", !.next = next]]
        BY <3>1, <3>2, <4>1
      <4> QED BY <3>4, <4>2 DEF Load, Settle
    <3> QED BY <1>3, <3>3, <3>4
  <2>2. PICK new : new = [rounds[r] EXCEPT !.at = at, !.next = next]
    OBVIOUS
  <2>3. /\ IsRound(new) /\ new.serial = rounds[r].serial /\ new.heard = rounds[r].heard
        /\ new.at = at
    <3>1. PICK x : x = rounds[r] /\ IsRound(x)
      BY DEF AskedInv, RoundsTyped
    <3> QED BY <2>2, <3>1 DEF IsRound
  <2> QED BY <2>1, <2>2, <2>3, RoundGoesOn
<1> QED BY <1>1, <1>2, <1>3 DEF Progress

LEMMA AskedInvStep == AskedInv /\ [Next]_vars => AskedInv'
<1> SUFFICES ASSUME AskedInv, [Next]_vars PROVE AskedInv'
  OBVIOUS
<1>1. CASE UNCHANGED <<opening, rounds, modals>>
  BY <1>1 DEF AskedInv, RoundsTyped, Waits
<1>2. CASE Open \/ (\E by : End(by)) \/ Disable \/ WriteOutside \/ Finished \/ UNCHANGED vars
  BY <1>1, <1>2 DEF Open, End, Disable, WriteOutside, Finished, vars
<1>3. CASE Dismiss
  BY <1>3 DEF Dismiss, AskedInv, RoundsTyped, Waits
<1>4. CASE Submit
  BY <1>4, SubmitAsks
<1>5. ASSUME NEW r \in Rounds,
             AskReset(r) \/ CancelReset(r) \/ ConfirmReset(r) \/ Return(r) \/ Descend(r) \/ Ask(r) \/ Progress(r)
      PROVE  AskedInv'
  <2>1. CASE AskReset(r) \/ CancelReset(r) \/ Return(r) \/ Descend(r)
    BY <2>1, UpdateAsks DEF AskReset, CancelReset, Return, Descend, Update
  <2>2. CASE ConfirmReset(r)
    <3>1. PICK new : new = [Idle EXCEPT !.at = "resetting", !.from = state]
      OBVIOUS
    <3>2. IsRound(new) /\ new.serial = 0 /\ new.heard = 0 /\ new.at # "asking"
      BY <3>1 DEF IsRound, Idle
    <3> QED BY <2>2, <3>1, <3>2, RoundGoesOn DEF ConfirmReset
  <2> QED BY <1>5, <2>1, <2>2, AskAsks, ProgressAsks
<1> QED BY <1>2, <1>3, <1>4, <1>5 DEF Next

LEMMA AskedInvInit == Init => AskedInv
<1> SUFFICES ASSUME Init PROVE AskedInv
  OBVIOUS
<1>1. opening = 0 /\ modals = {} /\ rounds = [r \in Rounds |-> Idle]
  BY DEF Init
<1>2. \A r \in Rounds : rounds[r] = Idle
  BY <1>1
<1> QED BY <1>1, <1>2, IdleRound DEF AskedInv, RoundsTyped, Waits

(* Every opening is numbered apart, and a round that waits knows its own    *)
(* (promptModal): the invariant the two theorems below rest on.            *)
THEOREM AskedInvariance == Spec => []AskedInv
BY AskedInvInit, AskedInvStep, PTL DEF Spec

(* However many modals are opened, left open, given up or sent late, of one*)
(* entry or of several: a round goes on from the modal it showed itself    *)
(* (promptModal).                                                          *)
THEOREM EachItsOwnModal == Spec => []AnswersItsOwnModal
<1>1. AskedInv => AnswersItsOwnModal
  BY DEF AskedInv, AnswersItsOwnModal
<1> QED BY <1>1, AskedInvariance, PTL

(* And a modal that is sent is taken by one round at most: no answer is    *)
(* saved twice.                                                            *)
TakenOnce ==
    \A q, r \in Rounds : q # r /\ rounds[r].heard # 0 => rounds[q].heard # rounds[r].heard

THEOREM EachModalTakenOnce == Spec => []TakenOnce
<1>1. AskedInv => TakenOnce
  BY DEF AskedInv, TakenOnce
<1> QED BY <1>1, AskedInvariance, PTL

-------------------------------------------------------------------------------
(* The screen: its layout, and the states that stand on it, the store's and*)
(* those a round began from or is about to show.                           *)
Steady(made, s) == IsScreen(s) /\ OnPath(made, s.path)

ScreenInv ==
    /\ scenario \in DOMAIN Scenarios /\ chrome \in Scenarios[scenario].chromes
    /\ phase \in {"closed", "refused", "open", "ending", "ended"}
    /\ phase = "closed" => state = NoState /\ modals = {} /\ \A r \in Rounds : rounds[r] = Idle
    /\ phase \in {"open", "ending", "ended"} => ~ViewRefuses(chrome, layout)
    /\ chrome.layout = "card" => phase # "refused"
    /\ RoundsTyped /\ Laid(layout) /\ Steady(layout, state)
    /\ \A r \in Rounds : Steady(layout, rounds[r].from) /\ Steady(layout, rounds[r].next)

LEMMA NoScreen ==
    /\ Laid(NoLayout)
    /\ \A made : IsList(made.levels) => Steady(made, NoState)
<1>1. Above(<<>>, <<>>)
  BY EmptyListed DEF Above, LevelsSound, LeadsUp, ToSet
<1>2. PICK root : root = [key |-> Root, fields |-> <<>>]
  OBVIOUS
<1>3. ToSet(AllLevels(NoLayout)) = {root}
  <2>1. AllLevels(NoLayout) = <<root>> \o <<>>
    BY <1>2 DEF AllLevels, NoLayout
  <2>2. ToSet(<<root>> \o <<>>) = ToSet(<<root>>) \cup ToSet(<<>>)
    BY OneListed, EmptyListed, ConcatSet
  <2> QED BY <2>1, <2>2, OneListed DEF ToSet
<1>4. Laid(NoLayout)
  BY <1>1, <1>2, <1>3, EmptyListed DEF Laid, NoLayout
<1>5. IsScreen(NoState) /\ NoState.path = <<Root>>
  BY DEF NoState, ScreenState, IsScreen
<1> QED BY <1>4, <1>5, RootPath DEF Steady

LEMMA ChromeFrames ==
    ASSUME scenario \in DOMAIN Scenarios, chrome \in Scenarios[scenario].chromes
    PROVE  Frames(chrome)
<1>1. Scenarios[scenario] \in ToSet(Scenarios)
  BY DEF ToSet
<1>2. /\ chrome.layout \in {"card", "embeds"} /\ {chrome.extra, chrome.preview, chrome.actions} \subseteq Nat
      /\ chrome.layout = "card" => 2 * chrome.extra + chrome.preview <= 1 /\ chrome.actions <= EntryActionsReserve
      /\ chrome.layout = "embeds" => chrome.extra + 2 <= MaxRows
  BY <1>1, ChromeAssumption
<1> QED BY <1>2 DEF Frames

(* A card that holds what was laid out for it is never refused.            *)
LEMMA CardHolds ==
    ASSUME NEW c, Frames(c), c.layout = "card", NEW made,
           \A level \in ToSet(AllLevels(made)) : IsList(level.fields) /\ Len(level.fields) <= MaxLevelEntries
    PROVE  ~ViewRefuses(c, made)
<1>1. \A level \in ToSet(AllLevels(made)) : \E n \in Nat : n = Len(level.fields) /\ n <= 10
  BY ListFacts DEF MaxLevelEntries
<1>2. \A n \in Nat : n <= 10 =>
          /\ ~(n + (IF c.actions = 0 THEN 0 ELSE EntryActionsReserve) > MaxButtonLevelEntries)
          /\ ~(n > MaxLevelEntries)
  BY DEF EntryActionsReserve, MaxButtonLevelEntries, MaxLevelEntries
<1> QED BY <1>1, <1>2 DEF ViewRefuses

LEMMA OpenScreens ==
    ASSUME ScreenInv, Open
    PROVE  ScreenInv'
<1>1. PICK made : made = OpeningLayout(LoadSubject(D, stored))
  OBVIOUS
<1>2. /\ layout' = made /\ phase = "closed"
      /\ UNCHANGED <<scenario, chrome, rounds, modals>>
      /\ \/ ViewRefuses(chrome, made) /\ phase' = "refused" /\ state' = state
         \/ /\ ~ViewRefuses(chrome, made) /\ phase' = "open"
            /\ state' = ScreenState(LoadSubject(D, stored))
  BY <1>1 DEF Open
<1>3. Frames(chrome)
  BY ChromeFrames DEF ScreenInv
<1>4. PICK controls : IsList(controls) /\ made = LayoutDeclaration(controls)
  <2>1. Scenarios[scenario] \in ToSet(Scenarios)
    BY DEF ScreenInv, ToSet
  <2> QED BY <1>1, <2>1, ControlsListed DEF OpeningLayout, D
<1>5. /\ Above(made.fields, made.levels) /\ IsList(made.levels)
      /\ \A level \in ToSet(AllLevels(made)) : IsList(level.fields) /\ Len(level.fields) <= MaxLevelEntries
  BY <1>4, EveryWayLeadsOn DEF Above, LevelsSound
<1>6. Laid(made)
  BY <1>5 DEF Laid
<1>7. Steady(made, NoState)
  BY <1>5, NoScreen
<1>8. Steady(made, state')
  <2>1. \A subject : Steady(made, ScreenState(subject))
    BY <1>5, RootPath DEF Steady, IsScreen, ScreenState
  <2> QED BY <1>2, <1>7, <2>1 DEF ScreenInv
<1>9. \A r \in Rounds : Steady(made, rounds[r].from) /\ Steady(made, rounds[r].next)
  BY <1>2, <1>7, IdleRound DEF ScreenInv
<1>10. chrome.layout = "card" => ~ViewRefuses(chrome, made)
  BY <1>3, <1>5, CardHolds
<1> QED BY <1>2, <1>6, <1>8, <1>9, <1>10 DEF ScreenInv, RoundsTyped

(* A step of one round of a screen that was opened.                        *)
LEMMA RoundKeeps ==
    ASSUME ScreenInv, phase # "closed", NEW r \in Rounds, NEW new, IsRound(new),
           Steady(layout, new.from), Steady(layout, new.next), Steady(layout, state'),
           rounds' = [rounds EXCEPT ![r] = new], UNCHANGED <<scenario, chrome, phase, layout>>
    PROVE  ScreenInv'
<1>1. \A q \in Rounds : rounds'[q] = IF q = r THEN new ELSE rounds[q]
  BY DEF ScreenInv, RoundsTyped
<1>2. RoundsTyped'
  BY <1>1 DEF ScreenInv, RoundsTyped
<1>3. \A q \in Rounds : Steady(layout, rounds'[q].from) /\ Steady(layout, rounds'[q].next)
  BY <1>1 DEF ScreenInv
<1> QED BY <1>2, <1>3 DEF ScreenInv

LEMMA UpdateKeeps ==
    ASSUME ScreenInv, phase # "closed", NEW r \in Rounds, NEW next, Steady(layout, next),
           Update(r, next), UNCHANGED <<scenario, chrome, phase, layout>>
    PROVE  ScreenInv'
<1>1. PICK new : new = [Idle EXCEPT !.at = "answering", !.next = next]
  OBVIOUS
<1>2. rounds' = [rounds EXCEPT ![r] = new] /\ state' = next
  BY <1>1 DEF Update
<1>3. IsRound(new) /\ new.from = NoState /\ new.next = next
  BY <1>1 DEF IsRound, Idle
<1>4. Steady(layout, NoState)
  BY NoScreen DEF ScreenInv, Laid, Above, LevelsSound
<1> QED BY <1>2, <1>3, <1>4, RoundKeeps

(* What a click makes of a state stays on a path.                          *)
LEMMA Restated ==
    ASSUME NEW made, NEW s, Steady(made, s)
    PROVE  /\ \A q : Steady(made, [s EXCEPT !.confirming = q])
           /\ \A n, of : Steady(made, Answered(n, of, s))
           /\ \A n, of, q : Steady(made, [Answered(n, of, s) EXCEPT !.confirming = q])
           /\ \A n, of, q : Steady(made, Answered(n, of, [s EXCEPT !.confirming = q]))
           /\ \A n, of, x : Steady(made, Answered(n, of, [s EXCEPT !.subject = x]))
           /\ \A n, of, x, q : Steady(made, [Answered(n, of, [s EXCEPT !.subject = x]) EXCEPT !.confirming = q])
           /\ \A p, n, q : OnPath(made, p) =>
                 Steady(made, [s EXCEPT !.path = p, !.notice = n, !.confirming = q])
<1>1. PICK x, n, c, p : s = [subject |-> x, notice |-> n, confirming |-> c, path |-> p] /\ OnPath(made, p)
  BY DEF Steady, IsScreen
<1>2. \A y, m, q : Steady(made, [subject |-> y, notice |-> m, confirming |-> q, path |-> p])
  BY <1>1 DEF Steady, IsScreen
<1>3. \A y, m, q, w : OnPath(made, w) =>
          Steady(made, [subject |-> y, notice |-> m, confirming |-> q, path |-> w])
  BY DEF Steady, IsScreen
<1>4. \A q : [s EXCEPT !.confirming = q] = [subject |-> x, notice |-> n, confirming |-> q, path |-> p]
  BY <1>1
<1>5. \A y : [s EXCEPT !.subject = y] = [subject |-> y, notice |-> n, confirming |-> c, path |-> p]
  BY <1>1
<1>6. \A y, m, q, k, of : Answered(k, of, [subject |-> y, notice |-> m, confirming |-> q, path |-> p])
                          = [subject |-> y, notice |-> Notice(k, of), confirming |-> q, path |-> p]
  BY DEF Answered
<1>7. \A y, m, q, k : [[subject |-> y, notice |-> m, confirming |-> q, path |-> p] EXCEPT !.confirming = k]
                      = [subject |-> y, notice |-> m, confirming |-> k, path |-> p]
  OBVIOUS
<1>8. ASSUME NEW w, NEW m, NEW q, OnPath(made, w)
      PROVE  Steady(made, [s EXCEPT !.path = w, !.notice = m, !.confirming = q])
  <2>1. PICK t : t = [s EXCEPT !.path = w, !.notice = m, !.confirming = q]
    OBVIOUS
  <2>2. t = [subject |-> x, notice |-> m, confirming |-> q, path |-> w]
    BY <1>1, <2>1
  <2>3. Steady(made, t)
    BY <1>3, <1>8, <2>2
  <2> QED BY <2>1, <2>3
<1>9. \A k, of : Answered(k, of, s) = [subject |-> x, notice |-> Notice(k, of), confirming |-> c, path |-> p]
  BY <1>1, <1>6
<1>10. ASSUME NEW k, NEW of, NEW q
       PROVE  /\ Steady(made, Answered(k, of, [s EXCEPT !.confirming = q]))
              /\ Steady(made, [Answered(k, of, s) EXCEPT !.confirming = q])
  <2>1. PICK t : t = [subject |-> x, notice |-> n, confirming |-> q, path |-> p]
    OBVIOUS
  <2>2. [s EXCEPT !.confirming = q] = t
    BY <1>4, <2>1
  <2>3. Answered(k, of, t) = [subject |-> x, notice |-> Notice(k, of), confirming |-> q, path |-> p]
    BY <1>6, <2>1
  <2>4. [Answered(k, of, s) EXCEPT !.confirming = q]
            = [subject |-> x, notice |-> Notice(k, of), confirming |-> q, path |-> p]
    BY <1>7, <1>9
  <2> QED BY <1>2, <2>2, <2>3, <2>4
<1>11. ASSUME NEW k, NEW of, NEW y, NEW q
       PROVE  /\ Steady(made, Answered(k, of, [s EXCEPT !.subject = y]))
              /\ Steady(made, [Answered(k, of, [s EXCEPT !.subject = y]) EXCEPT !.confirming = q])
  <2>1. PICK t : t = [subject |-> y, notice |-> n, confirming |-> c, path |-> p]
    OBVIOUS
  <2>2. [s EXCEPT !.subject = y] = t
    BY <1>5, <2>1
  <2>3. Answered(k, of, t) = [subject |-> y, notice |-> Notice(k, of), confirming |-> c, path |-> p]
    BY <1>6, <2>1
  <2>4. [Answered(k, of, t) EXCEPT !.confirming = q]
            = [subject |-> y, notice |-> Notice(k, of), confirming |-> q, path |-> p]
    BY <1>7, <2>3
  <2> QED BY <1>2, <2>2, <2>3, <2>4
<1>12. ASSUME NEW q PROVE Steady(made, [s EXCEPT !.confirming = q])
  <2>1. PICK t : t = [s EXCEPT !.confirming = q]
    OBVIOUS
  <2>2. t = [subject |-> x, notice |-> n, confirming |-> q, path |-> p]
    BY <1>4, <2>1
  <2>3. Steady(made, t)
    BY <1>2, <2>2
  <2> QED BY <2>1, <2>3
<1>13. \A k, of : Steady(made, Answered(k, of, s))
  BY <1>2, <1>9
<1> QED BY <1>8, <1>10, <1>11, <1>12, <1>13

LEMMA ClickKeepsScreen ==
    ASSUME ScreenInv, NEW r \in Rounds,
           AskReset(r) \/ CancelReset(r) \/ ConfirmReset(r) \/ Return(r) \/ Descend(r) \/ Ask(r)
    PROVE  ScreenInv'
<1>1. phase = "open" /\ UNCHANGED <<scenario, chrome, phase, layout>>
  BY DEF AskReset, CancelReset, ConfirmReset, Return, Descend, Ask, Click
<1>2. Steady(layout, state) /\ Steady(layout, NoState) /\ Laid(layout)
  BY NoScreen DEF ScreenInv, Laid, Above, LevelsSound
<1>3. CASE AskReset(r)
  BY <1>1, <1>2, <1>3, Restated, UpdateKeeps DEF AskReset
<1>4. CASE CancelReset(r)
  BY <1>1, <1>2, <1>4, Restated, UpdateKeeps DEF CancelReset
<1>5. CASE Return(r)
  <2>1. OnPath(layout, PopLevel(state.path))
    BY <1>2, PopKeeps DEF Steady
  <2>2. Steady(layout, [state EXCEPT !.path = PopLevel(state.path), !.notice = Silence, !.confirming = None])
    BY <1>2, <2>1, Restated
  <2> QED BY <1>1, <1>5, <2>2, UpdateKeeps DEF Return
<1>6. CASE Descend(r)
  <2>1. PICK e \in ToSet(AllFields(layout)) :
          /\ e.kind = "level"
          /\ Update(r, [state EXCEPT !.path = PushLevel(state.path, e.key), !.notice = Silence, !.confirming = None])
    BY <1>6 DEF Descend
  <2>2. e.key \in LevelKeys(layout)
    BY <1>2, <2>1, WaysLead
  <2>3. OnPath(layout, PushLevel(state.path, e.key))
    BY <1>2, <2>2, PushKeeps DEF Steady
  <2>4. Steady(layout, [state EXCEPT !.path = PushLevel(state.path, e.key), !.notice = Silence, !.confirming = None])
    BY <1>2, <2>3, Restated
  <2> QED BY <1>1, <2>1, <2>4, UpdateKeeps
<1>7. CASE ConfirmReset(r)
  <2>1. PICK new : new = [Idle EXCEPT !.at = "resetting", !.from = state]
    OBVIOUS
  <2>2. IsRound(new) /\ new.from = state /\ new.next = NoState
    BY <2>1 DEF IsRound, Idle
  <2>3. rounds' = [rounds EXCEPT ![r] = new] /\ state' = state
    BY <1>7, <2>1 DEF ConfirmReset
  <2> QED BY <1>1, <1>2, <2>2, <2>3, RoundKeeps
<1>8. CASE Ask(r)
  <2>1. PICK e, id, serial, form :
          /\ state' = state
          /\ rounds' = [rounds EXCEPT ![r] = [Idle EXCEPT !.at = "asking", !.entry = e, !.id = id,
                                                          !.serial = serial, !.form = form]]
    BY <1>8 DEF Ask
  <2>2. PICK new : new = [Idle EXCEPT !.at = "asking", !.entry = e, !.id = id, !.serial = serial, !.form = form]
    OBVIOUS
  <2>3. IsRound(new) /\ new.from = NoState /\ new.next = NoState
    BY <2>2 DEF IsRound, Idle
  <2> QED BY <1>1, <1>2, <2>1, <2>2, <2>3, RoundKeeps
<1> QED BY <1>3, <1>4, <1>5, <1>6, <1>7, <1>8

LEMMA SubmitKeepsScreen ==
    ASSUME ScreenInv, Submit
    PROVE  ScreenInv'
<1>1. PICK m \in modals : \E answers \in Answers(m.entry, m.form) :
        LET taken(round) ==
                LET patch == PatchOf(round.entry, answers, state.subject)
                IN  [round EXCEPT !.at = IF patch = <<>> THEN "loading" ELSE "writing",
                                  !.answers = answers, !.heard = m.serial,
                                  !.from = state, !.patch = patch]
        IN  /\ rounds' = [r \in Rounds |-> IF rounds[r].at = "asking" /\ rounds[r].id = m.id
                                           THEN taken(rounds[r]) ELSE rounds[r]]
            /\ UNCHANGED <<scenario, chrome, phase, layout, state>>
  BY DEF Submit
<1>2. UNCHANGED <<scenario, chrome, phase, layout, state>> /\ phase # "closed"
  BY <1>1 DEF ScreenInv
<1> DEFINE patchOf(round, answers) == PatchOf(round.entry, answers, state.subject)
           taken(round, answers) ==
               [round EXCEPT !.at = IF patchOf(round, answers) = <<>> THEN "loading" ELSE "writing",
                             !.answers = answers, !.heard = m.serial,
                             !.from = state, !.patch = patchOf(round, answers)]
<1>3. PICK given : rounds' = [r \in Rounds |-> IF rounds[r].at = "asking" /\ rounds[r].id = m.id
                                              THEN taken(rounds[r], given) ELSE rounds[r]]
  BY <1>1
<1>4. ASSUME NEW r \in Rounds
      PROVE  /\ IsRound(rounds'[r])
             /\ Steady(layout, rounds'[r].from) /\ Steady(layout, rounds'[r].next)
  <2>1. PICK x : x = rounds[r]
    OBVIOUS
  <2>2. IsRound(x) /\ Steady(layout, x.from) /\ Steady(layout, x.next) /\ Steady(layout, state)
    BY <2>1 DEF ScreenInv, RoundsTyped
  <2>3. rounds'[r] = taken(x, given) \/ rounds'[r] = x
    BY <1>3, <2>1
  <2>4. CASE rounds'[r] = taken(x, given)
    <3>1. PICK at, patch : /\ at = IF patchOf(x, given) = <<>> THEN "loading" ELSE "writing"
                           /\ patch = patchOf(x, given)
      OBVIOUS
    <3>2. rounds'[r] = [at |-> at, entry |-> x.entry, id |-> x.id, serial |-> x.serial,
                        heard |-> m.serial, form |-> x.form, answers |-> given,
                        from |-> state, patch |-> patch, next |-> x.next]
      <4> HIDE DEF patchOf
      <4>1. rounds'[r] = [x EXCEPT !.at = at, !.answers = given, !.heard = m.serial,
                                   !.from = state, !.patch = patch]
        BY <2>4, <3>1
      <4> QED BY <2>2, <4>1 DEF IsRound
    <3> HIDE DEF taken
    <3> QED BY <2>2, <3>2 DEF IsRound
  <2>5. CASE rounds'[r] = x
    BY <2>2, <2>5
  <2> HIDE DEF taken
  <2> QED BY <2>3, <2>4, <2>5
<1>5. rounds' = [r \in Rounds |-> rounds'[r]]
  BY <1>3
<1> QED BY <1>2, <1>4, <1>5 DEF ScreenInv, RoundsTyped

LEMMA ProgressKeepsScreen ==
    ASSUME ScreenInv, NEW r \in Rounds, Progress(r)
    PROVE  ScreenInv'
<1>1. PICK x : x = rounds[r]
  OBVIOUS
<1>2. /\ IsRound(x) /\ Steady(layout, x.from) /\ Steady(layout, x.next) /\ Steady(layout, state)
      /\ rounds = [q \in Rounds |-> rounds[q]]
  BY <1>1 DEF ScreenInv, RoundsTyped
<1>3. x.at # "free" /\ UNCHANGED <<scenario, chrome, phase, layout>>
  BY <1>1 DEF Progress, Expire, Refuse, Fail, Show, Answer, WriteReset, Load, Write, Settle
<1>4. phase # "closed"
  BY <1>1, <1>3, IdleRound DEF ScreenInv
<1>5. Steady(layout, NoState)
  BY NoScreen DEF ScreenInv, Laid, Above, LevelsSound
<1>6. CASE Refuse(r)
  <2>1. PICK next : next = LET refused == Answered("refusal", "refused", x.from)
                           IN  IF Resetting(x) THEN [refused EXCEPT !.confirming = None] ELSE refused
    OBVIOUS
  <2>2. Update(r, next)
    BY <1>1, <1>6, <2>1 DEF Refuse
  <2>3. next = Answered("refusal", "refused", x.from) \/
        next = [Answered("refusal", "refused", x.from) EXCEPT !.confirming = None]
    BY <2>1
  <2>4. PICK shape : shape = x.from
    OBVIOUS
  <2>5. Steady(layout, shape)
    BY <1>2, <2>4
  <2>6. /\ Steady(layout, Answered("refusal", "refused", shape))
        /\ Steady(layout, [Answered("refusal", "refused", shape) EXCEPT !.confirming = None])
    BY <2>5, Restated
  <2>7. Steady(layout, next)
    BY <2>3, <2>4, <2>6
  <2> QED BY <1>3, <1>4, <2>2, <2>7, UpdateKeeps
<1>7. CASE Show(r)
  BY <1>1, <1>2, <1>3, <1>4, <1>7, UpdateKeeps DEF Show
<1>8. CASE Expire(r) \/ Fail(r) \/ Answer(r)
  <2>1. rounds' = [rounds EXCEPT ![r] = Idle] /\ state' = state
    BY <1>8 DEF Expire, Fail, Answer, Settle
  <2> QED BY <1>2, <1>3, <1>4, <1>5, <2>1, IdleRound, RoundKeeps
<1>9. CASE Write(r) \/ WriteReset(r)
  <2>1. PICK new : new = [x EXCEPT !.at = "loading"]
    OBVIOUS
  <2>2. rounds' = [rounds EXCEPT ![r] = new] /\ state' = state
    <3>1. rounds' = [rounds EXCEPT ![r].at = "loading"] /\ state' = state
      BY <1>9 DEF Write, WriteReset
    <3> QED BY <1>1, <2>1, <3>1
  <2>3. IsRound(new) /\ new.from = x.from /\ new.next = x.next
    BY <1>2, <2>1 DEF IsRound
  <2> QED BY <1>2, <1>3, <1>4, <2>2, <2>3, RoundKeeps
<1>10. CASE Load(r)
  <2>1. PICK notice, subject, next :
          /\ rounds' = [rounds EXCEPT ![r].at = "written", ![r].next = next] /\ state' = state
          /\ \/ next = Answered("confirmation", notice, [x.from EXCEPT !.subject = subject])
             \/ next = [Answered("confirmation", notice, [x.from EXCEPT !.subject = subject])
                            EXCEPT !.confirming = None]
    <3> DEFINE n == IF Resetting(x) THEN "resetDone" ELSE NoticeKey(x.entry, x.answers)
               base == Answered("confirmation", n, [x.from EXCEPT !.subject = LoadSubject(D, stored)])
               nx == IF Resetting(x) THEN [base EXCEPT !.confirming = None] ELSE base
    <3>1. rounds' = [rounds EXCEPT ![r].at = "written", ![r].next = nx] /\ state' = state
      BY <1>1, <1>10 DEF Load
    <3>2. nx = base \/ nx = [base EXCEPT !.confirming = None]
      <4> HIDE DEF base
      <4> QED OBVIOUS
    <3>3. PICK k : k = n
      OBVIOUS
    <3>4. PICK y : y = nx
      OBVIOUS
    <3> HIDE DEF nx, n
    <3> QED BY <3>1, <3>2, <3>3, <3>4
  <2>2. Steady(layout, next)
    <3>1. PICK shape : shape = x.from
      OBVIOUS
    <3>2. Steady(layout, shape)
      BY <1>2, <3>1
    <3>3. /\ Steady(layout, Answered("confirmation", notice, [shape EXCEPT !.subject = subject]))
          /\ Steady(layout, [Answered("confirmation", notice, [shape EXCEPT !.subject = subject])
                                EXCEPT !.confirming = None])
      BY <3>2, Restated
    <3> QED BY <2>1, <3>1, <3>3
  <2>3. PICK new : new = [x EXCEPT !.at = "written", !.next = next]
    OBVIOUS
  <2>4. rounds' = [rounds EXCEPT ![r] = new]
    BY <1>1, <1>2, <2>1, <2>3
  <2>5. IsRound(new) /\ new.from = x.from /\ new.next = next
    BY <1>2, <2>3 DEF IsRound
  <2> QED BY <1>2, <1>3, <1>4, <2>1, <2>2, <2>4, <2>5, RoundKeeps
<1> QED BY <1>6, <1>7, <1>8, <1>9, <1>10 DEF Progress

LEMMA ScreenInvStep == ScreenInv /\ [Next]_vars => ScreenInv'
<1> SUFFICES ASSUME ScreenInv, [Next]_vars PROVE ScreenInv'
  OBVIOUS
<1>1. CASE /\ UNCHANGED <<scenario, chrome, layout, state, rounds>>
           /\ phase' = phase /\ (modals = {} => modals' = {})
  BY <1>1 DEF ScreenInv, RoundsTyped
<1>2. CASE Dismiss \/ WriteOutside \/ Finished \/ UNCHANGED vars
  BY <1>1, <1>2 DEF Dismiss, WriteOutside, Finished, vars
<1>3. CASE End("ending") \/ End("ended") \/ Disable
  BY <1>3 DEF End, Disable, ScreenInv, RoundsTyped
<1>4. CASE Open
  BY <1>4, OpenScreens
<1>5. CASE Submit
  BY <1>5, SubmitKeepsScreen
<1>6. ASSUME NEW r \in Rounds,
             AskReset(r) \/ CancelReset(r) \/ ConfirmReset(r) \/ Return(r) \/ Descend(r) \/ Ask(r) \/ Progress(r)
      PROVE  ScreenInv'
  BY <1>6, ClickKeepsScreen, ProgressKeepsScreen
<1> QED BY <1>2, <1>3, <1>4, <1>5, <1>6 DEF Next

LEMMA ScreenInvInit == Init => ScreenInv
<1> SUFFICES ASSUME Init PROVE ScreenInv
  OBVIOUS
<1>1. /\ scenario \in DOMAIN Scenarios /\ chrome \in Scenarios[scenario].chromes
      /\ phase = "closed" /\ layout = NoLayout /\ state = NoState
      /\ rounds = [r \in Rounds |-> Idle] /\ modals = {}
  BY DEF Init
<1>2. \A r \in Rounds : rounds[r] = Idle
  BY <1>1
<1>3. Laid(layout) /\ Steady(layout, NoState)
  BY <1>1, NoScreen DEF Laid, Above, LevelsSound
<1> QED BY <1>1, <1>2, <1>3, IdleRound DEF ScreenInv, RoundsTyped

(* Every state the store held, holds or will hold stands on a path of the  *)
(* layout the screen was opened with: what the two theorems below rest on. *)
THEOREM ScreenInvariance == Spec => []ScreenInv
BY ScreenInvInit, ScreenInvStep, PTL DEF Spec

(* A refusal is read wherever it is shown, in either layout.               *)
LEMMA RefusalRead ==
    ASSUME NEW c, NEW made, NEW s, s.notice.tone = "refusal", ~ConfirmingReset(s)
    PROVE  "refusal" \in Reads(c, made, s)
<1>1. s.notice # Silence
  BY DEF Silence, Notice
<1>2. CASE c.layout = "embeds"
  <2>1. CASE ~CanReturn(s.path)
    <3>1. HeaderEmbed(c, s) = <<"refusal">>
      BY <2>1 DEF HeaderEmbed
    <3> QED BY <1>2, <3>1, OneListed DEF Reads
  <2>2. CASE CanReturn(s.path)
    <3>1. PICK t : t = IF c.intro THEN <<"intro">> ELSE <<>>
      OBVIOUS
    <3>2. HeaderEmbed(c, s) = <<"trail">> \o <<"refusal">> \o t
      BY <1>1, <2>2, <3>1 DEF HeaderEmbed
    <3>3. IsList(t)
      BY <3>1, OneListed, EmptyListed
    <3>4. IsList(<<"trail">> \o <<"refusal">>) /\ "refusal" \in ToSet(<<"trail">> \o <<"refusal">>)
      BY OneListed, ConcatListed, ConcatSet
    <3>5. "refusal" \in ToSet(<<"trail">> \o <<"refusal">> \o t)
      BY <3>3, <3>4, ConcatSet
    <3> QED BY <1>2, <3>2, <3>5 DEF Reads
  <2> QED BY <2>1, <2>2
<1>3. CASE c.layout # "embeds"
  <2>1. PICK b : b = Block("text", <<"refusal">>)
    OBVIOUS
  <2>2. NoticeBlocks(c, s) = <<b>>
    BY <1>1, <2>1 DEF NoticeBlocks
  <2>3. ToSet(<<b>>) = {b} /\ "refusal" \in ToSet(b.of)
    BY <2>1, OneListed DEF Block
  <2> QED BY <1>3, <2>2, <2>3 DEF Reads
<1> QED BY <1>2, <1>3

(* Whatever the declaration, the clicks, how the rounds interleave and what*)
(* fails: every state a mounted screen reaches stands on a path that leads *)
(* back to the root, is within what Discord lets a message carry, and lets *)
(* a refusal be read (navigation.ts, createCard, createEditorView).        *)
THEOREM EveryStateRenders == Spec => []RendersSound
<1>1. ScreenInv => RendersSound
  <2> SUFFICES ASSUME ScreenInv, Mounted PROVE RendersSound
    BY DEF RendersSound
  <2>1. OnPath(layout, state.path)
    BY DEF ScreenInv, Steady
  <2>2. OnItsPath
    BY <2>1 DEF OnItsPath, OnPath, LevelKeys
  <2>3. RendersWithin(chrome, layout, state)
    BY ChromeFrames, ScreenFits DEF ScreenInv, Mounted
  <2> QED BY <2>2, <2>3, RefusalRead DEF RendersSound
<1> QED BY <1>1, ScreenInvariance, PTL

(* A card made of a declaration is always mounted: what the view refuses   *)
(* (createCardEditorView), the layout never asks of it.                    *)
CardsMount == chrome.layout = "card" => phase # "refused"

THEOREM CardsAreMounted == Spec => []CardsMount
<1>1. ScreenInv => CardsMount
  BY DEF ScreenInv, CardsMount
<1> QED BY <1>1, ScreenInvariance, PTL

-------------------------------------------------------------------------------
(* Paginators.                                                             *)
(* A mounted paginator and a source are told apart by what is shown; the   *)
(* clicks are of one or of the other.                                      *)
Views == [page : Int, buttons : SUBSET [by : {-1, 1}, to : Int]]
FlipType == [at : {"free", "reading", "again", "answering"}, asked : Int, view : Views,
             pages : Int, counted : BOOLEAN, moved : BOOLEAN]

PagingTypeOK ==
    /\ book \in [kind : {"none", "items", "source"}, size : Int]
    /\ page \in Int
    /\ collecting \in {"on", "ending", "off"}
    /\ shown \in Views
    /\ flips \in [Flips -> FlipType]

(* The page in the store and every edit under way are of the items, whose  *)
(* number never changes.                                                   *)
ItemsTurned ==
    /\ collecting = "on" => HoldsItems
    /\ HoldsItems =>
          /\ page \in FIRST_PAGE .. PageCount(book.size)
          /\ SoundPage(shown, PageCount(book.size), collecting = "on")
          /\ \A c \in Flips : /\ flips[c].at \in {"free", "answering"}
                              /\ flips[c].at = "answering" =>
                                    SoundPage(flips[c].view, PageCount(book.size), TRUE)

(* What the clicks on a source go by, unless it changed between two reads. *)
SourceRead ==
    \A c \in Flips :
        /\ flips[c].at = "reading" => flips[c].asked >= FIRST_PAGE
        /\ flips[c].at = "again" /\ ~flips[c].moved =>
              flips[c].asked \in FIRST_PAGE .. AtLeast(book.size, FIRST_PAGE)
        /\ flips[c].at = "answering" /\ ~flips[c].moved =>
              SoundPage(flips[c].view, flips[c].pages, flips[c].counted)

PagingInv == PagingTypeOK /\ ItemsTurned /\ SourceRead

-------------------------------------------------------------------------------
(* There is always a page.                                                 *)
LEMMA SomePage ==
    ASSUME NEW n \in Int
    PROVE  PageCount(n) \in Int /\ PageCount(n) >= 1
<1>1. PageSize \in Nat \ {0}
  BY PagingAssumption
<1>2. (n + PageSize - 1) \div PageSize \in Int
  BY <1>1
<1> QED BY <1>2 DEF PageCount, AtLeast, FIRST_PAGE

LEMMA Clamped ==
    ASSUME NEW p \in Int, NEW n \in Int, n >= 1
    PROVE  /\ ClampPage(p, n) \in 1 .. n
           /\ ClampPage(p, n) = p <=> p \in 1 .. n
BY DEF ClampPage, AtLeast, FIRST_PAGE

LEMMA RenderTyped ==
    ASSUME NEW n \in Int, n >= 1, NEW p \in Int
    PROVE  Render(p, n) \in Views
<1>1. \A d \in {-1, 1} : ClampPage(p + d, n) \in Int
  BY Clamped
<1> QED BY <1>1 DEF Render, Buttons, Views

(* A page that is there leads to pages that are, and is a dead end only of *)
(* a single page; drawn as a single page, it leads nowhere.                *)
LEMMA RenderSound ==
    ASSUME NEW n \in Int, n >= 1, NEW p \in 1 .. n
    PROVE  /\ Render(p, n) \in Views
           /\ \A b \in BOOLEAN : SoundPage(Render(p, n), n, b)
<1>1. Render(p, n) \in Views
  BY RenderTyped
<1>2. ASSUME NEW b \in Buttons(p, n)
      PROVE  b.to \in 1 .. n \ {p}
  <2>1. PICK d \in {-1, 1} : /\ b = [by |-> d, to |-> ClampPage(p + d, n)]
                             /\ (d = -1 => p > 1) /\ (d = 1 => p < n)
    BY <1>2 DEF Buttons, FIRST_PAGE
  <2>2. p + d \in 1 .. n /\ b.to = ClampPage(p + d, n)
    BY <2>1
  <2>3. b.to = p + d
    BY <2>2, Clamped
  <2> QED BY <2>2, <2>3
<1>3. ASSUME n > 1 PROVE Buttons(p, n) # {}
  <2>1. \E d \in {-1, 1} : n > 1 /\ (d = -1 => p > FIRST_PAGE) /\ (d = 1 => p < n)
    BY <1>3 DEF FIRST_PAGE
  <2> QED BY <2>1 DEF Buttons
<1> QED BY <1>1, <1>2, <1>3 DEF SoundPage, Render, FIRST_PAGE

LEMMA SingleSound ==
    ASSUME NEW n \in Int, NEW p \in 1 .. n
    PROVE  /\ Render(p, 1) \in Views
           /\ SoundPage(Render(p, 1), n, FALSE)
<1>1. Buttons(p, 1) = {}
  BY DEF Buttons
<1> QED BY <1>1 DEF SoundPage, Render, Views, FIRST_PAGE

LEMMA FreeIsIdle == NoPage \in Views /\ Free \in FlipType /\ Free.at = "free" /\ ~Free.moved
<1>1. NoPage \in Views
  <2>1. 1 \in Int /\ 1 \in 1 .. 1
    OBVIOUS
  <2> QED BY <2>1, SingleSound DEF NoPage, FIRST_PAGE
<1> QED BY <1>1 DEF Free, FlipType, FIRST_PAGE

LEMMA PagingInvInit == PagingInit => PagingInv
<1> SUFFICES ASSUME PagingInit PROVE PagingInv
  OBVIOUS
<1>1. book \in [kind : {"none", "items", "source"}, size : Int]
  BY PagingAssumption DEF PagingInit
<1>2. PICK first \in Openings :
        /\ page = IF HoldsItems THEN ClampPage(first, PageCount(book.size)) ELSE FIRST_PAGE
        /\ shown = IF HoldsItems THEN Render(page, PageCount(book.size)) ELSE NoPage
        /\ flips = [c \in Flips |->
                       IF book.kind = "source" /\ \A d \in Flips : c <= d
                       THEN [Free EXCEPT !.at = "reading", !.asked = AtLeast(first, FIRST_PAGE)] ELSE Free]
  BY DEF PagingInit
<1>3. first \in Int
  BY PagingAssumption
<1>4. collecting = IF HoldsItems /\ PageCount(book.size) > 1 THEN "on" ELSE "off"
  BY DEF PagingInit
<1> DEFINE asking == [Free EXCEPT !.at = "reading", !.asked = AtLeast(first, FIRST_PAGE)]
<1>5. asking \in FlipType /\ asking.at = "reading" /\ asking.asked >= 1
  <2>1. AtLeast(first, FIRST_PAGE) \in Int /\ AtLeast(first, FIRST_PAGE) >= 1
    BY <1>3 DEF AtLeast, FIRST_PAGE
  <2> QED BY <2>1, FreeIsIdle DEF FlipType
<1> HIDE DEF asking
<1>6. \A c \in Flips : /\ flips[c] \in {Free, asking}
                       /\ HoldsItems => flips[c] = Free
  BY <1>2 DEF HoldsItems, asking
<1>7. flips \in [Flips -> FlipType]
  BY <1>2, <1>5, <1>6, FreeIsIdle DEF asking
<1>8. SourceRead
  BY <1>5, <1>6, FreeIsIdle DEF SourceRead, FIRST_PAGE
<1>9. CASE HoldsItems
  <2>1. PageCount(book.size) \in Int /\ PageCount(book.size) >= 1
    BY <1>1, SomePage
  <2>2. page \in 1 .. PageCount(book.size) /\ shown = Render(page, PageCount(book.size))
    BY <1>2, <1>3, <1>9, <2>1, Clamped
  <2>3. shown \in Views /\ SoundPage(shown, PageCount(book.size), collecting = "on")
    BY <2>1, <2>2, RenderSound
  <2>4. ItemsTurned
    BY <1>6, <1>9, <2>2, <2>3, FreeIsIdle DEF ItemsTurned, FIRST_PAGE
  <2> QED BY <1>1, <1>4, <1>7, <1>8, <2>1, <2>2, <2>3, <2>4 DEF PagingInv, PagingTypeOK
<1>10. CASE ~HoldsItems
  <2>1. page = 1 /\ shown = NoPage /\ collecting = "off"
    BY <1>2, <1>4, <1>10 DEF FIRST_PAGE
  <2>2. PagingTypeOK
    BY <1>1, <1>7, <2>1, FreeIsIdle DEF PagingTypeOK
  <2> QED BY <1>8, <1>10, <2>1, <2>2 DEF PagingInv, ItemsTurned
<1> QED BY <1>9, <1>10

-------------------------------------------------------------------------------
(* A click on the items turns the page of the store, whatever was shown.   *)
LEMMA FlipKeeps ==
    ASSUME PagingInv, NEW c \in Flips, Flip(c)
    PROVE  PagingInv'
<1> DEFINE count == PageCount(book.size)
<1>1. /\ collecting = "on" /\ HoldsItems
      /\ flips' = [flips EXCEPT ![c] = [Free EXCEPT !.at = "answering", !.view = Render(page', count),
                                                   !.pages = count]]
      /\ UNCHANGED <<book, collecting, shown>>
  BY DEF Flip, FlipBecomes, PagingInv, ItemsTurned
<1>2. PICK b \in shown.buttons : page' = ClampPage(page + b.by, count)
  BY DEF Flip
<1>3. page + b.by \in Int /\ count \in Int /\ count >= 1
  <2>1. b.by \in {-1, 1} /\ page \in Int /\ book.size \in Int
    BY <1>2 DEF PagingInv, PagingTypeOK, Views
  <2> QED BY <2>1, SomePage
<1>4. page' \in 1 .. count
  BY <1>2, <1>3, Clamped
<1>5. Render(page', count) \in Views /\ SoundPage(Render(page', count), count, TRUE)
  BY <1>3, <1>4, RenderSound
<1> DEFINE turned == [Free EXCEPT !.at = "answering", !.view = Render(page', count), !.pages = count]
<1>6. /\ turned \in FlipType /\ turned.at = "answering" /\ turned.view = Render(page', count)
      /\ turned.pages = count /\ turned.counted = TRUE
  BY <1>3, <1>5, FreeIsIdle DEF FlipType, Free
<1> HIDE DEF turned, count
<1>7. /\ flips' \in [Flips -> FlipType] /\ flips'[c] = turned
      /\ \A d \in Flips \ {c} : flips'[d] = flips[d]
  BY <1>1, <1>6 DEF turned, PagingInv, PagingTypeOK
<1>8. PagingTypeOK'
  BY <1>1, <1>3, <1>4, <1>7 DEF PagingInv, PagingTypeOK
<1>9. ItemsTurned'
  <2>1. HoldsItems' /\ PageCount(book.size)' = count
    BY <1>1 DEF HoldsItems, count
  <2> QED BY <1>1, <1>4, <1>5, <1>6, <1>7, <2>1 DEF PagingInv, ItemsTurned, FIRST_PAGE, count
<1>10. SourceRead'
  <2>1. SoundPage(turned.view, turned.pages, turned.counted)
    BY <1>5, <1>6
  <2> QED BY <1>1, <1>6, <1>7, <2>1 DEF PagingInv, SourceRead
<1> QED BY <1>8, <1>9, <1>10 DEF PagingInv

(* A read of a source answers the click, or finds the page to read instead.*)
LEMMA FetchKeeps ==
    ASSUME PagingInv, NEW c \in Flips, NEW reported \in {book.size, Uncounted},
           FetchPage(c, reported) \/ FetchAgain(c, reported)
    PROVE  PagingInv'
<1> DEFINE f == flips[c]
           n == NormalisedCount(reported)
           last == AtLeast(book.size, FIRST_PAGE)
<1>1. f \in FlipType /\ book.size \in Int /\ flips \in [Flips -> FlipType]
  BY DEF PagingInv, PagingTypeOK
<1>2. ~HoldsItems /\ UNCHANGED <<book, page, collecting, shown>>
  BY DEF PagingInv, ItemsTurned, FetchPage, FetchAgain
<1>3. /\ last \in Int /\ last >= 1 /\ n \in {1, last}
      /\ reported # Uncounted => n = last
      /\ reported = Uncounted => n = 1
  BY <1>1 DEF NormalisedCount, AtLeast, FIRST_PAGE
<1>4. f.asked \in Int
  BY <1>1 DEF FlipType
<1>5. /\ ClampPage(f.asked, n) \in 1 .. last
      /\ ClampPage(f.asked, n) = f.asked <=> f.asked \in 1 .. n
  <2>1. n \in Int /\ n >= 1 /\ 1 .. n \subseteq 1 .. last
    BY <1>3
  <2> HIDE DEF n, last, f
  <2> QED BY <1>4, <2>1, Clamped
<1> HIDE DEF n, last, f
<1>6. ASSUME NEW new \in FlipType, flips' = [flips EXCEPT ![c] = new],
             new.at \in {"again", "answering"},
             new.at = "again" /\ ~new.moved => new.asked \in 1 .. last,
             new.at = "answering" /\ ~new.moved => SoundPage(new.view, new.pages, new.counted)
      PROVE  PagingInv'
  <2>1. /\ flips' \in [Flips -> FlipType] /\ flips'[c] = new
        /\ \A d \in Flips \ {c} : flips'[d] = flips[d]
    BY <1>1, <1>6
  <2>2. PagingTypeOK'
    BY <1>2, <2>1 DEF PagingInv, PagingTypeOK
  <2>3. ItemsTurned'
    BY <1>2 DEF PagingInv, ItemsTurned, HoldsItems
  <2>4. SourceRead'
    BY <1>2, <1>6, <2>1 DEF PagingInv, SourceRead, FIRST_PAGE, last
  <2> QED BY <2>2, <2>3, <2>4 DEF PagingInv
<1>7. ASSUME ~f.moved => f.asked \in 1 .. last, flips' = [flips EXCEPT ![c] = Fetched(f, reported)]
      PROVE  PagingInv'
  <2> DEFINE new == Fetched(f, reported)
  <2>1. Render(f.asked, n) \in Views
    BY <1>3, <1>4, RenderTyped
  <2>2. /\ new \in FlipType /\ new.at = "answering" /\ new.moved = f.moved
        /\ new.view = Render(f.asked, n) /\ new.pages = last
        /\ new.counted = (reported # Uncounted)
    <3>1. PICK v \in Views : v = Render(f.asked, n)
      BY <2>1
    <3>2. PICK b \in BOOLEAN : b = (reported # Uncounted)
      OBVIOUS
    <3>3. new = [f EXCEPT !.at = "answering", !.asked = 1, !.view = v, !.pages = last, !.counted = b]
      BY <3>1, <3>2 DEF Fetched, FIRST_PAGE, n, last
    <3> HIDE DEF new
    <3>4. f = [at |-> f.at, asked |-> f.asked, view |-> f.view, pages |-> f.pages,
               counted |-> f.counted, moved |-> f.moved]
      BY <1>1 DEF FlipType
    <3>5. new = [at |-> "answering", asked |-> 1, view |-> v, pages |-> last,
                 counted |-> b, moved |-> f.moved]
      BY <3>3, <3>4
    <3>6. f.moved \in BOOLEAN /\ last \in Int
      BY <1>1, <1>3 DEF FlipType
    <3>7. new \in FlipType
      BY <3>5, <3>6 DEF FlipType
    <3>8. /\ new.at = "answering" /\ new.moved = f.moved
          /\ new.view = v /\ new.pages = last /\ new.counted = b
      BY <3>5
    <3> QED BY <3>1, <3>2, <3>7, <3>8
  <2>3. ASSUME ~f.moved PROVE SoundPage(Render(f.asked, n), last, reported # Uncounted)
    <3>1. CASE reported # Uncounted
      <4>1. n = last /\ f.asked \in 1 .. last
        BY <1>3, <1>7, <2>3, <3>1
      <4> QED BY <1>3, <4>1, RenderSound
    <3>2. CASE reported = Uncounted
      <4>1. n = 1 /\ f.asked \in 1 .. last
        BY <1>3, <1>7, <2>3, <3>2
      <4>2. SoundPage(Render(f.asked, n), last, FALSE)
        BY <1>3, <4>1, SingleSound
      <4>3. (reported # Uncounted) = FALSE
        BY <3>2
      <4> QED BY <4>2, <4>3
    <3> QED BY <3>1, <3>2
  <2> HIDE DEF new
  <2>4. ~new.moved => SoundPage(new.view, new.pages, new.counted)
    BY <2>2, <2>3
  <2> QED BY <1>6, <1>7, <2>2, <2>4 DEF new
<1>8. CASE FetchPage(c, reported)
  <2>1. CASE ClampPage(f.asked, n) = f.asked
    <3>1. flips' = [flips EXCEPT ![c] = Fetched(f, reported)]
      BY <1>8, <2>1 DEF FetchPage, FlipBecomes, n, f
    <3>2. f.asked \in 1 .. last
      BY <1>5, <2>1
    <3> QED BY <1>7, <3>1, <3>2
  <2>2. CASE ClampPage(f.asked, n) # f.asked
    <3> DEFINE new == [f EXCEPT !.at = "again", !.asked = ClampPage(f.asked, n)]
    <3>1. flips' = [flips EXCEPT ![c] = new]
      BY <1>8, <2>2 DEF FetchPage, FlipBecomes, n, f
    <3>2. new \in FlipType /\ new.at = "again" /\ new.asked \in 1 .. last
      <4>1. PICK there \in 1 .. last : there = ClampPage(f.asked, n)
        BY <1>5
      <4>2. there \in Int
        BY <1>3
      <4> QED BY <1>1, <4>1, <4>2 DEF FlipType
    <3> HIDE DEF new
    <3> QED BY <1>6, <3>1, <3>2
  <2> QED BY <2>1, <2>2
<1>9. CASE FetchAgain(c, reported)
  <2>1. flips' = [flips EXCEPT ![c] = Fetched(f, reported)] /\ f.at = "again"
    BY <1>9 DEF FetchAgain, FlipBecomes, f
  <2>2. ~f.moved => f.asked \in 1 .. last
    BY <2>1 DEF PagingInv, SourceRead, f, last, FIRST_PAGE
  <2> QED BY <1>7, <2>1, <2>2
<1> QED BY <1>8, <1>9

(* A click that begins, is given up, or is answered.                       *)
LEMMA ClickKeeps ==
    ASSUME PagingInv, NEW c \in Flips, Choose(c) \/ FetchFails(c) \/ Land(c)
    PROVE  PagingInv'
<1>1. /\ flips \in [Flips -> FlipType] /\ shown \in Views
      /\ UNCHANGED <<book, page, collecting>>
  BY DEF PagingInv, PagingTypeOK, Choose, FetchFails, Land
<1>2. PICK new \in FlipType :
        /\ flips' = [flips EXCEPT ![c] = new]
        /\ new.at = "free" \/ (new.at = "reading" /\ new.asked >= 1 /\ ~HoldsItems)
  <2>1. CASE Choose(c)
    <3>1. PICK asked \in FIRST_PAGE .. MaxPages :
                  flips' = [flips EXCEPT ![c] = [Free EXCEPT !.at = "reading", !.asked = asked]]
      BY <2>1 DEF Choose, FlipBecomes
    <3> DEFINE new == [Free EXCEPT !.at = "reading", !.asked = asked]
    <3>2. asked \in Int /\ asked >= 1
      BY <3>1, PagingAssumption DEF FIRST_PAGE
    <3>3. new \in FlipType /\ new.at = "reading" /\ new.asked >= 1
      BY <3>2, FreeIsIdle DEF FlipType
    <3>4. ~HoldsItems
      BY <2>1 DEF Choose, HoldsItems
    <3> QED BY <3>1, <3>3, <3>4
  <2>2. CASE FetchFails(c) \/ Land(c)
    BY <2>2, FreeIsIdle DEF FetchFails, Land, FlipBecomes
  <2> QED BY <2>1, <2>2
<1>3. /\ flips' \in [Flips -> FlipType] /\ flips'[c] = new
      /\ \A d \in Flips \ {c} : flips'[d] = flips[d]
  BY <1>1, <1>2
<1>4. shown' = shown \/ (flips[c].at = "answering" /\ shown' = flips[c].view)
  BY DEF Choose, FetchFails, Land
<1>5. PagingTypeOK'
  <2>1. flips[c].view \in Views
    BY <1>1 DEF FlipType
  <2> QED BY <1>1, <1>3, <1>4, <2>1 DEF PagingInv, PagingTypeOK
<1>6. ItemsTurned'
  <2> SUFFICES ASSUME HoldsItems
               PROVE  /\ page \in FIRST_PAGE .. PageCount(book.size)
                      /\ SoundPage(shown', PageCount(book.size), collecting = "on")
                      /\ \A d \in Flips : /\ flips'[d].at \in {"free", "answering"}
                                          /\ flips'[d].at = "answering" =>
                                                SoundPage(flips'[d].view, PageCount(book.size), TRUE)
    BY <1>1 DEF PagingInv, ItemsTurned, HoldsItems
  <2>1. SoundPage(shown', PageCount(book.size), collecting = "on")
    <3>1. SoundPage(shown, PageCount(book.size), collecting = "on")
      BY DEF PagingInv, ItemsTurned
    <3>2. flips[c].at = "answering" => SoundPage(flips[c].view, PageCount(book.size), TRUE)
      BY DEF PagingInv, ItemsTurned
    <3> QED BY <1>4, <3>1, <3>2 DEF SoundPage
  <2> QED BY <1>2, <1>3, <2>1 DEF PagingInv, ItemsTurned
<1>7. SourceRead'
  BY <1>1, <1>2, <1>3 DEF PagingInv, SourceRead, FIRST_PAGE
<1> QED BY <1>5, <1>6, <1>7 DEF PagingInv

(* The end of the collector, a source that changes, and a restart.         *)
LEMMA OutsideKeeps ==
    ASSUME PagingInv, EndPaging \/ DisableOnEnd \/ SourceChanges \/ Restart
    PROVE  PagingInv'
<1>1. CASE EndPaging
  BY <1>1 DEF EndPaging, PagingInv, PagingTypeOK, ItemsTurned, SourceRead, HoldsItems, SoundPage
<1>2. CASE DisableOnEnd
  <2>1. /\ collecting' = "off" /\ shown' \in {[shown EXCEPT !.buttons = {}], shown}
        /\ UNCHANGED <<book, page, flips>>
    BY <1>2 DEF DisableOnEnd
  <2>2. /\ shown' \in Views /\ shown'.page = shown.page
        /\ shown'.buttons \in {{}, shown.buttons}
    BY <2>1 DEF PagingInv, PagingTypeOK, Views
  <2>3. PagingTypeOK'
    BY <2>1, <2>2 DEF PagingInv, PagingTypeOK
  <2>4. ItemsTurned'
    BY <2>1, <2>2 DEF PagingInv, ItemsTurned, HoldsItems, SoundPage
  <2> QED BY <2>1, <2>3, <2>4 DEF PagingInv, SourceRead
<1>3. CASE SourceChanges
  <2>1. PICK n \in 0 .. MaxPages : book' = [book EXCEPT !.size = n]
    BY <1>3 DEF SourceChanges
  <2>2. /\ book.kind = "source" /\ UNCHANGED <<page, collecting, shown>>
        /\ flips' = [c \in Flips |-> [flips[c] EXCEPT !.moved = @ \/ flips[c].at = "again"]]
    BY <1>3 DEF SourceChanges
  <2>3. /\ book' \in [kind : {"none", "items", "source"}, size : Int]
        /\ ~HoldsItems /\ ~HoldsItems'
    BY <2>1, <2>2, PagingAssumption DEF PagingInv, PagingTypeOK, HoldsItems
  <2>4. ASSUME NEW c \in Flips
        PROVE  /\ flips'[c] \in FlipType /\ flips'[c].at = flips[c].at
               /\ flips'[c].asked = flips[c].asked /\ flips'[c].view = flips[c].view
               /\ flips'[c].pages = flips[c].pages /\ flips'[c].counted = flips[c].counted
               /\ ~flips'[c].moved => ~flips[c].moved /\ flips[c].at # "again"
    <3>1. flips[c] \in FlipType
      BY DEF PagingInv, PagingTypeOK
    <3> QED BY <2>2, <3>1 DEF FlipType
  <2>5. PagingTypeOK'
    BY <2>2, <2>3, <2>4 DEF PagingInv, PagingTypeOK
  <2>6. ItemsTurned'
    BY <2>2, <2>3 DEF PagingInv, ItemsTurned
  <2>7. SourceRead'
    BY <2>4 DEF PagingInv, SourceRead
  <2> QED BY <2>5, <2>6, <2>7 DEF PagingInv
<1>4. CASE Restart
  <2>1. /\ flips' = [c \in Flips |-> Free] /\ collecting' = "off"
        /\ UNCHANGED <<book, page, shown>>
    BY <1>4 DEF Restart
  <2>2. ItemsTurned'
    BY <2>1, FreeIsIdle DEF PagingInv, ItemsTurned, HoldsItems, SoundPage
  <2> QED BY <2>1, <2>2, FreeIsIdle DEF PagingInv, PagingTypeOK, SourceRead
<1> QED BY <1>1, <1>2, <1>3, <1>4

LEMMA PagingInvStep == PagingInv /\ [PagingNext]_pagingVars => PagingInv'
<1> SUFFICES ASSUME PagingInv, [PagingNext]_pagingVars PROVE PagingInv'
  OBVIOUS
<1>1. CASE UNCHANGED pagingVars
  BY <1>1 DEF pagingVars, PagingInv, PagingTypeOK, ItemsTurned, SourceRead, HoldsItems
<1>2. CASE PagingNext
  BY <1>2, FlipKeeps, FetchKeeps, ClickKeeps, OutsideKeeps DEF PagingNext
<1> QED BY <1>1, <1>2

(* The page in the store, and every edit under way, is of what was read    *)
(* (mount-paginator, loadPage).                                            *)
THEOREM PagingInvariance == PagingSpec => []PagingInv
BY PagingInvInit, PagingInvStep, PTL DEF PagingSpec

(* For any items, source, clicks and pages asked for, whatever the edits   *)
(* do: the page shown was there when it was read, its buttons lead only to *)
(* pages that were, and it is no dead end (page-state.ts, mount-paginator, *)
(* loadPage).                                                              *)
THEOREM PagesAreThere == PagingSpec => []PagesSound
<1>1. PagingInv => PagesSound
  BY DEF PagingInv, ItemsTurned, SourceRead, PagesSound
<1> QED BY <1>1, PagingInvariance, PTL

===============================================================================
