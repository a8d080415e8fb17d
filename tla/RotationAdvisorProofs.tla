------------------------- MODULE RotationAdvisorProofs -------------------------
(***************************************************************************)
(* The answers of the rotation advisor agree with each other for every set *)
(* of tables, not only the shipped ones, and for every request.            *)
(***************************************************************************)
EXTENDS RotationAdvisor, FiniteSetTheorems, SequenceTheorems, TLAPS

TypeOK == \E p \in Profiles : fight \in Fights(p)

-----------------------------------------------------------------------------
(* Ranks in a finite strict order.                                         *)

StrictOrder(E, B) ==
  /\ \A i \in E : <<i, i>> \notin B
  /\ \A i, j, k \in E : <<i, j>> \in B /\ <<j, k>> \in B => <<i, k>> \in B
  /\ \A i, j \in E : i = j \/ <<i, j>> \in B \/ <<j, i>> \in B

Rank(E, B, i) == Cardinality({j \in E : <<j, i>> \in B})
PositionAt(E, B, k) == CHOOSE i \in E : Rank(E, B, i) = k - 1

\* Each rank below the number of elements is taken by exactly one of them, and
\* ranks grow along the order.
LEMMA RanksAreTaken ==
  ASSUME NEW E, IsFiniteSet(E), NEW B, StrictOrder(E, B)
  PROVE  /\ Cardinality(E) \in Nat
         /\ \A i \in E : Rank(E, B, i) \in 0 .. (Cardinality(E) - 1)
         /\ \A i, j \in E : <<i, j>> \in B <=> Rank(E, B, i) < Rank(E, B, j)
         /\ \A i, j \in E : Rank(E, B, i) = Rank(E, B, j) => i = j
         /\ \A k \in 1 .. Cardinality(E) : \E i \in E : Rank(E, B, i) = k - 1
<1> DEFINE n == Cardinality(E)
           below(i) == {j \in E : <<j, i>> \in B}
           rank == [i \in E |-> Rank(E, B, i)]
<1>1. n \in Nat
  BY FS_CardinalityType
<1>2. \A i \in E : rank[i] = Rank(E, B, i) /\ Rank(E, B, i) \in 0 .. (n - 1)
  <2> TAKE i \in E
  <2>1. below(i) \subseteq E /\ below(i) # E
    BY DEF StrictOrder
  <2>2. Cardinality(below(i)) \in Nat /\ Cardinality(below(i)) < n
    <3> HIDE DEF below
    <3>1. /\ IsFiniteSet(below(i)) /\ Cardinality(below(i)) <= Cardinality(E)
          /\ Cardinality(E) # Cardinality(below(i))
      BY <2>1, FS_Subset
    <3>2. Cardinality(below(i)) \in Nat
      BY <3>1, FS_CardinalityType
    <3> QED
      BY <1>1, <3>1, <3>2
  <2>3. rank[i] = Cardinality(below(i)) /\ Rank(E, B, i) = Cardinality(below(i))
    BY DEF Rank
  <2> HIDE DEF n, below, rank
  <2> QED
    BY <1>1, <2>2, <2>3
<1>3. \A i, j \in E : <<i, j>> \in B => Rank(E, B, i) < Rank(E, B, j)
  <2> TAKE i, j \in E
  <2> HAVE <<i, j>> \in B
  <2>1. i \in below(j) /\ i \notin below(i) /\ below(i) \subseteq below(j) /\ below(j) \subseteq E
    BY DEF StrictOrder
  <2>2. IsFiniteSet(below(j)) /\ below(i) # below(j)
    BY <2>1, FS_Subset
  <2> HIDE DEF below
  <2>3. Cardinality(below(i)) < Cardinality(below(j))
    BY <2>1, <2>2, FS_Subset, FS_CardinalityType
  <2> QED
    BY <2>3 DEF Rank, below
<1>4. \A i, j \in E : Rank(E, B, i) = Rank(E, B, j) => i = j
  <2> TAKE i, j \in E
  <2> HAVE Rank(E, B, i) = Rank(E, B, j)
  <2>1. ~(<<i, j>> \in B) /\ ~(<<j, i>> \in B)
    BY <1>1, <1>2, <1>3
  <2> QED
    BY <2>1 DEF StrictOrder
<1>5. \A i, j \in E : Rank(E, B, i) < Rank(E, B, j) => <<i, j>> \in B
  <2> TAKE i, j \in E
  <2> HAVE Rank(E, B, i) < Rank(E, B, j)
  <2>1. i # j /\ ~(<<j, i>> \in B)
    BY <1>1, <1>2, <1>3
  <2> QED
    BY <2>1 DEF StrictOrder
<1>6. rank \in Injection(E, 0 .. (n - 1))
  <2>1. rank \in [E -> 0 .. (n - 1)]
    BY <1>2
  <2> HIDE DEF rank, n
  <2> QED
    BY <1>2, <1>4, <2>1 DEF Injection, IsInjective
<1> HIDE DEF n
<1>7. IsFiniteSet(0 .. (n - 1)) /\ Cardinality(0 .. (n - 1)) = n
  <2>1. 0 \in Int /\ n - 1 \in Int
    BY <1>1
  <2>2. IsFiniteSet(0 .. (n - 1))
        /\ Cardinality(0 .. (n - 1)) = IF 0 > n - 1 THEN 0 ELSE (n - 1) - 0 + 1
    BY <2>1, FS_Interval
  <2> QED
    BY <1>1, <2>2
<1>8. rank \in Surjection(E, 0 .. (n - 1))
  <2>1. Cardinality(E) = Cardinality(0 .. (n - 1))
    BY <1>7 DEF n
  <2> HIDE DEF rank
  <2> QED
    BY <1>6, <1>7, <2>1, FS_Injection
<1>9. \A k \in 1 .. n : \E i \in E : Rank(E, B, i) = k - 1
  <2> HIDE DEF rank
  <2> TAKE k \in 1 .. n
  <2>1. k - 1 \in 0 .. (n - 1)
    BY <1>1
  <2> QED
    BY <1>2, <1>8, <2>1 DEF Surjection
<1> QED
  BY <1>1, <1>2, <1>3, <1>4, <1>5, <1>9 DEF n

\* Positions and ranks are inverse to each other.
LEMMA PositionsInOrder ==
  ASSUME NEW E, IsFiniteSet(E), NEW B, StrictOrder(E, B)
  PROVE  /\ \A k \in 1 .. Cardinality(E) :
              PositionAt(E, B, k) \in E /\ Rank(E, B, PositionAt(E, B, k)) = k - 1
         /\ \A i \in E : \A k \in 1 .. Cardinality(E) :
              Rank(E, B, i) = k - 1 => PositionAt(E, B, k) = i
<1>1. \A k \in 1 .. Cardinality(E) :
        PositionAt(E, B, k) \in E /\ Rank(E, B, PositionAt(E, B, k)) = k - 1
  BY RanksAreTaken DEF PositionAt
<1> QED
  BY <1>1, RanksAreTaken

\* A ranked list holds the entries of its positions, each in its place.
LEMMA RankedEntries ==
  ASSUME NEW list, NEW E \in SUBSET DOMAIN list, IsFiniteSet(E), NEW B, StrictOrder(E, B)
  PROVE  /\ Cardinality(E) \in Nat
         /\ Ranked(list, E, B) = [k \in 1 .. Cardinality(E) |-> list[PositionAt(E, B, k)]]
         /\ Len(Ranked(list, E, B)) = Cardinality(E)
         /\ DOMAIN Ranked(list, E, B) = 1 .. Cardinality(E)
         /\ \A k \in 1 .. Cardinality(E) : Ranked(list, E, B)[k] = list[PositionAt(E, B, k)]
<1>1. Cardinality(E) \in Nat
  BY FS_CardinalityType
<1>2. Ranked(list, E, B) = [k \in 1 .. Cardinality(E) |-> list[PositionAt(E, B, k)]]
  BY DEF Ranked, PositionAt, Rank
<1> QED
  BY <1>1, <1>2

-----------------------------------------------------------------------------
(* The orders of the advisor.                                              *)

LEMMA SoundListsAreFinite ==
  ASSUME NEW list, ListIsSound(list), NEW E \in SUBSET DOMAIN list
  PROVE  IsFiniteSet(E)
<1>1. IsFiniteSet(1 .. Len(list))
  BY FS_Interval DEF ListIsSound
<1> QED
  BY <1>1, FS_Subset DEF ListIsSound

LEMMA OrdersAreStrict ==
  ASSUME NEW list, ListIsSound(list), NEW E \in SUBSET DOMAIN list
  PROVE  /\ StrictOrder(E, ByWeight(list))
         /\ StrictOrder(E, ByPriorityAlone(list))
         /\ StrictOrder(E, AsListed(list))
<1>1. /\ \A i \in E : i \in Int /\ i \in DOMAIN list
      /\ \A i \in E : list[i].priority \in Int /\ list[i].weight \in Int
  BY DEF ListIsSound
<1>2. \A i, j \in E : /\ <<i, j>> \in ByWeight(list) <=> RanksBefore(list, i, j)
                      /\ <<i, j>> \in AsListed(list) <=> i < j
                      /\ <<i, j>> \in ByPriorityAlone(list) <=>
                           \/ list[i].priority < list[j].priority
                           \/ list[i].priority = list[j].priority /\ i < j
  BY <1>1 DEF ByWeight, AsListed, ByPriorityAlone, Pairs
<1>3. StrictOrder(E, ByWeight(list))
  BY <1>1, <1>2 DEF StrictOrder, RanksBefore
<1>4. StrictOrder(E, ByPriorityAlone(list))
  BY <1>1, <1>2 DEF StrictOrder
<1>5. StrictOrder(E, AsListed(list))
  BY <1>1, <1>2 DEF StrictOrder
<1> QED
  BY <1>3, <1>4, <1>5

LEMMA RankedIsSound ==
  ASSUME NEW list, ListIsSound(list), NEW E \in SUBSET DOMAIN list, NEW B, StrictOrder(E, B)
  PROVE  ListIsSound(Ranked(list, E, B))
<1>1. IsFiniteSet(E)
  BY SoundListsAreFinite
<1>2. /\ Cardinality(E) \in Nat
      /\ Len(Ranked(list, E, B)) = Cardinality(E)
      /\ DOMAIN Ranked(list, E, B) = 1 .. Cardinality(E)
      /\ \A k \in 1 .. Cardinality(E) : Ranked(list, E, B)[k] = list[PositionAt(E, B, k)]
  BY <1>1, RankedEntries
<1>3. \A k \in 1 .. Cardinality(E) : PositionAt(E, B, k) \in DOMAIN list
  BY <1>1, PositionsInOrder
<1> QED
  BY <1>2, <1>3 DEF ListIsSound

LEMMA PoolIsSound ==
  ASSUME NEW p \in Profiles, NEW situation
  PROVE  ListIsSound(Pool(p, situation))
<1>1. \A list \in {p.opener, p.single, p.aoe, p.movement, p.defensives} : ListIsSound(list)
  BY TablesAssumption
<1>2. ListIsSound(MovementList(p))
  <2>1. CASE p.movement # <<>>
    BY <1>1, <2>1 DEF MovementList
  <2>2. CASE p.movement = <<>>
    <3> DEFINE E == {i \in DOMAIN p.single : Castable(p.single[i])}
    <3>1. ListIsSound(p.single) /\ E \in SUBSET DOMAIN p.single
      BY <1>1
    <3>2. MovementList(p) = Ranked(p.single, E, AsListed(p.single))
      BY <2>2 DEF MovementList, Those
    <3> HIDE DEF E
    <3> QED
      BY <3>1, <3>2, OrdersAreStrict, RankedIsSound
  <2> QED
    BY <2>1, <2>2
<1> QED
  BY <1>1, <1>2 DEF Pool

-----------------------------------------------------------------------------
(* Advice.                                                                 *)

List(f) == Pool(f.profile, Situation(f))

\* The advice is the head of the allowed abilities in the order of weight.
LEMMA AdviceEntries ==
  ASSUME NEW f, f.profile \in Profiles
  PROVE  LET E == Allowed(List(f), f)
             B == ByWeight(List(f))
         IN  /\ ListIsSound(List(f)) /\ E \in SUBSET DOMAIN List(f) /\ IsFiniteSet(E)
             /\ StrictOrder(E, B) /\ Cardinality(E) \in Nat
             /\ Advice(f) = SubSeq(Ranked(List(f), E, B), 1, Len(Advice(f)))
             /\ Len(Advice(f)) = IF Cardinality(E) < Shown THEN Cardinality(E) ELSE Shown
             /\ DOMAIN Advice(f) = 1 .. Len(Advice(f))
             /\ \A k \in 1 .. Len(Advice(f)) :
                  /\ k \in 1 .. Cardinality(E)
                  /\ Advice(f)[k] = List(f)[PositionAt(E, B, k)]
                  /\ PositionAt(E, B, k) \in E
<1> DEFINE L == List(f)
           E == Allowed(L, f)
           B == ByWeight(L)
           n == Cardinality(E)
           r == Ranked(L, E, B)
           m == IF n < Shown THEN n ELSE Shown
<1>1. ListIsSound(L)
  BY PoolIsSound DEF List
<1>2. E \in SUBSET DOMAIN L
  BY DEF Allowed
<1> HIDE DEF L, E
<1>3. IsFiniteSet(E) /\ StrictOrder(E, B)
  BY <1>1, <1>2, SoundListsAreFinite, OrdersAreStrict
<1> HIDE DEF B
<1>4. /\ n \in Nat /\ Len(r) = n
      /\ \A k \in 1 .. n : r[k] = L[PositionAt(E, B, k)]
  BY <1>2, <1>3, RankedEntries
<1>5. \A k \in 1 .. n : PositionAt(E, B, k) \in E
  BY <1>3, PositionsInOrder
<1>6. Advice(f) = SubSeq(r, 1, IF Len(r) < Shown THEN Len(r) ELSE Shown)
  BY DEF Advice, List, L, E, B
<1> HIDE DEF n, r
<1>7. Advice(f) = SubSeq(r, 1, m) /\ m \in Nat /\ 1 .. m \subseteq 1 .. n
  BY <1>4, <1>6 DEF Shown
<1> HIDE DEF m
<1>8. /\ SubSeq(r, 1, m) \in Seq({L[PositionAt(E, B, k)] : k \in 1 .. n})
      /\ Len(SubSeq(r, 1, m)) = IF 1 <= m THEN m - 1 + 1 ELSE 0
      /\ \A k \in 1 .. m - 1 + 1 : SubSeq(r, 1, m)[k] = r[1 + k - 1]
  <2>1. \A k \in 1 .. m : r[k] \in {L[PositionAt(E, B, i)] : i \in 1 .. n}
    BY <1>4, <1>7
  <2>2. 1 \in Int /\ m \in Int
    BY <1>7
  <2> DEFINE T == {L[PositionAt(E, B, k)] : k \in 1 .. n}
  <2> HIDE DEF T
  <2>3. \A k \in 1 .. m : r[k] \in T
    BY <2>1 DEF T
  <2>4. /\ SubSeq(r, 1, m) \in Seq(T)
        /\ Len(SubSeq(r, 1, m)) = IF 1 <= m THEN m - 1 + 1 ELSE 0
        /\ \A k \in 1 .. m - 1 + 1 : SubSeq(r, 1, m)[k] = r[1 + k - 1]
    BY <2>2, <2>3, SubSeqProperties
  <2> QED
    BY <2>4 DEF T
<1>9. /\ Len(Advice(f)) = m /\ DOMAIN Advice(f) = 1 .. m
      /\ \A k \in 1 .. m : Advice(f)[k] = r[k]
  BY <1>7, <1>8
<1>10. Advice(f) = SubSeq(r, 1, Len(Advice(f)))
  BY <1>7, <1>9
<1>11. \A k \in 1 .. Len(Advice(f)) :
         /\ k \in 1 .. n
         /\ Advice(f)[k] = L[PositionAt(E, B, k)]
         /\ PositionAt(E, B, k) \in E
  BY <1>4, <1>5, <1>7, <1>9
<1> QED
  BY <1>1, <1>2, <1>3, <1>4, <1>9, <1>10, <1>11 DEF L, E, B, n, r, m

\* There is advice when anything is allowed, and no other allowed ability has a
\* better priority than the first.
LEMMA FirstIsBest ==
  ASSUME NEW f, f.profile \in Profiles
  PROVE  /\ Advice(f) # <<>> <=> Allowed(List(f), f) # {}
         /\ Advice(f) # <<>> =>
              /\ \E i \in Allowed(List(f), f) : Advice(f)[1] = List(f)[i]
              /\ \A j \in Allowed(List(f), f) : Advice(f)[1].priority <= List(f)[j].priority
<1> DEFINE L == List(f)
           E == Allowed(L, f)
           B == ByWeight(L)
           n == Cardinality(E)
<1>1. /\ ListIsSound(L) /\ E \in SUBSET DOMAIN L /\ IsFiniteSet(E) /\ StrictOrder(E, B)
      /\ n \in Nat /\ Len(Advice(f)) = (IF n < Shown THEN n ELSE Shown)
      /\ DOMAIN Advice(f) = 1 .. Len(Advice(f))
      /\ \A k \in 1 .. Len(Advice(f)) : Advice(f)[k] = L[PositionAt(E, B, k)]
      /\ Advice(f) = SubSeq(Ranked(L, E, B), 1, Len(Advice(f)))
  BY AdviceEntries
<1>2. n = 0 <=> E = {}
  BY <1>1, FS_EmptySet
<1>3. Advice(f) = <<>> <=> n = 0
  <2>1. Len(Advice(f)) \in Nat /\ (Len(Advice(f)) = 0 <=> n = 0)
    BY <1>1 DEF Shown
  <2>2. ASSUME Len(Advice(f)) = 0 PROVE Advice(f) = <<>>
    BY <1>1, <2>2, SubSeqEmpty
  <2>3. ASSUME Advice(f) = <<>> PROVE Len(Advice(f)) = 0
    BY <2>3
  <2> QED
    BY <2>1, <2>2, <2>3
<1>4. ASSUME n # 0
      PROVE  /\ \E i \in E : Advice(f)[1] = L[i]
             /\ \A j \in E : Advice(f)[1].priority <= L[j].priority
  <2>1. 1 \in 1 .. n /\ 1 \in 1 .. Len(Advice(f))
    BY <1>1, <1>4 DEF Shown
  <2> DEFINE i == PositionAt(E, B, 1)
  <2>2. i \in E /\ Rank(E, B, i) = 0 /\ Advice(f)[1] = L[i]
    BY <1>1, <2>1, PositionsInOrder
  <2> HIDE DEF i
  <2>3. \A j \in E : i = j \/ <<i, j>> \in B
    <3> TAKE j \in E
    <3>1. Rank(E, B, j) \in Nat /\ (Rank(E, B, i) = Rank(E, B, j) => i = j)
          /\ (<<i, j>> \in B <=> Rank(E, B, i) < Rank(E, B, j))
      <4> HIDE DEF E, B
      <4>1. Rank(E, B, j) \in 0 .. (Cardinality(E) - 1)
        BY <1>1, RanksAreTaken
      <4> QED
        BY <1>1, <2>2, <4>1, RanksAreTaken DEF n
    <3> QED
      BY <2>2, <3>1
  <2>4. \A j \in E : L[j].priority \in Int
    BY <1>1 DEF ListIsSound
  <2>5. \A j \in E : <<i, j>> \in B => L[i].priority <= L[j].priority
    BY <2>2, <2>4 DEF ByWeight, RanksBefore, Pairs
  <2> HIDE DEF L, E, B
  <2>6. \A j \in E : L[i].priority <= L[j].priority
    <3> TAKE j \in E
    <3>1. CASE i = j
      BY <2>2, <2>4, <3>1
    <3>2. CASE <<i, j>> \in B
      BY <2>5, <3>2
    <3> QED
      BY <2>3, <3>1, <3>2
  <2> QED
    BY <2>2, <2>6
<1> QED
  BY <1>2, <1>3, <1>4

-----------------------------------------------------------------------------
(* The fight keeps its table and its numbers.                              *)

LEMMA FightsAreTyped ==
  ASSUME NEW p \in Profiles, NEW f \in Fights(p)
  PROVE  f.profile = p /\ f.targets \in Nat /\ f.resource \in Int
<1>1. f.profile = p /\ f.targets \in Targets /\ f.resource \in Pools
  BY DEF Fights
<1>2. Targets \subseteq Nat /\ Pools \subseteq Int
  BY FightAssumption
<1> QED
  BY <1>1, <1>2

LEMMA InitType == ASSUME Init PROVE TypeOK
  BY DEF Init, TypeOK

LEMMA StepType ==
  ASSUME TypeOK, Next
  PROVE  TypeOK' /\ fight'.profile = fight.profile
<1>1. PICK p \in Profiles : fight \in Fights(p)
  BY DEF TypeOK
<1>2. /\ fight.profile = p /\ fight.targets \in Targets /\ fight.moving \in BOOLEAN
      /\ fight.resource \in Pools /\ fight.cooling \in Cooling(p)
      /\ fight.buffs \in {{}, Buffs(p)}
      /\ fight.talents \in {{}, {"another"}, Talents(p)}
      /\ fight = [profile |-> fight.profile, targets |-> fight.targets, moving |-> fight.moving,
                  resource |-> fight.resource, cooling |-> fight.cooling, buffs |-> fight.buffs,
                  talents |-> fight.talents]
  BY <1>1 DEF Fights
<1>3. fight' \in Fights(p) /\ fight'.profile = fight.profile
  <2>1. CASE EnemiesChange
    BY <1>2, <2>1 DEF EnemiesChange, Fights
  <2>2. CASE Step
    BY <1>2, <2>2 DEF Step, Fights
  <2>3. CASE PoolChanges
    BY <1>2, <2>3 DEF PoolChanges, Fights
  <2>4. CASE CooldownsChange
    BY <1>2, <2>4 DEF CooldownsChange, Fights
  <2>5. CASE BuffsChange
    BY <1>2, <2>5 DEF BuffsChange, Fights
  <2> QED
    BY <2>1, <2>2, <2>3, <2>4, <2>5 DEF Next
<1> QED
  BY <1>3 DEF TypeOK

LEMMA TypeHolds == Spec => []TypeOK
<1>1. TypeOK /\ [Next]_fight => TypeOK'
  <2>1. TypeOK /\ fight' = fight => TypeOK'
    BY DEF TypeOK, Fights, Cooling, Timers, Buffs, Talents, Abilities
  <2> QED
    BY <2>1, StepType
<1> QED
  BY InitType, <1>1, PTL DEF Spec

-----------------------------------------------------------------------------
(* The answers agree.                                                      *)

LEMMA PlansDoAgree ==
  ASSUME TypeOK
  PROVE  PlansAgree
<1>1. PICK p \in Profiles : fight \in Fights(p)
  BY DEF TypeOK
<1>2. fight.profile = p
  BY <1>1, FightsAreTyped
<1> DEFINE now == Answer(fight, "next")
           plan == Answer(fight, "cooldowns")
           E == Allowed(List(fight), fight)
           B == ByWeight(List(fight))
<1>3. /\ now.press = Advice(fight) /\ now.ready = ReadyCooldowns(fight)
      /\ now.defensives = ReadyDefensives(fight) /\ plan.ready = PlanReady(fight)
  BY DEF Answer
<1>4. ReadyCooldowns(fight) \subseteq PlanReady(fight)
  BY DEF ReadyCooldowns, PlanReady
<1>5. PlanReady(fight) \cup PlanOnCooldown(fight) = {a.name : a \in Elements(fight.profile.cooldowns)}
  BY DEF PlanReady, PlanOnCooldown
<1>6. \A i \in DOMAIN Advice(fight) : Advice(fight)[i].name \notin PlanOnCooldown(fight)
  <2> TAKE i \in DOMAIN Advice(fight)
  <2>1. PICK k \in E : Advice(fight)[i] = List(fight)[k]
    BY <1>2, AdviceEntries
  <2>2. Advice(fight)[i].name \notin fight.cooling
    BY <2>1 DEF Allowed, Eligible, Ready
  <2>3. \A name \in PlanOnCooldown(fight) : name \in fight.cooling
    BY DEF PlanOnCooldown, Ready
  <2> QED
    BY <2>2, <2>3
<1>7. \A kind \in Situations : ReadyDefensives(fight) \subseteq Answer(fight, kind).defensives
  <2> TAKE kind \in Situations
  <2>1. Answer(fight, kind).defensives = {a.name : a \in Elements(fight.profile.defensives)}
    BY DEF Answer, Situations
  <2> QED
    BY <2>1 DEF ReadyDefensives
<1> QED
  BY <1>3, <1>4, <1>5, <1>6, <1>7 DEF PlansAgree

\* For every table and every request: what the live answer calls ready is ready
\* in the cooldown plan, nothing to press is on cooldown there, and its
\* defensives are on every page (advise, cooldown_plan and rotation_for).
THEOREM AnswersAgree == Spec => []PlansAgree
  BY TypeHolds, PlansDoAgree, PTL

-----------------------------------------------------------------------------
(* More never hurts.                                                       *)

\* No table makes an ability wait for a buff to end: a further buff forbids
\* nothing.
LEMMA FreedomKeepsEligible ==
  ASSUME NEW f, NEW g, f.resource \in Int, g.resource \in Int, Frees(f, g),
         NEW a, a.cost \in Int, a.avoid = {}, Eligible(a, f)
  PROVE  Eligible(a, g)
<1>1. AoeOk(a, g) /\ TalentOk(a, g) /\ Ready(a, g) /\ (g.moving => Castable(a))
  BY DEF Frees, Eligible, AoeOk, TalentOk, Ready
<1>2. BuffsOk(a, g)
  BY DEF Frees, Eligible, BuffsOk
<1>3. Affordable(a, g)
  BY DEF Frees, Eligible, Affordable
<1> QED
  BY <1>1, <1>2, <1>3 DEF Eligible

\* The list in use avoids no buff when its table does not.
LEMMA ListAvoidsNothing ==
  ASSUME NothingIsAvoided, NEW p \in Profiles, NEW f, f.profile = p
  PROVE  \A i \in DOMAIN List(f) : List(f)[i].avoid = {}
<1> DEFINE Avoidless(l) == \A i \in DOMAIN l : l[i].avoid = {}
<1>1. Avoidless(p.single) /\ Avoidless(p.aoe) /\ Avoidless(p.movement)
  BY DEF NothingIsAvoided, Abilities
<1>2. Avoidless(MovementList(p))
  <2>1. CASE p.movement # <<>>
    BY <1>1, <2>1 DEF MovementList
  <2>2. CASE p.movement = <<>>
    <3> DEFINE E == {i \in DOMAIN p.single : Castable(p.single[i])}
               B == AsListed(p.single)
    <3>1. ListIsSound(p.single) /\ E \in SUBSET DOMAIN p.single
      BY TablesAssumption
    <3>2. MovementList(p) = Ranked(p.single, E, B)
      BY <2>2 DEF MovementList, Those
    <3> HIDE DEF E
    <3>3. IsFiniteSet(E) /\ StrictOrder(E, B)
      BY <3>1, SoundListsAreFinite, OrdersAreStrict
    <3> HIDE DEF B
    <3>4. /\ DOMAIN Ranked(p.single, E, B) = 1 .. Cardinality(E)
          /\ \A k \in 1 .. Cardinality(E) :
               Ranked(p.single, E, B)[k] = p.single[PositionAt(E, B, k)] /\ PositionAt(E, B, k) \in E
      BY <3>1, <3>3, RankedEntries, PositionsInOrder
    <3> QED
      BY <1>1, <3>1, <3>2, <3>4
  <2> QED
    BY <2>1, <2>2
<1>3. List(f) \in {p.single, p.aoe, MovementList(p)}
  BY DEF List, Pool, Situation
<1> QED
  BY <1>1, <1>2, <1>3

\* What frees the player keeps every allowed ability allowed.
LEMMA FreedomKeepsAllowed ==
  ASSUME NothingIsAvoided, NEW p \in Profiles, NEW f \in Fights(p), NEW g \in Fights(p), Frees(f, g)
  PROVE  List(g) = List(f) /\ Allowed(List(f), f) \subseteq Allowed(List(g), g)
<1>1. /\ f.profile = p /\ f.resource \in Int /\ g.profile = p /\ g.resource \in Int
  BY FightsAreTyped
<1>2. List(g) = List(f)
  BY <1>1 DEF List, Situation, Frees
<1>3. ASSUME NEW i \in Allowed(List(f), f) PROVE i \in Allowed(List(f), g)
  <2>1. i \in DOMAIN List(f) /\ Eligible(List(f)[i], f)
    BY DEF Allowed
  <2>2. List(f)[i].avoid = {} /\ ListIsSound(List(f))
    BY <1>1, <2>1, ListAvoidsNothing, PoolIsSound DEF List
  <2>3. List(f)[i].cost \in Int
    BY <2>1, <2>2 DEF ListIsSound
  <2>4. Eligible(List(f)[i], g)
    BY <1>1, <2>1, <2>2, <2>3, FreedomKeepsEligible
  <2> QED
    BY <2>1, <2>4 DEF Allowed
<1> QED
  BY <1>2, <1>3

LEMMA FreedomIsGood ==
  ASSUME NothingIsAvoided, NEW p \in Profiles, NEW f \in Fights(p), NEW g \in Fights(p), Frees(f, g)
  PROVE  NoWorse(f, g)
<1>1. /\ f.profile = p /\ f.resource \in Int /\ g.profile = p /\ g.resource \in Int
  BY FightsAreTyped
<1>2. ASSUME Advice(f) # <<>>
      PROVE  Advice(g) # <<>> /\ Advice(g)[1].priority <= Advice(f)[1].priority
  <2>1. PICK i \in Allowed(List(f), f) : Advice(f)[1] = List(f)[i]
    BY <1>1, <1>2, FirstIsBest
  <2>2. i \in Allowed(List(g), g) /\ List(g) = List(f)
    BY FreedomKeepsAllowed
  <2>3. Advice(g) # <<>>
    BY <1>1, <2>2, FirstIsBest
  <2>4. Advice(g)[1].priority <= List(g)[i].priority
    BY <1>1, <2>2, <2>3, FirstIsBest
  <2> QED
    BY <2>1, <2>2, <2>3, <2>4
<1>3. ReadyCooldowns(f) \subseteq ReadyCooldowns(g)
  <2>1. \A a \in Elements(p.cooldowns) : a.avoid = {}
    BY DEF NothingIsAvoided, Abilities, Elements
  <2>2. \A a \in Elements(p.cooldowns) : Ready(a, f) /\ BuffsOk(a, f) => Ready(a, g) /\ BuffsOk(a, g)
    BY <2>1 DEF Ready, BuffsOk, Frees
  <2> QED
    BY <1>1, <2>2 DEF ReadyCooldowns
<1>4. ReadyDefensives(f) \subseteq ReadyDefensives(g)
  BY <1>1 DEF ReadyDefensives, Ready, Frees
<1>5. BurstReady(f) \subseteq BurstReady(g)
  <2>1. \A t \in Elements(p.triggers) : t.threshold \in Int
    BY TablesAssumption DEF Elements
  <2>2. \A t \in Elements(p.triggers) : f.resource >= t.threshold => g.resource >= t.threshold
    BY <1>1, <2>1 DEF Frees
  <2> QED
    BY <1>1, <2>2 DEF BurstReady
<1> QED
  BY <1>2, <1>3, <1>4, <1>5 DEF NoWorse

\* For every table that makes no ability wait for a buff to end: a change of the
\* fight that only frees the player leaves advice of the same or a better
\* priority, and takes no cooldown, defensive or burst window (advise,
\* _ready_cooldowns, _defensives, _burst_plan).
THEOREM FreedomNeverHurts == NothingIsAvoided => (Spec => MoreNeverHurts)
<1> SUFFICES ASSUME NothingIsAvoided PROVE Spec => MoreNeverHurts
  OBVIOUS
<1>1. TypeOK /\ [Next]_fight => [Frees(fight, fight') => NoWorse(fight, fight')]_fight
  <2> SUFFICES ASSUME TypeOK, Next, Frees(fight, fight')
               PROVE  NoWorse(fight, fight')
    OBVIOUS
  <2>1. PICK p \in Profiles : fight \in Fights(p)
    BY DEF TypeOK
  <2>2. PICK q \in Profiles : fight' \in Fights(q)
    BY StepType DEF TypeOK, Fights, Cooling, Timers, Buffs, Talents, Abilities
  <2>3. fight.profile = p /\ fight'.profile = q /\ fight'.profile = fight.profile
    BY <2>1, <2>2, FightsAreTyped, StepType
  <2> QED
    BY <2>1, <2>2, <2>3, FreedomIsGood
<1> QED
  BY TypeHolds, <1>1, PTL DEF Spec, MoreNeverHurts

==============================================================================
