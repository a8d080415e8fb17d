---------------------------- MODULE RotationAdvisor ----------------------------
(***************************************************************************)
(* The rotation advisor of src/backend/app/modules/rotation/engine.py over *)
(* any tables; those that are shipped are module RotationProfiles.  A      *)
(* player sends the state of a fight again and again (a "tick"); the       *)
(* advisor keeps nothing between two requests, so the fight is the only    *)
(* variable and what the advisor answers is a function of it.  A fight     *)
(* stands for its specialization by the profile that the advisor looks up. *)
(***************************************************************************)
EXTENDS Integers, Sequences, FiniteSets

CONSTANTS
  Profiles,        \* the tables, one for each specialization
  Specializations, \* the catalogue of specializations
  Targets,         \* the numbers of enemies a request names
  Pools            \* the values of the primary resource a request names

ASSUME FightAssumption == Targets \subseteq Nat \ {0} /\ Pools \subseteq Nat

\* The fields of a table that are compared or counted are numbers.
ListIsSound(list) ==
  /\ Len(list) \in Nat /\ DOMAIN list = 1 .. Len(list)
  /\ \A i \in DOMAIN list : {list[i].priority, list[i].weight, list[i].cost} \subseteq Int
ASSUME TablesAssumption ==
  \A p \in Profiles :
    /\ \A list \in {p.opener, p.single, p.aoe, p.movement, p.defensives, p.cooldowns} : ListIsSound(list)
    /\ \A i \in DOMAIN p.triggers : p.triggers[i].threshold \in Int

VARIABLE fight

Abilities(p) == UNION {{l[i] : i \in DOMAIN l} : l \in {p.single, p.aoe, p.movement, p.cooldowns}}
Timers(p) == {a.name : a \in {b \in Abilities(p) : b.cooldown > 0}}
Buffs(p) == UNION {a.requires \cup a.avoid : a \in Abilities(p)}
Talents(p) == p.expected \cup UNION {a.talents : a \in Abilities(p)}

(***************************************************************************)
(* The requests of one specialization: nothing, one ability or everything  *)
(* is on cooldown, the buffs it names are all up or all down, and the      *)
(* request names no talent, a talent of no use here, or all of them.       *)
(***************************************************************************)
Cooling(p) == {{}, Timers(p)} \cup {{n} : n \in Timers(p)}
Fights(p) ==
  [profile : {p}, targets : Targets, moving : BOOLEAN, resource : Pools, cooling : Cooling(p),
   buffs : {{}, Buffs(p)}, talents : {{}, {"another"}, Talents(p)}]

-----------------------------------------------------------------------------
(* Mutant: an ability for n targets is kept back until there are n + 1.    *)
AoeOkStrict(a, f) == f.targets > a.min_targets
(* Mutant: a spender is allowed while the pool is below its cost.          *)
AffordableInverted(a, f) == a.cost > 0 => f.resource <= a.cost

(* Whether the state of the fight allows an ability: _eligible.            *)
Ready(a, f) == a.name \notin f.cooling
Affordable(a, f) == a.cost > 0 => f.resource >= a.cost
TalentOk(a, f) == f.talents # {} => a.talents \subseteq f.talents
BuffsOk(a, f) == a.requires \subseteq f.buffs /\ a.avoid \cap f.buffs = {}
AoeOk(a, f) == f.targets >= a.min_targets
Castable(a) == a.mobile \/ a.kind = "utility"
Eligible(a, f) ==
  /\ AoeOk(a, f) /\ BuffsOk(a, f) /\ TalentOk(a, f) /\ Ready(a, f) /\ Affordable(a, f)
  /\ f.moving => Castable(a)

(* The entries of a list at some of its positions, in the order of a       *)
(* relation on them.                                                       *)
Ranked(list, positions, before) ==
  [k \in 1 .. Cardinality(positions) |->
     list[CHOOSE i \in positions : Cardinality({j \in positions : <<j, i>> \in before}) = k - 1]]
Pairs(list) == (DOMAIN list) \X (DOMAIN list)
AsListed(list) == {ij \in Pairs(list) : ij[1] < ij[2]}
Those(list, positions) == Ranked(list, positions, AsListed(list))

(* The list a fight is advised from, and the list the page of a situation  *)
(* teaches.                                                                *)
MovementList(p) ==
  IF p.movement # <<>> THEN p.movement
  ELSE Those(p.single, {i \in DOMAIN p.single : Castable(p.single[i])})
Situation(f) == IF f.moving THEN "movement" ELSE IF f.targets >= 2 THEN "aoe" ELSE "single_target"
Pool(p, situation) ==
  IF situation = "movement" THEN MovementList(p)
  ELSE IF situation = "aoe" THEN p.aoe
  ELSE IF situation = "opener" THEN p.opener
  ELSE IF situation = "defensive" THEN p.defensives
  ELSE p.single

(* The key of the advisor's sort: priority, then the heavier one, then the *)
(* order of the list, since the sort is stable.                            *)
RanksBefore(list, i, j) ==
  \/ list[i].priority < list[j].priority
  \/ list[i].priority = list[j].priority /\ list[i].weight > list[j].weight
  \/ list[i].priority = list[j].priority /\ list[i].weight = list[j].weight /\ i < j

(* What advise() answers: the best ability and up to five alternatives.    *)
Shown == 6
Allowed(list, f) == {i \in DOMAIN list : Eligible(list[i], f)}
ByWeight(list) == {ij \in Pairs(list) : RanksBefore(list, ij[1], ij[2])}
Advice(f) ==
  LET list == Pool(f.profile, Situation(f))
      ranked == Ranked(list, Allowed(list, f), ByWeight(list))
  IN  SubSeq(ranked, 1, IF Len(ranked) < Shown THEN Len(ranked) ELSE Shown)

(* rotation_for(): the list of a situation by priority alone.              *)
ByPriorityAlone(list) ==
  {ij \in Pairs(list) :
     \/ list[ij[1]].priority < list[ij[2]].priority
     \/ list[ij[1]].priority = list[ij[2]].priority /\ ij[1] < ij[2]}
RotationFor(p, situation) ==
  LET list == Pool(p, situation)
  IN  Ranked(list, DOMAIN list, ByPriorityAlone(list))

(* The names of the cooldowns advise() calls ready, and cooldown_plan().   *)
Elements(list) == {list[i] : i \in DOMAIN list}
ReadyCooldowns(f) ==
  {a.name : a \in {b \in Elements(f.profile.cooldowns) :
                     b.cooldown > 0 /\ Ready(b, f) /\ BuffsOk(b, f)}}
(* Mutant: the plan forgets what is on cooldown.                           *)
PlanForgets(f) == {}
PlanOnCooldown(f) ==
  {a.name : a \in {b \in Elements(f.profile.cooldowns) : ~Ready(b, f)}}
PlanReady(f) ==
  {a.name : a \in {b \in Elements(f.profile.cooldowns) : Ready(b, f)}}
BurstReady(f) ==
  {t.name : t \in {b \in Elements(f.profile.triggers) : f.resource >= b.threshold}}
ReadyDefensives(f) ==
  {a.name : a \in {b \in Elements(f.profile.defensives) : Ready(b, f)}}

(* RotationService.advise: the live answer, the cooldown plan, or the page *)
(* of a situation, whose defensives are the profile's.                     *)
Situations == {"opener", "single_target", "aoe", "movement", "defensive"}
Answer(f, kind) ==
  IF kind = "next"
  THEN [press |-> Advice(f), ready |-> ReadyCooldowns(f), defensives |-> ReadyDefensives(f)]
  ELSE IF kind = "cooldowns"
  THEN [press |-> <<>>, ready |-> PlanReady(f), defensives |-> {}]
  ELSE [press |-> RotationFor(f.profile, kind), ready |-> {},
        defensives |-> {a.name : a \in Elements(f.profile.defensives)}]

-----------------------------------------------------------------------------
(***************************************************************************)
(* One request after another of a player: one aspect of the fight changes. *)
(***************************************************************************)
Init ==
  \E s \in Specializations, p \in Profiles :
    p.id = s.id /\ fight \in {f \in Fights(p) : f.cooling = {} /\ f.buffs = {}}

EnemiesChange == \E n \in Targets : fight' = [fight EXCEPT !.targets = n]
Step == fight' = [fight EXCEPT !.moving = ~@]
PoolChanges == \E r \in Pools : fight' = [fight EXCEPT !.resource = r]
CooldownsChange == \E c \in Cooling(fight.profile) : fight' = [fight EXCEPT !.cooling = c]
BuffsChange == \E b \in {{}, Buffs(fight.profile)} : fight' = [fight EXCEPT !.buffs = b]

Next == EnemiesChange \/ Step \/ PoolChanges \/ CooldownsChange \/ BuffsChange
Spec == Init /\ [][Next]_fight

-----------------------------------------------------------------------------
(* In the shipped tables a player who stands still, with nothing on        *)
(* cooldown, is told something to press: against one target even with an   *)
(* empty pool, against more with a full one, whatever the buffs and        *)
(* talents.  The only exception are the tables of the Priests, whose list  *)
(* for more than one target holds nothing that asks for fewer than three.  *)
Priests == {256, 257, 258}
AlwaysSomethingToPress ==
  ~fight.moving /\ fight.cooling = {} =>
    /\ fight.targets = 1 => Advice(fight) # <<>>
    /\ fight.resource >= 100 =>
         (Advice(fight) = <<>> <=> fight.targets = 2 /\ fight.profile.id \in Priests)

(* The answers about cooldowns and defensives agree: what the live answer  *)
(* calls ready is ready in the cooldown plan, nothing it tells the player  *)
(* to press is on cooldown there, although the lists name the same ability *)
(* apart, and its defensives are on every page of the specialization.      *)
PlansAgree ==
  LET now == Answer(fight, "next") IN
  /\ now.ready \subseteq Answer(fight, "cooldowns").ready
  /\ Answer(fight, "cooldowns").ready \cup PlanOnCooldown(fight)
       = {a.name : a \in Elements(fight.profile.cooldowns)}
  /\ \A i \in DOMAIN now.press : now.press[i].name \notin PlanOnCooldown(fight)
  /\ \A kind \in Situations : now.defensives \subseteq Answer(fight, kind).defensives

(* No ability of a table waits for a buff to end.                          *)
NothingIsAvoided == \A p \in Profiles : \A a \in Abilities(p) : a.avoid = {}

(* A change of the fight that only frees the player (more resource, fewer  *)
(* cooldowns running, more buffs) never makes the advice worse: there is   *)
(* still one, of the same priority or a better one, and no cooldown,       *)
(* defensive or burst window is lost.                                      *)
Frees(f, g) ==
  /\ f.targets = g.targets /\ f.moving = g.moving /\ f.talents = g.talents
  /\ f.resource <= g.resource /\ g.cooling \subseteq f.cooling /\ f.buffs \subseteq g.buffs
NoWorse(f, g) ==
  /\ Advice(f) # <<>> => Advice(g) # <<>> /\ Advice(g)[1].priority <= Advice(f)[1].priority
  /\ ReadyCooldowns(f) \subseteq ReadyCooldowns(g)
  /\ ReadyDefensives(f) \subseteq ReadyDefensives(g)
  /\ BurstReady(f) \subseteq BurstReady(g)
MoreNeverHurts == [][Frees(fight, fight') => NoWorse(fight, fight')]_fight

===============================================================================
