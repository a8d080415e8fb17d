----------------------------- MODULE QuestLibrary -----------------------------
(***************************************************************************)
(* Quests, chains and the seed data (quests/models.py, seed_data.py).  A   *)
(* quest keeps what its status and its place in a plan depend on; titles,  *)
(* coordinates, rewards and durations are left out, and a quest is picked  *)
(* up and handed in in the zone it is listed under.                        *)
(***************************************************************************)
EXTENDS TravelNetwork, Integers, Sequences, Functions

Nowhere == NoZone
NoStep == 99

Priority ==
  [unlock |-> 0, campaign |-> 1, class |-> 2, breadcrumb |-> 3, profession |-> 4, side |-> 5,
   weekly |-> 6, daily |-> 7, world |-> 8]

Quest(id, type, zone, level) ==
  [id |-> id, type |-> type, zone |-> zone, level |-> level, prerequisites |-> {},
   faction |-> Anyone, classes |-> {}, campaign |-> "", step |-> NoStep, leadsTo |-> ""]

After(ids, q) == [q EXCEPT !.prerequisites = ids]
Part(campaign, step, q) == [q EXCEPT !.campaign = campaign, !.step = step]

\* Nobody's race is known to the planner (_progress_for), so that the races of a
\* quest never exclude anyone; the level is StatusFor's.
IsEligible(q, hero) ==
  /\ Anyone = q.faction \/ hero.faction \in {Unknown, q.faction}
  /\ q.classes = {} \/ hero.class \in q.classes \cup {Unknown}

Chain(ids, groups) == [ids |-> ids, anyOf |-> groups]

SatisfiesAnyOf(chain, id, completed) ==
  \E group \in chain.anyOf : id \in group /\ group \cap completed # {}

\* A library as the graph keeps it: ids in their order, a quest for each id.
Library(quests, chains) ==
  LET ids == [i \in DOMAIN quests |-> quests[i].id] IN
  [order |-> ids, chains |-> chains,
   quest |-> [id \in Range(ids) |-> quests[CHOOSE i \in DOMAIN ids : ids[i] = id]]]

ISLE_OF_DORN == 2248
RINGING_DEEPS == 2214
HALLOWFALL == 2215
AZJ_KAHET == 2255
WAKING_SHORES == 2022
ELWYNN == 37
BASTION == 1533

Tww(step, id, zone, level) ==
  LET q == Part("tww_campaign", step, Quest(id, "campaign", zone, level))
  IN  IF step = 1 THEN q ELSE After({id - 1}, q)

IsleOfDornCampaign ==
  <<Tww(1, 78706, ISLE_OF_DORN, 70), Tww(2, 78707, ISLE_OF_DORN, 70),
    Tww(3, 78708, ISLE_OF_DORN, 70), Tww(4, 78709, DORNOGAL, 70),
    Tww(5, 78710, RINGING_DEEPS, 71), Tww(6, 78711, HALLOWFALL, 74),
    Tww(7, 78712, AZJ_KAHET, 77)>>

UnlocksAndSideContent ==
  <<After({78706}, Part("tww_campaign", NoStep, Quest(78800, "unlock", ISLE_OF_DORN, 70))),
    After({78710}, Quest(78801, "unlock", RINGING_DEEPS, 71)),
    Quest(78810, "side", ISLE_OF_DORN, 70), Quest(78811, "side", ISLE_OF_DORN, 70),
    Quest(78812, "side", RINGING_DEEPS, 71)>>

BreadcrumbAndTarget ==
  <<[Quest(78900, "breadcrumb", DORNOGAL, 70) EXCEPT !.leadsTo = "tww_nerubian"],
    Part("tww_nerubian", 1, Quest(78901, "campaign", AZJ_KAHET, 77))>>

FactionExamples ==
  <<[Quest(78950, "side", DORNOGAL, 70) EXCEPT !.faction = "alliance"],
    [Quest(78951, "side", DORNOGAL, 70) EXCEPT !.faction = "horde"]>>

EarlierExpansions ==
  <<Part("df_campaign", 1, Quest(72001, "campaign", WAKING_SHORES, 58)),
    After({72001}, Part("df_campaign", 2, Quest(72002, "campaign", WAKING_SHORES, 58))),
    After({72002}, Part("df_campaign", 3, Quest(72003, "campaign", VALDRAKKEN, 60))),
    Part("sl_campaign", 1, Quest(60001, "campaign", ORIBOS, 50)),
    After({60001}, Part("sl_campaign", 2, Quest(60002, "campaign", BASTION, 50))),
    [Quest(26, "side", ELWYNN, 1) EXCEPT !.faction = "alliance"]>>

SEED_QUESTS ==
  IsleOfDornCampaign \o UnlocksAndSideContent \o BreadcrumbAndTarget \o FactionExamples
  \o EarlierExpansions

SEED_CHAINS ==
  <<Chain(<<78706, 78707, 78708, 78709, 78710, 78711, 78712>>, {}), Chain(<<78901>>, {}),
    Chain(<<72001, 72002, 72003>>, {}), Chain(<<60001, 60002>>, {})>>

SeedGraph == Library(SEED_QUESTS, SEED_CHAINS)
=============================================================================
