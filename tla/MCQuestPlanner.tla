---------------------------- MODULE MCQuestPlanner ----------------------------
(* The seed data, and every graph of three quests under five sets of       *)
(* attributes; a character of each kind the router tells apart.            *)
EXTENDS QuestPlanner

Hero(faction, class) ==
  [faction |-> faction, class |-> class, level |-> 50, engineering |-> 0, hearth |-> NoZone,
   excluded |-> {}]

MCHeroes ==
  {[Hero("alliance", "druid") EXCEPT !.engineering = 1, !.excluded = {"dreamwalk"}],
   [Hero("horde", "mage") EXCEPT !.hearth = DORNOGAL],
   Hero(Unknown, Unknown)}

MCLevels == {50, 70, 77}

Side(id, zone) == Quest(id, "side", zone, 50)

Quests(attributes) ==
  IF attributes = 1 THEN <<Side(1, DORNOGAL), Side(2, DORNOGAL), Side(3, ISLE_OF_DORN)>>
  ELSE IF attributes = 2 THEN
    <<Part("c", 2, Quest(1, "campaign", ISLE_OF_DORN, 50)),
      Part("c", 1, Quest(2, "campaign", DORNOGAL, 50)),
      [Quest(3, "breadcrumb", ISLE_OF_DORN, 50) EXCEPT !.leadsTo = "c"]>>
  ELSE IF attributes = 3 THEN
    <<Side(1, DORNOGAL), Quest(2, "unlock", DORNOGAL, 70), Side(3, Nowhere)>>
  ELSE IF attributes = 4 THEN
    <<[Side(1, ELWYNN) EXCEPT !.faction = "alliance"],
      [Side(2, DORNOGAL) EXCEPT !.classes = {"mage"}],
      [Side(3, ORGRIMMAR) EXCEPT !.faction = "horde"]>>
  ELSE <<Side(1, DORNOGAL), Side(2, DORNOGAL), After({9}, Side(3, DORNOGAL))>>

Chains(attributes) ==
  IF attributes = 3 THEN <<Chain(<<1, 2, 3>>, {{1, 2}})>> ELSE <<>>

Small(attributes, before) ==
  LET quests == Quests(attributes)
  IN  Library([i \in 1..3 |-> After(quests[i].prerequisites \cup before[i], quests[i])],
              Chains(attributes))

MCLibraries ==
  {SeedGraph} \cup
  {Small(attributes, before) :
     attributes \in 1..5, before \in {b \in [1..3 -> SUBSET (1..3)] : \A i \in 1..3 : i \notin b[i]}}

MCRequests(ids) ==
  IF Cardinality(ids) = 3 THEN SUBSET ids
  ELSE {ids, {78706, 78707, 78708, 78709, 78710, 78711, 78712}, {78708, 78709, 78706},
        {78706, 78707, 78800, 78709, 78708, 78801}}

MCStarts == {DORNOGAL}
MCDestinations == {DORNOGAL, STORMWIND, ORGRIMMAR, VALDRAKKEN, WAKING_SHORES, 102, 646}
MCAlternatives == {1, 3}
MCTouring == {SeedGraph}
=============================================================================
