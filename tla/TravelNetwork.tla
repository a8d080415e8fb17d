---------------------------- MODULE TravelNetwork ----------------------------
(***************************************************************************)
(* The travel network (navigation/travel.py) over the registered zones     *)
(* (world/zones.py): directed ways from zone to zone with a cost in        *)
(* seconds and what a character needs to use them.  A zone is its map id;  *)
(* of the registry only the owning faction matters here.  The name of a    *)
(* way is left out: no two ways have its ends and its method.              *)
(***************************************************************************)
EXTENDS Integers, Sequences, SequencesExt

NoZone == 0
Anyone == "any"
Unknown == "unknown"

STORMWIND == 1519
IRONFORGE == 1537
ORGRIMMAR == 1947
THUNDER_BLUFF == 1943
UNDERCITY == 1954
DARNASSUS == 1657
SHATTRATH == 111
DALARAN_NORTHREND == 125
DALARAN_LEGION == 627
VALE == 390
ORIBOS == 1670
VALDRAKKEN == 2112
DORNOGAL == 2339
BORALUS == 1161
DAZARALOR == 1165
EMERALD_DREAM == 2200

PORTAL_COST == 20
MAGE_PORTAL_COST == 15
TELEPORT_COST == 25
HEARTHSTONE_COST == 30
ENGINEERING_COST == 35
FLIGHT_SHORT == 90
FLIGHT_MEDIUM == 180
BOAT_COST == 150
ZEPPELIN_COST == 150
WALK_ADJACENT == 60

AllianceZones == {STORMWIND, IRONFORGE, DARNASSUS, 582, BORALUS}
HordeZones == {ORGRIMMAR, THUNDER_BLUFF, UNDERCITY, 590, DAZARALOR}

Classic == {37, 10, 47, 51, 1417, 15, 22, 23, 56, 14, 17, 71, 70, 64, 69, 78, 1527, 83, 2070}
Outland == {SHATTRATH, 100, 102, 104, 105, 106, 107, 108, 109}
Northrend == {DALARAN_NORTHREND, 114, 115, 116, 117, 118, 119, 120, 121, 123}
Cataclysm == {198, 201, 203, 207, 241, 249}
Pandaria == {VALE, 371, 376, 379, 388, 422, 418, 504, 554}
Draenor == {525, 535, 539, 542, 543, 550, 588, 534}
Legion == {DALARAN_LEGION, 630, 634, 641, 650, 680, 646, 830, 882, 885}
BattleForAzeroth == {895, 896, 942, 862, 863, 864, 1355, 1462}
Shadowlands == {ORIBOS, 1533, 1536, 1565, 1525, 1543, 1961, 1970}
DragonIsles == {VALDRAKKEN, 2022, 2023, 2024, 2025, 2151, 2133, EMERALD_DREAM}
KhazAlgar == {DORNOGAL, 2248, 2214, 2215, 2255, 2346, 2371}

ZONES == AllianceZones \cup HordeZones \cup Classic \cup Outland \cup Northrend \cup Cataclysm
         \cup Pandaria \cup Draenor \cup Legion \cup BattleForAzeroth \cup Shadowlands
         \cup DragonIsles \cup KhazAlgar

OwnerOf(zone) ==
  IF zone \in AllianceZones THEN "alliance" ELSE IF zone \in HordeZones THEN "horde" ELSE Anyone

Convenience ==
  [portal |-> 0, mage_portal |-> 1, dreamwalk |-> 1, class_teleport |-> 2, teleport_item |-> 2,
   engineering_teleport |-> 3, hearthstone |-> 4, tram |-> 5, boat |-> 6, zeppelin |-> 6,
   flight_path |-> 7, fly |-> 8, walk |-> 9]

Edge(a, b, m, c) ==
  [from |-> a, to |-> b, method |-> m, cost |-> c,
   faction |-> Anyone, class |-> Anyone, engineering |-> 0, level |-> 0]

Portal(a, b) == Edge(a, b, "portal", PORTAL_COST)
Walk(a, b) == Edge(a, b, "walk", WALK_ADJACENT)
Flight(a, b, c) == Edge(a, b, "flight_path", c)
ForFaction(f, e) == [e EXCEPT !.faction = f]
BothWays(a, b, e) == <<e, [e EXCEPT !.from = b, !.to = a]>>
Each(seq, Op(_)) == [i \in DOMAIN seq |-> Op(seq[i])]

CapitalLinks ==
  BothWays(STORMWIND, IRONFORGE, ForFaction("alliance", Portal(STORMWIND, IRONFORGE)))
  \o BothWays(ORGRIMMAR, THUNDER_BLUFF,
              ForFaction("horde", Edge(ORGRIMMAR, THUNDER_BLUFF, "zeppelin", ZEPPELIN_COST)))
  \o BothWays(ORGRIMMAR, UNDERCITY,
              ForFaction("horde", Edge(ORGRIMMAR, UNDERCITY, "zeppelin", ZEPPELIN_COST)))
  \o BothWays(STORMWIND, DARNASSUS,
              ForFaction("alliance", Edge(STORMWIND, DARNASSUS, "boat", BOAT_COST)))

Hubs == <<SHATTRATH, DALARAN_NORTHREND, VALE, DALARAN_LEGION, ORIBOS, VALDRAKKEN, DORNOGAL>>

HubPortals ==
  LET Room(capital, faction) ==
        FlattenSeq(Each(Hubs, LAMBDA hub : BothWays(capital, hub, ForFaction(faction, Portal(capital, hub)))))
  IN  Room(STORMWIND, "alliance") \o Room(ORGRIMMAR, "horde")
      \o BothWays(STORMWIND, BORALUS, ForFaction("alliance", Portal(STORMWIND, BORALUS)))
      \o BothWays(ORGRIMMAR, DAZARALOR, ForFaction("horde", Portal(ORGRIMMAR, DAZARALOR)))

ZoneLinks ==
  LET Flights(hub, zones, c) == Each(zones, LAMBDA z : Flight(hub, z, c))
      Portals(hub, zones) == Each(zones, LAMBDA z : Portal(hub, z))
      Returns(hub, zones) == Each(zones, LAMBDA z : Portal(z, hub))
  IN  Flights(SHATTRATH, <<100, 107, 108>>, FLIGHT_SHORT)
      \o Flights(SHATTRATH, <<102>>, FLIGHT_MEDIUM)
      \o Flights(DALARAN_LEGION, <<630, 634, 641, 650>>, FLIGHT_SHORT)
      \o Flights(DALARAN_LEGION, <<680>>, FLIGHT_MEDIUM)
      \o Portals(DALARAN_LEGION, <<646>>)
      \o Portals(ORIBOS, <<1533, 1536, 1565, 1525, 1970>>)
      \o Returns(ORIBOS, <<1533, 1536, 1565, 1525>>)
      \o Flights(VALDRAKKEN, <<2022, 2023, 2024>>, FLIGHT_SHORT)
      \o BothWays(VALDRAKKEN, 2025, Walk(VALDRAKKEN, 2025))
      \o Portals(VALDRAKKEN, <<2133, EMERALD_DREAM>>)
      \o BothWays(DORNOGAL, 2248, Walk(DORNOGAL, 2248))
      \o Portals(DORNOGAL, <<2214, 2215, 2255, 2346, 2371>>)
      \o Returns(DORNOGAL, <<2214, 2215, 2255>>)
      \o <<Walk(BORALUS, 895)>> \o Flights(BORALUS, <<896, 942>>, FLIGHT_SHORT)
      \o <<Walk(DAZARALOR, 862)>> \o Flights(DAZARALOR, <<863, 864>>, FLIGHT_SHORT)
      \o Flights(VALE, <<371, 376, 379>>, FLIGHT_SHORT)
      \o Flights(DALARAN_NORTHREND, <<114>>, FLIGHT_MEDIUM)
      \o Flights(DALARAN_NORTHREND, <<115>>, FLIGHT_SHORT)
      \o Flights(DALARAN_NORTHREND, <<118, 120>>, FLIGHT_MEDIUM)

MageDestinations ==
  <<<<STORMWIND, "alliance">>, <<IRONFORGE, "alliance">>, <<DARNASSUS, "alliance">>,
    <<BORALUS, "alliance">>, <<ORGRIMMAR, "horde">>, <<THUNDER_BLUFF, "horde">>,
    <<UNDERCITY, "horde">>, <<DAZARALOR, "horde">>, <<SHATTRATH, Anyone>>,
    <<DALARAN_NORTHREND, Anyone>>, <<VALE, Anyone>>, <<DALARAN_LEGION, Anyone>>, <<ORIBOS, Anyone>>,
    <<VALDRAKKEN, Anyone>>, <<DORNOGAL, Anyone>>>>

MageTeleport(origin, dest) ==
  [from |-> origin, to |-> dest[1], method |-> "mage_portal", cost |-> MAGE_PORTAL_COST,
   faction |-> dest[2], class |-> "mage", engineering |-> 0, level |-> 10]

MageEdges ==
  LET origins == <<STORMWIND, ORGRIMMAR, SHATTRATH, DALARAN_NORTHREND, VALE, DALARAN_LEGION,
                   ORIBOS, VALDRAKKEN, DORNOGAL, BORALUS, DAZARALOR>>
      From(o) == Each(SelectSeq(MageDestinations, LAMBDA d : d[1] # o),
                      LAMBDA d : MageTeleport(o, d))
  IN  FlattenSeq(Each(origins, From))

Dreamwalks ==
  LET Dreamwalk(o) == [Edge(o, EMERALD_DREAM, "dreamwalk", TELEPORT_COST) EXCEPT
                         !.class = "druid", !.level = 10]
  IN  Each(<<STORMWIND, ORGRIMMAR, VALDRAKKEN, DORNOGAL, ORIBOS, DALARAN_LEGION>>, Dreamwalk)
      \o Each(<<2022, 2023, 2024, 2025, VALDRAKKEN>>, LAMBDA z : Portal(EMERALD_DREAM, z))

Wormholes ==
  LET Wormhole(p) == [Edge(p[1], p[2], "engineering_teleport", ENGINEERING_COST) EXCEPT
                        !.engineering = 1, !.level = 10]
  IN  Each(<<<<DALARAN_NORTHREND, 114>>, <<VALE, 371>>, <<DALARAN_LEGION, 630>>, <<BORALUS, 895>>,
             <<DAZARALOR, 862>>, <<ORIBOS, 1533>>, <<VALDRAKKEN, 2022>>, <<DORNOGAL, 2248>>>>,
           Wormhole)

TRAVEL_EDGES ==
  CapitalLinks \o HubPortals \o ZoneLinks \o MageEdges \o Dreamwalks \o Wormholes

\* What an edge asks must be positively known of the character: an unknown
\* faction or class satisfies no requirement, and an unknown level is 0.
IsAvailableTo(e, c) ==
  /\ e.faction \in {Anyone, c.faction}
  /\ e.class \in {Anyone, c.class}
  /\ e.engineering <= c.engineering
  /\ e.level <= c.level

CanUse(e, c) == e.method \notin c.excluded /\ IsAvailableTo(e, c)

ValidateNetwork ==
  /\ \A i \in DOMAIN TRAVEL_EDGES :
       LET e == TRAVEL_EDGES[i] IN
       /\ {e.from, e.to} \subseteq ZONES
       /\ e.faction = Anyone \/ OwnerOf(e.to) \in {Anyone, e.faction}
       /\ \A j \in DOMAIN TRAVEL_EDGES :
            LET f == TRAVEL_EDGES[j]
            IN  <<e.from, e.to, e.method>> = <<f.from, f.to, f.method>> => i = j

\* The data passes the program's own check of it.
ASSUME NetworkIsSound == ValidateNetwork
=============================================================================
