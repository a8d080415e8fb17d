----------------------------- MODULE QuestPlanner -----------------------------
(***************************************************************************)
(* The quest graph and the router together: the plan for a set of quests   *)
(* (quests/optimizer.py), for a character who plays, and the journeys the  *)
(* character makes on the router's advice (modules/navigation.py).  The    *)
(* order of points within a zone and the durations are left out: they      *)
(* decide nothing about the order of quests and zones.                     *)
(***************************************************************************)
EXTENDS QuestGraph, RouteSearch

CONSTANTS Requests(_),  \* sets of quests, out of those of the library, to plan for
          Starts,       \* where characters begin
          Destinations, \* zones they ask a route to
          Alternatives, \* how many routes they ask for
          Touring       \* bound: the libraries whose characters travel

VARIABLES here,         \* the character's zone
          seconds,      \* what the router answers a plan for this character
          trip          \* the last answer about a journey, with the zone it left

vars == <<graphVars, logVars, here, seconds, trip>>

NoTrip == [from |-> NoZone, to |-> NoZone, routes |-> <<>>]
UNREACHABLE_COST == 600

-----------------------------------------------------------------------------
(* Planning.                                                               *)

QuestZones == {Q(id).zone : id \in Ids} \ {Nowhere}

\* A plan knows the character's faction, class and level only.
Planning(h) == [h EXCEPT !.engineering = 0, !.hearth = NoZone, !.excluded = {}]

\* Plans are asked for quests of the library.
ASSUME RequestsAssumption ==
  \A l \in Libraries : Requests(DOMAIN l.quest) \subseteq SUBSET DOMAIN l.quest

\* The level may stand for every later one: all satisfy all edges.
ASSUME LevelIsNoObstacle == \A e \in Range(TRAVEL_EDGES), l \in Levels : e.level <= l

Seconds(h) ==
  [o \in QuestZones \cup Starts \cup (IF library \in Touring THEN Destinations ELSE {}) |->
     [d \in QuestZones |->
        LET route == FindRoute(o, d, Planning(h), {})
        IN  IF route.found THEN route.seconds ELSE UNREACHABLE_COST]]

\* The reasons to leave a quest out of the plan.
UnmetIn(request, id) == Prerequisites(id) \ (completed \cup request)

Skipped(request) == {id \in request : UnmetIn(request, id) # {} \/ Q(id).zone = Nowhere}

\* The zones of the quests of an order, and where each comes first in it.
ZonesOf(order) == {Q(order[i]).zone : i \in DOMAIN order}
Arrival(order, zone) == Min({i \in DOMAIN order : Q(order[i]).zone = zone})

\* Of some zones the nearest, the first to come among equals.
Nearest(order, zones, at) ==
  CHOOSE z \in zones : \A other \in zones :
    \/ seconds[at][z] < seconds[at][other]
    \/ seconds[at][z] = seconds[at][other] /\ Arrival(order, z) <= Arrival(order, other)

\* Greedy: from zone to zone, always the nearest.  Who does not say where to set
\* out (NoZone) does so in the zone of the first quest.
OrderZones(order, origin) ==
  LET visited[n \in Nat] ==
        IF n = 0 THEN <<>>
        ELSE LET before == visited[n - 1]
                 left == ZonesOf(order) \ Range(before)
                 at == IF before # <<>> THEN Last(before)
                       ELSE IF origin = NoZone THEN Q(order[1]).zone ELSE origin
             IN  IF left = {} THEN before ELSE Append(before, Nearest(order, left, at))
  IN  visited[Cardinality(ZonesOf(order))]

\* Mutant: only the first run of quests in a zone is kept.
FirstRun(order, zone) ==
  {i \in DOMAIN order : \A j \in Arrival(order, zone)..i : Q(order[j]).zone = zone}

\* The places of the quests of a zone: its runs, merged in their order.
Leg(order, zone) == {i \in DOMAIN order : Q(order[i]).zone = zone}

\* The next place to go to in the first leg that is not finished.
NextStop(legs, left) ==
  LET leg == Min({k \in DOMAIN legs : legs[k] \cap left # {}}) IN Min(legs[leg] \cap left)

\* The places of the legs, one leg after the other.
Merged(legs) ==
  LET merged[n \in Nat] ==
        IF n = 0 THEN <<>>
        ELSE LET before == merged[n - 1]
             IN  Append(before, NextStop(legs, (UNION Range(legs)) \ Range(before)))
  IN  merged[Cardinality(UNION Range(legs))]

\* The plan: a leg for each zone.
OptimizeQuestRoute(request, origin) ==
  LET order == TopologicalOrder(request \ Skipped(request))
      zones == OrderZones(order, origin)
      places == Merged([k \in DOMAIN zones |-> Leg(order, zones[k])])
  IN  [n \in DOMAIN places |-> order[places[n]]]

-----------------------------------------------------------------------------
(* Journeys and play.                                                      *)

PlannerInit == Init /\ here = NoZone /\ seconds = <<>> /\ trip = NoTrip

Enter(h, zone) ==
  /\ Begin(h)
  /\ here' = zone
  /\ seconds' = Seconds(h)
  /\ UNCHANGED trip

\* The character asks for a route and, if there is one, takes the first.
\* Bound: who travels does so first, and takes no quests.
Travel ==
  /\ library \in Touring /\ hero # NoHero
  /\ completed \cup inProgress = {} /\ level = Min(Levels)
  /\ \E destination \in Destinations, limit \in Alternatives :
       LET routes == FindRoutes(here, destination, [hero EXCEPT !.level = level], limit) IN
       /\ trip' = [from |-> here, to |-> destination, routes |-> routes]
       /\ here' = IF routes = <<>> THEN here ELSE destination
  /\ UNCHANGED <<graphVars, logVars, seconds>>

\* A quest is picked up where it starts.
Accept(id) ==
  /\ trip = NoTrip
  /\ PickUp(id)
  /\ here' = IF Q(id).zone = Nowhere THEN here ELSE Q(id).zone
  /\ UNCHANGED <<seconds, trip>>

Stay == UNCHANGED <<here, seconds, trip>>

Next ==
  \/ Build /\ UNCHANGED <<logVars, here, seconds, trip>>
  \/ \E h \in Heroes, zone \in Starts : Enter(h, zone)
  \/ Travel
  \/ \E id \in Ids : Accept(id)
  \/ \E id \in Ids : Complete(id) /\ Stay
  \/ trip = NoTrip /\ LevelUp /\ Stay

Spec == PlannerInit /\ [][Next]_vars

-----------------------------------------------------------------------------
\* Every requested quest is planned exactly once or left out, and a planned
\* quest that still needs another comes after it when both lie in one zone.
\* Between zones it may not: legs are ordered by travel alone, and a quest that
\* is left out does not take those behind it along.
PlanIsSound ==
  hero # NoHero =>
    \A request \in Requests(Ids), origin \in {here, NoZone} :
      LET plan == OptimizeQuestRoute(request, origin) IN
      /\ Range(plan) = request \ Skipped(request)
      /\ IsInjective(plan)
      /\ \A i \in DOMAIN plan : \A p \in Prerequisites(plan[i]) \ completed :
           \/ p \in Skipped(request)
           \/ \E j \in DOMAIN plan : plan[j] = p /\ (j < i \/ Q(p).zone # Q(plan[i]).zone)

\* The least weight of a way of at most n edges to each zone there is one to.
WithinEdges(from, network, usable, weight) ==
  LET into == [z \in {network[k].to : k \in usable} |-> {k \in usable : network[k].to = z}]
      within[n \in Nat] ==
        IF n = 0 THEN [z \in {from} |-> 0]
        ELSE LET before == within[n - 1]
                 last(z) == {k \in IF z \in DOMAIN into THEN into[z] ELSE {} :
                               network[k].from \in DOMAIN before}
                 ways(z) == {before[network[k].from] + weight[k] : k \in last(z)}
                 next == [z \in DOMAIN before \cup {z \in DOMAIN into : last(z) # {}} |->
                            Min(ways(z) \cup IF z \in DOMAIN before THEN {before[z]} ELSE {})]
             IN  IF next = before THEN before ELSE next
  IN  within

\* What the last answer was asked of.
Asked == [hero EXCEPT !.level = level]
Ways == Network(trip.from, Asked)
Open == Adjacency(Ways, trip.from, Asked)

\* A way that comes to no zone twice has no more edges.
MaxEdges == Cardinality({Ways[k].to : k \in Open})

\* The way a route goes: edges the character can use, from zone to zone, and
\* the seconds passed after each.
LeadsThere(route) ==
  LET steps == route.steps
      at(n) == IF n = 0 THEN trip.from ELSE steps[n].edge.to
      passed(n) == IF n = 0 THEN 0 ELSE steps[n].seconds
  IN  /\ \A n \in DOMAIN steps :
           /\ \E k \in Open : steps[n].edge = Ways[k]
           /\ steps[n].edge.from = at(n - 1)
           /\ steps[n].seconds = passed(n - 1) + steps[n].edge.cost
      /\ at(Len(steps)) = trip.to
      /\ passed(Len(steps)) = route.seconds

\* No way of up to n edges is faster than the first route, and without a route
\* there is none.
NoneIsFaster(n) ==
  LET within == WithinEdges(trip.from, Ways, Open, [k \in Open |-> Ways[k].cost])[n] IN
  trip.to \in DOMAIN within =>
    trip.routes # <<>> /\ trip.routes[1].seconds <= within[trip.to]

\* Every route of an answer can be gone by the character who asks and leads
\* there, none comes twice, and none is faster than the first, nor is any way of
\* the network: neither the edges that are dropped nor those that are banned for
\* an alternative hide it.
RoutesAreFastest ==
  trip # NoTrip =>
    /\ \A i \in DOMAIN trip.routes :
         LeadsThere(trip.routes[i]) /\ trip.routes[i].seconds >= trip.routes[1].seconds
    /\ IsInjective(trip.routes)
    /\ NoneIsFaster(MaxEdges)
=============================================================================
