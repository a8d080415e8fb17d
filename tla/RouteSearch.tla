----------------------------- MODULE RouteSearch -----------------------------
(***************************************************************************)
(* The router (navigation/router.py): the cheapest way from a zone to      *)
(* another for one character, and alternatives that avoid a step of it.    *)
(* A character is a record of faction, class, level, engineering skill,    *)
(* the zone of the hearthstone and the methods the player excludes.  A     *)
(* step of a route is an edge with the seconds passed when it ends; a      *)
(* search that exhausts its frontier gives NoRoute.                        *)
(***************************************************************************)
EXTENDS TravelNetwork, Integers, Sequences, FiniteSets, SequencesExt, FiniteSetsExt

NoRoute == [found |-> FALSE, steps |-> <<>>, seconds |-> 0]

\* Spells and the hearthstone work anywhere: edges that leave the origin only.
OriginEdges(origin, c) ==
  Each(MageDestinations, LAMBDA d : MageTeleport(origin, d))
  \o (IF c.hearth = NoZone THEN <<>>
      ELSE <<Edge(origin, c.hearth, "hearthstone", HEARTHSTONE_COST)>>)

Network(origin, c) == TRAVEL_EDGES \o OriginEdges(origin, c)

\* Every edge of the travel network has a cost and a method the router ranks.
ASSUME TravelAssumption ==
  /\ TRAVEL_EDGES \in Seq(Range(TRAVEL_EDGES))
  /\ \A e \in Range(TRAVEL_EDGES) : e.cost \in Nat /\ e.method \in DOMAIN Convenience
  /\ MageDestinations \in Seq(Range(MageDestinations))

\* The positions of the edges the character can use.  The origin's own lead
\* elsewhere; that they are offered to a mage, and to one of their faction, is
\* what CanUse asks of a teleport.
Adjacency(network, origin, c) ==
  {k \in DOMAIN network : /\ CanUse(network[k], c)
                          /\ k > Len(TRAVEL_EDGES) => network[k].to # origin}

Key(e) == <<e.from, e.to, e.method>>

\* Mutant: the frontier is a queue, and the route with the fewest steps wins.
OldestFirst(a, b) == a.age <= b.age

\* The order of the heap: cost, then convenience, then age.
Before(a, b) ==
  \/ a.seconds < b.seconds
  \/ a.seconds = b.seconds /\ (a.effort < b.effort \/ (a.effort = b.effort /\ a.age <= b.age))

Least(frontier) == CHOOSE a \in frontier : \A b \in frontier : Before(a, b)

\* A node of the frontier that an edge leads to.
Via(node, e, age) ==
  [zone |-> e.to, seconds |-> node.seconds + e.cost, effort |-> node.effort + Convenience[e.method],
   age |-> age, steps |-> Append(node.steps, [edge |-> e, seconds |-> node.seconds + e.cost])]

\* Whether edge k of those that leave a node reaches its end first: none costs
\* less, and none before it as little.
IsBestOf(k, leaving, network) ==
  \A j \in leaving : network[j].to = network[k].to =>
    network[k].cost < network[j].cost \/ (network[k].cost = network[j].cost /\ k <= j)

\* Expanding a node: of the edges that leave it, those that improve on the best
\* known way to where they lead are pushed.  The node they overtake is dropped
\* here; the code leaves it in the heap, and skips it when it is popped.
Relax(search, node, network, open) ==
  LET leaving == {k \in open : network[k].from = node.zone}
      improving == {k \in leaving :
        /\ \A a \in search.frontier \cup search.expanded :
             a.zone = network[k].to => node.seconds + network[k].cost < a.seconds
        /\ IsBestOf(k, leaving, network)}
      pushed == {Via(node, network[k], search.age + k) : k \in improving}
  IN  [frontier |-> {a \in search.frontier \ {node} : \A b \in pushed : a.zone # b.zone} \cup pushed,
       expanded |-> search.expanded \cup {node},
       age |-> search.age + Len(network), answer |-> search.answer]

Ended(search, node) ==
  [frontier |-> search.frontier, expanded |-> search.expanded, age |-> search.age,
   answer |-> [found |-> TRUE, steps |-> node.steps, seconds |-> node.seconds]]

Start(origin) ==
  [frontier |-> {[zone |-> origin, seconds |-> 0, effort |-> 0, age |-> 0, steps |-> <<>>]},
   expanded |-> {}, age |-> 0, answer |-> NoRoute]

\* A turn of the loop: the least node is the destination, or is expanded.
Turn(search, destination, network, open) ==
  LET node == Least(search.frontier) IN
  IF search.answer.found \/ search.frontier = {} THEN search
  ELSE IF node.zone = destination THEN Ended(search, node)
  ELSE Relax(search, node, network, open)

\* The states the search passes.  No zone is expanded twice.
Turns(origin, destination, network, open) ==
  LET turns[n \in Nat] ==
        IF n = 0 THEN Start(origin) ELSE Turn(turns[n - 1], destination, network, open)
  IN  turns

FindRoute(origin, destination, c, banned) ==
  LET network == Network(origin, c)
      open == {k \in Adjacency(network, origin, c) : Key(network[k]) \notin banned}
  IN  IF origin = destination THEN [found |-> TRUE, steps |-> <<>>, seconds |-> 0]
      ELSE Turns(origin, destination, network, open)
             [Cardinality({network[k].to : k \in open}) + 1].answer

\* Of the steps not banned yet, the costliest, the first among equals.
Costliest(steps, left) ==
  CHOOSE i \in left : \A j \in left :
    steps[j].edge.cost < steps[i].edge.cost \/ (steps[j].edge.cost = steps[i].edge.cost /\ i <= j)

\* A route already found is not repeated.
WithAlternative(routes, limit, other) ==
  IF Len(routes) >= limit \/ ~other.found \/ Contains(routes, other)
    THEN routes ELSE Append(routes, other)

\* The routes found after n steps of the best have been banned, each alone.
RoutesAvoiding(best, origin, destination, c, limit) ==
  LET after[n \in Nat] ==
        IF n = 0 THEN [left |-> DOMAIN best.steps, routes |-> <<best>>]
        ELSE LET before == after[n - 1]
                 i == Costliest(best.steps, before.left)
             IN  [left |-> before.left \ {i},
                  routes |-> WithAlternative(before.routes, limit,
                               FindRoute(origin, destination, c, {Key(best.steps[i].edge)}))]
  IN  after

\* Routes by their seconds, ties in their order.
Fastest(routes, left) ==
  CHOOSE i \in left : \A j \in left :
    routes[i].seconds < routes[j].seconds \/ (routes[i].seconds = routes[j].seconds /\ i <= j)

Ranking(routes) ==
  LET sorted[n \in Nat] ==
        IF n = 0 THEN <<>>
        ELSE LET before == sorted[n - 1] IN Append(before, Fastest(routes, DOMAIN routes \ Range(before)))
  IN  sorted

Sorted(routes) ==
  LET places == Ranking(routes)[Len(routes)] IN [n \in DOMAIN routes |-> routes[places[n]]]

FindRoutes(origin, destination, c, limit) ==
  LET best == FindRoute(origin, destination, c, {})
  IN  IF ~best.found THEN <<>>
      ELSE Sorted(RoutesAvoiding(best, origin, destination, c, limit)[Len(best.steps)].routes)
=============================================================================
