------------------------------ MODULE CycleSearch ------------------------------
(***************************************************************************)
(* The search for dependency cycles (_detect_cycles of quests/graph.py),   *)
(* by which a quest graph is validated when it is built: depth first, with *)
(* three colours and an explicit stack on which a quest may lie twice.     *)
(***************************************************************************)
EXTENDS Naturals, Sequences, FiniteSets

CONSTANT Libraries   \* the quest data sets a graph may be built from

\* A library lists its quests by id, each once; the search needs -1 for itself.
ASSUME LibrariesAssumption ==
  \A l \in Libraries :
    /\ IsFiniteSet(DOMAIN l.quest) /\ DOMAIN l.quest \subseteq Nat \ {0}
    /\ l.order \in Seq(DOMAIN l.quest)
    /\ \A id \in DOMAIN l.quest : \E i \in 1 .. Len(l.order) : l.order[i] = id

VARIABLES library,     \* the data set of this graph
          roots,       \* quests the outer loop of the search has still to look at
          stack,       \* [quest, done]: a visit, or the mark that its visit is over
          colour,
          cycles       \* the search has reported a cycle

searchVars == <<library, roots, stack, colour, cycles>>

Ids == DOMAIN library.quest
Q(id) == library.quest[id]
Prerequisites(id) == Q(id).prerequisites
Known(id) == Prerequisites(id) \cap Ids

\* The loop over the quests begins.
StartSearch ==
  /\ roots = library.order
  /\ stack = <<>>
  /\ colour = [id \in Ids |-> "white"]
  /\ cycles = FALSE

SearchInit == library \in Libraries /\ StartSearch

NextRoot ==
  /\ stack = <<>> /\ roots # <<>>
  /\ roots' = Tail(roots)
  /\ stack' = IF colour[Head(roots)] = "white" THEN <<[quest |-> Head(roots), done |-> FALSE]>>
              ELSE <<>>
  /\ UNCHANGED <<library, colour, cycles>>

Top == stack[Len(stack)]
Below == SubSeq(stack, 1, Len(stack) - 1)

VisitIsOver ==
  /\ stack # <<>> /\ Top.done
  /\ colour' = [colour EXCEPT ![Top.quest] = "black"]
  /\ stack' = Below
  /\ UNCHANGED <<library, roots, cycles>>

FindCycle ==
  /\ stack # <<>> /\ ~Top.done /\ colour[Top.quest] = "grey"
  /\ cycles' = TRUE
  /\ stack' = Below
  /\ UNCHANGED <<library, roots, colour>>

Revisit ==
  /\ stack # <<>> /\ ~Top.done /\ colour[Top.quest] = "black"
  /\ stack' = Below
  /\ UNCHANGED <<library, roots, colour, cycles>>

\* The members of a set of ids by rank.
Ascending(S) ==
  [i \in 1 .. Cardinality(S) |-> CHOOSE p \in S : Cardinality({q \in S : q < p}) = i - 1]

\* The prerequisites in ascending order that are not finished.
Unfinished(id) == {p \in Known(id) : colour[p] # "black"}
Visits(S) == [i \in 1 .. Cardinality(S) |-> [quest |-> Ascending(S)[i], done |-> FALSE]]
EndOf(id) == <<[quest |-> id, done |-> TRUE]>>

\* Mutant: the end of the visit lies above the prerequisites.
PushedEndFirst(id) == Visits(Unfinished(id)) \o EndOf(id)

\* What a visit pushes: its end, and above it the unfinished prerequisites.
Pushed(id) == EndOf(id) \o Visits(Unfinished(id))

Visit ==
  /\ stack # <<>> /\ ~Top.done /\ colour[Top.quest] = "white"
  /\ colour' = [colour EXCEPT ![Top.quest] = "grey"]
  /\ stack' = Below \o Pushed(Top.quest)
  /\ UNCHANGED <<library, roots, cycles>>

SearchNext == NextRoot \/ VisitIsOver \/ FindCycle \/ Revisit \/ Visit

SearchSpec == SearchInit /\ [][SearchNext]_searchVars

-----------------------------------------------------------------------------
\* There is a cycle: quests each of which another of them waits for, or itself.
\* Ids being finite, whoever goes from one to the next comes back to it.
IsCyclic ==
  \E S \in SUBSET UNION {Known(id) : id \in Ids} :
    S # {} /\ \A p \in S : \E id \in S : p \in Known(id)

\* The search with its stack, on which a quest may lie twice, reports a cycle
\* exactly when the prerequisites have one: no graph is served whose chain
\* could never be started, and no sound one is refused for a cycle.
CyclesAreFound == (stack = <<>> /\ roots = <<>>) => (cycles <=> IsCyclic)
================================================================================
