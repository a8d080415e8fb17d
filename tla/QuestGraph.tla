------------------------------ MODULE QuestGraph ------------------------------
(***************************************************************************)
(* The quest graph (quests/graph.py).  It is validated when it is built,   *)
(* the search for dependency cycles step by step.  A graph that passes     *)
(* serves a character, who picks up and completes quests and gains levels  *)
(* while the graph answers from that progress: the status of a quest, what *)
(* is missing before it and the order to do it in.                         *)
(***************************************************************************)
EXTENDS CycleSearch, QuestLibrary, Integers, Sequences, FiniteSets, SequencesExt, FiniteSetsExt

CONSTANTS Heroes,      \* characters: faction, class and what the router asks of them
          Levels,      \* the levels a character passes, bounded from below and above
          MaxQuests,   \* bound: quests taken by one character
          NoHero

\* There is a highest level, and it suffices for every quest.
ASSUME LevelsAssumption ==
  Levels \subseteq Nat /\ \E highest \in Levels : \A l \in Levels : l <= highest

ASSUME QuestsAssumption ==
  \A l \in Libraries : \A id \in DOMAIN l.quest :
    LET q == l.quest[id] IN
    /\ q.step \in Nat /\ q.type \in DOMAIN Priority
    /\ q.level \in Nat /\ \E enough \in Levels : q.level <= enough

VARIABLES stage,       \* "validating", "rejected", "serving"
          hero, level, completed, inProgress

graphVars == <<searchVars, stage>>
logVars == <<hero, level, completed, inProgress>>

CampaignQuests(campaign) == {id \in Ids : Q(id).campaign = campaign /\ campaign # ""}

-----------------------------------------------------------------------------
(* Validation.                                                             *)

\* What validate() reports besides cycles.
Problems ==
  \/ \E id \in Ids : Prerequisites(id) # Known(id)
  \/ \E id \in Ids : \E p \in Known(id) :
       Anyone \notin {Q(p).faction, Q(id).faction} /\ Q(p).faction # Q(id).faction
  \/ \E i \in DOMAIN library.chains : ~(Range(library.chains[i].ids) \subseteq Ids)

Init ==
  /\ SearchInit
  /\ stage = "validating"
  /\ hero = NoHero
  /\ level = Min(Levels)
  /\ completed = {}
  /\ inProgress = {}

\* The end of __init__: a graph with a problem is refused.
Built ==
  /\ stage = "validating" /\ stack = <<>> /\ roots = <<>>
  /\ stage' = IF cycles \/ Problems THEN "rejected" ELSE "serving"
  /\ UNCHANGED searchVars

-----------------------------------------------------------------------------
(* Answers about a progress [completed, inProgress, level], the            *)
(* character's own or a hypothetical one.                                  *)

Now == [completed |-> completed, inProgress |-> inProgress, level |-> level]

\* The first chain that lists the quest decides about alternatives.
ExcusedBy(id, missing, done) ==
  LET chains == SelectSeq(library.chains, LAMBDA c : Contains(c.ids, id))
  IN  chains # <<>> /\ \A m \in missing : SatisfiesAnyOf(Head(chains), m, done)

BreadcrumbIsObsolete(id, p) ==
  CampaignQuests(Q(id).leadsTo) \cap (p.completed \cup p.inProgress) # {}

IsLocked(id, p) ==
  LET missing == Prerequisites(id) \ p.completed IN
  \/ missing # {} /\ ~ExcusedBy(id, missing, p.completed)
  \/ p.level < Q(id).level

StatusFor(id, p) ==
  IF id \in p.completed THEN "completed"
  ELSE IF id \in p.inProgress THEN "in_progress"
  ELSE IF ~IsEligible(Q(id), hero) THEN "ineligible"
  ELSE IF IsLocked(id, p) THEN "locked"
  ELSE IF Q(id).type = "breadcrumb" /\ BreadcrumbIsObsolete(id, p) THEN "obsolete"
  ELSE "available"

\* The uncompleted quests that some of these wait for.  A walk ends at completed
\* ones.
Behind(ids, p) == (UNION {Prerequisites(id) : id \in ids}) \cap (Ids \ p.completed)

\* The quests a walk back from the target has seen after n rounds.
Traced(id, p) ==
  LET seen[n \in Nat] ==
        IF n = 0 THEN Behind({id}, p)
        ELSE LET before == seen[n - 1] IN before \cup Behind(before, p)
  IN  seen

\* The immediate ones only; as the answer to what is missing, a mutant.
BlockedBy(id, p) == Known(id) \ p.completed

\* Every uncompleted quest before the target: a round that finds no other is
\* the last.
MissingPrerequisites(id, p) == Traced(id, p)[Cardinality(Ids)]

\* _sort_key as one number: campaign step (last when there is none), then the
\* type's priority, then the id.
SortKey(id) == (Q(id).step * 10 + Priority[Q(id).type]) * 100000 + id

Ready(ids) == {id \in ids : Prerequisites(id) \cap ids = {}}

First(ids) == CHOOSE id \in Ready(ids) : \A other \in Ready(ids) : SortKey(id) <= SortKey(other)

\* Kahn's algorithm: its list of ready quests is sorted again whenever it grows,
\* so its head is always the least of them.  A validated graph leaves no rest.
Ordered(ids) ==
  LET ordered[n \in Nat] ==
        IF n = 0 THEN <<>>
        ELSE LET before == ordered[n - 1] IN Append(before, First(ids \ Range(before)))
  IN  ordered

TopologicalOrder(ids) == Ordered(ids)[Cardinality(ids)]

PathTo(id, p) ==
  IF id \in p.completed THEN <<>>
  ELSE Append(TopologicalOrder(MissingPrerequisites(id, p)), id)

-----------------------------------------------------------------------------
(* The character's progress, which the graph is asked about.               *)

Begin(h) ==
  /\ stage = "serving" /\ hero = NoHero
  /\ hero' = h
  /\ UNCHANGED <<graphVars, level, completed, inProgress>>

PickUp(id) ==
  /\ hero # NoHero
  /\ StatusFor(id, Now) = "available"
  /\ Cardinality(completed \cup inProgress) < MaxQuests
  /\ inProgress' = inProgress \cup {id}
  /\ UNCHANGED <<graphVars, hero, level, completed>>

Complete(id) ==
  /\ id \in inProgress
  /\ inProgress' = inProgress \ {id}
  /\ completed' = completed \cup {id}
  /\ UNCHANGED <<graphVars, hero, level>>

LevelUp ==
  /\ hero # NoHero
  /\ \E higher \in Levels : higher > level
  /\ level' = Min({l \in Levels : l > level})
  /\ UNCHANGED <<graphVars, hero, completed, inProgress>>

Build == (SearchNext /\ UNCHANGED stage) \/ Built
Play == (\E h \in Heroes : Begin(h)) \/ LevelUp \/ \E id \in Ids : PickUp(id) \/ Complete(id)

-----------------------------------------------------------------------------
\* The path to a quest can be played as it is told: when what comes before is
\* done and the level suffices, each of its quests can be picked up or is under
\* way.  Left out are paths through quests the character can never take, since
\* validate() compares only the factions of two restricted quests, and through
\* breadcrumbs, which the path itself may overtake.
PathIsPlayable ==
  hero # NoHero =>
    \A id \in Ids :
      LET path == PathTo(id, Now)
          before(i) == {path[j] : j \in 1..(i - 1)}
      IN  (\A i \in DOMAIN path : IsEligible(Q(path[i]), hero) /\ Q(path[i]).type # "breadcrumb")
          => \A i \in DOMAIN path :
               StatusFor(path[i], [completed |-> completed \cup before(i),
                                   inProgress |-> inProgress \ before(i), level |-> Max(Levels)])
                 \in {"available", "in_progress"}
=============================================================================
