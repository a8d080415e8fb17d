----------------------------- MODULE QuestProofs -----------------------------
(***************************************************************************)
(* The quest graph, the router and the planner are right for every library *)
(* of quests, every character and every request: the search for cycles,    *)
(* the topological order and the paths built on it, the plans, and the     *)
(* routes.  Every recursive definition is met through the function it      *)
(* defines (StepsExist), an induction through the least number that fails  *)
(* (Induction).                                                            *)
(***************************************************************************)
EXTENDS QuestPlanner, WellFoundedInduction, FiniteSetTheorems, SequenceTheorems, TLAPS

-----------------------------------------------------------------------------
(* The search for cycles: its invariant.                                   *)
Entry == [quest : Ids, done : BOOLEAN]
Places == 1 .. Len(stack)

TypeOK ==
  /\ library \in Libraries
  /\ roots \in Seq(Ids)
  /\ stack \in Seq(Entry)
  /\ colour \in [Ids -> {"white", "grey", "black"}]
  /\ cycles \in BOOLEAN

\* A quest nobody has looked at is still going to be.
NoneForgotten ==
  \A id \in Ids : colour[id] = "white" =>
    (\E i \in 1 .. Len(roots) : roots[i] = id) \/ (\E i \in Places : stack[i].quest = id)

\* The visits under way are the marks on the stack, each there once.
MarksAreGrey ==
  /\ \A id \in Ids : colour[id] = "grey" <=> \E i \in Places : stack[i].quest = id /\ stack[i].done
  /\ \A i, j \in Places : stack[i].done /\ stack[j].done /\ stack[i].quest = stack[j].quest => i = j

\* Mark j is the visit that put entry i on the stack: the nearest mark below.
Parent(i, j) ==
  /\ stack[j].done /\ stack[i].quest \in Known(stack[j].quest)
  /\ \A k \in Places : j < k /\ k < i => ~stack[k].done

\* Whatever lies on the stack above the first entry was put there by a visit.
HaveParents == \A i \in Places : i > 1 => \E j \in Places : j < i /\ Parent(i, j)

\* What a visit under way waits for is finished or above it.
VisitsCover ==
  ~cycles => \A k \in Places : stack[k].done =>
    \A p \in Known(stack[k].quest) :
      colour[p] = "black" \/ \E i \in Places : i > k /\ stack[i].quest = p

\* Finished quests wait for finished quests only.
FinishedIsClosed ==
  ~cycles => \A id \in Ids : colour[id] = "black" => \A p \in Known(id) : colour[p] = "black"

\* S is a set of quests that wait for each other.
Knot(S) == S # {} /\ S \subseteq Ids /\ \A p \in S : \E id \in S : p \in Known(id)

\* Of quests that wait for each other one is not finished.
FinishedIsSound == ~cycles => \A S : Knot(S) => \E p \in S : colour[p] # "black"

ReportsAreTrue == cycles => IsCyclic

\* The inductive invariant of the search.
SearchInv ==
  /\ TypeOK /\ NoneForgotten /\ MarksAreGrey /\ HaveParents
  /\ VisitsCover /\ FinishedIsClosed /\ FinishedIsSound /\ ReportsAreTrue

-----------------------------------------------------------------------------
\* The library is finite and lists each of its quests.
LEMMA AboutLibraries ==
  ASSUME library \in Libraries
  PROVE  /\ IsFiniteSet(Ids) /\ Ids \subseteq Nat \ {0}
         /\ library.order \in Seq(Ids)
         /\ \A id \in Ids : \E i \in 1 .. Len(library.order) : library.order[i] = id
BY LibrariesAssumption DEF Ids

\* Every member of a finite set of numbers has its place in the ascending order.
LEMMA AscendingListsAll ==
  ASSUME NEW S, S \subseteq Nat, IsFiniteSet(S)
  PROVE  /\ Cardinality(S) \in Nat
         /\ \A i \in 1 .. Cardinality(S) : Ascending(S)[i] \in S
         /\ \A p \in S : \E i \in 1 .. Cardinality(S) : Ascending(S)[i] = p
<1> DEFINE n == Cardinality(S)
           below(p) == {q \in S : q < p}
           rank == [p \in S |-> Cardinality(below(p))]
<1>1. n \in Nat
  BY FS_CardinalityType
<1>2. \A p \in S : rank[p] \in 0 .. (n - 1)
  <2> TAKE p \in S
  <2>1. below(p) \subseteq S /\ below(p) # S
    OBVIOUS
  <2>2. Cardinality(below(p)) \in Nat /\ Cardinality(below(p)) < n
    BY <2>1, FS_Subset, FS_CardinalityType
  <2> HIDE DEF n, below
  <2> QED
    BY <1>1, <2>2
<1>3. \A p, r \in S : p < r => rank[p] < rank[r]
  <2> TAKE p, r \in S
  <2> HAVE p < r
  <2>1. below(p) \subseteq below(r) /\ below(p) # below(r) /\ IsFiniteSet(below(r))
    <3>1. p \in below(r) /\ p \notin below(p)
      OBVIOUS
    <3>2. \A q \in S : q < p => q < r
      BY SMT
    <3>3. IsFiniteSet(below(r))
      BY FS_Subset
    <3> QED
      BY <3>1, <3>2, <3>3
  <2> QED
    BY <2>1, FS_Subset, FS_CardinalityType
<1>4. rank \in Injection(S, 0 .. (n - 1))
  <2>1. rank \in [S -> 0 .. (n - 1)]
    BY <1>2
  <2>2. \A p, r \in S : rank[p] = rank[r] => p = r
    <3> TAKE p, r \in S
    <3> HAVE rank[p] = rank[r]
    <3>1. rank[p] \in Nat /\ rank[r] \in Nat
      BY <1>1, <1>2
    <3> HIDE DEF rank
    <3> QED
      BY <1>3, <3>1
  <2> HIDE DEF rank, n
  <2> QED
    BY <2>1, <2>2 DEF Injection, IsInjective
<1> HIDE DEF n
<1>5. IsFiniteSet(0 .. (n - 1)) /\ Cardinality(0 .. (n - 1)) = n
  <2>1. 0 \in Int /\ n - 1 \in Int
    BY <1>1
  <2>2. IsFiniteSet(0 .. (n - 1))
        /\ Cardinality(0 .. (n - 1)) = IF 0 > n - 1 THEN 0 ELSE (n - 1) - 0 + 1
    BY <2>1, FS_Interval
  <2> QED
    BY <1>1, <2>2
<1>6. rank \in Surjection(S, 0 .. (n - 1))
  <2>1. Cardinality(S) = Cardinality(0 .. (n - 1))
    BY <1>5 DEF n
  <2> HIDE DEF rank
  <2> QED
    BY <1>4, <1>5, <2>1, FS_Injection
<1>7. \A i \in 1 .. n : \E p \in S : rank[p] = i - 1
  <2> HIDE DEF rank
  <2> TAKE i \in 1 .. n
  <2>1. i - 1 \in 0 .. (n - 1)
    BY <1>1
  <2> QED
    BY <1>6, <2>1 DEF Surjection
<1>8. \A i \in 1 .. n : Ascending(S)[i] \in S /\ rank[Ascending(S)[i]] = i - 1
  <2> TAKE i \in 1 .. n
  <2>1. Ascending(S)[i] = CHOOSE p \in S : Cardinality(below(p)) = i - 1
    BY DEF Ascending, n
  <2>2. \E p \in S : Cardinality(below(p)) = i - 1
    BY <1>7
  <2> HIDE DEF below
  <2>3. Ascending(S)[i] \in S /\ Cardinality(below(Ascending(S)[i])) = i - 1
    BY <2>1, <2>2
  <2> QED
    BY <2>3
<1>9. \A p \in S : \E i \in 1 .. n : Ascending(S)[i] = p
  <2> TAKE p \in S
  <2>1. rank[p] + 1 \in 1 .. n /\ rank[p] \in Nat
    BY <1>1, <1>2
  <2>2. Ascending(S)[rank[p] + 1] \in S /\ rank[Ascending(S)[rank[p] + 1]] = rank[p]
    <3> HIDE DEF rank
    <3>1. (rank[p] + 1) - 1 = rank[p]
      BY <2>1
    <3> QED
      BY <1>8, <2>1, <3>1
  <2>3. Ascending(S)[rank[p] + 1] = p
    <3> HIDE DEF rank
    <3> QED
      BY <1>4, <2>2 DEF Injection, IsInjective
  <2> HIDE DEF rank
  <2> QED
    BY <2>1, <2>3
<1> QED
  BY <1>1, <1>8, <1>9 DEF n

\* A stack of one entry, and the empty one.
LEMMA SmallStacks ==
  ASSUME NEW T, NEW e \in T
  PROVE  /\ <<e>> \in Seq(T) /\ Len(<<e>>) = 1 /\ <<e>>[1] = e
         /\ <<>> \in Seq(T) /\ Len(<<>>) = 0
OBVIOUS

\* A stack without its top.
LEMMA Pop ==
  ASSUME TypeOK, stack # <<>>
  PROVE  /\ Len(stack) \in Nat \ {0} /\ Len(stack) \in Places
         /\ Top \in Entry /\ Top = stack[Len(stack)]
         /\ Below \in Seq(Entry)
         /\ Len(Below) = Len(stack) - 1
         /\ \A i \in 1 .. (Len(stack) - 1) : Below[i] = stack[i]
<1>1. stack \in Seq(Entry)
  BY DEF TypeOK
<1> HIDE DEF Entry
<1>2. Len(stack) \in Nat \ {0} /\ Len(stack) \in Places
  BY <1>1 DEF Places
<1>3. Top = stack[Len(stack)] /\ Top \in Entry
  BY <1>1, <1>2 DEF Top, Places
<1>4. /\ Below \in Seq(Entry) /\ Len(Below) = Len(stack) - 1
      /\ \A i \in 1 .. (Len(stack) - 1) : Below[i] = stack[i]
  <2> DEFINE n == Len(stack) - 1
  <2>1. n \in Nat /\ 1 \in Int /\ \A i \in 1 .. n : stack[i] \in Entry
    BY <1>1, <1>2
  <2>2. Below = SubSeq(stack, 1, n)
    BY DEF Below
  <2> HIDE DEF n
  <2>3. /\ SubSeq(stack, 1, n) \in Seq(Entry)
        /\ Len(SubSeq(stack, 1, n)) = IF 1 <= n THEN n - 1 + 1 ELSE 0
        /\ \A i \in 1 .. n - 1 + 1 : SubSeq(stack, 1, n)[i] = stack[1 + i - 1]
    BY <2>1, SubSeqProperties
  <2>4. Below \in Seq(Entry) /\ Len(Below) = n /\ \A i \in 1 .. n : Below[i] = stack[i]
    BY <2>1, <2>2, <2>3
  <2> QED
    BY <2>4 DEF n
<1> QED
  BY <1>2, <1>3, <1>4

\* What a visit pushes: at the bottom the mark of its end, above it one visit
\* for each prerequisite that is not finished.
LEMMA PushedEntries ==
  ASSUME TypeOK, NEW id \in Ids
  PROVE  /\ Pushed(id) \in Seq(Entry) /\ Len(Pushed(id)) \in Nat \ {0}
         /\ Pushed(id)[1] = [quest |-> id, done |-> TRUE]
         /\ \A i \in 2 .. Len(Pushed(id)) :
              ~Pushed(id)[i].done /\ Pushed(id)[i].quest \in Unfinished(id)
         /\ \A p \in Unfinished(id) :
              \E i \in 2 .. Len(Pushed(id)) : Pushed(id)[i].quest = p
<1> DEFINE S == Unfinished(id)
           n == Cardinality(S)
<1>1. S \subseteq Ids /\ S \subseteq Nat /\ IsFiniteSet(S)
  <2>1. S \subseteq Ids
    BY DEF Unfinished, Known
  <2> QED
    BY <2>1, AboutLibraries, FS_Subset DEF TypeOK
<1> HIDE DEF S
<1>2. /\ n \in Nat
      /\ \A i \in 1 .. n : Ascending(S)[i] \in S
      /\ \A p \in S : \E i \in 1 .. n : Ascending(S)[i] = p
  BY <1>1, AscendingListsAll
<1>3. /\ Visits(S) \in Seq(Entry) /\ Len(Visits(S)) = n
      /\ \A i \in 1 .. n : Visits(S)[i] = [quest |-> Ascending(S)[i], done |-> FALSE]
  <2>1. Visits(S) = [i \in 1 .. n |-> [quest |-> Ascending(S)[i], done |-> FALSE]]
    BY DEF Visits
  <2>2. \A i \in 1 .. n : [quest |-> Ascending(S)[i], done |-> FALSE] \in Entry
    BY <1>1, <1>2 DEF Entry
  <2> HIDE DEF n, Entry
  <2> QED
    BY <1>2, <2>1, <2>2
<1>4. EndOf(id) \in Seq(Entry) /\ Len(EndOf(id)) = 1 /\ EndOf(id)[1] = [quest |-> id, done |-> TRUE]
  BY DEF EndOf, Entry
<1>5. Pushed(id) = EndOf(id) \o Visits(S)
  BY DEF Pushed, S
<1> HIDE DEF n, Entry
<1>6. /\ Pushed(id) \in Seq(Entry) /\ Len(Pushed(id)) = n + 1
      /\ Pushed(id)[1] = [quest |-> id, done |-> TRUE]
      /\ \A i \in 2 .. n + 1 : Pushed(id)[i] = [quest |-> Ascending(S)[i - 1], done |-> FALSE]
  <2> DEFINE e == EndOf(id)
             v == Visits(S)
  <2>1. e \in Seq(Entry) /\ v \in Seq(Entry) /\ Len(e) = 1 /\ Len(v) = n /\ n \in Nat
    BY <1>2, <1>3, <1>4
  <2> HIDE DEF e, v
  <2>2. /\ e \o v \in Seq(Entry) /\ Len(e \o v) = n + 1 /\ (e \o v)[1] = e[1]
        /\ \A i \in 2 .. n + 1 : (e \o v)[i] = v[i - 1] /\ i - 1 \in 1 .. n
    <3>1. /\ e \o v \in Seq(Entry) /\ Len(e \o v) = 1 + n
          /\ \A i \in 1 .. 1 + n : (e \o v)[i] = IF i <= 1 THEN e[i] ELSE v[i - 1]
      <4>1. /\ e \o v \in Seq(Entry) /\ Len(e \o v) = Len(e) + Len(v)
            /\ \A i \in 1 .. Len(e) + Len(v) : (e \o v)[i] = IF i <= Len(e) THEN e[i] ELSE v[i - Len(e)]
        BY <2>1, ConcatProperties
      <4> QED
        BY <2>1, <4>1
    <3> QED
      BY <2>1, <3>1
  <2> QED
    BY <1>3, <1>4, <1>5, <2>2 DEF e, v
<1>7. \A i \in 2 .. n + 1 : ~Pushed(id)[i].done /\ Pushed(id)[i].quest \in S
  <2> TAKE i \in 2 .. n + 1
  <2>1. i - 1 \in 1 .. n
    BY <1>2
  <2>2. Pushed(id)[i] = [quest |-> Ascending(S)[i - 1], done |-> FALSE]
    BY <1>6
  <2> QED
    BY <1>2, <2>1, <2>2
<1>8. \A p \in S : \E i \in 2 .. n + 1 : Pushed(id)[i].quest = p
  <2> TAKE p \in S
  <2>1. PICK i \in 1 .. n : Ascending(S)[i] = p
    BY <1>2
  <2>2. i + 1 \in 2 .. n + 1 /\ (i + 1) - 1 = i
    BY <1>2
  <2>3. Pushed(id)[i + 1] = [quest |-> p, done |-> FALSE]
    BY <1>6, <2>1, <2>2
  <2> QED
    BY <2>2, <2>3
<1> QED
  BY <1>2, <1>6, <1>7, <1>8 DEF S

\* The library stays, and what depends on it alone.
LEMMA SameLibrary ==
  ASSUME library' = library
  PROVE  /\ Ids' = Ids /\ Entry' = Entry
         /\ \A id : Known(id)' = Known(id)
         /\ \A S : Knot(S)' = Knot(S)
         /\ IsCyclic' = IsCyclic
BY DEF Ids, Entry, Known, Prerequisites, Q, Knot, IsCyclic

\* Only quests lie on the stack.
LEMMA EntriesAreQuests ==
  ASSUME TypeOK
  PROVE  \A i \in Places : stack[i].quest \in Ids
<1>1. \A e \in Entry : e.quest \in Ids
  BY DEF Entry
<1>2. stack \in Seq(Entry)
  BY DEF TypeOK
<1> QED
  BY <1>1, <1>2 DEF Places

\* A step that takes the top from the stack.
LEMMA Popped ==
  ASSUME TypeOK, stack # <<>>, stack' = Below, library' = library
  PROVE  /\ Len(stack) \in Nat \ {0} /\ Len(stack) \in Places
         /\ Top = stack[Len(stack)] /\ Top \in Entry
         /\ stack' \in Seq(Entry')
         /\ Places' = 1 .. (Len(stack) - 1) /\ Places' \subseteq Places
         /\ \A i \in Places' : stack'[i] = stack[i] /\ i < Len(stack)
         /\ \A i \in Places : i \in Places' \/ i = Len(stack)
<1> DEFINE n == Len(stack)
<1>1. /\ n \in Nat \ {0} /\ n \in Places /\ Top \in Entry /\ Top = stack[n]
      /\ Below \in Seq(Entry) /\ Len(Below) = n - 1
      /\ \A i \in 1 .. (n - 1) : Below[i] = stack[i]
  BY Pop
<1>2. Places = 1 .. n /\ Places' = 1 .. (n - 1)
  BY <1>1 DEF Places
<1> HIDE DEF n
<1>3. Entry' = Entry
  BY SameLibrary
<1>4. /\ Places' \subseteq Places
      /\ \A i \in Places' : stack'[i] = stack[i] /\ i < n
      /\ \A i \in Places : i \in Places' \/ i = n
  BY <1>1, <1>2
<1> QED
  BY <1>1, <1>2, <1>3, <1>4 DEF n

\* A visit: the entry becomes a mark, with the unfinished prerequisites above.
LEMMA Visited ==
  ASSUME TypeOK, Visit
  PROVE  /\ Len(stack) \in Nat \ {0} /\ Len(stack) \in Places
         /\ Top = stack[Len(stack)] /\ Top \in Entry
         /\ stack' \in Seq(Entry')
         /\ Places \subseteq Places' /\ Places' \subseteq Nat
         /\ \A i \in Places : i < Len(stack) => stack'[i] = stack[i]
         /\ \A i \in Places' : i < Len(stack) => i \in Places
         /\ \A i \in Places : i < Len(stack) \/ i = Len(stack)
         /\ stack'[Len(stack)] = [quest |-> Top.quest, done |-> TRUE]
         /\ \A i \in Places' : i > Len(stack) =>
              ~stack'[i].done /\ stack'[i].quest \in Unfinished(Top.quest)
         /\ \A p \in Unfinished(Top.quest) :
              \E i \in Places' : i > Len(stack) /\ stack'[i].quest = p
<1> DEFINE n == Len(stack)
           x == Top.quest
           push == Pushed(x)
<1>1. /\ n \in Nat \ {0} /\ n \in Places /\ Top \in Entry /\ Top = stack[n]
      /\ Below \in Seq(Entry) /\ Len(Below) = n - 1
      /\ \A i \in 1 .. (n - 1) : Below[i] = stack[i]
  BY Pop DEF Visit
<1>2. x \in Ids
  BY <1>1 DEF Entry
<1>3. stack' = Below \o push /\ library' = library
  BY DEF Visit
<1>4. /\ push \in Seq(Entry) /\ Len(push) \in Nat \ {0}
      /\ push[1] = [quest |-> x, done |-> TRUE]
      /\ \A i \in 2 .. Len(push) : ~push[i].done /\ push[i].quest \in Unfinished(x)
      /\ \A p \in Unfinished(x) : \E i \in 2 .. Len(push) : push[i].quest = p
  BY <1>2, PushedEntries
<1>5. /\ Below \o push \in Seq(Entry) /\ Len(Below \o push) = Len(Below) + Len(push)
      /\ \A i \in 1 .. Len(Below) + Len(push) :
           (Below \o push)[i] = IF i <= Len(Below) THEN Below[i] ELSE push[i - Len(Below)]
  <2> HIDE DEF n, x, push
  <2>1. Below \in Seq(Entry) /\ push \in Seq(Entry)
    BY <1>1, <1>4
  <2> QED
    BY <2>1, ConcatProperties
<1>6. Places = 1 .. n
  BY DEF Places
<1>7. Entry' = Entry
  BY <1>3, SameLibrary
<1>8. stack' \in Seq(Entry') /\ Places' = 1 .. (n - 1) + Len(push)
      /\ \A i \in Places' : stack'[i] = IF i <= n - 1 THEN Below[i] ELSE push[i - (n - 1)]
  BY <1>1, <1>3, <1>5, <1>7 DEF Places
<1> HIDE DEF n, x, push
<1>9. /\ Places \subseteq Places' /\ Places' \subseteq Nat /\ n \in Places'
      /\ \A i \in Places' : i < n => i \in Places
      /\ \A i \in Places : i < n \/ i = n
  BY <1>1, <1>4, <1>6, <1>8
<1>10. \A i \in Places : i < n => stack'[i] = stack[i]
  <2> TAKE i \in Places
  <2> HAVE i < n
  <2>1. i \in 1 .. (n - 1) /\ i <= n - 1
    BY <1>1, <1>6
  <2>2. stack'[i] = Below[i]
    BY <1>8, <1>9, <2>1
  <2> QED
    BY <1>1, <2>1, <2>2
<1>11. stack'[n] = [quest |-> x, done |-> TRUE]
  <2>1. n - (n - 1) = 1 /\ ~(n <= n - 1)
    BY <1>1
  <2> QED
    BY <1>4, <1>8, <1>9, <2>1
<1>12. \A i \in Places' : i > n => ~stack'[i].done /\ stack'[i].quest \in Unfinished(x)
  <2> TAKE i \in Places'
  <2> HAVE i > n
  <2>1. i - (n - 1) \in 2 .. Len(push) /\ ~(i <= n - 1)
    BY <1>1, <1>4, <1>8
  <2>2. stack'[i] = push[i - (n - 1)]
    BY <1>8, <2>1
  <2> QED
    BY <1>4, <2>1, <2>2
<1>13. \A p \in Unfinished(x) : \E i \in Places' : i > n /\ stack'[i].quest = p
  <2> TAKE p \in Unfinished(x)
  <2>1. PICK j \in 2 .. Len(push) : push[j].quest = p
    BY <1>4
  <2>2. j + (n - 1) \in Places' /\ j + (n - 1) > n /\ (j + (n - 1)) - (n - 1) = j
        /\ ~(j + (n - 1) <= n - 1)
    BY <1>1, <1>4, <1>8
  <2>3. stack'[j + (n - 1)] = push[j]
    BY <1>8, <2>2
  <2> QED
    BY <2>1, <2>2, <2>3
<1> QED
  BY <1>1, <1>8, <1>9, <1>10, <1>11, <1>12, <1>13 DEF n, x

-----------------------------------------------------------------------------
\* Every step keeps the types.
LEMMA TypesHold ==
  ASSUME TypeOK, SearchNext
  PROVE  TypeOK'
<1>0. library' = library
  BY DEF SearchNext, NextRoot, VisitIsOver, FindCycle, Revisit, Visit
<1>1. Ids' = Ids /\ Entry' = Entry
  BY <1>0, SameLibrary
<1>2. library' \in Libraries
  BY <1>0 DEF TypeOK
<1>3. ASSUME NextRoot PROVE TypeOK'
  <2>1. Head(roots) \in Ids /\ Tail(roots) \in Seq(Ids)
    BY <1>3, HeadTailProperties DEF NextRoot, TypeOK
  <2>2. [quest |-> Head(roots), done |-> FALSE] \in Entry
    BY <2>1 DEF Entry
  <2>3. stack' \in Seq(Entry)
    BY <1>3, <2>2, SmallStacks DEF NextRoot
  <2> QED
    BY <1>1, <1>2, <1>3, <2>1, <2>3 DEF NextRoot, TypeOK
<1>4. ASSUME VisitIsOver PROVE TypeOK'
  <2>1. stack' \in Seq(Entry') /\ Top \in Entry
    BY <1>0, <1>4, Popped DEF VisitIsOver
  <2>2. Top.quest \in Ids
    BY <2>1 DEF Entry
  <2> QED
    BY <1>1, <1>2, <1>4, <2>1, <2>2 DEF VisitIsOver, TypeOK
<1>5. ASSUME FindCycle PROVE TypeOK'
  <2>1. stack' \in Seq(Entry')
    BY <1>0, <1>5, Popped DEF FindCycle
  <2> QED
    BY <1>1, <1>2, <1>5, <2>1 DEF FindCycle, TypeOK
<1>6. ASSUME Revisit PROVE TypeOK'
  <2>1. stack' \in Seq(Entry')
    BY <1>0, <1>6, Popped DEF Revisit
  <2> QED
    BY <1>1, <1>2, <1>6, <2>1 DEF Revisit, TypeOK
<1>7. ASSUME Visit PROVE TypeOK'
  <2>1. stack' \in Seq(Entry') /\ Top \in Entry
    BY <1>7, Visited
  <2>2. Top.quest \in Ids
    BY <2>1 DEF Entry
  <2> QED
    BY <1>1, <1>2, <1>7, <2>1, <2>2 DEF Visit, TypeOK
<1> QED
  BY <1>3, <1>4, <1>5, <1>6, <1>7 DEF SearchNext

\* The outer loop looks at its next quest.
LEMMA NextRootKeeps ==
  ASSUME SearchInv, NextRoot
  PROVE  SearchInv'
<1> USE DEF SearchInv
<1>0. library' = library /\ colour' = colour /\ cycles' = cycles /\ stack = <<>>
  BY DEF NextRoot
<1>1. TypeOK'
  BY TypesHold DEF SearchNext
<1>2. /\ Ids' = Ids /\ \A id : Known(id)' = Known(id)
      /\ \A S : Knot(S)' = Knot(S)
      /\ IsCyclic' = IsCyclic
  BY <1>0, SameLibrary
<1> DEFINE h == Head(roots)
<1>3. /\ h \in Ids /\ Tail(roots) \in Seq(Ids)
      /\ Len(roots) \in Nat \ {0} /\ Len(Tail(roots)) = Len(roots) - 1
      /\ roots[1] = h
      /\ \A i \in 1 .. (Len(roots) - 1) : Tail(roots)[i] = roots[i + 1]
  BY HeadTailProperties DEF NextRoot, TypeOK
<1>4. Places = {}
  BY <1>0 DEF Places
<1>5. \/ colour[h] # "white" /\ stack' = <<>>
      \/ colour[h] = "white" /\ stack' = <<[quest |-> h, done |-> FALSE]>>
  BY DEF NextRoot
<1>6. \/ colour[h] # "white" /\ Places' = {}
      \/ colour[h] = "white" /\ Places' = {1} /\ stack'[1].quest = h /\ ~stack'[1].done
  <2> DEFINE e == [quest |-> h, done |-> FALSE]
  <2>1. \/ colour[h] # "white" /\ stack' = <<>>
        \/ colour[h] = "white" /\ stack' = <<e>>
    BY <1>5
  <2>2. e.quest = h /\ ~e.done /\ 1 .. 0 = {} /\ 1 .. 1 = {1}
    OBVIOUS
  <2>3. Places' = 1 .. Len(stack')
    BY DEF Places
  <2> HIDE DEF e, h
  <2> QED
    BY <2>1, <2>2, <2>3, SmallStacks
<1> HIDE DEF h
<1>7. NoneForgotten'
  <2> SUFFICES ASSUME NEW id \in Ids, colour[id] = "white"
               PROVE  \/ \E i \in 1 .. Len(roots') : roots'[i] = id
                      \/ \E i \in Places' : stack'[i].quest = id
    BY <1>0, <1>2 DEF NoneForgotten
  <2>1. PICK i \in 1 .. Len(roots) : roots[i] = id
    BY <1>4 DEF NoneForgotten
  <2>2. CASE i = 1
    BY <1>3, <1>6, <2>1, <2>2
  <2>3. CASE i # 1
    <3>1. i - 1 \in 1 .. (Len(roots) - 1) /\ (i - 1) + 1 = i
      BY <1>3, <2>3
    <3>2. Tail(roots)[i - 1] = id
      BY <1>3, <2>1, <3>1
    <3> QED
      BY <1>3, <3>1, <3>2 DEF NextRoot
  <2> QED
    BY <2>2, <2>3
<1>8. MarksAreGrey'
  BY <1>0, <1>2, <1>4, <1>6 DEF MarksAreGrey
<1>9. HaveParents'
  BY <1>6 DEF HaveParents
<1>10. VisitsCover'
  BY <1>6 DEF VisitsCover
<1>11. FinishedIsClosed' /\ FinishedIsSound' /\ ReportsAreTrue'
  BY <1>0, <1>2 DEF FinishedIsClosed, FinishedIsSound, ReportsAreTrue
<1> QED
  BY <1>1, <1>7, <1>8, <1>9, <1>10, <1>11

\* Taking the top from the stack takes no entry's parent.
LEMMA PopKeepsParents ==
  ASSUME TypeOK, HaveParents, stack # <<>>, stack' = Below, library' = library
  PROVE  HaveParents'
<1> DEFINE n == Len(stack)
<1>1. /\ n \in Nat \ {0} /\ Places' \subseteq Places /\ Places = 1 .. n /\ Places' = 1 .. (n - 1)
      /\ \A i \in Places' : stack'[i] = stack[i] /\ i < n
  BY Popped DEF Places
<1> HIDE DEF n
<1>3. \A i, j \in Places' : Parent(i, j) => Parent(i, j)'
  <2> TAKE i, j \in Places'
  <2> HAVE Parent(i, j)
  <2>1. stack'[j].done /\ stack'[i].quest \in Known(stack[j].quest)
    BY <1>1 DEF Parent
  <2>2. \A k \in Places' : j < k /\ k < i => ~stack'[k].done
    BY <1>1 DEF Parent
  <2>3. (stack[i].quest \in Known(stack[j].quest))'
    BY <1>1, <2>1 DEF Known, Prerequisites, Q, Ids
  <2> QED
    BY <2>1, <2>2, <2>3 DEF Parent
<1>4. \A i \in Places' : i > 1 => \E j \in Places' : j < i /\ Parent(i, j)
  <2> TAKE i \in Places'
  <2> HAVE i > 1
  <2>1. PICK j \in Places : j < i /\ Parent(i, j)
    BY <1>1 DEF HaveParents
  <2>2. j \in Places'
    BY <1>1, <2>1
  <2> QED
    BY <2>1, <2>2
<1> QED
  BY <1>3, <1>4 DEF HaveParents

\* A quest that was finished meanwhile is taken from the stack.
LEMMA RevisitKeeps ==
  ASSUME SearchInv, Revisit
  PROVE  SearchInv'
<1> USE DEF SearchInv
<1> DEFINE n == Len(stack)
<1>0. /\ library' = library /\ colour' = colour /\ cycles' = cycles /\ roots' = roots
      /\ stack # <<>> /\ stack' = Below /\ ~Top.done /\ colour[Top.quest] = "black"
  BY DEF Revisit
<1>1. TypeOK'
  BY TypesHold DEF SearchNext
<1>2. /\ Ids' = Ids /\ \A id : Known(id)' = Known(id)
      /\ \A S : Knot(S)' = Knot(S)
      /\ IsCyclic' = IsCyclic
  BY <1>0, SameLibrary
<1>3. /\ n \in Nat \ {0} /\ n \in Places /\ Top = stack[n]
      /\ Places' \subseteq Places /\ Places' = 1 .. (n - 1) /\ Places = 1 .. n
      /\ \A i \in Places' : stack'[i] = stack[i] /\ i < n
      /\ \A i \in Places : i \in Places' \/ i = n
  BY <1>0, Popped DEF Places
<1> HIDE DEF n
<1>4. NoneForgotten'
  BY <1>0, <1>2, <1>3 DEF NoneForgotten
<1>5. MarksAreGrey'
  BY <1>0, <1>2, <1>3 DEF MarksAreGrey
<1>6. HaveParents'
  BY <1>0, PopKeepsParents
<1>7. VisitsCover'
  BY <1>0, <1>2, <1>3 DEF VisitsCover
<1>8. FinishedIsClosed' /\ FinishedIsSound' /\ ReportsAreTrue'
  BY <1>0, <1>2 DEF FinishedIsClosed, FinishedIsSound, ReportsAreTrue
<1> QED
  BY <1>1, <1>4, <1>5, <1>6, <1>7, <1>8

\* A quest met during its own visit: the visits from its mark upwards are a cycle.
LEMMA FindCycleKeeps ==
  ASSUME SearchInv, FindCycle
  PROVE  SearchInv'
<1> USE DEF SearchInv
<1> DEFINE n == Len(stack)
           x == Top.quest
<1>0. /\ library' = library /\ colour' = colour /\ cycles' /\ roots' = roots
      /\ stack # <<>> /\ stack' = Below /\ ~Top.done /\ colour[x] = "grey"
  BY DEF FindCycle
<1>1. TypeOK'
  BY TypesHold DEF SearchNext
<1>2. /\ Ids' = Ids /\ IsCyclic' = IsCyclic
  BY <1>0, SameLibrary
<1>3. /\ n \in Nat \ {0} /\ n \in Places /\ Top = stack[n] /\ Top \in Entry
      /\ Places' \subseteq Places /\ Places' = 1 .. (n - 1) /\ Places = 1 .. n
      /\ \A i \in Places' : stack'[i] = stack[i] /\ i < n
      /\ \A i \in Places : i \in Places' \/ i = n
  BY <1>0, Popped DEF Places
<1>4. x \in Ids /\ x = stack[n].quest /\ ~stack[n].done
  BY <1>0, <1>3 DEF Entry
<1>5. \A i \in Places : stack[i].quest \in Ids
  BY EntriesAreQuests
<1> HIDE DEF n, x
<1>6. NoneForgotten'
  BY <1>0, <1>2, <1>3, <1>4 DEF NoneForgotten
<1>7. MarksAreGrey'
  BY <1>0, <1>2, <1>3, <1>4 DEF MarksAreGrey
<1>8. HaveParents'
  BY <1>0, PopKeepsParents
<1>9. PICK m \in Places : stack[m].quest = x /\ stack[m].done
  BY <1>0, <1>4 DEF MarksAreGrey
<1>10. m < n /\ n > 1
  BY <1>3, <1>4, <1>9
<1> DEFINE marks == {i \in Places : i >= m /\ stack[i].done}
           S == {stack[i].quest : i \in marks}
<1>11. \A i \in Places : i > m => \E j \in marks : stack[i].quest \in Known(stack[j].quest)
  <2> TAKE i \in Places
  <2> HAVE i > m
  <2>1. i > 1
    BY <1>3, <1>9
  <2>2. PICK j \in Places : j < i /\ Parent(i, j)
    BY <2>1 DEF HaveParents
  <2>3. j >= m
    BY <1>3, <1>9, <2>2 DEF Parent
  <2> QED
    BY <2>2, <2>3 DEF Parent
<1>12. \A p \in S : \E id \in S : p \in Known(id)
  <2> TAKE p \in S
  <2>1. PICK i \in marks : p = stack[i].quest
    OBVIOUS
  <2>2. CASE i > m
    BY <1>11, <2>1, <2>2
  <2>3. CASE i = m
    <3>1. p = stack[n].quest
      BY <1>4, <1>9, <2>1, <2>3
    <3>2. n \in Places /\ n > m
      BY <1>3, <1>10
    <3> QED
      BY <1>11, <3>1, <3>2
  <2> QED
    BY <1>3, <2>1, <2>2, <2>3
<1>13. S # {} /\ S \subseteq Ids
  <2>1. m \in marks
    BY <1>3, <1>9
  <2> QED
    BY <1>5, <2>1
<1> HIDE DEF S
<1>14. S \in SUBSET UNION {Known(id) : id \in Ids}
  BY <1>12, <1>13
<1>15. IsCyclic
  BY <1>12, <1>13, <1>14 DEF IsCyclic
<1>16. VisitsCover' /\ FinishedIsClosed' /\ FinishedIsSound' /\ ReportsAreTrue'
  BY <1>0, <1>2, <1>15 DEF VisitsCover, FinishedIsClosed, FinishedIsSound, ReportsAreTrue
<1> QED
  BY <1>1, <1>6, <1>7, <1>8, <1>16

\* A visit ends: all it waited for is finished, so it closes no knot.
LEMMA VisitIsOverKeeps ==
  ASSUME SearchInv, VisitIsOver
  PROVE  SearchInv'
<1> USE DEF SearchInv
<1> DEFINE n == Len(stack)
           x == Top.quest
<1>0. /\ library' = library /\ cycles' = cycles /\ roots' = roots
      /\ colour' = [colour EXCEPT ![x] = "black"]
      /\ stack # <<>> /\ stack' = Below /\ Top.done
  BY DEF VisitIsOver
<1>1. TypeOK'
  BY TypesHold DEF SearchNext
<1>2. /\ Ids' = Ids /\ \A id : Known(id)' = Known(id)
      /\ \A S : Knot(S)' = Knot(S)
      /\ IsCyclic' = IsCyclic
  BY <1>0, SameLibrary
<1>3. /\ n \in Nat \ {0} /\ n \in Places /\ Top = stack[n] /\ Top \in Entry
      /\ Places' \subseteq Places /\ Places' = 1 .. (n - 1) /\ Places = 1 .. n
      /\ \A i \in Places' : stack'[i] = stack[i] /\ i < n
      /\ \A i \in Places : i \in Places' \/ i = n
  BY <1>0, Popped DEF Places
<1>4. x \in Ids /\ x = stack[n].quest /\ stack[n].done
  BY <1>0, <1>3 DEF Entry
<1>5. \A i \in Places : stack[i].quest \in Ids
  BY EntriesAreQuests
<1> HIDE DEF n, x
<1>6. colour'[x] = "black" /\ \A id \in Ids : id # x => colour'[id] = colour[id]
  BY <1>0, <1>4 DEF TypeOK
<1>7. colour[x] = "grey"
  BY <1>3, <1>4 DEF MarksAreGrey
<1>8. NoneForgotten'
  BY <1>0, <1>2, <1>3, <1>4, <1>6 DEF NoneForgotten
<1>9. MarksAreGrey'
  <2>1. \A i \in Places' : stack[i].done => stack[i].quest # x
    BY <1>3, <1>4 DEF MarksAreGrey
  <2>2. ASSUME NEW id \in Ids
        PROVE  colour'[id] = "grey" <=> \E i \in Places' : stack'[i].quest = id /\ stack'[i].done
    <3>1. CASE id = x
      BY <1>3, <1>6, <2>1, <3>1
    <3>2. CASE id # x
      BY <1>3, <1>4, <1>6, <3>2 DEF MarksAreGrey
    <3> QED
      BY <3>1, <3>2
  <2>3. \A i, j \in Places' :
          stack'[i].done /\ stack'[j].done /\ stack'[i].quest = stack'[j].quest => i = j
    BY <1>3 DEF MarksAreGrey
  <2> QED
    BY <1>2, <2>2, <2>3 DEF MarksAreGrey
<1>10. HaveParents'
  BY <1>0, PopKeepsParents
<1>11. VisitsCover'
  <2> SUFFICES ASSUME ~cycles, NEW k \in Places', stack'[k].done, NEW p \in Known(stack[k].quest)
               PROVE  colour'[p] = "black" \/ \E i \in Places' : i > k /\ stack'[i].quest = p
    BY <1>0, <1>2, <1>3 DEF VisitsCover
  <2>1. p \in Ids
    BY DEF Known
  <2>2. colour[p] = "black" \/ \E i \in Places : i > k /\ stack[i].quest = p
    BY <1>3 DEF VisitsCover
  <2> QED
    BY <1>3, <1>4, <1>6, <2>1, <2>2
<1>12. ~cycles => \A p \in Known(x) : colour[p] = "black"
  BY <1>3, <1>4 DEF VisitsCover
<1>13. FinishedIsClosed'
  <2> SUFFICES ASSUME ~cycles, NEW id \in Ids, colour'[id] = "black", NEW p \in Known(id)
               PROVE  colour'[p] = "black"
    BY <1>0, <1>2 DEF FinishedIsClosed
  <2>1. colour[p] = "black" /\ p \in Ids
    BY <1>6, <1>12 DEF FinishedIsClosed, Known
  <2> QED
    BY <1>6, <2>1
<1>14. FinishedIsSound'
  <2> SUFFICES ASSUME ~cycles, NEW S, Knot(S), \A p \in S : colour'[p] = "black"
               PROVE  FALSE
    BY <1>0, <1>2 DEF FinishedIsSound
  <2>1. S \subseteq Ids
    BY DEF Knot
  <2>2. PICK q \in S : colour[q] # "black"
    BY DEF FinishedIsSound
  <2>3. q = x
    BY <1>6, <2>1, <2>2
  <2>4. PICK id \in S : x \in Known(id)
    BY <2>2, <2>3 DEF Knot
  <2>5. CASE id = x
    BY <1>7, <1>12, <2>4, <2>5
  <2>6. CASE id # x
    BY <1>6, <1>7, <2>1, <2>4, <2>6 DEF FinishedIsClosed
  <2> QED
    BY <2>5, <2>6
<1>15. ReportsAreTrue'
  BY <1>0, <1>2 DEF ReportsAreTrue
<1> QED
  BY <1>1, <1>8, <1>9, <1>10, <1>11, <1>13, <1>14, <1>15

\* A visit begins: its mark takes the place of its entry, and what is not
\* finished of its prerequisites lies above.
LEMMA VisitKeeps ==
  ASSUME SearchInv, Visit
  PROVE  SearchInv'
<1> USE DEF SearchInv
<1> DEFINE n == Len(stack)
           x == Top.quest
<1>0. /\ library' = library /\ cycles' = cycles /\ roots' = roots
      /\ colour' = [colour EXCEPT ![x] = "grey"]
      /\ colour[x] = "white"
  BY DEF Visit
<1>1. TypeOK'
  BY TypesHold DEF SearchNext
<1>2. /\ Ids' = Ids /\ \A id : Known(id)' = Known(id)
      /\ \A S : Knot(S)' = Knot(S)
      /\ IsCyclic' = IsCyclic
  BY <1>0, SameLibrary
<1>3. /\ n \in Nat \ {0} /\ n \in Places /\ Top = stack[n] /\ Top \in Entry
      /\ Places \subseteq Places' /\ Places' \subseteq Nat /\ Places = 1 .. n
      /\ \A i \in Places : i < n => stack'[i] = stack[i]
      /\ \A i \in Places' : i < n => i \in Places
      /\ \A i \in Places : i < n \/ i = n
      /\ stack'[n] = [quest |-> x, done |-> TRUE]
      /\ \A i \in Places' : i > n => ~stack'[i].done /\ stack'[i].quest \in Unfinished(x)
      /\ \A p \in Unfinished(x) : \E i \in Places' : i > n /\ stack'[i].quest = p
  BY Visited DEF Places
<1>4. x \in Ids /\ x = stack[n].quest /\ stack'[n].quest = x /\ stack'[n].done
  BY <1>3 DEF Entry
<1>5. \A i \in Places : stack[i].quest \in Ids
  BY EntriesAreQuests
<1> HIDE DEF n, x
<1>6. colour'[x] = "grey" /\ \A id \in Ids : id # x => colour'[id] = colour[id]
  BY <1>0, <1>4 DEF TypeOK
<1>7. \A i \in Places : stack[i].done => stack[i].quest # x
  BY <1>0, <1>4 DEF MarksAreGrey
<1>8. \A i \in Places' : i < n \/ i = n \/ i > n
  BY <1>3
<1>9. NoneForgotten'
  BY <1>0, <1>2, <1>3, <1>4, <1>6 DEF NoneForgotten
<1>10. MarksAreGrey'
  <2>1. \A i \in Places' : stack'[i].done => \/ i = n
                                             \/ i < n /\ i \in Places /\ stack'[i] = stack[i]
    BY <1>3, <1>8
  <2>2. ASSUME NEW id \in Ids
        PROVE  colour'[id] = "grey" <=> \E i \in Places' : stack'[i].quest = id /\ stack'[i].done
    <3>1. CASE id = x
      BY <1>3, <1>4, <1>6, <3>1
    <3>2. CASE id # x
      <4>1. colour'[id] = colour[id]
        BY <1>6, <3>2
      <4>2. ASSUME NEW i \in Places, stack[i].quest = id, stack[i].done
            PROVE  i \in Places' /\ stack'[i].quest = id /\ stack'[i].done
        BY <1>3, <1>4, <3>2, <4>2
      <4>3. ASSUME NEW i \in Places', stack'[i].quest = id, stack'[i].done
            PROVE  i \in Places /\ stack[i].quest = id /\ stack[i].done
        BY <1>4, <2>1, <3>2, <4>3
      <4> QED
        BY <4>1, <4>2, <4>3 DEF MarksAreGrey
    <3> QED
      BY <3>1, <3>2
  <2>3. \A i, j \in Places' :
          stack'[i].done /\ stack'[j].done /\ stack'[i].quest = stack'[j].quest => i = j
    BY <1>4, <1>7, <2>1 DEF MarksAreGrey
  <2> QED
    BY <1>2, <2>2, <2>3 DEF MarksAreGrey
<1>11. HaveParents'
  <2> SUFFICES ASSUME NEW i \in Places', i > 1
               PROVE  \E j \in Places' : j < i /\ Parent(i, j)'
    BY DEF HaveParents
  <2>1. CASE i > n
    <3>0. PICK m : m = n
      OBVIOUS
    <3>1. (stack[i].quest \in Known(stack[m].quest))'
      <4>1. stack'[i].quest \in Known(x) /\ stack'[m].quest = x
        BY <1>3, <1>4, <2>1, <3>0 DEF Unfinished
      <4> QED
        BY <1>0, <4>1 DEF Known, Prerequisites, Q, Ids
    <3>2. stack'[m].done /\ \A k \in Places' : m < k /\ k < i => ~stack'[k].done
      BY <1>3, <1>4, <3>0
    <3>3. Parent(i, m)'
      BY <3>1, <3>2 DEF Parent
    <3> QED
      BY <1>3, <2>1, <3>0, <3>3
  <2>2. CASE ~(i > n)
    <3>1. i \in Places /\ stack'[i].quest = stack[i].quest
      BY <1>3, <1>4, <1>8, <2>2
    <3>2. PICK j \in Places : j < i /\ Parent(i, j)
      BY <3>1 DEF HaveParents
    <3>3. j < n /\ j \in Places' /\ stack'[j] = stack[j]
      BY <1>3, <3>1, <3>2, <2>2
    <3>4. (stack[i].quest \in Known(stack[j].quest))'
      BY <1>0, <3>1, <3>2, <3>3 DEF Parent, Known, Prerequisites, Q, Ids
    <3>5. \A k \in Places' : j < k /\ k < i => ~stack'[k].done
      <4> TAKE k \in Places'
      <4> HAVE j < k /\ k < i
      <4>1. k < n /\ k \in Places
        BY <1>3, <1>8, <2>2, <3>1
      <4> QED
        BY <1>3, <3>2, <4>1 DEF Parent
    <3>6. Parent(i, j)'
      BY <3>2, <3>3, <3>4, <3>5 DEF Parent
    <3> QED
      BY <3>2, <3>3, <3>6
  <2> QED
    BY <2>1, <2>2
<1>12. VisitsCover'
  <2> SUFFICES ASSUME ~cycles, NEW k \in Places', stack'[k].done,
                      NEW p \in Known(stack'[k].quest)
               PROVE  colour'[p] = "black" \/ \E i \in Places' : i > k /\ stack'[i].quest = p
    BY <1>0 DEF VisitsCover, Known, Prerequisites, Q, Ids
  <2>1. p \in Ids
    BY DEF Known
  <2>2. CASE k < n
    <3>1. k \in Places /\ stack'[k] = stack[k]
      BY <1>3, <2>2
    <3>2. colour[p] = "black" \/ \E i \in Places : i > k /\ stack[i].quest = p
      BY <3>1 DEF VisitsCover
    <3>3. CASE colour[p] = "black"
      BY <1>0, <1>6, <2>1, <3>3
    <3>4. CASE \E i \in Places : i > k /\ stack[i].quest = p
      BY <1>3, <1>4, <3>4
    <3> QED
      BY <3>2, <3>3, <3>4
  <2>3. CASE k = n
    <3>1. p \in Known(x)
      BY <1>4, <2>3
    <3>2. CASE colour[p] = "black"
      BY <1>0, <1>6, <2>1, <3>2
    <3>3. CASE colour[p] # "black"
      BY <1>3, <2>3, <3>1, <3>3 DEF Unfinished
    <3> QED
      BY <3>2, <3>3
  <2>4. ~(k > n)
    BY <1>3
  <2> QED
    BY <1>8, <2>2, <2>3, <2>4
<1>13. \A id \in Ids : colour'[id] = "black" <=> colour[id] = "black"
  BY <1>0, <1>6
<1>14. FinishedIsClosed'
  BY <1>0, <1>2, <1>13 DEF FinishedIsClosed, Known
<1>15. FinishedIsSound'
  BY <1>0, <1>2, <1>13 DEF FinishedIsSound, Knot
<1>16. ReportsAreTrue'
  BY <1>0, <1>2 DEF ReportsAreTrue
<1> QED
  BY <1>1, <1>9, <1>10, <1>11, <1>12, <1>14, <1>15, <1>16

-----------------------------------------------------------------------------
\* The invariant of the search holds when it begins.
LEMMA InvInit ==
  ASSUME SearchInit
  PROVE  SearchInv
<1>1. /\ library \in Libraries /\ roots = library.order /\ stack = <<>>
      /\ colour = [id \in Ids |-> "white"] /\ cycles = FALSE
  BY DEF SearchInit, StartSearch
<1>2. Places = {}
  BY <1>1 DEF Places
<1>3. /\ roots \in Seq(Ids)
      /\ \A id \in Ids : \E i \in 1 .. Len(roots) : roots[i] = id
  BY <1>1, AboutLibraries
<1>4. TypeOK
  <2>1. <<>> \in Seq(Entry)
    OBVIOUS
  <2>2. colour \in [Ids -> {"white", "grey", "black"}]
    BY <1>1
  <2> QED
    BY <1>1, <1>3, <2>1, <2>2 DEF TypeOK
<1>5. NoneForgotten /\ MarksAreGrey /\ HaveParents /\ VisitsCover
  BY <1>1, <1>2, <1>3 DEF NoneForgotten, MarksAreGrey, HaveParents, VisitsCover
<1>6. FinishedIsClosed /\ ReportsAreTrue
  BY <1>1 DEF FinishedIsClosed, ReportsAreTrue
<1>7. FinishedIsSound
  BY <1>1 DEF FinishedIsSound, Knot
<1> QED
  BY <1>4, <1>5, <1>6, <1>7 DEF SearchInv

\* Every step of the search keeps its invariant.
LEMMA InvStep ==
  ASSUME SearchInv, [SearchNext]_searchVars
  PROVE  SearchInv'
<1>1. ASSUME UNCHANGED searchVars PROVE SearchInv'
  <2>1. /\ library' = library /\ roots' = roots /\ stack' = stack /\ colour' = colour
        /\ cycles' = cycles
    BY <1>1 DEF searchVars
  <2>2. /\ Ids' = Ids /\ Entry' = Entry /\ Places' = Places /\ IsCyclic' = IsCyclic
        /\ \A S : Knot(S)' = Knot(S)
    BY <2>1, SameLibrary DEF Places
  <2>3. TypeOK' /\ NoneForgotten' /\ MarksAreGrey'
    BY <2>1, <2>2 DEF SearchInv, TypeOK, NoneForgotten, MarksAreGrey
  <2>4. HaveParents'
    BY <2>1, <2>2 DEF SearchInv, HaveParents, Parent, Known, Prerequisites, Q, Ids
  <2>5. VisitsCover' /\ FinishedIsClosed'
    BY <2>1, <2>2 DEF SearchInv, VisitsCover, FinishedIsClosed, Known, Prerequisites, Q, Ids
  <2>6. FinishedIsSound' /\ ReportsAreTrue'
    BY <2>1, <2>2 DEF SearchInv, FinishedIsSound, ReportsAreTrue
  <2> QED
    BY <2>3, <2>4, <2>5, <2>6 DEF SearchInv
<1> QED
  BY <1>1, NextRootKeeps, VisitIsOverKeeps, FindCycleKeeps, RevisitKeeps, VisitKeeps DEF SearchNext

\* The invariant tells the verdict: when nothing is left to look at, every
\* quest is finished.
LEMMA VerdictIsRight ==
  ASSUME SearchInv
  PROVE  CyclesAreFound
<1> SUFFICES ASSUME stack = <<>>, roots = <<>>
             PROVE  cycles <=> IsCyclic
  BY DEF CyclesAreFound
<1> USE DEF SearchInv
<1>1. Places = {} /\ 1 .. Len(roots) = {}
  BY DEF Places
<1>2. \A id \in Ids : colour[id] = "black"
  BY <1>1 DEF TypeOK, NoneForgotten, MarksAreGrey
<1>3. ASSUME IsCyclic PROVE cycles
  <2>1. PICK S \in SUBSET UNION {Known(id) : id \in Ids} :
          S # {} /\ \A p \in S : \E id \in S : p \in Known(id)
    BY <1>3 DEF IsCyclic
  <2>2. S \subseteq Ids
    BY DEF Known
  <2>3. Knot(S)
    BY <2>1, <2>2 DEF Knot
  <2> QED
    BY <1>2, <2>2, <2>3 DEF FinishedIsSound
<1> QED
  BY <1>3 DEF ReportsAreTrue

\* The state of the search (_detect_cycles of quests/graph.py) has its types.
THEOREM TypeCorrect == SearchSpec => []TypeOK
<1>1. SearchInv => TypeOK
  BY DEF SearchInv
<1> QED
  BY InvInit, InvStep, <1>1, PTL DEF SearchSpec

\* For every library, the depth-first search with its explicit stack, on which
\* a quest may lie twice, reports a cycle exactly when the prerequisites have
\* one.
THEOREM VerdictsAreRight == SearchSpec => []CyclesAreFound
  BY InvInit, InvStep, VerdictIsRight, PTL DEF SearchSpec

-----------------------------------------------------------------------------
(* Numbers, and the existence of what recursive definitions define.        *)
\* A nonempty set of numbers has a least member.
LEMMA LeastNat ==
  ASSUME NEW T, T \subseteq Nat, T # {}
  PROVE  \E n \in T : \A m \in T : n <= m
<1> DEFINE R == OpToRel(<, Nat)
<1>1. IsWellFoundedOn(R, Nat)
  BY NatLessThanWellFounded
<1>2. \A x, y \in Nat : y < x => <<y, x>> \in R
  BY Zenon DEF OpToRel
<1> HIDE DEF R
<1>3. PICK n \in T : \A y \in T : ~(<<y, n>> \in R)
  BY <1>1, WFMin
<1>4. \A m \in T : ~(m < n)
  BY <1>2, <1>3
<1> QED
  BY <1>4

\* What holds of 0 and goes over to the next number holds of all.
LEMMA Induction ==
  ASSUME NEW S, 0 \in S, \A n \in Nat : n \in S => n + 1 \in S
  PROVE  \A n \in Nat : n \in S
<1> DEFINE T == {n \in Nat : n \notin S}
<1> SUFFICES ASSUME T # {} PROVE FALSE
  OBVIOUS
<1>1. PICK n \in T : \A m \in T : n <= m
  BY LeastNat
<1>2. n # 0 /\ n \in Nat
  OBVIOUS
<1>3. n - 1 \in Nat /\ n - 1 \notin T /\ (n - 1) + 1 = n
  BY <1>1, <1>2
<1>4. n \in S
  BY <1>3
<1> QED
  BY <1>4

\* A recursive definition has a solution: whoever knows a first value and how
\* each gives the next one has them all.
Solves(f, V, v, step) ==
  f \in [Nat -> V] /\ f[0] = v /\ \A n \in Nat : f[n + 1] = step[f[n]]

\* There is such a function for every first value and every step.
LEMMA StepsExist ==
  ASSUME NEW V, NEW v \in V, NEW step \in [V -> V]
  PROVE  \E f : Solves(f, V, v, step)
<1> DEFINE Good(n, g) == /\ g \in [0..n -> V] /\ g[0] = v
                         /\ \A i \in 1..n : g[i] = step[g[i - 1]]
           S == {n \in Nat : \E g : Good(n, g)}
<1>1. 0 \in S
  <2>1. Good(0, [i \in 0..0 |-> v])
    OBVIOUS
  <2> QED
    BY <2>1
<1>2. \A n \in Nat : n \in S => n + 1 \in S
  <2> TAKE n \in Nat
  <2> HAVE n \in S
  <2>1. PICK g : Good(n, g)
    OBVIOUS
  <2> DEFINE h == [i \in 0..(n + 1) |-> IF i = n + 1 THEN step[g[n]] ELSE g[i]]
  <2>2. h \in [0..(n + 1) -> V] /\ h[0] = v
    BY <2>1
  <2>3. \A i \in 1..(n + 1) : h[i] = step[h[i - 1]]
    BY <2>1
  <2>4. Good(n + 1, h)
    BY <2>2, <2>3
  <2> HIDE DEF Good, h
  <2> QED
    BY <2>4
<1>3. \A n \in Nat : \E g : Good(n, g)
  <2> HIDE DEF Good
  <2>1. \A n \in Nat : n \in S
    BY <1>1, <1>2, Induction
  <2> QED
    BY <2>1
<1>4. \A n \in Nat : \A g, h : Good(n, g) /\ Good(n + 1, h) => \A i \in 0..n : g[i] = h[i]
  <2> TAKE n \in Nat
  <2> TAKE g, h
  <2> HAVE Good(n, g) /\ Good(n + 1, h)
  <2> DEFINE T == {i \in Nat : i <= n => g[i] = h[i]}
  <2>1. 0 \in T
    OBVIOUS
  <2>2. \A i \in Nat : i \in T => i + 1 \in T
    OBVIOUS
  <2>3. \A i \in Nat : i \in T
    <3> HIDE DEF T
    <3> QED
      BY <2>1, <2>2, Induction
  <2> QED
    BY <2>3
<1> DEFINE G == [n \in Nat |-> CHOOSE g : Good(n, g)]
           f == [n \in Nat |-> G[n][n]]
<1>5. \A n \in Nat : Good(n, G[n])
  BY <1>3
<1> HIDE DEF G
<1>6. f \in [Nat -> V]
  BY <1>5
<1>7. f[0] = v
  BY <1>5
<1>8. ASSUME NEW n \in Nat PROVE f[n + 1] = step[f[n]]
  <2>1. Good(n, G[n]) /\ Good(n + 1, G[n + 1])
    BY <1>5
  <2>2. G[n][n] = G[n + 1][n]
    <3> HIDE DEF Good
    <3> QED
      BY <1>4, <2>1
  <2>3. G[n + 1][n + 1] = step[G[n + 1][n]]
    <3>1. n + 1 \in 1..(n + 1) /\ (n + 1) - 1 = n
      OBVIOUS
    <3> QED
      BY <2>1, <3>1
  <2> QED
    BY <2>2, <2>3
<1> QED
  BY <1>6, <1>7, <1>8 DEF Solves

\* f passes the sequences that grow by next, a member of S that is not there.
Grows(f, next, S) ==
  /\ f[0] = <<>>
  /\ \A n \in Nat : f[n] \in Seq(S) /\ Range(f[n]) # S =>
       f[n + 1] = Append(f[n], next[n]) /\ next[n] \in S \ Range(f[n])

\* After n rounds there are n members, each once.
Listed(f, next, S, n) ==
  /\ f[n] \in Seq(S) /\ Len(f[n]) = n
  /\ \A j \in 1..n : f[n][j] = next[j - 1] /\ next[j - 1] \in S
  /\ \A i, j \in 1..n : next[i - 1] = next[j - 1] => i = j

\* The sequence of all members, and how the sequences before it relate to it.
Lists(f, next, S) ==
  LET N == Cardinality(S)
      L == f[N]
  IN  /\ N \in Nat /\ L \in Seq(S) /\ Len(L) = N /\ DOMAIN L = 1..N
      /\ IsInjective(L) /\ Range(L) = S
      /\ \A i \in 1..N :
           /\ L[i] = next[i - 1] /\ L[i] \in S
           /\ f[i - 1] \in Seq(S) /\ Len(f[i - 1]) = i - 1
           /\ Range(f[i - 1]) = {L[j] : j \in 1..(i - 1)}
           /\ \A j \in 1..(i - 1) : f[i - 1][j] = L[j]

\* A sequence that grows by a new member of a finite set, as long as there is
\* one, lists the set: each member once.
LEMMA Listing ==
  ASSUME NEW S, IsFiniteSet(S), NEW f, NEW next, Grows(f, next, S)
  PROVE  Lists(f, next, S)
<1> DEFINE N == Cardinality(S)
           T == {n \in Nat : n <= N => Listed(f, next, S, n)}
<1>1. N \in Nat
  BY FS_CardinalityType
<1> HIDE DEF N
<1>2. 0 \in T
  <2>1. f[0] \in Seq(S) /\ Len(f[0]) = 0 /\ 1..0 = {}
    BY DEF Grows
  <2>2. Listed(f, next, S, 0)
    BY <2>1 DEF Listed
  <2> QED
    BY <2>2
<1>3. \A n \in Nat : n \in T => n + 1 \in T
  <2> TAKE n \in Nat
  <2> HAVE n \in T
  <2> SUFFICES ASSUME n + 1 <= N PROVE Listed(f, next, S, n + 1)
    BY DEF T
  <2>1. Listed(f, next, S, n)
    BY <1>1
  <2>2. Range(f[n]) # S
    <3> SUFFICES ASSUME Range(f[n]) = S PROVE FALSE
      OBVIOUS
    <3>1. DOMAIN f[n] = 1..n /\ f[n] \in [1..n -> S]
      BY <2>1 DEF Listed
    <3>2. f[n] \in Surjection(1..n, S)
      BY <3>1 DEF Surjection, Range
    <3>3. IsFiniteSet(1..n) /\ Cardinality(1..n) = n
      <4>1. 1 \in Int /\ n \in Int /\ (n = 0 \/ n >= 1)
        OBVIOUS
      <4>2. IsFiniteSet(1..n) /\ Cardinality(1..n) = IF 1 > n THEN 0 ELSE n - 1 + 1
        BY <4>1, FS_Interval
      <4> QED
        BY <4>1, <4>2
    <3>4. N <= n
      BY <3>2, <3>3, FS_Surjection DEF N
    <3> QED
      BY <1>1, <3>4
  <2>3. next[n] \in S \ Range(f[n])
    BY <2>1, <2>2 DEF Listed, Grows
  <2>4. f[n + 1] = Append(f[n], next[n])
    BY <2>1, <2>2 DEF Listed, Grows
  <2>5. /\ f[n + 1] \in Seq(S) /\ Len(f[n + 1]) = n + 1
        /\ \A j \in 1..n : f[n + 1][j] = f[n][j]
        /\ f[n + 1][n + 1] = next[n]
    BY <2>1, <2>3, <2>4 DEF Listed
  <2>6. \A j \in 1..(n + 1) : f[n + 1][j] = next[j - 1] /\ next[j - 1] \in S
    <3> TAKE j \in 1..(n + 1)
    <3>1. CASE j = n + 1
      BY <2>3, <2>5, <3>1
    <3>2. CASE j # n + 1
      <4>1. j \in 1..n
        BY <3>2
      <4> QED
        BY <2>1, <2>5, <4>1 DEF Listed
    <3> QED
      BY <3>1, <3>2
  <2>7. \A j \in 1..n : next[j - 1] # next[n]
    <3>1. DOMAIN f[n] = 1..n /\ \A j \in 1..n : f[n][j] = next[j - 1]
      BY <2>1 DEF Listed
    <3>2. \A j \in 1..n : next[j - 1] \in Range(f[n])
      BY <3>1 DEF Range
    <3> QED
      BY <2>3, <3>2
  <2>8. \A i, j \in 1..(n + 1) : next[i - 1] = next[j - 1] => i = j
    <3> TAKE i, j \in 1..(n + 1)
    <3> HAVE next[i - 1] = next[j - 1]
    <3>1. CASE i = n + 1 /\ j # n + 1
      <4>1. j \in 1..n /\ i - 1 = n
        BY <3>1
      <4> QED
        BY <2>7, <4>1
    <3>2. CASE j = n + 1 /\ i # n + 1
      <4>1. i \in 1..n /\ j - 1 = n
        BY <3>2
      <4> QED
        BY <2>7, <4>1
    <3>3. CASE i # n + 1 /\ j # n + 1
      <4>1. i \in 1..n /\ j \in 1..n
        BY <3>3, SMT
      <4> QED
        BY <2>1, <4>1 DEF Listed
    <3> QED
      BY <3>1, <3>2, <3>3
  <2> QED
    BY <2>5, <2>6, <2>8 DEF Listed
<1>4. \A n \in 0..N : Listed(f, next, S, n)
  <2>1. \A n \in Nat : n \in T
    <3> HIDE DEF T
    <3> QED
      BY <1>2, <1>3, Induction
  <2> QED
    BY <1>1, <2>1
<1> DEFINE L == f[N]
<1>5. /\ L \in Seq(S) /\ Len(L) = N /\ DOMAIN L = 1..N
      /\ \A i \in 1..N : L[i] = next[i - 1] /\ L[i] \in S
      /\ \A i, j \in 1..N : L[i] = L[j] => i = j
  <2>1. Listed(f, next, S, N)
    BY <1>1, <1>4
  <2>2. /\ L \in Seq(S) /\ Len(L) = N
        /\ \A i \in 1..N : L[i] = next[i - 1] /\ next[i - 1] \in S
        /\ \A i, j \in 1..N : next[i - 1] = next[j - 1] => i = j
    BY <2>1 DEF Listed
  <2> HIDE DEF L
  <2>3. DOMAIN L = 1..N
    BY <2>2
  <2> QED
    BY <2>2, <2>3
<1>6. IsInjective(L)
  BY <1>5 DEF IsInjective
<1>7. Range(L) = S
  <2>1. IsFiniteSet(1..N) /\ Cardinality(1..N) = N
    <3>1. 1 \in Int /\ N \in Int /\ (N = 0 \/ N >= 1)
      BY <1>1
    <3>2. IsFiniteSet(1..N) /\ Cardinality(1..N) = IF 1 > N THEN 0 ELSE N - 1 + 1
      BY <3>1, FS_Interval
    <3> QED
      BY <3>1, <3>2
  <2>2. L \in Injection(1..N, S)
    BY <1>5, <1>6 DEF Injection
  <2> HIDE DEF L
  <2>3. L \in Surjection(1..N, S)
    BY <2>1, <2>2, FS_Injection DEF N
  <2> QED
    BY <1>5, <2>3 DEF Surjection, Range
<1>8. ASSUME NEW i \in 1..N
      PROVE  /\ f[i - 1] \in Seq(S) /\ Len(f[i - 1]) = i - 1
             /\ Range(f[i - 1]) = {L[j] : j \in 1..(i - 1)}
             /\ \A j \in 1..(i - 1) : f[i - 1][j] = L[j]
  <2>1. i - 1 \in 0..N /\ \A j \in 1..(i - 1) : j \in 1..N
    BY <1>1
  <2>2. /\ f[i - 1] \in Seq(S) /\ Len(f[i - 1]) = i - 1
        /\ \A j \in 1..(i - 1) : f[i - 1][j] = next[j - 1]
    BY <1>4, <2>1 DEF Listed
  <2> HIDE DEF L
  <2>3. \A j \in 1..(i - 1) : f[i - 1][j] = L[j]
    BY <1>5, <2>1, <2>2
  <2>4. DOMAIN f[i - 1] = 1..(i - 1)
    BY <2>2
  <2>5. Range(f[i - 1]) = {L[j] : j \in 1..(i - 1)}
    BY <2>3, <2>4 DEF Range
  <2> QED
    BY <2>2, <2>3, <2>5
<1> QED
  BY <1>1, <1>5, <1>6, <1>7, <1>8 DEF N, Lists

\* f passes the sequences that grow by what is picked.
GrowsBy(f, pick, W) ==
  /\ f \in [Nat -> Seq(W)]
  /\ f = [n \in Nat |-> IF n = 0 THEN <<>> ELSE Append(f[n - 1], pick[f[n - 1]])]

\* A sequence can always grow by what is picked.
LEMMA GrowthExists ==
  ASSUME NEW W, NEW pick \in [Seq(W) -> W]
  PROVE  \E f : GrowsBy(f, pick, W)
<1> DEFINE Growing == Seq(W)
           grow == [b \in Growing |-> Append(b, pick[b])]
           empty == <<>>
<1>1. grow \in [Growing -> Growing] /\ empty \in Growing
  OBVIOUS
<1>2. PICK f \in [Nat -> Growing] : f[0] = empty /\ \A n \in Nat : f[n + 1] = grow[f[n]]
  <2> HIDE DEF grow, Growing, empty
  <2>1. \E f : Solves(f, Growing, empty, grow)
    BY <1>1, StepsExist
  <2> QED
    BY <2>1 DEF Solves
<1>3. ASSUME NEW n \in Nat
      PROVE  f[n] = IF n = 0 THEN <<>> ELSE Append(f[n - 1], pick[f[n - 1]])
  <2>1. CASE n = 0
    BY <1>2, <2>1
  <2>2. CASE n # 0
    <3>1. n - 1 \in Nat /\ (n - 1) + 1 = n
      BY <2>2
    <3>2. f[n] = grow[f[n - 1]]
      BY <1>2, <3>1
    <3> QED
      BY <1>2, <2>2, <3>1, <3>2
  <2> QED
    BY <2>1, <2>2
<1> HIDE DEF grow
<1>4. f = [n \in Nat |-> IF n = 0 THEN <<>> ELSE Append(f[n - 1], pick[f[n - 1]])]
  BY <1>3
<1>5. GrowsBy(f, pick, W)
  BY <1>2, <1>4 DEF GrowsBy
<1> QED
  BY <1>5

-----------------------------------------------------------------------------
(* The topological order: among quests that wait for each other in no circle *)
(* one is ready, so the order lists them all.                              *)
\* In a finite set each member of which waits for one of them there are quests
\* that wait for each other.
LEMMA WaitingIsCyclic ==
  ASSUME NEW R, R # {}, R \subseteq Ids, IsFiniteSet(R),
         \A id \in R : \E p \in R : p \in Known(id)
  PROVE  IsCyclic
<1> DEFINE f == [id \in R |-> CHOOSE p \in R : p \in Known(id)]
           Closed(T) == T # {} /\ T \subseteq R /\ \A id \in T : f[id] \in T
           sizes == {Cardinality(T) : T \in {T \in SUBSET R : Closed(T)}}
<1>1. \A id \in R : f[id] \in R /\ f[id] \in Known(id)
  OBVIOUS
<1> HIDE DEF f
<1>2. Closed(R)
  BY <1>1
<1>3. \A T \in SUBSET R : IsFiniteSet(T) /\ Cardinality(T) \in Nat
  BY FS_Subset, FS_CardinalityType
<1>4. sizes \subseteq Nat /\ sizes # {}
  BY <1>2, <1>3
<1>5. PICK T \in SUBSET R : Closed(T) /\ \A U \in SUBSET R : Closed(U) => Cardinality(T) <= Cardinality(U)
  <2>1. PICK n \in sizes : \A m \in sizes : n <= m
    BY <1>4, LeastNat
  <2> QED
    BY <2>1
<1> DEFINE U == {f[id] : id \in T}
<1>6. U \subseteq T /\ Closed(U)
  BY <1>1, <1>5
<1>7. U = T
  <2>1. Cardinality(U) <= Cardinality(T) /\ Cardinality(T) <= Cardinality(U)
    BY <1>3, <1>5, <1>6, FS_Subset
  <2>2. Cardinality(U) \in Nat /\ Cardinality(T) \in Nat /\ IsFiniteSet(T) /\ U \in SUBSET T
    BY <1>3, <1>5, <1>6
  <2> HIDE DEF U
  <2>3. Cardinality(U) = Cardinality(T)
    BY <2>1, <2>2
  <2> QED
    BY <2>2, <2>3, FS_Subset
<1>8. \A p \in T : \E id \in T : p \in Known(id)
  BY <1>1, <1>7
<1>9. T \in SUBSET UNION {Known(id) : id \in Ids}
  BY <1>8
<1> QED
  BY <1>5, <1>8, <1>9 DEF IsCyclic

\* The key by which ready quests are sorted is a number.
LEMMA KeysAreNumbers ==
  ASSUME library \in Libraries
  PROVE  \A id \in Ids : SortKey(id) \in Nat
<1> TAKE id \in Ids
<1>1. id \in Nat
  BY AboutLibraries
<1>2. Q(id).step \in Nat /\ Q(id).type \in DOMAIN Priority
  BY QuestsAssumption DEF Q, Ids
<1>3. \A type \in DOMAIN Priority : Priority[type] \in Nat
  BY DEF Priority
<1>4. Priority[Q(id).type] \in Nat
  BY <1>2, <1>3
<1> QED
  BY <1>1, <1>2, <1>4 DEF SortKey

\* Without cycles one of some quests waits for none of them, and the first of
\* those is chosen.
LEMMA FirstIsReady ==
  ASSUME library \in Libraries, ~IsCyclic, NEW R, R \subseteq Ids, R # {}
  PROVE  First(R) \in R /\ Prerequisites(First(R)) \cap R = {}
<1>1. IsFiniteSet(R)
  BY AboutLibraries, FS_Subset
<1>2. Ready(R) # {}
  <2>1. PICK id \in R : \A p \in R : p \notin Known(id)
    BY <1>1, WaitingIsCyclic
  <2>2. Prerequisites(id) \cap R = {}
    BY <2>1 DEF Known
  <2> QED
    BY <2>2 DEF Ready
<1>3. Ready(R) \subseteq R
  BY DEF Ready
<1> DEFINE keys == {SortKey(id) : id \in Ready(R)}
<1>4. keys \subseteq Nat /\ keys # {}
  BY <1>2, <1>3, KeysAreNumbers
<1>5. PICK k \in keys : \A other \in keys : k <= other
  <2> HIDE DEF keys
  <2> QED
    BY <1>4, LeastNat
<1>6. PICK id \in Ready(R) : \A other \in Ready(R) : SortKey(id) <= SortKey(other)
  BY <1>5
<1>7. First(R) \in Ready(R)
  BY <1>6 DEF First
<1> QED
  BY <1>7 DEF Ready

\* The list grows by the first of the quests that are left.
LEMMA OrderedGrows ==
  ASSUME NEW ids
  PROVE  Ordered(ids) = [n \in Nat |->
           IF n = 0 THEN <<>>
           ELSE Append(Ordered(ids)[n - 1], First(ids \ Range(Ordered(ids)[n - 1])))]
<1> DEFINE W == {First(R) : R \in SUBSET ids}
           pick == [b \in Seq(W) |-> First(ids \ Range(b))]
<1>1. pick \in [Seq(W) -> W]
  OBVIOUS
<1>2. PICK f \in [Nat -> Seq(W)] :
        f = [n \in Nat |-> IF n = 0 THEN <<>> ELSE Append(f[n - 1], pick[f[n - 1]])]
  <2> HIDE DEF pick, W
  <2>1. PICK f : GrowsBy(f, pick, W)
    BY <1>1, GrowthExists
  <2> QED
    BY <2>1 DEF GrowsBy
<1>3. \A n \in Nat : n # 0 => f[n - 1] \in Seq(W)
  OBVIOUS
<1>4. f = [n \in Nat |-> IF n = 0 THEN <<>> ELSE Append(f[n - 1], First(ids \ Range(f[n - 1])))]
  <2>1. \A n \in Nat : n # 0 => pick[f[n - 1]] = First(ids \ Range(f[n - 1]))
    BY <1>3
  <2> HIDE DEF pick, W
  <2> QED
    BY <1>2, <2>1
<1> HIDE DEF pick, W
<1> QED
  BY <1>4 DEF Ordered

\* The topological order lists the quests, each after those it waits for.
LEMMA OrderIsTopological ==
  ASSUME library \in Libraries, ~IsCyclic, NEW ids \in SUBSET Ids
  PROVE  LET L == TopologicalOrder(ids)
         IN  /\ L \in Seq(ids) /\ IsInjective(L) /\ Range(L) = ids
             /\ Len(L) \in Nat /\ DOMAIN L = 1..Len(L)
             /\ \A i \in 1..Len(L) :
                  Prerequisites(L[i]) \cap ids \subseteq {L[j] : j \in 1..(i - 1)}
<1> DEFINE f == Ordered(ids)
           next == [n \in Nat |-> First(ids \ Range(f[n]))]
           N == Cardinality(ids)
           L == f[N]
<1>1. IsFiniteSet(ids)
  BY AboutLibraries, FS_Subset
<1>2. f[0] = <<>> /\ \A n \in Nat : f[n + 1] = Append(f[n], next[n])
  <2> HIDE DEF f
  <2>1. f = [n \in Nat |-> IF n = 0 THEN <<>>
                           ELSE Append(f[n - 1], First(ids \ Range(f[n - 1])))]
    BY OrderedGrows DEF f
  <2>2. f[0] = <<>>
    BY <2>1
  <2>3. ASSUME NEW n \in Nat PROVE f[n + 1] = Append(f[n], next[n])
    <3>1. n + 1 \in Nat /\ n + 1 # 0 /\ (n + 1) - 1 = n
      OBVIOUS
    <3>2. f[n + 1] = Append(f[n], First(ids \ Range(f[n])))
      BY <2>1, <3>1
    <3> QED
      BY <3>2
  <2> QED
    BY <2>2, <2>3
<1>3. \A n \in Nat : f[n] \in Seq(ids) /\ Range(f[n]) # ids => next[n] \in ids \ Range(f[n])
  <2> TAKE n \in Nat
  <2> HAVE f[n] \in Seq(ids) /\ Range(f[n]) # ids
  <2>1. Range(f[n]) \subseteq ids
    <3> HIDE DEF f
    <3> QED
      BY RangeOfSeq
  <2> DEFINE R == ids \ Range(f[n])
  <2>2. R \subseteq Ids /\ R # {}
    BY <2>1
  <2> HIDE DEF R
  <2>3. First(R) \in R
    BY <2>2, FirstIsReady
  <2> QED
    BY <2>3 DEF R
<1>4. Grows(f, next, ids)
  <2> HIDE DEF f, next
  <2> QED
    BY <1>2, <1>3 DEF Grows
<1>5. /\ N \in Nat /\ L \in Seq(ids) /\ Len(L) = N /\ DOMAIN L = 1..N
      /\ IsInjective(L) /\ Range(L) = ids
      /\ \A i \in 1..N : /\ L[i] = next[i - 1] /\ L[i] \in ids
                         /\ Range(f[i - 1]) = {L[j] : j \in 1..(i - 1)}
  <2> HIDE DEF f, next
  <2>1. Lists(f, next, ids)
    BY <1>1, <1>4, Listing
  <2> QED
    BY <2>1 DEF Lists
<1>6. ASSUME NEW i \in 1..N
      PROVE  Prerequisites(L[i]) \cap ids \subseteq {L[j] : j \in 1..(i - 1)}
  <2> DEFINE R == ids \ Range(f[i - 1])
  <2>1. i - 1 \in Nat
    OBVIOUS
  <2>2. L[i] = First(R)
    BY <1>5, <2>1
  <2>3. L[i] \in R
    <3>1. L[i] \in ids
      BY <1>5
    <3>2. L[i] \notin {L[j] : j \in 1..(i - 1)}
      <4> HIDE DEF L, N
      <4>1. \A j \in 1..(i - 1) : j \in DOMAIN L /\ i \in DOMAIN L /\ j # i
        BY <1>5
      <4> QED
        BY <1>5, <4>1 DEF IsInjective
    <3> HIDE DEF L, f
    <3> QED
      BY <1>5, <3>1, <3>2
  <2> HIDE DEF R
  <2>4. Prerequisites(First(R)) \cap R = {}
    BY <2>3, FirstIsReady DEF R
  <2> HIDE DEF L, f, N
  <2>5. Range(f[i - 1]) = {L[j] : j \in 1..(i - 1)}
    BY <1>5
  <2> QED
    BY <2>2, <2>4, <2>5 DEF R
<1>7. L = TopologicalOrder(ids)
  BY DEF TopologicalOrder
<1> HIDE DEF L, N
<1> QED
  BY <1>5, <1>6, <1>7

-----------------------------------------------------------------------------
(* Paths: what a walk back has seen when nothing new is found.             *)
\* A round adds what the quests seen so far wait for.
LEMMA TracedGrows ==
  ASSUME NEW id, NEW p
  PROVE  /\ \A n \in Nat : Traced(id, p)[n] \in SUBSET Ids
         /\ Traced(id, p)[0] = Behind({id}, p)
         /\ \A n \in Nat : Traced(id, p)[n + 1] =
                             Traced(id, p)[n] \cup Behind(Traced(id, p)[n], p)
<1> DEFINE Sets == SUBSET Ids
           grow == [s \in Sets |-> s \cup Behind(s, p)]
           least == Behind({id}, p)
<1>1. grow \in [Sets -> Sets] /\ least \in Sets
  BY DEF Behind
<1>2. PICK f : Solves(f, Sets, least, grow)
  <2> HIDE DEF Sets, grow, least
  <2> QED
    BY <1>1, StepsExist
<1>3. /\ f \in [Nat -> Sets] /\ f[0] = Behind({id}, p)
      /\ \A n \in Nat : f[n + 1] = f[n] \cup Behind(f[n], p)
  <2>1. f \in [Nat -> Sets] /\ f[0] = least /\ \A n \in Nat : f[n + 1] = grow[f[n]]
    BY <1>2 DEF Solves
  <2>2. \A s \in Sets : grow[s] = s \cup Behind(s, p)
    OBVIOUS
  <2> HIDE DEF grow, Sets
  <2> QED
    BY <2>1, <2>2
<1> HIDE DEF grow, Sets, least
<1>4. f = [n \in Nat |-> IF n = 0 THEN Behind({id}, p) ELSE f[n - 1] \cup Behind(f[n - 1], p)]
  <2>1. ASSUME NEW n \in Nat, n # 0 PROVE f[n] = f[n - 1] \cup Behind(f[n - 1], p)
    <3>1. n - 1 \in Nat /\ (n - 1) + 1 = n
      BY <2>1
    <3> QED
      BY <1>3, <3>1
  <2> QED
    BY <1>3, <2>1
<1> DEFINE t == Traced(id, p)
<1>5. t = [n \in Nat |-> IF n = 0 THEN Behind({id}, p) ELSE t[n - 1] \cup Behind(t[n - 1], p)]
  BY <1>4 DEF Traced
<1> HIDE DEF t
<1>6. t[0] = Behind({id}, p)
  BY <1>5
<1>7. ASSUME NEW n \in Nat PROVE t[n + 1] = t[n] \cup Behind(t[n], p)
  <2>1. n + 1 \in Nat /\ n + 1 # 0 /\ (n + 1) - 1 = n
    OBVIOUS
  <2> QED
    BY <1>5, <2>1
<1>8. \A n \in Nat : t[n] \in SUBSET Ids
  <2> DEFINE S == {n \in Nat : t[n] \in SUBSET Ids}
  <2>1. 0 \in S
    BY <1>6 DEF Behind
  <2>2. \A n \in Nat : n \in S => n + 1 \in S
    BY <1>7 DEF Behind
  <2> HIDE DEF S
  <2>3. \A n \in Nat : n \in S
    BY <2>1, <2>2, Induction
  <2> QED
    BY <2>3 DEF S
<1> QED
  BY <1>6, <1>7, <1>8 DEF t

\* After as many rounds as there are quests no round finds another.
LEMMA TracedIsStable ==
  ASSUME library \in Libraries, NEW id, NEW p
  PROVE  LET M == MissingPrerequisites(id, p) IN Behind(M, p) \subseteq M
<1> DEFINE t == Traced(id, p)
           N == Cardinality(Ids)
           S == {n \in Nat : t[n + 1] = t[n] \/ n <= Cardinality(t[n])}
<1>1. IsFiniteSet(Ids) /\ N \in Nat
  BY AboutLibraries, FS_CardinalityType
<1>2. /\ \A n \in Nat : t[n] \in SUBSET Ids
      /\ \A n \in Nat : t[n + 1] = t[n] \cup Behind(t[n], p)
  BY TracedGrows
<1> HIDE DEF t
<1>3. \A n \in Nat : IsFiniteSet(t[n]) /\ Cardinality(t[n]) \in Nat
  BY <1>1, <1>2, FS_Subset, FS_CardinalityType
<1>4. 0 \in S
  BY <1>3
<1>5. \A n \in Nat : n \in S => n + 1 \in S
  <2> TAKE n \in Nat
  <2> HAVE n \in S
  <2> USE DEF S
  <2>1. CASE t[n + 1] = t[n]
    <3>1. n + 1 \in Nat
      OBVIOUS
    <3> QED
      BY <1>2, <2>1, <3>1
  <2>2. CASE t[n + 1] # t[n]
    <3>1. n <= Cardinality(t[n])
      BY <2>2
    <3>2. n + 1 \in Nat /\ t[n] \in SUBSET t[n + 1]
      BY <1>2
    <3>3. Cardinality(t[n]) <= Cardinality(t[n + 1]) /\ Cardinality(t[n]) # Cardinality(t[n + 1])
      BY <1>3, <2>2, <3>2, FS_Subset
    <3>4. n + 1 <= Cardinality(t[n + 1])
      BY <1>3, <3>1, <3>2, <3>3
    <3> QED
      BY <3>2, <3>4
  <2> QED
    BY <2>1, <2>2
<1>6. N \in S
  <2> HIDE DEF S, N
  <2> QED
    BY <1>1, <1>4, <1>5, Induction
<1>7. t[N + 1] = t[N]
  <2>1. CASE N <= Cardinality(t[N])
    <3>1. t[N] \in SUBSET Ids /\ t[N + 1] \in SUBSET Ids /\ t[N] \subseteq t[N + 1]
      BY <1>1, <1>2
    <3>2. Cardinality(t[N]) <= N /\ Cardinality(t[N]) \in Nat
      BY <1>1, <1>3, <3>1, FS_Subset
    <3>3. Cardinality(t[N]) = N
      BY <1>1, <2>1, <3>2
    <3>4. t[N] = Ids
      BY <1>1, <3>1, <3>3, FS_Subset
    <3> QED
      BY <3>1, <3>4
  <2> QED
    BY <1>6, <2>1
<1>8. t[N] = MissingPrerequisites(id, p)
  BY DEF MissingPrerequisites, t
<1> HIDE DEF N
<1>9. Behind(t[N], p) \subseteq t[N]
  BY <1>1, <1>2, <1>7
<1> QED
  BY <1>8, <1>9

\* What is missing before a quest: uncompleted quests, with all they wait for,
\* and only what the target or another of them waits for.
LEMMA MissingIsRight ==
  ASSUME library \in Libraries, NEW id, NEW p
  PROVE  LET M == MissingPrerequisites(id, p)
         IN  /\ M \subseteq Ids \ p.completed
             /\ \A q \in M \cup {id} : Known(q) \ p.completed \subseteq M
             /\ \A m \in M : \E q \in M \cup {id} : m \in Prerequisites(q)
<1> DEFINE t == Traced(id, p)
           N == Cardinality(Ids)
           M == t[N]
           S == {n \in Nat : /\ Known(id) \ p.completed \subseteq t[n]
                             /\ t[n] \subseteq Ids \ p.completed
                             /\ \A m \in t[n] : \E q \in t[n] \cup {id} : m \in Prerequisites(q)}
<1>1. N \in Nat
  BY AboutLibraries, FS_CardinalityType
<1>2. /\ t[0] = Behind({id}, p)
      /\ \A n \in Nat : t[n + 1] = t[n] \cup Behind(t[n], p)
  BY TracedGrows
<1>3. M = MissingPrerequisites(id, p)
  BY DEF MissingPrerequisites
<1> HIDE DEF t, N
<1>4. Behind(M, p) \subseteq M
  BY <1>3, TracedIsStable
<1>5. 0 \in S
  BY <1>2 DEF Behind, Known
<1>6. \A n \in Nat : n \in S => n + 1 \in S
  <2> TAKE n \in Nat
  <2> HAVE n \in S
  <2>1. n + 1 \in Nat /\ t[n + 1] = t[n] \cup Behind(t[n], p)
    BY <1>2
  <2> QED
    BY <2>1 DEF Behind
<1>7. N \in S
  <2> HIDE DEF S
  <2> QED
    BY <1>1, <1>5, <1>6, Induction
<1>8. \A q \in M : Known(q) \ p.completed \subseteq M
  BY <1>4 DEF Behind, Known
<1> QED
  BY <1>3, <1>7, <1>8

\* The highest level suffices for every quest.
LEMMA HighestSuffices ==
  ASSUME library \in Libraries, NEW id \in Ids
  PROVE  ~(Max(Levels) < Q(id).level)
<1>1. PICK highest \in Levels : \A l \in Levels : l <= highest
  BY LevelsAssumption
<1>2. Max(Levels) \in Levels /\ \A l \in Levels : Max(Levels) >= l
  <2>1. \A l \in Levels : highest >= l
    BY <1>1, LevelsAssumption
  <2> QED
    BY <2>1 DEF Max
<1>3. Q(id).level \in Nat /\ \E l \in Levels : Q(id).level <= l
  BY QuestsAssumption DEF Q, Ids
<1> DEFINE needed == Q(id).level
           most == Max(Levels)
<1>4. PICK enough \in Levels : needed <= enough
  BY <1>3
<1>5. most \in Nat /\ needed \in Nat /\ enough \in Nat /\ most >= enough
  BY <1>2, <1>3, LevelsAssumption
<1> HIDE DEF needed, most
<1>6. ~(most < needed)
  BY <1>4, <1>5
<1> QED
  BY <1>6 DEF needed, most

\* A quest nobody needs to do is no quest it needs itself.
LEMMA TargetIsNotMissing ==
  ASSUME library \in Libraries, ~IsCyclic, NEW id \in Ids, NEW p
  PROVE  id \notin MissingPrerequisites(id, p)
<1> DEFINE M == MissingPrerequisites(id, p)
<1> SUFFICES ASSUME id \in M PROVE FALSE
  OBVIOUS
<1>1. M \subseteq Ids /\ \A m \in M : \E q \in M \cup {id} : m \in Prerequisites(q)
  BY MissingIsRight
<1> HIDE DEF M
<1>2. \A m \in M : \E q \in M : m \in Known(q)
  BY <1>1 DEF Known
<1>3. M \in SUBSET UNION {Known(q) : q \in Ids}
  BY <1>1, <1>2
<1>4. IsCyclic
  BY <1>2, <1>3 DEF IsCyclic
<1> QED
  BY <1>4

\* The path to an uncompleted quest: uncompleted quests, each once, and each
\* after whatever it needs that is not completed.
LEMMA PathIsOrdered ==
  ASSUME library \in Libraries, ~IsCyclic, ~Problems, NEW p, NEW id \in Ids \ p.completed
  PROVE  LET path == PathTo(id, p)
         IN  /\ \A i \in DOMAIN path : path[i] \in Ids \ p.completed
             /\ \A i \in DOMAIN path : path[i] \notin {path[j] : j \in 1..(i - 1)}
             /\ \A i \in DOMAIN path :
                  Prerequisites(path[i]) \subseteq p.completed \cup {path[j] : j \in 1..(i - 1)}
<1> DEFINE M == MissingPrerequisites(id, p)
           L == TopologicalOrder(M)
           path == PathTo(id, p)
           before(i) == {path[j] : j \in 1..(i - 1)}
<1>1. /\ M \subseteq Ids \ p.completed
      /\ \A q \in M \cup {id} : Known(q) \ p.completed \subseteq M
  BY MissingIsRight
<1>2. id \notin M
  BY TargetIsNotMissing
<1> HIDE DEF M
<1>3. /\ L \in Seq(M) /\ IsInjective(L) /\ Range(L) = M
      /\ Len(L) \in Nat /\ DOMAIN L = 1..Len(L)
      /\ \A i \in 1..Len(L) : Prerequisites(L[i]) \cap M \subseteq {L[j] : j \in 1..(i - 1)}
  BY <1>1, OrderIsTopological
<1>4. path = Append(L, id)
  BY DEF PathTo, M
<1> HIDE DEF L, path
<1>5. /\ DOMAIN path = 1..(Len(L) + 1)
      /\ \A i \in 1..Len(L) : path[i] = L[i] /\ path[i] \in M
      /\ path[Len(L) + 1] = id
  BY <1>3, <1>4
<1>6. \A q \in Ids : Prerequisites(q) = Known(q)
  BY DEF Problems
<1>7. \A i \in 1..Len(L) : before(i) = {L[j] : j \in 1..(i - 1)}
  BY <1>3, <1>5
<1>8. before(Len(L) + 1) = M
  <2>1. (Len(L) + 1) - 1 = Len(L)
    BY <1>3
  <2>2. before(Len(L) + 1) = {L[j] : j \in 1..Len(L)}
    BY <1>5, <2>1
  <2>3. Range(L) = {L[j] : j \in 1..Len(L)}
    BY <1>3 DEF Range
  <2> QED
    BY <1>3, <2>2, <2>3
<1>9. \A i \in DOMAIN path : i \in 1..Len(L) \/ i = Len(L) + 1
  BY <1>3, <1>5
<1>10. ASSUME NEW i \in DOMAIN path
       PROVE  /\ path[i] \in Ids \ p.completed /\ path[i] \notin before(i)
              /\ Prerequisites(path[i]) \subseteq p.completed \cup before(i)
  <2>1. CASE i \in 1..Len(L)
    <3>1. path[i] = L[i] /\ L[i] \in M
      BY <1>5, <2>1
    <3>2. L[i] \notin {L[j] : j \in 1..(i - 1)}
      <4>1. \A j \in 1..(i - 1) : j \in DOMAIN L /\ i \in DOMAIN L /\ j # i
        BY <1>3, <2>1
      <4> QED
        BY <1>3, <4>1 DEF IsInjective
    <3>3. Prerequisites(L[i]) \subseteq p.completed \cup {L[j] : j \in 1..(i - 1)}
      <4>1. Known(L[i]) \ p.completed \subseteq M
        BY <1>1, <3>1
      <4>2. Prerequisites(L[i]) \cap M \subseteq {L[j] : j \in 1..(i - 1)}
        BY <1>3, <2>1
      <4>3. Prerequisites(L[i]) = Known(L[i])
        BY <1>1, <1>6, <3>1
      <4> QED
        BY <4>1, <4>2, <4>3
    <3>4. before(i) = {L[j] : j \in 1..(i - 1)}
      BY <1>7, <2>1
    <3> QED
      BY <1>1, <3>1, <3>2, <3>3, <3>4
  <2>2. CASE i = Len(L) + 1
    <3>1. path[i] = id /\ before(i) = M
      BY <1>5, <1>8, <2>2
    <3> QED
      BY <1>1, <1>2, <1>6, <3>1
  <2> QED
    BY <1>9, <2>1, <2>2
<1> QED
  BY <1>10 DEF path

\* Of the quests of a path each can be taken when those before it are done.
LEMMA PathsArePlayable ==
  ASSUME library \in Libraries, ~IsCyclic, ~Problems
  PROVE  PathIsPlayable
<1> SUFFICES ASSUME NEW id \in Ids,
                    \A i \in DOMAIN PathTo(id, Now) :
                      /\ IsEligible(Q(PathTo(id, Now)[i]), hero)
                      /\ Q(PathTo(id, Now)[i]).type # "breadcrumb",
                    NEW i \in DOMAIN PathTo(id, Now)
             PROVE  LET path == PathTo(id, Now)
                        before == {path[j] : j \in 1..(i - 1)}
                    IN  StatusFor(path[i], [completed |-> completed \cup before,
                                            inProgress |-> inProgress \ before,
                                            level |-> Max(Levels)])
                          \in {"available", "in_progress"}
  BY DEF PathIsPlayable
<1> DEFINE path == PathTo(id, Now)
           before == {path[j] : j \in 1..(i - 1)}
           then == [completed |-> completed \cup before, inProgress |-> inProgress \ before,
                    level |-> Max(Levels)]
<1>1. id \notin completed
  <2>1. id \in completed => path = <<>>
    BY DEF PathTo, Now
  <2> QED
    BY <2>1
<1>2. /\ path[i] \in Ids \ completed /\ path[i] \notin before
      /\ Prerequisites(path[i]) \subseteq completed \cup before
  <2>1. Now.completed = completed
    BY DEF Now
  <2>2. /\ \A k \in DOMAIN path : path[k] \in Ids \ Now.completed
        /\ \A k \in DOMAIN path : path[k] \notin {path[j] : j \in 1..(k - 1)}
        /\ \A k \in DOMAIN path :
             Prerequisites(path[k]) \subseteq Now.completed \cup {path[j] : j \in 1..(k - 1)}
    BY <1>1, <2>1, PathIsOrdered
  <2> QED
    BY <2>1, <2>2
<1>3. IsEligible(Q(path[i]), hero) /\ Q(path[i]).type # "breadcrumb"
  OBVIOUS
<1> HIDE DEF path
<1>4. ~(Max(Levels) < Q(path[i]).level)
  BY <1>2, HighestSuffices
<1> HIDE DEF before
<1>5. /\ then.completed = completed \cup before /\ then.inProgress = inProgress \ before
      /\ then.level = Max(Levels)
  OBVIOUS
<1> HIDE DEF then
<1>6. ~IsLocked(path[i], then)
  BY <1>2, <1>4, <1>5 DEF IsLocked
<1>7. StatusFor(path[i], then) \in {"available", "in_progress"}
  BY <1>2, <1>3, <1>5, <1>6 DEF StatusFor
<1> QED
  BY <1>7 DEF then, before, path

-----------------------------------------------------------------------------
(* Plans: the greedy tour lists the zones, and its legs list the quests.   *)
\* The least member of a set of numbers.
LEMMA MinIsLeast ==
  ASSUME NEW T, T \subseteq Nat, T # {}
  PROVE  Min(T) \in T /\ Min(T) \in Nat /\ \A n \in T : Min(T) <= n
<1>1. \E n \in T : \A m \in T : n <= m
  BY LeastNat
<1> QED
  BY <1>1 DEF Min

\* What numbers a sequence ranges over, and what a function of one, is finite.
LEMMA ImagesAreFinite ==
  ASSUME NEW S, IsFiniteSet(S), NEW g, DOMAIN g = S
  PROVE  IsFiniteSet({g[x] : x \in S})
<1> DEFINE T == {g[x] : x \in S}
           h == [x \in S |-> g[x]]
<1>1. h \in Surjection(S, T)
  BY DEF Surjection
<1> HIDE DEF h, T
<1>2. IsFiniteSet(T)
  BY <1>1, FS_Surjection
<1> QED
  BY <1>2 DEF T

\* Where the quests of a zone come first.
LEMMA ArrivalIsANumber ==
  ASSUME NEW order, DOMAIN order \subseteq Nat, NEW zone \in ZonesOf(order)
  PROVE  Arrival(order, zone) \in Nat
<1> DEFINE places == {i \in DOMAIN order : Q(order[i]).zone = zone}
<1>1. places \subseteq Nat /\ places # {}
  BY DEF ZonesOf
<1> HIDE DEF places
<1>2. Min(places) \in Nat
  BY <1>1, MinIsLeast
<1> QED
  BY <1>2 DEF places, Arrival

\* Of some zones of a plan one is the nearest.
LEMMA NearestIsOneOfThem ==
  ASSUME NEW order, DOMAIN order \subseteq Nat, NEW zones \in SUBSET ZonesOf(order), zones # {},
         NEW at, \A z \in zones : seconds[at][z] \in Nat
  PROVE  Nearest(order, zones, at) \in zones
<1> DEFINE far == [z \in zones |-> seconds[at][z]]
           first == [z \in zones |-> Arrival(order, z)]
           fars == {far[z] : z \in zones}
<1>1. far \in [zones -> Nat]
  OBVIOUS
<1>2. first \in [zones -> Nat]
  BY ArrivalIsANumber
<1>3. \A z \in zones : far[z] = seconds[at][z] /\ first[z] = Arrival(order, z)
  OBVIOUS
<1> HIDE DEF far, first
<1>4. fars \subseteq Nat /\ fars # {}
  BY <1>1
<1>5. PICK m \in fars : \A other \in fars : m <= other
  <2> HIDE DEF fars
  <2> QED
    BY <1>4, LeastNat
<1> DEFINE near == {z \in zones : far[z] = m}
           firsts == {first[z] : z \in near}
<1>6. firsts \subseteq Nat /\ firsts # {}
  BY <1>2, <1>5
<1>7. PICK k \in firsts : \A other \in firsts : k <= other
  <2> HIDE DEF firsts
  <2> QED
    BY <1>6, LeastNat
<1>8. PICK z \in near : first[z] = k
  OBVIOUS
<1>9. \A other \in zones :
        \/ far[z] < far[other]
        \/ far[z] = far[other] /\ first[z] <= first[other]
  <2> TAKE other \in zones
  <2>1. m <= far[other] /\ m \in Nat /\ far[other] \in Nat /\ far[z] = m
    BY <1>1, <1>4, <1>5, <1>8
  <2>2. CASE far[other] = m
    <3>1. first[other] \in firsts
      BY <2>2
    <3> QED
      BY <1>7, <1>8, <2>1, <2>2, <3>1
  <2>3. CASE far[other] # m
    BY <2>1, <2>3
  <2> QED
    BY <2>2, <2>3
<1>10. \E y \in zones : \A other \in zones :
         \/ seconds[at][y] < seconds[at][other]
         \/ seconds[at][y] = seconds[at][other] /\ Arrival(order, y) <= Arrival(order, other)
  BY <1>3, <1>8, <1>9
<1> QED
  BY <1>10 DEF Nearest

\* The tour grows by the nearest zone that is left.
LEMMA OrderZonesLists ==
  ASSUME NEW order, DOMAIN order \subseteq Nat, IsFiniteSet(DOMAIN order),
         ZonesOf(order) # {} => 1 \in DOMAIN order, NEW origin,
         \A at \in ZonesOf(order) \cup ({origin} \ {NoZone}) : \A z \in ZonesOf(order) : seconds[at][z] \in Nat
  PROVE  LET zones == OrderZones(order, origin)
         IN  /\ zones \in Seq(ZonesOf(order)) /\ IsInjective(zones)
             /\ Range(zones) = ZonesOf(order)
             /\ Len(zones) \in Nat /\ DOMAIN zones = 1..Len(zones)
<1> DEFINE Z == ZonesOf(order)
           N == Cardinality(Z)
           rest(b) == Z \ Range(b)
           at(b) == IF b # <<>> THEN Last(b)
                    ELSE IF origin = NoZone THEN Q(order[1]).zone ELSE origin
           Tours == Seq(Z)
           start == <<>>
           go == [b \in Tours |-> IF rest(b) = {} THEN b
                                  ELSE Append(b, Nearest(order, rest(b), at(b)))]
<1>1. IsFiniteSet(Z)
  <2> DEFINE g == [i \in DOMAIN order |-> Q(order[i]).zone]
  <2>1. Z = {g[i] : i \in DOMAIN order} /\ DOMAIN g = DOMAIN order
    BY DEF ZonesOf
  <2> HIDE DEF Z, g
  <2> QED
    BY <2>1, ImagesAreFinite
<1>2. \A b \in Tours : rest(b) # {} => Nearest(order, rest(b), at(b)) \in rest(b)
  <2> TAKE b \in Tours
  <2> HAVE rest(b) # {}
  <2>1. at(b) \in Z \cup ({origin} \ {NoZone})
    <3>1. b # <<>> => Last(b) \in Z
      BY DEF Last
    <3>2. Q(order[1]).zone \in Z
      BY DEF ZonesOf
    <3> HIDE DEF Z
    <3> QED
      BY <3>1, <3>2
  <2>2. \A z \in rest(b) : seconds[at(b)][z] \in Nat
    BY <2>1
  <2> DEFINE r == rest(b)
             a == at(b)
  <2>3. r \in SUBSET ZonesOf(order) /\ r # {}
    OBVIOUS
  <2> HIDE DEF r, a
  <2>4. \A z \in r : seconds[a][z] \in Nat
    BY <2>2 DEF r, a
  <2>5. Nearest(order, r, a) \in r
    BY <2>3, <2>4, NearestIsOneOfThem
  <2> QED
    BY <2>5 DEF r, a
<1>3. go \in [Tours -> Tours] /\ start \in Tours
  <2> HIDE DEF at
  <2>1. \A b \in Tours : rest(b) # {} => Nearest(order, rest(b), at(b)) \in Z
    BY <1>2
  <2> HIDE DEF rest
  <2> QED
    BY <2>1
<1>4. PICK f : Solves(f, Tours, start, go)
  <2> HIDE DEF Tours, start, go
  <2> QED
    BY <1>3, StepsExist
<1>5. /\ f \in [Nat -> Tours] /\ f[0] = <<>>
      /\ \A n \in Nat : f[n + 1] = IF rest(f[n]) = {} THEN f[n]
                                   ELSE Append(f[n], Nearest(order, rest(f[n]), at(f[n])))
  <2>1. f \in [Nat -> Tours] /\ f[0] = start /\ \A n \in Nat : f[n + 1] = go[f[n]]
    BY <1>4 DEF Solves
  <2>2. \A b \in Tours : go[b] = IF rest(b) = {} THEN b
                                 ELSE Append(b, Nearest(order, rest(b), at(b)))
    OBVIOUS
  <2>3. start = <<>>
    OBVIOUS
  <2> HIDE DEF Tours, start, go, rest, at
  <2> QED
    BY <2>1, <2>2, <2>3
<1>6. f = [n \in Nat |-> IF n = 0 THEN <<>>
                         ELSE IF rest(f[n - 1]) = {} THEN f[n - 1]
                         ELSE Append(f[n - 1], Nearest(order, rest(f[n - 1]), at(f[n - 1])))]
  <2> HIDE DEF rest, at
  <2>1. ASSUME NEW n \in Nat, n # 0
        PROVE  f[n] = IF rest(f[n - 1]) = {} THEN f[n - 1]
                      ELSE Append(f[n - 1], Nearest(order, rest(f[n - 1]), at(f[n - 1])))
    <3>1. n - 1 \in Nat /\ (n - 1) + 1 = n
      BY <2>1
    <3> QED
      BY <1>5, <3>1
  <2> QED
    BY <1>5, <2>1
<1> HIDE DEF Z
<1>7. PICK g : /\ g = [n \in Nat |-> IF n = 0 THEN <<>>
                                     ELSE IF rest(g[n - 1]) = {} THEN g[n - 1]
                                     ELSE Append(g[n - 1], Nearest(order, rest(g[n - 1]), at(g[n - 1])))]
               /\ OrderZones(order, origin) = g[N]
  BY <1>6 DEF OrderZones, Z
<1> DEFINE next == [n \in Nat |-> Nearest(order, rest(g[n]), at(g[n]))]
<1>8. Grows(g, next, Z)
  <2> HIDE DEF at
  <2>1. g[0] = <<>>
    BY <1>7
  <2>2. ASSUME NEW n \in Nat, g[n] \in Seq(Z) /\ Range(g[n]) # Z
        PROVE  g[n + 1] = Append(g[n], next[n]) /\ next[n] \in Z \ Range(g[n])
    <3>1. n + 1 \in Nat /\ n + 1 # 0 /\ (n + 1) - 1 = n
      OBVIOUS
    <3>2. rest(g[n]) # {}
      <4>1. Range(g[n]) \subseteq Z
        BY <2>2, RangeOfSeq
      <4> QED
        BY <2>2, <4>1
    <3>3. g[n + 1] = Append(g[n], Nearest(order, rest(g[n]), at(g[n])))
      <4> HIDE DEF rest
      <4> QED
        BY <1>7, <3>1, <3>2
    <3>4. Nearest(order, rest(g[n]), at(g[n])) \in rest(g[n])
      BY <1>2, <2>2, <3>2
    <3> QED
      BY <3>3, <3>4
  <2> HIDE DEF next
  <2> QED
    BY <2>1, <2>2 DEF Grows
<1>9. Lists(g, next, Z)
  <2> HIDE DEF next
  <2> QED
    BY <1>1, <1>8, Listing
<1> QED
  BY <1>7, <1>9 DEF Lists, Z

\* Legs that share no place, of places that are numbers.
AreLegs(legs) ==
  /\ DOMAIN legs \subseteq Nat
  /\ \A k \in DOMAIN legs : legs[k] \subseteq Nat
  /\ \A k, l \in DOMAIN legs : k # l => legs[k] \cap legs[l] = {}

\* The next stop is the least place that is left in the first leg with any.
LEMMA NextStopIsLeast ==
  ASSUME NEW legs, AreLegs(legs), NEW left, left \subseteq UNION Range(legs), left # {}
  PROVE  /\ NextStop(legs, left) \in left
         /\ \A k \in DOMAIN legs : NextStop(legs, left) \in legs[k] =>
              \A i \in legs[k] \cap left : NextStop(legs, left) <= i
<1> DEFINE open == {k \in DOMAIN legs : legs[k] \cap left # {}}
           leg == Min(open)
           places == legs[leg] \cap left
<1>1. open \subseteq Nat /\ open # {}
  BY DEF AreLegs, Range
<1>2. leg \in open
  <2> HIDE DEF open
  <2> QED
    BY <1>1, MinIsLeast
<1>3. leg \in DOMAIN legs /\ places \subseteq Nat /\ places # {}
  BY <1>2 DEF AreLegs
<1> HIDE DEF leg
<1>4. Min(places) \in places /\ \A i \in places : Min(places) <= i
  <2> HIDE DEF places
  <2> QED
    BY <1>3, MinIsLeast
<1>5. NextStop(legs, left) = Min(places)
  BY DEF NextStop, leg
<1> HIDE DEF places, open
<1>6. \A k \in DOMAIN legs : Min(places) \in legs[k] => k = leg
  BY <1>3, <1>4 DEF AreLegs, places
<1> QED
  BY <1>4, <1>5, <1>6 DEF places

\* The places of the legs are listed, those of one leg in ascending order.
LEMMA MergedLists ==
  ASSUME NEW legs, AreLegs(legs), IsFiniteSet(UNION Range(legs))
  PROVE  LET places == Merged(legs)
         IN  /\ places \in Seq(UNION Range(legs)) /\ IsInjective(places)
             /\ Range(places) = UNION Range(legs)
             /\ Len(places) \in Nat /\ DOMAIN places = 1..Len(places)
             /\ \A i, j \in DOMAIN places, k \in DOMAIN legs :
                  places[i] \in legs[k] /\ places[j] \in legs[k] /\ places[i] < places[j] => i < j
<1> DEFINE U == UNION Range(legs)
           N == Cardinality(U)
           W == {NextStop(legs, R) : R \in SUBSET U}
           pick == [b \in Seq(W) |-> NextStop(legs, U \ Range(b))]
<1>1. pick \in [Seq(W) -> W]
  OBVIOUS
<1>2. PICK f \in [Nat -> Seq(W)] :
        f = [n \in Nat |-> IF n = 0 THEN <<>> ELSE Append(f[n - 1], pick[f[n - 1]])]
  <2> HIDE DEF pick, W
  <2>1. PICK f : GrowsBy(f, pick, W)
    BY <1>1, GrowthExists
  <2> QED
    BY <2>1 DEF GrowsBy
<1>3. f = [n \in Nat |-> IF n = 0 THEN <<>>
                         ELSE Append(f[n - 1], NextStop(legs, U \ Range(f[n - 1])))]
  <2>1. \A n \in Nat : n # 0 => f[n - 1] \in Seq(W)
    <3> HIDE DEF pick, W
    <3> QED
      OBVIOUS
  <2>2. \A n \in Nat : n # 0 => pick[f[n - 1]] = NextStop(legs, U \ Range(f[n - 1]))
    BY <2>1
  <2> HIDE DEF pick, W
  <2> QED
    BY <1>2, <2>2
<1> HIDE DEF pick, W, U
<1>4. PICK g : /\ g = [n \in Nat |-> IF n = 0 THEN <<>>
                                     ELSE Append(g[n - 1], NextStop(legs, U \ Range(g[n - 1])))]
               /\ Merged(legs) = g[N]
  BY <1>3 DEF Merged, U
<1> DEFINE next == [n \in Nat |-> NextStop(legs, U \ Range(g[n]))]
           M == Merged(legs)
<1>5. g[0] = <<>> /\ \A n \in Nat : g[n + 1] = Append(g[n], next[n])
  <2>1. g[0] = <<>>
    BY <1>4
  <2>2. ASSUME NEW n \in Nat PROVE g[n + 1] = Append(g[n], next[n])
    <3>1. n + 1 \in Nat /\ n + 1 # 0 /\ (n + 1) - 1 = n
      OBVIOUS
    <3>2. g[n + 1] = Append(g[n], NextStop(legs, U \ Range(g[n])))
      BY <1>4, <3>1
    <3> QED
      BY <3>2
  <2> QED
    BY <2>1, <2>2
<1>6. ASSUME NEW n \in Nat, g[n] \in Seq(U) /\ Range(g[n]) # U
      PROVE  next[n] \in U \ Range(g[n])
  <2> DEFINE left == U \ Range(g[n])
  <2>1. left \subseteq U /\ left # {}
    <3>1. Range(g[n]) \subseteq U
      BY <1>6, RangeOfSeq
    <3> QED
      BY <1>6, <3>1
  <2> HIDE DEF left
  <2>2. NextStop(legs, left) \in left
    BY <2>1, NextStopIsLeast DEF U
  <2> QED
    BY <2>2 DEF left
<1>7. Grows(g, next, U)
  <2> HIDE DEF next
  <2> QED
    BY <1>5, <1>6 DEF Grows
<1>8. Lists(g, next, U)
  <2> HIDE DEF next
  <2>1. IsFiniteSet(U)
    BY DEF U
  <2> QED
    BY <1>7, <2>1, Listing
<1>9. /\ N \in Nat /\ M \in Seq(U) /\ Len(M) = N /\ DOMAIN M = 1..N
      /\ IsInjective(M) /\ Range(M) = U
      /\ \A i \in 1..N : /\ M[i] = next[i - 1] /\ M[i] \in U
                         /\ Range(g[i - 1]) = {M[j] : j \in 1..(i - 1)}
  <2>1. M = g[N]
    BY <1>4
  <2> HIDE DEF next, M
  <2>2. LET L == g[N]
        IN  /\ N \in Nat /\ L \in Seq(U) /\ Len(L) = N /\ DOMAIN L = 1..N
            /\ IsInjective(L) /\ Range(L) = U
            /\ \A i \in 1..N : /\ L[i] = next[i - 1] /\ L[i] \in U
                               /\ Range(g[i - 1]) = {L[j] : j \in 1..(i - 1)}
    BY <1>8 DEF Lists
  <2> QED
    BY <2>1, <2>2
<1> HIDE DEF M, N
<1>10. ASSUME NEW i \in DOMAIN M, NEW j \in DOMAIN M, NEW k \in DOMAIN legs,
              M[i] \in legs[k], M[j] \in legs[k], M[i] < M[j]
       PROVE  i < j
  <2> SUFFICES ASSUME ~(i < j) PROVE FALSE
    OBVIOUS
  <2>1. i \in 1..N /\ j \in 1..N /\ i # j
    <3>1. M[i] \in Nat
      BY <1>10 DEF AreLegs
    <3> QED
      BY <1>9, <1>10, <3>1
  <2>2. j < i /\ j - 1 \in Nat
    <3> HIDE DEF next
    <3>1. N \in Nat
      BY <1>9
    <3>2. i \in Nat /\ j \in Nat /\ j >= 1
      BY <2>1, <3>1
    <3>3. \A a, b \in Nat : a # b /\ ~(a < b) => b < a
      OBVIOUS
    <3>4. j < i
      BY <2>1, <3>2, <3>3
    <3>5. j - 1 \in Nat
      BY <3>2
    <3> QED
      BY <3>4, <3>5
  <2> DEFINE left == U \ Range(g[j - 1])
  <2>3. M[j] = NextStop(legs, left)
    BY <1>9, <2>1, <2>2
  <2>4. M[i] \in left
    <3>1. M[i] \notin {M[l] : l \in 1..(j - 1)}
      <4>1. \A l \in 1..(j - 1) : l \in DOMAIN M /\ l # i
        BY <1>9, <2>1, <2>2
      <4> QED
        BY <1>9, <4>1 DEF IsInjective
    <3> QED
      BY <1>9, <2>1, <3>1
  <2>5. left \subseteq U /\ left # {}
    BY <2>4
  <2> HIDE DEF left
  <2>6. NextStop(legs, left) <= M[i]
    BY <1>10, <2>3, <2>4, <2>5, NextStopIsLeast DEF U
  <2>7. M[i] \in Nat /\ M[j] \in Nat
    BY <1>10 DEF AreLegs
  <2> QED
    BY <1>10, <2>3, <2>6, <2>7
<1> QED
  BY <1>9, <1>10 DEF M, U

\* The travel times a plan asks for are there, and are numbers.
SecondsKnown ==
  /\ here \in DOMAIN seconds /\ QuestZones \subseteq DOMAIN seconds
  /\ \A o \in DOMAIN seconds : \A d \in QuestZones : seconds[o][d] \in Nat

\* A plan: the quests of the request that are not left out, each once, and
\* within a zone in their topological order.
LEMMA PlanLists ==
  ASSUME library \in Libraries, ~IsCyclic, SecondsKnown, NEW request \in SUBSET Ids,
         NEW origin \in {here, NoZone}
  PROVE  LET plan == OptimizeQuestRoute(request, origin)
             P == request \ Skipped(request)
         IN  /\ Range(plan) = P /\ IsInjective(plan) /\ DOMAIN plan \subseteq Nat
             /\ \A i \in DOMAIN plan : \A p \in Prerequisites(plan[i]) \cap P :
                  \E j \in DOMAIN plan : plan[j] = p /\ (Q(p).zone = Q(plan[i]).zone => j < i)
<1> DEFINE P == request \ Skipped(request)
           order == TopologicalOrder(P)
           zones == OrderZones(order, origin)
           legs == [k \in DOMAIN zones |-> Leg(order, zones[k])]
           places == Merged(legs)
           plan == OptimizeQuestRoute(request, origin)
<1>1. /\ order \in Seq(P) /\ IsInjective(order) /\ Range(order) = P
      /\ Len(order) \in Nat /\ DOMAIN order = 1..Len(order)
      /\ \A i \in 1..Len(order) : Prerequisites(order[i]) \cap P \subseteq {order[j] : j \in 1..(i - 1)}
  <2> DEFINE ids == P
  <2>1. ids \in SUBSET Ids
    OBVIOUS
  <2> HIDE DEF ids
  <2>2. LET L == TopologicalOrder(ids)
        IN  /\ L \in Seq(ids) /\ IsInjective(L) /\ Range(L) = ids
            /\ Len(L) \in Nat /\ DOMAIN L = 1..Len(L)
            /\ \A i \in 1..Len(L) :
                 Prerequisites(L[i]) \cap ids \subseteq {L[j] : j \in 1..(i - 1)}
    BY <2>1, OrderIsTopological
  <2> QED
    BY <2>2 DEF ids
<1>2. P \subseteq Ids /\ \A id \in P : Q(id).zone \in QuestZones
  BY DEF Skipped, QuestZones
<1>3. plan = [n \in DOMAIN places |-> order[places[n]]]
  BY DEF OptimizeQuestRoute
<1> HIDE DEF P, order, plan
<1>4. \A i \in DOMAIN order : order[i] \in P
  BY <1>1 DEF Range
<1>5. ZonesOf(order) \subseteq QuestZones
  BY <1>2, <1>4 DEF ZonesOf
<1>6. /\ zones \in Seq(ZonesOf(order)) /\ IsInjective(zones)
      /\ Range(zones) = ZonesOf(order)
      /\ Len(zones) \in Nat /\ DOMAIN zones = 1..Len(zones)
  <2>1. DOMAIN order \subseteq Nat
    BY <1>1
  <2>2. IsFiniteSet(DOMAIN order)
    <3>1. 1 \in Int /\ Len(order) \in Int
      BY <1>1
    <3>2. IsFiniteSet(1..Len(order))
      BY <3>1, FS_Interval
    <3> QED
      BY <1>1, <3>2
  <2>3. \A at \in ZonesOf(order) \cup ({origin} \ {NoZone}) : \A z \in ZonesOf(order) : seconds[at][z] \in Nat
    BY <1>5 DEF SecondsKnown
  <2>4. ZonesOf(order) # {} => 1 \in DOMAIN order
    BY <1>1 DEF ZonesOf
  <2> QED
    BY <2>1, <2>2, <2>3, <2>4, OrderZonesLists
<1> HIDE DEF zones
<1>7. /\ DOMAIN legs = DOMAIN zones
      /\ \A k \in DOMAIN legs : legs[k] = {i \in DOMAIN order : Q(order[i]).zone = zones[k]}
  BY DEF Leg
<1> HIDE DEF legs
<1>8. AreLegs(legs)
  <2>1. DOMAIN legs \subseteq Nat /\ \A k \in DOMAIN legs : legs[k] \subseteq Nat
    BY <1>1, <1>6, <1>7
  <2>2. \A k, l \in DOMAIN legs : k # l => legs[k] \cap legs[l] = {}
    BY <1>6, <1>7 DEF IsInjective
  <2> QED
    BY <2>1, <2>2 DEF AreLegs
<1>9. UNION Range(legs) = DOMAIN order
  <2>1. \A i \in DOMAIN order : \E k \in DOMAIN legs : i \in legs[k]
    <3> TAKE i \in DOMAIN order
    <3>1. Q(order[i]).zone \in Range(zones)
      BY <1>6 DEF ZonesOf
    <3>2. PICK k \in DOMAIN zones : zones[k] = Q(order[i]).zone
      BY <3>1 DEF Range
    <3> QED
      BY <1>7, <3>2
  <2>2. \A k \in DOMAIN legs : legs[k] \subseteq DOMAIN order
    BY <1>7
  <2> QED
    BY <2>1, <2>2 DEF Range
<1>10. /\ IsInjective(places) /\ Range(places) = DOMAIN order
       /\ Len(places) \in Nat /\ DOMAIN places = 1..Len(places)
       /\ \A i, j \in DOMAIN places, k \in DOMAIN legs :
            places[i] \in legs[k] /\ places[j] \in legs[k] /\ places[i] < places[j] => i < j
  <2>1. IsFiniteSet(UNION Range(legs))
    <3>1. 1 \in Int /\ Len(order) \in Int
      BY <1>1
    <3>2. IsFiniteSet(1..Len(order))
      BY <3>1, FS_Interval
    <3> QED
      BY <1>1, <1>9, <3>2
  <2>2. /\ IsInjective(places) /\ Range(places) = UNION Range(legs)
        /\ Len(places) \in Nat /\ DOMAIN places = 1..Len(places)
        /\ \A i, j \in DOMAIN places, k \in DOMAIN legs :
             places[i] \in legs[k] /\ places[j] \in legs[k] /\ places[i] < places[j] => i < j
    BY <1>8, <2>1, MergedLists
  <2> QED
    BY <1>9, <2>2
<1> HIDE DEF places
<1>11. DOMAIN plan = DOMAIN places /\ \A n \in DOMAIN places : /\ plan[n] = order[places[n]]
                                                              /\ places[n] \in DOMAIN order
  BY <1>3, <1>10 DEF Range
<1>12. Range(plan) = P
  <2>1. \A id \in P : \E n \in DOMAIN plan : plan[n] = id
    <3> TAKE id \in P
    <3>1. PICK i \in DOMAIN order : order[i] = id
      BY <1>1 DEF Range
    <3>2. PICK n \in DOMAIN places : places[n] = i
      BY <1>10 DEF Range
    <3> QED
      BY <1>11, <3>1, <3>2
  <2>2. \A n \in DOMAIN plan : plan[n] \in P
    BY <1>4, <1>11
  <2> QED
    BY <2>1, <2>2 DEF Range
<1>13. IsInjective(plan)
  BY <1>1, <1>10, <1>11 DEF IsInjective
<1>14. ASSUME NEW i \in DOMAIN plan, NEW p \in Prerequisites(plan[i]) \cap P
       PROVE  \E j \in DOMAIN plan : plan[j] = p /\ (Q(p).zone = Q(plan[i]).zone => j < i)
  <2>1. places[i] \in 1..Len(order) /\ plan[i] = order[places[i]]
    BY <1>1, <1>11
  <2>2. PICK b \in 1..(places[i] - 1) : order[b] = p
    BY <1>1, <2>1
  <2>3. b \in DOMAIN order /\ b < places[i]
    BY <1>1, <2>1, <2>2
  <2>4. PICK j \in DOMAIN places : places[j] = b
    BY <1>10, <2>3 DEF Range
  <2>5. plan[j] = p
    BY <1>11, <2>2, <2>4
  <2>6. ASSUME Q(p).zone = Q(plan[i]).zone PROVE j < i
    <3>1. PICK k \in DOMAIN legs : b \in legs[k]
      BY <1>9, <2>3 DEF Range
    <3>2. places[i] \in legs[k]
      BY <1>1, <1>7, <2>1, <2>2, <2>3, <2>6, <3>1
    <3> QED
      BY <1>10, <1>11, <2>3, <2>4, <3>1, <3>2
  <2> QED
    BY <1>11, <2>4, <2>5, <2>6
<1> QED
  BY <1>10, <1>11, <1>12, <1>13, <1>14 DEF plan, P

\* What a plan promises of the quests that are left out, too.
LEMMA PlansAreSound ==
  ASSUME library \in Libraries, ~IsCyclic, SecondsKnown
  PROVE  PlanIsSound
<1> SUFFICES ASSUME NEW request \in Requests(Ids), NEW origin \in {here, NoZone}
             PROVE  LET plan == OptimizeQuestRoute(request, origin) IN
                    /\ Range(plan) = request \ Skipped(request)
                    /\ IsInjective(plan)
                    /\ \A i \in DOMAIN plan : \A p \in Prerequisites(plan[i]) \ completed :
                         \/ p \in Skipped(request)
                         \/ \E j \in DOMAIN plan : plan[j] = p /\ (j < i \/ Q(p).zone # Q(plan[i]).zone)
  BY DEF PlanIsSound
<1> DEFINE plan == OptimizeQuestRoute(request, origin)
           P == request \ Skipped(request)
<1>1. request \in SUBSET Ids
  BY RequestsAssumption DEF Ids
<1>2. /\ Range(plan) = P /\ IsInjective(plan) /\ DOMAIN plan \subseteq Nat
      /\ \A i \in DOMAIN plan : \A p \in Prerequisites(plan[i]) \cap P :
           \E j \in DOMAIN plan : plan[j] = p /\ (Q(p).zone = Q(plan[i]).zone => j < i)
  BY <1>1, PlanLists
<1> HIDE DEF plan
<1>3. ASSUME NEW i \in DOMAIN plan, NEW p \in Prerequisites(plan[i]) \ completed,
             p \notin Skipped(request)
      PROVE  \E j \in DOMAIN plan : plan[j] = p /\ (j < i \/ Q(p).zone # Q(plan[i]).zone)
  <2>1. plan[i] \in P
    BY <1>2 DEF Range
  <2>2. UnmetIn(request, plan[i]) = {}
    BY <2>1 DEF Skipped
  <2>3. p \in Prerequisites(plan[i]) \cap P
    BY <1>3, <2>2 DEF UnmetIn
  <2> QED
    BY <1>2, <2>3
<1> QED
  BY <1>2, <1>3 DEF plan

-----------------------------------------------------------------------------
(* Ways, nodes and the invariant of the search for a route.                *)
\* Edges by their position, with costs and ways of travel the router knows.
IsNetwork(network) ==
  /\ network \in Seq(Range(network))
  /\ \A e \in Range(network) : e.cost \in Nat /\ e.method \in DOMAIN Convenience

\* A way along some edges: the zone and the seconds after each of its steps.
At(steps, from, n) == IF n = 0 THEN from ELSE steps[n].edge.to
Passed(steps, n) == IF n = 0 THEN 0 ELSE steps[n].seconds

IsWay(steps, edges, from, to, passed) ==
  /\ steps \in Seq([edge : edges, seconds : Nat])
  /\ \A n \in 1..Len(steps) :
       /\ steps[n].edge.from = At(steps, from, n - 1)
       /\ steps[n].seconds = Passed(steps, n - 1) + steps[n].edge.cost
  /\ At(steps, from, Len(steps)) = to
  /\ Passed(steps, Len(steps)) = passed

\* The edges at some positions, and the zones a search along them may come to.
EdgesAt(network, open) == {network[k] : k \in open}
ZonesFrom(origin, network, open) == {origin} \cup {network[k].to : k \in open}

\* What a node and a state of the search are made of.
Nodes(origin, network, open) ==
  [zone : ZonesFrom(origin, network, open), seconds : Nat, effort : Nat, age : Nat,
   steps : Seq([edge : EdgesAt(network, open), seconds : Nat])]

Searches(origin, network, open) ==
  [frontier : SUBSET Nodes(origin, network, open), expanded : SUBSET Nodes(origin, network, open),
   age : Nat,
   answer : [found : BOOLEAN, steps : Seq([edge : EdgesAt(network, open), seconds : Nat]),
             seconds : Nat]]

\* Every edge of a network has a cost and an effort.
LEMMA EdgesHaveCosts ==
  ASSUME NEW network, IsNetwork(network)
  PROVE  /\ DOMAIN network = 1..Len(network) /\ Len(network) \in Nat
         /\ \A k \in DOMAIN network : /\ k \in Nat /\ network[k].cost \in Nat
                                      /\ Convenience[network[k].method] \in Nat
<1>1. network \in Seq(Range(network))
  BY DEF IsNetwork
<1>2. DOMAIN network = 1..Len(network) /\ Len(network) \in Nat
  BY <1>1
<1>3. \A m \in DOMAIN Convenience : Convenience[m] \in Nat
  BY DEF Convenience
<1>4. \A k \in DOMAIN network : network[k] \in Range(network)
  BY DEF Range
<1>5. \A k \in DOMAIN network : network[k].cost \in Nat /\ network[k].method \in DOMAIN Convenience
  BY <1>4 DEF IsNetwork
<1> QED
  BY <1>2, <1>3, <1>5

\* A way may go on along an edge that leaves its end.
LEMMA WayGoesOn ==
  ASSUME NEW edges, NEW from, NEW to, NEW passed \in Nat, NEW steps, IsWay(steps, edges, from, to, passed),
         NEW e \in edges, e.from = to, e.cost \in Nat
  PROVE  IsWay(Append(steps, [edge |-> e, seconds |-> passed + e.cost]), edges, from, e.to,
               passed + e.cost)
<1> DEFINE step == [edge |-> e, seconds |-> passed + e.cost]
           more == Append(steps, step)
           N == Len(steps)
<1>1. step \in [edge : edges, seconds : Nat] /\ step.edge = e /\ step.seconds = passed + e.cost
  OBVIOUS
<1>2. /\ steps \in Seq([edge : edges, seconds : Nat])
      /\ \A n \in 1..N : /\ steps[n].edge.from = At(steps, from, n - 1)
                         /\ steps[n].seconds = Passed(steps, n - 1) + steps[n].edge.cost
      /\ At(steps, from, N) = to /\ Passed(steps, N) = passed
  BY DEF IsWay
<1> DEFINE T == [edge : edges, seconds : Nat]
<1>3. steps \in Seq(T) /\ step \in T
  BY <1>1, <1>2
<1> HIDE DEF step, T, N
<1>4. /\ more \in Seq(T) /\ Len(more) = N + 1 /\ N \in Nat
      /\ \A n \in 1..N : more[n] = steps[n]
      /\ more[N + 1] = step
  BY <1>3 DEF N
<1> HIDE DEF more
<1>5. \A n \in 0..N : At(more, from, n) = At(steps, from, n) /\ Passed(more, n) = Passed(steps, n)
  BY <1>4 DEF At, Passed
<1>6. ASSUME NEW n \in 1..Len(more)
      PROVE  /\ more[n].edge.from = At(more, from, n - 1)
             /\ more[n].seconds = Passed(more, n - 1) + more[n].edge.cost
  <2>1. n - 1 \in 0..N
    BY <1>4
  <2>2. CASE n \in 1..N
    BY <1>2, <1>4, <1>5, <2>1, <2>2
  <2>3. CASE n = N + 1
    <3>1. n - 1 = N /\ N \in 0..N
      BY <1>4, <2>3
    <3>2. At(more, from, n - 1) = to /\ Passed(more, n - 1) = passed
      BY <1>2, <1>5, <3>1
    <3> QED
      BY <1>1, <1>4, <2>3, <3>2
  <2> QED
    BY <1>4, <2>2, <2>3
<1>7. At(more, from, Len(more)) = e.to /\ Passed(more, Len(more)) = passed + e.cost
  <2>1. Len(more) # 0 /\ more[Len(more)] = step
    BY <1>4
  <2> QED
    BY <1>1, <2>1 DEF At, Passed
<1> QED
  BY <1>4, <1>6, <1>7 DEF IsWay, T, more, step

\* Of some nodes one is first in the order of the heap.
LEMMA LeastIsFirst ==
  ASSUME NEW F, F # {}, \A a \in F : a.seconds \in Nat /\ a.effort \in Nat /\ a.age \in Nat
  PROVE  Least(F) \in F /\ \A b \in F : Before(Least(F), b)
<1> DEFINE T == {a.seconds : a \in F}
<1>1. PICK s \in T : \A t \in T : s <= t
  <2>1. T \subseteq Nat /\ T # {}
    OBVIOUS
  <2> HIDE DEF T
  <2> QED
    BY <2>1, LeastNat
<1> DEFINE F2 == {a \in F : a.seconds = s}
           U == {a.effort : a \in F2}
<1>2. PICK e \in U : \A t \in U : e <= t
  <2>1. U \subseteq Nat /\ U # {}
    OBVIOUS
  <2> HIDE DEF U
  <2> QED
    BY <2>1, LeastNat
<1> DEFINE F3 == {a \in F2 : a.effort = e}
           V == {a.age : a \in F3}
<1>3. PICK g \in V : \A t \in V : g <= t
  <2>1. V \subseteq Nat /\ V # {}
    OBVIOUS
  <2> HIDE DEF V
  <2> QED
    BY <2>1, LeastNat
<1>4. PICK a \in F : a.seconds = s /\ a.effort = e /\ a.age = g
  OBVIOUS
<1>5. \A b \in F : Before(a, b)
  <2> TAKE b \in F
  <2>0. /\ s \in Nat /\ e \in Nat /\ g \in Nat
        /\ b.seconds \in Nat /\ b.effort \in Nat /\ b.age \in Nat
    BY <1>4
  <2>1. s <= b.seconds
    BY <1>1
  <2>2. b.seconds = s => e <= b.effort
    BY <1>2
  <2>3. b.seconds = s /\ b.effort = e => g <= b.age
    BY <1>3
  <2> HIDE DEF T, F2, U, F3, V
  <2> QED
    BY <1>4, <2>0, <2>1, <2>2, <2>3 DEF Before
<1>6. \E x \in F : \A b \in F : Before(x, b)
  BY <1>5
<1> QED
  BY <1>6 DEF Least

\* Of the edges that lead from a node to one zone one is the best, and only one.
LEMMA BestEdge ==
  ASSUME NEW network, IsNetwork(network), NEW leaving, leaving \subseteq DOMAIN network, NEW k \in leaving
  PROVE  \E j \in leaving : /\ network[j].to = network[k].to
                            /\ network[j].cost <= network[k].cost
                            /\ IsBestOf(j, leaving, network)
<1>0. \A j \in leaving : j \in Nat /\ network[j].cost \in Nat
  BY EdgesHaveCosts
<1> DEFINE S == {j \in leaving : network[j].to = network[k].to}
           T == {network[j].cost : j \in S}
<1>1. PICK c \in T : \A t \in T : c <= t
  <2>1. T \subseteq Nat /\ T # {}
    BY <1>0
  <2> HIDE DEF T
  <2> QED
    BY <2>1, LeastNat
<1> DEFINE U == {j \in S : network[j].cost = c}
<1>2. PICK j \in U : \A i \in U : j <= i
  <2>1. U \subseteq Nat /\ U # {}
    BY <1>0
  <2> HIDE DEF U
  <2> QED
    BY <2>1, LeastNat
<1>3. IsBestOf(j, leaving, network)
  <2> SUFFICES ASSUME NEW i \in leaving, network[i].to = network[j].to
               PROVE  \/ network[j].cost < network[i].cost
                      \/ network[j].cost = network[i].cost /\ j <= i
    BY DEF IsBestOf
  <2>1. i \in S /\ c <= network[i].cost /\ c \in Nat /\ network[i].cost \in Nat
    BY <1>0, <1>1
  <2>2. network[i].cost = c => j <= i
    BY <1>2, <2>1
  <2>3. network[j].cost = c
    OBVIOUS
  <2> HIDE DEF S, T, U
  <2> QED
    BY <2>1, <2>2, <2>3
<1>4. c <= network[k].cost
  BY <1>1
<1> QED
  BY <1>3, <1>4

\* One edge at most is the best to a zone.
LEMMA BestEdgeIsUnique ==
  ASSUME NEW network, IsNetwork(network), NEW leaving, leaving \subseteq DOMAIN network,
         NEW j \in leaving, NEW k \in leaving, network[j].to = network[k].to,
         IsBestOf(j, leaving, network), IsBestOf(k, leaving, network)
  PROVE  j = k
<1>1. \A i \in leaving : i \in Nat /\ network[i].cost \in Nat
  BY EdgesHaveCosts
<1>2. /\ network[j].cost < network[k].cost \/ (network[j].cost = network[k].cost /\ j <= k)
      /\ network[k].cost < network[j].cost \/ (network[k].cost = network[j].cost /\ k <= j)
  BY DEF IsBestOf
<1>3. j \in Nat /\ k \in Nat /\ network[j].cost \in Nat /\ network[k].cost \in Nat
  BY <1>1
<1> QED
  BY <1>2, <1>3

\* What expanding a node does: the edges that improve, and the nodes they give.
Leaving(node, network, open) == {k \in open : network[k].from = node.zone}
Improves(k, s, node, network, open) ==
  /\ k \in Leaving(node, network, open)
  /\ \A a \in s.frontier \cup s.expanded :
       a.zone = network[k].to => node.seconds + network[k].cost < a.seconds
  /\ IsBestOf(k, Leaving(node, network, open), network)

Given(k, s, node, network) == Via(node, network[k], s.age + k)
Pushes(s, node, network, open) ==
  {Given(k, s, node, network) : k \in {j \in open : Improves(j, s, node, network, open)}}

\* Expanding a node, in these terms.
LEMMA Expanding ==
  ASSUME NEW s, NEW node \in s.frontier, NEW network, NEW open
  PROVE  LET pushed == Pushes(s, node, network, open)
             t == Relax(s, node, network, open)
         IN  /\ t.frontier = {a \in s.frontier \ {node} : \A b \in pushed : a.zone # b.zone} \cup pushed
             /\ t.expanded = s.expanded \cup {node}
             /\ t.age = s.age + Len(network)
             /\ t.answer = s.answer
             /\ t = [frontier |-> t.frontier, expanded |-> t.expanded, age |-> t.age,
                     answer |-> t.answer]
<1> DEFINE leaving == {k \in open : network[k].from = node.zone}
           improving == {k \in leaving :
             /\ \A a \in s.frontier \cup s.expanded :
                  a.zone = network[k].to => node.seconds + network[k].cost < a.seconds
             /\ IsBestOf(k, leaving, network)}
           pushed == {Via(node, network[k], s.age + k) : k \in improving}
<1>1. improving = {j \in open : Improves(j, s, node, network, open)}
  BY DEF Improves, Leaving
<1>2. pushed = Pushes(s, node, network, open)
  BY <1>1 DEF Pushes, Given
<1>3. Relax(s, node, network, open) =
        [frontier |-> {a \in s.frontier \ {node} : \A b \in pushed : a.zone # b.zone} \cup pushed,
         expanded |-> s.expanded \cup {node},
         age |-> s.age + Len(network), answer |-> s.answer]
  BY DEF Relax
<1> HIDE DEF pushed
<1> QED
  BY <1>2, <1>3

\* The nodes of the zones that have been reached.
KnownTo(s) == s.frontier \cup s.expanded

\* The nodes are ways that can be gone, one for each zone that has been reached.
NodesAreWays(s, origin, network, open) ==
  /\ \A a \in KnownTo(s) : IsWay(a.steps, EdgesAt(network, open), origin, a.zone, a.seconds)
  /\ \A a, b \in KnownTo(s) : a.zone = b.zone => a = b
  /\ s.frontier \cap s.expanded = {}

\* What is expanded is not farther than what is not, and not the destination.
ExpandedIsNearest(s, destination) ==
  \A x \in s.expanded : x.zone # destination /\ \A f \in s.frontier : x.seconds <= f.seconds

\* Where the edges lead that leave an expanded node there is a node, as near.
ExpandedIsRelaxed(s, network, open) ==
  \A x \in s.expanded, k \in open : network[k].from = x.zone =>
    \E a \in KnownTo(s) : a.zone = network[k].to /\ a.seconds <= x.seconds + network[k].cost

OriginIsKnown(s, origin) == \E a \in KnownTo(s) : a.zone = origin /\ a.seconds = 0

\* The answer is the least node, at the destination.
AnswerIsNearest(s, destination) ==
  s.answer.found => \E a \in s.frontier :
    /\ a.zone = destination /\ a.steps = s.answer.steps /\ a.seconds = s.answer.seconds
    /\ \A b \in s.frontier : a.seconds <= b.seconds

\* The inductive invariant of the search for a route.
RouteInv(s, origin, destination, network, open) ==
  /\ s \in Searches(origin, network, open)
  /\ NodesAreWays(s, origin, network, open)
  /\ ExpandedIsNearest(s, destination) /\ ExpandedIsRelaxed(s, network, open)
  /\ OriginIsKnown(s, origin) /\ AnswerIsNearest(s, destination)

-----------------------------------------------------------------------------
\* A node is a record of numbers, a zone and steps.
LEMMA NodesAreTyped ==
  ASSUME NEW origin, NEW network, NEW open, NEW s \in Searches(origin, network, open)
  PROVE  /\ s.frontier \subseteq Nodes(origin, network, open)
         /\ s.expanded \subseteq Nodes(origin, network, open)
         /\ s.age \in Nat /\ s.answer.found \in BOOLEAN /\ s.answer.seconds \in Nat
         /\ \A a \in KnownTo(s) : a.seconds \in Nat /\ a.effort \in Nat /\ a.age \in Nat
         /\ s = [frontier |-> s.frontier, expanded |-> s.expanded, age |-> s.age,
                 answer |-> s.answer]
BY DEF Searches, Nodes, KnownTo

\* The nodes a node pushes are on no expanded zone, one for each zone, nearer
\* than what they overtake, and as near as the edges say.
PushesWell(pushed, s, node, origin, network, open) ==
  /\ \A b \in pushed :
       /\ b \in Nodes(origin, network, open) /\ node.seconds <= b.seconds
       /\ IsWay(b.steps, EdgesAt(network, open), origin, b.zone, b.seconds)
       /\ \A a \in KnownTo(s) : a.zone = b.zone => b.seconds < a.seconds
       /\ \A x \in s.expanded \cup {node} : x.zone # b.zone
  /\ \A b, d \in pushed : b.zone = d.zone => b = d
  /\ \A k \in Leaving(node, network, open) : \E a \in pushed \cup KnownTo(s) :
       a.zone = network[k].to /\ a.seconds <= node.seconds + network[k].cost

\* What the least node of the frontier pushes is well pushed.
LEMMA PushedNodes ==
  ASSUME NEW origin, NEW destination, NEW network, IsNetwork(network),
         NEW open, open \subseteq DOMAIN network, NEW s,
         RouteInv(s, origin, destination, network, open),
         NEW node \in s.frontier, \A b \in s.frontier : node.seconds <= b.seconds
  PROVE  PushesWell(Pushes(s, node, network, open), s, node, origin, network, open)
<1> DEFINE pushed == Pushes(s, node, network, open)
           leaving == Leaving(node, network, open)
<1>1. /\ s \in Searches(origin, network, open)
      /\ NodesAreWays(s, origin, network, open) /\ ExpandedIsNearest(s, destination)
  BY DEF RouteInv
<1>2. /\ s.frontier \subseteq Nodes(origin, network, open)
      /\ s.expanded \subseteq Nodes(origin, network, open)
      /\ s.age \in Nat
      /\ \A a \in KnownTo(s) : a.seconds \in Nat /\ a.effort \in Nat /\ a.age \in Nat
  BY <1>1, NodesAreTyped
<1>3. /\ leaving \subseteq open /\ leaving \subseteq DOMAIN network
      /\ \A k \in leaving : network[k].from = node.zone
      /\ \A k \in DOMAIN network : /\ k \in Nat /\ network[k].cost \in Nat
                                   /\ Convenience[network[k].method] \in Nat
  BY EdgesHaveCosts DEF Leaving
<1>4. node \in KnownTo(s) /\ s.frontier \subseteq KnownTo(s) /\ s.expanded \subseteq KnownTo(s)
  BY DEF KnownTo
<1>5. /\ IsWay(node.steps, EdgesAt(network, open), origin, node.zone, node.seconds)
      /\ node.seconds \in Nat /\ node.effort \in Nat
  BY <1>1, <1>2, <1>4 DEF NodesAreWays
<1>6. ASSUME NEW b \in pushed
      PROVE  \E k \in leaving :
               /\ Improves(k, s, node, network, open)
               /\ b = Via(node, network[k], s.age + k)
               /\ b.zone = network[k].to /\ b.seconds = node.seconds + network[k].cost
               /\ b \in Nodes(origin, network, open)
               /\ IsWay(b.steps, EdgesAt(network, open), origin, b.zone, b.seconds)
  <2>1. PICK k \in open : Improves(k, s, node, network, open) /\ b = Via(node, network[k], s.age + k)
    BY DEF Pushes, Given
  <2>2. k \in leaving /\ network[k].from = node.zone
    BY <1>3, <2>1 DEF Improves
  <2> DEFINE e == network[k]
  <2>3. e \in EdgesAt(network, open) /\ e.cost \in Nat /\ Convenience[e.method] \in Nat /\ k \in Nat
    BY <1>3, <2>2 DEF EdgesAt
  <2>4. e.from = node.zone /\ e.to \in ZonesFrom(origin, network, open)
    BY <2>2 DEF ZonesFrom
  <2> HIDE DEF e
  <2>5. IsWay(Append(node.steps, [edge |-> e, seconds |-> node.seconds + e.cost]),
              EdgesAt(network, open), origin, e.to, node.seconds + e.cost)
    BY <1>5, <2>3, <2>4, WayGoesOn
  <2>6. /\ b.zone = e.to /\ b.seconds = node.seconds + e.cost
        /\ b.steps = Append(node.steps, [edge |-> e, seconds |-> node.seconds + e.cost])
        /\ b = [zone |-> b.zone, seconds |-> b.seconds, effort |-> node.effort + Convenience[e.method],
                age |-> s.age + k, steps |-> b.steps]
    BY <2>1 DEF Via, e
  <2>7. IsWay(b.steps, EdgesAt(network, open), origin, b.zone, b.seconds)
    BY <2>5, <2>6
  <2>8. b.steps \in Seq([edge : EdgesAt(network, open), seconds : Nat])
    BY <2>7 DEF IsWay
  <2>9. /\ b.seconds \in Nat /\ node.effort + Convenience[e.method] \in Nat /\ s.age + k \in Nat
    <3>1. node.seconds \in Nat /\ node.effort \in Nat /\ s.age \in Nat
      BY <1>2, <1>5
    <3>2. b.seconds = node.seconds + e.cost
      BY <2>6
    <3> HIDE DEF pushed, leaving
    <3>3. b.seconds \in Nat
      BY <2>3, <3>1, <3>2
    <3>4. node.effort + Convenience[e.method] \in Nat
      BY <2>3, <3>1
    <3>5. s.age + k \in Nat
      BY <2>3, <3>1
    <3> QED
      BY <3>3, <3>4, <3>5
  <2>10. b \in Nodes(origin, network, open)
    <3> DEFINE Z == ZonesFrom(origin, network, open)
               S == Seq([edge : EdgesAt(network, open), seconds : Nat])
               z == b.zone
               n == b.seconds
               m == node.effort + Convenience[e.method]
               g == s.age + k
               p == b.steps
    <3>1. z \in Z /\ n \in Nat /\ m \in Nat /\ g \in Nat /\ p \in S
      BY <2>4, <2>6, <2>8, <2>9
    <3>2. b = [zone |-> z, seconds |-> n, effort |-> m, age |-> g, steps |-> p]
      BY <2>6
    <3>3. Nodes(origin, network, open) = [zone : Z, seconds : Nat, effort : Nat, age : Nat, steps : S]
      BY DEF Nodes
    <3> HIDE DEF Z, S, z, n, m, g, p
    <3> QED
      BY <3>1, <3>2, <3>3
  <2> QED
    BY <2>1, <2>2, <2>6, <2>7, <2>10 DEF e
<1> HIDE DEF leaving
<1>7. ASSUME NEW b \in pushed
      PROVE  /\ b \in Nodes(origin, network, open) /\ node.seconds <= b.seconds
             /\ IsWay(b.steps, EdgesAt(network, open), origin, b.zone, b.seconds)
             /\ \A a \in KnownTo(s) : a.zone = b.zone => b.seconds < a.seconds
             /\ \A x \in s.expanded \cup {node} : x.zone # b.zone
  <2>1. PICK k \in leaving :
               /\ Improves(k, s, node, network, open)
               /\ b.zone = network[k].to /\ b.seconds = node.seconds + network[k].cost
               /\ b \in Nodes(origin, network, open)
               /\ IsWay(b.steps, EdgesAt(network, open), origin, b.zone, b.seconds)
    BY <1>6
  <2>2. network[k].cost \in Nat
    BY <1>3
  <2>3. node.seconds <= b.seconds
    BY <1>5, <2>1, <2>2
  <2>4. \A a \in KnownTo(s) : a.zone = b.zone => b.seconds < a.seconds
    BY <2>1 DEF Improves, KnownTo
  <2>5. ASSUME NEW x \in s.expanded \cup {node} PROVE x.zone # b.zone
    <3>1. x \in KnownTo(s) /\ x.seconds <= node.seconds
      BY <1>1, <1>4, <1>5 DEF ExpandedIsNearest
    <3>2. x.seconds \in Nat /\ b.seconds \in Nat
      BY <1>2, <1>5, <2>1, <2>2, <3>1
    <3> QED
      BY <1>5, <2>3, <2>4, <3>1, <3>2
  <2> QED
    BY <2>1, <2>3, <2>4, <2>5
<1>8. ASSUME NEW b \in pushed, NEW d \in pushed, b.zone = d.zone PROVE b = d
  <2>1. PICK k \in leaving : /\ Improves(k, s, node, network, open)
                             /\ b = Via(node, network[k], s.age + k)
                             /\ b.zone = network[k].to
    BY <1>6
  <2>2. PICK j \in leaving : /\ Improves(j, s, node, network, open)
                             /\ d = Via(node, network[j], s.age + j)
                             /\ d.zone = network[j].to
    BY <1>6
  <2>3. IsBestOf(k, leaving, network) /\ IsBestOf(j, leaving, network)
    BY <2>1, <2>2 DEF Improves, leaving
  <2>4. j = k
    BY <1>3, <1>8, <2>1, <2>2, <2>3, BestEdgeIsUnique
  <2> QED
    BY <2>1, <2>2, <2>4
<1>9. ASSUME NEW k \in leaving
      PROVE  \E a \in pushed \cup KnownTo(s) :
               a.zone = network[k].to /\ a.seconds <= node.seconds + network[k].cost
  <2>0. network[k].cost \in Nat
    BY <1>3
  <2>1. CASE \E a \in KnownTo(s) : a.zone = network[k].to /\ ~(node.seconds + network[k].cost < a.seconds)
    BY <1>2, <1>5, <2>0, <2>1
  <2>2. CASE \A a \in KnownTo(s) : a.zone = network[k].to => node.seconds + network[k].cost < a.seconds
    <3>1. PICK j \in leaving : /\ network[j].to = network[k].to /\ network[j].cost <= network[k].cost
                               /\ IsBestOf(j, leaving, network)
      BY <1>3, BestEdge
    <3>2. network[j].cost \in Nat /\ j \in open
      BY <1>3
    <3>3. \A a \in KnownTo(s) : a.zone = network[j].to => node.seconds + network[j].cost < a.seconds
      BY <1>2, <1>5, <2>0, <2>2, <3>1, <3>2
    <3>4. Improves(j, s, node, network, open)
      BY <3>1, <3>3 DEF Improves, leaving, KnownTo
    <3>5. Via(node, network[j], s.age + j) \in pushed
      BY <3>2, <3>4 DEF Pushes, Given
    <3>6. Via(node, network[j], s.age + j).zone = network[j].to
          /\ Via(node, network[j], s.age + j).seconds = node.seconds + network[j].cost
      BY DEF Via
    <3>7. node.seconds + network[j].cost <= node.seconds + network[k].cost
      BY <1>5, <2>0, <3>1, <3>2
    <3> HIDE DEF pushed
    <3> QED
      BY <3>1, <3>5, <3>6, <3>7
  <2> QED
    BY <2>1, <2>2
<1> QED
  BY <1>7, <1>8, <1>9 DEF leaving, PushesWell

-----------------------------------------------------------------------------
(* The search for a route: each turn keeps the invariant, and the last turn *)
(* has answered.                                                           *)
\* Expanding the least node keeps the invariant.
LEMMA ExpandingKeeps ==
  ASSUME NEW origin, NEW destination, NEW network, IsNetwork(network),
         NEW open, open \subseteq DOMAIN network, NEW s,
         RouteInv(s, origin, destination, network, open), ~s.answer.found,
         NEW node \in s.frontier, \A b \in s.frontier : node.seconds <= b.seconds,
         node.zone # destination
  PROVE  LET t == Relax(s, node, network, open)
         IN  RouteInv(t, origin, destination, network, open) /\ t.expanded = s.expanded \cup {node}
<1> DEFINE pushed == Pushes(s, node, network, open)
           t == Relax(s, node, network, open)
           kept == {a \in s.frontier \ {node} : \A b \in pushed : a.zone # b.zone}
<1>1. /\ t.frontier = kept \cup pushed /\ t.expanded = s.expanded \cup {node}
      /\ t.age = s.age + Len(network) /\ t.answer = s.answer
      /\ t = [frontier |-> t.frontier, expanded |-> t.expanded, age |-> t.age, answer |-> t.answer]
  BY Expanding
<1>2. /\ \A b \in pushed :
           /\ b \in Nodes(origin, network, open) /\ node.seconds <= b.seconds
           /\ IsWay(b.steps, EdgesAt(network, open), origin, b.zone, b.seconds)
           /\ \A a \in KnownTo(s) : a.zone = b.zone => b.seconds < a.seconds
           /\ \A x \in s.expanded \cup {node} : x.zone # b.zone
      /\ \A b, d \in pushed : b.zone = d.zone => b = d
      /\ \A k \in Leaving(node, network, open) : \E a \in pushed \cup KnownTo(s) :
           a.zone = network[k].to /\ a.seconds <= node.seconds + network[k].cost
  <2>1. PushesWell(pushed, s, node, origin, network, open)
    BY PushedNodes
  <2> HIDE DEF pushed
  <2> QED
    BY <2>1 DEF PushesWell
<1>3. /\ s \in Searches(origin, network, open)
      /\ NodesAreWays(s, origin, network, open)
      /\ ExpandedIsNearest(s, destination) /\ ExpandedIsRelaxed(s, network, open)
      /\ OriginIsKnown(s, origin)
  BY DEF RouteInv
<1>4. /\ s.frontier \subseteq Nodes(origin, network, open)
      /\ s.expanded \subseteq Nodes(origin, network, open)
      /\ s.age \in Nat
      /\ \A a \in KnownTo(s) : a.seconds \in Nat /\ a.effort \in Nat /\ a.age \in Nat
  BY <1>3, NodesAreTyped
<1> HIDE DEF pushed, t
<1>5. /\ kept \subseteq s.frontier /\ node \notin kept
      /\ \A a \in kept, b \in pushed : a.zone # b.zone
      /\ KnownTo(t) = kept \cup pushed \cup s.expanded \cup {node}
      /\ \A a \in KnownTo(t) : a \in KnownTo(s) \/ a \in pushed
  BY <1>1 DEF KnownTo
<1>6. ASSUME NEW a \in KnownTo(s)
      PROVE  a \in KnownTo(t) \/ \E b \in pushed : b.zone = a.zone /\ b.seconds < a.seconds
  <2>1. CASE a \in kept \cup s.expanded \cup {node}
    BY <1>5, <2>1
  <2>2. CASE a \notin kept \cup s.expanded \cup {node}
    <3>1. a \in s.frontier \ {node}
      BY <2>2 DEF KnownTo
    <3>2. PICK b \in pushed : a.zone = b.zone
      BY <2>2, <3>1
    <3> QED
      BY <1>2, <3>2
  <2> QED
    BY <2>1, <2>2
<1> HIDE DEF kept
<1>7. \A b \in pushed : b \in KnownTo(t) /\ b.seconds \in Nat
  BY <1>2, <1>5 DEF Nodes
<1>8. t \in Searches(origin, network, open)
  <2>1. /\ t.frontier \subseteq Nodes(origin, network, open)
        /\ t.expanded \subseteq Nodes(origin, network, open)
    BY <1>1, <1>2, <1>4, <1>5
  <2>2. t.age \in Nat
    BY <1>1, <1>4, EdgesHaveCosts
  <2>3. t.answer \in [found : BOOLEAN, steps : Seq([edge : EdgesAt(network, open), seconds : Nat]),
                      seconds : Nat]
    BY <1>1, <1>3 DEF Searches
  <2> DEFINE N == Nodes(origin, network, open)
             A == [found : BOOLEAN, steps : Seq([edge : EdgesAt(network, open), seconds : Nat]),
                   seconds : Nat]
             f == t.frontier
             x == t.expanded
             g == t.age
             w == t.answer
  <2>4. f \in SUBSET N /\ x \in SUBSET N /\ g \in Nat /\ w \in A
    BY <2>1, <2>2, <2>3
  <2>5. t = [frontier |-> f, expanded |-> x, age |-> g, answer |-> w]
    BY <1>1
  <2>6. Searches(origin, network, open) =
          [frontier : SUBSET N, expanded : SUBSET N, age : Nat, answer : A]
    BY DEF Searches
  <2> HIDE DEF N, A, f, x, g, w
  <2> QED
    BY <2>4, <2>5, <2>6
<1>9. NodesAreWays(t, origin, network, open)
  <2>1. ASSUME NEW a \in KnownTo(t)
        PROVE  IsWay(a.steps, EdgesAt(network, open), origin, a.zone, a.seconds)
    BY <1>2, <1>3, <1>5 DEF NodesAreWays
  <2>2. ASSUME NEW a \in kept \cup s.expanded \cup {node}, NEW b \in pushed PROVE a.zone # b.zone
    BY <1>2, <1>5
  <2>3. ASSUME NEW a \in KnownTo(t), NEW b \in KnownTo(t), a.zone = b.zone PROVE a = b
    <3>1. CASE a \in pushed /\ b \in pushed
      BY <1>2, <2>3, <3>1
    <3>2. CASE a \notin pushed /\ b \notin pushed
      <4>1. a \in KnownTo(s) /\ b \in KnownTo(s)
        BY <1>5, <3>2
      <4> QED
        BY <1>3, <2>3, <4>1 DEF NodesAreWays
    <3>3. CASE a \in pushed /\ b \notin pushed
      BY <1>5, <2>2, <2>3, <3>3
    <3>4. CASE a \notin pushed /\ b \in pushed
      BY <1>5, <2>2, <2>3, <3>4
    <3> QED
      BY <3>1, <3>2, <3>3, <3>4
  <2>4. t.frontier \cap t.expanded = {}
    <3>1. kept \cap (s.expanded \cup {node}) = {}
      BY <1>3, <1>5 DEF NodesAreWays
    <3>2. pushed \cap (s.expanded \cup {node}) = {}
      BY <1>2
    <3> QED
      BY <1>1, <3>1, <3>2
  <2> QED
    BY <2>1, <2>3, <2>4 DEF NodesAreWays
<1>10. ExpandedIsNearest(t, destination)
  <2> SUFFICES ASSUME NEW x \in t.expanded
               PROVE  x.zone # destination /\ \A f \in t.frontier : x.seconds <= f.seconds
    BY DEF ExpandedIsNearest
  <2>1. x \in s.expanded \/ x = node
    BY <1>1
  <2>2. x.zone # destination
    BY <1>3, <2>1 DEF ExpandedIsNearest
  <2>3. x.seconds \in Nat /\ node.seconds \in Nat /\ x.seconds <= node.seconds
    BY <1>3, <1>4, <2>1 DEF ExpandedIsNearest, KnownTo
  <2>4. ASSUME NEW f \in t.frontier PROVE x.seconds <= f.seconds
    <3>1. node.seconds <= f.seconds /\ f.seconds \in Nat
      BY <1>1, <1>2, <1>4, <1>5, <1>7 DEF KnownTo
    <3> QED
      BY <2>3, <3>1
  <2> QED
    BY <2>2, <2>4
<1>11. ASSUME NEW a \in KnownTo(s)
       PROVE  \E b \in KnownTo(t) : b.zone = a.zone /\ b.seconds <= a.seconds
  <2>1. a.seconds \in Nat
    BY <1>4
  <2>2. CASE a \in KnownTo(t)
    BY <2>1, <2>2
  <2>3. CASE \E b \in pushed : b.zone = a.zone /\ b.seconds < a.seconds
    BY <1>7, <2>1, <2>3
  <2> QED
    BY <1>6, <2>2, <2>3
<1>12. ExpandedIsRelaxed(t, network, open)
  <2> SUFFICES ASSUME NEW x \in t.expanded, NEW k \in open, network[k].from = x.zone
               PROVE  \E a \in KnownTo(t) : a.zone = network[k].to /\ a.seconds <= x.seconds + network[k].cost
    BY DEF ExpandedIsRelaxed
  <2>1. x \in KnownTo(s) /\ x.seconds \in Nat /\ network[k].cost \in Nat
    BY <1>1, <1>4, EdgesHaveCosts DEF KnownTo
  <2>2. \E a \in pushed \cup KnownTo(s) :
          a.zone = network[k].to /\ a.seconds <= x.seconds + network[k].cost
    <3>1. CASE x \in s.expanded
      BY <1>3, <3>1 DEF ExpandedIsRelaxed
    <3>2. CASE x = node
      BY <1>2, <3>2 DEF Leaving
    <3> QED
      BY <1>1, <3>1, <3>2
  <2>3. PICK a \in pushed \cup KnownTo(s) :
          a.zone = network[k].to /\ a.seconds <= x.seconds + network[k].cost
    BY <2>2
  <2>4. CASE a \in pushed
    BY <1>7, <2>3, <2>4
  <2>5. CASE a \in KnownTo(s)
    <3>1. PICK b \in KnownTo(t) : b.zone = a.zone /\ b.seconds <= a.seconds
      BY <1>11, <2>5
    <3>2. a.seconds \in Nat /\ b.seconds \in Nat
      BY <1>4, <1>5, <1>7, <2>5
    <3> QED
      BY <2>1, <2>3, <3>1, <3>2
  <2> QED
    BY <2>4, <2>5
<1>13. OriginIsKnown(t, origin)
  <2>1. PICK a \in KnownTo(s) : a.zone = origin /\ a.seconds = 0
    BY <1>3 DEF OriginIsKnown
  <2>2. PICK b \in KnownTo(t) : b.zone = origin /\ b.seconds <= 0
    BY <1>11, <2>1
  <2>3. b.seconds \in Nat
    BY <1>4, <1>5, <1>7
  <2>4. b.seconds = 0
    BY <2>2, <2>3
  <2> QED
    BY <2>2, <2>4 DEF OriginIsKnown
<1>14. AnswerIsNearest(t, destination)
  BY <1>1 DEF AnswerIsNearest
<1> QED
  BY <1>1, <1>8, <1>9, <1>10, <1>12, <1>13, <1>14 DEF RouteInv, t

\* So does the end of the search.
LEMMA EndingKeeps ==
  ASSUME NEW origin, NEW destination, NEW network, NEW open, NEW s,
         RouteInv(s, origin, destination, network, open),
         NEW node \in s.frontier, \A b \in s.frontier : node.seconds <= b.seconds,
         node.zone = destination
  PROVE  RouteInv(Ended(s, node), origin, destination, network, open) /\ Ended(s, node).answer.found
<1> DEFINE t == Ended(s, node)
<1>1. /\ t.frontier = s.frontier /\ t.expanded = s.expanded /\ t.age = s.age
      /\ t.answer = [found |-> TRUE, steps |-> node.steps, seconds |-> node.seconds]
      /\ t.answer.found /\ t.answer.steps = node.steps /\ t.answer.seconds = node.seconds
      /\ t = [frontier |-> t.frontier, expanded |-> t.expanded, age |-> t.age, answer |-> t.answer]
  BY DEF Ended
<1>2. s \in Searches(origin, network, open)
  BY DEF RouteInv
<1>3. t \in Searches(origin, network, open)
  <2>1. node \in Nodes(origin, network, open)
    BY <1>2, NodesAreTyped
  <2>2. t.answer \in [found : BOOLEAN, steps : Seq([edge : EdgesAt(network, open), seconds : Nat]),
                      seconds : Nat]
    BY <1>1, <2>1 DEF Nodes
  <2> DEFINE N == Nodes(origin, network, open)
             A == [found : BOOLEAN, steps : Seq([edge : EdgesAt(network, open), seconds : Nat]),
                   seconds : Nat]
             f == t.frontier
             x == t.expanded
             g == t.age
             w == t.answer
  <2>3. f \in SUBSET N /\ x \in SUBSET N /\ g \in Nat /\ w \in A
    BY <1>1, <1>2, <2>2, NodesAreTyped
  <2>4. t = [frontier |-> f, expanded |-> x, age |-> g, answer |-> w]
    BY <1>1
  <2>5. Searches(origin, network, open) =
          [frontier : SUBSET N, expanded : SUBSET N, age : Nat, answer : A]
    BY DEF Searches
  <2> HIDE DEF N, A, f, x, g, w
  <2> QED
    BY <2>3, <2>4, <2>5
<1> HIDE DEF t
<1>4. KnownTo(t) = KnownTo(s)
  BY <1>1 DEF KnownTo
<1>5. /\ NodesAreWays(t, origin, network, open)
      /\ ExpandedIsNearest(t, destination) /\ ExpandedIsRelaxed(t, network, open)
      /\ OriginIsKnown(t, origin)
  BY <1>1, <1>4 DEF RouteInv, NodesAreWays, ExpandedIsNearest, ExpandedIsRelaxed, OriginIsKnown
<1>6. AnswerIsNearest(t, destination)
  BY <1>1 DEF AnswerIsNearest
<1> QED
  BY <1>1, <1>3, <1>5, <1>6 DEF RouteInv, t

\* The least node of the frontier is not farther than the others.
LEMMA LeastIsNearest ==
  ASSUME NEW origin, NEW network, NEW open, NEW s \in Searches(origin, network, open), s.frontier # {}
  PROVE  Least(s.frontier) \in s.frontier /\ \A b \in s.frontier : Least(s.frontier).seconds <= b.seconds
<1> DEFINE F == s.frontier
           l == Least(F)
<1>1. \A a \in F : a.seconds \in Nat /\ a.effort \in Nat /\ a.age \in Nat
  BY NodesAreTyped DEF KnownTo
<1> HIDE DEF F
<1>2. Least(F) \in F /\ \A b \in F : Before(Least(F), b)
  BY <1>1, LeastIsFirst DEF F
<1>3. ASSUME NEW b \in F PROVE l.seconds <= b.seconds
  <2>1. l.seconds \in Nat /\ b.seconds \in Nat /\ Before(l, b)
    BY <1>1, <1>2
  <2> HIDE DEF l
  <2> QED
    BY <2>1 DEF Before
<1> QED
  BY <1>2, <1>3 DEF F

\* The start satisfies the invariant.
LEMMA StartSatisfies ==
  ASSUME NEW origin, NEW destination, NEW network, NEW open
  PROVE  RouteInv(Start(origin), origin, destination, network, open) /\ Start(origin).expanded = {}
<1> DEFINE s == Start(origin)
           node == [zone |-> origin, seconds |-> 0, effort |-> 0, age |-> 0, steps |-> <<>>]
<1>1. /\ s.frontier = {node} /\ s.expanded = {} /\ s.age = 0 /\ s.answer = NoRoute
      /\ node.zone = origin /\ node.seconds = 0 /\ node.effort = 0 /\ node.age = 0 /\ node.steps = <<>>
      /\ s = [frontier |-> s.frontier, expanded |-> s.expanded, age |-> s.age, answer |-> s.answer]
  BY DEF Start
<1>2. node \in Nodes(origin, network, open)
  BY DEF Nodes, ZonesFrom
<1>3. /\ NoRoute \in [found : BOOLEAN, steps : Seq([edge : EdgesAt(network, open), seconds : Nat]),
                      seconds : Nat]
      /\ ~NoRoute.found
  BY DEF NoRoute
<1>4. IsWay(<<>>, EdgesAt(network, open), origin, origin, 0)
  BY DEF IsWay, At, Passed
<1> HIDE DEF node, s
<1>5. s \in Searches(origin, network, open)
  <2> DEFINE N == Nodes(origin, network, open)
             A == [found : BOOLEAN, steps : Seq([edge : EdgesAt(network, open), seconds : Nat]),
                   seconds : Nat]
             f == s.frontier
             x == s.expanded
             g == s.age
             w == s.answer
  <2>1. f \in SUBSET N /\ x \in SUBSET N /\ g \in Nat /\ w \in A
    BY <1>1, <1>2, <1>3
  <2>2. s = [frontier |-> f, expanded |-> x, age |-> g, answer |-> w]
    BY <1>1
  <2>3. Searches(origin, network, open) =
          [frontier : SUBSET N, expanded : SUBSET N, age : Nat, answer : A]
    BY DEF Searches
  <2> HIDE DEF N, A, f, x, g, w
  <2> QED
    BY <2>1, <2>2, <2>3
<1>6. KnownTo(s) = {node}
  BY <1>1 DEF KnownTo
<1>7. NodesAreWays(s, origin, network, open)
  BY <1>1, <1>4, <1>6 DEF NodesAreWays
<1>8. ExpandedIsNearest(s, destination) /\ ExpandedIsRelaxed(s, network, open)
  BY <1>1 DEF ExpandedIsNearest, ExpandedIsRelaxed
<1>9. OriginIsKnown(s, origin) /\ AnswerIsNearest(s, destination)
  BY <1>1, <1>3, <1>6 DEF OriginIsKnown, AnswerIsNearest
<1> QED
  BY <1>1, <1>5, <1>7, <1>8, <1>9 DEF RouteInv, s

\* After n turns the search has ended or expanded n nodes.
HasTurned(s, n) ==
  s.answer.found \/ s.frontier = {} \/ (IsFiniteSet(s.expanded) /\ Cardinality(s.expanded) = n)

\* A turn of the loop keeps the invariant, and comes nearer to the end.
LEMMA TurnKeeps ==
  ASSUME NEW origin, NEW destination, NEW network, IsNetwork(network),
         NEW open, open \subseteq DOMAIN network, NEW s, NEW n \in Nat,
         RouteInv(s, origin, destination, network, open), HasTurned(s, n)
  PROVE  /\ RouteInv(Turn(s, destination, network, open), origin, destination, network, open)
         /\ HasTurned(Turn(s, destination, network, open), n + 1)
<1> DEFINE node == Least(s.frontier)
           t == Turn(s, destination, network, open)
<1>1. CASE s.answer.found \/ s.frontier = {}
  <2>1. t = s
    BY <1>1 DEF Turn
  <2> QED
    BY <1>1, <2>1 DEF HasTurned
<1>2. CASE ~s.answer.found /\ s.frontier # {}
  <2>1. s \in Searches(origin, network, open)
    BY DEF RouteInv
  <2>2. node \in s.frontier /\ \A b \in s.frontier : node.seconds <= b.seconds
    BY <1>2, <2>1, LeastIsNearest
  <2> HIDE DEF node
  <2>3. CASE node.zone = destination
    <3>1. t = Ended(s, node)
      BY <1>2, <2>3 DEF Turn, node
    <3>2. RouteInv(Ended(s, node), origin, destination, network, open) /\ Ended(s, node).answer.found
      BY <2>2, <2>3, EndingKeeps
    <3> QED
      BY <3>1, <3>2 DEF HasTurned
  <2>4. CASE node.zone # destination
    <3>1. t = Relax(s, node, network, open)
      BY <1>2, <2>4 DEF Turn, node
    <3> HIDE DEF t
    <3>2. RouteInv(t, origin, destination, network, open) /\ t.expanded = s.expanded \cup {node}
      BY <1>2, <2>2, <2>4, <3>1, ExpandingKeeps
    <3>3. node \notin s.expanded
      BY <2>2 DEF RouteInv, NodesAreWays
    <3>4. IsFiniteSet(s.expanded) /\ Cardinality(s.expanded) = n
      BY <1>2 DEF HasTurned
    <3>5. IsFiniteSet(t.expanded) /\ Cardinality(t.expanded) = n + 1
      BY <3>2, <3>3, <3>4, FS_AddElement
    <3> QED
      BY <3>2, <3>5 DEF HasTurned, t
  <2> QED
    BY <2>3, <2>4
<1> QED
  BY <1>1, <1>2

\* The states of the search satisfy the invariant.
LEMMA TurnsSatisfy ==
  ASSUME NEW origin, NEW destination, NEW network, IsNetwork(network),
         NEW open, open \subseteq DOMAIN network, NEW n \in Nat
  PROVE  /\ RouteInv(Turns(origin, destination, network, open)[n], origin, destination, network, open)
         /\ HasTurned(Turns(origin, destination, network, open)[n], n)
<1> DEFINE V == {s \in Searches(origin, network, open) :
                   RouteInv(s, origin, destination, network, open)}
           W == {v \in V \X Nat : HasTurned(v[1], v[2])}
           step == [v \in W |-> <<Turn(v[1], destination, network, open), v[2] + 1>>]
           start == <<Start(origin), 0>>
<1>1. \A s : s \in V <=> RouteInv(s, origin, destination, network, open)
  BY DEF RouteInv
<1> HIDE DEF V
<1>2. start \in W
  <2>1. Start(origin) \in V /\ HasTurned(Start(origin), 0)
    BY <1>1, StartSatisfies, FS_EmptySet DEF HasTurned
  <2> QED
    BY <2>1
<1>3. step \in [W -> W]
  <2>1. ASSUME NEW v \in W PROVE <<Turn(v[1], destination, network, open), v[2] + 1>> \in W
    <3>1. v[1] \in V /\ v[2] \in Nat /\ HasTurned(v[1], v[2])
      OBVIOUS
    <3>2. /\ RouteInv(Turn(v[1], destination, network, open), origin, destination, network, open)
          /\ HasTurned(Turn(v[1], destination, network, open), v[2] + 1)
      BY <1>1, <3>1, TurnKeeps
    <3> QED
      BY <1>1, <3>1, <3>2
  <2> HIDE DEF W
  <2> QED
    BY <2>1
<1>4. PICK f : Solves(f, W, start, step)
  <2> HIDE DEF W, step, start
  <2> QED
    BY <1>2, <1>3, StepsExist
<1>5. /\ f \in [Nat -> W] /\ f[0] = start
      /\ \A m \in Nat : f[m + 1] = <<Turn(f[m][1], destination, network, open), f[m][2] + 1>>
  BY <1>4 DEF Solves
<1> DEFINE g == [m \in Nat |-> f[m][1]]
<1>6. \A m \in Nat : f[m] \in W /\ f[m][2] = m
  <2> DEFINE M == {m \in Nat : f[m][2] = m}
  <2>1. 0 \in M
    BY <1>5
  <2>2. \A m \in Nat : m \in M => m + 1 \in M
    BY <1>5
  <2> HIDE DEF M
  <2>3. \A m \in Nat : m \in M
    BY <2>1, <2>2, Induction
  <2> QED
    BY <1>5, <2>3 DEF M
<1>7. g = [m \in Nat |-> IF m = 0 THEN Start(origin) ELSE Turn(g[m - 1], destination, network, open)]
  <2>1. g[0] = Start(origin)
    BY <1>5
  <2>2. ASSUME NEW m \in Nat, m # 0 PROVE g[m] = Turn(g[m - 1], destination, network, open)
    <3>1. m - 1 \in Nat /\ (m - 1) + 1 = m
      BY <2>2
    <3>2. f[m] = <<Turn(f[m - 1][1], destination, network, open), f[m - 1][2] + 1>>
      BY <1>5, <3>1
    <3> QED
      BY <3>1, <3>2
  <2> QED
    BY <2>1, <2>2
<1> DEFINE h == Turns(origin, destination, network, open)
<1>8. h = [m \in Nat |-> IF m = 0 THEN Start(origin) ELSE Turn(h[m - 1], destination, network, open)]
  <2>1. \E e : e = [m \in Nat |-> IF m = 0 THEN Start(origin) ELSE Turn(e[m - 1], destination, network, open)]
    BY <1>7
  <2> QED
    BY <2>1 DEF Turns
<1> HIDE DEF h
<1>9. \A m \in Nat : h[m] = g[m]
  <2> DEFINE M == {m \in Nat : h[m] = g[m]}
  <2> HIDE DEF g
  <2>1. 0 \in M
    BY <1>7, <1>8
  <2>2. ASSUME NEW m \in Nat, m \in M PROVE m + 1 \in M
    <3>1. m + 1 \in Nat /\ m + 1 # 0 /\ (m + 1) - 1 = m
      OBVIOUS
    <3>2. h[m + 1] = Turn(h[m], destination, network, open)
      BY <1>8, <3>1
    <3>3. g[m + 1] = Turn(g[m], destination, network, open)
      BY <1>7, <3>1
    <3> QED
      BY <2>2, <3>2, <3>3
  <2> HIDE DEF M
  <2>3. \A m \in Nat : m \in M
    BY <2>1, <2>2, Induction
  <2> QED
    BY <2>3 DEF M
<1>10. h[n] \in V /\ HasTurned(h[n], n)
  BY <1>6, <1>9
<1> QED
  BY <1>1, <1>10 DEF h

\* The zones that edges lead to are finitely many.
LEMMA TargetsAreFinite ==
  ASSUME NEW network, IsNetwork(network), NEW open, open \subseteq DOMAIN network
  PROVE  /\ IsFiniteSet({network[k].to : k \in open})
         /\ Cardinality({network[k].to : k \in open}) \in Nat
<1> DEFINE g == [k \in open |-> network[k].to]
           T == {g[k] : k \in open}
<1>1. IsFiniteSet(DOMAIN network)
  <2>1. DOMAIN network = 1..Len(network) /\ Len(network) \in Nat
    BY EdgesHaveCosts
  <2> QED
    BY <2>1, FS_Interval
<1>2. IsFiniteSet(open)
  BY <1>1, FS_Subset
<1>3. DOMAIN g = open /\ T = {network[k].to : k \in open}
  OBVIOUS
<1> HIDE DEF g
<1>4. IsFiniteSet(T)
  BY <1>2, <1>3, ImagesAreFinite
<1> HIDE DEF T
<1>5. Cardinality(T) \in Nat
  BY <1>4, FS_CardinalityType
<1> QED
  BY <1>3, <1>4, <1>5

\* A search of as many turns as there are zones to come to, and one, has ended.
LEMMA SearchEnds ==
  ASSUME NEW origin, NEW destination, NEW network, IsNetwork(network),
         NEW open, open \subseteq DOMAIN network, NEW s,
         RouteInv(s, origin, destination, network, open),
         HasTurned(s, Cardinality({network[k].to : k \in open}) + 1)
  PROVE  s.answer.found \/ s.frontier = {}
<1> DEFINE T == {network[k].to : k \in open}
           N == Cardinality(T)
           Z == T \cup {origin}
<1>1. IsFiniteSet(T) /\ N \in Nat
  BY TargetsAreFinite
<1>2. IsFiniteSet(Z) /\ Cardinality(Z) <= N + 1 /\ Cardinality(Z) \in Nat
  <2> HIDE DEF T
  <2>1. IsFiniteSet(Z)
    BY <1>1, FS_AddElement
  <2>2. Cardinality(Z) = IF origin \in T THEN N ELSE N + 1
    BY <1>1, FS_AddElement
  <2> QED
    BY <1>1, <2>1, <2>2
<1> SUFFICES ASSUME ~s.answer.found, s.frontier # {} PROVE FALSE
  OBVIOUS
<1>3. IsFiniteSet(s.expanded) /\ Cardinality(s.expanded) = N + 1
  BY DEF HasTurned
<1>4. /\ s \in Searches(origin, network, open) /\ s.frontier \cap s.expanded = {}
      /\ \A a, b \in KnownTo(s) : a.zone = b.zone => a = b
  BY DEF RouteInv, NodesAreWays
<1>5. /\ s.frontier \subseteq Nodes(origin, network, open)
      /\ s.expanded \subseteq Nodes(origin, network, open)
  BY <1>4, NodesAreTyped
<1>6. PICK f : f \in s.frontier
  OBVIOUS
<1> DEFINE E == s.expanded \cup {f}
           g == [a \in E |-> a.zone]
<1>7. IsFiniteSet(E) /\ Cardinality(E) = N + 2
  <2>1. f \notin s.expanded
    BY <1>4, <1>6
  <2>2. IsFiniteSet(E) /\ Cardinality(E) = Cardinality(s.expanded) + 1
    BY <1>3, <2>1, FS_AddElement
  <2> HIDE DEF T, N, E
  <2> QED
    BY <1>1, <1>3, <2>2
<1>8. g \in Injection(E, Z)
  <2>1. \A a \in E : a.zone \in Z /\ a \in KnownTo(s)
    BY <1>5, <1>6 DEF Nodes, ZonesFrom, KnownTo
  <2>2. \A a, b \in E : a.zone = b.zone => a = b
    BY <1>4, <2>1
  <2> HIDE DEF E, Z
  <2> QED
    BY <2>1, <2>2 DEF Injection, IsInjective
<1>9. Cardinality(E) <= Cardinality(Z)
  <2> HIDE DEF E, Z, g
  <2> QED
    BY <1>2, <1>8, FS_Injection
<1> HIDE DEF E, Z, N
<1> QED
  BY <1>1, <1>2, <1>7, <1>9

\* A zone has been come to in no more seconds, or the destination has.
Near(s, z, n) ==
  \/ \E x \in s.expanded : x.zone = z /\ x.seconds <= n
  \/ s.answer.found /\ s.answer.seconds <= n

\* When the search has ended, its answer is a way to the destination, and where
\* the origin and the edges lead has been come to as fast.
LEMMA AnswerIsRight ==
  ASSUME NEW origin, NEW destination, NEW network, IsNetwork(network),
         NEW open, open \subseteq DOMAIN network, NEW s,
         RouteInv(s, origin, destination, network, open), s.answer.found \/ s.frontier = {}
  PROVE  /\ s.answer.found \in BOOLEAN /\ s.answer.seconds \in Nat
         /\ s.answer.found =>
              IsWay(s.answer.steps, EdgesAt(network, open), origin, destination, s.answer.seconds)
         /\ Near(s, origin, 0)
         /\ \A k \in open, n \in Nat :
              Near(s, network[k].from, n) => Near(s, network[k].to, n + network[k].cost)
         /\ \A n \in Nat : Near(s, destination, n) => s.answer.found /\ s.answer.seconds <= n
<1>1. /\ s \in Searches(origin, network, open)
      /\ NodesAreWays(s, origin, network, open)
      /\ ExpandedIsNearest(s, destination) /\ ExpandedIsRelaxed(s, network, open)
      /\ OriginIsKnown(s, origin) /\ AnswerIsNearest(s, destination)
  BY DEF RouteInv
<1>2. /\ s.answer.found \in BOOLEAN /\ s.answer.seconds \in Nat
      /\ \A a \in KnownTo(s) : a.seconds \in Nat
  BY <1>1, NodesAreTyped
<1>3. \A k \in open : network[k].cost \in Nat
  BY EdgesHaveCosts
<1>4. ASSUME s.answer.found
      PROVE  IsWay(s.answer.steps, EdgesAt(network, open), origin, destination, s.answer.seconds)
  <2>1. PICK a \in s.frontier :
          a.zone = destination /\ a.steps = s.answer.steps /\ a.seconds = s.answer.seconds
    BY <1>1, <1>4 DEF AnswerIsNearest
  <2>2. IsWay(a.steps, EdgesAt(network, open), origin, a.zone, a.seconds)
    BY <1>1 DEF NodesAreWays, KnownTo
  <2> QED
    BY <2>1, <2>2
<1>5. ASSUME NEW a \in KnownTo(s), NEW n \in Nat, a.seconds <= n PROVE Near(s, a.zone, n)
  <2>1. CASE a \in s.expanded
    BY <1>5, <2>1 DEF Near
  <2>2. CASE a \in s.frontier
    <3>1. s.answer.found
      BY <2>2
    <3>2. s.answer.seconds <= a.seconds
      BY <1>1, <2>2, <3>1 DEF AnswerIsNearest
    <3>3. s.answer.seconds <= n
      BY <1>2, <1>5, <3>2
    <3> QED
      BY <3>1, <3>3 DEF Near
  <2> QED
    BY <2>1, <2>2 DEF KnownTo
<1>6. Near(s, origin, 0)
  <2>1. PICK a \in KnownTo(s) : a.zone = origin /\ a.seconds = 0
    BY <1>1 DEF OriginIsKnown
  <2> QED
    BY <1>5, <2>1
<1>7. ASSUME NEW k \in open, NEW n \in Nat, Near(s, network[k].from, n)
      PROVE  Near(s, network[k].to, n + network[k].cost)
  <2>1. CASE s.answer.found /\ s.answer.seconds <= n
    <3>1. s.answer.seconds <= n + network[k].cost
      BY <1>2, <1>3, <2>1
    <3> QED
      BY <2>1, <3>1 DEF Near
  <2>2. CASE \E x \in s.expanded : x.zone = network[k].from /\ x.seconds <= n
    <3>1. PICK x \in s.expanded : x.zone = network[k].from /\ x.seconds <= n
      BY <2>2
    <3>2. PICK a \in KnownTo(s) : a.zone = network[k].to /\ a.seconds <= x.seconds + network[k].cost
      BY <1>1, <3>1 DEF ExpandedIsRelaxed
    <3>3. x.seconds \in Nat /\ network[k].cost \in Nat /\ a.seconds \in Nat
      BY <1>2, <1>3 DEF KnownTo
    <3>4. a.seconds <= n + network[k].cost /\ n + network[k].cost \in Nat
      BY <3>1, <3>2, <3>3
    <3>5. Near(s, a.zone, n + network[k].cost)
      BY <1>5, <3>4
    <3> QED
      BY <3>2, <3>5
  <2> QED
    BY <1>7, <2>1, <2>2 DEF Near
<1>8. ASSUME NEW n \in Nat, Near(s, destination, n) PROVE s.answer.found /\ s.answer.seconds <= n
  BY <1>1, <1>8 DEF Near, ExpandedIsNearest
<1> QED
  BY <1>2, <1>4, <1>6, <1>7, <1>8

-----------------------------------------------------------------------------
(* No way is faster than the route.                                        *)
\* What holds of the origin at 0 seconds, and of the end of each edge if it holds
\* of its beginning, holds of every zone and the seconds it is within.
LEMMA WithinStays ==
  ASSUME NEW from, NEW network, NEW usable,
         NEW weight, \A k \in usable : weight[k] \in Nat,
         NEW Good, \A p \in Good : p = <<p[1], p[2]>> /\ p[2] \in Nat,
         <<from, 0>> \in Good,
         \A k \in usable, n \in Nat :
           <<network[k].from, n>> \in Good => <<network[k].to, n + weight[k]>> \in Good
  PROVE  \A n \in Nat : \A z \in DOMAIN WithinEdges(from, network, usable, weight)[n] :
           <<z, WithinEdges(from, network, usable, weight)[n][z]>> \in Good
<1> DEFINE Zones == {p[1] : p \in Good}
           V == {d \in UNION {[D -> Nat] : D \in SUBSET Zones} : \A z \in DOMAIN d : <<z, d[z]>> \in Good}
           into == [z \in {network[k].to : k \in usable} |-> {k \in usable : network[k].to = z}]
           last(d, z) == {k \in IF z \in DOMAIN into THEN into[z] ELSE {} :
                            network[k].from \in DOMAIN d}
           ways(d, z) == {d[network[k].from] + weight[k] : k \in last(d, z)}
           of(d, z) == ways(d, z) \cup IF z \in DOMAIN d THEN {d[z]} ELSE {}
           dom(d) == DOMAIN d \cup {z \in DOMAIN into : last(d, z) # {}}
           next(d) == [z \in dom(d) |-> Min(of(d, z))]
           step == [d \in V |-> next(d)]
           start == [z \in {from} |-> 0]
<1>1. \A d, z : last(d, z) = {k \in usable : network[k].to = z /\ network[k].from \in DOMAIN d}
  OBVIOUS
<1>2. \A d, D : d \in [D -> Nat] /\ (\A z \in D : <<z, d[z]>> \in Good) => d \in V
  <2> TAKE d, D
  <2> HAVE d \in [D -> Nat] /\ \A z \in D : <<z, d[z]>> \in Good
  <2>1. \A z \in D : <<z, d[z]>>[1] = z
    OBVIOUS
  <2>2. D \in SUBSET Zones
    BY <2>1
  <2> HIDE DEF Zones
  <2> QED
    BY <2>2
<1>3. \A d \in V : /\ d = [z \in DOMAIN d |-> d[z]]
                   /\ \A z \in DOMAIN d : d[z] \in Nat /\ <<z, d[z]>> \in Good
  OBVIOUS
<1> HIDE DEF V, into
<1>4. ASSUME NEW d \in V, NEW z \in dom(d)
      PROVE  <<z, Min(of(d, z))>> \in Good /\ Min(of(d, z)) \in Nat
  <2>1. \A k \in last(d, z) : network[k].to = z /\ network[k].from \in DOMAIN d /\ k \in usable
    BY <1>1
  <2>2. \A n \in of(d, z) : n \in Nat /\ <<z, n>> \in Good
    <3> HIDE DEF last
    <3>1. ASSUME NEW k \in last(d, z)
          PROVE  /\ d[network[k].from] + weight[k] \in Nat
                 /\ <<z, d[network[k].from] + weight[k]>> \in Good
      <4>1. d[network[k].from] \in Nat /\ <<network[k].from, d[network[k].from]>> \in Good
        BY <1>3, <2>1
      <4>2. weight[k] \in Nat /\ network[k].to = z
        BY <2>1
      <4> QED
        BY <2>1, <4>1, <4>2
    <3>2. z \in DOMAIN d => d[z] \in Nat /\ <<z, d[z]>> \in Good
      BY <1>3
    <3> QED
      BY <3>1, <3>2
  <2>3. of(d, z) # {}
    <3> HIDE DEF last
    <3> QED
      OBVIOUS
  <2> DEFINE T == of(d, z)
  <2>4. T \subseteq Nat /\ T # {}
    BY <2>2, <2>3
  <2> HIDE DEF T, of
  <2>5. Min(T) \in T
    BY <2>4, MinIsLeast
  <2> QED
    BY <2>2, <2>5 DEF T
<1> HIDE DEF of
<1>5. step \in [V -> V]
  <2>1. ASSUME NEW d \in V PROVE next(d) \in V
    <3> DEFINE e == next(d)
               D == dom(d)
    <3>1. e \in [D -> Nat] /\ \A z \in D : e[z] = Min(of(d, z))
      <4> HIDE DEF dom
      <4>1. \A z \in dom(d) : Min(of(d, z)) \in Nat
        BY <1>4
      <4> QED
        BY <4>1
    <3>2. \A z \in D : <<z, e[z]>> \in Good
      <4> HIDE DEF dom, next
      <4> QED
        BY <1>4, <3>1
    <3> HIDE DEF dom, next
    <3> QED
      BY <1>2, <3>1, <3>2
  <2> HIDE DEF next
  <2> QED
    BY <2>1
<1>6. start \in V
  <2>1. start \in [{from} -> Nat] /\ \A z \in {from} : start[z] = 0
    OBVIOUS
  <2> HIDE DEF start
  <2> QED
    BY <1>2, <2>1
<1>7. PICK f : Solves(f, V, start, step)
  <2> HIDE DEF step, start
  <2> QED
    BY <1>5, <1>6, StepsExist
<1>8. f \in [Nat -> V] /\ f[0] = start /\ \A n \in Nat : f[n + 1] = next(f[n])
  <2>1. \A d \in V : step[d] = next(d)
    <3> HIDE DEF next
    <3> QED
      OBVIOUS
  <2> HIDE DEF step, next, start
  <2> QED
    BY <1>7, <2>1 DEF Solves
<1> DEFINE pick(d) == IF next(d) = d THEN d ELSE next(d)
           h == WithinEdges(from, network, usable, weight)
<1>9. f = [n \in Nat |-> IF n = 0 THEN start ELSE pick(f[n - 1])]
  <2> HIDE DEF next, start
  <2>1. ASSUME NEW n \in Nat, n # 0 PROVE f[n] = pick(f[n - 1])
    <3>1. n - 1 \in Nat /\ (n - 1) + 1 = n
      BY <2>1
    <3> QED
      BY <1>8, <3>1
  <2> HIDE DEF pick
  <2> QED
    BY <1>8, <2>1
<1>10. h = [n \in Nat |-> IF n = 0 THEN start ELSE pick(h[n - 1])]
  <2>1. \E e : e = [n \in Nat |-> IF n = 0 THEN start ELSE pick(e[n - 1])]
    BY <1>9
  <2> QED
    BY <2>1 DEF WithinEdges, into, of
<1> HIDE DEF h, next, start
<1>11. \A n \in Nat : h[n] = f[n]
  <2> DEFINE M == {n \in Nat : h[n] = f[n]}
  <2> HIDE DEF pick
  <2>1. 0 \in M
    BY <1>9, <1>10
  <2>2. ASSUME NEW n \in Nat, n \in M PROVE n + 1 \in M
    <3>1. n + 1 \in Nat /\ n + 1 # 0 /\ (n + 1) - 1 = n
      OBVIOUS
    <3>2. h[n + 1] = pick(h[n])
      BY <1>10, <3>1
    <3>3. f[n + 1] = pick(f[n])
      BY <1>9, <3>1
    <3> QED
      BY <2>2, <3>2, <3>3
  <2> HIDE DEF M
  <2>3. \A n \in Nat : n \in M
    BY <2>1, <2>2, Induction
  <2> QED
    BY <2>3 DEF M
<1>12. ASSUME NEW n \in Nat, NEW z \in DOMAIN h[n] PROVE <<z, h[n][z]>> \in Good
  BY <1>3, <1>8, <1>11
<1> QED
  BY <1>12 DEF h

\* So it holds of the end of every way and the seconds it takes.
LEMMA WayStays ==
  ASSUME NEW from, NEW network, NEW usable,
         \A k \in usable : network[k].cost \in Nat,
         NEW Good, <<from, 0>> \in Good,
         \A k \in usable, n \in Nat :
           <<network[k].from, n>> \in Good => <<network[k].to, n + network[k].cost>> \in Good,
         NEW steps, NEW to, NEW passed, IsWay(steps, EdgesAt(network, usable), from, to, passed)
  PROVE  <<to, passed>> \in Good
<1> DEFINE edges == EdgesAt(network, usable)
           N == Len(steps)
           S == {n \in Nat : n <= N => Passed(steps, n) \in Nat /\ <<At(steps, from, n), Passed(steps, n)>> \in Good}
<1>1. /\ steps \in Seq([edge : edges, seconds : Nat])
      /\ \A n \in 1..N : /\ steps[n].edge.from = At(steps, from, n - 1)
                         /\ steps[n].seconds = Passed(steps, n - 1) + steps[n].edge.cost
      /\ At(steps, from, N) = to /\ Passed(steps, N) = passed
  BY DEF IsWay
<1> DEFINE T == [edge : edges, seconds : Nat]
<1>2. N \in Nat /\ \A n \in 1..N : steps[n] \in T
  <2>1. steps \in Seq(T)
    BY <1>1
  <2> HIDE DEF T
  <2> QED
    BY <2>1
<1>3. \A n \in 1..N : steps[n].seconds \in Nat /\ \E k \in usable : steps[n].edge = network[k]
  BY <1>2 DEF EdgesAt
<1> HIDE DEF N
<1>4. 0 \in S
  BY DEF At, Passed
<1>5. ASSUME NEW n \in Nat, n \in S PROVE n + 1 \in S
  <2> SUFFICES ASSUME n + 1 <= N
               PROVE  /\ Passed(steps, n + 1) \in Nat
                      /\ <<At(steps, from, n + 1), Passed(steps, n + 1)>> \in Good
    OBVIOUS
  <2>1. n + 1 \in 1..N /\ (n + 1) - 1 = n /\ n + 1 # 0 /\ n <= N
    BY <1>2
  <2>2. Passed(steps, n) \in Nat /\ <<At(steps, from, n), Passed(steps, n)>> \in Good
    BY <1>5, <2>1
  <2>3. PICK k \in usable : steps[n + 1].edge = network[k]
    BY <1>3, <2>1
  <2>4. /\ network[k].from = At(steps, from, n)
        /\ steps[n + 1].seconds = Passed(steps, n) + network[k].cost
    BY <1>1, <2>1, <2>3
  <2>5. At(steps, from, n + 1) = network[k].to /\ Passed(steps, n + 1) = steps[n + 1].seconds
    BY <2>1, <2>3 DEF At, Passed
  <2>6. <<network[k].to, Passed(steps, n) + network[k].cost>> \in Good
    BY <2>2, <2>4
  <2> QED
    BY <1>3, <2>1, <2>4, <2>5, <2>6
<1>6. \A n \in Nat : n \in S
  <2> HIDE DEF S
  <2> QED
    BY <1>4, <1>5, Induction
<1> QED
  BY <1>1, <1>2, <1>6

\* With the edges of its own every origin has a network.
LEMMA NetworksAreNetworks ==
  ASSUME NEW origin, NEW c
  PROVE  IsNetwork(Network(origin, c))
<1> DEFINE teleports == {MageTeleport(origin, d) : d \in Range(MageDestinations)}
           stone == Edge(origin, c.hearth, "hearthstone", HEARTHSTONE_COST)
           S == Range(TRAVEL_EDGES) \cup teleports \cup {stone}
           mage == Each(MageDestinations, LAMBDA d : MageTeleport(origin, d))
           own == OriginEdges(origin, c)
           network == Network(origin, c)
<1>1. \A d : MageTeleport(origin, d).cost \in Nat /\ MageTeleport(origin, d).method \in DOMAIN Convenience
  BY DEF MageTeleport, Convenience, MAGE_PORTAL_COST
<1>2. stone.cost \in Nat /\ stone.method \in DOMAIN Convenience
  BY DEF Edge, Convenience, HEARTHSTONE_COST
<1>3. \A e \in S : e.cost \in Nat /\ e.method \in DOMAIN Convenience
  <2> HIDE DEF stone
  <2> QED
    BY <1>1, <1>2, TravelAssumption
<1>4. mage \in Seq(S)
  <2>1. MageDestinations \in Seq(Range(MageDestinations))
    BY TravelAssumption
  <2>2. mage = [i \in DOMAIN MageDestinations |-> MageTeleport(origin, MageDestinations[i])]
    BY DEF Each
  <2>3. \A i \in DOMAIN MageDestinations : MageTeleport(origin, MageDestinations[i]) \in teleports
    BY DEF Range
  <2>4. DOMAIN MageDestinations = 1..Len(MageDestinations) /\ Len(MageDestinations) \in Nat
    BY <2>1
  <2> HIDE DEF mage
  <2>5. mage \in [1..Len(MageDestinations) -> S]
    <3> HIDE DEF teleports, stone
    <3> QED
      BY <2>2, <2>3, <2>4
  <2> HIDE DEF S
  <2> QED
    BY <2>4, <2>5
<1>5. stone \in S
  OBVIOUS
<1> HIDE DEF S, stone
<1>6. own \in Seq(S)
  <2>1. own = mage \o (IF c.hearth = NoZone THEN <<>> ELSE <<stone>>)
    BY DEF OriginEdges, stone
  <2> DEFINE home == IF c.hearth = NoZone THEN <<>> ELSE <<stone>>
  <2>2. home \in Seq(S)
    BY <1>5
  <2> HIDE DEF mage, home, own
  <2>3. mage \o home \in Seq(S)
    BY <1>4, <2>2
  <2> QED
    BY <2>1, <2>3 DEF home
<1>7. TRAVEL_EDGES \in Seq(S)
  <2>1. TRAVEL_EDGES \in Seq(Range(TRAVEL_EDGES)) /\ Range(TRAVEL_EDGES) \subseteq S
    BY TravelAssumption DEF S
  <2> QED
    BY <2>1
<1>8. network \in Seq(S)
  <2> HIDE DEF own
  <2>1. TRAVEL_EDGES \o own \in Seq(S)
    BY <1>6, <1>7
  <2> QED
    BY <2>1 DEF Network, own
<1> HIDE DEF network
<1>9. Range(network) \subseteq S /\ network \in Seq(Range(network))
  <2>1. DOMAIN network = 1..Len(network) /\ Len(network) \in Nat /\ network \in [1..Len(network) -> S]
    BY <1>8
  <2>2. \A i \in DOMAIN network : network[i] \in Range(network) /\ network[i] \in S
    BY <2>1 DEF Range
  <2>3. network \in [1..Len(network) -> Range(network)]
    BY <2>1, <2>2
  <2> QED
    BY <2>1, <2>2, <2>3 DEF Range
<1> QED
  BY <1>3, <1>9 DEF IsNetwork, network

\* The positions of the edges a search may use.
Usable(origin, c, banned) ==
  {k \in Adjacency(Network(origin, c), origin, c) : Key(Network(origin, c)[k]) \notin banned}

\* A route that is found leads there.
IsRoute(route, origin, destination, c, banned) ==
  /\ route.found \in BOOLEAN /\ route.seconds \in Nat
  /\ route.found => IsWay(route.steps, EdgesAt(Network(origin, c), Usable(origin, c, banned)),
                          origin, destination, route.seconds)

\* A way of up to n edges that may be used is not faster.
Fastens(route, origin, destination, c, banned) ==
  \A n \in Nat :
    LET open == Usable(origin, c, banned)
        within == WithinEdges(origin, Network(origin, c), open,
                              [k \in open |-> Network(origin, c)[k].cost])[n]
    IN  destination \in DOMAIN within => route.found /\ route.seconds <= within[destination]

\* Nor is any way, of however many edges.
NoWayIsFaster(route, origin, destination, c, banned) ==
  \A steps, passed :
    IsWay(steps, EdgesAt(Network(origin, c), Usable(origin, c, banned)), origin, destination, passed)
      => route.found /\ route.seconds <= passed

\* What a search answers leads there, and nothing that does is faster.
LEMMA RoutesLeadThere ==
  ASSUME NEW origin, NEW destination, NEW c, NEW banned
  PROVE  /\ IsRoute(FindRoute(origin, destination, c, banned), origin, destination, c, banned)
         /\ Fastens(FindRoute(origin, destination, c, banned), origin, destination, c, banned)
         /\ NoWayIsFaster(FindRoute(origin, destination, c, banned), origin, destination, c, banned)
<1> DEFINE network == Network(origin, c)
           open == Usable(origin, c, banned)
           route == FindRoute(origin, destination, c, banned)
           weight == [k \in open |-> network[k].cost]
<1>1. IsNetwork(network)
  BY NetworksAreNetworks
<1>2. open \subseteq DOMAIN network
  BY DEF Usable, Adjacency
<1>3. \A k \in open : weight[k] = network[k].cost /\ network[k].cost \in Nat
  BY <1>1, <1>2, EdgesHaveCosts
<1>4. CASE origin = destination
  <2>1. route = [found |-> TRUE, steps |-> <<>>, seconds |-> 0]
    BY <1>4 DEF FindRoute
  <2>2. /\ route.found \in BOOLEAN /\ route.found /\ route.steps = <<>> /\ route.seconds = 0
        /\ route.seconds \in Nat
    BY <2>1
  <2> HIDE DEF route, network, open, weight
  <2>3. IsWay(<<>>, EdgesAt(network, open), origin, destination, 0)
    BY <1>4 DEF IsWay, At, Passed
  <2>4. IsRoute(route, origin, destination, c, banned)
    BY <2>2, <2>3 DEF IsRoute, network, open
  <2> DEFINE Z == {origin} \cup {network[k].to : k \in open}
             Good == Z \X Nat
             within == WithinEdges(origin, network, open, weight)
  <2>5. \A n \in Nat : \A z \in DOMAIN within[n] : <<z, within[n][z]>> \in Good
    <3>1. /\ \A p \in Good : p = <<p[1], p[2]>> /\ p[2] \in Nat
          /\ <<origin, 0>> \in Good
      OBVIOUS
    <3>2. ASSUME NEW k \in open, NEW n \in Nat PROVE <<network[k].to, n + weight[k]>> \in Good
      BY <1>3
    <3> HIDE DEF Good
    <3> QED
      BY <1>3, <3>1, <3>2, WithinStays
  <2>6. ASSUME NEW n \in Nat, destination \in DOMAIN within[n]
        PROVE  route.found /\ route.seconds <= within[n][destination]
    <3>1. within[n][destination] \in Nat
      BY <2>5, <2>6
    <3> QED
      BY <2>2, <3>1
  <2>7. Fastens(route, origin, destination, c, banned)
    BY <2>6 DEF Fastens, network, open, weight
  <2>8. NoWayIsFaster(route, origin, destination, c, banned)
    <3> SUFFICES ASSUME NEW steps, NEW passed, IsWay(steps, EdgesAt(network, open), origin, destination, passed)
                 PROVE  route.found /\ route.seconds <= passed
      BY DEF NoWayIsFaster, network, open
    <3>1. <<origin, 0>> \in Good
      OBVIOUS
    <3>2. ASSUME NEW k \in open, NEW n \in Nat PROVE <<network[k].to, n + network[k].cost>> \in Good
      BY <1>3
    <3> HIDE DEF Good
    <3>3. <<destination, passed>> \in Good
      BY <1>3, <3>1, <3>2, WayStays
    <3> QED
      BY <2>2, <3>3 DEF Good
  <2> QED
    BY <2>4, <2>7, <2>8 DEF route
<1>5. CASE origin # destination
  <2> DEFINE N == Cardinality({network[k].to : k \in open}) + 1
             s == Turns(origin, destination, network, open)[N]
  <2>1. route = s.answer
    BY <1>5 DEF FindRoute, Usable
  <2> HIDE DEF network, open
  <2>2. N \in Nat
    BY <1>1, <1>2, TargetsAreFinite
  <2>3. RouteInv(s, origin, destination, network, open) /\ HasTurned(s, N)
    <3> HIDE DEF N
    <3> QED
      BY <1>1, <1>2, <2>2, TurnsSatisfy
  <2> HIDE DEF s
  <2>4. s.answer.found \/ s.frontier = {}
    BY <1>1, <1>2, <2>3, SearchEnds
  <2>5. /\ s.answer.found \in BOOLEAN /\ s.answer.seconds \in Nat
        /\ s.answer.found =>
             IsWay(s.answer.steps, EdgesAt(network, open), origin, destination, s.answer.seconds)
        /\ Near(s, origin, 0)
        /\ \A k \in open, n \in Nat :
             Near(s, network[k].from, n) => Near(s, network[k].to, n + network[k].cost)
        /\ \A n \in Nat : Near(s, destination, n) => s.answer.found /\ s.answer.seconds <= n
    BY <1>1, <1>2, <2>3, <2>4, AnswerIsRight
  <2> HIDE DEF route, weight
  <2>6. IsRoute(route, origin, destination, c, banned)
    BY <2>1, <2>5 DEF IsRoute, network, open
  <2> DEFINE Z == {origin} \cup {network[k].to : k \in open}
             Good == {p \in Z \X Nat : Near(s, p[1], p[2])}
             within == WithinEdges(origin, network, open, weight)
  <2>7. \A n \in Nat : \A z \in DOMAIN within[n] : <<z, within[n][z]>> \in Good
    <3>1. /\ \A p \in Good : p = <<p[1], p[2]>> /\ p[2] \in Nat
          /\ <<origin, 0>> \in Good
      BY <2>5
    <3>2. ASSUME NEW k \in open, NEW n \in Nat, <<network[k].from, n>> \in Good
          PROVE  <<network[k].to, n + weight[k]>> \in Good
      <4>1. Near(s, network[k].from, n)
        BY <3>2
      <4>2. Near(s, network[k].to, n + network[k].cost) /\ n + network[k].cost \in Nat
        BY <1>3, <2>5, <4>1
      <4> QED
        BY <1>3, <4>2
    <3> HIDE DEF Good
    <3> QED
      BY <1>3, <3>1, <3>2, WithinStays
  <2>8. ASSUME NEW n \in Nat, destination \in DOMAIN within[n]
        PROVE  route.found /\ route.seconds <= within[n][destination]
    <3>1. within[n][destination] \in Nat /\ Near(s, destination, within[n][destination])
      BY <2>7, <2>8
    <3> HIDE DEF within
    <3> QED
      BY <2>1, <2>5, <3>1
  <2>9. Fastens(route, origin, destination, c, banned)
    BY <2>8 DEF Fastens, network, open, weight
  <2>10. NoWayIsFaster(route, origin, destination, c, banned)
    <3> SUFFICES ASSUME NEW steps, NEW passed, IsWay(steps, EdgesAt(network, open), origin, destination, passed)
                 PROVE  route.found /\ route.seconds <= passed
      BY DEF NoWayIsFaster, network, open
    <3>1. <<origin, 0>> \in Good
      BY <2>5
    <3>2. ASSUME NEW k \in open, NEW n \in Nat, <<network[k].from, n>> \in Good
          PROVE  <<network[k].to, n + network[k].cost>> \in Good
      <4>1. Near(s, network[k].from, n)
        BY <3>2
      <4>2. Near(s, network[k].to, n + network[k].cost) /\ n + network[k].cost \in Nat
        BY <1>3, <2>5, <4>1
      <4> QED
        BY <4>2
    <3> HIDE DEF Good
    <3>3. <<destination, passed>> \in Good
      BY <1>3, <3>1, <3>2, WayStays
    <3> QED
      BY <2>1, <2>5, <3>3 DEF Good
  <2> QED
    BY <2>6, <2>9, <2>10 DEF route
<1> QED
  BY <1>4, <1>5

\* The numbers are numbers.
LEMMA WaysTakeSeconds ==
  ASSUME NEW steps, NEW edges, NEW from, NEW to, NEW passed, IsWay(steps, edges, from, to, passed)
  PROVE  passed \in Nat
<1> DEFINE T == [edge : edges, seconds : Nat]
<1>1. steps \in Seq(T) /\ Passed(steps, Len(steps)) = passed
  BY DEF IsWay
<1>2. \A t \in T : t.seconds \in Nat
  OBVIOUS
<1> HIDE DEF T
<1>3. Len(steps) \in Nat /\ (Len(steps) # 0 => steps[Len(steps)] \in T)
  BY <1>1
<1> QED
  BY <1>1, <1>2, <1>3 DEF Passed

\* The least seconds of a way to a zone are a number.
LEMMA NumbersWithin ==
  ASSUME NEW origin, NEW c, NEW banned, NEW n \in Nat,
         NEW z \in DOMAIN WithinEdges(origin, Network(origin, c), Usable(origin, c, banned),
                                      [k \in Usable(origin, c, banned) |-> Network(origin, c)[k].cost])[n]
  PROVE  WithinEdges(origin, Network(origin, c), Usable(origin, c, banned),
                     [k \in Usable(origin, c, banned) |-> Network(origin, c)[k].cost])[n][z] \in Nat
<1> DEFINE network == Network(origin, c)
           open == Usable(origin, c, banned)
           weight == [k \in open |-> network[k].cost]
           Z == {origin} \cup {network[k].to : k \in open}
           Good == Z \X Nat
           within == WithinEdges(origin, network, open, weight)
<1>1. IsNetwork(network) /\ open \subseteq DOMAIN network
  BY NetworksAreNetworks DEF Usable, Adjacency
<1>2. \A k \in open : weight[k] \in Nat
  BY <1>1, EdgesHaveCosts
<1> HIDE DEF weight, network, open
<1>3. /\ \A p \in Good : p = <<p[1], p[2]>> /\ p[2] \in Nat
      /\ <<origin, 0>> \in Good
      /\ \A k \in open, m \in Nat : <<network[k].to, m + weight[k]>> \in Good
  BY <1>2
<1>4. \A m \in Nat : \A y \in DOMAIN within[m] : <<y, within[m][y]>> \in Good
  <2> HIDE DEF Good
  <2> QED
    BY <1>2, <1>3, WithinStays
<1>5. <<z, within[n][z]>> \in Good
  BY <1>4 DEF weight, network, open
<1> HIDE DEF within
<1> QED
  BY <1>5 DEF within, weight, network, open

-----------------------------------------------------------------------------
(* Alternatives.                                                           *)
\* Of some routes one is the fastest.
LEMMA FastestIsOneOfThem ==
  ASSUME NEW routes, NEW left, left \subseteq Nat, left # {}, \A i \in left : routes[i].seconds \in Nat
  PROVE  /\ Fastest(routes, left) \in left
         /\ \A i \in left : routes[Fastest(routes, left)].seconds <= routes[i].seconds
<1> DEFINE far == [i \in left |-> routes[i].seconds]
           fars == {far[i] : i \in left}
<1>1. far \in [left -> Nat] /\ \A i \in left : far[i] = routes[i].seconds
  OBVIOUS
<1> HIDE DEF far
<1>2. fars \subseteq Nat /\ fars # {}
  BY <1>1
<1>3. PICK m \in fars : \A n \in fars : m <= n
  <2> HIDE DEF fars
  <2> QED
    BY <1>2, LeastNat
<1> DEFINE near == {i \in left : far[i] = m}
<1>4. PICK k \in near : \A i \in near : k <= i
  <2>1. near \subseteq Nat /\ near # {}
    OBVIOUS
  <2> HIDE DEF near
  <2> QED
    BY <2>1, LeastNat
<1>5. ASSUME NEW j \in left
      PROVE  far[k] < far[j] \/ (far[k] = far[j] /\ k <= j)
  <2>1. m <= far[j] /\ m \in Nat /\ far[j] \in Nat /\ far[k] = m
    BY <1>1, <1>2, <1>3, <1>4
  <2>2. far[j] = m => k <= j
    BY <1>4
  <2> HIDE DEF fars, near
  <2> QED
    BY <2>1, <2>2
<1>6. \E i \in left : \A j \in left :
        routes[i].seconds < routes[j].seconds \/ (routes[i].seconds = routes[j].seconds /\ i <= j)
  BY <1>1, <1>4, <1>5
<1> DEFINE f == Fastest(routes, left)
<1>7. /\ f \in left
      /\ \A j \in left :
           routes[f].seconds < routes[j].seconds \/ (routes[f].seconds = routes[j].seconds /\ f <= j)
  BY <1>6 DEF Fastest
<1> HIDE DEF f
<1>8. \A j \in left : routes[f].seconds <= routes[j].seconds
  BY <1>1, <1>7
<1> QED
  BY <1>7, <1>8 DEF f

\* The ranking lists the places, the fastest first.
LEMMA RankingLists ==
  ASSUME NEW routes, NEW L \in Nat, DOMAIN routes = 1..L, \A i \in 1..L : routes[i].seconds \in Nat
  PROVE  LET places == Ranking(routes)[L]
         IN  /\ DOMAIN places = 1..L /\ IsInjective(places)
             /\ \A i \in 1..L : places[i] \in 1..L
             /\ \A i \in 1..L : routes[places[1]].seconds <= routes[i].seconds
<1> DEFINE U == 1..L
           W == {Fastest(routes, R) : R \in SUBSET U}
           pick == [b \in Seq(W) |-> Fastest(routes, U \ Range(b))]
<1>0. U \subseteq Nat /\ \A i \in U : routes[i].seconds \in Nat
  <2>1. U \subseteq Nat
    OBVIOUS
  <2>2. \A i \in U : routes[i].seconds \in Nat
    OBVIOUS
  <2> QED
    BY <2>1, <2>2
<1>1. pick \in [Seq(W) -> W]
  <2> HIDE DEF U
  <2> QED
    OBVIOUS
<1>2. PICK f \in [Nat -> Seq(W)] :
        f = [n \in Nat |-> IF n = 0 THEN <<>> ELSE Append(f[n - 1], pick[f[n - 1]])]
  <2> HIDE DEF pick, W
  <2>1. PICK f : GrowsBy(f, pick, W)
    BY <1>1, GrowthExists
  <2> QED
    BY <2>1 DEF GrowsBy
<1>3. f = [n \in Nat |-> IF n = 0 THEN <<>>
                         ELSE Append(f[n - 1], Fastest(routes, U \ Range(f[n - 1])))]
  <2>1. \A n \in Nat : n # 0 => f[n - 1] \in Seq(W)
    <3> HIDE DEF pick, W, U
    <3> TAKE n \in Nat
    <3> HAVE n # 0
    <3>1. n - 1 \in Nat
      OBVIOUS
    <3> QED
      BY <3>1
  <2>2. \A n \in Nat : n # 0 => pick[f[n - 1]] = Fastest(routes, U \ Range(f[n - 1]))
    BY <2>1
  <2> HIDE DEF pick, W
  <2> QED
    BY <1>2, <2>2
<1> HIDE DEF pick, W
<1>4. PICK g : /\ g = [n \in Nat |-> IF n = 0 THEN <<>>
                                     ELSE Append(g[n - 1], Fastest(routes, (DOMAIN routes) \ Range(g[n - 1])))]
               /\ Ranking(routes) = g
  BY <1>3 DEF Ranking
<1> HIDE DEF U
<1> DEFINE next == [n \in Nat |-> Fastest(routes, U \ Range(g[n]))]
           M == Ranking(routes)[L]
<1>5. g[0] = <<>> /\ \A n \in Nat : g[n + 1] = Append(g[n], next[n])
  <2>1. g[0] = <<>>
    BY <1>4
  <2>2. ASSUME NEW n \in Nat PROVE g[n + 1] = Append(g[n], next[n])
    <3>1. n + 1 \in Nat /\ n + 1 # 0 /\ (n + 1) - 1 = n
      OBVIOUS
    <3>2. g[n + 1] = Append(g[n], Fastest(routes, U \ Range(g[n])))
      BY <1>4, <3>1 DEF U
    <3> QED
      BY <3>2
  <2> QED
    BY <2>1, <2>2
<1>6. ASSUME NEW n \in Nat, g[n] \in Seq(U) /\ Range(g[n]) # U
      PROVE  next[n] \in U \ Range(g[n])
  <2> DEFINE left == U \ Range(g[n])
  <2>1. left \subseteq U /\ left # {}
    <3>1. Range(g[n]) \subseteq U
      BY <1>6, RangeOfSeq
    <3> QED
      BY <1>6, <3>1
  <2> HIDE DEF left
  <2>2. Fastest(routes, left) \in left
    <3>1. left \subseteq Nat /\ \A i \in left : routes[i].seconds \in Nat
      BY <1>0, <2>1
    <3> QED
      BY <2>1, <3>1, FastestIsOneOfThem
  <2> QED
    BY <2>2 DEF left
<1>7. Grows(g, next, U)
  <2> HIDE DEF next
  <2> QED
    BY <1>5, <1>6 DEF Grows
<1>8. IsFiniteSet(U) /\ Cardinality(U) = L
  <2>1. 1 \in Int /\ L \in Int /\ Cardinality(1..L) = IF 1 > L THEN 0 ELSE L - 1 + 1
    BY FS_Interval
  <2>2. IsFiniteSet(1..L)
    BY FS_Interval
  <2> QED
    BY <2>1, <2>2 DEF U
<1>9. Lists(g, next, U)
  <2> HIDE DEF next
  <2> QED
    BY <1>7, <1>8, Listing
<1>10. /\ M \in Seq(U) /\ Len(M) = L /\ DOMAIN M = 1..L
       /\ IsInjective(M)
       /\ \A i \in 1..L : M[i] = next[i - 1] /\ M[i] \in U
  <2>1. M = g[L]
    BY <1>4
  <2> HIDE DEF next, M
  <2>2. LET P == g[L]
        IN  /\ P \in Seq(U) /\ Len(P) = L /\ DOMAIN P = 1..L
            /\ IsInjective(P)
            /\ \A i \in 1..L : P[i] = next[i - 1] /\ P[i] \in U
    BY <1>8, <1>9 DEF Lists
  <2> QED
    BY <2>1, <2>2
<1> HIDE DEF M
<1>11. ASSUME NEW i \in 1..L PROVE routes[M[1]].seconds <= routes[i].seconds
  <2>0. i \in U
    BY DEF U
  <2>1. 1 \in 1..L /\ M[1] = next[1 - 1] /\ 1 - 1 = 0 /\ 0 \in Nat
    BY <1>10
  <2>2. M[1] = Fastest(routes, U)
    <3>1. Range(g[0]) = {}
      BY <1>5 DEF Range
    <3> QED
      BY <2>1, <3>1
  <2>3. U \subseteq Nat /\ U # {} /\ \A j \in U : routes[j].seconds \in Nat
    BY <1>0, <2>0
  <2>4. \A j \in U : routes[Fastest(routes, U)].seconds <= routes[j].seconds
    BY <2>3, FastestIsOneOfThem
  <2> QED
    BY <2>2, <2>4 DEF U
<1> QED
  BY <1>10, <1>11 DEF M, U

\* Banning edges leaves fewer to use.
LEMMA BanningLeavesFewer ==
  ASSUME NEW origin, NEW c, NEW banned
  PROVE  EdgesAt(Network(origin, c), Usable(origin, c, banned))
           \subseteq EdgesAt(Network(origin, c), Usable(origin, c, {}))
BY DEF EdgesAt, Usable

\* A way along some edges is one along more.
LEMMA WaysStayWays ==
  ASSUME NEW some, NEW all, some \subseteq all, NEW steps, NEW from, NEW to, NEW passed,
         IsWay(steps, some, from, to, passed)
  PROVE  IsWay(steps, all, from, to, passed)
<1> DEFINE S == [edge : some, seconds : Nat]
           T == [edge : all, seconds : Nat]
<1>1. S \subseteq T
  OBVIOUS
<1>2. steps \in Seq(S)
  BY DEF IsWay
<1> HIDE DEF S, T
<1>3. steps \in Seq(T)
  BY <1>1, <1>2
<1> QED
  BY <1>3 DEF IsWay, T

\* The routes after the best: each leads there, none is faster, none comes twice.
AreFrom(routes, best, origin, destination, c) ==
  /\ DOMAIN routes = 1..Len(routes) /\ Len(routes) \in Nat
  /\ routes # <<>> /\ routes[1] = best
  /\ IsInjective(routes)
  /\ \A i \in DOMAIN routes :
       /\ IsWay(routes[i].steps, EdgesAt(Network(origin, c), Usable(origin, c, {})),
                origin, destination, routes[i].seconds)
       /\ routes[i].seconds \in Nat /\ best.seconds <= routes[i].seconds

\* The routes found while steps of the best are banned: the best is the first of
\* them, none is faster, none comes twice.
LEMMA RoutesAvoidingAreRoutes ==
  ASSUME NEW origin, NEW destination, NEW c, NEW limit,
         FindRoute(origin, destination, c, {}).found, NEW n \in Nat
  PROVE  LET best == FindRoute(origin, destination, c, {})
             routes == RoutesAvoiding(best, origin, destination, c, limit)[n].routes
         IN  AreFrom(routes, best, origin, destination, c)
<1> DEFINE best == FindRoute(origin, destination, c, {})
           D == DOMAIN best.steps
           i(l) == Costliest(best.steps, l)
           other(l) == FindRoute(origin, destination, c, {Key(best.steps[i(l)].edge)})
           R == {best} \cup {other(l) : l \in SUBSET D}
           stays(r, l) == Len(r) >= limit \/ ~other(l).found \/ Contains(r, other(l))
           edges == EdgesAt(Network(origin, c), Usable(origin, c, {}))
           IsOne(r) == IsWay(r.steps, edges, origin, destination, r.seconds) /\ r.seconds \in Nat
                         /\ best.seconds <= r.seconds
           Rs == {r \in Seq(R) : AreFrom(r, best, origin, destination, c)}
           V == (SUBSET D) \X Rs
           after(l, r) == <<l \ {i(l)}, IF stays(r, l) THEN r ELSE Append(r, other(l))>>
           step == [v \in V |-> after(v[1], v[2])]
           start == <<D, <<best>>>>
<1>1. /\ IsRoute(best, origin, destination, c, {})
      /\ NoWayIsFaster(best, origin, destination, c, {})
  BY RoutesLeadThere
<1>2. IsOne(best)
  <2> HIDE DEF best
  <2>1. best.found
    BY DEF best
  <2> QED
    BY <1>1, <2>1 DEF IsRoute
<1>3. ASSUME NEW l, other(l).found PROVE IsOne(other(l))
  <2> DEFINE banned == {Key(best.steps[i(l)].edge)}
             r == other(l)
  <2>1. IsRoute(r, origin, destination, c, banned)
    BY RoutesLeadThere
  <2> HIDE DEF r, best, banned
  <2>2. r.found
    BY <1>3 DEF r, banned
  <2>3. r.seconds \in Nat
        /\ IsWay(r.steps, EdgesAt(Network(origin, c), Usable(origin, c, banned)), origin, destination, r.seconds)
    BY <2>1, <2>2 DEF IsRoute
  <2>4. IsWay(r.steps, edges, origin, destination, r.seconds)
    BY <2>3, BanningLeavesFewer, WaysStayWays
  <2>5. best.seconds <= r.seconds
    BY <1>1, <2>4 DEF NoWayIsFaster
  <2> QED
    BY <2>3, <2>4, <2>5 DEF r, banned
<1> HIDE DEF best, other, IsOne
<1>4. \A r : AreFrom(r, best, origin, destination, c) <=>
        DOMAIN r = 1..Len(r) /\ Len(r) \in Nat /\ r # <<>> /\ r[1] = best /\ IsInjective(r) /\ \A k \in DOMAIN r : IsOne(r[k])
  BY DEF AreFrom, IsOne
<1>5. <<best>> \in Rs
  <2>1. <<best>> \in Seq(R) /\ <<best>> # <<>> /\ <<best>>[1] = best /\ DOMAIN <<best>> = 1..1
        /\ Len(<<best>>) = 1
    OBVIOUS
  <2>2. \A k \in DOMAIN <<best>> : IsOne(<<best>>[k])
    BY <1>2, <2>1
  <2>3. IsInjective(<<best>>)
    BY <2>1 DEF IsInjective
  <2> HIDE DEF R
  <2> QED
    BY <1>4, <2>1, <2>2, <2>3
<1>6. ASSUME NEW r \in Rs, NEW l \in SUBSET D, ~stays(r, l) PROVE Append(r, other(l)) \in Rs
  <2> DEFINE o == other(l)
             m == Append(r, o)
             N == Len(r)
  <2>1. IsOne(o) /\ o \in R
    BY <1>3, <1>6
  <2>2. r \in Seq(R) /\ r # <<>> /\ r[1] = best /\ IsInjective(r) /\ \A k \in DOMAIN r : IsOne(r[k])
    BY <1>4
  <2>3. \A k \in 1..N : r[k] # o
    BY <1>6 DEF Contains
  <2> HIDE DEF o, R
  <2>4. /\ m \in Seq(R) /\ DOMAIN m = 1..(N + 1) /\ Len(m) = N + 1 /\ N \in Nat /\ DOMAIN r = 1..N /\ N # 0
        /\ \A k \in 1..N : m[k] = r[k]
        /\ m[N + 1] = o
    BY <2>1, <2>2
  <2> HIDE DEF m, N
  <2>5. m # <<>> /\ m[1] = best
    BY <2>2, <2>4
  <2>6. \A k \in DOMAIN m : IsOne(m[k])
    BY <2>1, <2>2, <2>4
  <2>7. IsInjective(m)
    <3> SUFFICES ASSUME NEW a \in 1..(N + 1), NEW b \in 1..(N + 1), m[a] = m[b] PROVE a = b
      BY <2>4 DEF IsInjective
    <3>1. CASE a \in 1..N /\ b \in 1..N
      BY <2>2, <2>4, <3>1 DEF IsInjective
    <3>2. CASE a = N + 1 /\ b \in 1..N
      BY <2>3, <2>4, <3>2
    <3>3. CASE a \in 1..N /\ b = N + 1
      BY <2>3, <2>4, <3>3
    <3> QED
      BY <2>4, <3>1, <3>2, <3>3
  <2>8. AreFrom(m, best, origin, destination, c)
    BY <1>4, <2>4, <2>5, <2>6, <2>7
  <2> QED
    BY <2>4, <2>8 DEF m, o
<1> HIDE DEF R, Rs, stays
<1>7. start \in V
  BY <1>5
<1>8. step \in [V -> V]
  <2>1. ASSUME NEW l \in SUBSET D, NEW r \in Rs PROVE after(l, r) \in V
    <3> HIDE DEF i
    <3>1. (IF stays(r, l) THEN r ELSE Append(r, other(l))) \in Rs
      BY <1>6
    <3>2. l \ {i(l)} \in SUBSET D
      OBVIOUS
    <3> HIDE DEF D
    <3> QED
      BY <3>1, <3>2
  <2>2. \A v \in V : v[1] \in SUBSET D /\ v[2] \in Rs
    OBVIOUS
  <2> HIDE DEF after, V, D
  <2> QED
    BY <2>1, <2>2
<1>9. PICK f : Solves(f, V, start, step)
  <2> HIDE DEF V, step, start
  <2> QED
    BY <1>7, <1>8, StepsExist
<1>10. /\ f \in [Nat -> V] /\ f[0] = start
       /\ \A m \in Nat : f[m + 1] = after(f[m][1], f[m][2])
  <2>1. \A v \in V : step[v] = after(v[1], v[2])
    <3> HIDE DEF V, after
    <3> QED
      OBVIOUS
  <2> HIDE DEF V, step, after, start
  <2> QED
    BY <1>9, <2>1 DEF Solves
<1> DEFINE first == [left |-> D, routes |-> <<best>>]
           then(b) == [left |-> b.left \ {i(b.left)},
                       routes |-> IF stays(b.routes, b.left) THEN b.routes ELSE Append(b.routes, other(b.left))]
           g == [m \in Nat |-> [left |-> f[m][1], routes |-> f[m][2]]]
<1>11. g = [m \in Nat |-> IF m = 0 THEN first ELSE then(g[m - 1])]
  <2>1. g[0] = first
    BY <1>10
  <2>2. ASSUME NEW m \in Nat, m # 0 PROVE g[m] = then(g[m - 1])
    <3>1. m - 1 \in Nat /\ (m - 1) + 1 = m
      BY <2>2
    <3>2. f[m] = after(f[m - 1][1], f[m - 1][2])
      <4> HIDE DEF after, V
      <4> QED
        BY <1>10, <3>1
    <3> DEFINE l == f[m - 1][1]
               r == f[m - 1][2]
    <3>3. g[m - 1].left = l /\ g[m - 1].routes = r
      BY <3>1
    <3>4. f[m][1] = l \ {i(l)} /\ f[m][2] = IF stays(r, l) THEN r ELSE Append(r, other(l))
      <4> HIDE DEF l, r, i
      <4>1. f[m] = after(l, r)
        BY <3>2 DEF l, r
      <4> QED
        BY <4>1
    <3>5. g[m] = [left |-> f[m][1], routes |-> f[m][2]]
      OBVIOUS
    <3> HIDE DEF l, r, g, i, after
    <3> QED
      BY <3>3, <3>4, <3>5
  <2> HIDE DEF first, then
  <2>3. g = [m \in Nat |-> g[m]]
    OBVIOUS
  <2> HIDE DEF g
  <2> QED
    BY <2>1, <2>2, <2>3
<1> DEFINE h == RoutesAvoiding(best, origin, destination, c, limit)
<1>12. h = [m \in Nat |-> IF m = 0 THEN first ELSE then(h[m - 1])]
  <2>1. \E e : e = [m \in Nat |-> IF m = 0 THEN first ELSE then(e[m - 1])]
    BY <1>11
  <2> QED
    BY <2>1 DEF RoutesAvoiding, WithAlternative, stays, other
<1> HIDE DEF h, first, then
<1>13. \A m \in Nat : h[m] = g[m]
  <2> DEFINE M == {m \in Nat : h[m] = g[m]}
  <2> HIDE DEF g
  <2>1. 0 \in M
    BY <1>11, <1>12
  <2>2. ASSUME NEW m \in Nat, m \in M PROVE m + 1 \in M
    <3>1. m + 1 \in Nat /\ m + 1 # 0 /\ (m + 1) - 1 = m
      OBVIOUS
    <3>2. h[m + 1] = then(h[m])
      BY <1>12, <3>1
    <3>3. g[m + 1] = then(g[m])
      BY <1>11, <3>1
    <3> QED
      BY <2>2, <3>2, <3>3
  <2> HIDE DEF M
  <2>3. \A m \in Nat : m \in M
    BY <2>1, <2>2, Induction
  <2> QED
    BY <2>3 DEF M
<1> DEFINE routes == h[n].routes
<1>14. routes \in Rs
  <2>1. f[n] \in V /\ h[n] = [left |-> f[n][1], routes |-> f[n][2]]
    BY <1>10, <1>13
  <2>2. f[n][2] \in Rs
    BY <2>1
  <2> QED
    BY <2>1, <2>2
<1> HIDE DEF routes
<1> QED
  BY <1>14 DEF routes, h, best, Rs

\* An answer: each route leads there, none is faster than the first, none comes
\* twice; and no way there is, of up to n edges or of any number.
Answers(routes, origin, destination, c) ==
  LET network == Network(origin, c)
      open == Usable(origin, c, {})
  IN  /\ DOMAIN routes = 1..Len(routes) /\ Len(routes) \in Nat
      /\ IsInjective(routes)
      /\ \A i \in DOMAIN routes :
           /\ IsWay(routes[i].steps, EdgesAt(network, open), origin, destination, routes[i].seconds)
           /\ routes[i].seconds \in Nat /\ routes[1].seconds <= routes[i].seconds
      /\ \A n \in Nat :
           LET within == WithinEdges(origin, network, open, [k \in open |-> network[k].cost])[n]
           IN  destination \in DOMAIN within =>
                 routes # <<>> /\ routes[1].seconds <= within[destination]
      /\ \A steps, passed : IsWay(steps, EdgesAt(network, open), origin, destination, passed) =>
           routes # <<>> /\ routes[1].seconds <= passed

\* Without a route there is no way.
LEMMA NoRouteNoWay ==
  ASSUME NEW origin, NEW destination, NEW c, ~FindRoute(origin, destination, c, {}).found
  PROVE  Answers(<<>>, origin, destination, c)
<1> DEFINE network == Network(origin, c)
           open == Usable(origin, c, {})
           best == FindRoute(origin, destination, c, {})
           weight == [k \in open |-> network[k].cost]
<1>1. Fastens(best, origin, destination, c, {}) /\ NoWayIsFaster(best, origin, destination, c, {})
  BY RoutesLeadThere
<1>2. ~best.found
  OBVIOUS
<1> HIDE DEF best
<1>3. \A n \in Nat : destination \notin DOMAIN WithinEdges(origin, network, open, weight)[n]
  BY <1>1, <1>2 DEF Fastens
<1>4. \A steps, passed : ~IsWay(steps, EdgesAt(network, open), origin, destination, passed)
  BY <1>1, <1>2 DEF NoWayIsFaster
<1>5. DOMAIN <<>> = 1..Len(<<>>) /\ Len(<<>>) \in Nat /\ DOMAIN <<>> = {}
  OBVIOUS
<1>6. IsInjective(<<>>)
  BY <1>5 DEF IsInjective
<1> HIDE DEF network, open, weight
<1> QED
  BY <1>3, <1>4, <1>5, <1>6 DEF Answers, network, open, weight

\* The router's answers are such answers.
LEMMA FindRoutesAnswers ==
  ASSUME NEW origin, NEW destination, NEW c, NEW limit
  PROVE  Answers(FindRoutes(origin, destination, c, limit), origin, destination, c)
<1> DEFINE best == FindRoute(origin, destination, c, {})
           found == FindRoutes(origin, destination, c, limit)
<1>1. CASE ~best.found
  <2>1. found = <<>>
    BY <1>1 DEF FindRoutes
  <2> QED
    BY <1>1, <2>1, NoRouteNoWay
<1>2. CASE best.found
  <2> DEFINE network == Network(origin, c)
             open == Usable(origin, c, {})
             weight == [k \in open |-> network[k].cost]
             routes == RoutesAvoiding(best, origin, destination, c, limit)[Len(best.steps)].routes
             L == Len(routes)
             places == Ranking(routes)[L]
  <2>1. found = [n \in DOMAIN routes |-> routes[places[n]]]
    BY <1>2 DEF FindRoutes, Sorted
  <2>2. /\ IsRoute(best, origin, destination, c, {})
        /\ Fastens(best, origin, destination, c, {}) /\ NoWayIsFaster(best, origin, destination, c, {})
    BY RoutesLeadThere
  <2>3. Len(best.steps) \in Nat
    <3> HIDE DEF best
    <3>1. IsWay(best.steps, EdgesAt(network, open), origin, destination, best.seconds)
      BY <1>2, <2>2 DEF IsRoute
    <3> DEFINE S == [edge : EdgesAt(network, open), seconds : Nat]
    <3>2. best.steps \in Seq(S)
      BY <3>1 DEF IsWay
    <3> HIDE DEF S
    <3> QED
      BY <3>2
  <2>4. /\ AreFrom(routes, best, origin, destination, c)
        /\ DOMAIN routes = 1..L /\ L \in Nat
    <3> DEFINE n == Len(best.steps)
    <3>1. n \in Nat
      BY <2>3
    <3>2. AreFrom(RoutesAvoiding(best, origin, destination, c, limit)[n].routes, best, origin, destination, c)
      <4> HIDE DEF n
      <4> QED
        BY <1>2, <3>1, RoutesAvoidingAreRoutes
    <3>3. AreFrom(routes, best, origin, destination, c)
      BY <3>2
    <3> HIDE DEF routes, n
    <3> QED
      BY <3>3 DEF AreFrom
  <2> HIDE DEF best, routes, L, found
  <2>5. /\ routes # <<>> /\ routes[1] = best /\ IsInjective(routes)
        /\ \A i \in 1..L :
             /\ IsWay(routes[i].steps, EdgesAt(network, open), origin, destination, routes[i].seconds)
             /\ routes[i].seconds \in Nat /\ best.seconds <= routes[i].seconds
    BY <2>4 DEF AreFrom
  <2>6. /\ DOMAIN places = 1..L /\ IsInjective(places)
        /\ \A i \in 1..L : places[i] \in 1..L
        /\ \A i \in 1..L : routes[places[1]].seconds <= routes[i].seconds
    BY <2>4, <2>5, RankingLists
  <2> HIDE DEF places
  <2>7. L # 0 /\ 1 \in 1..L
    <3>1. L # 0
      BY <2>4, <2>5 DEF L
    <3> QED
      BY <2>4, <3>1
  <2>8. /\ DOMAIN found = 1..L
        /\ \A i \in 1..L : found[i] = routes[places[i]] /\ places[i] \in 1..L
    BY <2>1, <2>4, <2>6
  <2>9. Len(found) = L /\ DOMAIN found = 1..Len(found) /\ Len(found) \in Nat /\ found # <<>>
    <3> DEFINE S == {routes[i] : i \in 1..L}
    <3>1. found \in [1..L -> S]
      BY <2>1, <2>4, <2>8
    <3> HIDE DEF S
    <3>2. found \in Seq(S) /\ Len(found) = L
      BY <2>4, <3>1
    <3> QED
      BY <2>4, <2>7, <2>8, <3>2
  <2>10. IsInjective(found)
    <3> SUFFICES ASSUME NEW a \in 1..L, NEW b \in 1..L, found[a] = found[b] PROVE a = b
      BY <2>8 DEF IsInjective
    <3>1. routes[places[a]] = routes[places[b]] /\ places[a] \in 1..L /\ places[b] \in 1..L
      BY <2>8
    <3>2. places[a] = places[b]
      BY <2>4, <2>5, <3>1 DEF IsInjective
    <3> QED
      BY <2>6, <3>2 DEF IsInjective
  <2>11. ASSUME NEW i \in 1..L
         PROVE  /\ IsWay(found[i].steps, EdgesAt(network, open), origin, destination, found[i].seconds)
                /\ found[i].seconds \in Nat /\ found[1].seconds <= found[i].seconds
    BY <2>5, <2>6, <2>7, <2>8
  <2>12. found[1].seconds <= best.seconds /\ found[1].seconds \in Nat /\ best.seconds \in Nat
    <3>1. found[1] = routes[places[1]]
      BY <2>7, <2>8
    <3>2. routes[places[1]].seconds <= routes[1].seconds
      BY <2>6, <2>7
    <3>3. best.seconds \in Nat
      BY <2>5, <2>7
    <3> QED
      BY <2>5, <2>7, <2>11, <3>1, <3>2, <3>3
  <2>13. ASSUME NEW n \in Nat, destination \in DOMAIN WithinEdges(origin, network, open, weight)[n]
         PROVE  found[1].seconds <= WithinEdges(origin, network, open, weight)[n][destination]
    <3> DEFINE w == WithinEdges(origin, network, open, weight)[n][destination]
    <3>1. best.seconds <= w
      BY <2>2, <2>13 DEF Fastens
    <3>2. w \in Nat
      BY <2>2, <2>13, NumbersWithin
    <3> HIDE DEF w
    <3>3. found[1].seconds <= w
      BY <2>12, <3>1, <3>2
    <3> QED
      BY <3>3 DEF w
  <2>14. ASSUME NEW steps, NEW passed, IsWay(steps, EdgesAt(network, open), origin, destination, passed)
         PROVE  found[1].seconds <= passed
    <3>1. best.seconds <= passed
      BY <2>2, <2>14 DEF NoWayIsFaster
    <3>2. passed \in Nat
      BY <2>14, WaysTakeSeconds
    <3> QED
      BY <2>12, <3>1, <3>2
  <2> HIDE DEF network, open, weight
  <2>15. Answers(found, origin, destination, c)
    BY <2>8, <2>9, <2>10, <2>11, <2>13, <2>14 DEF Answers, network, open, weight
  <2> QED
    BY <2>15 DEF found
<1> QED
  BY <1>1, <1>2

-----------------------------------------------------------------------------
(* The planner: its invariant, and the theorems.                           *)
\* The zones the router has been asked about.
Around == QuestZones \cup Starts \cup (IF library \in Touring THEN Destinations ELSE {})

\* A graph that is served has been searched and found sound.
ServedIsSound == stage = "serving" => stack = <<>> /\ roots = <<>> /\ ~cycles /\ ~Problems

\* Whoever plays does so on a served graph, from a zone the router was asked about.
SecondsAreKnown ==
  hero # NoHero => /\ stage = "serving" /\ here \in Around /\ DOMAIN seconds = Around
                   /\ \A o \in Around : \A d \in QuestZones : seconds[o][d] \in Nat

\* The last answer about a journey is the router's to what is asked of it.
TripIsAnswered ==
  trip # NoTrip =>
    hero # NoHero /\ \E limit \in Alternatives : trip.routes = FindRoutes(trip.from, trip.to, Asked, limit)

\* The inductive invariant of the planner.
PlannerInv == SearchInv /\ ServedIsSound /\ SecondsAreKnown /\ TripIsAnswered

\* The invariant of the planner holds when the graph is given its data.
LEMMA PlannerInvInit ==
  ASSUME PlannerInit
  PROVE  PlannerInv
<1>1. SearchInv
  BY InvInit DEF PlannerInit, Init
<1> QED
  BY <1>1 DEF PlannerInit, Init, PlannerInv, ServedIsSound, SecondsAreKnown, TripIsAnswered

\* While the graph does not change, neither does what is derived from it.
LEMMA SameGraph ==
  ASSUME graphVars' = graphVars
  PROVE  /\ library' = library /\ stage' = stage /\ Ids' = Ids
         /\ QuestZones' = QuestZones /\ Around' = Around
         /\ ServedIsSound => ServedIsSound'
         /\ SearchInv => SearchInv'
<1>1. library' = library /\ roots' = roots /\ stack' = stack /\ colour' = colour /\ cycles' = cycles
      /\ stage' = stage /\ searchVars' = searchVars
  BY DEF graphVars, searchVars
<1>2. Ids' = Ids
  BY <1>1 DEF Ids
<1>3. QuestZones' = QuestZones
  BY <1>1 DEF QuestZones, Ids, Q
<1>4. Problems' = Problems
  BY <1>1 DEF Problems, Prerequisites, Known, Ids, Q
<1>5. SearchInv => SearchInv'
  BY <1>1, InvStep
<1> QED
  BY <1>1, <1>2, <1>3, <1>4, <1>5 DEF Around, ServedIsSound

\* A step of the search, or the end of it, keeps the invariant.
LEMMA BuildKeeps ==
  ASSUME PlannerInv, Build, UNCHANGED <<logVars, here, seconds, trip>>
  PROVE  PlannerInv'
<1>1. /\ hero' = hero /\ level' = level /\ here' = here /\ seconds' = seconds /\ trip' = trip
  BY DEF logVars
<1>2. Asked' = Asked
  BY <1>1 DEF Asked
<1>3. TripIsAnswered'
  BY <1>1, <1>2 DEF PlannerInv, TripIsAnswered
<1>4. stage # "serving"
  <2>1. CASE SearchNext
    <3>1. stack # <<>> \/ roots # <<>>
      BY <2>1 DEF SearchNext, NextRoot, VisitIsOver, FindCycle, Revisit, Visit
    <3> QED
      BY <3>1 DEF PlannerInv, ServedIsSound
  <2>2. CASE Built
    BY <2>2 DEF Built
  <2> QED
    BY <2>1, <2>2 DEF Build
<1>5. SecondsAreKnown'
  BY <1>1, <1>4 DEF PlannerInv, SecondsAreKnown
<1>6. CASE SearchNext /\ UNCHANGED stage
  <2>1. SearchInv'
    BY <1>6, InvStep DEF PlannerInv
  <2>2. ServedIsSound'
    BY <1>4, <1>6 DEF ServedIsSound
  <2> QED
    BY <1>3, <1>5, <2>1, <2>2 DEF PlannerInv
<1>7. CASE Built
  <2>1. UNCHANGED searchVars /\ stack = <<>> /\ roots = <<>>
        /\ stage' = IF cycles \/ Problems THEN "rejected" ELSE "serving"
    BY <1>7 DEF Built
  <2>2. SearchInv'
    BY <2>1, InvStep DEF PlannerInv
  <2>3. library' = library /\ stack' = stack /\ roots' = roots /\ cycles' = cycles
    BY <2>1 DEF searchVars
  <2>4. Problems' = Problems
    BY <2>3 DEF Problems, Prerequisites, Known, Ids, Q
  <2>5. ServedIsSound'
    BY <2>1, <2>3, <2>4 DEF ServedIsSound
  <2> QED
    BY <1>3, <1>5, <2>2, <2>5 DEF PlannerInv
<1> QED
  BY <1>6, <1>7 DEF Build

\* What the router answers is a number.
LEMMA SecondsAreNumbers ==
  ASSUME NEW h
  PROVE  DOMAIN Seconds(h) = Around /\ \A o \in Around : \A d \in QuestZones : Seconds(h)[o][d] \in Nat
<1> DEFINE time(o, d) == IF FindRoute(o, d, Planning(h), {}).found
                           THEN FindRoute(o, d, Planning(h), {}).seconds ELSE UNREACHABLE_COST
<1>1. \A o, d : time(o, d) \in Nat
  <2> TAKE o, d
  <2> DEFINE route == FindRoute(o, d, Planning(h), {})
  <2>1. IsRoute(route, o, d, Planning(h), {})
    BY RoutesLeadThere
  <2> HIDE DEF route
  <2>2. route.seconds \in Nat
    BY <2>1 DEF IsRoute
  <2>3. UNREACHABLE_COST \in Nat
    BY DEF UNREACHABLE_COST
  <2> QED
    BY <2>2, <2>3 DEF route
<1>2. Seconds(h) = [o \in Around |-> [d \in QuestZones |-> time(o, d)]]
  BY DEF Seconds, Around
<1> HIDE DEF time
<1> QED
  BY <1>1, <1>2

\* A character who enters has been told the seconds from everywhere.
LEMMA EnterKeeps ==
  ASSUME PlannerInv, NEW h \in Heroes, NEW zone \in Starts, Enter(h, zone)
  PROVE  PlannerInv'
<1>1. /\ stage = "serving" /\ hero = NoHero /\ graphVars' = graphVars
      /\ here' = zone /\ seconds' = Seconds(h) /\ trip' = trip
  BY DEF Enter, Begin
<1>2. SearchInv' /\ ServedIsSound' /\ Around' = Around /\ QuestZones' = QuestZones /\ stage' = stage
  BY <1>1, SameGraph DEF PlannerInv
<1>3. DOMAIN seconds' = Around /\ \A o \in Around : \A d \in QuestZones : seconds'[o][d] \in Nat
  BY <1>1, SecondsAreNumbers
<1>4. here' \in Around
  BY <1>1 DEF Around
<1>5. SecondsAreKnown'
  BY <1>1, <1>2, <1>3, <1>4 DEF SecondsAreKnown
<1>6. TripIsAnswered'
  BY <1>1 DEF PlannerInv, TripIsAnswered
<1> QED
  BY <1>2, <1>5, <1>6 DEF PlannerInv

\* A journey ends where the router has been asked about, and keeps its answer.
LEMMA TravelKeeps ==
  ASSUME PlannerInv, Travel
  PROVE  PlannerInv'
<1>0. PICK destination \in Destinations, limit \in Alternatives :
        LET routes == FindRoutes(here, destination, [hero EXCEPT !.level = level], limit)
        IN  /\ trip' = [from |-> here, to |-> destination, routes |-> routes]
            /\ here' = IF routes = <<>> THEN here ELSE destination
  BY DEF Travel
<1> DEFINE routes == FindRoutes(here, destination, [hero EXCEPT !.level = level], limit)
<1>1. /\ library \in Touring /\ hero # NoHero
      /\ trip' = [from |-> here, to |-> destination, routes |-> routes]
      /\ here' = here \/ here' = destination
      /\ graphVars' = graphVars /\ hero' = hero /\ level' = level /\ seconds' = seconds
  BY <1>0 DEF Travel, logVars
<1>2. SearchInv' /\ ServedIsSound' /\ Around' = Around /\ QuestZones' = QuestZones /\ stage' = stage
  BY <1>1, SameGraph DEF PlannerInv
<1>3. here' \in Around
  BY <1>1 DEF Around, PlannerInv, SecondsAreKnown
<1>4. SecondsAreKnown'
  BY <1>1, <1>2, <1>3 DEF PlannerInv, SecondsAreKnown
<1>5. routes = FindRoutes(here, destination, Asked, limit)
  BY DEF Asked
<1> HIDE DEF routes
<1>6. trip'.from = here /\ trip'.to = destination /\ trip'.routes = routes
  BY <1>1
<1>7. Asked' = Asked
  BY <1>1 DEF Asked
<1>8. trip'.routes = FindRoutes(trip'.from, trip'.to, Asked', limit)
  BY <1>5, <1>6, <1>7
<1>9. TripIsAnswered'
  BY <1>1, <1>8 DEF TripIsAnswered
<1> QED
  BY <1>2, <1>4, <1>9 DEF PlannerInv

\* Steps of the play after which the last answer is still of what is asked.
LEMMA PlayKeeps ==
  ASSUME PlannerInv, graphVars' = graphVars, hero' = hero, seconds' = seconds, trip' = trip,
         level' = level \/ trip = NoTrip, hero # NoHero => here' \in Around
  PROVE  PlannerInv'
<1>1. SearchInv' /\ ServedIsSound' /\ Around' = Around /\ QuestZones' = QuestZones /\ stage' = stage
  BY SameGraph DEF PlannerInv
<1>2. SecondsAreKnown'
  BY <1>1 DEF PlannerInv, SecondsAreKnown
<1>3. TripIsAnswered'
  <2>1. CASE level' = level
    <3>1. Asked' = Asked
      BY <2>1 DEF Asked
    <3> QED
      BY <3>1 DEF PlannerInv, TripIsAnswered
  <2>2. CASE trip = NoTrip
    BY <2>2 DEF TripIsAnswered
  <2> QED
    BY <2>1, <2>2
<1> QED
  BY <1>1, <1>2, <1>3 DEF PlannerInv

\* Every step keeps the invariant.
LEMMA PlannerInvStep ==
  ASSUME PlannerInv, [Next]_vars
  PROVE  PlannerInv'
<1>0. hero # NoHero => here \in Around
  BY DEF PlannerInv, SecondsAreKnown
<1>1. CASE Build /\ UNCHANGED <<logVars, here, seconds, trip>>
  BY <1>1, BuildKeeps
<1>2. CASE \E h \in Heroes, zone \in Starts : Enter(h, zone)
  BY <1>2, EnterKeeps
<1>3. CASE Travel
  BY <1>3, TravelKeeps
<1>4. ASSUME NEW id \in Ids, Accept(id) PROVE PlannerInv'
  <2>1. /\ graphVars' = graphVars /\ hero' = hero /\ level' = level /\ seconds' = seconds /\ trip' = trip
        /\ here' = IF Q(id).zone = Nowhere THEN here ELSE Q(id).zone
    BY <1>4 DEF Accept, PickUp
  <2>2. Q(id).zone # Nowhere => Q(id).zone \in Around
    BY DEF Around, QuestZones
  <2>3. hero # NoHero => here' \in Around
    BY <1>0, <2>1, <2>2
  <2> QED
    BY <2>1, <2>3, PlayKeeps
<1>5. ASSUME NEW id \in Ids, Complete(id) /\ Stay PROVE PlannerInv'
  BY <1>0, <1>5, PlayKeeps DEF Complete, Stay
<1>6. CASE trip = NoTrip /\ LevelUp /\ Stay
  BY <1>0, <1>6, PlayKeeps DEF LevelUp, Stay
<1>7. CASE UNCHANGED vars
  BY <1>0, <1>7, PlayKeeps DEF vars, logVars
<1> QED
  BY <1>1, <1>2, <1>3, <1>4, <1>5, <1>6, <1>7 DEF Next

-----------------------------------------------------------------------------
\* What holds of a served graph.
LEMMA ServedGraphs ==
  ASSUME PlannerInv, hero # NoHero
  PROVE  library \in Libraries /\ ~IsCyclic /\ ~Problems /\ SecondsKnown
<1>1. CyclesAreFound
  BY VerdictIsRight DEF PlannerInv
<1>2. stack = <<>> /\ roots = <<>> /\ ~cycles /\ ~Problems
  BY DEF PlannerInv, SecondsAreKnown, ServedIsSound
<1>3. SecondsKnown
  BY DEF PlannerInv, SecondsAreKnown, SecondsKnown, Around
<1> QED
  BY <1>1, <1>2, <1>3 DEF CyclesAreFound, PlannerInv, SearchInv, TypeOK

\* No way at all that the character can go is faster than the first route, and
\* without a route there is none.
NoneIsFasterAtAll ==
  trip # NoTrip =>
    \A steps, passed : IsWay(steps, EdgesAt(Ways, Open), trip.from, trip.to, passed) =>
      trip.routes # <<>> /\ trip.routes[1].seconds <= passed

\* By the invariant the last answer is one of the router.
LEMMA AnswersAreFastest ==
  ASSUME PlannerInv
  PROVE  RoutesAreFastest /\ NoneIsFasterAtAll
<1> SUFFICES ASSUME trip # NoTrip PROVE RoutesAreFastest /\ NoneIsFasterAtAll
  BY DEF RoutesAreFastest, NoneIsFasterAtAll
<1> DEFINE routes == trip.routes
           open == Usable(trip.from, Asked, {})
           weight == [k \in Open |-> Ways[k].cost]
<1>1. Answers(routes, trip.from, trip.to, Asked)
  BY FindRoutesAnswers DEF PlannerInv, TripIsAnswered
<1>2. open = Open /\ Network(trip.from, Asked) = Ways
  BY DEF Usable, Open, Ways
<1> HIDE DEF routes, open
<1>3. /\ DOMAIN routes = 1..Len(routes) /\ IsInjective(routes)
      /\ \A i \in DOMAIN routes :
           /\ IsWay(routes[i].steps, EdgesAt(Ways, Open), trip.from, trip.to, routes[i].seconds)
           /\ routes[i].seconds \in Nat /\ routes[1].seconds <= routes[i].seconds
      /\ \A n \in Nat :
           trip.to \in DOMAIN WithinEdges(trip.from, Ways, Open, weight)[n] =>
             routes # <<>> /\ routes[1].seconds <= WithinEdges(trip.from, Ways, Open, weight)[n][trip.to]
      /\ \A steps, passed : IsWay(steps, EdgesAt(Ways, Open), trip.from, trip.to, passed) =>
           routes # <<>> /\ routes[1].seconds <= passed
  BY <1>1, <1>2 DEF Answers, open
<1> HIDE DEF weight
<1>4. NoneIsFasterAtAll
  BY <1>3 DEF NoneIsFasterAtAll, routes
<1>5. MaxEdges \in Nat
  <2>1. IsNetwork(Ways) /\ Open \subseteq DOMAIN Ways
    BY NetworksAreNetworks DEF Ways, Open, Adjacency
  <2> QED
    BY <2>1, TargetsAreFinite DEF MaxEdges
<1>6. NoneIsFaster(MaxEdges)
  BY <1>3, <1>5 DEF NoneIsFaster, routes, weight
<1>7. ASSUME NEW i \in DOMAIN routes
      PROVE  LeadsThere(routes[i]) /\ routes[i].seconds >= routes[1].seconds
  <2> DEFINE steps == routes[i].steps
             edges == EdgesAt(Ways, Open)
             passed == routes[i].seconds
  <2>1. IsWay(steps, edges, trip.from, trip.to, passed)
    BY <1>3
  <2>2. passed >= routes[1].seconds
    <3>1. 1 \in DOMAIN routes
      BY <1>3
    <3> QED
      BY <1>3, <3>1
  <2> DEFINE S == [edge : edges, seconds : Nat]
  <2>3. steps \in Seq(S)
    BY <2>1 DEF IsWay
  <2>4. DOMAIN steps = 1..Len(steps) /\ \A n \in DOMAIN steps : steps[n] \in S
    <3> HIDE DEF S, steps
    <3> QED
      BY <2>3
  <2>5. \A n \in DOMAIN steps : \E k \in Open : steps[n].edge = Ways[k]
    <3> HIDE DEF steps
    <3> QED
      BY <2>4 DEF EdgesAt
  <2>6. /\ \A n \in DOMAIN steps :
             /\ steps[n].edge.from = IF n - 1 = 0 THEN trip.from ELSE steps[n - 1].edge.to
             /\ steps[n].seconds = (IF n - 1 = 0 THEN 0 ELSE steps[n - 1].seconds) + steps[n].edge.cost
        /\ (IF Len(steps) = 0 THEN trip.from ELSE steps[Len(steps)].edge.to) = trip.to
        /\ (IF Len(steps) = 0 THEN 0 ELSE steps[Len(steps)].seconds) = passed
    <3> HIDE DEF steps, passed, edges
    <3> QED
      BY <2>1, <2>4 DEF IsWay, At, Passed
  <2>7. LeadsThere(routes[i])
    BY <2>5, <2>6 DEF LeadsThere
  <2> QED
    BY <2>2, <2>7
<1> QED
  BY <1>3, <1>4, <1>6, <1>7 DEF RoutesAreFastest, routes

\* Who plays has a progress of quests of the graph, each completed or under way
\* and not both, at one of the levels.
PlannerTypeOK ==
  /\ stage \in {"validating", "rejected", "serving"}
  /\ hero \in Heroes \cup {NoHero} /\ level \in Levels
  /\ completed \in SUBSET Ids /\ inProgress \in SUBSET Ids
  /\ completed \cap inProgress = {}
  /\ hero = NoHero => completed \cup inProgress = {}

\* Every step keeps the types.
LEMMA PlannerTypesKept ==
  ASSUME PlannerTypeOK, [Next]_vars
  PROVE  PlannerTypeOK'
<1>1. CASE Build /\ UNCHANGED <<logVars, here, seconds, trip>>
  <2>1. library' = library /\ stage' \in {"validating", "rejected", "serving"}
    <3>1. CASE SearchNext /\ UNCHANGED stage
      BY <3>1 DEF SearchNext, NextRoot, VisitIsOver, FindCycle, Revisit, Visit, PlannerTypeOK
    <3>2. CASE Built
      BY <3>2 DEF Built, searchVars
    <3> QED
      BY <1>1, <3>1, <3>2 DEF Build
  <2>2. Ids' = Ids
    BY <2>1 DEF Ids
  <2> QED
    BY <1>1, <2>1, <2>2 DEF logVars, PlannerTypeOK
<1>2. ASSUME graphVars' = graphVars
      PROVE  Ids' = Ids /\ stage' = stage
  BY <1>2 DEF graphVars, searchVars, Ids
<1>3. CASE \E h \in Heroes, zone \in Starts : Enter(h, zone)
  <2>1. PICK h \in Heroes : Begin(h)
    BY <1>3 DEF Enter
  <2> QED
    BY <1>2, <2>1 DEF Begin, PlannerTypeOK
<1>4. CASE Travel
  <2>1. graphVars' = graphVars /\ UNCHANGED logVars
    BY <1>4 DEF Travel
  <2> QED
    BY <1>2, <2>1 DEF logVars, PlannerTypeOK
<1>5. ASSUME NEW id \in Ids, Accept(id) PROVE PlannerTypeOK'
  <2>1. /\ hero # NoHero /\ StatusFor(id, Now) = "available"
        /\ inProgress' = inProgress \cup {id}
        /\ graphVars' = graphVars /\ hero' = hero /\ level' = level /\ completed' = completed
    BY <1>5 DEF Accept, PickUp
  <2>2. id \notin completed
    BY <2>1 DEF StatusFor, Now
  <2> QED
    BY <1>2, <2>1, <2>2 DEF PlannerTypeOK
<1>6. ASSUME NEW id \in Ids, Complete(id) PROVE PlannerTypeOK'
  BY <1>2, <1>6 DEF Complete, PlannerTypeOK
<1>7. CASE LevelUp
  <2> DEFINE higher == {l \in Levels : l > level}
  <2>1. higher # {} /\ higher \subseteq Nat /\ higher \subseteq Levels
    BY <1>7, LevelsAssumption DEF LevelUp
  <2>2. /\ level' = Min(higher) /\ graphVars' = graphVars
        /\ hero' = hero /\ completed' = completed /\ inProgress' = inProgress
    BY <1>7 DEF LevelUp
  <2> HIDE DEF higher
  <2>3. level' \in Levels
    BY <2>1, <2>2, MinIsLeast
  <2> QED
    BY <1>2, <2>2, <2>3 DEF PlannerTypeOK
<1>8. CASE UNCHANGED vars
  BY <1>2, <1>8 DEF vars, logVars, PlannerTypeOK
<1> QED
  BY <1>1, <1>3, <1>4, <1>5, <1>6, <1>7, <1>8 DEF Next

\* The types of the graph and of the character who plays on it: in particular
\* a quest that is completed is never under way again.
THEOREM PlannerTypeCorrect == Spec => []PlannerTypeOK
<1>1. PlannerInit => PlannerTypeOK
  <2>1. Levels # {} /\ Levels \subseteq Nat
    BY LevelsAssumption
  <2>2. Min(Levels) \in Levels
    BY <2>1, MinIsLeast
  <2> QED
    BY <2>2 DEF PlannerInit, Init, PlannerTypeOK
<1> QED
  BY <1>1, PlannerTypesKept, PTL DEF Spec

\* The search reports a cycle exactly when the prerequisites have one, in every
\* graph that is built (_detect_cycles), also while characters play on it.
THEOREM CyclesAreAlwaysFound == Spec => []CyclesAreFound
<1>1. PlannerInv => CyclesAreFound
  BY VerdictIsRight DEF PlannerInv
<1> QED
  BY PlannerInvInit, PlannerInvStep, <1>1, PTL DEF Spec

\* The path to a quest can always be played as it is told (path_to): its quests
\* come after those they wait for, for every library, character and progress.
THEOREM PathsAreAlwaysPlayable == Spec => []PathIsPlayable
<1>1. PlannerInv => PathIsPlayable
  BY ServedGraphs, PathsArePlayable DEF PathIsPlayable
<1> QED
  BY PlannerInvInit, PlannerInvStep, <1>1, PTL DEF Spec

\* A plan holds each quest that is not left out once, and within a zone none
\* before one it waits for (optimize_quest_route), for every library, set of
\* quests, progress and place of the character.
THEOREM PlansAreAlwaysSound == Spec => []PlanIsSound
<1>1. PlannerInv => PlanIsSound
  BY ServedGraphs, PlansAreSound DEF PlanIsSound
<1> QED
  BY PlannerInvInit, PlannerInvStep, <1>1, PTL DEF Spec

\* The routes of an answer can all be gone by the character who asks, none comes
\* twice, and the first is the fastest there is (find_routes, find_route).
THEOREM RoutesAreAlwaysFastest == Spec => []RoutesAreFastest
  BY PlannerInvInit, PlannerInvStep, AnswersAreFastest, PTL DEF Spec

\* The first route is the fastest of all ways, however long they are, and there is
\* no way where the router finds no route: a search cannot end too early.
THEOREM NoWayIsEverFaster == Spec => []NoneIsFasterAtAll
  BY PlannerInvInit, PlannerInvStep, AnswersAreFastest, PTL DEF Spec
=============================================================================
