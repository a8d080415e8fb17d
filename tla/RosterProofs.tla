------------------------------ MODULE RosterProofs ------------------------------
(***************************************************************************)
(* What TLAPS proves of Roster for any characters, classes, rosters and    *)
(* requests: the types, and that no commit takes back what a user wrote.   *)
(***************************************************************************)
EXTENDS Roster, FiniteSetTheorems, TLAPS

Request == [kind : {None, "create", "update", "delete", "import"},
            pc : {"idle", "exists", "write", "next", "written", "done", "failed"},
            counted : Nat, pos : Nat, id : Ids \cup {NoId}, seen : Row \cup {NoRow},
            new : Row \cup {NoRow}, put : Puts, alone : BOOLEAN, stopped : BOOLEAN]

\* No two open transactions have written one row.
Locks == \A r, d \in Requests : r # d => DOMAIN req[r].put \cap DOMAIN req[d].put = {}

\* Until a request is done, no row carries an id of its making.
Unborn(r) == req[r].pc \notin {"done", "failed"} => \A ch \in Chars : rows[<<r, ch>>] = NoRow

\* What a request holds: a row it makes, or one that is there, with the
\* user's fields as they are, unless it is the PATCH that writes them.
Held(r, q) ==
  \A i \in DOMAIN q.put : q.put[i] # NoRow =>
    /\ i[1] = r \/ rows[i] # NoRow
    /\ rows[i] # NoRow => q.put[i].goals = rows[i].goals \/ (q.kind = "update" /\ q.put[i].goals = r)

\* What a request is about to write.
Ready(r, q) ==
  /\ q.pc \in {"idle", "exists", "done", "failed"} => DOMAIN q.put = {}
  /\ q.pc = "exists" => q.kind = "create" /\ q.id = NoId /\ q.new \in Row
  /\ q.pc = "next" => q.kind = "import" /\ q.pos > 0
  /\ q.pc = "written" => q.kind # "import"
  /\ q.pc = "write" =>
       /\ q.kind = "import" => q.pos > 0
       /\ q.kind # "import" => DOMAIN q.put = {}
       /\ q.id = NoId => q.kind \in {"create", "import"} /\ q.new \in Row
       /\ q.id # NoId => q.kind \in {"update", "delete", "import"}
       /\ q.id # NoId /\ q.kind # "delete" => q.new \in Row /\ q.seen \in Row
       /\ q.kind = "update" => q.new.goals \in {q.seen.goals, r}
       /\ q.kind = "import" /\ q.id # NoId => q.new.goals = q.seen.goals

Inv ==
  /\ TypeOK /\ Locks
  /\ \A r \in Requests : Unborn(r) /\ Held(r, req[r]) /\ Ready(r, req[r])

-------------------------------------------------------------------------------

LEMMA NoRowIsNone == NoRow \notin Row /\ NoId \notin Ids
  BY ConstantsAssumption DEF NoRow, Row, NoId, Ids

LEMMA NoPutTyped == NoPut \in Puts /\ DOMAIN NoPut = {}
<1>1. NoPut \in [{} -> Row \cup {NoRow}] /\ {} \in SUBSET Ids
  BY DEF NoPut
<1> QED
  BY <1>1 DEF Puts, NoPut

LEMMA PutTyped ==
  ASSUME NEW put \in Puts
  PROVE  DOMAIN put \subseteq Ids /\ \A i \in DOMAIN put : put[i] \in Row \cup {NoRow}
  BY DEF Puts

LEMMA IdleTyped == Idle \in Request
  BY NoPutTyped DEF Idle, Request

LEMMA IdleInOrder == ASSUME NEW r PROVE Held(r, Idle) /\ Ready(r, Idle)
<1>1. DOMAIN Idle.put = {} /\ Idle.pc = "idle" /\ Idle.kind = None
  BY NoPutTyped DEF Idle
<1> QED
  BY <1>1 DEF Held, Ready

LEMMA Known ==
  ASSUME Inv, NEW r \in Requests
  PROVE  /\ req[r] \in Request /\ rows \in [Ids -> Row \cup {NoRow}] /\ req \in [Requests -> Request]
         /\ Held(r, req[r]) /\ Ready(r, req[r]) /\ Unborn(r)
         /\ DOMAIN req[r].put \subseteq Ids
         /\ \A i \in DOMAIN req[r].put : req[r].put[i] \in Row \cup {NoRow}
<1>1. req \in [Requests -> Request] /\ rows \in [Ids -> Row \cup {NoRow}]
  BY DEF Inv, TypeOK, Request
<1>2. req[r].put \in Puts
  BY <1>1 DEF Request
<1> QED
  BY <1>1, <1>2, PutTyped DEF Inv

\* A step of one request that writes no row keeps the invariant.
LEMMA Moves ==
  ASSUME Inv, NEW r \in Requests, NEW q \in Request, rows' = rows,
         req' \in [Requests -> Request], req'[r] = q,
         \A d \in Requests \ {r} : req'[d] = req[d] \/ req'[d] = [req[d] EXCEPT !.alone = FALSE],
         Held(r, q), Ready(r, q),
         req[r].pc \in {"done", "failed"} => q.pc \in {"done", "failed"},
         \A d \in Requests \ {r} : DOMAIN q.put \cap DOMAIN req[d].put = {}
  PROVE  Inv'
<1>1. \A d \in Requests \ {r} :
        /\ req'[d].pc = req[d].pc /\ req'[d].kind = req[d].kind /\ req'[d].put = req[d].put
        /\ req'[d].id = req[d].id /\ req'[d].new = req[d].new /\ req'[d].seen = req[d].seen
        /\ req'[d].pos = req[d].pos
  BY Known DEF Request
<1>2. TypeOK'
  BY DEF Inv, TypeOK, Request
<1>3. Locks'
  BY <1>1 DEF Inv, Locks
<1>4. \A d \in Requests : Unborn(d)'
  BY <1>1 DEF Inv, Unborn
<1>5. \A d \in Requests : Held(d, req[d])'
  BY <1>1 DEF Inv, Held
<1>6. \A d \in Requests : Ready(d, req[d])'
  BY <1>1 DEF Inv, Ready
<1> QED
  BY <1>2, <1>3, <1>4, <1>5, <1>6 DEF Inv

\* A request that ends without a commit.
LEMMA EndKeeps ==
  ASSUME Inv, NEW r \in Requests, NEW pc \in {"done", "failed"}, End(r, pc), rows' = rows
  PROVE  Inv'
<1> DEFINE q == [Idle EXCEPT !.pc = pc]
<1>1. q \in Request /\ q.pc = pc /\ q.put = NoPut
  BY IdleTyped DEF Request, Idle
<1>2. req' = [req EXCEPT ![r] = q]
  BY DEF End
<1> HIDE DEF q
<1>3. DOMAIN q.put = {}
  BY <1>1, NoPutTyped
<1>4. Held(r, q) /\ Ready(r, q)
  BY <1>1, <1>3 DEF Held, Ready
<1> QED
  BY <1>1, <1>2, <1>3, <1>4, Known, Moves

\* A request that begins writes nothing yet.
LEMMA BeginKeeps ==
  ASSUME Inv, NEW r \in Requests, NEW q \in Request, Begin(r, q), DOMAIN q.put = {}, Ready(r, q)
  PROVE  Inv'
<1> DEFINE company == \E d \in Requests : Active(d)
           b == [q EXCEPT !.alone = ~company]
<1>1. rows' = rows /\ req[r].pc = "idle"
  BY DEF Begin
<1>2. req'[r] = b /\ \A d \in Requests \ {r} : req'[d] = [req[d] EXCEPT !.alone = FALSE]
  BY DEF Begin
<1>3. company \in BOOLEAN
  OBVIOUS
<1> HIDE DEF company
<1>4. b \in Request /\ b.put = q.put /\ b.pc = q.pc /\ b.kind = q.kind /\ b.id = q.id
      /\ b.new = q.new /\ b.seen = q.seen /\ b.pos = q.pos
  <2>1. \A v \in BOOLEAN : [q EXCEPT !.alone = v] \in Request
    BY DEF Request
  <2>2. b \in Request
    BY <1>3, <2>1
  <2>3. /\ b.put = q.put /\ b.pc = q.pc /\ b.kind = q.kind /\ b.id = q.id
        /\ b.new = q.new /\ b.seen = q.seen /\ b.pos = q.pos
    BY DEF Request
  <2> QED
    BY <2>2, <2>3
<1> HIDE DEF b
<1>5. \A d \in Requests \ {r} : req'[d] \in Request
  <2>1. \A u \in Request : [u EXCEPT !.alone = FALSE] \in Request
    BY DEF Request
  <2>2. \A d \in Requests : req[d] \in Request
    BY Known
  <2> QED
    BY <1>2, <2>1, <2>2
<1>6. req' \in [Requests -> Request]
  <2>1. DOMAIN req' = Requests /\ req' = [d \in Requests |-> req'[d]]
    BY DEF Begin
  <2> QED
    BY <1>2, <1>4, <1>5, <2>1
<1>7. Held(r, b) /\ Ready(r, b)
  BY <1>4 DEF Held, Ready
<1> QED
  BY <1>1, <1>2, <1>4, <1>6, <1>7, Moves

LEMMA CreateKeeps ==
  ASSUME Inv, NEW r \in Requests, NEW ch \in Chars, NEW k \in Classes, NEW role \in Roles,
         Create(r, ch, k, role)
  PROVE  Inv'
<1> DEFINE row == [char |-> ch, class |-> k, role |-> role, goals |-> None]
           q == [Idle EXCEPT !.kind = "create", !.pc = "exists", !.new = row]
<1>1. row \in Row
  BY DEF Row
<1>2. Begin(r, q)
  BY DEF Create
<1> HIDE DEF row
<1>3. q \in Request /\ q.kind = "create" /\ q.pc = "exists" /\ q.new = row /\ q.put = NoPut /\ q.id = NoId
  <2>1. Idle.put = NoPut /\ Idle.id = NoId
    BY DEF Idle
  <2> QED
    BY <1>1, <2>1, IdleTyped DEF Request
<1> HIDE DEF q
<1>4. DOMAIN q.put = {} /\ Ready(r, q)
  BY <1>1, <1>3, NoPutTyped DEF Ready
<1> QED
  BY <1>2, <1>3, <1>4, BeginKeeps

LEMMA UpdateKeeps ==
  ASSUME Inv, NEW r \in Requests, NEW i \in Ids, NEW k \in Classes, NEW role \in Roles,
         NEW goals \in Requests \cup {None}, Update(r, i, k, role, goals)
  PROVE  Inv'
<1> DEFINE new == [rows[i] EXCEPT !.class = k, !.role = role, !.goals = goals]
           q == [Idle EXCEPT !.kind = "update", !.pc = "write", !.id = i, !.seen = rows[i], !.new = new]
<1>1. rows[i] \in Row /\ goals \in {rows[i].goals, r}
  BY Known DEF Update
<1>2. new \in Row /\ new.goals = goals
  BY <1>1 DEF Row
<1>3. Begin(r, q)
  BY DEF Update
<1> HIDE DEF new
<1>4. /\ q \in Request /\ q.kind = "update" /\ q.pc = "write" /\ q.new = new /\ q.put = NoPut
      /\ q.id = i /\ q.seen = rows[i]
  <2>1. Idle.put = NoPut
    BY DEF Idle
  <2> QED
    BY <1>1, <1>2, <2>1, IdleTyped DEF Request
<1> HIDE DEF q
<1>5. DOMAIN q.put = {} /\ Ready(r, q)
  BY <1>1, <1>2, <1>4, NoPutTyped, NoRowIsNone DEF Ready
<1> QED
  BY <1>3, <1>4, <1>5, BeginKeeps

LEMMA DeleteKeeps ==
  ASSUME Inv, NEW r \in Requests, NEW i \in Ids, Delete(r, i)
  PROVE  Inv'
<1> DEFINE q == [Idle EXCEPT !.kind = "delete", !.pc = "write", !.id = i, !.seen = rows[i]]
<1>1. rows[i] \in Row
  BY Known DEF Delete
<1>2. Begin(r, q)
  BY DEF Delete
<1>3. q \in Request /\ q.kind = "delete" /\ q.pc = "write" /\ q.put = NoPut /\ q.id = i
  <2>1. Idle.put = NoPut
    BY DEF Idle
  <2> QED
    BY <1>1, <2>1, IdleTyped DEF Request
<1> HIDE DEF q
<1>4. DOMAIN q.put = {} /\ Ready(r, q)
  BY <1>3, NoPutTyped, NoRowIsNone DEF Ready
<1> QED
  BY <1>2, <1>3, <1>4, BeginKeeps

LEMMA StoredIsFinite ==
  ASSUME NEW table
  PROVE  IsFiniteSet(Stored(table)) /\ Cardinality(Stored(table)) \in Nat
<1>1. IsFiniteSet(Requests \cup {None})
  BY FS_AddElement, ConstantsAssumption
<1>2. IsFiniteSet(Ids)
  BY <1>1, FS_Product, ConstantsAssumption DEF Ids
<1>3. Stored(table) \in SUBSET Ids
  BY DEF Stored
<1> QED
  BY <1>2, <1>3, FS_Subset, FS_CardinalityType

LEMMA ImportKeeps ==
  ASSUME Inv, NEW r \in Requests, Import(r)
  PROVE  Inv'
<1> DEFINE n == Cardinality(Stored(rows))
           q == [Idle EXCEPT !.kind = "import", !.pc = "next", !.pos = 1, !.counted = n]
<1>1. Begin(r, q)
  BY DEF Import
<1>2. n \in Nat
  BY StoredIsFinite
<1> HIDE DEF n
<1>3. q \in Request /\ q.kind = "import" /\ q.pc = "next" /\ q.put = NoPut /\ q.pos = 1
  <2>1. Idle.put = NoPut
    BY DEF Idle
  <2> QED
    BY <1>2, <2>1, IdleTyped DEF Request
<1> HIDE DEF q
<1>4. DOMAIN q.put = {} /\ Ready(r, q)
  BY <1>3, NoPutTyped DEF Ready
<1> QED
  BY <1>1, <1>3, <1>4, BeginKeeps

LEMMA ExistsKeeps ==
  ASSUME Inv, NEW r \in Requests, Exists(r)
  PROVE  Inv'
<1>1. rows' = rows /\ req[r].pc = "exists" /\ req[r] \in Request /\ Ready(r, req[r])
  BY Known DEF Exists
<1>2. CASE End(r, "failed")
  BY <1>1, <1>2, EndKeeps
<1>3. CASE req' = [req EXCEPT ![r].pc = "write"]
  <2> DEFINE q == [req[r] EXCEPT !.pc = "write"]
  <2>1. req' = [req EXCEPT ![r] = q]
    BY <1>3
  <2>2. /\ q \in Request /\ q.pc = "write" /\ q.kind = "create" /\ q.put = req[r].put /\ q.new \in Row
        /\ q.id = NoId /\ DOMAIN q.put = {}
    BY <1>1 DEF Request, Ready
  <2> HIDE DEF q
  <2>3. Held(r, q) /\ Ready(r, q)
    BY <2>2 DEF Held, Ready
  <2> QED
    BY <1>1, <2>1, <2>2, <2>3, Known, Moves
<1> QED
  BY <1>2, <1>3 DEF Exists

LEMMA ViewTyped ==
  ASSUME Inv, NEW r \in Requests
  PROVE  /\ View(r) \in [Ids -> Row \cup {NoRow}]
         /\ \A i \in Ids : View(r)[i] = IF i \in DOMAIN req[r].put THEN req[r].put[i] ELSE rows[i]
<1>1. \A i \in Ids : (IF i \in DOMAIN req[r].put THEN req[r].put[i] ELSE rows[i]) \in Row \cup {NoRow}
  BY Known
<1> QED
  BY <1>1 DEF View

\* A request of which only what it is about to do has moved.
LEMMA PlanKeeps ==
  ASSUME Inv, NEW r \in Requests, NEW q \in Request, rows' = rows, req' = [req EXCEPT ![r] = q],
         q.put = req[r].put, q.kind = req[r].kind, Active(r), Ready(r, q)
  PROVE  Inv'
<1>1. Held(r, q)
  BY Known DEF Held
<1>2. \A d \in Requests \ {r} : DOMAIN q.put \cap DOMAIN req[d].put = {}
  BY DEF Inv, Locks
<1> QED
  BY <1>1, <1>2, Known, Moves DEF Active

LEMMA LookupKeeps ==
  ASSUME Inv, NEW r \in Requests, Lookup(r)
  PROVE  Inv'
<1> DEFINE e == Profile[req[r].pos]
           found == {i \in Stored(View(r)) : Fold(View(r)[i].char) = Fold(e.char)}
           fresh == [char |-> e.char, class |-> e.class, role |-> DefaultRole[e.class], goals |-> None]
<1>1. /\ rows' = rows /\ req[r].pc = "next" /\ req[r].pos <= Len(Profile)
      /\ req[r] \in Request /\ Ready(r, req[r]) /\ Active(r)
  BY Known DEF Lookup, Active
<1>2. req[r].kind = "import" /\ req[r].pos \in Nat /\ req[r].pos > 0
  BY <1>1 DEF Ready, Request
<1>3. e \in [char : Chars, class : Classes \cup {None}]
  <2>1. \A S, t, n : t \in Seq(S) /\ n \in Nat /\ n > 0 /\ n <= Len(t) => t[n] \in S
    OBVIOUS
  <2> QED
    BY <1>1, <1>2, <2>1, ConstantsAssumption
<1>4. e.class # None => fresh \in Row
  BY <1>3, ConstantsAssumption DEF Row
<1>5. Len(Profile) \in Nat
  BY ConstantsAssumption
<1>6. CASE req' = [req EXCEPT ![r].pos = @ + 1]
  <2> DEFINE q == [req[r] EXCEPT !.pos = @ + 1]
  <2>1. req' = [req EXCEPT ![r] = q]
    BY <1>6
  <2>2. q \in Request /\ q.pc = "next" /\ q.kind = "import" /\ q.pos > 0 /\ q.put = req[r].put
    BY <1>1, <1>2 DEF Request
  <2> HIDE DEF q
  <2>3. Ready(r, q)
    BY <2>2 DEF Ready
  <2> QED
    BY <1>1, <1>2, <2>1, <2>2, <2>3, PlanKeeps
<1>7. CASE req' = [req EXCEPT ![r].pos = Len(Profile) + 1, ![r].stopped = TRUE]
  <2> DEFINE n == Len(Profile) + 1
             q == [req[r] EXCEPT !.pos = n, !.stopped = TRUE]
  <2>n. n \in Nat /\ n > 0
    BY <1>5
  <2>1. req' = [req EXCEPT ![r] = q]
    BY <1>1, <1>7, Known DEF Request
  <2> HIDE DEF n
  <2>2. q \in Request /\ q.pc = "next" /\ q.kind = "import" /\ q.pos > 0 /\ q.put = req[r].put
    BY <1>1, <1>2, <2>n DEF Request
  <2> HIDE DEF q
  <2>3. Ready(r, q)
    BY <2>2 DEF Ready
  <2> QED
    BY <1>1, <1>2, <2>1, <2>2, <2>3, PlanKeeps
<1>8. CASE End(r, "failed")
  BY <1>1, <1>8, EndKeeps
<1>9. CASE e.class # None /\ req' = [req EXCEPT ![r].pc = "write", ![r].id = NoId, ![r].seen = NoRow, ![r].new = fresh]
  <2> HIDE DEF fresh
  <2> DEFINE q == [req[r] EXCEPT !.pc = "write", !.id = NoId, !.seen = NoRow, !.new = fresh]
  <2>1. req' = [req EXCEPT ![r] = q]
    BY <1>1, <1>9, Known DEF Request
  <2>2. /\ q \in Request /\ q.pc = "write" /\ q.kind = "import" /\ q.pos > 0 /\ q.put = req[r].put
        /\ q.id = NoId /\ q.new \in Row
    BY <1>1, <1>2, <1>4, <1>9 DEF Request
  <2> HIDE DEF q
  <2>3. Ready(r, q)
    BY <2>2 DEF Ready
  <2> QED
    BY <1>1, <1>2, <2>1, <2>2, <2>3, PlanKeeps
<1>10. ASSUME NEW i \in found, e.class # None,
              req' = [req EXCEPT ![r].pc = "write", ![r].id = i, ![r].seen = View(r)[i],
                                 ![r].new = [fresh EXCEPT !.goals = View(r)[i].goals]]
       PROVE  Inv'
  <2> DEFINE seen == View(r)[i]
             new == [fresh EXCEPT !.goals = seen.goals]
             q == [req[r] EXCEPT !.pc = "write", !.id = i, !.seen = seen, !.new = new]
  <2>1. i \in Ids /\ seen \in Row
    BY ViewTyped DEF Stored
  <2>2. new \in Row /\ new.goals = seen.goals
    <3> HIDE DEF seen
    <3>1. fresh.goals = None /\ seen.goals \in Requests \cup {None}
      BY <2>1 DEF Row
    <3> QED
      BY <1>4, <1>10, <3>1 DEF Row
  <2> HIDE DEF seen, new
  <2>3. req' = [req EXCEPT ![r] = q]
    BY <1>1, <1>10, Known DEF Request, seen, new
  <2>4. /\ q \in Request /\ q.pc = "write" /\ q.kind = "import" /\ q.pos > 0 /\ q.put = req[r].put
        /\ q.id = i /\ q.new = new /\ q.seen = seen
    BY <1>1, <1>2, <2>1, <2>2 DEF Request
  <2> HIDE DEF q
  <2>5. Ready(r, q)
    BY <2>1, <2>2, <2>4, NoRowIsNone DEF Ready
  <2> QED
    BY <1>1, <1>2, <2>3, <2>4, <2>5, PlanKeeps
<1>11. \/ req' = [req EXCEPT ![r].pos = @ + 1]
       \/ req' = [req EXCEPT ![r].pos = Len(Profile) + 1, ![r].stopped = TRUE]
       \/ End(r, "failed")
       \/ e.class # None /\ req' = [req EXCEPT ![r].pc = "write", ![r].id = NoId, ![r].seen = NoRow, ![r].new = fresh]
       \/ /\ e.class # None
          /\ \E i \in found : req' = [req EXCEPT ![r].pc = "write", ![r].id = i, ![r].seen = View(r)[i],
                                 ![r].new = [fresh EXCEPT !.goals = View(r)[i].goals]]
  BY DEF Lookup
<1> QED
  BY <1>6, <1>7, <1>8, <1>9, <1>10, <1>11

\* What a request is when its statement is done, apart from the row.
LEMMA ContinuedTyped ==
  ASSUME Inv, NEW r \in Requests, req[r].pc = "write"
  PROVE  /\ Continued(r) \in Request /\ Continued(r).put = req[r].put
         /\ Continued(r).kind = req[r].kind /\ Continued(r).pc \in {"next", "written"}
         /\ Continued(r).pc = "next" => req[r].kind = "import" /\ Continued(r).pos > 0
         /\ Continued(r).pc = "written" => req[r].kind # "import"
<1>1. req[r] \in Request /\ Ready(r, req[r])
  BY Known
<1> DEFINE pos == IF req[r].kind = "import" THEN req[r].pos + 1 ELSE req[r].pos
           counted == IF req[r].kind = "import" /\ req[r].id = NoId THEN req[r].counted + 1 ELSE req[r].counted
<1>2. req[r].pos \in Nat /\ req[r].counted \in Nat
  BY <1>1 DEF Request
<1>3. pos \in Nat /\ counted \in Nat /\ (req[r].kind = "import" => pos > 0)
  BY <1>2
<1>4. After(r) = (IF req[r].kind = "import" THEN "next" ELSE "written")
  BY DEF After
<1>5. Continued(r) = [req[r] EXCEPT !.pc = After(r), !.pos = pos, !.counted = counted,
                                    !.id = NoId, !.seen = NoRow, !.new = NoRow]
  BY <1>1 DEF Continued, Request
<1> HIDE DEF pos, counted
<1>6. After(r) \in {"next", "written"}
  BY <1>4
<1>7. Continued(r) \in Request
  BY <1>1, <1>3, <1>5, <1>6 DEF Request
<1>8. /\ Continued(r).put = req[r].put /\ Continued(r).kind = req[r].kind
      /\ Continued(r).pc = After(r) /\ Continued(r).pos = pos
  BY <1>1, <1>5 DEF Request
<1> QED
  BY <1>3, <1>4, <1>7, <1>8

\* The row a write puts down: one it makes, or one it sees, with the user's
\* fields unchanged unless the request is the PATCH that carries them.
LEMMA MergedTyped ==
  ASSUME Inv, NEW r \in Requests, req[r].pc = "write", ~Refused(r)
  PROVE  /\ Target(r) \in Ids /\ Merged(r) \in Row \cup {NoRow}
         /\ Merged(r) # NoRow =>
              /\ Target(r)[1] = r \/ rows[Target(r)] # NoRow
              /\ rows[Target(r)] # NoRow =>
                   \/ Merged(r).goals = rows[Target(r)].goals
                   \/ req[r].kind = "update" /\ Merged(r).goals = r
<1> DEFINE q == req[r]
           now == View(r)[q.id]
<1>1. /\ q \in Request /\ Ready(r, q) /\ Held(r, q) /\ Unborn(r)
      /\ q.id \in Ids \cup {NoId} /\ q.new \in Row \cup {NoRow}
  BY Known DEF Request
<1>2. CASE q.id = NoId
  <2>1. q.new \in Row /\ Merged(r) = q.new /\ Target(r) = <<r, q.new.char>>
    BY <1>1, <1>2 DEF Ready, Merged, Target
  <2>2. q.new.char \in Chars
    BY <2>1 DEF Row
  <2>3. rows[Target(r)] = NoRow
    BY <1>1, <2>1, <2>2 DEF Unborn
  <2>4. Target(r) \in Ids /\ Target(r)[1] = r
    BY <2>1, <2>2 DEF Ids
  <2> QED
    BY <2>1, <2>3, <2>4
<1>3. CASE q.id # NoId /\ q.kind = "delete"
  BY <1>1, <1>3 DEF Merged, Target
<1>4. CASE q.id # NoId /\ q.kind # "delete"
  <2>1. now # NoRow /\ q.id \in Ids /\ Target(r) = q.id
    BY <1>1, <1>4 DEF Refused, Target
  <2>2. now \in Row /\ now = (IF q.id \in DOMAIN q.put THEN q.put[q.id] ELSE rows[q.id])
    BY <2>1, ViewTyped
  <2>3. q.new \in Row /\ q.seen \in Row
    BY <1>1, <1>4 DEF Ready
  <2> HIDE DEF now
  <2>4. Merged(r) = [char |-> Sent(q.new.char, q.seen.char, now.char),
                     class |-> Sent(q.new.class, q.seen.class, now.class),
                     role |-> Sent(q.new.role, q.seen.role, now.role),
                     goals |-> Sent(q.new.goals, q.seen.goals, now.goals)]
    BY <1>4 DEF Merged, now
  <2>5. Merged(r) \in Row
    BY <2>2, <2>3, <2>4 DEF Row, Sent
  <2>6. Merged(r).goals = Sent(q.new.goals, q.seen.goals, now.goals)
    BY <2>4
  <2>7. q.kind \in {"update", "import"}
    BY <1>1, <1>4 DEF Ready
  <2>8. q.id[1] = r \/ rows[q.id] # NoRow
    BY <1>1, <2>1, <2>2 DEF Held
  <2>9. CASE q.kind = "import"
    <3>1. Merged(r).goals = now.goals
      BY <1>1, <1>4, <2>6, <2>9 DEF Ready, Sent
    <3>2. rows[q.id] # NoRow => now.goals = rows[q.id].goals
      BY <1>1, <2>1, <2>2, <2>9 DEF Held
    <3> QED
      BY <2>1, <2>5, <2>8, <3>1, <3>2
  <2>10. CASE q.kind = "update"
    <3>1. now = rows[q.id]
      BY <1>1, <2>2, <2>10 DEF Ready
    <3>2. Merged(r).goals \in {now.goals, r}
      BY <1>1, <1>4, <2>6, <2>10 DEF Ready, Sent
    <3> QED
      BY <2>1, <2>5, <2>8, <2>10, <3>1, <3>2
  <2> QED
    BY <2>7, <2>9, <2>10
<1> QED
  BY <1>2, <1>3, <1>4

\* A row that no other open transaction has written, for the one it waits for.
LEMMA TargetIsFree ==
  ASSUME NEW r \in Requests, Blockers(r) = {}, NEW d \in Requests \ {r}
  PROVE  Target(r) \notin DOMAIN req[d].put
  BY DEF Blockers

LEMMA WriteKeeps ==
  ASSUME Inv, NEW r \in Requests, Write(r)
  PROVE  Inv'
<1> DEFINE c == Continued(r)
           T == Target(r)
           put == [i \in DOMAIN req[r].put \cup {T} |-> IF i = T THEN Merged(r) ELSE req[r].put[i]]
<1>1. rows' = rows /\ req[r].pc = "write" /\ req[r] \in Request
  BY Known DEF Write
<1>2. CASE Refused(r)
  BY <1>1, <1>2, EndKeeps DEF Write
<1>3. CASE ~Refused(r) /\ ~Changes(r)
  <2>1. req' = [req EXCEPT ![r] = c]
    BY <1>3 DEF Write
  <2>2. /\ c \in Request /\ c.put = req[r].put /\ c.kind = req[r].kind /\ c.pc \in {"next", "written"}
        /\ c.pc = "next" => req[r].kind = "import" /\ c.pos > 0
        /\ c.pc = "written" => req[r].kind # "import"
    BY <1>1, ContinuedTyped
  <2> HIDE DEF c
  <2>3. Ready(r, c)
    BY <2>2 DEF Ready
  <2>4. Active(r)
    BY <1>1 DEF Active
  <2> QED
    BY <1>1, <2>1, <2>2, <2>3, <2>4, PlanKeeps
<1>4. CASE ~Refused(r) /\ Changes(r)
  <2> DEFINE q == [c EXCEPT !.put = put]
  <2>1. /\ c \in Request /\ c.put = req[r].put /\ c.kind = req[r].kind /\ c.pc \in {"next", "written"}
        /\ c.pc = "next" => req[r].kind = "import" /\ c.pos > 0
        /\ c.pc = "written" => req[r].kind # "import"
    BY <1>1, ContinuedTyped
  <2>2. req' = [req EXCEPT ![r] = q] /\ Blockers(r) = {}
    BY <1>4, <2>1 DEF Write, Request
  <2>3. /\ T \in Ids /\ Merged(r) \in Row \cup {NoRow}
        /\ Merged(r) # NoRow =>
             /\ T[1] = r \/ rows[T] # NoRow
             /\ rows[T] # NoRow =>
                  \/ Merged(r).goals = rows[T].goals
                  \/ req[r].kind = "update" /\ Merged(r).goals = r
    BY <1>1, <1>4, MergedTyped
  <2>4. \A d \in Requests \ {r} : T \notin DOMAIN req[d].put
    BY <2>2, TargetIsFree
  <2> HIDE DEF c, T
  <2>5. DOMAIN put = DOMAIN req[r].put \cup {T} /\ DOMAIN put \in SUBSET Ids
    BY <2>3, Known
  <2>6. \A i \in DOMAIN put : put[i] \in Row \cup {NoRow}
    BY <2>3, Known
  <2>7. put \in Puts
    <3>1. put \in [DOMAIN put -> Row \cup {NoRow}]
      BY <2>6
    <3> HIDE DEF put
    <3> QED
      BY <2>5, <3>1 DEF Puts
  <2>8. \A i \in DOMAIN put : put[i] # NoRow =>
          /\ i[1] = r \/ rows[i] # NoRow
          /\ rows[i] # NoRow => put[i].goals = rows[i].goals \/ (req[r].kind = "update" /\ put[i].goals = r)
    <3>1. Held(r, req[r])
      BY Known
    <3> SUFFICES ASSUME NEW i \in DOMAIN put, put[i] # NoRow
                 PROVE  /\ i[1] = r \/ rows[i] # NoRow
                        /\ rows[i] # NoRow => put[i].goals = rows[i].goals
                                              \/ (req[r].kind = "update" /\ put[i].goals = r)
      OBVIOUS
    <3>2. CASE i = T
      BY <2>3, <3>2
    <3>3. CASE i # T
      <4>1. i \in DOMAIN req[r].put /\ put[i] = req[r].put[i]
        BY <3>3
      <4> QED
        BY <3>1, <4>1 DEF Held
    <3> QED
      BY <3>2, <3>3
  <2>9. \A d \in Requests \ {r} : DOMAIN put \cap DOMAIN req[d].put = {}
    BY <2>4, <2>5 DEF Inv, Locks
  <2> HIDE DEF put
  <2>10. /\ q \in Request /\ q.put = put /\ q.kind = req[r].kind /\ q.pc \in {"next", "written"}
         /\ q.pc = "next" => q.kind = "import" /\ q.pos > 0
         /\ q.pc = "written" => q.kind # "import"
    BY <2>1, <2>7 DEF Request
  <2> HIDE DEF q
  <2>11. Held(r, q) /\ Ready(r, q)
    BY <2>8, <2>10 DEF Held, Ready
  <2> QED
    BY <1>1, <2>2, <2>9, <2>10, <2>11, Known, Moves
<1> QED
  BY <1>2, <1>3, <1>4

\* What a commit makes of the rows.
LEMMA Committed ==
  ASSUME Inv, NEW r \in Requests, Commit(r)
  PROVE  /\ rows' = View(r) /\ Active(r) /\ req[r].pc # "done"
         /\ req' = [req EXCEPT ![r] = [Idle EXCEPT !.pc = "done"]] /\ req'[r].pc = "done"
<1>1. [Idle EXCEPT !.pc = "done"].pc = "done"
  BY DEF Idle
<1>2. req[r] \in Request
  BY Known
<1> QED
  BY <1>1, <1>2, Known DEF Commit, End, Active

LEMMA CommitKeeps ==
  ASSUME Inv, NEW r \in Requests, Commit(r)
  PROVE  Inv'
<1> DEFINE q == [Idle EXCEPT !.pc = "done"]
<1>1. rows' = View(r) /\ req' = [req EXCEPT ![r] = q]
  BY Committed
<1>2. q \in Request /\ q.pc = "done" /\ q.put = NoPut
  BY IdleTyped DEF Request, Idle
<1> HIDE DEF q
<1>3. DOMAIN q.put = {}
  BY <1>2, NoPutTyped
<1>4. req'[r] = q /\ \A d \in Requests \ {r} : req'[d] = req[d]
  BY <1>1, Known
<1>5. TypeOK'
  <2>1. req' \in [Requests -> Request]
    BY <1>1, <1>2, Known
  <2>2. rows' \in [Ids -> Row \cup {NoRow}]
    BY <1>1, ViewTyped
  <2> QED
    BY <2>1, <2>2 DEF TypeOK, Request
<1>6. Locks'
  BY <1>3, <1>4 DEF Inv, Locks
<1>7. ASSUME NEW d \in Requests \ {r}
      PROVE  Unborn(d)' /\ Held(d, req[d])' /\ Ready(d, req[d])'
  <2>1. DOMAIN req[d].put \cap DOMAIN req[r].put = {} /\ DOMAIN req[d].put \subseteq Ids
    BY Known DEF Inv, Locks
  <2>2. \A i \in DOMAIN req[d].put : rows'[i] = rows[i]
    BY <1>1, <2>1, ViewTyped
  <2>3. Held(d, req[d])'
    BY <1>4, <2>2, Known DEF Held
  <2>4. Ready(d, req[d])'
    BY <1>4, Known DEF Ready
  <2>5. ASSUME NEW ch \in Chars, rows[<<d, ch>>] = NoRow
        PROVE  rows'[<<d, ch>>] = NoRow
    <3>1. <<d, ch>> \in Ids /\ <<d, ch>>[1] = d
      BY DEF Ids
    <3> DEFINE i == <<d, ch>>
    <3> HIDE DEF i
    <3>2. i \in Ids /\ i[1] = d /\ rows[i] = NoRow
      BY <2>5, <3>1 DEF i
    <3>3. rows'[i] = NoRow
      BY <1>1, <3>2, ViewTyped, Known DEF Held
    <3> QED
      BY <3>3 DEF i
  <2>6. Unborn(d)'
    BY <1>4, <2>5, Known DEF Unborn
  <2> QED
    BY <2>3, <2>4, <2>6
<1>8. Unborn(r)' /\ Held(r, req[r])' /\ Ready(r, req[r])'
  BY <1>2, <1>3, <1>4 DEF Unborn, Held, Ready
<1> QED
  BY <1>5, <1>6, <1>7, <1>8 DEF Inv

-------------------------------------------------------------------------------

LEMMA InitInv == Init => Inv
<1> SUFFICES ASSUME Init PROVE Inv
  OBVIOUS
<1>1. \A r \in Requests : req[r] = Idle
  BY DEF Init
<1>2. DOMAIN Idle.put = {}
  BY NoPutTyped DEF Idle
<1>3. rows \in [Ids -> Row \cup {NoRow}]
  <2>1. PICK S \in SUBSET Chars, k \in Classes :
          rows = [i \in Ids |-> IF i[1] = None /\ i[2] \in S
                                THEN [char |-> i[2], class |-> k, role |-> DefaultRole[k], goals |-> None]
                                ELSE NoRow]
    BY DEF Init
  <2>2. \A ch \in S : [char |-> ch, class |-> k, role |-> DefaultRole[k], goals |-> None] \in Row
    BY ConstantsAssumption DEF Row
  <2> QED
    BY <2>1, <2>2
<1>4. TypeOK
  BY <1>3, IdleTyped DEF Init, TypeOK, Request
<1>5. Locks
  BY <1>1, <1>2 DEF Locks
<1>6. \A r \in Requests : Unborn(r)
  <2> SUFFICES ASSUME NEW r \in Requests, NEW ch \in Chars PROVE rows[<<r, ch>>] = NoRow
    BY DEF Unborn
  <2>1. <<r, ch>> \in Ids /\ <<r, ch>>[1] = r /\ r # None
    BY ConstantsAssumption DEF Ids
  <2> QED
    BY <2>1 DEF Init
<1>7. \A r \in Requests : Held(r, req[r]) /\ Ready(r, req[r])
  BY <1>1, IdleInOrder
<1> QED
  BY <1>4, <1>5, <1>6, <1>7 DEF Inv

LEMMA NextKeeps == Inv /\ [Next]_vars => Inv'
<1> SUFFICES ASSUME Inv, [Next]_vars PROVE Inv'
  OBVIOUS
<1>1. CASE Next
  <2>1. ASSUME NEW r \in Requests, Crash(r) PROVE Inv'
    BY <2>1, EndKeeps DEF Crash
  <2> QED
    BY <1>1, <2>1, CreateKeeps, UpdateKeeps, DeleteKeeps, ImportKeeps, ExistsKeeps, LookupKeeps,
       WriteKeeps, CommitKeeps DEF Next, Step
<1>2. CASE UNCHANGED vars
  BY <1>2 DEF vars, Inv, TypeOK, Locks, Unborn, Held, Ready
<1> QED
  BY <1>1, <1>2

LEMMA Invariance == Spec => []Inv
<1>1. Init => Inv
  BY InitInv
<1>2. Inv /\ [Next]_vars => Inv'
  BY NextKeeps
<1> QED
  BY <1>1, <1>2, PTL DEF Spec

(* The tables and the requests keep their types.                           *)
THEOREM TypeCorrect == Spec => []TypeOK
<1>1. Inv => TypeOK
  BY DEF Inv
<1> QED
  BY <1>1, Invariance, PTL

\* Only a commit changes the rows.
LEMMA OnlyCommits ==
  ASSUME Inv, Next, rows' # rows
  PROVE  \E r \in Requests : Commit(r)
<1>1. ASSUME NEW r \in Requests, NEW q, Begin(r, q) PROVE FALSE
  BY <1>1 DEF Begin
<1>2. ASSUME NEW r \in Requests, Exists(r) \/ Lookup(r) \/ Write(r) \/ Crash(r) PROVE FALSE
  BY <1>2 DEF Exists, Lookup, Write, Crash
<1> QED
  BY <1>1, <1>2 DEF Next, Step, Create, Update, Delete, Import

(* Whatever requests overlap, on any roster, what a user wrote into a      *)
(* character changes only by the commit of the PATCH that carries it.      *)
THEOREM UserEditsSurvive == Spec => EditsSurvive
<1> DEFINE Survive ==
      \A i \in Ids : rows[i] # NoRow /\ rows'[i] # NoRow /\ rows'[i].goals # rows[i].goals
        => \E r \in Requests : Committing(r) /\ req[r].kind = "update" /\ rows'[i].goals = r
<1>1. Inv /\ [Next]_vars => [Survive]_vars
  <2> SUFFICES ASSUME Inv, Next,
                      NEW i \in Ids, rows[i] # NoRow, rows'[i] # NoRow, rows'[i].goals # rows[i].goals
               PROVE  \E r \in Requests : Committing(r) /\ req[r].kind = "update" /\ rows'[i].goals = r
    OBVIOUS
  <2>1. PICK r \in Requests : Commit(r)
    BY OnlyCommits
  <2>2. rows'[i] = View(r)[i] /\ Committing(r)
    BY <2>1, Committed DEF Committing
  <2>3. i \in DOMAIN req[r].put /\ rows'[i] = req[r].put[i]
    BY <2>2, ViewTyped
  <2>4. req[r].kind = "update" /\ rows'[i].goals = r
    BY <2>3, Known DEF Held
  <2> QED
    BY <2>2, <2>4
<1> QED
  BY <1>1, Invariance, PTL DEF Spec, EditsSurvive

-------------------------------------------------------------------------------
(* Requests that meet no other. *)

\* Putting a row where there is none, in place of another, or taking it away.
PutRow(v, t, row) == [i \in Ids |-> IF i = t THEN row ELSE v[i]]

\* What a request that has met no other may rely on: the rows it sees are good
\* when the committed ones are, a row it makes keeps its name up to case, and
\* what it counted and read is still true of what it sees.
Solitary(r, q, v) ==
  /\ Good(rows) => Good(v)
  /\ \A ch \in Chars : v[<<r, ch>>] # NoRow => Fold(v[<<r, ch>>].char) = Fold(ch)
  /\ q.kind = "import" => q.counted = Cardinality(Stored(v))
  /\ q.pc = "exists" => Legal(q.new) /\ Cardinality(Stored(v)) < MaxCharacters
  /\ q.pc \in {"exists", "write"} /\ q.id = NoId => q.seen = NoRow
  /\ q.pc = "write" =>
       /\ q.kind # "delete" => Legal(q.new)
       /\ q.id = NoId => /\ Cardinality(Stored(v)) < MaxCharacters
                         /\ \A i \in Stored(v) : Fold(v[i].char) # Fold(q.new.char)
       /\ q.id # NoId => /\ v[q.id] = q.seen
                         /\ q.kind # "delete" => Fold(q.new.char) = Fold(q.seen.char)

\* Battle.net lists a character once.
NamesDiffer ==
  \A m, n \in 1 .. Len(Profile) :
    Profile[m].class # None /\ Profile[n].class # None /\ Fold(Profile[m].char) = Fold(Profile[n].char) => m = n

\* The characters of the profile that an import has passed are as Battle.net
\* has them, and it is about to write the one it is at.
Stands(v, e) == \E i \in Ids : v[i].char = e.char /\ v[i].class = e.class
ImportedSoFar(q, v) ==
  q.kind = "import" /\ ~q.stopped =>
    /\ \A n \in 1 .. Len(Profile) : n < q.pos /\ Profile[n].class # None => Stands(v, Profile[n])
    /\ q.pc = "write" => /\ q.pos \in 1 .. Len(Profile)
                         /\ Profile[q.pos].class # None
                         /\ q.new.char = Profile[q.pos].char /\ q.new.class = Profile[q.pos].class

Alone ==
  \A r \in Requests : req[r].alone =>
    /\ \A d \in Requests \ {r} : ~Active(d)
    /\ Solitary(r, req[r], View(r))
    /\ NamesDiffer => ImportedSoFar(req[r], View(r))

-------------------------------------------------------------------------------
(* One row of a table. *)

LEMMA PutRowTyped ==
  ASSUME NEW v \in [Ids -> Row \cup {NoRow}], NEW t \in Ids, NEW row \in Row \cup {NoRow}
  PROVE  /\ PutRow(v, t, row) \in [Ids -> Row \cup {NoRow}]
         /\ PutRow(v, t, row)[t] = row
         /\ \A i \in Ids \ {t} : PutRow(v, t, row)[i] = v[i]
  BY DEF PutRow

\* A row is inserted under a name that is new up to case.
LEMMA InsertIsGood ==
  ASSUME NEW v \in [Ids -> Row \cup {NoRow}], NEW t \in Ids, NEW row \in Row,
         v[t] = NoRow, Legal(row), Cardinality(Stored(v)) < MaxCharacters,
         \A i \in Stored(v) : Fold(v[i].char) # Fold(row.char)
  PROVE  /\ Good(v) => Good(PutRow(v, t, row))
         /\ Cardinality(Stored(PutRow(v, t, row))) = Cardinality(Stored(v)) + 1
<1> DEFINE w == PutRow(v, t, row)
<1>1. w[t] = row /\ \A i \in Ids \ {t} : w[i] = v[i]
  BY PutRowTyped
<1> HIDE DEF w
<1>2. Stored(w) = Stored(v) \cup {t} /\ t \notin Stored(v)
  BY <1>1, NoRowIsNone DEF Stored
<1>3. Cardinality(Stored(w)) = Cardinality(Stored(v)) + 1
  BY <1>2, StoredIsFinite, FS_AddElement
<1>4. Good(v) => Cardinality(Stored(w)) <= MaxCharacters
  BY <1>3, StoredIsFinite, ConstantsAssumption
<1>5. \A i \in Stored(v) : w[i] = v[i]
  BY <1>1, <1>2 DEF Stored
<1>6. NoTwins(v) => NoTwins(w)
  BY <1>1, <1>2, <1>5 DEF NoTwins
<1>7. (\A i \in Stored(v) : Legal(v[i])) => \A i \in Stored(w) : Legal(w[i])
  BY <1>1, <1>2, <1>5
<1> QED
  BY <1>3, <1>4, <1>6, <1>7 DEF Good, w

\* A row is replaced by one of the same name up to case.
LEMMA ReplaceIsGood ==
  ASSUME NEW v \in [Ids -> Row \cup {NoRow}], NEW t \in Ids, NEW row \in Row,
         v[t] # NoRow, Legal(row), Fold(row.char) = Fold(v[t].char)
  PROVE  /\ Good(v) => Good(PutRow(v, t, row))
         /\ Stored(PutRow(v, t, row)) = Stored(v)
<1> DEFINE w == PutRow(v, t, row)
<1>1. w[t] = row /\ \A i \in Ids \ {t} : w[i] = v[i]
  BY PutRowTyped
<1> HIDE DEF w
<1>2. Stored(w) = Stored(v)
  BY <1>1, NoRowIsNone DEF Stored
<1>3. \A i \in Stored(v) : Fold(w[i].char) = Fold(v[i].char)
  BY <1>1 DEF Stored
<1>4. NoTwins(v) => NoTwins(w)
  BY <1>2, <1>3 DEF NoTwins
<1>5. (\A i \in Stored(v) : Legal(v[i])) => \A i \in Stored(w) : Legal(w[i])
  BY <1>1, <1>2 DEF Stored
<1> QED
  BY <1>2, <1>4, <1>5 DEF Good, w

\* A row is deleted.
LEMMA RemovalIsGood ==
  ASSUME NEW v \in [Ids -> Row \cup {NoRow}], NEW t \in Ids
  PROVE  Good(v) => Good(PutRow(v, t, NoRow))
<1> DEFINE w == PutRow(v, t, NoRow)
<1>1. w[t] = NoRow /\ \A i \in Ids \ {t} : w[i] = v[i]
  BY PutRowTyped
<1> HIDE DEF w
<1>2. Stored(w) \in SUBSET Stored(v) /\ \A i \in Stored(w) : w[i] = v[i]
  BY <1>1 DEF Stored
<1>3. Cardinality(Stored(w)) <= Cardinality(Stored(v)) /\ Cardinality(Stored(w)) \in Nat
      /\ Cardinality(Stored(v)) \in Nat
  BY <1>2, StoredIsFinite, FS_Subset
<1>4. NoTwins(v) => NoTwins(w)
  BY <1>2 DEF NoTwins
<1> QED
  BY <1>2, <1>3, <1>4, ConstantsAssumption DEF Good, w

-------------------------------------------------------------------------------
(* Every step leaves a request that has met no other what it relies on. *)

\* Only a request under way is alone, and then no other is under way.
LEMMA OthersHaveCompany ==
  ASSUME Inv, Alone, NEW r \in Requests, Active(r), NEW d \in Requests \ {r}
  PROVE  req[d].alone = FALSE
  BY Known DEF Alone, Request

\* A request under way moves on.
LEMMA SoloMoves ==
  ASSUME Inv, Alone, NEW r \in Requests, Active(r), NEW q \in Request, rows' = rows,
         req' = [req EXCEPT ![r] = q], NEW w,
         w = [i \in Ids |-> IF i \in DOMAIN q.put THEN q.put[i] ELSE rows[i]],
         q.alone => /\ req[r].alone
                    /\ Solitary(r, q, w)
                    /\ NamesDiffer => ImportedSoFar(q, w)
  PROVE  Alone'
<1>1. req'[r] = q /\ \A d \in Requests \ {r} : req'[d] = req[d]
  BY Known
<1>2. \A d \in Requests \ {r} : req'[d].alone = FALSE
  BY <1>1, OthersHaveCompany
<1>3. q.alone => \A d \in Requests \ {r} : ~Active(d)'
  BY <1>1 DEF Alone, Active
<1>4. View(r)' = w
  BY <1>1 DEF View
<1>5. q.alone => Solitary(r, req[r], View(r))' /\ (NamesDiffer => ImportedSoFar(req[r], View(r)))'
  BY <1>1, <1>4 DEF Solitary, ImportedSoFar, Stands
<1> QED
  BY <1>1, <1>2, <1>3, <1>5 DEF Alone

\* A request that writes nothing: what it sees stays.
LEMMA SoloPlans ==
  ASSUME Inv, Alone, NEW r \in Requests, Active(r), NEW q \in Request, rows' = rows,
         req' = [req EXCEPT ![r] = q], q.put = req[r].put, q.alone = req[r].alone,
         q.alone => /\ Solitary(r, q, View(r))
                    /\ NamesDiffer => ImportedSoFar(q, View(r))
  PROVE  Alone'
<1>1. View(r) = [i \in Ids |-> IF i \in DOMAIN q.put THEN q.put[i] ELSE rows[i]]
  BY DEF View
<1> QED
  BY <1>1, SoloMoves

\* A request begins: it is alone if none is under way, and the others are not.
LEMMA SoloBegins ==
  ASSUME Inv, Alone, NEW r \in Requests, NEW q \in Request, Begin(r, q), q.put = NoPut,
         Solitary(r, q, rows), NamesDiffer => ImportedSoFar(q, rows)
  PROVE  Alone'
<1> DEFINE company == \E d \in Requests : Active(d)
           b == [q EXCEPT !.alone = ~company]
<1>1. rows' = rows /\ req[r].pc = "idle"
  BY DEF Begin
<1>2. req'[r] = b /\ \A d \in Requests \ {r} : req'[d] = [req[d] EXCEPT !.alone = FALSE]
  BY DEF Begin
<1>3. company \in BOOLEAN
  OBVIOUS
<1>4. b.alone => ~company
  BY <1>3 DEF Request
<1>5. /\ b.put = NoPut /\ b.pc = q.pc /\ b.kind = q.kind /\ b.id = q.id /\ b.new = q.new
      /\ b.seen = q.seen /\ b.pos = q.pos /\ b.counted = q.counted /\ b.stopped = q.stopped
  BY DEF Request
<1>6. \A d \in Requests \ {r} : req'[d].alone = FALSE /\ req'[d].pc = req[d].pc
  <2>1. \A u \in Request : [u EXCEPT !.alone = FALSE].alone = FALSE /\ [u EXCEPT !.alone = FALSE].pc = u.pc
    BY DEF Request
  <2> QED
    BY <1>2, <2>1, Known
<1>7. b.alone => \A d \in Requests \ {r} : ~Active(d)'
  BY <1>4, <1>6 DEF Active
<1> HIDE DEF b
<1>8. View(r)' = rows
  BY <1>1, <1>2, <1>5, NoPutTyped, Known DEF View
<1>9. Solitary(r, req[r], View(r))' /\ (NamesDiffer => ImportedSoFar(req[r], View(r)))'
  BY <1>1, <1>2, <1>5, <1>8 DEF Solitary, ImportedSoFar, Stands
<1> QED
  BY <1>2, <1>6, <1>7, <1>9 DEF Alone

\* Before a request begins no row has an id of its making.
LEMMA NothingMade ==
  ASSUME Inv, NEW r \in Requests, req[r].pc = "idle"
  PROVE  \A ch \in Chars : rows[<<r, ch>>] = NoRow
  BY Known DEF Unborn

LEMMA CreateAlone ==
  ASSUME Inv, Alone, NEW r \in Requests, NEW ch \in Chars, NEW k \in Classes, NEW role \in Roles,
         Create(r, ch, k, role)
  PROVE  Alone'
<1> DEFINE row == [char |-> ch, class |-> k, role |-> role, goals |-> None]
           q == [Idle EXCEPT !.kind = "create", !.pc = "exists", !.new = row]
<1>1. row \in Row /\ Legal(row) /\ Cardinality(Stored(rows)) < MaxCharacters
  BY DEF Row, Legal, Create
<1>2. Begin(r, q) /\ req[r].pc = "idle"
  BY DEF Create, Begin
<1> HIDE DEF row
<1>3. q \in Request /\ q.kind = "create" /\ q.pc = "exists" /\ q.new = row /\ q.put = NoPut
      /\ q.id = NoId /\ q.seen = NoRow
  <2>1. Idle.put = NoPut /\ Idle.id = NoId /\ Idle.seen = NoRow
    BY DEF Idle
  <2> QED
    BY <1>1, <2>1, IdleTyped DEF Request
<1> HIDE DEF q
<1>4. Solitary(r, q, rows) /\ ImportedSoFar(q, rows)
  BY <1>1, <1>2, <1>3, NothingMade DEF Solitary, ImportedSoFar
<1> QED
  BY <1>2, <1>3, <1>4, SoloBegins

LEMMA UpdateAlone ==
  ASSUME Inv, Alone, NEW r \in Requests, NEW i \in Ids, NEW k \in Classes, NEW role \in Roles,
         NEW goals \in Requests \cup {None}, Update(r, i, k, role, goals)
  PROVE  Alone'
<1> DEFINE new == [rows[i] EXCEPT !.class = k, !.role = role, !.goals = goals]
           q == [Idle EXCEPT !.kind = "update", !.pc = "write", !.id = i, !.seen = rows[i], !.new = new]
<1>1. rows[i] \in Row /\ role \in CLASS_ROLES[k]
  BY Known DEF Update
<1>2. new \in Row /\ new.char = rows[i].char /\ Legal(new)
  BY <1>1 DEF Row, Legal
<1>3. Begin(r, q) /\ req[r].pc = "idle"
  BY DEF Update, Begin
<1> HIDE DEF new
<1>4. /\ q \in Request /\ q.kind = "update" /\ q.pc = "write" /\ q.new = new /\ q.put = NoPut
      /\ q.id = i /\ q.seen = rows[i]
  <2>1. Idle.put = NoPut
    BY DEF Idle
  <2> QED
    BY <1>1, <1>2, <2>1, IdleTyped DEF Request
<1> HIDE DEF q
<1>5. Solitary(r, q, rows) /\ ImportedSoFar(q, rows)
  BY <1>1, <1>2, <1>3, <1>4, NothingMade, NoRowIsNone DEF Solitary, ImportedSoFar
<1> QED
  BY <1>3, <1>4, <1>5, SoloBegins

LEMMA DeleteAlone ==
  ASSUME Inv, Alone, NEW r \in Requests, NEW i \in Ids, Delete(r, i)
  PROVE  Alone'
<1> DEFINE q == [Idle EXCEPT !.kind = "delete", !.pc = "write", !.id = i, !.seen = rows[i]]
<1>1. rows[i] \in Row
  BY Known DEF Delete
<1>2. Begin(r, q) /\ req[r].pc = "idle"
  BY DEF Delete, Begin
<1>3. q \in Request /\ q.kind = "delete" /\ q.pc = "write" /\ q.put = NoPut /\ q.id = i /\ q.seen = rows[i]
  <2>1. Idle.put = NoPut
    BY DEF Idle
  <2> QED
    BY <1>1, <2>1, IdleTyped DEF Request
<1> HIDE DEF q
<1>4. Solitary(r, q, rows) /\ ImportedSoFar(q, rows)
  BY <1>1, <1>2, <1>3, NothingMade, NoRowIsNone DEF Solitary, ImportedSoFar
<1> QED
  BY <1>2, <1>3, <1>4, SoloBegins

LEMMA ImportAlone ==
  ASSUME Inv, Alone, NEW r \in Requests, Import(r)
  PROVE  Alone'
<1> DEFINE n == Cardinality(Stored(rows))
           q == [Idle EXCEPT !.kind = "import", !.pc = "next", !.pos = 1, !.counted = n]
<1>1. Begin(r, q) /\ req[r].pc = "idle"
  BY DEF Import, Begin
<1>2. n \in Nat
  BY StoredIsFinite
<1> HIDE DEF n
<1>3. q \in Request /\ q.kind = "import" /\ q.pc = "next" /\ q.put = NoPut /\ q.pos = 1 /\ q.counted = n
  <2>1. Idle.put = NoPut
    BY DEF Idle
  <2> QED
    BY <1>2, <2>1, IdleTyped DEF Request
<1> HIDE DEF q
<1>4. Solitary(r, q, rows)
  BY <1>1, <1>3, NothingMade DEF Solitary, n
<1>5. ImportedSoFar(q, rows)
  BY <1>3, ConstantsAssumption DEF ImportedSoFar
<1> QED
  BY <1>1, <1>3, <1>4, <1>5, SoloBegins

LEMMA EndAlone ==
  ASSUME Inv, Alone, NEW r \in Requests, Active(r), NEW pc \in {"done", "failed"}, End(r, pc)
  PROVE  Alone'
<1> DEFINE q == [Idle EXCEPT !.pc = pc]
<1>1. q.alone = FALSE
  BY DEF Idle
<1>2. req' = [req EXCEPT ![r] = q]
  BY DEF End
<1> HIDE DEF q
<1>3. \A d \in Requests : req'[d].alone = FALSE
  BY <1>1, <1>2, Known, OthersHaveCompany
<1> QED
  BY <1>3 DEF Alone

LEMMA ExistsAlone ==
  ASSUME Inv, Alone, NEW r \in Requests, Exists(r)
  PROVE  Alone'
<1>1. rows' = rows /\ req[r].pc = "exists" /\ req[r] \in Request /\ Ready(r, req[r]) /\ Active(r)
  BY Known DEF Exists, Active
<1>2. CASE End(r, "failed")
  BY <1>1, <1>2, EndAlone
<1>3. CASE /\ \A i \in Stored(rows) : Fold(rows[i].char) # Fold(req[r].new.char)
           /\ req' = [req EXCEPT ![r].pc = "write"]
  <2> DEFINE q == [req[r] EXCEPT !.pc = "write"]
  <2>1. req' = [req EXCEPT ![r] = q]
    BY <1>3
  <2>2. /\ q \in Request /\ q.pc = "write" /\ q.kind = "create" /\ q.put = req[r].put /\ q.new = req[r].new
        /\ q.id = NoId /\ DOMAIN q.put = {} /\ q.alone = req[r].alone
        /\ q.seen = req[r].seen /\ req[r].id = NoId
    BY <1>1 DEF Request, Ready
  <2> HIDE DEF q
  <2>3. View(r) = rows
    BY <2>2, Known DEF View
  <2>4. q.alone => Solitary(r, q, View(r)) /\ ImportedSoFar(q, View(r))
    <3> SUFFICES ASSUME q.alone PROVE Solitary(r, q, View(r)) /\ ImportedSoFar(q, View(r))
      OBVIOUS
    <3>1. Solitary(r, req[r], View(r))
      BY <2>2 DEF Alone
    <3> QED
      BY <1>1, <1>3, <2>2, <2>3, <3>1 DEF Solitary, ImportedSoFar
  <2> QED
    BY <1>1, <2>1, <2>2, <2>4, SoloPlans
<1> QED
  BY <1>2, <1>3 DEF Exists

LEMMA LookupAlone ==
  ASSUME Inv, Alone, NEW r \in Requests, Lookup(r)
  PROVE  Alone'
<1> DEFINE e == Profile[req[r].pos]
           v == View(r)
           found == {i \in Stored(View(r)) : Fold(View(r)[i].char) = Fold(e.char)}
           fresh == [char |-> e.char, class |-> e.class, role |-> DefaultRole[e.class], goals |-> None]
<1>1. /\ rows' = rows /\ req[r].pc = "next" /\ req[r].pos <= Len(Profile)
      /\ req[r] \in Request /\ Ready(r, req[r]) /\ Active(r)
  BY Known DEF Lookup, Active
<1>2. req[r].kind = "import" /\ req[r].pos \in Nat /\ req[r].pos > 0
  BY <1>1 DEF Ready, Request
<1>3. e \in [char : Chars, class : Classes \cup {None}]
  <2>1. \A S, t, n : t \in Seq(S) /\ n \in Nat /\ n > 0 /\ n <= Len(t) => t[n] \in S
    OBVIOUS
  <2> QED
    BY <1>1, <1>2, <2>1, ConstantsAssumption
<1>4. e.class # None => fresh \in Row /\ Legal(fresh) /\ fresh.char = e.char /\ fresh.class = e.class
                        /\ fresh.goals = None
  BY <1>3, ConstantsAssumption DEF Row, Legal
<1>5. Len(Profile) \in Nat
  BY ConstantsAssumption
<1>s. req[r].alone => /\ Solitary(r, req[r], v)
                      /\ NamesDiffer => ImportedSoFar(req[r], v)
  BY DEF Alone
<1>c. req[r].alone => req[r].counted = Cardinality(Stored(v))
  BY <1>s, <1>2 DEF Solitary
<1>6. CASE e.class = None /\ req' = [req EXCEPT ![r].pos = @ + 1]
  <2> DEFINE q == [req[r] EXCEPT !.pos = @ + 1]
  <2>1. req' = [req EXCEPT ![r] = q]
    BY <1>6
  <2>2. /\ q \in Request /\ q.pc = "next" /\ q.kind = "import" /\ q.pos = req[r].pos + 1 /\ q.put = req[r].put
        /\ q.alone = req[r].alone /\ q.counted = req[r].counted /\ q.stopped = req[r].stopped
    BY <1>1, <1>2 DEF Request
  <2> HIDE DEF q, v
  <2>3. q.alone => Solitary(r, q, v)
    BY <1>s, <1>1, <1>2, <2>2 DEF Solitary
  <2>4. q.alone => (NamesDiffer => ImportedSoFar(q, v))
    <3> SUFFICES ASSUME q.alone, NamesDiffer, ~q.stopped, NEW n \in 1 .. Len(Profile), n < q.pos,
                        Profile[n].class # None
                 PROVE  Stands(v, Profile[n])
      BY <2>2 DEF ImportedSoFar
    <3>1. n # req[r].pos
      BY <1>6
    <3>2. n < req[r].pos
      BY <1>2, <1>5, <2>2, <3>1
    <3> QED
      BY <1>s, <1>2, <2>2, <3>2 DEF ImportedSoFar
  <2> QED
    BY <1>1, <2>1, <2>2, <2>3, <2>4, SoloPlans DEF v
<1>7. CASE req' = [req EXCEPT ![r].pos = Len(Profile) + 1, ![r].stopped = TRUE]
  <2> DEFINE n == Len(Profile) + 1
             q == [req[r] EXCEPT !.pos = n, !.stopped = TRUE]
  <2>n. n \in Nat /\ n > 0
    BY <1>5
  <2>1. req' = [req EXCEPT ![r] = q]
    BY <1>1, <1>7, Known DEF Request
  <2> HIDE DEF n
  <2>2. /\ q \in Request /\ q.pc = "next" /\ q.kind = "import" /\ q.stopped /\ q.put = req[r].put
        /\ q.alone = req[r].alone /\ q.counted = req[r].counted
    BY <1>1, <1>2, <2>n DEF Request
  <2> HIDE DEF q, v
  <2>3. q.alone => Solitary(r, q, v) /\ ImportedSoFar(q, v)
    BY <1>s, <1>1, <1>2, <2>2 DEF Solitary, ImportedSoFar
  <2> QED
    BY <1>1, <2>1, <2>2, <2>3, SoloPlans DEF v
<1>8. CASE End(r, "failed")
  BY <1>1, <1>8, EndAlone
<1>9. CASE /\ e.class # None /\ req[r].counted < MaxCharacters /\ found = {}
           /\ req' = [req EXCEPT ![r].pc = "write", ![r].id = NoId, ![r].seen = NoRow, ![r].new = fresh]
  <2>f. \A i \in Stored(v) : Fold(v[i].char) # Fold(fresh.char)
    BY <1>4, <1>9
  <2> HIDE DEF fresh, v
  <2> DEFINE q == [req[r] EXCEPT !.pc = "write", !.id = NoId, !.seen = NoRow, !.new = fresh]
  <2>1. req' = [req EXCEPT ![r] = q]
    BY <1>1, <1>9, Known DEF Request
  <2>2. /\ q \in Request /\ q.pc = "write" /\ q.kind = "import" /\ q.pos = req[r].pos /\ q.put = req[r].put
        /\ q.id = NoId /\ q.new = fresh /\ q.seen = NoRow
        /\ q.alone = req[r].alone /\ q.counted = req[r].counted /\ q.stopped = req[r].stopped
    BY <1>1, <1>2, <1>4, <1>9 DEF Request
  <2> HIDE DEF q
  <2>3. q.alone => Solitary(r, q, v)
    BY <1>s, <1>c, <1>2, <1>4, <1>9, <2>2, <2>f DEF Solitary
  <2>4. q.alone => (NamesDiffer => ImportedSoFar(q, v))
    BY <1>s, <1>1, <1>2, <1>4, <1>5, <1>9, <2>2 DEF ImportedSoFar
  <2> QED
    BY <1>1, <2>1, <2>2, <2>3, <2>4, SoloPlans DEF v
<1>10. ASSUME NEW i \in found, e.class # None,
              req' = [req EXCEPT ![r].pc = "write", ![r].id = i, ![r].seen = View(r)[i],
                                 ![r].new = [fresh EXCEPT !.goals = View(r)[i].goals]]
       PROVE  Alone'
  <2> DEFINE seen == View(r)[i]
             new == [fresh EXCEPT !.goals = seen.goals]
             q == [req[r] EXCEPT !.pc = "write", !.id = i, !.seen = seen, !.new = new]
  <2>1. i \in Ids /\ seen \in Row /\ Fold(seen.char) = Fold(e.char) /\ i # NoId
    BY ViewTyped, NoRowIsNone DEF Stored
  <2>2. new \in Row /\ Legal(new) /\ new.char = e.char /\ new.class = e.class
    <3> HIDE DEF seen
    <3>1. fresh.goals = None /\ seen.goals \in Requests \cup {None}
      BY <2>1 DEF Row
    <3> QED
      BY <1>4, <1>10, <3>1 DEF Row, Legal
  <2> HIDE DEF seen, new
  <2>3. req' = [req EXCEPT ![r] = q]
    BY <1>1, <1>10, Known DEF Request, seen, new
  <2>4. /\ q \in Request /\ q.pc = "write" /\ q.kind = "import" /\ q.pos = req[r].pos /\ q.put = req[r].put
        /\ q.id = i /\ q.new = new /\ q.seen = seen
        /\ q.alone = req[r].alone /\ q.counted = req[r].counted /\ q.stopped = req[r].stopped
    BY <1>1, <1>2, <2>1, <2>2 DEF Request
  <2>5. seen = v[i]
    BY DEF seen
  <2> HIDE DEF q, v
  <2>6. q.alone => Solitary(r, q, v)
    BY <1>s, <1>2, <2>1, <2>2, <2>4, <2>5 DEF Solitary
  <2>7. q.alone => (NamesDiffer => ImportedSoFar(q, v))
    BY <1>s, <1>1, <1>2, <1>5, <1>10, <2>2, <2>4 DEF ImportedSoFar
  <2> QED
    BY <1>1, <2>3, <2>4, <2>6, <2>7, SoloPlans DEF v
<1>11. \/ e.class = None /\ req' = [req EXCEPT ![r].pos = @ + 1]
       \/ req' = [req EXCEPT ![r].pos = Len(Profile) + 1, ![r].stopped = TRUE]
       \/ End(r, "failed")
       \/ /\ e.class # None /\ req[r].counted < MaxCharacters /\ found = {}
          /\ req' = [req EXCEPT ![r].pc = "write", ![r].id = NoId, ![r].seen = NoRow, ![r].new = fresh]
       \/ /\ e.class # None
          /\ \E i \in found : req' = [req EXCEPT ![r].pc = "write", ![r].id = i, ![r].seen = View(r)[i],
                                 ![r].new = [fresh EXCEPT !.goals = View(r)[i].goals]]
  BY DEF Lookup
<1> QED
  BY <1>6, <1>7, <1>8, <1>9, <1>10, <1>11

\* What a statement leaves of the request, apart from the row.
LEMMA ContinuedFields ==
  ASSUME Inv, NEW r \in Requests, req[r].pc = "write"
  PROVE  /\ Continued(r).alone = req[r].alone /\ Continued(r).stopped = req[r].stopped
         /\ Continued(r).kind = "import" =>
              /\ Continued(r).pos = req[r].pos + 1
              /\ Continued(r).counted = IF req[r].id = NoId THEN req[r].counted + 1 ELSE req[r].counted
<1>1. req[r] \in Request
  BY Known
<1> QED
  BY <1>1 DEF Continued, Request

\* A request that is alone writes the row it planned, over the row it read.
LEMMA MergedIsPlanned ==
  ASSUME Inv, NEW r \in Requests, req[r].pc = "write", Solitary(r, req[r], View(r)), ~Refused(r)
  PROVE  /\ req[r].kind # "delete" => Merged(r) = req[r].new /\ req[r].new \in Row
         /\ req[r].kind = "delete" => Merged(r) = NoRow
         /\ req[r].id # NoId => Target(r) = req[r].id /\ req[r].id \in Ids
         /\ req[r].id # NoId /\ req[r].kind # "delete" => View(r)[req[r].id] \in Row
<1> DEFINE q == req[r]
           now == View(r)[q.id]
<1>1. q \in Request /\ Ready(r, q) /\ q.id \in Ids \cup {NoId}
  BY Known DEF Request
<1>2. CASE q.id = NoId
  BY <1>1, <1>2 DEF Merged, Ready
<1>3. CASE q.id # NoId /\ q.kind = "delete"
  BY <1>1, <1>3 DEF Merged, Target
<1>4. CASE q.id # NoId /\ q.kind # "delete"
  <2>1. now = q.seen /\ now # NoRow /\ q.id \in Ids /\ Target(r) = q.id
    BY <1>1, <1>4 DEF Refused, Target, Solitary
  <2>2. q.new \in Row /\ q.seen \in Row
    BY <1>1, <1>4 DEF Ready
  <2>3. Merged(r) = [char |-> Sent(q.new.char, q.seen.char, q.seen.char),
                     class |-> Sent(q.new.class, q.seen.class, q.seen.class),
                     role |-> Sent(q.new.role, q.seen.role, q.seen.role),
                     goals |-> Sent(q.new.goals, q.seen.goals, q.seen.goals)]
    BY <1>4, <2>1 DEF Merged
  <2>4. Merged(r) = q.new
    <3>1. \A a, b : Sent(a, b, b) = a
      BY DEF Sent
    <3> HIDE DEF q
    <3> QED
      BY <2>2, <2>3, <3>1 DEF Row
  <2> QED
    BY <1>4, <2>1, <2>2, <2>4
<1> QED
  BY <1>2, <1>3, <1>4

\* The table a write of a request that is alone leaves it with.
LEMMA WrittenIsGood ==
  ASSUME Inv, NEW r \in Requests, req[r].pc = "write", Solitary(r, req[r], View(r)), ~Refused(r)
  PROVE  /\ Good(View(r)) => Good(PutRow(View(r), Target(r), Merged(r)))
         /\ Target(r) \in Ids /\ Merged(r) \in Row \cup {NoRow}
         /\ req[r].kind = "import" =>
              Cardinality(Stored(PutRow(View(r), Target(r), Merged(r))))
                = IF req[r].id = NoId THEN Cardinality(Stored(View(r))) + 1 ELSE Cardinality(Stored(View(r)))
         /\ req[r].id = NoId => View(r)[Target(r)] = NoRow
         /\ \A ch \in Chars : Target(r) = <<r, ch>> /\ Merged(r) # NoRow => Fold(Merged(r).char) = Fold(ch)
<1> DEFINE q == req[r]
           v == View(r)
           T == Target(r)
           m == Merged(r)
<1>1. q \in Request /\ Ready(r, q) /\ v \in [Ids -> Row \cup {NoRow}]
  BY Known, ViewTyped
<1>2. T \in Ids /\ m \in Row \cup {NoRow}
  BY MergedTyped
<1>3. CASE q.id = NoId
  <2>1. q.kind # "delete" /\ m = q.new /\ m \in Row /\ T = <<r, m.char>> /\ m.char \in Chars
    BY <1>1, <1>3, MergedIsPlanned DEF Ready, Target, Row
  <2>2. Legal(m) /\ Cardinality(Stored(v)) < MaxCharacters /\ \A i \in Stored(v) : Fold(v[i].char) # Fold(m.char)
    BY <1>3, <2>1 DEF Solitary
  <2>3. v[T] = NoRow
    <3>1. v[T] # NoRow => Fold(v[T].char) = Fold(m.char)
      BY <2>1 DEF Solitary
    <3> QED
      BY <1>2, <2>2, <3>1 DEF Stored
  <2>4. \A ch \in Chars : T = <<r, ch>> => ch = m.char
    BY <2>1
  <2> HIDE DEF v, T, m
  <2>5. /\ Good(v) => Good(PutRow(v, T, m))
        /\ Cardinality(Stored(PutRow(v, T, m))) = Cardinality(Stored(v)) + 1
    BY <1>1, <1>2, <2>1, <2>2, <2>3, InsertIsGood
  <2> QED
    BY <1>2, <1>3, <2>3, <2>4, <2>5 DEF v, T, m
<1>4. CASE q.id # NoId /\ q.kind = "delete"
  <2>1. m = NoRow
    BY <1>4, MergedIsPlanned
  <2> HIDE DEF v, T, m
  <2>2. Good(v) => Good(PutRow(v, T, NoRow))
    BY <1>1, <1>2, RemovalIsGood
  <2> QED
    BY <1>2, <1>4, <2>1, <2>2 DEF v, T, m
<1>5. CASE q.id # NoId /\ q.kind # "delete"
  <2>1. m = q.new /\ m \in Row /\ T = q.id /\ v[T] \in Row /\ v[T] = q.seen
        /\ Legal(m) /\ Fold(m.char) = Fold(v[T].char)
    BY <1>5, MergedIsPlanned DEF Solitary
  <2>2. v[T] # NoRow
    BY <2>1, NoRowIsNone
  <2>3. \A ch \in Chars : T = <<r, ch>> => Fold(m.char) = Fold(ch)
    BY <2>1, <2>2 DEF Solitary
  <2> HIDE DEF v, T, m
  <2>4. (Good(v) => Good(PutRow(v, T, m))) /\ Stored(PutRow(v, T, m)) = Stored(v)
    BY <1>1, <1>2, <2>1, <2>2, ReplaceIsGood
  <2> QED
    BY <1>2, <1>5, <2>3, <2>4 DEF v, T, m
<1> QED
  BY <1>3, <1>4, <1>5

LEMMA WriteAlone ==
  ASSUME Inv, Alone, NEW r \in Requests, Write(r)
  PROVE  Alone'
<1> DEFINE c == Continued(r)
           v == View(r)
           T == Target(r)
           m == Merged(r)
           put == [i \in DOMAIN req[r].put \cup {T} |-> IF i = T THEN m ELSE req[r].put[i]]
<1>1. /\ rows' = rows /\ req[r].pc = "write" /\ req[r] \in Request /\ Ready(r, req[r]) /\ Active(r)
      /\ v \in [Ids -> Row \cup {NoRow}]
  BY Known, ViewTyped DEF Write, Active
<1>2. /\ c \in Request /\ c.put = req[r].put /\ c.kind = req[r].kind /\ c.pc \in {"next", "written"}
      /\ c.alone = req[r].alone /\ c.stopped = req[r].stopped
      /\ c.kind = "import" =>
           /\ c.pos = req[r].pos + 1
           /\ c.counted = IF req[r].id = NoId THEN req[r].counted + 1 ELSE req[r].counted
  BY <1>1, ContinuedTyped, ContinuedFields
<1>3. req[r].alone => Solitary(r, req[r], v) /\ (NamesDiffer => ImportedSoFar(req[r], v))
  BY DEF Alone
<1>4. CASE Refused(r)
  BY <1>1, <1>4, EndAlone DEF Write
<1>5. CASE ~Refused(r) /\ ~Changes(r)
  <2>1. req' = [req EXCEPT ![r] = c]
    BY <1>5 DEF Write
  <2>2. req[r].alone => req[r].id # NoId /\ (req[r].kind = "import" => v[req[r].id] = req[r].new /\ req[r].id \in Ids)
    BY <1>1, <1>3, <1>5, NoRowIsNone DEF Changes, Solitary, Ready, Request
  <2> HIDE DEF c, v
  <2>3. c.alone => Solitary(r, c, v)
    BY <1>2, <1>3, <2>2 DEF Solitary
  <2>4. c.alone => (NamesDiffer => ImportedSoFar(c, v))
    <3> SUFFICES ASSUME c.alone, NamesDiffer, c.kind = "import", ~c.stopped,
                        NEW n \in 1 .. Len(Profile), n < c.pos, Profile[n].class # None
                 PROVE  Stands(v, Profile[n])
      BY <1>2 DEF ImportedSoFar
    <3>1. ImportedSoFar(req[r], v) /\ req[r].kind = "import" /\ ~req[r].stopped
      BY <1>2, <1>3
    <3>2. CASE n = req[r].pos
      BY <1>1, <1>2, <2>2, <3>1, <3>2 DEF ImportedSoFar, Stands
    <3>3. CASE n # req[r].pos
      <4>1. n < req[r].pos
        BY <1>1, <1>2, <3>3, ConstantsAssumption DEF Request
      <4> QED
        BY <3>1, <4>1 DEF ImportedSoFar
    <3> QED
      BY <3>2, <3>3
  <2> QED
    BY <1>1, <1>2, <2>1, <2>3, <2>4, SoloPlans DEF v
<1>6. CASE ~Refused(r) /\ Changes(r)
  <2> DEFINE q == [c EXCEPT !.put = put]
             w == PutRow(v, T, m)
  <2>1. req' = [req EXCEPT ![r] = q]
    BY <1>2, <1>6 DEF Write, Request
  <2>2. T \in Ids /\ m \in Row \cup {NoRow}
    BY <1>1, <1>6, MergedTyped
  <2>3. put \in Puts
    <3>1. DOMAIN put \in SUBSET Ids /\ \A i \in DOMAIN put : put[i] \in Row \cup {NoRow}
      BY <2>2, Known
    <3>2. put \in [DOMAIN put -> Row \cup {NoRow}]
      BY <3>1
    <3> HIDE DEF put
    <3> QED
      BY <3>1, <3>2 DEF Puts
  <2>4. w = [i \in Ids |-> IF i \in DOMAIN put THEN put[i] ELSE rows[i]]
    BY <2>2 DEF PutRow, View
  <2>5. req[r].alone =>
          /\ Good(v) => Good(w)
          /\ req[r].kind = "import" =>
               Cardinality(Stored(w)) = IF req[r].id = NoId THEN Cardinality(Stored(v)) + 1 ELSE Cardinality(Stored(v))
          /\ req[r].id = NoId => v[T] = NoRow
          /\ \A ch \in Chars : T = <<r, ch>> /\ m # NoRow => Fold(m.char) = Fold(ch)
          /\ req[r].kind # "delete" => m = req[r].new
          /\ req[r].id # NoId => T = req[r].id /\ v[T] = req[r].seen
    <3> SUFFICES ASSUME req[r].alone
                 PROVE  /\ Good(v) => Good(w)
                        /\ req[r].kind = "import" =>
                             Cardinality(Stored(w))
                               = IF req[r].id = NoId THEN Cardinality(Stored(v)) + 1 ELSE Cardinality(Stored(v))
                        /\ req[r].id = NoId => v[T] = NoRow
                        /\ \A ch \in Chars : T = <<r, ch>> /\ m # NoRow => Fold(m.char) = Fold(ch)
                        /\ req[r].kind # "delete" => m = req[r].new
                        /\ req[r].id # NoId => T = req[r].id /\ v[T] = req[r].seen
      OBVIOUS
    <3>1. Solitary(r, req[r], v)
      BY <1>3
    <3>2. req[r].id # NoId => T = req[r].id /\ v[T] = req[r].seen
      BY <1>1, <1>6, <3>1, MergedIsPlanned DEF Solitary
    <3> QED
      BY <1>1, <1>6, <3>1, <3>2, WrittenIsGood, MergedIsPlanned
  <2>6. w[T] = m /\ \A i \in Ids \ {T} : w[i] = v[i]
    BY <1>1, <2>2, PutRowTyped
  <2> HIDE DEF c, v, T, m, put, w
  <2>7. /\ q \in Request /\ q.put = put /\ q.kind = req[r].kind /\ q.pc \in {"next", "written"}
        /\ q.alone = req[r].alone /\ q.stopped = req[r].stopped
        /\ q.kind = "import" =>
             /\ q.pos = req[r].pos + 1
             /\ q.counted = IF req[r].id = NoId THEN req[r].counted + 1 ELSE req[r].counted
    BY <1>2, <2>3 DEF Request
  <2> HIDE DEF q
  <2>8. q.alone => Solitary(r, q, w)
    <3> SUFFICES ASSUME q.alone PROVE Solitary(r, q, w)
      OBVIOUS
    <3>1. Solitary(r, req[r], v)
      BY <1>3, <2>7
    <3>2. \A ch \in Chars : w[<<r, ch>>] # NoRow => Fold(w[<<r, ch>>].char) = Fold(ch)
      <4> SUFFICES ASSUME NEW ch \in Chars, w[<<r, ch>>] # NoRow
                   PROVE  Fold(w[<<r, ch>>].char) = Fold(ch)
        OBVIOUS
      <4>1. <<r, ch>> \in Ids
        BY DEF Ids
      <4>2. CASE <<r, ch>> = T
        BY <2>5, <2>6, <2>7, <4>2
      <4>3. CASE <<r, ch>> # T
        BY <2>6, <3>1, <4>1, <4>3 DEF Solitary
      <4> QED
        BY <4>2, <4>3
    <3>3. q.kind = "import" => q.counted = Cardinality(Stored(w))
      BY <2>5, <2>7, <3>1 DEF Solitary
    <3> QED
      BY <2>5, <2>7, <3>1, <3>2, <3>3 DEF Solitary
  <2>9. q.alone => (NamesDiffer => ImportedSoFar(q, w))
    <3> SUFFICES ASSUME q.alone, NamesDiffer, q.kind = "import", ~q.stopped,
                        NEW n \in 1 .. Len(Profile), n < q.pos, Profile[n].class # None
                 PROVE  Stands(w, Profile[n])
      BY <2>7 DEF ImportedSoFar
    <3>1. /\ ImportedSoFar(req[r], v) /\ req[r].kind = "import" /\ ~req[r].stopped /\ Solitary(r, req[r], v)
          /\ m = req[r].new
      BY <1>3, <2>5, <2>7
    <3>2. /\ req[r].pos \in 1 .. Len(Profile) /\ Profile[req[r].pos].class # None
          /\ m.char = Profile[req[r].pos].char /\ m.class = Profile[req[r].pos].class
      BY <1>1, <3>1 DEF ImportedSoFar
    <3>3. CASE n = req[r].pos
      BY <2>2, <2>6, <3>2, <3>3 DEF Stands
    <3>4. CASE n # req[r].pos
      <4>1. n < req[r].pos
        BY <1>1, <2>7, <3>4, ConstantsAssumption DEF Request
      <4>2. PICK i \in Ids : v[i].char = Profile[n].char /\ v[i].class = Profile[n].class
        BY <3>1, <4>1 DEF ImportedSoFar, Stands
      <4>3. Fold(Profile[n].char) # Fold(m.char)
        BY <3>2, <3>4 DEF NamesDiffer
      <4>4. Profile[n].char # None
        <5>1. \A S, t, j : t \in Seq(S) /\ j \in 1 .. Len(t) => t[j] \in S
          OBVIOUS
        <5>2. Profile[n] \in [char : Chars, class : Classes \cup {None}]
          BY <5>1, ConstantsAssumption
        <5> QED
          BY <5>2, ConstantsAssumption
      <4>5. i # T
        <5>1. CASE req[r].id = NoId
          BY <2>5, <2>7, <4>2, <4>4, <5>1 DEF NoRow
        <5>2. CASE req[r].id # NoId
          <6>1. Fold(v[T].char) = Fold(m.char)
            BY <1>1, <2>5, <2>7, <3>1, <5>2 DEF Solitary
          <6> QED
            BY <4>2, <4>3, <6>1
        <5> QED
          BY <5>1, <5>2
      <4> QED
        BY <2>6, <4>2, <4>5 DEF Stands
    <3> QED
      BY <3>3, <3>4
  <2> QED
    BY <1>1, <2>1, <2>4, <2>7, <2>8, <2>9, SoloMoves
<1> QED
  BY <1>4, <1>5, <1>6

LEMMA CommitAlone ==
  ASSUME Inv, Alone, NEW r \in Requests, Commit(r)
  PROVE  Alone'
  BY Committed, EndAlone DEF Commit

LEMMA InitAlone == Init => Alone
<1> SUFFICES ASSUME Init, NEW r \in Requests PROVE req[r].alone = FALSE
  BY DEF Alone
<1> QED
  BY DEF Init, Idle

LEMMA NextAlone == Inv /\ Alone /\ [Next]_vars => Alone'
<1> SUFFICES ASSUME Inv, Alone, [Next]_vars PROVE Alone'
  OBVIOUS
<1>1. CASE Next
  <2>1. ASSUME NEW r \in Requests, Crash(r) PROVE Alone'
    BY <2>1, EndAlone DEF Crash
  <2> QED
    BY <1>1, <2>1, CreateAlone, UpdateAlone, DeleteAlone, ImportAlone, ExistsAlone, LookupAlone,
       WriteAlone, CommitAlone DEF Next, Step
<1>2. CASE UNCHANGED vars
  BY <1>2 DEF vars, Alone, Active, Solitary, ImportedSoFar, View, Stands
<1> QED
  BY <1>1, <1>2

LEMMA AloneHolds == Spec => [](Inv /\ Alone)
  BY InitInv, InitAlone, NextKeeps, NextAlone, PTL DEF Spec

\* Only the commit of a request makes it done.
LEMMA CommittingCommits ==
  ASSUME Inv, Next, NEW r \in Requests, Committing(r)
  PROVE  Commit(r)
<1>1. /\ Active(r) /\ req'[r].pc = "done" /\ req[r].pc \notin {"idle", "done"} /\ req[r] \in Request
      /\ req \in [Requests -> Request]
  BY Known DEF Committing, Active
<1>2. ASSUME NEW d \in Requests, NEW q, Begin(d, q) PROVE FALSE
  <2>1. r # d
    BY <1>1, <1>2 DEF Begin
  <2>2. req'[r] = [req[r] EXCEPT !.alone = FALSE]
    BY <1>2, <2>1 DEF Begin
  <2> QED
    BY <1>1, <2>2 DEF Request
<1>3. ASSUME NEW d \in Requests, End(d, "failed") PROVE FALSE
  <2>1. [Idle EXCEPT !.pc = "failed"].pc = "failed"
    BY DEF Idle
  <2> QED
    BY <1>1, <1>3, <2>1 DEF End
<1>4. ASSUME NEW d \in Requests, NEW q, q.pc # "done", req' = [req EXCEPT ![d] = q] PROVE FALSE
  BY <1>1, <1>4
<1>5. ASSUME NEW d \in Requests, Exists(d) PROVE FALSE
  <2>1. req[d] \in Request
    BY <1>1
  <2>2. [req[d] EXCEPT !.pc = "write"].pc = "write"
    BY <2>1 DEF Request
  <2> QED
    BY <1>3, <1>4, <1>5, <2>2 DEF Exists
<1>6. ASSUME NEW d \in Requests, Lookup(d) PROVE FALSE
  <2> DEFINE e == Profile[req[d].pos]
             fresh == [char |-> e.char, class |-> e.class, role |-> DefaultRole[e.class], goals |-> None]
  <2>1. \/ req' = [req EXCEPT ![d].pos = @ + 1]
        \/ req' = [req EXCEPT ![d].pos = Len(Profile) + 1, ![d].stopped = TRUE]
        \/ End(d, "failed")
        \/ req' = [req EXCEPT ![d].pc = "write", ![d].id = NoId, ![d].seen = NoRow, ![d].new = fresh]
        \/ \E i \in Ids : req' = [req EXCEPT ![d].pc = "write", ![d].id = i, ![d].seen = View(d)[i],
                                 ![d].new = [fresh EXCEPT !.goals = View(d)[i].goals]]
    BY <1>6 DEF Lookup, Stored
  <2> HIDE DEF fresh
  <2>2. CASE req' = [req EXCEPT ![d].pos = @ + 1]
    BY <1>1, <2>2 DEF Request
  <2>3. CASE req' = [req EXCEPT ![d].pos = Len(Profile) + 1, ![d].stopped = TRUE]
    BY <1>1, <2>3 DEF Request
  <2>4. CASE req' = [req EXCEPT ![d].pc = "write", ![d].id = NoId, ![d].seen = NoRow, ![d].new = fresh]
    BY <1>1, <2>4 DEF Request
  <2>5. ASSUME NEW i \in Ids, req' = [req EXCEPT ![d].pc = "write", ![d].id = i, ![d].seen = View(d)[i],
                                 ![d].new = [fresh EXCEPT !.goals = View(d)[i].goals]]
        PROVE  FALSE
    <3> DEFINE new == [fresh EXCEPT !.goals = View(d)[i].goals]
               seen == View(d)[i]
    <3>1. req' = [req EXCEPT ![d].pc = "write", ![d].id = i, ![d].seen = seen, ![d].new = new]
      BY <2>5
    <3> HIDE DEF new, seen
    <3> QED
      BY <1>1, <3>1 DEF Request
  <2> QED
    BY <1>3, <2>1, <2>2, <2>3, <2>4, <2>5
<1>7. ASSUME NEW d \in Requests, Write(d) PROVE FALSE
  <2>1. Continued(d) \in Request /\ Continued(d).pc \in {"next", "written"}
    BY <1>7, ContinuedTyped DEF Write
  <2> DEFINE c == Continued(d)
  <2> HIDE DEF c
  <2>2. c.pc # "done" /\ \A put : [c EXCEPT !.put = put].pc # "done"
    BY <2>1 DEF Request, c
  <2>3. \/ End(d, "failed")
        \/ req' = [req EXCEPT ![d] = c]
        \/ \E put : req' = [req EXCEPT ![d] = [c EXCEPT !.put = put]]
    BY <1>7 DEF Write, c
  <2>4. CASE req' = [req EXCEPT ![d] = c]
    BY <1>4, <2>2, <2>4
  <2>5. ASSUME NEW put, req' = [req EXCEPT ![d] = [c EXCEPT !.put = put]] PROVE FALSE
    <3> DEFINE q == [c EXCEPT !.put = put]
    <3>1. q.pc # "done" /\ req' = [req EXCEPT ![d] = q]
      BY <2>2, <2>5
    <3> QED
      BY <1>4, <3>1
  <2> QED
    BY <1>3, <2>3, <2>4, <2>5
<1>8. ASSUME NEW d \in Requests, Commit(d) PROVE Commit(r)
  BY <1>1, <1>8, Committed
<1> QED
  BY <1>2, <1>3, <1>5, <1>6, <1>7, <1>8 DEF Next, Step, Create, Update, Delete, Import, Crash

(* No request that has met no other leaves a roster that the service does  *)
(* not promise: too long, with a character twice, or with one in a role    *)
(* its class cannot fill.                                                  *)
THEOREM AnomaliesTakeTwo == Spec => AnomaliesNeedCompany
<1> DEFINE Safe == \A r \in Requests : Committing(r) /\ req[r].alone /\ Good(rows) => Good(rows')
<1>1. Inv /\ Alone /\ [Next]_vars => [Safe]_vars
  <2> SUFFICES ASSUME Inv, Alone, Next, NEW r \in Requests, Committing(r), req[r].alone, Good(rows)
               PROVE  Good(rows')
    OBVIOUS
  <2>1. rows' = View(r)
    BY CommittingCommits, Committed
  <2> QED
    BY <2>1 DEF Alone, Solitary
<1> QED
  BY <1>1, AloneHolds, PTL DEF Spec, AnomaliesNeedCompany

(* When Battle.net lists no character twice, an import that meets no other *)
(* request and no full roster leaves each of them as Battle.net has it.    *)
THEOREM ImportsAreComplete == NamesDiffer => (Spec => ImportIsComplete)
<1> SUFFICES ASSUME NamesDiffer PROVE Spec => ImportIsComplete
  OBVIOUS
<1> DEFINE Complete ==
      \A r \in Requests : Committing(r) /\ req[r].kind = "import" /\ req[r].alone /\ ~req[r].stopped =>
        \A n \in 1 .. Len(Profile) : Profile[n].class # None =>
          \E i \in Ids : rows'[i].char = Profile[n].char /\ rows'[i].class = Profile[n].class
<1>1. Inv /\ Alone /\ [Next]_vars => [Complete]_vars
  <2> SUFFICES ASSUME Inv, Alone, Next, NEW r \in Requests, Committing(r), req[r].kind = "import",
                      req[r].alone, ~req[r].stopped, NEW n \in 1 .. Len(Profile), Profile[n].class # None
               PROVE  \E i \in Ids : rows'[i].char = Profile[n].char /\ rows'[i].class = Profile[n].class
    OBVIOUS
  <2>1. rows' = View(r) /\ Commit(r)
    BY CommittingCommits, Committed
  <2>2. n < req[r].pos
    BY <2>1, Known, ConstantsAssumption DEF Commit, Ready, Request
  <2> QED
    BY <2>1, <2>2 DEF Alone, ImportedSoFar, Stands
<1> QED
  BY <1>1, AloneHolds, PTL DEF Spec, ImportIsComplete

===============================================================================
