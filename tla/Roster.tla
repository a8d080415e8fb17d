-------------------------------- MODULE Roster --------------------------------
(***************************************************************************)
(* The characters of one user: CharacterService                            *)
(* (src/backend/app/services/character.py) and the import of a Battle.net  *)
(* roster (services/blizzard_sync.py), as requests that run concurrently.  *)
(*                                                                         *)
(* A request is one READ COMMITTED transaction.  It reads what is          *)
(* committed and what it wrote itself; a statement that touches a row, or  *)
(* a (name, realm), that another open transaction has written waits for    *)
(* that transaction; an update sends only the columns it changes.          *)
(***************************************************************************)
EXTENDS Naturals, Sequences, FiniteSets

CONSTANTS
  Chars,        \* a character's name and realm as they are written
  Fold(_),      \* the same in lower case
  Classes, Roles,
  CLASS_ROLES,  \* the roles each class can fill
  DefaultRole,  \* default_role_for_class
  MaxCharacters,\* MAX_CHARACTERS_PER_USER
  Profile,      \* the Battle.net roster, in its order: [char, class]
  Requests, None

ASSUME ConstantsAssumption ==
  /\ None \notin Chars \cup Classes \cup Roles \cup Requests
  /\ CLASS_ROLES \in [Classes -> SUBSET Roles]
  /\ \A k \in Classes : DefaultRole[k] \in CLASS_ROLES[k]
  /\ MaxCharacters \in Nat /\ IsFiniteSet(Chars) /\ IsFiniteSet(Requests)
  /\ Profile \in Seq([char : Chars, class : Classes \cup {None}])

VARIABLES
  rows,   \* the committed rows by id: [char, class, role, goals]
  req     \* the requests

vars == <<rows, req>>

(* An id is the request that inserted the row, and the character; goals    *)
(* stands for what only the user writes, by the PATCH that wrote it.       *)
Ids == (Requests \cup {None}) \X Chars
Row == [char : Chars, class : Classes, role : Roles, goals : Requests \cup {None}]
NoRow == [char |-> None, class |-> None, role |-> None, goals |-> None]
NoId == <<None, None>>
NoPut == [i \in {} |-> NoRow]
Idle == [kind |-> None, pc |-> "idle", counted |-> 0, pos |-> 0, id |-> NoId,
         seen |-> NoRow, new |-> NoRow, put |-> NoPut, alone |-> FALSE, stopped |-> FALSE]

Stored(table) == {i \in Ids : table[i] # NoRow}
Legal(row) == row.role \in CLASS_ROLES[row.class]
NoTwins(table) ==
  \A i, j \in Stored(table) : i # j => Fold(table[i].char) # Fold(table[j].char)

Puts == UNION {[S -> Row \cup {NoRow}] : S \in SUBSET Ids}
TypeOK ==
  /\ rows \in [Ids -> Row \cup {NoRow}]
  /\ req \in [Requests ->
       [kind : {None, "create", "update", "delete", "import"},
        pc : {"idle", "exists", "write", "next", "written", "done", "failed"},
        counted : Nat, pos : Nat, id : Ids \cup {NoId}, seen : Row \cup {NoRow}, new : Row \cup {NoRow},
        put : Puts, alone : BOOLEAN, stopped : BOOLEAN]]

(* A roster as requests that have the user to themselves leave it.         *)
Init ==
  /\ \E S \in SUBSET Chars, k \in Classes :
       /\ Cardinality(S) <= MaxCharacters
       /\ rows = [i \in Ids |-> IF i[1] = None /\ i[2] \in S
                                THEN [char |-> i[2], class |-> k, role |-> DefaultRole[k], goals |-> None]
                                ELSE NoRow]
  /\ NoTwins(rows)
  /\ req = [r \in Requests |-> Idle]

-----------------------------------------------------------------------------
Active(r) == req[r].pc \notin {"idle", "done", "failed"}
(* What a request reads: its own writes over the committed rows.           *)
View(r) == [i \in Ids |-> IF i \in DOMAIN req[r].put THEN req[r].put[i] ELSE rows[i]]

(* A request begins; alone records that it has met no other.               *)
Begin(r, q) ==
  LET company == \E d \in Requests : Active(d) IN
  /\ req[r].pc = "idle"
  /\ req' = [d \in Requests |-> IF d = r THEN [q EXCEPT !.alone = ~company]
                                ELSE [req[d] EXCEPT !.alone = FALSE]]
  /\ UNCHANGED rows

(* A request that has ended keeps nothing.                                 *)
End(r, pc) == req' = [req EXCEPT ![r] = [Idle EXCEPT !.pc = pc]]

(* create(): the payload is valid, and the roster is counted.              *)
Create(r, ch, k, role) ==
  /\ role \in CLASS_ROLES[k]
  /\ Cardinality(Stored(rows)) < MaxCharacters
  /\ Begin(r, [Idle EXCEPT !.kind = "create", !.pc = "exists",
                           !.new = [char |-> ch, class |-> k, role |-> role, goals |-> None]])

(* exists_for_owner, whatever the case of the letters.                     *)
Exists(r) ==
  /\ req[r].pc = "exists"
  /\ IF \E i \in Stored(rows) : Fold(rows[i].char) = Fold(req[r].new.char)
     THEN End(r, "failed")
     ELSE req' = [req EXCEPT ![r].pc = "write"]
  /\ UNCHANGED rows

(* Mutant: the fields of the request are judged, not the merged row.       *)
UpdateUnmerged(r, i, k, role, goals) ==
  /\ rows[i] # NoRow /\ goals \in {rows[i].goals, r}
  /\ (k # rows[i].class /\ role # rows[i].role) => role \in CLASS_ROLES[k]
  /\ Begin(r, [Idle EXCEPT !.kind = "update", !.pc = "write", !.id = i, !.seen = rows[i],
                 !.new = [rows[i] EXCEPT !.class = k, !.role = role, !.goals = goals]])

(* update(): the row is read and the merged pair of class and role is      *)
(* judged; a field that is not in the request keeps the value read.        *)
Update(r, i, k, role, goals) ==
  /\ rows[i] # NoRow /\ goals \in {rows[i].goals, r}
  /\ role \in CLASS_ROLES[k]
  /\ Begin(r, [Idle EXCEPT !.kind = "update", !.pc = "write", !.id = i, !.seen = rows[i],
                 !.new = [rows[i] EXCEPT !.class = k, !.role = role, !.goals = goals]])

(* delete(): the row is read.                                              *)
Delete(r, i) ==
  /\ rows[i] # NoRow
  /\ Begin(r, [Idle EXCEPT !.kind = "delete", !.pc = "write", !.id = i, !.seen = rows[i]])

(* import_characters: the roster is counted once.                          *)
Import(r) ==
  Begin(r, [Idle EXCEPT !.kind = "import", !.pc = "next", !.pos = 1,
                        !.counted = Cardinality(Stored(rows))])

-----------------------------------------------------------------------------
(* _upsert_character, up to its write: a character of an unknown class is  *)
(* passed over, a full roster ends the loop, two rows of one character end *)
(* the request (scalar_one_or_none raises).                                *)
Lookup(r) ==
  LET q == req[r]
      e == Profile[q.pos]
      found == {i \in Stored(View(r)) : Fold(View(r)[i].char) = Fold(e.char)}
      fresh == [char |-> e.char, class |-> e.class, role |-> DefaultRole[e.class], goals |-> None] IN
  /\ q.pc = "next" /\ q.pos <= Len(Profile)
  /\ \/ /\ e.class = None
        /\ req' = [req EXCEPT ![r].pos = @ + 1]
     \/ /\ e.class # None /\ q.counted >= MaxCharacters
        /\ req' = [req EXCEPT ![r].pos = Len(Profile) + 1, ![r].stopped = TRUE]
     \/ /\ e.class # None /\ q.counted < MaxCharacters /\ Cardinality(found) > 1
        /\ End(r, "failed")
     \/ /\ e.class # None /\ q.counted < MaxCharacters /\ found = {}
        /\ req' = [req EXCEPT ![r].pc = "write", ![r].id = NoId, ![r].seen = NoRow, ![r].new = fresh]
     \/ /\ e.class # None /\ q.counted < MaxCharacters
        /\ \E i \in found :
             /\ found = {i}
             /\ req' = [req EXCEPT ![r].pc = "write", ![r].id = i, ![r].seen = View(r)[i],
                                   ![r].new = [fresh EXCEPT !.goals = View(r)[i].goals]]
  /\ UNCHANGED rows

(* The statement of a write: the row it goes to, the name it puts there,   *)
(* and the columns that differ from the row as it was read.                *)
Target(r) == IF req[r].id = NoId THEN <<r, req[r].new.char>> ELSE req[r].id
Changes(r) == req[r].new # req[r].seen
Renames(r) == req[r].new.char # NoRow.char /\ req[r].new.char # req[r].seen.char

Sent(new, seen, now) == IF new # seen THEN new ELSE now

(* Mutant: an update sends the whole row as it was read.                   *)
MergedWhole(r) ==
  IF req[r].id = NoId THEN req[r].new
  ELSE IF req[r].kind = "delete" THEN NoRow
  ELSE req[r].new

(* Mutant: an import leaves the name of a known character as it was.       *)
MergedUnnamed(r) ==
  LET q == req[r]
      now == View(r)[q.id] IN
  IF q.id = NoId THEN q.new
  ELSE IF q.kind = "delete" THEN NoRow
  ELSE [char |-> now.char, class |-> Sent(q.new.class, q.seen.class, now.class),
        role |-> Sent(q.new.role, q.seen.role, now.role),
        goals |-> Sent(q.new.goals, q.seen.goals, now.goals)]

Merged(r) ==
  LET q == req[r]
      now == View(r)[q.id] IN
  IF q.id = NoId THEN q.new
  ELSE IF q.kind = "delete" THEN NoRow
  ELSE [char |-> Sent(q.new.char, q.seen.char, now.char),
        class |-> Sent(q.new.class, q.seen.class, now.class),
        role |-> Sent(q.new.role, q.seen.role, now.role),
        goals |-> Sent(q.new.goals, q.seen.goals, now.goals)]

(* The open transactions a write waits for.                                *)
Blockers(r) ==
  {d \in Requests \ {r} : \E j \in DOMAIN req[d].put :
     \/ j = Target(r)
     \/ Renames(r) /\ req[r].new.char \in {rows[j].char, req[d].put[j].char}}

(* The unique constraint refuses it, or its row is no longer there.        *)
Refused(r) ==
  \/ Renames(r) /\ \E j \in Stored(View(r)) \ {Target(r)} : View(r)[j].char = req[r].new.char
  \/ req[r].kind # "delete" /\ req[r].id # NoId /\ View(r)[req[r].id] = NoRow

After(r) == IF req[r].kind = "import" THEN "next" ELSE "written"
Continued(r) ==
  [req[r] EXCEPT !.pc = After(r), !.pos = IF req[r].kind = "import" THEN @ + 1 ELSE @,
                 !.counted = IF req[r].kind = "import" /\ req[r].id = NoId THEN @ + 1 ELSE @,
                 !.id = NoId, !.seen = NoRow, !.new = NoRow]

Write(r) ==
  /\ req[r].pc = "write"
  /\ Changes(r) => Blockers(r) = {}
  /\ IF Refused(r) THEN End(r, "failed")
     ELSE req' = [req EXCEPT ![r] =
            IF Changes(r)
            THEN [Continued(r) EXCEPT !.put = [i \in DOMAIN @ \cup {Target(r)} |->
                                                 IF i = Target(r) THEN Merged(r) ELSE @[i]]]
            ELSE Continued(r)]
  /\ UNCHANGED rows

(* Mutant: an import leaves its transaction open.                          *)
CommitNoImport(r) ==
  /\ req[r].pc = "written"
  /\ rows' = View(r)
  /\ End(r, "done")

(* get_db_session commits when the request has done its work.              *)
Commit(r) ==
  /\ req[r].pc = "written" \/ (req[r].pc = "next" /\ req[r].pos > Len(Profile))
  /\ rows' = View(r)
  /\ End(r, "done")

(* The request is cancelled or its process dies: it is rolled back.        *)
Crash(r) == Active(r) /\ End(r, "failed") /\ UNCHANGED rows

Step(r) == Exists(r) \/ Lookup(r) \/ Write(r) \/ Commit(r)
Next ==
  \E r \in Requests :
    \/ \E ch \in Chars, k \in Classes, role \in Roles : Create(r, ch, k, role)
    \/ \E i \in Ids, k \in Classes, role \in Roles, goals \in Requests \cup {None} :
         Update(r, i, k, role, goals)
    \/ \E i \in Ids : Delete(r, i)
    \/ Import(r) \/ Step(r) \/ Crash(r)

(* A request whose next statement waits for nothing goes on.               *)
Fairness == \A r \in Requests : WF_vars(Step(r))
Spec == Init /\ [][Next]_vars /\ Fairness

-----------------------------------------------------------------------------
Committing(r) == Active(r) /\ req'[r].pc = "done"

(* No commit takes back what a user wrote: goals changes only by the       *)
(* commit of the PATCH that carries it, whatever the other requests read   *)
(* before ("User-authored fields are never overwritten by an import",      *)
(* blizzard_sync.py _upsert_character).                                    *)
EditsSurvive ==
  [][\A i \in Ids : rows[i] # NoRow /\ rows'[i] # NoRow /\ rows'[i].goals # rows[i].goals
       => \E r \in Requests : Committing(r) /\ req[r].kind = "update" /\ rows'[i].goals = r]_vars

(* The roster stays as the service promises - within the limit, a          *)
(* character once, no class in a role it cannot fill - unless two requests *)
(* overlapped: each check is right for a request that meets no other.      *)
Good(table) ==
  /\ Cardinality(Stored(table)) <= MaxCharacters
  /\ NoTwins(table)
  /\ \A i \in Stored(table) : Legal(table[i])
AnomaliesNeedCompany ==
  [][\A r \in Requests : Committing(r) /\ req[r].alone /\ Good(rows) => Good(rows')]_vars

(* An import that meets no other request, and is not stopped by a full     *)
(* roster, leaves every known character of the profile stored as           *)
(* Battle.net has it.                                                      *)
ImportIsComplete ==
  [][\A r \in Requests : Committing(r) /\ req[r].kind = "import" /\ req[r].alone /\ ~req[r].stopped =>
       \A n \in 1 .. Len(Profile) : Profile[n].class # None =>
         \E i \in Ids : rows'[i].char = Profile[n].char /\ rows'[i].class = Profile[n].class]_vars

(* Requests that wait for each other's rows and names all end.             *)
RequestsEnd == \A r \in Requests : Active(r) ~> ~Active(r)
===============================================================================
