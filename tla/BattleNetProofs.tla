---------------------------- MODULE BattleNetProofs ----------------------------
(***************************************************************************)
(* What TLAPS proves of the tokens for Battle.net: of a user's grant       *)
(* (TokenGrant), for any number of requests, tokens and faults, and of the *)
(* calls that share the application token and the cache (BlizzardClient),  *)
(* for any calls, keys, users and bounds.                                  *)
(***************************************************************************)
EXTENDS TokenGrant, BlizzardClient, TLAPS

-------------------------------------------------------------------------------
(* The grant. *)

\* The access token of r has been issued, and beside it r has the refresh token
\* of the same reply or, if that brought none, the one the link has now.
Whole(r) == /\ r.access <= issued
            /\ r.access # 0 => r.refresh = IF reply[r.access] # 0 THEN reply[r.access] ELSE Kept

\* What a request holds.
Holds(w) ==
  /\ got[w] <= issued
  /\ pc[w] \in {"store", "link", "create", "relink"} => got[w] # 0
  /\ pc[w] = "create" => seen[w] = NoRow
  /\ put[w] # Nothing => pc[w] \in {"use", "commit", "failing"}
  /\ put[w] \in Row => /\ Whole(put[w])
                       /\ pc[w] # "failing" => put[w].active
                       /\ row # NoRow \/ (seen[w] = NoRow /\ got[w] # 0)

RowHolds == row # NoRow => row.active /\ Whole(row)

Held == RowHolds /\ \A w \in Workers : Holds(w)

Inv == TypeOK /\ Held

-------------------------------------------------------------------------------
(* What the steps are made of. *)

LEMMA Markers == NoRow \notin Row /\ Nothing \notin Row /\ NoRow # Nothing
  BY MarkerAssumption

\* Initially nobody holds anything.
LEMMA InitInv == Init => Inv
<1>1. ASSUME Init
      PROVE  TypeOK
  BY <1>1, GrantAssumption DEF Init, TypeOK, Grants, Steps
<1>2. ASSUME Init
      PROVE  Held
  BY <1>2, Markers DEF Init, Held, RowHolds, Holds
<1> QED
  BY <1>1, <1>2 DEF Inv

\* The row that store_grant writes is a row, and its tokens follow the reply.
LEMMA StoredRow ==
  ASSUME TypeOK, NEW w \in Workers, got[w] # 0, got[w] <= issued, NEW base \in Row,
         base.refresh = Kept
  PROVE  /\ Stored(w, base) \in Row
         /\ Whole(Stored(w, base))
         /\ Stored(w, base).active = base.active
<1> DEFINE r == reply[got[w]]
           spent == base.lost \ ({"access"} \cup (IF r = 0 THEN {} ELSE {"refresh"}))
           refresh == IF r = 0 THEN base.refresh ELSE r
<1>1. got[w] \in 1 .. MaxGrants
  BY GrantAssumption DEF TypeOK, Grants
<1>2. r \in Grants /\ got[w] \in Grants
  BY <1>1, GrantAssumption DEF TypeOK, Grants
<1>3. refresh \in Grants /\ spent \in SUBSET {"access", "refresh"}
  BY <1>2 DEF Row
<1>4. Stored(w, base) = [access |-> got[w], refresh |-> refresh, active |-> base.active, lost |-> spent]
  <2>1. base = [access |-> base.access, refresh |-> base.refresh, active |-> base.active, lost |-> base.lost]
    BY DEF Row
  <2>2. Stored(w, base) = [base EXCEPT !.access = got[w], !.refresh = refresh, !.lost = spent]
    BY DEF Stored
  <2> HIDE DEF refresh, spent
  <2> QED
    BY <2>1, <2>2
<1> HIDE DEF spent
<1>5. Stored(w, base) \in Row
  BY <1>2, <1>3, <1>4 DEF Row
<1>6. Whole(Stored(w, base))
  BY <1>4 DEF Whole
<1> QED
  BY <1>4, <1>5, <1>6

\* What a row's tokens follow is left alone by whatever Battle.net issues.
LEMMA StaysWhole ==
  ASSUME TypeOK, TypeOK', NEW r \in Row, Whole(r), UNCHANGED row,
         \/ UNCHANGED <<issued, reply>>
         \/ /\ issued < MaxGrants
            /\ issued' = issued + 1
            /\ \E t \in Grants : reply' = [reply EXCEPT ![issued + 1] = t]
  PROVE  Whole(r)'
<1>1. CASE UNCHANGED <<issued, reply>>
  BY <1>1 DEF Whole, Kept
<1>2. CASE /\ issued < MaxGrants
           /\ issued' = issued + 1
           /\ \E t \in Grants : reply' = [reply EXCEPT ![issued + 1] = t]
  <2>1. r.access \in Grants /\ issued \in Nat /\ r.access # issued + 1
    BY GrantAssumption DEF TypeOK, Row, Grants, Whole
  <2>2. r.access # 0 => reply'[r.access] = reply[r.access]
    BY <1>2, <2>1 DEF TypeOK, Grants
  <2>3. r.access <= issued'
    BY <1>2, <2>1, GrantAssumption DEF Whole, TypeOK, Grants
  <2> QED
    BY <2>2, <2>3 DEF Whole, Kept
<1> QED
  BY <1>1, <1>2

-------------------------------------------------------------------------------
(* Type correctness. *)

LEMMA MoveType ==
  ASSUME TypeOK, NEW w \in Workers, NEW from, NEW to \in Steps, Move(w, from, to),
         UNCHANGED faults \/ Fault
  PROVE  TypeOK'
<1>1. faults' \in 0 .. MaxFaults
  BY GrantAssumption DEF TypeOK, Fault
<1> QED
  BY <1>1 DEF TypeOK, Move, GoTo, upstream, database

LEMMA LoadType ==
  ASSUME TypeOK, NEW w \in Workers, NEW step \in Steps, Load(w, step)
  PROVE  TypeOK'
<1>1. pc' \in [Workers -> Steps]
  BY DEF TypeOK, Load, GoTo, Steps
<1> QED
  BY <1>1 DEF TypeOK, Load, upstream, database

\* A flush either fails or stores value under the row's lock.
LEMMA FlushType ==
  ASSUME TypeOK, NEW w \in Workers, NEW from, NEW value, NEW to \in Steps, Flush(w, from, value, to),
         row # NoRow => value \in Row \cup {NoRow}
  PROVE  TypeOK'
<1>1. CASE row = NoRow
  <2>1. pc' \in [Workers -> Steps]
    BY <1>1 DEF TypeOK, Flush, GoTo, Steps
  <2> QED
    BY <1>1, <2>1 DEF TypeOK, Flush, upstream
<1>2. CASE row # NoRow
  <2>1. /\ pc' \in [Workers -> Steps]
        /\ owner = NoOne /\ owner' = w /\ put' = [put EXCEPT ![w] = value]
    BY <1>2 DEF TypeOK, Flush, Writes, GoTo
  <2>2. value # Nothing
    BY <1>2, Markers
  <2>3. \A v \in Workers : put'[v] # Nothing <=> owner' = v
    BY <2>1, <2>2, GrantAssumption DEF TypeOK
  <2>4. put' \in [Workers -> Row \cup {NoRow, Nothing}]
    BY <1>2, <2>1 DEF TypeOK
  <2> QED
    BY <2>1, <2>3, <2>4 DEF TypeOK, Flush, upstream
<1> QED
  BY <1>1, <1>2

\* Battle.net issues a token with the refresh token r.
LEMMA IssueType ==
  ASSUME TypeOK, NEW r \in Grants, NEW keep \in SUBSET honoured, Issue(r, keep)
  PROVE  /\ honoured' \in SUBSET (1 .. MaxGrants)
         /\ issued' \in Grants
         /\ reply' \in [1 .. MaxGrants -> Grants]
         /\ live' \in SUBSET (1 .. MaxGrants)
<1>1. issued \in Nat /\ issued < MaxGrants /\ issued + 1 \in 1 .. MaxGrants
  BY GrantAssumption DEF TypeOK, Issue, Grants
<1>2. r # 0 => r \in 1 .. MaxGrants
  BY <1>1, GrantAssumption DEF Grants
<1> QED
  BY <1>1, <1>2, GrantAssumption DEF TypeOK, Issue, Grants

\* The refresh grant issues a token.
LEMMA RefreshIssues ==
  ASSUME TypeOK, NEW w \in Workers, IssueRefreshed(w)
  PROVE  \E r \in Grants, keep \in SUBSET honoured : Issue(r, keep)
<1>1. issued < MaxGrants => issued + 1 \in Grants
  BY GrantAssumption DEF TypeOK, Grants
<1>2. CASE \E keep \in {honoured, honoured \ {seen[w].refresh}} : Issue(issued + 1, keep)
  BY <1>1, <1>2 DEF Issue
<1>3. CASE Issue(seen[w].refresh, honoured)
  <2>1. seen[w].refresh \in Grants
    <3>1. seen[w].refresh \in honoured
      BY DEF IssueRefreshed
    <3>2. honoured \in SUBSET (1 .. MaxGrants)
      BY DEF TypeOK
    <3>3. seen[w].refresh \in 1 .. MaxGrants
      BY <3>1, <3>2
    <3> QED
      BY ONLY <3>3, GrantAssumption DEF Grants
  <2> QED
    BY <1>3, <2>1
<1> QED
  BY <1>2, <1>3 DEF IssueRefreshed

LEMMA CloseType ==
  ASSUME TypeOK, NEW w \in Workers, Close(w), row' \in Row \cup {NoRow}, faults' \in 0 .. MaxFaults
  PROVE  TypeOK'
<1>1. owner' \in Workers \cup {NoOne} /\ pc' \in [Workers -> Steps]
  BY DEF TypeOK, Close, GoTo, Steps
<1>2. put' = [put EXCEPT ![w] = Nothing] /\ owner' = IF owner = w THEN NoOne ELSE owner
  BY DEF Close
<1>3. \A v \in Workers : put'[v] # Nothing <=> owner' = v
  BY <1>2, GrantAssumption DEF TypeOK
<1>4. /\ seen' \in [Workers -> Row \cup {NoRow}]
      /\ got' \in [Workers -> Grants]
      /\ put' \in [Workers -> Row \cup {NoRow, Nothing}]
  BY GrantAssumption DEF TypeOK, Close, Grants
<1> QED
  BY <1>1, <1>3, <1>4 DEF TypeOK, Close, upstream

\* Every step of a request keeps the state well formed.
LEMMA GetTokenType ==
  ASSUME Inv, NEW w \in Workers, GetToken(w)
  PROVE  TypeOK'
<1> USE DEF Inv
<1>1. CASE GetAccessToken(w)
  <2>1. pc' \in [Workers -> Steps]
    BY <1>1 DEF TypeOK, GetAccessToken, GoTo, Steps
  <2> QED
    BY <1>1, <2>1 DEF TypeOK, GetAccessToken, upstream, database
<1>2. CASE Refresh(w)
  <2>1. PICK r \in Grants, keep \in SUBSET honoured : Issue(r, keep)
    BY <1>2, RefreshIssues DEF Refresh
  <2>2. got' \in [Workers -> Grants]
    BY <1>2, <2>1, IssueType DEF TypeOK, Refresh, Issue
  <2>3. pc' \in [Workers -> Steps]
    BY <1>2 DEF TypeOK, Refresh, GoTo, Steps
  <2> QED
    BY <1>2, <2>1, <2>2, <2>3, IssueType DEF TypeOK, Refresh, IssueRefreshed, database
<1>3. CASE RefreshRefused(w)
  BY <1>3, MoveType DEF RefreshRefused, Steps
<1>4. CASE RefreshEnds(w)
  BY <1>4, MoveType DEF RefreshEnds, Steps
<1>5. CASE StoreGrant(w)
  <2>1. got[w] # 0 /\ got[w] <= issued
    BY <1>5 DEF Held, Holds, StoreGrant, Flush
  <2>2. row # NoRow => Stored(w, row) \in Row
    BY <2>1, StoredRow DEF TypeOK, Kept
  <2> QED
    BY <1>5, <2>2, FlushType DEF StoreGrant, Steps
<1>6. CASE Deactivate(w)
  <2>1. row # NoRow => [row EXCEPT !.active = FALSE, !.access = 0] \in Row
    <3>1. row # NoRow => row \in Row
      BY DEF TypeOK
    <3>2. 0 \in Grants
      BY GrantAssumption DEF Grants
    <3> QED
      BY <3>1, <3>2 DEF Row
  <2> QED
    BY <1>6, <2>1, FlushType DEF Deactivate, Steps
<1> QED
  BY <1>1, <1>2, <1>3, <1>4, <1>5, <1>6 DEF GetToken

LEMMA LinkingType ==
  ASSUME Inv, NEW w \in Workers, Linking(w)
  PROVE  TypeOK'
<1> USE DEF Inv
<1>1. CASE FindLink(w)
  <2>1. pc' \in [Workers -> Steps]
    BY <1>1 DEF TypeOK, FindLink, GoTo, Steps
  <2> QED
    BY <1>1, <2>1 DEF TypeOK, FindLink, upstream, database
<1>2. CASE CreateLink(w)
  <2>1. CASE row # NoRow
    <3>1. pc' \in [Workers -> Steps]
      BY <1>2, <2>1 DEF TypeOK, CreateLink, GoTo, Steps
    <3> QED
      BY <1>2, <2>1, <3>1 DEF TypeOK, CreateLink, upstream
  <2>2. CASE row = NoRow
    <3>1. got[w] # 0 /\ got[w] <= issued /\ Created \in Row
      BY <1>2, GrantAssumption DEF Held, Holds, CreateLink, Created, Row, Grants
    <3>2. Created.refresh = Kept
      BY <2>2 DEF Created, Kept
    <3>3. Stored(w, Created) \in Row
      BY <3>1, <3>2, StoredRow
    <3>4. /\ pc' \in [Workers -> Steps]
          /\ owner = NoOne /\ owner' = w /\ put' = [put EXCEPT ![w] = Stored(w, Created)]
      BY <1>2, <2>2 DEF TypeOK, CreateLink, Writes, GoTo, Steps
    <3>5. \A v \in Workers : put'[v] # Nothing <=> owner' = v
      BY <3>3, <3>4, Markers, GrantAssumption DEF TypeOK
    <3>6. put' \in [Workers -> Row \cup {NoRow, Nothing}]
      BY <3>3, <3>4 DEF TypeOK
    <3> QED
      BY <1>2, <3>4, <3>5, <3>6 DEF TypeOK, CreateLink, upstream
  <2> QED
    BY <2>1, <2>2
<1>3. CASE UpdateLink(w)
  <2>1. got[w] # 0 /\ got[w] <= issued
    BY <1>3 DEF Held, Holds, UpdateLink, Flush
  <2>2. row # NoRow => /\ [row EXCEPT !.active = TRUE] \in Row
                       /\ [row EXCEPT !.active = TRUE].refresh = Kept
    BY DEF TypeOK, Row, Kept
  <2>3. row # NoRow => Stored(w, [row EXCEPT !.active = TRUE]) \in Row
    BY <2>1, <2>2, StoredRow
  <2> QED
    BY <1>3, <2>3, FlushType DEF UpdateLink, Steps
<1> QED
  BY <1>1, <1>2, <1>3 DEF Linking

LEMMA NextType ==
  ASSUME Inv, [Next]_vars
  PROVE  TypeOK'
<1> USE DEF Inv
<1>1. CASE UNCHANGED vars
  BY <1>1 DEF TypeOK, vars, upstream, database
<1>2. ASSUME NEW w \in Workers, Begin(w)
      PROVE  TypeOK'
  <2>1. CASE BeginUse(w) \/ BeginDisconnect(w)
    BY <2>1, LoadType DEF BeginUse, BeginDisconnect, Steps
  <2>2. CASE ExchangeCode(w)
    <3>1. PICK r \in {0, issued + 1} : Issue(r, honoured)
      BY <2>2 DEF ExchangeCode
    <3>2. r \in Grants
      BY <3>1, GrantAssumption DEF TypeOK, Issue, Grants
    <3>3. got' \in [Workers -> Grants]
      BY <2>2, <3>1, <3>2, IssueType DEF TypeOK, ExchangeCode, Issue
    <3>4. pc' \in [Workers -> Steps]
      BY <2>2 DEF TypeOK, ExchangeCode, GoTo, Steps
    <3> QED
      BY <2>2, <3>1, <3>2, <3>3, <3>4, IssueType DEF TypeOK, ExchangeCode, database
  <2> QED
    BY <1>2, <2>1, <2>2 DEF Begin
<1>3. ASSUME NEW w \in Workers, Advance(w)
      PROVE  TypeOK'
  <2>1. CASE Use(w) \/ UseRefused(w)
    BY <2>1, MoveType DEF Use, UseRefused, Steps
  <2>2. CASE Disconnect(w)
    BY <2>2, FlushType DEF Disconnect, Steps
  <2>3. CASE Commit(w)
    <3>1. put[w] # Nothing => put[w] \in Row \cup {NoRow}
      BY DEF TypeOK
    <3>2. row' \in Row \cup {NoRow} /\ faults' = faults
      BY <2>3, <3>1 DEF TypeOK, Commit, Publish
    <3> QED
      BY <2>3, <3>2, CloseType DEF Commit, TypeOK
  <2>4. CASE Rollback(w)
    BY <2>4, CloseType DEF Rollback, TypeOK
  <2> QED
    BY <1>3, <2>1, <2>2, <2>3, <2>4, GetTokenType, LinkingType DEF Advance
<1>4. ASSUME NEW w \in Workers, Trouble(w)
      PROVE  TypeOK'
  <2>1. CASE RefreshLost(w)
    <3>1. PICK r \in Grants, keep \in SUBSET honoured : Issue(r, keep)
      BY <2>1, RefreshIssues DEF RefreshLost
    <3>2. pc' \in [Workers -> Steps] /\ faults' \in 0 .. MaxFaults
      BY <2>1, GrantAssumption DEF TypeOK, RefreshLost, Fault, GoTo, Steps
    <3> QED
      BY <2>1, <3>1, <3>2, IssueType DEF TypeOK, RefreshLost, IssueRefreshed, database
  <2>2. CASE RefreshUnavailable(w) \/ UseFails(w) \/ LinkFails(w)
    BY <2>2, MoveType DEF RefreshUnavailable, UseFails, LinkFails, Steps
  <2>3. CASE Crash(w)
    <3>1. faults' \in 0 .. MaxFaults
      BY <2>3, GrantAssumption DEF TypeOK, Crash, Fault
    <3> QED
      BY <2>3, <3>1, CloseType DEF Crash, TypeOK
  <2> QED
    BY <1>4, <2>1, <2>2, <2>3 DEF Trouble
<1>5. CASE Revoke
  BY <1>5 DEF TypeOK, Revoke, database
<1>6. ASSUME NEW n \in live, Expire(n)
      PROVE  TypeOK'
  BY <1>6 DEF TypeOK, Expire, upstream, database
<1>7. CASE ChangeKey
  <2>1. row' \in Row \cup {NoRow}
    BY <1>7 DEF TypeOK, ChangeKey, Row
  <2>2. faults' \in 0 .. MaxFaults
    BY <1>7, GrantAssumption DEF TypeOK, ChangeKey, Fault
  <2> QED
    BY <1>7, <2>1, <2>2 DEF TypeOK, ChangeKey, upstream
<1> QED
  BY <1>1, <1>2, <1>3, <1>4, <1>5, <1>6, <1>7 DEF Next

-------------------------------------------------------------------------------
(* What the requests hold. *)

\* A request that did not move keeps what it holds, as long as the row is not
\* deleted, nor its refresh token changed, under its writes.
LEMMA StillHolds ==
  ASSUME TypeOK, Held, NEW v \in Workers,
         pc'[v] = pc[v], seen'[v] = seen[v], got'[v] = got[v], put'[v] = put[v],
         UNCHANGED <<issued, reply>>,
         put[v] \in Row => Kept' = Kept /\ (row # NoRow => row' # NoRow)
  PROVE  Holds(v)'
<1>1. Holds(v)
  BY DEF Held
<1>2. \A r \in Row : Kept' = Kept /\ Whole(r) => Whole(r)'
  BY DEF Whole
<1> QED
  BY <1>1, <1>2 DEF Holds

\* A row that did not change stays active and whole.
LEMMA RowStillHolds ==
  ASSUME TypeOK, RowHolds, UNCHANGED <<issued, reply, row>>
  PROVE  RowHolds'
  BY DEF RowHolds, Whole, Kept

\* Battle.net issues a token and w receives it, or not.
LEMMA IssueHolds ==
  ASSUME Inv, TypeOK', NEW w \in Workers, NEW r \in Grants, NEW keep, Issue(r, keep),
         UNCHANGED <<database, seen, put>>, put[w] = Nothing,
         \A v \in Workers \ {w} : pc'[v] = pc[v] /\ got'[v] = got[v],
         \/ got'[w] = issued + 1 /\ pc'[w] # "create"
         \/ got'[w] = got[w] /\ pc'[w] = "deactivate"
  PROVE  Held'
<1> USE DEF Inv
<1>1. issued \in Nat /\ issued' = issued + 1 /\ issued < MaxGrants
  BY GrantAssumption DEF TypeOK, Issue, Grants
<1>2. ASSUME NEW q \in Row, Whole(q)
      PROVE  Whole(q)'
  BY <1>1, <1>2, StaysWhole DEF Issue, database
<1>3. RowHolds'
  <2>1. row # NoRow => row \in Row
    BY DEF TypeOK
  <2> QED
    BY <1>2, <2>1 DEF Held, RowHolds, database
<1>4. ASSUME NEW v \in Workers
      PROVE  Holds(v)'
  <2>1. Holds(v) /\ got[v] \in Nat
    BY GrantAssumption DEF Held, TypeOK, Grants
  <2>2. got'[v] <= issued'
    BY <1>1, <2>1 DEF Holds
  <2>3. CASE v = w
    BY <1>1, <2>1, <2>2, <2>3, Markers DEF Holds
  <2>4. CASE v # w
    BY <1>2, <2>1, <2>2, <2>4 DEF Holds, database
  <2> QED
    BY <2>3, <2>4
<1> QED
  BY <1>3, <1>4 DEF Held

\* w goes from one step to another without writing; it may load the row.
LEMMA StepHolds ==
  ASSUME Inv, TypeOK', NEW w \in Workers, NEW to \in Steps, GoTo(w, to),
         UNCHANGED <<upstream, database, got, put>>,
         \A v \in Workers \ {w} : seen'[v] = seen[v],
         seen'[w] = seen[w] \/ put[w] = Nothing,
         put[w] # Nothing => to \in {"commit", "failing"} /\ pc[w] # "failing",
         to \in {"store", "link", "create", "relink"} => got[w] # 0,
         to = "create" => seen'[w] = NoRow
  PROVE  Held'
<1> USE DEF Inv
<1>1. pc'[w] = to /\ \A v \in Workers \ {w} : pc'[v] = pc[v]
  BY DEF TypeOK, GoTo
<1>2. RowHolds'
  BY RowStillHolds DEF Held, upstream, database
<1>3. ASSUME NEW v \in Workers \ {w}
      PROVE  Holds(v)'
  BY <1>1, <1>3, StillHolds DEF upstream, database, Kept
<1>4. Holds(w)'
  <2>1. Holds(w)
    BY DEF Held
  <2>2. \A r \in Row : Whole(r) => Whole(r)'
    BY DEF Whole, Kept, upstream, database
  <2>3. CASE put[w] = Nothing
    BY <1>1, <2>1, <2>3, Markers DEF Holds, upstream
  <2>4. CASE put[w] # Nothing
    BY <1>1, <2>1, <2>2, <2>4 DEF Holds, upstream, database
  <2> QED
    BY <2>3, <2>4
<1> QED
  BY <1>2, <1>3, <1>4 DEF Held

\* A flush fails or leaves w with value as its uncommitted row.
LEMMA WriteHolds ==
  ASSUME Inv, TypeOK', NEW w \in Workers, NEW to \in {"use", "commit", "failing"}, NEW value,
         GoTo(w, to), put' = [put EXCEPT ![w] = value],
         UNCHANGED <<upstream, row, seen, got>>,
         value \in Row => /\ Whole(value)
                          /\ to # "failing" => value.active
                          /\ row # NoRow \/ (seen[w] = NoRow /\ got[w] # 0)
  PROVE  Held'
<1> USE DEF Inv
<1>1. pc'[w] = to /\ put'[w] = value /\ \A v \in Workers \ {w} : pc'[v] = pc[v] /\ put'[v] = put[v]
  BY DEF TypeOK, GoTo
<1>2. RowHolds'
  BY RowStillHolds DEF Held, upstream
<1>3. ASSUME NEW v \in Workers \ {w}
      PROVE  Holds(v)'
  BY <1>1, <1>3, StillHolds DEF upstream, Kept
<1>4. Holds(w)'
  <2>1. Holds(w)
    BY DEF Held
  <2>2. value \in Row => Whole(value)'
    BY DEF Whole, Kept, upstream
  <2> QED
    BY <1>1, <2>1, <2>2 DEF Holds, upstream
<1> QED
  BY <1>2, <1>3, <1>4 DEF Held

\* A flush of a row that is gone fails; otherwise value is written.
LEMMA FlushHolds ==
  ASSUME Inv, TypeOK', NEW w \in Workers, NEW from, NEW value, NEW to \in {"use", "commit", "failing"},
         Flush(w, from, value, to),
         row # NoRow /\ value \in Row => Whole(value) /\ (to # "failing" => value.active)
  PROVE  Held'
<1> USE DEF Inv
<1>1. CASE row = NoRow
  <2>1. "failing" \in Steps /\ GoTo(w, "failing")
    BY <1>1 DEF Flush, Steps
  <2>2. put[w] = Nothing
    BY GrantAssumption DEF TypeOK, Flush
  <2> QED
    BY <1>1, <2>1, <2>2, StepHolds DEF Flush, database
<1>2. CASE row # NoRow
  <2>1. GoTo(w, to) /\ put' = [put EXCEPT ![w] = value]
    BY <1>2 DEF Flush, Writes
  <2>2. UNCHANGED <<upstream, row, seen, got>>
    BY DEF Flush
  <2> QED
    BY <1>2, <2>1, <2>2, WriteHolds
<1> QED
  BY <1>1, <1>2

\* Only the transaction that holds the row's lock has writes.
LEMMA OneWriter ==
  ASSUME TypeOK, NEW v \in Workers, NEW w \in Workers, put[v] # Nothing, put[w] # Nothing
  PROVE  v = w
  BY DEF TypeOK

\* The end of a transaction: the row stays, or becomes what w committed.
LEMMA CloseHolds ==
  ASSUME Inv, TypeOK', NEW w \in Workers, Close(w),
         \/ UNCHANGED row
         \/ Publish(w) /\ pc[w] = "commit"
  PROVE  Held'
<1> USE DEF Inv
<1>1. /\ pc'[w] = "idle" /\ got'[w] = 0 /\ put'[w] = Nothing
      /\ \A v \in Workers \ {w} : /\ pc'[v] = pc[v] /\ seen'[v] = seen[v]
                                  /\ got'[v] = got[v] /\ put'[v] = put[v]
      /\ UNCHANGED <<issued, reply>>
  BY DEF TypeOK, Close, GoTo, upstream
<1>2. Holds(w)'
  <2>1. got'[w] <= issued'
    BY <1>1, GrantAssumption DEF TypeOK, Grants
  <2> QED
    BY <1>1, <2>1, Markers DEF Holds
<1>3. ASSUME NEW v \in Workers \ {w}
      PROVE  Holds(v)'
  <2>1. put[v] \in Row => row' = row
    <3>1. SUFFICES ASSUME put[v] \in Row
                   PROVE  row' = row
      OBVIOUS
    <3>2. put[w] = Nothing
      BY <3>1, OneWriter, Markers
    <3> QED
      BY <3>2 DEF Publish
  <2> QED
    BY <1>1, <1>3, <2>1, StillHolds DEF Kept
<1>4. RowHolds'
  <2>1. \A r \in Row : row' = r /\ r # NoRow /\ Whole(r) => Whole(r)'
    BY <1>1 DEF Whole, Kept
  <2>2. CASE row' = row
    BY <1>1, <2>2, RowStillHolds DEF Held
  <2>3. CASE row' # row
    <3>1. row' = put[w] /\ put[w] # Nothing /\ pc[w] = "commit"
      BY <2>3 DEF Publish
    <3>2. row' # NoRow => put[w] \in Row
      BY <3>1 DEF TypeOK
    <3>3. Holds(w)
      BY DEF Held
    <3> QED
      BY <2>1, <3>1, <3>2, <3>3 DEF RowHolds, Holds
  <2> QED
    BY <2>2, <2>3
<1> QED
  BY <1>2, <1>3, <1>4 DEF Held

\* A request that has no step to write in has written nothing.
LEMMA NothingYet ==
  ASSUME Held, NEW w \in Workers, pc[w] \notin {"use", "commit", "failing"}
  PROVE  put[w] = Nothing
  BY DEF Held, Holds

\* Moves between steps that hold the same.
LEMMA MoveHolds ==
  ASSUME Inv, TypeOK', NEW w \in Workers, NEW from, NEW to \in Steps, Move(w, from, to),
         from \in {"token", "request", "link", "use"},
         to \in {"commit", "failing"} \/ (from # "use" /\ to \in {"request", "use", "deactivate"})
  PROVE  Held'
<1>1. pc[w] = from /\ GoTo(w, to) /\ UNCHANGED <<upstream, database, seen, got, put>>
  BY DEF Move
<1>2. put[w] # Nothing => from = "use"
  BY <1>1, NothingYet DEF Inv
<1> QED
  BY <1>1, <1>2, StepHolds

LEMMA GetTokenHolds ==
  ASSUME Inv, TypeOK', NEW w \in Workers, GetToken(w)
  PROVE  Held'
<1> USE DEF Inv
<1>1. CASE GetAccessToken(w)
  <2>1. PICK to \in {"failing", "use", "request", "deactivate"} : GoTo(w, to)
    BY <1>1 DEF GetAccessToken
  <2>2. Move(w, "token", to)
    BY <1>1, <2>1 DEF GetAccessToken, Move
  <2> QED
    BY <2>1, <2>2, MoveHolds DEF Steps
<1>2. CASE Refresh(w)
  <2>1. PICK r \in Grants, keep \in SUBSET honoured : Issue(r, keep)
    BY <1>2, RefreshIssues DEF Refresh
  <2>2. put[w] = Nothing
    BY <1>2, NothingYet DEF Refresh, IssueRefreshed
  <2>3. got' = [got EXCEPT ![w] = issued + 1] /\ pc' = [pc EXCEPT ![w] = "store"]
    BY <1>2 DEF Refresh, GoTo
  <2>4. got'[w] = issued + 1 /\ pc'[w] = "store" /\ \A v \in Workers \ {w} : pc'[v] = pc[v] /\ got'[v] = got[v]
    BY <2>3 DEF TypeOK
  <2>5. UNCHANGED <<database, seen, put>>
    BY <1>2 DEF Refresh, IssueRefreshed
  <2> QED
    BY <2>1, <2>2, <2>4, <2>5, IssueHolds
<1>3. CASE RefreshRefused(w)
  BY <1>3, MoveHolds DEF RefreshRefused, Steps
<1>4. CASE RefreshEnds(w)
  BY <1>4, MoveHolds DEF RefreshEnds, Steps
<1>5. CASE StoreGrant(w)
  <2>1. got[w] # 0 /\ got[w] <= issued
    BY <1>5 DEF Held, Holds, StoreGrant, Flush
  <2>2. row # NoRow => row \in Row /\ row.active /\ row.refresh = Kept
    BY DEF TypeOK, Held, RowHolds, Kept
  <2>3. row # NoRow => Whole(Stored(w, row)) /\ Stored(w, row).active
    BY <2>1, <2>2, StoredRow
  <2> QED
    BY <1>5, <2>3, FlushHolds DEF StoreGrant
<1>6. CASE Deactivate(w)
  <2>1. row # NoRow => Whole([row EXCEPT !.active = FALSE, !.access = 0])
    BY GrantAssumption DEF TypeOK, Row, Whole, Grants
  <2> QED
    BY <1>6, <2>1, FlushHolds DEF Deactivate
<1> QED
  BY <1>1, <1>2, <1>3, <1>4, <1>5, <1>6 DEF GetToken

LEMMA LinkingHolds ==
  ASSUME Inv, TypeOK', NEW w \in Workers, Linking(w)
  PROVE  Held'
<1> USE DEF Inv
<1>1. CASE FindLink(w)
  <2>1. put[w] = Nothing /\ got[w] # 0
    BY <1>1, NothingYet DEF FindLink, Held, Holds
  <2>2. PICK to \in {"create", "relink"} : GoTo(w, to) /\ (to = "create" => row = NoRow)
    BY <1>1 DEF FindLink
  <2>3. seen'[w] = row /\ \A v \in Workers \ {w} : seen'[v] = seen[v]
    BY <1>1 DEF TypeOK, FindLink
  <2>4. UNCHANGED <<upstream, database, got, put>>
    BY <1>1 DEF FindLink
  <2> QED
    BY <2>1, <2>2, <2>3, <2>4, StepHolds DEF Steps
<1>2. CASE CreateLink(w)
  <2>1. put[w] = Nothing /\ got[w] # 0 /\ got[w] <= issued /\ seen[w] = NoRow
    BY <1>2, NothingYet DEF CreateLink, Held, Holds
  <2>2. CASE row # NoRow
    <3>1. GoTo(w, "failing") /\ UNCHANGED <<upstream, database, seen, got, put>>
      BY <1>2, <2>2 DEF CreateLink, database
    <3> QED
      BY <2>1, <3>1, StepHolds DEF Steps
  <2>3. CASE row = NoRow
    <3>1. GoTo(w, "commit") /\ put' = [put EXCEPT ![w] = Stored(w, Created)]
      BY <1>2, <2>3 DEF CreateLink, Writes
    <3>2. Created \in Row /\ Created.active /\ Created.refresh = Kept
      BY <2>3, GrantAssumption DEF Created, Row, Grants, Kept
    <3>3. Whole(Stored(w, Created)) /\ Stored(w, Created).active
      BY <2>1, <3>2, StoredRow
    <3>4. UNCHANGED <<upstream, row, seen, got>>
      BY <1>2 DEF CreateLink
    <3> QED
      BY <2>1, <3>1, <3>3, <3>4, WriteHolds
  <2> QED
    BY <2>2, <2>3
<1>3. CASE UpdateLink(w)
  <2>1. got[w] # 0 /\ got[w] <= issued
    BY <1>3 DEF Held, Holds, UpdateLink, Flush
  <2>2. row # NoRow => /\ [row EXCEPT !.active = TRUE] \in Row
                       /\ [row EXCEPT !.active = TRUE].active
                       /\ [row EXCEPT !.active = TRUE].refresh = Kept
    BY DEF TypeOK, Row, Kept
  <2> DEFINE value == Stored(w, [row EXCEPT !.active = TRUE])
  <2>3. row # NoRow => Whole(value) /\ value.active
    BY <2>1, <2>2, StoredRow
  <2>4. Flush(w, "relink", value, "commit")
    BY <1>3 DEF UpdateLink
  <2> HIDE DEF value
  <2> QED
    BY <2>3, <2>4, FlushHolds
<1> QED
  BY <1>1, <1>2, <1>3 DEF Linking

LEMMA LoadHolds ==
  ASSUME Inv, TypeOK', NEW w \in Workers, NEW step \in {"token", "delete"}, Load(w, step)
  PROVE  Held'
<1> USE DEF Inv
<1>1. put[w] = Nothing
  BY NothingYet DEF Load
<1>2. PICK to \in {"failing", "token", "delete"} : GoTo(w, to)
  BY DEF Load
<1>3. \A v \in Workers \ {w} : seen'[v] = seen[v]
  BY DEF TypeOK, Load
<1>4. UNCHANGED <<upstream, database, got, put>>
  BY DEF Load
<1> QED
  BY <1>1, <1>2, <1>3, <1>4, StepHolds DEF Steps

\* A step that concerns neither the requests nor the tokens of the row.
LEMMA AroundHolds ==
  ASSUME Inv, TypeOK', UNCHANGED <<issued, reply, pc, seen, got, put>>,
         \/ UNCHANGED row
         \/ /\ row # NoRow /\ row' # NoRow
            /\ row'.active = row.active /\ row'.access = row.access /\ row'.refresh = row.refresh
  PROVE  Held'
<1> USE DEF Inv
<1>1. RowHolds'
  BY DEF Held, RowHolds, Whole, Kept
<1>2. ASSUME NEW v \in Workers
      PROVE  Holds(v)'
  BY <1>2, StillHolds DEF Kept
<1> QED
  BY <1>1, <1>2 DEF Held

LEMMA NextHolds ==
  ASSUME Inv, TypeOK', [Next]_vars
  PROVE  Held'
<1> USE DEF Inv
<1>1. CASE UNCHANGED vars
  BY <1>1, AroundHolds DEF vars, upstream, database
<1>2. ASSUME NEW w \in Workers, Begin(w)
      PROVE  Held'
  <2>1. CASE BeginUse(w) \/ BeginDisconnect(w)
    BY <2>1, LoadHolds DEF BeginUse, BeginDisconnect
  <2>2. CASE ExchangeCode(w)
    <3>1. PICK r \in {0, issued + 1} : Issue(r, honoured)
      BY <2>2 DEF ExchangeCode
    <3>2. r \in Grants
      BY <3>1, GrantAssumption DEF TypeOK, Issue, Grants
    <3>3. put[w] = Nothing
      BY <2>2, NothingYet DEF ExchangeCode
    <3>4. got' = [got EXCEPT ![w] = issued + 1] /\ pc' = [pc EXCEPT ![w] = "link"]
      BY <2>2 DEF ExchangeCode, GoTo
    <3>5. got'[w] = issued + 1 /\ pc'[w] = "link" /\ \A v \in Workers \ {w} : pc'[v] = pc[v] /\ got'[v] = got[v]
      BY <3>4 DEF TypeOK
    <3>6. UNCHANGED <<database, seen, put>>
      BY <2>2 DEF ExchangeCode
    <3> QED
      BY <3>1, <3>2, <3>3, <3>5, <3>6, IssueHolds
  <2> QED
    BY <1>2, <2>1, <2>2 DEF Begin
<1>3. ASSUME NEW w \in Workers, Advance(w)
      PROVE  Held'
  <2>1. CASE Use(w) \/ UseRefused(w)
    BY <2>1, MoveHolds DEF Use, UseRefused, Steps
  <2>2. CASE Disconnect(w)
    BY <2>2, FlushHolds, Markers DEF Disconnect
  <2>3. CASE Commit(w)
    BY <2>3, CloseHolds DEF Commit
  <2>4. CASE Rollback(w)
    BY <2>4, CloseHolds DEF Rollback
  <2> QED
    BY <1>3, <2>1, <2>2, <2>3, <2>4, GetTokenHolds, LinkingHolds DEF Advance
<1>4. ASSUME NEW w \in Workers, Trouble(w)
      PROVE  Held'
  <2>1. CASE RefreshLost(w)
    <3>1. PICK r \in Grants, keep \in SUBSET honoured : Issue(r, keep)
      BY <2>1, RefreshIssues DEF RefreshLost
    <3>2. put[w] = Nothing
      BY <2>1, NothingYet DEF RefreshLost, IssueRefreshed
    <3>3. got' = got /\ pc' = [pc EXCEPT ![w] = "deactivate"]
      BY <2>1 DEF RefreshLost, GoTo
    <3>4. got'[w] = got[w] /\ pc'[w] = "deactivate" /\ \A v \in Workers \ {w} : pc'[v] = pc[v] /\ got'[v] = got[v]
      BY <3>3 DEF TypeOK
    <3>5. UNCHANGED <<database, seen, put>>
      BY <2>1 DEF RefreshLost, IssueRefreshed
    <3> QED
      BY <3>1, <3>2, <3>4, <3>5, IssueHolds
  <2>2. CASE RefreshUnavailable(w) \/ UseFails(w) \/ LinkFails(w)
    BY <2>2, MoveHolds DEF RefreshUnavailable, UseFails, LinkFails, Steps
  <2>3. CASE Crash(w)
    BY <2>3, CloseHolds DEF Crash
  <2> QED
    BY <1>4, <2>1, <2>2, <2>3 DEF Trouble
<1>5. CASE Revoke
  BY <1>5, AroundHolds DEF Revoke, database
<1>6. ASSUME NEW n \in live, Expire(n)
      PROVE  Held'
  BY <1>6, AroundHolds DEF Expire, upstream, database
<1>7. CASE ChangeKey
  <2>1. row \in Row /\ row' = [row EXCEPT !.lost = {"access", "refresh"}]
    BY <1>7 DEF TypeOK, ChangeKey
  <2>2. row' # NoRow /\ row'.active = row.active /\ row'.access = row.access /\ row'.refresh = row.refresh
    <3>1. row' \in Row
      BY <2>1 DEF Row
    <3> QED
      BY <2>1, <3>1, Markers DEF Row
  <2> QED
    BY <1>7, <2>2, AroundHolds DEF ChangeKey, upstream
<1> QED
  BY <1>1, <1>2, <1>3, <1>4, <1>5, <1>6, <1>7 DEF Next

LEMMA InvIsInductive == Inv /\ [Next]_vars => Inv'
  BY NextType, NextHolds DEF Inv

-------------------------------------------------------------------------------
(* The theorems. *)

\* The state is well formed, and only the holder of the row's lock has writes.
THEOREM TypeCorrect == Spec => []TypeOK
<1>1. Inv => TypeOK
  BY DEF Inv
<1> QED
  BY InitInv, InvIsInductive, <1>1, PTL DEF Spec

\* No deactivation is ever committed.
THEOREM LinksAreActive == Spec => []LinksStayActive
<1>1. Inv => LinksStayActive
  BY DEF Inv, Held, RowHolds, LinksStayActive
<1> QED
  BY InitInv, InvIsInductive, <1>1, PTL DEF Spec

\* The row changes when the writes of a transaction are published, or when the
\* key of its tokens is changed.
LEMMA RowChanges ==
  ASSUME Inv, Next, row' # row
  PROVE  ChangeKey \/ \E w \in Workers : Commit(w)
<1>1. ASSUME NEW w \in Workers, Begin(w) \/ Trouble(w)
      PROVE  row' = row
  BY <1>1 DEF Begin, BeginUse, BeginDisconnect, Load, ExchangeCode, Trouble, RefreshLost, IssueRefreshed,
              RefreshUnavailable, UseFails, LinkFails, Crash, Move, database
<1>2. ASSUME NEW w \in Workers, GetToken(w) \/ Linking(w)
      PROVE  row' = row
  BY <1>2 DEF GetToken, GetAccessToken, Refresh, IssueRefreshed, RefreshRefused, RefreshEnds, StoreGrant,
              Deactivate, Linking, FindLink, CreateLink, UpdateLink, Flush, Move, database
<1>3. ASSUME NEW w \in Workers, Use(w) \/ UseRefused(w) \/ Disconnect(w) \/ Rollback(w)
      PROVE  row' = row
  BY <1>3 DEF Use, UseRefused, Disconnect, Rollback, Flush, Move, database
<1>4. ASSUME Revoke \/ (\E n \in live : Expire(n))
      PROVE  row' = row
  BY <1>4 DEF Revoke, Expire, database
<1> QED
  BY <1>1, <1>2, <1>3, <1>4 DEF Next, Advance

\* What a transaction publishes was written under the lock that it still has.
LEMMA Published ==
  ASSUME Inv, NEW w \in Workers, Commit(w), row' # row, row' # NoRow
  PROVE  /\ pc[w] = "commit" /\ row' = put[w] /\ put[w] \in Row
         /\ row'.active /\ Whole(row')
         /\ row # NoRow \/ (seen[w] = NoRow /\ got[w] # 0)
<1>1. pc[w] = "commit" /\ row' = put[w] /\ put[w] # Nothing
  BY DEF Commit, Publish
<1>2. put[w] \in Row
  BY <1>1 DEF Inv, TypeOK
<1>3. Holds(w)
  BY DEF Inv, Held
<1> QED
  BY <1>1, <1>2, <1>3 DEF Holds

\* A commit leaves the link active, with the refresh token that came with its
\* access token, or the one it had if none came.
THEOREM GrantsFollowReplies == Spec => GrantFollowsReply
<1> DEFINE Follows == row' \notin {row, NoRow}
                        => /\ row'.active
                           /\ row'.access # 0
                                => row'.refresh = IF reply[row'.access] # 0 THEN reply[row'.access] ELSE Kept
<1>1. ASSUME Inv, Next
      PROVE  Follows
  <2>1. SUFFICES ASSUME row' # row, row' # NoRow
                 PROVE  Follows
    OBVIOUS
  <2>2. CASE ChangeKey
    <3>1. row \in Row /\ row' = [row EXCEPT !.lost = {"access", "refresh"}]
      BY <1>1, <2>2 DEF Inv, TypeOK, ChangeKey
    <3>2. row'.active = row.active /\ row'.access = row.access /\ row'.refresh = row.refresh
      BY <3>1 DEF Row
    <3>3. row.active /\ Whole(row)
      BY <1>1, <3>1, Markers DEF Inv, Held, RowHolds
    <3> QED
      BY <3>2, <3>3 DEF Whole
  <2>3. ASSUME NEW w \in Workers, Commit(w)
        PROVE  Follows
    BY <1>1, <2>1, <2>3, Published DEF Whole
  <2> QED
    BY <1>1, <2>1, <2>2, <2>3, RowChanges
<1>2. Inv /\ [Next]_vars => [Follows]_vars
  BY <1>1
<1> HIDE DEF Follows
<1>3. Spec => [][Follows]_vars
  BY InitInv, InvIsInductive, <1>2, PTL DEF Spec
<1> QED
  BY <1>3 DEF GrantFollowsReply, Follows

\* A link that is gone comes back only by a callback that found none.
THEOREM LinksAreNotResurrected == Spec => NoResurrection
<1> DEFINE Back == row = NoRow /\ row' # NoRow
                     => \E w \in Workers : pc[w] = "commit" /\ seen[w] = NoRow /\ got[w] # 0
<1>1. ASSUME Inv, Next
      PROVE  Back
  <2>1. SUFFICES ASSUME row = NoRow, row' # NoRow
                 PROVE  \E w \in Workers : pc[w] = "commit" /\ seen[w] = NoRow /\ got[w] # 0
    OBVIOUS
  <2>2. PICK w \in Workers : Commit(w)
    BY <1>1, <2>1, RowChanges DEF ChangeKey
  <2> QED
    BY <1>1, <2>1, <2>2, Published
<1>2. Inv /\ [Next]_vars => [Back]_vars
  BY <1>1
<1> HIDE DEF Back
<1>3. Spec => [][Back]_vars
  BY InitInv, InvIsInductive, <1>2, PTL DEF Spec
<1> QED
  BY <1>3 DEF NoResurrection, Back

-------------------------------------------------------------------------------
(* The client.  The argument for the token requests: a call that fetches   *)
(* holds the lock, and while nobody does and no token is cached, one       *)
(* request is still owed.                                                  *)

\* Only the holder of the lock fetches, and its token has a name.
FetcherHoldsLock ==
  /\ \A c \in Calls : lock = c <=> phase[c] = "fetch"
  /\ lock # NoCall => fetches # 0

\* What remains to be spent.
RequestsAreOwed ==
  /\ FetchesAreOwed
  /\ appToken = 0 /\ lock = NoCall => fetches <= lost + dropped

\* What a call has in hand is its own, and true.
InHand(c) ==
  /\ result[c] \in Users => result[c] = ask[c].viewer
  /\ result[c] = "missing" => ask[c].key \in wasMissing
  /\ phase[c] = "answered" /\ answer[c] = "absent" => ask[c].key \in wasMissing
  /\ phase[c] = "store" => ~ Personal(c) /\ result[c] \in {Public, "missing"}

InCache(k) ==
  /\ cached[k] \in {"empty", "missing", Public}
  /\ cached[k] = "missing" => k \in wasMissing

AnswersAreTrue ==
  /\ Keys \ exists \subseteq wasMissing
  /\ \A c \in Calls : InHand(c)
  /\ \A k \in Keys : InCache(k)

ClientInv == ClientTypeOK /\ FetcherHoldsLock /\ RequestsAreOwed /\ AnswersAreTrue

Phases   == {"start", "token", "lock", "fetch", "slot", "answered", "store", "done"}
Results == {"none", "missing", "failed", "unavailable", "cancelled"} \cup Viewers

-------------------------------------------------------------------------------
(* Type correctness. *)

\* The next attempt, or none, keeps its types.
LEMMA AgainType ==
  ASSUME ClientTypeOK, NEW c \in Calls, Again(c)
  PROVE  /\ attempt' \in [Calls -> 0 .. MaxRetries - 1]
         /\ phase' \in [Calls -> Phases]
         /\ tok' = tok
         /\ result' \in [Calls -> Results]
<1>1. attempt[c] \in 0 .. MaxRetries - 1
  BY DEF ClientTypeOK
<1>2. CASE attempt[c] + 1 < MaxRetries
  <2>1. /\ attempt' = [attempt EXCEPT ![c] = attempt[c] + 1]
        /\ attempt[c] + 1 \in 0 .. MaxRetries - 1
    BY <1>1, <1>2, ClientAssumption DEF Again
  <2> QED
    BY <1>2, <2>1 DEF ClientTypeOK, Again, MoveOn, Phases, Results
<1>3. CASE ~ (attempt[c] + 1 < MaxRetries)
  BY <1>3 DEF ClientTypeOK, Again, Return, MoveOn, Phases, Results
<1> QED
  BY <1>2, <1>3

\* Every step of a call keeps the state well formed.
LEMMA StepType ==
  ASSUME ClientTypeOK, FetcherHoldsLock, AnswersAreTrue, NEW c \in Calls, Step(c) \/ Cancel(c)
  PROVE  ClientTypeOK'
<1>1. CASE CacheHit(c)
  BY <1>1 DEF ClientTypeOK, CacheHit, Return, MoveOn, oauth, remote, locals, history
<1>2. CASE CacheMiss(c)
  BY <1>2 DEF ClientTypeOK, CacheMiss, MoveOn, oauth, remote, locals, history
<1>3. CASE TakeToken(c)
  BY <1>3 DEF ClientTypeOK, TakeToken, MoveOn, oauth, remote, locals, history
<1>4. CASE Acquire(c)
  <2>1. CASE appToken # 0
    <3>1. phase' = [phase EXCEPT ![c] = "slot"] /\ tok' = [tok EXCEPT ![c] = appToken]
      BY <1>4, <2>1 DEF Acquire, MoveOn
    <3>2. UNCHANGED <<appToken, lock, fetches, cached, result, remote, locals, history>>
      BY <1>4, <2>1 DEF Acquire, MoveOn, oauth
    <3> QED
      BY <3>1, <3>2 DEF ClientTypeOK, remote, locals, history
  <2>2. CASE appToken = 0
    <3>1. /\ fetches' = fetches + 1 /\ fetches' \in Nat /\ lock' = c
          /\ phase' = [phase EXCEPT ![c] = "fetch"]
          /\ UNCHANGED <<appToken, tok, remote, locals, history, cached, result>>
      BY <1>4, <2>2 DEF ClientTypeOK, Acquire, MoveOn
    <3>2. \A n \in Nat : n <= fetches => n <= fetches'
      BY <3>1 DEF ClientTypeOK
    <3>3. 0 .. fetches \subseteq 0 .. fetches' /\ 1 .. fetches \subseteq 1 .. fetches'
      BY <3>1, <3>2 DEF ClientTypeOK
    <3>4. tok' \in [Calls -> 0 .. fetches']
      BY <3>1, <3>3 DEF ClientTypeOK
    <3> QED
      BY <3>1, <3>3, <3>4 DEF ClientTypeOK, remote, locals, history
  <2> QED
    BY <2>1, <2>2
<1>5. CASE FetchToken(c)
  BY <1>5, ClientAssumption DEF ClientTypeOK, FetcherHoldsLock, FetchToken, MoveOn, Unlock, oauth,
     remote, locals, history
<1>6. CASE FetchFails(c)
  BY <1>6 DEF ClientTypeOK, FetchFails, Return, MoveOn, Unlock, oauth, remote, locals, history
<1>7. CASE Send(c)
  BY <1>7 DEF ClientTypeOK, Send, MoveOn, Replies, Answers, oauth, remote, locals, history
<1>8. CASE Throttled(c)
  BY <1>8, AgainType DEF ClientTypeOK, Throttled, Phases, Results, oauth, remote, history
<1>9. CASE Rejected(c)
  <2>1. CASE reauthorized[c]
    BY <1>9, <2>1 DEF ClientTypeOK, Rejected, Return, MoveOn, oauth, remote
  <2>2. CASE ~ reauthorized[c]
    <3>1. /\ Again(c)
          /\ reauthorized' = [reauthorized EXCEPT ![c] = TRUE]
          /\ appToken' = 0 /\ dropped' = dropped + 1
          /\ UNCHANGED <<lock, fetches, remote, ask, answer, lost, cached>>
      BY <1>9, <2>2 DEF Rejected
    <3>2. reauthorized' \in [Calls -> BOOLEAN]
      BY <3>1, Zenon DEF ClientTypeOK
    <3>3. appToken' \in 0 .. fetches' /\ dropped' \in Nat
      BY <3>1 DEF ClientTypeOK
    <3> QED
      BY <3>1, <3>2, <3>3, AgainType DEF ClientTypeOK, Phases, Results, remote
  <2> QED
    BY <2>1, <2>2
<1>10. CASE Refused(c)
  BY <1>10 DEF ClientTypeOK, Refused, Return, MoveOn, oauth, remote, locals, history
<1>11. CASE Answered(c)
  BY <1>11 DEF ClientTypeOK, Answered, Payload, MoveOn, Cacheable, Personal, oauth, remote,
     locals, history
<1>12. CASE Store(c)
  <2>1. result[c] \in {Public, "missing"}
    BY <1>12 DEF AnswersAreTrue, InHand, Store
  <2>2. cached' \in [Keys -> {"empty", "missing"} \cup Viewers]
    BY <1>12, <2>1 DEF ClientTypeOK, Store, Viewers
  <2> QED
    BY <1>12, <2>2 DEF ClientTypeOK, Store, MoveOn, oauth, remote, locals, history
<1>13. CASE Cancel(c)
  BY <1>13 DEF ClientTypeOK, Cancel, Return, MoveOn, Unlock, oauth, remote, locals, history
<1> QED
  BY <1>1, <1>2, <1>3, <1>4, <1>5, <1>6, <1>7, <1>8, <1>9, <1>10, <1>11, <1>12, <1>13 DEF Step

\* So does every event outside the client.
LEMMA EventType ==
  ASSUME ClientTypeOK, TokenExpires \/ TokenRevoked \/ Change \/ Evict
  PROVE  ClientTypeOK'
<1>1. CASE TokenExpires
  BY <1>1, ClientAssumption DEF ClientTypeOK, TokenExpires, Event, oauth, remote, locals, history
<1>2. CASE TokenRevoked
  BY <1>2, ClientAssumption DEF ClientTypeOK, TokenRevoked, Event, oauth, remote, locals, history
<1>3. CASE Change
  BY <1>3, ClientAssumption DEF ClientTypeOK, Change, Event, oauth, remote, locals, history
<1>4. CASE Evict
  BY <1>4, ClientAssumption DEF ClientTypeOK, Evict, Event, oauth, remote, locals, history
<1> QED
  BY <1>1, <1>2, <1>3, <1>4

-------------------------------------------------------------------------------
(* The lock. *)

\* The lock is taken to fetch and given back with the token or the error.
LEMMA StepLock ==
  ASSUME ClientTypeOK, FetcherHoldsLock, NEW c \in Calls, Step(c) \/ Cancel(c)
  PROVE  FetcherHoldsLock'
<1>1. CASE CacheHit(c)
  BY <1>1, ClientAssumption DEF ClientTypeOK, FetcherHoldsLock, CacheHit, Return, MoveOn, oauth,
     remote, locals, history
<1>2. CASE CacheMiss(c)
  BY <1>2, ClientAssumption DEF ClientTypeOK, FetcherHoldsLock, CacheMiss, MoveOn, oauth, remote,
     locals, history
<1>3. CASE TakeToken(c)
  BY <1>3, ClientAssumption DEF ClientTypeOK, FetcherHoldsLock, TakeToken, MoveOn, oauth, remote,
     locals, history
<1>4. CASE Acquire(c)
  BY <1>4, ClientAssumption DEF ClientTypeOK, FetcherHoldsLock, Acquire, MoveOn, oauth, remote,
     locals, history
<1>5. CASE FetchToken(c)
  BY <1>5, ClientAssumption DEF ClientTypeOK, FetcherHoldsLock, FetchToken, MoveOn, Unlock, oauth,
     remote, locals, history
<1>6. CASE FetchFails(c)
  BY <1>6, ClientAssumption DEF ClientTypeOK, FetcherHoldsLock, FetchFails, Return, MoveOn,
     Unlock, oauth, remote, locals, history
<1>7. CASE Send(c)
  BY <1>7, ClientAssumption DEF ClientTypeOK, FetcherHoldsLock, Send, MoveOn, Replies, Answers,
     oauth, remote, locals, history
<1>8. CASE Throttled(c)
  BY <1>8, ClientAssumption DEF ClientTypeOK, FetcherHoldsLock, Throttled, Again, Return, MoveOn,
     oauth, remote, locals, history
<1>9. CASE Rejected(c)
  BY <1>9, ClientAssumption DEF ClientTypeOK, FetcherHoldsLock, Rejected, Again, Return, MoveOn,
     oauth, remote, locals, history
<1>10. CASE Refused(c)
  BY <1>10, ClientAssumption DEF ClientTypeOK, FetcherHoldsLock, Refused, Return, MoveOn, oauth,
     remote, locals, history
<1>11. CASE Answered(c)
  BY <1>11, ClientAssumption DEF ClientTypeOK, FetcherHoldsLock, Answered, Payload, MoveOn,
     Cacheable, Personal, oauth, remote, locals, history
<1>12. CASE Store(c)
  BY <1>12, ClientAssumption DEF ClientTypeOK, FetcherHoldsLock, Store, MoveOn, oauth, remote,
     locals, history
<1>13. CASE Cancel(c)
  BY <1>13, ClientAssumption DEF ClientTypeOK, FetcherHoldsLock, Cancel, Return, MoveOn, Unlock,
     oauth, remote, locals, history
<1> QED
  BY <1>1, <1>2, <1>3, <1>4, <1>5, <1>6, <1>7, <1>8, <1>9, <1>10, <1>11, <1>12, <1>13 DEF Step

-------------------------------------------------------------------------------
(* The token requests. *)

\* A request is spent under the lock, and earned by a failure or a 401.
LEMMA StepOwed ==
  ASSUME ClientTypeOK, FetcherHoldsLock, RequestsAreOwed, NEW c \in Calls, Step(c) \/ Cancel(c)
  PROVE  RequestsAreOwed'
<1>1. CASE CacheHit(c)
  BY <1>1 DEF ClientTypeOK, FetcherHoldsLock, RequestsAreOwed, FetchesAreOwed, CacheHit, Return,
     MoveOn, oauth, remote, locals, history
<1>2. CASE CacheMiss(c)
  BY <1>2 DEF ClientTypeOK, FetcherHoldsLock, RequestsAreOwed, FetchesAreOwed, CacheMiss, MoveOn,
     oauth, remote, locals, history
<1>3. CASE TakeToken(c)
  BY <1>3 DEF ClientTypeOK, FetcherHoldsLock, RequestsAreOwed, FetchesAreOwed, TakeToken, MoveOn,
     oauth, remote, locals, history
<1>4. CASE Acquire(c)
  BY <1>4, ClientAssumption DEF ClientTypeOK, FetcherHoldsLock, RequestsAreOwed, FetchesAreOwed,
     Acquire, MoveOn, oauth, remote, locals, history
<1>5. CASE FetchToken(c)
  BY <1>5 DEF ClientTypeOK, FetcherHoldsLock, RequestsAreOwed, FetchesAreOwed, FetchToken, MoveOn,
     Unlock, oauth, remote, locals, history
<1>6. CASE FetchFails(c)
  BY <1>6 DEF ClientTypeOK, FetcherHoldsLock, RequestsAreOwed, FetchesAreOwed, FetchFails, Return,
     MoveOn, Unlock, oauth, remote, locals, history
<1>7. CASE Send(c)
  BY <1>7 DEF ClientTypeOK, FetcherHoldsLock, RequestsAreOwed, FetchesAreOwed, Send, MoveOn,
     Replies, Answers, oauth, remote, locals, history
<1>8. CASE Throttled(c)
  BY <1>8 DEF ClientTypeOK, FetcherHoldsLock, RequestsAreOwed, FetchesAreOwed, Throttled, Again,
     Return, MoveOn, oauth, remote, locals, history
<1>9. CASE Rejected(c)
  BY <1>9 DEF ClientTypeOK, FetcherHoldsLock, RequestsAreOwed, FetchesAreOwed, Rejected, Again,
     Return, MoveOn, oauth, remote, locals, history
<1>10. CASE Refused(c)
  BY <1>10 DEF ClientTypeOK, FetcherHoldsLock, RequestsAreOwed, FetchesAreOwed, Refused, Return,
     MoveOn, oauth, remote, locals, history
<1>11. CASE Answered(c)
  BY <1>11 DEF ClientTypeOK, FetcherHoldsLock, RequestsAreOwed, FetchesAreOwed, Answered, Payload,
     MoveOn, Cacheable, Personal, oauth, remote, locals, history
<1>12. CASE Store(c)
  BY <1>12 DEF ClientTypeOK, FetcherHoldsLock, RequestsAreOwed, FetchesAreOwed, Store, MoveOn,
     oauth, remote, locals, history
<1>13. CASE Cancel(c)
  BY <1>13 DEF ClientTypeOK, FetcherHoldsLock, RequestsAreOwed, FetchesAreOwed, Cancel, Return,
     MoveOn, Unlock, oauth, remote, locals, history
<1> QED
  BY <1>1, <1>2, <1>3, <1>4, <1>5, <1>6, <1>7, <1>8, <1>9, <1>10, <1>11, <1>12, <1>13 DEF Step

\* An expiry or a revocation earns one.
LEMMA EventOwed ==
  ASSUME ClientTypeOK, FetcherHoldsLock, RequestsAreOwed,
  TokenExpires \/ TokenRevoked \/ Change \/ Evict
  PROVE  FetcherHoldsLock' /\ RequestsAreOwed'
<1>1. CASE TokenExpires
  BY <1>1 DEF ClientTypeOK, FetcherHoldsLock, RequestsAreOwed, FetchesAreOwed, TokenExpires,
     Event, oauth, remote, locals, history
<1>2. CASE TokenRevoked
  BY <1>2 DEF ClientTypeOK, FetcherHoldsLock, RequestsAreOwed, FetchesAreOwed, TokenRevoked,
     Event, oauth, remote, locals, history
<1>3. CASE Change
  BY <1>3 DEF ClientTypeOK, FetcherHoldsLock, RequestsAreOwed, FetchesAreOwed, Change, Event,
     oauth, remote, locals, history
<1>4. CASE Evict
  BY <1>4 DEF ClientTypeOK, FetcherHoldsLock, RequestsAreOwed, FetchesAreOwed, Evict, Event,
     oauth, remote, locals, history
<1> QED
  BY <1>1, <1>2, <1>3, <1>4

-------------------------------------------------------------------------------
(* The answers. *)

\* What a call is told, it returns or caches unchanged.
LEMMA StepTrue ==
  ASSUME ClientTypeOK, AnswersAreTrue, NEW c \in Calls, Step(c) \/ Cancel(c)
  PROVE  AnswersAreTrue'
<1>1. CASE CacheHit(c)
  BY <1>1, ClientAssumption DEF ClientTypeOK, AnswersAreTrue, InHand, InCache, Personal,
     Cacheable, Public, Viewers, CacheHit, Return, MoveOn, oauth, remote, locals, history
<1>2. CASE CacheMiss(c)
  BY <1>2 DEF ClientTypeOK, AnswersAreTrue, InHand, InCache, Personal, Public, Viewers, CacheMiss,
     MoveOn, oauth, remote, locals, history
<1>3. CASE TakeToken(c)
  BY <1>3 DEF ClientTypeOK, AnswersAreTrue, InHand, InCache, Personal, Public, Viewers, TakeToken,
     MoveOn, oauth, remote, locals, history
<1>4. CASE Acquire(c)
  BY <1>4 DEF ClientTypeOK, AnswersAreTrue, InHand, InCache, Personal, Public, Viewers, Acquire,
     MoveOn, oauth, remote, locals, history
<1>5. CASE FetchToken(c)
  BY <1>5 DEF ClientTypeOK, AnswersAreTrue, InHand, InCache, Personal, Public, Viewers,
     FetchToken, MoveOn, Unlock, oauth, remote, locals, history
<1>6. CASE FetchFails(c)
  BY <1>6, ClientAssumption DEF ClientTypeOK, AnswersAreTrue, InHand, InCache, Personal, Public,
     Viewers, FetchFails, Return, MoveOn, Unlock, oauth, remote, locals, history
<1>7. CASE Send(c)
  BY <1>7 DEF ClientTypeOK, AnswersAreTrue, InHand, InCache, Personal, Public, Viewers, Send,
     MoveOn, Replies, Answers, oauth, remote, locals, history
<1>8. CASE Throttled(c)
  BY <1>8, ClientAssumption DEF ClientTypeOK, AnswersAreTrue, InHand, InCache, Personal, Public,
     Viewers, Throttled, Again, Return, MoveOn, oauth, remote, locals, history
<1>9. CASE Rejected(c)
  BY <1>9, ClientAssumption DEF ClientTypeOK, AnswersAreTrue, InHand, InCache, Personal, Public,
     Viewers, Rejected, Again, Return, MoveOn, oauth, remote, locals, history
<1>10. CASE Refused(c)
  BY <1>10, ClientAssumption DEF ClientTypeOK, AnswersAreTrue, InHand, InCache, Personal, Public,
     Viewers, Refused, Return, MoveOn, oauth, remote, locals, history
<1>11. CASE Answered(c)
  BY <1>11, ClientAssumption DEF ClientTypeOK, AnswersAreTrue, InHand, InCache, Personal,
     Cacheable, Public, Viewers, Answered, Payload, MoveOn, Cacheable, Personal, oauth, remote,
     locals, history
<1>12. CASE Store(c)
  BY <1>12 DEF ClientTypeOK, AnswersAreTrue, InHand, InCache, Personal, Public, Viewers, Store,
     MoveOn, oauth, remote, locals, history
<1>13. CASE Cancel(c)
  BY <1>13, ClientAssumption DEF ClientTypeOK, AnswersAreTrue, InHand, InCache, Personal, Public,
     Viewers, Cancel, Return, MoveOn, Unlock, oauth, remote, locals, history
<1> QED
  BY <1>1, <1>2, <1>3, <1>4, <1>5, <1>6, <1>7, <1>8, <1>9, <1>10, <1>11, <1>12, <1>13 DEF Step

\* Nothing at Battle.net or in Redis makes an answer false afterwards.
LEMMA EventTrue ==
  ASSUME ClientTypeOK, AnswersAreTrue, TokenExpires \/ TokenRevoked \/ Change \/ Evict
  PROVE  AnswersAreTrue'
<1>1. CASE TokenExpires
  BY <1>1 DEF ClientTypeOK, AnswersAreTrue, InHand, InCache, Personal, TokenExpires, Event, oauth,
     remote, locals, history
<1>2. CASE TokenRevoked
  BY <1>2 DEF ClientTypeOK, AnswersAreTrue, InHand, InCache, Personal, TokenRevoked, Event, oauth,
     remote, locals, history
<1>3. CASE Change
  BY <1>3 DEF ClientTypeOK, AnswersAreTrue, InHand, InCache, Personal, Change, Event, oauth,
     remote, locals, history
<1>4. CASE Evict
  BY <1>4 DEF ClientTypeOK, AnswersAreTrue, InHand, InCache, Personal, Evict, Event, oauth,
     remote, locals, history
<1> QED
  BY <1>1, <1>2, <1>3, <1>4

-------------------------------------------------------------------------------
(* The theorems. *)

LEMMA ClientInitInv == ClientInit => ClientInv
<1> SUFFICES ASSUME ClientInit PROVE ClientInv
  OBVIOUS
<1>1. ClientTypeOK
  BY ClientAssumption DEF ClientInit, ClientTypeOK, Answers
<1>2. FetcherHoldsLock
  BY ClientAssumption DEF ClientInit, FetcherHoldsLock
<1>3. RequestsAreOwed
  BY DEF ClientInit, RequestsAreOwed, FetchesAreOwed
<1>4. AnswersAreTrue
  BY ClientAssumption DEF ClientInit, AnswersAreTrue, InHand, InCache, Public
<1> QED
  BY <1>1, <1>2, <1>3, <1>4 DEF ClientInv

LEMMA ClientInvIsInductive == ClientInv /\ [ClientNext]_clientVars => ClientInv'
<1> SUFFICES ASSUME ClientInv, [ClientNext]_clientVars PROVE ClientInv'
  OBVIOUS
<1>1. ASSUME NEW c \in Calls, Step(c) \/ Cancel(c) PROVE ClientInv'
  BY <1>1, StepType, StepLock, StepOwed, StepTrue DEF ClientInv
<1>2. CASE TokenExpires \/ TokenRevoked \/ Change \/ Evict
  BY <1>2, EventType, EventOwed, EventTrue DEF ClientInv
<1>3. CASE UNCHANGED clientVars
  BY <1>3 DEF clientVars, oauth, remote, locals, history, ClientInv, ClientTypeOK,
     FetcherHoldsLock, RequestsAreOwed,
              FetchesAreOwed, AnswersAreTrue, InHand, InCache, Personal
<1> QED
  BY <1>1, <1>2, <1>3 DEF ClientNext

LEMMA InvHolds == ClientSpec => []ClientInv
  BY ClientInitInv, ClientInvIsInductive, PTL DEF ClientSpec

\* Every variable keeps its type; an attempt stays below MaxRetries and only
\* tokens that were requested are held or accepted.
THEOREM ClientTypeCorrect == ClientSpec => []ClientTypeOK
<1>1. ClientInv => ClientTypeOK
  BY DEF ClientInv
<1> QED
  BY <1>1, InvHolds, PTL

\* Each request of get_app_token is owed to the start, a lost token or a 401:
\* a burst of calls that waits for the lock costs one.
THEOREM RequestsHaveCause == ClientSpec => []FetchesAreOwed
<1>1. ClientInv => FetchesAreOwed
  BY DEF ClientInv, RequestsAreOwed
<1> QED
  BY <1>1, InvHolds, PTL

\* What get answers with a user's token reaches that user and no cache.
THEOREM PrivacyHolds == ClientSpec => []DataIsPrivate
<1>1. ClientInv => DataIsPrivate
  BY ClientAssumption DEF ClientInv, AnswersAreTrue, InHand, InCache, DataIsPrivate, Public
<1> QED
  BY <1>1, InvHolds, PTL

\* None is returned or cached only for what Battle.net did not have.
THEOREM MissingHolds == ClientSpec => []MissingWasMissing
<1>1. ClientInv => MissingWasMissing
  BY DEF ClientInv, AnswersAreTrue, InHand, InCache, MissingWasMissing
<1> QED
  BY <1>1, InvHolds, PTL
================================================================================
