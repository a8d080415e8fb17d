------------------------------- MODULE OAuthLink -------------------------------
(***************************************************************************)
(* Linking a Battle.net account: BlizzardOAuthService in                   *)
(* src/backend/app/services/blizzard_oauth.py, one region.                 *)
(*                                                                         *)
(* begin() stores a state for the user in Redis; the browser brings it     *)
(* back, once or several times, to the callback.  A callback is a request  *)
(* with its own database transaction: it consumes the state (GETDEL),      *)
(* exchanges the code at Battle.net, looks for the row of that Battle.net  *)
(* account and for the user's own, writes one of them or a new one, and    *)
(* commits when the response goes out.  An update sends the columns whose  *)
(* value has changed since the row was read, and always new tokens.  What  *)
(* two transactions do to one row or one unique value waits for the first  *)
(* to end.                                                                 *)
(***************************************************************************)
EXTENDS FiniteSets

CONSTANTS
  Users, Bnets,   \* the site's users and the Battle.net accounts
  States,         \* the states generate_state() can produce; none twice
  Callbacks,      \* the callback requests
  None

ASSUME NoneAssumption == None \notin Users \cup Bnets \cup States \cup Callbacks

VARIABLES
  starter,  \* the user each state was generated for
  pending,  \* Redis: the user stored under each state
  links,    \* the committed rows, by user
  cb        \* the callbacks

vars == <<starter, pending, links, cb>>

(* A row is known by the callback that inserted it.  Its tokens are of the *)
(* Battle.net account grant, obtained for the user by.                     *)
Rows == [id : Callbacks, bnet : Bnets, grant : Bnets, by : Users]
NoRow == [id |-> None, bnet |-> None, grant |-> None, by |-> None]
(* row and id name the row found, of which user, and read its account;     *)
(* without an id, a new one.                                               *)
Idle == [pc |-> "idle", state |-> None, user |-> None, bnet |-> None, row |-> None, id |-> None,
         read |-> None]

TypeOK ==
  /\ starter \in [States -> Users \cup {None}]
  /\ pending \in [States -> Users \cup {None}]
  /\ links \in [Users -> Rows \cup {NoRow}]
  /\ cb \in [Callbacks ->
               [pc : {"idle", "taken", "named", "unowned", "found", "written", "linked", "failed"},
                state : States \cup {None}, user : Users \cup {None}, bnet : Bnets \cup {None},
                row : Users \cup {None}, id : Callbacks \cup {None}, read : Bnets \cup {None}]]

Init ==
  /\ starter = [s \in States |-> None] /\ pending = [s \in States |-> None]
  /\ links = [u \in Users |-> NoRow]
  /\ cb = [c \in Callbacks |-> Idle]

(* A callback that has ended keeps nothing.                                *)
End(c, pc) == cb' = [cb EXCEPT ![c] = [Idle EXCEPT !.pc = pc]]
Fail(c) == End(c, "failed")

-----------------------------------------------------------------------------
(* begin(): a fresh state is stored for the user.                          *)
Begin(u, s) ==
  /\ starter[s] = None
  /\ starter' = [starter EXCEPT ![s] = u]
  /\ pending' = [pending EXCEPT ![s] = u]
  /\ UNCHANGED <<links, cb>>

(* The key's lifetime of ten minutes ends.                                 *)
Expire(s) ==
  /\ pending[s] # None
  /\ pending' = [pending EXCEPT ![s] = None]
  /\ UNCHANGED <<starter, links, cb>>

(* Mutant: the state is read and left in Redis.                            *)
TakeWithoutDeleting(c, s) ==
  /\ cb[c].pc = "idle" /\ pending[s] # None
  /\ cb' = [cb EXCEPT ![c].pc = "taken", ![c].state = s, ![c].user = pending[s]]
  /\ UNCHANGED <<starter, pending, links>>

(* complete(): GETDEL returns the user and removes the state.              *)
Take(c, s) ==
  /\ cb[c].pc = "idle" /\ pending[s] # None
  /\ cb' = [cb EXCEPT ![c].pc = "taken", ![c].state = s, ![c].user = pending[s]]
  /\ pending' = [pending EXCEPT ![s] = None]
  /\ UNCHANGED <<starter, links>>

(* A replayed or expired state finds nothing; or Redis removes the state   *)
(* and its answer is lost.                                                 *)
TakeFails(c, s) ==
  /\ cb[c].pc = "idle" /\ starter[s] # None
  /\ Fail(c)
  /\ pending' = [pending EXCEPT ![s] = None]
  /\ UNCHANGED <<starter, links>>

(* exchange_code, the scope check and get_userinfo: Battle.net names the   *)
(* account that gave its consent, or the request ends.                     *)
Exchange(c) ==
  /\ cb[c].pc = "taken"
  /\ \/ \E b \in Bnets : cb' = [cb EXCEPT ![c].pc = "named", ![c].bnet = b]
     \/ Fail(c)
  /\ UNCHANGED <<starter, pending, links>>

(* get_by_battlenet_id: the row of the account, unless it is another's.    *)
Owners(b) == {u \in Users : links[u].bnet = b}
Found(c, u) ==
  cb' = [cb EXCEPT ![c].pc = "found", ![c].row = u, ![c].id = links[u].id, ![c].read = links[u].bnet]

FindOwner(c) ==
  /\ cb[c].pc = "named"
  /\ IF Owners(cb[c].bnet) = {}
     THEN cb' = [cb EXCEPT ![c].pc = "unowned"]
     ELSE IF cb[c].user \in Owners(cb[c].bnet)
     THEN Found(c, cb[c].user)
     ELSE Fail(c)
  /\ UNCHANGED <<starter, pending, links>>

(* get_for_user: the user's own row decides between update and insert.     *)
FindMine(c) ==
  /\ cb[c].pc = "unowned"
  /\ Found(c, cb[c].user)
  /\ UNCHANGED <<starter, pending, links>>

(* battlenet_id is sent unless the row was read with that value.           *)
Sends(c) == cb[c].read # cb[c].bnet

(* The transactions whose open write has this callback's row or value.     *)
Blockers(c) ==
  {d \in Callbacks \ {c} :
     /\ cb[d].pc = "written"
     /\ \/ cb[d].row = cb[c].row
        \/ Sends(c) /\ (links[cb[d].row].bnet = cb[c].bnet \/ (Sends(d) /\ cb[d].bnet = cb[c].bnet))}
(* The statement fails: the user has a row where an insert goes, the row   *)
(* to update is gone, or another row has the Battle.net account sent.      *)
Refused(c) == \/ links[cb[c].row].id # cb[c].id
              \/ Sends(c) /\ Owners(cb[c].bnet) \ {cb[c].row} # {}

Write(c) ==
  /\ cb[c].pc = "found" /\ Blockers(c) = {}
  /\ IF Refused(c) THEN Fail(c) ELSE cb' = [cb EXCEPT ![c].pc = "written"]
  /\ UNCHANGED <<starter, pending, links>>

(* Mutant: the transaction of the callback is left open.                   *)
CommitForgotten(c) ==
  /\ cb[c].pc = "written" /\ cb[c].user = None
  /\ UNCHANGED vars

Commit(c) ==
  /\ cb[c].pc = "written"
  /\ links' = [links EXCEPT ![cb[c].row] =
                 [id |-> IF cb[c].id = None THEN c ELSE cb[c].id,
                  bnet |-> IF Sends(c) THEN cb[c].bnet ELSE links[cb[c].row].bnet,
                  grant |-> cb[c].bnet, by |-> cb[c].user]]
  /\ End(c, "linked")
  /\ UNCHANGED <<starter, pending>>

(* The request is cancelled or its process dies: the transaction is        *)
(* rolled back; the state stays consumed.                                  *)
Crash(c) ==
  /\ cb[c].pc \notin {"idle", "linked", "failed"}
  /\ Fail(c)
  /\ UNCHANGED <<starter, pending, links>>

(* disconnect(): the row is locked by the update of revoke and deleted.    *)
Disconnect(u) ==
  /\ links[u] # NoRow
  /\ \A c \in Callbacks : ~(cb[c].pc = "written" /\ cb[c].row = u)
  /\ links' = [links EXCEPT ![u] = NoRow]
  /\ UNCHANGED <<starter, pending, cb>>

Serve(c) == Exchange(c) \/ FindOwner(c) \/ FindMine(c) \/ Write(c) \/ Commit(c)
Next ==
  \/ \E u \in Users : Disconnect(u) \/ \E s \in States : Begin(u, s)
  \/ \E s \in States : Expire(s) \/ \E c \in Callbacks : Take(c, s) \/ TakeFails(c, s)
  \/ \E c \in Callbacks : Serve(c) \/ Crash(c)

(* A request that can go on goes on.                                       *)
Fairness == \A c \in Callbacks : WF_vars(Serve(c))
Spec == Init /\ [][Next]_vars /\ Fairness

-----------------------------------------------------------------------------
(* No Battle.net account is linked to two users, whatever two callbacks    *)
(* found before they wrote.                                                *)
LinksAreUnique == \A u, v \in Users : u # v /\ links[u] # NoRow => links[u].bnet # links[v].bnet

(* The grant on a user's row was obtained through a state that this user   *)
(* began ("a callback can only ever complete for the user who started it", *)
(* blizzard_oauth.py).                                                     *)
GrantBelongsToStarter == \A u \in Users : links[u] # NoRow => links[u].by = u

InFlight == {c \in Callbacks : cb[c].pc \notin {"idle", "linked", "failed"}}

(* Every callback that has consumed its state ends, waiting for the other  *)
(* transactions included.                                                  *)
CallbacksEnd == <>[](InFlight = {})

(* A consent link is open while its state is in Redis or with a callback,  *)
(* and linking implements the registry: a state serves one callback at     *)
(* most, although it may come twice or fail half way, which links its      *)
(* account or only renews the grant.                                       *)
Held == {cb[c].state : c \in InFlight}
Registry == INSTANCE LinkRegistry WITH
  open <- [s \in States |-> IF starter[s] = None THEN "unused"
                            ELSE IF pending[s] # None \/ s \in Held THEN starter[s]
                            ELSE "spent"],
  links <- [u \in Users |-> links[u].bnet], grants <- [u \in Users |-> links[u].grant],
  Unused <- "unused", Spent <- "spent"
ImplementsRegistry == Registry!Spec
===============================================================================
