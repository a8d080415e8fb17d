----------------------------- MODULE LinkRegistry -----------------------------
(***************************************************************************)
(* What account linking promises (src/backend/app/services/                *)
(* blizzard_oauth.py): a consent link opened by a user is used once at     *)
(* most, for that user, and no Battle.net account has two users.  It links *)
(* an account with a grant of that account; or it renews the grant of the  *)
(* user's link and leaves the account linked as it is, which need not be   *)
(* the account of the new grant.  Each change of the registry is one step. *)
(***************************************************************************)
CONSTANTS Users, States, Bnets, None, Unused, Spent

VARIABLES
  open,    \* the user each consent link is open for, or Unused, or Spent
  links,   \* the Battle.net account each user is linked to
  grants   \* the Battle.net account whose tokens the user's link holds

vars == <<open, links, grants>>

Init ==
  /\ open = [s \in States |-> Unused]
  /\ links = [u \in Users |-> None] /\ grants = [u \in Users |-> None]

Begin(u, s) ==
  /\ open[s] = Unused
  /\ open' = [open EXCEPT ![s] = u]
  /\ UNCHANGED <<links, grants>>

Use(s, b) ==
  /\ open[s] \in Users
  /\ open' = [open EXCEPT ![s] = Spent]
  /\ grants' = [grants EXCEPT ![open[s]] = b]

Link(s, b) ==
  /\ Use(s, b)
  /\ \A u \in Users \ {open[s]} : links[u] # b
  /\ links' = [links EXCEPT ![open[s]] = b]

Renew(s, b) ==
  /\ Use(s, b)
  /\ links[open[s]] # None
  /\ UNCHANGED links

GiveUp(s) ==
  /\ open[s] \in Users
  /\ open' = [open EXCEPT ![s] = Spent]
  /\ UNCHANGED <<links, grants>>

Unlink(u) ==
  /\ links[u] # None
  /\ links' = [links EXCEPT ![u] = None] /\ grants' = [grants EXCEPT ![u] = None]
  /\ UNCHANGED open

Next ==
  \/ \E s \in States : \/ GiveUp(s) \/ (\E u \in Users : Begin(u, s))
                       \/ (\E b \in Bnets : Link(s, b) \/ Renew(s, b))
  \/ \E u \in Users : Unlink(u)

Spec == Init /\ [][Next]_vars
===============================================================================
