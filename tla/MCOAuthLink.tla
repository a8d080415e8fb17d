------------------------------ MODULE MCOAuthLink ------------------------------
(* Two users, two Battle.net accounts, three consent links and as many     *)
(* callbacks: enough to link an account and then to link it again while    *)
(* another is linked, or to replay a callback.                             *)
EXTENDS OAuthLink, TLC
CONSTANTS u1, u2, b1, b2, s1, s2, s3, c1, c2, c3
MCUsers == {u1, u2}
MCBnets == {b1, b2}
MCStates == {s1, s2, s3}
MCCallbacks == {c1, c2, c3}
===============================================================================
