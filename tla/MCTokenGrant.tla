----------------------------- MODULE MCTokenGrant -----------------------------
(* Two concurrent requests on one link.                                      *)
EXTENDS TokenGrant

CONSTANTS w1, w2

MCWorkers == {w1, w2}
===============================================================================
