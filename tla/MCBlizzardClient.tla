---------------------------- MODULE MCBlizzardClient ---------------------------
(* Two concurrent calls for one resource, with a player's token or none.     *)
EXTENDS BlizzardClient

CONSTANTS c1, c2, k1, u1

MCCalls == {c1, c2}
MCKeys  == {k1}
MCUsers == {u1}
================================================================================
