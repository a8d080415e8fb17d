--------------------------- MODULE MCRotationAdvisor ---------------------------
(***************************************************************************)
(* The rotation advisor over all forty tables: one enemy, two or three,    *)
(* and a pool that is empty, holds a little, or is full.                   *)
(***************************************************************************)
EXTENDS RotationAdvisor, RotationProfiles

\* No shipped ability waits for a buff to end: no table uses the
\* avoid_if_buffs that the engine understands.
ASSUME ShippedAvoidsNothing == NothingIsAvoided

MCTargets == {1, 2, 3}
MCPools == {0, 20, 100}
===============================================================================
