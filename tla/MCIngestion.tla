------------------------------ MODULE MCIngestion ------------------------------
(* Three runs over a source of three documents, flushed two at a time; the *)
(* limit of two runs is lower.                                             *)
EXTENDS Ingestion, TLC
CONSTANTS r1, r2, r3
MCDocs == 1 .. 3
MCRuns == {r1, r2, r3}
MCListed == r1 :> {1, 2, 3} @@ r2 :> {1, 2} @@ r3 :> {1}
===============================================================================
