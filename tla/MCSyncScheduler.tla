--------------------------- MODULE MCSyncScheduler ----------------------------
(* Two replicas and up to three accounts, the failing ones first.           *)
EXTENDS SyncScheduler

CONSTANTS r1, r2, a1, a2, a3

MCReplicas == {r1, r2}
MCLinkable == {a1, a2, a3}
MCFailing  == {a1}
===============================================================================
