---------------------------- MODULE KnowledgeIndex ----------------------------
(***************************************************************************)
(* What ingestion promises a reader of the index (src/backend/app/         *)
(* knowledge): a batch appears as a whole or not at all, every document    *)
(* with the chunks of its own content, and only content that its source    *)
(* has had.                                                                *)
(***************************************************************************)
EXTENDS Naturals

CONSTANTS Docs, MaxVersion

VARIABLES
  site,   \* the version of each document at its source
  index   \* the version of each document in the index, 0 for none

Versions == 0 .. MaxVersion

Init == site = [d \in Docs |-> 1] /\ index = [d \in Docs |-> 0]

Edit ==
  \E d \in Docs :
    /\ site[d] < MaxVersion
    /\ site' = [site EXCEPT ![d] = @ + 1]
    /\ UNCHANGED index

Publish ==
  /\ \E batch \in [Docs -> Versions] :
       /\ \A d \in Docs : batch[d] <= site[d]
       /\ index' = [d \in Docs |-> IF batch[d] = 0 THEN index[d] ELSE batch[d]]
  /\ UNCHANGED site

Next == Edit \/ Publish
Spec == Init /\ [][Next]_<<site, index>>
===============================================================================
