------------------------------ MODULE MCSyncJobs ------------------------------
(***************************************************************************)
(* Small instances of SyncJobs: one account whose roster has up to two     *)
(* characters, two workers, a bounded number of transactions.              *)
(***************************************************************************)
EXTENDS SyncJobs, TLC

CONSTANTS w1, w2, a1, c1, c2

MCWorkers  == {w1, w2}
MCAccounts == {a1}
MCChars    == {c1, c2}
MCCharsOf  == a1 :> {c1, c2}
MCOneChar  == {c1}
MCOneCharOf == a1 :> {c1}

\* The two workers are interchangeable.
MCSymmetry == Permutations({w1, w2})
===============================================================================
