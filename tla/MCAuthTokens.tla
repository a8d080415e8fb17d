----------------------------- MODULE MCAuthTokens -----------------------------
(* Two concurrent requests and a few tokens.                                 *)
EXTENDS AuthTokens, TLC

CONSTANTS q1, q2

MCRequests == {q1, q2}
MCSymmetry == Permutations(MCRequests)
===============================================================================
