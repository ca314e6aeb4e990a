---------------------------- MODULE MCRateLimiter ----------------------------
(* Instances of RateLimiter for TLC.                                          *)
EXTENDS RateLimiter, TLC

Alike == Permutations(Request) \cup Permutations(Process) \cup Permutations(Key)
=============================================================================
