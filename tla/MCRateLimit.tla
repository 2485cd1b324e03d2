---------------------------- MODULE MCRateLimit ----------------------------
(* RateLimit for TLC: the requests are interchangeable. *)
EXTENDS RateLimit, TLC

RequestSymmetry == Permutations(Requests)
=============================================================================
