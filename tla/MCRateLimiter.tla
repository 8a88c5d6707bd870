---------------------------- MODULE MCRateLimiter ----------------------------
(***************************************************************************)
(* Two calls per three instants, asked for by three threads.               *)
(***************************************************************************)
EXTENDS RateLimiter, TLC

MCSymmetry == Permutations(Threads)
=============================================================================
