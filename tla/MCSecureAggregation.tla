-------------------------- MODULE MCSecureAggregation -------------------------
(***************************************************************************)
(* Rounds of three clients; the updates are chosen so that no two sums of  *)
(* one update per client agree.                                            *)
(***************************************************************************)
EXTENDS SecureAggregation

MCRoster == 1..3
=============================================================================
