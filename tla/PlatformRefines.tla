--------------------------- MODULE PlatformRefines ---------------------------
(***************************************************************************)
(* The platform implements the consortium: what is stored is the state of  *)
(* the abstract service, an operation happens when its bundle commits, and *)
(* everything else a process does (operations in memory, refused commits,  *)
(* reloads, crashes) is a stutter.                                         *)
(***************************************************************************)
EXTENDS PlatformProperties

Service == INSTANCE Consortium WITH
    Ids      <- 1..MaxOps,
    Prices   <- Epsilons,
    registry <- db.orgs,
    policies <- db.policies,
    account  <- db.budget,
    rounds   <- db.rounds,
    log      <- db.audit

\* Processes that race, conflict, reload and die act as one service: each
\* commit is one operation on the members, consents, budget, rounds and log
\* that are stored at that instant, whatever its process had read before.
ActsAsOne == Service!Spec
=============================================================================
