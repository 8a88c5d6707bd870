----------------------------- MODULE MCMigrations -----------------------------
(***************************************************************************)
(* Three tables, the one index and the two columns of version 2;           *)
(* create_all goes by name, so that the version table comes last.          *)
(***************************************************************************)
EXTENDS Migrations

MCTables == <<"federated_rounds", "orgs", "schema_meta">>
MCColumns == <<"key_salt", "delta_used">>
MCHomeOf == [c \in {"key_salt", "delta_used", "ix_server_key"} |->
                IF c = "key_salt" THEN "orgs" ELSE "federated_rounds"]
===============================================================================
