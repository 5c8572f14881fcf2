------------------------- MODULE MCMappingVersions --------------------------
(* A small instance of MappingVersions for TLC: three months to date *)
(* versions from, the placeholder and three mapping runs.            *)
EXTENDS MappingVersions

MCEntities == {"e1"}
MCAccounts == {"sales", "debtors"}
=============================================================================
