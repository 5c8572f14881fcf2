------------------------------ MODULE Admission ------------------------------
(***************************************************************************)
(* The seven gates between a compiled statement and the database.  A       *)
(* statement is what the gates can tell of its text:                       *)
(*   parts       : statements in the submission                            *)
(*   reads       : opens with SELECT or WITH, and sqlparse's type is SELECT*)
(*   balanced    : parentheses, literals and comments left out             *)
(*   keyword     : a forbidden keyword among its code tokens               *)
(*   named       : tables the text names, Unresolved among them when what  *)
(*                 follows a FROM or a JOIN is no name                     *)
(*   declared    : tables the caller says it reads                         *)
(*   predicate   : where tenant_id stands: own, nested or nowhere          *)
(*   tenant      : bound, or the literal this or other                     *)
(*   limit       : own, nested or none                                     *)
(***************************************************************************)
EXTENDS Integers, Sequences, FiniteSets, FiniteSetsExt

CanonicalTables == { "fact_gl_entry", "fact_bank_txn", "dim_account", "dim_date", "dim_entity",
                     "map_account", "mapping_version", "period_lock", "reconciliation_run" }
ForbiddenTables == { "token_map", "audit_log", "load_run", "source_file", "exception",
                     "query_log", "tenant", "metric_definition" }
Unresolved == "?"

\* What the gates find in a text.
Text == [ parts : Nat, reads : BOOLEAN, balanced : BOOLEAN, keyword : BOOLEAN,
          named : SUBSET STRING, declared : SUBSET STRING,
          predicate : {"own", "nested", "nowhere"}, tenant : {"bound", "this", "other"},
          limit : {"own", "nested", "none"} ]

GateParse(s) == s.parts = 1 /\ s.reads /\ s.balanced
GateReadOnly(s) == s.reads /\ ~s.keyword

\* Faulty variant: the caller's list is checked, not the text.
GateTables_Declared(s) == s.declared \subseteq CanonicalTables

\* What the text names is canonical and declared, what is declared canonical.
GateTables(s) == s.named \subseteq s.declared /\ s.declared \subseteq CanonicalTables

\* Faulty variant: a tenant_id anywhere in the text will do.
GateTenant_Anywhere(s) == s.predicate # "nowhere"

\* In the WHERE clause of the statement itself; a literal must be this tenant.
GateTenant(s) == s.predicate = "own" /\ s.tenant # "other"

GatePii(s) ==
  /\ Unresolved \notin s.named
  /\ (s.named \cup s.declared) \cap ForbiddenTables = {}

\* ask() has no estimate to hand in, and none is never over the cap.
GateCost(estimate) == estimate # "over"

\* The first gate that rejects, by its place in the list, or 0.
Gates(s, estimate) ==
  << GateParse(s), GateReadOnly(s), GateTables(s), GateTenant(s), GatePii(s), GateCost(estimate) >>

Rejects(s, estimate) == { i \in 1 .. 6 : ~Gates(s, estimate)[i] }

Admitted(s, estimate) == Rejects(s, estimate) = {}
RejectingGate(s, estimate) ==
  << "parse", "read_only", "table_allowlist", "tenant_predicate", "pii_exclusion", "cost_estimate" >>
    [Min(Rejects(s, estimate))]

\* Faulty variant: a LIMIT of a subquery reads as the statement's.
Capped_AnyLimit(s) == IF s.limit # "none" THEN s ELSE [s EXCEPT !.limit = "own"]

\* Gate 7 rewrites and does not reject.
Capped(s) == IF s.limit = "own" THEN s ELSE [s EXCEPT !.limit = "own"]
=============================================================================
