----------------------------- MODULE PeriodState -----------------------------
(***************************************************************************)
(* period_lock and reconciliation_run, and the transitions of a period.    *)
(* Every transition inserts a period_lock row; the current state of a      *)
(* period is its latest row's, and no row at all is "open".                *)
(***************************************************************************)
EXTENDS Tenant

VARIABLES locks,       \* [Cells -> Seq(LockRow)], oldest row first
          runs         \* [Cells -> SUBSET Run]

periodVars == <<locks, runs>>

\* version is the mapping_version_id of the entity.
LockRow == [status : Stored, version : Nat]
Run == [check : {"trial_balance", "books_to_bank"}, version : Nat]

PeriodTypeOK ==
  /\ locks \in [Cells -> Seq(LockRow)]
  /\ runs \in [Cells -> SUBSET Run]

PeriodInit ==
  /\ locks = [c \in Cells |-> <<>>]
  /\ runs = [c \in Cells |-> {}]

-----------------------------------------------------------------------------
\* get_current_period_lock and the convention that no row reads "open".
CurrentLock(c) == locks[c][Len(locks[c])]
Status(c) == IF locks[c] = <<>> THEN "open" ELSE CurrentLock(c).status

\* _require_predecessor.
RequirePredecessor(c, target) == Status(c) = Predecessor[target]

\* _insert, of one row for every cell of S.
Inserted(S, target, version) ==
  [c \in Cells |-> IF c \in S
                   THEN Append(locks[c], [status |-> target, version |-> version])
                   ELSE locks[c]]

\* Faulty variant: any run of the period will do.
HasRun_OfAnyCheck(c, check) == runs[c] # {}

\* latest_reconciliation_run_id of a check: whether there is one.
HasRun(c, check) == \E r \in runs[c] : r.check = check

-----------------------------------------------------------------------------
\* POST /periods/{key}/reconciliation-run: only from mapped, under the
\* version the period is mapped on.  A run moves no period.
ReconciliationRun(c) ==
  /\ Status(c) = "mapped"
  /\ runs' = [runs EXCEPT ![c] = @ \cup
                {[check |-> "books_to_bank", version |-> CurrentLock(c).version]}]
  /\ UNCHANGED locks

\* reconcile_period_from_current_checks, given what the trial balance says.
ReconcilePeriod(c, balanced) ==
  /\ RequirePredecessor(c, "reconciled")
  /\ balanced
  /\ HasRun(c, "books_to_bank")
  /\ locks' = Inserted({c}, "reconciled", CurrentLock(c).version)
  /\ UNCHANGED runs

\* lock_period_from_current_state.
LockPeriod(c) ==
  /\ RequirePredecessor(c, "locked")
  /\ locks' = Inserted({c}, "locked", CurrentLock(c).version)
  /\ UNCHANGED runs
=============================================================================
