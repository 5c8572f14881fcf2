------------------------------- MODULE Ledger -------------------------------
(***************************************************************************)
(* The current rows of fact_gl_entry, as the load pipeline writes them and *)
(* the checks read them.                                                   *)
(*                                                                         *)
(* The key of a current row is source_record_id = voucher_no#line_no; the  *)
(* month is NOT part of it, so reloading a voucher under another date      *)
(* moves the line out of the month it was booked in.  Superseded rows      *)
(* (is_current = false) are read by nothing modelled here and are dropped. *)
(***************************************************************************)
EXTENDS Tenant, FiniteSetsExt

CONSTANTS Lines,       \* voucher_no#line_no values
          Amounts,     \* amount_base of a line, Dr positive, Cr negative
          AccountOf    \* the account a voucher line posts to

ASSUME AmountsAssumption == Amounts \subseteq Int
ASSUME AccountOfAssumption == AccountOf \in [Lines -> Accounts]

VARIABLE facts         \* [Entities -> [Lines -> Row]]

\* The absence of a current row for a line.
NoRow == [month |-> 0, amount |-> 0]
BookedRow == [month : Months, amount : Amounts]
Row == BookedRow \cup {NoRow}

LedgerTypeOK == facts \in [Entities -> [Lines -> Row]]

LedgerInit == facts = [e \in Entities |-> [l \in Lines |-> NoRow]]

\* What stage_gl lets through of one upload: at most one row per line.
Files == UNION { [L -> BookedRow] : L \in SUBSET Lines \ {{}} }

\* Faulty variant: only the latest month of the file counts as touched.
PeriodsOf_LatestOnly(file) == { Max({ file[l].month : l \in DOMAIN file }) }

\* periods_touched: the months of the file's own valid rows.
PeriodsOf(file) == { file[l].month : l \in DOMAIN file }

\* ux_gl_row_hash_current is unique over (tenant_id, row_hash) and row_hash
\* covers no entity: a row equal to another entity's current row is refused
\* by the database and the whole load fails.
HashClash(e, file) ==
  \E l \in DOMAIN file, d \in Entities \ {e} : facts[d][l] = file[l]

\* facts after write_gl_rows: an equal row is left alone, a changed one is
\* closed and re-inserted, a line the file leaves out stays current.
WriteGlRows(e, file) ==
  [facts EXCEPT ![e] = [l \in Lines |-> IF l \in DOMAIN file THEN file[l]
                                                             ELSE facts[e][l]]]

AccountsOf(file) == { AccountOf[l] : l \in DOMAIN file }

\* check_trial_balance: the net of every current row of the period.  The
\* query filters on tenant and period, not on entity.
TrialBalance(f, m) ==
  MapThenSumSet(LAMBDA k : f[k[1]][k[2]].amount,
                { k \in Entities \X Lines : f[k[1]][k[2]].month = m })

\* evaluate_balances at zero tolerance (D-051).
Balanced(f, m) == TrialBalance(f, m) = 0

\* Lines of an entity booked in a month, and whether there is one: the test
\* behind _periods_with_facts_in_range.
LinesIn(f, e, m) == { l \in Lines : f[e][l].month = m }
HasFacts(f, e, m) == LinesIn(f, e, m) # {}
=============================================================================
