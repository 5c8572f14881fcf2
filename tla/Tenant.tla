------------------------------- MODULE Tenant -------------------------------
(***************************************************************************)
(* What every component of the month-end close of ONE tenant shares: its   *)
(* entities, the calendar of accounting periods and the states a period    *)
(* goes through.                                                           *)
(*                                                                         *)
(* A period_key 'YYYY-MM' is modelled by its position in a calendar of     *)
(* NumMonths consecutive months.  Dates are kept at the grain the code     *)
(* decides at: effective_from is the first day of a month, and effective_to*)
(* the first day of the month at which a version stops to apply, with      *)
(* Forever for the column default '9999-12-31'.                            *)
(***************************************************************************)
EXTENDS Integers, FiniteSets, Sequences

CONSTANTS Entities,    \* dim_entity rows of the tenant
          NumMonths,   \* length of the modelled calendar
          Accounts     \* source_record_id values of dim_account

ASSUME EntitiesAssumption == IsFiniteSet(Entities)
ASSUME NumMonthsAssumption == NumMonths \in Nat \ {0}

Months == 1..NumMonths
Forever == NumMonths + 1

\* The natural key of period_lock, exception and reconciliation_run rows.
Cells == Entities \X Months

\* STATES without "open", which is the absence of a period_lock row.
Stored == {"validated", "mapped", "reconciled", "locked", "restated"}
STATES == {"open"} \cup Stored

\* The diagram as data: the state each transition must find the period in.
Predecessor == [ validated  |-> "open",
                 mapped     |-> "validated",
                 reconciled |-> "mapped",
                 locked     |-> "reconciled",
                 restated   |-> "locked" ]
=============================================================================
