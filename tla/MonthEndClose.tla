---------------------------- MODULE MonthEndClose ----------------------------
(***************************************************************************)
(* The month-end close of one tenant: the ledger, the exception queue, the *)
(* mapping versions and the period locks, driven by the API requests that  *)
(* change them.  One action is one request, from its first read to its     *)
(* commit; a request the code refuses (422, rolled back) is an action that *)
(* is not enabled.  What concurrent requests do to each other is the       *)
(* subject of PeriodRace.                                                  *)
(***************************************************************************)
EXTENDS Ledger, ExceptionQueue, MappingVersions, PeriodState

CONSTANTS MaxExceptions,   \* bound: exceptions raised for one (entity, period)
          MaxResolutions   \* bound: resolutions of one exception

closeVars == <<facts, exceptions, accounts, versions, locks, runs>>

CloseTypeOK ==
  LedgerTypeOK /\ ExceptionsTypeOK /\ MappingTypeOK /\ PeriodTypeOK

CloseInit == LedgerInit /\ ExceptionsInit /\ MappingInit /\ PeriodInit

-----------------------------------------------------------------------------
(* POST /upload, template GL: write the rows, check the trial balance of   *)
(* every month of the file against the ledger as it now stands, raise an   *)
(* exception for each that does not tie, and only then try to validate.    *)

\* The periods of a file whose trial balance does not tie.
Broken(f, touched) == { c \in touched : ~Balanced(f, c[2]) }

\* Faulty variant: a period that has a lock row is validated again.
Validatable_Again(q, touched) == { c \in touched : OpenBlocking(q, c) = {} }

\* _validate_loaded_periods: no lock row yet, no blocking exception open.
Validatable(q, touched) ==
  { c \in touched : locks[c] = <<>> /\ OpenBlocking(q, c) = {} }

\* Faulty variant: the gate runs before the exceptions are written.
QueueAtValidation_TooEarly(raised) == exceptions

\* The queue the validation gate reads: this load's own exceptions are in it.
QueueAtValidation(raised) == Raised(raised)

\* Faulty variant: a check type no reader knows.
TrialBalanceRun_Mislabelled == [check |-> "tb", version |-> PlaceholderId]

\* as_reconciliation_result, written under the placeholder version.
TrialBalanceRun == [check |-> "trial_balance", version |-> PlaceholderId]

LoadGL(e, file) ==
  LET f       == WriteGlRows(e, file)
      touched == {e} \X PeriodsOf(file)
      broken  == Broken(f, touched)
  IN  /\ ~HashClash(e, file)
      /\ \A c \in broken : Len(exceptions[c]) < MaxExceptions
      /\ facts' = f
      /\ AddAccounts(e, AccountsOf(file))
      /\ exceptions' = Raised(broken)
      /\ runs' = [c \in Cells |-> IF c \in touched THEN runs[c] \cup {TrialBalanceRun}
                                                   ELSE runs[c]]
      /\ locks' = Inserted(Validatable(QueueAtValidation(broken), touched),
                           "validated", PlaceholderId)
      /\ UNCHANGED versions

\* POST /upload, template COA.
LoadCOA(e, S) ==
  /\ AddAccounts(e, S)
  /\ UNCHANGED <<facts, exceptions, versions, locks, runs>>

\* POST /exceptions/{id}/resolve.
Resolve(c, i, resolution) ==
  /\ i \in DOMAIN exceptions[c]
  /\ Len(exceptions[c][i]) =< MaxResolutions
  /\ ResolveException(c, i, resolution)
  /\ UNCHANGED <<facts, accounts, versions, locks, runs>>

\* POST /mapping/runs.
CreateRun(e, from) ==
  /\ CreateMappingRun(e, from)
  /\ UNCHANGED <<facts, exceptions, locks, runs>>

\* Faulty variant: every validated period is mapped, whatever its date.
Mappable_AnyMonth(e, version) ==
  { c \in {e} \X Months : HasFacts(facts, e, c[2]) /\ Status(c) = "validated" }

\* map_periods_for_mapping_version: the periods with facts inside the
\* version's own window, of which only the validated ones move.
Mappable(e, version) ==
  { c \in {e} \X Months : /\ version.from =< c[2] /\ c[2] < version.to
                          /\ HasFacts(facts, e, c[2])
                          /\ Status(c) = "validated" }

\* POST /mapping/runs/{id}/freeze: the freeze and the periods it maps commit
\* together.
Freeze(e, v) ==
  /\ FreezeMappingVersion(e, v)
  /\ locks' = Inserted(Mappable(e, Frozen(e, v)[v]), "mapped", v)
  /\ UNCHANGED <<facts, exceptions, runs>>

\* POST /periods/{key}/reconciliation-run, /reconcile and /lock.
RunBooksToBank(c) ==
  /\ ReconciliationRun(c)
  /\ UNCHANGED <<facts, exceptions, accounts, versions>>

\* Faulty variant: reconciled on the version that governs the month now, not
\* on the one the period is mapped on.
Reconcile_OnGoverningVersion(c) ==
  /\ RequirePredecessor(c, "reconciled")
  /\ Balanced(facts, c[2])
  /\ HasRun(c, "books_to_bank")
  /\ \E v \in Governing(versions[c[1]], c[2]) : locks' = Inserted({c}, "reconciled", v)
  /\ UNCHANGED <<facts, exceptions, accounts, versions, runs>>

Reconcile(c) ==
  /\ ReconcilePeriod(c, Balanced(facts, c[2]))
  /\ UNCHANGED <<facts, exceptions, accounts, versions>>

Lock(c) ==
  /\ LockPeriod(c)
  /\ UNCHANGED <<facts, exceptions, accounts, versions>>

CloseNext ==
  \/ \E e \in Entities :
       \/ \E file \in Files : LoadGL(e, file)
       \/ \E S \in SUBSET Accounts \ {{}} : LoadCOA(e, S)
       \/ \E from \in Months : CreateRun(e, from)
       \/ \E v \in 1..MaxVersions : Freeze(e, v)
  \/ \E c \in Cells :
       \/ \E i \in 1..MaxExceptions, r \in Resolutions : Resolve(c, i, r)
       \/ RunBooksToBank(c)
       \/ Reconcile(c)
       \/ Lock(c)

CloseSpec == CloseInit /\ [][CloseNext]_closeVars

-----------------------------------------------------------------------------
(* The promise of the period state machine, and how the tables keep it:    *)
(* the history of a period is the status column of its lock rows.          *)

StatusHistory == [c \in Cells |-> [i \in DOMAIN locks[c] |-> locks[c][i].status]]

PM == INSTANCE PeriodMachine WITH history <- StatusHistory

\* Every request moves periods along the drawn arrows only, one arrow per
\* request, and never rewrites a lock row (period_state.py, _PREDECESSOR;
\* the OQ-009(a) skip of a period that already has a row).
ImplementsPeriodMachine == PM!Spec

\* A period enters VALIDATED only on a ledger that ties for its month and with
\* no blocking exception left open, the load's own included (the write-first
\* ordering load_gl_file depends on).
ValidationIsEarned ==
  [][ \A c \in Cells :
        locks[c] = <<>> /\ locks'[c] # <<>>
        => Balanced(facts', c[2]) /\ OpenBlocking(exceptions', c) = {} ]_closeVars

\* A period with booked lines is never held at OPEN silently: if it has no
\* lock row, an exception was raised for it (_validate_loaded_periods holds a
\* period only on a blocking exception, however lines moved between months).
HeldOpenIsExplained ==
  \A e \in Entities, m \in Months :
    HasFacts(facts, e, m) /\ locks[<<e, m>>] = <<>> => exceptions[<<e, m>>] # <<>>

\* From MAPPED on, a period stays on one approved version of the mapping, and
\* it is reconciled only on a books-to-bank run of its own made under exactly
\* that version (the run endpoint and both transitions carry the version off
\* the lock row; trial-balance runs share the table).
ReconciledOnItsOwnRun ==
  \A c \in Cells : \A i \in DOMAIN locks[c] :
    LET row == locks[c][i]
    IN  row.status # "validated" =>
          /\ row.version \in DOMAIN versions[c[1]]
          /\ versions[c[1]][row.version].status = "approved"
          /\ row.version = locks[c][2].version
          /\ row.status \in {"reconciled", "locked"} =>
               [check |-> "books_to_bank", version |-> row.version] \in runs[c]

\* A freeze maps a period only on the version that statements of that period
\* resolve to from then on, and that version assigns every account the
\* entity has booked in the period (freeze gate, mapping window and lock row
\* agree).
MappedOnGoverningVersion ==
  [][ \A e \in Entities, m \in Months :
        LET c == <<e, m>>
        IN  Len(locks'[c]) > Len(locks[c]) /\ locks'[c][Len(locks'[c])].status = "mapped"
            => LET v == locks'[c][Len(locks'[c])].version
               IN  /\ Governing(versions'[e], m) = {v}
                   /\ \A l \in LinesIn(facts, e, m) :
                        AccountOf[l] \in versions'[e][v].assigned ]_closeVars

-----------------------------------------------------------------------------
(* What the repository says and the code does not do.                      *)

\* What a statement of a period is computed from: the current lines of the
\* entity in that month and the versions that cover it now, whatever snapshot_at
\* and version the lock row pins.
Rendered(e, m) == [ lines |-> [l \in LinesIn(facts, e, m) |-> facts[e][l].amount],
                    by    |-> Governing(versions[e], m) ]

\* "Reports render against this snapshot forever": what a locked period
\* renders does not change any more.
LockedRendersForever ==
  [][ \A e \in Entities, m \in Months :
        Status(<<e, m>>) = "locked" => Rendered(e, m)' = Rendered(e, m) ]_closeVars
=============================================================================
