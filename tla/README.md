# SPEQULA in TLA+

SPEQULA takes a company's general ledger month by month, maps its accounts to a
canonical chart, reconciles it, locks the month, produces a signed monthly pack
and answers questions about the numbers. This directory models the part of it
that decides things: what an upload leaves in the database, what state a month
is in, which mapping a statement is rendered with, what the statements add up
to, what a signature on a pack means, and which numbers an answer may show.
Paths below are those of the repository.

Contents: 1 the system, 2 the modules, 3 the runs, 4 the proofs, 5 what the code
does against its own documents, 6 what is not modelled.

## 1. The system

One PostgreSQL schema per tenant holds everything; a FastAPI server with one
process is the only writer. Every request gets a connection of its own at READ
COMMITTED (`src/api/deps/tenant.py`), commits at its end and, if it is refused,
closes without a commit. There are no background jobs. Handlers are plain
functions and run in the thread pool, so requests interleave statement by
statement. The upload is `async def`: once it has its file it keeps the event loop,
so two loads never overlap, but a load overlaps with everything already in the
pool, and the transactions of uploads do overlap: each is opened when the tenant
is resolved, before the file has come, and its `now()` is that moment.

| component | state | operations | modelled |
|---|---|---|---|
| staging, templates (`src/ingest/staging.py`, `templates.py`, `hashing.py`) | none | the rows of a file: refused, duplicate or staged with a key and a hash | partly: `Staging` |
| load pipeline, ledger (`src/ingest`) | fact tables, `dim_account`, `dim_location`, `dim_product`, `load_run` | the seven upload templates | `FactStreams`, `Ledger`, `MonthEndClose` |
| tokenisation (`src/ingest/tokenise.py`) | `token_map` | number the parties of a ledger | `FactStreams` |
| backdated entries (`src/ingest/repull.py`) | none | the as-reported reading | partly: `FactStreams` |
| exception queue (`src/quality/exception_queue.py`) | `exception`, append-only, versioned by `root_exception_id` | raise, resolve | `ExceptionQueue`, `MonthEndClose` |
| mapping versions (`src/mapping`) | `mapping_version`, `map_account` | mapping run, freeze | `MappingVersions`, `MonthEndClose` |
| period state machine (`src/quality/period_state.py`) | `period_lock`, one row per transition | validate, map, reconcile, lock | partly: `PeriodState`, `PeriodMachine`, `PeriodRace` |
| trial balance, books-to-bank (`src/quality`) | `reconciliation_run` | check, record a run | partly: `Ledger`, `PeriodState` |
| period gate (`src/quality/period_gate.py`) | none | admit a month to a screen, a pack, an answer | `Reports`, `Ask` |
| statements and screens (`src/reports`) | none | P&L, balance sheet, cash flow, ladders, operating figures | `Statements`, `Reports` |
| pack and sign-off (`src/reports/pack.py`, `signoff.py`) | `report_artefact` | generate, edit the commentary, sign with or without override | partly: `Reports`, `PackSignoff` |
| edits per pack (`src/reports/edits.py`) | `pack_edit_event` | the trail, the count of corrections | `PackSignoff`, `Reports` |
| semantic layer and Ask (`src/semantic`) | `query_log` | answer a question through seven admission gates | partly: `Admission`, `Metrics`, `Ask` |
| configuration (`src/config`) | none | metric contracts, open decisions | partly: constants of `Metrics` |
| authentication, tenant resolution (`src/api/deps`) | none | one connection per request | partly: the sessions of `PeriodRace`, `PackSignoff`, `Reports` |
| migrations and seeds (`db`, `scripts`) | the seeded rows | placeholder version, channels | partly: initial states |
| forecasting, tenant lifecycle, access grants, backup rehearsal, landing store, mapping rules, document rendering, dashboards, synthetic data, web pages | see section 6 | | no |

What makes it hard, and what would make it correct:

* **Close and insert.** Every reload of a file compares key and content of its
  rows with the current ones, closes some and inserts others. Correct: one
  current row per key; what was known at a time, once the uploads begun by then
  have ended, can be read again for ever; the same file again changes nothing. Rows refer to stores, products and parties
  that other files bring, earlier or later.
* **A month's history.** Four different requests append to `period_lock`, each
  after checking the latest row. Correct: a period only takes the arrows of
  corpus/09 section 5, one at a time; it is validated only when its ledger ties
  and nothing blocking is open; it is never held back without an exception.
* **Which mapping applies.** A version has a window of dates, a freeze dates out
  the versions before it, the lock row records a version, statements resolve one
  by date. Correct: the three agree; no month loses its version; an approved
  version assigns every account.
* **Evidence.** RECONCILED needs a run of this period, this entity, this check
  and, through the lock row, this version. All checks share one table.
* **Figures from many reads.** A pack is some thirty statements, each on a
  snapshot of its own; two definitions of EBITDA stand side by side in it.
  Correct: the sheet balances whenever the mapping is complete, profit arrives in
  equity, the two EBITDAs agree where they claim the same thing, and a product is shown
  in a second unit only if that unit came after the check.
* **A signature.** Edit and sign each read a row, decide, and overwrite columns
  of it, while loads add exceptions. Correct: no wording is lost, an override is
  visible, a signed pack does not change.
* **An answer.** Eleven intents gate, compile and cite, each on its own path,
  whatever a language model asked for and whatever the SQL compiler emits.
  Correct: a number is of a month that may be read, rests on no open decision, on
  no truncated read, and every row cited is of a file named with it; what reaches the database
  is one capped, tenant-scoped SELECT on known tables.
* **Statements of several requests in between** each of the above.

`PROJECT.json` lists every such hazard at the line where it bites, with the
property that watches it or the reason why none does.

## 2. The modules

```
Tenant ── PeriodMachine                      the promise: one path of states
  │
  ├── Ledger ───────────┐
  ├── ExceptionQueue ───┤
  ├── MappingVersions ──┼── MonthEndClose    the close, one request = one step
  ├── PeriodState ──────┘        │ refines PeriodMachine
  │
  ├── Statements ── Reports                  screens and packs, read by read
  └── Metrics ───── Ask                      a question, statement by statement
        │
     Admission                               the seven gates
Staging ── FactStreams                       the uploads: opened, then loaded
PeriodRace                                   one period, one statement = one step
PackSignoff                                  the packs of one period
```

Theorems are in modules named `...Proofs`, which extend the module they are
about. `MonthEndCloseProofs` is also about `MappingVersions`, `AskProofs` about
`Metrics`, and `ReportsProofs` uses what `StatementsProofs` shows of sums and
layouts. The `MC...` modules give constants their values.

**Tenant**: entities, months, states and the `_PREDECESSOR` diagram. A
`period_key` is its position in a calendar. `effective_from` is always the first
of a month and every look-up asks for a month, so dates are kept as months;
`Forever` is the default `9999-12-31`.

**Staging**: what the seven `stage_*` functions make of a row. A cell is what
its parser makes of it (a date is plausible, missing, too early or too late; an
amount is blank, zero, positive, negative or unreadable), a row is refused or
gets its key, the columns `row_hash` covers and the written ones it does not.
`Duplicates` is what makes a second row of a file a duplicate.

**FactStreams**: the uploads of one tenant. A file is a template, a form (CSV or
workbook), a header and rows; `Take` is `run_upload` with the write function of
its template, `Block` the changed header, `Refuse` the workbook whose header is
not exact, `Fail` the row the database refuses. An upload is two steps. `Open`
is the first statement of its transaction (`resolve_tenant`) and takes the time
from the clock; from then on it is `pending`, because its file is awaited. The
other step is all the rest at once, since nothing of the handler is awaited after
that. `valid_from` and `valid_to` are `now()`, the time of the `Open`: several
uploads may be pending, so rows may be written, and closed, in another order than
that of their times. `Abandon` is an upload that ends without a load.

**Ledger**: `facts[e][l]`, the current row of voucher line `l`. The key has no
date, so `WriteGlRows` can move a line to another month, as a reload does. A
file is any non-empty set of lines with a month and an amount. The row-hash
index without the entity is `HashClash`; the trial balance over all entities is
`TrialBalance`.

**ExceptionQueue**: an exception is the sequence of its versions. `Raised` never
merges, `ResolveException` accepts any current status, `OpenBlocking` is the
query of both gates.

**MappingVersions**: per entity a sequence of versions, the first being the
seeded placeholder. `CreateMappingRun` gives a row to every account of the
moment; whether coverage reaches 98 percent is free, except that without
accounts it is 1. `FreezeGate` and `Frozen` are the gate and the UPDATEs of
`freeze_mapping_version`; `Governing` is the look-up. Two versions may have the
same date, a version may be frozen out of order and frozen again: nothing in the
code forbids it.

**PeriodState**: lock rows and reconciliation runs, and the three transitions of
`routes/periods.py`.

**MonthEndClose** composes the four. An action is one route of the API from its
first read to its commit, so `LoadGL` writes rows, creates accounts, records the
runs, raises the exceptions and validates what it may, and `Freeze` approves a
version and maps its periods. A refused request changes nothing and is simply
not enabled. The amounts of a reload are free, so every way of breaking and
mending a trial balance is covered.

**PeriodRace** takes the same transitions apart, for one period: first check,
evidence, second check (`_require_predecessor`), insert, commit or abort, by
several sessions. A row inserted takes its `lock_id` then and is visible when
its session commits; the row of an aborted one is "gone" and its number is not
used again. What a request decides outside the period (a trial balance that does
not tie, an open exception, the freeze gate) is an `Abort`. Freezes wait on each
other at `CloseOut`: `freeze_mapping_version` updates the rows of the entity's
accounts in `dim_account` before it looks at any period, the first freeze as well
as the later ones.

**PackSignoff**: a pack has the two parts requests change, section 2 and the
override in section 9, plus commentary, status, reviewer and what its hash was
taken over. The UPDATE and the commit of a request are one action (the row lock
keeps others off in between); its reads are separate actions before it.

**Statements**: the layouts as functions of class totals, raw (Dr positive)
until a layout applies its sign: both P&Ls, the balance sheet with its computed
retained earnings and its suspense line, the indirect cash flow, the ladder of
the order file with its residual, the operating figures, of each product and
unit and of the entity, with the mixed-unit check. Of the classes that share a line and a treatment one is kept.
`ClassTotals` is the query with its inner join, which drops an account the
version has no row of.

**Reports**: requests for screens and packs. A request is the list of reads of
its route (`Steps`, `PackSteps`; `Agenda` is that of the request under way, of
which the first `done` have been taken), each an action on what is committed
then; in between, `Others` commits an upload, a freeze, a reconcile or a lock.
`MetricMonths` are the months the headline comparatives compile, each once,
because of the memo. An answer keeps, beside what the route sends, what its reads
saw (`evidence`), and for the operating figures what output had been reported
when the request began, so that the properties can judge one by the other. Generation is not
serialised with anything in the code, but it only appends: one request at a
time against all commits of others shows the same answers.

**Admission**: the seven gates over what they can tell of a statement's text:
how many statements, which tables it names and which its caller declares, where
`tenant_id` and `LIMIT` stand.

**Metrics**: contracts, the decisions that govern a metric through all it
depends on, `validate_ir`, and the compiler. A contract has any number of
dependencies, and its formula is kept by what the compiler makes of it: of a
leaf, an expression of `gl_class` terms, one that mixes them with other tokens
(whose statements are sent and whose result is then refused) or none the
compiler knows (refused with no statement sent); of the rest, linear, a ratio,
or one it cannot evaluate. `Visit` is one call of `_compile_metric_cached`: the
decisions first, then the version of the month, then a leaf's two statements or
the dependencies in their order and, for dso, dpo and dio, the months of the
base, which an approved `metric_definition` may rename. `Compiled` is
`compile_metric` over `got`, the memo: it gives the result, or says which metric
and month is to be visited next. Only what is visited is read: nothing after a
dependency that failed, and of a base that an open decision governs nothing at
all, though its months count zero. `DepthAssumption` says that no chain of
dependencies is longer than `Depth`, which is to say that no metric is made of
itself.

**Ask**: `ask()` from the model's answer to the response. `Handler` gives each
intent's steps in order; `PassGate`, `RefuseMonth`, `Answer` and the rest carry them out one statement at
a time, with a load, a freeze or a transition of others in between. A compile
(`CompileStart`, `Continue`) alternates between `LookUp`, the version of the next
visit, and `ReadAmounts` and `ReadLoadRuns`, the two statements of a leaf, until
nothing is pending (`CompileEnd`) or a leaf is rejected (`RejectLeaf`). The language model
is any: every intermediate form of `Questions`, well-formed or not, may come
back. The compiler is one too: `Defects` are statements of a compiler gone
wrong, the case the gates exist for (`admission.py`: "to catch anything the
compiler itself might get wrong").

Definitions named `X_SomethingWrong`, with the comment "Faulty variant", are
wrong versions of `X`. They are used by nothing; putting one in the place of `X`
makes the property that `PROJECT.json` names fail, and so shows that the
property depends on that piece of code.

## 3. The runs

Run `tlc -workers 2 -config <cfg> <module>` in this directory.

| run | module, config | shows | bounds | states |
|---|---|---|---|---|
| close_one_entity | `MCMonthEndClose`, `MonthEndClose.cfg` | `ImplementsPeriodMachine`, `ValidationIsEarned`, `HeldOpenIsExplained`, `ReconciledOnItsOwnRun`, `MappedOnGoverningVersion` | 1 entity, 2 months, 2 lines, amounts -1 and 1, 2 mapping runs, 1 exception per period, 1 resolution | 619 000 |
| mapping_versions | `MCMappingVersions`, `MappingVersions.cfg` | `AtMostOneOpenEnded`, `FreezeKeepsCoverage`, `ApprovedCompletely` | 3 months, 2 accounts, 3 mapping runs | 63 000 |
| period_race | `PeriodRace`, `PeriodRace.cfg` | `NoStateSkipped`, `ValidatedOnce`, `EvidenceBeforeReconciled` | 3 sessions, 5 lock rows | 172 000 |
| pack_signoff | `PackSignoff`, `PackSignoff.cfg` | `NoWordingLost`, `SignedHoldsForLaterRequests`, `OverrideIsShown` | 2 sessions, 1 pack, 2 wordings, 2 edits, exceptions with and without an amount | 18 000 |
| fact_loads | `MCFactStreams`, `FactStreams.cfg` | `OneCurrentPerKey`, `SnapshotsSettle`, `ReloadChangesNothing`, `LocatedIfLandedBefore`, `UnitsStayComparable`, `TokensDistinct` | 2 entities, one with seeded channels, 17 files of the seven templates, 3 uploads, 2 pending at a time | 143 000 |
| ask | `MCAsk`, `Ask.cfg` | `NumbersOfReportableMonths`, `WhateverIsEmitted`, `RejectedLeafNeverRan`, `CitedRowsTraceable`, `NoNumberFromACutRead`, `BlockedStaysDark`, `EveryQuestionEnds` | 37 questions, 6 worlds, 2 months, 3 accounts, 22 metrics, window of 2, row cap of 3, 1 commit of others | 40 000 |
| reports | `MCReports`, `Reports.cfg` | `SheetBalancesWhenMapped`, `ProfitReachesEquity`, `HeadlineMatchesStatement`, `ShownMonthsReportable`, `SecondUnitOnlyIfNew`, `CorrectionsCounted` | 12 documents, 4 worlds, 2 months, 2 requests, 2 commits of others | 805 000 |
| prior_version, never_backwards, pack_hash, pack_final, payables_sign | see section 5 | violated, on purpose | the same or smaller | |

Each of the first seven also checks its module's type invariant.

Why the bounds are enough to be interesting.

* *The close.* Two lines with opposite amounts are the least that ties and the
  least that does not; with two months a line can leave one month untied and mend
  another. Three versions of an entity (the placeholder and two runs) let a
  freeze come before, after and again. In `mapping_versions`, where nothing else
  moves, three runs over three months give every order of dates and freezes in
  which one version can damage two others.
* *The race.* Five lock rows hold the full path and one duplicate; three sessions
  are two that race and one that passes by.
* *The packs.* Two edits and one signing are the least in which an edit is
  overtaken by both.
* *The uploads.* Three loads are an insert, a change and a change back, or a row,
  what it refers to, and the row again; two pending at a time are enough for a
  load to be written after one that began later, and to close what that one
  brought. The files repeat rows, change what
  `row_hash` covers and what it does not, name stores that have not landed, give
  an item two units, collide between the entities, and come with each kind of
  header.
* *Ask.* Between them the worlds have every status, a readable month before an
  unreadable one and after it, no version, one, or one per month, and accounts
  without rows; the questions have every
  intent, periods of every type, metrics that are leaves, of one, two
  and three dependencies, two levels deep, over a window, governed, with a base
  that is renamed or governed, and with formulas of every kind. One commit of others can fall between any two
  statements; the class count of one metric reaches the cap. A comparison over
  twelve months, and a prior month of the first one, reach before the calendar.
* *Reports.* The documents post to both sides of the sheet and above and below
  EBITDA, and bring what makes the layouts differ: an account that comes after
  the version, suspense, a class outside the layout, both order models, two units
  of one product and a product in another. Two requests are
  the least that make a correction; the second may follow an edit or commits.
  `April = 1` makes the two months one fiscal year.

`MaxExceptions`, `MaxResolutions`, `MaxVersions`, `MaxRows`, `MaxPacks`,
`MaxEdits`, `MaxLoads`, `MaxOpen`, `MaxRequests` and `MaxMoves` only cap what the code lets
grow; a request that would exceed one is not taken. `RowCap` and `Window` stand
for 10 000 rows and twelve months, `Depth` for the longest chain in the
registry. The proofs of section 4 depend on no bound.

Symmetry: `MCSymmetry` permutes voucher lines; each has an account of its own
which bears its name, and no definition singles one out. It is used with safety
and action properties only.

Fairness. `AskSpec` has `WF_askVars(Run)`: a question runs on a thread of its
own, at READ COMMITTED, and takes no lock, so its next statement always
returns. Under it `EveryQuestionEnds` says that whatever the intent, whatever
the gates reject and whatever else commits, there is one response; neither the
submission of a question nor the commits of others are fair. Nothing else is
fair anywhere and no other liveness is claimed: the close has no scheduler and no
retries, every step of it waits for somebody to press a button, and nothing
obliges them to.

Deadlock is checked in the close, the mapping versions, the race and the
packs. The uploads, the question and the reports come to an end after
`MaxLoads` uploads, one response or `MaxRequests` requests and `MaxMoves`
commits, and their configurations say so.

## 4. The proofs

`tlapm <module>.tla` checks them. They hold for any set of entities, any
calendar of at least one month, any accounts, lines and integer amounts, any
files and documents, any registry of metrics that does not go round in circles, with any number of
dependencies, any resolutions other than "open",
any number of requests in flight and any bounds, under the assumptions named in
`Tenant`, `Ledger`, `ExceptionQueue`, `PackSignoff`, `PeriodRace`,
`FactStreams`, `Reports`, `Metrics` and `Ask`. Every safety and action property
of the passing runs is a theorem; one has a hypothesis, said below.

* **PeriodMachineProofs**, `HistoryAlwaysPath`: in the abstract machine every
  history is a prefix of `Path`. An induction on steps: appending the target
  whose predecessor is the last state keeps it a prefix.
* **MonthEndCloseProofs**, `CloseTypeCorrect` and `OwnRunAlways`. The property
  `ReconciledOnItsOwnRun` speaks of versions "from MAPPED on", so it cannot be
  kept by a step without knowing where in the history "mapped" stands, that the
  lock row a transition copies its version from already carries an approved
  version, and that the run a reconcile finds was made under that version. The
  inductive invariant `CloseInv` adds exactly this: the statuses of a history
  are a prefix of the path, and every books-to-bank run of a period is of the
  version its second lock row has. `HasRun` in the code does not look at the
  version; the invariant is why it does not have to.
* The steps of the close, in the same module: `CloseImplementsPeriodMachine`,
  `ValidationAlwaysEarned`, `HeldOpenAlwaysExplained` and
  `MappedAlwaysOnGoverning`. `CloseSpec` implies `PM!Spec` under
  `StatusHistory`: each request either appends one state to the histories of
  some periods, all along one arrow, or leaves them alone. A load is the only
  request that books a line or inserts a first lock row; it leaves one of its
  months at OPEN only with an exception open in the queue it has just written,
  and the queue never shrinks. A freeze is the only request that maps, and only
  from the version's first month on, where after the close-out it governs alone.
  That the version assigns every booked account needs one more invariant,
  `BookedAccountsKnown`: the freeze gate compares with `dim_account`, and every
  load adds the accounts of its lines there.
* The mapping versions, at the head of that module because the close rests on
  them: `MappingTypeCorrect`, `OpenEndedAtMostOnce`, `FreezeAlwaysKeepsCoverage`
  and `AlwaysApprovedCompletely`. A freeze gives every other approved version an
  end inside the calendar, so none but its own stays open-ended. That no month
  loses its version needs more: the months the close-out takes from the others
  must be covered by the new version to the end, so a draft must never have been
  dated out itself (`DraftsOpenEnded`).
* **PeriodRaceProofs**, `RaceTypeCorrect`, `NoStateEverSkipped`,
  `ValidatedAtMostOnce` and `EvidenceAlwaysFirst`, for any number of requests.
  The argument is one of evidence that cannot go away: a committed row stays
  committed, so what the last read before an insert found is still there when
  the row is inserted, though it may no longer be the latest. `RaceInv` says
  what each request still holds (`FoundBefore`), to whom an undecided row
  belongs and that it is the target of that request's transition
  (`RowsAreOwned`), and that an upload is alone (`UploadsAlone`), without which
  `ValidatedOnce` would fail.
* **PackSignoffProofs**, `PackTypeCorrect`, `WordingNeverLost`,
  `SignedAlwaysHoldsForLaterRequests` and `OverrideAlwaysShown`. A request
  writes what it read some time ago, so whatever holds of a row must hold of
  every copy still held: `PackInv` says that rows and copies show recorded
  wordings only, that copies are drafts without an override, and that a request
  which has found something open has its reason.
* **FactStreamsProofs**, all seven properties of `fact_loads` for any files and
  any number of uploads, pending or loaded. `OneCurrentPerKey` follows from how
  `Written` splits the current rows by the keys of the file, of which the last
  row of a key is the only one. `SnapshotsAlwaysSettle` says when an as-reported
  reading may be relied on: once every upload begun by that time has ended. Until
  then one that is late may still write rows of an earlier `now()` than those
  already there. A load stamps whatever it inserts and closes with the time of its
  own `Open`, which for the pending ones is after the time in question. That a token's number is new needs
  `TokensCounted`: numbers never exceed the count they are drawn from. That the
  units shown stay comparable needs `UnitsDeclared`: an item with a current row
  has its declared unit, so a later file cannot set it for the first time. That
  the file before, uploaded again, changes nothing needs memory of how it ended:
  `LastLoadTold` says that a blocked file is still blocked, one rolled back
  fails again, and one that succeeded is `Settled`, every row of it current,
  every store, plant, unit and party of it known. `FilesAreFiles` (rows name
  what the sets of names hold) and `NamesAreNotBlank` are assumed.

* **StatementsProofs**: what the statements add up to, for any finite set of
  vouchers, any integer amounts and any classing of accounts. A total is a fold
  that takes the elements of a finite set in an order of its own choice, so the
  first part proves that a sum does not depend on the choice, can be split over
  disjoint sets and grouped by a function (`SumByGroup`). The induction it
  needs is one on sets: of the subsets for which a statement fails, some is
  smallest (`SmallestExists`). On these rest four theorems about the layouts.
  `SheetOfTiedEntries`: a sheet over vouchers that tie balances exactly when what
  they post to accounts without a row of the version nets to zero.
  `ProfitMovesRetained`: the profit of a month is what retained earnings move by
  between the sheets before and after it, but for the classes off the layout.
  `HeadlineAgrees`: the EBITDA of the registry is the EBITDA of either P&L when
  nothing stands on the classes the two treat differently; and
  `YearToDateAgrees` the same of any range of months, one summed by month, the
  other read at once. The last two say in which cases they may differ:
  `DifferentlyTreated` lists the classes.
* **ReportsProofs**, all seven properties of `reports`, for any documents,
  assignments, requests and number of commits of others. Each of them compares
  figures that were read apart, so the inductive invariant `ReportsInv` has to
  say what a request holds in the middle of its reads. `Assembling` does: for the
  first `done` steps of its agenda there is a result of the kind the step asks
  for, taken from a set of vouchers with the version that governed
  (`FromBooks`), and if nothing has been committed since the request began,
  it is what a read now would return. A month that passed the gate stays
  reportable, because the statuses only rise. `Showing` keeps what the answer
  on a screen was shown with. `Kept` is about packs: each
  is the function `SectionsOf` of its own reads, each ended before the next
  began, and two that nothing was committed between have the same numbers
  (`SameNumbers`); without the order of generations `CorrectionsCounted` could not
  be kept by a step. `Committed` and `Serving` are about the tables and the
  request. The figures then follow from `StatementsProofs`: a pack nothing was
  committed under is one set of vouchers under one version for each month.
* **AskProofs**, first part: `NumbersAlwaysReportable`, `OnlyAdmittedRuns`,
  `RejectedLeavesNeverRun` and `BlockedAlwaysDark`, for any registry, questions,
  worlds and pairs of statements a compiler may emit. `HandlersGuard` shows of
  each handler, as a sequence of steps, that every look at a month has a gate for
  that month before it: one that ends the answer, or the step just before, with
  which it is left out. The inductive invariant `AskInv` says this of what is
  left of the agenda (`Gated`), or that the month may be read already; a gate
  passed makes it so, and no commit of others takes it back, since every
  transition out of a reportable state leads to one. That neither half of a
  rejected leaf runs needs the request's memory between its two statements:
  while the second is awaited, both have been admitted (`MayRead`).
  `BlockedAlwaysDark` says more than the gate at the head of a compile does,
  because that one looks at dependencies only (`Closure`), and a base named by an
  override is none: the metrics a value reaches (`Reach`) include it. The proof
  goes over the levels of the compile (`VisitDark`): a metric that resolved is
  itself not governed, its dependencies all resolved, and of a base some month
  did, for else the denominator would be zero and there would be no number.
* **AskProofs**, second part: what a compile reads. `ReadsDecideResult` is about
  the compiler alone: once it waits for no further visit its result is final,
  whatever else may be read or be committed. The induction is on the depth of the
  chain of dependencies, which `DepthAssumption` ends; `ContractsAssumption` says
  only that dependencies and bases are metrics, and that what has a base is a
  ratio, as dso, dpo and dio are. `ReadInv` is kept
  together with `AskInv`: what has been looked up is of a metric and a month,
  nothing read had been cut short (`Whole`), and so of every result and number.
  From it `OneVersionPerVisit`: a compile keeps to the version it looked up for a
  metric and month, whatever freezes commit before it ends; two metrics of one
  compile may have looked up different ones. `AskTypes`; and
  `NoNumberFromACut`, which has the hypothesis `NoLimitOfItsOwn`: the compiler
  puts no LIMIT on the amounts of a leaf. A statement that has one is left as it
  is by gate 7 and its result is not taken for a cut one; `admission.py` says
  that "nothing the compiler emits carries a LIMIT of its own", and
  `leaf_amount_statements` has none. The gates are there for a compiler that
  goes wrong, and this is the one way of going wrong that they do not catch on
  behalf of the answer.
* **AskProofs**, third part: `CitedRowsAreTraceable`. The files of a citation are
  read one statement after its rows, under the same version; a row whose file is
  not among them has been superseded in between. `TraceInv` says so of
  what a compile has read, of its results and of the citation, with the one
  exception of a leaf between its two statements; for that one it says that the
  rows are of the classes and months the second statement selects by, so that
  each which is still current is found again. An upload may then supersede rows
  but gives the new ones a number of its own. `OweInv` is what makes the answer
  the result of a compile: the agenda of a cited intent ends in one, or in no
  answer.

Model-checked only: `EveryQuestionEnds`, because liveness under fairness and
`ENABLED` are beyond the prover, and the violations of section 5. Induction is
not: the library states it with an operator as parameter, which no backend can
instantiate, so the proofs do it on sets, by the least number or the smallest
set that fails. Not evaluated in any proof, only compared with itself:
`TrialBalance`, and the arithmetic of the ladder and the operating figures beyond
their units.

## 5. Where the code and its documents disagree

Each has a run of its own that ends in a counterexample.

* `PriorVersionForever` (prior_version): corpus/06 says a month "renders with
  the prior version forever". The close-out rewrites the end date of every
  approved version, and one that has been closed out stays approved. In the
  counterexample versions dated months 1, 1 and 2 are frozen in that order: the
  second closes the first out at month 1, and the third gives the first an
  end of month 2, so that it covers month 1 again beside the second.
* `NeverBackwards` (never_backwards): corpus/09 says a period "never moves
  backwards silently". Check and insert are two statements: of two reconciles that
  have both found the period mapped one commits, the period is locked, and the
  other inserts its row, which takes it from locked to reconciled. `NoStateSkipped` is what remains true.
* `HashProvesRender` (pack_hash): the migration says the hash "proves
  byte-identical re-render"; an edit takes the hash before it writes section 2.
* `SignedRowIsFinal` (pack_final): the module says nothing writes to a signed
  row; an edit begun before the signing does. `SignedHoldsForLaterRequests` is
  what remains.
* `PayablesGrowthIsASource` (payables_sign): `cashflow.py` says an increase in
  payables is positive, "applied without exception". The routes hand it raw
  balances, Cr negative, and the line comes out negative. The unit test hands it
  positive ones.

Stated in the modules and also violated, without a run of their own; to see
one, name it in the place of the properties of the configuration given.

* `LockedRendersForever` (`MonthEndClose.cfg`): corpus/09 says reports of a
  locked period "render against this snapshot forever". No reader uses
  `snapshot_at`, and a load into a locked month is accepted (OQ-009(a) leaves the
  state alone, not the facts).
* `PassedGateSigns` (`PackSignoff.cfg`): corpus/08 says a reviewer can override
  with a reason; over an exception with an amount, which the only production
  check raises, the request fails on serialising a Decimal.
* `NoUnbalancedSheetStored` (`Reports.cfg`): `balance_sheet.py` says of a sheet
  that does not balance that "the caller must not render it". The screen refuses
  it, the pack stores it.
* `OnlyNumbersAreCorrected` (`Reports.cfg`): `edits.py` says regenerating
  without a change to the numbers is not counted. The cover carries the
  reconciliation status, so a generation after the month is locked is.
* `CitationDescribesItsRows` (`Ask.cfg`): the compiler says the source files
  "must describe only the rows that produced THIS metric's value". Amounts and
  load runs are two statements; a load between them is in the second only.
  `CitedRowsTraceable` is what remains.
* `BookedAtItsAmount` (`FactStreams.cfg`): `staging.py` says a row failing
  structural validity is quarantined, "not silently coerced". A negative debit
  passes and is booked at zero, because the amount is the debit only when that
  is above zero and else the credit.
* `CorrectionLands` (`FactStreams.cfg`): `hashing.py` says the hash drives change
  detection. It covers neither a ledger line's account name, which is its
  account where the code is blank, nor an order's settlement date: a file that
  corrects either changes nothing.

* `KnownWhileCurrent` (`FactStreams.cfg`): `repull.py` says "a row later closed
  and superseded still counts if it was current at the snapshot instant". An
  upload that opened first and loads last closes a row of the other with a
  `valid_to` before its `valid_from`: the row was current, and counts at no time.
  `SnapshotsSettle` is what remains.
* `RefusesMixedProducts` (`Reports.cfg`): the reason that
  `manufacturing_operating.py` gives is "has more than one unit of measure
  recorded this period -- per-unit metrics refuse to compute". The check is a
  statement before the rows; a unit that arrives between them is shown.
  `SecondUnitOnlyIfNew` is what remains.

Seen in the code and outside the models: `admission.py` says every rejection is
logged, and the Ask route never commits what it writes to `query_log`.

## 6. What is not modelled, and why

* `restate_period` and `restatement_notify` have no caller. `PeriodMachine` has
  their arrow; the close has no request for it. Most functions of `checks.py`
  have none either; the trial balance and the mixed-unit check do, and are
  modelled.
* The matching of books to bank: of `books_to_bank.py` the model keeps that a run
  was recorded, which is all that a transition reads.
* A freeze as its separate statements, within `MappingVersions`: it is one step
  there, and apart in `PeriodRace` for one period, without windows.
* Unzipping workbooks, the calendar rows, the landing store, the parsing of
  configuration files, mapping rules, the token matching of SQL text, document
  layout, the web pages: text handling, I/O or presentation. What each decides
  is kept: an unreadable cell, a file whose header does not fit, any class for an
  account, the facts of a statement's text.
* Of `validate_ir`, the grain, month format, basis and as-of checks; of a pack,
  the trends over twelve months and the chart specifications: they repeat reads and
  refusals that are modelled.
* `detect_repull_reason` words a difference for a report that no route produces;
  the as-reported reading itself is `AsKnown`.
* Token verification is the identity provider's.
* Forecasting: a projection over statements, saved as an append-only run that
  nothing of the close reads; its arithmetic is decimal division and growth
  rates, which integers do not represent.
* Tenant lifecycle: creates and drops schemas. What a deletion does to requests
  in flight is an abort like any other. Access grants: three single-statement
  functions that no route calls. Backup rehearsal: an operator's script on
  which no state depends.
* Dashboards change nothing, and the reads behind them are those of `Ask` and
  `Reports`. Applying migrations is operations; synthetic data is test data.
