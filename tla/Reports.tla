------------------------------- MODULE Reports -------------------------------
(***************************************************************************)
(* The screens and the pack, assembled statement by statement while loads, *)
(* freezes and reconciliations of the same entity commit in between.  One  *)
(* request at a time, at READ COMMITTED: each of its statements reads what *)
(* is committed then.                                                      *)
(***************************************************************************)
EXTENDS Statements, SequencesExt

CONSTANTS Documents,   \* [document -> its rows], what uploads may bring
          Assignments, \* [Accounts -> class], what a freeze may assign
          Declared,    \* [product -> declared_uom]
          Worlds,      \* the states a first request may find
          Requests,    \* [kind, profile, from, to]
          April,       \* the position of an April, D-038
          MaxRequests, \* bound: requests
          MaxMoves     \* bound: commits of others

\* A document is [kind : voucher, order or output, month, ...]; the lines of
\* a voucher tie.
ASSUME DocumentsAssumption ==
  /\ IsFiniteSet(DOMAIN Documents)
  /\ \A d \in DOMAIN Documents :
       /\ Documents[d].month \in Months
       /\ Documents[d].kind = "voucher" =>
            LET lines == Documents[d].lines
            IN  /\ DOMAIN lines \subseteq Accounts /\ IsFiniteSet(DOMAIN lines)
                /\ \A a \in DOMAIN lines : lines[a] \in Int
                /\ SumFunction(lines) = 0

ASSUME AssignmentsAssumption == Assignments \subseteq [Accounts -> Taxonomy]

\* months_in_range refuses a range that ends before it starts.
ASSUME RequestsAssumption ==
  \A r \in Requests : /\ r.kind \in {"pnl", "sheet", "ladder", "operating", "pack"}
                      /\ r.from \in Months /\ r.to \in Months /\ r.from <= r.to

ASSUME BoundsAssumption == April \in Int /\ MaxRequests \in Nat /\ MaxMoves \in Nat

VARIABLES books,    \* SUBSET DOMAIN Documents: committed
          mapping,  \* [Months -> rows of the version that governs, empty for none]
          status,   \* [Months -> one of Levels]; nothing restates a month
          moves,    \* commits of others so far
          served,   \* requests so far
          req,      \* the request under way
          done,     \* its steps taken so far
          rows,     \* the version it looked up
          got,      \* [slot -> what it read]
          compiled, \* [month -> the metrics compiled for it], the memo of one pack
          shown,    \* the last answer
          packs     \* Seq(Pack), report_artefact in order of generation

others == <<books, mapping, status, moves>>
reportVars == <<others, served, req, done, rows, got, compiled, shown, packs>>

Levels == <<"open", "validated", "mapped", "reconciled", "locked">>
LevelOf(s) == CHOOSE i \in DOMAIN Levels : Levels[i] = s
Nothing == [k \in {} |-> 0]
NoRequest == [kind |-> "none", profile |-> "none", from |-> 1, to |-> 1, began |-> 0, found |-> {}]

ASSUME WorldsAssumption ==
  \A w \in Worlds : /\ w.books \subseteq DOMAIN Documents
                    /\ DOMAIN w.mapping = Months
                    /\ \A m \in Months : /\ DOMAIN w.mapping[m] \subseteq Accounts
                                         /\ w.mapping[m] \in [DOMAIN w.mapping[m] -> Taxonomy]
                    /\ w.status \in [Months -> ToSet(Levels)]

Booked(kind) == { Documents[d] : d \in { d \in books : Documents[d].kind = kind } }
Known == UNION { DOMAIN e.lines : e \in Booked("voucher") }

-----------------------------------------------------------------------------
(* What the others commit.                                                 *)

Upload ==
  \E d \in DOMAIN Documents \ books :
    /\ books' = books \cup {d}
    /\ status' = [status EXCEPT ![Documents[d].month] = IF @ = "open" /\ Documents[d].kind = "voucher"
                                                         THEN "validated" ELSE @]
    /\ UNCHANGED mapping

\* The rows are of the accounts known then; an account loaded later has none.
Freeze ==
  \E m \in Months, assigned \in Assignments :
    /\ mapping' = [k \in Months |-> IF k >= m THEN [a \in Known |-> assigned[a]] ELSE mapping[k]]
    /\ mapping' # mapping
    /\ status' = [k \in Months |-> IF k >= m /\ status[k] = "validated" THEN "mapped" ELSE status[k]]
    /\ UNCHANGED books

Reconcile ==
  \E m \in Months :
    /\ status[m] = "mapped"
    /\ status' = [status EXCEPT ![m] = "reconciled"]
    /\ UNCHANGED <<books, mapping>>

Lock ==
  \E m \in Months :
    /\ status[m] = "reconciled"
    /\ status' = [status EXCEPT ![m] = "locked"]
    /\ UNCHANGED <<books, mapping>>

Others ==
  /\ moves < MaxMoves
  /\ moves' = moves + 1
  /\ Upload \/ Freeze \/ Reconcile \/ Lock
  /\ UNCHANGED <<served, req, done, rows, got, compiled, shown, packs>>

-----------------------------------------------------------------------------
(* The requests, as the statements each runs in order.                     *)

Gate(m, needs) == [do |-> "gate", slot |-> needs, from |-> m, to |-> m]
LookUp(m) == [do |-> "version", slot |-> "none", from |-> m, to |-> m]
Read(slot, from, to) == [do |-> "read", slot |-> slot, from |-> from, to |-> to]
Rows(kind, from, to) == [do |-> "rows", slot |-> kind, from |-> from, to |-> to]
Metric(m) == [do |-> "metric", slot |-> "metric", from |-> m, to |-> m]
Cover(m) == [do |-> "cover", slot |-> "cover", from |-> m, to |-> m]

\* fiscal_year_start and the months of its year up to m, and
\* months_in_range.
FiscalYearStart(m) == m - ((m - April) % 12)
MonthsInRange(from, to) == [i \in 1 .. IF from <= to THEN to - from + 1 ELSE 0 |-> from + i - 1]

\* Faulty variant: only the last month of the range is gated.
GateAll_Last(from, to) == <<Gate(to, "mapped")>>

\* first_unreportable over months_in_range.
GateAll(from, to) == [i \in DOMAIN MonthsInRange(from, to) |-> Gate(MonthsInRange(from, to)[i], "mapped")]

\* The months compute_comparatives compiles a summed metric for, each once:
\* the month, the one before, the same of last year, then the rest of the two
\* years to date.  The memo has what was compiled before.
MetricMonths(m) ==
  <<m, m - 1, m - 12>> \o MonthsInRange(FiscalYearStart(m), m - 2)
                       \o MonthsInRange(FiscalYearStart(m - 12), m - 13)

\* Faulty variant: the prior sheet is drawn up at the start of the month.
PackSteps_SheetAtStart(m) ==
  << Gate(m, "reconciled"), LookUp(m),
     Read("pnl", m, m), Read("pnl_prior_month", m - 1, m - 1), Read("pnl_ytd", FiscalYearStart(m), m),
     Read("sheet", 1, m), Read("sheet_prior_month", 1, m - 2),
     Read("movements", m, m), Read("opening", 1, m - 1), Read("closing", 1, m) >>
  \o [i \in DOMAIN MetricMonths(m) |-> Metric(MetricMonths(m)[i])] \o <<Cover(m)>>

\* generate_pack.  The calendar begins less than a year back, so what it
\* reads of the prior year is empty and left out here.
PackSteps(m) ==
  << Gate(m, "reconciled"), LookUp(m),
     Read("pnl", m, m), Read("pnl_prior_month", m - 1, m - 1), Read("pnl_ytd", FiscalYearStart(m), m),
     Read("sheet", 1, m), Read("sheet_prior_month", 1, m - 1),
     Read("movements", m, m), Read("opening", 1, m - 1), Read("closing", 1, m) >>
  \o [i \in DOMAIN MetricMonths(m) |-> Metric(MetricMonths(m)[i])] \o <<Cover(m)>>

\* The routes.  The version is that of the range's last month throughout.
Steps(r) ==
  CASE r.kind = "pnl"       -> GateAll(r.from, r.to) \o <<LookUp(r.to), Read("pnl", r.from, r.to)>>
    [] r.kind = "sheet"     -> GateAll(r.to, r.to) \o <<LookUp(r.to), Read("sheet", 1, r.to)>>
    [] r.kind = "ladder"    -> GateAll(r.from, r.to) \o
                               << LookUp(r.to), Rows("order", r.from, r.to), Read("pnl", r.from, r.to),
                                  Rows("order_again", r.from, r.to), Read("movements", r.from, r.to) >>
    [] r.kind = "operating" -> GateAll(r.to, r.to) \o
                               <<LookUp(r.to), Rows("mixed", r.to, r.to), Rows("output", r.to, r.to),
                                 Read("movements", r.to, r.to)>>
    [] OTHER                -> PackSteps(r.to)

Request(r) ==
  /\ req = NoRequest /\ served < MaxRequests
  /\ served' = served + 1
  /\ req' = [ kind |-> r.kind, profile |-> r.profile, from |-> r.from, to |-> r.to, began |-> moves,
              found |-> { o \in Booked("output") : r.kind = "operating" /\ o.month = r.to } ]
  /\ done' = 0
  /\ rows' = Nothing /\ got' = Nothing /\ compiled' = Nothing /\ shown' = NoRequest
  /\ UNCHANGED <<others, packs>>

\* Faulty variant: the memo outlives its pack.
Finish_KeepsMemo ==
  req' = NoRequest /\ done' = 0 /\ rows' = Nothing /\ got' = Nothing /\ UNCHANGED compiled

Finish == req' = NoRequest /\ done' = 0 /\ rows' = Nothing /\ got' = Nothing /\ compiled' = Nothing

Agenda == Steps(req)
Step == Agenda[done + 1]
Goes(what) == req # NoRequest /\ done < Len(Agenda) /\ Step.do = what
Through == req # NoRequest /\ done = Len(Agenda)
\* f with a value at x, unless it has one.
Filled(f, x, value) == [y \in DOMAIN f \cup {x} |-> IF y \in DOMAIN f THEN f[y] ELSE value]

On == done' = done + 1 /\ UNCHANGED <<others, served, req, shown, packs>>

\* resolve_period_reportability and its refusal.
StatusOf(m) == IF m \in Months THEN status[m] ELSE "open"
Passes(step) == LevelOf(StatusOf(step.from)) >= LevelOf(step.slot)

PassGate == Goes("gate") /\ Passes(Step) /\ On /\ UNCHANGED <<rows, got, compiled>>

\* resolve_mapping_version_for_period; the lines the version classes.
LookUpVersion ==
  /\ Goes("version") /\ mapping[Step.from] # Nothing
  /\ rows' = mapping[Step.from]
  /\ On /\ UNCHANGED <<got, compiled>>

Refuse ==
  /\ \/ Goes("gate") /\ ~Passes(Step)
     \/ Goes("version") /\ mapping[Step.from] = Nothing
  /\ shown' = NoRequest /\ Finish
  /\ UNCHANGED <<others, served, packs>>

\* Those of a window of months; of: the vouchers in sight of the statement.
Within(kind, step) == { e \in Booked(kind) : e.month \in step.from .. step.to }

ReadTotals ==
  /\ Goes("read")
  /\ got' = Filled(got, Step.slot, [ totals |-> ClassTotals(Booked("voucher"), rows, Step.from, Step.to),
                                     of |-> Within("voucher", Step) ])
  /\ On /\ UNCHANGED <<rows, compiled>>

ReadRows ==
  /\ Goes("rows")
  /\ got' = Filled(got, Step.slot, CASE Step.slot = "mixed"  -> MixedUom(Within("output", Step), Declared)
                                     [] Step.slot = "output" -> Within("output", Step)
                                     [] OTHER                -> Within("order", Step))
  /\ On /\ UNCHANGED <<rows, compiled>>

\* compile_metric of ebitda and cash in a month, under the version of that
\* month; blocked where none governs.
Resolved(m) ==
  LET version == IF m \in Months THEN mapping[m] ELSE Nothing
      totals(from) == ClassTotals(Booked("voucher"), version, from, m)
  IN  IF version = Nothing THEN [status |-> "blocked", ebitda |-> 0, cash |-> 0]
      ELSE [status |-> "ok", ebitda |-> MetricEbitda(totals(m)), cash |-> At(totals(1), "cash_bank")]

CompileMetric ==
  /\ Goes("metric")
  /\ compiled' = Filled(compiled, Step.from, Resolved(Step.from))
  /\ On /\ UNCHANGED <<rows, got>>

\* The cover: the status of the month and the freshness of its sources.
ReadCover ==
  /\ Goes("cover")
  /\ got' = Filled(got, "cover", [status |-> status[Step.from], freshness |-> moves])
  /\ On /\ UNCHANGED <<rows, compiled>>

-----------------------------------------------------------------------------
(* The answers.                                                            *)

\* Faulty variant: the months that resolved are summed, the others skipped.
YearToDate_Skips(m) ==
  LET months == { k \in FiscalYearStart(m) .. m : compiled[k].status = "ok" }
  IN  [status |-> "ok", value |-> SumFunction([k \in months |-> compiled[k].ebitda])]

\* _sum_ytd: one month that does not resolve leaves no figure.
YearToDate(m) ==
  LET months == FiscalYearStart(m) .. m
  IN  IF \E k \in months : compiled[k].status # "ok" THEN [status |-> "blocked", value |-> 0]
      ELSE [status |-> "ok", value |-> SumFunction([k \in months |-> compiled[k].ebitda])]

\* The sections of a pack.  A sheet that does not balance is stored like one
\* that does, and so is the cash flow.
Assembled ==
  LET pnl(slot) == Pnl(req.profile, got[slot].totals)
  IN  [ kind |-> "pack", profile |-> req.profile, month |-> req.to, summary |-> "none",
        reconciliation_status |-> got["cover"].status, freshness |-> got["cover"].freshness,
        tile |-> compiled[req.to], tile_ytd |-> YearToDate(req.to),
        pnl |-> pnl("pnl"), pnl_prior_month |-> pnl("pnl_prior_month"), pnl_ytd |-> pnl("pnl_ytd"),
        sheet |-> Sheet(got["sheet"].totals), sheet_prior_month |-> Sheet(got["sheet_prior_month"].totals),
        cash_flow |-> CashFlow(got["opening"].totals, got["closing"].totals, got["movements"].totals, pnl("pnl").pbt),
        balanced |-> Sheet(got["sheet"].totals).balances ]

\* What a reader of the model needs to judge an answer by, and no route sends.
Evidence == [began |-> req.began, found |-> req.found, ended |-> moves, rows |-> rows, got |-> got, mapping |-> mapping]

Screen ==
  CASE req.kind = "pnl"    -> [pnl |-> Pnl(req.profile, got["pnl"].totals)]
    [] req.kind = "sheet"  -> [sheet |-> Sheet(got["sheet"].totals)]
    [] req.kind = "ladder" -> [ ladder |-> OrderLadder(got["order"], got["pnl"].totals),
                                residual |-> Residual(got["order_again"], got["movements"].totals) ]
    [] OTHER -> [ products |-> ProductOperating(got["output"], got["mixed"]),
                  entity |-> EntityOperating(got["output"], got["mixed"], got["movements"].totals) ]

\* GET /statements/balance-sheet answers 422 to one that does not balance.
Displayable == req.kind = "sheet" => Sheet(got["sheet"].totals).balances

AnswerScreen ==
  /\ Through /\ req.kind # "pack"
  /\ shown' = IF Displayable
              THEN [kind |-> req.kind, from |-> req.from, to |-> req.to, screen |-> Screen, evidence |-> Evidence]
              ELSE NoRequest
  /\ Finish
  /\ UNCHANGED <<others, served, packs>>

\* write_report_artefact.
Store ==
  /\ Through /\ req.kind = "pack"
  /\ packs' = Append(packs, [sections |-> Assembled, evidence |-> Evidence])
  /\ Finish
  /\ UNCHANGED <<others, served, shown>>

\* edit_commentary of the last pack; PackSignoff has it in full.
EditCommentary ==
  /\ packs # <<>> /\ Last(packs).sections.summary = "none"
  /\ packs' = [packs EXCEPT ![Len(packs)].sections.summary = "edited"]
  /\ UNCHANGED <<others, served, req, done, rows, got, compiled, shown>>

\* Faulty variant: the summary is taken for a number.
Stripped_WithSummary(sections) == [sections EXCEPT !.freshness = 0]

\* _strip_non_numeric.
Stripped(sections) == [sections EXCEPT !.summary = "none", !.freshness = 0]

\* The pack of the same month generated last before.
Regenerates(i, j) ==
  LET month(k) == packs[k].sections.month
  IN  j < i /\ month(j) = month(i) /\ \A k \in j + 1 .. i - 1 : month(k) # month(i)

\* pack_edits: a generation that differs from the one before it.
Corrections(m) ==
  { i \in DOMAIN packs : /\ packs[i].sections.month = m
                         /\ \E j \in DOMAIN packs : /\ Regenerates(i, j)
                                                    /\ Stripped(packs[i].sections) # Stripped(packs[j].sections) }

-----------------------------------------------------------------------------
ReportInit ==
  /\ \E w \in Worlds : books = w.books /\ mapping = w.mapping /\ status = w.status
  /\ moves = 0 /\ served = 0
  /\ req = NoRequest /\ done = 0 /\ rows = Nothing /\ got = Nothing /\ compiled = Nothing
  /\ shown = NoRequest /\ packs = <<>>

ReportNext ==
  \/ Others
  \/ \E r \in Requests : Request(r)
  \/ PassGate \/ LookUpVersion \/ Refuse
  \/ ReadTotals \/ ReadRows \/ CompileMetric \/ ReadCover
  \/ AnswerScreen \/ Store \/ EditCommentary

ReportSpec == ReportInit /\ [][ReportNext]_reportVars

-----------------------------------------------------------------------------
(* Properties.                                                             *)

\* Types: a request under way has read nothing it has still to read.
ReportsTypeOK ==
  /\ books \subseteq DOMAIN Documents
  /\ \A m \in Months : DOMAIN mapping[m] \subseteq Accounts
  /\ status \in [Months -> ToSet(Levels)]
  /\ moves \in 0 .. MaxMoves /\ served \in 0 .. MaxRequests
  /\ req = NoRequest => done = 0 /\ got = Nothing /\ compiled = Nothing
  /\ req # NoRequest => done \in 0 .. Len(Agenda)
  /\ \A i \in done + 1 .. Len(Agenda) : Agenda[i].do = "read" => Agenda[i].slot \notin DOMAIN got
  /\ \A i \in DOMAIN packs : packs[i].sections.kind = "pack"

\* What is posted in sight of a read to accounts its version has no row of.
LeftOut(evidence, slot) ==
  SumFunction([e \in evidence.got[slot].of |-> SumFunctionOnSet(e.lines, DOMAIN e.lines \ DOMAIN evidence.rows)])

\* compute_balance_sheet, "must balance": a sheet balances exactly when the
\* accounts the version leaves out net to zero, whatever classes the others
\* have, suspense and classes of no line included; and the balance-sheet
\* screen shows no other.
SheetBalancesWhenMapped ==
  /\ \A i \in DOMAIN packs :
       LET p == packs[i]
       IN  /\ p.sections.sheet.balances <=> LeftOut(p.evidence, "sheet") = 0
           /\ p.sections.sheet_prior_month.balances <=> LeftOut(p.evidence, "sheet_prior_month") = 0
  /\ shown.kind = "sheet" => LeftOut(shown.evidence, "sheet") = 0

Undisturbed(p) == p.evidence.began = p.evidence.ended

\* pnl.py against balance_sheet.py: in a pack nothing was committed under,
\* the profit of the month is what the computed retained earnings moved by
\* between its two sheets, but for the classes the layout does not show.
ProfitReachesEquity ==
  \A i \in DOMAIN packs :
    LET s == packs[i].sections
        movements == packs[i].evidence.got["movements"].totals
    IN  Undisturbed(packs[i]) =>
          s.sheet.retained - s.sheet_prior_month.retained
            = s.pnl.bottom - Of(movements, OffLayout(s.profile))

\* The headline tile and the statement are computed from two definitions of
\* EBITDA: they give one number when nothing moved on the classes the two
\* treat differently, for the month, and for the year to date when one
\* version governs all of it.
HeadlineMatchesStatement ==
  \A i \in DOMAIN packs :
    LET s == packs[i].sections
        evidence == packs[i].evidence
        agree(slot) == \A c \in DifferentlyTreated(s.profile) : At(evidence.got[slot].totals, c) = 0
    IN  Undisturbed(packs[i]) =>
          /\ agree("pnl") => s.tile.status = "ok" /\ s.tile.ebitda = s.pnl.ebitda
          /\ s.tile_ytd.status = "ok" =>
               LET year == FiscalYearStart(s.month) .. s.month
               IN  /\ \A m \in year : m \in Months /\ evidence.mapping[m] # Nothing
                   /\ agree("pnl_ytd") /\ (\A m \in year : evidence.mapping[m] = evidence.rows)
                        => s.tile_ytd.value = s.pnl_ytd.ebitda

\* corpus/09 section 5 in the routes and in generate_pack: every month a
\* screen adds up is at MAPPED or beyond, the month of a pack at RECONCILED,
\* whatever is committed while they are assembled.
ShownMonthsReportable ==
  /\ shown.kind \in {"pnl", "ladder"} => \A m \in shown.from .. shown.to : LevelOf(StatusOf(m)) >= LevelOf("mapped")
  /\ shown.kind \in {"sheet", "operating"} => LevelOf(StatusOf(shown.to)) >= LevelOf("mapped")
  /\ \A i \in DOMAIN packs : LevelOf(StatusOf(packs[i].sections.month)) >= LevelOf("reconciled")

\* D-041 under interleaving: the mixed-unit check runs a statement before
\* the production rows are read, and uploads commit in between.  A product
\* shown in another unit than its declared one had output in no such unit
\* when the request began: what the check could have seen, it refuses.
SecondUnitOnlyIfNew ==
  shown.kind = "operating" =>
    \A row \in shown.screen.products :
      row.status = "ok" /\ row.uom # Declared[row.product] =>
        \A o \in shown.evidence.found : o.product = row.product => o.uom = Declared[o.product]

\* corpus/02 section 8 in edits.py: a generation is a number correction if a
\* statement changed, and is none if nothing was committed since the one
\* before was begun, commentary edits and the clock apart.
CorrectionsCounted ==
  \A i, j \in DOMAIN packs :
    LET statements(k) == <<packs[k].sections.pnl, packs[k].sections.sheet, packs[k].sections.cash_flow>>
        corrected == i \in Corrections(packs[i].sections.month)
    IN  Regenerates(i, j) =>
          /\ packs[j].evidence.began = packs[i].evidence.ended /\ packs[j].sections.profile = packs[i].sections.profile
               => ~corrected
          /\ statements(i) # statements(j) => corrected

\* cashflow.py's docstring, "an increase in payables is a source of cash and
\* is positive. Applied without exception".  Does not hold.
PayablesGrowthIsASource ==
  \A i \in DOMAIN packs :
    LET owed(slot) == - At(packs[i].evidence.got[slot].totals, "trade_payable")
    IN  owed("closing") > owed("opening") => packs[i].sections.cash_flow.items["payables"] > 0

\* manufacturing_operating.py's reason, "has more than one unit of measure
\* recorded this period -- per-unit metrics refuse to compute".  Does not
\* hold of a unit that arrives between the check and the rows.
RefusesMixedProducts ==
  shown.kind = "operating" =>
    \A r, s \in shown.screen.products : r.status = "ok" /\ s.status = "ok" /\ r.product = s.product => r.uom = s.uom

\* balance_sheet.py's docstring, "the caller must not render it".  Does not
\* hold of a pack.
NoUnbalancedSheetStored == \A i \in DOMAIN packs : packs[i].sections.sheet.balances

\* edits.py's docstring, "regenerating with no change to the numbers is not a
\* correction and is not counted".  Does not hold: locking the month is one.
OnlyNumbersAreCorrected ==
  \A i, j \in DOMAIN packs :
    LET numbers(k) == [packs[k].sections EXCEPT !.summary = "none", !.freshness = 0, !.reconciliation_status = "none"]
    IN  Regenerates(i, j) /\ i \in Corrections(packs[i].sections.month) => numbers(i) # numbers(j)
=============================================================================
