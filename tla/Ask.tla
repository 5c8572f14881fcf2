--------------------------------- MODULE Ask ---------------------------------
(***************************************************************************)
(* One question on the Ask surface, statement by statement, in one READ    *)
(* COMMITTED transaction, while loads, freezes and period transitions of   *)
(* the same entity commit between its statements.                          *)
(*                                                                         *)
(* The model client is any: it returns an intent, and an IR or nothing.    *)
(***************************************************************************)
EXTENDS Metrics

CONSTANTS ClassOf,     \* [version -> [account -> class]], frozen mapping versions
          Worlds,      \* the states a question may find its entity in
          Questions,   \* what the model client may make of a question
          Defects,     \* [leaf -> the pair of statements a faulty compiler emits]
          RowCap,      \* bound: ROW_CAP, 10 000 in the code
          MaxMoves     \* bound: commits of others while a question runs

ASSUME WorldsAreStates ==
  \A w \in Worlds : /\ w.status \in [Months -> STATES]
                    /\ w.governs \in [1 .. NumMonths + 1 -> DOMAIN ClassOf \cup {0}]
                    /\ DOMAIN w.written \subseteq Accounts \X Months
                    /\ \A k \in DOMAIN w.written : w.written[k] \in {1, 2}
ASSUME QuestionsHaveMonths ==
  \A q \in Questions : q.made = "ir" => q.intent \in Intents /\ q.period.from \in Int /\ q.period.to \in Int
ASSUME DefectsAreStatements ==
  \A x \in DOMAIN Defects : Defects[x][1] \in Text /\ Defects[x][2] \in Text
ASSUME MetricNames ==
  /\ "statement" \notin Known /\ NoMetric \notin Known
  /\ DOMAIN Defects \subseteq Known
  /\ "ebitda" \in Known => "gross_profit" \in Known /\ "opex" \in Known
ASSUME SizesAssumption == RowCap \in Nat \ {0} /\ MaxMoves \in Nat /\ IsFiniteSet(Accounts)

VARIABLES status,   \* [Months -> STATES]: period_lock's current rows
          governs,  \* [1 .. NumMonths + 1 -> version or 0]: what the first day of a month looks up
          ledger,   \* [Accounts \X Months -> Row]: the current ledger rows, load 0 for none
          moves,    \* commits of others so far
          pc,       \* idle, model, agenda, compile, amounts, runs, done
          ir, agenda,
          reading,  \* the leaf and month whose statements are under way, or <<>>
          got,      \* what the compile under way has read
          cells,    \* results so far, in order
          ran,      \* statements that reached the database through the gates
          response

world == <<status, governs, ledger, moves>>
request == <<pc, ir, agenda, reading, got, cells, ran, response>>
askVars == <<world, request>>

Versions == DOMAIN ClassOf
Reportable == {"mapped", "reconciled", "locked", "restated"}   \* STATEMENTS_REPORTABLE
NoCitation == [rows |-> {}, files |-> {}, version |-> 0]
NoResponse == [status |-> "none", numbers |-> {}, citation |-> NoCitation, why |-> "none"]
NoReads == [k \in {} |-> 0]
NoIr == [made |-> "none"]

-----------------------------------------------------------------------------
(* What the others commit.                                                 *)

\* A load writes some accounts of one month again: its rows take the place
\* of theirs.  The number of the load stands for its amounts; 1 and 2 are
\* those of the loads before the question.
Load ==
  \E m \in Months, S \in SUBSET Accounts \ {{}} :
    /\ ledger' = [k \in Accounts \X Months |->
                    IF k[1] \in S /\ k[2] = m THEN [load |-> moves + 3, amount |-> moves + 3]
                    ELSE ledger[k]]
    /\ UNCHANGED <<status, governs>>

\* A freeze governs from a month on and maps the validated months it covers.
Freeze ==
  \E v \in Versions, m \in Months :
    /\ v > Max({ governs[k] : k \in DOMAIN governs })
    /\ governs' = [k \in DOMAIN governs |-> IF k >= m THEN v ELSE governs[k]]
    /\ status' = [k \in Months |-> IF k >= m /\ status[k] = "validated" THEN "mapped" ELSE status[k]]
    /\ UNCHANGED ledger

\* A load's validation, a reconcile, a lock or a restatement.
Advance ==
  \E m \in Months, s \in Stored \ {"mapped"} :
    /\ status[m] = Predecessor[s]
    /\ status' = [status EXCEPT ![m] = s]
    /\ UNCHANGED <<governs, ledger>>

Others ==
  /\ pc # "idle" /\ pc # "done"
  /\ moves < MaxMoves
  /\ moves' = moves + 1
  /\ Load \/ Freeze \/ Advance
  /\ UNCHANGED request

-----------------------------------------------------------------------------
(* The statements.                                                         *)

Statement(tables) ==
  [ parts |-> 1, reads |-> TRUE, balanced |-> TRUE, keyword |-> FALSE, named |-> tables,
    declared |-> tables, predicate |-> "own", tenant |-> "bound", limit |-> "none" ]

LockStatement == Statement({"period_lock"})
ChecksStatement == Statement({"reconciliation_run"})
UnmappedStatement == Statement({"map_account"})

\* leaf_amount_statements: the amounts and the load runs of one scan.
LeafStatements(x) ==
  IF x \in DOMAIN Defects THEN Defects[x]
  ELSE LET scan == Statement({"fact_gl_entry", "dim_account", "map_account"}) IN <<scan, scan>>

\* What the gates hand back for it.
Sent(x, statement) == [of |-> x, text |-> Capped(statement)]

\* The rows of a leaf as the database holds them now, under a version.
Scan(x, m, v) ==
  { [account |-> k[1], month |-> k[2], load |-> ledger[k].load, amount |-> ledger[k].amount,
     class |-> ClassOf[v][k[1]]] :
      k \in { k \in Accounts \X Months :
                /\ ledger[k].load # 0
                /\ ClassOf[v][k[1]] \in { t[2] : t \in Contracts[x].terms }
                /\ IF Contracts[x].cumulative THEN k[2] <= m ELSE k[2] = m } }

\* Faulty variant: a result of exactly the cap is taken for a full one.
Truncated_Over(n) == n > RowCap

Truncated(n) == n >= RowCap

-----------------------------------------------------------------------------
(* The handlers, as what each does in order.  A step is [do, metric, month,*)
(* refuses]: an unreportable month refuses the answer, or is said in it.   *)

\* A month before the calendar was never loaded.
StatusOf(m) == IF m \in Months THEN status[m] ELSE "open"

Gate(m, refuses) == [do |-> "gate", metric |-> NoMetric, month |-> m, refuses |-> refuses]
Compile(x, m) == [do |-> "compile", metric |-> x, month |-> m, refuses |-> FALSE]
Step(what) == [do |-> what, metric |-> NoMetric, month |-> NumMonths, refuses |-> TRUE]

MetricValue(q) ==
  IF q.period.type # "month" THEN <<Step("crash")>>
  ELSE <<Gate(q.period.from, TRUE), Compile(q.metric, q.period.from), Step("check")>>

\* Faulty variant: the month compared with is not gated.
MetricComparison_Ungated(q) ==
  MetricValue(q) \o
  IF q.compare \in {"none", "ytd"} THEN <<Step("error")>>
  ELSE <<Compile(q.metric, Max({1, q.period.from - 1}))>>

MetricComparison(q) ==
  LET other == q.period.from - (IF q.compare = "yoy" THEN 12 ELSE 1)
  IN  MetricValue(q) \o
      IF q.compare \in {"none", "ytd"} THEN <<Step("error")>>
      ELSE <<Gate(other, FALSE), Compile(q.metric, other)>>

\* Two steps for each month of the range.
MetricTrend(q) ==
  IF q.period.type # "range" THEN <<Step("error")>>
  ELSE [i \in 1 .. 2 * (q.period.to - q.period.from + 1) |->
          IF i % 2 = 1 THEN Gate(q.period.from + (i - 1) \div 2, FALSE)
          ELSE Compile(q.metric, q.period.from + (i - 1) \div 2)]

\* The month first, then the dimension this build has not got.
MetricBreakdown(q) ==
  IF q.period.type = "month" /\ q.breakdown # {}
  THEN <<Gate(q.period.from, TRUE), Step("unavailable")>>
  ELSE MetricValue(q)

VarianceExplain(q) ==
  LET m == q.period.from
      pair(x) == <<Compile(x, m), Compile(x, m - 1)>>
  IN  IF q.metric \notin {"ebitda", "closing_cash"} THEN <<Step("unavailable")>>
      ELSE IF q.period.type # "month" THEN <<Step("crash")>>
      ELSE <<Gate(m, TRUE), Gate(m - 1, TRUE)>> \o pair(q.metric) \o <<Step("check")>> \o
           IF q.metric = "closing_cash" THEN <<Step("unavailable")>>
           ELSE pair("gross_profit") \o pair("opex") \o <<Step("check")>>

StatementView(q) ==
  CASE q.period.type = "none"  -> <<Step("error")>>
    [] q.period.type = "range" -> <<Step("unavailable")>>
    [] OTHER -> <<Gate(q.period.from, TRUE), [Step("statement") EXCEPT !.month = q.period.from]>>

DataHealth(q) ==
  CASE q.period.type = "none"  -> <<Step("unmapped")>>
    [] q.period.type = "range" -> <<Step("crash")>>
    [] OTHER -> <<Step("lock"), Step("checks")>>

Handler(q) ==
  CASE q.intent = "metric_value"      -> MetricValue(q)
    [] q.intent = "metric_comparison" -> MetricComparison(q)
    [] q.intent = "metric_trend"      -> MetricTrend(q)
    [] q.intent \in {"metric_breakdown", "metric_ranking"} -> MetricBreakdown(q)
    [] q.intent = "variance_explain"  -> VarianceExplain(q)
    [] q.intent = "statement_view"    -> StatementView(q)
    [] q.intent = "data_health"       -> DataHealth(q)
    [] q.intent = "definition_lookup" -> <<>>
    [] q.intent \in {"ageing", "concentration"} -> <<Step("unavailable")>>

-----------------------------------------------------------------------------
(* The request.                                                            *)

AskInit ==
  /\ \E w \in Worlds :
       /\ status = w.status /\ governs = w.governs
       /\ ledger = [k \in Accounts \X Months |->
                      IF k \in DOMAIN w.written THEN [load |-> w.written[k], amount |-> w.written[k]]
                      ELSE [load |-> 0, amount |-> 0]]
  /\ moves = 0
  /\ pc = "idle" /\ ir = NoIr /\ agenda = <<>> /\ reading = <<>> /\ got = NoReads
  /\ cells = <<>> /\ ran = {} /\ response = NoResponse

Respond(result, numbers, citation, why) ==
  /\ pc' = "done"
  /\ response' = [status |-> result, numbers |-> numbers, citation |-> citation, why |-> why]
  /\ agenda' = <<>> /\ reading' = <<>> /\ got' = NoReads /\ cells' = <<>>
  /\ UNCHANGED <<world, ir>>

RespondWith(result, why) == Respond(result, {}, NoCitation, why) /\ UNCHANGED ran

\* classify_intent, generate_ir, IRRequest, validate_ir.
Submit(q) ==
  /\ pc = "idle"
  /\ pc' = "model" /\ ir' = q
  /\ UNCHANGED <<world, agenda, reading, got, cells, ran, response>>

TurnAway ==
  /\ pc = "model"
  /\ \/ ir.made = "unsupported" /\ RespondWith("refused", "out_of_scope")
     \/ ir.made = "nothing" /\ RespondWith("error", "ambiguous")
     \/ ir.made = "misshapen" /\ RespondWith("rejected", "ambiguous")
     \/ ir.made = "ir" /\ ~ValidIr(ir) /\ RespondWith("rejected", "ambiguous")

Accept ==
  /\ pc = "model" /\ ir.made = "ir" /\ ValidIr(ir)
  /\ pc' = "agenda" /\ agenda' = Handler(ir)
  /\ UNCHANGED <<world, ir, reading, got, cells, ran, response>>

Doing(what) == pc = "agenda" /\ agenda # <<>> /\ Head(agenda).do = what
Here == Head(agenda)

\* Faulty variant: the month under way is taken up again.
Onward_Again(n, results) ==
  /\ agenda' = SubSeq(agenda, n, Len(agenda))
  /\ cells' = cells
  /\ UNCHANGED <<world, pc, ir, reading, got, response>>

Onward(n, results) ==
  /\ agenda' = SubSeq(agenda, n + 1, Len(agenda))
  /\ cells' = cells \o results
  /\ UNCHANGED <<world, pc, ir, reading, got, response>>

Cell(x, m, c) == [metric |-> x, month |-> m, status |-> c.status, value |-> c.value,
                  rows |-> c.rows, loads |-> c.loads]

\* resolve_period_reportability.  What a refusal quotes as unmapped is of the
\* version the first day of the next month looks up.
PassGate == Doing("gate") /\ StatusOf(Here.month) \in Reportable /\ Onward(1, <<>>) /\ UNCHANGED ran

RefuseMonth ==
  /\ Doing("gate") /\ StatusOf(Here.month) \notin Reportable
  /\ IF Here.refuses
     THEN /\ Respond("refused", {}, [NoCitation EXCEPT !.version = governs[Here.month + 1]], "period")
          /\ UNCHANGED ran
     ELSE /\ Onward(2, <<Cell(agenda[2].metric, Here.month, [Unresolvable EXCEPT !.status = "refused"])>>)
          /\ UNCHANGED ran

CompileStart ==
  /\ Doing("compile")
  /\ pc' = "compile" /\ got' = NoReads
  /\ UNCHANGED <<world, ir, agenda, reading, cells, ran, response>>

-----------------------------------------------------------------------------
(* A compile, visit by visit.                                              *)

Underway == Compiled(Here.metric, Here.month, got)

Rejected(x) == { i \in 1 .. 2 : ~Admitted(LeafStatements(x)[i], "none") }

\* resolve_mapping_version_for_period: each metric that is visited looks up
\* the version of its month for itself.
LookUp(c) ==
  /\ c.status = "pending"
  /\ LET next == c.next
         read == [version |-> governs[next[2]], rows |-> {}, loads |-> {}]
     IN  /\ got' = [k \in DOMAIN got \cup {next} |-> IF k = next THEN read ELSE got[k]]
         /\ IF Sends(next[1]) /\ read.version # 0 THEN pc' = "amounts" /\ reading' = next
            ELSE UNCHANGED <<pc, reading>>
  /\ UNCHANGED <<world, ir, agenda, cells, ran, response>>

CompileEnd(c) ==
  /\ c.status # "pending"
  /\ pc' = "agenda" /\ agenda' = Tail(agenda) /\ got' = NoReads
  /\ cells' = Append(cells, Cell(Here.metric, Here.month, c))
  /\ UNCHANGED <<world, ir, reading, ran, response>>

Continue == pc = "compile" /\ \E c \in {Underway} : LookUp(c) \/ CompileEnd(c)

\* Both statements of the leaf are admitted before either runs.
RejectLeaf ==
  /\ pc = "amounts" /\ Rejected(reading[1]) # {}
  /\ RespondWith("rejected", RejectingGate(LeafStatements(reading[1])[Min(Rejected(reading[1]))], "none"))

\* Faulty variant: the amounts are read before the second statement is admitted.
MayRead_First(x) == Admitted(LeafStatements(x)[1], "none")

MayRead(x) == Rejected(x) = {}

\* Faulty variant: each statement looks the version up for itself.
ClassedBy_Now(p) == governs[p[2]]

\* The version looked up is a parameter of both statements.
ClassedBy(p) == got[p].version

Cut(statement, n) == statement.limit # "own" /\ Truncated(n)

ReadAmounts ==
  /\ pc = "amounts" /\ MayRead(reading[1])
  /\ ran' = ran \cup {Sent(reading[1], LeafStatements(reading[1])[1])}
  /\ LET rows == Scan(reading[1], reading[2], ClassedBy(reading))
     IN  IF Cut(LeafStatements(reading[1])[1], Cardinality({ r.class : r \in rows }))
         THEN Respond("error", {}, NoCitation, "row_cap")
         ELSE /\ got' = [got EXCEPT ![reading].rows = rows]
              /\ pc' = "runs"
              /\ UNCHANGED <<world, ir, agenda, reading, cells, response>>

\* A statement later: what has committed since is in this one's result.
ReadLoadRuns ==
  /\ pc = "runs"
  /\ ran' = ran \cup {Sent(reading[1], LeafStatements(reading[1])[2])}
  /\ LET loads == { r.load : r \in Scan(reading[1], reading[2], ClassedBy(reading)) }
     IN  IF Cut(LeafStatements(reading[1])[2], Cardinality(loads))
         THEN Respond("error", {}, NoCitation, "row_cap")
         ELSE /\ got' = [got EXCEPT ![reading].loads = loads]
              /\ pc' = "compile" /\ reading' = <<>>
              /\ UNCHANGED <<world, ir, agenda, cells, response>>

-----------------------------------------------------------------------------
(* The other steps and the answer.                                         *)

Failed == { i \in DOMAIN cells : cells[i].status # "ok" }

\* Faulty variant: the compiler's own word goes out.
Undelivered_Raw(c) == c.status

Undelivered(c) == IF c.status = "blocked" THEN "blocked" ELSE "unavailable"

Check ==
  /\ Doing("check")
  /\ IF Failed = {} THEN Onward(1, <<>>) /\ UNCHANGED ran
     ELSE RespondWith(Undelivered(cells[Min(Failed)]), "decision")

GiveUp ==
  \E what \in {"unavailable", "error", "crash"} : Doing(what) /\ RespondWith(what, "handler")

\* get_current_period_lock and the reconciliation runs of the period.
ReadHealth ==
  \E what \in {"lock", "checks"} :
    /\ Doing(what)
    /\ ran' = ran \cup {Sent(NoMetric, IF what = "lock" THEN LockStatement ELSE ChecksStatement)}
    /\ Onward(1, <<>>)

\* Of the version that governs today, the last month of the calendar.
ReadUnmapped ==
  /\ Doing("unmapped")
  /\ IF governs[Here.month] = 0 THEN RespondWith("unavailable", "no_mapping")
     ELSE ran' = ran \cup {Sent(NoMetric, UnmappedStatement)} /\ Onward(1, <<>>)

\* No gate stands in front of the reads of a statement.
AssembleStatement ==
  /\ Doing("statement")
  /\ IF governs[Here.month] = 0 THEN RespondWith("unavailable", "no_mapping")
     ELSE Onward(1, <<Cell("statement", Here.month, [Unresolvable EXCEPT !.status = "ok"])>>) /\ UNCHANGED ran

Shown == { [metric |-> cells[i].metric, month |-> cells[i].month, value |-> cells[i].value, rows |-> cells[i].rows] :
             i \in { i \in DOMAIN cells : cells[i].status = "ok" } }

\* The change of EBITDA against those of gross profit and of opex.
BridgeAddsUp ==
  cells[1].value - cells[2].value =
    (cells[3].value - cells[4].value) - (cells[5].value - cells[6].value)

AnswerTrend ==
  LET compiled == { i \in DOMAIN cells : cells[i].status # "refused" }
  IN  CASE Shown # {}     -> Respond("ok", Shown, NoCitation, "series")
        [] compiled = {}  -> Respond("refused", {}, NoCitation, "series")
        [] OTHER          -> Respond(IF cells[Max(compiled)].status = "blocked" THEN "blocked" ELSE "ok",
                                     {}, NoCitation, "series")

\* build_citation: rows, and a file behind them.
Citable(c) == c.rows # {} /\ c.loads # {}

\* The version is looked up again for the citation's unmapped value.
AnswerCited ==
  IF Citable(cells[1])
  THEN Respond("ok", Shown, [rows |-> cells[1].rows, files |-> cells[1].loads,
                             version |-> governs[cells[1].month]], "cited")
  ELSE Respond("unavailable", {}, NoCitation, "not_citable")

CitedIntents == {"metric_value", "metric_breakdown", "metric_ranking", "metric_comparison"}

Answer ==
  /\ pc = "agenda" /\ agenda = <<>>
  /\ UNCHANGED ran
  /\ \/ ir.intent = "metric_trend" /\ AnswerTrend
     \/ ir.intent \in CitedIntents /\ AnswerCited
     \/ /\ ir.intent = "variance_explain"
        /\ Respond("ok", Shown, NoCitation, IF BridgeAddsUp THEN "bridge" ELSE "incomplete")
     \/ /\ ir.intent \notin CitedIntents \cup {"metric_trend", "variance_explain"}
        /\ Respond("ok", Shown, NoCitation, "stated")

Run ==
  \/ TurnAway \/ Accept
  \/ PassGate \/ RefuseMonth
  \/ CompileStart \/ Continue \/ RejectLeaf \/ ReadAmounts \/ ReadLoadRuns
  \/ Check \/ GiveUp \/ ReadHealth \/ ReadUnmapped \/ AssembleStatement \/ Answer

AskNext == (\E q \in Questions : Submit(q)) \/ Run \/ Others

\* A request runs on a thread of its own and takes no lock: its next
\* statement always returns.
AskSpec == AskInit /\ [][AskNext]_askVars /\ WF_askVars(Run)

-----------------------------------------------------------------------------
(* Properties.                                                             *)

AskTypeOK ==
  /\ status \in [Months -> STATES] /\ governs \in [1 .. NumMonths + 1 -> Versions \cup {0}]
  /\ pc \in {"idle", "model", "agenda", "compile", "amounts", "runs", "done"}
  /\ moves \in 0 .. MaxMoves
  /\ ir \in Questions \cup {NoIr}
  /\ DOMAIN got \subseteq Known \X Months
  /\ IF pc \in {"amounts", "runs"} THEN reading \in DOMAIN got /\ Leaf(reading[1]) ELSE reading = <<>>
  /\ response.status \in {"none", "ok", "refused", "rejected", "blocked", "unavailable", "error", "crash"}

\* Whatever the handler, whatever commits between the gate and the reads: each
\* number in an answer is of a month that may be read (_refuse_unreportable,
\* "before a period's numbers are computed").
NumbersOfReportableMonths == \A n \in response.numbers : StatusOf(n.month) \in Reportable

\* Whatever the compiler emits: what reached the database through the gates
\* is one capped SELECT on declared canonical tables, scoped to the tenant.
WhateverIsEmitted ==
  \A s \in { r.text : r \in ran } :
                 /\ s.parts = 1 /\ s.reads /\ ~s.keyword
                 /\ s.named \subseteq CanonicalTables \cap s.declared
                 /\ s.predicate = "own" /\ s.tenant # "other" /\ s.limit = "own"

\* A rejected question ran neither half of the leaf that was rejected.
RejectedLeafNeverRan ==
  \A x \in DOMAIN Defects : Rejected(x) # {} => x \notin { r.of : r \in ran }

\* A citation's files are read a statement after its rows, and files and
\* freezes commit in between: each row a cited answer counts is of a file it
\* names, or has been superseded since (build_citation's source_files).
CitedRowsTraceable ==
  response.why = "cited" =>
    \A r \in response.citation.rows :
      r.load \in response.citation.files \/ ledger[<<r.account, r.month>>].load # r.load

\* No number is of a read the row cap may have cut short (RowCapTruncated).
NoNumberFromACutRead ==
  \A n \in response.numbers : n.metric \in Known /\ Leaf(n.metric)
    => Cardinality({ r.class : r \in n.rows }) < RowCap

\* No number rests on a metric an open decision governs, however deep: nor by
\* the base an override names, which transitive_blocking_decisions does not
\* see.  Its months count zero, and a zero denominator gives no number.
BlockedStaysDark ==
  \A n \in response.numbers : n.metric \in Known =>
    \A y \in Reach(n.metric) : Contracts[y].governed \cap OpenDecisions = {}

\* Every question ends in one response, whatever else commits meanwhile.
EveryQuestionEnds == pc # "idle" ~> pc = "done"

\* "row_count and source_files must describe only the rows that produced THIS
\* metric's value" (_fetch_leaf_amounts).  Does not hold of the files of a load
\* that commits between the two statements.
CitationDescribesItsRows ==
  response.why = "cited" => response.citation.files = { r.load : r \in response.citation.rows }
=============================================================================
