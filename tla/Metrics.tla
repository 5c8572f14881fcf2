------------------------------- MODULE Metrics -------------------------------
(***************************************************************************)
(* The metric registry, what a question may ask of it, and the compiler    *)
(* from a metric and a month to the statements it needs and the value they *)
(* give.  One entity.                                                      *)
(***************************************************************************)
EXTENDS Tenant, Admission, SequencesExt

CONSTANTS Contracts,    \* [metric -> Contract], config/metrics
          OpenDecisions,
          Overrides,    \* approved metric_definition rows that rename a base
          Classes,      \* [canonical class -> its natural sign]
          Window,       \* bound: months of a trailing window (12 in the code)
          Profile,      \* the tenant's
          Depth,        \* the longest chain of dependencies
          NoMetric

\* A contract is [asked, profile, comparisons, dimensions, filters, governed,
\*   cumulative : time_logic is period_end,
\*   deps       : Seq(metric), <<>> for a leaf,
\*   formula    : what the compiler makes of the formula's text: of a leaf,
\*                "gl_class", "mixed" (gl_class and other tokens) or "other";
\*                of the rest, "linear", "over" (the first dependency over
\*                the second) or "other", which it cannot evaluate,
\*   terms      : SUBSET (sign \X class), the gl_class(...) of a leaf,
\*   weights    : those of the dependencies in a linear formula,
\*   base       : what dso, dpo and dio take over the window, or NoMetric].
Known == DOMAIN Contracts
Leaf(x) == Contracts[x].deps = <<>>

-----------------------------------------------------------------------------
\* transitive_blocking_decisions: of the metric and of all it depends on.
Closures ==
  LET upTo[n \in 0 .. Depth] ==
        IF n = 0 THEN [x \in Known |-> {x}]
        ELSE [x \in Known |-> {x} \cup UNION { upTo[n - 1][y] : y \in ToSet(Contracts[x].deps) }]
  IN  upTo[Depth]
Closure(x) == Closures[x]

Blocking(x) == UNION { Contracts[y].governed \cap OpenDecisions : y \in Closure(x) }

\* resolve_parameters: the entity's row, else the company's, else the default.
Base(x) ==
  LET rows(scope) == { o \in Overrides : o.metric = x /\ o.scope = scope }
      named(scope) == (CHOOSE o \in rows(scope) : TRUE).base
  IN  IF Contracts[x].base = NoMetric THEN NoMetric
      ELSE IF rows("entity") # {} THEN named("entity")
      ELSE IF rows("company") # {} THEN named("company")
      ELSE Contracts[x].base

\* What a compile of x takes the value of.
Uses(x) == IF Leaf(x) THEN {} ELSE (ToSet(Contracts[x].deps) \cup {Base(x)}) \ {NoMetric}

\* All of it, however deep, the base of an override included.
Reaches ==
  LET upTo[n \in 0 .. Depth] ==
        IF n = 0 THEN [x \in Known |-> {x}]
        ELSE [x \in Known |-> {x} \cup UNION { upTo[n - 1][y] : y \in Uses(x) }]
  IN  upTo[Depth]
Reach(x) == Reaches[x]

ASSUME ContractsAssumption ==
  /\ NoMetric \notin Known
  /\ \A x \in Known :
       /\ Contracts[x].deps \in Seq(Known) /\ Contracts[x].base \in Known \cup {NoMetric}
       /\ Contracts[x].base # NoMetric => ~Leaf(x) /\ Contracts[x].formula = "over"
  /\ \A o \in Overrides : o.base \in Known

\* No metric is made of itself, however far down.
ASSUME DepthAssumption ==
  /\ Depth \in Nat /\ Window \in Nat
  /\ \A chain \in [0 .. Depth + 1 -> Known] : \E i \in 0 .. Depth : chain[i + 1] \notin Uses(chain[i])

-----------------------------------------------------------------------------
\* IRRequest and validate_ir.  A question's IR is [intent, metric, period,
\* compare, breakdown, filters]; period is [type, from, to] or NoPeriod.
NoPeriod == [type |-> "none", from |-> 1, to |-> 1]
Intents == { "metric_value", "metric_trend", "metric_comparison", "metric_breakdown",
             "metric_ranking", "variance_explain", "statement_view", "concentration",
             "ageing", "definition_lookup", "data_health" }
Unmetered == {"data_health", "statement_view", "definition_lookup"}

\* prior_period is looked up as mom.
Compared(c) == IF c = "prior_period" THEN "mom" ELSE c

ValidIr(q) ==
  /\ q.metric = NoMetric => q.intent \in Unmetered
  /\ q.metric # NoMetric =>
       /\ q.metric \in Known
       /\ Contracts[q.metric].asked
       /\ Contracts[q.metric].profile \in {"both", Profile}
       /\ q.compare = "none" \/ Compared(q.compare) \in Contracts[q.metric].comparisons
       /\ q.breakdown \subseteq Contracts[q.metric].dimensions
       /\ q.filters \subseteq Contracts[q.metric].filters

-----------------------------------------------------------------------------
\* The months of the calendar a trailing window reaches back to from m, in
\* the code's order.
Trailing(m) == [i \in 1 .. Min({Window, m}) |-> m + 1 - i]

\* eval_gl_class_formula: each class in its natural-positive magnitude.
LeafValue(x, rows) ==
  MapThenSumSet(LAMBDA t : t[1] * Classes[t[2]] * MapThenSumSet(LAMBDA r : r.amount, { r \in rows : r.class = t[2] }),
                Contracts[x].terms)

\* A leaf whose compile sends the two statements of a scan: those of a mixed
\* formula too, which fails over their result.
Sends(x) == Leaf(x) /\ Contracts[x].formula # "other" /\ Contracts[x].terms # {}

\* A CompiledMetric: next is the metric and month a pending one waits for.
Unresolvable == [status |-> "blocked", value |-> 0, rows |-> {}, loads |-> {}, next |-> <<>>]
Undefined == [Unresolvable EXCEPT !.status = "undefined"]
Pending(visit) == [Unresolvable EXCEPT !.status = "pending", !.next = visit]
Resolved(v, rows, loads) == [Unresolvable EXCEPT !.status = "ok", !.value = v, !.rows = rows, !.loads = loads]

\* _compile_metric_impl of a leaf, from what its statements returned.
LeafResult(y, read) ==
  IF Contracts[y].formula # "gl_class" THEN Unresolvable
  ELSE Resolved(LeafValue(y, read.rows), read.rows, read.loads)

With(status, results) == { i \in DOMAIN results : results[i].status = status }
Failing(results) == DOMAIN results \ With("ok", results)

\* Those of the dependencies, then those of the base over the window.
Parts(y, k, results) == [i \in DOMAIN Contracts[y].deps |-> results[Contracts[y].deps[i]][k]]
Trail(y, k, results) ==
  IF Base(y) = NoMetric THEN <<>> ELSE [i \in DOMAIN Trailing(k) |-> results[Base(y)][Trailing(k)[i]]]

\* _trailing_twelve_months_value: a month that does not resolve counts zero.
TrailingValue(trail) == SumFunction([i \in With("ok", trail) |-> trail[i].value])

\* Faulty variant: a zero denominator gives zero.
Ratio_Zero(a, b, rows, loads) == Resolved(IF b = 0 THEN 0 ELSE a \div b, rows, loads)

Ratio(a, b, rows, loads) == IF b = 0 THEN Undefined ELSE Resolved(a \div b, rows, loads)

\* eval_metric_formula of a metric whose dependencies all resolved; the rows
\* and the loads are those of the dependencies alone.
Evaluated(y, parts, trail) ==
  LET rows == UNION { parts[i].rows : i \in DOMAIN parts }
      loads == UNION { parts[i].loads : i \in DOMAIN parts }
      linear == SumFunction([i \in DOMAIN parts |-> Contracts[y].weights[i] * parts[i].value])
      second == IF Base(y) = NoMetric THEN parts[2].value ELSE TrailingValue(trail)
  IN  CASE Contracts[y].formula = "linear" -> Resolved(linear, rows, loads)
        [] Contracts[y].formula = "over"   -> Ratio(parts[1].value, second, rows, loads)
        [] OTHER                           -> Unresolvable

\* _compile_metric_impl of any other metric: all its dependencies first, and
\* the months of its base once they have resolved.
Combined(y, parts, trail) ==
  IF With("pending", parts) # {} THEN parts[Min(With("pending", parts))]
  ELSE IF Failing(parts) # {} THEN [Unresolvable EXCEPT !.status = parts[Min(Failing(parts))].status]
  ELSE IF With("pending", trail) # {} THEN trail[Min(With("pending", trail))]
  ELSE Evaluated(y, parts, trail)

\* One call of _compile_metric_cached: a metric an open decision governs
\* returns before its first statement, any other looks its version up;
\* version 0 is that no approved one covers the month.
Visit(y, k, results, got) ==
  IF Blocking(y) # {} THEN Unresolvable
  ELSE IF <<y, k>> \notin DOMAIN got THEN Pending(<<y, k>>)
  ELSE IF got[<<y, k>>].version = 0 THEN Unresolvable
  ELSE IF Leaf(y) THEN LeafResult(y, got[<<y, k>>])
  ELSE Combined(y, Parts(y, k, results), Trail(y, k, results))

Visited(results, got) == [y \in Known |-> [k \in Months |-> Visit(y, k, results, got)]]

\* compile_metric over what its visits have read so far, the memo: got is
\* [<<metric, month>> -> [version, rows, loads]].
Compiled(x, m, got) ==
  LET results[d \in 0 .. Depth + 1] ==
        IF d = 0 THEN [y \in Known |-> [k \in Months |-> Unresolvable]] ELSE Visited(results[d - 1], got)
  IN  results[Depth + 1][x][m]
=============================================================================
