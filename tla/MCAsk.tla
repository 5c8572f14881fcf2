-------------------------------- MODULE MCAsk --------------------------------
EXTENDS Ask

Contract == [ asked |-> TRUE, profile |-> "both", comparisons |-> {"mom", "yoy"}, dimensions |-> {"customer"},
              filters |-> {"entity"}, governed |-> {}, cumulative |-> FALSE, deps |-> <<>>, formula |-> "gl_class",
              terms |-> {}, weights |-> <<>>, base |-> NoMetric ]
OfClass(c) == [Contract EXCEPT !.terms = {<<1, c>>}]
Linear(weights, deps) == [Contract EXCEPT !.formula = "linear", !.weights = weights, !.deps = deps]
Over(a, b, base) == [Contract EXCEPT !.formula = "over", !.deps = <<a, b>>, !.base = base]

\* A small registry of the shapes of config/metrics: one, two and three
\* dependencies, formulas the compiler cannot evaluate, of a leaf and not.
MCContracts ==
  [ net_revenue |-> OfClass("income"), cogs |-> OfClass("cost"), opex |-> OfClass("overhead"),
    debtors |-> [OfClass("asset") EXCEPT !.cumulative = TRUE],
    gross_profit |-> Linear(<<1, -1>>, <<"net_revenue", "cogs">>),
    ebitda |-> Linear(<<1, -1>>, <<"gross_profit", "opex">>),
    working_capital |-> Linear(<<1, 1, -1>>, <<"debtors", "net_revenue", "cogs">>),
    margin |-> Over("gross_profit", "net_revenue", NoMetric),
    dso |-> Over("debtors", "net_revenue", "net_revenue"), dpo |-> Over("debtors", "cogs", "cogs"),
    gross_revenue |-> OfClass("income"),
    discount |-> [OfClass("cost") EXCEPT !.governed = {"D-048"}],
    contribution |-> Linear(<<1, -1>>, <<"net_revenue", "discount">>),
    orders |-> [Contract EXCEPT !.formula = "other"], capex |-> [OfClass("asset") EXCEPT !.formula = "mixed"],
    aov |-> Over("net_revenue", "orders", NoMetric),
    adjusted |-> [Linear(<<>>, <<"gross_profit">>) EXCEPT !.formula = "other"],
    all_classes |-> [Contract EXCEPT !.terms = {<<1, "income">>, <<-1, "cost">>, <<1, "asset">>}],
    stray |-> OfClass("cost"), loose |-> OfClass("cost"), inner |-> OfClass("cost"), silent |-> [Contract EXCEPT !.asked = FALSE] ]

MCClasses == [income |-> -1, cost |-> 1, overhead |-> 1, asset |-> 1]
MCClassOf == << [a1 |-> "income", a2 |-> "cost", a3 |-> "asset"],
                [a1 |-> "income", a2 |-> "suspense", a3 |-> "asset"] >>

\* A base of another name, and one an open decision governs.
MCOverrides == { [metric |-> "dso", scope |-> "company", base |-> "gross_revenue"],
                 [metric |-> "dpo", scope |-> "entity", base |-> "discount"],
                 [metric |-> "dpo", scope |-> "company", base |-> "cogs"] }

\* An undeclared join; a second half without a tenant predicate of its own; a
\* LIMIT that is a subquery's.
MCDefects ==
  LET good == Statement({"fact_gl_entry", "dim_account", "map_account"})
  IN  [ stray |-> << [good EXCEPT !.named = @ \cup {"fact_bank_txn"}], good >>,
        inner |-> << [good EXCEPT !.limit = "nested"], good >>,
        loose |-> << good, [good EXCEPT !.predicate = "nested"] >> ]

World(s1, s2, g, keys) ==
  [status |-> <<s1, s2>>, governs |-> g, written |-> [k \in keys |-> IF k[1] = "a2" THEN 2 ELSE 1]]
Everything == {"a1", "a2", "a3"} \X {1, 2}
MCWorlds ==
  { World("locked", "mapped", <<1, 1, 1>>, Everything),
    World("reconciled", "validated", <<1, 1, 1>>, Everything),
    World("open", "mapped", <<0, 1, 1>>, {"a1", "a2"} \X {2}),
    World("validated", "open", <<0, 0, 0>>, Everything),
    World("restated", "locked", <<1, 2, 2>>, {"a1", "a3"} \X {1, 2}),
    World("mapped", "mapped", <<2, 2, 2>>, {<<"a1", 1>>, <<"a2", 2>>}) }

Month(m) == [type |-> "month", from |-> m, to |-> m]
Ir(intent, metric, period) ==
  [ made |-> "ir", intent |-> intent, metric |-> metric, period |-> period, compare |-> "none",
    breakdown |-> {}, filters |-> {} ]

MCQuestions ==
  { Ir("metric_value", x, Month(2)) : x \in {"net_revenue", "dso", "margin", "contribution", "all_classes",
                                             "working_capital", "dpo", "capex", "aov", "adjusted", "stray", "loose", "inner", "silent", "nonsense"} }
  \cup { [Ir("metric_value", "cogs", Month(2)) EXCEPT !.made = how] : how \in {"unsupported", "nothing", "misshapen"} }
  \cup { [Ir("metric_comparison", "net_revenue", Month(2)) EXCEPT !.compare = how] :
           how \in {"none", "prior_period", "yoy", "ytd"} }
  \cup { Ir("metric_trend", x, [type |-> "range", from |-> 1, to |-> 2]) : x \in {"net_revenue", "margin", "contribution"} }
  \cup { [Ir("metric_breakdown", "cogs", Month(1)) EXCEPT !.breakdown = b] : b \in {{}, {"customer"}} }
  \cup { Ir("variance_explain", x, Month(2)) : x \in {"ebitda", "net_revenue"} }
  \cup { Ir(i, NoMetric, p) : i \in {"statement_view", "data_health"}, p \in {Month(2), NoPeriod} }
  \cup { Ir(i, "cogs", [type |-> "fiscal_year", from |-> 1, to |-> 2]) : i \in {"metric_value", "metric_trend", "ageing"} }
  \cup { Ir("definition_lookup", "cogs", NoPeriod) }
=============================================================================
