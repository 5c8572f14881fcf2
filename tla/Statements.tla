----------------------------- MODULE Statements -----------------------------
(***************************************************************************)
(* The statements as functions of class totals: P&L, contribution ladders, *)
(* balance sheet, indirect cash flow, operating figures.  Amounts are raw, *)
(* Dr positive and Cr negative, until a layout applies its sign.           *)
(*                                                                         *)
(* Of the classes that share a line and a treatment the layouts keep one.  *)
(***************************************************************************)
EXTENDS Tenant, Functions

REVENUE_SIGN == -1
COST_SIGN == 1
Suspense == "unmapped"

\* canonical class -> [line, sign]; a class that is not here is not shown.
MANUFACTURING_PNL_LINES ==
  LET row(line, sign) == [line |-> line, sign |-> sign]
  IN  [ product_sales        |-> row("Gross revenue", REVENUE_SIGN),
        sales_returns        |-> row("Returns", COST_SIGN),
        trade_discount       |-> row("Discounts", COST_SIGN),
        raw_material         |-> row("Raw material", COST_SIGN),
        fulfilment           |-> row("Other direct cost", COST_SIGN),
        direct_labour        |-> row("Direct labour", COST_SIGN),
        power_fuel           |-> row("Power and fuel", COST_SIGN),
        employee_cost        |-> row("Employee cost", COST_SIGN),
        marketing            |-> row("Marketing", COST_SIGN),
        selling_distribution |-> row("Selling and distribution", COST_SIGN),
        admin_general        |-> row("Administration", COST_SIGN),
        scheme_rebate        |-> row("Other", COST_SIGN),
        depreciation         |-> row("Depreciation", COST_SIGN),
        misc_income          |-> row("Other income", REVENUE_SIGN),
        interest_debt        |-> row("Finance cost", COST_SIGN),
        tax_current          |-> row("Tax", COST_SIGN) ]

MANUFACTURING_SECTIONS ==
  [ cogs |-> {"Raw material", "Other direct cost"},
    opex |-> {"Direct labour", "Power and fuel", "Employee cost", "Marketing",
              "Selling and distribution", "Administration", "Other"},
    below_ebitda |-> {"Depreciation"} ]

\* canonical class -> [group, sign]; a class that is not here is swept into
\* the computed retained earnings.
BALANCE_SHEET_LINES ==
  LET row(group, sign) == [group |-> group, sign |-> sign]
  IN  [ cash_bank         |-> row("current_assets", COST_SIGN),
        trade_receivable  |-> row("current_assets", COST_SIGN),
        inventory_rm      |-> row("current_assets", COST_SIGN),
        prepaid           |-> row("current_assets", COST_SIGN),
        deposit           |-> row("non_current_assets", COST_SIGN),
        investment        |-> row("non_current_assets", COST_SIGN),
        fixed_asset_gross |-> row("non_current_assets", COST_SIGN),
        trade_payable     |-> row("current_liabilities", REVENUE_SIGN),
        statutory_payable |-> row("current_liabilities", REVENUE_SIGN),
        debt_term         |-> row("non_current_liabilities", REVENUE_SIGN),
        share_capital     |-> row("equity", REVENUE_SIGN),
        unmapped          |-> row("unclassified", REVENUE_SIGN) ]

PnlClasses == DOMAIN MANUFACTURING_PNL_LINES
SheetClasses == DOMAIN BALANCE_SHEET_LINES

\* The lists of pnl.py's ladder.
CONSUMER_LADDER ==
  [ revenue |-> {"product_sales"}, gst |-> {"statutory_payable"}, discount |-> {"trade_discount"},
    cogs |-> {"raw_material", "commission_borne"},
    operating |-> {"fulfilment", "selling_distribution", "store_rent"},
    marketing |-> {"marketing"}, overhead |-> {"admin_general", "employee_cost"} ]

\* Those of consumer_ladder.py, whose revenue comes from the order file.
GL_LADDER == [ cogs |-> {"raw_material"}, operating |-> {"selling_distribution"},
               marketing |-> {"marketing"}, overhead |-> {"admin_general", "employee_cost"} ]

\* gl_class(...) of the leaves under the metric ebitda, by prefix.
METRIC_LEAVES ==
  [ gross_revenue |-> {"product_sales", "commission_earned"}, returns |-> {"sales_returns"},
    discounts |-> {"trade_discount"}, cogs |-> {"raw_material", "fulfilment"},
    opex |-> {"direct_labour", "power_fuel", "employee_cost", "marketing", "selling_distribution",
              "admin_general", "store_rent"} ]

\* Every class of the model, the few that no manufacturing line shows too.
Taxonomy == PnlClasses \cup SheetClasses \cup {"commission_borne", "commission_earned", "store_rent"}

-----------------------------------------------------------------------------
\* What the queries return: a class without a row is absent, and counts zero.
At(totals, c) == IF c \in DOMAIN totals THEN totals[c] ELSE 0
Of(totals, classes) == SumFunction([c \in classes |-> At(totals, c)])
Magnitude(x) == IF x < 0 THEN -x ELSE x

\* class_movements and class_balances: the entries of a window of months, by
\* the class their account has in the version.  The inner join drops an
\* account the version has no row of.
ClassTotals(entries, rows, from, to) ==
  LET read == { e \in entries : e.month \in from .. to }
      on(a) == { e \in read : a \in DOMAIN e.lines }
      joined == { a \in DOMAIN rows : on(a) # {} }
      posted == [a \in joined |-> SumFunction([e \in on(a) |-> e.lines[a]])]
  IN  [c \in { rows[a] : a \in joined } |-> SumFunctionOnSet(posted, { a \in joined : rows[a] = c })]

\* compute_manufacturing_pnl.
ManufacturingPnl(t) ==
  LET signed == [c \in PnlClasses |-> At(t, c) * MANUFACTURING_PNL_LINES[c].sign]
      line(l) == SumFunctionOnSet(signed, { c \in PnlClasses : MANUFACTURING_PNL_LINES[c].line = l })
      section(s) == SumFunction([l \in MANUFACTURING_SECTIONS[s] |-> line(l)])
      net == line("Gross revenue") - line("Returns") - line("Discounts")
      ebitda == net - section("cogs") - section("opex")
      pbt == ebitda - section("below_ebitda") + line("Other income") - line("Finance cost")
  IN  [ net_revenue |-> net, ebitda |-> ebitda, pbt |-> pbt, bottom |-> pbt - line("Tax"),
        unmapped |-> Magnitude(At(t, Suspense)) ]

\* compute_consumer_cm_ladder.  It has no pbt, and the cash flow takes 0.
\* GMV, gross plus the GST credited, is a memo and no rung builds on it.
ConsumerLadder(t) ==
  LET rung(k) == Of(t, CONSUMER_LADDER[k])
      gross == REVENUE_SIGN * rung("revenue")
      net == gross - rung("discount")
      ebitda == net - rung("cogs") - rung("operating") - rung("marketing") - rung("overhead")
  IN  [ net_revenue |-> net, ebitda |-> ebitda, pbt |-> 0, bottom |-> ebitda,
        unmapped |-> Magnitude(At(t, Suspense)) ]

Pnl(profile, t) == IF profile = "manufacturing" THEN ManufacturingPnl(t) ELSE ConsumerLadder(t)

\* The profit-and-loss classes a profile's layout leaves out.
OffLayout(profile) ==
  (Taxonomy \ SheetClasses) \
    (IF profile = "manufacturing" THEN PnlClasses ELSE UNION { CONSUMER_LADDER[k] : k \in DOMAIN CONSUMER_LADDER })

\* Faulty variant: suspense on neither side, as before OQ-007.
Sheet_NoSuspense(t) ==
  LET signed == [c \in SheetClasses |-> At(t, c) * BALANCE_SHEET_LINES[c].sign]
      group(g) == SumFunctionOnSet(signed, { c \in SheetClasses : BALANCE_SHEET_LINES[c].group = g })
      retained == - Of(t, DOMAIN t \ SheetClasses)
      assets == group("current_assets") + group("non_current_assets")
      owed == group("current_liabilities") + group("non_current_liabilities")
              + group("equity") + retained
  IN  [ assets |-> assets, owed |-> owed, retained |-> retained, balances |-> assets = owed ]

\* compute_balance_sheet.
Sheet(t) ==
  LET signed == [c \in SheetClasses |-> At(t, c) * BALANCE_SHEET_LINES[c].sign]
      group(g) == SumFunctionOnSet(signed, { c \in SheetClasses : BALANCE_SHEET_LINES[c].group = g })
      retained == - Of(t, DOMAIN t \ SheetClasses)
      assets == group("current_assets") + group("non_current_assets")
      owed == group("current_liabilities") + group("non_current_liabilities")
              + group("equity") + retained + group("unclassified")
  IN  [ assets |-> assets, owed |-> owed, retained |-> retained, balances |-> assets = owed ]

-----------------------------------------------------------------------------
\* _classify_operating_balance: the bucket of a current operating balance.
Bucket(c) ==
  CASE c \in {"cash_bank", Suspense}    -> "none"
    [] c = "trade_receivable"           -> "receivables"
    [] c = "inventory_rm"               -> "inventory"
    [] c = "trade_payable"              -> "payables"
    [] c \in {"prepaid", "statutory_payable"} -> "other"
    [] OTHER                            -> "none"

\* compute_cash_flow_statement.  The differences are of raw balances, the
\* signs those of balances shown positive on both sides.
CashFlow(opening, closing, t, pbt) ==
  LET delta(c) == At(closing, c) - At(opening, c)
      sign(c) == IF BALANCE_SHEET_LINES[c].group = "current_assets" THEN -1 ELSE 1
      moved == [c \in SheetClasses |-> delta(c) * sign(c)]
      items == [b \in {"receivables", "inventory", "payables", "other"} |->
                  SumFunctionOnSet(moved, { c \in SheetClasses : Bucket(c) = b })]
      change == SumFunction(items)
      other_income == REVENUE_SIGN * At(t, "misc_income")
  IN  [ items |-> items,
        operating |-> pbt + At(t, "depreciation") + At(t, "interest_debt") - other_income + change,
        investing |-> - delta("fixed_asset_gross") - delta("investment"),
        financing |-> delta("share_capital"),
        opening_cash |-> At(opening, "cash_bank"), closing_cash |-> At(closing, "cash_bank"),
        reconciles |-> FALSE ]

-----------------------------------------------------------------------------
\* compile_metric of ebitda and of cash, the version of the month in hand.
MetricEbitda(t) ==
  LET leaf(l) == Of(t, METRIC_LEAVES[l])
  IN  - leaf("gross_revenue") - leaf("returns") - leaf("discounts") - leaf("cogs") - leaf("opex")

\* Classes on which the metric and a profile's statement part company.
DifferentlyTreated(profile) ==
  LET metric == UNION { METRIC_LEAVES[l] : l \in DOMAIN METRIC_LEAVES }
      above == IF profile = "manufacturing"
               THEN PnlClasses \ {"depreciation", "misc_income", "interest_debt", "tax_current"}
               ELSE UNION { CONSUMER_LADDER[k] : k \in DOMAIN CONSUMER_LADDER \ {"gst"} }
  IN  (metric \ above) \cup (above \ metric)

\* compute_consumer_ladder over the order rows and the class totals, and the
\* residual: a marketplace order brings what it earns and never its gross.
OrderLadder(orders, t) ==
  LET sum(S, column) == SumFunction([o \in S |-> o[column]])
      bought == { o \in orders : o.model = "buyout" }
      placed == orders \ bought
      revenue == sum(bought, "net") + sum(placed, "earned")
      cogs == Of(t, GL_LADDER.cogs) + sum(bought, "fees")
      cm1 == revenue - cogs - Of(t, GL_LADDER.operating) - sum(bought, "shipping")
  IN  [ gmv |-> sum(orders, "gross"), net_revenue |-> revenue,
        ebitda |-> cm1 - Of(t, GL_LADDER.marketing) - Of(t, GL_LADDER.overhead) ]

Residual(orders, t) ==
  SumFunction([o \in { o \in orders : o.model = "buyout" } |-> o.net]) - REVENUE_SIGN * At(t, "product_sales")

\* Faulty variant: more than one unit in the month, none against the declared.
MixedUom_Distinct(outputs, declared) ==
  { o.product : o \in { p \in outputs : \E q \in outputs : q.product = p.product /\ q.uom # p.uom } }

\* check_mixed_uom of a month, the products by their declared unit.
MixedUom(outputs, declared) == { o.product : o \in { p \in outputs : p.uom # declared[p.product] } }

\* compute_product_operating_metrics, a row for each product and unit; a
\* blocked one has no unit and no figure.
ProductOperating(outputs, mixed) ==
  LET made(p, u) == SumFunction([o \in { o \in outputs : o.product = p /\ o.uom = u } |-> o.produced])
      row(p, u) == IF p \in mixed THEN [product |-> p, status |-> "blocked", uom |-> "none", volume |-> 0]
                   ELSE [product |-> p, status |-> "ok", uom |-> u, volume |-> made(p, u)]
  IN  { row(o.product, o.uom) : o \in outputs }

\* compute_entity_operating_metrics: refused over more than one unit; a cost
\* per unit is cost over volume.
EntityOperating(outputs, mixed, t) ==
  LET counted == { o \in outputs : o.product \notin mixed }
      made == SumFunction([o \in counted |-> o.produced])
  IN  IF Cardinality({ o.uom : o \in counted }) # 1 THEN [status |-> "blocked", volume |-> 0, cost |-> 0]
      ELSE [status |-> "ok", volume |-> made, cost |-> At(t, "raw_material")]
=============================================================================
