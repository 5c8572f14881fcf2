------------------------------ MODULE MCReports ------------------------------
EXTENDS Reports

Voucher(m, lines) == [kind |-> "voucher", month |-> m, lines |-> lines]
Order(model, gross, net) == [ kind |-> "order", month |-> 2, model |-> model, gross |-> gross, net |-> net,
                              earned |-> 3, fees |-> 1, shipping |-> 1 ]
Output(product, uom, produced) == [kind |-> "output", month |-> 2, product |-> product, uom |-> uom, produced |-> produced]

\* rebate first appears in the last voucher; units of p and q.
MCDocuments ==
  [ capital |-> Voucher(1, [bank |-> 50, capital |-> -50]),
    sale1   |-> Voucher(1, [debtors |-> 12, sales |-> -10, gst |-> -2]),
    buy1    |-> Voucher(1, [material |-> 4, creditors |-> -4]),
    sale2   |-> Voucher(2, [debtors |-> 23, sales |-> -20, discount |-> 1, gst |-> -4]),
    buy2    |-> Voucher(2, [material |-> 5, rent |-> 1, creditors |-> -6]),
    wear2   |-> Voucher(2, [wear |-> 3, plant |-> -3]),
    rebate2 |-> Voucher(2, [rebate |-> 2, debtors |-> -2]),
    bought  |-> Order("buyout", 9, 8), placed |-> Order("marketplace", 40, 0),
    kilos   |-> Output("p", "kg", 5), tonnes |-> Output("p", "t", 1), pieces |-> Output("q", "pcs", 7) ]

Natural == [ bank |-> "cash_bank", capital |-> "share_capital", debtors |-> "trade_receivable", sales |-> "product_sales",
             gst |-> "statutory_payable", material |-> "raw_material", creditors |-> "trade_payable",
             discount |-> "trade_discount", rent |-> "selling_distribution", wear |-> "depreciation",
             plant |-> "fixed_asset_gross", rebate |-> "scheme_rebate" ]
Other == [Natural EXCEPT !.rent = "store_rent", !.gst = "unmapped", !.rebate = "unmapped"]
MCAssignments == {Natural, Other}
MCDeclared == [p |-> "kg", q |-> "pcs"]

First == {"capital", "sale1", "buy1"}
Second == {"sale2", "buy2", "wear2"}
Over(S, assigned) == [a \in UNION { DOMAIN MCDocuments[d].lines : d \in S } |-> assigned[a]]
World(S, m1, m2, s1, s2) == [books |-> S, mapping |-> <<m1, m2>>, status |-> <<s1, s2>>]
MCWorlds ==
  LET all == First \cup Second
      nat == Over(all, Natural)
      oth == Over(all, Other)
  IN  { World(all \cup {"bought", "kilos"}, nat, nat, "reconciled", "reconciled"),
        World(all \cup {"placed", "tonnes"}, nat, oth, "reconciled", "reconciled"),
        World(First \cup {"sale2", "pieces"}, Nothing, Over(First \cup {"sale2"}, Natural), "validated", "mapped"),
        World(First, Over(First, Natural), Over(First, Natural), "reconciled", "open") }

Ask(kind, profile, from) == [kind |-> kind, profile |-> profile, from |-> from, to |-> 2]
MCRequests ==
  { Ask("pack", p, 2) : p \in {"manufacturing", "consumer"} }
  \cup { Ask("pnl", "manufacturing", 1), Ask("pnl", "consumer", 2), Ask("sheet", "none", 1),
         Ask("ladder", "none", 2), Ask("operating", "none", 2) }
=============================================================================
