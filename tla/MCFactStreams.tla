---------------------------- MODULE MCFactStreams ----------------------------
EXTENDS FactStreams

MCWords == [Mall |-> {"retail"}, Franchise |-> {"franchise", "retail"}, Web |-> {"website"}]

\* Good rows, from which the others differ in the fields the overrides name.
Gl(o) == o @@ [voucher |-> "v1", date |-> "dated", code |-> "c1", name |-> "n1",
               debit |-> "pos", credit |-> "blank", party |-> Blank]
Bk(o) == o @@ [ref |-> "r1", date |-> "dated", debit |-> "blank", credit |-> "pos"]
Od(o) == o @@ [order |-> "o1", date |-> "dated", channel |-> "Mall", sub |-> "p1",
               item |-> "i1", net |-> "pos", settled |-> "no"]
Pr(o) == o @@ [date |-> "dated", plant |-> "p1", item |-> "i1", qty |-> "pos", uom |-> "kg"]
St(o) == o @@ [store |-> "p1", name |-> "n1", date |-> "dated"]
Ac(o) == o @@ [code |-> "c1", name |-> "n1", opening |-> "pos"]
Tb(o) == o @@ [code |-> "c1", date |-> "dated", closing |-> "pos"]
Same == [date |-> "dated"]

F(t, rows) == [template |-> t, form |-> "csv", header |-> "exact", rows |-> rows]

MCFiles ==
  { F("GL", <<Gl([party |-> "acme"]), Gl([voucher |-> "v2", party |-> "zen", debit |-> "neg"])>>),
    F("GL", <<Gl([party |-> "bolt"]), Gl([debit |-> "bad"])>>),
    F("GL", <<Gl([code |-> Blank]), Gl([code |-> Blank, name |-> "n2", voucher |-> "v2"])>>),
    F("GL", <<Gl([code |-> Blank, name |-> "n2"])>>),
    [F("GL", <<Gl(Same)>>) EXCEPT !.header = "foreign"],
    [F("GL", <<Gl(Same)>>) EXCEPT !.header = "reordered", !.form = "xlsx"],
    F("Bank", <<Bk(Same), Bk(Same), Bk([debit |-> "pos"])>>),
    F("Bank", <<Bk([credit |-> "zero", debit |-> "pos"]), Bk([date |-> "later"])>>),
    F("ConsumerSales", <<Od(Same), Od([order |-> "o2", channel |-> "Franchise", net |-> "neg"])>>),
    F("ConsumerSales", <<Od([net |-> "neg"]), Od([settled |-> "yes"])>>),
    F("ConsumerSales", <<Od([channel |-> "Web"]), Od([order |-> "o2", channel |-> Blank])>>),
    F("MFGProduction", <<Pr(Same), Pr([uom |-> "pcs"])>>),
    F("MFGProduction", <<Pr(Same)>>),
    F("MFGProduction", <<Pr([uom |-> "pcs", date |-> "tomorrow"]), Pr([uom |-> Blank])>>),
    F("StoreMaster", <<St(Same), St([name |-> "n2"])>>),
    F("COA", <<Ac(Same), Ac([opening |-> "bad"])>>),
    F("TB", <<Tb(Same), Tb([closing |-> "bad"])>>) }
=============================================================================
