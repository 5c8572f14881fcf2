---------------------------- MODULE ReportsProofs ----------------------------
(***************************************************************************)
(* What the screens and the pack show is sound, whatever is booked, mapped *)
(* and committed while they are assembled.                                 *)
(***************************************************************************)
EXTENDS Reports, StatementsProofs, TLAPS

-----------------------------------------------------------------------------
(* The inductive invariant.  Its parts are predicates of the committed     *)
(* state, World, and of what the request has in hand, Work.                *)

Vouchers == { Documents[d] : d \in { d \in DOMAIN Documents : Documents[d].kind = "voucher" } }
Version(v) == v \in [DOMAIN v -> Taxonomy] /\ DOMAIN v \subseteq Accounts

World == [vouchers |-> Booked("voucher"), mapping |-> mapping, status |-> status, moves |-> moves]
Work == [began |-> req.began, found |-> req.found, rows |-> rows, got |-> got, compiled |-> compiled]

\* A month is at a level or beyond.
Reached(w, m, level) == LevelOf(IF m \in Months THEN w.status[m] ELSE "open") >= LevelOf(level)

Sound(w) ==
  /\ w.vouchers \subseteq Vouchers
  /\ \A m \in Months : Version(w.mapping[m])
  /\ w.status \in [Months -> ToSet(Levels)]
  /\ w.moves \in Nat

Committed ==
  /\ books \subseteq DOMAIN Documents
  /\ Sound(World)
  /\ moves <= MaxMoves /\ served \in 0 .. MaxRequests

Kinds == {"pnl", "sheet", "ladder", "operating", "pack"}

\* The request under way.
Serving ==
  /\ req = NoRequest => done = 0 /\ got = Nothing /\ compiled = Nothing
  /\ req # NoRequest => /\ req.kind \in Kinds /\ req.from \in Months /\ req.to \in Months /\ req.from <= req.to
                        /\ req.began \in 0 .. moves /\ done \in 0 .. Len(Agenda)
                        /\ req.found \subseteq Booked("output") /\ \A o \in req.found : o.month = req.to

\* What a read returned: the totals of the vouchers it had in sight, all that
\* there are if nothing was committed since the request began.
FromBooks(slot, from, to, k, w) ==
  /\ slot \in DOMAIN k.got
  /\ k.got[slot].of \subseteq Vouchers /\ \A e \in k.got[slot].of : e.month \in from .. to
  /\ k.got[slot].totals = ClassTotals(k.got[slot].of, k.rows, from, to)
  /\ k.began = w.moves => k.got[slot].of = Window(w.vouchers, from, to)

\* What compile_metric gives of a month.
ResolvedIn(w, m) ==
  LET version == IF m \in Months THEN w.mapping[m] ELSE Nothing
      totals(from) == ClassTotals(w.vouchers, version, from, m)
  IN  IF version = Nothing THEN [status |-> "blocked", ebitda |-> 0, cash |-> 0]
      ELSE [status |-> "ok", ebitda |-> MetricEbitda(totals(m)), cash |-> At(totals(1), "cash_bank")]

\* What a step leaves behind.
Took(step, k, w) ==
  /\ step.do = "gate" => Reached(w, step.from, step.slot)
  /\ step.do = "version" => Version(k.rows) /\ (k.began = w.moves => k.rows # Nothing /\ k.rows = w.mapping[step.from])
  /\ step.do = "read" => FromBooks(step.slot, step.from, step.to, k, w)
  /\ step.do = "rows" /\ step.slot = "mixed" =>
       /\ "mixed" \in DOMAIN k.got
       /\ MixedUom({ o \in k.found : o.month \in step.from .. step.to }, Declared) \subseteq k.got["mixed"]
  /\ step.do = "metric" => step.from \in DOMAIN k.compiled
  /\ step.do = "cover" =>
       /\ "cover" \in DOMAIN k.got
       /\ k.began = w.moves => k.got["cover"] = [status |-> w.status[step.from], freshness |-> w.moves]

Fills(step) == step.do \in {"read", "rows", "cover"}

\* The first n steps of an agenda are taken.
InHand(a, n, k, w) ==
  /\ \A i \in 1 .. n : Took(a[i], k, w)
  /\ \A x \in DOMAIN k.got : \E i \in 1 .. n : Fills(a[i]) /\ a[i].slot = x
  /\ \A m \in DOMAIN k.compiled : k.began = w.moves => k.compiled[m] = ResolvedIn(w, m)

Assembling == req # NoRequest => InHand(Agenda, done, Work, World)

\* The answer on the screen.
SecondUnitIsNew(answer) ==
  answer.kind = "operating" =>
    \A row \in answer.screen.products :
      row.status = "ok" /\ row.uom # Declared[row.product] =>
        \A o \in answer.evidence.found : o.product = row.product => o.uom = Declared[o.product]

Shows(answer, w) ==
  /\ answer.kind = "sheet" => LeftOut(answer.evidence, "sheet") = 0
  /\ answer.kind \in {"pnl", "ladder"} => \A m \in answer.from .. answer.to : Reached(w, m, "mapped")
  /\ answer.kind \in {"sheet", "operating"} => Reached(w, answer.to, "mapped")
  /\ SecondUnitIsNew(answer)

Showing == Shows(shown, World)

\* The sections of a pack, from what was read for it.
SumYear(of, m) ==
  LET months == FiscalYearStart(m) .. m
  IN  IF \E k \in months : of[k].status # "ok" THEN [status |-> "blocked", value |-> 0]
      ELSE [status |-> "ok", value |-> SumFunction([k \in months |-> of[k].ebitda])]

SectionsOf(profile, m, slots, memo) ==
  LET pnl(slot) == Pnl(profile, slots[slot].totals)
  IN  [ kind |-> "pack", profile |-> profile, month |-> m, summary |-> "none",
        reconciliation_status |-> slots["cover"].status, freshness |-> slots["cover"].freshness,
        tile |-> memo[m], tile_ytd |-> SumYear(memo, m),
        pnl |-> pnl("pnl"), pnl_prior_month |-> pnl("pnl_prior_month"), pnl_ytd |-> pnl("pnl_ytd"),
        sheet |-> Sheet(slots["sheet"].totals), sheet_prior_month |-> Sheet(slots["sheet_prior_month"].totals),
        cash_flow |-> CashFlow(slots["opening"].totals, slots["closing"].totals, slots["movements"].totals, pnl("pnl").pbt),
        balanced |-> Sheet(slots["sheet"].totals).balances ]

PackOf(profile, m, k, w) ==
  [ sections |-> SectionsOf(profile, m, k.got, k.compiled),
    evidence |-> [began |-> k.began, found |-> k.found, ended |-> w.moves, rows |-> k.rows, got |-> k.got, mapping |-> w.mapping] ]

\* Those of one generated while nothing is committed, the clock apart.
Now(profile, m, w) ==
  LET totals(from, to) == ClassTotals(w.vouchers, w.mapping[m], from, to)
      pnl(from, to) == Pnl(profile, totals(from, to))
  IN  [ kind |-> "pack", profile |-> profile, month |-> m, summary |-> "none",
        reconciliation_status |-> w.status[m], freshness |-> 0,
        tile |-> ResolvedIn(w, m), tile_ytd |-> SumYear([j \in FiscalYearStart(m) .. m |-> ResolvedIn(w, j)], m),
        pnl |-> pnl(m, m), pnl_prior_month |-> pnl(m - 1, m - 1), pnl_ytd |-> pnl(FiscalYearStart(m), m),
        sheet |-> Sheet(totals(1, m)), sheet_prior_month |-> Sheet(totals(1, m - 1)),
        cash_flow |-> CashFlow(totals(1, m - 1), totals(1, m), totals(m, m), pnl(m, m).pbt),
        balanced |-> Sheet(totals(1, m)).balances ]

\* The figures of one pack that must tie.
SheetTies(p) ==
  /\ p.sections.sheet.balances <=> LeftOut(p.evidence, "sheet") = 0
  /\ p.sections.sheet_prior_month.balances <=> LeftOut(p.evidence, "sheet_prior_month") = 0

ProfitTies(p) ==
  LET s == p.sections
      movements == p.evidence.got["movements"].totals
  IN  Undisturbed(p) => s.sheet.retained - s.sheet_prior_month.retained
                          = s.pnl.bottom - Of(movements, OffLayout(s.profile))

HeadlineTies(p) ==
  LET s == p.sections
      evidence == p.evidence
      agree(slot) == \A c \in DifferentlyTreated(s.profile) : At(evidence.got[slot].totals, c) = 0
  IN  Undisturbed(p) =>
        /\ agree("pnl") => s.tile.status = "ok" /\ s.tile.ebitda = s.pnl.ebitda
        /\ s.tile_ytd.status = "ok" =>
             LET year == FiscalYearStart(s.month) .. s.month
             IN  /\ \A m \in year : m \in Months /\ evidence.mapping[m] # Nothing
                 /\ agree("pnl_ytd") /\ (\A m \in year : evidence.mapping[m] = evidence.rows)
                      => s.tile_ytd.value = s.pnl_ytd.ebitda

SectionNames ==
  { "kind", "profile", "month", "summary", "reconciliation_status", "freshness", "tile", "tile_ytd", "pnl",
    "pnl_prior_month", "pnl_ytd", "sheet", "sheet_prior_month", "cash_flow", "balanced" }

\* A pack as it was written, but for its summary.
Written(p, w) ==
  /\ p = [sections |-> p.sections, evidence |-> p.evidence]
  /\ p.sections = [x \in SectionNames |-> p.sections[x]] /\ p.sections.kind = "pack"
  /\ p.evidence.began \in Nat /\ p.evidence.ended \in Nat
  /\ p.evidence.began <= p.evidence.ended /\ p.evidence.ended <= w.moves
  /\ SheetTies(p) /\ ProfitTies(p) /\ HeadlineTies(p)
  /\ Reached(w, p.sections.month, "reconciled")
  /\ p.evidence.began = w.moves => Stripped(p.sections) = Now(p.sections.profile, p.sections.month, w)

\* Two packs nothing was committed between.
SameNumbers(p, q) ==
  p.evidence.began = q.evidence.ended /\ p.sections.profile = q.sections.profile /\ p.sections.month = q.sections.month
    => Stripped(p.sections) = Stripped(q.sections)

\* Packs in the order of their generation.
InOrder(ps, w) ==
  /\ ps \in Seq(ToSet(ps))
  /\ \A i \in DOMAIN ps : Written(ps[i], w)
  /\ \A i, j \in DOMAIN ps : j < i => /\ ps[j].evidence.ended <= ps[i].evidence.began
                                      /\ SameNumbers(ps[j], ps[i])

\* Those before a time.
EndedBy(ps, time) == \A i \in DOMAIN ps : ps[i].evidence.ended <= time

Kept ==
  /\ InOrder(packs, World)
  /\ req # NoRequest => EndedBy(packs, req.began)

ReportsInv == Committed /\ Serving /\ Assembling /\ Showing /\ Kept

-----------------------------------------------------------------------------
(* Levels.                                                                 *)

LEMMA LevelNumbers ==
  /\ LevelOf("open") = 1 /\ LevelOf("validated") = 2 /\ LevelOf("mapped") = 3
  /\ LevelOf("reconciled") = 4 /\ LevelOf("locked") = 5
  /\ ToSet(Levels) = {"open", "validated", "mapped", "reconciled", "locked"}
<1>1. /\ Levels[1] = "open" /\ Levels[2] = "validated" /\ Levels[3] = "mapped" /\ Levels[4] = "reconciled"
      /\ Levels[5] = "locked" /\ DOMAIN Levels = {1, 2, 3, 4, 5}
  BY DEF Levels
<1>2. \A i \in {1, 2, 3, 4, 5} : LevelOf(Levels[i]) = i
  <2> SUFFICES ASSUME NEW i \in {1, 2, 3, 4, 5} PROVE LevelOf(Levels[i]) = i
    OBVIOUS
  <2>1. \A j \in DOMAIN Levels : Levels[j] = Levels[i] => j = i
    BY <1>1
  <2> QED
    BY <1>1, <2>1 DEF LevelOf
<1>3. ToSet(Levels) = {"open", "validated", "mapped", "reconciled", "locked"}
  BY <1>1 DEF ToSet
<1> QED
  BY <1>1, <1>2, <1>3

\* No commit takes a month back.
Rises(w, v) ==
  /\ v.moves = w.moves + 1
  /\ \A m : \A level \in ToSet(Levels) : Reached(w, m, level) => Reached(v, m, level)

\* A month's status after a commit: as it was, or one on.
Forward(old, new) ==
  \/ new = old
  \/ old = "open" /\ new = "validated"
  \/ old = "validated" /\ new = "mapped"
  \/ old = "mapped" /\ new = "reconciled"
  \/ old = "reconciled" /\ new = "locked"

LEMMA ForwardRises ==
  ASSUME NEW old, NEW new, Forward(old, new), NEW level \in ToSet(Levels), LevelOf(old) >= LevelOf(level)
  PROVE  LevelOf(new) >= LevelOf(level)
<1>1. LevelOf(level) \in Int
  BY LevelNumbers
<1>2. CASE new = old
  BY <1>2
<1>3. CASE new # old
  BY <1>1, <1>3, LevelNumbers DEF Forward
<1> QED
  BY <1>2, <1>3

-----------------------------------------------------------------------------
(* Agendas.                                                                *)

LEMMA OwnSequence ==
  ASSUME NEW S, NEW s \in Seq(S)
  PROVE  s \in Seq(ToSet(s))
BY DEF ToSet

LEMMA Joined ==
  ASSUME NEW a, NEW b, a \in Seq(ToSet(a)), b \in Seq(ToSet(b))
  PROVE  /\ a \o b \in Seq(ToSet(a \o b))
         /\ Len(a) \in Nat /\ Len(b) \in Nat /\ Len(a \o b) = Len(a) + Len(b)
         /\ \A i \in 1 .. Len(a) : (a \o b)[i] = a[i]
         /\ \A i \in 1 .. Len(b) : (a \o b)[i + Len(a)] = b[i]
<1> DEFINE S == ToSet(a) \cup ToSet(b)
<1>1. a \in Seq(S) /\ b \in Seq(S)
  <2>1. \A i \in 1 .. Len(a) : a[i] \in S
    BY DEF ToSet
  <2>2. \A i \in 1 .. Len(b) : b[i] \in S
    BY DEF ToSet
  <2> HIDE DEF S
  <2> QED
    BY <2>1, <2>2
<1> HIDE DEF S
<1>2. /\ a \o b \in Seq(S) /\ Len(a) \in Nat /\ Len(b) \in Nat /\ Len(a \o b) = Len(a) + Len(b)
      /\ \A i \in 1 .. Len(a) : (a \o b)[i] = a[i]
      /\ \A i \in 1 .. Len(b) : (a \o b)[i + Len(a)] = b[i]
  BY <1>1
<1> QED
  BY <1>2, OwnSequence

\* A step of a request for a month.
Typed(step, m) ==
  /\ step.do \in {"gate", "version", "read", "rows", "metric", "cover"}
  /\ step.from \in Int /\ step.to \in Int
  /\ step.do = "gate" => step.slot \in {"mapped", "reconciled"}
  /\ step.do = "version" => step.from = m
  /\ step.do = "cover" => step.slot = "cover" /\ step.from = m

\* An agenda: each slot has its place, and what is read is read under the
\* version looked up before.
Shaped(a, m) ==
  /\ a \in Seq(ToSet(a))
  /\ \A i \in 1 .. Len(a) : Typed(a[i], m)
  /\ \E place : \A i \in 1 .. Len(a) : Fills(a[i]) => place[a[i].slot] = i
  /\ \E v \in Int : \A i \in 1 .. Len(a) : (a[i].do = "version" => i = v) /\ (a[i].do = "read" => v < i)

Has(a, step) == \E i \in 1 .. Len(a) : a[i] = step

\* GateAll: a gate for every month of the range, in order.
LEMMA GatesAre ==
  ASSUME NEW from \in Int, NEW to \in Int, from <= to
  PROVE  LET a == GateAll(from, to)
         IN  /\ a \in Seq(ToSet(a)) /\ Len(a) = to - from + 1
             /\ \A i \in 1 .. Len(a) : a[i] = Gate(from + i - 1, "mapped")
<1> DEFINE n == to - from + 1
           a == GateAll(from, to)
<1>1. MonthsInRange(from, to) = [i \in 1 .. n |-> from + i - 1] /\ n \in Nat
  BY DEF MonthsInRange
<1>2. a = [i \in 1 .. n |-> Gate(from + i - 1, "mapped")]
  BY <1>1 DEF GateAll
<1> HIDE DEF n, a
<1>3. Len(a) = n /\ \A i \in 1 .. n : a[i] = Gate(from + i - 1, "mapped")
  BY <1>1, <1>2
<1>4. DOMAIN a = 1 .. n /\ a = [i \in 1 .. n |-> a[i]]
  BY <1>2
<1>5. a \in Seq(ToSet(a))
  BY <1>1, <1>4 DEF ToSet
<1> QED
  BY <1>3, <1>5 DEF a, n

\* The rest of a screen's agenda, its first step the look-up.
Tail1(b, m) ==
  /\ b \in Seq(ToSet(b)) /\ Len(b) >= 1
  /\ \A i \in 1 .. Len(b) : Typed(b[i], m) /\ (b[i].do = "version" <=> i = 1)
  /\ \E place : \A i \in 1 .. Len(b) : Fills(b[i]) => place[b[i].slot] = i

LEMMA ScreenShaped ==
  ASSUME NEW from \in Int, NEW to \in Int, from <= to, NEW m, NEW b, Tail1(b, m)
  PROVE  LET a == GateAll(from, to) \o b
         IN  /\ Shaped(a, m)
             /\ \A k \in from .. to : Has(a, Gate(k, "mapped"))
             /\ \A i \in 1 .. Len(b) : Has(a, b[i])
<1> DEFINE g == GateAll(from, to)
           a == g \o b
           n == to - from + 1
<1>1. /\ g \in Seq(ToSet(g)) /\ Len(g) = n /\ n \in Nat
      /\ \A i \in 1 .. n : g[i] = Gate(from + i - 1, "mapped")
  BY GatesAre
<1>2. b \in Seq(ToSet(b))
  BY DEF Tail1
<1> HIDE DEF g, a
<1>3. /\ a \in Seq(ToSet(a)) /\ Len(b) \in Nat /\ Len(a) = n + Len(b)
      /\ \A i \in 1 .. n : a[i] = g[i]
      /\ \A i \in 1 .. Len(b) : a[i + n] = b[i]
  BY <1>1, <1>2, Joined DEF a
<1> HIDE DEF n
<1>4. \A i \in 1 .. n : a[i] = Gate(from + i - 1, "mapped")
  BY <1>1, <1>3
<1>5. \A i \in 1 .. Len(a) : i \notin 1 .. n => i - n \in 1 .. Len(b) /\ a[i] = b[i - n]
  <2> SUFFICES ASSUME NEW i \in 1 .. Len(a), i \notin 1 .. n PROVE i - n \in 1 .. Len(b) /\ a[i] = b[i - n]
    OBVIOUS
  <2>1. i - n \in 1 .. Len(b) /\ (i - n) + n = i
    BY <1>1, <1>3
  <2> QED
    BY <1>3, <2>1
<1>6. \A i \in 1 .. n : Typed(a[i], m) /\ a[i].do = "gate" /\ ~ Fills(a[i])
  BY <1>1, <1>4 DEF Typed, Gate, Fills
<1>7. \A i \in 1 .. Len(a) : Typed(a[i], m)
  BY <1>5, <1>6 DEF Tail1
<1>8. \E place : \A i \in 1 .. Len(a) : Fills(a[i]) => place[a[i].slot] = i
  <2>1. PICK at : \A i \in 1 .. Len(b) : Fills(b[i]) => at[b[i].slot] = i
    BY DEF Tail1
  <2> DEFINE S == { b[i].slot : i \in 1 .. Len(b) }
             place == [x \in S |-> at[x] + n]
  <2>2. \A i \in 1 .. Len(b) : b[i].slot \in S
    OBVIOUS
  <2> HIDE DEF S
  <2>3. ASSUME NEW i \in 1 .. Len(a), Fills(a[i]) PROVE place[a[i].slot] = i
    <3>1. i - n \in 1 .. Len(b) /\ a[i] = b[i - n]
      BY <1>5, <1>6, <2>3
    <3>2. at[a[i].slot] = i - n /\ a[i].slot \in S
      BY <2>1, <2>2, <2>3, <3>1
    <3> QED
      BY <1>1, <1>3, <3>2
  <2> QED
    BY <2>3
<1>9. \A i \in 1 .. Len(a) : (a[i].do = "version" => i = n + 1) /\ (a[i].do = "read" => n + 1 < i)
  <2> SUFFICES ASSUME NEW i \in 1 .. Len(a)
               PROVE  (a[i].do = "version" => i = n + 1) /\ (a[i].do = "read" => n + 1 < i)
    OBVIOUS
  <2>1. CASE i \in 1 .. n
    BY <1>6, <2>1
  <2>2. CASE i \notin 1 .. n
    <3>1. i - n \in 1 .. Len(b) /\ a[i] = b[i - n]
      BY <1>5, <2>2
    <3>2. a[i].do = "version" <=> i - n = 1
      BY <3>1 DEF Tail1
    <3> QED
      BY <1>1, <1>3, <3>1, <3>2
  <2> QED
    BY <2>1, <2>2
<1>10. n + 1 \in Int
  BY <1>1
<1>11. Shaped(a, m)
  BY <1>3, <1>7, <1>8, <1>9, <1>10 DEF Shaped
<1>12. ASSUME NEW k \in from .. to PROVE Has(a, Gate(k, "mapped"))
  <2>1. k - from + 1 \in 1 .. n /\ from + (k - from + 1) - 1 = k
    BY DEF n
  <2>2. 1 .. n \subseteq 1 .. Len(a)
    BY <1>1, <1>3
  <2> QED
    BY <1>4, <2>1, <2>2 DEF Has
<1>13. ASSUME NEW i \in 1 .. Len(b) PROVE Has(a, b[i])
  <2>1. i + n \in 1 .. Len(a) /\ a[i + n] = b[i]
    BY <1>1, <1>3
  <2> QED
    BY <2>1 DEF Has
<1> QED
  BY <1>11, <1>12, <1>13 DEF a, g

LEMMA TailsShaped ==
  ASSUME NEW from \in Int, NEW m \in Int
  PROVE  /\ Tail1(<<LookUp(m), Read("pnl", from, m)>>, m)
         /\ Tail1(<<LookUp(m), Read("sheet", 1, m)>>, m)
         /\ Tail1(<< LookUp(m), Rows("order", from, m), Read("pnl", from, m),
                     Rows("order_again", from, m), Read("movements", from, m) >>, m)
         /\ Tail1(<< LookUp(m), Rows("mixed", m, m), Rows("output", m, m), Read("movements", m, m) >>, m)
<1> USE DEF LookUp, Read, Rows
<1>1. ASSUME NEW slot, NEW f \in Int PROVE Tail1(<<LookUp(m), Read(slot, f, m)>>, m)
  <2> DEFINE b == <<LookUp(m), Read(slot, f, m)>>
             S == {LookUp(m), Read(slot, f, m)}
             place == [x \in {slot} |-> 2]
  <2>1. b \in Seq(S) /\ Len(b) = 2 /\ b[1] = LookUp(m) /\ b[2] = Read(slot, f, m)
    OBVIOUS
  <2> HIDE DEF b, S
  <2>2. b \in Seq(ToSet(b))
    BY <2>1, OwnSequence
  <2>3. \A i \in 1 .. 2 : Typed(b[i], m) /\ (b[i].do = "version" <=> i = 1)
    BY <2>1 DEF Typed
  <2>4. \A i \in 1 .. 2 : Fills(b[i]) => place[b[i].slot] = i
    BY <2>1 DEF Fills
  <2> HIDE DEF place
  <2>5. Tail1(b, m)
    BY <2>1, <2>2, <2>3, <2>4 DEF Tail1
  <2> QED
    BY <2>5 DEF b
<1>2. Tail1(<< LookUp(m), Rows("order", from, m), Read("pnl", from, m),
               Rows("order_again", from, m), Read("movements", from, m) >>, m)
  <2> DEFINE b == << LookUp(m), Rows("order", from, m), Read("pnl", from, m),
                     Rows("order_again", from, m), Read("movements", from, m) >>
             S == { LookUp(m), Rows("order", from, m), Read("pnl", from, m),
                    Rows("order_again", from, m), Read("movements", from, m) }
             place == [order |-> 2, pnl |-> 3, order_again |-> 4, movements |-> 5]
  <2>1. /\ b \in Seq(S) /\ Len(b) = 5 /\ b[1] = LookUp(m) /\ b[2] = Rows("order", from, m)
        /\ b[3] = Read("pnl", from, m) /\ b[4] = Rows("order_again", from, m) /\ b[5] = Read("movements", from, m)
    OBVIOUS
  <2> HIDE DEF b, S
  <2>2. b \in Seq(ToSet(b))
    BY <2>1, OwnSequence
  <2>3. \A i \in 1 .. 5 : Typed(b[i], m) /\ (b[i].do = "version" <=> i = 1)
    BY <2>1 DEF Typed
  <2>4. \A i \in 1 .. 5 : Fills(b[i]) => place[b[i].slot] = i
    BY <2>1 DEF Fills
  <2> HIDE DEF place
  <2>5. Tail1(b, m)
    BY <2>1, <2>2, <2>3, <2>4 DEF Tail1
  <2> QED
    BY <2>5 DEF b
<1>3. Tail1(<< LookUp(m), Rows("mixed", m, m), Rows("output", m, m), Read("movements", m, m) >>, m)
  <2> DEFINE b == << LookUp(m), Rows("mixed", m, m), Rows("output", m, m), Read("movements", m, m) >>
             S == { LookUp(m), Rows("mixed", m, m), Rows("output", m, m), Read("movements", m, m) }
             place == [mixed |-> 2, output |-> 3, movements |-> 4]
  <2>1. /\ b \in Seq(S) /\ Len(b) = 4 /\ b[1] = LookUp(m) /\ b[2] = Rows("mixed", m, m)
        /\ b[3] = Rows("output", m, m) /\ b[4] = Read("movements", m, m)
    OBVIOUS
  <2> HIDE DEF b, S
  <2>2. b \in Seq(ToSet(b))
    BY <2>1, OwnSequence
  <2>3. \A i \in 1 .. 4 : Typed(b[i], m) /\ (b[i].do = "version" <=> i = 1)
    BY <2>1 DEF Typed
  <2>4. \A i \in 1 .. 4 : Fills(b[i]) => place[b[i].slot] = i
    BY <2>1 DEF Fills
  <2> HIDE DEF place
  <2>5. Tail1(b, m)
    BY <2>1, <2>2, <2>3, <2>4 DEF Tail1
  <2> QED
    BY <2>5 DEF b
<1> HIDE DEF LookUp, Read, Rows
<1>4. Tail1(<<LookUp(m), Read("pnl", from, m)>>, m)
  BY <1>1, Zenon
<1>5. Tail1(<<LookUp(m), Read("sheet", 1, m)>>, m)
  <2>1. 1 \in Int
    OBVIOUS
  <2> QED
    BY <1>1, <2>1, Zenon
<1> QED
  BY <1>2, <1>3, <1>4, <1>5

\* The months a pack compiles a metric for: among them the year's up to its own.
LEMMA MetricMonthsAre ==
  ASSUME NEW m \in Int
  PROVE  /\ MetricMonths(m) \in Seq(Int)
         /\ \A k \in FiscalYearStart(m) .. m : \E i \in 1 .. Len(MetricMonths(m)) : MetricMonths(m)[i] = k
<1> DEFINE x == <<m, m - 1, m - 12>>
           y == MonthsInRange(FiscalYearStart(m), m - 2)
           z == MonthsInRange(FiscalYearStart(m - 12), m - 13)
<1>1. \A k \in Int : FiscalYearStart(k) \in Int
  <2> SUFFICES ASSUME NEW k \in Int PROVE FiscalYearStart(k) \in Int
    OBVIOUS
  <2>1. k - April \in Int
    BY BoundsAssumption
  <2>2. (k - April) % 12 \in Int
    BY <2>1
  <2> QED
    BY <2>2 DEF FiscalYearStart
<1>2. ASSUME NEW a \in Int, NEW b \in Int
      PROVE  /\ MonthsInRange(a, b) \in Seq(Int)
             /\ \A k \in a .. b : \E i \in 1 .. Len(MonthsInRange(a, b)) : MonthsInRange(a, b)[i] = k
  <2> DEFINE n == IF a <= b THEN b - a + 1 ELSE 0
             s == MonthsInRange(a, b)
  <2>1. n \in Nat /\ s = [i \in 1 .. n |-> a + i - 1]
    BY DEF MonthsInRange
  <2>2. s \in Seq(Int) /\ Len(s) = n /\ \A i \in 1 .. n : s[i] = a + i - 1
    BY <2>1
  <2>3. ASSUME NEW k \in a .. b PROVE \E i \in 1 .. Len(s) : s[i] = k
    <3>1. k - a + 1 \in 1 .. n /\ a + (k - a + 1) - 1 = k
      BY <2>3
    <3> HIDE DEF s, n
    <3>2. s[k - a + 1] = k /\ k - a + 1 \in 1 .. Len(s)
      BY <2>2, <3>1
    <3> QED
      BY <3>2
  <2> QED
    BY <2>2, <2>3
<1>3. /\ x \in Seq(Int) /\ Len(x) = 3 /\ x[1] = m /\ x[2] = m - 1
      /\ y \in Seq(Int) /\ z \in Seq(Int)
      /\ \A k \in FiscalYearStart(m) .. m - 2 : \E i \in 1 .. Len(y) : y[i] = k
  <2>1. x \in Seq(Int) /\ Len(x) = 3 /\ x[1] = m /\ x[2] = m - 1
    OBVIOUS
  <2>2. FiscalYearStart(m) \in Int /\ FiscalYearStart(m - 12) \in Int /\ m - 2 \in Int /\ m - 13 \in Int
    BY <1>1
  <2> QED
    BY <1>2, <2>1, <2>2
<1>4. MetricMonths(m) = (x \o y) \o z
  BY DEF MetricMonths
<1> HIDE DEF x, y, z
<1>5. /\ x \o y \in Seq(Int) /\ Len(x \o y) = 3 + Len(y) /\ Len(y) \in Nat
      /\ \A i \in 1 .. 3 : (x \o y)[i] = x[i]
      /\ \A i \in 1 .. Len(y) : (x \o y)[i + 3] = y[i]
  <2>2. x \in Seq(Int) /\ y \in Seq(Int)
    BY <1>3
  <2>1. /\ x \o y \in Seq(Int) /\ Len(x \o y) = Len(x) + Len(y) /\ Len(y) \in Nat
        /\ \A i \in 1 .. Len(x) : (x \o y)[i] = x[i]
        /\ \A i \in 1 .. Len(y) : (x \o y)[i + Len(x)] = y[i]
    BY <2>2
  <2> QED
    BY <1>3, <2>1
<1> DEFINE u == x \o y
           a == u \o z
<1>6. u \in Seq(Int) /\ Len(u) \in Nat /\ z \in Seq(Int) /\ Len(z) \in Nat
  BY <1>3, <1>5
<1> HIDE DEF u
<1>7. /\ a \in Seq(Int) /\ Len(a) = Len(u) + Len(z)
      /\ \A i \in 1 .. Len(u) : a[i] = u[i]
  BY <1>6
<1> HIDE DEF a
<1>8. ASSUME NEW k \in FiscalYearStart(m) .. m PROVE \E i \in 1 .. Len(a) : a[i] = k
  <2>0. \A i \in 1 .. Len(u) : i \in 1 .. Len(a)
    BY <1>6, <1>7
  <2>1. SUFFICES \E i \in 1 .. Len(u) : u[i] = k
    BY <1>7, <2>0
  <2>2. CASE k = m
    BY <1>3, <1>5, <2>2 DEF u
  <2>3. CASE k = m - 1
    BY <1>3, <1>5, <2>3 DEF u
  <2>4. CASE k # m /\ k # m - 1
    <3>1. k \in FiscalYearStart(m) .. m - 2
      BY <1>1, <2>4
    <3>2. PICK i \in 1 .. Len(y) : y[i] = k
      BY <1>3, <3>1
    <3>3. i + 3 \in 1 .. Len(u) /\ u[i + 3] = k
      BY SMTT(30), <1>5, <3>2 DEF u
    <3> QED
      BY <3>3
  <2> QED
    BY <2>2, <2>3, <2>4
<1>9. MetricMonths(m) = a
  BY <1>4 DEF a, u
<1> QED
  BY <1>7, <1>8, <1>9

\* generate_pack's statements.
PackReads(m) ==
  { Gate(m, "reconciled"), LookUp(m),
    Read("pnl", m, m), Read("pnl_prior_month", m - 1, m - 1), Read("pnl_ytd", FiscalYearStart(m), m),
    Read("sheet", 1, m), Read("sheet_prior_month", 1, m - 1),
    Read("movements", m, m), Read("opening", 1, m - 1), Read("closing", 1, m) }

LEMMA PackShaped ==
  ASSUME NEW m \in Int
  PROVE  /\ Shaped(PackSteps(m), m)
         /\ \A step \in PackReads(m) : Has(PackSteps(m), step)
         /\ \A k \in FiscalYearStart(m) .. m : Has(PackSteps(m), Metric(k))
         /\ Has(PackSteps(m), Cover(m))
<1> DEFINE e == << Gate(m, "reconciled"), LookUp(m),
                   Read("pnl", m, m), Read("pnl_prior_month", m - 1, m - 1), Read("pnl_ytd", FiscalYearStart(m), m),
                   Read("sheet", 1, m), Read("sheet_prior_month", 1, m - 1),
                   Read("movements", m, m), Read("opening", 1, m - 1), Read("closing", 1, m) >>
           months == MetricMonths(m)
           c == [i \in DOMAIN months |-> Metric(months[i])]
           d == <<Cover(m)>>
           place == [ pnl |-> 3, pnl_prior_month |-> 4, pnl_ytd |-> 5, sheet |-> 6, sheet_prior_month |-> 7,
                      movements |-> 8, opening |-> 9, closing |-> 10, cover |-> 11 + Len(months) ]
<1>1. FiscalYearStart(m) \in Int
  <2>1. m - April \in Int
    BY BoundsAssumption
  <2>2. (m - April) % 12 \in Int
    BY <2>1
  <2> QED
    BY <2>2 DEF FiscalYearStart
<1>2. /\ e \in Seq(PackReads(m)) /\ Len(e) = 10
      /\ e[1] = Gate(m, "reconciled") /\ e[2] = LookUp(m) /\ e[3] = Read("pnl", m, m)
      /\ e[4] = Read("pnl_prior_month", m - 1, m - 1) /\ e[5] = Read("pnl_ytd", FiscalYearStart(m), m)
      /\ e[6] = Read("sheet", 1, m) /\ e[7] = Read("sheet_prior_month", 1, m - 1) /\ e[8] = Read("movements", m, m)
      /\ e[9] = Read("opening", 1, m - 1) /\ e[10] = Read("closing", 1, m)
  <2> HIDE DEF Gate, LookUp, Read
  <2> QED
    BY DEF PackReads
<1>3. PackSteps(m) = (e \o c) \o d
  BY DEF PackSteps
<1>4. d \in Seq({Cover(m)}) /\ Len(d) = 1 /\ d[1] = Cover(m)
  OBVIOUS
<1> HIDE DEF e, d, months
<1>5. /\ months \in Seq(Int) /\ Len(months) \in Nat
      /\ \A k \in FiscalYearStart(m) .. m : \E i \in 1 .. Len(months) : months[i] = k
  BY MetricMonthsAre DEF months
<1>6. /\ c \in Seq({ Metric(months[i]) : i \in 1 .. Len(months) }) /\ Len(c) = Len(months)
      /\ \A i \in 1 .. Len(months) : c[i] = Metric(months[i]) /\ months[i] \in Int
  <2> HIDE DEF Metric
  <2>1. DOMAIN months = 1 .. Len(months)
    BY <1>5
  <2> QED
    BY <1>5, <2>1
<1> HIDE DEF c
<1> DEFINE n == Len(months)
           u == e \o c
           a == u \o d
<1>7. /\ e \in Seq(ToSet(e)) /\ c \in Seq(ToSet(c)) /\ d \in Seq(ToSet(d))
  BY <1>2, <1>4, <1>6, OwnSequence
<1>8. /\ u \in Seq(ToSet(u)) /\ Len(u) = 10 + n
      /\ \A i \in 1 .. 10 : u[i] = e[i]
      /\ \A i \in 1 .. n : u[i + 10] = c[i]
  <2>1. /\ u \in Seq(ToSet(u)) /\ Len(u) = Len(e) + Len(c)
        /\ \A i \in 1 .. Len(e) : u[i] = e[i]
        /\ \A i \in 1 .. Len(c) : u[i + Len(e)] = c[i]
    BY <1>7, Joined
  <2> HIDE DEF u
  <2> QED
    BY <1>2, <1>6, <2>1
<1> HIDE DEF u
<1>9. /\ a \in Seq(ToSet(a)) /\ Len(a) = 11 + n
      /\ \A i \in 1 .. 10 + n : a[i] = u[i]
      /\ a[11 + n] = Cover(m)
  <2>1. /\ a \in Seq(ToSet(a)) /\ Len(a) = Len(u) + Len(d)
        /\ \A i \in 1 .. Len(u) : a[i] = u[i]
        /\ \A i \in 1 .. Len(d) : a[i + Len(u)] = d[i]
    <3>1. u \in Seq(ToSet(u)) /\ d \in Seq(ToSet(d))
      BY <1>7, <1>8
    <3> QED
      BY <3>1, Joined
  <2> HIDE DEF a
  <2>2. a[1 + Len(u)] = d[1]
    BY <1>4, <2>1
  <2>3. Len(a) = 11 + n /\ 1 + Len(u) = 11 + n
    BY <1>4, <1>5, <1>8, <2>1
  <2> QED
    BY <1>4, <1>8, <2>1, <2>2, <2>3
<1> HIDE DEF a
<1>10. n \in Nat
  BY <1>5
<1> HIDE DEF n
<1>11. \A i \in 1 .. 10 : a[i] = e[i]
  BY <1>8, <1>9, <1>10
<1>12. \A i \in 1 .. n : a[i + 10] = Metric(months[i]) /\ months[i] \in Int
  <2> SUFFICES ASSUME NEW i \in 1 .. n PROVE a[i + 10] = Metric(months[i]) /\ months[i] \in Int
    OBVIOUS
  <2>1. i + 10 \in 1 .. 10 + n
    BY <1>10
  <2>2. a[i + 10] = c[i]
    BY <1>8, <1>9, <2>1
  <2> QED
    BY <1>6, <2>2 DEF n
<1>13. \A i \in 1 .. Len(a) : \/ i \in 1 .. 10
                              \/ i - 10 \in 1 .. n /\ a[i] = Metric(months[i - 10]) /\ months[i - 10] \in Int
                              \/ i = 11 + n /\ a[i] = Cover(m)
  <2> SUFFICES ASSUME NEW i \in 1 .. Len(a), i \notin 1 .. 10, i # 11 + n
               PROVE  i - 10 \in 1 .. n /\ a[i] = Metric(months[i - 10]) /\ months[i - 10] \in Int
    BY <1>9
  <2>1. i - 10 \in 1 .. n /\ (i - 10) + 10 = i
    BY <1>9, <1>10
  <2> QED
    BY <1>12, <2>1
<1>14. \A i \in 1 .. 10 : /\ Typed(e[i], m)
                          /\ e[i].do = "version" => i = 2
                          /\ e[i].do = "read" => 2 < i
                          /\ Fills(e[i]) => place[e[i].slot] = i
  <2> SUFFICES ASSUME NEW i \in 1 .. 10
               PROVE  /\ Typed(e[i], m)
                      /\ e[i].do = "version" => i = 2
                      /\ e[i].do = "read" => 2 < i
                      /\ Fills(e[i]) => place[e[i].slot] = i
    OBVIOUS
  <2>1. CASE i = 1
    BY <1>2, <2>1 DEF Typed, Fills, Gate
  <2>2. CASE i = 2
    BY <1>2, <2>2 DEF Typed, Fills, LookUp
  <2>3. CASE i = 3
    BY <1>2, <2>3 DEF Typed, Fills, Read
  <2>4. CASE i = 4
    BY <1>2, <2>4 DEF Typed, Fills, Read
  <2>5. CASE i = 5
    BY <1>1, <1>2, <2>5 DEF Typed, Fills, Read
  <2>6. CASE i = 6
    BY <1>2, <2>6 DEF Typed, Fills, Read
  <2>7. CASE i = 7
    BY <1>2, <2>7 DEF Typed, Fills, Read
  <2>8. CASE i = 8
    BY <1>2, <2>8 DEF Typed, Fills, Read
  <2>9. CASE i = 9
    BY <1>2, <2>9 DEF Typed, Fills, Read
  <2>10. CASE i = 10
    BY <1>2, <2>10 DEF Typed, Fills, Read
  <2> QED
    BY <2>1, <2>2, <2>3, <2>4, <2>5, <2>6, <2>7, <2>8, <2>9, <2>10
<1>15. place["cover"] = 11 + n
  BY DEF n
<1> HIDE DEF place
<1>16. ASSUME NEW i \in 1 .. Len(a)
       PROVE  /\ Typed(a[i], m)
              /\ a[i].do = "version" => i = 2
              /\ a[i].do = "read" => 2 < i
              /\ Fills(a[i]) => place[a[i].slot] = i
  <2>1. CASE i \in 1 .. 10
    BY <1>11, <1>14, <2>1
  <2>2. CASE i - 10 \in 1 .. n /\ a[i] = Metric(months[i - 10]) /\ months[i - 10] \in Int
    BY <2>2 DEF Typed, Fills, Metric
  <2>3. CASE i = 11 + n /\ a[i] = Cover(m)
    BY <1>15, <2>3 DEF Typed, Fills, Cover
  <2> QED
    BY <1>13, <2>1, <2>2, <2>3
<1>17. Shaped(a, m)
  <2>1. \E p : \A i \in 1 .. Len(a) : Fills(a[i]) => p[a[i].slot] = i
    BY <1>16
  <2>2. \E v \in Int : \A i \in 1 .. Len(a) : (a[i].do = "version" => i = v) /\ (a[i].do = "read" => v < i)
    <3>1. 2 \in Int
      OBVIOUS
    <3> QED
      BY <1>16, <3>1
  <2> QED
    BY <1>9, <1>16, <2>1, <2>2 DEF Shaped
<1>18. ASSUME NEW step \in PackReads(m) PROVE Has(a, step)
  <2>1. PICK i \in 1 .. 10 : e[i] = step
    <3> HIDE DEF Gate, LookUp, Read
    <3> QED
      BY <1>2 DEF PackReads
  <2>2. i \in 1 .. Len(a) /\ a[i] = step
    BY <1>9, <1>10, <1>11, <2>1
  <2> QED
    BY <2>2 DEF Has
<1>19. ASSUME NEW k \in FiscalYearStart(m) .. m PROVE Has(a, Metric(k))
  <2>1. PICK i \in 1 .. n : months[i] = k
    BY <1>5 DEF n
  <2>2. i + 10 \in 1 .. Len(a) /\ a[i + 10] = Metric(k)
    BY <1>9, <1>10, <1>12, <2>1
  <2> QED
    BY <2>2 DEF Has
<1>20. Has(a, Cover(m))
  <2>1. 11 + n \in 1 .. Len(a)
    BY <1>9, <1>10
  <2> QED
    BY <1>9, <2>1 DEF Has
<1>21. PackSteps(m) = a
  BY <1>3 DEF a, u
<1> QED
  BY <1>17, <1>18, <1>19, <1>20, <1>21

\* What every request's agenda has.
Asked(r) == r.kind \in Kinds /\ r.from \in Months /\ r.to \in Months /\ r.from <= r.to

LEMMA AgendaShaped ==
  ASSUME NEW r, Asked(r)
  PROVE  /\ Shaped(Steps(r), r.to)
         /\ r.kind \in {"pnl", "ladder"} => \A k \in r.from .. r.to : Has(Steps(r), Gate(k, "mapped"))
         /\ r.kind \in {"sheet", "operating"} => Has(Steps(r), Gate(r.to, "mapped"))
         /\ r.kind = "sheet" => Has(Steps(r), Read("sheet", 1, r.to))
         /\ r.kind = "operating" => Has(Steps(r), Rows("mixed", r.to, r.to))
         /\ r.kind = "pack" => Steps(r) = PackSteps(r.to)
<1> DEFINE m == r.to
           f == r.from
<1>1. m \in Int /\ f \in Int /\ f <= m /\ m <= m /\ 1 \in Int
  BY NumMonthsAssumption DEF Asked, Months
<1>2. CASE r.kind = "pnl"
  <2> DEFINE b == <<LookUp(m), Read("pnl", f, m)>>
  <2>1. Tail1(b, m)
    BY <1>1, TailsShaped, Zenon
  <2>2. Steps(r) = GateAll(f, m) \o b
    BY <1>2 DEF Steps
  <2> HIDE DEF b, m, f
  <2>3. Shaped(Steps(r), m) /\ \A k \in f .. m : Has(Steps(r), Gate(k, "mapped"))
    BY <1>1, <2>1, <2>2, ScreenShaped
  <2> QED
    BY <1>2, <2>3 DEF m, f
<1>3. CASE r.kind = "sheet"
  <2> DEFINE b == <<LookUp(m), Read("sheet", 1, m)>>
  <2>1. Tail1(b, m)
    BY <1>1, TailsShaped, Zenon
  <2>2. Steps(r) = GateAll(m, m) \o b
    BY <1>3 DEF Steps
  <2>3. Len(b) = 2 /\ b[2] = Read("sheet", 1, m)
    BY DEF LookUp
  <2> HIDE DEF b, m, f
  <2>4. /\ Shaped(Steps(r), m) /\ \A k \in m .. m : Has(Steps(r), Gate(k, "mapped"))
        /\ \A i \in 1 .. Len(b) : Has(Steps(r), b[i])
    BY <1>1, <2>1, <2>2, ScreenShaped
  <2>5. m \in m .. m /\ 2 \in 1 .. Len(b)
    BY <1>1, <2>3
  <2>6. Has(Steps(r), Gate(m, "mapped")) /\ Has(Steps(r), b[2])
    BY <2>4, <2>5
  <2> QED
    BY <1>3, <2>3, <2>4, <2>6 DEF m, f
<1>4. CASE r.kind = "ladder"
  <2> DEFINE b == << LookUp(m), Rows("order", f, m), Read("pnl", f, m),
                     Rows("order_again", f, m), Read("movements", f, m) >>
  <2>1. Tail1(b, m)
    BY <1>1, TailsShaped, Zenon
  <2>2. Steps(r) = GateAll(f, m) \o b
    BY <1>4 DEF Steps
  <2> HIDE DEF b, m, f
  <2>3. Shaped(Steps(r), m) /\ \A k \in f .. m : Has(Steps(r), Gate(k, "mapped"))
    BY <1>1, <2>1, <2>2, ScreenShaped
  <2> QED
    BY <1>4, <2>3 DEF m, f
<1>5. CASE r.kind = "operating"
  <2> DEFINE b == << LookUp(m), Rows("mixed", m, m), Rows("output", m, m), Read("movements", m, m) >>
  <2>1. Tail1(b, m)
    BY <1>1, TailsShaped, Zenon
  <2>2. Steps(r) = GateAll(m, m) \o b
    BY <1>5 DEF Steps
  <2>3. Len(b) = 4 /\ b[2] = Rows("mixed", m, m)
    OBVIOUS
  <2> HIDE DEF b, m, f
  <2>4. /\ Shaped(Steps(r), m) /\ \A k \in m .. m : Has(Steps(r), Gate(k, "mapped"))
        /\ \A i \in 1 .. Len(b) : Has(Steps(r), b[i])
    BY <1>1, <2>1, <2>2, ScreenShaped
  <2>5. m \in m .. m /\ 2 \in 1 .. Len(b)
    BY <1>1, <2>3
  <2>6. Has(Steps(r), Gate(m, "mapped")) /\ Has(Steps(r), b[2])
    BY <2>4, <2>5
  <2> QED
    BY <1>5, <2>3, <2>4, <2>6 DEF m, f
<1>6. CASE r.kind = "pack"
  <2>1. Steps(r) = PackSteps(m)
    BY <1>6 DEF Steps
  <2> HIDE DEF m
  <2>2. Shaped(Steps(r), m)
    BY <1>1, <2>1, PackShaped
  <2> QED
    BY <1>6, <2>1, <2>2 DEF m
<1> QED
  BY <1>2, <1>3, <1>4, <1>5, <1>6 DEF Asked, Kinds

-----------------------------------------------------------------------------
(* What a request has in hand.                                             *)

LEMMA VouchersTie ==
  ASSUME NEW E \in SUBSET Vouchers
  PROVE  Entries(E) /\ \A e \in E : SumFunction(e.lines) = 0 /\ DOMAIN e.lines \subseteq Accounts
<1> DEFINE D == { d \in DOMAIN Documents : Documents[d].kind = "voucher" }
<1>1. IsFiniteSet(D)
  BY DocumentsAssumption, FS_Subset
<1>2. Vouchers = { Documents[d] : d \in D }
  BY DEF Vouchers
<1> HIDE DEF D
<1>3. IsFiniteSet(Vouchers)
  BY <1>1, <1>2, ImageFinite
<1>4. IsFiniteSet(E)
  BY <1>3, FS_Subset
<1>5. ASSUME NEW e \in E
      PROVE  /\ e.month \in Int /\ IsFiniteSet(DOMAIN e.lines) /\ \A a \in DOMAIN e.lines : e.lines[a] \in Int
             /\ SumFunction(e.lines) = 0 /\ DOMAIN e.lines \subseteq Accounts
  <2>1. PICK d \in DOMAIN Documents : Documents[d].kind = "voucher" /\ e = Documents[d]
    BY <1>2 DEF D
  <2>2. e.month \in Months
    BY <2>1, DocumentsAssumption
  <2>3. e.month \in Int
    BY <2>2 DEF Months
  <2>4. /\ IsFiniteSet(DOMAIN e.lines) /\ \A a \in DOMAIN e.lines : e.lines[a] \in Int
        /\ SumFunction(e.lines) = 0 /\ DOMAIN e.lines \subseteq Accounts
    BY <2>1, DocumentsAssumption
  <2> QED
    BY <2>3, <2>4
<1> QED
  BY <1>4, <1>5 DEF Entries

\* A read of a window needs no entry outside it.
LEMMA WindowIsEnough ==
  ASSUME NEW E, NEW v, NEW from, NEW to
  PROVE  ClassTotals(Window(E, from, to), v, from, to) = ClassTotals(E, v, from, to)
<1> DEFINE in(X) == { e \in X : e.month \in from .. to }
           T(read) == LET on(a) == { e \in read : a \in DOMAIN e.lines }
                          joined == { a \in DOMAIN v : on(a) # {} }
                          posted == [a \in joined |-> SumFunction([e \in on(a) |-> e.lines[a]])]
                      IN  [c \in { v[a] : a \in joined } |-> SumFunctionOnSet(posted, { a \in joined : v[a] = c })]
<1>1. \A X : ClassTotals(X, v, from, to) = T(in(X))
  BY DEF ClassTotals
<1>2. in(Window(E, from, to)) = in(E)
  BY DEF Window
<1> HIDE DEF in, T
<1> QED
  BY <1>1, <1>2, Zenon

\* What is posted in sight of a read to accounts without a row.
Over(k, slot) ==
  SumFunction([e \in k.got[slot].of |-> SumFunctionOnSet(e.lines, DOMAIN e.lines \ DOMAIN k.rows)])

\* The sheet drawn up from what a read returned.
LEMMA SheetOfRead ==
  ASSUME NEW k, NEW w, NEW slot, NEW from \in Int, NEW to \in Int, FromBooks(slot, from, to, k, w)
  PROVE  Sheet(k.got[slot].totals).balances <=> Over(k, slot) = 0
<1> DEFINE E == k.got[slot].of
           v == k.rows
<1>1. E \in SUBSET Vouchers /\ Window(E, from, to) = E /\ k.got[slot].totals = ClassTotals(E, v, from, to)
  BY DEF FromBooks, Window
<1>2. Entries(E) /\ \A e \in E : SumFunction(e.lines) = 0
  BY <1>1, VouchersTie
<1> HIDE DEF E, v
<1>3. Sheet(ClassTotals(E, v, from, to)).balances
        <=> SumFunction([e \in Window(E, from, to) |-> LeftOutOf(e, v)]) = 0
  BY <1>2, SheetOfTiedEntries
<1>4. SumFunction([e \in Window(E, from, to) |-> LeftOutOf(e, v)])
        = SumFunction([e \in E |-> SumFunctionOnSet(e.lines, DOMAIN e.lines \ DOMAIN v)])
  BY <1>1 DEF LeftOutOf
<1>5. Over(k, slot) = SumFunction([e \in E |-> SumFunctionOnSet(e.lines, DOMAIN e.lines \ DOMAIN v)])
  BY DEF Over, E, v
<1> QED
  BY <1>1, <1>3, <1>4, <1>5, Zenon DEF E, v

\* What a read returned, when nothing was committed since.
LEMMA ReadNow ==
  ASSUME NEW k, NEW w, NEW slot, NEW from, NEW to, FromBooks(slot, from, to, k, w), k.began = w.moves
  PROVE  k.got[slot].totals = ClassTotals(w.vouchers, k.rows, from, to)
<1>1. k.got[slot].of = Window(w.vouchers, from, to)
      /\ k.got[slot].totals = ClassTotals(k.got[slot].of, k.rows, from, to)
  BY DEF FromBooks
<1> QED
  BY <1>1, WindowIsEnough

\* Every step of a finished agenda left what it leaves.
LEMMA TookEach ==
  ASSUME NEW a, NEW k, NEW w, InHand(a, Len(a), k, w), NEW step, Has(a, step)
  PROVE  Took(step, k, w)
BY DEF InHand, Has

LEMMA FiscalYear ==
  ASSUME NEW m \in Int
  PROVE  FiscalYearStart(m) \in Int /\ FiscalYearStart(m) <= m
<1>1. m - April \in Int
  BY BoundsAssumption
<1>2. (m - April) % 12 \in Int /\ (m - April) % 12 >= 0
  BY <1>1
<1> QED
  BY <1>2 DEF FiscalYearStart

LEMMA SumYearSame ==
  ASSUME NEW m, NEW f, NEW g, \A j \in FiscalYearStart(m) .. m : f[j] = g[j]
  PROVE  SumYear(f, m) = SumYear(g, m)
<1> DEFINE year == FiscalYearStart(m) .. m
           x == [j \in year |-> f[j].ebitda]
           y == [j \in year |-> g[j].ebitda]
<1>1. x = y
  OBVIOUS
<1>2. CASE \E j \in year : f[j].status # "ok"
  <2>1. \E j \in year : g[j].status # "ok"
    BY <1>2
  <2> QED
    BY <1>2, <2>1 DEF SumYear
<1>3. CASE \A j \in year : f[j].status = "ok"
  <2>1. \A j \in year : g[j].status = "ok"
    BY <1>3
  <2>2. SumYear(f, m) = [status |-> "ok", value |-> SumFunction(x)]
    BY <1>3 DEF SumYear
  <2>3. SumYear(g, m) = [status |-> "ok", value |-> SumFunction(y)]
    BY <2>1 DEF SumYear
  <2> HIDE DEF x, y
  <2> QED
    BY <1>1, <2>2, <2>3
<1> QED
  BY <1>2, <1>3, Zenon

\* _strip_non_numeric, field by field.
LEMMA StrippedIs ==
  ASSUME NEW s, s = [x \in SectionNames |-> s[x]]
  PROVE  Stripped(s) = [ kind |-> s.kind, profile |-> s.profile, month |-> s.month, summary |-> "none",
                         reconciliation_status |-> s.reconciliation_status, freshness |-> 0,
                         tile |-> s.tile, tile_ytd |-> s.tile_ytd, pnl |-> s.pnl, pnl_prior_month |-> s.pnl_prior_month,
                         pnl_ytd |-> s.pnl_ytd, sheet |-> s.sheet, sheet_prior_month |-> s.sheet_prior_month,
                         cash_flow |-> s.cash_flow, balanced |-> s.balanced ]
<1> DEFINE r == [ kind |-> s.kind, profile |-> s.profile, month |-> s.month, summary |-> "none",
                  reconciliation_status |-> s.reconciliation_status, freshness |-> 0,
                  tile |-> s.tile, tile_ytd |-> s.tile_ytd, pnl |-> s.pnl, pnl_prior_month |-> s.pnl_prior_month,
                  pnl_ytd |-> s.pnl_ytd, sheet |-> s.sheet, sheet_prior_month |-> s.sheet_prior_month,
                  cash_flow |-> s.cash_flow, balanced |-> s.balanced ]
           kept(x) == IF x = "freshness" THEN 0 ELSE IF x = "summary" THEN "none" ELSE s[x]
<1>1. Stripped(s) = [x \in SectionNames |-> kept(x)]
  BY DEF Stripped
<1>2. r = [x \in SectionNames |-> r[x]]
  BY DEF SectionNames
<1>3. \A x \in SectionNames : r[x] = kept(x)
  BY DEF SectionNames
<1> HIDE DEF r, kept
<1>4. Stripped(s) = r
  BY <1>1, <1>2, <1>3
<1> QED
  BY <1>4 DEF r

\* What a pack has read by its end.
ReadFor(m, k, w) ==
  /\ FromBooks("pnl", m, m, k, w) /\ FromBooks("pnl_prior_month", m - 1, m - 1, k, w)
  /\ FromBooks("pnl_ytd", FiscalYearStart(m), m, k, w) /\ FromBooks("sheet", 1, m, k, w)
  /\ FromBooks("sheet_prior_month", 1, m - 1, k, w) /\ FromBooks("movements", m, m, k, w)
  /\ FromBooks("opening", 1, m - 1, k, w) /\ FromBooks("closing", 1, m, k, w)
  /\ Reached(w, m, "reconciled") /\ Version(k.rows)
  /\ "cover" \in DOMAIN k.got
  /\ k.began = w.moves =>
       /\ k.rows # Nothing /\ k.rows = w.mapping[m]
       /\ k.got["cover"] = [status |-> w.status[m], freshness |-> w.moves]
       /\ \A j \in FiscalYearStart(m) .. m : k.compiled[j] = ResolvedIn(w, j)

LEMMA PackHasRead ==
  ASSUME NEW m \in Int, NEW k, NEW w, InHand(PackSteps(m), Len(PackSteps(m)), k, w)
  PROVE  ReadFor(m, k, w)
<1> DEFINE a == PackSteps(m)
<1>1. /\ \A step \in PackReads(m) : Took(step, k, w)
      /\ \A j \in FiscalYearStart(m) .. m : Took(Metric(j), k, w)
      /\ Took(Cover(m), k, w)
  BY PackShaped, TookEach
<1>2. /\ Took(Gate(m, "reconciled"), k, w) /\ Took(LookUp(m), k, w)
      /\ Took(Read("pnl", m, m), k, w) /\ Took(Read("pnl_prior_month", m - 1, m - 1), k, w)
      /\ Took(Read("pnl_ytd", FiscalYearStart(m), m), k, w) /\ Took(Read("sheet", 1, m), k, w)
      /\ Took(Read("sheet_prior_month", 1, m - 1), k, w) /\ Took(Read("movements", m, m), k, w)
      /\ Took(Read("opening", 1, m - 1), k, w) /\ Took(Read("closing", 1, m), k, w)
  BY <1>1 DEF PackReads
<1>3. \A slot, from, to : Took(Read(slot, from, to), k, w) => FromBooks(slot, from, to, k, w)
  BY DEF Took, Read
<1>4. Reached(w, m, "reconciled")
  BY <1>2 DEF Took, Gate
<1>5. Version(k.rows) /\ (k.began = w.moves => k.rows # Nothing /\ k.rows = w.mapping[m])
  BY <1>2 DEF Took, LookUp
<1>6. /\ "cover" \in DOMAIN k.got
      /\ k.began = w.moves => k.got["cover"] = [status |-> w.status[m], freshness |-> w.moves]
  BY <1>1 DEF Took, Cover
<1>7. k.began = w.moves => \A j \in FiscalYearStart(m) .. m : k.compiled[j] = ResolvedIn(w, j)
  <2>1. \A j \in FiscalYearStart(m) .. m : j \in DOMAIN k.compiled
    BY <1>1 DEF Took, Metric
  <2> QED
    BY <2>1 DEF InHand
<1>8. /\ FromBooks("pnl", m, m, k, w) /\ FromBooks("pnl_prior_month", m - 1, m - 1, k, w)
      /\ FromBooks("pnl_ytd", FiscalYearStart(m), m, k, w) /\ FromBooks("sheet", 1, m, k, w)
      /\ FromBooks("sheet_prior_month", 1, m - 1, k, w) /\ FromBooks("movements", m, m, k, w)
      /\ FromBooks("opening", 1, m - 1, k, w) /\ FromBooks("closing", 1, m, k, w)
  BY <1>2, <1>3
<1> QED
  BY <1>4, <1>5, <1>6, <1>7, <1>8 DEF ReadFor

\* The fields of a pack as it is written.
LEMMA PackFields ==
  ASSUME NEW profile, NEW m, NEW k, NEW w
  PROVE  LET p == PackOf(profile, m, k, w)
             s == p.sections
             g == k.got
             t(slot) == g[slot].totals
         IN  /\ p = [sections |-> s, evidence |-> p.evidence] /\ s = [x \in SectionNames |-> s[x]]
             /\ p.evidence.began = k.began /\ p.evidence.ended = w.moves /\ p.evidence.rows = k.rows
             /\ p.evidence.got = g /\ p.evidence.mapping = w.mapping
             /\ s.kind = "pack" /\ s.profile = profile /\ s.month = m
             /\ s.tile = k.compiled[m] /\ s.tile_ytd = SumYear(k.compiled, m)
             /\ s.pnl = Pnl(profile, t("pnl")) /\ s.pnl_ytd = Pnl(profile, t("pnl_ytd"))
             /\ s.sheet = Sheet(t("sheet")) /\ s.sheet_prior_month = Sheet(t("sheet_prior_month"))
<1> DEFINE g == k.got
           t(slot) == g[slot].totals
           a5 == g["cover"].status
           a6 == g["cover"].freshness
           a7 == k.compiled[m]
           a8 == SumYear(k.compiled, m)
           a9 == Pnl(profile, t("pnl"))
           a10 == Pnl(profile, t("pnl_prior_month"))
           a11 == Pnl(profile, t("pnl_ytd"))
           a12 == Sheet(t("sheet"))
           a13 == Sheet(t("sheet_prior_month"))
           a14 == CashFlow(t("opening"), t("closing"), t("movements"), Pnl(profile, t("pnl")).pbt)
           a15 == Sheet(t("sheet")).balances
           s == [ kind |-> "pack", profile |-> profile, month |-> m, summary |-> "none", reconciliation_status |-> a5,
                  freshness |-> a6, tile |-> a7, tile_ytd |-> a8, pnl |-> a9, pnl_prior_month |-> a10,
                  pnl_ytd |-> a11, sheet |-> a12, sheet_prior_month |-> a13, cash_flow |-> a14, balanced |-> a15 ]
           ev == [began |-> k.began, found |-> k.found, ended |-> w.moves, rows |-> k.rows, got |-> g, mapping |-> w.mapping]
           p == PackOf(profile, m, k, w)
<1>1. p = [sections |-> s, evidence |-> ev]
  BY DEF PackOf, SectionsOf
<1>2. /\ a7 = k.compiled[m] /\ a8 = SumYear(k.compiled, m) /\ a9 = Pnl(profile, t("pnl"))
      /\ a11 = Pnl(profile, t("pnl_ytd")) /\ a12 = Sheet(t("sheet")) /\ a13 = Sheet(t("sheet_prior_month"))
  OBVIOUS
<1> HIDE DEF p, g, a5, a6, a7, a8, a9, a10, a11, a12, a13, a14, a15
<1>3. s = [x \in SectionNames |-> s[x]]
  BY DEF SectionNames
<1>4. /\ s.kind = "pack" /\ s.profile = profile /\ s.month = m
      /\ s.tile = a7 /\ s.tile_ytd = a8 /\ s.pnl = a9 /\ s.pnl_ytd = a11
      /\ s.sheet = a12 /\ s.sheet_prior_month = a13
  OBVIOUS
<1>5. /\ ev.began = k.began /\ ev.ended = w.moves /\ ev.rows = k.rows /\ ev.got = g /\ ev.mapping = w.mapping
  OBVIOUS
<1> HIDE DEF s, ev
<1>6. p.sections = s /\ p.evidence = ev
  BY <1>1
<1> DEFINE goal == /\ p = [sections |-> s, evidence |-> ev] /\ s = [x \in SectionNames |-> s[x]]
                   /\ ev.began = k.began /\ ev.ended = w.moves /\ ev.rows = k.rows
                   /\ ev.got = g /\ ev.mapping = w.mapping
                   /\ s.kind = "pack" /\ s.profile = profile /\ s.month = m
                   /\ s.tile = k.compiled[m] /\ s.tile_ytd = SumYear(k.compiled, m)
                   /\ s.pnl = Pnl(profile, t("pnl")) /\ s.pnl_ytd = Pnl(profile, t("pnl_ytd"))
                   /\ s.sheet = Sheet(t("sheet")) /\ s.sheet_prior_month = Sheet(t("sheet_prior_month"))
<1>7. goal
  BY <1>1, <1>2, <1>3, <1>4, <1>5
<1> HIDE DEF t
<1> QED
  BY <1>6, <1>7, Zenon DEF p, g, t

\* Generated while nothing is committed, a pack is what the state gives.
LEMMA PackIsNow ==
  ASSUME NEW profile, NEW m \in Int, NEW k, NEW w, ReadFor(m, k, w), k.began = w.moves
  PROVE  Stripped(SectionsOf(profile, m, k.got, k.compiled)) = Now(profile, m, w)
<1> DEFINE g == k.got
           memo == k.compiled
           t(slot) == g[slot].totals
           T(from, to) == ClassTotals(w.vouchers, w.mapping[m], from, to)
           now == [j \in FiscalYearStart(m) .. m |-> ResolvedIn(w, j)]
<1>1. k.rows = w.mapping[m]
  BY DEF ReadFor
<1>2. /\ t("pnl") = T(m, m) /\ t("pnl_prior_month") = T(m - 1, m - 1) /\ t("pnl_ytd") = T(FiscalYearStart(m), m)
      /\ t("sheet") = T(1, m) /\ t("sheet_prior_month") = T(1, m - 1) /\ t("movements") = T(m, m)
      /\ t("opening") = T(1, m - 1) /\ t("closing") = T(1, m)
  BY <1>1, ReadNow DEF ReadFor
<1>3. g["cover"].status = w.status[m] /\ memo[m] = ResolvedIn(w, m)
  BY FiscalYear DEF ReadFor
<1>4. SumYear(memo, m) = SumYear(now, m)
  <2>1. \A j \in FiscalYearStart(m) .. m : memo[j] = now[j]
    BY DEF ReadFor
  <2> HIDE DEF memo, now
  <2> QED
    BY <2>1, SumYearSame
<1> DEFINE N == [ kind |-> "pack", profile |-> profile, month |-> m, summary |-> "none",
                  reconciliation_status |-> w.status[m], freshness |-> 0,
                  tile |-> ResolvedIn(w, m), tile_ytd |-> SumYear(now, m),
                  pnl |-> Pnl(profile, T(m, m)), pnl_prior_month |-> Pnl(profile, T(m - 1, m - 1)),
                  pnl_ytd |-> Pnl(profile, T(FiscalYearStart(m), m)),
                  sheet |-> Sheet(T(1, m)), sheet_prior_month |-> Sheet(T(1, m - 1)),
                  cash_flow |-> CashFlow(T(1, m - 1), T(1, m), T(m, m), Pnl(profile, T(m, m)).pbt),
                  balanced |-> Sheet(T(1, m)).balances ]
           S == [ kind |-> "pack", profile |-> profile, month |-> m, summary |-> "none",
                  reconciliation_status |-> g["cover"].status, freshness |-> 0,
                  tile |-> memo[m], tile_ytd |-> SumYear(memo, m),
                  pnl |-> Pnl(profile, t("pnl")), pnl_prior_month |-> Pnl(profile, t("pnl_prior_month")),
                  pnl_ytd |-> Pnl(profile, t("pnl_ytd")),
                  sheet |-> Sheet(t("sheet")), sheet_prior_month |-> Sheet(t("sheet_prior_month")),
                  cash_flow |-> CashFlow(t("opening"), t("closing"), t("movements"), Pnl(profile, t("pnl")).pbt),
                  balanced |-> Sheet(t("sheet")).balances ]
<1>5. Now(profile, m, w) = N
  BY DEF Now
<1> DEFINE raw == SectionsOf(profile, m, g, memo)
<1>6. Stripped(raw) = S
  <2> DEFINE a5 == g["cover"].status
             a6 == g["cover"].freshness
             a7 == memo[m]
             a8 == SumYear(memo, m)
             a9 == Pnl(profile, t("pnl"))
             a10 == Pnl(profile, t("pnl_prior_month"))
             a11 == Pnl(profile, t("pnl_ytd"))
             a12 == Sheet(t("sheet"))
             a13 == Sheet(t("sheet_prior_month"))
             a14 == CashFlow(t("opening"), t("closing"), t("movements"), Pnl(profile, t("pnl")).pbt)
             a15 == Sheet(t("sheet")).balances
  <2>1. raw = [ kind |-> "pack", profile |-> profile, month |-> m, summary |-> "none", reconciliation_status |-> a5,
                freshness |-> a6, tile |-> a7, tile_ytd |-> a8, pnl |-> a9, pnl_prior_month |-> a10,
                pnl_ytd |-> a11, sheet |-> a12, sheet_prior_month |-> a13, cash_flow |-> a14, balanced |-> a15 ]
    BY DEF SectionsOf
  <2>2. S = [ kind |-> "pack", profile |-> profile, month |-> m, summary |-> "none", reconciliation_status |-> a5,
              freshness |-> 0, tile |-> a7, tile_ytd |-> a8, pnl |-> a9, pnl_prior_month |-> a10,
              pnl_ytd |-> a11, sheet |-> a12, sheet_prior_month |-> a13, cash_flow |-> a14, balanced |-> a15 ]
    OBVIOUS
  <2> HIDE DEF a5, a6, a7, a8, a9, a10, a11, a12, a13, a14, a15, S, raw
  <2>3. Stripped(raw)
          = [ kind |-> "pack", profile |-> profile, month |-> m, summary |-> "none", reconciliation_status |-> a5,
              freshness |-> 0, tile |-> a7, tile_ytd |-> a8, pnl |-> a9, pnl_prior_month |-> a10,
              pnl_ytd |-> a11, sheet |-> a12, sheet_prior_month |-> a13, cash_flow |-> a14, balanced |-> a15 ]
    <3>1. raw = [x \in SectionNames |-> raw[x]]
      BY <2>1 DEF SectionNames
    <3>2. /\ raw.kind = "pack" /\ raw.profile = profile /\ raw.month = m /\ raw.reconciliation_status = a5
          /\ raw.tile = a7 /\ raw.tile_ytd = a8 /\ raw.pnl = a9 /\ raw.pnl_prior_month = a10
          /\ raw.pnl_ytd = a11 /\ raw.sheet = a12 /\ raw.sheet_prior_month = a13 /\ raw.cash_flow = a14
          /\ raw.balanced = a15
      BY <2>1
    <3>3. Stripped(raw)
            = [ kind |-> raw.kind, profile |-> raw.profile, month |-> raw.month, summary |-> "none",
                reconciliation_status |-> raw.reconciliation_status, freshness |-> 0,
                tile |-> raw.tile, tile_ytd |-> raw.tile_ytd, pnl |-> raw.pnl, pnl_prior_month |-> raw.pnl_prior_month,
                pnl_ytd |-> raw.pnl_ytd, sheet |-> raw.sheet, sheet_prior_month |-> raw.sheet_prior_month,
                cash_flow |-> raw.cash_flow, balanced |-> raw.balanced ]
      BY <3>1, StrippedIs
    <3> QED
      BY <3>2, <3>3
  <2> QED
    BY <2>2, <2>3
<1> HIDE DEF g, memo, t, T, now
<1>7. S = N
  <2> DEFINE u1 == t("pnl")
             u2 == t("pnl_prior_month")
             u3 == t("pnl_ytd")
             u4 == t("sheet")
             u5 == t("sheet_prior_month")
             u6 == t("opening")
             u7 == t("closing")
             u8 == t("movements")
  <2>1. /\ u1 = T(m, m) /\ u2 = T(m - 1, m - 1) /\ u3 = T(FiscalYearStart(m), m) /\ u4 = T(1, m)
        /\ u5 = T(1, m - 1) /\ u6 = T(1, m - 1) /\ u7 = T(1, m) /\ u8 = T(m, m)
    BY <1>2
  <2> QED
    BY <1>3, <1>4, <2>1
<1> HIDE DEF S, N
<1> QED
  BY <1>5, <1>6, <1>7 DEF g, memo

LEMMA PackIsWritten ==
  ASSUME NEW profile, NEW m \in Months, NEW k, NEW w, Sound(w), k.began \in 0 .. w.moves, ReadFor(m, k, w)
  PROVE  Written(PackOf(profile, m, k, w), w)
<1> DEFINE p == PackOf(profile, m, k, w)
           s == p.sections
           g == k.got
           t(slot) == g[slot].totals
           V == w.vouchers
           T(from, to) == ClassTotals(V, k.rows, from, to)
<1>1. /\ p = [sections |-> s, evidence |-> p.evidence] /\ s = [x \in SectionNames |-> s[x]]
      /\ p.evidence.began = k.began /\ p.evidence.ended = w.moves /\ p.evidence.rows = k.rows
      /\ p.evidence.got = g /\ p.evidence.mapping = w.mapping
      /\ s.kind = "pack" /\ s.profile = profile /\ s.month = m
      /\ s.tile = k.compiled[m] /\ s.tile_ytd = SumYear(k.compiled, m)
      /\ s.pnl = Pnl(profile, t("pnl")) /\ s.pnl_ytd = Pnl(profile, t("pnl_ytd"))
      /\ s.sheet = Sheet(t("sheet")) /\ s.sheet_prior_month = Sheet(t("sheet_prior_month"))
  BY PackFields
<1>2. m \in Int /\ 1 <= m /\ m - 1 \in Int
  BY NumMonthsAssumption DEF Months
<1>3. SheetTies(p)
  <2>1. FromBooks("sheet", 1, m, k, w) /\ FromBooks("sheet_prior_month", 1, m - 1, k, w)
    BY DEF ReadFor
  <2>2. ASSUME NEW slot PROVE LeftOut(p.evidence, slot) = Over(k, slot)
    <3> DEFINE ev == p.evidence
    <3>1. ev.rows = k.rows /\ ev.got = k.got
      BY <1>1
    <3> HIDE DEF ev
    <3>2. LeftOut(ev, slot)
            = SumFunction([e \in ev.got[slot].of |-> SumFunctionOnSet(e.lines, DOMAIN e.lines \ DOMAIN ev.rows)])
      BY DEF LeftOut
    <3>3. LeftOut(ev, slot)
            = SumFunction([e \in k.got[slot].of |-> SumFunctionOnSet(e.lines, DOMAIN e.lines \ DOMAIN k.rows)])
      BY <3>1, <3>2, Zenon
    <3> QED
      BY <3>3 DEF ev, Over
  <2>3. Sheet(t("sheet")).balances <=> LeftOut(p.evidence, "sheet") = 0
    <3>1. Sheet(t("sheet")).balances <=> Over(k, "sheet") = 0
      BY <1>2, <2>1, SheetOfRead
    <3> QED
      BY <2>2, <3>1, Zenon
  <2>4. Sheet(t("sheet_prior_month")).balances <=> LeftOut(p.evidence, "sheet_prior_month") = 0
    <3>1. Sheet(t("sheet_prior_month")).balances <=> Over(k, "sheet_prior_month") = 0
      BY <1>2, <2>1, SheetOfRead
    <3> QED
      BY <2>2, <3>1, Zenon
  <2> QED
    BY <1>1, <2>3, <2>4 DEF SheetTies
<1>4. ASSUME k.began = w.moves
      PROVE  /\ k.rows = w.mapping[m] /\ k.rows # Nothing /\ k.rows \in [DOMAIN k.rows -> Taxonomy] /\ Entries(V)
             /\ t("pnl") = T(m, m) /\ t("pnl_ytd") = T(FiscalYearStart(m), m)
             /\ t("sheet") = T(1, m) /\ t("sheet_prior_month") = T(1, m - 1) /\ t("movements") = T(m, m)
             /\ \A j \in FiscalYearStart(m) .. m : k.compiled[j] = ResolvedIn(w, j)
  <2>1. k.rows = w.mapping[m] /\ k.rows # Nothing /\ k.rows \in [DOMAIN k.rows -> Taxonomy]
        /\ \A j \in FiscalYearStart(m) .. m : k.compiled[j] = ResolvedIn(w, j)
    BY <1>4 DEF ReadFor, Version
  <2>2. Entries(V)
    BY VouchersTie DEF Sound
  <2>3. /\ t("pnl") = T(m, m) /\ t("pnl_ytd") = T(FiscalYearStart(m), m)
        /\ t("sheet") = T(1, m) /\ t("sheet_prior_month") = T(1, m - 1) /\ t("movements") = T(m, m)
    BY <1>4, ReadNow DEF ReadFor
  <2> QED
    BY <2>1, <2>2, <2>3
<1> HIDE DEF p
<1>5. Undisturbed(p) <=> k.began = w.moves
  BY <1>1 DEF Undisturbed
<1>6. ProfitTies(p)
  <2> SUFFICES ASSUME k.began = w.moves
               PROVE  s.sheet.retained - s.sheet_prior_month.retained
                        = s.pnl.bottom - Of(p.evidence.got["movements"].totals, OffLayout(s.profile))
    BY <1>5 DEF ProfitTies
  <2>1. Sheet(T(1, m)).retained - Sheet(T(1, m - 1)).retained
          = Pnl(profile, T(m, m)).bottom - Of(T(m, m), OffLayout(profile))
    BY <1>2, <1>4, ProfitMovesRetained
  <2>2. /\ s.sheet = Sheet(T(1, m)) /\ s.sheet_prior_month = Sheet(T(1, m - 1)) /\ s.pnl = Pnl(profile, T(m, m))
        /\ p.evidence.got["movements"].totals = T(m, m) /\ s.profile = profile
    BY <1>1, <1>4
  <2> HIDE DEF s, T
  <2> QED
    BY <2>1, <2>2
<1>7. HeadlineTies(p)
  <2> SUFFICES ASSUME k.began = w.moves PROVE HeadlineTies(p)
    BY <1>5 DEF HeadlineTies
  <2> DEFINE year == FiscalYearStart(m) .. m
             zero(x) == \A c \in DifferentlyTreated(profile) : At(x, c) = 0
  <2>1. FiscalYearStart(m) \in Int /\ FiscalYearStart(m) <= m
    BY <1>2, FiscalYear
  <2>2. Totals(T(m, m))
    <3>1. IsFiniteSet({})
      BY FS_EmptySet
    <3> QED
      BY <1>2, <1>4, <3>1, PlacedSums
  <2>3. s.tile = [status |-> "ok", ebitda |-> MetricEbitda(T(m, m)), cash |-> At(T(1, m), "cash_bank")]
    <3>1. s.tile = ResolvedIn(w, m)
      BY <1>1, <1>2, <1>4, <2>1
    <3> QED
      BY <1>4, <3>1 DEF ResolvedIn
  <2>4. zero(T(m, m)) => s.tile.status = "ok" /\ s.tile.ebitda = s.pnl.ebitda
    <3>1. s.pnl = Pnl(profile, T(m, m))
      BY <1>1, <1>4
    <3>2. zero(T(m, m)) => MetricEbitda(T(m, m)) = Pnl(profile, T(m, m)).ebitda
      BY <2>2, HeadlineAgrees
    <3> HIDE DEF T, s, zero
    <3> QED
      BY <2>3, <3>1, <3>2
  <2>5. ASSUME s.tile_ytd.status = "ok"
        PROVE  /\ \A j \in year : j \in Months /\ w.mapping[j] # Nothing
               /\ s.tile_ytd.value = SumFunction([j \in year |-> k.compiled[j].ebitda])
    <3>1. ~ \E j \in year : k.compiled[j].status # "ok"
      BY <1>1, <2>5 DEF SumYear
    <3>2. \A j \in year : ResolvedIn(w, j).status = "ok"
      BY <1>4, <3>1
    <3>3. \A j \in year : j \in Months /\ w.mapping[j] # Nothing
      BY <3>2 DEF ResolvedIn
    <3>4. s.tile_ytd = [status |-> "ok", value |-> SumFunction([j \in year |-> k.compiled[j].ebitda])]
      BY <1>1, <3>1 DEF SumYear
    <3> HIDE DEF s
    <3> QED
      BY <3>3, <3>4
  <2>6. ASSUME s.tile_ytd.status = "ok", zero(T(FiscalYearStart(m), m)), \A j \in year : w.mapping[j] = k.rows
        PROVE  s.tile_ytd.value = s.pnl_ytd.ebitda
    <3> DEFINE h == [j \in year |-> k.compiled[j].ebitda]
               t1 == T(FiscalYearStart(m), m)
    <3>1. ASSUME NEW j \in year PROVE h[j] = MetricEbitda(ClassTotals(V, k.rows, j, j))
      <4>1. j \in Months /\ w.mapping[j] = k.rows /\ k.rows # Nothing
        BY <1>4, <2>5, <2>6
      <4>2. ResolvedIn(w, j).ebitda = MetricEbitda(ClassTotals(V, k.rows, j, j))
        BY <4>1 DEF ResolvedIn
      <4> QED
        BY <1>4, <4>2
    <3>2. s.tile_ytd.value = SumFunctionOnSet(h, year)
      BY <2>5, <2>6 DEF SumFunction
    <3>3. s.pnl_ytd = Pnl(profile, t1)
      BY <1>1, <1>4
    <3> HIDE DEF h, s
    <3>4. SumFunctionOnSet(h, year) = Pnl(profile, t1).ebitda
      BY <1>2, <1>4, <2>1, <2>6, <3>1, YearToDateAgrees
    <3> QED
      BY <3>2, <3>3, <3>4
  <2>7. /\ s.month = m /\ s.profile = profile /\ p.evidence.mapping = w.mapping /\ p.evidence.rows = k.rows
        /\ p.evidence.got["pnl"].totals = T(m, m) /\ p.evidence.got["pnl_ytd"].totals = T(FiscalYearStart(m), m)
    BY <1>1, <1>4
  <2> HIDE DEF T
  <2>8. /\ (\A c \in DifferentlyTreated(s.profile) : At(p.evidence.got["pnl"].totals, c) = 0) => zero(T(m, m))
        /\ (\A c \in DifferentlyTreated(s.profile) : At(p.evidence.got["pnl_ytd"].totals, c) = 0)
             => zero(T(FiscalYearStart(m), m))
    BY <2>7
  <2> HIDE DEF zero
  <2> QED
    BY <2>4, <2>5, <2>6, <2>7, <2>8 DEF HeadlineTies
<1>8. p.evidence.began = w.moves => Stripped(s) = Now(profile, m, w)
  <2>1. s = SectionsOf(profile, m, k.got, k.compiled)
    BY DEF PackOf, p
  <2>2. k.began = w.moves => Stripped(SectionsOf(profile, m, k.got, k.compiled)) = Now(profile, m, w)
    BY <1>2, PackIsNow
  <2>3. p.evidence.began = k.began
    BY <1>1
  <2> HIDE DEF s
  <2> QED
    BY <2>1, <2>2, <2>3, Zenon
<1>9. Reached(w, m, "reconciled")
  BY DEF ReadFor
<1>10. k.began \in Nat /\ w.moves \in Nat /\ k.began <= w.moves
  BY DEF Sound
<1>11. Written(p, w)
  BY <1>1, <1>3, <1>6, <1>7, <1>8, <1>9, <1>10 DEF Written
<1> QED
  BY <1>11 DEF p

-----------------------------------------------------------------------------
(* What the others commit.                                                 *)

\* The committed state without the counters of the two bounds.
WorldTypes ==
  /\ books \subseteq DOMAIN Documents
  /\ \A m \in Months : Version(mapping[m])
  /\ status \in [Months -> ToSet(Levels)]

LEMMA WorldIsSound == WorldTypes /\ moves \in Nat <=> books \subseteq DOMAIN Documents /\ Sound(World)
<1>1. books \subseteq DOMAIN Documents => Booked("voucher") \subseteq Vouchers
  BY DEF Booked, Vouchers
<1> QED
  BY <1>1 DEF WorldTypes, Sound, World

\* No month goes back.
NoneBack == \A m \in Months : Forward(status[m], status'[m])

LEMMA UploadMoves == WorldTypes /\ Upload => WorldTypes' /\ NoneBack
<1> SUFFICES ASSUME WorldTypes, Upload PROVE WorldTypes' /\ NoneBack
  OBVIOUS
<1> USE DEF WorldTypes
<1>1. PICK d \in DOMAIN Documents \ books :
        /\ books' = books \cup {d}
        /\ status' = [status EXCEPT ![Documents[d].month] = IF @ = "open" /\ Documents[d].kind = "voucher"
                                                            THEN "validated" ELSE @]
        /\ UNCHANGED mapping
  BY DEF Upload
<1>2. \A m \in Months : \/ status'[m] = status[m]
                        \/ status[m] = "open" /\ status'[m] = "validated"
  BY <1>1
<1>3. status' \in [Months -> ToSet(Levels)]
  BY <1>1, LevelNumbers
<1>4. NoneBack
  BY <1>2 DEF NoneBack, Forward
<1> QED
  BY <1>1, <1>3, <1>4

LEMMA FreezeMoves == WorldTypes /\ Freeze => WorldTypes' /\ NoneBack
<1> SUFFICES ASSUME WorldTypes, Freeze PROVE WorldTypes' /\ NoneBack
  OBVIOUS
<1> USE DEF WorldTypes
<1>1. PICK m \in Months, assigned \in Assignments :
        /\ mapping' = [k \in Months |-> IF k >= m THEN [a \in Known |-> assigned[a]] ELSE mapping[k]]
        /\ status' = [k \in Months |-> IF k >= m /\ status[k] = "validated" THEN "mapped" ELSE status[k]]
        /\ UNCHANGED books
  BY DEF Freeze
<1>2. Known \subseteq Accounts
  BY DocumentsAssumption DEF Known, Booked
<1>3. Version([a \in Known |-> assigned[a]])
  BY <1>2, AssignmentsAssumption DEF Version
<1>4. \A k \in Months : Version(mapping'[k])
  BY <1>1, <1>3
<1>5. \A k \in Months : \/ status'[k] = status[k]
                        \/ status[k] = "validated" /\ status'[k] = "mapped"
  BY <1>1
<1>6. status' \in [Months -> ToSet(Levels)]
  BY <1>1, <1>5, LevelNumbers
<1>7. NoneBack
  BY <1>5 DEF NoneBack, Forward
<1> QED
  BY <1>1, <1>4, <1>6, <1>7

LEMMA CloseMoves == WorldTypes /\ (Reconcile \/ Lock) => WorldTypes' /\ NoneBack
<1> SUFFICES ASSUME WorldTypes, Reconcile \/ Lock PROVE WorldTypes' /\ NoneBack
  OBVIOUS
<1> USE DEF WorldTypes
<1>1. UNCHANGED <<books, mapping>>
  BY DEF Reconcile, Lock
<1>2. \A k \in Months : \/ status'[k] = status[k]
                        \/ status[k] = "mapped" /\ status'[k] = "reconciled"
                        \/ status[k] = "reconciled" /\ status'[k] = "locked"
  BY DEF Reconcile, Lock
<1>3. status' \in [Months -> ToSet(Levels)]
  BY LevelNumbers DEF Reconcile, Lock
<1>4. NoneBack
  BY <1>2 DEF NoneBack, Forward
<1> QED
  BY <1>1, <1>3, <1>4

LEMMA OthersRise ==
  ASSUME Committed, Others
  PROVE  Committed' /\ Rises(World, World')
<1>1. WorldTypes /\ moves \in Nat
  BY WorldIsSound DEF Committed
<1>2. moves' = moves + 1 /\ moves < MaxMoves /\ served' = served
  BY DEF Others
<1>3. WorldTypes' /\ NoneBack
  BY <1>1, UploadMoves, FreezeMoves, CloseMoves DEF Others
<1>4. moves' \in Nat
  BY <1>1, <1>2
<1>5. books' \subseteq DOMAIN Documents /\ Sound(World')
  <2>1. (WorldTypes /\ moves \in Nat <=> books \subseteq DOMAIN Documents /\ Sound(World))'
    BY WorldIsSound, PTL
  <2> QED
    BY <1>3, <1>4, <2>1
<1>6. Committed'
  BY <1>1, <1>2, <1>5, BoundsAssumption DEF Committed
<1>7. Rises(World, World')
  <2>1. ASSUME NEW m, NEW level \in ToSet(Levels), Reached(World, m, level) PROVE Reached(World', m, level)
    <3>1. CASE m \in Months
      <4>1. Forward(status[m], status'[m])
        BY <1>3, <3>1 DEF NoneBack
      <4>2. LevelOf(status[m]) >= LevelOf(level)
        BY <2>1, <3>1 DEF Reached, World
      <4>3. LevelOf(status'[m]) >= LevelOf(level)
        BY <4>1, <4>2, ForwardRises
      <4> QED
        BY <3>1, <4>3 DEF Reached, World
    <3>2. CASE m \notin Months
      BY <2>1, <3>2 DEF Reached
    <3> QED
      BY <3>1, <3>2
  <2>2. World'.moves = World.moves + 1
    BY <1>2 DEF World
  <2> QED
    BY <2>1, <2>2 DEF Rises
<1> QED
  BY <1>6, <1>7

\* What was shown, written or read before a commit is as good after it.
LEMMA StillReached ==
  ASSUME NEW w, NEW v, Rises(w, v), NEW m, NEW level \in {"mapped", "reconciled"}, Reached(w, m, level)
  PROVE  Reached(v, m, level)
BY LevelNumbers DEF Rises

LEMMA StillShows ==
  ASSUME NEW w, NEW v, Rises(w, v), NEW answer, Shows(answer, w)
  PROVE  Shows(answer, v)
BY StillReached DEF Shows

LEMMA StillWritten ==
  ASSUME NEW w, NEW v, Rises(w, v), w.moves \in Nat, NEW p, Written(p, w)
  PROVE  Written(p, v)
<1>1. v.moves = w.moves + 1
  BY DEF Rises
<1>2. Reached(v, p.sections.month, "reconciled")
  BY StillReached DEF Written
<1>3. p.evidence.began # v.moves /\ p.evidence.ended <= v.moves
  BY <1>1 DEF Written
<1> QED
  BY <1>2, <1>3 DEF Written

LEMMA StillTook ==
  ASSUME NEW w, NEW v, Rises(w, v), w.moves \in Nat, NEW k, k.began \in 0 .. w.moves,
         NEW step, NEW m, Typed(step, m), Took(step, k, w)
  PROVE  Took(step, k, v)
<1>1. k.began # v.moves
  BY DEF Rises
<1>2. step.do = "gate" => Reached(v, step.from, step.slot)
  BY StillReached DEF Took, Typed
<1>3. step.do = "read" => FromBooks(step.slot, step.from, step.to, k, v)
  BY <1>1 DEF Took, FromBooks
<1> QED
  BY <1>1, <1>2, <1>3 DEF Took

LEMMA StillInHand ==
  ASSUME NEW w, NEW v, Rises(w, v), w.moves \in Nat, NEW k, k.began \in 0 .. w.moves,
         NEW a, NEW m, Shaped(a, m), NEW n \in 0 .. Len(a), InHand(a, n, k, w)
  PROVE  InHand(a, n, k, v)
<1>1. k.began # v.moves
  BY DEF Rises
<1>2. Len(a) \in Nat
  BY DEF Shaped
<1>3. ASSUME NEW i \in 1 .. n PROVE Took(a[i], k, v)
  <2>1. Typed(a[i], m)
    BY <1>2 DEF Shaped
  <2>2. Took(a[i], k, w)
    BY DEF InHand
  <2> QED
    BY <2>1, <2>2, StillTook
<1> QED
  BY <1>1, <1>3 DEF InHand

-----------------------------------------------------------------------------
(* The actions, one by one.                                                *)

LEMMA InitiallyInv == ReportInit => ReportsInv
<1> SUFFICES ASSUME ReportInit PROVE ReportsInv
  OBVIOUS
<1>1. /\ moves = 0 /\ served = 0 /\ req = NoRequest /\ done = 0 /\ rows = Nothing /\ got = Nothing
      /\ compiled = Nothing /\ shown = NoRequest /\ packs = <<>>
  BY DEF ReportInit
<1>2. Committed
  <2>1. PICK w \in Worlds : books = w.books /\ mapping = w.mapping /\ status = w.status
    BY DEF ReportInit
  <2>2. WorldTypes
    BY <2>1, WorldsAssumption DEF WorldTypes, Version
  <2>3. books \subseteq DOMAIN Documents /\ Sound(World)
    BY <1>1, <2>2, WorldIsSound
  <2> QED
    BY <1>1, <2>3, BoundsAssumption DEF Committed
<1>3. Serving /\ Assembling
  BY <1>1 DEF Serving, Assembling
<1>4. Showing
  <2>1. shown.kind = "none"
    BY <1>1 DEF NoRequest
  <2> QED
    BY <2>1 DEF Showing, Shows, SecondUnitIsNew
<1>5. Kept
  BY <1>1 DEF Kept, InOrder
<1> QED
  BY <1>2, <1>3, <1>4, <1>5 DEF ReportsInv

LEMMA AgendaOf ==
  ASSUME Serving, req # NoRequest
  PROVE  /\ Asked(req) /\ req.to \in Int /\ Shaped(Agenda, req.to) /\ Len(Agenda) \in Nat
         /\ done \in 0 .. Len(Agenda)
<1>1. Asked(req) /\ req.to \in Int /\ done \in 0 .. Len(Agenda)
  BY NumMonthsAssumption DEF Serving, Asked, Months
<1>2. Shaped(Agenda, req.to)
  BY <1>1, AgendaShaped DEF Agenda
<1>3. Len(Agenda) \in Nat
  BY <1>2 DEF Shaped
<1> QED
  BY <1>1, <1>2, <1>3

LEMMA OthersKeep == ReportsInv /\ Others => ReportsInv'
<1> SUFFICES ASSUME ReportsInv, Others PROVE ReportsInv'
  OBVIOUS
<1>1. Committed' /\ Rises(World, World')
  BY OthersRise DEF ReportsInv
<1>2. moves' = moves + 1 /\ UNCHANGED <<served, req, done, rows, got, compiled, shown, packs>>
  BY DEF Others
<1>3. moves \in Nat /\ World.moves \in Nat /\ World.moves = moves
  BY DEF ReportsInv, Committed, Sound, World
<1>4. Agenda' = Agenda /\ Work' = Work
  BY <1>2 DEF Agenda, Work
<1>5. Serving'
  <2>1. Booked("output") \subseteq Booked("output")'
    <3>1. books \subseteq books'
      BY DEF Others, Upload, Freeze, Reconcile, Lock
    <3> QED
      BY <3>1 DEF Booked
  <2> QED
    BY <1>2, <1>3, <1>4, <2>1 DEF ReportsInv, Serving
<1>6. Assembling'
  <2>1. SUFFICES ASSUME req # NoRequest PROVE InHand(Agenda, done, Work, World')
    BY <1>2, <1>4 DEF Assembling
  <2>2. InHand(Agenda, done, Work, World) /\ Serving
    BY <2>1 DEF ReportsInv, Assembling
  <2>3. Shaped(Agenda, req.to) /\ done \in 0 .. Len(Agenda)
    BY <2>1, <2>2, AgendaOf
  <2>4. Work.began \in 0 .. World.moves
    BY <1>3, <2>1, <2>2 DEF Serving, Work
  <2> QED
    BY <1>1, <1>3, <2>2, <2>3, <2>4, StillInHand
<1>7. Showing'
  <2>1. Shows(shown, World)
    BY DEF ReportsInv, Showing
  <2>2. Shows(shown, World')
    BY <1>1, <2>1, StillShows
  <2> QED
    BY <1>2, <2>2 DEF Showing
<1>8. Kept'
  <2>1. InOrder(packs, World')
    BY <1>1, <1>3, StillWritten DEF ReportsInv, Kept, InOrder
  <2> QED
    BY <1>2, <2>1 DEF ReportsInv, Kept
<1> QED
  BY <1>1, <1>5, <1>6, <1>7, <1>8 DEF ReportsInv

\* The committed state is left alone by all the rest.
LEMMA WorldStays ==
  ASSUME Committed, UNCHANGED others, served' \in 0 .. MaxRequests
  PROVE  Committed' /\ World' = World
<1>1. World' = World
  BY DEF World, Booked, others
<1> QED
  BY <1>1 DEF Committed, others

LEMMA RequestKeeps ==
  ASSUME ReportsInv, NEW r \in Requests, Request(r)
  PROVE  ReportsInv'
<1>1. /\ served < MaxRequests /\ served' = served + 1
      /\ req' = [kind |-> r.kind, profile |-> r.profile, from |-> r.from, to |-> r.to, began |-> moves,
                  found |-> { o \in Booked("output") : r.kind = "operating" /\ o.month = r.to }]
      /\ done' = 0 /\ rows' = Nothing /\ got' = Nothing /\ compiled' = Nothing /\ shown' = NoRequest
      /\ UNCHANGED <<others, packs>>
  BY DEF Request
<1>2. served' \in 0 .. MaxRequests
  BY <1>1, BoundsAssumption DEF ReportsInv, Committed
<1>3. Committed' /\ World' = World
  BY <1>1, <1>2, WorldStays DEF ReportsInv
<1>4. Asked(req')
  BY <1>1, RequestsAssumption DEF Asked, Kinds
<1>5. moves \in Nat /\ moves' = moves /\ World.moves = moves
  BY <1>1 DEF ReportsInv, Committed, Sound, World, others
<1>6. Len(Agenda') \in Nat
  <2>1. Shaped(Steps(req'), req'.to)
    BY <1>4, AgendaShaped
  <2> QED
    BY <2>1 DEF Shaped, Agenda
<1>7. req' # NoRequest
  <2>1. req'.kind # "none"
    BY <1>4 DEF Asked, Kinds
  <2> QED
    BY <2>1 DEF NoRequest
<1>8. Serving'
  <2>1. req'.began = moves /\ req'.to = r.to /\ Booked("output")' = Booked("output")
    BY <1>1 DEF Booked, others
  <2>2. req'.found \subseteq Booked("output")' /\ \A o \in req'.found : o.month = req'.to
    BY <1>1, <2>1
  <2> QED
    BY <1>1, <1>4, <1>5, <1>6, <1>7, <2>1, <2>2 DEF Serving, Asked
<1>9. Assembling'
  <2>1. InHand(Agenda', 0, Work', World')
    BY <1>1 DEF InHand, Work, Nothing
  <2> QED
    BY <1>1, <2>1 DEF Assembling
<1>10. Showing'
  <2>1. shown'.kind = "none"
    BY <1>1 DEF NoRequest
  <2> QED
    BY <2>1 DEF Showing, Shows, SecondUnitIsNew
<1>11. Kept'
  <2>1. EndedBy(packs, moves)
    BY <1>5 DEF ReportsInv, Kept, InOrder, EndedBy, Written
  <2>2. req'.began = moves /\ packs' = packs
    BY <1>1
  <2> QED
    BY <1>3, <2>1, <2>2 DEF ReportsInv, Kept
<1> QED
  BY <1>3, <1>8, <1>9, <1>10, <1>11 DEF ReportsInv

\* A request that ends, with nothing added to the packs.
LEMMA FinishKeeps ==
  ASSUME ReportsInv, Finish, UNCHANGED <<others, served>>, Showing', Kept'
  PROVE  ReportsInv'
<1>1. served' \in 0 .. MaxRequests
  BY DEF ReportsInv, Committed
<1>2. Committed'
  BY <1>1, WorldStays DEF ReportsInv
<1>3. Serving' /\ Assembling'
  BY DEF Finish, Serving, Assembling
<1> QED
  BY <1>2, <1>3 DEF ReportsInv

LEMMA PacksStay ==
  ASSUME ReportsInv, UNCHANGED <<others, served, packs>>, req' = req \/ req' = NoRequest
  PROVE  Kept'
<1>1. served' \in 0 .. MaxRequests
  BY DEF ReportsInv, Committed
<1>2. World' = World
  BY <1>1, WorldStays DEF ReportsInv
<1> QED
  BY <1>2 DEF ReportsInv, Kept

LEMMA NothingShown ==
  ASSUME shown' = NoRequest
  PROVE  Showing'
<1>1. shown'.kind = "none"
  BY DEF NoRequest
<1> QED
  BY <1>1 DEF Showing, Shows, SecondUnitIsNew

LEMMA RefuseKeeps == ReportsInv /\ Refuse => ReportsInv'
<1> SUFFICES ASSUME ReportsInv, Refuse PROVE ReportsInv'
  OBVIOUS
<1>1. shown' = NoRequest /\ Finish /\ UNCHANGED <<others, served, packs>>
  BY DEF Refuse
<1>2. Kept'
  BY <1>1, PacksStay DEF Finish
<1> QED
  BY <1>1, <1>2, NothingShown, FinishKeeps

\* A step taken.
LEMMA StepKeeps ==
  ASSUME ReportsInv, On, req # NoRequest, done < Len(Agenda), InHand(Agenda, done + 1, Work', World)
  PROVE  ReportsInv'
<1>1. done' = done + 1 /\ UNCHANGED <<others, served, req, shown, packs>>
  BY DEF On
<1>2. served' \in 0 .. MaxRequests
  BY <1>1 DEF ReportsInv, Committed
<1>3. Committed' /\ World' = World
  BY <1>1, <1>2, WorldStays DEF ReportsInv
<1>4. Agenda' = Agenda /\ moves' = moves
  BY <1>1 DEF Agenda, others
<1>5. Serving'
  <2>1. done \in 0 .. Len(Agenda) /\ Len(Agenda) \in Nat
    BY AgendaOf DEF ReportsInv
  <2>2. done' \in 0 .. Len(Agenda)
    BY <1>1, <2>1
  <2>3. Booked("output")' = Booked("output")
    BY <1>1 DEF Booked, others
  <2> QED
    BY <1>1, <1>4, <2>2, <2>3 DEF ReportsInv, Serving
<1>6. Assembling'
  BY <1>1, <1>3, <1>4 DEF Assembling
<1>7. Showing'
  BY <1>1, <1>3 DEF ReportsInv, Showing
<1>8. Kept'
  BY <1>1, PacksStay
<1> QED
  BY <1>3, <1>5, <1>6, <1>7, <1>8 DEF ReportsInv

\* What is in hand grows, and nothing of it changes.
Grows(k, l) ==
  /\ l.began = k.began /\ l.found = k.found /\ l.rows = k.rows
  /\ DOMAIN k.got \subseteq DOMAIN l.got /\ \A x \in DOMAIN k.got : l.got[x] = k.got[x]
  /\ DOMAIN k.compiled \subseteq DOMAIN l.compiled

LEMMA TookGrows ==
  ASSUME NEW k, NEW l, Grows(k, l), NEW w, NEW step, Took(step, k, w)
  PROVE  Took(step, l, w)
<1>1. step.do = "read" => FromBooks(step.slot, step.from, step.to, l, w)
  BY DEF Grows, Took, FromBooks
<1>2. step.do = "rows" /\ step.slot = "mixed" =>
        /\ "mixed" \in DOMAIN l.got
        /\ MixedUom({ o \in l.found : o.month \in step.from .. step.to }, Declared) \subseteq l.got["mixed"]
  BY DEF Grows, Took
<1>3. step.do = "cover" =>
        /\ "cover" \in DOMAIN l.got
        /\ l.began = w.moves => l.got["cover"] = [status |-> w.status[step.from], freshness |-> w.moves]
  BY DEF Grows, Took
<1>4. step.do = "version" => Version(l.rows) /\ (l.began = w.moves => l.rows # Nothing /\ l.rows = w.mapping[step.from])
  BY DEF Grows, Took
<1> QED
  BY <1>1, <1>2, <1>3, <1>4 DEF Grows, Took

\* What a step adds.
Brings(step, k, l, w) ==
  /\ Took(step, l, w)
  /\ \A x \in DOMAIN l.got : x \in DOMAIN k.got \/ (Fills(step) /\ step.slot = x)
  /\ \A m \in DOMAIN l.compiled : l.began = w.moves => l.compiled[m] = ResolvedIn(w, m)

LEMMA GrowsInHand ==
  ASSUME NEW a, NEW n \in Nat, NEW k, NEW l, NEW w, InHand(a, n, k, w), Grows(k, l), Brings(a[n + 1], k, l, w)
  PROVE  InHand(a, n + 1, l, w)
<1>1. ASSUME NEW i \in 1 .. n + 1 PROVE Took(a[i], l, w)
  <2>1. CASE i = n + 1
    BY <2>1 DEF Brings
  <2>2. CASE i # n + 1
    <3>1. i \in 1 .. n
      BY <2>2
    <3>2. Took(a[i], k, w)
      BY <3>1 DEF InHand
    <3> QED
      BY <3>2, TookGrows
  <2> QED
    BY <2>1, <2>2
<1>2. ASSUME NEW x \in DOMAIN l.got PROVE \E i \in 1 .. n + 1 : Fills(a[i]) /\ a[i].slot = x
  <2>1. CASE x \in DOMAIN k.got
    <3>1. PICK i \in 1 .. n : Fills(a[i]) /\ a[i].slot = x
      BY <2>1 DEF InHand
    <3>2. i \in 1 .. n + 1
      OBVIOUS
    <3> QED
      BY <3>1, <3>2
  <2>2. CASE Fills(a[n + 1]) /\ a[n + 1].slot = x
    <3>1. n + 1 \in 1 .. n + 1
      OBVIOUS
    <3> QED
      BY <2>2, <3>1
  <2> QED
    BY <2>1, <2>2 DEF Brings
<1>3. \A m \in DOMAIN l.compiled : l.began = w.moves => l.compiled[m] = ResolvedIn(w, m)
  BY DEF Brings
<1> QED
  BY <1>1, <1>2, <1>3 DEF InHand

\* A slot to be filled is empty.
LEMMA SlotIsEmpty ==
  ASSUME NEW a, NEW m, Shaped(a, m), NEW n \in Nat, n < Len(a), NEW k, NEW w, InHand(a, n, k, w), Fills(a[n + 1])
  PROVE  a[n + 1].slot \notin DOMAIN k.got
<1>1. PICK place : \A i \in 1 .. Len(a) : Fills(a[i]) => place[a[i].slot] = i
  BY DEF Shaped
<1>2. Len(a) \in Nat
  BY DEF Shaped
<1>3. place[a[n + 1].slot] = n + 1
  BY <1>1, <1>2
<1> SUFFICES ASSUME a[n + 1].slot \in DOMAIN k.got PROVE FALSE
  OBVIOUS
<1>4. PICK i \in 1 .. n : Fills(a[i]) /\ a[i].slot = a[n + 1].slot
  BY DEF InHand
<1>5. i \in 1 .. Len(a)
  BY <1>2
<1>6. place[a[i].slot] = i
  BY <1>1, <1>4, <1>5
<1> QED
  BY <1>3, <1>4, <1>6

\* Looking up the version changes nothing read, there being nothing read.
LEMMA VersionInHand ==
  ASSUME NEW a, NEW m, Shaped(a, m), NEW n \in Nat, n < Len(a), NEW k, NEW l, NEW w, InHand(a, n, k, w),
         a[n + 1].do = "version", Took(a[n + 1], l, w),
         l.began = k.began, l.found = k.found, l.got = k.got, l.compiled = k.compiled
  PROVE  InHand(a, n + 1, l, w)
<1>1. Len(a) \in Nat
  BY DEF Shaped
<1>2. PICK v \in Int : \A i \in 1 .. Len(a) : (a[i].do = "version" => i = v) /\ (a[i].do = "read" => v < i)
  BY DEF Shaped
<1>3. v = n + 1
  BY <1>1, <1>2
<1>4. ASSUME NEW i \in 1 .. n + 1 PROVE Took(a[i], l, w)
  <2>1. CASE i = n + 1
    BY <2>1
  <2>2. CASE i # n + 1
    <3>1. i \in 1 .. n /\ i \in 1 .. Len(a)
      BY <1>1, <2>2
    <3>2. a[i].do # "version" /\ a[i].do # "read"
      BY <1>2, <1>3, <3>1
    <3>3. Took(a[i], k, w)
      BY <3>1 DEF InHand
    <3> QED
      BY <3>2, <3>3 DEF Took
  <2> QED
    BY <2>1, <2>2
<1>5. ASSUME NEW x \in DOMAIN l.got PROVE \E i \in 1 .. n + 1 : Fills(a[i]) /\ a[i].slot = x
  <2>1. PICK i \in 1 .. n : Fills(a[i]) /\ a[i].slot = x
    BY DEF InHand
  <2>2. i \in 1 .. n + 1
    OBVIOUS
  <2> QED
    BY <2>1, <2>2
<1> QED
  BY <1>4, <1>5 DEF InHand

\* What a step that goes finds.
LEMMA Going ==
  ASSUME ReportsInv, NEW what, Goes(what)
  PROVE  /\ req # NoRequest /\ done < Len(Agenda) /\ done \in Nat /\ Step = Agenda[done + 1] /\ Step.do = what
         /\ InHand(Agenda, done, Work, World) /\ Shaped(Agenda, req.to) /\ Typed(Step, req.to)
         /\ req.to \in Months
<1>1. req # NoRequest /\ done < Len(Agenda) /\ Step = Agenda[done + 1] /\ Step.do = what
  BY DEF Goes, Step
<1>2. Shaped(Agenda, req.to) /\ Len(Agenda) \in Nat /\ done \in 0 .. Len(Agenda) /\ Asked(req)
  BY <1>1, AgendaOf DEF ReportsInv
<1>3. done + 1 \in 1 .. Len(Agenda)
  BY <1>1, <1>2
<1>4. Typed(Step, req.to)
  BY <1>1, <1>2, <1>3 DEF Shaped
<1>5. InHand(Agenda, done, Work, World)
  BY <1>1 DEF ReportsInv, Assembling
<1> QED
  BY <1>1, <1>2, <1>4, <1>5 DEF Asked

LEMMA PassGateKeeps == ReportsInv /\ PassGate => ReportsInv'
<1> SUFFICES ASSUME ReportsInv, PassGate PROVE ReportsInv'
  OBVIOUS
<1>1. Goes("gate") /\ Passes(Step) /\ On /\ UNCHANGED <<rows, got, compiled>>
  BY DEF PassGate
<1>2. /\ req # NoRequest /\ done < Len(Agenda) /\ done \in Nat /\ Step = Agenda[done + 1] /\ Step.do = "gate"
      /\ InHand(Agenda, done, Work, World)
  BY <1>1, Going
<1>3. Work' = Work
  BY <1>1 DEF On, Work
<1>4. Reached(World, Step.from, Step.slot)
  BY <1>1 DEF Passes, StatusOf, Reached, World
<1>5. Took(Step, Work, World)
  BY <1>2, <1>4 DEF Took
<1>6. Brings(Step, Work, Work, World)
  BY <1>2, <1>5 DEF Brings, InHand
<1>7. Grows(Work, Work)
  BY DEF Grows
<1>8. InHand(Agenda, done + 1, Work, World)
  BY <1>2, <1>6, <1>7, GrowsInHand
<1> QED
  BY <1>1, <1>2, <1>3, <1>8, StepKeeps

LEMMA LookUpVersionKeeps == ReportsInv /\ LookUpVersion => ReportsInv'
<1> SUFFICES ASSUME ReportsInv, LookUpVersion PROVE ReportsInv'
  OBVIOUS
<1>1. Goes("version") /\ mapping[Step.from] # Nothing /\ rows' = mapping[Step.from] /\ On /\ UNCHANGED <<got, compiled>>
  BY DEF LookUpVersion
<1>2. /\ req # NoRequest /\ done < Len(Agenda) /\ done \in Nat /\ Step = Agenda[done + 1] /\ Step.do = "version"
      /\ InHand(Agenda, done, Work, World) /\ Shaped(Agenda, req.to) /\ Typed(Step, req.to) /\ req.to \in Months
  BY <1>1, Going
<1>3. Work'.began = Work.began /\ Work'.found = Work.found /\ Work'.got = Work.got /\ Work'.compiled = Work.compiled /\ Work'.rows = mapping[Step.from]
  BY <1>1 DEF On, Work
<1>4. Step.from \in Months
  BY <1>2 DEF Typed
<1>5. Version(mapping[Step.from]) /\ World.mapping = mapping
  BY <1>4 DEF ReportsInv, Committed, Sound, World
<1>6. Took(Step, Work', World)
  BY <1>1, <1>2, <1>3, <1>5 DEF Took
<1>7. InHand(Agenda, done + 1, Work', World)
  BY <1>2, <1>3, <1>6, VersionInHand
<1> QED
  BY <1>1, <1>2, <1>7, StepKeeps

\* Something read into a slot.
LEMMA SlotInHand ==
  ASSUME NEW a, NEW m, Shaped(a, m), NEW n \in Nat, n < Len(a), NEW k, NEW l, NEW w, InHand(a, n, k, w),
         Fills(a[n + 1]), NEW value, l.got = Filled(k.got, a[n + 1].slot, value),
         l.began = k.began, l.found = k.found, l.rows = k.rows, l.compiled = k.compiled,
         l.got[a[n + 1].slot] = value => Took(a[n + 1], l, w)
  PROVE  InHand(a, n + 1, l, w)
<1> DEFINE x == a[n + 1].slot
<1>1. x \notin DOMAIN k.got
  BY SlotIsEmpty
<1> HIDE DEF x
<1>2. l.got = Filled(k.got, x, value)
  BY DEF x
<1>3. DOMAIN l.got = DOMAIN k.got \cup {x} /\ \A y \in DOMAIN k.got : l.got[y] = k.got[y]
  BY <1>2 DEF Filled
<1>4. l.got[x] = value
  BY <1>1, <1>2 DEF Filled
<1>5. Took(a[n + 1], l, w)
  BY <1>4 DEF x
<1>6. Grows(k, l)
  BY <1>3 DEF Grows
<1>7. \A m2 \in DOMAIN l.compiled : l.began = w.moves => l.compiled[m2] = ResolvedIn(w, m2)
  BY DEF InHand
<1>8. Brings(a[n + 1], k, l, w)
  BY <1>3, <1>5, <1>7 DEF Brings, x
<1> QED
  BY <1>6, <1>8, GrowsInHand

LEMMA ReadTotalsKeeps == ReportsInv /\ ReadTotals => ReportsInv'
<1> SUFFICES ASSUME ReportsInv, ReadTotals PROVE ReportsInv'
  OBVIOUS
<1> DEFINE T == ClassTotals(Booked("voucher"), rows, Step.from, Step.to)
           W == Within("voucher", Step)
           value == [totals |-> T, of |-> W]
<1>1. Goes("read") /\ got' = Filled(got, Step.slot, value) /\ On /\ UNCHANGED <<rows, compiled>>
  BY DEF ReadTotals
<1>2. /\ req # NoRequest /\ done < Len(Agenda) /\ done \in Nat /\ Step = Agenda[done + 1] /\ Step.do = "read"
      /\ InHand(Agenda, done, Work, World) /\ Shaped(Agenda, req.to)
  BY <1>1, Going
<1>3. W = Window(World.vouchers, Step.from, Step.to) /\ World.vouchers = Booked("voucher")
  BY DEF Within, Window, World
<1>4. T = ClassTotals(W, rows, Step.from, Step.to)
  BY <1>3, WindowIsEnough
<1>5. W \subseteq Vouchers /\ \A e \in W : e.month \in Step.from .. Step.to
  BY <1>3 DEF ReportsInv, Committed, Sound, Window
<1>6. value.totals = T /\ value.of = W
  OBVIOUS
<1> HIDE DEF T, W, value
<1>7. /\ Work'.began = Work.began /\ Work'.found = Work.found /\ Work'.rows = Work.rows /\ Work'.compiled = Work.compiled
      /\ Work.got = got /\ Work.rows = rows /\ Work'.got = got'
  BY <1>1 DEF On, Work
<1>8. Step.slot \in DOMAIN got'
  BY <1>1 DEF Filled
<1>9. Work'.got[Step.slot] = value => Took(Step, Work', World)
  <2> SUFFICES ASSUME Work'.got[Step.slot] = value PROVE FromBooks(Step.slot, Step.from, Step.to, Work', World)
    BY <1>2 DEF Took
  <2> QED
    BY <1>3, <1>4, <1>5, <1>6, <1>7, <1>8 DEF FromBooks
<1>10. Fills(Step)
  BY <1>2 DEF Fills
<1>11. InHand(Agenda, done + 1, Work', World)
  BY <1>1, <1>2, <1>7, <1>9, <1>10, SlotInHand
<1> QED
  BY <1>1, <1>2, <1>11, StepKeeps

LEMMA ReadRowsKeeps == ReportsInv /\ ReadRows => ReportsInv'
<1> SUFFICES ASSUME ReportsInv, ReadRows PROVE ReportsInv'
  OBVIOUS
<1> DEFINE value == CASE Step.slot = "mixed"  -> MixedUom(Within("output", Step), Declared)
                      [] Step.slot = "output" -> Within("output", Step)
                      [] OTHER                -> Within("order", Step)
<1>1. Goes("rows") /\ got' = Filled(got, Step.slot, value) /\ On /\ UNCHANGED <<rows, compiled>>
  BY DEF ReadRows
<1>2. /\ req # NoRequest /\ done < Len(Agenda) /\ done \in Nat /\ Step = Agenda[done + 1] /\ Step.do = "rows"
      /\ InHand(Agenda, done, Work, World) /\ Shaped(Agenda, req.to)
  BY <1>1, Going
<1>3. req.found \subseteq Booked("output")
  BY <1>2 DEF ReportsInv, Serving
<1>4. Step.slot = "mixed" => MixedUom({ o \in req.found : o.month \in Step.from .. Step.to }, Declared) \subseteq value
  BY <1>3 DEF MixedUom, Within
<1> HIDE DEF value
<1>5. /\ Work'.began = Work.began /\ Work'.found = Work.found /\ Work'.rows = Work.rows /\ Work'.compiled = Work.compiled
      /\ Work.got = got /\ Work'.got = got'
  BY <1>1 DEF On, Work
<1>6. Step.slot \in DOMAIN got'
  BY <1>1 DEF Filled
<1>7. Work'.got[Step.slot] = value => Took(Step, Work', World)
  <2>1. Work'.found = req.found /\ Work'.got = got'
    BY <1>5 DEF Work
  <2> QED
    BY <1>2, <1>4, <1>6, <2>1 DEF Took
<1>8. Fills(Step)
  BY <1>2 DEF Fills
<1>9. InHand(Agenda, done + 1, Work', World)
  BY <1>1, <1>2, <1>5, <1>7, <1>8, SlotInHand
<1> QED
  BY <1>1, <1>2, <1>9, StepKeeps

LEMMA ReadCoverKeeps == ReportsInv /\ ReadCover => ReportsInv'
<1> SUFFICES ASSUME ReportsInv, ReadCover PROVE ReportsInv'
  OBVIOUS
<1> DEFINE value == [status |-> status[Step.from], freshness |-> moves]
<1>1. Goes("cover") /\ got' = Filled(got, "cover", value) /\ On /\ UNCHANGED <<rows, compiled>>
  BY DEF ReadCover
<1>2. /\ req # NoRequest /\ done < Len(Agenda) /\ done \in Nat /\ Step = Agenda[done + 1] /\ Step.do = "cover"
      /\ InHand(Agenda, done, Work, World) /\ Shaped(Agenda, req.to) /\ Step.slot = "cover"
  BY <1>1, Going DEF Typed
<1>3. value = [status |-> World.status[Step.from], freshness |-> World.moves]
  BY DEF World
<1> HIDE DEF value
<1>4. /\ Work'.began = Work.began /\ Work'.found = Work.found /\ Work'.rows = Work.rows /\ Work'.compiled = Work.compiled
      /\ Work.got = got /\ Work'.got = got'
  BY <1>1 DEF On, Work
<1>5. "cover" \in DOMAIN got'
  BY <1>1 DEF Filled
<1>6. Work'.got[Step.slot] = value => Took(Step, Work', World)
  BY <1>2, <1>3, <1>4, <1>5 DEF Took
<1>7. Fills(Step)
  BY <1>2 DEF Fills
<1>8. InHand(Agenda, done + 1, Work', World)
  BY <1>1, <1>2, <1>4, <1>6, <1>7, SlotInHand
<1> QED
  BY <1>1, <1>2, <1>8, StepKeeps

LEMMA CompileMetricKeeps == ReportsInv /\ CompileMetric => ReportsInv'
<1> SUFFICES ASSUME ReportsInv, CompileMetric PROVE ReportsInv'
  OBVIOUS
<1> DEFINE value == Resolved(Step.from)
<1>1. Goes("metric") /\ compiled' = Filled(compiled, Step.from, value) /\ On /\ UNCHANGED <<rows, got>>
  BY DEF CompileMetric
<1>2. /\ req # NoRequest /\ done < Len(Agenda) /\ done \in Nat /\ Step = Agenda[done + 1] /\ Step.do = "metric"
      /\ InHand(Agenda, done, Work, World)
  BY <1>1, Going
<1>3. value = ResolvedIn(World, Step.from)
  BY DEF Resolved, ResolvedIn, World
<1> HIDE DEF value
<1>4. /\ Work'.began = Work.began /\ Work'.found = Work.found /\ Work'.rows = Work.rows /\ Work'.got = Work.got
      /\ Work.compiled = compiled /\ Work'.compiled = compiled'
  BY <1>1 DEF On, Work
<1>5. /\ DOMAIN compiled' = DOMAIN compiled \cup {Step.from}
      /\ \A m \in DOMAIN compiled : compiled'[m] = compiled[m]
      /\ Step.from \notin DOMAIN compiled => compiled'[Step.from] = value
  BY <1>1 DEF Filled
<1>6. Grows(Work, Work')
  BY <1>4, <1>5 DEF Grows
<1>7. Took(Step, Work', World)
  BY <1>2, <1>4, <1>5 DEF Took
<1>8. \A m \in DOMAIN Work'.compiled : Work'.began = World.moves => Work'.compiled[m] = ResolvedIn(World, m)
  BY <1>2, <1>3, <1>4, <1>5 DEF InHand
<1>9. Brings(Step, Work, Work', World)
  BY <1>4, <1>7, <1>8 DEF Brings
<1>10. InHand(Agenda, done + 1, Work', World)
  BY <1>2, <1>6, <1>9, GrowsInHand
<1> QED
  BY <1>1, <1>2, <1>10, StepKeeps

\* What a request under way has in hand when it is through.
LEMMA Finished ==
  ASSUME ReportsInv, Through
  PROVE  /\ req # NoRequest /\ Asked(req) /\ InHand(Agenda, Len(Agenda), Work, World)
         /\ req.began \in 0 .. World.moves /\ Sound(World) /\ World.moves = moves
<1>1. req # NoRequest /\ done = Len(Agenda)
  BY DEF Through
<1>2. Asked(req)
  BY <1>1, AgendaOf DEF ReportsInv
<1>3. World.moves = moves
  BY DEF World
<1> QED
  BY <1>1, <1>2, <1>3 DEF ReportsInv, Committed, Serving, Assembling

LEMMA ScreenSound ==
  ASSUME ReportsInv, Through, req.kind # "pack", Displayable,
         NEW answer, answer = [kind |-> req.kind, from |-> req.from, to |-> req.to, screen |-> Screen, evidence |-> Evidence]
  PROVE  Shows(answer, World)
<1> DEFINE a == Agenda
<1>1. req # NoRequest /\ Asked(req) /\ InHand(a, Len(a), Work, World) /\ a = Steps(req)
  BY Finished DEF Agenda
<1>2. /\ answer.kind = req.kind /\ answer.from = req.from /\ answer.to = req.to /\ answer.screen = Screen
      /\ answer.evidence = Evidence
  OBVIOUS
<1>3. Evidence.got = got /\ Evidence.rows = rows /\ Work.got = got /\ Work.rows = rows
  BY DEF Evidence, Work
<1>4. req.to \in Int
  BY <1>1, NumMonthsAssumption DEF Asked, Months
<1> HIDE DEF a
<1>5. ASSUME NEW m, Has(a, Gate(m, "mapped")) PROVE Reached(World, m, "mapped")
  <2>1. Took(Gate(m, "mapped"), Work, World)
    BY <1>1, <1>5, TookEach
  <2> QED
    BY <2>1 DEF Took, Gate
<1>6. req.kind \in {"pnl", "ladder"} => \A m \in req.from .. req.to : Reached(World, m, "mapped")
  BY <1>1, <1>5, AgendaShaped
<1>7. req.kind \in {"sheet", "operating"} => Reached(World, req.to, "mapped")
  BY <1>1, <1>5, AgendaShaped
<1>8. ASSUME req.kind = "sheet" PROVE LeftOut(Evidence, "sheet") = 0
  <2>1. Has(a, Read("sheet", 1, req.to))
    BY <1>1, <1>8, AgendaShaped
  <2>2. Took(Read("sheet", 1, req.to), Work, World)
    BY <1>1, <2>1, TookEach
  <2>3. FromBooks("sheet", 1, req.to, Work, World)
    BY <2>2 DEF Took, Read
  <2>4. Sheet(Work.got["sheet"].totals).balances <=> Over(Work, "sheet") = 0
    BY <1>4, <2>3, SheetOfRead
  <2>5. Sheet(got["sheet"].totals).balances
    BY <1>8 DEF Displayable
  <2>6. Over(Work, "sheet") = 0
    BY <1>3, <2>4, <2>5, Zenon
  <2>7. LeftOut(Evidence, "sheet") = Over(Work, "sheet")
    BY <1>3 DEF LeftOut, Over
  <2> QED
    BY <2>6, <2>7
<1>9. SecondUnitIsNew(answer)
  <2> SUFFICES ASSUME req.kind = "operating",
                      NEW row \in ProductOperating(got["output"], got["mixed"]), row.status = "ok",
                      NEW o \in req.found, o.product = row.product
               PROVE  o.uom = Declared[o.product]
    BY <1>1, <1>2 DEF SecondUnitIsNew, Screen, Evidence, Asked, Kinds
  <2>1. Took(Rows("mixed", req.to, req.to), Work, World)
    BY <1>1, AgendaShaped, TookEach
  <2>2. MixedUom({ p \in req.found : p.month \in req.to .. req.to }, Declared) \subseteq got["mixed"]
    BY <1>3, <2>1 DEF Took, Rows, Work
  <2>3. o.month \in req.to .. req.to
    BY <1>1, <1>4 DEF ReportsInv, Serving
  <2>4. o.uom # Declared[o.product] => o.product \in got["mixed"]
    BY <2>2, <2>3 DEF MixedUom
  <2>5. row.product \notin got["mixed"]
    <3>1. PICK p \in got["output"] :
            row = IF p.product \in got["mixed"]
                  THEN [product |-> p.product, status |-> "blocked", uom |-> "none", volume |-> 0]
                  ELSE [product |-> p.product, status |-> "ok", uom |-> p.uom,
                        volume |-> SumFunction([q \in { q \in got["output"] : q.product = p.product /\ q.uom = p.uom }
                                                  |-> q.produced])]
      BY Zenon DEF ProductOperating
    <3> QED
      BY <3>1
  <2> QED
    BY <2>4, <2>5
<1> QED
  BY <1>2, <1>6, <1>7, <1>8, <1>9 DEF Shows

LEMMA AnswerScreenKeeps == ReportsInv /\ AnswerScreen => ReportsInv'
<1> SUFFICES ASSUME ReportsInv, AnswerScreen PROVE ReportsInv'
  OBVIOUS
<1>1. /\ Through /\ req.kind # "pack"
      /\ shown' = IF Displayable
                  THEN [kind |-> req.kind, from |-> req.from, to |-> req.to, screen |-> Screen, evidence |-> Evidence]
                  ELSE NoRequest
      /\ Finish /\ UNCHANGED <<others, served, packs>>
  BY DEF AnswerScreen
<1>2. Kept'
  BY <1>1, PacksStay DEF Finish
<1>3. World' = World
  <2>1. served' \in 0 .. MaxRequests
    BY <1>1 DEF ReportsInv, Committed
  <2> QED
    BY <1>1, <2>1, WorldStays DEF ReportsInv
<1>4. Showing'
  <2>1. CASE Displayable
    <3>1. Shows(shown', World)
      BY <1>1, <2>1, ScreenSound
    <3> QED
      BY <1>3, <3>1 DEF Showing
  <2>2. CASE ~ Displayable
    BY <1>1, <2>2, NothingShown
  <2> QED
    BY <2>1, <2>2
<1> QED
  BY <1>1, <1>2, <1>4, FinishKeeps

\* A pack added after those there are.
LEMMA PackAdded ==
  ASSUME NEW ps, NEW p, NEW w, InOrder(ps, w), EndedBy(ps, p.evidence.began), Written(p, w), p.evidence.ended = w.moves
  PROVE  InOrder(Append(ps, p), w)
<1> DEFINE qs == Append(ps, p)
           n == Len(ps)
<1>1. /\ n \in Nat /\ DOMAIN qs = 1 .. n + 1 /\ DOMAIN ps = 1 .. n
      /\ qs[n + 1] = p /\ \A i \in 1 .. n : qs[i] = ps[i]
  BY DEF InOrder
<1>2. qs \in Seq(ToSet(qs))
  <2>1. ps \in Seq(ToSet(ps) \cup {p})
    <3>1. \A i \in 1 .. n : ps[i] \in ToSet(ps) \cup {p}
      BY <1>1 DEF ToSet
    <3> DEFINE S == ToSet(ps) \cup {p}
    <3> HIDE DEF S
    <3>2. \A i \in 1 .. n : ps[i] \in S
      BY <3>1 DEF S
    <3>3. ps \in Seq(S)
      BY <3>2 DEF InOrder
    <3> QED
      BY <3>3 DEF S
  <2>2. qs \in Seq(ToSet(ps) \cup {p})
    BY <2>1
  <2> QED
    BY <2>2, OwnSequence
<1> HIDE DEF qs, n
<1>4. \A i \in DOMAIN qs : \/ i \in DOMAIN ps /\ qs[i] = ps[i]
                           \/ i = n + 1 /\ qs[i] = p
  <2> SUFFICES ASSUME NEW i \in 1 .. n + 1, i # n + 1 PROVE i \in 1 .. n
    BY <1>1
  <2> QED
    BY <1>1
<1>5. \A i \in DOMAIN qs : Written(qs[i], w)
  BY <1>4 DEF InOrder
<1>6. ASSUME NEW j \in DOMAIN ps PROVE SameNumbers(ps[j], p)
  <2> SUFFICES ASSUME ps[j].evidence.began = p.evidence.ended, ps[j].sections.profile = p.sections.profile,
                      ps[j].sections.month = p.sections.month
               PROVE  Stripped(ps[j].sections) = Stripped(p.sections)
    BY DEF SameNumbers
  <2>1. Written(ps[j], w) /\ ps[j].evidence.ended <= p.evidence.began
    BY DEF InOrder, EndedBy
  <2>2. /\ ps[j].evidence.began \in Nat /\ ps[j].evidence.ended \in Nat /\ p.evidence.began \in Nat
        /\ p.evidence.ended \in Nat
        /\ ps[j].evidence.began <= ps[j].evidence.ended /\ p.evidence.began <= p.evidence.ended
    BY <2>1 DEF Written
  <2>3. ps[j].evidence.began = w.moves /\ p.evidence.began = w.moves
    BY <2>1, <2>2
  <2>4. /\ Stripped(ps[j].sections) = Now(ps[j].sections.profile, ps[j].sections.month, w)
        /\ Stripped(p.sections) = Now(p.sections.profile, p.sections.month, w)
    BY <2>1, <2>3 DEF Written
  <2> QED
    BY <2>4
<1>7. ASSUME NEW i \in DOMAIN qs, NEW j \in DOMAIN qs, j < i
      PROVE  qs[j].evidence.ended <= qs[i].evidence.began /\ SameNumbers(qs[j], qs[i])
  <2>1. j \in DOMAIN ps /\ qs[j] = ps[j]
    <3>1. j \in 1 .. n
      BY <1>1, <1>7
    <3> QED
      BY <1>1, <3>1
  <2>2. CASE i \in DOMAIN ps /\ qs[i] = ps[i]
    BY <1>7, <2>1, <2>2 DEF InOrder
  <2>3. CASE i = n + 1 /\ qs[i] = p
    BY <1>6, <2>1, <2>3 DEF EndedBy
  <2> QED
    BY <1>4, <2>2, <2>3
<1>8. InOrder(qs, w)
  BY <1>2, <1>5, <1>7 DEF InOrder
<1> QED
  BY <1>8 DEF qs

LEMMA StoreKeeps == ReportsInv /\ Store => ReportsInv'
<1> SUFFICES ASSUME ReportsInv, Store PROVE ReportsInv'
  OBVIOUS
<1> DEFINE p == PackOf(req.profile, req.to, Work, World)
<1>1. /\ Through /\ req.kind = "pack" /\ packs' = Append(packs, [sections |-> Assembled, evidence |-> Evidence])
      /\ Finish /\ UNCHANGED <<others, served, shown>>
  BY DEF Store
<1>2. World' = World
  <2>1. served' \in 0 .. MaxRequests
    BY <1>1 DEF ReportsInv, Committed
  <2> QED
    BY <1>1, <2>1, WorldStays DEF ReportsInv
<1>3. /\ req # NoRequest /\ Asked(req) /\ InHand(Agenda, Len(Agenda), Work, World)
      /\ req.began \in 0 .. World.moves /\ Sound(World) /\ World.moves = moves
  BY <1>1, Finished
<1>4. packs' = Append(packs, p)
  <2>1. Assembled = SectionsOf(req.profile, req.to, Work.got, Work.compiled)
    BY DEF Assembled, SectionsOf, YearToDate, SumYear, Work
  <2>2. Evidence = [began |-> Work.began, found |-> Work.found, ended |-> World.moves, rows |-> Work.rows, got |-> Work.got, mapping |-> World.mapping]
    BY DEF Evidence, Work, World
  <2> QED
    BY <1>1, <2>1, <2>2, Zenon DEF PackOf
<1>5. Written(p, World)
  <2>1. Agenda = PackSteps(req.to)
    BY <1>1, <1>3, AgendaShaped DEF Agenda
  <2>2. req.to \in Months /\ req.to \in Int
    BY <1>3, NumMonthsAssumption DEF Asked, Months
  <2>3. InHand(PackSteps(req.to), Len(PackSteps(req.to)), Work, World)
    BY <1>3, <2>1
  <2>4. ReadFor(req.to, Work, World)
    BY <2>2, <2>3, PackHasRead
  <2>5. Work.began \in 0 .. World.moves
    BY <1>3 DEF Work
  <2> QED
    BY <1>3, <2>2, <2>4, <2>5, PackIsWritten
<1>6. p.evidence.began = req.began /\ p.evidence.ended = World.moves
  BY DEF PackOf, Work
<1> HIDE DEF p
<1>7. Kept'
  <2>1. InOrder(packs, World) /\ EndedBy(packs, p.evidence.began)
    BY <1>3, <1>6 DEF ReportsInv, Kept
  <2>2. InOrder(packs', World)
    BY <1>4, <1>5, <1>6, <2>1, PackAdded
  <2>3. req' = NoRequest
    BY <1>1 DEF Finish
  <2> QED
    BY <1>2, <2>2, <2>3 DEF Kept
<1>8. Showing'
  BY <1>1, <1>2 DEF ReportsInv, Showing
<1> QED
  BY <1>1, <1>7, <1>8, FinishKeeps

\* A commentary edit leaves a pack's numbers, and what they rest on.
LEMMA SummaryAside ==
  ASSUME NEW s, s = [x \in SectionNames |-> s[x]], NEW z, z = [s EXCEPT !.summary = "edited"]
  PROVE  /\ z = [x \in SectionNames |-> z[x]] /\ \A x \in SectionNames : x # "summary" => z[x] = s[x]
         /\ Stripped(z) = Stripped(s)
<1> DEFINE kept(x) == IF x = "freshness" THEN 0 ELSE IF x = "summary" THEN "none" ELSE s[x]
<1>1. z = [x \in SectionNames |-> IF x = "summary" THEN "edited" ELSE s[x]]
  OBVIOUS
<1>2. Stripped(s) = [x \in SectionNames |-> kept(x)]
  BY DEF Stripped
<1>3. Stripped(z) = [x \in SectionNames |-> IF x = "freshness" THEN 0 ELSE IF x = "summary" THEN "none" ELSE z[x]]
  BY <1>1 DEF Stripped
<1>4. \A x \in SectionNames : x # "summary" => z[x] = s[x]
  BY <1>1
<1>5. Stripped(z) = Stripped(s)
  BY <1>2, <1>3, <1>4
<1> QED
  BY <1>1, <1>4, <1>5

LEMMA EditedIsWritten ==
  ASSUME NEW p, NEW w, Written(p, w), NEW q, q = [p EXCEPT !.sections.summary = "edited"]
  PROVE  /\ Written(q, w) /\ q.evidence = p.evidence /\ Stripped(q.sections) = Stripped(p.sections)
         /\ q.sections.profile = p.sections.profile /\ q.sections.month = p.sections.month
<1> DEFINE s == p.sections
           z == [s EXCEPT !.summary = "edited"]
<1>1. q = [sections |-> z, evidence |-> p.evidence]
  BY DEF Written
<1>2. q.sections = z /\ q.evidence = p.evidence
  BY <1>1
<1>3. s = [x \in SectionNames |-> s[x]]
  BY DEF Written
<1> HIDE DEF s
<1>4. /\ z = [x \in SectionNames |-> z[x]] /\ \A x \in SectionNames : x # "summary" => z[x] = s[x]
      /\ Stripped(z) = Stripped(s)
  BY <1>3, SummaryAside
<1> HIDE DEF z
<1>5. /\ z.kind = s.kind /\ z.profile = s.profile /\ z.month = s.month /\ z.tile = s.tile /\ z.tile_ytd = s.tile_ytd
      /\ z.pnl = s.pnl /\ z.pnl_ytd = s.pnl_ytd /\ z.sheet = s.sheet /\ z.sheet_prior_month = s.sheet_prior_month
  BY <1>4 DEF SectionNames
<1>6. SheetTies(q)
  BY <1>2, <1>5 DEF Written, SheetTies, s
<1>7. Undisturbed(q) <=> Undisturbed(p)
  BY <1>2 DEF Undisturbed
<1>8. ProfitTies(q)
  BY <1>2, <1>5, <1>7 DEF Written, ProfitTies, s
<1>9. HeadlineTies(q)
  BY <1>2, <1>5, <1>7 DEF Written, HeadlineTies, s
<1>10. q.evidence.began = w.moves => Stripped(q.sections) = Now(q.sections.profile, q.sections.month, w)
  BY <1>2, <1>4, <1>5 DEF Written, s
<1>11. Reached(w, q.sections.month, "reconciled") /\ q.sections.kind = "pack"
  BY <1>2, <1>5 DEF Written, s
<1>12. q = [sections |-> q.sections, evidence |-> q.evidence] /\ q.sections = [x \in SectionNames |-> q.sections[x]]
  BY <1>1, <1>2, <1>4
<1>13. Written(q, w)
  BY <1>2, <1>6, <1>8, <1>9, <1>10, <1>11, <1>12 DEF Written
<1> QED
  BY <1>2, <1>4, <1>5, <1>13 DEF s

LEMMA EditCommentaryKeeps == ReportsInv /\ EditCommentary => ReportsInv'
<1> SUFFICES ASSUME ReportsInv, EditCommentary PROVE ReportsInv'
  OBVIOUS
<1> DEFINE n == Len(packs)
           q == [packs[n] EXCEPT !.sections.summary = "edited"]
<1>1. /\ packs # <<>> /\ packs' = [packs EXCEPT ![n].sections.summary = "edited"]
      /\ UNCHANGED <<others, served, req, done, rows, got, compiled, shown>>
  BY DEF EditCommentary
<1>2. served' \in 0 .. MaxRequests
  BY <1>1 DEF ReportsInv, Committed
<1>3. Committed' /\ World' = World
  BY <1>1, <1>2, WorldStays DEF ReportsInv
<1>4. Agenda' = Agenda /\ Work' = Work
  BY <1>1 DEF Agenda, Work
<1>5. Serving' /\ Assembling' /\ Showing'
  <2>1. Booked("output")' = Booked("output")
    BY <1>1 DEF Booked, others
  <2> QED
    BY <1>1, <1>3, <1>4, <2>1 DEF ReportsInv, Serving, Assembling, Showing, others
<1>6. InOrder(packs, World) /\ (req # NoRequest => EndedBy(packs, req.began))
  BY DEF ReportsInv, Kept
<1>7. packs \in Seq(ToSet(packs)) /\ n \in Nat /\ n >= 1 /\ DOMAIN packs = 1 .. n
  BY <1>1, <1>6 DEF InOrder
<1>8. packs' = [packs EXCEPT ![n] = q]
  BY <1>1
<1>9. /\ Written(q, World) /\ q.evidence = packs[n].evidence /\ Stripped(q.sections) = Stripped(packs[n].sections)
      /\ q.sections.profile = packs[n].sections.profile /\ q.sections.month = packs[n].sections.month
  <2>1. Written(packs[n], World)
    BY <1>6, <1>7 DEF InOrder
  <2> QED
    BY <2>1, EditedIsWritten
<1> HIDE DEF n, q
<1>10. /\ DOMAIN packs' = 1 .. n /\ packs'[n] = q /\ \A i \in 1 .. n : i # n => packs'[i] = packs[i]
  BY <1>7, <1>8
<1>11. packs' \in Seq(ToSet(packs'))
  <2>1. packs' \in Seq(ToSet(packs) \cup {q})
    <3> DEFINE S == ToSet(packs) \cup {q}
    <3>1. \A i \in 1 .. n : packs'[i] \in S
      BY <1>7, <1>10 DEF ToSet
    <3>2. packs' = [i \in 1 .. n |-> packs'[i]]
      BY <1>7, <1>8
    <3> HIDE DEF S
    <3>3. packs' \in Seq(S)
      BY <1>7, <3>1, <3>2
    <3> QED
      BY <3>3 DEF S
  <2> QED
    BY <2>1, OwnSequence
<1>12. \A i \in 1 .. n : /\ Written(packs'[i], World) /\ packs'[i].evidence = packs[i].evidence
                         /\ Stripped(packs'[i].sections) = Stripped(packs[i].sections)
                         /\ packs'[i].sections.profile = packs[i].sections.profile
                         /\ packs'[i].sections.month = packs[i].sections.month
  BY <1>6, <1>7, <1>9, <1>10 DEF InOrder
<1>13. \A i, j \in 1 .. n : j < i => /\ packs'[j].evidence.ended <= packs'[i].evidence.began
                                     /\ SameNumbers(packs'[j], packs'[i])
  <2> SUFFICES ASSUME NEW i \in 1 .. n, NEW j \in 1 .. n, j < i
               PROVE  /\ packs'[j].evidence.ended <= packs'[i].evidence.began
                      /\ SameNumbers(packs'[j], packs'[i])
    OBVIOUS
  <2>1. packs[j].evidence.ended <= packs[i].evidence.began /\ SameNumbers(packs[j], packs[i])
    BY <1>6, <1>7 DEF InOrder
  <2> QED
    BY <1>12, <2>1 DEF SameNumbers
<1>14. InOrder(packs', World)
  BY <1>10, <1>11, <1>12, <1>13 DEF InOrder
<1>15. req # NoRequest => EndedBy(packs', req.began)
  BY <1>6, <1>7, <1>10, <1>12 DEF EndedBy
<1>16. Kept'
  BY <1>1, <1>3, <1>14, <1>15 DEF Kept
<1> QED
  BY <1>3, <1>5, <1>16 DEF ReportsInv

LEMMA StutterKeeps == ReportsInv /\ UNCHANGED reportVars => ReportsInv'
<1> SUFFICES ASSUME ReportsInv, UNCHANGED reportVars PROVE ReportsInv'
  OBVIOUS
<1>1. UNCHANGED <<others, served, req, done, rows, got, compiled, shown, packs>>
  BY DEF reportVars
<1>2. served' \in 0 .. MaxRequests
  BY <1>1 DEF ReportsInv, Committed
<1>3. Committed' /\ World' = World
  BY <1>1, <1>2, WorldStays DEF ReportsInv
<1>4. Agenda' = Agenda /\ Work' = Work
  BY <1>1 DEF Agenda, Work
<1>5. Booked("output")' = Booked("output")
  BY <1>1 DEF Booked, others
<1> QED
  BY <1>1, <1>3, <1>4, <1>5 DEF ReportsInv, Serving, Assembling, Showing, Kept, others

LEMMA StepKeepsInv == ReportsInv /\ [ReportNext]_reportVars => ReportsInv'
<1> SUFFICES ASSUME ReportsInv, ReportNext \/ UNCHANGED reportVars PROVE ReportsInv'
  OBVIOUS
<1>1. ASSUME \E r \in Requests : Request(r) PROVE ReportsInv'
  BY <1>1, RequestKeeps
<1> QED
  BY <1>1, OthersKeep, PassGateKeeps, LookUpVersionKeeps, RefuseKeeps, ReadTotalsKeeps, ReadRowsKeeps,
     CompileMetricKeeps, ReadCoverKeeps, AnswerScreenKeeps, StoreKeeps, EditCommentaryKeeps, StutterKeeps
     DEF ReportNext

-----------------------------------------------------------------------------
(* The theorems.                                                           *)

\* The invariant holds whatever is committed under a request.
THEOREM ReportsInvariant == ReportSpec => []ReportsInv
BY InitiallyInv, StepKeepsInv, PTL DEF ReportSpec

\* Types: a request under way has read nothing it has still to read.
THEOREM ReportsTypes == ReportSpec => []ReportsTypeOK
<1>1. ReportsInv => ReportsTypeOK
  <2> SUFFICES ASSUME ReportsInv PROVE ReportsTypeOK
    OBVIOUS
  <2>1. /\ books \subseteq DOMAIN Documents
        /\ \A m \in Months : DOMAIN mapping[m] \subseteq Accounts
        /\ status \in [Months -> ToSet(Levels)]
        /\ moves \in 0 .. MaxMoves /\ served \in 0 .. MaxRequests
    BY BoundsAssumption DEF ReportsInv, Committed, Sound, World, Version
  <2>2. /\ req = NoRequest => done = 0 /\ got = Nothing /\ compiled = Nothing
        /\ req # NoRequest => done \in 0 .. Len(Agenda)
    BY DEF ReportsInv, Serving
  <2>3. ASSUME NEW i \in done + 1 .. Len(Agenda), Agenda[i].do = "read", Agenda[i].slot \in DOMAIN got PROVE FALSE
    <3>1. req # NoRequest
      BY <2>2, <2>3 DEF Nothing
    <3>2. Shaped(Agenda, req.to) /\ done \in 0 .. Len(Agenda) /\ Len(Agenda) \in Nat
      BY <3>1, AgendaOf DEF ReportsInv
    <3>3. PICK place : \A j \in 1 .. Len(Agenda) : Fills(Agenda[j]) => place[Agenda[j].slot] = j
      BY <3>2 DEF Shaped
    <3>4. PICK j \in 1 .. done : Fills(Agenda[j]) /\ Agenda[j].slot = Agenda[i].slot
      BY <2>3, <3>1 DEF ReportsInv, Assembling, InHand, Work
    <3>5. i \in 1 .. Len(Agenda) /\ j \in 1 .. Len(Agenda) /\ j < i
      BY <3>2
    <3>6. place[Agenda[i].slot] = i
      BY <2>3, <3>3, <3>5 DEF Fills
    <3>7. place[Agenda[j].slot] = j
      BY <3>3, <3>4, <3>5
    <3> QED
      BY <3>4, <3>5, <3>6, <3>7
  <2>4. \A i \in DOMAIN packs : packs[i].sections.kind = "pack"
    BY DEF ReportsInv, Kept, InOrder, Written
  <2> QED
    BY <2>1, <2>2, <2>3, <2>4 DEF ReportsTypeOK
<1> QED
  BY <1>1, ReportsInvariant, PTL

\* compute_balance_sheet: a sheet balances exactly when what its version
\* leaves out nets to zero, and the screen shows no other.
THEOREM SheetsBalance == ReportSpec => []SheetBalancesWhenMapped
<1>1. ReportsInv => SheetBalancesWhenMapped
  BY DEF ReportsInv, Kept, InOrder, Written, SheetTies, Showing, Shows, SheetBalancesWhenMapped
<1> QED
  BY <1>1, ReportsInvariant, PTL

\* pnl.py against balance_sheet.py: the profit of an undisturbed pack is what
\* its computed retained earnings moved by, but for the classes not laid out.
THEOREM ProfitReaches == ReportSpec => []ProfitReachesEquity
<1>1. ReportsInv => ProfitReachesEquity
  BY DEF ReportsInv, Kept, InOrder, Written, ProfitTies, ProfitReachesEquity
<1> QED
  BY <1>1, ReportsInvariant, PTL

\* The headline tile and the statement of an undisturbed pack give one EBITDA
\* where nothing moved on the classes the two treat differently.
THEOREM HeadlineMatches == ReportSpec => []HeadlineMatchesStatement
<1>1. ReportsInv => HeadlineMatchesStatement
  BY DEF ReportsInv, Kept, InOrder, Written, HeadlineTies, HeadlineMatchesStatement
<1> QED
  BY <1>1, ReportsInvariant, PTL

\* corpus/09 section 5: what a screen adds up stays at MAPPED or beyond, the
\* month of a pack at RECONCILED or beyond.
THEOREM ShownReportable == ReportSpec => []ShownMonthsReportable
<1>1. ReportsInv => ShownMonthsReportable
  <2>1. \A m, level : Reached(World, m, level) <=> LevelOf(StatusOf(m)) >= LevelOf(level)
    BY DEF Reached, StatusOf, World
  <2> QED
    BY <2>1 DEF ReportsInv, Kept, InOrder, Written, Showing, Shows, ShownMonthsReportable
<1> QED
  BY <1>1, ReportsInvariant, PTL

\* D-041, however uploads fall between the mixed-unit check and the rows: a
\* product is shown in a second unit only if it had none when the request
\* began.
THEOREM SecondUnitsAreNew == ReportSpec => []SecondUnitOnlyIfNew
<1>1. ReportsInv => SecondUnitOnlyIfNew
  BY DEF ReportsInv, Showing, Shows, SecondUnitIsNew, SecondUnitOnlyIfNew
<1> QED
  BY <1>1, ReportsInvariant, PTL

\* corpus/02 section 8: a generation is a number correction if a statement
\* changed, and none if nothing was committed since the one before was begun.
THEOREM CorrectionsAreCounted == ReportSpec => []CorrectionsCounted
<1>1. ReportsInv => CorrectionsCounted
  <2> SUFFICES ASSUME ReportsInv, NEW i \in DOMAIN packs, NEW j \in DOMAIN packs, Regenerates(i, j)
               PROVE  LET statements(k) == <<packs[k].sections.pnl, packs[k].sections.sheet, packs[k].sections.cash_flow>>
                          corrected == i \in Corrections(packs[i].sections.month)
                      IN  /\ packs[j].evidence.began = packs[i].evidence.ended
                               /\ packs[j].sections.profile = packs[i].sections.profile => ~corrected
                          /\ statements(i) # statements(j) => corrected
    BY DEF CorrectionsCounted
  <2> DEFINE statements(k) == <<packs[k].sections.pnl, packs[k].sections.sheet, packs[k].sections.cash_flow>>
  <2>1. InOrder(packs, World)
    BY DEF ReportsInv, Kept
  <2>2. j < i /\ packs[j].sections.month = packs[i].sections.month
    BY DEF Regenerates
  <2>3. \A k \in DOMAIN packs : Regenerates(i, k) => k = j
    <3> SUFFICES ASSUME NEW k \in DOMAIN packs, Regenerates(i, k), k # j PROVE FALSE
      OBVIOUS
    <3>1. i \in Int /\ j \in Int /\ k \in Int
      BY <2>1 DEF InOrder
    <3>2. /\ k < i /\ packs[k].sections.month = packs[i].sections.month
          /\ \A l \in k + 1 .. i - 1 : packs[l].sections.month # packs[i].sections.month
          /\ \A l \in j + 1 .. i - 1 : packs[l].sections.month # packs[i].sections.month
      BY DEF Regenerates
    <3> QED
      BY <2>2, <3>1, <3>2
  <2>4. i \in Corrections(packs[i].sections.month) <=> Stripped(packs[i].sections) # Stripped(packs[j].sections)
    BY <2>3 DEF Corrections
  <2>5. ASSUME packs[j].evidence.began = packs[i].evidence.ended, packs[j].sections.profile = packs[i].sections.profile
        PROVE  Stripped(packs[i].sections) = Stripped(packs[j].sections)
    <3>1. SameNumbers(packs[j], packs[i])
      BY <2>1, <2>2 DEF InOrder
    <3> QED
      BY <2>2, <2>5, <3>1 DEF SameNumbers
  <2>6. ASSUME NEW k \in DOMAIN packs
        PROVE  statements(k) = << Stripped(packs[k].sections).pnl, Stripped(packs[k].sections).sheet,
                                  Stripped(packs[k].sections).cash_flow >>
    <3> DEFINE s == packs[k].sections
    <3>1. s = [x \in SectionNames |-> s[x]]
      BY <2>1 DEF InOrder, Written
    <3> HIDE DEF s
    <3>2. Stripped(s).pnl = s.pnl /\ Stripped(s).sheet = s.sheet /\ Stripped(s).cash_flow = s.cash_flow
      BY <3>1, StrippedIs
    <3> QED
      BY <3>2 DEF s
  <2>7. statements(i) # statements(j) => Stripped(packs[i].sections) # Stripped(packs[j].sections)
    BY <2>6
  <2> QED
    BY <2>4, <2>5, <2>7
<1> QED
  BY <1>1, ReportsInvariant, PTL
=============================================================================
