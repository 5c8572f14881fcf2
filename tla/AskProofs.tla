------------------------------ MODULE AskProofs ------------------------------
(***************************************************************************)
(* For any calendar, registry, ledger, question and compiler, and whatever *)
(* commits while a question runs: numbers are of months that may be read,  *)
(* rest on no open decision and on no read that was cut short, a compile   *)
(* keeps to one version of each metric and month it visits, the rows of a  *)
(* citation are of its files or superseded, and only admitted statements   *)
(* run.                                                                    *)
(***************************************************************************)
EXTENDS Ask, SequenceTheorems, FiniteSetTheorems, WellFoundedInduction, TLAPS

-----------------------------------------------------------------------------
(* Counting.                                                               *)

\* Counting up from zero reaches every number.
LEMMA CountingInduction ==
  ASSUME NEW T \in SUBSET Nat, 0 \in T, \A n \in T : n + 1 \in T
  PROVE  T = Nat
<1> DEFINE Bad == Nat \ T
<1> SUFFICES ASSUME Bad # {} PROVE FALSE
  OBVIOUS
<1>1. PICK m \in Bad : \A y \in Bad : ~ (<<y, m>> \in OpToRel(<, Nat))
  BY NatLessThanWellFounded, WFMin, Zenon
<1>2. m \in Nat /\ m # 0
  BY <1>1
<1>3. m - 1 \in Nat /\ m - 1 < m
  BY <1>2
<1>4. m - 1 \notin Bad
  BY <1>1, <1>2, <1>3 DEF OpToRel
<1>5. (m - 1) + 1 = m
  BY <1>2
<1> QED
  BY <1>1, <1>3, <1>4, <1>5

LEMMA MinIn ==
  ASSUME NEW S \in SUBSET Nat, S # {}
  PROVE  Min(S) \in S
<1>1. PICK m \in S : \A y \in S : ~ (<<y, m>> \in OpToRel(<, Nat))
  BY NatLessThanWellFounded, WFMin, Zenon
<1>2. \A y \in S : m <= y
  <2> SUFFICES ASSUME NEW y \in S PROVE m <= y
    OBVIOUS
  <2>1. m \in Nat /\ y \in Nat /\ ~(y < m)
    BY <1>1 DEF OpToRel
  <2> QED
    BY <2>1
<1> QED
  BY <1>1, <1>2 DEF Min

-----------------------------------------------------------------------------
(* What a metric is made of.                                               *)

Itself == [x \in Known |-> {x}]
DepsOver(f) == [x \in Known |-> {x} \cup UNION { f[y] : y \in ToSet(Contracts[x].deps) }]
UsesOver(f) == [x \in Known |-> {x} \cup UNION { f[y] : y \in Uses(x) }]

\* The equations of the recursive function of Closures.
ClosuresUpTo(r, D) == r = [d \in 0 .. D |-> IF d = 0 THEN Itself ELSE DepsOver(r[d - 1])]

LEMMA ClosuresExist == \A D \in Nat : \E r : ClosuresUpTo(r, D)
<1> DEFINE T == { D \in Nat : \E r : ClosuresUpTo(r, D) }
<1>1. 0 \in T
  <2>1. ClosuresUpTo([d \in 0 .. 0 |-> Itself], 0)
    BY DEF ClosuresUpTo
  <2> QED
    BY <2>1
<1>2. ASSUME NEW n \in T PROVE n + 1 \in T
  <2>1. PICK r : ClosuresUpTo(r, n)
    OBVIOUS
  <2> DEFINE s == [d \in 0 .. n + 1 |-> IF d <= n THEN r[d] ELSE DepsOver(r[n])]
  <2>2. \A d \in 0 .. n : r[d] = IF d = 0 THEN Itself ELSE DepsOver(r[d - 1])
    BY <2>1 DEF ClosuresUpTo
  <2>3. ASSUME NEW d \in 0 .. n + 1 PROVE s[d] = IF d = 0 THEN Itself ELSE DepsOver(s[d - 1])
    <3>1. CASE d = 0
      BY <2>2, <3>1
    <3>2. CASE d # 0 /\ d <= n
      <4>1. s[d] = r[d] /\ s[d - 1] = r[d - 1] /\ r[d] = DepsOver(r[d - 1])
        BY <2>2, <3>2
      <4> QED
        BY <3>2, <4>1
    <3>3. CASE d = n + 1
      <4>1. s[d] = DepsOver(r[n]) /\ s[d - 1] = r[n]
        BY <3>3
      <4> QED
        BY <3>3, <4>1
    <3> QED
      BY <3>1, <3>2, <3>3
  <2> HIDE DEF s
  <2>4. DOMAIN s = 0 .. n + 1 /\ s = [d \in DOMAIN s |-> s[d]]
    BY DEF s
  <2>5. ClosuresUpTo(s, n + 1)
    BY <2>3, <2>4, Zenon DEF ClosuresUpTo
  <2> QED
    BY <2>5
<1>3. T = Nat
  <2>1. T \in SUBSET Nat
    OBVIOUS
  <2> HIDE DEF T
  <2> QED
    BY <1>1, <1>2, <2>1, CountingInduction
<1> QED
  BY <1>3

LEMMA InItsClosure ==
  ASSUME NEW x \in Known
  PROVE  x \in Closure(x)
<1> DEFINE r == CHOOSE r : ClosuresUpTo(r, Depth)
<1>1. ClosuresUpTo(r, Depth)
  BY DepthAssumption, ClosuresExist
<1>2. Closures = r[Depth]
  BY DEF Closures, ClosuresUpTo, Itself, DepsOver
<1> HIDE DEF r
<1>3. Depth \in 0 .. Depth
  BY DepthAssumption
<1>4. r[Depth] = Itself \/ r[Depth] = DepsOver(r[Depth - 1])
  BY <1>1, <1>3 DEF ClosuresUpTo
<1>5. x \in r[Depth][x]
  BY <1>4 DEF Itself, DepsOver
<1> QED
  BY <1>2, <1>5 DEF Closure

\* The equations of the recursive function of Reaches.
ReachesUpTo(r, D) == r = [d \in 0 .. D |-> IF d = 0 THEN Itself ELSE UsesOver(r[d - 1])]

LEMMA ReachesExist == \A D \in Nat : \E r : ReachesUpTo(r, D)
<1> DEFINE T == { D \in Nat : \E r : ReachesUpTo(r, D) }
<1>1. 0 \in T
  <2>1. ReachesUpTo([d \in 0 .. 0 |-> Itself], 0)
    BY DEF ReachesUpTo
  <2> QED
    BY <2>1
<1>2. ASSUME NEW n \in T PROVE n + 1 \in T
  <2>1. PICK r : ReachesUpTo(r, n)
    OBVIOUS
  <2> DEFINE s == [d \in 0 .. n + 1 |-> IF d <= n THEN r[d] ELSE UsesOver(r[n])]
  <2>2. \A d \in 0 .. n : r[d] = IF d = 0 THEN Itself ELSE UsesOver(r[d - 1])
    BY <2>1 DEF ReachesUpTo
  <2>3. ASSUME NEW d \in 0 .. n + 1 PROVE s[d] = IF d = 0 THEN Itself ELSE UsesOver(s[d - 1])
    <3>1. CASE d = 0
      BY <2>2, <3>1
    <3>2. CASE d # 0 /\ d <= n
      <4>1. s[d] = r[d] /\ s[d - 1] = r[d - 1] /\ r[d] = UsesOver(r[d - 1])
        BY <2>2, <3>2
      <4> QED
        BY <3>2, <4>1
    <3>3. CASE d = n + 1
      <4>1. s[d] = UsesOver(r[n]) /\ s[d - 1] = r[n]
        BY <3>3
      <4> QED
        BY <3>3, <4>1
    <3> QED
      BY <3>1, <3>2, <3>3
  <2> HIDE DEF s
  <2>4. DOMAIN s = 0 .. n + 1 /\ s = [d \in DOMAIN s |-> s[d]]
    BY DEF s
  <2>5. ReachesUpTo(s, n + 1)
    BY <2>3, <2>4, Zenon DEF ReachesUpTo
  <2> QED
    BY <2>5
<1>3. T = Nat
  <2>1. T \in SUBSET Nat
    OBVIOUS
  <2> HIDE DEF T
  <2> QED
    BY <1>1, <1>2, <2>1, CountingInduction
<1> QED
  BY <1>3

LEMMA ReachIs ==
  ASSUME NEW x
  PROVE  \E r : ReachesUpTo(r, Depth) /\ Reach(x) = r[Depth][x]
<1> DEFINE r == CHOOSE r : ReachesUpTo(r, Depth)
<1>1. ReachesUpTo(r, Depth)
  BY DepthAssumption, ReachesExist
<1>2. Reaches = r[Depth]
  BY DEF Reaches, ReachesUpTo, Itself, UsesOver
<1> HIDE DEF r
<1> QED
  BY <1>1, <1>2 DEF Reach

-----------------------------------------------------------------------------
(* The result of a compile.                                                *)

NoResults == [y \in Known |-> [k \in Months |-> Unresolvable]]

\* The equations of the recursive function of Compiled.
ResultsUpTo(r, D, g) == r = [d \in 0 .. D |-> IF d = 0 THEN NoResults ELSE Visited(r[d - 1], g)]

LEMMA ResultsExist == \A D \in Nat : \A g : \E r : ResultsUpTo(r, D, g)
<1> SUFFICES ASSUME NEW g PROVE \A D \in Nat : \E r : ResultsUpTo(r, D, g)
  OBVIOUS
<1> DEFINE T == { D \in Nat : \E r : ResultsUpTo(r, D, g) }
<1>1. 0 \in T
  <2>1. ResultsUpTo([d \in 0 .. 0 |-> NoResults], 0, g)
    BY DEF ResultsUpTo
  <2> QED
    BY <2>1
<1>2. ASSUME NEW n \in T PROVE n + 1 \in T
  <2>1. PICK r : ResultsUpTo(r, n, g)
    OBVIOUS
  <2> DEFINE s == [d \in 0 .. n + 1 |-> IF d <= n THEN r[d] ELSE Visited(r[n], g)]
  <2>2. \A d \in 0 .. n : r[d] = IF d = 0 THEN NoResults ELSE Visited(r[d - 1], g)
    BY <2>1 DEF ResultsUpTo
  <2>3. ASSUME NEW d \in 0 .. n + 1 PROVE s[d] = IF d = 0 THEN NoResults ELSE Visited(s[d - 1], g)
    <3>1. CASE d = 0
      BY <2>2, <3>1
    <3>2. CASE d # 0 /\ d <= n
      <4>1. s[d] = r[d] /\ s[d - 1] = r[d - 1] /\ r[d] = Visited(r[d - 1], g)
        BY <2>2, <3>2
      <4> QED
        BY <3>2, <4>1
    <3>3. CASE d = n + 1
      <4>1. s[d] = Visited(r[n], g) /\ s[d - 1] = r[n]
        BY <3>3
      <4> QED
        BY <3>3, <4>1
    <3> QED
      BY <3>1, <3>2, <3>3
  <2> HIDE DEF s
  <2>4. DOMAIN s = 0 .. n + 1 /\ s = [d \in DOMAIN s |-> s[d]]
    BY DEF s
  <2>5. ResultsUpTo(s, n + 1, g)
    BY <2>3, <2>4, Zenon DEF ResultsUpTo
  <2> QED
    BY <2>5
<1>3. T = Nat
  <2>1. T \in SUBSET Nat
    OBVIOUS
  <2> HIDE DEF T
  <2> QED
    BY <1>1, <1>2, <2>1, CountingInduction
<1> QED
  BY <1>3

LEMMA CompiledIs ==
  ASSUME NEW x, NEW m, NEW g
  PROVE  \E r : ResultsUpTo(r, Depth + 1, g) /\ Compiled(x, m, g) = r[Depth + 1][x][m]
<1> DEFINE r == CHOOSE r : ResultsUpTo(r, Depth + 1, g)
<1>1. ResultsUpTo(r, Depth + 1, g)
  <2>1. Depth + 1 \in Nat
    BY DepthAssumption
  <2> QED
    BY <2>1, ResultsExist
<1>2. Compiled(x, m, g) = r[Depth + 1][x][m]
  BY DEF Compiled, ResultsUpTo, NoResults
<1> HIDE DEF r
<1> QED
  BY <1>1, <1>2

\* One level of it.
LEMMA OneLevel ==
  ASSUME NEW D \in Nat, NEW g, NEW r, ResultsUpTo(r, D, g), NEW y \in Known, NEW k \in Months, NEW d \in 0 .. D
  PROVE  r[d][y][k] = IF d = 0 THEN Unresolvable ELSE Visit(y, k, r[d - 1], g)
<1>1. r[d] = IF d = 0 THEN NoResults ELSE Visited(r[d - 1], g)
  BY DEF ResultsUpTo
<1> QED
  BY <1>1 DEF NoResults, Visited

LEMMA BaseKnown ==
  ASSUME NEW x \in Known
  PROVE  Base(x) \in Known \cup {NoMetric}
<1> DEFINE rows(scope) == { o \in Overrides : o.metric = x /\ o.scope = scope }
           named(scope) == (CHOOSE o \in rows(scope) : TRUE).base
<1>1. ASSUME NEW scope, rows(scope) # {} PROVE named(scope) \in Known
  <2> DEFINE o == CHOOSE o \in rows(scope) : TRUE
  <2>1. o \in rows(scope)
    BY <1>1
  <2>2. o \in Overrides
    BY <2>1
  <2> HIDE DEF o
  <2>3. o.base \in Known
    BY <2>2, ContractsAssumption
  <2> QED
    BY <2>3 DEF o
<1>2. Contracts[x].base \in Known \cup {NoMetric}
  BY ContractsAssumption
<1>3. \/ Base(x) = NoMetric
      \/ rows("entity") # {} /\ Base(x) = named("entity")
      \/ rows("company") # {} /\ Base(x) = named("company")
      \/ Base(x) = Contracts[x].base
  BY DEF Base
<1> HIDE DEF rows, named
<1> QED
  BY <1>1, <1>2, <1>3

LEMMA TrailingMonths ==
  ASSUME NEW m \in Months
  PROVE  Trailing(m) \in Seq(Months)
<1>1. m \in Nat /\ m >= 1 /\ m <= NumMonths /\ NumMonths \in Nat /\ Window \in Nat
  BY NumMonthsAssumption, DepthAssumption DEF Months
<1>2. Min({Window, m}) \in Nat /\ Min({Window, m}) <= m
  <2>1. CASE Window <= m
    <3>1. \A x \in {Window, m} : (\A y \in {Window, m} : x <= y) => x = Window
      BY <1>1, <2>1
    <3>2. \A y \in {Window, m} : Window <= y
      BY <1>1, <2>1
    <3>3. Min({Window, m}) = Window
      BY <3>1, <3>2 DEF Min
    <3> QED
      BY <1>1, <2>1, <3>3
  <2>2. CASE m < Window
    <3>1. \A x \in {Window, m} : (\A y \in {Window, m} : x <= y) => x = m
      BY <1>1, <2>2
    <3>2. \A y \in {Window, m} : m <= y
      BY <1>1, <2>2
    <3>3. Min({Window, m}) = m
      BY <3>1, <3>2 DEF Min
    <3> QED
      BY <1>1, <3>3
  <2> QED
    BY <1>1, <2>1, <2>2
<1> DEFINE n == Min({Window, m})
<1>3. n \in Nat /\ n <= m
  BY <1>2
<1> HIDE DEF n
<1>4. \A i \in 1 .. n : m + 1 - i \in Months
  BY <1>1, <1>3 DEF Months
<1>5. [i \in 1 .. n |-> m + 1 - i] \in Seq(Months)
  BY <1>3, <1>4
<1>6. Trailing(m) = [i \in 1 .. n |-> m + 1 - i]
  BY Zenon DEF Trailing, n
<1> QED
  BY <1>5, <1>6


-----------------------------------------------------------------------------
(* What holds of every level of it.                                        *)

Visits == Known \X Months

\* Each row is of a load among loads or is no longer the ledger's: L is the
\* ledger and n bounds the numbers of the loads.
Traced(rows, loads, L, n) ==
  \A r \in rows : /\ r.account \in Accounts /\ r.month \in Months /\ r.load \in 1 .. n
                  /\ r.load \in loads \/ L[<<r.account, r.month>>].load # r.load

AllTraced(g, L, n) == \A p \in DOMAIN g : Traced(g[p].rows, g[p].loads, L, n)

\* A pending result waits for a visit that has not been made; the rows of any
\* are traced when those of the reads are.
Sane(c, g, L, n) ==
  /\ c.status = "pending" => c.next \in Visits \ DOMAIN g
  /\ AllTraced(g, L, n) => Traced(c.rows, c.loads, L, n)

LEMMA UnresolvableIs ==
  /\ Unresolvable.status = "blocked" /\ Unresolvable.rows = {} /\ Unresolvable.loads = {}
  /\ Undefined.status = "undefined" /\ Undefined.rows = {} /\ Undefined.loads = {}
  /\ \A v : Pending(v).status = "pending" /\ Pending(v).next = v /\ Pending(v).rows = {} /\ Pending(v).loads = {}
  /\ \A v, rows, loads : /\ Resolved(v, rows, loads).status = "ok" /\ Resolved(v, rows, loads).value = v
                         /\ Resolved(v, rows, loads).rows = rows /\ Resolved(v, rows, loads).loads = loads
  /\ \A s : /\ [Unresolvable EXCEPT !.status = s].status = s
            /\ [Unresolvable EXCEPT !.status = s].rows = {}
BY DEF Unresolvable, Undefined, Pending, Resolved

LEMMA SaneEmpty ==
  ASSUME NEW c, c.status # "pending", c.rows = {}, NEW g, NEW L, NEW n
  PROVE  Sane(c, g, L, n)
BY DEF Sane, Traced

\* The results a visit combines.
LEMMA PartsIs ==
  ASSUME NEW y \in Known, NEW k \in Months, NEW results
  PROVE  /\ DOMAIN Parts(y, k, results) \in SUBSET Nat
         /\ \A i \in DOMAIN Parts(y, k, results) :
              /\ Contracts[y].deps[i] \in Known
              /\ Contracts[y].deps[i] \in ToSet(Contracts[y].deps)
              /\ Parts(y, k, results)[i] = results[Contracts[y].deps[i]][k]
<1>1. Contracts[y].deps \in Seq(Known)
  BY ContractsAssumption
<1> DEFINE s == Contracts[y].deps
<1>2. s \in Seq(Known)
  BY <1>1
<1> HIDE DEF s
<1>3. DOMAIN s \in SUBSET Nat /\ \A i \in DOMAIN s : s[i] \in Known /\ s[i] \in ToSet(s)
  BY <1>2 DEF ToSet
<1> QED
  BY <1>3 DEF Parts, s

LEMMA TrailIs ==
  ASSUME NEW y \in Known, NEW k \in Months, NEW results
  PROVE  /\ DOMAIN Trail(y, k, results) \in SUBSET Nat
         /\ \A i \in DOMAIN Trail(y, k, results) :
              /\ Base(y) \in Known /\ Trailing(k)[i] \in Months
              /\ Trail(y, k, results)[i] = results[Base(y)][Trailing(k)[i]]
<1>1. CASE Base(y) = NoMetric
  <2>1. Trail(y, k, results) = <<>>
    BY <1>1 DEF Trail
  <2>2. DOMAIN <<>> = {}
    OBVIOUS
  <2> QED
    BY <2>1, <2>2
<1>2. CASE Base(y) # NoMetric
  <2> DEFINE t == Trailing(k)
  <2>1. t \in Seq(Months) /\ Base(y) \in Known
    BY <1>2, TrailingMonths, BaseKnown
  <2> HIDE DEF t
  <2>2. DOMAIN t \in SUBSET Nat /\ \A i \in DOMAIN t : t[i] \in Months
    BY <2>1
  <2>3. Trail(y, k, results) = [i \in DOMAIN t |-> results[Base(y)][t[i]]]
    BY <1>2 DEF Trail, t
  <2> QED
    BY <2>1, <2>2, <2>3 DEF t
<1> QED
  BY <1>1, <1>2

\* The first of a kind is one of them.
LEMMA FirstWith ==
  ASSUME NEW results, DOMAIN results \in SUBSET Nat, NEW kind, With(kind, results) # {}
  PROVE  /\ Min(With(kind, results)) \in DOMAIN results
         /\ results[Min(With(kind, results))].status = kind
<1>1. With(kind, results) \in SUBSET Nat /\ \A i \in With(kind, results) : i \in DOMAIN results /\ results[i].status = kind
  BY DEF With
<1>2. Min(With(kind, results)) \in With(kind, results)
  BY <1>1, MinIn
<1> QED
  BY <1>1, <1>2

LEMMA FirstFailing ==
  ASSUME NEW results, DOMAIN results \in SUBSET Nat, Failing(results) # {}
  PROVE  /\ Min(Failing(results)) \in DOMAIN results
         /\ results[Min(Failing(results))].status # "ok"
<1>1. Failing(results) \in SUBSET Nat /\ \A i \in Failing(results) : i \in DOMAIN results /\ results[i].status # "ok"
  BY DEF Failing, With
<1>2. Min(Failing(results)) \in Failing(results)
  BY <1>1, MinIn
<1> QED
  BY <1>1, <1>2

\* What an evaluation hands on: the rows and loads of its parts, or nothing.
LEMMA EvaluatedHas ==
  ASSUME NEW y, NEW parts, NEW trail
  PROVE  LET e == Evaluated(y, parts, trail)
         IN  /\ e.status # "pending"
             /\ e.rows = {} \/ ( /\ e.status = "ok"
                                 /\ e.rows = UNION { parts[i].rows : i \in DOMAIN parts }
                                 /\ e.loads = UNION { parts[i].loads : i \in DOMAIN parts } )
<1> DEFINE rows == UNION { parts[i].rows : i \in DOMAIN parts }
           loads == UNION { parts[i].loads : i \in DOMAIN parts }
           e == Evaluated(y, parts, trail)
<1>1. e \in {Unresolvable, Undefined} \/ \E v : e = Resolved(v, rows, loads)
  BY DEF Evaluated, Ratio
<1> HIDE DEF rows, loads, e
<1>2. /\ e.status # "pending"
      /\ e.rows = {} \/ (e.status = "ok" /\ e.rows = rows /\ e.loads = loads)
  BY <1>1, UnresolvableIs
<1> QED
  BY <1>2 DEF e, rows, loads

LEMMA CombinedSane ==
  ASSUME NEW y, NEW parts, NEW trail, NEW g, NEW L, NEW n,
         DOMAIN parts \in SUBSET Nat, DOMAIN trail \in SUBSET Nat,
         \A i \in DOMAIN parts : Sane(parts[i], g, L, n),
         \A i \in DOMAIN trail : Sane(trail[i], g, L, n)
  PROVE  Sane(Combined(y, parts, trail), g, L, n)
<1>1. CASE With("pending", parts) # {}
  BY <1>1, FirstWith DEF Combined
<1>2. CASE With("pending", parts) = {} /\ Failing(parts) # {}
  <2> DEFINE i == Min(Failing(parts))
  <2>1. i \in DOMAIN parts
    BY <1>2, FirstFailing
  <2>2. Combined(y, parts, trail) = [Unresolvable EXCEPT !.status = parts[i].status]
    BY <1>2 DEF Combined
  <2> HIDE DEF i
  <2>3. parts[i].status # "pending"
    BY <1>2, <2>1 DEF With
  <2> DEFINE c == Combined(y, parts, trail)
  <2>4. c.status = parts[i].status /\ c.rows = {}
    BY <2>2, UnresolvableIs
  <2> HIDE DEF c
  <2>5. Sane(c, g, L, n)
    BY <2>3, <2>4, SaneEmpty
  <2> QED
    BY <2>5 DEF c
<1>3. CASE With("pending", parts) = {} /\ Failing(parts) = {} /\ With("pending", trail) # {}
  BY <1>3, FirstWith DEF Combined
<1>4. CASE With("pending", parts) = {} /\ Failing(parts) = {} /\ With("pending", trail) = {}
  <2> DEFINE e == Evaluated(y, parts, trail)
             rows == UNION { parts[i].rows : i \in DOMAIN parts }
             loads == UNION { parts[i].loads : i \in DOMAIN parts }
  <2>1. Combined(y, parts, trail) = e
    BY <1>4 DEF Combined
  <2>2. /\ e.status # "pending"
        /\ e.rows = {} \/ (e.rows = rows /\ e.loads = loads)
    BY EvaluatedHas
  <2>3. AllTraced(g, L, n) => Traced(rows, loads, L, n)
    <3> SUFFICES ASSUME AllTraced(g, L, n), NEW i \in DOMAIN parts, NEW r \in parts[i].rows
                 PROVE  /\ r.account \in Accounts /\ r.month \in Months /\ r.load \in 1 .. n
                        /\ r.load \in loads \/ L[<<r.account, r.month>>].load # r.load
      BY DEF Traced
    <3>1. Traced(parts[i].rows, parts[i].loads, L, n)
      BY DEF Sane
    <3>2. parts[i].loads \subseteq loads
      OBVIOUS
    <3> HIDE DEF loads
    <3> QED
      BY <3>1, <3>2 DEF Traced
  <2> HIDE DEF e, rows, loads
  <2>4. Sane(e, g, L, n)
    BY <2>2, <2>3, SaneEmpty DEF Sane
  <2> QED
    BY <2>1, <2>4
<1> QED
  BY <1>1, <1>2, <1>3, <1>4

LEMMA VisitSane ==
  ASSUME NEW y \in Known, NEW k \in Months, NEW results, NEW g, NEW L, NEW n,
         \A z \in Known, j \in Months : Sane(results[z][j], g, L, n)
  PROVE  Sane(Visit(y, k, results, g), g, L, n)
<1> DEFINE c == Visit(y, k, results, g)
<1>1. CASE c = Unresolvable
  BY <1>1, UnresolvableIs, SaneEmpty
<1>2. CASE <<y, k>> \notin DOMAIN g /\ c = Pending(<<y, k>>)
  <2>1. c.status = "pending" /\ c.next = <<y, k>> /\ c.rows = {}
    BY <1>2, UnresolvableIs
  <2> QED
    BY <1>2, <2>1 DEF Sane, Traced, Visits
<1>3. CASE <<y, k>> \in DOMAIN g /\ c = LeafResult(y, g[<<y, k>>])
  <2> DEFINE read == g[<<y, k>>]
  <2>1. CASE Contracts[y].formula # "gl_class"
    BY <1>3, <2>1, UnresolvableIs, SaneEmpty DEF LeafResult
  <2>2. CASE Contracts[y].formula = "gl_class"
    <3>1. c = Resolved(LeafValue(y, read.rows), read.rows, read.loads)
      BY <1>3, <2>2 DEF LeafResult
    <3>2. c.status = "ok" /\ c.rows = read.rows /\ c.loads = read.loads
      BY <3>1, UnresolvableIs
    <3>3. AllTraced(g, L, n) => Traced(read.rows, read.loads, L, n)
      BY <1>3 DEF AllTraced
    <3> HIDE DEF c, read
    <3> QED
      BY <3>2, <3>3 DEF Sane, c
  <2> QED
    BY <2>1, <2>2
<1>4. CASE c = Combined(y, Parts(y, k, results), Trail(y, k, results))
  <2> DEFINE parts == Parts(y, k, results)
             trail == Trail(y, k, results)
  <2>1. DOMAIN parts \in SUBSET Nat /\ \A i \in DOMAIN parts : Sane(parts[i], g, L, n)
    BY PartsIs
  <2>2. DOMAIN trail \in SUBSET Nat /\ \A i \in DOMAIN trail : Sane(trail[i], g, L, n)
    BY TrailIs
  <2>3. c = Combined(y, parts, trail)
    BY <1>4
  <2> HIDE DEF parts, trail, c
  <2>4. Sane(c, g, L, n)
    BY <2>1, <2>2, <2>3, CombinedSane
  <2> QED
    BY <2>4 DEF c
<1> QED
  BY <1>1, <1>2, <1>3, <1>4 DEF Visit

LEMMA CompiledSane ==
  ASSUME NEW x \in Known, NEW m \in Months, NEW g, NEW L, NEW n
  PROVE  Sane(Compiled(x, m, g), g, L, n)
<1> DEFINE D == Depth + 1
<1>1. PICK r : ResultsUpTo(r, D, g) /\ Compiled(x, m, g) = r[D][x][m]
  BY CompiledIs
<1>2. D \in Nat
  BY DepthAssumption
<1> HIDE DEF D
<1> DEFINE T == { d \in Nat : d <= D => \A y \in Known, k \in Months : Sane(r[d][y][k], g, L, n) }
<1>3. 0 \in T
  <2> SUFFICES ASSUME NEW y \in Known, NEW k \in Months PROVE Sane(r[0][y][k], g, L, n)
    OBVIOUS
  <2>1. r[0][y][k] = Unresolvable
    BY <1>1, <1>2, OneLevel
  <2> QED
    BY <2>1, UnresolvableIs, SaneEmpty
<1>4. ASSUME NEW d \in T PROVE d + 1 \in T
  <2> SUFFICES ASSUME d + 1 <= D, NEW y \in Known, NEW k \in Months PROVE Sane(r[d + 1][y][k], g, L, n)
    OBVIOUS
  <2>1. d \in Nat /\ d + 1 \in 0 .. D /\ d + 1 # 0 /\ (d + 1) - 1 = d /\ d <= D
    BY <1>2
  <2>2. r[d + 1][y][k] = Visit(y, k, r[d], g)
    BY <1>1, <1>2, <2>1, OneLevel
  <2>3. \A z \in Known, j \in Months : Sane(r[d][z][j], g, L, n)
    BY <2>1
  <2> QED
    BY <2>2, <2>3, VisitSane
<1>5. T = Nat
  <2>1. T \in SUBSET Nat
    OBVIOUS
  <2> HIDE DEF T
  <2> QED
    BY <1>3, <1>4, <2>1, CountingInduction
<1>6. Sane(r[D][x][m], g, L, n)
  BY <1>2, <1>5
<1> QED
  BY <1>1, <1>6

LEMMA CompiledWaits ==
  ASSUME NEW x \in Known, NEW m \in Months, NEW g, Compiled(x, m, g).status = "pending"
  PROVE  Compiled(x, m, g).next \in Visits \ DOMAIN g
BY CompiledSane DEF Sane

\* A leaf is compiled from its own reads.
LEMMA LeafCompiles ==
  ASSUME NEW x \in Known, NEW m \in Months, Leaf(x), NEW g, Compiled(x, m, g).status = "ok"
  PROVE  <<x, m>> \in DOMAIN g /\ Compiled(x, m, g).rows = g[<<x, m>>].rows
<1> DEFINE D == Depth + 1
           c == Compiled(x, m, g)
<1>1. PICK r : ResultsUpTo(r, D, g) /\ c = r[D][x][m]
  BY CompiledIs
<1>2. D \in Nat /\ D \in 0 .. D /\ D # 0
  BY DepthAssumption
<1> HIDE DEF D
<1>3. c = Visit(x, m, r[D - 1], g)
  BY <1>1, <1>2, OneLevel
<1>4. c \notin {Unresolvable, Pending(<<x, m>>)}
  BY UnresolvableIs
<1>5. <<x, m>> \in DOMAIN g /\ c = LeafResult(x, g[<<x, m>>])
  BY <1>3, <1>4 DEF Visit
<1>6. c = Resolved(LeafValue(x, g[<<x, m>>].rows), g[<<x, m>>].rows, g[<<x, m>>].loads)
  BY <1>4, <1>5 DEF LeafResult
<1>7. c.rows = g[<<x, m>>].rows
  BY <1>6, UnresolvableIs
<1> QED
  BY <1>5, <1>7

\* The equations of the recursive function that SumFunction is.
Adds(h, f, S) ==
  h = [s \in SUBSET S |-> IF s = {} THEN 0
                          ELSE f[CHOOSE x \in s : TRUE] + h[s \ {CHOOSE x \in s : TRUE}]]

LEMMA SumOfNothing ==
  ASSUME NEW f, DOMAIN f = {}
  PROVE  SumFunction(f) = 0
<1> DEFINE h == CHOOSE h : Adds(h, f, {})
<1>1. Adds([s \in SUBSET {} |-> 0], f, {})
  BY DEF Adds
<1>2. Adds(h, f, {})
  BY <1>1
<1>3. SumFunction(f) = h[{}]
  BY DEF SumFunction, SumFunctionOnSet, FoldFunctionOnSet, MapThenFoldSet, Adds
<1> HIDE DEF h
<1> QED
  BY <1>2, <1>3 DEF Adds

-----------------------------------------------------------------------------
(* What no open decision governs.                                          *)

Ungoverned(x) == Contracts[x].governed \cap OpenDecisions = {}
Dark(x) == x \in Known => \A y \in Reach(x) : Ungoverned(y)

LEMMA VisitUngoverned ==
  ASSUME NEW y \in Known, NEW k, NEW results, NEW g, Visit(y, k, results, g).status = "ok"
  PROVE  /\ Ungoverned(y)
         /\ ~Leaf(y) => Visit(y, k, results, g) = Combined(y, Parts(y, k, results), Trail(y, k, results))
<1>1. Visit(y, k, results, g) \notin {Unresolvable, Pending(<<y, k>>)}
  BY UnresolvableIs
<1>2. Blocking(y) = {}
  BY <1>1 DEF Visit
<1>3. Ungoverned(y)
  BY <1>2, InItsClosure DEF Blocking, Ungoverned
<1> QED
  BY <1>1, <1>3 DEF Visit

\* A number is made of parts that all resolved, and a ratio over a window of
\* one month at least that did.
LEMMA CombinedOk ==
  ASSUME NEW y, NEW parts, NEW trail,
         DOMAIN parts \in SUBSET Nat, DOMAIN trail \in SUBSET Nat, Combined(y, parts, trail).status = "ok"
  PROVE  /\ \A i \in DOMAIN parts : parts[i].status = "ok"
         /\ Contracts[y].formula = "over" /\ Base(y) # NoMetric => With("ok", trail) # {}
<1>1. With("pending", parts) = {}
  <2> SUFFICES ASSUME With("pending", parts) # {} PROVE FALSE
    OBVIOUS
  <2> QED
    BY FirstWith DEF Combined
<1>2. Failing(parts) = {}
  <2> SUFFICES ASSUME Failing(parts) # {} PROVE FALSE
    OBVIOUS
  <2> DEFINE s == parts[Min(Failing(parts))].status
             c == Combined(y, parts, trail)
  <2>1. s # "ok"
    BY FirstFailing
  <2>2. c = [Unresolvable EXCEPT !.status = s]
    BY <1>1 DEF Combined
  <2> HIDE DEF s
  <2>3. c.status = s
    BY <2>2, UnresolvableIs
  <2> QED
    BY <2>1, <2>3
<1>3. Combined(y, parts, trail) = Evaluated(y, parts, trail)
  <2>1. With("pending", trail) = {}
    <3> SUFFICES ASSUME With("pending", trail) # {} PROVE FALSE
      OBVIOUS
    <3> QED
      BY <1>1, <1>2, FirstWith DEF Combined
  <2> QED
    BY <1>1, <1>2, <2>1 DEF Combined
<1>4. ASSUME Contracts[y].formula = "over", Base(y) # NoMetric, With("ok", trail) = {} PROVE FALSE
  <2>1. TrailingValue(trail) = 0
    <3> DEFINE f == [i \in With("ok", trail) |-> trail[i].value]
    <3>1. DOMAIN f = {}
      BY <1>4
    <3> HIDE DEF f
    <3>2. SumFunction(f) = 0
      BY <3>1, SumOfNothing
    <3> QED
      BY <3>2 DEF TrailingValue, f
  <2> DEFINE rows == UNION { parts[i].rows : i \in DOMAIN parts }
             loads == UNION { parts[i].loads : i \in DOMAIN parts }
  <2>2. Evaluated(y, parts, trail) = Ratio(parts[1].value, TrailingValue(trail), rows, loads)
    BY <1>4 DEF Evaluated
  <2> HIDE DEF rows, loads
  <2>3. Evaluated(y, parts, trail) = Undefined
    BY <2>1, <2>2 DEF Ratio
  <2> QED
    BY <1>3, <2>3, UnresolvableIs
<1> QED
  BY <1>2, <1>4 DEF Failing, With

\* What a level resolves reaches no further than that level, and nothing it
\* reaches is governed.
LEMMA VisitDark ==
  ASSUME NEW y \in Known, NEW k \in Months, NEW results, NEW g, NEW f,
         \A z \in Known, j \in Months : results[z][j].status = "ok" => \A u \in f[z] : Ungoverned(u),
         Visit(y, k, results, g).status = "ok"
  PROVE  \A u \in UsesOver(f)[y] : Ungoverned(u)
<1>1. Ungoverned(y)
  BY VisitUngoverned
<1>2. ASSUME NEW z \in Uses(y), NEW u \in f[z] PROVE Ungoverned(u)
  <2> DEFINE parts == Parts(y, k, results)
             trail == Trail(y, k, results)
  <2>1. ~Leaf(y) /\ z \in ToSet(Contracts[y].deps) \cup {Base(y)} /\ z # NoMetric
    BY DEF Uses
  <2>2. Combined(y, parts, trail).status = "ok"
    BY <2>1, VisitUngoverned
  <2>3. DOMAIN parts \in SUBSET Nat /\ DOMAIN trail \in SUBSET Nat
    BY PartsIs, TrailIs
  <2>4. CASE z \in ToSet(Contracts[y].deps)
    <3>1. PICK i \in DOMAIN parts : z = Contracts[y].deps[i]
      BY <2>4 DEF ToSet, Parts
    <3>2. parts[i] = results[z][k] /\ z \in Known
      BY <3>1, PartsIs
    <3> HIDE DEF parts, trail
    <3>3. parts[i].status = "ok"
      BY <2>2, <2>3, CombinedOk
    <3> QED
      BY <3>2, <3>3
  <2>5. CASE z = Base(y)
    <3>1. Contracts[y].formula = "over" /\ Base(y) # NoMetric
      <4>1. Base(y) # NoMetric
        BY <2>1, <2>5
      <4>2. Contracts[y].base # NoMetric
        BY <4>1 DEF Base
      <4> QED
        BY <2>1, <4>1, <4>2, ContractsAssumption
    <3>2. PICK i \in With("ok", trail) : TRUE
      <4> HIDE DEF parts, trail
      <4> QED
        BY <2>2, <2>3, <3>1, CombinedOk
    <3>3. i \in DOMAIN trail /\ trail[i].status = "ok"
      BY <3>2 DEF With
    <3>4. z \in Known /\ Trailing(k)[i] \in Months /\ trail[i] = results[z][Trailing(k)[i]]
      BY <2>5, <3>3, TrailIs
    <3> QED
      BY <3>3, <3>4
  <2> QED
    BY <2>1, <2>4, <2>5
<1> QED
  BY <1>1, <1>2 DEF UsesOver

\* A number rests on nothing an open decision governs, however deep, the base
\* of an override included.
LEMMA ResolvedIsDark ==
  ASSUME NEW x, NEW m \in Months, NEW g, Compiled(x, m, g).status = "ok"
  PROVE  Dark(x)
<1> SUFFICES ASSUME x \in Known PROVE \A u \in Reach(x) : Ungoverned(u)
  BY DEF Dark
<1> DEFINE D == Depth + 1
<1>1. PICK r : ResultsUpTo(r, D, g) /\ Compiled(x, m, g) = r[D][x][m]
  BY CompiledIs
<1>2. PICK f : ReachesUpTo(f, Depth) /\ Reach(x) = f[Depth][x]
  BY ReachIs
<1>3. Depth \in Nat /\ D \in Nat /\ D = Depth + 1
  BY DepthAssumption
<1> HIDE DEF D
<1> DEFINE Clear(d) == \A y \in Known, k \in Months : r[d + 1][y][k].status = "ok" => \A u \in f[d][y] : Ungoverned(u)
           T == { d \in Nat : d <= Depth => Clear(d) }
<1>4. 0 \in T
  <2> SUFFICES ASSUME NEW y \in Known, NEW k \in Months, r[0 + 1][y][k].status = "ok", NEW u \in f[0][y]
               PROVE  Ungoverned(u)
    OBVIOUS
  <2>1. 0 + 1 \in 0 .. D /\ 0 + 1 # 0 /\ 0 \in 0 .. Depth
    BY <1>3
  <2>2. r[0 + 1][y][k] = Visit(y, k, r[(0 + 1) - 1], g)
    BY <1>1, <1>3, <2>1, OneLevel
  <2>3. f[0] = Itself
    BY <1>2, <2>1 DEF ReachesUpTo
  <2>4. u = y
    BY <2>3 DEF Itself
  <2> QED
    BY <2>2, <2>4, VisitUngoverned
<1>5. ASSUME NEW d \in T PROVE d + 1 \in T
  <2> SUFFICES ASSUME d + 1 <= Depth, NEW y \in Known, NEW k \in Months, r[(d + 1) + 1][y][k].status = "ok"
               PROVE  \A u \in f[d + 1][y] : Ungoverned(u)
    OBVIOUS
  <2>1. /\ d \in Nat /\ (d + 1) + 1 \in 0 .. D /\ (d + 1) + 1 # 0 /\ ((d + 1) + 1) - 1 = d + 1
        /\ d + 1 \in 0 .. Depth /\ d + 1 # 0 /\ (d + 1) - 1 = d /\ d <= Depth
    BY <1>3
  <2>2. r[(d + 1) + 1][y][k] = Visit(y, k, r[d + 1], g)
    BY <1>1, <1>3, <2>1, OneLevel
  <2>3. f[d + 1] = UsesOver(f[d])
    BY <1>2, <2>1 DEF ReachesUpTo
  <2>4. \A z \in Known, j \in Months : r[d + 1][z][j].status = "ok" => \A u \in f[d][z] : Ungoverned(u)
    BY <2>1
  <2> QED
    BY <2>2, <2>3, <2>4, VisitDark
<1>6. T = Nat
  <2>1. T \in SUBSET Nat
    OBVIOUS
  <2> HIDE DEF T
  <2> QED
    BY <1>4, <1>5, <2>1, CountingInduction
<1>7. Clear(Depth)
  BY <1>3, <1>6
<1> QED
  BY <1>1, <1>2, <1>3, <1>7

-----------------------------------------------------------------------------
(* What is settled.                                                        *)

\* h has all the reads of g.
Extends(h, g) == DOMAIN g \subseteq DOMAIN h /\ \A p \in DOMAIN g : h[p] = g[p]

\* The results that waited for no visit are those of more visits.
Settled(c, d) == c.status # "pending" => d = c

LEMMA CombinedSettled ==
  ASSUME NEW y, NEW parts, NEW trail, NEW parts2, NEW trail2,
         DOMAIN parts \in SUBSET Nat, DOMAIN trail \in SUBSET Nat,
         DOMAIN parts2 = DOMAIN parts, DOMAIN trail2 = DOMAIN trail,
         parts = [i \in DOMAIN parts |-> parts[i]], parts2 = [i \in DOMAIN parts |-> parts2[i]],
         trail = [i \in DOMAIN trail |-> trail[i]], trail2 = [i \in DOMAIN trail |-> trail2[i]],
         \A i \in DOMAIN parts : Settled(parts[i], parts2[i]),
         \A i \in DOMAIN trail : Settled(trail[i], trail2[i])
  PROVE  Settled(Combined(y, parts, trail), Combined(y, parts2, trail2))
<1>1. CASE With("pending", parts) # {}
  BY <1>1, FirstWith DEF Combined, Settled
<1>2. CASE With("pending", parts) = {}
  <2>1. \A i \in DOMAIN parts : parts2[i] = parts[i]
    BY <1>2 DEF With, Settled
  <2>2. parts2 = parts
    BY <2>1
  <2>3. CASE Failing(parts) # {}
    BY <1>2, <2>2, <2>3 DEF Combined, Settled
  <2>4. CASE Failing(parts) = {} /\ With("pending", trail) # {}
    BY <1>2, <2>4, FirstWith DEF Combined, Settled
  <2>5. CASE Failing(parts) = {} /\ With("pending", trail) = {}
    <3>1. \A i \in DOMAIN trail : trail2[i] = trail[i]
      BY <2>5 DEF With, Settled
    <3>2. trail2 = trail
      BY <3>1
    <3> QED
      BY <2>2, <3>2 DEF Settled
  <2> QED
    BY <2>3, <2>4, <2>5
<1> QED
  BY <1>1, <1>2

LEMMA VisitSettled ==
  ASSUME NEW y \in Known, NEW k \in Months, NEW r, NEW s, NEW g, NEW h, Extends(h, g),
         \A z \in Known, j \in Months : Settled(r[z][j], s[z][j])
  PROVE  Settled(Visit(y, k, r, g), Visit(y, k, s, h))
<1>1. CASE Blocking(y) # {}
  BY <1>1 DEF Visit, Settled
<1>2. CASE Blocking(y) = {} /\ <<y, k>> \notin DOMAIN g
  BY <1>2, UnresolvableIs DEF Visit, Settled
<1>3. CASE Blocking(y) = {} /\ <<y, k>> \in DOMAIN g
  <2>1. <<y, k>> \in DOMAIN h /\ h[<<y, k>>] = g[<<y, k>>]
    BY <1>3 DEF Extends
  <2>2. CASE g[<<y, k>>].version = 0 \/ Leaf(y)
    BY <1>3, <2>1, <2>2 DEF Visit, Settled
  <2>3. CASE g[<<y, k>>].version # 0 /\ ~Leaf(y)
    <3> DEFINE parts == Parts(y, k, r)
               trail == Trail(y, k, r)
               parts2 == Parts(y, k, s)
               trail2 == Trail(y, k, s)
    <3>1. Visit(y, k, r, g) = Combined(y, parts, trail) /\ Visit(y, k, s, h) = Combined(y, parts2, trail2)
      BY <1>3, <2>1, <2>3 DEF Visit
    <3>2. DOMAIN parts2 = DOMAIN parts /\ parts = [i \in DOMAIN parts |-> parts[i]] /\ parts2 = [i \in DOMAIN parts |-> parts2[i]]
      BY DEF Parts
    <3>3. DOMAIN trail2 = DOMAIN trail /\ trail = [i \in DOMAIN trail |-> trail[i]] /\ trail2 = [i \in DOMAIN trail |-> trail2[i]]
      <4>1. CASE Base(y) = NoMetric
        <5>1. trail = <<>> /\ trail2 = <<>>
          BY <4>1 DEF Trail
        <5> QED
          BY <5>1
      <4>2. CASE Base(y) # NoMetric
        BY <4>2 DEF Trail
      <4> QED
        BY <4>1, <4>2
    <3>4. DOMAIN parts \in SUBSET Nat /\ \A i \in DOMAIN parts : Settled(parts[i], parts2[i])
      BY <3>2, PartsIs
    <3>5. DOMAIN trail \in SUBSET Nat /\ \A i \in DOMAIN trail : Settled(trail[i], trail2[i])
      BY <3>3, TrailIs
    <3> HIDE DEF parts, trail, parts2, trail2
    <3> QED
      BY <3>1, <3>2, <3>3, <3>4, <3>5, CombinedSettled
  <2> QED
    BY <2>2, <2>3
<1> QED
  BY <1>1, <1>2, <1>3

\* A compile that waits for no further visit has the result it would have had
\* with any more reads, whatever the registry: what it has read decides it, in
\* whatever order it was read (_compile_metric_cached's memo).
THEOREM ReadsDecideResult ==
  ASSUME NEW x \in Known, NEW m \in Months, NEW g, NEW h, Extends(h, g), Compiled(x, m, g).status # "pending"
  PROVE  Compiled(x, m, h) = Compiled(x, m, g)
<1> DEFINE D == Depth + 1
<1>1. PICK r : ResultsUpTo(r, D, g) /\ Compiled(x, m, g) = r[D][x][m]
  BY CompiledIs
<1>2. PICK s : ResultsUpTo(s, D, h) /\ Compiled(x, m, h) = s[D][x][m]
  BY CompiledIs
<1>3. D \in Nat
  BY DepthAssumption
<1> HIDE DEF D
<1> DEFINE T == { d \in Nat : d <= D => \A y \in Known, k \in Months : Settled(r[d][y][k], s[d][y][k]) }
<1>4. 0 \in T
  <2> SUFFICES ASSUME NEW y \in Known, NEW k \in Months PROVE Settled(r[0][y][k], s[0][y][k])
    OBVIOUS
  <2>1. r[0][y][k] = Unresolvable /\ s[0][y][k] = Unresolvable
    BY <1>1, <1>2, <1>3, OneLevel
  <2> QED
    BY <2>1 DEF Settled
<1>5. ASSUME NEW d \in T PROVE d + 1 \in T
  <2> SUFFICES ASSUME d + 1 <= D, NEW y \in Known, NEW k \in Months PROVE Settled(r[d + 1][y][k], s[d + 1][y][k])
    OBVIOUS
  <2>1. d \in Nat /\ d + 1 \in 0 .. D /\ d + 1 # 0 /\ (d + 1) - 1 = d /\ d <= D
    BY <1>3
  <2>2. r[d + 1][y][k] = Visit(y, k, r[d], g) /\ s[d + 1][y][k] = Visit(y, k, s[d], h)
    BY <1>1, <1>2, <1>3, <2>1, OneLevel
  <2>3. \A z \in Known, j \in Months : Settled(r[d][z][j], s[d][z][j])
    BY <2>1
  <2> QED
    BY <2>2, <2>3, VisitSettled
<1>6. T = Nat
  <2>1. T \in SUBSET Nat
    OBVIOUS
  <2> HIDE DEF T
  <2> QED
    BY <1>4, <1>5, <2>1, CountingInduction
<1>7. Settled(r[D][x][m], s[D][x][m])
  BY <1>3, <1>6
<1> QED
  BY <1>1, <1>2, <1>7 DEF Settled

-----------------------------------------------------------------------------
(* The gates.                                                              *)

\* One capped SELECT on declared canonical tables, scoped to the tenant.
Sound(s) ==
  /\ s.parts = 1 /\ s.reads /\ ~s.keyword
  /\ s.named \subseteq CanonicalTables \cap s.declared
  /\ s.predicate = "own" /\ s.tenant # "other" /\ s.limit = "own"

\* What the gates admit and gate 7 has rewritten is sound.
LEMMA AdmittedIsSound ==
  ASSUME NEW s \in Text, Admitted(s, "none")
  PROVE  Sound(Capped(s))
<1>1. \A i \in 1 .. 6 : Gates(s, "none")[i]
  BY DEF Admitted, Rejects
<1>2. GateParse(s) /\ GateReadOnly(s) /\ GateTables(s) /\ GateTenant(s)
  <2>1. Gates(s, "none")[1] /\ Gates(s, "none")[2] /\ Gates(s, "none")[3] /\ Gates(s, "none")[4]
    BY <1>1
  <2> QED
    BY <2>1 DEF Gates
<1>3. Capped(s) = [s EXCEPT !.limit = "own"] \/ (Capped(s) = s /\ s.limit = "own")
  BY DEF Capped
<1>4. /\ Capped(s).parts = s.parts /\ Capped(s).reads = s.reads /\ Capped(s).keyword = s.keyword
      /\ Capped(s).named = s.named /\ Capped(s).declared = s.declared
      /\ Capped(s).predicate = s.predicate /\ Capped(s).tenant = s.tenant
      /\ Capped(s).limit = "own"
  BY <1>3 DEF Text
<1>5. s.parts = 1 /\ s.reads /\ ~s.keyword /\ s.predicate = "own" /\ s.tenant # "other"
  BY <1>2 DEF GateParse, GateReadOnly, GateTenant
<1>6. s.named \subseteq CanonicalTables \cap s.declared
  BY <1>2 DEF GateTables
<1> QED
  BY <1>4, <1>5, <1>6 DEF Sound

\* The fixed statements are sound once capped.
LEMMA FixedIsSound ==
  ASSUME NEW tables, tables \subseteq CanonicalTables
  PROVE  Sound(Capped(Statement(tables)))
BY DEF Sound, Capped, Statement

\* A leaf that may be read has two sound statements.
LEMMA ReadableIsSound ==
  ASSUME NEW x, MayRead(x), NEW i \in 1 .. 2
  PROVE  Sound(Capped(LeafStatements(x)[i]))
<1>1. Admitted(LeafStatements(x)[i], "none")
  BY DEF MayRead, Rejected
<1>2. CASE x \in DOMAIN Defects
  <2>1. LeafStatements(x)[i] \in Text
    <3>1. LeafStatements(x) = Defects[x] /\ Defects[x][1] \in Text /\ Defects[x][2] \in Text
      BY <1>2, DefectsAreStatements DEF LeafStatements
    <3>2. i = 1 \/ i = 2
      OBVIOUS
    <3> QED
      BY <3>1, <3>2
  <2> QED
    BY <1>1, <2>1, AdmittedIsSound
<1>3. CASE x \notin DOMAIN Defects
  <2> DEFINE scan == Statement({"fact_gl_entry", "dim_account", "map_account"})
  <2>1. LeafStatements(x) = <<scan, scan>>
    BY <1>3 DEF LeafStatements
  <2>2. LeafStatements(x)[i] = scan
    <3> HIDE DEF scan
    <3> QED
      BY <2>1
  <2>3. {"fact_gl_entry", "dim_account", "map_account"} \subseteq CanonicalTables
    BY DEF CanonicalTables
  <2> QED
    BY <2>2, <2>3, FixedIsSound
<1> QED
  BY <1>2, <1>3

-----------------------------------------------------------------------------
(* Months that may be read, and the gate before each read.                 *)

Ready(st, m) == m \in Months /\ st[m] \in Reportable

LEMMA ReadyIsReportable ==
  ASSUME NEW m
  PROVE  StatusOf(m) \in Reportable <=> Ready(status, m)
BY DEF StatusOf, Ready, Reportable

\* The steps that read the figures of a month.
Looks(step) == step.do \in {"compile", "statement"}

\* Step i has a gate for its month before it: one that ends the answer, or
\* one that has just this step left out.
GateBefore(a, i) ==
  \/ \E j \in 1 .. i - 1 : a[j].do = "gate" /\ a[j].refuses /\ a[j].month = a[i].month
  \/ i > 1 /\ a[i - 1].do = "gate" /\ ~a[i - 1].refuses /\ a[i - 1].month = a[i].month

\* A gate that does not end the answer has a compile after it to leave out.
SkipsACompile(a, i) ==
  a[i].do = "gate" /\ ~a[i].refuses => i < Len(a) /\ a[i + 1].do = "compile"

Gated(a, st) ==
  /\ a \in Seq(ToSet(a))
  /\ \A i \in 1 .. Len(a) :
       /\ Looks(a[i]) => Ready(st, a[i].month) \/ GateBefore(a, i)
       /\ SkipsACompile(a, i)

\* A sequence is one of its own elements.
LEMMA OwnSequence ==
  ASSUME NEW S, NEW s \in Seq(S)
  PROVE  s \in Seq(ToSet(s))
BY DEF ToSet

\* A sequence from its m-th element on.
LEMMA Rest ==
  ASSUME NEW S, NEW s \in Seq(S), NEW m \in Nat, 1 =< m, m =< Len(s) + 1
  PROVE  /\ SubSeq(s, m, Len(s)) \in Seq(S)
         /\ Len(SubSeq(s, m, Len(s))) = Len(s) + 1 - m
         /\ \A i \in 1 .. Len(s) + 1 - m : SubSeq(s, m, Len(s))[i] = s[i + m - 1]
<1>1. Len(s) \in Nat /\ m \in Int /\ Len(s) \in Int /\ \A i \in m .. Len(s) : s[i] \in S
  OBVIOUS
<1> DEFINE b == SubSeq(s, m, Len(s))
<1>2. /\ b \in Seq(S) /\ Len(b) = IF m =< Len(s) THEN Len(s) - m + 1 ELSE 0
      /\ \A i \in 1 .. Len(s) - m + 1 : b[i] = s[m + i - 1]
  BY <1>1, SubSeqProperties
<1> HIDE DEF b
<1>3. Len(b) = Len(s) + 1 - m /\ Len(s) - m + 1 = Len(s) + 1 - m
  BY <1>1, <1>2
<1>4. \A i \in 1 .. Len(s) + 1 - m : b[i] = s[i + m - 1]
  <2> SUFFICES ASSUME NEW i \in 1 .. Len(s) + 1 - m PROVE b[i] = s[i + m - 1]
    OBVIOUS
  <2>1. b[i] = s[m + i - 1] /\ m + i - 1 = i + m - 1
    BY <1>1, <1>2, <1>3
  <2> QED
    BY <2>1
<1> QED
  BY <1>2, <1>3, <1>4 DEF b

\* Dropping a first step that is no gate, or a gate whose month is ready.
LEMMA DropFirst ==
  ASSUME NEW st, NEW a, Gated(a, st), a # <<>>,
         a[1].do = "gate" => Ready(st, a[1].month)
  PROVE  /\ Gated(SubSeq(a, 2, Len(a)), st)
         /\ Gated(Tail(a), st)
<1>1. a \in Seq(ToSet(a)) /\ Len(a) \in Nat /\ Len(a) >= 1
  BY DEF Gated
<1>2. ASSUME NEW b \in Seq(ToSet(a)), Len(b) = Len(a) - 1, \A i \in 1 .. Len(b) : b[i] = a[i + 1]
      PROVE  Gated(b, st)
  <2>1. b \in Seq(ToSet(b))
    BY OwnSequence
  <2>2. ASSUME NEW i \in 1 .. Len(b), Looks(b[i]), ~Ready(st, b[i].month)
        PROVE  GateBefore(b, i)
    <3>1. i + 1 \in 1 .. Len(a) /\ b[i] = a[i + 1]
      BY <1>1, <1>2
    <3>2. GateBefore(a, i + 1)
      BY <2>2, <3>1 DEF Gated
    <3>3. CASE \E j \in 1 .. (i + 1) - 1 : a[j].do = "gate" /\ a[j].refuses /\ a[j].month = a[i + 1].month
      <4>1. PICK j \in 1 .. i : a[j].do = "gate" /\ a[j].refuses /\ a[j].month = a[i + 1].month
        BY <3>3
      <4>2. j # 1
        BY <2>2, <3>1, <4>1
      <4>3. j - 1 \in 1 .. i - 1 /\ b[j - 1] = a[j]
        BY <1>1, <1>2, <4>1, <4>2
      <4> QED
        BY <3>1, <4>1, <4>3 DEF GateBefore
    <3>4. CASE a[i].do = "gate" /\ ~a[i].refuses /\ a[i].month = a[i + 1].month
      <4>1. i # 1
        BY <2>2, <3>1, <3>4
      <4>2. i - 1 \in 1 .. Len(b) /\ b[i - 1] = a[i] /\ i > 1
        BY <1>1, <1>2, <4>1
      <4> QED
        BY <3>1, <3>4, <4>2 DEF GateBefore
    <3> QED
      BY <3>2, <3>3, <3>4 DEF GateBefore
  <2>3. ASSUME NEW i \in 1 .. Len(b)
        PROVE  SkipsACompile(b, i)
    <3>1. i + 1 \in 1 .. Len(a) /\ b[i] = a[i + 1] /\ SkipsACompile(a, i + 1)
      BY <1>1, <1>2 DEF Gated
    <3>2. CASE a[i + 1].do = "gate" /\ ~a[i + 1].refuses
      <4>1. i + 1 < Len(a) /\ a[(i + 1) + 1].do = "compile"
        BY <3>1, <3>2 DEF SkipsACompile
      <4>2. i < Len(b) /\ i + 1 \in 1 .. Len(b) /\ b[i + 1] = a[(i + 1) + 1]
        BY <1>1, <1>2, <4>1
      <4> QED
        BY <4>1, <4>2 DEF SkipsACompile
    <3> QED
      BY <3>1, <3>2 DEF SkipsACompile
  <2> QED
    BY <2>1, <2>2, <2>3 DEF Gated
<1>3. /\ SubSeq(a, 2, Len(a)) \in Seq(ToSet(a)) /\ Len(SubSeq(a, 2, Len(a))) = Len(a) - 1
      /\ \A i \in 1 .. Len(a) - 1 : SubSeq(a, 2, Len(a))[i] = a[i + 1]
  <2>1. 2 \in Nat /\ 1 =< 2 /\ 2 =< Len(a) + 1 /\ Len(a) + 1 - 2 = Len(a) - 1
    BY <1>1
  <2>2. \A i \in 1 .. Len(a) - 1 : i + 2 - 1 = i + 1
    BY <1>1
  <2> QED
    BY <1>1, <2>1, <2>2, Rest
<1>4. /\ Tail(a) \in Seq(ToSet(a)) /\ Len(Tail(a)) = Len(a) - 1
      /\ \A i \in 1 .. Len(a) - 1 : Tail(a)[i] = a[i + 1]
  BY <1>1
<1> QED
  BY <1>2, <1>3, <1>4

\* Leaving out an unreportable month: its gate and the compile after it.
LEMMA DropTwo ==
  ASSUME NEW st, NEW a, Gated(a, st), a # <<>>, a[1].do = "gate", ~a[1].refuses
  PROVE  Len(a) >= 2 /\ Gated(SubSeq(a, 3, Len(a)), st)
<1>1. a \in Seq(ToSet(a)) /\ Len(a) \in Nat /\ Len(a) >= 1
  BY DEF Gated
<1>2. Len(a) >= 2 /\ a[2].do = "compile"
  BY <1>1 DEF Gated, SkipsACompile
<1> DEFINE b == SubSeq(a, 3, Len(a))
<1>3. /\ b \in Seq(ToSet(a)) /\ Len(b) = Len(a) - 2
      /\ \A i \in 1 .. Len(a) - 2 : b[i] = a[i + 2]
  <2>1. 3 \in Nat /\ 1 =< 3 /\ 3 =< Len(a) + 1 /\ Len(a) + 1 - 3 = Len(a) - 2
    BY <1>1, <1>2
  <2>2. \A i \in 1 .. Len(a) - 2 : i + 3 - 1 = i + 2
    BY <1>1
  <2> QED
    BY <1>1, <2>1, <2>2, Rest
<1> HIDE DEF b
<1>4. b \in Seq(ToSet(b))
  BY <1>3, OwnSequence
<1>5. ASSUME NEW i \in 1 .. Len(b), Looks(b[i]), ~Ready(st, b[i].month)
      PROVE  GateBefore(b, i)
  <2>1. i + 2 \in 1 .. Len(a) /\ b[i] = a[i + 2]
    BY <1>1, <1>3
  <2>2. GateBefore(a, i + 2)
    BY <1>5, <2>1 DEF Gated
  <2>3. CASE \E j \in 1 .. (i + 2) - 1 : a[j].do = "gate" /\ a[j].refuses /\ a[j].month = a[i + 2].month
    <3>1. PICK j \in 1 .. i + 1 : a[j].do = "gate" /\ a[j].refuses /\ a[j].month = a[i + 2].month
      BY <2>3
    <3>2. j # 1 /\ j # 2
      BY <1>2, <3>1
    <3>3. j - 2 \in 1 .. i - 1 /\ b[j - 2] = a[j]
      BY <1>1, <1>3, <3>1, <3>2
    <3> QED
      BY <2>1, <3>1, <3>3 DEF GateBefore
  <2>4. CASE a[i + 1].do = "gate" /\ ~a[i + 1].refuses /\ a[i + 1].month = a[i + 2].month
    <3>1. i # 1
      BY <1>2, <2>4
    <3>2. i - 1 \in 1 .. Len(b) /\ b[i - 1] = a[i + 1] /\ i > 1
      BY <1>1, <1>3, <3>1
    <3> QED
      BY <2>1, <2>4, <3>2 DEF GateBefore
  <2> QED
    BY <2>2, <2>3, <2>4 DEF GateBefore
<1>6. ASSUME NEW i \in 1 .. Len(b)
      PROVE  SkipsACompile(b, i)
  <2>1. i + 2 \in 1 .. Len(a) /\ b[i] = a[i + 2] /\ SkipsACompile(a, i + 2)
    BY <1>1, <1>3 DEF Gated
  <2>2. CASE a[i + 2].do = "gate" /\ ~a[i + 2].refuses
    <3>1. i + 2 < Len(a) /\ a[(i + 2) + 1].do = "compile"
      BY <2>1, <2>2 DEF SkipsACompile
    <3>2. i < Len(b) /\ i + 1 \in 1 .. Len(b) /\ b[i + 1] = a[(i + 2) + 1]
      BY <1>1, <1>3, <3>1
    <3> QED
      BY <3>1, <3>2 DEF SkipsACompile
  <2> QED
    BY <2>1, <2>2 DEF SkipsACompile
<1>7. Gated(b, st)
  BY <1>4, <1>5, <1>6 DEF Gated
<1> QED
  BY <1>2, <1>7 DEF b

-----------------------------------------------------------------------------
(* The handlers gate what they look at.                                    *)

\* An agenda before any of it is done.
Guarded(a) ==
  /\ a \in Seq(ToSet(a))
  /\ \A i \in 1 .. Len(a) : (Looks(a[i]) => GateBefore(a, i)) /\ SkipsACompile(a, i)

LEMMA GuardedIsGated ==
  ASSUME NEW a, Guarded(a), NEW st
  PROVE  Gated(a, st)
BY DEF Guarded, Gated

\* The concatenation of two sequences, element by element.
LEMMA Joined ==
  ASSUME NEW a, NEW b, a \in Seq(ToSet(a)), b \in Seq(ToSet(b))
  PROVE  /\ a \o b \in Seq(ToSet(a \o b))
         /\ Len(a) \in Nat /\ Len(b) \in Nat /\ Len(a \o b) = Len(a) + Len(b)
         /\ \A i \in 1 .. Len(a) : (a \o b)[i] = a[i]
         /\ \A i \in 1 .. Len(b) : (a \o b)[i + Len(a)] = b[i]
<1> DEFINE S == ToSet(a) \cup ToSet(b)
<1>1. a \in Seq(S) /\ b \in Seq(S)
  <2>1. \A i \in 1 .. Len(a) : a[i] \in S
    BY DEF ToSet
  <2>2. \A i \in 1 .. Len(b) : b[i] \in S
    BY DEF ToSet
  <2> HIDE DEF S
  <2> QED
    BY <2>1, <2>2
<1> HIDE DEF S
<1>2. /\ a \o b \in Seq(S) /\ Len(a) \in Nat /\ Len(b) \in Nat /\ Len(a \o b) = Len(a) + Len(b)
      /\ \A i \in 1 .. Len(a) : (a \o b)[i] = a[i]
      /\ \A i \in 1 .. Len(b) : (a \o b)[i + Len(a)] = b[i]
  BY <1>1
<1> QED
  BY <1>2, OwnSequence

\* More steps after a guarded agenda: each look of theirs has its gate among
\* them, or a gate of the agenda's that ends the answer.
LEMMA GuardedOn ==
  ASSUME NEW a, NEW b, Guarded(a), b \in Seq(ToSet(b)),
         \A i \in 1 .. Len(b) :
           /\ Looks(b[i]) => \/ GateBefore(b, i)
                             \/ \E j \in 1 .. Len(a) : a[j].do = "gate" /\ a[j].refuses /\ a[j].month = b[i].month
           /\ SkipsACompile(b, i)
  PROVE  Guarded(a \o b)
<1> DEFINE c == a \o b
<1>1. /\ c \in Seq(ToSet(c)) /\ Len(a) \in Nat /\ Len(b) \in Nat /\ Len(c) = Len(a) + Len(b)
      /\ \A i \in 1 .. Len(a) : c[i] = a[i]
      /\ \A i \in 1 .. Len(b) : c[i + Len(a)] = b[i]
  BY Joined DEF Guarded
<1> HIDE DEF c
<1>2. ASSUME NEW i \in 1 .. Len(a)
      PROVE  (Looks(c[i]) => GateBefore(c, i)) /\ SkipsACompile(c, i)
  <2>1. c[i] = a[i] /\ (Looks(a[i]) => GateBefore(a, i)) /\ SkipsACompile(a, i)
    BY <1>1 DEF Guarded
  <2>2. Looks(c[i]) => GateBefore(c, i)
    <3> SUFFICES ASSUME GateBefore(a, i) PROVE GateBefore(c, i)
      BY <2>1
    <3>1. \A j \in 1 .. i - 1 : c[j] = a[j]
      BY <1>1
    <3> QED
      BY <2>1, <3>1 DEF GateBefore
  <2>3. SkipsACompile(c, i)
    <3>1. a[i].do = "gate" /\ ~a[i].refuses => i < Len(c) /\ c[i + 1] = a[i + 1] /\ a[i + 1].do = "compile"
      BY <1>1, <2>1 DEF SkipsACompile
    <3> QED
      BY <2>1, <3>1 DEF SkipsACompile
  <2> QED
    BY <2>2, <2>3
<1>3. ASSUME NEW k \in 1 .. Len(b)
      PROVE  (Looks(c[k + Len(a)]) => GateBefore(c, k + Len(a))) /\ SkipsACompile(c, k + Len(a))
  <2>1. c[k + Len(a)] = b[k] /\ k + Len(a) \in 1 .. Len(c)
    BY <1>1
  <2>2. ASSUME Looks(c[k + Len(a)]) PROVE GateBefore(c, k + Len(a))
    <3>1. CASE GateBefore(b, k)
      <4>1. CASE \E j \in 1 .. k - 1 : b[j].do = "gate" /\ b[j].refuses /\ b[j].month = b[k].month
        <5>1. PICK j \in 1 .. k - 1 : b[j].do = "gate" /\ b[j].refuses /\ b[j].month = b[k].month
          BY <4>1
        <5>2. j + Len(a) \in 1 .. (k + Len(a)) - 1 /\ c[j + Len(a)] = b[j]
          BY <1>1
        <5> QED
          BY <2>1, <5>1, <5>2 DEF GateBefore
      <4>2. CASE k > 1 /\ b[k - 1].do = "gate" /\ ~b[k - 1].refuses /\ b[k - 1].month = b[k].month
        <5>1. k + Len(a) > 1 /\ (k + Len(a)) - 1 = (k - 1) + Len(a) /\ c[(k - 1) + Len(a)] = b[k - 1]
          BY <1>1, <4>2
        <5> QED
          BY <2>1, <4>2, <5>1 DEF GateBefore
      <4> QED
        BY <3>1, <4>1, <4>2 DEF GateBefore
    <3>2. CASE \E j \in 1 .. Len(a) : a[j].do = "gate" /\ a[j].refuses /\ a[j].month = b[k].month
      <4>1. PICK j \in 1 .. Len(a) : a[j].do = "gate" /\ a[j].refuses /\ a[j].month = b[k].month
        BY <3>2
      <4>2. j \in 1 .. (k + Len(a)) - 1 /\ c[j] = a[j]
        BY <1>1
      <4> QED
        BY <2>1, <4>1, <4>2 DEF GateBefore
    <3> QED
      BY <2>1, <2>2, <3>1, <3>2
  <2>3. SkipsACompile(c, k + Len(a))
    <3> SUFFICES ASSUME b[k].do = "gate", ~b[k].refuses
                 PROVE  k + Len(a) < Len(c) /\ c[(k + Len(a)) + 1].do = "compile"
      BY <2>1 DEF SkipsACompile
    <3>1. k < Len(b) /\ b[k + 1].do = "compile"
      BY DEF SkipsACompile
    <3>2. (k + Len(a)) + 1 = (k + 1) + Len(a) /\ k + 1 \in 1 .. Len(b) /\ k + Len(a) < Len(c)
      BY <1>1, <3>1
    <3>3. c[(k + 1) + Len(a)] = b[k + 1]
      BY <1>1, <3>2
    <3> QED
      BY <3>1, <3>2, <3>3
  <2> QED
    BY <2>2, <2>3
<1>4. ASSUME NEW i \in 1 .. Len(c), i \notin 1 .. Len(a)
      PROVE  \E k \in 1 .. Len(b) : i = k + Len(a)
  <2>1. i - Len(a) \in 1 .. Len(b) /\ i = (i - Len(a)) + Len(a)
    BY <1>1, <1>4
  <2> QED
    BY <2>1
<1>5. ASSUME NEW i \in 1 .. Len(c)
      PROVE  (Looks(c[i]) => GateBefore(c, i)) /\ SkipsACompile(c, i)
  BY <1>2, <1>3, <1>4
<1>6. Guarded(c)
  BY <1>1, <1>5 DEF Guarded
<1> QED
  BY <1>6 DEF c

\* A step that neither gates nor looks.
Plain(step) == step.do \notin {"gate", "compile", "statement"}

LEMMA PlainStep ==
  ASSUME NEW what, what \notin {"gate", "compile", "statement"}
  PROVE  Plain(Step(what)) /\ Guarded(<<Step(what)>>)
<1> DEFINE s == Step(what)
           a == <<s>>
<1>1. s.do = what /\ Plain(s)
  BY DEF Plain, Step
<1> HIDE DEF s
<1>2. a \in Seq({s}) /\ Len(a) = 1 /\ a[1] = s
  OBVIOUS
<1>3. a \in Seq(ToSet(a))
  BY <1>2, OwnSequence
<1> HIDE DEF a
<1>4. Guarded(a)
  BY <1>1, <1>2, <1>3 DEF Guarded, SkipsACompile, Looks, Plain
<1> QED
  BY <1>1, <1>4 DEF a, s

\* An agenda that opens with gates that end the answer, and then looks at
\* their months alone.
LEMMA GatesFirst ==
  ASSUME NEW S, NEW a \in Seq(S), NEW n \in 1 .. Len(a),
         \A i \in 1 .. n : a[i].do = "gate" /\ a[i].refuses,
         \A i \in n + 1 .. Len(a) :
           /\ a[i].do # "gate"
           /\ Looks(a[i]) => \E j \in 1 .. n : a[j].month = a[i].month
  PROVE  Guarded(a)
<1>1. a \in Seq(ToSet(a)) /\ Len(a) \in Nat
  BY OwnSequence
<1>2. ASSUME NEW i \in 1 .. Len(a)
      PROVE  (Looks(a[i]) => GateBefore(a, i)) /\ SkipsACompile(a, i)
  <2>1. CASE i \in 1 .. n
    BY <2>1 DEF Looks, SkipsACompile
  <2>2. CASE i \in n + 1 .. Len(a)
    <3>1. SkipsACompile(a, i)
      BY <2>2 DEF SkipsACompile
    <3>2. ASSUME Looks(a[i]) PROVE GateBefore(a, i)
      <4>1. PICK j \in 1 .. n : a[j].month = a[i].month
        BY <2>2, <3>2
      <4>2. j \in 1 .. i - 1 /\ a[j].do = "gate" /\ a[j].refuses
        BY <2>2
      <4> QED
        BY <4>1, <4>2 DEF GateBefore
    <3> QED
      BY <3>1, <3>2
  <2>3. i \in 1 .. n \/ i \in n + 1 .. Len(a)
    BY <1>1
  <2> QED
    BY <2>1, <2>2, <2>3
<1> QED
  BY <1>1, <1>2 DEF Guarded

\* Steps after a guarded agenda that look at months it has a gate for.
LEMMA LookFurther ==
  ASSUME NEW a, NEW b, Guarded(a), b \in Seq(ToSet(b)),
         \A i \in 1 .. Len(b) :
           /\ b[i].do # "gate"
           /\ Looks(b[i]) => \E j \in 1 .. Len(a) : a[j].do = "gate" /\ a[j].refuses /\ a[j].month = b[i].month
  PROVE  Guarded(a \o b)
BY GuardedOn DEF SkipsACompile

LEMMA MetricValueGuarded ==
  ASSUME NEW q
  PROVE  Guarded(MetricValue(q))
<1>1. CASE q.period.type # "month"
  BY <1>1, PlainStep DEF MetricValue
<1>2. CASE q.period.type = "month"
  <2> DEFINE g == Gate(q.period.from, TRUE)
             c == Compile(q.metric, q.period.from)
             e == Step("check")
             a == <<g, c, e>>
  <2>1. g.do = "gate" /\ g.refuses /\ c.do = "compile" /\ c.month = g.month /\ Plain(e)
    BY DEF Gate, Compile, Step, Plain
  <2>2. MetricValue(q) = a
    BY <1>2 DEF MetricValue
  <2> HIDE DEF g, c, e
  <2>3. a \in Seq({g, c, e}) /\ Len(a) = 3 /\ a[1] = g /\ a[2] = c /\ a[3] = e
    OBVIOUS
  <2> HIDE DEF a
  <2>4. \A i \in 1 .. 1 : a[i].do = "gate" /\ a[i].refuses
    BY <2>1, <2>3
  <2>5. \A i \in 1 + 1 .. Len(a) : a[i].do # "gate" /\ (Looks(a[i]) => \E j \in 1 .. 1 : a[j].month = a[i].month)
    BY <2>1, <2>3 DEF Plain, Looks
  <2>6. 1 \in 1 .. Len(a)
    BY <2>3
  <2>7. Guarded(a)
    BY <2>3, <2>4, <2>5, <2>6, GatesFirst
  <2> QED
    BY <2>2, <2>7
<1> QED
  BY <1>1, <1>2

LEMMA StatementViewGuarded ==
  ASSUME NEW q
  PROVE  Guarded(StatementView(q))
<1>1. CASE q.period.type \in {"none", "range"}
  BY <1>1, PlainStep DEF StatementView
<1>2. CASE q.period.type \notin {"none", "range"}
  <2> DEFINE g == Gate(q.period.from, TRUE)
             c == [Step("statement") EXCEPT !.month = q.period.from]
             a == <<g, c>>
  <2>1. g.do = "gate" /\ g.refuses /\ c.do = "statement" /\ c.month = g.month
    BY DEF Step, Gate
  <2>2. StatementView(q) = a
    BY <1>2 DEF StatementView
  <2> HIDE DEF g, c
  <2>3. a \in Seq({g, c}) /\ Len(a) = 2 /\ a[1] = g /\ a[2] = c
    OBVIOUS
  <2> HIDE DEF a
  <2>4. \A i \in 1 .. 1 : a[i].do = "gate" /\ a[i].refuses
    BY <2>1, <2>3
  <2>5. \A i \in 1 + 1 .. Len(a) : a[i].do # "gate" /\ (Looks(a[i]) => \E j \in 1 .. 1 : a[j].month = a[i].month)
    BY <2>1, <2>3 DEF Looks
  <2>6. 1 \in 1 .. Len(a)
    BY <2>3
  <2>7. Guarded(a)
    BY <2>3, <2>4, <2>5, <2>6, GatesFirst
  <2> QED
    BY <2>2, <2>7
<1> QED
  BY <1>1, <1>2

LEMMA MetricBreakdownGuarded ==
  ASSUME NEW q
  PROVE  Guarded(MetricBreakdown(q))
<1>1. CASE q.period.type = "month" /\ q.breakdown # {}
  <2> DEFINE g == Gate(q.period.from, TRUE)
             c == Step("unavailable")
             a == <<g, c>>
  <2>1. g.do = "gate" /\ g.refuses /\ Plain(c)
    BY PlainStep DEF Gate
  <2>2. MetricBreakdown(q) = a
    BY <1>1 DEF MetricBreakdown
  <2> HIDE DEF g, c
  <2>3. a \in Seq({g, c}) /\ Len(a) = 2 /\ a[1] = g /\ a[2] = c
    OBVIOUS
  <2> HIDE DEF a
  <2>4. \A i \in 1 .. 1 : a[i].do = "gate" /\ a[i].refuses
    BY <2>1, <2>3
  <2>5. \A i \in 1 + 1 .. Len(a) : a[i].do # "gate" /\ ~Looks(a[i])
    BY <2>1, <2>3 DEF Looks, Plain
  <2>6. 1 \in 1 .. Len(a)
    BY <2>3
  <2>7. Guarded(a)
    BY <2>3, <2>4, <2>5, <2>6, GatesFirst
  <2> QED
    BY <2>2, <2>7
<1>2. CASE ~(q.period.type = "month" /\ q.breakdown # {})
  BY <1>2, MetricValueGuarded DEF MetricBreakdown
<1> QED
  BY <1>1, <1>2

LEMMA MetricComparisonGuarded ==
  ASSUME NEW q
  PROVE  Guarded(MetricComparison(q))
<1> DEFINE other == q.period.from - (IF q.compare = "yoy" THEN 12 ELSE 1)
<1>1. CASE q.compare \in {"none", "ytd"}
  <2> DEFINE e == Step("error")
             b == <<e>>
  <2>1. Plain(e)
    BY PlainStep
  <2>2. MetricComparison(q) = MetricValue(q) \o b
    BY <1>1 DEF MetricComparison
  <2> HIDE DEF e
  <2>3. b \in Seq({e}) /\ Len(b) = 1 /\ b[1] = e
    OBVIOUS
  <2> HIDE DEF b
  <2>4. b \in Seq(ToSet(b)) /\ \A i \in 1 .. Len(b) : b[i].do # "gate" /\ ~Looks(b[i])
    BY <2>1, <2>3, OwnSequence DEF Plain, Looks
  <2>5. Guarded(MetricValue(q) \o b)
    BY <2>4, MetricValueGuarded, LookFurther
  <2> QED
    BY <2>2, <2>5
<1>2. CASE q.compare \notin {"none", "ytd"}
  <2> DEFINE g == Gate(other, FALSE)
             c == Compile(q.metric, other)
             b == <<g, c>>
  <2>1. g.do = "gate" /\ ~g.refuses /\ c.do = "compile" /\ c.month = g.month
    BY DEF Gate, Compile
  <2>2. MetricComparison(q) = MetricValue(q) \o b
    BY <1>2 DEF MetricComparison
  <2> HIDE DEF g, c
  <2>3. b \in Seq({g, c}) /\ Len(b) = 2 /\ b[1] = g /\ b[2] = c
    OBVIOUS
  <2> HIDE DEF b
  <2>4. b \in Seq(ToSet(b))
    BY <2>3, OwnSequence
  <2>5. GateBefore(b, 2) /\ ~Looks(b[1]) /\ SkipsACompile(b, 1) /\ SkipsACompile(b, 2)
    BY <2>1, <2>3 DEF GateBefore, Looks, SkipsACompile
  <2>6. \A i \in 1 .. Len(b) : (Looks(b[i]) => GateBefore(b, i)) /\ SkipsACompile(b, i)
    BY <2>3, <2>5
  <2>7. Guarded(MetricValue(q) \o b)
    BY <2>4, <2>6, MetricValueGuarded, GuardedOn
  <2> QED
    BY <2>2, <2>7
<1> QED
  BY <1>1, <1>2

LEMMA MetricTrendGuarded ==
  ASSUME NEW q, q.period.from \in Int, q.period.to \in Int
  PROVE  Guarded(MetricTrend(q))
<1>1. CASE q.period.type # "range"
  BY <1>1, PlainStep DEF MetricTrend
<1>2. CASE q.period.type = "range"
  <2> DEFINE n == 2 * (q.period.to - q.period.from + 1)
             month(i) == q.period.from + (i - 1) \div 2
             step(i) == IF i % 2 = 1 THEN Gate(month(i), FALSE) ELSE Compile(q.metric, month(i))
             a == [i \in 1 .. n |-> step(i)]
  <2>1. MetricTrend(q) = a
    BY <1>2 DEF MetricTrend
  <2>2. \A i \in 1 .. n : a[i] = step(i)
    OBVIOUS
  <2>3. \E k \in Nat : 1 .. n = 1 .. k /\ (n > 0 => k = n)
    <3>1. n \in Int
      OBVIOUS
    <3>2. CASE n >= 0
      BY <3>1, <3>2
    <3>3. CASE n < 0
      <4>1. 1 .. n = 1 .. 0 /\ 0 \in Nat
        BY <3>1, <3>3
      <4> QED
        BY <3>1, <3>3, <4>1
    <3> QED
      BY <3>1, <3>2, <3>3
  <2>4. PICK k \in Nat : 1 .. n = 1 .. k /\ (n > 0 => k = n)
    BY <2>3
  <2>5. \A i \in 1 .. k : /\ i % 2 = 1 => a[i] = Gate(month(i), FALSE)
                          /\ i % 2 # 1 => a[i] = Compile(q.metric, month(i))
    BY <2>2, <2>4
  <2>6. \A i \in 1 .. k : i % 2 = 1 => i + 1 \in 1 .. k /\ (i + 1) % 2 # 1
    BY <2>4
  <2>7. \A i \in 1 .. k : i % 2 # 1 => i > 1 /\ i - 1 \in 1 .. k /\ (i - 1) % 2 = 1 /\ month(i - 1) = month(i)
    BY <2>4
  <2>8. a = [i \in 1 .. k |-> a[i]]
    BY <2>4
  <2> HIDE DEF a, month, n
  <2>9. a \in Seq({ a[i] : i \in 1 .. k }) /\ Len(a) = k
    BY <2>8
  <2>10. a \in Seq(ToSet(a))
    BY <2>9, OwnSequence
  <2>11. ASSUME NEW i \in 1 .. k, i % 2 = 1
         PROVE  ~Looks(a[i]) /\ SkipsACompile(a, i)
    <3>1. i + 1 \in 1 .. k /\ (i + 1) % 2 # 1
      BY <2>6, <2>11
    <3>2. a[i] = Gate(month(i), FALSE) /\ a[i + 1] = Compile(q.metric, month(i + 1))
      BY <2>5, <2>11, <3>1
    <3>3. a[i].do = "gate" /\ a[i + 1].do = "compile"
      BY <3>2 DEF Gate, Compile
    <3> QED
      BY <2>9, <3>1, <3>3 DEF SkipsACompile, Looks
  <2>12. ASSUME NEW i \in 1 .. k, i % 2 # 1
         PROVE  GateBefore(a, i) /\ SkipsACompile(a, i)
    <3>1. a[i] = Compile(q.metric, month(i)) /\ a[i - 1] = Gate(month(i - 1), FALSE)
      BY <2>5, <2>7, <2>12
    <3>2. i > 1 /\ month(i - 1) = month(i)
      BY <2>7, <2>12
    <3>3. a[i].do = "compile" /\ a[i].month = month(i)
      BY <3>1 DEF Compile
    <3>4. a[i - 1].do = "gate" /\ ~a[i - 1].refuses /\ a[i - 1].month = month(i)
      BY <3>1, <3>2 DEF Gate
    <3> QED
      BY <3>2, <3>3, <3>4 DEF GateBefore, SkipsACompile
  <2>13. Guarded(a)
    BY <2>9, <2>10, <2>11, <2>12 DEF Guarded
  <2> QED
    BY <2>1, <2>13
<1> QED
  BY <1>1, <1>2

\* Steps that gate nothing and look at m and the month before it alone.
Of(m, step) == step.do # "gate" /\ (Looks(step) => step.month \in {m, m - 1})
AllOf(m, b) == b \in Seq(ToSet(b)) /\ \A i \in 1 .. Len(b) : Of(m, b[i])

\* An agenda that has gated m and the month before it.
Opened(m, a) ==
  /\ Guarded(a)
  /\ \A k \in {m, m - 1} :
       \E j \in 1 .. Len(a) : a[j].do = "gate" /\ a[j].refuses /\ a[j].month = k

LEMMA AllOfJoined ==
  ASSUME NEW m, NEW b, NEW c, AllOf(m, b), AllOf(m, c)
  PROVE  AllOf(m, b \o c)
<1> DEFINE d == b \o c
<1>1. /\ d \in Seq(ToSet(d)) /\ Len(b) \in Nat /\ Len(c) \in Nat /\ Len(d) = Len(b) + Len(c)
      /\ \A i \in 1 .. Len(b) : d[i] = b[i]
      /\ \A i \in 1 .. Len(c) : d[i + Len(b)] = c[i]
  BY Joined DEF AllOf
<1> HIDE DEF d
<1>2. ASSUME NEW i \in 1 .. Len(d) PROVE Of(m, d[i])
  <2>1. CASE i \in 1 .. Len(b)
    BY <1>1, <2>1 DEF AllOf
  <2>2. CASE i \notin 1 .. Len(b)
    <3>1. i - Len(b) \in 1 .. Len(c) /\ i = (i - Len(b)) + Len(b)
      BY <1>1, <2>2
    <3>2. d[i] = c[i - Len(b)]
      BY <1>1, <3>1
    <3> QED
      BY <3>1, <3>2 DEF AllOf
  <2> QED
    BY <2>1, <2>2
<1>3. AllOf(m, d)
  BY <1>1, <1>2 DEF AllOf
<1> QED
  BY <1>3 DEF d

LEMMA OpenedOn ==
  ASSUME NEW m, NEW a, NEW b, Opened(m, a), AllOf(m, b)
  PROVE  Opened(m, a \o b)
<1>1. Guarded(a \o b)
  <2>1. \A i \in 1 .. Len(b) :
           /\ b[i].do # "gate"
           /\ Looks(b[i]) => \E j \in 1 .. Len(a) : a[j].do = "gate" /\ a[j].refuses /\ a[j].month = b[i].month
    BY DEF AllOf, Of, Opened
  <2> QED
    BY <2>1, LookFurther DEF AllOf, Opened
<1> DEFINE c == a \o b
<1>2. /\ Len(a) \in Nat /\ Len(b) \in Nat /\ Len(c) = Len(a) + Len(b)
      /\ \A i \in 1 .. Len(a) : c[i] = a[i]
  BY Joined DEF AllOf, Opened, Guarded
<1> HIDE DEF c
<1>3. ASSUME NEW k \in {m, m - 1}
      PROVE  \E j \in 1 .. Len(c) : c[j].do = "gate" /\ c[j].refuses /\ c[j].month = k
  <2>1. PICK j \in 1 .. Len(a) : a[j].do = "gate" /\ a[j].refuses /\ a[j].month = k
    BY DEF Opened
  <2>2. j \in 1 .. Len(c) /\ c[j] = a[j]
    BY <1>2
  <2> QED
    BY <2>1, <2>2
<1> QED
  BY <1>1, <1>3 DEF Opened, c

\* The months of a variance and of the one before it are gated first.
LEMMA TwoGatesOpen ==
  ASSUME NEW m
  PROVE  Opened(m, <<Gate(m, TRUE), Gate(m - 1, TRUE)>>)
<1> DEFINE g == Gate(m, TRUE)
           h == Gate(m - 1, TRUE)
           a == <<g, h>>
<1>1. /\ g.do = "gate" /\ g.refuses /\ g.month = m
      /\ h.do = "gate" /\ h.refuses /\ h.month = m - 1
  BY DEF Gate
<1> HIDE DEF g, h
<1>2. a \in Seq({g, h}) /\ Len(a) = 2 /\ a[1] = g /\ a[2] = h
  OBVIOUS
<1> HIDE DEF a
<1>3. \A i \in 1 .. 2 : a[i].do = "gate" /\ a[i].refuses
  BY <1>1, <1>2
<1>4. Guarded(a)
  <2>1. 2 \in 1 .. Len(a) /\ \A i \in 2 + 1 .. Len(a) : FALSE
    BY <1>2
  <2> QED
    BY <1>2, <1>3, <2>1, GatesFirst
<1>5. \A k \in {m, m - 1} :
        \E j \in 1 .. Len(a) : a[j].do = "gate" /\ a[j].refuses /\ a[j].month = k
  <2>1. 1 \in 1 .. Len(a) /\ 2 \in 1 .. Len(a)
    BY <1>2
  <2>2. a[1].do = "gate" /\ a[1].refuses /\ a[1].month = m
    BY <1>1, <1>2
  <2>3. a[2].do = "gate" /\ a[2].refuses /\ a[2].month = m - 1
    BY <1>1, <1>2
  <2> QED
    BY <2>1, <2>2, <2>3
<1> QED
  BY <1>4, <1>5 DEF Opened, a, g, h

LEMMA OneOf ==
  ASSUME NEW m, NEW what, what \notin {"gate", "compile", "statement"}
  PROVE  AllOf(m, <<Step(what)>>)
<1> DEFINE s == Step(what)
           b == <<s>>
<1>1. Of(m, s)
  BY DEF Of, Looks, Step
<1> HIDE DEF s
<1>2. b \in Seq({s}) /\ Len(b) = 1 /\ b[1] = s
  OBVIOUS
<1> HIDE DEF b
<1>3. AllOf(m, b)
  BY <1>1, <1>2, OwnSequence DEF AllOf
<1> QED
  BY <1>3 DEF b, s

LEMMA PairOf ==
  ASSUME NEW m, NEW x
  PROVE  AllOf(m, <<Compile(x, m), Compile(x, m - 1)>>)
<1> DEFINE c == Compile(x, m)
           d == Compile(x, m - 1)
           b == <<c, d>>
<1>1. Of(m, c) /\ Of(m, d)
  BY DEF Of, Compile
<1> HIDE DEF c, d
<1>2. b \in Seq({c, d}) /\ Len(b) = 2 /\ b[1] = c /\ b[2] = d
  OBVIOUS
<1> HIDE DEF b
<1>3. AllOf(m, b)
  BY <1>1, <1>2, OwnSequence DEF AllOf
<1> QED
  BY <1>3 DEF b, c, d

LEMMA VarianceExplainGuarded ==
  ASSUME NEW q
  PROVE  Guarded(VarianceExplain(q))
<1> DEFINE m == q.period.from
           pair(x) == <<Compile(x, m), Compile(x, m - 1)>>
           tail == IF q.metric = "closing_cash" THEN <<Step("unavailable")>>
                   ELSE pair("gross_profit") \o pair("opex") \o <<Step("check")>>
<1>1. CASE q.metric \notin {"ebitda", "closing_cash"}
  BY <1>1, PlainStep DEF VarianceExplain
<1>2. CASE q.metric \in {"ebitda", "closing_cash"} /\ q.period.type # "month"
  BY <1>2, PlainStep DEF VarianceExplain
<1>3. CASE q.metric \in {"ebitda", "closing_cash"} /\ q.period.type = "month"
  <2>1. VarianceExplain(q) =
          <<Gate(m, TRUE), Gate(m - 1, TRUE)>> \o pair(q.metric) \o <<Step("check")>> \o tail
    BY <1>3 DEF VarianceExplain
  <2>2. \A x : AllOf(m, pair(x))
    BY PairOf
  <2>3. AllOf(m, <<Step("check")>>) /\ AllOf(m, <<Step("unavailable")>>)
    BY OneOf
  <2> HIDE DEF pair
  <2>4. AllOf(m, pair("gross_profit") \o pair("opex"))
    BY <2>2, AllOfJoined
  <2>5. AllOf(m, pair("gross_profit") \o pair("opex") \o <<Step("check")>>)
    BY <2>3, <2>4, AllOfJoined
  <2>6. AllOf(m, tail)
    BY <2>3, <2>5
  <2> HIDE DEF tail
  <2>7. Opened(m, <<Gate(m, TRUE), Gate(m - 1, TRUE)>> \o pair(q.metric))
    BY <2>2, TwoGatesOpen, OpenedOn
  <2>8. Opened(m, <<Gate(m, TRUE), Gate(m - 1, TRUE)>> \o pair(q.metric) \o <<Step("check")>>)
    BY <2>3, <2>7, OpenedOn
  <2>9. Opened(m, <<Gate(m, TRUE), Gate(m - 1, TRUE)>> \o pair(q.metric) \o <<Step("check")>> \o tail)
    BY <2>6, <2>8, OpenedOn
  <2> QED
    BY <2>1, <2>9 DEF Opened
<1> QED
  BY <1>1, <1>2, <1>3

LEMMA DataHealthGuarded ==
  ASSUME NEW q
  PROVE  Guarded(DataHealth(q))
<1>1. CASE q.period.type \in {"none", "range"}
  BY <1>1, PlainStep DEF DataHealth
<1>2. CASE q.period.type \notin {"none", "range"}
  <2> DEFINE s == Step("lock")
             t == Step("checks")
             a == <<s, t>>
  <2>1. Plain(s) /\ Plain(t)
    BY PlainStep
  <2>2. DataHealth(q) = a
    BY <1>2 DEF DataHealth
  <2> HIDE DEF s, t
  <2>3. a \in Seq({s, t}) /\ Len(a) = 2 /\ a[1] = s /\ a[2] = t
    OBVIOUS
  <2> HIDE DEF a
  <2>4. a \in Seq(ToSet(a)) /\ \A i \in 1 .. Len(a) : Plain(a[i])
    BY <2>1, <2>3, OwnSequence
  <2>5. Guarded(a)
    BY <2>4 DEF Guarded, Plain, Looks, SkipsACompile
  <2> QED
    BY <2>2, <2>5
<1> QED
  BY <1>1, <1>2

\* Whatever the question: what its handler looks at, it has gated.
LEMMA HandlersGuard ==
  ASSUME NEW q \in Questions, q.made = "ir"
  PROVE  Guarded(Handler(q))
<1>1. q.intent \in Intents /\ q.period.from \in Int /\ q.period.to \in Int
  BY QuestionsHaveMonths
<1>2. Guarded(<<>>)
  <2>1. <<>> \in Seq(ToSet(<<>>)) /\ Len(<<>>) = 0
    OBVIOUS
  <2> QED
    BY <2>1 DEF Guarded
<1>3. Guarded(<<Step("unavailable")>>)
  BY PlainStep
<1>4. /\ Guarded(MetricValue(q)) /\ Guarded(MetricComparison(q)) /\ Guarded(MetricTrend(q))
      /\ Guarded(MetricBreakdown(q)) /\ Guarded(VarianceExplain(q)) /\ Guarded(StatementView(q))
      /\ Guarded(DataHealth(q))
  BY <1>1, MetricValueGuarded, MetricComparisonGuarded, MetricTrendGuarded, MetricBreakdownGuarded,
     VarianceExplainGuarded, StatementViewGuarded, DataHealthGuarded
<1> QED
  BY <1>1, <1>2, <1>3, <1>4 DEF Handler, Intents

-----------------------------------------------------------------------------
\* A result or a number may be shown.
Stands(st, c) == c.status = "ok" => Ready(st, c.month) /\ Dark(c.metric)
Shows(st, n) == Ready(st, n.month) /\ Dark(n.metric)

\* A statement that reached the database.
Clean(r) == Sound(r.text) /\ (r.of \in DOMAIN Defects => Rejected(r.of) = {})

Working == {"agenda", "compile", "amounts", "runs"}
Midway == {"compile", "amounts", "runs"}

\* The compile under way is of a month that may be read.
Compiling ==
  /\ agenda # <<>> /\ Here.do = "compile"
  /\ Ready(status, Here.month)

AskInv ==
  /\ status \in [Months -> STATES]
  /\ pc = "model" => ir \in Questions
  /\ pc \in Working => Gated(agenda, status)
  /\ pc \in Midway => Compiling
  /\ pc = "runs" => MayRead(reading[1])
  /\ cells \in Seq(ToSet(cells)) /\ \A i \in 1 .. Len(cells) : Stands(status, cells[i])
  /\ \A n \in response.numbers : Shows(status, n)
  /\ \A r \in ran : Clean(r)

LEMMA AskInitially == AskInit => AskInv
<1> SUFFICES ASSUME AskInit PROVE AskInv
  OBVIOUS
<1>1. status \in [Months -> STATES]
  BY WorldsAreStates DEF AskInit
<1>2. pc = "idle" /\ cells = <<>> /\ ran = {} /\ response.numbers = {}
  BY DEF AskInit, NoResponse
<1>3. cells \in Seq(ToSet(cells)) /\ Len(cells) = 0
  BY <1>2
<1> QED
  BY <1>1, <1>2, <1>3 DEF AskInv, Working, Midway

\* An answer, once its numbers may be shown.
LEMMA Responding ==
  ASSUME AskInv, NEW result, NEW numbers, NEW citation, NEW why,
         Respond(result, numbers, citation, why),
         \A n \in numbers : Shows(status, n), \A r \in ran' : Clean(r)
  PROVE  AskInv'
<1>1. pc' = "done" /\ cells' = <<>> /\ response'.numbers = numbers /\ status' = status
  BY DEF Respond, world
<1>2. cells' \in Seq(ToSet(cells')) /\ Len(cells') = 0
  BY <1>1
<1> QED
  BY <1>1, <1>2 DEF AskInv, Working, Midway

\* No answer in it, and nothing more run.
LEMMA RespondingWith ==
  ASSUME AskInv, NEW result, NEW why, RespondWith(result, why)
  PROVE  AskInv'
<1>1. Respond(result, {}, NoCitation, why) /\ \A r \in ran' : Clean(r)
  BY DEF RespondWith, AskInv
<1> QED
  BY <1>1, Responding

\* On to what is left of the agenda.
LEMMA GoingOn ==
  ASSUME AskInv, pc = "agenda", NEW n, NEW results, Onward(n, results),
         Gated(SubSeq(agenda, n + 1, Len(agenda)), status),
         results \in Seq(ToSet(results)), \A i \in 1 .. Len(results) : Stands(status, results[i]),
         \A r \in ran' : Clean(r)
  PROVE  AskInv'
<1>1. /\ pc' = "agenda" /\ status' = status /\ response' = response /\ ir' = ir
      /\ cells' = cells \o results /\ agenda' = SubSeq(agenda, n + 1, Len(agenda))
  BY DEF Onward, world
<1>2. /\ cells' \in Seq(ToSet(cells')) /\ Len(cells) \in Nat /\ Len(results) \in Nat
      /\ Len(cells') = Len(cells) + Len(results)
      /\ \A i \in 1 .. Len(cells) : cells'[i] = cells[i]
      /\ \A i \in 1 .. Len(results) : cells'[i + Len(cells)] = results[i]
  BY <1>1, Joined DEF AskInv
<1>3. ASSUME NEW i \in 1 .. Len(cells') PROVE Stands(status, cells'[i])
  <2>1. CASE i \in 1 .. Len(cells)
    BY <1>2, <2>1 DEF AskInv
  <2>2. CASE i \notin 1 .. Len(cells)
    <3>1. i - Len(cells) \in 1 .. Len(results) /\ i = (i - Len(cells)) + Len(cells)
      BY <1>2, <2>2
    <3>2. cells'[i] = results[i - Len(cells)]
      BY <1>2, <3>1
    <3> QED
      BY <3>1, <3>2
  <2> QED
    BY <2>1, <2>2
<1> QED
  BY <1>1, <1>2, <1>3 DEF AskInv, Midway

\* The head of a gated agenda.
LEMMA Heads ==
  ASSUME AskInv, pc \in Working, agenda # <<>>
  PROVE  /\ Gated(agenda, status)
         /\ Here = agenda[1]
         /\ Looks(Here) => Ready(status, Here.month)
<1>1. Gated(agenda, status) /\ agenda \in Seq(ToSet(agenda)) /\ Len(agenda) >= 1 /\ Len(agenda) \in Nat
  BY DEF AskInv, Gated
<1>2. Here = agenda[1]
  BY <1>1 DEF Here
<1>3. ~GateBefore(agenda, 1)
  BY DEF GateBefore
<1> QED
  BY <1>1, <1>2, <1>3 DEF Gated

\* One result, as a sequence.
LEMMA OneResult ==
  ASSUME NEW c
  PROVE  <<c>> \in Seq(ToSet(<<c>>)) /\ \A i \in 1 .. Len(<<c>>) : <<c>>[i] = c
<1> DEFINE s == <<c>>
<1>1. s \in Seq({c}) /\ Len(s) = 1 /\ s[1] = c
  OBVIOUS
<1> HIDE DEF s
<1>2. s \in Seq(ToSet(s)) /\ \A i \in 1 .. Len(s) : s[i] = c
  BY <1>1, OwnSequence
<1> QED
  BY <1>2 DEF s

\* Past a step that is no gate.
LEMMA PastAStep ==
  ASSUME AskInv, NEW what, Doing(what), what # "gate", NEW results, Onward(1, results),
         results \in Seq(ToSet(results)), \A i \in 1 .. Len(results) : Stands(status, results[i]),
         \A r \in ran' : Clean(r)
  PROVE  AskInv'
<1>1. pc = "agenda" /\ agenda # <<>> /\ Here.do = what
  BY DEF Doing, Here
<1>2. Gated(agenda, status) /\ agenda[1].do # "gate"
  BY <1>1, Heads DEF Working
<1>3. Gated(SubSeq(agenda, 1 + 1, Len(agenda)), status)
  BY <1>1, <1>2, DropFirst
<1> QED
  BY <1>1, <1>3, GoingOn

LEMMA NoResult == <<>> \in Seq(ToSet(<<>>)) /\ \A i \in 1 .. Len(<<>>) : FALSE
OBVIOUS

-----------------------------------------------------------------------------
(* The steps of a request.                                                 *)

LEMMA KeepsOnSubmit ==
  ASSUME AskInv, NEW q \in Questions, Submit(q)
  PROVE  AskInv'
BY DEF AskInv, Submit, world, Working, Midway

LEMMA KeepsOnTurnAway ==
  ASSUME AskInv, TurnAway
  PROVE  AskInv'
BY RespondingWith DEF TurnAway

LEMMA KeepsOnAccept ==
  ASSUME AskInv, Accept
  PROVE  AskInv'
<1>1. ir \in Questions /\ ir.made = "ir"
  BY DEF Accept, AskInv
<1>2. Gated(Handler(ir), status)
  BY <1>1, HandlersGuard, GuardedIsGated
<1> QED
  BY <1>2 DEF Accept, AskInv, Midway, world

LEMMA KeepsOnPassGate ==
  ASSUME AskInv, PassGate
  PROVE  AskInv'
<1>1. /\ pc = "agenda" /\ agenda # <<>> /\ StatusOf(Here.month) \in Reportable
      /\ Onward(1, <<>>) /\ ran' = ran
  BY DEF PassGate, Doing, Here
<1>2. Gated(agenda, status) /\ Ready(status, agenda[1].month)
  BY <1>1, Heads, ReadyIsReportable DEF Working
<1>3. Gated(SubSeq(agenda, 1 + 1, Len(agenda)), status)
  BY <1>1, <1>2, DropFirst
<1>4. \A r \in ran' : Clean(r)
  BY <1>1 DEF AskInv
<1> QED
  BY <1>1, <1>3, <1>4, NoResult, GoingOn

LEMMA KeepsOnRefuseMonth ==
  ASSUME AskInv, RefuseMonth
  PROVE  AskInv'
<1>1. pc = "agenda" /\ agenda # <<>> /\ Here.do = "gate" /\ ran' = ran
  BY DEF RefuseMonth, Doing, Here
<1>2. \A r \in ran' : Clean(r)
  BY <1>1 DEF AskInv
<1>3. CASE Here.refuses
  <2>1. PICK why : Respond("refused", {}, why, "period")
    BY <1>3 DEF RefuseMonth
  <2> QED
    BY <1>2, <2>1, Responding
<1>4. CASE ~Here.refuses
  <2> DEFINE c == Cell(agenda[2].metric, Here.month, [Unresolvable EXCEPT !.status = "refused"])
  <2>1. Onward(2, <<c>>)
    BY <1>4 DEF RefuseMonth
  <2>2. c.status # "ok"
    BY DEF Cell, Unresolvable
  <2> HIDE DEF c
  <2>3. Gated(agenda, status) /\ agenda[1].do = "gate" /\ ~agenda[1].refuses
    BY <1>1, <1>4, Heads DEF Working
  <2>4. Gated(SubSeq(agenda, 2 + 1, Len(agenda)), status)
    BY <1>1, <2>3, DropTwo
  <2>5. <<c>> \in Seq(ToSet(<<c>>)) /\ \A i \in 1 .. Len(<<c>>) : Stands(status, <<c>>[i])
    BY <2>2, OneResult DEF Stands
  <2> QED
    BY <1>1, <1>2, <2>1, <2>4, <2>5, GoingOn
<1> QED
  BY <1>3, <1>4

LEMMA KeepsOnCompileStart ==
  ASSUME AskInv, CompileStart
  PROVE  AskInv'
<1>1. /\ pc = "agenda" /\ agenda # <<>> /\ Here.do = "compile"
      /\ pc' = "compile" /\ status' = status /\ agenda' = agenda
      /\ cells' = cells /\ ran' = ran /\ response' = response /\ ir' = ir
  BY DEF CompileStart, Doing, Here, world
<1>2. Gated(agenda, status) /\ Ready(status, Here.month)
  BY <1>1, Heads DEF Working, Looks
<1>3. Here' = Here
  BY <1>1 DEF Here
<1>4. Compiling'
  BY <1>1, <1>2, <1>3 DEF Compiling
<1> QED
  BY <1>1, <1>2, <1>4 DEF AskInv, Working

LEMMA CompilingStays ==
  ASSUME Compiling, agenda' = agenda, status' = status
  PROVE  Compiling'
BY DEF Compiling, Here

LEMMA KeepsOnLookUp ==
  ASSUME AskInv, pc = "compile", NEW c, LookUp(c)
  PROVE  AskInv'
<1>1. /\ status' = status /\ agenda' = agenda /\ cells' = cells /\ ran' = ran /\ response' = response
      /\ pc' \in {"amounts", "compile"}
  BY DEF LookUp, world
<1>2. Compiling'
  BY <1>1, CompilingStays DEF AskInv, Midway
<1> QED
  BY <1>1, <1>2 DEF AskInv, Working, Midway

LEMMA KeepsOnRejectLeaf ==
  ASSUME AskInv, RejectLeaf
  PROVE  AskInv'
BY RespondingWith DEF RejectLeaf

\* Both statements of a leaf that may be read are clean.
LEMMA LeafIsClean ==
  ASSUME NEW x, MayRead(x), NEW i \in 1 .. 2
  PROVE  Clean(Sent(x, LeafStatements(x)[i]))
<1>1. Sound(Capped(LeafStatements(x)[i])) /\ Rejected(x) = {}
  BY ReadableIsSound DEF MayRead
<1> QED
  BY <1>1 DEF Clean, Sent

LEMMA KeepsOnReadAmounts ==
  ASSUME AskInv, ReadAmounts
  PROVE  AskInv'
<1> DEFINE sent == Sent(reading[1], LeafStatements(reading[1])[1])
<1>1. pc = "amounts" /\ MayRead(reading[1]) /\ ran' = ran \cup {sent}
  BY DEF ReadAmounts
<1>2. Clean(sent)
  BY <1>1, LeafIsClean
<1> HIDE DEF sent
<1>3. \A r \in ran' : Clean(r)
  BY <1>1, <1>2 DEF AskInv
<1>4. CASE Respond("error", {}, NoCitation, "row_cap")
  BY <1>3, <1>4, Responding
<1>5. CASE pc' = "runs" /\ UNCHANGED <<world, ir, agenda, reading, cells, response>>
  <2>1. status' = status /\ agenda' = agenda /\ cells' = cells /\ response' = response /\ reading' = reading
    BY <1>5 DEF world
  <2>2. Compiling'
    BY <1>1, <2>1, CompilingStays DEF AskInv, Midway
  <2>3. MayRead(reading[1])'
    BY <1>1, <2>1 DEF MayRead, Rejected
  <2> QED
    BY <1>1, <1>3, <1>5, <2>1, <2>2, <2>3 DEF AskInv, Working, Midway
<1> QED
  BY <1>4, <1>5 DEF ReadAmounts

LEMMA KeepsOnReadLoadRuns ==
  ASSUME AskInv, ReadLoadRuns
  PROVE  AskInv'
<1> DEFINE sent == Sent(reading[1], LeafStatements(reading[1])[2])
<1>1. pc = "runs" /\ MayRead(reading[1]) /\ ran' = ran \cup {sent}
  BY DEF ReadLoadRuns, AskInv
<1>2. Clean(sent)
  BY <1>1, LeafIsClean
<1> HIDE DEF sent
<1>3. \A r \in ran' : Clean(r)
  BY <1>1, <1>2 DEF AskInv
<1>4. CASE Respond("error", {}, NoCitation, "row_cap")
  BY <1>3, <1>4, Responding
<1>5. CASE pc' = "compile" /\ UNCHANGED <<world, ir, agenda, cells, response>>
  <2>1. status' = status /\ agenda' = agenda /\ cells' = cells /\ response' = response
    BY <1>5 DEF world
  <2>2. Compiling'
    BY <1>1, <2>1, CompilingStays DEF AskInv, Midway
  <2> QED
    BY <1>1, <1>3, <1>5, <2>1, <2>2 DEF AskInv, Working, Midway
<1> QED
  BY <1>4, <1>5 DEF ReadLoadRuns

LEMMA KeepsOnCompileEnd ==
  ASSUME AskInv, pc = "compile", CompileEnd(Underway)
  PROVE  AskInv'
<1> DEFINE c == Cell(Here.metric, Here.month, Underway)
<1>1. /\ pc' = "agenda" /\ agenda' = Tail(agenda) /\ status' = status
      /\ cells' = Append(cells, c) /\ ran' = ran /\ response' = response /\ ir' = ir
  BY DEF CompileEnd, world
<1>2. c.metric = Here.metric /\ c.month = Here.month /\ c.status = Underway.status
  BY DEF Cell
<1> HIDE DEF c
<1>3. Compiling /\ agenda # <<>> /\ Here = agenda[1] /\ Gated(agenda, status)
  BY Heads DEF AskInv, Working, Midway, Compiling
<1>4. Gated(agenda', status)
  <2>1. agenda[1].do # "gate"
    BY <1>3 DEF Compiling
  <2> QED
    BY <1>1, <1>3, <2>1, DropFirst
<1>5. Stands(status, c)
  <2> SUFFICES ASSUME c.status = "ok" PROVE Ready(status, Here.month) /\ Dark(Here.metric)
    BY <1>2 DEF Stands
  <2>1. Ready(status, Here.month) /\ Here.month \in Months
    BY <1>3 DEF Compiling, Ready
  <2>2. Compiled(Here.metric, Here.month, got).status = "ok"
    BY <1>2 DEF Underway
  <2> QED
    BY <2>1, <2>2, ResolvedIsDark
<1>6. <<c>> \in Seq(ToSet(<<c>>)) /\ cells \in Seq(ToSet(cells)) /\ Len(cells) \in Nat
  BY OneResult DEF AskInv
<1> DEFINE S == ToSet(cells) \cup {c}
<1>7. cells \in Seq(S) /\ c \in S
  <2>1. \A i \in 1 .. Len(cells) : cells[i] \in S
    BY DEF ToSet
  <2>2. c \in S
    OBVIOUS
  <2> HIDE DEF S
  <2> QED
    BY <1>6, <2>1, <2>2
<1> HIDE DEF S
<1>8. /\ cells' \in Seq(S) /\ Len(cells') = Len(cells) + 1
      /\ \A i \in 1 .. Len(cells) : cells'[i] = cells[i]
      /\ cells'[Len(cells) + 1] = c
  BY <1>1, <1>6, <1>7
<1>9. cells' \in Seq(ToSet(cells'))
  BY <1>8, OwnSequence
<1>10. \A i \in 1 .. Len(cells') : Stands(status, cells'[i])
  BY <1>5, <1>6, <1>8 DEF AskInv
<1> QED
  BY <1>1, <1>4, <1>9, <1>10 DEF AskInv, Midway

LEMMA KeepsOnContinue ==
  ASSUME AskInv, Continue
  PROVE  AskInv'
<1>1. pc = "compile" /\ (LookUp(Underway) \/ CompileEnd(Underway))
  BY DEF Continue
<1> QED
  BY <1>1, KeepsOnLookUp, KeepsOnCompileEnd

LEMMA KeepsOnCheck ==
  ASSUME AskInv, Check
  PROVE  AskInv'
<1>1. CASE Onward(1, <<>>) /\ ran' = ran
  <2>1. \A r \in ran' : Clean(r)
    BY <1>1 DEF AskInv
  <2> QED
    BY <1>1, <2>1, NoResult, PastAStep DEF Check
<1>2. CASE RespondWith(Undelivered(cells[Min(Failed)]), "decision")
  BY <1>2, RespondingWith
<1> QED
  BY <1>1, <1>2 DEF Check

LEMMA KeepsOnGiveUp ==
  ASSUME AskInv, GiveUp
  PROVE  AskInv'
BY RespondingWith DEF GiveUp

\* The fixed statements are of canonical tables and no leaf's.
LEMMA FixedIsClean ==
  ASSUME NEW tables, tables \subseteq CanonicalTables
  PROVE  Clean(Sent(NoMetric, Statement(tables)))
<1>1. NoMetric \notin DOMAIN Defects
  BY MetricNames
<1> QED
  BY <1>1, FixedIsSound DEF Clean, Sent

LEMMA KeepsOnReadHealth ==
  ASSUME AskInv, ReadHealth
  PROVE  AskInv'
<1>1. PICK what \in {"lock", "checks"} :
        /\ Doing(what) /\ Onward(1, <<>>)
        /\ ran' = ran \cup {Sent(NoMetric, IF what = "lock" THEN LockStatement ELSE ChecksStatement)}
  BY DEF ReadHealth
<1>2. /\ Clean(Sent(NoMetric, LockStatement)) /\ Clean(Sent(NoMetric, ChecksStatement))
  BY FixedIsClean DEF LockStatement, ChecksStatement, CanonicalTables
<1>3. \A r \in ran' : Clean(r)
  BY <1>1, <1>2 DEF AskInv
<1> QED
  BY <1>1, <1>3, NoResult, PastAStep

LEMMA KeepsOnReadUnmapped ==
  ASSUME AskInv, ReadUnmapped
  PROVE  AskInv'
<1>1. Clean(Sent(NoMetric, UnmappedStatement))
  BY FixedIsClean DEF UnmappedStatement, CanonicalTables
<1>2. CASE RespondWith("unavailable", "no_mapping")
  BY <1>2, RespondingWith
<1>3. CASE ran' = ran \cup {Sent(NoMetric, UnmappedStatement)} /\ Onward(1, <<>>)
  <2>1. \A r \in ran' : Clean(r)
    BY <1>1, <1>3 DEF AskInv
  <2> QED
    BY <1>3, <2>1, NoResult, PastAStep DEF ReadUnmapped
<1> QED
  BY <1>2, <1>3 DEF ReadUnmapped

LEMMA KeepsOnAssembleStatement ==
  ASSUME AskInv, AssembleStatement
  PROVE  AskInv'
<1> DEFINE c == Cell("statement", Here.month, [Unresolvable EXCEPT !.status = "ok"])
<1>1. CASE RespondWith("unavailable", "no_mapping")
  BY <1>1, RespondingWith
<1>2. CASE Onward(1, <<c>>) /\ ran' = ran
  <2>1. c.month = Here.month /\ c.metric = "statement"
    BY DEF Cell
  <2> HIDE DEF c
  <2>2. pc = "agenda" /\ agenda # <<>> /\ Here.do = "statement"
    BY DEF AssembleStatement, Doing, Here
  <2>3. Ready(status, Here.month)
    BY <2>2, Heads DEF Working, Looks
  <2>4. Stands(status, c)
    BY <2>1, <2>3, MetricNames DEF Stands, Dark
  <2>5. <<c>> \in Seq(ToSet(<<c>>)) /\ \A i \in 1 .. Len(<<c>>) : Stands(status, <<c>>[i])
    BY <2>4, OneResult
  <2>6. \A r \in ran' : Clean(r)
    BY <1>2 DEF AskInv
  <2> QED
    BY <1>2, <2>5, <2>6, PastAStep DEF AssembleStatement
<1> QED
  BY <1>1, <1>2 DEF AssembleStatement

LEMMA KeepsOnAnswer ==
  ASSUME AskInv, Answer
  PROVE  AskInv'
<1>1. ran' = ran /\ \A r \in ran' : Clean(r)
  BY DEF Answer, AskInv
<1>2. \A n \in Shown : Shows(status, n)
  <2> SUFFICES ASSUME NEW i \in DOMAIN cells, cells[i].status = "ok"
               PROVE  Shows(status, [metric |-> cells[i].metric, month |-> cells[i].month,
                                     value |-> cells[i].value, rows |-> cells[i].rows])
    BY DEF Shown
  <2>1. i \in 1 .. Len(cells)
    BY DEF AskInv
  <2> QED
    BY <2>1 DEF AskInv, Stands, Shows
<1>3. \E result, citation, why : Respond(result, Shown, citation, why) \/ Respond(result, {}, citation, why)
  <2>1. CASE AnswerTrend
    BY <2>1 DEF AnswerTrend
  <2>2. CASE AnswerCited
    BY <2>2 DEF AnswerCited
  <2>3. CASE \E why : Respond("ok", Shown, NoCitation, why)
    BY <2>3
  <2> QED
    BY <2>1, <2>2, <2>3 DEF Answer
<1> QED
  BY <1>1, <1>2, <1>3, Responding

LEMMA KeepsOnRun ==
  ASSUME AskInv, Run
  PROVE  AskInv'
BY KeepsOnTurnAway, KeepsOnAccept, KeepsOnPassGate, KeepsOnRefuseMonth, KeepsOnCompileStart,
   KeepsOnContinue, KeepsOnRejectLeaf, KeepsOnReadAmounts, KeepsOnReadLoadRuns, KeepsOnCheck, KeepsOnGiveUp, KeepsOnReadHealth, KeepsOnReadUnmapped,
   KeepsOnAssembleStatement, KeepsOnAnswer
   DEF Run

-----------------------------------------------------------------------------
(* Whatever commits meanwhile: a month that may be read stays so.          *)

LEMMA OthersLeaveReady ==
  ASSUME AskInv, Others
  PROVE  status' \in [Months -> STATES] /\ \A m : Ready(status, m) => Ready(status', m)
<1>1. CASE Load
  BY <1>1 DEF Load, AskInv
<1>2. CASE Freeze
  <2>1. PICK k \in Months :
          status' = [m \in Months |-> IF m >= k /\ status[m] = "validated" THEN "mapped" ELSE status[m]]
    BY <1>2 DEF Freeze
  <2> QED
    BY <2>1 DEF AskInv, STATES, Stored, Ready, Reportable
<1>3. CASE Advance
  <2>1. PICK k \in Months, s \in Stored \ {"mapped"} :
          status[k] = Predecessor[s] /\ status' = [status EXCEPT ![k] = s]
    BY <1>3 DEF Advance
  <2>2. status' \in [Months -> STATES] /\ status'[k] = s /\ \A m \in Months : m # k => status'[m] = status[m]
    BY <2>1 DEF AskInv, STATES
  <2>3. status[k] \in Reportable => s \in Reportable
    BY <2>1 DEF Predecessor, Stored, Reportable
  <2> QED
    BY <2>2, <2>3 DEF Ready
<1> QED
  BY <1>1, <1>2, <1>3 DEF Others

LEMMA KeepsOnOthers ==
  ASSUME AskInv, Others
  PROVE  AskInv'
<1>1. status' \in [Months -> STATES] /\ \A m : Ready(status, m) => Ready(status', m)
  BY OthersLeaveReady
<1>2. /\ pc' = pc /\ ir' = ir /\ agenda' = agenda /\ reading' = reading
      /\ cells' = cells /\ ran' = ran /\ response' = response
  BY DEF Others, request
<1>3. Gated(agenda, status) => Gated(agenda, status')
  BY <1>1 DEF Gated
<1>4. Compiling => Compiling'
  BY <1>1, <1>2 DEF Compiling, Here
<1>5. MayRead(reading[1]) => MayRead(reading[1])'
  BY <1>2 DEF MayRead, Rejected
<1>6. \A c : Stands(status, c) => Stands(status', c)
  BY <1>1 DEF Stands
<1>7. \A n : Shows(status, n) => Shows(status', n)
  BY <1>1 DEF Shows
<1> QED
  BY <1>1, <1>2, <1>3, <1>4, <1>5, <1>6, <1>7 DEF AskInv

LEMMA AskStep == AskInv /\ [AskNext]_askVars => AskInv'
<1> SUFFICES ASSUME AskInv, [AskNext]_askVars PROVE AskInv'
  OBVIOUS
<1>1. CASE UNCHANGED askVars
  <2>1. /\ status' = status /\ pc' = pc /\ ir' = ir /\ agenda' = agenda /\ reading' = reading
        /\ cells' = cells /\ ran' = ran /\ response' = response
    BY <1>1 DEF askVars, world, request
  <2>2. Compiling => Compiling'
    BY <2>1 DEF Compiling, Here
  <2>3. MayRead(reading[1]) => MayRead(reading[1])'
    BY <2>1 DEF MayRead, Rejected
  <2> QED
    BY <2>1, <2>2, <2>3 DEF AskInv
<1>2. CASE AskNext
  BY <1>2, KeepsOnSubmit, KeepsOnRun, KeepsOnOthers DEF AskNext
<1> QED
  BY <1>1, <1>2

\* The inductive invariant, for any calendar, registry, questions and compiler.
THEOREM AskInvHolds == AskSpec => []AskInv
BY AskInitially, AskStep, PTL DEF AskSpec

-----------------------------------------------------------------------------
(* What follows.                                                           *)

\* Each number of an answer is of a month that may be read, whatever has
\* committed since its gate (_refuse_unreportable).
THEOREM NumbersAlwaysReportable == AskSpec => []NumbersOfReportableMonths
<1>1. AskInv => NumbersOfReportableMonths
  BY ReadyIsReportable DEF AskInv, Shows, NumbersOfReportableMonths
<1> QED
  BY <1>1, AskInvHolds, PTL

\* Only capped SELECTs on declared canonical tables, scoped to the tenant,
\* reach the database (AdmissionController.admit), whatever the compiler emits.
THEOREM OnlyAdmittedRuns == AskSpec => []WhateverIsEmitted
<1>1. AskInv => WhateverIsEmitted
  BY DEF AskInv, Clean, Sound, WhateverIsEmitted
<1> QED
  BY <1>1, AskInvHolds, PTL

\* Neither statement of a leaf runs when either is rejected
\* (_fetch_leaf_amounts).
THEOREM RejectedLeavesNeverRun == AskSpec => []RejectedLeafNeverRan
<1>1. AskInv => RejectedLeafNeverRan
  BY DEF AskInv, Clean, RejectedLeafNeverRan
<1> QED
  BY <1>1, AskInvHolds, PTL

\* No number rests on a metric an open decision governs, however deep, nor by
\* the base an override names (transitive_blocking_decisions,
\* _trailing_twelve_months_value).
THEOREM BlockedAlwaysDark == AskSpec => []BlockedStaysDark
<1>1. AskInv => BlockedStaysDark
  BY DEF AskInv, Shows, Dark, Ungoverned, BlockedStaysDark
<1> QED
  BY <1>1, AskInvHolds, PTL

-----------------------------------------------------------------------------
(* The metrics an agenda compiles.                                         *)

KnownStep(step) == step.do = "compile" => step.metric \in Known
Knowing(a) == a \in Seq(ToSet(a)) /\ \A i \in 1 .. Len(a) : KnownStep(a[i])

LEMMA KnowingOf ==
  ASSUME NEW S, NEW a \in Seq(S), \A step \in S : KnownStep(step)
  PROVE  Knowing(a)
<1>1. a \in Seq(ToSet(a))
  BY OwnSequence
<1>2. \A i \in 1 .. Len(a) : a[i] \in S
  OBVIOUS
<1> QED
  BY <1>1, <1>2 DEF Knowing

LEMMA KnowingSteps ==
  /\ \A m, b : KnownStep(Gate(m, b))
  /\ \A x \in Known : \A m : KnownStep(Compile(x, m))
  /\ \A what : what # "compile" => KnownStep(Step(what)) /\ \A m : KnownStep([Step(what) EXCEPT !.month = m])
BY DEF KnownStep, Gate, Compile, Step

LEMMA KnowingOne ==
  ASSUME NEW what, what # "compile"
  PROVE  Knowing(<<Step(what)>>)
<1> DEFINE s == Step(what)
<1>1. KnownStep(s)
  BY KnowingSteps
<1> HIDE DEF s
<1> DEFINE S == {s}
<1>2. <<s>> \in Seq(S) /\ \A step \in S : KnownStep(step)
  BY <1>1
<1> HIDE DEF S
<1>3. Knowing(<<s>>)
  BY <1>2, KnowingOf
<1> QED
  BY <1>3 DEF s

LEMMA KnowingJoined ==
  ASSUME NEW b, NEW c, Knowing(b), Knowing(c)
  PROVE  Knowing(b \o c)
<1> DEFINE d == b \o c
<1>1. /\ d \in Seq(ToSet(d)) /\ Len(b) \in Nat /\ Len(c) \in Nat /\ Len(d) = Len(b) + Len(c)
      /\ \A i \in 1 .. Len(b) : d[i] = b[i]
      /\ \A i \in 1 .. Len(c) : d[i + Len(b)] = c[i]
  BY Joined DEF Knowing
<1> HIDE DEF d
<1>2. ASSUME NEW i \in 1 .. Len(d) PROVE KnownStep(d[i])
  <2>1. CASE i \in 1 .. Len(b)
    BY <1>1, <2>1 DEF Knowing
  <2>2. CASE i \notin 1 .. Len(b)
    <3>1. i - Len(b) \in 1 .. Len(c) /\ i = (i - Len(b)) + Len(b)
      BY <1>1, <2>2
    <3>2. d[i] = c[i - Len(b)]
      BY <1>1, <3>1
    <3> QED
      BY <3>1, <3>2 DEF Knowing
  <2> QED
    BY <2>1, <2>2
<1>3. Knowing(d)
  BY <1>1, <1>2 DEF Knowing
<1> QED
  BY <1>3 DEF d

LEMMA KnowingPair ==
  ASSUME NEW s, NEW t, KnownStep(s), KnownStep(t)
  PROVE  Knowing(<<s, t>>)
<1> DEFINE S == {s, t}
<1>1. <<s, t>> \in Seq(S) /\ \A step \in S : KnownStep(step)
  OBVIOUS
<1> HIDE DEF S
<1> QED
  BY <1>1, KnowingOf

LEMMA MetricValueKnows ==
  ASSUME NEW q, q.metric \in Known
  PROVE  Knowing(MetricValue(q))
<1>1. CASE q.period.type # "month"
  BY <1>1, KnowingOne DEF MetricValue
<1>2. CASE q.period.type = "month"
  <2> DEFINE g == Gate(q.period.from, TRUE)
             c == Compile(q.metric, q.period.from)
             e == Step("check")
  <2>1. KnownStep(g) /\ KnownStep(c) /\ KnownStep(e)
    BY KnowingSteps
  <2>2. MetricValue(q) = <<g, c, e>>
    BY <1>2 DEF MetricValue
  <2> HIDE DEF g, c, e
  <2> DEFINE S == {g, c, e}
  <2>3. <<g, c, e>> \in Seq(S) /\ \A step \in S : KnownStep(step)
    BY <2>1
  <2> HIDE DEF S
  <2>4. Knowing(<<g, c, e>>)
    BY <2>3, KnowingOf
  <2> QED
    BY <2>2, <2>4
<1> QED
  BY <1>1, <1>2

LEMMA MetricBreakdownKnows ==
  ASSUME NEW q, q.metric \in Known
  PROVE  Knowing(MetricBreakdown(q))
<1>1. CASE q.period.type = "month" /\ q.breakdown # {}
  <2>1. MetricBreakdown(q) = <<Gate(q.period.from, TRUE), Step("unavailable")>>
    BY <1>1 DEF MetricBreakdown
  <2> QED
    BY <2>1, KnowingSteps, KnowingPair
<1>2. CASE ~(q.period.type = "month" /\ q.breakdown # {})
  BY <1>2, MetricValueKnows DEF MetricBreakdown
<1> QED
  BY <1>1, <1>2

LEMMA MetricComparisonKnows ==
  ASSUME NEW q, q.metric \in Known
  PROVE  Knowing(MetricComparison(q))
<1> DEFINE other == q.period.from - (IF q.compare = "yoy" THEN 12 ELSE 1)
           rest == IF q.compare \in {"none", "ytd"} THEN <<Step("error")>>
                   ELSE <<Gate(other, FALSE), Compile(q.metric, other)>>
<1>1. MetricComparison(q) = MetricValue(q) \o rest
  BY DEF MetricComparison
<1>2. Knowing(<<Step("error")>>) /\ Knowing(<<Gate(other, FALSE), Compile(q.metric, other)>>)
  BY KnowingOne, KnowingSteps, KnowingPair
<1>3. Knowing(rest)
  BY <1>2
<1> HIDE DEF rest
<1> QED
  BY <1>1, <1>3, MetricValueKnows, KnowingJoined

LEMMA MetricTrendKnows ==
  ASSUME NEW q, q.metric \in Known, q.period.from \in Int, q.period.to \in Int
  PROVE  Knowing(MetricTrend(q))
<1>1. CASE q.period.type # "range"
  BY <1>1, KnowingOne DEF MetricTrend
<1>2. CASE q.period.type = "range"
  <2> DEFINE n == 2 * (q.period.to - q.period.from + 1)
             step(i) == IF i % 2 = 1 THEN Gate(q.period.from + (i - 1) \div 2, FALSE)
                        ELSE Compile(q.metric, q.period.from + (i - 1) \div 2)
             a == [i \in 1 .. n |-> step(i)]
  <2>1. MetricTrend(q) = a
    BY <1>2 DEF MetricTrend
  <2>2. \A i \in 1 .. n : KnownStep(step(i))
    BY KnowingSteps
  <2>3. a \in Seq(ToSet(a))
    BY <2>1, MetricTrendGuarded DEF Guarded
  <2>4. DOMAIN a = 1 .. n /\ \A i \in 1 .. n : a[i] = step(i)
    OBVIOUS
  <2> HIDE DEF a, step
  <2>7. 1 .. Len(a) = DOMAIN a
    BY <2>3
  <2>5. \A i \in 1 .. Len(a) : a[i] = step(i) /\ i \in 1 .. n
    BY <2>4, <2>7
  <2>6. Knowing(a)
    BY <2>2, <2>3, <2>5 DEF Knowing
  <2> QED
    BY <2>1, <2>6
<1> QED
  BY <1>1, <1>2

LEMMA VarianceExplainKnows ==
  ASSUME NEW q, q.metric \in Known
  PROVE  Knowing(VarianceExplain(q))
<1> DEFINE m == q.period.from
           pair(x) == <<Compile(x, m), Compile(x, m - 1)>>
           tail == IF q.metric = "closing_cash" THEN <<Step("unavailable")>>
                   ELSE pair("gross_profit") \o pair("opex") \o <<Step("check")>>
<1>1. CASE q.metric \notin {"ebitda", "closing_cash"}
  BY <1>1, KnowingOne DEF VarianceExplain
<1>2. CASE q.metric \in {"ebitda", "closing_cash"} /\ q.period.type # "month"
  BY <1>2, KnowingOne DEF VarianceExplain
<1>3. CASE q.metric \in {"ebitda", "closing_cash"} /\ q.period.type = "month"
  <2>1. VarianceExplain(q) =
          <<Gate(m, TRUE), Gate(m - 1, TRUE)>> \o pair(q.metric) \o <<Step("check")>> \o tail
    BY <1>3 DEF VarianceExplain
  <2>2. \A x \in Known : Knowing(pair(x))
    BY KnowingSteps, KnowingPair
  <2>3. Knowing(<<Step("check")>>) /\ Knowing(<<Step("unavailable")>>) /\ Knowing(<<Gate(m, TRUE), Gate(m - 1, TRUE)>>)
    BY KnowingOne, KnowingSteps, KnowingPair
  <2> HIDE DEF pair
  <2>4. Knowing(tail)
    <3>1. CASE q.metric = "closing_cash"
      BY <2>3, <3>1
    <3>2. CASE q.metric = "ebitda"
      <4>1. Knowing(pair("gross_profit")) /\ Knowing(pair("opex"))
        BY <2>2, <3>2, MetricNames
      <4>2. Knowing(pair("gross_profit") \o pair("opex"))
        BY <4>1, KnowingJoined
      <4>3. Knowing(pair("gross_profit") \o pair("opex") \o <<Step("check")>>)
        BY <2>3, <4>2, KnowingJoined
      <4> QED
        BY <3>2, <4>3
    <3> QED
      BY <1>3, <3>1, <3>2
  <2> HIDE DEF tail
  <2>5. Knowing(<<Gate(m, TRUE), Gate(m - 1, TRUE)>> \o pair(q.metric))
    BY <2>2, <2>3, KnowingJoined
  <2>6. Knowing(<<Gate(m, TRUE), Gate(m - 1, TRUE)>> \o pair(q.metric) \o <<Step("check")>>)
    BY <2>3, <2>5, KnowingJoined
  <2>7. Knowing(<<Gate(m, TRUE), Gate(m - 1, TRUE)>> \o pair(q.metric) \o <<Step("check")>> \o tail)
    BY <2>4, <2>6, KnowingJoined
  <2> QED
    BY <2>1, <2>7
<1> QED
  BY <1>1, <1>2, <1>3

LEMMA UnmeteredKnows ==
  ASSUME NEW q
  PROVE  Knowing(StatementView(q)) /\ Knowing(DataHealth(q)) /\ Knowing(<<>>)
<1>1. Knowing(<<>>)
  BY DEF Knowing
<1>2. Knowing(StatementView(q))
  <2>1. Knowing(<<Gate(q.period.from, TRUE), [Step("statement") EXCEPT !.month = q.period.from]>>)
    BY KnowingSteps, KnowingPair
  <2>2. Knowing(<<Step("error")>>) /\ Knowing(<<Step("unavailable")>>)
    BY KnowingOne
  <2> QED
    BY <2>1, <2>2 DEF StatementView
<1>3. Knowing(DataHealth(q))
  <2>1. Knowing(<<Step("lock"), Step("checks")>>)
    BY KnowingSteps, KnowingPair
  <2>2. Knowing(<<Step("unmapped")>>) /\ Knowing(<<Step("crash")>>)
    BY KnowingOne
  <2> QED
    BY <2>1, <2>2 DEF DataHealth
<1> QED
  BY <1>1, <1>2, <1>3

\* What a valid question has compiled is in the registry.
LEMMA HandlersKnow ==
  ASSUME NEW q \in Questions, q.made = "ir", ValidIr(q)
  PROVE  Knowing(Handler(q))
<1>1. q.intent \in Intents /\ q.period.from \in Int /\ q.period.to \in Int
  BY QuestionsHaveMonths
<1>2. q.metric \in Known \/ q.intent \in Unmetered
  BY DEF ValidIr
<1>3. Knowing(<<>>) /\ Knowing(<<Step("unavailable")>>) /\ Knowing(StatementView(q)) /\ Knowing(DataHealth(q))
  BY UnmeteredKnows, KnowingOne
<1>4. CASE q.intent \in Unmetered
  BY <1>3, <1>4 DEF Handler, Unmetered
<1>5. CASE q.metric \in Known
  <2>1. /\ Knowing(MetricValue(q)) /\ Knowing(MetricComparison(q)) /\ Knowing(MetricTrend(q))
        /\ Knowing(MetricBreakdown(q)) /\ Knowing(VarianceExplain(q))
    BY <1>1, <1>5, MetricValueKnows, MetricComparisonKnows, MetricTrendKnows, MetricBreakdownKnows, VarianceExplainKnows
  <2> QED
    BY <1>1, <1>3, <2>1 DEF Handler, Intents
<1> QED
  BY <1>2, <1>4, <1>5

(* What a compile has read, and what is shown of it.                       *)

\* Gate 7 caps what a compiler emits without a LIMIT of its own; the compiler
\* emits none.
NoLimitOfItsOwn == \A x \in DOMAIN Defects : Defects[x][1].limit # "own"

\* A read the cap has not cut short.
Whole(rows) == NoLimitOfItsOwn => Cardinality({ r.class : r \in rows }) < RowCap
WholeNumber(n) == n.metric \in Known /\ Leaf(n.metric) => Whole(n.rows)
WholeCell(c) == c.status = "ok" => WholeNumber(c)

\* What a visit has read so far.
Fit(read) == DOMAIN read = {"version", "rows", "loads"} /\ Whole(read.rows)

Statuses == {"none", "ok", "refused", "rejected", "blocked", "unavailable", "error", "crash"}

ReadInv ==
  /\ governs \in [1 .. NumMonths + 1 -> Versions \cup {0}]
  /\ moves \in 0 .. MaxMoves
  /\ pc \in {"idle", "model", "done"} \cup Working
  /\ ir \in Questions \cup {NoIr}
  /\ pc \in Working => Knowing(agenda)
  /\ DOMAIN got \subseteq Visits
  /\ pc \in {"amounts", "runs"} => reading \in DOMAIN got /\ Leaf(reading[1])
  /\ pc \notin {"amounts", "runs"} => reading = <<>>
  /\ \A p \in DOMAIN got : Fit(got[p])
  /\ cells \in Seq(ToSet(cells)) /\ \A i \in 1 .. Len(cells) : WholeCell(cells[i])
  /\ \A n \in response.numbers : WholeNumber(n)
  /\ response.status \in Statuses

LEMMA NoReadsIs == DOMAIN NoReads = {}
BY DEF NoReads

LEMMA ReadInitially == AskInit => ReadInv
<1> SUFFICES ASSUME AskInit PROVE ReadInv
  OBVIOUS
<1>1. governs \in [1 .. NumMonths + 1 -> Versions \cup {0}]
  BY WorldsAreStates DEF AskInit, Versions
<1>2. moves \in 0 .. MaxMoves
  BY SizesAssumption DEF AskInit
<1>3. /\ pc = "idle" /\ cells = <<>> /\ reading = <<>> /\ ir = NoIr /\ DOMAIN got = {}
      /\ response.numbers = {} /\ response.status = "none"
  BY NoReadsIs DEF AskInit, NoResponse
<1>4. cells \in Seq(ToSet(cells)) /\ Len(cells) = 0
  BY <1>3
<1> QED
  BY <1>1, <1>2, <1>3, <1>4 DEF ReadInv, Working, Statuses

\* An answer of numbers that are whole.
LEMMA ReadResponding ==
  ASSUME ReadInv, NEW result \in Statuses, NEW numbers, NEW citation, NEW why,
         Respond(result, numbers, citation, why),
         \A n \in numbers : WholeNumber(n)
  PROVE  ReadInv'
<1>1. /\ pc' = "done" /\ cells' = <<>> /\ reading' = <<>> /\ DOMAIN got' = {} /\ ir' = ir /\ governs' = governs /\ moves' = moves
      /\ response' = [status |-> result, numbers |-> numbers, citation |-> citation, why |-> why]
  BY NoReadsIs DEF Respond, world
<1>2. response'.status = result /\ response'.numbers = numbers
  BY <1>1
<1>3. cells' \in Seq(ToSet(cells')) /\ Len(cells') = 0
  BY <1>1
<1> QED
  BY <1>1, <1>2, <1>3 DEF ReadInv, Working

LEMMA ReadRespondingWith ==
  ASSUME ReadInv, NEW result \in Statuses, NEW why, RespondWith(result, why)
  PROVE  ReadInv'
<1>1. Respond(result, {}, NoCitation, why)
  BY DEF RespondWith
<1> QED
  BY <1>1, ReadResponding

\* What is left of an agenda compiles no other metric.
LEMMA KnowingRest ==
  ASSUME NEW a, Knowing(a), a # <<>>, NEW n \in {1, 2}, n <= Len(a)
  PROVE  Knowing(SubSeq(a, n + 1, Len(a)))
<1>1. a \in Seq(ToSet(a)) /\ Len(a) \in Nat /\ n + 1 \in Nat /\ 1 =< n + 1 /\ n + 1 =< Len(a) + 1
  BY DEF Knowing
<1> DEFINE b == SubSeq(a, n + 1, Len(a))
<1>2. /\ b \in Seq(ToSet(a)) /\ Len(b) = Len(a) + 1 - (n + 1)
      /\ \A i \in 1 .. Len(a) + 1 - (n + 1) : b[i] = a[i + (n + 1) - 1]
  BY <1>1, Rest
<1> HIDE DEF b
<1>3. ASSUME NEW i \in 1 .. Len(b) PROVE KnownStep(b[i])
  <2>1. b[i] = a[i + (n + 1) - 1] /\ i + (n + 1) - 1 \in 1 .. Len(a)
    BY <1>1, <1>2
  <2> QED
    BY <2>1 DEF Knowing
<1>4. b \in Seq(ToSet(b))
  BY <1>2, OwnSequence
<1>5. Knowing(b)
  BY <1>3, <1>4 DEF Knowing
<1> QED
  BY <1>5 DEF b

LEMMA ReadGoingOn ==
  ASSUME ReadInv, pc = "agenda", agenda # <<>>, NEW n \in {1, 2}, n <= Len(agenda), NEW results, Onward(n, results),
         results \in Seq(ToSet(results)), \A i \in 1 .. Len(results) : WholeCell(results[i])
  PROVE  ReadInv'
<1>1. /\ pc' = "agenda" /\ governs' = governs /\ moves' = moves /\ response' = response /\ ir' = ir /\ reading' = reading /\ got' = got
      /\ cells' = cells \o results /\ agenda' = SubSeq(agenda, n + 1, Len(agenda))
  BY DEF Onward, world
<1>2. /\ cells' \in Seq(ToSet(cells')) /\ Len(cells) \in Nat /\ Len(results) \in Nat
      /\ Len(cells') = Len(cells) + Len(results)
      /\ \A i \in 1 .. Len(cells) : cells'[i] = cells[i]
      /\ \A i \in 1 .. Len(results) : cells'[i + Len(cells)] = results[i]
  BY <1>1, Joined DEF ReadInv
<1>3. ASSUME NEW i \in 1 .. Len(cells') PROVE WholeCell(cells'[i])
  <2>1. CASE i \in 1 .. Len(cells)
    BY <1>2, <2>1 DEF ReadInv
  <2>2. CASE i \notin 1 .. Len(cells)
    <3>1. i - Len(cells) \in 1 .. Len(results) /\ i = (i - Len(cells)) + Len(cells)
      BY <1>2, <2>2
    <3>2. cells'[i] = results[i - Len(cells)]
      BY <1>2, <3>1
    <3> QED
      BY <3>1, <3>2
  <2> QED
    BY <2>1, <2>2
<1>4. Knowing(agenda')
  BY <1>1, KnowingRest DEF ReadInv, Working
<1>5. pc' \notin {"amounts", "runs"} /\ pc \notin {"amounts", "runs"}
  BY <1>1
<1> QED
  BY <1>1, <1>2, <1>3, <1>4, <1>5 DEF ReadInv

\* The step under way is in the agenda.
LEMMA Longer ==
  ASSUME ReadInv, pc \in Working, agenda # <<>>
  PROVE  Len(agenda) \in Nat /\ 1 <= Len(agenda) /\ Here = agenda[1] /\ KnownStep(Here)
<1>1. agenda \in Seq(ToSet(agenda)) /\ Len(agenda) >= 1 /\ Len(agenda) \in Nat
  BY DEF ReadInv, Knowing
<1>2. Here = agenda[1] /\ 1 \in 1 .. Len(agenda)
  BY <1>1 DEF Here
<1> QED
  BY <1>1, <1>2 DEF ReadInv, Knowing

LEMMA ReadPast ==
  ASSUME ReadInv, NEW what, Doing(what), NEW results, Onward(1, results),
         results \in Seq(ToSet(results)), \A i \in 1 .. Len(results) : WholeCell(results[i])
  PROVE  ReadInv'
<1>1. pc = "agenda" /\ agenda # <<>>
  BY DEF Doing
<1>2. 1 <= Len(agenda)
  BY <1>1, Longer DEF Working
<1> QED
  BY <1>1, <1>2, ReadGoingOn

-----------------------------------------------------------------------------
(* The steps of a request keep it.                                         *)

LEMMA ReadsOnSubmit ==
  ASSUME ReadInv, NEW q \in Questions, Submit(q)
  PROVE  ReadInv'
BY DEF ReadInv, Submit, world, Working

LEMMA ReadsOnTurnAway ==
  ASSUME ReadInv, TurnAway
  PROVE  ReadInv'
BY ReadRespondingWith DEF TurnAway, Statuses

LEMMA ReadsOnAccept ==
  ASSUME AskInv, ReadInv, Accept
  PROVE  ReadInv'
<1>1. ir \in Questions /\ ir.made = "ir" /\ ValidIr(ir)
  BY DEF Accept, AskInv
<1>2. Knowing(Handler(ir))
  BY <1>1, HandlersKnow
<1>3. /\ pc' = "agenda" /\ agenda' = Handler(ir) /\ governs' = governs /\ moves' = moves /\ ir' = ir
      /\ reading' = reading /\ got' = got /\ cells' = cells /\ response' = response /\ pc = "model"
  BY DEF Accept, world
<1> QED
  BY <1>2, <1>3 DEF ReadInv, Working

LEMMA ReadsOnPassGate ==
  ASSUME ReadInv, PassGate
  PROVE  ReadInv'
BY NoResult, ReadPast DEF PassGate

LEMMA ReadsOnRefuseMonth ==
  ASSUME AskInv, ReadInv, RefuseMonth
  PROVE  ReadInv'
<1>1. pc = "agenda" /\ agenda # <<>> /\ Here.do = "gate"
  BY DEF RefuseMonth, Doing, Here
<1>2. CASE Here.refuses
  <2>1. PICK citation : Respond("refused", {}, citation, "period")
    BY <1>2 DEF RefuseMonth
  <2> QED
    BY <2>1, ReadResponding DEF Statuses
<1>3. CASE ~Here.refuses
  <2> DEFINE c == Cell(agenda[2].metric, Here.month, [Unresolvable EXCEPT !.status = "refused"])
  <2>1. Onward(2, <<c>>)
    BY <1>3 DEF RefuseMonth
  <2>2. c.status # "ok"
    BY DEF Cell, Unresolvable
  <2> HIDE DEF c
  <2>3. Gated(agenda, status) /\ Here = agenda[1]
    BY <1>1, Heads DEF Working
  <2>4. 2 <= Len(agenda)
    <3>1. Len(agenda) \in Nat /\ 1 <= Len(agenda)
      BY <1>1, Longer DEF Working
    <3>2. SkipsACompile(agenda, 1)
      BY <2>3, <3>1 DEF Gated
    <3> QED
      BY <1>1, <1>3, <2>3, <3>1, <3>2 DEF SkipsACompile
  <2>5. <<c>> \in Seq(ToSet(<<c>>)) /\ \A i \in 1 .. Len(<<c>>) : WholeCell(<<c>>[i])
    BY <2>2, OneResult DEF WholeCell
  <2> QED
    BY <1>1, <2>1, <2>4, <2>5, ReadGoingOn
<1> QED
  BY <1>2, <1>3

\* A month that may be read is one of the calendar.
LEMMA ReadyIsMonth ==
  ASSUME NEW st, NEW m, Ready(st, m)
  PROVE  m \in Months
BY DEF Ready

LEMMA ReadsOnCompileStart ==
  ASSUME ReadInv, CompileStart
  PROVE  ReadInv'
<1>1. /\ pc = "agenda" /\ pc' = "compile" /\ DOMAIN got' = {} /\ reading' = reading
      /\ governs' = governs /\ moves' = moves /\ agenda' = agenda
      /\ cells' = cells /\ response' = response /\ ir' = ir
  BY NoReadsIs DEF CompileStart, Doing, world
<1> QED
  BY <1>1 DEF ReadInv, Working

LEMMA WholeNothing == Whole({})
<1>1. { r.class : r \in {} } = {} /\ Cardinality({}) = 0
  BY FS_EmptySet
<1> QED
  BY <1>1, SizesAssumption DEF Whole

\* A result of fewer rows than the cap is whole.
LEMMA UncutIsWhole ==
  ASSUME NEW x, NEW m, NEW v, NEW rows, rows = Scan(x, m, v),
         ~Cut(LeafStatements(x)[1], Cardinality({ r.class : r \in rows }))
  PROVE  Whole(rows)
<1> SUFFICES ASSUME NoLimitOfItsOwn PROVE Cardinality({ r.class : r \in rows }) < RowCap
  BY DEF Whole
<1> DEFINE C == { r.class : r \in rows }
<1>1. LeafStatements(x)[1].limit # "own"
  <2>1. CASE x \in DOMAIN Defects
    BY <2>1 DEF LeafStatements, NoLimitOfItsOwn
  <2>2. CASE x \notin DOMAIN Defects
    <3> DEFINE scan == Statement({"fact_gl_entry", "dim_account", "map_account"})
    <3>1. scan.limit = "none"
      BY DEF Statement
    <3>2. LeafStatements(x)[1] = scan
      BY <2>2 DEF LeafStatements
    <3> QED
      BY <3>1, <3>2
  <2> QED
    BY <2>1, <2>2
<1>2. IsFiniteSet(C)
  <2> DEFINE f == [a \in Accounts |-> ClassOf[v][a]]
             D == { f[a] : a \in Accounts }
  <2>1. f \in Surjection(Accounts, D)
    BY DEF Surjection
  <2>2. IsFiniteSet(D)
    <3> HIDE DEF f, D
    <3> QED
      BY <2>1, SizesAssumption, FS_Surjection
  <2>3. ASSUME NEW r \in rows PROVE r.class \in D
    <3>1. PICK k \in Accounts \X Months : r.class = ClassOf[v][k[1]]
      BY <2>3 DEF Scan
    <3>2. k[1] \in Accounts
      OBVIOUS
    <3> QED
      BY <3>1, <3>2
  <2> HIDE DEF D
  <2>4. C \subseteq D
    BY <2>3
  <2> HIDE DEF C
  <2> QED
    BY <2>2, <2>4, FS_Subset
<1> HIDE DEF C
<1>3. Cardinality(C) \in Nat
  BY <1>2, FS_CardinalityType
<1>4. ~Truncated(Cardinality(C))
  BY <1>1 DEF Cut, C
<1>5. Cardinality(C) < RowCap
  BY <1>3, <1>4, SizesAssumption DEF Truncated
<1> QED
  BY <1>5 DEF C

\* What a compile under way waits for has not been read.
LEMMA WaitsForMore ==
  ASSUME AskInv, ReadInv, pc = "compile", Underway.status = "pending"
  PROVE  Underway.next \in Visits \ DOMAIN got
<1>1. Here.metric \in Known /\ Here.month \in Months
  <2>1. agenda # <<>> /\ Here.do = "compile" /\ Ready(status, Here.month)
    BY DEF AskInv, Midway, Compiling
  <2>2. Here.metric \in Known
    BY <2>1, Longer DEF Working, KnownStep
  <2> QED
    BY <2>1, <2>2, ReadyIsMonth
<1> QED
  BY <1>1, CompiledWaits DEF Underway

LEMMA ReadsOnLookUp ==
  ASSUME AskInv, ReadInv, pc = "compile", LookUp(Underway)
  PROVE  ReadInv'
<1> DEFINE next == Underway.next
           read == [version |-> governs[next[2]], rows |-> {}, loads |-> {}]
<1>1. next \in Visits
  BY WaitsForMore DEF LookUp
<1>2. /\ got' = [k \in DOMAIN got \cup {next} |-> IF k = next THEN read ELSE got[k]]
      /\ \/ pc' = "amounts" /\ reading' = next /\ Leaf(next[1])
         \/ pc' = pc /\ reading' = reading
  BY DEF LookUp, Sends
<1>3. Fit(read)
  BY WholeNothing DEF Fit
<1>4. /\ governs' = governs /\ moves' = moves /\ agenda' = agenda /\ ir' = ir
      /\ cells' = cells /\ response' = response
  BY DEF LookUp, world
<1> HIDE DEF next, read
<1>5. /\ DOMAIN got' \subseteq Visits /\ next \in DOMAIN got'
      /\ \A p \in DOMAIN got' : Fit(got'[p])
  BY <1>1, <1>2, <1>3 DEF ReadInv
<1> QED
  BY <1>2, <1>4, <1>5 DEF ReadInv, Working

LEMMA ReadsOnRejectLeaf ==
  ASSUME ReadInv, RejectLeaf
  PROVE  ReadInv'
BY ReadRespondingWith DEF RejectLeaf, Statuses

\* One field of one read takes another value.
LEMMA OneRead ==
  ASSUME ReadInv, reading \in DOMAIN got, NEW rows, Whole(rows)
  PROVE  LET h == [got EXCEPT ![reading].rows = rows]
         IN  DOMAIN h = DOMAIN got /\ \A p \in DOMAIN h : Fit(h[p])
<1> DEFINE h == [got EXCEPT ![reading].rows = rows]
<1>1. DOMAIN h = DOMAIN got
  OBVIOUS
<1>2. ASSUME NEW p \in DOMAIN got PROVE Fit(h[p])
  <2>1. CASE p = reading
    <3>1. h[p] = [got[p] EXCEPT !.rows = rows] /\ DOMAIN got[p] = {"version", "rows", "loads"}
      BY <2>1 DEF ReadInv, Fit
    <3>2. DOMAIN h[p] = DOMAIN got[p] /\ h[p].rows = rows
      BY <3>1
    <3> HIDE DEF h
    <3> QED
      BY <3>1, <3>2 DEF Fit
  <2>2. CASE p # reading
    BY <2>2 DEF ReadInv
  <2> QED
    BY <2>1, <2>2
<1> QED
  BY <1>1, <1>2

LEMMA ReadsOnReadAmounts ==
  ASSUME ReadInv, ReadAmounts
  PROVE  ReadInv'
<1> DEFINE rows == Scan(reading[1], reading[2], ClassedBy(reading))
<1>1. pc = "amounts" /\ reading \in DOMAIN got
  BY DEF ReadAmounts, ReadInv
<1>2. CASE Respond("error", {}, NoCitation, "row_cap")
  BY <1>2, ReadResponding DEF Statuses
<1>3. CASE /\ ~Cut(LeafStatements(reading[1])[1], Cardinality({ r.class : r \in rows }))
           /\ got' = [got EXCEPT ![reading].rows = rows]
           /\ pc' = "runs" /\ UNCHANGED <<world, ir, agenda, reading, cells, response>>
  <2>1. /\ governs' = governs /\ moves' = moves /\ agenda' = agenda /\ ir' = ir /\ reading' = reading
        /\ cells' = cells /\ response' = response
    BY <1>3 DEF world
  <2>2. Whole(rows)
    <3> DEFINE all == rows
    <3>1. all = Scan(reading[1], reading[2], ClassedBy(reading))
      OBVIOUS
    <3>2. ~Cut(LeafStatements(reading[1])[1], Cardinality({ r.class : r \in all }))
      BY <1>3
    <3> HIDE DEF all
    <3>3. Whole(all)
      BY <3>1, <3>2, UncutIsWhole
    <3> QED
      BY <3>3 DEF all
  <2>3. got' = [got EXCEPT ![reading].rows = rows]
    BY <1>3
  <2> HIDE DEF rows
  <2>4. DOMAIN got' = DOMAIN got /\ \A p \in DOMAIN got' : Fit(got'[p])
    BY <1>1, <2>2, <2>3, OneRead
  <2> QED
    BY <1>1, <1>3, <2>1, <2>4 DEF ReadInv, Working
<1> QED
  BY <1>2, <1>3 DEF ReadAmounts

LEMMA ReadsOnReadLoadRuns ==
  ASSUME ReadInv, ReadLoadRuns
  PROVE  ReadInv'
<1>1. pc = "runs" /\ reading \in DOMAIN got
  BY DEF ReadLoadRuns, ReadInv
<1>2. CASE Respond("error", {}, NoCitation, "row_cap")
  BY <1>2, ReadResponding DEF Statuses
<1>3. CASE \E loads : /\ got' = [got EXCEPT ![reading].loads = loads]
                      /\ pc' = "compile" /\ reading' = <<>> /\ UNCHANGED <<world, ir, agenda, cells, response>>
  <2>1. PICK loads : got' = [got EXCEPT ![reading].loads = loads]
    BY <1>3
  <2>2. /\ governs' = governs /\ moves' = moves /\ agenda' = agenda /\ ir' = ir /\ reading' = <<>>
        /\ cells' = cells /\ response' = response /\ pc' = "compile"
    BY <1>3 DEF world
  <2>3. DOMAIN got' = DOMAIN got
    BY <2>1
  <2>4. ASSUME NEW p \in DOMAIN got PROVE Fit(got'[p])
    <3>1. DOMAIN got'[p] = DOMAIN got[p] /\ got'[p].rows = got[p].rows
      BY <2>1
    <3> QED
      BY <3>1 DEF ReadInv, Fit
  <2> QED
    BY <1>1, <2>2, <2>3, <2>4 DEF ReadInv, Working
<1> QED
  BY <1>2, <1>3 DEF ReadLoadRuns

\* The cell of a leaf holds the rows of its reads.
LEMMA CompiledIsWhole ==
  ASSUME NEW x \in Known, NEW m \in Months, NEW g, \A p \in DOMAIN g : Whole(g[p].rows)
  PROVE  WholeCell(Cell(x, m, Compiled(x, m, g)))
<1> DEFINE r == Compiled(x, m, g)
           c == Cell(x, m, r)
<1>1. c.metric = x /\ c.status = r.status /\ c.rows = r.rows
  BY DEF Cell
<1>2. r.status = "ok" /\ Leaf(x) => Whole(r.rows)
  BY LeafCompiles
<1> HIDE DEF r, c
<1>3. WholeCell(c)
  BY <1>1, <1>2 DEF WholeCell, WholeNumber
<1> QED
  BY <1>3 DEF c, r

\* A result more.
LEMMA OneMore ==
  ASSUME NEW s, s \in Seq(ToSet(s)), \A i \in 1 .. Len(s) : WholeCell(s[i]), NEW c, WholeCell(c)
  PROVE  Append(s, c) \in Seq(ToSet(Append(s, c))) /\ \A i \in 1 .. Len(Append(s, c)) : WholeCell(Append(s, c)[i])
<1> DEFINE S == ToSet(s) \cup {c}
           t == Append(s, c)
<1>1. s \in Seq(S) /\ c \in S /\ Len(s) \in Nat
  <2>1. \A i \in 1 .. Len(s) : s[i] \in S
    BY DEF ToSet
  <2>2. c \in S
    OBVIOUS
  <2> HIDE DEF S
  <2> QED
    BY <2>1, <2>2
<1> HIDE DEF S
<1>2. /\ t \in Seq(S) /\ Len(t) = Len(s) + 1 /\ t[Len(s) + 1] = c
      /\ \A i \in 1 .. Len(s) : t[i] = s[i]
  BY <1>1
<1> HIDE DEF t
<1>3. t \in Seq(ToSet(t))
  BY <1>2, OwnSequence
<1>4. \A i \in 1 .. Len(t) : WholeCell(t[i])
  BY <1>1, <1>2
<1> QED
  BY <1>3, <1>4 DEF t

LEMMA ReadsOnCompileEnd ==
  ASSUME AskInv, ReadInv, pc = "compile", CompileEnd(Underway)
  PROVE  ReadInv'
<1> DEFINE c == Cell(Here.metric, Here.month, Underway)
<1>1. /\ pc' = "agenda" /\ agenda' = Tail(agenda) /\ cells' = Append(cells, c) /\ DOMAIN got' = {}
      /\ governs' = governs /\ moves' = moves /\ ir' = ir /\ reading' = reading /\ response' = response
  BY NoReadsIs DEF CompileEnd, world
<1>2. Compiling /\ agenda # <<>>
  BY DEF AskInv, Midway, Compiling
<1>3. WholeCell(c)
  <2>1. Here.month \in Months
    BY <1>2, ReadyIsMonth DEF Compiling
  <2>2. Here.metric \in Known
    BY <1>2, Longer DEF Compiling, Working, KnownStep
  <2>3. \A p \in DOMAIN got : Whole(got[p].rows)
    BY DEF ReadInv, Fit
  <2> QED
    BY <2>1, <2>2, <2>3, CompiledIsWhole DEF Underway
<1> HIDE DEF c
<1>4. cells' \in Seq(ToSet(cells')) /\ \A i \in 1 .. Len(cells') : WholeCell(cells'[i])
  BY <1>1, <1>3, OneMore DEF ReadInv
<1>5. Knowing(agenda')
  <2>1. Knowing(agenda) /\ agenda \in Seq(ToSet(agenda)) /\ Len(agenda) \in Nat /\ 1 <= Len(agenda)
    BY <1>2, Longer DEF ReadInv, Working, Knowing
  <2>2. Tail(agenda) = SubSeq(agenda, 1 + 1, Len(agenda))
    BY <2>1
  <2> QED
    BY <1>1, <1>2, <2>1, <2>2, KnowingRest
<1> QED
  BY <1>1, <1>4, <1>5 DEF ReadInv, Working

LEMMA ReadsOnContinue ==
  ASSUME AskInv, ReadInv, Continue
  PROVE  ReadInv'
<1>1. pc = "compile" /\ (LookUp(Underway) \/ CompileEnd(Underway))
  BY DEF Continue
<1> QED
  BY <1>1, ReadsOnLookUp, ReadsOnCompileEnd

LEMMA ReadsOnCheck ==
  ASSUME ReadInv, Check
  PROVE  ReadInv'
<1>1. CASE Onward(1, <<>>)
  BY <1>1, NoResult, ReadPast DEF Check
<1>2. CASE RespondWith(Undelivered(cells[Min(Failed)]), "decision")
  <2>1. Undelivered(cells[Min(Failed)]) \in Statuses
    BY DEF Undelivered, Statuses
  <2> QED
    BY <1>2, <2>1, ReadRespondingWith
<1> QED
  BY <1>1, <1>2 DEF Check

LEMMA ReadsOnGiveUp ==
  ASSUME ReadInv, GiveUp
  PROVE  ReadInv'
<1>1. PICK what \in {"unavailable", "error", "crash"} : RespondWith(what, "handler")
  BY DEF GiveUp
<1>2. what \in Statuses
  BY DEF Statuses
<1> QED
  BY <1>1, <1>2, ReadRespondingWith

LEMMA ReadsOnReadHealth ==
  ASSUME ReadInv, ReadHealth
  PROVE  ReadInv'
BY NoResult, ReadPast DEF ReadHealth

LEMMA ReadsOnReadUnmapped ==
  ASSUME ReadInv, ReadUnmapped
  PROVE  ReadInv'
<1>1. CASE RespondWith("unavailable", "no_mapping")
  BY <1>1, ReadRespondingWith DEF Statuses
<1>2. CASE Onward(1, <<>>)
  BY <1>2, NoResult, ReadPast DEF ReadUnmapped
<1> QED
  BY <1>1, <1>2 DEF ReadUnmapped

LEMMA ReadsOnAssembleStatement ==
  ASSUME ReadInv, AssembleStatement
  PROVE  ReadInv'
<1> DEFINE c == Cell("statement", Here.month, [Unresolvable EXCEPT !.status = "ok"])
<1>1. CASE RespondWith("unavailable", "no_mapping")
  BY <1>1, ReadRespondingWith DEF Statuses
<1>2. CASE Onward(1, <<c>>)
  <2>1. c.metric = "statement"
    BY DEF Cell
  <2> HIDE DEF c
  <2>2. WholeCell(c)
    BY <2>1, MetricNames DEF WholeCell, WholeNumber
  <2>3. <<c>> \in Seq(ToSet(<<c>>)) /\ \A i \in 1 .. Len(<<c>>) : WholeCell(<<c>>[i])
    BY <2>2, OneResult
  <2> QED
    BY <1>2, <2>3, ReadPast DEF AssembleStatement
<1> QED
  BY <1>1, <1>2 DEF AssembleStatement

LEMMA ReadsOnAnswer ==
  ASSUME ReadInv, Answer
  PROVE  ReadInv'
<1>1. \A n \in Shown : WholeNumber(n)
  <2> SUFFICES ASSUME NEW i \in DOMAIN cells, cells[i].status = "ok"
               PROVE  WholeNumber([metric |-> cells[i].metric, month |-> cells[i].month,
                                   value |-> cells[i].value, rows |-> cells[i].rows])
    BY DEF Shown
  <2>1. i \in 1 .. Len(cells)
    BY DEF ReadInv
  <2>2. WholeNumber(cells[i])
    BY <2>1 DEF ReadInv, WholeCell
  <2> QED
    BY <2>2 DEF WholeNumber
<1>2. CASE AnswerTrend
  <2>1. \E result \in Statuses : Respond(result, Shown, NoCitation, "series") \/ Respond(result, {}, NoCitation, "series")
    BY <1>2 DEF AnswerTrend, Statuses
  <2> QED
    BY <1>1, <2>1, ReadResponding
<1>3. CASE AnswerCited
  <2>1. \E citation, why : Respond("ok", Shown, citation, why) \/ Respond("unavailable", {}, citation, why)
    BY <1>3 DEF AnswerCited
  <2> QED
    BY <1>1, <2>1, ReadResponding DEF Statuses
<1>4. CASE \E why \in {"bridge", "incomplete", "stated"} : Respond("ok", Shown, NoCitation, why)
  <2>1. PICK why \in {"bridge", "incomplete", "stated"} : Respond("ok", Shown, NoCitation, why)
    BY <1>4
  <2> QED
    BY <1>1, <2>1, ReadResponding DEF Statuses
<1> QED
  BY <1>2, <1>3, <1>4 DEF Answer

LEMMA ReadsOnRun ==
  ASSUME AskInv, ReadInv, Run
  PROVE  ReadInv'
BY ReadsOnTurnAway, ReadsOnAccept, ReadsOnPassGate, ReadsOnRefuseMonth, ReadsOnCompileStart,
   ReadsOnContinue, ReadsOnRejectLeaf, ReadsOnReadAmounts, ReadsOnReadLoadRuns, ReadsOnCheck, ReadsOnGiveUp, ReadsOnReadHealth, ReadsOnReadUnmapped,
   ReadsOnAssembleStatement, ReadsOnAnswer
   DEF Run

LEMMA ReadsOnOthers ==
  ASSUME ReadInv, Others
  PROVE  ReadInv'
<1>1. /\ pc' = pc /\ ir' = ir /\ agenda' = agenda /\ reading' = reading /\ got' = got
      /\ cells' = cells /\ response' = response
  BY DEF Others, request
<1>3. governs' \in [1 .. NumMonths + 1 -> Versions \cup {0}]
  <2>1. CASE UNCHANGED governs
    BY <2>1 DEF ReadInv
  <2>2. CASE Freeze
    <3>1. PICK v \in Versions, m \in Months : governs' = [k \in DOMAIN governs |-> IF k >= m THEN v ELSE governs[k]]
      BY <2>2 DEF Freeze
    <3> QED
      BY <3>1 DEF ReadInv
  <2> QED
    BY <2>1, <2>2 DEF Others, Load, Advance
<1>4. moves' \in 0 .. MaxMoves
  BY SizesAssumption DEF Others, ReadInv
<1> QED
  BY <1>1, <1>3, <1>4 DEF ReadInv

LEMMA ReadStep == AskInv /\ ReadInv /\ [AskNext]_askVars => ReadInv'
<1> SUFFICES ASSUME AskInv, ReadInv, [AskNext]_askVars PROVE ReadInv'
  OBVIOUS
<1>1. CASE UNCHANGED askVars
  <2>1. /\ pc' = pc /\ ir' = ir /\ agenda' = agenda /\ reading' = reading /\ got' = got
        /\ governs' = governs /\ moves' = moves /\ cells' = cells /\ response' = response
    BY <1>1 DEF askVars, world, request
  <2> QED
    BY <2>1 DEF ReadInv
<1>2. CASE AskNext
  BY <1>2, ReadsOnSubmit, ReadsOnRun, ReadsOnOthers DEF AskNext
<1> QED
  BY <1>1, <1>2

\* With AskInv it is inductive.
THEOREM ReadInvHolds == AskSpec => []ReadInv
BY ReadInitially, ReadStep, AskInvHolds, PTL DEF AskSpec

\* The variables range over what they stand for: what is read is a leaf and a
\* month, and a question has one of the endings there are (AskResponse).
THEOREM AskTypes == AskSpec => []AskTypeOK
<1>1. AskInv /\ ReadInv => AskTypeOK
  BY DEF AskInv, ReadInv, AskTypeOK, Working, Statuses, Visits
<1> QED
  BY <1>1, AskInvHolds, ReadInvHolds, PTL

\* As long as the compiler emits no LIMIT of its own, no number is of a read
\* the cap may have cut short (gate_7_row_cap, RowCapTruncated).
THEOREM NoNumberFromACut == AskSpec => [](NoLimitOfItsOwn => NoNumberFromACutRead)
<1>1. ReadInv => (NoLimitOfItsOwn => NoNumberFromACutRead)
  BY DEF ReadInv, WholeNumber, Whole, NoNumberFromACutRead
<1> QED
  BY <1>1, ReadInvHolds, PTL

\* A compile keeps to the version it looked up for a metric and month, however
\* many freezes commit before it ends: no visit is made twice
\* (_compile_metric_cached).
THEOREM OneVersionPerVisit ==
  AskSpec => [][\A p \in DOMAIN got \cap DOMAIN got' : got'[p].version = got[p].version]_askVars
<1> DEFINE Kept == \A p \in DOMAIN got \cap DOMAIN got' : got'[p].version = got[p].version
<1>1. AskInv /\ ReadInv /\ [AskNext]_askVars => [Kept]_askVars
  <2> SUFFICES ASSUME AskInv, ReadInv, AskNext, NEW p \in DOMAIN got, p \in DOMAIN got'
               PROVE  got'[p].version = got[p].version
    OBVIOUS
  <2>1. CASE Continue
    <3>1. CASE LookUp(Underway)
      <4>1. p # Underway.next
        BY <2>1, <3>1, WaitsForMore DEF Continue, LookUp
      <4> QED
        BY <3>1, <4>1 DEF LookUp
    <3>2. CASE CompileEnd(Underway)
      BY <3>2, NoReadsIs DEF CompileEnd
    <3> QED
      BY <2>1, <3>1, <3>2 DEF Continue
  <2>2. CASE ReadAmounts
    <3>1. CASE \E rows : got' = [got EXCEPT ![reading].rows = rows]
      BY <3>1
    <3>2. CASE got' = NoReads
      BY <3>2, NoReadsIs
    <3> QED
      BY <2>2, <3>1, <3>2 DEF ReadAmounts, Respond
  <2>3. CASE ReadLoadRuns
    <3>1. CASE \E loads : got' = [got EXCEPT ![reading].loads = loads]
      BY <3>1
    <3>2. CASE got' = NoReads
      BY <3>2, NoReadsIs
    <3> QED
      BY <2>3, <3>1, <3>2 DEF ReadLoadRuns, Respond
  <2>4. CASE UNCHANGED got \/ got' = NoReads
    BY <2>4, NoReadsIs
  <2>5. \/ Continue \/ ReadAmounts \/ ReadLoadRuns \/ UNCHANGED got \/ got' = NoReads
    <3>1. CASE \E q \in Questions : Submit(q)
      BY <3>1 DEF Submit
    <3>2. CASE Others
      BY <3>2 DEF Others, request
    <3>3. CASE Run
      BY <3>3 DEF Run, TurnAway, Accept, PassGate, RefuseMonth, CompileStart, RejectLeaf, Check, GiveUp, ReadHealth,
                  ReadUnmapped, AssembleStatement, Answer, AnswerTrend, AnswerCited, RespondWith, Respond, Onward
    <3> QED
      BY <3>1, <3>2, <3>3 DEF AskNext
  <2> QED
    BY <2>1, <2>2, <2>3, <2>4, <2>5
<1> QED
  BY <1>1, AskInvHolds, ReadInvHolds, PTL DEF AskSpec

-----------------------------------------------------------------------------
(* A question whose answer is cited has a result when its agenda is over.  *)

\* A step that leaves a result or ends the question.
Ending(step) == step.do \in {"compile", "unavailable", "error", "crash"}
Owing(a) == \E i \in 1 .. Len(a) : Ending(a[i])

OweInv == pc \in Working /\ ir.intent \in CitedIntents => Len(cells) >= 1 \/ Owing(agenda)

LEMMA OwingOne ==
  ASSUME NEW what, Ending(Step(what))
  PROVE  Owing(<<Step(what)>>) /\ \A s : Owing(<<s, Step(what)>>)
<1> DEFINE e == Step(what)
<1> HIDE DEF e
<1>1. Ending(e)
  BY DEF e
<1>2. Len(<<e>>) = 1 /\ <<e>>[1] = e /\ \A s : Len(<<s, e>>) = 2 /\ <<s, e>>[2] = e
  OBVIOUS
<1>3. Owing(<<e>>) /\ \A s : Owing(<<s, e>>)
  BY <1>1, <1>2 DEF Owing
<1> QED
  BY <1>3 DEF e

LEMMA EndingSteps ==
  /\ \A what \in {"unavailable", "error", "crash"} : Ending(Step(what))
  /\ \A x, m : Ending(Compile(x, m))
BY DEF Ending, Step, Compile

LEMMA OwingJoined ==
  ASSUME NEW b, NEW c, Knowing(b), Knowing(c), Owing(b)
  PROVE  Owing(b \o c)
<1>1. /\ Len(b) \in Nat /\ Len(c) \in Nat /\ Len(b \o c) = Len(b) + Len(c)
      /\ \A i \in 1 .. Len(b) : (b \o c)[i] = b[i]
  BY Joined DEF Knowing
<1>2. PICK i \in 1 .. Len(b) : Ending(b[i])
  BY DEF Owing
<1>3. i \in 1 .. Len(b \o c) /\ (b \o c)[i] = b[i]
  BY <1>1
<1> QED
  BY <1>2, <1>3 DEF Owing

LEMMA MetricValueOwes ==
  ASSUME NEW q
  PROVE  Owing(MetricValue(q)) /\ Owing(MetricBreakdown(q))
<1>1. Owing(MetricValue(q))
  <2>1. CASE q.period.type # "month"
    BY <2>1, OwingOne, EndingSteps DEF MetricValue
  <2>2. CASE q.period.type = "month"
    <3> DEFINE g == Gate(q.period.from, TRUE)
               c == Compile(q.metric, q.period.from)
               e == Step("check")
    <3>1. Ending(c)
      BY EndingSteps
    <3>2. MetricValue(q) = <<g, c, e>>
      BY <2>2 DEF MetricValue
    <3> HIDE DEF g, c, e
    <3>3. Len(<<g, c, e>>) = 3 /\ <<g, c, e>>[2] = c
      OBVIOUS
    <3> QED
      BY <3>1, <3>2, <3>3 DEF Owing
  <2> QED
    BY <2>1, <2>2
<1>2. Owing(MetricBreakdown(q))
  BY <1>1, OwingOne, EndingSteps DEF MetricBreakdown
<1> QED
  BY <1>1, <1>2

LEMMA MetricComparisonOwes ==
  ASSUME NEW q, q.metric \in Known
  PROVE  Owing(MetricComparison(q))
<1> DEFINE other == q.period.from - (IF q.compare = "yoy" THEN 12 ELSE 1)
           rest == IF q.compare \in {"none", "ytd"} THEN <<Step("error")>>
                   ELSE <<Gate(other, FALSE), Compile(q.metric, other)>>
<1>1. MetricComparison(q) = MetricValue(q) \o rest
  BY DEF MetricComparison
<1>2. Knowing(rest)
  BY KnowingOne, KnowingSteps, KnowingPair
<1> HIDE DEF rest
<1> QED
  BY <1>1, <1>2, MetricValueKnows, MetricValueOwes, OwingJoined

\* Past a step that is no ending.
LEMMA OwesPast ==
  ASSUME ReadInv, OweInv, NEW what, Doing(what), what \notin {"compile", "unavailable", "error", "crash"},
         Onward(1, <<>>)
  PROVE  OweInv'
<1>1. pc = "agenda" /\ agenda # <<>> /\ Here.do = what
  BY DEF Doing, Here
<1>2. /\ Len(agenda) \in Nat /\ 1 <= Len(agenda) /\ agenda \in Seq(ToSet(agenda)) /\ Here = agenda[1]
      /\ cells \in Seq(ToSet(cells))
  BY <1>1, Longer DEF ReadInv, Knowing, Working
<1>3. pc' = pc /\ ir' = ir /\ agenda' = SubSeq(agenda, 2, Len(agenda)) /\ Len(cells') = Len(cells)
  BY <1>2 DEF Onward
<1>4. ASSUME Owing(agenda) PROVE Owing(agenda')
  <2>1. PICK i \in 1 .. Len(agenda) : Ending(agenda[i])
    BY <1>4 DEF Owing
  <2>2. i # 1
    BY <1>1, <1>2, <2>1 DEF Ending
  <2>3. /\ Len(agenda') = Len(agenda) + 1 - 2
        /\ \A j \in 1 .. Len(agenda) + 1 - 2 : agenda'[j] = agenda[j + 2 - 1]
    <3>1. 2 \in Nat /\ 1 =< 2 /\ 2 =< Len(agenda) + 1
      BY <1>2
    <3> QED
      BY <1>2, <1>3, <3>1, Rest
  <2>4. i - 1 \in 1 .. Len(agenda') /\ agenda'[i - 1] = agenda[i]
    BY <1>2, <2>2, <2>3
  <2> QED
    BY <2>1, <2>4 DEF Owing
<1> QED
  BY <1>1, <1>3, <1>4 DEF OweInv, Working

\* A result more.
LEMMA OwesNoMore ==
  ASSUME ReadInv, NEW c, cells' = cells \o <<c>> \/ cells' = Append(cells, c)
  PROVE  OweInv'
<1> DEFINE S == ToSet(cells) \cup {c}
<1>1. cells \in Seq(S) /\ c \in S
  <2>1. cells \in Seq(ToSet(cells))
    BY DEF ReadInv
  <2> QED
    BY <2>1
<1> HIDE DEF S
<1>2. Len(cells') >= 1
  BY <1>1
<1> QED
  BY <1>2 DEF OweInv

LEMMA OweInitially == AskInit => OweInv
BY DEF AskInit, OweInv, Working

LEMMA OweStep == AskInv /\ ReadInv /\ OweInv /\ [AskNext]_askVars => OweInv'
<1> SUFFICES ASSUME AskInv, ReadInv, OweInv, [AskNext]_askVars PROVE OweInv'
  OBVIOUS
<1>1. CASE /\ pc \in Working \/ pc' \notin Working
           /\ UNCHANGED <<ir, agenda, cells>>
  BY <1>1 DEF OweInv
<1>2. CASE pc' \notin Working
  BY <1>2 DEF OweInv
<1>3. CASE Accept
  <2>1. ir \in Questions /\ ir.made = "ir" /\ ValidIr(ir) /\ ir' = ir /\ agenda' = Handler(ir)
    BY <1>3 DEF Accept, AskInv
  <2>2. ASSUME ir.intent \in CitedIntents PROVE Owing(Handler(ir))
    <3>1. ir.metric \in Known
      BY <2>1, <2>2 DEF ValidIr, CitedIntents, Unmetered
    <3> QED
      BY <2>2, <3>1, MetricValueOwes, MetricComparisonOwes DEF Handler, CitedIntents
  <2> QED
    BY <2>1, <2>2 DEF OweInv
<1>4. CASE \E what : what \notin {"compile", "unavailable", "error", "crash"} /\ Doing(what) /\ Onward(1, <<>>)
  BY <1>4, OwesPast
<1>5. CASE \E c : cells' = cells \o <<c>> \/ cells' = Append(cells, c)
  BY <1>5, OwesNoMore
<1>6. CASE UNCHANGED askVars \/ Others
  BY <1>1, <1>6 DEF askVars, request, Others, OweInv
<1>7. CASE \E q \in Questions : Submit(q)
  BY <1>2, <1>7 DEF Submit, Working
<1>8. CASE Run
  <2>1. CASE TurnAway \/ RejectLeaf \/ GiveUp \/ Answer
    <3>1. pc' = "done"
      BY <2>1 DEF TurnAway, RejectLeaf, GiveUp, Answer, AnswerTrend, AnswerCited, RespondWith, Respond
    <3> QED
      BY <1>2, <3>1 DEF Working
  <2>2. CASE PassGate \/ ReadHealth \/ ReadUnmapped \/ Check
    <3>1. pc' = "done" \/ \E what \in {"gate", "lock", "checks", "unmapped", "check"} : Doing(what) /\ Onward(1, <<>>)
      BY <2>2 DEF PassGate, ReadHealth, ReadUnmapped, Check, RespondWith, Respond
    <3> QED
      BY <1>2, <1>4, <3>1 DEF Working
  <2>3. CASE RefuseMonth \/ AssembleStatement
    <3>1. pc' = "done" \/ \E c : cells' = cells \o <<c>>
      BY <2>3 DEF RefuseMonth, AssembleStatement, RespondWith, Respond, Onward
    <3> QED
      BY <1>2, <1>5, <3>1 DEF Working
  <2>4. CASE CompileStart \/ ReadAmounts \/ ReadLoadRuns
    <3>1. pc' = "done" \/ (pc \in Working /\ UNCHANGED <<ir, agenda, cells>>)
      BY <2>4 DEF CompileStart, ReadAmounts, ReadLoadRuns, Respond, Working, Doing
    <3> QED
      BY <1>1, <1>2, <3>1 DEF Working
  <2>5. CASE Continue
    <3>1. (pc = "compile" /\ UNCHANGED <<ir, agenda, cells>>) \/ \E c : cells' = Append(cells, c)
      BY <2>5 DEF Continue, LookUp, CompileEnd
    <3> QED
      BY <1>1, <1>5, <3>1 DEF Working
  <2> QED
    BY <1>3, <1>8, <2>1, <2>2, <2>3, <2>4, <2>5 DEF Run
<1> QED
  BY <1>6, <1>7, <1>8 DEF AskNext

-----------------------------------------------------------------------------
(* Where the rows of a citation come from.                                 *)

TracedNow(rows, loads) == Traced(rows, loads, ledger, moves + 2)

\* A row of the leaf whose statements are under way.
OfReading(r) ==
  /\ r.account \in Accounts /\ r.month \in Months /\ r.load \in 1 .. moves + 2
  /\ ClassOf[ClassedBy(reading)][r.account] \in { t[2] : t \in Contracts[reading[1]].terms }
  /\ IF Contracts[reading[1]].cumulative THEN r.month <= reading[2] ELSE r.month = reading[2]

\* Between its two statements a leaf has rows and no load runs yet.
TraceInv ==
  /\ \A k \in Accounts \X Months : ledger[k].load \in 0 .. moves + 2
  /\ \A p \in DOMAIN got : TracedNow(got[p].rows, got[p].loads) \/ (pc = "runs" /\ p = reading)
  /\ pc = "runs" => \A r \in got[reading].rows : OfReading(r)
  /\ \A i \in 1 .. Len(cells) : TracedNow(cells[i].rows, cells[i].loads)
  /\ TracedNow(response.citation.rows, response.citation.files)

LEMMA TracedEmpty ==
  ASSUME NEW loads
  PROVE  TracedNow({}, loads) /\ TracedNow({}, loads)'
BY DEF TracedNow, Traced

LEMMA NoCitationIs == \A v : LET c == [NoCitation EXCEPT !.version = v]
                             IN  c.rows = {} /\ c.files = {} /\ NoCitation.rows = {} /\ NoCitation.files = {}
BY DEF NoCitation

LEMMA TraceInitially == AskInit => TraceInv
<1> SUFFICES ASSUME AskInit PROVE TraceInv
  OBVIOUS
<1>1. PICK w \in Worlds :
        ledger = [k \in Accounts \X Months |->
                    IF k \in DOMAIN w.written THEN [load |-> w.written[k], amount |-> w.written[k]]
                    ELSE [load |-> 0, amount |-> 0]]
  BY DEF AskInit
<1>2. moves = 0 /\ pc = "idle" /\ cells = <<>> /\ DOMAIN got = {} /\ Len(cells) = 0
  BY NoReadsIs DEF AskInit
<1>3. ASSUME NEW k \in Accounts \X Months PROVE ledger[k].load \in 0 .. moves + 2
  <2>1. k \in DOMAIN w.written => w.written[k] \in {1, 2}
    BY WorldsAreStates
  <2> QED
    BY <1>1, <1>2, <2>1
<1>4. response.citation.rows = {}
  BY NoCitationIs DEF AskInit, NoResponse
<1> QED
  BY <1>2, <1>3, <1>4, TracedEmpty DEF TraceInv

LEMMA TraceResponding ==
  ASSUME TraceInv, NEW result, NEW numbers, NEW citation, NEW why,
         Respond(result, numbers, citation, why), TracedNow(citation.rows, citation.files)
  PROVE  TraceInv'
<1>1. /\ pc' = "done" /\ cells' = <<>> /\ DOMAIN got' = {} /\ ledger' = ledger /\ moves' = moves /\ Len(cells') = 0
      /\ response' = [status |-> result, numbers |-> numbers, citation |-> citation, why |-> why]
  BY NoReadsIs DEF Respond, world
<1>2. response'.citation = citation
  BY <1>1
<1> QED
  BY <1>1, <1>2 DEF TraceInv, TracedNow

LEMMA TraceRespondingWith ==
  ASSUME TraceInv, NEW result, NEW why, RespondWith(result, why)
  PROVE  TraceInv'
<1>1. Respond(result, {}, NoCitation, why)
  BY DEF RespondWith
<1>2. TracedNow(NoCitation.rows, NoCitation.files)
  BY TracedEmpty, NoCitationIs
<1> QED
  BY <1>1, <1>2, TraceResponding

LEMMA TraceGoingOn ==
  ASSUME ReadInv, TraceInv, pc = "agenda", NEW n, NEW results, Onward(n, results),
         results \in Seq(ToSet(results)),
         \A i \in 1 .. Len(results) : TracedNow(results[i].rows, results[i].loads)
  PROVE  TraceInv'
<1>1. /\ pc' = pc /\ ledger' = ledger /\ moves' = moves /\ response' = response /\ got' = got
      /\ cells' = cells \o results
  BY DEF Onward, world
<1>2. /\ Len(cells) \in Nat /\ Len(results) \in Nat
      /\ Len(cells') = Len(cells) + Len(results)
      /\ \A i \in 1 .. Len(cells) : cells'[i] = cells[i]
      /\ \A i \in 1 .. Len(results) : cells'[i + Len(cells)] = results[i]
  BY <1>1, Joined DEF ReadInv
<1>3. ASSUME NEW i \in 1 .. Len(cells') PROVE TracedNow(cells'[i].rows, cells'[i].loads)
  <2>1. CASE i \in 1 .. Len(cells)
    BY <1>2, <2>1 DEF TraceInv
  <2>2. CASE i \notin 1 .. Len(cells)
    <3>1. i - Len(cells) \in 1 .. Len(results) /\ i = (i - Len(cells)) + Len(cells)
      BY <1>2, <2>2
    <3>2. cells'[i] = results[i - Len(cells)]
      BY <1>2, <3>1
    <3> QED
      BY <3>1, <3>2
  <2> QED
    BY <2>1, <2>2
<1> QED
  BY <1>1, <1>3 DEF TraceInv, TracedNow

LEMMA TracePast ==
  ASSUME ReadInv, TraceInv, NEW what, Doing(what), Onward(1, <<>>)
  PROVE  TraceInv'
<1>1. pc = "agenda"
  BY DEF Doing
<1>2. <<>> \in Seq(ToSet(<<>>)) /\ \A i \in 1 .. Len(<<>>) : FALSE
  BY NoResult
<1> QED
  BY <1>1, <1>2, TraceGoingOn

\* A cell without rows.
LEMMA TraceOneCell ==
  ASSUME ReadInv, TraceInv, pc = "agenda", NEW n, NEW c, c.rows = {}, Onward(n, <<c>>)
  PROVE  TraceInv'
<1>1. TracedNow(c.rows, c.loads)
  BY TracedEmpty
<1>2. <<c>> \in Seq(ToSet(<<c>>)) /\ Len(<<c>>) = 1 /\ <<c>>[1] = c
  BY OneResult
<1>3. \A i \in 1 .. Len(<<c>>) : TracedNow(<<c>>[i].rows, <<c>>[i].loads)
  BY <1>1, <1>2
<1> QED
  BY <1>2, <1>3, TraceGoingOn

LEMMA TraceOnRefuseMonth ==
  ASSUME ReadInv, TraceInv, RefuseMonth
  PROVE  TraceInv'
<1>1. CASE Here.refuses
  <2> DEFINE citation == [NoCitation EXCEPT !.version = governs[Here.month + 1]]
  <2>1. Respond("refused", {}, citation, "period")
    BY <1>1 DEF RefuseMonth
  <2>2. TracedNow(citation.rows, citation.files)
    BY TracedEmpty, NoCitationIs
  <2> HIDE DEF citation
  <2> QED
    BY <2>1, <2>2, TraceResponding
<1>2. CASE ~Here.refuses
  <2> DEFINE c == Cell(agenda[2].metric, Here.month, [Unresolvable EXCEPT !.status = "refused"])
  <2>1. Onward(2, <<c>>) /\ pc = "agenda"
    BY <1>2 DEF RefuseMonth, Doing
  <2>2. c.rows = {}
    BY DEF Cell, Unresolvable
  <2> HIDE DEF c
  <2> QED
    BY <2>1, <2>2, TraceOneCell
<1> QED
  BY <1>1, <1>2

LEMMA TraceOnCompileStart ==
  ASSUME TraceInv, CompileStart
  PROVE  TraceInv'
<1>1. /\ pc' = "compile" /\ DOMAIN got' = {} /\ ledger' = ledger /\ moves' = moves
      /\ cells' = cells /\ response' = response
  BY NoReadsIs DEF CompileStart, world
<1> QED
  BY <1>1 DEF TraceInv, TracedNow

\* A look-up reads no row.
LEMMA TraceOnLookUp ==
  ASSUME TraceInv, pc = "compile", NEW c, LookUp(c)
  PROVE  TraceInv'
<1> DEFINE next == c.next
           read == [version |-> governs[next[2]], rows |-> {}, loads |-> {}]
<1>1. /\ got' = [k \in DOMAIN got \cup {next} |-> IF k = next THEN read ELSE got[k]]
      /\ pc' # "runs" /\ ledger' = ledger /\ moves' = moves /\ cells' = cells /\ response' = response
  BY DEF LookUp, world
<1>2. read.rows = {}
  OBVIOUS
<1> HIDE DEF next, read
<1>3. ASSUME NEW p \in DOMAIN got' PROVE TracedNow(got'[p].rows, got'[p].loads)
  <2>1. CASE p = next
    <3>1. got'[p].rows = {}
      BY <1>1, <1>2, <2>1
    <3> QED
      BY <3>1, TracedEmpty
  <2>2. CASE p # next
    <3>1. p \in DOMAIN got /\ got'[p] = got[p]
      BY <1>1, <2>2
    <3> QED
      BY <3>1 DEF TraceInv
  <2> QED
    BY <2>1, <2>2
<1> QED
  BY <1>1, <1>3 DEF TraceInv, TracedNow

\* A result has the rows of its reads.
LEMMA TraceOnCompileEnd ==
  ASSUME AskInv, ReadInv, TraceInv, pc = "compile", CompileEnd(Underway)
  PROVE  TraceInv'
<1> DEFINE r == Underway
           c == Cell(Here.metric, Here.month, r)
<1>1. /\ pc' = "agenda" /\ cells' = Append(cells, c) /\ DOMAIN got' = {}
      /\ ledger' = ledger /\ moves' = moves /\ response' = response
  BY NoReadsIs DEF CompileEnd, world
<1>2. c.rows = r.rows /\ c.loads = r.loads
  BY DEF Cell
<1>3. TracedNow(r.rows, r.loads)
  <2>1. Compiling /\ agenda # <<>>
    BY DEF AskInv, Midway, Compiling
  <2>2. Here.month \in Months /\ Here.metric \in Known
    BY <2>1, ReadyIsMonth, Longer DEF Compiling, Working, KnownStep
  <2>3. Sane(r, got, ledger, moves + 2)
    BY <2>2, CompiledSane DEF Underway
  <2>4. AllTraced(got, ledger, moves + 2)
    BY DEF TraceInv, TracedNow, AllTraced
  <2> QED
    BY <2>3, <2>4 DEF Sane, TracedNow
<1> HIDE DEF r, c
<1>4. ASSUME NEW i \in 1 .. Len(cells') PROVE TracedNow(cells'[i].rows, cells'[i].loads)
  <2> DEFINE S == ToSet(cells) \cup {c}
  <2>1. cells \in Seq(S) /\ c \in S
    <3>1. cells \in Seq(ToSet(cells))
      BY DEF ReadInv
    <3> QED
      BY <3>1
  <2> HIDE DEF S
  <2>2. /\ Len(cells) \in Nat /\ Len(cells') = Len(cells) + 1 /\ cells'[Len(cells) + 1] = c
        /\ \A j \in 1 .. Len(cells) : cells'[j] = cells[j]
    BY <1>1, <2>1
  <2>3. CASE i \in 1 .. Len(cells)
    BY <2>2, <2>3 DEF TraceInv
  <2>4. CASE i = Len(cells) + 1
    BY <1>2, <1>3, <2>2, <2>4
  <2> QED
    BY <2>2, <2>3, <2>4
<1> QED
  BY <1>1, <1>4 DEF TraceInv, TracedNow

LEMMA TraceOnReadAmounts ==
  ASSUME ReadInv, TraceInv, ReadAmounts
  PROVE  TraceInv'
<1> DEFINE rows == Scan(reading[1], reading[2], ClassedBy(reading))
<1>1. pc = "amounts" /\ reading \in DOMAIN got
  BY DEF ReadAmounts, ReadInv
<1>2. CASE Respond("error", {}, NoCitation, "row_cap")
  BY <1>2, TraceResponding, TracedEmpty, NoCitationIs
<1>3. CASE /\ got' = [got EXCEPT ![reading].rows = rows]
           /\ pc' = "runs" /\ UNCHANGED <<world, ir, agenda, reading, cells, response>>
  <2>1. /\ ledger' = ledger /\ moves' = moves /\ reading' = reading /\ cells' = cells /\ response' = response
    BY <1>3 DEF world
  <2>2. ASSUME NEW r \in rows PROVE OfReading(r)
    <3>1. PICK k \in Accounts \X Months :
            /\ r = [account |-> k[1], month |-> k[2], load |-> ledger[k].load, amount |-> ledger[k].amount,
                    class |-> ClassOf[ClassedBy(reading)][k[1]]]
            /\ ledger[k].load # 0
            /\ ClassOf[ClassedBy(reading)][k[1]] \in { t[2] : t \in Contracts[reading[1]].terms }
            /\ IF Contracts[reading[1]].cumulative THEN k[2] <= reading[2] ELSE k[2] = reading[2]
      BY DEF Scan
    <3>2. r.account = k[1] /\ r.month = k[2] /\ r.load = ledger[k].load /\ k[1] \in Accounts /\ k[2] \in Months
      BY <3>1
    <3>3. ledger[k].load \in 0 .. moves + 2
      BY DEF TraceInv
    <3>4. r.load \in 1 .. moves + 2
      <4>1. moves \in Nat
        BY SizesAssumption DEF ReadInv
      <4> QED
        BY <3>1, <3>2, <3>3, <4>1
    <3> QED
      BY <3>1, <3>2, <3>4 DEF OfReading
  <2>3. DOMAIN got' = DOMAIN got /\ \A p \in DOMAIN got \ {reading} : got'[p] = got[p]
    BY <1>3
  <2>4. got'[reading].rows = rows /\ got'[reading].version = got[reading].version
    <3>1. DOMAIN got[reading] = {"version", "rows", "loads"}
      BY <1>1 DEF ReadInv, Fit
    <3>2. got'[reading] = [got[reading] EXCEPT !.rows = rows]
      BY <1>1, <1>3
    <3> HIDE DEF rows
    <3> QED
      BY <3>1, <3>2
  <2> HIDE DEF rows
  <2>5. ClassedBy(reading)' = ClassedBy(reading)
    BY <2>1, <2>4 DEF ClassedBy
  <2>6. \A r \in got'[reading].rows : OfReading(r)'
    BY <2>1, <2>2, <2>4, <2>5 DEF OfReading
  <2>7. \A p \in DOMAIN got' : p # reading => TracedNow(got'[p].rows, got'[p].loads)
    BY <1>1, <2>3 DEF TraceInv
  <2> QED
    BY <1>3, <2>1, <2>6, <2>7 DEF TraceInv, TracedNow
<1> QED
  BY <1>2, <1>3 DEF ReadAmounts

\* A row that is still the ledger's is scanned again: its load is a load run.
LEMMA TraceOnReadLoadRuns ==
  ASSUME ReadInv, TraceInv, ReadLoadRuns
  PROVE  TraceInv'
<1> DEFINE scan == Scan(reading[1], reading[2], ClassedBy(reading))
           loads == { r.load : r \in scan }
<1>1. pc = "runs" /\ reading \in DOMAIN got
  BY DEF ReadLoadRuns, ReadInv
<1>2. CASE Respond("error", {}, NoCitation, "row_cap")
  BY <1>2, TraceResponding, TracedEmpty, NoCitationIs
<1>3. CASE /\ got' = [got EXCEPT ![reading].loads = loads]
           /\ pc' = "compile" /\ reading' = <<>> /\ UNCHANGED <<world, ir, agenda, cells, response>>
  <2>1. ledger' = ledger /\ moves' = moves /\ cells' = cells /\ response' = response /\ pc' = "compile"
    BY <1>3 DEF world
  <2>2. TracedNow(got[reading].rows, loads)
    <3> SUFFICES ASSUME NEW r \in got[reading].rows
                 PROVE  /\ r.account \in Accounts /\ r.month \in Months /\ r.load \in 1 .. moves + 2
                        /\ r.load \in loads \/ ledger[<<r.account, r.month>>].load # r.load
      BY DEF TracedNow, Traced
    <3>1. OfReading(r)
      BY <1>1 DEF TraceInv
    <3>2. ASSUME ledger[<<r.account, r.month>>].load = r.load PROVE r.load \in loads
      <4> DEFINE k == <<r.account, r.month>>
                 again == [account |-> k[1], month |-> k[2], load |-> ledger[k].load, amount |-> ledger[k].amount,
                           class |-> ClassOf[ClassedBy(reading)][k[1]]]
      <4>1. k \in Accounts \X Months /\ k[1] = r.account /\ k[2] = r.month
        BY <3>1 DEF OfReading
      <4>2. ledger[k].load # 0
        <5>1. r.load \in 1 .. moves + 2
          BY <3>1 DEF OfReading
        <5> QED
          BY <3>2, <5>1
      <4>3. /\ ClassOf[ClassedBy(reading)][k[1]] \in { t[2] : t \in Contracts[reading[1]].terms }
            /\ IF Contracts[reading[1]].cumulative THEN k[2] <= reading[2] ELSE k[2] = reading[2]
        BY <3>1, <4>1 DEF OfReading
      <4>4. again \in scan
        <5> HIDE DEF k
        <5> QED
          BY <4>1, <4>2, <4>3 DEF Scan
      <4>5. again.load = r.load
        BY <3>2
      <4> HIDE DEF again, scan
      <4> QED
        BY <4>4, <4>5
    <3> HIDE DEF loads
    <3> QED
      BY <3>1, <3>2 DEF OfReading
  <2> HIDE DEF loads
  <2>3. DOMAIN got' = DOMAIN got /\ \A p \in DOMAIN got \ {reading} : got'[p] = got[p]
    BY <1>3
  <2>4. got'[reading].rows = got[reading].rows /\ got'[reading].loads = loads
    <3>1. DOMAIN got[reading] = {"version", "rows", "loads"}
      BY <1>1 DEF ReadInv, Fit
    <3>2. got'[reading] = [got[reading] EXCEPT !.loads = loads]
      BY <1>1, <1>3
    <3> QED
      BY <3>1, <3>2
  <2>5. \A p \in DOMAIN got' : TracedNow(got'[p].rows, got'[p].loads)
    BY <1>1, <2>2, <2>3, <2>4 DEF TraceInv
  <2> QED
    BY <2>1, <2>5 DEF TraceInv, TracedNow
<1> QED
  BY <1>2, <1>3 DEF ReadLoadRuns

LEMMA TraceOnAssembleStatement ==
  ASSUME ReadInv, TraceInv, AssembleStatement
  PROVE  TraceInv'
<1> DEFINE c == Cell("statement", Here.month, [Unresolvable EXCEPT !.status = "ok"])
<1>1. CASE RespondWith("unavailable", "no_mapping")
  BY <1>1, TraceRespondingWith
<1>2. CASE Onward(1, <<c>>)
  <2>1. c.rows = {} /\ pc = "agenda"
    BY DEF Cell, Unresolvable, AssembleStatement, Doing
  <2> HIDE DEF c
  <2> QED
    BY <1>2, <2>1, TraceOneCell
<1> QED
  BY <1>1, <1>2 DEF AssembleStatement

\* A citation is that of the first cell.
LEMMA TraceOnAnswer ==
  ASSUME ReadInv, OweInv, TraceInv, Answer
  PROVE  TraceInv'
<1>1. ASSUME NEW result, NEW numbers, NEW why, Respond(result, numbers, NoCitation, why) PROVE TraceInv'
  <2>1. TracedNow(NoCitation.rows, NoCitation.files)
    BY TracedEmpty, NoCitationIs
  <2> QED
    BY <1>1, <2>1, TraceResponding
<1>2. CASE AnswerTrend
  BY <1>1, <1>2 DEF AnswerTrend
<1>3. CASE ir.intent \in CitedIntents /\ AnswerCited
  <2>3. 1 \in 1 .. Len(cells)
    <3>1. pc = "agenda" /\ agenda = <<>>
      BY DEF Answer
    <3>2. Len(agenda) = 0
      BY <3>1
    <3>3. ~Owing(agenda) /\ Len(cells) \in Nat
      BY <3>2 DEF Owing, ReadInv
    <3>4. Len(cells) >= 1
      BY <1>3, <3>1, <3>3 DEF OweInv, Working
    <3> QED
      BY <3>3, <3>4
  <2>1. CASE Citable(cells[1])
    <3> DEFINE citation == [rows |-> cells[1].rows, files |-> cells[1].loads, version |-> governs[cells[1].month]]
    <3>1. Respond("ok", Shown, citation, "cited")
      BY <1>3, <2>1 DEF AnswerCited
    <3>2. citation.rows = cells[1].rows /\ citation.files = cells[1].loads
      OBVIOUS
    <3>3. TracedNow(citation.rows, citation.files)
      BY <2>3, <3>2 DEF TraceInv
    <3> HIDE DEF citation
    <3> QED
      BY <3>1, <3>3, TraceResponding
  <2>2. CASE ~Citable(cells[1])
    BY <1>1, <1>3, <2>2 DEF AnswerCited
  <2> QED
    BY <2>1, <2>2
<1>4. CASE \E why : Respond("ok", Shown, NoCitation, why)
  BY <1>1, <1>4
<1> QED
  BY <1>2, <1>3, <1>4 DEF Answer

LEMMA TraceOnRun ==
  ASSUME AskInv, ReadInv, OweInv, TraceInv, Run
  PROVE  TraceInv'
<1>1. CASE TurnAway \/ RejectLeaf \/ GiveUp
  <2>1. \E result, why : RespondWith(result, why)
    BY <1>1 DEF TurnAway, RejectLeaf, GiveUp
  <2> QED
    BY <2>1, TraceRespondingWith
<1>2. CASE PassGate \/ ReadHealth \/ ReadUnmapped \/ Check
  <2>1. (\E result, why : RespondWith(result, why)) \/ \E what : Doing(what) /\ Onward(1, <<>>)
    BY <1>2 DEF PassGate, ReadHealth, ReadUnmapped, Check
  <2> QED
    BY <2>1, TraceRespondingWith, TracePast
<1>3. CASE Accept
  <2>1. pc' = "agenda" /\ pc = "model" /\ ledger' = ledger /\ moves' = moves /\ got' = got /\ cells' = cells /\ response' = response
    BY <1>3 DEF Accept, world
  <2> QED
    BY <2>1 DEF TraceInv, TracedNow
<1>4. CASE Continue
  <2>1. pc = "compile" /\ (LookUp(Underway) \/ CompileEnd(Underway))
    BY <1>4 DEF Continue
  <2> QED
    BY <2>1, TraceOnLookUp, TraceOnCompileEnd
<1> QED
  BY <1>1, <1>2, <1>3, <1>4, TraceOnRefuseMonth, TraceOnCompileStart, TraceOnReadAmounts, TraceOnReadLoadRuns,
     TraceOnAssembleStatement, TraceOnAnswer DEF Run

\* A commit supersedes rows with a load of a number no row has had: what is
\* superseded stays so.
LEMMA TraceOnOthers ==
  ASSUME ReadInv, TraceInv, Others
  PROVE  TraceInv'
<1>1. /\ pc' = pc /\ reading' = reading /\ got' = got /\ cells' = cells /\ response' = response
      /\ moves \in Nat /\ moves' = moves + 1
  BY SizesAssumption DEF Others, request, ReadInv
<1>2. ASSUME NEW k \in Accounts \X Months
      PROVE  ledger'[k].load = ledger[k].load \/ ledger'[k].load = moves + 3
  <2>1. CASE ledger' = ledger
    BY <2>1
  <2>2. CASE Load
    <3>1. PICK m \in Months, S \in SUBSET Accounts \ {{}} :
            ledger' = [h \in Accounts \X Months |->
                         IF h[1] \in S /\ h[2] = m THEN [load |-> moves + 3, amount |-> moves + 3] ELSE ledger[h]]
      BY <2>2 DEF Load
    <3>2. ledger'[k] = ledger[k] \/ ledger'[k] = [load |-> moves + 3, amount |-> moves + 3]
      BY <3>1
    <3> QED
      BY <3>2
  <2> QED
    BY <2>1, <2>2 DEF Others, Freeze, Advance
<1>3. ASSUME NEW rows, NEW loads, TracedNow(rows, loads)
      PROVE  TracedNow(rows, loads)'
  <2> SUFFICES ASSUME NEW r \in rows
               PROVE  /\ r.account \in Accounts /\ r.month \in Months /\ r.load \in 1 .. moves' + 2
                      /\ r.load \in loads \/ ledger'[<<r.account, r.month>>].load # r.load
    BY DEF TracedNow, Traced
  <2>1. /\ r.account \in Accounts /\ r.month \in Months /\ r.load \in 1 .. moves + 2
        /\ r.load \in loads \/ ledger[<<r.account, r.month>>].load # r.load
    BY <1>3 DEF TracedNow, Traced
  <2>2. r.load \in 1 .. moves' + 2 /\ r.load # moves + 3
    BY <1>1, <2>1
  <2>3. <<r.account, r.month>> \in Accounts \X Months
    BY <2>1
  <2>4. r.load \in loads \/ ledger'[<<r.account, r.month>>].load # r.load
    BY <1>2, <2>1, <2>2, <2>3
  <2> QED
    BY <2>1, <2>2, <2>4
<1>4. \A k \in Accounts \X Months : ledger'[k].load \in 0 .. moves' + 2
  <2> SUFFICES ASSUME NEW k \in Accounts \X Months PROVE ledger'[k].load \in 0 .. moves' + 2
    OBVIOUS
  <2>1. ledger[k].load \in 0 .. moves + 2
    BY DEF TraceInv
  <2> QED
    BY <1>1, <1>2, <2>1
<1>5. ASSUME pc = "runs", NEW r \in got[reading].rows PROVE OfReading(r)'
  <2>1. OfReading(r) /\ r.load \in 1 .. moves + 2
    BY <1>5 DEF TraceInv, OfReading
  <2>2. r.load \in 1 .. moves' + 2
    BY <1>1, <2>1
  <2> QED
    BY <1>1, <2>1, <2>2 DEF OfReading, ClassedBy
<1>6. TracedNow(response.citation.rows, response.citation.files)'
  <2> DEFINE rows == response.citation.rows
             files == response.citation.files
  <2>1. TracedNow(rows, files) /\ rows' = rows /\ files' = files
    BY <1>1 DEF TraceInv
  <2>2. Traced(rows, files, ledger', moves' + 2)
    <3> HIDE DEF rows, files
    <3> QED
      BY <1>1, <1>3, <2>1 DEF TracedNow, Traced
  <2> QED
    BY <1>1, <2>2 DEF TracedNow
<1> QED
  BY <1>1, <1>3, <1>4, <1>5, <1>6 DEF TraceInv

LEMMA TraceStep == AskInv /\ ReadInv /\ OweInv /\ TraceInv /\ [AskNext]_askVars => TraceInv'
<1> SUFFICES ASSUME AskInv, ReadInv, OweInv, TraceInv, [AskNext]_askVars PROVE TraceInv'
  OBVIOUS
<1>1. CASE UNCHANGED askVars
  <2>1. /\ pc' = pc /\ reading' = reading /\ got' = got /\ ledger' = ledger /\ moves' = moves
        /\ cells' = cells /\ response' = response
    BY <1>1 DEF askVars, world, request
  <2> QED
    BY <2>1 DEF TraceInv, TracedNow, OfReading, ClassedBy
<1>2. CASE \E q \in Questions : Submit(q)
  <2>1. /\ pc = "idle" /\ pc' = "model" /\ got' = got /\ ledger' = ledger /\ moves' = moves
        /\ cells' = cells /\ response' = response
    BY <1>2 DEF Submit, world
  <2> QED
    BY <2>1 DEF TraceInv, TracedNow
<1> QED
  BY <1>1, <1>2, TraceOnRun, TraceOnOthers DEF AskNext

\* Whatever commits between the statement that reads the rows and the one that
\* reads the load runs, each row a citation counts is of a file it names or
\* is superseded by now (build_citation over _fetch_leaf_amounts).
THEOREM CitedRowsAreTraceable == AskSpec => []CitedRowsTraceable
<1>1. AskSpec => []OweInv
  BY OweInitially, OweStep, AskInvHolds, ReadInvHolds, PTL DEF AskSpec
<1>2. AskSpec => []TraceInv
  BY <1>1, TraceInitially, TraceStep, AskInvHolds, ReadInvHolds, PTL DEF AskSpec
<1>3. TraceInv => CitedRowsTraceable
  BY DEF TraceInv, TracedNow, Traced, CitedRowsTraceable
<1> QED
  BY <1>2, <1>3, PTL
=============================================================================
