-------------------------- MODULE FactStreamsProofs --------------------------
(***************************************************************************)
(* For any files, entities and number of uploads: one current row per key, *)
(* snapshots that settle, stores found exactly when they had landed, tokens *)
(* that differ, units that stay comparable, reloads that change nothing.   *)
(***************************************************************************)
EXTENDS FactStreams, FiniteSetTheorems, WellFoundedInduction, TLAPS

-----------------------------------------------------------------------------
(* Lemmas: what staging makes of a file.                                   *)

\* A staged row keeps the line it came from, and the names the database
\* insists on are there.
LEMMA StagedRow ==
  ASSUME NEW t \in Templates, NEW r, Stage(t, r) # Quarantined
  PROVE  /\ Stage(t, r)[1].raw = r
         /\ t = "StoreMaster" => r.store # Blank
         /\ t = "MFGProduction" => r.plant # Blank /\ r.item # Blank /\ r.uom # Blank
<1>1. CASE t = "COA"
  BY <1>1 DEF Stage, StageCoa, Staged, Quarantined
<1>2. CASE t = "TB"
  BY <1>2 DEF Stage, StageTb, Staged, Quarantined
<1>3. CASE t = "GL"
  BY <1>3 DEF Stage, StageGl, Staged, Quarantined
<1>4. CASE t = "Bank"
  BY <1>4 DEF Stage, StageBank, Staged, Quarantined
<1>5. CASE t = "ConsumerSales"
  BY <1>5 DEF Stage, StageChannelOrder, Staged, Quarantined
<1>6. CASE t = "StoreMaster"
  BY <1>6 DEF Stage, StageStoreMaster, Staged, Quarantined
<1>7. CASE t = "MFGProduction"
  BY <1>7 DEF Stage, StageMfgProduction, Staged, Quarantined
<1> QED
  BY <1>1, <1>2, <1>3, <1>4, <1>5, <1>6, <1>7 DEF Templates, Streams

\* The staged rows of a file are numbered by lines of it.
LEMMA StagedRowsOf ==
  ASSUME NEW f \in Files
  PROVE  /\ DOMAIN StagedRows(f) \subseteq Nat
         /\ IsFiniteSet(DOMAIN StagedRows(f))
         /\ \A i \in DOMAIN StagedRows(f) :
              LET r == StagedRows(f)[i].raw
              IN  /\ r \in ToSet(f.rows)
                  /\ f.template = "GL" => r.party \in Parties \cup {Blank}
                  /\ f.template = "StoreMaster" => r.store \in Stores
                  /\ f.template = "MFGProduction" =>
                       r.plant \in Places /\ r.item \in Items /\ r.uom \in Units
<1> DEFINE v == StagedRows(f)
<1>1. /\ f.template \in Templates /\ f.rows \in Seq(ToSet(f.rows)) /\ IsFile(f)
      /\ Len(f.rows) \in Nat /\ DOMAIN f.rows = 1 .. Len(f.rows)
  <2>1. f.template \in Templates /\ f.rows \in Seq(ToSet(f.rows)) /\ IsFile(f)
    BY FilesAreFiles DEF IsFile
  <2> QED
    BY <2>1
<1>2. CASE f.header = "foreign"
  <2>1. v = <<>> /\ DOMAIN v = {}
    BY <1>2 DEF StagedRows
  <2> QED
    BY <2>1, FS_EmptySet
<1>3. CASE f.header # "foreign"
  <2>1. v = ValidRows(f.template, f.rows)
    BY <1>3 DEF StagedRows
  <2>2. /\ DOMAIN v = Kept(f.template, f.rows) /\ DOMAIN v \subseteq 1 .. Len(f.rows)
        /\ \A i \in DOMAIN v : Stage(f.template, f.rows[i]) # Quarantined /\ v[i] = Stage(f.template, f.rows[i])[1]
    BY <1>1, <2>1 DEF ValidRows, Kept
  <2>3. IsFiniteSet(DOMAIN v)
    <3> HIDE DEF v
    <3>1. IsFiniteSet(1 .. Len(f.rows))
      BY <1>1, FS_Interval
    <3> QED
      BY <2>2, <3>1, FS_Subset
  <2>4. ASSUME NEW i \in DOMAIN v
        PROVE  /\ v[i].raw = f.rows[i] /\ f.rows[i] \in ToSet(f.rows)
               /\ f.template = "StoreMaster" => f.rows[i].store # Blank
               /\ f.template = "MFGProduction" =>
                    f.rows[i].plant # Blank /\ f.rows[i].item # Blank /\ f.rows[i].uom # Blank
    <3> HIDE DEF v
    <3> QED
      BY <1>1, <2>2, StagedRow DEF ToSet
  <2> HIDE DEF v
  <2>5. ASSUME NEW i \in DOMAIN v
        PROVE  LET r == v[i].raw
               IN  /\ r \in ToSet(f.rows)
                   /\ f.template = "GL" => r.party \in Parties \cup {Blank}
                   /\ f.template = "StoreMaster" => r.store \in Stores
                   /\ f.template = "MFGProduction" =>
                        r.plant \in Places /\ r.item \in Items /\ r.uom \in Units
    BY <1>1, <2>4 DEF IsFile
  <2> QED
    BY <1>1, <2>2, <2>3, <2>5 DEF v
<1> QED
  BY <1>2, <1>3

\* A file brings one row for a key, and every row is a staged one.
LEMMA IncomingUnique ==
  ASSUME NEW f \in Files, NEW r \in Incoming(f)
  PROVE  /\ \A q \in Incoming(f) : q.key = r.key => q = r
         /\ \E i \in DOMAIN StagedRows(f) : r = StagedRows(f)[i]
         /\ r.raw \in Raws(f)
BY StagedRowsOf DEF Incoming, Raws

\* A set of line numbers has a first one.
LEMMA FirstExists ==
  ASSUME NEW S \in SUBSET Nat, S # {}
  PROVE  Min(S) \in S
<1> DEFINE T == { 0..x : x \in S }
<1>1. T \subseteq FiniteSubsetsOf(Nat)
  <2> SUFFICES ASSUME NEW x \in S PROVE 0..x \in FiniteSubsetsOf(Nat)
    OBVIOUS
  <2>1. IsFiniteSet(0..x)
    BY FS_Interval
  <2> QED
    BY <2>1 DEF FiniteSubsetsOf
<1>2. T # {}
  OBVIOUS
<1>3. PICK t \in T : \A y \in T : ~ (<<y, t>> \in StrictSubsetOrdering(Nat))
  BY <1>1, <1>2, FS_StrictSubsetOrderingWellFounded, WFMin, Zenon
<1>4. PICK m \in S : t = 0..m
  BY <1>3
<1>5. \A x \in S : m =< x
  <2> SUFFICES ASSUME NEW x \in S, x < m PROVE FALSE
    OBVIOUS
  <2>1. 0..x \subseteq 0..m /\ m \in 0..m /\ m \notin 0..x
    OBVIOUS
  <2>2. 0..x \in T
    OBVIOUS
  <2> QED
    BY <1>1, <1>3, <1>4, <2>1, <2>2 DEF StrictSubsetOrdering, FiniteSubsetsOf
<1> QED
  BY <1>5 DEF Min

\* A set of load numbers has a last one.
LEMMA LastExists ==
  ASSUME NEW n \in Nat, NEW S \in SUBSET (1 .. n), S # {}
  PROVE  Max(S) \in S
<1> DEFINE T == { x..n : x \in S }
<1>1. T \subseteq FiniteSubsetsOf(Nat)
  BY FS_Interval DEF FiniteSubsetsOf
<1>2. T # {}
  OBVIOUS
<1>3. PICK t \in T : \A y \in T : ~ (<<y, t>> \in StrictSubsetOrdering(Nat))
  BY <1>1, <1>2, FS_StrictSubsetOrderingWellFounded, WFMin, Zenon
<1>4. PICK m \in S : t = m..n
  BY <1>3
<1>5. \A x \in S : m >= x
  <2> SUFFICES ASSUME NEW x \in S, x > m PROVE FALSE
    OBVIOUS
  <2>1. x..n \subseteq m..n /\ m \in m..n /\ m \notin x..n
    OBVIOUS
  <2>2. x..n \in T
    OBVIOUS
  <2> QED
    BY <1>1, <1>3, <1>4, <2>1, <2>2 DEF StrictSubsetOrdering, FiniteSubsetsOf
<1> QED
  BY <1>5 DEF Max

\* The declared unit of an item a production file names is one of Units.
LEMMA FirstUnitIsAUnit ==
  ASSUME NEW f \in Files, f.template = "MFGProduction", NEW i \in { r.item : r \in Raws(f) }
  PROVE  FirstUnit(f, i) \in Units
<1> DEFINE v == StagedRows(f)
           S == { k \in DOMAIN v : v[k].raw.item = i }
<1>1. S \in SUBSET Nat /\ S # {}
  BY StagedRowsOf DEF Raws
<1>2. Min(S) \in DOMAIN v
  BY <1>1, FirstExists
<1> QED
  BY <1>2, StagedRowsOf DEF FirstUnit

-----------------------------------------------------------------------------
(* The inductive invariant.                                                *)

\* Tokens are numbered from 1 to the number of parties known.
TokensCounted ==
  /\ IsFiniteSet(DOMAIN tokens)
  /\ \A n \in DOMAIN tokens : tokens[n] \in 1 .. Cardinality(DOMAIN tokens)

\* An item with a current row has its declared unit.
UnitsDeclared ==
  \A e \in Entities, i \in Items :
    (\E f \in Current(e, "MFGProduction") : f.row.raw.item = i) => declared[e][i] # NoUnit

\* The file f of entity e would bring nothing new.
Settled(e, f) ==
  /\ f.template \in Streams =>
       \A r \in Incoming(f) : \E g \in Current(e, f.template) : g.row.key = r.key /\ g.row.hash = r.hash
  /\ f.template = "MFGProduction" =>
       \A r \in Raws(f) : r.plant \in Landed(e) /\ declared[e][r.item] # NoUnit
  /\ f.template = "StoreMaster" =>
       \A r \in Raws(f) : /\ r.store \in Landed(e)
                          /\ \A p \in places : p.entity = e /\ p.name = r.store => p.type = "store"
  /\ NewParties(f) = {}

\* What ended the last load still holds: it would end the same way again.
LastLoadTold ==
  loads # <<>> =>
    LET l == loads[Len(loads)]
    IN  /\ l.outcome = "blocked" => SchemaBlocked(l.file)
        /\ l.outcome = "rolled_back" => \/ Unreadable(l.file)
                                        \/ Collides(l.entity, l.file.template, Incoming(l.file))
                                        \/ Unseeded(l.entity, l.file)
        /\ l.outcome = "succeeded" => Settled(l.entity, l.file)

FactsInv ==
  /\ FactsTypeOK /\ OneCurrentPerKey /\ LocatedIfLandedBefore
  /\ TokensCounted /\ TokensDistinct /\ UnitsDeclared /\ LastLoadTold

LEMMA FactsInitially == FactsInit => FactsInv
<1> SUFFICES ASSUME FactsInit PROVE FactsInv
  OBVIOUS
<1> USE DEF FactsInit
<1>1. \A s \in Streams : facts[s] = {}
  OBVIOUS
<1>2. DOMAIN tokens = {} /\ places = {} /\ loads = <<>> /\ clock = 0 /\ pending = {}
  OBVIOUS
<1>3. FactsTypeOK
  <2>1. loads \in Seq(Load)
    OBVIOUS
  <2>2. declared \in [Entities -> [Items -> Units \cup {NoUnit}]]
    OBVIOUS
  <2>3. facts \in [Streams -> SUBSET Fact]
    OBVIOUS
  <2>4. tokens \in [DOMAIN tokens -> Nat]
    OBVIOUS
  <2> QED
    BY <1>2, <2>1, <2>2, <2>3, <2>4 DEF FactsTypeOK
<1>4. "ConsumerSales" \in Streams /\ "MFGProduction" \in Streams
  BY DEF Streams
<1>5. OneCurrentPerKey /\ LocatedIfLandedBefore /\ UnitsDeclared
  BY <1>1, <1>4 DEF OneCurrentPerKey, LocatedIfLandedBefore, UnitsDeclared, Current
<1>6. TokensCounted /\ TokensDistinct
  BY <1>2, FS_EmptySet DEF TokensCounted, TokensDistinct
<1>7. LastLoadTold
  BY <1>2 DEF LastLoadTold
<1> QED
  BY <1>3, <1>5, <1>6, <1>7 DEF FactsInv

-----------------------------------------------------------------------------
(* What one load does, part by part.                                       *)

LEMMA LoadAppends ==
  ASSUME FactsTypeOK, NEW e \in Entities, NEW f \in Files,
         NEW now \in pending,
         NEW o \in {"succeeded", "blocked", "rolled_back"}, Record(e, f, now, o)
  PROVE  /\ loads' \in Seq(Load)
         /\ Len(loads) \in Nat /\ Len(loads') = Len(loads) + 1
         /\ DOMAIN loads = 1 .. Len(loads) /\ DOMAIN loads' = 1 .. Len(loads) + 1
         /\ \A i \in DOMAIN loads : loads'[i] = loads[i]
         /\ loads'[Len(loads) + 1] = [entity |-> e, file |-> f, outcome |-> o]
         /\ Fact \subseteq Fact' /\ Place \subseteq Place'
         /\ clock' \in Nat /\ pending' \subseteq 1 .. clock' /\ now \in 1 .. clock'
<1> DEFINE l == [entity |-> e, file |-> f, outcome |-> o]
<1>1. loads \in Seq(Load) /\ l \in Load /\ loads' = Append(loads, l)
  BY DEF FactsTypeOK, Record, Load
<1> HIDE DEF l
<1>2. /\ loads' \in Seq(Load)
      /\ Len(loads) \in Nat /\ Len(loads') = Len(loads) + 1
      /\ DOMAIN loads = 1 .. Len(loads) /\ DOMAIN loads' = 1 .. Len(loads) + 1
      /\ \A i \in DOMAIN loads : loads'[i] = loads[i]
      /\ loads'[Len(loads) + 1] = l
  BY <1>1
<1>3. DOMAIN loads \subseteq DOMAIN loads' /\ clock' = clock
  BY <1>2 DEF Record
<1>4. Fact \subseteq Fact' /\ Place \subseteq Place'
  BY <1>3 DEF Fact, Place
<1>5. clock' \in Nat /\ pending' \subseteq 1 .. clock' /\ now \in 1 .. clock'
  BY DEF FactsTypeOK, Record
<1> QED
  BY <1>2, <1>4, <1>5 DEF l

\* A load that writes nothing: refused, blocked or failed.
LEMMA NothingWritten ==
  ASSUME FactsInv, NEW e \in Entities, NEW f \in Files,
         NEW now \in pending, Refuse(e, f, now) \/ Block(e, f, now) \/ Fail(e, f, now)
  PROVE  FactsInv'
<1>1. PICK o \in {"blocked", "rolled_back"} :
        /\ Record(e, f, now, o)
        /\ o = "blocked" => SchemaBlocked(f)
        /\ o = "rolled_back" => Unreadable(f) \/ Collides(e, f.template, Incoming(f)) \/ Unseeded(e, f)
        /\ UNCHANGED <<facts, places, declared, tokens>>
  BY DEF Refuse, Block, Fail
<1>2. /\ loads' \in Seq(Load)
      /\ Len(loads) \in Nat /\ Len(loads') = Len(loads) + 1
      /\ DOMAIN loads = 1 .. Len(loads) /\ DOMAIN loads' = 1 .. Len(loads) + 1
      /\ \A i \in DOMAIN loads : loads'[i] = loads[i]
      /\ loads'[Len(loads) + 1] = [entity |-> e, file |-> f, outcome |-> o]
      /\ Fact \subseteq Fact' /\ Place \subseteq Place'
      /\ clock' \in Nat /\ pending' \subseteq 1 .. clock'
  BY <1>1, LoadAppends DEF FactsInv
<1>3. FactsTypeOK'
  BY <1>1, <1>2 DEF FactsInv, FactsTypeOK
<1>4. Recorded(f.template)' = Recorded(f.template)
  BY <1>1, <1>2 DEF Recorded
<1>5. o = "blocked" => SchemaBlocked(f)'
  <2> SUFFICES ASSUME SchemaBlocked(f) PROVE SchemaBlocked(f)'
    BY <1>1
  <2>1. Max(Recorded(f.template)) \in DOMAIN loads
    <3>1. Recorded(f.template) \in SUBSET (1 .. Len(loads)) /\ Recorded(f.template) # {}
      BY <1>2 DEF SchemaBlocked, Recorded
    <3> QED
      BY <1>2, <3>1, LastExists
  <2> QED
    BY <1>2, <1>4, <2>1 DEF SchemaBlocked
<1>6. o = "rolled_back" =>
        Unreadable(f)' \/ Collides(e, f.template, Incoming(f))' \/ Unseeded(e, f)'
  BY <1>1 DEF Unreadable, Collides, Current, Unseeded
<1>7. LastLoadTold'
  BY <1>2, <1>5, <1>6 DEF LastLoadTold
<1>8. OneCurrentPerKey' /\ LocatedIfLandedBefore' /\ TokensCounted' /\ TokensDistinct' /\ UnitsDeclared'
  BY <1>1 DEF FactsInv, OneCurrentPerKey, LocatedIfLandedBefore, TokensCounted, TokensDistinct,
     UnitsDeclared, Current
<1> QED
  BY <1>3, <1>7, <1>8 DEF FactsInv

-----------------------------------------------------------------------------
(* A load that is taken.                                                   *)

\* The row load number n, begun at now, inserts for the staged row r.
NewRow(e, s, r, n, now) ==
  [entity |-> e, row |-> r, place |-> PlaceOf(e, s, r.raw), load |-> n, from |-> now, to |-> Infinity]

LEMMA TakenAppends ==
  ASSUME FactsInv, NEW e \in Entities, NEW f \in Files, NEW now \in pending, Take(e, f, now)
  PROVE  /\ loads' \in Seq(Load)
         /\ Len(loads) \in Nat /\ Len(loads') = Len(loads) + 1
         /\ DOMAIN loads = 1 .. Len(loads) /\ DOMAIN loads' = 1 .. Len(loads) + 1
         /\ Len(loads) + 1 \in DOMAIN loads'
         /\ loads'[Len(loads) + 1] = [entity |-> e, file |-> f, outcome |-> "succeeded"]
         /\ Fact \subseteq Fact' /\ Place \subseteq Place'
         /\ clock' \in Nat /\ pending' \subseteq 1 .. clock' /\ now \in 1 .. clock'
<1>1. FactsTypeOK /\ Record(e, f, now, "succeeded")
  BY DEF FactsInv, Take
<1>2. /\ loads' \in Seq(Load)
      /\ Len(loads) \in Nat /\ Len(loads') = Len(loads) + 1
      /\ DOMAIN loads = 1 .. Len(loads) /\ DOMAIN loads' = 1 .. Len(loads) + 1
      /\ loads'[Len(loads) + 1] = [entity |-> e, file |-> f, outcome |-> "succeeded"]
      /\ Fact \subseteq Fact' /\ Place \subseteq Place'
      /\ clock' \in Nat /\ pending' \subseteq 1 .. clock' /\ now \in 1 .. clock'
  BY <1>1, LoadAppends
<1> QED
  BY <1>2

\* What becomes of the rows of a stream.
LEMMA WrittenRows ==
  ASSUME FactsInv, NEW e \in Entities, NEW f \in Files, NEW now \in pending, Take(e, f, now), NEW s \in Streams
  PROVE  LET old == Superseded(e, s, Incoming(f))
             new == Unmatched(e, s, Incoming(f))
             n   == Len(loads) + 1
         IN  IF s = f.template
             THEN /\ \A g \in facts'[s] :
                       \/ g \in facts[s] /\ g \notin old
                       \/ \E h \in old : g = [h EXCEPT !.to = now]
                       \/ \E r \in new : g = NewRow(e, s, r, n, now)
                  /\ \A g \in facts[s] : IF g \in old THEN [g EXCEPT !.to = now] \in facts'[s]
                                                     ELSE g \in facts'[s]
                  /\ \A r \in new : NewRow(e, s, r, n, now) \in facts'[s]
                  /\ old \subseteq Current(e, s)
             ELSE facts'[s] = facts[s]
BY DEF Take, Written, Inserted, NewRow, Superseded, Current

\* The current rows after the load: those before it, without the superseded
\* ones, and the inserted ones.
LEMMA CurrentAfter ==
  ASSUME FactsInv, NEW e \in Entities, NEW f \in Files, NEW now \in pending, Take(e, f, now),
         NEW s \in Streams, NEW d \in Entities
  PROVE  LET old == Superseded(e, s, Incoming(f))
             new == Unmatched(e, s, Incoming(f))
             n   == Len(loads) + 1
             own == s = f.template /\ d = e
         IN  /\ \A g \in Current(d, s)' :
                  \/ g \in Current(d, s) /\ (own => g \notin old)
                  \/ own /\ \E r \in new : g = NewRow(e, s, r, n, now)
             /\ \A g \in Current(d, s) : g \in Current(d, s)' \/ (own /\ g \in old)
             /\ own => \A r \in new : NewRow(e, s, r, n, now) \in Current(d, s)'
<1> DEFINE old == Superseded(e, s, Incoming(f))
           new == Unmatched(e, s, Incoming(f))
           n   == Len(loads) + 1
<1>1. Len(loads) \in Nat /\ now # Infinity
  BY DEF FactsInv, FactsTypeOK, Infinity
<1>2. CASE s # f.template
  <2>1. facts'[s] = facts[s]
    BY <1>2, WrittenRows
  <2> QED
    BY <1>2, <2>1 DEF Current
<1>3. CASE s = f.template
  <2>1. /\ \A g \in facts'[s] :
             \/ g \in facts[s] /\ g \notin old
             \/ \E h \in old : g = [h EXCEPT !.to = now]
             \/ \E r \in new : g = NewRow(e, s, r, n, now)
        /\ \A g \in facts[s] : g \in old \/ g \in facts'[s]
        /\ \A r \in new : NewRow(e, s, r, n, now) \in facts'[s]
        /\ old \subseteq Current(e, s)
    <3>1. \A g \in facts'[s] :
             \/ g \in facts[s] /\ g \notin old
             \/ \E h \in old : g = [h EXCEPT !.to = now]
             \/ \E r \in new : g = NewRow(e, s, r, n, now)
      BY <1>3, WrittenRows
    <3>2. \A g \in facts[s] : g \in old \/ g \in facts'[s]
      BY <1>3, WrittenRows
    <3>3. \A r \in new : NewRow(e, s, r, n, now) \in facts'[s]
      BY <1>3, WrittenRows
    <3>4. old \subseteq Current(e, s)
      BY <1>3, WrittenRows
    <3> QED
      BY <3>1, <3>2, <3>3, <3>4
  <2>2. \A h \in old : h \in Fact /\ [h EXCEPT !.to = now].to = now
    <3>1. \A h \in old : h \in Fact
      BY <2>1 DEF FactsInv, FactsTypeOK, Current
    <3> QED
      BY <3>1 DEF Fact
  <2>3. \A r : NewRow(e, s, r, n, now).entity = e /\ NewRow(e, s, r, n, now).to = Infinity
    BY DEF NewRow
  <2>4. \A h \in old : h.entity = e
    BY <2>1 DEF Current
  <2> HIDE DEF old, new, n
  <2>5. \A g \in Current(d, s)' :
          \/ g \in Current(d, s) /\ (d = e => g \notin old)
          \/ d = e /\ \E r \in new : g = NewRow(e, s, r, n, now)
    BY <1>1, <2>1, <2>2, <2>3 DEF Current
  <2>6. \A g \in Current(d, s) : g \in Current(d, s)' \/ (d = e /\ g \in old)
    BY <2>1, <2>4 DEF Current
  <2>7. d = e => \A r \in new : NewRow(e, s, r, n, now) \in Current(d, s)'
    BY <2>1, <2>3 DEF Current
  <2> QED
    BY <1>3, <2>5, <2>6, <2>7 DEF old, new, n
<1> QED
  BY <1>2, <1>3

\* A row is given a place there is, or none.
LEMMA PlacesGiven ==
  ASSUME FactsInv, NEW e \in Entities, NEW f \in Files, NEW r \in Incoming(f)
  PROVE  PlaceOf(e, f.template, r.raw) \in Places \cup Stores \cup {Blank}
<1>1. Landed(e) \subseteq Places \cup Stores
  BY DEF FactsInv, FactsTypeOK, Landed, Place
<1>2. f.template = "MFGProduction" => r.raw.plant \in Places
  BY StagedRowsOf, IncomingUnique
<1> QED
  BY <1>1, <1>2 DEF PlaceOf, StoreKey

\* The rows a load leaves are rows.
LEMMA FactsTyped ==
  ASSUME FactsInv, NEW e \in Entities, NEW f \in Files, NEW now \in pending, Take(e, f, now)
  PROVE  facts' \in [Streams -> SUBSET Fact']
<1> DEFINE n == Len(loads) + 1
<1>1. n \in DOMAIN loads' /\ now \in 1 .. clock' /\ Fact \subseteq Fact'
  BY TakenAppends
<1>2. facts' = [s \in Streams |-> facts'[s]]
  BY DEF Take
<1>3. ASSUME NEW s \in Streams, NEW g \in facts'[s] PROVE g \in Fact'
  <2> DEFINE old == Superseded(e, s, Incoming(f))
             new == Unmatched(e, s, Incoming(f))
  <2>0. facts[s] \subseteq Fact'
    BY <1>1 DEF FactsInv, FactsTypeOK
  <2>1. CASE g \in facts[s]
    BY <2>0, <2>1
  <2>2. ASSUME NEW h \in old, g = [h EXCEPT !.to = now] PROVE g \in Fact'
    <3>1. h \in Fact'
      BY <2>0 DEF Superseded, Current
    <3> HIDE DEF old, n
    <3> QED
      BY <1>1, <2>2, <3>1 DEF Fact
  <2>3. ASSUME s = f.template, NEW r \in new, g = NewRow(e, s, r, n, now) PROVE g \in Fact'
    <3>1. r \in Incoming(f) /\ r \in FileRows
      BY DEF Unmatched, FileRows
    <3>2. PlaceOf(e, s, r.raw) \in Places \cup Stores \cup {Blank}
      BY <2>3, <3>1, PlacesGiven
    <3> HIDE DEF new, n
    <3> QED
      BY <1>1, <2>3, <3>1, <3>2 DEF Fact, NewRow, FileRows
  <2> QED
    BY <2>1, <2>2, <2>3, WrittenRows
<1> QED
  BY <1>2, <1>3

\* The places after the load: those before it, perhaps with another type, and
\* new ones that have a name and the load's number.
LEMMA PlacesGrow ==
  ASSUME FactsInv, NEW e \in Entities, NEW f \in Files, NEW now \in pending, Take(e, f, now)
  PROVE  /\ places' \subseteq Place'
         /\ \A p \in places : \E q \in places' :
              q.entity = p.entity /\ q.name = p.name /\ q.since = p.since
         /\ \A q \in places' :
              \/ q.since = Len(loads) + 1
              \/ \E p \in places : q.entity = p.entity /\ q.name = p.name /\ q.since = p.since
         /\ f.template = "ConsumerSales" => places' = places
<1> DEFINE n == Len(loads) + 1
           new(names, type) ==
             { [entity |-> e, name |-> p, type |-> type, since |-> n] : p \in names \ Landed(e) }
<1>1. n \in DOMAIN loads' /\ Place \subseteq Place' /\ places \subseteq Place
  BY TakenAppends DEF FactsInv, FactsTypeOK
<1>2. places' = PlacesAfter(e, f, n)
  BY DEF Take
<1> HIDE DEF n
<1>3. ASSUME f.template = "MFGProduction"
      PROVE  /\ places' = places \cup new({ r.plant : r \in Raws(f) }, "plant")
             /\ { r.plant : r \in Raws(f) } \subseteq Places
  BY <1>2, <1>3, StagedRowsOf DEF PlacesAfter, Raws
<1>4. ASSUME f.template = "StoreMaster"
      PROVE  /\ places' = { IF p.entity = e /\ p.name \in { r.store : r \in Raws(f) }
                            THEN [p EXCEPT !.type = "store"] ELSE p : p \in places }
                            \cup new({ r.store : r \in Raws(f) }, "store")
             /\ { r.store : r \in Raws(f) } \subseteq Stores
  BY <1>2, <1>4, StagedRowsOf DEF PlacesAfter, Raws
<1>5. ASSUME f.template \notin {"MFGProduction", "StoreMaster"}
      PROVE  places' = places
  BY <1>2, <1>5 DEF PlacesAfter
<1>6. ASSUME NEW names \in SUBSET (Places \cup Stores), NEW type \in {"plant", "store"}
      PROVE  /\ new(names, type) \subseteq Place'
             /\ \A q \in new(names, type) : q.since = n
  BY <1>1 DEF Place
<1>7. ASSUME NEW p \in Place, NEW q, q = [p EXCEPT !.type = "store"]
      PROVE  /\ q \in Place /\ q.entity = p.entity /\ q.name = p.name /\ q.since = p.since
  BY <1>7 DEF Place
<1>8. CASE f.template = "MFGProduction"
  BY <1>1, <1>3, <1>6, <1>8 DEF n
<1>9. CASE f.template = "StoreMaster"
  <2> DEFINE stores == { r.store : r \in Raws(f) }
             Same(p, q) == q \in Place /\ q.entity = p.entity /\ q.name = p.name /\ q.since = p.since
             typed == { IF p.entity = e /\ p.name \in stores
                        THEN [p EXCEPT !.type = "store"] ELSE p : p \in places }
  <2>1. \A p \in places : \E q \in typed : Same(p, q)
    BY <1>1, <1>7
  <2>2. \A q \in typed : \E p \in places : Same(p, q)
    BY <1>1, <1>7
  <2>3. places' = typed \cup new(stores, "store") /\ stores \subseteq Stores
    BY <1>4, <1>9
  <2>4. new(stores, "store") \subseteq Place' /\ \A q \in new(stores, "store") : q.since = n
    BY <1>6, <2>3
  <2> HIDE DEF typed, new, stores
  <2> QED
    BY <1>1, <1>9, <2>1, <2>2, <2>3, <2>4 DEF n
<1>10. CASE f.template \notin {"MFGProduction", "StoreMaster"}
  BY <1>1, <1>5, <1>10
<1> QED
  BY <1>8, <1>9, <1>10

\* The units declared after the load.
LEMMA UnitsKept ==
  ASSUME FactsInv, NEW e \in Entities, NEW f \in Files, NEW now \in pending, Take(e, f, now)
  PROVE  /\ declared' \in [Entities -> [Items -> Units \cup {NoUnit}]]
         /\ \A d \in Entities, i \in Items : declared[d][i] # NoUnit => declared'[d][i] = declared[d][i]
         /\ f.template = "MFGProduction" => \A r \in Raws(f) : declared'[e][r.item] # NoUnit
<1>1. declared \in [Entities -> [Items -> Units \cup {NoUnit}]] /\ declared' = DeclaredAfter(e, f)
  BY DEF FactsInv, FactsTypeOK, Take
<1>2. CASE f.template # "MFGProduction"
  BY <1>1, <1>2 DEF DeclaredAfter
<1>3. CASE f.template = "MFGProduction"
  <2> DEFINE items == { r.item : r \in Raws(f) }
             after == [i \in Items |-> IF declared[e][i] = NoUnit /\ i \in items
                                       THEN FirstUnit(f, i) ELSE declared[e][i]]
  <2>1. declared' = [declared EXCEPT ![e] = after]
    BY <1>1, <1>3 DEF DeclaredAfter
  <2>2. \A i \in items : FirstUnit(f, i) \in Units
    BY <1>3, FirstUnitIsAUnit
  <2>3. items \subseteq Items
    BY <1>3, StagedRowsOf DEF Raws
  <2>4. after \in [Items -> Units \cup {NoUnit}]
    BY <1>1, <2>2
  <2>5. \A i \in Items : /\ declared[e][i] # NoUnit => after[i] = declared[e][i]
                         /\ i \in items => after[i] # NoUnit
    BY <2>2, NamesAreNotBlank
  <2>6. \A r \in Raws(f) : r.item \in items
    OBVIOUS
  <2> HIDE DEF after, items
  <2> QED
    BY <1>1, <2>1, <2>3, <2>4, <2>5, <2>6
<1> QED
  BY <1>2, <1>3

-----------------------------------------------------------------------------
(* The parts of the invariant over a load that is taken.                   *)

\* An inserted row has a key that no row left current has.
LEMMA OneCurrentKept ==
  ASSUME FactsInv, NEW e \in Entities, NEW f \in Files, NEW now \in pending, Take(e, f, now)
  PROVE  OneCurrentPerKey'
<1> SUFFICES ASSUME NEW s \in Streams, NEW d \in Entities,
                    NEW g \in Current(d, s)', NEW h \in Current(d, s)', g.row.key = h.row.key
             PROVE  g = h
  BY DEF OneCurrentPerKey
<1> DEFINE old == Superseded(e, s, Incoming(f))
           new == Unmatched(e, s, Incoming(f))
           n   == Len(loads) + 1
           own == s = f.template /\ d = e
           Stays(x) == x \in Current(d, s) /\ (own => x \notin old)
           Comes(x) == own /\ \E r \in new : x = NewRow(e, s, r, n, now)
<1>1. (Stays(g) \/ Comes(g)) /\ (Stays(h) \/ Comes(h))
  BY CurrentAfter
<1>2. \A r : NewRow(e, s, r, n, now).row = r
  BY DEF NewRow
<1>3. ASSUME Stays(g), Stays(h) PROVE g = h
  BY <1>3 DEF FactsInv, OneCurrentPerKey
<1>4. ASSUME NEW x, NEW y, Stays(x), Comes(y), x.row.key = y.row.key PROVE FALSE
  <2>1. PICK r \in new : y = NewRow(e, s, r, n, now)
    BY <1>4
  <2>2. own /\ r \in Incoming(f) /\ x.row.key = r.key
    BY <1>2, <1>4, <2>1 DEF Unmatched
  <2>3. x \in Current(e, s) /\ x \notin old
    BY <1>4, <2>2
  <2>4. x.row.hash = r.hash
    BY <2>2, <2>3 DEF Superseded
  <2> QED
    BY <2>1, <2>2, <2>3, <2>4 DEF Unmatched
<1>5. ASSUME Comes(g), Comes(h) PROVE g = h
  <2>1. PICK r \in new : g = NewRow(e, s, r, n, now)
    BY <1>5
  <2>2. PICK q \in new : h = NewRow(e, s, q, n, now)
    BY <1>5
  <2>3. r \in Incoming(f) /\ q \in Incoming(f) /\ r.key = q.key
    BY <1>2, <2>1, <2>2 DEF Unmatched
  <2> QED
    BY <2>1, <2>2, <2>3, IncomingUnique
<1> QED
  BY <1>1, <1>3, <1>4, <1>5

\* A place a load creates is too late for the rows there are, and the rows it
\* inserts find the places there are.
LEMMA LocatedKept ==
  ASSUME FactsInv, NEW e \in Entities, NEW f \in Files, NEW now \in pending, Take(e, f, now)
  PROVE  LocatedIfLandedBefore'
<1> DEFINE s == "ConsumerSales"
           n == Len(loads) + 1
           Before(x, P) ==
             /\ StoreFormat(x.row.raw.channel)
             /\ \E p \in P : p.entity = x.entity /\ p.name = x.row.raw.sub /\ p.since < x.load
<1> SUFFICES ASSUME NEW g \in facts'[s]
             PROVE  (g.place # Blank) <=> Before(g, places')
  BY DEF LocatedIfLandedBefore
<1>1. s \in Streams
  BY DEF Streams
<1>2. /\ Len(loads) \in Nat
      /\ \A x \in facts[s] : x \in Fact /\ x.load \in 1 .. Len(loads)
      /\ \A p \in places : p \in Place /\ p.since \in 1 .. Len(loads) /\ p.name \in Places \cup Stores
  <2>1. Len(loads) \in Nat /\ DOMAIN loads = 1 .. Len(loads)
    BY TakenAppends
  <2> QED
    BY <1>1, <2>1 DEF FactsInv, FactsTypeOK, Fact, Place
<1>3. /\ \A p \in places : \E q \in places' :
           q.entity = p.entity /\ q.name = p.name /\ q.since = p.since
      /\ \A q \in places' :
           \/ q.since = n
           \/ \E p \in places : q.entity = p.entity /\ q.name = p.name /\ q.since = p.since
      /\ f.template = s => places' = places
  BY PlacesGrow
<1>4. ASSUME NEW x \in facts[s] PROVE (x.place # Blank) <=> Before(x, places')
  <2>1. (x.place # Blank) <=> Before(x, places)
    BY DEF FactsInv, LocatedIfLandedBefore
  <2>2. x.load \in Nat /\ ~ (n < x.load)
    BY <1>2
  <2>3. Before(x, places') <=> Before(x, places)
    BY <1>3, <2>2
  <2> QED
    BY <2>1, <2>3
<1>5. ASSUME NEW h \in facts[s], g = [h EXCEPT !.to = now] PROVE (g.place # Blank) <=> Before(g, places')
  <2>1. g.entity = h.entity /\ g.row = h.row /\ g.place = h.place /\ g.load = h.load
    BY <1>2, <1>5 DEF Fact
  <2> QED
    BY <1>4, <2>1
<1>6. ASSUME s = f.template, NEW r, g = NewRow(e, s, r, n, now)
      PROVE  (g.place # Blank) <=> Before(g, places')
  <2>1. g.entity = e /\ g.row = r /\ g.load = n /\ g.place = PlaceOf(e, s, r.raw)
    BY <1>6 DEF NewRow
  <2>2. g.place = StoreKey(e, r.raw)
    BY <2>1 DEF PlaceOf
  <2>3. Landed(e) \subseteq Places \cup Stores /\ Blank \notin Landed(e)
    BY <1>2, NamesAreNotBlank DEF Landed
  <2>4. \A p \in places : p.since < n
    BY <1>2
  <2>5. places' = places
    BY <1>3, <1>6
  <2> HIDE DEF n
  <2>6. r.raw.sub \in Landed(e) <=> \E p \in places : p.entity = e /\ p.name = r.raw.sub
    BY DEF Landed
  <2> QED
    BY <2>1, <2>2, <2>3, <2>4, <2>5, <2>6 DEF StoreKey
<1>7. CASE s # f.template
  <2>1. g \in facts[s]
    BY <1>1, <1>7, WrittenRows
  <2> QED
    BY <1>4, <2>1
<1>8. CASE s = f.template
  <2> DEFINE old == Superseded(e, s, Incoming(f))
             new == Unmatched(e, s, Incoming(f))
  <2>1. /\ \/ g \in facts[s]
           \/ \E h \in old : g = [h EXCEPT !.to = now]
           \/ \E r \in new : g = NewRow(e, s, r, n, now)
        /\ old \subseteq Current(e, s)
    BY <1>1, <1>8, WrittenRows
  <2>2. old \subseteq facts[s]
    BY <2>1 DEF Current
  <2> HIDE DEF old, new
  <2> QED
    BY <1>4, <1>5, <1>6, <1>8, <2>1, <2>2
<1> QED
  BY <1>7, <1>8

\* A finite set is listed, each element at one place.
LEMMA Listed ==
  ASSUME NEW S, IsFiniteSet(S)
  PROVE  /\ Cardinality(S) \in Nat
         /\ SetToSeq(S) \in [1 .. Cardinality(S) -> S]
         /\ \A x \in S : \E k \in 1 .. Cardinality(S) : SetToSeq(S)[k] = x
<1> DEFINE c == Cardinality(S)
           list == SetToSeq(S)
<1>1. c \in Nat /\ ExistsBijection(1 .. c, S)
  BY FS_CardinalityType
<1>2. \E g \in [1 .. c -> S] : IsInjective(g)
  BY <1>1 DEF ExistsBijection, Bijection, Injection
<1>3. list \in [1 .. c -> S] /\ IsInjective(list)
  BY <1>2 DEF SetToSeq
<1>4. IsFiniteSet(1 .. c) /\ Cardinality(1 .. c) = c
  BY <1>1, FS_Interval
<1>5. list \in Injection(1 .. c, S)
  BY <1>3 DEF Injection
<1> HIDE DEF list
<1>6. list \in Surjection(1 .. c, S)
  BY <1>4, <1>5, FS_Injection
<1> QED
  BY <1>1, <1>3, <1>6 DEF Surjection, list

\* A load names a finite number of new parties.
LEMMA NewPartiesFinite ==
  ASSUME NEW f \in Files
  PROVE  IsFiniteSet(NewParties(f)) /\ NewParties(f) \subseteq Parties \ DOMAIN tokens
<1>1. CASE f.template # "GL"
  BY <1>1, FS_EmptySet DEF NewParties
<1>2. CASE f.template = "GL"
  <2> DEFINE v == StagedRows(f)
             parties == { r.party : r \in Raws(f) }
             party == [i \in DOMAIN v |-> v[i].raw.party]
  <2>1. parties = { v[i].raw.party : i \in DOMAIN v }
    BY DEF Raws
  <2>2. party \in Surjection(DOMAIN v, parties)
    BY <2>1 DEF Surjection
  <2>3. IsFiniteSet(DOMAIN v) /\ parties \subseteq Parties \cup {Blank}
    BY <1>2, <2>1, StagedRowsOf
  <2>4. NewParties(f) = parties \ (DOMAIN tokens \cup {Blank})
    BY <1>2 DEF NewParties
  <2> HIDE DEF v, parties, party
  <2>5. IsFiniteSet(parties)
    BY <2>2, <2>3, FS_Surjection
  <2> QED
    BY <2>3, <2>4, <2>5, FS_Subset
<1> QED
  BY <1>1, <1>2

\* New parties get the numbers after those given.
LEMMA TokensKept ==
  ASSUME FactsInv, NEW e \in Entities, NEW f \in Files, NEW now \in pending, Take(e, f, now)
  PROVE  /\ DOMAIN tokens' = DOMAIN tokens \cup NewParties(f)
         /\ DOMAIN tokens' \subseteq Parties
         /\ tokens' \in [DOMAIN tokens' -> Nat]
         /\ TokensCounted' /\ TokensDistinct'
<1> DEFINE P == NewParties(f)
           K == DOMAIN tokens
           c == Cardinality(P)
           t == Cardinality(K)
           list == SetToSeq(P)
           place(x) == CHOOSE k \in DOMAIN list : list[k] = x
<1>1. IsFiniteSet(P) /\ P \subseteq Parties \ K
  BY NewPartiesFinite
<1>2. IsFiniteSet(K) /\ K \subseteq Parties /\ \A x \in K : tokens[x] \in 1 .. t
  BY DEF FactsInv, FactsTypeOK, TokensCounted
<1>3. tokens' = [x \in K \cup P |-> IF x \in K THEN tokens[x] ELSE t + place(x)]
  BY DEF Take, TokensAfter
<1> HIDE DEF P, K
<1>4. c \in Nat /\ t \in Nat /\ DOMAIN list = 1 .. c
      /\ \A x \in P : \E k \in 1 .. c : list[k] = x
  BY <1>1, <1>2, Listed, FS_CardinalityType
<1> HIDE DEF list
<1>5. \A x \in P : place(x) \in 1 .. c /\ list[place(x)] = x
  BY <1>4
<1>6. IsFiniteSet(K \cup P) /\ Cardinality(K \cup P) = t + c
  <2>1. K \cap P = {}
    BY <1>1
  <2>2. Cardinality(K \cap P) = 0
    BY <2>1, FS_EmptySet
  <2>3. /\ IsFiniteSet(K \cup P)
        /\ Cardinality(K \cup P) = Cardinality(K) + Cardinality(P) - Cardinality(K \cap P)
    BY <1>1, <1>2, FS_Union
  <2> QED
    BY <1>4, <2>2, <2>3
<1> HIDE DEF c, t, place
<1>7. DOMAIN tokens' = K \cup P
  BY <1>3
<1>8. \A x \in K : tokens'[x] = tokens[x] /\ tokens'[x] \in 1 .. t
  BY <1>2, <1>3
<1>9. \A x \in P : tokens'[x] = t + place(x) /\ tokens'[x] \in t + 1 .. t + c
  BY <1>1, <1>3, <1>4, <1>5
<1>10. TokensCounted'
  <2>1. \A x \in K \cup P : tokens'[x] \in 1 .. t + c
    BY <1>4, <1>8, <1>9
  <2> QED
    BY <1>6, <1>7, <2>1, Zenon DEF TokensCounted
<1>11. TokensDistinct'
  <2> SUFFICES ASSUME NEW x \in K \cup P, NEW y \in K \cup P, tokens'[x] = tokens'[y]
               PROVE  x = y
    BY <1>7 DEF TokensDistinct
  <2>1. CASE x \in K /\ y \in K
    BY <1>8, <2>1 DEF FactsInv, TokensDistinct, K
  <2>2. CASE x \in P /\ y \in P
    <3>1. place(x) = place(y)
      BY <1>4, <1>5, <1>9, <2>2
    <3> QED
      BY <1>5, <2>2, <3>1
  <2>3. CASE (x \in K /\ y \in P) \/ (x \in P /\ y \in K)
    BY <1>4, <1>8, <1>9, <2>3
  <2> QED
    BY <2>1, <2>2, <2>3
<1>12. tokens' \in [K \cup P -> Nat]
  <2>1. \A x \in K \cup P : tokens'[x] \in Nat
    BY <1>4, <1>8, <1>9
  <2> QED
    BY <1>3, <2>1
<1> QED
  BY <1>1, <1>2, <1>7, <1>10, <1>11, <1>12 DEF P, K

\* A row comes with its item's declared unit, and a unit once declared stays.
LEMMA UnitsDeclaredKept ==
  ASSUME FactsInv, NEW e \in Entities, NEW f \in Files, NEW now \in pending, Take(e, f, now)
  PROVE  UnitsDeclared'
<1> DEFINE s == "MFGProduction"
<1> SUFFICES ASSUME NEW d \in Entities, NEW i \in Items, NEW g \in Current(d, s)', g.row.raw.item = i
             PROVE  declared'[d][i] # NoUnit
  BY DEF UnitsDeclared
<1>1. s \in Streams
  BY DEF Streams
<1>2. CASE g \in Current(d, s)
  BY <1>2, UnitsKept DEF FactsInv, UnitsDeclared
<1>3. ASSUME s = f.template, d = e, NEW r \in Unmatched(e, s, Incoming(f)), g = NewRow(e, s, r, Len(loads) + 1, now)
      PROVE  declared'[d][i] # NoUnit
  <2>1. g.row = r /\ r \in Incoming(f)
    BY <1>3 DEF NewRow, Unmatched
  <2>2. r.raw \in Raws(f)
    BY <2>1, IncomingUnique
  <2> QED
    BY <1>3, <2>1, <2>2, UnitsKept
<1> QED
  BY <1>1, <1>2, <1>3, CurrentAfter

\* After the load its rows are current and its places have landed: the same
\* file again would bring nothing.
LEMMA SettledAfter ==
  ASSUME FactsInv, NEW e \in Entities, NEW f \in Files, NEW now \in pending, Take(e, f, now)
  PROVE  LastLoadTold'
<1> DEFINE n == Len(loads) + 1
           new(names, type) ==
             { [entity |-> e, name |-> p, type |-> type, since |-> n] : p \in names \ Landed(e) }
<1>1. /\ loads' # <<>> /\ Len(loads') = n
      /\ loads'[n] = [entity |-> e, file |-> f, outcome |-> "succeeded"]
  BY TakenAppends
<1>2. places' = PlacesAfter(e, f, n) /\ \A p \in places : p \in Place
  BY DEF Take, FactsInv, FactsTypeOK
<1>3. ASSUME f.template \in Streams, NEW r \in Incoming(f)
      PROVE  \E g \in Current(e, f.template)' : g.row.key = r.key /\ g.row.hash = r.hash
  <2> DEFINE s == f.template
  <2>1. CASE r \in Unmatched(e, s, Incoming(f))
    <3>1. NewRow(e, s, r, n, now) \in Current(e, s)'
      BY <1>3, <2>1, CurrentAfter
    <3> QED
      BY <3>1 DEF NewRow
  <2>2. CASE r \notin Unmatched(e, s, Incoming(f))
    <3>1. PICK g \in Current(e, s) : g.row.key = r.key /\ g.row.hash = r.hash
      BY <2>2 DEF Unmatched
    <3>2. g \notin Superseded(e, s, Incoming(f))
      <4> SUFFICES ASSUME NEW q \in Incoming(f), g.row.key = q.key, g.row.hash # q.hash PROVE FALSE
        BY DEF Superseded
      <4> QED
        BY <3>1, IncomingUnique
    <3> QED
      BY <1>3, <3>1, <3>2, CurrentAfter
  <2> QED
    BY <2>1, <2>2
<1>4. ASSUME f.template = "MFGProduction", NEW r \in Raws(f)
      PROVE  r.plant \in Landed(e)' /\ declared'[e][r.item] # NoUnit
  <2>1. places' = places \cup new({ q.plant : q \in Raws(f) }, "plant")
    BY <1>2, <1>4 DEF PlacesAfter
  <2>2. r.plant \in Landed(e) => r.plant \in Landed(e)'
    BY <2>1 DEF Landed
  <2>3. r.plant \notin Landed(e) => r.plant \in Landed(e)'
    <3> SUFFICES ASSUME r.plant \notin Landed(e) PROVE r.plant \in Landed(e)'
      OBVIOUS
    <3>1. [entity |-> e, name |-> r.plant, type |-> "plant", since |-> n] \in places'
      BY <2>1
    <3> QED
      BY <3>1 DEF Landed
  <2> QED
    BY <1>4, <2>2, <2>3, UnitsKept
<1>5. ASSUME f.template = "StoreMaster", NEW r \in Raws(f)
      PROVE  /\ r.store \in Landed(e)'
             /\ \A p \in places' : p.entity = e /\ p.name = r.store => p.type = "store"
  <2> DEFINE stores == { q.store : q \in Raws(f) }
             typed == { IF p.entity = e /\ p.name \in stores
                        THEN [p EXCEPT !.type = "store"] ELSE p : p \in places }
  <2>1. places' = typed \cup new(stores, "store") /\ r.store \in stores
    BY <1>2, <1>5 DEF PlacesAfter
  <2>2. \A p \in places : LET q == [p EXCEPT !.type = "store"]
                          IN  q.entity = p.entity /\ q.name = p.name /\ q.type = "store"
    BY <1>2 DEF Place
  <2>3. \A p \in places : \E q \in typed : q.entity = p.entity /\ q.name = p.name
    BY <2>2
  <2>4. \A q \in typed : q.entity = e /\ q.name \in stores => q.type = "store"
    BY <2>2
  <2> HIDE DEF typed, stores
  <2>5. r.store \in Landed(e) => r.store \in Landed(e)'
    BY <2>1, <2>3 DEF Landed
  <2>6. r.store \notin Landed(e) => r.store \in Landed(e)'
    <3> SUFFICES ASSUME r.store \notin Landed(e) PROVE r.store \in Landed(e)'
      OBVIOUS
    <3>1. [entity |-> e, name |-> r.store, type |-> "store", since |-> n] \in places'
      BY <2>1
    <3> QED
      BY <3>1 DEF Landed
  <2>7. \A q \in new(stores, "store") : q.type = "store"
    OBVIOUS
  <2> HIDE DEF new
  <2> QED
    BY <2>1, <2>4, <2>5, <2>6, <2>7
<1>6. NewParties(f)' = {}
  BY TokensKept DEF NewParties
<1>7. Settled(e, f)'
  BY <1>3, <1>4, <1>5, <1>6 DEF Settled
<1> HIDE DEF n
<1> QED
  BY <1>1, <1>7 DEF LastLoadTold

LEMMA FactsStep == FactsInv /\ [FactsNext]_factVars => FactsInv'
<1> SUFFICES ASSUME FactsInv, [FactsNext]_factVars PROVE FactsInv'
  OBVIOUS
<1>1. CASE \/ UNCHANGED factVars \/ Open \/ \E now \in pending : Abandon(now)
  <2>1. /\ UNCHANGED <<loads, facts, places, declared, tokens>>
        /\ clock \in Nat /\ clock' \in {clock, clock + 1} /\ pending' \subseteq 1 .. clock'
    BY <1>1 DEF factVars, Open, Abandon, FactsInv, FactsTypeOK
  <2>2. 1 .. clock \subseteq 1 .. clock'
    BY <2>1
  <2>3. Fact \subseteq Fact'
    BY <2>1, <2>2 DEF Fact
  <2>4. FactsTypeOK'
    BY <2>1, <2>3 DEF FactsInv, FactsTypeOK, Place
  <2>5. /\ OneCurrentPerKey' /\ LocatedIfLandedBefore' /\ TokensCounted' /\ TokensDistinct'
        /\ UnitsDeclared' /\ LastLoadTold'
    BY <2>1 DEF FactsInv, OneCurrentPerKey, LocatedIfLandedBefore, TokensCounted, TokensDistinct,
       UnitsDeclared, LastLoadTold, Current, SchemaBlocked, Recorded, Collides, Unseeded, Settled,
       Landed, NewParties
  <2> QED
    BY <2>4, <2>5 DEF FactsInv
<1>2. ASSUME NEW e \in Entities, NEW f \in Files, NEW now \in pending, Take(e, f, now) PROVE FactsInv'
  <2>1. FactsTypeOK'
    <3>1. /\ loads' \in Seq(Load) /\ clock' \in Nat /\ pending' \subseteq 1 .. clock'
          /\ facts' \in [Streams -> SUBSET Fact'] /\ places' \subseteq Place'
      BY <1>2, TakenAppends, FactsTyped, PlacesGrow
    <3>2. declared' \in [Entities -> [Items -> Units \cup {NoUnit}]]
      BY <1>2, UnitsKept
    <3>3. DOMAIN tokens' \subseteq Parties /\ tokens' \in [DOMAIN tokens' -> Nat]
      BY <1>2, TokensKept
    <3> QED
      BY <3>1, <3>2, <3>3 DEF FactsTypeOK
  <2> QED
    BY <1>2, <2>1, OneCurrentKept, LocatedKept, TokensKept, UnitsDeclaredKept, SettledAfter DEF FactsInv
<1> QED
  BY <1>1, <1>2, NothingWritten DEF FactsNext

LEMMA FactsInvHolds == FactsSpec => []FactsInv
BY FactsInitially, FactsStep, PTL DEF FactsSpec

-----------------------------------------------------------------------------
(* What a load may never do.                                               *)

\* A load shows what was known before its upload began as it was.
LEMMA SnapshotKept ==
  ASSUME FactsInv, NEW e \in Entities, NEW f \in Files, NEW now \in pending, Take(e, f, now),
         NEW s \in Streams, NEW x \in 1 .. clock, x < now
  PROVE  AsKnown(facts', s, x) = AsKnown(facts, s, x)
<1> DEFINE n == Len(loads) + 1
           old == Superseded(e, s, Incoming(f))
           new == Unmatched(e, s, Incoming(f))
           Seen(g) == [entity |-> g.entity, row |-> g.row, place |-> g.place]
           Live(g) == g.from <= x /\ (g.to = Infinity \/ x < g.to)
<1>1. CASE s # f.template
  <2>1. facts'[s] = facts[s]
    BY <1>1, WrittenRows
  <2> QED
    BY <2>1 DEF AsKnown
<1>2. CASE s = f.template
  <2>1. /\ \A g \in facts'[s] :
             \/ g \in facts[s]
             \/ \E h \in old : g = [h EXCEPT !.to = now]
             \/ \E r \in new : g = NewRow(e, s, r, n, now)
        /\ \A g \in facts[s] : g \in facts'[s] \/ (g \in old /\ [g EXCEPT !.to = now] \in facts'[s])
        /\ old \subseteq Current(e, s)
    BY <1>2, WrittenRows
  <2>2. x \in Nat /\ now \in Nat /\ x < now /\ now # Infinity
    BY DEF FactsInv, FactsTypeOK, Infinity
  <2>3. \A h \in old : h \in facts[s] /\ h \in Fact /\ h.to = Infinity
    BY <2>1 DEF Current, FactsInv, FactsTypeOK
  <2>4. ASSUME NEW h \in old, NEW g, g = [h EXCEPT !.to = now]
        PROVE  Seen(g) = Seen(h) /\ (Live(g) <=> Live(h))
    <3>1. g.entity = h.entity /\ g.row = h.row /\ g.place = h.place /\ g.from = h.from /\ g.to = now
      BY <2>3, <2>4 DEF Fact
    <3> QED
      BY <2>2, <2>3, <3>1
  <2>5. ASSUME NEW r PROVE ~Live(NewRow(e, s, r, n, now))
    BY <2>2 DEF NewRow
  <2>6. AsKnown(facts', s, x) = { Seen(g) : g \in { g \in facts'[s] : Live(g) } }
    BY DEF AsKnown
  <2>7. AsKnown(facts, s, x) = { Seen(g) : g \in { g \in facts[s] : Live(g) } }
    BY DEF AsKnown
  <2> HIDE DEF n, old, new, Seen, Live
  <2>8. ASSUME NEW g \in facts'[s], Live(g) PROVE \E h \in facts[s] : Live(h) /\ Seen(h) = Seen(g)
    BY <2>1, <2>3, <2>4, <2>5, <2>8
  <2>9. ASSUME NEW h \in facts[s], Live(h) PROVE \E g \in facts'[s] : Live(g) /\ Seen(g) = Seen(h)
    BY <2>1, <2>4, <2>9
  <2> QED
    BY <2>6, <2>7, <2>8, <2>9
<1> QED
  BY <1>1, <1>2

\* The figures shown of an item are in its declared unit, before and after.
LEMMA ComparableKept ==
  ASSUME FactsInv, FactsNext, NEW e \in Entities, NEW i \in Items
  PROVE  Cardinality(UnitsShown(e, i) \cup UnitsShown(e, i)') <= 1
<1>1. declared[e][i] # NoUnit => declared'[e][i] = declared[e][i]
  BY UnitsKept DEF FactsNext, Open, Abandon, Refuse, Block, Fail
<1>2. UnitsShown(e, i) \subseteq { declared[e][i] } /\ UnitsShown(e, i)' \subseteq { declared'[e][i] }
  BY DEF UnitsShown, MixedUom
<1>3. UnitsShown(e, i) # {} => declared[e][i] # NoUnit
  BY DEF FactsInv, UnitsDeclared, UnitsShown
<1>4. PICK u : UnitsShown(e, i) \cup UnitsShown(e, i)' \subseteq { u }
  BY <1>1, <1>2, <1>3
<1>5. IsFiniteSet({ u }) /\ Cardinality({ u }) = 1
  BY FS_Singleton
<1>6. /\ Cardinality(UnitsShown(e, i) \cup UnitsShown(e, i)') <= Cardinality({ u })
  BY <1>4, <1>5, FS_Subset
<1> QED
  BY <1>5, <1>6

\* A file that is settled changes nothing when it is taken.
LEMMA SettledChangesNothing ==
  ASSUME FactsInv, NEW e \in Entities, NEW f \in Files, NEW now \in pending, Take(e, f, now), Settled(e, f)
  PROVE  UNCHANGED <<facts, places, declared, tokens>>
<1> DEFINE n == Len(loads) + 1
<1>1. /\ facts \in [Streams -> SUBSET Fact] /\ places \subseteq Place
      /\ declared \in [Entities -> [Items -> Units \cup {NoUnit}]]
      /\ tokens = [x \in DOMAIN tokens |-> tokens[x]]
  BY DEF FactsInv, FactsTypeOK
<1>2. facts' = facts
  <2>1. ASSUME NEW s \in Streams, s = f.template PROVE Written(e, s, Incoming(f), n, now) = facts[s]
    <3>1. \A r \in Incoming(f) : \E g \in Current(e, s) : g.row.key = r.key /\ g.row.hash = r.hash
      BY <2>1 DEF Settled
    <3>2. Unmatched(e, s, Incoming(f)) = {}
      BY <3>1 DEF Unmatched
    <3>3. Superseded(e, s, Incoming(f)) = {}
      <4> SUFFICES ASSUME NEW g \in Current(e, s), NEW r \in Incoming(f), g.row.key = r.key, g.row.hash # r.hash
                   PROVE  FALSE
        BY DEF Superseded
      <4> QED
        BY <3>1 DEF FactsInv, OneCurrentPerKey
    <3> QED
      BY <3>2, <3>3 DEF Written, Inserted
  <2>2. facts' = [s \in Streams |-> IF s = f.template THEN Written(e, s, Incoming(f), n, now) ELSE facts[s]]
    BY DEF Take
  <2> HIDE DEF n
  <2> QED
    BY <1>1, <2>1, <2>2
<1>3. places' = places
  <2>1. places' = PlacesAfter(e, f, n)
    BY DEF Take
  <2> HIDE DEF n
  <2>2. CASE f.template = "MFGProduction"
    <3>1. { r.plant : r \in Raws(f) } \ Landed(e) = {}
      BY <2>2 DEF Settled
    <3> QED
      BY <2>1, <2>2, <3>1 DEF PlacesAfter
  <2>3. CASE f.template = "StoreMaster"
    <3> DEFINE stores == { r.store : r \in Raws(f) }
    <3>1. stores \ Landed(e) = {}
      BY <2>3 DEF Settled
    <3>2. \A p \in places : p.entity = e /\ p.name \in stores => p.type = "store"
      BY <2>3 DEF Settled
    <3>3. \A p \in places : (IF p.entity = e /\ p.name \in stores THEN [p EXCEPT !.type = "store"] ELSE p) = p
      BY <1>1, <3>2 DEF Place
    <3>4. places' = { IF p.entity = e /\ p.name \in stores THEN [p EXCEPT !.type = "store"] ELSE p : p \in places }
                    \cup { [entity |-> e, name |-> p, type |-> "store", since |-> n] : p \in stores \ Landed(e) }
      BY <2>1, <2>3 DEF PlacesAfter
    <3> HIDE DEF stores
    <3> QED
      BY <3>1, <3>3, <3>4
  <2>4. CASE f.template \notin {"MFGProduction", "StoreMaster"}
    BY <2>1, <2>4 DEF PlacesAfter
  <2> QED
    BY <2>2, <2>3, <2>4
<1>4. declared' = declared
  <2>1. declared' = DeclaredAfter(e, f)
    BY DEF Take
  <2>2. CASE f.template # "MFGProduction"
    BY <2>1, <2>2 DEF DeclaredAfter
  <2>3. CASE f.template = "MFGProduction"
    <3>1. \A i \in { r.item : r \in Raws(f) } : declared[e][i] # NoUnit
      BY <2>3 DEF Settled
    <3>2. declared' = [declared EXCEPT ![e] = [i \in Items |-> declared[e][i]]]
      BY <2>1, <2>3, <3>1 DEF DeclaredAfter
    <3> QED
      BY <1>1, <3>2
  <2> QED
    BY <2>2, <2>3
<1>5. tokens' = tokens
  <2>1. NewParties(f) = {}
    BY DEF Settled
  <2>2. tokens' = TokensAfter(f)
    BY DEF Take
  <2>3. tokens' = [x \in DOMAIN tokens |-> tokens[x]]
    BY <2>1, <2>2 DEF TokensAfter
  <2> QED
    BY <1>1, <2>3
<1> QED
  BY <1>2, <1>3, <1>4, <1>5

\* The file of the load before again.
LEMMA ReloadKept ==
  ASSUME FactsInv, FactsNext, Len(loads) > 0, Len(loads') = Len(loads) + 1,
         loads'[Len(loads) + 1].file = loads[Len(loads)].file,
         loads'[Len(loads) + 1].entity = loads[Len(loads)].entity
  PROVE  UNCHANGED <<facts, places, declared, tokens>>
<1> SUFFICES ASSUME NEW e \in Entities, NEW f \in Files, NEW now \in pending, Take(e, f, now)
             PROVE  UNCHANGED <<facts, places, declared, tokens>>
  BY DEF FactsNext, Open, Abandon, Refuse, Block, Fail, FactsInv, FactsTypeOK
<1> DEFINE l == loads[Len(loads)]
<1>1. loads # <<>> /\ l \in Load /\ l.file = f /\ l.entity = e
  <2>1. Len(loads) \in Nat /\ loads \in Seq(Load)
    BY DEF FactsInv, FactsTypeOK
  <2>2. loads'[Len(loads) + 1] = [entity |-> e, file |-> f, outcome |-> "succeeded"]
    BY TakenAppends
  <2> QED
    BY <2>1, <2>2
<1>2. /\ l.outcome = "blocked" => SchemaBlocked(f)
      /\ l.outcome = "rolled_back" =>
           Unreadable(f) \/ Collides(e, f.template, Incoming(f)) \/ Unseeded(e, f)
      /\ l.outcome = "succeeded" => Settled(e, f)
  BY <1>1 DEF FactsInv, LastLoadTold
<1>3. l.outcome \in {"succeeded", "blocked", "rolled_back"}
  BY <1>1 DEF Load
<1>4. ~Unreadable(f) /\ ~SchemaBlocked(f) /\ ~Collides(e, f.template, Incoming(f)) /\ ~Unseeded(e, f)
  BY DEF Take
<1>5. Settled(e, f)
  BY <1>2, <1>3, <1>4
<1> QED
  BY <1>5, SettledChangesNothing

-----------------------------------------------------------------------------
\* Types, for any number of loads and whatever the files hold.
THEOREM FactsTypeCorrect == FactsSpec => []FactsTypeOK
<1>1. FactsInv => FactsTypeOK
  BY DEF FactsInv
<1> QED
  BY <1>1, FactsInvHolds, PTL

\* Close-and-insert of the write_*_rows functions never leaves two current
\* rows of one entity under one source_record_id.
THEOREM OneCurrentAlways == FactsSpec => []OneCurrentPerKey
<1>1. FactsInv => OneCurrentPerKey
  BY DEF FactsInv
<1> QED
  BY <1>1, FactsInvHolds, PTL

\* An order row carries its store exactly when the store had landed before it
\* (_resolve_store_location_keys looks up and never creates).
THEOREM AlwaysLocatedIfLandedBefore == FactsSpec => []LocatedIfLandedBefore
<1>1. FactsInv => LocatedIfLandedBefore
  BY DEF FactsInv
<1> QED
  BY <1>1, FactsInvHolds, PTL

\* Numbering tokens from the count of token_map gives no two parties of a
\* tenant the same one (tokenise_batch).
THEOREM TokensAlwaysDistinct == FactsSpec => []TokensDistinct
<1>1. FactsInv => TokensDistinct
  BY DEF FactsInv
<1> QED
  BY <1>1, FactsInvHolds, PTL

\* What is known as of a time by which every upload begun has ended is never
\* rewritten, in whatever order uploads begin and load
\* (sum_amount_base_as_reported_on).
THEOREM SnapshotsAlwaysSettle == FactsSpec => SnapshotsSettle
<1>1. ASSUME FactsInv, FactsNext, NEW s \in Streams, NEW x \in 1 .. clock, \A now \in pending : now > x
      PROVE  AsKnown(facts', s, x) = AsKnown(facts, s, x)
  <2>1. CASE UNCHANGED facts
    BY <2>1 DEF AsKnown
  <2>2. ASSUME NEW now \in pending, NEW e \in Entities, NEW f \in Files, Take(e, f, now)
        PROVE  AsKnown(facts', s, x) = AsKnown(facts, s, x)
    <3>1. x < now
      BY <1>1 DEF FactsInv, FactsTypeOK
    <3> QED
      BY <1>1, <2>2, <3>1, SnapshotKept
  <2> QED
    BY <1>1, <2>1, <2>2 DEF FactsNext, Open, Abandon, Refuse, Block, Fail
<1>2. ASSUME FactsInv, [FactsNext]_factVars
      PROVE  [\A s \in Streams, x \in 1 .. clock :
                (\A now \in pending : now > x) => AsKnown(facts', s, x) = AsKnown(facts, s, x)]_factVars
  BY <1>1, <1>2
<1> QED
  BY <1>2, FactsInvHolds, PTL DEF FactsSpec, SnapshotsSettle

\* Uploading the last file again changes nothing, whatever the last upload
\* came to (row_hash, the schema hash, close-and-insert together).
THEOREM ReloadAlwaysChangesNothing == FactsSpec => ReloadChangesNothing
<1>1. ASSUME FactsInv, [FactsNext]_factVars
      PROVE  [LET n == Len(loads)
              IN  /\ n > 0 /\ Len(loads') = n + 1
                  /\ loads'[n + 1].file = loads[n].file /\ loads'[n + 1].entity = loads[n].entity
                  => UNCHANGED <<facts, places, declared, tokens>>]_factVars
  BY <1>1, ReloadKept
<1> QED
  BY <1>1, FactsInvHolds, PTL DEF FactsSpec, ReloadChangesNothing

\* Per-unit figures of an item are shown in one unit only, before and after
\* any load (stamp_declared_uom, check_mixed_uom).
THEOREM UnitsAlwaysComparable == FactsSpec => UnitsStayComparable
<1>1. ASSUME FactsInv, [FactsNext]_factVars
      PROVE  [\A e \in Entities, i \in Items :
                Cardinality(UnitsShown(e, i) \cup UnitsShown(e, i)') <= 1]_factVars
  BY <1>1, ComparableKept
<1> QED
  BY <1>1, FactsInvHolds, PTL DEF FactsSpec, UnitsStayComparable
=============================================================================
