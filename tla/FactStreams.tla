----------------------------- MODULE FactStreams -----------------------------
(***************************************************************************)
(* The uploads of one tenant: what each load leaves in the fact tables, in *)
(* the dimensions it fills on the way, and in token_map.                   *)
(*                                                                         *)
(* An upload is two steps.  Its transaction opens when the tenant is       *)
(* resolved, before the file is awaited, and now() is that moment for all  *)
(* it writes.  Once it has the file the handler, which is async, holds the *)
(* server's event loop until it has committed: the loads themselves never  *)
(* overlap and each is one action, but they need not come in the order of  *)
(* their now().  What a ledger load does to the periods it touches is      *)
(* MonthEndClose's.                                                        *)
(***************************************************************************)
EXTENDS Staging, FiniteSetsExt, SequencesExt

CONSTANTS Entities, Items, Units, Places, Parties, Stores,
          Words,           \* [channel name -> the keywords it contains]
          SeededEntities,  \* entities seed_dim_channel.py was run for
          Files,           \* the files that may be uploaded
          MaxLoads,        \* bound: uploads
          MaxOpen          \* bound: uploads that await their file at a time

Streams == {"GL", "Bank", "ConsumerSales", "MFGProduction"}
Templates == Streams \cup {"COA", "TB", "StoreMaster"}
NoUnit == "none"

\* What the cells of a file may name.
IsFile(f) ==
  /\ f.template \in Templates
  /\ f.rows \in Seq(ToSet(f.rows))
  /\ \A r \in ToSet(f.rows) :
       /\ f.template = "GL" => r.party \in Parties \cup {Blank}
       /\ f.template = "StoreMaster" => r.store \in Stores \cup {Blank}
       /\ f.template = "MFGProduction" => /\ r.plant \in Places \cup {Blank}
                                          /\ r.item \in Items \cup {Blank}
                                          /\ r.uom \in Units \cup {Blank}

ASSUME FilesAreFiles == \A f \in Files : IsFile(f)
ASSUME NamesAreNotBlank == Blank \notin Places \cup Stores /\ NoUnit \notin Units

VARIABLES clock,     \* the transactions opened so far: the time
          pending,   \* when those of uploads still without their file were opened
          loads,     \* Seq(Load): load_run with its source_file row
          facts,     \* [Streams -> SUBSET Fact]
          places,    \* dim_location
          declared,  \* dim_product.declared_uom
          tokens     \* token_map: [party -> number of its token]

factVars == <<clock, pending, loads, facts, places, declared, tokens>>

\* A file is [template, form: csv or xlsx, header, rows].  header exact: the
\* template's columns; reordered: the same in another order; foreign: columns
\* the template does not know.
\* succeeded has a source_file row, blocked has none; rolled_back left no row
\* at all, only its number drawn from the sequence.
Load == [entity : Entities, file : Files, outcome : {"succeeded", "blocked", "rolled_back"}]

\* A fact has the number of its load, and from and to are valid_from and
\* valid_to, times of the clock.  to = Infinity: is_current.  place:
\* location_key, Blank for NULL.
Infinity == 0

FactsInit ==
  /\ clock = 0 /\ pending = {}
  /\ loads = <<>>
  /\ facts = [s \in Streams |-> {}]
  /\ places = {}
  /\ declared = [e \in Entities |-> [i \in Items |-> NoUnit]]
  /\ tokens = [n \in {} |-> 0]

-----------------------------------------------------------------------------
(* What a file brings.                                                     *)

\* extract_template takes the exact header only; the CSV reader takes any,
\* and of a foreign one finds every cell missing.
Unreadable(f) == f.form = "xlsx" /\ f.header # "exact"
StagedRows(f) == IF f.header = "foreign" THEN <<>> ELSE ValidRows(f.template, f.rows)

\* The last row of the file wins its key.
Incoming(f) ==
  LET v == StagedRows(f)
  IN  { v[i] : i \in { i \in DOMAIN v : \A j \in DOMAIN v : j > i => v[j].key # v[i].key } }

Raws(f) == { StagedRows(f)[i].raw : i \in DOMAIN StagedRows(f) }

\* The rows a file may bring; a fact is one of them with its lineage.
FileRows == UNION { Incoming(f) : f \in Files }
Fact == [ entity : Entities, row : FileRows, place : Places \cup Stores \cup {Blank},
          load : DOMAIN loads, from : 1 .. clock, to : 1 .. clock \cup {Infinity} ]
Place == [ entity : Entities, name : Places \cup Stores, type : {"plant", "store"}, since : DOMAIN loads ]

FactsTypeOK ==
  /\ clock \in Nat /\ pending \subseteq 1 .. clock
  /\ loads \in Seq(Load)
  /\ facts \in [Streams -> SUBSET Fact]
  /\ places \subseteq Place
  /\ declared \in [Entities -> [Items -> Units \cup {NoUnit}]]
  /\ DOMAIN tokens \subseteq Parties
  /\ tokens \in [DOMAIN tokens -> Nat]

\* _last_schema_hash: of the last file recorded for the tenant and template.
Recorded(t) ==
  { i \in DOMAIN loads : loads[i].outcome = "succeeded" /\ loads[i].file.template = t }

\* Only the transactional templates are blocked on a changed header.
SchemaBlocked(f) ==
  /\ f.template \in Streams
  /\ Recorded(f.template) # {}
  /\ loads[Max(Recorded(f.template))].file.header # f.header

\* _classify_channel_type: the first rule whose keyword the name contains.
ChannelRules == <<
  [any |-> {"quick commerce"}, not |-> {}, type |-> "quick_commerce"],
  [any |-> {"marketplace"}, not |-> {}, type |-> "marketplace"],
  [any |-> {"owned retail"}, not |-> {}, type |-> "owned_retail"],
  [any |-> {"retail"}, not |-> {"franchise"}, type |-> "owned_retail"],
  [any |-> {"franchise"}, not |-> {}, type |-> "franchise_retail"],
  [any |-> {"distributor"}, not |-> {}, type |-> "distributor"],
  [any |-> {"export"}, not |-> {}, type |-> "exports"],
  [any |-> {"website", "d2c", "own"}, not |-> {}, type |-> "own_website"] >>

ChannelType(name) ==
  LET fits == { k \in DOMAIN ChannelRules :
                  /\ ChannelRules[k].any \cap Words[name] # {}
                  /\ ChannelRules[k].not \cap Words[name] = {} }
  IN  IF fits = {} THEN "distributor" ELSE ChannelRules[Min(fits)].type

StoreFormat(name) == ChannelType(name) \in {"owned_retail", "franchise_retail"}

-----------------------------------------------------------------------------
(* What a load writes.                                                     *)

Current(e, s) == { f \in facts[s] : f.entity = e /\ f.to = Infinity }
Landed(e) == { p.name : p \in { p \in places : p.entity = e } }

\* Faulty variant: the stores of the tenant, whichever entity they belong to.
StoreKey_AnyEntity(e, r) == IF StoreFormat(r.channel) THEN r.sub ELSE Blank

\* _resolve_store_location_keys: looked up, never created.
StoreKey(e, r) ==
  IF StoreFormat(r.channel) /\ r.sub \in Landed(e) THEN r.sub ELSE Blank

PlaceOf(e, s, r) ==
  CASE s = "ConsumerSales" -> StoreKey(e, r) [] s = "MFGProduction" -> r.plant
    [] OTHER -> Blank

Inserted(e, s, in, n, now) ==
  { [entity |-> e, row |-> r, place |-> PlaceOf(e, s, r.raw), load |-> n, from |-> now, to |-> Infinity] : r \in in }

\* The current rows a file's row matches by key but not by content, and the
\* rows of the file no current row has the key and content of.
Superseded(e, s, in) ==
  { f \in Current(e, s) : \E r \in in : f.row.key = r.key /\ f.row.hash # r.hash }
Unmatched(e, s, in) ==
  { r \in in : ~\E f \in Current(e, s) : f.row.key = r.key /\ f.row.hash = r.hash }

\* Faulty variant: a changed row is inserted and the old one stays current.
Written_NoClose(e, s, in, n, now) == facts[s] \cup Inserted(e, s, Unmatched(e, s, in), n, now)

\* Faulty variant: every match is written again, changed or not.
Written_Always(e, s, in, n, now) ==
  LET old == { f \in Current(e, s) : \E r \in in : f.row.key = r.key }
  IN  (facts[s] \ old) \cup { [f EXCEPT !.to = now] : f \in old } \cup Inserted(e, s, in, n, now)

\* Faulty variant: a closed row is deleted.
Written_Deletes(e, s, in, n, now) ==
  (facts[s] \ Superseded(e, s, in)) \cup Inserted(e, s, Unmatched(e, s, in), n, now)

\* Faulty variant: a closed row is dated to after this load.
Written_ClosesAhead(e, s, in, n, now) ==
  LET old == Superseded(e, s, in)
  IN  (facts[s] \ old) \cup { [f EXCEPT !.to = now + 1] : f \in old }
        \cup Inserted(e, s, Unmatched(e, s, in), n, now)

\* facts[s] after load n of the rows in, whose transaction opened at now: a current row with the same key and
\* content is left alone, one with other content is closed, the rest inserted.
Written(e, s, in, n, now) ==
  LET old == Superseded(e, s, in)
  IN  (facts[s] \ old) \cup { [f EXCEPT !.to = now] : f \in old }
        \cup Inserted(e, s, Unmatched(e, s, in), n, now)

\* The current rows of fact_gl_entry and of fact_bank_txn are unique by
\* content over all entities of the tenant.
Collides(e, s, in) ==
  /\ s \in {"GL", "Bank"}
  /\ \E d \in Entities \ {e} : \E f \in Current(d, s), r \in in : f.row.hash = r.hash

\* resolve_channel_key raises when the channels were not seeded.
Unseeded(e, f) == f.template = "ConsumerSales" /\ DOMAIN StagedRows(f) # {} /\ e \notin SeededEntities

\* resolve_location_keys_batch creates the plants it does not find,
\* write_store_master_rows creates or overwrites the stores of the file.
PlacesAfter(e, f, n) ==
  LET new(names, type) == { [entity |-> e, name |-> p, type |-> type, since |-> n] : p \in names \ Landed(e) }
      stores == { r.store : r \in Raws(f) }
  IN  CASE f.template = "MFGProduction" -> places \cup new({ r.plant : r \in Raws(f) }, "plant")
        [] f.template = "StoreMaster"   ->
             { IF p.entity = e /\ p.name \in stores THEN [p EXCEPT !.type = "store"] ELSE p : p \in places }
               \cup new(stores, "store")
        [] OTHER -> places

\* The unit of the first row of the file, in file order, that names the item.
FirstUnit(f, i) ==
  LET v == StagedRows(f)
  IN  v[Min({ k \in DOMAIN v : v[k].raw.item = i })].raw.uom

\* Faulty variant: the declared unit follows the latest file.
DeclaredAfter_Latest(e, f) ==
  IF f.template # "MFGProduction" THEN declared
  ELSE [declared EXCEPT ![e] = [i \in Items |->
          IF i \in { r.item : r \in Raws(f) } THEN FirstUnit(f, i) ELSE declared[e][i]]]

\* stamp_declared_uom: the first unit ever seen stays.
DeclaredAfter(e, f) ==
  IF f.template # "MFGProduction" THEN declared
  ELSE [declared EXCEPT ![e] = [i \in Items |->
          IF declared[e][i] = NoUnit /\ i \in { r.item : r \in Raws(f) }
          THEN FirstUnit(f, i) ELSE declared[e][i]]]

\* tokenise_batch is asked for the parties of a ledger only.
NewParties(f) ==
  IF f.template = "GL" THEN { r.party : r \in Raws(f) } \ (DOMAIN tokens \cup {Blank}) ELSE {}

\* Faulty variant: each new party is numbered on its own, by the count of
\* those known when the file came.
TokensAfter_SameCount(f) ==
  [n \in DOMAIN tokens \cup NewParties(f) |->
     IF n \in DOMAIN tokens THEN tokens[n] ELSE Cardinality(DOMAIN tokens) + 1]

\* tokenise_batch: new parties are numbered from the count of those known.
TokensAfter(f) ==
  LET order == SetToSeq(NewParties(f))
  IN  [n \in DOMAIN tokens \cup NewParties(f) |->
         IF n \in DOMAIN tokens THEN tokens[n]
         ELSE Cardinality(DOMAIN tokens) + CHOOSE k \in DOMAIN order : order[k] = n]

-----------------------------------------------------------------------------
\* resolve_tenant's first statement; the file is awaited from here on.
Open ==
  /\ clock < MaxLoads /\ Cardinality(pending) < MaxOpen
  /\ clock' = clock + 1 /\ pending' = pending \cup {clock + 1}
  /\ UNCHANGED <<loads, facts, places, declared, tokens>>

\* A template that does not exist, or a client that has gone: the connection
\* closes before there is a load.
Abandon(now) ==
  /\ pending' = pending \ {now}
  /\ UNCHANGED <<clock, loads, facts, places, declared, tokens>>

\* The load that the upload opened at now ends with.
Record(e, f, now, outcome) ==
  /\ pending' = pending \ {now}
  /\ loads' = Append(loads, [entity |-> e, file |-> f, outcome |-> outcome])
  /\ UNCHANGED clock

\* XlsxTemplateError: 422 after a rollback.
Refuse(e, f, now) ==
  /\ Unreadable(f)
  /\ Record(e, f, now, "rolled_back")
  /\ UNCHANGED <<facts, places, declared, tokens>>

\* The load_run row is committed as failed, then 422.
Block(e, f, now) ==
  /\ ~Unreadable(f)
  /\ SchemaBlocked(f)
  /\ Record(e, f, now, "blocked")
  /\ UNCHANGED <<facts, places, declared, tokens>>

\* A row the database refuses, or a channel that is not there: 500, and the
\* connection closes without a commit.
Fail(e, f, now) ==
  /\ ~Unreadable(f) /\ ~SchemaBlocked(f)
  /\ Collides(e, f.template, Incoming(f)) \/ Unseeded(e, f)
  /\ Record(e, f, now, "rolled_back")
  /\ UNCHANGED <<facts, places, declared, tokens>>

Take(e, f, now) ==
  LET n == Len(loads) + 1
  IN  /\ ~Unreadable(f) /\ ~SchemaBlocked(f)
      /\ ~Collides(e, f.template, Incoming(f)) /\ ~Unseeded(e, f)
      /\ Record(e, f, now, "succeeded")
      /\ facts' = [s \in Streams |-> IF s = f.template THEN Written(e, s, Incoming(f), n, now)
                                                     ELSE facts[s]]
      /\ places' = PlacesAfter(e, f, n)
      /\ declared' = DeclaredAfter(e, f)
      /\ tokens' = TokensAfter(f)

FactsNext ==
  \/ Open
  \/ \E now \in pending :
       \/ Abandon(now)
       \/ \E e \in Entities, f \in Files :
            Refuse(e, f, now) \/ Block(e, f, now) \/ Fail(e, f, now) \/ Take(e, f, now)

FactsSpec == FactsInit /\ [][FactsNext]_factVars

-----------------------------------------------------------------------------
(* Properties.                                                             *)

\* No stream holds two current rows of one entity under one source_record_id:
\* what close-and-insert of every write_*_rows promises its readers, who sum
\* over is_current.
OneCurrentPerKey ==
  \A s \in Streams, e \in Entities : \A f, g \in Current(e, s) : f.row.key = g.row.key => f = g

\* The rows of a stream as known at time x: valid_from <= x < valid_to
\* (sum_amount_base_as_reported_on).
AsKnown(F, s, x) ==
  { [entity |-> f.entity, row |-> f.row, place |-> f.place] :
      f \in { f \in F[s] : f.from <= x /\ (f.to = Infinity \/ x < f.to) } }

\* What is known as of a time is settled once every upload begun by then has
\* ended: from then on sum_amount_base_as_reported_on gives the same answer for
\* ever, in whatever order later uploads load and whatever they close.
SnapshotsSettle ==
  [][\A s \in Streams, x \in 1 .. clock :
       (\A now \in pending : now > x) => AsKnown(facts', s, x) = AsKnown(facts, s, x)]_factVars

\* Uploading the file of the load before again, for the same entity, closes
\* and inserts nothing: "what makes re-uploading a file idempotent" (hashing.py).
ReloadChangesNothing ==
  [][LET n == Len(loads)
     IN  /\ n > 0 /\ Len(loads') = n + 1
         /\ loads'[n + 1].file = loads[n].file /\ loads'[n + 1].entity = loads[n].entity
         => UNCHANGED <<facts, places, declared, tokens>>]_factVars

\* An order row of a store-format channel carries its store exactly when the
\* store had landed for its entity before the row was inserted, by whichever
\* template, and no other row carries one (write_channel_order_rows).
LocatedIfLandedBefore ==
  \A f \in facts["ConsumerSales"] :
    (f.place # Blank) <=>
      /\ StoreFormat(f.row.raw.channel)
      /\ \E p \in places : p.entity = f.entity /\ p.name = f.row.raw.sub /\ p.since < f.load

\* check_mixed_uom: the months whose per-unit figures of an item are refused.
MixedUom(e, i) ==
  { f.row.raw.date : f \in { f \in Current(e, "MFGProduction") :
                               f.row.raw.item = i /\ f.row.raw.uom # declared[e][i] } }

\* The units of the figures that are not refused.
UnitsShown(e, i) ==
  { f.row.raw.uom : f \in { f \in Current(e, "MFGProduction") :
                              f.row.raw.item = i /\ f.row.raw.date \notin MixedUom(e, i) } }

\* Per-unit figures of an item that are shown, of whatever month and before
\* and after whatever load, are all in one unit: "the reference point itself
\* must stay fixed, not drift to whatever arrived most recently".
UnitsStayComparable ==
  [][\A e \in Entities, i \in Items :
       Cardinality(UnitsShown(e, i) \cup UnitsShown(e, i)') <= 1]_factVars

\* No two parties of the tenant share a token, though a token's number is a
\* count of the rows of token_map and not a sequence's.  (UNIQUE(tenant_id,
\* token) would turn a shared token into a failed upload.)
TokensDistinct == \A n, m \in DOMAIN tokens : tokens[n] = tokens[m] => n = m

\* "a row later closed and superseded still counts if it was current at the
\* snapshot instant" (sum_amount_base_as_reported_on): no row is closed as of a
\* time before it was known.
KnownWhileCurrent ==
  \A s \in Streams : \A f \in facts[s] : f.to # Infinity => f.from < f.to

\* "a row failing structural validity is quarantined, not silently coerced"
\* (staging.py): a ledger line that is let through is booked at its debit less
\* its credit.
BookedAtItsAmount ==
  \A f \in facts["GL"] :
    GlAmount(f.row.raw) = Value[f.row.raw.debit] - Value[f.row.raw.credit]

\* "row_hash ... drives deduplication and change detection" (hashing.py): after
\* a load the current row of every line of the file is what the file says.
CorrectionLands ==
  [][\A s \in Streams :
       LET n == Len(loads) + 1
       IN  Len(loads') = n /\ loads'[n].outcome = "succeeded" /\ loads'[n].file.template = s
           => \A r \in Incoming(loads'[n].file) :
                \E f \in facts'[s] : /\ f.entity = loads'[n].entity /\ f.to = Infinity
                                     /\ f.row.key = r.key /\ f.row.rest = r.rest]_factVars
=============================================================================
