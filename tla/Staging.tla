------------------------------- MODULE Staging -------------------------------
(***************************************************************************)
(* What staging.py makes of the rows of one uploaded file.                 *)
(*                                                                         *)
(* A cell is what a parser makes of it, not its text: a date cell is one   *)
(* of Dates, an amount cell one of DOMAIN Value or "bad" (#DIV/0! and the  *)
(* like), a name is a model value or Blank.  Each template keeps the       *)
(* columns its checks, its key or its row_hash tell apart.                 *)
(***************************************************************************)
EXTENDS Integers, Sequences

Blank == ""

\* _parse_date and _plausible_date: missing covers every cell that is not
\* YYYY-MM-DD; later is past tomorrow.
Plausible == {"dated", "tomorrow"}
Dates == Plausible \cup {"missing", "before_1990", "later"}

\* _parse_decimal: a blank cell is zero, an unreadable one is no number.
Value == [blank |-> 0, zero |-> 0, pos |-> 1, neg |-> -1]
Cells == DOMAIN Value \cup {"bad"}
Reads(c) == c \in DOMAIN Value

\* debit and credit both above zero on one line.
BothSides(r) == Value[r.debit] > 0 /\ Value[r.credit] > 0

\* amount_base of a ledger line: the debit when it is above zero, else the
\* credit with its sign turned.
GlAmount(r) == IF Value[r.debit] > 0 THEN Value[r.debit] ELSE -Value[r.credit]

-----------------------------------------------------------------------------
(* Each template's staging of one row: the staged row alone in a sequence, *)
(* or none when the row is quarantined.  key: source_record_id; hash: the  *)
(* columns row_hash covers; rest: what is written and row_hash leaves out. *)

Quarantined == <<>>
Staged(r, key, hash, rest) == <<[raw |-> r, key |-> key, hash |-> hash, rest |-> rest]>>

\* The code, or the name where there is none.
Account(r) == IF r.code = Blank THEN r.name ELSE r.code

StageCoa(r) ==
  IF ~Reads(r.opening) \/ Account(r) = Blank THEN Quarantined
  ELSE Staged(r, <<Account(r)>>, <<>>, <<>>)

StageTb(r) ==
  IF r.date = "missing" \/ ~Reads(r.closing) THEN Quarantined
  ELSE Staged(r, <<Account(r)>>, <<>>, <<>>)

StageGl(r) ==
  IF \/ r.date \notin Plausible
     \/ ~Reads(r.debit) \/ ~Reads(r.credit)
     \/ BothSides(r)
     \/ Account(r) = Blank
  THEN Quarantined
  ELSE Staged(r, <<r.voucher>>,
              <<r.voucher, r.date, r.code, Value[r.debit], Value[r.credit], r.party>>,
              <<Account(r)>>)

\* A bank line has no number of its own: its content is part of its key.
StageBank(r) ==
  IF \/ r.date \notin Plausible
     \/ ~Reads(r.debit) \/ ~Reads(r.credit)
     \/ BothSides(r)
     \/ r.ref = Blank
  THEN Quarantined
  ELSE LET content == <<r.ref, r.date, Value[r.debit], Value[r.credit]>>
       IN  Staged(r, <<r.ref, content>>, content, <<>>)

\* settlement_date is not among CHANNEL_ORDER_ROW_HASH_FIELDS.
StageChannelOrder(r) ==
  IF \/ r.date \notin Plausible
     \/ Blank \in {r.order, r.item, r.channel}
     \/ ~Reads(r.net)
  THEN Quarantined
  ELSE Staged(r, <<r.order>>, <<r.order, r.date, r.channel, r.sub, r.item, Value[r.net]>>,
              <<r.settled>>)

StageStoreMaster(r) ==
  IF Blank \in {r.store, r.name} \/ r.date = "missing" THEN Quarantined
  ELSE Staged(r, <<r.store>>, <<>>, <<>>)

StageMfgProduction(r) ==
  IF \/ r.date \notin Plausible
     \/ Blank \in {r.item, r.plant, r.uom}
     \/ ~Reads(r.qty)
  THEN Quarantined
  ELSE Staged(r, <<r.date, r.plant, r.item>>,
              <<r.date, r.plant, r.item, Value[r.qty], r.uom>>, <<>>)

Stage(t, r) ==
  CASE t = "COA"           -> StageCoa(r)
    [] t = "TB"            -> StageTb(r)
    [] t = "GL"            -> StageGl(r)
    [] t = "Bank"          -> StageBank(r)
    [] t = "ConsumerSales" -> StageChannelOrder(r)
    [] t = "StoreMaster"   -> StageStoreMaster(r)
    [] t = "MFGProduction" -> StageMfgProduction(r)

\* What makes a second row of the file a duplicate: key and content, or the
\* code alone for a store; the chart and the trial balance keep every row.
Duplicates(t, a, b) ==
  CASE t \in {"COA", "TB"}  -> FALSE
    [] t = "StoreMaster"    -> a.key = b.key
    [] OTHER                -> a.key = b.key /\ a.hash = b.hash

\* The lines that are kept: not refused, and no earlier one is a duplicate.
Kept(t, rows) ==
  { i \in DOMAIN rows :
      /\ Stage(t, rows[i]) # Quarantined
      /\ \A j \in 1 .. i - 1 :
           Stage(t, rows[j]) # Quarantined
             => ~Duplicates(t, Stage(t, rows[j])[1], Stage(t, rows[i])[1]) }

\* The staged row of each line that is kept.
ValidRows(t, rows) == [i \in Kept(t, rows) |-> Stage(t, rows[i])[1]]
=============================================================================
