-------------------------- MODULE PackSignoffProofs --------------------------
(***************************************************************************)
(* What TLAPS proves of editing and signing packs, for any number of       *)
(* requests in flight, packs and edits.                                    *)
(***************************************************************************)
EXTENDS PackSignoff, TLAPS

-----------------------------------------------------------------------------
(* Lemmas: what the two writes make of a row.                              *)

\* A fresh pack is a draft without wording or override.
LEMMA FreshFields ==
  /\ Fresh \in Pack
  /\ Fresh.status = "draft" /\ Fresh.commentary = NoText
  /\ Fresh.sections.summary = NoText /\ Fresh.sections.override = FALSE
BY DEF Fresh, Pack, Sections, Hashed, ContentHash, Wording

\* An edit replaces both wordings and takes the rest of the sections from the
\* row as it was read.
LEMMA EditedFields ==
  ASSUME NEW old \in Pack, NEW copy \in Pack, NEW text \in Wording
  PROVE  /\ Edited(old, copy, text) \in Pack
         /\ Edited(old, copy, text).status = old.status
         /\ Edited(old, copy, text).commentary = text
         /\ Edited(old, copy, text).sections.summary = text
         /\ Edited(old, copy, text).sections.override = copy.sections.override
<1> DEFINE sections == [copy.sections EXCEPT !.summary = text]
<1>1. copy.sections \in Sections
  BY DEF Pack
<1>2. /\ sections \in Sections /\ sections.summary = text
      /\ sections.override = copy.sections.override
  BY <1>1 DEF Sections
<1>3. ContentHash(copy.sections, text) \in Hashed
  BY <1>1 DEF ContentHash, Hashed
<1> HIDE DEF sections
<1>4. Edited(old, copy, text) =
        [old EXCEPT !.commentary = text, !.sections = sections,
                    !.hash = ContentHash(copy.sections, text)]
  BY DEF Edited, sections
<1> QED
  BY <1>2, <1>3, <1>4 DEF Pack

\* A signing keeps the commentary column and takes the sections from the row
\* as it was read, with the override when its gate found something open.
LEMMA SignedFields ==
  ASSUME NEW s \in Sessions, NEW old \in Pack, NEW copy \in Pack, NEW found
  PROVE  /\ Signed(s, old, copy, found) \in Pack
         /\ Signed(s, old, copy, found).status = "signed"
         /\ Signed(s, old, copy, found).commentary = old.commentary
         /\ Signed(s, old, copy, found).sections.summary = copy.sections.summary
         /\ found # {} => Signed(s, old, copy, found).sections.override
<1> DEFINE sections == [copy.sections EXCEPT !.override = @ \/ found # {}]
           hash == IF found # {} THEN ContentHash(sections, copy.commentary) ELSE copy.hash
<1>1. copy.sections \in Sections /\ copy.commentary \in Wording /\ copy.hash \in Hashed
  BY DEF Pack
<1>2. /\ sections \in Sections
      /\ sections.summary = copy.sections.summary
      /\ found # {} => sections.override
  BY <1>1 DEF Sections
<1>3. ContentHash(sections, copy.commentary) \in Hashed
  BY <1>1, <1>2 DEF ContentHash, Hashed
<1>4. hash \in Hashed
  BY <1>1, <1>3
<1>5. Signed(s, old, copy, found) =
        [old EXCEPT !.status = "signed", !.reviewer = s, !.sections = sections, !.hash = hash]
  BY DEF Signed
<1> HIDE DEF sections, hash
<1> QED
  BY <1>2, <1>4, <1>5 DEF Pack

-----------------------------------------------------------------------------
(* Type correctness.                                                       *)

\* A request that starts holds the row as it read it.
LEMMA StartedSession ==
  ASSUME NEW p \in Nat, NEW copy \in Pack, NEW text \in Wording, NEW reason \in BOOLEAN
  PROVE  /\ Idle \in Session
         /\ [Idle EXCEPT !.req = "edit", !.at = "write",
                         !.pack = p, !.copy = copy, !.text = text] \in Session
         /\ [Idle EXCEPT !.req = "sign", !.at = "gate",
                         !.pack = p, !.copy = copy, !.reason = reason] \in Session
BY FreshFields DEF Idle, Session, Wording

\* Replacing one pack keeps the others and their number.
LEMMA ReplacedPack ==
  ASSUME NEW q \in Seq(Pack), NEW p, NEW n, p \in DOMAIN q => n \in Pack
  PROVE  /\ [q EXCEPT ![p] = n] \in Seq(Pack)
         /\ DOMAIN [q EXCEPT ![p] = n] = DOMAIN q
         /\ \A i \in DOMAIN q : [q EXCEPT ![p] = n][i] = IF i = p THEN n ELSE q[i]
<1>1. DOMAIN q = 1..Len(q) /\ Len(q) \in Nat
  OBVIOUS
<1>2. q \in [1..Len(q) -> Pack]
  BY <1>1
<1>3. CASE p \in DOMAIN q
  BY <1>1, <1>2, <1>3
<1>4. CASE p \notin DOMAIN q
  <2>1. [q EXCEPT ![p] = n] = q
    BY <1>1, <1>2, <1>4
  <2> QED
    BY <1>4, <2>1
<1> QED
  BY <1>3, <1>4

\* Every step keeps the types.
LEMMA PackStepType == PackTypeOK /\ [PackNext]_packVars => PackTypeOK'
<1> SUFFICES ASSUME PackTypeOK, [PackNext]_packVars
             PROVE  PackTypeOK'
  OBVIOUS
<1> USE DEF PackTypeOK
<1>1. Idle \in Session
  BY FreshFields DEF Idle, Session, Wording
<1>2. CASE ExceptionsChange
  BY <1>2 DEF ExceptionsChange
<1>3. CASE Generate
  BY <1>3, FreshFields DEF Generate
<1>4. ASSUME NEW s \in Sessions, NEW p \in DOMAIN packs, NEW text \in Texts,
             BeginEdit(s, p, text)
      PROVE  PackTypeOK'
  <2>1. p \in Nat /\ packs[p] \in Pack /\ text \in Wording
    BY DEF Wording
  <2>2. [Idle EXCEPT !.req = "edit", !.at = "write",
                     !.pack = p, !.copy = packs[p], !.text = text] \in Session
    BY <2>1, StartedSession
  <2> QED
    BY <1>4, <2>2 DEF BeginEdit
<1>5. ASSUME NEW s \in Sessions, NEW p \in DOMAIN packs, NEW reason \in BOOLEAN,
             BeginSign(s, p, reason)
      PROVE  PackTypeOK'
  <2>1. p \in Nat /\ packs[p] \in Pack /\ NoText \in Wording
    BY DEF Wording
  <2>2. [Idle EXCEPT !.req = "sign", !.at = "gate",
                     !.pack = p, !.copy = packs[p], !.reason = reason] \in Session
    BY <2>1, StartedSession
  <2> QED
    BY <1>5, <2>2 DEF BeginSign
<1>6. ASSUME NEW s \in Sessions, WriteEdit(s)
      PROVE  PackTypeOK'
  <2> DEFINE p == sess[s].pack
             copy == sess[s].copy
             text == sess[s].text
             event == [pack |-> p, previous |-> copy.commentary, new |-> text]
  <2>1. copy \in Pack /\ text \in Wording /\ p \in Nat
    BY DEF Session
  <2>2. event \in Event
    BY <2>1 DEF Event, Pack
  <2>3. p \in DOMAIN packs => Edited(packs[p], copy, text) \in Pack
    <3>1. p \in DOMAIN packs => packs[p] \in Pack
      OBVIOUS
    <3> QED
      BY <2>1, <3>1, EditedFields
  <2>4. /\ packs' = [packs EXCEPT ![p] = Edited(@, copy, text)]
        /\ events' = Append(events, event)
        /\ sess' = [sess EXCEPT ![s] = Idle]
        /\ open' = open
    BY <1>6 DEF WriteEdit, Finish
  <2> HIDE DEF p, copy, text, event
  <2>5. packs' \in Seq(Pack)
    BY <2>3, <2>4, ReplacedPack
  <2>6. events' \in Seq(Event)
    BY <2>2, <2>4
  <2> QED
    BY <1>1, <2>4, <2>5, <2>6
<1>7. ASSUME NEW s \in Sessions, Gate(s)
      PROVE  PackTypeOK'
  <2>1. [sess[s] EXCEPT !.at = "write", !.found = open] \in Session
    BY DEF Session
  <2> QED
    BY <1>1, <1>7, <2>1 DEF Gate, Finish
<1>8. ASSUME NEW s \in Sessions, WriteSign(s)
      PROVE  PackTypeOK'
  <2> DEFINE p == sess[s].pack
             copy == sess[s].copy
             found == sess[s].found
  <2>1. copy \in Pack
    BY DEF Session
  <2>2. p \in DOMAIN packs => Signed(s, packs[p], copy, found) \in Pack
    <3>1. p \in DOMAIN packs => packs[p] \in Pack
      OBVIOUS
    <3> QED
      BY <2>1, <3>1, SignedFields
  <2>3. /\ packs' = packs \/ packs' = [packs EXCEPT ![p] = Signed(s, @, copy, found)]
        /\ events' = events /\ open' = open
        /\ sess' = [sess EXCEPT ![s] = Idle]
    BY <1>8 DEF WriteSign, Finish
  <2> HIDE DEF p, copy, found
  <2>4. packs' \in Seq(Pack)
    BY <2>2, <2>3, ReplacedPack
  <2> QED
    BY <1>1, <2>3, <2>4
<1>9. CASE UNCHANGED packVars
  BY <1>9 DEF packVars
<1> QED
  BY <1>2, <1>3, <1>4, <1>5, <1>6, <1>7, <1>8, <1>9 DEF PackNext

\* Packs, trail, exceptions and requests keep their types.
THEOREM PackTypeCorrect == PackSpec => []PackTypeOK
<1>1. PackInit => PackTypeOK
  BY FreshFields DEF PackInit, PackTypeOK, Idle, Session, Wording
<1> QED
  BY <1>1, PackStepType, PTL DEF PackSpec

-----------------------------------------------------------------------------
(* The inductive invariant.  A request writes what it read some time ago,  *)
(* so whatever must hold of a row must hold of every copy still held.      *)

\* text is no wording, or one that trail records for pack p.
RecordedIn(trail, p, text) ==
  text = NoText \/ \E i \in DOMAIN trail : trail[i].pack = p /\ trail[i].new = text

PacksRecorded ==
  \A p \in DOMAIN packs : /\ RecordedIn(events, p, packs[p].commentary)
                          /\ RecordedIn(events, p, packs[p].sections.summary)

TrailRecorded ==
  \A i \in DOMAIN events : RecordedIn(events, events[i].pack, events[i].previous)

OverridesSigned ==
  \A p \in DOMAIN packs : packs[p].sections.override => packs[p].status = "signed"

CopiesAreDrafts ==
  \A s \in Sessions : /\ sess[s].copy.status = "draft"
                      /\ ~sess[s].copy.sections.override
                      /\ RecordedIn(events, sess[s].pack, sess[s].copy.commentary)
                      /\ RecordedIn(events, sess[s].pack, sess[s].copy.sections.summary)

GatesPassed ==
  \A s \in Sessions : /\ sess[s].req = "edit" => sess[s].at = "write"
                      /\ sess[s].found # {} => sess[s].reason

PackInv == /\ PackTypeOK /\ PacksRecorded /\ TrailRecorded
           /\ OverridesSigned /\ CopiesAreDrafts /\ GatesPassed

\* The trail only grows: what it records of a pack stays recorded.
LEMMA TrailKept ==
  ASSUME PackTypeOK, [PackNext]_packVars
  PROVE  \A p, text : RecordedIn(events, p, text) => RecordedIn(events', p, text)
<1>1. CASE events' = events
  BY <1>1
<1>2. ASSUME NEW e, events' = Append(events, e)
      PROVE  \A p, text : RecordedIn(events, p, text) => RecordedIn(events', p, text)
  <2>1. events \in Seq(Event)
    BY DEF PackTypeOK
  <2>2. \A i \in DOMAIN events : i \in DOMAIN events' /\ events'[i] = events[i]
    BY <1>2, <2>1
  <2> QED
    BY <2>2 DEF RecordedIn
<1>3. ASSUME NEW s \in Sessions, WriteEdit(s)
      PROVE  \E e : events' = Append(events, e)
  BY <1>3 DEF WriteEdit
<1>4. events' = events \/ \E e : events' = Append(events, e)
  BY <1>3 DEF PackNext, packVars, ExceptionsChange, Generate, BeginEdit, BeginSign,
              Gate, WriteSign
<1> QED
  BY <1>1, <1>2, <1>4

\* A request that has not started, or has finished, holds nothing.
LEMMA IdleHoldsNothing ==
  /\ Idle.copy.status = "draft" /\ ~Idle.copy.sections.override
  /\ Idle.copy.commentary = NoText /\ Idle.copy.sections.summary = NoText
  /\ Idle.req = "none" /\ Idle.found = {}
BY FreshFields DEF Idle

\* Steps that write no row keep what the rows and the trail show; a request
\* that starts reads a draft, one that passes its gate has a reason.
LEMMA ReadsKeepInv ==
  ASSUME PackInv, [PackNext]_packVars, packs' = packs, events' = events,
         NEW s \in Sessions, NEW r \in Session, sess' = [sess EXCEPT ![s] = r],
         r.copy.status = "draft", ~r.copy.sections.override,
         RecordedIn(events, r.pack, r.copy.commentary),
         RecordedIn(events, r.pack, r.copy.sections.summary),
         r.req = "edit" => r.at = "write", r.found # {} => r.reason
  PROVE  PackInv'
<1>1. PackTypeOK'
  BY PackStepType DEF PackInv
<1>2. \A t \in Sessions : sess'[t] = IF t = s THEN r ELSE sess[t]
  BY DEF PackInv, PackTypeOK
<1>3. PacksRecorded' /\ TrailRecorded' /\ OverridesSigned'
  BY DEF PackInv, PacksRecorded, TrailRecorded, OverridesSigned
<1>4. CopiesAreDrafts' /\ GatesPassed'
  BY <1>2 DEF PackInv, CopiesAreDrafts, GatesPassed
<1> QED
  BY <1>1, <1>3, <1>4 DEF PackInv

\* A write that finishes a request and records what it puts into the row.
LEMMA WritesKeepInv ==
  ASSUME PackInv, [PackNext]_packVars, NEW s \in Sessions, Finish(s),
         NEW p, NEW new, p \in DOMAIN packs => new \in Pack,
         packs' = [packs EXCEPT ![p] = new],
         p \in DOMAIN packs => /\ RecordedIn(events', p, new.commentary)
                               /\ RecordedIn(events', p, new.sections.summary)
                               /\ new.sections.override => new.status = "signed",
         TrailRecorded'
  PROVE  PackInv'
<1>1. PackTypeOK'
  BY PackStepType DEF PackInv
<1>2. \A q, text : RecordedIn(events, q, text) => RecordedIn(events', q, text)
  BY TrailKept DEF PackInv
<1>3. /\ DOMAIN packs' = DOMAIN packs
      /\ \A q \in DOMAIN packs : packs'[q] = IF q = p THEN new ELSE packs[q]
  BY ReplacedPack DEF PackInv, PackTypeOK
<1>4. PacksRecorded'
  BY <1>2, <1>3 DEF PackInv, PacksRecorded
<1>5. OverridesSigned'
  BY <1>3 DEF PackInv, OverridesSigned
<1>6. \A t \in Sessions : sess'[t] = IF t = s THEN Idle ELSE sess[t]
  BY DEF PackInv, PackTypeOK, Finish
<1>7. \A q : RecordedIn(events', q, NoText)
  BY DEF RecordedIn
<1>8. CopiesAreDrafts'
  BY <1>2, <1>6, <1>7, IdleHoldsNothing DEF PackInv, CopiesAreDrafts
<1>9. GatesPassed'
  BY <1>6, IdleHoldsNothing DEF PackInv, GatesPassed
<1> QED
  BY <1>1, <1>4, <1>5, <1>8, <1>9 DEF PackInv

LEMMA PackStepInv == PackInv /\ [PackNext]_packVars => PackInv'
<1> SUFFICES ASSUME PackInv, [PackNext]_packVars
             PROVE  PackInv'
  OBVIOUS
<1>1. PackTypeOK /\ PackTypeOK'
  BY PackStepType DEF PackInv
<1>2. \A p : RecordedIn(events, p, NoText) /\ RecordedIn(events', p, NoText)
  BY DEF RecordedIn
<1>3. CASE ExceptionsChange \/ UNCHANGED packVars
  <2>1. packs' = packs /\ events' = events /\ sess' = sess
    BY <1>3 DEF ExceptionsChange, packVars
  <2> QED
    BY <1>1, <2>1 DEF PackInv, PacksRecorded, TrailRecorded, OverridesSigned,
                      CopiesAreDrafts, GatesPassed
<1>4. CASE Generate
  <2>1. packs' = Append(packs, Fresh) /\ events' = events /\ sess' = sess
    BY <1>4 DEF Generate
  <2>2. \A p \in DOMAIN packs' : packs'[p] = Fresh \/ (p \in DOMAIN packs /\ packs'[p] = packs[p])
    <3>1. packs \in Seq(Pack)
      BY <1>1 DEF PackTypeOK
    <3> QED
      BY <2>1, <3>1
  <2>3. PacksRecorded' /\ OverridesSigned'
    BY <1>2, <2>1, <2>2, FreshFields DEF PackInv, PacksRecorded, OverridesSigned
  <2> QED
    BY <1>1, <2>1, <2>3 DEF PackInv, TrailRecorded, CopiesAreDrafts, GatesPassed
<1>5. ASSUME NEW s \in Sessions, NEW p \in DOMAIN packs, NEW text \in Texts,
             BeginEdit(s, p, text)
      PROVE  PackInv'
  <2> DEFINE r == [Idle EXCEPT !.req = "edit", !.at = "write",
                               !.pack = p, !.copy = packs[p], !.text = text]
  <2>1. p \in Nat /\ packs[p] \in Pack /\ text \in Wording
    BY <1>1 DEF PackTypeOK, Wording
  <2>2. /\ r \in Session /\ r.copy = packs[p] /\ r.pack = p
        /\ r.req = "edit" /\ r.at = "write" /\ r.found = {}
    BY <2>1, StartedSession DEF Idle
  <2>3. packs[p].status = "draft" /\ sess' = [sess EXCEPT ![s] = r]
        /\ packs' = packs /\ events' = events
    BY <1>5 DEF BeginEdit, Readable
  <2>4. ~packs[p].sections.override
    BY <2>3 DEF PackInv, OverridesSigned
  <2>5. /\ RecordedIn(events, p, packs[p].commentary)
        /\ RecordedIn(events, p, packs[p].sections.summary)
    BY DEF PackInv, PacksRecorded
  <2> HIDE DEF r
  <2> QED
    BY <2>2, <2>3, <2>4, <2>5, ReadsKeepInv
<1>6. ASSUME NEW s \in Sessions, NEW p \in DOMAIN packs, NEW reason \in BOOLEAN,
             BeginSign(s, p, reason)
      PROVE  PackInv'
  <2> DEFINE r == [Idle EXCEPT !.req = "sign", !.at = "gate",
                               !.pack = p, !.copy = packs[p], !.reason = reason]
  <2>1. p \in Nat /\ packs[p] \in Pack /\ NoText \in Wording
    BY <1>1 DEF PackTypeOK, Wording
  <2>2. /\ r \in Session /\ r.copy = packs[p] /\ r.pack = p
        /\ r.req = "sign" /\ r.found = {}
    BY <2>1, StartedSession DEF Idle
  <2>3. packs[p].status = "draft" /\ sess' = [sess EXCEPT ![s] = r]
        /\ packs' = packs /\ events' = events
    BY <1>6 DEF BeginSign, Readable
  <2>4. ~packs[p].sections.override
    BY <2>3 DEF PackInv, OverridesSigned
  <2>5. /\ RecordedIn(events, p, packs[p].commentary)
        /\ RecordedIn(events, p, packs[p].sections.summary)
    BY DEF PackInv, PacksRecorded
  <2> HIDE DEF r
  <2> QED
    BY <2>2, <2>3, <2>4, <2>5, ReadsKeepInv
<1>7. ASSUME NEW s \in Sessions, Gate(s)
      PROVE  PackInv'
  <2>1. packs' = packs /\ events' = events
    BY <1>7 DEF Gate
  <2>2. CASE sess' = [sess EXCEPT ![s] = Idle]
    <3>1. Idle \in Session
      BY FreshFields DEF Idle, Session, Wording
    <3> QED
      BY <1>2, <2>1, <2>2, <3>1, IdleHoldsNothing, ReadsKeepInv
  <2>3. CASE /\ ~(open # {} /\ ~sess[s].reason)
             /\ sess' = [sess EXCEPT ![s].at = "write", ![s].found = open]
    <3> DEFINE r == [sess[s] EXCEPT !.at = "write", !.found = open]
    <3>1. sess[s] \in Session /\ open \subseteq ExceptionKinds
          /\ sess \in [Sessions -> Session]
      BY <1>1 DEF PackTypeOK
    <3>2. /\ r \in Session /\ r.copy = sess[s].copy /\ r.pack = sess[s].pack
          /\ r.at = "write" /\ r.found = open /\ r.reason = sess[s].reason
      BY <3>1 DEF Session
    <3>3. sess' = [sess EXCEPT ![s] = r]
      BY <2>3, <3>1
    <3>4. /\ sess[s].copy.status = "draft" /\ ~sess[s].copy.sections.override
          /\ RecordedIn(events, sess[s].pack, sess[s].copy.commentary)
          /\ RecordedIn(events, sess[s].pack, sess[s].copy.sections.summary)
      BY DEF PackInv, CopiesAreDrafts
    <3> HIDE DEF r
    <3> QED
      BY <2>1, <2>3, <3>2, <3>3, <3>4, ReadsKeepInv
  <2> QED
    BY <1>7, <2>2, <2>3 DEF Gate, Finish
<1>8. ASSUME NEW s \in Sessions, WriteEdit(s)
      PROVE  PackInv'
  <2> DEFINE p == sess[s].pack
             copy == sess[s].copy
             text == sess[s].text
             event == [pack |-> p, previous |-> copy.commentary, new |-> text]
             new == Edited(packs[p], copy, text)
  <2>1. copy \in Pack /\ text \in Wording /\ events \in Seq(Event)
    BY <1>1 DEF PackTypeOK, Session
  <2>2. ~copy.sections.override /\ RecordedIn(events, p, copy.commentary)
    BY DEF PackInv, CopiesAreDrafts
  <2>3. event.pack = p /\ event.previous = copy.commentary /\ event.new = text
    OBVIOUS
  <2>4. p \in DOMAIN packs =>
          /\ new \in Pack /\ new.commentary = text
          /\ new.sections.summary = text /\ ~new.sections.override
    <3>1. p \in DOMAIN packs => packs[p] \in Pack
      BY <1>1 DEF PackTypeOK
    <3>2. p \in DOMAIN packs =>
            /\ new \in Pack /\ new.commentary = text /\ new.sections.summary = text
            /\ new.sections.override = copy.sections.override
      BY <2>1, <3>1, EditedFields
    <3> QED
      BY <2>2, <3>2
  <2>5. /\ packs' = [packs EXCEPT ![p] = new]
        /\ events' = Append(events, event)
        /\ Finish(s)
    BY <1>8 DEF WriteEdit
  <2> HIDE DEF p, copy, text, event, new
  <2>6. \A q, t : RecordedIn(events, q, t) => RecordedIn(events', q, t)
    BY <1>1, TrailKept
  <2>7. RecordedIn(events', p, text)
    <3>1. Len(events') \in DOMAIN events' /\ events'[Len(events')] = event
      BY <2>1, <2>5
    <3> QED
      BY <2>3, <3>1 DEF RecordedIn
  <2>8. \A i \in DOMAIN events' : events'[i] = event \/ (i \in DOMAIN events /\ events'[i] = events[i])
    BY <2>1, <2>5
  <2>9. TrailRecorded'
    BY <2>2, <2>3, <2>6, <2>8 DEF PackInv, TrailRecorded
  <2> QED
    BY <2>4, <2>5, <2>7, <2>9, WritesKeepInv
<1>9. ASSUME NEW s \in Sessions, WriteSign(s)
      PROVE  PackInv'
  <2> DEFINE p == sess[s].pack
             copy == sess[s].copy
             found == sess[s].found
             new == Signed(s, packs[p], copy, found)
  <2>1. copy \in Pack /\ packs \in Seq(Pack)
    BY <1>1 DEF PackTypeOK, Session
  <2>2. RecordedIn(events, p, copy.sections.summary)
    BY DEF PackInv, CopiesAreDrafts
  <2>3. p \in DOMAIN packs =>
          /\ new \in Pack /\ new.status = "signed"
          /\ new.commentary = packs[p].commentary
          /\ new.sections.summary = copy.sections.summary
    <3>1. p \in DOMAIN packs => packs[p] \in Pack
      BY <2>1
    <3> QED
      BY <2>1, <3>1, SignedFields
  <2>4. p \in DOMAIN packs =>
          /\ RecordedIn(events, p, packs[p].commentary)
          /\ packs[p] \in Pack
          /\ RecordedIn(events, p, packs[p].sections.summary)
          /\ packs[p].sections.override => packs[p].status = "signed"
    BY <2>1 DEF PackInv, PacksRecorded, OverridesSigned
  <2>5. /\ packs' = [packs EXCEPT ![p] = new] \/ packs' = packs
        /\ events' = events
        /\ Finish(s)
    BY <1>9 DEF WriteSign
  <2> HIDE DEF p, copy, found, new
  <2>6. TrailRecorded'
    BY <2>5 DEF PackInv, TrailRecorded
  <2>7. CASE packs' = [packs EXCEPT ![p] = new]
    BY <2>2, <2>3, <2>4, <2>5, <2>6, <2>7, WritesKeepInv
  <2>8. CASE packs' = packs
    <3>1. packs' = [packs EXCEPT ![p] = packs[p]]
      BY <2>1, <2>8
    <3> QED
      BY <2>4, <2>5, <2>6, <3>1, WritesKeepInv
  <2> QED
    BY <2>5, <2>7, <2>8
<1> QED
  BY <1>3, <1>4, <1>5, <1>6, <1>7, <1>8, <1>9 DEF PackNext

LEMMA PackAlwaysInv == PackSpec => []PackInv
<1>1. PackInit => PackInv
  <2> SUFFICES ASSUME PackInit
               PROVE  PackInv
    OBVIOUS
  <2>1. PackTypeOK
    BY FreshFields DEF PackInit, PackTypeOK, Idle, Session, Wording
  <2>2. DOMAIN packs = {} /\ DOMAIN events = {}
    BY DEF PackInit
  <2>3. CopiesAreDrafts /\ GatesPassed
    BY IdleHoldsNothing DEF PackInit, CopiesAreDrafts, GatesPassed, RecordedIn
  <2> QED
    BY <2>1, <2>2, <2>3 DEF PackInv, PacksRecorded, TrailRecorded, OverridesSigned
<1> QED
  BY <1>1, PackStepInv, PTL DEF PackSpec

-----------------------------------------------------------------------------
(* The theorems.                                                           *)

\* However edits and signings overlap, no wording a pack has shown is missing
\* from its edit trail (edit_commentary).
THEOREM WordingNeverLost == PackSpec => []NoWordingLost
<1>1. PackInv => NoWordingLost
  BY DEF PackInv, PacksRecorded, TrailRecorded, RecordedIn, NoWordingLost
<1> QED
  BY <1>1, PackAlwaysInv, PTL

\* Only a step that writes a row changes one that exists, or its status.
LEMMA WhoChangesARow ==
  ASSUME PackInv, [PackNext]_packVars, NEW p \in DOMAIN packs, packs'[p] # packs[p]
  PROVE  \E s \in Sessions :
           /\ sess[s].pack = p /\ sess[s].at = "write" /\ sess[s].copy.status = "draft"
           /\ sess'[s] = Idle
           /\ \/ /\ sess[s].req = "edit"
                 /\ packs'[p].status = packs[p].status
                 /\ ~packs'[p].sections.override
              \/ /\ sess[s].req = "sign" /\ packs'[p].status = "signed"
                 /\ sess[s].found # {} => packs'[p].sections.override /\ sess[s].reason
<1>1. packs \in Seq(Pack) /\ packs[p] \in Pack /\ sess \in [Sessions -> Session]
  BY DEF PackInv, PackTypeOK
<1>2. PICK s \in Sessions : WriteEdit(s) \/ WriteSign(s)
  <2>1. CASE Generate
    BY <1>1, <2>1 DEF Generate
  <2>2. packs' = packs \/ Generate \/ \E s \in Sessions : WriteEdit(s) \/ WriteSign(s)
    BY DEF PackNext, packVars, ExceptionsChange, BeginEdit, BeginSign, Gate
  <2> QED
    BY <2>1, <2>2
<1>3. /\ sess[s] \in Session /\ sess[s].copy \in Pack /\ sess[s].text \in Wording
      /\ sess[s].copy.status = "draft" /\ ~sess[s].copy.sections.override
      /\ sess[s].req = "edit" => sess[s].at = "write"
      /\ sess[s].found # {} => sess[s].reason
  <2>1. sess[s] \in Session /\ sess[s].copy \in Pack /\ sess[s].text \in Wording
    BY <1>1 DEF Session
  <2>2. sess[s].copy.status = "draft" /\ ~sess[s].copy.sections.override
    BY DEF PackInv, CopiesAreDrafts
  <2>3. /\ sess[s].req = "edit" => sess[s].at = "write"
        /\ sess[s].found # {} => sess[s].reason
    <3>1. GatesPassed
      BY DEF PackInv
    <3> QED
      BY <3>1, Zenon DEF GatesPassed
  <2> QED
    BY <2>1, <2>2, <2>3
<1>4. sess'[s] = Idle
  BY <1>1, <1>2 DEF WriteEdit, WriteSign, Finish
<1>5. CASE WriteEdit(s)
  <2> DEFINE new == Edited(packs[sess[s].pack], sess[s].copy, sess[s].text)
  <2>1. packs' = [packs EXCEPT ![sess[s].pack] = new] /\ sess[s].req = "edit"
    BY <1>5 DEF WriteEdit
  <2> HIDE DEF new
  <2>2. sess[s].pack = p /\ packs'[p] = new
    BY <1>1, <2>1
  <2>3. /\ new.status = packs[p].status
        /\ new.sections.override = sess[s].copy.sections.override
    <3>1. new = Edited(packs[p], sess[s].copy, sess[s].text)
      BY <2>2 DEF new
    <3>2. packs[p] \in Pack /\ sess[s].copy \in Pack /\ sess[s].text \in Wording
      BY <1>1, <1>3
    <3> QED
      BY <3>1, <3>2, EditedFields
  <2>4. ~new.sections.override
    BY <1>3, <2>3
  <2> QED
    BY <1>3, <1>4, <2>1, <2>2, <2>3, <2>4
<1>6. CASE WriteSign(s)
  <2> DEFINE new == Signed(s, packs[sess[s].pack], sess[s].copy, sess[s].found)
  <2>1. /\ packs' = [packs EXCEPT ![sess[s].pack] = new] \/ packs' = packs
        /\ sess[s].req = "sign" /\ sess[s].at = "write"
    BY <1>6 DEF WriteSign
  <2> HIDE DEF new
  <2>2. sess[s].pack = p /\ packs'[p] = new
    BY <1>1, <2>1
  <2>3. new.status = "signed" /\ (sess[s].found # {} => new.sections.override)
    BY <1>1, <1>3, <2>2, SignedFields DEF new
  <2> QED
    BY <1>3, <1>4, <2>1, <2>2, <2>3
<1> QED
  BY <1>2, <1>5, <1>6

\* A signed pack stays signed, and only a request that read it before the
\* signing can still change it (edit_commentary, sign_pack).
THEOREM SignedAlwaysHoldsForLaterRequests == PackSpec => SignedHoldsForLaterRequests
<1> DEFINE Holds(p) ==
      /\ packs'[p].status = "signed"
      /\ packs'[p] # packs[p] =>
           \E s \in Sessions : /\ sess[s].pack = p /\ sess[s].at = "write"
                               /\ sess[s].copy.status = "draft"
                               /\ sess'[s] = Idle
<1>1. ASSUME PackInv, [PackNext]_packVars, NEW p \in DOMAIN packs,
             packs[p].status = "signed"
      PROVE  Holds(p)
  BY <1>1, WhoChangesARow
<1>2. PackInv /\ [PackNext]_packVars =>
        [\A p \in DOMAIN packs : packs[p].status = "signed" => Holds(p)]_packVars
  BY <1>1
<1> QED
  BY <1>2, PackAlwaysInv, PTL DEF PackSpec, SignedHoldsForLaterRequests

\* Section 9 shows the override of every signing whose gate found something
\* open, and of no pack that is not signed (sign_pack).
THEOREM OverrideAlwaysShown == PackSpec => OverrideIsShown
<1> DEFINE Shown(p) ==
      /\ packs'[p].sections.override => packs'[p].status = "signed"
      /\ packs[p].status = "draft" /\ packs'[p].status = "signed" =>
           \E s \in Sessions : /\ sess[s].pack = p /\ sess[s].req = "sign"
                               /\ sess[s].at = "write" /\ sess'[s] = Idle
                               /\ sess[s].found # {} =>
                                    packs'[p].sections.override /\ sess[s].reason
<1>1. ASSUME PackInv, [PackNext]_packVars, NEW p \in DOMAIN packs
      PROVE  Shown(p)
  <2>1. packs[p].sections.override => packs[p].status = "signed"
    BY <1>1 DEF PackInv, OverridesSigned
  <2>2. CASE packs'[p] = packs[p]
    BY <2>1, <2>2
  <2>3. CASE packs'[p] # packs[p]
    BY <1>1, <2>3, WhoChangesARow
  <2> QED
    BY <2>2, <2>3
<1>2. PackInv /\ [PackNext]_packVars => [\A p \in DOMAIN packs : Shown(p)]_packVars
  BY <1>1
<1> QED
  BY <1>2, PackAlwaysInv, PTL DEF PackSpec, OverrideIsShown
=============================================================================
