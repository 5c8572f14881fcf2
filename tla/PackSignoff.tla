----------------------------- MODULE PackSignoff -----------------------------
(***************************************************************************)
(* The packs of one reportable period: generated as drafts, edited and     *)
(* signed by concurrent requests, gated on the blocking exceptions open    *)
(* for the period.                                                         *)
(*                                                                         *)
(* edit_commentary and sign_pack read the report_artefact row, decide, and *)
(* write columns computed from what they read.  The write takes the row    *)
(* lock and the commit follows, so a write is one action at its commit;    *)
(* between the read and the write other requests commit.  The UPDATEs are  *)
(* on the row's id alone.                                                  *)
(*                                                                         *)
(* Sections 1 and 3 to 8 are computed once, by generate_pack, and no       *)
(* request touches them afterwards: they are left out of the row.          *)
(***************************************************************************)
EXTENDS Integers, Sequences, SequencesExt

CONSTANTS Sessions,        \* requests in flight at a time
          Texts,           \* wordings of the commentary
          ExceptionKinds,  \* "valued": carries a rupee amount; "unvalued": none
          MaxPacks,        \* bound: packs generated for the period
          MaxEdits         \* bound: commentary edits recorded

ASSUME ExceptionKindsAssumption == ExceptionKinds \subseteq {"valued", "unvalued"}

VARIABLES packs,       \* Seq(Pack), index = report_artefact_id
          events,      \* Seq(Event), pack_edit_event
          open,        \* blocking exceptions now open for the period
          sess         \* [Sessions -> Session]

packVars == <<packs, events, open, sess>>

NoText == "none"
Wording == Texts \cup {NoText}

\* summary : section 2, the commentary as the document shows it.
\* override: section 9's signoff_override.
Sections == [summary : Wording, override : BOOLEAN]

\* hash stands for what content_hash was computed over.
Hashed == [sections : Sections, commentary : Wording]
Pack == [ status     : {"draft", "signed"},
          sections   : Sections,
          commentary : Wording,
          hash       : Hashed,
          reviewer   : Sessions \cup {"none"} ]
Event == [pack : Nat, previous : Wording, new : Wording]

\* copy: the row as the request read it; found: the exceptions its gate read.
Session == [ req    : {"none", "edit", "sign"},
             at     : {"idle", "gate", "write"},
             pack   : Nat,
             copy   : Pack,
             text   : Wording,
             reason : BOOLEAN,
             found  : SUBSET ExceptionKinds ]

ContentHash(sections, commentary) == [sections |-> sections, commentary |-> commentary]

\* Faulty variant: the status column left to a default of 'open'.
Fresh_OpenByDefault ==
  LET blank == [summary |-> NoText, override |-> FALSE]
  IN  [ status |-> "open", sections |-> blank, commentary |-> NoText,
        hash |-> ContentHash(blank, NoText), reviewer |-> "none" ]

\* write_report_artefact of a fresh pack: no commentary, the summary unwritten.
Fresh == LET blank == [summary |-> NoText, override |-> FALSE]
         IN  [ status |-> "draft", sections |-> blank, commentary |-> NoText,
               hash |-> ContentHash(blank, NoText), reviewer |-> "none" ]

Idle == [ req |-> "none", at |-> "idle", pack |-> 0, copy |-> Fresh,
          text |-> NoText, reason |-> FALSE, found |-> {} ]

PackTypeOK ==
  /\ packs \in Seq(Pack)
  /\ events \in Seq(Event)
  /\ open \subseteq ExceptionKinds
  /\ sess \in [Sessions -> Session]

PackInit ==
  /\ packs = <<>>
  /\ events = <<>>
  /\ open = {}
  /\ sess = [s \in Sessions |-> Idle]

-----------------------------------------------------------------------------
Finish(s) == sess' = [sess EXCEPT ![s] = Idle]

\* A load of the period raises an exception, the queue resolves one.
ExceptionsChange ==
  /\ open' \in SUBSET ExceptionKinds
  /\ open' # open
  /\ UNCHANGED <<packs, events, sess>>

\* POST /reports/generate: every generation is a row of its own.
Generate ==
  /\ Len(packs) < MaxPacks
  /\ packs' = Append(packs, Fresh)
  /\ UNCHANGED <<events, open, sess>>

\* Faulty variant: the status of the row is not looked at.
Readable_Always(p) == p \in DOMAIN packs

\* Both requests refuse a row they do not read as a draft.
Readable(p) == packs[p].status = "draft"

\* edit_commentary up to its UPDATE.
BeginEdit(s, p, text) ==
  /\ sess[s] = Idle
  /\ Readable(p)
  /\ sess' = [sess EXCEPT ![s] = [Idle EXCEPT !.req = "edit", !.at = "write",
                                              !.pack = p, !.copy = packs[p], !.text = text]]
  /\ UNCHANGED <<packs, events, open>>

\* The new hash is taken over the sections as read, before section 2 is
\* replaced.
Edited(old, copy, text) ==
  [old EXCEPT !.commentary = text,
              !.sections = [copy.sections EXCEPT !.summary = text],
              !.hash = ContentHash(copy.sections, text)]

\* Faulty variant: the event records the two wordings the wrong way round.
WriteEdit_Swapped(s) ==
  LET p == sess[s].pack
      copy == sess[s].copy
      text == sess[s].text
  IN  /\ sess[s].req = "edit"
      /\ Len(events) < MaxEdits
      /\ packs' = [packs EXCEPT ![p] = Edited(@, copy, text)]
      /\ events' = Append(events, [pack |-> p, previous |-> text, new |-> copy.commentary])
      /\ Finish(s)
      /\ UNCHANGED open

WriteEdit(s) ==
  LET p == sess[s].pack
      copy == sess[s].copy
      text == sess[s].text
  IN  /\ sess[s].req = "edit"
      /\ Len(events) < MaxEdits
      /\ packs' = [packs EXCEPT ![p] = Edited(@, copy, text)]
      /\ events' = Append(events, [pack |-> p, previous |-> copy.commentary, new |-> text])
      /\ Finish(s)
      /\ UNCHANGED open

\* sign_pack up to its gate.
BeginSign(s, p, reason) ==
  /\ sess[s] = Idle
  /\ Readable(p)
  /\ sess' = [sess EXCEPT ![s] = [Idle EXCEPT !.req = "sign", !.at = "gate",
                                              !.pack = p, !.copy = packs[p], !.reason = reason]]
  /\ UNCHANGED <<packs, events, open>>

\* open_blocking_exceptions: anything open needs a written reason.
Gate(s) ==
  /\ sess[s].at = "gate"
  /\ IF open # {} /\ ~sess[s].reason
     THEN Finish(s)
     ELSE sess' = [sess EXCEPT ![s].at = "write", ![s].found = open]
  /\ UNCHANGED <<packs, events, open>>

\* An override copies the open exceptions into section 9 as the query returned
\* them, and json.dumps refuses a Decimal: the request fails with nothing
\* written when one of them carries an amount.
Serialisable(found) == "valued" \notin found

\* Faulty variant: the override is logged on the row but not in section 9.
Signed_NotInAppendix(s, old, copy, found) ==
  [old EXCEPT !.status = "signed", !.reviewer = s, !.sections = copy.sections,
              !.hash = copy.hash]

\* status, reviewer, sections and hash are written; commentary is not.
Signed(s, old, copy, found) ==
  LET sections == [copy.sections EXCEPT !.override = @ \/ found # {}]
  IN  [old EXCEPT !.status = "signed", !.reviewer = s, !.sections = sections,
                  !.hash = IF found # {} THEN ContentHash(sections, copy.commentary)
                                         ELSE copy.hash]

WriteSign(s) ==
  LET p == sess[s].pack
  IN  /\ sess[s].req = "sign" /\ sess[s].at = "write"
      /\ IF Serialisable(sess[s].found)
         THEN packs' = [packs EXCEPT ![p] = Signed(s, @, sess[s].copy, sess[s].found)]
         ELSE UNCHANGED packs
      /\ Finish(s)
      /\ UNCHANGED <<events, open>>

PackNext ==
  \/ ExceptionsChange
  \/ Generate
  \/ \E s \in Sessions :
       \/ \E p \in DOMAIN packs, text \in Texts : BeginEdit(s, p, text)
       \/ \E p \in DOMAIN packs, reason \in BOOLEAN : BeginSign(s, p, reason)
       \/ WriteEdit(s) \/ Gate(s) \/ WriteSign(s)

PackSpec == PackInit /\ [][PackNext]_packVars

-----------------------------------------------------------------------------
\* No wording is lost: the commentary a pack shows now, and the one any request
\* still holds, is in the edit trail of that pack, however edits and signings
\* overlap ("no prior text is lost", edit_commentary).
NoWordingLost ==
  LET recorded(p, text) == text = NoText \/ \E i \in DOMAIN events :
                                              events[i].pack = p /\ events[i].new = text
  IN  /\ \A p \in DOMAIN packs : /\ recorded(p, packs[p].commentary)
                                 /\ recorded(p, packs[p].sections.summary)
      /\ \A i \in DOMAIN events : recorded(events[i].pack, events[i].previous)

\* A signed pack is never a draft again, and a request that starts after the
\* signing never changes it: whoever changes a signed row read it as a draft.
SignedHoldsForLaterRequests ==
  [][ \A p \in DOMAIN packs : packs[p].status = "signed" =>
        /\ packs'[p].status = "signed"
        /\ packs'[p] # packs[p] =>
             \E s \in Sessions : /\ sess[s].pack = p /\ sess[s].at = "write"
                                 /\ sess[s].copy.status = "draft"
                                 /\ sess'[s] = Idle ]_packVars

\* A pack whose gate read an open exception is signed only with the override
\* in section 9, and a pack shows an override only once somebody signed it.
OverrideIsShown ==
  [][ \A p \in DOMAIN packs :
        /\ packs'[p].sections.override => packs'[p].status = "signed"
        /\ packs[p].status = "draft" /\ packs'[p].status = "signed" =>
             \E s \in Sessions : /\ sess[s].pack = p /\ sess[s].req = "sign"
                                 /\ sess[s].at = "write" /\ sess'[s] = Idle
                                 /\ sess[s].found # {} =>
                                      packs'[p].sections.override /\ sess[s].reason ]_packVars

-----------------------------------------------------------------------------
\* What the repository says and the code does not do.

\* "sign_pack is the only transition to 'signed', after which nothing here
\* writes to the row again".
SignedRowIsFinal ==
  [][ \A p \in DOMAIN packs : packs[p].status = "signed" => packs'[p] = packs[p] ]_packVars

\* content_hash "proves byte-identical re-render": it is the hash of what the
\* row renders.
HashProvesRender ==
  \A p \in DOMAIN packs : packs[p].hash = ContentHash(packs[p].sections, packs[p].commentary)

\* "The reviewer can override with a written reason": a signing that passed the
\* gate signs.
PassedGateSigns ==
  [][ \A s \in Sessions :
        sess[s].req = "sign" /\ sess[s].at = "write" /\ sess'[s] # sess[s]
        => packs'[sess[s].pack].status = "signed" ]_packVars
=============================================================================
