-------------------------- MODULE PeriodRaceProofs --------------------------
(***************************************************************************)
(* For any number of concurrent requests on a period and any number of     *)
(* lock rows: no state is skipped, the period is validated once, and       *)
(* nothing is reconciled without its run.                                  *)
(*                                                                         *)
(* The argument is one of evidence that cannot go away.  A committed row   *)
(* stays committed, so what the last read before an insert found is still  *)
(* there when the row is inserted, whatever else has happened since.       *)
(***************************************************************************)
EXTENDS PeriodRace, FiniteSetTheorems, WellFoundedInduction, TLAPS

\* A non-empty set of positions has a greatest one.
LEMMA GreatestExists ==
  ASSUME NEW n \in Nat, NEW S \in SUBSET (1..n), S # {}
  PROVE  Max(S) \in S
<1> DEFINE T == { x..n : x \in S }
<1>1. T \subseteq FiniteSubsetsOf(Nat)
  BY FS_Interval DEF FiniteSubsetsOf
<1>2. T # {}
  OBVIOUS
<1>3. PICK t \in T : \A y \in T : ~ (<<y, t>> \in StrictSubsetOrdering(Nat))
  BY <1>1, <1>2, FS_StrictSubsetOrderingWellFounded, WFMin, Zenon
<1>4. PICK m \in S : t = m..n
  BY <1>3
<1>5. \A x \in S : m >= x
  <2> SUFFICES ASSUME NEW x \in S, x > m PROVE FALSE
    OBVIOUS
  <2>1. x..n \subseteq m..n /\ m \in m..n /\ m \notin x..n
    OBVIOUS
  <2>2. x..n \in T
    OBVIOUS
  <2> QED
    BY <1>1, <1>3, <1>4, <2>1, <2>2 DEF StrictSubsetOrdering, FiniteSubsetsOf
<1> QED
  BY <1>5 DEF Max

\* No row says that the period is open.
LEMMA StatusesOfRows ==
  \A row \in LockRow : row.status \in {"validated", "mapped", "reconciled", "locked"}
<1>1. { Target[r] : r \in DOMAIN Target } \subseteq {"validated", "mapped", "reconciled", "locked"}
  BY DEF Target
<1> QED
  BY <1>1 DEF LockRow

\* The current state of a period is that of some committed row, or OPEN
\* when there is none.
LEMMA StatusOfACommittedRow ==
  ASSUME RaceTypeOK
  PROVE  IF Committed(rows) = {} THEN Status = "open"
         ELSE \E i \in Committed(rows) : Status = rows[i].status
<1>1. Committed(rows) \in SUBSET (1..Len(rows)) /\ Len(rows) \in Nat
  BY DEF RaceTypeOK, Committed
<1> QED
  BY <1>1, GreatestExists DEF Status, StatusIn

-----------------------------------------------------------------------------
\* A row that is not decided yet is of a session about to commit, which made
\* the transition it asked for.
RowsAreOwned ==
  \A i \in DOMAIN rows : rows[i].by \in Sessions =>
    LET s == sess[rows[i].by]
    IN  s.at = "commit" /\ s.req \in DOMAIN Target /\ rows[i].status = Target[s.req]

\* What the last read of a request has found, and still holds.
FoundBefore ==
  \A s \in Sessions :
    /\ sess[s].req = "none" => sess[s].at = "idle"
    /\ sess[s].at = "insert" /\ sess[s].req # "upload" =>
         \E i \in Committed(rows) : rows[i].status = Expected[sess[s].req]
    /\ sess[s].at = "commit" /\ sess[s].req = "run" =>
         \E i \in Committed(rows) : rows[i].status = "mapped"
    /\ sess[s].req = "reconcile" /\ sess[s].at \in {"recheck", "insert"} => runCommitted

\* One upload at a time, and when it inserts nothing is validated.
UploadsAlone ==
  /\ \A s, t \in Sessions : sess[s].req = "upload" /\ sess[t].req = "upload" => s = t
  /\ \A s \in Sessions : sess[s].req = "upload" /\ sess[s].at = "insert" =>
       \A i \in DOMAIN rows : rows[i].by # "gone" => rows[i].status # "validated"

RaceInv ==
  /\ RaceTypeOK /\ RowsAreOwned /\ FoundBefore /\ UploadsAlone
  /\ NoStateSkipped /\ ValidatedOnce /\ EvidenceBeforeReconciled

-----------------------------------------------------------------------------
LEMMA RaceInitially == RaceInit => RaceInv
<1> SUFFICES ASSUME RaceInit PROVE RaceInv
  OBVIOUS
<1> USE DEF RaceInit
<1>1. Idle \in Session
  BY DEF Idle, Session
<1>2. DOMAIN rows = {}
  OBVIOUS
<1>3. RaceTypeOK
  <2>1. rows \in Seq(LockRow)
    OBVIOUS
  <2>2. sess \in [Sessions -> Session]
    BY <1>1
  <2> HIDE DEF RaceInit
  <2> QED
    BY <2>1, <2>2 DEF RaceTypeOK, RaceInit
<1>4. \A s \in Sessions : sess[s].req = "none" /\ sess[s].at = "idle"
  BY DEF Idle
<1>5. RowsAreOwned /\ NoStateSkipped /\ ValidatedOnce
  BY <1>2 DEF RowsAreOwned, NoStateSkipped, ValidatedOnce
<1>6. FoundBefore /\ UploadsAlone
  BY <1>2, <1>4 DEF FoundBefore, UploadsAlone
<1>7. EvidenceBeforeReconciled
  BY <1>2 DEF EvidenceBeforeReconciled
<1> QED
  BY <1>3, <1>5, <1>6, <1>7 DEF RaceInv

\* A step of one request that leaves the rows and the runs alone.  What is
\* said of the other requests stays; what the step is to show is said of s.
LEMMA ReadingStep ==
  ASSUME RaceInv, NEW s \in Sessions, NEW new \in Session,
         sess' = [sess EXCEPT ![s] = new], UNCHANGED <<rows, runCommitted>>,
         sess[s].at # "commit" \/ sess[s].req = "run",
         new.req = "none" => new.at = "idle",
         new.at = "insert" /\ new.req # "upload" =>
           \E i \in Committed(rows) : rows[i].status = Expected[new.req],
         new.at = "commit" => new.req = "run" /\ \E i \in Committed(rows) : rows[i].status = "mapped",
         new.req = "reconcile" /\ new.at \in {"recheck", "insert"} => runCommitted,
         new.req = "upload" => \A t \in Sessions : sess[t].req = "upload" => t = s,
         new.req = "upload" /\ new.at = "insert" =>
           \A i \in DOMAIN rows : rows[i].by # "gone" => rows[i].status # "validated"
  PROVE  RaceInv'
<1> USE DEF RaceInv
<1>1. sess \in [Sessions -> Session] /\ sess'[s] = new /\ \A t \in Sessions \ {s} : sess'[t] = sess[t]
  BY DEF RaceTypeOK
<1>2. RaceTypeOK'
  BY <1>1 DEF RaceTypeOK
<1>3. RowsAreOwned'
  <2> SUFFICES ASSUME NEW i \in DOMAIN rows, rows[i].by \in Sessions
               PROVE  LET t == sess'[rows[i].by]
                      IN  t.at = "commit" /\ t.req \in DOMAIN Target /\ rows[i].status = Target[t.req]
    BY DEF RowsAreOwned
  <2>1. rows[i].by # s
    BY DEF RowsAreOwned, Target
  <2> QED
    BY <1>1, <2>1 DEF RowsAreOwned
<1>4. FoundBefore'
  BY <1>1 DEF FoundBefore, Committed
<1>5. UploadsAlone'
  BY <1>1 DEF UploadsAlone
<1>6. NoStateSkipped' /\ ValidatedOnce' /\ EvidenceBeforeReconciled'
  BY DEF NoStateSkipped, ValidatedOnce, EvidenceBeforeReconciled, Committed
<1> QED
  BY <1>2, <1>3, <1>4, <1>5, <1>6

\* The requests that only read.
LEMMA ReadersKeepInv ==
  ASSUME RaceInv, NEW s \in Sessions,
         (\E r \in Requests : Begin(s, r)) \/ CloseOut(s) \/ Check(s) \/ Evidence(s) \/ Recheck(s)
  PROVE  RaceInv'
<1> USE DEF RaceInv
<1>0. sess \in [Sessions -> Session] /\ sess[s] \in Session
  BY DEF RaceTypeOK
<1>a. sess[s].req = "upload" => \A t \in Sessions : sess[t].req = "upload" => t = s
  BY DEF UploadsAlone
<1>b. sess[s].req = "none" => sess[s].at = "idle"
  BY DEF FoundBefore
<1>c. Idle \in Session /\ Idle.req = "none" /\ Idle.at = "idle"
  BY DEF Idle, Session
<1>d. ASSUME NEW at \in {"evidence", "recheck", "insert"}, Goto(s, at)
      PROVE  \E new \in Session : /\ new.req = sess[s].req /\ new.at = at
                                  /\ sess' = [sess EXCEPT ![s] = new]
  <2> DEFINE new == [sess[s] EXCEPT !.at = at]
  <2>1. new \in Session /\ new.req = sess[s].req /\ new.at = at
    BY <1>0 DEF Session
  <2>2. sess' = [sess EXCEPT ![s] = new]
    BY <1>0, <1>d DEF Goto
  <2> HIDE DEF new
  <2> QED
    BY <2>1, <2>2
<1>1. ASSUME NEW r \in Requests, Begin(s, r)
      PROVE  RaceInv'
  <2> DEFINE new == [Idle EXCEPT !.req = r, !.at = IF r = "freeze" THEN "gate" ELSE "check"]
  <2>1. /\ new \in Session /\ new.req = r /\ r # "none"
        /\ new.at \in {"gate", "check"}
    BY DEF Idle, Session, Requests, Expected
  <2>2. sess' = [sess EXCEPT ![s] = new] /\ UNCHANGED <<rows, runCommitted>> /\ sess[s] = Idle
    BY <1>1 DEF Begin
  <2>3. r = "upload" => \A t \in Sessions : sess[t].req # "upload"
    BY <1>1 DEF Begin, Admissible
  <2> HIDE DEF new
  <2> QED
    BY <1>0, <1>c, <2>1, <2>2, <2>3, ReadingStep
<1>2. ASSUME CloseOut(s) PROVE RaceInv'
  <2> DEFINE new == [sess[s] EXCEPT !.at = "check"]
  <2>1. new \in Session /\ new.req = sess[s].req /\ new.at = "check"
    BY <1>0 DEF Session
  <2>2. sess' = [sess EXCEPT ![s] = new] /\ UNCHANGED <<rows, runCommitted>> /\ sess[s].at = "gate"
    BY <1>0, <1>2 DEF CloseOut, Goto
  <2> HIDE DEF new
  <2> QED
    BY <1>0, <1>a, <1>b, <2>1, <2>2, ReadingStep
<1>3. ASSUME Check(s) PROVE RaceInv'
  <2> DEFINE r == sess[s].req
             next == CASE r = "run" -> "insert" [] r = "reconcile" -> "evidence" [] OTHER -> "recheck"
  <2>1. /\ sess[s].at = "check" /\ r # "none" /\ UNCHANGED <<rows, runCommitted>>
    BY <1>0, <1>3, <1>b DEF Check
  <2>2. CASE Status = Expected[r]
    <3>1. Goto(s, next) /\ next \in {"insert", "evidence", "recheck"}
      BY <1>3, <2>2 DEF Check
    <3>2. r = "run" => \E i \in Committed(rows) : rows[i].status = "mapped"
      BY <2>2, StatusOfACommittedRow DEF Expected
    <3>3. (next = "insert" => r = "run") /\ (r = "reconcile" => next = "evidence")
      OBVIOUS
    <3>4. Expected["run"] = "mapped"
      BY DEF Expected
    <3> HIDE DEF next
    <3>5. PICK new \in Session : /\ new.req = r /\ new.at = next
                                /\ sess' = [sess EXCEPT ![s] = new]
      BY <1>d, <3>1
    <3> HIDE DEF r
    <3> QED
      BY <1>a, <2>1, <3>1, <3>2, <3>3, <3>4, <3>5, ReadingStep DEF r
  <2>3. CASE Status # Expected[r]
    <3>1. sess' = [sess EXCEPT ![s] = Idle]
      BY <1>3, <2>3 DEF Check, Finish
    <3> QED
      BY <1>c, <2>1, <3>1, ReadingStep
  <2> QED
    BY <2>2, <2>3
<1>4. ASSUME Evidence(s) PROVE RaceInv'
  <2>1. sess[s].at = "evidence" /\ UNCHANGED <<rows, runCommitted>>
    BY <1>4 DEF Evidence
  <2>2. CASE runCommitted
    <3>1. PICK new \in Session : /\ new.req = sess[s].req /\ new.at = "recheck"
                                /\ sess' = [sess EXCEPT ![s] = new]
      BY <1>4, <1>d, <2>2 DEF Evidence
    <3> QED
      BY <1>0, <1>a, <1>b, <2>1, <2>2, <3>1, ReadingStep
  <2>3. CASE ~runCommitted
    BY <1>0, <1>4, <1>c, <2>1, <2>3, ReadingStep DEF Evidence, Finish
  <2> QED
    BY <2>2, <2>3
<1>5. ASSUME Recheck(s) PROVE RaceInv'
  <2> DEFINE r == sess[s].req
  <2>1. sess[s].at = "recheck" /\ UNCHANGED <<rows, runCommitted>> /\ r \in Requests
    BY <1>0, <1>5, <1>b DEF Recheck, Session
  <2>2. CASE Status = Expected[r]
    <3>1. Goto(s, "insert")
      BY <1>5, <2>2 DEF Recheck
    <3>2. r # "upload" => \E i \in Committed(rows) : rows[i].status = Expected[r]
      BY <2>1, <2>2, StatusOfACommittedRow DEF Expected, Requests
    <3>3. r = "reconcile" => runCommitted
      BY <2>1 DEF FoundBefore
    <3>4. ASSUME r = "upload", NEW i \in DOMAIN rows, rows[i].by # "gone", rows[i].status = "validated"
          PROVE  FALSE
      <4>1. rows[i] \in LockRow
        BY DEF RaceTypeOK
      <4>2. Committed(rows) = {}
        <5> SUFFICES ASSUME NEW j \in Committed(rows), Status = rows[j].status PROVE FALSE
          BY StatusOfACommittedRow
        <5>1. rows[j] \in LockRow
          BY DEF RaceTypeOK, Committed
        <5>2. rows[j].status # "open"
          BY <5>1, StatusesOfRows
        <5> QED
          BY <2>2, <3>4, <5>2 DEF Expected
      <4>3. rows[i].by \in Sessions
        BY <3>4, <4>1, <4>2 DEF LockRow, Committed
      <4>4. sess[rows[i].by].req = "upload" /\ sess[rows[i].by].at = "commit"
        BY <3>4, <4>3 DEF RowsAreOwned, Target
      <4> QED
        BY <1>a, <2>1, <3>4, <4>3, <4>4
    <3>5. PICK new \in Session : /\ new.req = r /\ new.at = "insert"
                                /\ sess' = [sess EXCEPT ![s] = new]
      BY <1>d, <3>1
    <3> QED
      BY <1>0, <1>a, <1>b, <2>1, <3>2, <3>3, <3>4, <3>5, ReadingStep
  <2>3. CASE Status # Expected[r]
    <3>1. sess' = [sess EXCEPT ![s] = Idle]
      BY <1>5, <2>3 DEF Recheck, Finish
    <3> QED
      BY <1>0, <1>c, <2>1, <3>1, ReadingStep
  <2> QED
    BY <2>2, <2>3
<1> QED
  BY <1>1, <1>2, <1>3, <1>4, <1>5

-----------------------------------------------------------------------------
\* The insert, the one step that adds a row.
LEMMA InsertKeepsInv ==
  ASSUME RaceInv, NEW s \in Sessions, Insert(s)
  PROVE  RaceInv'
<1> DEFINE r == sess[s].req
           new == [sess[s] EXCEPT !.at = "commit"]
<1>0. /\ RaceTypeOK /\ rows \in Seq(LockRow) /\ sess \in [Sessions -> Session]
      /\ sess[s] \in Session /\ sess[s].at = "insert" /\ UNCHANGED runCommitted
      /\ runCommitted \in BOOLEAN
  BY DEF RaceInv, RaceTypeOK, Insert
<1>1. r \in Requests
  BY <1>0 DEF RaceInv, FoundBefore, Session
<1>2. new \in Session /\ new.req = r /\ new.at = "commit" /\ sess' = [sess EXCEPT ![s] = new]
  BY <1>0 DEF Insert, Goto, Session
<1> HIDE DEF new
<1>3. sess'[s] = new /\ \A t \in Sessions \ {s} : sess'[t] = sess[t]
  BY <1>0, <1>2
<1>4. r # "upload" => \E i \in Committed(rows) : rows[i].status = Expected[r]
  BY <1>0 DEF RaceInv, FoundBefore
<1>5. CASE r = "run"
  <2>1. UNCHANGED rows /\ \E i \in Committed(rows) : rows[i].status = "mapped"
    BY <1>4, <1>5 DEF Insert, Expected
  <2> QED
    BY <1>0, <1>2, <1>5, <2>1, ReadingStep
<1>6. CASE r # "run"
  <2> DEFINE row == [status |-> Target[r], by |-> s]
             n == Len(rows) + 1
  <2>1. r \in DOMAIN Target /\ row \in LockRow /\ rows' = Append(rows, row)
    BY <1>1, <1>6 DEF Insert, LockRow, Target, Requests, Expected
  <2>2. /\ rows' \in Seq(LockRow) /\ DOMAIN rows' = DOMAIN rows \cup {n} /\ n \notin DOMAIN rows
        /\ rows'[n] = row /\ \A i \in DOMAIN rows : rows'[i] = rows[i] /\ i \in Nat /\ i < n
    BY <1>0, <2>1
  <2>3. row.status = Target[r] /\ row.by = s /\ s # "none" /\ s # "gone"
    BY SessionNames
  <2> HIDE DEF row, n
  <2>4. Committed(rows') = Committed(rows) /\ Committed(rows) \subseteq DOMAIN rows
    BY <2>2, <2>3 DEF Committed
  <2>5. RaceTypeOK'
    BY <1>0, <1>2, <2>2 DEF RaceTypeOK
  <2>6. RowsAreOwned'
    <3> SUFFICES ASSUME NEW i \in DOMAIN rows', rows'[i].by \in Sessions
                 PROVE  LET t == sess'[rows'[i].by]
                        IN  t.at = "commit" /\ t.req \in DOMAIN Target /\ rows'[i].status = Target[t.req]
      BY DEF RowsAreOwned
    <3>1. CASE i = n
      BY <1>2, <1>3, <2>1, <2>2, <2>3, <3>1
    <3>2. CASE i \in DOMAIN rows
      <4>1. rows[i].by # s
        BY <1>0, <2>2, <3>2 DEF RaceInv, RowsAreOwned
      <4> QED
        BY <1>3, <2>2, <3>2, <4>1 DEF RaceInv, RowsAreOwned
    <3> QED
      BY <2>2, <3>1, <3>2
  <2>7. FoundBefore'
    <3> SUFFICES ASSUME NEW t \in Sessions
                 PROVE  /\ sess'[t].req = "none" => sess'[t].at = "idle"
                        /\ sess'[t].at = "insert" /\ sess'[t].req # "upload" =>
                             \E i \in Committed(rows') : rows'[i].status = Expected[sess'[t].req]
                        /\ sess'[t].at = "commit" /\ sess'[t].req = "run" =>
                             \E i \in Committed(rows') : rows'[i].status = "mapped"
                        /\ sess'[t].req = "reconcile" /\ sess'[t].at \in {"recheck", "insert"} => runCommitted'
      BY DEF FoundBefore
    <3>1. CASE t = s
      BY <1>1, <1>2, <1>3, <1>6, <3>1 DEF Requests, Expected
    <3>2. CASE t # s
      BY <1>0, <1>3, <2>2, <2>4, <3>2 DEF RaceInv, FoundBefore
    <3> QED
      BY <3>1, <3>2
  <2>8. UploadsAlone'
    <3>1. ASSUME NEW t \in Sessions, NEW u \in Sessions, sess'[t].req = "upload", sess'[u].req = "upload"
          PROVE  t = u
      BY <1>2, <1>3, <3>1 DEF RaceInv, UploadsAlone
    <3>2. ASSUME NEW t \in Sessions, sess'[t].req = "upload", sess'[t].at = "insert",
                 NEW i \in DOMAIN rows', rows'[i].by # "gone"
          PROVE  rows'[i].status # "validated"
      <4>1. t # s /\ sess[t].req = "upload" /\ sess[t].at = "insert"
        BY <1>2, <1>3, <3>2
      <4>2. r # "upload"
        BY <4>1 DEF RaceInv, UploadsAlone
      <4>3. CASE i = n
        BY <2>1, <2>2, <2>3, <4>2, <4>3 DEF Target
      <4>4. CASE i \in DOMAIN rows
        BY <2>2, <3>2, <4>1, <4>4 DEF RaceInv, UploadsAlone
      <4> QED
        BY <2>2, <4>3, <4>4
    <3> QED
      BY <3>1, <3>2 DEF UploadsAlone
  <2>9. NoStateSkipped'
    <3> SUFFICES ASSUME NEW i \in DOMAIN rows', rows'[i].status # "validated"
                 PROVE  \E j \in Committed(rows') : j < i /\ Rank[rows'[j].status] = Rank[rows'[i].status] - 1
      BY DEF NoStateSkipped
    <3>1. CASE i = n
      <4>1. r # "upload"
        BY <2>2, <2>3, <3>1 DEF Target
      <4>2. PICK j \in Committed(rows) : rows[j].status = Expected[r]
        BY <1>4, <4>1
      <4>3. Rank[Expected[r]] = Rank[Target[r]] - 1
        BY <2>1, <4>1 DEF Rank, Expected, Target
      <4> QED
        BY <2>2, <2>3, <2>4, <3>1, <4>2, <4>3
    <3>2. CASE i \in DOMAIN rows
      <4>1. PICK j \in Committed(rows) : j < i /\ Rank[rows[j].status] = Rank[rows[i].status] - 1
        BY <2>2, <3>2 DEF RaceInv, NoStateSkipped
      <4> QED
        BY <2>2, <2>4, <3>2, <4>1
    <3> QED
      BY <2>2, <3>1, <3>2
  <2>10. ValidatedOnce'
    <3>1. r = "upload" => \A i \in DOMAIN rows : rows[i].by # "gone" => rows[i].status # "validated"
      BY <1>0 DEF RaceInv, UploadsAlone
    <3>2. r # "upload" => row.status # "validated"
      BY <2>1, <2>3 DEF Target
    <3> QED
      BY <2>2, <3>1, <3>2 DEF RaceInv, ValidatedOnce
  <2>11. EvidenceBeforeReconciled'
    <3>1. r = "reconcile" => runCommitted
      BY <1>0 DEF RaceInv, FoundBefore
    <3>2. r = "lock" => runCommitted
      BY <1>4, <2>4 DEF RaceInv, EvidenceBeforeReconciled, Expected
    <3>3. row.status \in {"reconciled", "locked"} => r \in {"reconcile", "lock"}
      BY <2>1, <2>3 DEF Target
    <3>4. (\E i \in DOMAIN rows' : rows'[i].status \in {"reconciled", "locked"}) => runCommitted'
      BY <1>0, <2>2, <3>1, <3>2, <3>3 DEF RaceInv, EvidenceBeforeReconciled
    <3>5. runCommitted' => \E i \in Committed(rows') : rows'[i].status = "mapped"
      BY <1>0, <2>2, <2>4 DEF RaceInv, EvidenceBeforeReconciled
    <3> QED
      BY <3>4, <3>5 DEF EvidenceBeforeReconciled
  <2> QED
    BY <2>5, <2>6, <2>7, <2>8, <2>9, <2>10, <2>11 DEF RaceInv
<1> QED
  BY <1>5, <1>6

-----------------------------------------------------------------------------
\* The end of a transaction: its row becomes everybody's or nobody's.  All
\* that is asked of the step is that it finishes the session, and that runCommitted
\* only becomes true on a mapped period.
LEMMA EndKeepsInv ==
  ASSUME RaceInv, NEW s \in Sessions, NEW by \in {"none", "gone"},
         rows' = Ended(s, by), Finish(s), runCommitted' \in BOOLEAN,
         runCommitted => runCommitted',
         runCommitted' => runCommitted \/ \E i \in Committed(rows) : rows[i].status = "mapped"
  PROVE  RaceInv'
<1>0. /\ rows \in Seq(LockRow) /\ sess \in [Sessions -> Session] /\ by \notin Sessions
      /\ Idle \in Session /\ Idle.req = "none" /\ Idle.at = "idle"
  BY SessionNames DEF RaceInv, RaceTypeOK, Idle, Session
<1>1. sess'[s] = Idle /\ \A t \in Sessions \ {s} : sess'[t] = sess[t]
  BY <1>0 DEF Finish
<1>2. /\ rows' \in Seq(LockRow) /\ DOMAIN rows' = DOMAIN rows
      /\ \A i \in DOMAIN rows : /\ rows'[i].status = rows[i].status
                                /\ rows'[i].by = IF rows[i].by = s THEN by ELSE rows[i].by
  <2>1. \A i \in DOMAIN rows : rows[i] \in LockRow
    BY <1>0
  <2>2. \A i \in DOMAIN rows :
          LET row == IF rows[i].by = s THEN [rows[i] EXCEPT !.by = by] ELSE rows[i]
          IN  row \in LockRow /\ row.status = rows[i].status
              /\ row.by = IF rows[i].by = s THEN by ELSE rows[i].by
    BY <2>1 DEF LockRow
  <2>3. DOMAIN rows = 1..Len(rows) /\ Len(rows) \in Nat
    BY <1>0
  <2>4. /\ DOMAIN rows' = DOMAIN rows
        /\ \A i \in DOMAIN rows : rows'[i] = IF rows[i].by = s THEN [rows[i] EXCEPT !.by = by] ELSE rows[i]
    BY DEF Ended
  <2>5. rows' = [i \in 1..Len(rows) |-> IF rows[i].by = s THEN [rows[i] EXCEPT !.by = by] ELSE rows[i]]
    BY <2>3 DEF Ended
  <2>6. rows' \in Seq(LockRow)
    BY <2>2, <2>3, <2>5
  <2> QED
    BY <2>2, <2>4, <2>6
<1>3. Committed(rows) \subseteq Committed(rows') /\ Committed(rows') \subseteq DOMAIN rows
  BY <1>2, SessionNames DEF Committed
<1>4. RaceTypeOK'
  BY <1>0, <1>2 DEF RaceTypeOK, Finish
<1>5. RowsAreOwned'
  BY <1>0, <1>1, <1>2 DEF RaceInv, RowsAreOwned
<1>6. FoundBefore'
  <2> SUFFICES ASSUME NEW t \in Sessions
               PROVE  /\ sess'[t].req = "none" => sess'[t].at = "idle"
                      /\ sess'[t].at = "insert" /\ sess'[t].req # "upload" =>
                           \E i \in Committed(rows') : rows'[i].status = Expected[sess'[t].req]
                      /\ sess'[t].at = "commit" /\ sess'[t].req = "run" =>
                           \E i \in Committed(rows') : rows'[i].status = "mapped"
                      /\ sess'[t].req = "reconcile" /\ sess'[t].at \in {"recheck", "insert"} => runCommitted'
    BY DEF FoundBefore
  <2>1. CASE t = s
    BY <1>0, <1>1, <2>1
  <2>2. CASE t # s
    BY <1>1, <1>2, <1>3, <2>2 DEF RaceInv, FoundBefore
  <2> QED
    BY <2>1, <2>2
<1>7. UploadsAlone'
  <2>1. ASSUME NEW t \in Sessions, NEW u \in Sessions, sess'[t].req = "upload", sess'[u].req = "upload"
        PROVE  t = u
    BY <1>0, <1>1, <2>1 DEF RaceInv, UploadsAlone
  <2>2. ASSUME NEW t \in Sessions, sess'[t].req = "upload", sess'[t].at = "insert",
               NEW i \in DOMAIN rows', rows'[i].by # "gone"
        PROVE  rows'[i].status # "validated"
    <3>1. t # s /\ sess[t].req = "upload" /\ sess[t].at = "insert"
      BY <1>0, <1>1, <2>2
    <3>2. rows[i].by # "gone" /\ i \in DOMAIN rows
      BY <1>2, <2>2, SessionNames
    <3> QED
      BY <1>2, <3>1, <3>2 DEF RaceInv, UploadsAlone
  <2> QED
    BY <2>1, <2>2 DEF UploadsAlone
<1>8. NoStateSkipped'
  BY <1>2, <1>3 DEF RaceInv, NoStateSkipped
<1>9. ValidatedOnce'
  <2>1. \A i \in DOMAIN rows : rows'[i].by # "gone" => rows[i].by # "gone"
    BY <1>2, SessionNames
  <2> QED
    BY <1>2, <2>1 DEF RaceInv, ValidatedOnce
<1>10. EvidenceBeforeReconciled'
  BY <1>2, <1>3 DEF RaceInv, EvidenceBeforeReconciled
<1> QED
  BY <1>4, <1>5, <1>6, <1>7, <1>8, <1>9, <1>10 DEF RaceInv

LEMMA RaceStep ==
  RaceInv /\ [RaceNext]_raceVars => RaceInv'
<1> SUFFICES ASSUME RaceInv, [RaceNext]_raceVars PROVE RaceInv'
  OBVIOUS
<1>1. CASE UNCHANGED raceVars
  BY <1>1 DEF raceVars, RaceInv, RaceTypeOK, RowsAreOwned, FoundBefore, UploadsAlone, NoStateSkipped,
     ValidatedOnce, EvidenceBeforeReconciled, Committed
<1>2. ASSUME NEW s \in Sessions, Commit(s) PROVE RaceInv'
  <2>1. runCommitted \in BOOLEAN
    BY DEF RaceInv, RaceTypeOK
  <2>2. sess[s].req = "run" => \E i \in Committed(rows) : rows[i].status = "mapped"
    BY <1>2 DEF RaceInv, FoundBefore, Commit
  <2> QED
    BY <1>2, <2>1, <2>2, EndKeepsInv DEF Commit
<1>3. ASSUME NEW s \in Sessions, Abort(s) PROVE RaceInv'
  BY <1>3, EndKeepsInv DEF Abort, RaceInv, RaceTypeOK
<1> QED
  BY <1>1, <1>2, <1>3, ReadersKeepInv, InsertKeepsInv DEF RaceNext

LEMMA RaceInvHolds == RaceSpec => []RaceInv
BY RaceInitially, RaceStep, PTL DEF RaceSpec

-----------------------------------------------------------------------------
\* Types, for any number of requests and lock rows.
THEOREM RaceTypeCorrect == RaceSpec => []RaceTypeOK
<1>1. RaceInv => RaceTypeOK
  BY DEF RaceInv
<1> QED
  BY <1>1, RaceInvHolds, PTL

\* However transitions of a period overlap at READ COMMITTED, below every lock
\* row lies a committed row of the state before it (_require_predecessor).
THEOREM NoStateEverSkipped == RaceSpec => []NoStateSkipped
<1>1. RaceInv => NoStateSkipped
  BY DEF RaceInv
<1> QED
  BY <1>1, RaceInvHolds, PTL

\* Uploads never overlap, so a period is validated once (upload.py's async
\* handler, validate_period).
THEOREM ValidatedAtMostOnce == RaceSpec => []ValidatedOnce
<1>1. RaceInv => ValidatedOnce
  BY DEF RaceInv
<1> QED
  BY <1>1, RaceInvHolds, PTL

\* However requests overlap, a period is reconciled or locked only after a
\* books-to-bank run of it was committed, and such a run only after a freeze
\* mapped it (reconcile_period, record_books_to_bank_run).
THEOREM EvidenceAlwaysFirst == RaceSpec => []EvidenceBeforeReconciled
<1>1. RaceInv => EvidenceBeforeReconciled
  BY DEF RaceInv
<1> QED
  BY <1>1, RaceInvHolds, PTL
=============================================================================
