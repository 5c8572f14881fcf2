----------------------------- MODULE PeriodRace -----------------------------
(***************************************************************************)
(* What concurrent requests do to ONE period of one entity.                *)
(*                                                                         *)
(* Every request has a connection of its own at READ COMMITTED, so each    *)
(* statement reads what is committed when it starts, and period_lock has   *)
(* no constraint that two transitions of a period would collide on.  One   *)
(* action is one statement; an INSERT takes its lock_id at once and is     *)
(* seen by others when its transaction commits.                            *)
(*                                                                         *)
(* All requests run in the thread pool of one server process except the    *)
(* upload, an async handler that keeps the event loop from the moment it   *)
(* has its file, before its first statement here, until it returns: there  *)
(* is never a second load in flight.                                       *)
(***************************************************************************)
EXTENDS Integers, Sequences, FiniteSetsExt

CONSTANTS Sessions,    \* requests in flight at a time
          MaxRows      \* bound: period_lock rows of the period

ASSUME SessionNames == "none" \notin Sessions /\ "gone" \notin Sessions

VARIABLES rows,        \* Seq(LockRow), row i has lock_id i
          runCommitted,\* a books_to_bank run of the period is committed
          sess         \* [Sessions -> Session]

raceVars == <<rows, runCommitted, sess>>

\* The state each request moves the period to, and the one it must find.
Target == [ upload |-> "validated", freeze |-> "mapped",
            reconcile |-> "reconciled", lock |-> "locked" ]

\* Faulty variant: a lock is admitted from mapped.
Expected_LockFromMapped ==
  [ upload |-> "open", freeze |-> "validated", run |-> "mapped",
    reconcile |-> "mapped", lock |-> "mapped" ]

Expected == [ upload |-> "open", freeze |-> "validated", run |-> "mapped",
              reconcile |-> "mapped", lock |-> "reconciled" ]
Requests == DOMAIN Expected

\* by: the session whose transaction inserted the row, "none" once committed,
\* "gone" when rolled back: a lock_id is not given out again.
LockRow == [status : {Target[r] : r \in DOMAIN Target}, by : Sessions \cup {"none", "gone"}]
Session == [req : Requests \cup {"none"},
            at  : {"idle", "gate", "check", "evidence", "recheck", "insert", "commit"}]

Idle == [req |-> "none", at |-> "idle"]

RaceTypeOK ==
  /\ rows \in Seq(LockRow)
  /\ runCommitted \in BOOLEAN
  /\ sess \in [Sessions -> Session]

RaceInit ==
  /\ rows = <<>>
  /\ runCommitted = FALSE
  /\ sess = [s \in Sessions |-> Idle]

-----------------------------------------------------------------------------
Committed(R) == { i \in DOMAIN R : R[i].by = "none" }

\* get_current_period_lock, as any session but the row's own inserter reads it
\* (no request reads the lock again between its insert and its commit).
StatusIn(R) == IF Committed(R) = {} THEN "open" ELSE R[Max(Committed(R))].status
Status == StatusIn(rows)

Goto(s, at) == sess' = [sess EXCEPT ![s].at = at]
Finish(s) == sess' = [sess EXCEPT ![s] = Idle]

\* Faulty variant: uploads served by the thread pool as well.
Admissible_Threaded(r) == r \in Requests

\* One upload at a time; a freeze starts at its gate, all others at the check.
Admissible(r) == r = "upload" => \A s \in Sessions : sess[s].req # "upload"

Begin(s, r) ==
  /\ sess[s] = Idle
  /\ Admissible(r)
  /\ sess' = [sess EXCEPT ![s] = [Idle EXCEPT
                             !.req = r, !.at = IF r = "freeze" THEN "gate" ELSE "check"]]
  /\ UNCHANGED <<rows, runCommitted>>

\* freeze_mapping_version updates the rows of the entity's accounts in
\* dim_account and so locks them until its transaction ends: the next freeze
\* of the entity waits here, before its first read of the lock row.  (The first
\* freeze as well: only of a version frozen before there was any account are
\* there no such rows, and then there is no period to map either.)
CloseOut(s) ==
  /\ sess[s].at = "gate"
  /\ \A t \in Sessions : sess[t].req = "freeze" => sess[t].at = "gate"
  /\ Goto(s, "check")
  /\ UNCHANGED <<rows, runCommitted>>

\* The first read of the lock row.  A freeze that does not find the period
\* validated leaves it alone and commits its approval; the others give up.
Check(s) ==
  LET r == sess[s].req
  IN  /\ sess[s].at = "check"
      /\ IF Status = Expected[r]
         THEN Goto(s, CASE r = "run" -> "insert" [] r = "reconcile" -> "evidence"
                        [] OTHER -> "recheck")
         ELSE Finish(s)
      /\ UNCHANGED <<rows, runCommitted>>

\* Faulty variant: a reconcile without a look at the runs.
Evidence_Unchecked(s) ==
  /\ sess[s].at = "evidence"
  /\ Goto(s, "recheck")
  /\ UNCHANGED <<rows, runCommitted>>

\* check_trial_balance and latest_reconciliation_run_id; the verdict on the
\* run is given after the second read, where a missing one refuses as well.
Evidence(s) ==
  /\ sess[s].at = "evidence"
  /\ IF runCommitted THEN Goto(s, "recheck") ELSE Finish(s)
  /\ UNCHANGED <<rows, runCommitted>>

\* _require_predecessor of the transition itself: a mismatch here is an
\* InvalidTransition, and the transaction ends without a commit.
Recheck(s) ==
  /\ sess[s].at = "recheck"
  /\ IF Status = Expected[sess[s].req] THEN Goto(s, "insert") ELSE Finish(s)
  /\ UNCHANGED <<rows, runCommitted>>

\* Faulty variant: the row records the state the period came from.
Insert_StatusItCameFrom(s) ==
  /\ sess[s].at = "insert"
  /\ IF sess[s].req = "run"
     THEN UNCHANGED rows
     ELSE /\ Len(rows) < MaxRows
          /\ rows' = Append(rows, [status |-> Expected[sess[s].req], by |-> s])
  /\ Goto(s, "commit")
  /\ UNCHANGED runCommitted

Insert(s) ==
  /\ sess[s].at = "insert"
  /\ IF sess[s].req = "run"
     THEN UNCHANGED rows
     ELSE /\ Len(rows) < MaxRows
          /\ rows' = Append(rows, [status |-> Target[sess[s].req], by |-> s])
  /\ Goto(s, "commit")
  /\ UNCHANGED runCommitted

\* The rows of a transaction, once it has ended.
Ended(s, by) == [i \in DOMAIN rows |-> IF rows[i].by = s THEN [rows[i] EXCEPT !.by = by]
                                                       ELSE rows[i]]

Commit(s) ==
  /\ sess[s].at = "commit"
  /\ rows' = Ended(s, "none")
  /\ runCommitted' = (runCommitted \/ sess[s].req = "run")
  /\ Finish(s)

\* A refusal decided elsewhere (an open exception, a trial balance that does
\* not tie, the freeze gate), an error, a lost connection: rolled back.
Abort(s) ==
  /\ sess[s] # Idle
  /\ rows' = Ended(s, "gone")
  /\ Finish(s)
  /\ UNCHANGED runCommitted

RaceNext ==
  \E s \in Sessions :
    \/ \E r \in Requests : Begin(s, r)
    \/ CloseOut(s) \/ Check(s) \/ Evidence(s) \/ Recheck(s)
    \/ Insert(s) \/ Commit(s) \/ Abort(s)

RaceSpec == RaceInit /\ [][RaceNext]_raceVars

-----------------------------------------------------------------------------
\* How far along the diagram a state is.
Rank == [open |-> 0, validated |-> 1, mapped |-> 2, reconciled |-> 3, locked |-> 4]

\* Whatever the interleaving, no state is skipped: below every lock row lies a
\* committed row of the state before it (the recheck before each insert).
NoStateSkipped ==
  \A i \in DOMAIN rows : rows[i].status # "validated" =>
    \E j \in Committed(rows) :
      /\ j < i
      /\ Rank[rows[j].status] = Rank[rows[i].status] - 1

\* A period is validated once: the only transition two requests never repeat,
\* because uploads are served one after the other.
ValidatedOnce ==
  \A i, j \in DOMAIN rows :
    /\ rows[i].status = "validated" /\ rows[i].by # "gone"
    /\ rows[j].status = "validated" /\ rows[j].by # "gone"
    => i = j

\* No interleaving reconciles or locks a period before a books-to-bank run of
\* it was committed, and none records a run before the period was mapped.
EvidenceBeforeReconciled ==
  /\ (\E i \in DOMAIN rows : rows[i].status \in {"reconciled", "locked"}) => runCommitted
  /\ runCommitted => \E i \in Committed(rows) : rows[i].status = "mapped"

\* "A period never moves backwards silently": the current state never falls.
NeverBackwards == [][Rank[StatusIn(rows')] >= Rank[StatusIn(rows)]]_raceVars
=============================================================================
