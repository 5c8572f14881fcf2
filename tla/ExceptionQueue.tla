--------------------------- MODULE ExceptionQueue ---------------------------
(***************************************************************************)
(* The append-only queue of blocking exceptions.  An exception is its      *)
(* sequence of versions: the raised row first, one row per resolution      *)
(* after it, linked in the table by root_exception_id.  Nothing is         *)
(* updated; the current status is the last version's (exception_current).  *)
(*                                                                         *)
(* Only the trial-balance row of the check catalogue has a production      *)
(* writer, so every exception here is a blocking one on an                 *)
(* (entity, period).                                                       *)
(***************************************************************************)
EXTENDS Tenant, SequencesExt

CONSTANT Resolutions   \* the resolution paths: resolved, accepted, deferred

ASSUME ResolutionsAssumption == "open" \notin Resolutions

VARIABLE exceptions    \* [Cells -> Seq(Seq(ExceptionStatus))]

ExceptionStatus == {"open"} \cup Resolutions

ExceptionsTypeOK == exceptions \in [Cells -> Seq(Seq(ExceptionStatus))]

ExceptionsInit == exceptions = [c \in Cells |-> <<>>]

\* exception_current: the status of one exception is its latest version's.
CurrentStatus(versions) == versions[Len(versions)]

\* open_blocking_exceptions, over a value q of the queue: the one query both
\* the validation gate and the sign-off gate use.
OpenBlocking(q, c) == { i \in DOMAIN q[c] : CurrentStatus(q[c][i]) = "open" }

\* write_exceptions: a fresh exception for every cell of S.  A cell that
\* already has an open one gets a second, deliberately not deduplicated.
Raised(S) ==
  [c \in Cells |-> IF c \in S THEN Append(exceptions[c], <<"open">>)
                              ELSE exceptions[c]]

\* resolve_exception: one more version, whatever the current status is.
ResolveException(c, i, resolution) ==
  exceptions' = [exceptions EXCEPT ![c][i] = Append(@, resolution)]
=============================================================================
