--------------------------- MODULE MappingVersions ---------------------------
(***************************************************************************)
(* Mapping versions of an entity: a run of the mapping pass creates a      *)
(* draft, the freeze gate approves it and dates out the versions approved  *)
(* before it, and every statement looks up the version whose               *)
(* [effective_from, effective_to) covers the period it reports.            *)
(*                                                                         *)
(* Version 1 of the model is the placeholder row (version_no = 0) every    *)
(* entity is seeded with: a draft without a single map_account row.        *)
(***************************************************************************)
EXTENDS Tenant

CONSTANT MaxVersions   \* bound: mapping_version rows of one entity

VARIABLES accounts,    \* [Entities -> SUBSET Accounts], current dim_account
          versions     \* [Entities -> Seq(Version)], index = mapping_version_id

mappingVars == <<accounts, versions>>

\* assigned: accounts with a map_account row in the version.
\* covered : whether the rupee values frozen in those rows reach 98 percent.
Version == [ status   : {"draft", "approved"},
             from     : Months,
             to       : 1..Forever,
             assigned : SUBSET Accounts,
             covered  : BOOLEAN ]

PlaceholderId == 1
Placeholder == [ status |-> "draft", from |-> 1, to |-> Forever,
                 assigned |-> {}, covered |-> TRUE ]

MappingTypeOK ==
  /\ accounts \in [Entities -> SUBSET Accounts]
  /\ versions \in [Entities -> Seq(Version)]

MappingInit ==
  /\ accounts = [e \in Entities |-> {}]
  /\ versions = [e \in Entities |-> <<Placeholder>>]

-----------------------------------------------------------------------------
\* The rows resolve_mapping_version_for_period may return: it takes one,
\* without ORDER BY, of those that cover the last day of the period.
Governing(vs, m) ==
  { v \in DOMAIN vs : vs[v].status = "approved" /\ vs[v].from =< m /\ m < vs[v].to }

\* find-or-create on dim_account: by a GL load for the accounts of its rows,
\* by a chart-of-accounts load for the ledgers it lists.  Never removed.
AddAccounts(e, S) == accounts' = [accounts EXCEPT ![e] = @ \cup S]

\* Faulty variant: effective_from is not set.
CreateMappingRun_Undated(e, from) ==
  /\ Len(versions[e]) < MaxVersions
  /\ versions' = [versions EXCEPT ![e] =
                     Append(@, [ status |-> "draft", from |-> 0, to |-> Forever,
                                 assigned |-> accounts[e], covered |-> TRUE ])]
  /\ UNCHANGED accounts

\* create_draft_version + run_mapping_pass: every account known now gets a
\* row (rule, human or suspense); what share of the value escaped suspense
\* is the data's business.  No account, no value: coverage is 1.
CreateMappingRun(e, from) ==
  /\ Len(versions[e]) < MaxVersions
  /\ \E covered \in BOOLEAN :
       /\ accounts[e] = {} => covered
       /\ versions' = [versions EXCEPT ![e] =
                         Append(@, [ status |-> "draft", from |-> from, to |-> Forever,
                                     assigned |-> accounts[e], covered |-> covered ])]
  /\ UNCHANGED accounts

\* Faulty variant: a version with any row at all passes.
FreezeGate_AnyRowWillDo(e, v) ==
  versions[e][v].assigned # {} /\ versions[e][v].covered

\* The freeze gate: no unassigned ledger, coverage at or above the threshold.
\* (No unapproved row: map_account.approved_by is NOT NULL.)
FreezeGate(e, v) ==
  /\ accounts[e] \subseteq versions[e][v].assigned
  /\ versions[e][v].covered

\* Faulty variant: the versions before it stay open-ended.
Frozen_NoCloseOut(e, v) ==
  [versions[e] EXCEPT ![v].status = "approved"]

\* Faulty variant: the versions before it are emptied, not dated out.
Frozen_CloseOutToday(e, v) ==
  [w \in DOMAIN versions[e] |->
     [versions[e][w] EXCEPT
        !.to     = IF versions[e][w].status = "approved" THEN 1 ELSE @,
        !.status = IF w = v THEN "approved" ELSE @]]

\* The two UPDATEs of a passing freeze.  The first dates out EVERY approved
\* version of the entity, whatever its effective_to was, v itself included
\* when it is frozen a second time.
Frozen(e, v) ==
  [w \in DOMAIN versions[e] |->
     [versions[e][w] EXCEPT
        !.to     = IF versions[e][w].status = "approved" THEN versions[e][v].from ELSE @,
        !.status = IF w = v THEN "approved" ELSE @]]

FreezeMappingVersion(e, v) ==
  /\ v \in DOMAIN versions[e]
  /\ FreezeGate(e, v)
  /\ versions' = [versions EXCEPT ![e] = Frozen(e, v)]
  /\ UNCHANGED accounts

-----------------------------------------------------------------------------
\* The component on its own, with loads reduced to the accounts they create.
MappingNext ==
  \E e \in Entities :
    \/ \E S \in SUBSET Accounts : AddAccounts(e, S) /\ UNCHANGED versions
    \/ \E from \in Months : CreateMappingRun(e, from)
    \/ \E v \in 1..MaxVersions : FreezeMappingVersion(e, v)

MappingSpec == MappingInit /\ [][MappingNext]_mappingVars

-----------------------------------------------------------------------------
\* The versions of e that this step approves.
NewlyApproved(e) ==
  { v \in DOMAIN versions[e] : /\ versions[e][v].status = "draft"
                               /\ versions'[e][v].status = "approved" }

\* Every freeze dates out the versions before it, so at most one approved
\* version of an entity is open-ended, however versions were dated, frozen out
\* of order or frozen again.
AtMostOneOpenEnded ==
  \A e \in Entities :
    Cardinality({ v \in DOMAIN versions[e] :
                    versions[e][v].status = "approved" /\ versions[e][v].to = Forever }) =< 1

\* Freezing a draft takes no version away from any month: every month that had
\* a governing version still has one (the close-out date is the new version's
\* own effective_from), and from that date on it is the new one alone.
FreezeKeepsCoverage ==
  [][ \A e \in Entities : \A v \in NewlyApproved(e) : \A m \in Months :
        /\ Governing(versions[e], m) # {} => Governing(versions'[e], m) # {}
        /\ m >= versions[e][v].from => Governing(versions'[e], m) = {v} ]_mappingVars

\* A version is approved only while it assigns every account the entity has,
\* accounts loaded between its mapping run and its freeze included, and an
\* approved version keeps the assignments it was approved with.
ApprovedCompletely ==
  [][ \A e \in Entities :
        /\ \A v \in NewlyApproved(e) : accounts[e] \subseteq versions'[e][v].assigned
        /\ \A v \in DOMAIN versions[e] :
             versions[e][v].status = "approved" =>
               /\ versions'[e][v].status = "approved"
               /\ versions'[e][v].assigned = versions[e][v].assigned ]_mappingVars

-----------------------------------------------------------------------------
\* What the repository says and the code does not do.  "A version effective
\* from 1 April 2026 applies to April onwards; March renders with the prior
\* version forever": approving a draft leaves the months before its
\* effective_from that have a version with the version they have.
PriorVersionForever ==
  [][ \A e \in Entities : \A v \in NewlyApproved(e) : \A m \in Months :
        m < versions[e][v].from /\ Governing(versions[e], m) # {} =>
          Governing(versions'[e], m) = Governing(versions[e], m) ]_mappingVars
=============================================================================
