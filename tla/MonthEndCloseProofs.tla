------------------------ MODULE MonthEndCloseProofs -------------------------
(***************************************************************************)
(* What TLAPS proves of the month-end close for every tenant: any number   *)
(* of entities, months, accounts, lines and amounts.  First the mapping    *)
(* versions, then the requests of the close, then what a load must have    *)
(* earned to validate a period, why a period is held at OPEN, on which     *)
(* version a freeze maps one, and that every step is one of the abstract   *)
(* period state machine.                                                   *)
(***************************************************************************)
EXTENDS MonthEndClose, FiniteSetTheorems, TLAPS

-----------------------------------------------------------------------------
(* Lemmas: what a freeze does to the versions of its entity.               *)

\* What Append does to a sequence.
LEMMA AppendFacts ==
  ASSUME NEW S, NEW h \in Seq(S), NEW x \in S
  PROVE  /\ Append(h, x) \in Seq(S)
         /\ Len(h) \in Nat
         /\ Len(Append(h, x)) = Len(h) + 1
         /\ \A i \in 1..Len(h) : Append(h, x)[i] = h[i]
         /\ Append(h, x)[Len(h) + 1] = x
OBVIOUS

\* A freeze rewrites status and effective_to in place.
LEMMA FrozenType ==
  ASSUME MappingTypeOK, NEW e \in Entities, NEW v \in DOMAIN versions[e]
  PROVE  /\ Frozen(e, v) \in Seq(Version)
         /\ DOMAIN Frozen(e, v) = DOMAIN versions[e]
<1> DEFINE vs == versions[e]
<1>1. vs \in Seq(Version) /\ DOMAIN vs = 1..Len(vs) /\ Len(vs) \in Nat
  BY DEF MappingTypeOK
<1>2. \A m \in Months : m \in 1..Forever
  BY NumMonthsAssumption DEF Months, Forever
<1>3. ASSUME NEW w \in DOMAIN vs
      PROVE  Frozen(e, v)[w] \in Version
  <2>1. vs[w] \in Version /\ vs[v] \in Version
    BY <1>1
  <2>2. vs[v].from \in 1..Forever
    BY <1>2, <2>1 DEF Version
  <2> QED
    BY <2>1, <2>2 DEF Frozen, Version
<1>4. DOMAIN Frozen(e, v) = DOMAIN vs
  BY DEF Frozen
<1>5. Frozen(e, v) \in [1..Len(vs) -> Version]
  BY <1>1, <1>3 DEF Frozen
<1>6. Frozen(e, v) \in Seq(Version)
  BY <1>1, <1>5
<1> QED
  BY <1>4, <1>6

\* What a freeze does to one version of the entity.
LEMMA FrozenFields ==
  ASSUME MappingTypeOK, NEW e \in Entities, NEW v \in DOMAIN versions[e],
         NEW w \in DOMAIN versions[e]
  PROVE  /\ Frozen(e, v)[w].status = IF w = v THEN "approved" ELSE versions[e][w].status
         /\ Frozen(e, v)[w].to = IF versions[e][w].status = "approved"
                                 THEN versions[e][v].from ELSE versions[e][w].to
         /\ Frozen(e, v)[w].from = versions[e][w].from
         /\ Frozen(e, v)[w].assigned = versions[e][w].assigned
<1>1. versions[e] \in Seq(Version)
  BY DEF MappingTypeOK
<1>2. versions[e][w] \in Version
  BY <1>1
<1> QED
  BY <1>2 DEF Frozen, Version

\* In a month of the window it is frozen with, a version governs alone: every
\* other approved version has just been dated out before that month.
LEMMA FrozenGoverns ==
  ASSUME MappingTypeOK, NEW e \in Entities, NEW v \in DOMAIN versions[e], NEW m \in Months,
         Frozen(e, v)[v].from =< m, m < Frozen(e, v)[v].to
  PROVE  Governing(Frozen(e, v), m) = {v}
<1> DEFINE vs == Frozen(e, v)
<1>1. DOMAIN vs = DOMAIN versions[e] /\ versions[e] \in Seq(Version) /\ vs \in Seq(Version)
  BY FrozenType DEF MappingTypeOK
<1>2. vs[v].status = "approved" /\ vs[v].from = versions[e][v].from
  BY FrozenFields
<1>3. ASSUME NEW w \in DOMAIN vs, w # v, vs[w].status = "approved"
      PROVE  vs[w].to = versions[e][v].from
  BY <1>1, <1>3, FrozenFields
<1>4. \A w \in DOMAIN vs : vs[w].from \in Int /\ vs[w].to \in Int
  <2>1. \A w \in DOMAIN vs : vs[w] \in Version
    BY <1>1
  <2> QED
    BY <2>1, NumMonthsAssumption DEF Version, Months, Forever
<1>5. v \in Governing(vs, m)
  BY <1>1, <1>2 DEF Governing
<1>6. ASSUME NEW w \in Governing(vs, m)
      PROVE  w = v
  <2>1. w \in DOMAIN vs /\ vs[w].status = "approved" /\ m < vs[w].to
    BY <1>6 DEF Governing
  <2> QED
    BY <1>1, <1>2, <1>3, <1>4, <2>1 DEF Months
<1> QED
  BY <1>5, <1>6

-----------------------------------------------------------------------------
(* Type correctness of the mapping versions.                              *)

\* The placeholder and every mapping run are versions.
LEMMA RunIsVersion ==
  ASSUME NEW from \in Months, NEW S \in SUBSET Accounts, NEW covered \in BOOLEAN
  PROVE  [ status |-> "draft", from |-> from, to |-> Forever,
           assigned |-> S, covered |-> covered ] \in Version
BY NumMonthsAssumption DEF Version, Months, Forever

\* Every step keeps the types.
LEMMA MappingStepType == MappingTypeOK /\ [MappingNext]_mappingVars => MappingTypeOK'
<1> SUFFICES ASSUME MappingTypeOK, [MappingNext]_mappingVars
             PROVE  MappingTypeOK'
  OBVIOUS
<1>1. ASSUME NEW e \in Entities, NEW S \in SUBSET Accounts,
             AddAccounts(e, S), UNCHANGED versions
      PROVE  MappingTypeOK'
  BY <1>1 DEF AddAccounts, MappingTypeOK
<1>2. ASSUME NEW e \in Entities, NEW from \in Months, CreateMappingRun(e, from)
      PROVE  MappingTypeOK'
  <2>1. PICK covered \in BOOLEAN :
          versions' = [versions EXCEPT ![e] =
                         Append(@, [ status |-> "draft", from |-> from, to |-> Forever,
                                     assigned |-> accounts[e], covered |-> covered ])]
    BY <1>2 DEF CreateMappingRun
  <2> DEFINE run == [ status |-> "draft", from |-> from, to |-> Forever,
                      assigned |-> accounts[e], covered |-> covered ]
  <2>2. run \in Version
    BY RunIsVersion DEF MappingTypeOK
  <2> HIDE DEF run
  <2>3. versions' = [versions EXCEPT ![e] = Append(@, run)]
    BY <2>1 DEF run
  <2>4. Append(versions[e], run) \in Seq(Version)
    BY <2>2 DEF MappingTypeOK
  <2> QED
    BY <1>2, <2>3, <2>4 DEF CreateMappingRun, MappingTypeOK
<1>3. ASSUME NEW e \in Entities, NEW v \in 1..MaxVersions, FreezeMappingVersion(e, v)
      PROVE  MappingTypeOK'
  <2>1. v \in DOMAIN versions[e] /\ versions' = [versions EXCEPT ![e] = Frozen(e, v)]
    BY <1>3 DEF FreezeMappingVersion
  <2>2. Frozen(e, v) \in Seq(Version)
    BY <2>1, FrozenType
  <2> QED
    BY <1>3, <2>1, <2>2 DEF FreezeMappingVersion, MappingTypeOK
<1>4. CASE UNCHANGED mappingVars
  BY <1>4 DEF mappingVars, MappingTypeOK
<1> QED
  BY <1>1, <1>2, <1>3, <1>4 DEF MappingNext

\* Accounts and versions keep their types, whatever is run and frozen.
THEOREM MappingTypeCorrect == MappingSpec => []MappingTypeOK
<1>1. MappingInit => MappingTypeOK
  <2>1. Placeholder \in Version
    BY NumMonthsAssumption DEF Placeholder, Version, Months, Forever
  <2>2. <<Placeholder>> \in Seq(Version)
    BY <2>1
  <2> QED
    BY <2>2 DEF MappingInit, MappingTypeOK
<1> QED
  BY <1>1, MappingStepType, PTL DEF MappingSpec

-----------------------------------------------------------------------------
(* What a freeze keeps.                                                    *)

\* A draft has never been dated out: only approved versions are.
DraftsOpenEnded ==
  \A e \in Entities : \A v \in DOMAIN versions[e] :
    versions[e][v].status = "draft" => versions[e][v].to = Forever

\* A mapping run appends one draft and leaves the versions before it alone.
LEMMA CreateAppends ==
  ASSUME MappingTypeOK, NEW d \in Entities, NEW from \in Months, CreateMappingRun(d, from),
         NEW e \in Entities
  PROVE  /\ DOMAIN versions[e] \subseteq DOMAIN versions'[e]
         /\ \A v \in DOMAIN versions[e] : versions'[e][v] = versions[e][v]
         /\ \A v \in DOMAIN versions'[e] \ DOMAIN versions[e] :
              versions'[e][v].status = "draft" /\ versions'[e][v].to = Forever
<1>1. PICK covered \in BOOLEAN :
        versions' = [versions EXCEPT ![d] =
                       Append(@, [ status |-> "draft", from |-> from, to |-> Forever,
                                   assigned |-> accounts[d], covered |-> covered ])]
  BY DEF CreateMappingRun
<1> DEFINE run == [ status |-> "draft", from |-> from, to |-> Forever,
                    assigned |-> accounts[d], covered |-> covered ]
<1>2. run \in Version /\ run.status = "draft" /\ run.to = Forever
  BY RunIsVersion DEF MappingTypeOK
<1> HIDE DEF run
<1>3. versions' = [versions EXCEPT ![d] = Append(@, run)]
  BY <1>1 DEF run
<1>4. CASE e # d
  BY <1>3, <1>4 DEF MappingTypeOK
<1>5. CASE e = d
  <2>1. versions'[e] = Append(versions[e], run) /\ versions[e] \in Seq(Version)
    BY <1>3, <1>5 DEF MappingTypeOK
  <2>2. /\ DOMAIN versions[e] = 1..Len(versions[e])
        /\ DOMAIN versions'[e] = 1..(Len(versions[e]) + 1)
        /\ Len(versions[e]) \in Nat
    BY <1>2, <2>1
  <2>3. /\ \A v \in 1..Len(versions[e]) : versions'[e][v] = versions[e][v]
        /\ versions'[e][Len(versions[e]) + 1] = run
    BY <1>2, <2>1, AppendFacts
  <2> QED
    BY <1>2, <2>2, <2>3
<1> QED
  BY <1>4, <1>5

\* The versions of every entity after a freeze of v by entity d.
LEMMA FreezeWrites ==
  ASSUME MappingTypeOK, NEW d \in Entities, NEW v, FreezeMappingVersion(d, v),
         NEW e \in Entities
  PROVE  /\ v \in DOMAIN versions[d]
         /\ accounts[d] \subseteq versions[d][v].assigned
         /\ versions'[d] = Frozen(d, v)
         /\ e # d => versions'[e] = versions[e]
         /\ DOMAIN versions'[e] = DOMAIN versions[e]
<1>1. /\ v \in DOMAIN versions[d] /\ FreezeGate(d, v)
      /\ versions' = [versions EXCEPT ![d] = Frozen(d, v)]
  BY DEF FreezeMappingVersion
<1>2. versions'[d] = Frozen(d, v) /\ (e # d => versions'[e] = versions[e])
  BY <1>1 DEF MappingTypeOK
<1>3. DOMAIN Frozen(d, v) = DOMAIN versions[d]
  BY DEF Frozen
<1> QED
  BY <1>1, <1>2, <1>3 DEF FreezeGate

\* Drafts stay open-ended: the close-out reaches approved versions only.
LEMMA DraftsStay == MappingSpec => []DraftsOpenEnded
<1>1. MappingInit => DraftsOpenEnded
  <2> SUFFICES ASSUME MappingInit, NEW e \in Entities, NEW v \in DOMAIN versions[e]
               PROVE  versions[e][v].to = Forever
    BY DEF DraftsOpenEnded
  <2>1. versions[e] = <<Placeholder>>
    BY DEF MappingInit
  <2>2. versions[e][v] = Placeholder
    BY <2>1
  <2> QED
    BY <2>2 DEF Placeholder
<1>2. MappingTypeOK /\ DraftsOpenEnded /\ [MappingNext]_mappingVars => DraftsOpenEnded'
  <2> SUFFICES ASSUME MappingTypeOK, DraftsOpenEnded, [MappingNext]_mappingVars,
                      NEW e \in Entities, NEW v \in DOMAIN versions'[e],
                      versions'[e][v].status = "draft"
               PROVE  versions'[e][v].to = Forever
    BY DEF DraftsOpenEnded
  <2>1. versions' = versions => versions'[e][v].to = Forever
    BY DEF DraftsOpenEnded
  <2>2. ASSUME NEW d \in Entities, NEW from \in Months, CreateMappingRun(d, from)
        PROVE  versions'[e][v].to = Forever
    BY <2>2, CreateAppends DEF DraftsOpenEnded
  <2>3. ASSUME NEW d \in Entities, NEW w \in 1..MaxVersions, FreezeMappingVersion(d, w)
        PROVE  versions'[e][v].to = Forever
    <3>1. v \in DOMAIN versions[e]
      BY <2>3, FreezeWrites
    <3>2. CASE e # d
      BY <2>3, <3>1, <3>2, FreezeWrites DEF DraftsOpenEnded
    <3>3. CASE e = d
      <4>1. w \in DOMAIN versions[e] /\ versions'[e] = Frozen(e, w)
        BY <2>3, <3>3, FreezeWrites
      <4>2. versions'[e][v].status = IF v = w THEN "approved" ELSE versions[e][v].status
        BY <3>1, <4>1, FrozenFields
      <4>3. versions[e][v].status = "draft"
        BY <4>2
      <4>4. versions'[e][v].to = versions[e][v].to
        BY <3>1, <4>1, <4>3, FrozenFields
      <4> QED
        BY <3>1, <4>3, <4>4 DEF DraftsOpenEnded
    <3> QED
      BY <3>2, <3>3
  <2> QED
    BY <2>1, <2>2, <2>3 DEF MappingNext, mappingVars
<1> QED
  BY <1>1, <1>2, MappingTypeCorrect, PTL DEF MappingSpec

-----------------------------------------------------------------------------
(* The properties of the runs.                                             *)

\* Only a freeze of v itself approves the draft v.
LEMMA OnlyFreezeApproves ==
  ASSUME MappingTypeOK, [MappingNext]_mappingVars,
         NEW e \in Entities, NEW v \in NewlyApproved(e)
  PROVE  FreezeMappingVersion(e, v)
<1>1. /\ v \in DOMAIN versions[e]
      /\ versions[e][v].status = "draft" /\ versions'[e][v].status = "approved"
  BY DEF NewlyApproved
<1>2. versions' = versions => FALSE
  BY <1>1
<1>3. ASSUME NEW d \in Entities, NEW from \in Months, CreateMappingRun(d, from)
      PROVE  FALSE
  <2>1. versions'[e][v] = versions[e][v]
    BY <1>1, <1>3, CreateAppends
  <2> QED
    BY <1>1, <2>1
<1>4. ASSUME NEW d \in Entities, NEW w \in 1..MaxVersions, FreezeMappingVersion(d, w)
      PROVE  d = e /\ w = v
  <2>1. d = e
    BY <1>1, <1>4, FreezeWrites
  <2>2. w \in DOMAIN versions[e] /\ versions'[e] = Frozen(e, w)
    BY <1>4, <2>1, FreezeWrites
  <2>3. versions'[e][v].status = IF v = w THEN "approved" ELSE versions[e][v].status
    BY <1>1, <2>2, FrozenFields
  <2> QED
    BY <1>1, <2>1, <2>3
<1> QED
  BY <1>2, <1>3, <1>4 DEF MappingNext, mappingVars

\* At most one approved version of an entity is open-ended: a freeze gives all
\* versions approved before it an end date inside the calendar.
THEOREM OpenEndedAtMostOnce == MappingSpec => []AtMostOneOpenEnded
<1> DEFINE OpenEnded(vs) ==
             { v \in DOMAIN vs : vs[v].status = "approved" /\ vs[v].to = Forever }
<1>1. \A S, x : S \subseteq {x} => Cardinality(S) =< 1
  <2> SUFFICES ASSUME NEW S, NEW x, S \subseteq {x} PROVE Cardinality(S) =< 1
    OBVIOUS
  <2>1. S = {} \/ S = {x}
    OBVIOUS
  <2>2. Cardinality({}) = 0 /\ Cardinality({x}) = 1
    BY FS_EmptySet, FS_Singleton, Zenon
  <2> QED
    BY <2>1, <2>2
<1>2. MappingInit => AtMostOneOpenEnded
  <2> SUFFICES ASSUME MappingInit, NEW e \in Entities
               PROVE  Cardinality(OpenEnded(versions[e])) =< 1
    BY DEF AtMostOneOpenEnded
  <2>1. versions[e] = <<Placeholder>>
    BY DEF MappingInit
  <2>2. OpenEnded(versions[e]) = {}
    BY <2>1 DEF Placeholder
  <2> QED
    BY <1>1, <2>2
<1>3. MappingTypeOK /\ AtMostOneOpenEnded /\ [MappingNext]_mappingVars => AtMostOneOpenEnded'
  <2> SUFFICES ASSUME MappingTypeOK, AtMostOneOpenEnded, [MappingNext]_mappingVars,
                      NEW e \in Entities
               PROVE  Cardinality(OpenEnded(versions'[e])) =< 1
    BY DEF AtMostOneOpenEnded
  <2>1. OpenEnded(versions'[e]) = OpenEnded(versions[e])
        => Cardinality(OpenEnded(versions'[e])) =< 1
    BY DEF AtMostOneOpenEnded
  <2>2. ASSUME NEW d \in Entities, NEW from \in Months, CreateMappingRun(d, from)
        PROVE  OpenEnded(versions'[e]) = OpenEnded(versions[e])
    <3>1. /\ DOMAIN versions[e] \subseteq DOMAIN versions'[e]
          /\ \A v \in DOMAIN versions[e] : versions'[e][v] = versions[e][v]
          /\ \A v \in DOMAIN versions'[e] \ DOMAIN versions[e] :
               versions'[e][v].status = "draft"
      BY <2>2, CreateAppends
    <3> QED
      BY <3>1
  <2>3. ASSUME NEW d \in Entities, NEW w \in 1..MaxVersions, FreezeMappingVersion(d, w)
        PROVE  Cardinality(OpenEnded(versions'[e])) =< 1
    <3>1. CASE e # d
      BY <2>1, <2>3, <3>1, FreezeWrites
    <3>2. CASE e = d
      <4>1. /\ w \in DOMAIN versions[e] /\ versions'[e] = Frozen(e, w)
            /\ DOMAIN versions'[e] = DOMAIN versions[e]
        BY <2>3, <3>2, FreezeWrites
      <4>2. versions[e][w].from # Forever
        <5>1. versions[e][w] \in Version
          BY <4>1 DEF MappingTypeOK
        <5> QED
          BY <5>1, NumMonthsAssumption DEF Version, Months, Forever
      <4>3. ASSUME NEW v \in OpenEnded(versions'[e])
            PROVE  v = w
        <5>1. /\ v \in DOMAIN versions[e] /\ Frozen(e, w)[v].status = "approved"
              /\ Frozen(e, w)[v].to = Forever
          BY <4>1, <4>3
        <5>2. versions[e][v].status # "approved"
          BY <4>1, <4>2, <5>1, FrozenFields
        <5> QED
          BY <4>1, <5>1, <5>2, FrozenFields
      <4> QED
        BY <1>1, <4>3
    <3> QED
      BY <3>1, <3>2
  <2>4. versions' = versions \/ (\E d \in Entities :
           \/ \E from \in Months : CreateMappingRun(d, from)
           \/ \E w \in 1..MaxVersions : FreezeMappingVersion(d, w))
    BY DEF MappingNext, mappingVars
  <2> QED
    BY <2>1, <2>2, <2>3, <2>4
<1> QED
  BY <1>2, <1>3, MappingTypeCorrect, PTL DEF MappingSpec

\* Freezing a draft leaves no month without a version that had one, and from
\* its effective_from on the new version governs alone.
THEOREM FreezeAlwaysKeepsCoverage == MappingSpec => FreezeKeepsCoverage
<1>1. ASSUME MappingTypeOK, DraftsOpenEnded, [MappingNext]_mappingVars,
             NEW e \in Entities, NEW v \in NewlyApproved(e), NEW m \in Months
      PROVE  /\ Governing(versions[e], m) # {} => Governing(versions'[e], m) # {}
             /\ m >= versions[e][v].from => Governing(versions'[e], m) = {v}
  <2>1. /\ v \in DOMAIN versions[e] /\ versions[e][v].status = "draft"
        /\ versions[e][v].to = Forever
    BY <1>1 DEF NewlyApproved, DraftsOpenEnded
  <2>2. versions'[e] = Frozen(e, v) /\ DOMAIN versions'[e] = DOMAIN versions[e]
    BY <1>1, OnlyFreezeApproves, FreezeWrites
  <2>3. versions[e][v] \in Version
    BY <1>1, <2>1 DEF MappingTypeOK
  <2>4. versions[e][v].from \in Int /\ m \in Int /\ m < Forever
    BY <2>3, NumMonthsAssumption DEF Version, Months, Forever
  <2>5. Frozen(e, v)[v].from = versions[e][v].from /\ Frozen(e, v)[v].to = Forever
    BY <1>1, <2>1, FrozenFields
  <2>6. m >= versions[e][v].from => Governing(versions'[e], m) = {v}
    BY <1>1, <2>1, <2>2, <2>4, <2>5, FrozenGoverns
  <2>7. ASSUME m < versions[e][v].from, NEW u \in Governing(versions[e], m)
        PROVE  u \in Governing(versions'[e], m)
    <3>1. /\ u \in DOMAIN versions[e] /\ versions[e][u].status = "approved"
          /\ versions[e][u].from =< m
      BY <2>7 DEF Governing
    <3>2. /\ Frozen(e, v)[u].status = "approved"
          /\ Frozen(e, v)[u].to = versions[e][v].from
          /\ Frozen(e, v)[u].from = versions[e][u].from
      BY <1>1, <2>1, <3>1, FrozenFields
    <3> QED
      BY <2>2, <2>7, <3>1, <3>2 DEF Governing
  <2> QED
    BY <2>4, <2>6, <2>7
<1>2. MappingTypeOK /\ DraftsOpenEnded /\ [MappingNext]_mappingVars =>
        [ \A e \in Entities : \A v \in NewlyApproved(e) : \A m \in Months :
            /\ Governing(versions[e], m) # {} => Governing(versions'[e], m) # {}
            /\ m >= versions[e][v].from => Governing(versions'[e], m) = {v} ]_mappingVars
  BY <1>1
<1> QED
  BY <1>2, MappingTypeCorrect, DraftsStay, PTL DEF MappingSpec, FreezeKeepsCoverage

\* A version is approved only while it assigns every account of its entity,
\* and keeps approval and assignments from then on.
THEOREM AlwaysApprovedCompletely == MappingSpec => ApprovedCompletely
<1>1. ASSUME MappingTypeOK, [MappingNext]_mappingVars, NEW e \in Entities,
             NEW v \in NewlyApproved(e)
      PROVE  accounts[e] \subseteq versions'[e][v].assigned
  <2>1. /\ v \in DOMAIN versions[e] /\ versions'[e] = Frozen(e, v)
        /\ accounts[e] \subseteq versions[e][v].assigned
    BY <1>1, OnlyFreezeApproves, FreezeWrites
  <2> QED
    BY <1>1, <2>1, FrozenFields
<1>2. ASSUME MappingTypeOK, [MappingNext]_mappingVars, NEW e \in Entities,
             NEW v \in DOMAIN versions[e], versions[e][v].status = "approved"
      PROVE  /\ versions'[e][v].status = "approved"
             /\ versions'[e][v].assigned = versions[e][v].assigned
  <2> DEFINE Kept == /\ versions'[e][v].status = "approved"
                     /\ versions'[e][v].assigned = versions[e][v].assigned
  <2>1. versions'[e][v] = versions[e][v] => Kept
    BY <1>2
  <2>2. ASSUME NEW d \in Entities, NEW from \in Months, CreateMappingRun(d, from)
        PROVE  Kept
    BY <1>2, <2>1, <2>2, CreateAppends
  <2>3. ASSUME NEW d \in Entities, NEW w \in 1..MaxVersions, FreezeMappingVersion(d, w)
        PROVE  Kept
    <3>1. CASE e # d
      BY <1>2, <2>1, <2>3, <3>1, FreezeWrites
    <3>2. CASE e = d
      <4>1. w \in DOMAIN versions[e] /\ versions'[e] = Frozen(e, w)
        BY <1>2, <2>3, <3>2, FreezeWrites
      <4> QED
        BY <1>2, <4>1, FrozenFields
    <3> QED
      BY <3>1, <3>2
  <2> QED
    BY <1>2, <2>1, <2>2, <2>3 DEF MappingNext, mappingVars
<1>3. MappingTypeOK /\ [MappingNext]_mappingVars =>
        [ \A e \in Entities :
            /\ \A v \in NewlyApproved(e) : accounts[e] \subseteq versions'[e][v].assigned
            /\ \A v \in DOMAIN versions[e] :
                 versions[e][v].status = "approved" =>
                   /\ versions'[e][v].status = "approved"
                   /\ versions'[e][v].assigned = versions[e][v].assigned ]_mappingVars
  BY <1>1, <1>2
<1> QED
  BY <1>3, MappingTypeCorrect, PTL DEF MappingSpec, ApprovedCompletely

-----------------------------------------------------------------------------
(* Lemmas: what the operators the requests are built from preserve.        *)

\* A load leaves a well-formed ledger.
LEMMA WriteGlRowsType ==
  ASSUME LedgerTypeOK, NEW e \in Entities, NEW file \in Files
  PROVE  WriteGlRows(e, file) \in [Entities -> [Lines -> Row]]
<1>1. PICK L \in SUBSET Lines : file \in [L -> BookedRow]
  BY DEF Files
<1>2. ASSUME NEW l \in Lines
      PROVE  (IF l \in DOMAIN file THEN file[l] ELSE facts[e][l]) \in Row
  BY <1>1 DEF LedgerTypeOK, Row
<1> QED
  BY <1>2 DEF WriteGlRows, LedgerTypeOK

\* The months a file touches are months of the calendar, its accounts known.
LEMMA FileRanges ==
  ASSUME NEW file \in Files
  PROVE  /\ PeriodsOf(file) \subseteq Months
         /\ AccountsOf(file) \subseteq Accounts
<1>1. PICK L \in SUBSET Lines : file \in [L -> BookedRow]
  BY DEF Files
<1>2. ASSUME NEW l \in DOMAIN file
      PROVE  file[l].month \in Months /\ AccountOf[l] \in Accounts
  BY <1>1, AccountOfAssumption DEF BookedRow
<1> QED
  BY <1>2 DEF PeriodsOf, AccountsOf

\* Raising exceptions appends well-formed ones.
LEMMA RaisedType ==
  ASSUME ExceptionsTypeOK, NEW S
  PROVE  Raised(S) \in [Cells -> Seq(Seq(ExceptionStatus))]
<1>1. "open" \in ExceptionStatus
  BY DEF ExceptionStatus
<1>2. <<"open">> \in Seq(ExceptionStatus)
  BY <1>1
<1>3. ASSUME NEW c \in Cells
      PROVE  Append(exceptions[c], <<"open">>) \in Seq(Seq(ExceptionStatus))
  BY <1>2 DEF ExceptionsTypeOK
<1> QED
  BY <1>3 DEF Raised, ExceptionsTypeOK

\* Inserting lock rows keeps every history a sequence of lock rows.
LEMMA InsertedType ==
  ASSUME PeriodTypeOK, NEW S, NEW target \in Stored, NEW version \in Nat
  PROVE  Inserted(S, target, version) \in [Cells -> Seq(LockRow)]
<1>1. [status |-> target, version |-> version] \in LockRow
  BY DEF LockRow
<1>2. ASSUME NEW c \in Cells
      PROVE  Append(locks[c], [status |-> target, version |-> version]) \in Seq(LockRow)
  BY <1>1 DEF PeriodTypeOK
<1> QED
  BY <1>2 DEF Inserted, PeriodTypeOK

\* The row a transition carries its version from has one.
LEMMA CurrentLockType ==
  ASSUME PeriodTypeOK, NEW c \in Cells, Status(c) # "open"
  PROVE  /\ locks[c] # <<>>
         /\ CurrentLock(c) \in LockRow
         /\ CurrentLock(c).version \in Nat
<1>1. locks[c] # <<>> /\ locks[c] \in Seq(LockRow)
  BY DEF Status, PeriodTypeOK
<1>2. Len(locks[c]) \in 1..Len(locks[c])
  BY <1>1
<1>3. CurrentLock(c) \in LockRow
  BY <1>1, <1>2 DEF CurrentLock
<1> QED
  BY <1>1, <1>3 DEF LockRow

-----------------------------------------------------------------------------
(* Type correctness of the close.                                          *)

\* The initial tables are well formed.
LEMMA InitType == CloseInit => CloseTypeOK
<1> SUFFICES ASSUME CloseInit PROVE CloseTypeOK
  OBVIOUS
<1>1. LedgerTypeOK
  BY DEF CloseInit, LedgerInit, LedgerTypeOK, Row
<1>2. ExceptionsTypeOK
  BY DEF CloseInit, ExceptionsInit, ExceptionsTypeOK
<1>3. MappingTypeOK
  <2>1. Placeholder \in Version
    BY NumMonthsAssumption DEF Placeholder, Version, Months, Forever
  <2>2. <<Placeholder>> \in Seq(Version)
    BY <2>1
  <2> QED
    BY <2>2 DEF CloseInit, MappingInit, MappingTypeOK
<1>4. PeriodTypeOK
  BY DEF CloseInit, PeriodInit, PeriodTypeOK
<1> QED
  BY <1>1, <1>2, <1>3, <1>4 DEF CloseTypeOK

\* A load.
LEMMA LoadGLType ==
  ASSUME CloseTypeOK, NEW e \in Entities, NEW file \in Files, LoadGL(e, file)
  PROVE  CloseTypeOK'
<1>1. LedgerTypeOK'
  BY WriteGlRowsType DEF CloseTypeOK, LoadGL, LedgerTypeOK
<1>2. ExceptionsTypeOK'
  BY RaisedType DEF CloseTypeOK, LoadGL, ExceptionsTypeOK
<1>3. MappingTypeOK'
  BY FileRanges DEF CloseTypeOK, LoadGL, AddAccounts, MappingTypeOK
<1>4. PeriodTypeOK'
  <2>1. "validated" \in Stored /\ PlaceholderId \in Nat
    BY DEF Stored, PlaceholderId
  <2>2. locks' \in [Cells -> Seq(LockRow)]
    BY <2>1, InsertedType DEF CloseTypeOK, LoadGL
  <2>3. TrialBalanceRun \in Run
    BY <2>1 DEF TrialBalanceRun, Run
  <2>4. runs' \in [Cells -> SUBSET Run]
    BY <2>3 DEF CloseTypeOK, LoadGL, PeriodTypeOK
  <2> QED
    BY <2>2, <2>4 DEF PeriodTypeOK
<1> QED
  BY <1>1, <1>2, <1>3, <1>4 DEF CloseTypeOK

\* A resolution.
LEMMA ResolveType ==
  ASSUME CloseTypeOK, NEW c \in Cells, NEW i, NEW resolution \in Resolutions,
         Resolve(c, i, resolution)
  PROVE  CloseTypeOK'
<1>1. ExceptionsTypeOK'
  <2>1. exceptions[c] \in Seq(Seq(ExceptionStatus)) /\ i \in DOMAIN exceptions[c]
    BY DEF Resolve, CloseTypeOK, ExceptionsTypeOK
  <2>2. Append(exceptions[c][i], resolution) \in Seq(ExceptionStatus)
    BY <2>1 DEF ExceptionStatus
  <2>3. [exceptions[c] EXCEPT ![i] = Append(@, resolution)] \in Seq(Seq(ExceptionStatus))
    BY <2>1, <2>2
  <2>4. exceptions' = [exceptions EXCEPT ![c] = [exceptions[c] EXCEPT ![i] = Append(@, resolution)]]
    BY DEF Resolve, ResolveException
  <2> QED
    BY <2>3, <2>4 DEF CloseTypeOK, ExceptionsTypeOK
<1> QED
  BY <1>1 DEF Resolve, CloseTypeOK, LedgerTypeOK, MappingTypeOK, PeriodTypeOK

\* A mapping run.
LEMMA CreateRunType ==
  ASSUME CloseTypeOK, NEW e \in Entities, NEW from \in Months, CreateRun(e, from)
  PROVE  CloseTypeOK'
<1>1. PICK covered \in BOOLEAN :
        versions' = [versions EXCEPT ![e] =
                       Append(@, [ status |-> "draft", from |-> from, to |-> Forever,
                                   assigned |-> accounts[e], covered |-> covered ])]
  BY DEF CreateRun, CreateMappingRun
<1>2. [ status |-> "draft", from |-> from, to |-> Forever,
        assigned |-> accounts[e], covered |-> covered ] \in Version
  BY NumMonthsAssumption DEF CloseTypeOK, MappingTypeOK, Version, Months, Forever
<1>3. MappingTypeOK'
  BY <1>1, <1>2 DEF CreateRun, CreateMappingRun, CloseTypeOK, MappingTypeOK
<1> QED
  BY <1>3 DEF CreateRun, CloseTypeOK, LedgerTypeOK, ExceptionsTypeOK, PeriodTypeOK

\* A freeze.
LEMMA FreezeType ==
  ASSUME CloseTypeOK, NEW e \in Entities, NEW v \in 1..MaxVersions, Freeze(e, v)
  PROVE  CloseTypeOK'
<1>1. v \in DOMAIN versions[e]
  BY DEF Freeze, FreezeMappingVersion
<1>2. MappingTypeOK'
  BY <1>1, FrozenType DEF Freeze, FreezeMappingVersion, CloseTypeOK, MappingTypeOK
<1>3. v \in Nat
  BY <1>1 DEF CloseTypeOK, MappingTypeOK
<1>4. "mapped" \in Stored
  BY DEF Stored
<1>5. PeriodTypeOK'
  BY <1>3, <1>4, InsertedType DEF Freeze, CloseTypeOK, PeriodTypeOK
<1> QED
  BY <1>2, <1>5 DEF Freeze, CloseTypeOK, LedgerTypeOK, ExceptionsTypeOK

\* The three requests on one period.
LEMMA PeriodRequestsType ==
  ASSUME CloseTypeOK, NEW c \in Cells, RunBooksToBank(c) \/ Reconcile(c) \/ Lock(c)
  PROVE  CloseTypeOK'
<1>1. PeriodTypeOK'
  <2>1. CASE RunBooksToBank(c)
    <3>1. CurrentLock(c).version \in Nat
      BY <2>1, CurrentLockType DEF RunBooksToBank, ReconciliationRun, CloseTypeOK
    <3>2. [check |-> "books_to_bank", version |-> CurrentLock(c).version] \in Run
      BY <3>1 DEF Run
    <3> QED
      BY <2>1, <3>2 DEF RunBooksToBank, ReconciliationRun, CloseTypeOK, PeriodTypeOK
  <2>2. CASE Reconcile(c)
    <3>1. Status(c) # "open"
      BY <2>2 DEF Reconcile, ReconcilePeriod, RequirePredecessor, Predecessor
    <3>2. CurrentLock(c).version \in Nat /\ "reconciled" \in Stored
      BY <3>1, CurrentLockType DEF CloseTypeOK, Stored
    <3> QED
      BY <2>2, <3>2, InsertedType DEF Reconcile, ReconcilePeriod, CloseTypeOK, PeriodTypeOK
  <2>3. CASE Lock(c)
    <3>1. Status(c) # "open"
      BY <2>3 DEF Lock, LockPeriod, RequirePredecessor, Predecessor
    <3>2. CurrentLock(c).version \in Nat /\ "locked" \in Stored
      BY <3>1, CurrentLockType DEF CloseTypeOK, Stored
    <3> QED
      BY <2>3, <3>2, InsertedType DEF Lock, LockPeriod, CloseTypeOK, PeriodTypeOK
  <2> QED
    BY <2>1, <2>2, <2>3
<1>2. UNCHANGED <<facts, exceptions, accounts, versions>>
  BY DEF RunBooksToBank, Reconcile, Lock
<1> QED
  BY <1>1, <1>2 DEF CloseTypeOK, LedgerTypeOK, ExceptionsTypeOK, MappingTypeOK

\* Every step keeps the tables well formed.
LEMMA StepType == CloseTypeOK /\ [CloseNext]_closeVars => CloseTypeOK'
<1> SUFFICES ASSUME CloseTypeOK, [CloseNext]_closeVars PROVE CloseTypeOK'
  OBVIOUS
<1>1. ASSUME NEW e \in Entities, NEW file \in Files, LoadGL(e, file)
      PROVE  CloseTypeOK'
  BY <1>1, LoadGLType
<1>2. ASSUME NEW e \in Entities, NEW S \in SUBSET Accounts, LoadCOA(e, S)
      PROVE  CloseTypeOK'
  BY <1>2 DEF LoadCOA, AddAccounts, CloseTypeOK, LedgerTypeOK, ExceptionsTypeOK,
              MappingTypeOK, PeriodTypeOK
<1>3. ASSUME NEW e \in Entities, NEW from \in Months, CreateRun(e, from)
      PROVE  CloseTypeOK'
  BY <1>3, CreateRunType
<1>4. ASSUME NEW e \in Entities, NEW v \in 1..MaxVersions, Freeze(e, v)
      PROVE  CloseTypeOK'
  BY <1>4, FreezeType
<1>5. ASSUME NEW c \in Cells, NEW i \in 1..MaxExceptions, NEW r \in Resolutions,
             Resolve(c, i, r)
      PROVE  CloseTypeOK'
  BY <1>5, ResolveType
<1>6. ASSUME NEW c \in Cells, RunBooksToBank(c) \/ Reconcile(c) \/ Lock(c)
      PROVE  CloseTypeOK'
  BY <1>6, PeriodRequestsType
<1>7. CASE UNCHANGED closeVars
  BY <1>7 DEF closeVars, CloseTypeOK, LedgerTypeOK, ExceptionsTypeOK,
              MappingTypeOK, PeriodTypeOK
<1> QED
  BY <1>1, <1>2, <1>3, <1>4, <1>5, <1>6, <1>7 DEF CloseNext

\* Type correctness of the whole close: every table keeps the shape its reader
\* relies on, through every request.
THEOREM CloseTypeCorrect == CloseSpec => []CloseTypeOK
BY InitType, StepType, PTL DEF CloseSpec

-----------------------------------------------------------------------------
(* Reconciled on its own run.  The property is not inductive: it needs the  *)
(* position of every state in a history (so that the row a transition       *)
(* carries its version from is known), and that every books-to-bank run of  *)
(* a period was made under the version the period is mapped on.             *)
(* What it takes is local to one period: h stands for its lock rows, R for  *)
(* its runs and vs for the mapping versions of its entity.                  *)

StatesInOrder(h) ==
  /\ h \in Seq(LockRow)
  /\ Len(h) =< 4
  /\ \A i \in 1..Len(h) : /\ i = 1 => h[i].status = "validated"
                          /\ i = 2 => h[i].status = "mapped"
                          /\ i = 3 => h[i].status = "reconciled"
                          /\ i = 4 => h[i].status = "locked"

Approved(vs, v) == v \in DOMAIN vs /\ vs[v].status = "approved"

OneVersion(h, vs) ==
  \A i \in 2..Len(h) : h[i].version = h[2].version /\ Approved(vs, h[i].version)

OwnRun(h) == [check |-> "books_to_bank", version |-> h[2].version]

RunsUnderIt(h, R) ==
  /\ R \subseteq Run
  /\ \A r \in R : r.check = "books_to_bank" => Len(h) >= 2 /\ r = OwnRun(h)
  /\ Len(h) >= 3 => OwnRun(h) \in R

PeriodInv(h, R, vs) == StatesInOrder(h) /\ OneVersion(h, vs) /\ RunsUnderIt(h, R)

CloseInv ==
  /\ CloseTypeOK
  /\ \A c \in Cells : PeriodInv(locks[c], runs[c], versions[c[1]])

\* Where in its history a period in a given state stands.
LEMMA PositionOfStatus ==
  ASSUME NEW c \in Cells, StatesInOrder(locks[c])
  PROVE  /\ Len(locks[c]) \in {0, 1, 2, 3, 4}
         /\ Status(c) = "open" <=> Len(locks[c]) = 0
         /\ Status(c) = "validated" <=> Len(locks[c]) = 1
         /\ Status(c) = "mapped" <=> Len(locks[c]) = 2
         /\ Status(c) = "reconciled" <=> Len(locks[c]) = 3
         /\ Status(c) = "locked" <=> Len(locks[c]) = 4
<1> DEFINE h == locks[c]
<1>1. h \in Seq(LockRow) /\ Len(h) \in Nat /\ Len(h) =< 4
  BY DEF StatesInOrder
<1>2. Len(h) \in {0, 1, 2, 3, 4}
  <2>1. \A n \in Nat : n =< 4 => n \in {0, 1, 2, 3, 4}
    OBVIOUS
  <2> QED
    BY <1>1, <2>1, Zenon
<1>3. h = <<>> <=> Len(h) = 0
  BY <1>1
<1>4. CASE Len(h) = 0
  BY <1>3, <1>4 DEF Status
<1>5. CASE Len(h) # 0
  <2>1. Status(c) = h[Len(h)].status
    BY <1>3, <1>5 DEF Status, CurrentLock
  <2>2. Len(h) \in 1..Len(h)
    BY <1>1, <1>5
  <2>3. /\ Len(h) = 1 => Status(c) = "validated"
        /\ Len(h) = 2 => Status(c) = "mapped"
        /\ Len(h) = 3 => Status(c) = "reconciled"
        /\ Len(h) = 4 => Status(c) = "locked"
    BY <2>1, <2>2 DEF StatesInOrder
  <2> QED
    BY <1>2, <1>5, <2>3
<1> QED
  BY <1>2, <1>4, <1>5

\* The row a transition carries its version from is the last one.
LEMMA CarriedVersion ==
  ASSUME NEW c \in Cells, NEW R, NEW vs, PeriodInv(locks[c], R, vs),
         Len(locks[c]) \in {2, 3}
  PROVE  CurrentLock(c).version = locks[c][2].version
BY DEF CurrentLock, PeriodInv, OneVersion

\* Appending the next state of the diagram, by position.
LEMMA NextStateInOrder ==
  ASSUME NEW h, StatesInOrder(h), NEW row \in LockRow,
         \/ Len(h) = 0 /\ row.status = "validated"
         \/ Len(h) = 1 /\ row.status = "mapped"
         \/ Len(h) = 2 /\ row.status = "reconciled"
         \/ Len(h) = 3 /\ row.status = "locked"
  PROVE  StatesInOrder(Append(h, row))
<1> DEFINE g == Append(h, row)
           n == Len(h)
<1>1. h \in Seq(LockRow)
  BY DEF StatesInOrder
<1>2. /\ g \in Seq(LockRow) /\ n \in Nat /\ Len(g) = n + 1
      /\ \A i \in 1..n : g[i] = h[i]
      /\ g[n + 1] = row
  BY <1>1, AppendFacts
<1>3. \A i \in 1..n : /\ i = 1 => h[i].status = "validated"
                      /\ i = 2 => h[i].status = "mapped"
                      /\ i = 3 => h[i].status = "reconciled"
                      /\ i = 4 => h[i].status = "locked"
  BY DEF StatesInOrder
<1>4. \/ n = 0 /\ row.status = "validated"
      \/ n = 1 /\ row.status = "mapped"
      \/ n = 2 /\ row.status = "reconciled"
      \/ n = 3 /\ row.status = "locked"
  OBVIOUS
<1> HIDE DEF g, n
<1>5. Len(g) =< 4
  BY <1>2, <1>4
<1>6. ASSUME NEW i \in 1..Len(g)
      PROVE  /\ i = 1 => g[i].status = "validated"
             /\ i = 2 => g[i].status = "mapped"
             /\ i = 3 => g[i].status = "reconciled"
             /\ i = 4 => g[i].status = "locked"
  <2>1. CASE i \in 1..n
    BY <1>2, <1>3, <2>1
  <2>2. CASE i = n + 1
    BY <1>2, <1>4, <2>2
  <2> QED
    BY <1>2, <2>1, <2>2
<1>7. StatesInOrder(g)
  BY <1>2, <1>5, <1>6 DEF StatesInOrder
<1> QED
  BY <1>7 DEF g

\* A load: the first row of a period, and a trial-balance run.
LEMMA ValidatedKeepsInv ==
  ASSUME NEW h, NEW R, NEW vs, PeriodInv(h, R, vs), NEW row \in LockRow,
         Len(h) = 0, row.status = "validated"
  PROVE  PeriodInv(Append(h, row), R, vs)
<1>1. h \in Seq(LockRow)
  BY DEF PeriodInv, StatesInOrder
<1>2. StatesInOrder(Append(h, row)) /\ Len(Append(h, row)) = 1
  <2>1. StatesInOrder(Append(h, row))
    BY NextStateInOrder DEF PeriodInv
  <2>2. Len(Append(h, row)) = 1
    BY <1>1
  <2> QED
    BY <2>1, <2>2
<1>3. OneVersion(Append(h, row), vs)
  BY <1>2 DEF OneVersion
<1>4. RunsUnderIt(Append(h, row), R)
  BY <1>2 DEF PeriodInv, RunsUnderIt
<1> QED
  BY <1>2, <1>3, <1>4 DEF PeriodInv

\* A freeze: the second row names the version being approved.
LEMMA MappedKeepsInv ==
  ASSUME NEW h, NEW R, NEW vs, PeriodInv(h, R, vs), NEW row \in LockRow,
         Len(h) = 1, row.status = "mapped", Approved(vs, row.version)
  PROVE  PeriodInv(Append(h, row), R, vs)
<1>1. h \in Seq(LockRow)
  BY DEF PeriodInv, StatesInOrder
<1>2. /\ StatesInOrder(Append(h, row)) /\ Len(Append(h, row)) = 2
      /\ Append(h, row)[2] = row
  <2>1. StatesInOrder(Append(h, row))
    BY NextStateInOrder DEF PeriodInv
  <2>2. /\ Len(Append(h, row)) = Len(h) + 1
        /\ Append(h, row)[Len(h) + 1] = row
    BY <1>1, AppendFacts
  <2> QED
    BY <2>1, <2>2
<1>3. OneVersion(Append(h, row), vs)
  BY <1>2 DEF OneVersion
<1>4. RunsUnderIt(Append(h, row), R)
  BY <1>2 DEF PeriodInv, RunsUnderIt
<1> QED
  BY <1>2, <1>3, <1>4 DEF PeriodInv

\* Reconcile and lock: the version is carried, the run is already there.
LEMMA CarriedKeepsInv ==
  ASSUME NEW h, NEW R, NEW vs, PeriodInv(h, R, vs), NEW row \in LockRow,
         row.version = h[2].version,
         \/ Len(h) = 2 /\ row.status = "reconciled" /\ OwnRun(h) \in R
         \/ Len(h) = 3 /\ row.status = "locked"
  PROVE  PeriodInv(Append(h, row), R, vs)
<1>1. h \in Seq(LockRow)
  BY DEF PeriodInv, StatesInOrder
<1>2. /\ StatesInOrder(Append(h, row)) /\ Len(Append(h, row)) = Len(h) + 1
      /\ \A i \in 1..Len(h) : Append(h, row)[i] = h[i]
      /\ Append(h, row)[Len(h) + 1] = row
  BY <1>1, NextStateInOrder DEF PeriodInv
<1>3. Append(h, row)[2] = h[2] /\ OwnRun(Append(h, row)) = OwnRun(h)
  BY <1>2 DEF OwnRun
<1>4. OneVersion(Append(h, row), vs)
  <2>1. ASSUME NEW i \in 2..(Len(h) + 1)
        PROVE  Append(h, row)[i].version = h[2].version
    BY <1>2, <2>1 DEF PeriodInv, OneVersion
  <2>2. Approved(vs, h[2].version)
    BY DEF PeriodInv, OneVersion
  <2> QED
    BY <1>2, <1>3, <2>1, <2>2 DEF OneVersion
<1>5. RunsUnderIt(Append(h, row), R)
  BY <1>2, <1>3 DEF PeriodInv, RunsUnderIt
<1> QED
  BY <1>2, <1>4, <1>5 DEF PeriodInv

\* A books-to-bank run under the version of a mapped period.
LEMMA OwnRunKeepsInv ==
  ASSUME NEW h, NEW R, NEW vs, PeriodInv(h, R, vs), Len(h) = 2
  PROVE  PeriodInv(h, R \cup {OwnRun(h)}, vs)
<1>1. h[2].version \in Nat
  <2>1. h \in Seq(LockRow) /\ 2 \in 1..Len(h)
    BY DEF PeriodInv, StatesInOrder
  <2>2. h[2] \in LockRow
    BY <2>1
  <2> QED
    BY <2>2 DEF LockRow
<1>2. OwnRun(h) \in Run
  BY <1>1 DEF OwnRun, Run
<1> QED
  BY <1>2 DEF PeriodInv, RunsUnderIt

\* A trial-balance run.
LEMMA TrialBalanceRunKeepsInv ==
  ASSUME NEW h, NEW R, NEW vs, PeriodInv(h, R, vs)
  PROVE  PeriodInv(h, R \cup {TrialBalanceRun}, vs)
<1>1. TrialBalanceRun \in Run /\ TrialBalanceRun.check # "books_to_bank"
  BY DEF TrialBalanceRun, Run, PlaceholderId
<1> QED
  BY <1>1 DEF PeriodInv, RunsUnderIt

\* Versions are only ever added and approved.
LEMMA MoreVersionsKeepInv ==
  ASSUME NEW h, NEW R, NEW vs, NEW ws, PeriodInv(h, R, vs),
         \A v : Approved(vs, v) => Approved(ws, v)
  PROVE  PeriodInv(h, R, ws)
BY DEF PeriodInv, OneVersion

\* The entity of a cell.
LEMMA CellEntity == \A c \in Cells : c[1] \in Entities
BY DEF Cells

\* No period holds a row or a run at the start.
LEMMA InitInv == CloseInit => CloseInv
<1> SUFFICES ASSUME CloseInit PROVE CloseInv
  OBVIOUS
<1>1. ASSUME NEW c \in Cells
      PROVE  PeriodInv(locks[c], runs[c], versions[c[1]])
  <2>1. locks[c] = <<>> /\ runs[c] = {} /\ Len(<<>>) = 0
    BY DEF CloseInit, PeriodInit
  <2>2. StatesInOrder(<<>>)
    BY <2>1 DEF StatesInOrder
  <2> QED
    BY <2>1, <2>2 DEF PeriodInv, OneVersion, RunsUnderIt
<1> QED
  BY <1>1, InitType DEF CloseInv

\* A load.
LEMMA LoadGLInv ==
  ASSUME CloseInv, NEW e \in Entities, NEW file \in Files, LoadGL(e, file),
         NEW c \in Cells
  PROVE  PeriodInv(locks'[c], runs'[c], versions'[c[1]])
<1>1. PICK touched, q :
        /\ locks' = Inserted(Validatable(q, touched), "validated", PlaceholderId)
        /\ runs' = [d \in Cells |-> IF d \in touched THEN runs[d] \cup {TrialBalanceRun}
                                                      ELSE runs[d]]
        /\ versions' = versions
  BY DEF LoadGL
<1> DEFINE row == [status |-> "validated", version |-> PlaceholderId]
<1>2. PeriodInv(locks[c], runs[c], versions[c[1]])
  BY DEF CloseInv
<1>3. PeriodInv(locks'[c], runs[c], versions[c[1]])
  <2>1. CASE c \in Validatable(q, touched)
    <3>1. Len(locks[c]) = 0
      BY <2>1 DEF Validatable
    <3>2. row \in LockRow
      BY DEF LockRow, Stored, PlaceholderId
    <3>3. locks'[c] = Append(locks[c], row)
      BY <1>1, <2>1 DEF Inserted
    <3> QED
      BY <1>2, <3>1, <3>2, <3>3, ValidatedKeepsInv
  <2>2. CASE c \notin Validatable(q, touched)
    BY <1>1, <1>2, <2>2 DEF Inserted
  <2> QED
    BY <2>1, <2>2
<1>4. runs'[c] = runs[c] \/ runs'[c] = runs[c] \cup {TrialBalanceRun}
  BY <1>1
<1> QED
  BY <1>1, <1>3, <1>4, TrialBalanceRunKeepsInv

\* A mapping run: one more version, the others as they were.
LEMMA CreateRunInv ==
  ASSUME CloseInv, NEW e \in Entities, NEW from \in Months, CreateRun(e, from),
         NEW c \in Cells
  PROVE  PeriodInv(locks'[c], runs'[c], versions'[c[1]])
<1>1. PICK draft \in Version : versions' = [versions EXCEPT ![e] = Append(@, draft)]
  <2>1. PICK covered \in BOOLEAN :
          versions' = [versions EXCEPT ![e] =
                         Append(@, [ status |-> "draft", from |-> from, to |-> Forever,
                                     assigned |-> accounts[e], covered |-> covered ])]
    BY DEF CreateRun, CreateMappingRun
  <2>2. [ status |-> "draft", from |-> from, to |-> Forever,
          assigned |-> accounts[e], covered |-> covered ] \in Version
    BY NumMonthsAssumption DEF CloseInv, CloseTypeOK, MappingTypeOK, Version, Months, Forever
  <2> QED
    BY <2>1, <2>2
<1>2. c[1] \in Entities /\ versions[c[1]] \in Seq(Version)
  BY CellEntity DEF CloseInv, CloseTypeOK, MappingTypeOK
<1>3. ASSUME NEW v, Approved(versions[c[1]], v)
      PROVE  Approved(versions'[c[1]], v)
  <2>1. CASE c[1] = e
    <3>1. versions'[c[1]] = Append(versions[c[1]], draft)
      BY <1>1, <2>1 DEF CloseInv, CloseTypeOK, MappingTypeOK
    <3>2. v \in 1..Len(versions[c[1]])
      BY <1>2, <1>3 DEF Approved
    <3>3. v \in DOMAIN versions'[c[1]] /\ versions'[c[1]][v] = versions[c[1]][v]
      BY <1>2, <3>1, <3>2
    <3> QED
      BY <1>3, <3>3 DEF Approved
  <2>2. CASE c[1] # e
    BY <1>1, <1>2, <1>3, <2>2 DEF CloseInv, CloseTypeOK, MappingTypeOK
  <2> QED
    BY <2>1, <2>2
<1>4. locks' = locks /\ runs' = runs
  BY DEF CreateRun
<1> QED
  BY <1>3, <1>4, MoreVersionsKeepInv DEF CloseInv

\* A freeze approves v, leaves every other approval standing and maps the
\* validated periods on v.
LEMMA FreezeInv ==
  ASSUME CloseInv, NEW e \in Entities, NEW v \in 1..MaxVersions, Freeze(e, v),
         NEW c \in Cells
  PROVE  PeriodInv(locks'[c], runs'[c], versions'[c[1]])
<1>1. /\ v \in DOMAIN versions[e]
      /\ versions' = [versions EXCEPT ![e] = Frozen(e, v)]
      /\ locks' = Inserted(Mappable(e, Frozen(e, v)[v]), "mapped", v)
      /\ runs' = runs
  BY DEF Freeze, FreezeMappingVersion
<1>2. c[1] \in Entities /\ versions \in [Entities -> Seq(Version)]
  BY CellEntity DEF CloseInv, CloseTypeOK, MappingTypeOK
<1>3. versions'[e] = Frozen(e, v)
  BY <1>1, <1>2
<1>4. ASSUME NEW w \in DOMAIN versions[e], w = v \/ versions[e][w].status = "approved"
      PROVE  Approved(versions'[e], w)
  <2>1. versions[e][w] \in Version
    BY <1>2
  <2>2. Frozen(e, v)[w].status = "approved"
    BY <1>4, <2>1 DEF Frozen, Version
  <2>3. w \in DOMAIN Frozen(e, v)
    BY DEF Frozen
  <2> QED
    BY <1>3, <2>2, <2>3 DEF Approved
<1>5. ASSUME NEW w, Approved(versions[c[1]], w)
      PROVE  Approved(versions'[c[1]], w)
  <2>1. CASE c[1] = e
    BY <1>4, <1>5, <2>1 DEF Approved
  <2>2. CASE c[1] # e
    BY <1>1, <1>2, <1>5, <2>2
  <2> QED
    BY <2>1, <2>2
<1>6. PeriodInv(locks[c], runs[c], versions'[c[1]])
  BY <1>5, MoreVersionsKeepInv DEF CloseInv
<1> DEFINE row == [status |-> "mapped", version |-> v]
<1>7. CASE c \in Mappable(e, Frozen(e, v)[v])
  <2>1. c[1] = e /\ Status(c) = "validated"
    BY <1>7 DEF Mappable
  <2>2. Len(locks[c]) = 1
    BY <1>6, <2>1, PositionOfStatus DEF PeriodInv
  <2>3. row \in LockRow
    <3>1. v \in Nat
      BY <1>1, <1>2
    <3> QED
      BY <3>1 DEF LockRow, Stored
  <2>4. Approved(versions'[c[1]], row.version)
    BY <1>1, <1>4, <2>1
  <2>5. locks'[c] = Append(locks[c], row)
    BY <1>1, <1>7 DEF Inserted
  <2> QED
    BY <1>1, <1>6, <2>2, <2>3, <2>4, <2>5, MappedKeepsInv
<1>8. CASE c \notin Mappable(e, Frozen(e, v)[v])
  BY <1>1, <1>6, <1>8 DEF Inserted
<1> QED
  BY <1>7, <1>8

\* The three requests on a period d, seen from any period c.
LEMMA PeriodRequestsInv ==
  ASSUME CloseInv, NEW d \in Cells, RunBooksToBank(d) \/ Reconcile(d) \/ Lock(d),
         NEW c \in Cells
  PROVE  PeriodInv(locks'[c], runs'[c], versions'[c[1]])
<1> DEFINE h == locks[d]
           row(status) == [status |-> status, version |-> CurrentLock(d).version]
<1>1. PeriodInv(h, runs[d], versions[d[1]]) /\ StatesInOrder(locks[d])
  BY DEF CloseInv, PeriodInv
<1>2. PeriodInv(locks[c], runs[c], versions[c[1]])
  BY DEF CloseInv
<1>3. versions' = versions
  BY DEF RunBooksToBank, Reconcile, Lock
<1>4. locks \in [Cells -> Seq(LockRow)] /\ runs \in [Cells -> SUBSET Run]
  BY DEF CloseInv, CloseTypeOK, PeriodTypeOK
<1>5. CASE RunBooksToBank(d)
  <2>1. Len(h) = 2
    BY <1>1, <1>5, PositionOfStatus DEF RunBooksToBank, ReconciliationRun
  <2>2. CurrentLock(d).version = h[2].version
    BY <1>1, <2>1, CarriedVersion
  <2>3. /\ locks' = locks
        /\ runs' = [runs EXCEPT ![d] = @ \cup {OwnRun(h)}]
    BY <1>5, <2>2 DEF RunBooksToBank, ReconciliationRun, OwnRun
  <2>4. CASE c = d
    BY <1>1, <1>3, <1>4, <2>1, <2>3, <2>4, OwnRunKeepsInv
  <2>5. CASE c # d
    BY <1>2, <1>3, <1>4, <2>3, <2>5
  <2> QED
    BY <2>4, <2>5
<1>6. CASE Reconcile(d)
  <2>1. Len(h) = 2 /\ Status(d) # "open"
    BY <1>1, <1>6, PositionOfStatus
       DEF Reconcile, ReconcilePeriod, RequirePredecessor, Predecessor
  <2>2. CurrentLock(d).version = h[2].version
    BY <1>1, <2>1, CarriedVersion
  <2>3. OwnRun(h) \in runs[d]
    BY <1>1, <1>6 DEF Reconcile, ReconcilePeriod, HasRun, PeriodInv, RunsUnderIt
  <2>4. row("reconciled") \in LockRow
    BY <1>4, <2>1, CurrentLockType DEF CloseInv, CloseTypeOK, LockRow, Stored
  <2>5. locks' = Inserted({d}, "reconciled", CurrentLock(d).version) /\ runs' = runs
    BY <1>6 DEF Reconcile, ReconcilePeriod
  <2>6. CASE c = d
    <3>1. locks'[d] = Append(h, row("reconciled"))
      BY <2>5 DEF Inserted
    <3> QED
      BY <1>1, <1>3, <2>1, <2>2, <2>3, <2>4, <2>5, <2>6, <3>1, CarriedKeepsInv
  <2>7. CASE c # d
    BY <1>2, <1>3, <2>5, <2>7 DEF Inserted
  <2> QED
    BY <2>6, <2>7
<1>7. CASE Lock(d)
  <2>1. Len(h) = 3 /\ Status(d) # "open"
    BY <1>1, <1>7, PositionOfStatus
       DEF Lock, LockPeriod, RequirePredecessor, Predecessor
  <2>2. CurrentLock(d).version = h[2].version
    BY <1>1, <2>1, CarriedVersion
  <2>3. row("locked") \in LockRow
    BY <1>4, <2>1, CurrentLockType DEF CloseInv, CloseTypeOK, LockRow, Stored
  <2>4. locks' = Inserted({d}, "locked", CurrentLock(d).version) /\ runs' = runs
    BY <1>7 DEF Lock, LockPeriod
  <2>5. CASE c = d
    <3>1. locks'[d] = Append(h, row("locked"))
      BY <2>4 DEF Inserted
    <3> QED
      BY <1>1, <1>3, <2>1, <2>2, <2>3, <2>4, <2>5, <3>1, CarriedKeepsInv
  <2>6. CASE c # d
    BY <1>2, <1>3, <2>4, <2>6 DEF Inserted
  <2> QED
    BY <2>5, <2>6
<1> QED
  BY <1>5, <1>6, <1>7

\* Every step keeps the invariant.
LEMMA StepInv == CloseInv /\ [CloseNext]_closeVars => CloseInv'
<1> SUFFICES ASSUME CloseInv, [CloseNext]_closeVars PROVE CloseInv'
  OBVIOUS
<1>1. CloseTypeOK'
  BY StepType DEF CloseInv
<1>2. ASSUME NEW c \in Cells
      PROVE  PeriodInv(locks'[c], runs'[c], versions'[c[1]])
  <2>1. ASSUME NEW e \in Entities, NEW file \in Files, LoadGL(e, file)
        PROVE  PeriodInv(locks'[c], runs'[c], versions'[c[1]])
    BY <2>1, LoadGLInv
  <2>2. ASSUME NEW e \in Entities, NEW from \in Months, CreateRun(e, from)
        PROVE  PeriodInv(locks'[c], runs'[c], versions'[c[1]])
    BY <2>2, CreateRunInv
  <2>3. ASSUME NEW e \in Entities, NEW v \in 1..MaxVersions, Freeze(e, v)
        PROVE  PeriodInv(locks'[c], runs'[c], versions'[c[1]])
    BY <2>3, FreezeInv
  <2>4. ASSUME NEW d \in Cells, RunBooksToBank(d) \/ Reconcile(d) \/ Lock(d)
        PROVE  PeriodInv(locks'[c], runs'[c], versions'[c[1]])
    BY <2>4, PeriodRequestsInv
  <2>5. ASSUME UNCHANGED <<locks, runs, versions>>
        PROVE  PeriodInv(locks'[c], runs'[c], versions'[c[1]])
    BY <2>5 DEF CloseInv
  <2>6. ASSUME NEW e \in Entities, NEW S \in SUBSET Accounts, LoadCOA(e, S)
        PROVE  UNCHANGED <<locks, runs, versions>>
    BY <2>6 DEF LoadCOA
  <2>7. ASSUME NEW d \in Cells, NEW i \in 1..MaxExceptions, NEW r \in Resolutions,
               Resolve(d, i, r)
        PROVE  UNCHANGED <<locks, runs, versions>>
    BY <2>7 DEF Resolve
  <2>8. UNCHANGED closeVars => UNCHANGED <<locks, runs, versions>>
    BY DEF closeVars
  <2> QED
    BY <2>1, <2>2, <2>3, <2>4, <2>5, <2>6, <2>7, <2>8 DEF CloseNext
<1> QED
  BY <1>1, <1>2 DEF CloseInv

\* What the invariant is for.
LEMMA InvImpliesOwnRun == CloseInv => ReconciledOnItsOwnRun
<1> SUFFICES ASSUME CloseInv, NEW c \in Cells, NEW i \in DOMAIN locks[c],
                    locks[c][i].status # "validated"
             PROVE  LET row == locks[c][i]
                    IN  /\ row.version \in DOMAIN versions[c[1]]
                        /\ versions[c[1]][row.version].status = "approved"
                        /\ row.version = locks[c][2].version
                        /\ row.status \in {"reconciled", "locked"} =>
                             [check |-> "books_to_bank", version |-> row.version] \in runs[c]
  BY DEF ReconciledOnItsOwnRun
<1> DEFINE h == locks[c]
<1>1. PeriodInv(h, runs[c], versions[c[1]])
  BY DEF CloseInv
<1>2. h \in Seq(LockRow) /\ Len(h) \in Nat /\ i \in 1..Len(h)
  BY <1>1 DEF PeriodInv, StatesInOrder
<1>3. i # 1
  BY <1>1, <1>2 DEF PeriodInv, StatesInOrder
<1>4. i \in 2..Len(h)
  BY <1>2, <1>3
<1>5. h[i].version = h[2].version /\ Approved(versions[c[1]], h[i].version)
  BY <1>1, <1>4 DEF PeriodInv, OneVersion
<1>6. ASSUME h[i].status \in {"reconciled", "locked"}
      PROVE  OwnRun(h) \in runs[c]
  <2>1. i # 2
    BY <1>1, <1>2, <1>6 DEF PeriodInv, StatesInOrder
  <2>2. Len(h) >= 3
    BY <1>2, <1>4, <2>1
  <2> QED
    BY <1>1, <2>2 DEF PeriodInv, RunsUnderIt
<1> QED
  BY <1>5, <1>6 DEF Approved, OwnRun

\* From MAPPED on, every lock row of a period names one approved version, and
\* a RECONCILED or LOCKED row means a books-to-bank run of that period under
\* that version (reconciliation_run, reconcile and lock in routes/periods.py).
THEOREM OwnRunAlways == CloseSpec => []ReconciledOnItsOwnRun
<1>1. CloseSpec => []CloseInv
  BY InitInv, StepInv, PTL DEF CloseSpec
<1> QED
  BY <1>1, InvImpliesOwnRun, PTL

-----------------------------------------------------------------------------
(* Earning a state, and the steps of the state machine.                    *)

\* A freshly raised exception is an open one.
LEMMA RaisedIsOpen ==
  ASSUME ExceptionsTypeOK, NEW S, NEW c \in Cells, c \in S
  PROVE  OpenBlocking(Raised(S), c) # {}
<1> DEFINE old == exceptions[c]
           new == Append(old, <<"open">>)
<1>1. old \in Seq(Seq(ExceptionStatus)) /\ <<"open">> \in Seq(ExceptionStatus)
  BY DEF ExceptionsTypeOK, ExceptionStatus
<1>2. /\ new \in Seq(Seq(ExceptionStatus)) /\ Len(old) \in Nat /\ Len(new) = Len(old) + 1
      /\ new[Len(old) + 1] = <<"open">>
  BY <1>1, AppendFacts
<1>3. Raised(S)[c] = new
  BY DEF Raised
<1>4. Len(old) + 1 \in DOMAIN new
  BY <1>2
<1>5. CurrentStatus(<<"open">>) = "open"
  BY DEF CurrentStatus
<1>6. CurrentStatus(new[Len(old) + 1]) = "open"
  BY <1>2, <1>5
<1> QED
  BY <1>3, <1>4, <1>6 DEF OpenBlocking

\* The only request that gives a period its first lock row is a load of it.
LEMMA OnlyLoadsValidate ==
  ASSUME CloseTypeOK, [CloseNext]_closeVars, NEW c \in Cells,
         locks[c] = <<>>, locks'[c] # <<>>
  PROVE  \E e \in Entities, file \in Files : LoadGL(e, file)
<1>1. Status(c) = "open"
  BY DEF Status
<1>2. ASSUME NEW e \in Entities, NEW v \in 1..MaxVersions, Freeze(e, v)
      PROVE  locks'[c] = locks[c]
  <2>1. c \notin Mappable(e, Frozen(e, v)[v])
    BY <1>1 DEF Mappable
  <2> QED
    BY <1>2, <2>1 DEF Freeze, Inserted
<1>3. ASSUME NEW d \in Cells, Reconcile(d) \/ Lock(d)
      PROVE  locks'[c] = locks[c]
  <2>1. Status(d) # "open"
    BY <1>3 DEF Reconcile, ReconcilePeriod, Lock, LockPeriod, RequirePredecessor, Predecessor
  <2>2. c # d
    BY <1>1, <2>1
  <2> QED
    BY <1>3, <2>2 DEF Reconcile, ReconcilePeriod, Lock, LockPeriod, Inserted
<1>4. ASSUME NEW e \in Entities, NEW S \in SUBSET Accounts, LoadCOA(e, S)
      PROVE  locks' = locks
  BY <1>4 DEF LoadCOA
<1>5. ASSUME NEW e \in Entities, NEW from \in Months, CreateRun(e, from)
      PROVE  locks' = locks
  BY <1>5 DEF CreateRun
<1>6. ASSUME NEW d \in Cells, NEW i \in 1..MaxExceptions, NEW r \in Resolutions,
             Resolve(d, i, r)
      PROVE  locks' = locks
  BY <1>6 DEF Resolve
<1>7. ASSUME NEW d \in Cells, RunBooksToBank(d)
      PROVE  locks' = locks
  BY <1>7 DEF RunBooksToBank, ReconciliationRun
<1>8. UNCHANGED closeVars => locks' = locks
  BY DEF closeVars
<1> QED
  BY <1>2, <1>3, <1>4, <1>5, <1>6, <1>7, <1>8 DEF CloseNext

\* A period enters VALIDATED only on a ledger that ties for its month and with
\* no blocking exception open (load_gl_file writes its exceptions before
\* _validate_loaded_periods reads the queue).
THEOREM ValidationAlwaysEarned == CloseSpec => ValidationIsEarned
<1>1. ASSUME CloseTypeOK, [CloseNext]_closeVars, NEW c \in Cells,
             locks[c] = <<>>, locks'[c] # <<>>
      PROVE  Balanced(facts', c[2]) /\ OpenBlocking(exceptions', c) = {}
  <2>1. PICK e \in Entities, file \in Files : LoadGL(e, file)
    BY <1>1, OnlyLoadsValidate
  <2> DEFINE touched == {e} \X PeriodsOf(file)
             broken == Broken(facts', touched)
  <2>2. /\ exceptions' = Raised(broken)
        /\ locks' = Inserted(Validatable(Raised(broken), touched), "validated", PlaceholderId)
    BY <2>1 DEF LoadGL, QueueAtValidation
  <2>3. c \in Validatable(Raised(broken), touched)
    BY <1>1, <2>2 DEF Inserted
  <2>4. c \in touched /\ OpenBlocking(exceptions', c) = {}
    BY <2>2, <2>3 DEF Validatable
  <2>5. c \notin broken
    BY <1>1, <2>2, <2>4, RaisedIsOpen DEF CloseTypeOK
  <2>6. Balanced(facts', c[2])
    BY <2>4, <2>5 DEF Broken
  <2> QED
    BY <2>4, <2>6
<1>2. CloseTypeOK /\ [CloseNext]_closeVars =>
        [ \A c \in Cells :
            locks[c] = <<>> /\ locks'[c] # <<>>
            => Balanced(facts', c[2]) /\ OpenBlocking(exceptions', c) = {} ]_closeVars
  BY <1>1
<1> QED
  BY <1>2, CloseTypeCorrect, PTL DEF CloseSpec, ValidationIsEarned

-----------------------------------------------------------------------------
(* Held at OPEN.                                                           *)

\* The queue of a period only grows, by a load or a resolution.
LEMMA QueueStays ==
  ASSUME CloseTypeOK, [CloseNext]_closeVars, NEW c \in Cells, exceptions[c] # <<>>
  PROVE  exceptions'[c] # <<>>
<1>1. exceptions[c] \in Seq(Seq(ExceptionStatus)) /\ exceptions \in [Cells -> Seq(Seq(ExceptionStatus))]
  BY DEF CloseTypeOK, ExceptionsTypeOK
<1>2. Len(exceptions[c]) \in Nat /\ Len(exceptions[c]) # 0
  BY <1>1
<1>3. ASSUME NEW e \in Entities, NEW file \in Files, LoadGL(e, file)
      PROVE  exceptions'[c] # <<>>
  <2>1. PICK S : exceptions' = Raised(S)
    BY <1>3 DEF LoadGL
  <2>2. exceptions'[c] = Append(exceptions[c], <<"open">>) \/ exceptions'[c] = exceptions[c]
    BY <2>1 DEF Raised
  <2>3. <<"open">> \in Seq(ExceptionStatus)
    BY DEF ExceptionStatus
  <2>4. Len(Append(exceptions[c], <<"open">>)) = Len(exceptions[c]) + 1
    BY <1>1, <2>3, AppendFacts
  <2>5. Append(exceptions[c], <<"open">>) # <<>>
    <3>1. Len(<<>>) = 0
      OBVIOUS
    <3> QED
      BY <1>2, <2>4, <3>1
  <2> QED
    BY <2>2, <2>5
<1>4. ASSUME NEW d \in Cells, NEW i \in 1..MaxExceptions, NEW r \in Resolutions,
             Resolve(d, i, r)
      PROVE  exceptions'[c] # <<>>
  <2>1. exceptions' = [exceptions EXCEPT ![d][i] = Append(@, r)]
    BY <1>4 DEF Resolve, ResolveException
  <2>2. DOMAIN exceptions'[c] = DOMAIN exceptions[c]
    BY <1>1, <2>1
  <2>3. DOMAIN exceptions[c] = 1..Len(exceptions[c]) /\ 1 \in DOMAIN exceptions[c]
    BY <1>1, <1>2
  <2> QED
    BY <2>2, <2>3
<1>5. ASSUME NEW e \in Entities, NEW S \in SUBSET Accounts, LoadCOA(e, S)
      PROVE  exceptions' = exceptions
  BY <1>5 DEF LoadCOA
<1>6. ASSUME NEW e \in Entities, NEW from \in Months, CreateRun(e, from)
      PROVE  exceptions' = exceptions
  BY <1>6 DEF CreateRun
<1>7. ASSUME NEW e \in Entities, NEW v \in 1..MaxVersions, Freeze(e, v)
      PROVE  exceptions' = exceptions
  BY <1>7 DEF Freeze
<1>8. ASSUME NEW d \in Cells, RunBooksToBank(d) \/ Reconcile(d) \/ Lock(d)
      PROVE  exceptions' = exceptions
  BY <1>8 DEF RunBooksToBank, Reconcile, Lock
<1>9. UNCHANGED closeVars => exceptions' = exceptions
  BY DEF closeVars
<1> QED
  BY <1>3, <1>4, <1>5, <1>6, <1>7, <1>8, <1>9 DEF CloseNext

\* Lock rows are never taken away.
LEMMA LocksStay ==
  ASSUME CloseTypeOK, [CloseNext]_closeVars, NEW c \in Cells, locks[c] # <<>>
  PROVE  locks'[c] # <<>>
<1>1. locks[c] \in Seq(LockRow) /\ Len(locks[c]) \in Nat /\ Len(locks[c]) # 0
  BY DEF CloseTypeOK, PeriodTypeOK
<1>2. ASSUME NEW S, NEW target \in Stored, NEW version \in Nat,
             locks' = Inserted(S, target, version)
      PROVE  locks'[c] # <<>>
  <2> DEFINE row == [status |-> target, version |-> version]
  <2>1. locks'[c] = Append(locks[c], row) \/ locks'[c] = locks[c]
    BY <1>2 DEF Inserted
  <2>2. row \in LockRow
    BY DEF LockRow
  <2>3. Len(Append(locks[c], row)) = Len(locks[c]) + 1
    BY <1>1, <2>2, AppendFacts
  <2>4. Append(locks[c], row) # <<>>
    <3>1. Len(<<>>) = 0
      OBVIOUS
    <3> QED
      BY <1>1, <2>3, <3>1
  <2> QED
    BY <2>1, <2>4
<1>3. {"validated", "mapped", "reconciled", "locked"} \subseteq Stored /\ PlaceholderId \in Nat
  BY DEF Stored, PlaceholderId
<1>4. ASSUME NEW e \in Entities, NEW file \in Files, LoadGL(e, file)
      PROVE  locks'[c] # <<>>
  BY <1>2, <1>3, <1>4 DEF LoadGL
<1>5. ASSUME NEW e \in Entities, NEW v \in 1..MaxVersions, Freeze(e, v)
      PROVE  locks'[c] # <<>>
  <2>1. v \in Nat
    BY <1>5 DEF Freeze, FreezeMappingVersion, CloseTypeOK, MappingTypeOK
  <2> QED
    BY <1>2, <1>3, <1>5, <2>1 DEF Freeze
<1>6. ASSUME NEW d \in Cells, Reconcile(d) \/ Lock(d)
      PROVE  locks'[c] # <<>>
  <2>1. Status(d) # "open"
    BY <1>6 DEF Reconcile, ReconcilePeriod, Lock, LockPeriod, RequirePredecessor, Predecessor
  <2>2. CurrentLock(d).version \in Nat
    BY <2>1, CurrentLockType DEF CloseTypeOK
  <2> QED
    BY <1>2, <1>3, <1>6, <2>2 DEF Reconcile, ReconcilePeriod, Lock, LockPeriod
<1>7. ASSUME NEW e \in Entities, NEW S \in SUBSET Accounts, LoadCOA(e, S)
      PROVE  locks' = locks
  BY <1>7 DEF LoadCOA
<1>8. ASSUME NEW e \in Entities, NEW from \in Months, CreateRun(e, from)
      PROVE  locks' = locks
  BY <1>8 DEF CreateRun
<1>9. ASSUME NEW d \in Cells, NEW i \in 1..MaxExceptions, NEW r \in Resolutions,
             Resolve(d, i, r)
      PROVE  locks' = locks
  BY <1>9 DEF Resolve
<1>10. ASSUME NEW d \in Cells, RunBooksToBank(d)
      PROVE  locks' = locks
  BY <1>10 DEF RunBooksToBank, ReconciliationRun
<1>11. UNCHANGED closeVars => locks' = locks
  BY DEF closeVars
<1> QED
  BY <1>4, <1>5, <1>6, <1>7, <1>8, <1>9, <1>10, <1>11 DEF CloseNext

\* A load either touches a month or leaves the lines booked in it alone.
LEMMA LoadTouches ==
  ASSUME CloseTypeOK, NEW e \in Entities, NEW file \in Files, LoadGL(e, file),
         NEW d \in Entities, NEW m \in Months,
         HasFacts(facts', d, m), ~HasFacts(facts, d, m)
  PROVE  d = e /\ m \in PeriodsOf(file)
<1>1. PICK l \in Lines : facts'[d][l].month = m
  BY DEF HasFacts, LinesIn
<1>2. facts[d][l].month # m
  BY DEF HasFacts, LinesIn
<1>3. facts' = WriteGlRows(e, file) /\ facts \in [Entities -> [Lines -> Row]]
  BY DEF LoadGL, CloseTypeOK, LedgerTypeOK
<1>4. d = e
  BY <1>1, <1>2, <1>3 DEF WriteGlRows
<1>5. facts'[e] = [k \in Lines |-> IF k \in DOMAIN file THEN file[k] ELSE facts[e][k]]
  BY <1>3 DEF WriteGlRows
<1>6. l \in DOMAIN file /\ file[l].month = m
  BY <1>1, <1>2, <1>4, <1>5
<1> QED
  BY <1>4, <1>6 DEF PeriodsOf

\* A load that leaves a touched period without a lock row leaves an exception.
LEMMA LoadExplains ==
  ASSUME CloseTypeOK, NEW e \in Entities, NEW file \in Files, LoadGL(e, file),
         NEW m \in PeriodsOf(file), m \in Months, locks'[<<e, m>>] = <<>>,
         locks[<<e, m>>] = <<>>
  PROVE  exceptions'[<<e, m>>] # <<>>
<1> DEFINE c == <<e, m>>
           touched == {e} \X PeriodsOf(file)
           broken == Broken(facts', touched)
           row == [status |-> "validated", version |-> PlaceholderId]
<1>1. /\ exceptions' = Raised(broken)
      /\ locks' = Inserted(Validatable(Raised(broken), touched), "validated", PlaceholderId)
  BY DEF LoadGL, QueueAtValidation
<1>2. c \in Cells /\ c \in touched
  BY DEF Cells
<1>3. c \notin Validatable(Raised(broken), touched)
  <2>1. row \in LockRow /\ <<>> \in Seq(LockRow)
    BY DEF LockRow, Stored, PlaceholderId
  <2>2. Len(Append(<<>>, row)) = 1 /\ Len(<<>>) = 0
    BY <2>1
  <2>3. Append(<<>>, row) # <<>>
    BY <2>2
  <2>4. c \in Validatable(Raised(broken), touched) => locks'[c] = Append(locks[c], row)
    BY <1>1, <1>2 DEF Inserted
  <2> QED
    BY <2>3, <2>4
<1>4. OpenBlocking(exceptions', c) # {}
  BY <1>1, <1>2, <1>3 DEF Validatable
<1>5. DOMAIN exceptions'[c] # {}
  BY <1>4 DEF OpenBlocking
<1>6. DOMAIN <<>> = {}
  OBVIOUS
<1> QED
  BY <1>5, <1>6

\* Facts change by loads only.
LEMMA OnlyLoadsBook ==
  ASSUME [CloseNext]_closeVars
  PROVE  facts' = facts \/ \E e \in Entities, file \in Files : LoadGL(e, file)
BY DEF CloseNext, closeVars, LoadCOA, CreateRun, Freeze, Resolve, RunBooksToBank, Reconcile, Lock

\* A period with booked lines is never held at OPEN silently: without a lock
\* row, an exception was raised for it (_validate_loaded_periods).
THEOREM HeldOpenAlwaysExplained == CloseSpec => []HeldOpenIsExplained
<1>1. CloseInit => HeldOpenIsExplained
  BY DEF CloseInit, LedgerInit, HeldOpenIsExplained, HasFacts, LinesIn, NoRow, Months
<1>2. CloseTypeOK /\ HeldOpenIsExplained /\ [CloseNext]_closeVars => HeldOpenIsExplained'
  <2> SUFFICES ASSUME CloseTypeOK, HeldOpenIsExplained, [CloseNext]_closeVars,
                      NEW e \in Entities, NEW m \in Months,
                      HasFacts(facts', e, m), locks'[<<e, m>>] = <<>>
               PROVE  exceptions'[<<e, m>>] # <<>>
    BY DEF HeldOpenIsExplained, HasFacts, LinesIn
  <2>1. <<e, m>> \in Cells
    BY DEF Cells
  <2>2. locks[<<e, m>>] = <<>>
    BY <2>1, LocksStay
  <2>3. CASE HasFacts(facts, e, m)
    BY <2>1, <2>2, <2>3, QueueStays DEF HeldOpenIsExplained
  <2>4. CASE ~HasFacts(facts, e, m)
    <3>1. facts' # facts
      BY <2>4
    <3>2. PICK d \in Entities, file \in Files : LoadGL(d, file)
      BY <3>1, OnlyLoadsBook
    <3>3. e = d /\ m \in PeriodsOf(file)
      BY <2>4, <3>2, LoadTouches
    <3> QED
      BY <2>2, <3>2, <3>3, LoadExplains
  <2> QED
    BY <2>3, <2>4
<1> QED
  BY <1>1, <1>2, CloseTypeCorrect, PTL DEF CloseSpec

-----------------------------------------------------------------------------
(* Mapped on the governing version.                                        *)

\* Every account an entity has booked a line on is one of its accounts.
BookedAccountsKnown ==
  \A e \in Entities : \A l \in Lines :
    facts[e][l].month \in Months => AccountOf[l] \in accounts[e]

\* A load creates the accounts of its rows in the same request.
LEMMA LoadKnowsAccounts ==
  ASSUME CloseTypeOK, BookedAccountsKnown,
         NEW e \in Entities, NEW file \in Files, LoadGL(e, file)
  PROVE  BookedAccountsKnown'
<1> SUFFICES ASSUME NEW d \in Entities, NEW l \in Lines, facts'[d][l].month \in Months
             PROVE  AccountOf[l] \in accounts'[d]
  BY DEF BookedAccountsKnown
<1>1. /\ facts' = WriteGlRows(e, file) /\ facts \in [Entities -> [Lines -> Row]]
      /\ accounts' = [accounts EXCEPT ![e] = @ \cup AccountsOf(file)]
      /\ accounts \in [Entities -> SUBSET Accounts]
  BY DEF LoadGL, AddAccounts, CloseTypeOK, LedgerTypeOK, MappingTypeOK
<1>2. CASE d = e /\ l \in DOMAIN file
  BY <1>1, <1>2 DEF AccountsOf
<1>3. CASE ~(d = e /\ l \in DOMAIN file)
  <2>1. facts'[d][l] = facts[d][l]
    BY <1>1, <1>3 DEF WriteGlRows
  <2> QED
    BY <1>1, <2>1 DEF BookedAccountsKnown
<1> QED
  BY <1>2, <1>3

\* No account is ever removed, so booked accounts stay known.
LEMMA AccountsKnown == CloseSpec => []BookedAccountsKnown
<1>1. CloseInit => BookedAccountsKnown
  BY DEF CloseInit, LedgerInit, NoRow, Months, BookedAccountsKnown
<1>2. CloseTypeOK /\ BookedAccountsKnown /\ [CloseNext]_closeVars => BookedAccountsKnown'
  <2> SUFFICES ASSUME CloseTypeOK, BookedAccountsKnown, [CloseNext]_closeVars
               PROVE  BookedAccountsKnown'
    OBVIOUS
  <2>1. ASSUME NEW e \in Entities, NEW S \in SUBSET Accounts, LoadCOA(e, S)
        PROVE  BookedAccountsKnown'
    BY <2>1 DEF LoadCOA, AddAccounts, BookedAccountsKnown, CloseTypeOK, MappingTypeOK
  <2>2. facts' = facts /\ accounts' = accounts => BookedAccountsKnown'
    BY DEF BookedAccountsKnown
  <2>3. \/ \E e \in Entities, file \in Files : LoadGL(e, file)
        \/ \E e \in Entities, S \in SUBSET Accounts : LoadCOA(e, S)
        \/ facts' = facts /\ accounts' = accounts
    BY DEF CloseNext, closeVars, CreateRun, CreateMappingRun, Freeze, FreezeMappingVersion,
           Resolve, RunBooksToBank, Reconcile, Lock
  <2> QED
    BY <2>1, <2>2, <2>3, LoadKnowsAccounts
<1> QED
  BY <1>1, <1>2, CloseTypeCorrect, PTL DEF CloseSpec

\* The row a transition inserts is the last one of the periods it moves.
LEMMA InsertedRow ==
  ASSUME PeriodTypeOK, NEW S, NEW target \in Stored, NEW version \in Nat,
         locks' = Inserted(S, target, version),
         NEW c \in Cells, Len(locks'[c]) > Len(locks[c])
  PROVE  /\ c \in S
         /\ locks'[c][Len(locks'[c])] = [status |-> target, version |-> version]
<1> DEFINE row == [status |-> target, version |-> version]
<1>1. locks[c] \in Seq(LockRow) /\ row \in LockRow
  BY DEF PeriodTypeOK, LockRow
<1>2. c \in S
  BY <1>1 DEF Inserted
<1>3. locks'[c] = Append(locks[c], row)
  BY <1>2 DEF Inserted
<1> QED
  BY <1>1, <1>2, <1>3, AppendFacts

\* Only a freeze of the entity moves a period to MAPPED, on the version it
\* freezes.
LEMMA OnlyFreezeMaps ==
  ASSUME CloseTypeOK, [CloseNext]_closeVars, NEW c \in Cells,
         Len(locks'[c]) > Len(locks[c]),
         locks'[c][Len(locks'[c])].status = "mapped"
  PROVE  \E e \in Entities, v \in 1..MaxVersions :
           /\ Freeze(e, v)
           /\ c \in Mappable(e, Frozen(e, v)[v])
           /\ locks'[c][Len(locks'[c])].version = v
<1> DEFINE row == locks'[c][Len(locks'[c])]
<1>1. PeriodTypeOK
  BY DEF CloseTypeOK
<1>2. \A s \in {"validated", "mapped", "reconciled", "locked"} : s \in Stored
  BY DEF Stored
<1>3. ASSUME NEW e \in Entities, NEW file \in Files, LoadGL(e, file)
      PROVE  FALSE
  <2>1. PICK S : locks' = Inserted(S, "validated", PlaceholderId)
    BY <1>3 DEF LoadGL
  <2>2. "validated" \in Stored /\ PlaceholderId \in Nat
    BY <1>2 DEF PlaceholderId
  <2>3. row = [status |-> "validated", version |-> PlaceholderId]
    BY <1>1, <2>1, <2>2, InsertedRow, Zenon
  <2> QED
    BY <2>3
<1>4. ASSUME NEW e \in Entities, NEW v \in 1..MaxVersions, Freeze(e, v)
      PROVE  c \in Mappable(e, Frozen(e, v)[v]) /\ row.version = v
  <2>1. /\ locks' = Inserted(Mappable(e, Frozen(e, v)[v]), "mapped", v)
        /\ "mapped" \in Stored /\ v \in Nat
    BY <1>2, <1>4 DEF Freeze
  <2>2. /\ c \in Mappable(e, Frozen(e, v)[v])
        /\ row = [status |-> "mapped", version |-> v]
    BY <1>1, <2>1, InsertedRow, Zenon
  <2> QED
    BY <2>2
<1>5. ASSUME NEW d \in Cells, Reconcile(d) \/ Lock(d)
      PROVE  FALSE
  <2>1. Status(d) # "open"
    BY <1>5 DEF Reconcile, ReconcilePeriod, Lock, LockPeriod, RequirePredecessor, Predecessor
  <2>2. CurrentLock(d).version \in Nat
    BY <1>1, <2>1, CurrentLockType DEF LockRow
  <2>3. PICK target \in {"reconciled", "locked"} :
          locks' = Inserted({d}, target, CurrentLock(d).version)
    BY <1>5 DEF Reconcile, ReconcilePeriod, Lock, LockPeriod
  <2>4. target \in Stored /\ target # "mapped"
    BY <1>2
  <2>5. row = [status |-> target, version |-> CurrentLock(d).version]
    BY <1>1, <2>2, <2>3, <2>4, InsertedRow, Zenon
  <2> QED
    BY <2>4, <2>5
<1>6. locks' = locks => FALSE
  BY <1>1 DEF PeriodTypeOK
<1>7. \/ \E e \in Entities, file \in Files : LoadGL(e, file)
      \/ \E e \in Entities, v \in 1..MaxVersions : Freeze(e, v)
      \/ \E d \in Cells : Reconcile(d) \/ Lock(d)
      \/ locks' = locks
  BY DEF CloseNext, closeVars, LoadCOA, CreateRun, Resolve, RunBooksToBank, ReconciliationRun
<1> QED
  BY <1>3, <1>4, <1>5, <1>6, <1>7

\* A freeze maps a period only on the version that statements of that period
\* resolve to from then on, and that version assigns every account booked in
\* the period (freeze_mapping_version, map_periods_for_mapping_version and
\* resolve_mapping_version_for_period agree).
THEOREM MappedAlwaysOnGoverning == CloseSpec => MappedOnGoverningVersion
<1>1. ASSUME CloseTypeOK, BookedAccountsKnown, [CloseNext]_closeVars,
             NEW e \in Entities, NEW m \in Months,
             Len(locks'[<<e, m>>]) > Len(locks[<<e, m>>]),
             locks'[<<e, m>>][Len(locks'[<<e, m>>])].status = "mapped",
             NEW v, v = locks'[<<e, m>>][Len(locks'[<<e, m>>])].version
      PROVE  /\ Governing(versions'[e], m) = {v}
             /\ \A l \in LinesIn(facts, e, m) : AccountOf[l] \in versions'[e][v].assigned
  <2>1. <<e, m>> \in Cells
    BY DEF Cells
  <2>2. PICK d \in Entities, w \in 1..MaxVersions :
          /\ Freeze(d, w)
          /\ <<e, m>> \in Mappable(d, Frozen(d, w)[w])
          /\ locks'[<<e, m>>][Len(locks'[<<e, m>>])].version = w
    BY <1>1, <2>1, OnlyFreezeMaps
  <2>3. d = e /\ w = v
    BY <1>1, <2>2 DEF Mappable
  <2>4. /\ v \in DOMAIN versions[e] /\ FreezeGate(e, v)
        /\ versions' = [versions EXCEPT ![e] = Frozen(e, v)]
    BY <2>2, <2>3 DEF Freeze, FreezeMappingVersion
  <2>5. versions'[e] = Frozen(e, v)
    BY <1>1, <2>4 DEF CloseTypeOK, MappingTypeOK
  <2>6. Frozen(e, v)[v].from =< m /\ m < Frozen(e, v)[v].to
    BY <2>2, <2>3 DEF Mappable
  <2>7. Governing(versions'[e], m) = {v}
    BY <1>1, <2>4, <2>5, <2>6, FrozenGoverns DEF CloseTypeOK
  <2>8. Frozen(e, v)[v].assigned = versions[e][v].assigned
    BY <1>1, <2>4, FrozenFields DEF CloseTypeOK
  <2>9. ASSUME NEW l \in LinesIn(facts, e, m)
        PROVE  AccountOf[l] \in versions'[e][v].assigned
    <3>1. AccountOf[l] \in accounts[e]
      BY <1>1 DEF LinesIn, BookedAccountsKnown
    <3> QED
      BY <2>4, <2>5, <2>8, <3>1 DEF FreezeGate
  <2> QED
    BY <2>7, <2>9
<1>2. CloseTypeOK /\ BookedAccountsKnown /\ [CloseNext]_closeVars =>
        [ \A e \in Entities, m \in Months :
            LET c == <<e, m>>
            IN  Len(locks'[c]) > Len(locks[c]) /\ locks'[c][Len(locks'[c])].status = "mapped"
                => LET v == locks'[c][Len(locks'[c])].version
                   IN  /\ Governing(versions'[e], m) = {v}
                       /\ \A l \in LinesIn(facts, e, m) :
                            AccountOf[l] \in versions'[e][v].assigned ]_closeVars
  BY <1>1
<1> QED
  BY <1>2, CloseTypeCorrect, AccountsKnown, PTL DEF CloseSpec, MappedOnGoverningVersion

-----------------------------------------------------------------------------
(* The refinement: the status columns of period_lock, read per period, are *)
(* a behaviour of PeriodMachine.                                           *)

\* The status column of one period's lock rows.
Column(h) == [i \in DOMAIN h |-> h[i].status]

\* The column of a history, and of one with a row appended.
LEMMA ColumnFacts ==
  ASSUME NEW h \in Seq(LockRow), NEW row \in LockRow
  PROVE  /\ Column(h) \in Seq(Stored)
         /\ Len(Column(h)) = Len(h)
         /\ Column(Append(h, row)) = Append(Column(h), row.status)
<1>1. Len(h) \in Nat /\ DOMAIN h = 1..Len(h)
  OBVIOUS
<1>2. \A r \in LockRow : r.status \in Stored
  BY DEF LockRow
<1>3. Column(h) \in [1..Len(h) -> Stored]
  BY <1>1, <1>2 DEF Column
<1>4. Column(h) \in Seq(Stored) /\ Len(Column(h)) = Len(h)
  BY <1>1, <1>3
<1> DEFINE g == Append(h, row)
           k == Append(Column(h), row.status)
<1>5. /\ g \in Seq(LockRow) /\ Len(g) = Len(h) + 1 /\ DOMAIN g = 1..(Len(h) + 1)
      /\ \A i \in 1..Len(h) : g[i] = h[i]
      /\ g[Len(h) + 1] = row
  BY <1>1, AppendFacts
<1>6. /\ k \in Seq(Stored) /\ Len(k) = Len(h) + 1 /\ DOMAIN k = 1..(Len(h) + 1)
      /\ \A i \in 1..Len(h) : k[i] = Column(h)[i]
      /\ k[Len(h) + 1] = row.status
  BY <1>2, <1>4, AppendFacts
<1>7. ASSUME NEW i \in 1..(Len(h) + 1)
      PROVE  Column(g)[i] = k[i]
  <2>1. Column(g)[i] = g[i].status
    BY <1>5 DEF Column
  <2>2. CASE i \in 1..Len(h)
    BY <1>1, <1>5, <1>6, <2>1, <2>2 DEF Column
  <2>3. CASE i = Len(h) + 1
    BY <1>5, <1>6, <2>1, <2>3
  <2>4. i \in 1..Len(h) \/ i = Len(h) + 1
    BY <1>1
  <2> QED
    BY <2>2, <2>3, <2>4
<1>8. DOMAIN Column(g) = DOMAIN k
  BY <1>5, <1>6 DEF Column
<1>9. Column(g) = [i \in 1..(Len(h) + 1) |-> Column(g)[i]]
  BY <1>5 DEF Column
<1>10. k = [i \in 1..(Len(h) + 1) |-> k[i]]
  BY <1>6
<1>11. Column(g) = k
  BY <1>7, <1>9, <1>10, Zenon
<1> QED
  BY <1>4, <1>11

\* The machine is instantiated over the same calendar and diagram.
LEMMA SameTenant ==
  PM!Cells = Cells /\ PM!Stored = Stored /\ PM!Predecessor = Predecessor
BY DEF PM!Cells, Cells, PM!Months, Months, PM!Stored, Stored, PM!Predecessor, Predecessor

\* The abstract state of a period is the one the code reads.
LEMMA StatusIsAbstract ==
  ASSUME PeriodTypeOK, NEW c \in Cells
  PROVE  PM!StatusOf(StatusHistory[c]) = Status(c)
<1> DEFINE h == locks[c]
<1>1. h \in Seq(LockRow) /\ Len(h) \in Nat
  BY DEF PeriodTypeOK
<1>2. StatusHistory[c] = Column(h)
  BY DEF StatusHistory, Column
<1>3. CASE h = <<>>
  <2>1. Column(h) = <<>>
    BY <1>3 DEF Column
  <2> QED
    BY <1>2, <1>3, <2>1 DEF PM!StatusOf, Status
<1>4. CASE h # <<>>
  <2>1. Len(h) \in 1..Len(h)
    BY <1>1, <1>4
  <2>2. h[1] \in LockRow
    BY <1>1, <2>1
  <2>3. Len(Column(h)) = Len(h)
    BY <1>1, <2>2, ColumnFacts
  <2>4. Column(h) # <<>>
    BY <1>1, <2>1, <2>3
  <2>5. Column(h)[Len(h)] = h[Len(h)].status
    BY <1>1, <2>1 DEF Column
  <2> QED
    BY <1>2, <1>4, <2>3, <2>4, <2>5 DEF PM!StatusOf, Status, CurrentLock
<1> QED
  BY <1>3, <1>4

\* Inserting one row per period of S is one step of the machine.
LEMMA InsertIsAdvance ==
  ASSUME PeriodTypeOK, NEW target \in Stored, NEW version \in Nat, NEW S,
         S \subseteq Cells,
         \A c \in S : Status(c) = Predecessor[target],
         locks' = Inserted(S, target, version)
  PROVE  PM!Next
<1> DEFINE row == [status |-> target, version |-> version]
<1>1. row \in LockRow /\ row.status = target
  BY DEF LockRow
<1>2. \A c \in S : PM!StatusOf(StatusHistory[c]) = Predecessor[target]
  BY StatusIsAbstract
<1>3. ASSUME NEW c \in Cells
      PROVE  StatusHistory'[c] = IF c \in S THEN Append(StatusHistory[c], target)
                                            ELSE StatusHistory[c]
  <2>1. StatusHistory'[c] = Column(locks'[c]) /\ StatusHistory[c] = Column(locks[c])
    BY DEF StatusHistory, Column
  <2>2. locks[c] \in Seq(LockRow)
    BY DEF PeriodTypeOK
  <2>3. locks'[c] = IF c \in S THEN Append(locks[c], row) ELSE locks[c]
    BY DEF Inserted
  <2> QED
    BY <1>1, <2>1, <2>2, <2>3, ColumnFacts
<1>4. StatusHistory' = [c \in Cells |-> IF c \in S THEN Append(StatusHistory[c], target)
                                                   ELSE StatusHistory[c]]
  <2>1. StatusHistory' = [c \in Cells |-> StatusHistory'[c]]
    BY DEF StatusHistory
  <2> QED
    BY <1>3, <2>1
<1>5. PM!Advance(target)
  BY <1>2, <1>4, SameTenant DEF PM!Advance
<1> QED
  BY <1>5, SameTenant DEF PM!Next

\* Every request is a step of the machine or leaves it alone.
LEMMA StepRefines ==
  ASSUME CloseTypeOK, [CloseNext]_closeVars
  PROVE  PM!Next \/ UNCHANGED StatusHistory
<1>0. PeriodTypeOK
  BY DEF CloseTypeOK
<1>1. ASSUME NEW e \in Entities, NEW file \in Files, LoadGL(e, file)
      PROVE  PM!Next
  <2>1. PICK q, broken :
          locks' = Inserted(Validatable(q, {e} \X PeriodsOf(file)), "validated", PlaceholderId)
    BY <1>1 DEF LoadGL
  <2> DEFINE S == Validatable(q, {e} \X PeriodsOf(file))
  <2>2. S \subseteq Cells
    BY FileRanges DEF Validatable, Cells
  <2>3. \A c \in S : Status(c) = Predecessor["validated"]
    BY DEF Validatable, Status, Predecessor
  <2>4. "validated" \in Stored /\ PlaceholderId \in Nat
    BY DEF Stored, PlaceholderId
  <2> QED
    BY <1>0, <2>1, <2>2, <2>3, <2>4, InsertIsAdvance
<1>2. ASSUME NEW e \in Entities, NEW v \in 1..MaxVersions, Freeze(e, v)
      PROVE  PM!Next
  <2> DEFINE S == Mappable(e, Frozen(e, v)[v])
  <2>1. locks' = Inserted(S, "mapped", v) /\ v \in DOMAIN versions[e]
    BY <1>2 DEF Freeze, FreezeMappingVersion
  <2>2. S \subseteq Cells
    BY DEF Mappable, Cells
  <2>3. \A c \in S : Status(c) = Predecessor["mapped"]
    BY DEF Mappable, Predecessor
  <2>4. "mapped" \in Stored /\ v \in Nat
    BY <2>1 DEF Stored, CloseTypeOK, MappingTypeOK
  <2> QED
    BY <1>0, <2>1, <2>2, <2>3, <2>4, InsertIsAdvance
<1>3. ASSUME NEW c \in Cells, Reconcile(c)
      PROVE  PM!Next
  <2>1. /\ Status(c) = Predecessor["reconciled"]
        /\ locks' = Inserted({c}, "reconciled", CurrentLock(c).version)
    BY <1>3 DEF Reconcile, ReconcilePeriod, RequirePredecessor
  <2>2. CurrentLock(c).version \in Nat /\ "reconciled" \in Stored
    BY <1>0, <2>1, CurrentLockType DEF Predecessor, Stored
  <2> QED
    BY <1>0, <2>1, <2>2, InsertIsAdvance
<1>4. ASSUME NEW c \in Cells, Lock(c)
      PROVE  PM!Next
  <2>1. /\ Status(c) = Predecessor["locked"]
        /\ locks' = Inserted({c}, "locked", CurrentLock(c).version)
    BY <1>4 DEF Lock, LockPeriod, RequirePredecessor
  <2>2. CurrentLock(c).version \in Nat /\ "locked" \in Stored
    BY <1>0, <2>1, CurrentLockType DEF Predecessor, Stored
  <2> QED
    BY <1>0, <2>1, <2>2, InsertIsAdvance
<1>5. locks' = locks => UNCHANGED StatusHistory
  BY DEF StatusHistory
<1>6. ASSUME NEW e \in Entities, NEW S \in SUBSET Accounts, LoadCOA(e, S)
      PROVE  locks' = locks
  BY <1>6 DEF LoadCOA
<1>7. ASSUME NEW e \in Entities, NEW from \in Months, CreateRun(e, from)
      PROVE  locks' = locks
  BY <1>7 DEF CreateRun
<1>8. ASSUME NEW c \in Cells, NEW i \in 1..MaxExceptions, NEW r \in Resolutions,
             Resolve(c, i, r)
      PROVE  locks' = locks
  BY <1>8 DEF Resolve
<1>9. ASSUME NEW c \in Cells, RunBooksToBank(c)
      PROVE  locks' = locks
  BY <1>9 DEF RunBooksToBank, ReconciliationRun
<1>10. UNCHANGED closeVars => locks' = locks
  BY DEF closeVars
<1> QED
  BY <1>1, <1>2, <1>3, <1>4, <1>5, <1>6, <1>7, <1>8, <1>9, <1>10 DEF CloseNext

\* No rows is no history.
LEMMA InitRefines == CloseInit => PM!Init
<1> SUFFICES ASSUME CloseInit PROVE StatusHistory = [c \in Cells |-> <<>>]
  BY SameTenant DEF PM!Init
<1>1. \A c \in Cells : locks[c] = <<>>
  BY DEF CloseInit, PeriodInit
<1>2. \A c \in Cells : [i \in DOMAIN locks[c] |-> locks[c][i].status] = <<>>
  BY <1>1
<1> QED
  BY <1>2 DEF StatusHistory

\* The requests of the API, whole, move periods only as the drawn state machine
\* allows (period_state.py, _PREDECESSOR and its callers).
THEOREM CloseImplementsPeriodMachine == CloseSpec => ImplementsPeriodMachine
<1>1. CloseTypeOK /\ [CloseNext]_closeVars => [PM!Next]_StatusHistory
  BY StepRefines
<1> QED
  BY InitRefines, CloseTypeCorrect, <1>1, PTL DEF CloseSpec, ImplementsPeriodMachine, PM!Spec
=============================================================================
