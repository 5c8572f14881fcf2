------------------------- MODULE PeriodMachineProofs -------------------------
(* The period state machine walks its one path, whatever the calendar and *)
(* the entities.                                                          *)
EXTENDS PeriodMachine, TLAPS

\* One history is a prefix of the path: HistoryIsPath for one cell.
IsPath(h) ==
  /\ h \in Seq(Stored)
  /\ Len(h) =< Len(Path)
  /\ \A i \in 1..Len(h) : h[i] = Path[i]

\* The path, position by position.
LEMMA PathFacts ==
  /\ Len(Path) = 5
  /\ Path[1] = "validated" /\ Path[2] = "mapped" /\ Path[3] = "reconciled"
  /\ Path[4] = "locked" /\ Path[5] = "restated"
BY DEF Path

\* The arrows, state by state.
LEMMA PredecessorFacts ==
  /\ Predecessor["validated"] = "open"
  /\ Predecessor["mapped"] = "validated"
  /\ Predecessor["reconciled"] = "mapped"
  /\ Predecessor["locked"] = "reconciled"
  /\ Predecessor["restated"] = "locked"
BY DEF Predecessor

\* No history is a path.
LEMMA EmptyIsPath == IsPath(<<>>)
BY PathFacts DEF IsPath

\* Following the arrow out of the state a path ends in gives a path.
LEMMA ArrowExtendsPath ==
  ASSUME NEW h, IsPath(h), NEW target \in Stored,
         StatusOf(h) = Predecessor[target]
  PROVE  IsPath(Append(h, target))
<1>1. h \in Seq(Stored) /\ Len(h) \in Nat /\ Len(h) =< 5
  BY PathFacts DEF IsPath
<1>2. target \in {"validated", "mapped", "reconciled", "locked", "restated"}
  BY DEF Stored
<1>3. target = Path[Len(h) + 1] /\ Len(h) < 5
  <2>1. CASE Len(h) = 0
    <3>1. StatusOf(h) = "open"
      BY <1>1, <2>1 DEF StatusOf
    <3>2. target = "validated"
      BY <1>2, <3>1, PredecessorFacts
    <3> QED
      BY <2>1, <3>2, PathFacts
  <2>2. CASE Len(h) # 0
    <3>1. h # <<>>
      <4>1. Len(<<>>) = 0
        OBVIOUS
      <4> QED
        BY <2>2, <4>1
    <3>2. Len(h) \in 1..5
      <4>1. \A n \in Nat : n =< 5 /\ n # 0 => n \in 1..5
        OBVIOUS
      <4> QED
        BY <1>1, <2>2, <4>1, Zenon
    <3>3. StatusOf(h) = Path[Len(h)]
      BY <3>1, <3>2 DEF StatusOf, IsPath
    <3>4. Predecessor[target] = Path[Len(h)]
      BY <3>3
    <3>5. CASE Len(h) = 1
      BY <1>2, <3>4, <3>5, PathFacts, PredecessorFacts
    <3>6. CASE Len(h) = 2
      BY <1>2, <3>4, <3>6, PathFacts, PredecessorFacts
    <3>7. CASE Len(h) = 3
      BY <1>2, <3>4, <3>7, PathFacts, PredecessorFacts
    <3>8. CASE Len(h) = 4
      BY <1>2, <3>4, <3>8, PathFacts, PredecessorFacts
    <3>9. CASE Len(h) = 5
      BY <1>2, <3>4, <3>9, PathFacts, PredecessorFacts
    <3> QED
      BY <3>2, <3>5, <3>6, <3>7, <3>8, <3>9
  <2> QED
    BY <2>1, <2>2
<1>4. Append(h, target) \in Seq(Stored) /\ Len(Append(h, target)) = Len(h) + 1
  BY <1>1
<1>5. ASSUME NEW i \in 1..Len(Append(h, target))
      PROVE  Append(h, target)[i] = Path[i]
  <2>1. CASE i \in 1..Len(h)
    BY <1>1, <2>1 DEF IsPath
  <2>2. CASE i = Len(h) + 1
    BY <1>1, <1>3, <2>2
  <2> QED
    BY <1>1, <1>4, <2>1, <2>2
<1> QED
  BY <1>1, <1>3, <1>4, <1>5, PathFacts DEF IsPath

\* A period never moves backwards, repeats a state or skips one: the histories
\* of the abstract machine are prefixes of the path (period_state.py,
\* _PREDECESSOR and _require_predecessor).
THEOREM HistoryAlwaysPath == Spec => []HistoryIsPath
<1>1. HistoryIsPath <=> \A c \in Cells : IsPath(history[c])
  BY DEF HistoryIsPath, IsPath
<1>2. Init => HistoryIsPath
  BY <1>1, EmptyIsPath DEF Init
<1>3. HistoryIsPath /\ [Next]_history => HistoryIsPath'
  <2> SUFFICES ASSUME HistoryIsPath, [Next]_history
               PROVE  HistoryIsPath'
    OBVIOUS
  <2>1. CASE UNCHANGED history
    BY <2>1 DEF HistoryIsPath
  <2>2. ASSUME NEW target \in Stored, Advance(target)
        PROVE  HistoryIsPath'
    <3>1. PICK S \in SUBSET Cells :
            /\ \A c \in S : StatusOf(history[c]) = Predecessor[target]
            /\ history' = [c \in Cells |-> IF c \in S THEN Append(history[c], target)
                                                      ELSE history[c]]
      BY <2>2 DEF Advance
    <3>2. ASSUME NEW c \in Cells PROVE IsPath(history'[c])
      <4>1. IsPath(history[c])
        BY <1>1
      <4>2. CASE c \in S
        <5>1. StatusOf(history[c]) = Predecessor[target]
          BY <3>1, <4>2
        <5>2. IsPath(Append(history[c], target))
          BY <4>1, <5>1, ArrowExtendsPath
        <5> QED
          BY <3>1, <4>2, <5>2
      <4>3. CASE c \notin S
        BY <3>1, <4>1, <4>3
      <4> QED
        BY <4>2, <4>3
    <3> QED
      BY <3>2 DEF HistoryIsPath, IsPath
  <2> QED
    BY <2>1, <2>2 DEF Next
<1> QED
  BY <1>2, <1>3, PTL DEF Spec
=============================================================================
