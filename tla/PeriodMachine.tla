---------------------------- MODULE PeriodMachine ----------------------------
(***************************************************************************)
(* What the period state machine promises, with nothing of how a request   *)
(* decides: every (entity, period) has a history of stored states that     *)
(* only ever grows, and only along the arrows                              *)
(*   OPEN -> VALIDATED -> MAPPED -> RECONCILED -> LOCKED -> RESTATED.      *)
(* One request may move several periods along the same arrow (a load of    *)
(* several months, a mapping freeze).                                      *)
(***************************************************************************)
EXTENDS Tenant

VARIABLE history       \* [Cells -> Seq(Stored)], oldest state first

StatusOf(h) == IF h = <<>> THEN "open" ELSE h[Len(h)]

Init == history = [c \in Cells |-> <<>>]

\* The transition into target, for a set of periods at once.
Advance(target) ==
  \E S \in SUBSET Cells :
    /\ \A c \in S : StatusOf(history[c]) = Predecessor[target]
    /\ history' = [c \in Cells |-> IF c \in S THEN Append(history[c], target)
                                              ELSE history[c]]

Next == \E target \in Stored : Advance(target)

Spec == Init /\ [][Next]_history

-----------------------------------------------------------------------------
\* The one path through the diagram.
Path == <<"validated", "mapped", "reconciled", "locked", "restated">>

\* A period never moves backwards, repeats a state or skips one: what it has
\* been through is a prefix of the path.
HistoryIsPath ==
  \A c \in Cells :
    /\ history[c] \in Seq(Stored)
    /\ Len(history[c]) =< Len(Path)
    /\ \A i \in 1..Len(history[c]) : history[c][i] = Path[i]
=============================================================================
