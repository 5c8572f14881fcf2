--------------------------- MODULE MCMonthEndClose ---------------------------
(* Small instances of MonthEndClose for TLC. *)
EXTENDS MonthEndClose

\* Every voucher line posts to an account of its own, which bears its name.
MCAccountOf == [l \in Lines |-> l]
MCAmounts == {-1, 1}

\* No definition singles out a voucher line: lines, and their accounts with
\* them, are interchangeable.
MCSymmetry == Permutations(Lines)
=============================================================================
