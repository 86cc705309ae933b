------------------------------ MODULE SafeInt ------------------------------
(* int64 and core.AddSafe, which returns an error instead of a wrapped sum. *)
EXTENDS Integers

CONSTANT MaxInt   \* math.MaxInt64; a small number stands for it in the runs

ASSUME MaxIntAssumption == MaxInt \in Nat \ {0}

MinInt == -MaxInt - 1
Int64  == MinInt .. MaxInt

(* A bug: only additions are checked, not deductions.                      *)
OverflowsUpOnly(base, delta) == delta > 0 /\ base > MaxInt - delta

Overflows(base, delta) ==
  \/ delta > 0 /\ base > MaxInt - delta
  \/ delta < 0 /\ base < MinInt - delta
=============================================================================
