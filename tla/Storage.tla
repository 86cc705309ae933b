------------------------------ MODULE Storage ------------------------------
(***************************************************************************)
(* engine.Storage as its adapters see it, for one user: a row for the      *)
(* points of a metric, one for a badge and one for the level of a metric.  *)
(* Other users, metrics and badges are other rows, which no operation on   *)
(* these touches.                                                          *)
(***************************************************************************)
EXTENDS SafeInt

CONSTANTS
  Deltas,       \* values of AddPoints' delta; the adapters are not given 0
  LevelValues,  \* values of SetLevel's level
  Absent,       \* a row that does not exist
  Clients,      \* goroutines that call the storage
  MaxCalls,     \* bound: calls started, where totals could grow without end
  Faults        \* whether commands of a server may fail

ASSUME StorageAssumption ==
  /\ Deltas \subseteq Int \ {0}
  /\ LevelValues \subseteq Int
  /\ Absent \notin Int
  /\ Faults \in BOOLEAN
  /\ MaxCalls \in Nat

Rows == {"points", "badge", "level"}

(* AddPoints, AwardBadge and SetLevel.                                     *)
Op == [row : {"points"}, arg : Deltas] \cup
      [row : {"badge"}, arg : {1}] \cup
      [row : {"level"}, arg : LevelValues]

State == [Rows -> Int \cup {Absent}]

NoRecord == [r \in Rows |-> Absent]

ValueOrZero(v) == IF v = Absent THEN 0 ELSE v

Refused(op, v) == op.row = "points" /\ Overflows(ValueOrZero(v), op.arg)

NewValue(op, v) == IF op.row = "points" THEN ValueOrZero(v) + op.arg ELSE op.arg

Apply(op, st) == [st EXCEPT ![op.row] = NewValue(op, @)]
=============================================================================
