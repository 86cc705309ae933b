-------------------------- MODULE StorageContract --------------------------
(***************************************************************************)
(* What a Storage that keeps its data promises.  live is what GetState     *)
(* shows, kept is what a restart would show.                               *)
(***************************************************************************)
EXTENDS Storage

VARIABLES live, kept

Init == live = NoRecord /\ kept = NoRecord

(* The operation takes effect, together with all that failed to be kept    *)
(* before it.                                                              *)
Do(op) ==
  /\ ~Refused(op, live[op.row])
  /\ live' = Apply(op, live)
  /\ kept' = live'

(* An error was returned although the operation shows.                     *)
FailShown(op) ==
  /\ ~Refused(op, live[op.row])
  /\ live' = Apply(op, live)
  /\ UNCHANGED kept

Restart == live' = kept /\ UNCHANGED kept

Next == Restart \/ \E op \in Op : Do(op) \/ FailShown(op)

Spec == Init /\ [][Next]_<<live, kept>>
=============================================================================
