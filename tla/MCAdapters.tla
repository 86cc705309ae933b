----------------------------- MODULE MCAdapters -----------------------------
(* Small values for Adapters: an addition and a deduction that between them  *)
(* reach both ends of the int64 of the runs.                                 *)
EXTENDS Adapters

MCDeltas == {1, -1}
=============================================================================
