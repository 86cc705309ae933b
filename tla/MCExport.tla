------------------------------ MODULE MCExport -----------------------------
(* An award of one user.                                                   *)
EXTENDS Export

MCInputs == {[kind |-> "points", user |-> 1, delta |-> 2]}

(* A batch size of 0 is what a configuration without one gives.            *)
MCSetups ==
  { [multi |-> FALSE, batchSize |-> 2],
    [multi |-> TRUE,  batchSize |-> 0] }
=============================================================================
