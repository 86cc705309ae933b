---------------------------- MODULE MCStreaming ----------------------------
(* Awards, points taken back and badges, of one user.                      *)
EXTENDS Streaming

MCInputs ==
  { [kind |-> "points", user |-> 1, delta |-> 1],
    [kind |-> "points", user |-> 1, delta |-> -1],
    [kind |-> "badge",  user |-> 1, delta |-> 0] }
=============================================================================
