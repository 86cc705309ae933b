---------------------------- MODULE MCApiServer ----------------------------
(* ApiServer for TLC: settings that turn on, or spoil, what the server is   *)
(* made of.                                                                 *)
EXTENDS ApiServer

NothingSet == << >>

MCEnv == {
  NothingSet,
  [limit |-> TRUE],
  [limit |-> TRUE, apiKeys |-> {"k1"}],
  [limit |-> TRUE, burst |-> 0],
  [limit |-> Garbled],
  [apiKeys |-> {"k1", ""}],
  [adapter |-> "file"],
  [adapter |-> "sql", environment |-> "production"]}

MCFile == {
  NothingSet,
  Garbled,
  [address |-> ""],
  [metrics |-> "invalid"],
  [limit |-> TRUE, rpm |-> -1],
  [cors |-> "", apiKeys |-> {"k1"}]}
=============================================================================
