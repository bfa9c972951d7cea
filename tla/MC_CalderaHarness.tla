--------------------------- MODULE MC_CalderaHarness ---------------------------
(* CalderaHarness for TLC: two runs, one after the other or overlapping. *)
EXTENDS CalderaHarness, TLC

CONSTANTS r1, r2

\* The tests' command lines, which clean nothing up, and one that does.
MCCommands == {
  [ability |-> "wifi",         flags |-> {"bootstrap", "verify_trace", "verify_logs"}],
  [ability |-> "avoid_logs",   flags |-> {"verify_logs"}],
  [ability |-> "avoid_logs",   flags |-> {"cleanup"}],
  [ability |-> "dump_history", flags |-> {"verify_logs"}],
  [ability |-> "processes",    flags |-> {"verify_logs"}] }

\* Nothing tells the two runs apart.
MCSymmetry == Permutations({r1, r2})
=============================================================================
