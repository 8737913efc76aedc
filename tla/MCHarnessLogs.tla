---------------------------- MODULE MCHarnessLogs ----------------------------
(* HarnessLogs on two sessions of one workspace, one after the other or both *)
(* at once.                                                                  *)
EXTENDS HarnessLogs, TLC
\* A usage that fits, of a model whose window is known, and one at the limit.
TwoCounts == {[input |-> 1, cache_creation |-> 0, cache_read |-> 1, output |-> 1, model |-> "claude"],
              [input |-> MAX_U64, cache_creation |-> 1, cache_read |-> 0, output |-> 1, model |-> "other"]}
OneCount == {[input |-> 2, cache_creation |-> 2, cache_read |-> 2, output |-> 2, model |-> "claude"]}
Perms == Permutations(Sessions)
=============================================================================
