---------------------------- MODULE MCSchedSystem -----------------------------
(* Two threads of one process on two processors; counter lists, among   *)
(* them an empty one, one that is too long and one with an unknown name.     *)
EXTENDS SchedSystem, TLC

CONSTANTS t1, t2, c1, c2
MCTgidOf == [t \in Tids |-> "p"]
MCPerfConfigs == {<<"ipc", "faults">>, <<"ipc", "ipc">>, <<"bogus">>, <<>>}
Symmetry == Permutations({t1, t2}) \cup Permutations({c1, c2})
=============================================================================
