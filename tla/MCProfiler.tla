------------------------------ MODULE MCProfiler ------------------------------
(* Two processes; two user traces that share a frame and a bucket of the stack *)
(* map, and a kernel trace.                                                    *)
EXTENDS Profiler

MCTidsOf == [p \in Pids |-> IF p = 1 THEN {11} ELSE {}]
MCUserTraces == {<<"a", "b">>, <<"b">>}
MCKernelTraces == {<<"k">>}
MCBucketOf == [t \in Traces |-> IF t \in MCUserTraces THEN 1 ELSE 2]
=============================================================================
