---------------------------- MODULE MCTracingLayer ----------------------------
(* Two threads, one with a name, that share a span; two sessions with another   *)
(* filter, clock and process id.                                                *)
EXTENDS TracingLayer

CONSTANTS t1, t2

MCSessions == << [filter |-> {"debug", "info"}, clock |-> "monotonic", pid |-> "random"],
                 [filter |-> {"info"}, clock |-> "realtime", pid |-> "own"] >>
MCOffset == [c \in {"monotonic", "realtime"} |-> IF c = "realtime" THEN 100 ELSE 0]
=============================================================================
