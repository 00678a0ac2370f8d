------------------------------ MODULE MpscQueue ------------------------------
(***************************************************************************)
(* What mpscbuf promises its users, without the ring: a queue of records   *)
(* in reservation order.  A producer reserves a record, then commits or    *)
(* discards it once; the consumer holds at most one record, always the     *)
(* oldest one not yet passed, and only after it was committed; discarded   *)
(* records are passed silently.                                            *)
(***************************************************************************)
EXTENDS Naturals, Sequences

CONSTANTS Producers,    \* processes or threads that hold a Producer
          Lens          \* payload lengths, in bytes, that are reserved

VARIABLES records,      \* every reservation so far, in order
          passed,       \* how many of them the consumer is done with
          holding       \* does the consumer's caller hold a Record?

qvars == <<records, passed, holding>>

Fates == {"busy", "committed", "discarded"}

QInit == records = <<>> /\ passed = 0 /\ holding = FALSE

\* Producer::reserve returned Ok(ReservedBuffer).
QReserve(p, len) ==
    /\ records' = Append(records, [owner |-> p, len |-> len, fate |-> "busy"])
    /\ UNCHANGED <<passed, holding>>

\* The ReservedBuffer was dropped (committed) or discarded.
QSettle(i, fate) ==
    /\ records[i].fate = "busy"
    /\ records' = [records EXCEPT ![i].fate = fate]
    /\ UNCHANGED <<passed, holding>>

\* Consumer::consume returned Some(Record).
QTake ==
    /\ ~holding /\ passed < Len(records)
    /\ records[passed + 1].fate = "committed"
    /\ holding' = TRUE
    /\ UNCHANGED <<records, passed>>

\* The Record was dropped.
QRelease ==
    /\ holding
    /\ holding' = FALSE /\ passed' = passed + 1
    /\ UNCHANGED records

\* Consumer::consume went past a discarded record.
QSkip ==
    /\ ~holding /\ passed < Len(records)
    /\ records[passed + 1].fate = "discarded"
    /\ passed' = passed + 1
    /\ UNCHANGED <<records, holding>>

QNext ==
    \/ \E p \in Producers, len \in Lens : QReserve(p, len)
    \/ \E i \in 1..Len(records), fate \in {"committed", "discarded"} : QSettle(i, fate)
    \/ QTake \/ QRelease \/ QSkip

QSpec == QInit /\ [][QNext]_qvars
=============================================================================
