---------------------------- MODULE MpscRingInv ----------------------------
(***************************************************************************)
(* The inductive invariant of the ring, one named part per idea.  It is    *)
(* inductive when no two producers can be between discard() and the end of *)
(* Drop while the ring moves on under them: SafeDiscards.                  *)
(***************************************************************************)
EXTENDS MpscRing

\* Nobody discards, or there is only one producer.
SafeDiscards == Discarders = {} \/ \A p, q \in Producers : p = q

\* The steps of reserve() that hold the lock's guard.
InLock(p) == pc[p] \in {"space", "advance", "unlock"}

\* The steps at which a producer holds a reservation it has not settled.
Owning(p) == pc[p] \in {"unlock", "fill", "commit"}

\* Where record i ends: at the start of the next one, or at the producer.
EndOf(i) == IF i < Len(log) THEN log[i + 1].pos ELSE producer

LockInv == \A p \in Producers : InLock(p) => lock = p

SeenInv == \A p \in Producers : seen[p] <= consumer

\* The records tile the positions in order, up to the producer's position,
\* and the consumer stands at the start of one of them.
LogInv ==
    /\ passed <= Len(log)
    /\ consumer = EndOf(passed)
    /\ \A i \in 1..Len(log) :
          /\ EndOf(i) = log[i].pos + Total(log[i].len)
          /\ EndOf(i) <= producer
          /\ log[i].len < U32
    /\ \A i, j \in 1..Len(log) : i < j => EndOf(i) <= log[j].pos
    /\ \A i \in 1..passed : log[i].fate # "busy"
    /\ \A i \in 1..Len(log) : log[i].fate = "discarded" => Discarders # {}

\* The header of a record about to be published is in place, and it fits.
AdvanceInv ==
    \A p \in Producers : pc[p] = "advance" =>
       /\ base[p] = producer
       /\ want[p] < U32
       /\ producer + Total(want[p]) - consumer < RingSize
       /\ data[Off(producer)] = Header(want[p], {"BUSY"})

\* A producer's view of its reservation is the entry of the log it made.
Mine(p) ==
    /\ slot[p] \in 1..Len(log)
    /\ log[slot[p]].owner = p
    /\ log[slot[p]].pos = base[p] /\ log[slot[p]].len = want[p]

OwnerInv ==
    \A p \in Producers :
       /\ Owning(p) => Mine(p) /\ log[slot[p]].fate = "busy"
       /\ pc[p] = "drop" => Mine(p) /\ log[slot[p]].fate \in {"busy", "discarded"}

\* The words it has written so far are its own; before it commits, all are.
FillInv ==
    \A p \in Producers :
       (Owning(p) \/ (pc[p] = "drop" /\ log[slot[p]].fate = "busy")) =>
          /\ filled[p] <= PayloadWords(want[p])
          /\ pc[p] \in {"drop", "commit"} => filled[p] = PayloadWords(want[p])
          /\ \A k \in 1..filled[p] : data[Off(base[p] + k)] = Payload(base[p])

\* After discard(), Drop finds the flag that discard() set.
DiscardInv ==
    \A p \in Producers :
       (pc[p] = "drop" /\ log[slot[p]].fate = "discarded") =>
          /\ data[Off(base[p])].hdr
          /\ "DISCARD" \in data[Off(base[p])].flags

ConsumerInv ==
    /\ cpc = "header" => consumer < producer
    /\ cpc = "record" => /\ passed < Len(log)
                         /\ log[passed + 1].fate = "committed"
                         /\ rlen = log[passed + 1].len

\* The inductive invariant.
IInv ==
    /\ TypeOK /\ LockInv /\ SeenInv /\ NeverOverrun /\ LogInv /\ AdvanceInv
    /\ OwnerInv /\ FillInv /\ DiscardInv /\ UnreadIntact /\ ConsumerInv
=============================================================================
