------------------------------ MODULE MpscRing ------------------------------
(***************************************************************************)
(* The mpscbuf ring: the shared memory that several Producers (threads or  *)
(* whole processes) write records into and one Consumer reads them from.   *)
(* Every access to shared memory that another actor can observe is a step  *)
(* of its own.                                                             *)
(*                                                                         *)
(* Positions and sizes are counted in 8-byte words: reserve and consume    *)
(* round every record up to a multiple of 8, so every position is one.     *)
(* Record lengths stay in bytes.  data maps the offset of a word to its    *)
(* content; the double mapping of memory.rs is what lets a record run past *)
(* the last offset and continue at 0.                                      *)
(*                                                                         *)
(* log, passed and slot are history: the reservations in order, how many   *)
(* the consumer has advanced over, and which one a producer is filling.    *)
(* No guard reads them.                                                    *)
(***************************************************************************)
EXTENDS Integers, Sequences, FiniteSets

CONSTANTS Producers,    \* holders of a Producer, each its own process
          Discarders,   \* those whose application calls discard()
          Counting,     \* those whose application calls increment_dropped()
          Forced,       \* those built with WakeupStrategy::Forced
          Crashers,     \* those whose process may die at any point
          Polling,      \* does the consumer's caller poll, or wait()?
          RingSize,     \* size of the data area, in words
          Lens,         \* payload lengths in bytes that are asked for
          U32,          \* 2^32: the header keeps the length in 32 bits
          MaxReserves,  \* bound: calls of reserve() per producer
          Nobody        \* the spinlock is free

\* The code asks for a power of two; the ring itself only needs one word.
ASSUME RingAssumption ==
    /\ RingSize \in Nat \ {0}
    /\ Lens \subseteq Nat
    /\ U32 \in Nat /\ 8 * RingSize <= U32
    /\ MaxReserves \in Nat
    /\ Nobody \notin Producers
    /\ Polling \in BOOLEAN

VARIABLES
    lock,       \* Metadata.spinlock: its holder, or Nobody
    producer,   \* Metadata.producer
    consumer,   \* Metadata.consumer
    dropped,    \* Metadata.dropped
    data,       \* the data area
    eventfd,    \* is the notification counter non-zero?
    pc,         \* per producer: its next step
    want,       \* per producer: size argument of reserve()
    seen,       \* per producer: consumer_pos as read before the lock
    base,       \* per producer: position of the ReservedBuffer
    filled,     \* per producer: payload words written so far
    reserves,   \* per producer: calls of reserve() so far
    cpc,        \* the consumer's next step
    rlen,       \* length of the Record the consumer's caller holds
    log, passed, slot

memVars == <<lock, producer, consumer, dropped, data, eventfd>>
prodVars == <<pc, want, seen, base, filled, reserves>>
consVars == <<cpc, rlen>>
histVars == <<log, passed, slot>>
vars == <<memVars, prodVars, consVars, histVars>>

-----------------------------------------------------------------------------
(* Record headers and payload words.                                        *)

FlagBits == {"BUSY", "DISCARD"}

\* A header word holds a 32-bit length and the flags; any other word holds
\* payload, identified by the position of the reservation it belongs to.
Header(len, flags) == [hdr |-> TRUE, len |-> len % U32, flags |-> flags, tag |-> 0]
Payload(pos) == [hdr |-> FALSE, len |-> 0, flags |-> {}, tag |-> pos]

Words == [hdr : BOOLEAN, len : Nat, flags : SUBSET FlagBits, tag : Nat]

\* What reading a word as a RecordHeader can give: payload bytes may look
\* like anything.
AsHeader(word) ==
    IF word.hdr THEN {word}
    ELSE {Header(len, flags) : len \in Lens, flags \in SUBSET FlagBits}

PayloadWords(len) == (len + 7) \div 8

\* round_up_to_8(HEADER_SIZE + len), in words.
Total(len) == 1 + PayloadWords(len)

\* pos & size_mask, seen through the double mapping.
Off(pos) == pos % RingSize

-----------------------------------------------------------------------------
(* A freshly created ring (Consumer::new): zeroed memory, which reads as a  *)
(* committed empty record at every word.                                    *)

Init ==
    /\ lock = Nobody
    /\ producer = 0 /\ consumer = 0 /\ dropped = 0
    /\ data = [o \in 0..(RingSize - 1) |-> Header(0, {})]
    /\ eventfd = FALSE
    /\ pc = [p \in Producers |-> "idle"]
    /\ want = [p \in Producers |-> 0]
    /\ seen = [p \in Producers |-> 0]
    /\ base = [p \in Producers |-> 0]
    /\ filled = [p \in Producers |-> 0]
    /\ reserves = [p \in Producers |-> 0]
    /\ cpc = "start" /\ rlen = 0
    /\ log = <<>> /\ passed = 0
    /\ slot = [p \in Producers |-> 0]

Goto(p, from, to) == pc[p] = from /\ pc' = [pc EXCEPT ![p] = to]

-----------------------------------------------------------------------------
(* Producer::reserve.                                                       *)

\* The consumer position is read before the lock is taken, and used after.
ReserveStart(p, len) ==
    /\ Goto(p, "idle", "lock")
    /\ reserves[p] < MaxReserves
    /\ reserves' = [reserves EXCEPT ![p] = @ + 1]
    /\ want' = [want EXCEPT ![p] = len]
    /\ seen' = [seen EXCEPT ![p] = consumer]
    /\ UNCHANGED <<memVars, base, filled, consVars, histVars>>

\* Mutant: the lock is taken without looking at it.
TryLock_Unchecked(p) ==
    /\ Goto(p, "lock", "space")
    /\ lock' = p
    /\ UNCHANGED <<producer, consumer, dropped, data, eventfd, want, seen, base,
                   filled, reserves, consVars, histVars>>

TryLock(p) ==
    /\ Goto(p, "lock", "space")
    /\ lock = Nobody
    /\ lock' = p
    /\ UNCHANGED <<producer, consumer, dropped, data, eventfd, want, seen, base,
                   filled, reserves, consVars, histVars>>

\* Mutant: no spin limit.
LockTimeout_Never(p) == FALSE /\ Goto(p, "lock", "idle") /\ UNCHANGED <<memVars, consVars>>

\* SPIN_LIMIT iterations all saw the lock taken: Err(LockTimeout).
LockTimeout(p) ==
    /\ Goto(p, "lock", "idle")
    /\ lock # Nobody
    /\ UNCHANGED <<memVars, want, seen, base, filled, reserves, consVars, histVars>>

\* Mutant: the comparison uses the size instead of the mask.
Fits_OffByOne(p) == producer + Total(want[p]) - seen[p] <= RingSize

\* new_prod_pos - consumer_pos > size_mask is what makes reserve fail.
Fits(p) == producer + Total(want[p]) - seen[p] <= RingSize - 1

\* Mutant: the failed reservation is taken back although it was never made.
InsufficientSpace_Undo(p) ==
    /\ ~Fits(p)
    /\ Goto(p, "space", IF p \in Counting THEN "full" ELSE "idle")
    /\ lock' = Nobody
    /\ producer' = producer - Total(want[p])
    /\ UNCHANGED <<consumer, dropped, data, eventfd, want, seen, base,
                   filled, reserves, consVars, histVars>>

\* Err(InsufficientSpace): the guard is dropped on return.
InsufficientSpace(p) ==
    /\ ~Fits(p)
    /\ Goto(p, "space", IF p \in Counting THEN "full" ELSE "idle")
    /\ lock' = Nobody
    /\ UNCHANGED <<producer, consumer, dropped, data, eventfd, want, seen, base,
                   filled, reserves, consVars, histVars>>

\* Applications may count the loss; Metadata.dropped is an atomic add.
IncrementDropped(p) ==
    /\ Goto(p, "full", "idle")
    /\ dropped' = dropped + 1
    /\ UNCHANGED <<lock, producer, consumer, data, eventfd, want, seen, base,
                   filled, reserves, consVars, histVars>>

\* Mutant: the header is written without BUSY_FLAG.
WriteHeader_NotBusy(p) ==
    /\ Fits(p)
    /\ Goto(p, "space", "advance")
    /\ data' = [data EXCEPT ![Off(producer)] = Header(want[p], {})]
    /\ base' = [base EXCEPT ![p] = producer]
    /\ UNCHANGED <<lock, producer, consumer, dropped, eventfd, want, seen,
                   filled, reserves, consVars, histVars>>

WriteHeader(p) ==
    /\ Fits(p)
    /\ Goto(p, "space", "advance")
    /\ data' = [data EXCEPT ![Off(producer)] = Header(want[p], {"BUSY"})]
    /\ base' = [base EXCEPT ![p] = producer]
    /\ UNCHANGED <<lock, producer, consumer, dropped, eventfd, want, seen,
                   filled, reserves, consVars, histVars>>

\* advance_producer makes the busy record visible to the consumer.
AdvanceProducer(p) ==
    /\ Goto(p, "advance", "unlock")
    /\ producer' = base[p] + Total(want[p])
    /\ filled' = [filled EXCEPT ![p] = 0]
    /\ log' = Append(log, [owner |-> p, pos |-> base[p], len |-> want[p], fate |-> "busy"])
    /\ slot' = [slot EXCEPT ![p] = Len(log) + 1]
    /\ UNCHANGED <<lock, consumer, dropped, data, eventfd, want, seen, base,
                   reserves, consVars, passed>>

\* The guard is dropped and reserve returns Ok(ReservedBuffer).
Unlock(p) ==
    /\ Goto(p, "unlock", "fill")
    /\ lock' = Nobody
    /\ UNCHANGED <<producer, consumer, dropped, data, eventfd, want, seen, base,
                   filled, reserves, consVars, histVars>>

-----------------------------------------------------------------------------
(* ReservedBuffer: filling, discarding and dropping it.                     *)

FillWord(p) ==
    /\ pc[p] = "fill" /\ filled[p] < PayloadWords(want[p])
    /\ data' = [data EXCEPT ![Off(base[p] + 1 + filled[p])] = Payload(base[p])]
    /\ filled' = [filled EXCEPT ![p] = @ + 1]
    /\ UNCHANGED <<lock, producer, consumer, dropped, eventfd, pc, want, seen,
                   base, reserves, consVars, histVars>>

Settle(p, fate) ==
    log' = [log EXCEPT ![slot[p]].fate = IF @ = "busy" THEN fate ELSE @]

\* discard(self) marks the header; Drop still runs afterwards.
Discard(p) ==
    /\ p \in Discarders
    /\ Goto(p, "fill", "drop")
    /\ \E h \in AsHeader(data[Off(base[p])]) :
          data' = [data EXCEPT ![Off(base[p])] = Header(h.len, {"DISCARD"})]
    /\ Settle(p, "discarded")
    /\ UNCHANGED <<lock, producer, consumer, dropped, eventfd, want, seen, base,
                   filled, reserves, consVars, passed, slot>>

\* A filled buffer goes out of scope: Drop runs.
StartDrop(p) ==
    /\ Goto(p, "fill", "drop")
    /\ filled[p] = PayloadWords(want[p])
    /\ UNCHANGED <<memVars, want, seen, base, filled, reserves, consVars, histVars>>

\* Mutant: nobody is woken for a discarded record.
DropCheck_SilentDiscard(p) ==
    /\ \E h \in AsHeader(data[Off(base[p])]) :
          Goto(p, "drop", IF "DISCARD" \in h.flags THEN "idle" ELSE "commit")
    /\ UNCHANGED <<memVars, want, seen, base, filled, reserves, consVars, histVars>>

\* Drop asks the header in shared memory whether the record was discarded.
DropCheck(p) ==
    /\ \E h \in AsHeader(data[Off(base[p])]) :
          Goto(p, "drop", IF "DISCARD" \in h.flags THEN "notify" ELSE "commit")
    /\ UNCHANGED <<memVars, want, seen, base, filled, reserves, consVars, histVars>>

Commit(p) ==
    /\ Goto(p, "commit", "notify")
    /\ \E h \in AsHeader(data[Off(base[p])]) :
          data' = [data EXCEPT ![Off(base[p])] = Header(h.len, {})]
    /\ Settle(p, "committed")
    /\ UNCHANGED <<lock, producer, consumer, dropped, eventfd, want, seen, base,
                   filled, reserves, consVars, passed, slot>>

\* Drop's wakeup, after the commit or the discard.
Notify(p) ==
    /\ Goto(p, "notify", "idle")
    /\ eventfd' = (eventfd \/ p \in Forced)
    /\ UNCHANGED <<lock, producer, consumer, dropped, data, want, seen, base,
                   filled, reserves, consVars, histVars>>

\* Producer::notify, for applications that control the wakeups themselves.
ManualNotify(p) ==
    /\ pc[p] = "idle" /\ p \notin Forced
    /\ eventfd' = TRUE
    /\ UNCHANGED <<lock, producer, consumer, dropped, data, prodVars, consVars, histVars>>

\* The process dies; what it wrote to shared memory, the lock included, stays.
Crash(p) ==
    /\ p \in Crashers /\ pc[p] # "dead"
    /\ pc' = [pc EXCEPT ![p] = "dead"]
    /\ UNCHANGED <<memVars, want, seen, base, filled, reserves, consVars, histVars>>

-----------------------------------------------------------------------------
(* Consumer.                                                                *)

ConsumePositions ==
    /\ cpc = "start"
    /\ cpc' = IF consumer >= producer THEN "none" ELSE "header"
    /\ UNCHANGED <<memVars, prodVars, rlen, histVars>>

\* A discarded record: advance and look at the next one.
SkipDiscarded(h) ==
    /\ "BUSY" \notin h.flags /\ "DISCARD" \in h.flags
    /\ consumer' = consumer + Total(h.len)
    /\ passed' = passed + 1
    /\ cpc' = "start"
    /\ UNCHANGED rlen

\* Mutant: BUSY_FLAG is not looked at.
ReturnRecord_IgnoresBusy(h) ==
    /\ "DISCARD" \notin h.flags
    /\ cpc' = "record" /\ rlen' = h.len
    /\ UNCHANGED <<consumer, passed>>

\* A committed record: hand it out, without advancing yet.
ReturnRecord(h) ==
    /\ h.flags = {}
    /\ cpc' = "record" /\ rlen' = h.len
    /\ UNCHANGED <<consumer, passed>>

ReturnNone(h) ==
    /\ "BUSY" \in h.flags
    /\ cpc' = "none"
    /\ UNCHANGED <<consumer, passed, rlen>>

ConsumeHeader ==
    /\ cpc = "header"
    /\ \E h \in AsHeader(data[Off(consumer)]) :
          ReturnNone(h) \/ SkipDiscarded(h) \/ ReturnRecord(h)
    /\ UNCHANGED <<lock, producer, dropped, data, eventfd, prodVars, log, slot>>

\* Dropping the Record frees its space.
DropRecord ==
    /\ cpc = "record"
    /\ consumer' = consumer + Total(rlen)
    /\ passed' = passed + 1
    /\ cpc' = "start"
    /\ UNCHANGED <<lock, producer, dropped, data, eventfd, prodVars, rlen, log, slot>>

\* consume returned None; a polling caller calls it again later ...
Poll ==
    /\ cpc = "none" /\ Polling
    /\ cpc' = "start"
    /\ UNCHANGED <<memVars, prodVars, rlen, histVars>>

\* ... any other blocks in wait() until the eventfd is readable.
Wait ==
    /\ cpc = "none" /\ ~Polling
    /\ eventfd
    /\ eventfd' = FALSE
    /\ cpc' = "start"
    /\ UNCHANGED <<lock, producer, consumer, dropped, data, prodVars, rlen, histVars>>

-----------------------------------------------------------------------------
\* A producer's steps from reserve() to the end of Drop.
Running(p) ==
    \/ TryLock(p) \/ LockTimeout(p) \/ InsufficientSpace(p) \/ IncrementDropped(p)
    \/ WriteHeader(p) \/ AdvanceProducer(p) \/ Unlock(p)
    \/ FillWord(p) \/ Discard(p) \/ StartDrop(p) \/ DropCheck(p) \/ Commit(p) \/ Notify(p)

ConsumerStep ==
    ConsumePositions \/ ConsumeHeader \/ DropRecord \/ Poll \/ Wait

Next ==
    \/ \E p \in Producers :
          \/ \E len \in Lens : ReserveStart(p, len)
          \/ Running(p)
          \/ ManualNotify(p)
          \/ Crash(p)
    \/ ConsumerStep

\* A started call keeps running unless its process dies, and the consumer's
\* loop keeps running; nobody has to call reserve() or notify().
Fairness ==
    /\ \A p \in Producers : WF_vars(Running(p))
    /\ WF_vars(ConsumerStep)

SafetySpec == Init /\ [][Next]_vars
Spec == SafetySpec /\ Fairness
-----------------------------------------------------------------------------
(* Properties.                                                              *)

PcValues == {"idle", "lock", "space", "full", "advance", "unlock", "fill",
             "drop", "commit", "notify", "dead"}

LogEntries == [owner : Producers, pos : Nat, len : Nat,
               fate : {"busy", "committed", "discarded"}]

\* Type invariant.
TypeOK ==
    /\ lock \in Producers \cup {Nobody}
    /\ producer \in Nat /\ consumer \in Nat /\ dropped \in Nat
    /\ data \in [0..(RingSize - 1) -> Words]
    /\ eventfd \in BOOLEAN
    /\ pc \in [Producers -> PcValues]
    /\ want \in [Producers -> Nat] /\ seen \in [Producers -> Nat]
    /\ base \in [Producers -> Nat] /\ filled \in [Producers -> Nat]
    /\ reserves \in [Producers -> 0..MaxReserves]
    /\ cpc \in {"start", "header", "record", "none"} /\ rlen \in Nat
    /\ log \in Seq(LogEntries)
    /\ passed \in Nat /\ slot \in [Producers -> Nat]

FlagsOf(fate) ==
    CASE fate = "busy" -> {"BUSY"} [] fate = "discarded" -> {"DISCARD"} [] OTHER -> {}

\* The records between the consumer's and the producer's position.
Unread == (passed + 1)..Len(log)

HeaderIntact(r) == data[Off(r.pos)] = Header(r.len, FlagsOf(r.fate))
PayloadIntact(r) == \A k \in 1..PayloadWords(r.len) : data[Off(r.pos + k)] = Payload(r.pos)

\* The producers never run into the consumer: the positions stay in order and
\* less than a full ring apart, although reserve() compares with a consumer
\* position that it read before it waited for the lock (producer.rs 87-109).
NeverOverrun == consumer <= producer /\ producer - consumer < RingSize

\* Nobody overwrites a record before the consumer has passed it: its header
\* still says what its owner last did with it, and once it is committed every
\* payload word is the one its owner wrote.
UnreadIntact ==
    \A i \in Unread :
       /\ HeaderIntact(log[i])
       /\ log[i].fate = "committed" => PayloadIntact(log[i])

\* What consume() hands out is the oldest record not yet passed, committed,
\* with its own length and its own payload, for as long as the caller holds it.
HeldRecordIntact ==
    cpc = "record" =>
       /\ passed < Len(log)
       /\ LET r == log[passed + 1] IN
             /\ consumer = r.pos /\ rlen = r.len
             /\ r.fate = "committed" /\ PayloadIntact(r)

\* A reservation that was never committed is never handed out: lib.rs
\* promises "reserved.discard(); // Don't commit", and commit on drop.
HeldRecordCommitted ==
    cpc = "record" => passed < Len(log) /\ log[passed + 1].fate = "committed"

\* reserve() never spins for ever, even when the lock's holder has died: the
\* spin limit turns it into an error.
ReserveReturns == \A p \in Producers : pc[p] = "lock" ~> pc[p] # "lock"

\* As long as no producer dies, every reservation is eventually passed by the
\* consumer: no commit or discard is left without the wakeup it needs.
EveryRecordPassed ==
    \A n \in 1..(MaxReserves * Cardinality(Producers)) :
       Len(log) >= n ~> (passed >= n \/ \E p \in Producers : pc[p] = "dead")

\* The ring implements the abstract queue.
Queue == INSTANCE MpscQueue WITH
    records <- [i \in 1..Len(log) |->
                  [owner |-> log[i].owner, len |-> log[i].len, fate |-> log[i].fate]],
    holding <- cpc = "record"

ImplementsQueue == Queue!QSpec
=============================================================================
