--------------------------- MODULE MpscRing_proof ---------------------------
(***************************************************************************)
(* Proofs about the ring, for any number of producers, ring size and       *)
(* lengths, in three parts:                                                *)
(*   - the arithmetic of positions and lengths, type correctness, and what *)
(*     holds however producers discard;                                    *)
(*   - the inductive invariant of MpscRingInv is preserved by every step   *)
(*     as long as discards are safe; so nothing unread is overwritten and  *)
(*     only whole records are handed out;                                  *)
(*   - the ring implements the abstract queue of MpscQueue: every step of  *)
(*     a producer or of the consumer is a step of the queue or leaves it   *)
(*     alone.                                                              *)
(***************************************************************************)
EXTENDS MpscRingInv, SequenceTheorems, TLAPS

-----------------------------------------------------------------------------
(* Arithmetic of positions and lengths.                                     *)

\* Two positions less than a ring apart are at different offsets.
LEMMA ModInjective ==
    ASSUME NEW n \in Nat \ {0}, NEW a \in Nat, NEW b \in Nat, a < b, b - a < n
    PROVE  a % n # b % n
<1>1. /\ a = n * (a \div n) + (a % n) /\ a \div n \in Int /\ a % n \in 0..(n - 1)
      /\ b = n * (b \div n) + (b % n) /\ b \div n \in Int /\ b % n \in 0..(n - 1)
  OBVIOUS
<1> DEFINE x == a \div n
           y == b \div n
<1>2. ASSUME a % n = b % n PROVE FALSE
  <2>1. b - a = n * y - n * x  BY <1>1, <1>2
  <2>2. b - a = n * (y - x)  BY <2>1, <1>1
  <2>3. CASE y - x >= 1
    <3>1. n * (y - x) >= n  BY <2>3, <1>1
    <3>2. QED  BY <3>1, <2>2
  <2>4. CASE y - x <= 0
    <3>1. n * (y - x) <= 0  BY <2>4, <1>1
    <3>2. QED  BY <3>1, <2>2
  <2>5. QED  BY <2>3, <2>4, <1>1
<1>3. QED  BY <1>2

\* The same, for two positions inside the window that starts at c.
LEMMA OffDistinct ==
    ASSUME NEW c \in Nat, NEW x \in Nat, NEW y \in Nat, x # y,
           c <= x, c <= y, x - c < RingSize, y - c < RingSize
    PROVE  Off(x) # Off(y)
<1>1. RingSize \in Nat \ {0}  BY RingAssumption
<1>2. CASE x < y
  <2>1. y - x < RingSize  BY <1>1
  <2>2. x % RingSize # y % RingSize  BY <1>1, <1>2, <2>1, ModInjective
  <2>3. QED  BY <2>2 DEF Off
<1>3. CASE y < x
  <2>1. x - y < RingSize  BY <1>1
  <2>2. y % RingSize # x % RingSize  BY <1>1, <1>3, <2>1, ModInjective
  <2>3. QED  BY <2>2 DEF Off
<1>4. QED  BY <1>2, <1>3

LEMMA OffType ==
    ASSUME NEW x \in Nat PROVE Off(x) \in 0..(RingSize - 1)
BY RingAssumption DEF Off

\* A record takes its header word and its payload words.
LEMMA TotalFacts ==
    ASSUME NEW len \in Nat
    PROVE  /\ PayloadWords(len) \in Nat /\ len <= 8 * PayloadWords(len)
           /\ Total(len) \in Nat /\ Total(len) = 1 + PayloadWords(len)
BY DEF PayloadWords, Total

\* A length that fits the ring survives the conversion to 32 bits.
LEMMA FittingLen ==
    ASSUME NEW len \in Nat, Total(len) < RingSize
    PROVE  len < U32
BY TotalFacts, RingAssumption

LEMMA HeaderFacts ==
    ASSUME NEW len \in Nat, NEW flags \in SUBSET FlagBits
    PROVE  /\ Header(len, flags) \in Words
           /\ Header(len, flags).hdr
           /\ Header(len, flags).flags = flags
           /\ Header(len, flags).len = len % U32
           /\ len < U32 => Header(len, flags).len = len
<1>1. U32 \in Nat \ {0} /\ len % U32 \in Nat
  BY RingAssumption
<1>2. len < U32 => len % U32 = len
  BY <1>1
<1>3. QED  BY <1>1, <1>2 DEF Header, Words

LEMMA PayloadType ==
    ASSUME NEW pos \in Nat
    PROVE  Payload(pos) \in Words /\ ~Payload(pos).hdr
BY DEF Payload, Words

\* Whatever word is read as a header gives a length and flags.
LEMMA AsHeaderType ==
    ASSUME NEW w \in Words, NEW h \in AsHeader(w)
    PROVE  h \in Words /\ h.len \in Nat /\ h.flags \in SUBSET FlagBits
<1>1. CASE w.hdr  BY <1>1 DEF AsHeader, Words
<1>2. CASE ~w.hdr
  <2>1. PICK len \in Lens, flags \in SUBSET FlagBits : h = Header(len, flags)
    BY <1>2 DEF AsHeader
  <2>2. h \in Words  BY <2>1, HeaderFacts, RingAssumption
  <2>3. QED  BY <2>2 DEF Words
<1>3. QED  BY <1>1, <1>2

\* Settling an entry of the log changes its fate and nothing else.
LEMMA SettleFacts ==
    ASSUME TypeOK, NEW p \in Producers, NEW fate \in {"committed", "discarded"},
           Settle(p, fate)
    PROVE  /\ log' \in Seq(LogEntries)
           /\ Len(log') = Len(log)
           /\ \A i \in 1..Len(log) :
                 /\ log'[i].owner = log[i].owner
                 /\ log'[i].pos = log[i].pos
                 /\ log'[i].len = log[i].len
                 /\ i # slot[p] => log'[i] = log[i]
                 /\ i = slot[p] =>
                       log'[i].fate = IF log[i].fate = "busy" THEN fate ELSE log[i].fate
<1>1. log \in Seq(LogEntries) /\ slot[p] \in Nat  BY DEF TypeOK
<1>2. log' = [log EXCEPT ![slot[p]] =
                 [log[slot[p]] EXCEPT !.fate = IF @ = "busy" THEN fate ELSE @]]
  BY DEF Settle
<1> DEFINE new(i) == [log[i] EXCEPT !.fate = IF @ = "busy" THEN fate ELSE @]
<1>3. log' \in [1..Len(log) -> LogEntries]
  <2>1. log \in [1..Len(log) -> LogEntries]  BY <1>1
  <2>2. \A i \in 1..Len(log) : new(i) \in LogEntries
    BY <2>1 DEF LogEntries
  <2>3. QED  BY <1>2, <2>1, <2>2
<1>4. log' \in Seq(LogEntries) /\ Len(log') = Len(log)
  BY <1>1, <1>3
<1>5. QED  BY <1>1, <1>2, <1>4 DEF LogEntries

-----------------------------------------------------------------------------
(* Type correctness.                                                        *)

\* Updating what is kept per producer.
LEMMA NatUpdate ==
    ASSUME NEW f \in [Producers -> Nat], NEW p \in Producers, NEW v \in Nat
    PROVE  [f EXCEPT ![p] = v] \in [Producers -> Nat]
OBVIOUS

LEMMA CountUpdate ==
    ASSUME NEW f \in [Producers -> 0..MaxReserves], NEW p \in Producers, f[p] < MaxReserves
    PROVE  [f EXCEPT ![p] = @ + 1] \in [Producers -> 0..MaxReserves]
<1>1. f[p] + 1 \in 0..MaxReserves
  <2>1. MaxReserves \in Nat  BY RingAssumption
  <2>2. f[p] \in 0..MaxReserves  OBVIOUS
  <2>3. QED  BY <2>1, <2>2
<1>2. QED  BY <1>1

LEMMA TypeInit == Init => TypeOK
<1> SUFFICES ASSUME Init PROVE TypeOK  OBVIOUS
<1>1. Header(0, {}) \in Words  BY HeaderFacts
<1>2. data \in [0..(RingSize - 1) -> Words]  BY <1>1 DEF Init
<1>3. reserves \in [Producers -> 0..MaxReserves]  BY RingAssumption DEF Init
<1>4. log \in Seq(LogEntries)  BY DEF Init
<1>5. QED  BY <1>2, <1>3, <1>4 DEF Init, TypeOK, PcValues

\* Steps of a producer that only move its control and its local state.
LEMMA TypeLocal ==
    ASSUME TypeOK, NEW p \in Producers,
           \/ \E len \in Lens : ReserveStart(p, len)
           \/ TryLock(p) \/ LockTimeout(p) \/ InsufficientSpace(p) \/ IncrementDropped(p)
           \/ Unlock(p) \/ StartDrop(p) \/ DropCheck(p) \/ Notify(p) \/ ManualNotify(p)
           \/ Crash(p)
    PROVE  TypeOK'
<1> USE DEF TypeOK, PcValues, Goto, memVars, prodVars, consVars, histVars
<1>1. ASSUME NEW len \in Lens, ReserveStart(p, len) PROVE TypeOK'
  <2>1. len \in Nat  BY <1>1, RingAssumption
  <2>2. reserves' \in [Producers -> 0..MaxReserves]
    <3>1. /\ reserves \in [Producers -> 0..MaxReserves] /\ reserves[p] < MaxReserves
          /\ reserves' = [reserves EXCEPT ![p] = @ + 1]
      BY <1>1 DEF ReserveStart
    <3>2. QED  BY <3>1, CountUpdate
  <2>3. QED  BY <1>1, <2>1, <2>2 DEF ReserveStart
<1>2. CASE TryLock(p)  BY <1>2 DEF TryLock
<1>3. CASE LockTimeout(p)  BY <1>3 DEF LockTimeout
<1>4. CASE InsufficientSpace(p)  BY <1>4 DEF InsufficientSpace
<1>5. CASE IncrementDropped(p)  BY <1>5, SMTT(60) DEF IncrementDropped
<1>6. CASE Unlock(p)  BY <1>6 DEF Unlock
<1>7. CASE StartDrop(p)  BY <1>7 DEF StartDrop
<1>8. CASE DropCheck(p)  BY <1>8 DEF DropCheck
<1>9. CASE Notify(p)  BY <1>9 DEF Notify
<1>10. CASE ManualNotify(p)  BY <1>10 DEF ManualNotify
<1>11. CASE Crash(p)  BY <1>11 DEF Crash
<1>12. QED
  BY <1>1, <1>2, <1>3, <1>4, <1>5, <1>6, <1>7, <1>8, <1>9, <1>10, <1>11

\* Steps of a producer that write to the ring or extend the log.
LEMMA TypeWrite ==
    ASSUME TypeOK, NEW p \in Producers,
           \/ WriteHeader(p) \/ AdvanceProducer(p) \/ FillWord(p)
           \/ Discard(p) \/ Commit(p)
    PROVE  TypeOK'
<1> USE DEF PcValues, Goto, memVars, prodVars, consVars, histVars
<1>1. CASE WriteHeader(p)
  <2>1. Header(want[p], {"BUSY"}) \in Words
    BY HeaderFacts DEF TypeOK, FlagBits
  <2>2. QED  BY <1>1, <2>1 DEF WriteHeader, TypeOK
<1>2. CASE AdvanceProducer(p)
  <2>1. Total(want[p]) \in Nat /\ base[p] \in Nat  BY TotalFacts DEF TypeOK
  <2>2. [owner |-> p, pos |-> base[p], len |-> want[p], fate |-> "busy"] \in LogEntries
    BY DEF TypeOK, LogEntries
  <2>3. log' \in Seq(LogEntries) /\ Len(log) \in Nat
    <3> DEFINE new == [owner |-> p, pos |-> base[p], len |-> want[p], fate |-> "busy"]
    <3>1. log \in Seq(LogEntries) /\ log' = Append(log, new)
      BY <1>2 DEF AdvanceProducer, TypeOK
    <3> HIDE DEF new
    <3>2. new \in LogEntries  BY <2>2 DEF new
    <3>3. QED  BY <3>1, <3>2
  <2>4. slot' \in [Producers -> Nat] /\ filled' \in [Producers -> Nat] /\ producer' \in Nat
    <3>1. /\ slot \in [Producers -> Nat] /\ slot' = [slot EXCEPT ![p] = Len(log) + 1]
          /\ filled \in [Producers -> Nat] /\ filled' = [filled EXCEPT ![p] = 0]
          /\ producer' = base[p] + Total(want[p])
      BY <1>2 DEF AdvanceProducer, TypeOK
    <3>2. Len(log) + 1 \in Nat /\ producer' \in Nat /\ 0 \in Nat  BY <2>1, <2>3, <3>1
    <3>3. QED  BY <3>1, <3>2, NatUpdate
  <2>5. QED  BY <1>2, <2>3, <2>4 DEF AdvanceProducer, TypeOK
<1>3. CASE FillWord(p)
  <2>1. Payload(base[p]) \in Words  BY PayloadType DEF TypeOK
  <2>2. data' \in [0..(RingSize - 1) -> Words]
    BY <1>3, <2>1 DEF FillWord, TypeOK
  <2>3. filled' \in [Producers -> Nat]
    <3>1. /\ filled \in [Producers -> Nat]
          /\ filled' = [filled EXCEPT ![p] = filled[p] + 1]
      BY <1>3 DEF FillWord, TypeOK
    <3>2. filled[p] + 1 \in Nat  BY <3>1
    <3>3. QED  BY <3>1, <3>2, NatUpdate
  <2>4. QED  BY <1>3, <2>2, <2>3 DEF FillWord, TypeOK
<1>4. ASSUME NEW h, h \in AsHeader(data[Off(base[p])]), NEW flags \in SUBSET FlagBits
      PROVE  Header(h.len, flags) \in Words
  <2>1. data[Off(base[p])] \in Words  BY OffType DEF TypeOK
  <2>2. h.len \in Nat  BY <1>4, <2>1, AsHeaderType
  <2>3. QED  BY <2>2, HeaderFacts
<1>5. CASE Discard(p)
  <2>1. PICK h \in AsHeader(data[Off(base[p])]) :
           data' = [data EXCEPT ![Off(base[p])] = Header(h.len, {"DISCARD"})]
    BY <1>5 DEF Discard
  <2>2. data' \in [0..(RingSize - 1) -> Words]
    BY <1>4, <2>1 DEF TypeOK, FlagBits
  <2>3. log' \in Seq(LogEntries)  BY <1>5, SettleFacts DEF Discard
  <2>4. QED  BY <1>5, <2>2, <2>3 DEF Discard, TypeOK
<1>6. CASE Commit(p)
  <2>1. PICK h \in AsHeader(data[Off(base[p])]) :
           data' = [data EXCEPT ![Off(base[p])] = Header(h.len, {})]
    BY <1>6 DEF Commit
  <2>2. data' \in [0..(RingSize - 1) -> Words]
    BY <1>4, <2>1 DEF TypeOK
  <2>3. log' \in Seq(LogEntries)  BY <1>6, SettleFacts DEF Commit
  <2>4. QED  BY <1>6, <2>2, <2>3 DEF Commit, TypeOK
<1>7. QED  BY <1>1, <1>2, <1>3, <1>5, <1>6

LEMMA TypeConsumer == ASSUME TypeOK, ConsumerStep PROVE TypeOK'
<1> USE DEF memVars, prodVars, consVars, histVars
<1>1. CASE ConsumePositions  BY <1>1 DEF ConsumePositions, TypeOK
<1>2. CASE ConsumeHeader
  <2>1. data[Off(consumer)] \in Words  BY OffType DEF TypeOK
  <2>2. PICK h \in AsHeader(data[Off(consumer)]) :
           ReturnNone(h) \/ SkipDiscarded(h) \/ ReturnRecord(h)
    BY <1>2 DEF ConsumeHeader
  <2>3. h.len \in Nat /\ Total(h.len) \in Nat
    BY <2>1, AsHeaderType, TotalFacts
  <2>4. consumer' \in Nat /\ passed' \in Nat /\ rlen' \in Nat
        /\ cpc' \in {"start", "record", "none"}
    <3>1. consumer \in Nat /\ passed \in Nat /\ rlen \in Nat  BY DEF TypeOK
    <3>2. consumer + Total(h.len) \in Nat /\ passed + 1 \in Nat  BY <2>3, <3>1
    <3>3. CASE ReturnNone(h)  BY <3>1, <3>3 DEF ReturnNone
    <3>4. CASE SkipDiscarded(h)  BY <3>1, <3>2, <3>4 DEF SkipDiscarded
    <3>5. CASE ReturnRecord(h)  BY <2>3, <3>1, <3>5 DEF ReturnRecord
    <3>6. QED  BY <2>2, <3>3, <3>4, <3>5
  <2>5. QED  BY <1>2, <2>4 DEF ConsumeHeader, TypeOK
<1>3. CASE DropRecord
  <2>1. Total(rlen) \in Nat  BY TotalFacts DEF TypeOK
  <2>2. consumer + Total(rlen) \in Nat /\ passed + 1 \in Nat  BY <2>1 DEF TypeOK
  <2>3. consumer' \in Nat /\ passed' \in Nat  BY <1>3, <2>2 DEF DropRecord
  <2>4. QED  BY <1>3, <2>3 DEF DropRecord, TypeOK
<1>4. CASE Poll  BY <1>4 DEF Poll, TypeOK
<1>5. CASE Wait  BY <1>5 DEF Wait, TypeOK
<1>6. QED  BY <1>1, <1>2, <1>3, <1>4, <1>5 DEF ConsumerStep

LEMMA TypeNext == TypeOK /\ [Next]_vars => TypeOK'
<1> SUFFICES ASSUME TypeOK, [Next]_vars PROVE TypeOK'  OBVIOUS
<1>1. CASE UNCHANGED vars
  BY <1>1 DEF vars, memVars, prodVars, consVars, histVars, TypeOK
<1>2. CASE ConsumerStep  BY <1>2, TypeConsumer
<1>3. ASSUME NEW p \in Producers,
             \/ \E len \in Lens : ReserveStart(p, len)
             \/ Running(p) \/ ManualNotify(p) \/ Crash(p)
      PROVE  TypeOK'
  BY <1>3, TypeLocal, TypeWrite DEF Running
<1>4. QED  BY <1>1, <1>2, <1>3 DEF Next

\* Every reachable state of the ring is well typed, for every number of
\* producers, ring size and set of lengths.
THEOREM TypeCorrect == SafetySpec => []TypeOK
BY TypeInit, TypeNext, PTL DEF SafetySpec

-----------------------------------------------------------------------------
(* Where the words of unread records are.                                   *)

\* The position of word k of record i, and the positions in the ring's window.
At(i, k) == log[i].pos + k
InWindow(x) == x \in Nat /\ consumer <= x /\ x - consumer < RingSize

\* The words of an unread record lie between the consumer and the producer.
LEMMA UnreadRange ==
    ASSUME TypeOK, NeverOverrun, LogInv,
           NEW i \in Unread, NEW k \in 0..PayloadWords(log[i].len)
    PROVE  InWindow(At(i, k)) /\ At(i, k) < producer
<1>1. passed \in Nat /\ Len(log) \in Nat /\ i \in 1..Len(log) /\ passed < i
  BY DEF TypeOK, Unread
<1>2. log[i] \in LogEntries  BY <1>1 DEF TypeOK
<1>3. log[i].pos \in Nat /\ log[i].len \in Nat  BY <1>2 DEF LogEntries
<1>4. PayloadWords(log[i].len) \in Nat /\ Total(log[i].len) = 1 + PayloadWords(log[i].len)
  BY <1>3, TotalFacts
<1>5. log[i].pos + k < producer
  <2>1. log[i].pos + Total(log[i].len) <= producer  BY <1>1 DEF LogInv
  <2>2. producer \in Nat  BY DEF TypeOK
  <2>3. QED  BY <1>3, <1>4, <2>1, <2>2
<1>6. consumer <= log[i].pos
  <2>1. consumer = log[passed + 1].pos  BY <1>1 DEF LogInv, EndOf
  <2>2. CASE i = passed + 1  BY <2>1, <2>2, <1>3
  <2>3. CASE passed + 1 < i
    <3>1. passed + 1 \in 1..Len(log)  BY <1>1, <2>3
    <3>2. log[passed + 1] \in LogEntries  BY <3>1 DEF TypeOK
    <3>3. Total(log[passed + 1].len) \in Nat /\ log[passed + 1].pos \in Nat
      BY <3>2, TotalFacts DEF LogEntries
    <3>4. EndOf(passed + 1) <= log[i].pos  BY <1>1, <2>3, <3>1 DEF LogInv
    <3>5. EndOf(passed + 1) = log[passed + 1].pos + Total(log[passed + 1].len)
      BY <3>1 DEF LogInv
    <3>6. QED  BY <2>1, <3>3, <3>4, <3>5, <1>3
  <2>4. QED  BY <2>2, <2>3, <1>1
<1>7. /\ consumer \in Nat /\ producer \in Nat /\ RingSize \in Nat
      /\ producer - consumer < RingSize
  BY RingAssumption DEF NeverOverrun, TypeOK
<1>8. k \in Nat  BY <1>4
<1>9. QED  BY <1>3, <1>5, <1>6, <1>7, <1>8 DEF At, InWindow

\* Two positions in the window are at different offsets.
LEMMA WindowDistinct ==
    ASSUME TypeOK, NEW x, NEW y, InWindow(x), InWindow(y), x # y
    PROVE  Off(x) # Off(y)
BY OffDistinct DEF InWindow, TypeOK

\* Different words of unread records are at different offsets.
LEMMA UnreadDistinct ==
    ASSUME TypeOK, NeverOverrun, LogInv,
           NEW i \in Unread, NEW k \in 0..PayloadWords(log[i].len),
           NEW j \in Unread, NEW l \in 0..PayloadWords(log[j].len),
           i # j \/ k # l
    PROVE  Off(At(i, k)) # Off(At(j, l))
<1>1. InWindow(At(i, k)) /\ InWindow(At(j, l))  BY UnreadRange
<1>2. i \in 1..Len(log) /\ j \in 1..Len(log)  BY DEF TypeOK, Unread
<1>3. log[i] \in LogEntries /\ log[j] \in LogEntries  BY <1>2 DEF TypeOK
<1>4. /\ log[i].pos \in Nat /\ log[j].pos \in Nat
      /\ PayloadWords(log[i].len) \in Nat /\ PayloadWords(log[j].len) \in Nat
      /\ Total(log[i].len) = 1 + PayloadWords(log[i].len)
      /\ Total(log[j].len) = 1 + PayloadWords(log[j].len)
  BY <1>3, TotalFacts DEF LogEntries
<1>5. At(i, k) # At(j, l)
  <2>1. CASE i = j  BY <2>1, <1>4 DEF At
  <2>2. CASE i < j
    <3>1. log[i].pos + Total(log[i].len) <= log[j].pos
      BY <2>2, <1>2 DEF LogInv
    <3>2. QED  BY <3>1, <1>4 DEF At
  <2>3. CASE j < i
    <3>1. log[j].pos + Total(log[j].len) <= log[i].pos
      BY <2>3, <1>2 DEF LogInv
    <3>2. QED  BY <3>1, <1>4 DEF At
  <2>4. QED  BY <2>1, <2>2, <2>3, <1>2
<1>6. QED  BY <1>1, <1>5, WindowDistinct

\* The word at the producer's position belongs to no unread record.
LEMMA FreshOffset ==
    ASSUME TypeOK, NeverOverrun, LogInv,
           NEW i \in Unread, NEW k \in 0..PayloadWords(log[i].len)
    PROVE  Off(At(i, k)) # Off(producer)
<1>1. InWindow(At(i, k)) /\ At(i, k) < producer  BY UnreadRange
<1>2. InWindow(producer)  BY DEF TypeOK, NeverOverrun, InWindow
<1>3. At(i, k) # producer  BY <1>1 DEF InWindow, TypeOK
<1>4. QED  BY <1>1, <1>2, <1>3, WindowDistinct

\* A producer that has not settled its reservation owns an unread record.
Unsettled(p) == Owning(p) \/ (pc[p] = "drop" /\ log[slot[p]].fate = "busy")

LEMMA OwnSlot ==
    ASSUME IInv, NEW p \in Producers, Unsettled(p)
    PROVE  /\ slot[p] \in Unread /\ slot[p] \in 1..Len(log)
           /\ log[slot[p]].pos = base[p] /\ log[slot[p]].len = want[p]
           /\ log[slot[p]].fate = "busy" /\ log[slot[p]].owner = p
           /\ want[p] < U32
<1>1. Mine(p) /\ log[slot[p]].fate = "busy"  BY DEF IInv, OwnerInv, Unsettled
<1>2. slot[p] \in 1..Len(log) /\ passed \in Nat /\ Len(log) \in Nat
  BY <1>1 DEF Mine, IInv, TypeOK
<1>3. ~(slot[p] \in 1..passed)  BY <1>1 DEF IInv, LogInv
<1>4. slot[p] \in Unread  BY <1>2, <1>3 DEF Unread
<1>5. log[slot[p]].len < U32  BY <1>2 DEF IInv, LogInv
<1>6. QED  BY <1>1, <1>2, <1>4, <1>5 DEF Mine

\* A producer that has discarded and not yet looked back is alone.
LEMMA DiscarderAlone ==
    ASSUME SafeDiscards, IInv, NEW q \in Producers, NEW p \in Producers,
           pc[q] = "drop", log[slot[q]].fate = "discarded"
    PROVE  p = q
<1>1. slot[q] \in 1..Len(log)  BY DEF IInv, OwnerInv, Mine
<1>2. Discarders # {}  BY <1>1 DEF IInv, LogInv
<1>3. QED  BY <1>2 DEF SafeDiscards

\* Only one producer is inside the lock.
LEMMA OneInLock ==
    ASSUME IInv, NEW p \in Producers, NEW q \in Producers, InLock(p), InLock(q)
    PROVE  p = q
BY DEF IInv, LockInv
-----------------------------------------------------------------------------
(* Steps of a producer that leave the ring and the log alone.               *)

Local(p) ==
    \/ \E len \in Lens : ReserveStart(p, len)
    \/ TryLock(p) \/ LockTimeout(p) \/ InsufficientSpace(p) \/ IncrementDropped(p)
    \/ Unlock(p) \/ StartDrop(p) \/ DropCheck(p) \/ Notify(p) \/ ManualNotify(p)
    \/ Crash(p)

LEMMA LocalUnchanged ==
    ASSUME NEW p \in Producers, Local(p)
    PROVE  UNCHANGED <<producer, consumer, data, log, passed, slot, base, filled, cpc, rlen>>
BY DEF Local, ReserveStart, TryLock, LockTimeout, InsufficientSpace, IncrementDropped,
       Unlock, StartDrop, DropCheck, Notify, ManualNotify, Crash,
       memVars, prodVars, consVars, histVars

LEMMA LocalShared ==
    ASSUME IInv, NEW p \in Producers, Local(p)
    PROVE  NeverOverrun' /\ LogInv' /\ UnreadIntact' /\ ConsumerInv'
<1>1. UNCHANGED <<producer, consumer, data, log, passed, slot, base, filled, cpc, rlen>>
  BY LocalUnchanged
<1>2. NeverOverrun' /\ ConsumerInv'  BY <1>1 DEF IInv, NeverOverrun, ConsumerInv
<1>3. LogInv'  BY <1>1 DEF IInv, LogInv, EndOf
<1>4. UnreadIntact'
  BY <1>1 DEF IInv, UnreadIntact, Unread, HeaderIntact, PayloadIntact, FlagsOf, Header,
              Payload, Off
<1>5. QED  BY <1>2, <1>3, <1>4

\* What the step makes of the lock and of the position it has seen.
LEMMA LocalLock ==
    ASSUME IInv, NEW p \in Producers, Local(p)
    PROVE  LockInv' /\ SeenInv'
<1> USE DEF IInv, TypeOK, LockInv, SeenInv, InLock, Goto, memVars, prodVars, consVars, histVars
<1>1. ASSUME NEW len \in Lens, ReserveStart(p, len) PROVE LockInv' /\ SeenInv'
  BY <1>1, SMTT(60) DEF ReserveStart
<1>2. CASE TryLock(p)  BY <1>2, RingAssumption DEF TryLock
<1>3. CASE LockTimeout(p)  BY <1>3 DEF LockTimeout
<1>4. CASE InsufficientSpace(p)  BY <1>4 DEF InsufficientSpace
<1>5. CASE IncrementDropped(p)  BY <1>5 DEF IncrementDropped
<1>6. CASE Unlock(p)  BY <1>6 DEF Unlock
<1>7. CASE StartDrop(p)  BY <1>7 DEF StartDrop
<1>8. CASE DropCheck(p)  BY <1>8 DEF DropCheck
<1>9. CASE Notify(p)  BY <1>9 DEF Notify
<1>10. CASE ManualNotify(p)  BY <1>10 DEF ManualNotify
<1>11. CASE Crash(p)  BY <1>11 DEF Crash
<1>12. QED
  BY <1>1, <1>2, <1>3, <1>4, <1>5, <1>6, <1>7, <1>8, <1>9, <1>10, <1>11 DEF Local

\* How the step moves the control: only three moves keep the reservation.
LEMMA LocalMoves ==
    ASSUME IInv, NEW p \in Producers, Local(p)
    PROVE  /\ \A q \in Producers : q # p => pc'[q] = pc[q] /\ want'[q] = want[q]
           /\ \/ pc'[p] \in {"lock", "space", "idle", "full", "notify", "dead"}
              \/ /\ want'[p] = want[p]
                 /\ \/ pc[p] = "unlock" /\ pc'[p] = "fill"
                    \/ /\ pc[p] = "fill" /\ pc'[p] = "drop"
                       /\ filled[p] = PayloadWords(want[p])
                    \/ /\ pc[p] = "drop" /\ pc'[p] = "commit"
                       /\ log[slot[p]].fate = "busy"
<1> DEFINE Goal ==
       /\ \A q \in Producers : q # p => pc'[q] = pc[q] /\ want'[q] = want[q]
       /\ \/ pc'[p] \in {"lock", "space", "idle", "full", "notify", "dead"}
          \/ /\ want'[p] = want[p]
             /\ \/ pc[p] = "unlock" /\ pc'[p] = "fill"
                \/ /\ pc[p] = "fill" /\ pc'[p] = "drop"
                   /\ filled[p] = PayloadWords(want[p])
                \/ /\ pc[p] = "drop" /\ pc'[p] = "commit"
                   /\ log[slot[p]].fate = "busy"
<1>0. pc \in [Producers -> PcValues] /\ want \in [Producers -> Nat]
  BY DEF IInv, TypeOK
<1> USE DEF Goto, prodVars
<1>1. ASSUME NEW len \in Lens, ReserveStart(p, len) PROVE Goal
  BY <1>0, <1>1 DEF ReserveStart
<1>2. CASE TryLock(p)  BY <1>0, <1>2 DEF TryLock
<1>3. CASE LockTimeout(p)  BY <1>0, <1>3 DEF LockTimeout
<1>4. CASE InsufficientSpace(p)  BY <1>0, <1>4 DEF InsufficientSpace
<1>5. CASE IncrementDropped(p)  BY <1>0, <1>5 DEF IncrementDropped
<1>6. CASE Unlock(p)  BY <1>0, <1>6 DEF Unlock
<1>7. CASE StartDrop(p)  BY <1>0, <1>7 DEF StartDrop
<1>8. CASE DropCheck(p)
  <2>1. PICK h \in AsHeader(data[Off(base[p])]) :
           /\ pc[p] = "drop"
           /\ pc' = [pc EXCEPT ![p] = IF "DISCARD" \in h.flags THEN "notify" ELSE "commit"]
    BY <1>8 DEF DropCheck
  <2>2. want' = want  BY <1>8 DEF DropCheck
  <2>3. CASE "DISCARD" \in h.flags  BY <1>0, <2>1, <2>2, <2>3
  <2>4. CASE "DISCARD" \notin h.flags
    <3>1. log[slot[p]].fate \in {"busy", "discarded"}
      BY <2>1 DEF IInv, OwnerInv
    <3>2. log[slot[p]].fate # "discarded"
      <4>1. SUFFICES ASSUME log[slot[p]].fate = "discarded" PROVE FALSE  OBVIOUS
      <4>2. data[Off(base[p])].hdr /\ "DISCARD" \in data[Off(base[p])].flags
        BY <2>1, <4>1 DEF IInv, DiscardInv
      <4>3. h = data[Off(base[p])]  BY <4>2 DEF AsHeader
      <4>4. QED  BY <4>2, <4>3, <2>4
    <3>3. QED  BY <1>0, <2>1, <2>2, <2>4, <3>1, <3>2
  <2>5. QED  BY <2>3, <2>4
<1>9. CASE Notify(p)  BY <1>0, <1>9 DEF Notify
<1>10. CASE ManualNotify(p)  BY <1>0, <1>10 DEF ManualNotify
<1>11. CASE Crash(p)  BY <1>0, <1>11 DEF Crash
<1>12. QED
  BY <1>1, <1>2, <1>3, <1>4, <1>5, <1>6, <1>7, <1>8, <1>9, <1>10, <1>11 DEF Local

LEMMA LocalOwner ==
    ASSUME IInv, NEW p \in Producers, Local(p)
    PROVE  AdvanceInv' /\ OwnerInv' /\ FillInv' /\ DiscardInv'
<1>1. /\ producer' = producer /\ consumer' = consumer /\ data' = data /\ log' = log
      /\ slot' = slot /\ base' = base /\ filled' = filled
  BY LocalUnchanged
<1> DEFINE Reserved == {"unlock", "fill", "commit", "drop", "advance"}
<1>2. ASSUME NEW q \in Producers, pc'[q] \in Reserved
      PROVE  /\ want'[q] = want[q]
             /\ \/ pc'[q] = pc[q]
                \/ pc[q] = "unlock" /\ pc'[q] = "fill"
                \/ pc[q] = "fill" /\ pc'[q] = "drop" /\ filled[q] = PayloadWords(want[q])
                \/ pc[q] = "drop" /\ pc'[q] = "commit" /\ log[slot[q]].fate = "busy"
  BY <1>2, LocalMoves
<1>3. AdvanceInv'  BY <1>1, <1>2 DEF IInv, AdvanceInv, Header, Off
<1>4. OwnerInv'  BY <1>1, <1>2 DEF IInv, OwnerInv, Owning, Mine
<1>5. FillInv'
  BY <1>1, <1>2 DEF IInv, FillInv, OwnerInv, Owning, PayloadWords, Payload, Off
<1>6. DiscardInv'  BY <1>1, <1>2 DEF IInv, DiscardInv, OwnerInv, Owning, Off
<1>7. QED  BY <1>3, <1>4, <1>5, <1>6

LEMMA InvLocal ==
    ASSUME IInv, NEW p \in Producers, Local(p) PROVE IInv'
<1>1. TypeOK'  BY TypeLocal DEF IInv, Local
<1>2. QED  BY <1>1, LocalShared, LocalLock, LocalOwner DEF IInv
-----------------------------------------------------------------------------
(* Writing a word of the ring.                                              *)

\* Headers and payloads of unread records, as words at their positions.
LEMMA UnreadWords ==
    ASSUME TypeOK, NEW i \in Unread
    PROVE  /\ i \in 1..Len(log) /\ log[i] \in LogEntries
           /\ log[i].pos = At(i, 0) /\ 0 \in 0..PayloadWords(log[i].len)
           /\ \A k \in 1..PayloadWords(log[i].len) :
                 /\ k \in 0..PayloadWords(log[i].len) /\ k # 0
                 /\ log[i].pos + k = At(i, k)
<1>1. i \in 1..Len(log)  BY DEF TypeOK, Unread
<1>2. log[i] \in LogEntries  BY <1>1 DEF TypeOK
<1>3. log[i].pos \in Nat /\ PayloadWords(log[i].len) \in Nat
  BY <1>2, TotalFacts DEF LogEntries
<1>4. QED  BY <1>1, <1>2, <1>3 DEF At

\* A write to a word of an unread record, or to the word at the producer's
\* position, leaves every other word of unread records alone.
LEMMA WriteOwn ==
    ASSUME IInv, NEW s \in Unread, NEW w \in 0..PayloadWords(log[s].len), NEW v,
           data' = [data EXCEPT ![Off(At(s, w))] = v]
    PROVE  /\ data'[Off(At(s, w))] = v
           /\ data'[Off(producer)] = data[Off(producer)]
           /\ \A i \in Unread : \A k \in 0..PayloadWords(log[i].len) :
                 i # s \/ k # w => data'[Off(At(i, k))] = data[Off(At(i, k))]
<1>1. data \in [0..(RingSize - 1) -> Words] /\ producer \in Nat  BY DEF IInv, TypeOK
<1>2. \A i \in Unread : \A k \in 0..PayloadWords(log[i].len) :
         Off(At(i, k)) \in 0..(RingSize - 1)
  BY UnreadRange, OffType DEF IInv, InWindow
<1>3. Off(producer) \in 0..(RingSize - 1)  BY <1>1, OffType
<1>4. Off(At(s, w)) # Off(producer)  BY FreshOffset DEF IInv
<1>5. \A i \in Unread : \A k \in 0..PayloadWords(log[i].len) :
         i # s \/ k # w => Off(At(i, k)) # Off(At(s, w))
  BY UnreadDistinct DEF IInv
<1>6. QED  BY <1>1, <1>2, <1>3, <1>4, <1>5

LEMMA WriteFresh ==
    ASSUME IInv, NEW v, data' = [data EXCEPT ![Off(producer)] = v]
    PROVE  /\ data'[Off(producer)] = v
           /\ \A i \in Unread : \A k \in 0..PayloadWords(log[i].len) :
                 data'[Off(At(i, k))] = data[Off(At(i, k))]
<1>1. data \in [0..(RingSize - 1) -> Words] /\ producer \in Nat  BY DEF IInv, TypeOK
<1>2. \A i \in Unread : \A k \in 0..PayloadWords(log[i].len) :
         Off(At(i, k)) \in 0..(RingSize - 1)
  BY UnreadRange, OffType DEF IInv, InWindow
<1>3. Off(producer) \in 0..(RingSize - 1)  BY <1>1, OffType
<1>4. \A i \in Unread : \A k \in 0..PayloadWords(log[i].len) :
         Off(At(i, k)) # Off(producer)
  BY FreshOffset DEF IInv
<1>5. QED  BY <1>1, <1>2, <1>3, <1>4

-----------------------------------------------------------------------------
LEMMA InvWriteHeader ==
    ASSUME SafeDiscards, IInv, NEW p \in Producers, WriteHeader(p)
    PROVE  IInv'
<1>1. TypeOK'  BY TypeWrite DEF IInv
<1>2. /\ pc[p] = "space" /\ pc' = [pc EXCEPT ![p] = "advance"]
      /\ data' = [data EXCEPT ![Off(producer)] = Header(want[p], {"BUSY"})]
      /\ base' = [base EXCEPT ![p] = producer]
      /\ lock' = lock /\ producer' = producer /\ consumer' = consumer /\ want' = want
      /\ seen' = seen /\ filled' = filled /\ cpc' = cpc /\ rlen' = rlen
      /\ log' = log /\ passed' = passed /\ slot' = slot
  BY DEF WriteHeader, Goto, consVars, histVars
<1>3. /\ data'[Off(producer)] = Header(want[p], {"BUSY"})
      /\ \A i \in Unread : \A k \in 0..PayloadWords(log[i].len) :
            data'[Off(At(i, k))] = data[Off(At(i, k))]
  BY <1>2, WriteFresh
<1>4. TypeOK /\ pc \in [Producers -> PcValues] /\ base \in [Producers -> Nat]
  BY DEF IInv, TypeOK
<1>5. \A q \in Producers : q # p => pc'[q] = pc[q] /\ base'[q] = base[q]
  BY <1>2, <1>4
<1>6. pc'[p] = "advance" /\ base'[p] = producer  BY <1>2, <1>4
<1>7. LockInv' /\ SeenInv' /\ NeverOverrun'
  BY <1>2, <1>4, <1>5, <1>6 DEF IInv, LockInv, InLock, SeenInv, NeverOverrun
<1>8. LogInv' /\ ConsumerInv'  BY <1>2 DEF IInv, LogInv, EndOf, ConsumerInv
<1>9. AdvanceInv'
  <2>1. ASSUME NEW q \in Producers, pc'[q] = "advance" PROVE q = p
    BY <1>2, <1>5, <2>1, OneInLock DEF InLock
  <2>2. want[p] \in Nat /\ Total(want[p]) \in Nat /\ producer \in Nat /\ consumer \in Nat
        /\ seen[p] \in Nat /\ RingSize \in Nat
    BY TotalFacts, RingAssumption DEF IInv, TypeOK
  <2>3. producer + Total(want[p]) - seen[p] <= RingSize - 1  BY DEF WriteHeader, Fits
  <2>4. seen[p] <= consumer /\ consumer <= producer  BY DEF IInv, SeenInv, NeverOverrun
  <2>5. producer + Total(want[p]) - consumer < RingSize /\ Total(want[p]) < RingSize
    BY <2>2, <2>3, <2>4
  <2>6. want[p] < U32  BY <2>2, <2>5, FittingLen
  <2>7. data'[Off(producer')] = Header(want'[p], {"BUSY"})  BY <1>2, <1>3 DEF Off, Header
  <2>8. QED  BY <1>2, <1>6, <2>1, <2>5, <2>6, <2>7 DEF AdvanceInv
<1>10. OwnerInv'
  BY <1>2, <1>5, <1>6 DEF IInv, OwnerInv, Owning, Mine
<1>11. FillInv'
  <2>1. SUFFICES ASSUME NEW q \in Producers, Unsettled(q)'
                 PROVE  /\ filled'[q] <= PayloadWords(want'[q])
                        /\ pc'[q] \in {"drop", "commit"} => filled'[q] = PayloadWords(want'[q])
                        /\ \A k \in 1..filled'[q] : data'[Off(base'[q] + k)] = Payload(base'[q])
    BY DEF FillInv, Unsettled, Off, Payload, PayloadWords
  <2>2. q # p  BY <2>1, <1>6 DEF Unsettled, Owning
  <2>3. Unsettled(q) /\ base'[q] = base[q] /\ pc'[q] = pc[q]
    BY <2>1, <2>2, <1>2, <1>5 DEF Unsettled, Owning
  <2>4. slot[q] \in Unread /\ log[slot[q]].pos = base[q] /\ log[slot[q]].len = want[q]
    BY <2>3, OwnSlot
  <2>5. /\ filled[q] <= PayloadWords(want[q])
        /\ pc[q] \in {"drop", "commit"} => filled[q] = PayloadWords(want[q])
        /\ \A k \in 1..filled[q] : data[Off(base[q] + k)] = Payload(base[q])
    BY <2>3 DEF IInv, FillInv, Unsettled
  <2>6. filled[q] \in Nat /\ want[q] \in Nat /\ PayloadWords(want[q]) \in Nat
    BY TotalFacts DEF IInv, TypeOK
  <2>7. \A k \in 1..filled[q] : data'[Off(base[q] + k)] = data[Off(base[q] + k)]
    BY <1>3, <2>4, <2>5, <2>6 DEF At
  <2>8. QED  BY <1>2, <2>3, <2>5, <2>7
<1>12. DiscardInv'
  <2>1. ASSUME NEW q \in Producers, pc'[q] = "drop", log'[slot'[q]].fate = "discarded"
        PROVE  FALSE
    <3>1. q # p  BY <2>1, <1>6
    <3>2. pc[q] = "drop" /\ log[slot[q]].fate = "discarded"  BY <2>1, <3>1, <1>2, <1>5
    <3>3. QED  BY <3>1, <3>2, DiscarderAlone
  <2>2. QED  BY <2>1 DEF DiscardInv
<1>13. UnreadIntact'
  <2>1. ASSUME NEW i \in Unread
        PROVE  /\ data'[Off(log[i].pos)] = data[Off(log[i].pos)]
               /\ \A k \in 1..PayloadWords(log[i].len) :
                     data'[Off(log[i].pos + k)] = data[Off(log[i].pos + k)]
    BY <1>3, <1>4, UnreadWords
  <2>2. QED
    BY <1>2, <2>1, SMTT(60) DEF IInv, UnreadIntact, Unread, HeaderIntact, PayloadIntact, Off,
                      Header, Payload, FlagsOf, PayloadWords
<1>14. QED
  BY <1>1, <1>7, <1>8, <1>9, <1>10, <1>11, <1>12, <1>13 DEF IInv

\* The part of FillInv about one producer, and that it survives a step that
\* leaves the words of its record alone.
Filled(q) ==
    /\ filled[q] <= PayloadWords(want[q])
    /\ pc[q] \in {"drop", "commit"} => filled[q] = PayloadWords(want[q])
    /\ \A k \in 1..filled[q] : data[Off(base[q] + k)] = Payload(base[q])

LEMMA FillInvForm == FillInv = \A q \in Producers : Unsettled(q) => Filled(q)
BY DEF FillInv, Unsettled, Filled

LEMMA FillKept ==
    ASSUME IInv, NEW q \in Producers, Unsettled(q),
           \A k \in 1..PayloadWords(log[slot[q]].len) :
              data'[Off(At(slot[q], k))] = data[Off(At(slot[q], k))],
           filled'[q] = filled[q], want'[q] = want[q], base'[q] = base[q], pc'[q] = pc[q]
    PROVE  Filled(q)'
<1>1. slot[q] \in Unread /\ log[slot[q]].pos = base[q] /\ log[slot[q]].len = want[q]
  BY OwnSlot
<1>2. Filled(q)  BY FillInvForm DEF IInv
<1>3. filled[q] \in Nat /\ want[q] \in Nat /\ PayloadWords(want[q]) \in Nat
  BY TotalFacts DEF IInv, TypeOK
<1>4. \A k \in 1..filled[q] : data'[Off(base[q] + k)] = data[Off(base[q] + k)]
  BY <1>1, <1>2, <1>3 DEF At, Filled
<1>5. QED  BY <1>2, <1>4 DEF Filled, Off, Payload, PayloadWords

-----------------------------------------------------------------------------
\* Publishing the reservation: the log grows by one busy record.
LEMMA InvAdvance ==
    ASSUME SafeDiscards, IInv, NEW p \in Producers, AdvanceProducer(p)
    PROVE  IInv'
<1> DEFINE n == Len(log) + 1
           new == [owner |-> p, pos |-> base[p], len |-> want[p], fate |-> "busy"]
<1>1. TypeOK'  BY TypeWrite DEF IInv
<1>2. /\ pc[p] = "advance" /\ pc' = [pc EXCEPT ![p] = "unlock"]
      /\ producer' = base[p] + Total(want[p])
      /\ filled' = [filled EXCEPT ![p] = 0]
      /\ log' = Append(log, new) /\ slot' = [slot EXCEPT ![p] = n]
      /\ lock' = lock /\ consumer' = consumer /\ data' = data /\ want' = want
      /\ seen' = seen /\ base' = base /\ cpc' = cpc /\ rlen' = rlen /\ passed' = passed
  BY DEF AdvanceProducer, Goto, consVars
<1>3. /\ base[p] = producer /\ want[p] < U32
      /\ producer + Total(want[p]) - consumer < RingSize
      /\ data[Off(producer)] = Header(want[p], {"BUSY"})
  BY <1>2 DEF IInv, AdvanceInv
<1>4. /\ pc \in [Producers -> PcValues] /\ filled \in [Producers -> Nat]
      /\ slot \in [Producers -> Nat] /\ producer \in Nat /\ consumer \in Nat
      /\ passed \in Nat /\ Len(log) \in Nat /\ log \in Seq(LogEntries)
      /\ RingSize \in Nat /\ want[p] \in Nat
  <2>1. TypeOK  BY DEF IInv
  <2>2. /\ pc \in [Producers -> PcValues] /\ filled \in [Producers -> Nat]
        /\ slot \in [Producers -> Nat] /\ producer \in Nat /\ consumer \in Nat
        /\ passed \in Nat /\ log \in Seq(LogEntries) /\ want \in [Producers -> Nat]
    BY <2>1 DEF TypeOK
  <2>3. Len(log) \in Nat  BY <2>2
  <2>4. QED  BY <2>2, <2>3, RingAssumption
<1>5. Total(want[p]) \in Nat /\ Total(want[p]) >= 1 /\ PayloadWords(want[p]) \in Nat
  <2>1. want[p] \in Nat  BY <1>4
  <2>2. Total(want[p]) = 1 + PayloadWords(want[p]) /\ PayloadWords(want[p]) \in Nat
    BY <2>1, TotalFacts
  <2>3. QED  BY <2>2
<1>6. /\ Len(log') = n /\ log'[n] = new
      /\ \A i \in 1..Len(log) : log'[i] = log[i]
  BY <1>2, <1>4
<1>7. \A q \in Producers : q # p => /\ pc'[q] = pc[q] /\ filled'[q] = filled[q]
                                    /\ slot'[q] = slot[q]
  BY <1>2, <1>4
<1>8. pc'[p] = "unlock" /\ filled'[p] = 0 /\ slot'[p] = n  BY <1>2, <1>4
<1>9. producer' = producer + Total(want[p]) /\ producer <= producer'
  BY <1>2, <1>3, <1>4, <1>5
<1>10. LockInv' /\ SeenInv' /\ NeverOverrun'
  BY <1>2, <1>3, <1>4, <1>5, <1>7, <1>8, <1>9, SMTT(60)
     DEF IInv, LockInv, InLock, SeenInv, NeverOverrun
<1>11. LogInv'
  <2>1. \A i \in 0..Len(log) : EndOf(i)' = EndOf(i)
    <3>1. SUFFICES ASSUME NEW i \in 0..Len(log) PROVE EndOf(i)' = EndOf(i)  OBVIOUS
    <3>2. CASE i < Len(log)  BY <3>2, <1>4, <1>6, SMTT(60) DEF EndOf
    <3>3. CASE i = Len(log)  BY <3>3, <1>3, <1>4, <1>6 DEF EndOf
    <3>4. QED  BY <3>2, <3>3, <1>4
  <2>2. \A i : i = n => EndOf(i)' = producer'  BY <1>4, <1>6 DEF EndOf
  <2>3. passed' <= Len(log') /\ consumer' = EndOf(passed)'
    <3>1. passed <= Len(log) /\ consumer = EndOf(passed)  BY DEF IInv, LogInv
    <3>2. EndOf(passed)' = EndOf(passed)  BY <1>2, <1>4, <2>1, <3>1
    <3>3. QED  BY <1>2, <1>4, <1>6, <3>1, <3>2
  <2>4. ASSUME NEW i \in 1..n
        PROVE  /\ EndOf(i)' = log'[i].pos + Total(log'[i].len)
               /\ EndOf(i)' <= producer'
               /\ log'[i].len < U32
    <3>1. CASE i \in 1..Len(log)
      <4>1. EndOf(i)' = EndOf(i) /\ log'[i] = log[i]  BY <3>1, <2>1, <1>4, <1>6
      <4>2. /\ EndOf(i) = log[i].pos + Total(log[i].len) /\ EndOf(i) <= producer
            /\ log[i].len < U32
        BY <3>1 DEF IInv, LogInv
      <4>3. log[i].pos + Total(log[i].len) \in Nat
        <5>1. log[i] \in LogEntries  BY <3>1, <1>4
        <5>2. log[i].pos \in Nat /\ log[i].len \in Nat  BY <5>1 DEF LogEntries
        <5>3. Total(log[i].len) \in Nat  BY <5>2, TotalFacts
        <5>4. QED  BY <5>2, <5>3
      <4>4. QED  BY <4>1, <4>2, <4>3, <1>4, <1>5, <1>9
    <3>2. CASE i = n
      <4>1. log'[i].pos = producer /\ log'[i].len = want[p]  BY <3>2, <1>3, <1>6
      <4>2. EndOf(i)' = producer'  BY <3>2, <2>2
      <4>3. producer' \in Nat  BY <1>4, <1>5, <1>9
      <4>4. QED  BY <4>1, <4>2, <4>3, <1>3, <1>9
    <3>3. QED  BY <3>1, <3>2, <1>4
  <2>5. ASSUME NEW i \in 1..n, NEW j \in 1..n, i < j
        PROVE  EndOf(i)' <= log'[j].pos
    <3>1. EndOf(i)' = EndOf(i) /\ i \in 1..Len(log)  BY <2>1, <2>5, <1>4
    <3>2. CASE j \in 1..Len(log)  BY <3>1, <3>2, <2>5, <1>6 DEF IInv, LogInv
    <3>3. CASE j = n
      <4>1. log'[j].pos = producer  BY <3>3, <1>3, <1>6
      <4>2. EndOf(i) <= producer  BY <3>1 DEF IInv, LogInv
      <4>3. QED  BY <3>1, <4>1, <4>2
    <3>4. QED  BY <3>2, <3>3, <1>4
  <2>6. \A i \in 1..passed : log'[i].fate # "busy"
    <3>1. passed <= Len(log) /\ \A i \in 1..passed : log[i].fate # "busy"
      BY DEF IInv, LogInv
    <3>2. \A i \in 1..passed : i \in 1..Len(log)  BY <1>4, <3>1
    <3>3. QED  BY <1>6, <3>1, <3>2
  <2>7. \A i \in 1..n : log'[i].fate = "discarded" => Discarders # {}
    <3>1. \A i \in 1..Len(log) : log'[i].fate = "discarded" => Discarders # {}
      BY <1>6 DEF IInv, LogInv
    <3>2. log'[n].fate # "discarded"  BY <1>6
    <3>3. QED  BY <3>1, <3>2, <1>4
  <2>8. QED  BY <2>3, <2>4, <2>5, <2>6, <2>7, <1>2, <1>6 DEF LogInv, Total, PayloadWords
<1>12. AdvanceInv'
  <2>1. ASSUME NEW q \in Producers, pc'[q] = "advance" PROVE FALSE
    <3>1. q # p /\ pc[q] = "advance"  BY <2>1, <1>7, <1>8
    <3>2. QED  BY <3>1, <1>2, OneInLock DEF InLock
  <2>2. QED  BY <2>1 DEF AdvanceInv
<1>13. OwnerInv'
  <2>1. Mine(p)' /\ log'[slot'[p]].fate = "busy"
    BY <1>2, <1>4, <1>6, <1>8 DEF Mine
  <2>2. ASSUME NEW q \in Producers, q # p, Mine(q)
        PROVE  Mine(q)' /\ log'[slot'[q]] = log[slot[q]]
    BY <2>2, <1>2, <1>4, <1>6, <1>7 DEF Mine
  <2>3. QED  BY <2>1, <2>2, <1>7, <1>8 DEF IInv, OwnerInv, Owning
<1>14. FillInv'
  <2>1. SUFFICES ASSUME NEW q \in Producers, Unsettled(q)' PROVE Filled(q)'
    BY FillInvForm DEF FillInv, Unsettled, Filled
  <2>2. CASE q = p  BY <2>2, <1>2, <1>5, <1>8 DEF Filled, PayloadWords
  <2>3. CASE q # p
    <3>1. pc'[q] = "drop" => log'[slot'[q]] = log[slot[q]]
      BY <2>3, <1>6, <1>7 DEF IInv, OwnerInv, Mine
    <3>2. Unsettled(q)  BY <2>1, <2>3, <3>1, <1>7 DEF Unsettled, Owning
    <3>3. QED  BY <2>3, <3>2, <1>2, <1>7, FillKept
  <2>4. QED  BY <2>2, <2>3
<1>15. DiscardInv'
  <2>1. ASSUME NEW q \in Producers, pc'[q] = "drop", log'[slot'[q]].fate = "discarded"
        PROVE  FALSE
    <3>1. q # p /\ pc[q] = "drop"  BY <2>1, <1>7, <1>8
    <3>2. log'[slot'[q]] = log[slot[q]]  BY <3>1, <1>6, <1>7 DEF IInv, OwnerInv, Mine
    <3>3. QED  BY <2>1, <3>1, <3>2, DiscarderAlone
  <2>2. QED  BY <2>1 DEF DiscardInv
<1>16. UnreadIntact'
  <2>1. ASSUME NEW i \in Unread
        PROVE  (HeaderIntact(log[i]) /\ (log[i].fate = "committed" => PayloadIntact(log[i])))'
    <3>1. log'[i] = log[i]  BY <1>4, <1>6 DEF Unread
    <3>2. HeaderIntact(log[i]) /\ (log[i].fate = "committed" => PayloadIntact(log[i]))
      BY DEF IInv, UnreadIntact
    <3>3. QED
      BY <3>1, <3>2, <1>2 DEF HeaderIntact, PayloadIntact, Off, Header, Payload, FlagsOf,
                              PayloadWords
  <2>2. HeaderIntact(log'[n]) /\ log'[n].fate # "committed"
    BY <1>3, <1>6 DEF HeaderIntact, FlagsOf, Off, Header
  <2>3. Unread' = Unread \cup {n}
    BY <1>2, <1>4, <1>6 DEF Unread, IInv, LogInv
  <2>4. ASSUME NEW i \in Unread'
        PROVE  (HeaderIntact(log[i]) /\ (log[i].fate = "committed" => PayloadIntact(log[i])))'
    <3>1. CASE i \in Unread  BY <2>1, <3>1
    <3>2. CASE i = n  BY <2>2, <3>2, <1>2 DEF HeaderIntact, FlagsOf, Off, Header
    <3>3. QED  BY <2>3, <2>4, <3>1, <3>2
  <2>5. QED  BY <2>4 DEF UnreadIntact
<1>17. ConsumerInv'
  BY <1>2, <1>4, <1>5, <1>6, <1>9, SMTT(60) DEF IInv, ConsumerInv
<1>18. QED
  BY <1>1, <1>10, <1>11, <1>12, <1>13, <1>14, <1>15, <1>16, <1>17 DEF IInv
-----------------------------------------------------------------------------
\* Filling writes a payload word of the producer's own busy record.
LEMMA InvFill ==
    ASSUME SafeDiscards, IInv, NEW p \in Producers, FillWord(p)
    PROVE  IInv'
<1> DEFINE s == slot[p]
           w == filled[p] + 1
<1>1. TypeOK'  BY TypeWrite DEF IInv
<1>2. /\ pc[p] = "fill" /\ filled[p] < PayloadWords(want[p])
      /\ data' = [data EXCEPT ![Off(base[p] + 1 + filled[p])] = Payload(base[p])]
      /\ filled' = [filled EXCEPT ![p] = @ + 1]
      /\ lock' = lock /\ producer' = producer /\ consumer' = consumer /\ pc' = pc
      /\ want' = want /\ seen' = seen /\ base' = base /\ cpc' = cpc /\ rlen' = rlen
      /\ log' = log /\ passed' = passed /\ slot' = slot
  BY DEF FillWord, consVars, histVars
<1>3. Unsettled(p)  BY <1>2 DEF Unsettled, Owning
<1>4. /\ s \in Unread /\ s \in 1..Len(log) /\ log[s].pos = base[p]
      /\ log[s].len = want[p] /\ log[s].fate = "busy" /\ log[s].owner = p
  BY <1>3, OwnSlot
<1>5. base[p] \in Nat /\ filled[p] \in Nat /\ want[p] \in Nat
      /\ filled \in [Producers -> Nat] /\ TypeOK
  BY DEF IInv, TypeOK
<1>6. PayloadWords(want[p]) \in Nat /\ PayloadWords(log[s].len) = PayloadWords(want[p])
  BY <1>4, <1>5, TotalFacts
<1>7. w \in 0..PayloadWords(log[s].len) /\ w # 0 /\ At(s, w) = base[p] + 1 + filled[p]
  <2>1. w \in 0..PayloadWords(log[s].len) /\ w # 0  BY <1>2, <1>5, <1>6
  <2>2. At(s, w) = base[p] + w  BY <1>4 DEF At
  <2>3. QED  BY <2>1, <2>2, <1>5
<1>8. data' = [data EXCEPT ![Off(At(s, w))] = Payload(base[p])]  BY <1>2, <1>7
<1>9. /\ data'[Off(At(s, w))] = Payload(base[p])
      /\ data'[Off(producer)] = data[Off(producer)]
      /\ \A i \in Unread : \A k \in 0..PayloadWords(log[i].len) :
            i # s \/ k # w => data'[Off(At(i, k))] = data[Off(At(i, k))]
  BY <1>4, <1>7, <1>8, WriteOwn
<1>10. LockInv' /\ SeenInv' /\ NeverOverrun' /\ LogInv' /\ OwnerInv' /\ ConsumerInv'
  BY <1>2 DEF IInv, LockInv, InLock, SeenInv, NeverOverrun, LogInv, EndOf, OwnerInv,
              Owning, Mine, ConsumerInv
<1>11. AdvanceInv'  BY <1>2, <1>9 DEF IInv, AdvanceInv, Off, Header
<1>12. FillInv'
  <2>1. SUFFICES ASSUME NEW q \in Producers, Unsettled(q)' PROVE Filled(q)'
    BY DEF FillInv, Unsettled, Filled
  <2>2. Unsettled(q)  BY <2>1, <1>2 DEF Unsettled, Owning
  <2>3. CASE q = p
    <3>1. Filled(p)  BY <1>3, FillInvForm DEF IInv
    <3>2. filled'[p] = w  BY <1>2, <1>5
    <3>3. ASSUME NEW k \in 1..w PROVE data'[Off(base[p] + k)] = Payload(base[p])
      <4>1. CASE k = w  BY <4>1, <1>5, <1>7, <1>9
      <4>2. CASE k # w
        <5>1. k \in 1..filled[p] /\ k \in 0..PayloadWords(log[s].len)
          BY <4>2, <1>5, <1>6, <1>7
        <5>2. data'[Off(At(s, k))] = data[Off(At(s, k))]  BY <4>2, <5>1, <1>4, <1>9
        <5>3. data[Off(base[p] + k)] = Payload(base[p])  BY <3>1, <5>1 DEF Filled
        <5>4. QED  BY <5>2, <5>3, <1>4 DEF At
      <4>3. QED  BY <4>1, <4>2
    <3>4. w <= PayloadWords(want[p])  BY <1>2, <1>5, <1>6
    <3>5. QED  BY <2>3, <3>2, <3>3, <3>4, <1>2 DEF Filled, PayloadWords, Payload, Off
  <2>4. CASE q # p
    <3>1. slot[q] \in Unread /\ log[slot[q]].owner = q  BY <2>2, OwnSlot
    <3>2. slot[q] # s  BY <3>1, <2>4, <1>4
    <3>3. PayloadWords(log[slot[q]].len) \in Nat
      BY <3>1, <1>5, UnreadWords, TotalFacts DEF LogEntries
    <3>4. \A k \in 1..PayloadWords(log[slot[q]].len) :
             data'[Off(At(slot[q], k))] = data[Off(At(slot[q], k))]
      BY <3>1, <3>2, <3>3, <1>9
    <3>5. filled'[q] = filled[q]  BY <2>4, <1>2, <1>5
    <3>6. QED  BY <2>2, <3>4, <3>5, <1>2, FillKept
  <2>5. QED  BY <2>3, <2>4
<1>13. DiscardInv'
  <2>1. ASSUME NEW q \in Producers, pc'[q] = "drop", log'[slot'[q]].fate = "discarded"
        PROVE  FALSE
    <3>1. pc[q] = "drop" /\ log[slot[q]].fate = "discarded"  BY <2>1, <1>2
    <3>2. p = q  BY <3>1, DiscarderAlone
    <3>3. QED  BY <3>1, <3>2, <1>2
  <2>2. QED  BY <2>1 DEF DiscardInv
<1>14. UnreadIntact'
  <2>1. ASSUME NEW i \in Unread
        PROVE  /\ data'[Off(log[i].pos)] = data[Off(log[i].pos)]
               /\ i # s => \A k \in 1..PayloadWords(log[i].len) :
                              data'[Off(log[i].pos + k)] = data[Off(log[i].pos + k)]
    BY <1>5, <1>7, <1>9, UnreadWords
  <2>2. QED
    BY <1>2, <1>4, <2>1
       DEF IInv, UnreadIntact, Unread, HeaderIntact, PayloadIntact, Off, Header, Payload,
           FlagsOf, PayloadWords
<1>15. QED
  BY <1>1, <1>10, <1>11, <1>12, <1>13, <1>14 DEF IInv

-----------------------------------------------------------------------------
(* Settling a reservation: commit and discard.                              *)

\* The owner of a busy record reads its own header back.
LEMMA OwnHeader ==
    ASSUME IInv, NEW p \in Producers, Owning(p), NEW h \in AsHeader(data[Off(base[p])])
    PROVE  h.len = want[p]
<1>1. /\ slot[p] \in Unread /\ log[slot[p]].pos = base[p] /\ log[slot[p]].len = want[p]
      /\ log[slot[p]].fate = "busy" /\ want[p] < U32
  BY OwnSlot DEF Unsettled
<1>2. data[Off(base[p])] = Header(want[p], {"BUSY"})
  BY <1>1 DEF IInv, UnreadIntact, HeaderIntact, FlagsOf
<1>3. want[p] \in Nat /\ {"BUSY"} \in SUBSET FlagBits  BY DEF IInv, TypeOK, FlagBits
<1>4. data[Off(base[p])].hdr /\ data[Off(base[p])].len = want[p]
  BY <1>1, <1>2, <1>3, HeaderFacts
<1>5. QED  BY <1>4 DEF AsHeader

SettleHeader(p, fate) ==
    data' = [data EXCEPT ![Off(base[p])] = Header(want[p], FlagsOf(fate))]

LEMMA InvSettle ==
    ASSUME SafeDiscards, IInv, NEW p \in Producers, Owning(p),
           NEW fate \in {"committed", "discarded"}, Settle(p, fate),
           SettleHeader(p, fate),
           pc' = [pc EXCEPT ![p] = IF fate = "discarded" THEN "drop" ELSE "notify"],
           fate = "discarded" => p \in Discarders,
           fate = "committed" => filled[p] = PayloadWords(want[p]),
           UNCHANGED <<lock, producer, consumer, want, seen, base, filled, cpc, rlen,
                       passed, slot>>
    PROVE  TypeOK' => IInv'
<1> DEFINE s == slot[p]
<1>1. /\ s \in Unread /\ s \in 1..Len(log) /\ log[s].pos = base[p]
      /\ log[s].len = want[p] /\ log[s].fate = "busy" /\ log[s].owner = p
      /\ want[p] < U32 /\ Unsettled(p)
  BY OwnSlot DEF Unsettled
<1>2. /\ Len(log') = Len(log)
      /\ \A i \in 1..Len(log) :
            /\ log'[i].owner = log[i].owner
            /\ log'[i].pos = log[i].pos
            /\ log'[i].len = log[i].len
            /\ i # s => log'[i] = log[i]
            /\ i = s => log'[i].fate = fate
  BY <1>1, SettleFacts DEF IInv
<1>3. /\ TypeOK /\ pc \in [Producers -> PcValues] /\ Len(log) \in Nat /\ passed \in Nat
      /\ base[p] \in Nat /\ want[p] \in Nat /\ filled[p] \in Nat
  <2>1. TypeOK  BY DEF IInv
  <2>2. /\ pc \in [Producers -> PcValues] /\ log \in Seq(LogEntries) /\ passed \in Nat
        /\ base \in [Producers -> Nat] /\ want \in [Producers -> Nat] /\ filled \in [Producers -> Nat]
    BY <2>1 DEF TypeOK
  <2>3. Len(log) \in Nat  BY <2>2
  <2>4. QED  BY <2>1, <2>2, <2>3
<1>4. 0 \in 0..PayloadWords(log[s].len) /\ At(s, 0) = base[p]
  BY <1>1, <1>3, UnreadWords
<1>5. data' = [data EXCEPT ![Off(At(s, 0))] = Header(want[p], FlagsOf(fate))]
  BY <1>4 DEF SettleHeader
<1>6. /\ data'[Off(At(s, 0))] = Header(want[p], FlagsOf(fate))
      /\ data'[Off(producer)] = data[Off(producer)]
      /\ \A i \in Unread : \A k \in 0..PayloadWords(log[i].len) :
            i # s \/ k # 0 => data'[Off(At(i, k))] = data[Off(At(i, k))]
  BY <1>1, <1>4, <1>5, WriteOwn
<1>7. \A q \in Producers : q # p => pc'[q] = pc[q]  BY <1>3
<1>8. /\ pc'[p] \in {"drop", "notify"}
      /\ pc'[p] = "drop" => fate = "discarded"
  BY <1>3
<1>9. LockInv' /\ SeenInv' /\ NeverOverrun'
  BY <1>7, <1>8 DEF IInv, LockInv, InLock, SeenInv, NeverOverrun
<1>10. LogInv'
  <2>1. \A i \in 0..Len(log) : EndOf(i)' = EndOf(i)
    BY <1>2, <1>3 DEF EndOf
  <2>2. passed' <= Len(log') /\ consumer' = EndOf(passed)'
    BY <1>2, <1>3, <2>1 DEF IInv, LogInv
  <2>3. ASSUME NEW i \in 1..Len(log)
        PROVE  /\ EndOf(i)' = log'[i].pos + Total(log'[i].len)
               /\ EndOf(i)' <= producer'
               /\ log'[i].len < U32
    <3>1. EndOf(i)' = EndOf(i)  BY <1>3, <2>1
    <3>2. QED  BY <3>1, <1>2 DEF IInv, LogInv
  <2>4. ASSUME NEW i \in 1..Len(log), NEW j \in 1..Len(log), i < j
        PROVE  EndOf(i)' <= log'[j].pos
    <3>1. EndOf(i)' = EndOf(i)  BY <1>3, <2>1
    <3>2. QED  BY <2>4, <3>1, <1>2 DEF IInv, LogInv
  <2>5. \A i \in 1..passed : log'[i].fate # "busy"
    BY <1>1, <1>2, <1>3 DEF IInv, LogInv, Unread
  <2>6. \A i \in 1..Len(log) : log'[i].fate = "discarded" => Discarders # {}
    BY <1>2 DEF IInv, LogInv
  <2>7. QED  BY <2>2, <2>3, <2>4, <2>5, <2>6, <1>2 DEF LogInv, Total, PayloadWords
<1>11. AdvanceInv'
  BY <1>6, <1>7, <1>8 DEF IInv, AdvanceInv, Off, Header
<1>12. ASSUME NEW q \in Producers, q # p, Mine(q), log[slot[q]].owner = q
       PROVE  Mine(q)' /\ log'[slot'[q]] = log[slot[q]]
  <2>1. slot[q] # s /\ slot[q] \in 1..Len(log)  BY <1>1, <1>12 DEF Mine
  <2>2. log'[slot[q]] = log[slot[q]]  BY <2>1, <1>2
  <2>3. QED  BY <2>1, <2>2, <1>2, <1>12 DEF Mine
<1>13. OwnerInv'
  <2>1. ASSUME NEW q \in Producers, q # p
        PROVE  /\ Owning(q)' => Mine(q)' /\ log'[slot'[q]].fate = "busy"
               /\ pc'[q] = "drop" => Mine(q)' /\ log'[slot'[q]].fate \in {"busy", "discarded"}
    BY <1>7, <1>12, <2>1 DEF IInv, OwnerInv, Owning, Mine
  <2>2. ~Owning(p)'  BY <1>8 DEF Owning
  <2>3. pc'[p] = "drop" => Mine(p)' /\ log'[s].fate \in {"busy", "discarded"}
    BY <1>1, <1>2, <1>8 DEF Mine
  <2>4. QED  BY <2>1, <2>2, <2>3 DEF OwnerInv
<1>14. FillInv'
  <2>1. SUFFICES ASSUME NEW q \in Producers, Unsettled(q)' PROVE Filled(q)'
    BY DEF FillInv, Unsettled, Filled
  <2>2. q # p  BY <2>1, <1>1, <1>2, <1>8 DEF Unsettled, Owning
  <2>3. pc'[q] = "drop" => log'[slot'[q]] = log[slot[q]]
    BY <1>7, <1>12, <2>2 DEF IInv, OwnerInv, Mine
  <2>4. Unsettled(q)  BY <2>1, <2>2, <2>3, <1>7 DEF Unsettled, Owning
  <2>5. slot[q] \in Unread /\ log[slot[q]].owner = q  BY <2>4, OwnSlot
  <2>6. PayloadWords(log[slot[q]].len) \in Nat
    BY <2>5, <1>3, UnreadWords, TotalFacts DEF LogEntries
  <2>7. \A k \in 1..PayloadWords(log[slot[q]].len) :
           data'[Off(At(slot[q], k))] = data[Off(At(slot[q], k))]
    BY <2>5, <2>6, <1>6
  <2>8. QED  BY <2>2, <2>4, <2>7, <1>7, FillKept
<1>15. DiscardInv'
  <2>1. ASSUME NEW q \in Producers, pc'[q] = "drop", log'[slot'[q]].fate = "discarded"
        PROVE  q = p
    <3>1. SUFFICES ASSUME q # p PROVE FALSE  OBVIOUS
    <3>2. pc[q] = "drop"  BY <2>1, <3>1, <1>7
    <3>3. log'[slot'[q]] = log[slot[q]]  BY <3>1, <3>2, <1>12 DEF IInv, OwnerInv, Mine
    <3>4. QED  BY <2>1, <3>1, <3>2, <3>3, DiscarderAlone
  <2>2. ASSUME pc'[p] = "drop"
        PROVE  data'[Off(base[p])].hdr /\ "DISCARD" \in data'[Off(base[p])].flags
    <3>1. fate = "discarded"  BY <2>2, <1>8
    <3>2. data'[Off(base[p])] = Header(want[p], {"DISCARD"})
      BY <3>1, <1>4, <1>6 DEF FlagsOf
    <3>3. {"DISCARD"} \in SUBSET FlagBits  BY DEF FlagBits
    <3>4. QED  BY <3>2, <3>3, <1>3, HeaderFacts
  <2>3. QED  BY <2>1, <2>2 DEF DiscardInv, Off
<1>16. UnreadIntact'
  <2>1. Unread' = Unread  BY <1>2 DEF Unread
  <2>2. ASSUME NEW i \in Unread
        PROVE  (HeaderIntact(log[i]) /\ (log[i].fate = "committed" => PayloadIntact(log[i])))'
    <3>1. /\ i \in 1..Len(log) /\ log[i].pos = At(i, 0) /\ 0 \in 0..PayloadWords(log[i].len)
          /\ \A k \in 1..PayloadWords(log[i].len) :
                data'[Off(log[i].pos + k)] = data[Off(log[i].pos + k)]
      BY <1>3, <1>6, UnreadWords
    <3>2. CASE i = s
      <4>1. /\ log'[i].pos = base[p] /\ log'[i].len = want[p] /\ log'[i].fate = fate
        BY <3>2, <1>1, <1>2
      <4>2. HeaderIntact(log[i])'
        BY <4>1, <1>4, <1>6 DEF HeaderIntact, Off, Header, FlagsOf
      <4>3. ASSUME fate = "committed" PROVE PayloadIntact(log[i])'
        <5>1. Filled(p)  BY <1>1, FillInvForm DEF IInv
        <5>2. \A k \in 1..PayloadWords(want[p]) : data[Off(base[p] + k)] = Payload(base[p])
          BY <4>3, <5>1 DEF Filled
        <5>3. \A k \in 1..PayloadWords(want[p]) : data'[Off(base[p] + k)] = Payload(base[p])
          BY <5>2, <3>1, <3>2, <1>1
        <5>4. QED  BY <4>1, <5>3 DEF PayloadIntact, Off, Payload, PayloadWords
      <4>4. QED  BY <4>1, <4>2, <4>3
    <3>3. CASE i # s
      <4>1. log'[i] = log[i]  BY <3>1, <3>3, <1>2
      <4>2. HeaderIntact(log[i]) /\ (log[i].fate = "committed" => PayloadIntact(log[i]))
        BY DEF IInv, UnreadIntact
      <4>3. data'[Off(log[i].pos)] = data[Off(log[i].pos)]  BY <3>1, <3>3, <1>6
      <4>4. HeaderIntact(log[i])'
        BY <4>1, <4>2, <4>3 DEF HeaderIntact, Off, Header, FlagsOf
      <4>5. log[i].fate = "committed" => PayloadIntact(log[i])'
        BY <4>1, <4>2, <3>1 DEF PayloadIntact, Off, Payload, PayloadWords
      <4>6. QED  BY <4>1, <4>4, <4>5
    <3>4. QED  BY <3>2, <3>3
  <2>3. QED  BY <2>1, <2>2 DEF UnreadIntact
<1>17. ConsumerInv'
  <2>1. cpc = "record" => passed + 1 \in 1..Len(log) /\ passed + 1 # s
    BY <1>1, <1>3 DEF IInv, ConsumerInv
  <2>2. QED  BY <2>1, <1>2 DEF IInv, ConsumerInv
<1>18. QED
  BY <1>9, <1>10, <1>11, <1>13, <1>14, <1>15, <1>16, <1>17 DEF IInv

LEMMA InvDiscard ==
    ASSUME SafeDiscards, IInv, NEW p \in Producers, Discard(p)
    PROVE  IInv'
<1>1. TypeOK'  BY TypeWrite DEF IInv
<1>2. Owning(p)  BY DEF Discard, Goto, Owning
<1>3. PICK h \in AsHeader(data[Off(base[p])]) :
         data' = [data EXCEPT ![Off(base[p])] = Header(h.len, {"DISCARD"})]
  BY DEF Discard
<1>4. h.len = want[p]  BY <1>2, OwnHeader
<1>5. FlagsOf("discarded") = {"DISCARD"}  BY DEF FlagsOf
<1>6. SettleHeader(p, "discarded")  BY <1>3, <1>4, <1>5 DEF SettleHeader
<1>7. /\ Settle(p, "discarded") /\ pc' = [pc EXCEPT ![p] = "drop"] /\ p \in Discarders
      /\ UNCHANGED <<lock, producer, consumer, want, seen, base, filled, cpc, rlen,
                     passed, slot>>
  BY DEF Discard, Goto, consVars
<1>8. QED  BY <1>1, <1>2, <1>6, <1>7, InvSettle

LEMMA InvCommit ==
    ASSUME SafeDiscards, IInv, NEW p \in Producers, Commit(p)
    PROVE  IInv'
<1>1. TypeOK'  BY TypeWrite DEF IInv
<1>2. pc[p] = "commit" /\ Owning(p)  BY DEF Commit, Goto, Owning
<1>3. PICK h \in AsHeader(data[Off(base[p])]) :
         data' = [data EXCEPT ![Off(base[p])] = Header(h.len, {})]
  BY DEF Commit
<1>4. h.len = want[p]  BY <1>2, OwnHeader
<1>5. FlagsOf("committed") = {}  BY DEF FlagsOf
<1>6. SettleHeader(p, "committed")  BY <1>3, <1>4, <1>5 DEF SettleHeader
<1>7. /\ Settle(p, "committed") /\ pc' = [pc EXCEPT ![p] = "notify"]
      /\ UNCHANGED <<lock, producer, consumer, want, seen, base, filled, cpc, rlen,
                     passed, slot>>
  BY DEF Commit, Goto, consVars
<1>8. filled[p] = PayloadWords(want[p])  BY <1>2 DEF IInv, FillInv
<1>9. QED  BY <1>1, <1>2, <1>6, <1>7, <1>8, InvSettle
-----------------------------------------------------------------------------
(* The consumer.                                                            *)

\* A step that moves at most the consumer's control.
LEMMA InvStay ==
    ASSUME IInv,
           UNCHANGED <<lock, producer, consumer, data, pc, want, seen, base, filled, log,
                       passed, slot>>
    PROVE  TypeOK' /\ ConsumerInv' => IInv'
<1>1. LockInv' /\ SeenInv' /\ NeverOverrun'
  BY DEF IInv, LockInv, InLock, SeenInv, NeverOverrun
<1>2. LogInv'  BY DEF IInv, LogInv, EndOf
<1>3. AdvanceInv' /\ DiscardInv'  BY DEF IInv, AdvanceInv, DiscardInv, Off, Header
<1>4. OwnerInv'  BY DEF IInv, OwnerInv, Owning, Mine
<1>5. FillInv'  BY DEF IInv, FillInv, Owning, Off, Payload, PayloadWords
<1>6. UnreadIntact'
  BY DEF IInv, UnreadIntact, Unread, HeaderIntact, PayloadIntact, FlagsOf, Header, Payload,
         Off, PayloadWords
<1>7. QED  BY <1>1, <1>2, <1>3, <1>4, <1>5, <1>6 DEF IInv

\* The record at the consumer's position.
LEMMA HeadRecord ==
    ASSUME IInv, passed < Len(log)
    PROVE  /\ passed + 1 \in Unread /\ passed + 1 \in 1..Len(log)
           /\ log[passed + 1] \in LogEntries
           /\ consumer = log[passed + 1].pos
           /\ EndOf(passed + 1) = consumer + Total(log[passed + 1].len)
           /\ EndOf(passed + 1) <= producer
           /\ log[passed + 1].len < U32
<1>1. passed \in Nat /\ Len(log) \in Nat /\ log \in Seq(LogEntries)  BY DEF IInv, TypeOK
<1>2. passed + 1 \in 1..Len(log) /\ passed + 1 \in Unread  BY <1>1 DEF Unread
<1>3. log[passed + 1] \in LogEntries  BY <1>1, <1>2
<1>4. consumer = log[passed + 1].pos  BY DEF IInv, LogInv, EndOf
<1>5. QED  BY <1>2, <1>3, <1>4 DEF IInv, LogInv

\* What the consumer reads as a header is the header of that record.
LEMMA HeadHeader ==
    ASSUME IInv, passed < Len(log), NEW h \in AsHeader(data[Off(consumer)])
    PROVE  /\ h.len = log[passed + 1].len
           /\ h.flags = FlagsOf(log[passed + 1].fate)
<1> DEFINE r == log[passed + 1]
<1>1. r \in LogEntries /\ consumer = r.pos /\ r.len < U32  BY HeadRecord
<1>2. data[Off(consumer)] = Header(r.len, FlagsOf(r.fate))
  BY HeadRecord DEF IInv, UnreadIntact, HeaderIntact
<1>3. FlagsOf(r.fate) \in SUBSET FlagBits /\ r.len \in Nat
  BY <1>1 DEF LogEntries, FlagsOf, FlagBits
<1> HIDE DEF r
<1>4. /\ Header(r.len, FlagsOf(r.fate)).hdr
      /\ Header(r.len, FlagsOf(r.fate)).len = r.len
      /\ Header(r.len, FlagsOf(r.fate)).flags = FlagsOf(r.fate)
  BY <1>1, <1>3, HeaderFacts
<1>5. h = data[Off(consumer)]  BY <1>2, <1>4 DEF AsHeader
<1>6. QED  BY <1>2, <1>4, <1>5 DEF r

\* Passing the record at the head: after a discard, or when it is dropped.
LEMMA InvPass ==
    ASSUME IInv, passed < Len(log), log[passed + 1].fate # "busy",
           consumer' = consumer + Total(log[passed + 1].len), passed' = passed + 1,
           cpc' = "start",
           UNCHANGED <<lock, producer, data, pc, want, seen, base, filled, log, slot>>
    PROVE  TypeOK' => IInv'
<1> DEFINE r == log[passed + 1]
<1>1. /\ consumer' = EndOf(passed + 1) /\ EndOf(passed + 1) <= producer
      /\ passed + 1 \in 1..Len(log) /\ r \in LogEntries
  BY HeadRecord
<1>2. /\ consumer \in Nat /\ producer \in Nat /\ passed \in Nat /\ Len(log) \in Nat
      /\ RingSize \in Nat
  BY RingAssumption DEF IInv, TypeOK
<1>3. Total(r.len) \in Nat
  <2>1. r.len \in Nat  BY <1>1 DEF LogEntries
  <2>2. QED  BY <2>1, TotalFacts
<1>4. consumer' \in Nat /\ consumer <= consumer' /\ consumer' <= producer
  BY <1>1, <1>2, <1>3
<1>5. LockInv' /\ OwnerInv' /\ DiscardInv'
  BY DEF IInv, LockInv, InLock, OwnerInv, Owning, Mine, DiscardInv, Off
<1>6. SeenInv'
  <2>1. \A p \in Producers : seen[p] \in Nat /\ seen[p] <= consumer  BY DEF IInv, TypeOK, SeenInv
  <2>2. QED  BY <2>1, <1>2, <1>4 DEF SeenInv
<1>7. NeverOverrun'  BY <1>2, <1>4 DEF IInv, NeverOverrun
<1>8. LogInv'
  <2>1. \A i : EndOf(i)' = EndOf(i)  BY DEF EndOf
  <2>3. \A i \in 1..(passed + 1) : log[i].fate # "busy"  BY <1>2 DEF IInv, LogInv
  <2>4. passed' <= Len(log)  BY <1>2
  <2>5. /\ \A i \in 1..Len(log) :
              /\ EndOf(i)' = log[i].pos + Total(log[i].len)
              /\ EndOf(i)' <= producer
              /\ log[i].len < U32
        /\ \A i, j \in 1..Len(log) : i < j => EndOf(i)' <= log[j].pos
        /\ \A i \in 1..Len(log) : log[i].fate = "discarded" => Discarders # {}
    BY <2>1 DEF IInv, LogInv
  <2>6. QED  BY <1>1, <2>3, <2>4, <2>5 DEF LogInv, EndOf, Total, PayloadWords
<1>9. AdvanceInv'
  <2>1. \A p \in Producers : Total(want[p]) \in Nat
    BY TotalFacts DEF IInv, TypeOK
  <2>2. ASSUME NEW p \in Producers, pc[p] = "advance"
        PROVE  producer + Total(want[p]) - consumer' < RingSize
    <3>1. producer + Total(want[p]) - consumer < RingSize  BY <2>2 DEF IInv, AdvanceInv
    <3>2. Total(want[p]) \in Nat  BY <2>1
    <3>3. QED  BY <3>1, <3>2, <1>2, <1>4
  <2>3. QED  BY <2>2 DEF IInv, AdvanceInv, Off, Header, Total, PayloadWords
<1>10. FillInv'  BY DEF IInv, FillInv, Owning, Off, Payload, PayloadWords
<1>11. UnreadIntact'
  <2>1. \A i \in Unread' : i \in Unread  BY <1>2 DEF Unread
  <2>2. QED
    BY <2>1 DEF IInv, UnreadIntact, HeaderIntact, PayloadIntact, FlagsOf, Header, Payload,
                Off, PayloadWords
<1>12. ConsumerInv'  BY DEF ConsumerInv
<1>13. QED
  BY <1>5, <1>6, <1>7, <1>8, <1>9, <1>10, <1>11, <1>12 DEF IInv

LEMMA InvConsumer == ASSUME IInv, ConsumerStep PROVE IInv'
<1>1. TypeOK'  BY TypeConsumer DEF IInv
<1> USE DEF memVars, prodVars, histVars
<1>2. CASE ConsumePositions
  <2>1. UNCHANGED <<lock, producer, consumer, data, pc, want, seen, base, filled, log,
                    passed, slot>>
    BY <1>2 DEF ConsumePositions
  <2>2. consumer \in Nat /\ producer \in Nat  BY DEF IInv, TypeOK
  <2>3. ConsumerInv'  BY <1>2, <2>2 DEF ConsumePositions, ConsumerInv
  <2>4. QED  BY <1>1, <2>1, <2>3, InvStay
<1>3. CASE ConsumeHeader
  <2>1. PICK h \in AsHeader(data[Off(consumer)]) :
           ReturnNone(h) \/ SkipDiscarded(h) \/ ReturnRecord(h)
    BY <1>3 DEF ConsumeHeader
  <2>2. /\ cpc = "header"
        /\ UNCHANGED <<lock, producer, data, pc, want, seen, base, filled, log, slot>>
    BY <1>3 DEF ConsumeHeader
  <2>3. passed < Len(log)
    <3>1. consumer < producer  BY <2>2 DEF IInv, ConsumerInv
    <3>2. consumer = EndOf(passed) /\ passed <= Len(log)  BY DEF IInv, LogInv
    <3>3. consumer \in Nat /\ producer \in Nat /\ passed \in Nat /\ Len(log) \in Nat
      BY DEF IInv, TypeOK
    <3>4. QED  BY <3>1, <3>2, <3>3 DEF EndOf
  <2>4. /\ h.len = log[passed + 1].len
        /\ h.flags = FlagsOf(log[passed + 1].fate)
        /\ log[passed + 1].fate \in {"busy", "committed", "discarded"}
    BY <2>3, HeadHeader, HeadRecord DEF LogEntries
  <2>5. CASE ReturnNone(h)
    <3>1. ConsumerInv'  BY <2>5 DEF ReturnNone, ConsumerInv
    <3>2. QED  BY <1>1, <2>2, <2>5, <3>1, InvStay DEF ReturnNone
  <2>6. CASE SkipDiscarded(h)
    <3>1. log[passed + 1].fate # "busy"  BY <2>4, <2>6 DEF SkipDiscarded, FlagsOf
    <3>2. /\ consumer' = consumer + Total(log[passed + 1].len)
          /\ passed' = passed + 1 /\ cpc' = "start"
      BY <2>4, <2>6 DEF SkipDiscarded
    <3>3. QED  BY <1>1, <2>2, <2>3, <3>1, <3>2, InvPass
  <2>7. CASE ReturnRecord(h)
    <3>1. log[passed + 1].fate = "committed"  BY <2>4, <2>7 DEF ReturnRecord, FlagsOf
    <3>2. ConsumerInv'
      BY <2>2, <2>3, <2>4, <2>7, <3>1 DEF ReturnRecord, ConsumerInv
    <3>3. QED  BY <1>1, <2>2, <2>7, <3>2, InvStay DEF ReturnRecord
  <2>8. QED  BY <2>1, <2>5, <2>6, <2>7
<1>4. CASE DropRecord
  <2>1. /\ passed < Len(log) /\ log[passed + 1].fate = "committed"
        /\ rlen = log[passed + 1].len
    BY <1>4 DEF DropRecord, IInv, ConsumerInv
  <2>2. /\ consumer' = consumer + Total(log[passed + 1].len)
        /\ passed' = passed + 1 /\ cpc' = "start"
        /\ UNCHANGED <<lock, producer, data, pc, want, seen, base, filled, log, slot>>
    BY <1>4, <2>1 DEF DropRecord
  <2>3. QED  BY <1>1, <2>1, <2>2, InvPass
<1>5. CASE Poll \/ Wait
  <2>1. UNCHANGED <<lock, producer, consumer, data, pc, want, seen, base, filled, log,
                    passed, slot>>
    BY <1>5 DEF Poll, Wait
  <2>2. ConsumerInv'  BY <1>5 DEF Poll, Wait, ConsumerInv
  <2>3. QED  BY <1>1, <2>1, <2>2, InvStay
<1>6. QED  BY <1>2, <1>3, <1>4, <1>5 DEF ConsumerStep

-----------------------------------------------------------------------------
(* The theorems.                                                            *)

LEMMA InvInit == Init => IInv
<1> SUFFICES ASSUME Init PROVE IInv  OBVIOUS
<1>1. TypeOK  BY TypeInit
<1>2. Len(log) = 0 /\ Unread = {}  BY DEF Init, Unread
<1>3. LogInv  BY <1>2 DEF Init, LogInv, EndOf
<1>4. UnreadIntact  BY <1>2 DEF UnreadIntact
<1>5. NeverOverrun /\ SeenInv  BY RingAssumption DEF Init, NeverOverrun, SeenInv
<1>6. LockInv /\ AdvanceInv /\ OwnerInv /\ FillInv /\ DiscardInv /\ ConsumerInv
  BY DEF Init, LockInv, InLock, AdvanceInv, OwnerInv, Owning, FillInv, DiscardInv, ConsumerInv
<1>7. QED  BY <1>1, <1>3, <1>4, <1>5, <1>6 DEF IInv

LEMMA InvNext ==
    ASSUME SafeDiscards, IInv, [Next]_vars
    PROVE  IInv'
<1>1. CASE UNCHANGED vars
  <2>1. UNCHANGED <<lock, producer, consumer, data, pc, want, seen, base, filled, log,
                    passed, slot, cpc, rlen>>
    BY <1>1 DEF vars, memVars, prodVars, consVars, histVars
  <2>2. TypeOK'  BY <1>1, TypeNext DEF IInv
  <2>3. ConsumerInv'  BY <2>1 DEF IInv, ConsumerInv
  <2>4. QED  BY <2>1, <2>2, <2>3, InvStay
<1>2. CASE ConsumerStep  BY <1>2, InvConsumer
<1>3. ASSUME NEW p \in Producers,
             \/ \E len \in Lens : ReserveStart(p, len)
             \/ Running(p) \/ ManualNotify(p) \/ Crash(p)
      PROVE  IInv'
  <2>1. \/ Local(p) \/ WriteHeader(p) \/ AdvanceProducer(p) \/ FillWord(p)
        \/ Discard(p) \/ Commit(p)
    BY <1>3 DEF Running, Local
  <2>2. QED
    BY <2>1, InvLocal, InvWriteHeader, InvAdvance, InvFill, InvDiscard, InvCommit
<1>4. QED  BY <1>1, <1>2, <1>3 DEF Next

\* The inductive invariant holds in every reachable state, for any number of
\* producers, ring size and record lengths, when nobody discards or there is a
\* single producer.
THEOREM InvCorrect == ASSUME SafeDiscards PROVE SafetySpec => []IInv
<1>1. IInv /\ [Next]_vars => IInv'  BY InvNext
<1>2. QED  BY <1>1, InvInit, PTL DEF SafetySpec

\* The producers never run into the consumer, however old the consumer
\* position is that reserve() compares with.
THEOREM NeverOverrunCorrect == ASSUME SafeDiscards PROVE SafetySpec => []NeverOverrun
<1>1. IInv => NeverOverrun  BY DEF IInv
<1>2. QED  BY <1>1, InvCorrect, PTL

\* No unread record is overwritten: headers say what their owner last did,
\* committed payloads are whole.
THEOREM UnreadIntactCorrect == ASSUME SafeDiscards PROVE SafetySpec => []UnreadIntact
<1>1. IInv => UnreadIntact  BY DEF IInv
<1>2. QED  BY <1>1, InvCorrect, PTL

LEMMA InvHeldRecord == IInv => HeldRecordIntact
<1> SUFFICES ASSUME IInv, cpc = "record" PROVE HeldRecordIntact
  BY DEF HeldRecordIntact
<1>1. /\ passed < Len(log) /\ log[passed + 1].fate = "committed"
      /\ rlen = log[passed + 1].len
  BY DEF IInv, ConsumerInv
<1>2. consumer = log[passed + 1].pos /\ passed + 1 \in Unread  BY <1>1, HeadRecord
<1>3. PayloadIntact(log[passed + 1])  BY <1>1, <1>2 DEF IInv, UnreadIntact
<1>4. QED  BY <1>1, <1>2, <1>3 DEF HeldRecordIntact

\* What consume() hands out is the oldest record not yet passed, committed,
\* with its own length and payload, until the caller drops it.
THEOREM HeldRecordCorrect == ASSUME SafeDiscards PROVE SafetySpec => []HeldRecordIntact
BY InvHeldRecord, InvCorrect, PTL

-----------------------------------------------------------------------------
(* The abstract queue.                                                      *)

\* The queue's records, as Queue reads them from the log.
Entry(i) == [owner |-> log[i].owner, len |-> log[i].len, fate |-> log[i].fate]
Records == [i \in 1..Len(log) |-> Entry(i)]

Entries == [owner : Producers, len : Nat, fate : {"busy", "committed", "discarded"}]

LEMMA RecordsFacts ==
    ASSUME TypeOK
    PROVE  /\ Records \in Seq(Entries) /\ Len(Records) = Len(log) /\ Len(log) \in Nat
           /\ \A i \in 1..Len(log) : Records[i] = Entry(i)
<1>1. Len(log) \in Nat /\ \A i \in 1..Len(log) : log[i] \in LogEntries  BY DEF TypeOK
<1>2. \A i \in 1..Len(log) : Entry(i) \in Entries  BY <1>1 DEF Entry, Entries, LogEntries
<1>3. Records \in [1..Len(log) -> Entries]  BY <1>2 DEF Records
<1>4. QED  BY <1>1, <1>3 DEF Records

\* A length that is asked for is one of Lens until the record is published.
WantInv ==
    \A p \in Producers : pc[p] \in {"lock", "space", "advance"} => want[p] \in Lens

LEMMA WantNext == ASSUME TypeOK, WantInv, [Next]_vars PROVE WantInv'
<1>0. pc \in [Producers -> PcValues] /\ want \in [Producers -> Nat]  BY DEF TypeOK
<1> USE DEF WantInv, Goto, memVars, prodVars, consVars, histVars
<1>1. CASE UNCHANGED vars  BY <1>1 DEF vars
<1>2. CASE ConsumerStep
  BY <1>2 DEF ConsumerStep, ConsumePositions, ConsumeHeader, DropRecord, Poll, Wait
<1>3. ASSUME NEW p \in Producers, NEW len \in Lens, ReserveStart(p, len) PROVE WantInv'
  BY <1>0, <1>3 DEF ReserveStart
<1>4. ASSUME NEW p \in Producers, ManualNotify(p) PROVE WantInv'
  BY <1>0, <1>4 DEF ManualNotify
<1>5. ASSUME NEW p \in Producers, Crash(p) PROVE WantInv'
  BY <1>0, <1>5 DEF Crash
<1>6. ASSUME NEW p \in Producers, Running(p) PROVE WantInv'
  <2>1. want' = want
    BY <1>6 DEF Running, TryLock, LockTimeout, InsufficientSpace, IncrementDropped,
       WriteHeader, AdvanceProducer, Unlock, FillWord, Discard, StartDrop, DropCheck,
       Commit, Notify
  <2>2. \A q \in Producers : q # p => pc'[q] = pc[q]
    BY <1>0, <1>6 DEF Running, TryLock, LockTimeout, InsufficientSpace, IncrementDropped,
       WriteHeader, AdvanceProducer, Unlock, FillWord, Discard, StartDrop, DropCheck,
       Commit, Notify
  <2>3. CASE TryLock(p)  BY <1>0, <2>1, <2>2, <2>3 DEF TryLock
  <2>4. CASE WriteHeader(p)  BY <1>0, <2>1, <2>2, <2>4 DEF WriteHeader
  <2>5. CASE ~TryLock(p) /\ ~WriteHeader(p)
    <3>1. pc'[p] \notin {"lock", "space", "advance"}
      BY <1>0, <1>6, <2>5 DEF Running, LockTimeout, InsufficientSpace, IncrementDropped,
         AdvanceProducer, Unlock, FillWord, Discard, StartDrop, DropCheck, Commit, Notify
    <3>2. QED  BY <2>1, <2>2, <3>1
  <2>6. QED  BY <2>3, <2>4, <2>5
<1>7. QED  BY <1>1, <1>2, <1>3, <1>4, <1>5, <1>6 DEF Next

-----------------------------------------------------------------------------
(* One lemma per way a step changes the queue.                              *)

\* A step that keeps the log, the count of passed records and what is held.
LEMMA QueueStutter ==
    ASSUME log' = log, passed' = passed, (cpc' = "record") = (cpc = "record")
    PROVE  UNCHANGED Queue!qvars
BY DEF Queue!qvars

LEMMA QueueReserve ==
    ASSUME IInv, WantInv, NEW p \in Producers, AdvanceProducer(p)
    PROVE  Queue!QNext
<1> DEFINE e == [owner |-> p, len |-> want[p], fate |-> "busy"]
           After(i) == [owner |-> log'[i].owner, len |-> log'[i].len, fate |-> log'[i].fate]
           new == [owner |-> p, pos |-> base[p], len |-> want[p], fate |-> "busy"]
<1>1. /\ pc[p] = "advance" /\ log' = Append(log, new)
      /\ passed' = passed /\ cpc' = cpc
  BY DEF AdvanceProducer, Goto, consVars
<1>2. want[p] \in Lens  BY <1>1 DEF WantInv
<1>3. TypeOK /\ log \in Seq(LogEntries) /\ want[p] \in Nat  BY DEF IInv, TypeOK
<1>4. TypeOK'  BY <1>3, TypeWrite
<1>5. /\ Len(log') = Len(log) + 1 /\ log'[Len(log) + 1] = new
      /\ \A i \in 1..Len(log) : log'[i] = log[i]
  BY <1>1, <1>3
<1>6. Records' = Append(Records, e)
  <2>1. /\ Records \in Seq(Entries) /\ Len(Records) = Len(log) /\ Len(log) \in Nat
        /\ \A i \in 1..Len(log) : Records[i] = Entry(i)
    BY <1>3, RecordsFacts
  <2>2. e \in Entries  BY <1>3 DEF Entries
  <2> HIDE DEF e
  <2>3. /\ Append(Records, e) \in [1..(Len(log) + 1) -> Entries]
        /\ Append(Records, e)[Len(log) + 1] = e
        /\ \A i \in 1..Len(log) : Append(Records, e)[i] = Records[i]
    <3>1. /\ Append(Records, e) \in Seq(Entries)
          /\ Len(Append(Records, e)) = Len(Records) + 1
          /\ Append(Records, e)[Len(Records) + 1] = e
          /\ \A i \in 1..Len(Records) : Append(Records, e)[i] = Records[i]
      BY <2>1, <2>2, AppendProperties
    <3> DEFINE A == Append(Records, e)
    <3> HIDE DEF A
    <3>2. A \in Seq(Entries) /\ Len(A) = Len(log) + 1  BY <2>1, <3>1 DEF A
    <3>3. A \in [1..(Len(log) + 1) -> Entries]  BY <2>1, <3>2
    <3>4. QED  BY <2>1, <3>1, <3>3 DEF A
  <2>4. Records' = [i \in 1..(Len(log) + 1) |-> After(i)]  BY <1>5 DEF Records, Entry
  <2>5. ASSUME NEW i \in 1..(Len(log) + 1) PROVE After(i) = Append(Records, e)[i]
    <3>1. CASE i \in 1..Len(log)  BY <3>1, <2>1, <2>3, <1>5 DEF Entry
    <3>2. CASE i = Len(log) + 1  BY <3>2, <2>3, <1>5 DEF Entry, e
    <3>3. QED  BY <3>1, <3>2, <2>1
  <2> DEFINE A == Append(Records, e)
             d == 1..(Len(log) + 1)
  <2>6. A \in [d -> Entries] /\ \A i \in d : After(i) = A[i]  BY <2>3, <2>5
  <2> HIDE DEF After, A, d
  <2>7. [i \in d |-> After(i)] = A  BY <2>6
  <2>8. QED  BY <2>4, <2>7 DEF A, d
<1>7. PICK len \in Lens : len = want[p]  BY <1>2
<1>8. Queue!QReserve(p, len)
  BY <1>1, <1>6, <1>7 DEF Queue!QReserve, Records, Entry
<1>9. QED  BY <1>8 DEF Queue!QNext

LEMMA QueueSettle ==
    ASSUME IInv, NEW p \in Producers, Owning(p), NEW fate \in {"committed", "discarded"},
           Settle(p, fate), passed' = passed, cpc' = cpc
    PROVE  Queue!QNext
<1> DEFINE s == slot[p]
           After(i) == [owner |-> log'[i].owner, len |-> log'[i].len, fate |-> log'[i].fate]
<1>1. s \in 1..Len(log) /\ log[s].fate = "busy"  BY OwnSlot DEF Unsettled
<1>2. TypeOK  BY DEF IInv
<1>3. /\ Len(log') = Len(log)
      /\ \A i \in 1..Len(log) :
            /\ log'[i].owner = log[i].owner /\ log'[i].len = log[i].len
            /\ i # s => log'[i] = log[i]
            /\ i = s => log'[i].fate = fate
  BY <1>1, <1>2, SettleFacts
<1>4. /\ Records \in Seq(Entries) /\ Len(Records) = Len(log) /\ Len(log) \in Nat
      /\ \A i \in 1..Len(log) : Records[i] = Entry(i)
  BY <1>2, RecordsFacts
<1>5. Records' = [Records EXCEPT ![s].fate = fate]
  <2>1. Records' = [i \in 1..Len(log) |-> After(i)]  BY <1>3 DEF Records, Entry
  <2>2. Records \in [1..Len(log) -> Entries]  BY <1>4
  <2>3. ASSUME NEW i \in 1..Len(log)
        PROVE  After(i) = IF i = s THEN [Records[i] EXCEPT !.fate = fate] ELSE Records[i]
    <3>1. CASE i = s
      <4>1. After(i) = [owner |-> log[i].owner, len |-> log[i].len, fate |-> fate]
        BY <3>1, <1>3 DEF Entry
      <4>2. Records[i] = [owner |-> log[i].owner, len |-> log[i].len, fate |-> log[i].fate]
        BY <1>4 DEF Entry
      <4>3. QED  BY <3>1, <4>1, <4>2
    <3>2. CASE i # s  BY <3>2, <1>3, <1>4 DEF Entry
    <3>3. QED  BY <3>1, <3>2
  <2>4. [Records EXCEPT ![s].fate = fate] =
           [i \in 1..Len(log) |->
              IF i = s THEN [Records[i] EXCEPT !.fate = fate] ELSE Records[i]]
    BY <1>1, <2>2
  <2>5. QED  BY <2>1, <2>3, <2>4
<1>6. Records[s].fate = "busy"
  <2>1. Records[s] = Entry(s)  BY <1>1, <1>4
  <2>2. Entry(s).fate = log[s].fate  BY DEF Entry
  <2>3. QED  BY <1>1, <2>1, <2>2
<1>7. Queue!QSettle(s, fate)
  BY <1>5, <1>6 DEF Queue!QSettle, Records, Entry
<1>8. QED  BY <1>1, <1>4, <1>7 DEF Queue!QNext, Records, Entry

LEMMA QueueConsume ==
    ASSUME IInv, ConsumeHeader
    PROVE  Queue!QNext \/ UNCHANGED Queue!qvars
<1>1. PICK h \in AsHeader(data[Off(consumer)]) :
         ReturnNone(h) \/ SkipDiscarded(h) \/ ReturnRecord(h)
  BY DEF ConsumeHeader
<1>2. cpc = "header" /\ log' = log  BY DEF ConsumeHeader
<1>3. passed < Len(log)
  <2>1. consumer < producer  BY <1>2 DEF IInv, ConsumerInv
  <2>2. consumer = EndOf(passed) /\ passed <= Len(log)  BY DEF IInv, LogInv
  <2>3. consumer \in Nat /\ producer \in Nat /\ passed \in Nat /\ Len(log) \in Nat
    BY DEF IInv, TypeOK
  <2>4. QED  BY <2>1, <2>2, <2>3 DEF EndOf
<1>4. /\ h.flags = FlagsOf(log[passed + 1].fate)
      /\ log[passed + 1].fate \in {"busy", "committed", "discarded"}
      /\ passed + 1 \in 1..Len(log)
  BY <1>3, HeadHeader, HeadRecord DEF LogEntries
<1>5. /\ Len(Records) = Len(log) /\ Records[passed + 1].fate = log[passed + 1].fate
      /\ Records' = Records
  BY <1>2, <1>4, RecordsFacts DEF IInv, Entry, Records
<1>6. CASE ReturnNone(h)  BY <1>2, <1>6, QueueStutter DEF ReturnNone
<1>7. CASE SkipDiscarded(h)
  <2>1. log[passed + 1].fate = "discarded"  BY <1>4, <1>7 DEF SkipDiscarded, FlagsOf
  <2>2. Queue!QSkip
    BY <1>2, <1>3, <1>5, <1>7, <2>1 DEF Queue!QSkip, SkipDiscarded, Records, Entry
  <2>3. QED  BY <2>2 DEF Queue!QNext
<1>8. CASE ReturnRecord(h)
  <2>1. log[passed + 1].fate = "committed"  BY <1>4, <1>8 DEF ReturnRecord, FlagsOf
  <2>2. Queue!QTake
    BY <1>2, <1>3, <1>5, <1>8, <2>1 DEF Queue!QTake, ReturnRecord, Records, Entry
  <2>3. QED  BY <2>2 DEF Queue!QNext
<1>9. QED  BY <1>1, <1>6, <1>7, <1>8

LEMMA QueueRelease == ASSUME DropRecord PROVE Queue!QNext
<1>1. Queue!QRelease  BY DEF DropRecord, Queue!QRelease
<1>2. QED  BY <1>1 DEF Queue!QNext

-----------------------------------------------------------------------------
LEMMA QueueNext ==
    ASSUME IInv, WantInv, [Next]_vars
    PROVE  [Queue!QNext]_Queue!qvars
<1>1. CASE UNCHANGED vars
  BY <1>1, QueueStutter DEF vars, consVars, histVars
<1>2. CASE ConsumerStep
  <2>1. CASE ConsumePositions \/ Poll \/ Wait
    <3>1. log' = log /\ passed' = passed /\ cpc # "record" /\ cpc' # "record"
      BY <2>1 DEF ConsumePositions, Poll, Wait, histVars
    <3>2. QED  BY <3>1, QueueStutter
  <2>2. CASE ConsumeHeader  BY <2>2, QueueConsume
  <2>3. CASE DropRecord  BY <2>3, QueueRelease
  <2>4. QED  BY <1>2, <2>1, <2>2, <2>3 DEF ConsumerStep
<1>3. ASSUME NEW p \in Producers,
             \/ \E len \in Lens : ReserveStart(p, len)
             \/ Running(p) \/ ManualNotify(p) \/ Crash(p)
      PROVE  [Queue!QNext]_Queue!qvars
  <2>1. CASE Local(p)  BY <2>1, LocalUnchanged, QueueStutter
  <2>2. CASE WriteHeader(p)
    BY <2>2, QueueStutter DEF WriteHeader, consVars, histVars
  <2>3. CASE FillWord(p)  BY <2>3, QueueStutter DEF FillWord, consVars, histVars
  <2>4. CASE AdvanceProducer(p)  BY <2>4, QueueReserve
  <2>5. CASE Discard(p)
    <3>1. Owning(p) /\ Settle(p, "discarded") /\ passed' = passed /\ cpc' = cpc
      BY <2>5 DEF Discard, Goto, Owning, consVars
    <3>2. QED  BY <3>1, QueueSettle
  <2>6. CASE Commit(p)
    <3>1. Owning(p) /\ Settle(p, "committed") /\ passed' = passed /\ cpc' = cpc
      BY <2>6 DEF Commit, Goto, Owning, consVars
    <3>2. QED  BY <3>1, QueueSettle
  <2>7. QED  BY <1>3, <2>1, <2>2, <2>3, <2>4, <2>5, <2>6 DEF Running, Local
<1>4. QED  BY <1>1, <1>2, <1>3 DEF Next

LEMMA QueueInit == Init => Queue!QInit
BY DEF Init, Queue!QInit

\* The ring implements the queue of records: reservations in order, each
\* committed or discarded once, only the oldest committed one handed out.
THEOREM QueueCorrect == ASSUME SafeDiscards PROVE SafetySpec => ImplementsQueue
<1>1. Init => WantInv  BY DEF Init, WantInv
<1>2. TypeOK /\ WantInv /\ [Next]_vars => WantInv'  BY WantNext
<1>3. SafetySpec => []WantInv  BY <1>1, <1>2, TypeCorrect, PTL DEF SafetySpec
<1>4. IInv /\ WantInv /\ [Next]_vars => [Queue!QNext]_Queue!qvars  BY QueueNext
<1>5. QED
  BY <1>3, <1>4, QueueInit, InvCorrect, PTL DEF SafetySpec, ImplementsQueue, Queue!QSpec
=============================================================================
