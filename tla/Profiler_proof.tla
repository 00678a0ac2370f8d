--------------------------- MODULE Profiler_proof ---------------------------
(***************************************************************************)
(* Proofs about the trace file, for any processes, threads, tracks and     *)
(* call stacks, any messages and samples in any order, and any number of   *)
(* writes that fail anywhere: no packet refers to a track that was not     *)
(* described before it; slices are closed unless a write failed; samples   *)
(* share a call stack id just when they show the same frames of the same   *)
(* process; and without a failed write every sample can be resolved.       *)
(*                                                                         *)
(* A conversion may stop at every write, so the argument goes along the    *)
(* functions of the converter: each takes a state in which every uuid of   *)
(* the track map is described in the file to such states only, and the     *)
(* uuid it returns is described.  The interning of a stack is followed     *)
(* frame by frame.                                                         *)
(***************************************************************************)
EXTENDS Profiler, FiniteSetTheorems, WellFoundedInduction, NaturalsInduction, TLAPS

-----------------------------------------------------------------------------
(* Files and states of the converter.                                       *)

IsFile(f) == \E S : f \in Seq(S)

Announced(f, uuid) == \E j \in 1 .. Len(f) : f[j].type = "track" /\ f[j].uuid = uuid

Events == {"begin", "end", "instant", "counter"}

FileOK(f) ==
    \A i \in 1 .. Len(f) :
        /\ f[i].type \in Events =>
               \E j \in 1 .. (i - 1) : f[j].type = "track" /\ f[j].uuid = f[i].uuid
        /\ f[i].type = "track" /\ f[i].parent # 0 =>
               \E j \in 1 .. (i - 1) : f[j].type = "track" /\ f[j].uuid = f[i].parent

\* A packet that may follow.
Follows(f, packet) ==
    /\ packet.type \in Events => Announced(f, packet.uuid)
    /\ packet.type = "track" /\ packet.parent # 0 => Announced(f, packet.parent)

\* g is f with packets of these types after it.
Grown(f, g, types) ==
    /\ Len(f) <= Len(g) /\ \A i \in 1 .. Len(f) : g[i] = f[i]
    /\ \A i \in 1 .. Len(g) : i \in 1 .. Len(f) \/ g[i].type \in types

Quiet == {"track", "end", "instant", "counter"}

\* The slices that are not closed.
Open(f) ==
    {i \in 1 .. Len(f) :
        /\ f[i].type = "begin"
        /\ ~ (i + 1 \in 1 .. Len(f) /\ f[i + 1] = OnTrack("end", f[i].uuid))}

StateOK(st) ==
    /\ DOMAIN st = {"ok", "ret", "map", "next", "file", "failures"}
    /\ st.failures \in Nat
    /\ IsFile(st.file) /\ FileOK(st.file)
    /\ \A id \in DOMAIN st.map : Announced(st.file, st.map[id])

\* A function of the converter takes st to r.
Leads(st, r) ==
    /\ StateOK(r) /\ \A uuid : Announced(st.file, uuid) => Announced(r.file, uuid)
    /\ Grown(st.file, r.file, Quiet) /\ st.failures <= r.failures

\* The uuid it returns, if it is not 0, is described.
Resolves(st, r) ==
    Leads(st, r) /\ (r.ok /\ r.ret # 0 => Announced(r.file, r.ret))

\* A whole conversion takes st to r.
Converted(st, r) ==
    /\ StateOK(r) /\ Grown(st.file, r.file, Quiet \cup {"begin"}) /\ st.failures <= r.failures
    /\ Cardinality(Open(st.file)) <= st.failures => Cardinality(Open(r.file)) <= r.failures

LEMMA FileLength == ASSUME NEW f, IsFile(f) PROVE Len(f) \in Nat /\ DOMAIN f = 1 .. Len(f)
<1>1. PICK S : f \in Seq(S)  BY DEF IsFile
<1>2. QED  BY <1>1

LEMMA GrownOn ==
    ASSUME NEW f, NEW g, NEW h, IsFile(f), IsFile(g), IsFile(h), NEW S, NEW T,
           Grown(f, g, S), Grown(g, h, T)
    PROVE  Grown(f, h, S \cup T)
<1>1. Len(f) \in Nat /\ Len(g) \in Nat /\ Len(h) \in Nat  BY FileLength
<1>2. Len(f) <= Len(h) /\ \A i \in 1 .. Len(f) : i \in 1 .. Len(g)  BY <1>1 DEF Grown
<1>3. \A i \in 1 .. Len(f) : h[i] = f[i]  BY <1>2 DEF Grown
<1>4. \A i \in 1 .. Len(h) : i \in 1 .. Len(f) \/ h[i].type \in S \cup T  BY DEF Grown
<1>5. QED  BY <1>2, <1>3, <1>4 DEF Grown

LEMMA GrownSelf == ASSUME NEW f, IsFile(f), NEW T PROVE Grown(f, f, T)
  BY FileLength DEF Grown

LEMMA GrownMore ==
    ASSUME NEW f, NEW g, NEW S, NEW T, Grown(f, g, S), S \subseteq T PROVE Grown(f, g, T)
  BY DEF Grown

LEMMA OpenFinite ==
    ASSUME NEW f, IsFile(f) PROVE IsFiniteSet(Open(f)) /\ Cardinality(Open(f)) \in Nat
<1>1. IsFiniteSet(1 .. Len(f))  BY FileLength, FS_Interval
<1>2. Open(f) \subseteq 1 .. Len(f)  BY DEF Open
<1>3. QED  BY <1>1, <1>2, FS_Subset, FS_CardinalityType

\* Only a packet that begins a slice opens one.
LEMMA OpenGrown ==
    ASSUME NEW f, NEW g, IsFile(f), IsFile(g), NEW T, Grown(f, g, T), "begin" \notin T
    PROVE  Open(g) \subseteq Open(f) /\ Cardinality(Open(g)) <= Cardinality(Open(f))
<1>1. Len(f) \in Nat /\ Len(g) \in Nat  BY FileLength
<1>2. ASSUME NEW i \in Open(g) PROVE i \in Open(f)
  <2>1. i \in 1 .. Len(g) /\ g[i].type = "begin"  BY <1>2 DEF Open
  <2>2. i \in 1 .. Len(f) /\ f[i] = g[i]  BY <2>1 DEF Grown
  <2>3. i + 1 \in 1 .. Len(f) => i + 1 \in 1 .. Len(g) /\ g[i + 1] = f[i + 1]
    BY <1>1 DEF Grown
  <2>4. ~ (i + 1 \in 1 .. Len(f) /\ f[i + 1] = OnTrack("end", f[i].uuid))
    BY <1>2, <2>2, <2>3 DEF Open
  <2>5. QED  BY <2>1, <2>2, <2>4 DEF Open
<1>3. QED  BY <1>2, OpenFinite, FS_Subset

LEMMA LeadsConverts == ASSUME NEW st, NEW r, StateOK(st), Leads(st, r) PROVE Converted(st, r)
<1>1. Grown(st.file, r.file, Quiet \cup {"begin"})  BY GrownMore DEF Leads
<1>2. Cardinality(Open(r.file)) <= Cardinality(Open(st.file))
  BY OpenGrown DEF Leads, StateOK, Quiet
<1>3. Cardinality(Open(r.file)) \in Nat /\ Cardinality(Open(st.file)) \in Nat
  BY OpenFinite DEF Leads, StateOK
<1>4. st.failures \in Nat /\ r.failures \in Nat /\ st.failures <= r.failures
  BY DEF Leads, StateOK
<1>5. QED  BY <1>1, <1>2, <1>3, <1>4 DEF Converted, Leads

LEMMA AppendPacket ==
    ASSUME NEW f, IsFile(f), FileOK(f), NEW packet, Follows(f, packet)
    PROVE  LET g == Append(f, packet)
           IN  /\ IsFile(g) /\ FileOK(g) /\ Grown(f, g, {packet.type})
               /\ Len(g) = Len(f) + 1 /\ g[Len(g)] = packet
               /\ \A uuid : Announced(f, uuid) => Announced(g, uuid)
               /\ packet.type = "track" => Announced(g, packet.uuid)
<1> DEFINE g == Append(f, packet)
<1>1. PICK S : f \in Seq(S)  BY DEF IsFile
<1> DEFINE T == S \cup {packet}
<1>2. f \in Seq(T)
  <2>1. f \in [1 .. Len(f) -> S] /\ Len(f) \in Nat  BY <1>1
  <2>2. f \in [1 .. Len(f) -> T]  BY <2>1
  <2>3. QED  BY <2>1, <2>2
<1>3. packet \in T  OBVIOUS
<1> HIDE DEF T
<1>4. /\ g \in Seq(T) /\ Len(g) = Len(f) + 1 /\ Len(f) \in Nat /\ g[Len(f) + 1] = packet
      /\ \A i \in 1 .. Len(f) : g[i] = f[i]
  BY <1>2, <1>3
<1> HIDE DEF g
<1>5. \A i \in 1 .. Len(g) : i \in 1 .. Len(f) \/ i = Len(f) + 1  BY <1>4
<1>6. \A i \in 1 .. Len(f) : i \in 1 .. Len(g)  BY <1>4
<1>7. \A uuid : Announced(f, uuid) => Announced(g, uuid)  BY <1>4, <1>6 DEF Announced
<1>8. packet.type = "track" => Announced(g, packet.uuid)  BY <1>4 DEF Announced
<1>9. FileOK(g)
  <2> SUFFICES ASSUME NEW i \in 1 .. Len(g)
               PROVE  /\ g[i].type \in Events =>
                            \E j \in 1 .. (i - 1) : g[j].type = "track" /\ g[j].uuid = g[i].uuid
                      /\ g[i].type = "track" /\ g[i].parent # 0 =>
                            \E j \in 1 .. (i - 1) : g[j].type = "track" /\ g[j].uuid = g[i].parent
    BY DEF FileOK
  <2>1. CASE i \in 1 .. Len(f)
    <3>1. g[i] = f[i] /\ \A j \in 1 .. (i - 1) : g[j] = f[j]  BY <1>4, <2>1
    <3>2. QED  BY <2>1, <3>1, ZenonT(60) DEF FileOK
  <2>2. CASE i = Len(f) + 1
    <3>1. g[i] = packet /\ 1 .. (i - 1) = 1 .. Len(f)  BY <1>4, <2>2
    <3>2. QED  BY <1>4, <3>1 DEF Follows, Announced
  <2>3. QED  BY <1>5, <2>1, <2>2
<1>10. IsFile(g)  BY <1>4 DEF IsFile
<1>11. Grown(f, g, {packet.type})
  <2>1. Len(f) <= Len(g)  BY <1>4
  <2>2. \A i \in 1 .. Len(g) : i \in 1 .. Len(f) \/ g[i].type \in {packet.type}  BY <1>4, <1>5
  <2>3. QED  BY <1>4, <2>1, <2>2 DEF Grown
<1>12. QED  BY <1>4, <1>7, <1>8, <1>9, <1>10, <1>11 DEF g

-----------------------------------------------------------------------------
(* The stream writer.                                                       *)

\* What a write does: it appends the packet, or fails.
Writes(st, packet, r) ==
    \/ /\ r.file = Append(st.file, packet) /\ r.failures = st.failures /\ r.ok = st.ok
    \/ /\ r.file = st.file /\ r.failures = st.failures + 1 /\ r.ok = FALSE

LEMMA WriteAny ==
    ASSUME NEW st, StateOK(st), NEW packet, Follows(st.file, packet),
           NEW r \in write_packet(st, packet)
    PROVE  /\ StateOK(r) /\ r.ret = st.ret /\ r.map = st.map /\ Writes(st, packet, r)
           /\ Grown(st.file, r.file, {packet.type}) /\ st.failures <= r.failures
           /\ \A uuid : Announced(st.file, uuid) => Announced(r.file, uuid)
           /\ r.ok /\ packet.type = "track" => Announced(r.file, packet.uuid)
<1> DEFINE g == Append(st.file, packet)
           good == [st EXCEPT !.file = g]
           bad == [st EXCEPT !.ok = FALSE, !.failures = @ + 1]
<1>1. /\ IsFile(g) /\ FileOK(g) /\ \A uuid : Announced(st.file, uuid) => Announced(g, uuid)
      /\ packet.type = "track" => Announced(g, packet.uuid)
      /\ Grown(st.file, g, {packet.type}) /\ Grown(st.file, st.file, {packet.type})
  BY AppendPacket, GrownSelf DEF StateOK
<1>2. r = good \/ r = bad  BY DEF write_packet
<1>3. Writes(st, packet, r)
  <2>1. CASE r = good  BY <2>1 DEF Writes, StateOK
  <2>2. CASE r = bad  BY <2>2 DEF Writes, StateOK
  <2>3. QED  BY <1>2, <2>1, <2>2
<1> HIDE DEF g
<1>4. /\ DOMAIN good = DOMAIN st /\ good.file = g /\ good.map = st.map /\ good.ret = st.ret
      /\ DOMAIN bad = DOMAIN st /\ bad.file = st.file /\ bad.map = st.map /\ bad.ret = st.ret
      /\ bad.ok = FALSE /\ good.failures = st.failures /\ bad.failures = st.failures + 1
  BY DEF StateOK
<1>5. st.failures \in Nat  BY DEF StateOK
<1> HIDE DEF good, bad
<1>6. CASE r = good  BY <1>1, <1>3, <1>4, <1>5, <1>6 DEF StateOK
<1>7. CASE r = bad  BY <1>1, <1>3, <1>4, <1>5, <1>7 DEF StateOK
<1>8. QED  BY <1>2, <1>6, <1>7

LEMMA WritePacket ==
    ASSUME NEW st, StateOK(st), NEW packet, Follows(st.file, packet), packet.type \in Quiet,
           NEW r \in write_packet(st, packet)
    PROVE  /\ Leads(st, r) /\ r.ret = st.ret /\ r.map = st.map
           /\ r.ok /\ packet.type = "track" => Announced(r.file, packet.uuid)
<1>1. /\ StateOK(r) /\ r.ret = st.ret /\ r.map = st.map
      /\ Grown(st.file, r.file, {packet.type}) /\ st.failures <= r.failures
      /\ \A uuid : Announced(st.file, uuid) => Announced(r.file, uuid)
      /\ r.ok /\ packet.type = "track" => Announced(r.file, packet.uuid)
  BY WriteAny
<1>2. Grown(st.file, r.file, Quiet)  BY <1>1, GrownMore
<1>3. QED  BY <1>1, <1>2 DEF Leads

LEMMA LeadsOn ==
    ASSUME NEW st, NEW r, NEW q, StateOK(st), Leads(st, r), Leads(r, q) PROVE Leads(st, q)
<1>1. Grown(st.file, q.file, Quiet \cup Quiet)  BY GrownOn DEF Leads, StateOK
<1>2. st.failures <= q.failures  BY DEF Leads, StateOK
<1>3. QED  BY <1>1, <1>2 DEF Leads

LEMMA LeadsSelf == ASSUME NEW st, StateOK(st) PROVE Leads(st, st)
  BY GrownSelf DEF Leads, StateOK

\* Fields that no part of the invariant is about.
LEMMA SetRet ==
    ASSUME NEW st, StateOK(st), NEW uuid, uuid = 0 \/ Announced(st.file, uuid)
    PROVE  Resolves(st, [st EXCEPT !.ret = uuid]) /\ [st EXCEPT !.ret = uuid].ret = uuid
           /\ [st EXCEPT !.ret = uuid].file = st.file
<1> DEFINE r == [st EXCEPT !.ret = uuid]
<1>1. /\ DOMAIN r = DOMAIN st /\ r.file = st.file /\ r.map = st.map /\ r.ret = uuid
      /\ r.failures = st.failures
  BY DEF StateOK
<1> HIDE DEF r
<1>2. Grown(st.file, r.file, Quiet) /\ st.failures <= r.failures  BY <1>1, GrownSelf DEF StateOK
<1>3. Resolves(st, r)  BY <1>1, <1>2 DEF StateOK, Leads, Resolves
<1>4. QED  BY <1>1, <1>3 DEF r

LEMMA WriteDescriptor ==
    ASSUME NEW st, StateOK(st), NEW id, NEW parent, NEW named,
           parent = 0 \/ Announced(st.file, parent),
           NEW r \in write_descriptor(st, id, parent, named)
    PROVE  Leads(st, r) /\ (r.ok => Announced(r.file, r.ret))
<1> DEFINE s1 == [st EXCEPT !.next = @ + 1]
           d == Descriptor(st.next, id, parent, named)
<1>1. DOMAIN s1 = DOMAIN st /\ s1.file = st.file /\ s1.map = st.map /\ s1.failures = st.failures
  BY DEF StateOK
<1>2. StateOK(s1) /\ Leads(st, s1)
  <2>1. Grown(st.file, s1.file, Quiet) /\ st.failures <= s1.failures  BY <1>1, GrownSelf DEF StateOK
  <2>2. QED  BY <1>1, <2>1 DEF StateOK, Leads
<1>3. d.type = "track" /\ d.parent = parent /\ d.uuid = st.next  BY DEF Descriptor
<1>4. PICK q \in write_packet(s1, d) : r \in IF q.ok THEN {[q EXCEPT !.ret = st.next]} ELSE {q}
  BY DEF write_descriptor, Then
<1> HIDE DEF s1, d
<1>5. Follows(s1.file, d) /\ d.type \in Quiet  BY <1>1, <1>3 DEF Follows, Events, Quiet
<1>6. Leads(s1, q) /\ (q.ok => Announced(q.file, st.next))  BY <1>2, <1>3, <1>5, WritePacket
<1>7. Leads(st, q) /\ StateOK(q)  BY <1>2, <1>6, LeadsOn DEF Leads
<1>8. CASE q.ok
  <2>1. r = [q EXCEPT !.ret = st.next]  BY <1>4, <1>8
  <2>2. Resolves(q, r) /\ r.ret = st.next /\ r.file = q.file  BY <1>6, <1>7, <1>8, <2>1, SetRet
  <2>3. Leads(st, r)  BY <1>7, <2>2, LeadsOn DEF Resolves
  <2>4. QED  BY <1>6, <1>8, <2>2, <2>3
<1>9. CASE ~q.ok  BY <1>4, <1>7, <1>9
<1>10. QED  BY <1>8, <1>9

-----------------------------------------------------------------------------
(* The converter.                                                           *)

LEMMA InsertOK ==
    ASSUME NEW st, StateOK(st), NEW id, NEW uuid, Announced(st.file, uuid)
    PROVE  /\ Leads(st, Insert(st, id, uuid))
           /\ Announced(Insert(st, id, uuid).file, Insert(st, id, uuid).ret)
<1> DEFINE r == Insert(st, id, uuid)
           m == [k \in DOMAIN st.map \cup {id} |-> IF k = id THEN uuid ELSE st.map[k]]
<1>1. /\ DOMAIN r = DOMAIN st /\ r.file = st.file /\ r.map = m /\ r.ret = uuid
      /\ r.failures = st.failures
  BY DEF StateOK, Insert
<1>2. \A k \in DOMAIN m : m[k] = uuid \/ (k \in DOMAIN st.map /\ m[k] = st.map[k])  OBVIOUS
<1> HIDE DEF r, m
<1>3. \A k \in DOMAIN r.map : Announced(r.file, r.map[k])  BY <1>1, <1>2 DEF StateOK
<1>4. Grown(st.file, r.file, Quiet) /\ st.failures <= r.failures  BY <1>1, GrownSelf DEF StateOK
<1>5. Leads(st, r)  BY <1>1, <1>3, <1>4 DEF StateOK, Leads
<1>6. QED  BY <1>1, <1>5 DEF r

\* A track that is known.
LEMMA KnownTrack ==
    ASSUME NEW st, StateOK(st), NEW id \in DOMAIN st.map
    PROVE  LET r == [st EXCEPT !.ret = st.map[id]]
           IN  Leads(st, r) /\ Announced(r.file, r.ret)
<1>1. Announced(st.file, st.map[id])  BY DEF StateOK
<1>2. PICK uuid : uuid = st.map[id]  OBVIOUS
<1>3. QED  BY <1>1, <1>2, SetRet DEF Resolves

\* A descriptor is written and its track inserted.
LEMMA DescribeAndInsert ==
    ASSUME NEW st, StateOK(st), NEW id, NEW parent, NEW named,
           parent = 0 \/ Announced(st.file, parent),
           NEW q \in write_descriptor(st, id, parent, named),
           NEW r \in IF q.ok THEN {Insert(q, id, q.ret)} ELSE {q}
    PROVE  Leads(st, r) /\ (r.ok => Announced(r.file, r.ret))
<1>1. Leads(st, q) /\ StateOK(q) /\ (q.ok => Announced(q.file, q.ret))
  BY WriteDescriptor DEF Leads
<1>2. CASE q.ok
  <2>1. r = Insert(q, id, q.ret)  BY <1>2
  <2>2. Leads(q, r) /\ Announced(r.file, r.ret)  BY <1>1, <1>2, <2>1, InsertOK
  <2>3. QED  BY <1>1, <2>2, LeadsOn
<1>3. CASE ~q.ok  BY <1>1, <1>3
<1>4. QED  BY <1>2, <1>3

LEMMA EnsureProcess ==
    ASSUME NEW st, StateOK(st), NEW p, NEW named, NEW r \in ensure_process_track(st, p, named)
    PROVE  Leads(st, r) /\ (r.ok => Announced(r.file, r.ret))
<1> DEFINE id == ProcessTrack(p)
<1>1. CASE id \in DOMAIN st.map
  <2>1. r = [st EXCEPT !.ret = st.map[id]]  BY <1>1 DEF ensure_process_track
  <2> HIDE DEF id
  <2>2. QED  BY <1>1, <2>1, KnownTrack
<1>2. CASE id \notin DOMAIN st.map
  <2>1. PICK q \in write_descriptor(st, id, 0, named) :
            r \in IF q.ok THEN {Insert(q, id, q.ret)} ELSE {q}
    BY <1>2 DEF ensure_process_track, Then
  <2> HIDE DEF id
  <2>2. QED  BY <2>1, DescribeAndInsert
<1>3. QED  BY <1>1, <1>2

LEMMA EnsureThread ==
    ASSUME NEW st, StateOK(st), NEW p, NEW t, NEW named,
           NEW r \in ensure_thread_track(st, p, t, named)
    PROVE  Leads(st, r) /\ (r.ok => Announced(r.file, r.ret))
<1>0. PICK id : id = ThreadTrack(p, t)  OBVIOUS
<1>1. CASE id \in DOMAIN st.map /\ named
  <2>1. PICK q \in ensure_process_track(st, p, FALSE) :
            r \in IF q.ok
                    THEN UNION {IF x.ok THEN {[x EXCEPT !.ret = st.map[id]]} ELSE {x} :
                                   x \in write_packet(q, Descriptor(st.map[id], id, q.ret, TRUE))}
                    ELSE {q}
    BY <1>0, <1>1, ZenonT(60) DEF ensure_thread_track, Then
  <2>2. Leads(st, q) /\ StateOK(q) /\ (q.ok => Announced(q.file, q.ret))
    BY EnsureProcess DEF Leads
  <2>3. CASE q.ok
    <3>1. PICK d : d = Descriptor(st.map[id], id, q.ret, TRUE)  OBVIOUS
    <3>2. PICK x \in write_packet(q, d) : r \in IF x.ok THEN {[x EXCEPT !.ret = st.map[id]]} ELSE {x}
      BY <2>1, <2>3, <3>1
    <3>3. /\ d.type = "track" /\ d.parent = q.ret /\ d.uuid = st.map[id]  BY <3>1 DEF Descriptor
    <3>4. Follows(q.file, d) /\ d.type \in Quiet  BY <2>2, <2>3, <3>3 DEF Follows, Events, Quiet
    <3>5. Leads(q, x) /\ StateOK(x) /\ (x.ok => Announced(x.file, st.map[id]))
      BY <2>2, <3>3, <3>4, WritePacket DEF Leads
    <3>6. CASE x.ok
      <4>1. PICK uuid : uuid = st.map[id]  OBVIOUS
      <4>2. r = [x EXCEPT !.ret = uuid]  BY <3>2, <3>6, <4>1
      <4>3. Leads(x, r) /\ Announced(r.file, r.ret)
        BY <3>5, <3>6, <4>1, <4>2, SetRet DEF Resolves
      <4>4. QED  BY <2>2, <3>5, <4>3, LeadsOn
    <3>7. CASE ~x.ok  BY <2>2, <3>2, <3>5, <3>7, LeadsOn
    <3>8. QED  BY <3>6, <3>7
  <2>4. CASE ~q.ok  BY <2>1, <2>2, <2>4
  <2>5. QED  BY <2>3, <2>4
<1>2. CASE id \in DOMAIN st.map /\ ~named
  <2>1. r = [st EXCEPT !.ret = st.map[id]]  BY <1>0, <1>2 DEF ensure_thread_track
  <2>2. QED  BY <1>2, <2>1, KnownTrack
<1>3. CASE id \notin DOMAIN st.map
  <2>1. PICK q \in ensure_process_track(st, p, FALSE) :
            r \in IF q.ok
                    THEN UNION {IF x.ok THEN {Insert(x, id, x.ret)} ELSE {x} :
                                   x \in write_descriptor(q, id, q.ret, named)}
                    ELSE {q}
    BY <1>0, <1>3, ZenonT(60) DEF ensure_thread_track, Then
  <2>2. Leads(st, q) /\ StateOK(q) /\ (q.ok => Announced(q.file, q.ret))
    BY EnsureProcess DEF Leads
  <2>3. CASE q.ok
    <3>1. PICK x \in write_descriptor(q, id, q.ret, named) :
              r \in IF x.ok THEN {Insert(x, id, x.ret)} ELSE {x}
      BY <2>1, <2>3
    <3>2. PICK parent : parent = q.ret  OBVIOUS
    <3>3. Leads(q, r) /\ (r.ok => Announced(r.file, r.ret))
      BY <2>2, <2>3, <3>1, <3>2, DescribeAndInsert
    <3>4. QED  BY <2>2, <3>3, LeadsOn
  <2>4. CASE ~q.ok  BY <2>1, <2>2, <2>4
  <2>5. QED  BY <2>3, <2>4
<1>4. QED  BY <1>1, <1>2, <1>3

LEMMA ResolveOK ==
    ASSUME NEW st, StateOK(st), NEW id, NEW r \in Resolve(st, id)
    PROVE  Resolves(st, r)
<1>1. CASE id \in DOMAIN st.map
  <2>1. r = [st EXCEPT !.ret = st.map[id]]  BY <1>1 DEF Resolve
  <2>2. QED  BY <1>1, <2>1, KnownTrack DEF Resolves
<1>2. CASE r \in ensure_thread_track(st, id[2], id[3], FALSE)
  BY <1>2, EnsureThread DEF Resolves
<1>3. CASE r \in ensure_process_track(st, id[2], FALSE)
  BY <1>3, EnsureProcess DEF Resolves
<1>4. CASE r = [st EXCEPT !.ret = 0]  BY <1>4, SetRet
<1>5. QED  BY <1>1, <1>2, <1>3, <1>4 DEF Resolve

\* An event on a track that is described.
LEMMA WriteEvent ==
    ASSUME NEW st, StateOK(st), NEW type \in Events \ {"begin"}, NEW uuid, Announced(st.file, uuid),
           NEW r \in write_packet(st, OnTrack(type, uuid))
    PROVE  Leads(st, r)
<1>1. PICK packet : packet = OnTrack(type, uuid)  OBVIOUS
<1>2. packet.type = type /\ packet.uuid = uuid  BY <1>1 DEF OnTrack
<1>3. Follows(st.file, packet) /\ packet.type \in Quiet  BY <1>2 DEF Follows, Events, Quiet
<1>4. QED  BY <1>1, <1>3, WritePacket

\* The two packets of a slice, of which the second, or both, may fail.
LEMMA WriteSlice ==
    ASSUME NEW st, StateOK(st), NEW uuid, Announced(st.file, uuid),
           NEW x \in write_packet(st, OnTrack("begin", uuid)),
           NEW r \in (IF x.ok THEN write_packet(x, OnTrack("end", uuid)) ELSE {x}), st.ok
    PROVE  Converted(st, r)
<1>0. PICK b, e : b = OnTrack("begin", uuid) /\ e = OnTrack("end", uuid)  OBVIOUS
<1>1. /\ b.type = "begin" /\ b.uuid = uuid /\ e.type = "end" /\ e.uuid = uuid
      /\ Follows(st.file, b)
  BY <1>0 DEF OnTrack, Follows, Events
<1>2. /\ StateOK(x) /\ Writes(st, b, x) /\ Grown(st.file, x.file, {"begin"})
      /\ st.failures <= x.failures /\ Announced(x.file, uuid)
  BY <1>0, <1>1, WriteAny
<1>3. /\ IsFile(st.file) /\ IsFile(x.file) /\ st.failures \in Nat /\ x.failures \in Nat
      /\ FileOK(st.file) /\ FileOK(x.file)
  BY <1>2 DEF StateOK
<1>4. CASE ~x.ok
  <2>1. r = x /\ x.file = st.file  BY <1>2, <1>4 DEF Writes
  <2>2. Grown(st.file, r.file, Quiet \cup {"begin"})  BY <1>3, <2>1, GrownSelf
  <2>3. Cardinality(Open(st.file)) \in Nat  BY <1>3, OpenFinite
  <2>4. QED  BY <1>2, <1>3, <2>1, <2>2, <2>3 DEF Converted
<1>5. CASE x.ok
  <2>1. r \in write_packet(x, e)  BY <1>0, <1>5
  <2>2. Follows(x.file, e)  BY <1>1, <1>2 DEF Follows, Events
  <2>3. /\ StateOK(r) /\ Writes(x, e, r) /\ Grown(x.file, r.file, {"end"})
        /\ x.failures <= r.failures
    BY <1>1, <1>2, <2>1, <2>2, WriteAny
  <2>4. IsFile(r.file) /\ r.failures \in Nat  BY <2>3 DEF StateOK
  <2>5. Grown(st.file, r.file, Quiet \cup {"begin"})
    <3>1. Grown(st.file, r.file, {"begin"} \cup {"end"})  BY <1>2, <1>3, <2>3, <2>4, GrownOn
    <3>2. QED  BY <3>1, GrownMore DEF Quiet
  <2>6. x.file = Append(st.file, b) /\ x.failures = st.failures  BY <1>2, <1>5 DEF Writes
  <2>7. Len(x.file) = Len(st.file) + 1 /\ x.file[Len(x.file)] = b
    BY <1>1, <1>3, <2>6, AppendPacket
  <2> DEFINE last == Len(st.file) + 1
  <2>8. Len(st.file) \in Nat /\ Len(x.file) \in Nat /\ Len(r.file) \in Nat
    BY <1>3, <2>4, FileLength
  <2>9. Open(x.file) \subseteq Open(st.file) \cup {last}
    <3> SUFFICES ASSUME NEW i \in Open(x.file), i # last PROVE i \in Open(st.file)
      OBVIOUS
    <3>1. i \in 1 .. Len(st.file) /\ x.file[i] = st.file[i]
      BY <1>2, <2>7, <2>8 DEF Open, Grown
    <3>2. i + 1 \in 1 .. Len(st.file) =>
              i + 1 \in 1 .. Len(x.file) /\ x.file[i + 1] = st.file[i + 1]
      BY <1>2, <2>7, <2>8 DEF Grown
    <3>3. QED  BY <3>1, <3>2 DEF Open
  <2>10. IsFiniteSet(Open(st.file)) /\ Cardinality(Open(st.file)) \in Nat
         /\ Cardinality(Open(x.file)) \in Nat /\ Cardinality(Open(r.file)) \in Nat
    BY <1>3, <2>4, OpenFinite
  <2>11. Open(r.file) \subseteq Open(x.file)  BY <1>3, <2>3, <2>4, OpenGrown
  <2>12. CASE r.failures = x.failures + 1
    <3>1. Cardinality(Open(st.file) \cup {last}) <= Cardinality(Open(st.file)) + 1
          /\ IsFiniteSet(Open(st.file) \cup {last})
          /\ Cardinality(Open(st.file) \cup {last}) \in Nat
      <4>1. PICK S : S = Open(st.file) \cup {last}  OBVIOUS
      <4>2. IsFiniteSet(S) /\ (Cardinality(S) = Cardinality(Open(st.file)) + 1
                               \/ Cardinality(S) = Cardinality(Open(st.file)))
        BY <2>10, <4>1, FS_AddElement
      <4>3. QED  BY <2>10, <4>1, <4>2
    <3>2. Cardinality(Open(r.file)) <= Cardinality(Open(st.file) \cup {last})
      BY <2>9, <2>11, <3>1, FS_Subset
    <3>3. Cardinality(Open(r.file)) <= Cardinality(Open(st.file)) + 1
      BY <2>10, <3>1, <3>2
    <3>4. st.failures <= r.failures /\ r.failures = st.failures + 1  BY <1>3, <2>4, <2>6, <2>12
    <3>5. QED  BY <1>3, <2>3, <2>5, <2>10, <3>3, <3>4 DEF Converted
  <2>13. CASE r.file = Append(x.file, e) /\ r.failures = x.failures
    <3>1. Len(r.file) = Len(x.file) + 1 /\ r.file[Len(r.file)] = e
      BY <1>3, <2>2, <2>13, AppendPacket
    <3>2. last \notin Open(r.file)
      <4>1. r.file[last] = b  BY <2>3, <2>7, <2>8 DEF Grown
      <4>2. last + 1 \in 1 .. Len(r.file) /\ r.file[last + 1] = e  BY <2>7, <2>8, <3>1
      <4>3. r.file[last + 1] = OnTrack("end", r.file[last].uuid)  BY <1>0, <1>1, <4>1, <4>2
      <4>4. QED  BY <4>2, <4>3 DEF Open
    <3>3. Open(r.file) \subseteq Open(st.file)  BY <2>9, <2>11, <3>2
    <3>4. Cardinality(Open(r.file)) <= Cardinality(Open(st.file))  BY <2>10, <3>3, FS_Subset
    <3>5. r.failures = st.failures  BY <2>6, <2>13
    <3>6. QED  BY <1>3, <2>3, <2>5, <2>10, <3>4, <3>5 DEF Converted
  <2>14. QED  BY <2>3, <2>12, <2>13 DEF Writes
<1>6. QED  BY <1>4, <1>5

LEMMA ConvertedOn ==
    ASSUME NEW st, NEW q, NEW r, StateOK(st), Converted(st, q), Converted(q, r)
    PROVE  Converted(st, r)
<1>1. Grown(st.file, r.file, (Quiet \cup {"begin"}) \cup (Quiet \cup {"begin"}))
  BY GrownOn DEF Converted, StateOK
<1>2. st.failures <= r.failures  BY DEF Converted, StateOK
<1>3. QED  BY <1>1, <1>2 DEF Converted

LEMMA SpanOK ==
    ASSUME NEW st, StateOK(st), NEW id, NEW r \in convert_span(st, id)
    PROVE  Converted(st, r)
<1>1. PICK q \in Resolve(st, id) :
          r \in IF q.ok
                  THEN IF q.ret = 0 THEN {q}
                       ELSE UNION {IF x.ok THEN write_packet(x, OnTrack("end", q.ret)) ELSE {x} :
                                      x \in write_packet(q, OnTrack("begin", q.ret))}
                  ELSE {q}
  BY DEF convert_span, Then
<1>2. /\ StateOK(q) /\ (q.ok /\ q.ret # 0 => Announced(q.file, q.ret))
      /\ Leads(st, q)
  BY ResolveOK DEF Resolves, Leads
<1>3. CASE q.ok /\ q.ret # 0
  <2>1. PICK x \in write_packet(q, OnTrack("begin", q.ret)) :
            r \in IF x.ok THEN write_packet(x, OnTrack("end", q.ret)) ELSE {x}
    BY <1>1, <1>3
  <2>2. PICK uuid : uuid = q.ret  OBVIOUS
  <2>3. Converted(q, r)  BY <1>2, <1>3, <2>1, <2>2, WriteSlice
  <2>4. QED  BY <1>2, <2>3, LeadsConverts, ConvertedOn
<1>4. CASE r = q  BY <1>2, <1>4, LeadsConverts
<1>5. QED  BY <1>1, <1>3, <1>4

LEMMA InstantOK ==
    ASSUME NEW st, StateOK(st), NEW id, NEW r \in convert_instant(st, id)
    PROVE  Converted(st, r)
<1>1. PICK q \in Resolve(st, id) :
          r \in IF q.ok
                  THEN IF q.ret = 0 THEN {q} ELSE write_packet(q, OnTrack("instant", q.ret))
                  ELSE {q}
  BY DEF convert_instant, Then
<1>2. Leads(st, q) /\ StateOK(q) /\ (q.ok /\ q.ret # 0 => Announced(q.file, q.ret))
  BY ResolveOK DEF Resolves, Leads
<1>3. CASE q.ok /\ q.ret # 0
  <2>1. PICK uuid : uuid = q.ret  OBVIOUS
  <2>2. Leads(q, r)  BY <1>1, <1>2, <1>3, <2>1, WriteEvent DEF Events
  <2>3. QED  BY <1>2, <2>2, LeadsOn, LeadsConverts
<1>4. CASE r = q  BY <1>2, <1>4, LeadsConverts
<1>5. QED  BY <1>1, <1>3, <1>4

LEMMA CounterOK ==
    ASSUME NEW st, StateOK(st), NEW id, NEW r \in convert_counter(st, id)
    PROVE  Converted(st, r)
<1>1. CASE id \in DOMAIN st.map
  <2>1. PICK uuid : uuid = st.map[id] /\ Announced(st.file, uuid)  BY <1>1 DEF StateOK
  <2>2. r \in write_packet(st, OnTrack("counter", uuid))  BY <1>1, <2>1 DEF convert_counter
  <2>3. Leads(st, r)  BY <2>1, <2>2, WriteEvent DEF Events
  <2>4. QED  BY <2>3, LeadsConverts
<1>2. CASE id \notin DOMAIN st.map
  <2>1. r = st  BY <1>2 DEF convert_counter
  <2>2. QED  BY <2>1, LeadsSelf, LeadsConverts
<1>3. QED  BY <1>1, <1>2

LEMMA TrackOK ==
    ASSUME NEW st, StateOK(st), NEW id, NEW parent, NEW r \in convert_track(st, id, parent)
    PROVE  Converted(st, r)
<1>1. CASE id \in DOMAIN st.map
  <2>1. r = st  BY <1>1 DEF convert_track
  <2>2. QED  BY <2>1, LeadsSelf, LeadsConverts
<1>2. CASE id \notin DOMAIN st.map
  <2>1. PICK q \in (IF parent = NoParent THEN {[st EXCEPT !.ret = 0]} ELSE Resolve(st, parent)) :
            r \in IF q.ok
                    THEN CASE id[1] = "process" -> ensure_process_track(q, id[2], TRUE)
                           [] id[1] = "thread" -> ensure_thread_track(q, id[2], id[3], TRUE)
                           [] OTHER -> UNION {IF x.ok THEN {Insert(x, id, x.ret)} ELSE {x} :
                                                 x \in write_descriptor(q, id, q.ret, TRUE)}
                    ELSE {q}
    BY <1>2 DEF convert_track, Then
  <2>2. Resolves(st, q)
    <3>1. CASE parent = NoParent  BY <2>1, <3>1, SetRet
    <3>2. CASE parent # NoParent  BY <2>1, <3>2, ResolveOK
    <3>3. QED  BY <3>1, <3>2
  <2>3. Leads(st, q) /\ StateOK(q) /\ (q.ok => q.ret = 0 \/ Announced(q.file, q.ret))
    BY <2>2 DEF Resolves, Leads
  <2>4. ASSUME ~q.ok PROVE Leads(q, r)  BY <2>1, <2>3, <2>4, LeadsSelf
  <2>5. ASSUME q.ok, id[1] = "process" PROVE Leads(q, r)
    <3>1. r \in ensure_process_track(q, id[2], TRUE)  BY <2>1, <2>5
    <3>2. QED  BY <2>3, <3>1, EnsureProcess
  <2>6. ASSUME q.ok, id[1] = "thread" PROVE Leads(q, r)
    <3>1. r \in ensure_thread_track(q, id[2], id[3], TRUE)  BY <2>1, <2>6
    <3>2. PICK p, t : p = id[2] /\ t = id[3]  OBVIOUS
    <3>3. r \in ensure_thread_track(q, p, t, TRUE)  BY <3>1, <3>2
    <3>4. QED  BY <2>3, <3>3, EnsureThread
  <2>7. ASSUME q.ok, id[1] # "process", id[1] # "thread" PROVE Leads(q, r)
    <3>1. PICK x \in write_descriptor(q, id, q.ret, TRUE) :
              r \in IF x.ok THEN {Insert(x, id, x.ret)} ELSE {x}
      BY <2>1, <2>7
    <3>2. PICK up : up = q.ret  OBVIOUS
    <3>3. x \in write_descriptor(q, id, up, TRUE) /\ (up = 0 \/ Announced(q.file, up))
      BY <2>3, <2>7, <3>1, <3>2
    <3>4. QED  BY <2>3, <3>1, <3>3, DescribeAndInsert
  <2>8. Leads(q, r)  BY <2>4, <2>5, <2>6, <2>7
  <2>9. QED  BY <2>3, <2>8, LeadsOn, LeadsConverts
<1>3. QED  BY <1>1, <1>2

-----------------------------------------------------------------------------
(* What a message does to the file.                                          *)

\* The converter's part of the inductive invariant.
TrackInv == StateOK(St) /\ Cardinality(Open(file)) <= failures

LEMMA CommitKeeps ==
    ASSUME TrackInv, NEW results, Commit(results), \A r \in results : Converted(St, r)
    PROVE  /\ TrackInv' /\ Grown(file, file', Quiet \cup {"begin"})
           /\ IsFile(file) /\ IsFile(file') /\ failures <= failures'
<1>1. PICK r \in results : track_map' = r.map /\ file' = r.file /\ failures' = r.failures
  BY DEF Commit
<1>2. Converted(St, r) /\ St.file = file /\ St.failures = failures  BY <1>1 DEF St
<1>3. /\ St'.file = r.file /\ St'.map = r.map /\ St'.failures = r.failures
      /\ DOMAIN St' = {"ok", "ret", "map", "next", "file", "failures"}
  BY <1>1 DEF St
<1>4. StateOK(St')  BY <1>2, <1>3 DEF Converted, StateOK
<1>5. Cardinality(Open(file)) <= failures  BY DEF TrackInv
<1>6. QED  BY <1>1, <1>2, <1>4, <1>5 DEF TrackInv, Converted, StateOK

LEMMA ConvertKeeps ==
    ASSUME TrackInv, convert_event
    PROVE  /\ TrackInv' /\ Grown(file, file', Quiet \cup {"begin"})
           /\ IsFile(file) /\ IsFile(file') /\ failures <= failures'
<1> DEFINE Kept == /\ TrackInv' /\ Grown(file, file', Quiet \cup {"begin"})
                   /\ IsFile(file) /\ IsFile(file') /\ failures <= failures'
<1>1. StateOK(St)  BY DEF TrackInv
<1>2. ASSUME NEW id, NEW parent, Commit(convert_track(St, id, parent)) PROVE Kept
  BY <1>1, <1>2, TrackOK, CommitKeeps
<1>3. ASSUME NEW id, Commit(convert_span(St, id)) PROVE Kept
  BY <1>1, <1>3, SpanOK, CommitKeeps
<1>4. ASSUME NEW id, Commit(convert_instant(St, id)) PROVE Kept
  BY <1>1, <1>4, InstantOK, CommitKeeps
<1>5. ASSUME NEW id, Commit(convert_counter(St, id)) PROVE Kept
  BY <1>1, <1>5, CounterOK, CommitKeeps
<1> HIDE DEF Kept
<1>6. Kept  BY <1>2, <1>3, <1>4, <1>5 DEF convert_event
<1>7. QED  BY <1>6 DEF Kept

\* Samples and interned data are on no track.
LEMMA PlainPacket ==
    ASSUME NEW st, StateOK(st), NEW packet, packet.type \in {"sample", "interned"},
           NEW r \in write_packet(st, packet)
    PROVE  /\ StateOK(r) /\ Writes(st, packet, r) /\ st.failures <= r.failures
           /\ Cardinality(Open(st.file)) <= st.failures => Cardinality(Open(r.file)) <= r.failures
<1>1. Follows(st.file, packet)  BY DEF Follows, Events
<1>2. /\ StateOK(r) /\ Writes(st, packet, r) /\ st.failures <= r.failures
      /\ Grown(st.file, r.file, {packet.type})
  BY <1>1, WriteAny
<1>3. /\ IsFile(st.file) /\ IsFile(r.file) /\ st.failures \in Nat /\ r.failures \in Nat
  BY <1>2 DEF StateOK
<1>4. /\ Cardinality(Open(r.file)) <= Cardinality(Open(st.file))
      /\ Cardinality(Open(r.file)) \in Nat /\ Cardinality(Open(st.file)) \in Nat
  BY <1>2, <1>3, OpenGrown, OpenFinite
<1>5. QED  BY <1>2, <1>3, <1>4

\* What consume_sample() does to the file: the packet with what is new, if there
\* is one, and the sample, either of which may be missing after a failed write.
Sampled(packets, sample) ==
    \E g : /\ IsFile(g)
           /\ \/ g = file /\ (packets = <<>> \/ failures' > 0)
              \/ packets # <<>> /\ g = Append(file, packets[1])
           /\ file' = Append(g, sample) \/ (file' = g /\ failures' > 0)

LEMMA SampleWrites ==
    ASSUME TrackInv, NEW packets, packets # <<>> => packets[1].type = "interned",
           NEW sample, sample.type = "sample", NEW written,
           \A r \in written :
                (packets = <<>> /\ r = St) \/ (packets # <<>> /\ r \in write_packet(St, packets[1])),
           NEW results, Commit(results),
           \A q \in results : \E r \in written : q \in write_packet([r EXCEPT !.ok = TRUE], sample)
    PROVE  /\ TrackInv' /\ Sampled(packets, sample)
           /\ IsFile(file) /\ IsFile(file') /\ failures <= failures'
<1>1. PICK q \in results : track_map' = q.map /\ file' = q.file /\ failures' = q.failures
  BY DEF Commit
<1>2. PICK r \in written : q \in write_packet([r EXCEPT !.ok = TRUE], sample)  BY <1>1
<1>3. /\ StateOK(St) /\ St.file = file /\ St.failures = failures /\ failures \in Nat
      /\ Cardinality(Open(file)) <= failures
  BY DEF TrackInv, St, StateOK
<1>4. /\ StateOK(r) /\ failures <= r.failures /\ Cardinality(Open(r.file)) <= r.failures
      /\ (packets = <<>> /\ r.file = file) \/ (packets # <<>> /\ Writes(St, packets[1], r))
  <2>1. CASE packets = <<>>  BY <1>3, <2>1
  <2>2. CASE packets # <<>>  BY <1>3, <2>2, PlainPacket
  <2>3. QED  BY <2>1, <2>2
<1>5. PICK x : x = [r EXCEPT !.ok = TRUE]  OBVIOUS
<1>6. DOMAIN x = DOMAIN r /\ x.file = r.file /\ x.map = r.map /\ x.failures = r.failures
  BY <1>4, <1>5 DEF StateOK
<1>7. StateOK(x)  BY <1>4, <1>6 DEF StateOK
<1>8. /\ StateOK(q) /\ Writes(x, sample, q) /\ x.failures <= q.failures
      /\ Cardinality(Open(q.file)) <= q.failures
  <2>1. q \in write_packet(x, sample)  BY <1>2, <1>5
  <2>2. Cardinality(Open(x.file)) <= x.failures  BY <1>4, <1>6
  <2>3. QED  BY <1>7, <2>1, <2>2, PlainPacket
<1>9. r.failures \in Nat /\ q.failures \in Nat /\ IsFile(r.file) /\ IsFile(file) /\ IsFile(file')
  BY <1>1, <1>3, <1>4, <1>8 DEF StateOK
<1>10. failures <= failures'  BY <1>1, <1>3, <1>4, <1>6, <1>8, <1>9
<1>11. TrackInv'
  <2>1. /\ St'.file = q.file /\ St'.map = q.map /\ St'.failures = q.failures
        /\ DOMAIN St' = {"ok", "ret", "map", "next", "file", "failures"}
    BY <1>1 DEF St
  <2>2. StateOK(St')  BY <1>8, <2>1 DEF StateOK
  <2>3. QED  BY <1>1, <1>8, <2>2 DEF TrackInv
<1>12. Sampled(packets, sample)
  <2>1. \/ r.file = file /\ (packets = <<>> \/ failures' > 0)
        \/ packets # <<>> /\ r.file = Append(file, packets[1])
    BY <1>1, <1>3, <1>4, <1>6, <1>8, <1>9 DEF Writes
  <2>2. file' = Append(r.file, sample) \/ (file' = r.file /\ failures' > 0)
    BY <1>1, <1>6, <1>8, <1>9 DEF Writes
  <2>3. QED  BY <1>9, <2>1, <2>2 DEF Sampled
<1>13. QED  BY <1>9, <1>10, <1>11, <1>12

\* The stack that is found for a sample.
StackOf(e) == [user |-> get_stack_frames(e.ustack_id), kernel |-> get_stack_frames(e.kstack_id)]

\* A sample that is consumed, in short.
Consumes(e, s, d) ==
    /\ samples # <<>> /\ e = Head(samples) /\ s = StackOf(e) /\ d = data(cache, e.pid, s)
    /\ Sampled(d.packets, [type |-> "sample", callstack |-> d.iid, pid |-> e.pid, stack |-> s])
    /\ cache' = d.cache /\ samples' = Tail(samples) /\ stackmap' = stackmap
    /\ IsFile(file) /\ IsFile(file') /\ failures <= failures'

LEMMA SampleKeeps ==
    ASSUME TrackInv, consume_sample PROVE TrackInv' /\ \E e, s, d : Consumes(e, s, d)
<1>1. PICK e, s : e = Head(samples) /\ s = StackOf(e)  OBVIOUS
<1>2. PICK d : d = data(cache, e.pid, s)  OBVIOUS
<1>3. PICK sample : sample = [type |-> "sample", callstack |-> d.iid, pid |-> e.pid, stack |-> s]
  OBVIOUS
<1>4. PICK written : written = IF d.packets = <<>> THEN {St} ELSE write_packet(St, d.packets[1])
  OBVIOUS
<1>5. /\ Commit(UNION {write_packet([r EXCEPT !.ok = TRUE], sample) : r \in written})
      /\ cache' = d.cache
  BY <1>1, <1>2, <1>3, <1>4 DEF consume_sample, StackOf
<1>6. d.packets # <<>> => d.packets[1].type = "interned"  BY <1>2 DEF data
<1>7. sample.type = "sample"  BY <1>3
<1>8. /\ TrackInv' /\ Sampled(d.packets, sample)
      /\ IsFile(file) /\ IsFile(file') /\ failures <= failures'
  <2>1. PICK packets : packets = d.packets  OBVIOUS
  <2>2. packets # <<>> => packets[1].type = "interned"  BY <1>6, <2>1
  <2>3. \A r \in written :
                (packets = <<>> /\ r = St) \/ (packets # <<>> /\ r \in write_packet(St, packets[1]))
    BY <1>4, <2>1
  <2> DEFINE results == UNION {write_packet([r EXCEPT !.ok = TRUE], sample) : r \in written}
  <2>4. \A q \in results : \E r \in written : q \in write_packet([r EXCEPT !.ok = TRUE], sample)
    OBVIOUS
  <2>5. Commit(results)  BY <1>5
  <2> HIDE DEF results
  <2>6. /\ TrackInv' /\ Sampled(packets, sample)
        /\ IsFile(file) /\ IsFile(file') /\ failures <= failures'
    BY <1>7, <2>2, <2>3, <2>4, <2>5, SampleWrites
  <2>7. QED  BY <2>1, <2>6 DEF Sampled
<1>9. samples # <<>> /\ samples' = Tail(samples) /\ stackmap' = stackmap  BY DEF consume_sample
<1>10. Consumes(e, s, d)  BY <1>1, <1>2, <1>3, <1>5, <1>8, <1>9 DEF Consumes
<1>11. QED  BY <1>8, <1>10

LEMMA InitOK == ASSUME Init PROVE TrackInv
<1>1. /\ St.file = <<>> /\ DOMAIN St.map = {} /\ St.failures = 0 /\ failures = 0 /\ file = <<>>
      /\ DOMAIN St = {"ok", "ret", "map", "next", "file", "failures"}
  BY DEF Init, ConverterInit, St
<1>2. <<>> \in Seq({})  OBVIOUS
<1>3. IsFile(<<>>) /\ FileOK(<<>>) /\ Open(<<>>) = {}  BY <1>2 DEF IsFile, FileOK, Open
<1>4. Cardinality(Open(<<>>)) = 0  BY <1>3, FS_EmptySet
<1>5. QED  BY <1>1, <1>3, <1>4 DEF TrackInv, StateOK

LEMMA UnchangedKeeps == ASSUME TrackInv, UNCHANGED converterVars PROVE TrackInv'
  BY DEF TrackInv, converterVars, St

LEMMA NextKeeps == ASSUME TrackInv, [Next]_vars PROVE TrackInv'
<1>1. CASE Next
  BY <1>1, ConvertKeeps, SampleKeeps, UnchangedKeeps DEF Next, profiler_perf_event, drop_sample
<1>2. CASE UNCHANGED vars  BY <1>2, UnchangedKeeps DEF vars
<1>3. QED  BY <1>1, <1>2

\* Whatever messages come in whatever order, and wherever writes fail, every
\* event of the trace is on a track that was described before it, and every
\* track comes after its parent: the converter's maps never run ahead of the file.
THEOREM TracksComeFirst == Spec => []TracksFirst
<1>1. TrackInv => TracksFirst
  <2> SUFFICES ASSUME TrackInv PROVE TracksFirst  OBVIOUS
  <2>1. IsFile(file) /\ FileOK(file)  BY DEF TrackInv, StateOK, St
  <2>2. DOMAIN file = 1 .. Len(file)  BY <2>1, FileLength
  <2>3. QED  BY <2>1, <2>2 DEF FileOK, TracksFirst, Describes, Events
<1>2. QED  BY InitOK, NextKeeps, <1>1, PTL DEF Spec

\* At most as many slices stay open in the trace as writes have failed: the begin
\* and the end of a span are written by convert_span() one after the other, on
\* the same track, and nothing comes between them.
THEOREM SlicesAreClosed == Spec => []SlicesClosed
<1>1. TrackInv => SlicesClosed
  <2> SUFFICES ASSUME TrackInv PROVE SlicesClosed  OBVIOUS
  <2>1. DOMAIN file = 1 .. Len(file)  BY FileLength DEF TrackInv, StateOK, St
  <2>2. Open(file) = {i \in DOMAIN file : /\ file[i].type = "begin"
                                          /\ ~ /\ i + 1 \in DOMAIN file
                                               /\ file[i + 1] = OnTrack("end", file[i].uuid)}
    BY <2>1 DEF Open
  <2>3. QED  BY <2>2 DEF TrackInv, SlicesClosed
<1>2. QED  BY InitOK, NextKeeps, <1>1, PTL DEF Spec

-----------------------------------------------------------------------------
(* The tables of the interning cache.                                       *)

\* Induction on the naturals, for a set of them: WFMin gives its least missing element.
LEMMA NatSetInduction ==
    ASSUME NEW P, 0 \in P, \A n \in Nat : n \in P => n + 1 \in P
    PROVE  Nat \subseteq P
<1> SUFFICES ASSUME Nat \ P # {} PROVE FALSE
  OBVIOUS
<1>1. PICK m \in Nat \ P : \A y \in Nat \ P : ~ (<<y, m>> \in OpToRel(<, Nat))
  <2>1. \A T : T \subseteq Nat /\ T # {} => \E x \in T : \A y \in T : ~ (<<y, x>> \in OpToRel(<, Nat))
    BY NatLessThanWellFounded, WFMin
  <2>. QED BY <2>1
<1>2. m \in Nat /\ m # 0
  BY <1>1
<1>3. m - 1 \in Nat /\ m - 1 < m /\ (m - 1) + 1 = m
  BY <1>2
<1>4. <<m - 1, m>> \in OpToRel(<, Nat)
  BY <1>2, <1>3 DEF OpToRel
<1>5. m - 1 \in P
  BY <1>1, <1>3, <1>4
<1>6. QED  BY <1>1, <1>2, <1>3, <1>5

\* Ids are given out in order, each once.
IsTable(t) ==
    /\ t \in [DOMAIN t -> Nat] /\ IsFiniteSet(DOMAIN t)
    /\ \A k \in DOMAIN t : t[k] < Cardinality(DOMAIN t)
    /\ \A k, l \in DOMAIN t : t[k] = t[l] => k = l

Added(t, key, u) == key \notin DOMAIN t /\ u = Add(t, key, NextId(t))

OneMore(t, key, u) ==
    /\ IsTable(u) /\ DOMAIN u = DOMAIN t \cup {key} /\ u[key] = NextId(t)
    /\ \A k \in DOMAIN t : u[k] = t[k]

LEMMA AddNew ==
    ASSUME NEW t, IsTable(t), NEW key, NEW u, Added(t, key, u) PROVE OneMore(t, key, u)
<1>1. /\ DOMAIN u = DOMAIN t \cup {key} /\ u[key] = NextId(t)
      /\ \A k \in DOMAIN t : u[k] = t[k]
  BY DEF Add, Added
<1>2. /\ IsFiniteSet(DOMAIN u) /\ Cardinality(DOMAIN u) = Cardinality(DOMAIN t) + 1
      /\ Cardinality(DOMAIN t) \in Nat
  BY <1>1, FS_AddElement, FS_CardinalityType DEF IsTable, Added
<1>3. PICK n \in Nat : /\ n = Cardinality(DOMAIN t) /\ u[key] = n /\ Cardinality(DOMAIN u) = n + 1
                       /\ \A k \in DOMAIN t : t[k] \in Nat /\ t[k] < n
  BY <1>1, <1>2 DEF IsTable, NextId
<1>4. ASSUME NEW k \in DOMAIN u PROVE u[k] \in Nat /\ u[k] < n + 1
  <2>1. CASE k = key  BY <1>3, <2>1
  <2>2. CASE k \in DOMAIN t
    <3>1. u[k] = t[k] /\ t[k] \in Nat /\ t[k] < n  BY <1>1, <1>3, <2>2
    <3>2. QED  BY <3>1
  <2>3. QED  BY <1>1, <2>1, <2>2
<1>5. ASSUME NEW k \in DOMAIN u, NEW l \in DOMAIN u, u[k] = u[l] PROVE k = l
  <2>1. CASE k \in DOMAIN t /\ l \in DOMAIN t
    <3>1. t[k] = t[l]  BY <1>1, <1>5, <2>1
    <3>2. QED  BY <2>1, <3>1 DEF IsTable
  <2>2. CASE k = key /\ l \in DOMAIN t
    <3>1. t[l] = n /\ t[l] < n /\ t[l] \in Nat  BY <1>1, <1>3, <1>5, <2>2
    <3>2. QED  BY <3>1
  <2>3. CASE l = key /\ k \in DOMAIN t
    <3>1. t[k] = n /\ t[k] < n /\ t[k] \in Nat  BY <1>1, <1>3, <1>5, <2>3
    <3>2. QED  BY <3>1
  <2>4. QED  BY <1>1, <2>1, <2>2, <2>3
<1>6. u \in [DOMAIN u -> Nat]
  <2>1. u = [k \in DOMAIN t \cup {key} |-> IF k = key THEN NextId(t) ELSE t[k]]  BY DEF Add, Added, Added
  <2>2. QED  BY <1>1, <1>4, <2>1
<1>7. QED  BY <1>1, <1>2, <1>3, <1>4, <1>5, <1>6 DEF IsTable, OneMore

LEMMA AddOld ==
    ASSUME NEW t, IsTable(t), NEW key \in DOMAIN t PROVE Add(t, key, t[key]) = t
<1>1. t = [k \in DOMAIN t |-> t[k]]
  <2>1. t \in [DOMAIN t -> Nat]  BY DEF IsTable
  <2>2. QED  BY <2>1
<1>2. DOMAIN t \cup {key} = DOMAIN t  OBVIOUS
<1>3. QED  BY <1>1, <1>2 DEF Add

CacheOK(c) ==
    /\ DOMAIN c = {"frames", "stacks", "next_function", "unknown", "mapping", "first"}
    /\ IsTable(c.frames) /\ IsTable(c.stacks) /\ c.mapping \in BOOLEAN /\ c.first \in BOOLEAN

\* The table u has all of t.
Within(t, u) == \A k \in DOMAIN t : k \in DOMAIN u /\ u[k] = t[k]

\* The ids of the first n frames.
IdsOf(table, keys, n) == [i \in 1 .. n |-> table[keys[i]]]

-----------------------------------------------------------------------------
(* The frames of a stack.                                                   *)

\* What Frames() has collected in a after the first n frames.
Interning(c, keys, n, a) ==
    /\ DOMAIN a = {"cache", "data"} /\ DOMAIN a.data = {"functions", "frames", "mappings", "ids"}
    /\ CacheOK(a.cache) /\ a.cache.stacks = c.stacks /\ a.cache.first = c.first /\ a.cache.mapping
    /\ IF c.unknown = None THEN a.cache.unknown \in a.data.functions
       ELSE a.cache.unknown = c.unknown
    /\ a.data.mappings = IF c.mapping THEN {} ELSE {1}
    /\ Within(c.frames, a.cache.frames)
    /\ \A i \in 1 .. n : keys[i] \in DOMAIN a.cache.frames
    /\ a.data.ids = IdsOf(a.cache.frames, keys, n)
    /\ \A k \in DOMAIN a.cache.frames :
           k \in DOMAIN c.frames \/ \E f \in a.data.frames : f.iid = a.cache.frames[k]
    /\ \A f \in a.data.frames :
           f.mapping = 1 /\ (f.function \in a.data.functions \/ f.function = a.cache.unknown)

LEMMA InterningStart ==
    ASSUME NEW c, CacheOK(c), NEW keys, NEW a, a = Start(c) PROVE Interning(c, keys, 0, a)
<1>1. /\ DOMAIN a = {"cache", "data"} /\ DOMAIN a.data = {"functions", "frames", "mappings", "ids"}
      /\ a.data.frames = {} /\ a.data.ids = <<>>
      /\ a.data.functions = (IF c.unknown = None THEN {c.next_function} ELSE {})
      /\ a.data.mappings = (IF c.mapping THEN {} ELSE {1})
  BY DEF Start, NoData
<1>2. /\ DOMAIN a.cache = DOMAIN c /\ a.cache.frames = c.frames /\ a.cache.stacks = c.stacks
      /\ a.cache.first = c.first /\ a.cache.mapping = TRUE
      /\ a.cache.unknown = (IF c.unknown = None THEN c.next_function ELSE c.unknown)
  BY DEF Start, CacheOK
<1>3. CacheOK(a.cache)  BY <1>2 DEF CacheOK
<1>4. a.data.ids = IdsOf(a.cache.frames, keys, 0)  BY <1>1 DEF IdsOf
<1>5. \A i \in 1 .. 0 : keys[i] \in DOMAIN a.cache.frames  OBVIOUS
<1>6. Within(c.frames, a.cache.frames)  BY <1>2 DEF Within
<1>7. QED  BY <1>1, <1>2, <1>3, <1>4, <1>5, <1>6 DEF Interning

LEMMA AppendId ==
    ASSUME NEW t, NEW u, NEW keys, NEW n \in Nat, \A i \in 1 .. n : u[keys[i]] = t[keys[i]]
    PROVE  Append(IdsOf(t, keys, n), u[keys[n + 1]]) = IdsOf(u, keys, n + 1)
<1> DEFINE s == IdsOf(t, keys, n)
           S == {t[keys[i]] : i \in 1 .. n} \cup {u[keys[n + 1]]}
           x == u[keys[n + 1]]
<1>1. s \in [1 .. n -> S] /\ x \in S /\ \A i \in 1 .. n : s[i] = u[keys[i]]  BY DEF IdsOf
<1> HIDE DEF s, S, x
<1>2. s \in Seq(S) /\ Len(s) = n  BY <1>1
<1>3. /\ Append(s, x) \in Seq(S) /\ Len(Append(s, x)) = n + 1 /\ Append(s, x)[n + 1] = x
      /\ \A i \in 1 .. n : Append(s, x)[i] = s[i]
  BY <1>1, <1>2
<1>4. DOMAIN Append(s, x) = 1 .. n + 1 /\ Append(s, x) = [i \in 1 .. n + 1 |-> Append(s, x)[i]]
  <2>1. PICK y : y = Append(s, x)  OBVIOUS
  <2>2. y \in Seq(S) /\ Len(y) = n + 1  BY <1>3, <2>1
  <2>3. y \in [1 .. n + 1 -> S]  BY <2>2
  <2>4. QED  BY <2>1, <2>3
<1>5. \A i \in 1 .. n + 1 : Append(s, x)[i] = u[keys[i]]  BY <1>1, <1>3 DEF x
<1>6. Append(s, x) = [i \in 1 .. n + 1 |-> u[keys[i]]]  BY <1>4, <1>5
<1>7. QED  BY <1>6 DEF s, x, IdsOf

LEMMA InterningFrame ==
    ASSUME NEW c, NEW keys, NEW n \in Nat, NEW a, Interning(c, keys, n, a),
           NEW b, b = Frame(a, keys[n + 1])
    PROVE  Interning(c, keys, n + 1, b)
<1>0. PICK key : key = keys[n + 1]  OBVIOUS
<1>1. /\ DOMAIN a = {"cache", "data"} /\ DOMAIN a.data = {"functions", "frames", "mappings", "ids"}
      /\ DOMAIN a.cache = {"frames", "stacks", "next_function", "unknown", "mapping", "first"}
      /\ IsTable(a.cache.frames)
  BY DEF Interning, CacheOK
<1>2. CASE key \in DOMAIN a.cache.frames
  <2>1. b = [a EXCEPT !.data.ids = Append(@, a.cache.frames[key])]  BY <1>0, <1>2 DEF Frame
  <2>2. /\ DOMAIN b = DOMAIN a /\ b.cache = a.cache /\ DOMAIN b.data = DOMAIN a.data
        /\ b.data.functions = a.data.functions /\ b.data.frames = a.data.frames
        /\ b.data.mappings = a.data.mappings
        /\ b.data.ids = Append(a.data.ids, a.cache.frames[key])
    BY <1>1, <2>1
  <2>3. b.data.ids = IdsOf(b.cache.frames, keys, n + 1)
    BY <1>0, <2>2, AppendId, SMTT(60) DEF Interning
  <2>4. \A i \in 1 .. n + 1 : keys[i] \in DOMAIN b.cache.frames  BY <1>0, <1>2, <2>2 DEF Interning
  <2>5. QED  BY <2>2, <2>3, <2>4 DEF Interning
<1>3. CASE key \notin DOMAIN a.cache.frames
  <2> DEFINE id == NextId(a.cache.frames)
             known == key[2] \in Known
             function == IF known THEN a.cache.next_function ELSE a.cache.unknown
             frame == [iid |-> id, function |-> function, mapping |-> 1]
             nc == [a.cache EXCEPT !.frames = Add(@, key, id),
                                   !.next_function = IF known THEN @ + 1 ELSE @]
             nd == [a.data EXCEPT !.ids = Append(@, id),
                                  !.functions = IF known THEN @ \cup {function} ELSE @,
                                  !.frames = @ \cup {frame}]
  <2>1. b = [cache |-> nc, data |-> nd]  BY <1>0, <1>3 DEF Frame
  <2>2. /\ DOMAIN nc = DOMAIN a.cache /\ nc.frames = Add(a.cache.frames, key, id)
        /\ nc.stacks = a.cache.stacks /\ nc.first = a.cache.first /\ nc.unknown = a.cache.unknown
        /\ nc.mapping = a.cache.mapping
    BY <1>1
  <2>3. /\ DOMAIN nd = DOMAIN a.data /\ nd.ids = Append(a.data.ids, id)
        /\ nd.functions = (IF known THEN a.data.functions \cup {function} ELSE a.data.functions)
        /\ nd.frames = a.data.frames \cup {frame} /\ nd.mappings = a.data.mappings
    BY <1>1
  <2>4. /\ frame.iid = id /\ frame.mapping = 1
        /\ frame.function \in nd.functions \/ frame.function = nc.unknown
    BY <2>2, <2>3
  <2>5. DOMAIN b = {"cache", "data"} /\ b.cache = nc /\ b.data = nd  BY <2>1
  <2> HIDE DEF frame, nc, nd
  <2>6. /\ IsTable(nc.frames) /\ DOMAIN nc.frames = DOMAIN a.cache.frames \cup {key}
        /\ nc.frames[key] = id /\ \A k \in DOMAIN a.cache.frames : nc.frames[k] = a.cache.frames[k]
    <3>1. PICK t, u : t = a.cache.frames /\ u = nc.frames  OBVIOUS
    <3>2. IsTable(t) /\ Added(t, key, u)  BY <1>1, <1>3, <2>2, <3>1 DEF Added
    <3>3. OneMore(t, key, u)  BY <3>2, AddNew
    <3>4. QED  BY <3>1, <3>3 DEF OneMore
  <2> HIDE DEF id, function, known
  <2>7. CacheOK(nc)  BY <2>2, <2>6 DEF Interning, CacheOK
  <2>8. \A i \in 1 .. n + 1 : keys[i] \in DOMAIN nc.frames  BY <1>0, <2>6 DEF Interning
  <2>9. nd.ids = IdsOf(nc.frames, keys, n + 1)
    <3>1. \A i \in 1 .. n : nc.frames[keys[i]] = a.cache.frames[keys[i]]
      BY <2>6 DEF Interning
    <3>2. Append(IdsOf(a.cache.frames, keys, n), nc.frames[keys[n + 1]]) = IdsOf(nc.frames, keys, n + 1)
      <4>1. PICK t, u : t = a.cache.frames /\ u = nc.frames  OBVIOUS
      <4>2. \A i \in 1 .. n : u[keys[i]] = t[keys[i]]  BY <3>1, <4>1
      <4>3. Append(IdsOf(t, keys, n), u[keys[n + 1]]) = IdsOf(u, keys, n + 1)  BY <4>2, AppendId
      <4>4. QED  BY <4>1, <4>3
    <3>3. QED  BY <1>0, <2>3, <2>6, <3>2 DEF Interning
  <2>10. Within(c.frames, nc.frames)  BY <2>6 DEF Interning, Within
  <2>11. ASSUME NEW k \in DOMAIN nc.frames
         PROVE  k \in DOMAIN c.frames \/ \E f \in nd.frames : f.iid = nc.frames[k]
    <3>1. CASE k = key  BY <2>3, <2>4, <2>6, <3>1
    <3>2. CASE k # key  BY <2>3, <2>6, <3>2 DEF Interning
    <3>3. QED  BY <3>1, <3>2
  <2>12. ASSUME NEW f \in nd.frames
         PROVE  f.mapping = 1 /\ (f.function \in nd.functions \/ f.function = nc.unknown)
    <3>1. CASE f = frame  BY <2>4, <3>1
    <3>2. CASE f # frame  BY <2>2, <2>3, <3>2 DEF Interning
    <3>3. QED  BY <3>1, <3>2
  <2>13. IF c.unknown = None THEN nc.unknown \in nd.functions ELSE nc.unknown = c.unknown
    BY <2>2, <2>3 DEF Interning
  <2>14. /\ nc.stacks = c.stacks /\ nc.first = c.first /\ nc.mapping
         /\ nd.mappings = (IF c.mapping THEN {} ELSE {1})
    BY <2>2, <2>3 DEF Interning
  <2>15. DOMAIN nd = {"functions", "frames", "mappings", "ids"}  BY <1>1, <2>3
  <2>16. QED
    BY <2>5, <2>7, <2>8, <2>9, <2>10, <2>11, <2>12, <2>13, <2>14, <2>15 DEF Interning
<1>4. QED  BY <1>2, <1>3

\* w is the function with which Frames() walks along the frames.
Walking(c, keys, n, w) ==
    w = [i \in 0 .. n |-> IF i = 0 THEN Start(c) ELSE Frame(w[i - 1], keys[i])]

LEMMA WalkingExists == ASSUME NEW c, NEW keys, NEW n \in Nat PROVE \E w : Walking(c, keys, n, w)
<1> DEFINE P == {m \in Nat : \E w : Walking(c, keys, m, w)}
<1>1. 0 \in P
  <2>1. PICK w : w = [i \in 0 .. 0 |-> Start(c)]  OBVIOUS
  <2>2. w = [i \in 0 .. 0 |-> IF i = 0 THEN Start(c) ELSE Frame(w[i - 1], keys[i])]
    BY <2>1
  <2>3. QED  BY <2>2 DEF Walking
<1>2. ASSUME NEW m \in Nat, m \in P PROVE m + 1 \in P
  <2>1. PICK w : Walking(c, keys, m, w)  BY <1>2
  <2>2. PICK v : v = [i \in 0 .. m + 1 |-> IF i = 0 THEN Start(c) ELSE Frame(w[i - 1], keys[i])]
    OBVIOUS
  <2>3. \A i \in 0 .. m : v[i] = w[i]
    <3>1. \A i \in 0 .. m : w[i] = IF i = 0 THEN Start(c) ELSE Frame(w[i - 1], keys[i])
      BY <2>1 DEF Walking
    <3>2. \A i \in 0 .. m : i \in 0 .. m + 1  OBVIOUS
    <3>3. QED  BY <2>2, <3>1, <3>2
  <2>4. \A i \in 0 .. m + 1 : i # 0 => v[i - 1] = w[i - 1]
    <3>1. \A i \in 0 .. m + 1 : i # 0 => i - 1 \in 0 .. m  OBVIOUS
    <3>2. QED  BY <2>3, <3>1
  <2>5. v = [i \in 0 .. m + 1 |-> IF i = 0 THEN Start(c) ELSE Frame(v[i - 1], keys[i])]
    BY <2>2, <2>4
  <2>6. QED  BY <2>5 DEF Walking
<1> HIDE DEF P
<1>3. n \in P  BY <1>1, <1>2, NatSetInduction
<1>4. QED  BY <1>3 DEF P

LEMMA FramesOK ==
    ASSUME NEW c, CacheOK(c), NEW keys, Len(keys) \in Nat, NEW a, a = Frames(c, keys)
    PROVE  Interning(c, keys, Len(keys), a)
<1>1. PICK w : w = (CHOOSE v : Walking(c, keys, Len(keys), v))  OBVIOUS
<1>2. Walking(c, keys, Len(keys), w)  BY <1>1, WalkingExists
<1>3. a = w[Len(keys)]  BY <1>1, Zenon DEF Frames, Walking
<1>4. \A i \in 0 .. Len(keys) : w[i] = IF i = 0 THEN Start(c) ELSE Frame(w[i - 1], keys[i])
  BY <1>2 DEF Walking
<1> DEFINE P == {n \in Nat : n <= Len(keys) => Interning(c, keys, n, w[n])}
<1>5. 0 \in P
  <2>1. w[0] = Start(c)  BY <1>4
  <2>2. QED  BY <2>1, InterningStart
<1>6. ASSUME NEW n \in Nat, n \in P PROVE n + 1 \in P
  <2> SUFFICES ASSUME n + 1 <= Len(keys) PROVE Interning(c, keys, n + 1, w[n + 1])
    OBVIOUS
  <2>1. Interning(c, keys, n, w[n])  BY <1>6
  <2>2. n + 1 \in 0 .. Len(keys) /\ n + 1 # 0 /\ (n + 1) - 1 = n  OBVIOUS
  <2>3. w[n + 1] = Frame(w[(n + 1) - 1], keys[n + 1])  BY <1>4, <2>2
  <2>4. w[n + 1] = Frame(w[n], keys[n + 1])  BY <2>2, <2>3
  <2>5. PICK x, b : x = w[n] /\ b = w[n + 1]  OBVIOUS
  <2>6. QED  BY <2>1, <2>4, <2>5, InterningFrame
<1> HIDE DEF P
<1>7. Len(keys) \in P  BY <1>5, <1>6, NatSetInduction
<1>8. QED  BY <1>3, <1>7 DEF P

-----------------------------------------------------------------------------
(* The interned data of a stack.                                            *)

\* What data() makes of what Frames() has collected in a.
Interns(c, keys, a, d) ==
    /\ Interning(c, keys, Len(keys), a)
    /\ CacheOK(d.cache) /\ d.cache.frames = a.cache.frames /\ d.cache.unknown = a.cache.unknown
    /\ d.cache.mapping /\ Within(c.stacks, d.cache.stacks)
    /\ DOMAIN d.cache.stacks = DOMAIN c.stacks \cup {a.data.ids}
    /\ d.cache.stacks[a.data.ids] = d.iid
    /\ IF d.packets = <<>>
       THEN /\ a.data.ids \in DOMAIN c.stacks /\ a.data.frames = {}
            /\ a.data.functions = {} /\ a.data.mappings = {} /\ d.cache.first = c.first
       ELSE /\ ~d.cache.first
            /\ d.packets[1] = [type |-> "interned", cleared |-> c.first,
                               functions |-> a.data.functions, frames |-> a.data.frames,
                               mappings |-> a.data.mappings,
                               callstack |-> [iid |-> d.iid, frames |-> a.data.ids]]

LEMMA DataOK ==
    ASSUME NEW c, CacheOK(c), NEW p, NEW s, Len(FrameKeys(p, s)) \in Nat, NEW d, d = data(c, p, s)
    PROVE  \E a : Interns(c, FrameKeys(p, s), a, d)
<1>0. PICK keys : keys = FrameKeys(p, s)  OBVIOUS
<1>1. PICK a : a = Frames(c, keys)  OBVIOUS
<1>2. Interning(c, keys, Len(keys), a)  BY <1>0, <1>1, FramesOK
<1> DEFINE ids == a.data.ids
           known == ids \in DOMAIN a.cache.stacks
           id == IF known THEN a.cache.stacks[ids] ELSE NextId(a.cache.stacks)
           fresh == ~known \/ a.data.functions # {} \/ a.data.frames # {} \/ a.data.mappings # {}
           nc == [a.cache EXCEPT !.stacks = Add(@, ids, id), !.first = @ /\ ~fresh]
           packet == [type |-> "interned", cleared |-> a.cache.first,
                      functions |-> a.data.functions, frames |-> a.data.frames,
                      mappings |-> a.data.mappings, callstack |-> [iid |-> id, frames |-> ids]]
<1>3. d.cache = nc /\ d.iid = id /\ d.packets = IF ~fresh THEN <<>> ELSE <<packet>>
  BY <1>0, <1>1 DEF data
<1>4. /\ CacheOK(a.cache) /\ a.cache.stacks = c.stacks /\ a.cache.first = c.first /\ a.cache.mapping
  BY <1>2 DEF Interning
<1>5. /\ DOMAIN nc = DOMAIN a.cache /\ nc.frames = a.cache.frames /\ nc.unknown = a.cache.unknown
      /\ nc.mapping = a.cache.mapping /\ nc.stacks = Add(c.stacks, ids, id)
      /\ nc.first = (c.first /\ ~fresh)
  BY <1>4 DEF CacheOK
<1>6. /\ IsTable(nc.stacks) /\ Within(c.stacks, nc.stacks) /\ nc.stacks[ids] = id
      /\ DOMAIN nc.stacks = DOMAIN c.stacks \cup {ids}
  <2>1. PICK t, u, key : t = c.stacks /\ u = nc.stacks /\ key = ids  OBVIOUS
  <2>2. IsTable(t)  BY <1>4, <2>1, SMTT(60) DEF CacheOK
  <2>3. CASE known
    <3>1. key \in DOMAIN t /\ id = t[key]  BY <1>4, <2>1, <2>3
    <3>2. u = t  BY <1>5, <2>1, <2>2, <3>1, AddOld
    <3>3. QED  BY <2>1, <2>2, <3>1, <3>2 DEF Within
  <2>4. CASE ~known
    <3>1. Added(t, key, u) /\ id = NextId(t)  BY <1>4, <1>5, <2>1, <2>4 DEF Added
    <3>2. OneMore(t, key, u)  BY <2>2, <3>1, AddNew
    <3>3. QED  BY <2>1, <3>1, <3>2 DEF OneMore, Within
  <2>5. QED  BY <2>3, <2>4
<1>7. nc.first \in BOOLEAN /\ nc.mapping \in BOOLEAN  BY <1>4, <1>5 DEF CacheOK
<1> HIDE DEF nc, id
<1>8. CacheOK(nc)  BY <1>4, <1>5, <1>6, <1>7 DEF CacheOK
<1>9. CASE fresh
  <2>1. d.packets # <<>> /\ d.packets[1] = packet  BY <1>3, <1>9
  <2>2. ~nc.first  BY <1>5, <1>9
  <2>3. QED  BY <1>0, <1>2, <1>3, <1>4, <1>5, <1>6, <1>8, <2>1, <2>2 DEF Interns
<1>10. CASE ~fresh
  <2>1. d.packets = <<>>  BY <1>3, <1>10
  <2>2. nc.first = c.first  BY <1>4, <1>5, <1>10 DEF CacheOK
  <2>3. known /\ a.data.functions = {} /\ a.data.frames = {} /\ a.data.mappings = {}  BY <1>10
  <2>4. QED  BY <1>0, <1>2, <1>3, <1>4, <1>5, <1>6, <1>8, <2>1, <2>2, <2>3 DEF Interns
<1>11. QED  BY <1>9, <1>10

Stacks == [user : Seq(Addresses), kernel : Seq(Addresses)]

\* The keys of a stack's frames.
KeysAre(p, s, keys) ==
    /\ Len(s.user) \in Nat /\ Len(s.kernel) \in Nat
    /\ Len(keys) = Len(s.user) + Len(s.kernel) /\ Len(keys) \in Nat
    /\ \A i \in 1 .. Len(s.user) : keys[i] = <<p, s.user[Len(s.user) - i + 1]>>
    /\ \A i \in 1 .. Len(s.kernel) : keys[Len(s.user) + i] = <<Kernel, s.kernel[i]>>

LEMMA KeysOf ==
    ASSUME NEW p, NEW s \in Stacks, NEW keys, keys = FrameKeys(p, s) PROVE KeysAre(p, s, keys)
<1>1. PICK u, k : u = s.user /\ k = s.kernel  OBVIOUS
<1>2. u \in Seq(Addresses) /\ k \in Seq(Addresses)  BY <1>1 DEF Stacks
<1>3. Len(u) \in Nat /\ Len(k) \in Nat  BY <1>2
<1> DEFINE U == [i \in 1 .. Len(u) |-> <<p, Reverse(u)[i]>>]
           K == [i \in 1 .. Len(k) |-> <<Kernel, k[i]>>]
           S == {U[i] : i \in 1 .. Len(u)} \cup {K[i] : i \in 1 .. Len(k)}
<1>4. \A i \in 1 .. Len(u) : U[i] = <<p, u[Len(u) - i + 1]>>
  BY <1>3 DEF Reverse
<1>5. \A i \in 1 .. Len(k) : K[i] = <<Kernel, k[i]>>  OBVIOUS
<1>6. U \in [1 .. Len(u) -> S] /\ K \in [1 .. Len(k) -> S]  OBVIOUS
<1>7. keys = U \o K  BY <1>1 DEF FrameKeys
<1> HIDE DEF U, K, S
<1>8. U \in Seq(S) /\ K \in Seq(S) /\ Len(U) = Len(u) /\ Len(K) = Len(k)  BY <1>3, <1>6
<1>9. /\ Len(U \o K) = Len(u) + Len(k) /\ \A i \in 1 .. Len(u) : (U \o K)[i] = U[i]
      /\ \A i \in 1 .. Len(k) : (U \o K)[Len(u) + i] = K[i]
  BY <1>3, <1>8
<1>10. \A i \in 1 .. Len(u) : keys[i] = <<p, u[Len(u) - i + 1]>>  BY <1>4, <1>7, <1>9
<1>11. \A i \in 1 .. Len(k) : keys[Len(u) + i] = <<Kernel, k[i]>>  BY <1>5, <1>7, <1>9
<1>12. Len(keys) = Len(u) + Len(k) /\ Len(keys) \in Nat  BY <1>3, <1>7, <1>9
<1>13. QED  BY <1>1, <1>3, <1>10, <1>11, <1>12 DEF KeysAre

-----------------------------------------------------------------------------
(* Samples and the ids of their call stacks.                                *)

\* The call stack iid of the cache is the one with these frames.
Shows(c, keys, iid) ==
    /\ \A i \in 1 .. Len(keys) : keys[i] \in DOMAIN c.frames
    /\ IdsOf(c.frames, keys, Len(keys)) \in DOMAIN c.stacks
    /\ c.stacks[IdsOf(c.frames, keys, Len(keys))] = iid

LEMMA ShowsOn ==
    ASSUME NEW c, NEW d, Within(c.frames, d.frames), Within(c.stacks, d.stacks),
           NEW keys, NEW iid, Shows(c, keys, iid)
    PROVE  Shows(d, keys, iid)
<1>1. \A i \in 1 .. Len(keys) : keys[i] \in DOMAIN d.frames /\ d.frames[keys[i]] = c.frames[keys[i]]
  BY DEF Shows, Within
<1>2. IdsOf(d.frames, keys, Len(keys)) = IdsOf(c.frames, keys, Len(keys))
  BY <1>1 DEF IdsOf
<1>3. QED  BY <1>1, <1>2 DEF Shows, Within

\* An id stands for the keys in their order.
LEMMA SameKeys ==
    ASSUME NEW c, CacheOK(c), NEW K, NEW L, Len(K) \in Nat, Len(L) \in Nat,
           NEW iid, Shows(c, K, iid), Shows(c, L, iid)
    PROVE  Len(K) = Len(L) /\ \A i \in 1 .. Len(K) : K[i] = L[i]
<1>1. PICK f, g : f = IdsOf(c.frames, K, Len(K)) /\ g = IdsOf(c.frames, L, Len(L))  OBVIOUS
<1>2. f = g  BY <1>1 DEF Shows, CacheOK, IsTable
<1>3. DOMAIN f = 1 .. Len(K) /\ DOMAIN g = 1 .. Len(L)  BY <1>1 DEF IdsOf
<1>4. Len(K) = Len(L)
  <2>1. 1 .. Len(K) = 1 .. Len(L)  BY <1>2, <1>3
  <2>2. Len(K) # 0 => Len(K) \in 1 .. Len(L)  BY <2>1
  <2>3. Len(L) # 0 => Len(L) \in 1 .. Len(K)  BY <2>1
  <2>4. QED  BY <2>2, <2>3
<1>5. ASSUME NEW i \in 1 .. Len(K) PROVE K[i] = L[i]
  <2>1. c.frames[K[i]] = c.frames[L[i]]  BY <1>1, <1>2, <1>4 DEF IdsOf
  <2>2. K[i] \in DOMAIN c.frames /\ L[i] \in DOMAIN c.frames  BY <1>4 DEF Shows
  <2>3. QED  BY <2>1, <2>2 DEF CacheOK, IsTable
<1>6. QED  BY <1>4, <1>5

\* The owner of the frames tells where the user's end.
LEMMA UserLonger ==
    ASSUME NEW p \in Pids, NEW q \in Pids, NEW s \in Stacks, NEW t \in Stacks, NEW K, NEW L,
           K = FrameKeys(p, s), L = FrameKeys(q, t),
           Len(K) = Len(L), \A i \in 1 .. Len(K) : K[i] = L[i]
    PROVE  Len(t.user) <= Len(s.user)
<1>0. KeysAre(p, s, K) /\ KeysAre(q, t, L)  BY KeysOf
<1>1. /\ Len(s.user) \in Nat /\ Len(s.kernel) \in Nat /\ Len(K) = Len(s.user) + Len(s.kernel)
      /\ \A i \in 1 .. Len(s.kernel) : K[Len(s.user) + i] = <<Kernel, s.kernel[i]>>
  BY <1>0 DEF KeysAre
<1>2. /\ Len(t.user) \in Nat /\ Len(t.kernel) \in Nat /\ Len(L) = Len(t.user) + Len(t.kernel)
      /\ \A i \in 1 .. Len(t.user) : L[i] = <<q, t.user[Len(t.user) - i + 1]>>
  BY <1>0 DEF KeysAre
<1> SUFFICES ASSUME Len(s.user) < Len(t.user) PROVE FALSE  BY <1>1, <1>2
<1>3. 1 \in 1 .. Len(s.kernel) /\ Len(s.user) + 1 \in 1 .. Len(t.user)
      /\ Len(s.user) + 1 \in 1 .. Len(K)
  <2>1. PICK a \in Nat, b \in Nat, m \in Nat, n \in Nat :
            a = Len(s.user) /\ b = Len(s.kernel) /\ m = Len(t.user) /\ n = Len(t.kernel)
    BY <1>1, <1>2
  <2>2. a + b = m + n /\ Len(K) = a + b /\ a < m  BY <1>1, <1>2, <2>1
  <2>3. 1 \in 1 .. b /\ a + 1 \in 1 .. m /\ a + 1 \in 1 .. a + b  BY <2>2
  <2>4. QED  BY <2>1, <2>2, <2>3
<1>4. K[Len(s.user) + 1] = <<Kernel, s.kernel[1]>>  BY <1>1, <1>3
<1>5. PICK x : L[Len(s.user) + 1] = <<q, x>>  BY <1>2, <1>3
<1>6. <<Kernel, s.kernel[1]>> = <<q, x>>  BY <1>3, <1>4, <1>5
<1>7. QED  BY <1>6, ProfilerConstants

LEMMA SameStack ==
    ASSUME NEW p \in Pids, NEW q \in Pids, NEW s \in Stacks, NEW t \in Stacks, NEW K, NEW L,
           K = FrameKeys(p, s), L = FrameKeys(q, t),
           Len(K) = Len(L), \A i \in 1 .. Len(K) : K[i] = L[i]
    PROVE  s = t /\ (p = q \/ s.user = <<>>)
<1>0. KeysAre(p, s, K) /\ KeysAre(q, t, L)  BY KeysOf
<1>1. /\ Len(s.user) \in Nat /\ Len(s.kernel) \in Nat /\ Len(K) = Len(s.user) + Len(s.kernel)
      /\ \A i \in 1 .. Len(s.user) : K[i] = <<p, s.user[Len(s.user) - i + 1]>>
      /\ \A i \in 1 .. Len(s.kernel) : K[Len(s.user) + i] = <<Kernel, s.kernel[i]>>
  BY <1>0 DEF KeysAre
<1>2. /\ Len(t.user) \in Nat /\ Len(t.kernel) \in Nat /\ Len(L) = Len(t.user) + Len(t.kernel)
      /\ \A i \in 1 .. Len(t.user) : L[i] = <<q, t.user[Len(t.user) - i + 1]>>
      /\ \A i \in 1 .. Len(t.kernel) : L[Len(t.user) + i] = <<Kernel, t.kernel[i]>>
  BY <1>0 DEF KeysAre
<1>3. Len(t.user) <= Len(s.user)  BY UserLonger
<1>4. Len(s.user) <= Len(t.user)  BY UserLonger
<1>5. PICK n \in Nat, m \in Nat :
          /\ Len(s.user) = n /\ Len(t.user) = n /\ Len(s.kernel) = m /\ Len(t.kernel) = m
          /\ Len(K) = n + m
  <2>1. PICK a \in Nat, b \in Nat, m \in Nat, n \in Nat :
            a = Len(s.user) /\ b = Len(s.kernel) /\ m = Len(t.user) /\ n = Len(t.kernel)
    BY <1>1, <1>2
  <2>2. a + b = m + n /\ Len(K) = a + b /\ a <= m /\ m <= a  BY <1>1, <1>2, <1>3, <1>4, <2>1
  <2>3. a = m /\ b = n  BY <2>2
  <2>4. QED  BY <2>1, <2>2, <2>3
<1>6. ASSUME NEW i \in 1 .. n PROVE s.user[i] = t.user[i] /\ p = q
  <2>1. PICK j \in 1 .. n : n - j + 1 = i
    <3>1. n - i + 1 \in 1 .. n /\ n - (n - i + 1) + 1 = i  OBVIOUS
    <3>2. QED  BY <3>1
  <2>2. j \in 1 .. Len(K)  BY <1>5
  <2>3. K[j] = <<p, s.user[i]>> /\ L[j] = <<q, t.user[i]>>  BY <1>1, <1>2, <1>5, <2>1
  <2>4. <<p, s.user[i]>> = <<q, t.user[i]>>  BY <2>2, <2>3
  <2>5. QED  BY <2>4
<1>7. ASSUME NEW i \in 1 .. m PROVE s.kernel[i] = t.kernel[i]
  <2>1. n + i \in 1 .. Len(K)  BY <1>5
  <2>2. K[n + i] = <<Kernel, s.kernel[i]>> /\ L[n + i] = <<Kernel, t.kernel[i]>>
    BY <1>1, <1>2, <1>5
  <2>3. <<Kernel, s.kernel[i]>> = <<Kernel, t.kernel[i]>>  BY <2>1, <2>2
  <2>4. QED  BY <2>3
<1>8. s \in [user : Seq(Addresses), kernel : Seq(Addresses)]
      /\ t \in [user : Seq(Addresses), kernel : Seq(Addresses)]
  BY DEF Stacks
<1>9. s.user = t.user
  <2>1. PICK a, b : a = s.user /\ b = t.user  OBVIOUS
  <2>2. a \in Seq(Addresses) /\ b \in Seq(Addresses) /\ Len(a) = n /\ Len(b) = n
    BY <1>5, <1>8, <2>1
  <2>3. \A i \in 1 .. n : a[i] = b[i]  BY <1>6, <2>1
  <2>4. a = b  BY <2>2, <2>3
  <2>5. QED  BY <2>1, <2>4
<1>10. s.kernel = t.kernel
  <2>1. PICK a, b : a = s.kernel /\ b = t.kernel  OBVIOUS
  <2>2. a \in Seq(Addresses) /\ b \in Seq(Addresses) /\ Len(a) = m /\ Len(b) = m
    BY <1>5, <1>8, <2>1
  <2>3. \A i \in 1 .. m : a[i] = b[i]  BY <1>7, <2>1
  <2>4. a = b  BY <2>2, <2>3
  <2>5. QED  BY <2>1, <2>4
<1>11. s = t  BY <1>8, <1>9, <1>10
<1>12. CASE n = 0
  <2>1. s.user = <<>>
    <3>1. PICK a : a = s.user  OBVIOUS
    <3>2. a \in Seq(Addresses) /\ Len(a) = 0  BY <1>5, <1>8, <1>12, <3>1
    <3>3. a = <<>>  BY <3>2
    <3>4. QED  BY <3>1, <3>3
  <2>2. QED  BY <1>11, <2>1
<1>13. CASE n # 0
  <2>1. 1 \in 1 .. n  BY <1>13
  <2>2. QED  BY <1>6, <1>11, <2>1
<1>14. QED  BY <1>12, <1>13

LEMMA ShowsSame ==
    ASSUME NEW c, CacheOK(c), NEW p \in Pids, NEW q \in Pids, NEW s \in Stacks, NEW t \in Stacks,
           NEW x, NEW y, Shows(c, FrameKeys(p, s), x), Shows(c, FrameKeys(q, t), y)
    PROVE  x = y <=> s = t /\ (p = q \/ s.user = <<>>)
<1>1. PICK K, L : K = FrameKeys(p, s) /\ L = FrameKeys(q, t)  OBVIOUS
<1>2. Len(K) \in Nat /\ Len(L) \in Nat  BY <1>1, KeysOf DEF KeysAre
<1>3. ASSUME x = y PROVE s = t /\ (p = q \/ s.user = <<>>)
  <2>1. Shows(c, K, x) /\ Shows(c, L, x)  BY <1>1, <1>3
  <2>2. Len(K) = Len(L) /\ \A i \in 1 .. Len(K) : K[i] = L[i]  BY <1>2, <2>1, SameKeys
  <2>3. QED  BY <1>1, <2>2, SameStack
<1>4. ASSUME s = t, p = q \/ s.user = <<>> PROVE x = y
  <2>1. FrameKeys(p, s) = FrameKeys(q, t)
    <3>1. CASE p = q  BY <1>4, <3>1
    <3>2. CASE s.user = <<>>
      <4>1. 1 .. Len(s.user) = {}  BY <3>2
      <4>2. [i \in 1 .. Len(s.user) |-> <<p, Reverse(s.user)[i]>>]
                = [i \in 1 .. Len(s.user) |-> <<q, Reverse(s.user)[i]>>]
        BY <4>1
      <4>3. QED  BY <1>4, <4>2 DEF FrameKeys
    <3>3. QED  BY <1>4, <3>1, <3>2
  <2>2. QED  BY <2>1 DEF Shows
<1>5. QED  BY <1>3, <1>4

\* Every sample of the file has the id of its stack.
StackFile(f, c) ==
    \A i \in 1 .. Len(f) : f[i].type = "sample" =>
        /\ f[i].pid \in Pids /\ f[i].stack \in Stacks
        /\ Shows(c, FrameKeys(f[i].pid, f[i].stack), f[i].callstack)

LEMMA StackFileOn ==
    ASSUME NEW f, NEW c, NEW d, StackFile(f, c),
           Within(c.frames, d.frames), Within(c.stacks, d.stacks)
    PROVE  StackFile(f, d)
<1> SUFFICES ASSUME NEW i \in 1 .. Len(f), f[i].type = "sample"
             PROVE  /\ f[i].pid \in Pids /\ f[i].stack \in Stacks
                    /\ Shows(d, FrameKeys(f[i].pid, f[i].stack), f[i].callstack)
  BY DEF StackFile
<1>1. PICK keys, iid : keys = FrameKeys(f[i].pid, f[i].stack) /\ iid = f[i].callstack  OBVIOUS
<1>2. Shows(c, keys, iid)  BY <1>1 DEF StackFile
<1>3. Shows(d, keys, iid)  BY <1>2, ShowsOn
<1>4. QED  BY <1>1, <1>3 DEF StackFile

LEMMA StackFileGrown ==
    ASSUME NEW f, NEW g, NEW T, Grown(f, g, T), NEW c, StackFile(f, c),
           \A i \in 1 .. Len(g) : i \notin 1 .. Len(f) /\ g[i].type = "sample" =>
               /\ g[i].pid \in Pids /\ g[i].stack \in Stacks
               /\ Shows(c, FrameKeys(g[i].pid, g[i].stack), g[i].callstack)
    PROVE  StackFile(g, c)
  BY DEF StackFile, Grown

LEMMA AppendOne ==
    ASSUME NEW f, IsFile(f), NEW x, NEW g, g = Append(f, x)
    PROVE  /\ IsFile(g) /\ Len(g) = Len(f) + 1 /\ g[Len(f) + 1] = x /\ Grown(f, g, {x.type})
           /\ \A i \in 1 .. Len(g) : i \in 1 .. Len(f) \/ (i = Len(f) + 1 /\ g[i] = x)
<1>1. PICK S : f \in Seq(S)  BY DEF IsFile
<1> DEFINE R == S \cup {x}
<1>2. f \in Seq(R) /\ x \in R /\ Len(f) \in Nat  BY <1>1
<1> HIDE DEF R
<1>3. /\ g \in Seq(R) /\ Len(g) = Len(f) + 1 /\ g[Len(f) + 1] = x
      /\ \A i \in 1 .. Len(f) : g[i] = f[i]
  BY <1>2
<1>4. \A i \in 1 .. Len(g) : i \in 1 .. Len(f) \/ i = Len(f) + 1  BY <1>2, <1>3
<1>5. \A i \in 1 .. Len(g) : i \in 1 .. Len(f) \/ (i = Len(f) + 1 /\ g[i] = x)  BY <1>3, <1>4
<1>6. Grown(f, g, {x.type})  BY <1>2, <1>3, <1>5 DEF Grown
<1>7. QED  BY <1>3, <1>5, <1>6 DEF IsFile

Sample == [pid : Pids, ustack_id : Buckets \cup {None}, kstack_id : Buckets \cup {None}]

SampleInv == samples \in Seq(Sample) /\ stackmap \in [Buckets -> Traces \cup {None}]

ProfilerInv == SampleInv /\ CacheOK(cache) /\ StackFile(file, cache)

LEMMA DropKeeps == ASSUME SampleInv, samples # <<>>, samples' = Tail(samples), stackmap' = stackmap
                   PROVE  SampleInv'
  BY DEF SampleInv

LEMMA StoredOK ==
    ASSUME NEW map \in [Buckets -> Traces \cup {None}], NEW x \in Traces \cup {None}
    PROVE  /\ Stored(map, x) \in [Buckets -> Traces \cup {None}]
           /\ StackId(x) \in Buckets \cup {None}
<1>1. CASE x = None  BY <1>1 DEF Stored, StackId
<1>2. CASE x # None
  <2>1. BucketOf[x] \in Buckets  BY <1>2 DEF Buckets
  <2>2. QED  BY <1>2, <2>1 DEF Stored, StackId
<1>3. QED  BY <1>1, <1>2

LEMMA PerfEventKeeps ==
    ASSUME SampleInv, NEW p \in Pids, NEW u \in UserTraces \cup {None},
           NEW k \in KernelTraces \cup {None}, profiler_perf_event(p, u, k)
    PROVE  SampleInv'
<1>1. u \in Traces \cup {None} /\ k \in Traces \cup {None}  BY DEF Traces
<1>2. PICK m : m = Stored(stackmap, u)  OBVIOUS
<1>3. m \in [Buckets -> Traces \cup {None}] /\ StackId(u) \in Buckets \cup {None}
  <2>1. PICK n : n = stackmap  OBVIOUS
  <2>2. n \in [Buckets -> Traces \cup {None}]  BY <2>1 DEF SampleInv
  <2>3. QED  BY <1>1, <1>2, <2>1, <2>2, StoredOK
<1>4. Stored(m, k) \in [Buckets -> Traces \cup {None}] /\ StackId(k) \in Buckets \cup {None}
  BY <1>1, <1>3, StoredOK
<1>5. PICK e : e = [pid |-> p, ustack_id |-> StackId(u), kstack_id |-> StackId(k)]  OBVIOUS
<1>6. e \in Sample  BY <1>3, <1>4, <1>5 DEF Sample
<1>7. samples' = Append(samples, e) /\ stackmap' = Stored(m, k)
  BY <1>2, <1>5 DEF profiler_perf_event
<1>8. samples' \in Seq(Sample)  BY <1>6, <1>7 DEF SampleInv
<1>9. QED  BY <1>4, <1>7, <1>8 DEF SampleInv

LEMMA FramesFound == ASSUME SampleInv, NEW id PROVE get_stack_frames(id) \in Seq(Addresses)
<1>1. CASE id \in DOMAIN stackmap /\ stackmap[id] # None
  <2>1. stackmap[id] \in Traces  BY <1>1 DEF SampleInv
  <2>2. stackmap[id] \in Seq(Addresses)  BY <2>1, ProfilerConstants
  <2>3. QED  BY <1>1, <2>2 DEF get_stack_frames
<1>2. CASE ~(id \in DOMAIN stackmap /\ stackmap[id] # None)  BY <1>2 DEF get_stack_frames
<1>3. QED  BY <1>1, <1>2

\* What data() does for a sample that is consumed.
LEMMA ConsumesInterns ==
    ASSUME SampleInv, CacheOK(cache), NEW e, NEW s, NEW d, Consumes(e, s, d)
    PROVE  /\ e.pid \in Pids /\ s \in Stacks /\ CacheOK(d.cache)
           /\ Within(cache.frames, d.cache.frames) /\ Within(cache.stacks, d.cache.stacks)
           /\ Shows(d.cache, FrameKeys(e.pid, s), d.iid)
           /\ \E keys, a : Len(keys) \in Nat /\ Interns(cache, keys, a, d)
<1>1. e \in Sample /\ s \in Stacks
  <2>1. samples \in Seq(Sample) /\ samples # <<>> /\ e = Head(samples) /\ s = StackOf(e)
    BY DEF SampleInv, Consumes
  <2>2. e \in Sample  BY <2>1
  <2>3. PICK u, k : u = get_stack_frames(e.ustack_id) /\ k = get_stack_frames(e.kstack_id)  OBVIOUS
  <2>4. u \in Seq(Addresses) /\ k \in Seq(Addresses)  BY <2>3, FramesFound
  <2>5. s = [user |-> u, kernel |-> k]  BY <2>1, <2>3 DEF StackOf
  <2>6. QED  BY <2>2, <2>4, <2>5 DEF Stacks
<1>2. e.pid \in Pids  BY <1>1 DEF Sample
<1>3. PICK p, keys : p = e.pid /\ keys = FrameKeys(p, s)  OBVIOUS
<1>4. Len(keys) \in Nat  BY <1>1, <1>3, KeysOf DEF KeysAre
<1>5. d = data(cache, p, s)  BY <1>3 DEF Consumes
<1>6. PICK a : Interns(cache, keys, a, d)
  <2>1. PICK c : c = cache  OBVIOUS
  <2>2. CacheOK(c) /\ Len(FrameKeys(p, s)) \in Nat /\ d = data(c, p, s)
    BY <1>3, <1>4, <1>5, <2>1
  <2>3. \E a : Interns(c, FrameKeys(p, s), a, d)  BY <2>2, DataOK
  <2>4. QED  BY <1>3, <2>1, <2>3
<1>7. /\ CacheOK(d.cache) /\ Within(cache.stacks, d.cache.stacks)
      /\ d.cache.frames = a.cache.frames /\ Interning(cache, keys, Len(keys), a)
      /\ a.data.ids \in DOMAIN d.cache.stacks /\ d.cache.stacks[a.data.ids] = d.iid
  BY <1>6 DEF Interns
<1>8. /\ Within(cache.frames, d.cache.frames)
      /\ \A i \in 1 .. Len(keys) : keys[i] \in DOMAIN d.cache.frames
      /\ a.data.ids = IdsOf(d.cache.frames, keys, Len(keys))
  BY <1>7 DEF Interning
<1>9. Shows(d.cache, keys, d.iid)  BY <1>7, <1>8 DEF Shows
<1>10. QED  BY <1>1, <1>2, <1>3, <1>4, <1>6, <1>7, <1>8, <1>9

LEMMA StackFileConsumes ==
    ASSUME ProfilerInv, NEW e, NEW s, NEW d, Consumes(e, s, d) PROVE StackFile(file', d.cache)
<1>1. /\ e.pid \in Pids /\ s \in Stacks /\ CacheOK(d.cache)
      /\ Within(cache.frames, d.cache.frames) /\ Within(cache.stacks, d.cache.stacks)
      /\ Shows(d.cache, FrameKeys(e.pid, s), d.iid)
      /\ \E keys, a : Len(keys) \in Nat /\ Interns(cache, keys, a, d)
  BY ConsumesInterns DEF ProfilerInv
<1>2. PICK c, n, f : c = d.cache /\ n = cache /\ f = file  OBVIOUS
<1>3. StackFile(f, c)
  <2>1. StackFile(f, n) /\ Within(n.frames, c.frames) /\ Within(n.stacks, c.stacks)
    BY <1>1, <1>2 DEF ProfilerInv
  <2>2. QED  BY <2>1, StackFileOn
<1>4. PICK sample : sample = [type |-> "sample", callstack |-> d.iid, pid |-> e.pid, stack |-> s]
  OBVIOUS
<1>5. PICK g : /\ IsFile(g) /\ (g = f \/ (d.packets # <<>> /\ g = Append(f, d.packets[1])))
               /\ file' = Append(g, sample) \/ file' = g
  BY <1>2, <1>4 DEF Consumes, Sampled
<1>6. d.packets # <<>> => d.packets[1].type = "interned"  BY <1>1 DEF Interns
<1>7. StackFile(g, c)
  <2>1. CASE g = f  BY <1>3, <2>1
  <2>2. CASE g # f
    <3>1. PICK x : x = d.packets[1]  OBVIOUS
    <3>2. g = Append(f, x) /\ x.type = "interned" /\ IsFile(f)  BY <1>2, <1>5, <1>6, <2>2, <3>1 DEF Consumes
    <3>3. Grown(f, g, {x.type}) /\ \A i \in 1 .. Len(g) : i \in 1 .. Len(f) \/ g[i] = x
      BY <3>2, AppendOne
    <3>4. QED  BY <1>3, <3>2, <3>3, StackFileGrown
  <2>3. QED  BY <2>1, <2>2
<1>8. PICK h : h = file'  OBVIOUS
<1>9. StackFile(h, c)
  <2>1. CASE h = g  BY <1>7, <2>1
  <2>2. CASE h # g
    <3>1. h = Append(g, sample) /\ IsFile(g)  BY <1>5, <1>8, <2>2
    <3>2. Grown(g, h, {sample.type}) /\ \A i \in 1 .. Len(h) : i \in 1 .. Len(g) \/ h[i] = sample
      BY <3>1, AppendOne
    <3>3. /\ sample.pid \in Pids /\ sample.stack \in Stacks
          /\ Shows(c, FrameKeys(sample.pid, sample.stack), sample.callstack)
      BY <1>1, <1>2, <1>4
    <3>4. QED  BY <1>7, <3>2, <3>3, StackFileGrown
  <2>3. QED  BY <2>1, <2>2
<1>10. QED  BY <1>2, <1>8, <1>9

LEMMA ProfilerKeeps == ASSUME TrackInv, ProfilerInv, [Next]_vars PROVE ProfilerInv'
<1>1. SampleInv /\ CacheOK(cache) /\ StackFile(file, cache)  BY DEF ProfilerInv
<1>2. CASE convert_event /\ UNCHANGED profilerVars
  <2>1. Grown(file, file', Quiet \cup {"begin"})  BY <1>2, ConvertKeeps
  <2>2. PICK f, g, c : f = file /\ g = file' /\ c = cache  OBVIOUS
  <2>3. Grown(f, g, Quiet \cup {"begin"}) /\ StackFile(f, c)  BY <1>1, <2>1, <2>2
  <2>4. \A i \in 1 .. Len(g) : i \in 1 .. Len(f) \/ g[i].type # "sample"  BY <2>3 DEF Grown, Quiet
  <2>5. StackFile(g, c)  BY <2>3, <2>4, StackFileGrown
  <2>6. StackFile(file', cache') /\ CacheOK(cache')  BY <1>1, <1>2, <2>2, <2>5 DEF profilerVars
  <2>7. SampleInv'  BY <1>1, <1>2 DEF SampleInv, profilerVars
  <2>8. QED  BY <2>6, <2>7 DEF ProfilerInv
<1>3. ASSUME NEW p \in Pids, NEW u \in UserTraces \cup {None}, NEW k \in KernelTraces \cup {None},
             profiler_perf_event(p, u, k)
      PROVE  ProfilerInv'
  <2>1. SampleInv'  BY <1>1, <1>3, PerfEventKeeps
  <2>2. file' = file /\ cache' = cache  BY <1>3 DEF profiler_perf_event, converterVars
  <2>3. QED  BY <1>1, <2>1, <2>2 DEF ProfilerInv
<1>4. CASE consume_sample
  <2>1. PICK e, s, d : Consumes(e, s, d)  BY <1>4, SampleKeeps
  <2>2. SampleInv'  BY <1>1, <2>1, DropKeeps DEF Consumes
  <2>3. CacheOK(d.cache)  BY <1>1, <2>1, ConsumesInterns
  <2>4. StackFile(file', d.cache)  BY <2>1, StackFileConsumes
  <2>5. cache' = d.cache  BY <2>1 DEF Consumes
  <2>6. QED  BY <2>2, <2>3, <2>4, <2>5 DEF ProfilerInv
<1>5. CASE drop_sample
  <2>1. SampleInv'  BY <1>1, <1>5, DropKeeps DEF drop_sample
  <2>2. file' = file /\ cache' = cache  BY <1>5 DEF drop_sample, converterVars
  <2>3. QED  BY <1>1, <2>1, <2>2 DEF ProfilerInv
<1>6. CASE UNCHANGED vars
  BY <1>1, <1>6 DEF ProfilerInv, SampleInv, vars, converterVars, profilerVars
<1>7. QED  BY <1>2, <1>3, <1>4, <1>5, <1>6 DEF Next

LEMMA ProfilerInit == ASSUME Init PROVE ProfilerInv
<1>1. /\ samples = <<>> /\ stackmap = [b \in Buckets |-> None] /\ cache = NewCache /\ file = <<>>
  BY DEF Init, ConverterInit
<1>2. SampleInv  BY <1>1 DEF SampleInv
<1>3. StackFile(file, cache)  BY <1>1 DEF StackFile
<1>4. PICK t : t = [k \in {} |-> 0]  OBVIOUS
<1>5. DOMAIN t = {} /\ t \in [DOMAIN t -> Nat]  BY <1>4
<1>6. IsTable(t)  BY <1>5, FS_EmptySet DEF IsTable
<1>7. /\ DOMAIN cache = {"frames", "stacks", "next_function", "unknown", "mapping", "first"}
      /\ cache.frames = t /\ cache.stacks = t /\ cache.mapping = FALSE /\ cache.first = TRUE
  BY <1>1, <1>4 DEF NewCache
<1>8. CacheOK(cache)  BY <1>6, <1>7 DEF CacheOK
<1>9. QED  BY <1>2, <1>3, <1>8 DEF ProfilerInv

\* Two samples of the trace have the same call stack id exactly when they show the
\* same frames of the same process: Interned::data() gives an id to a frame once,
\* under its process and address, and to a stack once, under its frames.
THEOREM StackIdsTellStacks == Spec => []StacksDistinct
<1>1. ASSUME TrackInv, ProfilerInv PROVE StacksDistinct
  <2>1. DOMAIN file = 1 .. Len(file)  BY <1>1, FileLength DEF TrackInv, StateOK, St
  <2>2. CacheOK(cache) /\ StackFile(file, cache)  BY <1>1 DEF ProfilerInv
  <2>3. ASSUME NEW i \in 1 .. Len(file), NEW j \in 1 .. Len(file),
               file[i].type = "sample", file[j].type = "sample"
        PROVE  file[i].callstack = file[j].callstack <=>
                   file[i].stack = file[j].stack
                       /\ (file[i].pid = file[j].pid \/ file[i].stack.user = <<>>)
    <3>1. PICK p, q, s, t, x, y : /\ p = file[i].pid /\ q = file[j].pid
                                  /\ s = file[i].stack /\ t = file[j].stack
                                  /\ x = file[i].callstack /\ y = file[j].callstack
      OBVIOUS
    <3>2. /\ p \in Pids /\ q \in Pids /\ s \in Stacks /\ t \in Stacks
          /\ Shows(cache, FrameKeys(p, s), x) /\ Shows(cache, FrameKeys(q, t), y)
      BY <2>2, <2>3, <3>1 DEF StackFile
    <3>3. x = y <=> s = t /\ (p = q \/ s.user = <<>>)  BY <2>2, <3>2, ShowsSame
    <3>4. QED  BY <3>1, <3>3
  <2>4. QED  BY <2>1, <2>3 DEF StacksDistinct
<1>2. QED  BY InitOK, NextKeeps, ProfilerInit, ProfilerKeeps, <1>1, PTL DEF Spec

-----------------------------------------------------------------------------
(* What a reader of the trace has of the interned data.                     *)

Entries(f) == {j \in 1 .. Len(f) : f[j].type = "interned"}

Before(f, i) == {j \in Entries(f) : j <= i}

FunctionsOf(f, js) == UNION {f[j].functions : j \in js}
FramesOf(f, js) == UNION {f[j].frames : j \in js}
MappingsOf(f, js) == UNION {f[j].mappings : j \in js}
CallstacksOf(f, js) == {f[j].callstack : j \in js}

\* The first of the packets js clears the reader's state, and no other does.
ClearedOnce(f, js) ==
    \E z \in js : f[z].cleared /\ \A j \in js : z <= j /\ (j = z \/ ~f[j].cleared)

\* All that the cache has given an id to is among the functions F, the frames X,
\* the mappings M and the call stacks S.
Described(F, X, M, S, c) ==
    /\ c.unknown # None => c.unknown \in F
    /\ c.mapping => 1 \in M
    /\ \A k \in DOMAIN c.frames : \E x \in X : x.iid = c.frames[k]
    /\ \A x \in X : x.function \in F /\ x.mapping \in M
    /\ S = {[iid |-> c.stacks[ids], frames |-> ids] : ids \in DOMAIN c.stacks}
    /\ \A ids \in DOMAIN c.stacks : \A n \in DOMAIN ids : \E k \in DOMAIN c.frames : ids[n] = c.frames[k]

DescribedBy(f, js, c) ==
    Described(FunctionsOf(f, js), FramesOf(f, js), MappingsOf(f, js), CallstacksOf(f, js), c)

Resolved(f, c) ==
    /\ IF c.first THEN Entries(f) = {} ELSE ClearedOnce(f, Entries(f))
    /\ DescribedBy(f, Entries(f), c)

\* The call stack iid can be followed to the names of its frames.
Readable(F, X, M, S, iid) ==
    /\ \A x \in X : x.function \in F /\ x.mapping \in M
    /\ \E s \in S : /\ s.iid = iid
                    /\ \A r \in S : r.iid = iid => r = s
                    /\ \A n \in DOMAIN s.frames : \E x \in X : x.iid = s.frames[n]

ReadableAt(f, js, iid) ==
    Readable(FunctionsOf(f, js), FramesOf(f, js), MappingsOf(f, js), CallstacksOf(f, js), iid)

SampleResolved(f, i) ==
    ClearedOnce(f, Before(f, i)) /\ ReadableAt(f, Before(f, i), f[i].callstack)

ResolveInv ==
    failures = 0 =>
        /\ Resolved(file, cache)
        /\ \A i \in 1 .. Len(file) : file[i].type = "sample" => SampleResolved(file, i)

LEMMA DescribedOn ==
    ASSUME NEW F, NEW X, NEW M, NEW S, NEW c, Described(F, X, M, S, c),
           NEW keys, Len(keys) \in Nat, NEW a, NEW d, Interns(c, keys, a, d)
    PROVE  Described(F \cup a.data.functions, X \cup a.data.frames, M \cup a.data.mappings,
                     S \cup {[iid |-> d.iid, frames |-> a.data.ids]}, d.cache)
<1> DEFINE G == F \cup a.data.functions
           Y == X \cup a.data.frames
           N == M \cup a.data.mappings
           call == [iid |-> d.iid, frames |-> a.data.ids]
<1>1. /\ d.cache.frames = a.cache.frames /\ d.cache.unknown = a.cache.unknown /\ d.cache.mapping
      /\ Within(c.stacks, d.cache.stacks)
      /\ DOMAIN d.cache.stacks = DOMAIN c.stacks \cup {a.data.ids}
      /\ d.cache.stacks[a.data.ids] = d.iid /\ Interning(c, keys, Len(keys), a)
  BY DEF Interns
<1>2. d.cache.unknown \in G  BY <1>1 DEF Described, Interning
<1>3. 1 \in N  BY <1>1 DEF Described, Interning
<1>4. \A k \in DOMAIN d.cache.frames : \E x \in Y : x.iid = d.cache.frames[k]
  <2>1. SUFFICES ASSUME NEW k \in DOMAIN a.cache.frames PROVE \E x \in Y : x.iid = a.cache.frames[k]
    BY <1>1
  <2>2. CASE k \in DOMAIN c.frames  BY <1>1, <2>2 DEF Described, Interning, Within
  <2>3. CASE k \notin DOMAIN c.frames  BY <1>1, <2>1, <2>3 DEF Interning
  <2>4. QED  BY <2>2, <2>3
<1>5. \A x \in Y : x.function \in G /\ x.mapping \in N
  BY <1>1, <1>2, <1>3 DEF Described, Interning
<1>6. S \cup {call} = {[iid |-> d.cache.stacks[ids], frames |-> ids] : ids \in DOMAIN d.cache.stacks}
  <2>1. S = {[iid |-> d.cache.stacks[ids], frames |-> ids] : ids \in DOMAIN c.stacks}
    BY <1>1 DEF Described, Within
  <2>2. call = [iid |-> d.cache.stacks[a.data.ids], frames |-> a.data.ids]  BY <1>1
  <2>3. PICK T, D, i : T = d.cache.stacks /\ D = DOMAIN c.stacks /\ i = a.data.ids  OBVIOUS
  <2>4. /\ S = {[iid |-> T[ids], frames |-> ids] : ids \in D} /\ call = [iid |-> T[i], frames |-> i]
        /\ DOMAIN T = D \cup {i}
    BY <1>1, <2>1, <2>2, <2>3
  <2> HIDE DEF call
  <2>5. S \cup {call} = {[iid |-> T[ids], frames |-> ids] : ids \in DOMAIN T}  BY <2>4, Zenon
  <2>6. QED  BY <2>3, <2>5
<1>7. ASSUME NEW ids \in DOMAIN d.cache.stacks, NEW n \in DOMAIN ids
      PROVE  \E k \in DOMAIN d.cache.frames : ids[n] = d.cache.frames[k]
  <2>1. CASE ids \in DOMAIN c.stacks
    <3>1. PICK k \in DOMAIN c.frames : ids[n] = c.frames[k]  BY <1>7, <2>1 DEF Described
    <3>2. k \in DOMAIN d.cache.frames /\ d.cache.frames[k] = c.frames[k]
      BY <1>1, <3>1 DEF Interning, Within
    <3>3. QED  BY <3>1, <3>2
  <2>2. CASE ids = a.data.ids
    <3>1. ids = IdsOf(d.cache.frames, keys, Len(keys))  BY <1>1, <2>2 DEF Interning
    <3>2. n \in 1 .. Len(keys) /\ ids[n] = d.cache.frames[keys[n]]  BY <1>7, <3>1 DEF IdsOf
    <3>3. keys[n] \in DOMAIN d.cache.frames  BY <1>1, <3>2 DEF Interning
    <3>4. QED  BY <3>2, <3>3
  <2>3. QED  BY <1>1, <1>7, <2>1, <2>2
<1> HIDE DEF G, Y, N, call
<1>8. Described(G, Y, N, S \cup {call}, d.cache)
  BY <1>2, <1>3, <1>4, <1>5, <1>6, <1>7 DEF Described
<1>9. QED  BY <1>8 DEF G, Y, N, call

LEMMA DescribedReadable ==
    ASSUME NEW F, NEW X, NEW M, NEW S, NEW c, CacheOK(c), Described(F, X, M, S, c),
           NEW ids \in DOMAIN c.stacks
    PROVE  Readable(F, X, M, S, c.stacks[ids]) /\ S # {}
<1>1. PICK s : s = [iid |-> c.stacks[ids], frames |-> ids]  OBVIOUS
<1>2. s \in S /\ s.iid = c.stacks[ids] /\ s.frames = ids  BY <1>1 DEF Described
<1>3. ASSUME NEW r \in S, r.iid = c.stacks[ids] PROVE r = s
  <2>1. PICK i \in DOMAIN c.stacks : r = [iid |-> c.stacks[i], frames |-> i]  BY <1>3 DEF Described
  <2>2. c.stacks[i] = c.stacks[ids]  BY <1>3, <2>1
  <2>3. i = ids  BY <2>2 DEF CacheOK, IsTable
  <2>4. QED  BY <1>1, <2>1, <2>3
<1>4. ASSUME NEW n \in DOMAIN ids PROVE \E x \in X : x.iid = ids[n]
  <2>1. PICK k \in DOMAIN c.frames : ids[n] = c.frames[k]  BY <1>4 DEF Described
  <2>2. QED  BY <2>1 DEF Described
<1>5. \A x \in X : x.function \in F /\ x.mapping \in M  BY DEF Described
<1>6. QED  BY <1>2, <1>3, <1>4, <1>5 DEF Readable

\* The same packets say the same.
LEMMA SameEntries ==
    ASSUME NEW f, NEW g, NEW js, \A j \in js : g[j] = f[j]
    PROVE  /\ FunctionsOf(g, js) = FunctionsOf(f, js) /\ FramesOf(g, js) = FramesOf(f, js)
           /\ MappingsOf(g, js) = MappingsOf(f, js) /\ CallstacksOf(g, js) = CallstacksOf(f, js)
           /\ ClearedOnce(f, js) => ClearedOnce(g, js)
<1>1. FunctionsOf(g, js) = FunctionsOf(f, js)  BY DEF FunctionsOf
<1>2. FramesOf(g, js) = FramesOf(f, js)  BY DEF FramesOf
<1>3. MappingsOf(g, js) = MappingsOf(f, js)  BY DEF MappingsOf
<1>4. CallstacksOf(g, js) = CallstacksOf(f, js)  BY DEF CallstacksOf
<1>5. ClearedOnce(f, js) => ClearedOnce(g, js)  BY DEF ClearedOnce
<1>6. QED  BY <1>1, <1>2, <1>3, <1>4, <1>5

\* Packets of other kinds are none of the reader's interned data.
LEMMA ResolvedGrown ==
    ASSUME NEW f, NEW g, IsFile(f), IsFile(g), NEW T, Grown(f, g, T), "interned" \notin T,
           NEW c, Resolved(f, c)
    PROVE  Resolved(g, c) /\ Entries(g) = Entries(f)
<1>1. Len(f) \in Nat /\ Len(g) \in Nat  BY FileLength
<1>2. Entries(g) = Entries(f)
  <2>1. ASSUME NEW j \in Entries(g) PROVE j \in Entries(f)  BY <1>1, <2>1 DEF Entries, Grown
  <2>2. ASSUME NEW j \in Entries(f) PROVE j \in Entries(g)  BY <1>1, <2>2 DEF Entries, Grown
  <2>3. QED  BY <2>1, <2>2
<1>3. PICK js : js = Entries(f)  OBVIOUS
<1>4. \A j \in js : g[j] = f[j]  BY <1>3 DEF Entries, Grown
<1>5. DescribedBy(g, js, c)  BY <1>3, <1>4, SameEntries DEF DescribedBy, Resolved
<1>6. ClearedOnce(f, js) => ClearedOnce(g, js)  BY <1>4, SameEntries
<1>7. QED  BY <1>2, <1>3, <1>5, <1>6 DEF Resolved

LEMMA SampleResolvedGrown ==
    ASSUME NEW f, NEW g, IsFile(f), IsFile(g), NEW T, Grown(f, g, T),
           NEW i \in 1 .. Len(f), SampleResolved(f, i)
    PROVE  SampleResolved(g, i)
<1>1. Len(f) \in Nat /\ Len(g) \in Nat  BY FileLength
<1>2. Before(g, i) = Before(f, i)
  <2>1. ASSUME NEW j \in Before(g, i) PROVE j \in Before(f, i)
    BY <1>1, <2>1 DEF Before, Entries, Grown
  <2>2. ASSUME NEW j \in Before(f, i) PROVE j \in Before(g, i)
    BY <1>1, <2>2 DEF Before, Entries, Grown
  <2>3. QED  BY <2>1, <2>2
<1>3. PICK js : js = Before(f, i)  OBVIOUS
<1>4. (\A j \in js : g[j] = f[j]) /\ g[i] = f[i]  BY <1>3 DEF Before, Entries, Grown
<1>5. ReadableAt(g, js, g[i].callstack)
  BY <1>3, <1>4, SameEntries DEF ReadableAt, SampleResolved
<1>6. ClearedOnce(g, js)  BY <1>3, <1>4, SameEntries DEF SampleResolved
<1>7. QED  BY <1>2, <1>3, <1>5, <1>6 DEF SampleResolved

\* The packet of data() adds what the cache has got since.
LEMMA ResolvedPacket ==
    ASSUME NEW f, IsFile(f), NEW c, Resolved(f, c), c.first \in BOOLEAN,
           NEW keys, Len(keys) \in Nat, NEW a, NEW d, Interns(c, keys, a, d), d.packets # <<>>,
           NEW g, g = Append(f, d.packets[1])
    PROVE  Resolved(g, d.cache)
<1>1. PICK x : x = d.packets[1]  OBVIOUS
<1>2. /\ ~d.cache.first /\ x.type = "interned" /\ x.cleared = c.first
      /\ x.functions = a.data.functions /\ x.frames = a.data.frames /\ x.mappings = a.data.mappings
      /\ x.callstack = [iid |-> d.iid, frames |-> a.data.ids]
  BY <1>1 DEF Interns
<1>3. /\ IsFile(g) /\ Len(g) = Len(f) + 1 /\ g[Len(f) + 1] = x /\ Grown(f, g, {x.type})
      /\ \A i \in 1 .. Len(g) : i \in 1 .. Len(f) \/ i = Len(f) + 1
  <2>1. g = Append(f, x)  BY <1>1
  <2>2. QED  BY <2>1, AppendOne
<1>4. PICK n \in Nat : n = Len(f)  BY FileLength
<1>5. PICK js : js = Entries(f)  OBVIOUS
<1>6. (\A j \in js : g[j] = f[j] /\ j \in 1 .. n) /\ g[n + 1] = x
  BY <1>3, <1>4, <1>5 DEF Entries, Grown
<1>7. Entries(g) = js \cup {n + 1}
  <2>1. ASSUME NEW j \in Entries(g) PROVE j \in js \cup {n + 1}
    BY <1>3, <1>4, <1>5, <2>1 DEF Entries, Grown
  <2>2. ASSUME NEW j \in js PROVE j \in Entries(g)
    BY <1>3, <1>4, <1>5, <2>2 DEF Entries, Grown
  <2>3. n + 1 \in Entries(g)  BY <1>2, <1>3, <1>4 DEF Entries
  <2>4. QED  BY <2>1, <2>2, <2>3
<1>8. PICK ks : ks = js \cup {n + 1}  OBVIOUS
<1>9. ClearedOnce(g, ks)
  <2>1. CASE c.first
    <3>1. js = {}  BY <1>5, <2>1 DEF Resolved
    <3>2. ks = {n + 1}  BY <1>8, <3>1
    <3>3. PICK z : z = n + 1  OBVIOUS
    <3>4. ks = {z} /\ z <= z /\ g[z] = x
      <4>1. ks = {z} /\ g[z] = x  BY <1>6, <3>2, <3>3, Zenon
      <4>2. z \in Nat  BY <3>3
      <4>3. QED  BY <4>1, <4>2
    <3>5. g[z].cleared
      <4>1. x.cleared = c.first  BY <1>2
      <4>2. QED  BY <2>1, <3>4, <4>1, Zenon
    <3>6. QED  BY <3>4, <3>5 DEF ClearedOnce
  <2>2. CASE ~c.first
    <3>1. PICK z \in js : f[z].cleared /\ \A j \in js : z <= j /\ (j = z \/ ~f[j].cleared)
      BY <1>5, <2>2 DEF Resolved, ClearedOnce
    <3>2. z \in ks /\ g[z].cleared /\ z <= n + 1
      <4>1. g[z] = f[z] /\ z \in 1 .. n  BY <1>6
      <4>2. QED  BY <1>8, <3>1, <4>1
    <3>3. \A j \in ks : z <= j /\ (j = z \/ ~g[j].cleared)
      BY <1>2, <1>6, <1>8, <2>2, <3>1, <3>2
    <3>4. QED  BY <3>2, <3>3 DEF ClearedOnce
  <2>3. QED  BY <2>1, <2>2
<1>10. /\ FunctionsOf(g, ks) = FunctionsOf(f, js) \cup x.functions
       /\ FramesOf(g, ks) = FramesOf(f, js) \cup x.frames
       /\ MappingsOf(g, ks) = MappingsOf(f, js) \cup x.mappings
       /\ CallstacksOf(g, ks) = CallstacksOf(f, js) \cup {x.callstack}
  <2>1. /\ FunctionsOf(g, ks) = FunctionsOf(g, js) \cup x.functions  BY <1>6, <1>8, ZenonT(60) DEF FunctionsOf
  <2>2. FramesOf(g, ks) = FramesOf(g, js) \cup x.frames  BY <1>6, <1>8, ZenonT(60) DEF FramesOf
  <2>3. MappingsOf(g, ks) = MappingsOf(g, js) \cup x.mappings  BY <1>6, <1>8 DEF MappingsOf
  <2>4. CallstacksOf(g, ks) = CallstacksOf(g, js) \cup {x.callstack}  BY <1>6, <1>8 DEF CallstacksOf
  <2>5. \A j \in js : g[j] = f[j]  BY <1>6
  <2>6. /\ FunctionsOf(g, js) = FunctionsOf(f, js) /\ FramesOf(g, js) = FramesOf(f, js)
        /\ MappingsOf(g, js) = MappingsOf(f, js) /\ CallstacksOf(g, js) = CallstacksOf(f, js)
    BY <2>5, SameEntries, ZenonT(60)
  <2>7. QED  BY <2>1, <2>2, <2>3, <2>4, <2>6
<1>11. DescribedBy(g, ks, d.cache)
  <2>1. PICK F, X, M, S : /\ F = FunctionsOf(f, js) /\ X = FramesOf(f, js)
                          /\ M = MappingsOf(f, js) /\ S = CallstacksOf(f, js)
    OBVIOUS
  <2>2. Described(F, X, M, S, c)  BY <1>5, <2>1 DEF Resolved, DescribedBy
  <2>3. Described(F \cup a.data.functions, X \cup a.data.frames, M \cup a.data.mappings,
                  S \cup {[iid |-> d.iid, frames |-> a.data.ids]}, d.cache)
    BY <2>2, DescribedOn
  <2>4. QED  BY <1>2, <1>10, <2>1, <2>3 DEF DescribedBy
<1>12. QED  BY <1>2, <1>7, <1>8, <1>9, <1>11 DEF Resolved

\* Without a packet there was nothing to add.
LEMMA ResolvedSame ==
    ASSUME NEW f, NEW c, Resolved(f, c), NEW keys, Len(keys) \in Nat,
           NEW a, NEW d, Interns(c, keys, a, d), d.packets = <<>>
    PROVE  Resolved(f, d.cache)
<1>1. PICK F, X, M, S : /\ F = FunctionsOf(f, Entries(f)) /\ X = FramesOf(f, Entries(f))
                        /\ M = MappingsOf(f, Entries(f)) /\ S = CallstacksOf(f, Entries(f))
  OBVIOUS
<1>2. Described(F, X, M, S, c)  BY <1>1 DEF Resolved, DescribedBy
<1>3. PICK call : call = [iid |-> d.iid, frames |-> a.data.ids]  OBVIOUS
<1>4. Described(F \cup a.data.functions, X \cup a.data.frames, M \cup a.data.mappings,
                S \cup {call}, d.cache)
  BY <1>2, <1>3, DescribedOn
<1>5. /\ a.data.ids \in DOMAIN c.stacks /\ a.data.frames = {} /\ a.data.functions = {}
      /\ a.data.mappings = {} /\ d.cache.first = c.first
      /\ Within(c.stacks, d.cache.stacks) /\ d.cache.stacks[a.data.ids] = d.iid
  BY DEF Interns
<1>6. call = [iid |-> c.stacks[a.data.ids], frames |-> a.data.ids]  BY <1>3, <1>5 DEF Within
<1>7. call \in S  BY <1>2, <1>5, <1>6 DEF Described
<1>8. /\ F \cup a.data.functions = F /\ X \cup a.data.frames = X
      /\ M \cup a.data.mappings = M /\ S \cup {call} = S
  BY <1>5, <1>7
<1>9. Described(F, X, M, S, d.cache)  BY <1>4, <1>8
<1>10. QED  BY <1>1, <1>5, <1>9 DEF Resolved, DescribedBy

LEMMA ResolveConsumes ==
    ASSUME ProfilerInv, ResolveInv, failures \in Nat, failures' = 0,
           NEW e, NEW s, NEW d, Consumes(e, s, d)
    PROVE  /\ Resolved(file', d.cache)
           /\ \A i \in 1 .. Len(file') : file'[i].type = "sample" => SampleResolved(file', i)
<1>1. failures = 0 /\ IsFile(file) /\ IsFile(file')  BY DEF Consumes
<1>2. PICK f, h, c : f = file /\ h = file' /\ c = cache  OBVIOUS
<1>3. /\ IsFile(f) /\ IsFile(h) /\ Resolved(f, c)
      /\ \A i \in 1 .. Len(f) : f[i].type = "sample" => SampleResolved(f, i)
  BY <1>1, <1>2 DEF ResolveInv
<1>4. /\ CacheOK(d.cache) /\ Shows(d.cache, FrameKeys(e.pid, s), d.iid)
      /\ \E keys, a : Len(keys) \in Nat /\ Interns(c, keys, a, d)
  BY <1>2, ConsumesInterns DEF ProfilerInv
<1>5. PICK keys, a : Len(keys) \in Nat /\ Interns(c, keys, a, d)  BY <1>4
<1>6. c.first \in BOOLEAN  BY <1>2 DEF ProfilerInv, CacheOK
<1>7. PICK sample : sample = [type |-> "sample", callstack |-> d.iid, pid |-> e.pid, stack |-> s]
  OBVIOUS
<1>8. PICK g : /\ IsFile(g) /\ h = Append(g, sample)
               /\ \/ g = f /\ d.packets = <<>>
                  \/ d.packets # <<>> /\ g = Append(f, d.packets[1])
  BY <1>1, <1>2, <1>7 DEF Consumes, Sampled
<1>9. /\ Resolved(g, d.cache)
      /\ \A i \in 1 .. Len(g) : g[i].type = "sample" => SampleResolved(g, i)
  <2>1. CASE d.packets = <<>>
    <3>1. Resolved(f, d.cache)  BY <1>3, <1>5, <2>1, ResolvedSame
    <3>2. QED  BY <1>3, <1>8, <2>1, <3>1
  <2>2. CASE d.packets # <<>>
    <3>1. PICK x : x = d.packets[1]  OBVIOUS
    <3>2. x.type = "interned"  BY <1>5, <2>2, <3>1 DEF Interns
    <3>3. g = Append(f, x)  BY <1>8, <2>2, <3>1
    <3>4. Grown(f, g, {x.type}) /\ \A i \in 1 .. Len(g) : i \in 1 .. Len(f) \/ g[i] = x
      BY <1>3, <3>3, AppendOne
    <3>5. Resolved(g, d.cache)  BY <1>3, <1>5, <1>6, <2>2, <3>1, <3>3, ResolvedPacket
    <3>6. ASSUME NEW i \in 1 .. Len(g), g[i].type = "sample" PROVE SampleResolved(g, i)
      <4>1. i \in 1 .. Len(f)  BY <3>2, <3>4, <3>6
      <4>2. SampleResolved(f, i)  BY <1>3, <3>4, <3>6, <4>1 DEF Grown
      <4>3. QED  BY <1>3, <1>8, <3>4, <4>1, <4>2, SampleResolvedGrown
    <3>7. QED  BY <3>5, <3>6
  <2>3. QED  BY <2>1, <2>2
<1>10. /\ Len(h) = Len(g) + 1 /\ h[Len(g) + 1] = sample /\ Grown(g, h, {sample.type})
       /\ \A i \in 1 .. Len(h) : i \in 1 .. Len(g) \/ i = Len(g) + 1
  <2>1. h = Append(g, sample) /\ IsFile(g)  BY <1>8
  <2>2. QED  BY <2>1, AppendOne
<1>11. "interned" \notin {sample.type} /\ sample.callstack = d.iid  BY <1>7
<1>12. Resolved(h, d.cache)  BY <1>3, <1>8, <1>9, <1>10, <1>11, ResolvedGrown
<1>13. SampleResolved(h, Len(h))
  <2>1. PICK js : js = Entries(h)  OBVIOUS
  <2>2. Before(h, Len(h)) = js
    <3>1. Len(h) \in Nat  BY <1>3, FileLength
    <3>2. QED  BY <2>1, <3>1 DEF Before, Entries
  <2>3. PICK ids \in DOMAIN d.cache.stacks : d.cache.stacks[ids] = d.iid  BY <1>4 DEF Shows
  <2>4. PICK F, X, M, S : /\ F = FunctionsOf(h, js) /\ X = FramesOf(h, js)
                          /\ M = MappingsOf(h, js) /\ S = CallstacksOf(h, js)
    OBVIOUS
  <2>5. PICK n : n = d.cache  OBVIOUS
  <2>6. Described(F, X, M, S, n)  BY <1>12, <2>1, <2>4, <2>5 DEF Resolved, DescribedBy
  <2>7. Readable(F, X, M, S, d.iid) /\ S # {}
    BY <1>4, <2>3, <2>5, <2>6, DescribedReadable
  <2>8. ReadableAt(h, js, d.iid)  BY <2>4, <2>7 DEF ReadableAt
  <2>9. js # {}  BY <2>4, <2>7 DEF CallstacksOf
  <2>10. ClearedOnce(h, js)  BY <1>12, <2>1, <2>9 DEF Resolved
  <2>11. h[Len(h)].callstack = d.iid  BY <1>10, <1>11
  <2>12. QED  BY <2>2, <2>8, <2>10, <2>11 DEF SampleResolved
<1>14. ASSUME NEW i \in 1 .. Len(h), h[i].type = "sample" PROVE SampleResolved(h, i)
  <2>1. CASE i \in 1 .. Len(g)
    <3>1. SampleResolved(g, i)  BY <1>9, <1>10, <1>14, <2>1 DEF Grown
    <3>2. QED  BY <1>3, <1>8, <1>10, <2>1, <3>1, SampleResolvedGrown
  <2>2. CASE i = Len(g) + 1  BY <1>10, <1>13, <2>2
  <2>3. QED  BY <1>10, <1>14, <2>1, <2>2
<1>15. QED  BY <1>2, <1>12, <1>14

LEMMA ResolveKeeps == ASSUME TrackInv, ProfilerInv, ResolveInv, [Next]_vars PROVE ResolveInv'
<1>1. failures \in Nat  BY DEF TrackInv, StateOK, St
<1>2. CASE convert_event /\ UNCHANGED profilerVars
  <2> SUFFICES ASSUME failures' = 0
               PROVE  /\ Resolved(file', cache')
                      /\ \A i \in 1 .. Len(file') : file'[i].type = "sample" => SampleResolved(file', i)
    BY DEF ResolveInv
  <2>1. /\ Grown(file, file', Quiet \cup {"begin"}) /\ IsFile(file) /\ IsFile(file')
        /\ failures <= failures'
    BY <1>2, ConvertKeeps
  <2>2. cache' = cache /\ failures = 0  BY <1>1, <1>2, <2>1 DEF profilerVars
  <2>3. PICK f, g, c, T : f = file /\ g = file' /\ c = cache /\ T = Quiet \cup {"begin"}  OBVIOUS
  <2>4. /\ Grown(f, g, T) /\ IsFile(f) /\ IsFile(g) /\ Resolved(f, c)
        /\ \A i \in 1 .. Len(f) : f[i].type = "sample" => SampleResolved(f, i)
    BY <2>1, <2>2, <2>3 DEF ResolveInv
  <2>5. "interned" \notin T /\ "sample" \notin T  BY <2>3 DEF Quiet
  <2>6. Resolved(g, c)  BY <2>4, <2>5, ResolvedGrown
  <2>7. ASSUME NEW i \in 1 .. Len(g), g[i].type = "sample" PROVE SampleResolved(g, i)
    <3>1. i \in 1 .. Len(f) /\ f[i].type = "sample"  BY <2>4, <2>5, <2>7 DEF Grown
    <3>2. QED  BY <2>4, <3>1, SampleResolvedGrown
  <2>8. QED  BY <2>2, <2>3, <2>6, <2>7
<1>3. ASSUME NEW p \in Pids, NEW u \in UserTraces \cup {None}, NEW k \in KernelTraces \cup {None},
             profiler_perf_event(p, u, k)
      PROVE  ResolveInv'
  BY <1>3 DEF profiler_perf_event, converterVars, ResolveInv
<1>4. CASE consume_sample
  <2>1. PICK e, s, d : Consumes(e, s, d)  BY <1>4, SampleKeeps
  <2>2. cache' = d.cache  BY <2>1 DEF Consumes
  <2>3. QED  BY <1>1, <2>1, <2>2, ResolveConsumes DEF ResolveInv
<1>5. CASE drop_sample  BY <1>5 DEF drop_sample, converterVars, ResolveInv
<1>6. CASE UNCHANGED vars  BY <1>6 DEF ResolveInv, vars, converterVars, profilerVars
<1>7. QED  BY <1>2, <1>3, <1>4, <1>5, <1>6 DEF Next

LEMMA ResolveInit == ASSUME Init PROVE ResolveInv
<1>1. /\ cache = NewCache /\ file = <<>>  BY DEF Init, ConverterInit
<1>2. Entries(file) = {}  BY <1>1 DEF Entries
<1>3. /\ cache.first /\ cache.unknown = None /\ ~cache.mapping
      /\ DOMAIN cache.frames = {} /\ DOMAIN cache.stacks = {}
  BY <1>1 DEF NewCache
<1>4. Described({}, {}, {}, {}, cache)  BY <1>3 DEF Described
<1>5. /\ FunctionsOf(file, {}) = {} /\ FramesOf(file, {}) = {} /\ MappingsOf(file, {}) = {}
      /\ CallstacksOf(file, {}) = {}
  BY DEF FunctionsOf, FramesOf, MappingsOf, CallstacksOf
<1>6. Resolved(file, cache)  BY <1>2, <1>3, <1>4, <1>5 DEF Resolved, DescribedBy
<1>7. \A i \in 1 .. Len(file) : file[i].type # "sample"  BY <1>1
<1>8. QED  BY <1>6, <1>7 DEF ResolveInv

\* As long as no write has failed, every sample of the trace can be followed to
\* the names of its frames by a reader that goes through the packets in order:
\* Interned::data() announces in a packet all that its cache has not had before,
\* and clears the reader's state with the first of them only.
THEOREM SamplesAreResolvable == Spec => []SamplesResolvable
<1>1. ASSUME TrackInv, ResolveInv PROVE SamplesResolvable
  <2> SUFFICES ASSUME failures = 0, NEW i \in DOMAIN file, file[i].type = "sample"
               PROVE  LET stacks == {f \in Held(i, LAMBDA q : {q.callstack}) : f.iid = file[i].callstack}
                          frames == {f \in Held(i, LAMBDA q : q.frames) :
                                         \E s \in stacks : \E n \in DOMAIN s.frames : s.frames[n] = f.iid}
                      IN  /\ Cardinality(stacks) = 1
                          /\ \A s \in stacks : \A n \in DOMAIN s.frames :
                                 \E f \in frames : f.iid = s.frames[n]
                          /\ \A f \in frames : /\ f.function \in Held(i, LAMBDA q : q.functions)
                                               /\ f.mapping \in Held(i, LAMBDA q : q.mappings)
                          /\ \E j \in 1 .. (i - 1) : Clears(j)
    BY DEF SamplesResolvable
  <2>1. Len(file) \in Nat /\ DOMAIN file = 1 .. Len(file)  BY <1>1, FileLength DEF TrackInv, StateOK, St
  <2>2. i \in 1 .. Len(file)  BY <2>1
  <2>3. PICK js : js = Before(file, i)  OBVIOUS
  <2>4. ClearedOnce(file, js) /\ ReadableAt(file, js, file[i].callstack)
    BY <1>1, <2>2, <2>3 DEF ResolveInv, SampleResolved
  <2>5. \A j \in 1 .. i : j \in js <=> file[j].type = "interned"  BY <2>1, <2>2, <2>3 DEF Before, Entries
  <2>6. js \subseteq 1 .. i  BY <2>1, <2>2, <2>3 DEF Before, Entries
  <2>7. PICK z \in js : file[z].cleared /\ \A j \in js : z <= j /\ (j = z \/ ~file[j].cleared)
    BY <2>4 DEF ClearedOnce
  <2>8. js = {k \in 1 .. i : file[k].type = "interned" /\ \A n \in (k + 1) .. i : ~Clears(n)}
    <3>1. ASSUME NEW k \in js, NEW n \in (k + 1) .. i PROVE ~Clears(n)
      <4>1. k \in 1 .. i /\ z \in 1 .. i /\ z <= k /\ n \in 1 .. i /\ n # z  BY <2>6, <2>7
      <4>2. n \in js => ~file[n].cleared  BY <2>7, <4>1
      <4>3. QED  BY <2>5, <4>1, <4>2 DEF Clears
    <3>2. QED  BY <2>5, <2>6, <3>1
  <2> DEFINE stacks == {f \in Held(i, LAMBDA q : {q.callstack}) : f.iid = file[i].callstack}
             frames == {f \in Held(i, LAMBDA q : q.frames) :
                            \E s \in stacks : \E n \in DOMAIN s.frames : s.frames[n] = f.iid}
             F == FunctionsOf(file, js)
             X == FramesOf(file, js)
             M == MappingsOf(file, js)
             S == CallstacksOf(file, js)
  <2>9. Held(i, LAMBDA q : {q.callstack}) = S  BY <2>8 DEF Held, CallstacksOf
  <2>10. Held(i, LAMBDA q : q.frames) = X  BY <2>8 DEF Held, FramesOf
  <2>11. Held(i, LAMBDA q : q.functions) = F  BY <2>8 DEF Held, FunctionsOf
  <2>12. Held(i, LAMBDA q : q.mappings) = M  BY <2>8 DEF Held, MappingsOf
  <2>13. stacks = {f \in S : f.iid = file[i].callstack}  BY <2>9
  <2>14. frames = {f \in X : \E s \in stacks : \E n \in DOMAIN s.frames : s.frames[n] = f.iid}
    BY <2>10
  <2>15. Readable(F, X, M, S, file[i].callstack)  BY <2>4 DEF ReadableAt
  <2> HIDE DEF stacks, frames, F, X, M, S
  <2>16. PICK s \in S : /\ s.iid = file[i].callstack
                        /\ \A r \in S : r.iid = file[i].callstack => r = s
                        /\ \A n \in DOMAIN s.frames : \E x \in X : x.iid = s.frames[n]
    BY <2>15 DEF Readable
  <2>17. stacks = {s}  BY <2>13, <2>16
  <2>18. Cardinality(stacks) = 1  BY <2>17, FS_Singleton
  <2>19. \A r \in stacks : \A n \in DOMAIN r.frames : \E f \in frames : f.iid = r.frames[n]
    BY <2>14, <2>16, <2>17
  <2>20. \A f \in frames : f.function \in F /\ f.mapping \in M  BY <2>14, <2>15 DEF Readable
  <2>21. \E j \in 1 .. (i - 1) : Clears(j)
    <3>1. z \in 1 .. i /\ file[z].type = "interned" /\ file[i].type = "sample"  BY <2>5, <2>6, <2>7
    <3>2. z # i  BY <3>1
    <3>3. z \in 1 .. (i - 1)  BY <2>1, <2>2, <3>1, <3>2
    <3>4. Clears(z)  BY <2>7, <3>1 DEF Clears
    <3>5. QED  BY <3>3, <3>4
  <2>22. QED  BY <2>11, <2>12, <2>18, <2>19, <2>20, <2>21 DEF stacks, frames
<1>2. QED
  BY InitOK, NextKeeps, ProfilerInit, ProfilerKeeps, ResolveInit, ResolveKeeps, <1>1, PTL DEF Spec
=============================================================================
