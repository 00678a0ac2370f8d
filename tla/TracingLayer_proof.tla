------------------------- MODULE TracingLayer_proof -------------------------
(***************************************************************************)
(* For any threads, spans, call sites, sessions, filters and clocks: what  *)
(* is in a session's ring was admitted by its filter or was under way when *)
(* it began, spans have the times of the session's clock, and threads are  *)
(* named before their events.                                              *)
(*                                                                         *)
(* The heart of the argument is Admitted: what has passed the filter       *)
(* belongs to an earlier session, or the present one admits it, or the     *)
(* present one is over.  A session that is over never comes back.          *)
(***************************************************************************)
EXTENDS TracingLayer, TLAPS

-----------------------------------------------------------------------------
(* Types.                                                                   *)

Pids == {OwnPid} \cup {Sessions[n].pid : n \in Ids}

Calls == {"new_span", "enter", "exit", "event"}

Early == [at : {"filter", "clock"}, call : Calls, span : Spans \cup {None}, site : Sites,
          since : Nat]

ExitEvents == [at : {"submit"}, call : {"exit"}, span : Spans, site : Sites, since : Nat,
               entered : Entered, start : Nat, end : Nat, pid : Pids]

InstantEvents == [at : {"submit"}, call : {"event"}, span : {None}, site : Sites, since : Nat,
                  end : Nat, pid : Pids]

Late == [call : {"exit", "event"}, span : Spans \cup {None}, at : {"name", "record"},
         session : Ids, event : ExitEvents \cup InstantEvents]

Callbacks == {Idle} \cup Early \cup ExitEvents \cup InstantEvents \cup Late

Records == [type : {"track"}, thread : Threads, pid : Pids]
             \cup [type : {"exit", "event"}, thread : Threads, event : ExitEvents \cup InstantEvents]

LayerTypeOK ==
    /\ now \in Nat /\ begun \in 0 .. Len(Sessions) /\ state \in 0 .. Len(Sessions)
    /\ process_id \in Pids
    /\ names_sent \in [Ids -> SUBSET Threads]
    /\ ring \in [Ids -> Seq(Records)]
    /\ spans \in [Spans -> SpanRecords \cup {None}]
    /\ callback \in [Threads -> Callbacks]

-----------------------------------------------------------------------------
(* The inductive invariant.                                                 *)

\* The extension holds the last session that began, or none; while it holds one
\* the process id is that session's.
SessionInv ==
    state # 0 => state = begun /\ process_id = Sessions[begun].pid

\* What has passed the filter.
Admitted(site, since) ==
    since < begun \/ (state # 0 => site \in Sessions[begun].filter)

\* The start time of a span, where the session that was on at the enter is on.
Started(start_time, entered) ==
    entered.by # None =>
        /\ entered.time < now /\ entered.since <= begun
        /\ entered.since = begun /\ state # 0 =>
              start_time = entered.time + Offset[Sessions[begun].clock]

\* What a span event shows when it is in session n's ring or on the way there.
Timed(n, e) ==
    e.call = "exit" /\ e.entered.by # None /\ e.entered.since >= n =>
        /\ e.start = e.entered.time + Offset[Sessions[n].clock]
        /\ e.start < e.end
        /\ e.pid = Sessions[n].pid

Fits(n, e) == (e.since < n \/ e.site \in Sessions[n].filter) /\ Timed(n, e)

\* A callback that looks at a span finds it; the one that creates it knows when
\* it began.
Looking(c) ==
    /\ c.since <= begun
    /\ c.at = "filter" => c.call \in {"new_span", "event"}
    /\ c.at = "clock" => c.call \in {"enter", "exit", "event"}
    /\ c.call # "event" => c.span \in Spans /\ spans[c.span] # None
    /\ c.call = "new_span" => spans[c.span].since = c.since /\ spans[c.span].site = c.site
    /\ c.at = "clock" /\ c.call = "event" => Admitted(c.site, c.since)

\* An event that waits for its session.
Waiting(c) ==
    /\ c.since <= begun /\ Admitted(c.site, c.since)
    /\ c.call = "exit" => Started(c.start, c.entered) /\ (state # 0 => Timed(begun, c))

\* An event on its way into a ring, before and after its thread has been named.
Sending(t, c) ==
    /\ Fits(c.session, c.event)
    /\ c.at = "name" => t \notin names_sent[c.session]
    /\ c.at = "record" => t \in names_sent[c.session]

CallOK(t, c) ==
    /\ c.at \in {"filter", "clock"} => Looking(c)
    /\ c.at = "submit" => Waiting(c)
    /\ c.at \in {"name", "record"} => Sending(t, c)

SpanOK(r) ==
    /\ r.since <= begun
    /\ r.data => Admitted(r.site, r.since)
    /\ Started(r.start, r.entered)

Track(r, t) == r.type = "track" /\ r.thread = t

\* The records q of session n's ring: their threads are marked as named, and who
\* is marked and has a name has a track.
RingOK(n, q, marked) ==
    /\ \A i \in 1 .. Len(q) : q[i].thread \in marked
    /\ \A i \in 1 .. Len(q) : q[i].type # "track" => Fits(n, q[i].event)
    /\ \A t \in marked \cap Named : \E i \in 1 .. Len(q) : Track(q[i], t)
    /\ \A i \in 1 .. Len(q) : q[i].type = "track" =>
           \A j \in 1 .. (i - 1) : q[j].thread # q[i].thread
    /\ \A i \in 1 .. Len(q) : q[i].type # "track" /\ q[i].thread \in Named =>
           \E j \in 1 .. (i - 1) : Track(q[j], q[i].thread)

CallInv == \A t \in Threads : CallOK(t, callback[t])
SpanInv == \A s \in Spans : spans[s] # None => SpanOK(spans[s])
InsideInv == \A t \in Threads, s \in Spans : <<t, s>> \in inside => spans[s] # None
RingInv == \A n \in Ids : RingOK(n, ring[n], names_sent[n])

LayerInv == LayerTypeOK /\ SessionInv /\ CallInv /\ SpanInv /\ InsideInv /\ RingInv

-----------------------------------------------------------------------------
(* Callbacks and rings.                                                     *)

\* Where a callback is tells what it holds.
LEMMA Kinds ==
    ASSUME NEW c \in Callbacks
    PROVE  /\ c.at \in {"filter", "clock"} => c \in Early
           /\ c.at = "submit" /\ c.call = "exit" => c \in ExitEvents
           /\ c.at = "submit" /\ c.call # "exit" => c \in InstantEvents
           /\ c.at \in {"name", "record"} => c \in Late
<1>1. CASE c = Idle  BY <1>1 DEF Idle
<1>2. CASE c \in Early  BY <1>2 DEF Early
<1>3. CASE c \in ExitEvents  BY <1>3 DEF ExitEvents
<1>4. CASE c \in InstantEvents  BY <1>4 DEF InstantEvents
<1>5. CASE c \in Late  BY <1>5 DEF Late
<1>6. QED  BY <1>1, <1>2, <1>3, <1>4, <1>5 DEF Callbacks

\* The track of a thread that has not been named.
LEMMA AppendTrack ==
    ASSUME NEW n, NEW q \in Seq(Records), NEW marked, RingOK(n, q, marked),
           NEW r \in Records, r.type = "track", r.thread \notin marked
    PROVE  RingOK(n, Append(q, r), marked \cup {r.thread})
<1> DEFINE q2 == Append(q, r)
<1>1. /\ Len(q2) = Len(q) + 1 /\ Len(q) \in Nat /\ q2[Len(q) + 1] = r
      /\ \A i \in 1 .. Len(q) : q2[i] = q[i]
  OBVIOUS
<1>2. 1 .. Len(q2) = (1 .. Len(q)) \cup {Len(q) + 1}  BY <1>1
<1> HIDE DEF q2
<1>3. \A i \in 1 .. Len(q2) : q2[i].thread \in marked \cup {r.thread}
  BY <1>1, <1>2 DEF RingOK
<1>4. \A i \in 1 .. Len(q2) : q2[i].type # "track" => Fits(n, q2[i].event)
  BY <1>1, <1>2 DEF RingOK
<1>5. \A t \in (marked \cup {r.thread}) \cap Named : \E i \in 1 .. Len(q2) : Track(q2[i], t)
  <2> TAKE t \in (marked \cup {r.thread}) \cap Named
  <2>1. CASE t = r.thread  BY <2>1, <1>1, <1>2 DEF Track
  <2>2. CASE t \in marked  BY <2>2, <1>1, <1>2 DEF RingOK
  <2>3. QED  BY <2>1, <2>2
<1>6. \A i \in 1 .. Len(q2) : q2[i].type = "track" =>
          \A j \in 1 .. (i - 1) : q2[j].thread # q2[i].thread
  BY <1>1, <1>2 DEF RingOK
<1>7. \A i \in 1 .. Len(q2) : q2[i].type # "track" /\ q2[i].thread \in Named =>
          \E j \in 1 .. (i - 1) : Track(q2[j], q2[i].thread)
  <2> TAKE i \in 1 .. Len(q2)
  <2> HAVE q2[i].type # "track" /\ q2[i].thread \in Named
  <2>1. i \in 1 .. Len(q)  BY <1>1, <1>2
  <2>2. PICK j \in 1 .. (i - 1) : Track(q[j], q[i].thread)  BY <2>1, <1>1 DEF RingOK
  <2>3. q2[j] = q[j] /\ q2[i] = q[i]  BY <2>1, <1>1
  <2>4. QED  BY <2>2, <2>3
<1>8. QED  BY <1>3, <1>4, <1>5, <1>6, <1>7 DEF RingOK, q2

\* An event of a thread that has been named, or has no name.
LEMMA AppendEvent ==
    ASSUME NEW n, NEW q \in Seq(Records), NEW marked, RingOK(n, q, marked),
           NEW r \in Records, r.type # "track", r.thread \in marked, Fits(n, r.event)
    PROVE  RingOK(n, Append(q, r), marked)
<1> DEFINE q2 == Append(q, r)
<1>1. /\ Len(q2) = Len(q) + 1 /\ Len(q) \in Nat /\ q2[Len(q) + 1] = r
      /\ \A i \in 1 .. Len(q) : q2[i] = q[i]
  OBVIOUS
<1>2. 1 .. Len(q2) = (1 .. Len(q)) \cup {Len(q) + 1}  BY <1>1
<1> HIDE DEF q2
<1>3. \A i \in 1 .. Len(q2) : q2[i].thread \in marked
  BY <1>1, <1>2 DEF RingOK
<1>4. \A i \in 1 .. Len(q2) : q2[i].type # "track" => Fits(n, q2[i].event)
  BY <1>1, <1>2 DEF RingOK
<1>5. \A t \in marked \cap Named : \E i \in 1 .. Len(q2) : Track(q2[i], t)
  BY <1>1, <1>2 DEF RingOK
<1>6. \A i \in 1 .. Len(q2) : q2[i].type = "track" =>
          \A j \in 1 .. (i - 1) : q2[j].thread # q2[i].thread
  BY <1>1, <1>2 DEF RingOK
<1>7. \A i \in 1 .. Len(q2) : q2[i].type # "track" /\ q2[i].thread \in Named =>
          \E j \in 1 .. (i - 1) : Track(q2[j], q2[i].thread)
  <2> TAKE i \in 1 .. Len(q2)
  <2> HAVE q2[i].type # "track" /\ q2[i].thread \in Named
  <2>1. CASE i \in 1 .. Len(q)
    <3>1. PICK j \in 1 .. (i - 1) : Track(q[j], q[i].thread)  BY <2>1, <1>1 DEF RingOK
    <3>2. q2[j] = q[j] /\ q2[i] = q[i]  BY <2>1, <1>1
    <3>3. QED  BY <3>1, <3>2
  <2>2. CASE i = Len(q) + 1
    <3>1. PICK j \in 1 .. Len(q) : Track(q[j], r.thread)  BY <2>2, <1>1 DEF RingOK
    <3>2. q2[j] = q[j] /\ q2[i] = r /\ j \in 1 .. (i - 1)  BY <2>2, <1>1
    <3>3. QED  BY <3>1, <3>2
  <2>3. QED  BY <2>1, <2>2, <1>2
<1>8. QED  BY <1>3, <1>4, <1>5, <1>6, <1>7 DEF RingOK, q2

-----------------------------------------------------------------------------
(* The agent's thread.                                                      *)

callVars == <<names_sent, ring, spans, inside, callback>>

LEMMA SessionIds == ASSUME LayerTypeOK PROVE state # 0 => state \in Ids
  BY LayerConstants DEF LayerTypeOK, Ids

LEMMA set_process_idKeeps == ASSUME LayerInv, set_process_id PROVE LayerInv'
<1>1. /\ state = 0 /\ state' = 0 /\ begun' = begun /\ now' = now
      /\ UNCHANGED callVars /\ process_id' = Sessions[begun + 1].pid
  BY DEF set_process_id, appVars, callVars
<1>2. LayerTypeOK'
  <2>1. begun + 1 \in Ids
    BY LayerConstants DEF set_process_id, Ids, LayerInv, LayerTypeOK
  <2>2. process_id' \in Pids  BY <1>1, <2>1 DEF Pids
  <2>3. QED  BY <1>1, <2>2 DEF LayerInv, LayerTypeOK, callVars
<1>3. SessionInv'  BY <1>1 DEF SessionInv
<1>4. CallInv' /\ SpanInv' /\ InsideInv' /\ RingInv'
  BY <1>1 DEF LayerInv, CallInv, SpanInv, InsideInv, RingInv, CallOK, SpanOK, Looking, Waiting, Sending,
              Admitted, Started, callVars
<1>5. QED  BY <1>2, <1>3, <1>4 DEF LayerInv

\* How the invariant of what is under way survives the agent's steps.
LEMMA SessionChange ==
    ASSUME LayerInv, UNCHANGED callVars, now' = now, begun' \in Nat,
           \/ begun' = begun + 1
           \/ begun' = begun /\ state' = 0
    PROVE  CallInv' /\ SpanInv' /\ InsideInv' /\ RingInv'
<1>1. LayerTypeOK /\ begun \in Nat /\ UNCHANGED <<names_sent, ring, spans, inside, callback>>
  BY DEF LayerInv, LayerTypeOK, callVars
<1>2. ASSUME NEW site, NEW since \in Nat, since <= begun, Admitted(site, since)
      PROVE  since <= begun' /\ Admitted(site, since)'
  BY <1>1, <1>2 DEF Admitted
<1>3. ASSUME NEW a, NEW e \in Entered, Started(a, e)  PROVE Started(a, e)'
  <2>1. CASE e.by = None  BY <2>1 DEF Started
  <2>2. CASE e.by # None
    <3>1. e.since \in Nat  BY <2>2 DEF Entered
    <3>2. QED  BY <1>1, <1>3, <2>2, <3>1 DEF Started
  <2>3. QED  BY <2>1, <2>2
<1>4. CallInv'
  <2> SUFFICES ASSUME NEW t \in Threads PROVE CallOK(t, callback[t])'  BY DEF CallInv
  <2> DEFINE c == callback[t]
  <2>1. c \in Callbacks /\ c' = c /\ CallOK(t, c)
    BY <1>1 DEF LayerInv, LayerTypeOK, CallInv
  <2>2. c.at \in {"filter", "clock"} => Looking(c)'
    <3> SUFFICES ASSUME c.at \in {"filter", "clock"} PROVE Looking(c)'  OBVIOUS
    <3>1. c \in Early /\ Looking(c)  BY <2>1, Kinds DEF CallOK
    <3>2. c.since \in Nat  BY <3>1 DEF Early
    <3>3. QED  BY <1>1, <1>2, <2>1, <3>1, <3>2 DEF Looking
  <2>3. c.at = "submit" => Waiting(c)'
    <3> SUFFICES ASSUME c.at = "submit" PROVE Waiting(c)'  OBVIOUS
    <3>1. Waiting(c)  BY <2>1 DEF CallOK
    <3>2. c.since \in Nat  BY <2>1, Kinds DEF ExitEvents, InstantEvents
    <3>3. (c.since <= begun)' /\ Admitted(c.site, c.since)'
      BY <1>2, <2>1, <3>1, <3>2 DEF Waiting, Admitted
    <3>4. ASSUME c.call = "exit" PROVE Started(c.start, c.entered)' /\ (state # 0 => Timed(begun, c))'
      <4>1. c \in ExitEvents  BY <2>1, <3>4, Kinds
      <4>2. c.entered \in Entered /\ Started(c.start, c.entered)
        BY <3>1, <3>4, <4>1 DEF ExitEvents, Waiting
      <4>3. Started(c.start, c.entered)'  BY <1>3, <2>1, <4>2 DEF Started
      <4>4. ASSUME state' # 0 PROVE Timed(begun, c)'
        <5>1. begun' = begun + 1  BY <4>4
        <5>2. c.entered.by # None => c.entered.since \in Nat /\ c.entered.since <= begun
          BY <4>2 DEF Entered, Started
        <5>3. QED  BY <1>1, <2>1, <5>1, <5>2 DEF Timed
      <4>5. QED  BY <4>3, <4>4
    <3>5. QED  BY <2>1, <3>3, <3>4 DEF Waiting
  <2>4. c.at \in {"name", "record"} => Sending(t, c)'
    BY <1>1, <2>1 DEF CallOK, Sending
  <2>5. QED  BY <2>1, <2>2, <2>3, <2>4 DEF CallOK
<1>5. SpanInv'
  <2> SUFFICES ASSUME NEW s \in Spans, spans[s] # None PROVE SpanOK(spans[s])'
    BY <1>1 DEF SpanInv
  <2>1. spans[s] \in SpanRecords /\ SpanOK(spans[s])  BY <1>1 DEF LayerTypeOK, LayerInv, SpanInv
  <2>2. spans[s].since \in Nat /\ spans[s].entered \in Entered  BY <2>1 DEF SpanRecords
  <2>3. Started(spans[s].start, spans[s].entered)'  BY <1>1, <1>3, <2>1, <2>2 DEF SpanOK, Started
  <2>4. QED  BY <1>1, <1>2, <2>1, <2>2, <2>3 DEF SpanOK, Admitted
<1>6. InsideInv' /\ RingInv'  BY <1>1 DEF LayerInv, InsideInv, RingInv
<1>7. QED  BY <1>4, <1>5, <1>6

LEMMA startKeeps == ASSUME LayerInv, start PROVE LayerInv'
<1>1. /\ begun' = begun + 1 /\ state' = begun + 1 /\ begun < Len(Sessions) /\ now' = now
      /\ process_id = Sessions[begun + 1].pid /\ process_id' = process_id /\ UNCHANGED callVars
  BY DEF start, appVars, callVars
<1>2. begun \in Nat /\ Len(Sessions) \in Nat  BY LayerConstants DEF LayerInv, LayerTypeOK
<1>3. LayerTypeOK'  BY <1>1, <1>2 DEF LayerInv, LayerTypeOK, callVars
<1>4. SessionInv'  BY <1>1 DEF SessionInv
<1>5. CallInv' /\ SpanInv' /\ InsideInv' /\ RingInv'  BY <1>1, <1>2, SessionChange
<1>6. QED  BY <1>3, <1>4, <1>5 DEF LayerInv

LEMMA stopKeeps == ASSUME LayerInv, stop PROVE LayerInv'
<1>1. begun' = begun /\ state' = 0 /\ now' = now /\ process_id' = process_id /\ UNCHANGED callVars
  BY DEF stop, appVars, callVars
<1>2. begun \in Nat /\ Len(Sessions) \in Nat  BY LayerConstants DEF LayerInv, LayerTypeOK
<1>3. LayerTypeOK'  BY <1>1, <1>2 DEF LayerInv, LayerTypeOK, callVars
<1>4. SessionInv'  BY <1>1 DEF SessionInv
<1>5. CallInv' /\ SpanInv' /\ InsideInv' /\ RingInv'  BY <1>1, <1>2, SessionChange
<1>6. QED  BY <1>3, <1>4, <1>5 DEF LayerInv

-----------------------------------------------------------------------------
(* The program's threads.                                                   *)

\* A thread enters spans there are.
Enters == \A u \in Threads, s \in Spans :
              <<u, s>> \in inside' => <<u, s>> \in inside \/ spans[s] # None

\* What a step of thread t leaves to the others: spans stay and keep their site
\* and age, nobody else is marked as named, and time goes on.
ProgramStep(t) ==
    /\ UNCHANGED agentVars /\ now' \in Nat /\ now <= now'
    /\ callback' \in [Threads -> Callbacks]
    /\ \A u \in Threads : u # t => callback'[u] = callback[u]
    /\ \A s \in Spans : spans[s] # None =>
           spans'[s] # None /\ spans'[s].since = spans[s].since /\ spans'[s].site = spans[s].site
    /\ Enters
    /\ \A n \in Ids : \A u \in Threads : u # t => (u \in names_sent'[n] <=> u \in names_sent[n])

LEMMA OthersKeep ==
    ASSUME LayerInv, NEW t \in Threads, ProgramStep(t), NEW u \in Threads, u # t
    PROVE  CallOK(u, callback[u])'
<1> DEFINE c == callback[u]
<1>1. /\ c \in Callbacks /\ CallOK(u, c) /\ callback'[u] = c
      /\ begun' = begun /\ state' = state
  BY DEF LayerInv, LayerTypeOK, CallInv, ProgramStep, agentVars
<1> HIDE DEF c
<1>2. ASSUME c.at \in {"filter", "clock"}
      PROVE  /\ begun' = begun /\ c.since <= begun
             /\ c.at = "filter" => c.call \in {"new_span", "event"}
             /\ c.at = "clock" => c.call \in {"enter", "exit", "event"}
             /\ c.call # "event" => c.span \in Spans /\ spans'[c.span] # None
             /\ c.call = "new_span" => spans'[c.span].since = c.since /\ spans'[c.span].site = c.site
             /\ c.at = "clock" /\ c.call = "event" => Admitted(c.site, c.since)
  BY <1>1, <1>2 DEF CallOK, Looking, ProgramStep
<1>3. ASSUME c.at = "submit"
      PROVE  /\ c.since <= begun /\ Admitted(c.site, c.since)
             /\ c.call = "exit" => /\ c.entered \in Entered /\ Started(c.start, c.entered)
                                   /\ state # 0 => Timed(begun, c)
  BY <1>1, <1>3, Kinds DEF CallOK, Waiting, ExitEvents
<1>4. ASSUME c.at \in {"name", "record"}
      PROVE  /\ Fits(c.session, c.event)
             /\ c.at = "name" => u \notin names_sent'[c.session]
             /\ c.at = "record" => u \in names_sent'[c.session]
  <2>1. c.session \in Ids  BY <1>1, <1>4, Kinds DEF Late
  <2>2. QED  BY <1>1, <1>4, <2>1 DEF CallOK, Sending, ProgramStep
<1>5. c.at \in {"filter", "clock"} => Looking(callback[u])'
  BY <1>1, <1>2 DEF Looking, Admitted
<1>6. c.at = "submit" => Waiting(callback[u])'
  <2> SUFFICES ASSUME c.at = "submit" PROVE Waiting(callback[u])'  OBVIOUS
  <2>1. c.call = "exit" => Started(callback[u].start, callback[u].entered)'
    <3> SUFFICES ASSUME c.call = "exit" PROVE Started(callback[u].start, callback[u].entered)'
      OBVIOUS
    <3>1. c.entered \in Entered /\ Started(c.start, c.entered)  BY <1>3
    <3>2. c.entered.by # None => c.entered.time \in Nat  BY <3>1 DEF Entered
    <3>3. now \in Nat /\ now' \in Nat /\ now <= now'  BY DEF ProgramStep, LayerInv, LayerTypeOK
    <3>4. QED  BY <1>1, <3>1, <3>2, <3>3 DEF Started
  <2>2. QED  BY <1>1, <1>3, <2>1 DEF Waiting, Admitted
<1>7. c.at \in {"name", "record"} => Sending(u, callback[u])'
  BY <1>1, <1>4 DEF Sending
<1>8. QED  BY <1>1, <1>5, <1>6, <1>7 DEF CallOK

\* Spans that a step leaves alone.
LEMMA SpansKeep ==
    ASSUME LayerInv, NEW t, ProgramStep(t), NEW s \in Spans, spans[s] # None, spans'[s] = spans[s]
    PROVE  SpanOK(spans[s])'
<1>1. spans[s] \in SpanRecords /\ SpanOK(spans[s])  BY DEF LayerTypeOK, LayerInv, SpanInv
<1>2. spans[s].entered \in Entered  BY <1>1 DEF SpanRecords
<1>3. /\ begun' = begun /\ state' = state /\ now \in Nat /\ now' \in Nat /\ now <= now'
  BY DEF ProgramStep, agentVars, LayerInv, LayerTypeOK
<1>4. spans[s].entered.by # None => spans[s].entered.time \in Nat  BY <1>2 DEF Entered
<1>5. Started(spans[s].start, spans[s].entered)'  BY <1>1, <1>3, <1>4 DEF Started, SpanOK
<1>6. QED  BY <1>1, <1>3, <1>5 DEF SpanOK, Admitted

\* The invariant from what a program's step does.
LEMMA ProgramStepKeeps ==
    ASSUME LayerInv, NEW t \in Threads, ProgramStep(t), CallOK(t, callback[t])',
           spans' \in [Spans -> SpanRecords \cup {None}],
           names_sent' \in [Ids -> SUBSET Threads], ring' \in [Ids -> Seq(Records)],
           \A s \in Spans : spans'[s] = spans[s] \/ (spans'[s] # None => SpanOK(spans[s])'),
           RingInv'
    PROVE  LayerInv'
<1>1. LayerTypeOK'  BY DEF LayerInv, LayerTypeOK, ProgramStep, agentVars
<1>2. SessionInv'  BY DEF LayerInv, SessionInv, ProgramStep, agentVars
<1>3. CallInv'  BY OthersKeep DEF CallInv
<1>4. SpanInv'  BY SpansKeep DEF SpanInv
<1>5. InsideInv'  BY DEF LayerInv, InsideInv, ProgramStep, Enters
<1>6. QED  BY <1>1, <1>2, <1>3, <1>4, <1>5 DEF LayerInv

\* The same where spans, rings and marks do not change.
LEMMA CallbackStepKeeps ==
    ASSUME LayerInv, NEW t \in Threads, UNCHANGED <<agentVars, spans, names_sent, ring>>,
           now' \in Nat, now <= now', NEW c \in Callbacks,
           Enters,
           callback' = [callback EXCEPT ![t] = c], CallOK(t, callback[t])'
    PROVE  LayerInv'
<1>1. ProgramStep(t)  BY DEF LayerInv, LayerTypeOK, ProgramStep
<1>2. RingInv'  BY DEF LayerInv, RingInv
<1>3. QED  BY <1>1, <1>2, ProgramStepKeeps DEF LayerInv, LayerTypeOK

LEMMA IdleOK == \A t \in Threads : Idle \in Callbacks /\ CallOK(t, Idle)
  BY DEF Idle, Callbacks, CallOK

\* A callback that begins.
LEMMA BeginKeeps ==
    ASSUME LayerInv, NEW t \in Threads, NEW call, NEW s, NEW site \in Sites, NEW first,
           Begin(t, call, s, site, first), UNCHANGED spans,
           Enters,
           \/ first = "filter" /\ call = "event" /\ s = None
           \/ first = "clock" /\ call \in {"enter", "exit"} /\ s \in Spans /\ spans[s] # None
    PROVE  LayerInv'
<1> DEFINE b == [at |-> first, call |-> call, span |-> s, site |-> site, since |-> begun]
<1>1. /\ now \in Nat /\ begun \in Nat /\ callback \in [Threads -> Callbacks]
      /\ begun' = begun /\ UNCHANGED <<agentVars, spans, names_sent, ring>>
      /\ now' \in Nat /\ now <= now'
  BY LayerConstants DEF LayerInv, LayerTypeOK, Begin, agentVars
<1>2. CASE is_active
  <2>1. callback' = [callback EXCEPT ![t] = b]  BY <1>2 DEF Begin
  <2>2. b \in Early  BY <1>1 DEF Early, Calls
  <2>3. b \in Callbacks /\ callback'[t] = b  BY <1>1, <2>1, <2>2 DEF Callbacks
  <2>4. CallOK(t, callback[t])'  BY <1>1, <2>3 DEF CallOK, Looking
  <2> HIDE DEF b
  <2>5. QED  BY <1>1, <2>1, <2>3, <2>4, CallbackStepKeeps
<1>3. CASE ~is_active
  <2>1. callback' = callback /\ callback[t].at = "idle"  BY <1>3 DEF Begin, ReentrancyGuard
  <2>2. CallOK(t, callback[t])'  BY <2>1 DEF CallOK
  <2>3. callback' = [callback EXCEPT ![t] = callback[t]] /\ callback[t] \in Callbacks
    BY <1>1, <2>1
  <2>4. QED  BY <1>1, <2>2, <2>3, CallbackStepKeeps
<1>4. QED  BY <1>2, <1>3

LEMMA enterKeeps == ASSUME LayerInv, NEW t \in Threads, NEW s \in Spans, enter(t, s) PROVE LayerInv'
<1>1. /\ spans[s] # None /\ Begin(t, "enter", s, spans[s].site, "clock")
      /\ inside' = inside \cup {<<t, s>>} /\ UNCHANGED spans
  BY DEF enter, Created
<1>2. spans[s].site \in Sites  BY <1>1 DEF LayerInv, LayerTypeOK, SpanRecords
<1>3. Enters  BY <1>1 DEF Enters
<1>4. QED  BY <1>1, <1>2, <1>3, BeginKeeps

LEMMA exitKeeps == ASSUME LayerInv, NEW t \in Threads, NEW s \in Spans, exit(t, s) PROVE LayerInv'
<1>1. /\ spans[s] # None /\ Begin(t, "exit", s, spans[s].site, "clock")
      /\ inside' = inside \ {<<t, s>>} /\ UNCHANGED spans
  BY DEF exit, LayerInv, InsideInv
<1>2. spans[s].site \in Sites  BY <1>1 DEF LayerInv, LayerTypeOK, SpanRecords
<1>3. Enters  BY <1>1 DEF Enters
<1>4. QED  BY <1>1, <1>2, <1>3, BeginKeeps

LEMMA eventKeeps ==
    ASSUME LayerInv, NEW t \in Threads, NEW site \in Sites, event(t, site) PROVE LayerInv'
<1>1. Begin(t, "event", None, site, "filter") /\ UNCHANGED <<spans, inside>>  BY DEF event
<1>2. Enters  BY <1>1 DEF Enters
<1>3. QED  BY <1>1, <1>2, BeginKeeps

LEMMA new_spanKeeps ==
    ASSUME LayerInv, NEW t \in Threads, NEW s \in Spans, NEW site \in Sites, new_span(t, s, site)
    PROVE  LayerInv'
<1> DEFINE b == [at |-> "filter", call |-> "new_span", span |-> s, site |-> site, since |-> begun]
           r == [site |-> site, since |-> begun, data |-> FALSE, start |-> 0,
                 entered |-> [by |-> None]]
<1>1. /\ now \in Nat /\ begun \in Nat /\ begun' = begun /\ UNCHANGED <<now, agentVars>>
      /\ callback \in [Threads -> Callbacks] /\ spans \in [Spans -> SpanRecords \cup {None}]
      /\ names_sent' = names_sent /\ ring' = ring /\ inside' = inside
  BY LayerConstants DEF LayerInv, LayerTypeOK, new_span, Begin, agentVars
<1>2. spans[s] = None /\ spans' = [spans EXCEPT ![s] = r]  BY DEF new_span
<1>3. r \in SpanRecords /\ r # None
  <2>1. [by |-> None] \in Entered  BY DEF Entered
  <2>2. r \in SpanRecords  BY <1>1, <2>1 DEF SpanRecords
  <2> HIDE DEF r
  <2>3. QED  BY <2>2, LayerConstants
<1>4. spans' \in [Spans -> SpanRecords \cup {None}] /\ spans'[s] = r
      /\ \A z \in Spans : z # s => spans'[z] = spans[z]
  BY <1>1, <1>2, <1>3
<1>5. b \in Callbacks  BY <1>1 DEF Callbacks, Early, Calls
<1>6. r.site = site /\ r.since = begun /\ r.entered.by = None /\ r.data = FALSE  OBVIOUS
<1>7. SpanOK(spans[s])'  BY <1>1, <1>4, <1>6 DEF SpanOK, Started
<1> HIDE DEF r
<1>8. /\ callback' \in [Threads -> Callbacks] /\ \A u \in Threads : u # t => callback'[u] = callback[u]
      /\ CallOK(t, callback[t])'
  <2>1. CASE is_active
    <3>1. callback' = [callback EXCEPT ![t] = b]  BY <2>1 DEF new_span, Begin
    <3>2. callback'[t] = b  BY <1>1, <3>1
    <3>3. CallOK(t, callback[t])'  BY <1>1, <1>3, <1>4, <1>6, <3>2 DEF CallOK, Looking
    <3>4. QED  BY <1>1, <1>5, <3>1, <3>3
  <2>2. CASE ~is_active
    <3>1. callback' = callback /\ callback[t].at = "idle"
      BY <2>2 DEF new_span, Begin, ReentrancyGuard
    <3>2. QED  BY <1>1, <3>1 DEF CallOK
  <2>3. QED  BY <2>1, <2>2
<1>9. ProgramStep(t)  BY <1>1, <1>2, <1>4, <1>8 DEF ProgramStep, Enters
<1>10. RingInv'  BY <1>1 DEF LayerInv, RingInv
<1>11. QED  BY <1>1, <1>4, <1>7, <1>8, <1>9, <1>10, ProgramStepKeeps DEF LayerInv, LayerTypeOK

\* A callback that returns, with no effect but on spans.
LEMMA ReturnIdle ==
    ASSUME LayerTypeOK, NEW t \in Threads, Return(t)
    PROVE  /\ callback' \in [Threads -> Callbacks] /\ CallOK(t, callback[t])'
           /\ \A u \in Threads : u # t => callback'[u] = callback[u]
<1>1. callback \in [Threads -> Callbacks] /\ Idle \in Callbacks  BY DEF LayerTypeOK, Callbacks
<1>2. callback'[t] = Idle  BY <1>1 DEF Return
<1>3. CallOK(t, callback[t])'  BY <1>2 DEF CallOK, Idle
<1>4. QED  BY <1>1, <1>3 DEF Return

LEMMA ReturnKeeps ==
    ASSUME LayerInv, NEW t \in Threads, Return(t), now' \in Nat, now <= now',
           UNCHANGED <<agentVars, spans, names_sent, ring, inside>>
    PROVE  LayerInv'
<1>1. Idle \in Callbacks  BY DEF Callbacks
<1>2. CallOK(t, callback[t])'  BY ReturnIdle DEF LayerInv
<1>3. Enters  BY DEF Enters
<1>4. QED  BY <1>1, <1>2, <1>3, CallbackStepKeeps DEF Return

\* The record of a span changes, its site and age do not.
LEMMA SpanChanges ==
    ASSUME LayerInv, NEW t \in Threads, NEW s \in Spans, spans[s] # None,
           NEW r \in SpanRecords, r.site = spans[s].site, r.since = spans[s].since,
           spans' = [spans EXCEPT ![s] = r], SpanOK(spans[s])', Return(t),
           now' \in Nat, now <= now', UNCHANGED <<agentVars, names_sent, ring, inside>>
    PROVE  LayerInv'
<1>1. spans \in [Spans -> SpanRecords \cup {None}] /\ r # None
  BY LayerConstants DEF LayerInv, LayerTypeOK
<1>2. /\ spans' \in [Spans -> SpanRecords \cup {None}] /\ spans'[s] = r
      /\ \A z \in Spans : z # s => spans'[z] = spans[z]
  BY <1>1
<1>3. /\ callback' \in [Threads -> Callbacks] /\ CallOK(t, callback[t])'
      /\ \A u \in Threads : u # t => callback'[u] = callback[u]
  BY ReturnIdle DEF LayerInv
<1>4. ProgramStep(t)  BY <1>1, <1>2, <1>3 DEF ProgramStep, Enters
<1>5. RingInv'  BY DEF LayerInv, RingInv
<1>6. QED  BY <1>2, <1>3, <1>4, <1>5, ProgramStepKeeps DEF LayerInv, LayerTypeOK

LEMMA FilterKeeps == ASSUME LayerInv, NEW t \in Threads, Filter(t) PROVE LayerInv'
<1> DEFINE c == callback[t]
<1>1. /\ c \in Early /\ c.at = "filter" /\ Looking(c)
      /\ callback \in [Threads -> Callbacks] /\ begun \in Nat
  <2>1. c \in Callbacks /\ c.at = "filter" /\ CallOK(t, c)
    BY DEF Filter, LayerInv, LayerTypeOK, CallInv
  <2>2. QED  BY <2>1, Kinds DEF CallOK, LayerInv, LayerTypeOK
<1>2. UNCHANGED <<agentVars, names_sent, ring, inside>> /\ now' \in Nat /\ now <= now'
  BY DEF Filter, Rest, LayerInv, LayerTypeOK
<1>3. ASSUME is_enabled(c.site) PROVE Admitted(c.site, c.since)
  BY <1>3 DEF is_enabled, Admitted, LayerInv, SessionInv
<1>4. CASE is_enabled(c.site) /\ c.call = "event"
  <2> DEFINE d == [c EXCEPT !.at = "clock"]
  <2>1. callback' = [callback EXCEPT ![t].at = "clock"] /\ UNCHANGED spans  BY <1>4 DEF Filter, At
  <2>2. callback' = [callback EXCEPT ![t] = d]  BY <2>1
  <2>3. /\ d \in Early /\ d.at = "clock" /\ d.call = "event" /\ d.site = c.site /\ d.since = c.since
    BY <1>1, <1>4 DEF Early
  <2>4. d \in Callbacks /\ callback'[t] = d  BY <1>1, <2>2, <2>3 DEF Callbacks
  <2> HIDE DEF d
  <2>5. begun' = begun /\ state' = state  BY <1>2 DEF agentVars
  <2>6. CallOK(t, callback[t])'
    BY <1>1, <1>3, <1>4, <2>3, <2>4, <2>5 DEF CallOK, Looking, Admitted
  <2>7. Enters  BY <1>2 DEF Enters
  <2>8. QED  BY <1>2, <2>1, <2>2, <2>4, <2>6, <2>7, CallbackStepKeeps
<1>5. CASE is_enabled(c.site) /\ c.call = "new_span"
  <2>0. PICK s \in Spans : s = c.span  BY <1>1, <1>5 DEF Looking
  <2>1. Return(t) /\ spans' = [spans EXCEPT ![s].data = TRUE]  BY <1>5, <2>0 DEF Filter
  <2>2. spans[s] # None /\ spans[s].since = c.since /\ spans[s].site = c.site
    BY <1>1, <1>5, <2>0 DEF Looking
  <2>3. spans \in [Spans -> SpanRecords \cup {None}] /\ spans[s] \in SpanRecords /\ SpanOK(spans[s])
    BY <2>2 DEF LayerInv, LayerTypeOK, SpanInv
  <2>4. PICK r \in SpanRecords :
            /\ r = [spans[s] EXCEPT !.data = TRUE]
            /\ r.site = spans[s].site /\ r.since = spans[s].since
            /\ r.start = spans[s].start /\ r.entered = spans[s].entered
    BY <2>3 DEF SpanRecords
  <2>5. spans' = [spans EXCEPT ![s] = r] /\ spans'[s] = r  BY <2>1, <2>2, <2>3, <2>4
  <2>6. begun' = begun /\ state' = state  BY <1>2 DEF agentVars
  <2>7. now' = now  BY DEF Filter
  <2>8. SpanOK(spans[s])'
    BY <1>3, <1>5, <2>2, <2>3, <2>4, <2>5, <2>6, <2>7 DEF SpanOK, Admitted, Started
  <2>9. QED  BY <1>2, <2>1, <2>2, <2>4, <2>5, <2>8, SpanChanges
<1>6. CASE ~(is_enabled(c.site) /\ c.call \in {"event", "new_span"})
  <2>1. Return(t) /\ UNCHANGED spans  BY <1>6 DEF Filter
  <2>2. QED  BY <1>2, <2>1, ReturnKeeps
<1>7. QED  BY <1>4, <1>5, <1>6

\* A callback that reads the clock.
LEMMA Clocking ==
    ASSUME LayerInv, NEW t \in Threads, callback[t].at = "clock"
    PROVE  /\ callback[t] \in Early /\ Looking(callback[t])
           /\ callback \in [Threads -> Callbacks] /\ begun \in Nat /\ now \in Nat
           /\ get_timestamp(clock_id) \in Nat
           /\ state # 0 => get_timestamp(clock_id) = now + Offset[Sessions[begun].clock]
<1>1. callback[t] \in Callbacks /\ CallOK(t, callback[t])  BY DEF LayerInv, LayerTypeOK, CallInv
<1>2. callback[t] \in Early /\ Looking(callback[t])  BY <1>1, Kinds DEF CallOK
<1>3. callback \in [Threads -> Callbacks] /\ begun \in Nat /\ now \in Nat
  BY DEF LayerInv, LayerTypeOK
<1>4. clock_id \in DOMAIN Offset  BY SessionIds, LayerConstants DEF LayerInv, clock_id, Ids
<1>5. Offset[clock_id] \in Nat  BY <1>4, LayerConstants
<1>6. get_timestamp(clock_id) \in Nat  BY <1>3, <1>5 DEF get_timestamp
<1>7. state # 0 => get_timestamp(clock_id) = now + Offset[Sessions[begun].clock]
  BY DEF LayerInv, SessionInv, get_timestamp, clock_id
<1>8. QED  BY <1>2, <1>3, <1>6, <1>7

LEMMA on_enterKeeps == ASSUME LayerInv, NEW t \in Threads, on_enter(t) PROVE LayerInv'
<1> DEFINE c == callback[t]
<1>1. /\ c \in Early /\ Looking(c) /\ now \in Nat /\ get_timestamp(clock_id) \in Nat
      /\ begun \in Nat
      /\ state # 0 => get_timestamp(clock_id) = now + Offset[Sessions[begun].clock]
  BY Clocking DEF on_enter
<1>2. UNCHANGED <<agentVars, names_sent, ring, inside>> /\ now' = now + 1 /\ Return(t)
  BY DEF on_enter, Rest
<1>3. PICK s \in Spans : c.call = "enter" /\ s = c.span /\ spans[s] # None
  BY <1>1 DEF on_enter, Looking
<1>4. spans \in [Spans -> SpanRecords \cup {None}] /\ spans[s] \in SpanRecords /\ SpanOK(spans[s])
  BY <1>3 DEF LayerInv, LayerTypeOK, SpanInv
<1>5. CASE spans[s].data
  <2>1. c.since \in Nat /\ c.since <= begun  BY <1>1 DEF Early, Looking
  <2>2. spans' = [spans EXCEPT ![s].start = get_timestamp(clock_id),
                               ![s].entered = [by |-> t, time |-> now, since |-> c.since]]
    BY <1>3, <1>5 DEF on_enter
  <2>3. PICK e \in Entered : /\ e = [by |-> t, time |-> now, since |-> c.since]
                             /\ e.by = t /\ e.time = now /\ e.since = c.since
    <3> DEFINE x == [by |-> t, time |-> now, since |-> c.since]
    <3>1. x \in Entered /\ x.by = t /\ x.time = now /\ x.since = c.since
      BY <1>1, <2>1 DEF Entered
    <3>2. QED  BY <3>1
  <2>4. PICK r \in SpanRecords :
            /\ r = [spans[s] EXCEPT !.start = get_timestamp(clock_id), !.entered = e]
            /\ r.site = spans[s].site /\ r.since = spans[s].since
            /\ r.start = get_timestamp(clock_id) /\ r.entered = e /\ r.data = spans[s].data
    <3> DEFINE x == [spans[s] EXCEPT !.start = get_timestamp(clock_id), !.entered = e]
    <3>1. /\ x \in SpanRecords /\ x.site = spans[s].site /\ x.since = spans[s].since
          /\ x.start = get_timestamp(clock_id) /\ x.entered = e /\ x.data = spans[s].data
      BY <1>1, <1>4 DEF SpanRecords
    <3>2. QED  BY <3>1
  <2>5. spans' = [spans EXCEPT ![s] = r] /\ spans'[s] = r  BY <1>3, <1>4, <2>2, <2>3, <2>4
  <2>6. begun' = begun /\ state' = state  BY <1>2 DEF agentVars
  <2>7. Started(r.start, r.entered)'
    BY <1>1, <1>2, <2>1, <2>3, <2>4, <2>6 DEF Started
  <2>8. SpanOK(spans[s])'
    BY <1>4, <2>4, <2>5, <2>6, <2>7 DEF SpanOK, Admitted, Started
  <2>9. now' \in Nat /\ now <= now'  BY <1>1, <1>2
  <2>10. QED  BY <1>2, <1>3, <2>4, <2>5, <2>8, <2>9, SpanChanges
<1>6. CASE ~spans[s].data
  <2>1. UNCHANGED spans  BY <1>3, <1>6 DEF on_enter
  <2>2. now' \in Nat /\ now <= now'  BY <1>1, <1>2
  <2>3. QED  BY <1>2, <2>1, <2>2, ReturnKeeps
<1>7. QED  BY <1>5, <1>6

LEMMA on_eventKeeps == ASSUME LayerInv, NEW t \in Threads, on_event(t) PROVE LayerInv'
<1>1. /\ callback[t] \in Early /\ Looking(callback[t]) /\ now \in Nat
      /\ get_timestamp(clock_id) \in Nat /\ callback \in [Threads -> Callbacks]
      /\ callback[t].at = "clock" /\ callback[t].call = "event"
  BY Clocking DEF on_event
<1>2. PICK c \in Early : c = callback[t] /\ c.since <= begun /\ Admitted(c.site, c.since)
  BY <1>1 DEF Looking
<1>3. PICK e \in InstantEvents :
          /\ e = [at |-> "submit", call |-> "event", span |-> None, site |-> c.site,
                  since |-> c.since, end |-> get_timestamp(clock_id), pid |-> process_id]
          /\ e.at = "submit" /\ e.call = "event" /\ e.site = c.site /\ e.since = c.since
  <2> DEFINE x == [at |-> "submit", call |-> "event", span |-> None, site |-> c.site,
                   since |-> c.since, end |-> get_timestamp(clock_id), pid |-> process_id]
  <2>1. c.site \in Sites /\ c.since \in Nat /\ process_id \in Pids
    BY DEF Early, LayerInv, LayerTypeOK
  <2>2. /\ x \in InstantEvents /\ x.at = "submit" /\ x.call = "event" /\ x.site = c.site
        /\ x.since = c.since
    BY <1>1, <2>1 DEF InstantEvents
  <2>3. QED  BY <2>2
<1>4. callback' = [callback EXCEPT ![t] = e] /\ e \in Callbacks
  BY <1>2, <1>3 DEF on_event, Callbacks
<1>5. /\ UNCHANGED <<agentVars, spans, names_sent, ring, inside>> /\ now' \in Nat /\ now <= now'
  BY <1>1 DEF on_event, Rest
<1>6. callback'[t] = e /\ begun' = begun /\ state' = state  BY <1>1, <1>4, <1>5 DEF agentVars
<1>7. CallOK(t, callback[t])'  BY <1>2, <1>3, <1>6 DEF CallOK, Waiting, Admitted
<1>8. Enters  BY <1>5 DEF Enters
<1>9. QED  BY <1>4, <1>5, <1>7, <1>8, CallbackStepKeeps

LEMMA on_exitKeeps == ASSUME LayerInv, NEW t \in Threads, on_exit(t) PROVE LayerInv'
<1>1. /\ callback[t] \in Early /\ Looking(callback[t]) /\ now \in Nat
      /\ get_timestamp(clock_id) \in Nat /\ callback \in [Threads -> Callbacks]
      /\ state # 0 => get_timestamp(clock_id) = now + Offset[Sessions[begun].clock]
      /\ callback[t].at = "clock" /\ callback[t].call = "exit" /\ begun \in Nat
  BY Clocking DEF on_exit
<1>2. PICK s \in Spans : s = callback[t].span /\ spans[s] # None  BY <1>1 DEF Looking
<1>3. PICK r \in SpanRecords : r = spans[s] /\ SpanOK(r)
  BY <1>2 DEF LayerInv, LayerTypeOK, SpanInv
<1>4. /\ UNCHANGED <<agentVars, spans, names_sent, ring, inside>> /\ now' \in Nat /\ now <= now'
      /\ now' = now + 1
  BY <1>1 DEF on_exit, Rest
<1>5. CASE ~r.data
  <2>1. Return(t)  BY <1>2, <1>3, <1>5 DEF on_exit
  <2>2. QED  BY <1>4, <2>1, ReturnKeeps
<1>6. CASE r.data
  <2> DEFINE x == [at |-> "submit", call |-> "exit", span |-> s, site |-> r.site,
                   since |-> r.since, entered |-> r.entered, start |-> r.start,
                   end |-> get_timestamp(clock_id), pid |-> process_id]
  <2>1. /\ r.site \in Sites /\ r.since \in Nat /\ r.entered \in Entered /\ r.start \in Nat
        /\ process_id \in Pids
    BY DEF SpanRecords, LayerInv, LayerTypeOK
  <2>2. /\ x \in ExitEvents /\ x.at = "submit" /\ x.call = "exit" /\ x.site = r.site
        /\ x.since = r.since /\ x.entered = r.entered /\ x.start = r.start
        /\ x.end = get_timestamp(clock_id) /\ x.pid = process_id
    BY <1>1, <2>1 DEF ExitEvents
  <2>3. callback' = [callback EXCEPT ![t] = x]  BY <1>2, <1>3, <1>6 DEF on_exit
  <2> HIDE DEF x
  <2>4. PICK e \in ExitEvents :
            /\ e = x /\ e.at = "submit" /\ e.call = "exit" /\ e.site = r.site
            /\ e.since = r.since /\ e.entered = r.entered /\ e.start = r.start
            /\ e.end = get_timestamp(clock_id) /\ e.pid = process_id
    BY <2>2
  <2>5. e \in Callbacks /\ callback'[t] = e /\ begun' = begun /\ state' = state
    BY <1>1, <1>4, <2>3, <2>4 DEF Callbacks, agentVars
  <2>6. Started(r.start, r.entered) /\ r.since <= begun /\ Admitted(r.site, r.since)
    BY <1>3, <1>6 DEF SpanOK
  <2>7. r.entered.by # None => r.entered.time \in Nat /\ r.entered.since \in Nat
    BY <2>1 DEF Entered
  <2>8. state # 0 => Timed(begun, e)
    <3> SUFFICES ASSUME state # 0, e.entered.by # None, e.entered.since >= begun
                 PROVE  /\ e.start = e.entered.time + Offset[Sessions[begun].clock]
                        /\ e.start < e.end /\ e.pid = Sessions[begun].pid
      BY DEF Timed
    <3>1. r.entered.since = begun /\ r.entered.time < now
          /\ r.start = r.entered.time + Offset[Sessions[begun].clock]
      BY <1>1, <2>4, <2>6, <2>7 DEF Started
    <3>2. Offset[Sessions[begun].clock] \in Nat
      BY SessionIds, LayerConstants DEF LayerInv, SessionInv, Ids
    <3>3. e.start < e.end  BY <1>1, <2>4, <2>7, <3>1, <3>2
    <3>4. e.pid = Sessions[begun].pid  BY <2>4 DEF LayerInv, SessionInv
    <3>5. QED  BY <2>4, <3>1, <3>3, <3>4
  <2>9. (e.since <= begun)' /\ Admitted(e.site, e.since)'  BY <2>4, <2>5, <2>6 DEF Admitted
  <2>10. Started(e.start, e.entered)'
    BY <1>1, <1>4, <2>4, <2>5, <2>6, <2>7 DEF Started
  <2>11. (state # 0 => Timed(begun, e))'  BY <2>5, <2>8 DEF Timed
  <2>12. Waiting(callback[t])'  BY <2>5, <2>9, <2>10, <2>11 DEF Waiting, Admitted, Started, Timed
  <2>13. CallOK(t, callback[t])'  BY <2>4, <2>5, <2>12 DEF CallOK
  <2>14. Enters  BY <1>4 DEF Enters
  <2>15. callback' = [callback EXCEPT ![t] = e]  BY <2>3, <2>4
  <2>16. QED  BY <1>4, <2>5, <2>13, <2>14, <2>15, CallbackStepKeeps
<1>7. QED  BY <1>5, <1>6

\* An event takes the session there is.
LEMMA submitKeeps == ASSUME LayerInv, NEW t \in Threads, submit(t) PROVE LayerInv'
<1>1. /\ UNCHANGED <<agentVars, spans, ring, inside>> /\ now' \in Nat /\ now <= now'
      /\ callback \in [Threads -> Callbacks] /\ names_sent \in [Ids -> SUBSET Threads]
  BY DEF submit, Rest, LayerInv, LayerTypeOK
<1>2. PICK c \in ExitEvents \cup InstantEvents : c = callback[t] /\ Waiting(c)
  <2>1. callback[t] \in Callbacks /\ callback[t].at = "submit" /\ CallOK(t, callback[t])
    BY DEF submit, LayerInv, LayerTypeOK, CallInv
  <2>2. QED  BY <2>1, Kinds DEF CallOK
<1>3. CASE state = 0
  <2>1. Return(t) /\ UNCHANGED names_sent  BY <1>3 DEF submit
  <2>2. QED  BY <1>1, <2>1, ReturnKeeps
<1>4. CASE state # 0
  <2>1. PICK n \in Ids : n = state /\ n = begun  BY <1>4, SessionIds DEF LayerInv, SessionInv
  <2> DEFINE named == t \in names_sent[n] \/ t \notin Named
             x == [call |-> c.call, span |-> c.span, at |-> IF named THEN "record" ELSE "name",
                   session |-> n, event |-> c]
  <2>2. /\ callback' = [callback EXCEPT ![t] = x]
        /\ names_sent' = [names_sent EXCEPT ![n] = IF named THEN @ \cup {t} ELSE @]
    BY <1>2, <1>4, <2>1 DEF submit
  <2>3. c.call \in {"exit", "event"} /\ c.span \in Spans \cup {None}
    BY DEF ExitEvents, InstantEvents
  <2>4. x \in Late /\ x.session = n /\ x.event = c /\ x.at = IF named THEN "record" ELSE "name"
    BY <2>3 DEF Late
  <2> HIDE DEF x
  <2>5. /\ callback' \in [Threads -> Callbacks] /\ callback'[t] = x
        /\ \A u \in Threads : u # t => callback'[u] = callback[u]
    BY <1>1, <2>2, <2>4 DEF Callbacks
  <2>6. /\ names_sent' \in [Ids -> SUBSET Threads]
        /\ \A m \in Ids : m # n => names_sent'[m] = names_sent[m]
        /\ names_sent'[n] = IF named THEN names_sent[n] \cup {t} ELSE names_sent[n]
    BY <1>1, <2>2
  <2>7. ProgramStep(t)  BY <1>1, <2>5, <2>6 DEF ProgramStep, Enters
  <2>8. Fits(n, c)
    <3>1. c.since < n \/ c.site \in Sessions[n].filter
      BY <1>2, <1>4, <2>1 DEF Waiting, Admitted
    <3>2. Timed(n, c)  BY <1>2, <1>4, <2>1, <2>3 DEF Waiting, Timed
    <3>3. QED  BY <3>1, <3>2 DEF Fits
  <2>9. /\ x.at = "name" => t \notin names_sent'[n]
        /\ x.at = "record" => t \in names_sent'[n]
    BY <2>4, <2>6
  <2>10. CallOK(t, callback[t])'
    <3>1. Sending(t, callback[t])'  BY <2>4, <2>5, <2>8, <2>9 DEF Sending
    <3>2. x.at \notin {"filter", "clock", "submit"}  BY <2>4
    <3>3. QED  BY <2>5, <3>1, <3>2 DEF CallOK
  <2>11. RingInv'
    <3> SUFFICES ASSUME NEW m \in Ids PROVE RingOK(m, ring[m], names_sent'[m])
      BY <1>1 DEF RingInv
    <3>1. RingOK(m, ring[m], names_sent[m])  BY DEF LayerInv, RingInv
    <3>2. CASE names_sent'[m] = names_sent[m]  BY <3>1, <3>2
    <3>3. CASE names_sent'[m] = names_sent[m] \cup {t} /\ t \notin Named
      BY <3>1, <3>3 DEF RingOK
    <3>4. CASE names_sent'[m] = names_sent[m] \cup {t} /\ t \in names_sent[m]
      <4>1. names_sent'[m] = names_sent[m]  BY <3>4
      <4>2. QED  BY <3>1, <4>1
    <3>5. QED  BY <3>2, <3>3, <3>4, <2>6
  <2>12. QED
    BY <1>1, <2>5, <2>6, <2>7, <2>10, <2>11, ProgramStepKeeps DEF LayerInv, LayerTypeOK
<1>5. QED  BY <1>3, <1>4

\* A callback that submits.
LEMMA Submitting ==
    ASSUME LayerInv, NEW t \in Threads, callback[t].at \in {"name", "record"}
    PROVE  /\ callback[t] \in Late /\ Sending(t, callback[t])
           /\ callback \in [Threads -> Callbacks] /\ ring \in [Ids -> Seq(Records)]
           /\ names_sent \in [Ids -> SUBSET Threads]
           /\ now \in Nat /\ process_id \in Pids
<1>1. callback[t] \in Callbacks /\ CallOK(t, callback[t])  BY DEF LayerInv, LayerTypeOK, CallInv
<1>2. callback[t] \in Late /\ Sending(t, callback[t])  BY <1>1, Kinds DEF CallOK
<1>3. QED  BY <1>2 DEF LayerInv, LayerTypeOK

LEMMA submit_nameKeeps == ASSUME LayerInv, NEW t \in Threads, submit_name(t) PROVE LayerInv'
<1>1. /\ callback[t] \in Late /\ Sending(t, callback[t]) /\ callback[t].at = "name"
      /\ callback \in [Threads -> Callbacks] /\ ring \in [Ids -> Seq(Records)]
      /\ names_sent \in [Ids -> SUBSET Threads] /\ process_id \in Pids
  BY Submitting DEF submit_name
<1>2. UNCHANGED <<agentVars, spans, inside>> /\ now' \in Nat /\ now <= now'
  BY Submitting DEF submit_name, Rest
<1>3. PICK n \in Ids : n = callback[t].session  BY <1>1 DEF Late
<1>4. PICK r \in Records : /\ r = [type |-> "track", thread |-> t, pid |-> process_id]
                           /\ r.type = "track" /\ r.thread = t
  <2> DEFINE x == [type |-> "track", thread |-> t, pid |-> process_id]
  <2>1. x \in Records /\ x.type = "track" /\ x.thread = t  BY <1>1 DEF Records
  <2>2. QED  BY <2>1
<1>5. CASE /\ ring' = [ring EXCEPT ![n] = Append(@, r)] /\ At(t, "record")
           /\ names_sent' = [names_sent EXCEPT ![n] = @ \cup {t}]
  <2>1. PICK c \in Late : /\ c = [callback[t] EXCEPT !.at = "record"] /\ c.at = "record"
                          /\ c.session = n /\ c.event = callback[t].event
    <3> DEFINE x == [callback[t] EXCEPT !.at = "record"]
    <3>1. x \in Late /\ x.at = "record" /\ x.session = n /\ x.event = callback[t].event
      BY <1>1, <1>3 DEF Late
    <3>2. QED  BY <3>1
  <2>2. callback' = [callback EXCEPT ![t] = c]  BY <1>1, <1>5, <2>1 DEF At
  <2>3. /\ callback' \in [Threads -> Callbacks] /\ callback'[t] = c
        /\ \A u \in Threads : u # t => callback'[u] = callback[u]
    BY <1>1, <2>2 DEF Callbacks
  <2>4. /\ names_sent' \in [Ids -> SUBSET Threads]
        /\ \A m \in Ids : m # n => names_sent'[m] = names_sent[m]
        /\ names_sent'[n] = names_sent[n] \cup {t}
    BY <1>1, <1>5
  <2>5. Append(ring[n], r) \in Seq(Records)  BY <1>1
  <2>6. /\ ring' \in [Ids -> Seq(Records)] /\ ring'[n] = Append(ring[n], r)
        /\ \A m \in Ids : m # n => ring'[m] = ring[m]
    BY <1>1, <1>5, <2>5
  <2>7. ProgramStep(t)  BY <1>2, <2>3, <2>4 DEF ProgramStep, Enters
  <2>8. Sending(t, callback[t])'  BY <1>1, <1>3, <2>1, <2>3, <2>4 DEF Sending
  <2>9. CallOK(t, callback[t])'  BY <2>1, <2>3, <2>8 DEF CallOK
  <2>10. RingInv'
    <3> SUFFICES ASSUME NEW m \in Ids PROVE RingOK(m, ring'[m], names_sent'[m])
      BY DEF RingInv
    <3>1. RingOK(m, ring[m], names_sent[m])  BY DEF LayerInv, RingInv
    <3>2. CASE m # n  BY <3>1, <3>2, <2>4, <2>6
    <3>3. CASE m = n
      <4>1. t \notin names_sent[n] /\ ring[n] \in Seq(Records)  BY <1>1, <1>3 DEF Sending
      <4>2. RingOK(n, Append(ring[n], r), names_sent[n] \cup {r.thread})
        BY <3>1, <3>3, <4>1, <1>4, AppendTrack
      <4>3. QED  BY <3>3, <4>2, <1>4, <2>4, <2>6
    <3>4. QED  BY <3>2, <3>3
  <2>11. QED
    BY <1>2, <2>3, <2>4, <2>6, <2>7, <2>9, <2>10, ProgramStepKeeps DEF LayerInv, LayerTypeOK
<1>6. CASE Return(t) /\ UNCHANGED <<names_sent, ring>>
  BY <1>2, <1>6, ReturnKeeps
<1>7. QED  BY <1>3, <1>4, <1>5, <1>6 DEF submit_name, Submit

LEMMA submit_eventKeeps == ASSUME LayerInv, NEW t \in Threads, submit_event(t) PROVE LayerInv'
<1>1. /\ callback[t] \in Late /\ Sending(t, callback[t]) /\ callback[t].at = "record"
      /\ callback \in [Threads -> Callbacks] /\ ring \in [Ids -> Seq(Records)]
  BY Submitting DEF submit_event
<1>2. UNCHANGED <<agentVars, spans, inside, names_sent>> /\ now' \in Nat /\ now <= now'
  BY Submitting DEF submit_event, Rest
<1>3. PICK n \in Ids : n = callback[t].session  BY <1>1 DEF Late
<1>4. PICK e \in ExitEvents \cup InstantEvents : e = callback[t].event  BY <1>1 DEF Late
<1>5. PICK r \in Records : /\ r = [type |-> e.call, thread |-> t, event |-> e]
                           /\ r.type # "track" /\ r.thread = t /\ r.event = e
  <2> DEFINE x == [type |-> e.call, thread |-> t, event |-> e]
  <2>1. e.call \in {"exit", "event"}  BY DEF ExitEvents, InstantEvents
  <2>2. x \in Records /\ x.type # "track" /\ x.thread = t /\ x.event = e  BY <2>1 DEF Records
  <2>3. QED  BY <2>2
<1>6. Return(t)  BY DEF submit_event, Submit
<1>7. CASE ring' = [ring EXCEPT ![n] = Append(@, r)]
  <2>1. /\ callback' \in [Threads -> Callbacks] /\ CallOK(t, callback[t])'
        /\ \A u \in Threads : u # t => callback'[u] = callback[u]
    BY <1>6, ReturnIdle DEF LayerInv
  <2>2. ProgramStep(t)  BY <1>2, <2>1 DEF ProgramStep, Enters
  <2>3. Append(ring[n], r) \in Seq(Records)  BY <1>1
  <2>4. /\ ring' \in [Ids -> Seq(Records)] /\ ring'[n] = Append(ring[n], r)
        /\ \A m \in Ids : m # n => ring'[m] = ring[m]
    BY <1>1, <1>7, <2>3
  <2>5. RingInv'
    <3> SUFFICES ASSUME NEW m \in Ids PROVE RingOK(m, ring'[m], names_sent[m])
      BY <1>2 DEF RingInv
    <3>1. RingOK(m, ring[m], names_sent[m])  BY DEF LayerInv, RingInv
    <3>2. CASE m # n  BY <3>1, <3>2, <2>4
    <3>3. CASE m = n
      <4>1. t \in names_sent[n] /\ ring[n] \in Seq(Records) /\ Fits(n, e)
        BY <1>1, <1>3, <1>4 DEF Sending
      <4>2. RingOK(n, Append(ring[n], r), names_sent[n])
        BY <3>1, <3>3, <4>1, <1>5, AppendEvent
      <4>3. QED  BY <3>3, <4>2, <2>4
    <3>4. QED  BY <3>2, <3>3
  <2>6. QED
    BY <1>2, <2>1, <2>2, <2>4, <2>5, ProgramStepKeeps DEF LayerInv, LayerTypeOK
<1>8. CASE UNCHANGED ring  BY <1>2, <1>6, <1>8, ReturnKeeps
<1>9. QED  BY <1>3, <1>4, <1>5, <1>7, <1>8 DEF submit_event, Submit

\* Nobody looks at a span that is closed.
LEMMA closeKeeps == ASSUME LayerInv, NEW s \in Spans, close(s) PROVE LayerInv'
<1>1. /\ UNCHANGED <<now, agentVars, names_sent, ring, inside, callback>>
      /\ spans' = [spans EXCEPT ![s] = None]
      /\ \A t \in Threads : <<t, s>> \notin inside /\ callback[t].span # s
  BY DEF close
<1>2. /\ begun' = begun /\ state' = state /\ process_id' = process_id
      /\ UNCHANGED <<now, names_sent, ring, inside, callback>>
  BY <1>1 DEF agentVars
<1>3. /\ spans' \in [Spans -> SpanRecords \cup {None}] /\ spans'[s] = None
      /\ \A z \in Spans : z # s => spans'[z] = spans[z]
  BY <1>1 DEF LayerInv, LayerTypeOK
<1>4. LayerTypeOK'  BY <1>2, <1>3 DEF LayerInv, LayerTypeOK
<1>5. SessionInv'  BY <1>2 DEF LayerInv, SessionInv
<1>6. CallInv'
  <2> SUFFICES ASSUME NEW t \in Threads PROVE CallOK(t, callback[t])'  BY DEF CallInv
  <2>1. CallOK(t, callback[t]) /\ callback'[t] = callback[t] /\ callback[t].span # s
    BY <1>1, <1>2 DEF LayerInv, CallInv
  <2>2. callback[t].at \in {"filter", "clock"} => Looking(callback[t])'
    <3> SUFFICES ASSUME callback[t].at \in {"filter", "clock"} PROVE Looking(callback[t])'
      OBVIOUS
    <3>1. Looking(callback[t])  BY <2>1 DEF CallOK
    <3>2. /\ callback[t].call # "event" =>
                callback[t].span \in Spans /\ spans'[callback[t].span] = spans[callback[t].span]
          /\ callback[t].call = "new_span" => callback[t].call # "event"
      BY <1>3, <2>1, <3>1 DEF Looking
    <3>3. QED  BY <1>2, <2>1, <3>1, <3>2 DEF Looking, Admitted
  <2>3. callback[t].at = "submit" => Waiting(callback[t])'
    BY <1>2, <2>1 DEF CallOK, Waiting, Admitted, Started
  <2>4. callback[t].at \in {"name", "record"} => Sending(t, callback[t])'
    BY <1>2, <2>1 DEF CallOK, Sending
  <2>5. QED  BY <2>1, <2>2, <2>3, <2>4 DEF CallOK
<1>7. SpanInv'
  <2> SUFFICES ASSUME NEW z \in Spans, spans'[z] # None PROVE SpanOK(spans[z])'  BY DEF SpanInv
  <2>1. spans'[z] = spans[z] /\ SpanOK(spans[z])  BY <1>3 DEF LayerInv, SpanInv
  <2>2. QED  BY <1>2, <2>1 DEF SpanOK, Admitted, Started
<1>8. InsideInv'  BY <1>1, <1>2, <1>3 DEF LayerInv, InsideInv
<1>9. RingInv'  BY <1>2 DEF LayerInv, RingInv
<1>10. QED  BY <1>4, <1>5, <1>6, <1>7, <1>8, <1>9 DEF LayerInv

-----------------------------------------------------------------------------
(* The theorems.                                                            *)

LEMMA InitOK == ASSUME Init PROVE LayerInv
<1>1. LayerTypeOK
  <2>1. Idle \in Callbacks /\ <<>> \in Seq(Records) /\ OwnPid \in Pids  BY DEF Callbacks, Pids
  <2>2. QED  BY <2>1, LayerConstants DEF Init, LayerTypeOK
<1>2. CallInv
  <2>1. \A t \in Threads : callback[t] = Idle  BY DEF Init
  <2>2. QED  BY <2>1, IdleOK DEF CallInv
<1>3. SessionInv /\ SpanInv /\ InsideInv  BY DEF Init, SessionInv, SpanInv, InsideInv
<1>4. RingInv  BY DEF Init, RingInv, RingOK
<1>5. QED  BY <1>1, <1>2, <1>3, <1>4 DEF LayerInv

LEMMA StutterKeeps == ASSUME LayerInv, UNCHANGED vars PROVE LayerInv'
<1>1. UNCHANGED <<now, begun, state, process_id, names_sent, ring, spans, inside, callback>>
  BY DEF vars, agentVars, appVars
<1>2. LayerTypeOK' /\ SessionInv' /\ InsideInv' /\ RingInv'
  BY <1>1 DEF LayerInv, LayerTypeOK, SessionInv, InsideInv, RingInv
<1>3. SpanInv'  BY <1>1 DEF LayerInv, SpanInv, SpanOK, Admitted, Started
<1>4. CallInv'
  BY <1>1 DEF LayerInv, CallInv, CallOK, Looking, Waiting, Sending, Admitted, Started
<1>5. QED  BY <1>2, <1>3, <1>4 DEF LayerInv

LEMMA NextKeeps == ASSUME LayerInv, Next PROVE LayerInv'
  BY set_process_idKeeps, startKeeps, stopKeeps, enterKeeps, exitKeeps, new_spanKeeps, eventKeeps,
     FilterKeeps, on_enterKeeps, on_exitKeeps, on_eventKeeps, submitKeeps, submit_nameKeeps,
     submit_eventKeeps, closeKeeps
  DEF Next

LEMMA LayerInvariant == Spec => []LayerInv
  BY InitOK, NextKeeps, StutterKeeps, PTL DEF Spec

\* Whatever the sessions and however they come and go under the callbacks, a
\* session's ring holds what its filter admits, and besides that only what was
\* under way when the session began.
THEOREM FiltersAreHonoured == Spec => []FilterHonoured
<1>1. LayerInv => FilterHonoured
  BY DEF LayerInv, LayerTypeOK, RingInv, RingOK, Fits, FilterHonoured, Events
<1>2. QED  BY <1>1, LayerInvariant, PTL

\* The spans that on_exit submits for the enter of its own thread in the session
\* have the times of that enter and of the exit on the session's clock, with any
\* number of threads that share the span.
THEOREM SpanTimesAreTrue == Spec => []SpanTimesTrue
<1>1. ASSUME LayerInv, NEW n \in Ids, NEW i \in DOMAIN ring[n], ring[n][i].type # "track",
             ring[n][i].event.call = "exit", ring[n][i].event.entered.by = ring[n][i].thread,
             ring[n][i].event.entered.since >= n
      PROVE  /\ ring[n][i].event.start = ring[n][i].event.entered.time + Offset[Sessions[n].clock]
             /\ ring[n][i].event.start < ring[n][i].event.end
             /\ ring[n][i].event.pid = Sessions[n].pid
  <2>1. ring[n] \in Seq(Records) /\ RingOK(n, ring[n], names_sent[n])
    BY <1>1 DEF LayerInv, LayerTypeOK, RingInv
  <2>2. ring[n][i] \in Records /\ i \in 1 .. Len(ring[n])  BY <1>1, <2>1
  <2>3. ring[n][i].thread # None  BY <2>2, LayerConstants DEF Records
  <2>4. Timed(n, ring[n][i].event)  BY <1>1, <2>1, <2>2 DEF RingOK, Fits
  <2>5. QED  BY <1>1, <2>3, <2>4 DEF Timed
<1>2. LayerInv => SpanTimesTrue  BY <1>1 DEF SpanTimesTrue, Events
<1>3. QED  BY <1>2, LayerInvariant, PTL

\* AgentHandle::submit names each thread that has a name before its first event
\* and only once in a session, whenever the ring is full or the session ends.
THEOREM ThreadsAreNamedFirst == Spec => []NamedFirst
<1>1. ASSUME LayerInv, NEW n \in Ids, NEW i \in DOMAIN ring[n]
      PROVE  /\ ring[n][i].type = "track" => \A j \in 1 .. (i - 1) : ring[n][j].thread # ring[n][i].thread
             /\ ring[n][i].type # "track" /\ ring[n][i].thread \in Named =>
                    \E j \in 1 .. (i - 1) : IsTrack(n, j, ring[n][i].thread)
  <2>1. ring[n] \in Seq(Records) /\ RingOK(n, ring[n], names_sent[n])
    BY <1>1 DEF LayerInv, LayerTypeOK, RingInv
  <2>2. i \in 1 .. Len(ring[n])  BY <1>1, <2>1
  <2>3. QED  BY <2>1, <2>2 DEF RingOK, Track, IsTrack
<1>2. LayerInv => NamedFirst  BY <1>1 DEF NamedFirst, IsTrack
<1>3. QED  BY <1>2, LayerInvariant, PTL
=============================================================================
