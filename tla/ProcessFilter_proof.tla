------------------------ MODULE ProcessFilter_proof ------------------------
(***************************************************************************)
(* What the filter maps hold, for any processes, programs, names, modules, *)
(* configurations and any sizes of the ring buffer and of the maps: no     *)
(* module is on that can record nothing, who is traced had a name of the   *)
(* filter or was reported under a stale one, modules with the same names   *)
(* trace the same processes as far as their maps hold them, and threads    *)
(* are announced for traced processes only.                                *)
(***************************************************************************)
EXTENDS ProcessFilter, FiniteSetTheorems, TLAPS

-----------------------------------------------------------------------------
(* The inductive invariant.                                                 *)

Names == DOMAIN BaseOf

Procs == [program : Programs, comm : Names, how : {"before", "exec", "thread"}]

Records == [tid : Tids \cup Tgids, tgid : Tgids, comm : Names, filename : Names, own : BOOLEAN]

FilterTypeOK ==
    /\ cfg \in Configs
    /\ proc \in [Tgids -> Procs \cup {None}]
    /\ ring \in Seq(Records) /\ written \in Seq(Names)
    /\ \A m \in Modules : IsFiniteSet(tracked[m])

\* The names the tracker may come to read were names of the process: the comm it
\* has, and the file names that an exec has put into the ring buffer.
NamesInv ==
    /\ \A p \in Tgids : proc[p] # None => <<p, proc[p].comm>> \in been
    /\ \A i \in 1 .. Len(ring) : ring[i].own => <<ring[i].tgid, ring[i].filename>> \in been

\* Nothing is watched before the programs are attached.
PhaseInv == phase = "new" => pc = "idle" /\ watched = {}

FInv == /\ FilterTypeOK /\ NamesInv /\ PhaseInv
        /\ NoSilentModule /\ TracedWasMatching /\ SameFilterSameTrace /\ DiscoveredSound

-----------------------------------------------------------------------------
(* Steps that leave the filter maps alone.                                  *)

LEMMA OutputKeeps ==
    ASSUME FInv, UNCHANGED <<cfg, output>>, been \subseteq been',
           phase' # phase => phase' = "panicked"
    PROVE  NoSilentModule' /\ TracedWasMatching' /\ SameFilterSameTrace' /\ DiscoveredSound'
<1>1. UNCHANGED <<cfg, tracked, watched, reported, discovered, misread>>  BY DEF output
<1>2. NoSilentModule'  BY <1>1 DEF FInv, NoSilentModule, On, filter_enabled, filter_process
<1>3. TracedWasMatching'  BY <1>1 DEF FInv, TracedWasMatching, Matches, filter_process
<1>4. SameFilterSameTrace'  BY <1>1 DEF FInv, SameFilterSameTrace, On, filter_process
<1>5. DiscoveredSound'  BY <1>1 DEF FInv, DiscoveredSound, Matches, filter_process
<1>6. QED  BY <1>2, <1>3, <1>4, <1>5

\* What the programs of the tracker put into the ring buffer.
LEMMA SubmitKeeps ==
    ASSUME FInv, NEW e \in Records, Submit(e), been \subseteq been',
           e.own => <<e.tgid, e.filename>> \in been'
    PROVE  /\ ring' \in Seq(Records) /\ written' \in Seq(Names)
           /\ \A i \in 1 .. Len(ring') : ring'[i].own => <<ring'[i].tgid, ring'[i].filename>> \in been'
<1>1. ring \in Seq(Records) /\ written \in Seq(Names) /\ e.filename \in Names
  BY DEF FInv, FilterTypeOK, Records
<1>2. \A i \in 1 .. Len(ring) : ring[i].own => <<ring[i].tgid, ring[i].filename>> \in been'
  BY DEF FInv, NamesInv
<1>3. CASE UNCHANGED <<ring, written>>  BY <1>1, <1>2, <1>3
<1>4. CASE ring' = Append(ring, e) /\ written' = Append(written, e.filename)
  <2>1. ring' \in Seq(Records) /\ written' \in Seq(Names)  BY <1>1, <1>4
  <2>2. /\ Len(ring') = Len(ring) + 1 /\ Len(ring) \in Nat /\ ring'[Len(ring) + 1] = e
        /\ \A i \in 1 .. Len(ring) : ring'[i] = ring[i]
    BY <1>1, <1>4
  <2>3. \A i \in 1 .. Len(ring') : i \in 1 .. Len(ring) \/ i = Len(ring) + 1  BY <2>2
  <2>4. QED  BY <1>2, <2>1, <2>2, <2>3
<1>5. QED  BY <1>3, <1>4 DEF Submit

\* What a program that leaves the file name alone may find there is a name.
LEMMA LeftoverNames == ASSUME FInv PROVE Leftover \subseteq Names
<1>1. written \in Seq(Names)  BY DEF FInv, FilterTypeOK
<1>2. RingSlots \in Nat \ {0}  BY FilterConstants
<1>3. \A n \in Names : BaseOf[n] \in Names  BY FilterConstants DEF Names
<1>4. "" \in Names /\ Junk \in Names  BY FilterConstants DEF Names
<1>5. \A i \in 1 .. (Len(written) + 1 - RingSlots) : written[i] \in Names  BY <1>1, <1>2
<1>6. \A i \in 1 .. (Len(written) + 1 - RingSlots) : BaseOf[written[i]] \in Names
  BY <1>3, <1>5
<1>7. QED  BY <1>4, <1>6 DEF Leftover

LEMMA SubmitCommKeeps ==
    ASSUME FInv, NEW tid \in Tids \cup Tgids, NEW tgid \in Tgids, NEW comm \in Names,
           SubmitComm(tid, tgid, comm), been \subseteq been'
    PROVE  /\ ring' \in Seq(Records) /\ written' \in Seq(Names)
           /\ \A i \in 1 .. Len(ring') : ring'[i].own => <<ring'[i].tgid, ring'[i].filename>> \in been'
<1>1. PICK f \in Leftover :
          Submit([tid |-> tid, tgid |-> tgid, comm |-> comm, filename |-> f, own |-> FALSE])
  BY DEF SubmitComm
<1> DEFINE e == [tid |-> tid, tgid |-> tgid, comm |-> comm, filename |-> f, own |-> FALSE]
<1>2. e \in Records /\ ~e.own  BY LeftoverNames DEF Records
<1>3. Submit(e)  BY <1>1
<1> HIDE DEF e
<1>4. QED  BY <1>2, <1>3, SubmitKeeps

\* The invariant from what a step of the host does.
LEMMA HostKeeps ==
    ASSUME FInv, UNCHANGED <<cfg, phase, tracker, output>>, been \subseteq been',
           proc' \in [Tgids -> Procs \cup {None}],
           \A p \in Tgids : proc'[p] # None => <<p, proc'[p].comm>> \in been',
           ring' \in Seq(Records), written' \in Seq(Names),
           \A i \in 1 .. Len(ring') : ring'[i].own => <<ring'[i].tgid, ring'[i].filename>> \in been'
    PROVE  FInv'
<1>1. UNCHANGED <<cfg, tracked, watched, pc, phase>>  BY DEF output, tracker
<1>2. FilterTypeOK'  BY <1>1 DEF FInv, FilterTypeOK
<1>3. NamesInv'  BY DEF NamesInv
<1>4. PhaseInv'  BY <1>1 DEF FInv, PhaseInv
<1>5. NoSilentModule' /\ TracedWasMatching' /\ SameFilterSameTrace' /\ DiscoveredSound'
  BY OutputKeeps
<1>6. QED  BY <1>2, <1>3, <1>4, <1>5 DEF FInv

-----------------------------------------------------------------------------
(* The processes of the host.                                               *)

LEMMA ForkKeeps ==
    ASSUME FInv, NEW p \in Tgids, NEW q \in Tgids, Fork(p, q) PROVE FInv'
<1>1. /\ proc[p] \in Procs /\ proc \in [Tgids -> Procs \cup {None}] /\ proc[p] # None
      /\ \A r \in Tgids : proc[r] # None => <<r, proc[r].comm>> \in been
  BY DEF FInv, FilterTypeOK, NamesInv, Fork
<1> DEFINE n == NewProc(proc[p].program, proc[p].comm, IF Attached THEN "thread" ELSE "before")
<1>2. n \in Procs /\ n.comm = proc[p].comm  BY <1>1 DEF Procs, NewProc
<1>3. proc' = [proc EXCEPT ![q] = n] /\ been' = been \cup {<<q, proc[p].comm>>}  BY DEF Fork
<1> HIDE DEF n
<1>4. proc' \in [Tgids -> Procs \cup {None}] /\ proc'[q] = n
      /\ \A r \in Tgids : r # q => proc'[r] = proc[r]
  BY <1>1, <1>2, <1>3
<1>5. \A r \in Tgids : proc'[r] # None => <<r, proc'[r].comm>> \in been'
  BY <1>1, <1>2, <1>3, <1>4
<1>6. proc[p].comm \in Names  BY <1>1 DEF Procs
<1>7. /\ ring' \in Seq(Records) /\ written' \in Seq(Names)
      /\ \A i \in 1 .. Len(ring') : ring'[i].own => <<ring'[i].tgid, ring'[i].filename>> \in been'
  BY <1>3, <1>6, SubmitCommKeeps DEF Fork
<1>8. QED  BY <1>3, <1>4, <1>5, <1>7, HostKeeps DEF Fork

LEMMA CloneKeeps ==
    ASSUME FInv, NEW p \in Tgids, NEW t \in Tids, Clone(p, t) PROVE FInv'
<1>1. /\ proc[p] \in Procs /\ UNCHANGED <<proc, been>>
      /\ proc' \in [Tgids -> Procs \cup {None}]
      /\ \A r \in Tgids : proc'[r] # None => <<r, proc'[r].comm>> \in been'
  BY DEF FInv, FilterTypeOK, NamesInv, Clone
<1>2. proc[p].comm \in Names  BY <1>1 DEF Procs
<1>3. /\ ring' \in Seq(Records) /\ written' \in Seq(Names)
      /\ \A i \in 1 .. Len(ring') : ring'[i].own => <<ring'[i].tgid, ring'[i].filename>> \in been'
  BY <1>1, <1>2, SubmitCommKeeps DEF Clone
<1>4. QED  BY <1>1, <1>3, HostKeeps DEF Clone

LEMMA ExecKeeps ==
    ASSUME FInv, NEW p \in Tgids, NEW n \in Programs, Exec(p, n) PROVE FInv'
<1>1. /\ proc \in [Tgids -> Procs \cup {None}] /\ CommOf[n] \in Names /\ n \in Names
      /\ "" \in Names
      /\ \A r \in Tgids : proc[r] # None => <<r, proc[r].comm>> \in been
  BY FilterConstants DEF FInv, FilterTypeOK, NamesInv, Names
<1> DEFINE x == NewProc(n, CommOf[n], IF Attached THEN "exec" ELSE "before")
           e == [tid |-> p, tgid |-> p, comm |-> "", filename |-> n, own |-> TRUE]
<1>2. x \in Procs /\ x.comm = CommOf[n]  BY <1>1 DEF Procs, NewProc
<1>3. proc' = [proc EXCEPT ![p] = x] /\ been' = been \cup {<<p, n>>, <<p, CommOf[n]>>}  BY DEF Exec
<1>4. e \in Records /\ e.tgid = p /\ e.filename = n  BY <1>1 DEF Records
<1>5. Submit(e)  BY DEF Exec, handle_sched_process_exec
<1> HIDE DEF x, e
<1>6. proc' \in [Tgids -> Procs \cup {None}] /\ proc'[p] = x
      /\ \A r \in Tgids : r # p => proc'[r] = proc[r]
  BY <1>1, <1>2, <1>3
<1>7. \A r \in Tgids : proc'[r] # None => <<r, proc'[r].comm>> \in been'
  BY <1>1, <1>2, <1>3, <1>6
<1>8. been \subseteq been' /\ <<e.tgid, e.filename>> \in been'  BY <1>3, <1>4
<1>9. /\ ring' \in Seq(Records) /\ written' \in Seq(Names)
      /\ \A i \in 1 .. Len(ring') : ring'[i].own => <<ring'[i].tgid, ring'[i].filename>> \in been'
  BY <1>4, <1>5, <1>8, SubmitKeeps
<1>10. QED  BY <1>6, <1>7, <1>8, <1>9, HostKeeps DEF Exec

LEMMA SetNameKeeps ==
    ASSUME FInv, NEW p \in Tgids, NEW c \in Comms, SetName(p, c) PROVE FInv'
<1>1. /\ proc[p] \in Procs /\ proc \in [Tgids -> Procs \cup {None}] /\ c \in Names
      /\ \A r \in Tgids : proc[r] # None => <<r, proc[r].comm>> \in been
  BY FilterConstants DEF FInv, FilterTypeOK, NamesInv, SetName, Names
<1> DEFINE x == [proc[p] EXCEPT !.comm = c, !.how = IF Attached /\ @ = "before" THEN "thread" ELSE @]
<1>2. x \in Procs /\ x.comm = c  BY <1>1 DEF Procs
<1>3. proc' = [proc EXCEPT ![p] = x] /\ been' = been \cup {<<p, c>>}  BY <1>1 DEF SetName
<1> HIDE DEF x
<1>4. proc' \in [Tgids -> Procs \cup {None}] /\ proc'[p] = x
      /\ \A r \in Tgids : r # p => proc'[r] = proc[r]
  BY <1>1, <1>2, <1>3
<1>5. \A r \in Tgids : proc'[r] # None => <<r, proc'[r].comm>> \in been'
  BY <1>1, <1>2, <1>3, <1>4
<1>6. /\ ring' \in Seq(Records) /\ written' \in Seq(Names)
      /\ \A i \in 1 .. Len(ring') : ring'[i].own => <<ring'[i].tgid, ring'[i].filename>> \in been'
  BY <1>1, <1>3, SubmitCommKeeps DEF SetName
<1>7. QED  BY <1>3, <1>4, <1>5, <1>6, HostKeeps DEF SetName

LEMMA ExitKeeps == ASSUME FInv, NEW p \in Tgids, Exit(p) PROVE FInv'
<1>1. UNCHANGED <<been, ring, written>> /\ proc' = [proc EXCEPT ![p] = None]
  BY DEF Exit, kernel
<1>2. /\ proc' \in [Tgids -> Procs \cup {None}]
      /\ \A r \in Tgids : proc'[r] # None => <<r, proc'[r].comm>> \in been'
  BY <1>1 DEF FInv, FilterTypeOK, NamesInv
<1>3. /\ ring' \in Seq(Records) /\ written' \in Seq(Names)
      /\ \A i \in 1 .. Len(ring') : ring'[i].own => <<ring'[i].tgid, ring'[i].filename>> \in been'
  BY <1>1 DEF FInv, FilterTypeOK, NamesInv
<1>4. QED  BY <1>1, <1>2, <1>3, HostKeeps DEF Exit

-----------------------------------------------------------------------------
(* build and the tracker.                                                   *)

LEMMA buildKeeps == ASSUME FInv, build PROVE FInv'
<1>1. /\ phase = "new" /\ pc = "idle" /\ watched = {} /\ cfg \in Configs
      /\ UNCHANGED <<cfg, proc, been, ring, written, pc, watched, reported, discovered, misread>>
  BY DEF build, FInv, PhaseInv, FilterTypeOK, world, kernel, tracker
<1>2. CASE phase' = "refused" /\ UNCHANGED tracked
  <2>1. FilterTypeOK' /\ NamesInv' /\ PhaseInv'
    BY <1>1, <1>2 DEF FInv, FilterTypeOK, NamesInv, PhaseInv
  <2>2. NoSilentModule'  BY <1>2 DEF NoSilentModule
  <2>3. TracedWasMatching'  BY <1>1, <1>2 DEF FInv, TracedWasMatching, Matches, filter_process
  <2>4. SameFilterSameTrace'  BY <1>1, <1>2 DEF FInv, SameFilterSameTrace, On, filter_process
  <2>5. DiscoveredSound'  BY <1>1, <1>2 DEF FInv, DiscoveredSound, Matches, filter_process
  <2>6. QED  BY <2>1, <2>2, <2>3, <2>4, <2>5 DEF FInv
<1>3. CASE /\ ~(needs_process_filtering /\ ~cfg.tracker) /\ phase' = "running"
           /\ tracked' = [m \in Modules |-> IF On(m) THEN cfg.mods[m].pids ELSE {}]
  <2>1. \A m \in Modules : tracked'[m] = IF On(m) THEN cfg.mods[m].pids ELSE {}  BY <1>3
  <2>2. \A m \in Modules : IsFiniteSet(tracked'[m])
    BY <1>1, <2>1, FilterConstants, FS_EmptySet
  <2>3. FilterTypeOK' /\ NamesInv' /\ PhaseInv'
    BY <1>1, <1>3, <2>2 DEF FInv, FilterTypeOK, NamesInv, PhaseInv
  <2>4. NoSilentModule'
    BY <1>1, <1>3, <2>1
    DEF NoSilentModule, On, filter_enabled, filter_process, needs_process_filtering
  <2>5. TracedWasMatching'  BY <1>1, <2>1 DEF TracedWasMatching
  <2>6. SameFilterSameTrace'  BY <1>1, <2>1 DEF SameFilterSameTrace
  <2>7. DiscoveredSound'  BY <1>1 DEF FInv, DiscoveredSound
  <2>8. QED  BY <2>3, <2>4, <2>5, <2>6, <2>7 DEF FInv
<1>4. QED  BY <1>2, <1>3 DEF build

\* A process reported under a name that it had, or that is counted as misread.
LEMMA on_processKeeps ==
    ASSUME FInv, NEW p \in Tgids, NEW name, on_process(p, name), cfg' = cfg, been' = been,
           misread \subseteq misread', phase' = phase,
           <<p, name>> \in been \/ p \in misread'
    PROVE  /\ \A m \in Modules : IsFiniteSet(tracked'[m])
           /\ NoSilentModule' /\ TracedWasMatching' /\ SameFilterSameTrace'
           /\ watched \subseteq watched'
           /\ \A r \in watched' : \E m \in Modules :
                  r \in tracked'[m] /\ \E x \in reported' : x[1] = r /\ Matches(m, x[2])
<1> DEFINE Adds(m) == On(m) /\ Matches(m, name) /\ Filterable(m, p)
<1>1. /\ \A m \in Modules : tracked'[m] = IF Adds(m) THEN tracked[m] \cup {p} ELSE tracked[m]
      /\ watched' = IF \E m \in Modules : Adds(m) THEN watched \cup {p} ELSE watched
      /\ reported' = reported \cup {<<p, name>>}
  BY DEF on_process
<1>2. \A m \in Modules : IsFiniteSet(tracked[m])  BY DEF FInv, FilterTypeOK
<1>3. \A m \in Modules : Adds(m) => On(m) /\ Matches(m, name) /\ Filterable(m, p)  OBVIOUS
<1>4. \A m \in Modules : ~Adds(m) /\ On(m) /\ Matches(m, name) =>
          p \notin tracked[m] /\ ~(Cardinality(tracked[m]) < FilterCap)
  BY DEF Filterable
<1>5. \A m \in Modules : IsFiniteSet(tracked[m] \cup {p})
                         /\ Cardinality(tracked[m] \cup {p}) >= Cardinality(tracked[m])
                         /\ Cardinality(tracked[m]) \in Nat
                         /\ Cardinality(tracked[m] \cup {p}) \in Nat
  <2> TAKE m \in Modules
  <2>1. IsFiniteSet(tracked[m] \cup {p}) /\ Cardinality(tracked[m]) \in Nat
        /\ Cardinality(tracked[m] \cup {p}) =
               IF p \in tracked[m] THEN Cardinality(tracked[m]) ELSE Cardinality(tracked[m]) + 1
    BY <1>2, FS_AddElement, FS_CardinalityType
  <2>2. QED  BY <2>1
<1> HIDE DEF Adds
<1>6. \A m \in Modules : IsFiniteSet(tracked'[m])  BY <1>1, <1>2, <1>5
<1>7. \A m \in Modules : tracked[m] \subseteq tracked'[m]  BY <1>1
<1>8. NoSilentModule'
  BY <1>7 DEF FInv, NoSilentModule, On, filter_enabled, filter_process
<1>9. TracedWasMatching'
  <2> SUFFICES ASSUME NEW m \in Modules, NEW r \in tracked'[m]
               PROVE  \/ r \in cfg.mods[m].pids
                      \/ \E x \in been : x[1] = r /\ Matches(m, x[2])
                      \/ r \in misread'
    BY DEF TracedWasMatching, Matches, filter_process
  <2>1. CASE r \in tracked[m]  BY <2>1 DEF FInv, TracedWasMatching
  <2>2. CASE r \notin tracked[m]
    <3>1. r = p /\ Matches(m, name)  BY <1>1, <1>3, <2>2
    <3>2. CASE <<p, name>> \in been
      <4>1. <<p, name>>[1] = r /\ <<p, name>>[2] = name  BY <3>1
      <4>2. QED  BY <3>1, <3>2, <4>1
    <3>3. QED  BY <3>1, <3>2
  <2>3. QED  BY <2>1, <2>2
<1>10. SameFilterSameTrace'
  <2> SUFFICES ASSUME NEW m \in Modules, NEW k \in Modules, On(m), On(k),
                      filter_process(m) = filter_process(k),
                      NEW r \in tracked'[m], r \notin tracked'[k], r \notin cfg.mods[m].pids
               PROVE  Cardinality(tracked'[k]) >= FilterCap
    BY DEF SameFilterSameTrace, On, filter_process
  <2>1. r \notin tracked[k] /\ FilterCap \in Nat  BY <1>7, FilterConstants
  <2>2. CASE r \in tracked[m]
    <3>1. Cardinality(tracked[k]) >= FilterCap
      BY <2>1, <2>2 DEF FInv, SameFilterSameTrace
    <3>2. Cardinality(tracked'[k]) >= Cardinality(tracked[k])
      <4>1. CASE Adds(k)  BY <4>1, <1>1, <1>5
      <4>2. CASE ~Adds(k)
        <5>1. tracked'[k] = tracked[k]  BY <4>2, <1>1
        <5>2. Cardinality(tracked[k]) \in Nat  BY <1>5
        <5>3. QED  BY <5>1, <5>2
      <4>3. QED  BY <4>1, <4>2
    <3>3. tracked'[k] = tracked[k] \/ tracked'[k] = tracked[k] \cup {p}  BY <1>1
    <3>4. Cardinality(tracked'[k]) \in Nat /\ Cardinality(tracked[k]) \in Nat  BY <1>5, <3>3
    <3>5. QED  BY <2>1, <3>1, <3>2, <3>4
  <2>3. CASE r \notin tracked[m]
    <3>1. r = p /\ Matches(m, name)  BY <1>1, <1>3, <2>3
    <3>2. Matches(k, name)  BY <3>1 DEF Matches
    <3>3. ~Adds(k)  BY <1>1, <3>1
    <3>4. tracked'[k] = tracked[k] /\ ~(Cardinality(tracked[k]) < FilterCap)
      BY <1>1, <1>4, <3>2, <3>3
    <3>5. Cardinality(tracked[k]) \in Nat  BY <1>5
    <3>6. QED  BY <2>1, <3>4, <3>5
  <2>4. QED  BY <2>2, <2>3
<1>11. \A r \in watched' : \E m \in Modules :
           r \in tracked'[m] /\ \E x \in reported' : x[1] = r /\ Matches(m, x[2])
  <2> TAKE r \in watched'
  <2>1. CASE r \in watched
    <3>1. PICK m \in Modules : r \in tracked[m] /\ \E x \in reported : x[1] = r /\ Matches(m, x[2])
      BY <2>1 DEF FInv, DiscoveredSound
    <3>2. QED  BY <1>1, <1>7, <3>1
  <2>2. CASE r \notin watched
    <3>1. PICK m \in Modules : Adds(m) /\ r = p  BY <1>1, <2>2
    <3>2. r \in tracked'[m] /\ Matches(m, name)  BY <1>1, <1>3, <3>1
    <3>3. <<p, name>> \in reported' /\ <<p, name>>[1] = r /\ <<p, name>>[2] = name
      BY <1>1, <3>1
    <3>4. QED  BY <3>2, <3>3
  <2>3. QED  BY <2>1, <2>2
<1>12. watched \subseteq watched'  BY <1>1
<1>13. QED  BY <1>6, <1>8, <1>9, <1>10, <1>11, <1>12

LEMMA consumeKeeps == ASSUME FInv, consume PROVE FInv'
<1>1. /\ phase = "running" /\ UNCHANGED <<cfg, phase, proc, been, ring, written, output>>
  BY DEF consume, world, kernel
<1>2. FilterTypeOK' /\ NamesInv' /\ PhaseInv'
  BY <1>1 DEF FInv, FilterTypeOK, NamesInv, PhaseInv, output
<1>3. QED  BY <1>1, <1>2, OutputKeeps DEF FInv

LEMMA scan_procKeeps == ASSUME FInv, NEW p \in Tgids, scan_proc(p) PROVE FInv'
<1>1. /\ pc = "scan" /\ UNCHANGED <<cfg, phase, proc, been, ring, written, pc, misread>>
      /\ phase # "new"
  BY DEF scan_proc, world, kernel, FInv, PhaseInv
<1>2. discovered' = discovered \cup
          {x \in {t \in Tids : task[t] = p} \X {p} : proc[p].comm \notin BadComms /\ p \in watched'}
  BY DEF scan_proc
<1>3. \A x \in discovered' : x \in discovered \/ (x[2] = p /\ p \in watched')  BY <1>2
<1>4. CASE on_process(p, proc[p].comm) /\ proc[p] # None
  <2>1. <<p, proc[p].comm>> \in been  BY <1>4 DEF FInv, NamesInv
  <2>2. PICK name : name = proc[p].comm  OBVIOUS
  <2>3. on_process(p, name) /\ <<p, name>> \in been  BY <1>4, <2>1, <2>2
  <2>4. /\ \A m \in Modules : IsFiniteSet(tracked'[m])
        /\ NoSilentModule' /\ TracedWasMatching' /\ SameFilterSameTrace'
        /\ watched \subseteq watched'
        /\ \A r \in watched' : \E m \in Modules :
               r \in tracked'[m] /\ \E x \in reported' : x[1] = r /\ Matches(m, x[2])
    BY <1>1, <2>3, on_processKeeps
  <2>5. FilterTypeOK' /\ NamesInv' /\ PhaseInv'
    BY <1>1, <2>4 DEF FInv, FilterTypeOK, NamesInv, PhaseInv
  <2>6. \A x \in discovered' : x[2] \in watched'
    BY <1>3, <2>4 DEF FInv, DiscoveredSound
  <2>7. DiscoveredSound'  BY <1>1, <2>4, <2>6 DEF DiscoveredSound, Matches, filter_process
  <2>8. QED  BY <2>4, <2>5, <2>7 DEF FInv
<1>5. CASE UNCHANGED <<tracked, watched, reported>>
  <2>1. FilterTypeOK' /\ NamesInv' /\ PhaseInv'
    BY <1>1, <1>5 DEF FInv, FilterTypeOK, NamesInv, PhaseInv
  <2>2. NoSilentModule'
    BY <1>1, <1>5 DEF FInv, NoSilentModule, On, filter_enabled, filter_process
  <2>3. TracedWasMatching'  BY <1>1, <1>5 DEF FInv, TracedWasMatching, Matches, filter_process
  <2>4. SameFilterSameTrace'  BY <1>1, <1>5 DEF FInv, SameFilterSameTrace, On, filter_process
  <2>5. DiscoveredSound'
    BY <1>1, <1>3, <1>5 DEF FInv, DiscoveredSound, Matches, filter_process
  <2>6. QED  BY <2>1, <2>2, <2>3, <2>4, <2>5 DEF FInv
<1>6. QED  BY <1>4, <1>5 DEF scan_proc

LEMMA scan_doneKeeps == ASSUME FInv, scan_done PROVE FInv'
<1>1. /\ pc = "scan" /\ phase # "new" /\ UNCHANGED <<cfg, phase, proc, been, ring, written, output>>
  BY DEF scan_done, world, kernel, FInv, PhaseInv
<1>2. FilterTypeOK' /\ NamesInv' /\ PhaseInv'
  BY <1>1 DEF FInv, FilterTypeOK, NamesInv, PhaseInv, output
<1>3. QED  BY <1>1, <1>2, OutputKeeps DEF FInv

LEMMA drainedKeeps == ASSUME FInv, drained PROVE FInv'
<1>1. /\ phase = "running" /\ UNCHANGED <<cfg, phase, proc, been, ring, written, output>>
  BY DEF drained, world, kernel
<1>2. FilterTypeOK' /\ NamesInv' /\ PhaseInv'
  BY <1>1 DEF FInv, FilterTypeOK, NamesInv, PhaseInv, output
<1>3. QED  BY <1>1, <1>2, OutputKeeps DEF FInv

LEMMA handle_recordKeeps == ASSUME FInv, handle_record PROVE FInv'
<1>1. /\ phase = "running" /\ ring # <<>> /\ ring \in Seq(Records) /\ ring' = Tail(ring)
      /\ UNCHANGED <<cfg, proc, been, written, pc>>
  BY DEF handle_record, world, tracker, FInv, FilterTypeOK
<1>2. PICK e \in Records : e = Head(ring) /\ (e.own => <<e.tgid, e.filename>> \in been)
  <2>1. Head(ring) \in Records /\ Head(ring) = ring[1] /\ 1 \in 1 .. Len(ring)  BY <1>1
  <2>2. QED  BY <2>1 DEF FInv, NamesInv
<1>3. /\ ring' \in Seq(Records)
      /\ \A i \in 1 .. Len(ring') : ring'[i] = ring[i + 1] /\ i + 1 \in 1 .. Len(ring)
  BY <1>1
<1>4. NamesInv'  BY <1>1, <1>3 DEF FInv, NamesInv
<1>5. CASE e.filename # ""
  <2>1. /\ on_process(e.tgid, e.filename) /\ UNCHANGED <<discovered, phase>>
        /\ misread' = IF e.own THEN misread ELSE misread \cup {e.tgid}
    BY <1>2, <1>5 DEF handle_record
  <2>2. e.tgid \in Tgids  BY DEF Records
  <2>3. /\ misread \subseteq misread'
        /\ <<e.tgid, e.filename>> \in been \/ e.tgid \in misread'
    BY <1>2, <2>1
  <2>4. /\ \A m \in Modules : IsFiniteSet(tracked'[m])
        /\ NoSilentModule' /\ TracedWasMatching' /\ SameFilterSameTrace'
        /\ watched \subseteq watched'
        /\ \A r \in watched' : \E m \in Modules :
               r \in tracked'[m] /\ \E x \in reported' : x[1] = r /\ Matches(m, x[2])
    BY <1>1, <2>1, <2>2, <2>3, on_processKeeps
  <2>5. FilterTypeOK' /\ PhaseInv'
    BY <1>1, <1>3, <2>1, <2>4 DEF FInv, FilterTypeOK, PhaseInv
  <2>6. DiscoveredSound'
    BY <1>1, <2>1, <2>4 DEF FInv, DiscoveredSound, Matches, filter_process
  <2>7. QED  BY <1>4, <2>4, <2>5, <2>6 DEF FInv
<1>6. CASE e.filename = ""
  <2>1. /\ UNCHANGED <<tracked, watched, reported, misread>>
        /\ phase' = "panicked" \/ phase' = phase
        /\ discovered' = discovered \/ discovered' = Discovered({<<e.tid, e.tgid>>})
    BY <1>2, <1>6 DEF handle_record
  <2>2. FilterTypeOK' /\ PhaseInv'
    BY <1>1, <1>3, <2>1 DEF FInv, FilterTypeOK, PhaseInv
  <2>3. NoSilentModule'
    BY <1>1, <2>1 DEF FInv, NoSilentModule, On, filter_enabled, filter_process
  <2>4. TracedWasMatching'  BY <1>1, <2>1 DEF FInv, TracedWasMatching, Matches, filter_process
  <2>5. SameFilterSameTrace'  BY <1>1, <2>1 DEF FInv, SameFilterSameTrace, On, filter_process
  <2>6. \A x \in discovered' : x[2] \in watched
    BY <2>1 DEF FInv, DiscoveredSound, Discovered
  <2>7. DiscoveredSound'
    BY <1>1, <2>1, <2>6 DEF FInv, DiscoveredSound, Matches, filter_process
  <2>8. QED  BY <1>4, <2>2, <2>3, <2>4, <2>5, <2>7 DEF FInv
<1>7. QED  BY <1>5, <1>6

-----------------------------------------------------------------------------
(* The theorems.                                                            *)

LEMMA InitOK == ASSUME Init PROVE FInv
<1>1. \A m \in Modules : tracked[m] = {}  BY DEF Init
<1>2. FilterTypeOK /\ NamesInv
  <2>1. PICK first \in Tgids, n \in Programs :
            /\ proc = [p \in Tgids |-> IF p = first THEN NewProc(n, CommOf[n], "before") ELSE None]
            /\ been = {<<first, n>>, <<first, CommOf[n]>>}
    BY DEF Init
  <2> DEFINE x == NewProc(n, CommOf[n], "before")
  <2>2. CommOf[n] \in Names  BY FilterConstants DEF Names
  <2>3. x \in Procs /\ x.comm = CommOf[n]  BY <2>2 DEF Procs, NewProc
  <2> HIDE DEF x
  <2>4. proc = [p \in Tgids |-> IF p = first THEN x ELSE None]  BY <2>1 DEF x
  <2>5. proc \in [Tgids -> Procs \cup {None}]  BY <2>3, <2>4
  <2>6. \A p \in Tgids : proc[p] # None => <<p, proc[p].comm>> \in been  BY <2>1, <2>3, <2>4
  <2>7. cfg \in Configs /\ ring = <<>> /\ written = <<>>  BY DEF Init
  <2>8. \A m \in Modules : IsFiniteSet(tracked[m])  BY <1>1, FS_EmptySet
  <2>9. FilterTypeOK  BY <2>5, <2>7, <2>8 DEF FilterTypeOK
  <2>10. NamesInv  BY <2>6, <2>7 DEF NamesInv
  <2>11. QED  BY <2>9, <2>10
<1>3. PhaseInv /\ NoSilentModule  BY DEF Init, PhaseInv, NoSilentModule
<1>4. TracedWasMatching /\ SameFilterSameTrace
  BY <1>1 DEF TracedWasMatching, SameFilterSameTrace
<1>5. DiscoveredSound  BY DEF Init, DiscoveredSound
<1>6. QED  BY <1>2, <1>3, <1>4, <1>5 DEF FInv

LEMMA StutterKeeps == ASSUME FInv, UNCHANGED vars PROVE FInv'
<1>1. UNCHANGED <<cfg, phase, proc, been, ring, written, pc, output, watched, tracked>>
  BY DEF vars, world, kernel, tracker, output
<1>2. FilterTypeOK' /\ NamesInv' /\ PhaseInv'
  BY <1>1 DEF FInv, FilterTypeOK, NamesInv, PhaseInv
<1>3. QED  BY <1>1, <1>2, OutputKeeps DEF FInv

LEMMA NextKeeps == ASSUME FInv, Next PROVE FInv'
  BY buildKeeps, ForkKeeps, CloneKeeps, ExecKeeps, SetNameKeeps, ExitKeeps, consumeKeeps,
     scan_procKeeps, scan_doneKeeps, handle_recordKeeps, drainedKeeps
  DEF Next, World, Tracker

LEMMA FilterInvariant == Spec => []FInv
  BY InitOK, NextKeeps, StutterKeeps, PTL DEF Spec

\* Whatever the configuration, build() leaves no module on whose filter map is
\* empty and stays so.
THEOREM NoModuleIsSilent == Spec => []NoSilentModule
  BY FilterInvariant, PTL DEF FInv

\* The wrapper callback adds processes to a module's map that had a name of its
\* filter; the only other ones were reported under a name that was left in the
\* memory of the ring buffer, of any size.
THEOREM TracedProcessesMatched == Spec => []TracedWasMatching
  BY FilterInvariant, PTL DEF FInv

\* The callback tries every module on its own: with the same names two modules
\* trace the same processes, but for pids and full maps.
THEOREM SameNamesSameProcesses == Spec => []SameFilterSameTrace
  BY FilterInvariant, PTL DEF FInv

\* A "discovered" instant is sent for threads of processes that are traced.
THEOREM DiscoveriesAreSound == Spec => []DiscoveredSound
  BY FilterInvariant, PTL DEF FInv
=============================================================================
