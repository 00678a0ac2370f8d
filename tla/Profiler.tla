------------------------------- MODULE Profiler -------------------------------
(***************************************************************************)
(* The sampling profiler: its program (bpf/src/bpf/profiler.bpf.c), its    *)
(* consumer (bpf/src/profiler.rs), the interning of symbols                *)
(* (interned-symbolizer/src/lib.rs) and the packets the converter writes   *)
(* for it, next to those of the other modules.                             *)
(***************************************************************************)
EXTENDS Converter, Integers, SequencesExt

CONSTANTS
    Addresses,
    UserTraces, KernelTraces,   \* stack traces: sequences of addresses
    Known,          \* the addresses the symbolizer finds a name for
    BucketOf,       \* [traces -> buckets of the stack map]
    SampleRingCap,  \* samples that fit in the ring buffer
    None            \* no stack, where an id is negative; no entry

Traces == UserTraces \cup KernelTraces

\* The owner of kernel addresses, which is no process.
Kernel == -1

ASSUME ProfilerConstants ==
    /\ SampleRingCap \in Nat \ {0}
    /\ Kernel \notin Pids
    /\ Traces \subseteq Seq(Addresses)

VARIABLES
    stackmap,       \* [buckets -> trace, or None]
    samples,        \* the ring buffer
    cache           \* InternedCache

profilerVars == <<stackmap, samples, cache>>
vars == <<converterVars, profilerVars>>

Buckets == {BucketOf[t] : t \in Traces}

-----------------------------------------------------------------------------
(* profiler_perf_event.  BPF_F_REUSE_STACKID lets a trace take the bucket of *)
(* another one, whose samples may still be in the ring buffer.               *)

\* bpf_get_stackid: None if the trace is not collected or cannot be had.
StackId(t) == IF t = None THEN None ELSE BucketOf[t]

Stored(map, t) == IF t = None THEN map ELSE [map EXCEPT ![BucketOf[t]] = t]

profiler_perf_event(p, u, k) ==
    /\ messages < MaxMessages
    /\ Len(samples) < SampleRingCap
    /\ stackmap' = Stored(Stored(stackmap, u), k)
    /\ samples' = Append(samples, [pid |-> p, ustack_id |-> StackId(u), kstack_id |-> StackId(k)])
    /\ UNCHANGED <<cache, converterVars>>

-----------------------------------------------------------------------------
(* InternedCache and Interned::data.                                        *)

NewCache == [frames |-> [k \in {} |-> 0], stacks |-> [k \in {} |-> 0],
             next_function |-> 0, unknown |-> None, mapping |-> FALSE, first |-> TRUE]

NoData == [functions |-> {}, frames |-> {}, mappings |-> {}, ids |-> <<>>]

\* Ids are handed out in order, from 0: the next one is the number of entries.
NextId(table) == Cardinality(DOMAIN table)

Add(table, key, id) == [k \in DOMAIN table \cup {key} |-> IF k = key THEN id ELSE table[k]]

\* One frame of a stack, a pair of its owner and its address, with what is new so far.
Frame(acc, key) ==
    LET seen == key \in DOMAIN acc.cache.frames
        id == IF seen THEN acc.cache.frames[key] ELSE NextId(acc.cache.frames)
        known == key[2] \in Known
        function == IF known THEN acc.cache.next_function ELSE acc.cache.unknown
    IN  IF seen THEN [acc EXCEPT !.data.ids = Append(@, id)]
        ELSE [cache |-> [acc.cache EXCEPT !.frames = Add(@, key, id),
                             !.next_function = IF known THEN @ + 1 ELSE @],
              data |-> [acc.data EXCEPT
                            !.ids = Append(@, id),
                            !.functions = IF known THEN @ \cup {function} ELSE @,
                            !.frames = @ \cup {[iid |-> id, function |-> function, mapping |-> 1]}]]

\* The unknown function and the only mapping go out with the first data.
Start(c) ==
    [cache |-> [c EXCEPT !.unknown = IF @ = None THEN c.next_function ELSE @,
                         !.next_function = IF c.unknown = None THEN @ + 1 ELSE @,
                         !.mapping = TRUE],
     data |-> [NoData EXCEPT !.functions = IF c.unknown = None THEN {c.next_function} ELSE {},
                             !.mappings = IF c.mapping THEN {} ELSE {1}]]

\* Mutant: user addresses are cached as the kernel's are.
FrameKeysShared(p, s) ==
    [i \in 1 .. Len(s.user) |-> <<Kernel, Reverse(s.user)[i]>>]
        \o [i \in 1 .. Len(s.kernel) |-> <<Kernel, s.kernel[i]>>]

\* User frames from the outermost, then the kernel's.
FrameKeys(p, s) ==
    [i \in 1 .. Len(s.user) |-> <<p, Reverse(s.user)[i]>>]
        \o [i \in 1 .. Len(s.kernel) |-> <<Kernel, s.kernel[i]>>]

\* The frames of a stack, one after the other.
Frames(c, keys) ==
    LET walk[n \in 0 .. Len(keys)] ==
            IF n = 0 THEN Start(c) ELSE Frame(walk[n - 1], keys[n])
    IN  walk[Len(keys)]

data_cached(c, p, s) ==
    LET acc == Frames(c, FrameKeys(p, s))
        known == acc.data.ids \in DOMAIN acc.cache.stacks
        id == IF known THEN acc.cache.stacks[acc.data.ids] ELSE NextId(acc.cache.stacks)
        fresh == ~known
    IN  [cache |-> [acc.cache EXCEPT !.stacks = Add(@, acc.data.ids, id)],
         iid |-> id,
         packets |-> IF ~fresh THEN <<>>
                     ELSE <<[type |-> "interned", cleared |-> acc.cache.first,
                             functions |-> acc.data.functions, frames |-> acc.data.frames,
                             mappings |-> acc.data.mappings,
                             callstack |-> [iid |-> id, frames |-> acc.data.ids]]>>]

\* data(): the id of the stack, and a packet if anything in it is new.
data(c, p, s) ==
    LET acc == Frames(c, FrameKeys(p, s))
        known == acc.data.ids \in DOMAIN acc.cache.stacks
        id == IF known THEN acc.cache.stacks[acc.data.ids] ELSE NextId(acc.cache.stacks)
        fresh == ~known \/ acc.data.functions # {} \/ acc.data.frames # {} \/ acc.data.mappings # {}
    IN  [cache |-> [acc.cache EXCEPT !.stacks = Add(@, acc.data.ids, id),
                                     !.first = @ /\ ~fresh],
         iid |-> id,
         packets |-> IF ~fresh THEN <<>>
                     ELSE <<[type |-> "interned", cleared |-> acc.cache.first,
                             functions |-> acc.data.functions, frames |-> acc.data.frames,
                             mappings |-> acc.data.mappings,
                             callstack |-> [iid |-> id, frames |-> acc.data.ids]]>>]

-----------------------------------------------------------------------------
(* The ring buffer callback of Profiler::new.                               *)

get_stack_frames(id) ==
    IF id \in DOMAIN stackmap /\ stackmap[id] # None THEN stackmap[id] ELSE <<>>

\* The stack is read from the map when the sample is consumed.  The callback of
\* kinetrace returns 0 even when the interned data could not be written, so the
\* sample follows and the cache keeps the ids.
consume_sample ==
    /\ samples # <<>>
    /\ LET e == Head(samples)
           s == [user |-> get_stack_frames(e.ustack_id), kernel |-> get_stack_frames(e.kstack_id)]
           d == data(cache, e.pid, s)
           sample == [type |-> "sample", callstack |-> d.iid, pid |-> e.pid, stack |-> s]
           written == IF d.packets = <<>> THEN {St} ELSE write_packet(St, d.packets[1])
       IN  /\ s # [user |-> <<>>, kernel |-> <<>>]
           /\ Commit(UNION {write_packet([r EXCEPT !.ok = TRUE], sample) : r \in written})
           /\ cache' = d.cache
    /\ samples' = Tail(samples)
    /\ UNCHANGED stackmap

\* There is no stack, or symbolize() fails, as it does for a process that is gone.
drop_sample ==
    /\ samples # <<>>
    /\ samples' = Tail(samples)
    /\ UNCHANGED <<stackmap, cache, converterVars>>

Init ==
    /\ ConverterInit
    /\ stackmap = [b \in Buckets |-> None]
    /\ samples = <<>>
    /\ cache = NewCache

Next ==
    \/ convert_event /\ UNCHANGED profilerVars
    \/ \E p \in Pids, u \in UserTraces \cup {None}, k \in KernelTraces \cup {None} :
           profiler_perf_event(p, u, k)
    \/ consume_sample
    \/ drop_sample

Spec == Init /\ [][Next]_vars

-----------------------------------------------------------------------------
(* Properties.                                                              *)

\* What a reader of the profiler's sequence holds at packet i: the interned
\* entries since the last packet that cleared its state.
Clears(i) == file[i].type = "interned" /\ file[i].cleared

Held(i, Field(_)) ==
    UNION {Field(file[j]) : j \in {k \in 1 .. i : /\ file[k].type = "interned"
                                                 /\ \A n \in (k + 1) .. i : ~Clears(n)}}

\* A sample refers to a call stack that was written before it on its sequence,
\* the stack to frames, the frames to functions and to the mapping, none of which
\* a later packet has cleared; the state was cleared once before all of them.
SamplesResolvable ==
    failures = 0 =>
        \A i \in {k \in DOMAIN file : file[k].type = "sample"} :
            LET stacks == {f \in Held(i, LAMBDA q : {q.callstack}) : f.iid = file[i].callstack}
                frames == {f \in Held(i, LAMBDA q : q.frames) :
                               \E s \in stacks : \E n \in DOMAIN s.frames : s.frames[n] = f.iid}
            IN  /\ Cardinality(stacks) = 1
                /\ \A s \in stacks : \A n \in DOMAIN s.frames : \E f \in frames : f.iid = s.frames[n]
                /\ \A f \in frames : /\ f.function \in Held(i, LAMBDA q : q.functions)
                                     /\ f.mapping \in Held(i, LAMBDA q : q.mappings)
                /\ \E j \in 1 .. (i - 1) : Clears(j)

\* Two samples share a call stack id exactly when they show the same frames of
\* the same process, so that no address is given the name it has elsewhere.
StacksDistinct ==
    \A i, j \in {k \in DOMAIN file : file[k].type = "sample"} :
        file[i].callstack = file[j].callstack <=>
            /\ file[i].stack = file[j].stack
            /\ file[i].pid = file[j].pid \/ file[i].stack.user = <<>>
=============================================================================
