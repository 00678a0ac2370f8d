--------------------------- MODULE NetTrack_proof ---------------------------
(***************************************************************************)
(* Proofs about the network tracker, for any number of processors,         *)
(* processes and peers, any configuration and any limits of the LRU maps:  *)
(* the counters of the host add up to what the sockets moved, no process   *)
(* and no peer is credited with more than it moved, and no rate is         *)
(* overstated.                                                             *)
(*                                                                         *)
(* The counts of the host are sums over the processors, so the first part  *)
(* is about sums.  The fold of the community modules is a recursive        *)
(* function on the subsets of its index set; that it exists, and that any  *)
(* summand can be taken out of it first, is shown by induction on the size *)
(* of the subset.                                                          *)
(***************************************************************************)
EXTENDS NetTrack, FiniteSetTheorems, WellFoundedInduction, TLAPS

-----------------------------------------------------------------------------
(* Sums over a finite set.                                                  *)

\* Induction on the naturals, for a set of them: WFMin gives its least missing element.
LEMMA NatSetInduction ==
    ASSUME NEW P, 0 \in P, \A n \in Nat : n \in P => n + 1 \in P
    PROVE  Nat \subseteq P
<1> SUFFICES ASSUME Nat \ P # {} PROVE FALSE
  OBVIOUS
<1>1. PICK m \in Nat \ P : \A y \in Nat \ P : ~ (<<y, m>> \in OpToRel(<, Nat))
  <2>1. \A T : T \subseteq Nat /\ T # {} => \E x \in T : \A y \in T : ~ (<<y, x>> \in OpToRel(<, Nat))
    BY NatLessThanWellFounded, WFMin
  <2>. QED BY <2>1
<1>2. m \in Nat /\ m # 0
  BY <1>1
<1>3. m - 1 \in Nat /\ m - 1 < m /\ (m - 1) + 1 = m
  BY <1>2
<1>4. <<m - 1, m>> \in OpToRel(<, Nat)
  BY <1>2, <1>3 DEF OpToRel
<1>5. m - 1 \in P
  BY <1>1, <1>3, <1>4
<1>6. QED  BY <1>1, <1>2, <1>3, <1>5

Pick(s) == CHOOSE x \in s : TRUE

\* g is the function with which the fold computes the sum over S.
Summing(f, S, g) ==
    g = [s \in SUBSET S |-> IF s = {} THEN 0 ELSE f[Pick(s)] + g[s \ {Pick(s)}]]

LEMMA PickIn == ASSUME NEW s, s # {} PROVE Pick(s) \in s
  BY DEF Pick

LEMMA PickLess ==
    ASSUME NEW s, IsFiniteSet(s), s # {}, NEW n \in Nat, Cardinality(s) <= n + 1
    PROVE  /\ IsFiniteSet(s \ {Pick(s)}) /\ Cardinality(s \ {Pick(s)}) \in Nat
           /\ Cardinality(s \ {Pick(s)}) <= n
           /\ Cardinality(s) \in Nat
<1>1. Pick(s) \in s  BY PickIn
<1>2. /\ IsFiniteSet(s \ {Pick(s)}) /\ Cardinality(s) \in Nat
      /\ Cardinality(s \ {Pick(s)}) = Cardinality(s) - 1
  BY <1>1, FS_RemoveElement, FS_CardinalityType
<1>3. QED  BY <1>2, FS_CardinalityType

LEMMA SummingExists ==
    ASSUME NEW f, NEW S, IsFiniteSet(S)
    PROVE  \E g : Summing(f, S, g)
<1> DEFINE Value(g, s) == IF s = {} THEN 0 ELSE f[Pick(s)] + g[s \ {Pick(s)}]
           Upto(g, n) == \A s \in SUBSET S : Cardinality(s) <= n => g[s] = Value(g, s)
           P == {n \in Nat : \E g : g = [s \in SUBSET S |-> g[s]] /\ Upto(g, n)}
<1>0. \A s \in SUBSET S : IsFiniteSet(s) /\ Cardinality(s) \in Nat
  BY FS_Subset, FS_CardinalityType
<1>1. 0 \in P
  <2>1. \A s \in SUBSET S : Cardinality(s) <= 0 => s = {}
    BY <1>0, FS_EmptySet
  <2>2. Upto([s \in SUBSET S |-> 0], 0)
    BY <2>1
  <2>. QED BY <2>2
<1>2. ASSUME NEW n \in Nat, n \in P PROVE n + 1 \in P
  <2>1. PICK g : g = [s \in SUBSET S |-> g[s]] /\ Upto(g, n)
    BY <1>2
  <2> DEFINE h == [s \in SUBSET S |-> IF Cardinality(s) <= n THEN g[s] ELSE Value(g, s)]
  <2>2. ASSUME NEW s \in SUBSET S, Cardinality(s) <= n + 1 PROVE h[s] = Value(h, s)
    <3>0. h[s] = Value(g, s)
      BY <2>1
    <3>1. CASE s = {}
      BY <3>0, <3>1
    <3>2. CASE s # {}
      <4>1. Cardinality(s \ {Pick(s)}) <= n /\ s \ {Pick(s)} \in SUBSET S
        BY <3>2, <2>2, <1>0, PickLess
      <4>2. h[s \ {Pick(s)}] = g[s \ {Pick(s)}]
        BY <4>1
      <4>. QED BY <3>0, <3>2, <4>2
    <3>. QED BY <3>1, <3>2
  <2>3. Upto(h, n + 1)
    BY <2>2
  <2>4. h = [s \in SUBSET S |-> h[s]]
    OBVIOUS
  <2>. HIDE DEF h, Upto
  <2>5. \E k : k = [s \in SUBSET S |-> k[s]] /\ Upto(k, n + 1)
    BY <2>3, <2>4, Zenon
  <2>. QED BY <2>5
<1>. HIDE DEF P
<1>3. Nat \subseteq P
  BY <1>1, <1>2, NatSetInduction
<1>4. Cardinality(S) \in P
  BY <1>3, <1>0
<1>5. PICK g : g = [s \in SUBSET S |-> g[s]] /\ Upto(g, Cardinality(S))
  BY <1>4 DEF P
<1>6. \A s \in SUBSET S : Cardinality(s) <= Cardinality(S)
  BY FS_Subset
<1>7. \A s \in SUBSET S : g[s] = Value(g, s)
  BY <1>5, <1>6
<1>8. g = [s \in SUBSET S |-> Value(g, s)]
  BY <1>5, <1>7, Zenon
<1>. QED BY <1>8 DEF Summing

LEMMA SumUnfold ==
    ASSUME NEW f, NEW S, IsFiniteSet(S)
    PROVE  \E g : Summing(f, S, g) /\ SumFunctionOnSet(f, S) = g[S]
<1>1. Summing(f, S, CHOOSE g : Summing(f, S, g))
  BY SummingExists
<1>2. SumFunctionOnSet(f, S) = (CHOOSE g : Summing(f, S, g))[S]
  BY Zenon DEF SumFunctionOnSet, FoldFunctionOnSet, MapThenFoldSet, Summing, Pick
<1>. QED BY <1>1, <1>2

\* Two such functions agree where the summands do.
LEMMA SummingAgree ==
    ASSUME NEW f, NEW S, IsFiniteSet(S), NEW g, Summing(f, S, g),
           NEW e, NEW T \in SUBSET S, NEW h, Summing(e, T, h),
           \A x \in T : f[x] = e[x]
    PROVE  g[T] = h[T]
<1> DEFINE P == {n \in Nat : \A s \in SUBSET T : Cardinality(s) <= n => g[s] = h[s]}
<1>0. \A s \in SUBSET T : IsFiniteSet(s) /\ Cardinality(s) \in Nat
  BY FS_Subset, FS_CardinalityType
<1>1. 0 \in P
  <2>1. \A s \in SUBSET T : Cardinality(s) <= 0 => s = {}
    BY <1>0, FS_EmptySet
  <2>2. g[{}] = 0 /\ h[{}] = 0
    BY DEF Summing
  <2>. QED BY <2>1, <2>2
<1>2. ASSUME NEW n \in Nat, n \in P PROVE n + 1 \in P
  <2>1. ASSUME NEW s \in SUBSET T, Cardinality(s) <= n + 1 PROVE g[s] = h[s]
    <3>1. CASE s = {}
      BY <3>1 DEF Summing
    <3>2. CASE s # {}
      <4>1. Cardinality(s \ {Pick(s)}) <= n /\ s \ {Pick(s)} \in SUBSET T /\ Pick(s) \in T
        BY <3>2, <2>1, <1>0, PickLess, PickIn
      <4>2. g[s \ {Pick(s)}] = h[s \ {Pick(s)}] /\ f[Pick(s)] = e[Pick(s)]
        BY <4>1, <1>2
      <4>3. /\ g[s] = f[Pick(s)] + g[s \ {Pick(s)}]
            /\ h[s] = e[Pick(s)] + h[s \ {Pick(s)}]
        BY <3>2, s \in SUBSET S DEF Summing
      <4>. QED BY <4>2, <4>3
    <3>. QED BY <3>1, <3>2
  <2>. QED BY <2>1
<1>. HIDE DEF P
<1>3. Nat \subseteq P
  BY <1>1, <1>2, NatSetInduction
<1>4. Cardinality(T) \in P /\ T \in SUBSET T
  BY <1>3, <1>0
<1>. QED BY <1>4, <1>0 DEF P

LEMMA SumEmpty == ASSUME NEW f PROVE SumFunctionOnSet(f, {}) = 0
<1>1. PICK g : Summing(f, {}, g) /\ SumFunctionOnSet(f, {}) = g[{}]
  BY SumUnfold, FS_EmptySet
<1>. QED BY <1>1 DEF Summing

LEMMA SumEqual ==
    ASSUME NEW S, IsFiniteSet(S), NEW f, NEW e, \A x \in S : f[x] = e[x]
    PROVE  SumFunctionOnSet(f, S) = SumFunctionOnSet(e, S)
<1>1. PICK g : Summing(f, S, g) /\ SumFunctionOnSet(f, S) = g[S]
  BY SumUnfold
<1>2. PICK h : Summing(e, S, h) /\ SumFunctionOnSet(e, S) = h[S]
  BY SumUnfold
<1>. QED BY <1>1, <1>2, SummingAgree, S \in SUBSET S

LEMMA SumPick ==
    ASSUME NEW f, NEW S, IsFiniteSet(S), S # {}
    PROVE  SumFunctionOnSet(f, S) = f[Pick(S)] + SumFunctionOnSet(f, S \ {Pick(S)})
<1>1. PICK g : Summing(f, S, g) /\ SumFunctionOnSet(f, S) = g[S]
  BY SumUnfold
<1>2. S \ {Pick(S)} \in SUBSET S /\ IsFiniteSet(S \ {Pick(S)})
  BY FS_RemoveElement
<1>3. PICK h : /\ Summing(f, S \ {Pick(S)}, h)
               /\ SumFunctionOnSet(f, S \ {Pick(S)}) = h[S \ {Pick(S)}]
  BY <1>2, SumUnfold
<1>4. g[S \ {Pick(S)}] = h[S \ {Pick(S)}]
  BY <1>1, <1>2, <1>3, SummingAgree
<1>5. g[S] = f[Pick(S)] + g[S \ {Pick(S)}]
  BY <1>1 DEF Summing
<1>. QED BY <1>1, <1>3, <1>4, <1>5

\* Any summand can be taken out first, and the sum of integers is one.
LEMMA SumRemove ==
    ASSUME NEW f, NEW S, IsFiniteSet(S), \A x \in S : f[x] \in Int
    PROVE  /\ SumFunctionOnSet(f, S) \in Int
           /\ \A x \in S : SumFunctionOnSet(f, S) = f[x] + SumFunctionOnSet(f, S \ {x})
<1> DEFINE Good(s) == /\ SumFunctionOnSet(f, s) \in Int
                      /\ \A x \in s : SumFunctionOnSet(f, s) = f[x] + SumFunctionOnSet(f, s \ {x})
           P == {n \in Nat : \A s \in SUBSET S : Cardinality(s) <= n => Good(s)}
<1>0. \A s \in SUBSET S : IsFiniteSet(s) /\ Cardinality(s) \in Nat
  BY FS_Subset, FS_CardinalityType
<1>1. 0 \in P
  <2>1. \A s \in SUBSET S : Cardinality(s) <= 0 => s = {}
    BY <1>0, FS_EmptySet
  <2>2. Good({})
    BY SumEmpty
  <2>. QED BY <2>1, <2>2
<1>2. ASSUME NEW n \in Nat, n \in P PROVE n + 1 \in P
  <2>1. ASSUME NEW s \in SUBSET S, Cardinality(s) <= n + 1, s # {} PROVE Good(s)
    <3> DEFINE p == Pick(s)
    <3>1. p \in s /\ s \ {p} \in SUBSET S /\ IsFiniteSet(s)
      BY <2>1, <1>0, PickIn
    <3>2. Good(s \ {p})
      BY <3>1, <2>1, <1>2, PickLess
    <3>3. SumFunctionOnSet(f, s) = f[p] + SumFunctionOnSet(f, s \ {p})
      BY <3>1, <2>1, SumPick
    <3>4. SumFunctionOnSet(f, s) \in Int
      BY <3>1, <3>2, <3>3
    <3>5. ASSUME NEW x \in s, x # p
          PROVE  SumFunctionOnSet(f, s) = f[x] + SumFunctionOnSet(f, s \ {x})
      <4>1. s \ {x} \in SUBSET S /\ Cardinality(s \ {x}) <= n
        <5>1. Cardinality(s \ {x}) = Cardinality(s) - 1
          BY <3>1, FS_RemoveElement
        <5>. QED BY <5>1, <2>1, <1>0
      <4>2. Good(s \ {x})
        BY <4>1, <1>2
      <4>3. p \in s \ {x} /\ x \in s \ {p} /\ (s \ {x}) \ {p} = (s \ {p}) \ {x}
        BY <3>1, <3>5
      <4>4. SumFunctionOnSet(f, s \ {p}) = f[x] + SumFunctionOnSet(f, (s \ {p}) \ {x})
        BY <4>3, <3>2
      <4>5. SumFunctionOnSet(f, s \ {x}) = f[p] + SumFunctionOnSet(f, (s \ {p}) \ {x})
        BY <4>3, <4>2
      <4>6. (s \ {p}) \ {x} \in SUBSET S /\ Cardinality((s \ {p}) \ {x}) <= n
        <5>1. /\ Cardinality((s \ {x}) \ {p}) = Cardinality(s \ {x}) - 1
              /\ Cardinality(s \ {x}) \in Nat
          BY <4>3, <4>1, <1>0, FS_RemoveElement
        <5>. QED BY <5>1, <4>1, <4>3
      <4>7. SumFunctionOnSet(f, (s \ {p}) \ {x}) \in Int /\ f[x] \in Int /\ f[p] \in Int
        BY <4>6, <1>2, <3>1, <3>5
      <4>. HIDE DEF p
      <4>. QED BY <3>3, <4>4, <4>5, <4>7
    <3>. QED BY <3>3, <3>4, <3>5
  <2>2. Good({})
    BY SumEmpty
  <2>. HIDE DEF Good
  <2>. QED BY <2>1, <2>2
<1>. HIDE DEF P
<1>3. Nat \subseteq P
  BY <1>1, <1>2, NatSetInduction
<1>4. Cardinality(S) \in P /\ S \in SUBSET S
  BY <1>3, <1>0
<1>. QED BY <1>4, <1>0 DEF P

\* The summands of e are those of f, but for x, which gained n.
Shifted(S, f, e, x, n) ==
    /\ IsFiniteSet(S) /\ x \in S /\ n \in Int
    /\ \A y \in S : f[y] \in Int /\ e[y] \in Int
    /\ \A y \in S : y # x => f[y] = e[y]
    /\ e[x] = f[x] + n

\* A sum moves by as much as the one summand that changes.
LEMMA SumShift ==
    ASSUME NEW S, NEW f, NEW e, NEW x, NEW n, Shifted(S, f, e, x, n)
    PROVE  SumFunctionOnSet(e, S) = SumFunctionOnSet(f, S) + n
<1>1. /\ IsFiniteSet(S) /\ x \in S /\ n \in Int /\ f[x] \in Int
      /\ \A y \in S : f[y] \in Int /\ e[y] \in Int
      /\ e[x] = f[x] + n
  BY DEF Shifted
<1>2. /\ SumFunctionOnSet(f, S) = f[x] + SumFunctionOnSet(f, S \ {x})
      /\ SumFunctionOnSet(e, S) = e[x] + SumFunctionOnSet(e, S \ {x})
  BY <1>1, SumRemove
<1>3. IsFiniteSet(S \ {x})
  BY <1>1, FS_RemoveElement
<1>4. SumFunctionOnSet(f, S \ {x}) = SumFunctionOnSet(e, S \ {x})
  <2>1. \A y \in S \ {x} : f[y] = e[y]
    BY DEF Shifted
  <2>. QED BY <2>1, <1>3, SumEqual
<1>5. SumFunctionOnSet(f, S \ {x}) \in Int
  BY <1>1, <1>3, SumRemove
<1>. QED BY <1>1, <1>2, <1>4, <1>5

\* A sum of nothing but zeros.
LEMMA SumZero ==
    ASSUME NEW S, IsFiniteSet(S), NEW f, \A x \in S : f[x] = 0
    PROVE  SumFunctionOnSet(f, S) = 0
<1> DEFINE P == {n \in Nat : \A s \in SUBSET S : Cardinality(s) <= n => SumFunctionOnSet(f, s) = 0}
<1>0. \A s \in SUBSET S : IsFiniteSet(s) /\ Cardinality(s) \in Nat
  BY FS_Subset, FS_CardinalityType
<1>1. 0 \in P
  BY <1>0, FS_EmptySet, SumEmpty
<1>2. ASSUME NEW n \in Nat, n \in P PROVE n + 1 \in P
  <2>1. ASSUME NEW s \in SUBSET S, Cardinality(s) <= n + 1, s # {}
        PROVE  SumFunctionOnSet(f, s) = 0
    <3>1. /\ Pick(s) \in S /\ s \ {Pick(s)} \in SUBSET S
          /\ Cardinality(s \ {Pick(s)}) <= n /\ IsFiniteSet(s)
      BY <2>1, <1>0, PickIn, PickLess
    <3>2. SumFunctionOnSet(f, s \ {Pick(s)}) = 0 /\ f[Pick(s)] = 0
      BY <3>1, <1>2
    <3>. QED BY <3>1, <3>2, <2>1, SumPick
  <2>. QED BY <2>1, SumEmpty
<1>. HIDE DEF P
<1>3. Nat \subseteq P
  BY <1>1, <1>2, NatSetInduction
<1>4. Cardinality(S) \in P /\ S \in SUBSET S
  BY <1>3, <1>0
<1>. QED BY <1>4, <1>0 DEF P
-----------------------------------------------------------------------------
(* The inductive invariant.                                                 *)

Counts == [Fields -> Nat]
Entries == [n : Counts, first_seen_ns : Nat]

NetTypeOK ==
    /\ now \in Nat /\ last_sample_ns \in Nat
    /\ since \in [host : Nat, process : Nat]
    /\ global_stats \in [Cpus -> [Protocols -> Counts]]
    /\ process_stats \in [ProcessKeys -> Entries \cup {None}]
    /\ peer_stats \in [PeerKeys -> Entries \cup {None}]
    /\ global_previous \in [Protocols -> Counts]
    /\ process_previous \in [ProcessKeys -> Entries \cup {None}]
    /\ peer_previous \in [PeerKeys -> Entries \cup {None}]
    /\ totals \in Counts
    /\ reported \in [host : [Protocols -> Counts], process : [ProcessKeys -> Counts],
                     peer : [PeerKeys -> Counts]]
    /\ truth \in [host : [Protocols -> Counts], process : [ProcessKeys -> Counts],
                  peer : [PeerKeys -> Counts]]

\* What was reported for a key, with what its entry still holds unreported, is
\* within what the key was charged.
Covered(Keys, map, prev, rep, tr) ==
    \A k \in Keys, f \in Fields :
        /\ rep[k][f] <= tr[k][f]
        /\ map[k] # None => rep[k][f] + delta(map[k], prev[k])[f] <= tr[k][f]

KeysInv ==
    /\ Covered(ProcessKeys, process_stats, process_previous, reported.process, truth.process)
    /\ Covered(PeerKeys, peer_stats, peer_previous, reported.peer, truth.peer)

\* The deltas were taken when the last sample was made, or later.
SinceInv ==
    /\ last_sample_ns <= since.host /\ last_sample_ns <= since.process
    /\ last_sample_ns <= now

\* The host's elements hold what the sockets moved; a sample reports them as far
\* as it has read them; nothing is counted that no counter shows.
HostInv ==
    "host" \in cfg.scopes =>
      \A proto \in Protocols, f \in Fields :
        /\ read_global(proto)[f] = truth.host[proto][f]
        /\ global_previous[proto][f] <= truth.host[proto][f]
        /\ reported.host[proto][f] = global_previous[proto][f]
        /\ totals[f] = global_previous["tcp"][f] + global_previous["udp"][f]
        /\ proto \notin cfg.protocols \/ f \notin samples_for(proto) => truth.host[proto][f] = 0
        /\ phase \in {"flushed", "flush_failed"} => global_previous[proto][f] = truth.host[proto][f]

NetInv == NetTypeOK /\ KeysInv /\ SinceInv /\ RateNotOverstated /\ HostInv

-----------------------------------------------------------------------------
(* The operators on counts.                                                 *)

LEMMA CountsFacts ==
    /\ NoCounts \in Counts
    /\ \A m \in Counts : \A S : update_stats(m, S) \in Counts
    /\ \A m, n \in Counts : accumulate(m, n) \in Counts /\ Sub(m, n) \in Counts
    /\ \A m, n \in Counts : \A proto : Emit(m, proto, n) \in Counts
<1>1. NoCounts \in Counts  BY DEF NoCounts, Counts
<1>2. \A m \in Counts : \A S : update_stats(m, S) \in Counts  BY DEF update_stats, Counts
<1>3. \A m, n \in Counts : accumulate(m, n) \in Counts  BY DEF accumulate, Counts
<1>4. \A m, n \in Counts : Sub(m, n) \in Counts  BY DEF Sub, Counts
<1>5. \A m, n \in Counts : \A proto : Emit(m, proto, n) \in Counts
  BY DEF Emit, Counts
<1>. QED  BY <1>1, <1>2, <1>3, <1>4, <1>5

LEMMA DeltaFacts ==
    ASSUME NEW s \in Entries, NEW p \in Entries \cup {None}
    PROVE  delta(s, p) \in Counts
  BY CountsFacts DEF delta, Entries

\* The element k of a table of counts is charged for fields.
Charges(K, tr, k, fields, ntr) ==
    /\ ntr \in [K -> Counts]
    /\ \A j \in K, f \in Fields :
          ntr[j][f] = tr[j][f] + (IF j = k /\ f \in fields THEN 1 ELSE 0)

LEMMA ChargesExcept ==
    ASSUME NEW K, NEW tr \in [K -> Counts], NEW k \in K, NEW fields
    PROVE  Charges(K, tr, k, fields, [tr EXCEPT ![k] = update_stats(tr[k], fields)])
<1>1. tr[k] \in Counts /\ update_stats(tr[k], fields) \in Counts
  BY CountsFacts
<1>2. \A j \in K, f \in Fields : tr[j][f] \in Nat
  BY DEF Counts
<1>3. PICK ntr : ntr = [tr EXCEPT ![k] = update_stats(tr[k], fields)]
  OBVIOUS
<1>4. ntr \in [K -> Counts]
  BY <1>1, <1>3
<1>5. ASSUME NEW j \in K, NEW f \in Fields
      PROVE  ntr[j][f] = tr[j][f] + (IF j = k /\ f \in fields THEN 1 ELSE 0)
  <2>1. CASE j = k
    <3>1. ntr[j] = update_stats(tr[j], fields)
      BY <2>1, <1>3
    <3>2. update_stats(tr[j], fields)[f] = IF f \in fields THEN tr[j][f] + 1 ELSE tr[j][f]
      BY DEF update_stats
    <3>. QED BY <2>1, <3>1, <3>2, <1>2
  <2>2. CASE j # k
    BY <2>2, <1>2, <1>3
  <2>. QED BY <2>1, <2>2
<1>6. Charges(K, tr, k, fields, ntr)
  BY <1>4, <1>5 DEF Charges
<1>. QED BY <1>3, <1>6

\* An entry that is updated or created gains no more than its key is charged.
LEMMA LruCovered ==
    ASSUME NEW Keys, NEW map \in [Keys -> Entries \cup {None}], NEW k \in Keys, NEW limit,
           NEW fields, NEW prev \in [Keys -> Entries \cup {None}],
           NEW rep \in [Keys -> Counts], NEW tr \in [Keys -> Counts],
           now \in Nat, Covered(Keys, map, prev, rep, tr),
           NEW new \in UpdateLru(map, k, limit, fields),
           NEW ntr, Charges(Keys, tr, k, fields, ntr)
    PROVE  /\ new \in [Keys -> Entries \cup {None}]
           /\ Covered(Keys, new, prev, rep, ntr)
<1> DEFINE made == [n |-> update_stats(NoCounts, fields), first_seen_ns |-> now]
           grown == [map EXCEPT ![k].n = update_stats(@, fields)]
<1>1. made \in Entries /\ map[k] \in Entries \cup {None}
  BY CountsFacts DEF Entries
<1>2. /\ \A f \in Fields : ntr[k][f] = update_stats(tr[k], fields)[f]
      /\ \A j \in Keys, f \in Fields : j # k => ntr[j][f] = tr[j][f]
      /\ \A j \in Keys : tr[j] \in Counts /\ rep[j] \in Counts
  BY DEF Charges, Counts, update_stats
<1>3. \A j \in Keys, f \in Fields : ntr[j][f] >= tr[j][f]
  <2>1. \A j \in Keys, f \in Fields : tr[j][f] \in Nat
    BY DEF Counts
  <2>. QED BY <2>1 DEF Charges
<1>4. \A j \in Keys, f \in Fields : rep[j][f] <= ntr[j][f]
  BY <1>2, <1>3, CountsFacts DEF Covered, Counts
<1>5. CASE map[k] # None
  <2>1. new = grown
    BY <1>5 DEF UpdateLru
  <2>2. map[k] \in Entries
    BY <1>1, <1>5
  <2>3. new[k] = [n |-> update_stats(map[k].n, fields), first_seen_ns |-> map[k].first_seen_ns]
    BY <2>1, <2>2 DEF Entries
  <2>4. new[k] \in Entries /\ (\A j \in Keys : j # k => new[j] = map[j]) /\ DOMAIN new = Keys
    BY <2>1, <2>2, <2>3, CountsFacts DEF Entries
  <2>5. new \in [Keys -> Entries \cup {None}]
    BY <2>1, <2>4
  <2>6. ASSUME NEW f \in Fields PROVE rep[k][f] + delta(new[k], prev[k])[f] <= ntr[k][f]
    <3>1. rep[k][f] + delta(map[k], prev[k])[f] <= tr[k][f]
      BY <1>5 DEF Covered
    <3>2. CASE prev[k] = None \/ prev[k].first_seen_ns # map[k].first_seen_ns
      <4>1. delta(new[k], prev[k])[f] = update_stats(map[k].n, fields)[f]
            /\ delta(map[k], prev[k])[f] = map[k].n[f]
        BY <3>2, <2>3 DEF delta
      <4>2. map[k].n[f] \in Nat /\ rep[k][f] \in Nat /\ tr[k][f] \in Nat
        BY <2>2, <1>2 DEF Entries, Counts
      <4>. QED BY <4>1, <4>2, <3>1, <1>2 DEF update_stats
    <3>3. CASE ~(prev[k] = None \/ prev[k].first_seen_ns # map[k].first_seen_ns)
      <4>1. delta(new[k], prev[k])[f] = Sub(update_stats(map[k].n, fields), prev[k].n)[f]
            /\ delta(map[k], prev[k])[f] = Sub(map[k].n, prev[k].n)[f]
        BY <3>3, <2>3 DEF delta
      <4>2. /\ map[k].n[f] \in Nat /\ rep[k][f] \in Nat /\ tr[k][f] \in Nat
            /\ prev[k].n[f] \in Nat
        BY <2>2, <1>2, <3>3 DEF Entries, Counts
      <4>. QED BY <4>1, <4>2, <3>1, <1>2 DEF update_stats, Sub
    <3>. QED BY <3>2, <3>3
  <2>7. Covered(Keys, new, prev, rep, ntr)
    BY <2>4, <2>6, <1>2, <1>4 DEF Covered
  <2>. QED BY <2>5, <2>7
<1>6. CASE map[k] = None
  <2>1. /\ DOMAIN new = Keys /\ (new[k] = made \/ new[k] = None)
        /\ \A j \in Keys : j # k => new[j] = map[j] \/ new[j] = None
    <3>1. CASE new = [map EXCEPT ![k] = made]
      BY <3>1
    <3>2. CASE \E v \in Used(map) : new = [map EXCEPT ![k] = made, ![v] = None]
      BY <3>2 DEF Used
    <3>. QED BY <3>1, <3>2, <1>6 DEF UpdateLru
  <2>2. new \in [Keys -> Entries \cup {None}]
    <3>1. \A j \in Keys : new[j] \in Entries \cup {None}
      BY <2>1, <1>1
    <3>2. new = [j \in Keys |-> new[j]]
      <4>1. CASE new = [map EXCEPT ![k] = made]
        BY <4>1
      <4>2. CASE \E v \in Used(map) : new = [map EXCEPT ![k] = made, ![v] = None]
        BY <4>2
      <4>. QED BY <4>1, <4>2, <1>6 DEF UpdateLru
    <3>. QED BY <3>1, <3>2
  <2>3. ASSUME NEW f \in Fields, new[k] = made
        PROVE  rep[k][f] + delta(new[k], prev[k])[f] <= ntr[k][f]
    <3>1. delta(made, prev[k])[f] = update_stats(NoCounts, fields)[f]
          \/ /\ delta(made, prev[k])[f] = Sub(update_stats(NoCounts, fields), prev[k].n)[f]
             /\ prev[k] \in Entries
      BY DEF delta
    <3>2. rep[k][f] <= tr[k][f] /\ rep[k][f] \in Nat /\ tr[k][f] \in Nat
      BY <1>2 DEF Covered, Counts
    <3>3. prev[k] \in Entries => prev[k].n[f] \in Nat
      BY DEF Entries, Counts
    <3>. HIDE DEF made
    <3>. QED BY <3>1, <3>2, <3>3, <2>3, <1>2 DEF update_stats, Sub, NoCounts
  <2>4. Covered(Keys, new, prev, rep, ntr)
    <3>1. ASSUME NEW j \in Keys, NEW f \in Fields, new[j] # None
          PROVE  rep[j][f] + delta(new[j], prev[j])[f] <= ntr[j][f]
      BY <2>1, <2>3, <3>1, <1>2 DEF Covered
    <3>. QED BY <3>1, <1>4 DEF Covered
  <2>. QED BY <2>2, <2>4
<1>. QED BY <1>5, <1>6

\* A sample credits a key with no more than its entry holds unreported, and then
\* takes the whole entry as reported.
Sampled(Keys, map, prev, nprev, rep, nrep, tr) ==
    /\ map \in [Keys -> Entries \cup {None}]
    /\ prev \in [Keys -> Entries \cup {None}] /\ nprev \in [Keys -> Entries \cup {None}]
    /\ rep \in [Keys -> Counts] /\ nrep \in [Keys -> Counts] /\ tr \in [Keys -> Counts]
    /\ Covered(Keys, map, prev, rep, tr)
    /\ \A k \in Keys : map[k] # None => nprev[k] = map[k]
    /\ \A k \in Keys : nrep[k] = rep[k] \/
          (map[k] # None /\ \E proto : nrep[k] = Emit(rep[k], proto, delta(map[k], prev[k])))

LEMMA SampleCovered ==
    ASSUME NEW Keys, NEW map, NEW prev, NEW nprev, NEW rep, NEW nrep, NEW tr,
           Sampled(Keys, map, prev, nprev, rep, nrep, tr)
    PROVE  Covered(Keys, map, nprev, nrep, tr)
<1>0. /\ map \in [Keys -> Entries \cup {None}]
      /\ prev \in [Keys -> Entries \cup {None}] /\ nprev \in [Keys -> Entries \cup {None}]
      /\ rep \in [Keys -> Counts] /\ nrep \in [Keys -> Counts] /\ tr \in [Keys -> Counts]
      /\ Covered(Keys, map, prev, rep, tr)
      /\ \A k \in Keys : map[k] # None => nprev[k] = map[k]
      /\ \A k \in Keys : nrep[k] = rep[k] \/
            (map[k] # None /\ \E proto : nrep[k] = Emit(rep[k], proto, delta(map[k], prev[k])))
  BY DEF Sampled
<1> USE <1>0
<1> SUFFICES ASSUME NEW k \in Keys, NEW f \in Fields
             PROVE  /\ nrep[k][f] <= tr[k][f]
                    /\ map[k] # None => nrep[k][f] + delta(map[k], nprev[k])[f] <= tr[k][f]
  BY DEF Covered
<1>1. rep[k][f] \in Nat /\ tr[k][f] \in Nat /\ rep[k][f] <= tr[k][f]
  BY DEF Covered, Counts
<1>2. ASSUME map[k] # None
      PROVE  delta(map[k], prev[k])[f] \in Nat /\ delta(map[k], nprev[k])[f] = 0
             /\ rep[k][f] + delta(map[k], prev[k])[f] <= tr[k][f]
  <2>1. map[k] \in Entries /\ nprev[k] = map[k] /\ map[k].n[f] \in Nat
    BY <1>2 DEF Entries, Counts
  <2>2. delta(map[k], nprev[k]) = Sub(map[k].n, map[k].n)
    BY <2>1, <1>2 DEF delta
  <2>3. delta(map[k], nprev[k])[f] = 0
    BY <2>1, <2>2 DEF Sub
  <2>4. delta(map[k], prev[k])[f] \in Nat
    BY <2>1, DeltaFacts DEF Counts
  <2>. QED BY <2>3, <2>4, <1>2 DEF Covered
<1>3. nrep[k][f] = rep[k][f] \/ (map[k] # None /\ nrep[k][f] = rep[k][f] + delta(map[k], prev[k])[f])
  BY DEF Emit
<1>. QED BY <1>1, <1>2, <1>3

\* What update_stats() counts, some counter shows.
LEMMA ChargedShown ==
    ASSUME NEW proto, NEW dir, NEW ret, NEW trunc
    PROVE  Charged(proto, dir, ret, trunc) \subseteq samples_for(proto)
<1> SUFFICES ASSUME NEW f \in Charged(proto, dir, ret, trunc) PROVE f \in samples_for(proto)
  OBVIOUS
<1>1. f \in Fields  BY DEF Charged
<1>2. \/ f[2] \in cfg.metrics
      \/ f[2] = "would_block" /\ "errors" \in cfg.metrics
      \/ f[2] = "tcp_eof" /\ "operations" \in cfg.metrics /\ proto = "tcp"
      \/ f[2] = "udp_truncated" /\ "operations" \in cfg.metrics /\ proto = "udp"
  BY DEF Charged
<1>. QED BY <1>1, <1>2 DEF samples_for

GlobalSum(gs, proto, f) == SumFunctionOnSet([c \in Cpus |-> gs[c][proto][f]], Cpus)

LEMMA ReadGlobal ==
    ASSUME NEW proto, NEW f \in Fields
    PROVE  read_global(proto)[f] = GlobalSum(global_stats, proto, f)
  BY Zenon DEF read_global, GlobalSum

\* The elements of one field moved by n on one processor.
Moved(gs, ngs, cpu, q, f, n) ==
    /\ cpu \in Cpus /\ n \in Int
    /\ \A c \in Cpus : gs[c][q][f] \in Int
    /\ ngs[cpu][q][f] = gs[cpu][q][f] + n
    /\ \A c \in Cpus : c # cpu => ngs[c][q][f] = gs[c][q][f]

\* Charging one processor's element adds as much to the sum.
LEMMA GlobalCharged ==
    ASSUME NEW gs, NEW ngs, NEW cpu, NEW q, NEW f, NEW n, Moved(gs, ngs, cpu, q, f, n)
    PROVE  GlobalSum(ngs, q, f) = GlobalSum(gs, q, f) + n
<1> DEFINE a == [c \in Cpus |-> gs[c][q][f]]
           b == [c \in Cpus |-> ngs[c][q][f]]
<1>1. \A c \in Cpus : a[c] \in Int /\ b[c] \in Int
  BY DEF Moved
<1>2. (\A c \in Cpus : c # cpu => a[c] = b[c]) /\ b[cpu] = a[cpu] + n
  BY DEF Moved
<1>3. GlobalSum(ngs, q, f) = SumFunctionOnSet(b, Cpus) /\ GlobalSum(gs, q, f) = SumFunctionOnSet(a, Cpus)
  BY DEF GlobalSum
<1>. HIDE DEF a, b
<1>4. IsFiniteSet(Cpus) /\ cpu \in Cpus /\ n \in Int
  BY NetAssumption DEF Moved
<1>5. Shifted(Cpus, a, b, cpu, n)
  BY <1>1, <1>2, <1>4 DEF Shifted
<1>6. SumFunctionOnSet(b, Cpus) = SumFunctionOnSet(a, Cpus) + n
  BY <1>5, SumShift
<1>. QED BY <1>3, <1>6

-----------------------------------------------------------------------------
(* The steps.                                                               *)

LEMMA InitNet == Init => NetInv
<1> SUFFICES ASSUME Init PROVE NetInv
  OBVIOUS
<1>1. NoCounts \in Counts /\ \A f \in Fields : NoCounts[f] = 0
  BY CountsFacts DEF NoCounts
<1>2. NetTypeOK
  BY <1>1 DEF Init, NetTypeOK
<1>3. KeysInv
  BY <1>1 DEF Init, KeysInv, Covered
<1>4. SinceInv /\ RateNotOverstated
  BY DEF Init, SinceInv, RateNotOverstated
<1>5. \A proto \in Protocols, f \in Fields : read_global(proto)[f] = 0
  <2> TAKE proto \in Protocols, f \in Fields
  <2>1. \A c \in Cpus : [d \in Cpus |-> global_stats[d][proto][f]][c] = 0
    BY <1>1 DEF Init
  <2>2. SumFunctionOnSet([d \in Cpus |-> global_stats[d][proto][f]], Cpus) = 0
    BY <2>1, SumZero, NetAssumption
  <2>. QED BY <2>2, ReadGlobal DEF GlobalSum
<1>6. HostInv
  BY <1>1, <1>5 DEF Init, HostInv, Protocols
<1>. QED BY <1>2, <1>3, <1>4, <1>6 DEF NetInv

\* read_global() at the host's protocols, as long as its elements stay as they are.
LEMMA ReadSame == UNCHANGED <<global_stats>> => \A q : read_global(q)' = read_global(q)
  BY DEF read_global

LEMMA SamplesSame == UNCHANGED cfg => \A q : samples_for(q)' = samples_for(q)
  BY DEF samples_for

\* What a socket call charges, to the host, to the process and to the peer.
LEMMA SocketCallNet ==
    ASSUME NetInv, SocketCall
    PROVE  NetInv'
<1>1. PICK cpu \in Cpus, p \in Procs, k \in CallKinds, a \in Remotes \cup {None} :
        account_socket_io(cpu, p, k.proto, k.dir, k.ret, k.trunc, a)
  BY DEF SocketCall
<1>a. PICK proto : proto = k.proto
  OBVIOUS
<1>b. PICK fields : fields = Charged(proto, k.dir, k.ret, k.trunc)
  OBVIOUS
<1>c. PICK key : key = <<p, proto>>
  OBVIOUS
<1>d. PICK pkey : pkey = <<p, proto, a>>
  OBVIOUS
<1> DEFINE skipped == k.dir \notin cfg.directions \/ proto \notin cfg.protocols \/ ~should_track_tgid(p)
<1>2. /\ UNCHANGED <<phase, cfg, now, last_sample_ns, since, spans, global_previous,
                     process_previous, peer_previous, reported, totals>>
      /\ phase = "running"
  BY DEF SocketCall, config, sampler
<1>3. /\ proto \in Protocols /\ key \in ProcessKeys
      /\ a # None => pkey \in PeerKeys
  BY <1>a, <1>c, <1>d, NetAssumption DEF Protocols, ProcessKeys, PeerKeys
<1>4. NetTypeOK /\ KeysInv /\ SinceInv /\ RateNotOverstated /\ HostInv
  BY DEF NetInv
<1>5. SinceInv' /\ RateNotOverstated'
  BY <1>2, <1>4 DEF SinceInv, RateNotOverstated
<1>6. CASE skipped
  <2>1. UNCHANGED <<global_stats, process_stats, peer_stats, truth>>
    BY <1>1, <1>a, <1>6 DEF account_socket_io, kernel
  <2>2. NetTypeOK'
    BY <2>1, <1>2, <1>4 DEF NetTypeOK
  <2>3. KeysInv'
    BY <2>1, <1>2, <1>4 DEF KeysInv
  <2>4. HostInv'
    BY <2>1, <1>2, <1>4, ReadSame, SamplesSame DEF HostInv
  <2>. QED BY <2>2, <2>3, <2>4, <1>5 DEF NetInv
<1>7. CASE ~skipped
  <2>1. /\ global_stats' = IF "host" \notin cfg.scopes THEN global_stats
                           ELSE [global_stats EXCEPT ![cpu][proto] = update_stats(@, fields)]
        /\ update_process_stats(p, proto, fields)
        /\ update_peer_stats(p, proto, a, fields)
        /\ truth' = [host |-> [truth.host EXCEPT ![proto] = update_stats(@, fields)],
                     process |-> [truth.process EXCEPT ![key] = update_stats(@, fields)],
                     peer |-> IF a = None THEN truth.peer
                              ELSE [truth.peer EXCEPT ![pkey] = update_stats(@, fields)]]
    BY <1>1, <1>a, <1>b, <1>c, <1>d, <1>7 DEF account_socket_io
  <2>2. truth \in [host : [Protocols -> Counts], process : [ProcessKeys -> Counts],
                  peer : [PeerKeys -> Counts]]
    BY <1>4 DEF NetTypeOK
  <2>3. /\ truth'.host = [truth.host EXCEPT ![proto] = update_stats(truth.host[proto], fields)]
        /\ truth'.process = [truth.process EXCEPT ![key] = update_stats(truth.process[key], fields)]
        /\ a = None => truth'.peer = truth.peer
        /\ a # None => truth'.peer = [truth.peer EXCEPT ![pkey] = update_stats(truth.peer[pkey], fields)]
        /\ truth' = [host |-> truth'.host, process |-> truth'.process, peer |-> truth'.peer]
    BY <2>1
  <2>4. /\ truth.host \in [Protocols -> Counts] /\ truth.process \in [ProcessKeys -> Counts]
        /\ truth.peer \in [PeerKeys -> Counts]
    BY <2>2
  <2>5. /\ Charges(Protocols, truth.host, proto, fields, truth'.host)
        /\ Charges(ProcessKeys, truth.process, key, fields, truth'.process)
        /\ a # None => Charges(PeerKeys, truth.peer, pkey, fields, truth'.peer)
    <3>1. Charges(Protocols, truth.host, proto, fields,
                  [truth.host EXCEPT ![proto] = update_stats(truth.host[proto], fields)])
      BY <2>4, <1>3, ChargesExcept, Zenon
    <3>2. Charges(ProcessKeys, truth.process, key, fields,
                  [truth.process EXCEPT ![key] = update_stats(truth.process[key], fields)])
      BY <2>4, <1>3, ChargesExcept, Zenon
    <3>3. a # None => Charges(PeerKeys, truth.peer, pkey, fields,
                  [truth.peer EXCEPT ![pkey] = update_stats(truth.peer[pkey], fields)])
      BY <2>4, <1>3, ChargesExcept, Zenon
    <3>. QED BY <2>3, <3>1, <3>2, <3>3, Zenon
  <2>6. truth' \in [host : [Protocols -> Counts], process : [ProcessKeys -> Counts],
                    peer : [PeerKeys -> Counts]]
    <3>1. /\ truth'.host \in [Protocols -> Counts] /\ truth'.process \in [ProcessKeys -> Counts]
          /\ truth'.peer \in [PeerKeys -> Counts]
      <4>1. CASE a = None
        BY <4>1, <2>3, <2>4, <2>5 DEF Charges
      <4>2. CASE a # None
        BY <4>2, <2>5 DEF Charges
      <4>. QED BY <4>1, <4>2
    <3>2. PICK h, pr, pe : h = truth'.host /\ pr = truth'.process /\ pe = truth'.peer
      OBVIOUS
    <3>3. truth' = [host |-> h, process |-> pr, peer |-> pe]
      BY <2>3, <3>2
    <3>. QED BY <3>1, <3>2, <3>3
  <2>7. /\ process_stats' \in [ProcessKeys -> Entries \cup {None}]
        /\ Covered(ProcessKeys, process_stats', process_previous, reported.process, truth'.process)
    <3>1. /\ process_stats \in [ProcessKeys -> Entries \cup {None}]
          /\ process_previous \in [ProcessKeys -> Entries \cup {None}]
          /\ reported.process \in [ProcessKeys -> Counts] /\ now \in Nat
          /\ Covered(ProcessKeys, process_stats, process_previous, reported.process, truth.process)
      BY <1>4 DEF NetTypeOK, KeysInv
    <3>2. CASE "process" \in cfg.scopes
      <4>1. process_stats' \in UpdateLru(process_stats, key, cfg.max_process_entries, fields)
        BY <2>1, <1>c, <3>2 DEF update_process_stats
      <4>2. PICK new : new = process_stats'
        OBVIOUS
      <4>3. PICK ntr : ntr = truth'.process
        OBVIOUS
      <4>4. /\ new \in [ProcessKeys -> Entries \cup {None}]
            /\ Covered(ProcessKeys, new, process_previous, reported.process, ntr)
        BY <4>1, <4>2, <4>3, <3>1, <3>2, <1>3, <2>4, <2>5, LruCovered
      <4>. QED BY <4>2, <4>3, <4>4
    <3>3. CASE "process" \notin cfg.scopes
      <4>1. process_stats' = process_stats
        BY <2>1, <3>3 DEF update_process_stats
      <4>2. \A j \in ProcessKeys, f \in Fields :
              /\ truth.process[j][f] <= truth'.process[j][f] /\ truth'.process[j][f] \in Nat
              /\ truth.process[j][f] \in Nat /\ reported.process[j][f] \in Nat
        <5>1. \A j \in ProcessKeys, f \in Fields : reported.process[j][f] \in Nat
          BY <3>1 DEF Counts
        <5>2. \A j \in ProcessKeys, f \in Fields : truth.process[j][f] \in Nat
          BY <2>4 DEF Counts
        <5>. QED BY <5>1, <5>2, <2>5 DEF Charges
      <4>3. \A j \in ProcessKeys, f \in Fields : process_stats[j] # None =>
              delta(process_stats[j], process_previous[j])[f] \in Nat
        BY <3>1, DeltaFacts DEF Counts
      <4>. QED BY <4>1, <4>2, <4>3, <3>1 DEF Covered
    <3>. QED BY <3>2, <3>3
  <2>8. /\ peer_stats' \in [PeerKeys -> Entries \cup {None}]
        /\ Covered(PeerKeys, peer_stats', peer_previous, reported.peer, truth'.peer)
    <3>1. /\ peer_stats \in [PeerKeys -> Entries \cup {None}]
          /\ peer_previous \in [PeerKeys -> Entries \cup {None}]
          /\ reported.peer \in [PeerKeys -> Counts] /\ now \in Nat
          /\ Covered(PeerKeys, peer_stats, peer_previous, reported.peer, truth.peer)
      BY <1>4 DEF NetTypeOK, KeysInv
    <3>2. CASE "peer" \in cfg.scopes /\ a # None
      <4>0. pkey \in PeerKeys
        BY <1>3, <3>2
      <4>1. peer_stats' \in UpdateLru(peer_stats, pkey, cfg.max_peer_entries, fields)
        BY <2>1, <1>d, <3>2 DEF update_peer_stats
      <4>2. PICK new : new = peer_stats'
        OBVIOUS
      <4>3. PICK ntr : ntr = truth'.peer
        OBVIOUS
      <4>4. /\ new \in [PeerKeys -> Entries \cup {None}]
            /\ Covered(PeerKeys, new, peer_previous, reported.peer, ntr)
        BY <4>0, <4>1, <4>2, <4>3, <3>1, <3>2, <1>3, <2>4, <2>5, LruCovered
      <4>. QED BY <4>2, <4>3, <4>4
    <3>3. CASE ~("peer" \in cfg.scopes /\ a # None)
      <4>1. peer_stats' = peer_stats
        BY <2>1, <3>3 DEF update_peer_stats
      <4>2. \A j \in PeerKeys, f \in Fields :
              /\ truth.peer[j][f] <= truth'.peer[j][f] /\ truth'.peer[j][f] \in Nat
              /\ truth.peer[j][f] \in Nat /\ reported.peer[j][f] \in Nat
        <5>1. \A j \in PeerKeys, f \in Fields : reported.peer[j][f] \in Nat /\ truth.peer[j][f] \in Nat
          BY <3>1, <2>4 DEF Counts
        <5>2. CASE a = None
          BY <5>1, <5>2, <2>3
        <5>3. CASE a # None
          BY <5>1, <5>3, <2>5 DEF Charges
        <5>. QED BY <5>2, <5>3
      <4>3. \A j \in PeerKeys, f \in Fields : peer_stats[j] # None =>
              delta(peer_stats[j], peer_previous[j])[f] \in Nat
        BY <3>1, DeltaFacts DEF Counts
      <4>. QED BY <4>1, <4>2, <4>3, <3>1 DEF Covered
    <3>. QED BY <3>2, <3>3
  <2>9. global_stats' \in [Cpus -> [Protocols -> Counts]]
    <3>1. global_stats \in [Cpus -> [Protocols -> Counts]]
      BY <1>4 DEF NetTypeOK
    <3>2. update_stats(global_stats[cpu][proto], fields) \in Counts
      BY <3>1, <1>3, CountsFacts
    <3>. QED BY <3>1, <3>2, <2>1, <1>3
  <2>10. NetTypeOK'
    BY <2>6, <2>7, <2>8, <2>9, <1>2, <1>4 DEF NetTypeOK
  <2>11. KeysInv'
    BY <2>7, <2>8, <1>2 DEF KeysInv
  <2>12. HostInv'
    <3> SUFFICES ASSUME "host" \in cfg.scopes, NEW q \in Protocols, NEW f \in Fields
                 PROVE  /\ read_global(q)'[f] = truth'.host[q][f]
                        /\ global_previous[q][f] <= truth'.host[q][f]
                        /\ reported.host[q][f] = global_previous[q][f]
                        /\ totals[f] = global_previous["tcp"][f] + global_previous["udp"][f]
                        /\ q \notin cfg.protocols \/ f \notin samples_for(q) => truth'.host[q][f] = 0
      BY <1>2, SamplesSame DEF HostInv
    <3>1. /\ read_global(q)[f] = truth.host[q][f]
          /\ global_previous[q][f] <= truth.host[q][f]
          /\ reported.host[q][f] = global_previous[q][f]
          /\ totals[f] = global_previous["tcp"][f] + global_previous["udp"][f]
          /\ q \notin cfg.protocols \/ f \notin samples_for(q) => truth.host[q][f] = 0
      BY <1>4 DEF HostInv
    <3>2. truth.host[q][f] \in Nat /\ global_previous[q][f] \in Nat
      BY <1>4, <2>4 DEF NetTypeOK, Counts
    <3>3. truth'.host[q][f] = truth.host[q][f] + (IF q = proto /\ f \in fields THEN 1 ELSE 0)
      BY <2>5 DEF Charges
    <3>4. q = proto /\ f \in fields => q \in cfg.protocols /\ f \in samples_for(q)
      BY <1>7, <1>b, ChargedShown
    <3>5. read_global(q)'[f] = truth'.host[q][f]
      <4>1. PICK ngs : ngs = global_stats'
        OBVIOUS
      <4>2. global_stats \in [Cpus -> [Protocols -> Counts]]
        BY <1>4 DEF NetTypeOK
      <4>3. /\ \A c \in Cpus : global_stats[c][q][f] \in Nat
            /\ \A c \in Cpus : c # cpu => ngs[c][q][f] = global_stats[c][q][f]
            /\ ngs[cpu][q][f] = global_stats[cpu][q][f] + (IF q = proto /\ f \in fields THEN 1 ELSE 0)
        <5>1. \A c \in Cpus : global_stats[c][q][f] \in Nat
          BY <4>2 DEF Counts
        <5>2. ngs = [global_stats EXCEPT ![cpu] = [global_stats[cpu] EXCEPT
                       ![proto] = update_stats(global_stats[cpu][proto], fields)]]
          BY <4>1, <2>1
        <5>3. \A c \in Cpus : c # cpu => ngs[c] = global_stats[c]
          BY <5>2, <4>2
        <5>4. PICK row : row = ngs[cpu]
          OBVIOUS
        <5>5. row = [global_stats[cpu] EXCEPT ![proto] = update_stats(global_stats[cpu][proto], fields)]
          BY <5>2, <5>4, <4>2
        <5>6. row[q][f] = global_stats[cpu][q][f] + (IF q = proto /\ f \in fields THEN 1 ELSE 0)
          <6>1. Charges(Protocols, global_stats[cpu], proto, fields, row)
            BY <5>5, <4>2, <1>3, ChargesExcept, Zenon
          <6>. QED BY <6>1 DEF Charges
        <5>. QED BY <5>1, <5>3, <5>4, <5>6
      <4>4. GlobalSum(ngs, q, f)
               = GlobalSum(global_stats, q, f) + (IF q = proto /\ f \in fields THEN 1 ELSE 0)
        <5>1. PICK n \in Int : n = IF q = proto /\ f \in fields THEN 1 ELSE 0
          OBVIOUS
        <5>2. (\A c \in Cpus : global_stats[c][q][f] \in Int) /\ ngs[cpu][q][f] = global_stats[cpu][q][f] + n
          BY <4>3, <5>1
        <5>3. Moved(global_stats, ngs, cpu, q, f, n)
          BY <5>1, <5>2, <4>3 DEF Moved
        <5>. QED BY <5>1, <5>3, GlobalCharged
      <4>5. read_global(q)'[f] = GlobalSum(ngs, q, f)
        <5>1. read_global(q)'[f] = SumFunctionOnSet([c \in Cpus |-> global_stats'[c][q][f]], Cpus)
          BY Zenon DEF read_global
        <5>. QED BY <5>1, <4>1 DEF GlobalSum
      <4>6. read_global(q)[f] = GlobalSum(global_stats, q, f)
        BY ReadGlobal
      <4>. QED BY <4>4, <4>5, <4>6, <3>1, <3>3
    <3>. QED BY <3>1, <3>2, <3>3, <3>4, <3>5
  <2>. QED BY <2>10, <2>11, <2>12, <1>5 DEF NetInv
<1>. QED BY <1>6, <1>7

\* In the host's scope the delta of a sample is what was not yet reported.
LEMMA HostDeltaIs ==
    ASSUME NetTypeOK, HostInv, "host" \in cfg.scopes, NEW q \in Protocols, NEW f \in Fields
    PROVE  /\ HostDelta(q)[f] = truth.host[q][f] - global_previous[q][f]
           /\ ReportedHost[q][f] = truth.host[q][f]
           /\ HostDelta(q) \in Counts
           /\ q \in cfg.protocols => read_global(q) \in Counts
<1>1. \A g \in Fields :
        /\ read_global(q)[g] = truth.host[q][g] /\ truth.host[q][g] \in Nat
        /\ global_previous[q][g] \in Nat /\ reported.host[q][g] \in Nat
        /\ global_previous[q][g] <= truth.host[q][g] /\ reported.host[q][g] = global_previous[q][g]
        /\ q \notin cfg.protocols \/ g \notin samples_for(q) => truth.host[q][g] = 0
  BY DEF HostInv, NetTypeOK, Counts
<1>2. read_global(q) \in Counts
  <2>1. read_global(q) = [g \in Fields |-> read_global(q)[g]]
    BY Zenon DEF read_global
  <2>2. \A g \in Fields : read_global(q)[g] \in Nat
    BY <1>1
  <2>. QED BY <2>1, <2>2 DEF Counts
<1>3. HostDelta(q) \in Counts
  BY <1>2, CountsFacts DEF HostDelta, NetTypeOK
<1>4. HostDelta(q)[f] = truth.host[q][f] - global_previous[q][f]
  <2>1. CASE q \in cfg.protocols
    <3>1. HostDelta(q) = Sub(read_global(q), global_previous[q])
      BY <2>1 DEF HostDelta
    <3>. QED BY <3>1, <1>1 DEF Sub
  <2>2. CASE q \notin cfg.protocols
    <3>1. HostDelta(q) = NoCounts
      BY <2>2 DEF HostDelta
    <3>. QED BY <3>1, <2>2, <1>1 DEF NoCounts
  <2>. QED BY <2>1, <2>2
<1>5. ReportedHost[q] = Emit(reported.host[q], q, HostDelta(q))
  BY DEF ReportedHost
<1>6. ReportedHost[q][f] = IF f \in samples_for(q) THEN reported.host[q][f] + HostDelta(q)[f]
                           ELSE reported.host[q][f]
  BY <1>5 DEF Emit
<1>7. ReportedHost[q][f] = truth.host[q][f]
  BY <1>1, <1>4, <1>6
<1>. QED BY <1>2, <1>3, <1>4, <1>7

\* HostDelta() is a table of counts whatever the scopes are.
LEMMA HostDeltaType ==
    ASSUME NetTypeOK, HostInv, NEW q \in Protocols
    PROVE  HostDelta(q) \in Counts /\ ReportedHost[q] \in Counts
<1>1. HostDelta(q) \in Counts
  <2>1. CASE "host" \in cfg.scopes
    <3>1. <<"send", "bytes">> \in Fields
      BY DEF Fields, Directions
    <3>. QED BY <2>1, <3>1, HostDeltaIs
  <2>2. CASE "host" \notin cfg.scopes
    BY <2>2, CountsFacts DEF HostDelta
  <2>. QED BY <2>1, <2>2
<1>2. ReportedHost[q] = Emit(reported.host[q], q, HostDelta(q)) /\ reported.host[q] \in Counts
  BY DEF ReportedHost, NetTypeOK
<1>. QED BY <1>1, <1>2, CountsFacts

\* sample_if_due(), called by consume() and by flush().
LEMMA SampleNet ==
    ASSUME NetInv, NEW force \in BOOLEAN, phase = "running", sample_if_due(force),
           UNCHANGED <<cfg, now, kernel, truth>>
    PROVE  NetInv'
<1>1. NetTypeOK /\ KeysInv /\ SinceInv /\ RateNotOverstated /\ HostInv
  BY DEF NetInv
<1>2. UNCHANGED <<cfg, now, global_stats, process_stats, peer_stats, truth>>
  BY DEF kernel
<1>3. PICK due \in BOOLEAN : due = (force \/ now - last_sample_ns >= Interval)
  OBVIOUS
<1>4. PICK peerdue \in BOOLEAN :
        peerdue = ("peer" \in cfg.scopes /\ (force \/ now - last_peer_sample_ns >= PeerInterval))
  OBVIOUS
<1> DEFINE Rep(fails) == [reported EXCEPT !.host = IF due THEN ReportedHost ELSE @,
                                          !.process = IF due /\ ~fails THEN ReportedProcess ELSE @]
<1>5. PICK fails \in BOOLEAN :
        /\ IF due THEN sample_host_and_processes(fails)
           ELSE UNCHANGED <<last_sample_ns, global_previous, process_previous, totals, since, spans>>
        /\ IF peerdue /\ ~fails THEN sample_peers(Rep(fails))
           ELSE /\ reported' = Rep(fails)
                /\ UNCHANGED <<last_peer_sample_ns, peer_previous, peer_track_ids>>
        /\ phase' = IF ~force THEN phase ELSE IF fails THEN "flush_failed" ELSE "flushed"
  BY <1>3, <1>4, Zenon DEF sample_if_due
<1>6. PICK rep : rep = Rep(fails)
  OBVIOUS
<1>7. /\ reported \in [host : [Protocols -> Counts], process : [ProcessKeys -> Counts],
                       peer : [PeerKeys -> Counts]]
      /\ rep = [host |-> IF due THEN ReportedHost ELSE reported.host,
                process |-> IF due /\ ~fails THEN ReportedProcess ELSE reported.process,
                peer |-> reported.peer]
  <2>1. reported \in [host : [Protocols -> Counts], process : [ProcessKeys -> Counts],
                      peer : [PeerKeys -> Counts]]
    BY <1>1 DEF NetTypeOK
  <2>2. PICK rh, rp : rh = ReportedHost /\ rp = ReportedProcess
    OBVIOUS
  <2>3. rep = [reported EXCEPT !.host = IF due THEN rh ELSE @,
                               !.process = IF due /\ ~fails THEN rp ELSE @]
    BY <1>6, <2>2
  <2>4. rep = [host |-> IF due THEN rh ELSE reported.host,
               process |-> IF due /\ ~fails THEN rp ELSE reported.process,
               peer |-> reported.peer]
    BY <2>1, <2>3
  <2>. QED BY <2>1, <2>2, <2>4
<1> HIDE DEF Rep
<1>8. /\ rep.host = IF due THEN ReportedHost ELSE reported.host
      /\ rep.process = IF due /\ ~fails THEN ReportedProcess ELSE reported.process
      /\ rep.peer = reported.peer
  BY <1>7
<1>9. /\ reported.host \in [Protocols -> Counts] /\ reported.process \in [ProcessKeys -> Counts]
      /\ reported.peer \in [PeerKeys -> Counts]
  BY <1>7
<1>10. ReportedHost \in [Protocols -> Counts]
  <2>1. \A q \in Protocols : ReportedHost[q] \in Counts
    BY <1>1, HostDeltaType
  <2>2. ReportedHost = [q \in Protocols |-> ReportedHost[q]]
    BY DEF ReportedHost
  <2>. QED BY <2>1, <2>2
<1>11. /\ process_stats \in [ProcessKeys -> Entries \cup {None}]
       /\ process_previous \in [ProcessKeys -> Entries \cup {None}]
       /\ peer_stats \in [PeerKeys -> Entries \cup {None}]
       /\ peer_previous \in [PeerKeys -> Entries \cup {None}]
  BY <1>1 DEF NetTypeOK
<1>12. /\ ReportedProcess \in [ProcessKeys -> Counts]
       /\ \A k \in ProcessKeys : ReportedProcess[k] = reported.process[k] \/
            (process_stats[k] # None /\ \E proto : ReportedProcess[k]
                = Emit(reported.process[k], proto, delta(process_stats[k], process_previous[k])))
  <2>1. \A k \in ProcessKeys : ReportedProcess[k] =
          IF "process" \in cfg.scopes /\ process_stats[k] # None
          THEN Emit(reported.process[k], k[2], delta(process_stats[k], process_previous[k]))
          ELSE reported.process[k]
    BY DEF ReportedProcess
  <2>2. \A k \in ProcessKeys : ReportedProcess[k] \in Counts
    BY <2>1, <1>9, <1>11, CountsFacts, DeltaFacts
  <2>3. ReportedProcess = [k \in ProcessKeys |-> ReportedProcess[k]]
    BY DEF ReportedProcess
  <2>. QED BY <2>1, <2>2, <2>3
<1>13. /\ process_previous' \in [ProcessKeys -> Entries \cup {None}]
       /\ rep.process \in [ProcessKeys -> Counts]
       /\ Covered(ProcessKeys, process_stats, process_previous', rep.process, truth.process)
  <2>1. truth.process \in [ProcessKeys -> Counts]
        /\ Covered(ProcessKeys, process_stats, process_previous, reported.process, truth.process)
    BY <1>1 DEF NetTypeOK, KeysInv
  <2>2. CASE due /\ ~fails /\ "process" \in cfg.scopes
    <3>1. process_previous' = [k \in ProcessKeys |-> IF process_stats[k] # None THEN process_stats[k]
                                                    ELSE process_previous[k]]
      BY <2>2, <1>5 DEF sample_host_and_processes, sample_processes
    <3>2. PICK nprev : nprev = process_previous'
      OBVIOUS
    <3>3. nprev \in [ProcessKeys -> Entries \cup {None}]
          /\ \A k \in ProcessKeys : process_stats[k] # None => nprev[k] = process_stats[k]
      BY <3>1, <3>2, <1>11
    <3>4. rep.process = ReportedProcess
      BY <2>2, <1>8
    <3>5. PICK nrep : nrep = ReportedProcess
      OBVIOUS
    <3>6. Covered(ProcessKeys, process_stats, nprev, nrep, truth.process)
      <4>1. PICK rp, tp : rp = reported.process /\ tp = truth.process
        OBVIOUS
      <4>2. /\ rp \in [ProcessKeys -> Counts] /\ nrep \in [ProcessKeys -> Counts]
            /\ tp \in [ProcessKeys -> Counts]
            /\ Covered(ProcessKeys, process_stats, process_previous, rp, tp)
            /\ \A k \in ProcessKeys : nrep[k] = rp[k] \/
                 (process_stats[k] # None /\ \E proto : nrep[k]
                    = Emit(rp[k], proto, delta(process_stats[k], process_previous[k])))
        BY <4>1, <2>1, <3>5, <1>9, <1>12
      <4>3. Covered(ProcessKeys, process_stats, nprev, nrep, tp)
        <5>1. Sampled(ProcessKeys, process_stats, process_previous, nprev, rp, nrep, tp)
          BY <4>2, <3>3, <1>11 DEF Sampled
        <5>. QED BY <5>1, SampleCovered
      <4>. QED BY <4>1, <4>3
    <3>. QED BY <3>2, <3>3, <3>4, <3>5, <3>6, <1>12
  <2>3. CASE ~(due /\ ~fails /\ "process" \in cfg.scopes)
    <3>1. process_previous' = process_previous
      BY <2>3, <1>5 DEF sample_host_and_processes, sample_processes
    <3>2. rep.process = reported.process
      <4>1. CASE due /\ ~fails
        <5>1. ReportedProcess = [k \in ProcessKeys |-> reported.process[k]]
          BY <4>1, <2>3 DEF ReportedProcess
        <5>. QED BY <4>1, <5>1, <1>8, <1>9
      <4>2. CASE ~(due /\ ~fails)
        BY <4>2, <1>8
      <4>. QED BY <4>1, <4>2
    <3>. QED BY <3>1, <3>2, <2>1, <1>9, <1>11
  <2>. QED BY <2>2, <2>3
<1>14. /\ reported'.host = rep.host /\ reported'.process = rep.process
       /\ reported' = [host |-> rep.host, process |-> rep.process, peer |-> reported'.peer]
       /\ reported'.peer \in [PeerKeys -> Counts]
       /\ peer_previous' \in [PeerKeys -> Entries \cup {None}]
       /\ Covered(PeerKeys, peer_stats, peer_previous', reported'.peer, truth.peer)
  <2>1. truth.peer \in [PeerKeys -> Counts]
        /\ Covered(PeerKeys, peer_stats, peer_previous, reported.peer, truth.peer)
    BY <1>1 DEF NetTypeOK, KeysInv
  <2>2. PICK rh, rp : rh = rep.host /\ rp = rep.process /\ rep = [host |-> rh, process |-> rp, peer |-> reported.peer]
    BY <1>7
  <2>3. CASE peerdue /\ ~fails
    <3>1. sample_peers(rep)
      BY <2>3, <1>5, <1>6
    <3>2. PICK nrep : nrep = [k \in PeerKeys |->
              IF k \in Used(peer_stats) /\ k \in peer_track_ids'
              THEN Emit(rep.peer[k], k[2], delta(peer_stats[k], peer_previous[k]))
              ELSE rep.peer[k]]
      OBVIOUS
    <3>3. /\ peer_previous' = [k \in PeerKeys |-> IF k \in Used(peer_stats) THEN peer_stats[k]
                                                 ELSE peer_previous[k]]
          /\ reported' = [rep EXCEPT !.peer = nrep]
      BY <3>1, <3>2 DEF sample_peers
    <3>4. reported' = [host |-> rh, process |-> rp, peer |-> nrep]
      BY <3>3, <2>2
    <3>5. reported'.host = rh /\ reported'.process = rp /\ reported'.peer = nrep
      BY <3>4
    <3>6. PICK nprev : nprev = peer_previous'
      OBVIOUS
    <3>7. /\ nprev \in [PeerKeys -> Entries \cup {None}]
          /\ \A k \in PeerKeys : peer_stats[k] # None => nprev[k] = peer_stats[k]
      <4>1. \A k \in PeerKeys : k \in Used(peer_stats) <=> peer_stats[k] # None
        BY <1>11 DEF Used
      <4>. QED BY <3>3, <3>6, <1>11, <4>1
    <3>8. \A k \in PeerKeys : nrep[k] = reported.peer[k] \/
            (peer_stats[k] # None /\ \E proto : nrep[k]
                = Emit(reported.peer[k], proto, delta(peer_stats[k], peer_previous[k])))
      BY <3>2, <1>8 DEF Used
    <3>9. nrep \in [PeerKeys -> Counts]
      <4>1. \A k \in PeerKeys : nrep[k] \in Counts
        BY <3>8, <1>9, <1>11, CountsFacts, DeltaFacts
      <4>2. nrep = [k \in PeerKeys |-> nrep[k]]
        BY <3>2
      <4>. QED BY <4>1, <4>2
    <3>10. Covered(PeerKeys, peer_stats, nprev, nrep, truth.peer)
      <4>1. PICK rp1, tp : rp1 = reported.peer /\ tp = truth.peer
        OBVIOUS
      <4>2. /\ rp1 \in [PeerKeys -> Counts] /\ tp \in [PeerKeys -> Counts]
            /\ Covered(PeerKeys, peer_stats, peer_previous, rp1, tp)
            /\ \A k \in PeerKeys : nrep[k] = rp1[k] \/
                 (peer_stats[k] # None /\ \E proto : nrep[k]
                    = Emit(rp1[k], proto, delta(peer_stats[k], peer_previous[k])))
        BY <4>1, <2>1, <3>8, <1>9
      <4>3. Covered(PeerKeys, peer_stats, nprev, nrep, tp)
        <5>1. Sampled(PeerKeys, peer_stats, peer_previous, nprev, rp1, nrep, tp)
          BY <4>2, <3>7, <3>9, <1>11 DEF Sampled
        <5>. QED BY <5>1, SampleCovered
      <4>. QED BY <4>1, <4>3
    <3>. QED BY <2>2, <3>4, <3>5, <3>6, <3>7, <3>9, <3>10
  <2>4. CASE ~(peerdue /\ ~fails)
    <3>1. reported' = rep /\ peer_previous' = peer_previous
      BY <2>4, <1>5, <1>6
    <3>. QED BY <3>1, <2>1, <2>2, <1>8, <1>9, <1>11
  <2>. QED BY <2>3, <2>4
<1>15. /\ last_sample_ns' \in Nat /\ since' \in [host : Nat, process : Nat]
       /\ SinceInv' /\ RateNotOverstated'
  <2>1. /\ now \in Nat /\ last_sample_ns \in Nat /\ since \in [host : Nat, process : Nat]
        /\ last_sample_ns <= since.host /\ last_sample_ns <= since.process /\ last_sample_ns <= now
        /\ since.host \in Nat /\ since.process \in Nat
    BY <1>1 DEF NetTypeOK, SinceInv
  <2>2. CASE due
    <3>1. /\ since' = [since EXCEPT !.host = now, !.process = IF fails THEN @ ELSE now]
          /\ spans' = {<<Elapsed, now - since.host>>} \cup
                (IF fails THEN {} ELSE {<<Elapsed, now - since.process>>})
          /\ last_sample_ns' = IF fails THEN last_sample_ns ELSE now
      BY <2>2, <1>5 DEF sample_host_and_processes
    <3>2. since' = [host |-> now, process |-> IF fails THEN since.process ELSE now]
      BY <3>1, <2>1
    <3>3. since'.host = now /\ since'.process = IF fails THEN since.process ELSE now
      BY <3>2
    <3>4. Elapsed >= now - since.host /\ Elapsed >= now - since.process
      BY <2>1 DEF Elapsed
    <3>5. \A s \in spans' : s[1] >= s[2]
      BY <3>1, <3>4
    <3>6. SinceInv'
      BY <3>1, <3>3, <2>1, <1>2 DEF SinceInv
    <3>. QED BY <3>1, <3>2, <3>5, <3>6, <2>1 DEF RateNotOverstated
  <2>3. CASE ~due
    <3>1. UNCHANGED <<last_sample_ns, since, spans>>
      BY <2>3, <1>5
    <3>. QED BY <3>1, <2>1, <1>1, <1>2 DEF SinceInv, RateNotOverstated
  <2>. QED BY <2>2, <2>3
<1>16. /\ global_previous' \in [Protocols -> Counts] /\ totals' \in Counts
       /\ "host" \notin cfg.scopes \/ ~due => global_previous' = global_previous /\ totals' = totals
       /\ "host" \in cfg.scopes /\ due => \A q \in Protocols, f \in Fields :
            /\ global_previous'[q][f] = truth.host[q][f]
            /\ totals'[f] = truth.host["tcp"][f] + truth.host["udp"][f]
  <2>1. global_previous \in [Protocols -> Counts] /\ totals \in Counts
    BY <1>1 DEF NetTypeOK
  <2>2. CASE "host" \notin cfg.scopes \/ ~due
    <3>1. global_previous' = global_previous /\ totals' = totals
      BY <2>2, <1>5 DEF sample_host_and_processes, sample_host
    <3>. QED BY <3>1, <2>1, <2>2
  <2>3. CASE "host" \in cfg.scopes /\ due
    <3>1. /\ global_previous' = [q \in Protocols |-> IF q \in cfg.protocols
                                   THEN read_global(q) ELSE global_previous[q]]
          /\ totals' = accumulate(totals, accumulate(HostDelta("tcp"), HostDelta("udp")))
      BY <2>3, <1>5 DEF sample_host_and_processes, sample_host
    <3>2. <<"send", "bytes">> \in Fields
      BY DEF Fields, Directions
    <3>3. \A q \in Protocols : q \in cfg.protocols => read_global(q) \in Counts
      BY <2>3, <1>1, <3>2, HostDeltaIs
    <3>4. global_previous' \in [Protocols -> Counts]
      BY <3>1, <3>3, <2>1
    <3>5. "tcp" \in Protocols /\ "udp" \in Protocols
      BY DEF Protocols
    <3>6. totals' \in Counts
      BY <3>1, <3>5, <2>1, <1>1, CountsFacts, HostDeltaType
    <3>7. ASSUME NEW q \in Protocols, NEW f \in Fields
          PROVE  /\ global_previous'[q][f] = truth.host[q][f]
                 /\ totals'[f] = truth.host["tcp"][f] + truth.host["udp"][f]
      <4>1. \A r \in Protocols :
              /\ read_global(r)[f] = truth.host[r][f] /\ truth.host[r][f] \in Nat
              /\ global_previous[r][f] \in Nat /\ global_previous[r][f] <= truth.host[r][f]
              /\ r \notin cfg.protocols => truth.host[r][f] = 0
              /\ totals[f] = global_previous["tcp"][f] + global_previous["udp"][f]
        BY <2>3, <1>1 DEF HostInv, NetTypeOK, Counts
      <4>2. \A r \in Protocols : HostDelta(r)[f] = truth.host[r][f] - global_previous[r][f]
        BY <2>3, <1>1, HostDeltaIs
      <4>3. global_previous'[q][f] = truth.host[q][f]
        BY <3>1, <4>1
      <4>4. totals'[f] = totals[f] + (HostDelta("tcp")[f] + HostDelta("udp")[f])
        BY <3>1 DEF accumulate
      <4>. QED BY <4>1, <4>2, <4>3, <4>4, <3>5
    <3>. QED BY <3>4, <3>6, <3>7, <2>3
  <2>. QED BY <2>2, <2>3
<1>17. rep.host \in [Protocols -> Counts]
  BY <1>8, <1>9, <1>10
<1>18. NetTypeOK'
  <2>1. PICK h, pr, pe : h = rep.host /\ pr = rep.process /\ pe = reported'.peer
    OBVIOUS
  <2>2. reported' = [host |-> h, process |-> pr, peer |-> pe]
    BY <2>1, <1>14
  <2>3. reported' \in [host : [Protocols -> Counts], process : [ProcessKeys -> Counts],
                       peer : [PeerKeys -> Counts]]
    BY <2>1, <2>2, <1>13, <1>14, <1>17
  <2>. QED BY <2>3, <1>1, <1>2, <1>13, <1>14, <1>15, <1>16 DEF NetTypeOK
<1>19. KeysInv'
  BY <1>2, <1>13, <1>14 DEF KeysInv
<1>20. HostInv'
  <2>1. CASE "host" \in cfg.scopes
    <3>1. \A q \in Protocols, f \in Fields :
            /\ read_global(q)[f] = truth.host[q][f] /\ truth.host[q][f] \in Nat
            /\ global_previous[q][f] <= truth.host[q][f]
            /\ reported.host[q][f] = global_previous[q][f]
            /\ totals[f] = global_previous["tcp"][f] + global_previous["udp"][f]
            /\ q \notin cfg.protocols \/ f \notin samples_for(q) => truth.host[q][f] = 0
      BY <2>1, <1>1 DEF HostInv, NetTypeOK, Counts
    <3>2. (\A q : read_global(q)' = read_global(q)) /\ (\A q : samples_for(q)' = samples_for(q))
      BY <1>2, ReadSame, SamplesSame
    <3>3. CASE due
      <4>1. \A q \in Protocols, f \in Fields :
              /\ global_previous'[q][f] = truth.host[q][f]
              /\ totals'[f] = truth.host["tcp"][f] + truth.host["udp"][f]
              /\ reported'.host[q][f] = truth.host[q][f]
        <5>1. \A q \in Protocols, f \in Fields : ReportedHost[q][f] = truth.host[q][f]
          BY <2>1, <1>1, HostDeltaIs
        <5>2. reported'.host = ReportedHost
          BY <3>3, <1>8, <1>14
        <5>. QED BY <5>1, <5>2, <3>3, <2>1, <1>16
      <4>2. "tcp" \in Protocols /\ "udp" \in Protocols
        BY DEF Protocols
      <4>. QED BY <4>1, <4>2, <3>1, <3>2, <1>2 DEF HostInv
    <3>4. CASE ~due
      <4>1. global_previous' = global_previous /\ totals' = totals /\ reported'.host = reported.host
        BY <3>4, <1>8, <1>14, <1>16
      <4>2. ~force /\ phase' = "running"
        BY <3>4, <1>3, <1>5
      <4>. QED BY <4>1, <4>2, <3>1, <3>2, <1>2 DEF HostInv
    <3>. QED BY <3>3, <3>4
  <2>2. CASE "host" \notin cfg.scopes
    BY <2>2, <1>2 DEF HostInv
  <2>. QED BY <2>1, <2>2
<1>. QED BY <1>15, <1>18, <1>19, <1>20 DEF NetInv

LEMMA NextNet == NetInv /\ [Next]_vars => NetInv'
<1> SUFFICES ASSUME NetInv, [Next]_vars PROVE NetInv'
  OBVIOUS
<1>1. NetTypeOK /\ KeysInv /\ SinceInv /\ RateNotOverstated /\ HostInv
  BY DEF NetInv
<1>2. CASE build
  <2>1. /\ phase = "config" /\ phase' \in {"running", "failed"}
        /\ last_sample_ns' = now /\ since' = [host |-> now, process |-> now]
        /\ UNCHANGED <<cfg, now, global_stats, process_stats, peer_stats, global_previous,
                       process_previous, peer_previous, reported, totals, spans, truth>>
    BY <1>2 DEF build, kernel
  <2>2. NetTypeOK'
    BY <1>1, <2>1 DEF NetTypeOK
  <2>3. KeysInv'
    BY <1>1, <2>1 DEF KeysInv
  <2>4. SinceInv' /\ RateNotOverstated'
    BY <1>1, <2>1 DEF SinceInv, RateNotOverstated, NetTypeOK
  <2>5. HostInv'
    BY <1>1, <2>1, ReadSame, SamplesSame DEF HostInv
  <2>. QED BY <2>2, <2>3, <2>4, <2>5 DEF NetInv
<1>3. CASE SocketCall
  BY <1>3, SocketCallNet
<1>4. CASE consume
  <2>1. sample_if_due(FALSE) /\ phase = "running" /\ UNCHANGED <<cfg, now, kernel, truth>>
    BY <1>4 DEF consume
  <2>. QED BY <2>1, SampleNet
<1>5. CASE flush
  <2>1. sample_if_due(TRUE) /\ phase = "running" /\ UNCHANGED <<cfg, now, kernel, truth>>
    BY <1>5 DEF flush
  <2>. QED BY <2>1, SampleNet
<1>6. CASE Tick \/ (\E p \in Procs : filter(p)) \/ UNCHANGED vars
  <2>1. /\ UNCHANGED <<phase, cfg, global_stats, process_stats, peer_stats, last_sample_ns,
                       global_previous, process_previous, peer_previous, reported, totals,
                       since, spans, truth>>
        /\ now' \in Nat /\ now <= now'
    BY <1>1, <1>6 DEF Tick, filter, vars, config, kernel, sampler, NetTypeOK
  <2>2. NetTypeOK'
    BY <1>1, <2>1 DEF NetTypeOK
  <2>3. KeysInv'
    BY <1>1, <2>1 DEF KeysInv
  <2>4. SinceInv' /\ RateNotOverstated'
    BY <1>1, <2>1 DEF SinceInv, RateNotOverstated, NetTypeOK
  <2>5. HostInv'
    BY <1>1, <2>1, ReadSame, SamplesSame DEF HostInv
  <2>. QED BY <2>2, <2>3, <2>4, <2>5 DEF NetInv
<1>. QED BY <1>2, <1>3, <1>4, <1>5, <1>6 DEF Next

\* The inductive invariant holds in every state of the tracker.
THEOREM NetCorrect == Spec => []NetInv
  BY InitNet, NextNet, PTL DEF Spec

\* After flush(), also one that failed half way, the host counters of nettrack.rs
\* add up to what the sockets moved on all processors.
THEOREM HostTotals == Spec => []HostTotalsExact
<1>1. NetInv => HostTotalsExact
  <2> SUFFICES ASSUME NetInv, phase \in {"flushed", "flush_failed"}, "host" \in cfg.scopes
               PROVE  /\ reported.host = truth.host
                      /\ \A dir \in Directions :
                           totals[<<dir, "bytes">>] = truth.host["tcp"][<<dir, "bytes">>]
                                                      + truth.host["udp"][<<dir, "bytes">>]
    BY DEF HostTotalsExact
  <2>1. \A q \in Protocols, f \in Fields :
          /\ reported.host[q][f] = truth.host[q][f]
          /\ totals[f] = truth.host["tcp"][f] + truth.host["udp"][f]
    <3>1. "tcp" \in Protocols /\ "udp" \in Protocols
      BY DEF Protocols
    <3>. QED BY <3>1 DEF NetInv, HostInv
  <2>2. reported.host \in [Protocols -> Counts] /\ truth.host \in [Protocols -> Counts]
    BY DEF NetInv, NetTypeOK
  <2>3. \A q \in Protocols : reported.host[q] = truth.host[q]
    <3> TAKE q \in Protocols
    <3>1. reported.host[q] \in [Fields -> Nat] /\ truth.host[q] \in [Fields -> Nat]
      BY <2>2 DEF Counts
    <3>. QED BY <3>1, <2>1
  <2>4. reported.host = truth.host
    BY <2>2, <2>3
  <2>5. \A dir \in Directions : <<dir, "bytes">> \in Fields
    BY DEF Fields
  <2>6. "tcp" \in Protocols
    BY DEF Protocols
  <2>. QED BY <2>1, <2>4, <2>5, <2>6
<1>. QED BY <1>1, NetCorrect, PTL

\* No process and no peer is ever credited with more than it moved, however the
\* LRU maps of nettrack.bpf.c evict their entries.
THEOREM NetNeverOvercounted == Spec => []NeverOvercounted
<1>1. NetInv => NeverOvercounted
  BY DEF NetInv, KeysInv, Covered, NeverOvercounted
<1>. QED BY <1>1, NetCorrect, PTL

\* No rate is computed over less time than its counts were gathered in, also
\* after a sample that could not read the process map.
THEOREM NetRates == Spec => []RateNotOverstated
<1>1. NetInv => RateNotOverstated
  BY DEF NetInv
<1>. QED BY <1>1, NetCorrect, PTL
=============================================================================
