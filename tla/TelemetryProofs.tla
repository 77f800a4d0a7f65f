---------------------------- MODULE TelemetryProofs ----------------------------
(***************************************************************************)
(* Proofs about the telemetry pipeline: for any batch sizes, any ring,     *)
(* cache and retry limits, and any number of items, starts and faults.     *)
(***************************************************************************)
EXTENDS TelemetryStore, FiniteSetTheorems, SequenceTheorems, TLAPS

(* The places where an item may be: every queue of the pipeline.           *)
Holder == {"queue", "ring", "store"} \union Goroutine

held == [h \in Holder |-> IF h = "queue" THEN queue
                          ELSE IF h = "ring" THEN ring
                          ELSE IF h = "store" THEN store
                          ELSE batch[h]]

Pcs == {"wait", "sleep", "popLogs", "post", "last", "cache", "done"}
Working == {"post", "last", "cache"}

(* The parts of the type invariant: flags, queues, goroutines, histories.  *)
FlagsOK ==
    /\ proc \in {"down", "up", "stopping"}
    /\ cached \in BOOLEAN /\ first \in BOOLEAN

QueuesOK ==
    /\ queue \in Seq(Item) /\ ring \in Seq(Item) /\ store \in Seq(Item)
    /\ Len(ring) <= RingMax

GoroutinesOK ==
    /\ pc \in [Goroutine -> Pcs] /\ batch \in [Goroutine -> Seq(Item)]
    /\ \A g \in Goroutine : batch[g] # <<>> <=> pc[g] \in Working

TriesOK == tries \in [Goroutine -> 0..(Attempts - 1)]

HistoriesOK ==
    /\ delivered \in [Item -> Nat] /\ unknown \in [Item -> Nat]
    /\ givenUp \subseteq Item /\ kept \subseteq Item

(* A stream is numbered as it is made, and a dead process has no goroutine. *)
MadeOK ==
    /\ made \in [{"metrics", "logs"} -> Nat]
    /\ made["metrics"] <= MaxMetrics /\ made["logs"] <= MaxLogs

DownIsDone == proc = "down" => \A g \in Goroutine : pc[g] = "done"

CoreInv ==
    /\ TypeOK
    /\ MadeOK
    /\ DownIsDone

(* The holders hold different items, but for those whose file popKind      *)
(* could not remove, and only items that were made.                        *)
Once(s, K) == \A i, j \in DOMAIN s : s[i] = s[j] => i = j \/ s[i] \in K

Apart ==
    /\ \A h \in Holder : Once(held[h], kept)
    /\ \A h, k \in Holder : h # k => Elems(held[h]) \cap Elems(held[k]) \subseteq kept

Held == UNION {Elems(held[h]) : h \in Holder}

HeldIsMade == \A i \in Held : i \in Item /\ Made(i)

FlowInv ==
    /\ Apart
    /\ HeldIsMade
    /\ NothingVanishes

(* An item the agent may still send has been applied as often as its reply *)
(* was lost, any other at most once more.                                  *)
Due == {i \in Item : i \in Held \/ ~Made(i)}

SentInv ==
    \A i \in Item \ kept :
      /\ delivered[i] <= unknown[i] + 1
      /\ i \in Due => delivered[i] <= unknown[i]

-----------------------------------------------------------------------------
(* Sequences and their elements.                                           *)

(* One more element.                                                       *)
LEMMA ElemsAppend ==
    ASSUME NEW s \in Seq(Item), NEW e \in Item, NEW K
    PROVE  /\ Append(s, e) \in Seq(Item) /\ Len(Append(s, e)) = Len(s) + 1
           /\ Elems(Append(s, e)) = Elems(s) \union {e}
           /\ Once(s, K) /\ (e \notin Elems(s) \/ e \in K) => Once(Append(s, e), K)
<1>1. Append(s, e) \in Seq(Item) /\ Len(Append(s, e)) = Len(s) + 1
      /\ Append(s, e)[Len(s) + 1] = e /\ \A i \in 1..Len(s) : Append(s, e)[i] = s[i]
  OBVIOUS
<1>2. DOMAIN s = 1..Len(s) /\ DOMAIN Append(s, e) = 1..(Len(s) + 1) /\ Len(s) \in Nat
  BY <1>1
<1>3. 1..(Len(s) + 1) = (1..Len(s)) \union {Len(s) + 1}
  BY <1>2
<1>4. Elems(Append(s, e)) = Elems(s) \union {e}
  BY <1>1, <1>3 DEF Elems
<1>5. Once(s, K) /\ (e \notin Elems(s) \/ e \in K) => Once(Append(s, e), K)
  <2>1. \A i \in 1..Len(s) : s[i] \in Elems(s)
    BY DEF Elems
  <2>2. QED
    BY <1>1, <1>2, <1>3, <2>1 DEF Once
<1>6. QED  BY <1>1, <1>4, <1>5

(* The empty sequence.                                                     *)
LEMMA ElemsEmpty == Elems(<<>>) = {} /\ (\A K : Once(<<>>, K)) /\ <<>> \in Seq(Item)
BY DEF Elems, Once

(* The elements are of the type.                                           *)
LEMMA ElemsType == ASSUME NEW s \in Seq(Item)  PROVE Elems(s) \subseteq Item
BY DEF Elems

(* The first element and the others.                                       *)
LEMMA ElemsTail ==
    ASSUME NEW s \in Seq(Item), s # <<>>, NEW K
    PROVE  /\ Head(s) \in Item /\ Tail(s) \in Seq(Item) /\ Len(Tail(s)) = Len(s) - 1
           /\ Elems(s) = {Head(s)} \union Elems(Tail(s))
           /\ Once(s, K) => Once(Tail(s), K) /\ (Head(s) \notin Elems(Tail(s)) \/ Head(s) \in K)
<1>1. /\ Tail(s) \in Seq(Item) /\ Len(Tail(s)) = Len(s) - 1 /\ Len(s) \in Nat \ {0}
      /\ Head(s) = s[1] /\ s[1] \in Item
      /\ \A i \in 1..(Len(s) - 1) : Tail(s)[i] = s[i + 1]
  OBVIOUS
<1>2. DOMAIN s = 1..Len(s) /\ DOMAIN Tail(s) = 1..(Len(s) - 1)
  BY <1>1
<1>3. \A i \in 1..Len(s) : i = 1 \/ (i - 1 \in 1..(Len(s) - 1) /\ Tail(s)[i - 1] = s[i])
  BY <1>1
<1>4. \A i \in 1..(Len(s) - 1) : i + 1 \in 1..Len(s) /\ i + 1 # 1
  BY <1>1
<1>5. Elems(s) = {Head(s)} \union Elems(Tail(s))
  <2>1. Elems(s) \subseteq {Head(s)} \union Elems(Tail(s))
    BY <1>1, <1>3 DEF Elems
  <2>2. Elems(Tail(s)) \subseteq Elems(s)
    BY <1>1, <1>4 DEF Elems
  <2>3. Head(s) \in Elems(s)
    BY <1>1 DEF Elems
  <2>4. QED  BY <2>1, <2>2, <2>3
<1>6. ASSUME Once(s, K)  PROVE Once(Tail(s), K) /\ (Head(s) \notin Elems(Tail(s)) \/ Head(s) \in K)
  <2>1. \A i, j \in 1..(Len(s) - 1) : 
          Tail(s)[i] = Tail(s)[j] => i + 1 = j + 1 \/ Tail(s)[i] \in K
    BY <1>1, <1>2, <1>4, <1>6 DEF Once
  <2>2. Once(Tail(s), K)
    BY <1>2, <2>1 DEF Once
  <2>3. s[1] \in K \/ \A i \in 1..(Len(s) - 1) : Tail(s)[i] # s[1]
    <3>1. 1 \in DOMAIN s
      BY <1>1, <1>2
    <3>2. QED  BY <1>1, <1>2, <1>4, <1>6, <3>1 DEF Once
  <2>4. QED  BY <1>1, <2>2, <2>3 DEF Elems
<1>7. QED  BY <1>1, <1>5, <1>6

(* A first part and the rest.                                              *)
LEMMA ElemsSplit ==
    ASSUME NEW s \in Seq(Item), NEW n \in 0..Len(s), NEW K
    PROVE  LET a == SubSeq(s, 1, n)
               b == SubSeq(s, n + 1, Len(s))
           IN  /\ a \in Seq(Item) /\ b \in Seq(Item)
               /\ Len(a) = n /\ Len(b) = Len(s) - n
               /\ Elems(s) = Elems(a) \union Elems(b)
               /\ Once(s, K) =>
                    Once(a, K) /\ Once(b, K) /\ Elems(a) \cap Elems(b) \subseteq K
<1> DEFINE a == SubSeq(s, 1, n)
           b == SubSeq(s, n + 1, Len(s))
<1>1. /\ a \in Seq(Item) /\ b \in Seq(Item)
      /\ Len(a) = n /\ Len(b) = Len(s) - n /\ n \in Nat /\ Len(s) \in Nat
      /\ \A i \in 1..n : a[i] = s[i]
      /\ \A i \in 1..(Len(s) - n) : b[i] = s[n + i]
  OBVIOUS
<1> HIDE DEF a, b
<1>2. DOMAIN s = 1..Len(s) /\ DOMAIN a = 1..n /\ DOMAIN b = 1..(Len(s) - n)
  BY <1>1
<1>3. \A i \in 1..n : i \in 1..Len(s)
  BY <1>1
<1>4. \A i \in 1..(Len(s) - n) : n + i \in 1..Len(s) /\ n + i \notin 1..n
  BY <1>1
<1>5. Elems(s) = Elems(a) \union Elems(b)
  <2>1. ASSUME NEW i \in 1..Len(s)  PROVE s[i] \in Elems(a) \union Elems(b)
    <3>1. CASE i <= n
      BY <1>1, <3>1 DEF Elems
    <3>2. CASE i > n
      <4>1. i - n \in 1..(Len(s) - n) /\ n + (i - n) = i
        BY <1>1, <3>2
      <4>2. b[i - n] = s[i]
        BY <1>1, <4>1
      <4>3. QED  BY <1>1, <4>1, <4>2 DEF Elems
    <3>3. QED  BY <1>1, <3>1, <3>2
  <2>2. Elems(a) \subseteq Elems(s)
    <3>1. \A i \in 1..n : a[i] \in Elems(s)
      BY <1>1, <1>3 DEF Elems
    <3>2. QED  BY <1>1, <3>1 DEF Elems
  <2>3. Elems(b) \subseteq Elems(s)
    BY <1>1, <1>4 DEF Elems
  <2>4. QED  BY <2>1, <2>2, <2>3 DEF Elems
<1>6. ASSUME Once(s, K)
      PROVE  Once(a, K) /\ Once(b, K) /\ Elems(a) \cap Elems(b) \subseteq K
  <2>1. Once(a, K)
    BY <1>1, <1>2, <1>3, <1>6 DEF Once
  <2>0. \A i, j \in 1..Len(s) : s[i] = s[j] => i = j \/ s[i] \in K
    BY <1>2, <1>6 DEF Once
  <2>2. ASSUME NEW i \in 1..(Len(s) - n), NEW j \in 1..(Len(s) - n), b[i] = b[j]
        PROVE  n + i = n + j \/ b[i] \in K
    <3>1. s[n + i] = s[n + j]
      BY <1>1, <2>2
    <3>2. QED  BY <1>1, <1>4, <2>0, <3>1
  <2>3. Once(b, K)
    BY <1>1, <1>2, <2>2 DEF Once
  <2>4. ASSUME NEW i \in 1..n, NEW j \in 1..(Len(s) - n), a[i] = b[j]  PROVE a[i] \in K
    <3>1. s[i] = s[n + j]
      BY <1>1, <2>4
    <3>2. s[i] \in K
      BY <1>3, <1>4, <2>0, <3>1
    <3>3. QED  BY <1>1, <3>2
  <2>5. QED  BY <1>1, <2>1, <2>3, <2>4 DEF Elems
<1>7. QED  BY <1>1, <1>5, <1>6 DEF a, b

(* Two sequences in a row.                                                 *)
LEMMA ElemsConcat ==
    ASSUME NEW s \in Seq(Item), NEW t \in Seq(Item), NEW K
    PROVE  /\ s \o t \in Seq(Item)
           /\ Elems(s \o t) = Elems(s) \union Elems(t)
           /\ Once(s, K) /\ Once(t, K) /\ Elems(s) \cap Elems(t) \subseteq K =>
                Once(s \o t, K)
<1> DEFINE u == s \o t
<1>1. /\ u \in Seq(Item) /\ Len(u) = Len(s) + Len(t) /\ Len(s) \in Nat /\ Len(t) \in Nat
      /\ \A i \in 1..Len(s) : u[i] = s[i]
      /\ \A i \in 1..Len(t) : u[Len(s) + i] = t[i]
  OBVIOUS
<1> HIDE DEF u
<1>2. DOMAIN s = 1..Len(s) /\ DOMAIN t = 1..Len(t) /\ DOMAIN u = 1..(Len(s) + Len(t))
  BY <1>1
<1>3. \A i \in DOMAIN u : \/ i \in 1..Len(s) /\ u[i] = s[i]
                          \/ i - Len(s) \in 1..Len(t) /\ u[i] = t[i - Len(s)]
  <2>1. SUFFICES ASSUME NEW i \in 1..(Len(s) + Len(t)), i > Len(s)
                 PROVE  i - Len(s) \in 1..Len(t) /\ u[i] = t[i - Len(s)]
    BY <1>1, <1>2
  <2>2. i - Len(s) \in 1..Len(t) /\ Len(s) + (i - Len(s)) = i
    BY <1>1, <2>1
  <2>3. QED  BY <1>1, <2>2
<1>4. Elems(u) = Elems(s) \union Elems(t)
  <2>1. Elems(u) \subseteq Elems(s) \union Elems(t)
    BY <1>1, <1>2, <1>3 DEF Elems
  <2>2. Elems(s) \subseteq Elems(u)
    BY <1>1 DEF Elems
  <2>3. Elems(t) \subseteq Elems(u)
    <3>1. \A i \in 1..Len(t) : Len(s) + i \in 1..Len(u)
      BY <1>1
    <3>2. QED  BY <1>1, <3>1 DEF Elems
  <2>4. QED  BY <2>1, <2>2, <2>3
<1>5. ASSUME Once(s, K), Once(t, K), Elems(s) \cap Elems(t) \subseteq K
      PROVE  Once(u, K)
  <2>1. \A i \in 1..Len(s) : \A j \in 1..Len(t) : s[i] = t[j] => s[i] \in K
    BY <1>5 DEF Elems
  <2>2. SUFFICES ASSUME NEW i \in DOMAIN u, NEW j \in DOMAIN u, u[i] = u[j]  PROVE i = j \/ u[i] \in K
    BY DEF Once
  <2>3. CASE i \in 1..Len(s) /\ u[i] = s[i] /\ j \in 1..Len(s) /\ u[j] = s[j]
    BY <1>2, <1>5, <2>2, <2>3 DEF Once
  <2>4. CASE /\ i - Len(s) \in 1..Len(t) /\ u[i] = t[i - Len(s)]
             /\ j - Len(s) \in 1..Len(t) /\ u[j] = t[j - Len(s)]
    <3>1. i - Len(s) = j - Len(s) \/ u[i] \in K
      BY <1>2, <1>5, <2>2, <2>4 DEF Once
    <3>2. QED  BY <1>1, <1>2, <2>2, <3>1
  <2>5. QED  BY <1>3, <2>1, <2>2, <2>3, <2>4
<1>6. QED  BY <1>1, <1>4, <1>5 DEF u

(* More may occur twice.                                                   *)
LEMMA OnceMore == ASSUME NEW s, NEW K, NEW L, K \subseteq L, Once(s, K)  PROVE Once(s, L)
BY DEF Once

(* The rank of a place among a set of places numbers them.                 *)
LEMMA Rank ==
    ASSUME NEW n \in Nat, NEW P \in SUBSET (1..n)
    PROVE  /\ IsFiniteSet(P) /\ Cardinality(P) \in 0..n
           /\ \A i \in P : Cardinality(UpTo(P, i)) \in 1..Cardinality(P)
           /\ \A i, j \in P : Cardinality(UpTo(P, i)) = Cardinality(UpTo(P, j)) => i = j
           /\ \A m \in 1..Cardinality(P) : \E i \in P : Cardinality(UpTo(P, i)) = m
<1>1. IsFiniteSet(1..n) /\ Cardinality(1..n) = n
  BY FS_Interval
<1>2. IsFiniteSet(P) /\ Cardinality(P) \in Nat /\ Cardinality(P) <= n
  <2>1. IsFiniteSet(P) /\ Cardinality(P) <= Cardinality(1..n)
    BY <1>1, FS_Subset
  <2>2. QED  BY <1>1, <2>1, FS_CardinalityType
<1>3. ASSUME NEW i \in P
      PROVE  /\ UpTo(P, i) \in SUBSET P /\ i \in UpTo(P, i) /\ IsFiniteSet(UpTo(P, i))
             /\ Cardinality(UpTo(P, i)) \in 1..Cardinality(P)
  <2>1. UpTo(P, i) \in SUBSET P /\ i \in UpTo(P, i)
    BY DEF UpTo
  <2>2. IsFiniteSet(UpTo(P, i)) /\ Cardinality(UpTo(P, i)) <= Cardinality(P)
    BY <1>2, <2>1, FS_Subset
  <2>3. Cardinality(UpTo(P, i)) \in Nat /\ Cardinality(UpTo(P, i)) # 0
    BY <2>1, <2>2, FS_CardinalityType, FS_EmptySet
  <2>4. QED  BY <1>2, <2>1, <2>2, <2>3
<1>4. ASSUME NEW i \in P, NEW j \in P, i < j,
             Cardinality(UpTo(P, i)) = Cardinality(UpTo(P, j))
      PROVE  FALSE
  <2>1. UpTo(P, i) \in SUBSET UpTo(P, j) /\ j \notin UpTo(P, i)
    <3>1. i \in Int /\ j \in Int /\ \A k \in P : k \in Int
      OBVIOUS
    <3>2. \A k \in P : k <= i => k <= j
      BY <1>4, <3>1
    <3>3. ~(j <= i)
      BY <1>4, <3>1
    <3>4. QED  BY <3>2, <3>3 DEF UpTo
  <2>2. UpTo(P, j) = UpTo(P, i)
    BY <1>3, <1>4, <2>1, FS_Subset
  <2>3. QED  BY <1>3, <2>1, <2>2
<1>5. \A i, j \in P : Cardinality(UpTo(P, i)) = Cardinality(UpTo(P, j)) => i = j
  <2>1. \A i, j \in P : i < j \/ j < i \/ i = j
    OBVIOUS
  <2>2. QED  BY <1>4, <2>1
<1>6. \A m \in 1..Cardinality(P) : \E i \in P : Cardinality(UpTo(P, i)) = m
  <2> DEFINE f == [i \in P |-> Cardinality(UpTo(P, i))]
             T == 1..Cardinality(P)
  <2>1. f \in Injection(P, T)
    <3>1. f \in [P -> T]
      BY <1>3
    <3>2. IsInjective(f)
      BY <1>5 DEF IsInjective
    <3>3. QED  BY <3>1, <3>2 DEF Injection
  <2>2. IsFiniteSet(T) /\ Cardinality(T) = Cardinality(P)
    BY <1>2, FS_Interval
  <2>3. f \in Surjection(P, T)
    <3> HIDE DEF f, T
    <3>1. QED  BY <2>1, <2>2, FS_Injection
  <2>4. QED  BY <2>3 DEF Surjection
<1>7. QED  BY <1>2, <1>3, <1>5, <1>6

(* What popKind takes from a set of places of the cache.                   *)
LEMMA ElemsEntries ==
    ASSUME store \in Seq(Item), NEW P \in SUBSET Places, NEW K
    PROVE  /\ Entries(P) \in Seq(Item) /\ Len(Entries(P)) <= Len(store)
           /\ Len(Entries(P)) = 0 <=> P = {}
           /\ Elems(Entries(P)) = At(P)
           /\ Once(store, K) => Once(Entries(P), K)
<1> DEFINE c == Cardinality(P)
           pick == [n \in 1..c |-> CHOOSE i \in P : Cardinality(UpTo(P, i)) = n]
<1>1. Len(store) \in Nat /\ P \in SUBSET (1..Len(store)) /\ DOMAIN store = 1..Len(store)
  BY DEF Places
<1>2. /\ IsFiniteSet(P) /\ c \in 0..Len(store)
      /\ \A i \in P : Cardinality(UpTo(P, i)) \in 1..c
      /\ \A i, j \in P : Cardinality(UpTo(P, i)) = Cardinality(UpTo(P, j)) => i = j
      /\ \A m \in 1..c : \E i \in P : Cardinality(UpTo(P, i)) = m
  <2>1. ASSUME NEW m \in Nat, P \in SUBSET (1..m)
        PROVE  /\ IsFiniteSet(P) /\ Cardinality(P) \in 0..m
               /\ \A i \in P : Cardinality(UpTo(P, i)) \in 1..Cardinality(P)
               /\ \A i, j \in P :
                    Cardinality(UpTo(P, i)) = Cardinality(UpTo(P, j)) => i = j
               /\ \A k \in 1..Cardinality(P) : \E i \in P : Cardinality(UpTo(P, i)) = k
    BY <2>1, Rank, Zenon
  <2> HIDE DEF pick
  <2>2. QED  BY <1>1, <2>1
<1>3. \A n \in 1..c : pick[n] \in P /\ Cardinality(UpTo(P, pick[n])) = n
  BY <1>2
<1>4. \A i \in P : pick[Cardinality(UpTo(P, i))] = i
  BY <1>2, <1>3
<1>5. Entries(P) = [n \in 1..c |-> store[pick[n]]]
  BY DEF Entries
<1> HIDE DEF pick, c
<1>6. \A n \in 1..c : store[pick[n]] \in Item
  <2>1. \A i \in P : store[i] \in Item
    BY <1>1
  <2>2. QED  BY <1>3, <2>1
<1>7. Entries(P) \in Seq(Item) /\ Len(Entries(P)) = c /\ DOMAIN Entries(P) = 1..c
  BY <1>2, <1>5, <1>6
<1>8. Elems(Entries(P)) = At(P)
  <2>1. \A n \in 1..c : Entries(P)[n] = store[pick[n]]
    BY <1>5
  <2>2. QED
    BY <1>2, <1>3, <1>4, <1>7, <2>1 DEF Elems, At
<1>9. Once(store, K) => Once(Entries(P), K)
  <2>1. SUFFICES ASSUME Once(store, K), NEW m \in 1..c, NEW n \in 1..c,
                        store[pick[m]] = store[pick[n]]
                 PROVE  m = n \/ store[pick[m]] \in K
    BY <1>5, <1>7 DEF Once
  <2>2. pick[m] = pick[n] \/ store[pick[m]] \in K
    BY <1>1, <1>3, <2>1 DEF Once
  <2>3. QED  BY <1>3, <2>2
<1>10. c = 0 <=> P = {}
  BY <1>2, FS_EmptySet DEF c
<1>11. QED
  BY <1>1, <1>2, <1>7, <1>8, <1>9, <1>10
------------------------------------------------------------------
(* dropOldest removes what is at some places of the cache.                 *)
LEMMA ElemsEvicted ==
    ASSUME store \in Seq(Item), NEW old \in SUBSET Places, NEW K
    PROVE  LET r == Entries(Places \ old)
           IN  /\ r \in Seq(Item) /\ At(old) \subseteq Item
               /\ Elems(r) \subseteq Elems(store)
               /\ Elems(store) \subseteq Elems(r) \union At(old)
               /\ Once(store, K) => Once(r, K)
<1> DEFINE r == Entries(Places \ old)
<1>1. r \in Seq(Item) /\ Elems(r) = At(Places \ old) /\ (Once(store, K) => Once(r, K))
  <2> DEFINE P == Places \ old
  <2>1. P \in SUBSET Places
    OBVIOUS
  <2> HIDE DEF P
  <2>2. /\ Entries(P) \in Seq(Item) /\ Elems(Entries(P)) = At(P)
        /\ Once(store, K) => Once(Entries(P), K)
    BY <2>1, ElemsEntries
  <2>3. QED  BY <2>2 DEF P
<1>2. Elems(store) = At(Places) /\ At(old) \subseteq Item
  <2>1. \A i \in Places : store[i] \in Item
    BY DEF Places
  <2>2. Elems(store) = At(Places)
    BY DEF Elems, At, Places
  <2>3. QED  BY <2>1, <2>2 DEF At
<1>3. At(Places) = At(Places \ old) \union At(old) /\ At(Places \ old) \subseteq At(Places)
  BY DEF At
<1>4. QED  BY <1>1, <1>2, <1>3
-----------
(* The parts are the type invariant.                                       *)
LEMMA TypeParts == TypeOK <=> FlagsOK /\ QueuesOK /\ GoroutinesOK /\ TriesOK /\ HistoriesOK
BY DEF TypeOK, FlagsOK, QueuesOK, GoroutinesOK, TriesOK, HistoriesOK, Pcs, Working

(* The three goroutines.                                                   *)
LEMMA Goroutines ==
    /\ "metrics" \in Goroutine /\ "logs" \in Goroutine /\ "recovery" \in Goroutine
    /\ \A g \in Goroutine : g # "queue" /\ g # "ring" /\ g # "store"
BY DEF Goroutine

(* A goroutine takes up or puts down a batch.                              *)
LEMMA BatchMoves ==
    ASSUME GoroutinesOK, NEW g \in Goroutine, NEW s \in Seq(Item), NEW l \in Pcs,
           s # <<>> <=> l \in Working,
           batch' = [batch EXCEPT ![g] = s], pc' = [pc EXCEPT ![g] = l]
    PROVE  /\ GoroutinesOK'
           /\ batch'[g] = s /\ pc'[g] = l
           /\ \A r \in Goroutine : r # g => batch'[r] = batch[r] /\ pc'[r] = pc[r]
BY DEF GoroutinesOK

(* Where a goroutine goes then, it has no batch.                           *)
LEMMA AfterType == ASSUME NEW g \in Goroutine  PROVE After(g) \in Pcs \ Working
BY DEF After, Pcs, Working

(* Before the first start.                                                 *)
LEMMA InitCore == Init => CoreInv
<1> SUFFICES ASSUME Init  PROVE CoreInv
  OBVIOUS
<1> USE TelemetryConstants DEF Init
<1>1. QueuesOK /\ GoroutinesOK /\ TriesOK /\ HistoriesOK
  <2>1. QueuesOK /\ TriesOK /\ HistoriesOK
    BY DEF QueuesOK, TriesOK, HistoriesOK
  <2>2. GoroutinesOK
    BY DEF GoroutinesOK, Pcs, Working
  <2>3. QED  BY <2>1, <2>2
<1>2. FlagsOK
  <2>1. cached \in BOOLEAN /\ first \in BOOLEAN
    BY Zenon
  <2>2. QED  BY <2>1 DEF FlagsOK
<1>3. MadeOK /\ DownIsDone
  BY DEF MadeOK, DownIsDone
<1>4. QED
  BY <1>1, <1>2, <1>3, TypeParts DEF CoreInv

(* What is in memory is made of items.                                     *)
LEMMA VolatileType == ASSUME QueuesOK, GoroutinesOK  PROVE Volatile \subseteq Item
BY DEF QueuesOK, GoroutinesOK, Volatile, Elems

(* The process starts and ends.                                            *)
LEMMA CoreProcess ==
    ASSUME CoreInv, Start \/ Crash \/ Sigterm \/ Exit  PROVE CoreInv'
<1> USE TelemetryConstants
<1>1. FlagsOK /\ QueuesOK /\ GoroutinesOK /\ TriesOK /\ HistoriesOK /\ MadeOK
  BY TypeParts DEF CoreInv
<1>t. ASSUME FlagsOK', QueuesOK', GoroutinesOK', TriesOK', HistoriesOK', MadeOK', DownIsDone'
      PROVE  CoreInv'
  BY <1>t DEF CoreInv, TypeOK, FlagsOK, QueuesOK, GoroutinesOK, TriesOK, HistoriesOK, Pcs,
     Working
<1>2. CASE Start
  <2> USE <1>2 DEF Start
  <2>1. QueuesOK' /\ TriesOK' /\ HistoriesOK' /\ MadeOK'
    BY <1>1 DEF QueuesOK, TriesOK, HistoriesOK, MadeOK
  <2>2. cached' \in BOOLEAN /\ first' \in BOOLEAN
    BY Zenon
  <2>3. FlagsOK' /\ DownIsDone'
    BY <2>2 DEF FlagsOK, DownIsDone
  <2>4. \A g \in Goroutine : batch[g] = <<>>
    BY <1>1 DEF CoreInv, DownIsDone, GoroutinesOK, Working
  <2>5. pc' \in [Goroutine -> Pcs \ Working]
    BY DEF Goroutine, Pcs, Working
  <2>6. GoroutinesOK'
    BY <1>1, <2>4, <2>5 DEF GoroutinesOK
  <2>7. QED  BY <1>t, <2>1, <2>3, <2>6
<1>3. CASE Sigterm
  BY <1>1, <1>3, <1>t
     DEF Sigterm, FlagsOK, QueuesOK, GoroutinesOK, TriesOK, HistoriesOK, MadeOK, DownIsDone
<1>4. CASE Crash \/ Exit
  <2>1. Die
    BY <1>4 DEF Crash, Exit
  <2> USE <2>1 DEF Die
  <2>2. QueuesOK' /\ TriesOK' /\ MadeOK' /\ DownIsDone'
    BY <1>1 DEF QueuesOK, TriesOK, MadeOK, DownIsDone
  <2>3. FlagsOK'
    BY <1>1 DEF FlagsOK
  <2>4. GoroutinesOK'
    BY DEF GoroutinesOK, Pcs, Working
  <2>5. HistoriesOK'
    BY <1>1, VolatileType DEF HistoriesOK
  <2>6. QED  BY <1>t, <2>2, <2>3, <2>4, <2>5
<1>5. QED  BY <1>2, <1>3, <1>4

(* A pop hands out entries of the cache, keeps some and drops some.        *)
LEMMA PopShape ==
    ASSUME RecoverMetrics \/ RecoverLogs \/ PopAstray
    PROVE  \E out, stuck, bad \in SUBSET Places :
             /\ stuck \in SUBSET out /\ bad \in SUBSET out
             /\ \/ HandOut("sleep", "popLogs", out, stuck, bad)
                \/ HandOut("popLogs", "done", out, stuck, bad)
<1> DEFINE Shape(h, n) == \E out, stuck, bad \in SUBSET Places :
                            /\ stuck \in SUBSET out /\ bad \in SUBSET out
                            /\ HandOut(h, n, out, stuck, bad)
<1>1. \A k, odd : Oldest(k, odd) \in SUBSET Places
  BY DEF Oldest, OfKind
<1>2. ASSUME NEW k, NEW h, NEW n, RecoverKind(k, h, n) \/ RecoverAstray(k, h, n)
      PROVE  Shape(h, n)
  <2>1. CASE RecoverKind(k, h, n)
    <3>1. HandOut(h, n, Oldest(k, {}), {}, {})
      BY <2>1 DEF RecoverKind
    <3>2. {} \in SUBSET Places /\ {} \in SUBSET Oldest(k, {})
      OBVIOUS
    <3>3. QED  BY <1>1, <3>1, <3>2, Zenon
  <2>2. CASE RecoverAstray(k, h, n)
    <3>1. PICK odd : \/ HandOut(h, n, Oldest(k, odd), {}, {})
                     \/ HandOut(h, n, Oldest(k, {}), odd \intersect Oldest(k, {}), {})
                     \/ HandOut(h, n, Oldest(k, {}), {}, odd \intersect Oldest(k, {}))
      BY <2>2, Zenon DEF RecoverAstray
    <3>2. /\ {} \in SUBSET Places /\ {} \in SUBSET Oldest(k, {}) /\ {} \in SUBSET Oldest(k, odd)
          /\ odd \intersect Oldest(k, {}) \in SUBSET Places
          /\ odd \intersect Oldest(k, {}) \in SUBSET Oldest(k, {})
      BY <1>1
    <3>3. QED  BY <1>1, <3>1, <3>2, Zenon
  <2>3. QED  BY <1>2, <2>1, <2>2
<1>3. Shape("sleep", "popLogs") \/ Shape("popLogs", "done")
  BY <1>2 DEF RecoverMetrics, RecoverLogs, PopAstray
<1>4. QED  BY <1>3, Zenon

(* Items are collected, drained and popped.                                *)
LEMMA CoreSources ==
    ASSUME CoreInv,
           \/ Log \/ MetricsTick \/ MetricsDone \/ LogsTick \/ LogsDone
           \/ RecoverMetrics \/ RecoverLogs \/ PopFails \/ PopAstray
    PROVE  CoreInv'
<1> USE TelemetryConstants
<1>1. /\ FlagsOK /\ QueuesOK /\ GoroutinesOK /\ TriesOK /\ HistoriesOK /\ MadeOK
      /\ DownIsDone
  BY TypeParts DEF CoreInv
<1>t. ASSUME QueuesOK', GoroutinesOK', HistoriesOK', MadeOK', DownIsDone',
             UNCHANGED <<proc, cached, first, tries>>
      PROVE  CoreInv'
  <2>1. FlagsOK' /\ TriesOK'
    BY <1>1, <1>t DEF FlagsOK, TriesOK
  <2>2. QED
    BY <1>t, <2>1 DEF CoreInv, TypeOK, FlagsOK, QueuesOK, GoroutinesOK, TriesOK,
       HistoriesOK, Pcs, Working
<1>2. CASE Log
  <2> DEFINE i == <<"logs", made["logs"] + 1>>
             full == Len(ring) >= RingMax
             rest == IF full THEN Tail(ring) ELSE ring
  <2>1. /\ proc # "down" /\ made["logs"] < MaxLogs
        /\ made' = [made EXCEPT !["logs"] = made["logs"] + 1]
        /\ ring' = Append(rest, i)
        /\ givenUp' = IF full THEN givenUp \union {Head(ring)} ELSE givenUp
        /\ UNCHANGED <<proc, cached, queue, first, pc, batch, tries, store, delivered,
                       unknown, kept>>
    BY <1>2 DEF Log
  <2>2. i \in Item
    BY <1>1, <2>1 DEF Item, MadeOK
  <2>3. full => ring # <<>>
    BY <1>1 DEF QueuesOK
  <2>4. rest \in Seq(Item) /\ Len(rest) < RingMax /\ (full => Head(ring) \in Item)
    BY <1>1, <2>3, ElemsTail DEF QueuesOK
  <2> HIDE DEF i, rest
  <2>5. Append(rest, i) \in Seq(Item) /\ Len(Append(rest, i)) = Len(rest) + 1
    BY <2>2, <2>4, ElemsAppend
  <2>6. QueuesOK'
    BY <1>1, <2>1, <2>4, <2>5 DEF QueuesOK
  <2>7. GoroutinesOK' /\ DownIsDone'
    BY <1>1, <2>1 DEF GoroutinesOK, DownIsDone
  <2>8. HistoriesOK' /\ MadeOK'
    BY <1>1, <2>1, <2>4 DEF HistoriesOK, MadeOK
  <2>9. QED  BY <1>t, <2>1, <2>6, <2>7, <2>8
<1>3. CASE MetricsTick
  <2> DEFINE i == <<"metrics", made["metrics"] + 1>>
             q == Append(queue, i)
  <2>1. /\ pc["metrics"] = "wait" /\ made["metrics"] < MaxMetrics
        /\ made' = [made EXCEPT !["metrics"] = made["metrics"] + 1]
        /\ \/ /\ queue' = <<>> /\ batch' = [batch EXCEPT !["metrics"] = q]
              /\ pc' = [pc EXCEPT !["metrics"] = "post"]
           \/ queue' = q /\ UNCHANGED <<batch, pc>>
        /\ UNCHANGED <<proc, cached, first, ring, tries, store, delivered, unknown, givenUp,
                       kept>>
    BY <1>3 DEF MetricsTick
  <2>2. i \in Item
    BY <1>1, <2>1 DEF Item, MadeOK
  <2> HIDE DEF i
  <2>3. q \in Seq(Item) /\ q # <<>>
    BY <1>1, <2>2, ElemsAppend, SMTT(20) DEF QueuesOK
  <2> HIDE DEF q
  <2>4. QueuesOK' /\ HistoriesOK' /\ MadeOK'
    <3>1. queue' \in Seq(Item) /\ UNCHANGED <<ring, store>>
      BY <2>1, <2>3, ElemsEmpty
    <3>2. QueuesOK'
      BY <1>1, <3>1 DEF QueuesOK
    <3>3. HistoriesOK' /\ MadeOK'
      BY <1>1, <2>1 DEF HistoriesOK, MadeOK
    <3>4. QED  BY <3>2, <3>3
  <2>5. "post" \in Pcs /\ "post" \in Working
    BY DEF Pcs, Working
  <2>6. GoroutinesOK'
    <3>1. CASE UNCHANGED <<batch, pc>>
      BY <1>1, <3>1 DEF GoroutinesOK
    <3>2. CASE batch' = [batch EXCEPT !["metrics"] = q]
               /\ pc' = [pc EXCEPT !["metrics"] = "post"]
      BY <1>1, <2>3, <2>5, <3>2, Goroutines, BatchMoves
    <3>3. QED  BY <2>1, <3>1, <3>2
  <2>7. DownIsDone'
    BY <1>1, <2>1, Goroutines DEF DownIsDone
  <2>8. QED  BY <1>t, <2>1, <2>4, <2>6, <2>7
<1>4. CASE MetricsDone
  <2> DEFINE l == IF queue = <<>> THEN "done" ELSE "last"
  <2>1. /\ proc = "stopping" /\ queue' = <<>> /\ batch' = [batch EXCEPT !["metrics"] = queue]
        /\ pc' = [pc EXCEPT !["metrics"] = l]
        /\ UNCHANGED <<proc, cached, first, ring, tries, store, made, delivered, unknown,
                       givenUp, kept>>
    BY <1>4 DEF MetricsDone
  <2>2. l \in Pcs /\ (queue # <<>> <=> l \in Working)
    BY DEF Pcs, Working
  <2> HIDE DEF l
  <2>3. GoroutinesOK'
    BY <1>1, <2>1, <2>2, Goroutines, BatchMoves DEF QueuesOK
  <2>4. QueuesOK' /\ HistoriesOK' /\ MadeOK' /\ DownIsDone'
    BY <1>1, <2>1 DEF QueuesOK, HistoriesOK, MadeOK, DownIsDone
  <2>5. QED  BY <1>t, <2>1, <2>3, <2>4
<1>5. CASE LogsTick \/ LogsDone
  <2> DEFINE a == SubSeq(ring, 1, DrainCount)
             b == SubSeq(ring, DrainCount + 1, Len(ring))
  <2>1. PICK l \in Pcs :
          /\ ring # <<>> <=> l \in Working
          /\ pc["logs"] = "wait" /\ batch' = [batch EXCEPT !["logs"] = a] /\ ring' = b
          /\ pc' = [pc EXCEPT !["logs"] = l]
          /\ UNCHANGED <<proc, cached, queue, first, tries, store, made, delivered, unknown,
                         givenUp, kept>>
    BY <1>5 DEF LogsTick, LogsDone, Drain, Pcs, Working
  <2>2. DrainCount \in 0..Len(ring) /\ (ring # <<>> => DrainCount # 0)
    BY <1>1 DEF DrainCount, QueuesOK
  <2>3. a \in Seq(Item) /\ b \in Seq(Item) /\ Len(a) = DrainCount
        /\ Len(b) = Len(ring) - DrainCount
    BY <1>1, <2>2, ElemsSplit DEF QueuesOK
  <2>4. a # <<>> <=> ring # <<>>
    BY <1>1, <2>2, <2>3 DEF QueuesOK
  <2> HIDE DEF a, b
  <2>5. GoroutinesOK'
    BY <1>1, <2>1, <2>3, <2>4, Goroutines, BatchMoves
  <2>6. QueuesOK' /\ HistoriesOK' /\ MadeOK'
    <3>1. ring' \in Seq(Item) /\ Len(ring') <= RingMax /\ UNCHANGED <<queue, store>>
      BY <1>1, <2>1, <2>2, <2>3 DEF QueuesOK
    <3>2. QueuesOK'
      BY <1>1, <3>1 DEF QueuesOK
    <3>3. HistoriesOK' /\ MadeOK'
      BY <1>1, <2>1 DEF HistoriesOK, MadeOK
    <3>4. QED  BY <3>2, <3>3
  <2>7. DownIsDone'
    BY <1>1, <2>1, Goroutines DEF DownIsDone
  <2>8. QED  BY <1>t, <2>1, <2>5, <2>6, <2>7
<1>6. CASE RecoverMetrics \/ RecoverLogs \/ PopAstray
  <2>1. PICK out \in SUBSET Places, stuck \in SUBSET Places, bad \in SUBSET Places :
          \/ HandOut("sleep", "popLogs", out, stuck, bad)
          \/ HandOut("popLogs", "done", out, stuck, bad)
    BY <1>6, PopShape
  <2>2. PICK l \in Pcs :
          /\ out \ bad # {} <=> l \in Working
          /\ pc["recovery"] # "done"
          /\ batch' = [batch EXCEPT !["recovery"] = Entries(out \ bad)]
          /\ store' = Entries(Places \ (out \ stuck))
          /\ kept' = kept \union At(stuck) /\ givenUp' = givenUp \union At(bad)
          /\ pc' = [pc EXCEPT !["recovery"] = l]
          /\ UNCHANGED <<proc, cached, queue, first, ring, tries, made, delivered, unknown>>
    BY <2>1 DEF HandOut, Pcs, Working
  <2>3. /\ Entries(out \ bad) \in Seq(Item) /\ Entries(Places \ (out \ stuck)) \in Seq(Item)
        /\ Len(Entries(out \ bad)) = 0 <=> out \ bad = {}
        /\ At(stuck) \subseteq Item /\ At(bad) \subseteq Item
    <3>1. out \ bad \in SUBSET Places /\ out \ stuck \in SUBSET Places
      OBVIOUS
    <3>2. QED
      BY <1>1, <3>1, ElemsEntries, ElemsEvicted DEF QueuesOK
  <2>4. Entries(out \ bad) # <<>> <=> out \ bad # {}
    BY <2>3
  <2>5. GoroutinesOK'
    BY <1>1, <2>2, <2>3, <2>4, Goroutines, BatchMoves
  <2>6. QueuesOK' /\ HistoriesOK' /\ MadeOK'
    BY <1>1, <2>2, <2>3 DEF QueuesOK, HistoriesOK, MadeOK
  <2>7. DownIsDone'
    BY <1>1, <2>2, Goroutines DEF DownIsDone
  <2>8. QED  BY <1>t, <2>2, <2>5, <2>6, <2>7
<1>7. CASE PopFails
  <2>1. PICK l \in Pcs \ Working :
          /\ pc["recovery"] \in {"sleep", "popLogs"} /\ pc' = [pc EXCEPT !["recovery"] = l]
          /\ UNCHANGED <<proc, cached, queue, first, ring, batch, tries, store, made,
                         delivered, unknown, givenUp, kept>>
    BY <1>7 DEF PopFails, Pcs, Working
  <2>2. pc["recovery"] \notin Working /\ pc["recovery"] # "done"
    BY <2>1 DEF Working
  <2>3. GoroutinesOK'
    BY <1>1, <2>1, <2>2, Goroutines DEF GoroutinesOK
  <2>4. QueuesOK' /\ HistoriesOK' /\ MadeOK'
    BY <1>1, <2>1 DEF QueuesOK, HistoriesOK, MadeOK
  <2>5. DownIsDone'
    BY <1>1, <2>1, <2>2, Goroutines DEF DownIsDone
  <2>6. QED  BY <1>t, <2>1, <2>3, <2>4, <2>5
<1>8. QED
  BY <1>2, <1>3, <1>4, <1>5, <1>6, <1>7

(* A push evicts what is at some places of the cache.                      *)
LEMMA PushShape ==
    ASSUME NEW g, PushNext(g) \/ PushPassesOver(g) \/ PushRefused(g)
    PROVE  \E old \in SUBSET Places : Stored(g, old) \/ Refused(g, old)
<1>1. \A over : \A old \in OldEnds(over) : old \in SUBSET Places
  BY DEF OldEnds
<1>2. QED
  BY <1>1, Zenon DEF PushNext, PushPassesOver, PushRefused

(* A batch is uploaded, put into the cache, or lost to a panic.            *)
LEMMA CoreUpload ==
    ASSUME CoreInv, NEW g \in Goroutine, Upload(g) \/ Panic(g)  PROVE CoreInv'
<1> USE TelemetryConstants
<1>1. /\ FlagsOK /\ QueuesOK /\ GoroutinesOK /\ TriesOK /\ HistoriesOK /\ MadeOK
      /\ DownIsDone
  BY TypeParts DEF CoreInv
<1>2. pc[g] # "done" /\ UNCHANGED <<proc, cached, ring, made>>
  BY DEF Upload, PostSucceeds, PostFails, ReplyLost, PushNext, PushPassesOver, PushRefused,
     Rest, Panic, PanicAt, Posting
<1>3. DownIsDone'
  BY <1>1, <1>2 DEF DownIsDone
<1>t. ASSUME first' \in BOOLEAN, QueuesOK', GoroutinesOK', TriesOK', HistoriesOK'
      PROVE  CoreInv'
  <2>1. FlagsOK' /\ MadeOK'
    BY <1>1, <1>2, <1>t DEF FlagsOK, MadeOK
  <2>2. QED
    BY <1>3, <1>t, <2>1 DEF CoreInv, TypeOK, FlagsOK, QueuesOK, GoroutinesOK, TriesOK,
       HistoriesOK, Pcs, Working
<1>4. ASSUME NEW f \in [Item -> Nat]  PROVE Applied(g, f) \in [Item -> Nat]
  BY DEF Applied
<1>5. Elems(batch[g]) \subseteq Item /\ batch[g] \in Seq(Item)
  BY <1>1, ElemsType DEF GoroutinesOK
<1>6. ASSUME NEW l \in Pcs \ Working, batch' = [batch EXCEPT ![g] = <<>>],
             pc' = [pc EXCEPT ![g] = l]
      PROVE  GoroutinesOK'
  <2>1. <<>> \in Seq(Item)
    OBVIOUS
  <2>2. QED  BY <1>1, <1>6, <2>1, BatchMoves
<1>7. ASSUME tries' = [tries EXCEPT ![g] = 0]  PROVE TriesOK'
  BY <1>1, <1>7 DEF TriesOK
<1>8. "done" \in Pcs \ Working
  BY DEF Pcs, Working
<1>9. CASE PostSucceeds(g)
  <2>1. /\ batch' = [batch EXCEPT ![g] = <<>>] /\ tries' = [tries EXCEPT ![g] = 0]
        /\ pc' = [pc EXCEPT ![g] = IF pc[g] = "last" THEN "done" ELSE After(g)]
        /\ delivered' = Applied(g, delivered)
        /\ UNCHANGED <<queue, ring, store, unknown, givenUp, kept>>
    BY <1>9 DEF PostSucceeds
  <2>2. first' \in BOOLEAN
    BY <1>1, <1>9 DEF PostSucceeds, FlagsOK
  <2>3. GoroutinesOK'
    BY <1>6, <1>8, <2>1, AfterType
  <2>4. QueuesOK' /\ HistoriesOK'
    BY <1>1, <1>4, <2>1 DEF QueuesOK, HistoriesOK
  <2>5. QED  BY <1>7, <1>t, <2>1, <2>2, <2>3, <2>4
<1>10. CASE PostFails(g) \/ ReplyLost(g)
  <2>1. AttemptFailed(g) /\ UNCHANGED <<queue, first, ring, store, kept>> /\ Posting(g)
    BY <1>10 DEF PostFails, ReplyLost
  <2>2. QueuesOK' /\ first' \in BOOLEAN
    BY <1>1, <2>1 DEF QueuesOK, FlagsOK
  <2>3. delivered' \in [Item -> Nat] /\ unknown' \in [Item -> Nat]
    BY <1>1, <1>4, <1>10 DEF PostFails, ReplyLost, HistoriesOK
  <2>4. CASE /\ tries[g] + 1 < Attempts /\ tries' = [tries EXCEPT ![g] = tries[g] + 1]
             /\ UNCHANGED <<pc, batch, givenUp>>
    <3>1. TriesOK'
      BY <1>1, <2>4 DEF TriesOK
    <3>2. GoroutinesOK' /\ HistoriesOK'
      BY <1>1, <2>1, <2>3, <2>4 DEF GoroutinesOK, HistoriesOK
    <3>3. QED  BY <1>t, <2>2, <3>1, <3>2
  <2>5. CASE /\ tries' = [tries EXCEPT ![g] = 0] /\ pc' = [pc EXCEPT ![g] = "cache"]
             /\ pc[g] = "post" /\ UNCHANGED <<batch, givenUp>>
    <3>1. batch' = [batch EXCEPT ![g] = batch[g]] /\ batch[g] # <<>>
          /\ "cache" \in Pcs /\ "cache" \in Working
      BY <1>1, <2>5 DEF GoroutinesOK, Working, Pcs
    <3>2. GoroutinesOK'
      BY <1>1, <1>5, <2>5, <3>1, BatchMoves
    <3>3. HistoriesOK'
      BY <1>1, <2>1, <2>3, <2>5 DEF HistoriesOK
    <3>4. QED  BY <1>7, <1>t, <2>2, <2>5, <3>2, <3>3
  <2>6. CASE /\ tries' = [tries EXCEPT ![g] = 0]
             /\ pc' = [pc EXCEPT ![g] = IF pc[g] = "last" THEN "done" ELSE After(g)]
             /\ batch' = [batch EXCEPT ![g] = <<>>]
             /\ givenUp' = givenUp \union Elems(batch[g])
    <3>1. GoroutinesOK'
      BY <1>6, <1>8, <2>6, AfterType
    <3>2. HistoriesOK'
      BY <1>1, <1>5, <2>1, <2>3, <2>6 DEF HistoriesOK
    <3>3. QED  BY <1>7, <1>t, <2>2, <2>6, <3>1, <3>2
  <2>7. QED
    BY <2>1, <2>4, <2>5, <2>6 DEF AttemptFailed
<1>11. CASE PushNext(g) \/ PushPassesOver(g) \/ PushRefused(g)
  <2>1. pc[g] = "cache" /\ Rest(g)
    BY <1>11 DEF PushNext, PushPassesOver, PushRefused, Rest
  <2>2. batch[g] # <<>>
    BY <1>1, <2>1 DEF GoroutinesOK, Working
  <2>3. Head(batch[g]) \in Item /\ Tail(batch[g]) \in Seq(Item)
        /\ Len(Tail(batch[g])) = Len(batch[g]) - 1
    BY <1>5, <2>2, ElemsTail
  <2> DEFINE l == IF Len(batch[g]) = 1 THEN After(g) ELSE "cache"
  <2>4. /\ batch' = [batch EXCEPT ![g] = Tail(batch[g])] /\ pc' = [pc EXCEPT ![g] = l]
        /\ UNCHANGED <<queue, first, tries, delivered, unknown, kept>>
    BY <2>1 DEF Rest
  <2>5. Len(batch[g]) = 1 <=> Tail(batch[g]) = <<>>
    <3>1. Len(Tail(batch[g])) = 0 <=> Tail(batch[g]) = <<>>
      BY <2>3, EmptySeq
    <3>2. Len(batch[g]) \in Nat
      BY <1>5
    <3>3. QED  BY <2>3, <3>1, <3>2
  <2>6. l \in Pcs /\ (Tail(batch[g]) # <<>> <=> l \in Working)
    <3>1. CASE Len(batch[g]) = 1
      BY <2>5, <3>1, AfterType
    <3>2. CASE Len(batch[g]) # 1
      BY <2>5, <3>2 DEF Pcs, Working
    <3>3. QED  BY <3>1, <3>2
  <2> HIDE DEF l
  <2>7. GoroutinesOK'
    BY <1>1, <2>3, <2>4, <2>6, BatchMoves
  <2>8. first' \in BOOLEAN /\ TriesOK'
    BY <1>1, <2>4 DEF FlagsOK, TriesOK
  <2>9. PICK old \in SUBSET Places : Stored(g, old) \/ Refused(g, old)
    BY <1>11, PushShape
  <2> DEFINE r == Entries(Places \ old)
  <2>10. r \in Seq(Item) /\ At(old) \subseteq Item
    BY <1>1, ElemsEvicted DEF QueuesOK
  <2>11. /\ store' = Append(r, Head(batch[g])) \/ store' = r
         /\ \/ givenUp' = givenUp \union At(old)
            \/ givenUp' = givenUp \union At(old) \union {Head(batch[g])}
    BY <2>9 DEF Stored, Refused
  <2> HIDE DEF r
  <2>12. store' \in Seq(Item)
    BY <2>3, <2>10, <2>11, ElemsAppend
  <2>13. QueuesOK'
    BY <1>1, <1>2, <2>4, <2>12 DEF QueuesOK
  <2>14. HistoriesOK'
    BY <1>1, <2>3, <2>4, <2>10, <2>11 DEF HistoriesOK
  <2>15. QED  BY <1>t, <2>7, <2>8, <2>13, <2>14
<1>12. CASE Panic(g)
  <2>0. PICK old \in SUBSET Places : PanicAt(g, old)
    BY <1>12 DEF Panic, OldEnds
  <2>1. /\ pc' = [pc EXCEPT ![g] = "done"] /\ batch' = [batch EXCEPT ![g] = <<>>]
        /\ tries' = [tries EXCEPT ![g] = 0]
        /\ queue' \in {queue, <<>>}
        /\ store' = Entries(Places \ old)
        /\ givenUp' = givenUp \union At(old) \union Elems(batch[g])
                      \union (IF g = "metrics" THEN Elems(queue) ELSE {})
        /\ UNCHANGED <<first, ring, delivered, unknown, kept>>
    BY <2>0 DEF PanicAt
  <2>2. first' \in BOOLEAN
    BY <1>1, <2>1 DEF FlagsOK
  <2>3. GoroutinesOK'
    BY <1>6, <1>8, <2>1
  <2>e. store' \in Seq(Item) /\ At(old) \subseteq Item
    BY <1>1, <2>1, ElemsEvicted DEF QueuesOK
  <2>4. QueuesOK'
    <3>1. queue' \in Seq(Item)
      BY <1>1, <2>1, ElemsEmpty DEF QueuesOK
    <3>2. QED  BY <1>1, <2>1, <2>e, <3>1 DEF QueuesOK
  <2>5. HistoriesOK'
    <3>1. Elems(queue) \subseteq Item
      BY <1>1, ElemsType DEF QueuesOK
    <3>2. QED  BY <1>1, <1>5, <2>1, <2>e, <3>1 DEF HistoriesOK
  <2>6. QED  BY <1>7, <1>t, <2>1, <2>2, <2>3, <2>4, <2>5
<1>13. QED
  BY <1>9, <1>10, <1>11, <1>12 DEF Upload

(* The core invariant of the pipeline.                                     *)
THEOREM CoreInvariance == Spec => []CoreInv
<1>1. CoreInv /\ [Next]_vars => CoreInv'
  <2>1. CoreInv /\ UNCHANGED vars => CoreInv'
    BY DEF CoreInv, TypeOK, MadeOK, DownIsDone, vars
  <2>2. QED
    BY <2>1, CoreProcess, CoreSources, CoreUpload DEF Next
<1>2. QED
  BY <1>1, InitCore, PTL DEF Spec

(* A goroutine has a batch exactly while it uploads or caches it, and      *)
(* ring, cache and attempts keep to their limits (runAgent, buffer, Post). *)
THEOREM TypeCorrect == Spec => []TypeOK
<1>1. CoreInv => TypeOK
  BY DEF CoreInv
<1>2. QED
  BY <1>1, CoreInvariance, PTL
-----------------------------------------------------------------------------
(* The flow of the items.  A step moves items between two holders h and k: *)
(* what comes in is new or was there before, and what goes out is with the *)
(* server or dropped knowingly.                                            *)
NewItems == {i \in Item : ~Made(i) /\ Made(i)'}

Settled == {i \in Item : delivered[i] > 0} \union givenUp

Moved(h, k) ==
    LET before == Elems(held[h]) \union Elems(held[k]) \union NewItems
        after == Elems(held'[h]) \union Elems(held'[k])
    IN  /\ \A x \in Holder : x # h /\ x # k => held'[x] = held[x]
        /\ Once(held'[h], kept') /\ Once(held'[k], kept')
        /\ Elems(held'[h]) \cap Elems(held'[k]) \subseteq kept'
        /\ after \subseteq before
        /\ before \subseteq after \union Settled'

Grows ==
    /\ Settled \subseteq Settled' /\ kept \subseteq kept'
    /\ \A i \in Item : Made(i) => Made(i)'

(* What the holders are.                                                   *)
LEMMA HeldAt ==
    /\ held["queue"] = queue /\ held["ring"] = ring /\ held["store"] = store
    /\ \A g \in Goroutine : held[g] = batch[g]
    /\ held'["queue"] = queue' /\ held'["ring"] = ring' /\ held'["store"] = store'
    /\ \A g \in Goroutine : held'[g] = batch'[g]
    /\ "queue" \in Holder /\ "ring" \in Holder /\ "store" \in Holder
    /\ \A g \in Goroutine : g \in Holder
    /\ \A x \in Holder : x \in {"queue", "ring", "store"} \/ x \in Goroutine
BY DEF held, Holder, Goroutine

(* All that is held is in memory or in the cache.                          *)
LEMMA HeldUnion ==
    /\ Held = Volatile \union Elems(store)
    /\ Held' = Volatile' \union Elems(store')
<1>1. /\ Held = UNION {Elems(held[h]) : h \in Holder}
      /\ Held' = UNION {Elems(held'[h]) : h \in Holder}
      /\ Volatile = Elems(queue) \union Elems(ring)
                    \union UNION {Elems(batch[g]) : g \in Goroutine}
      /\ Volatile' = Elems(queue') \union Elems(ring')
                     \union UNION {Elems(batch'[g]) : g \in Goroutine}
  BY DEF Held, Volatile, Elems
<1>2. QED
  BY <1>1, HeldAt, Zenon

(* Such a step keeps the items apart and accounted for.                    *)
LEMMA MovedFlow ==
    ASSUME FlowInv, NEW h \in Holder, NEW k \in Holder, h # k, Moved(h, k), Grows
    PROVE  FlowInv' /\ Due' \subseteq Due
<1> DEFINE before == Elems(held[h]) \union Elems(held[k]) \union NewItems
           after == Elems(held'[h]) \union Elems(held'[k])
<1>1. /\ \A x \in Holder : x # h /\ x # k => held'[x] = held[x]
      /\ Once(held'[h], kept') /\ Once(held'[k], kept')
      /\ Elems(held'[h]) \cap Elems(held'[k]) \subseteq kept'
      /\ after \subseteq before
      /\ before \subseteq after \union Settled'
  BY DEF Moved
<1>2. /\ \A x \in Holder : Once(held[x], kept)
      /\ \A x, y \in Holder : x # y => Elems(held[x]) \cap Elems(held[y]) \subseteq kept
  BY DEF FlowInv, Apart
<1>3. /\ \A x \in Holder : Elems(held[x]) \subseteq Held
      /\ \A x \in Holder : Elems(held'[x]) \subseteq Held'
  BY DEF Held, Elems
<1>4. \A i \in Held : i \notin NewItems
  BY DEF FlowInv, HeldIsMade, NewItems
<1>5. ASSUME NEW x \in Holder, x # h, x # k
      PROVE  Elems(held'[x]) \cap after \subseteq kept'
  <2>1. Elems(held[x]) \cap before \subseteq kept
    BY <1>2, <1>3, <1>4, <1>5
  <2>2. QED  BY <1>1, <1>5, <2>1 DEF Grows
<1>6. Apart'
  <2>1. ASSUME NEW x \in Holder  PROVE Once(held'[x], kept')
    BY <1>1, <1>2, OnceMore DEF Grows
  <2>2. ASSUME NEW x \in Holder, NEW y \in Holder, x # y
        PROVE  Elems(held'[x]) \cap Elems(held'[y]) \subseteq kept'
    <3>1. CASE x \notin {h, k} /\ y \notin {h, k}
      BY <1>1, <1>2, <2>2, <3>1 DEF Grows
    <3>2. CASE x \in {h, k} /\ y \in {h, k}
      BY <1>1, <2>2, <3>2
    <3>3. CASE x \notin {h, k} /\ y \in {h, k}
      BY <1>5, <3>3
    <3>4. CASE x \in {h, k} /\ y \notin {h, k}
      BY <1>5, <3>4
    <3>5. QED  BY <3>1, <3>2, <3>3, <3>4
  <2>3. QED
    BY <2>1, <2>2 DEF Apart, Elems, Once
<1>7. Held' \subseteq Held \union NewItems
  <2>1. \A x \in Holder : Elems(held'[x]) \subseteq Held \union NewItems
    BY <1>1, <1>3
  <2>2. Held' = UNION {Elems(held'[x]) : x \in Holder}
    BY DEF Held, Elems
  <2>3. QED  BY <2>1, <2>2
<1>8. Held \subseteq Held' \union Settled'
  <2>1. \A x \in Holder : Elems(held[x]) \subseteq Held' \union Settled'
    BY <1>1, <1>3
  <2>2. QED  BY <2>1 DEF Held
<1>9. NewItems \subseteq Held' \union Settled'
  BY <1>1, <1>3
<1>10. HeldIsMade'
  BY <1>7 DEF FlowInv, HeldIsMade, Grows, NewItems
<1>11. NothingVanishes'
  <2>1. SUFFICES ASSUME NEW i \in Item, Made(i)'  PROVE i \in Held' \union Settled'
    BY HeldUnion DEF NothingVanishes, Settled
  <2>2. CASE ~Made(i)
    BY <1>9, <2>1, <2>2 DEF NewItems
  <2>3. CASE Made(i)
    <3>1. i \in Held \union Settled
      BY <2>3, HeldUnion DEF FlowInv, NothingVanishes, Settled
    <3>2. QED  BY <1>8, <3>1 DEF Grows
  <2>4. QED  BY <2>2, <2>3
<1>12. Due' \subseteq Due
  BY <1>7 DEF Due, Grows, NewItems
<1>13. QED
  BY <1>6, <1>10, <1>11, <1>12 DEF FlowInv

(* So does one in which every holder gives some up, at most.               *)
LEMMA ShrinkFlow ==
    ASSUME FlowInv, Grows, NewItems = {},
           \A x \in Holder : /\ Once(held'[x], kept')
                             /\ Elems(held'[x]) \subseteq Elems(held[x])
                             /\ Elems(held[x]) \subseteq Elems(held'[x]) \union Settled'
    PROVE  FlowInv' /\ Due' \subseteq Due
<1>1. Held' = UNION {Elems(held'[x]) : x \in Holder}
  BY DEF Held, Elems
<1>2. Held' \subseteq Held /\ Held \subseteq Held' \union Settled'
  BY <1>1 DEF Held
<1>3. Apart'
  <2>1. \A x, y \in Holder : x # y => Elems(held'[x]) \cap Elems(held'[y]) \subseteq kept'
    BY DEF FlowInv, Apart, Grows
  <2>2. QED  BY <2>1 DEF Apart, Elems, Once
<1>4. HeldIsMade'
  BY <1>2 DEF FlowInv, HeldIsMade, Grows
<1>5. NothingVanishes'
  <2>1. SUFFICES ASSUME NEW i \in Item, Made(i)'  PROVE i \in Held' \union Settled'
    BY HeldUnion DEF NothingVanishes, Settled
  <2>2. Made(i)
    BY <2>1 DEF NewItems
  <2>3. i \in Held \union Settled
    BY <2>2, HeldUnion DEF FlowInv, NothingVanishes, Settled
  <2>4. QED  BY <1>2, <2>3 DEF Grows
<1>6. Due' \subseteq Due
  BY <1>2 DEF Due, Grows
<1>7. QED  BY <1>3, <1>4, <1>5, <1>6 DEF FlowInv

(* Steps that make nothing.                                                *)
LEMMA NothingMade ==
    ASSUME made' = made  PROVE NewItems = {} /\ \A i \in Item : Made(i) => Made(i)'
BY DEF NewItems, Made

(* One more metric or log line.                                            *)
LEMMA OneMade ==
    ASSUME MadeOK, NEW k \in {"metrics", "logs"}, <<k, made[k] + 1>> \in Item,
           made' = [made EXCEPT ![k] = made[k] + 1]
    PROVE  /\ NewItems = {<<k, made[k] + 1>>}
           /\ \A i \in Item : Made(i) => Made(i)'
<1>1. \A i \in Item : i[1] \in {"metrics", "logs"} /\ i[2] \in Nat /\ i = <<i[1], i[2]>>
  BY DEF Item
<1>2. /\ \A j \in {"metrics", "logs"} : made[j] \in Nat
      /\ made'[k] = made[k] + 1 /\ \A j \in {"metrics", "logs"} : j # k => made'[j] = made[j]
  BY DEF MadeOK
<1>3. \A i \in Item : Made(i) => Made(i)'
  BY <1>1, <1>2 DEF Made
<1>4. ASSUME NEW i \in Item  PROVE ~Made(i) /\ Made(i)' <=> i = <<k, made[k] + 1>>
  <2>1. CASE i[1] # k
    BY <1>1, <1>2, <2>1 DEF Made
  <2>2. CASE i[1] = k
    <3>1. ~Made(i) /\ Made(i)' <=> i[2] = made[k] + 1
      BY <1>1, <1>2, <2>2 DEF Made
    <3>2. QED  BY <1>1, <2>2, <3>1
  <2>3. QED  BY <2>1, <2>2
<1>5. QED
  BY <1>3, <1>4 DEF NewItems

(* The server applies a batch: nothing is less delivered.                  *)
LEMMA SettledGrows ==
    ASSUME HistoriesOK, givenUp \subseteq givenUp',
           delivered' = delivered \/ \E g \in Goroutine : delivered' = Applied(g, delivered)
    PROVE  Settled \subseteq Settled'
<1>1. \A i \in Item : delivered[i] > 0 => delivered'[i] > 0
  BY DEF HistoriesOK, Applied
<1>2. QED  BY <1>1 DEF Settled

(* A goroutine's batch changes.                                            *)
LEMMA BatchFrame ==
    ASSUME GoroutinesOK, NEW g \in Goroutine, NEW s, batch' = [batch EXCEPT ![g] = s]
    PROVE  held'[g] = s /\ \A x \in Goroutine : x # g => held'[x] = held[x]
BY HeldAt DEF GoroutinesOK

(* Steps that leave the items where they are.                              *)
LEMMA FlowSame ==
    ASSUME FlowInv, UNCHANGED <<queue, ring, store, batch, made, delivered, givenUp, kept>>
    PROVE  FlowInv' /\ Due' \subseteq Due
<1>1. held' = held
  BY DEF held
<1>2. Held' = Held
  BY <1>1 DEF Held
<1>3. Apart' /\ HeldIsMade'
  BY <1>1, <1>2 DEF FlowInv, Apart, HeldIsMade, Made
<1>4. NothingVanishes'
  BY <1>2, HeldUnion DEF FlowInv, NothingVanishes, Made
<1>5. Due' \subseteq Due
  BY <1>2 DEF Due, Made
<1>6. QED  BY <1>3, <1>4, <1>5 DEF FlowInv

(* The process ends: what it had in memory is given up.                    *)
LEMMA FlowDie == ASSUME CoreInv, FlowInv, Die  PROVE FlowInv' /\ Due' \subseteq Due
<1>1. /\ givenUp' = givenUp \union Volatile /\ queue' = <<>> /\ ring' = <<>>
      /\ batch' = [g \in Goroutine |-> <<>>] /\ UNCHANGED <<store, made, delivered, kept>>
  BY DEF Die
<1>2. \A x \in Holder : x # "store" => held'[x] = <<>>
  BY <1>1, HeldAt
<1>3. held'["store"] = held["store"]
  BY <1>1, HeldAt
<1>4. \A x \in Holder : x # "store" => Elems(held[x]) \subseteq Volatile
  BY HeldAt DEF Volatile
<1>5. Volatile \subseteq Settled' /\ Settled \subseteq Settled'
  BY <1>1 DEF Settled
<1>6. ASSUME NEW x \in Holder
      PROVE  /\ Once(held'[x], kept') /\ Elems(held'[x]) \subseteq Elems(held[x])
             /\ Elems(held[x]) \subseteq Elems(held'[x]) \union Settled'
  <2>1. CASE x = "store"
    BY <1>1, <1>3, <2>1 DEF FlowInv, Apart
  <2>2. CASE x # "store"
    BY <1>2, <1>4, <1>5, <2>2, ElemsEmpty
  <2>3. QED  BY <2>1, <2>2
<1>7. NewItems = {} /\ Grows
  BY <1>1, <1>5, NothingMade DEF Grows
<1>8. QED  BY <1>6, <1>7, ShrinkFlow

(* A line is logged; the oldest one makes room.                            *)
LEMMA FlowLog == ASSUME CoreInv, FlowInv, Log  PROVE FlowInv' /\ Due' \subseteq Due
<1> DEFINE i == <<"logs", made["logs"] + 1>>
           full == Len(ring) >= RingMax
           rest == IF full THEN Tail(ring) ELSE ring
<1>1. QueuesOK /\ GoroutinesOK /\ HistoriesOK /\ MadeOK
  BY TypeParts DEF CoreInv
<1>2. /\ made["logs"] < MaxLogs
      /\ made' = [made EXCEPT !["logs"] = made["logs"] + 1]
      /\ ring' = Append(rest, i)
      /\ givenUp' = IF full THEN givenUp \union {Head(ring)} ELSE givenUp
      /\ UNCHANGED <<queue, batch, store, delivered, kept>>
  BY DEF Log
<1>3. i \in Item
  BY <1>1, <1>2, TelemetryConstants DEF Item, MadeOK
<1>4. NewItems = {i} /\ \A j \in Item : Made(j) => Made(j)'
  BY <1>1, <1>2, <1>3, OneMade
<1>5. full => ring # <<>>
  BY <1>1, TelemetryConstants DEF QueuesOK
<1>6. Once(ring, kept) /\ Elems(ring) \cap Elems(queue) \subseteq kept /\ Once(queue, kept)
  BY HeldAt DEF FlowInv, Apart
<1>7. /\ rest \in Seq(Item) /\ Once(rest, kept) /\ Elems(rest) \subseteq Elems(ring)
      /\ full => Elems(ring) = {Head(ring)} \union Elems(rest)
      /\ ~full => Elems(rest) = Elems(ring)
  BY <1>1, <1>5, <1>6, ElemsTail DEF QueuesOK
<1>8. i \notin Held
  BY <1>4 DEF FlowInv, HeldIsMade, NewItems
<1>9. Elems(ring) \subseteq Held /\ Elems(queue) \subseteq Held
  BY HeldUnion DEF Volatile
<1> HIDE DEF i, rest, full
<1>10. Elems(ring') = Elems(rest) \union {i} /\ Once(ring', kept)
  BY <1>2, <1>3, <1>7, <1>8, <1>9, ElemsAppend
<1>11. Elems(ring) \subseteq Elems(rest) \union Settled'
  BY <1>2, <1>7 DEF Settled
<1>12. Grows
  BY <1>1, <1>2, <1>4, SettledGrows DEF Grows
<1>13. \A x \in Holder : x # "ring" /\ x # "queue" => held'[x] = held[x]
  BY <1>2, HeldAt
<1>14. Moved("ring", "queue")
  BY <1>2, <1>4, <1>6, <1>7, <1>8, <1>9, <1>10, <1>11, <1>13, HeldAt DEF Moved
<1>15. QED
  BY <1>12, <1>14, HeldAt, MovedFlow

(* A metric is queued, and perhaps the queue becomes the batch.            *)
LEMMA FlowMetrics ==
    ASSUME CoreInv, FlowInv, MetricsTick \/ MetricsDone
    PROVE  FlowInv' /\ Due' \subseteq Due
<1>1. QueuesOK /\ GoroutinesOK /\ HistoriesOK /\ MadeOK
  BY TypeParts DEF CoreInv
<1>2. pc["metrics"] = "wait" /\ UNCHANGED <<ring, store, delivered, givenUp, kept>>
  BY DEF MetricsTick, MetricsDone
<1>3. batch["metrics"] = <<>> /\ held["metrics"] = <<>>
  BY <1>1, <1>2, Goroutines, HeldAt DEF GoroutinesOK, Working
<1>4. Once(queue, kept)
  BY HeldAt DEF FlowInv, Apart
<1>5. Settled \subseteq Settled'
  BY <1>1, <1>2, SettledGrows
<1>m. ASSUME Moved("queue", "metrics"), \A j \in Item : Made(j) => Made(j)'
      PROVE  FlowInv' /\ Due' \subseteq Due
  BY <1>2, <1>5, <1>m, Goroutines, HeldAt, MovedFlow DEF Grows
<1>6. CASE MetricsTick
  <2> DEFINE i == <<"metrics", made["metrics"] + 1>>
             q == Append(queue, i)
  <2>1. /\ made["metrics"] < MaxMetrics
        /\ made' = [made EXCEPT !["metrics"] = made["metrics"] + 1]
        /\ \/ queue' = <<>> /\ batch' = [batch EXCEPT !["metrics"] = q]
           \/ queue' = q /\ UNCHANGED batch
    BY <1>6 DEF MetricsTick
  <2>2. i \in Item
    BY <1>1, <2>1, TelemetryConstants DEF Item, MadeOK
  <2>3. NewItems = {i} /\ \A j \in Item : Made(j) => Made(j)'
    BY <1>1, <2>1, <2>2, OneMade
  <2>4. i \notin Elems(queue)
    <3>1. Elems(queue) \subseteq Held
      BY HeldUnion DEF Volatile
    <3>2. QED
      BY <2>3, <3>1 DEF FlowInv, HeldIsMade, NewItems
  <2> HIDE DEF i
  <2>5. Elems(q) = Elems(queue) \union {i} /\ Once(q, kept)
    BY <1>1, <1>4, <2>2, <2>4, ElemsAppend DEF QueuesOK
  <2> HIDE DEF q
  <2>6. CASE queue' = <<>> /\ batch' = [batch EXCEPT !["metrics"] = q]
    <3>1. held'["metrics"] = q /\ \A x \in Goroutine : x # "metrics" => held'[x] = held[x]
      BY <1>1, <2>6, Goroutines, BatchFrame
    <3>2. \A x \in Holder : x # "queue" /\ x # "metrics" => held'[x] = held[x]
      BY <1>2, <3>1, HeldAt
    <3>3. Moved("queue", "metrics")
      BY <1>2, <1>3, <2>3, <2>5, <2>6, <3>1, <3>2, HeldAt, ElemsEmpty DEF Moved
    <3>4. QED  BY <1>m, <2>3, <3>3
  <2>7. CASE queue' = q /\ UNCHANGED batch
    <3>1. \A x \in Holder : x # "queue" => held'[x] = held[x]
      BY <1>2, <2>7, HeldAt
    <3>2. held'["metrics"] = <<>>
      BY <1>3, <2>7, Goroutines, HeldAt
    <3>3. Moved("queue", "metrics")
      BY <1>2, <1>3, <2>3, <2>5, <2>7, <3>1, <3>2, HeldAt, ElemsEmpty DEF Moved
    <3>4. QED  BY <1>m, <2>3, <3>3
  <2>8. QED  BY <2>1, <2>6, <2>7
<1>7. CASE MetricsDone
  <2>1. queue' = <<>> /\ batch' = [batch EXCEPT !["metrics"] = queue] /\ made' = made
    BY <1>7 DEF MetricsDone
  <2>2. held'["metrics"] = queue /\ \A x \in Goroutine : x # "metrics" => held'[x] = held[x]
    BY <1>1, <2>1, Goroutines, BatchFrame
  <2>3. \A x \in Holder : x # "queue" /\ x # "metrics" => held'[x] = held[x]
    BY <1>2, <2>2, HeldAt
  <2>4. Moved("queue", "metrics")
    BY <1>2, <1>3, <1>4, <2>1, <2>2, <2>3, NothingMade, HeldAt, ElemsEmpty DEF Moved
  <2>5. QED  BY <1>m, <2>1, <2>4, NothingMade
<1>8. QED  BY <1>6, <1>7

(* The logs goroutine drains a first part of the ring.                     *)
LEMMA FlowDrain ==
    ASSUME CoreInv, FlowInv, LogsTick \/ LogsDone  PROVE FlowInv' /\ Due' \subseteq Due
<1> DEFINE a == SubSeq(ring, 1, DrainCount)
           b == SubSeq(ring, DrainCount + 1, Len(ring))
<1>1. QueuesOK /\ GoroutinesOK /\ HistoriesOK
  BY TypeParts DEF CoreInv
<1>2. /\ pc["logs"] = "wait" /\ batch' = [batch EXCEPT !["logs"] = a] /\ ring' = b
      /\ UNCHANGED <<queue, store, made, delivered, givenUp, kept>>
  BY DEF LogsTick, LogsDone, Drain
<1>3. held["logs"] = <<>>
  BY <1>1, <1>2, Goroutines, HeldAt DEF GoroutinesOK, Working
<1>4. DrainCount \in 0..Len(ring)
  BY <1>1, TelemetryConstants DEF DrainCount, QueuesOK
<1>5. Once(ring, kept)
  BY HeldAt DEF FlowInv, Apart
<1>6. /\ Elems(ring) = Elems(a) \union Elems(b)
      /\ Once(a, kept) /\ Once(b, kept) /\ Elems(a) \cap Elems(b) \subseteq kept
  BY <1>1, <1>4, <1>5, ElemsSplit DEF QueuesOK
<1> HIDE DEF a, b
<1>7. held'["logs"] = a /\ \A x \in Goroutine : x # "logs" => held'[x] = held[x]
  BY <1>1, <1>2, Goroutines, BatchFrame
<1>8. \A x \in Holder : x # "ring" /\ x # "logs" => held'[x] = held[x]
  BY <1>2, <1>7, HeldAt
<1>9. Moved("ring", "logs")
  BY <1>2, <1>3, <1>6, <1>7, <1>8, NothingMade, HeldAt, ElemsEmpty DEF Moved
<1>10. Grows
  BY <1>1, <1>2, NothingMade, SettledGrows DEF Grows
<1>11. QED
  BY <1>9, <1>10, Goroutines, HeldAt, MovedFlow

(* The recovery goroutine pops entries from the cache.                     *)
LEMMA FlowRecover ==
    ASSUME CoreInv, FlowInv, RecoverMetrics \/ RecoverLogs \/ PopAstray
    PROVE  FlowInv' /\ Due' \subseteq Due
<1>1. QueuesOK /\ GoroutinesOK /\ HistoriesOK
  BY TypeParts DEF CoreInv
<1>2. PICK out \in SUBSET Places, stuck \in SUBSET Places, bad \in SUBSET Places :
        /\ stuck \in SUBSET out /\ bad \in SUBSET out
        /\ \/ HandOut("sleep", "popLogs", out, stuck, bad)
           \/ HandOut("popLogs", "done", out, stuck, bad)
  BY PopShape
<1> DEFINE P == out \ bad
           Q == Places \ (out \ stuck)
           a == Entries(P)
           b == Entries(Q)
<1>3. /\ pc["recovery"] \in {"sleep", "popLogs"}
      /\ batch' = [batch EXCEPT !["recovery"] = a] /\ store' = b
      /\ kept' = kept \union At(stuck) /\ givenUp' = givenUp \union At(bad)
      /\ UNCHANGED <<queue, ring, made, delivered>>
  BY <1>2 DEF HandOut
<1>4. held["recovery"] = <<>>
  BY <1>1, <1>3, Goroutines, HeldAt DEF GoroutinesOK, Working
<1>5. /\ P \in SUBSET Places /\ Q \in SUBSET Places /\ P \union Q \union bad = Places
      /\ P \cap Q \subseteq stuck
  BY <1>2
<1>6. Once(store, kept) /\ store \in Seq(Item) /\ kept \subseteq kept'
  BY <1>1, <1>3, HeldAt DEF FlowInv, Apart, QueuesOK
<1>7. Elems(a) = At(P) /\ Elems(b) = At(Q) /\ Once(a, kept') /\ Once(b, kept')
  <2>1. Once(store, kept')
    BY <1>6, OnceMore
  <2> HIDE DEF P, Q
  <2>2. QED  BY <1>5, <1>6, <2>1, ElemsEntries
<1> HIDE DEF P, Q, a, b
<1>8. \A m, n \in Places : store[m] = store[n] => m = n \/ store[m] \in kept
  BY <1>6 DEF Once, Places
<1>9. Elems(store) = At(Places)
  BY DEF Elems, Places, At
<1>10. Elems(a) \cap Elems(b) \subseteq kept'
  <2>1. SUFFICES ASSUME NEW m \in P, NEW n \in Q, store[m] = store[n]
                 PROVE  store[m] \in kept'
    BY <1>7 DEF At
  <2>2. CASE m = n
    <3>1. m \in stuck
      BY <1>5, <2>2
    <3>2. QED  BY <1>3, <3>1 DEF At
  <2>3. CASE m # n
    BY <1>5, <1>6, <1>8, <2>1, <2>3
  <2>4. QED  BY <2>2, <2>3
<1>11. /\ Elems(a) \union Elems(b) \subseteq Elems(store)
       /\ Elems(store) \subseteq Elems(a) \union Elems(b) \union At(bad)
  BY <1>5, <1>7, <1>9 DEF At
<1>12. At(bad) \subseteq Settled'
  BY <1>3 DEF Settled
<1>13. held'["recovery"] = a /\ held'["store"] = b
       /\ \A x \in Goroutine : x # "recovery" => held'[x] = held[x]
  BY <1>1, <1>3, Goroutines, BatchFrame, HeldAt
<1>14. \A x \in Holder : x # "store" /\ x # "recovery" => held'[x] = held[x]
  BY <1>3, <1>13, HeldAt
<1>15. Moved("store", "recovery")
  BY <1>3, <1>4, <1>7, <1>10, <1>11, <1>12, <1>13, <1>14, NothingMade, HeldAt, ElemsEmpty
     DEF Moved
<1>16. Grows
  BY <1>1, <1>3, <1>6, NothingMade, SettledGrows DEF Grows
<1>17. QED
  BY <1>15, <1>16, Goroutines, HeldAt, MovedFlow

(* A batch is uploaded, put into the cache, or lost to a panic.            *)
LEMMA FlowUpload ==
    ASSUME CoreInv, FlowInv, NEW g \in Goroutine, Upload(g) \/ Panic(g)
    PROVE  FlowInv' /\ Due' \subseteq Due
<1>1. QueuesOK /\ GoroutinesOK /\ HistoriesOK
  BY TypeParts DEF CoreInv
<1>2. UNCHANGED <<ring, made, kept>>
  BY DEF Upload, PostSucceeds, PostFails, ReplyLost, PushNext, PushPassesOver, PushRefused,
     Rest, Panic, PanicAt
<1>3. /\ batch[g] \in Seq(Item) /\ held[g] = batch[g] /\ Once(batch[g], kept)
      /\ Once(queue, kept) /\ Once(store, kept) /\ store \in Seq(Item)
      /\ Elems(batch[g]) \cap Elems(store) \subseteq kept
  BY <1>1, Goroutines, HeldAt DEF GoroutinesOK, QueuesOK, FlowInv, Apart
<1>4. Elems(batch[g]) \subseteq Item
  BY <1>3, ElemsType
<1>5. NewItems = {} /\ \A i \in Item : Made(i) => Made(i)'
  BY <1>2, NothingMade
<1>6. ASSUME NEW s \in Seq(Item), batch' = [batch EXCEPT ![g] = s] \/ (batch' = batch /\ s = batch[g]),
             Settled \subseteq Settled',
             Once(s, kept), Elems(s) \subseteq Elems(batch[g]),
             Elems(batch[g]) \subseteq Elems(s) \union Settled',
             Once(store', kept), Elems(store') \subseteq Elems(store),
             Elems(store) \subseteq Elems(store') \union Settled',
             \/ queue' = queue
             \/ queue' = <<>> /\ Elems(queue) \subseteq Settled'
      PROVE  FlowInv' /\ Due' \subseteq Due
  <2>1. held'[g] = s /\ \A x \in Goroutine : x # g => held'[x] = held[x]
    <3>1. CASE batch' = [batch EXCEPT ![g] = s]
      BY <1>1, <3>1, BatchFrame
    <3>2. CASE batch' = batch /\ s = batch[g]
      BY <3>2, HeldAt
    <3>3. QED  BY <1>6, <3>1, <3>2
  <2>2. /\ Once(queue', kept) /\ Elems(queue') \subseteq Elems(queue)
        /\ Elems(queue) \subseteq Elems(queue') \union Settled'
    BY <1>3, <1>6, ElemsEmpty
  <2>3. \A x \in Holder : x \notin {g, "queue", "store"} => held'[x] = held[x]
    BY <1>2, <2>1, HeldAt
  <2>4. ASSUME NEW x \in Holder
        PROVE  /\ Once(held'[x], kept') /\ Elems(held'[x]) \subseteq Elems(held[x])
               /\ Elems(held[x]) \subseteq Elems(held'[x]) \union Settled'
    <3>1. CASE x \notin {g, "queue", "store"}
      BY <1>2, <2>3, <3>1 DEF FlowInv, Apart
    <3>2. CASE x = g
      BY <1>2, <1>3, <1>6, <2>1, <3>2
    <3>3. CASE x = "queue"
      BY <1>2, <2>2, <3>3, HeldAt
    <3>4. CASE x = "store"
      BY <1>2, <1>6, <3>4, HeldAt
    <3>5. QED  BY <3>1, <3>2, <3>3, <3>4
  <2>5. Grows
    BY <1>2, <1>5, <1>6 DEF Grows
  <2>6. QED  BY <1>5, <2>4, <2>5, ShrinkFlow
<1>7. CASE PostSucceeds(g)
  <2>1. /\ batch' = [batch EXCEPT ![g] = <<>>] /\ delivered' = Applied(g, delivered)
        /\ UNCHANGED <<queue, store, givenUp>>
    BY <1>7 DEF PostSucceeds
  <2>2. Settled \subseteq Settled'
    BY <1>1, <2>1, SettledGrows
  <2>3. Elems(batch[g]) \subseteq Settled'
    <3>1. \A i \in Item : i \in Elems(batch[g]) => delivered'[i] > 0
      BY <1>1, <2>1 DEF Applied, HistoriesOK
    <3>2. QED  BY <1>4, <3>1 DEF Settled
  <2>4. QED  BY <1>3, <1>6, <2>1, <2>2, <2>3, ElemsEmpty
<1>8. CASE PostFails(g) \/ ReplyLost(g)
  <2>1. /\ AttemptFailed(g) /\ UNCHANGED <<queue, store>>
        /\ delivered' = delivered \/ delivered' = Applied(g, delivered)
    BY <1>8 DEF PostFails, ReplyLost
  <2>2. \/ UNCHANGED <<batch, givenUp>>
        \/ /\ batch' = [batch EXCEPT ![g] = <<>>]
           /\ givenUp' = givenUp \union Elems(batch[g])
    BY <2>1 DEF AttemptFailed
  <2>3. Settled \subseteq Settled'
    BY <1>1, <2>1, <2>2, SettledGrows
  <2>4. CASE UNCHANGED <<batch, givenUp>>
    BY <1>3, <1>6, <2>1, <2>3, <2>4
  <2>5. CASE /\ batch' = [batch EXCEPT ![g] = <<>>]
             /\ givenUp' = givenUp \union Elems(batch[g])
    <3>1. Elems(batch[g]) \subseteq Settled'
      BY <2>5 DEF Settled
    <3>2. QED  BY <1>3, <1>6, <2>1, <2>3, <2>5, <3>1, ElemsEmpty
  <2>6. QED  BY <2>2, <2>4, <2>5
<1>9. CASE PushNext(g) \/ PushPassesOver(g) \/ PushRefused(g)
  <2> DEFINE e == Head(batch[g])
             t == Tail(batch[g])
  <2>1. /\ pc[g] = "cache" /\ batch' = [batch EXCEPT ![g] = t]
        /\ UNCHANGED <<queue, delivered>>
    BY <1>9 DEF PushNext, PushPassesOver, PushRefused, Rest
  <2>2. batch[g] # <<>>
    BY <1>1, <2>1 DEF GoroutinesOK, Working
  <2>3. /\ e \in Item /\ t \in Seq(Item) /\ Elems(batch[g]) = {e} \union Elems(t)
        /\ Once(t, kept) /\ (e \notin Elems(t) \/ e \in kept)
    BY <1>3, <2>2, ElemsTail
  <2>4. PICK old \in SUBSET Places : Stored(g, old) \/ Refused(g, old)
    BY <1>9, PushShape
  <2> DEFINE r == Entries(Places \ old)
  <2>5. /\ r \in Seq(Item) /\ Once(r, kept) /\ Elems(r) \subseteq Elems(store)
        /\ Elems(store) \subseteq Elems(r) \union At(old)
    BY <1>3, ElemsEvicted
  <2>6. CASE Refused(g, old)
    <3>1. givenUp' = givenUp \union At(old) \union {e} /\ store' = r
      BY <2>6 DEF Refused
    <3> HIDE DEF e, t, r
    <3>2. Settled \subseteq Settled' /\ e \in Settled' /\ At(old) \subseteq Settled'
      BY <1>1, <2>1, <3>1, SettledGrows DEF Settled
    <3>3. QED  BY <1>6, <2>1, <2>3, <2>5, <3>1, <3>2
  <2>7. CASE Stored(g, old)
    <3>1. givenUp' = givenUp \union At(old) /\ store' = Append(r, e)
      BY <2>7 DEF Stored
    <3> HIDE DEF e, t, r
    <3>2. Settled \subseteq Settled' /\ At(old) \subseteq Settled'
      BY <1>1, <2>1, <3>1, SettledGrows DEF Settled
    <3>3. e \notin Elems(r) \/ e \in kept
      BY <1>3, <2>3, <2>5
    <3>4. Elems(store') = Elems(r) \union {e} /\ Once(store', kept)
      BY <2>3, <2>5, <3>1, <3>3, ElemsAppend
    <3>5. held'[g] = t /\ \A x \in Goroutine : x # g => held'[x] = held[x]
      BY <1>1, <2>1, BatchFrame
    <3>6. \A x \in Holder : x # g /\ x # "store" => held'[x] = held[x]
      BY <1>2, <2>1, <3>5, HeldAt
    <3>7. Elems(t) \cap Elems(store') \subseteq kept
      BY <1>3, <2>3, <2>5, <3>4
    <3>8. /\ Elems(t) \union Elems(store') \subseteq Elems(batch[g]) \union Elems(store)
          /\ Elems(batch[g]) \union Elems(store)
               \subseteq Elems(t) \union Elems(store') \union Settled'
      BY <2>3, <2>5, <3>2, <3>4
    <3>9. Moved(g, "store")
      BY <1>2, <1>3, <1>5, <2>3, <3>4, <3>5, <3>6, <3>7, <3>8, HeldAt DEF Moved
    <3>10. Grows
      BY <1>2, <1>5, <3>2 DEF Grows
    <3>11. g \in Holder /\ "store" \in Holder /\ g # "store"
      BY Goroutines, HeldAt
    <3>12. QED  BY <3>9, <3>10, <3>11, MovedFlow
  <2>8. QED  BY <2>4, <2>6, <2>7
<1>10. CASE Panic(g)
  <2>1. PICK old \in SUBSET Places : PanicAt(g, old)
    BY <1>10 DEF Panic, OldEnds
  <2>2. /\ batch' = [batch EXCEPT ![g] = <<>>]
        /\ queue' = IF g = "metrics" THEN <<>> ELSE queue
        /\ store' = Entries(Places \ old)
        /\ givenUp' = givenUp \union At(old) \union Elems(batch[g])
                      \union (IF g = "metrics" THEN Elems(queue) ELSE {})
        /\ UNCHANGED delivered
    BY <2>1 DEF PanicAt
  <2>3. Settled \subseteq Settled'
    BY <1>1, <2>2, SettledGrows
  <2>4. Elems(batch[g]) \subseteq Settled' /\ At(old) \subseteq Settled'
        /\ (g = "metrics" => Elems(queue) \subseteq Settled')
    BY <2>2 DEF Settled
  <2>5. /\ Once(store', kept) /\ Elems(store') \subseteq Elems(store)
        /\ Elems(store) \subseteq Elems(store') \union At(old)
    BY <1>3, <2>2, ElemsEvicted
  <2>6. QED  BY <1>6, <2>2, <2>3, <2>4, <2>5, ElemsEmpty
<1>11. QED
  BY <1>7, <1>8, <1>9, <1>10 DEF Upload

(* A step keeps the items apart and accounted for, and makes no item due   *)
(* that is settled.                                                        *)
LEMMA FlowStep ==
    ASSUME CoreInv, FlowInv, [Next]_vars  PROVE FlowInv' /\ Due' \subseteq Due
<1>1. CASE Start \/ Sigterm \/ PopFails \/ UNCHANGED vars
  BY <1>1, FlowSame DEF Start, Sigterm, PopFails, vars
<1>2. CASE Crash \/ Exit
  BY <1>2, FlowDie DEF Crash, Exit
<1>3. QED
  BY <1>1, <1>2, FlowLog, FlowMetrics, FlowDrain, FlowRecover, FlowUpload DEF Next

(* Nothing is made before the first start.                                 *)
LEMMA InitFlow == Init => FlowInv /\ SentInv
<1> SUFFICES ASSUME Init  PROVE FlowInv /\ SentInv
  OBVIOUS
<1>1. \A h \in Holder : held[h] = <<>>
  BY HeldAt DEF Init
<1>2. Apart /\ Held = {}
  BY <1>1, ElemsEmpty DEF Apart, Held
<1>3. \A i \in Item : ~Made(i)
  BY TelemetryConstants DEF Init, Item, Made
<1>4. \A i \in Item : delivered[i] = 0 /\ unknown[i] = 0
  BY DEF Init
<1>5. FlowInv
  BY <1>2, <1>3 DEF FlowInv, HeldIsMade, NothingVanishes
<1>6. SentInv
  BY <1>4 DEF SentInv
<1>7. QED  BY <1>5, <1>6

(* The items are apart and accounted for.                                  *)
THEOREM FlowInvariance == Spec => []FlowInv
<1>1. CoreInv /\ FlowInv /\ [Next]_vars => FlowInv'
  BY FlowStep
<1>2. Init => FlowInv
  BY InitFlow
<1>3. QED
  BY <1>1, <1>2, CoreInvariance, PTL DEF Spec

(* Every metric collected and every line logged is with the server, in     *)
(* memory, in the cache, or was dropped where the code drops it knowingly  *)
(* (runAgent, uploader, buffer, cache).                                    *)
THEOREM AllAccountedFor == Spec => []NothingVanishes
<1>1. FlowInv => NothingVanishes
  BY DEF FlowInv
<1>2. QED
  BY <1>1, FlowInvariance, PTL

(* No item is in two of queue, ring, batches and cache, or twice in one,   *)
(* unless popKind could not remove its file (runAgent's goroutines and     *)
(* popKind).                                                               *)
THEOREM SingleOwner == Spec => []OneOwner
<1>1. CoreInv /\ FlowInv => OneOwner
  <2> SUFFICES ASSUME CoreInv, FlowInv  PROVE OneOwner
    OBVIOUS
  <2> DEFINE m == batch["metrics"]
             l == batch["logs"]
             c == batch["recovery"]
  <2>1. /\ queue \in Seq(Item) /\ ring \in Seq(Item) /\ store \in Seq(Item)
        /\ m \in Seq(Item) /\ l \in Seq(Item) /\ c \in Seq(Item)
    BY TypeParts, Goroutines DEF CoreInv, QueuesOK, GoroutinesOK
  <2>2. /\ Once(queue, kept) /\ Once(ring, kept) /\ Once(store, kept)
        /\ Once(m, kept) /\ Once(l, kept) /\ Once(c, kept)
    BY HeldAt, Goroutines DEF FlowInv, Apart
  <2>3. \A h, k \in Holder : h # k => Elems(held[h]) \cap Elems(held[k]) \subseteq kept
    BY DEF FlowInv, Apart
  <2>4. /\ Elems(queue) \cap Elems(ring) \subseteq kept
        /\ (Elems(queue) \union Elems(ring)) \cap Elems(m) \subseteq kept
        /\ (Elems(queue) \union Elems(ring) \union Elems(m)) \cap Elems(l) \subseteq kept
        /\ (Elems(queue) \union Elems(ring) \union Elems(m) \union Elems(l))
             \cap Elems(c) \subseteq kept
        /\ (Elems(queue) \union Elems(ring) \union Elems(m) \union Elems(l) \union Elems(c))
             \cap Elems(store) \subseteq kept
    BY <2>3, HeldAt, Goroutines, SMTT(20)
  <2> HIDE DEF m, l, c
  <2> DEFINE A == queue \o ring
             B == A \o m
             C == B \o l
             D == C \o c
  <2>5. A \in Seq(Item) /\ Once(A, kept) /\ Elems(A) = Elems(queue) \union Elems(ring)
    BY <2>1, <2>2, <2>4, ElemsConcat
  <2> HIDE DEF A
  <2>6. B \in Seq(Item) /\ Once(B, kept) /\ Elems(B) = Elems(A) \union Elems(m)
    BY <2>1, <2>2, <2>4, <2>5, ElemsConcat
  <2> HIDE DEF B
  <2>7. C \in Seq(Item) /\ Once(C, kept) /\ Elems(C) = Elems(B) \union Elems(l)
    BY <2>1, <2>2, <2>4, <2>5, <2>6, ElemsConcat
  <2> HIDE DEF C
  <2>8. D \in Seq(Item) /\ Once(D, kept) /\ Elems(D) = Elems(C) \union Elems(c)
    BY <2>1, <2>2, <2>4, <2>5, <2>6, <2>7, ElemsConcat
  <2> HIDE DEF D
  <2>9. Once(D \o store, kept)
    BY <2>1, <2>2, <2>4, <2>5, <2>6, <2>7, <2>8, ElemsConcat
  <2>10. QED
    BY <2>9 DEF OneOwner, Once, A, B, C, D, m, l, c
<1>2. QED
  BY <1>1, CoreInvariance, FlowInvariance, PTL

(* A step applies a batch at most once more than it loses the reply.       *)
LEMMA SentStep ==
    ASSUME CoreInv, FlowInv, SentInv, [Next]_vars, FlowInv', Due' \subseteq Due
    PROVE  SentInv'
<1>1. GoroutinesOK /\ HistoriesOK
  BY TypeParts DEF CoreInv
<1>2. \A i \in Item : delivered[i] \in Nat /\ unknown[i] \in Nat
  BY <1>1 DEF HistoriesOK
<1>k. kept \subseteq kept'
  BY DEF Next, vars, Start, Crash, Sigterm, Exit, Die, Log, MetricsTick, MetricsDone,
     LogsTick, LogsDone, Drain, RecoverMetrics, RecoverLogs, RecoverKind, PopAstray,
     RecoverAstray, HandOut, PopFails, Upload, PostSucceeds, PostFails, ReplyLost, PushNext,
     PushPassesOver, PushRefused, Rest, Panic, PanicAt
<1>3. CASE UNCHANGED <<delivered, unknown>>
  BY <1>3, <1>k DEF SentInv
<1>4. ASSUME NEW g \in Goroutine, PostSucceeds(g)  PROVE SentInv'
  <2>1. /\ batch' = [batch EXCEPT ![g] = <<>>] /\ delivered' = Applied(g, delivered)
        /\ UNCHANGED <<queue, ring, store, unknown, made, kept>>
    BY <1>4 DEF PostSucceeds
  <2>2. held'[g] = <<>> /\ \A x \in Holder : x # g => held'[x] = held[x]
    BY <1>1, <2>1, BatchFrame, HeldAt
  <2>3. Elems(batch[g]) \subseteq Held
    BY HeldUnion DEF Volatile
  <2>4. Elems(batch[g]) \cap Held' \subseteq kept
    <3>1. \A x \in Holder : Elems(held'[x]) \cap Elems(batch[g]) \subseteq kept
      BY <2>2, HeldAt, ElemsEmpty DEF FlowInv, Apart
    <3>2. Held' = UNION {Elems(held'[x]) : x \in Holder}
      BY DEF Held, Elems
    <3>3. QED  BY <3>1, <3>2
  <2>5. \A i \in Elems(batch[g]) \ kept : i \in Due /\ i \notin Due'
    BY <2>1, <2>3, <2>4 DEF FlowInv, HeldIsMade, Due, Made
  <2>6. \A i \in Item : delivered'[i] = IF i \in Elems(batch[g]) THEN delivered[i] + 1
                                        ELSE delivered[i]
    BY <2>1 DEF Applied
  <2>7. QED
    BY <1>2, <2>1, <2>5, <2>6 DEF SentInv
<1>5. ASSUME NEW g \in Goroutine, ReplyLost(g)  PROVE SentInv'
  <2>1. delivered' = Applied(g, delivered) /\ unknown' = Applied(g, unknown)
    BY <1>5 DEF ReplyLost
  <2>2. \A i \in Item :
          \/ delivered'[i] = delivered[i] + 1 /\ unknown'[i] = unknown[i] + 1
          \/ delivered'[i] = delivered[i] /\ unknown'[i] = unknown[i]
    BY <2>1 DEF Applied
  <2>3. QED
    BY <1>2, <1>k, <2>2 DEF SentInv
<1>6. QED
  BY <1>3, <1>4, <1>5 DEF Next, vars, Start, Crash, Sigterm, Exit, Die, Log, MetricsTick,
     MetricsDone, LogsTick, LogsDone, Drain, RecoverMetrics, RecoverLogs, RecoverKind,
     PopAstray, RecoverAstray, HandOut, PopFails, Upload, PostFails, PushNext,
     PushPassesOver, PushRefused, Rest, Panic, PanicAt

(* The server applies an item once more than it loses the reply, at most,  *)
(* unless popKind could not remove its file: retries, caching and recovery *)
(* never duplicate after a clean error (client.Post, runAgent).            *)
THEOREM NoCleanDuplicate == Spec => []DuplicateOnlyAfterLostReply
<1>1. CoreInv /\ FlowInv /\ SentInv /\ [Next]_vars => SentInv'
  BY FlowStep, SentStep
<1>2. Init => SentInv
  BY InitFlow
<1>3. SentInv => DuplicateOnlyAfterLostReply
  BY DEF SentInv, DuplicateOnlyAfterLostReply
<1>4. QED
  BY <1>1, <1>2, <1>3, CoreInvariance, FlowInvariance, PTL DEF Spec
-----------------------------------------------------------------------------
(* The cache of the pipeline as the abstract store.  Entries are dated in  *)
(* the order they are listed in, and a date is given once.                 *)
Ordered(d) == \A i, j \in 1..Len(d) : i < j => d[i] < d[j]

DatesInv ==
    /\ clock \in Nat /\ dates \in Seq(Nat) /\ Len(dates) = Len(store)
    /\ \A i \in 1..Len(dates) : dates[i] <= clock
    /\ Ordered(dates)
    /\ \A f \in taken : f.seq \in Nat /\ f.seq <= clock

Pairs(s, d) == {[seq |-> d[i], kind |-> s[i][1]] : i \in 1..Len(s)}

(* A place before another has the lower rank.                              *)
LEMMA RankOrder ==
    ASSUME NEW n \in Nat, NEW P \in SUBSET (1..n), NEW i \in P, NEW j \in P,
           Cardinality(UpTo(P, i)) < Cardinality(UpTo(P, j))
    PROVE  i < j
<1>1. SUFFICES ASSUME j <= i  PROVE FALSE
  OBVIOUS
<1>2. UpTo(P, j) \in SUBSET UpTo(P, i)
  <2>1. \A k \in P : k \in Int
    OBVIOUS
  <2>2. \A k \in P : k <= j => k <= i
    BY <1>1, <2>1
  <2>3. QED  BY <2>2 DEF UpTo
<1>3. IsFiniteSet(P)
  BY Rank
<1>4. IsFiniteSet(UpTo(P, i))
  BY <1>3, FS_Subset DEF UpTo
<1>5. /\ Cardinality(UpTo(P, j)) <= Cardinality(UpTo(P, i))
      /\ Cardinality(UpTo(P, i)) \in Nat /\ Cardinality(UpTo(P, j)) \in Nat
  BY <1>2, <1>4, FS_Subset, FS_CardinalityType
<1>6. QED  BY <1>5

(* What stays after a pop keeps its date and its order.                    *)
LEMMA DatesKept ==
    ASSUME store \in Seq(Item), dates \in Seq(Nat), Len(dates) = Len(store), Ordered(dates),
           NEW P \in SUBSET Places
    PROVE  LET d == DatesAt(P)
           IN  /\ d \in Seq(Nat) /\ Len(d) = Len(Entries(P)) /\ Ordered(d)
               /\ \A n \in 1..Len(d) : \E i \in 1..Len(dates) : d[n] = dates[i]
               /\ Pairs(Entries(P), d) = EntriesAt(P)
<1> DEFINE c == Cardinality(P)
           pick == [n \in 1..c |-> CHOOSE i \in P : Cardinality(UpTo(P, i)) = n]
           d == DatesAt(P)
<1>1. Len(store) \in Nat /\ P \in SUBSET (1..Len(store))
  BY DEF Places
<1>2. /\ c \in Nat
      /\ \A i \in P : Cardinality(UpTo(P, i)) \in 1..c
      /\ \A i, j \in P : Cardinality(UpTo(P, i)) = Cardinality(UpTo(P, j)) => i = j
      /\ \A m \in 1..c : \E i \in P : Cardinality(UpTo(P, i)) = m
  <2>1. ASSUME NEW m \in Nat, P \in SUBSET (1..m)
        PROVE  /\ IsFiniteSet(P) /\ Cardinality(P) \in 0..m
               /\ \A i \in P : Cardinality(UpTo(P, i)) \in 1..Cardinality(P)
               /\ \A i, j \in P :
                    Cardinality(UpTo(P, i)) = Cardinality(UpTo(P, j)) => i = j
               /\ \A k \in 1..Cardinality(P) : \E i \in P : Cardinality(UpTo(P, i)) = k
    BY <2>1, Rank, Zenon
  <2> HIDE DEF pick, d
  <2>2. QED  BY <1>1, <2>1
<1>3. \A n \in 1..c : pick[n] \in P /\ Cardinality(UpTo(P, pick[n])) = n
  BY <1>2
<1>4. \A i \in P : pick[Cardinality(UpTo(P, i))] = i
  BY <1>2, <1>3
<1>5. /\ Entries(P) = [n \in 1..c |-> store[pick[n]]]
      /\ d = [n \in 1..c |-> dates[pick[n]]]
  BY DEF Entries, DatesAt
<1> HIDE DEF pick, c, d
<1>6. Len(Entries(P)) = c
  BY <1>2, <1>5
<1>7. \A n \in 1..c : pick[n] \in 1..Len(dates) /\ dates[pick[n]] \in Nat
  <2>1. \A i \in P : i \in 1..Len(dates) /\ dates[i] \in Nat
    BY <1>1
  <2>2. QED  BY <1>3, <2>1
<1>8. d \in Seq(Nat) /\ Len(d) = c
  BY <1>2, <1>5, <1>7
<1>9. Ordered(d)
  <2>1. SUFFICES ASSUME NEW m \in 1..c, NEW n \in 1..c, m < n  PROVE d[m] < d[n]
    BY <1>8 DEF Ordered
  <2>2. pick[m] < pick[n]
    <3>1. Cardinality(UpTo(P, pick[m])) < Cardinality(UpTo(P, pick[n]))
      BY <1>3, <2>1
    <3>2. pick[m] \in P /\ pick[n] \in P
      BY <1>3
    <3>3. QED  BY <1>1, <3>1, <3>2, RankOrder, Zenon
  <2>3. QED  BY <1>5, <1>7, <2>2 DEF Ordered
<1>10. \A n \in 1..Len(d) : \E i \in 1..Len(dates) : d[n] = dates[i]
  BY <1>5, <1>7, <1>8
<1>11. Pairs(Entries(P), d) = EntriesAt(P)
  <2>1. \A n \in 1..c : [seq |-> d[n], kind |-> Entries(P)[n][1]] = Entry(pick[n])
    BY <1>5 DEF Entry
  <2>2. Pairs(Entries(P), d) = {Entry(pick[n]) : n \in 1..c}
    BY <1>6, <2>1 DEF Pairs
  <2>3. QED  BY <1>2, <1>3, <1>4, <2>2 DEF EntriesAt
<1>12. QED  BY <1>6, <1>8, <1>9, <1>10, <1>11 DEF d, c

(* What is at some places of the cache.                                    *)
LEMMA EntriesMinus ==
    ASSUME store \in Seq(Item), DatesInv
    PROVE  /\ \A i, j \in Places : Entry(i) = Entry(j) => i = j
           /\ \A S, T \in SUBSET Places : EntriesAt(S \ T) = EntriesAt(S) \ EntriesAt(T)
           /\ EntriesAt({}) = {}
           /\ \A over \in AtMostOne(Places) :
                EntriesAt(over) \in Promise!AtMostOne(EntriesAt(Places))
<1>1. \A i, j \in Places : Entry(i) = Entry(j) => i = j
  BY DEF Places, Entry, Ordered, DatesInv
<1>2. \A S, T \in SUBSET Places : EntriesAt(S \ T) = EntriesAt(S) \ EntriesAt(T)
  BY <1>1 DEF EntriesAt
<1>3. \A over \in AtMostOne(Places) :
        EntriesAt(over) \in Promise!AtMostOne(EntriesAt(Places))
  BY DEF AtMostOne, Promise!AtMostOne, EntriesAt
<1>4. QED  BY <1>1, <1>2, <1>3 DEF EntriesAt

(* The first of some places have the oldest entries.                       *)
LEMMA OldPlaces ==
    ASSUME store \in Seq(Item), DatesInv, NEW S \in SUBSET Places, NEW old \in SUBSET S,
           \A i \in old, j \in S \ old : i < j
    PROVE  EntriesAt(old) \in Promise!OldEnds(EntriesAt(S))
<1>1. EntriesAt(old) \in SUBSET EntriesAt(S)
  BY DEF EntriesAt
<1>2. ASSUME NEW f \in EntriesAt(old), NEW g \in EntriesAt(S) \ EntriesAt(old)
      PROVE  f.seq < g.seq
  <2>1. PICK i \in old : f = Entry(i)
    BY DEF EntriesAt
  <2>2. PICK j \in S \ old : g = Entry(j)
    BY <1>2 DEF EntriesAt
  <2>3. i \in 1..Len(dates) /\ j \in 1..Len(dates) /\ i < j
    BY DEF Places, DatesInv
  <2>4. QED  BY <2>1, <2>2, <2>3 DEF Entry, DatesInv, Ordered
<1>3. QED  BY <1>1, <1>2 DEF Promise!OldEnds

(* What stays.                                                             *)
LEMMA Remains ==
    ASSUME store \in Seq(Item), DatesInv, NEW P \in SUBSET Places
    PROVE  LET d == DatesAt(P)
           IN  /\ Entries(P) \in Seq(Item)
               /\ d \in Seq(Nat) /\ Len(d) = Len(Entries(P)) /\ Ordered(d)
               /\ \A n \in 1..Len(d) : d[n] <= clock
               /\ Pairs(Entries(P), d) = EntriesAt(P)
<1> DEFINE d == DatesAt(P)
<1>1. Entries(P) \in Seq(Item)
  BY ElemsEntries
<1>2. /\ d \in Seq(Nat) /\ Len(d) = Len(Entries(P)) /\ Ordered(d)
      /\ \A n \in 1..Len(d) : \E i \in 1..Len(dates) : d[n] = dates[i]
      /\ Pairs(Entries(P), d) = EntriesAt(P)
  BY DatesKept DEF DatesInv
<1> HIDE DEF d
<1>3. \A n \in 1..Len(d) : d[n] <= clock
  BY <1>2 DEF DatesInv
<1>4. QED  BY <1>1, <1>2, <1>3 DEF d

(* The entries of the cache, now and after a step.                         *)
LEMMA EntriesArePairs ==
    EntriesAt(Places) = Pairs(store, dates) /\ EntriesAt(Places)' = Pairs(store', dates')
BY DEF EntriesAt, Places, Pairs, Entry

(* An eviction makes room at the old end.                                  *)
LEMMA EvictIsRoom ==
    ASSUME store \in Seq(Item), DatesInv, NEW over \in SUBSET Places, NEW old \in OldEnds(over),
           store' = Entries(Places \ old), Evicted(old)
    PROVE  DatesInv' /\ Promise!MakeRoom(EntriesAt(over))
<1>1. dates' = DatesAt(Places \ old) /\ clock' = clock /\ taken' = taken
  BY DEF Evicted
<1>2. /\ Places \ old \in SUBSET Places /\ old \in SUBSET (Places \ over)
      /\ old \in SUBSET Places /\ \A i \in old, j \in (Places \ over) \ old : i < j
  BY DEF OldEnds
<1>3. /\ dates' \in Seq(Nat) /\ Len(dates') = Len(store') /\ Ordered(dates')
      /\ \A n \in 1..Len(dates') : dates'[n] <= clock
      /\ Pairs(store', dates') = EntriesAt(Places \ old)
  <2> DEFINE P == Places \ old
  <2>1. P \in SUBSET Places /\ store' = Entries(P) /\ dates' = DatesAt(P)
    BY <1>1, <1>2
  <2> HIDE DEF P
  <2>2. QED  BY <2>1, Remains DEF P
<1>4. DatesInv'
  BY <1>1, <1>3 DEF DatesInv
<1>5. EntriesAt(old) \in Promise!OldEnds(EntriesAt(Places) \ EntriesAt(over))
  <2>1. EntriesAt(Places \ over) = EntriesAt(Places) \ EntriesAt(over)
    BY EntriesMinus
  <2> DEFINE S == Places \ over
  <2>2. S \in SUBSET Places /\ old \in SUBSET S /\ \A i \in old, j \in S \ old : i < j
    BY <1>2
  <2> HIDE DEF S
  <2>3. EntriesAt(old) \in Promise!OldEnds(EntriesAt(S))
    BY <2>2, OldPlaces
  <2>4. QED  BY <2>1, <2>3 DEF S
<1>6. EntriesAt(Places)' = EntriesAt(Places) \ EntriesAt(old)
  BY <1>2, <1>3, EntriesArePairs, EntriesMinus
<1>7. QED  BY <1>1, <1>4, <1>5, <1>6 DEF Promise!MakeRoom

(* A pop hands out an old end of its kind and leaves the other entries.    *)
LEMMA HandOutIsPop ==
    ASSUME store \in Seq(Item), DatesInv, NEW k \in {"metrics", "logs"},
           NEW over \in SUBSET Places, NEW stuck \in SUBSET Places, NEW here, NEW next, NEW bad,
           DatedHandOut(here, next, Oldest(k, over), stuck, bad)
    PROVE  DatesInv' /\ Promise!HandOut(k, EntriesAt(over), EntriesAt(stuck))
<1> DEFINE out == Oldest(k, over)
           S == OfKind(k) \ over
           P == Places \ (out \ stuck)
<1>1. /\ store' = Entries(P) /\ dates' = DatesAt(P) /\ clock' = clock
      /\ taken' = taken \union EntriesAt(out)
  BY DEF DatedHandOut, HandOut
<1>2. /\ out \in SUBSET S /\ S \in SUBSET Places /\ P \in SUBSET Places
      /\ out \in SUBSET Places /\ OfKind(k) \in SUBSET Places
  BY DEF Oldest, OfKind
<1>3. \A i \in out, j \in S \ out : i < j
  <2>1. SUFFICES ASSUME NEW i \in out, NEW j \in S \ out  PROVE i < j
    OBVIOUS
  <2>2. S \in SUBSET (1..Len(store)) /\ Len(store) \in Nat /\ i \in S /\ j \in S
    BY <1>2 DEF Places
  <2>3. out = {h \in S : Cardinality(UpTo(S, h)) <= PopMax}
    BY DEF Oldest
  <2> HIDE DEF out, S, P
  <2>4. /\ Cardinality(S) \in 0..Len(store)
        /\ \A h \in S : Cardinality(UpTo(S, h)) \in 1..Cardinality(S)
    BY <2>2, Rank, Zenon
  <2>5. Cardinality(UpTo(S, i)) < Cardinality(UpTo(S, j))
    BY <2>2, <2>3, <2>4, TelemetryConstants
  <2>6. QED  BY <2>2, <2>5, RankOrder, Zenon
<1> HIDE DEF out, P
<1>4. /\ dates' \in Seq(Nat) /\ Len(dates') = Len(store') /\ Ordered(dates')
      /\ \A n \in 1..Len(dates') : dates'[n] <= clock
      /\ Pairs(store', dates') = EntriesAt(P)
  BY <1>1, <1>2, Remains
<1>5. \A f \in EntriesAt(out) : f.seq \in Nat /\ f.seq <= clock
  BY <1>2 DEF EntriesAt, Entry, Places, DatesInv
<1>6. DatesInv'
  BY <1>1, <1>4, <1>5 DEF DatesInv
<1>7. EntriesAt(S) = Promise!OfKind(EntriesAt(Places), k) \ ({} \union EntriesAt(over))
  <2>1. EntriesAt(OfKind(k)) = Promise!OfKind(EntriesAt(Places), k)
    BY DEF Promise!OfKind, EntriesAt, OfKind, Entry
  <2>2. EntriesAt(S) = EntriesAt(OfKind(k)) \ EntriesAt(over)
    BY <1>2, EntriesMinus
  <2>3. QED  BY <2>1, <2>2
<1> HIDE DEF S
<1>8. EntriesAt(out) \in Promise!OldEnds(EntriesAt(S))
  BY <1>2, <1>3, OldPlaces
<1>9. EntriesAt(P) = EntriesAt(Places) \ (EntriesAt(out) \ EntriesAt(stuck))
  <2>1. EntriesAt(out \ stuck) = EntriesAt(out) \ EntriesAt(stuck)
    BY <1>2, EntriesMinus
  <2>2. EntriesAt(Places \ (out \ stuck)) = EntriesAt(Places) \ EntriesAt(out \ stuck)
    BY <1>2, EntriesMinus
  <2>3. QED  BY <2>1, <2>2 DEF P
<1>10. EntriesAt(Places)' = EntriesAt(P)
  BY <1>4, EntriesArePairs
<1>11. Promise!HandOut(k, EntriesAt(over), EntriesAt(stuck))
  BY <1>1, <1>7, <1>8, <1>9, <1>10 DEF Promise!HandOut
<1>12. QED  BY <1>6, <1>11

(* One more entry in a list.                                               *)
LEMMA PairsAppend ==
    ASSUME NEW s \in Seq(Item), NEW d \in Seq(Nat), Len(s) = Len(d), NEW x \in Item,
           NEW c \in Nat, Ordered(d), \A i \in 1..Len(d) : d[i] < c
    PROVE  /\ Pairs(Append(s, x), Append(d, c)) = Pairs(s, d) \union {[seq |-> c, kind |-> x[1]]}
           /\ Append(d, c) \in Seq(Nat) /\ Len(Append(d, c)) = Len(Append(s, x))
           /\ Ordered(Append(d, c)) /\ \A i \in 1..Len(Append(d, c)) : Append(d, c)[i] <= c
<1> DEFINE t == Append(s, x)
           e == Append(d, c)
<1>1. /\ e \in Seq(Nat) /\ Len(e) = Len(s) + 1 /\ Len(t) = Len(s) + 1 /\ Len(s) \in Nat
      /\ e[Len(s) + 1] = c /\ t[Len(s) + 1] = x
      /\ \A i \in 1..Len(s) : e[i] = d[i] /\ t[i] = s[i]
  OBVIOUS
<1> HIDE DEF t, e
<1>2. 1..(Len(s) + 1) = (1..Len(s)) \union {Len(s) + 1}
  BY <1>1
<1>3. \A i \in 1..Len(s) : d[i] \in Nat
  OBVIOUS
<1>4. Pairs(t, e) = Pairs(s, d) \union {[seq |-> c, kind |-> x[1]]}
  <2>1. \A i \in 1..Len(s) :
          [seq |-> e[i], kind |-> t[i][1]] = [seq |-> d[i], kind |-> s[i][1]]
    BY <1>1
  <2>2. [seq |-> e[Len(s) + 1], kind |-> t[Len(s) + 1][1]] = [seq |-> c, kind |-> x[1]]
    BY <1>1
  <2>3. Pairs(t, e) = {[seq |-> e[i], kind |-> t[i][1]] : i \in 1..Len(s)}
                      \union {[seq |-> c, kind |-> x[1]]}
    <3> DEFINE R(i) == [seq |-> e[i], kind |-> t[i][1]]
    <3>1. Pairs(t, e) = {R(i) : i \in (1..Len(s)) \union {Len(s) + 1}}
      BY <1>1, <1>2 DEF Pairs
    <3>2. R(Len(s) + 1) = [seq |-> c, kind |-> x[1]]
      BY <2>2
    <3> HIDE DEF R
    <3>3. Pairs(t, e) = {R(i) : i \in 1..Len(s)} \union {[seq |-> c, kind |-> x[1]]}
      BY <3>1, <3>2
    <3>4. QED  BY <3>3 DEF R
  <2>4. {[seq |-> e[i], kind |-> t[i][1]] : i \in 1..Len(s)} = Pairs(s, d)
    <3> DEFINE R(i) == [seq |-> e[i], kind |-> t[i][1]]
               Q(i) == [seq |-> d[i], kind |-> s[i][1]]
    <3>1. \A i \in 1..Len(s) : R(i) = Q(i)
      BY <2>1
    <3>2. Pairs(s, d) = {Q(i) : i \in 1..Len(s)}
      BY DEF Pairs
    <3> HIDE DEF R, Q
    <3>3. {R(i) : i \in 1..Len(s)} = {Q(i) : i \in 1..Len(s)}
      BY <3>1
    <3>4. QED  BY <3>2, <3>3 DEF R
  <2>5. QED  BY <2>3, <2>4
<1>5. ASSUME NEW i \in 1..Len(e)  PROVE e[i] <= c
  <2>1. CASE i \in 1..Len(s)
    <3>1. e[i] = d[i] /\ d[i] < c /\ d[i] \in Nat
      BY <1>1, <1>3, <2>1
    <3>2. QED  BY <3>1
  <2>2. CASE i = Len(s) + 1
    BY <1>1, <2>2
  <2>3. QED  BY <1>1, <1>2, <2>1, <2>2
<1>6. Ordered(e)
  <2>1. SUFFICES ASSUME NEW i \in 1..Len(e), NEW j \in 1..Len(e), i < j  PROVE e[i] < e[j]
    BY DEF Ordered
  <2>2. i \in 1..Len(s)
    BY <1>1, <2>1
  <2>3. CASE j \in 1..Len(s)
    BY <1>1, <2>1, <2>2, <2>3 DEF Ordered
  <2>4. CASE j = Len(s) + 1
    BY <1>1, <2>2, <2>4
  <2>5. QED  BY <1>1, <1>2, <2>1, <2>3, <2>4
<1>7. QED  BY <1>1, <1>4, <1>5, <1>6 DEF t, e

(* A push adds the youngest entry and makes room at the old end.           *)
LEMMA StoreIsRoom ==
    ASSUME CoreInv, DatesInv, NEW g \in Goroutine, pc[g] = "cache",
           NEW over \in SUBSET Places, NEW old \in OldEnds(over), DatedStored(g, old)
    PROVE  DatesInv' /\ Promise!MakeRoom(EntriesAt(over))
<1> DEFINE x == Head(batch[g])
           f == [seq |-> clock + 1, kind |-> x[1]]
           s == Entries(Places \ old)
           d == DatesAt(Places \ old)
<1>1. store \in Seq(Item) /\ clock \in Nat /\ clock + 1 \in Nat
  BY SMTT(20) DEF CoreInv, TypeOK, DatesInv
<1>2. /\ store' = Append(s, x) /\ dates' = Append(d, clock + 1)
      /\ clock' = clock + 1 /\ taken' = taken
  BY DEF DatedStored, Stored
<1>3. x \in Item /\ x[1] \in {"metrics", "logs"}
  <2>1. batch[g] \in Seq(Item) /\ batch[g] # <<>>
    BY DEF CoreInv, TypeOK
  <2>2. x \in Item
    BY <2>1, ElemsTail
  <2>3. QED  BY <2>2 DEF Item
<1>4. /\ Places \ old \in SUBSET Places /\ old \in SUBSET (Places \ over)
      /\ old \in SUBSET Places /\ \A i \in old, j \in (Places \ over) \ old : i < j
  BY DEF OldEnds
<1>5. /\ s \in Seq(Item) /\ d \in Seq(Nat) /\ Len(d) = Len(s) /\ Ordered(d)
      /\ \A n \in 1..Len(d) : d[n] <= clock
      /\ Pairs(s, d) = EntriesAt(Places) \ EntriesAt(old)
  <2>1. EntriesAt(Places \ old) = EntriesAt(Places) \ EntriesAt(old)
    BY <1>1, <1>4, EntriesMinus
  <2> DEFINE P == Places \ old
  <2>2. P \in SUBSET Places
    BY <1>4
  <2> HIDE DEF P
  <2>3. LET e == DatesAt(P)
        IN  /\ Entries(P) \in Seq(Item)
            /\ e \in Seq(Nat) /\ Len(e) = Len(Entries(P)) /\ Ordered(e)
            /\ \A n \in 1..Len(e) : e[n] <= clock
            /\ Pairs(Entries(P), e) = EntriesAt(P)
    BY <1>1, <2>2, Remains
  <2>4. QED  BY <2>1, <2>3 DEF P
<1>6. EntriesAt(old) \in Promise!OldEnds(EntriesAt(Places) \ EntriesAt(over))
  <2>1. EntriesAt(Places \ over) = EntriesAt(Places) \ EntriesAt(over)
    BY <1>1, EntriesMinus
  <2> DEFINE S == Places \ over
  <2>2. S \in SUBSET Places /\ old \in SUBSET S /\ \A i \in old, j \in S \ old : i < j
    BY <1>4
  <2> HIDE DEF S
  <2>3. EntriesAt(old) \in Promise!OldEnds(EntriesAt(S))
    BY <1>1, <2>2, OldPlaces
  <2>4. QED  BY <2>1, <2>3 DEF S
<1> HIDE DEF x, s, d
<1>7. /\ Pairs(store', dates') = Pairs(s, d) \union {f}
      /\ dates' \in Seq(Nat) /\ Len(dates') = Len(store') /\ Ordered(dates')
      /\ \A i \in 1..Len(dates') : dates'[i] <= clock + 1
  <2>1. ASSUME NEW c \in Nat, c = clock + 1
        PROVE  /\ Pairs(Append(s, x), Append(d, c)) =
                    Pairs(s, d) \union {[seq |-> c, kind |-> x[1]]}
               /\ Append(d, c) \in Seq(Nat) /\ Len(Append(d, c)) = Len(Append(s, x))
               /\ Ordered(Append(d, c))
               /\ \A i \in 1..Len(Append(d, c)) : Append(d, c)[i] <= c
    <3>1. \A i \in 1..Len(d) : d[i] < c
      <4>1. \A i \in 1..Len(d) : d[i] \in Nat
        BY <1>5
      <4>2. QED  BY <1>1, <1>5, <2>1, <4>1
    <3>2. Len(s) = Len(d)
      BY <1>5
    <3>3. QED  BY <1>3, <1>5, <3>1, <3>2, PairsAppend, Zenon
  <2>2. QED  BY <1>1, <1>2, <2>1
<1>8. \A e \in EntriesAt(Places) \union taken : e.seq < f.seq /\ e.seq \in Nat
  <2>1. \A e \in EntriesAt(Places) : e.seq \in Nat /\ e.seq <= clock
    BY DEF EntriesAt, Entry, Places, DatesInv
  <2>2. \A e \in taken : e.seq \in Nat /\ e.seq <= clock
    BY DEF DatesInv
  <2>3. QED  BY <1>1, <2>1, <2>2
<1>9. Promise!Youngest(f) /\ f \notin EntriesAt(Places)
  BY <1>1, <1>3, <1>8 DEF Promise!Youngest
<1>10. EntriesAt(Places)' = (EntriesAt(Places) \ EntriesAt(old)) \union {f}
  BY <1>5, <1>7, EntriesArePairs
<1>11. Promise!MakeRoom(EntriesAt(over))
  <2> HIDE DEF f
  <2>1. f \in EntriesAt(Places)' \ EntriesAt(Places)
    BY <1>9, <1>10
  <2>2. QED
    BY <1>2, <1>6, <1>9, <1>10, <2>1 DEF Promise!MakeRoom
<1>12. \A e \in taken' : e.seq \in Nat /\ e.seq <= clock'
  BY <1>1, <1>2, <1>8
<1>13. DatesInv'
  BY <1>1, <1>2, <1>7, <1>12 DEF DatesInv
<1>14. QED  BY <1>11, <1>13

(* A fault that makes room, or hands out, is a failure of the promise.     *)
LEMMA FaultIsFail ==
    ASSUME Fault, NEW over \in SUBSET EntriesAt(Places), \A f, g \in over : f = g,
           \/ Promise!MakeRoom(over)
           \/ \E k \in {"metrics", "logs"} :
                Promise!HandOut(k, over, {}) \/ Promise!HandOut(k, {}, over)
    PROVE  Promise!Next
BY DEF Fault, Promise!Next, Promise!Fail, Promise!AtMostOne

(* Each step of the pipeline.                                              *)
LEMMA PushAsPromised ==
    ASSUME CoreInv, DatesInv, NEW g \in Goroutine, DatedPush(g)
    PROVE  DatesInv' /\ Promise!Next
<1>1. store \in Seq(Item) /\ pc[g] = "cache"
  BY DEF CoreInv, TypeOK, DatedPush, Rest
<1>2. {} \in SUBSET Places /\ EntriesAt({}) = {}
  BY <1>1, EntriesMinus
<1>3. CASE UNCHANGED faults /\ \E old \in OldEnds({}) : DatedStored(g, old)
  <2>1. PICK old \in OldEnds({}) : DatedStored(g, old)
    BY <1>3
  <2>2. DatesInv' /\ Promise!MakeRoom(EntriesAt({}))
    BY <1>1, <1>2, <2>1, StoreIsRoom
  <2>3. QED  BY <1>2, <1>3, <2>2 DEF Promise!Next, Promise!Push, Promise!Works
<1>4. CASE /\ Fault
           /\ \E over \in AtMostOne(Places) : \E old \in OldEnds(over) :
                DatedStored(g, old) \/ (Refused(g, old) /\ Evicted(old))
  <2>1. PICK over \in AtMostOne(Places) : \E old \in OldEnds(over) :
          DatedStored(g, old) \/ (Refused(g, old) /\ Evicted(old))
    BY <1>4
  <2>2. PICK old \in OldEnds(over) : DatedStored(g, old) \/ (Refused(g, old) /\ Evicted(old))
    BY <2>1
  <2>3. over \in SUBSET Places
    BY DEF AtMostOne
  <2>4. DatesInv' /\ Promise!MakeRoom(EntriesAt(over))
    <3>1. CASE DatedStored(g, old)
      BY <1>1, <2>3, <3>1, StoreIsRoom
    <3>2. CASE Refused(g, old) /\ Evicted(old)
      <4>1. store' = Entries(Places \ old)
        BY <3>2 DEF Refused
      <4>2. QED  BY <1>1, <2>3, <3>2, <4>1, EvictIsRoom
    <3>3. QED  BY <2>2, <3>1, <3>2
  <2>5. EntriesAt(over) \in Promise!AtMostOne(EntriesAt(Places))
    BY <1>1, EntriesMinus
  <2>6. QED  BY <1>4, <2>4, <2>5, FaultIsFail DEF Promise!AtMostOne
<1>5. QED  BY <1>3, <1>4 DEF DatedPush

LEMMA PanicAsPromised ==
    ASSUME CoreInv, DatesInv, NEW g \in Goroutine, DatedPanic(g)
    PROVE  DatesInv' /\ Promise!Next
<1>1. store \in Seq(Item)
  BY DEF CoreInv, TypeOK
<1>2. {} \in SUBSET Places /\ EntriesAt({}) = {}
  BY <1>1, EntriesMinus
<1>3. PICK old \in OldEnds({}) : PanicAt(g, old) /\ Evicted(old)
  BY DEF DatedPanic
<1>4. store' = Entries(Places \ old) /\ Fault
  BY <1>3 DEF PanicAt
<1>5. DatesInv' /\ Promise!MakeRoom(EntriesAt({}))
  BY <1>1, <1>2, <1>3, <1>4, EvictIsRoom
<1>6. QED  BY <1>2, <1>4, <1>5, FaultIsFail

LEMMA PopAsPromised ==
    ASSUME CoreInv, DatesInv, NEW k \in {"metrics", "logs"}, NEW here, NEW next,
           DatedPop(k, here, next)
    PROVE  DatesInv' /\ Promise!Next
<1>1. store \in Seq(Item)
  BY DEF CoreInv, TypeOK
<1>2. {} \in SUBSET Places /\ EntriesAt({}) = {}
  BY <1>1, EntriesMinus
<1>3. CASE UNCHANGED faults /\ DatedHandOut(here, next, Oldest(k, {}), {}, {})
  <2>1. DatesInv' /\ Promise!HandOut(k, EntriesAt({}), EntriesAt({}))
    BY <1>1, <1>2, <1>3, HandOutIsPop
  <2>2. QED  BY <1>2, <1>3, <2>1 DEF Promise!Next, Promise!Pop, Promise!Works
<1>4. CASE /\ Fault
           /\ \E odd \in AtMostOne(OfKind(k)) :
                \/ DatedHandOut(here, next, Oldest(k, odd), {}, {})
                \/ DatedHandOut(here, next, Oldest(k, {}), odd \intersect Oldest(k, {}), {})
                \/ DatedHandOut(here, next, Oldest(k, {}), {}, odd \intersect Oldest(k, {}))
  <2>1. PICK odd \in AtMostOne(OfKind(k)) :
          \/ DatedHandOut(here, next, Oldest(k, odd), {}, {})
          \/ DatedHandOut(here, next, Oldest(k, {}), odd \intersect Oldest(k, {}), {})
          \/ DatedHandOut(here, next, Oldest(k, {}), {}, odd \intersect Oldest(k, {}))
    BY <1>4
  <2> DEFINE some == odd \intersect Oldest(k, {})
  <2>2. odd \in AtMostOne(Places) /\ some \in AtMostOne(Places) /\ {} \in AtMostOne(Places)
    BY DEF AtMostOne, OfKind
  <2>3. odd \in SUBSET Places /\ some \in SUBSET Places
    BY <2>2 DEF AtMostOne
  <2> HIDE DEF some
  <2>4. \A over \in AtMostOne(Places) :
          EntriesAt(over) \in Promise!AtMostOne(EntriesAt(Places))
    BY <1>1, EntriesMinus
  <2>5. CASE DatedHandOut(here, next, Oldest(k, odd), {}, {})
    <3>1. DatesInv' /\ Promise!HandOut(k, EntriesAt(odd), EntriesAt({}))
      BY <1>1, <1>2, <2>3, <2>5, HandOutIsPop
    <3>2. QED  BY <1>2, <1>4, <2>2, <2>4, <3>1, FaultIsFail DEF Promise!AtMostOne
  <2>6. CASE DatedHandOut(here, next, Oldest(k, {}), some, {})
    <3>1. DatesInv' /\ Promise!HandOut(k, EntriesAt({}), EntriesAt(some))
      BY <1>1, <1>2, <2>3, <2>6, HandOutIsPop
    <3>2. QED  BY <1>2, <1>4, <2>2, <2>4, <3>1, FaultIsFail DEF Promise!AtMostOne
  <2>7. CASE DatedHandOut(here, next, Oldest(k, {}), {}, some)
    <3>1. DatesInv' /\ Promise!HandOut(k, EntriesAt({}), EntriesAt({}))
      BY <1>1, <1>2, <2>7, HandOutIsPop
    <3>2. QED  BY <1>2, <1>4, <2>2, <2>4, <3>1, FaultIsFail DEF Promise!AtMostOne
  <2>8. QED  BY <2>1, <2>5, <2>6, <2>7 DEF some
<1>5. QED  BY <1>3, <1>4 DEF DatedPop

(* Everything else leaves the cache as it is.                              *)
LEMMA ElsewhereSame ==
    ASSUME CoreInv, DatesInv, Elsewhere \/ UNCHANGED <<vars, dated>>
    PROVE  DatesInv' /\ [Promise!Next]_(Promise!vars)
<1>0. store \in Seq(Item)
  BY DEF CoreInv, TypeOK
<1>1. UNCHANGED <<store, clock, dates, taken>>
  <2>1. CASE Elsewhere
    <3>1. UNCHANGED <<clock, dates, taken>>
      BY <2>1 DEF Elsewhere, dated
    <3>2. UNCHANGED store
      BY <2>1 DEF Elsewhere, Start, Crash, Die, Sigterm, Exit, Log, MetricsTick, MetricsDone,
                  LogsTick, LogsDone, Drain, PopFails, PostSucceeds, PostFails, ReplyLost
    <3>3. QED  BY <3>1, <3>2
  <2>2. CASE UNCHANGED <<vars, dated>>
    BY <2>2 DEF vars, dated
  <2>3. QED  BY <2>1, <2>2
<1>2. DatesInv' /\ EntriesAt(Places)' = EntriesAt(Places)
  BY <1>1 DEF DatesInv, EntriesAt, Places, Entry
<1>3. UNCHANGED faults \/ Fault
  BY DEF Elsewhere, Start, Crash, Die, Sigterm, Exit, Log, MetricsTick, MetricsDone,
         LogsTick, LogsDone, Drain, PopFails, PostSucceeds, PostFails, ReplyLost, vars
<1>4. CASE UNCHANGED faults
  BY <1>1, <1>2, <1>4 DEF Promise!vars
<1>5. CASE Fault
  <2>1. {} \in Promise!OldEnds(EntriesAt(Places) \ {})
    BY DEF Promise!OldEnds
  <2>2. EntriesAt(Places)' = EntriesAt(Places) \ {}
    BY <1>2
  <2>3. Promise!MakeRoom({})
    BY <1>1, <2>1, <2>2 DEF Promise!MakeRoom
  <2>4. QED  BY <1>2, <1>5, <2>3, FaultIsFail
<1>6. QED  BY <1>3, <1>4, <1>5

(* The pipeline uses the cache as the abstract store promises: what it     *)
(* caches is the youngest, room is made at the old end only, and recovery  *)
(* is handed the oldest entries of a kind, each once, but for one entry    *)
(* per fault, however pushes of the three goroutines, restarts and pops    *)
(* follow each other (Push and popKind as runAgent calls them).            *)
THEOREM StoreAsPromised == SpecDated => UsesStore
<1>1. SpecDated => Spec
  <2>1. InitDated => Init
    BY DEF InitDated
  <2>2. [NextDated]_<<vars, dated>> => [Next]_vars
    <3>1. ASSUME NEW g \in Goroutine, DatedPush(g)
          PROVE  PushNext(g) \/ PushPassesOver(g) \/ PushRefused(g)
      BY <3>1, Zenon DEF DatedPush, DatedStored, PushNext, PushPassesOver, PushRefused
    <3>2. ASSUME NEW g \in Goroutine, DatedPanic(g)  PROVE Panic(g)
      BY <3>2 DEF DatedPanic, Panic
    <3>3. ASSUME NEW k, NEW here, NEW next, DatedPop(k, here, next)
          PROVE  RecoverKind(k, here, next) \/ RecoverAstray(k, here, next)
      BY <3>3, Zenon DEF DatedPop, DatedHandOut, RecoverKind, RecoverAstray
    <3>4. CASE UNCHANGED <<vars, dated>>
      BY <3>4
    <3>5. CASE Elsewhere
      BY <3>5 DEF Elsewhere, Next, Upload
    <3>6. CASE \E g \in Goroutine : DatedPush(g) \/ DatedPanic(g)
      BY <3>1, <3>2, <3>6 DEF Next, Upload
    <3>7. CASE DatedPop("metrics", "sleep", "popLogs") \/ DatedPop("logs", "popLogs", "done")
      BY <3>3, <3>7 DEF Next, RecoverMetrics, RecoverLogs, PopAstray
    <3>8. QED  BY <3>4, <3>5, <3>6, <3>7 DEF NextDated
  <2>3. QED  BY <2>1, <2>2, PTL DEF SpecDated, Spec
<1>2. InitDated => DatesInv /\ Promise!Init
  BY DEF InitDated, Init, DatesInv, Ordered, Promise!Init, EntriesAt, Places
<1>3. CoreInv /\ DatesInv /\ [NextDated]_<<vars, dated>> =>
        DatesInv' /\ [Promise!Next]_(Promise!vars)
  <2>1. CASE \E g \in Goroutine : DatedPush(g) \/ DatedPanic(g)
    BY <2>1, PushAsPromised, PanicAsPromised
  <2>2. CASE DatedPop("metrics", "sleep", "popLogs") \/ DatedPop("logs", "popLogs", "done")
    BY <2>2, PopAsPromised
  <2>3. QED  BY <2>1, <2>2, ElsewhereSame DEF NextDated
<1>4. QED
  BY <1>1, <1>2, <1>3, CoreInvariance, PTL DEF SpecDated, UsesStore, Promise!Spec
=============================================================================
