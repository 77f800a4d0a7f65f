----------------------------- MODULE FunctionProofs -----------------------------
(***************************************************************************)
(* Proofs about the parts of the agent that only work in memory: the pure  *)
(* functions, for every input (FunctionSpecs), and the buffer of           *)
(* pkg/logger, for any number of goroutines, any ring size and any batch   *)
(* size.                                                                   *)
(*                                                                         *)
(* The loops of the code are recursive functions on 0..N.  Their proofs go *)
(* by induction, stated on a set of numbers, and rest on the fact that a   *)
(* set of natural numbers that is not empty has a least element.           *)
(***************************************************************************)
EXTENDS FunctionSpecs, Logger, SequenceTheorems, FiniteSetTheorems, WellFoundedInduction, TLAPS

-----------------------------------------------------------------------------
(* Induction.                                                              *)

(* A set of natural numbers that is not empty has a least element.         *)
LEMMA LeastOne ==
    ASSUME NEW T, T \subseteq Nat, T # {}
    PROVE  \E x \in T : \A y \in T : x <= y
<1>1. PICK x \in T : \A y \in T : ~ (<<y, x>> \in OpToRel(<, Nat))
  BY WFMin, NatLessThanWellFounded, Zenon
<1>2. \A y \in Nat : y < x => <<y, x>> \in OpToRel(<, Nat)
  BY DEF OpToRel
<1>3. \A y \in T : ~(y < x)
  BY <1>1, <1>2, Zenon
<1>4. QED  BY <1>3

(* Induction up to a bound: what holds of 0 and is handed on holds of all. *)
LEMMA Induction ==
    ASSUME NEW N \in Nat, NEW S, 0 \in S, \A n \in 1..N : n - 1 \in S => n \in S
    PROVE  \A n \in 0..N : n \in S
<1> DEFINE T == (0..N) \ S
<1>1. SUFFICES ASSUME NEW k \in 0..N, k \notin S  PROVE FALSE
  OBVIOUS
<1>2. PICK x \in T : \A y \in T : x <= y
  <2>1. T \subseteq Nat /\ k \in T
    BY <1>1
  <2>2. QED  BY <2>1, LeastOne
<1>3. x \in 1..N /\ x - 1 \in 0..N /\ ~(x <= x - 1)
  BY <1>2
<1>4. x - 1 \in S
  BY <1>2, <1>3
<1>5. QED  BY <1>2, <1>3, <1>4

(* A loop of N turns has a result: the function that gives the state after *)
(* each turn exists.                                                       *)
IsStep(step, N, V) == \A n \in 1..N : \A x \in V : step[n][x] \in V
IsRun(f, N, V, base, step) ==
    /\ f \in [0..N -> V]
    /\ f[0] = base
    /\ \A n \in 1..N : f[n] = step[n][f[n - 1]]

LEMMA Recursion ==
    ASSUME NEW N \in Nat, NEW V, NEW base \in V, NEW step, IsStep(step, N, V)
    PROVE  \E f : IsRun(f, N, V, base, step)
<1> DEFINE Good(m, f) == f[0] = base /\ \A n \in 1..m : f[n] = step[n][f[n - 1]]
           S == {m \in Nat : \E f \in [0..m -> V] : Good(m, f)}
<1>1. 0 \in S
  <2>1. [n \in 0..0 |-> base] \in [0..0 -> V] /\ Good(0, [n \in 0..0 |-> base])
    OBVIOUS
  <2>2. QED  BY <2>1
<1>2. ASSUME NEW m \in 1..N, m - 1 \in S  PROVE m \in S
  <2>1. PICK f \in [0..(m - 1) -> V] : Good(m - 1, f)
    BY <1>2
  <2> DEFINE g == [n \in 0..m |-> IF n = m THEN step[m][f[m - 1]] ELSE f[n]]
  <2>2. m - 1 \in 0..(m - 1) /\ f[m - 1] \in V
    BY <2>1
  <2>3. g \in [0..m -> V]
    <3>1. step[m][f[m - 1]] \in V
      BY <2>2 DEF IsStep
    <3>2. QED  BY <2>1, <3>1
  <2>4. Good(m, g)
    <3>1. g[0] = base
      BY <2>1
    <3>2. ASSUME NEW n \in 1..m  PROVE g[n] = step[n][g[n - 1]]
      <4>1. n - 1 \in 0..m /\ n - 1 # m /\ g[n - 1] = f[n - 1]
        OBVIOUS
      <4>2. CASE n = m
        BY <4>1, <4>2
      <4>3. CASE n # m
        <5>1. n \in 1..(m - 1)
          BY <4>3
        <5>2. g[n] = f[n]
          BY <4>3
        <5>3. f[n] = step[n][f[n - 1]]
          BY <2>1, <5>1
        <5>4. QED  BY <4>1, <5>2, <5>3
      <4>4. QED  BY <4>2, <4>3
    <3>3. QED  BY <3>1, <3>2
  <2> HIDE DEF g, Good
  <2>5. m \in Nat
    OBVIOUS
  <2>6. QED  BY <2>3, <2>4, <2>5
<1>3. N \in S
  <2> HIDE DEF S
  <2>1. \A m \in 0..N : m \in S
    BY <1>1, <1>2, Induction
  <2>2. QED  BY <2>1
<1>4. QED
  BY <1>3 DEF IsRun

LEMMA RunTurns ==
    ASSUME NEW N \in Nat, NEW V, NEW base, NEW step, NEW f, IsRun(f, N, V, base, step)
    PROVE  /\ f = [n \in 0..N |-> IF n = 0 THEN base ELSE step[n][f[n - 1]]]
           /\ \A n \in 0..N : f[n] \in V
           /\ \A n \in 1..N : n - 1 \in 0..N /\ f[n - 1] \in V
<1>1. f = [n \in 0..N |-> f[n]] /\ f \in [0..N -> V]
  BY DEF IsRun
<1>2. \A n \in 0..N : f[n] = IF n = 0 THEN base ELSE step[n][f[n - 1]]
  <2>1. \A n \in 0..N : n = 0 \/ n \in 1..N
    OBVIOUS
  <2>2. QED  BY <2>1 DEF IsRun
<1>3. \A n \in 1..N : n - 1 \in 0..N
  OBVIOUS
<1>4. QED  BY <1>1, <1>2, <1>3

(* A sequence that has one more at its end.                                *)
LEMMA Appended ==
    ASSUME NEW S, NEW s \in Seq(S), NEW e \in S
    PROVE  /\ Append(s, e) \in Seq(S) /\ Len(Append(s, e)) = Len(s) + 1 /\ Len(s) \in Nat
           /\ Append(s, e)[Len(s) + 1] = e
           /\ \A i \in 1..Len(s) : Append(s, e)[i] = s[i]
OBVIOUS

-----------------------------------------------------------------------------
(* Settings.                                                               *)

(* Doubling gives positive numbers that do not fall.                       *)
IsDoubling(d, N, initial) ==
    /\ d \in [0..N -> Nat \ {0}]
    /\ d[0] = initial
    /\ \A j \in 1..N : d[j] = 2 * d[j - 1]

LEMMA DoublingExists ==
    ASSUME NEW N \in Nat, NEW initial \in Nat \ {0}
    PROVE  \E d : IsDoubling(d, N, initial)
<1> DEFINE V == Nat \ {0}
           step == [n \in 1..N |-> [x \in V |-> 2 * x]]
<1>1. \A n \in 1..N : \A x \in V : step[n][x] = 2 * x
  OBVIOUS
<1>2. initial \in V /\ IsStep(step, N, V)
  BY DEF IsStep
<1> HIDE DEF step, V
<1>3. PICK d : IsRun(d, N, V, initial, step)
  BY <1>2, Recursion
<1>4. \A n \in 1..N : d[n - 1] \in V
  BY <1>3 DEF IsRun
<1>5. IsDoubling(d, N, initial)
  BY <1>1, <1>3, <1>4 DEF IsDoubling, IsRun, V
<1>6. QED  BY <1>5

LEMMA DoublingGrows ==
    ASSUME NEW N \in Nat, NEW initial \in Nat \ {0}, NEW d, IsDoubling(d, N, initial)
    PROVE  \A k \in 0..N : \A j \in 0..k : d[j] <= d[k]
<1> DEFINE S == {k \in 0..N : \A j \in 0..k : d[j] <= d[k]}
<1> USE DEF IsDoubling
<1>1. 0 \in S
  OBVIOUS
<1>2. ASSUME NEW k \in 1..N, k - 1 \in S  PROVE k \in S
  <2>1. d[k] = 2 * d[k - 1] /\ d[k - 1] \in Nat /\ d[k] \in Nat
    OBVIOUS
  <2>2. ASSUME NEW j \in 0..k  PROVE d[j] <= d[k]
    <3>1. CASE j = k
      BY <2>1, <3>1
    <3>2. CASE j # k
      <4>1. j \in 0..(k - 1) /\ d[j] \in Nat
        BY <3>2
      <4>2. d[j] <= d[k - 1]
        BY <1>2, <4>1
      <4>3. QED  BY <2>1, <4>1, <4>2
    <3>3. QED  BY <3>1, <3>2
  <2>3. QED  BY <2>2
<1>3. QED
  <2> HIDE DEF S
  <2>1. \A k \in 0..N : k \in S
    BY <1>1, <1>2, Induction
  <2>2. QED  BY <2>1 DEF S

(* The doubled value of WaitBefore is the same whatever wait it is for.    *)
LEMMA WaitFromDoubling ==
    ASSUME NEW N \in Nat, NEW initial \in Nat \ {0}, NEW max \in Nat, NEW d,
           IsDoubling(d, N, initial), NEW k \in 1..N
    PROVE  WaitBefore(initial, max, k) =
              IF initial > max \/ d[k - 1] < max THEN IF initial > max THEN initial ELSE d[k - 1]
              ELSE max
<1> DEFINE E(g) == [j \in 0..(k - 1) |-> IF j = 0 THEN initial ELSE 2 * g[j - 1]]
           r == [j \in 0..(k - 1) |-> d[j]]
           doubled == CHOOSE g : g = E(g)
<1>1. k - 1 \in Nat /\ 0..(k - 1) \subseteq 0..N
  OBVIOUS
<1>2. r = E(r)
  <2>1. \A j \in 0..(k - 1) : r[j] = E(r)[j]
    BY <1>1 DEF IsDoubling
  <2>2. QED  BY <2>1
<1>3. doubled = E(doubled)
  BY <1>2
<1> DEFINE S == {j \in 0..(k - 1) : doubled[j] = d[j]}
<1>4. \A j \in 0..(k - 1) : doubled[j] = IF j = 0 THEN initial ELSE 2 * doubled[j - 1]
  <2> HIDE DEF doubled
  <2>1. QED  BY <1>3
<1> HIDE DEF doubled
<1>5. 0 \in S
  BY <1>1, <1>4 DEF IsDoubling
<1>6. ASSUME NEW j \in 1..(k - 1), j - 1 \in S  PROVE j \in S
  BY <1>1, <1>4, <1>6, SMTT(20) DEF IsDoubling
<1>7. \A j \in 0..(k - 1) : doubled[j] = d[j]
  <2> HIDE DEF S
  <2>1. \A j \in 0..(k - 1) : j \in S
    BY <1>1, <1>5, <1>6, Induction
  <2>2. QED  BY <2>1 DEF S
<1>8. WaitBefore(initial, max, k) =
        IF initial > max THEN initial
        ELSE IF \E j \in 0..(k - 1) : doubled[j] >= max THEN max
        ELSE doubled[k - 1]
  BY DEF WaitBefore, doubled
<1>9. \A j \in 0..(k - 1) : d[j] \in Nat /\ d[j] <= d[k - 1]
  <2>1. k - 1 \in 0..N
    BY <1>1
  <2>2. \A j \in 0..(k - 1) : d[j] <= d[k - 1]
    BY <2>1, DoublingGrows
  <2>3. QED  BY <1>1, <2>2 DEF IsDoubling
<1>10. (\E j \in 0..(k - 1) : doubled[j] >= max) <=> ~(d[k - 1] < max)
  BY <1>1, <1>7, <1>9
<1>11. doubled[k - 1] = d[k - 1]
  BY <1>1, <1>7
<1>12. QED
  BY <1>8, <1>10, <1>11

(* The sleeps of Post are the waits that are told for them.                *)
LEMMA WaitsAreTold ==
    ASSUME NEW initial \in Nat \ {0}, NEW max \in Nat \ {0}, NEW attempts \in Nat \ {0}
    PROVE  \A k \in 1..(attempts - 1) :
              Waits(initial, max, attempts)[k] = WaitBefore(initial, max, k)
<1> DEFINE N == attempts - 1
           E(g) == [k \in 1..N |-> IF k = 1 THEN initial ELSE NextInterval(g[k - 1], max)]
           sleep == CHOOSE g : g = E(g)
<1>1. N \in Nat
  OBVIOUS
<1>2. PICK d : IsDoubling(d, N, initial)
  BY <1>1, DoublingExists
<1> DEFINE w == [k \in 1..N |-> WaitBefore(initial, max, k)]
<1>3. ASSUME NEW k \in 1..N
      PROVE  w[k] = IF k = 1 THEN initial ELSE NextInterval(w[k - 1], max)
  <2>1. w[k] = IF initial > max \/ d[k - 1] < max THEN IF initial > max THEN initial ELSE d[k - 1]
               ELSE max
    BY <1>1, <1>2, WaitFromDoubling
  <2>2. CASE k = 1
    BY <1>2, <2>1, <2>2 DEF IsDoubling
  <2>3. CASE k # 1
    <3>1. k - 1 \in 1..N /\ k - 1 \in 0..N /\ k - 2 \in 0..N /\ (k - 1) - 1 = k - 2
      BY <1>1, <2>3
    <3>2. w[k - 1] = IF initial > max \/ d[k - 2] < max
                     THEN IF initial > max THEN initial ELSE d[k - 2] ELSE max
      <4>1. WaitBefore(initial, max, k - 1) = IF initial > max \/ d[(k - 1) - 1] < max
                     THEN IF initial > max THEN initial ELSE d[(k - 1) - 1] ELSE max
        BY <1>1, <1>2, <3>1, WaitFromDoubling
      <4>2. QED  BY <3>1, <4>1
    <3>3. k - 1 \in 1..N /\ d[k - 1] = 2 * d[k - 2] /\ d[k - 2] \in Nat /\ d[k - 1] \in Nat
      BY <1>2, <3>1 DEF IsDoubling
    <3>4. initial <= d[k - 2]
      <4>1. d[0] = initial /\ 0 \in 0..(k - 2)
        BY <1>2, <3>1 DEF IsDoubling
      <4>2. QED  BY <1>1, <1>2, <3>1, <4>1, DoublingGrows
    <3> HIDE DEF w
    <3>5. QED
      BY <2>1, <2>3, <3>2, <3>3, <3>4 DEF NextInterval, Least
  <2>4. QED  BY <2>2, <2>3
<1>4. w = E(w)
  <2>1. w = [k \in 1..N |-> w[k]]
    OBVIOUS
  <2> HIDE DEF w
  <2>2. QED  BY <1>3, <2>1
<1>5. sleep = E(sleep)
  <2> HIDE DEF w
  <2>1. QED  BY <1>4
<1>6. \A k \in 1..N : sleep[k] = IF k = 1 THEN initial ELSE NextInterval(sleep[k - 1], max)
  <2> HIDE DEF sleep
  <2>1. QED  BY <1>5
<1> DEFINE S == {k \in 0..N : k = 0 \/ sleep[k] = w[k]}
<1> HIDE DEF sleep, w
<1>7. 0 \in S
  BY <1>1
<1>8. ASSUME NEW k \in 1..N, k - 1 \in S  PROVE k \in S
  <2>1. CASE k = 1
    BY <1>3, <1>6, <2>1
  <2>2. CASE k # 1
    BY <1>3, <1>6, <1>8, <2>2
  <2>3. QED  BY <2>1, <2>2
<1>9. \A k \in 1..N : sleep[k] = w[k]
  <2> HIDE DEF S
  <2>1. \A k \in 0..N : k \in S
    BY <1>1, <1>7, <1>8, Induction
  <2>2. QED  BY <1>1, <2>1 DEF S
<1>10. Waits(initial, max, attempts) = [k \in 1..N |-> sleep[k]]
  BY DEF Waits, sleep
<1>11. QED
  BY <1>9, <1>10 DEF w

(* Whatever numbers the file gives, the agent works with positive ones     *)
(* within the server's limits, keeps a usable one, and Post sleeps as told *)
(* for any number of attempts (applyDefaults, Client.Post).                *)
THEOREM UsableWhateverIsGiven ==
    ASSUME input.fn = "settings" => input.given \in [Number -> Int]
    PROVE  SettingsUsable
<1>1. SUFFICES ASSUME input.fn = "settings", input.given \in [Number -> Int]
               PROVE  SettingsUsable
  BY DEF SettingsUsable
<1> DEFINE given == input.given
           used == Numbers(given)
<1>2. \A f \in Number : DefaultOf[f] \in 1..300
  BY DEF Number, DefaultOf
<1>3. DOMAIN LimitOf = {"metricsBatch", "logsBatch"} /\ LimitOf["metricsBatch"] = 100
      /\ LimitOf["logsBatch"] = 1000
  BY DEF LimitOf
<1>4. ASSUME NEW f \in Number
      PROVE  /\ used[f] \in Nat \ {0}
             /\ given[f] \in 1..100 => used[f] = given[f]
             /\ f \in DOMAIN LimitOf => used[f] <= LimitOf[f]
  <2>1. given[f] \in Int /\ DefaultOf[f] \in 1..300
    BY <1>1, <1>2
  <2>2. f \in DOMAIN LimitOf => LimitOf[f] \in 100..1000
    BY <1>3
  <2> DEFINE v == IF given[f] <= 0 THEN DefaultOf[f] ELSE given[f]
  <2>3. v \in Nat \ {0} /\ (given[f] \in 1..100 => v = given[f])
    BY <2>1
  <2>4. used[f] = IF f \in DOMAIN LimitOf THEN Least(v, LimitOf[f]) ELSE v
    BY DEF Numbers
  <2> HIDE DEF v, used, given
  <2>5. QED
    BY <2>2, <2>3, <2>4, SMTT(20) DEF Least
<1>5. {"metricsBatch", "logsBatch", "initial", "maxInterval", "attempts"} \subseteq Number
  BY DEF Number, DefaultOf
<1>6. used.metricsBatch <= 100 /\ used.logsBatch <= 1000
  BY <1>3, <1>4, <1>5
<1>7. used.initial \in Nat \ {0} /\ used.maxInterval \in Nat \ {0} /\ used.attempts \in Nat \ {0}
  BY <1>4, <1>5
<1>8. \A f \in Number : used[f] > 0 /\ (given[f] \in 1..100 => used[f] = given[f])
  BY <1>4
<1> HIDE DEF used
<1>9. \A k \in 1..(used.attempts - 1) :
        Waits(used.initial, used.maxInterval, used.attempts)[k] =
            WaitBefore(used.initial, used.maxInterval, k)
  BY <1>7, WaitsAreTold
<1>10. QED
  BY <1>6, <1>8, <1>9 DEF SettingsUsable, used

-----------------------------------------------------------------------------
(* Agents and sessions.                                                    *)

(* A set of numbers up to N that is not empty has a largest element.       *)
LEMMA LargestOne ==
    ASSUME NEW N \in Nat, NEW T, T \subseteq 0..N, T # {}
    PROVE  Max(T) \in T /\ \A y \in T : Max(T) >= y
<1> DEFINE R == {N - y : y \in T}
<1>1. R \subseteq Nat /\ R # {}
  <2>1. PICK t : t \in T
    OBVIOUS
  <2>2. N - t \in R
    BY <2>1
  <2>3. QED  BY <2>2
<1>2. PICK r \in R : \A y \in R : r <= y
  BY <1>1, LeastOne
<1>3. PICK x \in T : r = N - x
  OBVIOUS
<1>4. \A y \in T : x >= y
  <2>1. ASSUME NEW y \in T  PROVE x >= y
    <3>1. N - y \in R /\ x \in Nat /\ y \in Nat
      OBVIOUS
    <3>2. r <= N - y
      BY <1>2, <3>1
    <3>3. QED  BY <1>3, <3>1, <3>2
  <2>2. QED  BY <2>1
<1>5. QED
  BY <1>4 DEF Max

(* A number that is least in a set is the one Min chooses, one that is     *)
(* largest the one Max chooses.                                            *)
LEMMA TheLeast ==
    ASSUME NEW T, T \subseteq Nat, NEW b \in T, \A y \in T : b <= y
    PROVE  Min(T) = b
<1>1. Min(T) \in T /\ \A y \in T : Min(T) <= y
  BY DEF Min
<1>2. Min(T) \in Nat /\ b \in Nat /\ Min(T) <= b /\ b <= Min(T)
  BY <1>1
<1>3. QED  BY <1>2

LEMMA TheLargest ==
    ASSUME NEW T, T \subseteq Nat, NEW b \in T, \A y \in T : b >= y
    PROVE  Max(T) = b
<1>1. Max(T) \in T /\ \A y \in T : Max(T) >= y
  BY DEF Max
<1>2. Max(T) \in Nat /\ b \in Nat /\ Max(T) >= b /\ b >= Max(T)
  BY <1>1
<1>3. QED  BY <1>2

Words == STRING \ {""}
Cells == [w : Seq(Words), name : STRING]
SessionRecords == [key : Cells, agent : Seq(Words), model : Cells]
AgentRecords ==
    [id : Seq(Words), name : STRING, bootstrap : Cells, sessions : Nat, active : Cells]

(* The loop of bestByAgent keeps, after n sessions, the one to show of the *)
(* first n: the first main one, else the first with a key, else the last.  *)
Mine(s, id, n) == {i \in 1..n : s[i].agent = id}
Keyed(s, id, n) == {i \in Mine(s, id, n) : s[i].key # Empty}
Main(s, id, n) == {i \in Keyed(s, id, n) : isMain(s[i])}
Kind(s, id, n, b) ==
    /\ b = 0 <=> Mine(s, id, n) = {}
    /\ b # 0 => b \in Mine(s, id, n)
    /\ Main(s, id, n) # {} =>
        b \in Main(s, id, n) /\ \A i \in Main(s, id, n) : b <= i
    /\ Main(s, id, n) = {} /\ Keyed(s, id, n) # {} =>
        b \in Keyed(s, id, n) /\ \A i \in Keyed(s, id, n) : b <= i
    /\ Keyed(s, id, n) = {} => \A i \in Mine(s, id, n) : b >= i

LEMMA OneTurn ==
    ASSUME NEW s \in Seq(SessionRecords), NEW id, NEW n \in 1..Len(s), NEW b \in 0..(n - 1),
           Kind(s, id, n - 1, b),
           NEW c, c = IF s[n].agent = id /\ (b = 0 \/ preferSessionSnapshot(s[n], s[b]))
                      THEN n ELSE b
    PROVE  Kind(s, id, n, c) /\ c \in 0..n
<1> DEFINE M == Mine(s, id, n - 1)
           K == Keyed(s, id, n - 1)
           A == Main(s, id, n - 1)
<1>0. n \in Nat /\ n - 1 \in Nat /\ 1..n = (1..(n - 1)) \union {n} /\ n \notin 1..(n - 1)
  OBVIOUS
<1>1. \A i \in M : i \in 1..(n - 1) /\ i \in Nat /\ i < n
  BY <1>0 DEF Mine
<1>2. \A i \in DOMAIN s : isMain(s[i]) => s[i].key # Empty
  <2>1. Empty.w = <<>>
    BY DEF Empty, Named
  <2>2. QED  BY <2>1, Zenon DEF isMain
<1>3. n \in DOMAIN s
  OBVIOUS
<1>4. CASE s[n].agent # id
  <2>1. Mine(s, id, n) = M
    BY <1>0, <1>4 DEF Mine
  <2>2. Keyed(s, id, n) = K /\ Main(s, id, n) = A
    BY <2>1 DEF Keyed, Main
  <2>3. c = b
    BY <1>4
  <2>4. QED  BY <2>1, <2>2, <2>3 DEF Kind
<1>5. CASE s[n].agent = id
  <2>1. Mine(s, id, n) = M \union {n}
    BY <1>0, <1>5 DEF Mine
  <2>2. Keyed(s, id, n) = K \union {i \in {n} : s[n].key # Empty}
    BY <2>1 DEF Keyed
  <2>3. Main(s, id, n) = A \union {i \in {n} : isMain(s[n])}
    BY <1>2, <1>3, <2>1 DEF Main, Keyed
  <2>4. K \subseteq M /\ A \subseteq K
    BY DEF Keyed, Main
  <2>5. \A i \in M : (i \in K <=> s[i].key # Empty) /\ (i \in A <=> isMain(s[i]))
    <3>1. \A i \in M : i \in DOMAIN s
      BY <1>1
    <3>2. QED  BY <1>2, <3>1 DEF Keyed, Main
  <2>6. Kind(s, id, n - 1, b) <=>
          /\ b = 0 <=> M = {}
          /\ b # 0 => b \in M
          /\ A # {} => b \in A /\ \A i \in A : b <= i
          /\ A = {} /\ K # {} => b \in K /\ \A i \in K : b <= i
          /\ K = {} => \A i \in M : b >= i
    BY DEF Kind
  <2> DEFINE M2 == M \union {n}
             K2 == K \union {i \in {n} : s[n].key # Empty}
             A2 == A \union {i \in {n} : isMain(s[n])}
  <2>7. Kind(s, id, n, c) <=>
          /\ c = 0 <=> M2 = {}
          /\ c # 0 => c \in M2
          /\ A2 # {} => c \in A2 /\ \A i \in A2 : c <= i
          /\ A2 = {} /\ K2 # {} => c \in K2 /\ \A i \in K2 : c <= i
          /\ K2 = {} => \A i \in M2 : c >= i
    BY <2>1, <2>2, <2>3 DEF Kind
  <2>8. isMain(s[n]) => s[n].key # Empty
    BY <1>2, <1>3
  <2>9. b # 0 => (preferSessionSnapshot(s[n], s[b]) <=>
                    \/ isMain(s[n]) /\ b \notin A
                    \/ ~isMain(s[n]) /\ b \notin K)
    <3>1. b # 0 => b \in M
      BY <2>6
    <3>2. isMain(s[n]) \in BOOLEAN /\ isMain(s[b]) \in BOOLEAN
      BY DEF isMain
    <3>3. QED
      BY <2>4, <2>5, <3>1, <3>2 DEF preferSessionSnapshot
  <2> HIDE DEF M, K, A
  <2>10. CASE b = 0
    <3>1. M = {} /\ K = {} /\ A = {} /\ c = n
      BY <1>5, <2>4, <2>6, <2>10
    <3>2. QED  BY <1>0, <2>7, <2>8, <3>1
  <2>11. CASE b # 0 /\ isMain(s[n])
    <3>1. CASE b \in A
      <4>1. c = b
        BY <2>9, <2>11, <3>1
      <4>2. QED  BY <1>0, <1>1, <2>4, <2>6, <2>7, <2>8, <2>11, <3>1, <4>1
    <3>2. CASE b \notin A
      <4>1. c = n /\ A = {}
        BY <1>5, <2>6, <2>9, <2>11, <3>2
      <4>2. QED  BY <1>0, <1>1, <2>4, <2>6, <2>7, <2>8, <2>11, <3>2, <4>1
    <3>3. QED  BY <3>1, <3>2
  <2>12. CASE b # 0 /\ ~isMain(s[n])
    <3>1. CASE b \in K
      <4>1. c = b
        BY <2>9, <2>12, <3>1
      <4>2. A2 = A
        BY <2>12
      <4>3. QED  BY <1>0, <1>1, <2>4, <2>6, <2>7, <2>12, <3>1, <4>1, <4>2
    <3>2. CASE b \notin K
      <4>1. c = n /\ A = {} /\ K = {}
        BY <1>5, <2>4, <2>6, <2>9, <2>12, <3>2
      <4>2. A2 = {}
        BY <2>12, <4>1
      <4>3. QED  BY <1>0, <1>1, <2>4, <2>6, <2>7, <2>12, <3>2, <4>1, <4>2
    <3>3. QED  BY <3>1, <3>2
  <2>13. QED  BY <2>10, <2>11, <2>12
<1>6. QED  BY <1>4, <1>5

(* What bestByAgent leaves is the place of the session to show.            *)
LEMMA BestIsKind ==
    ASSUME NEW s \in Seq(SessionRecords), NEW id
    PROVE  Kind(s, id, Len(s), bestByAgent(s, id)) /\ bestByAgent(s, id) \in 0..Len(s)
<1> DEFINE N == Len(s)
           Turn(n, x) == IF /\ s[n].agent = id
                            /\ \/ x = 0
                               \/ preferSessionSnapshot(s[n], s[x])
                         THEN n ELSE x
           E(g) == [n \in 0..N |-> IF n = 0 THEN 0 ELSE Turn(n, g[n - 1])]
           best == CHOOSE g : g = E(g)
           step == [n \in 1..N |-> [x \in 0..N |-> Turn(n, x)]]
<1>1. N \in Nat /\ 0 \in 0..N
  OBVIOUS
<1>2. \A n \in 1..N : \A x \in 0..N : step[n][x] = Turn(n, x) /\ Turn(n, x) \in 0..N
  OBVIOUS
<1> HIDE DEF Turn, step
<1>3. IsStep(step, N, 0..N)
  BY <1>2 DEF IsStep
<1>4. PICK f : IsRun(f, N, 0..N, 0, step)
  BY <1>1, <1>3, Recursion
<1>5. f = E(f)
  <2>1. /\ f = [n \in 0..N |-> IF n = 0 THEN 0 ELSE step[n][f[n - 1]]]
        /\ \A n \in 1..N : f[n - 1] \in 0..N
    BY <1>1, <1>4, RunTurns
  <2>2. \A n \in 0..N : n = 0 \/ n \in 1..N
    BY <1>1
  <2>3. \A n \in 1..N : step[n][f[n - 1]] = Turn(n, f[n - 1])
    BY <1>2, <2>1
  <2>4. QED  BY <2>1, <2>2, <2>3
<1>6. best = E(best)
  BY <1>5
<1>7. \A n \in 0..N : best[n] = IF n = 0 THEN 0 ELSE Turn(n, best[n - 1])
  <2> HIDE DEF best
  <2>1. QED  BY <1>6
<1>8. bestByAgent(s, id) = best[N]
  BY DEF bestByAgent, Turn
<1> HIDE DEF best
<1> DEFINE S == {n \in 0..N : best[n] \in 0..n /\ Kind(s, id, n, best[n])}
<1>9. 0 \in S
  <2>1. best[0] = 0
    BY <1>1, <1>7
  <2>2. Mine(s, id, 0) = {} /\ Keyed(s, id, 0) = {} /\ Main(s, id, 0) = {}
    BY DEF Mine, Keyed, Main
  <2>3. Kind(s, id, 0, 0)
    BY <2>2 DEF Kind
  <2>4. QED  BY <1>1, <2>1, <2>3
<1>10. ASSUME NEW n \in 1..N, n - 1 \in S  PROVE n \in S
  <2>1. best[n - 1] \in 0..(n - 1) /\ Kind(s, id, n - 1, best[n - 1])
    BY <1>10
  <2>2. best[n] = Turn(n, best[n - 1])
    BY <1>1, <1>7
  <2>3. Kind(s, id, n, best[n]) /\ best[n] \in 0..n
    BY <2>1, <2>2, OneTurn DEF Turn
  <2>4. QED  BY <1>1, <2>3
<1>11. N \in S
  <2> HIDE DEF S
  <2>1. \A n \in 0..N : n \in S
    BY <1>1, <1>9, <1>10, Induction
  <2>2. QED  BY <1>1, <2>1
<1>12. QED
  BY <1>8, <1>11

(* The session shown is the one to show, for any sessions and any agent.   *)
LEMMA ShownIsTold ==
    ASSUME NEW s \in Seq(SessionRecords), NEW id
    PROVE  ShownFor(s, id) = SessionToShow(s, id)
<1> DEFINE N == Len(s)
           M == Mine(s, id, N)
           K == Keyed(s, id, N)
           A == Main(s, id, N)
           b == bestByAgent(s, id)
<1>1. /\ b = 0 <=> M = {}
      /\ b # 0 => b \in M
      /\ A # {} => b \in A /\ \A i \in A : b <= i
      /\ A = {} /\ K # {} => b \in K /\ \A i \in K : b <= i
      /\ K = {} => \A i \in M : b >= i
  BY BestIsKind DEF Kind
<1>2. DOMAIN s = 1..N /\ M \subseteq Nat /\ K \subseteq M /\ A \subseteq K
  BY DEF Mine, Keyed, Main
<1>3. SessionToShow(s, id) =
        CASE A # {} -> s[Min(A)].model
          [] A = {} /\ K # {} -> s[Min(K)].model
          [] K = {} /\ M # {} -> s[Max(M)].model
          [] M = {} -> Empty
  BY <1>2 DEF SessionToShow, Mine, Keyed, Main
<1>4. ShownFor(s, id) = IF b = 0 THEN Empty ELSE s[b].model
  BY DEF ShownFor
<1> HIDE DEF M, K, A, b
<1>5. CASE A # {}
  <2>1. Min(A) = b /\ b # 0
    BY <1>1, <1>2, <1>5, TheLeast
  <2>2. QED  BY <1>2, <1>3, <1>4, <1>5, <2>1
<1>6. CASE A = {} /\ K # {}
  <2>1. Min(K) = b /\ b # 0
    BY <1>1, <1>2, <1>6, TheLeast
  <2>2. QED  BY <1>2, <1>3, <1>4, <1>6, <2>1
<1>7. CASE K = {} /\ M # {}
  <2>1. Max(M) = b /\ b # 0 /\ A = {}
    BY <1>1, <1>2, <1>7, TheLargest
  <2>2. QED  BY <1>2, <1>3, <1>4, <1>7, <2>1
<1>8. CASE M = {}
  <2>1. K = {} /\ A = {} /\ b = 0
    BY <1>1, <1>2, <1>8
  <2>2. QED  BY <1>3, <1>4, <1>8, <2>1
<1>9. QED
  BY <1>2, <1>5, <1>6, <1>7, <1>8

(* A name that is missing; kept folded where agents are in sequences.      *)
NoName(a) == a.name = ""

(* The list of agents has an id and a name for each, and holds every item  *)
(* that has an id.                                                         *)
IsList(list, items, n) ==
    /\ list \in Seq(AgentRecords)
    /\ \A m \in 1..Len(list) : ~NoName(list[m])
    /\ \A j \in 1..n : items[j].id # <<>> =>
            \E m \in 1..Len(list) : list[m].id = items[j].id

LEMMA ListIsRead ==
    ASSUME NEW items \in Seq(AgentRecords)
    PROVE  IsList(collectAgentsList(items), items, Len(items))
<1> DEFINE N == Len(items)
           V == Seq(AgentRecords)
           Turn(n, x) == IF items[n].id = <<>> THEN x ELSE Append(x, Listed(items[n]))
           E(g) == [n \in 0..N |-> IF n = 0 THEN <<>> ELSE Turn(n, g[n - 1])]
           agents == CHOOSE g : g = E(g)
           step == [n \in 1..N |-> [x \in V |-> Turn(n, x)]]
<1>1. N \in Nat /\ <<>> \in V
  OBVIOUS
<1>2. ASSUME NEW n \in 1..N, items[n].id # <<>>
      PROVE  /\ Listed(items[n]) \in AgentRecords
             /\ Listed(items[n]).id = items[n].id /\ ~NoName(Listed(items[n]))
  <2>1. items[n] \in AgentRecords
    OBVIOUS
  <2>2. items[n].id \in Seq(Words) /\ items[n].id # <<>>
    BY <1>2, <2>1 DEF AgentRecords
  <2>3. items[n].id[1] \in Words
    BY <2>2
  <2> DEFINE a == items[n]
             name == IF a.name = "" THEN a.id[1] ELSE a.name
  <2>4. name \in STRING /\ name # ""
    BY <2>1, <2>3 DEF AgentRecords, Words
  <2>5. Listed(a) = [a EXCEPT !.name = name]
    BY <2>1 DEF Listed, AgentRecords
  <2> HIDE DEF a, name
  <2>6. a \in AgentRecords
    BY <2>1 DEF a
  <2>7. Listed(a) \in AgentRecords /\ Listed(a).id = a.id /\ Listed(a).name = name
    BY <2>4, <2>5, <2>6 DEF AgentRecords
  <2>8. QED  BY <2>4, <2>7 DEF a, NoName
<1>3. ASSUME NEW n \in 1..N, NEW x \in V  PROVE step[n][x] = Turn(n, x) /\ Turn(n, x) \in V
  <2>1. step[n][x] = Turn(n, x)
    OBVIOUS
  <2>2. CASE items[n].id = <<>>
    BY <2>1, <2>2
  <2>3. CASE items[n].id # <<>>
    BY <1>2, <2>1, <2>3, Appended
  <2>4. QED  BY <2>2, <2>3
<1> HIDE DEF step, V
<1>4. IsStep(step, N, V)
  BY <1>3 DEF IsStep
<1>5. PICK f : IsRun(f, N, V, <<>>, step)
  BY <1>1, <1>4, Recursion
<1>6. f = E(f)
  <2> HIDE DEF Turn
  <2>1. /\ f = [n \in 0..N |-> IF n = 0 THEN <<>> ELSE step[n][f[n - 1]]]
        /\ \A n \in 1..N : f[n - 1] \in V
    BY <1>1, <1>5, RunTurns
  <2>2. \A n \in 0..N : n = 0 \/ n \in 1..N
    BY <1>1
  <2>3. \A n \in 1..N : step[n][f[n - 1]] = Turn(n, f[n - 1])
    BY <1>3, <2>1
  <2>4. QED  BY <2>1, <2>2, <2>3
<1>7. agents = E(agents)
  BY <1>6
<1>8. \A n \in 0..N : agents[n] = IF n = 0 THEN <<>> ELSE Turn(n, agents[n - 1])
  <2> HIDE DEF agents, Turn
  <2>1. QED  BY <1>7
<1>9. collectAgentsList(items) = agents[N]
  BY DEF collectAgentsList
<1> HIDE DEF agents
<1> DEFINE S == {n \in 0..N : IsList(agents[n], items, n)}
<1>10. 0 \in S
  <2>1. agents[0] = <<>>
    BY <1>1, <1>8
  <2>2. IsList(<<>>, items, 0)
    BY DEF IsList
  <2>3. QED  BY <1>1, <2>1, <2>2
<1>11. ASSUME NEW n \in 1..N, n - 1 \in S  PROVE n \in S
  <2> DEFINE l == agents[n - 1]
             k == agents[n]
  <2>1. IsList(l, items, n - 1)
    BY <1>11
  <2>2. k = Turn(n, l)
    BY <1>1, <1>8
  <2> HIDE DEF l, k
  <2>3. 1..n = (1..(n - 1)) \union {n}
    BY <1>1
  <2>4. CASE items[n].id = <<>>
    <3>1. k = l
      BY <2>2, <2>4
    <3>2. IsList(k, items, n)
      BY <2>1, <2>3, <2>4, <3>1 DEF IsList
    <3>3. QED  BY <1>1, <3>2 DEF k
  <2>5. CASE items[n].id # <<>>
    <3> DEFINE e == Listed(items[n])
    <3>1. k = Append(l, e)
      BY <2>2, <2>5
    <3>2. e \in AgentRecords /\ e.id = items[n].id /\ ~NoName(e)
      BY <1>2, <2>5
    <3> HIDE DEF e
    <3>3. l \in Seq(AgentRecords)
      BY <2>1 DEF IsList
    <3>4. /\ k \in Seq(AgentRecords) /\ Len(k) = Len(l) + 1 /\ Len(l) \in Nat
          /\ k[Len(l) + 1] = e /\ \A m \in 1..Len(l) : k[m] = l[m]
      BY <3>1, <3>2, <3>3, Appended
    <3>5. 1..Len(k) = (1..Len(l)) \union {Len(l) + 1}
      BY <3>4
    <3>6. \A m \in 1..Len(k) : ~NoName(k[m])
      BY <2>1, <3>2, <3>4, <3>5 DEF IsList
    <3>7. ASSUME NEW j \in 1..n, items[j].id # <<>>
          PROVE  \E m \in 1..Len(k) : k[m].id = items[j].id
      <4>1. CASE j = n
        BY <3>2, <3>4, <3>5, <4>1
      <4>2. CASE j # n
        <5>1. PICK m \in 1..Len(l) : l[m].id = items[j].id
          BY <2>1, <2>3, <3>7, <4>2 DEF IsList
        <5>2. QED  BY <3>4, <3>5, <5>1
      <4>3. QED  BY <4>1, <4>2
    <3>8. IsList(k, items, n)
      BY <3>4, <3>6, <3>7 DEF IsList
    <3>9. QED  BY <1>1, <3>8 DEF k
  <2>6. QED  BY <2>4, <2>5
<1>12. N \in S
  <2> HIDE DEF S
  <2>1. \A n \in 0..N : n \in S
    BY <1>1, <1>10, <1>11, Induction
  <2>2. QED  BY <1>1, <2>1
<1>13. QED
  BY <1>9, <1>12

(* Completing an agent keeps what is known of it.                          *)
LEMMA CompletedKeeps ==
    ASSUME NEW a \in AgentRecords, NEW b \in AgentRecords
    PROVE  /\ Completed(a, b).id = a.id
           /\ ~NoName(a) => Completed(a, b).name = a.name
           /\ ~NoName(b) => ~NoName(Completed(a, b))
           /\ a.sessions # 0 => Completed(a, b).sessions = a.sessions
           /\ a.active # Empty => Completed(a, b).active = a.active
BY DEF Completed, Fill, AgentRecords, NoName

(* The list completes the agents.                                          *)
IsCompletion(known, items, after) ==
    /\ known = <<>> => after = collectAgentsList(items)
    /\ known # <<>> => Len(after) = Len(known)
    /\ \A i \in DOMAIN known :
        /\ after[i].id = known[i].id
        /\ ~NoName(known[i]) => after[i].name = known[i].name
        /\ known[i].sessions # 0 => after[i].sessions = known[i].sessions
        /\ known[i].active # Empty => after[i].active = known[i].active
    /\ \A i \in DOMAIN after :
        NoName(after[i]) => \A j \in DOMAIN items : items[j].id # after[i].id

LEMMA MergeCompletes ==
    ASSUME NEW known \in Seq(AgentRecords), NEW items \in Seq(AgentRecords),
           \A i \in DOMAIN known : known[i].id # <<>> \/ ~NoName(known[i]),
           NEW after, after = mergeAgents(known, collectAgentsList(items))
    PROVE  IsCompletion(known, items, after)
<1> DEFINE list == collectAgentsList(items)
           Same(i) == {j \in DOMAIN list : list[j].id = known[i].id}
<1>1. DOMAIN known = 1..Len(known) /\ Len(known) \in Nat
  OBVIOUS
<1>2. \A i \in DOMAIN known : /\ known[i] \in AgentRecords
                              /\ known[i].id # <<>> \/ ~NoName(known[i])
  OBVIOUS
<1>3. IsList(list, items, Len(items)) /\ DOMAIN items = 1..Len(items)
  BY ListIsRead
<1>4. list \in Seq(AgentRecords) /\ DOMAIN list = 1..Len(list) /\ Len(list) \in Nat
  BY <1>3 DEF IsList
<1>5. \A m \in DOMAIN list : list[m] \in AgentRecords /\ ~NoName(list[m])
  BY <1>3, <1>4 DEF IsList
<1>6. \A j \in DOMAIN items : items[j].id # <<>> =>
          \E m \in DOMAIN list : list[m].id = items[j].id
  BY <1>3, <1>4 DEF IsList
<1>7. \A i \in DOMAIN known : Same(i) # {} => Max(Same(i)) \in Same(i)
  <2>1. ASSUME NEW i \in DOMAIN known, Same(i) # {}  PROVE Max(Same(i)) \in Same(i)
    <3>1. Same(i) \subseteq 0..Len(list)
      BY <1>4
    <3>2. QED  BY <1>4, <2>1, <3>1, LargestOne
  <2>2. QED  BY <2>1
<1>8. after = IF list = <<>> \/ (known # <<>> /\ \A i \in DOMAIN known : ~NoName(known[i]))
              THEN known
              ELSE IF known = <<>> THEN list
              ELSE [i \in DOMAIN known |->
                      IF Same(i) = {} THEN known[i] ELSE Completed(known[i], list[Max(Same(i))])]
  BY DEF mergeAgents, NoName
<1> HIDE DEF list
<1>9. CASE list = <<>>
  <2>1. after = known
    BY <1>8, <1>9
  <2>2. \A j \in DOMAIN items : items[j].id = <<>>
    BY <1>4, <1>6, <1>9
  <2>3. \A i \in DOMAIN known : NoName(known[i]) => \A j \in DOMAIN items : items[j].id # known[i].id
    BY <1>2, <2>2
  <2>4. QED  BY <1>9, <2>1, <2>3 DEF IsCompletion, list
<1>10. CASE known # <<>> /\ \A i \in DOMAIN known : ~NoName(known[i])
  BY <1>1, <1>8, <1>10 DEF IsCompletion
<1>11. CASE list # <<>> /\ known = <<>>
  <2>1. after = list
    BY <1>8, <1>11
  <2>2. DOMAIN known = {}
    BY <1>11
  <2>3. QED  BY <1>5, <1>11, <2>1, <2>2 DEF IsCompletion, list
<1>12. CASE /\ list # <<>> /\ known # <<>>
            /\ ~\A i \in DOMAIN known : ~NoName(known[i])
  <2>1. after = [i \in DOMAIN known |->
                  IF Same(i) = {} THEN known[i] ELSE Completed(known[i], list[Max(Same(i))])]
    BY <1>8, <1>12
  <2>2. DOMAIN after = DOMAIN known
    BY <2>1
  <2>3. Len(after) = Len(known)
    BY <1>1, <1>2, <2>1
  <2>4. ASSUME NEW i \in DOMAIN known
        PROVE  /\ after[i].id = known[i].id
               /\ ~NoName(known[i]) => after[i].name = known[i].name
               /\ known[i].sessions # 0 => after[i].sessions = known[i].sessions
               /\ known[i].active # Empty => after[i].active = known[i].active
               /\ NoName(after[i]) => \A j \in DOMAIN items : items[j].id # after[i].id
    <3>1. CASE Same(i) = {}
      <4>1. after[i] = known[i]
        BY <2>1, <3>1
      <4>2. ASSUME NoName(known[i]), NEW j \in DOMAIN items  PROVE items[j].id # known[i].id
        <5>1. known[i].id # <<>>
          BY <1>2, <4>2
        <5>2. \A m \in DOMAIN list : list[m].id # known[i].id
          BY <3>1
        <5>3. QED  BY <1>6, <5>1, <5>2
      <4>3. QED  BY <4>1, <4>2
    <3>2. CASE Same(i) # {}
      <4> DEFINE b == list[Max(Same(i))]
      <4>1. Max(Same(i)) \in DOMAIN list
        BY <1>7, <3>2
      <4>2. after[i] = Completed(known[i], b) /\ b \in AgentRecords /\ ~NoName(b)
        BY <1>5, <2>1, <3>2, <4>1
      <4> HIDE DEF b
      <4>3. QED  BY <1>2, <4>2, CompletedKeeps
    <3>3. QED  BY <3>1, <3>2
  <2>5. QED  BY <1>12, <2>2, <2>3, <2>4 DEF IsCompletion
<1>13. QED
  BY <1>9, <1>10, <1>11, <1>12

(* The session shown for an agent is the one to show of any sessions in    *)
(* any order, and the list of agents completes any agents: an agent read   *)
(* from the table has an id or a name.                                     *)
THEOREM CompletedWhateverIsRead ==
    ASSUME input.fn = "sessions" => input.sessions \in Seq(SessionRecords),
           input.fn = "merge" =>
              /\ input.agents \in Seq(AgentRecords) /\ input.items \in Seq(AgentRecords)
              /\ \A i \in DOMAIN input.agents :
                    input.agents[i].id # <<>> \/ input.agents[i].name # ""
    PROVE  AgentsCompleted
<1>1. input.fn = "sessions" =>
        \A id \in input.ids : ShownFor(input.sessions, id) = SessionToShow(input.sessions, id)
  BY ShownIsTold
<1>2. CASE input.fn = "merge"
  <2> DEFINE known == input.agents
             items == input.items
             after == mergeAgents(known, collectAgentsList(items))
  <2>1. /\ known \in Seq(AgentRecords) /\ items \in Seq(AgentRecords)
        /\ \A i \in DOMAIN known : known[i].id # <<>> \/ ~NoName(known[i])
    BY <1>2, Zenon DEF NoName
  <2>2. after = mergeAgents(known, collectAgentsList(items))
    OBVIOUS
  <2> HIDE DEF known, items, after
  <2>3. IsCompletion(known, items, after)
    BY <2>1, <2>2, MergeCompletes
  <2>4. QED
    BY <1>2, <2>3, Zenon DEF AgentsCompleted, IsCompletion, NoName, known, items, after
<1>3. QED
  BY <1>1, <1>2 DEF AgentsCompleted

-----------------------------------------------------------------------------
(* Replies.                                                                *)

(* A CLI call is reported as failed only if it failed and printed nothing, *)
(* whatever it printed and whatever reply is found in that (execMessage,   *)
(* execCLI, execProbe).                                                    *)
THEOREM FailedMeansSilent == FailureOnlyWhenSilent
<1> DEFINE out == input.out
           err == input.err
           Q(r) == /\ r.status = IF err /\ out.s = "" THEN 3 ELSE 2
                   /\ r.output = "" => out.s = ""
<1>0. 2 # 3
  OBVIOUS
<1>1. SUFFICES ASSUME NEW r \in execMessage(err, out)  PROVE Q(r)
  <2>1. /\ execUpdate("apply", err, out) = execCLI(err, out)
        /\ execSessions("cleanup", err, out) = execCLI(err, out)
        /\ execGatewayCmd("restart", err, out) = execCLI(err, out)
    BY DEF execUpdate, execSessions, execGatewayCmd, WithAction
  <2>2. execCLI(err, out) = IF err /\ out.s = "" THEN 3 ELSE 2
    BY DEF execCLI
  <2>3. out.s = "" => execProbe(out, out) = 3
    BY DEF execProbe
  <2>4. ASSUME NEW r \in execMessage(err, out), Q(r)
        PROVE  /\ {execCLI(err, out), execUpdate("apply", err, out),
                   execSessions("cleanup", err, out),
                   execGatewayCmd("restart", err, out)} = {r.status}
               /\ r.status = 3 <=> (err /\ out.s = "")
               /\ r.status = 3 => execProbe(out, out) = 3
               /\ r.output = "" => out.s = ""
    <3>1. r.status = execCLI(err, out) /\ (r.output = "" => out.s = "")
      BY <2>2, <2>4
    <3>2. r.status = 3 <=> (err /\ out.s = "")
      <4>1. CASE err /\ out.s = ""
        <5>1. r.status = 3
          BY <2>4, <4>1, Zenon
        <5>2. QED  BY <4>1, <5>1, Zenon
      <4>2. CASE ~(err /\ out.s = "")
        <5>1. r.status = 2
          BY <2>4, <4>2, Zenon
        <5>2. r.status # 3
          BY <1>0, <5>1, Zenon
        <5>3. QED  BY <4>2, <5>2, Zenon
      <4>3. QED  BY <4>1, <4>2, Zenon
    <3> HIDE DEF Q, out, err
    <3>3. QED  BY <2>1, <2>3, <3>1, <3>2
  <2> HIDE DEF Q
  <2>5. QED  BY <2>4, Zenon DEF FailureOnlyWhenSilent
<1> HIDE DEF out, err
<1>2. CASE err /\ out.s = ""
  <2>1. r = [status |-> 3, output |-> ""]
    BY <1>1, <1>2 DEF execMessage
  <2>2. QED  BY <1>2, <2>1
<1>3. CASE ~(err /\ out.s = "")
  <2>1. PICK reply \in extractAgentReply(out) :
          r = IF reply # "" THEN [status |-> 2, output |-> reply]
              ELSE IF err THEN [status |-> 3, output |-> reply]
              ELSE [status |-> 2, output |-> out.s]
    BY <1>1, <1>3 DEF execMessage
  <2>2. reply = "" => out.s = ""
    BY <2>1 DEF extractAgentReply, Texts
  <2>3. CASE reply # ""
    BY <1>3, <2>1, <2>3
  <2>4. CASE reply = ""
    BY <1>3, <2>1, <2>2, <2>4
  <2>5. QED  BY <2>3, <2>4
<1>4. QED  BY <1>2, <1>3

(* What a search finds fits the answers there are: it finds something, it  *)
(* finds nothing that is no answer, and no text only if there is none.     *)
Fits(found, answers) ==
    /\ found # {}
    /\ Texts(found) \subseteq answers
    /\ "" \in found => answers = {}
Single(found) == \E x : found = {x}

LEMMA ElseFits ==
    ASSUME NEW f, NEW a, NEW g, NEW b, Fits(f, a), Fits(g, b)
    PROVE  Fits(Else(f, g), a \union b)
<1>1. CASE "" \in f
  <2>1. Else(f, g) = Texts(f) \union g /\ a = {} /\ Texts(f) = {}
    BY <1>1 DEF Else, Fits
  <2>2. Else(f, g) = g /\ a \union b = b
    BY <2>1
  <2>3. QED  BY <2>2
<1>2. CASE "" \notin f
  <2>1. Else(f, g) = f /\ Texts(f) = f /\ f # {} /\ f \subseteq a
    BY <1>2 DEF Else, Texts, Fits
  <2>2. QED  BY <1>2, <2>1 DEF Fits
<1>3. QED  BY <1>1, <1>2

LEMMA ElseSingle ==
    ASSUME NEW f, NEW g, Single(f), "" \in f => Single(g)
    PROVE  Single(Else(f, g))
<1>1. PICK x : f = {x}
  BY DEF Single
<1>2. CASE "" \in f
  <2>1. Texts(f) = {}
    BY <1>1, <1>2 DEF Texts
  <2>2. Else(f, g) = g
    BY <1>2, <2>1 DEF Else
  <2>3. QED  BY <1>2, <2>2
<1>3. CASE "" \notin f
  <2>1. Else(f, g) = f
    BY <1>3 DEF Else, Texts
  <2>2. QED  BY <2>1
<1>4. QED  BY <1>2, <1>3

(* What the tries find, text by text.                                      *)
LEMMA InAnyOrderElems ==
    ASSUME NEW tries, NEW x
    PROVE  x \in InAnyOrder(tries) <=>
              x \in NoText(tries) \/ \E i \in DOMAIN tries : x \in Texts(tries[i])
<1> DEFINE U == UNION {Texts(tries[i]) : i \in DOMAIN tries}
<1>1. x \in U <=> \E i \in DOMAIN tries : x \in Texts(tries[i])
  OBVIOUS
<1>2. InAnyOrder(tries) = U \union NoText(tries)
  BY DEF InAnyOrder
<1> HIDE DEF U
<1>3. QED  BY <1>1, <1>2

LEMMA InOrderElems ==
    ASSUME NEW tries, NEW x
    PROVE  x \in InOrder(tries) <=>
              x \in NoText(tries) \/ \E i \in Reached(tries) : x \in Texts(tries[i])
<1> DEFINE U == UNION {Texts(tries[i]) : i \in Reached(tries)}
<1>1. x \in U <=> \E i \in Reached(tries) : x \in Texts(tries[i])
  OBVIOUS
<1>2. InOrder(tries) = U \union NoText(tries)
  BY DEF InOrder
<1> HIDE DEF U
<1>3. QED  BY <1>1, <1>2

LEMMA AnyOrderFits ==
    ASSUME NEW tries, NEW answers, \A k \in DOMAIN tries : Fits(tries[k], answers[k])
    PROVE  Fits(InAnyOrder(tries), UNION {answers[k] : k \in DOMAIN tries})
<1> DEFINE D == DOMAIN tries
           all == UNION {answers[k] : k \in D}
<1>1. CASE \A k \in D : "" \in tries[k]
  <2>1. \A k \in D : answers[k] = {} /\ Texts(tries[k]) = {}
    BY <1>1 DEF Fits
  <2>2. NoText(tries) = {""}
    BY <1>1 DEF NoText
  <2>3. all = {}
    BY <2>1, Zenon
  <2>4. InAnyOrder(tries) = {""}
    BY <2>1, <2>2, InAnyOrderElems
  <2>5. QED  BY <2>3, <2>4 DEF Fits, Texts
<1>2. CASE ~\A k \in D : "" \in tries[k]
  <2>1. PICK k \in D : "" \notin tries[k]
    BY <1>2
  <2>2. NoText(tries) = {}
    BY <1>2 DEF NoText
  <2>3. InAnyOrder(tries) = UNION {Texts(tries[i]) : i \in D}
    BY <2>2 DEF InAnyOrder
  <2>4. Texts(tries[k]) # {}
    BY <2>1 DEF Fits, Texts
  <2>5. InAnyOrder(tries) # {} /\ "" \notin InAnyOrder(tries)
    BY <2>3, <2>4 DEF Texts
  <2>6. InAnyOrder(tries) \subseteq all
    BY <2>3 DEF Fits
  <2>7. QED  BY <2>5, <2>6 DEF Fits, Texts
<1>3. QED  BY <1>1, <1>2

(* In order, the first try that returns a text is the last one made.       *)
Mute(found) == "" \in found

LEMMA InOrderStops ==
    ASSUME NEW n \in Nat, NEW tries, DOMAIN tries = 1..n
    PROVE  \/ (\A i \in 1..n : Mute(tries[i])) /\ NoText(tries) = {""}
           \/ NoText(tries) = {} /\ \E i \in 1..n :
                /\ ~Mute(tries[i]) /\ i \in Reached(tries)
                /\ \A j \in Reached(tries) : j # i => Mute(tries[j])
<1>1. (\A i \in 1..n : Mute(tries[i])) => NoText(tries) = {""}
  BY DEF NoText, Mute
<1>2. (\E i \in 1..n : ~Mute(tries[i])) => NoText(tries) = {}
  BY DEF NoText, Mute
<1>3. Reached(tries) = {i \in 1..n : \A k \in 1..(i - 1) : Mute(tries[k])}
  BY DEF Reached, Mute
<1>4. CASE \E i \in 1..n : ~Mute(tries[i])
  <2> DEFINE T == {i \in 1..n : ~Mute(tries[i])}
  <2>1. T \subseteq Nat /\ T # {}
    BY <1>4
  <2>2. PICK i \in T : \A y \in T : i <= y
    BY <2>1, LeastOne
  <2>3. i \in 1..n /\ ~Mute(tries[i])
    OBVIOUS
  <2>4. \A k \in 1..(i - 1) : k \in 1..n /\ Mute(tries[k])
    BY <2>2, <2>3
  <2>5. i \in Reached(tries)
    BY <1>3, <2>3, <2>4
  <2>6. ASSUME NEW j \in Reached(tries), j # i  PROVE Mute(tries[j])
    <3>1. j \in 1..n /\ ~(i \in 1..(j - 1))
      BY <1>3, <2>3
    <3>2. j \in 1..(i - 1)
      BY <2>3, <2>6, <3>1
    <3>3. QED  BY <2>4, <3>2
  <2>7. QED  BY <1>2, <1>4, <2>3, <2>5, <2>6
<1>5. QED  BY <1>1, <1>4

LEMMA InOrderFits ==
    ASSUME NEW n \in Nat, NEW tries, DOMAIN tries = 1..n, NEW answers,
           \A i \in 1..n : Fits(tries[i], answers[i])
    PROVE  Fits(InOrder(tries), UNION {answers[i] : i \in 1..n})
<1> DEFINE all == UNION {answers[i] : i \in 1..n}
<1>1. \A i \in Reached(tries) : i \in 1..n
  BY DEF Reached
<1>2. CASE (\A i \in 1..n : Mute(tries[i])) /\ NoText(tries) = {""}
  <2>1. \A i \in 1..n : answers[i] = {} /\ Texts(tries[i]) = {}
    BY <1>2 DEF Fits, Mute
  <2>2. all = {}
    BY <2>1, Zenon
  <2>3. InOrder(tries) = {""}
    BY <1>1, <1>2, <2>1, InOrderElems
  <2>4. QED  BY <2>2, <2>3 DEF Fits, Texts, Mute
<1>3. CASE NoText(tries) = {} /\ \E i \in 1..n : ~Mute(tries[i]) /\ i \in Reached(tries)
  <2>1. PICK i \in 1..n : ~Mute(tries[i]) /\ i \in Reached(tries)
    BY <1>3
  <2>2. InOrder(tries) = UNION {Texts(tries[j]) : j \in Reached(tries)}
    BY <1>3 DEF InOrder
  <2>3. Texts(tries[i]) # {}
    BY <2>1 DEF Fits, Texts, Mute
  <2>4. InOrder(tries) # {} /\ "" \notin InOrder(tries)
    BY <2>1, <2>2, <2>3 DEF Texts
  <2>5. InOrder(tries) \subseteq all
    BY <1>1, <2>2 DEF Fits, Mute
  <2>6. QED  BY <2>4, <2>5 DEF Fits, Texts, Mute
<1>4. QED
  BY <1>2, <1>3, InOrderStops

LEMMA InOrderSingle ==
    ASSUME NEW n \in Nat, NEW tries, DOMAIN tries = 1..n, \A i \in 1..n : Single(tries[i])
    PROVE  Single(InOrder(tries))
<1>1. \A i \in Reached(tries) : i \in 1..n
  BY DEF Reached
<1>2. \A i \in 1..n : Mute(tries[i]) => Texts(tries[i]) = {}
  BY DEF Single, Texts, Mute
<1>3. CASE (\A i \in 1..n : Mute(tries[i])) /\ NoText(tries) = {""}
  <2>1. InOrder(tries) = {""}
    BY <1>1, <1>2, <1>3, InOrderElems
  <2>2. QED  BY <2>1 DEF Single
<1>4. CASE NoText(tries) = {} /\ \E i \in 1..n :
              /\ ~Mute(tries[i]) /\ i \in Reached(tries)
              /\ \A j \in Reached(tries) : j # i => Mute(tries[j])
  <2>1. PICK i \in 1..n :
              /\ ~Mute(tries[i]) /\ i \in Reached(tries)
              /\ \A j \in Reached(tries) : j # i => Mute(tries[j])
    BY <1>4
  <2>2. \A j \in Reached(tries) : j # i => Texts(tries[j]) = {}
    BY <1>1, <1>2, <2>1
  <2>3. InOrder(tries) = Texts(tries[i])
    BY <1>4, <2>1, <2>2 DEF InOrder
  <2>4. Texts(tries[i]) = tries[i]
    BY <2>1 DEF Texts, Mute
  <2>5. QED  BY <2>3, <2>4
<1>5. QED
  BY <1>3, <1>4, InOrderStops

(* Of tries without a text but for one the order does not matter.          *)
LEMMA AnyOrderSingle ==
    ASSUME NEW tries, \A k \in DOMAIN tries : Single(tries[k]),
           \A k, l \in DOMAIN tries : "" \notin tries[k] /\ "" \notin tries[l] => k = l
    PROVE  Single(InAnyOrder(tries))
<1> DEFINE D == DOMAIN tries
<1>1. \A k \in D : "" \in tries[k] => Texts(tries[k]) = {}
  BY DEF Single, Texts
<1>2. CASE \A k \in D : "" \in tries[k]
  <2>1. NoText(tries) = {""}
    BY <1>2 DEF NoText
  <2>2. InAnyOrder(tries) = {""}
    BY <1>1, <1>2, <2>1, InAnyOrderElems
  <2>3. QED  BY <2>2 DEF Single
<1>3. CASE ~\A k \in D : "" \in tries[k]
  <2>1. PICK k \in D : "" \notin tries[k]
    BY <1>3
  <2>2. NoText(tries) = {}
    BY <1>3 DEF NoText
  <2>3. \A l \in D : l # k => Texts(tries[l]) = {}
    BY <1>1, <2>1
  <2>4. Texts(tries[k]) = tries[k]
    BY <2>1 DEF Texts
  <2>5. InAnyOrder(tries) = tries[k]
    BY <2>2, <2>3, <2>4 DEF InAnyOrder
  <2>6. QED  BY <2>5
<1>4. QED  BY <1>2, <1>3

(* What is printed somewhere, and no text: all that a search may find.     *)
Sayable == {""} \union {v.s : v \in {w \in Value : w.t = "text"}}
FoundSets == [Value -> SUBSET Sayable]

(* The values inside a value, as they are used below.                      *)
LEMMA JSONParts ==
    ASSUME NEW v \in Value
    PROVE  /\ v.t \in {"text", "list", "map", "other"}
           /\ v.t = "text" => v.s \in Sayable
           /\ v.t = "text" /\ v.json # <<>> => v.json[1] \in Value /\ v.s # ""
           /\ v.t = "list" => v.items \in Seq(Value)
           /\ v.t = "map" => \A k \in DOMAIN v.of : v.of[k] \in Value
<1>1. v.t = "text" /\ v.json # <<>> => v.json[1] \in Value
  <2>1. SUFFICES ASSUME v.t = "text" /\ v.json # <<>>  PROVE v.json[1] \in Value
    OBVIOUS
  <2>2. PICK w \in Value : v.json = <<w>>
    BY <2>1, ValueIsJSON, Zenon
  <2>3. v.json[1] = w
    BY <2>2
  <2>4. QED  BY <2>3
<1>2. v.t = "text" => v.s \in Sayable
  BY DEF Sayable
<1>3. QED
  BY <1>1, <1>2, ValueIsJSON, Zenon

LEMMA KeyPlaces == DOMAIN ReplyKeys = 1..14 /\ Len(ReplyKeys) = 14
BY DEF ReplyKeys

LEMMA NineLevels == Levels = 9
BY DEF Levels, MaxDepth

LEMMA InOrderSayable ==
    ASSUME NEW tries, \A i \in DOMAIN tries : tries[i] \subseteq Sayable
    PROVE  InOrder(tries) \subseteq Sayable /\ InAnyOrder(tries) \subseteq Sayable
<1>1. NoText(tries) \subseteq Sayable
  BY DEF NoText, Sayable
<1>2. \A i \in DOMAIN tries : Texts(tries[i]) \subseteq Sayable
  BY DEF Texts
<1>3. \A i \in Reached(tries) : i \in DOMAIN tries
  BY DEF Reached
<1>4. QED
  BY <1>1, <1>2, <1>3, InOrderElems, InAnyOrderElems

LEMMA ReplySayable ==
    ASSUME NEW v \in Value, NEW found \in FoundSets
    PROVE  ReplyIn(v, found) \in SUBSET Sayable
<1>0. \A w \in Value : found[w] \subseteq Sayable
  BY DEF FoundSets
<1>1. CASE v.t = "text"
  <2>1. ReplyIn(v, found) = IF v.json = <<>> THEN {v.s} ELSE Else(found[v.json[1]], {v.s})
    BY <1>1 DEF ReplyIn
  <2>2. v.s \in Sayable /\ (v.json # <<>> => found[v.json[1]] \subseteq Sayable)
    BY <1>0, <1>1, JSONParts
  <2>3. QED  BY <2>1, <2>2 DEF Else, Texts
<1>2. CASE v.t = "list"
  <2> DEFINE tries == [i \in 1..Len(v.items) |-> found[v.items[i]]]
  <2>1. ReplyIn(v, found) = InOrder(tries)
    BY <1>2 DEF ReplyIn
  <2>2. v.items \in Seq(Value)
    BY <1>2, JSONParts
  <2>3. \A i \in DOMAIN tries : tries[i] \subseteq Sayable
    BY <1>0, <2>2
  <2> HIDE DEF tries
  <2>4. QED  BY <2>1, <2>3, InOrderSayable
<1>3. CASE v.t = "map"
  <2> DEFINE first == Tried(v.of, found)
             rest == [k \in LastResort(v.of) |-> found[v.of[k]]]
  <2>1. ReplyIn(v, found) = Else(InOrder(first), InAnyOrder(rest))
    BY <1>3 DEF ReplyIn
  <2>2. \A k \in DOMAIN v.of : v.of[k] \in Value
    BY <1>3, JSONParts
  <2>3. \A i \in DOMAIN first : first[i] \subseteq Sayable
    <3>1. ASSUME NEW i \in DOMAIN first  PROVE first[i] \subseteq Sayable
      <4>1. first[i] = IF ReplyKeys[i] \in DOMAIN v.of THEN found[v.of[ReplyKeys[i]]] ELSE {""}
        BY DEF Tried
      <4>2. {""} \subseteq Sayable
        BY DEF Sayable
      <4> HIDE DEF first
      <4>3. QED  BY <1>0, <2>2, <4>1, <4>2
    <3>2. QED  BY <3>1
  <2>4. \A k \in DOMAIN rest : rest[k] \subseteq Sayable
    BY <1>0, <2>2 DEF LastResort
  <2> HIDE DEF first, rest
  <2>5. InOrder(first) \subseteq Sayable /\ InAnyOrder(rest) \subseteq Sayable
    BY <2>3, <2>4, InOrderSayable
  <2>6. QED  BY <2>1, <2>5 DEF Else, Texts
<1>4. CASE v.t = "other"
  <2>1. ReplyIn(v, found) = {""}
    BY <1>4 DEF ReplyIn
  <2>2. QED  BY <2>1 DEF Sayable
<1>5. QED  BY <1>1, <1>2, <1>3, <1>4, JSONParts

LEMMA AnswerSayable ==
    ASSUME NEW v \in Value, NEW inner \in FoundSets
    PROVE  AnswersIn(v, inner) \in SUBSET Sayable
<1>0. \A w \in Value : inner[w] \subseteq Sayable
  BY DEF FoundSets
<1>1. CASE v.t = "text"
  <2>1. AnswersIn(v, inner) =
          Texts({v.s}) \union (IF v.json = <<>> THEN {} ELSE inner[v.json[1]])
    BY <1>1 DEF AnswersIn
  <2>2. v.s \in Sayable /\ (v.json # <<>> => inner[v.json[1]] \subseteq Sayable)
    BY <1>0, <1>1, JSONParts
  <2>3. QED  BY <2>1, <2>2 DEF Texts
<1>2. CASE v.t = "list"
  <2>1. AnswersIn(v, inner) = UNION {inner[v.items[i]] : i \in DOMAIN v.items}
    BY <1>2 DEF AnswersIn
  <2>2. v.items \in Seq(Value)
    BY <1>2, JSONParts
  <2>3. \A i \in DOMAIN v.items : inner[v.items[i]] \subseteq Sayable
    BY <1>0, <2>2
  <2>4. QED  BY <2>1, <2>3
<1>3. CASE v.t = "map"
  <2>1. AnswersIn(v, inner) = UNION {inner[v.of[k]] : k \in AnswerFields(v)}
    BY <1>3 DEF AnswersIn
  <2>2. \A k \in AnswerFields(v) : inner[v.of[k]] \subseteq Sayable
    BY <1>0, <1>3, JSONParts DEF AnswerFields
  <2>3. QED  BY <2>1, <2>2
<1>4. CASE v.t = "other"
  BY <1>4 DEF AnswersIn
<1>5. QED  BY <1>1, <1>2, <1>3, <1>4, JSONParts

(* The three recursive functions, level by level.                          *)
LEMMA FindTurns ==
    /\ findReplyString[0] = [v \in Value |-> {""}]
    /\ \A l \in 1..9 : findReplyString[l] = [v \in Value |-> ReplyIn(v, findReplyString[l - 1])]
<1> DEFINE N == 9
           base == [v \in Value |-> {""}]
           Turn(x) == [v \in Value |-> ReplyIn(v, x)]
           step == [n \in 1..N |-> [x \in FoundSets |-> Turn(x)]]
           E(g) == [n \in 0..N |->
                [v \in Value |-> IF n = 0 THEN {""} ELSE ReplyIn(v, g[n - 1])]]
<1>1. N \in Nat /\ base \in FoundSets
  BY DEF FoundSets, Sayable
<1>2. \A n \in 1..N : \A x \in FoundSets : step[n][x] = Turn(x) /\ Turn(x) \in FoundSets
  BY ReplySayable DEF FoundSets
<1>3. \A g : E(g) = [n \in 0..N |-> IF n = 0 THEN base ELSE Turn(g[n - 1])]
  OBVIOUS
<1> HIDE DEF N, base, Turn, step, E
<1>4. IsStep(step, N, FoundSets)
  BY <1>2 DEF IsStep
<1>5. PICK f : IsRun(f, N, FoundSets, base, step)
  BY <1>1, <1>4, Recursion
<1>6. f = E(f)
  <2>1. /\ f = [n \in 0..N |-> IF n = 0 THEN base ELSE step[n][f[n - 1]]]
        /\ \A n \in 1..N : f[n - 1] \in FoundSets
    BY <1>1, <1>5, RunTurns
  <2>2. \A n \in 0..N : n = 0 \/ n \in 1..N
    BY <1>1
  <2>3. \A n \in 1..N : step[n][f[n - 1]] = Turn(f[n - 1])
    BY <1>2, <2>1
  <2>4. f = [n \in 0..N |-> IF n = 0 THEN base ELSE Turn(f[n - 1])]
    BY <2>1, <2>2, <2>3
  <2>5. QED  BY <1>3, <2>4
<1>7. findReplyString = CHOOSE g : g = E(g)
  BY NineLevels DEF findReplyString, E, N
<1>8. findReplyString = E(findReplyString)
  BY <1>6, <1>7
<1> DEFINE F == findReplyString
<1> HIDE DEF F
<1>9. F = [n \in 0..N |-> IF n = 0 THEN base ELSE Turn(F[n - 1])]
  BY <1>3, <1>8 DEF F
<1>10. F[0] = base /\ \A l \in 1..N : F[l] = Turn(F[l - 1])
  BY <1>1, <1>9
<1>11. QED  BY <1>10 DEF F, N, base, Turn

LEMMA AnswerTurns ==
    /\ Answers[0] = [v \in Value |-> {}]
    /\ \A l \in 1..9 : Answers[l] = [v \in Value |-> AnswersIn(v, Answers[l - 1])]
<1> DEFINE N == 9
           base == [v \in Value |-> {}]
           Turn(x) == [v \in Value |-> AnswersIn(v, x)]
           step == [n \in 1..N |-> [x \in FoundSets |-> Turn(x)]]
           E(g) == [n \in 0..N |->
                [v \in Value |-> IF n = 0 THEN {} ELSE AnswersIn(v, g[n - 1])]]
<1>1. N \in Nat /\ base \in FoundSets
  BY DEF FoundSets, Sayable
<1>2. \A n \in 1..N : \A x \in FoundSets : step[n][x] = Turn(x) /\ Turn(x) \in FoundSets
  BY AnswerSayable DEF FoundSets
<1>3. \A g : E(g) = [n \in 0..N |-> IF n = 0 THEN base ELSE Turn(g[n - 1])]
  OBVIOUS
<1> HIDE DEF N, base, Turn, step, E
<1>4. IsStep(step, N, FoundSets)
  BY <1>2 DEF IsStep
<1>5. PICK f : IsRun(f, N, FoundSets, base, step)
  BY <1>1, <1>4, Recursion
<1>6. f = E(f)
  <2>1. /\ f = [n \in 0..N |-> IF n = 0 THEN base ELSE step[n][f[n - 1]]]
        /\ \A n \in 1..N : f[n - 1] \in FoundSets
    BY <1>1, <1>5, RunTurns
  <2>2. \A n \in 0..N : n = 0 \/ n \in 1..N
    BY <1>1
  <2>3. \A n \in 1..N : step[n][f[n - 1]] = Turn(f[n - 1])
    BY <1>2, <2>1
  <2>4. f = [n \in 0..N |-> IF n = 0 THEN base ELSE Turn(f[n - 1])]
    BY <2>1, <2>2, <2>3
  <2>5. QED  BY <1>3, <2>4
<1>7. Answers = CHOOSE g : g = E(g)
  BY DEF Answers, E, N
<1>8. Answers = E(Answers)
  BY <1>6, <1>7
<1> DEFINE F == Answers
<1> HIDE DEF F
<1>9. F = [n \in 0..N |-> IF n = 0 THEN base ELSE Turn(F[n - 1])]
  BY <1>3, <1>8 DEF F
<1>10. F[0] = base /\ \A l \in 1..N : F[l] = Turn(F[l - 1])
  BY <1>1, <1>9
<1>11. QED  BY <1>10 DEF F, N, base, Turn

Judgements == [Value -> BOOLEAN]

LEMMA AmbiguousTruth ==
    ASSUME NEW v \in Value, NEW inner \in Judgements
    PROVE  AmbiguousIn(v, inner) \in BOOLEAN
BY DEF AmbiguousIn

LEMMA AmbiguousTurns ==
    /\ Ambiguous[0] = [v \in Value |-> FALSE]
    /\ \A l \in 1..9 : Ambiguous[l] = [v \in Value |-> AmbiguousIn(v, Ambiguous[l - 1])]
<1> DEFINE N == 9
           base == [v \in Value |-> FALSE]
           Turn(x) == [v \in Value |-> AmbiguousIn(v, x)]
           step == [n \in 1..N |-> [x \in Judgements |-> Turn(x)]]
           E(g) == [n \in 0..N |->
                [v \in Value |-> IF n = 0 THEN FALSE ELSE AmbiguousIn(v, g[n - 1])]]
<1>1. N \in Nat /\ base \in Judgements
  BY DEF Judgements
<1>2. \A n \in 1..N : \A x \in Judgements : step[n][x] = Turn(x) /\ Turn(x) \in Judgements
  BY AmbiguousTruth DEF Judgements
<1>3. \A g : E(g) = [n \in 0..N |-> IF n = 0 THEN base ELSE Turn(g[n - 1])]
  OBVIOUS
<1> HIDE DEF N, base, Turn, step, E
<1>4. IsStep(step, N, Judgements)
  BY <1>2 DEF IsStep
<1>5. PICK f : IsRun(f, N, Judgements, base, step)
  BY <1>1, <1>4, Recursion
<1>6. f = E(f)
  <2>1. /\ f = [n \in 0..N |-> IF n = 0 THEN base ELSE step[n][f[n - 1]]]
        /\ \A n \in 1..N : f[n - 1] \in Judgements
    BY <1>1, <1>5, RunTurns
  <2>2. \A n \in 0..N : n = 0 \/ n \in 1..N
    BY <1>1
  <2>3. \A n \in 1..N : step[n][f[n - 1]] = Turn(f[n - 1])
    BY <1>2, <2>1
  <2>4. f = [n \in 0..N |-> IF n = 0 THEN base ELSE Turn(f[n - 1])]
    BY <2>1, <2>2, <2>3
  <2>5. QED  BY <1>3, <2>4
<1>7. Ambiguous = CHOOSE g : g = E(g)
  BY DEF Ambiguous, E, N
<1>8. Ambiguous = E(Ambiguous)
  BY <1>6, <1>7
<1> DEFINE F == Ambiguous
<1> HIDE DEF F
<1>9. F = [n \in 0..N |-> IF n = 0 THEN base ELSE Turn(F[n - 1])]
  BY <1>3, <1>8 DEF F
<1>10. F[0] = base /\ \A l \in 1..N : F[l] = Turn(F[l - 1])
  BY <1>1, <1>9
<1>11. QED  BY <1>10 DEF F, N, base, Turn

(* One level of the search.  What is found fits the answers, if it does in *)
(* the values inside; and there is one result, if there is one inside and  *)
(* no map leaves the choice to Go's order.                                 *)
LEMMA LevelFits ==
    ASSUME NEW v \in Value, NEW F \in FoundSets, NEW A \in FoundSets,
           \A w \in Value : Fits(F[w], A[w]),
           \A w \in Value : w.t = "other" => A[w] = {}
    PROVE  Fits(ReplyIn(v, F), AnswersIn(v, A))
<1>1. CASE v.t = "text"
  <2>1. ReplyIn(v, F) = IF v.json = <<>> THEN {v.s} ELSE Else(F[v.json[1]], {v.s})
    BY <1>1 DEF ReplyIn
  <2>2. AnswersIn(v, A) = Texts({v.s}) \union (IF v.json = <<>> THEN {} ELSE A[v.json[1]])
    BY <1>1 DEF AnswersIn
  <2>3. Fits({v.s}, Texts({v.s}))
    BY DEF Fits, Texts
  <2>4. CASE v.json = <<>>
    BY <2>1, <2>2, <2>3, <2>4
  <2>5. CASE v.json # <<>>
    <3>1. v.json[1] \in Value
      BY <1>1, <2>5, JSONParts
    <3>2. Fits(F[v.json[1]], A[v.json[1]])
      BY <3>1
    <3>3. Fits(Else(F[v.json[1]], {v.s}), A[v.json[1]] \union Texts({v.s}))
      BY <2>3, <3>2, ElseFits
    <3>4. AnswersIn(v, A) = A[v.json[1]] \union Texts({v.s})
      BY <2>2, <2>5
    <3>5. QED  BY <2>1, <2>5, <3>3, <3>4
  <2>6. QED  BY <2>4, <2>5
<1>2. CASE v.t = "list"
  <2> DEFINE n == Len(v.items)
             tries == [i \in 1..n |-> F[v.items[i]]]
             answers == [i \in 1..n |-> A[v.items[i]]]
             all == UNION {answers[i] : i \in 1..n}
  <2>1. ReplyIn(v, F) = InOrder(tries)
    BY <1>2 DEF ReplyIn
  <2>2. v.items \in Seq(Value)
    BY <1>2, JSONParts
  <2>3. n \in Nat /\ DOMAIN v.items = 1..n /\ \A i \in 1..n : v.items[i] \in Value
    BY <2>2
  <2>4. AnswersIn(v, A) = UNION {A[v.items[i]] : i \in DOMAIN v.items}
    BY <1>2 DEF AnswersIn
  <2>5. AnswersIn(v, A) = all
    BY <2>3, <2>4
  <2>6. DOMAIN tries = 1..n /\ \A i \in 1..n : Fits(tries[i], answers[i])
    BY <2>3
  <2> HIDE DEF tries, answers, n
  <2>7. QED  BY <2>1, <2>3, <2>5, <2>6, InOrderFits
<1>3. CASE v.t = "map"
  <2> DEFINE of == v.of
             first == Tried(of, F)
             firstA == [i \in 1..14 |->
                            IF ReplyKeys[i] \in DOMAIN of THEN A[of[ReplyKeys[i]]] ELSE {}]
             rest == [k \in LastResort(of) |-> F[of[k]]]
             restA == [k \in LastResort(of) |-> A[of[k]]]
             fromFirst == UNION {firstA[i] : i \in 1..14}
             fromRest == UNION {restA[k] : k \in DOMAIN rest}
  <2>1. ReplyIn(v, F) = Else(InOrder(first), InAnyOrder(rest))
    BY <1>3 DEF ReplyIn
  <2>2. AnswersIn(v, A) = UNION {A[of[k]] : k \in AnswerFields(v)}
    BY <1>3 DEF AnswersIn
  <2>3. \A k \in DOMAIN of : of[k] \in Value
    BY <1>3, JSONParts
  <2>4. DOMAIN first = 1..14 /\ \A i \in 1..14 :
          first[i] = IF ReplyKeys[i] \in DOMAIN of THEN F[of[ReplyKeys[i]]] ELSE {""}
    BY KeyPlaces DEF Tried
  <2>5. Fits({""}, {})
    BY DEF Fits, Texts
  <2>6. \A i \in 1..14 : Fits(first[i], firstA[i])
    <3>1. ASSUME NEW i \in 1..14  PROVE Fits(first[i], firstA[i])
      <4>1. CASE ReplyKeys[i] \in DOMAIN of
        <5>1. first[i] = F[of[ReplyKeys[i]]] /\ firstA[i] = A[of[ReplyKeys[i]]]
          BY <2>4, <4>1
        <5>2. QED  BY <2>3, <4>1, <5>1
      <4>2. CASE ReplyKeys[i] \notin DOMAIN of
        <5>1. first[i] = {""} /\ firstA[i] = {}
          BY <2>4, <4>2
        <5>2. QED  BY <2>5, <5>1
      <4>3. QED  BY <4>1, <4>2
    <3>2. QED  BY <3>1
  <2>7. Fits(InOrder(first), fromFirst)
    <3> DEFINE n == 14
    <3>1. n \in Nat /\ DOMAIN first = 1..n /\ \A i \in 1..n : Fits(first[i], firstA[i])
      BY <2>4, <2>6
    <3>2. fromFirst = UNION {firstA[i] : i \in 1..n}
      OBVIOUS
    <3> HIDE DEF n, first, firstA, fromFirst
    <3>3. QED  BY <3>1, <3>2, InOrderFits
  <2>8. DOMAIN rest = LastResort(of) /\ LastResort(of) \subseteq DOMAIN of
    BY DEF LastResort
  <2>9. \A k \in DOMAIN rest : Fits(rest[k], restA[k])
    BY <2>3, <2>8
  <2>10. Fits(InAnyOrder(rest), fromRest)
    <3> HIDE DEF rest, restA
    <3>1. QED  BY <2>9, AnyOrderFits
  <2>11. Fits(Else(InOrder(first), InAnyOrder(rest)), fromFirst \union fromRest)
    <3> HIDE DEF first, rest, fromFirst, fromRest
    <3>1. QED  BY <2>7, <2>10, ElseFits
  <2>12. \A k \in AnswerFields(v) :
           \/ \E i \in 1..14 : ReplyKeys[i] = k /\ k \in DOMAIN of
           \/ k \in LastResort(of)
           \/ A[of[k]] = {}
    <3>1. ASSUME NEW k \in AnswerFields(v), ~\E i \in 1..14 : ReplyKeys[i] = k,
                 k \notin LastResort(of)
          PROVE  A[of[k]] = {}
      <4>1. k \in DOMAIN of /\ of[k].t # "text"
        BY <3>1, KeyPlaces DEF AnswerFields
      <4>2. of[k] \in Value /\ of[k].t \in {"text", "list", "map", "other"}
        BY <2>3, <4>1, JSONParts
      <4>3. of[k].t = "other"
        BY <3>1, <4>1, <4>2 DEF LastResort, Container
      <4>4. QED  BY <4>2, <4>3
    <3>2. \A k \in AnswerFields(v) : k \in DOMAIN of
      BY DEF AnswerFields
    <3>3. QED  BY <3>1, <3>2
  <2>13. \A i \in 1..14 : ReplyKeys[i] \in DOMAIN of => ReplyKeys[i] \in AnswerFields(v)
    BY KeyPlaces DEF AnswerFields
  <2>14. \A k \in LastResort(of) : k \in AnswerFields(v)
    <3>1. \A k \in LastResort(of) : k \in DOMAIN of /\ of[k].t # "text"
      BY DEF LastResort, Container
    <3>2. QED  BY <3>1 DEF AnswerFields
  <2>15. \A x : x \in fromFirst <=>
           \E i \in 1..14 : ReplyKeys[i] \in DOMAIN of /\ x \in A[of[ReplyKeys[i]]]
    OBVIOUS
  <2>16. \A x : x \in fromRest <=> \E k \in LastResort(of) : x \in A[of[k]]
    BY <2>8
  <2>17. AnswersIn(v, A) = fromFirst \union fromRest
    <3>1. \A x : x \in AnswersIn(v, A) <=> \E k \in AnswerFields(v) : x \in A[of[k]]
      BY <2>2
    <3> HIDE DEF of, fromFirst, fromRest
    <3>2. ASSUME NEW x, x \in AnswersIn(v, A)  PROVE x \in fromFirst \union fromRest
      <4>1. PICK k \in AnswerFields(v) : x \in A[of[k]]
        BY <3>1, <3>2
      <4>2. CASE \E i \in 1..14 : ReplyKeys[i] = k /\ k \in DOMAIN of
        BY <2>15, <4>1, <4>2
      <4>3. CASE k \in LastResort(of)
        BY <2>16, <4>1, <4>3
      <4>4. QED  BY <2>12, <4>1, <4>2, <4>3
    <3>3. ASSUME NEW x, x \in fromFirst \union fromRest  PROVE x \in AnswersIn(v, A)
      <4>1. CASE x \in fromFirst
        BY <2>13, <2>15, <3>1, <4>1
      <4>2. CASE x \in fromRest
        BY <2>14, <2>16, <3>1, <4>2
      <4>3. QED  BY <3>3, <4>1, <4>2
    <3>4. QED  BY <3>2, <3>3
  <2>18. QED
    <3> HIDE DEF first, rest, fromFirst, fromRest
    <3>1. QED  BY <2>1, <2>11, <2>17
<1>4. CASE v.t = "other"
  <2>1. ReplyIn(v, F) = {""} /\ AnswersIn(v, A) = {}
    BY <1>4 DEF ReplyIn, AnswersIn
  <2>2. QED  BY <2>1 DEF Fits, Texts
<1>5. QED  BY <1>1, <1>2, <1>3, <1>4, JSONParts

LEMMA LevelSingle ==
    ASSUME NEW v \in Value, NEW F \in FoundSets, NEW M \in Judgements,
           \A w \in Value : ~M[w] => Single(F[w]),
           ~AmbiguousIn(v, M)
    PROVE  Single(ReplyIn(v, F))
<1>0. Single({""}) /\ \A x : Single({x})
  BY DEF Single
<1>1. CASE v.t = "text"
  <2>1. ReplyIn(v, F) = IF v.json = <<>> THEN {v.s} ELSE Else(F[v.json[1]], {v.s})
    BY <1>1 DEF ReplyIn
  <2>2. CASE v.json = <<>>
    BY <1>0, <2>1, <2>2
  <2>3. CASE v.json # <<>>
    <3>1. v.json[1] \in Value
      BY <1>1, <2>3, JSONParts
    <3>2. ~M[v.json[1]]
      BY <1>1, <2>3 DEF AmbiguousIn
    <3>3. Single(F[v.json[1]])
      BY <3>1, <3>2
    <3>4. Single(Else(F[v.json[1]], {v.s}))
      BY <1>0, <3>3, ElseSingle
    <3>5. QED  BY <2>1, <2>3, <3>4
  <2>4. QED  BY <2>2, <2>3
<1>2. CASE v.t = "list"
  <2> DEFINE n == Len(v.items)
             tries == [i \in 1..n |-> F[v.items[i]]]
  <2>1. ReplyIn(v, F) = InOrder(tries)
    BY <1>2 DEF ReplyIn
  <2>2. v.items \in Seq(Value)
    BY <1>2, JSONParts
  <2>3. n \in Nat /\ DOMAIN v.items = 1..n /\ \A i \in 1..n : v.items[i] \in Value
    BY <2>2
  <2>4. \A i \in 1..n : ~M[v.items[i]]
    BY <1>2, <2>3 DEF AmbiguousIn
  <2>5. DOMAIN tries = 1..n /\ \A i \in 1..n : Single(tries[i])
    BY <2>3, <2>4
  <2> HIDE DEF tries, n
  <2>6. QED  BY <2>1, <2>3, <2>5, InOrderSingle
<1>3. CASE v.t = "map"
  <2> DEFINE of == v.of
             first == Tried(of, F)
             rest == [k \in LastResort(of) |-> F[of[k]]]
  <2>1. ReplyIn(v, F) = Else(InOrder(first), InAnyOrder(rest))
    BY <1>3 DEF ReplyIn
  <2>2. \A k \in DOMAIN of : of[k] \in Value
    BY <1>3, JSONParts
  <2>3. \A k \in DOMAIN of : ~M[of[k]]
    BY <1>3 DEF AmbiguousIn
  <2>4. \A k \in DOMAIN of : Single(F[of[k]])
    BY <2>2, <2>3
  <2>5. DOMAIN first = 1..14 /\ \A i \in 1..14 :
          first[i] = IF ReplyKeys[i] \in DOMAIN of THEN F[of[ReplyKeys[i]]] ELSE {""}
    BY KeyPlaces DEF Tried
  <2>6. \A i \in 1..14 : Single(first[i])
    BY <1>0, <2>4, <2>5
  <2>7. Single(InOrder(first))
    <3> DEFINE n == 14
    <3>1. n \in Nat /\ DOMAIN first = 1..n /\ \A i \in 1..n : Single(first[i])
      BY <2>5, <2>6
    <3> HIDE DEF n, first
    <3>2. QED  BY <3>1, InOrderSingle
  <2>8. ASSUME "" \in InOrder(first)  PROVE Single(InAnyOrder(rest))
    <3>1. \A i \in 1..14 : "" \in first[i]
      <4>1. \A i \in Reached(first) : "" \notin Texts(first[i])
        BY DEF Texts
      <4> HIDE DEF first
      <4>2. "" \in NoText(first)
        BY <2>8, <4>1, InOrderElems
      <4>3. QED  BY <2>5, <4>2 DEF NoText
    <3>2. DOMAIN rest = LastResort(of) /\ LastResort(of) \subseteq DOMAIN of
      BY DEF LastResort
    <3>3. \A k \in DOMAIN rest : rest[k] = F[of[k]] /\ Single(rest[k])
      BY <2>4, <3>2
    <3>4. \A k \in DOMAIN rest : "" \notin rest[k] => k \in Unknown(v)
      <4>1. ASSUME NEW k \in DOMAIN rest, "" \notin rest[k]  PROVE k \in Unknown(v)
        <5>1. \A i \in DOMAIN ReplyKeys : ReplyKeys[i] # k
          <6>1. ASSUME NEW i \in DOMAIN ReplyKeys, ReplyKeys[i] = k  PROVE FALSE
            <7>1. i \in 1..14 /\ ReplyKeys[i] \in DOMAIN of
              BY <3>2, <4>1, <6>1, KeyPlaces
            <7>2. first[i] = F[of[k]]
              BY <2>5, <6>1, <7>1
            <7> HIDE DEF first, rest
            <7>3. QED  BY <3>1, <3>3, <4>1, <7>1, <7>2
          <6>2. QED  BY <6>1
        <5>2. QED  BY <3>2, <4>1, <5>1 DEF Unknown
      <4>2. QED  BY <4>1
    <3>5. \A k, l \in Unknown(v) : k = l
      BY <1>3 DEF AmbiguousIn
    <3> HIDE DEF rest
    <3>6. QED  BY <3>3, <3>4, <3>5, AnyOrderSingle
  <2> HIDE DEF first, rest
  <2>9. QED  BY <2>1, <2>7, <2>8, ElseSingle
<1>4. CASE v.t = "other"
  <2>1. ReplyIn(v, F) = {""}
    BY <1>4 DEF ReplyIn
  <2>2. QED  BY <1>0, <2>1
<1>5. QED  BY <1>1, <1>2, <1>3, <1>4, JSONParts

(* All nine levels.                                                        *)
LEMMA AllLevels ==
    \A v \in Value : /\ Fits(findReplyString[9][v], Answers[9][v])
                     /\ ~Ambiguous[9][v] => Single(findReplyString[9][v])
<1> DEFINE F(l) == findReplyString[l]
           A(l) == Answers[l]
           M(l) == Ambiguous[l]
           P(l) == /\ F(l) \in FoundSets /\ A(l) \in FoundSets /\ M(l) \in Judgements
                   /\ \A v \in Value : Fits(F(l)[v], A(l)[v])
                   /\ \A v \in Value : v.t = "other" => A(l)[v] = {}
                   /\ \A v \in Value : ~M(l)[v] => Single(F(l)[v])
           S == {l \in 0..9 : P(l)}
<1>1. /\ F(0) = [v \in Value |-> {""}] /\ A(0) = [v \in Value |-> {}]
      /\ M(0) = [v \in Value |-> FALSE]
  BY FindTurns, AnswerTurns, AmbiguousTurns
<1>2. \A l \in 1..9 : /\ F(l) = [v \in Value |-> ReplyIn(v, F(l - 1))]
                      /\ A(l) = [v \in Value |-> AnswersIn(v, A(l - 1))]
                      /\ M(l) = [v \in Value |-> AmbiguousIn(v, M(l - 1))]
  BY FindTurns, AnswerTurns, AmbiguousTurns
<1> HIDE DEF F, A, M
<1>3. 0 \in S
  <2>1. F(0) \in FoundSets /\ A(0) \in FoundSets /\ M(0) \in Judgements
    BY <1>1 DEF FoundSets, Judgements, Sayable
  <2>2. Fits({""}, {}) /\ Single({""})
    BY DEF Fits, Texts, Single
  <2>3. \A v \in Value : F(0)[v] = {""} /\ A(0)[v] = {}
    BY <1>1
  <2>4. \A v \in Value : Fits(F(0)[v], A(0)[v]) /\ Single(F(0)[v])
    BY <2>2, <2>3
  <2>5. P(0)
    BY <2>1, <2>3, <2>4
  <2> HIDE DEF P
  <2>6. QED  BY <2>5
<1>4. ASSUME NEW l \in 1..9, l - 1 \in S  PROVE l \in S
  <2> DEFINE f == F(l - 1)
             a == A(l - 1)
             m == M(l - 1)
  <2>1. /\ f \in FoundSets /\ a \in FoundSets /\ m \in Judgements
        /\ \A v \in Value : Fits(f[v], a[v])
        /\ \A v \in Value : v.t = "other" => a[v] = {}
        /\ \A v \in Value : ~m[v] => Single(f[v])
    BY <1>4
  <2>2. /\ F(l) = [v \in Value |-> ReplyIn(v, f)] /\ A(l) = [v \in Value |-> AnswersIn(v, a)]
        /\ M(l) = [v \in Value |-> AmbiguousIn(v, m)]
    BY <1>2
  <2> HIDE DEF f, a, m
  <2>3. F(l) \in FoundSets /\ A(l) \in FoundSets
    BY <2>1, <2>2, ReplySayable, AnswerSayable DEF FoundSets
  <2>4. M(l) \in Judgements
    BY <2>1, <2>2, AmbiguousTruth DEF Judgements
  <2>5. \A v \in Value : Fits(F(l)[v], A(l)[v])
    BY <2>1, <2>2, LevelFits
  <2>6. \A v \in Value : v.t = "other" => A(l)[v] = {}
    BY <2>2 DEF AnswersIn
  <2>7. \A v \in Value : ~M(l)[v] => Single(F(l)[v])
    BY <2>1, <2>2, LevelSingle
  <2>8. QED  BY <2>3, <2>4, <2>5, <2>6, <2>7
<1>5. 9 \in S
  <2> DEFINE N == 9
  <2>1. N \in Nat /\ \A n \in 1..N : n - 1 \in S => n \in S
    BY <1>4
  <2> HIDE DEF N, S
  <2>2. \A n \in 0..N : n \in S
    BY <1>3, <2>1, Induction
  <2>3. N \in S
    BY <2>1, <2>2
  <2>4. QED  BY <2>3 DEF N
<1>6. QED
  BY <1>5 DEF F, A, M

(* Whatever JSON the CLI prints, an answer in it down to level 8 is found, *)
(* no other text is taken for one, the raw output is reported only when    *)
(* there is none, and one output gives one reply unless two unknown fields *)
(* compete (extractAgentReply, findReplyString).  Output that parses as    *)
(* JSON is not empty and holds a value.                                    *)
THEOREM AnswerFoundWhereverPrinted ==
    ASSUME input.fn = "reply" /\ input.out.json # <<>> =>
              input.out.s # "" /\ input.out.json[1] \in Value
    PROVE  ReplyFound
<1>1. SUFFICES ASSUME input.fn = "reply", input.out.json # <<>>  PROVE ReplyFound
  BY DEF ReplyFound
<1> DEFINE out == input.out
           v == out.json[1]
           found == findReplyString[9][v]
           answers == Answers[9][v]
           replies == extractAgentReply(out)
<1>2. v \in Value /\ out.s # ""
  BY <1>1
<1>3. Fits(found, answers) /\ (~Ambiguous[9][v] => Single(found))
  BY <1>2, AllLevels
<1>4. replies = Texts(found) \union {s \in {out.s} : "" \in found}
  BY <1>1, <1>2, NineLevels DEF extractAgentReply
<1> HIDE DEF out, v, found, answers, replies
<1>5. CASE "" \in found
  <2>1. answers = {} /\ Texts(found) = {}
    BY <1>3, <1>5 DEF Fits
  <2>2. replies = {out.s}
    BY <1>4, <1>5, <2>1
  <2>3. Cardinality(replies) = 1
    BY <2>2, FS_Singleton
  <2>4. QED
    BY <1>1, <2>1, <2>2, <2>3 DEF ReplyFound, out, v, answers, replies
<1>6. CASE "" \notin found
  <2>1. replies = found /\ Texts(found) = found
    BY <1>4, <1>6 DEF Texts
  <2>2. replies # {} /\ replies \subseteq answers /\ answers # {}
    BY <1>3, <2>1 DEF Fits
  <2>3. ~Ambiguous[9][v] => Cardinality(replies) = 1
    <3>1. SUFFICES ASSUME ~Ambiguous[9][v]  PROVE Cardinality(replies) = 1
      OBVIOUS
    <3>2. PICK x : replies = {x}
      BY <1>3, <2>1, <3>1 DEF Single
    <3>3. QED  BY <3>2, FS_Singleton
  <2>4. QED
    BY <1>1, <2>2, <2>3 DEF ReplyFound, out, v, answers, replies
<1>7. QED  BY <1>5, <1>6

-----------------------------------------------------------------------------
(* The buffer of log lines.                                                *)

TypeL ==
    /\ sequence \in 0..MaxLines
    /\ entries \in Seq(Line) /\ drained \in Seq(Line) /\ buffered \in Seq(Line)
    /\ held \in [Caller -> 0..MaxLines]
    /\ before \in [Line -> SUBSET Line]

(* A number is taken once: by a goroutine that still holds it, or by a     *)
(* line that is in the buffer.                                             *)
TakenOnce ==
    /\ \A n \in Returned : n <= sequence
    /\ \A g \in Caller : held[g] <= sequence /\ held[g] \notin Returned
    /\ \A g, h \in Caller : held[g] # 0 /\ held[g] = held[h] => g = h

(* Calls that had returned when another began took smaller numbers.        *)
BeforeIsSmaller ==
    \A n \in Line : \A m \in before[n] : m < n /\ m \in Returned

(* What is kept is in the order of the calls that did not overlap.         *)
Kept == drained \o entries

KeptInOrder ==
    /\ \A i \in 1..Len(Kept) : Kept[i] \in Returned
    /\ \A i, j \in 1..Len(Kept) : Kept[i] \in before[Kept[j]] => i < j

LoggerInv ==
    /\ TypeL
    /\ TakenOnce
    /\ BeforeIsSmaller
    /\ KeptInOrder

-----------------------------------------------------------------------------
(* The places of a concatenation.                                          *)
LEMMA Places ==
    ASSUME NEW S, NEW s \in Seq(S), NEW t \in Seq(S)
    PROVE  /\ s \o t \in Seq(S) /\ Len(s \o t) = Len(s) + Len(t)
           /\ \A i \in 1..Len(s) : (s \o t)[i] = s[i]
           /\ \A i \in 1..Len(t) : (s \o t)[Len(s) + i] = t[i]
           /\ \A i \in (Len(s) + 1)..(Len(s) + Len(t)) : (s \o t)[i] = t[i - Len(s)]
OBVIOUS

(* The elements of a sequence that has one more at its end.                *)
LEMMA OneMore ==
    ASSUME NEW S, NEW s \in Seq(S), NEW e \in S
    PROVE  ToSet(Append(s, e)) = ToSet(s) \union {e}
<1>1. Append(s, e) \in Seq(S) /\ Len(Append(s, e)) = Len(s) + 1
      /\ Append(s, e)[Len(s) + 1] = e /\ \A i \in 1..Len(s) : Append(s, e)[i] = s[i]
  OBVIOUS
<1>2. DOMAIN s = 1..Len(s) /\ DOMAIN Append(s, e) = 1..(Len(s) + 1) /\ Len(s) \in Nat
  BY <1>1
<1>3. 1..(Len(s) + 1) = (1..Len(s)) \union {Len(s) + 1}
  BY <1>2
<1>4. QED
  BY <1>1, <1>2, <1>3 DEF ToSet

(* A full buffer makes room by its oldest line.                            *)
LEMMA RoomMade ==
    ASSUME NEW s \in Seq(Line)
    PROVE  /\ Room(s) \in Seq(Line)
           /\ Room(s) = s \/ (s # <<>> /\ Room(s) = Tail(s))
BY LoggerConstants DEF Room

(* At the start nothing is buffered.                                       *)
LEMMA InitLogger == Init => LoggerInv
<1> SUFFICES ASSUME Init  PROVE LoggerInv
  OBVIOUS
<1> USE LoggerConstants DEF Init
<1>1. TypeL
  BY DEF TypeL, Line
<1>2. Returned = {}
  BY DEF Returned, ToSet
<1>3. Len(Kept) = 0
  BY DEF Kept
<1>4. QED
  BY <1>1, <1>2, <1>3 DEF LoggerInv, TypeL, TakenOnce, BeforeIsSmaller, KeptInOrder

(* A goroutine takes its number; all that has returned has a smaller one.  *)
LEMMA TakeStep ==
    ASSUME LoggerInv, NEW g \in Caller, TakeSequence(g)  PROVE LoggerInv'
<1> DEFINE n == sequence + 1
<1> USE LoggerConstants DEF LoggerInv
<1>1. /\ held[g] = 0 /\ sequence' = n /\ n \in Line /\ sequence \in Nat
      /\ held' = [held EXCEPT ![g] = n] /\ before' = [before EXCEPT ![n] = Returned]
      /\ UNCHANGED <<entries, drained, buffered>>
  BY DEF TakeSequence, TypeL, Line
<1>2. Returned' = Returned /\ Kept' = Kept
  BY <1>1 DEF Returned, Kept
<1>3. Returned \subseteq Line
  BY DEF Returned, ToSet, TypeL
<1>4. TypeL'
  BY <1>1, <1>3 DEF TypeL, Line
<1>5. \A m \in Returned : m <= sequence /\ m # n
  BY <1>1, <1>3 DEF TakenOnce, Line
<1>6. TakenOnce'
  <2>1. held'[g] = n /\ \A h \in Caller : h # g => held'[h] = held[h]
    BY <1>1 DEF TypeL
  <2>2. \A h \in Caller : held[h] \in Nat /\ held[h] # n
    BY <1>1 DEF TypeL, TakenOnce
  <2>3. \A m \in Returned : m \in Nat
    BY <1>3 DEF Line
  <2>4. QED
    BY <1>1, <1>2, <1>5, <2>1, <2>2, <2>3 DEF TakenOnce
<1>7. before'[n] = Returned /\ \A k \in Line : k # n => before'[k] = before[k]
  BY <1>1 DEF TypeL
<1>8. BeforeIsSmaller'
  <2>1. \A m \in Returned : m < n
    BY <1>1, <1>3, <1>5 DEF Line
  <2>2. QED
    BY <1>2, <1>7, <2>1 DEF BeforeIsSmaller
<1>9. KeptInOrder'
  <2>1. \A j \in 1..Len(Kept) : Kept[j] \in Line /\ Kept[j] # n
    BY <1>3, <1>5 DEF KeptInOrder
  <2>2. QED
    BY <1>2, <1>7, <2>1 DEF KeptInOrder
<1>10. QED
  BY <1>4, <1>6, <1>8, <1>9

(* A line is appended, after the oldest has made room.                     *)
LEMMA AppendStep ==
    ASSUME LoggerInv, NEW g \in Caller, AppendLine(g)  PROVE LoggerInv'
<1> DEFINE n == held[g]
           R == Room(entries)
<1> USE LoggerConstants DEF LoggerInv
<1>1. /\ n # 0 /\ entries' = Append(R, n) /\ buffered' = Append(buffered, n)
      /\ held' = [held EXCEPT ![g] = 0] /\ UNCHANGED <<sequence, drained, before>>
  BY DEF AppendLine
<1>2. n \in Line /\ n <= sequence /\ n \notin Returned
  BY <1>1 DEF TypeL, TakenOnce, Line
<1>3. R \in Seq(Line) /\ (R = entries \/ (entries # <<>> /\ R = Tail(entries)))
  BY RoomMade DEF TypeL
<1>4. held'[g] = 0 /\ \A h \in Caller : h # g => held'[h] = held[h]
  BY <1>1 DEF TypeL
<1> HIDE DEF R
<1>5. Returned' = Returned \union {n}
  BY <1>1, <1>2, OneMore DEF Returned, TypeL
<1>6. TypeL'
  <2>1. entries' \in Seq(Line) /\ buffered' \in Seq(Line)
    BY <1>1, <1>2, <1>3 DEF TypeL
  <2>2. held' \in [Caller -> 0..MaxLines]
    BY <1>1 DEF TypeL
  <2>3. QED  BY <1>1, <2>1, <2>2 DEF TypeL
<1>7. \A m \in Returned : m \in Line
  BY DEF Returned, ToSet, TypeL
<1>8. TakenOnce'
  <2>1. 0 \notin Returned' /\ 0 <= sequence
    BY <1>2, <1>5, <1>7 DEF Line, TypeL
  <2>2. \A h \in Caller : h # g => held[h] # n
    BY <1>1 DEF TakenOnce
  <2>3. QED
    BY <1>1, <1>2, <1>4, <1>5, <2>1, <2>2 DEF TakenOnce
<1>9. BeforeIsSmaller'
  BY <1>1, <1>5 DEF BeforeIsSmaller
<1>10. KeptInOrder'
  <2> DEFINE d == Len(drained)
             K == Kept
             L == Kept'
  <2>1. d \in Nat /\ Len(entries) \in Nat /\ Len(R) \in Nat
    BY <1>3 DEF TypeL
  <2>2. /\ Len(K) = d + Len(entries)
        /\ \A i \in 1..d : K[i] = drained[i]
        /\ \A i \in 1..Len(entries) : K[d + i] = entries[i]
    BY Places DEF Kept, TypeL
  <2>3. /\ Len(L) = d + Len(R) + 1
        /\ \A i \in 1..d : L[i] = drained[i]
        /\ \A i \in 1..Len(R) : L[d + i] = R[i]
        /\ L[d + Len(R) + 1] = n
    <3>1. /\ Append(R, n) \in Seq(Line) /\ Len(Append(R, n)) = Len(R) + 1
          /\ Append(R, n)[Len(R) + 1] = n
          /\ \A i \in 1..Len(R) : Append(R, n)[i] = R[i]
      BY <1>2, <1>3
    <3>2. L = drained \o Append(R, n) /\ drained \in Seq(Line)
      BY <1>1 DEF Kept, TypeL
    <3>3. /\ Len(L) = d + Len(Append(R, n))
          /\ \A i \in 1..d : L[i] = drained[i]
          /\ \A i \in 1..Len(Append(R, n)) : L[d + i] = Append(R, n)[i]
      <4> HIDE DEF L
      <4>1. QED  BY <3>1, <3>2, Places
    <3> HIDE DEF L, n, d
    <3>4. \A i \in 1..Len(R) : L[d + i] = R[i]
      BY <2>1, <3>1, <3>3
    <3>5. L[d + Len(R) + 1] = n
      <4>1. Len(R) + 1 \in 1..Len(Append(R, n)) /\ d + Len(R) + 1 = d + (Len(R) + 1)
        BY <2>1, <3>1
      <4>2. QED  BY <3>1, <3>3, <4>1
    <3>6. QED  BY <2>1, <3>1, <3>3, <3>4, <3>5
  <2>4. \E b \in {0, 1} :
          /\ Len(R) = Len(entries) - b
          /\ \A i \in 1..Len(R) : R[i] = entries[i + b]
    <3>1. CASE R = entries
      BY <2>1, <3>1
    <3>2. CASE entries # <<>> /\ R = Tail(entries)
      <4>1. Len(R) = Len(entries) - 1 /\ \A i \in 1..Len(R) : R[i] = entries[i + 1]
        BY <3>2 DEF TypeL
      <4>2. QED  BY <4>1
    <3>3. QED  BY <1>3, <3>1, <3>2
  <2>5. PICK b \in {0, 1} :
          /\ Len(R) = Len(entries) - b
          /\ \A i \in 1..Len(R) : R[i] = entries[i + b]
    BY <2>4
  <2> HIDE DEF K, L, d, n
  <2>6. \A i \in 1..(d + Len(R)) : L[i] = K[IF i <= d THEN i ELSE i + b]
    <3>1. SUFFICES ASSUME NEW i \in 1..(d + Len(R))
                   PROVE  L[i] = K[IF i <= d THEN i ELSE i + b]
      OBVIOUS
    <3>2. CASE i <= d
      BY <2>1, <2>2, <2>3, <3>1, <3>2
    <3>3. CASE i > d
      <4>1. i - d \in 1..Len(R) /\ i = d + (i - d)
        BY <2>1, <3>1, <3>3
      <4>2. L[i] = R[i - d]
        BY <2>3, <4>1
      <4>3. R[i - d] = entries[(i - d) + b] /\ (i - d) + b \in 1..Len(entries)
        BY <2>1, <2>5, <4>1
      <4>4. K[d + ((i - d) + b)] = entries[(i - d) + b]
        BY <2>2, <4>3
      <4>5. d + ((i - d) + b) = i + b
        BY <2>1, <3>1
      <4>6. QED  BY <2>1, <3>1, <3>3, <4>2, <4>3, <4>4, <4>5
    <3>4. QED  BY <2>1, <3>1, <3>2, <3>3
  <2>7. \A i \in 1..(d + Len(R)) : (IF i <= d THEN i ELSE i + b) \in 1..Len(K)
    BY <2>1, <2>2, <2>5
  <2>8. /\ \A i \in 1..Len(K) : K[i] \in Returned
        /\ \A i, j \in 1..Len(K) : K[i] \in before[K[j]] => i < j
    BY DEF KeptInOrder, K
  <2>9. \A i \in 1..(d + Len(R)) : L[i] \in Returned
    BY <2>6, <2>7, <2>8
  <2>10. \A i, j \in 1..(d + Len(R)) : L[i] \in before[L[j]] => i < j
    <3>1. SUFFICES ASSUME NEW i \in 1..(d + Len(R)), NEW j \in 1..(d + Len(R)),
                          L[i] \in before[L[j]]
                   PROVE  i < j
      OBVIOUS
    <3>2. (IF i <= d THEN i ELSE i + b) < (IF j <= d THEN j ELSE j + b)
      BY <2>6, <2>7, <2>8, <3>1
    <3>3. QED  BY <2>1, <3>1, <3>2
  <2>11. \A k \in Line : n \notin before[k]
    BY <1>2 DEF BeforeIsSmaller, n
  <2>12. 1..Len(L) = (1..(d + Len(R))) \union {d + Len(R) + 1}
    BY <2>1, <2>3
  <2>13. \A i \in 1..Len(L) : L[i] \in Returned \union {n}
    BY <2>3, <2>9, <2>12
  <2>14. \A i, j \in 1..Len(L) : L[i] \in before[L[j]] => i < j
    <3>1. SUFFICES ASSUME NEW i \in 1..Len(L), NEW j \in 1..Len(L), L[i] \in before[L[j]]
                   PROVE  i < j
      OBVIOUS
    <3>2. L[j] \in Line
      BY <1>2, <1>7, <2>13 DEF n
    <3>3. i # d + Len(R) + 1
      BY <2>3, <2>11, <3>1, <3>2
    <3>4. i \in 1..(d + Len(R))
      BY <2>12, <3>3
    <3>5. CASE j \in 1..(d + Len(R))
      BY <2>10, <3>1, <3>4, <3>5
    <3>6. CASE j = d + Len(R) + 1
      BY <2>1, <3>4, <3>6
    <3>7. QED  BY <2>12, <3>5, <3>6
  <2>15. QED
    BY <1>1, <1>5, <2>13, <2>14 DEF KeptInOrder, L, n
<1>11. QED
  BY <1>6, <1>8, <1>9, <1>10

(* DrainEntries takes a first part of the buffer: what is kept is the same. *)
LEMMA DrainStep == ASSUME LoggerInv, DrainEntries  PROVE LoggerInv'
<1> DEFINE n == IF Batch = 0 \/ Len(entries) <= Batch THEN Len(entries) ELSE Batch
           A == SubSeq(entries, 1, n)
           B == SubSeq(entries, n + 1, Len(entries))
<1> USE LoggerConstants DEF LoggerInv
<1>1. drained' = drained \o A /\ entries' = B /\ UNCHANGED <<sequence, held, buffered, before>>
  BY DEF DrainEntries
<1>2. entries \in Seq(Line) /\ drained \in Seq(Line) /\ n \in 0..Len(entries)
  BY DEF TypeL
<1>3. A \in Seq(Line) /\ B \in Seq(Line)
  BY <1>2
<1>4. A \o B = entries
  <2>1. n \in (1 - 1)..Len(entries) /\ 1 \in 1..(Len(entries) + 1)
        /\ Len(entries) \in n..Len(entries)
    BY <1>2
  <2>2. A \o B = SubSeq(entries, 1, Len(entries))
    BY <1>2, <2>1, ConcatAdjacentSubSeq
  <2>3. QED  BY <1>2, <2>2, SubSeqFull
<1> HIDE DEF n, A, B
<1>5. Kept' = Kept
  <2>1. (drained \o A) \o B = drained \o (A \o B)
    BY <1>2, <1>3, ConcatAssociative
  <2>2. QED  BY <1>1, <1>4, <2>1 DEF Kept
<1>6. TypeL'
  <2>1. drained \o A \in Seq(Line)
    BY <1>2, <1>3
  <2>2. QED  BY <1>1, <1>3, <2>1 DEF TypeL
<1>7. QED
  BY <1>1, <1>5, <1>6 DEF TakenOnce, BeforeIsSmaller, KeptInOrder, Returned

(* Two lines whose calls did not overlap keep their order, in number and   *)
(* in the upload, whatever overlaps and whatever the ring drops (buffer,   *)
(* DrainEntries).                                                          *)
THEOREM CallOrder == Spec => []RealTimeOrder
<1>1. LoggerInv /\ [Next]_vars => LoggerInv'
  <2>1. LoggerInv /\ UNCHANGED vars => LoggerInv'
    BY DEF LoggerInv, TypeL, TakenOnce, BeforeIsSmaller, KeptInOrder, Kept, Returned, vars
  <2>2. QED
    BY <2>1, TakeStep, AppendStep, DrainStep DEF Next
<1>2. LoggerInv => RealTimeOrder
  <2>1. SUFFICES ASSUME LoggerInv, NEW m \in ToSet(Kept), NEW n \in ToSet(Kept),
                        m \in before[n]
                 PROVE  m < n /\ At(Kept, m) < At(Kept, n)
    BY DEF RealTimeOrder, Kept
  <2>2. Kept \in Seq(Line)
    BY <2>1, Places DEF LoggerInv, TypeL, Kept
  <2>3. DOMAIN Kept = 1..Len(Kept)
    BY <2>2
  <2>4. n \in Line
    BY <2>2, <2>3 DEF ToSet
  <2>5. m < n
    BY <2>1, <2>4 DEF LoggerInv, BeforeIsSmaller
  <2>6. \A k \in ToSet(Kept) : At(Kept, k) \in 1..Len(Kept) /\ Kept[At(Kept, k)] = k
    BY <2>3 DEF ToSet, At
  <2>7. QED
    BY <2>1, <2>5, <2>6 DEF LoggerInv, KeptInOrder
<1>3. QED
  BY <1>1, <1>2, InitLogger, PTL DEF Spec
=============================================================================
