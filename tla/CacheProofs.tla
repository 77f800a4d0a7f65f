---------------------------- MODULE CacheProofs ----------------------------
(***************************************************************************)
(* Proofs about the offline cache, for every limit, every set of entry     *)
(* sizes and any number of entries, crashes and failing system calls.      *)
(***************************************************************************)
EXTENDS Cache, FiniteSetTheorems, TLAPS

-----------------------------------------------------------------------------
(* The footprint of a directory *)

(* One file occupies exactly as many blocks as it has bytes.               *)
LEMMA FileBlocks ==
    ASSUME NEW s, NEW n \in Nat
    PROVE  /\ IsFiniteSet({s} \X (1..n))
           /\ Cardinality({s} \X (1..n)) = n
<1>1. IsFiniteSet({s}) /\ Cardinality({s}) = 1
  BY FS_Singleton
<1>2. IsFiniteSet(1..n) /\ Cardinality(1..n) = n
  BY FS_Interval
<1>3. /\ IsFiniteSet({s} \X (1..n))
      /\ Cardinality({s} \X (1..n)) = Cardinality({s}) * Cardinality(1..n)
  BY <1>1, <1>2, FS_Product, Zenon
<1>4. 1 * n = n
  OBVIOUS
<1>5. QED
  BY <1>1, <1>2, <1>3, <1>4, Zenon

(* Writing a file with a fresh name adds its size to the footprint.        *)
LEMMA AddFile ==
    ASSUME NEW d, NEW f, f.size \in Nat,
           IsFiniteSet(Blocks(d)), \A g \in d : g.seq # f.seq
    PROVE  /\ IsFiniteSet(Blocks(d \union {f}))
           /\ Footprint(d \union {f}) = Footprint(d) + f.size
<1> DEFINE B == {f.seq} \X (1..f.size)
<1>1. Blocks(d \union {f}) = Blocks(d) \union B
  BY DEF Blocks
<1>2. Blocks(d) \intersect B = {}
  BY DEF Blocks
<1>3. IsFiniteSet(B) /\ Cardinality(B) = f.size
  BY FileBlocks
<1>4. Cardinality(Blocks(d)) \in Nat
  BY FS_CardinalityType
<1> HIDE DEF B
<1>5. /\ IsFiniteSet(Blocks(d) \union B)
      /\ Cardinality(Blocks(d) \union B) =
           Cardinality(Blocks(d)) + Cardinality(B) - Cardinality(Blocks(d) \intersect B)
  BY <1>3, FS_Union, Zenon
<1>6. Cardinality(Blocks(d) \intersect B) = 0
  BY <1>2, FS_EmptySet, Zenon
<1>7. /\ IsFiniteSet(Blocks(d \union {f}))
      /\ Footprint(d \union {f}) = Footprint(d) + f.size - 0
  BY <1>1, <1>3, <1>5, <1>6, Zenon DEF Footprint
<1>8. QED
  BY <1>4, <1>7 DEF Footprint

(* Removing a file takes its size off the footprint.                       *)
LEMMA RemoveFile ==
    ASSUME NEW d, NEW f \in d, f.size \in Nat,
           IsFiniteSet(Blocks(d)), \A g \in d : g.seq = f.seq => g = f
    PROVE  /\ IsFiniteSet(Blocks(d \ {f}))
           /\ Footprint(d \ {f}) = Footprint(d) - f.size
           /\ Footprint(d) \in Nat
<1> DEFINE B == {f.seq} \X (1..f.size)
<1>1. Blocks(d \ {f}) = Blocks(d) \ B
  BY DEF Blocks
<1>2. Blocks(d) \intersect B = B
  BY DEF Blocks
<1>3. IsFiniteSet(B) /\ Cardinality(B) = f.size
  BY FileBlocks
<1>4. Cardinality(Blocks(d)) \in Nat
  BY FS_CardinalityType
<1> HIDE DEF B
<1>5. /\ IsFiniteSet(Blocks(d) \ B)
      /\ Cardinality(Blocks(d) \ B) =
           Cardinality(Blocks(d)) - Cardinality(Blocks(d) \intersect B)
  BY FS_Difference, Zenon
<1>6. QED
  BY <1>1, <1>2, <1>3, <1>4, <1>5 DEF Footprint

-----------------------------------------------------------------------------
(* The inductive invariant *)

(* Every file was written once, under a time stamp of its own.             *)
Dated ==
    /\ \A f \in dir \union taken : f.seq < nextSeq
    /\ \A f, g \in dir : f.seq = g.seq => f = g

(* Bounded and ExactAccounting hold because of what the counter is worth   *)
(* at each point of a method; saved is the point where it is on disk.      *)
Counted ==
    /\ IsFiniteSet(Blocks(dir))
    /\ pc # "down" => written <= MaxBytes
    /\ index <= MaxBytes
    /\ Faultless /\ pc # "down" => written = Footprint(dir)
    /\ Faultless /\ pc \in {"down", "idle"} /\ result # "refused"
         => index = Footprint(dir)
    /\ pc = "down" /\ Faultless => result # "refused"
    /\ pc \in {"push", "save", "pop"} => result = "none"

CacheInv == TypeOK /\ Dated /\ Counted /\ RefusalJustified

(* The type invariant: every variable keeps its type, and popKind only     *)
(* looks at files that are still there.                                    *)
LEMMA TypeStep == TypeOK /\ [Next]_vars => TypeOK'
<1> USE CacheConstants
<1> SUFFICES ASSUME TypeOK, [Next]_vars PROVE TypeOK'
  OBVIOUS
<1>1. CASE New  BY <1>1 DEF New, TypeOK, File
<1>2. CASE Stop  BY <1>2 DEF Stop, TypeOK, File
<1>3. ASSUME NEW k \in Kinds, NEW s \in Sizes, Push(k, s) PROVE TypeOK'
  BY <1>3 DEF Push, TypeOK, File
<1>4. ASSUME NEW k \in Kinds, Pop(k) PROVE TypeOK'
  BY <1>4 DEF Pop, TypeOK, File
<1>5. CASE Step
  <2>1. CASE DropOldest  BY <2>1 DEF DropOldest, TypeOK, File, IsOldest
  <2>2. CASE PushRefused  BY <2>2 DEF PushRefused, TypeOK, File
  <2>3. CASE WriteEntry
    <3> DEFINE new == [seq |-> nextSeq, kind |-> cur.kind,
                       size |-> cur.size, body |-> "whole"]
    <3>1. new \in File
      BY <2>3 DEF WriteEntry, TypeOK, File
    <3>2. dir' = dir \union {new}
      BY <2>3 DEF WriteEntry
    <3> HIDE DEF new
    <3>3. QED
      BY <2>3, <3>1, <3>2 DEF WriteEntry, TypeOK
  <2>4. CASE SaveIndex  BY <2>4 DEF SaveIndex, TypeOK, File
  <2>5. CASE PopTake
    <3>1. PICK f \in todo : /\ out' = out \union {f}
                           /\ taken' = taken \union {f}
                           /\ dir' = dir \ {f}
                           /\ written' = written - f.size
                           /\ todo' = todo \ {f}
      BY <2>5 DEF PopTake
    <3>2. f \in File
      BY DEF TypeOK
    <3>3. written - f.size \in Int
      BY <3>2 DEF File, TypeOK
    <3>4. QED
      BY <2>5, <3>1, <3>2, <3>3 DEF PopTake, TypeOK
  <2>6. CASE PopSkip  BY <2>6 DEF PopSkip, TypeOK, File, IsOldest
  <2>7. CASE PopReturn  BY <2>7 DEF PopReturn, TypeOK, File
  <2>8. QED  BY <1>5, <2>1, <2>2, <2>3, <2>4, <2>5, <2>6, <2>7 DEF Step
<1>6. CASE Fault
  <2>1. CASE WriteFails
    <3>1. \A n \in 0..(cur.size - 1) : Torn(n) \in File
      BY <2>1 DEF WriteFails, Torn, TypeOK, File
    <3>2. QED
      BY <2>1, <3>1 DEF WriteFails, IOError, TypeOK
  <2>2. CASE ListFails  BY <2>2 DEF ListFails, IOError, TypeOK, File
  <2>3. CASE DropFails  BY <2>3 DEF DropFails, IOError, TypeOK, File
  <2>4. CASE SaveFails  BY <2>4 DEF SaveFails, IOError, TypeOK, File
  <2>5. CASE PopReadFails  BY <2>5 DEF PopReadFails, IOError, TypeOK, File
  <2>6. CASE PopRemoveFails  BY <2>6 DEF PopRemoveFails, IOError, TypeOK, File
  <2>7. CASE Crash
    <3>1. pc = "push" => \A n \in 0..(cur.size - 1) : Torn(n) \in File
      BY DEF Torn, TypeOK, File
    <3>2. dir' \subseteq File
      BY <2>7, <3>1 DEF Crash, TypeOK
    <3>3. index' \in Int /\ nextSeq' \in Nat
      BY <2>7 DEF Crash, TypeOK
    <3>4. QED
      BY <2>7, <3>2, <3>3 DEF Crash, TypeOK
  <2>8. CASE StatFails \/ DropPanics
    <3>1. \A f \in dir : written - f.size \in Int
      BY DEF TypeOK, File
    <3>2. dir' \subseteq dir /\ written' \in Int /\ todo = {} /\ todo' = {}
      BY <2>8, <3>1 DEF StatFails, DropPanics, TypeOK
    <3>3. QED
      BY <2>8, <3>2 DEF StatFails, DropPanics, IOError, TypeOK
  <2>9. CASE LoadFails \/ PopListFails
    BY <2>9 DEF LoadFails, PopListFails, IOError, TypeOK, File
  <2>10. QED
    BY <1>6, <2>1, <2>2, <2>3, <2>4, <2>5, <2>6, <2>7, <2>8, <2>9 DEF Fault
<1>7. CASE UNCHANGED vars  BY <1>7 DEF vars, TypeOK
<1>8. QED  BY <1>1, <1>2, <1>3, <1>4, <1>5, <1>6, <1>7 DEF Next

(* Time stamps stay distinct and in the past: a new file, whole or torn,   *)
(* takes the current one and the clock moves on.                           *)
LEMMA DatedStep == TypeOK /\ Dated /\ [Next]_vars => Dated'
<1> SUFFICES ASSUME TypeOK, Dated, [Next]_vars PROVE Dated'
  OBVIOUS
<1>1. ASSUME dir' \subseteq dir, taken' \subseteq dir \union taken,
             nextSeq' \in {nextSeq, nextSeq + 1}
      PROVE  Dated'
  BY <1>1 DEF TypeOK, Dated, File
<1>2. ASSUME NEW f, f.seq = nextSeq, dir' = dir \union {f}, taken' = taken,
             nextSeq' = nextSeq + 1
      PROVE  Dated'
  BY <1>2 DEF TypeOK, Dated, File
<1>3. CASE New \/ Stop \/ UNCHANGED vars
  BY <1>1, <1>3 DEF New, Stop, vars
<1>4. ASSUME NEW k \in Kinds, NEW s \in Sizes, Push(k, s) \/ Pop(k) PROVE Dated'
  BY <1>1, <1>4 DEF Push, Pop
<1>5. ASSUME NEW k \in Kinds, Pop(k) PROVE Dated'
  BY <1>1, <1>5 DEF Pop
<1>6. CASE WriteEntry
  BY <1>2, <1>6 DEF WriteEntry
<1>7. CASE DropOldest \/ PushRefused \/ SaveIndex \/ PopSkip \/ PopReturn
  BY <1>1, <1>7 DEF DropOldest, PushRefused, SaveIndex, PopSkip, PopReturn
<1>8. CASE PopTake \/ PopRemoveFails
  BY <1>1, <1>8 DEF PopTake, PopRemoveFails, TypeOK
<1>9. CASE ListFails \/ DropFails \/ StatFails \/ DropPanics \/ SaveFails \/ PopReadFails
           \/ LoadFails \/ PopListFails
  BY <1>1, <1>9 DEF ListFails, DropFails, StatFails, DropPanics, SaveFails, PopReadFails,
                    LoadFails, PopListFails
<1>10. CASE WriteFails \/ Crash
  <2>1. \A n : Torn(n).seq = nextSeq
    BY DEF Torn
  <2>2. CASE dir' = dir
    BY <1>1, <1>10, <2>2 DEF WriteFails, Crash
  <2>3. CASE dir' # dir
    BY <1>2, <1>10, <2>1, <2>3 DEF WriteFails, Crash
  <2>4. QED  BY <2>2, <2>3
<1>11. QED
  BY <1>3, <1>4, <1>5, <1>6, <1>7, <1>8, <1>9, <1>10 DEF Next, Step, Fault

(* The counter stays within the limit and, while nothing has failed, equal *)
(* to the bytes on disk.                                                   *)
LEMMA CountedStep == CacheInv /\ [Next]_vars => Counted'
<1> USE CacheConstants
<1> SUFFICES ASSUME CacheInv, [Next]_vars PROVE Counted'
  OBVIOUS
<1> USE DEF CacheInv
<1>1. IsFiniteSet(Blocks(dir)) /\ Footprint(dir) \in Nat
  BY FS_CardinalityType DEF Counted, Footprint
<1>2. \A f \in dir : /\ IsFiniteSet(Blocks(dir \ {f}))
                     /\ Footprint(dir \ {f}) = Footprint(dir) - f.size
                     /\ f.size \in Nat
  BY RemoveFile DEF Counted, Dated, TypeOK, File
<1>3. \A f : f.seq = nextSeq /\ f.size \in Nat =>
             /\ IsFiniteSet(Blocks(dir \union {f}))
             /\ Footprint(dir \union {f}) = Footprint(dir) + f.size
  <2>1. \A g \in dir : g.seq # nextSeq
    BY DEF Dated, TypeOK, File
  <2>2. QED  BY <2>1, AddFile DEF Counted
<1>4. CASE New
  BY <1>4 DEF New, Counted, TypeOK, Faultless
<1>5. CASE Stop
  BY <1>5 DEF Stop, Counted, TypeOK, Faultless
<1>6. ASSUME NEW k \in Kinds, NEW s \in Sizes, Push(k, s) PROVE Counted'
  BY <1>6 DEF Push, Counted, TypeOK, Faultless
<1>7. ASSUME NEW k \in Kinds, Pop(k) PROVE Counted'
  BY <1>7 DEF Pop, Counted, TypeOK, Faultless
<1>8. CASE DropOldest
  <2>1. PICK f \in dir : dir' = dir \ {f} /\ written' = written - f.size
    BY <1>8 DEF DropOldest
  <2>2. QED
    BY <1>1, <1>2, <1>8, <2>1 DEF DropOldest, Counted, TypeOK, Faultless
<1>9. CASE PushRefused
  BY <1>9 DEF PushRefused, Counted, TypeOK, Faultless
<1>10. CASE WriteEntry
  <2> DEFINE f == [seq |-> nextSeq, kind |-> cur.kind, size |-> cur.size,
                   body |-> "whole"]
  <2>1. f.seq = nextSeq /\ f.size = cur.size /\ f.size \in Nat /\ dir' = dir \union {f}
    BY <1>10 DEF WriteEntry, TypeOK
  <2> HIDE DEF f
  <2>2. IsFiniteSet(Blocks(dir')) /\ Footprint(dir') = Footprint(dir) + cur.size
    BY <1>3, <2>1
  <2>3. QED
    BY <1>1, <1>10, <2>2 DEF WriteEntry, OverBudget, Counted, TypeOK, Faultless, Footprint
<1>11. CASE SaveIndex
  BY <1>11 DEF SaveIndex, Counted, TypeOK, Faultless
<1>12. CASE PopTake
  <2>1. PICK f \in dir : dir' = dir \ {f} /\ written' = written - f.size
    BY <1>12 DEF PopTake, TypeOK
  <2>2. QED
    BY <1>1, <1>2, <1>12, <2>1, SMTT(20) DEF PopTake, Counted, TypeOK, Faultless
<1>13. CASE PopSkip
  BY <1>13 DEF PopSkip, Counted, TypeOK, Faultless
<1>14. CASE PopReturn
  BY <1>14 DEF PopReturn, Counted, TypeOK, Faultless
<1>15. CASE WriteFails
  <2>1. \A n \in Nat : Torn(n).seq = nextSeq /\ Torn(n).size \in Nat
    BY DEF Torn
  <2>2. IsFiniteSet(Blocks(dir'))
    BY <1>1, <1>3, <1>15, <2>1 DEF WriteFails, TypeOK
  <2>3. QED
    BY <1>15, <2>2 DEF WriteFails, IOError, Counted, TypeOK, Faultless
<1>16. CASE ListFails
  BY <1>16 DEF ListFails, IOError, Counted, TypeOK, Faultless
<1>17. CASE DropFails
  <2> PICK f \in dir : written' = written - f.size
    BY <1>17 DEF DropFails, TypeOK
  <2> f.size \in Nat
    BY <1>2
  <2>1. dir' = dir /\ written' \in Int /\ written' <= written
    BY <1>17 DEF DropFails, TypeOK
  <2>2. QED
    BY <1>17, <2>1 DEF DropFails, IOError, Counted, TypeOK, Faultless
<1>18. CASE SaveFails
  BY <1>18 DEF SaveFails, IOError, Counted, TypeOK, Faultless
<1>19. CASE PopReadFails
  BY <1>19 DEF PopReadFails, IOError, Counted, TypeOK, Faultless
<1>20. CASE PopRemoveFails
  <2> PICK f \in dir : written' = written - f.size
    BY <1>20 DEF PopRemoveFails, TypeOK
  <2> f.size \in Nat
    BY <1>2
  <2>1. dir' = dir /\ written' \in Int /\ written' <= written
    BY <1>20 DEF PopRemoveFails, TypeOK
  <2>2. QED
    BY <1>20, <2>1 DEF PopRemoveFails, IOError, Counted, TypeOK, Faultless
<1>21. CASE Crash
  <2>1. \A n \in Nat : Torn(n).seq = nextSeq /\ Torn(n).size \in Nat
    BY DEF Torn
  <2>2. IsFiniteSet(Blocks(dir'))
    BY <1>1, <1>3, <1>21, <2>1 DEF Crash, TypeOK
  <2>3. QED
    BY <1>21, <2>2 DEF Crash, Counted, TypeOK, Faultless
<1>22. CASE UNCHANGED vars
  BY <1>22 DEF vars, Counted, TypeOK, Faultless
<1>23. CASE StatFails
  <2>1. PICK f \in dir : dir' = dir \ {f} /\ written' = written - f.size
    BY <1>23 DEF StatFails
  <2>2. written' \in Int /\ written' <= written /\ IsFiniteSet(Blocks(dir'))
    <3>1. f.size \in Nat /\ IsFiniteSet(Blocks(dir \ {f})) /\ written \in Int
      BY <1>2 DEF TypeOK
    <3>2. IsFiniteSet(Blocks(dir'))
      BY <2>1, <3>1, Zenon
    <3>3. QED  BY <2>1, <3>1, <3>2
  <2>3. /\ pc' = pc /\ index' = index /\ result' = result /\ ~Faultless'
    BY <1>23 DEF StatFails, IOError, Faultless, TypeOK
  <2>4. QED
    BY <1>23, <2>2, <2>3 DEF StatFails, Counted, TypeOK
<1>24. CASE DropPanics
  <2>1. IsFiniteSet(Blocks(dir'))
    BY <1>2, <1>24 DEF DropPanics
  <2>2. /\ pc' = "idle" /\ index' = index /\ written' = written /\ ~Faultless'
    BY <1>24 DEF DropPanics, IOError, Faultless, TypeOK
  <2>3. QED
    BY <1>24, <2>1, <2>2 DEF DropPanics, Counted, TypeOK
<1>25. CASE LoadFails \/ PopListFails
  BY <1>25 DEF LoadFails, PopListFails, IOError, Counted, TypeOK, Faultless
<1>26. QED
  BY <1>4, <1>5, <1>6, <1>7, <1>8, <1>9, <1>10, <1>11, <1>12, <1>13, <1>14,
     <1>15, <1>16, <1>17, <1>18, <1>19, <1>20, <1>21, <1>22, <1>23, <1>24, <1>25
     DEF Next, Step, Fault

(* A refusal finds the directory empty, so an exact counter is 0.          *)
LEMMA RefusalStep == CacheInv /\ [Next]_vars => RefusalJustified'
<1> USE CacheConstants
<1> SUFFICES ASSUME CacheInv, [Next]_vars PROVE RefusalJustified'
  OBVIOUS
<1> USE DEF CacheInv
<1>1. CASE PushRefused
  <2>1. Footprint({}) = 0
    BY FS_EmptySet DEF Footprint, Blocks
  <2>2. Faultless => written = 0
    BY <1>1, <2>1 DEF PushRefused, Counted
  <2>3. QED
    BY <1>1, <2>2 DEF PushRefused, OverBudget, RefusalJustified, Faultless, TypeOK
<1>2. CASE New \/ Stop \/ UNCHANGED vars
  BY <1>2 DEF New, Stop, vars, RefusalJustified, Faultless, Counted, TypeOK
<1>3. ASSUME NEW k \in Kinds, NEW s \in Sizes, Push(k, s) PROVE RefusalJustified'
  BY <1>3 DEF Push, RefusalJustified
<1>4. ASSUME NEW k \in Kinds, Pop(k) PROVE RefusalJustified'
  BY <1>4 DEF Pop, RefusalJustified
<1>5. CASE DropOldest \/ WriteEntry \/ SaveIndex \/ PopTake \/ PopSkip \/ PopReturn
  BY <1>5 DEF DropOldest, WriteEntry, SaveIndex, PopTake, PopSkip, PopReturn,
              RefusalJustified, Faultless
<1>6. CASE WriteFails \/ ListFails \/ DropFails \/ StatFails \/ DropPanics \/ SaveFails
  BY <1>6 DEF WriteFails, ListFails, DropFails, StatFails, DropPanics, SaveFails, IOError,
              RefusalJustified, Faultless, TypeOK
<1>7. CASE LoadFails \/ PopListFails \/ PopReadFails \/ PopRemoveFails \/ Crash
  BY <1>7 DEF LoadFails, PopListFails, PopReadFails, PopRemoveFails, Crash, IOError,
              RefusalJustified, Faultless, TypeOK
<1>8. QED
  BY <1>1, <1>2, <1>3, <1>4, <1>5, <1>6, <1>7 DEF Next, Step, Fault

(* An empty cache directory satisfies the invariant.                       *)
LEMMA InitInv == Init => CacheInv
<1> USE CacheConstants
<1>1. Blocks({}) = {}
  BY DEF Blocks
<1>2. IsFiniteSet(Blocks({})) /\ Footprint({}) = 0
  BY <1>1, FS_EmptySet DEF Footprint
<1>3. QED
  BY <1>2 DEF Init, CacheInv, TypeOK, Dated, Counted, RefusalJustified, Faultless

(* The inductive invariant holds in every reachable state of the cache.    *)
THEOREM Invariance == Spec => []CacheInv
<1>1. CacheInv /\ [Next]_vars => CacheInv'
  BY TypeStep, DatedStep, CountedStep, RefusalStep DEF CacheInv
<1>2. QED
  BY <1>1, InitInv, PTL DEF Spec

(* Type correctness of the cache.                                          *)
THEOREM TypeCorrect == Spec => []TypeOK
<1>1. CacheInv => TypeOK
  BY DEF CacheInv
<1>2. QED
  BY <1>1, Invariance, PTL

(* The counter never exceeds the limit of New, whatever fails; the bytes   *)
(* on disk do not either until something does.                             *)
THEOREM CacheBounded == Spec => []Bounded
<1>1. CacheInv => Bounded
  <2> SUFFICES ASSUME CacheInv PROVE Bounded
    OBVIOUS
  <2>1. CASE pc # "down"
    BY <2>1 DEF CacheInv, Counted, Bounded
  <2>2. CASE pc = "down"
    BY <2>2 DEF CacheInv, Counted, Bounded
  <2>3. QED  BY <2>1, <2>2
<1>2. QED
  BY <1>1, Invariance, PTL

(* The counter of cache.go is exact until the first fault.                 *)
THEOREM AccountingExact == Spec => []ExactAccounting
<1>1. CacheInv => ExactAccounting
  BY DEF CacheInv, Counted, ExactAccounting
<1>2. QED
  BY <1>1, Invariance, PTL

(* Until the first fault Push refuses only what could never fit.           *)
THEOREM RefusalsJustified == Spec => []RefusalJustified
<1>1. CacheInv => RefusalJustified
  BY DEF CacheInv
<1>2. QED
  BY <1>1, Invariance, PTL

-----------------------------------------------------------------------------
(* Refinement *)

(* What popKind passes over, step by step: only an error adds to it.       *)
LEMMA PassedStep ==
    ASSUME TypeOK, Items' \subseteq Items
    PROVE  /\ (todo' = {} \/ (dir' = dir /\ todo' = todo) => Passed' \subseteq Passed)
           /\ \A f \in todo :
                todo' = todo \ {f} => Passed' \subseteq Passed \union {f}
           /\ \A f \in todo :
                todo' = todo \ {f} /\ f \notin Items' => Passed' \subseteq Passed
BY DEF Passed, Items, TypeOK

(* The oldest file of some is an old end of every part of them it is in:   *)
(* no two files have the same time stamp.                                  *)
LEMMA OldestIsEnd ==
    ASSUME TypeOK, Dated, NEW T \in SUBSET dir, NEW S \in SUBSET T,
           NEW f \in S, IsOldest(f, T)
    PROVE  {f} \in Store!OldEnds(S)
<1>1. \A g \in S : g.seq \in Int /\ g \in dir
  BY DEF TypeOK, File
<1>2. \A g \in S \ {f} : f.seq < g.seq
  BY <1>1 DEF Dated, IsOldest
<1>3. QED
  BY <1>2 DEF Store!OldEnds

(* Every step of the cache is a step of the abstract store or none.        *)
LEMMA StoreStep ==
    CacheInv /\ [Next]_vars => [Store!Next]_(Store!vars)
<1> SUFFICES ASSUME CacheInv, [Next]_vars
             PROVE  [Store!Next]_(Store!vars)
  OBVIOUS
<1> USE DEF CacheInv
<1>1. ASSUME Items' = Items, taken' = taken, Passed' \subseteq Passed,
             ioErrors' = ioErrors
      PROVE  Store!Next
  <2>1. {} \in Store!OldEnds(Items \ {}) /\ Items' = Items \ {}
    BY <1>1 DEF Store!OldEnds
  <2>2. Store!Push
    BY <1>1, <2>1 DEF Store!Push, Store!MakeRoom, Store!Works
  <2>3. QED  BY <2>2 DEF Store!Next
<1>2. ASSUME dir' = dir PROVE Items' = Items
  BY <1>2 DEF Items
<1>3. CASE UNCHANGED vars
  BY <1>3 DEF vars, Store!vars, Items, Passed
<1>4. CASE New \/ Stop \/ PushRefused \/ SaveIndex \/ PopReturn
  <2>1. dir' = dir /\ taken' = taken /\ ioErrors' = ioErrors
    BY <1>4 DEF New, Stop, PushRefused, SaveIndex, PopReturn
  <2>2. todo' = {} \/ todo' = todo
    BY <1>4 DEF New, Stop, PushRefused, SaveIndex, PopReturn
  <2>3. QED
    BY <1>1, <1>2, <2>1, <2>2, PassedStep
<1>5. ASSUME NEW k \in Kinds, NEW s \in Sizes, Push(k, s) PROVE Store!Next
  BY <1>1, <1>2, <1>5, PassedStep DEF Push
<1>6. ASSUME NEW k \in Kinds, Pop(k) PROVE Store!Next
  <2>1. /\ dir' = dir /\ taken' = taken /\ ioErrors' = ioErrors
        /\ todo' = {f \in dir : f.kind = k}
    BY <1>6 DEF Pop
  <2>2. Passed' = {}
    BY <2>1 DEF Passed, Items
  <2>3. QED  BY <1>1, <1>2, <2>1, <2>2
<1>7. CASE DropOldest
  <2>1. PICK f \in dir : /\ IsOldest(f, dir) /\ dir' = dir \ {f}
                         /\ taken' = taken /\ ioErrors' = ioErrors
                         /\ todo' = {}
    BY <1>7 DEF DropOldest, TypeOK
  <2>2. Items' = Items \ {f} /\ Passed' \subseteq Passed
    BY <2>1 DEF Items, Passed
  <2>3. CASE f.body = "torn"
    BY <1>1, <2>1, <2>2, <2>3 DEF Items
  <2>4. CASE f.body # "torn"
    <3>1. {f} \in Store!OldEnds(Items \ {})
      BY <2>1, <2>4, OldestIsEnd DEF Items, TypeOK, File
    <3>2. Store!Push
      BY <2>1, <2>2, <3>1 DEF Store!Push, Store!MakeRoom, Store!Works
    <3>3. QED  BY <3>2 DEF Store!Next
  <2>5. QED  BY <2>3, <2>4
<1>8. CASE WriteEntry
  <2> DEFINE f == [seq |-> nextSeq, kind |-> cur.kind, size |-> cur.size,
                   body |-> "whole"]
  <2>1. /\ f.seq = nextSeq /\ f.kind \in Kinds /\ f.body = "whole"
        /\ dir' = dir \union {f} /\ taken' = taken /\ ioErrors' = ioErrors
        /\ todo' = {}
    BY <1>8 DEF WriteEntry, TypeOK
  <2> HIDE DEF f
  <2>2. \A g \in Items \union taken : g.seq < f.seq
    BY <2>1 DEF Dated, Items
  <2>3. f \notin Items
    BY <2>1 DEF Dated, Items, TypeOK, File
  <2>4. Items' = Items \union {f} /\ Passed' = {}
    BY <2>1 DEF Items, Passed
  <2>5. {} \in Store!OldEnds(Items \ {}) /\ Items \ {} = Items
    BY DEF Store!OldEnds
  <2>6. Store!Push
    BY <2>1, <2>2, <2>3, <2>4, <2>5
       DEF Store!Push, Store!MakeRoom, Store!Youngest, Store!Works
  <2>7. QED  BY <2>6 DEF Store!Next
<1>9. CASE PopTake
  <2>1. PICK f \in todo : /\ IsOldest(f, todo) /\ f.body = "whole"
                         /\ taken' = taken \union {f} /\ dir' = dir \ {f}
                         /\ todo' = todo \ {f} /\ ioErrors' = ioErrors
    BY <1>9 DEF PopTake
  <2>2. f \in dir /\ f.kind \in Kinds /\ f \in Items
    BY <2>1 DEF TypeOK, File, Items
  <2>3. {f} \in Store!OldEnds(Store!OfKind(Items, f.kind) \ (Passed \union {}))
    <3>1. Store!OfKind(Items, f.kind) \ (Passed \union {}) \subseteq todo
      BY <2>1, <2>2 DEF Store!OfKind, Passed
    <3>2. f \in Store!OfKind(Items, f.kind) \ (Passed \union {})
      BY <2>1, <2>2 DEF Store!OfKind, Passed
    <3>3. QED  BY <2>1, <3>1, <3>2, OldestIsEnd DEF TypeOK
  <2>4. Items' = Items \ {f} /\ Items' = Items \ ({f} \ {})
    BY <2>1 DEF Items
  <2>5. Passed' \subseteq Passed
    BY <2>1, <2>4, PassedStep
  <2>6. Store!Pop(f.kind)
    BY <2>1, <2>3, <2>4, <2>5 DEF Store!Pop, Store!HandOut, Store!Works
  <2>7. QED  BY <2>2, <2>6 DEF Store!Next
<1>10. CASE PopSkip
  <2>1. PICK f \in todo : f.body = "torn" /\ todo' = todo \ {f}
    BY <1>10 DEF PopSkip
  <2>2. dir' = dir /\ taken' = taken /\ ioErrors' = ioErrors
    BY <1>10 DEF PopSkip
  <2>3. Items' = Items /\ f \notin Items'
    BY <2>1, <2>2 DEF Items
  <2>4. QED
    BY <1>1, <2>1, <2>2, <2>3, PassedStep
<1>11. CASE Crash
  <2>1. \A n : Torn(n).body = "torn"
    BY DEF Torn
  <2>2. Items' = Items /\ taken' = taken /\ todo' = {} /\ ioErrors' = ioErrors
    BY <1>11, <2>1 DEF Crash, Items
  <2>3. QED  BY <1>1, <2>2, PassedStep
<1>12. ASSUME NEW over \in Store!AtMostOne(Items), ioErrors' = ioErrors + 1,
              Passed' \subseteq Passed \union over,
              \/ Store!MakeRoom(over)
              \/ \E k \in Kinds : Store!HandOut(k, {}, over)
       PROVE  Store!Next
  BY <1>12 DEF Store!Fail, Store!Next
<1>13. {} \in Store!AtMostOne(Items) /\ \A f \in Items : {f} \in Store!AtMostOne(Items)
  BY DEF Store!AtMostOne
<1>14. ASSUME NEW over \in SUBSET Items, Items' = Items, taken' = taken
       PROVE  Store!MakeRoom(over)
  <2>1. {} \in Store!OldEnds(Items \ over) /\ Items' = Items \ {}
    BY <1>14 DEF Store!OldEnds
  <2>2. QED  BY <1>14, <2>1 DEF Store!MakeRoom
<1>15. CASE LoadFails \/ WriteFails \/ ListFails \/ DropFails \/ SaveFails \/ PopListFails
  <2>1. \A n : Torn(n).body = "torn"
    BY DEF Torn
  <2>2. Items' = Items /\ taken' = taken /\ ioErrors' = ioErrors + 1
    BY <1>15, <2>1
       DEF LoadFails, WriteFails, ListFails, DropFails, SaveFails, PopListFails, IOError, Items
  <2>3. todo' = {}
    BY <1>15
       DEF LoadFails, WriteFails, ListFails, DropFails, SaveFails, PopListFails, TypeOK
  <2>4. QED
    BY <1>12, <1>13, <1>14, <2>2, <2>3, PassedStep
<1>16. CASE StatFails \/ DropPanics
  <2>1. PICK g \in SUBSET dir, f \in dir :
          /\ \A x, y \in g : x = y
          /\ f \notin g /\ IsOldest(f, dir \ g) /\ dir' = dir \ {f}
    <3>1. CASE StatFails
      <4>1. PICK h \in dir, e \in dir : e # h /\ IsOldest(e, dir \ {h}) /\ dir' = dir \ {e}
        BY <3>1 DEF StatFails
      <4>2. {h} \in SUBSET dir /\ \A x, y \in {h} : x = y
        OBVIOUS
      <4>3. QED  BY <4>1, <4>2
    <3>2. CASE DropPanics
      <4>1. PICK e \in dir : IsOldest(e, dir) /\ dir' = dir \ {e}
        BY <3>2 DEF DropPanics
      <4>2. {} \in SUBSET dir /\ dir \ {} = dir
        OBVIOUS
      <4>3. QED  BY <4>1, <4>2
    <3>3. QED  BY <1>16, <3>1, <3>2
  <2>2. taken' = taken /\ ioErrors' = ioErrors + 1 /\ todo' = {}
    BY <1>16 DEF StatFails, DropPanics, IOError, TypeOK
  <2> DEFINE over == g \intersect Items
  <2>3. over \in Store!AtMostOne(Items)
    BY <2>1 DEF Store!AtMostOne
  <2>4. Items' = Items \ {f} /\ Passed' \subseteq Passed \union over
    BY <2>1, <2>2 DEF Items, Passed
  <2>5. CASE f.body = "torn"
    <3>1. Items' = Items
      BY <2>4, <2>5 DEF Items
    <3>2. Store!MakeRoom(over)
      BY <1>14, <2>2, <3>1
    <3>3. QED  BY <1>12, <2>2, <2>3, <2>4, <3>2
  <2>6. CASE f.body # "torn"
    <3>1. f \in Items \ over /\ Items \ over \in SUBSET (dir \ g) /\ dir \ g \in SUBSET dir
      BY <2>1, <2>6 DEF Items, TypeOK, File
    <3>2. {f} \in Store!OldEnds(Items \ over)
      BY <2>1, <3>1, OldestIsEnd
    <3>3. Store!MakeRoom(over)
      BY <2>2, <2>4, <3>2 DEF Store!MakeRoom
    <3>4. QED  BY <1>12, <2>2, <2>3, <2>4, <3>3
  <2>7. QED  BY <2>5, <2>6
<1>17. CASE PopReadFails
  <2>1. PICK f \in todo : todo' = todo \ {f}
    BY <1>17 DEF PopReadFails
  <2>2. dir' = dir /\ taken' = taken /\ ioErrors' = ioErrors + 1
    BY <1>17 DEF PopReadFails, IOError
  <2>3. CASE f \in Items
    <3>1. {f} \in Store!AtMostOne(Items) /\ {f} \in SUBSET Items
      BY <1>13, <2>3
    <3>2. Passed' \subseteq Passed \union {f}
      BY <1>2, <2>1, <2>2, PassedStep
    <3>3. QED  BY <1>2, <1>12, <1>14, <2>2, <3>1, <3>2
  <2>4. CASE f \notin Items
    <3>1. Passed' \subseteq Passed \union {}
      BY <1>2, <2>1, <2>2, <2>4, PassedStep
    <3>2. QED  BY <1>2, <1>12, <1>13, <1>14, <2>2, <3>1
  <2>5. QED  BY <2>3, <2>4
<1>18. CASE PopRemoveFails
  <2>1. PICK f \in todo : /\ IsOldest(f, todo) /\ f.body = "whole" /\ todo' = todo \ {f}
                         /\ taken' = taken \union {f}
    BY <1>18 DEF PopRemoveFails
  <2>2. dir' = dir /\ ioErrors' = ioErrors + 1
    BY <1>18 DEF PopRemoveFails, IOError
  <2>3. f \in Items /\ f.kind \in Kinds
    BY <2>1 DEF Items, TypeOK, File
  <2>4. Passed' \subseteq Passed \union {f}
    BY <1>2, <2>1, <2>2, PassedStep
  <2>5. {f} \in Store!OldEnds(Store!OfKind(Items, f.kind) \ (Passed \union {}))
    <3>1. Store!OfKind(Items, f.kind) \ (Passed \union {}) \subseteq todo
      BY <2>1, <2>3 DEF Store!OfKind, Passed
    <3>2. f \in Store!OfKind(Items, f.kind) \ (Passed \union {})
      BY <2>1, <2>3 DEF Store!OfKind, Passed
    <3>3. QED  BY <2>1, <3>1, <3>2, OldestIsEnd DEF TypeOK
  <2>6. Items' = Items \ ({f} \ {f})
    BY <1>2, <2>2
  <2>7. Store!HandOut(f.kind, {}, {f})
    BY <2>1, <2>5, <2>6 DEF Store!HandOut
  <2>8. QED  BY <1>12, <1>13, <2>2, <2>3, <2>4, <2>7
<1>19. QED
  BY <1>3, <1>4, <1>5, <1>6, <1>7, <1>8, <1>9, <1>10, <1>11, <1>15, <1>16, <1>17, <1>18
     DEF Next, Step, Fault

(* The cache implements the abstract store, whatever crashes happen and    *)
(* whatever system calls fail.                                             *)
THEOREM Refinement == Spec => StoreSpec
<1>1. Init => Store!Init
  BY DEF Init, Store!Init, Items, Passed
<1>2. QED
  BY <1>1, Invariance, StoreStep, PTL DEF Spec, StoreSpec, Store!Spec
=============================================================================
