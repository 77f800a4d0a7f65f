--------------------------- MODULE IdentityProofs ---------------------------
(***************************************************************************)
(* Proofs about LoadOrCreate, for any set of processes, either key store   *)
(* and any number of calls and interruptions.                              *)
(***************************************************************************)
EXTENDS Identity, FiniteSetTheorems, TLAPS

Inside(p) == pc[p] \in {"node", "load", "save", "publish"}

(* What LoadOrCreate relies on between two steps: the flock makes it alone *)
(* in the directory, what it has read is still there, and it replaces keys *)
(* only while nobody has been given an identity.                           *)
Exclusive == \A p \in Proc : Inside(p) => lock = p

ReadsAreCurrent ==
    /\ \A p \in Proc : pc[p] \in {"load", "save", "publish"} =>
         node[p] = nodeFile /\ nodeFile # Missing
    /\ \A p \in Proc : pc[p] = "publish" => key[p] = privKey /\ privKey > 0

ReplacesNothing ==
    loadErrors = 0 =>
      \A p \in Proc : pc[p] \in {"save", "publish"} => returned = {}

ReturnedIsReal == \A i \in returned : i.node > 0 /\ i.key > 0

IdentityInv ==
    /\ TypeOK
    /\ Exclusive
    /\ ReadsAreCurrent
    /\ ReplacesNothing
    /\ ReturnedIsReal
    /\ privKey >= Torn /\ pubFile >= Torn
    /\ IdentityIsStable

-----------------------------------------------------------------------------
(* An empty data directory satisfies the invariant.                        *)
LEMMA InitIdentity == Init => IdentityInv
BY IdentityConstants
   DEF Init, IdentityInv, TypeOK, Exclusive, Inside, ReadsAreCurrent,
       ReplacesNothing, ReturnedIsReal, IdentityIsStable, Missing, Torn, NoOne,
       Identities

(* Every step of every process inside LoadOrCreate preserves it.           *)
LEMMA IdentityStep ==
    ASSUME NEW p \in Proc, IdentityInv,
           Call(p) \/ Run(p) \/ NodeReadFails(p) \/ LoadFails(p) \/ Interrupt(p)
    PROVE  IdentityInv'
<1> USE IdentityConstants DEF Missing, Torn, NoOne, Goto, Release, HavePair
<1>1. CASE Call(p)
  BY <1>1 DEF Call, IdentityInv, TypeOK, Exclusive, Inside, ReadsAreCurrent,
     ReplacesNothing, ReturnedIsReal, IdentityIsStable
<1>2. CASE Lock(p)
  BY <1>2 DEF Lock, IdentityInv, TypeOK, Exclusive, Inside, ReadsAreCurrent,
     ReplacesNothing, ReturnedIsReal, IdentityIsStable
<1>3. CASE NodeID(p)
  <2> USE <1>3 DEF NodeID, IdentityInv
  <2>1. TypeOK' /\ ReturnedIsReal' /\ privKey' >= Torn /\ pubFile' >= Torn
    BY DEF TypeOK, ReturnedIsReal
  <2>2. Exclusive'
    BY DEF Exclusive, Inside, TypeOK
  <2>3. ReadsAreCurrent'
    BY DEF ReadsAreCurrent, Exclusive, Inside, TypeOK
  <2>4. ReplacesNothing'
    BY DEF ReplacesNothing, TypeOK
  <2>5. IdentityIsStable'
    BY DEF IdentityIsStable, ReturnedIsReal, TypeOK
  <2>6. QED  BY <2>1, <2>2, <2>3, <2>4, <2>5
<1>4. CASE LoadPair(p)
  <2> USE <1>4 DEF LoadPair, Return, IdentityInv
  <2> DEFINE i == [node |-> node[p], key |-> privKey]
  <2>1. privKey \in Nat /\ i \in Identities /\ i.node = nodeFile /\ i.key = privKey
        /\ i.node > 0 /\ i.key > 0
    BY DEF TypeOK, Identities, ReadsAreCurrent
  <2>2. returned' = returned \union {i}
    OBVIOUS
  <2> HIDE DEF i
  <2>3. TypeOK' /\ ReturnedIsReal' /\ privKey' >= Torn /\ pubFile' >= Torn
    BY <2>1, <2>2 DEF TypeOK, ReturnedIsReal
  <2>4. Exclusive' /\ ReadsAreCurrent'
    BY DEF Exclusive, Inside, ReadsAreCurrent, TypeOK
  <2>5. ReplacesNothing'
    BY DEF ReplacesNothing, Exclusive, Inside, TypeOK
  <2>6. IdentityIsStable'
    BY <2>1, <2>2 DEF IdentityIsStable, TypeOK
  <2>7. QED  BY <2>3, <2>4, <2>5, <2>6
<1>5. CASE ParseFails(p)
  BY <1>5 DEF ParseFails, IdentityInv, TypeOK, Exclusive, Inside,
     ReadsAreCurrent, ReplacesNothing, ReturnedIsReal, IdentityIsStable
<1>6. CASE NeedPair(p)
  <2> USE <1>6 DEF NeedPair, IdentityInv
  <2>1. loadErrors = 0 => returned = {}
    BY DEF IdentityIsStable, ReturnedIsReal, TypeOK
  <2>2. ReplacesNothing'
    BY <2>1 DEF ReplacesNothing, TypeOK
  <2>3. QED
    BY <2>2 DEF TypeOK, Exclusive, Inside, ReadsAreCurrent, ReturnedIsReal,
       IdentityIsStable
<1>7. CASE LoadFails(p)
  BY <1>7 DEF LoadFails, IdentityInv, TypeOK, Exclusive, Inside,
     ReadsAreCurrent, ReplacesNothing, ReturnedIsReal, IdentityIsStable
<1>8. CASE SavePrivate(p)
  <2> USE <1>8 DEF SavePrivate, IdentityInv
  <2>1. TypeOK' /\ ReturnedIsReal' /\ privKey' >= Torn /\ pubFile' >= Torn
    BY DEF TypeOK, ReturnedIsReal
  <2>2. Exclusive' /\ ReadsAreCurrent'
    BY DEF Exclusive, Inside, ReadsAreCurrent, TypeOK
  <2>3. ReplacesNothing' /\ IdentityIsStable'
    BY DEF ReplacesNothing, IdentityIsStable, TypeOK
  <2>4. QED  BY <2>1, <2>2, <2>3
<1>9. CASE SavePublic(p)
  <2> USE <1>9 DEF SavePublic, Return, IdentityInv
  <2> DEFINE i == [node |-> node[p], key |-> key[p]]
  <2>1. i \in Identities /\ i.node = nodeFile /\ i.key = privKey /\ i.key = key[p]
        /\ i.node > 0 /\ i.key > 0
    BY DEF TypeOK, Identities, ReadsAreCurrent
  <2>2. returned' = returned \union {i}
    OBVIOUS
  <2> HIDE DEF i
  <2>3. TypeOK' /\ ReturnedIsReal' /\ privKey' >= Torn /\ pubFile' >= Torn
    BY <2>1, <2>2 DEF TypeOK, ReturnedIsReal
  <2>4. Exclusive' /\ ReadsAreCurrent'
    BY DEF Exclusive, Inside, ReadsAreCurrent, TypeOK
  <2>5. ReplacesNothing'
    BY DEF ReplacesNothing, Exclusive, Inside, TypeOK
  <2>6. IdentityIsStable'
    BY <2>1, <2>2 DEF IdentityIsStable, ReplacesNothing, TypeOK
  <2>7. QED  BY <2>3, <2>4, <2>5, <2>6
<1>10. CASE Interrupt(p)
  <2> USE <1>10 DEF Interrupt, HalfSaved, IdentityInv
  <2>1. TypeOK' /\ ReturnedIsReal' /\ privKey' >= Torn /\ pubFile' >= Torn
    BY DEF TypeOK, ReturnedIsReal
  <2>2. Exclusive' /\ ReadsAreCurrent'
    BY DEF Exclusive, Inside, ReadsAreCurrent, TypeOK
  <2>3. ReplacesNothing'
    BY DEF ReplacesNothing, TypeOK
  <2>4. IdentityIsStable'
    BY DEF IdentityIsStable, ReplacesNothing, ReturnedIsReal, TypeOK
  <2>5. QED  BY <2>1, <2>2, <2>3, <2>4
<1>11. CASE NodeReadFails(p)
  <2> USE <1>11 DEF NodeReadFails, IdentityInv
  <2>1. TypeOK' /\ ReturnedIsReal' /\ privKey' >= Torn /\ pubFile' >= Torn
    BY DEF TypeOK, ReturnedIsReal
  <2>2. Exclusive' /\ ReadsAreCurrent'
    BY DEF Exclusive, Inside, ReadsAreCurrent, TypeOK
  <2>3. ReplacesNothing' /\ IdentityIsStable'
    BY DEF ReplacesNothing, IdentityIsStable, TypeOK
  <2>4. QED  BY <2>1, <2>2, <2>3
<1>12. QED
  BY <1>1, <1>2, <1>3, <1>4, <1>5, <1>6, <1>7, <1>8, <1>9, <1>10, <1>11 DEF Run

(* The inductive invariant of LoadOrCreate.                                *)
THEOREM IdentityInvariance == Spec => []IdentityInv
<1>1. IdentityInv /\ [Next]_vars => IdentityInv'
  <2>1. IdentityInv /\ UNCHANGED vars => IdentityInv'
    BY DEF vars, IdentityInv, TypeOK, Exclusive, Inside, ReadsAreCurrent,
       ReplacesNothing, ReturnedIsReal, IdentityIsStable
  <2>2. QED  BY <2>1, IdentityStep DEF Next
<1>2. QED
  BY <1>1, InitIdentity, PTL DEF Spec

(* While stored keys can be read, an identity once returned by             *)
(* LoadOrCreate stays the identity of the device: any process, any         *)
(* interleaving, any kill or failed write.                                 *)
THEOREM StableIdentity == Spec => []IdentityIsStable
<1>1. IdentityInv => IdentityIsStable
  BY DEF IdentityInv
<1>2. QED
  BY <1>1, IdentityInvariance, PTL

(* LoadOrCreate: NodeIDs, keys and files have their types, and a key that  *)
(* is returned parses.                                                     *)
THEOREM TypeCorrect == Spec => []TypeOK
<1>1. IdentityInv => TypeOK
  BY DEF IdentityInv
<1>2. QED
  BY <1>1, IdentityInvariance, PTL

-----------------------------------------------------------------------------
(* The account of identities against failed reads.  The directory is       *)
(* settled when it holds an identity somebody was given and nobody is      *)
(* replacing its keys: then LoadOrCreate can only return that one again.   *)
(* Otherwise one more identity may be returned, and a failed read has been *)
(* counted for it in advance.                                              *)
Settled ==
    /\ \A p \in Proc : pc[p] \notin {"save", "publish"}
    /\ \E i \in returned : nodeFile = i.node /\ privKey = i.key /\ pubFile = i.key

AccountInv ==
    /\ IsFiniteSet(returned)
    /\ ChangesAreExplained
    /\ ~Settled => Cardinality(returned) <= loadErrors

(* What one more returned identity does to their number.                   *)
LEMMA OneMoreReturned ==
    ASSUME NEW i, IsFiniteSet(returned), returned' = returned \union {i}
    PROVE  /\ IsFiniteSet(returned')
           /\ Cardinality(returned) \in Nat /\ Cardinality(returned') \in Nat
           /\ Cardinality(returned') <= Cardinality(returned) + 1
           /\ i \in returned => returned' = returned
<1>1. /\ IsFiniteSet(returned')
      /\ Cardinality(returned') = IF i \in returned THEN Cardinality(returned)
                                  ELSE Cardinality(returned) + 1
  BY FS_AddElement
<1>2. Cardinality(returned) \in Nat
  BY FS_CardinalityType
<1>3. QED
  BY <1>1, <1>2

(* Every step of LoadOrCreate keeps the account.                           *)
LEMMA AccountStep ==
    ASSUME NEW p \in Proc, IdentityInv, AccountInv,
           Call(p) \/ Run(p) \/ NodeReadFails(p) \/ LoadFails(p) \/ Interrupt(p)
    PROVE  AccountInv'
<1> USE IdentityConstants DEF Missing, Torn, NoOne, Goto, Release, HavePair
<1> USE DEF AccountInv, ChangesAreExplained
<1>0. Cardinality(returned) \in Nat /\ loadErrors \in Nat
  BY FS_CardinalityType DEF IdentityInv, TypeOK
<1>1. CASE Call(p) \/ Lock(p) \/ ParseFails(p)
  BY <1>0, <1>1 DEF Call, Lock, ParseFails, Settled, IdentityInv, TypeOK
<1>2. CASE NodeID(p)
  BY <1>0, <1>2 DEF NodeID, Settled, IdentityInv, TypeOK, ReturnedIsReal
<1>3. CASE LoadPair(p)
  <2> USE <1>3 DEF LoadPair, Return
  <2> DEFINE i == [node |-> node[p], key |-> privKey]
  <2>1. returned' = returned \union {i} /\ loadErrors' = loadErrors
    OBVIOUS
  <2>2. i.node = nodeFile /\ i.key = privKey /\ i.key = pubFile
    BY DEF IdentityInv, ReadsAreCurrent
  <2>3. Settled => i \in returned
    <3> SUFFICES ASSUME Settled  PROVE i \in returned
      OBVIOUS
    <3>1. PICK j \in returned : nodeFile = j.node /\ privKey = j.key
      BY DEF Settled
    <3>2. j = [node |-> j.node, key |-> j.key]
      BY DEF IdentityInv, TypeOK, Identities
    <3>3. QED
      BY <2>2, <3>1, <3>2
  <2>4. Settled'
    <3>1. \A q \in Proc : pc'[q] \notin {"save", "publish"}
      BY DEF IdentityInv, Exclusive, Inside, TypeOK
    <3>2. QED
      BY <2>1, <2>2, <3>1 DEF Settled
  <2> HIDE DEF i
  <2>5. IsFiniteSet(returned') /\ Cardinality(returned') \in Nat
        /\ Cardinality(returned') <= Cardinality(returned) + 1
        /\ (i \in returned => returned' = returned)
    BY <2>1, OneMoreReturned
  <2>6. QED
    BY <1>0, <2>1, <2>3, <2>4, <2>5
<1>4. CASE NeedPair(p)
  <2>1. ~Settled
    BY <1>4 DEF NeedPair, Settled, IdentityInv, ReturnedIsReal, TypeOK
  <2>2. QED
    BY <1>0, <1>4, <2>1 DEF NeedPair
<1>5. CASE LoadFails(p) \/ NodeReadFails(p)
  BY <1>0, <1>5 DEF LoadFails, NodeReadFails
<1>6. CASE SavePrivate(p)
  <2>1. ~Settled
    BY <1>6 DEF SavePrivate, Settled
  <2>2. QED
    BY <1>0, <1>6, <2>1 DEF SavePrivate
<1>7. CASE SavePublic(p)
  <2> USE <1>7 DEF SavePublic, Return
  <2> DEFINE i == [node |-> node[p], key |-> key[p]]
  <2>1. returned' = returned \union {i} /\ loadErrors' = loadErrors
    OBVIOUS
  <2>2. i.node = nodeFile' /\ i.key = privKey' /\ i.key = pubFile'
    BY DEF IdentityInv, ReadsAreCurrent
  <2>3. ~Settled
    BY DEF Settled
  <2>4. Settled'
    <3>1. \A q \in Proc : pc'[q] \notin {"save", "publish"}
      BY DEF IdentityInv, Exclusive, Inside, TypeOK
    <3>2. QED
      BY <2>1, <2>2, <3>1 DEF Settled
  <2> HIDE DEF i
  <2>5. IsFiniteSet(returned') /\ Cardinality(returned') \in Nat
        /\ Cardinality(returned') <= Cardinality(returned) + 1
    BY <2>1, OneMoreReturned
  <2>6. QED
    BY <1>0, <2>1, <2>3, <2>4, <2>5
<1>8. CASE Interrupt(p)
  <2>1. returned' = returned /\ loadErrors' = loadErrors
    BY <1>8 DEF Interrupt
  <2>2. Settled => Settled'
    BY <1>8 DEF Interrupt, Settled, IdentityInv, ReturnedIsReal, TypeOK
  <2>3. QED
    BY <1>0, <2>1, <2>2
<1>9. QED
  BY <1>1, <1>2, <1>3, <1>4, <1>5, <1>6, <1>7, <1>8 DEF Run

(* However often LoadOrCreate is called, killed or run beside itself, the  *)
(* device has had at most one identity more than there were failed reads   *)
(* of its files.                                                           *)
THEOREM ExplainedChanges == Spec => []ChangesAreExplained
<1>1. Init => AccountInv
  BY FS_EmptySet DEF Init, AccountInv, ChangesAreExplained
<1>2. IdentityInv /\ AccountInv /\ [Next]_vars => AccountInv'
  <2>1. AccountInv /\ UNCHANGED vars => AccountInv'
    BY DEF vars, AccountInv, ChangesAreExplained, Settled
  <2>2. QED
    BY <2>1, AccountStep DEF Next
<1>3. AccountInv => ChangesAreExplained
  BY DEF AccountInv
<1>4. QED
  BY <1>1, <1>2, <1>3, IdentityInvariance, PTL DEF Spec
=============================================================================
