------------------------------ MODULE Identity ------------------------------
(***************************************************************************)
(* internal/identity: LoadOrCreate, called by every process of the agent   *)
(* (the daemon, -info, pairing-code, status) on one data directory, under  *)
(* an flock.  A process may be killed between any two system calls or      *)
(* inside os.WriteFile, which truncates before it writes.                  *)
(*                                                                         *)
(* Keys and node ids are numbered in the order they are generated; 0 is a  *)
(* missing one, -1 a file that does not parse.                             *)
(***************************************************************************)
EXTENDS Integers, FiniteSets

CONSTANTS
    Proc,             \* processes
    KeyStore,         \* "file" or "keychain" (newPlatformKeyStore)
    MaxCalls,         \* bound: calls of LoadOrCreate
    MaxInterrupts,    \* bound: kills and failed writes
    MaxLoadErrors     \* bound: loads that fail although a key is stored

ASSUME IdentityConstants ==
    /\ KeyStore \in {"file", "keychain"}
    /\ MaxCalls \in Nat /\ MaxInterrupts \in Nat /\ MaxLoadErrors \in Nat
    /\ 0 \notin Proc

Missing == 0
Torn == -1
NoOne == 0

VARIABLES
    nodeFile,         \* node_id.txt (empty counts as missing)
    privKey,          \* the private key in the key store
    pubFile,          \* public.pem
    lock,             \* who holds the flock on .lock
    pc, node, key,    \* per process: position, NodeID, generated key
    returned,         \* history: the identities LoadOrCreate has returned
    nextNode, nextKey, calls, interrupts, loadErrors

vars == <<nodeFile, privKey, pubFile, lock, pc, node, key, returned,
          nextNode, nextKey, calls, interrupts, loadErrors>>

-----------------------------------------------------------------------------
Init ==
    /\ nodeFile = Missing /\ privKey = Missing /\ pubFile = Missing
    /\ lock = NoOne
    /\ pc = [p \in Proc |-> "idle"]
    /\ node = [p \in Proc |-> 0] /\ key = [p \in Proc |-> 0]
    /\ returned = {}
    /\ nextNode = 1 /\ nextKey = 1
    /\ calls = 0 /\ interrupts = 0 /\ loadErrors = 0

Goto(p, l) == pc' = [pc EXCEPT ![p] = l]

Call(p) ==
    /\ pc[p] \in {"idle", "failed"} /\ calls < MaxCalls
    /\ calls' = calls + 1
    /\ Goto(p, "lock")
    /\ UNCHANGED <<nodeFile, privKey, pubFile, lock, node, key, returned,
                   nextNode, nextKey, interrupts, loadErrors>>

(* Mutant: the flock is shared, as LOCK_SH would be.                       *)
Lock_Shared(p) ==
    /\ pc[p] = "lock"
    /\ lock' = p
    /\ Goto(p, "node")
    /\ UNCHANGED <<nodeFile, privKey, pubFile, node, key, returned, nextNode,
                   nextKey, calls, interrupts, loadErrors>>

(* lockIdentityDir: LOCK_EX *)
Lock(p) ==
    /\ pc[p] = "lock" /\ lock = NoOne
    /\ lock' = p
    /\ Goto(p, "node")
    /\ UNCHANGED <<nodeFile, privKey, pubFile, node, key, returned, nextNode,
                   nextKey, calls, interrupts, loadErrors>>

(* loadOrCreateNodeID *)
NodeID(p) ==
    /\ pc[p] = "node"
    /\ IF nodeFile # Missing
       THEN /\ node' = [node EXCEPT ![p] = nodeFile]
            /\ UNCHANGED <<nodeFile, nextNode>>
       ELSE /\ node' = [node EXCEPT ![p] = nextNode]
            /\ nodeFile' = nextNode
            /\ nextNode' = nextNode + 1
    /\ Goto(p, "load")
    /\ UNCHANGED <<privKey, pubFile, lock, key, returned, nextKey, calls,
                   interrupts, loadErrors>>

(* Any error reading node_id.txt is taken for a missing one, too.  The      *)
(* Keychain item is named after the node id: under a new one there is none. *)
NodeReadFails(p) ==
    /\ pc[p] = "node" /\ nodeFile # Missing
    /\ loadErrors < MaxLoadErrors
    /\ loadErrors' = loadErrors + 1
    /\ node' = [node EXCEPT ![p] = nextNode]
    /\ nodeFile' = nextNode
    /\ nextNode' = nextNode + 1
    /\ privKey' = IF KeyStore = "keychain" THEN Missing ELSE privKey
    /\ Goto(p, "load")
    /\ UNCHANGED <<pubFile, lock, key, returned, nextKey, calls, interrupts>>

(* The deferred unlock. *)
Release == lock' = NoOne

Return(p, k) ==
    /\ returned' = returned \union {[node |-> node[p], key |-> k]}
    /\ Goto(p, "idle")
    /\ Release

HavePair == privKey # Missing /\ pubFile # Missing

(* Mutant: the errors of ParsePublicKey and VerifyKeyPair are dropped. *)
LoadPair_Unparsed(p) ==
    /\ pc[p] = "load"
    /\ HavePair
    /\ Return(p, pubFile)
    /\ UNCHANGED <<nodeFile, privKey, pubFile, node, key, nextNode, nextKey,
                   calls, interrupts, loadErrors>>

(* A stored pair that parses and matches is returned. *)
LoadPair(p) ==
    /\ pc[p] = "load"
    /\ HavePair /\ Torn \notin {privKey, pubFile} /\ privKey = pubFile
    /\ Return(p, privKey)
    /\ UNCHANGED <<nodeFile, privKey, pubFile, node, key, nextNode, nextKey,
                   calls, interrupts, loadErrors>>

(* Mutant: the error path misses the unlock. *)
ParseFails_KeepsLock(p) ==
    /\ pc[p] = "load"
    /\ HavePair /\ Torn \in {privKey, pubFile}
    /\ Goto(p, "failed")
    /\ UNCHANGED <<nodeFile, privKey, pubFile, lock, node, key, returned, nextNode,
                   nextKey, calls, interrupts, loadErrors>>

(* A stored key that does not parse is an error ... *)
ParseFails(p) ==
    /\ pc[p] = "load"
    /\ HavePair /\ Torn \in {privKey, pubFile}
    /\ Goto(p, "failed")
    /\ Release
    /\ UNCHANGED <<nodeFile, privKey, pubFile, node, key, returned, nextNode,
                   nextKey, calls, interrupts, loadErrors>>

(* ... and a pair that is incomplete or does not match is replaced. *)
NeedPair(p) ==
    /\ pc[p] = "load"
    /\ ~HavePair \/ (Torn \notin {privKey, pubFile} /\ privKey # pubFile)
    /\ Goto(p, "save")
    /\ UNCHANGED <<nodeFile, privKey, pubFile, lock, node, key, returned,
                   nextNode, nextKey, calls, interrupts, loadErrors>>

(* Any error of LoadPrivateKey (a locked Keychain, an I/O error) or of     *)
(* reading public.pem is taken for a missing key.                          *)
LoadFails(p) ==
    /\ pc[p] = "load" /\ HavePair
    /\ loadErrors < MaxLoadErrors
    /\ loadErrors' = loadErrors + 1
    /\ Goto(p, "save")
    /\ UNCHANGED <<nodeFile, privKey, pubFile, lock, node, key, returned,
                   nextNode, nextKey, calls, interrupts>>

(* GenerateKeyPair, SavePrivateKey *)
SavePrivate(p) ==
    /\ pc[p] = "save"
    /\ key' = [key EXCEPT ![p] = nextKey]
    /\ nextKey' = nextKey + 1
    /\ privKey' = nextKey
    /\ Goto(p, "publish")
    /\ UNCHANGED <<nodeFile, pubFile, lock, node, returned, nextNode, calls,
                   interrupts, loadErrors>>

(* Mutant: public.pem is written only if there is none. *)
SavePublic_IfMissing(p) ==
    /\ pc[p] = "publish"
    /\ pubFile' = IF pubFile = Missing THEN key[p] ELSE pubFile
    /\ Return(p, key[p])
    /\ UNCHANGED <<nodeFile, privKey, node, key, nextNode, nextKey, calls,
                   interrupts, loadErrors>>

(* os.WriteFile(pubKeyPath, ...) *)
SavePublic(p) ==
    /\ pc[p] = "publish"
    /\ pubFile' = key[p]
    /\ Return(p, key[p])
    /\ UNCHANGED <<nodeFile, privKey, node, key, nextNode, nextKey, calls,
                   interrupts, loadErrors>>

(* What SavePrivateKey leaves when it is cut short: a truncated file, or a *)
(* Keychain item that has been deleted and not added again.                *)
HalfSaved == IF KeyStore = "file" THEN Torn ELSE Missing

(* The process is killed, or a write fails and LoadOrCreate returns its    *)
(* error; what was being written may be left half saved (the first half of *)
(* a node id is a node id).  The flock goes with the descriptor.           *)
Interrupt(p) ==
    /\ pc[p] \notin {"idle", "failed"} /\ interrupts < MaxInterrupts
    /\ interrupts' = interrupts + 1
    /\ \/ UNCHANGED <<nodeFile, nextNode>>
       \/ /\ pc[p] = "node" /\ nodeFile = Missing
          /\ nodeFile' = nextNode /\ nextNode' = nextNode + 1
    /\ \/ privKey' = privKey
       \/ pc[p] = "save" /\ privKey' = HalfSaved
    /\ \/ pubFile' = pubFile
       \/ pc[p] = "publish" /\ pubFile' = Torn
    /\ lock' = IF lock = p THEN NoOne ELSE lock
    /\ Goto(p, "idle")
    /\ UNCHANGED <<node, key, returned, nextKey, calls, loadErrors>>

Run(p) ==
    \/ Lock(p) \/ NodeID(p) \/ LoadPair(p) \/ ParseFails(p) \/ NeedPair(p)
    \/ SavePrivate(p) \/ SavePublic(p)

Next ==
    \E p \in Proc : \/ Call(p) \/ Run(p)
                   \/ NodeReadFails(p) \/ LoadFails(p) \/ Interrupt(p)

Spec == Init /\ [][Next]_vars

(* A process that has entered LoadOrCreate runs on; the kernel grants the  *)
(* flock to some waiter, and calls are few.                                *)
FairSpec == Spec /\ \A p \in Proc : WF_vars(Run(p))

-----------------------------------------------------------------------------
Identities == [node : Nat, key : Nat]

(* Types; in particular an identity is returned only with a key that parses. *)
TypeOK ==
    /\ nodeFile \in Nat /\ privKey \in Int /\ pubFile \in Int
    /\ lock \in Proc \union {NoOne}
    /\ pc \in [Proc -> {"idle", "lock", "node", "load", "save", "publish", "failed"}]
    /\ node \in [Proc -> Nat] /\ key \in [Proc -> Nat]
    /\ returned \subseteq Identities
    /\ nextNode \in Nat \ {0} /\ nextKey \in Nat \ {0}
    /\ calls \in Nat /\ interrupts \in Nat /\ loadErrors \in Nat

(* Every identity ever returned is the one on disk, in all three places:   *)
(* no kill, failed write or second process between two calls replaces or   *)
(* damages an identity that somebody has been given, so the device stays   *)
(* the same device.  (While every stored key can be read.)                 *)
IdentityIsStable ==
    loadErrors = 0 =>
      \A i \in returned : nodeFile = i.node /\ privKey = i.key /\ pubFile = i.key

(* Each identity but the first was given out because a stored file could   *)
(* not be read: one failed read costs the device at most one change of     *)
(* identity, however its replacement is interrupted and by whomever it is  *)
(* taken up again.                                                         *)
ChangesAreExplained == Cardinality(returned) <= 1 + loadErrors

(* A call of LoadOrCreate returns: nobody waits for the flock for ever.    *)
EveryCallReturns ==
    \A p \in Proc : pc[p] = "lock" ~> pc[p] \in {"idle", "failed"}

(* The comment on LoadOrCreate: it "loads an existing identity from        *)
(* dataDir or generates a new one"; it does neither when a file is torn.   *)
LoadsOrGenerates == \A p \in Proc : pc[p] # "failed"
=============================================================================
