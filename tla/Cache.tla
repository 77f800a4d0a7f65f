------------------------------- MODULE Cache -------------------------------
(***************************************************************************)
(* The on-disk offline cache of internal/cache/cache.go: one JSON file per *)
(* entry, a byte counter kept in memory and mirrored in index.json.  Every *)
(* method holds c.mu, so operations never interleave with each other; what *)
(* does interleave is a crash of the process between any two system calls, *)
(* and a system call that fails.                                           *)
(*                                                                         *)
(* A file is [seq, kind, size, body].  seq stands for both the UnixNano part *)
(* of its name and its ModTime: both are read from a clock that is taken   *)
(* to advance between two pushes.  The body is "torn" when the write was   *)
(* cut short; json.Unmarshal rejects such a file.                          *)
(***************************************************************************)
EXTENDS Integers, FiniteSets

CONSTANTS
    Kinds,            \* KindMetrics, KindLogs
    Sizes,            \* the sizes an encoded entry may have
    MaxBytes,         \* Cache.maxBytes
    PopMax,           \* the max argument of PopMetrics and PopLogs
    MaxEntries,       \* bound: entries ever written
    MaxCrashes,       \* bound: crashes of the process
    MaxIOErrors       \* bound: failing system calls

ASSUME CacheConstants ==
    /\ Sizes \subseteq Nat \ {0}
    /\ MaxBytes \in Nat
    /\ PopMax \in Nat
    /\ MaxEntries \in Nat
    /\ MaxCrashes \in Nat
    /\ MaxIOErrors \in Nat

VARIABLES
    dir,              \* the entry files on disk
    index,            \* what loadIndex would read (0: absent or unreadable)
    written,          \* Cache.written, meaningful while the process is up
    pc,               \* the method in progress, and how far it got
    cur,              \* the entry being pushed: [kind, size]
    todo,             \* the files popKind has still to look at
    out,              \* the files popKind has collected
    result,           \* how the last method returned
    nextSeq,          \* the clock
    taken,            \* history: files whose body went into some out
    stale,            \* history: 1 once an exit left the index unsaved
    crashes, ioErrors \* the bounded fault counters

vars == <<dir, index, written, pc, cur, todo, out, result, nextSeq, taken,
          stale, crashes, ioErrors>>

File == [seq : Nat, kind : Kinds, size : Nat, body : {"whole", "torn"}]

(* A pushed file occupies one block per byte; the size of a directory is   *)
(* the number of blocks its files occupy.                                  *)
Blocks(d) == UNION {{f.seq} \X (1..f.size) : f \in d}
Footprint(d) == Cardinality(Blocks(d))

(* Mutant: the time comparison of dropOldest turned around.                *)
IsOldest_Reversed(f, S) == f \in S /\ \A g \in S : f.seq >= g.seq

IsOldest(f, S) == f \in S /\ \A g \in S : f.seq <= g.seq

(* Nothing has happened that may leave index.json out of date.             *)
Faultless == crashes = 0 /\ ioErrors = 0 /\ stale = 0

-----------------------------------------------------------------------------
Init ==
    /\ dir = {}
    /\ index = 0
    /\ written = 0
    /\ pc = "down"
    /\ cur = [kind |-> "none", size |-> 0]
    /\ todo = {} /\ out = {}
    /\ result = "none"
    /\ nextSeq = 0
    /\ taken = {}
    /\ stale = 0
    /\ crashes = 0 /\ ioErrors = 0

(* New: loadIndex takes the counter from index.json without looking at the *)
(* directory; a missing or unparsable index counts as 0.                   *)
New ==
    /\ pc = "down"
    /\ pc' = "idle"
    /\ written' = index
    /\ result' = "none"
    /\ UNCHANGED <<dir, index, cur, todo, out, nextSeq, taken, stale,
                   crashes, ioErrors>>

(* The process exits between two methods.  A refused push has evicted      *)
(* files without saving the index: only then does the index not survive.   *)
Stop ==
    /\ pc = "idle"
    /\ pc' = "down"
    /\ stale' = IF result = "refused" THEN 1 ELSE stale
    /\ UNCHANGED <<dir, index, written, cur, todo, out, result, nextSeq,
                   taken, crashes, ioErrors>>

-----------------------------------------------------------------------------
(* Push *)

Push(k, s) ==
    /\ pc = "idle"
    /\ nextSeq < MaxEntries
    /\ pc' = "push"
    /\ cur' = [kind |-> k, size |-> s]
    /\ result' = "none"
    /\ UNCHANGED <<dir, index, written, todo, out, nextSeq, taken, stale,
                   crashes, ioErrors>>

(* Mutant: the size of the new entry is left out of the comparison.        *)
OverBudget_NoSize == written > MaxBytes

OverBudget == written + cur.size > MaxBytes

(* Mutant: the dropped file is not uncounted.                              *)
DropOldest_NoUncount ==
    /\ pc = "push" /\ OverBudget
    /\ \E f \in dir : IsOldest(f, dir) /\ dir' = dir \ {f}
    /\ UNCHANGED <<index, written, pc, cur, todo, out, result, nextSeq, taken,
                   stale, crashes, ioErrors>>

(* dropOldest removes the file with the oldest ModTime, of either kind and *)
(* readable or not, and uncounts its size.                                 *)
DropOldest ==
    /\ pc = "push" /\ OverBudget
    /\ \E f \in dir :
         /\ IsOldest(f, dir)
         /\ dir' = dir \ {f}
         /\ written' = written - f.size
    /\ UNCHANGED <<index, pc, cur, todo, out, result, nextSeq, taken,
                   stale, crashes, ioErrors>>

(* "cache full and no file to drop": returns without saving the index.     *)
PushRefused ==
    /\ pc = "push" /\ OverBudget
    /\ dir = {}
    /\ pc' = "idle"
    /\ result' = "refused"
    /\ UNCHANGED <<dir, index, written, cur, todo, out, nextSeq, taken,
                   stale, crashes, ioErrors>>

WriteEntry ==
    /\ pc = "push" /\ ~OverBudget
    /\ dir' = dir \union {[seq |-> nextSeq, kind |-> cur.kind,
                           size |-> cur.size, body |-> "whole"]}
    /\ nextSeq' = nextSeq + 1
    /\ written' = written + cur.size
    /\ pc' = "save"
    /\ UNCHANGED <<index, cur, todo, out, result, taken, stale, crashes,
                   ioErrors>>

SaveIndex ==
    /\ pc = "save"
    /\ index' = written
    /\ pc' = "idle"
    /\ result' = "ok"
    /\ UNCHANGED <<dir, written, cur, todo, out, nextSeq, taken, stale,
                   crashes, ioErrors>>

-----------------------------------------------------------------------------
(* PopMetrics, PopLogs *)

(* os.ReadDir lists the directory once; names of the other kind are passed *)
(* over.                                                                   *)
Pop(k) ==
    /\ pc = "idle"
    /\ pc' = "pop"
    /\ todo' = {f \in dir : f.kind = k}
    /\ out' = {}
    /\ result' = "none"
    /\ UNCHANGED <<dir, index, written, cur, nextSeq, taken, stale,
                   crashes, ioErrors>>

PopDone == todo = {} \/ Cardinality(out) >= PopMax

(* Mutant: the file is handed out and counted off but the scan does not    *)
(* move on.                                                                *)
PopTake_NoAdvance ==
    /\ pc = "pop" /\ ~PopDone
    /\ \E f \in todo :
         /\ IsOldest(f, todo)
         /\ f.body = "whole"
         /\ out' = out \union {f}
         /\ taken' = taken \union {f}
         /\ dir' = dir \ {f}
         /\ written' = written - f.size
    /\ UNCHANGED <<index, pc, cur, todo, result, nextSeq, stale, crashes,
                   ioErrors>>

(* A readable file is collected and removed in the same iteration.         *)
PopTake ==
    /\ pc = "pop" /\ ~PopDone
    /\ \E f \in todo :
         /\ IsOldest(f, todo)
         /\ f.body = "whole"
         /\ out' = out \union {f}
         /\ taken' = taken \union {f}
         /\ dir' = dir \ {f}
         /\ written' = written - f.size
         /\ todo' = todo \ {f}
    /\ UNCHANGED <<index, pc, cur, result, nextSeq, stale, crashes,
                   ioErrors>>

(* Mutant: an unparsable file is retried instead of passed over.           *)
PopSkip_Retry == FALSE

(* An unparsable file is passed over and stays.                            *)
PopSkip ==
    /\ pc = "pop" /\ ~PopDone
    /\ \E f \in todo :
         /\ IsOldest(f, todo)
         /\ f.body = "torn"
         /\ todo' = todo \ {f}
    /\ UNCHANGED <<dir, index, written, pc, cur, out, result, nextSeq, taken,
                   stale, crashes, ioErrors>>

(* Mutant: the index is not saved after a pop.                             *)
PopReturn_NoSave ==
    /\ pc = "pop" /\ PopDone
    /\ pc' = "idle"
    /\ result' = "ok"
    /\ todo' = {}
    /\ UNCHANGED <<dir, index, written, cur, out, nextSeq, taken, stale,
                   crashes, ioErrors>>

PopReturn ==
    /\ pc = "pop" /\ PopDone
    /\ index' = written
    /\ pc' = "idle"
    /\ result' = "ok"
    /\ todo' = {}
    /\ UNCHANGED <<dir, written, cur, out, nextSeq, taken, stale,
                   crashes, ioErrors>>

-----------------------------------------------------------------------------
(* Failing system calls *)

IOError ==
    /\ ioErrors < MaxIOErrors
    /\ ioErrors' = ioErrors + 1

(* os.ReadFile of index.json fails inside loadIndex: New returns a cache   *)
(* that believes itself empty.                                             *)
LoadFails ==
    /\ pc = "down"
    /\ IOError
    /\ pc' = "idle"
    /\ written' = 0
    /\ result' = "none"
    /\ UNCHANGED <<dir, index, cur, todo, out, nextSeq, taken, stale, crashes>>

(* What a cut-short os.WriteFile of the entry may leave behind.            *)
Torn(n) == [seq |-> nextSeq, kind |-> cur.kind, size |-> n, body |-> "torn"]

(* os.WriteFile of the entry fails: the counter and the index stay.        *)
WriteFails ==
    /\ pc = "push" /\ ~OverBudget
    /\ IOError
    /\ \/ dir' = dir
       \/ \E n \in 0..(cur.size - 1) : dir' = dir \union {Torn(n)}
    /\ nextSeq' = nextSeq + 1
    /\ pc' = "idle"
    /\ result' = "failed"
    /\ UNCHANGED <<index, written, cur, todo, out, taken, crashes, stale>>

(* os.ReadDir fails inside dropOldest, or os.Stat for its only file: the   *)
(* push is refused.                                                        *)
ListFails ==
    /\ pc = "push" /\ OverBudget
    /\ IOError
    /\ pc' = "idle"
    /\ result' = "refused"
    /\ UNCHANGED <<dir, index, written, cur, todo, out, nextSeq, taken,
                   crashes, stale>>

(* os.Remove fails inside dropOldest: its error is dropped, the file stays *)
(* and is uncounted all the same.                                          *)
DropFails ==
    /\ pc = "push" /\ OverBudget
    /\ IOError
    /\ \E f \in dir : IsOldest(f, dir) /\ written' = written - f.size
    /\ UNCHANGED <<dir, index, pc, cur, todo, out, result, nextSeq, taken,
                   crashes, stale>>

(* os.Stat fails for one file in the scan of dropOldest: that file is      *)
(* passed over, the oldest of the others goes.                             *)
StatFails ==
    /\ pc = "push" /\ OverBudget
    /\ IOError
    /\ \E g \in dir : \E f \in dir \ {g} :
         /\ IsOldest(f, dir \ {g})
         /\ dir' = dir \ {f}
         /\ written' = written - f.size
    /\ UNCHANGED <<index, pc, cur, todo, out, result, nextSeq, taken,
                   crashes, stale>>

(* os.Stat of the chosen file fails: the file is removed all the same, and *)
(* info.Size() of a nil info panics before it is uncounted.  The caller's  *)
(* recover ends its goroutine; the deferred Unlock has run.                *)
DropPanics ==
    /\ pc = "push" /\ OverBudget
    /\ IOError
    /\ \E f \in dir : IsOldest(f, dir) /\ dir' = dir \ {f}
    /\ pc' = "idle"
    /\ result' = "failed"
    /\ UNCHANGED <<index, written, cur, todo, out, nextSeq, taken, crashes,
                   stale>>

(* Writing index.json fails: untouched, or already truncated.  Push returns*)
(* the error, popKind drops it.                                            *)
SaveFails ==
    /\ pc = "save" \/ (pc = "pop" /\ PopDone)
    /\ IOError
    /\ index' \in {index, 0}
    /\ pc' = "idle"
    /\ result' = IF pc = "save" THEN "failed" ELSE "ok"
    /\ todo' = {}
    /\ UNCHANGED <<dir, written, cur, out, nextSeq, taken, crashes, stale>>

(* os.ReadDir fails inside popKind: nothing is handed out or saved.        *)
PopListFails ==
    /\ pc = "idle"
    /\ IOError
    /\ out' = {}
    /\ result' = "failed"
    /\ UNCHANGED <<dir, index, written, pc, cur, todo, nextSeq, taken, stale,
                   crashes>>

(* os.ReadFile fails inside popKind: the file is passed over.              *)
PopReadFails ==
    /\ pc = "pop" /\ ~PopDone
    /\ IOError
    /\ \E f \in todo : IsOldest(f, todo) /\ todo' = todo \ {f}
    /\ UNCHANGED <<dir, index, written, pc, cur, out, result, nextSeq, taken,
                   crashes, stale>>

(* os.Remove fails inside popKind: the file is handed out and stays.       *)
PopRemoveFails ==
    /\ pc = "pop" /\ ~PopDone
    /\ IOError
    /\ \E f \in todo :
         /\ IsOldest(f, todo)
         /\ f.body = "whole"
         /\ out' = out \union {f}
         /\ taken' = taken \union {f}
         /\ written' = written - f.size
         /\ todo' = todo \ {f}
    /\ UNCHANGED <<dir, index, pc, cur, result, nextSeq, crashes, stale>>

(* The process dies between two system calls or inside os.WriteFile, which *)
(* truncates before it writes: the entry may be torn, the index emptied.   *)
Crash ==
    /\ pc # "down"
    /\ crashes < MaxCrashes
    /\ crashes' = crashes + 1
    /\ \/ dir' = dir
       \/ /\ pc = "push" /\ ~OverBudget
          /\ \E n \in 0..(cur.size - 1) : dir' = dir \union {Torn(n)}
    /\ \/ index' = index
       \/ (pc = "save" \/ (pc = "pop" /\ PopDone)) /\ index' = 0
    /\ nextSeq' = IF dir' = dir THEN nextSeq ELSE nextSeq + 1
    /\ pc' = "down"
    /\ todo' = {} /\ out' = {}
    /\ UNCHANGED <<written, cur, result, taken, ioErrors, stale>>

-----------------------------------------------------------------------------
(* The steps a running method takes by itself. *)
Step ==
    \/ DropOldest \/ PushRefused \/ WriteEntry \/ SaveIndex
    \/ PopTake \/ PopSkip \/ PopReturn

Fault ==
    \/ LoadFails
    \/ WriteFails \/ ListFails \/ DropFails \/ StatFails \/ DropPanics \/ SaveFails
    \/ PopListFails \/ PopReadFails \/ PopRemoveFails \/ Crash

Next ==
    \/ New \/ Stop
    \/ \E k \in Kinds, s \in Sizes : Push(k, s)
    \/ \E k \in Kinds : Pop(k)
    \/ Step
    \/ Fault

Spec == Init /\ [][Next]_vars

(* A goroutine inside a method of the cache never waits: its next system   *)
(* call returns.                                                           *)
FairSpec == Spec /\ WF_vars(Step)

-----------------------------------------------------------------------------
(* Types; in particular popKind looks only at files that are still there.  *)
TypeOK ==
    /\ dir \subseteq File
    /\ index \in Int /\ written \in Int
    /\ pc \in {"down", "idle", "push", "save", "pop"}
    /\ cur \in [kind : Kinds \union {"none"}, size : Nat]
    /\ pc = "push" => cur.kind \in Kinds
    /\ todo \subseteq dir /\ (pc # "pop" => todo = {})
    /\ out \subseteq File /\ taken \subseteq File
    /\ result \in {"none", "ok", "refused", "failed"}
    /\ nextSeq \in Nat
    /\ stale \in {0, 1}
    /\ crashes \in Nat /\ ioErrors \in Nat

(* The counter, in memory and on disk, never exceeds the limit, whatever   *)
(* fails (the loop at the head of Push); and while nothing has failed the  *)
(* bytes really on disk do not either.                                     *)
Bounded ==
    /\ pc # "down" => written <= MaxBytes
    /\ index <= MaxBytes
    /\ Faultless => Footprint(dir) <= MaxBytes

(* Until something fails the counter is the size of the directory at every *)
(* point of every method, and the saved index equals it whenever no method *)
(* is in progress (a refused push excepted): no path through Push, popKind *)
(* or dropOldest forgets to count, to uncount or to save.                  *)
ExactAccounting ==
    Faultless =>
      /\ pc # "down" => written = Footprint(dir)
      /\ pc \in {"down", "idle"} /\ result # "refused" => index = Footprint(dir)

(* Push reports "cache full and no file to drop" only for an entry larger  *)
(* than the whole cache, until a fault makes the counter stale.            *)
RefusalJustified ==
    result = "refused" /\ Faultless => cur.size > MaxBytes

(* The whole files, and those popKind has passed over while it goes on.    *)
Items == {f \in dir : f.body = "whole"}
Passed == {g \in Items \ todo : \E f \in todo : f.kind = g.kind}

(* The cache implements the abstract store: oldest first per kind, nothing *)
(* handed out twice or brought back, across crashes at any point, and no   *)
(* failing system call does more harm than the store says: one file that   *)
(* could not be looked at is passed over by that eviction or pop, one that *)
(* could not be removed is handed out and kept.                            *)
Store == INSTANCE OfflineStore WITH items <- Items, passed <- Passed,
                                    failures <- ioErrors

StoreSpec == Store!Spec

(* No method of the cache runs forever with c.mu held: the eviction loop   *)
(* of Push and the scan of popKind end.                                    *)
EveryCallReturns == pc \in {"push", "save", "pop"} ~> pc \in {"idle", "down"}

(* What the comment on Push and TestMaxSize say of the disk: entries never *)
(* take more than maxBytes.                                                *)
DiskWithinBudget == Footprint(dir) <= MaxBytes
=============================================================================
