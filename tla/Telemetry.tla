----------------------------- MODULE Telemetry -----------------------------
(***************************************************************************)
(* The telemetry pipeline of cmd/agent/main.go: the metrics goroutine with *)
(* its queue, the logs goroutine with the ring buffer of pkg/logger, and   *)
(* the recovery goroutine that runs once per start, all uploading through  *)
(* client.Post and sharing the offline cache.  The cache is used through   *)
(* its promise (module OfflineStore): entries have no sizes here, so that  *)
(* any number of the oldest may have to go for a new one.  Bytes, counter  *)
(* and index, and a crash inside a method, are the subject of Cache.       *)
(***************************************************************************)
EXTENDS Integers, Sequences, FiniteSets, Functions

CONSTANTS
    MetricBatch,      \* cfg.Metrics.BatchSize
    LogBatch,         \* cfg.Logs.BatchSize (0: drain everything)
    RingMax,          \* logger.maxEntries
    PopMax,           \* the 100 of PopMetrics(100) and PopLogs(100)
    Attempts,         \* Retry.MaxAttempts
    MaxMetrics,       \* bound: metrics ever collected
    MaxLogs,          \* bound: log entries ever buffered
    MaxStarts,        \* bound: starts of the process
    MaxFaults         \* bound: crashes, panics, lost replies, failing calls of
                      \* the cache and entries that do not unmarshal

ASSUME TelemetryConstants ==
    /\ MetricBatch \in Nat /\ LogBatch \in Nat
    /\ RingMax \in Nat \ {0} /\ PopMax \in Nat
    /\ Attempts \in Nat \ {0}
    /\ MaxMetrics \in Nat /\ MaxLogs \in Nat
    /\ MaxStarts \in Nat /\ MaxFaults \in Nat

Item == {<<"metrics", n>> : n \in 1..MaxMetrics}
        \union {<<"logs", n>> : n \in 1..MaxLogs}

Goroutine == {"metrics", "logs", "recovery"}

VARIABLES
    proc,             \* "down", "up", "stopping" (after cancel())
    cached,           \* does this process have a cache (c != nil)?
    queue,            \* metricQueue
    first,            \* firstMetricsUploaded
    ring,             \* logger.entries, oldest first
    pc,               \* where each goroutine is
    batch,            \* what each goroutine is uploading or caching
    tries,            \* attempts Post has made for it
    store,            \* the entries in the cache, oldest first
    made,             \* how many items of each stream exist so far
    starts, faults,   \* the bounded counters
    delivered,        \* history: how often the server applied each item
    unknown,          \* history: how often it did and the reply was lost
    givenUp,          \* history: items dropped where the code drops them
    kept              \* history: items popped whose file could not be removed

vars == <<proc, cached, queue, first, ring, pc, batch, tries, store, made,
          starts, faults, delivered, unknown, givenUp, kept>>

Elems(s) == {s[i] : i \in 1..Len(s)}

Volatile ==
    Elems(queue) \union Elems(ring) \union UNION {Elems(batch[g]) : g \in Goroutine}

-----------------------------------------------------------------------------
Init ==
    /\ proc = "down"
    /\ cached = TRUE
    /\ queue = <<>> /\ first = FALSE
    /\ ring = <<>>
    /\ pc = [g \in Goroutine |-> "done"]
    /\ batch = [g \in Goroutine |-> <<>>]
    /\ tries = [g \in Goroutine |-> 0]
    /\ store = <<>>
    /\ made = [metrics |-> 0, logs |-> 0]
    /\ starts = 0 /\ faults = 0
    /\ delivered = [i \in Item |-> 0]
    /\ unknown = [i \in Item |-> 0]
    /\ givenUp = {} /\ kept = {}

Fault == faults < MaxFaults /\ faults' = faults + 1

(* runAgent: when cache.New fails (os.MkdirAll) the agent runs without a   *)
(* cache.                                                                  *)
Start ==
    /\ proc = "down" /\ starts < MaxStarts
    /\ proc' = "up"
    /\ starts' = starts + 1
    /\ \/ cached' = TRUE /\ UNCHANGED faults
       \/ cached' = FALSE /\ Fault
    /\ first' = FALSE
    /\ pc' = [metrics |-> "wait", logs |-> "wait",
              recovery |-> IF cached' THEN "sleep" ELSE "done"]
    /\ UNCHANGED <<queue, ring, batch, tries, store, made, delivered, unknown,
                   givenUp, kept>>

(* The process ends and takes its memory with it. *)
Die ==
    /\ proc' = "down"
    /\ givenUp' = givenUp \union Volatile
    /\ queue' = <<>> /\ ring' = <<>>
    /\ pc' = [g \in Goroutine |-> "done"]
    /\ batch' = [g \in Goroutine |-> <<>>]
    /\ tries' = [g \in Goroutine |-> 0]
    /\ UNCHANGED <<cached, first, store, made, starts, delivered, unknown, kept>>

(* A kill, or the os.Exit(1) of handleCredentialRevoked. *)
Crash == proc # "down" /\ Fault /\ Die

(* SIGTERM: cancel(); the goroutines notice when they next select.         *)
Sigterm ==
    /\ proc = "up"
    /\ proc' = "stopping"
    /\ UNCHANGED <<cached, queue, first, ring, pc, batch, tries, store, made,
                   starts, faults, delivered, unknown, givenUp, kept>>

(* wg.Wait() returns and runAgent does. *)
Exit ==
    /\ proc = "stopping"
    /\ \A g \in Goroutine : pc[g] = "done"
    /\ Die
    /\ UNCHANGED faults

-----------------------------------------------------------------------------
(* logger.buffer, called by any goroutine at any time. *)
Log ==
    LET i == <<"logs", made.logs + 1>>
        full == Len(ring) >= RingMax
    IN  /\ proc # "down" /\ made.logs < MaxLogs
        /\ made' = [made EXCEPT !.logs = @ + 1]
        /\ ring' = Append(IF full THEN Tail(ring) ELSE ring, i)
        /\ givenUp' = IF full THEN givenUp \union {Head(ring)} ELSE givenUp
        /\ UNCHANGED <<proc, cached, queue, first, pc, batch, tries, store,
                       starts, faults, delivered, unknown, kept>>

(* One tick of the metrics goroutine: collect, queue, and upload when the  *)
(* batch is full or nothing has been uploaded yet.  The queue moves into   *)
(* batch, where the code keeps it until metricQueue[:0].                   *)
MetricsTick ==
    LET q == Append(queue, <<"metrics", made.metrics + 1>>)
    IN  /\ pc["metrics"] = "wait" /\ made.metrics < MaxMetrics
        /\ made' = [made EXCEPT !.metrics = @ + 1]
        /\ IF Len(q) >= MetricBatch \/ ~first
           THEN /\ queue' = <<>>
                /\ batch' = [batch EXCEPT !["metrics"] = q]
                /\ pc' = [pc EXCEPT !["metrics"] = "post"]
           ELSE /\ queue' = q
                /\ UNCHANGED <<batch, pc>>
        /\ UNCHANGED <<proc, cached, first, ring, tries, store, starts,
                       faults, delivered, unknown, givenUp, kept>>

(* Mutant: the return is inside the if, so an empty queue never leaves.    *)
MetricsDone_OnlyIfQueued ==
    /\ pc["metrics"] = "wait" /\ proc = "stopping"
    /\ queue # <<>>
    /\ queue' = <<>>
    /\ batch' = [batch EXCEPT !["metrics"] = queue]
    /\ pc' = [pc EXCEPT !["metrics"] = "last"]
    /\ UNCHANGED <<proc, cached, first, ring, tries, store, made, starts,
                   faults, delivered, unknown, givenUp, kept>>

(* ctx.Done in the metrics goroutine: one last upload. *)
MetricsDone ==
    /\ pc["metrics"] = "wait" /\ proc = "stopping"
    /\ queue' = <<>>
    /\ batch' = [batch EXCEPT !["metrics"] = queue]
    /\ pc' = [pc EXCEPT !["metrics"] = IF queue = <<>> THEN "done" ELSE "last"]
    /\ UNCHANGED <<proc, cached, first, ring, tries, store, made, starts,
                   faults, delivered, unknown, givenUp, kept>>

(* logger.DrainEntries *)
DrainCount ==
    IF LogBatch = 0 \/ Len(ring) <= LogBatch THEN Len(ring) ELSE LogBatch

(* Mutant: the buffer is emptied although only max entries are returned.   *)
Drain_Clears(next) ==
    /\ pc["logs"] = "wait"
    /\ batch' = [batch EXCEPT !["logs"] = SubSeq(ring, 1, DrainCount)]
    /\ ring' = <<>>
    /\ pc' = [pc EXCEPT !["logs"] = next]
    /\ UNCHANGED <<proc, cached, queue, first, tries, store, made, starts,
                   faults, delivered, unknown, givenUp, kept>>

Drain(next) ==
    /\ pc["logs"] = "wait"
    /\ batch' = [batch EXCEPT !["logs"] = SubSeq(ring, 1, DrainCount)]
    /\ ring' = SubSeq(ring, DrainCount + 1, Len(ring))
    /\ pc' = [pc EXCEPT !["logs"] = next]
    /\ UNCHANGED <<proc, cached, queue, first, tries, store, made, starts,
                   faults, delivered, unknown, givenUp, kept>>

LogsTick == ring # <<>> /\ Drain("post")

LogsDone ==
    /\ proc = "stopping"
    /\ Drain(IF ring = <<>> THEN "done" ELSE "last")

(* P is a set of places of the cache; Entries(P) is what is there, oldest  *)
(* first.                                                                  *)
UpTo(P, i) == {j \in P : j <= i}
Entries(P) ==
    [n \in 1..Cardinality(P) |-> store[CHOOSE i \in P : Cardinality(UpTo(P, i)) = n]]
At(P) == {store[i] : i \in P}

Places == 1..Len(store)
AtMostOne(P) == {Q \in SUBSET P : \A i, j \in Q : i = j}

(* What popKind collects: the oldest PopMax entries of the kind, without   *)
(* those it could not read.                                                *)
OfKind(k) == {i \in Places : store[i][1] = k}
Oldest(k, over) ==
    LET seen == OfKind(k) \ over
    IN  {i \in seen : Cardinality(UpTo(seen, i)) <= PopMax}

(* popKind hands out what is at out.  It is gone from the cache before it  *)
(* is uploaded, except what is at stuck; what is at bad does not unmarshal *)
(* in runAgent and is dropped.                                             *)
HandOut(here, next, out, stuck, bad) ==
    /\ pc["recovery"] = here
    /\ batch' = [batch EXCEPT !["recovery"] = Entries(out \ bad)]
    /\ store' = Entries(Places \ (out \ stuck))
    /\ kept' = kept \union At(stuck)
    /\ givenUp' = givenUp \union At(bad)
    /\ pc' = [pc EXCEPT !["recovery"] = IF out \ bad = {} THEN next ELSE "post"]
    /\ UNCHANGED <<proc, cached, queue, first, ring, tries, made, starts,
                   delivered, unknown>>

(* Mutant: the entries stay in the cache after the pop.                    *)
RecoverKind_Peek(k, here, next) ==
    /\ pc["recovery"] = here
    /\ batch' = [batch EXCEPT !["recovery"] = Entries(Oldest(k, {}))]
    /\ pc' = [pc EXCEPT !["recovery"] = IF Oldest(k, {}) = {} THEN next ELSE "post"]
    /\ UNCHANGED <<proc, cached, queue, first, ring, tries, store, made, starts,
                   faults, delivered, unknown, givenUp, kept>>

RecoverKind(k, here, next) ==
    /\ HandOut(here, next, Oldest(k, {}), {}, {})
    /\ UNCHANGED faults

(* One entry cannot be read and is passed over; or its os.Remove fails,    *)
(* which popKind ignores; or its body is not of the type runAgent expects. *)
RecoverAstray(k, here, next) ==
    /\ Fault
    /\ \E odd \in AtMostOne(OfKind(k)) :
         \/ HandOut(here, next, Oldest(k, odd), {}, {})
         \/ HandOut(here, next, Oldest(k, {}), odd \intersect Oldest(k, {}), {})
         \/ HandOut(here, next, Oldest(k, {}), {}, odd \intersect Oldest(k, {}))

(* The recovery goroutine: metrics, then logs, once; it never looks at ctx. *)
RecoverMetrics == RecoverKind("metrics", "sleep", "popLogs")
RecoverLogs == RecoverKind("logs", "popLogs", "done")
PopAstray ==
    \/ RecoverAstray("metrics", "sleep", "popLogs")
    \/ RecoverAstray("logs", "popLogs", "done")

(* os.ReadDir fails inside popKind: the error is logged and the kind left. *)
PopFails ==
    /\ pc["recovery"] \in {"sleep", "popLogs"} /\ Fault
    /\ pc' = [pc EXCEPT !["recovery"] = IF @ = "sleep" THEN "popLogs" ELSE "done"]
    /\ UNCHANGED <<proc, cached, queue, first, ring, batch, tries, store, made,
                   starts, delivered, unknown, givenUp, kept>>

-----------------------------------------------------------------------------
(* Where a goroutine goes when it is through with its batch. *)
After(g) ==
    CASE g # "recovery" -> "wait"
      [] g = "recovery" /\ batch[g][1][1] = "metrics" -> "popLogs"
      [] OTHER -> "done"

Posting(g) == pc[g] \in {"post", "last"}

Applied(g, f) == [i \in Item |-> IF i \in Elems(batch[g]) THEN f[i] + 1 ELSE f[i]]

(* Mutant: the queue is reset on the error path only.                      *)
PostSucceeds_KeepsQueue(g) ==
    /\ Posting(g)
    /\ delivered' = Applied(g, delivered)
    /\ first' = (first \/ (g = "metrics" /\ pc[g] = "post"))
    /\ queue' = IF g = "metrics" THEN batch[g] ELSE queue
    /\ batch' = [batch EXCEPT ![g] = <<>>]
    /\ tries' = [tries EXCEPT ![g] = 0]
    /\ pc' = [pc EXCEPT ![g] = IF pc[g] = "last" THEN "done" ELSE After(g)]
    /\ UNCHANGED <<proc, cached, ring, store, made, starts, faults, unknown,
                   givenUp, kept>>

(* postOnce succeeds: the server has the batch and Post returns nil.       *)
PostSucceeds(g) ==
    /\ Posting(g)
    /\ delivered' = Applied(g, delivered)
    /\ first' = (first \/ (g = "metrics" /\ pc[g] = "post"))
    /\ batch' = [batch EXCEPT ![g] = <<>>]
    /\ tries' = [tries EXCEPT ![g] = 0]
    /\ pc' = [pc EXCEPT ![g] = IF pc[g] = "last" THEN "done" ELSE After(g)]
    /\ UNCHANGED <<proc, cached, queue, ring, store, made, starts, faults,
                   unknown, givenUp, kept>>

(* Mutant: one attempt too many (attempt <= attempts).                     *)
AttemptFailed_OneMore(g) ==
    IF tries[g] < Attempts
    THEN /\ tries' = [tries EXCEPT ![g] = @ + 1]
         /\ UNCHANGED <<pc, batch, givenUp>>
    ELSE /\ tries' = [tries EXCEPT ![g] = 0]
         /\ pc' = [pc EXCEPT ![g] = IF @ = "last" THEN "done" ELSE After(g)]
         /\ batch' = [batch EXCEPT ![g] = <<>>]
         /\ givenUp' = givenUp \union Elems(batch[g])

(* An attempt has failed: try again, or return the error, upon which the   *)
(* batch goes to the cache, or nowhere at shutdown and without a cache.    *)
AttemptFailed(g) ==
    IF tries[g] + 1 < Attempts
    THEN /\ tries' = [tries EXCEPT ![g] = @ + 1]
         /\ UNCHANGED <<pc, batch, givenUp>>
    ELSE /\ tries' = [tries EXCEPT ![g] = 0]
         /\ IF pc[g] = "post" /\ cached
            THEN /\ pc' = [pc EXCEPT ![g] = "cache"]
                 /\ UNCHANGED <<batch, givenUp>>
            ELSE /\ pc' = [pc EXCEPT ![g] = IF @ = "last" THEN "done" ELSE After(g)]
                 /\ batch' = [batch EXCEPT ![g] = <<>>]
                 /\ givenUp' = givenUp \union Elems(batch[g])

(* The request did not get through, or the server answered an error code.  *)
PostFails(g) ==
    /\ Posting(g)
    /\ AttemptFailed(g)
    /\ UNCHANGED <<proc, cached, queue, first, ring, store, made, starts,
                   faults, delivered, unknown, kept>>

(* The server applied the batch; the reply timed out or did not parse.     *)
ReplyLost(g) ==
    /\ Posting(g)
    /\ Fault
    /\ delivered' = Applied(g, delivered)
    /\ unknown' = Applied(g, unknown)
    /\ AttemptFailed(g)
    /\ UNCHANGED <<proc, cached, queue, first, ring, store, made, starts, kept>>

(* The places that dropOldest may have emptied when it does not see those  *)
(* in over: the oldest of the others, none to all.                         *)
OldEnds(over) ==
    LET seen == Places \ over
    IN  {old \in SUBSET seen : \A i \in old, j \in seen \ old : i < j}

(* The loop over the batch after an error, one Push at a time. *)
Rest(g) ==
    /\ pc[g] = "cache"
    /\ batch' = [batch EXCEPT ![g] = Tail(@)]
    /\ pc' = [pc EXCEPT ![g] = IF Len(batch[g]) = 1 THEN After(g) ELSE @]
    /\ UNCHANGED <<proc, cached, queue, first, ring, tries, made, starts,
                   delivered, unknown, kept>>

Stored(g, old) ==
    /\ store' = Append(Entries(Places \ old), Head(batch[g]))
    /\ givenUp' = givenUp \union At(old)

Refused(g, old) ==
    /\ store' = Entries(Places \ old)
    /\ givenUp' = givenUp \union At(old) \union {Head(batch[g])}

PushNext(g) ==
    /\ Rest(g)
    /\ \E old \in OldEnds({}) : Stored(g, old)
    /\ UNCHANGED faults

(* os.Stat fails for one entry in the scan of dropOldest. *)
PushPassesOver(g) ==
    /\ Rest(g) /\ Fault
    /\ \E over \in AtMostOne(Places) : \E old \in OldEnds(over) : Stored(g, old)

(* _ = c.Push(...): the error is dropped, and so is the item; entries may  *)
(* have been evicted for it.  (When only saveIndex fails the entry is      *)
(* there: PushNext.)                                                       *)
PushRefused(g) ==
    /\ Rest(g) /\ Fault
    /\ \E over \in AtMostOne(Places) : \E old \in OldEnds(over) : Refused(g, old)

(* A panic is recovered at the top of the goroutine, which ends there;     *)
(* that of dropOldest comes when it has removed an entry.                  *)
PanicAt(g, old) ==
    /\ pc[g] # "done" /\ (old = {} \/ pc[g] = "cache")
    /\ Fault
    /\ pc' = [pc EXCEPT ![g] = "done"]
    /\ batch' = [batch EXCEPT ![g] = <<>>]
    /\ tries' = [tries EXCEPT ![g] = 0]
    /\ queue' = IF g = "metrics" THEN <<>> ELSE queue
    /\ store' = Entries(Places \ old)
    /\ givenUp' = givenUp \union At(old) \union Elems(batch[g])
                  \union (IF g = "metrics" THEN Elems(queue) ELSE {})
    /\ UNCHANGED <<proc, cached, first, ring, made, starts, delivered, unknown,
                   kept>>

Panic(g) == \E old \in OldEnds({}) : PanicAt(g, old)

Upload(g) ==
    \/ PostSucceeds(g) \/ PostFails(g) \/ ReplyLost(g)
    \/ PushNext(g) \/ PushPassesOver(g) \/ PushRefused(g)

Next ==
    \/ Start \/ Crash \/ Sigterm \/ Exit
    \/ Log
    \/ MetricsTick \/ MetricsDone
    \/ LogsTick \/ LogsDone
    \/ RecoverMetrics \/ RecoverLogs \/ PopFails \/ PopAstray
    \/ \E g \in Goroutine : Upload(g) \/ Panic(g)

Spec == Init /\ [][Next]_vars

(* Each goroutine goes on: HTTP requests end (the client has a timeout), a *)
(* select whose ctx.Done is ready is left through it in the end, sleeps    *)
(* end; and wg.Wait() returns.                                             *)
GoesOn(g) ==
    \/ Upload(g)
    \/ g = "metrics" /\ MetricsDone
    \/ g = "logs" /\ LogsDone
    \/ g = "recovery" /\ (RecoverMetrics \/ RecoverLogs)

Fairness == WF_vars(Exit) /\ \A g \in Goroutine : WF_vars(GoesOn(g))

FairSpec == Spec /\ Fairness

-----------------------------------------------------------------------------
(* Types; a goroutine has a batch exactly while it uploads or caches it,   *)
(* and ring and number of attempts keep to their limits.                   *)
TypeOK ==
    /\ proc \in {"down", "up", "stopping"}
    /\ cached \in BOOLEAN /\ first \in BOOLEAN
    /\ queue \in Seq(Item) /\ ring \in Seq(Item) /\ store \in Seq(Item)
    /\ pc \in [Goroutine -> {"wait", "sleep", "popLogs", "post", "last", "cache", "done"}]
    /\ batch \in [Goroutine -> Seq(Item)]
    /\ \A g \in Goroutine : batch[g] # <<>> <=> pc[g] \in {"post", "last", "cache"}
    /\ tries \in [Goroutine -> 0..(Attempts - 1)]
    /\ Len(ring) <= RingMax
    /\ delivered \in [Item -> Nat] /\ unknown \in [Item -> Nat]
    /\ givenUp \subseteq Item /\ kept \subseteq Item

Made(i) == i[2] <= made[i[1]]

(* Nothing vanishes: every metric collected and every log line buffered is *)
(* with the server, in memory, in the cache, or was dropped at one of the  *)
(* places where the code drops items knowingly (ring full, cache making    *)
(* room or refusing, no cache, last upload failed, a popped entry that     *)
(* does not unmarshal, panic, end of the process).                         *)
NothingVanishes ==
    \A i \in Item : Made(i) =>
      delivered[i] > 0 \/ i \in Volatile \union Elems(store) \union givenUp

(* One owner: no item is in two of queue, ring, batches and cache, or      *)
(* twice in one, so that the recovery and the uploading goroutines never   *)
(* send the same item independently.  The one exception is an entry whose  *)
(* file popKind could not remove: os.Remove's error is ignored there.      *)
OneOwner ==
    LET held == queue \o ring \o batch["metrics"] \o batch["logs"]
                \o batch["recovery"] \o store
    IN  \A m, n \in DOMAIN held : held[m] = held[n] => m = n \/ held[m] \in kept

(* The server applies an item twice only if it lost the reply in between,  *)
(* or popKind could not remove the item's file: retries, caching and       *)
(* recovery after a clean error never duplicate.                           *)
DuplicateOnlyAfterLostReply ==
    \A i \in Item \ kept : delivered[i] <= unknown[i] + 1

(* What the comment on PopMetrics says: a popped entry is deleted after    *)
(* its report.  A process that ends before has left it in the cache.       *)
DeletedAfterReport ==
    [][proc' = "down" =>
         \A i \in Elems(batch["recovery"]) : delivered'[i] > 0 \/ i \in Elems(store')]_vars

(* After SIGTERM the agent exits, however the server behaves.              *)
StopsAfterSigterm == proc = "stopping" ~> proc = "down"
=============================================================================
