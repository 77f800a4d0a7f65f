---------------------------- MODULE OfflineStore ----------------------------
(***************************************************************************)
(* What the local offline cache (internal/cache) promises its callers,     *)
(* told without files, counters or an index: a set of dated items of which *)
(* the oldest may be evicted at any time, and from which the oldest items  *)
(* of a kind are taken, once.  The promise is weaker only where an         *)
(* operation of the file system fails: one entry that could not be looked  *)
(* at is passed over by that push or pop, one that could not be removed is *)
(* handed out and kept.  Module Cache implements it entry by entry, module *)
(* TelemetryStore says that Telemetry uses it, call by call.               *)
(***************************************************************************)
EXTENDS Integers

CONSTANT Kinds        \* the kinds of entries (KindMetrics, KindLogs)

VARIABLES
    items,            \* the entries held, records with fields seq and kind
    taken,            \* history: the entries handed out by a pop
    passed,           \* entries the present pop has passed over
    failures          \* operations that have failed

vars == <<items, taken, passed, failures>>

(* The sets of oldest entries of S, from none to all.                      *)
OldEnds(S) == {old \in SUBSET S : \A f \in old, g \in S \ old : f.seq < g.seq}

OfKind(S, k) == {f \in S : f.kind = k}

AtMostOne(S) == {over \in SUBSET S : \A f, g \in over : f = g}

Init ==
    /\ items = {}
    /\ taken = {}
    /\ passed = {}
    /\ failures = 0

-----------------------------------------------------------------------------
(* A new entry is younger than everything ever held or handed out.         *)
Youngest(f) == f.kind \in Kinds /\ \A g \in items \union taken : g.seq < f.seq

(* Room is made only at the old end, whatever the kind, and perhaps used;  *)
(* the entries of over are not seen.                                       *)
MakeRoom(over) ==
    /\ \E old \in OldEnds(items \ over) :
         \/ items' = items \ old
         \/ \E f \in items' \ items : Youngest(f) /\ items' = (items \ old) \union {f}
    /\ UNCHANGED taken

(* The oldest entries of a kind are handed out and held no longer, except  *)
(* those that stick.                                                       *)
HandOut(k, over, stuck) ==
    \E old \in OldEnds(OfKind(items, k) \ (passed \union over)) :
      /\ items' = items \ (old \ stuck)
      /\ taken' = taken \union old

(* Only a failure makes a pop pass an entry over. *)
Works == passed' \subseteq passed /\ UNCHANGED failures

Push == MakeRoom({}) /\ Works
Pop(k) == HandOut(k, {}, {}) /\ Works

(* One operation fails: it costs no entry that would not have gone, one    *)
(* entry at most is passed over, and only one handed out and yet kept.     *)
Fail ==
    /\ failures' = failures + 1
    /\ \E over \in AtMostOne(items) :
         /\ passed' \subseteq passed \union over
         /\ \/ MakeRoom(over)
            \/ \E k \in Kinds : HandOut(k, over, {}) \/ HandOut(k, {}, over)

Next == Push \/ (\E k \in Kinds : Pop(k)) \/ Fail

Spec == Init /\ [][Next]_vars
=============================================================================
