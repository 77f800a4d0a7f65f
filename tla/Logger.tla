------------------------------- MODULE Logger -------------------------------
(***************************************************************************)
(* pkg/logger/logger.go: buffer, which every goroutine of the agent calls  *)
(* to keep a line for upload, and DrainEntries, which the logs goroutine   *)
(* calls.  buffer takes its sequence number before the mutex, so that      *)
(* another line may get in between; a line is its sequence number.         *)
(* Telemetry has the same buffer with whole calls as steps.                *)
(***************************************************************************)
EXTENDS Naturals, Sequences, FiniteSets, SequencesExt

CONSTANTS
    Caller,           \* goroutines that log
    RingMax,          \* maxEntries
    Batch,            \* cfg.Logs.BatchSize: the max of DrainEntries
    MaxLines          \* bound: lines ever logged

ASSUME LoggerConstants ==
    /\ RingMax \in Nat \ {0} /\ Batch \in Nat /\ MaxLines \in Nat

VARIABLES
    sequence,         \* the atomic counter
    entries,          \* the buffer, oldest first
    held,             \* per caller: the number it has taken, 0 outside buffer
    drained,          \* history: what DrainEntries has returned, in order
    buffered,         \* history: the lines in the order they were appended
    before            \* history: per line, the calls that had returned when
                      \* its own call began

vars == <<sequence, entries, held, drained, buffered, before>>

Line == 1..MaxLines
At(s, n) == CHOOSE i \in DOMAIN s : s[i] = n
Returned == ToSet(buffered)
Dropped == Returned \ (ToSet(drained) \union ToSet(entries))

Init ==
    /\ sequence = 0
    /\ entries = <<>>
    /\ held = [g \in Caller |-> 0]
    /\ drained = <<>> /\ buffered = <<>>
    /\ before = [n \in Line |-> {}]

(* buffer: atomic.AddInt64.                                       *)
TakeSequence(g) ==
    /\ held[g] = 0 /\ sequence < MaxLines
    /\ sequence' = sequence + 1
    /\ held' = [held EXCEPT ![g] = sequence + 1]
    /\ before' = [before EXCEPT ![sequence + 1] = Returned]
    /\ UNCHANGED <<entries, drained, buffered>>

(* buffer under the mutex: the oldest line makes room for the new one.     *)
Room(s) == IF Len(s) >= RingMax THEN Tail(s) ELSE s

(* Mutant: the line goes to the front of the buffer.                       *)
AppendLine_Front(g) ==
    /\ held[g] # 0
    /\ entries' = <<held[g]>> \o Room(entries)
    /\ buffered' = Append(buffered, held[g])
    /\ held' = [held EXCEPT ![g] = 0]
    /\ UNCHANGED <<sequence, drained, before>>

(* buffer: the append, and the unlock.                                     *)
AppendLine(g) ==
    /\ held[g] # 0
    /\ entries' = Append(Room(entries), held[g])
    /\ buffered' = Append(buffered, held[g])
    /\ held' = [held EXCEPT ![g] = 0]
    /\ UNCHANGED <<sequence, drained, before>>

(* Mutant: less than a batch is not drained.                               *)
DrainEntries_FullBatch ==
    /\ Len(entries) >= Batch /\ entries # <<>>
    /\ drained' = drained \o entries
    /\ entries' = <<>>
    /\ UNCHANGED <<sequence, held, buffered, before>>

(* DrainEntries(Batch): all of the buffer, or its first Batch lines.       *)
DrainEntries ==
    LET n == IF Batch = 0 \/ Len(entries) <= Batch THEN Len(entries) ELSE Batch IN
    /\ entries # <<>>
    /\ drained' = drained \o SubSeq(entries, 1, n)
    /\ entries' = SubSeq(entries, n + 1, Len(entries))
    /\ UNCHANGED <<sequence, held, buffered, before>>

Next ==
    \/ \E g \in Caller : TakeSequence(g) \/ AppendLine(g)
    \/ DrainEntries

Spec == Init /\ [][Next]_vars

(* A goroutine that has a number gets the mutex (sync.Mutex hands over     *)
(* after a millisecond), and the ticker of the logs goroutine goes on.     *)
Fairness == WF_vars(DrainEntries) /\ \A g \in Caller : WF_vars(AppendLine(g))

-----------------------------------------------------------------------------
(* Two lines whose calls did not overlap keep their order, in number and   *)
(* in the upload: only lines logged at the same time may change places     *)
(* (buffer, DrainEntries).                                                 *)
RealTimeOrder ==
    LET kept == drained \o entries IN
    \A m, n \in ToSet(kept) : m \in before[n] => m < n /\ At(kept, m) < At(kept, n)

(* A line that is logged is uploaded or displaced in the end: none waits   *)
(* in the buffer for ever (the logs goroutine's ticker).                   *)
EveryLineLeaves ==
    \A n \in Line : n \in {held[g] : g \in Caller} ~> n \in ToSet(drained) \union Dropped
=============================================================================
