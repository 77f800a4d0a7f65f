--------------------------- MODULE TelemetryStore ---------------------------
(***************************************************************************)
(* The telemetry pipeline with the dates that Cache gives its entries: the *)
(* cache of Telemetry, a sequence without dates, is used as the abstract   *)
(* store of module OfflineStore allows.  A Push that makes room and a      *)
(* PopMetrics or PopLogs that returns several entries are one step each,   *)
(* as all callers wait for c.mu.                                           *)
(***************************************************************************)
EXTENDS Telemetry

VARIABLES
    clock,            \* the date of the last Push
    dates,            \* the dates of the entries of store
    taken             \* history: the entries handed out by a pop

dated == <<clock, dates, taken>>

Entry(i) == [seq |-> dates[i], kind |-> store[i][1]]
EntriesAt(P) == {Entry(i) : i \in P}

(* What stays keeps its date. *)
DatesAt(P) ==
    [n \in 1..Cardinality(P) |-> dates[CHOOSE i \in P : Cardinality(UpTo(P, i)) = n]]

-----------------------------------------------------------------------------
InitDated == Init /\ clock = 0 /\ dates = <<>> /\ taken = {}

(* The name of a new file is the time of its Push. *)
DatedStored(g, old) ==
    /\ Stored(g, old)
    /\ clock' = clock + 1
    /\ dates' = Append(DatesAt(Places \ old), clock + 1)
    /\ UNCHANGED taken

Evicted(old) == dates' = DatesAt(Places \ old) /\ UNCHANGED <<clock, taken>>

DatedPush(g) ==
    /\ Rest(g)
    /\ \/ UNCHANGED faults /\ \E old \in OldEnds({}) : DatedStored(g, old)
       \/ /\ Fault
          /\ \E over \in AtMostOne(Places) : \E old \in OldEnds(over) :
               DatedStored(g, old) \/ (Refused(g, old) /\ Evicted(old))

DatedPanic(g) == \E old \in OldEnds({}) : PanicAt(g, old) /\ Evicted(old)

DatedHandOut(here, next, out, stuck, bad) ==
    /\ HandOut(here, next, out, stuck, bad)
    /\ dates' = DatesAt(Places \ (out \ stuck))
    /\ taken' = taken \union EntriesAt(out)
    /\ UNCHANGED clock

DatedPop(k, here, next) ==
    \/ UNCHANGED faults /\ DatedHandOut(here, next, Oldest(k, {}), {}, {})
    \/ /\ Fault
       /\ \E odd \in AtMostOne(OfKind(k)) :
            \/ DatedHandOut(here, next, Oldest(k, odd), {}, {})
            \/ DatedHandOut(here, next, Oldest(k, {}), odd \intersect Oldest(k, {}), {})
            \/ DatedHandOut(here, next, Oldest(k, {}), {}, odd \intersect Oldest(k, {}))

(* The steps that leave the cache alone.                                   *)
Elsewhere ==
    /\ \/ Start \/ Crash \/ Sigterm \/ Exit
       \/ Log
       \/ MetricsTick \/ MetricsDone
       \/ LogsTick \/ LogsDone
       \/ PopFails
       \/ \E g \in Goroutine : PostSucceeds(g) \/ PostFails(g) \/ ReplyLost(g)
    /\ UNCHANGED dated

NextDated ==
    \/ \E g \in Goroutine : DatedPush(g) \/ DatedPanic(g)
    \/ DatedPop("metrics", "sleep", "popLogs") \/ DatedPop("logs", "popLogs", "done")
    \/ Elsewhere

SpecDated == InitDated /\ [][NextDated]_<<vars, dated>>

-----------------------------------------------------------------------------
(* The pipeline sees what the abstract store promises; a crash, a panic    *)
(* and a lost reply count as failures that cost the store nothing more.    *)
Promise == INSTANCE OfflineStore WITH Kinds <- {"metrics", "logs"}, items <- EntriesAt(Places),
                                      passed <- {}, failures <- faults

(* Every push adds the youngest entry and makes room at the old end only;  *)
(* every pop of the recovery goroutine takes the oldest of its kind, once, *)
(* but for one entry per fault (Push, popKind as runAgent calls them).     *)
UsesStore == Promise!Spec
=============================================================================
