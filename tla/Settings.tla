------------------------------ MODULE Settings ------------------------------
(***************************************************************************)
(* internal/config/config.go, applyDefaults: the numbers the agent works   *)
(* with; and the waits of client.Post, which come from the retry settings. *)
(***************************************************************************)
EXTENDS Integers, Sequences, SequencesExt

DefaultOf == [timeout |-> 30, keepAlive |-> 60, reconnect |-> 5, heartbeat |-> 60,
    metrics |-> 30, skills |-> 300, logUpload |-> 60, metricsBatch |-> 10,
    logsBatch |-> 100, maxSize |-> 100, maxBackups |-> 3, attempts |-> 5,
    initial |-> 1, maxInterval |-> 30, maxSizeMB |-> 50]
LimitOf == [metricsBatch |-> 100, logsBatch |-> 1000]
Number == DOMAIN DefaultOf
Least(a, b) == IF a < b THEN a ELSE b

Numbers(given) ==
    [f \in Number |-> LET v == IF given[f] <= 0 THEN DefaultOf[f] ELSE given[f]
                      IN  IF f \in DOMAIN LimitOf THEN Least(v, LimitOf[f]) ELSE v]

-----------------------------------------------------------------------------
(* Mutant: the doubled interval may pass the maximum.                      *)
NextInterval_Uncapped(interval, max) == IF interval < max THEN 2 * interval ELSE interval

(* client.Post with a server that never answers: the sleeps between the    *)
(* attempts.                                                               *)
NextInterval(interval, max) ==
    IF interval < max THEN Least(2 * interval, max) ELSE interval
Waits(initial, max, attempts) ==
    LET sleep[k \in 1..(attempts - 1)] ==
            IF k = 1 THEN initial ELSE NextInterval(sleep[k - 1], max)
    IN  [k \in 1..(attempts - 1) |-> sleep[k]]
=============================================================================
