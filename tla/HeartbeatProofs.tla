--------------------------- MODULE HeartbeatProofs ---------------------------
(***************************************************************************)
(* Proofs about sendHeartbeat, for any interval greater than one and any   *)
(* number of versions of the agents and of faults.                         *)
(***************************************************************************)
EXTENDS Heartbeat, TLAPS

(* Heartbeats begun since the last one that the interval made due.         *)
Since == IF count = 0 THEN Interval - 1 ELSE count - 1

(* What has been at hand since the last disturbance: the first heartbeat   *)
(* that ends after it may have looked at the agents before it, the others  *)
(* have not, so a due one among those has told the server.                 *)
ToldWhenDue ==
    /\ pc = "idle" /\ calm >= Since + 2 => serverView = agents
    /\ pc # "idle" /\ Since > 0 /\ calm >= Since + 1 => serverView = agents

(* A heartbeat begun after the last disturbance carries the present agents *)
(* or none, and the present ones when it is due.                           *)
CarriesPresent ==
    /\ pc = "fallback" => calm = 0
    /\ pc = "post" /\ calm > 0 => extra = agents \/ (extra = None /\ ~IntervalDue(count))

HeartbeatInv ==
    /\ TypeOK
    /\ ToldWhenDue
    /\ CarriesPresent
    /\ FreshAfterInterval

-----------------------------------------------------------------------------
(* The counter of heartbeats: its next value, and which value is due.      *)
LEMMA CountModInterval ==
    ASSUME NEW c \in 0..(Interval - 1)
    PROVE  /\ (c + 1) % Interval = IF c = Interval - 1 THEN 0 ELSE c + 1
           /\ IntervalDue(c) <=> c = 1
<1>1. ASSUME NEW n \in Nat, NEW a \in Nat, a < n  PROVE a % n = a
  BY <1>1
<1>2. ASSUME NEW n \in Nat, n > 0  PROVE n % n = 0
  BY <1>2
<1>3. CASE c = Interval - 1
  BY <1>1, <1>2, <1>3, HeartbeatConstants DEF IntervalDue
<1>4. CASE c # Interval - 1
  BY <1>1, <1>4, HeartbeatConstants DEF IntervalDue
<1>5. QED
  BY <1>3, <1>4

(* A process that has sent nothing satisfies the invariant.                *)
LEMMA InitHeartbeat == Init => HeartbeatInv
<1> SUFFICES ASSUME Init  PROVE HeartbeatInv
  OBVIOUS
<1> USE HeartbeatConstants DEF Init, None
<1>1. 0 \in -MaxVersions..MaxVersions
  OBVIOUS
<1>2. TypeOK
  <2>1. recent \in BOOLEAN /\ agentsDue \in BOOLEAN /\ messageDue \in BOOLEAN
        /\ agentsCool \in BOOLEAN /\ messageCool \in BOOLEAN
    BY Zenon
  <2>2. agents = 1 /\ pc = "idle" /\ count = 0 /\ curFp = 0 /\ extra = 0
        /\ lastExtra = 0 /\ lastFp = 0 /\ serverView = 0 /\ calm = 0 /\ faults = 0
    BY Zenon
  <2> HIDE DEF Init
  <2>3. QED
    BY <1>1, <2>1, <2>2 DEF TypeOK, Versions
<1>3. ToldWhenDue /\ CarriesPresent /\ FreshAfterInterval
  BY DEF ToldWhenDue, CarriesPresent, FreshAfterInterval, Since
<1>4. QED  BY <1>2, <1>3 DEF HeartbeatInv

(* The end of a collection preserves it: with the agents v, which are the  *)
(* present ones unless something failed.                                   *)
LEMMA CollectedStep ==
    ASSUME HeartbeatInv, pc \in {"collect", "fallback"},
           NEW v \in Versions, NEW fp \in -MaxVersions..MaxVersions,
           Collected(v, fp),
           \/ v = agents /\ NoFault
           \/ Fault
    PROVE  HeartbeatInv'
<1> USE HeartbeatConstants
    DEF HeartbeatInv, Collected, NoFault, Fault, Versions, None, looks
<1>1. TypeOK'
  BY DEF TypeOK
<1>2. ToldWhenDue' /\ FreshAfterInterval'
  BY DEF ToldWhenDue, FreshAfterInterval, Since, TypeOK
<1>3. CarriesPresent'
  BY CountModInterval DEF CarriesPresent, Sends, TypeOK
<1>4. QED  BY <1>1, <1>2, <1>3

(* Every step of sendHeartbeat and of its surroundings preserves it.       *)
LEMMA HeartbeatStep == HeartbeatInv /\ [Next]_vars => HeartbeatInv'
<1> SUFFICES ASSUME HeartbeatInv, [Next]_vars  PROVE HeartbeatInv'
  OBVIOUS
<1> USE HeartbeatConstants DEF HeartbeatInv, Versions, None, looks, memory
<1>1. CASE Beat
  <2> USE <1>1 DEF Beat, NoFault, Fault
  <2>1. count' = IF count = Interval - 1 THEN 0 ELSE count + 1
    BY CountModInterval DEF TypeOK
  <2>2. IntervalDue(count') <=> count' = 1
    BY <2>1, CountModInterval DEF TypeOK
  <2>3. TypeOK'
    BY <2>1 DEF TypeOK
  <2>4. ToldWhenDue' /\ FreshAfterInterval'
    BY <2>1 DEF ToldWhenDue, FreshAfterInterval, Since, TypeOK
  <2>5. CarriesPresent'
    BY <2>2 DEF CarriesPresent, TypeOK
  <2>6. QED  BY <2>3, <2>4, <2>5
<1>2. CASE Collect
  <2>1. agents \in Versions /\ None \in Versions
        /\ agents \in -MaxVersions..MaxVersions /\ -agents \in -MaxVersions..MaxVersions
        /\ None \in -MaxVersions..MaxVersions
    BY DEF TypeOK
  <2>2. QED
    BY <1>2, <2>1, CollectedStep DEF Collect
<1>3. CASE CollectFails
  BY <1>3 DEF CollectFails, Fault, TypeOK, ToldWhenDue, CarriesPresent,
     FreshAfterInterval, Since
<1>4. CASE Fallback
  <2>1. agents \in Versions /\ agents \in -MaxVersions..MaxVersions
    BY DEF TypeOK
  <2>2. CASE Collected(agents, agents) /\ NoFault
    BY <1>4, <2>1, <2>2, CollectedStep DEF Fallback
  <2>3. CASE Fault /\ pc' = "post" /\ UNCHANGED <<agents, recent, count, looks,
               extra, memory, serverView>>
    BY <1>4, <2>3 DEF Fallback, Fault, TypeOK, ToldWhenDue, CarriesPresent,
       FreshAfterInterval, Since
  <2>4. QED
    BY <1>4, <2>2, <2>3 DEF Fallback
<1>5. CASE Post
  <2> USE <1>5 DEF Post, Fault, Told
  <2>1. TypeOK'
    BY DEF TypeOK
  <2>2. CarriesPresent'
    BY DEF CarriesPresent
  <2>3. ToldWhenDue'
    BY CountModInterval DEF ToldWhenDue, CarriesPresent, Since, TypeOK
  <2>4. FreshAfterInterval'
    BY <2>1, <2>3 DEF ToldWhenDue, FreshAfterInterval, Since, TypeOK
  <2>5. QED  BY <2>1, <2>2, <2>3, <2>4
<1>6. CASE Restart
  <2> USE <1>6 DEF Restart, Fault
  <2>1. 0 \in -MaxVersions..MaxVersions
    OBVIOUS
  <2>2. TypeOK'
    <3>1. recent' \in BOOLEAN /\ agentsDue' \in BOOLEAN /\ messageDue' \in BOOLEAN
          /\ agentsCool' \in BOOLEAN /\ messageCool' \in BOOLEAN
      BY DEF TypeOK
    <3>2. lastFp' = 0
      OBVIOUS
    <3>3. QED
      BY <2>1, <3>1, <3>2 DEF TypeOK
  <2>3. ToldWhenDue' /\ CarriesPresent' /\ FreshAfterInterval'
    BY DEF ToldWhenDue, CarriesPresent, FreshAfterInterval, Since
  <2>4. QED  BY <2>2, <2>3
<1>7. CASE Change
  BY <1>7 DEF Change, TypeOK, ToldWhenDue, CarriesPresent, FreshAfterInterval,
     Since
<1>8. CASE MarkMessageActivity \/ Elapse
  BY <1>8 DEF MarkMessageActivity, Elapse, TypeOK, ToldWhenDue, CarriesPresent,
     FreshAfterInterval, Since, IntervalDue
<1>9. CASE UNCHANGED vars
  BY <1>9 DEF vars, TypeOK, ToldWhenDue, CarriesPresent, FreshAfterInterval,
     Since, IntervalDue
<1>10. QED
  BY <1>1, <1>2, <1>3, <1>4, <1>5, <1>6, <1>7, <1>8, <1>9 DEF Next, SendHeartbeat

(* The inductive invariant of sendHeartbeat.                               *)
THEOREM HeartbeatInvariance == Spec => []HeartbeatInv
BY InitHeartbeat, HeartbeatStep, PTL DEF Spec

(* extraData never outlives the heartbeat that collected it.               *)
THEOREM TypeCorrect == Spec => []TypeOK
<1>1. HeartbeatInv => TypeOK
  BY DEF HeartbeatInv
<1>2. QED
  BY <1>1, HeartbeatInvariance, PTL

(* For every interval: after Interval + 1 undisturbed heartbeats the       *)
(* server knows the present agents, although sendHeartbeat remembers a     *)
(* change as reported before it has been sent.                             *)
THEOREM Freshness == Spec => []FreshAfterInterval
<1>1. HeartbeatInv => FreshAfterInterval
  BY DEF HeartbeatInv
<1>2. QED
  BY <1>1, HeartbeatInvariance, PTL
=============================================================================
