--------------------------- MODULE CommandsProofs ---------------------------
(***************************************************************************)
(* Proofs about remote commands, for any set of commands, either transport,*)
(* any capacity of cmdCh and any number of handlers, lost connections,     *)
(* restarts and faults.                                                    *)
(***************************************************************************)
EXTENDS Commands, FiniteSetTheorems, SequenceTheorems, TLAPS

(* An agent that is not running holds nothing and is not connected.        *)
DownIsEmpty ==
    proc = "down" =>
      /\ conn = "closed" /\ inbox = None /\ cmdCh = <<>> /\ ~loop
      /\ \A h \in Slot : hpc[h] = "free"

(* Only MQTT has a connection.  Each command the broker holds for it is    *)
(* dropped for want of a route, in the callback or about to be             *)
(* acknowledged, but never two of these; the one in the callback is still  *)
(* the broker's.                                                           *)
OnePlacePerConnection ==
    /\ conn # "closed" => transport = "mqtt"
    /\ conn = "closed" => acking = {} /\ missed = {}
    /\ acking \intersect missed = {}
    /\ inbox \notin acking \union missed
    /\ transport = "mqtt" /\ inbox # None => inbox \in pending

(* What the agent holds was sent to it.                                    *)
ReceivedWasSent ==
    /\ inbox \in sent \union {None}
    /\ InChannel \subseteq sent
    /\ \A h \in Slot : hcmd[h] \in sent \union {None}

(* A handler that is about to report how it ended knows it.                *)
EndIsKnown == \A h \in Slot : hpc[h] \in {"summary", "final"} => hstatus[h] # None

CoreInv ==
    /\ TypeOK
    /\ DownIsEmpty
    /\ OnePlacePerConnection
    /\ ReceivedWasSent
    /\ EndIsKnown

(* What is acknowledged has left the callback for cmdCh or is accounted    *)
(* for, so that the broker may forget it.                                  *)
AckedIsTaken == acking \subseteq InChannel \union handled \union abandoned

(* The broker has no will left to publish while the connection is up.      *)
NoWillWhileUp == conn = "up" => ~will

(* Every delivery of c is in the callback, in cmdCh, with one handler, or  *)
(* used up: by a run, or by a terminal report.                             *)
Handling(c) == {h \in Slot : hcmd[h] = c}
ToRun(c) == {h \in Handling(c) : hpc[h] \notin {"summary", "final"}}
Queued(c) == {i \in 1..Len(cmdCh) : cmdCh[i] = c}
InHand(c) == IF inbox = c THEN 1 ELSE 0

Waiting(c) == Cardinality(Queued(c)) + InHand(c)

RunAccount ==
    \A c \in Command :
      executed[c] + Cardinality(ToRun(c)) + Waiting(c) <= deliveries[c]

(* The server hears a terminal status once for each delivery, and once more *)
(* for each of which the answer was lost.                                  *)
ReportAccount ==
    \A c \in Command :
      settled[c] + Cardinality(Handling(c)) + Waiting(c) <= deliveries[c] + repeats[c]

PlaceAccount ==
    \A c \in Command : Cardinality(Handling(c)) + Waiting(c) <= deliveries[c]

(* A settled command delivered once is nowhere, or with a handler that is  *)
(* about to repeat the status the server heard last.                       *)
OnlyRepeats ==
    \A c \in Command : settled[c] > 0 =>
      /\ deliveries[c] > 0
      /\ deliveries[c] = 1 =>
           /\ Waiting(c) = 0
           /\ \A h \in Handling(c) : hpc[h] = "final" /\ hstatus[h] = told[c]

-----------------------------------------------------------------------------
Content(s) == {s[i] : i \in 1..Len(s)}

(* cmdCh after b.cmdCh <- cmd: the command is the last one in it.          *)
LEMMA ContentOfAppend ==
    ASSUME NEW S, NEW s \in Seq(S), NEW c \in S
    PROVE  /\ Append(s, c) \in Seq(S) /\ Len(Append(s, c)) = Len(s) + 1
           /\ Content(Append(s, c)) = Content(s) \union {c}
<1>1. /\ Append(s, c) \in Seq(S) /\ Len(Append(s, c)) = Len(s) + 1
      /\ \A i \in 1..Len(s) : Append(s, c)[i] = s[i]
      /\ Append(s, c)[Len(s) + 1] = c
  BY AppendProperties
<1>2. Len(s) \in Nat
  BY LenProperties
<1>3. QED
  BY <1>1, <1>2 DEF Content

(* cmdCh after <-b.cmdCh: the command at its head is gone.                 *)
LEMMA ContentOfTail ==
    ASSUME NEW S, NEW s \in Seq(S), s # <<>>
    PROVE  /\ Tail(s) \in Seq(S) /\ Len(Tail(s)) = Len(s) - 1 /\ Len(s) \in Nat \ {0}
           /\ Head(s) \in S /\ Head(s) = s[1]
           /\ Content(s) = {Head(s)} \union Content(Tail(s))
<1>1. /\ Head(s) \in S /\ Tail(s) \in Seq(S)
      /\ Len(Tail(s)) = Len(s) - 1
      /\ \A i \in 1..Len(Tail(s)) : Tail(s)[i] = s[i + 1]
  BY HeadTailProperties
<1>2. Len(s) \in Nat \ {0} /\ Head(s) = s[1]
  BY LenProperties, EmptySeq
<1>3. ASSUME NEW i \in 1..Len(s)  PROVE s[i] \in {Head(s)} \union Content(Tail(s))
  <2>1. CASE i = 1
    BY <1>2, <2>1
  <2>2. CASE i # 1
    <3>1. i - 1 \in 1..Len(Tail(s)) /\ Tail(s)[i - 1] = s[i]
      BY <1>1, <1>2, <2>2
    <3>2. QED  BY <3>1 DEF Content
  <2>3. QED  BY <2>1, <2>2
<1>4. ASSUME NEW i \in 1..Len(Tail(s))  PROVE Tail(s)[i] \in Content(s)
  <2>1. i + 1 \in 1..Len(s) /\ Tail(s)[i] = s[i + 1]
    BY <1>1, <1>2
  <2>2. QED  BY <2>1 DEF Content
<1>5. Head(s) \in Content(s)
  BY <1>2 DEF Content
<1>6. Content(s) = {Head(s)} \union Content(Tail(s))
  BY <1>3, <1>4, <1>5 DEF Content
<1>7. QED  BY <1>1, <1>2, <1>6

-----------------------------------------------------------------------------
(* An agent that was never started satisfies the core invariant.           *)
LEMMA InitCore == Init => CoreInv
<1> SUFFICES ASSUME Init  PROVE CoreInv
  OBVIOUS
<1> USE CommandsConstants DEF Init
<1>1. sent = {} /\ InChannel = {} /\ cmdCh \in Seq(Command) /\ Len(cmdCh) = 0
  BY DEF sent, InChannel
<1>2. /\ loop \in BOOLEAN /\ sending \in BOOLEAN /\ routed \in BOOLEAN
      /\ will \in BOOLEAN /\ late \in BOOLEAN
  BY Zenon
<1>3. TypeOK
  BY <1>1, <1>2 DEF TypeOK, None
<1>4. DownIsEmpty /\ OnePlacePerConnection /\ ReceivedWasSent /\ EndIsKnown
  BY <1>1 DEF DownIsEmpty, OnePlacePerConnection, ReceivedWasSent, EndIsKnown, None
<1>5. QED  BY <1>3, <1>4 DEF CoreInv

(* Sending a command preserves it.                                         *)
LEMMA CoreSend == ASSUME CoreInv, NEW c \in Command, Send(c)  PROVE CoreInv'
<1> USE CommandsConstants
    DEF CoreInv, Send, procVars, linkVars, presence, handlerVars, histVars,
        reportVars, bounds
<1>1. PICK t \in Transports : channel' = [channel EXCEPT ![c] = t]
  OBVIOUS
<1>2. sent' = sent \union {c}
  BY <1>1 DEF sent, TypeOK, None
<1>3. TypeOK'
  BY <1>1, <1>2, SMTT(40) DEF TypeOK
<1>4. DownIsEmpty' /\ OnePlacePerConnection' /\ ReceivedWasSent' /\ EndIsKnown'
  BY <1>2 DEF DownIsEmpty, OnePlacePerConnection, ReceivedWasSent, EndIsKnown,
     InChannel
<1>5. QED  BY <1>3, <1>4

(* The connection coming and going preserves it, and Close.                *)
LEMMA CoreLink ==
    ASSUME CoreInv,
           \/ Start \/ PublishOnline \/ OnlineArrives \/ Subscribe \/ SubscribeFails
           \/ PublishWill \/ LoseConnection \/ Reconnect
           \/ Sigterm \/ Close \/ Disconnect \/ RunReturns
    PROVE  CoreInv'
<1> USE CommandsConstants
    DEF CoreInv, TakeOver, Unclean, Fault, Turn, Break, procVars, linkVars, presence,
        queueVars, handlerVars, histVars, reportVars, bounds
<1>0. channel' = channel /\ cmdCh' = cmdCh
  BY DEF Start, PublishOnline, OnlineArrives, Subscribe, SubscribeFails, PublishWill,
     LoseConnection, Reconnect, Sigterm, Close, Disconnect, RunReturns
<1>1. sent' = sent /\ InChannel' = InChannel
  BY <1>0 DEF sent, InChannel
<1>2. EndIsKnown' /\ ReceivedWasSent'
  BY <1>1 DEF EndIsKnown, ReceivedWasSent, Start, PublishOnline, OnlineArrives,
     Subscribe, SubscribeFails, PublishWill, LoseConnection, Reconnect, Sigterm, Close, Disconnect, RunReturns
<1>3. CASE Start
  <2>1. TypeOK'
    BY <1>1, <1>3 DEF Start, TypeOK
  <2>2. DownIsEmpty' /\ OnePlacePerConnection'
    BY <1>3 DEF Start, DownIsEmpty, OnePlacePerConnection, TypeOK
  <2>3. QED  BY <1>2, <2>1, <2>2
<1>4. CASE PublishOnline
  <2>1. sending' \in BOOLEAN
    BY <1>4 DEF PublishOnline
  <2>2. TypeOK'
    BY <1>1, <1>4, <2>1, SMTT(20) DEF PublishOnline, TypeOK
  <2>3. DownIsEmpty' /\ OnePlacePerConnection'
    BY <1>4 DEF PublishOnline, DownIsEmpty, OnePlacePerConnection
  <2>4. QED  BY <1>2, <2>2, <2>3
<1>5. CASE OnlineArrives \/ Subscribe \/ SubscribeFails \/ PublishWill
  <2>1. /\ sending' \in BOOLEAN /\ routed' \in BOOLEAN
        /\ will' \in BOOLEAN /\ late' \in BOOLEAN
    BY <1>5 DEF OnlineArrives, Subscribe, SubscribeFails, PublishWill, TypeOK
  <2>2. TypeOK'
    <3>1. CASE OnlineArrives
      BY <1>1, <2>1, <3>1, SMTT(20) DEF OnlineArrives, TypeOK
    <3>2. CASE Subscribe \/ SubscribeFails
      BY <1>1, <2>1, <3>2, SMTT(20) DEF Subscribe, SubscribeFails, TypeOK
    <3>3. CASE PublishWill
      BY <1>1, <2>1, <3>3, SMTT(20) DEF PublishWill, TypeOK
    <3>4. QED  BY <1>5, <3>1, <3>2, <3>3
  <2>3. DownIsEmpty' /\ OnePlacePerConnection'
    BY <1>5 DEF OnlineArrives, Subscribe, SubscribeFails, PublishWill, DownIsEmpty,
       OnePlacePerConnection
  <2>4. QED  BY <1>2, <2>2, <2>3
<1>6. CASE LoseConnection \/ Reconnect
  <2>1. will' \in BOOLEAN
    BY <1>6 DEF LoseConnection, Reconnect
  <2>2. TypeOK'
    <3>1. CASE LoseConnection
      BY <1>1, <2>1, <3>1, SMTT(20) DEF LoseConnection, TypeOK
    <3>2. CASE Reconnect
      BY <1>1, <2>1, <3>2, SMTT(20) DEF Reconnect, TypeOK
    <3>3. QED  BY <1>6, <3>1, <3>2
  <2>3. DownIsEmpty' /\ OnePlacePerConnection'
    BY <1>6 DEF LoseConnection, Reconnect, DownIsEmpty, OnePlacePerConnection
  <2>4. QED  BY <1>2, <2>2, <2>3
<1>7. CASE Sigterm \/ Close
  BY <1>1, <1>2, <1>7, SMTT(40)
     DEF Sigterm, Close, TypeOK, DownIsEmpty, OnePlacePerConnection
<1>8. CASE Disconnect \/ RunReturns
  <2>1. loop' \in BOOLEAN /\ sending' \in BOOLEAN
    BY <1>8 DEF Disconnect, RunReturns, TypeOK
  <2>2. QED
    BY <1>1, <1>2, <1>8, <2>1, SMTT(40)
       DEF Disconnect, RunReturns, TypeOK, DownIsEmpty, OnePlacePerConnection
<1>9. QED
  BY <1>3, <1>4, <1>5, <1>6, <1>7, <1>8

(* The callback of paho and what becomes of its command preserve it.       *)
LEMMA CoreCallback ==
    ASSUME CoreInv,
           \/ \E c \in Command : Unrouted(c) \/ Callback(c) \/ PubAck(c)
           \/ Enqueue \/ Unreadable
    PROVE  CoreInv'
<1> USE CommandsConstants
    DEF CoreInv, Fault, Deliverable, CallbackReturns, procVars, linkVars,
        presence, queueVars, handlerVars, histVars,
        reportVars, bounds
<1>1. channel' = channel
  BY DEF Unrouted, Callback, PubAck, Enqueue, Unreadable
<1>2. sent' = sent /\ sent \subseteq Command
  BY <1>1 DEF sent
<1>3. EndIsKnown'
  BY DEF EndIsKnown, Unrouted, Callback, PubAck, Enqueue, Unreadable
<1>4. ASSUME NEW c \in Command, Unrouted(c)  PROVE CoreInv'
  <2>1. InChannel' = InChannel
    BY <1>4 DEF InChannel, Unrouted
  <2>2. TypeOK' /\ OnePlacePerConnection'
    BY <1>2, <1>4, SMTT(40) DEF Unrouted, TypeOK, OnePlacePerConnection
  <2>3. DownIsEmpty' /\ ReceivedWasSent'
    BY <1>2, <1>4, <2>1 DEF Unrouted, DownIsEmpty, ReceivedWasSent
  <2>4. QED  BY <1>3, <2>2, <2>3
<1>5. ASSUME NEW c \in Command, Callback(c)  PROVE CoreInv'
  <2>1. InChannel' = InChannel
    BY <1>5 DEF InChannel, Callback
  <2>2. TypeOK' /\ OnePlacePerConnection'
    BY <1>2, <1>5 DEF Callback, TypeOK, OnePlacePerConnection
  <2>3. DownIsEmpty' /\ ReceivedWasSent'
    BY <1>2, <1>5, <2>1 DEF Callback, DownIsEmpty, ReceivedWasSent, TypeOK
  <2>4. QED  BY <1>3, <2>2, <2>3
<1>6. ASSUME NEW c \in Command, PubAck(c)  PROVE CoreInv'
  <2>1. InChannel' = InChannel
    BY <1>6 DEF InChannel, PubAck
  <2>2. TypeOK' /\ OnePlacePerConnection'
    BY <1>2, <1>6 DEF PubAck, TypeOK, OnePlacePerConnection
  <2>3. DownIsEmpty' /\ ReceivedWasSent'
    BY <1>2, <1>6, <2>1 DEF PubAck, DownIsEmpty, ReceivedWasSent
  <2>4. QED  BY <1>3, <2>2, <2>3
<1>7. CASE Enqueue
  <2> USE <1>7 DEF Enqueue
  <2>1. inbox \in Command /\ inbox \in pending /\ inbox \in sent
    BY <1>2 DEF TypeOK, OnePlacePerConnection
  <2>2. cmdCh' \in Seq(Command) /\ Len(cmdCh') = Len(cmdCh) + 1
        /\ InChannel' = InChannel \union {inbox} /\ Len(cmdCh) \in Nat
    <3>1. cmdCh \in Seq(Command) /\ cmdCh' = Append(cmdCh, inbox)
      BY DEF TypeOK
    <3>2. QED
      BY <2>1, <3>1, ContentOfAppend, LenProperties DEF InChannel, Content
  <2>3. TypeOK'
    BY <1>2, <2>1, <2>2 DEF TypeOK
  <2>4. OnePlacePerConnection'
    BY <1>2, <2>1 DEF OnePlacePerConnection, TypeOK
  <2>5. DownIsEmpty' /\ ReceivedWasSent'
    BY <1>2, <2>1, <2>2 DEF DownIsEmpty, ReceivedWasSent
  <2>6. QED  BY <1>3, <2>3, <2>4, <2>5
<1>8. CASE Unreadable
  <2> USE <1>8 DEF Unreadable
  <2>1. inbox \in Command /\ inbox \in pending /\ inbox \in sent
    BY <1>2 DEF TypeOK, OnePlacePerConnection
  <2>2. InChannel' = InChannel
    BY DEF InChannel
  <2>3. TypeOK'
    BY <1>2, <2>1 DEF TypeOK
  <2>4. OnePlacePerConnection'
    BY <1>2, <2>1 DEF OnePlacePerConnection, TypeOK
  <2>5. DownIsEmpty' /\ ReceivedWasSent'
    BY <1>2, <2>1, <2>2 DEF DownIsEmpty, ReceivedWasSent
  <2>6. QED  BY <1>3, <2>3, <2>4, <2>5
<1>9. QED
  BY <1>4, <1>5, <1>6, <1>7, <1>8

(* A handler goroutine is started for a command that was sent, in a slot   *)
(* that is free.                                                           *)
LEMMA CoreSpawn ==
    ASSUME CoreInv, NEW c \in sent, Spawn(c), channel' = channel
    PROVE  /\ hcmd' \in [Slot -> Command \union {None}]
           /\ hpc' \in [Slot -> {"free", "ack", "open", "accept", "progress",
                                 "execute", "summary", "final"}]
           /\ hstatus' = hstatus /\ deliveries' = deliveries /\ executed' = executed
           /\ told' = told /\ settled' = settled /\ repeats' = repeats
           /\ unreported' = unreported
           /\ abandoned' = abandoned /\ handled' = handled \union {c}
           /\ \A h \in Slot : hpc'[h] = "free" <=> hcmd'[h] = None
           /\ \A h \in Slot : hcmd'[h] \in sent \union {None}
           /\ EndIsKnown'
<1>1. c \in Command /\ c # None
  BY CommandsConstants DEF sent
<1>2. PICK g \in Slot :
        /\ hpc[g] = "free"
        /\ hcmd' = [hcmd EXCEPT ![g] = c]
        /\ hpc' = [hpc EXCEPT ![g] = IF transport = "mqtt" THEN "ack" ELSE "open"]
        /\ handled' = handled \union {c}
        /\ UNCHANGED <<hstatus, deliveries, executed, reportVars, abandoned>>
  BY DEF Spawn
<1>3. QED
  BY <1>1, <1>2 DEF CoreInv, TypeOK, ReceivedWasSent, EndIsKnown, reportVars

(* MQTTBroker.Run and the loop of the Redis broker preserve it.            *)
LEMMA CoreReceive ==
    ASSUME CoreInv,
           \/ \E c \in Command : BLPop(c) \/ PopLost(c)
           \/ Dispatch \/ FetchDetail \/ FetchFails
    PROVE  CoreInv'
<1> USE CommandsConstants
    DEF CoreInv, Fault, Popped, procVars, linkVars, presence, queueVars,
        handlerVars, histVars,
        reportVars, bounds
<1>1. channel' = channel
  BY DEF BLPop, PopLost, Dispatch, FetchDetail, FetchFails
<1>2. sent' = sent /\ sent \subseteq Command
  BY <1>1 DEF sent
<1>3. ASSUME NEW c \in Command, BLPop(c)  PROVE CoreInv'
  <2>1. InChannel' = InChannel
    BY <1>3 DEF InChannel, BLPop
  <2>2. TypeOK' /\ OnePlacePerConnection'
    BY <1>2, <1>3 DEF BLPop, TypeOK, OnePlacePerConnection
  <2>3. DownIsEmpty' /\ ReceivedWasSent' /\ EndIsKnown'
    BY <1>2, <1>3, <2>1 DEF BLPop, DownIsEmpty, ReceivedWasSent, EndIsKnown, TypeOK
  <2>4. QED  BY <2>2, <2>3
<1>4. ASSUME NEW c \in Command, PopLost(c)  PROVE CoreInv'
  <2>1. InChannel' = InChannel
    BY <1>4 DEF InChannel, PopLost
  <2>2. TypeOK' /\ OnePlacePerConnection'
    BY <1>2, <1>4 DEF PopLost, TypeOK, OnePlacePerConnection
  <2>3. DownIsEmpty' /\ ReceivedWasSent' /\ EndIsKnown'
    BY <1>2, <1>4, <2>1 DEF PopLost, DownIsEmpty, ReceivedWasSent, EndIsKnown
  <2>4. QED  BY <2>2, <2>3
<1>5. CASE Dispatch
  <2>0. cmdCh \in Seq(Command) /\ cmdCh # <<>> /\ cmdCh' = Tail(cmdCh)
        /\ Spawn(Head(cmdCh))
    BY <1>5 DEF Dispatch, TypeOK
  <2>1. cmdCh' \in Seq(Command) /\ Len(cmdCh') = Len(cmdCh) - 1
        /\ Len(cmdCh) \in Nat \ {0}
        /\ InChannel = {Head(cmdCh)} \union InChannel'
    <3>1. /\ Tail(cmdCh) \in Seq(Command) /\ Len(Tail(cmdCh)) = Len(cmdCh) - 1
          /\ Len(cmdCh) \in Nat \ {0}
          /\ Content(cmdCh) = {Head(cmdCh)} \union Content(Tail(cmdCh))
      BY <2>0, ContentOfTail
    <3>2. QED  BY <2>0, <3>1 DEF InChannel, Content
  <2>2. Head(cmdCh) \in sent
    BY <2>1 DEF ReceivedWasSent
  <2> DEFINE c == Head(cmdCh)
  <2> HIDE DEF c
  <2>3. Spawn(c) /\ c \in sent
    BY <2>0, <2>2 DEF c
  <2>4. TypeOK'
    <3>1. UNCHANGED <<procVars, linkVars, presence, channel, pending, inbox>>
      BY <1>5 DEF Dispatch
    <3>2. cmdCh' \in Seq(Command) /\ Len(cmdCh') <= ChanCap
      BY <2>1 DEF TypeOK
    <3>3. /\ hcmd' \in [Slot -> Command \union {None}]
          /\ hpc' \in [Slot -> {"free", "ack", "open", "accept", "progress",
                                "execute", "summary", "final"}]
          /\ hstatus' = hstatus /\ deliveries' = deliveries /\ executed' = executed
          /\ told' = told /\ settled' = settled /\ repeats' = repeats
          /\ unreported' = unreported
          /\ abandoned' = abandoned /\ handled' = handled \union {c}
          /\ \A h \in Slot : hpc'[h] = "free" <=> hcmd'[h] = None
      BY <1>1, <2>3, CoreSpawn
    <3>4. QED
      BY <1>2, <2>3, <3>1, <3>2, <3>3, SMTT(40) DEF TypeOK
  <2>5. OnePlacePerConnection'
    BY <1>5 DEF Dispatch, OnePlacePerConnection
  <2>6. DownIsEmpty'
    BY <1>5 DEF Dispatch, DownIsEmpty
  <2>7. ReceivedWasSent' /\ EndIsKnown'
    BY <1>1, <1>2, <1>5, <2>1, <2>3, CoreSpawn DEF Dispatch, ReceivedWasSent
  <2>8. QED  BY <2>4, <2>5, <2>6, <2>7
<1>6. CASE FetchDetail
  <2>1. inbox \in sent /\ Spawn(inbox)
    BY <1>6 DEF FetchDetail, ReceivedWasSent
  <2>2. InChannel' = InChannel
    BY <1>6 DEF InChannel, FetchDetail
  <2>3. TypeOK'
    BY <1>1, <1>2, <1>6, <2>1, CoreSpawn, SMTT(40) DEF FetchDetail, TypeOK
  <2>4. OnePlacePerConnection'
    BY <1>6 DEF FetchDetail, OnePlacePerConnection, TypeOK, None
  <2>5. DownIsEmpty'
    BY <1>6 DEF FetchDetail, DownIsEmpty
  <2>6. ReceivedWasSent' /\ EndIsKnown'
    BY <1>1, <1>2, <1>6, <2>1, <2>2, CoreSpawn DEF FetchDetail, ReceivedWasSent
  <2>7. QED  BY <2>3, <2>4, <2>5, <2>6
<1>7. CASE FetchFails
  <2>1. InChannel' = InChannel
    BY <1>7 DEF InChannel, FetchFails
  <2>2. TypeOK' /\ OnePlacePerConnection'
    BY <1>2, <1>7 DEF FetchFails, TypeOK, OnePlacePerConnection, ReceivedWasSent
  <2>3. DownIsEmpty' /\ ReceivedWasSent' /\ EndIsKnown'
    BY <1>2, <1>7, <2>1 DEF FetchFails, DownIsEmpty, ReceivedWasSent, EndIsKnown
  <2>4. QED  BY <2>2, <2>3
<1>8. QED
  BY <1>3, <1>4, <1>5, <1>6, <1>7

(* A report of a handler is about its own command, and adds one terminal   *)
(* status at most.                                                         *)
LEMMA TellAbout ==
    ASSUME CoreInv, NEW h \in Slot, hpc[h] # "free", NEW m \in Messages, Tell(h, m)
    PROVE  /\ told' \in [Command -> Messages \union {None}]
           /\ settled' \in [Command -> Nat] /\ repeats' = repeats
           /\ unreported' \subseteq sent
           /\ \A c \in Command :
                c # hcmd[h] => told'[c] = told[c] /\ settled'[c] = settled[c]
           /\ \A c \in Command : settled'[c] <= settled[c] +
                IF c = hcmd[h] /\ m \in {"s2", "s3"} THEN 1 ELSE 0
<1>1. hcmd[h] \in Command /\ hcmd[h] \in sent
  BY CommandsConstants DEF CoreInv, TypeOK, ReceivedWasSent, sent
<1>2. CASE Told(h, m)
  BY <1>1, <1>2 DEF Told, Heard, CoreInv, TypeOK, Messages
<1>3. CASE NotTold(h)
  BY <1>1, <1>3 DEF NotTold, CoreInv, TypeOK
<1>4. QED  BY <1>2, <1>3 DEF Tell

(* A report of which the answer is lost is about the handler's own command *)
(* too, and counted as a repeat if it is a terminal status.                *)
LEMMA UnansweredAbout ==
    ASSUME CoreInv, NEW h \in Slot, NEW m \in Messages, Unanswered(h, m)
    PROVE  /\ hpc[h] # "free" /\ hcmd[h] \in Command
           /\ told' \in [Command -> Messages \union {None}]
           /\ settled' \in [Command -> Nat] /\ repeats' \in [Command -> Nat]
           /\ told'[hcmd[h]] = m
           /\ \A c \in Command :
                c # hcmd[h] => /\ told'[c] = told[c] /\ settled'[c] = settled[c]
                               /\ repeats'[c] = repeats[c]
           /\ m \in {"s2", "s3"} =>
                /\ settled'[hcmd[h]] = settled[hcmd[h]] + 1
                /\ repeats'[hcmd[h]] = repeats[hcmd[h]] + 1
           /\ m \notin {"s2", "s3"} => settled' = settled /\ repeats' = repeats
           /\ m \in {"s2", "s3"} <=> hpc[h] = "final"
           /\ hpc[h] = "final" => m = hstatus[h]
<1>1. hpc[h] # "free"
  BY DEF Unanswered, Report, At
<1>2. hcmd[h] \in Command
  BY <1>1 DEF CoreInv, TypeOK
<1>3. /\ m \in {"s2", "s3"} <=> hpc[h] = "final"
      /\ hpc[h] = "final" => m = hstatus[h]
  BY DEF Unanswered, Report, At, finalStatus, CoreInv, TypeOK, EndIsKnown
<1>4. /\ told' = [told EXCEPT ![hcmd[h]] = m]
      /\ settled' = IF m \in {"s2", "s3"}
                    THEN [settled EXCEPT ![hcmd[h]] = @ + 1] ELSE settled
      /\ repeats' = IF m \in {"s2", "s3"}
                    THEN [repeats EXCEPT ![hcmd[h]] = @ + 1] ELSE repeats
  BY DEF Unanswered, Heard
<1>5. /\ told \in [Command -> Messages \union {None}]
      /\ settled \in [Command -> Nat] /\ repeats \in [Command -> Nat]
  BY DEF CoreInv, TypeOK
<1>6. QED
  BY <1>1, <1>2, <1>3, <1>4, <1>5

(* It preserves the core invariant: at most the connection breaks.         *)
LEMMA CoreUnanswered ==
    ASSUME CoreInv, NEW h \in Slot, NEW m \in Messages, Unanswered(h, m)
    PROVE  CoreInv'
<1> USE DEF CoreInv, procVars, queueVars, handlerVars
<1>1. /\ UNCHANGED <<procVars, onConnect, sending, routed, missed, status, late,
                     queueVars, handlerVars, deliveries, handled, executed,
                     unreported, abandoned>>
      /\ \/ transport = "mqtt" /\ conn = "up" /\ conn' = "lost" /\ acking' = {}
            /\ will' = TRUE
         \/ UNCHANGED <<conn, acking, will>>
  BY DEF Unanswered, Break, Unclean
<1>2. sent' = sent /\ InChannel' = InChannel
  BY <1>1 DEF sent, InChannel
<1>3. will' \in BOOLEAN
  BY <1>1 DEF TypeOK
<1>4. /\ told' \in [Command -> Messages \union {None}]
      /\ settled' \in [Command -> Nat] /\ repeats' \in [Command -> Nat]
  BY UnansweredAbout
<1>5. conn' \in {"up", "lost", "closed"} /\ acking' \subseteq pending'
  BY <1>1 DEF TypeOK
<1>6. TypeOK'
  BY <1>1, <1>2, <1>3, <1>4, <1>5, SMTT(20) DEF TypeOK
<1>7. DownIsEmpty' /\ OnePlacePerConnection'
  BY <1>1 DEF DownIsEmpty, OnePlacePerConnection
<1>8. ReceivedWasSent' /\ EndIsKnown'
  BY <1>1, <1>2 DEF ReceivedWasSent, EndIsKnown
<1>9. QED  BY <1>6, <1>7, <1>8

(* Every step of a handler preserves the core invariant.                   *)
LEMMA CoreHandle == ASSUME CoreInv, NEW h \in Slot, Handle(h)  PROVE CoreInv'
<1> USE CommandsConstants
    DEF CoreInv, At, Goto, Fault, handlerRest, procVars, linkVars, presence,
        queueVars, handlerVars, histVars,
        reportVars, bounds
<1>1. /\ hpc[h] # "free" /\ proc # "down"
      /\ UNCHANGED <<procVars, linkVars, presence, queueVars, deliveries, handled,
                     abandoned>>
  BY DEF Handle, Ack, Open, Accept, Progress, Execute, Panic, Summary, Final
<1>2. sent' = sent /\ InChannel' = InChannel /\ sent \subseteq Command
  BY <1>1 DEF sent, InChannel
<1>3. hcmd[h] \in Command /\ hcmd[h] # None
  BY <1>1 DEF TypeOK
<1>4. DownIsEmpty' /\ OnePlacePerConnection'
  BY <1>1 DEF DownIsEmpty, OnePlacePerConnection
<1> DEFINE Handlers ==
             /\ hcmd' \in [Slot -> Command \union {None}]
             /\ hpc' \in [Slot -> {"free", "ack", "open", "accept", "progress",
                                   "execute", "summary", "final"}]
             /\ hstatus' \in [Slot -> {None, "s2", "s3"}]
             /\ \A g \in Slot : hpc'[g] = "free" <=> hcmd'[g] = None
           Reports ==
             /\ told' \in [Command -> Messages \union {None}]
             /\ settled' \in [Command -> Nat] /\ repeats' \in [Command -> Nat] /\ unreported' \subseteq sent
<1>t. ASSUME Handlers, executed' \in [Command -> Nat], Reports  PROVE TypeOK'
  BY <1>1, <1>2, <1>t, SMTT(60) DEF TypeOK
<1>m. ASSUME NEW m \in Messages, Tell(h, m)  PROVE Reports
  BY <1>1, <1>m, TellAbout DEF TypeOK
<1> HIDE DEF Reports
<1>5. CASE Ack(h)
  <2>1. "ack" \in Messages
    BY DEF Messages
  <2>2. Handlers /\ executed' \in [Command -> Nat]
    BY <1>1, <1>5 DEF Ack, TypeOK
  <2>3. ReceivedWasSent' /\ EndIsKnown'
    BY <1>1, <1>2, <1>5 DEF Ack, ReceivedWasSent, EndIsKnown, TypeOK
  <2>4. TypeOK'
    BY <1>5, <1>t, <1>m, <2>1, <2>2 DEF Ack
  <2>5. QED  BY <1>4, <2>3, <2>4
<1>6. CASE Open(h)
  <2>1. TypeOK'
    <3>1. Handlers
      BY <1>1, <1>6 DEF Open, TypeOK
    <3>2. executed' \in [Command -> Nat] /\ Reports
      BY <1>6 DEF Open, TypeOK, Reports
    <3>3. QED  BY <1>t, <3>1, <3>2
  <2>2. ReceivedWasSent' /\ EndIsKnown'
    BY <1>1, <1>2, <1>6, ZenonT(30) DEF Open, ReceivedWasSent, EndIsKnown, TypeOK, None
  <2>3. QED  BY <1>4, <2>1, <2>2
<1>7. CASE Accept(h)
  <2>1. "s1" \in Messages
    BY DEF Messages
  <2>2. Handlers /\ executed' \in [Command -> Nat]
    BY <1>1, <1>7 DEF Accept, TypeOK
  <2>3. ReceivedWasSent' /\ EndIsKnown'
    BY <1>1, <1>2, <1>7 DEF Accept, ReceivedWasSent, EndIsKnown, TypeOK
  <2>4. TypeOK'
    BY <1>7, <1>t, <1>m, <2>1, <2>2 DEF Accept
  <2>5. QED  BY <1>4, <2>3, <2>4
<1>8. CASE Progress(h)
  <2>1. "running" \in Messages
    BY DEF Messages
  <2>2. Handlers /\ executed' \in [Command -> Nat]
    BY <1>1, <1>8 DEF Progress, TypeOK
  <2>3. ReceivedWasSent' /\ EndIsKnown'
    BY <1>1, <1>2, <1>8 DEF Progress, ReceivedWasSent, EndIsKnown, TypeOK
  <2>4. TypeOK'
    BY <1>8, <1>t, <1>m, <2>1, <2>2 DEF Progress
  <2>5. QED  BY <1>4, <2>3, <2>4
<1>9. CASE Execute(h)
  <2>1. PICK r \in {"s2", "s3"} : hstatus' = [hstatus EXCEPT ![h] = r]
    BY <1>9 DEF Execute
  <2>2. TypeOK'
    BY <1>1, <1>2, <1>3, <1>9, <2>1, SMTT(40) DEF Execute, TypeOK
  <2>3. ReceivedWasSent' /\ EndIsKnown'
    BY <1>1, <1>2, <1>9, <2>1
       DEF Execute, ReceivedWasSent, EndIsKnown, TypeOK, None
  <2>4. QED  BY <1>4, <2>2, <2>3
<1>10. CASE Panic(h)
  <2>1. TypeOK'
    BY <1>1, <1>2, <1>3, <1>10, SMTT(40) DEF Panic, TypeOK
  <2>2. ReceivedWasSent' /\ EndIsKnown'
    BY <1>1, <1>2, <1>10 DEF Panic, ReceivedWasSent, EndIsKnown, TypeOK, None
  <2>3. QED  BY <1>4, <2>1, <2>2
<1>11. CASE Summary(h)
  <2> DEFINE m == finalStatus(h)
  <2>1. m \in Messages /\ Tell(h, m)
    BY <1>11 DEF Messages, Summary, finalStatus
  <2> HIDE DEF m
  <2>2. Handlers /\ executed' \in [Command -> Nat]
    BY <1>1, <1>11 DEF Summary, TypeOK
  <2>3. ReceivedWasSent' /\ EndIsKnown'
    BY <1>1, <1>2, <1>11 DEF Summary, ReceivedWasSent, EndIsKnown, TypeOK
  <2>4. TypeOK'
    BY <1>11, <1>t, <1>m, <2>1, <2>2 DEF Summary
  <2>5. QED  BY <1>4, <2>3, <2>4
<1>12. CASE Final(h)
  <2>1. hstatus[h] \in Messages /\ Tell(h, hstatus[h])
    BY <1>12 DEF Messages, Final, EndIsKnown, TypeOK
  <2>2. Handlers /\ executed' \in [Command -> Nat]
    BY <1>1, <1>12 DEF Final, TypeOK
  <2>3. ReceivedWasSent' /\ EndIsKnown'
    BY <1>1, <1>2, <1>12 DEF Final, ReceivedWasSent, EndIsKnown, TypeOK
  <2>4. TypeOK'
    BY <1>12, <1>t, <1>m, <2>1, <2>2 DEF Final
  <2>5. QED  BY <1>4, <2>3, <2>4
<1>13. QED
  BY <1>5, <1>6, <1>7, <1>8, <1>9, <1>10, <1>11, <1>12 DEF Handle

(* A step of a handler tells the server of its own command only, and       *)
(* settles it only at the end.                                             *)
LEMMA HandleTells ==
    ASSUME CoreInv, NEW h \in Slot, Handle(h), NEW c \in Command
    PROVE  /\ c # hcmd[h] => told'[c] = told[c] /\ settled'[c] = settled[c]
           /\ hpc[h] # "final" => settled'[c] = settled[c]
<1>1. hpc[h] # "free"
  BY DEF Handle, Ack, Open, Accept, Progress, Execute, Panic, Summary, Final, At
<1>2. CASE Open(h) \/ Execute(h) \/ Panic(h)
  BY <1>2 DEF Open, Execute, Panic, reportVars
<1>3. CASE Ack(h) \/ Accept(h) \/ Progress(h) \/ Summary(h)
  <2>1. PICK m \in Messages \ {"s2", "s3"} : Tell(h, m)
    BY <1>3 DEF Ack, Accept, Progress, Summary, Messages, finalStatus
  <2>2. settled' = settled
    BY <2>1 DEF Tell, Told, NotTold, Heard
  <2>3. QED  BY <1>1, <2>1, <2>2, TellAbout
<1>4. CASE Final(h)
  <2>1. hpc[h] = "final" /\ hstatus[h] \in Messages /\ Tell(h, hstatus[h])
    BY <1>4 DEF Final, At, CoreInv, TypeOK, EndIsKnown, Messages
  <2>2. QED  BY <1>1, <2>1, TellAbout
<1>5. QED  BY <1>2, <1>3, <1>4 DEF Handle

(* The end of the process preserves it.                                    *)
LEMMA CoreEnd == ASSUME CoreInv, Exit \/ Crash  PROVE CoreInv'
<1> USE CommandsConstants DEF CoreInv, Fault, Unclean, reportVars
<1>1. Die
  BY DEF Exit, Crash
<1>2. will' \in BOOLEAN
  BY DEF Exit, Crash, TypeOK
<1> USE <1>1 DEF Die, reportVars
<1>3. sent' = sent /\ sent \subseteq Command
  BY DEF sent
<1>4. InChannel' = {} /\ cmdCh' \in Seq(Command) /\ Len(cmdCh') = 0
  BY DEF InChannel
<1>5. loop' \in BOOLEAN /\ sending' \in BOOLEAN /\ routed' \in BOOLEAN
  BY Zenon
<1>6. abandoned' \subseteq sent
  BY DEF TypeOK, ReceivedWasSent, InChannel
<1>7. TypeOK'
  BY <1>2, <1>3, <1>4, <1>5, <1>6 DEF TypeOK, None
<1>8. DownIsEmpty' /\ OnePlacePerConnection' /\ ReceivedWasSent' /\ EndIsKnown'
  BY <1>3, <1>4 DEF DownIsEmpty, OnePlacePerConnection, ReceivedWasSent, EndIsKnown,
     None
<1>9. QED  BY <1>7, <1>8

(* The core invariant: what is where, between the server, the broker, the  *)
(* channel and the handlers.                                               *)
THEOREM CoreInvariance == Spec => []CoreInv
<1>1. CoreInv /\ [Next]_vars => CoreInv'
  <2>1. CoreInv /\ UNCHANGED vars => CoreInv'
    BY SMTT(20) DEF vars, procVars, linkVars, presence, queueVars, handlerVars,
       histVars, reportVars, CoreInv, TypeOK, DownIsEmpty, OnePlacePerConnection, ReceivedWasSent,
       EndIsKnown, sent, InChannel
  <2>2. QED
    BY <2>1, CoreSend, CoreLink, CoreCallback, CoreReceive, CoreHandle, CoreUnanswered,
       CoreEnd
       DEF Next
<1>2. QED
  BY <1>1, InitCore, PTL DEF Spec

(* cmdCh respects its capacity, a goroutine has a command while it runs    *)
(* and only what was sent is received, acknowledged and reported on.       *)
THEOREM TypeCorrect == Spec => []TypeOK
<1>1. CoreInv => TypeOK
  BY DEF CoreInv
<1>2. QED
  BY <1>1, CoreInvariance, PTL

-----------------------------------------------------------------------------
(* No step makes a command vanish.                                         *)
LEMMA VanishStep ==
    ASSUME CoreInv, NoneVanishes, AckedIsTaken, [Next]_vars
    PROVE  NoneVanishes' /\ AckedIsTaken'
<1> USE CommandsConstants
    DEF NoneVanishes, AckedIsTaken, Fault, procVars, linkVars, presence,
        queueVars, handlerVars, histVars, reportVars, bounds, Turn, Break
<1>1. ASSUME UNCHANGED <<channel, cmdCh, pending, inbox, handled, abandoned>>,
             acking' \subseteq acking
      PROVE  NoneVanishes' /\ AckedIsTaken'
  BY <1>1 DEF sent, InChannel
<1>2. CASE \/ Start \/ PublishOnline \/ OnlineArrives \/ Subscribe \/ SubscribeFails
           \/ PublishWill \/ LoseConnection \/ Reconnect
  BY <1>1, <1>2 DEF Start, PublishOnline, OnlineArrives, Subscribe, SubscribeFails,
     PublishWill, LoseConnection, Reconnect
<1>3. CASE Sigterm \/ Close \/ Disconnect \/ RunReturns
  BY <1>1, <1>3 DEF Sigterm, Close, Disconnect, RunReturns
<1>4. ASSUME NEW h \in Slot, Handle(h)  PROVE NoneVanishes' /\ AckedIsTaken'
  BY <1>1, <1>4 DEF Handle, Ack, Open, Accept, Progress, Execute, Panic, Summary,
     Final, handlerRest
<1>4a. ASSUME NEW h \in Slot, NEW m \in Messages, Unanswered(h, m)
       PROVE  NoneVanishes' /\ AckedIsTaken'
  BY <1>1, <1>4a DEF Unanswered, Break
<1>5. ASSUME NEW c \in Command, Send(c)  PROVE NoneVanishes' /\ AckedIsTaken'
  <2>1. sent' \subseteq sent \union {c} /\ InChannel' = InChannel
    BY <1>5 DEF Send, sent, InChannel, CoreInv, TypeOK
  <2>2. QED  BY <1>5, <2>1 DEF Send
<1>6. ASSUME channel' = channel  PROVE sent' = sent
  BY <1>6 DEF sent
<1>7. ASSUME cmdCh' = cmdCh  PROVE InChannel' = InChannel
  BY <1>7 DEF InChannel
<1>8. ASSUME NEW c \in Command, Unrouted(c) \/ Callback(c) \/ PubAck(c)
      PROVE  NoneVanishes' /\ AckedIsTaken'
  <2>1. sent' = sent /\ InChannel' = InChannel
    BY <1>6, <1>7, <1>8 DEF Unrouted, Callback, PubAck
  <2>2. inbox = None \/ inbox' = inbox
    BY <1>8 DEF Unrouted, Callback, PubAck, Deliverable
  <2>3. None \notin sent
    BY DEF sent
  <2>4. QED
    BY <1>8, <2>1, <2>2, <2>3 DEF Unrouted, Callback, PubAck, Deliverable
<1>9. ASSUME NEW c \in Command, BLPop(c) \/ PopLost(c)
      PROVE  NoneVanishes' /\ AckedIsTaken'
  <2>1. sent' = sent /\ InChannel' = InChannel /\ None \notin sent
    BY <1>6, <1>7, <1>9 DEF BLPop, PopLost, sent
  <2>2. QED
    BY <1>9, <2>1 DEF BLPop, PopLost, Popped
<1>10. CASE Enqueue
  <2>1. cmdCh \in Seq(Command) /\ inbox \in Command /\ cmdCh' = Append(cmdCh, inbox)
        /\ channel' = channel
    BY <1>10 DEF Enqueue, CallbackReturns, CoreInv, TypeOK
  <2>2. sent' = sent /\ InChannel' = InChannel \union {inbox}
    BY <1>6, <2>1, ContentOfAppend DEF InChannel, Content
  <2>3. QED
    BY <1>10, <2>2 DEF Enqueue, CallbackReturns
<1>11. CASE Unreadable \/ FetchFails
  <2>1. sent' = sent /\ InChannel' = InChannel
    BY <1>6, <1>7, <1>11 DEF Unreadable, FetchFails, CallbackReturns
  <2>2. QED
    BY <1>11, <2>1 DEF Unreadable, FetchFails, CallbackReturns
<1>12. CASE Dispatch
  <2>1. cmdCh \in Seq(Command) /\ cmdCh # <<>> /\ cmdCh' = Tail(cmdCh)
    BY <1>12 DEF Dispatch, CoreInv, TypeOK
  <2>2. InChannel = {Head(cmdCh)} \union InChannel'
    <3>1. Content(cmdCh) = {Head(cmdCh)} \union Content(Tail(cmdCh))
      BY <2>1, ContentOfTail
    <3>2. QED  BY <2>1, <3>1 DEF InChannel, Content
  <2>3. sent' = sent
    BY <1>6, <1>12 DEF Dispatch
  <2>4. handled' = handled \union {Head(cmdCh)} /\ abandoned' = abandoned
    BY <1>12 DEF Dispatch, Spawn
  <2>5. pending' = pending /\ inbox' = inbox /\ acking' = acking
    BY <1>12 DEF Dispatch
  <2>6. QED
    BY <2>2, <2>3, <2>4, <2>5
<1>13. CASE FetchDetail
  <2>1. sent' = sent /\ InChannel' = InChannel
    BY <1>6, <1>7, <1>13 DEF FetchDetail
  <2>2. QED
    BY <1>13, <2>1 DEF FetchDetail, Spawn
<1>14. CASE Exit \/ Crash
  <2>1. Die
    BY <1>14 DEF Exit, Crash
  <2>2. sent' = sent /\ None \notin sent
    BY <1>6, <2>1 DEF Die, sent
  <2>3. QED
    BY <2>1, <2>2 DEF Die, InChannel
<1>15. CASE UNCHANGED vars
  BY <1>1, <1>15 DEF vars
<1>16. QED
  BY <1>2, <1>3, <1>4, <1>4a, <1>5, <1>8, <1>9, <1>10, <1>11, <1>12, <1>13, <1>14,
     <1>15 DEF Next

(* Once sent a command waits at the server, is on its way into a handler,  *)
(* was given one, or was given up by a crash, an exit, a failed fetch or   *)
(* an unreadable payload: redelivery, acknowledgement and shutdown lose    *)
(* none (mqtt_broker.go, redis_broker.go).                                 *)
THEOREM NothingVanishes == Spec => []NoneVanishes
<1>1. Init => NoneVanishes /\ AckedIsTaken
  BY DEF Init, NoneVanishes, AckedIsTaken, sent
<1>2. CoreInv /\ (NoneVanishes /\ AckedIsTaken) /\ [Next]_vars
        => (NoneVanishes /\ AckedIsTaken)'
  BY VanishStep
<1>3. QED
  BY <1>1, <1>2, CoreInvariance, PTL DEF Spec

-----------------------------------------------------------------------------
(* The status topic: from the publication of OnConnect until Close a       *)
(* device that stays connected is "online"; the will of an earlier         *)
(* connection is published before, never after.                            *)
THEOREM OnlineWhileConnected == Spec => []ConnectedIsOnline
<1> DEFINE Online == NoWillWhileUp /\ ConnectedIsOnline
<1>1. Init => Online
  BY DEF Init, NoWillWhileUp, ConnectedIsOnline
<1>2. CoreInv /\ Online /\ [Next]_vars => Online'
  <2> SUFFICES ASSUME CoreInv, Online, [Next]_vars  PROVE Online'
    OBVIOUS
  <2> USE DEF NoWillWhileUp, ConnectedIsOnline, Fault, Turn, Break, TakeOver, Unclean,
              procVars, linkVars, presence, queueVars, handlerVars, histVars, reportVars, bounds
  <2>1. CASE Start
    BY <2>1 DEF Start, CoreInv, DownIsEmpty
  <2>2. CASE \/ PublishOnline \/ OnlineArrives \/ Subscribe \/ SubscribeFails
             \/ PublishWill \/ LoseConnection \/ Reconnect
    <3>1. CASE PublishOnline
      BY <3>1 DEF PublishOnline
    <3>2. CASE OnlineArrives
      BY <3>2 DEF OnlineArrives
    <3>3. CASE Subscribe \/ SubscribeFails
      BY <3>3 DEF Subscribe, SubscribeFails
    <3>4. CASE PublishWill \/ LoseConnection \/ Reconnect
      BY <3>4 DEF PublishWill, LoseConnection, Reconnect
    <3>5. QED  BY <2>2, <3>1, <3>2, <3>3, <3>4
  <2>3. CASE Sigterm \/ Close \/ Disconnect \/ RunReturns
    BY <2>3 DEF Sigterm, Close, Disconnect, RunReturns
  <2>4. CASE Exit \/ Crash
    BY <2>4 DEF Exit, Crash, Die
  <2>5. ASSUME UNCHANGED <<proc, conn, onConnect, sending, status, will>>  PROVE Online'
    BY <2>5
  <2>6. ASSUME NEW c \in Command,
               \/ Send(c) \/ Unrouted(c) \/ Callback(c) \/ PubAck(c)
               \/ BLPop(c) \/ PopLost(c)
        PROVE  Online'
    BY <2>5, <2>6 DEF Send, Unrouted, Callback, PubAck, BLPop, PopLost
  <2>7. CASE Enqueue \/ Unreadable \/ Dispatch \/ FetchDetail \/ FetchFails
    BY <2>5, <2>7 DEF Enqueue, Unreadable, CallbackReturns, Dispatch, FetchDetail,
       FetchFails
  <2>8. ASSUME NEW h \in Slot, Handle(h)  PROVE Online'
    BY <2>5, <2>8 DEF Handle, Ack, Open, Accept, Progress, Execute, Panic, Summary,
       Final, handlerRest
  <2>9. ASSUME NEW h \in Slot, NEW m \in Messages, Unanswered(h, m)  PROVE Online'
    BY <2>5, <2>9 DEF Unanswered
  <2>10. CASE UNCHANGED vars
    BY <2>5, <2>10 DEF vars
  <2>11. QED
    BY <2>1, <2>2, <2>3, <2>4, <2>6, <2>7, <2>8, <2>9, <2>10 DEF Next
<1>3. QED
  BY <1>1, <1>2, CoreInvariance, PTL DEF Spec

-----------------------------------------------------------------------------
(* Slots and places in cmdCh are finitely many.                            *)
LEMMA FiniteSlots ==
    ASSUME NEW T, T \subseteq Slot  PROVE IsFiniteSet(T) /\ Cardinality(T) \in Nat
<1>1. IsFiniteSet(Slot)
  BY FS_Interval, CommandsConstants DEF Slot
<1>2. QED
  BY <1>1, FS_Subset, FS_CardinalityType

(* The same for the places of a channel q.                                 *)
LEMMA FinitePlaces ==
    ASSUME NEW q \in Seq(Command), NEW T, T \subseteq 1..Len(q)
    PROVE  IsFiniteSet(T) /\ Cardinality(T) \in Nat
<1>1. IsFiniteSet(1..Len(q))
  BY LenProperties, FS_Interval
<1>2. QED
  BY <1>1, FS_Subset, FS_CardinalityType

(* So the numbers of places a delivery can be in are natural.              *)
LEMMA PlacesFinite ==
    ASSUME CoreInv, NEW c
    PROVE  /\ IsFiniteSet(Handling(c)) /\ Cardinality(Handling(c)) \in Nat
           /\ IsFiniteSet(ToRun(c)) /\ Cardinality(ToRun(c)) \in Nat
           /\ IsFiniteSet(Queued(c)) /\ Cardinality(Queued(c)) \in Nat
           /\ InHand(c) \in Nat /\ Waiting(c) \in Nat
<1>1. /\ Handling(c) \subseteq Slot /\ ToRun(c) \subseteq Slot
      /\ cmdCh \in Seq(Command) /\ Queued(c) \subseteq 1..Len(cmdCh)
  BY DEF Handling, ToRun, Queued, CoreInv, TypeOK
<1>2. QED
  BY <1>1, FiniteSlots, FinitePlaces DEF InHand, Waiting

(* cmdCh takes a command in: one more is queued of that command only.      *)
LEMMA QueuedAppend ==
    ASSUME CoreInv, NEW x \in Command, cmdCh' = Append(cmdCh, x), NEW c
    PROVE  Cardinality(Queued(c)') <= Cardinality(Queued(c)) + IF c = x THEN 1 ELSE 0
<1>1. /\ cmdCh \in Seq(Command) /\ Len(cmdCh) \in Nat /\ Len(cmdCh') = Len(cmdCh) + 1
      /\ \A i \in 1..Len(cmdCh) : cmdCh'[i] = cmdCh[i]
      /\ cmdCh'[Len(cmdCh) + 1] = x
  BY AppendProperties, LenProperties DEF CoreInv, TypeOK
<1>2. IsFiniteSet(Queued(c)) /\ Cardinality(Queued(c)) \in Nat
  BY PlacesFinite
<1>3. CASE c = x
  <2>1. Queued(c)' = Queued(c) \union {Len(cmdCh) + 1}
    BY <1>1, <1>3 DEF Queued
  <2>2. QED
    <3>1. Cardinality(Queued(c) \union {Len(cmdCh) + 1})
            = IF Len(cmdCh) + 1 \in Queued(c) THEN Cardinality(Queued(c))
              ELSE Cardinality(Queued(c)) + 1
      BY <1>2, FS_AddElement
    <3>2. QED  BY <1>2, <1>3, <2>1, <3>1
<1>4. CASE c # x
  <2>1. Queued(c)' = Queued(c)
    BY <1>1, <1>4 DEF Queued
  <2>2. QED
    BY <1>2, <1>4, <2>1
<1>5. QED  BY <1>3, <1>4

(* MQTTBroker.Run takes a command out: one less is queued of it.           *)
LEMMA QueuedTail ==
    ASSUME CoreInv, cmdCh # <<>>, cmdCh' = Tail(cmdCh), NEW c
    PROVE  Cardinality(Queued(c)') + (IF c = Head(cmdCh) THEN 1 ELSE 0)
             <= Cardinality(Queued(c))
<1>1. /\ cmdCh \in Seq(Command) /\ Len(cmdCh) \in Nat \ {0}
      /\ Head(cmdCh) = cmdCh[1]
      /\ Len(cmdCh') = Len(cmdCh) - 1
      /\ \A i \in 1..Len(cmdCh') : cmdCh'[i] = cmdCh[i + 1]
  BY HeadTailProperties, ContentOfTail DEF CoreInv, TypeOK
<1>2. IsFiniteSet(Queued(c)) /\ Cardinality(Queued(c)) \in Nat
  BY PlacesFinite
<1> DEFINE Rest == Queued(c) \ {1}
           f == [i \in Queued(c)' |-> i + 1]
<1>3. IsFiniteSet(Rest) /\ Cardinality(Rest) \in Nat
      /\ Cardinality(Rest) = IF c = Head(cmdCh) THEN Cardinality(Queued(c)) - 1
                             ELSE Cardinality(Queued(c))
  <2>1. 1 \in Queued(c) <=> c = Head(cmdCh)
    BY <1>1 DEF Queued
  <2>2. QED
    BY <1>2, <2>1, FS_RemoveElement, FS_CardinalityType
<1>4. f \in Injection(Queued(c)', Rest)
  <2>1. \A i \in Queued(c)' : i \in Nat /\ i + 1 \in Rest
    BY <1>1 DEF Queued
  <2>2. QED
    BY <2>1 DEF Injection, IsInjective
<1> HIDE DEF Rest, f
<1>5. /\ IsFiniteSet(Queued(c)') /\ Cardinality(Queued(c)') \in Nat
      /\ Cardinality(Queued(c)') <= Cardinality(Rest)
  BY <1>3, <1>4, FS_Injection, FS_CardinalityType
<1>6. QED
  BY <1>2, <1>3, <1>5

(* Counting: a set that gained at most one element, and one that lost one. *)
LEMMA CardinalitySteps ==
    ASSUME NEW S, NEW T, NEW x, IsFiniteSet(S)
    PROVE  /\ Cardinality(S) \in Nat
           /\ T \subseteq S => Cardinality(T) \in Nat /\ Cardinality(T) <= Cardinality(S)
           /\ T \subseteq S \union {x} =>
                Cardinality(T) \in Nat /\ Cardinality(T) <= Cardinality(S) + 1
           /\ x \in S /\ T \subseteq S \ {x} =>
                Cardinality(T) \in Nat /\ Cardinality(T) + 1 <= Cardinality(S)
<1>0. Cardinality(S) \in Nat
  BY FS_CardinalityType
<1>1. ASSUME NEW U, IsFiniteSet(U), T \subseteq U
      PROVE  Cardinality(T) \in Nat /\ Cardinality(T) <= Cardinality(U)
  BY <1>1, FS_Subset, FS_CardinalityType
<1>2. IsFiniteSet(S \union {x}) /\ Cardinality(S \union {x}) =
        IF x \in S THEN Cardinality(S) ELSE Cardinality(S) + 1
  BY FS_AddElement
<1>3. IsFiniteSet(S \ {x}) /\ Cardinality(S \ {x}) =
        IF x \in S THEN Cardinality(S) - 1 ELSE Cardinality(S)
  BY FS_RemoveElement
<1>4. T \subseteq S \union {x} =>
        Cardinality(T) \in Nat /\ Cardinality(T) <= Cardinality(S \union {x})
  BY <1>1, <1>2
<1>5. T \subseteq S \ {x} =>
        Cardinality(T) \in Nat /\ Cardinality(T) <= Cardinality(S \ {x})
  BY <1>1, <1>3
<1>6. QED
  BY <1>0, <1>1, <1>2, <1>3, <1>4, <1>5

(* A new handler is one more that handles its command, and no other.       *)
LEMMA SpawnCounts ==
    ASSUME CoreInv, NEW x \in Command, Spawn(x), NEW c \in Command
    PROVE  /\ Cardinality(Handling(c)') \in Nat /\ Cardinality(ToRun(c)') \in Nat
           /\ Cardinality(Handling(c)') <=
                Cardinality(Handling(c)) + IF c = x THEN 1 ELSE 0
           /\ Cardinality(ToRun(c)') <= Cardinality(ToRun(c)) + IF c = x THEN 1 ELSE 0
           /\ UNCHANGED <<deliveries, executed, settled, repeats>>
<1>1. PICK g \in Slot :
        /\ hpc[g] = "free"
        /\ hcmd' = [hcmd EXCEPT ![g] = x]
        /\ hpc' = [hpc EXCEPT ![g] = IF transport = "mqtt" THEN "ack" ELSE "open"]
        /\ UNCHANGED <<deliveries, executed, settled, repeats>>
  BY DEF Spawn, reportVars
<1>2. IsFiniteSet(Handling(c)) /\ IsFiniteSet(ToRun(c))
  BY PlacesFinite
<1>3. CASE c = x
  <2>1. Handling(c)' \subseteq Handling(c) \union {g} /\ ToRun(c)' \subseteq ToRun(c) \union {g}
    BY <1>1 DEF Handling, ToRun, CoreInv, TypeOK
  <2>2. QED
    <3>1. Cardinality(Handling(c)') \in Nat
          /\ Cardinality(Handling(c)') <= Cardinality(Handling(c)) + 1
      BY <1>2, <2>1, CardinalitySteps
    <3>2. Cardinality(ToRun(c)') \in Nat
          /\ Cardinality(ToRun(c)') <= Cardinality(ToRun(c)) + 1
      BY <1>2, <2>1, CardinalitySteps
    <3>3. QED  BY <1>1, <1>3, <3>1, <3>2
<1>4. CASE c # x
  <2>1. Handling(c)' \subseteq Handling(c) /\ ToRun(c)' \subseteq ToRun(c)
    BY <1>1, <1>4 DEF Handling, ToRun, CoreInv, TypeOK
  <2>2. QED
    <3>1. /\ Cardinality(Handling(c)) \in Nat /\ Cardinality(Handling(c)') \in Nat
          /\ Cardinality(Handling(c)') <= Cardinality(Handling(c))
      BY <1>2, <2>1, CardinalitySteps
    <3>2. /\ Cardinality(ToRun(c)) \in Nat /\ Cardinality(ToRun(c)') \in Nat
          /\ Cardinality(ToRun(c)') <= Cardinality(ToRun(c))
      BY <1>2, <2>1, CardinalitySteps
    <3>3. QED  BY <1>1, <1>4, <3>1, <3>2
<1>5. QED  BY <1>3, <1>4

(* Every step keeps the account of deliveries.                             *)
LEMMA AccountStep ==
    ASSUME CoreInv, CoreInv', RunAccount, ReportAccount, PlaceAccount, [Next]_vars
    PROVE  RunAccount' /\ ReportAccount' /\ PlaceAccount'
<1> SUFFICES ASSUME NEW c \in Command
             PROVE  /\ executed'[c] + Cardinality(ToRun(c)') + Waiting(c)' <= deliveries'[c]
                    /\ settled'[c] + Cardinality(Handling(c)') + Waiting(c)'
                         <= deliveries'[c] + repeats'[c]
                    /\ Cardinality(Handling(c)') + Waiting(c)' <= deliveries'[c]
  BY DEF RunAccount, ReportAccount, PlaceAccount
<1> DEFINE Goal ==
      /\ executed'[c] + Cardinality(ToRun(c)') + Waiting(c)' <= deliveries'[c]
      /\ settled'[c] + Cardinality(Handling(c)') + Waiting(c)'
           <= deliveries'[c] + repeats'[c]
      /\ Cardinality(Handling(c)') + Waiting(c)' <= deliveries'[c]
<1> USE CommandsConstants
    DEF procVars, linkVars, presence, queueVars, handlerVars, histVars,
        reportVars, bounds
<1>1. /\ executed[c] + Cardinality(ToRun(c)) + Waiting(c) <= deliveries[c]
      /\ settled[c] + Cardinality(Handling(c)) + Waiting(c) <= deliveries[c] + repeats[c]
      /\ Cardinality(Handling(c)) + Waiting(c) <= deliveries[c]
  BY DEF RunAccount, ReportAccount, PlaceAccount
<1>2. /\ executed[c] \in Nat /\ settled[c] \in Nat /\ deliveries[c] \in Nat
      /\ repeats[c] \in Nat /\ repeats'[c] \in Nat
      /\ executed'[c] \in Nat /\ settled'[c] \in Nat /\ deliveries'[c] \in Nat
  BY DEF CoreInv, TypeOK
<1>3. /\ IsFiniteSet(Handling(c)) /\ Cardinality(Handling(c)) \in Nat
      /\ IsFiniteSet(ToRun(c)) /\ Cardinality(ToRun(c)) \in Nat
      /\ Cardinality(Queued(c)) \in Nat /\ InHand(c) \in Nat /\ Waiting(c) \in Nat
  BY PlacesFinite
<1>4. /\ Cardinality(Handling(c)') \in Nat /\ Cardinality(ToRun(c)') \in Nat
      /\ Cardinality(Queued(c)') \in Nat /\ InHand(c)' \in Nat /\ Waiting(c)' \in Nat
  <2>1. /\ Handling(c)' \subseteq Slot /\ ToRun(c)' \subseteq Slot
        /\ cmdCh' \in Seq(Command) /\ Queued(c)' \subseteq 1..Len(cmdCh')
    BY DEF Handling, ToRun, Queued, CoreInv, TypeOK
  <2>2. QED
    BY <2>1, FiniteSlots, FinitePlaces DEF InHand, Waiting
<1>5. ASSUME cmdCh' = cmdCh  PROVE Queued(c)' = Queued(c)
  BY <1>5 DEF Queued
<1>6. ASSUME UNCHANGED <<hcmd, hpc>>
      PROVE  Handling(c)' = Handling(c) /\ ToRun(c)' = ToRun(c)
  BY <1>6 DEF Handling, ToRun
<1>7. ASSUME UNCHANGED <<hcmd, hpc, cmdCh, inbox, executed, settled, repeats,
                         deliveries>>
      PROVE  Goal
  <2>1. Waiting(c)' = Waiting(c)
    BY <1>5, <1>7 DEF Waiting, InHand
  <2>2. QED
    BY <1>1, <1>6, <1>7, <2>1
<1>8. ASSUME NEW x \in Command, Send(x) \/ Unrouted(x) \/ PubAck(x) \/ PopLost(x)
      PROVE  Goal
  BY <1>7, <1>8 DEF Send, Unrouted, PubAck, PopLost
<1>9. CASE \/ Start \/ PublishOnline \/ OnlineArrives \/ Subscribe \/ SubscribeFails
           \/ PublishWill \/ LoseConnection \/ Reconnect
  BY <1>7, <1>9 DEF Start, PublishOnline, OnlineArrives, Subscribe, SubscribeFails,
     PublishWill, LoseConnection, Reconnect
<1>10. CASE Sigterm \/ Close \/ Disconnect \/ RunReturns
  BY <1>7, <1>10 DEF Sigterm, Close, Disconnect, RunReturns
<1>11. ASSUME NEW x \in Command, Callback(x) \/ BLPop(x)  PROVE Goal
  <2>1. /\ inbox = None /\ inbox' = x /\ cmdCh' = cmdCh
        /\ deliveries' = [deliveries EXCEPT ![x] = @ + 1]
        /\ UNCHANGED <<hcmd, hpc, executed, settled, repeats>>
    BY <1>11 DEF Callback, BLPop, Deliverable, Popped
  <2>2. deliveries'[c] = deliveries[c] + IF c = x THEN 1 ELSE 0
    BY <1>2, <2>1 DEF CoreInv, TypeOK
  <2>3. Waiting(c)' = Waiting(c) + IF c = x THEN 1 ELSE 0
    BY <1>3, <1>5, <2>1 DEF Waiting, InHand
  <2>4. QED
    BY <1>1, <1>2, <1>3, <1>6, <2>1, <2>2, <2>3
<1>12. CASE Enqueue
  <2>1. /\ inbox \in Command /\ inbox' = None /\ cmdCh' = Append(cmdCh, inbox)
        /\ UNCHANGED <<hcmd, hpc, executed, settled, repeats, deliveries>>
    BY <1>12 DEF Enqueue, CallbackReturns, CoreInv, TypeOK
  <2>2. Cardinality(Queued(c)') <= Cardinality(Queued(c)) + IF c = inbox THEN 1 ELSE 0
    BY <2>1, QueuedAppend
  <2>3. Waiting(c)' <= Waiting(c)
    BY <1>3, <1>4, <2>1, <2>2 DEF Waiting, InHand
  <2>4. /\ Handling(c)' = Handling(c) /\ ToRun(c)' = ToRun(c)
        /\ UNCHANGED <<executed, settled, repeats, deliveries>>
    BY <1>6, <2>1
  <2>5. QED
    BY <1>1, <1>2, <1>3, <1>4, <2>3, <2>4
<1>13. CASE Unreadable \/ FetchFails
  <2>1. /\ inbox' = None
        /\ UNCHANGED <<hcmd, hpc, cmdCh, executed, settled, repeats, deliveries>>
    BY <1>13 DEF Unreadable, FetchFails, CallbackReturns
  <2>2. Waiting(c)' <= Waiting(c)
    BY <1>3, <1>4, <1>5, <2>1 DEF Waiting, InHand
  <2>3. QED
    BY <1>1, <1>2, <1>3, <1>4, <1>6, <2>1, <2>2
<1>14. CASE Dispatch
  <2> DEFINE x == Head(cmdCh)
  <2>1. cmdCh # <<>> /\ cmdCh' = Tail(cmdCh) /\ inbox' = inbox /\ Spawn(x)
    BY <1>14 DEF Dispatch
  <2>2. x \in Command
    <3>1. cmdCh \in Seq(Command)
      BY DEF CoreInv, TypeOK
    <3>2. QED  BY <2>1, <3>1, ContentOfTail
  <2>3. Cardinality(Queued(c)') + (IF c = x THEN 1 ELSE 0) <= Cardinality(Queued(c))
    BY <2>1, QueuedTail
  <2> HIDE DEF x
  <2>4. Waiting(c)' + (IF c = x THEN 1 ELSE 0) <= Waiting(c)
    BY <1>3, <1>4, <2>1, <2>3 DEF Waiting, InHand
  <2>5. /\ Cardinality(Handling(c)') <=
             Cardinality(Handling(c)) + IF c = x THEN 1 ELSE 0
        /\ Cardinality(ToRun(c)') <= Cardinality(ToRun(c)) + IF c = x THEN 1 ELSE 0
        /\ UNCHANGED <<deliveries, executed, settled, repeats>>
    BY <2>1, <2>2, SpawnCounts
  <2>6. QED
    BY <1>1, <1>2, <1>3, <1>4, <2>4, <2>5
<1>15. CASE FetchDetail
  <2>1. inbox \in Command /\ cmdCh' = cmdCh /\ inbox' = None /\ Spawn(inbox)
    BY <1>15 DEF FetchDetail, CoreInv, TypeOK
  <2>2. Waiting(c)' + (IF c = inbox THEN 1 ELSE 0) <= Waiting(c)
    BY <1>3, <1>4, <1>5, <2>1 DEF Waiting, InHand
  <2>3. /\ Cardinality(Handling(c)') <=
             Cardinality(Handling(c)) + IF c = inbox THEN 1 ELSE 0
        /\ Cardinality(ToRun(c)') <= Cardinality(ToRun(c)) + IF c = inbox THEN 1 ELSE 0
        /\ UNCHANGED <<deliveries, executed, settled, repeats>>
    BY <2>1, SpawnCounts
  <2>4. QED
    BY <1>1, <1>2, <1>3, <1>4, <2>2, <2>3
<1>16. ASSUME NEW h \in Slot, Handle(h)  PROVE Goal
  <2> USE DEF At, Goto, handlerRest
  <2>1. /\ hpc[h] # "free" /\ hcmd[h] \in Command
        /\ UNCHANGED <<cmdCh, inbox, deliveries>>
    <3>1. hpc[h] # "free" /\ UNCHANGED <<cmdCh, inbox, deliveries>>
      BY <1>16 DEF Handle, Ack, Open, Accept, Progress, Execute, Panic, Summary, Final
    <3>2. QED  BY <3>1 DEF CoreInv, TypeOK
  <2>2. Waiting(c)' = Waiting(c)
    BY <1>5, <2>1 DEF Waiting, InHand
  <2>3. ASSUME Handling(c)' \subseteq Handling(c), ToRun(c)' \subseteq ToRun(c),
               executed'[c] <= executed[c], settled'[c] <= settled[c],
               repeats'[c] = repeats[c]
        PROVE  Goal
    <3>1. Cardinality(Handling(c)') <= Cardinality(Handling(c))
      BY <1>3, <2>3, CardinalitySteps
    <3>2. Cardinality(ToRun(c)') <= Cardinality(ToRun(c))
      BY <1>3, <2>3, CardinalitySteps
    <3>3. QED
      BY <1>1, <1>2, <1>3, <1>4, <2>1, <2>2, <2>3, <3>1, <3>2
  <2>4. CASE Ack(h) \/ Accept(h) \/ Progress(h) \/ Summary(h)
    <3>1. /\ hcmd' = hcmd /\ executed' = executed
          /\ \E m \in Messages \ {"s2", "s3"} : Tell(h, m)
      BY <2>4 DEF Ack, Accept, Progress, Summary, Messages, finalStatus
    <3>2. settled'[c] <= settled[c] /\ repeats'[c] = repeats[c]
      BY <1>2, <2>1, <3>1, TellAbout
    <3>3. Handling(c)' \subseteq Handling(c) /\ ToRun(c)' \subseteq ToRun(c)
      BY <2>4, SMTT(40) DEF Ack, Accept, Progress, Summary, Handling, ToRun, CoreInv, TypeOK
    <3>4. QED
      BY <1>2, <2>3, <3>1, <3>2, <3>3
  <2>5. CASE Open(h)
    <3>1. executed' = executed /\ settled' = settled /\ repeats' = repeats
      BY <2>5 DEF Open
    <3>2. Handling(c)' \subseteq Handling(c) /\ ToRun(c)' \subseteq ToRun(c)
      BY <2>5 DEF Open, Handling, ToRun, CoreInv, TypeOK
    <3>3. QED
      BY <1>2, <2>3, <3>1, <3>2
  <2>6. CASE Execute(h) \/ Panic(h)
    <3>1. /\ hcmd' = hcmd /\ settled' = settled /\ repeats' = repeats
          /\ hpc[h] = "execute"
          /\ hpc'[h] \in {"summary", "final"}
          /\ \A g \in Slot : g # h => hpc'[g] = hpc[g]
          /\ executed' = [executed EXCEPT ![hcmd[h]] = @ + 1]
      BY <2>6 DEF Execute, Panic, CoreInv, TypeOK
    <3>2. Handling(c)' = Handling(c)
      BY <3>1 DEF Handling
    <3>3. CASE c = hcmd[h]
      <4>1. h \in ToRun(c) /\ ToRun(c)' \subseteq ToRun(c) \ {h}
        BY <3>1, <3>3 DEF Handling, ToRun
      <4>2. Cardinality(ToRun(c)') + 1 <= Cardinality(ToRun(c))
        BY <1>3, <4>1, CardinalitySteps
      <4>3. executed'[c] = executed[c] + 1
        BY <3>1, <3>3 DEF CoreInv, TypeOK
      <4>4. QED
        BY <1>1, <1>2, <1>3, <1>4, <2>1, <2>2, <3>1, <3>2, <4>2, <4>3
    <3>4. CASE c # hcmd[h]
      <4>1. ToRun(c)' \subseteq ToRun(c)
        BY <3>1, <3>4 DEF Handling, ToRun
      <4>2. executed'[c] = executed[c]
        BY <3>1, <3>4 DEF CoreInv, TypeOK
      <4>3. QED
        BY <1>2, <2>3, <3>1, <3>2, <4>1, <4>2
    <3>5. QED  BY <3>3, <3>4
  <2>7. CASE Final(h)
    <3>1. /\ executed' = executed /\ hpc[h] = "final"
          /\ hpc' = [hpc EXCEPT ![h] = "free"] /\ hcmd' = [hcmd EXCEPT ![h] = None]
      BY <2>7 DEF Final
    <3>2. Tell(h, hstatus[h]) /\ hstatus[h] \in Messages
      BY <2>7 DEF Final, CoreInv, TypeOK, EndIsKnown, Messages
    <3>3. /\ settled'[c] <= settled[c] + IF c = hcmd[h] THEN 1 ELSE 0
          /\ repeats'[c] = repeats[c]
      BY <1>2, <2>1, <3>2, TellAbout
    <3>4. ToRun(c)' \subseteq ToRun(c) /\ Handling(c)' \subseteq Handling(c)
      BY <3>1, SMTT(40) DEF Handling, ToRun, CoreInv, TypeOK
    <3>5. CASE c = hcmd[h]
      <4>1. h \in Handling(c) /\ Handling(c)' \subseteq Handling(c) \ {h}
        BY <3>1, <3>5, SMTT(60) DEF Handling, CoreInv, TypeOK
      <4>2. Cardinality(Handling(c)') + 1 <= Cardinality(Handling(c))
        BY <1>3, <4>1, CardinalitySteps
      <4>3. Cardinality(ToRun(c)') <= Cardinality(ToRun(c))
        BY <1>3, <3>4, CardinalitySteps
      <4>4. QED
        BY <1>1, <1>2, <1>3, <1>4, <2>1, <2>2, <3>1, <3>3, <3>5, <4>2, <4>3
    <3>6. CASE c # hcmd[h]
      BY <1>2, <2>3, <3>1, <3>3, <3>4, <3>6
    <3>7. QED  BY <3>5, <3>6
  <2>8. QED
    BY <1>16, <2>4, <2>5, <2>6, <2>7 DEF Handle
<1>16a. ASSUME NEW h \in Slot, NEW m \in Messages, Unanswered(h, m)  PROVE Goal
  <2>1. UNCHANGED <<hcmd, hpc, cmdCh, inbox, executed, deliveries>>
    BY <1>16a DEF Unanswered
  <2>2. Waiting(c)' = Waiting(c)
    BY <1>5, <2>1 DEF Waiting, InHand
  <2>3. \/ settled'[c] = settled[c] /\ repeats'[c] = repeats[c]
        \/ settled'[c] = settled[c] + 1 /\ repeats'[c] = repeats[c] + 1
    BY <1>16a, UnansweredAbout
  <2>4. QED
    BY <1>1, <1>2, <1>3, <1>6, <2>1, <2>2, <2>3
<1>17. CASE Exit \/ Crash
  <2>1. Die
    BY <1>17 DEF Exit, Crash
  <2>2. Handling(c)' = {} /\ ToRun(c)' = {} /\ Queued(c)' = {} /\ InHand(c)' = 0
    BY <2>1 DEF Die, Handling, ToRun, Queued, InHand
  <2>3. UNCHANGED <<executed, settled, repeats, deliveries>>
    BY <2>1 DEF Die
  <2>4. Cardinality({}) = 0
    BY FS_EmptySet
  <2>5. QED
    BY <1>1, <1>2, <1>3, <2>2, <2>3, <2>4 DEF Waiting
<1>18. CASE UNCHANGED vars
  BY <1>7, <1>18 DEF vars
<1>19. QED
  BY <1>8, <1>9, <1>10, <1>11, <1>12, <1>13, <1>14, <1>15, <1>16, <1>16a, <1>17,
     <1>18 DEF Next

(* The account of deliveries holds always.                                 *)
THEOREM DeliveryAccount == Spec => [](RunAccount /\ ReportAccount /\ PlaceAccount)
<1> DEFINE Account == RunAccount /\ ReportAccount /\ PlaceAccount
<1>1. Init => Account
  <2> SUFFICES ASSUME Init, NEW c \in Command
               PROVE  /\ executed[c] + Cardinality(ToRun(c)) + Waiting(c) <= deliveries[c]
                      /\ settled[c] + Cardinality(Handling(c)) + Waiting(c)
                           <= deliveries[c] + repeats[c]
                      /\ Cardinality(Handling(c)) + Waiting(c) <= deliveries[c]
    BY DEF RunAccount, ReportAccount, PlaceAccount
  <2>1. executed[c] = 0 /\ settled[c] = 0 /\ deliveries[c] = 0 /\ repeats[c] = 0
    BY DEF Init
  <2>2. Handling(c) = {} /\ ToRun(c) = {} /\ Queued(c) = {} /\ InHand(c) = 0
    BY CommandsConstants DEF Init, Handling, ToRun, Queued, InHand
  <2>3. QED
    BY <2>1, <2>2, FS_EmptySet DEF Waiting
<1>2. CoreInv /\ CoreInv' /\ Account /\ [Next]_vars => Account'
  BY AccountStep
<1>3. QED
  BY <1>1, <1>2, CoreInvariance, PTL DEF Spec

(* Consumer.handleCommand: a command runs at most once per delivery; only  *)
(* the transport's own redelivery runs it again.                           *)
THEOREM OncePerDelivery == Spec => []RunsOncePerDelivery
<1>1. CoreInv /\ RunAccount => RunsOncePerDelivery
  <2> SUFFICES ASSUME CoreInv, RunAccount, NEW c \in Command
               PROVE  executed[c] <= deliveries[c]
    BY DEF RunsOncePerDelivery
  <2>1. executed[c] \in Nat /\ deliveries[c] \in Nat
    BY DEF CoreInv, TypeOK
  <2>2. Cardinality(ToRun(c)) \in Nat /\ Waiting(c) \in Nat
    BY PlacesFinite
  <2>3. executed[c] + Cardinality(ToRun(c)) + Waiting(c) <= deliveries[c]
    BY DEF RunAccount
  <2>4. QED
    BY <2>1, <2>2, <2>3
<1>2. QED
  BY <1>1, CoreInvariance, DeliveryAccount, PTL

(* The only delivery of a command has one place only.                      *)
LEMMA AloneWithOne ==
    ASSUME CoreInv, PlaceAccount, NEW c \in Command, NEW h \in Handling(c)
    PROVE  /\ deliveries[c] > 0
           /\ deliveries[c] = 1 => Waiting(c) = 0 /\ \A g \in Handling(c) : g = h
<1>1. /\ IsFiniteSet(Handling(c)) /\ Cardinality(Handling(c)) \in Nat
      /\ Waiting(c) \in Nat
  BY PlacesFinite
<1>2. deliveries[c] \in Nat /\ Cardinality(Handling(c)) + Waiting(c) <= deliveries[c]
  BY DEF PlaceAccount, CoreInv, TypeOK
<1> DEFINE Others == Handling(c) \ {h}
<1>3. Cardinality(Others) \in Nat /\ Cardinality(Others) + 1 <= Cardinality(Handling(c))
      /\ IsFiniteSet(Others)
  BY <1>1, CardinalitySteps, FS_Subset
<1>4. ASSUME NEW g \in Handling(c), g # h  PROVE Cardinality(Others) # 0
  BY <1>3, <1>4, FS_EmptySet
<1> HIDE DEF Others
<1>5. QED
  BY <1>1, <1>2, <1>3, <1>4

(* Every step leaves a settled command to its own repetition.              *)
LEMMA RepeatStep ==
    ASSUME CoreInv, CoreInv', PlaceAccount, OnlyRepeats, [Next]_vars
    PROVE  OnlyRepeats'
<1> DEFINE Quiet(c) ==
      /\ deliveries'[c] > 0
      /\ deliveries'[c] = 1 =>
           /\ Waiting(c)' = 0
           /\ \A h \in Handling(c)' : hpc'[h] = "final" /\ hstatus'[h] = told'[c]
<1> SUFFICES ASSUME NEW c \in Command, settled'[c] > 0  PROVE Quiet(c)
  BY DEF OnlyRepeats
<1> USE CommandsConstants
    DEF procVars, linkVars, presence, queueVars, handlerVars, histVars,
        reportVars, bounds
<1>1. settled[c] > 0 =>
        /\ deliveries[c] > 0
        /\ deliveries[c] = 1 =>
             /\ Waiting(c) = 0
             /\ \A h \in Handling(c) : hpc[h] = "final" /\ hstatus[h] = told[c]
  BY DEF OnlyRepeats
<1>2. /\ settled[c] \in Nat /\ settled'[c] \in Nat
      /\ deliveries[c] \in Nat /\ deliveries'[c] \in Nat
  BY DEF CoreInv, TypeOK
<1>3. Cardinality(Queued(c)) \in Nat /\ InHand(c) \in Nat /\ Waiting(c) \in Nat
  BY PlacesFinite
<1>4. Cardinality(Queued(c)') \in Nat /\ InHand(c)' \in Nat /\ Waiting(c)' \in Nat
  <2>1. cmdCh' \in Seq(Command) /\ Queued(c)' \subseteq 1..Len(cmdCh')
    BY DEF Queued, CoreInv, TypeOK
  <2>2. QED
    BY <2>1, FinitePlaces DEF InHand, Waiting
<1>5. ASSUME cmdCh' = cmdCh  PROVE Queued(c)' = Queued(c)
  BY <1>5 DEF Queued
<1>6. ASSUME settled'[c] = settled[c], deliveries'[c] = deliveries[c],
             Waiting(c) = 0 => Waiting(c)' = 0,
             told'[c] = told[c],
             Waiting(c) = 0 => \A h \in Handling(c)' :
               h \in Handling(c) /\ hpc'[h] = hpc[h] /\ hstatus'[h] = hstatus[h]
      PROVE  Quiet(c)
  BY <1>1, <1>6
<1>7. ASSUME UNCHANGED <<hcmd, hpc, hstatus, cmdCh, inbox, told, settled, deliveries>>
      PROVE  Quiet(c)
  <2>1. Waiting(c)' = Waiting(c) /\ Handling(c)' = Handling(c)
    BY <1>5, <1>7 DEF Waiting, InHand, Handling
  <2>2. QED  BY <1>6, <1>7, <2>1
<1>8. ASSUME NEW x \in Command, Send(x) \/ Unrouted(x) \/ PubAck(x) \/ PopLost(x)
      PROVE  Quiet(c)
  BY <1>7, <1>8 DEF Send, Unrouted, PubAck, PopLost
<1>9. CASE \/ Start \/ PublishOnline \/ OnlineArrives \/ Subscribe \/ SubscribeFails
           \/ PublishWill \/ LoseConnection \/ Reconnect
  BY <1>7, <1>9 DEF Start, PublishOnline, OnlineArrives, Subscribe, SubscribeFails,
     PublishWill, LoseConnection, Reconnect
<1>10. CASE Sigterm \/ Close \/ Disconnect \/ RunReturns
  BY <1>7, <1>10 DEF Sigterm, Close, Disconnect, RunReturns
<1>11. ASSUME NEW x \in Command, Callback(x) \/ BLPop(x)  PROVE Quiet(c)
  <2>1. /\ inbox = None /\ inbox' = x /\ cmdCh' = cmdCh
        /\ deliveries' = [deliveries EXCEPT ![x] = @ + 1]
        /\ UNCHANGED <<hcmd, hpc, hstatus, told, settled>>
    BY <1>11 DEF Callback, BLPop, Deliverable, Popped
  <2>2. deliveries'[c] = deliveries[c] + IF c = x THEN 1 ELSE 0
    BY <1>2, <2>1, SMTT(40) DEF CoreInv, TypeOK
  <2>3. CASE c = x
    BY <1>1, <1>2, <2>1, <2>2, <2>3
  <2>4. CASE c # x
    <3>1. Waiting(c)' = Waiting(c) /\ Handling(c)' = Handling(c)
      BY <1>3, <1>5, <2>1, <2>4 DEF Waiting, InHand, Handling
    <3>2. QED  BY <1>2, <1>6, <2>1, <2>2, <2>4, <3>1
  <2>5. QED  BY <2>3, <2>4
<1>12. CASE Enqueue
  <2>1. /\ inbox \in Command /\ inbox' = None /\ cmdCh' = Append(cmdCh, inbox)
        /\ UNCHANGED <<hcmd, hpc, hstatus, told, settled, deliveries>>
    BY <1>12 DEF Enqueue, CallbackReturns, CoreInv, TypeOK
  <2>2. Cardinality(Queued(c)') <= Cardinality(Queued(c)) + IF c = inbox THEN 1 ELSE 0
    BY <2>1, QueuedAppend
  <2>3. Waiting(c)' <= Waiting(c)
    BY <1>3, <1>4, <2>1, <2>2 DEF Waiting, InHand
  <2>4. Handling(c)' = Handling(c)
    BY <2>1 DEF Handling
  <2>5. Waiting(c) = 0 => Waiting(c)' = 0
    BY <1>4, <2>3
  <2>6. QED  BY <1>6, <2>1, <2>4, <2>5
<1>13. CASE Unreadable \/ FetchFails
  <2>1. /\ inbox' = None
        /\ UNCHANGED <<hcmd, hpc, hstatus, cmdCh, told, settled, deliveries>>
    BY <1>13 DEF Unreadable, FetchFails, CallbackReturns
  <2>2. Waiting(c)' <= Waiting(c)
    BY <1>3, <1>4, <1>5, <2>1 DEF Waiting, InHand
  <2>3. Handling(c)' = Handling(c)
    BY <2>1 DEF Handling
  <2>4. Waiting(c) = 0 => Waiting(c)' = 0
    BY <1>4, <2>2
  <2>5. QED  BY <1>6, <2>1, <2>3, <2>4
<1>14. ASSUME NEW x \in Command, Spawn(x),
              Waiting(c)' + (IF c = x THEN 1 ELSE 0) <= Waiting(c)
       PROVE  Quiet(c)
  <2>1. PICK g \in Slot :
          /\ hpc[g] = "free"
          /\ hcmd' = [hcmd EXCEPT ![g] = x]
          /\ hpc' = [hpc EXCEPT ![g] = IF transport = "mqtt" THEN "ack" ELSE "open"]
          /\ UNCHANGED <<hstatus, deliveries, told, settled>>
    BY <1>14 DEF Spawn
  <2>2. Waiting(c) = 0 => Waiting(c)' = 0 /\ c # x
    BY <1>3, <1>4, <1>14
  <2>3. c # x => \A h \in Handling(c)' :
                   h \in Handling(c) /\ hpc'[h] = hpc[h] /\ hstatus'[h] = hstatus[h]
    BY <2>1 DEF Handling, CoreInv, TypeOK
  <2>4. QED  BY <1>6, <2>1, <2>2, <2>3
<1>15. CASE Dispatch
  <2> DEFINE x == Head(cmdCh)
  <2>1. cmdCh # <<>> /\ cmdCh' = Tail(cmdCh) /\ inbox' = inbox /\ Spawn(x)
    BY <1>15 DEF Dispatch
  <2>2. x \in Command
    <3>1. cmdCh \in Seq(Command)
      BY DEF CoreInv, TypeOK
    <3>2. QED  BY <2>1, <3>1, ContentOfTail
  <2>3. Cardinality(Queued(c)') + (IF c = x THEN 1 ELSE 0) <= Cardinality(Queued(c))
    BY <2>1, QueuedTail
  <2> HIDE DEF x
  <2>4. Waiting(c)' + (IF c = x THEN 1 ELSE 0) <= Waiting(c)
    BY <1>3, <1>4, <2>1, <2>3 DEF Waiting, InHand
  <2>5. QED  BY <1>14, <2>1, <2>2, <2>4
<1>16. CASE FetchDetail
  <2>1. inbox \in Command /\ cmdCh' = cmdCh /\ inbox' = None /\ Spawn(inbox)
    BY <1>16 DEF FetchDetail, CoreInv, TypeOK
  <2>2. Waiting(c)' + (IF c = inbox THEN 1 ELSE 0) <= Waiting(c)
    BY <1>3, <1>4, <1>5, <2>1 DEF Waiting, InHand
  <2>3. QED  BY <1>14, <2>1, <2>2
<1>17. ASSUME NEW h \in Slot, Handle(h)  PROVE Quiet(c)
  <2> USE DEF At, Goto, handlerRest
  <2>1. /\ hpc[h] # "free" /\ hcmd[h] \in Command
        /\ UNCHANGED <<cmdCh, inbox, deliveries>>
    <3>1. hpc[h] # "free" /\ UNCHANGED <<cmdCh, inbox, deliveries>>
      BY <1>17 DEF Handle, Ack, Open, Accept, Progress, Execute, Panic, Summary, Final
    <3>2. QED  BY <3>1 DEF CoreInv, TypeOK
  <2>2. Waiting(c)' = Waiting(c)
    BY <1>5, <2>1 DEF Waiting, InHand
  <2>3. \A g \in Slot : g # h =>
          hcmd'[g] = hcmd[g] /\ hpc'[g] = hpc[g] /\ hstatus'[g] = hstatus[g]
    BY <1>17 DEF Handle, Ack, Open, Accept, Progress, Execute, Panic, Summary, Final,
       CoreInv, TypeOK
  <2>4. hcmd'[h] \in {hcmd[h], None}
    BY <1>17, <2>1 DEF Handle, Ack, Open, Accept, Progress, Execute, Panic, Summary,
       Final, CoreInv, TypeOK
  <2>5. /\ c # hcmd[h] => told'[c] = told[c] /\ settled'[c] = settled[c]
        /\ hpc[h] # "final" => settled'[c] = settled[c]
    BY <1>17, <2>1, HandleTells
  <2>6. CASE c # hcmd[h]
    <3>1. \A g \in Handling(c)' :
            g \in Handling(c) /\ hpc'[g] = hpc[g] /\ hstatus'[g] = hstatus[g]
      BY <2>1, <2>3, <2>4, <2>6 DEF Handling
    <3>2. QED  BY <1>6, <2>1, <2>2, <2>5, <2>6, <3>1
  <2>7. CASE c = hcmd[h]
    <3>1. h \in Handling(c)
      BY <2>7 DEF Handling
    <3>2. /\ deliveries[c] > 0
          /\ deliveries[c] = 1 => Waiting(c) = 0 /\ \A g \in Handling(c) : g = h
      BY <3>1, AloneWithOne
    <3>3. deliveries[c] = 1 => hpc[h] = "final"
      BY <1>1, <1>2, <2>5, <3>1
    <3>4. hpc[h] = "final" => hcmd'[h] = None
      BY <1>17 DEF Handle, Ack, Open, Accept, Progress, Execute, Panic, Summary, Final,
         CoreInv, TypeOK
    <3>5. deliveries[c] = 1 => Handling(c)' = {}
      BY <2>3, <3>2, <3>3, <3>4 DEF Handling
    <3>6. QED
      BY <2>1, <2>2, <3>2, <3>5
  <2>8. QED  BY <2>6, <2>7
<1>18. ASSUME NEW h \in Slot, NEW m \in Messages, Unanswered(h, m)  PROVE Quiet(c)
  <2>1. UNCHANGED <<hcmd, hpc, hstatus, cmdCh, inbox, deliveries>>
    BY <1>18 DEF Unanswered
  <2>2. Waiting(c)' = Waiting(c) /\ Handling(c)' = Handling(c)
    BY <1>5, <2>1 DEF Waiting, InHand, Handling
  <2>3. CASE c # hcmd[h]
    <3>1. told'[c] = told[c] /\ settled'[c] = settled[c]
      BY <1>18, <2>3, UnansweredAbout
    <3>2. QED  BY <1>6, <2>1, <2>2, <3>1
  <2>4. CASE c = hcmd[h]
    <3>1. h \in Handling(c)
      BY <2>4 DEF Handling
    <3>2. /\ deliveries[c] > 0
          /\ deliveries[c] = 1 => Waiting(c) = 0 /\ \A g \in Handling(c) : g = h
      BY <3>1, AloneWithOne
    <3>3. /\ told'[c] = m
          /\ hpc[h] = "final" => m = hstatus[h]
          /\ hpc[h] # "final" => settled'[c] = settled[c]
      BY <1>18, <2>4, UnansweredAbout
    <3>4. deliveries[c] = 1 => hpc[h] = "final"
      BY <1>1, <1>2, <3>1, <3>3
    <3>5. QED
      BY <2>1, <2>2, <3>2, <3>3, <3>4
  <2>5. QED  BY <2>3, <2>4
<1>19. CASE Exit \/ Crash
  <2>1. Die
    BY <1>19 DEF Exit, Crash
  <2>2. Handling(c)' = {} /\ Queued(c)' = {} /\ InHand(c)' = 0
    BY <2>1 DEF Die, Handling, Queued, InHand
  <2>3. UNCHANGED <<settled, deliveries>>
    BY <2>1 DEF Die
  <2>4. Waiting(c)' = 0
    BY <2>2, FS_EmptySet DEF Waiting
  <2>5. QED
    BY <1>1, <2>2, <2>3, <2>4
<1>20. CASE UNCHANGED vars
  BY <1>7, <1>20 DEF vars
<1>21. QED
  BY <1>8, <1>9, <1>10, <1>11, <1>12, <1>13, <1>15, <1>16, <1>17, <1>18, <1>19, <1>20
     DEF Next

(* A settled command delivered once is with no handler, or with one that   *)
(* repeats what the server heard last.                                     *)
LEMMA SettledRepeats == Spec => []OnlyRepeats
<1>1. Init => OnlyRepeats
  BY DEF Init, OnlyRepeats
<1>2. CoreInv /\ CoreInv' /\ PlaceAccount /\ OnlyRepeats /\ [Next]_vars => OnlyRepeats'
  BY RepeatStep
<1>3. QED
  BY <1>1, <1>2, CoreInvariance, DeliveryAccount, PTL DEF Spec

(* Consumer.handleCommand: once the server has the terminal status of a    *)
(* command delivered once, it hears nothing else of it, from any handler,  *)
(* before or after a crash; it hears that status again only if the answer  *)
(* to it was lost (client.go:92-108, mqtt_broker.go:164).                  *)
THEOREM TerminalStatusIsLast == Spec => TerminalIsLast
<1>1. CoreInv /\ ReportAccount /\ OnlyRepeats /\ [Next]_vars =>
        [\A c \in Command : deliveries[c] <= 1 /\ settled[c] > 0 =>
           \/ UNCHANGED told[c] /\ (UNCHANGED settled[c] \/ repeats[c] > 0)
           \/ deliveries'[c] > 1]_vars
  <2> DEFINE Last(c) ==
        told'[c] = told[c] /\ (settled'[c] = settled[c] \/ repeats[c] > 0)
  <2> SUFFICES ASSUME CoreInv, ReportAccount, OnlyRepeats, Next, NEW c \in Command,
                      deliveries[c] <= 1, settled[c] > 0
               PROVE  Last(c)
    OBVIOUS
  <2> USE DEF procVars, linkVars, presence, queueVars, handlerVars, histVars, reportVars,
              bounds
  <2>1. ASSUME NEW h \in Slot, hcmd[h] = c
        PROVE  hpc[h] = "final" /\ hstatus[h] = told[c] /\ repeats[c] > 0
    <3>1. /\ settled[c] \in Nat /\ deliveries[c] \in Nat /\ repeats[c] \in Nat
          /\ settled[c] + Cardinality(Handling(c)) + Waiting(c)
               <= deliveries[c] + repeats[c]
      BY DEF CoreInv, TypeOK, ReportAccount
    <3>2. /\ IsFiniteSet(Handling(c)) /\ Cardinality(Handling(c)) \in Nat
          /\ Waiting(c) \in Nat
      BY PlacesFinite
    <3>3. h \in Handling(c)
      BY <2>1 DEF Handling
    <3>4. Cardinality(Handling(c)) # 0
      BY <3>2, <3>3, FS_EmptySet
    <3>5. repeats[c] > 0
      BY <3>1, <3>2, <3>4
    <3>6. hpc[h] = "final" /\ hstatus[h] = told[c]
      BY <3>1, <3>3 DEF OnlyRepeats
    <3>7. QED  BY <3>5, <3>6
  <2>2. ASSUME UNCHANGED <<told, settled>>  PROVE Last(c)
    BY <2>2
  <2>3. ASSUME NEW x \in Command,
               \/ Send(x) \/ Unrouted(x) \/ Callback(x) \/ PubAck(x)
               \/ BLPop(x) \/ PopLost(x)
        PROVE  Last(c)
    BY <2>2, <2>3 DEF Send, Unrouted, Callback, PubAck, BLPop, PopLost
  <2>4. CASE \/ Start \/ PublishOnline \/ OnlineArrives \/ Subscribe \/ SubscribeFails
             \/ PublishWill \/ LoseConnection \/ Reconnect
    BY <2>2, <2>4 DEF Start, PublishOnline, OnlineArrives, Subscribe, SubscribeFails,
       PublishWill, LoseConnection, Reconnect
  <2>5. CASE Enqueue \/ Unreadable \/ Dispatch \/ FetchDetail \/ FetchFails
    BY <2>2, <2>5 DEF Enqueue, Unreadable, CallbackReturns, Dispatch, FetchDetail,
       FetchFails, Spawn
  <2>6. CASE Sigterm \/ Close \/ Disconnect \/ RunReturns \/ Exit \/ Crash
    BY <2>2, <2>6 DEF Sigterm, Close, Disconnect, RunReturns, Exit, Crash, Die
  <2>7. ASSUME NEW h \in Slot, Handle(h)  PROVE Last(c)
    <3>1. CASE hcmd[h] # c
      BY <2>7, <3>1, HandleTells
    <3>2. CASE hcmd[h] = c
      <4>1. hpc[h] = "final" /\ hstatus[h] = told[c] /\ repeats[c] > 0
        BY <2>1, <3>2
      <4>2. Final(h)
        BY <2>7, <4>1 DEF Handle, Ack, Open, Accept, Progress, Execute, Panic, Summary, At
      <4>3. CASE Told(h, hstatus[h])
        BY <3>2, <4>1, <4>3 DEF Told, Heard, CoreInv, TypeOK
      <4>4. CASE NotTold(h)
        BY <2>2, <4>4 DEF NotTold
      <4>5. QED  BY <4>2, <4>3, <4>4 DEF Final, Tell
    <3>3. QED  BY <3>1, <3>2
  <2>8. ASSUME NEW h \in Slot, NEW m \in Messages, Unanswered(h, m)  PROVE Last(c)
    <3>1. CASE hcmd[h] # c
      BY <2>8, <3>1, UnansweredAbout
    <3>2. CASE hcmd[h] = c
      <4>1. hpc[h] = "final" /\ hstatus[h] = told[c] /\ repeats[c] > 0
        BY <2>1, <3>2
      <4>2. told'[c] = hstatus[h]
        BY <2>8, <3>2, <4>1, UnansweredAbout
      <4>3. QED  BY <4>1, <4>2
    <3>3. QED  BY <3>1, <3>2
  <2>9. QED
    BY <2>3, <2>4, <2>5, <2>6, <2>7, <2>8 DEF Next
<1>2. QED
  BY <1>1, CoreInvariance, DeliveryAccount, SettledRepeats, PTL DEF Spec, TerminalIsLast
=============================================================================
