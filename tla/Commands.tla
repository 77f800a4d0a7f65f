------------------------------ MODULE Commands ------------------------------
(***************************************************************************)
(* Remote commands: how runAgent picks a transport (MQTT, or Redis when    *)
(* MQTT is not configured or does not connect), how internal/transport     *)
(* receives commands and announces the device as online or offline, how    *)
(* internal/command runs each command in a goroutine of its own and what   *)
(* it tells the server, and what a lost connection, SIGTERM or a crash     *)
(* does to commands on their way.                                          *)
(*                                                                         *)
(* The MQTT broker and the paho client are external and modelled by how    *)
(* mqtt_broker.go uses them: QoS 1 with a persistent session               *)
(* (CleanSession(false)) that exists from an earlier run, one callback at  *)
(* a time, the acknowledgement sent after the callback returns and only if *)
(* a callback was subscribed, AutoReconnect, publications that arrive in   *)
(* their order and are sent again on the next connection when no PUBACK    *)
(* came, a token.Wait that lasts until the PUBACK, and a will that the     *)
(* broker publishes when it notices that a connection has ended uncleanly, *)
(* at the latest when the same client connects again.                      *)
(***************************************************************************)
EXTENDS Integers, Sequences, FiniteSets

CONSTANTS
    Command,          \* the commands the server sends, each once
    Encrypted,        \* those sent with an encrypted payload
    Transports,       \* the values cfg.Transport.Type may have
    ChanCap,          \* capacity of cmdCh
    MaxHandlers,      \* bound: handler goroutines alive at a time
    MaxTurns,         \* bound: starts of the process and lost connections
    MaxFaults         \* bound: crashes, panics, failed fetches and reports

None == "none"

ASSUME CommandsConstants ==
    /\ Encrypted \subseteq Command /\ None \notin Command
    /\ Transports \subseteq {"mqtt", "redis"}
    /\ ChanCap \in Nat \ {0}
    /\ MaxHandlers \in Nat /\ MaxTurns \in Nat /\ MaxFaults \in Nat

Slot == 1..MaxHandlers

(* What a handler tells the server: PublishAck, PublishProgress, ReportResult *)
Messages == {"ack", "s1", "running", "completed", "failed", "s2", "s3"}

VARIABLES
    configured,       \* cfg.Transport.Type
    proc,             \* "down", "up", "closing" (in Close), "disconnecting",
                      \* "waiting" (wg.Wait)
    transport,        \* what runAgent chose: "mqtt", "redis" or None
    conn,             \* the MQTT connection: "up", "lost", "closed"
    onConnect,        \* the OnConnect goroutine: about to publish "online",
                      \* about to "subscribe", or "idle"
    sending,          \* is its "online" on the way to the broker?
    routed,           \* has Subscribe registered handleCommand with paho?
    loop,             \* is broker.Run in its loop?
    channel,          \* the transport the server sent each command over
    pending,          \* server side: sent and not yet acknowledged or popped
    status,           \* the retained message of the status topic
    will,             \* has the broker a will to publish?
    missed,           \* delivered on this connection before there was a route
    inbox,            \* the command a callback or BLPop iteration holds
    acking,           \* callbacks returned, PUBACK not yet through
    cmdCh,            \* MQTTBroker.cmdCh
    hcmd, hpc, hstatus, \* per handler goroutine: command, position, result
    deliveries,       \* history: how often each was handed to the agent
    executed,         \* history: how often each ran
    handled,          \* history: commands given a handler goroutine
    told,             \* history: what the server heard last about each
    settled,          \* history: how often it heard a terminal status of each
    repeats,          \* history: how often the agent could not know it had
    unreported,       \* history: commands a report about failed to reach it
    abandoned,        \* history: taken from the server, no handler started
    late,             \* history: "online" was published after Close's "offline"
    turns, faults

procVars == <<configured, proc, transport, loop>>
linkVars == <<conn, onConnect, sending, routed, missed, acking>>
presence == <<status, will, late>>
queueVars == <<channel, pending, inbox, cmdCh>>
handlerVars == <<hcmd, hpc, hstatus>>
reportVars == <<told, settled, repeats, unreported>>
histVars == <<deliveries, handled, executed, reportVars, abandoned>>
bounds == <<turns, faults>>
vars == <<procVars, linkVars, presence, queueVars, handlerVars, histVars, bounds>>

sent == {c \in Command : channel[c] # None}

-----------------------------------------------------------------------------
Init ==
    /\ configured \in Transports
    /\ proc = "down" /\ transport = None /\ loop = FALSE
    /\ conn = "closed" /\ onConnect = "idle" /\ sending = FALSE
    /\ routed = FALSE /\ missed = {} /\ acking = {}
    /\ status = "offline" /\ will = FALSE /\ late = FALSE
    /\ channel = [c \in Command |-> None]
    /\ pending = {} /\ inbox = None /\ cmdCh = <<>>
    /\ hcmd = [h \in Slot |-> None]
    /\ hpc = [h \in Slot |-> "free"]
    /\ hstatus = [h \in Slot |-> None]
    /\ abandoned = {} /\ unreported = {}
    /\ deliveries = [c \in Command |-> 0]
    /\ executed = [c \in Command |-> 0]
    /\ handled = {}
    /\ told = [c \in Command |-> None]
    /\ settled = [c \in Command |-> 0]
    /\ repeats = [c \in Command |-> 0]
    /\ turns = 0 /\ faults = 0

Fault == faults < MaxFaults /\ faults' = faults + 1

Turn == turns < MaxTurns /\ turns' = turns + 1

(* The server queues a command for the device; the session or the Redis    *)
(* list keeps it while the agent is away.                                  *)
Send(c) ==
    /\ channel[c] = None
    /\ channel' \in {[channel EXCEPT ![c] = t] : t \in Transports}
    /\ pending' = pending \union {c}
    /\ UNCHANGED <<procVars, linkVars, presence, inbox, cmdCh, handlerVars,
                   histVars, bounds>>

(* What the broker does with the will of the connection it replaces. *)
TakeOver == /\ status' = IF will THEN "offline" ELSE status
            /\ will' = FALSE

(* runAgent: MQTT when it is configured and NewMQTTBroker connects, else   *)
(* Redis when it answers a Ping, else no command consumer at all.          *)
Start ==
    /\ proc = "down" /\ Turn
    /\ proc' = "up"
    /\ \/ /\ configured = "mqtt" /\ transport' = "mqtt"
          /\ conn' = "up" /\ onConnect' = "online" /\ TakeOver
          /\ UNCHANGED faults
       \/ /\ transport' = "redis"
          /\ IF configured = "mqtt" THEN Fault ELSE UNCHANGED faults
          /\ UNCHANGED <<conn, onConnect, status, will>>
       \/ /\ transport' = None /\ Fault
          /\ UNCHANGED <<conn, onConnect, status, will>>
    /\ loop' = (transport' # None)
    /\ late' = FALSE
    /\ UNCHANGED <<configured, sending, routed, missed, acking, queueVars,
                   handlerVars, histVars>>

-----------------------------------------------------------------------------
(* The MQTT connection and the presence of the device *)

(* The OnConnect handler publishes "online" and does not wait for it.      *)
PublishOnline ==
    /\ onConnect = "online" /\ conn = "up"
    /\ sending' = TRUE
    /\ onConnect' = "subscribe"
    /\ UNCHANGED <<procVars, conn, routed, missed, acking, presence, queueVars,
                   handlerVars, histVars, bounds>>

(* The publication reaches the broker. *)
OnlineArrives ==
    /\ sending /\ conn = "up"
    /\ status' = "online"
    /\ late' = (late \/ proc = "disconnecting")
    /\ sending' = FALSE
    /\ UNCHANGED <<procVars, conn, onConnect, routed, missed, acking, will,
                   queueVars, handlerVars, histVars, bounds>>

(* Then it subscribes, which makes handleCommand known to paho. *)
Subscribe ==
    /\ onConnect = "subscribe" /\ conn = "up"
    /\ routed' = TRUE
    /\ onConnect' = "idle"
    /\ UNCHANGED <<procVars, conn, sending, missed, acking, presence, queueVars,
                   handlerVars, histVars, bounds>>

(* Subscribe fails, before or after paho has noted the callback: the error *)
(* is logged and nothing tries again on this connection.                   *)
SubscribeFails ==
    /\ onConnect = "subscribe" /\ Fault
    /\ routed' = TRUE \/ UNCHANGED routed
    /\ onConnect' = "idle"
    /\ UNCHANGED <<procVars, conn, sending, missed, acking, presence, queueVars,
                   handlerVars, histVars, turns>>

(* Mutant: no will is registered with the connection.                      *)
Unclean_NoWill == UNCHANGED will

(* A connection that ends without DISCONNECT leaves its will to the broker. *)
Unclean == will' = TRUE

PublishWill ==
    /\ will
    /\ status' = "offline"
    /\ will' = FALSE
    /\ UNCHANGED <<procVars, linkVars, late, queueVars, handlerVars, histVars,
                   bounds>>

Break ==
    /\ conn = "up" /\ Turn
    /\ conn' = "lost" /\ acking' = {}
    /\ Unclean

LoseConnection ==
    /\ Break
    /\ UNCHANGED <<procVars, onConnect, sending, routed, missed, status, late,
                   queueVars, handlerVars, histVars, faults>>

(* Mutant: "online" is published by NewMQTTBroker, not on every connect.   *)
Reconnect_Silent ==
    /\ conn = "lost"
    /\ conn' = "up" /\ missed' = {}
    /\ TakeOver
    /\ UNCHANGED <<procVars, onConnect, sending, routed, acking, late, queueVars,
                   handlerVars, histVars, bounds>>

(* Unacknowledged commands are delivered again; OnConnect runs once more.  *)
Reconnect ==
    /\ conn = "lost"
    /\ conn' = "up" /\ missed' = {}
    /\ onConnect' = "online"
    /\ TakeOver
    /\ UNCHANGED <<procVars, sending, routed, acking, late, queueVars,
                   handlerVars, histVars, bounds>>

-----------------------------------------------------------------------------
(* MQTT reception *)

Deliverable(c) ==
    /\ conn = "up" /\ inbox = None
    /\ c \in pending \ (acking \union missed) /\ channel[c] = "mqtt"

(* The session's commands come in as soon as the connection is up.  One    *)
(* that comes before Subscribe finds no handler: paho drops it without     *)
(* acknowledging it, and the broker holds it until the next connection.    *)
Unrouted(c) ==
    /\ Deliverable(c) /\ ~routed
    /\ missed' = missed \union {c}
    /\ UNCHANGED <<procVars, conn, onConnect, sending, routed, acking, presence,
                   queueVars, handlerVars, histVars, bounds>>

(* paho calls MQTTBroker.handleCommand; nothing else is delivered until it *)
(* returns.                                                                *)
Callback(c) ==
    /\ Deliverable(c) /\ routed
    /\ inbox' = c
    /\ deliveries' = [deliveries EXCEPT ![c] = @ + 1]
    /\ UNCHANGED <<procVars, linkVars, presence, channel, pending, cmdCh,
                   handlerVars, handled, executed, reportVars, abandoned, bounds>>

(* The callback returns, and paho acknowledges the message. *)
CallbackReturns ==
    /\ inbox' = None
    /\ acking' = IF conn = "up" THEN acking \union {inbox} ELSE acking
    /\ UNCHANGED <<procVars, conn, onConnect, sending, routed, missed, presence,
                   channel, pending, handlerVars, deliveries, handled, executed,
                   reportVars, turns>>

(* Mutant: the channel takes one command more than it has room for.        *)
Enqueue_Overfull ==
    /\ transport = "mqtt" /\ inbox # None
    /\ Len(cmdCh) <= ChanCap
    /\ cmdCh' = Append(cmdCh, inbox)
    /\ CallbackReturns
    /\ UNCHANGED <<abandoned, faults>>

(* b.cmdCh <- cmd blocks while the channel is full. *)
Enqueue ==
    /\ transport = "mqtt" /\ inbox # None
    /\ Len(cmdCh) < ChanCap
    /\ cmdCh' = Append(cmdCh, inbox)
    /\ CallbackReturns
    /\ UNCHANGED <<abandoned, faults>>

(* The payload does not unmarshal: the callback returns without a command, *)
(* and the message is acknowledged all the same.                           *)
Unreadable ==
    /\ transport = "mqtt" /\ inbox # None /\ Fault
    /\ abandoned' = abandoned \union {inbox}
    /\ CallbackReturns
    /\ UNCHANGED cmdCh

PubAck(c) ==
    /\ c \in acking /\ conn = "up"
    /\ acking' = acking \ {c}
    /\ pending' = pending \ {c}
    /\ UNCHANGED <<procVars, conn, onConnect, sending, routed, missed, presence,
                   channel, inbox, cmdCh, handlerVars, histVars, bounds>>

(* go handler(ctx, cmd) *)
Spawn(c) ==
    \E h \in Slot :
      /\ hpc[h] = "free" /\ \A g \in Slot : hpc[g] = "free" => h <= g
      /\ hcmd' = [hcmd EXCEPT ![h] = c]
      /\ hpc' = [hpc EXCEPT ![h] = IF transport = "mqtt" THEN "ack" ELSE "open"]
      /\ handled' = handled \union {c}
      /\ UNCHANGED <<hstatus, deliveries, executed, reportVars, abandoned>>

(* Mutant: a command read from the channel after cancel is passed over.    *)
Dispatch_UnlessCancelled ==
    /\ loop /\ cmdCh # <<>>
    /\ IF proc = "up" THEN Spawn(Head(cmdCh)) ELSE UNCHANGED <<handlerVars, histVars>>
    /\ cmdCh' = Tail(cmdCh)
    /\ UNCHANGED <<procVars, linkVars, presence, channel, pending, inbox, bounds>>

(* MQTTBroker.Run, case cmd := <-b.cmdCh; select may take it after cancel. *)
Dispatch ==
    /\ loop /\ cmdCh # <<>>
    /\ Spawn(Head(cmdCh))
    /\ cmdCh' = Tail(cmdCh)
    /\ UNCHANGED <<procVars, linkVars, presence, channel, pending, inbox, bounds>>

-----------------------------------------------------------------------------
(* Redis reception *)

(* BLPop takes the id off the list for good. *)
Popped(c) ==
    /\ transport = "redis" /\ loop /\ inbox = None
    /\ c \in pending /\ channel[c] = "redis"
    /\ pending' = pending \ {c}

BLPop(c) ==
    /\ Popped(c)
    /\ inbox' = c
    /\ deliveries' = [deliveries EXCEPT ![c] = @ + 1]
    /\ UNCHANGED <<procVars, linkVars, presence, channel, cmdCh, handlerVars,
                   handled, executed, reportVars, abandoned, bounds>>

(* The list is popped and the reply is lost: Run sees an error and goes on. *)
PopLost(c) ==
    /\ Popped(c) /\ Fault
    /\ abandoned' = abandoned \union {c}
    /\ UNCHANGED <<procVars, linkVars, presence, channel, inbox, cmdCh,
                   handlerVars, deliveries, handled, executed, reportVars,
                   turns>>

(* HGetAll finds the command. *)
FetchDetail ==
    /\ transport = "redis" /\ inbox # None
    /\ Spawn(inbox)
    /\ inbox' = None
    /\ UNCHANGED <<procVars, linkVars, presence, channel, pending, cmdCh, bounds>>

(* HGetAll fails (a network error, or the cancelled ctx) or finds nothing: *)
(* the loop goes on to the next id.                                        *)
FetchFails ==
    /\ transport = "redis" /\ inbox # None
    /\ IF proc = "up" THEN Fault ELSE UNCHANGED faults
    /\ abandoned' = abandoned \union {inbox}
    /\ inbox' = None
    /\ UNCHANGED <<procVars, linkVars, presence, channel, pending, cmdCh,
                   handlerVars, deliveries, handled, executed, reportVars,
                   turns>>

-----------------------------------------------------------------------------
(* Consumer.handleCommand, one goroutine per command.                      *)

At(h, p) == hpc[h] = p /\ proc # "down"

Goto(h, p) == hpc' = [hpc EXCEPT ![h] = p]

(* The server hears message m about the command of h. *)
Heard(h, m) ==
    /\ told' = [told EXCEPT ![hcmd[h]] = m]
    /\ settled' = IF m \in {"s2", "s3"}
                  THEN [settled EXCEPT ![hcmd[h]] = @ + 1] ELSE settled

(* A publication or POST gets through; MQTT waits for the connection.      *)
Told(h, m) ==
    /\ transport = "mqtt" => conn = "up"
    /\ Heard(h, m)
    /\ UNCHANGED <<repeats, unreported, faults>>

(* It fails: after Disconnect, or when every POST attempt has failed.  The *)
(* handler only logs the error and goes on.                                *)
NotTold(h) ==
    /\ IF transport = "mqtt" THEN conn = "closed" /\ UNCHANGED faults ELSE Fault
    /\ unreported' = unreported \union {hcmd[h]}
    /\ UNCHANGED <<told, settled, repeats>>

Tell(h, m) == Told(h, m) \/ NotTold(h)

handlerRest == <<procVars, linkVars, presence, queueVars, deliveries, handled,
                 abandoned, turns>>

(* PublishAck *)
Ack(h) ==
    /\ At(h, "ack")
    /\ Tell(h, "ack")
    /\ Goto(h, "open")
    /\ UNCHANGED <<handlerRest, hcmd, hstatus, executed>>

(* Mutant: nothing is reported when the envelope does not open.            *)
Open_Silent(h) ==
    /\ At(h, "open")
    /\ \/ /\ Goto(h, "accept")
          /\ UNCHANGED hcmd
       \/ /\ hcmd[h] \in Encrypted
          /\ Goto(h, "free")
          /\ hcmd' = [hcmd EXCEPT ![h] = None]
    /\ UNCHANGED <<handlerRest, hstatus, executed, reportVars, faults>>

(* Plain commands pass; an envelope is parsed, opened (age, key, signature *)
(* of the ciphertext) and unmarshalled, and any failure is reported as 3.  *)
Open(h) ==
    /\ At(h, "open")
    /\ \/ /\ Goto(h, "accept")
          /\ UNCHANGED hstatus
       \/ /\ hcmd[h] \in Encrypted
          /\ Goto(h, "final")
          /\ hstatus' = [hstatus EXCEPT ![h] = "s3"]
    /\ UNCHANGED <<handlerRest, hcmd, executed, reportVars, faults>>

(* reportResult(cmd.ID, 1, "", "") *)
Accept(h) ==
    /\ At(h, "accept")
    /\ Tell(h, "s1")
    /\ Goto(h, IF transport = "mqtt" THEN "progress" ELSE "execute")
    /\ UNCHANGED <<handlerRest, hcmd, hstatus, executed>>

(* sendProgress(..., "running", ...); there is a ProgressReporter with MQTT *)
(* only.                                                                   *)
Progress(h) ==
    /\ At(h, "progress")
    /\ Tell(h, "running")
    /\ Goto(h, "execute")
    /\ UNCHANGED <<handlerRest, hcmd, hstatus, executed>>

(* Mutant: a command that fails is tried again.                            *)
Execute_Retries(h) ==
    /\ At(h, "execute")
    /\ executed' = [executed EXCEPT ![hcmd[h]] = @ + 1]
    /\ \/ /\ hstatus' = [hstatus EXCEPT ![h] = "s2"]
          /\ Goto(h, IF transport = "mqtt" THEN "summary" ELSE "final")
       \/ UNCHANGED <<hstatus, hpc>>
    /\ UNCHANGED <<handlerRest, hcmd, reportVars, faults>>

(* Execute returns status 2 or 3. *)
Execute(h) ==
    /\ At(h, "execute")
    /\ executed' = [executed EXCEPT ![hcmd[h]] = @ + 1]
    /\ hstatus' \in {[hstatus EXCEPT ![h] = s] : s \in {"s2", "s3"}}
    /\ Goto(h, IF transport = "mqtt" THEN "summary" ELSE "final")
    /\ UNCHANGED <<handlerRest, hcmd, reportVars, faults>>

(* Execute panics: the deferred function reports 3, and nothing else.      *)
Panic(h) ==
    /\ At(h, "execute")
    /\ Fault
    /\ executed' = [executed EXCEPT ![hcmd[h]] = @ + 1]
    /\ hstatus' = [hstatus EXCEPT ![h] = "s3"]
    /\ Goto(h, "final")
    /\ UNCHANGED <<handlerRest, hcmd, reportVars>>

finalStatus(h) == IF hstatus[h] = "s3" THEN "failed" ELSE "completed"

(* sendProgress(..., finalStatus, ...) *)
Summary(h) ==
    /\ At(h, "summary")
    /\ Tell(h, finalStatus(h))
    /\ Goto(h, "final")
    /\ UNCHANGED <<handlerRest, hcmd, hstatus, executed>>

(* Mutant: the return after a failed decryption is missing.                *)
Final_NoReturn(h) ==
    /\ At(h, "final")
    /\ Tell(h, hstatus[h])
    /\ IF executed[hcmd[h]] = 0
       THEN Goto(h, "accept") /\ UNCHANGED <<hcmd, hstatus>>
       ELSE /\ Goto(h, "free")
            /\ hcmd' = [hcmd EXCEPT ![h] = None]
            /\ hstatus' = [hstatus EXCEPT ![h] = None]
    /\ UNCHANGED <<handlerRest, executed>>

(* The last report; the goroutine ends. *)
Final(h) ==
    /\ At(h, "final")
    /\ Tell(h, hstatus[h])
    /\ Goto(h, "free")
    /\ hcmd' = [hcmd EXCEPT ![h] = None]
    /\ hstatus' = [hstatus EXCEPT ![h] = None]
    /\ UNCHANGED <<handlerRest, executed>>

Handle(h) ==
    \/ Ack(h) \/ Open(h) \/ Accept(h) \/ Progress(h) \/ Execute(h) \/ Panic(h)
    \/ Summary(h) \/ Final(h)

(* What handler h reports where it stands. *)
Report(h, m) ==
    \/ At(h, "ack") /\ m = "ack"
    \/ At(h, "accept") /\ m = "s1"
    \/ At(h, "progress") /\ m = "running"
    \/ At(h, "summary") /\ m = finalStatus(h)
    \/ At(h, "final") /\ m = hstatus[h]

(* The server hears the report and the agent does not know it: the reply   *)
(* is lost and Post tries again, or the connection breaks before the       *)
(* PUBACK and paho sends the publication again on the next one.            *)
Unanswered(h, m) ==
    /\ Report(h, m)
    /\ Heard(h, m)
    /\ repeats' = IF m \in {"s2", "s3"}
                  THEN [repeats EXCEPT ![hcmd[h]] = @ + 1] ELSE repeats
    /\ IF transport = "mqtt" THEN Break /\ UNCHANGED faults
                             ELSE Fault /\ UNCHANGED <<conn, acking, will, turns>>
    /\ UNCHANGED <<procVars, onConnect, sending, routed, missed, status, late,
                   queueVars, handlerVars, deliveries, handled, executed,
                   unreported, abandoned>>

-----------------------------------------------------------------------------
(* Shutdown *)

(* SIGTERM: cancel(), then cmdBroker.Close(). *)
Sigterm ==
    /\ proc = "up"
    /\ proc' = "closing"
    /\ UNCHANGED <<configured, transport, loop, linkVars, presence, queueVars,
                   handlerVars, histVars, bounds>>

(* MQTTBroker.Close publishes "offline", behind an "online" on its way, and *)
(* waits for the PUBACK without a timeout; the Redis Close does nothing.   *)
Close ==
    /\ proc = "closing"
    /\ \/ /\ transport = "mqtt" /\ conn = "up" /\ ~sending
          /\ status' = "offline"
          /\ proc' = "disconnecting"
       \/ /\ transport # "mqtt"
          /\ proc' = "waiting"
          /\ UNCHANGED status
    /\ UNCHANGED <<configured, transport, loop, linkVars, will, late, queueVars,
                   handlerVars, histVars, bounds>>

(* Disconnect: a clean one cancels the will. *)
Disconnect ==
    /\ proc = "disconnecting"
    /\ proc' = "waiting"
    /\ conn' = "closed" /\ onConnect' = "idle" /\ sending' = FALSE
    /\ acking' = {} /\ missed' = {}
    /\ UNCHANGED <<configured, transport, loop, routed, presence, queueVars,
                   handlerVars, histVars, bounds>>

(* Mutant: ctx is looked at only when there is a command.                  *)
RunReturns_OnCommand ==
    /\ loop /\ proc \notin {"up", "down"}
    /\ cmdCh # <<>>
    /\ loop' = FALSE
    /\ UNCHANGED <<configured, proc, transport, linkVars, presence, queueVars,
                   handlerVars, histVars, bounds>>

(* Run sees ctx.Done (Redis: at the head of its loop). *)
RunReturns ==
    /\ loop /\ proc \notin {"up", "down"}
    /\ transport = "redis" => inbox = None
    /\ loop' = FALSE
    /\ UNCHANGED <<configured, proc, transport, linkVars, presence, queueVars,
                   handlerVars, histVars, bounds>>

(* The end of the process, for the commands it still had: handlers stop    *)
(* where they are (they are not part of wg), the channel is gone.          *)
Die ==
    /\ proc' = "down" /\ loop' = FALSE
    /\ conn' = "closed" /\ onConnect' = "idle" /\ sending' = FALSE
    /\ routed' = FALSE /\ missed' = {} /\ acking' = {}
    /\ inbox' = None /\ cmdCh' = <<>>
    /\ hcmd' = [h \in Slot |-> None]
    /\ hpc' = [h \in Slot |-> "free"]
    /\ hstatus' = [h \in Slot |-> None]
    /\ abandoned' = abandoned \union
         (({cmdCh[i] : i \in 1..Len(cmdCh)} \union {inbox}) \ (pending \union {None}))
    /\ UNCHANGED <<configured, transport, status, late, channel, pending,
                   deliveries, handled, executed, reportVars, turns>>

Exit ==
    /\ proc = "waiting" /\ ~loop
    /\ Die
    /\ UNCHANGED <<will, faults>>

Crash ==
    /\ proc # "down" /\ Fault
    /\ Die
    /\ IF conn = "up" THEN Unclean ELSE UNCHANGED will

-----------------------------------------------------------------------------
Next ==
    \/ \E c \in Command : \/ Send(c) \/ Unrouted(c) \/ Callback(c) \/ PubAck(c)
                          \/ BLPop(c) \/ PopLost(c)
    \/ Start \/ PublishOnline \/ OnlineArrives \/ Subscribe \/ SubscribeFails
    \/ PublishWill \/ LoseConnection \/ Reconnect
    \/ Enqueue \/ Unreadable \/ Dispatch \/ FetchDetail \/ FetchFails
    \/ \E h \in Slot : Handle(h) \/ \E m \in Messages : Unanswered(h, m)
    \/ Sigterm \/ Close \/ Disconnect \/ RunReturns \/ Exit \/ Crash

Spec == Init /\ [][Next]_vars

(* A callback that blocks on a full cmdCh may hold up what paho reads      *)
(* behind it, so a PUBACK is sure to come only when none is in progress.   *)
Unobstructed == transport = "mqtt" => inbox = None

(* The transport delivers what it holds, and the broker notices a dead     *)
(* connection (keep-alive); the OnConnect goroutine and the handlers run   *)
(* (a CLI call has a timeout); the agent goes on taking commands off the   *)
(* channel; a loop whose ctx is done leaves it.  Nothing says that a lost  *)
(* connection comes back.                                                  *)
Fairness ==
    /\ \A c \in Command : /\ WF_vars(Unrouted(c)) /\ WF_vars(Callback(c))
                         /\ WF_vars(PubAck(c)) /\ WF_vars(BLPop(c))
    /\ WF_vars(PublishWill) /\ WF_vars(PublishOnline) /\ WF_vars(OnlineArrives)
    /\ WF_vars(Subscribe)
    /\ WF_vars(Enqueue) /\ WF_vars(Dispatch) /\ WF_vars(FetchDetail)
    /\ \A h \in Slot : WF_vars(Unobstructed /\ Handle(h))
    /\ WF_vars(Unobstructed /\ Close) /\ WF_vars(Unobstructed /\ Disconnect)
    /\ WF_vars(RunReturns) /\ WF_vars(Exit)

FairSpec == Spec /\ Fairness

-----------------------------------------------------------------------------
(* Types; the channel respects its capacity, a handler has a command, and  *)
(* only what was sent is received.                                         *)
TypeOK ==
    /\ proc \in {"down", "up", "closing", "disconnecting", "waiting"}
    /\ configured \in Transports /\ transport \in {"mqtt", "redis", None}
    /\ conn \in {"up", "lost", "closed"} /\ loop \in BOOLEAN
    /\ onConnect \in {"online", "subscribe", "idle"}
    /\ sending \in BOOLEAN /\ routed \in BOOLEAN
    /\ status \in {"online", "offline"} /\ will \in BOOLEAN /\ late \in BOOLEAN
    /\ channel \in [Command -> Transports \union {None}]
    /\ missed \subseteq pending
    /\ inbox \in Command \union {None}
    /\ acking \subseteq pending /\ pending \subseteq sent
    /\ cmdCh \in Seq(Command) /\ Len(cmdCh) <= ChanCap
    /\ hcmd \in [Slot -> Command \union {None}]
    /\ hpc \in [Slot -> {"free", "ack", "open", "accept", "progress", "execute",
                         "summary", "final"}]
    /\ hstatus \in [Slot -> {None, "s2", "s3"}]
    /\ deliveries \in [Command -> Nat] /\ executed \in [Command -> Nat]
    /\ \A h \in Slot : hpc[h] = "free" <=> hcmd[h] = None
    /\ told \in [Command -> Messages \union {None}] /\ settled \in [Command -> Nat]
    /\ repeats \in [Command -> Nat]
    /\ handled \subseteq sent /\ unreported \subseteq sent /\ abandoned \subseteq sent

InChannel == {cmdCh[i] : i \in 1..Len(cmdCh)}

(* A command never vanishes silently: once sent it waits at the server, is *)
(* on its way into a handler, was given one, or was abandoned by a crash,  *)
(* an exit, a failed fetch or an unreadable payload.                       *)
NoneVanishes ==
    sent \subseteq pending \union InChannel \union {inbox} \union handled \union abandoned

(* A command runs at most once per delivery: only the transport's own      *)
(* redelivery runs it again.                                               *)
RunsOncePerDelivery == \A c \in Command : executed[c] <= deliveries[c]

(* Once the server has heard the terminal status of a command delivered    *)
(* once, it hears nothing else of it: no other status, no panic path and   *)
(* no progress message follows.  It hears that status again only if the    *)
(* answer to it was lost before (Post's retry, the resend of QoS 1).       *)
TerminalIsLast ==
    [][\A c \in Command : deliveries[c] <= 1 /\ settled[c] > 0 =>
         \/ UNCHANGED told[c] /\ (UNCHANGED settled[c] \/ repeats[c] > 0)
         \/ deliveries'[c] > 1]_vars

(* A command that waits where the agent listens is settled in the end,     *)
(* across lost connections, panics and restarts, unless the connection     *)
(* stays lost for good, its report or its fetch fails, or it came in while *)
(* OnConnect had not subscribed: then it waits for the next connection.    *)
EveryCommandSettles ==
    \A c \in Command :
      c \in pending /\ proc = "up" /\ channel[c] = transport
        ~> \/ settled[c] > 0 \/ proc # "up"
           \/ c \in unreported \union abandoned \union missed
           \/ [](conn = "lost")

(* What Close waits for: the connection, and a callback that sends to a    *)
(* full cmdCh after Run is gone.                                           *)
Held == /\ transport = "mqtt"
        /\ \/ proc = "closing" /\ conn = "lost"
           \/ inbox # None /\ Len(cmdCh) = ChanCap

(* After SIGTERM the agent exits, with Redis or without a consumer in any  *)
(* case, with MQTT unless the connection stays lost for good or a callback *)
(* stays blocked on cmdCh: token.Wait in Close has no timeout.             *)
StopsAfterSigterm == proc = "closing" ~> proc = "down" \/ []Held

(* Once the "online" of the OnConnect handler has arrived, and until Close, *)
(* the retained status is "online" for as long as the connection holds:    *)
(* the will of a connection that was lost before never overwrites it.      *)
ConnectedIsOnline ==
    proc = "up" /\ conn = "up" /\ onConnect # "online" /\ ~sending
      => status = "online"

(* An agent that served MQTT and is gone ends up "offline", by Close or by *)
(* its will, unless the OnConnect goroutine of a connection made shortly   *)
(* before SIGTERM publishes its "online" after the "offline" of Close.     *)
OfflineAfterEnd ==
    proc = "down" /\ transport = "mqtt" ~> status = "offline" \/ proc # "down" \/ late

(* The comment on CommandBroker.Run: "For each received command, handler   *)
(* is called in a new goroutine."                                          *)
ReceivedIsHandled == faults = 0 => abandoned = {}
=============================================================================
