----------------------------- MODULE Heartbeat -----------------------------
(***************************************************************************)
(* sendHeartbeat of cmd/agent/main.go: which heartbeats carry the state of *)
(* OpenClaw (extraData), and what the server knows of its agents when CLI  *)
(* calls and requests fail, the agents change between two looks at them,   *)
(* commands mark message activity and the process restarts.                *)
(*                                                                         *)
(* A version of the list of agents is a number; its fingerprint is v when  *)
(* taken from "agents list" and v or -v from "status --all", whose table   *)
(* may show other names; 0 is the empty fingerprint.  Cooldowns and the    *)
(* message window are flags which the passing of time clears.              *)
(***************************************************************************)
EXTENDS Integers

CONSTANTS
    Interval,         \* openclawInterval
    MaxVersions,      \* bound: versions of the list of agents
    MaxFaults         \* bound: failed CLI calls and requests, restarts

ASSUME HeartbeatConstants ==
    /\ Interval \in Nat \ {0, 1}
    /\ MaxVersions \in Nat \ {0} /\ MaxFaults \in Nat

None == 0

VARIABLES
    agents,           \* the present version, in OpenClaw
    recent,           \* message activity within recentMessageWindow?
    pc,               \* how far sendHeartbeat is
    count,            \* heartbeatCount, modulo Interval
    curFp,            \* currentAgentsFingerprint
    agentsDue, messageDue,
    extra,            \* the agents in extraData
    lastExtra,        \* lastExtraHash
    lastFp,           \* lastAgentsFingerprint
    agentsCool, messageCool, \* has the last trigger not cooled down yet?
    serverView,       \* the agents the server knows of
    calm,             \* history: heartbeats in a row without change or fault
    faults

looks == <<curFp, agentsDue, messageDue>>
memory == <<lastExtra, lastFp, agentsCool, messageCool>>
vars == <<agents, recent, pc, count, looks, extra, memory, serverView, calm,
          faults>>

Init ==
    /\ agents = 1 /\ recent = FALSE
    /\ pc = "idle" /\ count = 0
    /\ curFp = None /\ agentsDue = FALSE /\ messageDue = FALSE
    /\ extra = None /\ lastExtra = None /\ lastFp = None
    /\ agentsCool = FALSE /\ messageCool = FALSE
    /\ serverView = None
    /\ calm = 0 /\ faults = 0

Fault == faults < MaxFaults /\ faults' = faults + 1 /\ calm' = 0

NoFault == UNCHANGED <<faults, calm>>

-----------------------------------------------------------------------------
(* The surroundings *)

(* Somebody edits the agents of OpenClaw (external). *)
Change ==
    /\ agents < MaxVersions
    /\ agents' = agents + 1
    /\ calm' = 0
    /\ UNCHANGED <<recent, pc, count, looks, extra, memory, serverView, faults>>

(* MarkMessageActivity, called by a command handler. *)
MarkMessageActivity ==
    /\ ~recent
    /\ recent' = TRUE
    /\ UNCHANGED <<agents, pc, count, looks, extra, memory, serverView, calm,
                   faults>>

(* Time passes: the message window closes, a cooldown is over. *)
Elapse ==
    /\ \/ recent /\ recent' = FALSE /\ UNCHANGED <<agentsCool, messageCool>>
       \/ agentsCool /\ agentsCool' = FALSE /\ UNCHANGED <<recent, messageCool>>
       \/ messageCool /\ messageCool' = FALSE /\ UNCHANGED <<recent, agentsCool>>
    /\ UNCHANGED <<agents, pc, count, looks, extra, lastExtra, lastFp,
                   serverView, calm, faults>>

-----------------------------------------------------------------------------
(* sendHeartbeat *)

IntervalDue(n) == n % Interval = 1

(* Mutant: extraData is declared outside sendHeartbeat and never reset.    *)
Beat_KeepsExtra ==
    /\ pc = "idle"
    /\ count' = (count + 1) % Interval
    /\ curFp' = agents /\ NoFault
    /\ agentsDue' = (curFp' # None /\ curFp' # lastFp /\ ~agentsCool)
    /\ messageDue' = (recent /\ ~messageCool)
    /\ pc' = IF IntervalDue(count') \/ agentsDue' \/ messageDue'
             THEN "collect" ELSE "post"
    /\ extra' = serverView
    /\ UNCHANGED <<agents, recent, memory, serverView>>

(* The head of sendHeartbeat: count, look at the agents, decide. *)
Beat ==
    /\ pc = "idle"
    /\ count' = (count + 1) % Interval
    /\ \/ curFp' = agents /\ NoFault
       \/ curFp' = None /\ Fault
    /\ agentsDue' = (curFp' # None /\ curFp' # lastFp /\ ~agentsCool)
    /\ messageDue' = (recent /\ ~messageCool)
    /\ pc' = IF IntervalDue(count') \/ agentsDue' \/ messageDue'
             THEN "collect" ELSE "post"
    /\ extra' = None
    /\ UNCHANGED <<agents, recent, memory, serverView>>

(* Mutant: only the hash decides whether the data are sent.                *)
Sends_OnlyChanged(v) == v # lastExtra

(* The condition on extraData; whoever collects has a reason to send.      *)
Sends(v) == IntervalDue(count) \/ agentsDue \/ messageDue \/ v # lastExtra

(* Information with agents v (None: without) and fingerprint fp is at hand.*)
Collected(v, fp) ==
    /\ extra' = IF Sends(v) THEN v ELSE None
    /\ lastExtra' = IF Sends(v) THEN v ELSE lastExtra
    /\ lastFp' = IF fp # None THEN fp ELSE IF curFp # None THEN curFp ELSE lastFp
    /\ agentsCool' = (agentsCool \/ agentsDue)
    /\ messageCool' = (messageCool \/ messageDue)
    /\ pc' = "post"
    /\ UNCHANGED <<agents, recent, count, looks, serverView>>

(* CollectOpenClawInfo succeeds; if neither the table nor the list it      *)
(* falls back on shows agents, it does so without any: what is sent then   *)
(* says nothing of agents, which here is as if nothing were sent.          *)
Collect ==
    /\ pc = "collect"
    /\ \/ \E fp \in {agents, -agents} : Collected(agents, fp) /\ NoFault
       \/ Collected(None, None) /\ Fault

CollectFails ==
    /\ pc = "collect" /\ Fault
    /\ pc' = "fallback"
    /\ UNCHANGED <<agents, recent, count, looks, extra, memory, serverView>>

(* CollectAgentsOnlyInfo, or nothing. *)
Fallback ==
    /\ pc = "fallback"
    /\ \/ Collected(agents, agents) /\ NoFault
       \/ /\ Fault
          /\ pc' = "post"
          /\ UNCHANGED <<agents, recent, count, looks, extra, memory, serverView>>

(* What the server knows after a heartbeat has reached it. *)
Told == IF extra = None THEN serverView ELSE extra

(* up.Heartbeat; nothing is remembered of its failure, which may be that   *)
(* only the reply was lost.                                                *)
Post ==
    /\ pc = "post"
    /\ \/ /\ serverView' = Told
          /\ calm' = IF calm <= Interval THEN calm + 1 ELSE calm
          /\ UNCHANGED faults
       \/ serverView' \in {serverView, Told} /\ Fault
    /\ pc' = "idle" /\ extra' = None
    /\ UNCHANGED <<agents, recent, count, looks, memory>>

(* Mutant: the loop around sendHeartbeat is missing.                       *)
SendHeartbeat_Once == (count = 0 /\ Beat) \/ Collect \/ Fallback \/ Post

(* sendHeartbeat, at once and at every tick. *)
SendHeartbeat == Beat \/ Collect \/ Fallback \/ Post

(* A new process remembers nothing. *)
Restart ==
    /\ Fault
    /\ pc' = "idle" /\ count' = 0 /\ extra' = None /\ lastExtra' = None
    /\ lastFp' = None /\ agentsCool' = FALSE /\ messageCool' = FALSE
    /\ recent' = FALSE
    /\ UNCHANGED <<agents, looks, serverView>>

Next ==
    \/ SendHeartbeat \/ CollectFails \/ Restart
    \/ Change \/ MarkMessageActivity \/ Elapse

Spec == Init /\ [][Next]_vars

(* The ticker ticks on, CLI calls and requests have timeouts. *)
FairSpec == Spec /\ WF_vars(SendHeartbeat)

-----------------------------------------------------------------------------
Versions == None..MaxVersions

(* Types; extraData never outlives the heartbeat that collected it.        *)
TypeOK ==
    /\ agents \in 1..MaxVersions /\ recent \in BOOLEAN
    /\ pc \in {"idle", "collect", "fallback", "post"}
    /\ count \in 0..(Interval - 1)
    /\ curFp \in Versions /\ agentsDue \in BOOLEAN /\ messageDue \in BOOLEAN
    /\ extra \in Versions /\ lastExtra \in Versions
    /\ lastFp \in -MaxVersions..MaxVersions
    /\ agentsCool \in BOOLEAN /\ messageCool \in BOOLEAN
    /\ serverView \in Versions
    /\ calm \in 0..(Interval + 1) /\ faults \in 0..MaxFaults
    /\ pc # "post" => extra = None

(* Freshness: although a change is remembered as reported before it is     *)
(* sent, Interval + 1 heartbeats in a row that nothing disturbed leave the *)
(* server with the present agents, whatever failed before them.            *)
FreshAfterInterval == calm > Interval => serverView = agents

(* Once the agents stay as they are and faults stop, the server knows them *)
(* for good.                                                               *)
ServerCatchesUp == <>[](serverView = agents)
=============================================================================
