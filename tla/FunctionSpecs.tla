--------------------------- MODULE FunctionSpecs ---------------------------
(***************************************************************************)
(* What the pure functions of the agent should compute, each told by a     *)
(* definition that does not follow the code: the session shown for an      *)
(* agent and the completion of the agents (StatusTables), the reply found  *)
(* in the CLI's JSON and what a CLI call reports (Replies), the numbers in *)
(* use and the waits of Post (Settings).                                   *)
(***************************************************************************)
EXTENDS StatusTables, Replies, Settings

VARIABLE input        \* a record; input.fn says which function reads it

-----------------------------------------------------------------------------
(* Of an agent's sessions its first ":main" one; without one the first     *)
(* with a key, and without a key the last.                                 *)
SessionToShow(sessions, id) ==
    LET mine == {n \in DOMAIN sessions : sessions[n].agent = id}
        keyed == {n \in mine : sessions[n].key # Empty}
        main == {n \in keyed : isMain(sessions[n])}
    IN  CASE main # {} -> sessions[Min(main)].model
          [] main = {} /\ keyed # {} -> sessions[Min(keyed)].model
          [] keyed = {} /\ mine # {} -> sessions[Max(mine)].model
          [] mine = {} -> Empty

(* Completing the agents from other sources.  The session shown is the one *)
(* above, in whatever order the sessions are listed                        *)
(* (annotateAgentsWithSessions).  The list of agents overwrites nothing    *)
(* that is known, keeps the agents and their order, and leaves no agent    *)
(* without a name that it holds (CollectOpenClawInfo).                     *)
AgentsCompleted ==
    /\ input.fn = "sessions" =>
        \A id \in input.ids : ShownFor(input.sessions, id) = SessionToShow(input.sessions, id)
    /\ input.fn = "merge" =>
        LET known == input.agents
            list == collectAgentsList(input.items)
            after == mergeAgents(known, list)
        IN  /\ known = <<>> => after = list
            /\ known # <<>> => Len(after) = Len(known)
            /\ \A i \in DOMAIN known :
                /\ after[i].id = known[i].id
                /\ known[i].name # "" => after[i].name = known[i].name
                /\ known[i].sessions # 0 => after[i].sessions = known[i].sessions
                /\ known[i].active # Empty => after[i].active = known[i].active
            /\ \A i \in DOMAIN after :
                after[i].name = "" => \A j \in DOMAIN input.items : input.items[j].id # after[i].id

-----------------------------------------------------------------------------
(* The texts that could be an answer: not under a field of another name,   *)
(* unless inside a list or a map there, and at most 8 levels down.         *)
AnswerFields(v) ==
    {k \in DOMAIN v.of : (\E i \in DOMAIN ReplyKeys : ReplyKeys[i] = k) \/ v.of[k].t # "text"}
AnswersIn(v, inner) ==
    CASE v.t = "text" -> Texts({v.s}) \union (IF v.json = <<>> THEN {} ELSE inner[v.json[1]])
      [] v.t = "list" -> UNION {inner[v.items[i]] : i \in DOMAIN v.items}
      [] v.t = "map" -> UNION {inner[v.of[k]] : k \in AnswerFields(v)}
      [] v.t = "other" -> {}
Answers[levels \in 0..9] ==
    [v \in Value |-> IF levels = 0 THEN {} ELSE AnswersIn(v, Answers[levels - 1])]

(* Some map has lists or maps in two fields of no known name: which is     *)
(* searched first is up to Go's map order.                                 *)
Unknown(v) == {k \in LastResort(v.of) : \A i \in DOMAIN ReplyKeys : ReplyKeys[i] # k}
AmbiguousIn(v, inner) ==
    \/ v.t = "text" /\ v.json # <<>> /\ inner[v.json[1]]
    \/ v.t = "list" /\ \E i \in DOMAIN v.items : inner[v.items[i]]
    \/ v.t = "map" /\ \/ \E k, l \in Unknown(v) : k # l
                      \/ \E k \in DOMAIN v.of : inner[v.of[k]]
Ambiguous[levels \in 0..9] ==
    [v \in Value |-> IF levels = 0 THEN FALSE ELSE AmbiguousIn(v, Ambiguous[levels - 1])]

(* An answer that is printed is found, down to level 8 and no deeper, and  *)
(* a scalar field that is none, such as a run's id, is never taken for     *)
(* one: the raw JSON is reported only when there is no answer              *)
(* (extractAgentReply, findReplyString).  The same output gives the same   *)
(* reply, unless the answers stand only in two fields of unknown names.    *)
ReplyFound ==
    (input.fn = "reply" /\ input.out.json # <<>>) =>
        LET answers == Answers[9][input.out.json[1]]
            replies == extractAgentReply(input.out)
        IN  /\ replies # {}
            /\ replies \subseteq (IF answers = {} THEN {input.out.s} ELSE answers)
            /\ ~Ambiguous[9][input.out.json[1]] => Cardinality(replies) = 1

(* A CLI call that failed is reported as failed only if it printed         *)
(* nothing; whatever it printed is reported as success.  execMessage,      *)
(* which looks for a reply in between, agrees with the other commands, and *)
(* a probe of two such calls fails only if both are silent.                *)
FailureOnlyWhenSilent ==
    input.fn = "reply" =>
        LET other == {execCLI(input.err, input.out), execUpdate("apply", input.err, input.out),
                      execSessions("cleanup", input.err, input.out),
                      execGatewayCmd("restart", input.err, input.out)}
        IN  \A r \in execMessage(input.err, input.out) :
                /\ other = {r.status}
                /\ r.status = 3 <=> (input.err /\ input.out.s = "")
                /\ r.status = 3 => execProbe(input.out, input.out) = 3
                /\ r.output = "" => input.out.s = ""

-----------------------------------------------------------------------------
(* The k-th wait of Post: the first, doubled k - 1 times, or the limit     *)
(* once that is reached.                                                   *)
WaitBefore(initial, max, k) ==
    LET doubled[j \in 0..(k - 1)] == IF j = 0 THEN initial ELSE 2 * doubled[j - 1]
    IN  IF initial > max THEN initial
        ELSE IF \E j \in 0..(k - 1) : doubled[j] >= max THEN max
        ELSE doubled[k - 1]

(* Whatever the file says, the numbers in use are positive (time.NewTicker *)
(* panics on zero), the batches are within the server's limits, a usable   *)
(* value is kept; and the sleeps of Post double up to max_interval, an     *)
(* initial interval over it staying as it is (applyDefaults, Client.Post). *)
SettingsUsable ==
    input.fn = "settings" =>
        LET used == Numbers(input.given)
            waits == Waits(used.initial, used.maxInterval, used.attempts)
        IN  /\ \A f \in Number :
                used[f] > 0 /\ (input.given[f] \in 1..100 => used[f] = input.given[f])
            /\ used.metricsBatch <= 100 /\ used.logsBatch <= 1000
            /\ \A k \in 1..(used.attempts - 1) :
                waits[k] = WaitBefore(used.initial, used.maxInterval, k)
=============================================================================
