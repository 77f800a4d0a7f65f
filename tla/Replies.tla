------------------------------- MODULE Replies -------------------------------
(***************************************************************************)
(* internal/command/executor.go: what the commands that call the openclaw  *)
(* CLI report, and the search for the answer in the JSON that "openclaw    *)
(* agent --json" prints.  Go ranges over a map in an order of its own, so  *)
(* that findReplyString returns one of a set of texts; "" is no text.      *)
(*                                                                         *)
(* A JSON value is [t: "text", s, json] with json = <<v>> when the text is *)
(* itself JSON of the value v and <<>> otherwise; [t: "list", items];      *)
(* [t: "map", of] with of a function from keys; [t: "other"], a number,    *)
(* a boolean or null.                                                      *)
(***************************************************************************)
EXTENDS Naturals, Sequences

CONSTANT Value        \* the values that may be printed, and all inside them

ASSUME ValueIsJSON ==
    \A v \in Value :
      /\ v.t \in {"text", "list", "map", "other"}
      /\ v.t = "text" => /\ v.s \in STRING
                         /\ v.json # <<>> => v.s # "" /\ \E w \in Value : v.json = <<w>>
      /\ v.t = "list" => v.items \in Seq(Value)
      /\ v.t = "map" => \A k \in DOMAIN v.of : v.of[k] \in Value

(* The fields that may hold the answer, in the order they are tried.       *)
ReplyKeys == <<"payloads", "messages", "choices",
    "reply", "message", "output", "result", "content", "text",
    "data", "response", "assistant", "payload", "result">>
MaxDepth == 8

Container(v) == v.t \in {"map", "list"}
Texts(S) == S \ {""}

(* What trying calls one after the other until one returns a text may      *)
(* return, given the set of results of each: in the order given, or in any.*)
NoText(tries) == {r \in {""} : \A i \in DOMAIN tries : "" \in tries[i]}
InAnyOrder(tries) == (UNION {Texts(tries[i]) : i \in DOMAIN tries}) \union NoText(tries)
Reached(tries) == {i \in DOMAIN tries : \A k \in 1..(i - 1) : "" \in tries[k]}
InOrder(tries) == (UNION {Texts(tries[i]) : i \in Reached(tries)}) \union NoText(tries)
Else(found, other) == Texts(found) \union (IF "" \in found THEN other ELSE {})

(* The last resort: the fields of a map the search goes into, whatever     *)
(* their key.                                                              *)
LastResort(of) == {k \in DOMAIN of : Container(of[k])}

(* A call of findReplyString, given what the calls one level down return.  *)
Tried(of, found) ==
    [i \in 1..Len(ReplyKeys) |->
        IF ReplyKeys[i] \in DOMAIN of THEN found[of[ReplyKeys[i]]] ELSE {""}]
ReplyIn(v, found) ==
    CASE v.t = "text" -> IF v.json = <<>> THEN {v.s} ELSE Else(found[v.json[1]], {v.s})
      [] v.t = "list" -> InOrder([i \in 1..Len(v.items) |-> found[v.items[i]]])
      [] v.t = "map" -> Else(InOrder(Tried(v.of, found)),
                             InAnyOrder([k \in LastResort(v.of) |-> found[v.of[k]]]))
      [] v.t = "other" -> {""}

(* Mutant: the search ends one level early.                                *)
Levels_OneLess == MaxDepth
(* Depths 0 to MaxDepth are searched.                                      *)
Levels == MaxDepth + 1

findReplyString[left \in 0..Levels] ==
    [v \in Value |-> IF left = 0 THEN {""} ELSE ReplyIn(v, findReplyString[left - 1])]

(* Mutant: without an answer there is no output.                           *)
extractAgentReply_OrNothing(out) ==
    IF out.s = "" \/ out.json = <<>> THEN {""} ELSE findReplyString[Levels][out.json[1]]

(* The whole output stands in for an answer that is not found.             *)
extractAgentReply(out) ==
    IF out.s = "" \/ out.json = <<>> THEN {out.s}
    ELSE LET found == findReplyString[Levels][out.json[1]]
         IN  Texts(found) \union {s \in {out.s} : "" \in found}

(* doctor, agents, logs and security; update, sessions and gateway refuse  *)
(* an action they do not know, and the empty one stands for the first.     *)
execCLI(err, out) == IF err /\ out.s = "" THEN 3 ELSE 2
WithAction(known, action, err, out) == IF action \in known THEN execCLI(err, out) ELSE 3
execUpdate(action, err, out) == WithAction({"", "check", "apply"}, action, err, out)
execSessions(action, err, out) == WithAction({"", "list", "cleanup"}, action, err, out)
execGatewayCmd(action, err, out) == WithAction({"", "status", "health", "restart"}, action, err, out)

(* probe makes two calls and looks at their output only.                   *)
execProbe(gateway, channels) == IF gateway.s = "" /\ channels.s = "" THEN 3 ELSE 2

execMessage(err, out) ==
    IF err /\ out.s = "" THEN {[status |-> 3, output |-> ""]}
    ELSE {IF reply # "" THEN [status |-> 2, output |-> reply]
          ELSE IF err THEN [status |-> 3, output |-> reply]
          ELSE [status |-> 2, output |-> out.s] : reply \in extractAgentReply(out)}
=============================================================================
