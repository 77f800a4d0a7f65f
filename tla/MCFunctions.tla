---------------------------- MODULE MCFunctions ----------------------------
(* The parts of the agent that only work in memory: its pure functions on  *)
(* bounded inputs, each against a definition that does not follow the      *)
(* code, and the log buffer with three callers.  The first step chooses an *)
(* input, or the buffer.                                                   *)
EXTENDS FunctionSpecs, Logger

CONSTANTS g1, g2, g3

MCCaller == {g1, g2, g3}

-----------------------------------------------------------------------------
(* The output of "openclaw status --all": its sections in any order.       *)
Shown == {
    [cell |-> Named(<<"ceo">>, "CEO"), boot |-> Text("PRESENT"), sess |-> Text("2"),
     act |-> Named(<<"5m", "ago">>, ""),
     means |-> [id |-> <<"ceo">>, name |-> "CEO", bootstrap |-> Text("PRESENT"),
                sessions |-> 2, active |-> Text("5m")]],
    [cell |-> Named(<<"ops">>, ""), boot |-> Named(<<"ws", "BOOTSTRAP.md">>, ""),
     sess |-> Text("-"), act |-> Named(<<"just", "now">>, ""),
     means |-> [id |-> <<"ops">>, name |-> "", bootstrap |-> Text("BOOTSTRAP.md"),
                sessions |-> 0, active |-> Text("now")]]}
ShownIds == {a.means.id : a \in Shown}
Standard == <<"Agent", "Bootstrap file", "Sessions", "Active">>
Columns == {Standard, <<"Agent", "Sessions", "Bootstrap", "Last active">>, <<"Agent", "Active">>}
Keys == {Named(<<"agent", "ceo", "main">>, ""), Named(<<"agent", "ceo", "cron">>, ""),
         Named(<<"agent", "ops", "cron">>, ""), Text("global")}
Numbered(s) == [i \in DOMAIN s |-> s[i] @@ [model |-> Text(<<"m1", "m2", "m3">>[i])]]

Row(i, cells) == IF i.border THEN <<Empty>> \o cells \o <<Empty>> ELSE cells
Table(i, title, header, rows) ==
    <<<<title>>, Rule, Row(i, [c \in DOMAIN header |-> Text(header[c])]), Rule>>
        \o [r \in DOMAIN rows |-> Row(i, rows[r])] \o <<Rule, Blank>>
AgentCell(a, column) ==
    CASE column = "Agent" -> a.cell
      [] column \in {"Bootstrap", "Bootstrap file"} -> a.boot
      [] column = "Sessions" -> a.sess
      [] OTHER -> a.act
Items(i) == <<<<Text("Version"), Text("v1")>>>>
    \o (IF i.summary THEN <<<<Text("Agents"), Text("2 agents")>>>> ELSE <<>>)
    \o <<<<Text("Config"), Text("c1")>>>>
Printed(i, section) ==
    CASE section = "overview" -> Table(i, Text("Overview"), <<"Item", "Value">>, Items(i))
      [] section = "channels" -> Table(i, Text("Channels"),
            <<"Channel", "Enabled", "State", "Detail">>,
            <<<<Text("Telegram"), Text("ON"), Text("OK"), Text("-")>>>>)
      [] section = "agents" -> Table(i, Named(IF i.colon THEN <<"Agents", ":">> ELSE <<"Agents">>, ""),
            i.columns, [a \in DOMAIN i.agents |->
                [c \in DOMAIN i.columns |-> AgentCell(i.agents[a], i.columns[c])]])
      [] section = "sessions" -> Table(i, Text("Sessions"), <<"Key", "Kind", "Age", "Model", "Tokens">>,
            [s \in DOMAIN i.sessions |->
                <<i.sessions[s].key, Text("direct"), Text("1m"), i.sessions[s].model, Text("9")>>])
Output(i) == FoldLeft(LAMBDA lines, s : lines \o Printed(i, s), <<>>, i.order)

Orders == {o \in [1..4 -> {"overview", "channels", "agents", "sessions"}] :
            \A a, b \in 1..4 : o[a] = o[b] => a = b}
UsualOrder == <<"overview", "channels", "agents", "sessions">>

ReadStatus == \E order \in Orders, colon, border, summary \in BOOLEAN, columns \in Columns,
                 agents \in SeqOf(Shown, 2) :
    input' = [fn |-> "status", order |-> order, colon |-> colon, border |-> border,
        summary |-> summary, columns |-> columns, agents |-> agents, items |-> <<>>,
        sessions |-> Numbered(<<[key |-> Named(<<"agent", "ceo", "main">>, ""), agent |-> <<"ceo">>]>>)]

ReadSessions == \E keys \in SeqOf(Keys, 3) :
    input' = [fn |-> "sessions", order |-> UsualOrder, colon |-> TRUE, border |-> TRUE,
        summary |-> TRUE, columns |-> Standard, agents |-> SetToSeq(Shown), items |-> <<>>,
        ids |-> ShownIds,
        sessions |-> Numbered([i \in DOMAIN keys |->
            [key |-> keys[i], agent |-> parseAgentIDFromSessionKey(keys[i])]])]

(* Without a table the sessions come as JSON, some without a key.          *)
ReadSessionsJSON == \E items \in SeqOf([key : Keys \union {Empty}, agent : {<<>>, <<"ceo">>}], 3) :
    input' = [fn |-> "sessions", order |-> SubSeq(UsualOrder, 1, 3), colon |-> TRUE, border |-> TRUE,
        summary |-> TRUE, columns |-> Standard, agents |-> SetToSeq(Shown),
        items |-> Numbered(items), ids |-> ShownIds,
        sessions |-> SelectSeq([i \in DOMAIN items |-> LET s == Numbered(items)[i] IN
            IF s.agent = <<>> THEN [s EXCEPT !.agent = parseAgentIDFromSessionKey(s.key)] ELSE s],
            LAMBDA s : s.agent # <<>>)]

(* An agent's columns that are not printed are blank.                      *)
Expected(i) == [a \in DOMAIN i.agents |-> LET m == i.agents[a].means IN
    IF i.columns = <<"Agent", "Active">> THEN [m EXCEPT !.bootstrap = Empty, !.sessions = 0] ELSE m]

(* Rows without borders whose first column says "Agents" look like a title.*)
NoFalseTitle(i) == i.border \/ ~i.summary
(* The section after Agents, if any, is one that isNextSection knows.      *)
AgentsEnd(i) == \A p \in 1..(Len(i.order) - 1) :
    i.order[p] = "agents" => i.order[p + 1] = "channels"
(* "Agents:" has its columns found by name; "Agents" is taken for a header *)
(* itself, and the columns are then taken by position, dropping rows that  *)
(* speak of a bootstrap.                                                   *)
ByPosition(i) == /\ i.border /\ i.columns = Standard
                 /\ \A a \in DOMAIN i.agents : i.agents[a].means.id # <<"ops">>


-----------------------------------------------------------------------------
(* Agents of the table completed from "agents list".                       *)
TableAgents == [id : {<<"a">>, <<"b">>}, name : {"", "A"}, sessions : {0, 1},
    active : {Empty, Text("5m")}, bootstrap : {Empty}]
ListAgents == [id : {<<"a">>, <<>>}, name : {"", "L"}, sessions : {0, 2},
    active : {Text("9h")}, bootstrap : {Empty, Text("PRESENT")}]
Merge == \E agents \in SeqOf(TableAgents, 2), items \in SeqOf(ListAgents, 2) :
    input' = [fn |-> "merge", agents |-> agents, items |-> items]

-----------------------------------------------------------------------------
(* What "openclaw agent --json" prints: maps of maps, lists and texts.     *)
Str(s, json) == [t |-> "text", s |-> s, json |-> json]
ListOf(items) == [t |-> "list", items |-> items]
MapOf(of) == [t |-> "map", of |-> of]
Null == [t |-> "other"]
AnswerKeys == {"payloads", "text"}
OtherKeys == {"runId", "meta"}
AnyKey == AnswerKeys \union OtherKeys
(* A text in a field that is no answer's is "noise".                       *)
Scalars(k) == {Str(IF k \in AnswerKeys THEN "a" ELSE "noise", <<>>), Null}
SmallMaps == {MapOf(<<>>)}
    \union {MapOf(k :> v) : k \in AnswerKeys, v \in Scalars("text")}
    \union {MapOf(k :> v) : k \in OtherKeys, v \in Scalars("meta")}
    \union {MapOf(k :> v @@ l :> w) : k \in AnswerKeys, l \in OtherKeys,
                v \in Scalars("text"), w \in Scalars("meta")}
Nodes == SmallMaps \union {ListOf(<<>>), ListOf(<<Null, Str("b", <<>>)>>)}
    \union {Str("json", <<m>>) : m \in SmallMaps}
Fields(k) == Scalars(k) \union (IF k \in AnswerKeys THEN Nodes ELSE {n \in Nodes : Container(n)})
Wrap(v, how) ==
    CASE how = "list" -> ListOf(<<Null, v>>)
      [] how = "data" -> MapOf("data" :> v)
      [] how = "meta" -> MapOf("meta" :> ListOf(<<v>>))
      [] OTHER -> Str("json", <<v>>)
Chain(how, n) ==
    LET wrapped[k \in 0..n] == IF k = 0 THEN Str("a", <<>>) ELSE Wrap(wrapped[k - 1], how)
    IN  wrapped[n]

Inside(v) == IF v.t = "map" THEN v.of[CHOOSE k \in DOMAIN v.of : TRUE] ELSE v
Ways == {"list", "data", "meta", "json"}

(* All of these, and every value inside them.                              *)
OneField == UNION {{k} \X Fields(k) : k \in AnyKey}
Printable ==
    {MapOf(p[1] :> p[2] @@ q[1] :> q[2]) : p, q \in OneField}
        \union {p[2] : p \in OneField} \union {Str("b", <<>>)}
        \union UNION {{Chain(how, n), Inside(Chain(how, n))} : how \in Ways, n \in 0..10}
MCValue == Printable

ReadReply == \E k, l \in AnyKey, err \in BOOLEAN : \E v \in Fields(k), w \in Fields(l) :
    input' = [fn |-> "reply", err |-> err, out |-> Str("whole", <<MapOf(k :> v @@ l :> w)>>)]
ReadDeepReply == \E how \in Ways, n \in 0..10 :
    input' = [fn |-> "reply", err |-> FALSE, out |-> Str("whole", <<Chain(how, n)>>)]
ReadPlainReply == \E err \in BOOLEAN, s \in {"", "whole"} :
    input' = [fn |-> "reply", err |-> err, out |-> Str(s, <<>>)]

-----------------------------------------------------------------------------
(* Settings; the attempts are at most 30, as their waits are numbers of 31 *)
(* bits here.                                                              *)
Given == {-1, 0, 1, 2, 7, 30, 101, 1001}
ReadSettings == \E f \in Number, v, w \in Given :
    /\ IF f = "attempts" THEN v <= 30 ELSE w <= 30
    /\ input' = [fn |-> "settings", given |-> [g \in Number |-> IF g = f THEN v ELSE w]]

-----------------------------------------------------------------------------
MCInit == input = [fn |-> "none"] /\ Init

Choose ==
    \/ ReadStatus \/ ReadSessions \/ ReadSessionsJSON \/ Merge
    \/ ReadReply \/ ReadDeepReply \/ ReadPlainReply
    \/ ReadSettings \/ input' = [fn |-> "log"]

MCNext ==
    \/ input.fn = "none" /\ Choose /\ UNCHANGED vars
    \/ input.fn = "log" /\ Next /\ UNCHANGED input

MCSpec == MCInit /\ [][MCNext]_<<input, vars>> /\ Fairness
=============================================================================
