---------------------------- MODULE StatusTables ----------------------------
(***************************************************************************)
(* internal/collector/openclaw.go: what the agent reads out of the tables  *)
(* that "openclaw status --all" prints, and how it completes it from       *)
(* "agents list" and from the sessions.                                    *)
(*                                                                         *)
(* A line is the sequence of its cells, as splitTableRow returns it: a     *)
(* title is one cell, a row drawn with borders has an empty cell at each   *)
(* end.  A cell is [w, name]: its words, cut at blanks, colons and         *)
(* slashes, and the name in parentheses of an agent's cell, "ceo (CEO)".   *)
(* Texts are spelled as the CLI spells them; letter case is left out.      *)
(***************************************************************************)
EXTENDS Integers, Sequences, FiniteSets, SequencesExt, FiniteSetsExt, Functions

Named(words, name) == [w |-> words, name |-> name]
Text(word) == Named(<<word>>, "")
Empty == Named(<<>>, "")

Blank == <<Empty>>
Rule == <<Text("---")>>      \* a line of box-drawing characters

(* The titles isNextSection knows.  "Overview", "Status" and "Sessions"   *)
(* are not among them.                                                     *)
Sections == {"Channels", "Telegram accounts", "Agents", "Diagnosis",
    "Gateway connection", "Gateway last log", "Pasteable debug", "FAQ",
    "Troubleshooting", "Next steps"}

First(S) == IF S = {} THEN 0 ELSE Min(S)
Leads(line, titles) == line[1].w # <<>> /\ line[1].w[1] \in titles
isNextSection(line) == Leads(line, Sections)
findSectionStart(lines, title) == First({i \in DOMAIN lines : Leads(lines[i], {title})})
Skipped(line) == line \in {Blank, Rule}

(* The rows of a table: from a line to the next title that is known.       *)
Rows(lines, from) ==
    LET ends == {i \in from..Len(lines) : isNextSection(lines[i])}
        last == IF ends = {} THEN Len(lines) ELSE Min(ends) - 1
    IN  SelectSeq(SubSeq(lines, from, last), LAMBDA l : ~Skipped(l))

-----------------------------------------------------------------------------
(* Overview: the items of a table of two columns.  strings.Join puts the   *)
(* cells from the third on together again, the empty one after the closing *)
(* border too, so that a value is a sequence of cells.                     *)
KeyOf(row) == IF Len(row) >= 3 THEN row[2] ELSE row[1]
ValueOf(row) == SubSeq(row, IF Len(row) >= 3 THEN 3 ELSE 2, Len(row))
parseKeyValueTable(lines, title) ==
    LET start == findSectionStart(lines, title)
        rows == IF start = 0 THEN <<>> ELSE SelectSeq(Rows(lines, start), LAMBDA l :
                    Len(l) >= 2 /\ KeyOf(l) \notin {Empty, Text("Item"), Text("Key")})
    IN  [k \in {KeyOf(rows[i]) : i \in DOMAIN rows} |->
            ValueOf(rows[Max({i \in DOMAIN rows : KeyOf(rows[i]) = k})])]

parseOverview(lines) ==
    LET found == parseKeyValueTable(lines, "Overview")
    IN  IF found # <<>> THEN found ELSE parseKeyValueTable(lines, "Status")

(* A table whose columns follow the one named headers[1], which is looked  *)
(* for from the title on, in the first three cells of a line.              *)
parseTable(lines, title, headers) ==
    LET start == findSectionStart(lines, title)
        Col(l) == First({c \in 1..Len(l) : c <= 3 /\ l[c] = Text(headers[1])})
        at == First({i \in start..Len(lines) : i > 0 /\ Col(lines[i]) > 0})
        col == Col(lines[at])
        rows == SelectSeq(Rows(lines, at + 1),
            LAMBDA l : col + Len(headers) <= Len(l) + 1 /\ l[col] # Empty)
    IN  IF start = 0 \/ at = 0 \/ \E j \in start..(at - 1) : isNextSection(lines[j])
        THEN <<>>
        ELSE [r \in DOMAIN rows |->
                [h \in Range(headers) |-> rows[r][col + First({k \in DOMAIN headers : headers[k] = h}) - 1]]]

(* The accounts of a channel are looked up for each row: there is none,    *)
(* see StatusRead.                                                         *)
parseChannels(lines) ==
    LET rows == parseTable(lines, "Channels", <<"Channel", "Enabled", "State", "Detail">>)
    IN  [r \in DOMAIN rows |-> [type |-> rows[r]["Channel"],
            enabled |-> rows[r]["Enabled"] = Text("ON"), state |-> rows[r]["State"]]]

-----------------------------------------------------------------------------
(* Agents.                                                                 *)
Numeral == [n \in {"1", "2", "3"} |-> CHOOSE k \in 1..3 : ToString(k) = n]
parseInt(cell) ==
    IF cell.w # <<>> /\ cell.w[1] \in DOMAIN Numeral THEN Numeral[cell.w[1]] ELSE 0

NoValue == {Text(t) : t \in {"-", "n/a", "na", "none", "null", "unknown"}}
normalizeAgentActive(cell) ==
    CASE cell \in NoValue \union {Text("offline"), Text("inactive")} -> Empty
      [] cell.w = <<"just", "now">> -> Text("now")
      [] Len(cell.w) > 1 /\ Last(cell.w) = "ago" -> Named(Front(cell.w), "")
      [] OTHER -> cell
normalizeAgentBootstrap(cell) ==    \* a path is cut to its last element
    CASE cell \in NoValue \union {Text("default"), Empty} -> Empty
      [] OTHER -> Text(Last(cell.w))

Mentions(cell, words) == \E i \in DOMAIN cell.w : cell.w[i] \in words
isAgentHeaderRow(line) ==
    \E c \in DOMAIN line :
        \/ line[c] \in {Text(t) : t \in {"Agent", "Agents", "Sessions", "Active", "Store"}}
        \/ Mentions(line[c], {"Bootstrap", "Bootstrap file", "BOOTSTRAP.md"})

Cell(line, c) == IF c \in DOMAIN line THEN line[c] ELSE Empty
Agent(cell, bootstrap, sessions, active) ==
    [id |-> cell.w, name |-> cell.name, bootstrap |-> normalizeAgentBootstrap(bootstrap),
     sessions |-> parseInt(sessions), active |-> normalizeAgentActive(active)]

(* The columns are found by their names in the first header row from the  *)
(* title on; a title of the one word "Agents" passes for one.              *)
parseAgentsTable(lines) ==
    LET start == findSectionStart(lines, "Agents")
        at == First({i \in start..Len(lines) :
                        i > 0 /\ ~Skipped(lines[i]) /\ isAgentHeaderRow(lines[i])})
        Col(names) == First({c \in DOMAIN lines[at] : lines[at][c] \in {Text(n) : n \in names}})
        rows == SelectSeq(Rows(lines, at + 1), LAMBDA l : Cell(l, Col({"Agent", "Agents"})) # Empty)
    IN  IF start = 0 \/ at = 0 \/ \E j \in (start + 1)..at : isNextSection(lines[j])
        THEN <<>>
        ELSE [r \in DOMAIN rows |-> Agent(Cell(rows[r], Col({"Agent", "Agents"})),
                Cell(rows[r], Col({"Bootstrap", "Bootstrap file"})),
                Cell(rows[r], Col({"Sessions", "Session"})),
                Cell(rows[r], Col({"Active", "Activity", "Last active"})))]


(* By position: the first cell that is not empty, and the three after it.  *)
parseAgentsLoose(lines) ==
    LET start == findSectionStart(lines, "Agents")
        Offset(l) == First({c \in DOMAIN l : l[c] # Empty})
        rows == SelectSeq(Rows(lines, start + 1),
                    LAMBDA l : ~isAgentHeaderRow(l) /\ Offset(l) > 0)
    IN  IF start = 0 THEN <<>>
        ELSE [r \in DOMAIN rows |-> LET o == Offset(rows[r]) IN
                Agent(rows[r][o], Cell(rows[r], o + 1), Cell(rows[r], o + 2), Cell(rows[r], o + 3))]

parseAgents(lines) ==
    LET found == parseAgentsTable(lines)
    IN  IF found # <<>> THEN found ELSE parseAgentsLoose(lines)

-----------------------------------------------------------------------------
(* Sessions: of several sessions of an agent the ":main" one is shown.     *)
parseAgentIDFromSessionKey(key) ==
    IF Len(key.w) >= 2 /\ key.w[1] = "agent" THEN <<key.w[2]>> ELSE <<>>
Session(key, id, model) == [key |-> key, agent |-> id, model |-> model]

parseSessionsTable(lines) ==
    LET rows == parseTable(lines, "Sessions", <<"Key", "Kind", "Age", "Model", "Tokens">>)
        all == [r \in DOMAIN rows |-> Session(rows[r]["Key"],
                    parseAgentIDFromSessionKey(rows[r]["Key"]), rows[r]["Model"])]
    IN  SelectSeq(all, LAMBDA s : s.agent # <<>>)

(* collectSessionsJSON, given the items [key, agentId, model] of the CLI's *)
(* JSON: an item may name its agent, and may come without a key.           *)
collectSessionsJSON(items) ==
    LET all == [i \in DOMAIN items |-> Session(items[i].key,
                    IF items[i].agent # <<>> THEN items[i].agent
                    ELSE parseAgentIDFromSessionKey(items[i].key), items[i].model)]
    IN  SelectSeq(all, LAMBDA s : s.agent # <<>>)

isMain(session) == session.key.w # <<>> /\ Last(session.key.w) = "main"
(* Mutant: of two like sessions the later one wins.                        *)
preferSessionSnapshot_Latest(candidate, existing) == isMain(candidate) \/ ~isMain(existing)
preferSessionSnapshot(candidate, existing) ==
    IF isMain(candidate) # isMain(existing) THEN isMain(candidate) ELSE existing.key = Empty

(* The loop over the sessions: the place of the one it leaves for an agent, *)
(* 0 for none.                                                             *)
bestByAgent(sessions, id) ==
    LET best[n \in 0..Len(sessions)] ==
            IF n = 0 THEN 0
            ELSE IF /\ sessions[n].agent = id
                    /\ \/ best[n - 1] = 0
                       \/ preferSessionSnapshot(sessions[n], sessions[best[n - 1]])
                 THEN n ELSE best[n - 1]
    IN  best[Len(sessions)]

SessionsRead(lines, items) ==
    LET table == parseSessionsTable(lines)
    IN  IF table # <<>> THEN table ELSE collectSessionsJSON(items)

ShownFor(sessions, id) ==
    LET best == bestByAgent(sessions, id)
    IN  IF best = 0 THEN Empty ELSE sessions[best].model
annotateAgentsWithSessions(lines, items, agents) ==
    [a \in DOMAIN agents |-> ShownFor(SessionsRead(lines, items), agents[a].id)]

-----------------------------------------------------------------------------
(* CollectOpenClawInfo: when there are no agents, or one has no name, the  *)
(* answer of "agents list" stands in, field by field.                      *)
Listed(item) == [item EXCEPT !.name = IF @ = "" THEN item.id[1] ELSE @]
collectAgentsList(items) ==
    LET agents[n \in 0..Len(items)] ==
            IF n = 0 THEN <<>>
            ELSE IF items[n].id = <<>> THEN agents[n - 1]
            ELSE Append(agents[n - 1], Listed(items[n]))
    IN  agents[Len(items)]

Fill(known, none, other) == IF known = none THEN other ELSE known
Completed(a, b) ==
    [a EXCEPT !.name = Fill(@, "", b.name), !.sessions = Fill(@, 0, b.sessions),
              !.active = Fill(@, Empty, b.active), !.bootstrap = Fill(@, Empty, b.bootstrap)]
mergeAgents(agents, list) ==
    IF list = <<>> \/ (agents # <<>> /\ \A i \in DOMAIN agents : agents[i].name # "")
    THEN agents
    ELSE IF agents = <<>> THEN list
    ELSE [i \in DOMAIN agents |->
            LET same == {j \in DOMAIN list : list[j].id = agents[i].id}
            IN  IF same = {} THEN agents[i] ELSE Completed(agents[i], list[Max(same)])]
=============================================================================
