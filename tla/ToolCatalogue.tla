--------------------------- MODULE ToolCatalogue ---------------------------
(***************************************************************************)
(* Which tools of which MCP servers the agent knows, under which name, and *)
(* which of them fit into the prompt (config.go and pick.go of mcpclient,  *)
(* the head of Loop.Run).                                                  *)
(*                                                                         *)
(* A catalogue is a sequence of servers in the order of their names, each  *)
(* with the sequence of its tools.  A tool has the characters its schema   *)
(* costs and the score the words of the goal give it.                      *)
(***************************************************************************)
EXTENDS Integers, Sequences, FiniteSets, FiniteSetsExt, SequencesExt

CONSTANTS
    Server,         \* names of servers
    Base,           \* names servers give their tools
    MaxToolChars,   \* a tool that costs more is not advertised
    ToolChars,      \* what all advertised tools may cost
    MaxHits         \* how many tools find_tools lists

ServedTool == [base : Base, cost : Nat, score : Nat]
Catalogue == Seq([server : Server, tools : Seq(ServedTool)])

ASSUME CatalogueAssumption == {MaxToolChars, ToolChars, MaxHits} \subseteq Nat

\* A name is what the server calls the tool, with the server before it if two
\* servers use the same.
NoPrefix == "none"
Name == (Server \cup {NoPrefix}) \X Base

\* Every tool with its server, in the order of the servers.
Flat(cat) ==
    FlattenSeq([s \in DOMAIN cat |->
        [i \in DOMAIN cat[s].tools |-> [server |-> cat[s].server, tool |-> cat[s].tools[i]]]])

Seen(cat, b) == Cardinality({i \in DOMAIN Flat(cat) : Flat(cat)[i].tool.base = b})

NameOf(cat, x) == <<IF Seen(cat, x.tool.base) > 1 THEN x.server ELSE NoPrefix, x.tool.base>>

AllTools(cat) ==
    [i \in DOMAIN Flat(cat) |->
        LET x == Flat(cat)[i] IN
        [name |-> NameOf(cat, x), cost |-> x.tool.cost, score |-> x.tool.score, server |-> x.server]]

\* The server of every name; the later of two that end up with one name has it.
Owner(ts) ==
    LET last(n) == CHOOSE i \in DOMAIN ts :
                      ts[i].name = n /\ \A j \in DOMAIN ts : ts[j].name = n => j <= i
    IN [n \in {ts[i].name : i \in DOMAIN ts} |-> ts[last(n)].server]

\* Tools are picked by their places in the list.
CostOf(ts, S) == MapThenSumSet(LAMBDA i : ts[i].cost, S)

Visible(ts) == {i \in DOMAIN ts : ts[i].cost <= MaxToolChars}

\* Best score first, the earlier one among equals.
Better(ts, i, j) == ts[i].score > ts[j].score \/ (ts[i].score = ts[j].score /\ i < j)
Ranked(ts, S) ==
    CHOOSE q \in [1..Cardinality(S) -> S] : \A a, b \in DOMAIN q : a < b => Better(ts, q[a], q[b])

\* One that is too large is passed over, smaller ones behind it are not.
Fits(ts, used, i, room) == used + ts[i].cost <= room
TakeIfFits(ts, room, picked, i) ==
    IF ts[i].score > 0 /\ Fits(ts, CostOf(ts, picked), i, room) THEN picked \cup {i} ELSE picked
Pick(ts, S, room) ==
    FoldLeft(LAMBDA picked, i : TakeIfFits(ts, room, picked, i), {}, Ranked(ts, S))

\* Everything if it fits, and otherwise what the goal picks; the tools that find
\* tools are advertised with it.
OffersFindTools(ts, deferAll) == CostOf(ts, Visible(ts)) > ToolChars \/ deferAll
Advertised(ts, deferAll) ==
    IF ~OffersFindTools(ts, deferAll) THEN Visible(ts)
    ELSE IF deferAll THEN {}
    ELSE Pick(ts, Visible(ts), ToolChars)

\* What find_tools lists for words that give the tools their scores: of all
\* tools, those left out of the prompt included.
FindTools(ts) ==
    LET hits == {i \in DOMAIN ts : ts[i].score > 0}
        most == IF Cardinality(hits) < MaxHits THEN Cardinality(hits) ELSE MaxHits
    IN SubSeq(Ranked(ts, hits), 1, most)
=============================================================================
