---------------------------- MODULE MCAgentLoop ----------------------------
(* Small instances of AgentLoop.                                           *)
EXTENDS AgentLoop

TwoServers == {"fs", "rea"}
Bases == {"open", "read", "scan", "find_tools"}

Tool(b, cost, score) == [base |-> b, cost |-> cost, score |-> score]
Offer(fs, rea, defer) ==
    [catalogue |-> <<[server |-> "fs", tools |-> fs], [server |-> "rea", tools |-> rea]>>,
     deferAll |-> defer]

\* With 4 for each and 6 for all: one whose best tools leave room for a smaller one
\* only; one that fits but for a tool that is too large, with a name both servers use;
\* and one that is deferred.
SomeOffers == {
    Offer(<<Tool("read", 4, 3), Tool("scan", 3, 2)>>, <<Tool("open", 2, 1)>>, FALSE),
    Offer(<<Tool("open", 1, 1), Tool("scan", 5, 2)>>, <<Tool("open", 1, 1)>>, FALSE),
    Offer(<<Tool("read", 1, 0)>>, <<>>, TRUE)}

SomeCalls == {"open", "rea open", "find"}
TheirTool == [c \in SomeCalls |->
    CASE c = "open" -> <<NoPrefix, "open">>
      [] c = "rea open" -> <<"rea", "open">>
      [] c = "find" -> <<NoPrefix, "find_tools">>]
Found == {"find"}
TwoAnswers == {"short", "long"}
Tokens == [a \in TwoAnswers |-> IF a = "long" THEN 4 ELSE 1]
=============================================================================
