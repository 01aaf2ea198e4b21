----------------------------- MODULE MCPlanVote -----------------------------
(* Small instances of PlanVote.                                            *)
EXTENDS PlanVote, TLC

CONSTANTS m1, m2, m3, bge, v1, p1, p2

Models == {m1, bge}
Callers == {m1, m2, m3, bge}

\* "plan" and "plan " say the same; "broken" cannot be read
Keys == ("plan" :> "plan") @@ ("plan " :> "plan") @@ ("other" :> "other") @@ ("broken" :> "broken")
Texts == DOMAIN Keys
\* only one of them calls a tool besides
Parts == [x \in Texts |-> IF x = "broken" THEN 2 ELSE 1]
Plannable == Texts \ {"broken"}

\* Three answer, in every way, and no task is named to tell it of; two are
\* told of to a viewer, and one that says more; and one is read from the
\* settings as two persons change them.
ThreeVote == [voters |-> <<m1, m2, m3>>, viewers |-> {}, persons |-> {},
              named |-> FALSE, answers |-> Texts, rows |-> {NoEntry}]
TwoAreSeen == [voters |-> <<m1, m2>>, viewers |-> {v1}, persons |-> {},
               named |-> TRUE, answers |-> {"plan"}, rows |-> {NoEntry}]
OneIsSeen == [TwoAreSeen EXCEPT !.voters = <<m1>>, !.answers = {"broken"}]
Chosen == [voters |-> <<>>, viewers |-> {}, persons |-> {p1, p2},
           named |-> FALSE, answers |-> {"plan"}, rows |-> Value \cup {NoEntry}]
Scenes == {ThreeVote, TwoAreSeen, OneIsSeen, Chosen}
=============================================================================
