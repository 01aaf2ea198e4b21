----------------------------- MODULE MCEditing -----------------------------
(* Small instances of Editing.                                             *)
EXTENDS Editing

\* a, b are statements, a1 is a with other punctuation, a2 resembles a; f and g open
\* functions, m is a method.
Tokens == {"a", "a1", "a2", "b", "n", "f {", "g {", "m {", "}"}
Folds == [t \in Tokens |-> IF t = "a1" THEN "a" ELSE t]
Alike == [p \in Tokens \X Tokens |->
            IF p[1] = p[2] THEN 100
            ELSE IF {p[1], p[2]} \in {{"a", "a2"}, {"a", "a1"}} THEN 85
            ELSE IF {p[1], p[2]} \subseteq {"a1", "a2"} THEN 80
            ELSE IF "b" \in {p[1], p[2]} /\ {p[1], p[2]} \subseteq {"a", "a2", "b"} THEN 60 ELSE 0]
Size == [t \in Tokens |-> IF t = "}" THEN 1 ELSE 4]
Braced == [t \in Tokens |-> IF t \in {"f {", "g {", "m {"} THEN 1 ELSE IF t = "}" THEN -1 ELSE 0]
Opening == {"f {", "g {", "m {"}
Named == [t \in Tokens |-> CASE t = "f {" -> "f" [] t = "g {" -> "g" [] t = "m {" -> "m" [] OTHER -> "none"]
Said == [t \in Tokens |-> IF t \in Opening THEN {"Connect", "State", t} ELSE {}]
Methods == {"m {"}

L(t) == [indent |-> 0, tokens |-> <<t>>]
I(t) == [indent |-> 1, tokens |-> <<t>>]
Lines(s) == [i \in DOMAIN s |-> IF s[i] \in Opening \cup {"}"} THEN L(s[i]) ELSE I(s[i])]

Function(n, body) == Lines(<<n>> \o body \o <<"}">>)
SomeHeads ==
    {<<>>} \cup {Function("f {", x) : x \in {<<"a">>, <<"a", "b">>, <<"a1", "b">>, <<"a2", "b">>}}
    \cup {Function("f {", <<"a", "b">>) \o Function("m {", y) : y \in {<<"a", "b">>, <<"a2", "b">>}}
SomeWholes ==
    {Function("f {", <<"b">>), Function("g {", <<"a">>), Lines(<<"f {", "a">>),
     Function("f {", <<"a">>) \o Function("f {", <<>>), Function("f {", <<"a", "b">>) \o Function("g {", <<>>)}

Searches == {<<I("a")>>, <<L("a")>>, <<I("a"), I("b")>>, <<I("a1"), I("b")>>, <<I("a1")>>, <<I("a"), I("a")>>,
             <<L("f {"), I("b"), L("}")>>, <<[indent |-> 1, tokens |-> <<"a", "b">>]>>, <<L("g {")>>, <<L("}")>>}
Replaces == {<<I("b")>>, <<L("a"), I("b")>>, <<I("b"), I("b")>>, Function("g {", <<"b">>), <<I("a1"), I("a2"), I("b")>>}
OneBlock == {[search |-> s, replace |-> r, escaped |-> FALSE] : s \in Searches, r \in Replaces}
    \cup {[search |-> <<I("a"), I("b")>>, replace |-> r, escaped |-> TRUE] : r \in Replaces}
SomeBlocks == {<<b>> : b \in OneBlock} \cup
    {<<b, c>> : b, c \in {x \in OneBlock : x.search = <<I("a"), I("b")>>}}
\* n is the value that is added.  Plans are made on a copy that may be any of the heads:
\* one or two lines of it each get a block behind them or are replaced by one.
PlannedBlocks == {<<I("n")>>, Function("g {", <<"n">>), <<L("g {")>>}
Planned(copy, n, k, b) ==
    [after |-> n, replace |-> k, block |-> b, anchor |-> copy[n].tokens, anchorLine |-> n]
PlansFor(copy) ==
    LET at(n) == {Planned(copy, n, 0, b) : b \in PlannedBlocks}
                   \cup {[Planned(copy, n, 0, <<I("n"), I("b")>>) EXCEPT !.anchor = <<>>]}
                   \cup (IF copy[n].indent = 1 THEN {Planned(copy, n, 1, <<I("n"), copy[n]>>)} ELSE {})
        all == UNION {at(n) : n \in DOMAIN copy}
    IN {{c} : c \in all} \cup {{p[1], p[2]} : p \in {q \in all \X all : q[1].after < q[2].after
                                                /\ <<L("g {")>> \notin {q[1].block, q[2].block}}}
SomePlans == UNION {PlansFor(copy) : copy \in SomeHeads \ {<<>>}}

SomeSnippets == {<<L("g {"), L("}")>>}
=============================================================================
