-------------------------- MODULE MCContractChange --------------------------
(* Small instances of ContractChange.                                      *)
EXTENDS ContractChange

CONSTANTS api, other, far
\* contracts: api's, and two of a repository of which no copy is here
CONSTANTS c1, c2, c3

Contracts == {c1, c2, c3}
Repos == {api, other, far}
Copies == {api, other}
Publisher == (c1 :> api) @@ (c2 :> far) @@ (c3 :> far)
Originals == (c1 :> api) @@ (c2 :> None) @@ (c3 :> None)

\* Received is a message of api, Kind an enum of it, Shown a type that the web
\* repository wrote by hand, Sent one that it generated from c2.
Names == {"Received", "Kind", "Shown", "Sent"}
Homes == ("Held" :> c1) @@ ("Received" :> c1) @@ ("Kind" :> None) @@ ("Shown" :> "hand") @@ ("Sent" :> c2)
Traced == ("Held" :> None) @@ ("Received" :> None) @@ ("Kind" :> None) @@ ("Shown" :> c1) @@ ("Sent" :> None)
SomeTraces == {{}, {c1}, {c1, c2}}
SomeScans == {[found |-> Contracts, complete |-> TRUE], [found |-> {c1}, complete |-> FALSE],
              [found |-> {}, complete |-> TRUE]}
Scores == {-1, 0, 1, 3}

Blocks == {"received", "state", "kind", "service", "extra"}
Packages == ("a" :> "ceo") @@ ("b" :> "ceo")

F(name, tail, type, num) == Member("field", name, tail, type, num)
Rpc(name) == Member("rpc", name, name, "", 0)
Value(name, num) == Member("value", name, name, "", num)

Id == F("id", "id", "string", 1)
Status(type, num) == F("status", "status", type, num)
Received == {Id, F("name", "name", "string", 2)}
Msg(file, name, members) == Decl(file, "message", name, members)

ReceivedNow == Msg("a", "Received", Received)
ReceivedVersions ==
    {ReceivedNow,
     Msg("a", "Received", Received \cup {Status("int32", 3)}),
     Msg("a", "Received", Received \cup {Status("string", 3)}),
     Msg("a", "Received", Received \cup {Status("Kind", 2)}),
     Msg("a", "Received", Received \cup {Status("int32", 9)}),
     Msg("a", "Received", {Id, Status("int32", 2)}),
     [Msg("a", "Renamed", Received \cup {Status("int32", 3)}) EXCEPT !.front = TRUE]}
\* a state that is there already, and one more of the same name
StateNow == Msg("a", "Held", {Id, F("old_status", "status", "int32", 2)})
StateVersions ==
    {StateNow, Msg("a", "Held", StateNow.members \cup {F("new_status", "status", "Kind", 3)})}
KindNow == Decl("b", "enum", "Kind", {Value("NONE", 0), Value("SENT", 1)})
ServiceNow == Decl("b", "service", "Internal", {Rpc("Get")})
ServiceVersions ==
    {ServiceNow, Decl("b", "service", "Internal", {Rpc("Get"), Rpc("Set")}),
     Decl("b", "service", "Internal", {Rpc("Set")})}
ExtraVersions ==
    {Msg("b", "RequestSet", {Id, Status("int32", 2)}),
     Msg("b", "SetRequest", {Id}),
     Msg("b", "RequestSet", {}),
     Msg("b", "Received", {Id, Status("int32", 2)}),
     Decl("b", "enum", "Hold", {Value("PENDING", 0)}),
     Decl("b", "service", "Outer", {Rpc("Set")})}

Contents ==
    ("received" :> ReceivedVersions) @@ ("state" :> StateVersions) @@ ("kind" :> {KindNow})
    @@ ("service" :> ServiceVersions) @@ ("extra" :> ExtraVersions)
ApiHead ==
    ("received" :> ReceivedNow) @@ ("state" :> StateNow) @@ ("kind" :> KindNow)
    @@ ("service" :> ServiceNow) @@ ("extra" :> NoDecl)
Heads == [r \in Repos |-> IF r = api THEN ApiHead ELSE [b \in Blocks |-> NoDecl]]
MessagesOf == [r \in Repos |-> IF r = api THEN {"Received", "Held"} ELSE {}]
EnumsOf == [r \in Repos |-> IF r = api THEN {"Kind"} ELSE {}]
AllNames == Names \cup {"Held"}
=============================================================================
