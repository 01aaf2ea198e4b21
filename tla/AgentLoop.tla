----------------------------- MODULE AgentLoop -----------------------------
(***************************************************************************)
(* One run of the agent (Loop.Run) with the tool servers it talks to over  *)
(* a pipe each (mcpclient.Client.call), on top of the catalogue of their   *)
(* tools.                                                                  *)
(*                                                                         *)
(* A turn folds the conversation until it fits the window, asks the model, *)
(* and carries out the calls in the answer one after the other.  Of a text *)
(* only its tokens and what it is matter.  A server answers when it likes, *)
(* may put lines of its own in between, or dies.                           *)
(***************************************************************************)
EXTENDS ToolCatalogue

CONSTANTS
    Offers,         \* what the servers may offer, and whether all of it is deferred
    Call,           \* the calls a model makes: a name with its arguments
    ToolOf,         \* of every call, the name of the tool
    BuiltIn,        \* calls the loop answers itself (find_tools, tool_help, ...)
    Answers,        \* what a call may return
    Weight,         \* tokens of an answer, at most ResultTokens
    HeadWeight,     \* tokens of instructions, advertised tools and goal
    MaxTurns,
    Budget,         \* historyBudget
    MinShare,       \* 64 tokens
    MaxLines        \* bound: lines a server sends unasked

\* What a call gives: the answer of a tool, an error a tool returned, or an error
\* of the loop itself.  Two texts are the same if they read the same.
Answer(a) == [is |-> "answer", says |-> a]
Failure(why) == [is |-> "failure", says |-> why]
Texts == {Answer(a) : a \in Answers} \cup {Failure(a) : a \in Answers \cup Call \cup {"cut off"}}

ASSUME AgentAssumption ==
    /\ IsFiniteSet(Call) /\ BuiltIn \subseteq Call
    /\ ToolOf \in [Call -> Name]
    /\ \A o \in Offers : o.catalogue \in Catalogue /\ o.deferAll \in BOOLEAN
    /\ \A o \in Offers : \A s \in DOMAIN o.catalogue : LET cat == o.catalogue IN
        /\ \A r \in DOMAIN cat : cat[r].server = cat[s].server => r = s
        /\ \A i, j \in DOMAIN cat[s].tools : cat[s].tools[i].base = cat[s].tools[j].base => i = j
    /\ Weight \in [Answers -> Nat \ {0}]
    /\ {HeadWeight, MaxTurns, Budget, MinShare} \subseteq Nat \ {0} /\ MaxLines \in Nat

VARIABLES
    offer,          \* of Offers
    owner,          \* the server behind every name
    pc, turn, outcome,
    history,        \* the conversation
    queue, results, \* calls of this turn still to be made, and what the others gave
    called, shown,  \* called and seenOut of the run
    seq,            \* of each client: the id of its latest request
    asked,          \* of each server: the requests it has not answered
    pipe,           \* of each server: the lines not yet read
    lines,          \* lines sent unasked
    dead            \* servers that died

catVars == <<offer, owner>>
clientVars == <<seq, asked, pipe, lines, dead>>
vars == <<pc, turn, outcome, history, queue, results, called, shown, clientVars, catVars>>

Piece == {"head", "summary", "calls", "results", "notice"}
Line == [id : Nat, of : Call \cup {"nobody"}, ok : BOOLEAN, says : Answers]
\* A result as the model sees it, under the name of its call; from is the call it
\* really answers.
Result == [call : Call, from : Call \cup {"loop", "nobody"},
           kind : {"answer", "failure", "seen before", "repeated"}, tokens : Nat]

TypeOK ==
    /\ offer \in Offers
    /\ DOMAIN owner \subseteq Name /\ \A n \in DOMAIN owner : owner[n] \in Server
    /\ pc \in {"fold", "ask", "work", "wait", "over"}
    /\ turn \in 1..MaxTurns + 1
    /\ outcome \in {"", "answer", "error", "spent"}
    /\ history \in Seq([is : Piece, tokens : Nat])
    /\ queue \in Seq(Call)
    /\ results \in Seq(Result)
    /\ called \subseteq Call /\ shown \subseteq Texts
    /\ seq \in [Server -> Nat]
    /\ \A s \in Server : asked[s] \in Seq([id : Nat, call : Call]) /\ pipe[s] \in Seq(Line)
    /\ lines \in 0..MaxLines /\ dead \subseteq Server

Init ==
    /\ offer \in Offers
    /\ owner = Owner(AllTools(offer.catalogue))
    /\ pc = "fold" /\ turn = 1 /\ outcome = ""
    /\ history = <<[is |-> "head", tokens |-> HeadWeight]>>
    /\ queue = <<>> /\ results = <<>> /\ called = {} /\ shown = {}
    \* initialize, tools/list and prompts/list are over
    /\ seq = [s \in Server |-> 3]
    /\ asked = [s \in Server |-> <<>>] /\ pipe = [s \in Server |-> <<>>]
    /\ lines = 0 /\ dead = {}
-----------------------------------------------------------------------------
(* Folding the conversation.                                               *)

TokensOf(h) == FoldSeq(LAMBDA p, n : n + p.tokens, 0, h)

\* The oldest pairs behind the first keep pieces go, until the rest fits or only
\* one pair is left.
Without(h, keep, pairs) == SubSeq(h, 1, keep) \o SubSeq(h, keep + 2 * pairs + 1, Len(h))

DropPairs(h, keep) ==
    LET enough(n) == Len(Without(h, keep, n)) <= keep + 2 \/ TokensOf(Without(h, keep, n)) <= Budget
    IN Without(h, keep, CHOOSE n \in 0..Len(h) : enough(n) /\ \A k \in 0..n - 1 : ~enough(k))

Share(n) == IF Budget \div n < MinShare THEN MinShare ELSE Budget \div n
Clipped(p, share) == [p EXCEPT !.tokens = IF @ <= share THEN @ ELSE share]

FitByDropping(h, keep) == IF Len(h) <= keep THEN h ELSE DropPairs(h, keep)

Fit(h, keep) ==
    IF Len(h) <= keep \/ TokensOf(h) <= Budget THEN h
    ELSE LET out == DropPairs(h, keep)
         IN IF TokensOf(out) <= Budget THEN out
            ELSE [i \in DOMAIN out |-> Clipped(out[i], Share(Len(out)))]

MustFold(h) == Len(h) >= 5 /\ TokensOf(h) > Budget

Summary == [is |-> "summary", tokens |-> 1]

\* The first piece, a summary of the middle, and the last four.
Folded(h) == <<Head(h), Summary>> \o SubSeq(h, Len(h) - 3, Len(h))

\* No summary: there was nothing to fold, or it failed.
Compact(h, summarized) ==
    IF summarized THEN Fit(Folded(h), 2) ELSE Fit(h, 1)

Notice == [is |-> "notice", tokens |-> 1]
WithNotice(h) == IF MaxTurns - turn <= 2 THEN Append(h, Notice) ELSE h

Fold ==
    /\ pc = "fold" /\ turn <= MaxTurns
    /\ \E summarized \in BOOLEAN :
        /\ summarized => MustFold(history) /\ Len(history) > 5
        /\ history' = WithNotice(Compact(history, summarized))
    /\ pc' = "ask"
    /\ UNCHANGED <<turn, outcome, queue, results, called, shown, clientVars>>
-----------------------------------------------------------------------------
(* Asking the model and calling tools.                                     *)

Over(o) ==
    /\ pc' = "over" /\ outcome' = o

\* An answer without calls is the last one; an error of the model ends the run.
EndRun ==
    /\ pc = "ask"
    /\ Over("answer") \/ Over("error")
    /\ UNCHANGED <<turn, history, queue, results, called, shown, clientVars>>

\* One or two calls in one answer.
CallTools ==
    /\ pc = "ask"
    /\ \E calls \in {<<c>> : c \in Call} \cup {<<c, d>> : c, d \in Call} : queue' = calls
    /\ history' = Append(history, [is |-> "calls", tokens |-> 1])
    /\ results' = <<>>
    /\ pc' = "work"
    /\ UNCHANGED <<turn, outcome, called, shown, clientVars>>

\* Mutant: a call that failed stays in the queue, to be made again.
GiveOrRetry(c, from, kind, tokens) ==
    /\ results' = Append(results, [call |-> c, from |-> from, kind |-> kind, tokens |-> tokens])
    /\ queue' = IF kind = "failure" THEN queue ELSE Tail(queue)
    /\ pc' = "work"

Give(c, from, kind, tokens) ==
    /\ results' = Append(results, [call |-> c, from |-> from, kind |-> kind, tokens |-> tokens])
    /\ queue' = Tail(queue)
    /\ pc' = "work"

\* A text is shown in full the first time and only mentioned afterwards.
TokensIn(text) == IF text.is = "answer" THEN Weight[text.says] ELSE 1

GiveText(c, from, text) ==
    IF text \in shown
    THEN Give(c, from, "seen before", 1) /\ UNCHANGED shown
    ELSE Give(c, from, text.is, TokensIn(text)) /\ shown' = shown \cup {text}

IsRepeatInTurn(c) == \E i \in DOMAIN results : results[i].call = c
IsRepeat(c) == c \in called

Repeated ==
    /\ pc = "work" /\ queue # <<>> /\ IsRepeat(Head(queue))
    /\ Give(Head(queue), "loop", "repeated", 1)
    /\ UNCHANGED <<turn, outcome, history, called, shown, clientVars>>

IsTool(c) == ToolOf[c] \in DOMAIN owner
ServerOf(c) == owner[ToolOf[c]]

DispatchHere ==
    LET c == Head(queue) IN
    /\ pc = "work" /\ queue # <<>> /\ ~IsRepeat(c) /\ (c \in BuiltIn \/ ~IsTool(c))
    /\ called' = called \cup {c}
    /\ \/ c \in BuiltIn /\ \E a \in Answers : GiveText(c, "loop", Answer(a))
       \/ GiveText(c, "loop", Failure(c))
    /\ UNCHANGED <<turn, outcome, history, clientVars>>

\* The request is written with a fresh id; a dead server breaks the pipe.
NextId(s) == seq[s] + 1

Request ==
    LET c == Head(queue)
        s == ServerOf(c)
    IN
    /\ pc = "work" /\ queue # <<>> /\ ~IsRepeat(c) /\ c \notin BuiltIn /\ IsTool(c)
    /\ called' = called \cup {c}
    /\ seq' = [seq EXCEPT ![s] = NextId(s)]
    /\ IF s \in dead
       THEN GiveText(c, "loop", Failure("cut off")) /\ UNCHANGED asked
       ELSE /\ asked' = [asked EXCEPT ![s] = Append(@, [id |-> NextId(s), call |-> c])]
            /\ pc' = "wait"
            /\ UNCHANGED <<queue, results, shown>>
    /\ UNCHANGED <<turn, outcome, history, pipe, lines, dead>>

\* Lines with another id are skipped.
IsAnyAnswer(line, s) == line.id # 0
IsNextId(line, s) == line.id = seq[s] + 1
IsMine(line, s) == line.id = seq[s]

Receive ==
    LET c == Head(queue)
        s == ServerOf(c)
        line == Head(pipe[s])
    IN
    /\ pc = "wait" /\ pipe[s] # <<>>
    /\ pipe' = [pipe EXCEPT ![s] = Tail(@)]
    /\ IF ~IsMine(line, s)
       THEN UNCHANGED <<pc, queue, results, shown>>
       ELSE GiveText(c, line.of, IF line.ok THEN Answer(line.says) ELSE Failure(line.says))
    /\ UNCHANGED <<turn, outcome, history, called, seq, asked, lines, dead>>

CutOff ==
    LET c == Head(queue)
        s == ServerOf(c)
    IN
    /\ pc = "wait" /\ pipe[s] = <<>> /\ s \in dead
    /\ GiveText(c, "loop", Failure("cut off"))
    /\ UNCHANGED <<turn, outcome, history, called, clientVars>>

EndTurn ==
    /\ pc = "work" /\ queue = <<>>
    /\ history' = Append(history,
                    [is |-> "results",
                     tokens |-> FoldSeq(LAMBDA x, n : n + x.tokens, 0, results)])
    /\ turn' = turn + 1
    /\ IF turn < MaxTurns THEN pc' = "fold" /\ UNCHANGED outcome ELSE Over("spent")
    /\ results' = <<>>
    /\ UNCHANGED <<queue, called, shown, clientVars>>
-----------------------------------------------------------------------------
(* A server (outside this repository).                                     *)

Respond(s) ==
    /\ s \notin dead /\ asked[s] # <<>>
    /\ \E ok \in BOOLEAN, a \in Answers :
        pipe' = [pipe EXCEPT ![s] = Append(@, [id |-> Head(asked[s]).id, of |-> Head(asked[s]).call,
                                               ok |-> ok, says |-> a])]
    /\ asked' = [asked EXCEPT ![s] = Tail(@)]
    /\ UNCHANGED <<pc, turn, outcome, history, queue, results, called, shown, seq, lines, dead>>

\* A notification has no id; an answer may come twice.
SpeakUp(s) ==
    /\ s \notin dead /\ lines < MaxLines
    /\ \E id \in {0} \cup 3..seq[s] - 1, a \in Answers :
        pipe' = [pipe EXCEPT ![s] = Append(@, [id |-> id, of |-> "nobody", ok |-> TRUE, says |-> a])]
    /\ lines' = lines + 1
    /\ UNCHANGED <<pc, turn, outcome, history, queue, results, called, shown, seq, asked, dead>>

Die(s) ==
    /\ s \notin dead
    /\ dead' = dead \cup {s}
    /\ UNCHANGED <<pc, turn, outcome, history, queue, results, called, shown, seq, asked, pipe, lines>>

LoopStep ==
    \/ Fold \/ EndRun \/ CallTools \/ Repeated \/ DispatchHere
    \/ Request \/ Receive \/ CutOff \/ EndTurn

ServerStep == \E s \in Server : Respond(s) \/ SpeakUp(s) \/ Die(s)

Next == (LoopStep \/ ServerStep) /\ UNCHANGED catVars

Spec == Init /\ [][Next]_vars

\* The loop goes on by itself; a server that lives answers in the end.
FairSpec ==
    /\ Spec
    /\ WF_vars(LoopStep /\ UNCHANGED catVars)
    /\ \A s \in Server : WF_vars(Respond(s) /\ UNCHANGED catVars)
-----------------------------------------------------------------------------
(* Properties.                                                             *)

\* What the model is shown as the result of a call is the answer to that call,
\* whatever else the server sent in between.
AnswersAreMatched ==
    \A i \in DOMAIN results : results[i].from \in {results[i].call, "loop"}

\* What is sent to the model fits the window: at most the budget, or the least
\* share for each of a few pieces, and the notice on top of it; the instructions
\* and the goal are in front of it.
WindowHolds ==
    pc = "ask" =>
        /\ history[1].is = "head"
        /\ LET told == IF Last(history).is = "notice" THEN Front(history) ELSE history
           IN \/ TokensOf(told) <= Budget \/ Len(told) = 1
              \/ Len(told) <= 4 /\ \A i \in DOMAIN told : told[i].tokens <= Share(Len(told))

\* What the goal picks out of a catalogue that is too large fits into its room, and
\* what was left out of it would not: no larger tool takes the place of the small
\* ones behind it.
PickIsFull ==
    pc = "fold" /\ turn = 1 =>
        LET tools == AllTools(offer.catalogue)
            told  == Advertised(tools, offer.deferAll)
            noWorse(i) == {j \in told : tools[j].score >= tools[i].score}
        IN /\ CostOf(tools, told) <= ToolChars
           /\ \A i \in Visible(tools) \ told :
                \/ offer.deferAll \/ tools[i].score = 0
                \/ CostOf(tools, noWorse(i)) + tools[i].cost > ToolChars

\* Every tool of every server has a name of its own, and a call of that name is
\* sent to the server that has the tool, to no other.
NamesFindTheirServer ==
    LET flat == Flat(offer.catalogue) IN
    /\ pc = "fold" /\ turn = 1 =>
        \A i \in DOMAIN flat : owner[AllTools(offer.catalogue)[i].name] = flat[i].server
    /\ \A s \in Server : \A i \in DOMAIN asked[s] :
        \E x \in ToSet(flat) : x.server = s /\ x.tool.base = ToolOf[asked[s][i].call][2]

\* Nobody waits in vain: while the loop waits, the answer with its id is in the pipe or
\* still to be given, or the server is dead and the pipe breaks.  No line that was
\* skipped was the one it waits for.
AnswerIsToCome ==
    pc = "wait" =>
        LET s == ServerOf(Head(queue)) IN
        \/ s \in dead
        \/ \E i \in DOMAIN asked[s] : asked[s][i].id = seq[s]
        \/ \E i \in DOMAIN pipe[s] : pipe[s][i].id = seq[s]

\* A call arrives where its tool is, and its answer at the call: over servers with
\* tools of the same name, late answers of others and notifications.
CallsArrive == AnswersAreMatched /\ NamesFindTheirServer /\ AnswerIsToCome

\* The window of the model is kept and not wasted: the conversation fits it after
\* every folding, and the tools fill the room they are given.
WindowIsUsed == TypeOK /\ WindowHolds /\ PickIsFull

\* A call goes out once in a run, however the conversation was folded since and
\* whatever came of it.
CalledOnce ==
    [][\A s \in Server : seq'[s] # seq[s] =>
        Head(queue) \notin called /\ Head(queue) \in called']_vars

\* The steps that are left to the loop: to fold, to ask, two for each call, the end of
\* the turn, and all of the turns behind it.
ToGo ==
    CASE pc = "fold" -> 7
      [] pc = "ask" -> 6
      [] pc = "work" -> 2 * Len(queue) + 1
      [] pc = "wait" -> 2 * Len(queue)
StepsLeft == IF pc = "over" THEN 0 ELSE 7 * (MaxTurns - turn) + ToGo

\* A server owes the answers to what it was asked, and its pipe what is to be read.
Owed(s) == 2 * Len(asked[s]) + Len(pipe[s])

\* The loop gets nearer to its end.  Or it is left where it is, by one of finitely many
\* steps: a server dies, speaks unasked (as often as the bound lets it), gives an answer
\* it owes, or a line of it is read and skipped.
GetsOn == StepsLeft' \in 0..StepsLeft - 1
Elsewhere ==
    \/ lines' > lines
    \/ dead \subseteq dead' /\ dead' # dead
    \/ \E s \in Server : /\ Owed(s)' \in 0..Owed(s) - 1
                        /\ \A r \in Server \ {s} : Owed(r)' = Owed(r)

\* No step of a run is for nothing, whatever the model calls and servers say.
EveryStepCounts == [][GetsOn \/ (StepsLeft' = StepsLeft /\ Elsewhere)]_vars

\* A run ends, after MaxTurns turns at the latest, also when servers die.
RunEnds == <>(pc = "over")

\* Documented, not kept.  internal/agentloop/compact.go:46: what was folded stays in
\* the conversation as its summary (a later folding folds the summary too, or the
\* clipping drops it).
SummaryStays ==
    [][(\E i \in DOMAIN history : history[i].is = "summary") =>
        \E i \in DOMAIN history' : history'[i].is = "summary"]_vars
=============================================================================
