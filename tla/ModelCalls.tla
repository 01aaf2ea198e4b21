----------------------------- MODULE ModelCalls -----------------------------
(***************************************************************************)
(* One question put to several models at once (voter.Vote): a call of each *)
(* model (agent.CallLLM), over RabbitMQ (llm.RabbitMQModel) or straight to *)
(* the model's server (llm.DirectModel), and the count of the answers.     *)
(* Each call tells its thoughts as ThoughtStream has it.                   *)
(***************************************************************************)
EXTENDS ThoughtStream, FiniteSets

CONSTANTS
    Caller,         \* the models that may be asked
    Text,           \* what they can answer
    Silence,        \* an answer of no text
    KeyOf,          \* consensusKey: the text without its spacing
    Chunks          \* parts of an answer: the text, and the calls found in it

ASSUME CallAssumption ==
    /\ Silence \notin Text /\ Chunks \in [Text -> {1, 2}] /\ DOMAIN KeyOf = Text

VARIABLES
    named,      \* the context names the task: what is said is told
    answers,    \* the texts the models may answer with
    direct,     \* the environment names a server to ask directly (FromEnv)
    voters,     \* the models asked, in order
    call,       \* where each call stands
    reply,      \* what the model has answered, Silence before
    told,       \* how many parts of it were broadcast
    cut,        \* calls for which no answer can come any more
    stopped     \* the context of the execution is cancelled

callVars == <<named, answers, direct, voters, call, reply, told, cut, stopped>>

CallInit ==
    /\ named \in BOOLEAN /\ direct \in BOOLEAN /\ answers \subseteq Text
    /\ voters = <<>>
    /\ call = [c \in Caller |-> "none"]
    /\ reply = [c \in Caller |-> Silence] /\ told = [c \in Caller |-> 0]
    /\ cut = {} /\ stopped = FALSE

Ended == {"done", "failed"}
Asked == ToSet(voters)

Move(c, from, to) == call[c] = from /\ call' = [call EXCEPT ![c] = to]

----------------------------------------------------------------------------
(* CallLLM.                                                                *)

\* The start is told to the table and not to the stream.
Begin(c) ==
    /\ Move(c, "ready", "open")
    /\ IF named THEN AddThought(<<c, 0>>) ELSE UNCHANGED streamVars
    /\ UNCHANGED <<named, answers, direct, voters, reply, told, cut, stopped>>

\* A connection, a channel, a queue for the reply, a consumer, the message
\* itself; or the request.  Each of these can fail, and then the call has.
Open(c) ==
    /\ Move(c, "open", "waiting") \/ Move(c, "open", "failed")
    /\ UNCHANGED <<named, answers, direct, voters, reply, told, cut, stopped, streamVars>>

\* The answer: a text, raw when it is not the JSON that was agreed; nothing,
\* which CallLLM makes an error; or an error of the server.
Answer(c) ==
    /\ c \notin cut
    /\ \/ \E x \in answers : /\ Move(c, "waiting", "tell")
                          /\ reply' = [reply EXCEPT ![c] = x]
       \/ Move(c, "waiting", "failed") /\ UNCHANGED reply
    /\ UNCHANGED <<named, answers, direct, voters, told, cut, stopped, streamVars>>

\* No answer can come: the connection to RabbitMQ is lost, which closes the
\* channel of the replies; or the server asked directly has hung.
Cut(c) ==
    /\ call[c] = "waiting" /\ c \notin cut
    /\ cut' = cut \cup {c}
    /\ UNCHANGED <<named, answers, direct, voters, call, reply, told, stopped, streamVars>>

\* The five minutes of the reply loop.  Its select makes the timer anew each
\* time round, and a closed channel is always ready: after the connection is
\* lost the loop turns and the timer never fires.  A direct request has none.
HasTimerNot(c) == FALSE
HasTimer(c) == ~ direct /\ c \notin cut

TimeOut(c) ==
    /\ HasTimer(c) /\ Move(c, "waiting", "failed")
    /\ UNCHANGED <<named, answers, direct, voters, reply, told, cut, stopped, streamVars>>

GiveUp(c) ==
    /\ stopped /\ Move(c, "waiting", "failed")
    /\ UNCHANGED <<named, answers, direct, voters, reply, told, cut, stopped, streamVars>>

More(c) == told[c] < Chunks[reply[c]]

\* Each part of the answer is broadcast and then queued for the table.
Tell(c) ==
    /\ Move(c, "tell", "store")
    /\ told' = [told EXCEPT ![c] = @ + 1]
    /\ IF named THEN Broadcast(<<c, told'[c]>>) ELSE UNCHANGED streamVars
    /\ UNCHANGED <<named, answers, direct, voters, reply, cut, stopped>>

Store(c) ==
    /\ Move(c, "store", IF More(c) THEN "tell" ELSE "done")
    /\ IF named THEN AddThought(<<c, told[c]>>) ELSE UNCHANGED streamVars
    /\ UNCHANGED <<named, answers, direct, voters, reply, told, cut, stopped>>

\* A person stops the task.
Stop ==
    /\ ~ stopped /\ stopped' = TRUE
    /\ UNCHANGED <<named, answers, direct, voters, call, reply, told, cut, streamVars>>

CallStep(c) ==
    Begin(c) \/ Open(c) \/ Answer(c) \/ Cut(c) \/ TimeOut(c) \/ GiveUp(c) \/ Tell(c) \/ Store(c)

----------------------------------------------------------------------------
(* The count, once every call has ended (wg.Wait).                         *)

Results == [c \in Asked |-> IF call[c] = "done" THEN reply[c] ELSE Silence]
Answered == {c \in Asked : Results[c] # Silence}

\* Answers are counted by their consensusKey, not by their text.
AgreeingByText(c) == {d \in Answered : Results[d] = Results[c]}
Agreeing(c) == {d \in Answered : KeyOf[Results[d]] = KeyOf[Results[c]]}

\* The text of the first who gave an answer stands for all who agree with it.
\* Among equal counts the order of a Go map decides: any of them may win.
PlaceOf(c) == SelectInSeq(voters, LAMBDA x : x = c)
Winners ==
    {c \in Answered :
        /\ \A d \in Agreeing(c) : PlaceOf(c) <= PlaceOf(d)
        /\ \A d \in Answered : Cardinality(Agreeing(d)) <= Cardinality(Agreeing(c))}
=============================================================================
