--------------------------- MODULE ThoughtStream ---------------------------
(***************************************************************************)
(* The thoughts of the models of one task, on their two ways to a viewer:  *)
(* through the database (storage.AddThought, a queue that one writer       *)
(* empties into the table) and through the live stream                     *)
(* (stream.Manager: Broadcast to every viewer's channel).  A viewer        *)
(* (ServeHTTP) first prints the table and then subscribes to the channel.  *)
(*                                                                         *)
(* A thought is <<call, n>>: the n-th thing a call says, n = 0 being the   *)
(* mark of its start.                                                      *)
(***************************************************************************)
EXTENDS Naturals, Sequences, SequencesExt

CONSTANTS
    Viewer,     \* the requests for the stream of this task
    QueueCap,   \* size of thoughtQueue (1000 in the code)
    ChanCap     \* size of a viewer's channel (500 in the code)

ASSUME StreamAssumption == QueueCap \in Nat \ {0} /\ ChanCap \in Nat \ {0}

VARIABLES
    thoughtQueue,   \* thoughts accepted and not yet written
    table,          \* thought_logs, in order of creation
    subscribers,    \* the viewers whose channel is in the map
    chan,           \* what waits in each viewer's channel
    closed,         \* the viewers whose channel is closed
    at,             \* where each ServeHTTP stands
    screen          \* what each viewer has printed

streamVars == <<thoughtQueue, table, subscribers, chan, closed, at, screen>>

StreamInit ==
    /\ thoughtQueue = <<>> /\ table = <<>>
    /\ subscribers = {} /\ closed = {}
    /\ chan = [v \in Viewer |-> <<>>]
    /\ at = [v \in Viewer |-> "away"]
    /\ screen = [v \in Viewer |-> <<>>]

----------------------------------------------------------------------------
(* The two things a call does with a thought.                              *)

\* AddThought: a full queue drops the thought, and nobody is told.
Enqueued(t) == IF Len(thoughtQueue) < QueueCap THEN Append(thoughtQueue, t) ELSE thoughtQueue

\* Broadcast: under the read lock, a send to every subscriber that never waits.
Sent(t) ==
    [v \in Viewer |-> IF v \in subscribers /\ Len(chan[v]) < ChanCap
                        THEN Append(chan[v], t) ELSE chan[v]]

AddThought(t) ==
    /\ thoughtQueue' = Enqueued(t)
    /\ UNCHANGED <<table, subscribers, chan, closed, at, screen>>

Broadcast(t) ==
    /\ chan' = Sent(t)
    /\ UNCHANGED <<thoughtQueue, table, subscribers, closed, at, screen>>

\* processLogQueue: the head goes into the table, or is lost with a write error.
WriteLog ==
    /\ thoughtQueue # <<>>
    /\ thoughtQueue' = Tail(thoughtQueue)
    /\ \/ table' = Append(table, Head(thoughtQueue))
       \/ UNCHANGED table
    /\ UNCHANGED <<subscribers, chan, closed, at, screen>>

----------------------------------------------------------------------------
(* ServeHTTP of one viewer.                                                *)

Go(v, from, to) == at[v] = from /\ at' = [at EXCEPT ![v] = to]

ConnectSubscribed(v) ==
    /\ Go(v, "away", "history")
    /\ subscribers' = subscribers \cup {v}
    /\ UNCHANGED <<thoughtQueue, table, chan, closed, screen>>

Connect(v) ==
    /\ Go(v, "away", "history")
    /\ UNCHANGED <<thoughtQueue, table, subscribers, chan, closed, screen>>

\* The history is printed before the viewer is known to Broadcast.
ReadHistory(v) ==
    /\ Go(v, "history", "subscribe")
    /\ screen' = [screen EXCEPT ![v] = table]
    /\ UNCHANGED <<thoughtQueue, table, subscribers, chan, closed>>

Subscribe(v) ==
    /\ Go(v, "subscribe", "live")
    /\ subscribers' = subscribers \cup {v}
    /\ UNCHANGED <<thoughtQueue, table, chan, closed, screen>>

Receive(v) ==
    /\ at[v] = "live" /\ chan[v] # <<>>
    /\ screen' = [screen EXCEPT ![v] = Append(@, Head(chan[v]))]
    /\ chan' = [chan EXCEPT ![v] = Tail(@)]
    /\ UNCHANGED <<thoughtQueue, table, subscribers, closed, at>>

\* The request ends: the deferred function first takes the channel out of the
\* map under the write lock and then closes it.
LeaveClosing(v) ==
    /\ Go(v, "live", "left")
    /\ closed' = closed \cup {v}
    /\ UNCHANGED <<thoughtQueue, table, subscribers, chan, screen>>

Leave(v) ==
    /\ Go(v, "live", "left")
    /\ subscribers' = subscribers \ {v}
    /\ UNCHANGED <<thoughtQueue, table, chan, closed, screen>>

Close(v) ==
    /\ Go(v, "left", "gone")
    /\ closed' = closed \cup {v}
    /\ UNCHANGED <<thoughtQueue, table, subscribers, chan, screen>>

ViewerStep(v) == Connect(v) \/ ReadHistory(v) \/ Subscribe(v) \/ Receive(v) \/ Leave(v) \/ Close(v)

----------------------------------------------------------------------------
(* What a viewer may rely on, whatever the order in which calls speak,     *)
(* the writer writes and viewers come and go.                              *)

\* No thought is shown twice and those of one call come in the order in which
\* the call said them, over the seam between the table and the stream.  It
\* rests on two orders: CallLLM broadcasts a thought before it queues it for
\* the table, and a viewer reads the table before it subscribes.
ShownInOrder ==
    \A v \in Viewer : \A i, j \in 1..Len(screen[v]) :
        i < j /\ screen[v][i][1] = screen[v][j][1] => screen[v][i][2] < screen[v][j][2]

\* Broadcast never meets a closed channel: a send to one is a panic, and the
\* process is the one that runs every task.
NeverSendsToClosed == subscribers \cap closed = {}
=============================================================================
