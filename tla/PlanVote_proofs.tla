--------------------------- MODULE PlanVote_proofs ---------------------------
(***************************************************************************)
(* Theorems about the vote on a plan and the thought stream beside it, for *)
(* any models, texts, scenarios, viewers and sizes of queue and channel.   *)
(***************************************************************************)
EXTENDS PlanVote, FiniteSetTheorems, WellFoundedInduction, TLAPS

-----------------------------------------------------------------------------
(* Orders of thoughts.                                                     *)

Thought == Caller \X Nat

\* In s, every call says its thoughts in order.
InOrder(s) == \A i, j \in 1..Len(s) : i < j /\ s[i][1] = s[j][1] => s[i][2] < s[j][2]

\* What a call says in u comes after what it says in s.
Follows(s, u) == \A i \in 1..Len(s), j \in 1..Len(u) : s[i][1] = u[j][1] => s[i][2] < u[j][2]

\* t comes after all that its call says in s.
NewIn(s, t) == \A i \in 1..Len(s) : s[i][1] = t[1] => s[i][2] < t[2]

\* A new thought at the end of a queue.
LEMMA OrderAppend ==
    ASSUME NEW s \in Seq(Thought), NEW u \in Seq(Thought), NEW t \in Thought, NewIn(u, t)
    PROVE  /\ InOrder(u) => InOrder(Append(u, t))
           /\ Follows(s, u) /\ NewIn(s, t) => Follows(s, Append(u, t))
<1>1. /\ Append(u, t) \in Seq(Thought) /\ Len(Append(u, t)) = Len(u) + 1 /\ Len(u) \in Nat
      /\ \A k \in 1..Len(u) : Append(u, t)[k] = u[k]
      /\ Append(u, t)[Len(u) + 1] = t
  OBVIOUS
<1> DEFINE w == Append(u, t)
<1> HIDE DEF w
<1>2. \A k \in 1..Len(w) : k \in 1..Len(u) \/ k = Len(u) + 1
  BY <1>1 DEF w
<1>3. ASSUME InOrder(u), NEW i \in 1..Len(w), NEW j \in 1..Len(w), i < j, w[i][1] = w[j][1]
      PROVE  w[i][2] < w[j][2]
  <2>1. i \in 1..Len(u)
    BY <1>1, <1>3 DEF w
  <2>2. CASE j \in 1..Len(u)
    BY <1>1, <1>3, <2>1, <2>2 DEF w, InOrder
  <2>3. CASE j = Len(u) + 1
    BY <1>1, <1>3, <2>1, <2>3 DEF w, NewIn
  <2> QED
    BY <1>2, <2>2, <2>3
<1>4. ASSUME Follows(s, u), NewIn(s, t), NEW i \in 1..Len(s), NEW j \in 1..Len(w), s[i][1] = w[j][1]
      PROVE  s[i][2] < w[j][2]
  <2>1. CASE j \in 1..Len(u)
    BY <1>1, <1>4, <2>1 DEF w, Follows
  <2>2. CASE j = Len(u) + 1
    BY <1>1, <1>4, <2>2 DEF w, NewIn
  <2> QED
    BY <1>2, <2>1, <2>2
<1> QED
  BY <1>3, <1>4 DEF w, InOrder, Follows

\* The head of a queue, taken off it and put after what came before.
LEMMA OrderMove ==
    ASSUME NEW s \in Seq(Thought), NEW u \in Seq(Thought), u # <<>>,
           InOrder(s), InOrder(u), Follows(s, u)
    PROVE  /\ Head(u) \in Thought /\ Tail(u) \in Seq(Thought) /\ Append(s, Head(u)) \in Seq(Thought)
           /\ InOrder(Append(s, Head(u))) /\ InOrder(Tail(u))
           /\ Follows(Append(s, Head(u)), Tail(u)) /\ Follows(s, Tail(u))
<1>1. /\ Len(u) \in Nat \ {0} /\ Head(u) = u[1] /\ Head(u) \in Thought
      /\ Tail(u) \in Seq(Thought) /\ Len(Tail(u)) = Len(u) - 1
      /\ \A k \in 1..Len(Tail(u)) : Tail(u)[k] = u[k + 1] /\ k + 1 \in 2..Len(u)
  OBVIOUS
<1> DEFINE h == Head(u)
           r == Tail(u)
           w == Append(s, h)
<1>2. /\ w \in Seq(Thought) /\ Len(w) = Len(s) + 1 /\ Len(s) \in Nat
      /\ \A k \in 1..Len(s) : w[k] = s[k]
      /\ w[Len(s) + 1] = h
  BY <1>1
<1>3. NewIn(s, h)
  BY <1>1 DEF Follows, NewIn
<1>4. InOrder(w)
  BY <1>1, <1>3, OrderAppend
<1>5. InOrder(r)
  <2> SUFFICES ASSUME NEW i \in 1..Len(r), NEW j \in 1..Len(r), i < j, r[i][1] = r[j][1]
               PROVE  r[i][2] < r[j][2]
    BY DEF InOrder
  <2>1. i + 1 \in 1..Len(u) /\ j + 1 \in 1..Len(u) /\ i + 1 < j + 1
    BY <1>1
  <2> QED
    BY <1>1, <2>1 DEF InOrder
<1>6. Follows(s, r)
  <2> SUFFICES ASSUME NEW i \in 1..Len(s), NEW j \in 1..Len(r), s[i][1] = r[j][1]
               PROVE  s[i][2] < r[j][2]
    BY DEF Follows
  <2>1. j + 1 \in 1..Len(u)
    BY <1>1
  <2> QED
    BY <1>1, <2>1 DEF Follows
<1>7. Follows(w, r)
  <2> SUFFICES ASSUME NEW i \in 1..Len(w), NEW j \in 1..Len(r), w[i][1] = r[j][1]
               PROVE  w[i][2] < r[j][2]
    BY DEF Follows
  <2>1. CASE i \in 1..Len(s)
    BY <1>2, <1>6, <2>1 DEF Follows
  <2>2. CASE i = Len(s) + 1
    <3>1. 1 \in 1..Len(u) /\ j + 1 \in 1..Len(u) /\ 1 < j + 1
      BY <1>1
    <3>2. w[i] = u[1] /\ r[j] = u[j + 1]
      BY <1>1, <1>2, <2>2
    <3> QED
      BY <3>1, <3>2 DEF InOrder
  <2> QED
    BY <1>2, <2>1, <2>2
<1> QED
  BY <1>1, <1>2, <1>4, <1>5, <1>6, <1>7

-----------------------------------------------------------------------------
(* The stream.                                                             *)

StreamTyped ==
    /\ thoughtQueue \in Seq(Thought) /\ table \in Seq(Thought)
    /\ subscribers \subseteq Viewer /\ closed \subseteq Viewer
    /\ chan \in [Viewer -> Seq(Thought)] /\ screen \in [Viewer -> Seq(Thought)]
    /\ at \in [Viewer -> {"away", "history", "subscribe", "live", "left", "gone"}]
    /\ Len(thoughtQueue) <= QueueCap /\ \A v \in Viewer : Len(chan[v]) <= ChanCap

\* Where a viewer stands, its channel stands: in the map while it is live, and closed
\* only after it was taken out.
DoorsStand ==
    \A v \in Viewer :
        /\ v \in subscribers => at[v] = "live"
        /\ v \in closed => at[v] = "gone"
        /\ at[v] \in {"away", "history", "subscribe"} => chan[v] = <<>>

\* On both ways thoughts are in order, and so they stay where one way meets the other.
OrderStands ==
    /\ InOrder(table) /\ InOrder(thoughtQueue) /\ Follows(table, thoughtQueue)
    /\ \A v \in Viewer : InOrder(screen[v]) /\ InOrder(chan[v]) /\ Follows(screen[v], chan[v])

StreamInv == StreamTyped /\ DoorsStand /\ OrderStands

\* A thought that is new to table and queue is queued, or dropped.
LEMMA AddKept ==
    ASSUME StreamInv, NEW t \in Thought, AddThought(t), NewIn(table, t), NewIn(thoughtQueue, t)
    PROVE  StreamInv'
<1>1. UNCHANGED <<table, subscribers, chan, closed, at, screen>>
  BY DEF AddThought
<1>2. thoughtQueue' \in {thoughtQueue, Append(thoughtQueue, t)}
  BY DEF AddThought, Enqueued
<1>3. thoughtQueue' \in Seq(Thought) /\ Len(thoughtQueue') <= QueueCap
  BY StreamAssumption DEF AddThought, Enqueued, StreamInv, StreamTyped
<1>4. StreamTyped' /\ DoorsStand'
  BY <1>1, <1>3 DEF StreamInv, StreamTyped, DoorsStand
<1>5. InOrder(thoughtQueue') /\ Follows(table, thoughtQueue')
  BY <1>2, OrderAppend DEF StreamInv, StreamTyped, OrderStands
<1> QED
  BY <1>1, <1>4, <1>5 DEF StreamInv, OrderStands

\* A thought that is new to every viewer is sent to those in the map.
LEMMA BroadcastKept ==
    ASSUME StreamInv, NEW t \in Thought, Broadcast(t),
           \A v \in Viewer : NewIn(screen[v], t) /\ NewIn(chan[v], t)
    PROVE  StreamInv'
<1>1. UNCHANGED <<thoughtQueue, table, subscribers, closed, at, screen>> /\ chan' = Sent(t)
  BY DEF Broadcast
<1>2. ASSUME NEW v \in Viewer
      PROVE  /\ chan'[v] \in {chan[v], Append(chan[v], t)} /\ chan'[v] \in Seq(Thought)
             /\ Len(chan'[v]) <= ChanCap
             /\ v \notin subscribers => chan'[v] = chan[v]
  <2>1. chan'[v] = IF v \in subscribers /\ Len(chan[v]) < ChanCap THEN Append(chan[v], t) ELSE chan[v]
    BY <1>1 DEF Sent
  <2>2. chan[v] \in Seq(Thought) /\ Len(chan[v]) <= ChanCap
    BY DEF StreamInv, StreamTyped
  <2> QED
    BY <2>1, <2>2, StreamAssumption
<1>3. StreamTyped'
  <2>1. chan' = [v \in Viewer |-> chan'[v]]
    BY <1>1 DEF Sent
  <2>2. chan' \in [Viewer -> Seq(Thought)]
    BY <1>2, <2>1
  <2> QED
    BY <1>1, <1>2, <2>2 DEF StreamInv, StreamTyped
<1>4. DoorsStand'
  BY <1>1, <1>2 DEF StreamInv, DoorsStand
<1>5. ASSUME NEW v \in Viewer
      PROVE  InOrder(chan'[v]) /\ Follows(screen[v], chan'[v])
  <2>1. /\ screen[v] \in Seq(Thought) /\ chan[v] \in Seq(Thought)
        /\ InOrder(chan[v]) /\ Follows(screen[v], chan[v])
    BY DEF StreamInv, StreamTyped, OrderStands
  <2> QED
    BY <1>2, <2>1, OrderAppend
<1> QED
  BY <1>1, <1>3, <1>4, <1>5 DEF StreamInv, OrderStands

\* The writer of the table.
LEMMA WriteKept ==
    ASSUME StreamInv, WriteLog
    PROVE  StreamInv'
<1>1. /\ thoughtQueue # <<>> /\ thoughtQueue' = Tail(thoughtQueue)
      /\ table' \in {table, Append(table, Head(thoughtQueue))}
      /\ UNCHANGED <<subscribers, chan, closed, at, screen>>
  BY DEF WriteLog
<1>2. /\ thoughtQueue \in Seq(Thought) /\ table \in Seq(Thought) /\ Len(thoughtQueue) <= QueueCap
      /\ InOrder(table) /\ InOrder(thoughtQueue) /\ Follows(table, thoughtQueue)
  BY DEF StreamInv, StreamTyped, OrderStands
<1>3. /\ thoughtQueue' \in Seq(Thought) /\ table' \in Seq(Thought)
      /\ InOrder(table') /\ InOrder(thoughtQueue') /\ Follows(table', thoughtQueue')
  BY <1>1, <1>2, OrderMove
<1>4. Len(thoughtQueue') <= QueueCap
  BY <1>1, <1>2, StreamAssumption
<1>5. StreamTyped' /\ DoorsStand'
  BY <1>1, <1>3, <1>4 DEF StreamInv, StreamTyped, DoorsStand
<1> QED
  BY <1>1, <1>3, <1>5 DEF StreamInv, OrderStands

\* A viewer.
LEMMA ViewerKept ==
    ASSUME StreamInv, NEW v \in Viewer, ViewerStep(v)
    PROVE  StreamInv'
<1> USE DEF Go
<1>0. StreamTyped /\ DoorsStand /\ OrderStands
  BY DEF StreamInv
<1>1. CASE Connect(v) \/ Subscribe(v) \/ Leave(v) \/ Close(v)
  <2>1. UNCHANGED <<thoughtQueue, table, chan, screen>>
    BY <1>1 DEF Connect, Subscribe, Leave, Close
  <2>2. StreamTyped'
    BY <1>0, <1>1, <2>1 DEF StreamTyped, Connect, Subscribe, Leave, Close
  <2>3. DoorsStand'
    BY <1>0, <1>1, <2>1, ZenonT(40) DEF StreamTyped, DoorsStand, Connect, Subscribe, Leave, Close
  <2>4. OrderStands'
    BY <1>0, <2>1 DEF OrderStands
  <2> QED
    BY <2>2, <2>3, <2>4 DEF StreamInv
<1>2. CASE ReadHistory(v)
  <2>1. /\ UNCHANGED <<thoughtQueue, table, subscribers, chan, closed>>
        /\ at[v] = "history" /\ at' = [at EXCEPT ![v] = "subscribe"]
        /\ screen' = [screen EXCEPT ![v] = table]
    BY <1>2 DEF ReadHistory
  <2>2. StreamTyped' /\ DoorsStand'
    BY <1>0, <2>1 DEF StreamTyped, DoorsStand
  <2>3. screen'[v] = table /\ \A u \in Viewer \ {v} : screen'[u] = screen[u]
    BY <1>0, <2>1 DEF StreamTyped
  <2>4. Len(chan[v]) = 0
    BY <1>0, <2>1 DEF DoorsStand
  <2>5. Follows(table, chan[v])
    BY <2>4 DEF Follows
  <2>6. OrderStands'
    BY <1>0, <2>1, <2>3, <2>5 DEF OrderStands
  <2> QED
    BY <2>2, <2>6 DEF StreamInv
<1>3. CASE Receive(v)
  <2>1. /\ UNCHANGED <<thoughtQueue, table, subscribers, closed, at>>
        /\ at[v] = "live" /\ chan[v] # <<>>
        /\ screen' = [screen EXCEPT ![v] = Append(screen[v], Head(chan[v]))]
        /\ chan' = [chan EXCEPT ![v] = Tail(chan[v])]
    BY <1>3 DEF Receive
  <2>2. /\ chan[v] \in Seq(Thought) /\ screen[v] \in Seq(Thought) /\ Len(chan[v]) <= ChanCap
        /\ InOrder(screen[v]) /\ InOrder(chan[v]) /\ Follows(screen[v], chan[v])
    BY <1>0 DEF StreamTyped, OrderStands
  <2> DEFINE s == Append(screen[v], Head(chan[v]))
             r == Tail(chan[v])
  <2>3. /\ s \in Seq(Thought) /\ r \in Seq(Thought)
        /\ InOrder(s) /\ InOrder(r) /\ Follows(s, r)
    BY <2>1, <2>2, OrderMove
  <2>4. Len(r) <= ChanCap
    BY <2>1, <2>2, StreamAssumption
  <2> HIDE DEF s, r
  <2>5. /\ screen'[v] = s /\ chan'[v] = r
        /\ \A u \in Viewer \ {v} : screen'[u] = screen[u] /\ chan'[u] = chan[u]
        /\ screen' \in [Viewer -> Seq(Thought)] /\ chan' \in [Viewer -> Seq(Thought)]
    BY <1>0, <2>1, <2>3 DEF StreamTyped, s, r
  <2>6. StreamTyped'
    BY <1>0, <2>1, <2>4, <2>5 DEF StreamTyped
  <2>7. DoorsStand'
    BY <1>0, <2>1, <2>5 DEF DoorsStand
  <2>8. OrderStands'
    BY <1>0, <2>1, <2>3, <2>5 DEF OrderStands
  <2> QED
    BY <2>6, <2>7, <2>8 DEF StreamInv
<1> QED
  BY <1>1, <1>2, <1>3 DEF ViewerStep

-----------------------------------------------------------------------------
(* The calls.                                                              *)

Places == {"none", "ready", "open", "waiting", "tell", "store", "done", "failed"}

CallTyped ==
    /\ answers \subseteq Text /\ voters \in Seq(Caller)
    /\ call \in [Caller -> Places] /\ told \in [Caller -> Nat]
    /\ reply \in [Caller -> Text \cup {Silence}]

\* How much of its answer a call has told at each place.
CallStands ==
    \A c \in Caller :
        /\ call[c] \in {"none", "ready", "open", "waiting", "failed"} => told[c] = 0
        /\ call[c] \in {"tell", "store", "done"} => reply[c] \in Text /\ told[c] <= Chunks[reply[c]]
        /\ call[c] = "tell" => told[c] < Chunks[reply[c]]

CallInv == CallTyped /\ CallStands

\* What the calls in places p have told, up to n[c], stands before them in the table or
\* its queue; what a call is about to store does not yet.
Stored(s, p, n) ==
    \A i \in 1..Len(s) :
        /\ p[s[i][1]] \notin {"none", "ready"} /\ s[i][2] <= n[s[i][1]]
        /\ p[s[i][1]] = "store" => s[i][2] < n[s[i][1]]

\* Nothing is shown that was not told.
Shown(s, n) == \A i \in 1..Len(s) : s[i][2] <= n[s[i][1]]

SaidInv ==
    /\ Stored(table, call, told) /\ Stored(thoughtQueue, call, told)
    /\ \A v \in Viewer : Shown(screen[v], told) /\ Shown(chan[v], told)

\* From places p and counts n to q and m: a call that was told to the table goes on, it
\* takes nothing back, and it comes to "store" only by telling more.
Onward(p, n, q, m) ==
    \A c \in Caller :
        /\ p[c] \notin {"none", "ready"} => q[c] \notin {"none", "ready"}
        /\ {n[c], m[c]} \subseteq Nat /\ n[c] <= m[c]
        /\ q[c] = "store" => p[c] = "store" \/ n[c] < m[c]

\* What was stored or shown stays so when calls go on.
LEMMA OnwardKeeps ==
    ASSUME NEW s \in Seq(Thought), NEW p, NEW n, NEW q, NEW m, Onward(p, n, q, m)
    PROVE  /\ Stored(s, p, n) => Stored(s, q, m)
           /\ Shown(s, n) => Shown(s, m)
<1>1. \A i \in 1..Len(s) : s[i][1] \in Caller /\ s[i][2] \in Nat
  BY DEF Thought
<1>2. ASSUME Stored(s, p, n), NEW i \in 1..Len(s)
      PROVE  /\ q[s[i][1]] \notin {"none", "ready"} /\ s[i][2] <= m[s[i][1]]
             /\ q[s[i][1]] = "store" => s[i][2] < m[s[i][1]]
  <2> DEFINE c == s[i][1]
             k == s[i][2]
  <2>1. c \in Caller /\ k \in Nat
    BY <1>1
  <2>2. p[c] \notin {"none", "ready"} /\ k <= n[c] /\ (p[c] = "store" => k < n[c])
    BY <1>2 DEF Stored
  <2>3. /\ q[c] \notin {"none", "ready"} /\ n[c] \in Nat /\ m[c] \in Nat /\ n[c] <= m[c]
        /\ q[c] = "store" => p[c] = "store" \/ n[c] < m[c]
    BY <2>1, <2>2 DEF Onward
  <2> HIDE DEF c, k
  <2>4. k <= m[c] /\ (q[c] = "store" => k < m[c])
    BY <2>1, <2>2, <2>3
  <2> QED
    BY <2>3, <2>4 DEF c, k
<1>3. ASSUME Shown(s, n), NEW i \in 1..Len(s)
      PROVE  s[i][2] <= m[s[i][1]]
  <2>1. s[i][2] <= n[s[i][1]] /\ n[s[i][1]] \in Nat /\ m[s[i][1]] \in Nat /\ n[s[i][1]] <= m[s[i][1]]
    BY <1>1, <1>3 DEF Shown, Onward
  <2> QED
    BY <1>1, <2>1
<1> QED
  BY <1>2, <1>3 DEF Stored, Shown

\* A thought more.
LEMMA SaidAppend ==
    ASSUME NEW s \in Seq(Thought), NEW t \in Thought, NEW q, NEW m
    PROVE  /\ (/\ Stored(s, q, m) /\ q[t[1]] \notin {"none", "ready"}
               /\ t[2] <= m[t[1]] /\ (q[t[1]] = "store" => t[2] < m[t[1]]))
                => Stored(Append(s, t), q, m)
           /\ Shown(s, m) /\ t[2] <= m[t[1]] => Shown(Append(s, t), m)
<1> DEFINE w == Append(s, t)
<1>1. /\ w \in Seq(Thought) /\ Len(w) = Len(s) + 1 /\ Len(s) \in Nat
      /\ \A k \in 1..Len(s) : w[k] = s[k]
      /\ w[Len(s) + 1] = t
  OBVIOUS
<1>2. \A k \in 1..Len(w) : k \in 1..Len(s) \/ k = Len(s) + 1
  BY <1>1
<1> HIDE DEF w
<1>3. ASSUME Stored(s, q, m), q[t[1]] \notin {"none", "ready"}, t[2] <= m[t[1]],
             q[t[1]] = "store" => t[2] < m[t[1]], NEW k \in 1..Len(w)
      PROVE  /\ q[w[k][1]] \notin {"none", "ready"} /\ w[k][2] <= m[w[k][1]]
             /\ q[w[k][1]] = "store" => w[k][2] < m[w[k][1]]
  <2>1. CASE k \in 1..Len(s)
    BY <1>1, <1>3, <2>1 DEF Stored
  <2>2. CASE k = Len(s) + 1
    BY <1>1, <1>3, <2>2
  <2> QED
    BY <1>2, <2>1, <2>2
<1>4. Shown(s, m) /\ t[2] <= m[t[1]] => Shown(w, m)
  BY <1>1, <1>2 DEF Shown
<1>5. (/\ Stored(s, q, m) /\ q[t[1]] \notin {"none", "ready"}
       /\ t[2] <= m[t[1]] /\ (q[t[1]] = "store" => t[2] < m[t[1]]))
        => Stored(w, q, m)
  BY <1>3 DEF Stored
<1> QED
  BY <1>4, <1>5 DEF w

\* A thought less.
LEMMA SaidTail ==
    ASSUME NEW s \in Seq(Thought), s # <<>>, NEW q, NEW m
    PROVE  /\ Stored(s, q, m) => Stored(Tail(s), q, m)
           /\ Shown(s, m) => Shown(Tail(s), m)
<1> DEFINE r == Tail(s)
<1>1. \A k \in 1..Len(r) : r[k] = s[k + 1] /\ k + 1 \in 1..Len(s)
  OBVIOUS
<1> HIDE DEF r
<1> QED
  BY <1>1 DEF Stored, Shown, r

\* The writer and the viewers add nothing to what was said.
LEMMA BesideSaid ==
    ASSUME StreamInv, SaidInv, UNCHANGED <<call, told>>,
           WriteLog \/ \E v \in Viewer : ViewerStep(v)
    PROVE  SaidInv'
<1>0. /\ table \in Seq(Thought) /\ thoughtQueue \in Seq(Thought)
      /\ screen \in [Viewer -> Seq(Thought)] /\ chan \in [Viewer -> Seq(Thought)]
      /\ Stored(table, call, told) /\ Stored(thoughtQueue, call, told)
      /\ \A v \in Viewer : Shown(screen[v], told) /\ Shown(chan[v], told)
  BY DEF StreamInv, StreamTyped, SaidInv
<1>1. CASE WriteLog
  <2>1. /\ thoughtQueue # <<>> /\ thoughtQueue' = Tail(thoughtQueue)
        /\ table' \in {table, Append(table, Head(thoughtQueue))}
        /\ UNCHANGED <<chan, screen>>
    BY <1>1 DEF WriteLog
  <2>2. Head(thoughtQueue) = thoughtQueue[1] /\ 1 \in 1..Len(thoughtQueue)
    BY <1>0, <2>1
  <2> DEFINE h == Head(thoughtQueue)
  <2>3. h \in Thought /\ call[h[1]] \notin {"none", "ready"} /\ h[2] <= told[h[1]]
        /\ (call[h[1]] = "store" => h[2] < told[h[1]])
    BY <1>0, <2>2 DEF Stored
  <2> HIDE DEF h
  <2>4. Stored(Append(table, h), call, told)
    BY <1>0, <2>3, SaidAppend
  <2>5. Stored(Tail(thoughtQueue), call, told)
    BY <1>0, <2>1, SaidTail
  <2> QED
    BY <1>0, <2>1, <2>4, <2>5 DEF SaidInv, h
<1>2. ASSUME NEW v \in Viewer, Connect(v) \/ Subscribe(v) \/ Leave(v) \/ Close(v) PROVE SaidInv'
  <2>1. UNCHANGED <<thoughtQueue, table, chan, screen>>
    BY <1>2 DEF Connect, Subscribe, Leave, Close
  <2> QED
    BY <1>0, <2>1 DEF SaidInv
<1>3. ASSUME NEW v \in Viewer, ReadHistory(v) PROVE SaidInv'
  <2>1. UNCHANGED <<thoughtQueue, table, chan>> /\ screen' = [screen EXCEPT ![v] = table]
    BY <1>3 DEF ReadHistory
  <2>2. Shown(table, told)
    BY <1>0 DEF Stored, Shown
  <2> QED
    BY <1>0, <2>1, <2>2 DEF SaidInv
<1>4. ASSUME NEW v \in Viewer, Receive(v) PROVE SaidInv'
  <2>1. /\ UNCHANGED <<thoughtQueue, table>> /\ chan[v] # <<>>
        /\ screen' = [screen EXCEPT ![v] = Append(screen[v], Head(chan[v]))]
        /\ chan' = [chan EXCEPT ![v] = Tail(chan[v])]
    BY <1>4 DEF Receive
  <2>2. Head(chan[v]) = chan[v][1] /\ 1 \in 1..Len(chan[v]) /\ Head(chan[v]) \in Thought
    BY <1>0, <2>1
  <2>3. Head(chan[v])[2] <= told[Head(chan[v])[1]]
    BY <1>0, <2>2 DEF Shown
  <2>4. Shown(Append(screen[v], Head(chan[v])), told) /\ Shown(Tail(chan[v]), told)
    BY <1>0, <2>1, <2>2, <2>3, SaidAppend, SaidTail
  <2> QED
    BY <1>0, <2>1, <2>4 DEF SaidInv
<1> QED
  BY <1>1, <1>2, <1>3, <1>4 DEF ViewerStep

\* Where calls go on and the stream rests.
LEMMA RestSaid ==
    ASSUME StreamInv, SaidInv, UNCHANGED streamVars, Onward(call, told, call', told')
    PROVE  StreamInv' /\ SaidInv'
<1>1. UNCHANGED <<thoughtQueue, table, subscribers, chan, closed, at, screen>>
  BY DEF streamVars
<1>2. StreamInv'
  BY <1>1 DEF StreamInv, StreamTyped, DoorsStand, OrderStands
<1>3. SaidInv'
  BY <1>1, OnwardKeeps DEF SaidInv, StreamInv, StreamTyped
<1> QED
  BY <1>2, <1>3

\* A thought of call c is queued for the table: nothing of c was in its place.
LEMMA AddSaid ==
    ASSUME StreamInv, SaidInv, NEW t \in Thought, AddThought(t), Onward(call, told, call', told'),
           call[t[1]] = "ready" \/ (call[t[1]] = "store" /\ t[2] = told[t[1]]),
           call'[t[1]] \notin {"none", "ready", "store"}, t[2] <= told'[t[1]]
    PROVE  StreamInv' /\ SaidInv'
<1>0. /\ table \in Seq(Thought) /\ thoughtQueue \in Seq(Thought)
      /\ screen \in [Viewer -> Seq(Thought)] /\ chan \in [Viewer -> Seq(Thought)]
      /\ Stored(table, call, told) /\ Stored(thoughtQueue, call, told)
      /\ \A v \in Viewer : Shown(screen[v], told) /\ Shown(chan[v], told)
  BY DEF StreamInv, StreamTyped, SaidInv
<1>1. NewIn(table, t) /\ NewIn(thoughtQueue, t)
  BY <1>0 DEF Stored, NewIn
<1>2. StreamInv'
  BY <1>1, AddKept
<1>3. Stored(table, call', told') /\ Stored(thoughtQueue, call', told')
  BY <1>0, OnwardKeeps
<1>4. Stored(Append(thoughtQueue, t), call', told')
  BY <1>0, <1>3, SaidAppend
<1>5. thoughtQueue' \in {thoughtQueue, Append(thoughtQueue, t)} /\ UNCHANGED <<table, chan, screen>>
  BY DEF AddThought, Enqueued
<1>6. \A v \in Viewer : Shown(screen[v], told') /\ Shown(chan[v], told')
  BY <1>0, OnwardKeeps
<1> QED
  BY <1>2, <1>3, <1>4, <1>5, <1>6 DEF SaidInv

\* A part that call c tells next: none of it was shown.
LEMMA BroadcastSaid ==
    ASSUME StreamInv, SaidInv, NEW t \in Thought, Broadcast(t), Onward(call, told, call', told'),
           told[t[1]] < t[2], t[2] <= told'[t[1]], told[t[1]] \in Nat
    PROVE  StreamInv' /\ SaidInv'
<1>0. /\ table \in Seq(Thought) /\ thoughtQueue \in Seq(Thought)
      /\ screen \in [Viewer -> Seq(Thought)] /\ chan \in [Viewer -> Seq(Thought)]
      /\ Stored(table, call, told) /\ Stored(thoughtQueue, call, told)
      /\ \A v \in Viewer : Shown(screen[v], told) /\ Shown(chan[v], told)
  BY DEF StreamInv, StreamTyped, SaidInv
<1>1. ASSUME NEW s \in Seq(Thought), Shown(s, told)
      PROVE  NewIn(s, t) /\ Shown(s, told') /\ Shown(Append(s, t), told')
  <2>1. \A i \in 1..Len(s) : s[i][2] \in Nat
    BY DEF Thought
  <2>2. t[2] \in Nat
    BY DEF Thought
  <2>3. NewIn(s, t)
    BY <1>1, <2>1, <2>2 DEF Shown, NewIn
  <2>4. Shown(s, told')
    BY <1>1, OnwardKeeps
  <2>5. Shown(Append(s, t), told')
    BY <2>4, SaidAppend
  <2> QED
    BY <2>3, <2>4, <2>5
<1>2. StreamInv'
  BY <1>0, <1>1, BroadcastKept
<1>3. Stored(table, call', told') /\ Stored(thoughtQueue, call', told')
  BY <1>0, OnwardKeeps
<1>4. UNCHANGED <<thoughtQueue, table, screen>> /\ \A v \in Viewer : chan'[v] \in {chan[v], Append(chan[v], t)}
  BY DEF Broadcast, Sent
<1>5. \A v \in Viewer : Shown(screen'[v], told') /\ Shown(chan'[v], told')
  BY <1>0, <1>1, <1>4
<1> QED
  BY <1>2, <1>3, <1>4, <1>5 DEF SaidInv

\* A step of a call keeps what the calls have told, and tells it in order.
LEMMA CallKept ==
    ASSUME CallInv, StreamInv, SaidInv, NEW c \in Caller, CallStep(c)
    PROVE  /\ CallInv' /\ StreamInv' /\ SaidInv' /\ voters' = voters
           /\ \A d \in Caller : call'[d] = "none" <=> call[d] = "none"
<1> USE DEF Move, Places
<1>0. CallTyped /\ CallStands
  BY DEF CallInv
<1>1. ASSUME Open(c) \/ Answer(c) \/ Cut(c) \/ TimeOut(c) \/ GiveUp(c)
      PROVE  /\ CallInv' /\ StreamInv' /\ SaidInv' /\ voters' = voters
             /\ \A d \in Caller : call'[d] = "none" <=> call[d] = "none"
  <2>1. /\ call[c] \in {"open", "waiting"} /\ told' = told
        /\ UNCHANGED <<answers, voters, streamVars>>
        /\ \/ call' \in {call, [call EXCEPT ![c] = "waiting"], [call EXCEPT ![c] = "failed"]} /\ reply' = reply
           \/ \E x \in Text : call' = [call EXCEPT ![c] = "tell"] /\ reply' = [reply EXCEPT ![c] = x]
    BY <1>0, <1>1 DEF Open, Answer, Cut, TimeOut, GiveUp, CallTyped
  <2>2. CallTyped'
    BY <1>0, <2>1 DEF CallTyped
  <2>3. \A d \in Caller : d # c => call'[d] = call[d] /\ reply'[d] = reply[d]
    BY <1>0, <2>1 DEF CallTyped
  <2>4. /\ told[c] = 0
        /\ \/ call'[c] \in {call[c], "waiting", "failed"}
           \/ call'[c] = "tell" /\ reply'[c] \in Text
    BY <1>0, <2>1 DEF CallTyped, CallStands
  <2>5. \A x \in Text : Chunks[x] \in {1, 2}
    BY CallAssumption
  <2>6. CallStands'
    BY <1>0, <2>1, <2>3, <2>4, <2>5, SMTT(30) DEF CallTyped, CallStands
  <2>7. Onward(call, told, call', told')
    BY <1>0, <2>1, <2>3, <2>4 DEF CallTyped, Onward
  <2> QED
    BY <2>1, <2>2, <2>3, <2>4, <2>6, <2>7, RestSaid DEF CallInv
<1>2. ASSUME Begin(c)
      PROVE  /\ CallInv' /\ StreamInv' /\ SaidInv' /\ voters' = voters
             /\ \A d \in Caller : call'[d] = "none" <=> call[d] = "none"
  <2>1. /\ call[c] = "ready" /\ call' = [call EXCEPT ![c] = "open"]
        /\ UNCHANGED <<answers, voters, reply, told>>
        /\ AddThought(<<c, 0>>) \/ UNCHANGED streamVars
    BY <1>2 DEF Begin
  <2>2. CallTyped' /\ CallStands'
    BY <1>0, <2>1 DEF CallTyped, CallStands
  <2>3. Onward(call, told, call', told')
    BY <1>0, <2>1 DEF CallTyped, Onward
  <2>4. <<c, 0>> \in Thought /\ <<c, 0>>[1] = c /\ <<c, 0>>[2] = 0
    BY DEF Thought
  <2>5. call'[c] = "open" /\ 0 <= told'[c]
    BY <1>0, <2>1 DEF CallTyped
  <2>6. StreamInv' /\ SaidInv'
    <3>1. CASE AddThought(<<c, 0>>)
      BY <2>1, <2>3, <2>4, <2>5, <3>1, AddSaid
    <3>2. CASE UNCHANGED streamVars
      BY <2>3, <3>2, RestSaid
    <3> QED
      BY <2>1, <3>1, <3>2
  <2>7. \A d \in Caller : call'[d] = "none" <=> call[d] = "none"
    BY <1>0, <2>1 DEF CallTyped
  <2> QED
    BY <2>1, <2>2, <2>6, <2>7 DEF CallInv
<1>3. ASSUME Tell(c)
      PROVE  /\ CallInv' /\ StreamInv' /\ SaidInv' /\ voters' = voters
             /\ \A d \in Caller : call'[d] = "none" <=> call[d] = "none"
  <2>1. /\ call[c] = "tell" /\ call' = [call EXCEPT ![c] = "store"]
        /\ told' = [told EXCEPT ![c] = told[c] + 1]
        /\ UNCHANGED <<answers, voters, reply>>
        /\ Broadcast(<<c, told'[c]>>) \/ UNCHANGED streamVars
    BY <1>3 DEF Tell
  <2>2. told[c] \in Nat /\ told'[c] = told[c] + 1 /\ reply[c] \in Text /\ told[c] < Chunks[reply[c]]
    BY <1>0, <2>1 DEF CallTyped, CallStands
  <2>3. Chunks[reply[c]] \in {1, 2}
    BY <2>2, CallAssumption
  <2>4. CallTyped'
    BY <1>0, <2>1 DEF CallTyped
  <2>5. CallStands'
    BY <1>0, <2>1, <2>2, <2>3 DEF CallTyped, CallStands
  <2>6. Onward(call, told, call', told')
    BY <1>0, <2>1 DEF CallTyped, Onward
  <2> DEFINE t == <<c, told'[c]>>
  <2>7. t \in Thought /\ t[1] = c /\ t[2] = told'[c]
    BY <2>2 DEF Thought
  <2> HIDE DEF t
  <2>8. StreamInv' /\ SaidInv'
    <3>1. CASE Broadcast(t)
      BY <2>2, <2>6, <2>7, <3>1, BroadcastSaid
    <3>2. CASE UNCHANGED streamVars
      BY <2>6, <3>2, RestSaid
    <3> QED
      BY <2>1, <3>1, <3>2 DEF t
  <2>9. \A d \in Caller : call'[d] = "none" <=> call[d] = "none"
    BY <1>0, <2>1 DEF CallTyped
  <2> QED
    BY <2>1, <2>4, <2>5, <2>8, <2>9 DEF CallInv
<1>4. ASSUME Store(c)
      PROVE  /\ CallInv' /\ StreamInv' /\ SaidInv' /\ voters' = voters
             /\ \A d \in Caller : call'[d] = "none" <=> call[d] = "none"
  <2>1. /\ call[c] = "store" /\ call' = [call EXCEPT ![c] = IF More(c) THEN "tell" ELSE "done"]
        /\ UNCHANGED <<answers, voters, reply, told>>
        /\ AddThought(<<c, told[c]>>) \/ UNCHANGED streamVars
    BY <1>4 DEF Store
  <2>2. told[c] \in Nat /\ reply[c] \in Text /\ told[c] <= Chunks[reply[c]] /\ Chunks[reply[c]] \in Nat
    BY <1>0, <2>1, CallAssumption DEF CallTyped, CallStands
  <2>3. call'[c] \in {"tell", "done"} /\ (call'[c] = "tell" => told[c] < Chunks[reply[c]])
    BY <1>0, <2>1 DEF CallTyped, More
  <2>4. \A d \in Caller : d # c => call'[d] = call[d]
    BY <1>0, <2>1 DEF CallTyped
  <2>5. CallTyped' /\ CallStands'
    BY <1>0, <2>1, <2>2, <2>3, <2>4 DEF CallTyped, CallStands
  <2>6. Onward(call, told, call', told')
    BY <1>0, <2>1, <2>3, <2>4 DEF CallTyped, Onward
  <2> DEFINE t == <<c, told[c]>>
  <2>7. t \in Thought /\ t[1] = c /\ t[2] = told[c] /\ t[2] <= told'[c]
    BY <2>1, <2>2 DEF Thought
  <2> HIDE DEF t
  <2>8. StreamInv' /\ SaidInv'
    <3>1. CASE AddThought(t)
      BY <2>1, <2>3, <2>6, <2>7, <3>1, AddSaid
    <3>2. CASE UNCHANGED streamVars
      BY <2>6, <3>2, RestSaid
    <3> QED
      BY <2>1, <3>1, <3>2 DEF t
  <2> QED
    BY <2>1, <2>3, <2>4, <2>5, <2>8 DEF CallInv
<1> QED
  BY <1>1, <1>2, <1>3, <1>4 DEF CallStep

-----------------------------------------------------------------------------
(* The setting.                                                            *)

SettingPlaces == {"idle", "reading", "filling", "told", "caching", "over"}

SettingTyped ==
    /\ row \in Value \cup {NoEntry} /\ cached \in Value \cup {NoEntry} /\ saves \in 0..MaxSaves
    /\ doing \in [Actor -> [at : SettingPlaces, value : Value]]

\* One actor goes on.
LEMMA StepTyped ==
    ASSUME SettingTyped, NEW a \in Actor, NEW from \in SettingPlaces, NEW to \in SettingPlaces,
           NEW v \in Value, Step(a, from, to, v)
    PROVE  doing' \in [Actor -> [at : SettingPlaces, value : Value]]
<1>1. [at |-> to, value |-> v] \in [at : SettingPlaces, value : Value]
  OBVIOUS
<1>2. doing' = [doing EXCEPT ![a] = [at |-> to, value |-> v]]
  BY DEF Step
<1> QED
  BY <1>1, <1>2 DEF SettingTyped

\* Whoever reads, saves or shows the setting keeps the types, and so does the hour.
LEMMA SettingKept ==
    ASSUME SettingTyped,
           Expire \/ GetSetting(Run) \/ \E a \in Person : PersonStep(a)
    PROVE  SettingTyped'
<1> USE SettingsAssumption DEF SettingPlaces
<1>0. Unset \in Value /\ Default \in Value
  BY DEF Value
<1>1. CASE Expire
  BY <1>1 DEF Expire, SettingTyped
<1>2. ASSUME NEW a \in Actor, GetSetting(a) PROVE SettingTyped'
  <2>1. doing[a].value \in Value
    BY DEF SettingTyped
  <2>2. CASE Ask(a)
    BY <1>0, <2>2, StepTyped DEF Ask, SettingTyped
  <2>3. CASE Read(a)
    BY <1>0, <2>3, StepTyped DEF Read, SettingTyped
  <2>4. CASE Fill(a)
    <3>1. doing' \in [Actor -> [at : SettingPlaces, value : Value]]
      BY <2>1, <2>4, StepTyped DEF Fill
    <3>2. cached' \in Value \cup {NoEntry} /\ UNCHANGED <<row, saves>>
      BY <2>1, <2>4 DEF Fill, SettingTyped
    <3> QED
      BY <3>1, <3>2 DEF SettingTyped
  <2> QED
    BY <1>2, <2>2, <2>3, <2>4 DEF GetSetting
<1>3. ASSUME NEW a \in Actor, NEW from \in SettingPlaces, NEW v \in Value, Save(a, from, v)
      PROVE  SettingTyped'
  <2>1. saves' \in 0..MaxSaves /\ row' \in Value \cup {NoEntry} /\ cached' = cached
    BY <1>3 DEF Save, SettingTyped
  <2>2. doing' \in [Actor -> [at : SettingPlaces, value : Value]]
    BY <1>0, <1>3, StepTyped DEF Save
  <2> QED
    BY <2>1, <2>2 DEF SettingTyped
<1>4. ASSUME NEW a \in Actor, SetCache(a) PROVE SettingTyped'
  <2>1. doing[a].value \in Value
    BY DEF SettingTyped
  <2>2. doing' \in [Actor -> [at : SettingPlaces, value : Value]]
    BY <1>0, <1>4, StepTyped DEF SetCache
  <2> QED
    BY <1>4, <2>1, <2>2 DEF SetCache, SettingTyped
<1>5. ASSUME NEW a \in Actor, ShowPage(a) PROVE SettingTyped'
  <2>1. doing' \in [Actor -> [at : SettingPlaces, value : Value]]
    BY <1>0, <1>5, StepTyped DEF ShowPage
  <2> QED
    BY <1>5, <2>1 DEF ShowPage, SettingTyped
<1>6. ASSUME NEW a \in Person, PersonStep(a) PROVE SettingTyped'
  <2>1. a \in Actor
    BY DEF Actor
  <2> QED
    BY <1>0, <1>2, <1>3, <1>4, <1>5, <1>6, <2>1 DEF PersonStep, SaveForm, Repair
<1>7. Run \in Actor
  BY DEF Actor
<1> QED
  BY <1>1, <1>2, <1>6, <1>7

-----------------------------------------------------------------------------
(* The vote.                                                               *)

\* The least number of a set.
LEMMA LeastNumber ==
    ASSUME NEW S \in SUBSET Nat, S # {}
    PROVE  \E m \in S : \A n \in S : m <= n
<1> DEFINE Less == {p \in Nat \X Nat : p[1] < p[2]}
<1>1. IsWellFoundedOn(Less, Nat)
  BY NatLessThanWellFounded DEF OpToRel
<1>2. \A m, n \in Nat : <<n, m>> \notin Less => m <= n
  OBVIOUS
<1> HIDE DEF Less
<1>3. PICK m \in S : \A n \in S : <<n, m>> \notin Less
  BY <1>1, WFMin
<1> QED
  BY <1>2, <1>3

\* The element with the least number.
LEMMA LeastElement ==
    ASSUME NEW S, S # {}, NEW f, \A x \in S : f[x] \in Nat
    PROVE  \E x \in S : \A y \in S : f[x] <= f[y]
<1>1. {f[x] : x \in S} \in SUBSET Nat /\ {f[x] : x \in S} # {}
  OBVIOUS
<1>2. PICK m \in {f[x] : x \in S} : \A n \in {f[x] : x \in S} : m <= n
  BY <1>1, LeastNumber
<1> QED
  BY <1>2

\* The models asked are finitely many, and each has its place in the list.
LEMMA AskedPlaces ==
    ASSUME voters \in Seq(Caller)
    PROVE  /\ Asked \subseteq Caller /\ IsFiniteSet(Asked)
           /\ \A c \in Asked : PlaceOf(c) \in Nat
<1>1. Len(voters) \in Nat /\ voters \in [1..Len(voters) -> Caller]
  OBVIOUS
<1>2. Asked = {voters[i] : i \in 1..Len(voters)}
  BY <1>1 DEF Asked, ToSet
<1>3. Asked \subseteq Caller
  BY <1>1, <1>2
<1>4. IsFiniteSet(Asked)
  <2>1. IsFiniteSet(1..Len(voters))
    BY <1>1, FS_Interval
  <2> DEFINE f == [i \in 1..Len(voters) |-> voters[i]]
  <2>2. f \in Surjection(1..Len(voters), Asked)
    BY <1>1, <1>2 DEF Surjection
  <2> QED
    BY <2>1, <2>2, FS_Surjection
<1>5. ASSUME NEW c \in Asked PROVE PlaceOf(c) \in Nat
  <2> DEFINE I == {i \in 1..Len(voters) : voters[i] = c}
  <2>1. I # {} /\ I \in SUBSET Nat
    BY <1>1, <1>2
  <2>2. PlaceOf(c) = Min(I)
    BY <2>1 DEF PlaceOf, SelectInSeq
  <2>3. \E m \in I : \A n \in I : m <= n
    BY <2>1, LeastNumber
  <2>4. Min(I) \in I
    BY <2>3 DEF Min
  <2> QED
    BY <2>1, <2>2, <2>4
<1> QED
  BY <1>3, <1>4, <1>5

\* Where anyone answered, somebody wins: the first of a largest group that agrees.
LEMMA SomebodyWins ==
    ASSUME CallTyped, Answered # {}
    PROVE  Winners # {}
<1>1. Asked \subseteq Caller /\ IsFiniteSet(Asked) /\ \A c \in Asked : PlaceOf(c) \in Nat
  BY AskedPlaces DEF CallTyped
<1>2. Answered \subseteq Asked /\ \A c \in Answered : c \in Agreeing(c) /\ Agreeing(c) \subseteq Asked
  BY DEF Answered, Agreeing
<1>3. \A c \in Answered : Cardinality(Agreeing(c)) \in Nat /\ Cardinality(Agreeing(c)) <= Cardinality(Asked)
  BY <1>1, <1>2, FS_Subset, FS_CardinalityType
<1>4. Cardinality(Asked) \in Nat
  BY <1>1, FS_CardinalityType
<1> DEFINE far == [c \in Answered |-> Cardinality(Asked) - Cardinality(Agreeing(c))]
<1>5. \A c \in Answered : far[c] \in Nat
  BY <1>3, <1>4
<1>6. PICK c \in Answered : \A d \in Answered : far[c] <= far[d]
  BY <1>5, LeastElement
<1>7. \A d \in Answered : Cardinality(Agreeing(d)) <= Cardinality(Agreeing(c))
  BY <1>3, <1>4, <1>6
<1> DEFINE place == [d \in Agreeing(c) |-> PlaceOf(d)]
<1>8. Agreeing(c) # {} /\ \A d \in Agreeing(c) : place[d] \in Nat
  BY <1>1, <1>2
<1>9. PICK w \in Agreeing(c) : \A d \in Agreeing(c) : place[w] <= place[d]
  BY <1>8, LeastElement
<1>10. w \in Answered /\ Agreeing(w) = Agreeing(c)
  BY <1>9 DEF Agreeing
<1>11. \A d \in Agreeing(w) : PlaceOf(w) <= PlaceOf(d)
  BY <1>9, <1>10
<1>12. \A d \in Answered : Cardinality(Agreeing(d)) <= Cardinality(Agreeing(w))
  BY <1>7, <1>10
<1> QED
  BY <1>10, <1>11, <1>12 DEF Winners

\* The winner, or the first of the others that can be read: one of them is planned with.
LEMMA PlansOf ==
    ASSUME CallTyped, NEW w \in Winners
    PROVE  /\ Plans(w) \subseteq {c \in Answered : Results[c] \in Readable}
           /\ Results[w] \in Readable => Plans(w) = {w}
           /\ Plans(w) = {} => \A c \in Answered : Results[c] \notin Readable
<1>1. w \in Answered
  BY DEF Winners
<1> DEFINE others == {d \in Answered : Results[d] # Results[w] /\ Results[d] \in Readable}
<1>2. \A c \in Answered : PlaceOf(c) \in Nat
  BY AskedPlaces DEF CallTyped, Answered
<1>3. others # {} => FirstOf(others) # {}
  <2> SUFFICES ASSUME others # {} PROVE FirstOf(others) # {}
    OBVIOUS
  <2> DEFINE place == [d \in others |-> PlaceOf(d)]
  <2>1. \A d \in others : place[d] \in Nat
    BY <1>2
  <2>2. PICK p \in others : \A d \in others : place[p] <= place[d]
    BY <2>1, LeastElement
  <2>3. p \in FirstOf(others)
    BY <2>2 DEF FirstOf
  <2> QED
    BY <2>3
<1>4. Plans(w) = IF Results[w] \in Readable THEN {w} ELSE FirstOf(others)
  BY DEF Plans
<1>5. FirstOf(others) \subseteq others
  BY DEF FirstOf
<1>6. Plans(w) \subseteq {c \in Answered : Results[c] \in Readable}
  BY <1>1, <1>4, <1>5
<1>7. ASSUME Plans(w) = {}, NEW c \in Answered PROVE Results[c] \notin Readable
  <2>1. Results[w] \notin Readable /\ others = {}
    BY <1>3, <1>4, <1>7
  <2> QED
    BY <2>1
<1> QED
  BY <1>4, <1>6, <1>7

\* What the models agree on, if it can be read, wins and is the plan.
LEMMA MostAgreedWins ==
    ASSUME CallTyped, NEW c \in Answered,
           \A d \in Same(c) : Results[d] \in Readable,
           \A d \in Answered \ Same(c) : Cardinality(Same(d)) < Cardinality(Same(c)),
           NEW w \in Winners
    PROVE  Plans(w) = {w} /\ w \in Same(c)
<1>1. \A d : Same(d) = Agreeing(d)
  BY DEF Same, Agreeing
<1>2. w \in Answered /\ Cardinality(Same(c)) <= Cardinality(Same(w))
  BY <1>1 DEF Winners
<1>3. \A d \in Answered : Cardinality(Same(d)) \in Nat
  <2>1. \A d : Same(d) \subseteq Asked
    BY DEF Same, Answered
  <2> QED
    BY <2>1, AskedPlaces, FS_Subset, FS_CardinalityType DEF CallTyped
<1>4. w \in Same(c)
  BY <1>2, <1>3
<1> QED
  BY <1>4, PlansOf

\* The stages of the execution.
StageStands ==
    /\ phase \in {"load", "vote", "planned", "failed"} /\ scene \in Scenario
    /\ plan \in Asked \cup {Unset}
    /\ phase \in {"load", "vote"} => plan = Unset
    /\ phase = "load" => \A c \in Caller : call[c] = "none"
    /\ \A c \in Caller : call[c] = "none" <=> c \notin Asked

VoteInv ==
    /\ CallInv /\ StreamInv /\ SaidInv /\ SettingTyped /\ StageStands
    /\ ReadableIsUsed /\ MostAgreedIsPlan

\* The answers do not change when the vote is over.
LEMMA VoteRests ==
    ASSUME ReadableIsUsed, MostAgreedIsPlan,
           UNCHANGED <<voters, call, reply, plan>>, phase' = phase \/ phase' = "vote"
    PROVE  ReadableIsUsed' /\ MostAgreedIsPlan'
<1>1. Over' => Over /\ phase' = phase
  BY DEF Over
<1>2. Results' = Results /\ Answered' = Answered
  BY DEF Results, Answered, Asked
<1>3. \A c : Same(c)' = Same(c)
  BY <1>2 DEF Same
<1>4. ReadableIsUsed'
  BY <1>1, <1>2 DEF ReadableIsUsed
<1>5. MostAgreedIsPlan'
  BY <1>1, <1>2, <1>3 DEF MostAgreedIsPlan
<1> QED
  BY <1>4, <1>5

\* The list of voters is not empty: without one the primary model votes alone.
LEMMA VotersTyped ==
    ASSUME SettingTyped, scene \in Scenario
    PROVE  VotersOf(scene.voters) \in Seq(Caller)
<1>1. doing[Run].value \in Value
  BY DEF SettingTyped, Actor
<1>2. Primary \in Caller
  BY <1>1, SettingsAssumption, VoteAssumption DEF Primary, Value
<1>3. scene.voters \in Seq(Caller)
  BY VoteAssumption
<1> QED
  BY <1>2, <1>3 DEF VotersOf

\* The beginning.
LEMMA VoteStarts == Init => VoteInv
<1> SUFFICES ASSUME Init PROVE VoteInv
  OBVIOUS
<1> USE DEF Init, StreamInit, CallInit, SettingsInit
<1>1. StreamTyped /\ DoorsStand
  BY StreamAssumption DEF StreamTyped, DoorsStand
<1>2. \A s : s = <<>> => Len(s) = 0
  OBVIOUS
<1>3. OrderStands /\ SaidInv
  BY <1>2 DEF OrderStands, SaidInv, InOrder, Follows, Stored, Shown
<1>4. answers \subseteq Text /\ row \in Value \cup {NoEntry}
  BY VoteAssumption
<1>5. CallInv
  BY <1>4 DEF CallInv, CallTyped, CallStands, Places
<1>6. SettingTyped
  <2>1. Idle \in [at : SettingPlaces, value : Value]
    BY DEF Idle, SettingPlaces, Value
  <2> QED
    BY <1>4, <2>1, SettingsAssumption DEF SettingTyped
<1>7. Asked = {}
  BY <1>2 DEF Asked, ToSet
<1>8. StageStands
  BY <1>7 DEF StageStands
<1>9. ReadableIsUsed /\ MostAgreedIsPlan
  BY DEF ReadableIsUsed, MostAgreedIsPlan, Over
<1> QED
  BY <1>1, <1>3, <1>5, <1>6, <1>8, <1>9 DEF VoteInv, StreamInv

\* The models are asked.
LEMMA StartKept ==
    ASSUME VoteInv, StartVote
    PROVE  VoteInv'
<1>0. /\ CallTyped /\ CallStands /\ StreamInv /\ SaidInv /\ SettingTyped /\ scene \in Scenario
      /\ plan = Unset /\ \A c \in Caller : call[c] = "none"
  BY DEF VoteInv, CallInv, StageStands, StartVote
<1>1. /\ phase = "load" /\ phase' = "vote" /\ Step(Run, "told", "over", doing[Run].value)
      /\ voters' = VotersOf(scene.voters)
      /\ call' = [c \in Caller |-> IF c \in ToSet(voters') THEN "ready" ELSE "none"]
      /\ UNCHANGED streamVars /\ UNCHANGED <<answers, reply, told, row, cached, saves, scene, plan>>
  BY DEF StartVote
<1>2. voters' \in Seq(Caller)
  BY <1>0, <1>1, VotersTyped
<1>3. \A c \in Caller : told[c] = 0
  BY <1>0 DEF CallStands
<1>4. CallInv'
  BY <1>0, <1>1, <1>2, <1>3 DEF CallInv, CallTyped, CallStands, Places
<1>5. Onward(call, told, call', told')
  BY <1>0, <1>1, <1>3 DEF Onward
<1>6. StreamInv' /\ SaidInv'
  BY <1>0, <1>1, <1>5, RestSaid
<1>7. SettingTyped'
  <2>1. Run \in Actor /\ "told" \in SettingPlaces /\ "over" \in SettingPlaces
    BY DEF Actor, SettingPlaces
  <2>2. doing[Run].value \in Value
    BY <1>0, <2>1 DEF SettingTyped
  <2>3. doing' \in [Actor -> [at : SettingPlaces, value : Value]]
    BY <1>0, <1>1, <2>1, <2>2, StepTyped
  <2> QED
    BY <1>0, <1>1, <2>3 DEF SettingTyped
<1>8. StageStands'
  BY <1>0, <1>1 DEF StageStands, Asked
<1>9. (ReadableIsUsed /\ MostAgreedIsPlan)'
  BY <1>1 DEF ReadableIsUsed, MostAgreedIsPlan, Over
<1> QED
  BY <1>4, <1>6, <1>7, <1>8, <1>9 DEF VoteInv

\* The count, and what is planned with.
LEMMA TakeKept ==
    ASSUME VoteInv, TakePlan
    PROVE  VoteInv'
<1>0. /\ CallInv /\ CallTyped /\ StreamInv /\ SaidInv /\ SettingTyped /\ StageStands
      /\ UNCHANGED <<streamVars, callVars, settingVars, scene>>
      /\ phase = "vote"
  BY DEF VoteInv, CallInv, TakePlan
<1>1. CallInv' /\ StreamInv' /\ SaidInv' /\ SettingTyped'
  BY <1>0 DEF CallInv, CallTyped, CallStands, StreamInv, StreamTyped, DoorsStand, OrderStands,
              SaidInv, SettingTyped, callVars, streamVars, settingVars
<1>2. Asked' = Asked /\ Results' = Results /\ Answered' = Answered
  BY <1>0 DEF callVars, Results, Answered, Asked
<1>3. \A c : Same(c)' = Same(c)
  BY <1>2 DEF Same
<1>4. Winners = {} => Answered = {}
  BY <1>0, SomebodyWins
<1>5. \A w \in Winners : Plans(w) \subseteq {c \in Answered : Results[c] \in Readable}
  BY <1>0, PlansOf
<1>6. \A w \in Winners : Plans(w) = {} => \A c \in Answered : Results[c] \notin Readable
  BY <1>0, PlansOf
<1> DEFINE Agreed(c) == /\ \A d \in Same(c) : Results[d] \in Readable
                        /\ \A d \in Answered \ Same(c) : Cardinality(Same(d)) < Cardinality(Same(c))
<1>7. \A c \in Answered, w \in Winners : Agreed(c) => Plans(w) = {w} /\ w \in Same(c)
  BY <1>0, MostAgreedWins
<1> HIDE DEF Agreed
<1>8. /\ phase' \in {"planned", "failed"} /\ plan' \in Answered \cup {Unset}
      /\ ReadableIsUsed'
      /\ \A c \in Answered : Agreed(c) => phase' = "planned" /\ plan' \in Same(c)
  <2>1. CASE phase' = "planned" /\ \E w \in Winners : plan' \in Plans(w)
    <3>1. PICK w \in Winners : plan' \in Plans(w)
      BY <2>1
    <3>2. plan' \in Answered /\ Results[plan'] \in Readable
      BY <1>5, <3>1
    <3>3. ReadableIsUsed'
      BY <1>2, <2>1, <3>2 DEF ReadableIsUsed
    <3> QED
      BY <1>7, <2>1, <3>1, <3>2, <3>3
  <2>2. CASE /\ phase' = "failed" /\ plan' = plan
             /\ Winners = {} \/ \E w \in Winners : Plans(w) = {}
    <3>1. \A c \in Answered : Results[c] \notin Readable
      BY <1>4, <1>6, <2>2
    <3>2. ReadableIsUsed'
      BY <1>2, <3>1 DEF ReadableIsUsed
    <3>3. \A c \in Answered : ~ Agreed(c)
      BY <3>1 DEF Agreed, Same
    <3>4. plan' = Unset
      BY <1>0, <2>2 DEF StageStands
    <3> QED
      BY <2>2, <3>2, <3>3, <3>4
  <2> QED
    BY <2>1, <2>2 DEF TakePlan
<1>9. StageStands'
  BY <1>0, <1>2, <1>8 DEF StageStands, callVars, Answered
<1>10. MostAgreedIsPlan'
  BY <1>2, <1>3, <1>8 DEF MostAgreedIsPlan, Agreed
<1> QED
  BY <1>1, <1>8, <1>9, <1>10 DEF VoteInv

\* Every step.
LEMMA VoteKept == VoteInv /\ [Next]_vars => VoteInv'
<1> SUFFICES ASSUME VoteInv, [Next]_vars PROVE VoteInv'
  OBVIOUS
<1>0. /\ CallInv /\ StreamInv /\ SaidInv /\ SettingTyped /\ StageStands
      /\ ReadableIsUsed /\ MostAgreedIsPlan
  BY DEF VoteInv
\* What a part keeps that does not change at all.
<1>1. UNCHANGED <<answers, voters, call, reply, told>> => CallInv'
  BY <1>0 DEF CallInv, CallTyped, CallStands
<1>2. UNCHANGED streamVars /\ UNCHANGED <<call, told>> => StreamInv' /\ SaidInv'
  BY <1>0 DEF streamVars, StreamInv, StreamTyped, DoorsStand, OrderStands, SaidInv
<1>3. UNCHANGED settingVars => SettingTyped'
  BY <1>0 DEF SettingTyped, settingVars
<1>4. UNCHANGED <<voters, call, phase, scene, plan>> => StageStands'
  BY <1>0 DEF StageStands, Asked
<1>5. UNCHANGED <<voters, call, reply, phase, plan>> => ReadableIsUsed' /\ MostAgreedIsPlan'
  BY <1>0, VoteRests
<1>6. CASE LoadPrimary \/ Settings
  <2>1. UNCHANGED <<streamVars, callVars, phase, scene, plan>>
    BY <1>6 DEF LoadPrimary, Settings
  <2>2. SettingTyped'
    <3>1. scene.persons \subseteq Person
      BY <1>0, VoteAssumption DEF StageStands
    <3> QED
      BY <1>0, <1>6, <3>1, SettingKept DEF LoadPrimary, Settings
  <2> QED
    BY <1>1, <1>2, <1>4, <1>5, <2>1, <2>2 DEF VoteInv, callVars
<1>7. CASE Calls
  <2>1. PICK c \in Asked : CallStep(c)
    BY <1>7 DEF Calls
  <2>2. phase = "vote" /\ UNCHANGED <<settingVars, phase, scene, plan>>
    BY <1>7 DEF Calls
  <2>3. c \in Caller
    BY <1>0, AskedPlaces DEF CallInv, CallTyped
  <2>4. /\ CallInv' /\ StreamInv' /\ SaidInv' /\ voters' = voters
        /\ \A d \in Caller : call'[d] = "none" <=> call[d] = "none"
    BY <1>0, <2>1, <2>3, CallKept
  <2>5. StageStands'
    BY <1>0, <2>2, <2>4 DEF StageStands, Asked
  <2>6. (ReadableIsUsed /\ MostAgreedIsPlan)'
    BY <2>2 DEF ReadableIsUsed, MostAgreedIsPlan, Over
  <2> QED
    BY <1>3, <2>2, <2>4, <2>5, <2>6 DEF VoteInv
<1>8. CASE Beside
  <2>1. UNCHANGED <<callVars, settingVars, phase, scene, plan>>
    BY <1>8 DEF Beside
  <2>2. WriteLog \/ \E v \in Viewer : ViewerStep(v)
    <3>1. scene.viewers \subseteq Viewer
      BY <1>0, VoteAssumption DEF StageStands
    <3> QED
      BY <1>8, <3>1 DEF Beside
  <2>3. StreamInv'
    BY <1>0, <2>2, WriteKept, ViewerKept
  <2>4. SaidInv'
    BY <1>0, <2>1, <2>2, BesideSaid DEF callVars
  <2> QED
    BY <1>1, <1>3, <1>4, <1>5, <2>1, <2>3, <2>4 DEF VoteInv, callVars
<1>9. CASE StopTask
  <2>1. UNCHANGED <<streamVars, settingVars, answers, voters, call, reply, told, phase, scene, plan>>
    BY <1>9 DEF StopTask, Stop
  <2> QED
    BY <1>1, <1>2, <1>3, <1>4, <1>5, <2>1 DEF VoteInv
<1>10. CASE UNCHANGED vars
  BY <1>1, <1>2, <1>3, <1>4, <1>5, <1>10 DEF VoteInv, vars, callVars
<1> QED
  BY <1>6, <1>7, <1>8, <1>9, <1>10, StartKept, TakeKept DEF Next

\* The invariant of the vote, the calls, the setting and the stream.
THEOREM VoteInvHolds == Spec => []VoteInv
BY VoteStarts, VoteKept, PTL DEF Spec

\* What the invariant says of the properties.
LEMMA VoteInvSays == VoteInv => NeverSendsToClosed /\ ShownInOrder /\ VoteIsHeeded
<1> SUFFICES ASSUME VoteInv PROVE NeverSendsToClosed /\ ShownInOrder /\ VoteIsHeeded
  OBVIOUS
<1>0. /\ CallTyped /\ CallStands /\ StreamTyped /\ DoorsStand /\ OrderStands
      /\ SettingTyped /\ StageStands /\ ReadableIsUsed /\ MostAgreedIsPlan
  BY DEF VoteInv, CallInv, StreamInv
<1>1. NeverSendsToClosed
  BY <1>0 DEF StreamTyped, DoorsStand, NeverSendsToClosed
<1>2. ShownInOrder
  BY <1>0 DEF OrderStands, InOrder, ShownInOrder
<1>3. ASSUME NEW c \in Caller, told[c] > 0
      PROVE  reply[c] # Silence /\ told[c] <= Chunks[reply[c]]
  <2>1. call[c] \in {"tell", "store", "done"}
    BY <1>0, <1>3 DEF CallTyped, CallStands, Places
  <2> QED
    BY <1>0, <2>1, CallAssumption DEF CallStands
<1>4. TypeOK
  <2>1. Asked \subseteq Caller
    BY <1>0, AskedPlaces DEF CallTyped
  <2> QED
    BY <1>0, <1>3, <2>1 DEF TypeOK, StageStands, SettingTyped, SettingPlaces, StreamTyped
<1> QED
  BY <1>0, <1>1, <1>2, <1>4 DEF VoteIsHeeded

\* No broadcast ever goes to a closed channel, which would be a panic of the process that
\* runs every task: a viewer's channel is out of the map before it is closed.
THEOREM SendsStayOpen == Spec => []NeverSendsToClosed
BY VoteInvHolds, VoteInvSays, PTL

\* However calls speak, the writer writes, thoughts are dropped and viewers come and go, a
\* viewer sees no thought twice and those of one call in the order it said them.
THEOREM ThoughtsInOrder == Spec => []ShownInOrder
BY VoteInvHolds, VoteInvSays, PTL

\* The execution plans with a readable answer if any model gave one, and with what more
\* models agree on than on anything else if that can be read, whoever failed or was stopped.
THEOREM VoteHeeded == Spec => []VoteIsHeeded
BY VoteInvHolds, VoteInvSays, PTL
=============================================================================
