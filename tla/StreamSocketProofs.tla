-------------------------- MODULE StreamSocketProofs --------------------------
(***************************************************************************)
(* For every number of subscribers, readers, sockets and frames: a stream  *)
(* gives each subscriber a feed in order, a reader that waits is answered  *)
(* by the next frame or the end, queues are bounded, and no subscription   *)
(* outlives its connection, and every frame a subscriber missed is counted *)
(* as a drop. Every step of a socket is a step of the bus or leaves it     *)
(* alone, so the bus invariant is proved for the bus's actions.            *)
(***************************************************************************)
EXTENDS StreamSocket, FiniteSetTheorems, TLAPS

\* The actions of the bus, whoever takes them.
BusAction ==
    \/ Publish \/ CloseStream
    \/ \E s \in Subscribers, p \in BackpressurePolicies, n \in Nat \ {0} : Subscribe(s, p, n)
    \/ \E S \in SUBSET Subscribers : Close(S)
    \/ \E r \in Readers : Next1(r) \/ Take(r)

\* A handle is not there yet, attached, or closed.
Stage(s) ==
    /\ policy[s] = None =>
          /\ s \notin attached /\ s \notin finished /\ ~closed[s]
          /\ queue[s] = <<>> /\ given[s] = <<>> /\ notify[s] = NoReader
          /\ left[s] = MaxFrames
    /\ s \in attached => /\ ~closed[s] /\ s \notin finished
                         /\ left[s] = MaxFrames /\ size[s] > 0
    /\ policy[s] # None => /\ s \in attached \/ closed[s]
                           /\ joined[s] <= Until(s) /\ Until(s) <= published
Stages == \A s \in Subscribers : Stage(s)

\* What is queued is in order, of the handle's time, and newer than what was given.
Ordered(g, q, from, until) ==
    /\ \A i, j \in 1..Len(q) : i < j => q[i] < q[j]
    /\ \A i \in 1..Len(q) : /\ from <= q[i] /\ q[i] < until
                            /\ g # <<>> => g[Len(g)] < q[i]
    /\ g # <<>> => g[Len(g)] < until
InOrder == \A s \in Subscribers : Ordered(given[s], queue[s], joined[s], Until(s))

\* The numbers frames can have.
Frames == 0..(MaxFrames - 1)

BusInv == BusTypeOK /\ Stages /\ InOrder
-----------------------------------------------------------------------------
\* A socket takes steps of the bus only.
LEMMA SocketStepsBus ==
  ASSUME [SocketNext]_allVars
  PROVE  BusAction \/ UNCHANGED busVars
<1> USE StreamAssumption, SocketAssumption DEF BackpressurePolicies
<1>1. ASSUME NEW s \in Sockets, Connect(s) PROVE BusAction
  BY <1>1 DEF Connect, BusAction
<1>2. ASSUME NEW s \in Sockets, PumpAwaits(s) \/ PumpSends(s) PROVE BusAction
  BY <1>2 DEF PumpAwaits, PumpSends, BusAction
<1>3. ASSUME NEW s \in Sockets, PumpBreaks(s) \/ PumpEnds(s) \/ SendFails(s) \/ SocketCloses(s)
      PROVE  BusAction
  BY <1>3 DEF PumpBreaks, PumpEnds, SendFails, SocketCloses, BusAction
<1>4. ASSUME NEW s \in Sockets, Sent(s) \/ PeerTalks(s) PROVE UNCHANGED busVars
  BY <1>4 DEF Sent, PeerTalks
<1>5. CASE Shutdown
  BY <1>5 DEF Shutdown, BusAction
<1>6. CASE BusStep
  BY <1>6 DEF BusStep, BusAction, Others
<1>7. CASE UNCHANGED allVars
  BY <1>7 DEF allVars
<1> QED
  BY <1>1, <1>2, <1>3, <1>4, <1>5, <1>6, <1>7 DEF SocketNext, SocketStep


\* Giving the first of the queue keeps the order, and gives a newer frame.
LEMMA GivingFirst ==
  ASSUME NEW g \in Seq(Nat), NEW q \in Seq(Nat), NEW a \in Nat, NEW u \in Nat,
         Ordered(g, q, a, u), q # <<>>
  PROVE  /\ Ordered(Append(g, Head(q)), Tail(q), a, u)
         /\ Head(q) \in a..(u - 1)
         /\ g # <<>> => g[Len(g)] < Head(q)
<1>1. Len(q) \in Nat /\ 1 \in 1..Len(q) /\ Head(q) = q[1] /\ Head(q) \in Nat
  OBVIOUS
<1>2. Len(Tail(q)) = Len(q) - 1 /\ \A i \in 1..Len(Tail(q)) : Tail(q)[i] = q[i + 1]
  OBVIOUS
<1>3. Append(g, Head(q))[Len(Append(g, Head(q)))] = q[1]
  <2>1. Len(g) \in Nat /\ Len(Append(g, q[1])) = Len(g) + 1 /\ Append(g, q[1])[Len(g) + 1] = q[1]
    BY <1>1
  <2> QED
    BY <1>1, <2>1
<1>4. \A i \in 1..Len(Tail(q)) : i + 1 \in 1..Len(q) /\ 1 < i + 1
  BY <1>1, <1>2
<1>5. \A i \in 1..Len(q) : q[i] \in Nat
  OBVIOUS
<1>6. Head(q) \in a..(u - 1) /\ (g # <<>> => g[Len(g)] < Head(q)) /\ q[1] < u
  BY <1>1, <1>5 DEF Ordered
<1>7. \A i, j \in 1..Len(Tail(q)) : i < j => Tail(q)[i] < Tail(q)[j]
  BY <1>2, <1>4 DEF Ordered
<1>8. \A i \in 1..Len(Tail(q)) : a <= Tail(q)[i] /\ Tail(q)[i] < u /\ q[1] < Tail(q)[i]
  BY <1>1, <1>2, <1>4 DEF Ordered
<1> QED
  BY <1>3, <1>6, <1>7, <1>8 DEF Ordered

\* The frame published next is newer than all, whatever is dropped for it.
LEMMA OfferingNext ==
  ASSUME NEW g \in Seq(Nat), NEW q \in Seq(Nat), NEW a \in Nat, NEW u \in Nat,
         Ordered(g, q, a, u), a <= u
  PROVE  /\ Ordered(g, q, a, u + 1)
         /\ Ordered(g, <<u>>, a, u + 1)
         /\ Ordered(g, Append(q, u), a, u + 1)
         /\ q # <<>> => Ordered(g, Append(Tail(q), u), a, u + 1)
<1>1. \A i \in 1..Len(q) : q[i] \in Nat
  OBVIOUS
<1>2. g # <<>> => g[Len(g)] \in Nat /\ g[Len(g)] < u
  BY DEF Ordered
<1>3. Ordered(g, q, a, u + 1)
  BY <1>1, <1>2 DEF Ordered
<1>4. Ordered(g, <<u>>, a, u + 1)
  <2>1. Len(<<u>>) = 1 /\ <<u>>[1] = u
    OBVIOUS
  <2> QED
    BY <1>2, <2>1 DEF Ordered
<1>5. ASSUME NEW p \in Seq(Nat), Ordered(g, p, a, u)
      PROVE  Ordered(g, Append(p, u), a, u + 1)
  <2>1. /\ Len(p) \in Nat /\ Len(Append(p, u)) = Len(p) + 1
        /\ Append(p, u)[Len(p) + 1] = u
        /\ \A i \in 1..Len(p) : Append(p, u)[i] = p[i] /\ p[i] \in Nat
    OBVIOUS
  <2>2. \A i \in 1..Len(Append(p, u)) : i \in 1..Len(p) \/ i = Len(p) + 1
    BY <2>1
  <2>3. \A i \in 1..Len(p) : p[i] < u
    BY <1>5 DEF Ordered
  <2>4. \A i, j \in 1..Len(Append(p, u)) : i < j => Append(p, u)[i] < Append(p, u)[j]
    <3> SUFFICES ASSUME NEW i \in 1..Len(Append(p, u)), NEW j \in 1..Len(Append(p, u)), i < j
                 PROVE  Append(p, u)[i] < Append(p, u)[j]
      OBVIOUS
    <3>1. i \in 1..Len(p)
      BY <2>1
    <3>2. CASE j \in 1..Len(p)
      BY <1>5, <2>1, <3>1, <3>2 DEF Ordered
    <3>3. CASE j = Len(p) + 1
      BY <2>1, <2>3, <3>1, <3>3
    <3> QED
      BY <2>2, <3>2, <3>3
  <2>5. \A i \in 1..Len(Append(p, u)) :
           /\ a <= Append(p, u)[i] /\ Append(p, u)[i] < u + 1
           /\ g # <<>> => g[Len(g)] < Append(p, u)[i]
    <3> SUFFICES ASSUME NEW i \in 1..Len(Append(p, u))
                 PROVE  /\ a <= Append(p, u)[i] /\ Append(p, u)[i] < u + 1
                        /\ g # <<>> => g[Len(g)] < Append(p, u)[i]
      OBVIOUS
    <3>1. CASE i \in 1..Len(p)
      BY <1>5, <2>1, <2>3, <3>1 DEF Ordered
    <3>2. CASE i = Len(p) + 1
      BY <1>2, <2>1, <3>2
    <3> QED
      BY <2>2, <3>1, <3>2
  <2>6. g # <<>> => g[Len(g)] < u + 1
    BY <1>2
  <2>7. \A i \in 1..Len(Append(p, u)) : g # <<>> => g[Len(g)] < Append(p, u)[i]
    BY <2>5
  <2>8. \A i \in 1..Len(Append(p, u)) : a <= Append(p, u)[i] /\ Append(p, u)[i] < u + 1
    BY <2>5
  <2> HIDE <2>5
  <2> QED
    BY <2>4, <2>6, <2>7, <2>8, ZenonT(30) DEF Ordered
<1>6. Ordered(g, Append(q, u), a, u + 1)
  BY <1>5
<1>7. ASSUME q # <<>> PROVE Ordered(g, Tail(q), a, u)
  <2>1. Len(Tail(q)) = Len(q) - 1 /\ \A i \in 1..Len(Tail(q)) : Tail(q)[i] = q[i + 1]
    BY <1>7
  <2>2. \A i \in 1..Len(Tail(q)) : i + 1 \in 1..Len(q)
    BY <1>7, <2>1
  <2>3. \A i, j \in 1..Len(Tail(q)) : i < j => Tail(q)[i] < Tail(q)[j]
    BY <2>1, <2>2 DEF Ordered
  <2>4. \A i \in 1..Len(Tail(q)) : /\ a <= Tail(q)[i] /\ Tail(q)[i] < u
                                   /\ g # <<>> => g[Len(g)] < Tail(q)[i]
    BY <2>1, <2>2 DEF Ordered
  <2> QED
    BY <2>3, <2>4 DEF Ordered
<1>8. ASSUME q # <<>> PROVE Ordered(g, Append(Tail(q), u), a, u + 1)
  <2>1. Tail(q) \in Seq(Nat)
    BY <1>8
  <2> QED
    BY <1>5, <1>7, <1>8, <2>1
<1> QED
  BY <1>3, <1>4, <1>6, <1>8

\* Sequences of frames, and what taking the first leaves.
LEMMA FrameSequences ==
  ASSUME NEW q \in Seq(Frames)
  PROVE  /\ q \in Seq(Nat) /\ Len(q) \in Nat
         /\ q # <<>> => /\ Head(q) \in Frames /\ Tail(q) \in Seq(Frames)
                        /\ Len(Tail(q)) = Len(q) - 1 /\ Len(q) > 0
         /\ \A f \in Frames : Append(q, f) \in Seq(Frames) /\ Len(Append(q, f)) = Len(q) + 1
         /\ \A f \in Frames : q # <<>> => /\ Append(Tail(q), f) \in Seq(Frames)
                                          /\ Len(Append(Tail(q), f)) = Len(q)
  BY StreamAssumption DEF Frames

\* notify() of the handles S keeps the types.
LEMMA NotifiedTypes ==
  ASSUME BusTypeOK, NEW S \in SUBSET Subscribers,
         NEW q \in [Subscribers -> Seq(Frames)], NEW c \in [Subscribers -> BOOLEAN],
         Notified(S, q, c)
  PROVE  /\ notify' \in [Subscribers -> Readers \cup {NoReader}]
         /\ queue' \in [Subscribers -> Seq(Frames)]
         /\ given' \in [Subscribers -> Seq(Frames)]
         /\ reader' \in [Readers -> Answers]
         /\ closed' = c
<1> DEFINE answers == {s \in S : notify[s] # NoReader}
           frame(s) == s \notin finished /\ q[s] # <<>>
<1>1. notify' = [s \in Subscribers |-> IF s \in answers THEN NoReader ELSE notify[s]]
  BY DEF Notified
<1>2. queue' = [s \in Subscribers |-> IF s \in answers /\ frame(s) THEN Tail(q[s]) ELSE q[s]]
  BY DEF Notified
<1>3. given' = [s \in Subscribers |-> IF s \in answers /\ frame(s)
                                      THEN Append(given[s], Head(q[s])) ELSE given[s]]
  BY DEF Notified
<1>4. notify' \in [Subscribers -> Readers \cup {NoReader}]
  BY <1>1 DEF BusTypeOK
<1>5. given \in [Subscribers -> Seq(Frames)]
  BY DEF BusTypeOK, Frames
<1>6. \A s \in Subscribers : frame(s) =>
         Tail(q[s]) \in Seq(Frames) /\ Append(given[s], Head(q[s])) \in Seq(Frames)
  BY <1>5, FrameSequences
<1>7. queue' \in [Subscribers -> Seq(Frames)] /\ given' \in [Subscribers -> Seq(Frames)]
  BY <1>2, <1>3, <1>5, <1>6
<1>8. reader' \in [Readers -> Answers]
  BY StreamAssumption DEF Notified, BusTypeOK, Answers
<1>9. closed' = c
  BY DEF Notified
<1> QED
  BY <1>4, <1>7, <1>8, <1>9

\* A handle that is notified gives the first of its queue, or nothing.
LEMMA NotifiedGives ==
  ASSUME BusTypeOK, NEW S \in SUBSET Subscribers, NEW q \in [Subscribers -> Seq(Frames)],
         NEW c \in [Subscribers -> BOOLEAN], Notified(S, q, c), NEW s \in Subscribers
  PROVE  /\ s \in S => notify'[s] = NoReader
         /\ s \notin S => notify'[s] = notify[s]
         /\ \/ queue'[s] = q[s] /\ given'[s] = given[s]
            \/ /\ q[s] # <<>> /\ s \in S /\ notify[s] # NoReader /\ s \notin finished
               /\ queue'[s] = Tail(q[s]) /\ given'[s] = Append(given[s], Head(q[s]))
  BY DEF Notified, BusTypeOK

\* A reader whose callback is called is answered when there is anything to tell.
LEMMA NotifiedReader ==
  ASSUME BusTypeOK, NEW S \in SUBSET Subscribers, NEW q \in [Subscribers -> Seq(Frames)],
         NEW c \in [Subscribers -> BOOLEAN], Notified(S, q, c), NEW r \in Readers
  PROVE  \/ reader'[r] \in {"frame", "end"}
         \/ /\ reader'[r] = reader[r]
            /\ (HandleOf[r] \in S /\ notify[HandleOf[r]] = r) =>
                  q[HandleOf[r]] = <<>> /\ ~c[HandleOf[r]] /\ HandleOf[r] \notin finished
<1>1. HandleOf[r] \in Subscribers /\ r # NoReader
  BY StreamAssumption
<1> QED
  BY <1>1 DEF Notified, BusTypeOK

\* A step gives handle s nothing, or a newer frame of the numbers before u.
Gives(s, u) ==
    \/ given'[s] = given[s]
    \/ \E f \in joined[s]..(u - 1) :
          /\ given[s] = <<>> \/ given[s][Len(given[s])] < f
          /\ given'[s] = Append(given[s], f)

\* notify() keeps queues in order.
LEMMA NotifiedOrder ==
  ASSUME BusTypeOK, NEW S \in SUBSET Subscribers,
         NEW q \in [Subscribers -> Seq(Frames)], NEW c \in [Subscribers -> BOOLEAN],
         Notified(S, q, c),
         NEW s \in Subscribers, NEW u \in Nat, Ordered(given[s], q[s], joined[s], u)
  PROVE  Ordered(given'[s], queue'[s], joined[s], u) /\ Gives(s, u)
<1>1. \/ queue'[s] = q[s] /\ given'[s] = given[s]
      \/ /\ q[s] # <<>>
         /\ queue'[s] = Tail(q[s]) /\ given'[s] = Append(given[s], Head(q[s]))
  BY NotifiedGives
<1>2. given[s] \in Seq(Nat) /\ q[s] \in Seq(Nat) /\ joined[s] \in Nat
  BY FrameSequences, StreamAssumption DEF BusTypeOK, Frames
<1>3. CASE queue'[s] = q[s] /\ given'[s] = given[s]
  BY <1>3 DEF Gives
<1>4. CASE /\ q[s] # <<>>
           /\ queue'[s] = Tail(q[s]) /\ given'[s] = Append(given[s], Head(q[s]))
  BY <1>2, <1>4, GivingFirst DEF Gives
<1> QED
  BY <1>1, <1>3, <1>4

\* A step that gives frames before u, and keeps left' at u or beyond, is a step
\* of the feed.
LEMMA FeedStep ==
  ASSUME BusTypeOK, BusTypeOK', published' \in {published, published + 1},
         \A s \in Subscribers :
            /\ joined'[s] = joined[s] \/ (given[s] = <<>> /\ joined'[s] = published)
            /\ left'[s] = left[s] \/ (left[s] = MaxFrames /\ left'[s] = published)
            /\ \/ given'[s] = given[s]
               \/ \E u \in Nat : Gives(s, u) /\ u <= left'[s] /\ u <= published'
  PROVE  Feed!FeedNext
<1>1. ASSUME NEW s \in Subscribers PROVE Feed!Observes(s)
  <2>1. CASE given'[s] = given[s]
    BY <2>1 DEF Feed!Observes
  <2>2. ASSUME NEW u \in Nat, Gives(s, u), u <= left'[s], u <= published'
        PROVE  Feed!Observes(s)
    <3>1. joined[s] \in Nat /\ left'[s] \in Nat /\ published' \in Nat
      BY StreamAssumption DEF BusTypeOK
    <3>2. \A f \in joined[s]..(u - 1) : f \in joined[s]..(left'[s] - 1) /\ f < published'
      BY <2>2, <3>1
    <3> QED
      BY <2>2, <3>2 DEF Gives, Feed!Observes, Feed!Newer
  <2> QED
    BY <2>1, <2>2
<1> QED
  BY <1>1 DEF Feed!FeedNext, Feed!Joins, Feed!Ends

\* publish() keeps the order of every queue, whatever it drops.
LEMMA PublishStep == ASSUME BusInv, Publish PROVE BusInv' /\ Feed!FeedNext
<1> DEFINE q == [s \in Subscribers |-> IF s \in attached THEN Offered(s, published) ELSE queue[s]]
<1> USE DEF BusInv
<1>1. published \in Frames /\ published \in Nat /\ published' = published + 1
  BY StreamAssumption DEF Publish, BusTypeOK, Frames
<1>2. queue \in [Subscribers -> Seq(Frames)] /\ given \in [Subscribers -> Seq(Frames)]
  BY DEF BusTypeOK, Frames
<1>3. \A s \in attached : s \in Subscribers /\ (Len(queue[s]) >= size[s] => queue[s] # <<>>)
  BY <1>2 DEF Stages, Stage, BusTypeOK
<1>4. \A s \in attached : Offered(s, published) \in Seq(Frames)
  BY <1>1, <1>2, <1>3, FrameSequences DEF Offered, BusTypeOK
<1>5. q \in [Subscribers -> Seq(Frames)]
  BY <1>2, <1>4
<1>6. Notified(attached, q, closed) /\ attached \in SUBSET Subscribers
      /\ closed \in [Subscribers -> BOOLEAN]
  BY DEF Publish, BusTypeOK
<1>7. /\ UNCHANGED <<policy, size, attached, finished, ended, joined, left, displaced>>
      /\ dropped' = dropped + Cardinality({s \in attached : DropsAt(s)})
  BY DEF Publish
<1>8. dropped' \in Nat
  <2>1. IsFiniteSet({s \in attached : DropsAt(s)})
    BY StreamAssumption, FS_Subset DEF BusTypeOK
  <2> QED
    BY <1>7, <2>1, FS_CardinalityType DEF BusTypeOK
<1>9. BusTypeOK'
  <2>1. /\ notify' \in [Subscribers -> Readers \cup {NoReader}]
        /\ queue' \in [Subscribers -> Seq(Frames)]
        /\ given' \in [Subscribers -> Seq(Frames)]
        /\ reader' \in [Readers -> Answers]
        /\ closed' = closed
    BY <1>5, <1>6, NotifiedTypes
  <2>2. published' \in 0..MaxFrames
    BY <1>1, StreamAssumption DEF Frames
  <2> QED
    BY <1>7, <1>8, <2>1, <2>2 DEF BusTypeOK, Frames
<1>10. ASSUME NEW s \in Subscribers
       PROVE  /\ Until(s) \in Nat /\ Until(s)' \in Nat
              /\ Ordered(given[s], q[s], joined[s], Until(s)')
              /\ s \in attached => Until(s) = published /\ Until(s)' = published + 1
              /\ s \notin attached => Until(s)' = Until(s)
  <2>1. given[s] \in Seq(Nat) /\ queue[s] \in Seq(Nat) /\ joined[s] \in Nat /\ left[s] \in Nat
    BY <1>2, FrameSequences, StreamAssumption DEF BusTypeOK
  <2>2. CASE s \in attached
    <3>1. /\ Until(s) = published /\ Until(s)' = published + 1
          /\ Ordered(given[s], queue[s], joined[s], published)
      BY <1>1, <1>7, <2>2 DEF Until, InOrder
    <3>2. joined[s] <= published
      BY <2>2, <3>1 DEF Stages, Stage, BusTypeOK, BackpressurePolicies, None
    <3>3. \/ q[s] \in {<<published>>, Append(queue[s], published), queue[s]}
          \/ queue[s] # <<>> /\ q[s] = Append(Tail(queue[s]), published)
      BY <1>3, <2>2 DEF Offered, BusTypeOK
    <3>4. Ordered(given[s], q[s], joined[s], published + 1)
      <4> HIDE DEF q
      <4> QED
        BY <1>1, <2>1, <3>1, <3>2, <3>3, OfferingNext
    <3> QED
      BY <1>1, <2>2, <3>1, <3>4
  <2>3. CASE s \notin attached
    BY <1>7, <2>1, <2>3 DEF Until, InOrder
  <2> QED
    BY <2>2, <2>3
<1>11. \A s \in Subscribers : Ordered(given'[s], queue'[s], joined[s], Until(s)') /\ Gives(s, Until(s)')
  BY <1>5, <1>6, <1>10, NotifiedOrder
<1>12. InOrder'
  BY <1>7, <1>11 DEF InOrder
<1>13. Stages'
  <2> SUFFICES ASSUME NEW s \in Subscribers PROVE Stage(s)'
    BY DEF Stages
  <2>1. /\ policy'[s] = policy[s] /\ attached' = attached /\ finished' = finished
        /\ left' = left /\ size' = size /\ joined' = joined /\ closed' = closed
    BY <1>6, <1>7, NotifiedTypes, <1>5
  <2>2. CASE s \in attached
    BY <1>1, <1>10, <2>1, <2>2 DEF Stages, Stage, BusTypeOK
  <2>3. CASE s \notin attached
    <3>1. queue'[s] = queue[s] /\ given'[s] = given[s] /\ notify'[s] = notify[s]
      BY <1>5, <1>6, <2>3, NotifiedGives
    <3> QED
      BY <1>1, <1>10, <2>1, <2>3, <3>1 DEF Stages, Stage, BusTypeOK
  <2> QED
    BY <2>2, <2>3
<1>14. Feed!FeedNext
  <2>1. ASSUME NEW s \in Subscribers
        PROVE  \/ given'[s] = given[s]
               \/ Gives(s, Until(s)') /\ Until(s)' <= left'[s] /\ Until(s)' <= published'
    <3>1. CASE s \in attached
      <4>1. left'[s] = MaxFrames /\ MaxFrames \in Nat
        BY <1>7, <3>1, StreamAssumption DEF Stages, Stage
      <4> QED
        BY <1>1, <1>10, <1>11, <3>1, <4>1 DEF Frames
    <3>2. CASE s \notin attached
      BY <1>5, <1>6, <3>2, NotifiedGives
    <3> QED
      BY <3>1, <3>2
  <2> QED
    BY <1>1, <1>7, <1>9, <1>10, <2>1, FeedStep DEF BusTypeOK
<1> QED
  BY <1>9, <1>12, <1>13, <1>14

\* Handles that leave the stream, by close() or closeStream(), end where they
\* are; a reader that waits on one of them is answered.
LEMMA LeavingStep ==
  ASSUME BusInv, NEW S \in SUBSET Subscribers, \A s \in S : policy[s] # None,
         Notified(S, queue, [s \in Subscribers |-> closed[s] \/ s \in S]),
         attached' = attached \ S,
         left' = [s \in Subscribers |-> IF s \in attached \cap S THEN published ELSE left[s]],
         finished' \in SUBSET (finished \cup S), ended' \in SUBSET Subscribers,
         UNCHANGED <<published, dropped, policy, size, joined, displaced>>
  PROVE  BusInv' /\ Feed!FeedNext
<1> DEFINE c == [s \in Subscribers |-> closed[s] \/ s \in S]
<1> USE DEF BusInv
<1>1. /\ queue \in [Subscribers -> Seq(Frames)] /\ c \in [Subscribers -> BOOLEAN]
      /\ Notified(S, queue, c)
  BY DEF BusTypeOK, Frames
<1>2. /\ notify' \in [Subscribers -> Readers \cup {NoReader}]
      /\ queue' \in [Subscribers -> Seq(Frames)]
      /\ given' \in [Subscribers -> Seq(Frames)]
      /\ reader' \in [Readers -> Answers]
      /\ closed' = c
  <2> HIDE DEF c
  <2> QED
    BY <1>1, NotifiedTypes
<1>3. left' \in [Subscribers -> 0..MaxFrames]
  BY DEF BusTypeOK
<1>4. BusTypeOK'
  BY <1>1, <1>2, <1>3 DEF BusTypeOK, Frames
<1>5. ASSUME NEW s \in Subscribers
      PROVE  Until(s)' = Until(s) /\ Until(s) \in Nat
  <2>1. CASE s \in attached
    BY <2>1, StreamAssumption DEF Until, BusTypeOK
  <2>2. CASE s \notin attached
    BY <2>2, StreamAssumption DEF Until, BusTypeOK
  <2> QED
    BY <2>1, <2>2
<1>6. ASSUME NEW s \in Subscribers
      PROVE  /\ Ordered(given'[s], queue'[s], joined[s], Until(s)) /\ Gives(s, Until(s))
             /\ s \notin S => queue'[s] = queue[s] /\ given'[s] = given[s] /\ notify'[s] = notify[s]
  <2>1. Ordered(given[s], queue[s], joined[s], Until(s))
    BY DEF InOrder
  <2> HIDE DEF c, BusInv
  <2>2. BusTypeOK
    BY DEF BusInv
  <2>3. Ordered(given'[s], queue'[s], joined[s], Until(s)) /\ Gives(s, Until(s))
    BY <1>1, <1>5, <2>1, <2>2, NotifiedOrder
  <2>4. s \notin S => queue'[s] = queue[s] /\ given'[s] = given[s] /\ notify'[s] = notify[s]
    BY <1>1, <2>2, NotifiedGives
  <2> QED
    BY <2>3, <2>4
<1>7. InOrder'
  <2> SUFFICES ASSUME NEW s \in Subscribers
               PROVE  Ordered(given'[s], queue'[s], joined'[s], Until(s)')
    BY DEF InOrder
  <2> QED
    BY <1>5, <1>6
<1>8. Stages'
  <2> SUFFICES ASSUME NEW s \in Subscribers PROVE Stage(s)'
    BY DEF Stages
  <2>1. Stage(s)
    BY DEF Stages
  <2>2. closed'[s] = (closed[s] \/ s \in S)
    BY <1>2
  <2>3. CASE s \in S
    BY <1>5, <2>1, <2>2, <2>3 DEF Stage
  <2>4. CASE s \notin S
    BY <1>5, <1>6, <2>1, <2>2, <2>4 DEF Stage, BusTypeOK
  <2> QED
    BY <2>3, <2>4
<1>9. ASSUME NEW s \in Subscribers
      PROVE  /\ left'[s] = left[s] \/ (left[s] = MaxFrames /\ left'[s] = published)
             /\ \/ given'[s] = given[s]
                \/ Gives(s, Until(s)) /\ Until(s) <= left'[s] /\ Until(s) <= published'
  <2>1. Stage(s)
    BY DEF Stages
  <2>2. CASE s \notin S
    BY <1>6, <2>2 DEF BusTypeOK
  <2>3. CASE s \in S /\ s \in attached
    BY <1>6, <2>1, <2>3, StreamAssumption DEF Until, Stage, BusTypeOK
  <2>4. CASE s \in S /\ s \notin attached
    BY <1>6, <2>1, <2>4, StreamAssumption DEF Until, Stage, BusTypeOK
  <2> QED
    BY <2>2, <2>3, <2>4
<1>10. Feed!FeedNext
  BY <1>4, <1>5, <1>9, FeedStep DEF BusTypeOK
<1> QED
  BY <1>4, <1>7, <1>8, <1>10

\* close() of any handles.
LEMMA CloseStep ==
  ASSUME BusInv, NEW S \in SUBSET Subscribers, Close(S)
  PROVE  BusInv' /\ Feed!FeedNext
<1>1. finished' \in SUBSET (finished \cup S) /\ ended' \in SUBSET Subscribers
  BY DEF Close, Finish, BusInv, BusTypeOK
<1> QED
  BY <1>1, LeavingStep DEF Close, Finish

\* closeStream() takes all of them, and finishes those whose readers it answers.
LEMMA CloseStreamStep == ASSUME BusInv, CloseStream PROVE BusInv' /\ Feed!FeedNext
<1>1. /\ attached \in SUBSET Subscribers /\ attached' = attached \ attached
      /\ attached \cap attached = attached
      /\ finished' \in SUBSET (finished \cup attached) /\ ended' \in SUBSET Subscribers
  BY DEF CloseStream, BusInv, BusTypeOK
<1>2. \A s \in attached : policy[s] # None
  BY DEF BusInv, BusTypeOK, Stages, Stage
<1> QED
  BY <1>1, <1>2, LeavingStep DEF CloseStream

\* subscribe() starts a handle with no frame, from here on.
LEMMA SubscribeStep ==
  ASSUME BusInv, NEW s \in Subscribers, NEW p \in BackpressurePolicies, NEW n \in Nat \ {0},
         Subscribe(s, p, n)
  PROVE  BusInv' /\ Feed!FeedNext
<1> USE DEF BusInv
<1>1. /\ policy[s] = None /\ p # None /\ Stage(s)
      /\ UNCHANGED <<published, dropped, queue, closed, notify, finished, ended, reader, left,
                     given, displaced>>
      /\ attached' = attached \cup {s}
      /\ policy'[s] = p /\ size'[s] = n /\ joined'[s] = published
      /\ \A t \in Subscribers \ {s} :
            policy'[t] = policy[t] /\ size'[t] = size[t] /\ joined'[t] = joined[t]
  BY DEF Subscribe, Stages, BusTypeOK, BackpressurePolicies, None
<1>2. BusTypeOK'
  BY DEF Subscribe, BusTypeOK
<1>3. queue[s] = <<>> /\ given[s] = <<>> /\ left[s] = MaxFrames /\ ~closed[s] /\ s \notin finished
  BY <1>1 DEF Stage
<1>4. published \in Nat /\ \A t \in Subscribers \ {s} : Until(t)' = Until(t)
  BY <1>1, StreamAssumption DEF Until, BusTypeOK
<1>5. Until(s)' = published
  BY <1>1 DEF Until
<1>6. Stages'
  <2> SUFFICES ASSUME NEW t \in Subscribers PROVE Stage(t)'
    BY DEF Stages
  <2>1. CASE t = s
    BY <1>1, <1>3, <1>4, <1>5, <2>1 DEF Stage
  <2>2. CASE t # s
    BY <1>1, <1>4, <2>2 DEF Stages, Stage
  <2> QED
    BY <2>1, <2>2
<1>7. InOrder'
  <2> SUFFICES ASSUME NEW t \in Subscribers
               PROVE  Ordered(given'[t], queue'[t], joined'[t], Until(t)')
    BY DEF InOrder
  <2>1. CASE t = s
    <3>1. Len(queue'[t]) = 0 /\ given'[t] = <<>>
      BY <1>1, <1>3, <2>1
    <3> QED
      BY <3>1 DEF Ordered
  <2>2. CASE t # s
    BY <1>1, <1>4, <2>2 DEF InOrder
  <2> QED
    BY <2>1, <2>2
<1>8. Feed!FeedNext
  <2>1. ASSUME NEW t \in Subscribers
        PROVE  joined'[t] = joined[t] \/ (given[t] = <<>> /\ joined'[t] = published)
    BY <1>1, <1>3
  <2> QED
    BY <1>1, <1>2, <2>1, FeedStep
<1> QED
  BY <1>2, <1>6, <1>7, <1>8

\* A reader that goes on changes nothing of the handle.
LEMMA TakeStep ==
  ASSUME BusInv, NEW r \in Readers, Take(r)
  PROVE  BusInv' /\ Feed!FeedNext
<1> USE DEF BusInv
<1>1. BusTypeOK'
  BY DEF Take, BusTypeOK, Answers
<1>2. UNCHANGED <<published, dropped, policy, size, queue, closed, notify, attached, finished,
                  ended, joined, left, given, displaced>>
  BY DEF Take
<1>3. Stages' /\ InOrder'
  BY <1>2 DEF Stages, Stage, InOrder, Until
<1>4. Feed!FeedNext
  BY <1>1, <1>2, FeedStep
<1> QED
  BY <1>1, <1>3, <1>4

\* next() gives the oldest queued frame, or the end, or leaves a callback.
LEMMA Next1Step ==
  ASSUME BusInv, NEW r \in Readers, Next1(r)
  PROVE  BusInv' /\ Feed!FeedNext
<1> DEFINE s == HandleOf[r]
<1> USE DEF BusInv
<1>1. s \in Subscribers /\ policy[s] # None /\ Stage(s)
      /\ UNCHANGED <<published, dropped, policy, size, closed, joined>>
  BY StreamAssumption DEF Next1, Stages
<1>2. /\ queue \in [Subscribers -> Seq(Frames)] /\ given \in [Subscribers -> Seq(Frames)]
      /\ joined \in [Subscribers -> Nat] /\ published \in Nat
  BY StreamAssumption DEF BusTypeOK, Frames
<1>3. Until(s) \in Nat /\ Until(s) <= published /\ Until(s) <= left[s]
  BY <1>1, StreamAssumption DEF Stage, Until, BusTypeOK
<1>4. CASE /\ s \notin finished /\ queue[s] # <<>>
           /\ reader' = [reader EXCEPT ![r] = "frame"]
           /\ given' = [given EXCEPT ![s] = Append(@, Head(queue[s]))]
           /\ queue' = [queue EXCEPT ![s] = Tail(@)]
           /\ UNCHANGED <<notify, attached, finished, ended, left, displaced>>
  <2>1. given'[s] = Append(given[s], Head(queue[s])) /\ queue'[s] = Tail(queue[s])
        /\ \A t \in Subscribers \ {s} : given'[t] = given[t] /\ queue'[t] = queue[t]
    BY <1>1, <1>2, <1>4
  <2>2. queue' \in [Subscribers -> Seq(Frames)] /\ given' \in [Subscribers -> Seq(Frames)]
    BY <1>1, <1>2, <1>4, FrameSequences
  <2>3. BusTypeOK'
    BY <1>1, <1>4, <2>2 DEF BusTypeOK, Frames, Answers
  <2>4. \A t \in Subscribers : Until(t)' = Until(t)
    BY <1>1, <1>4 DEF Until
  <2>5. Ordered(given'[s], queue'[s], joined[s], Until(s)) /\ Gives(s, Until(s))
    <3>1. Ordered(given[s], queue[s], joined[s], Until(s))
      BY <1>1 DEF InOrder
    <3>2. given[s] \in Seq(Nat) /\ queue[s] \in Seq(Nat) /\ joined[s] \in Nat
      BY <1>1, <1>2, FrameSequences
    <3>3. queue[s] # <<>>
      BY <1>4
    <3> HIDE DEF BusInv, s
    <3>4. /\ Ordered(Append(given[s], Head(queue[s])), Tail(queue[s]), joined[s], Until(s))
          /\ Head(queue[s]) \in joined[s]..(Until(s) - 1)
          /\ given[s] # <<>> => given[s][Len(given[s])] < Head(queue[s])
      BY <1>3, <3>1, <3>2, <3>3, GivingFirst
    <3> QED
      BY <2>1, <3>4 DEF Gives
  <2>6. InOrder'
    <3> SUFFICES ASSUME NEW t \in Subscribers
                 PROVE  Ordered(given'[t], queue'[t], joined'[t], Until(t)')
      BY DEF InOrder
    <3> QED
      BY <1>1, <2>1, <2>4, <2>5 DEF InOrder
  <2>7. Stages'
    <3> SUFFICES ASSUME NEW t \in Subscribers PROVE Stage(t)'
      BY DEF Stages
    <3> QED
      BY <1>1, <1>4, <2>1, <2>4 DEF Stages, Stage
  <2>8. Feed!FeedNext
    <3>1. ASSUME NEW t \in Subscribers
          PROVE  \/ given'[t] = given[t]
                 \/ \E u \in Nat : Gives(t, u) /\ u <= left'[t] /\ u <= published'
      BY <1>1, <1>3, <1>4, <2>1, <2>5
    <3> QED
      BY <1>1, <1>4, <2>3, <3>1, FeedStep
  <2> QED
    BY <2>3, <2>6, <2>7, <2>8
<1>5. CASE /\ s \in finished \/ (queue[s] = <<>> /\ closed[s])
           /\ reader' = [reader EXCEPT ![r] = "end"]
           /\ UNCHANGED <<notify, given, queue, displaced, attached, left>>
           /\ finished' \in SUBSET (finished \cup {s}) /\ ended' \in SUBSET (ended \cup {s})
           /\ s \notin attached
  <2>1. BusTypeOK'
    BY <1>1, <1>5 DEF BusTypeOK, Answers
  <2>2. \A t \in Subscribers : Until(t)' = Until(t)
    BY <1>1, <1>5 DEF Until
  <2>3. InOrder'
    BY <1>1, <1>5, <2>2 DEF InOrder
  <2>4. Stages'
    BY <1>1, <1>5, <2>2 DEF Stages, Stage
  <2>5. Feed!FeedNext
    BY <1>1, <1>5, <2>1, FeedStep
  <2> QED
    BY <2>1, <2>3, <2>4, <2>5
<1>6. CASE /\ s \notin finished /\ queue[s] = <<>> /\ ~closed[s]
           /\ reader' = [reader EXCEPT ![r] = "pending"]
           /\ notify' = [notify EXCEPT ![s] = r]
           /\ displaced' = displaced \cup ({notify[s]} \ {NoReader})
           /\ UNCHANGED <<given, queue, attached, finished, ended, left>>
  <2>1. BusTypeOK'
    BY <1>1, <1>6 DEF BusTypeOK, Answers
  <2>2. \A t \in Subscribers : Until(t)' = Until(t)
    BY <1>1, <1>6 DEF Until
  <2>3. InOrder'
    BY <1>1, <1>6, <2>2 DEF InOrder
  <2>4. Stages'
    BY <1>1, <1>6, <2>2 DEF Stages, Stage, BusTypeOK
  <2>5. Feed!FeedNext
    BY <1>1, <1>6, <2>1, FeedStep
  <2> QED
    BY <2>1, <2>3, <2>4, <2>5
<1>7. ASSUME s \notin finished, queue[s] = <<>>, closed[s],
             reader' = [reader EXCEPT ![r] = "end"], Finish({s}),
             UNCHANGED <<notify, given, queue, displaced>>
      PROVE  BusInv' /\ Feed!FeedNext
  <2>1. s \notin attached
    BY <1>1, <1>7 DEF Stage
  <2>2. attached' = attached
    BY <1>7, <2>1 DEF Finish
  <2>3. left' = left
    BY <1>7, <2>1 DEF Finish, BusTypeOK
  <2>4. finished' \in SUBSET (finished \cup {s}) /\ ended' \in SUBSET (ended \cup {s})
    BY <1>7 DEF Finish
  <2> QED
    BY <1>5, <1>7, <2>1, <2>2, <2>3, <2>4
<1>8. ASSUME s \in finished, reader' = [reader EXCEPT ![r] = "end"],
             UNCHANGED <<notify, given, queue, attached, finished, ended, left, displaced>>
      PROVE  BusInv' /\ Feed!FeedNext
  <2>1. s \notin attached
    BY <1>1, <1>8 DEF Stage
  <2> QED
    BY <1>5, <1>8, <2>1
<1> HIDE DEF BusInv
<1> QED
  BY <1>4, <1>6, <1>7, <1>8 DEF Next1

\* Every step of the bus keeps the invariant and is a step of the feed.
LEMMA BusActionStep == BusInv /\ BusAction => BusInv' /\ Feed!FeedNext
<1> SUFFICES ASSUME BusInv, BusAction PROVE BusInv' /\ Feed!FeedNext
  OBVIOUS
<1>1. CASE Publish
  BY <1>1, PublishStep
<1>2. CASE CloseStream
  BY <1>2, CloseStreamStep
<1>3. ASSUME NEW s \in Subscribers, NEW p \in BackpressurePolicies, NEW n \in Nat \ {0},
             Subscribe(s, p, n)
      PROVE  BusInv' /\ Feed!FeedNext
  BY <1>3, SubscribeStep
<1>4. ASSUME NEW S \in SUBSET Subscribers, Close(S) PROVE BusInv' /\ Feed!FeedNext
  BY <1>4, CloseStep
<1>5. ASSUME NEW r \in Readers, Next1(r) \/ Take(r) PROVE BusInv' /\ Feed!FeedNext
  BY <1>5, Next1Step, TakeStep
<1> QED
  BY <1>1, <1>2, <1>3, <1>4, <1>5 DEF BusAction

\* Nothing is subscribed to at first.
LEMMA BusInitInv == BusInit => BusInv
<1> SUFFICES ASSUME BusInit PROVE BusInv
  OBVIOUS
<1>1. /\ <<>> \in Seq(Frames) /\ Len(<<>>) = 0
      /\ 0 \in 0..MaxFrames /\ MaxFrames \in 0..MaxFrames
  BY StreamAssumption DEF Frames
<1>2. BusTypeOK
  BY <1>1, StreamAssumption DEF BusInit, BusTypeOK, Answers, Frames
<1>3. Stages
  BY DEF BusInit, Stages, Stage
<1>4. InOrder
  BY <1>1 DEF BusInit, InOrder, Ordered
<1> QED
  BY <1>2, <1>3, <1>4 DEF BusInv

\* The bus invariant holds throughout, whatever sockets and others do.
LEMMA BusInvariant == SocketSpec => []BusInv
<1>1. SocketInit => BusInv
  BY BusInitInv DEF SocketInit
<1>2. BusInv /\ [SocketNext]_allVars => BusInv'
  <2> SUFFICES ASSUME BusInv, [SocketNext]_allVars PROVE BusInv'
    OBVIOUS
  <2>1. CASE BusAction
    BY <2>1, BusActionStep
  <2>2. CASE UNCHANGED busVars
    BY <2>2 DEF busVars, BusInv, BusTypeOK, Stages, Stage, InOrder, Until
  <2> QED
    BY <2>1, <2>2, SocketStepsBus
<1> QED
  BY <1>1, <1>2, PTL DEF SocketSpec

\* StreamBus gives each subscriber a feed: frames it was there for, in their
\* order, none twice, and after it left none from then on.
THEOREM BusImplementsFeed == SocketSpec => FeedSpec
<1>1. SocketInit => Feed!FeedInit
  BY DEF SocketInit, BusInit, Feed!FeedInit
<1>2. BusInv /\ [SocketNext]_allVars => [Feed!FeedNext]_Feed!feedVars
  <2> SUFFICES ASSUME BusInv, [SocketNext]_allVars
               PROVE  [Feed!FeedNext]_Feed!feedVars
    OBVIOUS
  <2>1. CASE BusAction
    BY <2>1, BusActionStep
  <2>2. CASE UNCHANGED busVars
    BY <2>2 DEF busVars, Feed!feedVars
  <2> QED
    BY <2>1, <2>2, SocketStepsBus
<1> QED
  BY <1>1, <1>2, BusInvariant, PTL DEF SocketSpec, FeedSpec, Feed!FeedSpec

-----------------------------------------------------------------------------
\* Whoever waits is answered or goes on waiting for good reason.
LEMMA WaitingStep ==
  BusInv /\ WaitingReaderIsNotified /\ BusAction => WaitingReaderIsNotified'
<1> SUFFICES ASSUME BusInv, WaitingReaderIsNotified, BusAction,
                    NEW x \in Readers, reader'[x] = "pending", x \notin displaced'
             PROVE  LET s == HandleOf[x] IN
                    /\ notify'[s] = x /\ queue'[s] = <<>>
                    /\ ~closed'[s] /\ s \in attached'
  BY DEF WaitingReaderIsNotified
<1> DEFINE h == HandleOf[x]
<1>1. h \in Subscribers /\ x # NoReader /\ BusTypeOK /\ Stage(h)
  BY StreamAssumption DEF BusInv, Stages
<1>2. reader[x] = "pending" /\ x \notin displaced
         => notify[h] = x /\ queue[h] = <<>> /\ ~closed[h] /\ h \in attached
  BY DEF WaitingReaderIsNotified
<1>3. /\ queue \in [Subscribers -> Seq(Frames)] /\ closed \in [Subscribers -> BOOLEAN]
      /\ attached \in SUBSET Subscribers
  BY <1>1 DEF BusTypeOK, Frames
<1>4. CASE Publish
  <2> DEFINE q == [s \in Subscribers |-> IF s \in attached THEN Offered(s, published) ELSE queue[s]]
  <2>1. q \in [Subscribers -> Seq(Frames)]
    <3>1. published \in Frames
      BY <1>1, <1>4, StreamAssumption DEF Publish, BusTypeOK, Frames
    <3>2. \A s \in attached : queue[s] \in Seq(Frames) /\ (Len(queue[s]) >= size[s] => queue[s] # <<>>)
      BY <1>1, <1>3 DEF BusInv, Stages, Stage, BusTypeOK
    <3>3. \A s \in attached : Offered(s, published) \in Seq(Frames)
      BY <1>1, <3>1, <3>2, FrameSequences DEF Offered, BusTypeOK
    <3> QED
      BY <1>3, <3>3
  <2>2. Notified(attached, q, closed) /\ displaced' = displaced
    BY <1>4 DEF Publish
  <2>3. h \in attached => q[h] # <<>>
    <3>1. h \in attached => queue[h] \in Seq(Frames) /\ size[h] > 0 /\ size[h] \in Nat
      BY <1>1, <1>3 DEF Stage, BusTypeOK
    <3> QED
      BY <1>1, <3>1 DEF Offered
  <2>4. \/ reader'[x] \in {"frame", "end"}
        \/ /\ reader'[x] = reader[x]
           /\ (h \in attached /\ notify[h] = x) => q[h] = <<>>
    <3>1. BusTypeOK /\ Notified(attached, q, closed)
      BY <1>1, <2>2
    <3>2. attached \in SUBSET Subscribers /\ closed \in [Subscribers -> BOOLEAN]
      BY <1>3
    <3> QED
      BY <2>1, <3>1, <3>2, NotifiedReader
  <2> QED
    BY <1>2, <2>2, <2>3, <2>4
<1>5. ASSUME NEW S \in SUBSET Subscribers,
             Notified(S, queue, [s \in Subscribers |-> closed[s] \/ s \in S]),
             attached' = attached \ S, displaced' = displaced
      PROVE  notify'[h] = x /\ queue'[h] = <<>> /\ ~closed'[h] /\ h \in attached'
  <2> DEFINE c == [s \in Subscribers |-> closed[s] \/ s \in S]
  <2>1. c \in [Subscribers -> BOOLEAN] /\ c[h] = (closed[h] \/ h \in S) /\ Notified(S, queue, c)
    BY <1>1, <1>3, <1>5
  <2> HIDE DEF c
  <2>2. \/ reader'[x] \in {"frame", "end"}
        \/ /\ reader'[x] = reader[x]
           /\ (h \in S /\ notify[h] = x) => ~c[h]
    BY <1>1, <1>3, <2>1, NotifiedReader
  <2>3. reader[x] = "pending" /\ h \notin S
    BY <1>2, <1>5, <2>1, <2>2
  <2>4. closed' = c
    BY <1>1, <1>3, <2>1, NotifiedTypes
  <2>5. notify'[h] = notify[h] /\ queue'[h] = queue[h]
    BY <1>1, <1>3, <2>1, <2>3, NotifiedGives
  <2> QED
    BY <1>2, <1>5, <2>1, <2>3, <2>4, <2>5
<1>6. CASE CloseStream
  BY <1>3, <1>5, <1>6 DEF CloseStream
<1>7. ASSUME NEW S \in SUBSET Subscribers, Close(S)
      PROVE  notify'[h] = x /\ queue'[h] = <<>> /\ ~closed'[h] /\ h \in attached'
  BY <1>5, <1>7 DEF Close, Finish
<1>8. ASSUME NEW s \in Subscribers, NEW p \in BackpressurePolicies, NEW n \in Nat \ {0},
             Subscribe(s, p, n)
      PROVE  notify'[h] = x /\ queue'[h] = <<>> /\ ~closed'[h] /\ h \in attached'
  BY <1>2, <1>8 DEF Subscribe
<1>9. ASSUME NEW r \in Readers, Take(r)
      PROVE  notify'[h] = x /\ queue'[h] = <<>> /\ ~closed'[h] /\ h \in attached'
  BY <1>1, <1>2, <1>9 DEF Take, BusTypeOK
<1>10. ASSUME NEW r \in Readers, Next1(r)
       PROVE  notify'[h] = x /\ queue'[h] = <<>> /\ ~closed'[h] /\ h \in attached'
  <2> DEFINE s == HandleOf[r]
  <2>1. s \in Subscribers /\ policy[s] # None /\ Stage(s) /\ closed' = closed
    BY <1>10, StreamAssumption DEF Next1, BusInv, Stages
  <2>2. CASE x = r
    <3>1. reader'[r] = "pending"
      BY <2>2
    <3>2. /\ queue[s] = <<>> /\ ~closed[s]
          /\ notify' = [notify EXCEPT ![s] = r]
          /\ UNCHANGED <<queue, attached>>
      BY <1>1, <1>10, <3>1 DEF Next1, BusTypeOK
    <3> QED
      BY <1>1, <2>1, <2>2, <3>2 DEF Stage, BusTypeOK
  <2>3. CASE x # r
    <3>1. reader'[x] = reader[x] /\ x \notin displaced
      BY <1>1, <1>10, <2>3 DEF Next1, BusTypeOK
    <3>2. notify[h] = x /\ queue[h] = <<>> /\ ~closed[h] /\ h \in attached
      BY <1>2, <3>1
    <3>3. CASE h = s
      BY <1>1, <1>10, <2>3, <3>2, <3>3 DEF Next1, Finish, Stage
    <3>4. CASE h # s
      BY <1>1, <1>10, <2>1, <3>2, <3>4 DEF Next1, Finish, BusTypeOK
    <3> QED
      BY <3>3, <3>4
  <2> QED
    BY <2>2, <2>3
<1> QED
  BY <1>4, <1>6, <1>7, <1>8, <1>9, <1>10 DEF BusAction

\* A promise of next() whose callback was not replaced is never left behind: it
\* is pending only while there is neither a frame for it nor the end.
THEOREM WaitersAreNotified == SocketSpec => []WaitingReaderIsNotified
<1>1. SocketInit => WaitingReaderIsNotified
  BY DEF SocketInit, BusInit, WaitingReaderIsNotified
<1>2. BusInv /\ WaitingReaderIsNotified /\ [SocketNext]_allVars => WaitingReaderIsNotified'
  <2> SUFFICES ASSUME BusInv, WaitingReaderIsNotified, [SocketNext]_allVars
               PROVE  WaitingReaderIsNotified'
    OBVIOUS
  <2>1. CASE BusAction
    BY <2>1, WaitingStep
  <2>2. CASE UNCHANGED busVars
    BY <2>2 DEF busVars, WaitingReaderIsNotified
  <2> QED
    BY <2>1, <2>2, SocketStepsBus
<1> QED
  BY <1>1, <1>2, BusInvariant, PTL DEF SocketSpec

\* A notified queue is as it was or one shorter, so it keeps its bound.
LEMMA NotifiedBound ==
  ASSUME BusTypeOK, NEW S \in SUBSET Subscribers, NEW q \in [Subscribers -> Seq(Frames)],
         NEW c \in [Subscribers -> BOOLEAN], Notified(S, q, c), NEW s \in Subscribers
  PROVE  /\ Len(queue'[s]) <= Len(q[s])
         /\ \A f \in Frames : q[s] \in {<<>>, <<f>>} => queue'[s] \in {<<>>, q[s]}
<1>1. queue'[s] = q[s] \/ (q[s] # <<>> /\ queue'[s] = Tail(q[s]))
  BY NotifiedGives
<1>2. q[s] \in Seq(Frames)
  OBVIOUS
<1>3. Len(q[s]) \in Nat /\ (q[s] # <<>> => Len(Tail(q[s])) = Len(q[s]) - 1)
  BY <1>2, FrameSequences
<1>4. \A f \in Frames : Tail(<<f>>) = <<>>
  OBVIOUS
<1> QED
  BY <1>1, <1>3, <1>4

\* One handle of BackpressureHolds.
Bounded(s) ==
    policy[s] # None => IF policy[s] = "latest-only"
                        THEN queue[s] \in {<<>>, <<Until(s) - 1>>}
                        ELSE Len(queue[s]) <= size[s]

\* A step after which the queue is what it was, or one shorter, keeps the bound.
LEMMA ShorterIsBounded ==
  ASSUME BusInv, NEW s \in Subscribers, Bounded(s),
         policy'[s] = policy[s], size'[s] = size[s], Until(s)' = Until(s),
         queue'[s] = queue[s] \/ (queue[s] # <<>> /\ queue'[s] = Tail(queue[s]))
  PROVE  Bounded(s)'
<1>1. queue[s] \in Seq(Frames) /\ size[s] \in Nat
  BY DEF BusInv, BusTypeOK, Frames
<1>2. queue[s] # <<>> => Len(Tail(queue[s])) = Len(queue[s]) - 1 /\ Len(queue[s]) \in Nat
  BY <1>1, FrameSequences
<1>3. \A f : Tail(<<f>>) = <<>>
  OBVIOUS
<1>4. CASE queue'[s] = queue[s]
  BY <1>4 DEF Bounded
<1>5. CASE queue[s] # <<>> /\ queue'[s] = Tail(queue[s])
  <2>1. CASE policy[s] = "latest-only"
    BY <1>3, <1>5, <2>1 DEF Bounded, None
  <2>2. CASE policy[s] # "latest-only"
    BY <1>1, <1>2, <1>5, <2>2 DEF Bounded
  <2> QED
    BY <2>1, <2>2
<1> QED
  BY <1>4, <1>5

\* The bound over every step of the bus.
LEMMA BackpressureStep == BusInv /\ BackpressureHolds /\ BusAction => BackpressureHolds'
<1> SUFFICES ASSUME BusInv, BackpressureHolds, BusAction, NEW s \in Subscribers
             PROVE  Bounded(s)'
  BY DEF BackpressureHolds, Bounded
<1>1. Bounded(s) /\ Stage(s) /\ BusTypeOK
  BY DEF BackpressureHolds, Bounded, BusInv, Stages
<1>2. /\ queue \in [Subscribers -> Seq(Frames)] /\ closed \in [Subscribers -> BOOLEAN]
      /\ attached \in SUBSET Subscribers /\ size[s] \in Nat /\ published \in Nat
  BY <1>1, StreamAssumption DEF BusTypeOK, Frames
<1>3. CASE Publish
  <2> DEFINE q == [t \in Subscribers |-> IF t \in attached THEN Offered(t, published) ELSE queue[t]]
  <2>1. published \in Frames /\ published' = published + 1
    BY <1>2, <1>3, StreamAssumption DEF Publish, BusTypeOK, Frames
  <2>2. q \in [Subscribers -> Seq(Frames)]
    <3>1. \A t \in attached : queue[t] \in Seq(Frames) /\ (Len(queue[t]) >= size[t] => queue[t] # <<>>)
      BY <1>1, <1>2 DEF BusInv, Stages, Stage, BusTypeOK
    <3>2. \A t \in attached : Offered(t, published) \in Seq(Frames)
      BY <1>1, <2>1, <3>1, FrameSequences DEF Offered, BusTypeOK
    <3> QED
      BY <1>2, <3>2
  <2>3. /\ Notified(attached, q, closed)
        /\ UNCHANGED <<policy, size, attached, left>>
    BY <1>3 DEF Publish
  <2>4. /\ Len(queue'[s]) <= Len(q[s])
        /\ \A f \in Frames : q[s] \in {<<>>, <<f>>} => queue'[s] \in {<<>>, q[s]}
    BY <1>1, <1>2, <2>2, <2>3, NotifiedBound
  <2>5. CASE s \in attached
    <3>1. Until(s)' = published + 1 /\ Until(s)' - 1 = published
      BY <1>2, <2>1, <2>3, <2>5 DEF Until
    <3>2. CASE policy[s] = "latest-only"
      <4>1. q[s] = <<published>>
        BY <2>5, <3>2 DEF Offered
      <4>2. queue'[s] \in {<<>>, <<published>>}
        BY <2>1, <2>4, <4>1
      <4> QED
        BY <2>3, <3>1, <3>2, <4>2 DEF Bounded
    <3>3. CASE policy[s] # "latest-only"
      <4>1. policy[s] # None
        BY <1>1, <2>5 DEF Stage
      <4>2. /\ Len(queue[s]) <= size[s] /\ size[s] > 0
            /\ queue[s] \in Seq(Frames) /\ Len(queue[s]) \in Nat
        BY <1>1, <1>2, <2>5, <3>3, <4>1, FrameSequences DEF Bounded, Stage
      <4>3. /\ Len(Append(queue[s], published)) = Len(queue[s]) + 1
            /\ queue[s] # <<>> => Len(Append(Tail(queue[s]), published)) = Len(queue[s])
            /\ Len(queue[s]) >= size[s] => queue[s] # <<>>
        BY <1>2, <2>1, <4>2, FrameSequences
      <4>4. Len(Offered(s, published)) <= size[s]
        BY <1>2, <3>3, <4>2, <4>3 DEF Offered
      <4>5. Len(q[s]) <= size[s]
        BY <2>5, <4>4
      <4>6. queue'[s] \in Seq(Frames) /\ q[s] \in Seq(Frames)
        BY <1>1, <1>2, <2>2, <2>3, NotifiedTypes
      <4>7. Len(queue'[s]) <= size[s]
        BY <1>2, <2>4, <4>5, <4>6, FrameSequences
      <4> QED
        BY <2>3, <3>3, <4>7 DEF Bounded
    <3> QED
      BY <3>2, <3>3
  <2>6. CASE s \notin attached
    <3>1. queue'[s] = queue[s] /\ Until(s)' = Until(s)
      BY <1>1, <1>2, <2>2, <2>3, <2>6, NotifiedGives DEF Until
    <3> QED
      BY <1>1, <2>3, <3>1, ShorterIsBounded
  <2> QED
    BY <2>5, <2>6
<1>4. ASSUME NEW S \in SUBSET Subscribers,
             Notified(S, queue, [t \in Subscribers |-> closed[t] \/ t \in S]),
             attached' = attached \ S, UNCHANGED <<published, policy, size>>,
             left' = [t \in Subscribers |-> IF t \in attached \cap S THEN published ELSE left[t]]
      PROVE  Bounded(s)'
  <2> DEFINE c == [t \in Subscribers |-> closed[t] \/ t \in S]
  <2>1. c \in [Subscribers -> BOOLEAN] /\ Notified(S, queue, c)
    BY <1>1, <1>2, <1>4
  <2> HIDE DEF c
  <2>2. queue'[s] = queue[s] \/ (queue[s] # <<>> /\ queue'[s] = Tail(queue[s]))
    BY <1>1, <1>2, <2>1, NotifiedGives
  <2>3. Until(s)' = Until(s)
    BY <1>4 DEF Until
  <2> QED
    BY <1>1, <1>4, <2>2, <2>3, ShorterIsBounded
<1>5. CASE CloseStream
  <2>1. attached' = attached \ attached /\ attached \cap attached = attached
    BY <1>5 DEF CloseStream
  <2> QED
    BY <1>2, <1>4, <1>5, <2>1 DEF CloseStream
<1>6. ASSUME NEW S \in SUBSET Subscribers, Close(S) PROVE Bounded(s)'
  BY <1>4, <1>6 DEF Close, Finish
<1>7. ASSUME NEW t \in Subscribers, NEW p \in BackpressurePolicies, NEW n \in Nat \ {0},
             Subscribe(t, p, n)
      PROVE  Bounded(s)'
  <2>1. CASE s = t
    <3>1. queue'[s] = <<>> /\ Len(<<>>) = 0 /\ size'[s] = n
      BY <1>1, <1>7, <2>1 DEF Subscribe, Stage, BusTypeOK
    <3> QED
      BY <3>1 DEF Bounded
  <2>2. CASE s # t
    <3>1. /\ policy'[s] = policy[s] /\ size'[s] = size[s] /\ queue'[s] = queue[s]
          /\ Until(s)' = Until(s)
      BY <1>1, <1>7, <2>2 DEF Subscribe, Until, BusTypeOK
    <3> QED
      BY <1>1, <3>1, ShorterIsBounded
  <2> QED
    BY <2>1, <2>2
<1>8. ASSUME NEW r \in Readers, Take(r) PROVE Bounded(s)'
  BY <1>1, <1>8 DEF Take, Bounded, Until
<1>9. ASSUME NEW r \in Readers, Next1(r) PROVE Bounded(s)'
  <2>1. /\ queue'[s] = queue[s] \/ (queue[s] # <<>> /\ queue'[s] = Tail(queue[s]))
        /\ UNCHANGED <<published, policy, size>>
    BY <1>1, <1>2, <1>9 DEF Next1
  <2>2. HandleOf[r] \in Subscribers /\ Stage(HandleOf[r]) /\ policy[HandleOf[r]] # None
    BY <1>9, StreamAssumption DEF Next1, BusInv, Stages
  <2>3. Until(s)' = Until(s)
    BY <1>1, <1>9, <2>2 DEF Next1, Finish, Until, Stage, BusTypeOK
  <2> QED
    BY <1>1, <2>1, <2>3, ShorterIsBounded
<1> QED
  BY <1>3, <1>5, <1>6, <1>7, <1>8, <1>9 DEF BusAction

\* A slow consumer holds no more frames than it asked room for, under every
\* policy, and a latest-only one never holds another than the latest.
THEOREM SlowConsumersAreBounded == SocketSpec => []BackpressureHolds
<1>1. SocketInit => BackpressureHolds
  BY DEF SocketInit, BusInit, BackpressureHolds
<1>2. BusInv /\ BackpressureHolds /\ [SocketNext]_allVars => BackpressureHolds'
  <2> SUFFICES ASSUME BusInv, BackpressureHolds, [SocketNext]_allVars
               PROVE  BackpressureHolds'
    OBVIOUS
  <2>1. CASE BusAction
    BY <2>1, BackpressureStep
  <2>2. CASE UNCHANGED busVars
    BY <2>2 DEF busVars, BackpressureHolds, Until
  <2> QED
    BY <2>1, <2>2, SocketStepsBus
<1> QED
  BY <1>1, <1>2, BusInvariant, PTL DEF SocketSpec

-----------------------------------------------------------------------------
\* The variables of the sockets have their types.
SocketTypes ==
    /\ ws \in [Sockets -> {"none", "open", "closing", "closed"}]
    /\ pump \in [Sockets -> {"off", "loop", "sending", "over"}]
    /\ serving \in BOOLEAN

\* A socket is there as soon as its handle is, and its loop no sooner.
Upgraded ==
    \A s \in Sockets : /\ ws[s] = "none" <=> policy[s] = None
                       /\ pump[s] # "off" => ws[s] # "none"

SocketInv == SocketTypes /\ Upgraded /\ NothingLeaks

\* What finished never comes back to the stream, and who never subscribed has
\* not left it.
LEMMA LeavingIsFinal ==
  ASSUME BusInv, BusAction, NEW s \in Subscribers
  PROVE  /\ s \in finished => s \in finished'
         /\ policy[s] # None /\ s \notin attached => s \notin attached'
         /\ policy'[s] # policy[s] => \E p \in BackpressurePolicies, n \in Nat \ {0} : Subscribe(s, p, n)
<1>1. CASE Publish
  BY <1>1 DEF Publish
<1>2. CASE CloseStream
  BY <1>2 DEF CloseStream
<1>3. ASSUME NEW t \in Subscribers, NEW p \in BackpressurePolicies, NEW n \in Nat \ {0},
             Subscribe(t, p, n)
      PROVE  /\ finished' = finished
             /\ policy[s] # None /\ s \notin attached => s \notin attached'
             /\ policy'[s] # policy[s] => s = t
  BY <1>3 DEF Subscribe, BusInv, BusTypeOK
<1>4. ASSUME NEW S \in SUBSET Subscribers, Close(S)
      PROVE  /\ finished' = finished \cup S /\ attached' = attached \ S /\ policy' = policy
  BY <1>4 DEF Close, Finish
<1>5. ASSUME NEW r \in Readers, Next1(r)
      PROVE  /\ finished \subseteq finished' /\ attached' \subseteq attached /\ policy' = policy
  BY <1>5 DEF Next1, Finish
<1>6. ASSUME NEW r \in Readers, Take(r)
      PROVE  /\ finished' = finished /\ attached' = attached /\ policy' = policy
  BY <1>6 DEF Take
<1> QED
  BY <1>1, <1>2, <1>3, <1>4, <1>5, <1>6 DEF BusAction

\* close() by the socket itself.
LEMMA SocketLeaves ==
  ASSUME BusInv, NEW S \in SUBSET Subscribers, Close(S)
  PROVE  /\ S \subseteq finished' \ attached' /\ policy' = policy
         /\ finished \ attached \subseteq finished' \ attached'
  BY DEF Close, Finish

\* Whatever step is taken, no socket leaves a subscription behind.
LEMMA SocketInvStep == BusInv /\ SocketInv /\ [SocketNext]_allVars => SocketInv'
<1> SUFFICES ASSUME BusInv, SocketInv, [SocketNext]_allVars PROVE SocketInv'
  OBVIOUS
<1> USE SocketAssumption DEF SocketInv, SocketTypes
<1>1. ASSUME NEW s \in Sockets, Connect(s) PROVE SocketInv'
  <2>1. /\ serving /\ serving' = serving /\ ws[s] = "none" /\ pump[s] = "off"
        /\ ws' = [ws EXCEPT ![s] = "open"] /\ pump' = [pump EXCEPT ![s] = "loop"]
        /\ finished' = finished /\ attached' = attached \cup {s}
        /\ policy' = [policy EXCEPT ![s] = "latest-only"]
    BY <1>1 DEF Connect, Subscribe, Upgraded
  <2>2. policy \in [Subscribers -> BackpressurePolicies \cup {None}]
    BY DEF BusInv, BusTypeOK
  <2>3. SocketTypes'
    BY <2>1
  <2>4. Upgraded'
    BY <2>1, <2>2 DEF Upgraded, None
  <2>5. NothingLeaks'
    BY <2>1 DEF NothingLeaks
  <2> QED
    BY <2>3, <2>4, <2>5
<1>2. ASSUME NEW s \in Sockets, PumpBreaks(s) \/ PumpEnds(s) \/ SendFails(s) PROVE SocketInv'
  <2>1. /\ serving' = serving /\ pump[s] \in {"loop", "sending"} /\ Close({s})
        /\ ws' = [ws EXCEPT ![s] = IF @ = "open" THEN "closing" ELSE @]
        /\ pump' = [pump EXCEPT ![s] = "over"]
    BY <1>2 DEF PumpBreaks, PumpEnds, SendFails
  <2>2. /\ s \in finished' \ attached' /\ policy' = policy
        /\ finished \ attached \subseteq finished' \ attached'
    BY <2>1, SocketLeaves
  <2>3. SocketTypes'
    BY <2>1
  <2>4. Upgraded'
    BY <2>1, <2>2 DEF Upgraded
  <2>5. NothingLeaks'
    BY <2>1, <2>2 DEF NothingLeaks, Upgraded
  <2> QED
    BY <2>3, <2>4, <2>5
<1>3. ASSUME NEW s \in Sockets, SocketCloses(s) PROVE SocketInv'
  <2>1. /\ serving' = serving /\ pump' = pump /\ ws[s] # "none" /\ Close({s})
        /\ ws' = [ws EXCEPT ![s] = "closed"]
    BY <1>3 DEF SocketCloses
  <2>2. /\ s \in finished' \ attached' /\ policy' = policy
        /\ finished \ attached \subseteq finished' \ attached'
    BY <2>1, SocketLeaves
  <2>3. SocketTypes'
    BY <2>1
  <2>4. Upgraded'
    BY <2>1, <2>2 DEF Upgraded
  <2>5. NothingLeaks'
    BY <2>1, <2>2 DEF NothingLeaks
  <2> QED
    BY <2>3, <2>4, <2>5
<1>4. CASE Shutdown
  <2> DEFINE open == {s \in Sockets : ws[s] \in {"open", "closing"}}
  <2>1. /\ serving /\ serving' = FALSE /\ pump' = pump /\ Close(open)
        /\ ws' = [s \in Sockets |-> IF ws[s] = "open" THEN "closing" ELSE ws[s]]
    BY <1>4 DEF Shutdown
  <2>2. open \in SUBSET Subscribers
    OBVIOUS
  <2>3. /\ open \subseteq finished' \ attached' /\ policy' = policy
        /\ finished \ attached \subseteq finished' \ attached'
    BY <2>1, <2>2, SocketLeaves
  <2>4. SocketTypes'
    BY <2>1
  <2>5. Upgraded'
    BY <2>1, <2>3 DEF Upgraded
  <2>6. NothingLeaks'
    BY <2>1, <2>3 DEF NothingLeaks
  <2> QED
    BY <2>4, <2>5, <2>6
<1>5. ASSUME NEW s \in Sockets, Sent(s) \/ PeerTalks(s) PROVE SocketInv'
  <2>1. /\ UNCHANGED <<policy, finished, attached, serving>>
        /\ \/ pump[s] = "sending" /\ pump' = [pump EXCEPT ![s] = "loop"] /\ ws' = ws
           \/ ws[s] = "open" /\ ws' = [ws EXCEPT ![s] = "closing"] /\ pump' = pump
    BY <1>5 DEF Sent, PeerTalks, busVars
  <2>2. SocketTypes'
    BY <2>1
  <2>3. Upgraded'
    BY <2>1 DEF Upgraded
  <2>4. NothingLeaks'
    BY <2>1 DEF NothingLeaks
  <2> QED
    BY <2>2, <2>3, <2>4
\* The others leave the sockets' handles alone, but for closeStream().
<1>6. ASSUME \A s \in Sockets : /\ policy'[s] = policy[s]
                                /\ s \in finished => s \in finished'
                                /\ policy[s] # None /\ s \notin attached => s \notin attached',
             ws' = ws, serving' = serving,
             pump' = pump \/ \E s \in Sockets : pump[s] = "loop" /\ pump' = [pump EXCEPT ![s] = "sending"]
      PROVE  SocketInv'
  <2>1. SocketTypes'
    BY <1>6
  <2>2. Upgraded'
    BY <1>6 DEF Upgraded
  <2>3. NothingLeaks'
    BY <1>6 DEF NothingLeaks, Upgraded
  <2> QED
    BY <2>1, <2>2, <2>3
<1>7. ASSUME NEW s \in Sockets, PumpAwaits(s) \/ PumpSends(s) PROVE SocketInv'
  <2>1. /\ ws' = ws /\ serving' = serving /\ policy' = policy /\ finished \subseteq finished'
        /\ attached' \subseteq attached
        /\ pump' = pump \/ (pump[s] = "loop" /\ pump' = [pump EXCEPT ![s] = "sending"])
    BY <1>7 DEF PumpAwaits, PumpSends, Next1, Finish, Take, socketVars
  <2> QED
    BY <1>6, <2>1
<1>8. CASE BusStep
  <2>1. ws' = ws /\ serving' = serving /\ pump' = pump
    BY <1>8 DEF BusStep, socketVars
  <2>2. ASSUME NEW s \in Sockets
        PROVE  /\ policy'[s] = policy[s]
               /\ s \in finished => s \in finished'
               /\ policy[s] # None /\ s \notin attached => s \notin attached'
    <3>1. CASE Publish \/ CloseStream
      BY <3>1 DEF Publish, CloseStream
    <3>2. ASSUME NEW t \in Others, NEW p \in Policies, NEW n \in BufferSizes, Subscribe(t, p, n)
          PROVE  /\ policy'[s] = policy[s] /\ finished' = finished
                 /\ s \notin attached => s \notin attached'
      BY <3>2 DEF Subscribe, Others, BusInv, BusTypeOK
    <3>3. ASSUME NEW t \in Others, Close({t})
          PROVE  policy' = policy /\ finished \subseteq finished' /\ attached' \subseteq attached
      BY <3>3 DEF Close, Finish
    <3>4. ASSUME NEW r \in Readers, Next1(r) \/ Take(r)
          PROVE  policy' = policy /\ finished \subseteq finished' /\ attached' \subseteq attached
      BY <3>4 DEF Next1, Finish, Take
    <3> QED
      BY <1>8, <3>1, <3>2, <3>3, <3>4 DEF BusStep
  <2> QED
    BY <1>6, <2>1, <2>2
<1>9. CASE UNCHANGED allVars
  BY <1>6, <1>9 DEF allVars, busVars, socketVars
<1> QED
  BY <1>1, <1>2, <1>3, <1>4, <1>5, <1>7, <1>8, <1>9 DEF SocketNext, SocketStep

\* The sockets' invariant holds throughout.
LEMMA SocketInvariant == SocketSpec => []SocketInv
<1>1. ASSUME SocketInit PROVE SocketInv
  <2>1. \A s \in Sockets : ws[s] = "none" /\ pump[s] = "off" /\ policy[s] = None
    BY <1>1, SocketAssumption DEF SocketInit, BusInit
  <2>2. SocketTypes
    BY <1>1 DEF SocketInit, SocketTypes
  <2>3. Upgraded
    BY <2>1 DEF Upgraded
  <2>4. NothingLeaks
    BY <2>1 DEF NothingLeaks
  <2> QED
    BY <2>2, <2>3, <2>4 DEF SocketInv
<1>2. BusInv /\ SocketInv /\ [SocketNext]_allVars => SocketInv'
  BY SocketInvStep
<1> QED
  BY <1>1, <1>2, BusInvariant, PTL DEF SocketSpec

\* SocketTypeOK holds throughout.
THEOREM SocketTypeCorrect == SocketSpec => []SocketTypeOK
<1>1. BusInv /\ SocketInv => SocketTypeOK
  BY DEF BusInv, SocketInv, SocketTypes, SocketTypeOK
<1> QED
  BY <1>1, BusInvariant, SocketInvariant, PTL

\* Whatever ends first, the loop, the connection or the daemon: the handle has
\* left the bus and the connection is going down.
THEOREM NoSubscriptionLeaks == SocketSpec => []NothingLeaks
  BY SocketInvariant, PTL DEF SocketInv
-----------------------------------------------------------------------------
\* notify() hands frames on and loses none.
LEMMA NotifiedKeeps ==
  ASSUME BusTypeOK, NEW S \in SUBSET Subscribers, NEW q \in [Subscribers -> Seq(Frames)],
         NEW c \in [Subscribers -> BOOLEAN], Notified(S, q, c), NEW s \in Subscribers
  PROVE  Len(given'[s]) + Len(queue'[s]) = Len(given[s]) + Len(q[s])
<1>1. \/ queue'[s] = q[s] /\ given'[s] = given[s]
      \/ /\ q[s] # <<>>
         /\ queue'[s] = Tail(q[s]) /\ given'[s] = Append(given[s], Head(q[s]))
  BY NotifiedGives
<1>2. given[s] \in Seq(Frames) /\ q[s] \in Seq(Frames)
  BY DEF BusTypeOK, Frames
<1>3. Len(given[s]) \in Nat /\ Len(q[s]) \in Nat
  BY <1>2, FrameSequences
<1>4. CASE /\ q[s] # <<>>
           /\ queue'[s] = Tail(q[s]) /\ given'[s] = Append(given[s], Head(q[s]))
  <2>1. Len(queue'[s]) = Len(q[s]) - 1 /\ Len(given'[s]) = Len(given[s]) + 1
    BY <1>2, <1>4, FrameSequences
  <2> QED
    BY <1>3, <2>1
<1> QED
  BY <1>1, <1>4

\* What a handle has had no part of is a number of the frames published.
MissingBound == \A s \in Subscribers : Missing(s) \in 0..MaxFrames

\* A number is missing of a handle with the same policy, until, from and count.
LEMMA SameMissing ==
  ASSUME BusTypeOK, BusTypeOK', NEW s \in Subscribers,
         policy'[s] = policy[s], Until(s)' = Until(s), joined'[s] = joined[s],
         Len(given'[s]) + Len(queue'[s]) = Len(given[s]) + Len(queue[s])
  PROVE  Missing(s)' = Missing(s)
<1>1. /\ given[s] \in Seq(Frames) /\ queue[s] \in Seq(Frames)
      /\ given'[s] \in Seq(Frames) /\ queue'[s] \in Seq(Frames)
  BY DEF BusTypeOK, Frames
<1>2. PICK a \in Nat, b \in Nat, c \in Nat, d \in Nat :
         /\ a = Len(given[s]) /\ b = Len(queue[s])
         /\ c = Len(given'[s]) /\ d = Len(queue'[s])
  BY <1>1, FrameSequences
<1>3. PICK u \in Int, j \in Int : u = Until(s) /\ j = joined[s]
  BY StreamAssumption DEF BusTypeOK, Until
<1>4. c + d = a + b
  BY <1>2
<1>5. u - j - c - d = u - j - a - b
  BY <1>4
<1> QED
  BY <1>2, <1>3, <1>5 DEF Missing

\* Only publish() loses a frame.
LEMMA OnlyPublishLoses ==
  ASSUME BusInv, BusInv', BusAction, ~Publish, NEW s \in Subscribers
  PROVE  Missing(s)' = Missing(s)
<1> USE DEF BusInv
<1>1. /\ queue \in [Subscribers -> Seq(Frames)] /\ given \in [Subscribers -> Seq(Frames)]
      /\ closed \in [Subscribers -> BOOLEAN] /\ attached \in SUBSET Subscribers
      /\ Stage(s)
  BY DEF BusTypeOK, Frames, Stages
<1>2. ASSUME NEW S \in SUBSET Subscribers,
             Notified(S, queue, [t \in Subscribers |-> closed[t] \/ t \in S]),
             attached' = attached \ S, UNCHANGED <<published, policy, joined>>,
             left' = [t \in Subscribers |-> IF t \in attached \cap S THEN published ELSE left[t]]
      PROVE  Missing(s)' = Missing(s)
  <2> DEFINE c == [t \in Subscribers |-> closed[t] \/ t \in S]
  <2>1. c \in [Subscribers -> BOOLEAN] /\ Notified(S, queue, c)
    BY <1>1, <1>2
  <2> HIDE DEF c
  <2>2. Len(given'[s]) + Len(queue'[s]) = Len(given[s]) + Len(queue[s])
    BY <1>1, <2>1, NotifiedKeeps
  <2>3. Until(s)' = Until(s)
    BY <1>2 DEF Until
  <2> QED
    BY <1>2, <2>2, <2>3, SameMissing
<1>3. CASE CloseStream
  <2>1. attached' = attached \ attached /\ attached \cap attached = attached
    BY <1>3 DEF CloseStream
  <2> QED
    BY <1>1, <1>2, <1>3, <2>1 DEF CloseStream
<1>4. ASSUME NEW S \in SUBSET Subscribers, Close(S)
      PROVE  Missing(s)' = Missing(s)
  BY <1>2, <1>4 DEF Close, Finish
<1>5. ASSUME NEW t \in Subscribers, NEW p \in BackpressurePolicies, NEW n \in Nat \ {0},
             Subscribe(t, p, n)
      PROVE  Missing(s)' = Missing(s)
  <2>1. given' = given /\ queue' = queue
    BY <1>5 DEF Subscribe
  <2>2. CASE s = t
    <3>1. policy[s] = None /\ queue[s] = <<>> /\ given[s] = <<>>
      BY <1>1, <1>5, <2>2 DEF Subscribe, Stage
    <3>2. Until(s)' = published /\ joined'[s] = published /\ published \in Nat
      BY <1>1, <1>5, <2>2, StreamAssumption DEF Subscribe, Until, BusTypeOK
    <3>3. Missing(s) = 0 /\ Missing(s)' = 0
      BY <2>1, <3>1, <3>2 DEF Missing, None
    <3> QED
      BY <2>1, <3>3
  <2>3. CASE s # t
    <3>1. policy'[s] = policy[s] /\ joined'[s] = joined[s] /\ Until(s)' = Until(s)
      BY <1>1, <1>5, <2>3 DEF Subscribe, Until, BusTypeOK
    <3> QED
      BY <2>1, <3>1, SameMissing
  <2> QED
    BY <2>2, <2>3
<1>6. ASSUME NEW r \in Readers, Take(r) PROVE Missing(s)' = Missing(s)
  BY <1>6 DEF Take, Missing, Until
<1>7. ASSUME NEW r \in Readers, Next1(r) PROVE Missing(s)' = Missing(s)
  <2>1. HandleOf[r] \in Subscribers /\ Stage(HandleOf[r]) /\ policy[HandleOf[r]] # None
    BY <1>7, StreamAssumption DEF Next1, Stages
  <2>2. UNCHANGED <<published, policy, joined>>
    BY <1>7 DEF Next1
  <2>3. Until(s)' = Until(s)
    BY <1>1, <1>7, <2>1 DEF Next1, Finish, Until, Stage, BusTypeOK
  <2>4. \/ queue'[s] = queue[s] /\ given'[s] = given[s]
        \/ /\ queue[s] # <<>>
           /\ queue'[s] = Tail(queue[s]) /\ given'[s] = Append(given[s], Head(queue[s]))
    BY <1>1, <1>7, <2>1 DEF Next1
  <2>5. Len(given[s]) \in Nat /\ Len(queue[s]) \in Nat
    BY <1>1, FrameSequences
  <2>6. ASSUME /\ queue[s] # <<>>
               /\ queue'[s] = Tail(queue[s]) /\ given'[s] = Append(given[s], Head(queue[s]))
        PROVE  Len(given'[s]) + Len(queue'[s]) = Len(given[s]) + Len(queue[s])
    <3>1. Len(queue'[s]) = Len(queue[s]) - 1 /\ Len(given'[s]) = Len(given[s]) + 1
      BY <1>1, <2>6, FrameSequences
    <3>2. PICK a \in Nat, b \in Nat : a = Len(given[s]) /\ b = Len(queue[s])
      BY <2>5
    <3>3. Len(given'[s]) = a + 1 /\ Len(queue'[s]) = b - 1
      BY <3>1, <3>2
    <3>4. (a + 1) + (b - 1) = a + b
      OBVIOUS
    <3> QED
      BY <3>2, <3>3, <3>4
  <2>7. Len(given'[s]) + Len(queue'[s]) = Len(given[s]) + Len(queue[s])
    BY <2>4, <2>6
  <2> QED
    BY <2>2, <2>3, <2>7, SameMissing
<1> QED
  BY <1>3, <1>4, <1>5, <1>6, <1>7 DEF BusAction

\* publish() loses one frame of each handle that drops at it.
LEMMA PublishLoses ==
  ASSUME BusInv, BusInv', Publish, NEW s \in Subscribers
  PROVE  Missing(s)' = IF s \in attached /\ DropsAt(s) THEN Missing(s) + 1 ELSE Missing(s)
<1> DEFINE q == [t \in Subscribers |-> IF t \in attached THEN Offered(t, published) ELSE queue[t]]
<1>0. BusTypeOK /\ Stages
  BY DEF BusInv
<1>a. BusTypeOK'
  BY DEF BusInv
<1>1. /\ published \in Frames /\ published \in Nat /\ published' = published + 1
      /\ queue \in [Subscribers -> Seq(Frames)] /\ given \in [Subscribers -> Seq(Frames)]
      /\ closed \in [Subscribers -> BOOLEAN] /\ attached \in SUBSET Subscribers
      /\ joined[s] \in Int /\ Stage(s) /\ size[s] \in Nat
  BY <1>0, StreamAssumption DEF Publish, BusTypeOK, Frames, Stages
<1>2. q \in [Subscribers -> Seq(Frames)]
  <2> HIDE DEF q
  <2>1. \A t \in attached : queue[t] \in Seq(Frames) /\ (Len(queue[t]) >= size[t] => queue[t] # <<>>)
    BY <1>0, <1>1 DEF Stages, Stage, BusTypeOK
  <2>2. \A t \in attached : Offered(t, published) \in Seq(Frames)
    BY <1>0, <1>1, <2>1, FrameSequences DEF Offered, BusTypeOK
  <2> USE DEF q
  <2> QED
    BY <1>1, <2>2
<1>3. /\ Notified(attached, q, closed)
      /\ UNCHANGED <<policy, size, attached, left, joined>>
  BY DEF Publish
<1> HIDE DEF q
<1>4. Len(given'[s]) + Len(queue'[s]) = Len(given[s]) + Len(q[s])
  BY <1>0, <1>1, <1>2, <1>3, NotifiedKeeps
<1>5. CASE s \notin attached
  <2>1. q[s] = queue[s] /\ Until(s)' = Until(s)
    BY <1>3, <1>5 DEF Until, q
  <2> QED
    BY <1>0, <1>a, <1>3, <1>4, <1>5, <2>1, SameMissing
<1>6. CASE s \in attached
  <2>1. q[s] = Offered(s, published) /\ Until(s)' = published + 1 /\ Until(s) = published
    BY <1>1, <1>3, <1>6 DEF Until, q
  <2>2. CASE policy[s] \notin {"drop-oldest", "drop-latest"}
    <3>1. policy[s] = "latest-only"
      BY <1>0, <1>1, <1>6, <2>2 DEF Stage, BusTypeOK, BackpressurePolicies, None
    <3> QED
      BY <1>3, <2>2, <3>1 DEF Missing, DropsAt
  <2>3. CASE policy[s] \in {"drop-oldest", "drop-latest"}
    <3>1. Len(queue[s]) \in Nat /\ Len(given[s]) \in Nat
      BY <1>1, FrameSequences
    <3>2. given'[s] \in Seq(Frames) /\ queue'[s] \in Seq(Frames)
      BY <1>a DEF BusTypeOK, Frames
    <3>3. Len(queue'[s]) \in Nat /\ Len(given'[s]) \in Nat
      BY <3>2, FrameSequences
    <3>4. /\ Len(Append(queue[s], published)) = Len(queue[s]) + 1
          /\ queue[s] # <<>> => Len(Append(Tail(queue[s]), published)) = Len(queue[s])
          /\ Len(queue[s]) >= size[s] => queue[s] # <<>>
      BY <1>1, <1>6, <3>1, FrameSequences DEF Stage
    <3>5. Len(q[s]) = IF DropsAt(s) THEN Len(queue[s]) ELSE Len(queue[s]) + 1
      BY <1>1, <2>1, <2>3, <3>1, <3>4 DEF Offered, DropsAt
    <3>6. PICK a \in Nat, b \in Nat, c \in Nat, d \in Nat :
             /\ a = Len(given[s]) /\ b = Len(queue[s])
             /\ c = Len(given'[s]) /\ d = Len(queue'[s])
      BY <3>1, <3>3
    <3>7. PICK j \in Int : j = joined[s]
      BY <1>1
    <3>8. Missing(s) = published - j - a - b
      BY <2>1, <2>3, <3>6, <3>7 DEF Missing
    <3>9. Missing(s)' = published + 1 - j - c - d
      <4>1. policy'[s] = policy[s] /\ joined'[s] = j
        BY <1>3, <3>7
      <4>2. PICK u \in Int : u = Until(s)' /\ u = published + 1
        BY <1>1, <2>1
      <4>3. Missing(s)' = u - j - c - d
        BY <2>3, <3>6, <4>1, <4>2 DEF Missing
      <4> QED
        BY <1>1, <4>2, <4>3
    <3>10. published \in Int
      BY <1>1
    <3>11. c + d = a + IF DropsAt(s) THEN b ELSE b + 1
      BY <1>4, <3>5, <3>6
    <3> QED
      BY <1>6, <3>8, <3>9, <3>10, <3>11
  <2> QED
    BY <2>2, <2>3
<1> QED
  BY <1>5, <1>6

\* The lost frames are finitely many.
LEMMA LostIsFinite == IsFiniteSet(Lost)
<1>1. IsFiniteSet(Subscribers \X (1..MaxFrames))
  <2>1. IsFiniteSet(1..MaxFrames) /\ IsFiniteSet(Subscribers)
    BY StreamAssumption, FS_Interval
  <2> QED
    BY <2>1, FS_Product
<1> QED
  BY <1>1, FS_Subset DEF Lost

\* droppedFrames grows by the frames that get lost, and at no other time.
LEMMA DropsStep ==
  ASSUME BusInv, BusInv', MissingBound, DropsAreCounted, BusAction
  PROVE  MissingBound' /\ DropsAreCounted'
<1>1. CASE ~Publish
  <2>1. \A s \in Subscribers : Missing(s)' = Missing(s)
    BY <1>1, OnlyPublishLoses
  <2>2. Lost' = Lost
    BY <2>1 DEF Lost
  <2>3. dropped' = dropped
    BY <1>1 DEF BusAction, CloseStream, Close, Subscribe, Next1, Take
  <2> QED
    BY <2>1, <2>2, <2>3 DEF MissingBound, DropsAreCounted
<1>2. CASE Publish
  <2> DEFINE D == {s \in attached : DropsAt(s)}
             new == {<<s, Missing(s) + 1>> : s \in D}
  <2>1. \A s \in Subscribers : Missing(s)' = IF s \in D THEN Missing(s) + 1 ELSE Missing(s)
    BY <1>2, PublishLoses
  <2>2. D \subseteq Subscribers /\ IsFiniteSet(D) /\ dropped' = dropped + Cardinality(D)
    <3>1. D \subseteq Subscribers /\ dropped' = dropped + Cardinality(D)
      BY <1>2 DEF Publish, BusInv, BusTypeOK
    <3> QED
      BY <3>1, FS_Subset, StreamAssumption
  <2> HIDE DEF D
  <2>3. \A s \in Subscribers : Missing(s) \in Nat /\ Missing(s) <= MaxFrames
    BY StreamAssumption DEF MissingBound
  <2>4. \A s \in Subscribers : Missing(s)' <= MaxFrames /\ Missing(s)' \in Nat
    <3> SUFFICES ASSUME NEW s \in Subscribers PROVE Missing(s)' <= MaxFrames /\ Missing(s)' \in Nat
      OBVIOUS
    <3>1. Missing(s)' \in Nat
      BY <2>1, <2>3
    <3>2. /\ given'[s] \in Seq(Frames) /\ queue'[s] \in Seq(Frames)
          /\ Until(s)' \in 0..MaxFrames /\ joined'[s] \in 0..MaxFrames
      BY StreamAssumption DEF BusInv, BusTypeOK, Until, Frames
    <3>3. Len(given'[s]) \in Nat /\ Len(queue'[s]) \in Nat
      BY <3>2, FrameSequences
    <3> QED
      BY <3>1, <3>2, <3>3, StreamAssumption DEF Missing
  <2>5. Lost' = Lost \cup new
    <3>1. ASSUME NEW s \in Subscribers, NEW n \in 1..MaxFrames
          PROVE  n <= Missing(s)' <=> (n <= Missing(s) \/ (s \in D /\ n = Missing(s) + 1))
      BY <2>1, <2>3, StreamAssumption
    <3>2. ASSUME NEW s \in D PROVE s \in Subscribers /\ Missing(s) + 1 \in 1..MaxFrames
      <4>1. s \in Subscribers
        BY <2>2
      <4>2. Missing(s)' = Missing(s) + 1 /\ Missing(s) \in Nat /\ Missing(s)' <= MaxFrames
        BY <2>1, <2>3, <2>4, <4>1
      <4> QED
        BY <4>1, <4>2, StreamAssumption
    <3>3. ASSUME NEW p \in Lost' PROVE p \in Lost \cup new
      <4>1. PICK s \in Subscribers, n \in 1..MaxFrames : p = <<s, n>> /\ n <= Missing(s)'
        BY <3>3 DEF Lost
      <4> QED
        BY <3>1, <4>1 DEF Lost
    <3>4. ASSUME NEW p \in Lost PROVE p \in Lost'
      <4>1. PICK s \in Subscribers, n \in 1..MaxFrames : p = <<s, n>> /\ n <= Missing(s)
        BY <3>4 DEF Lost
      <4> QED
        BY <3>1, <4>1 DEF Lost
    <3>5. ASSUME NEW p \in new PROVE p \in Lost'
      <4>1. PICK s \in D : p = <<s, Missing(s) + 1>>
        BY <3>5
      <4> QED
        BY <3>1, <3>2, <4>1 DEF Lost
    <3> QED
      BY <3>3, <3>4, <3>5
  <2>6. Lost \cap new = {}
    <3>1. ASSUME NEW s \in D PROVE <<s, Missing(s) + 1>> \notin Lost
      <4>1. ~(Missing(s) + 1 <= Missing(s))
        BY <2>2, <2>3
      <4> QED
        BY <4>1 DEF Lost
    <3> QED
      BY <3>1
  <2>7. IsFiniteSet(new) /\ Cardinality(new) = Cardinality(D)
    <3> DEFINE f == [s \in D |-> <<s, Missing(s) + 1>>]
    <3>1. f \in Surjection(D, new)
      BY DEF Surjection
    <3>2. f \in Injection(D, new)
      <4>1. f \in [D -> new]
        OBVIOUS
      <4>2. \A s, t \in D : f[s] = f[t] => s = t
        OBVIOUS
      <4> QED
        BY <4>1, <4>2 DEF Injection, IsInjective
    <3> HIDE DEF f, new
    <3> QED
      BY <2>2, <3>1, <3>2, FS_Surjection
  <2>8. Cardinality(Lost') = Cardinality(Lost) + Cardinality(D)
    <3> HIDE DEF new
    <3>1. Cardinality(Lost \cup new) = Cardinality(Lost) + Cardinality(new) - Cardinality({})
      BY <2>6, <2>7, LostIsFinite, FS_Union
    <3>2. Cardinality(Lost) \in Nat /\ Cardinality(D) \in Nat
      BY <2>2, LostIsFinite, FS_CardinalityType
    <3> QED
      BY <2>5, <2>7, <3>1, <3>2, FS_EmptySet
  <2> QED
    BY <2>2, <2>4, <2>8, StreamAssumption DEF MissingBound, DropsAreCounted
<1> QED
  BY <1>1, <1>2

\* droppedFrames counts the frames the subscribers with a dropping policy do not
\* get, each once, and no other: publish() adds one for every queue that is full.
THEOREM EveryDropIsCounted == SocketSpec => []DropsAreCounted
<1>1. SocketInit => MissingBound /\ DropsAreCounted
  <2> SUFFICES ASSUME SocketInit PROVE MissingBound /\ DropsAreCounted
    OBVIOUS
  <2>1. dropped = 0 /\ \A s \in Subscribers : Missing(s) = 0
    BY DEF SocketInit, BusInit, Missing, None
  <2>2. Lost = {}
    BY <2>1 DEF Lost
  <2> QED
    BY <2>1, <2>2, FS_EmptySet, StreamAssumption DEF MissingBound, DropsAreCounted
<1>2. /\ BusInv /\ BusInv' /\ MissingBound /\ DropsAreCounted
      /\ [SocketNext]_allVars
      => MissingBound' /\ DropsAreCounted'
  <2> SUFFICES ASSUME BusInv, BusInv', MissingBound, DropsAreCounted, [SocketNext]_allVars
               PROVE  MissingBound' /\ DropsAreCounted'
    OBVIOUS
  <2>1. CASE BusAction
    BY <2>1, DropsStep
  <2>2. CASE UNCHANGED busVars
    BY <2>2 DEF busVars, MissingBound, DropsAreCounted, Lost, Missing, Until
  <2> QED
    BY <2>1, <2>2, SocketStepsBus
<1> QED
  BY <1>1, <1>2, BusInvariant, PTL DEF SocketSpec
=============================================================================
