------------------------------- MODULE StreamBus -------------------------------
(* One stream of StreamBus: publish() fans frames out to bounded queues, and     *)
(* next() takes from them or leaves a callback that the next publish() or close  *)
(* calls. Streams share no state, so one is enough.                              *)
EXTENDS Integers, FiniteSets, Sequences

CONSTANTS Subscribers,   \* handles returned by subscribe(), each used once
          Readers,       \* those who call next() or sample() on a handle
          HandleOf,      \* the handle a reader reads
          Policies,      \* values of policy
          BufferSizes,   \* values of bufferSize
          MaxFrames,     \* bound: frames published
          NoReader

BackpressurePolicies == {"drop-oldest", "drop-latest", "latest-only"}

ASSUME StreamAssumption ==
    /\ IsFiniteSet(Subscribers)
    /\ HandleOf \in [Readers -> Subscribers]
    /\ NoReader \notin Readers
    /\ Policies \subseteq BackpressurePolicies
    /\ BufferSizes \subseteq Nat \ {0}
    /\ MaxFrames \in Nat

VARIABLES published,  \* the sequence number of the next frame
          dropped,    \* StreamStats.droppedFrames
          policy, size, queue, closed,  \* per handle: SubscriberQueue
          notify,     \* per handle: whose promise sub.notify answers
          attached,   \* the handles in the subscriber set of the stream
          finished,   \* the handles whose iteratorDone is set
          ended,      \* the handles whose `ended` is resolved
          reader,     \* per reader: its promise
          joined,     \* history: frames published when a handle subscribed
          left,       \* history: frames published when it left the subscriber set
          given,      \* history: per handle, the frames its readers were given
          displaced   \* history: readers whose callback another reader replaced

busVars == <<published, dropped, policy, size, queue, closed, notify, attached,
             finished, ended, reader, joined, left, given, displaced>>

None == "none"   \* the policy of a handle that is not there yet
-----------------------------------------------------------------------------
(* The queue of a handle after publish() offered it a frame. *)
Offered(s, f) ==
    IF policy[s] = "latest-only" THEN <<f>>
    ELSE IF Len(queue[s]) < size[s] THEN Append(queue[s], f)
    ELSE IF policy[s] = "drop-oldest" THEN Append(Tail(queue[s]), f)
    ELSE queue[s]

(* Fault: a discarded incoming frame is not counted. *)
DropsAtOldest(s) == policy[s] = "drop-oldest" /\ Len(queue[s]) >= size[s]

DropsAt(s) == policy[s] # "latest-only" /\ Len(queue[s]) >= size[s]

(* sub.notify(): the callback left by next() answers its reader and is gone.    *)
(* q and c are queue and closed at that time, S the handles notified.           *)
Notified(S, q, c) ==
    LET answers == {s \in S : notify[s] # NoReader}
        frame(s) == s \notin finished /\ q[s] # <<>>
        ends(s) == s \in finished \/ (q[s] = <<>> /\ c[s])
        of(r) == HandleOf[r] \in answers /\ notify[HandleOf[r]] = r
    IN  /\ notify' = [s \in Subscribers |-> IF s \in answers THEN NoReader ELSE notify[s]]
        /\ queue' = [s \in Subscribers |-> IF s \in answers /\ frame(s) THEN Tail(q[s]) ELSE q[s]]
        /\ given' = [s \in Subscribers |-> IF s \in answers /\ frame(s)
                                           THEN Append(given[s], Head(q[s])) ELSE given[s]]
        /\ reader' = [r \in Readers |->
                         IF of(r) /\ frame(HandleOf[r]) THEN "frame"
                         ELSE IF of(r) /\ ends(HandleOf[r]) THEN "end" ELSE reader[r]]
        /\ closed' = c

(* finish() of the handles S: out of the subscriber set, `ended` resolved. *)
Finish(S) ==
    /\ finished' = finished \cup S
    /\ ended' = ended \cup S
    /\ attached' = attached \ S
    /\ left' = [s \in Subscribers |-> IF s \in attached \cap S THEN published ELSE left[s]]
-----------------------------------------------------------------------------
BusInit ==
    /\ published = 0 /\ dropped = 0
    /\ policy = [s \in Subscribers |-> None]
    /\ size = [s \in Subscribers |-> 0]
    /\ queue = [s \in Subscribers |-> <<>>]
    /\ closed = [s \in Subscribers |-> FALSE]
    /\ notify = [s \in Subscribers |-> NoReader]
    /\ attached = {} /\ finished = {} /\ ended = {}
    /\ reader = [r \in Readers |-> "idle"]
    /\ joined = [s \in Subscribers |-> 0]
    /\ left = [s \in Subscribers |-> MaxFrames]
    /\ given = [s \in Subscribers |-> <<>>]
    /\ displaced = {}

Publish ==
    /\ published < MaxFrames
    /\ published' = published + 1
    /\ dropped' = dropped + Cardinality({s \in attached : DropsAt(s)})
    /\ Notified(attached,
                [s \in Subscribers |-> IF s \in attached THEN Offered(s, published) ELSE queue[s]],
                closed)
    /\ UNCHANGED <<policy, size, attached, finished, ended, joined, left, displaced>>

(* Fault: a subscription starts with the latest frame. *)
SubscribeReplaying(s, p, n) ==
    /\ policy[s] = None
    /\ policy' = [policy EXCEPT ![s] = p]
    /\ size' = [size EXCEPT ![s] = n]
    /\ attached' = attached \cup {s}
    /\ joined' = [joined EXCEPT ![s] = published]
    /\ queue' = [queue EXCEPT ![s] = IF published > 0 THEN <<published - 1>> ELSE <<>>]
    /\ UNCHANGED <<published, dropped, closed, notify, finished, ended, reader, left, given,
                   displaced>>

Subscribe(s, p, n) ==
    /\ policy[s] = None
    /\ policy' = [policy EXCEPT ![s] = p]
    /\ size' = [size EXCEPT ![s] = n]
    /\ attached' = attached \cup {s}
    /\ joined' = [joined EXCEPT ![s] = published]
    /\ UNCHANGED <<published, dropped, queue, closed, notify, finished, ended, reader, left,
                   given, displaced>>

(* next(), by a reader whose last promise was answered and taken. *)
Next1(r) ==
    LET s == HandleOf[r] IN
    /\ policy[s] # None
    /\ reader[r] = "idle"
    /\ \/ /\ s \notin finished /\ queue[s] # <<>>
          /\ reader' = [reader EXCEPT ![r] = "frame"]
          /\ given' = [given EXCEPT ![s] = Append(@, Head(queue[s]))]
          /\ queue' = [queue EXCEPT ![s] = Tail(@)]
          /\ UNCHANGED <<notify, attached, finished, ended, left, displaced>>
       \/ /\ s \in finished
          /\ reader' = [reader EXCEPT ![r] = "end"]
          /\ UNCHANGED <<notify, given, queue, attached, finished, ended, left, displaced>>
       \/ /\ s \notin finished /\ queue[s] = <<>> /\ closed[s]
          /\ reader' = [reader EXCEPT ![r] = "end"]
          /\ Finish({s})
          /\ UNCHANGED <<notify, given, queue, displaced>>
       \/ /\ s \notin finished /\ queue[s] = <<>> /\ ~closed[s]
          /\ reader' = [reader EXCEPT ![r] = "pending"]
          /\ notify' = [notify EXCEPT ![s] = r]
          /\ displaced' = displaced \cup ({notify[s]} \ {NoReader})
          /\ UNCHANGED <<given, queue, attached, finished, ended, left>>
    /\ UNCHANGED <<published, dropped, policy, size, closed, joined>>

(* close() of the handles S, or return() of their iterators: the frames still    *)
(* queued are not delivered any more.                                            *)
Close(S) ==
    /\ \A s \in S : policy[s] # None
    /\ Notified(S, queue, [s \in Subscribers |-> closed[s] \/ s \in S])
    /\ Finish(S)
    /\ UNCHANGED <<published, dropped, policy, size, joined, displaced>>

(* Fault: closeStream() leaves the callbacks alone. *)
CloseStreamSilent ==
    /\ attached # {}
    /\ closed' = [s \in Subscribers |-> closed[s] \/ s \in attached]
    /\ ended' = ended \cup attached
    /\ left' = [s \in Subscribers |-> IF s \in attached THEN published ELSE left[s]]
    /\ attached' = {}
    /\ UNCHANGED <<published, dropped, policy, size, queue, notify, finished, reader, joined,
                   given, displaced>>

(* closeStream(): every handle ends once its queue is read; one whose reader is  *)
(* answered here finishes at once.                                               *)
CloseStream ==
    /\ attached # {}
    /\ Notified(attached, queue, [s \in Subscribers |-> closed[s] \/ s \in attached])
    /\ finished' = finished \cup {s \in attached : notify[s] # NoReader /\ queue[s] = <<>>}
    /\ ended' = ended \cup attached
    /\ left' = [s \in Subscribers |-> IF s \in attached THEN published ELSE left[s]]
    /\ attached' = {}
    /\ UNCHANGED <<published, dropped, policy, size, joined, displaced>>

(* A reader goes on with the answer of its promise. *)
Take(r) ==
    /\ reader[r] \in {"frame", "end"}
    /\ reader' = [reader EXCEPT ![r] = "idle"]
    /\ UNCHANGED <<published, dropped, policy, size, queue, closed, notify, attached, finished,
                   ended, joined, left, given, displaced>>

BusNext ==
    \/ Publish \/ CloseStream
    \/ \E s \in Subscribers :
          \/ \E p \in Policies, n \in BufferSizes : Subscribe(s, p, n)
          \/ Close({s})
    \/ \E r \in Readers : Next1(r) \/ Take(r)

BusSpec == BusInit /\ [][BusNext]_busVars
-----------------------------------------------------------------------------
Answers == {"idle", "pending", "frame", "end"}

BusTypeOK ==
    /\ published \in 0..MaxFrames /\ dropped \in Nat
    /\ policy \in [Subscribers -> BackpressurePolicies \cup {None}]
    /\ size \in [Subscribers -> Nat]
    /\ queue \in [Subscribers -> Seq(0..(MaxFrames - 1))]
    /\ closed \in [Subscribers -> BOOLEAN]
    /\ notify \in [Subscribers -> Readers \cup {NoReader}]
    /\ attached \subseteq Subscribers /\ finished \subseteq Subscribers
    /\ ended \subseteq Subscribers
    /\ reader \in [Readers -> Answers]
    /\ joined \in [Subscribers -> 0..MaxFrames]
    /\ left \in [Subscribers -> 0..MaxFrames]
    /\ given \in [Subscribers -> Seq(0..(MaxFrames - 1))]
    /\ displaced \subseteq Readers

(* A promise of next() is pending only while there is nothing to give: it is    *)
(* the one the callback answers, no frame is queued and the handle is open. The  *)
(* exception is a reader whose callback a second next() on its handle replaced.  *)
WaitingReaderIsNotified ==
    \A r \in Readers : (reader[r] = "pending" /\ r \notin displaced) =>
        LET s == HandleOf[r] IN
        /\ notify[s] = r /\ queue[s] = <<>>
        /\ ~closed[s] /\ s \in attached

(* No promise of next() is ever left behind, whoever calls it and when. *)
NoReaderLeftBehind ==
    \A r \in Readers : reader[r] = "pending" => notify[HandleOf[r]] = r

(* Every gap in what a subscriber with a dropping policy receives is counted:   *)
(* droppedFrames is what was published to those subscribers and neither given    *)
(* nor queued. <<s, n>> in Lost is the nth frame s did not get.                  *)
Until(s) == IF s \in attached THEN published ELSE left[s]
Missing(s) ==
    IF policy[s] \in {"drop-oldest", "drop-latest"}
    THEN Until(s) - joined[s] - Len(given[s]) - Len(queue[s]) ELSE 0
Lost == {p \in Subscribers \X (1..MaxFrames) : p[2] <= Missing(p[1])}
DropsAreCounted == dropped = Cardinality(Lost)

(* A slow consumer holds a bounded number of frames, and one that asked for the  *)
(* latest frame never has another one queued.                                    *)
BackpressureHolds ==
    \A s \in Subscribers : policy[s] # None =>
        IF policy[s] = "latest-only"
        THEN queue[s] \in {<<>>, <<Until(s) - 1>>}
        ELSE Len(queue[s]) <= size[s]

(* The stream bus gives each subscriber a feed of the stream. *)
Feed == INSTANCE FrameFeed WITH limit <- left, seen <- given
FeedSpec == Feed!FeedSpec
=============================================================================
