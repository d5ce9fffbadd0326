----------------------------- MODULE StreamSocket -----------------------------
(* attachStreamSockets() of the daemon over StreamBus: each WebSocket has a      *)
(* latest-only subscription with room for one frame, and a loop that awaits a    *)
(* frame, sends it and awaits the send.                                          *)
EXTENDS StreamBus

CONSTANTS Sockets,   \* the handles that belong to WebSockets
          PumpOf     \* the loop of a socket, the only reader of its handle

ASSUME SocketAssumption ==
    /\ Sockets \subseteq Subscribers
    /\ PumpOf \in [Sockets -> Readers]
    /\ \A s \in Sockets, r \in Readers : HandleOf[r] = s <=> PumpOf[s] = r

VARIABLES ws,        \* per socket: readyState, or "none" before the upgrade
          pump,      \* per socket: where its loop is
          serving    \* FALSE once the function attachStreamSockets() returned was called

socketVars == <<ws, pump, serving>>
allVars == <<busVars, socketVars>>

Others == Subscribers \ Sockets
-----------------------------------------------------------------------------
SocketInit ==
    /\ BusInit
    /\ ws = [s \in Sockets |-> "none"]
    /\ pump = [s \in Sockets |-> "off"]
    /\ serving = TRUE

(* The upgrade of a connection: subscribe() and the start of the loop. *)
Connect(s) ==
    /\ serving /\ ws[s] = "none"
    /\ Subscribe(s, "latest-only", 1)
    /\ ws' = [ws EXCEPT ![s] = "open"]
    /\ pump' = [pump EXCEPT ![s] = "loop"]
    /\ UNCHANGED serving

PumpAwaits(s) ==
    /\ pump[s] = "loop"
    /\ Next1(PumpOf[s])
    /\ UNCHANGED socketVars

(* The loop has a frame and the socket is open: ws.send(). *)
PumpSends(s) ==
    /\ pump[s] = "loop" /\ reader[PumpOf[s]] = "frame" /\ ws[s] = "open"
    /\ Take(PumpOf[s])
    /\ pump' = [pump EXCEPT ![s] = "sending"]
    /\ UNCHANGED <<ws, serving>>

(* The loop breaks: the socket is not open any more, or the frame exceeds 8 MiB. *)
(* return() of the iterator and cleanup() close the handle.                      *)
PumpBreaks(s) ==
    /\ pump[s] = "loop" /\ reader[PumpOf[s]] = "frame"
    /\ Close({s})
    /\ ws' = [ws EXCEPT ![s] = IF @ = "open" THEN "closing" ELSE @]
    /\ pump' = [pump EXCEPT ![s] = "over"]
    /\ UNCHANGED serving

(* The iterator is done: the socket is closed with "Stream ended." *)
PumpEnds(s) ==
    /\ pump[s] = "loop" /\ reader[PumpOf[s]] = "end"
    /\ Close({s})
    /\ ws' = [ws EXCEPT ![s] = IF @ = "open" THEN "closing" ELSE @]
    /\ pump' = [pump EXCEPT ![s] = "over"]
    /\ UNCHANGED serving

Sent(s) ==
    /\ pump[s] = "sending"
    /\ pump' = [pump EXCEPT ![s] = "loop"]
    /\ UNCHANGED <<busVars, ws, serving>>

(* Fault: the socket is terminated, the loop goes on waiting for its send. *)
SendFailsWaiting(s) ==
    /\ pump[s] = "sending"
    /\ Close({s})
    /\ ws' = [ws EXCEPT ![s] = IF @ = "open" THEN "closing" ELSE @]
    /\ UNCHANGED <<pump, serving>>

(* send() fails, or five seconds pass without its callback: terminate(). *)
SendFails(s) ==
    /\ pump[s] = "sending"
    /\ Close({s})
    /\ ws' = [ws EXCEPT ![s] = IF @ = "open" THEN "closing" ELSE @]
    /\ pump' = [pump EXCEPT ![s] = "over"]
    /\ UNCHANGED serving

(* The peer sends a message on a read-only stream. *)
PeerTalks(s) ==
    /\ ws[s] = "open"
    /\ ws' = [ws EXCEPT ![s] = "closing"]
    /\ UNCHANGED <<busVars, pump, serving>>

(* Fault: the close event is not handled. *)
SocketClosesUnseen(s) ==
    /\ ws[s] \in {"open", "closing"}
    /\ ws' = [ws EXCEPT ![s] = "closed"]
    /\ UNCHANGED <<busVars, pump, serving>>

(* The socket's close event: cleanup(). *)
SocketCloses(s) ==
    /\ ws[s] \in {"open", "closing"}
    /\ Close({s})
    /\ ws' = [ws EXCEPT ![s] = "closed"]
    /\ UNCHANGED <<pump, serving>>

(* The daemon stops: every subscription is closed and every socket terminated. *)
Shutdown ==
    LET open == {s \in Sockets : ws[s] \in {"open", "closing"}} IN
    /\ serving
    /\ serving' = FALSE
    /\ Close(open)
    /\ ws' = [s \in Sockets |-> IF ws[s] = "open" THEN "closing" ELSE ws[s]]
    /\ UNCHANGED pump

PumpSteps(s) ==
    PumpAwaits(s) \/ PumpSends(s) \/ PumpBreaks(s) \/ PumpEnds(s)

SocketStep ==
    \/ \E s \in Sockets :
          \/ Connect(s) \/ PumpAwaits(s) \/ PumpSends(s) \/ PumpBreaks(s) \/ PumpEnds(s)
          \/ Sent(s) \/ SendFails(s) \/ PeerTalks(s) \/ SocketCloses(s)
    \/ Shutdown

(* The bus, as everyone else uses it. *)
BusStep ==
    /\ \/ Publish \/ CloseStream
       \/ \E s \in Others :
             \/ \E p \in Policies, n \in BufferSizes : Subscribe(s, p, n)
             \/ Close({s})
       \/ \E r \in Readers : HandleOf[r] \in Others /\ (Next1(r) \/ Take(r))
    /\ UNCHANGED socketVars

SocketNext == SocketStep \/ BusStep
SocketSpec == SocketInit /\ [][SocketNext]_allVars

(* The event loop resumes the loop of a socket, and the timer of a send fires. *)
FairSocketSpec ==
    SocketSpec /\ \A s \in Sockets : WF_allVars(PumpSteps(s)) /\ WF_allVars(SendFails(s))
-----------------------------------------------------------------------------
SocketTypeOK ==
    /\ BusTypeOK
    /\ ws \in [Sockets -> {"none", "open", "closing", "closed"}]
    /\ pump \in [Sockets -> {"off", "loop", "sending", "over"}]
    /\ serving \in BOOLEAN

(* No subscription outlives its connection: whatever ends first (the loop, the   *)
(* socket, the daemon), the handle has left the bus and the socket is closing.   *)
NothingLeaks ==
    \A s \in Sockets :
        /\ (ws[s] = "closed" \/ (ws[s] # "none" /\ ~serving)) => s \in finished \ attached
        /\ pump[s] = "over" => s \in finished \ attached /\ ws[s] \in {"closing", "closed"}

(* A subscription that ended, however it ended, ends its loop: also one that     *)
(* waits for a frame, holds one, or is sending to a peer that never reads.       *)
LoopsEnd == \A s \in Sockets :
    (policy[s] # None /\ s \notin attached) ~> pump[s] = "over"
=============================================================================
