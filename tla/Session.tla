-------------------------------- MODULE Session --------------------------------
(* Session: requests over a transport of lines to the device and back. Each      *)
(* direction keeps its order; a line may be lost, an answer may come after its   *)
(* request has timed out, the device may reset, the transport may end.           *)
EXTENDS Firmware, Sequences, SequencesExt

CONSTANTS Senders,      \* request slots: a slot has at most one request in flight
          Prober,       \* the slot of connect()'s sys.hello
          Nobody,       \* the id of a request that settled: its answer is ignored
          Broadcast,    \* the id of an event
          MaxAttempts,  \* bound: sys.hello attempts before connect()'s deadline
          MaxFaults     \* bound: lines lost, late answers, resets, an end of the transport

ASSUME SessionAssumption ==
    /\ Prober \in Senders /\ Nobody \notin Senders /\ Broadcast \notin Senders
    /\ Nobody # Broadcast
    /\ MaxAttempts \in Nat \ {0} /\ MaxFaults \in Nat

VARIABLES session,    \* "new", "listening" for ready, "probing", "connected", "closed"
          attempts,   \* sys.hello requests sent
          pending,    \* the slots of unanswered requests, in the order of the Map
          settled,    \* results whose awaiting callers have not run yet
          toDevice, toHost,
          lineUp,     \* the transport's readable has not ended
          faults

sessionVars == <<session, attempts, pending, settled, toDevice, toHost, lineUp, faults>>

Codes == {"ok", "timeout", "disconnected"} \cup DeviceErrors
Events == {"ready", "device.tripped"}
Results == [id : Senders, code : Codes]
Ids == Senders \cup {Nobody}

(* Promise callbacks run before any timer, timeout or new call. *)
Settled == settled = <<>>
-----------------------------------------------------------------------------
SessionInit ==
    /\ FwInit
    /\ session = "new" /\ attempts = 0
    /\ pending = <<>> /\ settled = <<>>
    /\ toDevice = <<>> /\ toHost = <<>>
    /\ lineUp = TRUE /\ faults = 0

\* Fault: the rejected requests stay in the Map.
RejectAllKeeping(before) ==
    /\ UNCHANGED pending
    /\ settled' = before \o [i \in 1..Len(pending) |-> [id |-> pending[i], code |-> "disconnected"]]

\* Fault: the Map is cleared and nobody is told.
RejectAllSilently(before) == pending' = <<>> /\ settled' = before

(* finishPending(): the request of slot s leaves the Map. *)
FinishPending(s) == \E i \in DOMAIN pending : pending[i] = s /\ pending' = RemoveAt(pending, i)

(* finishPending() and reject() of every request in flight, after what `before` *)
(* leaves of the settled ones.                                                  *)
RejectAll(before) ==
    /\ pending' = <<>>
    /\ settled' = before \o [i \in 1..Len(pending) |-> [id |-> pending[i], code |-> "disconnected"]]

(* request() of slot s; rest are the results that are still to be handed out. *)
Request(s, act, rest) ==
    IF session = "connected"
    THEN /\ pending' = Append(pending, s)
         /\ settled' = rest
         /\ toDevice' = IF lineUp THEN Append(toDevice, [id |-> s, act |-> act]) ELSE toDevice
    ELSE /\ settled' = Append(rest, [id |-> s, code |-> "disconnected"])
         /\ UNCHANGED <<pending, toDevice>>

(* The first n lines of what was sent still reach the device; nobody waits. *)
Drained(n) == [i \in 1..n |-> [toDevice[i] EXCEPT !.id = Nobody]]

(* close(). *)
CloseSession(rest) ==
    IF session = "closed"
    THEN settled' = rest /\ UNCHANGED <<session, pending, toDevice, toHost, lineUp>>
    ELSE /\ session' = "closed"
         /\ RejectAll(rest)
         /\ \E n \in 0..Len(toDevice) : toDevice' = Drained(n)
         /\ toHost' = <<>>
         /\ lineUp' = FALSE

(* connect(): the transport opens. *)
Open ==
    /\ session = "new"
    /\ session' = "listening"
    /\ UNCHANGED <<fwVars, attempts, pending, settled, toDevice, toHost, lineUp, faults>>

SendHello(rest) ==
    /\ attempts' = attempts + 1
    /\ pending' = Append(pending, Prober)
    /\ settled' = rest
    /\ toDevice' = IF lineUp THEN Append(toDevice, [id |-> Prober, act |-> "sys.hello"]) ELSE toDevice

(* The 300 ms of waitForReady() pass. *)
ListenTimeout ==
    /\ session = "listening"
    /\ session' = "probing"
    /\ SendHello(settled)
    /\ UNCHANGED <<fwVars, toHost, lineUp, faults>>

(* requestHello() has the result of an attempt. *)
ProbeReturns ==
    /\ ~Settled /\ Head(settled).id = Prober
    /\ LET code == Head(settled).code  rest == Tail(settled) IN
       \/ /\ code = "ok"
          /\ session' = "connected"
          /\ settled' = rest
          /\ UNCHANGED <<attempts, pending, toDevice, toHost, lineUp>>
       \/ /\ code = "timeout" /\ attempts < MaxAttempts
          /\ SendHello(rest)
          /\ UNCHANGED <<session, toHost, lineUp>>
       \/ /\ code = "timeout" => attempts = MaxAttempts
          /\ code # "ok"
          /\ CloseSession(rest)
          /\ UNCHANGED attempts
    /\ UNCHANGED <<fwVars, faults>>
-----------------------------------------------------------------------------
Disown(q, s) == [i \in 1..Len(q) |-> IF q[i].id = s THEN [q[i] EXCEPT !.id = Nobody] ELSE q[i]]
OnItsWay(s) == \E m \in ToSet(toDevice) \cup ToSet(toHost) : m.id = s

(* A request's timer fires: its line or its answer is lost, or late. *)
RequestTimeout(s) ==
    /\ Settled /\ s \in ToSet(pending)
    /\ OnItsWay(s) => faults < MaxFaults
    /\ faults' = IF OnItsWay(s) THEN faults + 1 ELSE faults
    /\ FinishPending(s)
    /\ settled' = Append(settled, [id |-> s, code |-> "timeout"])
    /\ toDevice' = Disown(toDevice, s)
    /\ toHost' = Disown(toHost, s)
    /\ UNCHANGED <<fwVars, session, attempts, lineUp>>

(* readLoop() and handleResponse(), which ignores an answer nobody waits for. *)
Answered ==
    /\ toHost # <<>> /\ Head(toHost).id # Broadcast
    /\ toHost' = Tail(toHost)
    /\ \/ /\ FinishPending(Head(toHost).id)
          /\ settled' = Append(settled, Head(toHost))
       \/ /\ Head(toHost).id \notin ToSet(pending)
          /\ UNCHANGED <<pending, settled>>
    /\ UNCHANGED <<fwVars, session, attempts, toDevice, lineUp, faults>>

(* handleEvent() of ready: connect() goes on to sys.hello, otherwise nothing. *)
ReadyHeard ==
    /\ toHost # <<>> /\ Head(toHost) = [id |-> Broadcast, code |-> "ready"]
    /\ toHost' = Tail(toHost)
    /\ IF session = "listening"
       THEN session' = "probing" /\ SendHello(settled)
       ELSE UNCHANGED <<session, attempts, pending, settled, toDevice>>
    /\ UNCHANGED <<fwVars, lineUp, faults>>

(* The transport ends: readLoop() rejects what is pending, the session stays open. *)
TransportEnds ==
    /\ lineUp /\ session # "new" /\ faults < MaxFaults
    /\ faults' = faults + 1
    /\ lineUp' = FALSE
    /\ RejectAll(settled)
    /\ toHost' = <<>>
    /\ \E n \in 0..Len(toDevice) : toDevice' = Drained(n)
    /\ UNCHANGED <<fwVars, session, attempts>>
-----------------------------------------------------------------------------
Says(message) == toHost' = IF lineUp THEN Append(toHost, message) ELSE toHost

(* The firmware reads a line. An answer nobody waits for is left out. *)
DeviceHandles ==
    /\ toDevice # <<>>
    /\ toDevice' = Tail(toDevice)
    /\ \E code \in {"ok"} \cup DeviceErrors :
          /\ Handles(Head(toDevice).act, code)
          /\ IF Head(toDevice).id = Nobody THEN UNCHANGED toHost
             ELSE Says([id |-> Head(toDevice).id, code |-> code])
    /\ UNCHANGED <<session, attempts, pending, settled, lineUp, faults>>

WatchdogRuns == Elapse /\ UNCHANGED sessionVars

\* Fault: a device that cannot report does not trip.
WatchdogTripsHeard ==
    /\ lineUp
    /\ Trip
    /\ Says([id |-> Broadcast, code |-> "device.tripped"])
    /\ UNCHANGED <<session, attempts, pending, settled, toDevice, lineUp, faults>>

WatchdogTrips ==
    /\ Trip
    /\ Says([id |-> Broadcast, code |-> "device.tripped"])
    /\ UNCHANGED <<session, attempts, pending, settled, toDevice, lineUp, faults>>

(* setup() discards what it has received and says ready. *)
DeviceResets ==
    /\ faults < MaxFaults
    /\ faults' = faults + 1
    /\ Boot
    /\ toDevice' = <<>>
    /\ Says([id |-> Broadcast, code |-> "ready"])
    /\ UNCHANGED <<session, attempts, pending, settled, lineUp>>

(* A line that is malformed when it arrives is discarded. *)
LineLost ==
    /\ faults < MaxFaults
    /\ faults' = faults + 1
    /\ \/ toDevice # <<>> /\ toDevice' = Tail(toDevice) /\ UNCHANGED toHost
       \/ toHost # <<>> /\ toHost' = Tail(toHost) /\ UNCHANGED toDevice
    /\ UNCHANGED <<fwVars, session, attempts, pending, settled, lineUp>>

(* Everything that happens without the backend. *)
SessionStep ==
    \/ Open \/ ListenTimeout \/ ProbeReturns \/ Answered \/ ReadyHeard \/ TransportEnds
    \/ \E s \in Senders : RequestTimeout(s)
    \/ DeviceHandles \/ WatchdogRuns \/ WatchdogTrips \/ DeviceResets \/ LineLost

SessionTypeOK ==
    /\ fw \in {"disarmed", "armed", "tripped"} /\ out \in BOOLEAN /\ left \in 0..Timeout
    /\ session \in {"new", "listening", "probing", "connected", "closed"}
    /\ attempts \in 0..MaxAttempts
    /\ pending \in Seq(Senders)
    /\ settled \in Seq(Results)
    /\ toDevice \in Seq([id : Ids, act : Commands])
    /\ toHost \in Seq([id : Ids, code : Codes] \cup [id : {Broadcast}, code : Events])
    /\ lineUp \in BOOLEAN
    /\ faults \in 0..MaxFaults
=============================================================================
