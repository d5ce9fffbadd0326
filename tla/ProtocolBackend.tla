---------------------------- MODULE ProtocolBackend ----------------------------
(* ProtocolDeviceBackend over a Session and the firmware behind it: calls of     *)
(* arm(), disarm(), safeState(), invoke() and close() overlap at their awaits,   *)
(* beside an interval timer that kicks the device's watchdog.                    *)
EXTENDS Session, FiniteSets

CONSTANTS Callers,    \* calls of the backend that may overlap
          Kicks,      \* bound: kicks in flight at once
          MaxCalls    \* bound: calls started

Watched == {"sys.arm", "sys.disarm", "gpio.write"}
Marks == {"applied", "armed"}

ASSUME BackendAssumption ==
    /\ Callers \subseteq Senders /\ Kicks \subseteq Senders
    /\ Callers \cap Kicks = {} /\ Prober \notin Callers \cup Kicks
    /\ Marks \cap Callers = {}
    /\ MaxCalls \in Nat

VARIABLES belief,     \* ProtocolDeviceBackend.state
          beating,    \* heartbeatTimer is set
          listening,  \* the handlers of the device's events are registered
          op,         \* per caller: what it awaits
          calls,
          since       \* history: the commands sent since a caller's arm or disarm (the
                      \* writes: since its gpio.stopAll), and, under a mark, since those
                      \* of the last call that returned applied or armed

backendVars == <<belief, beating, listening, op, calls, since>>
vars == <<fwVars, sessionVars, backendVars>>

Ops == {"idle", "arm", "disarm", "write", "safe:disarm", "safe:stop", "close:disarm"}
-----------------------------------------------------------------------------
BackendInit ==
    /\ SessionInit
    /\ belief = "disarmed" /\ beating = FALSE /\ listening = TRUE
    /\ op = [c \in Callers |-> "idle"]
    /\ calls = 0
    /\ since = [r \in Callers \cup Marks |-> Watched]

Sends(c, act, now) ==
    /\ Request(c, act, settled)
    /\ op' = [op EXCEPT ![c] = now]
    /\ UNCHANGED <<session, toHost, lineUp>>

Starts(c) ==
    /\ Settled /\ session \in {"connected", "closed"}
    /\ op[c] = "idle" /\ calls < MaxCalls
    /\ calls' = calls + 1
    /\ UNCHANGED <<fwVars, attempts, faults, belief>>

Noted(act) == [r \in DOMAIN since |-> since[r] \cup {act}]

CallArm(c) ==
    /\ Starts(c) /\ Sends(c, "sys.arm", "arm")
    /\ since' = [Noted("sys.arm") EXCEPT ![c] = {}]
    /\ UNCHANGED <<beating, listening>>

CallWrite(c) ==
    /\ Starts(c) /\ Sends(c, "gpio.write", "write")
    /\ since' = Noted("gpio.write")
    /\ UNCHANGED <<beating, listening>>

CallDisarm(c) ==
    /\ Starts(c) /\ Sends(c, "sys.disarm", "disarm")
    /\ beating' = FALSE
    /\ since' = Noted("sys.disarm")
    /\ UNCHANGED listening

CallSafeState(c) ==
    /\ Starts(c) /\ Sends(c, "sys.disarm", "safe:disarm")
    /\ beating' = FALSE
    /\ since' = [Noted("sys.disarm") EXCEPT ![c] = {}]
    /\ UNCHANGED listening

CallClose(c) ==
    /\ Starts(c)
    /\ beating' = FALSE /\ listening' = FALSE
    /\ IF belief = "armed"
       THEN Sends(c, "sys.disarm", "close:disarm") /\ since' = Noted("sys.disarm")
       ELSE CloseSession(settled) /\ UNCHANGED <<op, since>>

(* The heartbeat timer fires. *)
HeartbeatKicks(k) ==
    /\ Settled /\ beating /\ belief = "armed"
    /\ k \notin ToSet(pending)
    /\ Request(k, "watchdog.kick", settled)
    /\ UNCHANGED <<fwVars, session, attempts, toHost, lineUp, faults, backendVars>>

HeartbeatStops ==
    /\ Settled /\ beating /\ belief # "armed"
    /\ beating' = FALSE
    /\ UNCHANGED <<fwVars, sessionVars, belief, listening, op, calls, since>>

(* tripHandler(). *)
TripHeard ==
    /\ toHost # <<>> /\ Head(toHost) = [id |-> Broadcast, code |-> "device.tripped"]
    /\ toHost' = Tail(toHost)
    /\ IF listening /\ session = "connected"
       THEN belief' = "tripped" /\ beating' = FALSE
       ELSE UNCHANGED <<belief, beating>>
    /\ UNCHANGED <<fwVars, session, attempts, pending, settled, toDevice, lineUp, faults,
                   listening, op, calls, since>>
-----------------------------------------------------------------------------
(* What each awaiting function does with the result it was handed. *)
Result == Head(settled)
Got(c, what) == ~Settled /\ Result.id = c /\ op[c] = what
Returns(c) ==
    /\ op' = [op EXCEPT ![c] = "idle"]
    /\ settled' = Tail(settled)
    /\ UNCHANGED <<fwVars, session, attempts, pending, toDevice, toHost, lineUp, faults,
                   listening, calls>>

ArmReturns(c) ==
    /\ Got(c, "arm") /\ Returns(c)
    /\ IF Result.code = "ok"
       THEN belief' = "armed" /\ beating' = TRUE /\ since' = [since EXCEPT !["armed"] = since[c]]
       ELSE UNCHANGED <<belief, beating, since>>

DisarmReturns(c) ==
    /\ Got(c, "disarm") /\ Returns(c)
    /\ belief' = IF Result.code = "ok" THEN "disarmed" ELSE belief
    /\ UNCHANGED <<beating, since>>

WriteReturns(c) ==
    /\ Got(c, "write") /\ Returns(c)
    /\ UNCHANGED <<belief, beating, since>>

(* safeState() ignores how its disarm ended and goes on to gpio.stopAll. *)
SafeStateGoesOn(c) ==
    /\ Got(c, "safe:disarm")
    /\ Request(c, "gpio.stopAll", Tail(settled))
    /\ op' = [op EXCEPT ![c] = "safe:stop"]
    /\ since' = [since EXCEPT ![c] = @ \ {"gpio.write"}]
    /\ UNCHANGED <<fwVars, session, attempts, toHost, lineUp, faults, belief, beating,
                   listening, calls>>

\* Fault: applied: TRUE, however gpio.stopAll ended.
SafeStateReturnsAnyhow(c) ==
    /\ Got(c, "safe:stop") /\ Returns(c)
    /\ belief' = "disarmed" /\ since' = [since EXCEPT !["applied"] = since[c]]
    /\ UNCHANGED beating

\* Fault: the belief of the backend stays.
SafeStateReturnsArmed(c) ==
    /\ Got(c, "safe:stop") /\ Returns(c)
    /\ since' = IF Result.code = "ok" THEN [since EXCEPT !["applied"] = since[c]] ELSE since
    /\ beating' = (belief = "armed")
    /\ UNCHANGED belief

SafeStateReturns(c) ==
    /\ Got(c, "safe:stop") /\ Returns(c)
    /\ IF Result.code = "ok"
       THEN belief' = "disarmed" /\ since' = [since EXCEPT !["applied"] = since[c]]
       ELSE UNCHANGED <<belief, since>>
    /\ UNCHANGED beating

(* close(): whether or not the device was disarmed, the session is closed. *)
CloseReturns(c) ==
    /\ Got(c, "close:disarm")
    /\ belief' = IF Result.code = "ok" THEN "disarmed" ELSE belief
    /\ op' = [op EXCEPT ![c] = "idle"]
    /\ CloseSession(Tail(settled))
    /\ UNCHANGED <<fwVars, attempts, faults, beating, listening, calls, since>>

\* Fault: every error of a kick is taken for a disarmed device.
KickReturnsAlarmed(k) ==
    /\ ~Settled /\ Result.id = k
    /\ settled' = Tail(settled)
    /\ IF Result.code # "ok"
       THEN belief' = "disarmed" /\ beating' = FALSE
       ELSE UNCHANGED <<belief, beating>>
    /\ UNCHANGED <<fwVars, session, attempts, pending, toDevice, toHost, lineUp, faults,
                   listening, op, calls, since>>

\* Fault: NOT_ARMED is ignored.
KickReturnsTrippedOnly(k) ==
    /\ ~Settled /\ Result.id = k
    /\ settled' = Tail(settled)
    /\ IF Result.code = "WATCHDOG_TRIPPED"
       THEN belief' = "tripped" /\ beating' = FALSE
       ELSE UNCHANGED <<belief, beating>>
    /\ UNCHANGED <<fwVars, session, attempts, pending, toDevice, toHost, lineUp, faults,
                   listening, op, calls, since>>

(* The heartbeat's catch. *)
KickReturns(k) ==
    /\ ~Settled /\ Result.id = k
    /\ settled' = Tail(settled)
    /\ IF Result.code \in DeviceErrors
       THEN /\ belief' = IF Result.code = "NOT_ARMED" THEN "disarmed" ELSE "tripped"
            /\ beating' = FALSE
       ELSE UNCHANGED <<belief, beating>>
    /\ UNCHANGED <<fwVars, session, attempts, pending, toDevice, toHost, lineUp, faults,
                   listening, op, calls, since>>

CallReturns(c) ==
    ArmReturns(c) \/ DisarmReturns(c) \/ WriteReturns(c) \/ SafeStateGoesOn(c)
        \/ SafeStateReturns(c) \/ CloseReturns(c)

BackendStep ==
    \/ \E c \in Callers :
          \/ CallArm(c) \/ CallWrite(c) \/ CallDisarm(c) \/ CallSafeState(c) \/ CallClose(c)
          \/ ArmReturns(c) \/ DisarmReturns(c) \/ WriteReturns(c) \/ SafeStateGoesOn(c)
          \/ SafeStateReturns(c) \/ CloseReturns(c)
    \/ \E k \in Kicks : HeartbeatKicks(k) \/ KickReturns(k)
    \/ HeartbeatStops \/ TripHeard

BackendNext == BackendStep \/ (SessionStep /\ UNCHANGED backendVars)
BackendSpec == BackendInit /\ [][BackendNext]_vars

(* Timers fire, the event loop runs what is ready, and time passes on the device. *)
FairBackendSpec ==
    /\ BackendSpec
    /\ WF_vars((ListenTimeout \/ ProbeReturns) /\ UNCHANGED backendVars)
    /\ WF_vars((Answered \/ ReadyHeard) /\ UNCHANGED backendVars) /\ WF_vars(TripHeard)
    /\ \A s \in Senders : SF_vars(RequestTimeout(s) /\ UNCHANGED backendVars)
    /\ \A c \in Callers : WF_vars(CallReturns(c))
    /\ \A k \in Kicks : WF_vars(HeartbeatKicks(k)) /\ WF_vars(KickReturns(k))
    /\ WF_vars(HeartbeatStops)
    /\ WF_vars(DeviceHandles /\ UNCHANGED backendVars)
    /\ WF_vars(WatchdogRuns /\ UNCHANGED backendVars)
    /\ WF_vars(WatchdogTrips /\ UNCHANGED backendVars)
-----------------------------------------------------------------------------
BackendTypeOK ==
    /\ SessionTypeOK
    /\ belief \in {"disarmed", "armed", "tripped"}
    /\ beating \in BOOLEAN /\ listening \in BOOLEAN
    /\ op \in [Callers -> Ops]
    /\ calls \in 0..MaxCalls
    /\ since \in [Callers \cup Marks -> SUBSET Watched]

(* An output is driven only by an armed device: a late write, a reset and an    *)
(* expired watchdog never leave one on.                                         *)
OutputsNeedArming == out => fw = "armed"

(* A promise is settled once, by an answer to it: every request in flight has   *)
(* one caller waiting, and every caller waits for one request or result.        *)
EveryWaitIsAnswered ==
    \A c \in Callers :
        Cardinality({i \in DOMAIN pending : pending[i] = c})
          + Cardinality({i \in DOMAIN settled : settled[i].id = c})
          = IF op[c] = "idle" THEN 0 ELSE 1

(* safeState() reports applied: TRUE: the outputs are off, and stay off until    *)
(* something is written, although an answer may be late and a disarm lost.       *)
SafeStateStopsOutputs == "gpio.write" \notin since["applied"] => ~out

(* ... and a safe state whose disarm was swallowed with its error still ends     *)
(* with a device that is not armed, unless it is armed again: the backend no      *)
(* longer feeds its watchdog.                                                   *)
SafeStateDisarms ==
    ("sys.arm" \notin since["applied"]) ~> (fw # "armed" \/ "sys.arm" \in since["applied"])

(* A kick answered late never takes an armed backend for disarmed: since the     *)
(* sys.arm it last saw acknowledged, with no other arm or disarm sent, only a     *)
(* device that really left the armed state answers a kick with an error.          *)
BeliefIsDroppedForCause ==
    [][(/\ belief = "armed" /\ belief' # "armed"
        /\ ~Settled /\ Result.id \in Kicks
        /\ since["armed"] \cap {"sys.arm", "sys.disarm"} = {}) => fw # "armed"]_vars

(* A device that nobody feeds any more ends its outputs by itself. *)
HostLossTrips == (fw = "armed" /\ ~lineUp) ~> fw # "armed"

(* A backend that feeds a device which reset, tripped or was disarmed finds out. *)
BeliefCatchesUp ==
    (belief = "armed" /\ beating /\ fw # "armed" /\ lineUp)
        ~> (belief # "armed" \/ ~beating \/ fw = "armed" \/ ~lineUp)

(* Every call returns, also after the transport ended or the session closed, and *)
(* connect() with a session that is connected or closed.                          *)
CallsReturn ==
    /\ \A c \in Callers : op[c] # "idle" ~> op[c] = "idle"
    /\ session = "listening" ~> session \in {"connected", "closed"}

(* "Host tears down background heartbeat and closes transport": once the session *)
(* is closed and every call is over, no timer goes on kicking it.                 *)
NoHeartbeatAfterClose ==
    (session = "closed" /\ ~listening /\ \A c \in Callers : op[c] = "idle")
        => ~(beating /\ belief = "armed")
=============================================================================
