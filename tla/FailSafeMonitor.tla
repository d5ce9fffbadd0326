---------------------------- MODULE FailSafeMonitor ----------------------------
(***************************************************************************)
(* The daemon's fail-safe timer over the leases, the deadman heartbeats    *)
(* and the devices that arm and disarm.  A tick drains the expired leases, *)
(* fail-safes the device of each, then looks for devices whose host went   *)
(* silent; it awaits applySafeState() of one device at a time, and calls,  *)
(* heartbeats and lease traffic come in between.  An interval that finds   *)
(* the previous tick still running is skipped.                             *)
(***************************************************************************)
EXTENDS LeaseManager

CONSTANTS
  Calls,         \* sys.arm and sys.disarm invocations in flight at once
  NoDevice,
  RequireLeases, \* config.requireLeases: sys.arm carries a lease rule
  DeadmanMaxAge, \* defaultDeadmanMaxAgeMs, in ticks
  RuleMaxAge,    \* the strictest deadman rule's age, in ticks; 0: no rule
  MaySafeFail    \* may applySafeState() reject?

ASSUME FailSafeAssumption ==
  /\ NoDevice \notin Devices
  /\ RequireLeases \in BOOLEAN
  /\ DeadmanMaxAge \in Nat
  /\ RuleMaxAge \in Nat
  /\ MaySafeFail \in BOOLEAN

VARIABLES
  registered, \* runtime.devices()
  armed,      \* FailSafeMonitor.armed: when the device was marked armed
  heard,      \* SafetyEngine.deadman: last heartbeat of a device
  phase,      \* where tick() stands; "idle": not running
  drained,    \* expired leases this tick has still to fail-safe
  unchecked,  \* devices this tick has still to check
  asOf,       \* Date.now() when checkDeadman() began
  applying,   \* the device whose applySafeState() is awaited
  reached,    \* that safe state took effect on the hardware
  call,       \* the sys.arm and sys.disarm calls in flight
  hardware    \* the devices whose hardware is armed

monitorVars == <<armed, heard, phase, drained, unchecked, asOf, applying, reached>>
deviceVars == <<registered, call, hardware>>
failSafeVars == <<leaseVars, monitorVars, deviceVars>>

Never == -1

NoCall == [device |-> NoDevice, kind |-> "sys.arm", taken |-> FALSE]
Idle(i) == call[i] = NoCall
Busy(d) == applying = d \/ \E i \in Calls : call[i].device = d

-----------------------------------------------------------------------------
\* markArmed()
MarkArmed(d) ==
  /\ armed' = [armed EXCEPT ![d] = clock]
  /\ heard' = [heard EXCEPT ![d] = clock]

\* markDisarmed()
MarkDisarmed(d) ==
  /\ armed' = [armed EXCEPT ![d] = Never]
  /\ heard' = [heard EXCEPT ![d] = Never]

\* The age past which checkDeadman() acts on d, when it watches d at all.
Watched(d) == armed[d] # Never \/ (heard[d] # Never /\ RuleMaxAge > 0)
MaxAge(d) == IF armed[d] # Never THEN DeadmanMaxAge ELSE RuleMaxAge

\* Fault: heartbeats do not count.
ReferenceArmed(d) == IF armed[d] # Never THEN armed[d] ELSE heard[d]

Reference(d) == IF heard[d] # Never THEN heard[d] ELSE armed[d]

Stale(d, at) == Watched(d) /\ at - Reference(d) > MaxAge(d)

\* applyFailSafe() up to its await; a device that left is forgotten at once.
StartFailSafe(d) ==
  IF d \in registered
  THEN applying' = d /\ reached' = FALSE /\ UNCHANGED <<armed, heard>>
  ELSE MarkDisarmed(d) /\ UNCHANGED <<applying, reached>>

-----------------------------------------------------------------------------
(* tick() *)

TickStarts ==
  /\ phase = "idle"
  /\ phase' = "leases"
  /\ held' = Live
  /\ drained' = held \ Live
  /\ UNCHANGED <<lease, clock, armed, heard, unchecked, asOf, applying, reached,
                 deviceVars>>

\* reapLeases(), the next expired lease in the order of the Map.
FailSafeExpired(l) ==
  /\ phase = "leases"
  /\ applying = NoDevice
  /\ l \in drained
  /\ \A k \in drained : l <= k
  /\ drained' = drained \ {l}
  /\ StartFailSafe(lease[l].scope.device)
  /\ UNCHANGED <<leaseVars, phase, unchecked, asOf, deviceVars>>

\* checkDeadman() up to its loop
CheckStarts ==
  /\ phase = "leases"
  /\ applying = NoDevice
  /\ drained = {}
  /\ phase' = "deadman"
  /\ asOf' = clock
  /\ unchecked' = {d \in Devices : armed[d] # Never} \cup registered
  /\ UNCHANGED <<leaseVars, armed, heard, drained, applying, reached, deviceVars>>

\* Its loop, in no particular order.
CheckDevice(d) ==
  /\ phase = "deadman"
  /\ applying = NoDevice
  /\ d \in unchecked
  /\ unchecked' = unchecked \ {d}
  /\ IF Stale(d, asOf) THEN StartFailSafe(d)
     ELSE UNCHANGED <<armed, heard, applying, reached>>
  /\ UNCHANGED <<leaseVars, phase, drained, asOf, deviceVars>>

TickEnds ==
  /\ phase = "deadman"
  /\ applying = NoDevice
  /\ unchecked = {}
  /\ phase' = "idle"
  /\ UNCHANGED <<leaseVars, armed, heard, drained, unchecked, asOf, applying,
                 reached, deviceVars>>

\* The safe state takes effect before the await ends.
SafeStateTakes ==
  /\ applying \in registered
  /\ ~reached
  /\ reached' = TRUE
  /\ hardware' = hardware \ {applying}
  /\ UNCHANGED <<leaseVars, armed, heard, phase, drained, unchecked, asOf,
                 applying, registered, call>>

\* Fault: a rejected applySafeState() escapes, and `running` stays up.
FailSafeSettlesOrEscapes ==
  /\ applying # NoDevice
  /\ reached \/ MaySafeFail
  /\ applying' = NoDevice
  /\ IF reached THEN MarkDisarmed(applying) /\ UNCHANGED phase
     ELSE phase' = "escaped" /\ UNCHANGED <<armed, heard>>
  /\ UNCHANGED <<leaseVars, drained, unchecked, asOf, reached, deviceVars>>

\* applySafeState() resolved or rejected: either way the device is forgotten.
FailSafeSettles ==
  /\ applying # NoDevice
  /\ reached \/ MaySafeFail \/ applying \notin registered
  /\ applying' = NoDevice
  /\ MarkDisarmed(applying)
  /\ UNCHANGED <<leaseVars, phase, drained, unchecked, asOf, reached, deviceVars>>

-----------------------------------------------------------------------------
(* Calls, heartbeats, devices *)

\* sys.arm passes the lease rule, whose permits() drops expired leases, and is
\* sent; sys.disarm carries no lease rule.
Send(i, o, d, kind) ==
  /\ Idle(i)
  /\ d \in registered
  /\ IF kind = "sys.arm" /\ RequireLeases
     THEN Permits(o, d, kind, "exclusive") /\ held' = Live
     ELSE UNCHANGED held
  /\ call' = [call EXCEPT ![i] = [device |-> d, kind |-> kind, taken |-> FALSE]]
  /\ UNCHANGED <<lease, clock, monitorVars, registered, hardware>>

\* The device does it.
Takes(i) ==
  /\ ~Idle(i)
  /\ ~call[i].taken
  /\ call' = [call EXCEPT ![i].taken = TRUE]
  /\ hardware' = IF call[i].kind = "sys.arm" THEN hardware \cup {call[i].device}
                 ELSE hardware \ {call[i].device}
  /\ UNCHANGED <<leaseVars, monitorVars, registered>>

\* The reply comes back to the run that the daemon began.
Returns(i) ==
  /\ ~Idle(i)
  /\ call[i].taken
  /\ call' = [call EXCEPT ![i] = NoCall]
  /\ IF call[i].kind = "sys.arm" THEN MarkArmed(call[i].device)
     ELSE MarkDisarmed(call[i].device)
  /\ UNCHANGED <<leaseVars, phase, drained, unchecked, asOf, applying, reached,
                 registered, hardware>>

\* The device refuses.
Refused(i) ==
  /\ ~Idle(i)
  /\ ~call[i].taken
  /\ call' = [call EXCEPT ![i] = NoCall]
  /\ UNCHANGED <<leaseVars, monitorVars, registered, hardware>>

Heartbeat(d) ==
  /\ d \in registered
  /\ heard' = [heard EXCEPT ![d] = clock]
  /\ UNCHANGED <<leaseVars, armed, phase, drained, unchecked, asOf, applying,
                 reached, deviceVars>>

\* A device joins with its hardware disarmed.
Plug(d) ==
  /\ d \notin registered
  /\ ~Busy(d)
  /\ registered' = registered \cup {d}
  /\ hardware' = hardware \ {d}
  /\ UNCHANGED <<leaseVars, monitorVars, call>>

\* unregister(): the calls on it fail, a safe state under way settles.
Unplug(d) ==
  /\ d \in registered
  /\ registered' = registered \ {d}
  /\ call' = [i \in Calls |-> IF call[i].device = d THEN NoCall ELSE call[i]]
  /\ UNCHANGED <<leaseVars, monitorVars, hardware>>

-----------------------------------------------------------------------------
FailSafeInit ==
  /\ LeaseInit
  /\ registered = {}
  /\ armed = [d \in Devices |-> Never]
  /\ heard = [d \in Devices |-> Never]
  /\ phase = "idle"
  /\ drained = {}
  /\ unchecked = {}
  /\ asOf = 0
  /\ applying = NoDevice
  /\ reached = FALSE
  /\ call = [i \in Calls |-> NoCall]
  /\ hardware = {}

TickStep ==
  \/ TickStarts
  \/ \E l \in Numbers : FailSafeExpired(l)
  \/ CheckStarts
  \/ \E d \in Devices : CheckDevice(d)
  \/ TickEnds

Backend == SafeStateTakes \/ FailSafeSettles

CallStep ==
  \/ \E i \in Calls, o \in Owners, d \in Devices :
       Send(i, o, d, "sys.arm") \/ Send(i, o, d, "sys.disarm")
  \/ \E i \in Calls : Takes(i) \/ Returns(i) \/ Refused(i)

DeviceStep == \E d \in Devices : Heartbeat(d) \/ Plug(d) \/ Unplug(d)

\* The daemon releases a lease only after get() found it live, and by force
\* never.
LeaseStep ==
  /\ \/ \E o \in Owners, s \in Scopes, m \in Modes, t \in Ttls : Acquire(o, s, m, t)
     \/ \E l \in Numbers \cap Live, o \in Owners :
          Release(l, o) \/ \E t \in Ttls : Renew(l, o, t)
     \/ \E l \in Numbers : MeetExpired(l)
     \/ Reap
     \/ LeaseTick
  /\ UNCHANGED <<monitorVars, deviceVars>>

FailSafeNext == TickStep \/ Backend \/ CallStep \/ DeviceStep \/ LeaseStep

FailSafeSpec == FailSafeInit /\ [][FailSafeNext]_failSafeVars

\* The interval timer goes on, and applySafeState() settles one way or another.
FairFailSafeSpec ==
  FailSafeSpec /\ WF_failSafeVars(TickStep) /\ WF_failSafeVars(Backend)

-----------------------------------------------------------------------------
(* Properties *)

\* Types of the monitor; a running tick awaits at most one registered device.
FailSafeTypeOK ==
  /\ LeaseTypeOK
  /\ armed \in [Devices -> 0..clock \cup {Never}]
  /\ heard \in [Devices -> 0..clock \cup {Never}]
  /\ phase \in {"idle", "leases", "deadman"}
  /\ drained \subseteq DOMAIN lease \ held
  /\ unchecked \subseteq Devices
  /\ applying \in Devices \cup {NoDevice}
  /\ applying # NoDevice => phase # "idle"
  /\ hardware \subseteq Devices

\* checkDeadman() compares a time read before its awaits with heartbeats read
\* after them: still it never fail-safes a device whose host was heard within
\* the age it allows.
HeartbeatProtects ==
  [][\A d \in Devices :
       phase = "deadman" /\ applying' = d /\ applying # d
         => clock - heard[d] > MaxAge(d)]_failSafeVars

\* "When a deadman heartbeat goes stale, the daemon disarms": a device that is
\* armed, or registered under a deadman rule, and stays silent is taken off the
\* watch list by a fail-safe, whatever the tick was doing and however its safe
\* states end.
Silent(d) ==
  /\ d \in registered \/ armed[d] # Never
  /\ Stale(d, clock)
SilenceIsAnswered == \A d \in Devices : Silent(d) ~> ~Silent(d)

\* "When a lease expires, the daemon applies the device safeState": a lease on
\* an armed device that leaves the Map because it expired is one the monitor
\* drained.
ExpiryFailsSafe ==
  [][\A l \in held \ held' :
       Expired(l) /\ lease[l].scope.device \in registered \cap hardware
         => l \in drained']_failSafeVars
=============================================================================
