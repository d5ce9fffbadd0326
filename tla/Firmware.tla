------------------------------- MODULE Firmware -------------------------------
(* The ESP32 bridge firmware: arming, the deadman watchdog and an output of the *)
(* default safe level "low". loop() is single threaded: a request is handled    *)
(* whole, and checkWatchdog() runs before and after each.                       *)
EXTENDS Integers

CONSTANT Timeout    \* watchdogTimeoutMs, in ticks of millis()

ASSUME TimeoutAssumption == Timeout \in Nat \ {0}

VARIABLES fw,     \* deviceState
          out,    \* an output is driven
          left    \* ticks until watchdogDeadline; 0 while not armed

fwVars == <<fw, out, left>>

Commands == {"sys.hello", "sys.arm", "sys.disarm", "watchdog.kick", "gpio.write", "gpio.stopAll"}
DeviceErrors == {"NOT_ARMED", "WATCHDOG_TRIPPED"}

(* The error of a command that needs the armed state. *)
Refusal == IF fw = "tripped" THEN "WATCHDOG_TRIPPED" ELSE "NOT_ARMED"
-----------------------------------------------------------------------------
(* A host may find the device booted, tripped, or armed by the host before it. *)
FwInit ==
    /\ fw \in {"disarmed", "armed", "tripped"}
    /\ out \in BOOLEAN /\ (out => fw = "armed")
    /\ left = IF fw = "armed" THEN Timeout ELSE 0

Arm ==
    /\ fw' = "armed"
    /\ left' = Timeout
    /\ UNCHANGED out

Disarm ==
    /\ fw' = "disarmed"
    /\ out' = FALSE
    /\ left' = 0

Kick == fw = "armed" /\ left' = Timeout /\ UNCHANGED <<fw, out>>

(* checkActuationPrerequisites() and handleGpioWrite(), of either value. *)
Write ==
    /\ fw = "armed"
    /\ out' \in BOOLEAN
    /\ left' = Timeout
    /\ UNCHANGED fw

(* handleGpioStopAll() leaves the device in the state it is in. *)
StopAll == out' = FALSE /\ UNCHANGED <<fw, left>>

(* handleRequest(): what a command does, and the code of its answer. *)
Handles(act, code) ==
    /\ left = 0 => fw # "armed"
    /\ \/ act = "sys.hello" /\ code = "ok" /\ UNCHANGED fwVars
       \/ act = "sys.arm" /\ code = "ok" /\ Arm
       \/ act = "sys.disarm" /\ code = "ok" /\ Disarm
       \/ act = "watchdog.kick" /\ code = "ok" /\ Kick
       \/ act = "gpio.write" /\ code = "ok" /\ Write
       \/ act = "gpio.stopAll" /\ code = "ok" /\ StopAll
       \/ /\ act \in {"watchdog.kick", "gpio.write"} /\ fw # "armed"
          /\ code = Refusal
          /\ UNCHANGED fwVars

Elapse == fw = "armed" /\ left > 0 /\ left' = left - 1 /\ UNCHANGED <<fw, out>>

\* Fault: a trip changes the state only.
TripDriving ==
    /\ fw = "armed" /\ left = 0
    /\ fw' = "tripped"
    /\ UNCHANGED <<out, left>>

(* tripWatchdog(), but for the event it sends. *)
Trip ==
    /\ fw = "armed" /\ left = 0
    /\ fw' = "tripped"
    /\ out' = FALSE
    /\ UNCHANGED left

(* A reset: setup() starts from the initial values of the globals. *)
Boot ==
    /\ fw' = "disarmed"
    /\ out' = FALSE
    /\ left' = 0
=============================================================================
