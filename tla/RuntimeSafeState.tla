--------------------------- MODULE RuntimeSafeState ---------------------------
(***************************************************************************)
(* PinoutRuntime around the halt latch.  A change to HALTED or to          *)
(* ESTOP_REQUESTED appends a job to safeStateChain; jobs run one after the *)
(* other, each over the devices registered when it starts, and a job ends  *)
(* when applySafeState() of every one of them has settled.  An invocation  *)
(* passes the gate and reaches its backend in one step (there is no await  *)
(* between), then drives the output at a moment nobody controls; a halt    *)
(* does not interrupt it.                                                  *)
(***************************************************************************)
EXTENDS HaltCoordinator, Integers, FiniteSets

CONSTANTS
  Devices,
  Calls,    \* invocations in flight at once
  NoDevice, \* a call that is not in flight
  MaxJobs   \* bound: jobs in safeStateChain

ASSUME RuntimeAssumption == MaxJobs \in Nat /\ NoDevice \notin Devices

VARIABLES
  devices,  \* deviceMap
  chain,    \* jobs in safeStateChain, the running one included
  applying, \* devices whose applySafeState() the running job awaits
  started,  \* the first job of the chain is running
  call,     \* the device each call in flight drives
  output,   \* what the hardware does
  excused   \* devices a call was driving, or whose backend failed, at their
            \* last safe state, or that joined active since: nothing is
            \* promised for these

runtimeVars == <<devices, chain, applying, started, call, output, excused>>
safeVars == <<haltVars, runtimeVars>>

Driven(d) == \E i \in Calls : call[i] = d

-----------------------------------------------------------------------------
\* Fault: only HALTED is listened to.
SafeStateRequestedByHalt == change'.to = "HALTED"

\* onSafetyStateChange()
SafeStateRequested == change'.to \in {"HALTED", "ESTOP_REQUESTED"}

HaltStep ==
  /\ HaltNext
  /\ chain' = IF SafeStateRequested THEN chain + 1 ELSE chain
  /\ chain' <= MaxJobs
  /\ UNCHANGED <<devices, applying, started, call, output, excused>>

StartJob ==
  /\ chain > 0
  /\ ~started
  /\ started' = TRUE
  /\ applying' = devices
  /\ UNCHANGED <<haltVars, devices, chain, call, output, excused>>

ApplySafeState(d) ==
  /\ d \in applying
  /\ applying' = applying \ {d}
  /\ output' = [output EXCEPT ![d] = "safe"]
  /\ excused' = IF Driven(d) THEN excused \cup {d} ELSE excused \ {d}
  /\ UNCHANGED <<haltVars, devices, chain, started, call>>

\* The backend rejects: an event is emitted, nothing is tried again.
SafeStateFails(d) ==
  /\ d \in applying
  /\ applying' = applying \ {d}
  /\ excused' = excused \cup {d}
  /\ UNCHANGED <<haltVars, devices, chain, started, call, output>>

EndJob ==
  /\ started
  /\ applying = {}
  /\ started' = FALSE
  /\ chain' = chain - 1
  /\ UNCHANGED <<haltVars, devices, applying, call, output, excused>>

Invoke(i, d) ==
  /\ call[i] = NoDevice
  /\ d \in devices
  /\ GateAllows
  /\ call' = [call EXCEPT ![i] = d]
  /\ UNCHANGED <<haltVars, devices, chain, applying, started, output, excused>>

Actuate(i) ==
  /\ call[i] # NoDevice
  /\ output' = [output EXCEPT ![call[i]] = "active"]
  /\ UNCHANGED <<haltVars, devices, chain, applying, started, call, excused>>

InvokeEnds(i) ==
  /\ call[i] # NoDevice
  /\ call' = [call EXCEPT ![i] = NoDevice]
  /\ UNCHANGED <<haltVars, devices, chain, applying, started, output, excused>>

\* register(): a device that joins a stopped runtime is left as it is.
Register(d) ==
  /\ d \notin devices
  /\ devices' = devices \cup {d}
  /\ excused' = IF output[d] = "active" THEN excused \cup {d} ELSE excused \ {d}
  /\ UNCHANGED <<haltVars, chain, applying, started, call, output>>

\* unregister(): its calls and a safe state under way fail with the closed
\* backend, which may or may not leave the hardware safe.
Unregister(d, o) ==
  /\ d \in devices
  /\ devices' = devices \ {d}
  /\ applying' = applying \ {d}
  /\ call' = [i \in Calls |-> IF call[i] = d THEN NoDevice ELSE call[i]]
  /\ output' = [output EXCEPT ![d] = o]
  /\ UNCHANGED <<haltVars, chain, started, excused>>

-----------------------------------------------------------------------------
RuntimeInit ==
  /\ HaltInit
  /\ devices = {}
  /\ chain = 0
  /\ applying = {}
  /\ started = FALSE
  /\ call = [i \in Calls |-> NoDevice]
  /\ output = [d \in Devices |-> "safe"]
  /\ excused = {}

Job ==
  StartJob \/ EndJob \/ \E d \in Devices : ApplySafeState(d) \/ SafeStateFails(d)

RuntimeNext ==
  \/ HaltStep
  \/ Job
  \/ \E i \in Calls, d \in Devices : Invoke(i, d)
  \/ \E i \in Calls : Actuate(i) \/ InvokeEnds(i)
  \/ \E d \in Devices :
       Register(d) \/ \E o \in {"safe", output[d]} : Unregister(d, o)

RuntimeSpec == RuntimeInit /\ [][RuntimeNext]_safeVars

\* Promise jobs run, and every applySafeState() settles.
FairRuntimeSpec == RuntimeSpec /\ WF_safeVars(Job)

-----------------------------------------------------------------------------
(* Properties *)

Quiet == chain = 0
Stopped == haltState \in {"HALTED", "ESTOP_REQUESTED"}

\* Types of the runtime's maps and of its chain.
RuntimeTypeOK ==
  /\ HaltTypeOK
  /\ devices \subseteq Devices
  /\ chain \in 0..MaxJobs
  /\ applying \subseteq Devices
  /\ started \in BOOLEAN
  /\ call \in [Calls -> Devices \cup {NoDevice}]
  /\ output \in [Devices -> {"safe", "active"}]
  /\ excused \subseteq Devices

\* Once the safe-state work of a halt is over (waitForSafeState()) and until
\* somebody resumes, a device is active only if a call admitted before the halt
\* was driving it, or its own safe state failed.
StoppedMeansSafe ==
  Stopped /\ Quiet => \A d \in devices : output[d] = "active" => d \in excused

\* A stop reaches every device: one that is active with no call driving it
\* gets its safe state, however many halts are queued, unless somebody resumes,
\* it leaves, or its backend fails.
StopReachesDevices ==
  \A d \in Devices :
    (Stopped /\ ~Driven(d) /\ d \in devices \ excused)
      ~> (output[d] = "safe" \/ ~Stopped \/ d \in excused \/ d \notin devices)
=============================================================================
