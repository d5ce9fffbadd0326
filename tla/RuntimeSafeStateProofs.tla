------------------------ MODULE RuntimeSafeStateProofs ------------------------
(***************************************************************************)
(* The halt latch by itself, for every set of reasons: the emergency stop  *)
(* is sticky in a program that never raises a fault, as the daemon's, and  *)
(* the gate opens only where somebody opens it.  Then the runtime around   *)
(* it, for every set of devices, calls and reasons and any number of stops *)
(* in the chain: the latch works in the runtime as it does alone, and      *)
(* after a stop every device is safe that the code can answer for.         *)
(***************************************************************************)
EXTENDS RuntimeSafeState, TLAPS


\* HaltTypeOK holds throughout.
THEOREM HaltTypeCorrect == HaltSpec => []HaltTypeOK
<1>1. HaltInit => HaltTypeOK
  <2>1. NoChange \in [from: SafetyStates, to: SafetyStates \cup {"none"}]
    BY DEF NoChange, SafetyStates
  <2>2. "NORMAL" \in SafetyStates /\ "none_given" \in OwnReasons
    BY DEF SafetyStates, OwnReasons
  <2> QED
    BY <2>1, <2>2, Zenon DEF HaltInit, HaltTypeOK
<1>2. HaltTypeOK /\ [HaltNext]_haltVars => HaltTypeOK'
  <2> SUFFICES ASSUME HaltTypeOK, [HaltNext]_haltVars PROVE HaltTypeOK'
    OBVIOUS
  <2> DEFINE Typed ==
        /\ haltState' \in SafetyStates
        /\ reason' \in Reasons \cup OwnReasons
        /\ change' \in [from: SafetyStates, to: SafetyStates \cup {"none"}]
  <2>1. ASSUME NEW to \in SafetyStates, NEW r \in Reasons \cup OwnReasons,
               Transition(to, r)
        PROVE  Typed
    BY <2>1 DEF HaltTypeOK, Transition, NoChange, SafetyStates
  <2>2. ASSUME NEW r \in Reasons,
               Halt(r) \/ RequestEstop(r) \/ Fault(r) \/ Resume(r) \/ Restrict(r)
        PROVE  HaltTypeOK'
    BY <2>1, <2>2
       DEF HaltTypeOK, Halt, RequestEstop, Fault, Resume, Restrict, SafetyStates
  <2>6. /\ NoChange \in [from: SafetyStates, to: SafetyStates \cup {"none"}]
        /\ {"NORMAL", "HALTED"} \subseteq SafetyStates
        /\ {"estop_cleared", "fault_cleared"} \subseteq Reasons \cup OwnReasons
    BY DEF NoChange, SafetyStates, OwnReasons
  <2>7. /\ Transition("HALTED", "estop_cleared") => Typed
        /\ Transition("NORMAL", "fault_cleared") => Typed
    BY <2>1, <2>6
  <2>3. CASE ClearEstop
    BY <2>3, <2>6, <2>7, Zenon DEF HaltTypeOK, ClearEstop, NoTransition
  <2>4. CASE ClearFault
    BY <2>4, <2>6, <2>7, Zenon DEF HaltTypeOK, ClearFault, NoTransition
  <2>5. CASE UNCHANGED haltVars
    BY <2>5 DEF HaltTypeOK, haltVars
  <2> QED
    BY <2>2, <2>3, <2>4, <2>5 DEF HaltNext
<1> QED
  BY <1>1, <1>2, PTL DEF HaltSpec

\* EstopBlocks is not inductive: the gate would open from a FAULTED state that
\* clearFault() left.  Without faults the flag is up only in the two states
\* that resume() and restrict() cannot leave while it is.
EstopInv ==
  /\ ~faulted
  /\ haltState # "FAULTED"
  /\ estopRequested => haltState \in {"HALTED", "ESTOP_REQUESTED"}

\* The stop is sticky: no sequence of calls opens the gate before clearEstop(),
\* in a program that never calls fault().
THEOREM EstopIsSticky == ~FaultsRaised /\ HaltSpec => []EstopBlocks
<1> SUFFICES ASSUME ~FaultsRaised PROVE HaltSpec => []EstopBlocks
  OBVIOUS
<1>1. HaltInit => EstopInv
  BY DEF HaltInit, EstopInv
<1>2. EstopInv /\ [HaltNext]_haltVars => EstopInv'
  <2> SUFFICES ASSUME EstopInv, [HaltNext]_haltVars PROVE EstopInv'
    OBVIOUS
  <2>1. ASSUME NEW r \in Reasons,
               Halt(r) \/ RequestEstop(r) \/ Fault(r) \/ Resume(r) \/ Restrict(r)
        PROVE  EstopInv'
    BY <2>1 DEF EstopInv, Halt, RequestEstop, Fault, Resume, Restrict, Transition
  <2>2. CASE ClearEstop
    BY <2>2 DEF EstopInv, ClearEstop, Transition, NoTransition
  <2>3. CASE ClearFault
    BY <2>3 DEF EstopInv, ClearFault
  <2>4. CASE UNCHANGED haltVars
    BY <2>4 DEF EstopInv, haltVars
  <2> QED
    BY <2>1, <2>2, <2>3, <2>4 DEF HaltNext
<1>3. EstopInv => EstopBlocks
  BY DEF EstopInv, EstopBlocks, GateAllows
<1> QED
  BY <1>1, <1>2, <1>3, PTL DEF HaltSpec

\* The gate opens only by resume() with neither flag up or by clearFault(): an
\* emergency stop takes two calls to undo, faults or not.
THEOREM GateIsOpenedDeliberately == HaltSpec => GateOpensDeliberately
<1> DEFINE Deliberate ==
      ~GateAllows /\ GateAllows' =>
        \/ haltState = "HALTED" /\ ~estopRequested /\ ~faulted
        \/ haltState = "FAULTED" /\ faulted /\ ~faulted'
<1>1. [HaltNext]_haltVars => [Deliberate]_haltVars
  <2> SUFFICES ASSUME HaltNext PROVE Deliberate
    OBVIOUS
  <2>1. ASSUME NEW r \in Reasons,
               Halt(r) \/ RequestEstop(r) \/ Fault(r) \/ Resume(r) \/ Restrict(r)
        PROVE  Deliberate
    BY <2>1 DEF GateAllows, Halt, RequestEstop, Fault, Resume, Restrict, Transition
  <2>2. CASE ClearEstop
    BY <2>2 DEF GateAllows, ClearEstop, Transition, NoTransition
  <2>3. CASE ClearFault
    BY <2>3 DEF GateAllows, ClearFault, Transition, NoTransition
  <2> QED
    BY <2>1, <2>2, <2>3 DEF HaltNext
<1> QED
  BY <1>1, PTL DEF HaltSpec, GateOpensDeliberately

-----------------------------------------------------------------------------

\* A step of the runtime is a step of the latch or leaves it alone.
LEMMA RuntimeStepsLatch == [RuntimeNext]_safeVars => [HaltNext]_haltVars
<1> SUFFICES ASSUME [RuntimeNext]_safeVars PROVE HaltNext \/ UNCHANGED haltVars
  OBVIOUS
<1>1. CASE HaltStep
  BY <1>1 DEF HaltStep
<1>2. CASE Job
  BY <1>2 DEF Job, StartJob, EndJob, ApplySafeState, SafeStateFails
<1>3. ASSUME NEW i \in Calls, NEW d \in Devices, Invoke(i, d)
      PROVE  UNCHANGED haltVars
  BY <1>3 DEF Invoke
<1>4. ASSUME NEW i \in Calls, Actuate(i) \/ InvokeEnds(i)
      PROVE  UNCHANGED haltVars
  BY <1>4 DEF Actuate, InvokeEnds
<1>5. ASSUME NEW d \in Devices, NEW o, Register(d) \/ Unregister(d, o)
      PROVE  UNCHANGED haltVars
  BY <1>5 DEF Register, Unregister
<1>6. CASE UNCHANGED safeVars
  BY <1>6 DEF safeVars
<1> QED
  BY <1>1, <1>2, <1>3, <1>4, <1>5, <1>6 DEF RuntimeNext

\* What holds of the latch alone holds of it in the runtime.
THEOREM RuntimeImplementsLatch == RuntimeSpec => HaltSpec
<1>1. RuntimeInit => HaltInit
  BY DEF RuntimeInit
<1> QED
  BY <1>1, RuntimeStepsLatch, PTL DEF RuntimeSpec, HaltSpec

\* The runtime's own variables keep their types; a job that runs is still in the
\* chain, and only a device of the runtime is being driven.
RuntimeInv ==
  /\ RuntimeTypeOK
  /\ started => chain > 0
  /\ ~started => applying = {}
  /\ \A i \in Calls : call[i] # NoDevice => call[i] \in devices

LEMMA RuntimeStep ==
  ASSUME RuntimeInv, HaltTypeOK', [RuntimeNext]_safeVars
  PROVE  RuntimeInv'
<1> USE RuntimeAssumption DEF RuntimeInv, RuntimeTypeOK
<1>1. CASE HaltStep
  BY <1>1 DEF HaltStep
<1>2. CASE StartJob
  BY <1>2 DEF StartJob
<1>3. CASE EndJob
  <2>1. chain \in Nat /\ MaxJobs \in Nat /\ chain > 0 /\ chain <= MaxJobs
    BY <1>3 DEF EndJob
  <2>2. chain' \in 0..MaxJobs
    BY <1>3, <2>1 DEF EndJob
  <2> QED
    BY <1>3, <2>2 DEF EndJob
<1>4. ASSUME NEW d \in Devices, ApplySafeState(d) \/ SafeStateFails(d)
      PROVE  RuntimeInv'
  BY <1>4 DEF ApplySafeState, SafeStateFails
<1>5. ASSUME NEW i \in Calls, NEW d \in Devices, Invoke(i, d)
      PROVE  RuntimeInv'
  BY <1>5 DEF Invoke
<1>6. ASSUME NEW i \in Calls, Actuate(i) PROVE RuntimeInv'
  BY <1>6 DEF Actuate
<1>7. ASSUME NEW i \in Calls, InvokeEnds(i) PROVE RuntimeInv'
  BY <1>7 DEF InvokeEnds
<1>8. ASSUME NEW d \in Devices, Register(d) PROVE RuntimeInv'
  BY <1>8 DEF Register
<1>9. ASSUME NEW d \in Devices, NEW o \in {"safe", output[d]}, Unregister(d, o)
      PROVE  RuntimeInv'
  BY <1>9 DEF Unregister
<1>10. CASE UNCHANGED safeVars
  BY <1>10 DEF safeVars, runtimeVars
<1> QED
  BY <1>1, <1>2, <1>3, <1>4, <1>5, <1>6, <1>7, <1>8, <1>9, <1>10
     DEF RuntimeNext, Job

\* RuntimeInv holds throughout.
LEMMA RuntimeInvariant == RuntimeSpec => []RuntimeInv
<1>1. ASSUME RuntimeInit, HaltTypeOK PROVE RuntimeInv
  <2>1. chain \in 0..MaxJobs
    BY <1>1, RuntimeAssumption DEF RuntimeInit
  <2>2. /\ call \in [Calls -> Devices \cup {NoDevice}]
        /\ output \in [Devices -> {"safe", "active"}]
    BY <1>1 DEF RuntimeInit
  <2> QED
    BY <1>1, <2>1, <2>2 DEF RuntimeInit, RuntimeInv, RuntimeTypeOK
<1>2. RuntimeInv /\ HaltTypeOK' /\ [RuntimeNext]_safeVars => RuntimeInv'
  BY RuntimeStep
<1> QED
  BY <1>1, <1>2, RuntimeImplementsLatch, HaltTypeCorrect, PTL DEF RuntimeSpec

\* RuntimeTypeOK holds throughout.
THEOREM RuntimeTypeCorrect == RuntimeSpec => []RuntimeTypeOK
<1>1. RuntimeInv => RuntimeTypeOK
  BY DEF RuntimeInv
<1> QED
  BY <1>1, RuntimeInvariant, PTL

-----------------------------------------------------------------------------
\* A safe state of d is still to come: a job that has not started, the running
\* one, or one behind it.
Pending(d) == chain > 0 /\ (started => d \in applying \/ chain > 1)

\* StoppedMeansSafe says nothing while jobs are queued, and a device that is
\* being driven need not be active yet.  What carries over from step to step:
\* while stopped, a device that is active or being driven, and not excused, has
\* its safe state still to come.
StopInv ==
  Stopped => \A d \in devices \ excused :
    output[d] = "active" \/ Driven(d) => Pending(d)

\* A stop that the latch takes is one its listener hears of.
LEMMA StopIsHeard ==
  ASSUME HaltNext, ~Stopped, Stopped'
  PROVE  SafeStateRequested
<1>1. ASSUME NEW r \in Reasons,
             Halt(r) \/ RequestEstop(r) \/ Fault(r) \/ Resume(r) \/ Restrict(r)
      PROVE  SafeStateRequested
  BY <1>1 DEF Stopped, SafeStateRequested, Halt, RequestEstop, Fault, Resume, Restrict,
              Transition
<1>2. CASE ClearEstop \/ ClearFault
  BY <1>2 DEF Stopped, SafeStateRequested, ClearEstop, ClearFault, Transition, NoTransition
<1> QED
  BY <1>1, <1>2 DEF HaltNext

LEMMA StopStep ==
  ASSUME RuntimeInv, StopInv, [RuntimeNext]_safeVars
  PROVE  StopInv'
<1> USE DEF RuntimeInv, RuntimeTypeOK
<1> SUFFICES ASSUME Stopped', NEW d \in devices' \ excused',
                    output'[d] = "active" \/ Driven(d)'
             PROVE  Pending(d)'
  BY DEF StopInv
<1>0. chain \in Nat
  BY RuntimeAssumption
<1>1. CASE HaltStep
  <2>1. /\ devices' = devices /\ excused' = excused /\ output' = output /\ call' = call
        /\ started' = started /\ applying' = applying
        /\ chain' = IF SafeStateRequested THEN chain + 1 ELSE chain
    BY <1>1 DEF HaltStep
  <2>2. CASE SafeStateRequested
    BY <1>0, <2>1, <2>2 DEF Pending
  <2>3. CASE ~SafeStateRequested
    <3>1. Stopped
      BY <1>1, <2>3, StopIsHeard DEF HaltStep
    <3> QED
      BY <2>1, <2>3, <3>1 DEF StopInv, Pending, Driven
  <2> QED
    BY <2>2, <2>3
<1>2. CASE StartJob
  BY <1>2 DEF StartJob, Pending
<1>3. CASE EndJob
  <2>1. Stopped /\ d \in devices \ excused /\ (output[d] = "active" \/ Driven(d))
    BY <1>3 DEF EndJob, haltVars, Stopped, Driven
  <2>2. Pending(d)
    BY <2>1 DEF StopInv
  <2> QED
    BY <1>0, <1>3, <2>2 DEF EndJob, Pending
<1>4. ASSUME NEW e \in Devices, ApplySafeState(e) PROVE Pending(d)'
  <2>1. /\ Stopped /\ d \in devices /\ call' = call
        /\ chain' = chain /\ started' = started /\ applying' = applying \ {e}
        /\ output' = [output EXCEPT ![e] = "safe"]
        /\ excused' = IF Driven(e) THEN excused \cup {e} ELSE excused \ {e}
    BY <1>4 DEF ApplySafeState, haltVars, Stopped
  <2>2. d # e
    BY <2>1 DEF Driven
  <2>3. d \notin excused /\ (output[d] = "active" \/ Driven(d))
    BY <2>1, <2>2 DEF Driven
  <2> QED
    BY <2>1, <2>2, <2>3 DEF StopInv, Pending
<1>5. ASSUME NEW e \in Devices, SafeStateFails(e) PROVE Pending(d)'
  <2>1. /\ Stopped /\ d \in devices /\ call' = call /\ output' = output
        /\ chain' = chain /\ started' = started /\ applying' = applying \ {e}
        /\ excused' = excused \cup {e}
    BY <1>5 DEF SafeStateFails, haltVars, Stopped
  <2> QED
    BY <2>1 DEF StopInv, Pending, Driven
<1>6. ASSUME NEW i \in Calls, NEW e \in Devices, Invoke(i, e) PROVE Pending(d)'
  <2>1. ~Stopped /\ haltState' = haltState
    BY <1>6 DEF Invoke, GateAllows, Stopped, haltVars
  <2> QED
    BY <2>1 DEF Stopped
<1>7. ASSUME NEW i \in Calls, Actuate(i) PROVE Pending(d)'
  <2>1. /\ Stopped /\ d \in devices \ excused /\ call' = call
        /\ chain' = chain /\ started' = started /\ applying' = applying
        /\ output' = [output EXCEPT ![call[i]] = "active"]
    BY <1>7 DEF Actuate, haltVars, Stopped
  <2>2. output[d] = "active" \/ Driven(d)
    BY <1>7, <2>1 DEF Driven
  <2> QED
    BY <2>1, <2>2 DEF StopInv, Pending
<1>8. ASSUME NEW i \in Calls, InvokeEnds(i) PROVE Pending(d)'
  <2>1. /\ Stopped /\ d \in devices \ excused /\ output' = output
        /\ chain' = chain /\ started' = started /\ applying' = applying
        /\ call' = [call EXCEPT ![i] = NoDevice]
    BY <1>8 DEF InvokeEnds, haltVars, Stopped
  <2>2. d # NoDevice
    BY <2>1, RuntimeAssumption
  <2>3. output[d] = "active" \/ Driven(d)
    BY <2>1, <2>2 DEF Driven
  <2> QED
    BY <2>1, <2>3 DEF StopInv, Pending
<1>9. ASSUME NEW e \in Devices, Register(e) PROVE Pending(d)'
  <2>1. /\ Stopped /\ output' = output /\ call' = call
        /\ chain' = chain /\ started' = started /\ applying' = applying
        /\ e \notin devices /\ devices' = devices \cup {e}
        /\ excused' = IF output[e] = "active" THEN excused \cup {e} ELSE excused \ {e}
    BY <1>9 DEF Register, haltVars, Stopped
  <2>2. e # NoDevice
    BY RuntimeAssumption
  <2>3. d # e
    BY <2>1, <2>2 DEF Driven
  <2> QED
    BY <2>1, <2>3 DEF StopInv, Pending, Driven
<1>10. ASSUME NEW e \in Devices, NEW o, Unregister(e, o) PROVE Pending(d)'
  <2>1. /\ Stopped /\ chain' = chain /\ started' = started /\ applying' = applying \ {e}
        /\ devices' = devices \ {e} /\ excused' = excused
        /\ output' = [output EXCEPT ![e] = o]
        /\ call' = [i \in Calls |-> IF call[i] = e THEN NoDevice ELSE call[i]]
    BY <1>10 DEF Unregister, haltVars, Stopped
  <2>2. d # e /\ d # NoDevice
    BY <2>1, RuntimeAssumption
  <2>3. output[d] = "active" \/ Driven(d)
    BY <2>1, <2>2 DEF Driven
  <2> QED
    BY <2>1, <2>2, <2>3 DEF StopInv, Pending
<1>11. CASE UNCHANGED safeVars
  BY <1>11 DEF safeVars, haltVars, runtimeVars, StopInv, Stopped, Pending, Driven
<1> QED
  BY <1>1, <1>2, <1>3, <1>4, <1>5, <1>6, <1>7, <1>8, <1>9, <1>10, <1>11
     DEF RuntimeNext, Job

\* After a stop, and once its safe-state work is done, a device of the runtime is
\* active only where a call admitted before the stop drives it or its own safe
\* state failed, however stops, calls, joins and failures interleave.
THEOREM StopLeavesNothingOn == RuntimeSpec => []StoppedMeansSafe
<1>1. RuntimeInit => StopInv
  BY DEF RuntimeInit, StopInv
<1>2. RuntimeInv /\ StopInv /\ [RuntimeNext]_safeVars => StopInv'
  BY StopStep
<1>3. RuntimeInv /\ StopInv => StoppedMeansSafe
  BY DEF RuntimeInv, RuntimeTypeOK, StopInv, StoppedMeansSafe, Quiet, Pending
<1> QED
  BY <1>1, <1>2, <1>3, RuntimeInvariant, PTL DEF RuntimeSpec
=============================================================================
