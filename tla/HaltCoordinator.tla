---------------------------- MODULE HaltCoordinator ----------------------------
(***************************************************************************)
(* The software halt latch: one state and reason, two flags that survive   *)
(* changes of state, and the gate every non-planning invocation passes.    *)
(* Each method runs to its end without an await, so each is one action;    *)
(* `change` is the SafetyStateChange the method handed to its listeners.   *)
(***************************************************************************)
CONSTANTS
  Reasons,      \* reasons callers give; two calls may give the same one
  FaultsRaised  \* does the embedding program call fault()?  The daemon does not.

ASSUME HaltAssumption == FaultsRaised \in BOOLEAN

VARIABLES haltState, reason, estopRequested, faulted, change

haltVars == <<haltState, reason, estopRequested, faulted, change>>

SafetyStates == {"NORMAL", "RESTRICTED", "HALTED", "ESTOP_REQUESTED", "FAULTED"}
OwnReasons == {"none_given", "estop_cleared", "fault_cleared"}
NoChange == [from |-> "NORMAL", to |-> "none"]

\* gate()
GateAllows == haltState \in {"NORMAL", "RESTRICTED"}

\* transition(): a repeated state and reason is dropped, listeners and all.
Transition(to, r) ==
  IF haltState = to /\ reason = r
  THEN change' = NoChange /\ UNCHANGED <<haltState, reason>>
  ELSE /\ haltState' = to
       /\ reason' = r
       /\ change' = [from |-> haltState, to |-> to]

NoTransition == change' = NoChange /\ UNCHANGED <<haltState, reason>>

HaltInit ==
  /\ haltState = "NORMAL"
  /\ reason = "none_given"
  /\ estopRequested = FALSE
  /\ faulted = FALSE
  /\ change = NoChange

Halt(r) ==
  /\ Transition("HALTED", r)
  /\ UNCHANGED <<estopRequested, faulted>>

RequestEstop(r) ==
  /\ estopRequested' = TRUE
  /\ Transition("ESTOP_REQUESTED", r)
  /\ UNCHANGED faulted

ClearEstop ==
  /\ estopRequested
  /\ estopRequested' = FALSE
  /\ IF haltState = "ESTOP_REQUESTED" THEN Transition("HALTED", "estop_cleared")
     ELSE NoTransition
  /\ UNCHANGED faulted

Fault(r) ==
  /\ FaultsRaised
  /\ faulted' = TRUE
  /\ Transition("FAULTED", r)
  /\ UNCHANGED estopRequested

ClearFault ==
  /\ faulted
  /\ faulted' = FALSE
  /\ IF haltState = "FAULTED" THEN Transition("NORMAL", "fault_cleared")
     ELSE NoTransition
  /\ UNCHANGED estopRequested

\* Fault: the flags are not consulted.
ResumeUnchecked(r) ==
  /\ haltState \in {"HALTED", "RESTRICTED"}
  /\ Transition("NORMAL", r)
  /\ UNCHANGED <<estopRequested, faulted>>

\* resume() throws while a flag is up and ignores the other states.
Resume(r) ==
  /\ ~estopRequested
  /\ ~faulted
  /\ haltState \in {"HALTED", "RESTRICTED"}
  /\ Transition("NORMAL", r)
  /\ UNCHANGED <<estopRequested, faulted>>

Restrict(r) ==
  /\ haltState = "NORMAL"
  /\ Transition("RESTRICTED", r)
  /\ UNCHANGED <<estopRequested, faulted>>

HaltNext ==
  \/ \E r \in Reasons :
       Halt(r) \/ RequestEstop(r) \/ Fault(r) \/ Resume(r) \/ Restrict(r)
  \/ ClearEstop
  \/ ClearFault

HaltSpec == HaltInit /\ [][HaltNext]_haltVars

-----------------------------------------------------------------------------
(* Properties *)

\* The state, the flags and the reasons keep their types.
HaltTypeOK ==
  /\ haltState \in SafetyStates
  /\ reason \in Reasons \cup OwnReasons
  /\ estopRequested \in BOOLEAN
  /\ faulted \in BOOLEAN
  /\ change \in [from: SafetyStates, to: SafetyStates \cup {"none"}]

\* "E-stop is sticky": as long as the emergency stop has not been cleared, no
\* sequence of calls opens the gate.
EstopBlocks == estopRequested => ~GateAllows

\* The gate opens again by a resume() with neither flag up, or, out of FAULTED,
\* by clearFault(); so an emergency stop takes two calls to undo.
GateOpensDeliberately ==
  [][~GateAllows /\ GateAllows' =>
       \/ haltState = "HALTED" /\ ~estopRequested /\ ~faulted
       \/ haltState = "FAULTED" /\ faulted /\ ~faulted']_haltVars
=============================================================================
