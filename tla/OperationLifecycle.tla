-------------------------- MODULE OperationLifecycle --------------------------
(***************************************************************************)
(* What OperationManager promises its callers, with none of its machinery: *)
(* an accepted operation is pending until one outcome is decided; that     *)
(* decision reaches, in the same step, every caller waiting for it; from   *)
(* then on every caller is told that outcome; and only an operator's       *)
(* reconciliation replaces an outcome, and only an uncertain one.          *)
(***************************************************************************)
CONSTANTS Ids, Clients, Outcomes, Uncertain, Resolutions

VARIABLES
  outcome,   \* "none", "pending" or the outcome decided, by operation
  waiting,   \* clients that wait for an operation
  told       \* the last outcome each client was given

vars == <<outcome, waiting, told>>

NotTold == [op |-> 0, status |-> "queued"]

Tell(cs, o, s) ==
  told' = [c \in Clients |-> IF c \in cs THEN [op |-> o, status |-> s] ELSE told[c]]

Init ==
  /\ outcome = [o \in Ids |-> "none"]
  /\ waiting = [o \in Ids |-> {}]
  /\ told = [c \in Clients |-> NotTold]

Accept(o) ==
  /\ outcome[o] = "none"
  /\ outcome' = [outcome EXCEPT ![o] = "pending"]
  /\ UNCHANGED <<waiting, told>>

Join(c, o) ==
  /\ outcome[o] = "pending"
  /\ waiting' = [waiting EXCEPT ![o] = @ \cup {c}]
  /\ UNCHANGED <<outcome, told>>

\* asking: clients that are answered in the call that decides the outcome.
Decide(o, s, asking) ==
  /\ outcome[o] = "pending"
  /\ outcome' = [outcome EXCEPT ![o] = s]
  /\ waiting' = [waiting EXCEPT ![o] = {}]
  /\ Tell(asking \cup waiting[o], o, s)

Ask(c, o) ==
  /\ outcome[o] \in Outcomes
  /\ Tell({c}, o, outcome[o])
  /\ UNCHANGED <<outcome, waiting>>

Reconcile(o, r) ==
  /\ outcome[o] \in Uncertain
  /\ outcome' = [outcome EXCEPT ![o] = r]
  /\ UNCHANGED <<waiting, told>>

Next ==
  \E o \in Ids :
    \/ Accept(o)
    \/ \E c \in Clients : Join(c, o) \/ Ask(c, o)
    \/ \E s \in Outcomes, asking \in SUBSET Clients : Decide(o, s, asking)
    \/ \E r \in Resolutions : Reconcile(o, r)

Spec == Init /\ [][Next]_vars
=============================================================================
