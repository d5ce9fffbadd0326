----------------------------- MODULE SafetyEngine -----------------------------
(* SafetyEngine around DeviceInstance.invoke(): what a call consumes (slots of *)
(* rate windows, an operator approval, a share of the resource budget) is      *)
(* taken before backend.invoke() is awaited, and rollback() puts back the      *)
(* snapshot of ALL consumables that reserve() made then.                       *)
EXTENDS Integers, FiniteSets, Sequences

CONSTANTS Calls,          \* invocations of a physical capability
          Targets,        \* (device, capability) pairs the rules speak of
          Approvals,      \* ids of operator approvals
          RateRules,      \* the rate rules of a target, in the order of the rule list
          NeedsApproval,  \* the targets with an approval rule
          Charged,        \* the targets with a resource rule (of cost 1)
          BudgetLimit, BudgetWindow,
          MaxGrants,      \* bound: grants of one approval id
          MaxClock,       \* bound: clock ticks
          Nobody,         \* no call: an approval nobody used
          Ungranted       \* no approval record under an id

ASSUME SafetyAssumption ==
    /\ IsFiniteSet(Calls) /\ IsFiniteSet(Targets)
    /\ Calls \cap Approvals = {}
    /\ Nobody \notin Calls
    /\ RateRules \in [Targets -> Seq([max : Nat, window : Nat \ {0}])]
    /\ NeedsApproval \subseteq Targets /\ Charged \subseteq Targets
    /\ BudgetLimit \in Nat /\ BudgetWindow \in Nat \ {0}
    /\ MaxGrants \in Nat /\ MaxClock \in Nat
    /\ Ungranted \notin [target : Targets, expires : Nat, grant : Nat,
                         by : Calls \cup {Nobody}]

VARIABLES store,     \* the consumables: slots of rate windows, approvals, budget spent
          saved,     \* per call: the snapshot its reservation holds
          phase,     \* per call: where invoke() is
          target,    \* per call: what it asks for
          at,        \* per call: the time of its reservation
          approval,  \* per call: the grants it used
          clock,
          grants,    \* history: how often each approval id was recorded
          during,    \* history: calls reserved and ids recorded while a call was in flight
          exposed    \* history: calls and ids a failure of an overlapping call may have touched

safetyVars == <<store, saved, phase, target, at, approval, clock, grants, during, exposed>>
-----------------------------------------------------------------------------
Rules(t) == DOMAIN RateRules[t]
Grant == [target : Targets, expires : 0..(MaxClock + 1), grant : 1..MaxGrants,
          by : Calls \cup {Nobody}]
Store == [slots : SUBSET (Calls \X (UNION {Rules(t) : t \in Targets})),
          approvals : [Approvals -> Grant \cup {Ungranted}],
          spent : SUBSET Calls]
Phases == {"idle", "busy", "done", "failed", "rejected"}

InWindow(c, w) == at[c] + w > clock

(* What rule i of a target finds in the window the rules share: every rule     *)
(* before it filtered that window by its own length.                           *)
Remaining(t, i) ==
    {s \in store.slots : /\ target[s[1]] = t
                         /\ \A j \in 1..i : InWindow(s[1], RateRules[t][j].window)}

(* Fault: the limit taken as inclusive. *)
RateAllowsOneMore(t) ==
    \A i \in Rules(t) : Cardinality(Remaining(t, i)) + (i - 1) <= RateRules[t][i].max

(* enforceRate(): each rule pushes a time stamp of its own. *)
RateAllows(t) ==
    \A i \in Rules(t) : Cardinality(Remaining(t, i)) + (i - 1) < RateRules[t][i].max

Spending == {c \in store.spent : InWindow(c, BudgetWindow)}
(* Fault: the cost of the call itself is forgotten. *)
BudgetAllowsSpent(t) == t \in Charged => Cardinality(Spending) <= BudgetLimit

BudgetAllows(t) == t \in Charged => Cardinality(Spending) + 1 <= BudgetLimit

(* Fault: a used approval matches again. *)
UsableAgain(t) ==
    {a \in Approvals : /\ store.approvals[a] # Ungranted
                       /\ store.approvals[a].target = t
                       /\ store.approvals[a].expires > clock}

(* The approvals enforceApproval() may match: of the target, unused, unexpired. *)
(* It takes the first in the order of their recording; the model takes any.     *)
Usable(t) ==
    {a \in Approvals : /\ store.approvals[a] # Ungranted
                       /\ store.approvals[a].target = t
                       /\ store.approvals[a].by = Nobody
                       /\ store.approvals[a].expires > clock}
Choices(t) == IF t \in NeedsApproval THEN {{a} : a \in Usable(t)} ELSE {{}}

(* The consumables after the rules of t have let c pass with the approvals A. *)
Consumed(c, t, A) ==
    [slots |-> {s \in store.slots : target[s[1]] = t => s \in Remaining(t, Len(RateRules[t]))}
                   \cup ({c} \X Rules(t)),
     approvals |-> [a \in Approvals |-> IF a \in A
                                        THEN [store.approvals[a] EXCEPT !.by = c]
                                        ELSE store.approvals[a]],
     spent |-> IF t \in Charged THEN Spending \cup {c} ELSE store.spent]

Busy == {c \in Calls : phase[c] = "busy"}
Overlapped(x) == [c \in Calls |-> IF c \in Busy THEN during[c] \cup {x} ELSE during[c]]
-----------------------------------------------------------------------------
SafetyInit ==
    /\ store = [slots |-> {}, approvals |-> [a \in Approvals |-> Ungranted], spent |-> {}]
    /\ saved = [c \in Calls |-> store]
    /\ phase = [c \in Calls |-> "idle"]
    /\ target \in [Calls -> Targets]
    /\ at = [c \in Calls |-> 0]
    /\ approval = [c \in Calls |-> {}]
    /\ clock = 0
    /\ grants = [a \in Approvals |-> 0]
    /\ during = [c \in Calls |-> {}]
    /\ exposed = {}

(* invoke() up to its await: reserve() takes the snapshot and every rule passes. *)
Reserve(c) ==
    /\ phase[c] = "idle"
    /\ RateAllows(target[c]) /\ BudgetAllows(target[c])
    /\ \E A \in Choices(target[c]) :
          /\ store' = Consumed(c, target[c], A)
          /\ approval' = [approval EXCEPT ![c] = {<<a, store.approvals[a].grant>> : a \in A}]
    /\ saved' = [saved EXCEPT ![c] = store]
    /\ phase' = [phase EXCEPT ![c] = "busy"]
    /\ at' = [at EXCEPT ![c] = clock]
    /\ during' = Overlapped(c)
    /\ UNCHANGED <<target, clock, grants, exposed>>

(* A rule rejects: one of those above, or an interlock, sequence, lease or      *)
(* deadman rule, which consume nothing. reserve() restores what the rules       *)
(* before it consumed.                                                          *)
Reject(c) ==
    /\ phase[c] = "idle"
    /\ phase' = [phase EXCEPT ![c] = "rejected"]
    /\ UNCHANGED <<store, saved, target, at, approval, clock, grants, during, exposed>>

(* backend.invoke() resolves: commit(). *)
Accept(c) ==
    /\ phase[c] = "busy"
    /\ phase' = [phase EXCEPT ![c] = "done"]
    /\ UNCHANGED <<store, saved, target, at, approval, clock, grants, during, exposed>>

(* Fault: a failed call keeps what it consumed. *)
FailKeeping(c) ==
    /\ phase[c] = "busy"
    /\ phase' = [phase EXCEPT ![c] = "failed"]
    /\ exposed' = exposed \cup during[c]
                    \cup {d \in Calls : c \in during[d] /\ phase[d] = "failed"}
    /\ UNCHANGED <<store, saved, target, at, approval, clock, grants, during>>

(* backend.invoke() rejects: rollback(). *)
Fail(c) ==
    /\ phase[c] = "busy"
    /\ store' = saved[c]
    /\ phase' = [phase EXCEPT ![c] = "failed"]
    /\ exposed' = exposed \cup during[c]
                    \cup {d \in Calls : c \in during[d] /\ phase[d] = "failed"}
    /\ UNCHANGED <<saved, target, at, approval, clock, grants, during>>

(* POST /v1/approvals: recordApproval(), which replaces a record of that id. *)
RecordApproval(a, t, expires) ==
    /\ grants[a] < MaxGrants
    /\ grants' = [grants EXCEPT ![a] = @ + 1]
    /\ store' = [store EXCEPT !.approvals[a] =
                    [target |-> t, expires |-> expires, grant |-> grants[a] + 1, by |-> Nobody]]
    /\ during' = Overlapped(a)
    /\ UNCHANGED <<saved, phase, target, at, approval, clock, exposed>>

SafetyTick ==
    /\ clock < MaxClock
    /\ clock' = clock + 1
    /\ UNCHANGED <<store, saved, phase, target, at, approval, grants, during, exposed>>

SafetyNext ==
    \/ \E c \in Calls : Reserve(c) \/ Reject(c) \/ Accept(c) \/ Fail(c)
    \/ \E a \in Approvals, t \in NeedsApproval, e \in 0..(MaxClock + 1) : RecordApproval(a, t, e)
    \/ SafetyTick

SafetySpec == SafetyInit /\ [][SafetyNext]_safetyVars
-----------------------------------------------------------------------------
(* The calls that count: accepted or in flight, and not touched by the rollback *)
(* of a call they overlapped.                                                   *)
Standing == {c \in Calls : phase[c] \in {"busy", "done"}} \ exposed

SafetyTypeOK ==
    /\ store \in Store
    /\ saved \in [Calls -> Store]
    /\ phase \in [Calls -> Phases]
    /\ target \in [Calls -> Targets]
    /\ at \in [Calls -> 0..MaxClock]
    /\ approval \in [Calls -> SUBSET (Approvals \X (1..MaxGrants))]
    /\ clock \in 0..MaxClock
    /\ grants \in [Approvals -> 0..MaxGrants]
    /\ during \in [Calls -> SUBSET (Calls \cup Approvals)]
    /\ exposed \subseteq Calls \cup Approvals

(* The rate limit: in the window that ends with any call to a target, no more   *)
(* calls to it were let through than a rule whose window is the shortest of the *)
(* target's rules allows. Slots outlive the awaits in which other calls are     *)
(* reserved, fail and roll back.                                                *)
Shortest(t, i) == \A j \in Rules(t) : RateRules[t][i].window <= RateRules[t][j].window
WindowOf(c, i) ==
    {d \in Standing : /\ target[d] = target[c]
                      /\ at[d] <= at[c]
                      /\ at[d] + RateRules[target[c]][i].window > at[c]}
RateHeld ==
    \A c \in Standing : \A i \in Rules(target[c]) :
        Shortest(target[c], i) => Cardinality(WindowOf(c, i)) <= RateRules[target[c]][i].max

(* Deployment rules only tighten: adding a rate rule to a target never lets      *)
(* through more than the longest window allows.                                  *)
EveryRateHeld ==
    \A c \in Standing : \A i \in Rules(target[c]) :
        Cardinality(WindowOf(c, i)) <= RateRules[target[c]][i].max

(* The budget: in any window, calls to charged targets spend no more than it has. *)
BudgetHeld ==
    \A c \in Standing : target[c] \in Charged =>
        Cardinality({d \in Standing : /\ target[d] \in Charged
                                      /\ at[d] <= at[c]
                                      /\ at[d] + BudgetWindow > at[c]}) <= BudgetLimit

(* A grant of an approval lets one call through: two calls that both stand never *)
(* used the same grant, whatever failed beside them.                             *)
ApprovalUsedOnce ==
    \A c, d \in Standing : c # d => approval[c] \cap approval[d] = {}

(* The same for every call the backend accepted, exposed or not. *)
ApprovalIsSingleUse ==
    \A c, d \in Calls : (c # d /\ phase[c] = "done" /\ phase[d] = "done")
        => approval[c] \cap approval[d] = {}

(* The ledger is exact for what no rollback touched: a standing call has its    *)
(* slots until they lapse and its mark on the grant it used, a failed or        *)
(* rejected call has left nothing, and a recorded grant is still there.         *)
HasLeft(S, c) ==
    \/ \E s \in S.slots : s[1] = c
    \/ \E a \in Approvals : S.approvals[a] # Ungranted /\ S.approvals[a].by = c
    \/ c \in S.spent
LedgerIsExact ==
    /\ \A c \in Standing :
          /\ \A i \in Rules(target[c]) :
                (\A j \in Rules(target[c]) : InWindow(c, RateRules[target[c]][j].window))
                   => <<c, i>> \in store.slots
          /\ (target[c] \in Charged /\ InWindow(c, BudgetWindow)) => c \in store.spent
          /\ \A g \in approval[c] :
                (g[1] \notin exposed /\ grants[g[1]] = g[2]) => store.approvals[g[1]].by = c
    /\ \A c \in Calls \ exposed : phase[c] \in {"failed", "rejected"} => ~HasLeft(store, c)
    /\ \A a \in Approvals \ exposed : grants[a] > 0 =>
          store.approvals[a] # Ungranted /\ store.approvals[a].grant = grants[a]
=============================================================================
