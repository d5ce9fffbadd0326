-------------------------- MODULE SafetyEngineProofs --------------------------
(***************************************************************************)
(* For every set of calls, targets, approvals and rules: the limits hold   *)
(* and the ledger is exact for the calls no rollback touched. The argument *)
(* follows the snapshots: what the store says of a standing call, the      *)
(* snapshot of every call in flight says too, unless that call's failure   *)
(* would expose the standing one.                                          *)
(***************************************************************************)
EXTENDS SafetyEngine, FiniteSetTheorems, TLAPS

\* What a store must say of a standing call: the grants it used bear its mark
\* or were replaced, and its slots and its share of the budget are there for
\* as long as they count.
Marked(S, c) ==
    /\ \A g \in approval[c] :
          /\ S.approvals[g[1]] # Ungranted
          /\ \/ S.approvals[g[1]].grant > g[2]
             \/ S.approvals[g[1]].grant = g[2] /\ S.approvals[g[1]].by = c
    /\ (\A j \in Rules(target[c]) : InWindow(c, RateRules[target[c]][j].window))
          => \A i \in Rules(target[c]) : <<c, i>> \in S.slots
    /\ (target[c] \in Charged /\ InWindow(c, BudgetWindow)) => c \in S.spent

StandingIsMarked ==
    \A c \in Standing :
        /\ Marked(store, c)
        /\ \A b \in Busy : (b # c /\ c \notin during[b]) => Marked(saved[b], c)

\* What has not begun, or failed alone, is in no store that can come back.
NothingIsLeft ==
    /\ \A c \in Calls : phase[c] \in {"idle", "rejected"} =>
          ~HasLeft(store, c) /\ \A b \in Busy : ~HasLeft(saved[b], c)
    /\ \A b \in Busy, c \in Calls : (c = b \/ c \in during[b]) => ~HasLeft(saved[b], c)
    /\ \A c \in Calls \ exposed : phase[c] = "failed" =>
          /\ ~HasLeft(store, c)
          /\ \A b \in Busy : b \notin during[c] => ~HasLeft(saved[b], c)

\* A recorded grant is the last one of its id, in the store and in the
\* snapshots taken since.
Kept(S, a) == S.approvals[a] # Ungranted /\ S.approvals[a].grant = grants[a]
GrantsAreKept ==
    \A a \in Approvals \ exposed : grants[a] > 0 =>
        /\ Kept(store, a)
        /\ \A b \in Busy : a \notin during[b] => Kept(saved[b], a)

\* No grant is ahead of the count of its id.
Behind(S) == \A a \in Approvals : S.approvals[a] # Ungranted => S.approvals[a].grant <= grants[a]
GrantsAreCounted ==
    /\ Behind(store)
    /\ \A b \in Calls : Behind(saved[b])
    /\ \A c \in Calls : \A g \in approval[c] : g[2] <= grants[g[1]]

\* Of two calls in flight the later is known to the earlier.
OverlapsAreKnown ==
    /\ \A c \in Calls : phase[c] = "idle" => during[c] = {}
    /\ \A b, c \in Busy : b # c => b \in during[c] \/ c \in during[b]
    /\ \A c \in Calls : at[c] <= clock

SafetyInv == /\ SafetyTypeOK
             /\ StandingIsMarked
             /\ NothingIsLeft
             /\ GrantsAreKept
             /\ GrantsAreCounted
             /\ OverlapsAreKnown
             /\ ApprovalUsedOnce
-----------------------------------------------------------------------------
\* The elements of a sequence over a set.
LEMMA SeqElement ==
  ASSUME NEW R, NEW q \in Seq(R), NEW i \in DOMAIN q
  PROVE  i \in 1..Len(q) /\ Len(q) \in Nat /\ DOMAIN q = 1..Len(q) /\ q[i] \in R
  OBVIOUS

\* Each rule's window is a positive number of ticks and each limit a number.
LEMMA RuleFields ==
  ASSUME NEW t \in Targets, NEW i \in Rules(t)
  PROVE  /\ i \in 1..Len(RateRules[t]) /\ Len(RateRules[t]) \in Nat
         /\ Rules(t) = 1..Len(RateRules[t])
         /\ RateRules[t][i].max \in Nat
         /\ RateRules[t][i].window \in Nat \ {0}
<1>1. RateRules[t] \in Seq([max : Nat, window : Nat \ {0}])
  BY SafetyAssumption
<1>2. i \in 1..Len(RateRules[t]) /\ Len(RateRules[t]) \in Nat
      /\ Rules(t) = 1..Len(RateRules[t])
      /\ RateRules[t][i] \in [max : Nat, window : Nat \ {0}]
  BY <1>1, SeqElement DEF Rules
<1> QED
  BY <1>2

\* Consumed() stays a store, and is the old one but for the call's own marks.
LEMMA ConsumedStore ==
  ASSUME SafetyTypeOK, NEW c \in Calls, NEW A \in Choices(target[c])
  PROVE  /\ Consumed(c, target[c], A) \in Store
         /\ A \subseteq Approvals
         /\ \A a \in A : store.approvals[a] # Ungranted /\ store.approvals[a] \in Grant
                        /\ store.approvals[a].by = Nobody
<1> DEFINE t == target[c]
<1>1. t \in Targets /\ store \in Store
  BY DEF SafetyTypeOK
<1>2. /\ A \subseteq Approvals
      /\ \A a \in A : store.approvals[a] # Ungranted /\ store.approvals[a] \in Grant
                     /\ store.approvals[a].by = Nobody
  BY <1>1 DEF Choices, Usable, Store
<1>3. [a \in Approvals |-> IF a \in A THEN [store.approvals[a] EXCEPT !.by = c]
                                     ELSE store.approvals[a]]
         \in [Approvals -> Grant \cup {Ungranted}]
  <2>1. \A a \in A : [store.approvals[a] EXCEPT !.by = c] \in Grant
    BY <1>2 DEF Grant
  <2> QED
    BY <1>1, <1>2, <2>1 DEF Store
<1>4. {s \in store.slots : target[s[1]] = t => s \in Remaining(t, Len(RateRules[t]))}
         \cup ({c} \X Rules(t)) \in SUBSET (Calls \X (UNION {Rules(u) : u \in Targets}))
  BY <1>1 DEF Store
<1>5. (IF t \in Charged THEN Spending \cup {c} ELSE store.spent) \in SUBSET Calls
  BY <1>1 DEF Store, Spending
<1> QED
  BY <1>2, <1>3, <1>4, <1>5 DEF Consumed, Store

\* Every step keeps the types.
LEMMA SafetyNextType == SafetyTypeOK /\ [SafetyNext]_safetyVars => SafetyTypeOK'
<1> SUFFICES ASSUME SafetyTypeOK, [SafetyNext]_safetyVars PROVE SafetyTypeOK'
  OBVIOUS
<1>1. ASSUME NEW c \in Calls, Reserve(c) PROVE SafetyTypeOK'
  <2>1. PICK A \in Choices(target[c]) :
          /\ store' = Consumed(c, target[c], A)
          /\ approval' = [approval EXCEPT ![c] = {<<a, store.approvals[a].grant>> : a \in A}]
    BY <1>1 DEF Reserve
  <2>2. store' \in Store
    BY <2>1, ConsumedStore
  <2>3. {<<a, store.approvals[a].grant>> : a \in A} \subseteq Approvals \X (1..MaxGrants)
    BY ConsumedStore DEF Grant
  <2>4. approval' \in [Calls -> SUBSET (Approvals \X (1..MaxGrants))]
    BY <2>1, <2>3 DEF SafetyTypeOK
  <2>5. during' \in [Calls -> SUBSET (Calls \cup Approvals)]
    BY <1>1 DEF SafetyTypeOK, Reserve, Overlapped
  <2> QED
    BY <1>1, <2>2, <2>4, <2>5 DEF SafetyTypeOK, Reserve, Phases
<1>2. ASSUME NEW c \in Calls, Reject(c) \/ Accept(c) PROVE SafetyTypeOK'
  BY <1>2 DEF SafetyTypeOK, Reject, Accept, Phases
<1>3. ASSUME NEW c \in Calls, Fail(c) PROVE SafetyTypeOK'
  BY <1>3 DEF SafetyTypeOK, Fail, Phases
<1>4. ASSUME NEW a \in Approvals, NEW t \in NeedsApproval, NEW e \in 0..(MaxClock + 1),
             RecordApproval(a, t, e)
      PROVE  SafetyTypeOK'
  <2> DEFINE r == [target |-> t, expires |-> e, grant |-> grants[a] + 1, by |-> Nobody]
  <2>1. grants[a] + 1 \in 1..MaxGrants
    BY <1>4, SafetyAssumption DEF SafetyTypeOK, RecordApproval
  <2>2. r \in Grant
    BY <2>1, SafetyAssumption DEF Grant
  <2>3. store' \in Store
    BY <1>4, <2>2 DEF SafetyTypeOK, RecordApproval, Store
  <2>4. grants' \in [Approvals -> 0..MaxGrants]
    BY <1>4, <2>1, SafetyAssumption DEF SafetyTypeOK, RecordApproval
  <2>5. during' \in [Calls -> SUBSET (Calls \cup Approvals)]
    BY <1>4 DEF SafetyTypeOK, RecordApproval, Overlapped
  <2> QED
    BY <1>4, <2>3, <2>4, <2>5 DEF SafetyTypeOK, RecordApproval
<1>5. CASE SafetyTick
  BY <1>5, SafetyAssumption DEF SafetyTypeOK, SafetyTick
<1>6. CASE UNCHANGED safetyVars
  BY <1>6 DEF SafetyTypeOK, safetyVars
<1> QED
  BY <1>1, <1>2, <1>3, <1>4, <1>5, <1>6 DEF SafetyNext

\* SafetyTypeOK holds throughout: the consumables, the snapshots and the calls
\* keep their types.
THEOREM SafetyTypeCorrect == SafetySpec => []SafetyTypeOK
<1>1. SafetyInit => SafetyTypeOK
  BY SafetyAssumption DEF SafetyInit, SafetyTypeOK, Store, Phases
<1> QED
  BY <1>1, SafetyNextType, PTL DEF SafetySpec

\* What an approval's entry is after a call took it or another.
LEMMA ConsumedApprovals ==
  ASSUME SafetyTypeOK, NEW c \in Calls, NEW A \in Choices(target[c]), NEW a \in Approvals,
         store.approvals[a] # Ungranted
  PROVE  LET S == Consumed(c, target[c], A) IN
         /\ S.approvals[a] # Ungranted
         /\ S.approvals[a].grant = store.approvals[a].grant
         /\ a \notin A => S.approvals[a] = store.approvals[a]
         /\ a \in A => S.approvals[a].by = c
<1>1. store.approvals[a] \in Grant
  BY DEF SafetyTypeOK, Store
<1>2. [store.approvals[a] EXCEPT !.by = c] \in Grant
  BY <1>1 DEF Grant
<1>3. Ungranted \notin Grant
  BY SafetyAssumption DEF Grant
<1> QED
  BY <1>1, <1>2, <1>3 DEF Consumed, Grant

\* A store whose approvals a call did not touch is behind the count as before.
LEMMA GrantsCountedStep ==
  ASSUME SafetyInv, [SafetyNext]_safetyVars
  PROVE  GrantsAreCounted'
<1>1. ASSUME NEW c \in Calls, Reserve(c) PROVE GrantsAreCounted'
  <2>1. PICK A \in Choices(target[c]) :
          /\ store' = Consumed(c, target[c], A)
          /\ approval' = [approval EXCEPT ![c] = {<<a, store.approvals[a].grant>> : a \in A}]
    BY <1>1 DEF Reserve
  <2>2. Behind(store')
    <3> SUFFICES ASSUME NEW a \in Approvals, store'.approvals[a] # Ungranted
                 PROVE  store'.approvals[a].grant <= grants[a]
      BY DEF Behind
    <3>1. store.approvals[a] # Ungranted
      <4>1. a \in A => store.approvals[a] # Ungranted
        BY ConsumedStore DEF SafetyInv
      <4>2. a \notin A => store'.approvals[a] = store.approvals[a]
        BY <2>1 DEF Consumed
      <4> QED
        BY <4>1, <4>2
    <3> QED
      BY <2>1, <3>1, ConsumedApprovals DEF SafetyInv, GrantsAreCounted, Behind
  <2>3. \A g \in approval'[c] : g[2] <= grants[g[1]]
    BY <2>1, ConsumedStore DEF SafetyInv, SafetyTypeOK, GrantsAreCounted, Behind
  <2> QED
    BY <1>1, <2>1, <2>2, <2>3 DEF SafetyInv, SafetyTypeOK, GrantsAreCounted, Behind, Reserve
<1>2. ASSUME NEW c \in Calls, Fail(c) PROVE GrantsAreCounted'
  BY <1>2 DEF SafetyInv, GrantsAreCounted, Behind, Fail
<1>3. ASSUME NEW a \in Approvals, NEW t \in NeedsApproval, NEW e \in 0..(MaxClock + 1),
             RecordApproval(a, t, e)
      PROVE  GrantsAreCounted'
  <2>1. \A x \in Approvals : grants[x] \in Nat /\ grants'[x] \in Nat /\ grants[x] <= grants'[x]
    BY <1>3 DEF SafetyInv, SafetyTypeOK, RecordApproval
  <2>2. \A S \in Store : \A x \in Approvals : S.approvals[x] # Ungranted => S.approvals[x].grant \in Nat
    BY DEF Store, Grant
  <2>3. Behind(store)'
    BY <1>3, <2>1, <2>2 DEF SafetyInv, SafetyTypeOK, GrantsAreCounted, Behind, RecordApproval, Store
  <2>4. \A b \in Calls : Behind(saved[b])'
    BY <1>3, <2>1, <2>2 DEF SafetyInv, SafetyTypeOK, GrantsAreCounted, Behind, RecordApproval
  <2>5. \A c \in Calls : \A g \in approval[c] : g[1] \in Approvals /\ g[2] \in Nat
    BY DEF SafetyInv, SafetyTypeOK
  <2>6. \A c \in Calls : \A g \in approval'[c] : g[2] <= grants'[g[1]]
    BY <1>3, <2>1, <2>5 DEF SafetyInv, GrantsAreCounted, RecordApproval
  <2> QED
    BY <2>3, <2>4, <2>6 DEF GrantsAreCounted
<1>4. ASSUME NEW c \in Calls, Reject(c) \/ Accept(c) PROVE GrantsAreCounted'
  BY <1>4 DEF SafetyInv, GrantsAreCounted, Behind, Reject, Accept
<1>5. CASE SafetyTick \/ UNCHANGED safetyVars
  BY <1>5 DEF SafetyInv, GrantsAreCounted, Behind, SafetyTick, safetyVars
<1> QED
  BY <1>1, <1>2, <1>3, <1>4, <1>5 DEF SafetyNext

\* Overlaps are known because a reservation tells every call in flight.
LEMMA OverlapsStep ==
  ASSUME SafetyInv, [SafetyNext]_safetyVars
  PROVE  OverlapsAreKnown'
<1> USE DEF SafetyInv, OverlapsAreKnown, SafetyTypeOK
<1>1. ASSUME NEW c \in Calls, Reserve(c) PROVE OverlapsAreKnown'
  BY <1>1, SafetyAssumption DEF Reserve, Overlapped, Busy
<1>2. ASSUME NEW c \in Calls, Reject(c) \/ Accept(c) \/ Fail(c) PROVE OverlapsAreKnown'
  BY <1>2 DEF Reject, Accept, Fail, Busy
<1>3. ASSUME NEW a \in Approvals, NEW t \in NeedsApproval, NEW e \in 0..(MaxClock + 1),
             RecordApproval(a, t, e)
      PROVE  OverlapsAreKnown'
  BY <1>3 DEF RecordApproval, Overlapped, Busy
<1>4. CASE SafetyTick \/ UNCHANGED safetyVars
  BY <1>4, SafetyAssumption DEF SafetyTick, safetyVars, Busy
<1> QED
  BY <1>1, <1>2, <1>3, <1>4 DEF SafetyNext

\* A call in flight or accepted that stands after a step stood before it,
\* unless it is the one that was reserved.
LEMMA StandingStep ==
  ASSUME SafetyTypeOK, [SafetyNext]_safetyVars, NEW c \in Standing'
  PROVE  /\ c \in Calls
         /\ c \in Standing \/ Reserve(c)
         /\ \A b \in Calls : Fail(b) => c # b /\ c \notin during[b]
<1>1. ASSUME NEW b \in Calls, Reserve(b) PROVE c \in Standing \/ b = c
  BY <1>1 DEF Standing, Reserve, SafetyTypeOK
<1>2. ASSUME NEW b \in Calls, Fail(b) PROVE c \in Standing /\ c # b /\ c \notin during[b]
  BY <1>2 DEF Standing, Fail, SafetyTypeOK
<1>3. ASSUME NEW b \in Calls, Reject(b) \/ Accept(b) PROVE c \in Standing
  BY <1>3 DEF Standing, Reject, Accept, SafetyTypeOK
<1>4. ASSUME \/ SafetyTick \/ UNCHANGED safetyVars
             \/ \E a \in Approvals, t \in NeedsApproval, e \in 0..(MaxClock + 1) :
                   RecordApproval(a, t, e)
      PROVE  c \in Standing
  BY <1>4 DEF Standing, SafetyTick, RecordApproval, safetyVars
<1>5. c \in Calls
  BY DEF Standing
<1> QED
  BY <1>1, <1>2, <1>3, <1>4, <1>5 DEF SafetyNext

\* Replacing approvals by unused ones leaves no more of any call.
LEMMA NothingLeftStep ==
  ASSUME SafetyInv, [SafetyNext]_safetyVars
  PROVE  NothingIsLeft'
<1> USE DEF SafetyInv
<1>1. ASSUME NEW c \in Calls, Reserve(c) PROVE NothingIsLeft'
  <2>1. PICK A \in Choices(target[c]) : store' = Consumed(c, target[c], A)
    BY <1>1 DEF Reserve
  <2>2. \A d \in Calls : (d # c /\ ~HasLeft(store, d)) => ~HasLeft(store', d)
    <3> SUFFICES ASSUME NEW d \in Calls, d # c, ~HasLeft(store, d) PROVE ~HasLeft(store', d)
      OBVIOUS
    <3>1. \A s \in store'.slots : s[1] # d
      BY <2>1 DEF Consumed, HasLeft
    <3>2. \A a \in Approvals : store'.approvals[a] # Ungranted => store'.approvals[a].by # d
      <4> SUFFICES ASSUME NEW a \in Approvals, store'.approvals[a] # Ungranted
                   PROVE  store'.approvals[a].by # d
        OBVIOUS
      <4>1. CASE a \in A
        BY <2>1, <4>1, ConsumedStore, ConsumedApprovals
      <4>2. CASE a \notin A
        BY <2>1, <4>2 DEF Consumed, HasLeft
      <4> QED
        BY <4>1, <4>2
    <3>3. d \notin store'.spent
      BY <2>1 DEF Consumed, HasLeft, Spending
    <3> QED
      BY <3>1, <3>2, <3>3 DEF HasLeft
  <2>3. /\ phase[c] = "idle" /\ phase' = [phase EXCEPT ![c] = "busy"]
        /\ saved' = [saved EXCEPT ![c] = store] /\ exposed' = exposed
        /\ during' = [b \in Calls |-> IF b \in Busy THEN during[b] \cup {c} ELSE during[b]]
    BY <1>1 DEF Reserve, Overlapped
  <2>4. Busy' = Busy \cup {c} /\ c \notin Busy /\ during'[c] = {}
    BY <2>3 DEF Busy, SafetyTypeOK, OverlapsAreKnown
  <2>5. \A b \in Calls : b # c => saved'[b] = saved[b]
    BY <2>3 DEF SafetyTypeOK
  <2>6. saved'[c] = store
    BY <2>3 DEF SafetyTypeOK
  <2>7. \A d \in Calls : phase'[d] \in {"idle", "rejected"} =>
          ~HasLeft(store', d) /\ \A b \in Busy' : ~HasLeft(saved'[b], d)
    BY <2>2, <2>3, <2>4, <2>5, <2>6 DEF NothingIsLeft, SafetyTypeOK
  <2>8. \A b \in Busy', d \in Calls : (d = b \/ d \in during'[b]) => ~HasLeft(saved'[b], d)
    BY <2>3, <2>4, <2>5, <2>6 DEF NothingIsLeft, SafetyTypeOK, Busy
  <2>9. \A d \in Calls \ exposed : phase'[d] = "failed" =>
          /\ ~HasLeft(store', d)
          /\ \A b \in Busy' : b \notin during'[d] => ~HasLeft(saved'[b], d)
    BY <2>2, <2>3, <2>4, <2>5, <2>6 DEF NothingIsLeft, SafetyTypeOK, Busy
  <2> QED
    BY <2>3, <2>7, <2>8, <2>9 DEF NothingIsLeft, HasLeft
<1>2. ASSUME NEW c \in Calls, Fail(c) PROVE NothingIsLeft'
  <2>1. /\ phase[c] = "busy" /\ phase' = [phase EXCEPT ![c] = "failed"]
        /\ store' = saved[c] /\ saved' = saved /\ during' = during
        /\ exposed' = exposed \cup during[c]
                        \cup {d \in Calls : c \in during[d] /\ phase[d] = "failed"}
    BY <1>2 DEF Fail
  <2>2. Busy' = Busy \ {c} /\ c \in Busy
    BY <2>1 DEF Busy, SafetyTypeOK
  <2>3. \A d \in Calls : phase'[d] \in {"idle", "rejected"} =>
          ~HasLeft(store', d) /\ \A b \in Busy' : ~HasLeft(saved'[b], d)
    BY <2>1, <2>2 DEF NothingIsLeft, SafetyTypeOK
  <2>4. \A b \in Busy', d \in Calls : (d = b \/ d \in during'[b]) => ~HasLeft(saved'[b], d)
    BY <2>1, <2>2 DEF NothingIsLeft
  <2>5. ASSUME NEW d \in Calls \ exposed', phase'[d] = "failed"
        PROVE  /\ ~HasLeft(store', d)
               /\ \A b \in Busy' : b \notin during'[d] => ~HasLeft(saved'[b], d)
    <3>1. CASE d = c
      BY <2>1, <2>2, <3>1 DEF NothingIsLeft, OverlapsAreKnown
    <3>2. CASE d # c
      BY <2>1, <2>2, <2>5, <3>2 DEF NothingIsLeft, SafetyTypeOK
    <3> QED
      BY <3>1, <3>2
  <2> QED
    BY <2>3, <2>4, <2>5 DEF NothingIsLeft, HasLeft
<1>3. ASSUME NEW a \in Approvals, NEW t \in NeedsApproval, NEW e \in 0..(MaxClock + 1),
             RecordApproval(a, t, e)
      PROVE  NothingIsLeft'
  <2>1. \A d \in Calls : ~HasLeft(store, d) => ~HasLeft(store', d)
    BY <1>3, SafetyAssumption DEF RecordApproval, HasLeft, SafetyTypeOK, Store
  <2>2. /\ phase' = phase /\ saved' = saved /\ exposed' = exposed
        /\ \A b \in Calls : \A d \in Calls : d \in during'[b] <=> d \in during[b]
    BY <1>3, SafetyAssumption DEF RecordApproval, Overlapped, SafetyTypeOK
  <2>3. Busy' = Busy /\ Busy \subseteq Calls
    BY <2>2 DEF Busy
  <2> QED
    BY <2>1, <2>2, <2>3 DEF NothingIsLeft, HasLeft
<1>4. ASSUME NEW c \in Calls, Reject(c) \/ Accept(c) PROVE NothingIsLeft'
  <2>1. /\ store' = store /\ saved' = saved /\ during' = during /\ exposed' = exposed
        /\ Busy' \subseteq Busy
        /\ \A d \in Calls : phase'[d] \in {"idle", "rejected"} => phase[d] \in {"idle", "rejected"}
        /\ \A d \in Calls : phase'[d] = "failed" => phase[d] = "failed"
    BY <1>4 DEF Reject, Accept, Busy, SafetyTypeOK
  <2> QED
    BY <2>1 DEF NothingIsLeft, HasLeft
<1>5. CASE SafetyTick \/ UNCHANGED safetyVars
  BY <1>5 DEF NothingIsLeft, HasLeft, SafetyTick, safetyVars, Busy
<1> QED
  BY <1>1, <1>2, <1>3, <1>4, <1>5 DEF SafetyNext

\* A rollback takes back the grants of its own time only.
LEMMA GrantsKeptStep ==
  ASSUME SafetyInv, [SafetyNext]_safetyVars
  PROVE  GrantsAreKept'
<1> USE DEF SafetyInv
<1>1. ASSUME NEW c \in Calls, Reserve(c) PROVE GrantsAreKept'
  <2>1. PICK A \in Choices(target[c]) : store' = Consumed(c, target[c], A)
    BY <1>1 DEF Reserve
  <2>2. /\ saved' = [saved EXCEPT ![c] = store] /\ exposed' = exposed /\ grants' = grants
        /\ during' = [b \in Calls |-> IF b \in Busy THEN during[b] \cup {c} ELSE during[b]]
        /\ Busy' = Busy \cup {c}
    BY <1>1 DEF Reserve, Overlapped, Busy, SafetyTypeOK
  <2>3. \A a \in Approvals : Kept(store, a) => Kept(store, a)' /\ Kept(saved[c], a)'
    BY <2>1, <2>2, ConsumedApprovals DEF Kept, SafetyTypeOK
  <2>4. \A b \in Busy, a \in Approvals : b # c =>
          /\ Kept(saved[b], a) => Kept(saved[b], a)'
          /\ a \in during[b] => a \in during'[b]
    BY <2>2 DEF Kept, SafetyTypeOK, Busy
  <2> QED
    BY <2>2, <2>3, <2>4 DEF GrantsAreKept
<1>2. ASSUME NEW c \in Calls, Fail(c) PROVE GrantsAreKept'
  <2>1. /\ store' = saved[c] /\ saved' = saved /\ during' = during /\ grants' = grants
        /\ exposed \cup during[c] \subseteq exposed'
        /\ Busy' \subseteq Busy /\ c \in Busy
    BY <1>2 DEF Fail, Busy, SafetyTypeOK
  <2> QED
    BY <2>1 DEF GrantsAreKept, Kept
<1>3. ASSUME NEW a \in Approvals, NEW t \in NeedsApproval, NEW e \in 0..(MaxClock + 1),
             RecordApproval(a, t, e)
      PROVE  GrantsAreKept'
  <2> DEFINE r == [target |-> t, expires |-> e, grant |-> grants[a] + 1, by |-> Nobody]
  <2>1. r \in Grant
    BY <1>3, SafetyAssumption DEF RecordApproval, Grant, SafetyTypeOK
  <2>2. r # Ungranted
    BY <2>1, SafetyAssumption DEF Grant
  <2>3. /\ store'.approvals = [store.approvals EXCEPT ![a] = r]
        /\ grants' = [grants EXCEPT ![a] = @ + 1]
        /\ saved' = saved /\ exposed' = exposed /\ Busy' = Busy
        /\ during' = [b \in Calls |-> IF b \in Busy THEN during[b] \cup {a} ELSE during[b]]
    BY <1>3 DEF RecordApproval, Overlapped, Busy, SafetyTypeOK, Store
  <2>4. Kept(store, a)' /\ \A b \in Busy : a \in during'[b]
    BY <2>2, <2>3 DEF Kept, SafetyTypeOK, Store, Busy
  <2>5. \A x \in Approvals : x # a =>
          /\ grants'[x] = grants[x]
          /\ Kept(store, x) => Kept(store, x)'
          /\ \A b \in Busy : Kept(saved[b], x) => Kept(saved[b], x)'
    BY <2>3 DEF Kept, SafetyTypeOK, Store
  <2>6. \A x \in Approvals, b \in Busy : x \in during[b] => x \in during'[b]
    BY <2>3 DEF Busy
  <2> QED
    BY <2>3, <2>4, <2>5, <2>6 DEF GrantsAreKept
<1>4. ASSUME NEW c \in Calls, Reject(c) \/ Accept(c) PROVE GrantsAreKept'
  <2>1. Busy' \subseteq Busy
    BY <1>4 DEF Reject, Accept, Busy, SafetyTypeOK
  <2> QED
    BY <1>4, <2>1 DEF GrantsAreKept, Kept, Reject, Accept
<1>5. CASE SafetyTick \/ UNCHANGED safetyVars
  BY <1>5 DEF GrantsAreKept, Kept, SafetyTick, safetyVars, Busy
<1> QED
  BY <1>1, <1>2, <1>3, <1>4, <1>5 DEF SafetyNext

\* A call that stands keeps its marks in the store, and in every snapshot that
\* a rollback may bring back without exposing it.
LEMMA StandingMarkedStep ==
  ASSUME SafetyInv, [SafetyNext]_safetyVars
  PROVE  StandingIsMarked'
<1> USE DEF SafetyInv
<1>1. ASSUME NEW c \in Calls, Reserve(c) PROVE StandingIsMarked'
  <2>1. PICK A \in Choices(target[c]) :
          /\ store' = Consumed(c, target[c], A)
          /\ approval' = [approval EXCEPT ![c] = {<<a, store.approvals[a].grant>> : a \in A}]
    BY <1>1 DEF Reserve
  <2>2. /\ saved' = [saved EXCEPT ![c] = store] /\ at' = [at EXCEPT ![c] = clock]
        /\ during' = [b \in Calls |-> IF b \in Busy THEN during[b] \cup {c} ELSE during[b]]
        /\ Busy' = Busy \cup {c} /\ c \notin Busy /\ clock' = clock /\ target' = target
    BY <1>1 DEF Reserve, Overlapped, Busy, SafetyTypeOK
  <2>3. ASSUME NEW d \in Standing, d # c, NEW S \in Store
        PROVE  Marked(S, d) => Marked(S, d)'
    <3>1. d \in Calls /\ at'[d] = at[d] /\ approval'[d] = approval[d]
      BY <2>1, <2>2, <2>3 DEF Standing, SafetyTypeOK
    <3> QED
      BY <2>2, <3>1 DEF Marked, InWindow
  <2>4. ASSUME NEW d \in Standing, d # c, Marked(store, d)
        PROVE  Marked(store, d)'
    <3>1. d \in Calls /\ at'[d] = at[d] /\ approval'[d] = approval[d]
      BY <2>1, <2>2, <2>4 DEF Standing, SafetyTypeOK
    <3>2. ASSUME NEW g \in approval[d]
          PROVE  /\ store'.approvals[g[1]] # Ungranted
                 /\ \/ store'.approvals[g[1]].grant > g[2]
                    \/ store'.approvals[g[1]].grant = g[2] /\ store'.approvals[g[1]].by = d
      <4>1. g[1] \in Approvals /\ store.approvals[g[1]] # Ungranted
        BY <2>4, <3>1 DEF Marked, SafetyTypeOK
      <4>2. CASE g[1] \in A
        <5>1. store.approvals[g[1]].by = Nobody /\ d # Nobody
          BY <4>2, <3>1, ConsumedStore, SafetyAssumption
        <5>2. store.approvals[g[1]].grant > g[2]
          BY <2>4, <5>1 DEF Marked
        <5> QED
          BY <2>1, <4>1, <5>2, ConsumedApprovals
      <4>3. CASE g[1] \notin A
        BY <2>1, <2>4, <4>1, <4>3, ConsumedApprovals DEF Marked
      <4> QED
        BY <4>2, <4>3
    <3>3. ASSUME \A j \in Rules(target[d]) : InWindow(d, RateRules[target[d]][j].window)
          PROVE  \A i \in Rules(target[d]) : <<d, i>> \in store'.slots
      <4>1. \A i \in Rules(target[d]) : <<d, i>> \in store.slots
        BY <2>4, <3>3 DEF Marked
      <4>2. \A i \in Rules(target[d]), n \in Rules(target[d]) : <<d, i>> \in Remaining(target[d], n)
        BY <3>1, <3>3, <4>1, RuleFields DEF Remaining, SafetyTypeOK
      <4>3. \A i \in Rules(target[d]) : Len(RateRules[target[d]]) \in Rules(target[d])
        BY <3>1, RuleFields DEF SafetyTypeOK
      <4> QED
        BY <2>1, <4>1, <4>2, <4>3 DEF Consumed
    <3>4. (target[d] \in Charged /\ InWindow(d, BudgetWindow)) => d \in store'.spent
      BY <2>1, <2>4 DEF Marked, Consumed, Spending
    <3> QED
      BY <2>2, <3>1, <3>2, <3>3, <3>4 DEF Marked, InWindow
  <2>5. Marked(store, c)'
    <3>1. target[c] \in Targets
      BY DEF SafetyTypeOK
    <3>2. ASSUME NEW g \in approval'[c]
          PROVE  /\ store'.approvals[g[1]] # Ungranted
                 /\ store'.approvals[g[1]].grant = g[2]
                 /\ store'.approvals[g[1]].by = c
      <4>1. PICK a \in A : g = <<a, store.approvals[a].grant>>
        BY <2>1, <3>2 DEF SafetyTypeOK
      <4> QED
        BY <2>1, <4>1, ConsumedStore, ConsumedApprovals
    <3>3. \A i \in Rules(target[c]) : <<c, i>> \in store'.slots
      BY <2>1 DEF Consumed
    <3>4. target[c] \in Charged => c \in store'.spent
      BY <2>1 DEF Consumed
    <3> QED
      BY <2>2, <3>2, <3>3, <3>4 DEF Marked
  <2>6. ASSUME NEW d \in Standing', NEW b \in Busy', b # d, d \notin during'[b]
        PROVE  Marked(saved[b], d)'
    <3>1. d \in Calls /\ b \in Calls /\ (d \in Standing \/ d = c)
      BY <1>1, <2>2 DEF Standing, Reserve, SafetyTypeOK, Busy
    <3>2. CASE b = c
      BY <2>2, <2>3, <2>6, <3>1, <3>2 DEF StandingIsMarked, SafetyTypeOK
    <3>3. CASE b # c
      <4>1. b \in Busy /\ d # c /\ d \notin during[b] /\ saved'[b] = saved[b] /\ saved[b] \in Store
        BY <2>2, <2>6, <3>1, <3>3 DEF SafetyTypeOK, Busy
      <4>2. Marked(saved[b], d)
        BY <2>6, <3>1, <4>1 DEF StandingIsMarked
      <4>3. approval'[d] = approval[d] /\ at'[d] = at[d]
        BY <2>1, <2>2, <3>1, <4>1 DEF SafetyTypeOK
      <4> QED
        BY <2>2, <4>1, <4>2, <4>3 DEF Marked, InWindow
    <3> QED
      BY <3>2, <3>3
  <2>7. \A d \in Standing' : d \in Standing \/ d = c
    BY <1>1 DEF Standing, Reserve, SafetyTypeOK
  <2> QED
    BY <2>4, <2>5, <2>6, <2>7 DEF StandingIsMarked
<1>2. ASSUME NEW c \in Calls, Fail(c) PROVE StandingIsMarked'
  <2>1. /\ store' = saved[c] /\ saved' = saved /\ during' = during /\ at' = at
        /\ clock' = clock /\ target' = target /\ approval' = approval
        /\ Busy' \subseteq Busy /\ c \in Busy
    BY <1>2 DEF Fail, Busy, SafetyTypeOK
  <2>2. \A d \in Standing' : d \in Standing /\ d # c /\ d \notin during[c]
    BY <1>2 DEF Standing, Fail, SafetyTypeOK
  <2> QED
    BY <2>1, <2>2 DEF StandingIsMarked, Marked, InWindow
<1>3. ASSUME NEW a \in Approvals, NEW t \in NeedsApproval, NEW e \in 0..(MaxClock + 1),
             RecordApproval(a, t, e)
      PROVE  StandingIsMarked'
  <2> DEFINE r == [target |-> t, expires |-> e, grant |-> grants[a] + 1, by |-> Nobody]
  <2>1. r # Ungranted
    BY <1>3, SafetyAssumption DEF RecordApproval, SafetyTypeOK
  <2>2. /\ store'.approvals = [store.approvals EXCEPT ![a] = r]
        /\ store'.slots = store.slots /\ store'.spent = store.spent
        /\ saved' = saved /\ exposed' = exposed /\ Busy' = Busy /\ at' = at
        /\ clock' = clock /\ target' = target /\ approval' = approval /\ Standing' = Standing
        /\ \A b \in Busy : during[b] \subseteq during'[b]
    BY <1>3 DEF RecordApproval, Overlapped, Busy, SafetyTypeOK, Store, Standing
  <2>3. ASSUME NEW d \in Standing, NEW g \in approval[d], Marked(store, d)
        PROVE  /\ store'.approvals[g[1]] # Ungranted
               /\ \/ store'.approvals[g[1]].grant > g[2]
                  \/ store'.approvals[g[1]].grant = g[2] /\ store'.approvals[g[1]].by = d
    <3>1. d \in Calls /\ g[1] \in Approvals /\ g[2] \in Nat /\ g[2] <= grants[g[1]]
      BY DEF Standing, SafetyTypeOK, GrantsAreCounted
    <3>2. CASE g[1] = a
      BY <2>1, <2>2, <3>1, <3>2 DEF SafetyTypeOK, Store
    <3>3. CASE g[1] # a
      BY <2>2, <2>3, <3>1, <3>3 DEF SafetyTypeOK, Store, Marked
    <3> QED
      BY <3>2, <3>3
  <2>4. \A d \in Standing : Marked(store, d) => Marked(store, d)'
    BY <2>2, <2>3 DEF Marked, InWindow
  <2>5. \A d \in Standing, b \in Busy : Marked(saved[b], d) => Marked(saved[b], d)'
    BY <2>2 DEF Marked, InWindow
  <2> QED
    BY <2>2, <2>4, <2>5 DEF StandingIsMarked
<1>4. ASSUME NEW c \in Calls, Reject(c) \/ Accept(c) PROVE StandingIsMarked'
  <2>1. Busy' \subseteq Busy /\ Standing' \subseteq Standing
    BY <1>4 DEF Reject, Accept, Busy, Standing, SafetyTypeOK
  <2> QED
    BY <1>4, <2>1 DEF StandingIsMarked, Marked, InWindow, Reject, Accept
<1>5. CASE SafetyTick
  <2>1. /\ store' = store /\ saved' = saved /\ during' = during /\ at' = at /\ approval' = approval
        /\ target' = target /\ Busy' = Busy /\ Standing' = Standing
        /\ clock \in Nat /\ clock' = clock + 1
    BY <1>5, SafetyAssumption DEF SafetyTick, Busy, Standing, SafetyTypeOK
  <2>2. \A d \in Standing : d \in Calls /\ target[d] \in Targets /\ at[d] \in Nat
    BY DEF Standing, SafetyTypeOK
  <2>3. \A d \in Standing, w \in Nat : InWindow(d, w)' => InWindow(d, w)
    BY <2>1, <2>2 DEF InWindow
  <2>4. \A d \in Standing : \A j \in Rules(target[d]) : RateRules[target[d]][j].window \in Nat
    BY <2>2, RuleFields
  <2>5. \A d \in Standing : InWindow(d, BudgetWindow)' => InWindow(d, BudgetWindow)
    BY <2>3, SafetyAssumption
  <2>6. ASSUME NEW d \in Standing, NEW j \in Rules(target[d])
        PROVE  InWindow(d, RateRules[target[d]][j].window)' => InWindow(d, RateRules[target[d]][j].window)
    <3>1. RateRules[target[d]][j].window \in Nat
      BY <2>4
    <3> QED
      BY <2>1, <2>2, <3>1 DEF InWindow
  <2>7. \A d \in Standing : Marked(store, d) => Marked(store, d)'
    BY <2>1, <2>5, <2>6 DEF Marked
  <2>8. \A d \in Standing, b \in Busy : Marked(saved[b], d) => Marked(saved[b], d)'
    BY <2>1, <2>5, <2>6 DEF Marked
  <2> QED
    BY <2>1, <2>7, <2>8 DEF StandingIsMarked
<1>6. CASE UNCHANGED safetyVars
  BY <1>6 DEF StandingIsMarked, Marked, InWindow, Busy, Standing, safetyVars
<1> QED
  BY <1>1, <1>2, <1>3, <1>4, <1>5, <1>6 DEF SafetyNext

\* A grant that a standing call used is marked or replaced, and so no later
\* call finds it unused.
LEMMA ApprovalStep ==
  ASSUME SafetyInv, [SafetyNext]_safetyVars
  PROVE  ApprovalUsedOnce'
<1> USE DEF SafetyInv
<1>1. ASSUME NEW c \in Calls, Reserve(c) PROVE ApprovalUsedOnce'
  <2>1. PICK A \in Choices(target[c]) :
          approval' = [approval EXCEPT ![c] = {<<a, store.approvals[a].grant>> : a \in A}]
    BY <1>1 DEF Reserve
  <2>2. ASSUME NEW d \in Standing, d # c, NEW g \in approval[d] PROVE g \notin approval'[c]
    <3>1. SUFFICES ASSUME g \in approval'[c] PROVE FALSE
      OBVIOUS
    <3>2. PICK a \in A : g = <<a, store.approvals[a].grant>>
      BY <2>1, <3>1 DEF SafetyTypeOK
    <3>3. store.approvals[a] \in Grant /\ store.approvals[a].by = Nobody
      BY ConsumedStore
    <3>4. store.approvals[a].grant \in Nat /\ d # Nobody
      BY <3>3, SafetyAssumption DEF Grant, Standing
    <3> QED
      BY <2>2, <3>2, <3>3, <3>4 DEF StandingIsMarked, Marked
  <2>3. \A d \in Standing' : d \in Calls /\ (d \in Standing \/ d = c)
    BY <1>1 DEF Standing, Reserve, SafetyTypeOK
  <2>4. \A d \in Calls : d # c => approval'[d] = approval[d]
    BY <2>1 DEF SafetyTypeOK
  <2> QED
    BY <2>2, <2>3, <2>4 DEF ApprovalUsedOnce
<1>2. CASE \E c \in Calls : Reject(c) \/ Accept(c) \/ Fail(c)
  <2>1. Standing' \subseteq Standing /\ approval' = approval
    BY <1>2 DEF Standing, Reject, Accept, Fail, SafetyTypeOK
  <2> QED
    BY <2>1 DEF ApprovalUsedOnce
<1>3. CASE \/ \E a \in Approvals, t \in NeedsApproval, e \in 0..(MaxClock + 1) :
                 RecordApproval(a, t, e)
           \/ SafetyTick \/ UNCHANGED safetyVars
  BY <1>3 DEF ApprovalUsedOnce, Standing, RecordApproval, SafetyTick, safetyVars
<1> QED
  BY <1>1, <1>2, <1>3 DEF SafetyNext

\* The invariant holds throughout.
LEMMA SafetyInvariant == SafetySpec => []SafetyInv
<1>1. SafetyInit => SafetyInv
  <2> SUFFICES ASSUME SafetyInit PROVE SafetyInv
    OBVIOUS
  <2>1. SafetyTypeOK
    BY SafetyAssumption DEF SafetyInit, SafetyTypeOK, Store, Phases
  <2>2. Busy = {} /\ Standing = {}
    BY DEF SafetyInit, Busy, Standing
  <2>3. \A c \in Calls : ~HasLeft(store, c)
    BY DEF SafetyInit, HasLeft
  <2>4. OverlapsAreKnown
    BY <2>2 DEF SafetyInit, OverlapsAreKnown
  <2>5. GrantsAreKept /\ GrantsAreCounted
    BY DEF SafetyInit, GrantsAreKept, GrantsAreCounted, Behind
  <2> QED
    BY <2>1, <2>2, <2>3, <2>4, <2>5
    DEF SafetyInit, SafetyInv, StandingIsMarked, NothingIsLeft, ApprovalUsedOnce
<1>2. SafetyInv /\ [SafetyNext]_safetyVars => SafetyInv'
  BY SafetyNextType, StandingMarkedStep, NothingLeftStep, GrantsKeptStep, GrantsCountedStep,
     OverlapsStep, ApprovalStep
  DEF SafetyInv
<1> QED
  BY <1>1, <1>2, PTL DEF SafetySpec

\* ApprovalUsedOnce: whatever fails beside them, two calls that stand never went
\* through enforceApproval() with the same grant.
THEOREM ApprovalsAreUsedOnce == SafetySpec => []ApprovalUsedOnce
  BY SafetyInvariant, PTL DEF SafetyInv

\* LedgerIsExact: rollback() leaves of a failed call nothing, and of the calls it
\* does not expose everything.
THEOREM LedgerStaysExact == SafetySpec => []LedgerIsExact
<1>1. SafetyInv => LedgerIsExact
  <2> SUFFICES ASSUME SafetyInv PROVE LedgerIsExact
    OBVIOUS
  <2> USE DEF SafetyInv
  <2>1. ASSUME NEW c \in Standing, NEW g \in approval[c], grants[g[1]] = g[2]
        PROVE  store.approvals[g[1]].by = c
    <3>1. c \in Calls /\ g[1] \in Approvals /\ g[2] \in Nat
      BY DEF Standing, SafetyTypeOK
    <3>2. store.approvals[g[1]] # Ungranted /\ store.approvals[g[1]] \in Grant
      BY <3>1 DEF StandingIsMarked, Marked, SafetyTypeOK, Store
    <3>3. store.approvals[g[1]].grant \in Nat /\ store.approvals[g[1]].grant <= g[2]
      BY <2>1, <3>1, <3>2 DEF GrantsAreCounted, Behind, Grant
    <3> QED
      BY <3>1, <3>3 DEF StandingIsMarked, Marked
  <2> QED
    BY <2>1 DEF LedgerIsExact, StandingIsMarked, Marked, NothingIsLeft, GrantsAreKept, Kept
<1> QED
  BY <1>1, SafetyInvariant, PTL

\* Every set of calls is finite, and a part of it is no larger.
LEMMA FiniteCalls ==
  ASSUME NEW S \in SUBSET Calls, NEW T \in SUBSET S
  PROVE  /\ IsFiniteSet(S) /\ Cardinality(S) \in Nat
         /\ IsFiniteSet(T) /\ Cardinality(T) \in Nat /\ Cardinality(T) <= Cardinality(S)
<1>1. IsFiniteSet(S)
  BY FS_Subset, SafetyAssumption
<1>2. IsFiniteSet(T) /\ Cardinality(T) <= Cardinality(S)
  BY <1>1, FS_Subset
<1> QED
  BY <1>1, <1>2, FS_CardinalityType

\* What every step but a reservation does to the calls that stand.
LEMMA NoNewStanding ==
  ASSUME SafetyTypeOK, [SafetyNext]_safetyVars, \A c \in Calls : ~Reserve(c)
  PROVE  Standing' \subseteq Standing /\ at' = at /\ target' = target
<1>1. CASE \E c \in Calls : Reject(c) \/ Accept(c) \/ Fail(c)
  BY <1>1 DEF Standing, Reject, Accept, Fail, SafetyTypeOK
<1>2. CASE \/ \E a \in Approvals, t \in NeedsApproval, e \in 0..(MaxClock + 1) :
                 RecordApproval(a, t, e)
           \/ SafetyTick \/ UNCHANGED safetyVars
  BY <1>2 DEF Standing, RecordApproval, SafetyTick, safetyVars
<1> QED
  BY <1>1, <1>2 DEF SafetyNext

\* The calls whose share of the budget counts in the window that ends with c.
SpentWith(c) == {d \in Standing : /\ target[d] \in Charged
                                  /\ at[d] <= at[c]
                                  /\ at[d] + BudgetWindow > at[c]}

\* enforceResource() finds every standing call of the window in the budget.
LEMMA BudgetStep ==
  ASSUME SafetyInv, BudgetHeld, [SafetyNext]_safetyVars
  PROVE  BudgetHeld'
<1> USE DEF SafetyInv
<1>1. ASSUME NEW c \in Calls, Reserve(c) PROVE BudgetHeld'
  <2> SUFFICES ASSUME NEW x \in Standing', target[x] \in Charged
               PROVE  Cardinality(SpentWith(x)') <= BudgetLimit
    BY <1>1 DEF BudgetHeld, SpentWith, Reserve
  <2>1. /\ at' = [at EXCEPT ![c] = clock] /\ target' = target /\ clock \in Nat
        /\ \A d \in Standing' : d \in Calls /\ (d \in Standing \/ d = c)
        /\ c \notin Standing
        /\ \A d \in Calls : at[d] \in Nat /\ at[d] <= clock
    BY <1>1, SafetyAssumption DEF Reserve, Standing, SafetyTypeOK, OverlapsAreKnown
  <2>2. x \in Calls /\ at \in [Calls -> 0..MaxClock]
    BY <2>1 DEF SafetyTypeOK
  <2>3. CASE at'[x] = clock /\ target[c] \in Charged
    <3>1. SpentWith(x)' \subseteq Spending \cup {c}
      BY <2>1, <2>2, <2>3 DEF SpentWith, Spending, InWindow, StandingIsMarked, Marked
    <3>2. Spending \subseteq Calls
      BY DEF Spending, SafetyTypeOK, Store
    <3>3. IsFiniteSet(Spending) /\ Cardinality(Spending) \in Nat
      BY <3>2, FiniteCalls
    <3>4. Cardinality(Spending) + 1 <= BudgetLimit
      BY <1>1, <2>3 DEF Reserve, BudgetAllows
    <3>5. Cardinality(Spending \cup {c}) <= BudgetLimit
      <4>1. Cardinality(Spending \cup {c}) = IF c \in Spending THEN Cardinality(Spending)
                                                             ELSE Cardinality(Spending) + 1
        BY <3>3, FS_AddElement
      <4> QED
        BY <3>3, <3>4, <4>1, SafetyAssumption
    <3>6. Cardinality(SpentWith(x)') <= Cardinality(Spending \cup {c})
      BY <3>1, <3>2, FiniteCalls
    <3>7. Cardinality(SpentWith(x)') \in Nat /\ Cardinality(Spending \cup {c}) \in Nat
      BY <3>1, <3>2, FiniteCalls
    <3> QED
      BY <3>5, <3>6, <3>7, SafetyAssumption
  <2>4. CASE ~(at'[x] = clock /\ target[c] \in Charged)
    <3>1. x # c \/ target[c] \notin Charged
      BY <2>1, <2>2, <2>4
    <3>2. x \in Standing /\ x # c
      BY <2>1, <3>1
    <3>3. at'[x] = at[x] /\ at[x] \in Nat /\ at[x] <= clock
      BY <2>1, <2>2, <3>2
    <3>4. SpentWith(x)' \subseteq SpentWith(x)
      BY <2>1, <2>2, <2>4, <3>2, <3>3 DEF SpentWith
    <3>5. SpentWith(x) \subseteq Calls
      BY DEF SpentWith, Standing
    <3>6. Cardinality(SpentWith(x)) <= BudgetLimit
      BY <3>2 DEF BudgetHeld, SpentWith
    <3>7. /\ Cardinality(SpentWith(x)') <= Cardinality(SpentWith(x))
          /\ Cardinality(SpentWith(x)') \in Nat /\ Cardinality(SpentWith(x)) \in Nat
      BY <3>4, <3>5, FiniteCalls
    <3> QED
      BY <3>6, <3>7, SafetyAssumption
  <2> QED
    BY <2>3, <2>4
<1>2. CASE \A c \in Calls : ~Reserve(c)
  <2>1. Standing' \subseteq Standing /\ at' = at /\ target' = target
    BY <1>2, NoNewStanding
  <2> SUFFICES ASSUME NEW x \in Standing', target[x] \in Charged
               PROVE  Cardinality(SpentWith(x)') <= BudgetLimit
    BY <2>1 DEF BudgetHeld, SpentWith
  <2>2. SpentWith(x)' \subseteq SpentWith(x) /\ SpentWith(x) \subseteq Calls
    BY <2>1 DEF SpentWith, Standing
  <2>3. Cardinality(SpentWith(x)) <= BudgetLimit
    BY <2>1 DEF BudgetHeld, SpentWith
  <2>4. /\ Cardinality(SpentWith(x)') <= Cardinality(SpentWith(x))
        /\ Cardinality(SpentWith(x)') \in Nat /\ Cardinality(SpentWith(x)) \in Nat
    BY <2>2, FiniteCalls
  <2> QED
    BY <2>3, <2>4, SafetyAssumption
<1> QED
  BY <1>1, <1>2

\* BudgetHeld: no window of enforceResource() ever spends more than the limit,
\* counting the calls that stand.
THEOREM BudgetIsHeld == SafetySpec => []BudgetHeld
<1>1. SafetyInit => BudgetHeld
  BY DEF SafetyInit, BudgetHeld, Standing
<1>2. BudgetHeld /\ SafetyInv /\ [SafetyNext]_safetyVars => BudgetHeld'
  BY BudgetStep
<1> QED
  BY <1>1, <1>2, SafetyInvariant, PTL DEF SafetySpec

\* The slots of a store are finitely many.
LEMMA FiniteSlots ==
  ASSUME SafetyTypeOK
  PROVE  IsFiniteSet(store.slots)
<1> DEFINE U == {Rules(t) : t \in Targets}
           f == [t \in Targets |-> Rules(t)]
<1>1. f \in Surjection(Targets, U)
  BY DEF Surjection
<1>2. IsFiniteSet(U)
  BY <1>1, FS_Surjection, SafetyAssumption
<1>3. \A t \in Targets : IsFiniteSet(Rules(t))
  <2> SUFFICES ASSUME NEW t \in Targets PROVE IsFiniteSet(Rules(t))
    OBVIOUS
  <2>1. RateRules[t] \in Seq([max : Nat, window : Nat \ {0}])
    BY SafetyAssumption
  <2>2. Len(RateRules[t]) \in Nat /\ Rules(t) = 1..Len(RateRules[t])
    BY <2>1 DEF Rules
  <2> QED
    BY <2>2, FS_Interval
<1>4. \A T \in U : IsFiniteSet(T)
  BY <1>3
<1>5. IsFiniteSet(UNION U)
  BY <1>2, <1>4, FS_UNION
<1>6. IsFiniteSet(Calls \X UNION U)
  BY <1>5, FS_Product, SafetyAssumption
<1> QED
  BY <1>6, FS_Subset DEF SafetyTypeOK, Store

\* The standing calls to a target that a window of length w still counts.
Counted(t, w) == {d \in Standing : target[d] = t /\ at[d] + w > clock}

\* Each of them holds a slot that every rule up to i finds, when i's window is
\* the shortest: there are no more of them than enforceRate() counts.
LEMMA CountedHaveSlots ==
  ASSUME SafetyInv, NEW t \in Targets, NEW i \in Rules(t), Shortest(t, i)
  PROVE  /\ Cardinality(Counted(t, RateRules[t][i].window)) <= Cardinality(Remaining(t, i))
         /\ Cardinality(Remaining(t, i)) \in Nat
<1> DEFINE D == Counted(t, RateRules[t][i].window)
           f == [d \in D |-> <<d, i>>]
<1>1. IsFiniteSet(Remaining(t, i))
  BY FiniteSlots, FS_Subset DEF Remaining, SafetyInv
<1>2. ASSUME NEW d \in D PROVE <<d, i>> \in Remaining(t, i)
  <2>1. d \in Standing /\ d \in Calls /\ target[d] = t /\ at[d] \in Nat /\ clock \in Nat
        /\ at[d] + RateRules[t][i].window > clock
    BY SafetyAssumption DEF Counted, Standing, SafetyInv, SafetyTypeOK
  <2>2. \A j \in Rules(t) : /\ RateRules[t][j].window \in Nat
                            /\ RateRules[t][i].window <= RateRules[t][j].window
    BY RuleFields DEF Shortest
  <2>3. \A j \in Rules(t) : InWindow(d, RateRules[t][j].window)
    BY <2>1, <2>2 DEF InWindow
  <2>4. <<d, i>> \in store.slots
    BY <2>1, <2>3 DEF SafetyInv, StandingIsMarked, Marked
  <2>5. \A j \in 1..i : j \in Rules(t)
    BY RuleFields
  <2> QED
    BY <2>1, <2>3, <2>4, <2>5 DEF Remaining
<1>3. f \in [D -> Remaining(t, i)]
  BY <1>2
<1>4. \A a, b \in D : f[a] = f[b] => a = b
  OBVIOUS
<1>5. f \in Injection(D, Remaining(t, i))
  BY <1>3, <1>4 DEF Injection, IsInjective
<1>6. Cardinality(D) <= Cardinality(Remaining(t, i))
  BY <1>1, <1>5, FS_Injection
<1> QED
  BY <1>1, <1>6, FS_CardinalityType

\* enforceRate() finds every standing call of the shortest window.
LEMMA RateStep ==
  ASSUME SafetyInv, RateHeld, [SafetyNext]_safetyVars
  PROVE  RateHeld'
<1> USE DEF SafetyInv
<1>1. ASSUME NEW c \in Calls, Reserve(c) PROVE RateHeld'
  <2>1. /\ at' = [at EXCEPT ![c] = clock] /\ target' = target /\ clock \in Nat
        /\ \A d \in Standing' : d \in Calls /\ (d \in Standing \/ d = c)
        /\ c \notin Standing
        /\ \A d \in Calls : at[d] \in Nat /\ at[d] <= clock
        /\ at \in [Calls -> 0..MaxClock] /\ \A d \in Calls : target[d] \in Targets
    BY <1>1, SafetyAssumption DEF Reserve, Standing, SafetyTypeOK, OverlapsAreKnown
  <2> SUFFICES ASSUME NEW x \in Standing', NEW i \in Rules(target[x]), Shortest(target[x], i)
               PROVE  Cardinality(WindowOf(x, i)') <= RateRules[target[x]][i].max
    BY <2>1 DEF RateHeld, Shortest
  <2> DEFINE t == target[x]
             w == RateRules[t][i].window
             m == RateRules[t][i].max
  <2>2. x \in Calls /\ t \in Targets /\ w \in Nat \ {0} /\ m \in Nat /\ i \in Nat \ {0}
    BY <2>1, RuleFields
  <2>3. CASE at'[x] = clock /\ target[c] = t
    <3>1. WindowOf(x, i)' \subseteq Counted(t, w) \cup {c}
      BY <2>1, <2>2, <2>3 DEF WindowOf, Counted
    <3>2. Counted(t, w) \subseteq Calls
      BY DEF Counted, Standing
    <3>3. IsFiniteSet(Counted(t, w)) /\ Cardinality(Counted(t, w)) \in Nat
      BY <3>2, FiniteCalls
    <3>4. Cardinality(Remaining(t, i)) + (i - 1) < m
      BY <1>1, <2>3 DEF Reserve, RateAllows
    <3>5. /\ Cardinality(Counted(t, w)) <= Cardinality(Remaining(t, i))
          /\ Cardinality(Remaining(t, i)) \in Nat
      BY <2>2, CountedHaveSlots
    <3>6. Cardinality(Counted(t, w)) + 1 <= m
      BY <2>2, <3>3, <3>4, <3>5
    <3>7. Cardinality(Counted(t, w) \cup {c}) = IF c \in Counted(t, w)
                                                THEN Cardinality(Counted(t, w))
                                                ELSE Cardinality(Counted(t, w)) + 1
      BY <3>3, FS_AddElement
    <3>8. /\ Cardinality(WindowOf(x, i)') <= Cardinality(Counted(t, w) \cup {c})
          /\ Cardinality(WindowOf(x, i)') \in Nat
      BY <3>1, <3>2, FiniteCalls
    <3> QED
      BY <2>2, <3>3, <3>6, <3>7, <3>8
  <2>4. CASE ~(at'[x] = clock /\ target[c] = t)
    <3>1. x \in Standing /\ x # c
      BY <2>1, <2>2, <2>4
    <3>2. at'[x] = at[x] /\ at[x] \in Nat /\ at[x] <= clock
      BY <2>1, <2>2, <3>1
    <3>3. WindowOf(x, i)' \subseteq WindowOf(x, i)
      BY <2>1, <2>2, <2>4, <3>1, <3>2 DEF WindowOf
    <3>4. WindowOf(x, i) \subseteq Calls
      BY DEF WindowOf, Standing
    <3>5. Cardinality(WindowOf(x, i)) <= m
      BY <3>1 DEF RateHeld
    <3>6. /\ Cardinality(WindowOf(x, i)') <= Cardinality(WindowOf(x, i))
          /\ Cardinality(WindowOf(x, i)') \in Nat /\ Cardinality(WindowOf(x, i)) \in Nat
      BY <3>3, <3>4, FiniteCalls
    <3> QED
      BY <2>2, <3>5, <3>6
  <2> QED
    BY <2>3, <2>4
<1>2. CASE \A c \in Calls : ~Reserve(c)
  <2>1. Standing' \subseteq Standing /\ at' = at /\ target' = target
    BY <1>2, NoNewStanding
  <2> SUFFICES ASSUME NEW x \in Standing', NEW i \in Rules(target[x]), Shortest(target[x], i)
               PROVE  Cardinality(WindowOf(x, i)') <= RateRules[target[x]][i].max
    BY <2>1 DEF RateHeld, Shortest
  <2>2. WindowOf(x, i)' \subseteq WindowOf(x, i) /\ WindowOf(x, i) \subseteq Calls
    BY <2>1 DEF WindowOf, Standing
  <2>3. Cardinality(WindowOf(x, i)) <= RateRules[target[x]][i].max
    BY <2>1 DEF RateHeld
  <2>4. /\ Cardinality(WindowOf(x, i)') <= Cardinality(WindowOf(x, i))
        /\ Cardinality(WindowOf(x, i)') \in Nat /\ Cardinality(WindowOf(x, i)) \in Nat
    BY <2>2, FiniteCalls
  <2>5. RateRules[target[x]][i].max \in Nat
    BY <2>1, RuleFields DEF Standing, SafetyTypeOK
  <2> QED
    BY <2>3, <2>4, <2>5
<1> QED
  BY <1>1, <1>2

\* RateHeld: no window ends with more calls that stand than the shortest of its
\* rules lets through.
THEOREM RateIsHeld == SafetySpec => []RateHeld
<1>1. SafetyInit => RateHeld
  BY DEF SafetyInit, RateHeld, Standing
<1>2. RateHeld /\ SafetyInv /\ [SafetyNext]_safetyVars => RateHeld'
  BY RateStep
<1> QED
  BY <1>1, <1>2, SafetyInvariant, PTL DEF SafetySpec
=============================================================================
