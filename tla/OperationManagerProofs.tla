------------------------ MODULE OperationManagerProofs ------------------------
(***************************************************************************)
(* Type correctness of OperationManager and the idempotency guarantee of   *)
(* begin(), for every set of keys and clients, every capacity and          *)
(* retention, and with or without hooks and microtask callers; then the    *)
(* invoke route's retries and the refinement of OperationLifecycle, for    *)
(* callers that are tasks; what the tombstones tell; and across crashes    *)
(* what OperationRecovery promises of runs, outcomes and retries.          *)
(***************************************************************************)
EXTENDS InvokeRoute, OperationRecovery, FiniteSetTheorems, SequenceTheorems,
        WellFoundedInduction, TLAPS

-----------------------------------------------------------------------------
(* The store's ranks *)

\* Deleting a key from the store's order leaves ranks that are numbers.
LEMMA RankWithoutType ==
  ASSUME NEW rank \in [Keys -> Nat], NEW k \in Keys
  PROVE  RankWithout(rank, k) \in [Keys -> Nat]
  BY DEF RankWithout

\* So does reinserting a key at its end.
LEMMA RankLastType ==
  ASSUME NEW rank \in [Keys -> Nat], NEW k \in Keys
  PROVE  RankLast(rank, k) \in [Keys -> Nat]
<1> DEFINE rest == RankWithout(rank, k)
           ranked == {j \in Keys : rest[j] > 0}
<1>1. rest \in [Keys -> Nat]
  BY RankWithoutType
<1>2. Cardinality(ranked) \in Nat
  <2>1. IsFiniteSet(ranked)
    BY KeysAssumption, FS_Subset
  <2> QED
    BY <2>1, FS_CardinalityType
<1>3. 1 + Cardinality(ranked) \in Nat
  BY <1>2
<1> QED
  BY <1>1, <1>3 DEF RankLast

-----------------------------------------------------------------------------
(* Type correctness *)

\* transition(), emit() and settle() preserve the types.
LEMMA FinishType ==
  ASSUME TypeOK,
         NEW o \in Ids, NEW s \in TerminalStatuses,
         NEW pc \in {"unborn", "scheduled", "dispatch", "run", "ack", "done"},
         NEW cs \in SUBSET Clients, NEW survives \in BOOLEAN,
         Finish(o, s, pc, cs, survives)
  PROVE  TypeOK'
<1>1. s \in Statuses
  BY DEF Statuses
<1>2. op' \in [Ids -> Operation]
  <2> DEFINE ended == [op[o] EXCEPT !.status = s, !.finished = now, !.pc = pc]
  <2>1. op[o] \in Operation /\ now \in Nat
    BY DEF TypeOK
  <2>2. ended \in Operation
    BY <1>1, <2>1 DEF Operation
  <2>3. op' = [op EXCEPT ![o] = ended]
    BY DEF Finish
  <2> QED
    BY <2>2, <2>3 DEF TypeOK
<1>3. slot' \in [Ids -> Nat]
  BY DEF TypeOK, Finish, RetainOnly
<1>4. tombstone' \in [Keys -> Tombstone \cup {NoTombstone}]
  BY <1>1 DEF TypeOK, Finish, UpdateTombstone, Present, Tombstone, NoTombstone
<1>5. /\ waiters' \in [Ids -> SUBSET Clients]
      /\ told' \in [Clients -> [op: Ids, status: Statuses] \cup {NotTold}]
      /\ alive' \in BOOLEAN
  BY <1>1 DEF TypeOK, Finish, Tell
<1> QED
  BY <1>2, <1>3, <1>4, <1>5 DEF TypeOK, Finish

\* begin() preserves the types.
LEMMA BeginType == TypeOK /\ Begin => TypeOK'
<1> SUFFICES ASSUME TypeOK, Begin PROVE TypeOK'
  OBVIOUS
<1>1. ASSUME NEW k \in Keys, BeginKnown(k), slot[tombstone[k].op] # 0 PROVE TypeOK'
  BY <1>1, RankLastType DEF TypeOK, BeginKnown, TouchTombstone
<1>2. ASSUME NEW k \in Keys, BeginKnown(k), slot[tombstone[k].op] = 0 PROVE TypeOK'
  <2> DEFINE o == tombstone[k].op
             restored == [op[o] EXCEPT !.status = tombstone[k].status, !.finished = now]
  <2>1. tombstone[k] \in Tombstone
    BY <1>2 DEF TypeOK, BeginKnown, Hit, Present
  <2>2. restored \in Operation
    <3>1. op[o] \in Operation /\ tombstone[k].status \in Statuses /\ now \in Nat
      BY <2>1 DEF TypeOK, Tombstone
    <3> QED
      BY <3>1 DEF Operation
  <2>3. op' \in [Ids -> Operation]
    BY <1>2, <2>2 DEF TypeOK, BeginKnown
  <2>4. lru' \in [Keys -> Nat]
    BY <1>2, RankLastType DEF TypeOK, BeginKnown, TouchTombstone
  <2> QED
    BY <1>2, <2>1, <2>3, <2>4 DEF TypeOK, BeginKnown, Tombstone
<1>3. ASSUME NEW k \in Keys \cup {NoKey}, NEW d \in BOOLEAN, BeginNew(k, d)
      PROVE  TypeOK'
  <2> DEFINE o == sequence + 1
  <2>1. o \in Ids /\ sequence' = o
    BY <1>3, BoundsAssumption DEF TypeOK, BeginNew, Ids
  <2>2. op' \in [Ids -> Operation]
    BY <1>3, <2>1 DEF TypeOK, BeginNew, Operation, Statuses, Active
  <2>3. /\ tombstone' \in [Keys -> Tombstone \cup {NoTombstone}]
        /\ lru' \in [Keys -> Nat]
        /\ evicted' \subseteq 0..MaxOps
    <3>1. CASE k = NoKey
      BY <1>3, <3>1 DEF TypeOK, BeginNew
    <3>2. CASE k # NoKey
      <4>1. k \in Keys /\ RecordTombstone(k, o)
        BY <1>3, <3>2 DEF BeginNew
      <4>2. tombstone' \in [Keys -> Tombstone \cup {NoTombstone}]
        BY <2>1, <4>1 DEF TypeOK, RecordTombstone, Tombstone, Statuses, Active
      <4>3. RankLast(lru, k) \in [Keys -> Nat]
        BY <4>1, RankLastType DEF TypeOK
      <4>4. Overflow(k) \subseteq Keys
        BY DEF Overflow, Present
      <4>5. lru' \in [Keys -> Nat]
        BY <4>1, <4>3, <4>4, RankWithoutType DEF RecordTombstone
      <4>6. evicted' \subseteq 0..MaxOps
        <5>1. \A j \in Keys : tombstone[j].op \in 0..MaxOps
          BY BoundsAssumption DEF TypeOK, Tombstone, NoTombstone, Ids
        <5> QED
          BY <4>1, <4>4, <5>1 DEF TypeOK, RecordTombstone
      <4> QED
        BY <4>2, <4>5, <4>6
    <3> QED
      BY <3>1, <3>2
  <2> QED
    BY <1>3, <2>1, <2>2, <2>3 DEF TypeOK, BeginNew, Ids
<1> QED
  BY <1>1, <1>2, <1>3 DEF Begin

\* The microtasks of start() preserve the types.
LEMMA MicrotaskType ==
  ASSUME TypeOK, NEW o \in Ids, Microtask(o)
  PROVE  TypeOK'
<1>1. CASE MicrotaskEnds(o)
  <2>1. op[o] \in Operation
    BY DEF TypeOK
  <2>2. [op[o] EXCEPT !.pc = "done"] \in Operation
    BY <2>1 DEF Operation
  <2> QED
    BY <1>1, <2>2 DEF TypeOK, MicrotaskEnds
<1>2. CASE MicrotaskAwaits(o)
  <2>1. op[o] \in Operation
    BY DEF TypeOK
  <2>2. [op[o] EXCEPT !.pc = "dispatch"] \in Operation
    BY <2>1 DEF Operation
  <2> QED
    BY <1>2, <2>2 DEF TypeOK, MicrotaskAwaits
<1>3. CASE HookAborts(o)
  BY <1>3, FinishType DEF HookAborts, TerminalStatuses
<1>4. CASE Dispatch(o)
  <2>1. op[o] \in Operation
    BY DEF TypeOK
  <2>2. [op[o] EXCEPT !.status = "running", !.pc = "run"] \in Operation
    BY <2>1 DEF Operation, Statuses, Active
  <2> QED
    BY <1>4, <2>2 DEF TypeOK, Dispatch
<1>5. CASE Acknowledge(o)
  BY <1>5, FinishType DEF Acknowledge, TerminalStatuses
<1>6. CASE HookLosesAck(o)
  BY <1>6, FinishType DEF HookLosesAck, TerminalStatuses
<1> QED
  BY <1>1, <1>2, <1>3, <1>4, <1>5, <1>6 DEF Microtask

\* The ends of run() preserve the types.
LEMMA RunSettlesType ==
  ASSUME TypeOK, NEW o \in Ids, RunSettles(o)
  PROVE  TypeOK'
<1>1. CASE RunEndsLate(o)
  <2>1. op[o] \in Operation
    BY DEF TypeOK
  <2>2. [op[o] EXCEPT !.pc = "done"] \in Operation
    BY <2>1 DEF Operation
  <2> QED
    BY <1>1, <2>2 DEF TypeOK, RunEndsLate
<1>2. CASE RunResolves(o)
  <2>1. op[o] \in Operation
    BY DEF TypeOK
  <2>2. [op[o] EXCEPT !.pc = "ack"] \in Operation
    BY <2>1 DEF Operation
  <2> QED
    BY <1>2, <2>2 DEF TypeOK, RunResolves
<1>3. ASSUME NEW e \in Rejections, RunRejects(o, e) PROVE TypeOK'
  <2>1. RejectedStatus(o, e) \in TerminalStatuses
    BY DEF RejectedStatus, TerminalStatuses
  <2> QED
    BY <1>3, <2>1, FinishType DEF RunRejects
<1> QED
  BY <1>1, <1>2, <1>3 DEF RunSettles

\* The deadline timer preserves the types.
LEMMA DeadlineFiresType ==
  ASSUME TypeOK, NEW o \in Ids, DeadlineFires(o)
  PROVE  TypeOK'
<1> DEFINE settled == [op[o] EXCEPT !.status = "timed_out", !.finished = now,
                                    !.aborted = TRUE, !.deadline = FALSE]
           fired == [op[o] EXCEPT !.deadline = FALSE]
<1>1. "timed_out" \in Statuses
  BY DEF Statuses, TerminalStatuses
<1>2. settled \in Operation /\ fired \in Operation
  <2>1. op[o] \in Operation /\ now \in Nat
    BY DEF TypeOK
  <2> QED
    BY <1>1, <2>1 DEF Operation
<1>3. CASE op[o].status = "running"
  <2>1. op' \in [Ids -> Operation]
    BY <1>2, <1>3 DEF TypeOK, DeadlineFires
  <2> DEFINE kept == Retained([op EXCEPT ![o] = settled])
  <2> HIDE DEF kept
  <2>5. /\ RetainOnly(kept)
        /\ \/ /\ waiters' = [waiters EXCEPT ![o] = {}]
              /\ Tell(waiters[o], o, "timed_out")
              /\ UNCHANGED alive
           \/ alive' = FALSE /\ UNCHANGED <<waiters, told>>
    BY <1>3 DEF DeadlineFires, kept
  <2>2. slot' \in [Ids -> Nat]
    BY <2>5 DEF TypeOK, RetainOnly
  <2>3. tombstone' \in [Keys -> Tombstone \cup {NoTombstone}]
    <3>1. UpdateTombstone(op[o].key, "timed_out")
      BY <1>3 DEF DeadlineFires
    <3> QED
      BY <1>1, <3>1 DEF TypeOK, UpdateTombstone, Present, Tombstone, NoTombstone
  <2>4. /\ waiters' \in [Ids -> SUBSET Clients]
        /\ told' \in [Clients -> [op: Ids, status: Statuses] \cup {NotTold}]
        /\ alive' \in BOOLEAN
    <3>1. CASE alive' = FALSE /\ UNCHANGED <<waiters, told>>
      BY <3>1 DEF TypeOK
    <3>2. CASE /\ waiters' = [waiters EXCEPT ![o] = {}]
               /\ Tell(waiters[o], o, "timed_out")
               /\ UNCHANGED alive
      <4>1. waiters' \in [Ids -> SUBSET Clients]
        BY <3>2 DEF TypeOK
      <4>2. told' \in [Clients -> [op: Ids, status: Statuses] \cup {NotTold}]
        BY <1>1, <3>2 DEF TypeOK, Tell
      <4> QED
        BY <3>2, <4>1, <4>2 DEF TypeOK
    <3> QED
      BY <2>5, <3>1, <3>2
  <2> QED
    BY <1>3, <2>1, <2>2, <2>3, <2>4 DEF TypeOK, DeadlineFires
<1>4. CASE op[o].status # "running"
  BY <1>2, <1>4 DEF TypeOK, DeadlineFires
<1> QED
  BY <1>3, <1>4

\* What callers do to an operation preserves the types.
LEMMA CallType ==
  ASSUME TypeOK, NEW c \in Clients, NEW o \in Ids, Call(c, o)
  PROVE  TypeOK'
<1>1. CASE CancelQueued(c, o)
  <2>1. op[o].pc \in {"unborn", "scheduled", "dispatch", "run", "ack", "done"}
    BY DEF TypeOK, Operation
  <2> QED
    BY <1>1, <2>1, FinishType DEF CancelQueued, TerminalStatuses
<1>2. CASE CancelActive(c, o)
  <2>1. op[o] \in Operation
    BY DEF TypeOK
  <2>2. [op[o] EXCEPT !.status = "cancelling", !.aborted = TRUE] \in Operation
    BY <2>1 DEF Operation, Statuses, Active
  <2> QED
    BY <1>2, <2>2 DEF TypeOK, CancelActive
<1>3. CASE Wait(c, o)
  BY <1>3 DEF TypeOK, Wait
<1>4. CASE Observe(c, o)
  <2>1. op[o].status \in Statuses
    BY DEF TypeOK, Operation
  <2> QED
    BY <1>4, <2>1 DEF TypeOK, Observe, Tell
<1> QED
  BY <1>1, <1>2, <1>3, <1>4 DEF Call

\* reconcile() preserves the types.
LEMMA ReconcileType ==
  ASSUME TypeOK, NEW o \in Ids, NEW r \in Resolutions, Reconcile(o, r)
  PROVE  TypeOK'
<1>1. r \in Statuses
  BY DEF Resolutions, Statuses, TerminalStatuses
<1>2. op' \in [Ids -> Operation]
  <2>1. op[o] \in Operation /\ now \in Nat
    BY DEF TypeOK
  <2>2. [op[o] EXCEPT !.status = r, !.finished = now] \in Operation
    BY <1>1, <2>1 DEF Operation
  <2> QED
    BY <2>2 DEF TypeOK, Reconcile
<1>3. tombstone' \in [Keys -> Tombstone \cup {NoTombstone}]
  BY <1>1 DEF TypeOK, Reconcile, UpdateTombstone, Present, Tombstone, NoTombstone
<1>4. /\ slot' \in [Ids -> Nat]
      /\ waiters' \in [Ids -> SUBSET Clients]
      /\ told' \in [Clients -> [op: Ids, status: Statuses] \cup {NotTold}]
  BY <1>1 DEF TypeOK, Reconcile, RetainOnly, Tell
<1> QED
  BY <1>2, <1>3, <1>4 DEF TypeOK, Reconcile

\* Every step preserves the types.
LEMMA NextType == TypeOK /\ [Next]_vars => TypeOK'
<1> SUFFICES ASSUME TypeOK, [Next]_vars PROVE TypeOK'
  OBVIOUS
<1>1. CASE Begin
  BY <1>1, BeginType
<1>2. ASSUME NEW o \in Ids, Microtask(o) \/ RunSettles(o) \/ DeadlineFires(o)
      PROVE  TypeOK'
  BY <1>2, MicrotaskType, RunSettlesType, DeadlineFiresType
<1>3. ASSUME NEW c \in Clients, NEW o \in Ids, Call(c, o) PROVE TypeOK'
  BY <1>3, CallType
<1>4. ASSUME NEW o \in Ids, NEW r \in Resolutions, Reconcile(o, r) PROVE TypeOK'
  BY <1>4, ReconcileType
<1>5. CASE Tick
  BY <1>5, BoundsAssumption DEF TypeOK, Tick
<1>6. CASE UNCHANGED vars
  BY <1>6 DEF TypeOK, vars
<1> QED
  BY <1>1, <1>2, <1>3, <1>4, <1>5, <1>6 DEF Next

\* TypeOK holds throughout: every variable of OperationManager keeps its type,
\* whatever the sizes, capacities and switches.
THEOREM TypeCorrect == Spec => []TypeOK
<1>1. Init => TypeOK
  BY BoundsAssumption DEF Init, TypeOK, Unborn, Operation, Statuses, Active,
                          NotTold, NoTombstone
<1> QED
  BY <1>1, NextType, PTL DEF Spec

-----------------------------------------------------------------------------
(* Idempotency.  AtMostOncePerWindow compares two operations of the past;   *)
(* what makes it inductive is what the store still knows of each of them.   *)

\* The store names a under its key, with a's own age.
Remembered(a) ==
  /\ tombstone[op[a].key].op = a
  /\ tombstone[op[a].key].created = op[a].created

\* A keyed operation is remembered until it overflows or expires.
StoreRemembers ==
  \A a \in 1..sequence :
    op[a].key # NoKey =>
      Remembered(a) \/ a \in evicted \/ now - op[a].created > Retention

IdempotencyInv == TypeOK /\ StoreRemembers /\ AtMostOncePerWindow

\* What every step but the begin of a new operation leaves alone.
Frame ==
  /\ sequence' = sequence
  /\ evicted' = evicted
  /\ now <= now'
  /\ \A a \in Ids : op'[a].key = op[a].key /\ op'[a].created = op[a].created
  /\ \A k \in Keys : /\ tombstone'[k].op = tombstone[k].op
                     /\ tombstone'[k].created = tombstone[k].created

\* Such a step preserves the invariant.
LEMMA FramePreserves ==
  IdempotencyInv /\ TypeOK' /\ Frame => IdempotencyInv'
<1> SUFFICES ASSUME IdempotencyInv, TypeOK', Frame PROVE IdempotencyInv'
  OBVIOUS
<1>1. /\ sequence \in Nat /\ 1..sequence \subseteq Ids
      /\ now \in Nat /\ now' \in Nat /\ Retention \in Nat
      /\ \A a \in Ids : op[a].created \in Nat /\ op[a].key \in Keys \cup {NoKey}
  BY CapacityAssumption, BoundsAssumption
     DEF IdempotencyInv, TypeOK, Ids, Operation
<1>2. StoreRemembers'
  BY <1>1 DEF IdempotencyInv, StoreRemembers, Remembered, Frame
<1>3. AtMostOncePerWindow'
  BY <1>1 DEF IdempotencyInv, AtMostOncePerWindow, Frame
<1> QED
  BY <1>2, <1>3 DEF IdempotencyInv

\* The updates of an operation object and of a tombstone are such steps.
LEMMA FinishFrame ==
  ASSUME TypeOK, NEW o \in Ids, NEW s, NEW pc, NEW cs, NEW survives,
         Finish(o, s, pc, cs, survives)
  PROVE  Frame
  BY DEF TypeOK, Operation, Finish, UpdateTombstone, Tombstone, NoTombstone, Frame

\* Rewriting the rest of an operation object keeps its key and its age.
LEMMA ObjectFrame ==
  ASSUME TypeOK, NEW o \in Ids, NEW x,
         op' = [op EXCEPT ![o] = x], x.key = op[o].key, x.created = op[o].created
  PROVE  \A a \in Ids : op'[a].key = op[a].key /\ op'[a].created = op[a].created
  BY DEF TypeOK

\* Every step of the manager but BeginNew is one.
LEMMA NextFrame ==
  ASSUME TypeOK, [Next]_vars,
         ~ \E k \in Keys \cup {NoKey}, d \in BOOLEAN : BeginNew(k, d)
  PROVE  Frame
<1>1. ASSUME NEW k \in Keys, BeginKnown(k), slot[tombstone[k].op] # 0 PROVE Frame
  BY <1>1 DEF TypeOK, BeginKnown, Frame
<1>2. ASSUME NEW k \in Keys, BeginKnown(k), slot[tombstone[k].op] = 0 PROVE Frame
  <2> DEFINE o == tombstone[k].op
             restored == [op[o] EXCEPT !.status = tombstone[k].status, !.finished = now]
  <2>1. op' = [op EXCEPT ![o] = restored]
    BY <1>2 DEF BeginKnown
  <2>2. restored.key = op[o].key /\ restored.created = op[o].created
    BY DEF TypeOK, Operation
  <2>3. \A a \in Ids : op'[a].key = op[a].key /\ op'[a].created = op[a].created
    BY <2>1, <2>2 DEF TypeOK
  <2>4. now \in Nat /\ now' = now
    BY <1>2 DEF TypeOK, BeginKnown
  <2> QED
    BY <1>2, <2>3, <2>4 DEF BeginKnown, Frame
<1>3. ASSUME NEW o \in Ids, Microtask(o) PROVE Frame
  <2> DEFINE ended == [op[o] EXCEPT !.pc = "done"]
             awaits == [op[o] EXCEPT !.pc = "dispatch"]
             running == [op[o] EXCEPT !.status = "running", !.pc = "run"]
  <2>3. op[o] \in Operation /\ now \in Nat
    BY DEF TypeOK
  <2>4. \A x \in {ended, awaits, running} :
          x.key = op[o].key /\ x.created = op[o].created
    BY <2>3 DEF Operation
  <2>1. CASE MicrotaskEnds(o) \/ MicrotaskAwaits(o) \/ Dispatch(o)
    <3>1. /\ \E x \in {ended, awaits, running} : op' = [op EXCEPT ![o] = x]
          /\ UNCHANGED <<sequence, evicted, tombstone, now>>
      BY <2>1 DEF MicrotaskEnds, MicrotaskAwaits, Dispatch
    <3>2. PICK x \in {ended, awaits, running} : op' = [op EXCEPT ![o] = x]
      BY <3>1
    <3>3. x.key = op[o].key /\ x.created = op[o].created
      BY <2>4
    <3> HIDE DEF ended, awaits, running
    <3> QED
      BY <2>3, <3>1, <3>2, <3>3, ObjectFrame DEF Frame
  <2>2. CASE HookAborts(o) \/ Acknowledge(o) \/ HookLosesAck(o)
    BY <2>2, FinishFrame DEF HookAborts, Acknowledge, HookLosesAck
  <2> QED
    BY <1>3, <2>1, <2>2 DEF Microtask
<1>4. ASSUME NEW o \in Ids, RunSettles(o) PROVE Frame
  <2>1. CASE RunEndsLate(o) \/ RunResolves(o)
    <3> DEFINE ended == [op[o] EXCEPT !.pc = "done"]
               acked == [op[o] EXCEPT !.pc = "ack"]
    <3>1. op[o] \in Operation /\ now \in Nat
      BY DEF TypeOK
    <3>2. \A x \in {ended, acked} : x.key = op[o].key /\ x.created = op[o].created
      BY <3>1 DEF Operation
    <3>3. /\ \E x \in {ended, acked} : op' = [op EXCEPT ![o] = x]
          /\ UNCHANGED <<sequence, evicted, tombstone, now>>
      BY <2>1 DEF RunEndsLate, RunResolves
    <3>4. PICK x \in {ended, acked} : op' = [op EXCEPT ![o] = x]
      BY <3>3
    <3>5. x.key = op[o].key /\ x.created = op[o].created
      BY <3>2
    <3> HIDE DEF ended, acked
    <3> QED
      BY <3>1, <3>3, <3>4, <3>5, ObjectFrame DEF Frame
  <2>2. ASSUME NEW e \in Rejections, RunRejects(o, e) PROVE Frame
    BY <2>2, FinishFrame DEF RunRejects
  <2> QED
    BY <1>4, <2>1, <2>2 DEF RunSettles
<1>5. ASSUME NEW o \in Ids, DeadlineFires(o) PROVE Frame
  <2>1. /\ sequence' = sequence /\ evicted' = evicted /\ now' = now
    BY <1>5 DEF DeadlineFires
  <2>2. \A a \in Ids : op'[a].key = op[a].key /\ op'[a].created = op[a].created
    <3> DEFINE settled == [op[o] EXCEPT !.status = "timed_out", !.finished = now,
                                        !.aborted = TRUE, !.deadline = FALSE]
               fired == [op[o] EXCEPT !.deadline = FALSE]
    <3>1. op[o] \in Operation
      BY DEF TypeOK
    <3>2. \A x \in {settled, fired} : x.key = op[o].key /\ x.created = op[o].created
      BY <3>1 DEF Operation
    <3>3. \E x \in {settled, fired} : op' = [op EXCEPT ![o] = x]
      BY <1>5 DEF DeadlineFires
    <3>4. PICK x \in {settled, fired} : op' = [op EXCEPT ![o] = x]
      BY <3>3
    <3>5. x.key = op[o].key /\ x.created = op[o].created
      BY <3>2
    <3> HIDE DEF settled, fired
    <3> QED
      BY <3>4, <3>5, ObjectFrame
  <2>3. UpdateTombstone(op[o].key, "timed_out") \/ tombstone' = tombstone
    BY <1>5 DEF DeadlineFires
  <2>4. \A k \in Keys : /\ tombstone'[k].op = tombstone[k].op
                       /\ tombstone'[k].created = tombstone[k].created
    BY <2>3 DEF TypeOK, UpdateTombstone, Tombstone, NoTombstone
  <2> QED
    BY <2>1, <2>2, <2>4 DEF TypeOK, Frame
<1>6. ASSUME NEW c \in Clients, NEW o \in Ids, Call(c, o) PROVE Frame
  <2>1. CASE CancelQueued(c, o)
    BY <2>1, FinishFrame DEF CancelQueued
  <2>2. CASE CancelActive(c, o)
    <3> DEFINE x == [op[o] EXCEPT !.status = "cancelling", !.aborted = TRUE]
    <3>1. op[o] \in Operation /\ now \in Nat
      BY DEF TypeOK
    <3>2. x.key = op[o].key /\ x.created = op[o].created
      BY <3>1 DEF Operation
    <3>3. op' = [op EXCEPT ![o] = x] /\ UNCHANGED <<sequence, evicted, tombstone, now>>
      BY <2>2 DEF CancelActive
    <3> HIDE DEF x
    <3> QED
      BY <3>1, <3>2, <3>3, ObjectFrame DEF Frame
  <2>3. CASE Wait(c, o) \/ Observe(c, o)
    BY <2>3 DEF TypeOK, Wait, Observe, Frame
  <2> QED
    BY <1>6, <2>1, <2>2, <2>3 DEF Call
<1>7. ASSUME NEW o \in Ids, NEW r \in Resolutions, Reconcile(o, r) PROVE Frame
  BY <1>7 DEF TypeOK, Operation, Reconcile, UpdateTombstone, Tombstone,
              NoTombstone, Frame
<1>8. CASE Tick
  BY <1>8 DEF TypeOK, Tick, Frame
<1>9. CASE UNCHANGED vars
  BY <1>9 DEF TypeOK, vars, Frame
<1> QED
  BY <1>1, <1>2, <1>3, <1>4, <1>5, <1>6, <1>7, <1>8, <1>9 DEF Next, Begin

\* A new operation begins only where the store remembers no live one with its
\* key: what it forgot had overflowed or expired.
LEMMA BeginNewPreserves ==
  ASSUME IdempotencyInv, TypeOK',
         NEW k \in Keys \cup {NoKey}, NEW d \in BOOLEAN, BeginNew(k, d)
  PROVE  IdempotencyInv'
<1> DEFINE n == sequence + 1
<1>1. /\ sequence \in Nat /\ n \in Ids /\ 1..sequence \subseteq Ids
      /\ now \in Nat /\ now' = now /\ Retention \in Nat
      /\ \A a \in Ids : op[a].created \in Nat /\ op[a].key \in Keys \cup {NoKey}
  <2>1. sequence \in 0..MaxOps /\ sequence < MaxOps /\ now \in 0..MaxTime /\ now' = now
    BY DEF IdempotencyInv, TypeOK, BeginNew
  <2>2. \A a \in Ids : op[a] \in Operation
    BY DEF IdempotencyInv, TypeOK
  <2>3. \A a \in Ids : op[a].created \in Nat /\ op[a].key \in Keys \cup {NoKey}
    BY <2>2 DEF Operation
  <2> QED
    BY <2>1, <2>3, CapacityAssumption, BoundsAssumption DEF Ids
<1>2. /\ sequence' = n
      /\ op'[n].key = k /\ op'[n].created = now
      /\ \A a \in 1..sequence : op'[a] = op[a]
  BY <1>1 DEF IdempotencyInv, TypeOK, BeginNew
<1>3. ASSUME NEW a \in 1..sequence, op[a].key = k, k # NoKey
      PROVE  a \in evicted \/ now - op[a].created > Retention
  <2>1. Remembered(a) \/ a \in evicted \/ now - op[a].created > Retention
    BY <1>3 DEF IdempotencyInv, StoreRemembers
  <2>2. CASE Remembered(a)
    <3>1. k \in Keys /\ ~Hit(k)
      BY <1>3 DEF BeginNew
    <3>2. tombstone[k].op = a /\ tombstone[k].created = op[a].created
      BY <1>3, <2>2 DEF Remembered
    <3>3. k \in Present
      BY <3>1, <3>2, <1>1 DEF Present, NoTombstone
    <3> QED
      BY <3>1, <3>2, <3>3 DEF Hit, Expired
  <2> QED
    BY <2>1, <2>2
<1>4. AtMostOncePerWindow'
  <2>1. evicted \subseteq evicted'
    BY DEF BeginNew, RecordTombstone
  <2> SUFFICES ASSUME NEW a \in 1..n, NEW b \in 1..n,
                      a < b, op'[a].key = op'[b].key, op'[a].key # NoKey
               PROVE  a \in evicted' \/ op'[b].created - op'[a].created > Retention
    BY <1>2 DEF AtMostOncePerWindow
  <2>2. a \in 1..sequence
    BY <1>1
  <2>3. CASE b = n
    BY <1>2, <1>3, <2>1, <2>2, <2>3
  <2>4. CASE b # n
    <3>1. b \in 1..sequence
      BY <1>1, <2>4
    <3> QED
      BY <1>2, <2>1, <2>2, <3>1 DEF IdempotencyInv, AtMostOncePerWindow
  <2> QED
    BY <2>3, <2>4
<1>5. StoreRemembers'
  <2> SUFFICES ASSUME NEW a \in 1..n, op'[a].key # NoKey
               PROVE  \/ Remembered(a)' \/ a \in evicted'
                      \/ now' - op'[a].created > Retention
    BY <1>2 DEF StoreRemembers
  <2>1. CASE k = NoKey
    <3>1. a \in 1..sequence
      BY <1>1, <1>2, <2>1
    <3>2. UNCHANGED <<tombstone, evicted>>
      BY <2>1 DEF BeginNew
    <3> QED
      BY <1>1, <1>2, <3>1, <3>2 DEF IdempotencyInv, StoreRemembers, Remembered
  <2>2. CASE k # NoKey
    <3>1. k \in Keys /\ RecordTombstone(k, n)
      BY <2>2 DEF BeginNew
    <3>2. CASE a = n
      <4>2. k \notin Overflow(k)
        BY DEF Overflow
      <4>1. /\ tombstone'[k].op = n
            /\ tombstone'[k].created = now
        BY <3>1, <4>2 DEF RecordTombstone
      <4> QED
        BY <1>2, <3>2, <4>1 DEF Remembered
    <3>3. CASE a \in 1..sequence /\ op[a].key = k
      BY <1>1, <1>2, <1>3, <2>2, <3>1, <3>3 DEF RecordTombstone
    <3>4. CASE a \in 1..sequence /\ op[a].key # k
      <4> DEFINE j == op[a].key
      <4>1. j \in Keys /\ j # k
        BY <1>1, <1>2, <3>4
      <4>2. Remembered(a) \/ a \in evicted \/ now - op[a].created > Retention
        BY <1>2, <3>4 DEF IdempotencyInv, StoreRemembers
      <4>3. CASE j \in Overflow(k) /\ Remembered(a)
        <5>1. a \in evicted'
          BY <3>1, <4>3 DEF RecordTombstone, Remembered
        <5> QED
          BY <5>1
      <4>4. CASE j \notin Overflow(k) /\ Remembered(a)
        <5>1. tombstone'[j] = tombstone[j]
          BY <3>1, <4>1, <4>4 DEF RecordTombstone
        <5> QED
          BY <1>2, <3>4, <4>4, <5>1 DEF Remembered
      <4>5. CASE ~Remembered(a)
        BY <1>1, <1>2, <3>1, <3>4, <4>2, <4>5 DEF RecordTombstone
      <4> QED
        BY <4>3, <4>4, <4>5
    <3> QED
      BY <1>1, <3>2, <3>3, <3>4
  <2> QED
    BY <2>1, <2>2
<1> QED
  BY <1>4, <1>5 DEF IdempotencyInv

\* begin() with one key starts one operation per retention window, as long as
\* its tombstone is not pushed out of the store: AtMostOncePerWindow, for every
\* number of keys and operations and every interleaving of the manager's steps.
THEOREM Idempotency == Spec => []AtMostOncePerWindow
<1>1. Init => IdempotencyInv
  <2> SUFFICES ASSUME Init PROVE IdempotencyInv
    OBVIOUS
  <2>1. TypeOK
    BY BoundsAssumption DEF Init, TypeOK, Unborn, Operation, Statuses, Active,
                            NotTold, NoTombstone
  <2>2. 1..sequence = {}
    BY DEF Init
  <2> QED
    BY <2>1, <2>2 DEF IdempotencyInv, StoreRemembers, AtMostOncePerWindow
<1>2. IdempotencyInv /\ [Next]_vars => IdempotencyInv'
  <2> SUFFICES ASSUME IdempotencyInv, [Next]_vars PROVE IdempotencyInv'
    OBVIOUS
  <2>1. TypeOK'
    BY NextType DEF IdempotencyInv
  <2>2. ASSUME NEW k \in Keys \cup {NoKey}, NEW d \in BOOLEAN, BeginNew(k, d)
        PROVE  IdempotencyInv'
    BY <2>1, <2>2, BeginNewPreserves
  <2>3. CASE ~ \E k \in Keys \cup {NoKey}, d \in BOOLEAN : BeginNew(k, d)
    BY <2>1, <2>3, NextFrame, FramePreserves DEF IdempotencyInv
  <2> QED
    BY <2>2, <2>3
<1>3. IdempotencyInv => AtMostOncePerWindow
  BY DEF IdempotencyInv
<1> QED
  BY <1>1, <1>2, <1>3, PTL DEF Spec

-----------------------------------------------------------------------------
(* Retries.  With the invoke route in front, the store may also have been    *)
(* told to forget: then the operation ended badly, and since nothing names   *)
(* it any more it cannot change again.                                       *)

\* The route forgot a, or its key has gone on to another operation since.
Redone(a) ==
  /\ op[a].key \in Generated
  /\ op[a].status \in Retryable
  /\ tombstone[op[a].key].op # a

\* Between the microtasks of start() an operation is not over.
TurnInv == \A o \in Ids : op[o].pc \in {"dispatch", "ack"} => ~Terminal(o)

\* A tombstone names an operation of its own key.
NamesInv ==
  \A k \in Keys :
    tombstone[k].op # 0 =>
      tombstone[k].op \in 1..sequence /\ op[tombstone[k].op].key = k

\* A keyed operation is remembered until it overflows, expires or is redone.
RouteRemembers ==
  \A a \in 1..sequence :
    op[a].key # NoKey =>
      \/ Remembered(a) \/ a \in evicted
      \/ now - op[a].created > Retention \/ Redone(a)

\* RetriesAreExplained, in the form that is kept.
RedoneExplained ==
  \A a, b \in 1..sequence :
    a < b /\ op[a].key = op[b].key /\ op[a].key # NoKey
      => \/ a \in evicted
         \/ op[b].created - op[a].created > Retention
         \/ Redone(a)

RouteInv == TypeOK /\ TurnInv /\ NamesInv /\ RouteRemembers /\ RedoneExplained

\* What a step does to the status of an operation p: between the microtasks of
\* start() it is not over, and once over badly and named by no tombstone it
\* stays as it is.
Turn(p) == op[p].pc \in {"dispatch", "ack"} => op[p].status \notin TerminalStatuses
Settled(p) ==
  p <= sequence /\ op[p].status \in Retryable /\ (\A k \in Keys : tombstone[k].op # p)
    => op'[p].status = op[p].status
Steady == \A p \in Ids : Turn(p)' /\ Settled(p)

\* One operation takes a new form, every other one stays.
LEMMA OneSteady ==
  ASSUME TypeOK, TurnInv, NEW o \in Ids, NEW x,
         op' = [op EXCEPT ![o] = x],
         x.pc \in {"dispatch", "ack"} => x.status \notin TerminalStatuses,
         op[o].status \in Retryable => x.status = op[o].status
  PROVE  Steady
<1> SUFFICES ASSUME NEW p \in Ids PROVE Turn(p)' /\ Settled(p)
  BY DEF Steady
<1>1. CASE p = o
  <2>1. op'[p] = x
    BY <1>1 DEF TypeOK
  <2> QED
    BY <1>1, <2>1 DEF Turn, Settled
<1>2. CASE p # o
  <2>1. op'[p] = op[p]
    BY <1>2 DEF TypeOK
  <2> QED
    BY <2>1 DEF TurnInv, Terminal, Turn, Settled
<1> QED
  BY <1>1, <1>2

\* A step that leaves operations and tombstones alone is steady.
LEMMA SameSteady ==
  ASSUME TurnInv, UNCHANGED op
  PROVE  Steady
  BY DEF TurnInv, Terminal, Steady, Turn, Settled

\* The end of an operation that was not over, or was uncertain.
LEMMA FinishSteady ==
  ASSUME TypeOK, TurnInv, NEW o \in Ids, NEW s \in TerminalStatuses,
         NEW pc, NEW cs, NEW survives, Finish(o, s, pc, cs, survives),
         pc \notin {"dispatch", "ack"}, op[o].status \notin Retryable
  PROVE  Steady
<1> DEFINE x == [op[o] EXCEPT !.status = s, !.finished = now, !.pc = pc]
<1>1. op[o] \in Operation
  BY DEF TypeOK
<1>2. x.pc = pc /\ x.status = s
  BY <1>1 DEF Operation
<1>3. op' = [op EXCEPT ![o] = x]
  BY DEF Finish
<1> HIDE DEF x
<1> QED
  BY <1>2, <1>3, OneSteady

\* The end of an operation whose microtasks are over.
LEMMA DoneSteady ==
  ASSUME TypeOK, TurnInv, NEW o \in Ids, NEW s \in TerminalStatuses,
         NEW survives \in BOOLEAN, Finish(o, s, "done", {}, survives),
         op[o].status \notin Retryable
  PROVE  Steady
<1>1. "done" \notin {"dispatch", "ack"}
  OBVIOUS
<1> QED
  BY <1>1, FinishSteady

\* Callers that are no microtasks never find an operation between its own.
LEMMA CallersTurn ==
  ASSUME TypeOK, ~MicrotaskCallers, CallerTurn, NEW o \in Ids
  PROVE  op[o].pc \notin {"dispatch", "ack"}
  BY DEF CallerTurn

\* The route forgets only operations that are over.
LEMMA RetryableIsOver ==
  /\ Retryable \subseteq TerminalStatuses
  /\ Retryable \cap Reconcilable = {}
  /\ "completed" \in TerminalStatuses
  BY DEF Retryable, TerminalStatuses, Reconcilable

\* begin() is steady,
LEMMA BeginSteady ==
  ASSUME TypeOK, TurnInv, ~MicrotaskCallers, Begin
  PROVE  Steady
<1>1. ASSUME NEW k \in Keys, BeginKnown(k), slot[tombstone[k].op] # 0 PROVE Steady
  BY <1>1, SameSteady DEF BeginKnown
<1>2. ASSUME NEW k \in Keys, BeginKnown(k), slot[tombstone[k].op] = 0 PROVE Steady
  <2> DEFINE o == tombstone[k].op
             x == [op[o] EXCEPT !.status = tombstone[k].status, !.finished = now]
  <2>1. o \in Ids /\ op[o] \in Operation /\ op' = [op EXCEPT ![o] = x] /\ CallerTurn
    BY <1>2 DEF TypeOK, BeginKnown, Hit, Present, Tombstone
  <2>2. x.pc = op[o].pc
    BY <2>1 DEF Operation
  <2>3. op'[o] = x /\ \A p \in Ids : p # o => op'[p] = op[p]
    BY <2>1 DEF TypeOK
  <2> SUFFICES ASSUME NEW p \in Ids PROVE Turn(p)' /\ Settled(p)
    BY DEF Steady
  <2>4. CASE p = o
    <3>1. op'[p].pc \notin {"dispatch", "ack"}
      BY <2>1, <2>2, <2>3, <2>4, CallersTurn
    <3>2. Settled(p)
      BY <2>4 DEF Settled
    <3> QED
      BY <3>1, <3>2 DEF Turn
  <2>5. CASE p # o
    BY <2>3, <2>5 DEF TurnInv, Terminal, Turn, Settled
  <2> QED
    BY <2>4, <2>5
<1>3. ASSUME NEW k \in Keys \cup {NoKey}, NEW d \in BOOLEAN, BeginNew(k, d)
      PROVE  Steady
  <2> DEFINE n == sequence + 1
  <2>1. n \in Ids /\ sequence \in Nat
    BY <1>3, BoundsAssumption DEF TypeOK, BeginNew, Ids
  <2>2. op'[n].pc = "scheduled" /\ \A p \in Ids : p # n => op'[p] = op[p]
    BY <1>3, <2>1 DEF TypeOK, BeginNew
  <2>3. \A p \in Ids : p <= sequence => p # n
    BY <2>1 DEF Ids
  <2> QED
    BY <2>2, <2>3 DEF TurnInv, Terminal, Steady, Turn, Settled
<1> QED
  BY <1>1, <1>2, <1>3 DEF Begin

\* so are the steps of the microtask,
LEMMA MicrotaskSteady ==
  ASSUME TypeOK, TurnInv, NEW o \in Ids, Microtask(o)
  PROVE  Steady
<1>1. op[o] \in Operation
  BY DEF TypeOK
<1>2. CASE MicrotaskEnds(o)
  <2> DEFINE x == [op[o] EXCEPT !.pc = "done"]
  <2>1. op' = [op EXCEPT ![o] = x] /\ x.pc = "done" /\ x.status = op[o].status
    BY <1>1, <1>2 DEF MicrotaskEnds, Operation
  <2> HIDE DEF x
  <2> QED
    BY <2>1, OneSteady
<1>3. CASE MicrotaskAwaits(o)
  <2> DEFINE x == [op[o] EXCEPT !.pc = "dispatch"]
  <2>1. /\ op' = [op EXCEPT ![o] = x] /\ x.status = op[o].status
        /\ op[o].status \notin TerminalStatuses
    BY <1>1, <1>3 DEF MicrotaskAwaits, Terminal, Operation
  <2> HIDE DEF x
  <2> QED
    BY <2>1, OneSteady
<1>4. CASE Dispatch(o)
  <2> DEFINE x == [op[o] EXCEPT !.status = "running", !.pc = "run"]
  <2>1. op' = [op EXCEPT ![o] = x] /\ x.pc = "run" /\ op[o].pc = "dispatch"
    BY <1>1, <1>4 DEF Dispatch, Operation
  <2>2. op[o].status \notin Retryable
    BY <2>1, RetryableIsOver DEF TurnInv, Terminal
  <2> HIDE DEF x
  <2> QED
    BY <2>1, <2>2, OneSteady
<1>5. CASE HookAborts(o) \/ Acknowledge(o) \/ HookLosesAck(o)
  <2>1. op[o].pc \in {"dispatch", "ack"}
    BY <1>5 DEF HookAborts, Acknowledge, HookLosesAck
  <2>2. op[o].status \notin Retryable
    BY <2>1, RetryableIsOver DEF TurnInv, Terminal
  <2>3. PICK s \in TerminalStatuses, survives \in BOOLEAN :
               Finish(o, s, "done", {}, survives)
    BY <1>5 DEF HookAborts, Acknowledge, HookLosesAck, TerminalStatuses
  <2> QED
    BY <2>2, <2>3, DoneSteady
<1> QED
  BY <1>2, <1>3, <1>4, <1>5 DEF Microtask

\* the settling of run(),
LEMMA RunSettlesSteady ==
  ASSUME TypeOK, TurnInv, NEW o \in Ids, RunSettles(o)
  PROVE  Steady
<1>1. op[o] \in Operation
  BY DEF TypeOK
<1>2. CASE RunEndsLate(o)
  <2> DEFINE x == [op[o] EXCEPT !.pc = "done"]
  <2>1. op' = [op EXCEPT ![o] = x] /\ x.pc = "done" /\ x.status = op[o].status
    BY <1>1, <1>2 DEF RunEndsLate, Operation
  <2> HIDE DEF x
  <2> QED
    BY <2>1, OneSteady
<1>3. CASE RunResolves(o)
  <2> DEFINE x == [op[o] EXCEPT !.pc = "ack"]
  <2>1. /\ op' = [op EXCEPT ![o] = x] /\ x.status = op[o].status
        /\ op[o].status \notin TerminalStatuses
    BY <1>1, <1>3 DEF RunResolves, Terminal, Operation
  <2> HIDE DEF x
  <2> QED
    BY <2>1, OneSteady
<1>4. ASSUME NEW e \in Rejections, RunRejects(o, e) PROVE Steady
  <2>1. RejectedStatus(o, e) \in TerminalStatuses
    BY DEF RejectedStatus, TerminalStatuses
  <2>2. op[o].status \notin Retryable
    BY <1>4, RetryableIsOver DEF RunRejects, Terminal
  <2> QED
    BY <1>4, <2>1, <2>2, DoneSteady DEF RunRejects
<1> QED
  BY <1>2, <1>3, <1>4 DEF RunSettles

\* the deadline timer,
LEMMA DeadlineSteady ==
  ASSUME TypeOK, TurnInv, NEW o \in Ids, DeadlineFires(o)
  PROVE  Steady
<1> DEFINE settled == [op[o] EXCEPT !.status = "timed_out", !.finished = now,
                                    !.aborted = TRUE, !.deadline = FALSE]
           fired == [op[o] EXCEPT !.deadline = FALSE]
<1>1. op[o] \in Operation
  BY DEF TypeOK
<1>2. /\ settled.pc = op[o].pc
      /\ fired.pc = op[o].pc /\ fired.status = op[o].status
      /\ op[o].pc = "run"
  BY <1>1 DEF Operation, DeadlineFires
<1>3. CASE op[o].status = "running"
  <2>1. op' = [op EXCEPT ![o] = settled] /\ op[o].status \notin Retryable
    BY <1>3 DEF DeadlineFires, Retryable
  <2> HIDE DEF settled
  <2> QED
    BY <1>2, <2>1, OneSteady
<1>4. CASE op[o].status # "running"
  <2>1. op' = [op EXCEPT ![o] = fired]
    BY <1>4 DEF DeadlineFires
  <2> HIDE DEF fired
  <2> QED
    BY <1>2, <2>1, OneSteady
<1> QED
  BY <1>3, <1>4

\* the calls of clients
LEMMA CallSteady ==
  ASSUME TypeOK, TurnInv, ~MicrotaskCallers, NEW c \in Clients, NEW o \in Ids, Call(c, o)
  PROVE  Steady
<1>1. op[o] \in Operation
  BY DEF TypeOK
<1>2. op[o].pc \notin {"dispatch", "ack"}
  BY CallersTurn DEF Call, CancelQueued, CancelActive, Wait, Observe
<1>3. CASE CancelQueued(c, o)
  <2>1. op[o].status \notin Retryable
    BY <1>3 DEF CancelQueued, Retryable
  <2> QED
    BY <1>2, <1>3, <2>1, FinishSteady DEF CancelQueued, TerminalStatuses
<1>4. CASE CancelActive(c, o)
  <2> DEFINE x == [op[o] EXCEPT !.status = "cancelling", !.aborted = TRUE]
  <2>1. op' = [op EXCEPT ![o] = x] /\ x.pc = op[o].pc /\ op[o].status \notin Retryable
    BY <1>1, <1>4 DEF CancelActive, Operation, Retryable
  <2> HIDE DEF x
  <2> QED
    BY <1>2, <2>1, OneSteady
<1>5. CASE Wait(c, o) \/ Observe(c, o)
  BY <1>5, SameSteady DEF Wait, Observe
<1> QED
  BY <1>3, <1>4, <1>5 DEF Call

\* and the reconciliation by an operator.
LEMMA ReconcileSteady ==
  ASSUME TypeOK, TurnInv, ~MicrotaskCallers,
         NEW o \in Ids, NEW r \in Resolutions, Reconcile(o, r)
  PROVE  Steady
<1> DEFINE x == [op[o] EXCEPT !.status = r, !.finished = now]
<1>1. op[o] \in Operation /\ op[o].pc \notin {"dispatch", "ack"}
  BY CallersTurn DEF TypeOK, Reconcile
<1>2. op' = [op EXCEPT ![o] = x] /\ x.pc = op[o].pc
  BY <1>1 DEF Reconcile, Operation
<1>3. op[o].status \notin Retryable
  BY RetryableIsOver DEF Reconcile
<1> HIDE DEF x
<1> QED
  BY <1>1, <1>2, <1>3, OneSteady

\* Every step of the manager is steady.
LEMMA NextSteady ==
  ASSUME TypeOK, TurnInv, ~MicrotaskCallers, [Next]_vars
  PROVE  Steady
<1>1. CASE Begin
  BY <1>1, BeginSteady
<1>2. ASSUME NEW o \in Ids, Microtask(o) \/ RunSettles(o) \/ DeadlineFires(o) PROVE Steady
  BY <1>2, MicrotaskSteady, RunSettlesSteady, DeadlineSteady
<1>3. ASSUME NEW c \in Clients, NEW o \in Ids, Call(c, o) PROVE Steady
  BY <1>3, CallSteady
<1>4. ASSUME NEW o \in Ids, NEW r \in Resolutions, Reconcile(o, r) PROVE Steady
  BY <1>4, ReconcileSteady
<1>5. CASE Tick \/ UNCHANGED vars
  BY <1>5, SameSteady DEF Tick, vars
<1> QED
  BY <1>1, <1>2, <1>3, <1>4, <1>5 DEF Next

\* A steady step that leaves the keys and the names of the store alone.
LEMMA FrameRetries ==
  ASSUME RouteInv, TypeOK', Frame, Steady
  PROVE  RouteInv'
<1>1. /\ sequence \in Nat /\ 1..sequence \subseteq Ids
      /\ now \in Nat /\ now' \in Nat /\ Retention \in Nat
      /\ \A a \in Ids : op[a].created \in Nat /\ op[a].key \in Keys \cup {NoKey}
  BY CapacityAssumption, BoundsAssumption DEF RouteInv, TypeOK, Ids, Operation
<1>2. TurnInv'
  BY DEF Steady, Turn, TurnInv, Terminal
<1>3. NamesInv'
  BY <1>1 DEF RouteInv, NamesInv, Frame
<1>4. ASSUME NEW a \in 1..sequence, op[a].key # NoKey, Redone(a) PROVE Redone(a)'
  <2>1. \A k \in Keys : tombstone[k].op # a
    BY <1>1, <1>4 DEF RouteInv, NamesInv, Redone
  <2>2. op'[a].status = op[a].status
    BY <1>1, <1>4, <2>1 DEF Steady, Settled, Redone
  <2> QED
    BY <1>1, <1>4, <2>2 DEF Redone, Frame
<1>5. RouteRemembers'
  BY <1>1, <1>4 DEF RouteInv, RouteRemembers, Remembered, Frame
<1>6. RedoneExplained'
  <2> SUFFICES ASSUME NEW a \in 1..sequence, NEW b \in 1..sequence,
                      a < b, op'[a].key = op'[b].key, op'[a].key # NoKey
               PROVE  \/ a \in evicted' \/ op'[b].created - op'[a].created > Retention
                      \/ Redone(a)'
    BY DEF RedoneExplained, Frame
  <2>1. /\ op'[a].key = op[a].key /\ op'[b].key = op[b].key
        /\ op'[a].created = op[a].created /\ op'[b].created = op[b].created
        /\ evicted' = evicted
    BY <1>1 DEF Frame
  <2>2. a \in evicted \/ op[b].created - op[a].created > Retention \/ Redone(a)
    BY <2>1 DEF RouteInv, RedoneExplained
  <2> QED
    BY <1>4, <2>1, <2>2
<1> QED
  BY <1>2, <1>3, <1>5, <1>6 DEF RouteInv

\* What begin() of a new operation does to the names of the store.
LEMMA BeginNewNames ==
  ASSUME TypeOK, NEW k \in Keys \cup {NoKey}, NEW d \in BOOLEAN, BeginNew(k, d)
  PROVE  LET n == sequence + 1 IN
         /\ evicted \subseteq evicted'
         /\ \A j \in Keys : \/ tombstone'[j] = tombstone[j]
                            \/ tombstone'[j] = NoTombstone
                            \/ j = k /\ tombstone'[j].op = n /\ tombstone'[j].created = now
         /\ k \in Keys => tombstone'[k].op = n /\ tombstone'[k].created = now
         /\ \A j \in Keys : j # k => \/ tombstone'[j] = tombstone[j]
                                     \/ tombstone[j].op \in evicted'
<1> DEFINE n == sequence + 1
<1>1. CASE k = NoKey
  BY <1>1, KeysAssumption DEF BeginNew
<1>2. CASE k # NoKey
  <2>1. k \in Keys /\ RecordTombstone(k, n)
    BY <1>2 DEF BeginNew
  <2>2. k \notin Overflow(k)
    BY DEF Overflow
  <2>3. \A j \in Keys : tombstone'[j] = CASE j = k -> [op |-> n, status |-> "queued", created |-> now]
                                          [] j \in Overflow(k) -> NoTombstone
                                          [] OTHER -> tombstone[j]
    BY <2>1 DEF RecordTombstone
  <2>4. evicted' = evicted \cup {tombstone[j].op : j \in Overflow(k)}
    BY <2>1 DEF RecordTombstone
  <2>5. tombstone'[k] = [op |-> n, status |-> "queued", created |-> now]
    <3>1. tombstone' = [j \in Keys |->
              CASE j = k -> [op |-> n, status |-> "queued", created |-> now]
                [] j \in Overflow(k) -> NoTombstone
                [] OTHER -> tombstone[j]]
      BY <2>1 DEF RecordTombstone
    <3>2. k \in Keys /\ k \notin Overflow(k)
      BY <2>1, <2>2
    <3> HIDE DEF n
    <3> QED
      BY <3>1, <3>2, Zenon
  <2>6. \A j \in Keys : j # k /\ j \in Overflow(k) => tombstone'[j] = NoTombstone
    BY <2>2, <2>3
  <2>7. \A j \in Keys : j # k /\ j \notin Overflow(k) => tombstone'[j] = tombstone[j]
    BY <2>3
  <2> QED
    BY <2>1, <2>4, <2>5, <2>6, <2>7
<1> QED
  BY <1>1, <1>2

\* A new operation begins where the store remembers no live one with its key:
\* what it forgot had overflowed, expired, or ended badly.
LEMMA BeginNewRetries ==
  ASSUME RouteInv, TypeOK', Steady,
         NEW k \in Keys \cup {NoKey}, NEW d \in BOOLEAN, BeginNew(k, d)
  PROVE  RouteInv'
<1> DEFINE n == sequence + 1
<1>1. /\ sequence \in Nat /\ n \in Ids /\ 1..sequence \subseteq Ids
      /\ now \in Nat /\ now' = now /\ Retention \in Nat
      /\ \A a \in Ids : op[a].created \in Nat /\ op[a].key \in Keys \cup {NoKey}
  <2>1. sequence \in 0..MaxOps /\ sequence < MaxOps /\ now \in 0..MaxTime /\ now' = now
    BY DEF RouteInv, TypeOK, BeginNew
  <2>2. \A a \in Ids : op[a] \in Operation
    BY DEF RouteInv, TypeOK
  <2>3. \A a \in Ids : op[a].created \in Nat /\ op[a].key \in Keys \cup {NoKey}
    BY <2>2 DEF Operation
  <2> QED
    BY <2>1, <2>3, CapacityAssumption, BoundsAssumption DEF Ids
<1>2. /\ sequence' = n
      /\ op'[n].key = k /\ op'[n].created = now
      /\ \A a \in 1..sequence : op'[a] = op[a]
  BY <1>1 DEF RouteInv, TypeOK, BeginNew
<1>3. /\ evicted \subseteq evicted'
      /\ \A j \in Keys : \/ tombstone'[j] = tombstone[j]
                         \/ tombstone'[j] = NoTombstone
                         \/ j = k /\ tombstone'[j].op = n
      /\ k \in Keys => tombstone'[k].op = n /\ tombstone'[k].created = now
      /\ \A j \in Keys : j # k => \/ tombstone'[j] = tombstone[j]
                                  \/ tombstone[j].op \in evicted'
  BY BeginNewNames DEF RouteInv
<1>4. ASSUME NEW a \in 1..sequence, op[a].key # NoKey, Redone(a) PROVE Redone(a)'
  <2>1. op[a].key \in Keys /\ a # n /\ a # 0
    BY <1>1, <1>4
  <2>2. tombstone'[op[a].key].op # a
    BY <1>3, <1>4, <2>1 DEF Redone, NoTombstone
  <2> QED
    BY <1>2, <1>4, <2>2 DEF Redone
<1>5. ASSUME NEW a \in 1..sequence, op[a].key = k, k # NoKey
      PROVE  a \in evicted \/ now - op[a].created > Retention \/ Redone(a)
  <2>1. CASE Remembered(a)
    <3>1. k \in Keys /\ ~Hit(k)
      BY <1>5 DEF BeginNew
    <3>2. tombstone[k].op = a /\ tombstone[k].created = op[a].created
      BY <1>5, <2>1 DEF Remembered
    <3>3. k \in Present
      BY <3>1, <3>2, <1>1 DEF Present, NoTombstone
    <3> QED
      BY <3>1, <3>2, <3>3 DEF Hit, Expired
  <2> QED
    BY <1>5, <2>1 DEF RouteInv, RouteRemembers
<1>6. TurnInv'
  BY DEF Steady, Turn, TurnInv, Terminal
<1>7. NamesInv'
  <2> SUFFICES ASSUME NEW j \in Keys, tombstone'[j].op # 0
               PROVE  tombstone'[j].op \in 1..n /\ op'[tombstone'[j].op].key = j
    BY <1>2 DEF NamesInv
  <2>1. CASE tombstone'[j] = tombstone[j]
    <3>1. tombstone[j].op \in 1..sequence /\ op[tombstone[j].op].key = j
      BY <2>1 DEF RouteInv, NamesInv
    <3> QED
      BY <1>1, <1>2, <2>1, <3>1
  <2>2. CASE tombstone'[j] # tombstone[j]
    <3>1. j = k /\ tombstone'[j].op = n
      BY <1>3, <2>2 DEF NoTombstone
    <3> QED
      BY <1>1, <1>2, <3>1
  <2> QED
    BY <2>1, <2>2
<1>8. RouteRemembers'
  <2> SUFFICES ASSUME NEW a \in 1..n, op'[a].key # NoKey
               PROVE  \/ Remembered(a)' \/ a \in evicted'
                      \/ now' - op'[a].created > Retention \/ Redone(a)'
    BY <1>2 DEF RouteRemembers
  <2>1. CASE a = n
    <3>1. k \in Keys
      BY <1>2, <2>1
    <3> QED
      BY <1>2, <1>3, <2>1, <3>1 DEF Remembered
  <2>2. CASE a # n
    <3>1. a \in 1..sequence
      BY <1>1, <2>2
    <3>2. op'[a] = op[a] /\ op[a].key \in Keys
      BY <1>1, <1>2, <3>1
    <3>3. CASE op[a].key = k
      BY <1>1, <1>3, <1>4, <1>5, <3>1, <3>2, <3>3
    <3>4. CASE op[a].key # k
      <4>1. CASE Remembered(a)
        BY <1>3, <3>2, <3>4, <4>1 DEF Remembered
      <4>2. CASE ~Remembered(a)
        <5>1. a \in evicted \/ now - op[a].created > Retention \/ Redone(a)
          BY <3>1, <3>2, <4>2 DEF RouteInv, RouteRemembers
        <5> QED
          BY <1>1, <1>3, <1>4, <3>1, <3>2, <5>1
      <4> QED
        BY <4>1, <4>2
    <3> QED
      BY <3>3, <3>4
  <2> QED
    BY <2>1, <2>2
<1>9. RedoneExplained'
  <2> SUFFICES ASSUME NEW a \in 1..n, NEW b \in 1..n,
                      a < b, op'[a].key = op'[b].key, op'[a].key # NoKey
               PROVE  \/ a \in evicted' \/ op'[b].created - op'[a].created > Retention
                      \/ Redone(a)'
    BY <1>2 DEF RedoneExplained
  <2>1. a \in 1..sequence /\ op'[a] = op[a]
    BY <1>1, <1>2
  <2>2. CASE b = n
    BY <1>2, <1>3, <1>4, <1>5, <2>1, <2>2
  <2>3. CASE b # n
    <3>1. b \in 1..sequence /\ op'[b] = op[b]
      BY <1>1, <1>2, <2>3
    <3>2. a \in evicted \/ op[b].created - op[a].created > Retention \/ Redone(a)
      BY <2>1, <3>1 DEF RouteInv, RedoneExplained
    <3> QED
      BY <1>3, <1>4, <2>1, <3>1, <3>2
  <2> QED
    BY <2>2, <2>3
<1> QED
  BY <1>6, <1>7, <1>8, <1>9 DEF RouteInv

\* remove() preserves the types.
LEMMA ForgetType ==
  ASSUME TypeOK, NEW k \in Keys, Forget(k)
  PROVE  TypeOK'
<1>1. lru' \in [Keys -> Nat]
  BY RankWithoutType DEF Forget, TypeOK
<1>2. tombstone' \in [Keys -> Tombstone \cup {NoTombstone}]
  BY DEF Forget, TypeOK
<1> QED
  BY <1>1, <1>2 DEF Forget, TypeOK

\* The route forgets an operation that ended badly.
LEMMA ForgetRetries ==
  ASSUME RouteInv, NEW k \in Keys, Forget(k)
  PROVE  RouteInv'
<1> DEFINE o == tombstone[k].op
<1>1. /\ UNCHANGED <<sequence, op, slot, insertions, evicted, waiters, told, alive, now>>
      /\ k \in Generated /\ op[o].status \in Retryable
      /\ tombstone'[k] = NoTombstone
      /\ \A j \in Keys : j # k => tombstone'[j] = tombstone[j]
  BY DEF Forget, RouteInv, TypeOK
<1>2. TypeOK'
  BY ForgetType DEF RouteInv
<1>3. /\ sequence \in Nat
      /\ \A a \in 1..sequence : a # 0 /\ op[a].key \in Keys \cup {NoKey}
  BY BoundsAssumption DEF RouteInv, TypeOK, Ids, Operation
<1>4. ASSUME NEW a \in 1..sequence, op[a].key # NoKey, Redone(a) PROVE Redone(a)'
  BY <1>1, <1>3, <1>4 DEF Redone, NoTombstone
<1>5. ASSUME NEW a \in 1..sequence, op[a].key # NoKey, Remembered(a)
      PROVE  Remembered(a)' \/ Redone(a)'
  <2>1. CASE op[a].key = k
    BY <1>1, <1>3, <1>5, <2>1 DEF Remembered, Redone, NoTombstone
  <2>2. CASE op[a].key # k
    BY <1>1, <1>3, <1>5, <2>2 DEF Remembered
  <2> QED
    BY <2>1, <2>2
<1>6. TurnInv' /\ NamesInv'
  BY <1>1 DEF RouteInv, TurnInv, NamesInv, Terminal, NoTombstone
<1>7. RouteRemembers'
  BY <1>1, <1>4, <1>5 DEF RouteInv, RouteRemembers
<1>8. RedoneExplained'
  BY <1>1, <1>4 DEF RouteInv, RedoneExplained
<1> QED
  BY <1>2, <1>6, <1>7, <1>8 DEF RouteInv

\* begin() behind the invoke route, whose callers are requests and timers: a key
\* begins a second operation only when the first one overflowed, expired, or
\* ended in a way the route lets be retried, for every number of keys and
\* operations: RetriesAreExplained.
THEOREM RetriesExplained == ~MicrotaskCallers /\ RouteSpec => []RetriesAreExplained
<1> SUFFICES ASSUME ~MicrotaskCallers PROVE RouteSpec => []RetriesAreExplained
  OBVIOUS
<1>1. Init => RouteInv
  <2> SUFFICES ASSUME Init PROVE RouteInv
    OBVIOUS
  <2>1. TypeOK
    BY BoundsAssumption DEF Init, TypeOK, Unborn, Operation, Statuses, Active,
                            NotTold, NoTombstone
  <2>2. 1..sequence = {}
    BY DEF Init
  <2>3. TurnInv /\ NamesInv
    BY DEF Init, TurnInv, NamesInv, Unborn, NoTombstone
  <2> QED
    BY <2>1, <2>2, <2>3 DEF RouteInv, RouteRemembers, RedoneExplained
<1>2. RouteInv /\ [RouteNext]_vars => RouteInv'
  <2> SUFFICES ASSUME RouteInv, [RouteNext]_vars PROVE RouteInv'
    OBVIOUS
  <2>1. ASSUME NEW k \in Keys, Forget(k) PROVE RouteInv'
    BY <2>1, ForgetRetries
  <2>2. CASE [Next]_vars
    <3>1. TypeOK' /\ Steady
      BY <2>2, NextType, NextSteady DEF RouteInv
    <3>2. ASSUME NEW k \in Keys \cup {NoKey}, NEW d \in BOOLEAN, BeginNew(k, d)
          PROVE  RouteInv'
      BY <3>1, <3>2, BeginNewRetries
    <3>3. CASE ~ \E k \in Keys \cup {NoKey}, d \in BOOLEAN : BeginNew(k, d)
      BY <2>2, <3>1, <3>3, NextFrame, FrameRetries DEF RouteInv
    <3> QED
      BY <3>2, <3>3
  <2> QED
    BY <2>1, <2>2 DEF RouteNext
<1>3. RouteInv => RetriesAreExplained
  BY DEF RouteInv, RedoneExplained, Redone, RetriesAreExplained
<1> QED
  BY <1>1, <1>2, <1>3, PTL DEF RouteSpec

-----------------------------------------------------------------------------
(* Waiters.  settle() finds the operation in the Map as long as transition()*)
(* did not just drop it, which it does only when the Map is over capacity.  *)

\* The Map cannot fill up: the runs that fill it lose waiters.
Roomy == MaxOps <= MaxOperations

\* retainOperations() keeps, below capacity, what has not expired.
LEMMA RetainedKeeps ==
  ASSUME Roomy, NEW ops, NEW o \in Ids, slot[o] > 0,
         ~(ops[o].status \in TerminalStatuses /\ now - ops[o].finished > Retention)
  PROVE  o \in Retained(ops)
<1> DEFINE ended(p) == ops[p].status \in TerminalStatuses
           young == {p \in InMap : ~(ended(p) /\ now - ops[p].finished > Retention)}
           later == {p \in young : slot[p] >= slot[o]}
<1>1. o \in young
  BY DEF InMap
<1>5. /\ IsFiniteSet(1..MaxOps) /\ Cardinality(1..MaxOps) = MaxOps
      /\ later \subseteq 1..MaxOps
  <2>1. MaxOps \in Nat
    BY BoundsAssumption
  <2>2. /\ IsFiniteSet(1..MaxOps)
        /\ Cardinality(1..MaxOps) = IF 1 > MaxOps THEN 0 ELSE MaxOps - 1 + 1
    BY <2>1, FS_Interval
  <2>3. later \subseteq 1..MaxOps
    BY DEF InMap, Ids
  <2> QED
    BY <2>1, <2>2, <2>3
<1> HIDE DEF later
<1>6. IsFiniteSet(later) /\ Cardinality(later) <= Cardinality(1..MaxOps)
  BY <1>5, FS_Subset, Zenon
<1>2. Cardinality(later) <= MaxOps
  BY <1>5, <1>6
<1>3. Cardinality(later) \in Nat
  BY <1>6, FS_CardinalityType
<1>4. ~(Cardinality(later) > MaxOperations)
  BY <1>2, <1>3, BoundsAssumption, CapacityAssumption DEF Roomy
<1> QED
  BY <1>1, <1>4 DEF Retained, later

\* It drops nothing that is active.
LEMMA RetainedIsOver ==
  ASSUME TypeOK, NEW ops, NEW o \in InMap, o \notin Retained(ops)
  PROVE  ops[o].status \in TerminalStatuses
  BY DEF TypeOK, InMap, Retained

\* WaitersNotified is not inductive: an operation that left the Map may come
\* back from its tombstone with another status, so it must have no waiter.
WaitersInv ==
  /\ TypeOK
  /\ WaitersNotified
  /\ \A o \in Ids : slot[o] = 0 => waiters[o] = {}

\* What WaitersInv says beyond the types.
WaitersPart ==
  /\ WaitersNotified
  /\ \A o \in Ids : slot[o] = 0 => waiters[o] = {}

\* The end of an operation, by Finish or by the timer, settles every promise
\* for it; what retention drops besides is over and has none.
LEMMA EndWaiters ==
  ASSUME Roomy, WaitersInv, NEW o \in Ids, NEW x,
         x.status \in TerminalStatuses, x.finished = now,
         op' = [op EXCEPT ![o] = x],
         RetainOnly(Retained([op EXCEPT ![o] = x])),
         \/ waiters' = [waiters EXCEPT ![o] = {}]
         \/ o \notin Retained([op EXCEPT ![o] = x]) /\ waiters' = waiters
  PROVE  WaitersPart'
<1> DEFINE ops == [op EXCEPT ![o] = x]
           kept == Retained(ops)
<1>1. /\ op' = ops /\ RetainOnly(kept)
      /\ \/ waiters' = [waiters EXCEPT ![o] = {}]
         \/ o \notin kept /\ waiters' = waiters
  OBVIOUS
<1>2. /\ ops[o] = x
      /\ \A p \in Ids : p # o => ops[p] = op[p]
  BY DEF WaitersInv, TypeOK
<1> HIDE DEF ops
<1>3. now \in Nat /\ Retention \in Nat /\ slot \in [Ids -> Nat]
  BY CapacityAssumption DEF WaitersInv, TypeOK
<1>4. waiters'[o] = {}
  <2>1. CASE slot[o] = 0
    BY <1>1, <2>1 DEF WaitersInv, TypeOK
  <2>2. CASE slot[o] > 0
    <3>1. o \in kept
      BY <1>2, <1>3, <2>2, RetainedKeeps
    <3> QED
      BY <1>1, <3>1 DEF WaitersInv, TypeOK
  <2> QED
    BY <1>3, <2>1, <2>2
<1>5. \A p \in Ids : p # o => waiters'[p] = waiters[p]
  BY <1>1 DEF WaitersInv, TypeOK
<1>6. ASSUME NEW p \in Ids, slot'[p] = 0 PROVE waiters'[p] = {}
  <2>1. CASE p = o
    BY <1>4, <2>1
  <2>2. CASE p # o /\ slot[p] = 0
    BY <1>5, <2>2 DEF WaitersInv
  <2>3. CASE p # o /\ slot[p] > 0
    <3>1. p \notin kept /\ p \in InMap
      BY <1>1, <1>3, <1>6, <2>3 DEF RetainOnly, InMap
    <3>2. ops[p].status \in TerminalStatuses
      BY <3>1, RetainedIsOver DEF WaitersInv
    <3> QED
      BY <1>2, <1>5, <2>3, <3>2 DEF WaitersInv, WaitersNotified, Terminal
  <2> QED
    BY <1>3, <2>1, <2>2, <2>3
<1>7. ASSUME NEW p \in Ids, waiters'[p] # {}
      PROVE  op'[p].status \notin TerminalStatuses
  BY <1>1, <1>2, <1>4, <1>5, <1>7 DEF WaitersInv, WaitersNotified, Terminal
<1> QED
  BY <1>6, <1>7 DEF WaitersPart, WaitersNotified, Terminal

\* So Finish preserves the invariant.
LEMMA FinishWaiters ==
  ASSUME Roomy, WaitersInv, NEW o \in Ids, NEW s \in TerminalStatuses,
         NEW pc, NEW cs, NEW survives, Finish(o, s, pc, cs, survives)
  PROVE  WaitersPart'
<1> DEFINE x == [op[o] EXCEPT !.status = s, !.finished = now, !.pc = pc]
<1>1. x.status = s /\ x.finished = now
  BY DEF WaitersInv, TypeOK, Operation
<1>2. /\ op' = [op EXCEPT ![o] = x]
      /\ RetainOnly(Retained([op EXCEPT ![o] = x]))
      /\ \/ waiters' = [waiters EXCEPT ![o] = {}]
         \/ o \notin Retained([op EXCEPT ![o] = x]) /\ waiters' = waiters
  BY DEF Finish
<1> HIDE DEF x
<1> QED
  BY <1>1, <1>2, EndWaiters

\* A step that leaves the Map and the waiters alone may change the status of
\* an operation only if it does not end it.
LEMMA StillWaiters ==
  ASSUME WaitersInv, UNCHANGED <<slot, waiters>>,
         \A p \in Ids : op'[p].status = op[p].status \/ op'[p].status \in Active
  PROVE  WaitersPart'
<1>1. \A s \in Active : s \notin TerminalStatuses
  BY DEF Active, TerminalStatuses
<1> QED
  BY <1>1 DEF WaitersInv, WaitersPart, WaitersNotified, Terminal

\* begin() has nobody waiting for what it adds to the Map.
LEMMA BeginWaiters ==
  ASSUME WaitersInv, Begin
  PROVE  WaitersPart'
<1> USE DEF WaitersInv, TypeOK, WaitersPart, WaitersNotified, Terminal
<1>1. ASSUME NEW k \in Keys, BeginKnown(k), slot[tombstone[k].op] # 0 PROVE WaitersPart'
  BY <1>1 DEF BeginKnown
<1>2. ASSUME NEW k \in Keys, BeginKnown(k), slot[tombstone[k].op] = 0 PROVE WaitersPart'
  <2> DEFINE o == tombstone[k].op
  <2>1. o \in Ids /\ slot[o] = 0
    BY <1>2 DEF BeginKnown, Hit, Present, Tombstone
  <2>2. \A p \in Ids : p # o => op'[p] = op[p] /\ slot'[p] = slot[p]
    BY <1>2, <2>1 DEF BeginKnown
  <2>3. waiters' = waiters
    BY <1>2 DEF BeginKnown
  <2> QED
    BY <2>1, <2>2, <2>3
<1>3. ASSUME NEW k \in Keys \cup {NoKey}, NEW d \in BOOLEAN, BeginNew(k, d)
      PROVE  WaitersPart'
  <2> DEFINE n == sequence + 1
  <2>1. n \in Ids
    BY <1>3, BoundsAssumption DEF BeginNew, Ids
  <2>2. /\ op'[n].status = "queued" /\ slot'[n] > 0
        /\ \A p \in Ids : p # n => op'[p] = op[p] /\ slot'[p] = slot[p]
    BY <1>3, <2>1 DEF BeginNew
  <2>3. waiters' = waiters
    BY <1>3 DEF BeginNew
  <2>4. "queued" \notin TerminalStatuses
    BY DEF TerminalStatuses
  <2> QED
    BY <2>1, <2>2, <2>3, <2>4
<1> QED
  BY <1>1, <1>2, <1>3 DEF Begin

\* The microtasks either end the operation or leave it active.
LEMMA MicrotaskWaiters ==
  ASSUME Roomy, WaitersInv, NEW o \in Ids, Microtask(o)
  PROVE  WaitersPart'
<1>1. op[o] \in Operation /\ op \in [Ids -> Operation]
  BY DEF WaitersInv, TypeOK
<1>2. CASE MicrotaskEnds(o) \/ MicrotaskAwaits(o)
  <2>1. \A p \in Ids : op'[p].status = op[p].status
    <3>1. /\ [op[o] EXCEPT !.pc = "done"].status = op[o].status
          /\ [op[o] EXCEPT !.pc = "dispatch"].status = op[o].status
      BY <1>1 DEF Operation
    <3> QED
      BY <1>1, <1>2, <3>1 DEF MicrotaskEnds, MicrotaskAwaits
  <2> QED
    BY <1>2, <2>1, StillWaiters DEF MicrotaskEnds, MicrotaskAwaits
<1>3. CASE Dispatch(o)
  <2>1. \A p \in Ids : op'[p].status = op[p].status \/ op'[p].status = "running"
    BY <1>1, <1>3 DEF Dispatch, Operation
  <2> QED
    BY <1>3, <2>1, StillWaiters DEF Dispatch, Active
<1>4. CASE HookAborts(o) \/ Acknowledge(o) \/ HookLosesAck(o)
  BY <1>4, FinishWaiters DEF HookAborts, Acknowledge, HookLosesAck, TerminalStatuses
<1> QED
  BY <1>2, <1>3, <1>4 DEF Microtask

\* So do the ends of run().
LEMMA RunSettlesWaiters ==
  ASSUME Roomy, WaitersInv, NEW o \in Ids, RunSettles(o)
  PROVE  WaitersPart'
<1>1. op[o] \in Operation /\ op \in [Ids -> Operation]
  BY DEF WaitersInv, TypeOK
<1>2. CASE RunEndsLate(o) \/ RunResolves(o)
  <2>1. \A p \in Ids : op'[p].status = op[p].status
    <3>1. /\ [op[o] EXCEPT !.pc = "done"].status = op[o].status
          /\ [op[o] EXCEPT !.pc = "ack"].status = op[o].status
      BY <1>1 DEF Operation
    <3> QED
      BY <1>1, <1>2, <3>1 DEF RunEndsLate, RunResolves
  <2> QED
    BY <1>2, <2>1, StillWaiters DEF RunEndsLate, RunResolves
<1>3. ASSUME NEW e \in Rejections, RunRejects(o, e) PROVE WaitersPart'
  <2>1. RejectedStatus(o, e) \in TerminalStatuses
    BY DEF RejectedStatus, TerminalStatuses
  <2> QED
    BY <1>3, <2>1, FinishWaiters DEF RunRejects
<1> QED
  BY <1>2, <1>3 DEF RunSettles

\* And the deadline timer.
LEMMA DeadlineWaiters ==
  ASSUME Roomy, WaitersInv, NEW o \in Ids, DeadlineFires(o)
  PROVE  WaitersPart'
<1>1. op[o] \in Operation /\ op \in [Ids -> Operation]
  BY DEF WaitersInv, TypeOK
<1>2. CASE op[o].status = "running"
  <2> DEFINE x == [op[o] EXCEPT !.status = "timed_out", !.finished = now,
                                !.aborted = TRUE, !.deadline = FALSE]
  <2>1. x.status \in TerminalStatuses /\ x.finished = now
    BY <1>1 DEF Operation, TerminalStatuses
  <2>2. /\ op' = [op EXCEPT ![o] = x]
        /\ RetainOnly(Retained([op EXCEPT ![o] = x]))
        /\ \/ waiters' = [waiters EXCEPT ![o] = {}]
           \/ o \notin Retained([op EXCEPT ![o] = x]) /\ waiters' = waiters
    BY <1>2 DEF DeadlineFires
  <2> HIDE DEF x
  <2> QED
    BY <2>1, <2>2, EndWaiters
<1>3. CASE op[o].status # "running"
  <2>1. \A p \in Ids : op'[p].status = op[p].status
    BY <1>1, <1>3 DEF DeadlineFires, Operation
  <2>2. UNCHANGED <<slot, waiters>>
    BY <1>3 DEF DeadlineFires
  <2> QED
    BY <2>1, <2>2, StillWaiters
<1> QED
  BY <1>2, <1>3

\* A client waits only for an operation that is in the Map and active.
LEMMA CallWaiters ==
  ASSUME Roomy, WaitersInv, NEW c \in Clients, NEW o \in Ids, Call(c, o)
  PROVE  WaitersPart'
<1>1. op[o] \in Operation /\ op \in [Ids -> Operation]
  BY DEF WaitersInv, TypeOK
<1>2. CASE CancelQueued(c, o)
  BY <1>2, FinishWaiters DEF CancelQueued, TerminalStatuses
<1>3. CASE CancelActive(c, o)
  <2>1. /\ op'[o].status = "cancelling" /\ slot[o] > 0 /\ slot' = slot
        /\ \A p \in Ids : p # o => op'[p] = op[p] /\ waiters'[p] = waiters[p]
    BY <1>1, <1>3 DEF CancelActive, Operation, WaitersInv, TypeOK
  <2>2. "cancelling" \notin TerminalStatuses
    BY DEF TerminalStatuses
  <2> QED
    BY <2>1, <2>2 DEF WaitersInv, WaitersPart, WaitersNotified, Terminal
<1>4. CASE Wait(c, o)
  <2>1. /\ slot[o] > 0 /\ slot' = slot /\ op' = op /\ ~Terminal(o)
        /\ \A p \in Ids : p # o => waiters'[p] = waiters[p]
    BY <1>4 DEF Wait, WaitersInv, TypeOK
  <2> QED
    BY <2>1 DEF WaitersInv, WaitersPart, WaitersNotified, Terminal
<1>5. CASE Observe(c, o)
  BY <1>5 DEF Observe, WaitersInv, WaitersPart, WaitersNotified, Terminal
<1> QED
  BY <1>2, <1>3, <1>4, <1>5 DEF Call

\* reconcile() notifies before it retains.
LEMMA ReconcileWaiters ==
  ASSUME Roomy, WaitersInv, NEW o \in Ids, NEW r \in Resolutions, Reconcile(o, r)
  PROVE  WaitersPart'
<1> DEFINE x == [op[o] EXCEPT !.status = r, !.finished = now]
<1>1. x.status \in TerminalStatuses /\ x.finished = now
  BY DEF WaitersInv, TypeOK, Operation, Resolutions, TerminalStatuses
<1>2. /\ op' = [op EXCEPT ![o] = x]
      /\ RetainOnly(Retained([op EXCEPT ![o] = x]))
      /\ waiters' = [waiters EXCEPT ![o] = {}]
  BY DEF Reconcile
<1> HIDE DEF x
<1> QED
  BY <1>1, <1>2, EndWaiters

\* Every step preserves what WaitersInv says beyond the types.
LEMMA NextWaiters == Roomy /\ TypeOK /\ WaitersPart /\ [Next]_vars => WaitersPart'
<1> SUFFICES ASSUME Roomy, TypeOK, WaitersPart, [Next]_vars PROVE WaitersPart'
  OBVIOUS
<1>1. WaitersInv
  BY DEF WaitersInv, WaitersPart
<1>2. CASE Begin
  BY <1>1, <1>2, BeginWaiters
<1>3. ASSUME NEW o \in Ids, Microtask(o) \/ RunSettles(o) \/ DeadlineFires(o)
      PROVE  WaitersPart'
  BY <1>1, <1>3, MicrotaskWaiters, RunSettlesWaiters, DeadlineWaiters
<1>4. ASSUME NEW c \in Clients, NEW o \in Ids, Call(c, o) PROVE WaitersPart'
  BY <1>1, <1>4, CallWaiters
<1>5. ASSUME NEW o \in Ids, NEW r \in Resolutions, Reconcile(o, r)
      PROVE  WaitersPart'
  BY <1>1, <1>5, ReconcileWaiters
<1>6. CASE Tick \/ UNCHANGED vars
  BY <1>6 DEF Tick, vars, WaitersPart, WaitersNotified, Terminal
<1> QED
  BY <1>2, <1>3, <1>4, <1>5, <1>6 DEF Next

\* No promise is lost: in a Map that cannot fill up, an operation that is over
\* has no waiter left, whatever the order of results, cancellations, timeouts,
\* reconciliations, retries and expiry.
THEOREM NoWaiterIsLost == Roomy /\ Spec => []WaitersNotified
<1> SUFFICES ASSUME Roomy PROVE Spec => []WaitersNotified
  OBVIOUS
<1>1. Init => WaitersPart
  BY DEF Init, WaitersPart, WaitersNotified
<1>2. WaitersPart => WaitersNotified
  BY DEF WaitersPart
<1> QED
  BY <1>1, <1>2, NextWaiters, TypeCorrect, PTL DEF Spec

-----------------------------------------------------------------------------
(* The refinement.  An operation that left a Map which cannot fill up has    *)
(* expired, and its tombstone with it: begin() never rebuilds it, so an      *)
(* outcome stands.                                                           *)

\* Operations are born in the order of their numbers.
BornInv ==
  \A o \in Ids : /\ op[o].pc = "unborn" <=> o > sequence
                 /\ op[o].pc = "unborn" => slot[o] = 0
AgeInv ==
  \A o \in Ids : /\ op[o].created <= now
                 /\ Terminal(o) => op[o].created <= op[o].finished
KeptInv == \A o \in 1..sequence : slot[o] = 0 => now - op[o].created > Retention
StoreAge ==
  \A k \in Keys :
    tombstone[k].op # 0 => /\ tombstone[k].op \in 1..sequence
                           /\ tombstone[k].created = op[tombstone[k].op].created

Ages == BornInv /\ AgeInv /\ KeptInv /\ StoreAge
LifecycleInv == TypeOK /\ TurnInv /\ WaitersPart /\ Ages

\* What a step that begins nothing does to the Map and to an operation's age.
Kept(p) ==
  /\ op'[p].pc = "unborn" <=> op[p].pc = "unborn"
  /\ op'[p].status \in TerminalStatuses =>
        \/ op'[p].finished = now
        \/ op[p].status \in TerminalStatuses /\ op'[p].finished = op[p].finished
  /\ \/ slot'[p] = slot[p]
     \/ slot[p] > 0 /\ slot'[p] = 0 /\ now - op[p].created > Retention
LStep == Lifecycle!Next \/ UNCHANGED <<Outcome, waiters, told>>
KeepsLife == (\A p \in Ids : Kept(p)) /\ LStep

\* A caller's view of one operation object.
View(x) ==
  IF x.pc = "unborn" THEN "none"
  ELSE IF x.status \in TerminalStatuses THEN x.status ELSE "pending"

\* One operation object replaced changes one outcome at most.
LEMMA OutcomeOne ==
  ASSUME TypeOK, NEW o \in Ids, NEW x, op' = [op EXCEPT ![o] = x]
  PROVE  Outcome' = [Outcome EXCEPT ![o] = View(x)]
  BY DEF TypeOK, Outcome, Terminal, View

\* The outcome of an operation is the view of its object.
LEMMA OutcomeOf ==
  ASSUME NEW o \in Ids
  PROVE  Outcome[o] = View(op[o])
  BY DEF Outcome, Terminal, View

\* A replacement that looks the same changes no outcome.
LEMMA OutcomeSame ==
  ASSUME TypeOK, NEW o \in Ids, NEW x, op' = [op EXCEPT ![o] = x], View(x) = View(op[o])
  PROVE  Outcome' = Outcome
<1>1. /\ Outcome = [p \in Ids |-> View(op[p])]
      /\ Outcome' = [p \in Ids |-> View(op'[p])]
  BY DEF Outcome, Terminal, View
<1>2. op'[o] = x /\ \A p \in Ids : p # o => op'[p] = op[p]
  BY DEF TypeOK
<1> HIDE DEF View
<1>3. ASSUME NEW p \in Ids PROVE View(op'[p]) = View(op[p])
  BY <1>2
<1> QED
  BY <1>1, <1>3

\* An operation object changes and its outcome does not.
LEMMA ChangeLife ==
  ASSUME LifecycleInv, NEW o \in Ids, NEW x, op' = [op EXCEPT ![o] = x],
         x.pc # "unborn", op[o].pc # "unborn",
         UNCHANGED <<slot, waiters, told>>,
         \/ x.status = op[o].status /\ x.finished = op[o].finished
         \/ x.status \notin TerminalStatuses /\ op[o].status \notin TerminalStatuses
  PROVE  KeepsLife
<1>1. /\ op'[o] = x
      /\ \A p \in Ids : p # o => op'[p] = op[p]
  BY DEF LifecycleInv, TypeOK
<1>2. \A p \in Ids : Kept(p)
  BY <1>1 DEF Kept
<1>3. View(x) = View(op[o])
  BY DEF View
<1>4. Outcome' = Outcome
  BY <1>3, OutcomeSame DEF LifecycleInv
<1> QED
  BY <1>2, <1>4 DEF KeepsLife, LStep

\* A step that leaves the operations, the Map and the callers alone.
LEMMA SameLife ==
  ASSUME UNCHANGED <<op, slot, waiters, told>>
  PROVE  KeepsLife
<1>1. Outcome' = Outcome
  BY DEF Outcome, Terminal
<1> QED
  BY <1>1 DEF KeepsLife, Kept, LStep

\* What retention drops has expired.
LEMMA DroppedIsOld ==
  ASSUME Roomy, LifecycleInv, NEW o \in Ids, NEW x,
         x.finished = now, x.created = op[o].created,
         op' = [op EXCEPT ![o] = x], RetainOnly(Retained([op EXCEPT ![o] = x])),
         NEW p \in Ids, slot[p] > 0, slot'[p] # slot[p]
  PROVE  slot'[p] = 0 /\ now - op[p].created > Retention
<1> DEFINE ops == [op EXCEPT ![o] = x]
<1>1. /\ ops[o] = x
      /\ \A q \in Ids : q # o => ops[q] = op[q]
  BY DEF LifecycleInv, TypeOK
<1>2. RetainOnly(Retained(ops))
  OBVIOUS
<1> HIDE DEF ops
<1>3. slot'[p] = 0 /\ p \notin Retained(ops)
  BY <1>2 DEF RetainOnly
<1>4. ops[p].status \in TerminalStatuses /\ now - ops[p].finished > Retention
  BY <1>3, RetainedKeeps
<1>5. now \in Nat /\ Retention \in Nat /\ op[p].created \in Nat /\ op[p].finished \in Nat
  BY CapacityAssumption, BoundsAssumption DEF LifecycleInv, TypeOK, Operation
<1>6. CASE p = o
  BY <1>1, <1>4, <1>5, <1>6
<1>7. CASE p # o
  <2>1. op[p].created <= op[p].finished
    BY <1>1, <1>4, <1>7 DEF LifecycleInv, Ages, AgeInv, Terminal
  <2> QED
    BY <1>1, <1>3, <1>4, <1>5, <1>7, <2>1
<1> QED
  BY <1>6, <1>7

\* Kept, for the end or the reconciliation of an operation.
LEMMA EndKept ==
  ASSUME Roomy, LifecycleInv, NEW o \in Ids, NEW x,
         x.finished = now, x.created = op[o].created,
         x.pc # "unborn", op[o].pc # "unborn",
         op' = [op EXCEPT ![o] = x], RetainOnly(Retained([op EXCEPT ![o] = x])),
         NEW p \in Ids
  PROVE  Kept(p)
<1>1. /\ op'[o] = x
      /\ p # o => op'[p] = op[p]
  BY DEF LifecycleInv, TypeOK
<1>2. slot[p] \in Nat /\ (slot[p] = 0 => slot'[p] = 0)
  BY DEF LifecycleInv, TypeOK, RetainOnly
<1>3. \/ slot'[p] = slot[p]
      \/ slot[p] > 0 /\ slot'[p] = 0 /\ now - op[p].created > Retention
  <2>1. CASE slot'[p] = slot[p]
    BY <2>1
  <2>2. CASE slot'[p] # slot[p]
    <3>1. slot[p] > 0
      BY <1>2, <2>2
    <3>2. slot'[p] = 0 /\ now - op[p].created > Retention
      BY <2>2, <3>1, DroppedIsOld
    <3> QED
      BY <3>1, <3>2
  <2> QED
    BY <2>1, <2>2
<1> QED
  BY <1>1, <1>3 DEF Kept

\* The end of a pending operation decides its outcome.
LEMMA EndLife ==
  ASSUME Roomy, LifecycleInv, NEW o \in Ids, NEW x,
         NEW s \in TerminalStatuses, NEW cs \in SUBSET Clients,
         x.status = s, x.finished = now, x.created = op[o].created,
         x.pc # "unborn", op[o].pc # "unborn", op[o].status \notin TerminalStatuses,
         op' = [op EXCEPT ![o] = x], RetainOnly(Retained([op EXCEPT ![o] = x])),
         \/ waiters' = [waiters EXCEPT ![o] = {}] /\ Tell(cs \cup waiters[o], o, s)
         \/ o \notin Retained([op EXCEPT ![o] = x]) /\ UNCHANGED <<waiters, told>>
  PROVE  KeepsLife
<1>1. \A p \in Ids : Kept(p)
  BY EndKept
<1>2. Outcome[o] = "pending" /\ Outcome' = [Outcome EXCEPT ![o] = s]
  BY OutcomeOne, OutcomeOf DEF LifecycleInv, View
<1>3. CASE waiters' = [waiters EXCEPT ![o] = {}] /\ Tell(cs \cup waiters[o], o, s)
  <2>1. Lifecycle!Decide(o, s, cs)
    BY <1>2, <1>3 DEF Lifecycle!Decide, Lifecycle!Tell, Tell
  <2> QED
    BY <1>1, <2>1 DEF KeepsLife, LStep, Lifecycle!Next
<1>4. CASE o \notin Retained([op EXCEPT ![o] = x]) /\ UNCHANGED <<waiters, told>>
  <2> DEFINE ops == [op EXCEPT ![o] = x]
  <2>1. ops[o] = x
    BY DEF LifecycleInv, TypeOK
  <2>2. o \notin Retained(ops)
    BY <1>4
  <2> HIDE DEF ops
  <2>3. now - x.finished = 0 /\ ~(0 > Retention)
    BY CapacityAssumption, BoundsAssumption DEF LifecycleInv, TypeOK
  <2>4. slot[o] = 0
    BY <2>1, <2>2, <2>3, RetainedKeeps DEF LifecycleInv, TypeOK
  <2>5. waiters[o] = {}
    BY <2>4 DEF LifecycleInv, WaitersPart
  <2>6. waiters = [waiters EXCEPT ![o] = {}] /\ told = [c \in Clients |-> told[c]]
    BY <2>5 DEF LifecycleInv, TypeOK
  <2>7. Lifecycle!Decide(o, s, {})
    BY <1>2, <1>4, <2>5, <2>6 DEF Lifecycle!Decide, Lifecycle!Tell
  <2> QED
    BY <1>1, <2>7 DEF KeepsLife, LStep, Lifecycle!Next
<1> QED
  BY <1>3, <1>4

\* transition() to a terminal status and settle() decide the outcome.
LEMMA FinishLife ==
  ASSUME Roomy, LifecycleInv, NEW o \in Ids, NEW s \in TerminalStatuses,
         NEW pc, NEW cs \in SUBSET Clients, NEW survives, Finish(o, s, pc, cs, survives),
         pc # "unborn", op[o].pc # "unborn", op[o].status \notin TerminalStatuses
  PROVE  KeepsLife
<1> DEFINE x == [op[o] EXCEPT !.status = s, !.finished = now, !.pc = pc]
<1>1. op[o] \in Operation
  BY DEF LifecycleInv, TypeOK
<1>2. x.pc = pc /\ x.status = s /\ x.finished = now /\ x.created = op[o].created
  BY <1>1 DEF Operation
<1>3. /\ op' = [op EXCEPT ![o] = x]
      /\ RetainOnly(Retained([op EXCEPT ![o] = x]))
      /\ \/ waiters' = [waiters EXCEPT ![o] = {}] /\ Tell(cs \cup waiters[o], o, s)
         \/ o \notin Retained([op EXCEPT ![o] = x]) /\ UNCHANGED <<waiters, told>>
  BY DEF Finish
<1> HIDE DEF x
<1> QED
  BY <1>2, <1>3, EndLife

\* The same, of one whose microtasks are over.
LEMMA DoneLife ==
  ASSUME Roomy, LifecycleInv, NEW o \in Ids, NEW s \in TerminalStatuses,
         NEW survives \in BOOLEAN, Finish(o, s, "done", {}, survives),
         op[o].pc # "unborn", op[o].status \notin TerminalStatuses
  PROVE  KeepsLife
<1>1. "done" # "unborn" /\ {} \in SUBSET Clients
  OBVIOUS
<1> QED
  BY <1>1, FinishLife

\* begin() of a known key: the operation never has to be rebuilt.
LEMMA BeginKnownLife ==
  ASSUME LifecycleInv, NEW k \in Keys, BeginKnown(k)
  PROVE  KeepsLife
<1> DEFINE o == tombstone[k].op
<1>1. k \in Present /\ ~Expired(k)
  BY DEF BeginKnown, Hit
<1>2. o # 0
  <2>1. tombstone[k] \in Tombstone
    BY <1>1 DEF LifecycleInv, TypeOK, Present
  <2> QED
    BY <2>1 DEF Tombstone, Ids
<1>3. o \in 1..sequence /\ ~(now - op[o].created > Retention)
  BY <1>1, <1>2 DEF LifecycleInv, Ages, StoreAge, Expired
<1>4. slot[o] # 0
  BY <1>3 DEF LifecycleInv, Ages, KeptInv
<1> QED
  BY <1>4, SameLife DEF BeginKnown

\* The steps of the microtask keep the promise,
LEMMA MicrotaskLife ==
  ASSUME Roomy, LifecycleInv, NEW o \in Ids, Microtask(o)
  PROVE  KeepsLife
<1>1. op[o] \in Operation
  BY DEF LifecycleInv, TypeOK
<1>2. CASE MicrotaskEnds(o)
  <2> DEFINE x == [op[o] EXCEPT !.pc = "done"]
  <2>1. /\ op' = [op EXCEPT ![o] = x] /\ x.pc = "done" /\ op[o].pc = "scheduled"
        /\ x.status = op[o].status /\ x.finished = op[o].finished
        /\ UNCHANGED <<slot, waiters, told>>
    BY <1>1, <1>2 DEF MicrotaskEnds, Operation
  <2> HIDE DEF x
  <2> QED
    BY <2>1, ChangeLife
<1>3. CASE MicrotaskAwaits(o)
  <2> DEFINE x == [op[o] EXCEPT !.pc = "dispatch"]
  <2>1. /\ op' = [op EXCEPT ![o] = x] /\ x.pc = "dispatch" /\ op[o].pc = "scheduled"
        /\ x.status = op[o].status /\ x.finished = op[o].finished
        /\ UNCHANGED <<slot, waiters, told>>
    BY <1>1, <1>3 DEF MicrotaskAwaits, Operation
  <2> HIDE DEF x
  <2> QED
    BY <2>1, ChangeLife
<1>4. CASE Dispatch(o)
  <2> DEFINE x == [op[o] EXCEPT !.status = "running", !.pc = "run"]
  <2>1. /\ op' = [op EXCEPT ![o] = x] /\ x.pc = "run" /\ op[o].pc = "dispatch"
        /\ x.status = "running" /\ UNCHANGED <<slot, waiters, told>>
    BY <1>1, <1>4 DEF Dispatch, Operation
  <2>2. "running" \notin TerminalStatuses /\ op[o].status \notin TerminalStatuses
    BY <2>1 DEF LifecycleInv, TurnInv, Terminal, TerminalStatuses
  <2> HIDE DEF x
  <2> QED
    BY <2>1, <2>2, ChangeLife
<1>5. CASE HookAborts(o) \/ Acknowledge(o) \/ HookLosesAck(o)
  <2>1. op[o].pc \in {"dispatch", "ack"}
    BY <1>5 DEF HookAborts, Acknowledge, HookLosesAck
  <2>2. op[o].status \notin TerminalStatuses /\ op[o].pc # "unborn"
    BY <2>1 DEF LifecycleInv, TurnInv, Terminal
  <2>3. PICK s \in TerminalStatuses, survives \in BOOLEAN :
               Finish(o, s, "done", {}, survives)
    BY <1>5 DEF HookAborts, Acknowledge, HookLosesAck, TerminalStatuses
  <2> QED
    BY <2>2, <2>3, DoneLife
<1> QED
  BY <1>2, <1>3, <1>4, <1>5 DEF Microtask

\* so does the settling of run(),
LEMMA RunSettlesLife ==
  ASSUME Roomy, LifecycleInv, NEW o \in Ids, RunSettles(o)
  PROVE  KeepsLife
<1>1. op[o] \in Operation
  BY DEF LifecycleInv, TypeOK
<1>2. CASE RunEndsLate(o) \/ RunResolves(o)
  <2> DEFINE done == [op[o] EXCEPT !.pc = "done"]
             ack == [op[o] EXCEPT !.pc = "ack"]
  <2>1. \A x \in {done, ack} :
          x.pc # "unborn" /\ x.status = op[o].status /\ x.finished = op[o].finished
    BY <1>1 DEF Operation
  <2>2. /\ \E x \in {done, ack} : op' = [op EXCEPT ![o] = x]
        /\ op[o].pc = "run" /\ UNCHANGED <<slot, waiters, told>>
    BY <1>2 DEF RunEndsLate, RunResolves
  <2>3. PICK x \in {done, ack} : op' = [op EXCEPT ![o] = x]
    BY <2>2
  <2>4. x.pc # "unborn" /\ x.status = op[o].status /\ x.finished = op[o].finished
    BY <2>1
  <2> HIDE DEF done, ack
  <2> QED
    BY <2>2, <2>3, <2>4, ChangeLife
<1>3. ASSUME NEW e \in Rejections, RunRejects(o, e) PROVE KeepsLife
  <2>1. RejectedStatus(o, e) \in TerminalStatuses
    BY DEF RejectedStatus, TerminalStatuses
  <2>2. op[o].status \notin TerminalStatuses /\ op[o].pc # "unborn"
    BY <1>3 DEF RunRejects, Terminal
  <2> QED
    BY <1>3, <2>1, <2>2, DoneLife DEF RunRejects
<1> QED
  BY <1>2, <1>3 DEF RunSettles

\* the deadline timer,
LEMMA DeadlineLife ==
  ASSUME Roomy, LifecycleInv, NEW o \in Ids, DeadlineFires(o)
  PROVE  KeepsLife
<1> DEFINE settled == [op[o] EXCEPT !.status = "timed_out", !.finished = now,
                                    !.aborted = TRUE, !.deadline = FALSE]
           fired == [op[o] EXCEPT !.deadline = FALSE]
<1>1. op[o] \in Operation
  BY DEF LifecycleInv, TypeOK
<1>2. /\ settled.pc = op[o].pc /\ settled.status = "timed_out"
      /\ settled.finished = now /\ settled.created = op[o].created
      /\ fired.pc = op[o].pc /\ fired.status = op[o].status
      /\ fired.finished = op[o].finished
      /\ op[o].pc = "run"
  BY <1>1 DEF Operation, DeadlineFires
<1>3. CASE op[o].status = "running"
  <2>1. /\ op' = [op EXCEPT ![o] = settled]
        /\ RetainOnly(Retained([op EXCEPT ![o] = settled]))
        /\ \/ /\ waiters' = [waiters EXCEPT ![o] = {}]
              /\ Tell(waiters[o], o, "timed_out")
           \/ o \notin Retained([op EXCEPT ![o] = settled]) /\ UNCHANGED <<waiters, told>>
    BY <1>3 DEF DeadlineFires
  <2>2. "timed_out" \in TerminalStatuses /\ op[o].status \notin TerminalStatuses
    BY <1>3 DEF TerminalStatuses
  <2>3. {} \in SUBSET Clients /\ {} \cup waiters[o] = waiters[o]
    OBVIOUS
  <2> HIDE DEF settled
  <2> QED
    BY <1>2, <2>1, <2>2, <2>3, EndLife
<1>4. CASE op[o].status # "running"
  <2>1. op' = [op EXCEPT ![o] = fired] /\ UNCHANGED <<slot, waiters, told>>
    BY <1>4 DEF DeadlineFires
  <2> HIDE DEF fired
  <2> QED
    BY <1>2, <2>1, ChangeLife
<1> QED
  BY <1>3, <1>4

\* the calls of clients
LEMMA CallLife ==
  ASSUME Roomy, LifecycleInv, NEW c \in Clients, NEW o \in Ids, Call(c, o)
  PROVE  KeepsLife
<1>1. op[o] \in Operation
  BY DEF LifecycleInv, TypeOK
<1>2. op[o].pc # "unborn"
  <2>1. slot[o] > 0
    BY DEF Call, CancelQueued, CancelActive, Wait, Observe
  <2>2. op[o].pc = "unborn" => slot[o] = 0
    BY DEF LifecycleInv, Ages, BornInv
  <2> QED
    BY <2>1, <2>2
<1>3. CASE CancelQueued(c, o)
  <2>1. op[o].status \notin TerminalStatuses /\ "cancelled" \in TerminalStatuses
    BY <1>3 DEF CancelQueued, TerminalStatuses
  <2>2. {c} \in SUBSET Clients
    OBVIOUS
  <2> QED
    BY <1>2, <1>3, <2>1, <2>2, FinishLife DEF CancelQueued
<1>4. CASE CancelActive(c, o)
  <2> DEFINE x == [op[o] EXCEPT !.status = "cancelling", !.aborted = TRUE]
  <2>1. /\ op' = [op EXCEPT ![o] = x] /\ slot' = slot
        /\ x.pc = op[o].pc /\ x.status = "cancelling"
        /\ op[o].status \in {"running", "cancelling"}
    BY <1>1, <1>4 DEF CancelActive, Operation
  <2>2. "cancelling" \notin TerminalStatuses /\ op[o].status \notin TerminalStatuses
    BY <2>1 DEF TerminalStatuses
  <2> HIDE DEF x
  <2>3. View(x) = "pending" /\ Outcome[o] = "pending"
    BY <1>2, <2>1, <2>2, OutcomeOf DEF View
  <2>4. Outcome' = Outcome
    BY <1>2, <2>1, <2>2, <2>3, OutcomeSame DEF LifecycleInv, View
  <2>5. Lifecycle!Join(c, o)
    BY <1>4, <2>3, <2>4 DEF CancelActive, Lifecycle!Join
  <2>6. op'[o] = x /\ \A p \in Ids : p # o => op'[p] = op[p]
    BY <2>1 DEF LifecycleInv, TypeOK
  <2>7. \A p \in Ids : Kept(p)
    BY <1>2, <2>1, <2>2, <2>6 DEF Kept
  <2> QED
    BY <2>5, <2>7 DEF KeepsLife, LStep, Lifecycle!Next
<1>5. CASE Wait(c, o)
  <2>1. Outcome[o] = "pending"
    BY <1>2, <1>5, OutcomeOf DEF Wait, Terminal, View
  <2>2. Outcome' = Outcome /\ \A p \in Ids : Kept(p)
    BY <1>5 DEF Wait, Outcome, Terminal, Kept
  <2>3. Lifecycle!Join(c, o)
    BY <1>5, <2>1, <2>2 DEF Wait, Lifecycle!Join
  <2> QED
    BY <2>2, <2>3 DEF KeepsLife, LStep, Lifecycle!Next
<1>6. CASE Observe(c, o)
  <2>1. Outcome[o] = op[o].status /\ op[o].status \in TerminalStatuses
    BY <1>2, <1>6, OutcomeOf DEF Observe, Terminal, View
  <2>2. Outcome' = Outcome /\ \A p \in Ids : Kept(p)
    BY <1>6 DEF Observe, Outcome, Terminal, Kept
  <2>3. Lifecycle!Ask(c, o)
    BY <1>6, <2>1, <2>2 DEF Observe, Tell, Lifecycle!Ask, Lifecycle!Tell
  <2> QED
    BY <2>2, <2>3 DEF KeepsLife, LStep, Lifecycle!Next
<1> QED
  BY <1>3, <1>4, <1>5, <1>6 DEF Call

\* and the reconciliation by an operator.
LEMMA ReconcileLife ==
  ASSUME Roomy, LifecycleInv, NEW o \in Ids, NEW r \in Resolutions, Reconcile(o, r)
  PROVE  KeepsLife
<1> DEFINE x == [op[o] EXCEPT !.status = r, !.finished = now]
<1>1. op[o] \in Operation /\ op[o].pc # "unborn"
  BY DEF LifecycleInv, TypeOK, Ages, BornInv, Reconcile
<1>2. /\ op' = [op EXCEPT ![o] = x]
      /\ RetainOnly(Retained([op EXCEPT ![o] = x]))
      /\ x.pc = op[o].pc /\ x.status = r /\ x.finished = now
      /\ x.created = op[o].created
  BY <1>1 DEF Reconcile, Operation
<1>3. op[o].status \in Reconcilable /\ op[o].status \in TerminalStatuses
  BY DEF Reconcile, Reconcilable, TerminalStatuses
<1>4. r \in TerminalStatuses
  BY DEF Resolutions, TerminalStatuses
<1>5. waiters[o] = {}
  BY <1>3 DEF LifecycleInv, WaitersPart, WaitersNotified, Terminal
<1>6. waiters' = waiters /\ told' = told
  BY <1>5 DEF LifecycleInv, TypeOK, Reconcile, Tell
<1> HIDE DEF x
<1>7. \A p \in Ids : Kept(p)
  BY <1>1, <1>2, EndKept
<1>8. Outcome[o] = op[o].status /\ Outcome' = [Outcome EXCEPT ![o] = r]
  BY <1>1, <1>2, <1>3, <1>4, OutcomeOne, OutcomeOf DEF LifecycleInv, View
<1>9. Lifecycle!Reconcile(o, r)
  BY <1>3, <1>6, <1>8 DEF Lifecycle!Reconcile
<1> QED
  BY <1>7, <1>9 DEF KeepsLife, LStep, Lifecycle!Next

\* Every step that begins no new operation keeps the promise.
LEMMA NextLife ==
  ASSUME Roomy, LifecycleInv, [Next]_vars,
         ~ \E k \in Keys \cup {NoKey}, d \in BOOLEAN : BeginNew(k, d)
  PROVE  KeepsLife
<1>1. CASE Begin
  BY <1>1, BeginKnownLife DEF Begin
<1>2. ASSUME NEW o \in Ids, Microtask(o) \/ RunSettles(o) \/ DeadlineFires(o)
      PROVE  KeepsLife
  BY <1>2, MicrotaskLife, RunSettlesLife, DeadlineLife
<1>3. ASSUME NEW c \in Clients, NEW o \in Ids, Call(c, o) PROVE KeepsLife
  BY <1>3, CallLife
<1>4. ASSUME NEW o \in Ids, NEW r \in Resolutions, Reconcile(o, r) PROVE KeepsLife
  BY <1>4, ReconcileLife
<1>5. CASE Tick \/ UNCHANGED vars
  BY <1>5, SameLife DEF Tick, vars
<1> QED
  BY <1>1, <1>2, <1>3, <1>4, <1>5 DEF Next

\* Such a step keeps the ages.
LEMMA AgesKept ==
  ASSUME LifecycleInv, TypeOK', Frame, \A p \in Ids : Kept(p)
  PROVE  Ages'
<1>1. /\ sequence \in Nat /\ 1..sequence \subseteq Ids
      /\ now \in Nat /\ now' \in Nat /\ Retention \in Nat
      /\ \A a \in Ids : op[a].created \in Nat /\ op[a].finished \in Nat
      /\ \A a \in Ids : slot[a] \in Nat
  <2>1. \A a \in Ids : op[a] \in Operation /\ slot[a] \in Nat
    BY DEF LifecycleInv, TypeOK
  <2>2. sequence \in 0..MaxOps /\ now \in Nat /\ now' \in Nat
    BY DEF LifecycleInv, TypeOK
  <2>3. \A a \in Ids : op[a].created \in Nat /\ op[a].finished \in Nat
    BY <2>1 DEF Operation
  <2> QED
    BY <2>1, <2>2, <2>3, CapacityAssumption, BoundsAssumption DEF Ids
<1>2. BornInv'
  BY DEF LifecycleInv, Ages, BornInv, Frame, Kept
<1>3. AgeInv'
  BY <1>1 DEF LifecycleInv, Ages, AgeInv, Terminal, Frame, Kept
<1>4. KeptInv'
  BY <1>1 DEF LifecycleInv, Ages, KeptInv, Frame, Kept
<1>5. StoreAge'
  BY <1>1 DEF LifecycleInv, Ages, StoreAge, Frame
<1> QED
  BY <1>2, <1>3, <1>4, <1>5 DEF Ages

\* So does the begin of a new operation, which is accepted.
LEMMA BeginNewLife ==
  ASSUME LifecycleInv, NEW k \in Keys \cup {NoKey}, NEW d \in BOOLEAN, BeginNew(k, d)
  PROVE  Ages' /\ LStep
<1> DEFINE n == sequence + 1
           x == [status |-> "queued", key |-> k, deadline |-> d, aborted |-> FALSE,
                 created |-> now, finished |-> 0, pc |-> "scheduled"]
<1>1. /\ sequence \in Nat /\ n \in Ids /\ 1..sequence \subseteq Ids
      /\ now \in Nat /\ now' = now /\ sequence' = n
      /\ insertions \in Nat
  BY BoundsAssumption DEF LifecycleInv, TypeOK, Ids, BeginNew
<1>2. /\ op' = [op EXCEPT ![n] = x]
      /\ slot' = [slot EXCEPT ![n] = insertions + 1]
      /\ waiters' = waiters /\ told' = told
  BY DEF BeginNew
<1>3. /\ x.pc = "scheduled" /\ x.created = now /\ x.status = "queued"
      /\ "queued" \notin TerminalStatuses
  BY DEF TerminalStatuses
<1> HIDE DEF x
<1>4. /\ op'[n] = x /\ slot'[n] > 0
      /\ \A p \in Ids : p # n => op'[p] = op[p] /\ slot'[p] = slot[p]
  BY <1>1, <1>2 DEF LifecycleInv, TypeOK
<1>5. op[n].pc = "unborn"
  BY <1>1 DEF LifecycleInv, Ages, BornInv, Ids
<1>6. Lifecycle!Accept(n)
  <2>1. Outcome[n] = "none" /\ Outcome' = [Outcome EXCEPT ![n] = "pending"]
    <3>1. View(op[n]) = "none" /\ View(x) = "pending"
      BY <1>3, <1>5 DEF View
    <3> HIDE DEF View
    <3> QED
      BY <1>1, <1>2, <3>1, OutcomeOne, OutcomeOf DEF LifecycleInv
  <2> QED
    BY <1>2, <2>1 DEF Lifecycle!Accept
<1>7. BornInv'
  BY <1>1, <1>3, <1>4 DEF LifecycleInv, Ages, BornInv, Ids
<1>8. AgeInv'
  BY <1>1, <1>3, <1>4 DEF LifecycleInv, Ages, AgeInv, Terminal
<1>9. KeptInv'
  BY <1>1, <1>4 DEF LifecycleInv, Ages, KeptInv
<1>10. StoreAge'
  <2> SUFFICES ASSUME NEW j \in Keys, tombstone'[j].op # 0
               PROVE  /\ tombstone'[j].op \in 1..n
                      /\ tombstone'[j].created = op'[tombstone'[j].op].created
    BY <1>1 DEF StoreAge
  <2>1. \/ tombstone'[j] = tombstone[j]
        \/ tombstone'[j].op = n /\ tombstone'[j].created = now
    BY BeginNewNames DEF LifecycleInv, NoTombstone
  <2>2. CASE tombstone'[j] = tombstone[j]
    <3>1. /\ tombstone[j].op \in 1..sequence
          /\ tombstone[j].created = op[tombstone[j].op].created
      BY <2>2 DEF LifecycleInv, Ages, StoreAge
    <3> QED
      BY <1>1, <1>4, <2>2, <3>1
  <2>3. CASE tombstone'[j].op = n /\ tombstone'[j].created = now
    BY <1>1, <1>3, <1>4, <2>3
  <2> QED
    BY <2>1, <2>2, <2>3
<1> QED
  BY <1>1, <1>6, <1>7, <1>8, <1>9, <1>10 DEF Ages, LStep, Lifecycle!Next

\* The route changes nothing a caller sees.
LEMMA ForgetLife ==
  ASSUME LifecycleInv, NEW k \in Keys, Forget(k)
  PROVE  LifecycleInv' /\ LStep
<1>1. /\ UNCHANGED <<sequence, op, slot, insertions, evicted, waiters, told, alive, now>>
      /\ tombstone'[k] = NoTombstone
      /\ \A j \in Keys : j # k => tombstone'[j] = tombstone[j]
  BY DEF Forget, LifecycleInv, TypeOK
<1>2. TypeOK'
  BY ForgetType DEF LifecycleInv
<1>3. TurnInv' /\ WaitersPart' /\ BornInv' /\ AgeInv' /\ KeptInv'
  BY <1>1 DEF LifecycleInv, TurnInv, WaitersPart, WaitersNotified, Ages, BornInv, AgeInv,
              KeptInv, Terminal
<1>4. StoreAge'
  BY <1>1 DEF LifecycleInv, Ages, StoreAge, NoTombstone
<1>5. Outcome' = Outcome
  BY <1>1 DEF Outcome, Terminal
<1> QED
  BY <1>1, <1>2, <1>3, <1>4, <1>5 DEF LifecycleInv, Ages, LStep

\* The manager behind the invoke route keeps the promise of OperationLifecycle:
\* an outcome told stands, and is told to whoever waits in the step that decides
\* it. For a Map that cannot fill up and callers that are no microtasks.
THEOREM ManagerImplementsLifecycle ==
  Roomy /\ ~MicrotaskCallers /\ RouteSpec => LifecycleSpec
<1> SUFFICES ASSUME Roomy, ~MicrotaskCallers PROVE RouteSpec => LifecycleSpec
  OBVIOUS
<1>1. Init => LifecycleInv /\ Lifecycle!Init
  <2> SUFFICES ASSUME Init PROVE LifecycleInv /\ Lifecycle!Init
    OBVIOUS
  <2>1. TypeOK
    BY BoundsAssumption DEF Init, TypeOK, Unborn, Operation, Statuses, Active,
                            NotTold, NoTombstone
  <2>2. TurnInv /\ WaitersPart /\ Ages
    BY BoundsAssumption
       DEF Init, TurnInv, Unborn, WaitersPart, WaitersNotified, Ages, BornInv, AgeInv,
           KeptInv, StoreAge, NoTombstone, Terminal, TerminalStatuses, Ids
  <2>3. Lifecycle!Init
    BY DEF Init, Lifecycle!Init, Lifecycle!NotTold, NotTold, Outcome, Unborn
  <2> QED
    BY <2>1, <2>2, <2>3 DEF LifecycleInv
<1>2. LifecycleInv /\ [RouteNext]_vars => LifecycleInv' /\ LStep
  <2> SUFFICES ASSUME LifecycleInv, [RouteNext]_vars PROVE LifecycleInv' /\ LStep
    OBVIOUS
  <2>1. ASSUME NEW k \in Keys, Forget(k) PROVE LifecycleInv' /\ LStep
    BY <2>1, ForgetLife
  <2>2. CASE [Next]_vars
    <3>1. TypeOK' /\ WaitersPart' /\ Steady
      BY <2>2, NextType, NextWaiters, NextSteady DEF LifecycleInv
    <3>2. TurnInv'
      BY <3>1 DEF Steady, Turn, TurnInv, Terminal
    <3>3. Ages' /\ LStep
      <4>1. ASSUME NEW k \in Keys \cup {NoKey}, NEW d \in BOOLEAN, BeginNew(k, d)
            PROVE  Ages' /\ LStep
        BY <4>1, BeginNewLife
      <4>2. CASE ~ \E k \in Keys \cup {NoKey}, d \in BOOLEAN : BeginNew(k, d)
        BY <2>2, <3>1, <4>2, NextLife, NextFrame, AgesKept DEF LifecycleInv, KeepsLife
      <4> QED
        BY <4>1, <4>2
    <3> QED
      BY <3>1, <3>2, <3>3 DEF LifecycleInv
  <2> QED
    BY <2>1, <2>2 DEF RouteNext
<1>3. LStep => [Lifecycle!Next]_(Lifecycle!vars)
  BY DEF LStep, Lifecycle!vars
<1> QED
  BY <1>1, <1>2, <1>3, PTL DEF RouteSpec, LifecycleSpec, Lifecycle!Spec
-----------------------------------------------------------------------------
(* What a step that begins no new operation does to the operations and the  *)
(* store: it touches one operation o at most, in one of four ways.          *)

\* No operation but those of S changes, or comes into the Map.
OnlyIn(S) == \A p \in Ids \ S : op'[p] = op[p]
NoEntry(S) == \A p \in Ids \ S : slot[p] = 0 => slot'[p] = 0

\* o gets to its end s, or is reconciled, and the store is told with its key.
Ends(o, s) ==
  /\ OnlyIn({o}) /\ NoEntry({})
  /\ op'[o].status = s
  /\ op'[o].pc \in {"done", op[o].pc}
  /\ UpdateTombstone(op[o].key, s)
  /\ op[o].pc # "unborn" \/ slot[o] > 0
  /\ \/ /\ emits' = <<Event(o, EventKind(s), NoKey)>>
        /\ s = "aborted" => TestHooks /\ op[o].pc = "dispatch" /\ op'[o].pc = "done"
        /\ s = "requires_reconciliation" => op[o].pc = "ack"
        /\ s # "uncertain"
        /\ op[o].pc \in {"dispatch", "ack"} \/ ~Terminal(o)
     \/ /\ emits' = <<Event(o, "reconciled", s)>>
        /\ s \in Resolutions
        /\ op[o].status \in Reconcilable
        /\ slot[o] > 0

\* o starts to run.
Starts(o) ==
  /\ OnlyIn({o}) /\ NoEntry({})
  /\ op[o].pc = "dispatch"
  /\ op'[o].pc = "run"
  /\ op'[o].status = "running"
  /\ emits' = <<Event(o, "started", NoKey)>>
  /\ UNCHANGED tombstone

\* o gets on without a word; over or not, it stays so.
Moves(o) ==
  /\ OnlyIn({o}) /\ NoEntry({})
  /\ \/ op'[o].status = op[o].status
     \/ op'[o].status = "cancelling" /\ ~Terminal(o)
  /\ \/ op'[o].pc = op[o].pc
     \/ op'[o].pc = "done" /\ Terminal(o) /\ op[o].pc \in {"scheduled", "run"}
     \/ op'[o].pc = "dispatch" /\ op[o].pc = "scheduled"
     \/ op'[o].pc = "ack" /\ op[o].pc = "run"
  /\ emits' = <<>>
  /\ UNCHANGED tombstone

\* o, out of the Map, is rebuilt from the tombstone of key k.
Revives(o, k) ==
  /\ OnlyIn({o}) /\ NoEntry({o})
  /\ Hit(k)
  /\ tombstone[k].op = o
  /\ slot[o] = 0
  /\ op'[o].status = tombstone[k].status
  /\ op'[o].pc = op[o].pc
  /\ emits' = <<>>
  /\ UNCHANGED tombstone

\* No operation changes.
Stays == OnlyIn({}) /\ NoEntry({}) /\ emits' = <<>> /\ UNCHANGED tombstone

Touches(o) ==
  \/ Starts(o)
  \/ Moves(o)
  \/ \E s \in TerminalStatuses : Ends(o, s)
  \/ \E k \in Keys : Revives(o, k)
Shape == Stays \/ \E o \in Ids : Touches(o)

\* One operation object replaced is the only one to change.
LEMMA OneOnly ==
  ASSUME TypeOK, NEW o \in Ids, NEW x, op' = [op EXCEPT ![o] = x]
  PROVE  OnlyIn({o}) /\ op'[o] = x
  BY DEF TypeOK, OnlyIn

\* Retention brings nothing into the Map.
LEMMA NoneComes ==
  ASSUME TypeOK
  PROVE  /\ UNCHANGED slot => NoEntry({})
         /\ \A kept : RetainOnly(kept) => NoEntry({})
  BY DEF TypeOK, NoEntry, RetainOnly

\* transition(), emit() and settle() are the end of one operation.
LEMMA FinishShape ==
  ASSUME TypeOK, NEW o \in Ids, NEW s \in TerminalStatuses,
         NEW pc \in {"done", op[o].pc}, NEW cs, NEW survives, Finish(o, s, pc, cs, survives),
         op[o].pc # "unborn" \/ slot[o] > 0,
         s = "aborted" => TestHooks /\ op[o].pc = "dispatch" /\ pc = "done",
         s = "requires_reconciliation" => op[o].pc = "ack",
         s # "uncertain",
         op[o].pc \in {"dispatch", "ack"} \/ ~Terminal(o)
  PROVE  Shape
<1> DEFINE x == [op[o] EXCEPT !.status = s, !.finished = now, !.pc = pc]
<1>1. op[o] \in Operation
  BY DEF TypeOK
<1>2. x.pc = pc /\ x.status = s
  BY <1>1 DEF Operation
<1>3. /\ op' = [op EXCEPT ![o] = x]
      /\ UpdateTombstone(op[o].key, s)
      /\ emits' = <<Event(o, EventKind(s), NoKey)>>
  BY DEF Finish
<1>4. NoEntry({})
  BY NoneComes DEF Finish
<1> HIDE DEF x
<1>5. OnlyIn({o}) /\ op'[o] = x
  BY <1>3, OneOnly
<1>6. Ends(o, s)
  BY <1>2, <1>3, <1>4, <1>5 DEF Ends
<1> QED
  BY <1>6 DEF Shape, Touches

\* A step that gets one operation object on, and emits nothing.
LEMMA MoveShape ==
  ASSUME TypeOK, NEW o \in Ids, NEW x, op' = [op EXCEPT ![o] = x],
         UNCHANGED <<slot, tombstone>>, emits' = <<>>,
         \/ x.status = op[o].status
         \/ x.status = "cancelling" /\ ~Terminal(o),
         \/ x.pc = op[o].pc
         \/ x.pc = "done" /\ Terminal(o) /\ op[o].pc \in {"scheduled", "run"}
         \/ x.pc = "dispatch" /\ op[o].pc = "scheduled"
         \/ x.pc = "ack" /\ op[o].pc = "run"
  PROVE  Shape
<1>1. OnlyIn({o}) /\ op'[o] = x /\ NoEntry({})
  BY OneOnly, NoneComes
<1>2. Moves(o)
  BY <1>1 DEF Moves
<1> QED
  BY <1>2 DEF Shape, Touches

\* A step that changes no operation.
LEMMA StayShape ==
  ASSUME TypeOK, UNCHANGED <<op, slot, tombstone>>, emits' = <<>>
  PROVE  Shape
  BY NoneComes DEF Shape, Touches, Stays, OnlyIn

\* begin() of a known key finds its operation, or rebuilds it.
LEMMA BeginKnownShape ==
  ASSUME TypeOK, NEW k \in Keys, BeginKnown(k)
  PROVE  Shape
<1> DEFINE o == tombstone[k].op
           x == [op[o] EXCEPT !.status = tombstone[k].status, !.finished = now]
<1>1. o \in Ids /\ op[o] \in Operation
  BY DEF TypeOK, BeginKnown, Hit, Present, Tombstone
<1>2. CASE slot[o] # 0
  BY <1>2, StayShape DEF BeginKnown
<1>3. CASE slot[o] = 0
  <2>1. /\ op' = [op EXCEPT ![o] = x]
        /\ slot' = [slot EXCEPT ![o] = insertions + 1]
        /\ Hit(k) /\ emits' = <<>> /\ UNCHANGED tombstone
        /\ x.status = tombstone[k].status /\ x.pc = op[o].pc
    BY <1>1, <1>3 DEF BeginKnown, Operation
  <2> HIDE DEF x
  <2>2. OnlyIn({o}) /\ op'[o] = x
    BY <1>1, <2>1, OneOnly
  <2>3. NoEntry({o})
    BY <1>1, <2>1 DEF TypeOK, NoEntry
  <2>4. Revives(o, k)
    BY <1>3, <2>1, <2>2, <2>3 DEF Revives
  <2> QED
    BY <1>1, <2>4 DEF Shape, Touches
<1> QED
  BY <1>2, <1>3

\* The microtasks get an operation on, start it or end it.
LEMMA MicrotaskShape ==
  ASSUME TypeOK, NEW o \in Ids, Microtask(o)
  PROVE  Shape
<1>1. op[o] \in Operation
  BY DEF TypeOK
<1>2. CASE MicrotaskEnds(o) \/ MicrotaskAwaits(o)
  <2> DEFINE x == [op[o] EXCEPT !.pc = IF Terminal(o) THEN "done" ELSE "dispatch"]
  <2>1. /\ op' = [op EXCEPT ![o] = x] /\ x.status = op[o].status
        /\ op[o].pc = "scheduled"
        /\ x.pc = IF Terminal(o) THEN "done" ELSE "dispatch"
        /\ UNCHANGED <<slot, tombstone>> /\ emits' = <<>>
    BY <1>1, <1>2 DEF MicrotaskEnds, MicrotaskAwaits, Operation
  <2> HIDE DEF x
  <2> QED
    BY <2>1, MoveShape
<1>3. CASE Dispatch(o)
  <2> DEFINE x == [op[o] EXCEPT !.status = "running", !.pc = "run"]
  <2>1. /\ op' = [op EXCEPT ![o] = x] /\ x.status = "running" /\ x.pc = "run"
        /\ op[o].pc = "dispatch"
        /\ UNCHANGED <<slot, tombstone>> /\ emits' = <<Event(o, "started", NoKey)>>
    BY <1>1, <1>3 DEF Dispatch, Operation
  <2> HIDE DEF x
  <2>2. OnlyIn({o}) /\ op'[o] = x /\ NoEntry({})
    BY <2>1, OneOnly, NoneComes
  <2>3. Starts(o)
    BY <2>1, <2>2 DEF Starts
  <2> QED
    BY <2>3 DEF Shape, Touches
<1>4. CASE HookAborts(o)
  BY <1>4, FinishShape DEF HookAborts, TerminalStatuses
<1>5. CASE Acknowledge(o) \/ HookLosesAck(o)
  BY <1>5, FinishShape DEF Acknowledge, HookLosesAck, TerminalStatuses
<1> QED
  BY <1>2, <1>3, <1>4, <1>5 DEF Microtask

\* So do the ends of run(), except that nothing starts.
LEMMA RunSettlesShape ==
  ASSUME TypeOK, NEW o \in Ids, RunSettles(o)
  PROVE  Shape
<1>1. op[o] \in Operation
  BY DEF TypeOK
<1>2. CASE RunEndsLate(o) \/ RunResolves(o)
  <2> DEFINE x == [op[o] EXCEPT !.pc = IF Terminal(o) THEN "done" ELSE "ack"]
  <2>1. /\ op' = [op EXCEPT ![o] = x] /\ x.status = op[o].status
        /\ op[o].pc = "run"
        /\ x.pc = IF Terminal(o) THEN "done" ELSE "ack"
        /\ UNCHANGED <<slot, tombstone>> /\ emits' = <<>>
    BY <1>1, <1>2 DEF RunEndsLate, RunResolves, Operation
  <2> HIDE DEF x
  <2> QED
    BY <2>1, MoveShape
<1>3. ASSUME NEW e \in Rejections, RunRejects(o, e) PROVE Shape
  <2>1. /\ RejectedStatus(o, e) \in TerminalStatuses
        /\ RejectedStatus(o, e) \notin {"aborted", "requires_reconciliation", "uncertain"}
    BY DEF RejectedStatus, TerminalStatuses
  <2> QED
    BY <1>3, <2>1, FinishShape DEF RunRejects
<1> QED
  BY <1>2, <1>3 DEF RunSettles

\* The deadline timer ends a running operation, and no other.
LEMMA DeadlineShape ==
  ASSUME TypeOK, NEW o \in Ids, DeadlineFires(o)
  PROVE  Shape
<1>1. op[o] \in Operation
  BY DEF TypeOK
<1>2. CASE op[o].status = "running"
  <2> DEFINE x == [op[o] EXCEPT !.status = "timed_out", !.finished = now,
                                !.aborted = TRUE, !.deadline = FALSE]
  <2>1. /\ op' = [op EXCEPT ![o] = x]
        /\ UpdateTombstone(op[o].key, "timed_out")
        /\ emits' = <<Event(o, "timed_out", NoKey)>>
        /\ x.status = "timed_out" /\ x.pc = op[o].pc
    BY <1>1, <1>2 DEF DeadlineFires, Operation
  <2>2. NoEntry({})
    BY <1>2, NoneComes DEF DeadlineFires
  <2> HIDE DEF x
  <2>3. OnlyIn({o}) /\ op'[o] = x
    BY <2>1, OneOnly
  <2>4. EventKind("timed_out") = "timed_out" /\ "timed_out" \in TerminalStatuses
    BY DEF EventKind, TerminalStatuses
  <2>5. ~Terminal(o)
    BY <1>2 DEF Terminal, TerminalStatuses
  <2>7. op[o].pc # "unborn"
    BY DEF DeadlineFires
  <2>6. Ends(o, "timed_out")
    BY <2>1, <2>2, <2>3, <2>4, <2>5, <2>7 DEF Ends
  <2> QED
    BY <2>4, <2>6 DEF Shape, Touches
<1>3. CASE op[o].status # "running"
  <2> DEFINE x == [op[o] EXCEPT !.deadline = FALSE]
  <2>1. /\ op' = [op EXCEPT ![o] = x] /\ x.status = op[o].status /\ x.pc = op[o].pc
        /\ UNCHANGED <<slot, tombstone>> /\ emits' = <<>>
    BY <1>1, <1>3 DEF DeadlineFires, Operation
  <2> HIDE DEF x
  <2> QED
    BY <2>1, MoveShape
<1> QED
  BY <1>2, <1>3

\* A caller cancels an operation, asks for it, or looks at it.
LEMMA CallShape ==
  ASSUME TypeOK, NEW c \in Clients, NEW o \in Ids, Call(c, o)
  PROVE  Shape
<1>1. op[o] \in Operation
  BY DEF TypeOK
<1>2. CASE CancelQueued(c, o)
  <2>1. ~Terminal(o)
    BY <1>2 DEF CancelQueued, Terminal, TerminalStatuses
  <2> QED
    BY <1>2, <2>1, FinishShape DEF CancelQueued, TerminalStatuses
<1>3. CASE CancelActive(c, o)
  <2> DEFINE x == [op[o] EXCEPT !.status = "cancelling", !.aborted = TRUE]
  <2>1. /\ op' = [op EXCEPT ![o] = x] /\ x.status = "cancelling" /\ x.pc = op[o].pc
        /\ UNCHANGED <<slot, tombstone>> /\ emits' = <<>>
    BY <1>1, <1>3 DEF CancelActive, Operation
  <2>2. ~Terminal(o)
    BY <1>3 DEF CancelActive, Terminal, TerminalStatuses
  <2> HIDE DEF x
  <2> QED
    BY <2>1, <2>2, MoveShape
<1>4. CASE Wait(c, o) \/ Observe(c, o)
  BY <1>4, StayShape DEF Wait, Observe
<1> QED
  BY <1>2, <1>3, <1>4 DEF Call

\* An operator's decision is the end of an uncertain operation.
LEMMA ReconcileShape ==
  ASSUME TypeOK, NEW o \in Ids, NEW r \in Resolutions, Reconcile(o, r)
  PROVE  Shape
<1> DEFINE x == [op[o] EXCEPT !.status = r, !.finished = now]
<1>1. op[o] \in Operation
  BY DEF TypeOK
<1>2. x.pc = op[o].pc /\ x.status = r
  BY <1>1 DEF Operation
<1>3. /\ op' = [op EXCEPT ![o] = x]
      /\ UpdateTombstone(op[o].key, r)
      /\ emits' = <<Event(o, "reconciled", r)>>
      /\ op[o].status \in Reconcilable /\ slot[o] > 0
  BY DEF Reconcile
<1>4. NoEntry({})
  BY NoneComes DEF Reconcile
<1> HIDE DEF x
<1>5. OnlyIn({o}) /\ op'[o] = x
  BY <1>3, OneOnly
<1>6. Ends(o, r) /\ r \in TerminalStatuses
  BY <1>2, <1>3, <1>4, <1>5 DEF Ends, Resolutions, TerminalStatuses
<1> QED
  BY <1>6 DEF Shape, Touches

\* Every step of the manager but BeginNew has such a shape.
LEMMA NextShape ==
  ASSUME TypeOK, Next,
         ~ \E k \in Keys \cup {NoKey}, d \in BOOLEAN : BeginNew(k, d)
  PROVE  Shape
<1>1. CASE Begin
  BY <1>1, BeginKnownShape DEF Begin
<1>2. ASSUME NEW o \in Ids, Microtask(o) \/ RunSettles(o) \/ DeadlineFires(o) PROVE Shape
  BY <1>2, MicrotaskShape, RunSettlesShape, DeadlineShape
<1>3. ASSUME NEW c \in Clients, NEW o \in Ids, Call(c, o) PROVE Shape
  BY <1>3, CallShape
<1>4. ASSUME NEW o \in Ids, NEW r \in Resolutions, Reconcile(o, r) PROVE Shape
  BY <1>4, ReconcileShape
<1>5. CASE Tick
  BY <1>5, StayShape DEF Tick
<1> QED
  BY <1>1, <1>2, <1>3, <1>4, <1>5 DEF Next

-----------------------------------------------------------------------------
(* Tombstones.  What a tombstone says changes with the operation it names,   *)
(* or with another one of its key.                                           *)

\* Operations not yet begun have no key.
UnbornKeys == \A o \in Ids : o > sequence => op[o].key = NoKey

TellsInv == TypeOK /\ NamesInv /\ UnbornKeys /\ TombstoneTellsTheEnd

\* updateUnder() changes what the store says of a key, not whom it names.
LEMMA UpdateTells ==
  ASSUME TypeOK, NEW j, NEW s \in Statuses, UpdateTombstone(j, s), NEW k \in Keys
  PROVE  /\ k \in Present <=> k \in Present'
         /\ tombstone'[k].op = tombstone[k].op
         /\ k # j => tombstone'[k] = tombstone[k]
         /\ k = j /\ k \in Present => tombstone'[k].status = s
<1>1. tombstone[k] \in Tombstone \cup {NoTombstone}
  BY DEF TypeOK
<1>2. tombstone'[k] = IF k = j /\ k \in Present THEN [tombstone[k] EXCEPT !.status = s]
                      ELSE tombstone[k]
  BY DEF UpdateTombstone
<1>3. k \in Present => tombstone[k].op # 0
  BY <1>1 DEF Present, Tombstone, Ids
<1> QED
  BY <1>1, <1>2, <1>3 DEF Present, Tombstone, NoTombstone

\* A step that begins nothing keeps TombstoneTellsTheEnd.
LEMMA ShapeTells ==
  ASSUME TellsInv, Frame, Shape
  PROVE  TombstoneTellsTheEnd'
<1>1. /\ \A k \in Present : tombstone[k].op \in 1..sequence
      /\ \A k \in Present : op[tombstone[k].op].key = k
      /\ 1..sequence \subseteq Ids
      /\ sequence' = sequence
      /\ \A p \in Ids : op'[p].key = op[p].key
  <2>1. \A k \in Present : tombstone[k].op \in Ids
    BY DEF TellsInv, TypeOK, Present, Tombstone
  <2>2. sequence \in 0..MaxOps /\ 0 \notin Ids
    BY DEF TellsInv, TypeOK, Ids
  <2> QED
    BY <2>1, <2>2, BoundsAssumption DEF TellsInv, NamesInv, Frame, Present, Ids
<1> SUFFICES ASSUME NEW k \in Present', op'[tombstone'[k].op].status \in TerminalStatuses,
                    \A p \in 1..sequence : op'[p].key = k => p = tombstone'[k].op
             PROVE  tombstone'[k].status = op'[tombstone'[k].op].status
  BY <1>1 DEF TombstoneTellsTheEnd, Terminal
<1> DEFINE p == tombstone[k].op
<1>2. k \in Keys
  BY DEF Present
<1>3. CASE UNCHANGED tombstone
  <2>1. k \in Present /\ tombstone'[k].op = p
    BY <1>3 DEF Present
  <2>2. \A q \in 1..sequence : op[q].key = k => q = p
    BY <1>1, <2>1
  <2>3. CASE op'[p].status = op[p].status
    BY <1>3, <2>1, <2>2, <2>3 DEF TellsInv, TombstoneTellsTheEnd, Terminal
  <2>4. CASE op'[p].status # op[p].status
    <3>1. PICK o \in Ids : Touches(o)
      BY <1>1, <2>1, <2>4 DEF Shape, Stays, OnlyIn
    <3>2. o = p
      BY <1>1, <2>1, <2>4, <3>1 DEF Touches, Starts, Moves, Ends, Revives, OnlyIn
    <3>3. CASE Starts(o) \/ Moves(o)
      BY <2>1, <2>4, <3>2, <3>3 DEF Starts, Moves, TerminalStatuses
    <3>4. ASSUME NEW s \in TerminalStatuses, Ends(o, s)
          PROVE  tombstone'[k].status = op'[p].status
      <4>1. op[p].key = k
        BY <1>1, <2>1
      <4>2. s \in Statuses /\ TypeOK
        BY DEF Statuses, TellsInv
      <4>3. UpdateTombstone(k, s) /\ op'[p].status = s
        BY <3>2, <3>4, <4>1 DEF Ends
      <4> QED
        BY <1>2, <2>1, <4>2, <4>3, UpdateTells
    <3>5. ASSUME NEW j \in Keys, Revives(o, j) PROVE tombstone'[k].status = op'[p].status
      <4>1. j \in Present /\ tombstone[j].op = p
        BY <3>2, <3>5 DEF Revives, Hit
      <4>2. j = k
        BY <1>1, <2>1, <4>1
      <4> QED
        BY <1>3, <3>2, <3>5, <4>2 DEF Revives
    <3> QED
      BY <2>1, <3>1, <3>3, <3>4, <3>5 DEF Touches
  <2> QED
    BY <2>3, <2>4
<1>4. ASSUME NEW o \in Ids, NEW s \in TerminalStatuses, Ends(o, s)
      PROVE  tombstone'[k].status = op'[tombstone'[k].op].status
  <2>1. s \in Statuses /\ TypeOK /\ UpdateTombstone(op[o].key, s)
    BY <1>4 DEF Statuses, TellsInv, Ends
  <2>2. /\ k \in Present /\ tombstone'[k].op = p
        /\ k # op[o].key => tombstone'[k] = tombstone[k]
        /\ k = op[o].key => tombstone'[k].status = s
    BY <1>2, <2>1, UpdateTells
  <2>3. CASE k = op[o].key
    <3>1. o \in 1..sequence
      BY <1>2, <2>3, KeysAssumption, BoundsAssumption DEF TellsInv, UnbornKeys, TypeOK, Ids
    <3>2. o = p
      BY <1>1, <2>2, <2>3, <3>1
    <3> QED
      BY <1>4, <2>2, <2>3, <3>2 DEF Ends
  <2>4. CASE k # op[o].key
    <3>1. p # o /\ p \in Ids
      BY <1>1, <2>2, <2>4
    <3>2. op'[p] = op[p]
      BY <1>4, <3>1 DEF Ends, OnlyIn
    <3>3. \A q \in 1..sequence : op[q].key = k => q = p
      BY <1>1, <2>2
    <3> QED
      BY <2>2, <2>4, <3>2, <3>3 DEF TellsInv, TombstoneTellsTheEnd, Terminal
  <2> QED
    BY <2>3, <2>4
<1> QED
  BY <1>3, <1>4 DEF Shape, Touches, Starts, Moves, Revives, Stays

\* So does the begin of a new operation, which is not over.
LEMMA BeginNewTells ==
  ASSUME TellsInv, NEW k \in Keys \cup {NoKey}, NEW d \in BOOLEAN, BeginNew(k, d)
  PROVE  NamesInv' /\ UnbornKeys' /\ TombstoneTellsTheEnd'
<1> DEFINE n == sequence + 1
<1>1. /\ sequence \in Nat /\ n \in Ids /\ 1..sequence \subseteq Ids /\ sequence' = n
  BY BoundsAssumption DEF TellsInv, TypeOK, Ids, BeginNew
<1>2. /\ op'[n].key = k /\ op'[n].status = "queued"
      /\ \A p \in Ids : p # n => op'[p] = op[p]
  BY <1>1 DEF TellsInv, TypeOK, BeginNew
<1>3. \A j \in Keys : \/ tombstone'[j] = tombstone[j]
                      \/ tombstone'[j] = NoTombstone
                      \/ j = k /\ tombstone'[j].op = n
  BY BeginNewNames DEF TellsInv
<1>4. UnbornKeys'
  BY <1>1, <1>2 DEF TellsInv, UnbornKeys, Ids
<1>5. ASSUME NEW j \in Keys, tombstone'[j].op # 0
      PROVE  \/ j = k /\ tombstone'[j].op = n
             \/ /\ tombstone'[j] = tombstone[j]
                /\ tombstone[j].op \in 1..sequence
                /\ op[tombstone[j].op].key = j
                /\ op'[tombstone[j].op] = op[tombstone[j].op]
  <2>1. CASE tombstone'[j] = tombstone[j]
    BY <1>1, <1>2, <1>5, <2>1 DEF TellsInv, NamesInv
  <2> QED
    BY <1>3, <1>5, <2>1 DEF NoTombstone
<1>6. NamesInv'
  BY <1>1, <1>2, <1>5 DEF NamesInv
<1>7. TombstoneTellsTheEnd'
  <2> SUFFICES ASSUME NEW j \in Present', op'[tombstone'[j].op].status \in TerminalStatuses,
                      \A p \in 1..n : op'[p].key = j => p = tombstone'[j].op
               PROVE  tombstone'[j].status = op'[tombstone'[j].op].status
    BY <1>1 DEF TombstoneTellsTheEnd, Terminal
  <2>1. j \in Keys
    BY DEF Present
  <2>4. TypeOK'
    BY NextType DEF TellsInv, Next, Begin
  <2>5. tombstone'[j].op # 0
    BY <2>1, <2>4 DEF TypeOK, Present, Tombstone, Ids
  <2>2. ~(j = k /\ tombstone'[j].op = n)
    BY <1>2 DEF Terminal, TerminalStatuses
  <2>3. /\ tombstone'[j] = tombstone[j]
        /\ tombstone[j].op \in 1..sequence
        /\ op'[tombstone[j].op] = op[tombstone[j].op]
        /\ j \in Present
    BY <1>5, <2>1, <2>2, <2>5 DEF Present
  <2>6. \A p \in 1..sequence : op[p].key = j => p = tombstone[j].op
    BY <1>1, <1>2, <2>3
  <2> QED
    BY <2>3, <2>6 DEF TellsInv, TombstoneTellsTheEnd, Terminal
<1> QED
  BY <1>4, <1>6, <1>7

\* While a key has had one operation only, its tombstone tells how that one
\* ended, behind the invoke route too: TombstoneTellsTheEnd, which updateUnder()
\* owes to a lookup made after the Map forgot the operation.
THEOREM TombstonesTell == RouteSpec => []TombstoneTellsTheEnd
<1>1. Init => TellsInv
  <2> SUFFICES ASSUME Init PROVE TellsInv
    OBVIOUS
  <2>1. TypeOK
    BY BoundsAssumption DEF Init, TypeOK, Unborn, Operation, Statuses, Active,
                            NotTold, NoTombstone
  <2>2. Present = {} /\ NamesInv /\ UnbornKeys
    BY DEF Init, Present, NamesInv, UnbornKeys, Unborn, NoTombstone
  <2> QED
    BY <2>1, <2>2 DEF TellsInv, TombstoneTellsTheEnd
<1>2. TellsInv /\ [RouteNext]_vars => TellsInv'
  <2> SUFFICES ASSUME TellsInv, [RouteNext]_vars PROVE TellsInv'
    OBVIOUS
  <2>1. ASSUME NEW k \in Keys, Forget(k) PROVE TellsInv'
    <3>1. TypeOK'
      BY <2>1, ForgetType DEF TellsInv
    <3>2. /\ UNCHANGED <<sequence, op>>
          /\ tombstone'[k] = NoTombstone
          /\ \A j \in Keys : j # k => tombstone'[j] = tombstone[j]
      BY <2>1 DEF Forget, TellsInv, TypeOK
    <3>3. NamesInv' /\ UnbornKeys'
      BY <3>2 DEF TellsInv, NamesInv, UnbornKeys, NoTombstone
    <3>4. TombstoneTellsTheEnd'
      <4> SUFFICES ASSUME NEW j \in Present',
                          op'[tombstone'[j].op].status \in TerminalStatuses,
                          \A p \in 1..sequence' : op'[p].key = j => p = tombstone'[j].op
                   PROVE  tombstone'[j].status = op'[tombstone'[j].op].status
        BY DEF TombstoneTellsTheEnd, Terminal
      <4>1. j \in Present /\ tombstone'[j] = tombstone[j]
        BY <3>2 DEF Present
      <4> QED
        BY <3>2, <4>1 DEF TellsInv, TombstoneTellsTheEnd, Terminal
    <3> QED
      BY <3>1, <3>3, <3>4 DEF TellsInv
  <2>2. ASSUME NEW k \in Keys \cup {NoKey}, NEW d \in BOOLEAN, BeginNew(k, d) PROVE TellsInv'
    BY <2>2, BeginNewTells, NextType DEF TellsInv, Next, Begin
  <2>3. CASE Next /\ ~ \E k \in Keys \cup {NoKey}, d \in BOOLEAN : BeginNew(k, d)
    <3>1. TypeOK' /\ Frame /\ Shape
      BY <2>3, NextType, NextFrame, NextShape DEF TellsInv
    <3>2. NamesInv' /\ UnbornKeys'
      <4>1. 1..sequence \subseteq Ids
        BY BoundsAssumption DEF TellsInv, TypeOK, Ids
      <4> QED
        BY <3>1, <4>1 DEF TellsInv, NamesInv, UnbornKeys, Frame
    <3> QED
      BY <3>1, <3>2, ShapeTells DEF TellsInv
  <2>4. CASE UNCHANGED vars
    <3>1. TypeOK'
      BY <2>4, NextType DEF TellsInv
    <3>2. UNCHANGED <<sequence, op, tombstone>>
      BY <2>4 DEF vars
    <3> QED
      BY <3>1, <3>2 DEF TellsInv, NamesInv, UnbornKeys, TombstoneTellsTheEnd, Present,
                        Terminal
  <2> QED
    BY <2>1, <2>2, <2>3, <2>4 DEF RouteNext
<1>3. TellsInv => TombstoneTellsTheEnd
  BY DEF TellsInv
<1> QED
  BY <1>1, <1>2, <1>3, PTL DEF RouteSpec

-----------------------------------------------------------------------------
(* Crash recovery: what the journal, on disk and in flight, knows.           *)

Written == {disk[i] : i \in DOMAIN disk} \cup pending

Kinds == TerminalStatuses \cup {"requested", "started", "reconciled"}
JournalEntry ==
  {e \in [seq: Nat \ {0}, op: Ids, kind: Kinds,
          arg: Keys \cup {NoKey} \cup Resolutions, at: Nat] :
     /\ e.kind = "requested" => e.arg \in Keys \cup {NoKey}
     /\ e.kind = "reconciled" => e.arg \in Resolutions}

\* The types of the journal; only begun operations are in it, and its numbers
\* have a bound.
JournalType ==
  /\ disk \in Seq(JournalEntry)
  /\ pending \subseteq JournalEntry
  /\ numbered \in Nat
  /\ \E bound \in Nat : \A e \in Written : e.seq <= bound
  /\ \A e \in Written : e.op <= sequence
  /\ storage \in {"memory", "file"}
  /\ storage = "memory" => pending = {}

JournalInv == TypeOK /\ NamesInv /\ BornInv /\ JournalType

\* Journal.hydrate() resumed the numbering: what is appended next comes last.
Numbered == \A e \in Written : e.seq <= numbered

\* An end is written of an operation that is over and only then, so it comes
\* after the request and the start of that operation.
EndsAreOver == \A e \in Written : e.kind \in EndKinds => Terminal(e.op)
EndsComeLast ==
  \A d, e \in Written :
    d.op = e.op /\ d.kind \in {"requested", "started"} /\ e.kind \in EndKinds
      => d.seq < e.seq

\* The operations a caller can reach: in the Map, or named by a tombstone.
Reachable(o) == slot[o] > 0 \/ \E k \in Present : tombstone[k].op = o
DoneIsOver == \A o \in Ids : Reachable(o) /\ op[o].pc = "done" => Terminal(o)

\* The store never takes back that an operation is over.
NamedIsOver ==
  \A k \in Present :
    Terminal(tombstone[k].op) => tombstone[k].status \in TerminalStatuses

RestoreInv ==
  /\ JournalInv /\ TurnInv
  /\ Numbered /\ EndsAreOver /\ EndsComeLast
  /\ DoneIsOver /\ NamedIsOver

\* In memory: what is known of the runs and of the operations given up.
RanIsWritten ==
  \A o \in Ids :
    o \in ran \/ op[o].pc \in {"run", "ack"}
      => \E e \in Written : e.op = o /\ e.kind = "started"
AbortedIsDone ==
  /\ \A e \in Written : e.kind # "aborted"
  /\ \A o \in Ids : op[o].status = "aborted" => o \notin ran /\ op[o].pc = "done"
  /\ \A k \in Present :
       tombstone[k].status = "aborted"
         => tombstone[k].op \notin ran /\ op[tombstone[k].op].pc = "done"
AbortedInv ==
  /\ JournalInv
  /\ ran \subseteq Ids
  /\ storage = "memory" => RanIsWritten /\ AbortedIsDone

\* In memory: every operation begun has its request in the journal.
RequestsAreWritten ==
  \A o \in 1..sequence : \E e \in Written : e.op = o /\ e.kind = "requested"
RequestsTell ==
  \A e \in Written :
    e.kind = "requested" => e.arg = op[e.op].key /\ e.at = op[e.op].created
BegunBefore == \A o \in 1..sequence : op[o].created <= now
EntriesAreLater ==
  \A e \in Written : op[e.op].created <= e.at /\ e.at <= now
RequestsComeFirst ==
  \A d, e \in Written : d.kind = "requested" /\ d.op < e.op => d.seq < e.seq
RequestsInv ==
  RequestsAreWritten /\ RequestsTell /\ RequestsComeFirst /\ BegunBefore
ReplayInv ==
  /\ JournalInv /\ Numbered
  /\ ran \subseteq 1..sequence
  /\ storage = "memory" =>
       RequestsInv /\ IdempotencyInv

\* In memory: the journal answers for an operation that is over as it ended,
\* by the silence about its end or by the last entry of it.
Unanswered(o) ==
  /\ \A e \in Written : e.op = o => e.kind \notin EndKinds
  /\ op[o].status = IF \E e \in Written : e.op = o /\ e.kind = "started"
                    THEN "requires_reconciliation" ELSE "aborted"
Answered(o) ==
  \E i \in DOMAIN disk :
    /\ disk[i].op = o /\ disk[i].kind \in EndKinds
    /\ StatusOf(disk[i]) = op[o].status
    /\ \A j \in DOMAIN disk : disk[j].op = o /\ j # i => disk[j].seq < disk[i].seq
Answers == \A o \in 1..sequence : Terminal(o) => Unanswered(o) \/ Answered(o)

\* What is not begun is not over.
UnbornPending == \A o \in Ids : op[o].pc = "unborn" => ~Terminal(o)

SurviveInv ==
  /\ RestoreInv /\ UnbornPending
  /\ storage = "memory" =>
       /\ RanIsWritten /\ RequestsInv /\ EntriesAreLater
       /\ WaitersPart /\ Ages /\ Answers

\* A set of numbers has a least element.
LEMMA LeastExists ==
  ASSUME NEW S, S \subseteq Nat, S # {}
  PROVE  \E m \in S : \A n \in S : m <= n
<1> DEFINE less == {p \in Nat \X Nat : p[1] < p[2]}
<1>1. IsWellFoundedOn(less, Nat)
  BY NatLessThanWellFounded DEF OpToRel
<1>2. PICK m \in S : \A n \in S : <<n, m>> \notin less
  BY <1>1, WFMin
<1>3. ASSUME NEW n \in S PROVE m <= n
  <2>1. m \in Nat /\ n \in Nat /\ <<n, m>> \notin less
    BY <1>2
  <2>2. ~(n < m)
    BY <2>1
  <2> QED
    BY <2>1, <2>2
<1> QED
  BY <1>3

\* One that is bounded has a greatest.
LEMMA GreatestExists ==
  ASSUME NEW S, S \subseteq Nat, S # {}, NEW bound \in Nat, \A n \in S : n <= bound
  PROVE  \E m \in S : \A n \in S : n <= m
<1> DEFINE rest == {bound - n : n \in S}
<1>1. \A n \in S : n \in Nat /\ bound - n \in Nat
  OBVIOUS
<1>2. rest \subseteq Nat /\ rest # {}
  BY <1>1
<1>3. PICK r \in rest : \A q \in rest : r <= q
  BY <1>2, LeastExists
<1>4. PICK m \in S : r = bound - m
  BY <1>3
<1>5. ASSUME NEW n \in S PROVE n <= m
  <2>1. bound - m <= bound - n
    BY <1>3, <1>4
  <2> QED
    BY <1>1, <2>1
<1> QED
  BY <1>5

\* Positions follow the sequence numbers, and the file's order among equals.
LEMMA PositionOrder ==
  ASSUME NEW a \in Nat, NEW b \in Nat, NEW l \in Nat,
         NEW i \in 1..l, NEW j \in 1..l,
         a * (l + 1) + i <= b * (l + 1) + j
  PROVE  a <= b
<1> SUFFICES ASSUME b < a PROVE FALSE
  OBVIOUS
<1>1. PICK d \in Nat : a = b + 1 + d
  <2>1. a - b - 1 \in Nat /\ a = b + 1 + (a - b - 1)
    OBVIOUS
  <2> QED
    BY <2>1
<1>2. a * (l + 1) = b * (l + 1) + (l + 1) + d * (l + 1)
  BY <1>1
<1>3. d * (l + 1) \in Nat /\ b * (l + 1) \in Nat /\ a * (l + 1) \in Nat
  OBVIOUS
<1> QED
  BY <1>2, <1>3

\* An entry's position is a number, with a bound when its sequence number has.
LEMMA PositionBound ==
  ASSUME NEW a \in Nat, NEW b \in Nat, NEW l \in Nat, NEW i \in 1..l, a <= b
  PROVE  a * (l + 1) + i \in Nat /\ a * (l + 1) + i <= b * (l + 1) + l
<1>1. PICK d \in Nat : b = a + d
  <2>1. b - a \in Nat /\ b = a + (b - a)
    OBVIOUS
  <2> QED
    BY <2>1
<1>2. b * (l + 1) = a * (l + 1) + d * (l + 1)
  BY <1>1
<1>3. d * (l + 1) \in Nat /\ a * (l + 1) \in Nat
  OBVIOUS
<1> QED
  BY <1>2, <1>3

\* What JournalType says of the entries of the file.
LEMMA DiskType ==
  ASSUME JournalType
  PROVE  /\ Len(disk) \in Nat
         /\ DOMAIN disk = 1..Len(disk)
         /\ \A i \in DOMAIN disk : disk[i] \in JournalEntry /\ disk[i] \in Written
         /\ \A e \in Written : e \in JournalEntry
  BY DEF JournalType, Written

\* And of one entry.
LEMMA EntryType ==
  ASSUME NEW e \in JournalEntry
  PROVE  /\ e.seq \in Nat /\ e.seq > 0
         /\ e.op \in Ids /\ e.kind \in Kinds /\ e.at \in Nat
         /\ e.kind = "requested" => e.arg \in Keys \cup {NoKey}
         /\ e.kind = "reconciled" => e.arg \in Resolutions
  BY DEF JournalEntry

\* The positions of the sorted journal are numbers with a bound.
LEMMA PositionType ==
  ASSUME JournalType
  PROVE  /\ \A i \in DOMAIN disk : Position(i) \in Nat
         /\ \E top \in Nat : \A i \in DOMAIN disk : Position(i) <= top
<1>1. PICK bound \in Nat : \A e \in Written : e.seq <= bound
  BY DEF JournalType
<1>2. Len(disk) \in Nat /\ bound * (Len(disk) + 1) + Len(disk) \in Nat
  BY DiskType
<1>3. ASSUME NEW i \in DOMAIN disk
      PROVE  /\ Position(i) \in Nat
             /\ Position(i) <= bound * (Len(disk) + 1) + Len(disk)
  <2>1. i \in 1..Len(disk) /\ disk[i].seq \in Nat /\ disk[i].seq <= bound
    BY <1>1, DiskType, EntryType
  <2> QED
    BY <1>2, <2>1, PositionBound DEF Position
<1> QED
  BY <1>2, <1>3

\* Of some entries there is a first one in the sorted journal, and a last one.
LEMMA EarliestExists ==
  ASSUME JournalType, NEW T, T \subseteq DOMAIN disk, T # {}
  PROVE  \E i \in T : \A j \in T : Position(i) <= Position(j)
<1> DEFINE places == {Position(i) : i \in T}
<1>1. places \subseteq Nat /\ places # {}
  BY PositionType
<1>2. PICK m \in places : \A n \in places : m <= n
  BY <1>1, LeastExists
<1> QED
  BY <1>2

\* The last one.
LEMMA LatestExists ==
  ASSUME JournalType, NEW T, T \subseteq DOMAIN disk, T # {}
  PROVE  \E i \in T : \A j \in T : Position(j) <= Position(i)
<1> DEFINE places == {Position(i) : i \in T}
<1>1. PICK top \in Nat : \A i \in DOMAIN disk : Position(i) <= top
  BY PositionType
<1>2. places \subseteq Nat /\ places # {} /\ \A n \in places : n <= top
  BY <1>1, PositionType
<1>3. PICK m \in places : \A n \in places : n <= m
  BY <1>2, GreatestExists
<1> QED
  BY <1>3

\* An entry that comes no later in the sorted journal has no greater number.
LEMMA LaterNumber ==
  ASSUME JournalType, NEW i \in DOMAIN disk, NEW j \in DOMAIN disk,
         Position(i) <= Position(j)
  PROVE  disk[i].seq <= disk[j].seq
<1>1. /\ i \in 1..Len(disk) /\ j \in 1..Len(disk) /\ Len(disk) \in Nat
      /\ disk[i].seq \in Nat /\ disk[j].seq \in Nat
  BY DiskType, EntryType
<1> QED
  BY <1>1, PositionOrder DEF Position

\* hydrate() meets the first entry of an operation first.
LEMMA FirstOf ==
  ASSUME JournalType, NEW o \in Journaled
  PROVE  /\ First(o) \in Entries(o)
         /\ \A j \in Entries(o) : Position(First(o)) <= Position(j)
<1>1. Entries(o) \subseteq DOMAIN disk /\ Entries(o) # {}
  BY DEF Entries, Journaled
<1>2. \E i \in Entries(o) : \A j \in Entries(o) : Position(i) <= Position(j)
  BY <1>1, EarliestExists
<1> QED
  BY <1>2 DEF First

\* The entry that decides the status of an operation whose end is written.
Telling(o) == OfKind(o, EndKinds \cup {"requested", "started"})
Deciding(o) ==
  CHOOSE i \in Telling(o) : \A j \in Telling(o) : Position(j) <= Position(i)

\* It is the last one that writes the status.
LEMMA DecidingOf ==
  ASSUME JournalType, NEW o \in Journaled, OfKind(o, EndKinds) # {}
  PROVE  /\ Deciding(o) \in Telling(o)
         /\ \A j \in Telling(o) : Position(j) <= Position(Deciding(o))
<1>1. Telling(o) \subseteq DOMAIN disk /\ Telling(o) # {}
  BY DEF Telling, OfKind, Entries
<1>2. \E i \in Telling(o) : \A j \in Telling(o) : Position(j) <= Position(i)
  BY <1>1, LatestExists
<1> QED
  BY <1>2 DEF Deciding

\* What hydrate() makes of the status, by the entries the journal has.
LEMMA RecoveredStatusOf ==
  ASSUME NEW o \in Journaled
  PROVE  RecoveredStatus(o) =
           IF OfKind(o, EndKinds) # {} THEN StatusOf(disk[Deciding(o)])
           ELSE IF OfKind(o, {"started"}) # {} THEN "requires_reconciliation"
           ELSE "aborted"
  BY DEF RecoveredStatus, Deciding, Telling

\* An entry tells of a status; one of an end tells of an end.
LEMMA StatusOfType ==
  ASSUME NEW e \in JournalEntry, e.kind \in EndKinds \cup {"requested", "started"}
  PROVE  /\ StatusOf(e) \in Statuses
         /\ e.kind \in EndKinds => StatusOf(e) \in TerminalStatuses
         /\ StatusOf(e) = "aborted" => e.kind = "aborted"
<1>1. e.kind = "reconciled" => e.arg \in Resolutions
  BY EntryType
<1>2. /\ Resolutions \subseteq TerminalStatuses /\ "aborted" \notin Resolutions
      /\ EndKinds \ {"reconciled"} \subseteq TerminalStatuses
      /\ "requested" \notin EndKinds /\ "started" \notin EndKinds
      /\ {"queued", "running"} \subseteq Statuses /\ TerminalStatuses \subseteq Statuses
  BY DEF Resolutions, TerminalStatuses, EndKinds, Statuses, Active
<1>3. CASE e.kind = "requested"
  BY <1>2, <1>3 DEF StatusOf
<1>4. CASE e.kind = "started"
  BY <1>2, <1>4 DEF StatusOf
<1>5. CASE e.kind = "reconciled"
  BY <1>1, <1>2, <1>5 DEF StatusOf
<1>6. CASE e.kind \in EndKinds \ {"reconciled"}
  <2>1. StatusOf(e) = e.kind
    BY <1>2, <1>6 DEF StatusOf
  <2> QED
    BY <1>2, <1>6, <2>1
<1> QED
  BY <1>3, <1>4, <1>5, <1>6

\* What hydrate() gives an operation the journal knows.
LEMMA RecoveredType ==
  ASSUME TypeOK, JournalType, NEW o \in Journaled
  PROVE  /\ RecoveredStatus(o) \in Statuses
         /\ RecoveredKey(o) \in Keys \cup {NoKey}
         /\ RecoveredCreated(o) \in Nat /\ RecoveredFinished(o) \in Nat
         /\ o \in Ids /\ o <= sequence
<1>1. /\ \A i \in Entries(o) : disk[i] \in JournalEntry /\ disk[i] \in Written
                              /\ disk[i].op = o
      /\ First(o) \in Entries(o)
  BY DiskType, FirstOf DEF Entries
<1>2. o \in Ids /\ o <= sequence
  BY <1>1 DEF Journaled, JournalType
<1>3. RecoveredStatus(o) \in Statuses
  <2>1. CASE OfKind(o, EndKinds) # {}
    <3>1. Deciding(o) \in Telling(o)
      BY <2>1, DecidingOf
    <3>2. /\ disk[Deciding(o)] \in JournalEntry
          /\ disk[Deciding(o)].kind \in EndKinds \cup {"requested", "started"}
      BY <1>1, <3>1 DEF Telling, OfKind
    <3>3. StatusOf(disk[Deciding(o)]) \in Statuses
      BY <3>2, StatusOfType
    <3> QED
      BY <2>1, <3>3, RecoveredStatusOf
  <2>2. CASE OfKind(o, EndKinds) = {}
    BY <2>2, RecoveredStatusOf DEF Statuses, TerminalStatuses
  <2> QED
    BY <2>1, <2>2
<1>4. \A i \in OfKind(o, {"requested"}) :
        disk[i].arg \in Keys \cup {NoKey} /\ disk[i].at \in Nat
  BY <1>1, EntryType DEF OfKind
<1>5. RecoveredKey(o) \in Keys \cup {NoKey}
  BY <1>4 DEF RecoveredKey
<1>6. RecoveredCreated(o) \in Nat
  <2>1. disk[First(o)].at \in Nat
    BY <1>1, EntryType
  <2> QED
    BY <1>4, <2>1 DEF RecoveredCreated
<1>7. RecoveredFinished(o) \in Nat
  <2> DEFINE ends == OfKind(o, EndKinds)
  <2>1. ends \subseteq DOMAIN disk /\ \A i \in ends : disk[i].at \in Nat
    BY <1>1, EntryType DEF OfKind, Entries
  <2>2. ends # {} => \E i \in ends : \A j \in ends : Position(j) <= Position(i)
    BY <2>1, LatestExists
  <2> HIDE DEF ends
  <2>3. RecoveredFinished(o) = IF ends = {} THEN now
          ELSE disk[CHOOSE i \in ends : \A j \in ends : Position(j) <= Position(i)].at
    BY DEF RecoveredFinished, ends
  <2> QED
    BY <2>1, <2>2, <2>3 DEF TypeOK
<1> QED
  BY <1>2, <1>3, <1>5, <1>6, <1>7

\* The tombstone that stays is that of an operation with the key.
LEMMA NamedOf ==
  ASSUME JournalType, NEW k, Named(k) # {}
  PROVE  /\ LastNamed(k) \in Named(k)
         /\ \A p \in Named(k) : Position(First(p)) <= Position(First(LastNamed(k)))
         /\ Named(k) \subseteq Journaled
<1>1. Named(k) \subseteq Journaled
  BY DEF Named
<1> DEFINE firsts == {First(p) : p \in Named(k)}
<1>2. \A p \in Named(k) : First(p) \in DOMAIN disk
  BY <1>1, FirstOf DEF Entries
<1>3. firsts \subseteq DOMAIN disk /\ firsts # {}
  BY <1>2
<1>4. PICK i \in firsts : \A j \in firsts : Position(j) <= Position(i)
  BY <1>3, LatestExists
<1>5. \E o \in Named(k) : \A p \in Named(k) : Position(First(p)) <= Position(First(o))
  BY <1>4
<1> QED
  BY <1>1, <1>5 DEF LastNamed

\* Journal.hydrate() finds the greatest number in the file.
LEMMA ResumedNumber ==
  ASSUME JournalType, CrashAndRestart
  PROVE  /\ numbered' \in Nat
         /\ ResumeNumbering => \A i \in DOMAIN disk : disk[i].seq <= numbered'
<1> DEFINE seqs == {0} \cup {disk[i].seq : i \in DOMAIN disk}
<1>1. PICK bound \in Nat : \A e \in Written : e.seq <= bound
  BY DEF JournalType
<1>2. seqs \subseteq Nat /\ seqs # {} /\ \A n \in seqs : n <= bound
  BY <1>1, DiskType, EntryType
<1>3. PICK m \in seqs : \A n \in seqs : n <= m
  BY <1>2, GreatestExists
<1>4. \E n \in seqs : \A i \in DOMAIN disk : disk[i].seq <= n
  BY <1>3
<1>5. numbered' = IF ResumeNumbering
                  THEN CHOOSE n \in seqs : \A i \in DOMAIN disk : disk[i].seq <= n
                  ELSE 0
  BY DEF CrashAndRestart
<1> HIDE DEF seqs
<1> QED
  BY <1>2, <1>4, <1>5

\* What a restart leaves in each operation.
LEMMA Hydrated ==
  ASSUME TypeOK, JournalType, CrashAndRestart, NEW o \in Ids
  PROVE  /\ o \in Journaled =>
              /\ op'[o].status = RecoveredStatus(o) /\ op'[o].pc = "done"
              /\ op'[o].key = RecoveredKey(o)
              /\ op'[o].created = RecoveredCreated(o)
              /\ op'[o].finished = RecoveredFinished(o)
              /\ op'[o] \in Operation
         /\ o \notin Journaled =>
              /\ op'[o].status = op[o].status /\ op'[o].key = op[o].key
              /\ op'[o].created = op[o].created /\ op'[o].finished = op[o].finished
              /\ op'[o].pc = IF op[o].pc = "unborn" THEN "unborn" ELSE "done"
              /\ op'[o] \in Operation
              /\ slot'[o] = 0
         /\ slot'[o] \in Nat
<1>1. CASE o \in Journaled
  <2>1. op'[o] = [status |-> RecoveredStatus(o), key |-> RecoveredKey(o),
             deadline |-> FALSE, aborted |-> FALSE,
             created |-> RecoveredCreated(o), finished |-> RecoveredFinished(o),
             pc |-> "done"]
    BY <1>1 DEF CrashAndRestart, HydrateOperations
  <2>2. op'[o] \in Operation
    BY <1>1, <2>1, RecoveredType DEF Operation
  <2> DEFINE before == {p \in Journaled : Position(First(p)) <= Position(First(o))}
  <2>3. IsFiniteSet(before)
    <3>1. before \subseteq 1..MaxOps /\ MaxOps \in Nat
      BY BoundsAssumption DEF Journaled, Ids
    <3>2. IsFiniteSet(1..MaxOps)
      BY <3>1, FS_Interval
    <3> QED
      BY <3>1, <3>2, FS_Subset
  <2>4. Cardinality(before) \in Nat
    BY <2>3, FS_CardinalityType
  <2>5. slot'[o] = Cardinality(before)
    BY <1>1 DEF CrashAndRestart, HydrateOperations
  <2> QED
    BY <1>1, <2>1, <2>2, <2>4, <2>5
<1>2. CASE o \notin Journaled
  <2> DEFINE x == [op[o] EXCEPT !.pc = IF @ = "unborn" THEN @ ELSE "done"]
  <2>1. op'[o] = x /\ slot'[o] = 0
    BY <1>2 DEF CrashAndRestart, HydrateOperations
  <2>2. op[o] \in Operation
    BY DEF TypeOK
  <2>3. /\ x \in Operation
        /\ x.status = op[o].status /\ x.key = op[o].key
        /\ x.created = op[o].created /\ x.finished = op[o].finished
        /\ x.pc = IF op[o].pc = "unborn" THEN "unborn" ELSE "done"
    BY <2>2 DEF Operation
  <2> HIDE DEF x
  <2> QED
    BY <1>2, <2>1, <2>3
<1> QED
  BY <1>1, <1>2

\* And what it leaves in the store.
LEMMA HydratedStore ==
  ASSUME TypeOK, JournalType, CrashAndRestart, NEW k \in Keys
  PROVE  \/ k \notin KeptKeys /\ tombstone'[k] = NoTombstone
         \/ /\ k \in KeptKeys
            /\ tombstone'[k].op = LastNamed(k)
            /\ tombstone'[k].status = RecoveredStatus(LastNamed(k))
            /\ tombstone'[k].created = RecoveredCreated(LastNamed(k))
            /\ tombstone'[k] \in Tombstone
            /\ LastNamed(k) \in Named(k)
            /\ LastNamed(k) \in Journaled
            /\ RecoveredKey(LastNamed(k)) = k
<1>1. CASE k \in KeptKeys
  <2> DEFINE o == LastNamed(k)
  <2>1. Named(k) # {}
    BY <1>1 DEF KeptKeys, NamedKeys
  <2>2. o \in Named(k) /\ o \in Journaled
    BY <2>1, NamedOf
  <2>3. RecoveredKey(o) = k
    BY <2>2 DEF Named
  <2>4. tombstone'[k] = [op |-> o, status |-> RecoveredStatus(o),
                         created |-> RecoveredCreated(o)]
    BY <1>1 DEF CrashAndRestart, HydrateStore
  <2> HIDE DEF o
  <2>5. tombstone'[k] \in Tombstone
    BY <2>2, <2>4, RecoveredType DEF Tombstone
  <2> QED
    BY <1>1, <2>2, <2>3, <2>4, <2>5 DEF o
<1>2. CASE k \notin KeptKeys
  BY <1>2 DEF CrashAndRestart, HydrateStore
<1> QED
  BY <1>1, <1>2

\* A restart preserves the types, and the store names operations of its keys.
LEMMA CrashType ==
  ASSUME TypeOK, JournalType, CrashAndRestart
  PROVE  TypeOK' /\ NamesInv' /\ JournalType'
<1>1. op' \in [Ids -> Operation]
  <2>1. \A o \in Ids : op'[o] \in Operation
    BY Hydrated
  <2>2. \E f : op' = [o \in Ids |-> f[o]]
    <3> DEFINE f == [o \in Ids |-> IF o \in Journaled
       THEN [status |-> RecoveredStatus(o), key |-> RecoveredKey(o),
             deadline |-> FALSE, aborted |-> FALSE,
             created |-> RecoveredCreated(o), finished |-> RecoveredFinished(o),
             pc |-> "done"]
       ELSE [op[o] EXCEPT !.pc = IF @ = "unborn" THEN @ ELSE "done"]]
    <3>1. op' = f
      BY DEF CrashAndRestart, HydrateOperations
    <3>2. f = [o \in Ids |-> f[o]]
      OBVIOUS
    <3> QED
      BY <3>1, <3>2
  <2> QED
    BY <2>1, <2>2
<1>2. slot' \in [Ids -> Nat]
  <2>1. \A o \in Ids : slot'[o] \in Nat
    BY Hydrated
  <2>2. slot' = [o \in Ids |-> IF o \in Journaled
          THEN Cardinality({p \in Journaled : Position(First(p)) <= Position(First(o))})
          ELSE 0]
    BY DEF CrashAndRestart, HydrateOperations
  <2>3. \E f : slot' = [o \in Ids |-> f[o]]
    <3> DEFINE f == slot'
    <3>1. slot' = [o \in Ids |-> f[o]]
      BY <2>2
    <3> QED
      BY <3>1
  <2> QED
    BY <2>1, <2>3
<1>3. insertions' \in Nat
  <2>1. Journaled \subseteq 1..MaxOps /\ MaxOps \in Nat
    BY BoundsAssumption DEF Journaled, Ids
  <2>2. IsFiniteSet(1..MaxOps)
    BY <2>1, FS_Interval
  <2>3. IsFiniteSet(Journaled)
    BY <2>1, <2>2, FS_Subset
  <2> QED
    BY <2>3, FS_CardinalityType DEF CrashAndRestart, HydrateOperations
<1>4. tombstone' \in [Keys -> Tombstone \cup {NoTombstone}]
  <2>1. \A k \in Keys : tombstone'[k] \in Tombstone \cup {NoTombstone}
    BY HydratedStore
  <2>2. tombstone' = [k \in Keys |->
       IF k \notin KeptKeys THEN NoTombstone
       ELSE LET o == LastNamed(k) IN
            [op |-> o, status |-> RecoveredStatus(o), created |-> RecoveredCreated(o)]]
    BY DEF CrashAndRestart, HydrateStore
  <2>3. tombstone' = [k \in Keys |-> tombstone'[k]]
    BY <2>2
  <2> QED
    BY <2>1, <2>3
<1>5. lru' \in [Keys -> Nat]
  <2>1. \A k : Cardinality({j \in KeptKeys : KeyPosition(j) <= KeyPosition(k)}) \in Nat
    <3> SUFFICES ASSUME NEW k
                 PROVE  Cardinality({j \in KeptKeys : KeyPosition(j) <= KeyPosition(k)}) \in Nat
      OBVIOUS
    <3>1. {j \in KeptKeys : KeyPosition(j) <= KeyPosition(k)} \subseteq Keys
      BY DEF KeptKeys, NamedKeys
    <3> QED
      BY <3>1, KeysAssumption, FS_Subset, FS_CardinalityType
  <2> QED
    BY <2>1 DEF CrashAndRestart, HydrateStore
<1>6. evicted' \subseteq 0..MaxOps
  <2>1. \A k : Named(k) \subseteq 0..MaxOps
    BY BoundsAssumption DEF Named, Journaled, Ids
  <2> QED
    BY <2>1 DEF TypeOK, CrashAndRestart, HydrateStore
<1>7. TypeOK'
  BY <1>1, <1>2, <1>3, <1>4, <1>5, <1>6 DEF TypeOK, CrashAndRestart
<1>8. NamesInv'
  <2> SUFFICES ASSUME NEW k \in Keys, tombstone'[k].op # 0
               PROVE  /\ tombstone'[k].op \in 1..sequence
                      /\ op'[tombstone'[k].op].key = k
    BY DEF NamesInv, CrashAndRestart
  <2>1. /\ tombstone'[k].op = LastNamed(k)
        /\ LastNamed(k) \in Journaled /\ RecoveredKey(LastNamed(k)) = k
    BY HydratedStore DEF NoTombstone
  <2>2. LastNamed(k) \in Ids /\ LastNamed(k) <= sequence
    BY <2>1, RecoveredType
  <2>3. op'[LastNamed(k)].key = k
    BY <2>1, <2>2, Hydrated
  <2>4. LastNamed(k) \in 1..sequence
    BY <2>2, BoundsAssumption DEF Ids, TypeOK
  <2> QED
    BY <2>1, <2>3, <2>4
<1>9. JournalType'
  <2>1. Written' \subseteq Written
    BY DEF Written, CrashAndRestart
  <2>2. numbered' \in Nat
    BY ResumedNumber
  <2> QED
    BY <2>1, <2>2 DEF JournalType, CrashAndRestart
<1> QED
  BY <1>7, <1>8, <1>9

\* The journal gained entry e, numbered next.
Wrote(e) ==
  /\ e \in JournalEntry
  /\ e.seq = numbered + 1 /\ e.at = now
  /\ Written' = Written \cup {e}
  /\ numbered' = numbered + 1
  /\ disk' \in Seq(JournalEntry) /\ pending' \subseteq JournalEntry
  /\ storage = "memory" => disk' = Append(disk, e) /\ pending' = pending

\* The entry append() writes of an event.
LEMMA AppendWrites ==
  ASSUME TypeOK, JournalType, ManagerStep,
         NEW o \in Ids, NEW kind \in Kinds, NEW arg \in Keys \cup {NoKey} \cup Resolutions,
         kind = "requested" => arg \in Keys \cup {NoKey},
         kind = "reconciled" => arg \in Resolutions,
         emits' = <<Event(o, kind, arg)>>
  PROVE  \E e : Wrote(e) /\ e.op = o /\ e.kind = kind /\ e.arg = arg
<1> DEFINE e == Entry(numbered + 1, emits'[1])
<1>1. emits'[1] = Event(o, kind, arg) /\ emits' # <<>>
  OBVIOUS
<1>2. e = [seq |-> numbered + 1, op |-> o, kind |-> kind, arg |-> arg, at |-> now]
  BY <1>1 DEF Entry, Event
<1>3. numbered + 1 \in Nat \ {0} /\ now \in Nat
  BY BoundsAssumption DEF TypeOK, JournalType
<1>4. e \in JournalEntry /\ e.seq = numbered + 1 /\ e.at = now
      /\ e.op = o /\ e.kind = kind /\ e.arg = arg
  BY <1>2, <1>3 DEF JournalEntry
<1>5. /\ numbered' = numbered + 1
      /\ IF storage = "memory"
         THEN disk' = Append(disk, e) /\ UNCHANGED pending
         ELSE pending' = pending \cup {e} /\ UNCHANGED disk
  BY <1>1 DEF ManagerStep, Append1
<1> HIDE DEF e
<1>6. disk \in Seq(JournalEntry) /\ pending \subseteq JournalEntry
  BY DEF JournalType
<1>7. disk' \in Seq(JournalEntry) /\ pending' \subseteq JournalEntry
  <2>1. CASE storage = "memory"
    BY <1>4, <1>5, <1>6, <2>1
  <2>2. CASE storage # "memory"
    BY <1>4, <1>5, <1>6, <2>2
  <2> QED
    BY <2>1, <2>2
<1>8. Written' = Written \cup {e}
  <2>1. CASE storage = "memory"
    <3>1. /\ DOMAIN disk = 1..Len(disk) /\ Len(disk) \in Nat
          /\ DOMAIN disk' = 1..(Len(disk) + 1)
          /\ disk'[Len(disk) + 1] = e
          /\ \A i \in 1..Len(disk) : disk'[i] = disk[i]
      BY <1>4, <1>5, <1>6, <2>1
    <3>2. {disk'[i] : i \in DOMAIN disk'} = {disk[i] : i \in DOMAIN disk} \cup {e}
      BY <3>1
    <3> QED
      BY <1>5, <2>1, <3>2 DEF Written
  <2>2. CASE storage # "memory"
    BY <1>5, <2>2 DEF Written
  <2> QED
    BY <2>1, <2>2
<1>9. Wrote(e)
  BY <1>4, <1>5, <1>7, <1>8 DEF Wrote
<1> QED
  BY <1>4, <1>9

\* A step that emits nothing writes nothing.
LEMMA SilentWrites ==
  ASSUME ManagerStep, emits' = <<>>
  PROVE  UNCHANGED <<disk, pending, numbered>> /\ Written' = Written
  BY DEF ManagerStep, Append1, Written

\* What a step of the manager writes, by its shape.
LEMMA StepWrites ==
  ASSUME JournalInv, ManagerStep
  PROVE  \/ /\ Frame /\ Shape
            /\ emits' = <<>>
            /\ UNCHANGED <<disk, pending, numbered>> /\ Written' = Written
         \/ /\ Frame /\ Shape
            /\ \E o \in Ids : \E e : Starts(o) /\ Wrote(e) /\ e.op = o /\ e.kind = "started"
         \/ /\ Frame /\ Shape
            /\ \E o \in Ids, s \in TerminalStatuses : \E e :
                 /\ Ends(o, s) /\ Wrote(e) /\ e.op = o
                 /\ \/ /\ e.kind = EventKind(s)
                       /\ emits' = <<Event(o, EventKind(s), NoKey)>>
                    \/ /\ e.kind = "reconciled" /\ e.arg = s
                       /\ emits' = <<Event(o, "reconciled", s)>>
         \/ \E k \in Keys \cup {NoKey}, d \in BOOLEAN : \E e :
              /\ BeginNew(k, d) /\ Wrote(e)
              /\ e.op = sequence + 1 /\ e.kind = "requested" /\ e.arg = k
<1> USE DEF JournalInv
<1>0. /\ {"requested", "started", "reconciled"} \subseteq Kinds
      /\ \A s \in TerminalStatuses : /\ EventKind(s) \in Kinds
                                     /\ EventKind(s) \notin {"requested", "started", "reconciled"}
      /\ NoKey \in Keys \cup {NoKey} \cup Resolutions
  BY DEF Kinds, TerminalStatuses, EventKind
<1>1. ASSUME NEW k \in Keys \cup {NoKey}, NEW d \in BOOLEAN, BeginNew(k, d)
      PROVE  \E e : Wrote(e) /\ e.op = sequence + 1 /\ e.kind = "requested" /\ e.arg = k
  <2>1. sequence + 1 \in Ids /\ emits' = <<Event(sequence + 1, "requested", k)>>
    BY <1>1, BoundsAssumption DEF TypeOK, Ids, BeginNew
  <2> QED
    BY <1>0, <2>1, AppendWrites
<1>2. CASE ~ \E k \in Keys \cup {NoKey}, d \in BOOLEAN : BeginNew(k, d)
  <2>1. Frame /\ Shape
    BY <1>2, NextFrame, NextShape DEF ManagerStep
  <2>2. ASSUME NEW o \in Ids, Starts(o)
        PROVE  \E e : Wrote(e) /\ e.op = o /\ e.kind = "started"
    <3>1. emits' = <<Event(o, "started", NoKey)>>
      BY <2>2 DEF Starts
    <3> QED
      BY <1>0, <3>1, AppendWrites
  <2>3. ASSUME NEW o \in Ids, NEW s \in TerminalStatuses, Ends(o, s)
        PROVE  \E e : /\ Wrote(e) /\ e.op = o
                      /\ \/ /\ e.kind = EventKind(s)
                            /\ emits' = <<Event(o, EventKind(s), NoKey)>>
                         \/ /\ e.kind = "reconciled" /\ e.arg = s
                            /\ emits' = <<Event(o, "reconciled", s)>>
    <3>1. CASE emits' = <<Event(o, EventKind(s), NoKey)>>
      <4>1. EventKind(s) \in Kinds /\ EventKind(s) \notin {"requested", "reconciled"}
        BY <1>0
      <4> QED
        BY <1>0, <3>1, <4>1, AppendWrites
    <3>2. CASE emits' = <<Event(o, "reconciled", s)>> /\ s \in Resolutions
      BY <1>0, <3>2, AppendWrites
    <3> QED
      BY <2>3, <3>1, <3>2 DEF Ends
  <2>4. CASE \A o \in Ids : ~Starts(o) /\ \A s \in TerminalStatuses : ~Ends(o, s)
    <3>1. emits' = <<>>
      BY <2>1, <2>4 DEF Shape, Touches, Stays, Moves, Revives
    <3> QED
      BY <2>1, <2>4, <3>1, SilentWrites
  <2> QED
    BY <2>1, <2>2, <2>3, <2>4
<1> QED
  BY <1>1, <1>2

\* What was begun is begun, and begins once.
LEMMA ShapeBorn ==
  ASSUME JournalInv, Frame, Shape
  PROVE  NamesInv' /\ BornInv'
<1> USE DEF JournalInv
<1>1. 1..sequence \subseteq Ids /\ sequence' = sequence /\ sequence \in Nat
  BY BoundsAssumption DEF TypeOK, Ids, Frame
<1>2. NamesInv'
  BY <1>1 DEF NamesInv, Frame
<1>3. ASSUME NEW p \in Ids PROVE op'[p].pc = "unborn" <=> op[p].pc = "unborn"
  <2>2. CASE Stays
    BY <2>2 DEF Stays, OnlyIn
  <2>3. ASSUME NEW o \in Ids, p # o, OnlyIn({o})
        PROVE  op'[p].pc = "unborn" <=> op[p].pc = "unborn"
    BY <2>3 DEF OnlyIn
  <2>4. CASE Starts(p) \/ Moves(p)
    BY <2>4 DEF Starts, Moves
  <2>5. ASSUME NEW s \in TerminalStatuses, Ends(p, s)
        PROVE  op'[p].pc = "unborn" <=> op[p].pc = "unborn"
    BY <2>5 DEF Ends, BornInv
  <2>6. ASSUME NEW k \in Keys, Revives(p, k)
        PROVE  op'[p].pc = "unborn" <=> op[p].pc = "unborn"
    BY <2>6 DEF Revives
  <2>7. ASSUME NEW o \in Ids, Touches(o) PROVE OnlyIn({o})
    BY <2>7 DEF Touches, Starts, Moves, Ends, Revives
  <2> QED
    BY <2>2, <2>3, <2>4, <2>5, <2>6, <2>7 DEF Shape, Touches
<1>4. ASSUME NEW p \in Ids, op'[p].pc = "unborn" PROVE slot'[p] = 0
  <2>1. op[p].pc = "unborn" /\ slot[p] = 0
    BY <1>3, <1>4 DEF BornInv
  <2>2. ASSUME NEW k \in Keys, Hit(k) PROVE p # tombstone[k].op
    <3>1. tombstone[k].op # 0
      BY <2>2 DEF TypeOK, Hit, Present, Tombstone, Ids
    <3> QED
      BY <1>1, <2>1, <3>1 DEF NamesInv, BornInv
  <2> QED
    BY <2>1, <2>2 DEF Shape, Stays, Touches, Starts, Moves, Ends, Revives, NoEntry
<1> QED
  BY <1>1, <1>2, <1>3, <1>4 DEF BornInv

\* What begin() of a new operation does to the others, and to the names.
LEMMA BeginNewBorn ==
  ASSUME JournalInv, NEW k \in Keys \cup {NoKey}, NEW d \in BOOLEAN, BeginNew(k, d)
  PROVE  LET n == sequence + 1 IN
         /\ sequence \in Nat /\ n \in Ids /\ sequence' = n /\ now' = now
         /\ op'[n].pc = "scheduled" /\ op'[n].status = "queued"
         /\ op'[n].key = k /\ op'[n].created = now
         /\ \A p \in Ids : p # n => op'[p] = op[p] /\ slot'[p] = slot[p]
         /\ op[n].pc = "unborn"
         /\ NamesInv' /\ BornInv'
<1> DEFINE n == sequence + 1
<1> USE DEF JournalInv
<1>1. /\ sequence \in Nat /\ n \in Ids /\ 1..sequence \subseteq Ids /\ sequence' = n
      /\ now' = now /\ insertions \in Nat
  BY BoundsAssumption DEF TypeOK, Ids, BeginNew
<1>2. /\ op'[n].key = k /\ op'[n].status = "queued" /\ op'[n].pc = "scheduled"
      /\ op'[n].created = now /\ slot'[n] = insertions + 1
      /\ \A p \in Ids : p # n => op'[p] = op[p] /\ slot'[p] = slot[p]
  BY <1>1 DEF TypeOK, BeginNew
<1>3. \A j \in Keys : \/ tombstone'[j] = tombstone[j]
                      \/ tombstone'[j] = NoTombstone
                      \/ j = k /\ tombstone'[j].op = n
  BY BeginNewNames
<1>4. BornInv'
  BY <1>1, <1>2 DEF BornInv, Ids
<1>5. NamesInv'
  <2> SUFFICES ASSUME NEW j \in Keys, tombstone'[j].op # 0
               PROVE  tombstone'[j].op \in 1..n /\ op'[tombstone'[j].op].key = j
    BY <1>1 DEF NamesInv
  <2>1. CASE tombstone'[j] = tombstone[j]
    BY <1>1, <1>2, <2>1 DEF NamesInv
  <2>2. CASE j = k /\ tombstone'[j].op = n
    BY <1>1, <1>2, <2>2
  <2> QED
    BY <1>3, <2>1, <2>2 DEF NoTombstone
<1>6. op[n].pc = "unborn"
  BY <1>1 DEF BornInv, Ids
<1> QED
  BY <1>1, <1>2, <1>4, <1>5, <1>6

\* Every step of the manager preserves what is said of the journal,
LEMMA ManagerJournal ==
  ASSUME JournalInv, ManagerStep
  PROVE  JournalInv'
<1> USE DEF JournalInv
<1>0. TypeOK' /\ Next /\ storage' = storage
  BY NextType DEF ManagerStep
<1>1. ASSUME NEW e, Wrote(e), e.op <= sequence', sequence <= sequence'
      PROVE  JournalType'
  <2>1. PICK bound \in Nat : \A f \in Written : f.seq <= bound
    BY DEF JournalType
  <2>2. numbered \in Nat /\ numbered' \in Nat
    BY <1>1 DEF JournalType, Wrote
  <2>3. bound + numbered + 1 \in Nat
    BY <2>1, <2>2
  <2>4. \A f \in Written : f.seq \in Nat /\ f.op \in Ids
    BY DiskType, EntryType
  <2>5. \A f \in Written' : f.seq <= bound + numbered + 1
    BY <1>1, <2>1, <2>2, <2>4 DEF Wrote
  <2>6. \A f \in Written' : f.op <= sequence'
    <3>1. sequence \in Nat /\ sequence' \in Nat
      BY <1>0, BoundsAssumption DEF TypeOK
    <3> QED
      BY <1>1, <2>4, <3>1 DEF Wrote, JournalType, Ids
  <2> QED
    BY <1>0, <1>1, <2>2, <2>3, <2>5, <2>6 DEF JournalType, Wrote
<1>2. ASSUME NEW k \in Keys \cup {NoKey}, NEW d \in BOOLEAN, BeginNew(k, d),
             NEW e, Wrote(e), e.op = sequence + 1
      PROVE  JournalInv'
  <2>1. sequence \in Nat /\ sequence' = sequence + 1 /\ NamesInv' /\ BornInv'
    BY <1>2, BeginNewBorn
  <2>2. e.op <= sequence' /\ sequence <= sequence'
    BY <1>2, <2>1
  <2> QED
    BY <1>0, <1>1, <1>2, <2>1, <2>2
<1>3. CASE Frame /\ Shape
  <2>2. NamesInv' /\ BornInv' /\ sequence' = sequence /\ sequence \in Nat
    BY <1>3, ShapeBorn, BoundsAssumption DEF Frame, TypeOK
  <2>3. ASSUME NEW o \in Ids, Starts(o) \/ \E s \in TerminalStatuses : Ends(o, s)
        PROVE  o <= sequence
    <3>1. op[o].pc # "unborn"
      BY <2>3 DEF Starts, Ends, BornInv
    <3> QED
      BY <2>2, <3>1 DEF BornInv, Ids
  <2>4. UNCHANGED <<disk, pending, numbered>> /\ Written' = Written => JournalInv'
    BY <1>0, <2>2 DEF JournalType
  <2>5. ASSUME NEW o \in Ids, NEW e, Wrote(e), e.op = o,
               Starts(o) \/ \E s \in TerminalStatuses : Ends(o, s)
        PROVE  JournalInv'
    BY <1>0, <1>1, <2>2, <2>3, <2>5
  <2>6. \/ Written' = Written /\ UNCHANGED <<disk, pending, numbered>>
        \/ \E o \in Ids : \E e :
             /\ Wrote(e) /\ e.op = o
             /\ Starts(o) \/ \E s \in TerminalStatuses : Ends(o, s)
        \/ \E k \in Keys \cup {NoKey}, d \in BOOLEAN : \E e :
             BeginNew(k, d) /\ Wrote(e) /\ e.op = sequence + 1
    BY StepWrites
  <2> QED
    BY <1>2, <2>4, <2>5, <2>6
<1>4. CASE ~(Frame /\ Shape)
  <2>1. \E k \in Keys \cup {NoKey}, d \in BOOLEAN : \E e :
          BeginNew(k, d) /\ Wrote(e) /\ e.op = sequence + 1
    BY <1>4, StepWrites
  <2> QED
    BY <1>2, <2>1
<1> QED
  BY <1>3, <1>4

\* as does an append that finishes,
LEMMA PersistJournal ==
  ASSUME JournalInv, NEW e \in pending, Persist(e)
  PROVE  JournalInv' /\ Written' = Written
<1> USE DEF JournalInv
<1>1. /\ UNCHANGED <<vars, storage, numbered>>
      /\ disk' = Append(disk, e) /\ pending' = pending \ {e}
  BY DEF Persist
<1>2. disk \in Seq(JournalEntry) /\ e \in JournalEntry
  BY DEF JournalType
<1>3. /\ DOMAIN disk = 1..Len(disk) /\ Len(disk) \in Nat
      /\ DOMAIN disk' = 1..(Len(disk) + 1)
      /\ disk'[Len(disk) + 1] = e
      /\ \A i \in 1..Len(disk) : disk'[i] = disk[i]
      /\ disk' \in Seq(JournalEntry)
  BY <1>1, <1>2
<1>4. {disk'[i] : i \in DOMAIN disk'} = {disk[i] : i \in DOMAIN disk} \cup {e}
  BY <1>3
<1>5. Written' = Written
  BY <1>1, <1>4 DEF Written
<1>6. JournalType'
  <2>1. sequence' = sequence /\ storage # "memory"
    BY <1>1 DEF JournalType, vars
  <2> QED
    BY <1>1, <1>3, <1>5, <2>1 DEF JournalType
<1>7. TypeOK' /\ NamesInv' /\ BornInv'
  <2>1. UNCHANGED vars
    BY <1>1
  <2> QED
    BY <2>1, NextType DEF vars, NamesInv, BornInv
<1> QED
  BY <1>5, <1>6, <1>7

\* and a restart.
LEMMA CrashJournal ==
  ASSUME JournalInv, CrashAndRestart
  PROVE  JournalInv'
<1> USE DEF JournalInv
<1>1. TypeOK' /\ NamesInv' /\ JournalType'
  BY CrashType
<1>2. BornInv'
  <2> SUFFICES ASSUME NEW o \in Ids
               PROVE  /\ op'[o].pc = "unborn" <=> o > sequence
                      /\ op'[o].pc = "unborn" => slot'[o] = 0
    BY DEF BornInv, CrashAndRestart
  <2>1. CASE o \in Journaled
    <3>1. o <= sequence /\ op'[o].pc = "done"
      BY <2>1, RecoveredType, Hydrated
    <3>2. ~(o > sequence)
      BY <3>1, BoundsAssumption DEF TypeOK, Ids
    <3> QED
      BY <3>1, <3>2
  <2>2. CASE o \notin Journaled
    BY <2>2, Hydrated DEF BornInv
  <2> QED
    BY <2>1, <2>2
<1> QED
  BY <1>1, <1>2

\* What is said of the journal holds at the start.
LEMMA InitJournal == RecoveryInit => JournalInv
<1> SUFFICES ASSUME RecoveryInit PROVE JournalInv
  OBVIOUS
<1>1. TypeOK
  BY BoundsAssumption DEF RecoveryInit, Init, TypeOK, Unborn, Operation, Statuses, Active,
                          NotTold, NoTombstone
<1>2. NamesInv /\ BornInv
  BY BoundsAssumption DEF RecoveryInit, Init, NamesInv, BornInv, Unborn, NoTombstone, Ids
<1>3. Written = {} /\ disk \in Seq(JournalEntry)
  BY DEF RecoveryInit, Written
<1>4. storage \in {"memory", "file"}
  BY RecoveryAssumption DEF RecoveryInit
<1> QED
  BY <1>1, <1>2, <1>3, <1>4 DEF JournalInv, JournalType, RecoveryInit

\* A stuttering step.
LEMMA StillJournal ==
  ASSUME JournalInv, UNCHANGED allVars
  PROVE  JournalInv' /\ Written' = Written
<1> USE DEF JournalInv
<1>1. UNCHANGED vars /\ UNCHANGED <<storage, disk, pending, numbered, ran, crashes>>
  BY DEF allVars, journalVars
<1>2. Written' = Written
  BY <1>1 DEF Written
<1>3. TypeOK' /\ NamesInv' /\ BornInv'
  BY <1>1, NextType DEF vars, NamesInv, BornInv
<1>4. JournalType'
  BY <1>1, <1>2 DEF JournalType, vars
<1> QED
  BY <1>2, <1>3, <1>4

\* What hydrate() restores is over: the end of an operation comes last.
LEMMA RecoveredIsOver ==
  ASSUME JournalType, EndsComeLast, NEW o \in Journaled
  PROVE  RecoveredStatus(o) \in TerminalStatuses
<1>1. CASE OfKind(o, EndKinds) # {}
  <2>1. PICK j \in OfKind(o, EndKinds) : TRUE
    BY <1>1
  <2> DEFINE i == Deciding(o)
  <2>2. /\ i \in Telling(o) /\ j \in Telling(o)
        /\ Position(j) <= Position(i)
    BY <1>1, <2>1, DecidingOf DEF Telling, OfKind
  <2>3. /\ i \in DOMAIN disk /\ disk[i].op = o
        /\ disk[i].kind \in EndKinds \cup {"requested", "started"}
        /\ j \in DOMAIN disk /\ disk[j].op = o /\ disk[j].kind \in EndKinds
    BY <2>1, <2>2 DEF Telling, OfKind, Entries
  <2> HIDE DEF i
  <2>4. /\ disk[i] \in Written /\ disk[j] \in Written
        /\ disk[i].seq \in Nat /\ disk[j].seq \in Nat
        /\ disk[i] \in JournalEntry
    BY <2>3, DiskType, EntryType
  <2>5. disk[j].seq <= disk[i].seq
    BY <2>2, <2>3, LaterNumber
  <2>6. disk[i].kind \in EndKinds
    BY <2>3, <2>4, <2>5 DEF EndsComeLast
  <2>7. StatusOf(disk[i]) \in TerminalStatuses
    BY <2>3, <2>4, <2>6, StatusOfType
  <2> QED
    BY <1>1, <2>7, RecoveredStatusOf DEF i
<1>2. CASE OfKind(o, EndKinds) = {}
  BY <1>2, RecoveredStatusOf DEF TerminalStatuses
<1> QED
  BY <1>1, <1>2

\* What one step can do to one operation, to the store and to the Map.
LEMMA ShapeParts ==
  ASSUME Shape
  PROVE  /\ \A o \in Ids : op'[o] = op[o] \/ Touches(o)
         /\ UNCHANGED tombstone \/ \E o \in Ids : \E s \in TerminalStatuses : Ends(o, s)
         /\ \A o \in Ids : slot[o] = 0 => slot'[o] = 0 \/ \E k \in Keys : Revives(o, k)
<1>1. CASE Stays
  BY <1>1 DEF Stays, OnlyIn, NoEntry
<1>2. ASSUME NEW o \in Ids, Touches(o)
      PROVE  /\ \A p \in Ids : p # o => op'[p] = op[p]
             /\ UNCHANGED tombstone \/ \E s \in TerminalStatuses : Ends(o, s)
             /\ \A p \in Ids : slot[p] = 0
                  => slot'[p] = 0 \/ \E k \in Keys : p = o /\ Revives(o, k)
  <2>1. CASE Starts(o)
    BY <2>1 DEF Starts, OnlyIn, NoEntry
  <2>2. CASE Moves(o)
    BY <2>2 DEF Moves, OnlyIn, NoEntry
  <2>3. ASSUME NEW s \in TerminalStatuses, Ends(o, s)
        PROVE  OnlyIn({o}) /\ NoEntry({})
    BY <2>3 DEF Ends
  <2>4. ASSUME NEW k \in Keys, Revives(o, k)
        PROVE  OnlyIn({o}) /\ NoEntry({o}) /\ UNCHANGED tombstone
    BY <2>4 DEF Revives
  <2> QED
    BY <1>2, <2>1, <2>2, <2>3, <2>4 DEF Touches, OnlyIn, NoEntry
<1>3. CASE \E o \in Ids : Touches(o)
  <2>1. PICK o \in Ids : Touches(o)
    BY <1>3
  <2> QED
    BY <1>2, <2>1
<1> QED
  BY <1>1, <1>3 DEF Shape

\* A step that begins nothing leaves over what is over, where it is reachable
\* and in what the store says.
LEMMA ShapeOver ==
  ASSUME TypeOK, NamesInv, TurnInv, DoneIsOver, NamedIsOver, Frame, Shape
  PROVE  /\ DoneIsOver' /\ NamedIsOver'
         /\ \A o \in Ids : Terminal(o) => Terminal(o)'
<1>1. \A k \in Present : /\ tombstone[k].op \in Ids
                         /\ op[tombstone[k].op].key = k
  <2>1. \A k \in Present : tombstone[k].op \in Ids
    BY DEF TypeOK, Present, Tombstone
  <2>2. 0 \notin Ids
    BY DEF Ids
  <2> QED
    BY <2>1, <2>2 DEF NamesInv, Present
<1>2. \A k \in Keys : k \in Present' <=> k \in Present
  <2>1. CASE UNCHANGED tombstone
    BY <2>1 DEF Present
  <2>2. ASSUME NEW o \in Ids, NEW s \in TerminalStatuses, Ends(o, s)
        PROVE  \A k \in Keys : k \in Present' <=> k \in Present
    <3>1. s \in Statuses /\ UpdateTombstone(op[o].key, s)
      BY <2>2 DEF Statuses, Ends
    <3> QED
      BY <3>1, UpdateTells
  <2> QED
    BY <2>1, <2>2, ShapeParts
<1>3. ASSUME NEW o \in Ids, Reachable(o)' PROVE Reachable(o)
  <2>1. CASE \E k \in Present' : tombstone'[k].op = o
    BY <1>2, <2>1 DEF Reachable, Frame, Present
  <2>2. CASE slot'[o] > 0
    <3>1. slot[o] > 0 \/ \E k \in Keys : Hit(k) /\ tombstone[k].op = o
      <4>1. slot[o] \in Nat
        BY DEF TypeOK
      <4>2. ASSUME NEW k \in Keys, Revives(o, k) PROVE Hit(k) /\ tombstone[k].op = o
        BY <4>2 DEF Revives
      <4>3. slot[o] = 0 => \E k \in Keys : Revives(o, k)
        BY <2>2, ShapeParts
      <4> QED
        BY <4>1, <4>2, <4>3
    <3> QED
      BY <3>1 DEF Reachable, Hit
  <2> QED
    BY <1>3, <2>1, <2>2 DEF Reachable
<1>4. ASSUME NEW o \in Ids, Terminal(o) PROVE Terminal(o)'
  <2>1. CASE op'[o] = op[o]
    BY <1>4, <2>1 DEF Terminal
  <2>2. CASE Touches(o)
    <3>1. ~Starts(o)
      BY <1>4 DEF Starts, TurnInv
    <3>2. CASE Moves(o)
      BY <1>4, <3>2 DEF Moves, Terminal
    <3>3. ASSUME NEW s \in TerminalStatuses, Ends(o, s) PROVE Terminal(o)'
      BY <3>3 DEF Ends, Terminal
    <3>4. ASSUME NEW k \in Keys, Revives(o, k) PROVE Terminal(o)'
      BY <1>4, <3>4 DEF Revives, Hit, NamedIsOver, Terminal
    <3> QED
      BY <2>2, <3>1, <3>2, <3>3, <3>4 DEF Touches
  <2> QED
    BY <2>1, <2>2, ShapeParts
<1>5. DoneIsOver'
  <2> SUFFICES ASSUME NEW o \in Ids, Reachable(o)', op'[o].pc = "done"
               PROVE  Terminal(o)'
    BY DEF DoneIsOver
  <2>1. Reachable(o)
    BY <1>3
  <2>2. op[o].pc = "done" => Terminal(o)'
    BY <1>4, <2>1 DEF DoneIsOver
  <2>3. CASE Touches(o)
    <3>1. ~Starts(o)
      BY DEF Starts
    <3>2. CASE Moves(o)
      BY <1>4, <2>2, <3>2 DEF Moves
    <3>3. ASSUME NEW s \in TerminalStatuses, Ends(o, s) PROVE Terminal(o)'
      BY <3>3 DEF Ends, Terminal
    <3>4. ASSUME NEW k \in Keys, Revives(o, k) PROVE Terminal(o)'
      BY <2>2, <3>4 DEF Revives
    <3> QED
      BY <2>3, <3>1, <3>2, <3>3, <3>4 DEF Touches
  <2>4. CASE op'[o] = op[o]
    BY <2>2, <2>4
  <2> QED
    BY <2>3, <2>4, ShapeParts
<1>6. NamedIsOver'
  <2> SUFFICES ASSUME NEW k \in Present', op'[tombstone'[k].op].status \in TerminalStatuses
               PROVE  tombstone'[k].status \in TerminalStatuses
    BY DEF NamedIsOver, Terminal
  <2> DEFINE p == tombstone[k].op
  <2>1. k \in Keys /\ k \in Present /\ tombstone'[k].op = p /\ p \in Ids /\ op[p].key = k
    BY <1>1, <1>2 DEF Present, Frame
  <2>2. CASE tombstone'[k] = tombstone[k] /\ op'[p].status = op[p].status
    BY <2>1, <2>2 DEF NamedIsOver, Terminal
  <2>3. ASSUME NEW o \in Ids, NEW s \in TerminalStatuses, Ends(o, s)
        PROVE  tombstone'[k].status \in TerminalStatuses
    <3>1. s \in Statuses /\ UpdateTombstone(op[o].key, s)
      BY <2>3 DEF Statuses, Ends
    <3>2. /\ k # op[o].key => tombstone'[k] = tombstone[k]
          /\ k = op[o].key => tombstone'[k].status = s
      BY <2>1, <3>1, UpdateTells
    <3>3. k # op[o].key => op'[p] = op[p]
      BY <2>1, <2>3 DEF Ends, OnlyIn
    <3> QED
      BY <2>2, <3>2, <3>3
  <2>4. CASE UNCHANGED tombstone /\ op'[p].status # op[p].status
    <3>1. Touches(p)
      BY <2>1, <2>4, ShapeParts
    <3>2. ~Starts(p) /\ ~Moves(p)
      BY <2>1, <2>4 DEF Starts, Moves, TerminalStatuses
    <3>3. ASSUME NEW j \in Keys, Revives(p, j)
          PROVE  tombstone'[k].status \in TerminalStatuses
      <4>1. j \in Present /\ tombstone[j].op = p
        BY <3>3 DEF Revives, Hit
      <4>2. j = k
        BY <1>1, <2>1, <4>1
      <4> QED
        BY <2>1, <2>4, <3>3, <4>2 DEF Revives
    <3> QED
      BY <2>1, <2>3, <3>1, <3>2, <3>3 DEF Touches
  <2> QED
    BY <2>1, <2>2, <2>3, <2>4, ShapeParts
<1> QED
  BY <1>4, <1>5, <1>6

\* The begin of a new operation ends none, and names one that is queued.
LEMMA BeginNewOver ==
  ASSUME JournalInv, DoneIsOver, NamedIsOver,
         NEW k \in Keys \cup {NoKey}, NEW d \in BOOLEAN, BeginNew(k, d)
  PROVE  /\ DoneIsOver' /\ NamedIsOver'
         /\ \A o \in 1..sequence : Terminal(o) => Terminal(o)'
<1> DEFINE n == sequence + 1
<1>1. /\ sequence \in Nat /\ n \in Ids /\ sequence' = n
      /\ op'[n].pc = "scheduled" /\ op'[n].status = "queued"
      /\ \A p \in Ids : p # n => op'[p] = op[p] /\ slot'[p] = slot[p]
  BY BeginNewBorn
<1>2. /\ \A j \in Keys : \/ tombstone'[j] = tombstone[j]
                         \/ tombstone'[j] = NoTombstone
                         \/ j = k /\ tombstone'[j].op = n
      /\ TypeOK' /\ "queued" \notin TerminalStatuses
  BY BeginNewNames, NextType DEF JournalInv, Next, Begin, TerminalStatuses
<1>3. ASSUME NEW j \in Present', tombstone'[j].op # n
      PROVE  j \in Present /\ tombstone'[j] = tombstone[j] /\ tombstone[j].op \in Ids
  <2>1. j \in Keys /\ tombstone'[j] # NoTombstone /\ tombstone'[j] = tombstone[j]
    BY <1>2, <1>3 DEF Present
  <2> QED
    BY <2>1 DEF Present, JournalInv, TypeOK, Tombstone
<1>4. DoneIsOver'
  <2> SUFFICES ASSUME NEW o \in Ids, Reachable(o)', op'[o].pc = "done" PROVE Terminal(o)'
    BY DEF DoneIsOver
  <2>1. o # n /\ op'[o] = op[o] /\ slot'[o] = slot[o]
    BY <1>1
  <2>2. Reachable(o)
    BY <1>3, <2>1 DEF Reachable
  <2> QED
    BY <2>1, <2>2 DEF DoneIsOver, Terminal
<1>5. NamedIsOver'
  <2> SUFFICES ASSUME NEW j \in Present', op'[tombstone'[j].op].status \in TerminalStatuses
               PROVE  tombstone'[j].status \in TerminalStatuses
    BY DEF NamedIsOver, Terminal
  <2>1. tombstone'[j].op # n
    BY <1>1, <1>2
  <2> QED
    BY <1>1, <1>3, <2>1 DEF NamedIsOver, Terminal
<1>6. \A o \in 1..sequence : Terminal(o) => Terminal(o)'
  <2> SUFFICES ASSUME NEW o \in 1..sequence PROVE Terminal(o) => Terminal(o)'
    OBVIOUS
  <2>1. o \in Ids /\ o # n
    BY <1>1, BoundsAssumption DEF Ids
  <2>2. op'[o] = op[o]
    BY <1>1, <2>1
  <2> QED
    BY <2>2 DEF Terminal
<1> QED
  BY <1>4, <1>5, <1>6

\* A step of the manager preserves the invariant,
LEMMA ManagerRestores ==
  ASSUME RestoreInv, ~MicrotaskCallers, ManagerStep
  PROVE  RestoreInv'
<1> USE DEF RestoreInv
<1>0. JournalInv' /\ TurnInv' /\ Next
  <2>1. JournalInv' /\ Next
    BY ManagerJournal DEF ManagerStep
  <2>2. Steady
    BY <2>1, NextSteady DEF JournalInv
  <2> QED
    BY <2>1, <2>2 DEF Steady, Turn, TurnInv, Terminal
<1>1. /\ numbered \in Nat
      /\ \A e \in Written : e.seq \in Nat /\ e.op \in 1..sequence
  <2>1. \A e \in Written : e.seq \in Nat /\ e.op \in Ids /\ e.op <= sequence
    BY DiskType, EntryType DEF JournalInv, JournalType
  <2>2. sequence \in Nat
    BY BoundsAssumption DEF JournalInv, TypeOK
  <2> QED
    BY <2>1, <2>2 DEF Ids, JournalInv, JournalType
<1>2. {"requested", "started"} \cap EndKinds = {} /\ 1..sequence \subseteq Ids
  BY BoundsAssumption DEF EndKinds, JournalInv, TypeOK, Ids
<1>3. ASSUME DoneIsOver', NamedIsOver', \A o \in 1..sequence : Terminal(o) => Terminal(o)',
             \/ Written' = Written /\ numbered' = numbered
             \/ \E e : /\ Wrote(e)
                       /\ e.kind \in EndKinds => Terminal(e.op)'
                       /\ e.kind \in {"requested", "started"}
                            => \A f \in Written : f.kind \in EndKinds => f.op # e.op
      PROVE  RestoreInv'
  <2>1. CASE Written' = Written /\ numbered' = numbered
    BY <1>0, <1>1, <1>3, <2>1 DEF Numbered, EndsAreOver, EndsComeLast
  <2>2. ASSUME NEW e, Wrote(e), e.kind \in EndKinds => Terminal(e.op)',
               e.kind \in {"requested", "started"}
                 => \A f \in Written : f.kind \in EndKinds => f.op # e.op
        PROVE  RestoreInv'
    <3>1. Written' = Written \cup {e} /\ e.seq = numbered + 1 /\ numbered' = numbered + 1
      BY <2>2 DEF Wrote
    <3>2. Numbered'
      BY <1>1, <3>1 DEF Numbered
    <3>3. EndsAreOver'
      BY <1>1, <1>3, <2>2, <3>1 DEF EndsAreOver
    <3>4. EndsComeLast'
      BY <1>1, <1>2, <2>2, <3>1 DEF EndsComeLast, Numbered
    <3> QED
      BY <1>0, <1>3, <3>2, <3>3, <3>4
  <2> QED
    BY <1>3, <2>1, <2>2
<1>4. ASSUME NEW k \in Keys \cup {NoKey}, NEW d \in BOOLEAN, BeginNew(k, d),
             NEW e, Wrote(e), e.op = sequence + 1, e.kind = "requested"
      PROVE  RestoreInv'
  <2>1. /\ DoneIsOver' /\ NamedIsOver'
        /\ \A o \in 1..sequence : Terminal(o) => Terminal(o)'
    BY <1>4, BeginNewOver
  <2>2. \A f \in Written : f.op # e.op
    <3>1. sequence \in Nat
      BY BoundsAssumption DEF JournalInv, TypeOK
    <3> QED
      BY <1>1, <1>4, <3>1
  <2>3. e.kind \notin EndKinds
    BY <1>2, <1>4
  <2> HIDE DEF RestoreInv
  <2> QED
    BY <1>3, <1>4, <2>1, <2>2, <2>3
<1>5. CASE Frame /\ Shape
  <2>1. /\ DoneIsOver' /\ NamedIsOver'
        /\ \A o \in 1..sequence : Terminal(o) => Terminal(o)'
    BY <1>2, <1>5, ShapeOver DEF JournalInv
  <2>2. ASSUME NEW o \in Ids, NEW e, Starts(o), Wrote(e), e.op = o, e.kind = "started"
        PROVE  RestoreInv'
    <3>1. ~Terminal(o)
      BY <2>2 DEF Starts, TurnInv
    <3>2. \A f \in Written : f.kind \in EndKinds => f.op # e.op
      BY <2>2, <3>1 DEF EndsAreOver
    <3> QED
      BY <1>2, <1>3, <2>1, <2>2, <3>2
  <2>3. ASSUME NEW o \in Ids, NEW s \in TerminalStatuses, NEW e,
               Ends(o, s), Wrote(e), e.op = o,
               e.kind \in {EventKind(s), "reconciled"}
        PROVE  RestoreInv'
    <3>1. Terminal(e.op)'
      BY <2>3 DEF Ends, Terminal
    <3>2. e.kind \notin {"requested", "started"}
      BY <2>3 DEF EventKind, TerminalStatuses
    <3> QED
      BY <1>3, <2>1, <2>3, <3>1, <3>2
  <2>4. CASE Written' = Written /\ numbered' = numbered
    BY <1>3, <2>1, <2>4
  <2> QED
    BY <1>4, <2>2, <2>3, <2>4, StepWrites
<1>6. CASE ~(Frame /\ Shape)
  BY <1>4, <1>6, StepWrites
<1> QED
  BY <1>5, <1>6

\* and so does a restart that resumes the numbering.
LEMMA CrashRestores ==
  ASSUME RestoreInv, ResumeNumbering, CrashAndRestart
  PROVE  RestoreInv'
<1> USE DEF RestoreInv
<1>1. JournalInv' /\ TypeOK /\ JournalType
  BY CrashJournal DEF JournalInv
<1>2. Written' \subseteq Written /\ Written' = {disk[i] : i \in DOMAIN disk}
  BY DEF Written, CrashAndRestart
<1>3. Numbered' /\ EndsComeLast'
  BY <1>1, <1>2, ResumedNumber DEF Numbered, EndsComeLast
<1>4. ASSUME NEW o \in Journaled PROVE Terminal(o)' /\ o \in Ids
  <2>1. o \in Ids
    BY DEF Journaled
  <2> QED
    BY <1>1, <1>4, <2>1, Hydrated, RecoveredIsOver DEF Terminal
<1>5. EndsAreOver'
  <2> SUFFICES ASSUME NEW i \in DOMAIN disk PROVE op'[disk[i].op].status \in TerminalStatuses
    BY <1>2 DEF EndsAreOver, Terminal
  <2>1. disk[i].op \in Ids
    BY <1>1, DiskType, EntryType
  <2>2. disk[i].op \in Journaled
    BY <2>1 DEF Journaled, Entries
  <2> QED
    BY <1>4, <2>2 DEF Terminal
<1>6. ASSUME NEW k \in Present'
      PROVE  /\ tombstone'[k].op \in Journaled
             /\ tombstone'[k].status = RecoveredStatus(tombstone'[k].op)
  BY <1>1, <1>6, HydratedStore DEF Present
<1>7. NamedIsOver'
  <2> SUFFICES ASSUME NEW k \in Present' PROVE tombstone'[k].status \in TerminalStatuses
    BY DEF NamedIsOver
  <2> QED
    BY <1>1, <1>6, RecoveredIsOver
<1>8. DoneIsOver'
  <2> SUFFICES ASSUME NEW o \in Ids, Reachable(o)' PROVE o \in Journaled
    BY <1>4 DEF DoneIsOver
  <2>1. CASE slot'[o] > 0
    BY <1>1, <2>1, Hydrated
  <2> QED
    BY <1>6, <2>1 DEF Reachable
<1>9. TurnInv'
  <2> SUFFICES ASSUME NEW o \in Ids PROVE op'[o].pc \in {"unborn", "done"}
    BY DEF TurnInv
  <2> QED
    BY <1>1, Hydrated
<1> QED
  BY <1>1, <1>3, <1>5, <1>7, <1>8, <1>9

\* hydrate(): every operation it restores is over, with either storage and
\* whatever the crash cut off, as long as the numbering resumes and callers are
\* tasks: RestoredIsOver.
THEOREM RestoredAreOver ==
  ~MicrotaskCallers /\ ResumeNumbering /\ RecoverySpec => []RestoredIsOver
<1> SUFFICES ASSUME ~MicrotaskCallers, ResumeNumbering PROVE RecoverySpec => []RestoredIsOver
  OBVIOUS
<1>1. RecoveryInit => RestoreInv
  <2> SUFFICES ASSUME RecoveryInit PROVE RestoreInv
    OBVIOUS
  <2>1. JournalInv /\ Written = {} /\ Present = {}
    BY InitJournal DEF RecoveryInit, Init, Written, Present
  <2>2. \A o \in Ids : op[o].pc = "unborn"
    BY DEF RecoveryInit, Init, Unborn
  <2> QED
    BY <2>1, <2>2 DEF RestoreInv, TurnInv, Numbered, EndsAreOver, EndsComeLast,
                      DoneIsOver, NamedIsOver
<1>2. RestoreInv /\ [RecoveryNext]_allVars => RestoreInv'
  <2> SUFFICES ASSUME RestoreInv, [RecoveryNext]_allVars PROVE RestoreInv'
    OBVIOUS
  <2>1. CASE ManagerStep
    BY <2>1, ManagerRestores
  <2>2. CASE CrashAndRestart
    BY <2>2, CrashRestores
  <2>3. ASSUME Written' = Written, JournalInv', UNCHANGED <<vars, numbered>> PROVE RestoreInv'
    BY <2>3 DEF RestoreInv, TurnInv, Numbered, EndsAreOver, EndsComeLast, DoneIsOver,
                NamedIsOver, Reachable, Present, Terminal, vars
  <2>4. ASSUME NEW e \in pending, Persist(e) PROVE RestoreInv'
    BY <2>3, <2>4, PersistJournal DEF RestoreInv, Persist
  <2>5. CASE UNCHANGED allVars
    BY <2>3, <2>5, StillJournal DEF RestoreInv, allVars, journalVars
  <2> QED
    BY <2>1, <2>2, <2>4, <2>5 DEF RecoveryNext
<1>3. RestoreInv => RestoredIsOver
  BY DEF RestoreInv, DoneIsOver, Reachable, RestoredIsOver
<1> QED
  BY <1>1, <1>2, <1>3, PTL DEF RecoverySpec
-----------------------------------------------------------------------------
(* Windows A and B: what the journal says of the runs.  Without test hooks   *)
(* nothing is aborted but by hydrate(), of operations it knows no start of.  *)

\* What is past its dispatch, in a step, either was before or starts in it.
LEMMA RunsWere ==
  ASSUME Shape, NEW o \in Ids, op'[o].pc \in {"run", "ack"}, ~Starts(o)
  PROVE  op[o].pc \in {"run", "ack"}
<1>1. CASE op'[o] = op[o]
  BY <1>1
<1>2. CASE Moves(o)
  BY <1>2 DEF Moves
<1>3. ASSUME NEW s \in TerminalStatuses, Ends(o, s) PROVE op[o].pc \in {"run", "ack"}
  BY <1>3 DEF Ends
<1>4. ASSUME NEW k \in Keys, Revives(o, k) PROVE op[o].pc \in {"run", "ack"}
  BY <1>4 DEF Revives
<1> QED
  BY <1>1, <1>2, <1>3, <1>4, ShapeParts DEF Touches

\* No continuation is left of an operation that is done with its own.
LEMMA DoneStays ==
  ASSUME Shape, NEW o \in Ids, op[o].pc = "done"
  PROVE  op'[o].pc = "done"
<1>1. ~Starts(o)
  BY DEF Starts
<1>2. CASE Moves(o)
  BY <1>2 DEF Moves
<1>3. ASSUME NEW s \in TerminalStatuses, Ends(o, s) PROVE op'[o].pc = "done"
  BY <1>3 DEF Ends
<1>4. ASSUME NEW k \in Keys, Revives(o, k) PROVE op'[o].pc = "done"
  BY <1>4 DEF Revives
<1> QED
  BY <1>1, <1>2, <1>3, <1>4, ShapeParts DEF Touches

\* The operation that starts is the one whose start is written.
LEMMA StartsAreWritten ==
  ASSUME JournalInv, ManagerStep, NEW o \in Ids, Starts(o)
  PROVE  \E e \in Written' : e.op = o /\ e.kind = "started"
<1>1. emits' = <<Event(o, "started", NoKey)>> /\ op[o].pc = "dispatch" /\ op'[o].pc = "run"
  BY DEF Starts
<1>2. ASSUME NEW p, NEW kind, NEW arg, emits' = <<Event(p, kind, arg)>>
      PROVE  p = o /\ kind = "started"
  BY <1>1, <1>2 DEF Event
<1>3. emits' # <<>>
  BY <1>1
<1>4. ASSUME NEW p \in Ids, NEW e, Starts(p), Wrote(e), e.op = p, e.kind = "started"
      PROVE  \E f \in Written' : f.op = o /\ f.kind = "started"
  <2>1. p = o
    BY <1>2, <1>4 DEF Starts
  <2> QED
    BY <1>4, <2>1 DEF Wrote
<1>5. \A s \in TerminalStatuses : EventKind(s) # "started"
  BY DEF EventKind, TerminalStatuses
<1>6. ASSUME NEW k \in Keys \cup {NoKey}, NEW d \in BOOLEAN, BeginNew(k, d) PROVE FALSE
  <2>1. emits' = <<Event(sequence + 1, "requested", k)>>
    BY <1>6 DEF BeginNew
  <2> QED
    BY <1>2, <2>1
<1> QED
  BY <1>2, <1>3, <1>4, <1>5, <1>6, StepWrites

\* A step of the manager leaves every run it has begun in the journal,
LEMMA ManagerRuns ==
  ASSUME JournalInv, RanIsWritten, ManagerStep
  PROVE  RanIsWritten'
<1> SUFFICES ASSUME NEW o \in Ids, o \in ran' \/ op'[o].pc \in {"run", "ack"}
             PROVE  \E e \in Written' : e.op = o /\ e.kind = "started"
  BY DEF RanIsWritten
<1>1. Written \subseteq Written'
  BY StepWrites DEF Wrote
<1>2. o \in ran \/ op'[o].pc \in {"run", "ack"}
  BY DEF ManagerStep
<1>3. CASE o \in ran \/ op[o].pc \in {"run", "ack"}
  BY <1>1, <1>3 DEF RanIsWritten
<1>4. CASE Shape
  BY <1>2, <1>3, <1>4, RunsWere, StartsAreWritten
<1>5. ASSUME NEW k \in Keys \cup {NoKey}, NEW d \in BOOLEAN, BeginNew(k, d)
      PROVE  o \in ran \/ op[o].pc \in {"run", "ack"}
  BY <1>2, <1>5, BeginNewBorn
<1> QED
  BY <1>3, <1>4, <1>5, StepWrites

\* and a restart of what is in memory loses none.
LEMMA CrashRuns ==
  ASSUME JournalInv, RanIsWritten, storage = "memory", CrashAndRestart
  PROVE  RanIsWritten' /\ Written' = Written
<1>1. TypeOK /\ JournalType
  BY DEF JournalInv
<1>2. Written' = Written /\ ran' = ran
  BY <1>1 DEF Written, CrashAndRestart, JournalType
<1>3. ASSUME NEW o \in Ids PROVE op'[o].pc \notin {"run", "ack"}
  BY <1>1, Hydrated
<1> QED
  BY <1>2, <1>3 DEF RanIsWritten

\* hydrate() gives up what it knows no start of, unless an end says so.
LEMMA RecoveredAborted ==
  ASSUME JournalType, NEW o \in Journaled, RecoveredStatus(o) = "aborted",
         \A i \in DOMAIN disk : disk[i].kind # "aborted"
  PROVE  \A i \in DOMAIN disk : disk[i].op = o => disk[i].kind # "started"
<1>1. ASSUME OfKind(o, EndKinds) # {} PROVE FALSE
  <2> DEFINE i == Deciding(o)
  <2>1. i \in DOMAIN disk /\ disk[i].kind \in EndKinds \cup {"requested", "started"}
    BY <1>1, DecidingOf DEF Telling, OfKind, Entries
  <2>2. disk[i] \in JournalEntry /\ disk[i].kind # "aborted"
    BY <2>1, DiskType
  <2>3. StatusOf(disk[i]) = "aborted"
    BY <1>1, RecoveredStatusOf
  <2> HIDE DEF i
  <2> QED
    BY <2>1, <2>2, <2>3, StatusOfType
<1>2. OfKind(o, {"started"}) = {}
  BY <1>1, RecoveredStatusOf
<1> QED
  BY <1>2 DEF OfKind, Entries

\* Nothing ends as aborted without test hooks.
LEMMA NoneAborts ==
  ASSUME ~TestHooks, NEW o \in Ids, NEW s \in TerminalStatuses, Ends(o, s)
  PROVE  s # "aborted" /\ EventKind(s) # "aborted"
<1>1. "aborted" \notin Resolutions
  BY DEF Resolutions
<1>2. s # "aborted"
  BY <1>1 DEF Ends
<1> QED
  BY <1>2 DEF EventKind

\* What was given up stays unrun, in a step that begins nothing,
LEMMA ShapeAborted ==
  ASSUME JournalInv, AbortedIsDone, ~TestHooks, Frame, Shape,
         ran' = ran \cup {o \in Ids : op'[o].pc = "run"}
  PROVE  /\ \A o \in Ids : op'[o].status = "aborted" => o \notin ran' /\ op'[o].pc = "done"
         /\ \A k \in Present' : tombstone'[k].status = "aborted"
              => tombstone'[k].op \notin ran' /\ op'[tombstone'[k].op].pc = "done"
<1>0. TypeOK
  BY DEF JournalInv
<1>1. ASSUME NEW o \in Ids, op[o].pc = "done", o \notin ran
      PROVE  o \notin ran' /\ op'[o].pc = "done"
  BY <1>1, DoneStays
<1>2. ASSUME NEW o \in Ids, op'[o].status = "aborted"
      PROVE  o \notin ran' /\ op'[o].pc = "done"
  <2>1. CASE op[o].status = "aborted"
    BY <1>1, <2>1 DEF AbortedIsDone
  <2>2. CASE Starts(o)
    BY <1>2, <2>2 DEF Starts
  <2>3. CASE Moves(o)
    BY <1>2, <2>1, <2>3 DEF Moves
  <2>4. ASSUME NEW s \in TerminalStatuses, Ends(o, s) PROVE FALSE
    BY <1>2, <2>4, NoneAborts DEF Ends
  <2>5. ASSUME NEW k \in Keys, Revives(o, k) PROVE o \notin ran' /\ op'[o].pc = "done"
    <3>1. k \in Present /\ tombstone[k].op = o /\ tombstone[k].status = "aborted"
      BY <1>2, <2>5 DEF Revives, Hit
    <3> QED
      BY <1>1, <3>1 DEF AbortedIsDone
  <2> QED
    BY <1>2, <2>1, <2>2, <2>3, <2>4, <2>5, ShapeParts DEF Touches
<1>3. ASSUME NEW k \in Present', tombstone'[k].status = "aborted"
      PROVE  tombstone'[k].op \notin ran' /\ op'[tombstone'[k].op].pc = "done"
  <2>1. ASSUME k \in Present, tombstone'[k] = tombstone[k]
        PROVE  tombstone'[k].op \notin ran' /\ op'[tombstone'[k].op].pc = "done"
    <3>1. tombstone[k].op \in Ids
      BY <1>0, <2>1 DEF TypeOK, Present, Tombstone
    <3> QED
      BY <1>1, <1>3, <2>1, <3>1 DEF AbortedIsDone
  <2>2. CASE UNCHANGED tombstone
    BY <2>1, <2>2 DEF Present
  <2>3. ASSUME NEW o \in Ids, NEW s \in TerminalStatuses, Ends(o, s)
        PROVE  k \in Present /\ tombstone'[k] = tombstone[k]
    <3>1. s \in Statuses /\ UpdateTombstone(op[o].key, s) /\ s # "aborted" /\ k \in Keys
      BY <2>3, NoneAborts DEF Statuses, Ends, Present
    <3> QED
      BY <1>0, <1>3, <3>1, UpdateTells
  <2> QED
    BY <2>1, <2>2, <2>3, ShapeParts
<1> QED
  BY <1>2, <1>3

\* in the begin of a new operation,
LEMMA BeginNewAborted ==
  ASSUME JournalInv, AbortedIsDone,
         NEW k \in Keys \cup {NoKey}, NEW d \in BOOLEAN, BeginNew(k, d),
         ran' = ran \cup {o \in Ids : op'[o].pc = "run"}
  PROVE  /\ \A o \in Ids : op'[o].status = "aborted" => o \notin ran' /\ op'[o].pc = "done"
         /\ \A j \in Present' : tombstone'[j].status = "aborted"
              => tombstone'[j].op \notin ran' /\ op'[tombstone'[j].op].pc = "done"
<1> DEFINE n == sequence + 1
<1>1. /\ n \in Ids /\ op[n].pc = "unborn" /\ op'[n].status = "queued"
      /\ \A p \in Ids : p # n => op'[p] = op[p]
  BY BeginNewBorn
<1>2. \A j \in Keys : tombstone'[j].status = "aborted"
                        => j \in Present /\ tombstone'[j] = tombstone[j]
  <2>1. ASSUME NEW j \in Keys
        PROVE  \/ tombstone'[j] = tombstone[j]
               \/ tombstone'[j].status = "queued"
    BY <2>1 DEF BeginNew, RecordTombstone, NoTombstone
  <2>2. NoTombstone.status = "queued"
    BY DEF NoTombstone
  <2> QED
    BY <2>1, <2>2 DEF Present
<1>3. ASSUME NEW o \in Ids, op[o].pc = "done", o \notin ran
      PROVE  o \notin ran' /\ op'[o].pc = "done"
  BY <1>1, <1>3
<1>4. ASSUME NEW o \in Ids, op'[o].status = "aborted"
      PROVE  o \notin ran' /\ op'[o].pc = "done"
  BY <1>1, <1>3, <1>4 DEF AbortedIsDone
<1>5. ASSUME NEW j \in Present', tombstone'[j].status = "aborted"
      PROVE  tombstone'[j].op \notin ran' /\ op'[tombstone'[j].op].pc = "done"
  <2>1. j \in Present /\ tombstone'[j] = tombstone[j]
    BY <1>2, <1>5 DEF Present
  <2>2. tombstone[j].op \in Ids
    BY <2>1 DEF JournalInv, TypeOK, Present, Tombstone
  <2> QED
    BY <1>3, <1>5, <2>1, <2>2 DEF AbortedIsDone
<1> QED
  BY <1>4, <1>5

\* in any step of the manager,
LEMMA ManagerAborted ==
  ASSUME JournalInv, AbortedIsDone, ~TestHooks, ManagerStep
  PROVE  AbortedIsDone'
<1>1. ran' = ran \cup {o \in Ids : op'[o].pc = "run"}
  BY DEF ManagerStep
<1>2. \A e \in Written' : e.kind # "aborted"
  <2>1. ASSUME NEW e, Wrote(e), e.kind # "aborted" PROVE \A f \in Written' : f.kind # "aborted"
    BY <2>1 DEF Wrote, AbortedIsDone
  <2>2. ASSUME NEW o \in Ids, NEW s \in TerminalStatuses, NEW e, Ends(o, s),
               e.kind = EventKind(s) \/ e.kind = "reconciled"
        PROVE  e.kind # "aborted"
    BY <2>2, NoneAborts
  <2> QED
    BY <2>1, <2>2, StepWrites DEF AbortedIsDone
<1>3. CASE Frame /\ Shape
  BY <1>1, <1>2, <1>3, ShapeAborted DEF AbortedIsDone
<1>4. ASSUME NEW k \in Keys \cup {NoKey}, NEW d \in BOOLEAN, BeginNew(k, d)
      PROVE  AbortedIsDone'
  BY <1>1, <1>2, <1>4, BeginNewAborted DEF AbortedIsDone
<1> QED
  BY <1>3, <1>4, StepWrites

\* and across a restart.
LEMMA CrashAborted ==
  ASSUME JournalInv, RanIsWritten, AbortedIsDone, storage = "memory", CrashAndRestart
  PROVE  AbortedIsDone'
<1>1. TypeOK /\ JournalType
  BY DEF JournalInv
<1>2. Written' = Written /\ Written = {disk[i] : i \in DOMAIN disk} /\ ran' = ran
  BY <1>1, CrashRuns DEF Written, CrashAndRestart, JournalType
<1>3. ASSUME NEW o \in Journaled, RecoveredStatus(o) = "aborted"
      PROVE  o \in Ids /\ o \notin ran' /\ op'[o].pc = "done"
  <2>1. \A i \in DOMAIN disk : disk[i].kind # "aborted"
    BY <1>2 DEF AbortedIsDone
  <2>2. \A i \in DOMAIN disk : disk[i].op = o => disk[i].kind # "started"
    BY <1>1, <1>3, <2>1, RecoveredAborted
  <2>3. o \in Ids
    BY DEF Journaled
  <2>4. op'[o].pc = "done"
    BY <1>1, <2>3, Hydrated
  <2> QED
    BY <1>2, <2>2, <2>3, <2>4 DEF RanIsWritten
<1>4. ASSUME NEW o \in Ids, op'[o].status = "aborted"
      PROVE  o \notin ran' /\ op'[o].pc = "done"
  <2>1. CASE o \in Journaled
    BY <1>1, <1>3, <1>4, <2>1, Hydrated
  <2>2. CASE o \notin Journaled
    BY <1>1, <1>2, <1>4, <2>2, Hydrated DEF AbortedIsDone
  <2> QED
    BY <2>1, <2>2
<1>5. ASSUME NEW k \in Present', tombstone'[k].status = "aborted"
      PROVE  tombstone'[k].op \notin ran' /\ op'[tombstone'[k].op].pc = "done"
  <2>1. /\ tombstone'[k].op \in Journaled
        /\ tombstone'[k].status = RecoveredStatus(tombstone'[k].op)
    BY <1>1, <1>5, HydratedStore DEF Present
  <2> QED
    BY <1>3, <1>5, <2>1
<1> QED
  BY <1>2, <1>4, <1>5 DEF AbortedIsDone

\* ADR 0007, window A: what a restart over a durable journal gives up as never
\* dispatched did not run, whatever the limits and however the new process
\* numbers its entries: AbortedNeverRan.
THEOREM AbortedDidNotRun == ~TestHooks /\ RecoverySpec => []AbortedNeverRan
<1> SUFFICES ASSUME ~TestHooks PROVE RecoverySpec => []AbortedNeverRan
  OBVIOUS
<1>1. RecoveryInit => AbortedInv
  <2> SUFFICES ASSUME RecoveryInit PROVE AbortedInv
    OBVIOUS
  <2>1. JournalInv /\ Written = {} /\ Present = {} /\ ran = {}
    BY InitJournal DEF RecoveryInit, Init, Written, Present
  <2>2. \A o \in Ids : op[o].pc = "unborn" /\ op[o].status = "queued"
    BY DEF RecoveryInit, Init, Unborn
  <2> QED
    BY <2>1, <2>2 DEF AbortedInv, RanIsWritten, AbortedIsDone
<1>2. AbortedInv /\ [RecoveryNext]_allVars => AbortedInv'
  <2> SUFFICES ASSUME AbortedInv, [RecoveryNext]_allVars PROVE AbortedInv'
    OBVIOUS
  <2>0. ran' \subseteq Ids
    BY DEF AbortedInv, RecoveryNext, ManagerStep, Persist, CrashAndRestart, allVars,
           journalVars
  <2>1. JournalInv
    BY DEF AbortedInv
  <2>2. CASE ManagerStep
    <3>1. storage' = storage
      BY <2>2 DEF ManagerStep
    <3> QED
      BY <2>0, <2>1, <2>2, <3>1, ManagerJournal, ManagerRuns, ManagerAborted DEF AbortedInv
  <2>3. CASE CrashAndRestart
    <3>1. storage' = storage
      BY <2>3 DEF CrashAndRestart
    <3> QED
      BY <2>0, <2>1, <2>3, <3>1, CrashJournal, CrashRuns, CrashAborted DEF AbortedInv
  <2>4. ASSUME Written' = Written, JournalInv', UNCHANGED <<vars, storage, ran>>
        PROVE  AbortedInv'
    BY <2>0, <2>4 DEF AbortedInv, RanIsWritten, AbortedIsDone, Present, vars
  <2>5. ASSUME NEW e \in pending, Persist(e) PROVE AbortedInv'
    BY <2>1, <2>4, <2>5, PersistJournal DEF Persist
  <2>6. CASE UNCHANGED allVars
    BY <2>1, <2>4, <2>6, StillJournal DEF allVars, journalVars
  <2> QED
    BY <2>2, <2>3, <2>5, <2>6 DEF RecoveryNext
<1>3. AbortedInv => AbortedNeverRan
  <2> SUFFICES ASSUME AbortedInv, storage = "memory", NEW o \in ran, slot[o] > 0
               PROVE  op[o].status # "aborted"
    BY DEF AbortedNeverRan
  <2> QED
    BY DEF AbortedInv, AbortedIsDone
<1> QED
  BY <1>1, <1>2, <1>3, PTL DEF RecoverySpec
-----------------------------------------------------------------------------
(* Replays over a durable journal: a restart rebuilds from the requests what *)
(* the store knew of every key, so the promise of the store outlives it.     *)

\* The numbers of the journal grow,
LEMMA ManagerNumbers ==
  ASSUME JournalInv, Numbered, ManagerStep
  PROVE  Numbered'
<1>1. numbered \in Nat /\ \A e \in Written : e.seq \in Nat
  BY DiskType, EntryType DEF JournalInv, JournalType
<1>2. ASSUME NEW e, Wrote(e) PROVE Numbered'
  BY <1>1, <1>2 DEF Numbered, Wrote
<1>3. CASE Written' = Written /\ numbered' = numbered
  BY <1>3 DEF Numbered
<1> QED
  BY <1>2, <1>3, StepWrites

\* and go on after a restart.
LEMMA CrashNumbers ==
  ASSUME JournalInv, ResumeNumbering, CrashAndRestart
  PROVE  Numbered'
<1>1. Written' = {disk[i] : i \in DOMAIN disk}
  BY DEF Written, CrashAndRestart
<1> QED
  BY <1>1, ResumedNumber DEF Numbered, JournalInv

\* What runs was begun.
LEMMA ManagerRan ==
  ASSUME JournalInv, ran \subseteq 1..sequence, ManagerStep
  PROVE  ran' \subseteq 1..sequence'
<1>1. TypeOK' /\ BornInv' /\ sequence \in Nat /\ sequence' \in Nat
  BY ManagerJournal, BoundsAssumption DEF JournalInv, TypeOK
<1>2. sequence <= sequence'
  <2>1. CASE Frame
    BY <1>1, <2>1 DEF Frame
  <2>2. ASSUME NEW k \in Keys \cup {NoKey}, NEW d \in BOOLEAN, BeginNew(k, d)
        PROVE  sequence <= sequence'
    BY <1>1, <2>2, BeginNewBorn
  <2> QED
    BY <2>1, <2>2, StepWrites
<1>3. ASSUME NEW o \in Ids, op'[o].pc = "run" PROVE o \in 1..sequence'
  <2>1. ~(o > sequence')
    BY <1>1, <1>3 DEF BornInv
  <2> QED
    BY <1>1, <2>1, BoundsAssumption DEF Ids
<1>4. ASSUME NEW o \in ran PROVE o \in 1..sequence'
  BY <1>1, <1>2, <1>4
<1> QED
  BY <1>3, <1>4 DEF ManagerStep

\* What a step of the manager leaves of the requests it finds.
LEMMA RequestsKept ==
  ASSUME JournalInv, RequestsInv, Numbered, ManagerStep
  PROVE  RequestsInv'
<1>1. /\ numbered \in Nat /\ sequence \in Nat
      /\ \A e \in Written : e.seq \in Nat /\ e.op \in 1..sequence
  <2>1. \A e \in Written : e.seq \in Nat /\ e.op \in Ids /\ e.op <= sequence
    BY DiskType, EntryType DEF JournalInv, JournalType
  <2>2. sequence \in Nat
    BY BoundsAssumption DEF JournalInv, TypeOK
  <2> QED
    BY <2>1, <2>2 DEF Ids, JournalInv, JournalType
<1>2. 1..sequence \subseteq Ids
  BY BoundsAssumption DEF JournalInv, TypeOK, Ids
<1>3. CASE Frame /\ Shape
  <2>1. /\ sequence' = sequence
        /\ \A o \in 1..sequence : op'[o].key = op[o].key /\ op'[o].created = op[o].created
    BY <1>2, <1>3 DEF Frame
  <2>0. BegunBefore'
    <3>1. now \in Int /\ now' \in Int /\ now <= now'
          /\ \A o \in 1..sequence : op[o].created \in Int
      BY <1>2, <1>3, NextType DEF ManagerStep, JournalInv, TypeOK, Operation, Frame
    <3> QED
      BY <2>1, <3>1 DEF RequestsInv, BegunBefore
  <2>2. CASE Written' = Written
    BY <1>1, <1>3, <2>0, <2>1, <2>2
       DEF RequestsInv, RequestsAreWritten, RequestsTell, RequestsComeFirst
  <2>3. ASSUME NEW o \in Ids, NEW e, Wrote(e), e.op = o, e.kind # "requested"
        PROVE  RequestsInv'
    <3>1. Written' = Written \cup {e} /\ e.seq = numbered + 1
      BY <2>3 DEF Wrote
    <3>2. \A d \in Written : d.seq < e.seq
      BY <1>1, <3>1 DEF Numbered
    <3> QED
      BY <1>1, <2>0, <2>1, <2>3, <3>1, <3>2
         DEF RequestsInv, RequestsAreWritten, RequestsTell, RequestsComeFirst
  <2>4. \A s \in TerminalStatuses : EventKind(s) # "requested"
    BY DEF EventKind, TerminalStatuses
  <2>5. ASSUME NEW k \in Keys \cup {NoKey}, NEW d \in BOOLEAN, BeginNew(k, d) PROVE FALSE
    BY <1>1, <2>1, <2>5 DEF BeginNew
  <2> QED
    BY <2>2, <2>3, <2>4, <2>5, StepWrites
<1>4. ASSUME NEW k \in Keys \cup {NoKey}, NEW d \in BOOLEAN, NEW e, BeginNew(k, d),
             Wrote(e), e.op = sequence + 1, e.kind = "requested", e.arg = k
      PROVE  RequestsInv'
  <2> DEFINE n == sequence + 1
  <2>1. /\ sequence' = n /\ op'[n].key = k /\ op'[n].created = now /\ n \in Ids
        /\ \A p \in Ids : p # n => op'[p] = op[p]
    BY <1>4, BeginNewBorn
  <2>2. Written' = Written \cup {e} /\ e.seq = numbered + 1 /\ e.at = now
    BY <1>4 DEF Wrote
  <2>3. \A d0 \in Written : d0.seq < e.seq /\ d0.op < e.op /\ d0.op \in Ids
    BY <1>1, <1>2, <1>4, <2>2 DEF Numbered
  <2>4. RequestsAreWritten'
    BY <1>1, <1>4, <2>1, <2>2 DEF RequestsInv, RequestsAreWritten
  <2>5. RequestsTell'
    BY <1>1, <1>4, <2>1, <2>2, <2>3 DEF RequestsInv, RequestsTell
  <2>6. RequestsComeFirst'
    BY <1>1, <1>4, <2>2, <2>3 DEF RequestsInv, RequestsComeFirst
  <2>7. BegunBefore'
    <3>1. now' = now /\ now \in Nat
      BY <1>4 DEF BeginNew, JournalInv, TypeOK
    <3> QED
      BY <1>1, <1>2, <2>1, <3>1 DEF RequestsInv, BegunBefore
  <2> QED
    BY <2>4, <2>5, <2>6, <2>7 DEF RequestsInv
<1> QED
  BY <1>3, <1>4, StepWrites

\* In memory hydrate() finds every operation, with its key and its age.
LEMMA RecoveredRequest ==
  ASSUME JournalInv, storage = "memory", RequestsInv, NEW o \in 1..sequence
  PROVE  /\ o \in Journaled
         /\ RecoveredKey(o) = op[o].key /\ RecoveredCreated(o) = op[o].created
         /\ \E i \in Entries(o) : disk[i].kind = "requested"
<1>1. Written = {disk[i] : i \in DOMAIN disk} /\ o \in Ids
  BY BoundsAssumption DEF JournalInv, JournalType, Written, TypeOK, Ids
<1>2. PICK i \in DOMAIN disk : disk[i].op = o /\ disk[i].kind = "requested"
  BY <1>1 DEF RequestsInv, RequestsAreWritten
<1>3. i \in OfKind(o, {"requested"})
  BY <1>2 DEF OfKind, Entries
<1>4. \A j \in OfKind(o, {"requested"}) : /\ disk[j].arg = op[o].key
                                          /\ disk[j].at = op[o].created
  BY <1>1 DEF OfKind, Entries, RequestsInv, RequestsTell
<1>5. RecoveredKey(o) = op[o].key /\ RecoveredCreated(o) = op[o].created
  BY <1>3, <1>4 DEF RecoveredKey, RecoveredCreated
<1>6. o \in Journaled /\ \E j \in Entries(o) : disk[j].kind = "requested"
  BY <1>1, <1>2 DEF Journaled, Entries
<1> QED
  BY <1>5, <1>6

\* It meets them in the order of their numbers.
LEMMA FirstsInOrder ==
  ASSUME JournalInv, storage = "memory", RequestsInv,
         NEW a \in Journaled, NEW b \in Journaled, a < b
  PROVE  ~(Position(First(b)) <= Position(First(a)))
<1> SUFFICES ASSUME Position(First(b)) <= Position(First(a)) PROVE FALSE
  OBVIOUS
<1>1. JournalType /\ a \in 1..sequence
  BY RecoveredType, BoundsAssumption DEF JournalInv, TypeOK, Ids
<1>2. PICK i \in Entries(a) : disk[i].kind = "requested"
  BY <1>1, RecoveredRequest
<1> DEFINE f == First(a)
           g == First(b)
<1>3. /\ f \in Entries(a) /\ Position(f) <= Position(i)
      /\ g \in Entries(b)
  BY <1>1, <1>2, FirstOf
<1>4. /\ f \in DOMAIN disk /\ g \in DOMAIN disk /\ i \in DOMAIN disk
      /\ disk[i].op = a /\ disk[g].op = b
  BY <1>2, <1>3 DEF Entries
<1>5. /\ disk[f].seq \in Nat /\ disk[g].seq \in Nat /\ disk[i].seq \in Nat
      /\ disk[i] \in Written /\ disk[g] \in Written
  BY <1>1, <1>4, DiskType, EntryType
<1>6. disk[i].seq < disk[g].seq
  BY <1>2, <1>4, <1>5 DEF RequestsInv, RequestsComeFirst
<1>7. disk[f].seq <= disk[i].seq /\ disk[g].seq <= disk[f].seq
  BY <1>1, <1>3, <1>4, LaterNumber
<1> HIDE DEF f, g
<1> QED
  BY <1>5, <1>6, <1>7

\* So it restores every request as it was.
LEMMA CrashRequests ==
  ASSUME JournalInv, RequestsInv, storage = "memory", CrashAndRestart
  PROVE  /\ RequestsInv'
         /\ \A o \in 1..sequence :
              /\ o \in Journaled
              /\ op'[o].key = op[o].key /\ op'[o].created = op[o].created
              /\ RecoveredKey(o) = op[o].key /\ RecoveredCreated(o) = op[o].created
<1>1. /\ TypeOK /\ JournalType /\ 1..sequence \subseteq Ids /\ sequence \in Nat
  BY BoundsAssumption DEF JournalInv, TypeOK, Ids
<1>2. Written' = Written /\ sequence' = sequence /\ now' = now
  BY <1>1 DEF Written, CrashAndRestart, JournalType
<1>3. ASSUME NEW o \in 1..sequence
      PROVE  /\ o \in Journaled
             /\ op'[o].key = op[o].key /\ op'[o].created = op[o].created
             /\ RecoveredKey(o) = op[o].key /\ RecoveredCreated(o) = op[o].created
  BY <1>1, <1>2, RecoveredRequest, Hydrated
<1>4. \A e \in Written : e.op \in 1..sequence
  BY <1>1, <1>2, DiskType, EntryType DEF JournalType, Ids
<1>5. RequestsInv'
  BY <1>1, <1>2, <1>3, <1>4
     DEF RequestsInv, RequestsAreWritten, RequestsTell, RequestsComeFirst, BegunBefore
<1> QED
  BY <1>3, <1>5

\* And what the store knew of a key it knows again, but for what is too old by
\* now or overflows: a restart loses no promise.
LEMMA CrashRemembers ==
  ASSUME ReplayInv, storage = "memory", CrashAndRestart
  PROVE  RequestsInv' /\ IdempotencyInv'
<1>1. /\ TypeOK /\ JournalType /\ JournalInv
      /\ RequestsInv
      /\ StoreRemembers /\ AtMostOncePerWindow
  BY DEF ReplayInv, JournalInv, IdempotencyInv
<1>2. /\ Written' = Written /\ sequence' = sequence /\ now' = now
      /\ 1..sequence \subseteq Ids /\ sequence \in Nat
      /\ evicted' = evicted \cup UNION {Named(k) : k \in NamedKeys \ KeptKeys}
  BY <1>1, BoundsAssumption
     DEF Written, CrashAndRestart, JournalType, HydrateStore, TypeOK, Ids
<1>3. ASSUME NEW o \in 1..sequence
      PROVE  /\ o \in Journaled
             /\ op'[o].key = op[o].key /\ op'[o].created = op[o].created
             /\ RecoveredKey(o) = op[o].key /\ RecoveredCreated(o) = op[o].created
  BY <1>1, <1>3, CrashRequests
<1>5. RequestsInv'
  BY <1>1, CrashRequests
<1>6. TypeOK'
  BY <1>1, CrashJournal DEF JournalInv
<1>7. AtMostOncePerWindow'
  BY <1>1, <1>2, <1>3 DEF AtMostOncePerWindow
<1>8. ASSUME NEW a \in 1..sequence, op[a].key # NoKey, a \notin evicted',
             ~(now - op[a].created > Retention)
      PROVE  Remembered(a)'
  <2> DEFINE k == op[a].key
  <2>1. k \in Keys /\ a \in Ids
    BY <1>1, <1>2, <1>8 DEF TypeOK, Operation
  <2>2. a \in Named(k)
    <3>1. now \in Int /\ op[a].created \in Int /\ Retention \in Int
      BY <1>1, <2>1, CapacityAssumption DEF TypeOK, Operation
    <3>2. now - op[a].created <= Retention
      BY <1>8, <3>1
    <3> QED
      BY <1>3, <3>2 DEF Named
  <2>3. k \in KeptKeys
    BY <1>2, <1>8, <2>1, <2>2 DEF NamedKeys
  <2> DEFINE b == LastNamed(k)
  <2>4. /\ tombstone'[k].op = b /\ tombstone'[k].created = RecoveredCreated(b)
        /\ b \in Named(k) /\ b \in Journaled /\ RecoveredKey(b) = k
    BY <1>1, <2>1, <2>3, HydratedStore
  <2>5. b \in 1..sequence /\ op[b].key = k /\ op[b].created = RecoveredCreated(b)
    <3>1. b \in Ids /\ b <= sequence
      BY <1>1, <2>4, RecoveredType
    <3> HIDE DEF b
    <3>2. b \in 1..sequence
      BY <1>2, <3>1 DEF Ids
    <3> QED
      BY <1>3, <2>4, <3>2
  <2>6. Position(First(a)) <= Position(First(b))
    BY <1>1, <2>2, NamedOf
  <2>7. ~(b < a)
    BY <1>1, <1>3, <2>4, <2>6, FirstsInOrder
  <2>8. ~(a < b)
    <3>2. a < b => a \in evicted \/ op[b].created - op[a].created > Retention
      BY <1>1, <1>8, <2>5 DEF AtMostOncePerWindow
    <3>3. a \notin evicted
      BY <1>2, <1>8
    <3>4. /\ op[b].created \in Nat /\ now \in Nat /\ op[a].created \in Nat
          /\ Retention \in Nat /\ op[b].created <= now
      BY <1>1, <1>2, <2>1, <2>5, CapacityAssumption
         DEF TypeOK, Operation, RequestsInv, BegunBefore
    <3> QED
      BY <1>8, <3>2, <3>3, <3>4
  <2>9. a = b
    <3>1. a \in Int /\ b \in Int
      BY <2>5
    <3> HIDE DEF b
    <3> QED
      BY <2>7, <2>8, <3>1
  <2> QED
    BY <1>3, <2>4, <2>5, <2>9 DEF Remembered
<1>9. StoreRemembers'
  BY <1>2, <1>3, <1>8 DEF StoreRemembers
<1> QED
  BY <1>5, <1>6, <1>7, <1>9 DEF IdempotencyInv

\* The restarts and what the manager does between them keep what is known of
\* the requests.
LEMMA ReplayInvariant == ResumeNumbering /\ RecoverySpec => []ReplayInv
<1> SUFFICES ASSUME ResumeNumbering PROVE RecoverySpec => []ReplayInv
  OBVIOUS
<1>1. RecoveryInit => ReplayInv
  <2> SUFFICES ASSUME RecoveryInit PROVE ReplayInv
    OBVIOUS
  <2>1. JournalInv /\ Written = {} /\ ran = {} /\ 1..sequence = {}
    BY InitJournal DEF RecoveryInit, Init, Written
  <2> QED
    BY <2>1 DEF ReplayInv, Numbered, RequestsInv, RequestsAreWritten, RequestsTell,
                RequestsComeFirst, BegunBefore, IdempotencyInv, StoreRemembers,
                AtMostOncePerWindow, JournalInv
<1>2. ReplayInv /\ [RecoveryNext]_allVars => ReplayInv'
  <2> SUFFICES ASSUME ReplayInv, [RecoveryNext]_allVars PROVE ReplayInv'
    OBVIOUS
  <2>1. JournalInv /\ Numbered
    BY DEF ReplayInv
  <2>2. CASE ManagerStep
    <3>1. JournalInv' /\ storage' = storage /\ [Next]_vars /\ TypeOK'
      BY <2>1, <2>2, ManagerJournal DEF ManagerStep, JournalInv
    <3>2. Numbered'
      BY <2>1, <2>2, ManagerNumbers
    <3>3. ran' \subseteq 1..sequence'
      BY <2>2, <3>1, ManagerRan DEF ReplayInv
    <3>4. storage = "memory" => RequestsInv'
      BY <2>1, <2>2, RequestsKept DEF ReplayInv
    <3>5. storage = "memory" => IdempotencyInv'
      <4>1. ASSUME IdempotencyInv, NEW k \in Keys \cup {NoKey}, NEW d \in BOOLEAN,
                   BeginNew(k, d)
            PROVE  IdempotencyInv'
        BY <3>1, <4>1, BeginNewPreserves
      <4>2. ASSUME IdempotencyInv, ~ \E k \in Keys \cup {NoKey}, d \in BOOLEAN : BeginNew(k, d)
            PROVE  IdempotencyInv'
        BY <3>1, <4>2, NextFrame, FramePreserves DEF IdempotencyInv
      <4> QED
        BY <4>1, <4>2 DEF ReplayInv
    <3> QED
      BY <3>1, <3>2, <3>3, <3>4, <3>5 DEF ReplayInv
  <2>3. CASE CrashAndRestart
    <3>1. JournalInv' /\ storage' = storage /\ sequence' = sequence /\ ran' = ran
      BY <2>1, <2>3, CrashJournal DEF CrashAndRestart
    <3>2. Numbered'
      BY <2>1, <2>3, CrashNumbers
    <3> QED
      BY <2>3, <3>1, <3>2, CrashRemembers DEF ReplayInv
  <2>4. ASSUME Written' = Written, JournalInv', UNCHANGED <<vars, storage, ran, numbered>>
        PROVE  ReplayInv'
    <3>1. RequestsInv => RequestsInv'
      BY <2>4 DEF RequestsInv, RequestsAreWritten, RequestsTell, RequestsComeFirst,
                  BegunBefore, vars
    <3>2. IdempotencyInv => IdempotencyInv'
      BY <2>4 DEF IdempotencyInv, StoreRemembers, Remembered, AtMostOncePerWindow, vars,
                  JournalInv
    <3> QED
      BY <2>4, <3>1, <3>2 DEF ReplayInv, Numbered, vars
  <2>5. ASSUME NEW e \in pending, Persist(e) PROVE ReplayInv'
    BY <2>1, <2>4, <2>5, PersistJournal DEF Persist
  <2>6. CASE UNCHANGED allVars
    BY <2>1, <2>4, <2>6, StillJournal DEF allVars, journalVars
  <2> QED
    BY <2>2, <2>3, <2>5, <2>6 DEF RecoveryNext
<1> QED
  BY <1>1, <1>2, PTL DEF RecoverySpec

\* ADR 0007 over a durable journal: however often the process dies, two
\* operations with one key begin, and both run, only if the store's limits,
\* capacity and retention, separate them: AtMostOncePerWindow, NoSilentReplay.
THEOREM IdempotencySurvives ==
  ResumeNumbering /\ RecoverySpec
    => [](storage = "memory" => AtMostOncePerWindow /\ NoSilentReplay)
<1>1. ReplayInv => (storage = "memory" => AtMostOncePerWindow /\ NoSilentReplay)
  BY DEF ReplayInv, IdempotencyInv, AtMostOncePerWindow, NoSilentReplay
<1> QED
  BY <1>1, ReplayInvariant, PTL

\* The types of the journal and of what the restarts rebuild: every entry has
\* a number given out before.
THEOREM RecoveryTypeCorrect == ResumeNumbering /\ RecoverySpec => []RecoveryTypeOK
<1> DEFINE Bounded == crashes \in 0..MaxCrashes
<1>1. RecoveryInit => Bounded
  BY RecoveryAssumption DEF RecoveryInit
<1>2. Bounded /\ [RecoveryNext]_allVars => Bounded'
  BY RecoveryAssumption
     DEF RecoveryNext, ManagerStep, Persist, CrashAndRestart, allVars, journalVars
<1>3. ReplayInv /\ Bounded => RecoveryTypeOK
  <2> SUFFICES ASSUME ReplayInv, crashes \in 0..MaxCrashes PROVE RecoveryTypeOK
    OBVIOUS
  <2>1. TypeOK /\ JournalType /\ Numbered /\ numbered \in Nat
    BY DEF ReplayInv, JournalInv, JournalType
  <2>2. ASSUME NEW i \in DOMAIN disk PROVE disk[i].op \in Ids /\ disk[i].seq \in 1..numbered
    <3>1. /\ disk[i].op \in Ids /\ disk[i].seq \in Nat /\ disk[i].seq > 0
          /\ disk[i] \in Written
      BY <2>1, DiskType, EntryType
    <3> QED
      BY <2>1, <3>1 DEF Numbered
  <2>3. ran \subseteq Ids
    BY <2>1, BoundsAssumption DEF ReplayInv, TypeOK, Ids
  <2> QED
    BY <2>1, <2>2, <2>3 DEF RecoveryTypeOK
<1> HIDE DEF Bounded
<1> QED
  BY <1>1, <1>2, <1>3, ReplayInvariant, PTL DEF RecoverySpec

-----------------------------------------------------------------------------
(* Window C over a durable journal: the end an operation reached is the one  *)
(* the journal answers with, whatever it wrote of it.                        *)

\* In a Map that cannot fill up no operation is rebuilt from its tombstone.
LEMMA NothingRevives ==
  ASSUME TypeOK, KeptInv, StoreAge, NEW o \in Ids, NEW k \in Keys
  PROVE  ~Revives(o, k)
<1> SUFFICES ASSUME Revives(o, k) PROVE FALSE
  OBVIOUS
<1>1. k \in Present /\ ~Expired(k) /\ tombstone[k].op = o /\ slot[o] = 0
  BY DEF Revives, Hit
<1>2. tombstone[k].op # 0
  BY <1>1, BoundsAssumption DEF Ids
<1> QED
  BY <1>1, <1>2 DEF StoreAge, KeptInv, Expired

\* An end is no accident: what is over stays as it is, but for an operator.
LEMMA EndsAreFinal ==
  ASSUME TurnInv, NEW o \in Ids, NEW s \in TerminalStatuses, Ends(o, s), Terminal(o)
  PROVE  /\ op[o].status \in Reconcilable
         /\ s \in Resolutions /\ op'[o].status = s
  BY DEF Ends, TurnInv

\* So it is in every step of the manager.
LEMMA ShapeFinal ==
  ASSUME TypeOK, TurnInv, KeptInv, StoreAge, Shape, NEW o \in Ids, Terminal(o)
  PROVE  \/ op'[o].status = op[o].status
         \/ op[o].status \in Reconcilable /\ op'[o].status \in Resolutions
<1>1. ~Starts(o)
  BY DEF Starts, TurnInv
<1>2. CASE Moves(o)
  BY <1>2 DEF Moves
<1>3. ASSUME NEW s \in TerminalStatuses, Ends(o, s)
      PROVE  op[o].status \in Reconcilable /\ op'[o].status \in Resolutions
  BY <1>3, EndsAreFinal
<1>4. \A k \in Keys : ~Revives(o, k)
  BY NothingRevives
<1> QED
  BY <1>1, <1>2, <1>3, <1>4, ShapeParts DEF Touches

\* The entry a durable journal gains is the last of the file.
LEMMA Appended ==
  ASSUME JournalType, storage = "memory", NEW e, Wrote(e)
  PROVE  /\ DOMAIN disk' = DOMAIN disk \cup {Len(disk) + 1}
         /\ Len(disk) + 1 \notin DOMAIN disk
         /\ disk'[Len(disk) + 1] = e
         /\ \A i \in DOMAIN disk : disk'[i] = disk[i]
<1>1. disk \in Seq(JournalEntry) /\ e \in JournalEntry /\ disk' = Append(disk, e)
  BY DEF JournalType, Wrote
<1> QED
  BY <1>1

\* What the journal says of an operation stays while it writes of others,
LEMMA AnswerStays ==
  ASSUME JournalType, storage = "memory", NEW o, NEW e, Wrote(e), e.op # o,
         op'[o].status = op[o].status, Unanswered(o) \/ Answered(o)
  PROVE  Unanswered(o)' \/ Answered(o)'
<1>1. Written' = Written \cup {e}
  BY DEF Wrote
<1>2. CASE Unanswered(o)
  <2>1. Unanswered(o)'
    BY <1>1, <1>2 DEF Unanswered
  <2> QED
    BY <2>1
<1>3. CASE Answered(o)
  <2>1. PICK i \in DOMAIN disk :
          /\ disk[i].op = o /\ disk[i].kind \in EndKinds
          /\ StatusOf(disk[i]) = op[o].status
          /\ \A j \in DOMAIN disk : disk[j].op = o /\ j # i => disk[j].seq < disk[i].seq
    BY <1>3 DEF Answered
  <2>2. i \in DOMAIN disk' /\ disk'[i] = disk[i]
    BY Appended
  <2>3. \A j \in DOMAIN disk' : disk'[j].op = o => j \in DOMAIN disk /\ disk'[j] = disk[j]
    BY Appended
  <2>4. \A j \in DOMAIN disk' : disk'[j].op = o /\ j # i => disk'[j].seq < disk'[i].seq
    BY <2>1, <2>2, <2>3
  <2> QED
    BY <2>1, <2>2, <2>4 DEF Answered
<1> QED
  BY <1>2, <1>3

\* and an end it writes is its last word.
LEMMA EndAnswers ==
  ASSUME JournalInv, TurnInv, Numbered, EndsAreOver, RanIsWritten, storage = "memory",
         NEW o \in Ids, NEW s \in TerminalStatuses, NEW e,
               Ends(o, s), Wrote(e), e.op = o,
         \/ e.kind = EventKind(s) /\ emits' = <<Event(o, EventKind(s), NoKey)>>
         \/ /\ e.kind = "reconciled" /\ e.arg = s
            /\ emits' = <<Event(o, "reconciled", s)>>
  PROVE  Unanswered(o)' \/ Answered(o)'
<1>1. op'[o].status = s /\ Written' = Written \cup {e} /\ e.seq = numbered + 1
  BY DEF Ends, Wrote
<1>2. /\ numbered \in Nat /\ JournalType
      /\ \A i \in DOMAIN disk : disk[i].seq \in Nat /\ disk[i].seq <= numbered
  BY DiskType, EntryType DEF JournalInv, JournalType, Numbered
<1>3. ASSUME e.kind \in EndKinds, StatusOf(e) = s PROVE Answered(o)'
  <2> DEFINE i == Len(disk) + 1
  <2>1. i \in DOMAIN disk' /\ disk'[i] = e
    BY <1>2, Appended
  <2>2. \A j \in DOMAIN disk' : j # i => disk'[j].seq < disk'[i].seq
    BY <1>1, <1>2, <2>1, Appended
  <2> HIDE DEF i
  <2> QED
    BY <1>1, <1>3, <2>1, <2>2 DEF Answered
<1>4. CASE e.kind = "reconciled"
  <2>1. e.arg = s
    <3>1. \A r \in TerminalStatuses : EventKind(r) # "reconciled"
      BY DEF EventKind, TerminalStatuses
    <3> QED
      BY <1>4, <3>1
  <2>2. e.kind \in EndKinds /\ StatusOf(e) = s
    BY <1>4, <2>1 DEF EndKinds, StatusOf
  <2> QED
    BY <1>3, <2>2
<1>5. CASE e.kind # "reconciled"
  <2>1. e.kind = EventKind(s) /\ emits' = <<Event(o, EventKind(s), NoKey)>>
    BY <1>5
  <2>2. /\ s # "uncertain"
        /\ s = "requires_reconciliation" => op[o].pc = "ack"
    <3>1. emits'[1].kind # "reconciled"
      BY <1>5, <2>1 DEF Event
    <3>2. emits' # <<Event(o, "reconciled", s)>>
      BY <3>1 DEF Event
    <3> QED
      BY <3>2 DEF Ends
  <2>3. CASE s = "requires_reconciliation"
    <3>1. e.kind = "uncertain" /\ "uncertain" \notin EndKinds
      BY <2>1, <2>3 DEF EventKind, EndKinds
    <3>2. \A f \in Written : f.op = o => f.kind \notin EndKinds
      BY <2>2, <2>3 DEF TurnInv, EndsAreOver
    <3>3. \E f \in Written : f.op = o /\ f.kind = "started"
      BY <2>2, <2>3 DEF RanIsWritten
    <3>4. Unanswered(o)'
      BY <1>1, <2>3, <3>1, <3>2, <3>3 DEF Unanswered
    <3> QED
      BY <3>4
  <2>4. CASE s # "requires_reconciliation"
    <3>1. e.kind = s /\ s \in TerminalStatuses \ {"requires_reconciliation", "uncertain"}
      <4>1. EventKind(s) = s
        BY <2>4 DEF EventKind
      <4> QED
        BY <2>1, <2>2, <2>4, <4>1
    <3>2. s \in EndKinds /\ s \notin {"requested", "started", "reconciled"}
      BY <3>1 DEF TerminalStatuses, EndKinds
    <3> QED
      BY <1>3, <3>1, <3>2 DEF StatusOf
  <2> QED
    BY <2>3, <2>4
<1> QED
  BY <1>4, <1>5

\* Every step of the manager keeps the answers of the journal true,
LEMMA ManagerAnswers ==
  ASSUME SurviveInv, storage = "memory", ManagerStep
  PROVE  Answers'
<1>1. /\ JournalInv /\ JournalType /\ TypeOK /\ TurnInv /\ Numbered /\ EndsAreOver
      /\ RanIsWritten /\ KeptInv /\ StoreAge /\ Answers
      /\ 1..sequence \subseteq Ids /\ sequence \in Nat
  BY BoundsAssumption DEF SurviveInv, RestoreInv, JournalInv, Ages, TypeOK, Ids
<1>2. ASSUME Frame, Shape, NEW o \in 1..sequence, Terminal(o)', ~Starts(o),
             \A s \in TerminalStatuses : ~Ends(o, s)
      PROVE  op'[o].status = op[o].status /\ Terminal(o)
  <2>1. \A k \in Keys : ~Revives(o, k)
    BY <1>1, NothingRevives
  <2>2. op'[o] = op[o] \/ Moves(o)
    BY <1>1, <1>2, <2>1, ShapeParts DEF Touches
  <2>3. "cancelling" \notin TerminalStatuses
    BY DEF TerminalStatuses
  <2> QED
    BY <1>2, <2>2, <2>3 DEF Moves, Terminal
<1>3. ASSUME Frame, Shape, NEW o \in 1..sequence, Terminal(o)'
      PROVE  Unanswered(o)' \/ Answered(o)'
  <2>1. ~Starts(o)
    BY <1>3 DEF Starts, Terminal, TerminalStatuses
  <2>2. ASSUME emits' = <<>>, UNCHANGED <<disk, pending, numbered>>, Written' = Written
        PROVE  Unanswered(o)' \/ Answered(o)'
    <3>1. \A s \in TerminalStatuses : ~Ends(o, s)
      BY <2>2 DEF Ends
    <3>2. op'[o].status = op[o].status /\ (Unanswered(o) \/ Answered(o))
      BY <1>1, <1>2, <1>3, <2>1, <3>1 DEF Answers
    <3> QED
      BY <2>2, <3>2 DEF Unanswered, Answered
  <2>3. ASSUME NEW p \in Ids, NEW e, Wrote(e), e.op = p, p # o, OnlyIn({p})
        PROVE  Unanswered(o)' \/ Answered(o)'
    <3>1. op'[o] = op[o]
      BY <1>1, <2>3 DEF OnlyIn
    <3> QED
      BY <1>1, <1>3, <2>3, <3>1, AnswerStays DEF Answers, Terminal
  <2>4. ASSUME NEW p \in Ids, NEW e, Starts(p), Wrote(e), e.op = p
        PROVE  Unanswered(o)' \/ Answered(o)'
    <3>1. p # o /\ OnlyIn({p})
      BY <2>1, <2>4 DEF Starts
    <3> QED
      BY <2>3, <2>4, <3>1
  <2>5. ASSUME NEW p \in Ids, NEW s \in TerminalStatuses, NEW e,
               Ends(p, s), Wrote(e), e.op = p,
               \/ e.kind = EventKind(s) /\ emits' = <<Event(p, EventKind(s), NoKey)>>
               \/ /\ e.kind = "reconciled" /\ e.arg = s
                  /\ emits' = <<Event(p, "reconciled", s)>>
        PROVE  Unanswered(o)' \/ Answered(o)'
    <3>1. OnlyIn({p})
      BY <2>5 DEF Ends
    <3>2. CASE p = o
      BY <1>1, <2>5, <3>2, EndAnswers
    <3> QED
      BY <2>3, <2>5, <3>1, <3>2
  <2>6. ASSUME NEW k \in Keys \cup {NoKey}, NEW d \in BOOLEAN, BeginNew(k, d) PROVE FALSE
    BY <1>1, <1>3, <2>6 DEF BeginNew, Frame
  <2> QED
    BY <1>1, <2>2, <2>4, <2>5, <2>6, StepWrites
<1>4. ASSUME NEW k \in Keys \cup {NoKey}, NEW d \in BOOLEAN, NEW e, BeginNew(k, d),
             Wrote(e), e.op = sequence + 1
      PROVE  Answers'
  <2> DEFINE n == sequence + 1
  <2>1. /\ sequence' = n /\ op'[n].status = "queued"
        /\ \A p \in Ids : p # n => op'[p] = op[p]
    BY <1>1, <1>4, BeginNewBorn
  <2>2. ASSUME NEW o \in 1..n, Terminal(o)' PROVE Unanswered(o)' \/ Answered(o)'
    <3>1. o # n
      BY <2>1, <2>2 DEF Terminal, TerminalStatuses
    <3>2. o \in 1..sequence /\ op'[o] = op[o]
      BY <1>1, <2>1, <3>1
    <3> QED
      BY <1>1, <1>4, <2>2, <3>1, <3>2, AnswerStays DEF Answers, Terminal
  <2> QED
    BY <2>1, <2>2 DEF Answers
<1>5. CASE Frame /\ Shape
  <2>1. sequence' = sequence
    BY <1>5 DEF Frame
  <2> QED
    BY <1>3, <1>5, <2>1 DEF Answers
<1> QED
  BY <1>1, <1>4, <1>5, StepWrites

\* and hydrate() repeats them.
LEMMA RecoveredAnswer ==
  ASSUME JournalInv, storage = "memory", Answers, NEW o \in Journaled, o \in 1..sequence,
         Terminal(o)
  PROVE  RecoveredStatus(o) = op[o].status
<1>1. JournalType /\ Written = {disk[i] : i \in DOMAIN disk}
  BY DEF JournalInv, JournalType, Written
<1>2. CASE Unanswered(o)
  <2>1. OfKind(o, EndKinds) = {}
    BY <1>1, <1>2 DEF Unanswered, OfKind, Entries
  <2>2. OfKind(o, {"started"}) # {} <=> \E e \in Written : e.op = o /\ e.kind = "started"
    BY <1>1 DEF OfKind, Entries
  <2> QED
    BY <1>2, <2>1, <2>2, RecoveredStatusOf DEF Unanswered
<1>3. CASE Answered(o)
  <2>1. PICK i \in DOMAIN disk :
          /\ disk[i].op = o /\ disk[i].kind \in EndKinds
          /\ StatusOf(disk[i]) = op[o].status
          /\ \A j \in DOMAIN disk : disk[j].op = o /\ j # i => disk[j].seq < disk[i].seq
    BY <1>3 DEF Answered
  <2>2. OfKind(o, EndKinds) # {} /\ i \in Telling(o)
    BY <2>1 DEF OfKind, Telling, Entries
  <2> DEFINE d == Deciding(o)
  <2>3. d \in Telling(o) /\ Position(i) <= Position(d)
    BY <1>1, <2>2, DecidingOf
  <2>4. d \in DOMAIN disk /\ disk[d].op = o
    BY <2>3 DEF Telling, OfKind, Entries
  <2> HIDE DEF d
  <2>5. disk[i].seq <= disk[d].seq /\ disk[i].seq \in Nat /\ disk[d].seq \in Nat
    BY <1>1, <2>1, <2>3, <2>4, LaterNumber, DiskType, EntryType
  <2>6. d = i
    BY <2>1, <2>4, <2>5
  <2> QED
    BY <2>1, <2>2, <2>6, RecoveredStatusOf DEF d
<1> QED
  BY <1>2, <1>3 DEF Answers

\* After a restart the journal answers for every operation as hydrate() did.
LEMMA CrashAnswers ==
  ASSUME SurviveInv, storage = "memory", CrashAndRestart
  PROVE  Answers'
<1>1. /\ JournalInv /\ JournalType /\ TypeOK /\ EndsAreOver /\ RequestsInv /\ Answers
      /\ 1..sequence \subseteq Ids
  BY BoundsAssumption DEF SurviveInv, RestoreInv, JournalInv, TypeOK, Ids
<1>2. /\ Written' = Written /\ Written = {disk[i] : i \in DOMAIN disk}
      /\ disk' = disk /\ sequence' = sequence
  BY <1>1 DEF Written, CrashAndRestart, JournalType
<1>3. ASSUME NEW o \in 1..sequence PROVE Unanswered(o)' \/ Answered(o)'
  <2>1. o \in Journaled /\ op'[o].status = RecoveredStatus(o)
    BY <1>1, RecoveredRequest, Hydrated
  <2>2. CASE Terminal(o)
    <3>1. op'[o].status = op[o].status /\ (Unanswered(o) \/ Answered(o))
      BY <1>1, <2>1, <2>2, RecoveredAnswer DEF Answers
    <3> QED
      BY <1>2, <3>1 DEF Unanswered, Answered
  <2>3. CASE ~Terminal(o)
    <3>1. \A e \in Written : e.op = o => e.kind \notin EndKinds
      BY <1>1, <2>3 DEF EndsAreOver
    <3>2. OfKind(o, EndKinds) = {}
      BY <1>2, <3>1 DEF OfKind, Entries
    <3>3. OfKind(o, {"started"}) # {} <=> \E e \in Written : e.op = o /\ e.kind = "started"
      BY <1>2 DEF OfKind, Entries
    <3>4. Unanswered(o)'
      BY <1>2, <2>1, <3>1, <3>2, <3>3, RecoveredStatusOf DEF Unanswered
    <3> QED
      BY <3>4
  <2> QED
    BY <2>2, <2>3
<1> QED
  BY <1>2, <1>3 DEF Answers
\* What is not begun stays pending: an end needs an operation that began.
LEMMA ManagerUnborn ==
  ASSUME JournalInv, UnbornPending, ManagerStep
  PROVE  UnbornPending'
<1>0. TypeOK /\ BornInv /\ NamesInv /\ BornInv'
  BY ManagerJournal DEF JournalInv
<1>1. ASSUME Frame, Shape, NEW o \in Ids, op'[o].pc = "unborn" PROVE ~Terminal(o)'
  <2>1. op[o].pc = "unborn" /\ slot[o] = 0 /\ o > sequence /\ ~Terminal(o)
    BY <1>0, <1>1 DEF BornInv, Frame, UnbornPending
  <2>2. CASE op'[o] = op[o]
    BY <2>1, <2>2 DEF Terminal
  <2>3. ~Starts(o) /\ \A s \in TerminalStatuses : ~Ends(o, s)
    BY <2>1 DEF Starts, Ends
  <2>4. CASE Moves(o)
    BY <2>1, <2>4 DEF Moves, Terminal, TerminalStatuses
  <2>5. \A k \in Keys : ~Revives(o, k)
    <3>1. ASSUME NEW k \in Keys, tombstone[k].op = o PROVE FALSE
      <4>1. o \in 1..sequence /\ sequence \in Nat
        BY <1>0, <3>1, BoundsAssumption DEF NamesInv, Ids, TypeOK
      <4> QED
        BY <2>1, <4>1
    <3> QED
      BY <3>1 DEF Revives
  <2> QED
    BY <2>2, <2>3, <2>4, <2>5, <1>1, ShapeParts DEF Touches
<1>2. ASSUME NEW k \in Keys \cup {NoKey}, NEW d \in BOOLEAN, BeginNew(k, d)
      PROVE  UnbornPending'
  <2>1. /\ op'[sequence + 1].pc = "scheduled"
        /\ \A p \in Ids : p # sequence + 1 => op'[p] = op[p]
    BY <1>2, BeginNewBorn
  <2> QED
    BY <2>1 DEF UnbornPending, Terminal
<1> QED
  BY <1>1, <1>2, StepWrites DEF UnbornPending

\* A restart begins nothing.
LEMMA CrashUnborn ==
  ASSUME JournalInv, UnbornPending, CrashAndRestart
  PROVE  UnbornPending'
<1>1. ASSUME NEW o \in Ids, op'[o].pc = "unborn" PROVE op'[o].status \notin TerminalStatuses
  <2>1. /\ op[o].pc = "unborn" /\ op'[o].status = op[o].status
    BY <1>1, Hydrated DEF JournalInv
  <2> QED
    BY <2>1 DEF UnbornPending, Terminal
<1> QED
  BY <1>1 DEF UnbornPending, Terminal

\* The manager keeps the ages and the waiters as it does without a journal,
LEMMA ManagerAges ==
  ASSUME Roomy, JournalInv, TurnInv, WaitersPart, Ages, ManagerStep
  PROVE  Ages' /\ WaitersPart'
<1>1. LifecycleInv /\ [Next]_vars /\ TypeOK'
  BY ManagerJournal DEF LifecycleInv, JournalInv, ManagerStep
<1>2. WaitersPart'
  BY <1>1, NextWaiters DEF LifecycleInv
<1>3. ASSUME NEW k \in Keys \cup {NoKey}, NEW d \in BOOLEAN, BeginNew(k, d) PROVE Ages'
  BY <1>1, <1>3, BeginNewLife
<1>4. CASE ~ \E k \in Keys \cup {NoKey}, d \in BOOLEAN : BeginNew(k, d)
  <2>1. TypeOK /\ Frame
    BY <1>1, <1>4, NextFrame DEF LifecycleInv
  <2>2. KeepsLife
    BY <1>1, <1>4, NextLife
  <2>3. \A p \in Ids : Kept(p)
    BY <2>2 DEF KeepsLife
  <2> QED
    BY <1>1, <1>2, <2>1, <2>3, AgesKept
<1> QED
  BY <1>2, <1>3, <1>4

\* and what it writes of an operation it writes no sooner than it began.
LEMMA ManagerLater ==
  ASSUME JournalInv, AgeInv, EntriesAreLater, ManagerStep
  PROVE  EntriesAreLater'
<1>1. /\ now \in Nat /\ \A o \in Ids : op[o].created \in Nat
      /\ \A e \in Written : e.at \in Nat /\ e.op \in Ids /\ e.op <= sequence
      /\ now' \in Nat /\ sequence \in Nat
  <2>1. TypeOK /\ TypeOK' /\ JournalType
    BY ManagerJournal DEF JournalInv
  <2>2. \A o \in Ids : op[o] \in Operation
    BY <2>1 DEF TypeOK
  <2>3. now \in Nat /\ now' \in Nat /\ sequence \in Nat
    BY <2>1, BoundsAssumption DEF TypeOK
  <2>4. \A e \in Written : e.at \in Nat /\ e.op \in Ids /\ e.op <= sequence
    BY <2>1, DiskType, EntryType DEF JournalType
  <2> QED
    BY <2>2, <2>3, <2>4 DEF Operation
<1>2. CASE Frame
  <2>1. now <= now' /\ \A o \in Ids : op'[o].created = op[o].created
    BY <1>2 DEF Frame
  <2>2. CASE Written' = Written
    BY <1>1, <2>1, <2>2 DEF EntriesAreLater
  <2>3. ASSUME NEW o \in Ids, NEW e, Wrote(e), e.op = o PROVE EntriesAreLater'
    <3>1. Written' = Written \cup {e} /\ e.at = now
      BY <2>3 DEF Wrote
    <3> QED
      BY <1>1, <2>1, <2>3, <3>1 DEF EntriesAreLater, AgeInv
  <2>4. ASSUME NEW k \in Keys \cup {NoKey}, NEW d \in BOOLEAN, BeginNew(k, d) PROVE FALSE
    BY <1>1, <1>2, <2>4 DEF BeginNew, Frame
  <2> QED
    BY <2>2, <2>3, <2>4, StepWrites
<1>3. ASSUME NEW k \in Keys \cup {NoKey}, NEW d \in BOOLEAN, NEW e, BeginNew(k, d),
             Wrote(e), e.op = sequence + 1
      PROVE  EntriesAreLater'
  <2>1. /\ op'[sequence + 1].created = now /\ now' = now
        /\ \A p \in Ids : p # sequence + 1 => op'[p] = op[p]
    BY <1>3, BeginNewBorn
  <2>2. Written' = Written \cup {e} /\ e.at = now
    BY <1>3 DEF Wrote
  <2>3. \A f \in Written : f.op # sequence + 1
    BY <1>1
  <2> QED
    BY <1>1, <1>3, <2>1, <2>2, <2>3 DEF EntriesAreLater
<1> QED
  BY <1>2, <1>3, StepWrites

\* A restart over a durable journal leaves every operation in the Map, with
\* its age.
LEMMA CrashAges ==
  ASSUME SurviveInv, storage = "memory", CrashAndRestart
  PROVE  Ages' /\ WaitersPart' /\ EntriesAreLater'
<1>1. /\ JournalInv /\ JournalType /\ TypeOK /\ RequestsInv /\ EntriesAreLater
      /\ AgeInv /\ UnbornPending
      /\ 1..sequence \subseteq Ids /\ sequence \in Nat
      /\ BornInv' /\ TypeOK' /\ UnbornPending'
  <2>1. JournalInv /\ UnbornPending /\ RequestsInv /\ EntriesAreLater /\ AgeInv
    BY DEF SurviveInv, RestoreInv, Ages
  <2>2. TypeOK /\ JournalType /\ TypeOK' /\ BornInv' /\ UnbornPending'
    BY <2>1, CrashJournal, CrashUnborn DEF JournalInv
  <2>3. 1..sequence \subseteq Ids /\ sequence \in Nat
    BY <2>2, BoundsAssumption DEF TypeOK, Ids
  <2> QED
    BY <2>1, <2>2, <2>3
<1>2. /\ Written' = Written /\ Written = {disk[i] : i \in DOMAIN disk}
      /\ sequence' = sequence /\ now' = now /\ waiters' = [o \in Ids |-> {}]
  BY <1>1 DEF Written, CrashAndRestart, JournalType
<1>3. ASSUME NEW o \in 1..sequence
      PROVE  /\ o \in Journaled /\ o \in Ids
             /\ op'[o].created = op[o].created
             /\ op'[o].finished = RecoveredFinished(o)
             /\ RecoveredCreated(o) = op[o].created
  BY <1>1, RecoveredRequest, Hydrated
<1>4. ASSUME NEW o \in Ids PROVE op'[o].created = op[o].created
  <2>1. CASE o \in Journaled
    <3>1. o \in 1..sequence
      BY <1>1, <2>1, RecoveredType DEF Ids
    <3> QED
      BY <1>3, <3>1
  <2>2. CASE o \notin Journaled
    BY <1>1, <2>2, Hydrated
  <2> QED
    BY <2>1, <2>2
<1>5. WaitersPart'
  BY <1>2 DEF WaitersPart, WaitersNotified
<1>6. EntriesAreLater'
  <2>1. \A e \in Written : e.op \in Ids
    BY <1>1, DiskType, EntryType
  <2> QED
    BY <1>1, <1>2, <1>4, <2>1 DEF EntriesAreLater
<1>7. AgeInv'
  <2> SUFFICES ASSUME NEW o \in Ids
               PROVE  /\ op'[o].created <= now
                      /\ Terminal(o)' => op'[o].created <= op'[o].finished
    BY <1>2 DEF AgeInv
  <2>1. op'[o].created <= now
    BY <1>1, <1>4 DEF AgeInv
  <2>2. CASE o \in 1..sequence
    <3>1. op[o].created <= RecoveredFinished(o)
      <4>1. CASE OfKind(o, EndKinds) = {}
        BY <2>1, <1>4, <4>1 DEF RecoveredFinished
      <4>2. CASE OfKind(o, EndKinds) # {}
        <5> DEFINE last == CHOOSE i \in OfKind(o, EndKinds) :
                             \A j \in OfKind(o, EndKinds) : Position(j) <= Position(i)
        <5>1. OfKind(o, EndKinds) \subseteq DOMAIN disk
          BY DEF OfKind, Entries
        <5>2. last \in OfKind(o, EndKinds)
          BY <1>1, <4>2, <5>1, LatestExists
        <5>3. last \in DOMAIN disk /\ disk[last].op = o
          BY <5>2 DEF OfKind, Entries
        <5>4. RecoveredFinished(o) = disk[last].at
          BY <4>2 DEF RecoveredFinished
        <5> HIDE DEF last
        <5> QED
          BY <1>1, <1>2, <5>3, <5>4 DEF EntriesAreLater
      <4> QED
        BY <4>1, <4>2
    <3> QED
      BY <1>3, <1>4, <2>1, <2>2, <3>1
  <2>3. CASE o \notin 1..sequence
    <3>1. o > sequence
      BY <1>1, <2>3, BoundsAssumption DEF Ids
    <3> QED
      BY <1>1, <1>2, <2>1, <3>1 DEF BornInv, UnbornPending
  <2> QED
    BY <2>2, <2>3
<1>8. KeptInv'
  <2> SUFFICES ASSUME NEW o \in 1..sequence PROVE slot'[o] # 0
    BY <1>2 DEF KeptInv
  <2> DEFINE before == {p \in Journaled : Position(First(p)) <= Position(First(o))}
  <2>1. o \in Journaled /\ o \in Ids
    BY <1>3
  <2>2. Position(First(o)) \in Nat
    <3>1. First(o) \in DOMAIN disk
      BY <1>1, <2>1, FirstOf DEF Entries
    <3> QED
      BY <1>1, <3>1, PositionType
  <2>3. o \in before /\ before \subseteq Ids
    BY <2>1, <2>2 DEF Journaled
  <2>4. IsFiniteSet(before)
    <3>1. IsFiniteSet(Ids)
      BY FS_Interval, BoundsAssumption DEF Ids
    <3> HIDE DEF before
    <3> QED
      BY <2>3, <3>1, FS_Subset
  <2>5. Cardinality(before) # 0
    BY <2>3, <2>4, FS_EmptySet
  <2>6. slot'[o] = Cardinality(before)
    BY <2>1 DEF CrashAndRestart, HydrateOperations
  <2> QED
    BY <2>5, <2>6
<1>9. StoreAge'
  <2> SUFFICES ASSUME NEW k \in Keys, tombstone'[k].op # 0
               PROVE  /\ tombstone'[k].op \in 1..sequence
                      /\ tombstone'[k].created = op'[tombstone'[k].op].created
    BY <1>2 DEF StoreAge
  <2> DEFINE b == LastNamed(k)
  <2>1. /\ tombstone'[k].op = b /\ tombstone'[k].created = RecoveredCreated(b)
        /\ b \in Journaled
    BY <1>1, HydratedStore DEF NoTombstone
  <2> HIDE DEF b
  <2>2. b \in Ids /\ b <= sequence
    BY <1>1, <2>1, RecoveredType
  <2>3. b \in 1..sequence
    BY <1>1, <2>2 DEF Ids
  <2> QED
    BY <1>3, <2>1, <2>3
<1> QED
  BY <1>1, <1>5, <1>6, <1>7, <1>8, <1>9 DEF Ages

\* The invariant is kept by every step, which treats what is over as
\* OutcomeSurvives says.
Survives ==
  storage = "memory" => \A o \in Ids : Terminal(o) =>
    \/ op'[o].status = op[o].status
    \/ op[o].status \in Reconcilable /\ op'[o].status \in Resolutions

\* First, in the manager,
LEMMA ManagerSurvives ==
  ASSUME Roomy, ~MicrotaskCallers, SurviveInv, ManagerStep
  PROVE  SurviveInv' /\ Survives
<1>1. /\ JournalInv /\ TypeOK /\ TurnInv /\ Numbered /\ RestoreInv /\ UnbornPending
      /\ storage' = storage
  BY DEF SurviveInv, RestoreInv, JournalInv, ManagerStep
<1>2. RestoreInv' /\ UnbornPending'
  BY <1>1, ManagerRestores, ManagerUnborn
<1>3. ASSUME storage = "memory"
      PROVE  /\ RanIsWritten' /\ RequestsInv' /\ EntriesAreLater'
             /\ WaitersPart' /\ Ages' /\ Answers'
  <2>1. /\ RanIsWritten /\ RequestsInv /\ EntriesAreLater
        /\ WaitersPart /\ Ages /\ AgeInv
    BY <1>3 DEF SurviveInv, Ages
  <2> QED
    BY <1>1, <1>3, <2>1, ManagerRuns, RequestsKept, ManagerLater, ManagerAges, ManagerAnswers
<1>4. Survives
  <2> SUFFICES ASSUME storage = "memory", NEW o \in Ids, Terminal(o)
               PROVE  \/ op'[o].status = op[o].status
                      \/ op[o].status \in Reconcilable /\ op'[o].status \in Resolutions
    BY DEF Survives
  <2>1. KeptInv /\ StoreAge
    BY DEF SurviveInv, Ages
  <2>2. CASE Shape
    BY <1>1, <2>1, <2>2, ShapeFinal
  <2>3. ASSUME NEW k \in Keys \cup {NoKey}, NEW d \in BOOLEAN, BeginNew(k, d)
        PROVE  op'[o].status = op[o].status
    <3>1. /\ op[sequence + 1].pc = "unborn"
          /\ \A p \in Ids : p # sequence + 1 => op'[p] = op[p]
      BY <1>1, <2>3, BeginNewBorn
    <3>2. o # sequence + 1
      BY <1>1, <3>1 DEF UnbornPending
    <3> QED
      BY <3>1, <3>2
  <2> QED
    BY <1>1, <2>2, <2>3, StepWrites
<1> QED
  BY <1>1, <1>2, <1>3, <1>4 DEF SurviveInv

\* then, across a restart.
LEMMA CrashSurvives ==
  ASSUME ResumeNumbering, SurviveInv, CrashAndRestart
  PROVE  SurviveInv' /\ Survives
<1>1. /\ JournalInv /\ TypeOK /\ JournalType /\ RestoreInv /\ UnbornPending /\ BornInv
      /\ storage' = storage
  BY DEF SurviveInv, RestoreInv, JournalInv, CrashAndRestart
<1>2. RestoreInv' /\ UnbornPending'
  BY <1>1, CrashRestores, CrashUnborn
<1>3. ASSUME storage = "memory"
      PROVE  /\ RanIsWritten' /\ RequestsInv' /\ EntriesAreLater'
             /\ WaitersPart' /\ Ages' /\ Answers'
  <2>1. RanIsWritten /\ RequestsInv
    BY <1>3 DEF SurviveInv
  <2> QED
    BY <1>1, <1>3, <2>1, CrashRuns, CrashRequests, CrashAges, CrashAnswers
<1>4. Survives
  <2> SUFFICES ASSUME storage = "memory", NEW o \in Ids, Terminal(o)
               PROVE  op'[o].status = op[o].status
    BY DEF Survives
  <2>1. o \in 1..sequence
    <3>1. ~(o > sequence)
      BY <1>1 DEF BornInv, UnbornPending
    <3> QED
      BY <1>1, <3>1, BoundsAssumption DEF TypeOK, Ids
  <2>2. RequestsInv /\ Answers
    BY DEF SurviveInv
  <2>3. o \in Journaled /\ op'[o].status = RecoveredStatus(o)
    BY <1>1, <2>1, <2>2, RecoveredRequest, Hydrated
  <2> QED
    BY <1>1, <2>1, <2>2, <2>3, RecoveredAnswer
<1> QED
  BY <1>1, <1>2, <1>3, <1>4 DEF SurviveInv

\* Nothing changes where nothing happens.
LEMMA StillSurvives ==
  ASSUME SurviveInv, UNCHANGED allVars
  PROVE  SurviveInv' /\ Survives
<1>1. /\ UNCHANGED <<sequence, op, slot, tombstone, waiters, now>>
      /\ UNCHANGED <<storage, disk, pending, numbered, ran>>
      /\ RestoreInv /\ UnbornPending
  BY DEF allVars, vars, journalVars, SurviveInv
<1>2. JournalInv' /\ Written' = Written
  BY StillJournal DEF SurviveInv, RestoreInv
<1>3. RestoreInv' /\ UnbornPending'
  BY <1>1, <1>2 DEF RestoreInv, TurnInv, Numbered, EndsAreOver, EndsComeLast, DoneIsOver,
                    NamedIsOver, Reachable, Present, Terminal, UnbornPending
<1>4. /\ RanIsWritten => RanIsWritten'
      /\ RequestsInv => RequestsInv'
      /\ EntriesAreLater => EntriesAreLater'
  BY <1>1, <1>2 DEF RanIsWritten, RequestsInv, RequestsAreWritten, RequestsTell,
                    RequestsComeFirst, BegunBefore, EntriesAreLater
<1>5. /\ WaitersPart => WaitersPart'
      /\ Ages => Ages'
  BY <1>1 DEF WaitersPart, WaitersNotified, Terminal, Ages, BornInv, AgeInv, KeptInv, StoreAge
<1>6. Answers => Answers'
  BY <1>1, <1>2 DEF Answers, Answered, Unanswered, Terminal
<1> QED
  BY <1>1, <1>3, <1>4, <1>5, <1>6 DEF SurviveInv, Survives

\* ADR 0007, window C: over a durable journal and with a Map that cannot fill
\* up, no step takes back the end of an operation, not even the death of the
\* process: OutcomeSurvives.
THEOREM OutcomesSurvive ==
  Roomy /\ ~MicrotaskCallers /\ ResumeNumbering /\ RecoverySpec => OutcomeSurvives
<1> SUFFICES ASSUME Roomy, ~MicrotaskCallers, ResumeNumbering
             PROVE  RecoverySpec => OutcomeSurvives
  OBVIOUS
<1>1. RecoveryInit => SurviveInv
  <2> SUFFICES ASSUME RecoveryInit PROVE SurviveInv
    OBVIOUS
  <2>1. JournalInv /\ Written = {} /\ Present = {} /\ ran = {} /\ 1..sequence = {}
    BY InitJournal DEF RecoveryInit, Init, Written, Present
  <2>2. \A o \in Ids : /\ op[o].pc = "unborn" /\ op[o].status = "queued"
                       /\ op[o].created = 0 /\ waiters[o] = {}
    BY DEF RecoveryInit, Init, Unborn
  <2>3. RestoreInv
    BY <2>1, <2>2 DEF RestoreInv, TurnInv, Numbered, EndsAreOver, EndsComeLast,
                      DoneIsOver, NamedIsOver
  <2>4. UnbornPending
    BY <2>2 DEF UnbornPending, Terminal, TerminalStatuses
  <2>5. RanIsWritten /\ RequestsInv /\ EntriesAreLater /\ Answers /\ WaitersPart
    BY <2>1, <2>2 DEF RanIsWritten, RequestsInv, RequestsAreWritten, RequestsTell,
       RequestsComeFirst, BegunBefore, EntriesAreLater, Answers, WaitersPart, WaitersNotified
  <2>6. Ages
    <3>1. now = 0 /\ \A k \in Keys : tombstone[k].op = 0
      BY DEF RecoveryInit, Init, NoTombstone
    <3> QED
      BY <2>1, <2>2, <2>4, <3>1
         DEF Ages, JournalInv, AgeInv, KeptInv, StoreAge, UnbornPending
  <2> QED
    BY <2>3, <2>4, <2>5, <2>6 DEF SurviveInv
<1>2. SurviveInv /\ [RecoveryNext]_allVars => SurviveInv' /\ Survives
  <2> SUFFICES ASSUME SurviveInv, [RecoveryNext]_allVars PROVE SurviveInv' /\ Survives
    OBVIOUS
  <2>1. JournalInv
    BY DEF SurviveInv, RestoreInv
  <2>2. CASE ManagerStep
    BY <2>2, ManagerSurvives
  <2>3. CASE CrashAndRestart
    BY <2>3, CrashSurvives
  <2>4. ASSUME NEW e \in pending, Persist(e) PROVE SurviveInv' /\ Survives
    <3>1. Written' = Written /\ JournalInv' /\ UNCHANGED <<vars, storage, numbered>>
      BY <2>1, <2>4, PersistJournal DEF Persist
    <3>2. storage # "memory"
      BY <2>1, <2>4 DEF JournalInv, JournalType
    <3>3. RestoreInv'
      BY <3>1 DEF SurviveInv, RestoreInv, TurnInv, Numbered, EndsAreOver, EndsComeLast,
                  DoneIsOver, NamedIsOver, Reachable, Present, Terminal, vars
    <3>4. UnbornPending'
      BY <3>1 DEF SurviveInv, UnbornPending, Terminal, vars
    <3> QED
      BY <3>1, <3>2, <3>3, <3>4 DEF SurviveInv, Survives
  <2>5. CASE UNCHANGED allVars
    BY <2>1, <2>5, StillSurvives
  <2> QED
    BY <2>2, <2>3, <2>4, <2>5 DEF RecoveryNext
<1>3. Survives => (storage = "memory" => \A o \in Ids : Terminal(o) =>
                     \/ op'[o].status = op[o].status
                     \/ op[o].status \in Reconcilable /\ op'[o].status \in Resolutions)
  BY DEF Survives
<1> QED
  BY <1>1, <1>2, <1>3, PTL DEF RecoverySpec, OutcomeSurvives

=============================================================================
