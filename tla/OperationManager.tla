--------------------------- MODULE OperationManager ---------------------------
(***************************************************************************)
(* The physical-action lifecycle of OperationManager together with its     *)
(* BoundedIdempotencyStore: begin with dedupe, the two microtasks that     *)
(* dispatch a run, the run's four ways to end, cancellation, the deadline  *)
(* timer, waiters, operator reconciliation, and the retention of both maps.*)
(*                                                                         *)
(* JavaScript is single threaded: one action is the code between two       *)
(* awaits.  pc[o] says which continuation of start() operation o waits     *)
(* for: "scheduled" is the queued microtask, "dispatch" the microtask the  *)
(* await of beforeDispatch costs (with or without a hook), "run" the       *)
(* caller's run() in flight, "ack" the await of afterDispatchBeforeAck.    *)
(***************************************************************************)
EXTENDS Integers, Sequences, FiniteSets

CONSTANTS
  Keys,              \* scoped idempotency keys: device, capability, owner, key
  NoKey,             \* begin() without an idempotency key
  Clients,           \* callers that wait for, or cancel, an operation
  MaxOps,            \* bound: operations begun in a behaviour
  MaxTime,           \* bound: ticks of the wall clock
  MaxOperations,     \* options.maxOperations of the manager
  MaxEntries,        \* options.maxEntries of the idempotency store
  Retention,         \* retentionMs of both maps, in ticks
  MicrotaskCallers,  \* may callers run between the microtasks of start()?
  TestHooks          \* may options.testHooks reject?

ASSUME KeysAssumption == NoKey \notin Keys /\ IsFiniteSet(Keys)
ASSUME BoundsAssumption == MaxOps \in Nat /\ MaxTime \in Nat
ASSUME CapacityAssumption ==
  /\ MaxOperations \in Nat \ {0}
  /\ MaxEntries \in Nat \ {0}
  /\ Retention \in Nat
ASSUME SwitchAssumption == MicrotaskCallers \in BOOLEAN /\ TestHooks \in BOOLEAN

VARIABLES
  sequence,    \* last number given to an operation id
  op,          \* the operation objects, by number
  slot,        \* insertion rank in the operations Map; 0: not in the Map
  insertions,  \* insertions into the operations Map so far
  tombstone,   \* the idempotency store, by key
  lru,         \* rank of a key in the store's Map order; 0: not in the Map
  evicted,     \* operations whose tombstone overflowed out of the store
  waiters,     \* promises registered in the waiters Map, by operation
  told,        \* the last outcome each client was given
  emits,       \* what emit() sent to the listener and journal in this step
  alive,       \* FALSE once an exception reached no handler
  now          \* Date.now(), in ticks

vars == <<sequence, op, slot, insertions, tombstone, lru, evicted, waiters,
          told, emits, alive, now>>

-----------------------------------------------------------------------------
Ids == 1..MaxOps

Active == {"queued", "running", "cancelling"}
TerminalStatuses ==
  {"completed", "failed", "cancelled", "timed_out", "rejected",
   "requires_reconciliation", "uncertain", "aborted", "stop_unconfirmed"}
Statuses == Active \cup TerminalStatuses
Reconcilable == {"requires_reconciliation", "uncertain", "stop_unconfirmed"}

Terminal(o) == op[o].status \in TerminalStatuses

Operation ==
  [status: Statuses, key: Keys \cup {NoKey}, deadline: BOOLEAN,
   aborted: BOOLEAN, created: Nat, finished: Nat,
   pc: {"unborn", "scheduled", "dispatch", "run", "ack", "done"}]

Unborn == [status |-> "queued", key |-> NoKey, deadline |-> FALSE,
           aborted |-> FALSE, created |-> 0, finished |-> 0, pc |-> "unborn"]

Tombstone == [op: Ids, status: Statuses, created: Nat]
NoTombstone == [op |-> 0, status |-> "queued", created |-> 0]

NotTold == [op |-> 0, status |-> "queued"]

Event(o, kind, arg) == [op |-> o, kind |-> kind, arg |-> arg]
\* The journal kind that reports a terminal status.
EventKind(s) == IF s = "requires_reconciliation" THEN "uncertain" ELSE s

InMap == {o \in Ids : slot[o] > 0}

-----------------------------------------------------------------------------
(* The idempotency store.  Its Map iterates in insertion order, which       *)
(* lookup() turns into least-recently-used order by reinserting.            *)

Present == {k \in Keys : tombstone[k] # NoTombstone}
Expired(k) == now - tombstone[k].created > Retention
Hit(k) == k \in Present /\ ~Expired(k)

RankWithout(rank, k) ==
  [j \in Keys |-> IF j = k THEN 0
                  ELSE IF rank[k] > 0 /\ rank[j] > rank[k] THEN rank[j] - 1
                  ELSE rank[j]]
RankLast(rank, k) ==
  LET rest == RankWithout(rank, k)
  IN  [rest EXCEPT ![k] = 1 + Cardinality({j \in Keys : rest[j] > 0})]

\* lookup() of a live tombstone: reinsert it as the most recently used.
TouchTombstone(k) == lru' = RankLast(lru, k)

\* evictOverflow(): the keys that must go once k is stored.
Overflow(k) ==
  IF Cardinality(Present \cup {k}) > MaxEntries
  THEN {j \in Present \ {k} : \A i \in Present \ {k} : lru[j] <= lru[i]}
  ELSE {}

\* recordUnder() of a key lookup() missed; an expired entry is dropped first.
RecordTombstone(k, o) ==
  LET ranked == RankLast(lru, k)
      over   == Overflow(k)
  IN  /\ tombstone' = [j \in Keys |->
           CASE j = k       -> [op |-> o, status |-> "queued", created |-> now]
             [] j \in over  -> NoTombstone
             [] OTHER       -> tombstone[j]]
      /\ lru' = IF over = {} THEN ranked
                ELSE RankWithout(ranked, CHOOSE j \in over : TRUE)
      /\ evicted' = evicted \cup {tombstone[j].op : j \in over}

\* Fault: the store is not told of the end.
UpdateTombstoneNever(k, s) == UNCHANGED tombstone

\* updateUnder(): patch whatever operation the key now names.
UpdateTombstone(k, s) ==
  tombstone' = [j \in Keys |->
    IF j = k /\ j \in Present THEN [tombstone[j] EXCEPT !.status = s]
    ELSE tombstone[j]]

-----------------------------------------------------------------------------
(* retainOperations(): first drop what finished too long ago, then drop     *)
(* terminal operations from the oldest on while the Map is over capacity,   *)
(* stopping at the first one still active.                                  *)

\* Fault: capacity taken as exclusive.
RetainedBelowCapacity(ops) ==
  {o \in InMap :
     \/ ops[o].status \notin TerminalStatuses
     \/ Cardinality({p \in InMap : slot[p] >= slot[o]}) < MaxOperations}

Retained(ops) ==
  LET ended(o) == ops[o].status \in TerminalStatuses
      young == {o \in InMap : ~(ended(o) /\ now - ops[o].finished > Retention)}
      overflow == {o \in young :
        /\ \A p \in young : slot[p] <= slot[o] => ended(p)
        /\ Cardinality({p \in young : slot[p] >= slot[o]}) > MaxOperations}
  IN  young \ overflow

RetainOnly(kept) == slot' = [o \in Ids |-> IF o \in kept THEN slot[o] ELSE 0]

\* The snapshot given to callers.
Tell(cs, o, s) ==
  told' = [c \in Clients |-> IF c \in cs THEN [op |-> o, status |-> s] ELSE told[c]]

(* transition() to a terminal status, emit(), settle().  retainOperations   *)
(* runs inside transition(), so it may delete the very operation settle()   *)
(* is about to look up: settle() then throws and its waiters stay.  cs are  *)
(* the callers handed the snapshot directly; the process survives the       *)
(* exception only where something catches it.                               *)
Finish(o, s, pc, cs, survives) ==
  LET ops  == [op EXCEPT ![o] =
                 [@ EXCEPT !.status = s, !.finished = now, !.pc = pc]]
      kept == Retained(ops)
  IN  /\ op' = ops
      /\ RetainOnly(kept)
      /\ UpdateTombstone(op[o].key, s)
      /\ emits' = <<Event(o, EventKind(s), NoKey)>>
      /\ IF o \in kept
         THEN /\ waiters' = [waiters EXCEPT ![o] = {}]
              /\ Tell(cs \cup waiters[o], o, s)
              /\ UNCHANGED alive
         ELSE /\ alive' = survives
              /\ UNCHANGED <<waiters, told>>
      /\ UNCHANGED <<sequence, insertions, lru, evicted, now>>

-----------------------------------------------------------------------------
(* The event loop: microtasks run to exhaustion before the next task.       *)

TaskTurn == \A o \in Ids : op[o].pc \notin {"scheduled", "dispatch", "ack"}

\* Code that calls the manager is the task itself, so it may find a microtask
\* still queued; only code in a microtask of its own may run between two.
CallerTurn ==
  MicrotaskCallers \/ \A o \in Ids : op[o].pc \notin {"dispatch", "ack"}

-----------------------------------------------------------------------------
(* begin() *)

\* A retry of a known operation returns its handle and touches the store; one
\* that left the Map before its tombstone is rebuilt from there.
BeginKnown(k) ==
  LET o == tombstone[k].op IN
  /\ alive
  /\ CallerTurn
  /\ Hit(k)
  /\ TouchTombstone(k)
  /\ IF slot[o] = 0
     THEN /\ op' = [op EXCEPT ![o] =
                      [@ EXCEPT !.status = tombstone[k].status, !.finished = now]]
          /\ slot' = [slot EXCEPT ![o] = insertions + 1]
          /\ insertions' = insertions + 1
     ELSE UNCHANGED <<op, slot, insertions>>
  /\ emits' = <<>>
  /\ UNCHANGED <<sequence, tombstone, evicted, waiters, told, alive, now>>

\* A new operation: queued, announced, recorded, its microtask scheduled.
BeginNew(k, d) ==
  LET o == sequence + 1 IN
  /\ alive
  /\ CallerTurn
  /\ sequence < MaxOps
  /\ k # NoKey => ~Hit(k)
  /\ sequence' = o
  /\ op' = [op EXCEPT ![o] =
              [status |-> "queued", key |-> k, deadline |-> d,
               aborted |-> FALSE, created |-> now, finished |-> 0,
               pc |-> "scheduled"]]
  /\ slot' = [slot EXCEPT ![o] = insertions + 1]
  /\ insertions' = insertions + 1
  /\ IF k = NoKey THEN UNCHANGED <<tombstone, lru, evicted>>
     ELSE RecordTombstone(k, o)
  /\ emits' = <<Event(o, "requested", k)>>
  /\ UNCHANGED <<waiters, told, alive, now>>

-----------------------------------------------------------------------------
(* start(): the microtask, its await, run() and the acknowledgement *)

\* The microtask gives up on an operation that is already over.
MicrotaskEnds(o) ==
  /\ alive
  /\ op[o].pc = "scheduled"
  /\ Terminal(o)
  /\ op' = [op EXCEPT ![o] = [@ EXCEPT !.pc = "done"]]
  /\ emits' = <<>>
  /\ UNCHANGED <<sequence, slot, insertions, tombstone, lru, evicted, waiters,
                 told, alive, now>>

\* The microtask checks the status, then awaits beforeDispatch.
MicrotaskAwaits(o) ==
  /\ alive
  /\ op[o].pc = "scheduled"
  /\ ~Terminal(o)
  /\ op' = [op EXCEPT ![o] = [@ EXCEPT !.pc = "dispatch"]]
  /\ emits' = <<>>
  /\ UNCHANGED <<sequence, slot, insertions, tombstone, lru, evicted, waiters,
                 told, alive, now>>

\* beforeDispatch rejects: aborted, whatever happened during the await.
HookAborts(o) ==
  /\ alive
  /\ TestHooks
  /\ op[o].pc = "dispatch"
  /\ Finish(o, "aborted", "done", {}, FALSE)

\* Past the await the status is not read again: running, started, run().
Dispatch(o) ==
  /\ alive
  /\ op[o].pc = "dispatch"
  /\ op' = [op EXCEPT ![o] = [@ EXCEPT !.status = "running", !.pc = "run"]]
  /\ emits' = <<Event(o, "started", NoKey)>>
  /\ UNCHANGED <<sequence, slot, insertions, tombstone, lru, evicted, waiters,
                 told, alive, now>>

\* run() settles after the operation is over: nobody looks at what it did.
RunEndsLate(o) ==
  /\ alive
  /\ op[o].pc = "run"
  /\ Terminal(o)
  /\ op' = [op EXCEPT ![o] = [@ EXCEPT !.pc = "done"]]
  /\ emits' = <<>>
  /\ UNCHANGED <<sequence, slot, insertions, tombstone, lru, evicted, waiters,
                 told, alive, now>>

\* run() resolves; afterDispatchBeforeAck is awaited.
RunResolves(o) ==
  /\ alive
  /\ op[o].pc = "run"
  /\ ~Terminal(o)
  /\ op' = [op EXCEPT ![o] = [@ EXCEPT !.pc = "ack"]]
  /\ emits' = <<>>
  /\ UNCHANGED <<sequence, slot, insertions, tombstone, lru, evicted, waiters,
                 told, alive, now>>

\* Fault: the result of a run that was asked to cancel is dropped.
AcknowledgeRunning(o) ==
  /\ alive
  /\ op[o].pc = "ack"
  /\ IF op[o].status = "running" THEN Finish(o, "completed", "done", {}, TRUE)
     ELSE /\ op' = [op EXCEPT ![o] = [@ EXCEPT !.pc = "done"]]
          /\ emits' = <<>>
          /\ UNCHANGED <<sequence, slot, insertions, tombstone, lru, evicted,
                         waiters, told, alive, now>>

\* The result is recorded, even when a cancel request came first.
Acknowledge(o) ==
  /\ alive
  /\ op[o].pc = "ack"
  /\ Finish(o, "completed", "done", {}, TRUE)

\* afterDispatchBeforeAck rejects.  An exception of settle() inside this
\* handler is caught by the try around it.
HookLosesAck(o) ==
  /\ alive
  /\ TestHooks
  /\ op[o].pc = "ack"
  /\ Finish(o, "requires_reconciliation", "done", {}, TRUE)

\* What the rejection of run() makes of the operation.
Rejections == {"abort", "stop_unconfirmed", "error"}
RejectedStatus(o, e) ==
  CASE ~op[o].aborted                  -> "failed"
    [] op[o].aborted /\ e = "abort"    -> "cancelled"
    [] OTHER                           -> "stop_unconfirmed"

RunRejects(o, e) ==
  /\ alive
  /\ op[o].pc = "run"
  /\ ~Terminal(o)
  /\ Finish(o, RejectedStatus(o, e), "done", {}, FALSE)

-----------------------------------------------------------------------------
(* Timers and callers *)

\* Fault: the timer aborts the signal and leaves the rest to run().
DeadlineAborts(o) ==
  /\ alive
  /\ TaskTurn
  /\ op[o].pc = "run"
  /\ op[o].deadline
  /\ op' = [op EXCEPT ![o] = [@ EXCEPT !.aborted = TRUE, !.deadline = FALSE]]
  /\ emits' = <<>>
  /\ UNCHANGED <<sequence, slot, insertions, tombstone, lru, evicted, waiters,
                 told, alive, now>>

\* The deadline timer: it acts on a running operation and on no other.
DeadlineFires(o) ==
  /\ alive
  /\ TaskTurn
  /\ op[o].pc = "run"
  /\ op[o].deadline
  /\ IF op[o].status = "running"
     THEN LET ops == [op EXCEPT ![o] =
                        [@ EXCEPT !.status = "timed_out", !.finished = now,
                                  !.aborted = TRUE, !.deadline = FALSE]]
              kept == Retained(ops)
          IN  /\ op' = ops
              /\ RetainOnly(kept)
              /\ UpdateTombstone(op[o].key, "timed_out")
              /\ emits' = <<Event(o, "timed_out", NoKey)>>
              /\ IF o \in kept
                 THEN /\ waiters' = [waiters EXCEPT ![o] = {}]
                      /\ Tell(waiters[o], o, "timed_out")
                      /\ UNCHANGED alive
                 ELSE /\ alive' = FALSE
                      /\ UNCHANGED <<waiters, told>>
     ELSE /\ op' = [op EXCEPT ![o] = [@ EXCEPT !.deadline = FALSE]]
          /\ emits' = <<>>
          /\ UNCHANGED <<slot, tombstone, waiters, told, alive>>
  /\ UNCHANGED <<sequence, insertions, lru, evicted, now>>

\* A client holds at most one unsettled promise.
Idle(c) == \A o \in Ids : c \notin waiters[o]

\* cancel() before dispatch.
CancelQueued(c, o) ==
  /\ alive
  /\ CallerTurn
  /\ Idle(c)
  /\ slot[o] > 0
  /\ op[o].status = "queued"
  /\ Finish(o, "cancelled", op[o].pc, {c}, TRUE)

\* Fault: cancelled at once, before the run acknowledges.
CancelAtOnce(c, o) ==
  /\ alive
  /\ CallerTurn
  /\ Idle(c)
  /\ slot[o] > 0
  /\ op[o].status \in {"running", "cancelling"}
  /\ op' = [op EXCEPT ![o] = [@ EXCEPT !.status = "cancelled", !.aborted = TRUE]]
  /\ waiters' = [waiters EXCEPT ![o] = @ \cup {c}]
  /\ emits' = <<>>
  /\ UNCHANGED <<sequence, slot, insertions, tombstone, lru, evicted, told,
                 alive, now>>

\* cancel() of a run in flight: abort the signal and wait for the run.
CancelActive(c, o) ==
  /\ alive
  /\ CallerTurn
  /\ Idle(c)
  /\ slot[o] > 0
  /\ op[o].status \in {"running", "cancelling"}
  /\ op' = [op EXCEPT ![o] = [@ EXCEPT !.status = "cancelling", !.aborted = TRUE]]
  /\ waiters' = [waiters EXCEPT ![o] = @ \cup {c}]
  /\ emits' = <<>>
  /\ UNCHANGED <<sequence, slot, insertions, tombstone, lru, evicted, told,
                 alive, now>>

\* waitFor(), waitForResult() and progress() of an active operation.
Wait(c, o) ==
  /\ alive
  /\ CallerTurn
  /\ Idle(c)
  /\ slot[o] > 0
  /\ ~Terminal(o)
  /\ waiters' = [waiters EXCEPT ![o] = @ \cup {c}]
  /\ emits' = <<>>
  /\ UNCHANGED <<sequence, op, slot, insertions, tombstone, lru, evicted, told,
                 alive, now>>

\* The same calls, and cancel(), on one that is over.
Observe(c, o) ==
  /\ alive
  /\ CallerTurn
  /\ Idle(c)
  /\ slot[o] > 0
  /\ Terminal(o)
  /\ Tell({c}, o, op[o].status)
  /\ emits' = <<>>
  /\ UNCHANGED <<sequence, op, slot, insertions, tombstone, lru, evicted,
                 waiters, alive, now>>

\* observedComplete, observedNotDone, abandoned
Resolutions == {"completed", "cancelled", "failed"}

\* reconcile(): an operator decides an uncertain outcome.
Reconcile(o, r) ==
  LET ops == [op EXCEPT ![o] = [@ EXCEPT !.status = r, !.finished = now]] IN
  /\ alive
  /\ CallerTurn
  /\ slot[o] > 0
  /\ op[o].status \in Reconcilable
  /\ op' = ops
  /\ UpdateTombstone(op[o].key, r)
  /\ emits' = <<Event(o, "reconciled", r)>>
  /\ waiters' = [waiters EXCEPT ![o] = {}]
  /\ Tell(waiters[o], o, r)
  /\ RetainOnly(Retained(ops))
  /\ UNCHANGED <<sequence, insertions, lru, evicted, alive, now>>

Tick ==
  /\ alive
  /\ TaskTurn
  /\ now < MaxTime
  /\ now' = now + 1
  /\ emits' = <<>>
  /\ UNCHANGED <<sequence, op, slot, insertions, tombstone, lru, evicted,
                 waiters, told, alive>>

-----------------------------------------------------------------------------
Init ==
  /\ sequence = 0
  /\ op = [o \in Ids |-> Unborn]
  /\ slot = [o \in Ids |-> 0]
  /\ insertions = 0
  /\ tombstone = [k \in Keys |-> NoTombstone]
  /\ lru = [k \in Keys |-> 0]
  /\ evicted = {}
  /\ waiters = [o \in Ids |-> {}]
  /\ told = [c \in Clients |-> NotTold]
  /\ emits = <<>>
  /\ alive = TRUE
  /\ now = 0

Begin ==
  \/ \E k \in Keys : BeginKnown(k)
  \/ \E k \in Keys \cup {NoKey}, d \in BOOLEAN : BeginNew(k, d)

Microtask(o) ==
  MicrotaskEnds(o) \/ MicrotaskAwaits(o) \/ HookAborts(o) \/ Dispatch(o)
    \/ Acknowledge(o) \/ HookLosesAck(o)

RunSettles(o) ==
  RunEndsLate(o) \/ RunResolves(o) \/ \E e \in Rejections : RunRejects(o, e)

Call(c, o) ==
  CancelQueued(c, o) \/ CancelActive(c, o) \/ Wait(c, o) \/ Observe(c, o)

Next ==
  \/ Begin
  \/ \E o \in Ids : Microtask(o) \/ RunSettles(o) \/ DeadlineFires(o)
  \/ \E c \in Clients, o \in Ids : Call(c, o)
  \/ \E o \in Ids, r \in Resolutions : Reconcile(o, r)
  \/ Tick

Spec == Init /\ [][Next]_vars

\* The event loop runs every queued microtask and every due timer.
EventLoop ==
  \A o \in Ids : WF_vars(Microtask(o)) /\ WF_vars(DeadlineFires(o))

FairSpec == Spec /\ EventLoop

\* Every run() a caller passes settles.
RunsSettle == \A o \in Ids : WF_vars(RunSettles(o))
-----------------------------------------------------------------------------
(* Properties *)

\* Every variable keeps its type; op numbers are given out in order.
TypeOK ==
  /\ sequence \in 0..MaxOps
  /\ op \in [Ids -> Operation]
  /\ slot \in [Ids -> Nat]
  /\ insertions \in Nat
  /\ tombstone \in [Keys -> Tombstone \cup {NoTombstone}]
  /\ lru \in [Keys -> Nat]
  /\ evicted \subseteq 0..MaxOps
  /\ waiters \in [Ids -> SUBSET Clients]
  /\ told \in [Clients -> [op: Ids, status: Statuses] \cup {NotTold}]
  /\ alive \in BOOLEAN
  /\ now \in 0..MaxTime

\* Idempotency (begin(), BoundedIdempotencyStore): two operations begin with
\* one key only if the first one's tombstone overflowed out of the store or
\* the second came after the first one's retention window.
AtMostOncePerWindow ==
  \A a, b \in 1..sequence :
    a < b /\ op[a].key = op[b].key /\ op[a].key # NoKey
      => a \in evicted \/ op[b].created - op[a].created > Retention

\* settle(): no promise stays registered for an operation that is over.
WaitersNotified == \A o \in Ids : waiters[o] # {} => ~Terminal(o)

\* retainOperations() forgets an operation only once it is over: cancel() and
\* the handles always find one that is active.
ActiveIsKept ==
  \A o \in 1..sequence : ~Terminal(o) /\ op[o].pc # "done" => slot[o] > 0

\* The deadline timer settles a running operation even if its run() never
\* does, unless a cancel request came first.
DeadlineSettles ==
  \A o \in Ids :
    (op[o].status = "running" /\ op[o].deadline)
      ~> (Terminal(o) \/ op[o].status = "cancelling" \/ ~alive)

\* When every run() settles, every promise handed to a caller settles.
WaitersServed ==
  RunsSettle => \A c \in Clients, o \in Ids : c \in waiters[o] ~> c \notin waiters[o]

\* What a caller can see of an operation.
Outcome ==
  [o \in Ids |-> IF op[o].pc = "unborn" THEN "none"
                 ELSE IF Terminal(o) THEN op[o].status ELSE "pending"]

Lifecycle == INSTANCE OperationLifecycle WITH
  outcome <- Outcome, waiting <- waiters,
  Outcomes <- TerminalStatuses, Uncertain <- Reconcilable

\* Refinement: the manager keeps the promise of OperationLifecycle.
LifecycleSpec == Lifecycle!Spec
=============================================================================
