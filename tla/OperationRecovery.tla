--------------------------- MODULE OperationRecovery ---------------------------
(***************************************************************************)
(* OperationManager with its Journal across process crashes.  Every event  *)
(* the manager emits is appended to the journal; FileJournalStorage starts *)
(* each append on its own and nobody awaits it, so a crash loses whatever  *)
(* is in flight and the file's order is the order the appends finish in;   *)
(* a synchronous storage (MemoryJournalStorage kept across managers) loses *)
(* nothing.  A restart is a new process: empty maps, a new Journal that    *)
(* numbers from 1 unless Journal.hydrate() is called, then                 *)
(* OperationManager.hydrate(), before which the daemon serves no request.  *)
(*                                                                         *)
(* Operation numbers stand for whole ids, random suffix included, so a     *)
(* number is not given out twice even if the journal forgot it.            *)
(***************************************************************************)
EXTENDS OperationManager

CONSTANTS
  MaxCrashes,      \* bound: crashes in a behaviour
  Storages,        \* JournalStorages the daemon may be given
  MaxFileOps,      \* bound: operations begun over the file storage
  ResumeNumbering  \* the new process calls Journal.hydrate()

ASSUME RecoveryAssumption ==
  /\ MaxCrashes \in Nat
  /\ Storages \subseteq {"memory", "file"}
  /\ MaxFileOps \in Nat
  /\ ResumeNumbering \in BOOLEAN

VARIABLES
  storage,  \* "memory": an append is durable when it returns
  disk,     \* the journal file, in file order
  pending,  \* appends in flight
  numbered, \* Journal.sequence of this process
  ran,      \* operations whose run() was called: the physical action started
  crashes   \* crashes so far

journalVars == <<storage, disk, pending, numbered, ran, crashes>>
allVars == <<vars, journalVars>>

-----------------------------------------------------------------------------
(* Journal.append() of what the manager emitted in this step *)

Entry(n, e) ==
  [seq |-> n, op |-> e.op, kind |-> e.kind, arg |-> e.arg, at |-> now]

Append1 ==
  IF emits' = <<>> THEN UNCHANGED <<disk, pending, numbered>>
  ELSE LET e == Entry(numbered + 1, emits'[1]) IN
       /\ numbered' = numbered + 1
       /\ IF storage = "memory"
          THEN disk' = Append(disk, e) /\ UNCHANGED pending
          ELSE pending' = pending \cup {e} /\ UNCHANGED disk

ManagerStep ==
  /\ Next
  /\ storage = "file" => sequence' <= MaxFileOps
  /\ Append1
  /\ ran' = ran \cup {o \in Ids : op'[o].pc = "run"}
  /\ UNCHANGED <<storage, crashes>>

\* One appendFile() finishes, in no particular order.
Persist(e) ==
  /\ alive
  /\ pending' = pending \ {e}
  /\ disk' = Append(disk, e)
  /\ UNCHANGED <<vars, storage, numbered, ran, crashes>>

-----------------------------------------------------------------------------
(* hydrate(): Journal.query() sorts by sequence number, stably; the loop    *)
(* over the entries is stated by what it leaves in each operation.          *)

Entries(o) == {i \in DOMAIN disk : disk[i].op = o}
Journaled == {o \in Ids : Entries(o) # {}}

\* Position of an entry in the sorted journal.
Position(i) == disk[i].seq * (Len(disk) + 1) + i

First(o) ==
  CHOOSE i \in Entries(o) : \A j \in Entries(o) : Position(i) <= Position(j)

\* Fault: a timeout is not among the kinds taken for an end.
EndKindsForgetful ==
  {"completed", "failed", "cancelled", "rejected", "reconciled", "aborted",
   "stop_unconfirmed"}

\* The kinds hydrate() takes for an end; it has no branch for "uncertain".
EndKinds ==
  {"completed", "failed", "cancelled", "timed_out", "rejected", "reconciled",
   "aborted", "stop_unconfirmed"}

StatusOf(e) ==
  CASE e.kind = "requested"  -> "queued"
    [] e.kind = "started"    -> "running"
    [] e.kind = "reconciled" -> e.arg
    [] OTHER                 -> e.kind

OfKind(o, kinds) == {i \in Entries(o) : disk[i].kind \in kinds}

\* Fault: an operation nothing is known of past its request may run again.
RecoveredStatusQueued(o) ==
  LET telling == OfKind(o, EndKinds \cup {"requested", "started"})
  IN  IF OfKind(o, EndKinds \cup {"started"}) = {} THEN "queued"
      ELSE IF OfKind(o, EndKinds) = {} THEN "requires_reconciliation"
      ELSE StatusOf(disk[CHOOSE i \in telling :
                           \A j \in telling : Position(j) <= Position(i)])

\* Fault: windows A and B are not told apart.
RecoveredStatusBlind(o) ==
  LET telling == OfKind(o, EndKinds \cup {"requested", "started"})
  IN  IF OfKind(o, EndKinds) = {} THEN "aborted"
      ELSE StatusOf(disk[CHOOSE i \in telling :
                           \A j \in telling : Position(j) <= Position(i)])

\* Windows A and B have no end in the journal; otherwise the last entry that
\* writes op.status decides.
RecoveredStatus(o) ==
  LET telling == OfKind(o, EndKinds \cup {"requested", "started"})
      ended   == OfKind(o, EndKinds) # {}
      started == OfKind(o, {"started"}) # {}
  IN  IF ~ended /\ started THEN "requires_reconciliation"
      ELSE IF ~ended THEN "aborted"
      ELSE StatusOf(disk[CHOOSE i \in telling :
                           \A j \in telling : Position(j) <= Position(i)])

\* Only operation.requested carries the key and sets createdAt again.
RecoveredKey(o) ==
  LET requests == OfKind(o, {"requested"})
  IN  IF requests = {} THEN NoKey ELSE disk[CHOOSE i \in requests : TRUE].arg
RecoveredCreated(o) ==
  LET requests == OfKind(o, {"requested"})
  IN  IF requests = {} THEN disk[First(o)].at
      ELSE disk[CHOOSE i \in requests : TRUE].at
RecoveredFinished(o) ==
  LET ends == OfKind(o, EndKinds)
  IN  IF ends = {} THEN now
      ELSE disk[CHOOSE i \in ends : \A j \in ends : Position(j) <= Position(i)].at

\* The tombstones hydrated for a key, the last of which stays, and the rank
\* the key takes in the store's Map: that of its first one.
Named(k) ==
  {o \in Journaled : RecoveredKey(o) = k /\ now - RecoveredCreated(o) <= Retention}
KeyPosition(k) ==
  CHOOSE p \in {Position(First(o)) : o \in Named(k)} :
    \A o \in Named(k) : p <= Position(First(o))
LastNamed(k) ==
  CHOOSE o \in Named(k) : \A p \in Named(k) : Position(First(p)) <= Position(First(o))
NamedKeys == {k \in Keys : Named(k) # {}}
KeptKeys ==
  {k \in NamedKeys :
     Cardinality({j \in NamedKeys : KeyPosition(j) >= KeyPosition(k)}) <= MaxEntries}

\* Fault: the store is not rebuilt.
HydrateNoStore ==
  /\ tombstone' = [k \in Keys |-> NoTombstone]
  /\ lru' = [k \in Keys |-> 0]
  /\ UNCHANGED evicted

HydrateStore ==
  /\ tombstone' = [k \in Keys |->
       IF k \notin KeptKeys THEN NoTombstone
       ELSE LET o == LastNamed(k) IN
            [op |-> o, status |-> RecoveredStatus(o), created |-> RecoveredCreated(o)]]
  /\ lru' = [k \in Keys |->
       IF k \notin KeptKeys THEN 0
       ELSE Cardinality({j \in KeptKeys : KeyPosition(j) <= KeyPosition(k)})]
  /\ evicted' = evicted \cup UNION {Named(k) : k \in NamedKeys \ KeptKeys}

\* An operation the journal does not know survives only in this model's memory.
HydrateOperations ==
  /\ op' = [o \in Ids |->
       IF o \in Journaled
       THEN [status |-> RecoveredStatus(o), key |-> RecoveredKey(o),
             deadline |-> FALSE, aborted |-> FALSE,
             created |-> RecoveredCreated(o), finished |-> RecoveredFinished(o),
             pc |-> "done"]
       ELSE [op[o] EXCEPT !.pc = IF @ = "unborn" THEN @ ELSE "done"]]
  /\ slot' = [o \in Ids |->
       IF o \in Journaled
       THEN Cardinality({p \in Journaled : Position(First(p)) <= Position(First(o))})
       ELSE 0]
  /\ insertions' = Cardinality(Journaled)

\* The process dies, by a crash or by an exception nobody caught, and a new
\* one hydrates before it serves anything.
CrashAndRestart ==
  /\ crashes < MaxCrashes
  /\ crashes' = crashes + 1
  /\ pending' = {}
  /\ HydrateOperations
  /\ HydrateStore
  /\ waiters' = [o \in Ids |-> {}]
  /\ emits' = <<>>
  /\ alive' = TRUE
  /\ numbered' =
       IF ResumeNumbering
       THEN CHOOSE n \in {0} \cup {disk[i].seq : i \in DOMAIN disk} :
              \A i \in DOMAIN disk : disk[i].seq <= n
       ELSE 0
  /\ UNCHANGED <<sequence, told, now, storage, disk, ran>>

-----------------------------------------------------------------------------
RecoveryInit ==
  /\ Init
  /\ storage \in Storages
  /\ disk = <<>>
  /\ pending = {}
  /\ numbered = 0
  /\ ran = {}
  /\ crashes = 0

RecoveryNext ==
  \/ ManagerStep
  \/ \E e \in pending : Persist(e)
  \/ CrashAndRestart

RecoverySpec == RecoveryInit /\ [][RecoveryNext]_allVars

-----------------------------------------------------------------------------
(* Properties *)

\* The types of the journal and of the memory the restarts rebuild.
RecoveryTypeOK ==
  /\ TypeOK
  /\ \A i \in DOMAIN disk : disk[i].op \in Ids /\ disk[i].seq \in 1..numbered
  /\ numbered \in Nat
  /\ ran \subseteq Ids
  /\ crashes \in 0..MaxCrashes

\* ADR 0007: "No silent duplicate actuations occur across daemon restarts or
\* crashes": two operations with one key both ran only if the store's
\* documented limits, capacity and retention, separate them.
NoSilentReplay ==
  \A a, b \in ran :
    a < b /\ op[a].key = op[b].key /\ op[a].key # NoKey
      => a \in evicted \/ op[b].created - op[a].created > Retention

\* ADR 0007, window A: an operation restored as aborted, that is "accepted but
\* not dispatched", never reached the device.  The ADR takes the journal to be
\* durable; the file's may have lost operation.started.
AbortedNeverRan ==
  storage = "memory" => \A o \in ran : slot[o] > 0 => op[o].status # "aborted"

\* hydrate(): every operation it restores is over, so that wait, cancel and a
\* retry with its key return at once; no continuation is left to end it.
RestoredIsOver ==
  \A o \in Ids : slot[o] > 0 /\ op[o].pc = "done" => Terminal(o)

\* ADR 0007, window C: the end an operation reached before a crash is the one
\* the restarted daemon answers with, but for a reconciliation.  It too takes
\* the journal to be durable.
OutcomeSurvives ==
  [][storage = "memory" => \A o \in Ids : Terminal(o) =>
       \/ op'[o].status = op[o].status
       \/ op[o].status \in Reconcilable /\ op'[o].status \in Resolutions]_allVars
=============================================================================
