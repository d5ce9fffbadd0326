--------------------------- MODULE RapAdapterProofs ---------------------------
(***************************************************************************)
(* The RAP adapter, for every set of calls, every number of attempts, of   *)
(* faults and of restarts: its tables keep their types, the runtime never  *)
(* gets two results for one call, and close_thread leaves nothing of the   *)
(* thread running, unless a request it depends on failed.                  *)
(***************************************************************************)
EXTENDS RapAdapter, TLAPS

\* A task is a call and a role.
LEMMA TaskParts ==
  /\ \A t \in Tasks : t[1] \in Calls /\ t[2] \in {"run", "again"} /\ t = <<t[1], t[2]>>
  /\ \A k \in Calls, w \in {"run", "again"} : <<k, w>> \in Tasks
  /\ Tasks \subseteq Aborters
  BY DEF Tasks, Aborters

\* A record stays one when its fields are set.
LEMMA RecordFields ==
  ASSUME NEW r \in Record
  PROVE  /\ r.status \in {"accepted", "running", "delivering", "delivered", "failed", "cancelled"}
         /\ r.known \in BOOLEAN /\ r.text \in Texts /\ r.attempts \in Nat
         /\ r.cancelled \in BOOLEAN
  BY DEF Record

\* What accepting a call writes is a record.
LEMMA AcceptedIsRecord ==
  /\ Accepted \in Record
  /\ [Accepted EXCEPT !.status = "running"] \in Record
  BY DEF Accepted, Record, Texts

\* A record stays one when it is marked,
LEMMA RecordMarks ==
  ASSUME NEW r \in Record
  PROVE  /\ [r EXCEPT !.known = TRUE] \in Record
         /\ [r EXCEPT !.status = "running"] \in Record
         /\ \A b \in BOOLEAN : [r EXCEPT !.cancelled = b] \in Record
         /\ [[r EXCEPT !.cancelled = TRUE] EXCEPT !.status = "cancelled"] \in Record
  BY DEF Record

\* and when a result is put into it.
LEMMA RecordResults ==
  ASSUME NEW r \in Record, NEW x \in Texts, NEW n \in Nat
  PROVE  /\ [r EXCEPT !.text = x, !.status = "delivering"] \in Record
         /\ [r EXCEPT !.status = "delivering", !.text = x] \in Record
         /\ [r EXCEPT !.status = "delivering"] \in Record
         /\ [r EXCEPT !.status = "delivered", !.attempts = @ + n] \in Record
         /\ [r EXCEPT !.status = "failed", !.attempts = @ + n] \in Record
<1>1. [r EXCEPT !.text = x, !.status = "delivering"] \in Record
  BY DEF Record
<1>2. [r EXCEPT !.status = "delivering", !.text = x] \in Record
  BY DEF Record
<1>3. [r EXCEPT !.status = "delivering"] \in Record
  BY DEF Record
<1>4. [r EXCEPT !.status = "delivered", !.attempts = @ + n] \in Record
  <2>1. r.attempts + n \in Nat
    BY RecordFields
  <2>2. \A m \in Nat : [r EXCEPT !.status = "delivered", !.attempts = m] \in Record
    BY DEF Record
  <2> QED
    BY <2>1, <2>2
<1>5. [r EXCEPT !.status = "failed", !.attempts = @ + n] \in Record
  <2>1. r.attempts + n \in Nat
    BY RecordFields
  <2>2. \A m \in Nat : [r EXCEPT !.status = "failed", !.attempts = m] \in Record
    BY DEF Record
  <2> QED
    BY <2>1, <2>2
<1> QED
  BY <1>1, <1>2, <1>3, <1>4, <1>5

\* What the store's writing of a call keeps.
LEMMA UpsertTypes ==
  ASSUME StoreTypeOK, NEW k \in Calls, NEW g \in Objects, NEW r \in Record, Upsert(k, g, r),
         noted' \in BOOLEAN, leases' \subseteq 1..MaxLeases
  PROVE  StoreTypeOK'
  BY DEF StoreTypeOK, Upsert, Objects

\* What the moving of a task keeps, where it has no part in an abort.
LEMMA GoesTypes ==
  ASSUME TaskTypeOK, NEW t \in Tasks, NEW g \in Objects, NEW w \in Places \ {"off", "aborting"},
         pc[t] # "aborting", Goes(t, g, w), tries' \in [Tasks -> 0..MaxAttempts],
         \A i \in Tasks \ {t} : tries'[i] = tries[i], UNCHANGED abort
  PROVE  TaskTypeOK'
  BY DEF TaskTypeOK, Goes, Objects, Places

LEMMA RestsTypes ==
  ASSUME TaskTypeOK, NEW t \in Tasks, pc[t] # "aborting", Rests(t), UNCHANGED abort
  PROVE  TaskTypeOK'
  BY RapAssumption DEF TaskTypeOK, Rests, Goes, Objects, Places

LEMMA DeliverTypes ==
  ASSUME StoreTypeOK, TaskTypeOK, NEW t \in Tasks, NEW g \in Objects, NEW x \in Texts,
         pc[t] # "aborting", Deliver(t, g, x),
         noted' \in BOOLEAN, leases' \subseteq 1..MaxLeases, UNCHANGED abort
  PROVE  StoreTypeOK' /\ TaskTypeOK'
<1>1. t[1] \in Calls /\ rec[<<t[1], g>>] \in Record
  BY TaskParts DEF StoreTypeOK
<1>2. [rec[<<t[1], g>>] EXCEPT !.text = x, !.status = "delivering"] \in Record
  BY <1>1, RecordResults
<1>3. StoreTypeOK'
  BY <1>1, <1>2, UpsertTypes DEF Deliver
<1>4. TaskTypeOK'
  BY GoesTypes, RapAssumption DEF Deliver, TaskTypeOK, Places
<1> QED
  BY <1>3, <1>4

LEMMA ConcludesTypes ==
  ASSUME StoreTypeOK, TaskTypeOK, NEW t \in Tasks, NEW x \in {"result", "pending", "error"},
         pc[t] # "aborting", Concludes(t, x),
         noted' \in BOOLEAN, leases' \subseteq 1..MaxLeases, UNCHANGED abort
  PROVE  StoreTypeOK' /\ TaskTypeOK'
<1>1. CASE t[2] = "run"
  <2>1. PICK y \in Texts : Deliver(t, obj[t], y)
    BY <1>1 DEF Concludes, Texts
  <2> QED
    BY <2>1, DeliverTypes DEF TaskTypeOK
<1>2. CASE t[2] # "run"
  BY <1>2, RestsTypes DEF Concludes, StoreTypeOK
<1> QED
  BY <1>1, <1>2

\* Which calls ask the daemon for what.
TypeInv ==
  /\ RapTypeOK
  /\ \A t \in Tasks :
       /\ pc[t] = "acquiring" => t[1] \in LeaseCalls
       /\ pc[t] = "invoking" => t[1] \notin LeaseCalls
       /\ pc[t] = "answering" /\ t[1] \in LeaseCalls => leaseOf[t[1]] # 0

\* A task that does not go to the daemon keeps the second part.
LEMMA PhasesKept ==
  ASSUME TypeInv, RapTypeOK', UNCHANGED leaseOf,
         NEW t \in Tasks, \A i \in Tasks \ {t} : pc'[i] = pc[i],
         pc'[t] \notin {"acquiring", "invoking", "answering"} \/ pc'[t] = pc[t]
  PROVE  TypeInv'
  BY DEF TypeInv

\* A request of the runtime keeps the types.
LEMMA RequestTypes ==
  ASSUME TypeInv, NEW k \in Calls,
         Accept(k) \/ AcceptAgain(k) \/ Cancel(k) \/ CancelGoesOn(k)
  PROVE  TypeInv'
<1> USE DEF TypeInv
<1>1. CASE Accept(k)
  <2> DEFINE g == IF cur[k] = 0 THEN 1 ELSE 0
  <2> DEFINE t == <<k, "run">>
  <2>1. g \in Objects /\ t \in Tasks /\ pc[t] \in Places
    BY TaskParts DEF Objects, RapTypeOK, TaskTypeOK
  <2>2. CASE InFlight(k)
    <3>1. StoreTypeOK'
      BY <1>1, <2>1, <2>2, UpsertTypes, AcceptedIsRecord DEF Accept, RapTypeOK, StoreTypeOK
    <3>2. UNCHANGED <<pc, obj, tries, abort, cancel, daemonVars, late, received, closed>>
      BY <1>1, <2>2 DEF Accept, historyVars
    <3> QED
      BY <3>1, <3>2 DEF RapTypeOK, TaskTypeOK, DaemonTypeOK, daemonVars
  <2>3. CASE ~InFlight(k)
    <3>1. Upsert(k, g, [Accepted EXCEPT !.status = "running"]) /\ Goes(t, g, Executing(k))
      BY <1>1, <2>3 DEF Accept
    <3>2. /\ UNCHANGED <<leases, tries, abort, cancel, daemonVars, late, received, closed>>
          /\ noted' = TRUE
      BY <1>1, <2>3 DEF Accept, historyVars
    <3>3. StoreTypeOK'
      BY <2>1, <3>1, <3>2, UpsertTypes, AcceptedIsRecord DEF RapTypeOK, StoreTypeOK
    <3>4. Executing(k) \in Places \ {"off", "aborting"}
      BY DEF Executing, Places
    <3>5. TaskTypeOK'
      BY <2>1, <2>3, <3>1, <3>2, <3>4, GoesTypes DEF RapTypeOK, TaskTypeOK, InFlight
    <3>6. RapTypeOK'
      BY <3>2, <3>3, <3>5 DEF RapTypeOK, DaemonTypeOK, daemonVars
    <3> QED
      BY <2>1, <3>1, <3>2, <3>6, TaskParts
         DEF Goes, Executing, RapTypeOK, TaskTypeOK, daemonVars
  <2> QED
    BY <2>2, <2>3
<1>2. CASE AcceptAgain(k)
  <2> DEFINE t == <<k, "again">>
  <2> DEFINE r == rec[<<k, cur[k]>>]
  <2>1. /\ t \in Tasks /\ t[1] = k /\ cur[k] \in Objects /\ r \in Record /\ pc[t] = "off"
        /\ pc'[t] \in {"posting", "asking", "polling"} /\ \A i \in Tasks \ {t} : pc'[i] = pc[i]
        /\ r.text \in Texts
    BY <1>2, TaskParts, RecordFields
       DEF AcceptAgain, RapTypeOK, StoreTypeOK, TaskTypeOK, Deliver, Goes, Watching
  <2>2. /\ UNCHANGED <<noted, leases, abort, cancel, daemonVars, late, received, closed>>
        /\ \/ Deliver(t, cur[k], r.text)
           \/ /\ Goes(t, cur[k], Watching(r))
              /\ UNCHANGED <<rec, cur, disk, tries>>
    BY <1>2 DEF AcceptAgain, historyVars
  <2>3. StoreTypeOK' /\ TaskTypeOK'
    <3>1. CASE Deliver(t, cur[k], r.text)
      BY <2>1, <2>2, <3>1, DeliverTypes DEF RapTypeOK, StoreTypeOK
    <3>2. CASE /\ Goes(t, cur[k], Watching(r))
               /\ UNCHANGED <<rec, cur, disk, tries>>
      BY <2>1, <2>2, <3>2, GoesTypes DEF RapTypeOK, StoreTypeOK, Watching, Places, TaskTypeOK
    <3> QED
      BY <2>2, <3>1, <3>2
  <2>4. RapTypeOK'
    BY <2>2, <2>3 DEF RapTypeOK, DaemonTypeOK, daemonVars
  <2> QED
    BY <2>1, <2>2, <2>4, PhasesKept DEF daemonVars
<1>3. CASE Cancel(k)
  <2> DEFINE r == [rec[<<k, cur[k]>>] EXCEPT !.cancelled = TRUE]
  <2>1. cur[k] \in Objects /\ r \in Record
    BY <1>3, RecordMarks DEF Cancel, RapTypeOK, StoreTypeOK
  <2>2. /\ Upsert(k, cur[k], r)
        /\ UNCHANGED <<noted, leases, pc, obj, tries, abort, daemonVars, late, received, closed>>
    BY <1>3 DEF Cancel, historyVars, taskVars
  <2>3. StoreTypeOK'
    BY <2>1, <2>2, UpsertTypes DEF RapTypeOK, StoreTypeOK
  <2>4. cancel' \in [Calls -> {"off", "asking", "disarming"}]
    BY <1>3 DEF Cancel, RapTypeOK
  <2> QED
    BY <2>2, <2>3, <2>4 DEF RapTypeOK, TaskTypeOK, DaemonTypeOK, daemonVars
<1>4. CASE CancelGoesOn(k)
  <2>1. /\ UNCHANGED <<storeVars, pc, obj, tries, abort, lease, granted, leaseOf, late, received,
                       closed>>
        /\ op' \in [Calls -> {"none", "running", "asked", "over"}] /\ hot' \in BOOLEAN
        /\ cancel' \in [Calls -> {"off", "asking", "disarming"}]
    BY <1>4 DEF CancelGoesOn, RapTypeOK, DaemonTypeOK, Stops, historyVars, taskVars
  <2> QED
    BY <2>1 DEF RapTypeOK, StoreTypeOK, TaskTypeOK, DaemonTypeOK, storeVars
<1> QED
  BY <1>1, <1>2, <1>3, <1>4

\* The daemon's answers keep the types.
LEMMA AnswerTypes ==
  ASSUME TypeInv, NEW t \in Tasks, Lands(t) \/ Answered(t) \/ Refused(t)
  PROVE  TypeInv'
<1> USE DEF TypeInv
<1>1. t[1] \in Calls /\ obj[t] \in Objects /\ rec[<<t[1], obj[t]>>] \in Record
  BY TaskParts DEF RapTypeOK, StoreTypeOK, TaskTypeOK
<1>2. CASE Lands(t)
  <2>1. /\ UNCHANGED <<rec, cur, disk, noted, leases, tries, abort, cancel, late, received, closed>>
        /\ Goes(t, obj[t], "answering") /\ pc[t] \in {"invoking", "acquiring"}
    BY <1>2 DEF Lands, storeVars
  <2>2. TaskTypeOK'
    BY <1>1, <2>1, GoesTypes DEF RapTypeOK, TaskTypeOK, Places
  <2>3. DaemonTypeOK' /\ (pc[t] = "acquiring" => leaseOf'[t[1]] # 0)
        /\ \A i \in Tasks : leaseOf[i[1]] # 0 => leaseOf'[i[1]] # 0
    <3>1. CASE pc[t] = "invoking"
      <4>1. UNCHANGED <<lease, granted, leaseOf>> /\ Begins(t[1])
        BY <1>2, <3>1 DEF Lands
      <4> QED
        BY <3>1, <4>1 DEF RapTypeOK, DaemonTypeOK, Begins
    <3>2. CASE pc[t] = "acquiring"
      <4>1. UNCHANGED <<op, hot>> /\ Grants(t[1])
        BY <1>2, <3>2 DEF Lands
      <4>2. granted + 1 \in 1..MaxLeases /\ leaseOf' = [leaseOf EXCEPT ![t[1]] = granted + 1]
        BY <4>1, RapAssumption DEF Grants, RapTypeOK, DaemonTypeOK
      <4> QED
        BY <1>1, <4>1, <4>2, TaskParts, RapAssumption DEF Grants, RapTypeOK, DaemonTypeOK
    <3> QED
      BY <2>1, <3>1, <3>2
  <2> QED
    BY <1>1, <2>1, <2>2, <2>3 DEF Goes, RapTypeOK, TaskTypeOK, StoreTypeOK
<1>3. CASE Answered(t)
  <2>1. UNCHANGED <<noted, abort, cancel, daemonVars, late, received, closed>> /\ pc[t] = "answering"
    BY <1>3 DEF Answered
  <2>2. leases' \subseteq 1..MaxLeases
    <3>1. CASE t[1] \in LeaseCalls
      <4>1. leaseOf[t[1]] \in 1..MaxLeases
        BY <1>1, <2>1, <3>1 DEF RapTypeOK, DaemonTypeOK
      <4> QED
        BY <1>3, <3>1, <4>1 DEF Answered, RapTypeOK, StoreTypeOK
    <3>2. CASE t[1] \notin LeaseCalls
      BY <1>3, <3>2 DEF Answered, RapTypeOK, StoreTypeOK
    <3> QED
      BY <3>1, <3>2
  <2>3. StoreTypeOK' /\ TaskTypeOK'
    <3>1. CASE t[1] \in LeaseCalls
      BY <1>3, <2>1, <2>2, <3>1, ConcludesTypes DEF Answered, RapTypeOK, StoreTypeOK
    <3>2. CASE t[1] \notin LeaseCalls
      <4> DEFINE r == [rec[<<t[1], obj[t]>>] EXCEPT !.known = TRUE]
      <4>1. r \in Record
        BY <1>1, RecordMarks
      <4>2. Upsert(t[1], obj[t], r) /\ Goes(t, obj[t], Watching(r)) /\ UNCHANGED <<leases, tries>>
        BY <1>3, <3>2 DEF Answered, Mine
      <4>3. Watching(r) \in Places \ {"off", "aborting"}
        BY DEF Watching, Places
      <4>4. StoreTypeOK'
        BY <1>1, <2>1, <2>2, <4>1, <4>2, UpsertTypes DEF RapTypeOK, StoreTypeOK
      <4>5. TaskTypeOK'
        BY <1>1, <2>1, <4>2, <4>3, GoesTypes DEF RapTypeOK, TaskTypeOK
      <4> QED
        BY <4>4, <4>5
    <3> QED
      BY <3>1, <3>2
  <2>4. RapTypeOK'
    BY <2>1, <2>3 DEF RapTypeOK, DaemonTypeOK, daemonVars
  <2>5. /\ \A i \in Tasks \ {t} : pc'[i] = pc[i]
        /\ pc'[t] \notin {"acquiring", "invoking", "answering"}
    BY <1>3 DEF Answered, Concludes, Deliver, Rests, Goes, Watching, RapTypeOK, TaskTypeOK
  <2> QED
    BY <2>1, <2>4, <2>5, PhasesKept DEF daemonVars
<1>4. CASE Refused(t)
  <2>1. /\ UNCHANGED <<noted, leases, abort, cancel, daemonVars, late, received, closed>>
        /\ pc[t] # "aborting" /\ Concludes(t, "error")
    BY <1>4 DEF Refused, historyVars
  <2>2. StoreTypeOK' /\ TaskTypeOK'
    BY <2>1, ConcludesTypes DEF RapTypeOK, StoreTypeOK
  <2>3. RapTypeOK'
    BY <2>1, <2>2 DEF RapTypeOK, DaemonTypeOK, daemonVars
  <2>4. /\ \A i \in Tasks \ {t} : pc'[i] = pc[i]
        /\ pc'[t] \notin {"acquiring", "invoking", "answering"}
    BY <2>1 DEF Concludes, Deliver, Rests, Goes, RapTypeOK, TaskTypeOK
  <2> QED
    BY <2>1, <2>3, <2>4, PhasesKept DEF daemonVars
<1> QED
  BY <1>2, <1>3, <1>4

\* So does watching an operation.
LEMMA WatchTypes ==
  ASSUME TypeInv, NEW t \in Tasks, Asks(t) \/ Polls(t) \/ TimesUp(t)
  PROVE  TypeInv'
<1> USE DEF TypeInv
<1>1. t[1] \in Calls /\ obj[t] \in Objects /\ rec[<<t[1], obj[t]>>] \in Record
  BY TaskParts DEF RapTypeOK, StoreTypeOK, TaskTypeOK
<1>2. /\ \A i \in Tasks \ {t} : pc'[i] = pc[i]
      /\ pc'[t] \notin {"acquiring", "invoking", "answering"} /\ pc[t] \in {"asking", "polling"}
  BY DEF Asks, Polls, TimesUp, Concludes, Deliver, Rests, Goes, Watching, RapTypeOK, TaskTypeOK
<1>3. UNCHANGED <<noted, leases, abort, cancel, lease, granted, leaseOf, hot, late, received, closed>>
  BY DEF Asks, Polls, TimesUp, daemonVars, historyVars, storeVars
<1>4. CASE Asks(t)
  <2>1. UNCHANGED <<rec, cur, disk, tries>> /\ Goes(t, obj[t], "polling")
        /\ op' \in [Calls -> {"none", "running", "asked", "over"}]
    BY <1>4 DEF Asks, storeVars, Stops, RapTypeOK, DaemonTypeOK
  <2>2. TaskTypeOK'
    BY <1>1, <1>2, <1>3, <2>1, GoesTypes DEF RapTypeOK, TaskTypeOK, Places
  <2> QED
    BY <1>2, <1>3, <2>1, <2>2, PhasesKept DEF RapTypeOK, StoreTypeOK, DaemonTypeOK
<1>5. CASE Polls(t)
  <2> DEFINE r == [Mine(t) EXCEPT !.cancelled = @ \/ rec[<<t[1], cur[t[1]]>>].cancelled]
  <2>1. op' = op
    BY <1>5 DEF Polls, daemonVars
  <2>2. CASE Concludes(t, "result")
    BY <1>2, <1>3, <2>1, <2>2, ConcludesTypes, PhasesKept DEF RapTypeOK, StoreTypeOK, DaemonTypeOK
  <2>3. CASE /\ rec' = [rec EXCEPT ![<<t[1], obj[t]>>] = r]
             /\ Goes(t, obj[t], Watching(r))
             /\ UNCHANGED <<cur, disk, tries>>
    <3>1. rec[<<t[1], cur[t[1]]>>].cancelled \in BOOLEAN \/ cur[t[1]] = Absent
      BY <1>1, RecordFields DEF RapTypeOK, StoreTypeOK
    <3>2. r \in Record
      <4> DEFINE b == Mine(t).cancelled \/ rec[<<t[1], cur[t[1]]>>].cancelled
      <4>1. b \in BOOLEAN
        OBVIOUS
      <4>2. Mine(t) \in Record /\ r = [Mine(t) EXCEPT !.cancelled = b]
        BY <1>1 DEF Mine
      <4> HIDE DEF b
      <4> QED
        BY <4>1, <4>2, RecordMarks
    <3>3. Watching(r) \in Places \ {"off", "aborting"}
      BY DEF Watching, Places
    <3>4. StoreTypeOK'
      BY <1>1, <1>3, <2>3, <3>2 DEF RapTypeOK, StoreTypeOK
    <3>5. TaskTypeOK'
      BY <1>1, <1>2, <1>3, <2>3, <3>3, GoesTypes DEF RapTypeOK, TaskTypeOK
    <3> QED
      BY <1>2, <1>3, <2>1, <3>4, <3>5, PhasesKept DEF RapTypeOK, DaemonTypeOK
  <2> QED
    BY <1>5, <2>2, <2>3 DEF Polls
<1>6. CASE TimesUp(t)
  <2>1. op' = op /\ Concludes(t, "pending")
    BY <1>6 DEF TimesUp, daemonVars
  <2> QED
    BY <1>2, <1>3, <2>1, ConcludesTypes, PhasesKept DEF RapTypeOK, StoreTypeOK, DaemonTypeOK
<1> QED
  BY <1>4, <1>5, <1>6

\* An abort begins with the calls whose operations are known, or goes on.
LEMMA AbortingTypes ==
  ASSUME NEW left \in SUBSET (Calls \X Objects), leases \subseteq 1..MaxLeases
  PROVE  Aborting(left) \in Aborts /\ Aborting(left).stage # "off"
  BY DEF Aborting, Aborts

LEMMA AbortBeginsTypes ==
  ASSUME StoreTypeOK, abort \in [Aborters -> Aborts], NEW a \in Aborters, NEW c, NEW r,
         AbortBegins(a, c, r)
  PROVE  /\ abort' \in [Aborters -> Aborts] /\ abort'[a].stage # "off"
         /\ \A b \in Aborters \ {a} : abort'[b] = abort[b]
<1>1. PICK left \in SUBSET (Calls \X Objects) : abort' = [abort EXCEPT ![a] = Aborting(left)]
  BY DEF AbortBegins
<1> QED
  BY <1>1, AbortingTypes DEF StoreTypeOK

\* Delivery keeps the types.
LEMMA PostTypes ==
  ASSUME TypeInv, NEW t \in Tasks, PostedOk(t) \/ PostedAgain(t) \/ GivesUp(t)
  PROVE  TypeInv'
<1> USE DEF TypeInv
<1>1. /\ t[1] \in Calls /\ obj[t] \in Objects /\ Mine(t) \in Record /\ tries[t] \in Nat
      /\ t \in Aborters
  BY TaskParts, RapAssumption DEF RapTypeOK, StoreTypeOK, TaskTypeOK, Mine
<1>2. /\ pc[t] = "posting" /\ received' \in [Calls -> SUBSET Texts]
      /\ UNCHANGED <<noted, leases, cancel, daemonVars, late, closed>>
  <2>1. received' \in [Calls -> SUBSET Texts]
    <3>1. Receives(t) \/ UNCHANGED received
      BY DEF PostedOk, PostedAgain, GivesUp
    <3>2. Mine(t).text \in Texts
      BY <1>1, RecordFields
    <3> QED
      BY <1>1, <3>1, <3>2 DEF Receives, RapTypeOK
  <2> QED
    BY <2>1 DEF PostedOk, PostedAgain, GivesUp, storeVars, historyVars
<1>3. CASE PostedOk(t)
  <2>1. StoreTypeOK'
    <3> DEFINE r == [Mine(t) EXCEPT !.status = "delivered", !.attempts = @ + tries[t]]
    <3>1. r \in Record /\ Upsert(t[1], obj[t], r)
      BY <1>1, <1>3, RecordResults DEF PostedOk, Texts
    <3> HIDE DEF r
    <3> QED
      BY <1>1, <1>2, <3>1, UpsertTypes DEF RapTypeOK, StoreTypeOK
  <2>2. TaskTypeOK'
    BY <1>2, <1>3, RestsTypes DEF PostedOk, RapTypeOK
  <2>3. pc'[t] = "off" /\ \A i \in Tasks \ {t} : pc'[i] = pc[i]
    BY <1>3 DEF PostedOk, Rests, Goes, RapTypeOK, TaskTypeOK
  <2> QED
    BY <1>2, <2>1, <2>2, <2>3, PhasesKept DEF RapTypeOK, DaemonTypeOK, daemonVars
<1>4. CASE PostedAgain(t)
  <2>1. UNCHANGED <<rec, cur, disk, pc, obj, abort>> /\ tries[t] < MaxAttempts
        /\ tries' = [tries EXCEPT ![t] = @ + 1]
    BY <1>4 DEF PostedAgain, storeVars
  <2>2. tries' \in [Tasks -> 0..MaxAttempts] /\ \A i \in Tasks \ {t} : tries'[i] = tries[i]
    BY <2>1, RapAssumption DEF RapTypeOK, TaskTypeOK
  <2>3. \A i \in Tasks : pc'[i] = "off" => obj'[i] = 0 /\ tries'[i] = 0
    BY <1>2, <2>1, <2>2 DEF RapTypeOK, TaskTypeOK
  <2>4. TaskTypeOK'
    BY <2>1, <2>2, <2>3 DEF RapTypeOK, TaskTypeOK
  <2> QED
    BY <1>2, <2>1, <2>4 DEF RapTypeOK, StoreTypeOK, DaemonTypeOK, daemonVars
<1>5. CASE GivesUp(t)
  <2> DEFINE r == [Mine(t) EXCEPT !.status = "failed", !.attempts = @ + tries[t]]
  <2>1. r \in Record /\ Upsert(t[1], obj[t], r)
    BY <1>1, <1>5, RecordResults DEF GivesUp, Texts
  <2>2. \/ /\ Goes(t, obj[t], "aborting") /\ tries' = [tries EXCEPT ![t] = 0]
           /\ AbortBegins(t, cur', rec')
        \/ Rests(t) /\ UNCHANGED abort
    BY <1>5 DEF GivesUp
  <2> HIDE DEF r
  <2>3. StoreTypeOK'
    BY <1>1, <1>2, <2>1, UpsertTypes DEF RapTypeOK, StoreTypeOK
  <2>4. CASE /\ Goes(t, obj[t], "aborting") /\ tries' = [tries EXCEPT ![t] = 0]
             /\ AbortBegins(t, cur', rec')
    <3>1. /\ abort' \in [Aborters -> Aborts] /\ abort'[t].stage # "off"
          /\ \A b \in Aborters \ {t} : abort'[b] = abort[b]
      BY <1>1, <2>4, AbortBeginsTypes DEF RapTypeOK, TaskTypeOK
    <3>2. /\ pc' \in [Tasks -> Places] /\ obj' \in [Tasks -> Objects]
          /\ tries' \in [Tasks -> 0..MaxAttempts]
          /\ pc'[t] = "aborting" /\ \A i \in Tasks \ {t} : pc'[i] = pc[i]
          /\ \A i \in Tasks \ {t} : obj'[i] = obj[i] /\ tries'[i] = tries[i]
      BY <2>4, RapAssumption DEF Goes, RapTypeOK, TaskTypeOK, Places
    <3>3. TaskTypeOK'
      <4>1. \A i \in Tasks : pc'[i] = "off" => obj'[i] = 0 /\ tries'[i] = 0
        BY <3>2 DEF RapTypeOK, TaskTypeOK
      <4>2. \A i \in Tasks : pc'[i] = "aborting" <=> abort'[i].stage # "off"
        BY <3>1, <3>2, TaskParts DEF RapTypeOK, TaskTypeOK
      <4> QED
        BY <3>1, <3>2, <4>1, <4>2 DEF TaskTypeOK
    <3> QED
      BY <1>2, <2>3, <3>2, <3>3, PhasesKept DEF RapTypeOK, DaemonTypeOK, daemonVars
  <2>5. CASE Rests(t) /\ UNCHANGED abort
    <3>1. TaskTypeOK'
      BY <1>2, <2>5, RestsTypes DEF RapTypeOK
    <3>2. pc'[t] = "off" /\ \A i \in Tasks \ {t} : pc'[i] = pc[i]
      BY <2>5 DEF Rests, Goes, RapTypeOK, TaskTypeOK
    <3> QED
      BY <1>2, <2>3, <3>1, <3>2, PhasesKept DEF RapTypeOK, DaemonTypeOK, daemonVars
  <2> QED
    BY <2>2, <2>4, <2>5
<1> QED
  BY <1>3, <1>4, <1>5

\* An abort that goes on to another stage, its task staying where it is.
LEMMA StageTypes ==
  ASSUME TaskTypeOK, NEW a \in Aborters, NEW s \in Aborts, s.stage # "off",
         abort[a].stage # "off", abort' = [abort EXCEPT ![a] = s], UNCHANGED taskVars
  PROVE  TaskTypeOK'
  BY TaskParts DEF TaskTypeOK, taskVars

LEMMA Stages ==
  /\ \A b \in BOOLEAN : [stage |-> "device", left |-> {b}] \in Aborts
  /\ \A l \in SUBSET (1..MaxLeases) : /\ [stage |-> "leases", left |-> l] \in Aborts
                                      /\ [stage |-> "listed", left |-> l] \in Aborts
  /\ [stage |-> "list", left |-> {}] \in Aborts
  /\ NoAbort \in Aborts
<1>1. \A b \in BOOLEAN : {b} \in {{TRUE}, {FALSE}}
  OBVIOUS
<1>2. \A b \in BOOLEAN : [stage |-> "device", left |-> {b}] \in Aborts
  BY <1>1 DEF Aborts
<1>3. \A l \in SUBSET (1..MaxLeases) : /\ [stage |-> "leases", left |-> l] \in Aborts
                                       /\ [stage |-> "listed", left |-> l] \in Aborts
  BY DEF Aborts
<1>4. [stage |-> "list", left |-> {}] \in Aborts /\ NoAbort \in Aborts
  BY DEF Aborts, NoAbort
<1> QED
  BY <1>2, <1>3, <1>4

LEMMA AbortTypes ==
  ASSUME TypeInv, NEW a \in Aborters, AbortStep(a)
  PROVE  TypeInv'
<1> USE DEF TypeInv
<1>1. CASE AbortCancels(a)
  <2>1. /\ UNCHANGED <<noted, leases, taskVars, cancel, lease, granted, leaseOf, hot, late,
                       received, closed>>
        /\ abort[a].stage = "ops"
    BY <1>1 DEF AbortCancels, historyVars
  <2>2. PICK x \in abort[a].left :
          LET r == [rec[x] EXCEPT !.cancelled = TRUE] IN
          /\ Stops(x[1]) \/ UNCHANGED op
          /\ IF r.status \in {"accepted", "running", "delivering"}
             THEN Upsert(x[1], x[2], [r EXCEPT !.status = "cancelled"])
             ELSE rec' = [rec EXCEPT ![x] = r] /\ UNCHANGED <<cur, disk>>
          /\ abort' = [abort EXCEPT ![a] = Aborting(@.left \ {x})]
    BY <1>1 DEF AbortCancels
  <2>3. abort[a].left \subseteq Calls \X Objects
    BY <2>1 DEF RapTypeOK, TaskTypeOK, Aborts
  <2>4. x[1] \in Calls /\ x[2] \in Objects /\ x = <<x[1], x[2]>> /\ rec[x] \in Record
    BY <2>3 DEF RapTypeOK, StoreTypeOK
  <2>5. StoreTypeOK'
    <3>1. CASE Upsert(x[1], x[2], [[rec[x] EXCEPT !.cancelled = TRUE] EXCEPT !.status = "cancelled"])
      <4>1. [[rec[x] EXCEPT !.cancelled = TRUE] EXCEPT !.status = "cancelled"] \in Record
        BY <2>4, RecordMarks
      <4> QED
        BY <2>1, <2>4, <3>1, <4>1, UpsertTypes DEF RapTypeOK, StoreTypeOK
    <3>2. CASE rec' = [rec EXCEPT ![x] = [rec[x] EXCEPT !.cancelled = TRUE]] /\ UNCHANGED <<cur, disk>>
      <4>1. [rec[x] EXCEPT !.cancelled = TRUE] \in Record
        BY <2>4, RecordMarks
      <4> QED
        BY <2>1, <2>4, <3>2, <4>1 DEF RapTypeOK, StoreTypeOK
    <3> QED
      BY <2>2, <3>1, <3>2
  <2>6. TaskTypeOK'
    <3>1. abort[a].left \ {x} \in SUBSET (Calls \X Objects)
      BY <2>3
    <3> QED
      BY <2>1, <2>2, <3>1, AbortingTypes, StageTypes DEF RapTypeOK, StoreTypeOK
  <2> QED
    BY <2>1, <2>2, <2>5, <2>6 DEF RapTypeOK, DaemonTypeOK, Stops, taskVars
<1>2. CASE AbortReleases(a)
  <2>1. /\ UNCHANGED <<rec, cur, disk, noted, taskVars, cancel, op, granted, leaseOf, hot, late,
                       received, closed>>
        /\ abort[a].stage \in {"leases", "listed"}
        /\ lease' \in {0, lease} /\ leases' \subseteq leases
    BY <1>2 DEF AbortReleases, historyVars
  <2>2. abort[a].left \subseteq 1..MaxLeases
    BY <2>1 DEF RapTypeOK, TaskTypeOK, Aborts
  <2>3. PICK s : /\ abort' = [abort EXCEPT ![a] = s]
                 /\ \/ s = [stage |-> "device", left |-> {noted}]
                    \/ \E id \in abort[a].left : s = [stage |-> "leases", left |-> abort[a].left \ {id}]
                    \/ s = [stage |-> "list", left |-> {}]
    BY <1>2, <2>1 DEF AbortReleases
  <2>4. s \in Aborts /\ s.stage # "off"
    <3>1. CASE s = [stage |-> "device", left |-> {noted}]
      BY <3>1, Stages DEF RapTypeOK, StoreTypeOK
    <3>2. CASE \E id \in abort[a].left : s = [stage |-> "leases", left |-> abort[a].left \ {id}]
      <4>1. PICK id \in abort[a].left : s = [stage |-> "leases", left |-> abort[a].left \ {id}]
        BY <3>2
      <4>2. abort[a].left \ {id} \in SUBSET (1..MaxLeases)
        BY <2>2
      <4> QED
        BY <4>1, <4>2, Stages
    <3>3. CASE s = [stage |-> "list", left |-> {}]
      BY <3>3, Stages
    <3> QED
      BY <2>3, <3>1, <3>2, <3>3
  <2>5. TaskTypeOK'
    BY <2>1, <2>3, <2>4, StageTypes DEF RapTypeOK
  <2>6. StoreTypeOK'
    BY <2>1 DEF RapTypeOK, StoreTypeOK
  <2>7. DaemonTypeOK'
    BY <2>1, RapAssumption DEF RapTypeOK, DaemonTypeOK
  <2> QED
    BY <2>1, <2>5, <2>6, <2>7 DEF RapTypeOK, taskVars
<1>3. CASE AbortLists(a)
  <2>1. UNCHANGED <<storeVars, taskVars, cancel, daemonVars, late, received, closed>>
        /\ abort[a].stage = "list"
    BY <1>3 DEF AbortLists, historyVars
  <2>2. PICK s : /\ abort' = [abort EXCEPT ![a] = s]
                 /\ \/ s = [stage |-> "listed", left |-> {lease}] /\ lease # 0
                    \/ s = [stage |-> "device", left |-> {noted}]
    BY <1>3 DEF AbortLists
  <2>3. s \in Aborts /\ s.stage # "off"
    <3>1. CASE s = [stage |-> "listed", left |-> {lease}] /\ lease # 0
      <4>1. {lease} \in SUBSET (1..MaxLeases)
        BY <3>1 DEF RapTypeOK, DaemonTypeOK
      <4> QED
        BY <3>1, <4>1, Stages
    <3>2. CASE s = [stage |-> "device", left |-> {noted}]
      BY <3>2, Stages DEF RapTypeOK, StoreTypeOK
    <3> QED
      BY <2>2, <3>1, <3>2
  <2>4. TaskTypeOK'
    BY <2>1, <2>2, <2>3, StageTypes DEF RapTypeOK
  <2> QED
    BY <2>1, <2>4 DEF RapTypeOK, StoreTypeOK, DaemonTypeOK, storeVars, taskVars, daemonVars
<1>4. CASE AbortDisarms(a)
  <2>1. /\ UNCHANGED <<storeVars, cancel, op, lease, granted, leaseOf, late, received>>
        /\ hot' \in BOOLEAN /\ abort[a].stage = "device"
        /\ abort' = [abort EXCEPT ![a] = NoAbort]
    BY <1>4 DEF AbortDisarms, RapTypeOK, DaemonTypeOK
  <2>2. NoAbort \in Aborts /\ NoAbort.stage = "off"
    BY Stages DEF NoAbort
  <2>3. CASE a \in Tasks
    <3>1. Rests(a) /\ UNCHANGED closed
      BY <1>4, <2>3 DEF AbortDisarms
    <3>2. TaskTypeOK'
      BY <2>1, <2>2, <2>3, <3>1, TaskParts, RapAssumption
         DEF RapTypeOK, TaskTypeOK, Rests, Goes, Places, Objects
    <3>3. pc'[a] = "off" /\ \A i \in Tasks \ {a} : pc'[i] = pc[i]
      BY <2>3, <3>1 DEF Rests, Goes, RapTypeOK, TaskTypeOK
    <3> QED
      BY <2>1, <2>3, <3>1, <3>2, <3>3, PhasesKept DEF RapTypeOK, StoreTypeOK, DaemonTypeOK, storeVars
  <2>4. CASE a \notin Tasks
    <3>1. UNCHANGED taskVars /\ closed' = "closed"
      BY <1>4, <2>4 DEF AbortDisarms
    <3>2. TaskTypeOK'
      BY <2>1, <2>2, <2>4, <3>1, TaskParts DEF RapTypeOK, TaskTypeOK, taskVars
    <3> QED
      BY <2>1, <3>1, <3>2 DEF RapTypeOK, StoreTypeOK, DaemonTypeOK, storeVars, taskVars
  <2> QED
    BY <2>3, <2>4
<1> QED
  BY <1>1, <1>2, <1>3, <1>4 DEF AbortStep

\* The daemon's own steps, and a close.
LEMMA OtherTypes ==
  ASSUME TypeInv, Close \/ \E k \in Calls : LandsLate(k) \/ OpEnds(k)
  PROVE  TypeInv'
<1> USE DEF TypeInv
<1>1. CASE Close
  <2>1. /\ UNCHANGED <<storeVars, taskVars, cancel, daemonVars, late, received>>
        /\ closed = "no" /\ closed' = "closing" /\ AbortBegins(<<"close">>, cur, rec)
    BY <1>1 DEF Close
  <2>2. <<"close">> \in Aborters /\ <<"close">> \notin Tasks
    BY DEF Aborters, Tasks
  <2>3. /\ abort' \in [Aborters -> Aborts]
        /\ \A b \in Aborters \ {<<"close">>} : abort'[b] = abort[b]
    BY <2>1, <2>2, AbortBeginsTypes DEF RapTypeOK, TaskTypeOK
  <2>4. TaskTypeOK'
    BY <2>1, <2>2, <2>3, TaskParts DEF RapTypeOK, TaskTypeOK, taskVars
  <2> QED
    BY <2>1, <2>4 DEF RapTypeOK, StoreTypeOK, DaemonTypeOK, storeVars, taskVars, daemonVars
<1>2. ASSUME NEW k \in Calls, LandsLate(k)
      PROVE  TypeInv'
  <2>1. /\ UNCHANGED <<storeVars, taskVars, abort, cancel, received, closed>>
        /\ late' \subseteq late
    BY <1>2 DEF LandsLate
  <2>2. DaemonTypeOK' /\ \A i \in Tasks : leaseOf[i[1]] # 0 => leaseOf'[i[1]] # 0
    <3>1. CASE UNCHANGED <<lease, granted, leaseOf>> /\ Begins(k)
      BY <3>1 DEF RapTypeOK, DaemonTypeOK, Begins
    <3>2. CASE UNCHANGED <<op, hot>> /\ Grants(k)
      <4>1. granted + 1 \in 1..MaxLeases /\ leaseOf' = [leaseOf EXCEPT ![k] = granted + 1]
        BY <3>2, RapAssumption DEF Grants, RapTypeOK, DaemonTypeOK
      <4> QED
        BY <3>2, <4>1, TaskParts, RapAssumption DEF Grants, RapTypeOK, DaemonTypeOK
    <3> QED
      BY <1>2, <3>1, <3>2 DEF LandsLate
  <2>3. RapTypeOK'
    BY <2>1, <2>2 DEF RapTypeOK, StoreTypeOK, TaskTypeOK, storeVars, taskVars
  <2> QED
    BY <2>1, <2>2, <2>3 DEF taskVars
<1>3. ASSUME NEW k \in Calls, OpEnds(k)
      PROVE  TypeInv'
  <2>1. /\ UNCHANGED <<storeVars, taskVars, abort, cancel, lease, granted, leaseOf, hot, late,
                       received, closed>>
        /\ op' \in [Calls -> {"none", "running", "asked", "over"}]
    BY <1>3 DEF OpEnds, historyVars, RapTypeOK, DaemonTypeOK
  <2> QED
    BY <2>1 DEF RapTypeOK, StoreTypeOK, TaskTypeOK, DaemonTypeOK, storeVars, taskVars
<1> QED
  BY <1>1, <1>2, <1>3

\* A journaled call resumes as a record.
LEMMA ResumedTypes ==
  ASSUME NEW r \in Record
  PROVE  Resumed(r) \in Record
  BY DEF Resumed, Record, Texts

LEMMA ResumedPlaces ==
  ASSUME NEW t \in Tasks
  PROVE  /\ ResumedAt(t) \in Places \ {"aborting", "answering"}
         /\ ResumedAt(t) = "acquiring" => t[1] \in LeaseCalls
         /\ ResumedAt(t) = "invoking" => t[1] \notin LeaseCalls
  BY DEF ResumedAt, Executing, Watching, Places

LEMMA RestartTypes ==
  ASSUME TypeInv, CrashAndRestart
  PROVE  TypeInv'
<1> USE DEF TypeInv
<1> DEFINE kept == [k \in Calls |-> IF cur[k] = Absent THEN disk[k] ELSE Resumed(disk[k])]
<1>1. /\ disk' = kept
      /\ rec' = [x \in Calls \X Objects |-> IF x[2] = 0 THEN kept[x[1]] ELSE Accepted]
      /\ cur' = [k \in Calls |-> IF cur[k] = Absent THEN Absent ELSE 0]
      /\ pc' = [t \in Tasks |-> ResumedAt(t)]
      /\ obj' = [t \in Tasks |-> 0]
      /\ tries' = [t \in Tasks |-> IF ResumedAt(t) = "posting" THEN 1 ELSE 0]
      /\ noted' = (noted \/ \E t \in Tasks : ResumedAt(t) = Executing(t[1]))
      /\ abort' = [a \in Aborters |-> NoAbort] /\ cancel' = [k \in Calls |-> "off"]
      /\ late' = late \cup {k \in Calls : pc[<<k, "run">>] \in {"invoking", "acquiring"}}
      /\ closed' = IF closed = "closing" THEN "no" ELSE closed
      /\ UNCHANGED <<leases, daemonVars, received>>
  BY DEF CrashAndRestart
<1>2. kept \in [Calls -> Record]
  BY ResumedTypes DEF RapTypeOK, StoreTypeOK
<1> HIDE DEF kept
<1>3. StoreTypeOK'
  <2>1. rec' \in [Calls \X Objects -> Record]
    BY <1>1, <1>2, AcceptedIsRecord
  <2>2. noted' \in BOOLEAN
    BY <1>1
  <2> QED
    BY <1>1, <1>2, <2>1, <2>2 DEF RapTypeOK, StoreTypeOK, Objects
<1>4. TaskTypeOK'
  <2>1. pc' \in [Tasks -> Places] /\ \A t \in Tasks : pc'[t] # "aborting"
    BY <1>1, ResumedPlaces
  <2>2. obj' \in [Tasks -> Objects] /\ tries' \in [Tasks -> 0..MaxAttempts]
    BY <1>1, RapAssumption DEF Objects
  <2>3. abort' \in [Aborters -> Aborts] /\ \A a \in Aborters : abort'[a].stage = "off"
    BY <1>1, Stages DEF NoAbort
  <2>4. \A t \in Tasks : pc'[t] = "off" => obj'[t] = 0 /\ tries'[t] = 0
    BY <1>1
  <2> QED
    BY <2>1, <2>2, <2>3, <2>4, TaskParts DEF TaskTypeOK
<1>5. RapTypeOK'
  BY <1>1, <1>3, <1>4 DEF RapTypeOK, DaemonTypeOK, daemonVars
<1> QED
  BY <1>1, <1>5, ResumedPlaces

LEMMA RapInitTypes == RapInit => TypeInv
<1> SUFFICES ASSUME RapInit
             PROVE  TypeInv
  OBVIOUS
<1>1. StoreTypeOK
  BY AcceptedIsRecord DEF RapInit, StoreTypeOK
<1>2. TaskTypeOK
  BY Stages, TaskParts, RapAssumption DEF RapInit, TaskTypeOK, Places, Objects, NoAbort
<1>3. DaemonTypeOK
  <2>1. MaxLeases \in Nat
    BY RapAssumption
  <2>2. op \in [Calls -> {"none", "running", "asked", "over"}] /\ hot \in BOOLEAN
    BY DEF RapInit
  <2>3. lease \in 0..MaxLeases /\ granted \in 0..MaxLeases /\ leaseOf \in [Calls -> 0..MaxLeases]
    BY <2>1 DEF RapInit
  <2> QED
    BY <2>2, <2>3 DEF DaemonTypeOK
<1>4. RapTypeOK
  BY <1>1, <1>2, <1>3 DEF RapInit, RapTypeOK
<1> QED
  BY <1>4 DEF TypeInv, RapInit

LEMMA RapNextTypes == TypeInv /\ [RapNext]_vars => TypeInv'
<1> SUFFICES ASSUME TypeInv, [RapNext]_vars
             PROVE  TypeInv'
  OBVIOUS
<1>1. CASE UNCHANGED vars
  BY <1>1 DEF vars, storeVars, taskVars, daemonVars, historyVars, TypeInv, RapTypeOK,
              StoreTypeOK, TaskTypeOK, DaemonTypeOK
<1>2. CASE \E k \in Calls : Accept(k) \/ AcceptAgain(k) \/ Cancel(k) \/ CancelGoesOn(k)
  BY <1>2, RequestTypes
<1>3. CASE \E t \in Tasks : TaskStep(t) \/ TimesUp(t)
  BY <1>3, AnswerTypes, WatchTypes, PostTypes DEF TaskStep
<1>4. CASE \E a \in Aborters : AbortStep(a)
  BY <1>4, AbortTypes
<1>5. CASE Close \/ \E k \in Calls : LandsLate(k) \/ OpEnds(k)
  BY <1>5, OtherTypes
<1>6. CASE CrashAndRestart
  BY <1>6, RestartTypes
<1> QED
  BY <1>1, <1>2, <1>3, <1>4, <1>5, <1>6 DEF RapNext

\* The adapter's tables keep their types, with the tasks that rest at no object
\* and an abort exactly for the tasks that run one.
THEOREM RapTypeCorrect == RapSpec => []RapTypeOK
<1>1. TypeInv => RapTypeOK
  BY DEF TypeInv
<1> QED
  BY <1>1, RapInitTypes, RapNextTypes, PTL DEF RapSpec
-----------------------------------------------------------------------------
(* Why no call has two results. A result enters the journal only from the one    *)
(* task that may execute the call, and only while the journal has none; from     *)
(* then on the record the Map has, the journal and every delivery agree on it.   *)
(* Duplicates may have replaced the record of a task that watches its operation: *)
(* the replacement then has no operation and no task.                            *)
Early == {"invoking", "acquiring", "answering"}
Watches == {"asking", "polling"}
Unfinished(r) == r.status \in {"accepted", "running", "delivering"}

CallAgrees(k) ==
  /\ cur[k] = Absent => /\ received[k] = {}
                        /\ pc[<<k, "run">>] = "off" /\ pc[<<k, "again">>] = "off"
  /\ received[k] # {} => received[k] = {disk[k].text} /\ disk[k].text # "none"
  /\ cur[k] # Absent => rec[<<k, cur[k]>>].text = disk[k].text
  /\ \A w \in {"run", "again"} :
        pc[<<k, w>>] = "posting" => obj[<<k, w>>] = cur[k] /\ disk[k].text # "none"
  /\ pc[<<k, "again">>] \notin Early
  /\ pc[<<k, "run">>] \in Early \cup Watches =>
        disk[k].text = "none" /\ rec[<<k, obj[<<k, "run">>]>>].text = "none"
  /\ pc[<<k, "run">>] \in Early =>
        /\ obj[<<k, "run">>] = cur[k]
        /\ ~rec[<<k, cur[k]>>].known /\ rec[<<k, cur[k]>>].status = "running"
  /\ pc[<<k, "run">>] \in Watches /\ obj[<<k, "run">>] # cur[k] =>
        ~rec[<<k, cur[k]>>].known /\ rec[<<k, cur[k]>>].status = "accepted"

\* A record an abort may cancel without bringing it back into the Map.
Cancellable(x) == rec[x].known /\ (Unfinished(rec[x]) => cur[x[1]] = x[2])
AbortAgrees(a) ==
  abort[a].stage = "ops" => \A x \in abort[a].left : Cancellable(x)

AgreeInv == (\A k \in Calls : CallAgrees(k)) /\ (\A a \in Aborters : AbortAgrees(a))

LEMMA UpsertPoints ==
  ASSUME StoreTypeOK, NEW k \in Calls, NEW g \in Objects, NEW r, Upsert(k, g, r)
  PROVE  /\ rec'[<<k, g>>] = r /\ cur'[k] = g /\ disk'[k] = r
         /\ \A x \in Calls \X Objects : x # <<k, g>> => rec'[x] = rec[x]
         /\ \A i \in Calls \ {k} : cur'[i] = cur[i] /\ disk'[i] = disk[i]
  BY DEF StoreTypeOK, Upsert

LEMMA GoesPoints ==
  ASSUME TaskTypeOK, NEW t \in Tasks, NEW g, NEW w, Goes(t, g, w)
  PROVE  /\ pc'[t] = w /\ obj'[t] = g
         /\ \A i \in Tasks \ {t} : pc'[i] = pc[i] /\ obj'[i] = obj[i]
  BY DEF TaskTypeOK, Goes

\* A step that leaves a call alone.
LEMMA CallKept ==
  ASSUME TypeInv, NEW k \in Calls, CallAgrees(k),
         cur'[k] = cur[k], disk'[k] = disk[k], received'[k] = received[k],
         \A g \in Objects : rec'[<<k, g>>] = rec[<<k, g>>],
         \A w \in {"run", "again"} : pc'[<<k, w>>] = pc[<<k, w>>] /\ obj'[<<k, w>>] = obj[<<k, w>>]
  PROVE  CallAgrees(k)'
<1>1. cur[k] \in Objects \/ cur[k] = Absent
  BY DEF TypeInv, RapTypeOK, StoreTypeOK
<1>2. obj[<<k, "run">>] \in Objects /\ pc[<<k, "run">>] # "off" => cur[k] # Absent
  BY DEF CallAgrees
<1>3. obj[<<k, "run">>] \in Objects
  BY TaskParts DEF TypeInv, RapTypeOK, TaskTypeOK
<1> QED
  BY <1>1, <1>2, <1>3 DEF CallAgrees, Early, Watches

LEMMA AbortsKept ==
  ASSUME TypeInv, AgreeInv, UNCHANGED abort,
         \A x \in Calls \X Objects : Cancellable(x) => Cancellable(x)'
  PROVE  \A a \in Aborters : AbortAgrees(a)'
<1> SUFFICES ASSUME NEW a \in Aborters, abort[a].stage = "ops", NEW x \in abort[a].left
             PROVE  Cancellable(x)'
  BY DEF AbortAgrees
<1>1. x \in Calls \X Objects
  BY DEF TypeInv, RapTypeOK, TaskTypeOK, Aborts
<1> QED
  BY <1>1 DEF AgreeInv, AbortAgrees

\* A step of one call.
LEMMA OneCall ==
  ASSUME TypeInv, AgreeInv, NEW k \in Calls, CallAgrees(k)',
         \A a \in Aborters : AbortAgrees(a)',
         \A i \in Calls \ {k} :
            /\ cur'[i] = cur[i] /\ disk'[i] = disk[i] /\ received'[i] = received[i]
            /\ \A g \in Objects : rec'[<<i, g>>] = rec[<<i, g>>]
            /\ \A w \in {"run", "again"} :
                  pc'[<<i, w>>] = pc[<<i, w>>] /\ obj'[<<i, w>>] = obj[<<i, w>>]
  PROVE  AgreeInv'
<1>1. \A i \in Calls \ {k} : CallAgrees(i)'
  BY CallKept DEF AgreeInv
<1> QED
  BY <1>1 DEF AgreeInv

\* A result is journaled and posted.
LEMMA DeliverAgrees ==
  ASSUME TypeInv, AgreeInv, NEW t \in Tasks, NEW g \in Objects, NEW x \in Texts \ {"none"},
         Deliver(t, g, x), UNCHANGED <<received, abort>>,
         cur[t[1]] # Absent,
         received[t[1]] # {} => disk[t[1]].text = x,
         t[2] = "run" \/ pc[<<t[1], "run">>] \notin Early \cup Watches,
         g = cur[t[1]] \/ (t[2] = "run" /\ disk[t[1]].text = "none"
                             /\ ~rec[<<t[1], cur[t[1]]>>].known)
  PROVE  AgreeInv'
<1> DEFINE k == t[1]
<1> DEFINE r == [rec[<<k, g>>] EXCEPT !.text = x, !.status = "delivering"]
<1>1. k \in Calls /\ rec[<<k, g>>] \in Record /\ t = <<k, t[2]>> /\ t[2] \in {"run", "again"}
      /\ <<k, "run">> \in Tasks /\ <<k, "again">> \in Tasks /\ cur[k] \in Objects
  BY TaskParts DEF TypeInv, RapTypeOK, StoreTypeOK
<1>2. r.text = x /\ r.status = "delivering" /\ r.known = rec[<<k, g>>].known
  BY <1>1 DEF Record
<1>3. Upsert(k, g, r) /\ Goes(t, g, "posting")
  BY DEF Deliver
<1> HIDE DEF r
<1>4. /\ rec'[<<k, g>>] = r /\ cur'[k] = g /\ disk'[k] = r
      /\ \A y \in Calls \X Objects : y # <<k, g>> => rec'[y] = rec[y]
      /\ \A i \in Calls \ {k} : cur'[i] = cur[i] /\ disk'[i] = disk[i]
  BY <1>1, <1>3, UpsertPoints DEF TypeInv, RapTypeOK
<1>5. /\ pc'[t] = "posting" /\ obj'[t] = g
      /\ \A i \in Tasks \ {t} : pc'[i] = pc[i] /\ obj'[i] = obj[i]
  BY <1>1, <1>3, GoesPoints DEF TypeInv, RapTypeOK
<1>6. CallAgrees(k)
  BY <1>1 DEF AgreeInv
<1>7. CallAgrees(k)'
  <2>1. /\ cur'[k] # Absent /\ rec'[<<k, cur'[k]>>].text = disk'[k].text
        /\ disk'[k].text = x /\ x # "none"
    BY <1>2, <1>4 DEF Absent, Objects
  <2>2. received'[k] # {} => received'[k] = {disk'[k].text}
    BY <1>6, <2>1 DEF CallAgrees
  <2>3. CASE t[2] = "run"
    <3>1. pc'[<<k, "run">>] = "posting" /\ obj'[<<k, "run">>] = g
      BY <1>1, <1>5, <2>3
    <3>2. pc'[<<k, "again">>] = pc[<<k, "again">>] /\ obj'[<<k, "again">>] = obj[<<k, "again">>]
      BY <1>1, <1>5, <2>3
    <3>3. pc[<<k, "again">>] = "posting" => obj[<<k, "again">>] = g
      BY <1>6 DEF CallAgrees
    <3> QED
      BY <1>4, <1>6, <2>1, <2>2, <3>1, <3>2, <3>3 DEF CallAgrees, Early, Watches
  <2>4. CASE t[2] = "again"
    <3>1. pc'[<<k, "again">>] = "posting" /\ obj'[<<k, "again">>] = g
      BY <1>1, <1>5, <2>4
    <3>2. pc'[<<k, "run">>] = pc[<<k, "run">>] /\ obj'[<<k, "run">>] = obj[<<k, "run">>]
      BY <1>1, <1>5, <2>4
    <3> QED
      BY <1>4, <1>6, <2>1, <2>2, <2>4, <3>1, <3>2 DEF CallAgrees, Early, Watches
  <2> QED
    BY <1>1, <2>3, <2>4
<1>8. \A y \in Calls \X Objects : Cancellable(y) => Cancellable(y)'
  <2> SUFFICES ASSUME NEW i \in Calls, NEW h \in Objects, Cancellable(<<i, h>>)
               PROVE  Cancellable(<<i, h>>)'
    BY DEF Cancellable
  <2>1. CASE i # k
    BY <1>4, <2>1 DEF Cancellable
  <2>2. CASE i = k /\ h = g
    BY <1>2, <1>4, <2>2 DEF Cancellable
  <2>3. CASE i = k /\ h # g
    <3>1. h # cur[k]
      BY <1>1, <2>3 DEF Cancellable, Objects
    <3> QED
      BY <1>1, <1>4, <2>3, <3>1 DEF Cancellable
  <2> QED
    BY <2>1, <2>2, <2>3
<1>9. \A i \in Calls \ {k}, w \in {"run", "again"} : <<i, w>> \in Tasks \ {t}
  BY <1>1, TaskParts
<1> QED
  BY <1>1, <1>4, <1>5, <1>7, <1>8, <1>9, AbortsKept, OneCall

\* A task that executes or watches a call comes to its end.
LEMMA ConcludesAgrees ==
  ASSUME TypeInv, AgreeInv, NEW t \in Tasks, NEW x \in {"result", "pending", "error"},
         pc[t] \in Early \cup Watches, Concludes(t, x), UNCHANGED <<received, abort>>
  PROVE  AgreeInv'
<1>1. t[1] \in Calls /\ t = <<t[1], t[2]>> /\ t[2] \in {"run", "again"} /\ obj[t] \in Objects
      /\ CallAgrees(t[1])
  BY TaskParts DEF TypeInv, RapTypeOK, TaskTypeOK, AgreeInv
<1>2. CASE t[2] = "run"
  <2>1. PICK y \in Texts \ {"none"} : Deliver(t, obj[t], y)
    BY <1>2 DEF Concludes, Texts
  <2>2. cur[t[1]] # Absent /\ disk[t[1]].text = "none" /\ received[t[1]] = {}
    BY <1>1, <1>2 DEF CallAgrees, Early, Watches
  <2>3. obj[t] = cur[t[1]] \/ ~rec[<<t[1], cur[t[1]]>>].known
    BY <1>1, <1>2 DEF CallAgrees
  <2> QED
    BY <1>1, <1>2, <2>1, <2>2, <2>3, DeliverAgrees
<1>3. CASE t[2] = "again"
  <2>1. Rests(t) /\ UNCHANGED <<rec, cur, disk>>
    BY <1>3 DEF Concludes
  <2>2. pc'[t] = "off" /\ \A i \in Tasks \ {t} : pc'[i] = pc[i] /\ obj'[i] = obj[i]
    BY <2>1, GoesPoints DEF Rests, TypeInv, RapTypeOK
  <2>3. CallAgrees(t[1])'
    <3>1. pc'[<<t[1], "run">>] = pc[<<t[1], "run">>] /\ obj'[<<t[1], "run">>] = obj[<<t[1], "run">>]
          /\ pc'[<<t[1], "again">>] = "off"
      BY <1>1, <1>3, <2>2, TaskParts
    <3> QED
      BY <1>1, <2>1, <3>1 DEF CallAgrees, Early, Watches
  <2>4. \A a \in Aborters : AbortAgrees(a)'
    BY <2>1, AbortsKept DEF Cancellable
  <2>5. \A i \in Calls \ {t[1]}, w \in {"run", "again"} : <<i, w>> \in Tasks \ {t}
    BY <1>1, TaskParts
  <2> QED
    BY <1>1, <2>1, <2>2, <2>3, <2>4, <2>5, OneCall
<1> QED
  BY <1>1, <1>2, <1>3

\* The tasks of other calls are not those of this one.
LEMMA OtherTasks ==
  ASSUME NEW t \in Tasks
  PROVE  \A i \in Calls \ {t[1]}, w \in {"run", "again"} : <<i, w>> \in Tasks \ {t}
  BY TaskParts

LEMMA AcceptAgrees ==
  ASSUME TypeInv, AgreeInv, NEW k \in Calls, Accept(k)
  PROVE  AgreeInv'
<1> DEFINE g == IF cur[k] = 0 THEN 1 ELSE 0
<1> DEFINE t == <<k, "run">>
<1> DEFINE u == <<k, "again">>
<1>1. /\ t \in Tasks /\ u \in Tasks /\ t # u /\ t[1] = k /\ g \in Objects /\ g # cur[k]
      /\ CallAgrees(k) /\ cur[k] \in Objects \cup {Absent} /\ StoreTypeOK /\ TaskTypeOK
  BY TaskParts DEF Objects, Absent, AgreeInv, TypeInv, RapTypeOK, StoreTypeOK
<1>2. /\ Dropped(<<k, g>>) /\ UNCHANGED <<received, abort>>
      /\ cur[k] # Absent => /\ rec[<<k, cur[k]>>].status = "cancelled"
                            /\ rec[<<k, cur[k]>>].text = "none"
  BY DEF Accept
<1>3. \/ /\ InFlight(k) /\ Upsert(k, g, Accepted) /\ UNCHANGED <<pc, obj>>
      \/ /\ ~InFlight(k) /\ Upsert(k, g, [Accepted EXCEPT !.status = "running"])
         /\ Goes(t, g, Executing(k))
  BY DEF Accept
<1> HIDE DEF g
<1>4. PICK r \in {Accepted, [Accepted EXCEPT !.status = "running"]} : Upsert(k, g, r)
  BY <1>3
<1>5. r.text = "none" /\ ~r.known
  BY DEF Accepted
<1>6. /\ rec'[<<k, g>>] = r /\ cur'[k] = g /\ disk'[k] = r
      /\ \A x \in Calls \X Objects : x # <<k, g>> => rec'[x] = rec[x]
      /\ \A i \in Calls \ {k} : cur'[i] = cur[i] /\ disk'[i] = disk[i]
  BY <1>1, <1>4, UpsertPoints
<1>7. received[k] = {} /\ (cur[k] # Absent => disk[k].text = "none")
  BY <1>1, <1>2 DEF CallAgrees
<1>8. pc[t] # "posting" /\ pc[u] # "posting"
  BY <1>1, <1>7 DEF CallAgrees
<1>9. g # Absent
  BY <1>1 DEF Objects, Absent
<1>10. CallAgrees(k)'
  <2>1. CASE InFlight(k)
    <3>1. pc' = pc /\ obj' = obj
      BY <1>3, <2>1
    <3>2. r.status = "accepted"
      <4>1. Upsert(k, g, Accepted)
        BY <1>3, <2>1
      <4>2. disk'[k] = Accepted
        BY <1>1, <4>1, UpsertPoints
      <4> QED
        BY <1>6, <4>2 DEF Accepted
    <3>3. pc[t] \notin Early
      BY <1>1, <1>2 DEF CallAgrees
    <3>4. obj[t] \in Objects
      BY <1>1 DEF TaskTypeOK
    <3>5. pc[t] \in Watches => rec'[<<k, obj[t]>>].text = "none"
      BY <1>1, <1>5, <1>6, <3>4 DEF CallAgrees
    <3> QED
      BY <1>1, <1>2, <1>5, <1>6, <1>7, <1>8, <1>9, <3>1, <3>2, <3>3, <3>5
         DEF CallAgrees, Early, Watches
  <2>2. CASE ~InFlight(k)
    <3>1. /\ pc'[t] = Executing(k) /\ obj'[t] = g /\ pc'[u] = pc[u] /\ obj'[u] = obj[u]
      BY <1>1, <1>3, <2>2, GoesPoints
    <3>2. r.status = "running"
      <4>1. Upsert(k, g, [Accepted EXCEPT !.status = "running"])
        BY <1>3, <2>2
      <4>2. disk'[k] = [Accepted EXCEPT !.status = "running"]
        BY <1>1, <4>1, UpsertPoints
      <4> QED
        BY <1>6, <4>2 DEF Accepted
    <3>3. Executing(k) \in {"acquiring", "invoking"}
      BY DEF Executing
    <3> QED
      BY <1>1, <1>2, <1>5, <1>6, <1>7, <1>8, <1>9, <3>1, <3>2, <3>3
         DEF CallAgrees, Early, Watches
  <2> QED
    BY <2>1, <2>2
<1>11. \A a \in Aborters : AbortAgrees(a)'
  <2> SUFFICES ASSUME NEW a \in Aborters, abort[a].stage = "ops", NEW x \in abort[a].left
               PROVE  Cancellable(x)'
    BY <1>2 DEF AbortAgrees
  <2>1. x \in Calls \X Objects /\ x # <<k, g>> /\ Cancellable(x)
    BY <1>1, <1>2 DEF TaskTypeOK, Aborts, AgreeInv, AbortAgrees, Dropped
  <2>2. x = <<x[1], x[2]>> /\ x[1] \in Calls /\ x[2] \in Objects
    BY <2>1
  <2>3. x[1] = k => ~Unfinished(rec[x])
    BY <1>1, <1>2, <2>1, <2>2 DEF Cancellable, Unfinished, Objects, Absent
  <2> QED
    BY <1>6, <2>1, <2>2, <2>3 DEF Cancellable
<1>12. \A i \in Calls \ {k} :
         /\ received'[i] = received[i]
         /\ \A h \in Objects : rec'[<<i, h>>] = rec[<<i, h>>]
         /\ \A w \in {"run", "again"} :
               pc'[<<i, w>>] = pc[<<i, w>>] /\ obj'[<<i, w>>] = obj[<<i, w>>]
  <2>1. \A i \in Tasks \ {t} : pc'[i] = pc[i] /\ obj'[i] = obj[i]
    BY <1>1, <1>3, GoesPoints
  <2>2. \A i \in Calls \ {k}, w \in {"run", "again"} : <<i, w>> \in Tasks \ {t}
    BY <1>1, OtherTasks
  <2>3. \A i \in Calls \ {k}, h \in Objects : rec'[<<i, h>>] = rec[<<i, h>>]
    BY <1>6
  <2> QED
    BY <1>2, <2>1, <2>2, <2>3
<1> QED
  BY <1>6, <1>10, <1>11, <1>12, OneCall

LEMMA AcceptAgainAgrees ==
  ASSUME TypeInv, AgreeInv, NEW k \in Calls, AcceptAgain(k)
  PROVE  AgreeInv'
<1> DEFINE t == <<k, "again">>
<1> DEFINE r == rec[<<k, cur[k]>>]
<1>1. /\ t \in Tasks /\ t[1] = k /\ t[2] = "again" /\ cur[k] \in Objects /\ r \in Record
      /\ r.text \in Texts /\ r.text = disk[k].text /\ CallAgrees(k) /\ cur[k] # Absent
      /\ UNCHANGED <<received, abort>>
  BY TaskParts, RecordFields
     DEF AcceptAgain, TypeInv, RapTypeOK, StoreTypeOK, AgreeInv, CallAgrees, historyVars
<1>2. CASE r.text # "none" /\ Deliver(t, cur[k], r.text)
  BY <1>1, <1>2, DeliverAgrees DEF CallAgrees
<1>3. CASE Goes(t, cur[k], Watching(r)) /\ UNCHANGED <<rec, cur, disk, tries>>
  <2>1. /\ pc'[t] = Watching(r) /\ \A i \in Tasks \ {t} : pc'[i] = pc[i] /\ obj'[i] = obj[i]
        /\ pc'[<<k, "run">>] = pc[<<k, "run">>] /\ obj'[<<k, "run">>] = obj[<<k, "run">>]
    BY <1>1, <1>3, GoesPoints, TaskParts DEF TypeInv, RapTypeOK
  <2>2. CallAgrees(k)'
    BY <1>1, <1>3, <2>1 DEF CallAgrees, Early, Watches, Watching
  <2>3. \A a \in Aborters : AbortAgrees(a)'
    BY <1>1, <1>3, AbortsKept DEF Cancellable
  <2> QED
    BY <1>1, <1>3, <2>1, <2>2, <2>3, OtherTasks, OneCall
<1> QED
  BY <1>2, <1>3 DEF AcceptAgain

\* What a mark on a record, or its end, leaves of the agreement.
LEMMA MarkAgrees ==
  ASSUME TypeInv, AgreeInv, NEW k \in Calls, NEW g \in Objects, NEW r \in Record,
         r.text = rec[<<k, g>>].text, r.known = rec[<<k, g>>].known,
         r.status = rec[<<k, g>>].status,
         rec' = [rec EXCEPT ![<<k, g>>] = r],
         \/ UNCHANGED <<cur, disk>>
         \/ g = cur[k] /\ Upsert(k, g, r),
         UNCHANGED <<pc, obj, received, abort>>
  PROVE  AgreeInv'
<1>1. /\ rec'[<<k, g>>] = r /\ cur'[k] = cur[k] /\ disk'[k].text = disk[k].text
      /\ \A x \in Calls \X Objects : x # <<k, g>> => rec'[x] = rec[x]
      /\ \A i \in Calls \ {k} : cur'[i] = cur[i] /\ disk'[i] = disk[i]
  <2>1. g # Absent
    BY DEF Objects, Absent
  <2>2. g = cur[k] => rec[<<k, g>>].text = disk[k].text
    BY <2>1 DEF AgreeInv, CallAgrees
  <2> QED
    BY <2>2, UpsertPoints DEF TypeInv, RapTypeOK, StoreTypeOK
<1>2. \A h \in Objects : /\ rec'[<<k, h>>].text = rec[<<k, h>>].text
                         /\ rec'[<<k, h>>].known = rec[<<k, h>>].known
                         /\ rec'[<<k, h>>].status = rec[<<k, h>>].status
  BY <1>1
<1>3. CallAgrees(k)'
  <2>1. CallAgrees(k) /\ cur[k] \in Objects \cup {Absent} /\ obj[<<k, "run">>] \in Objects
    BY TaskParts DEF AgreeInv, TypeInv, RapTypeOK, StoreTypeOK, TaskTypeOK
  <2>2. pc[<<k, "run">>] # "off" => cur[k] # Absent
    BY <2>1 DEF CallAgrees
  <2> QED
    BY <1>1, <1>2, <2>1, <2>2 DEF CallAgrees, Early, Watches
<1>4. \A x \in Calls \X Objects : Cancellable(x) => Cancellable(x)'
  BY <1>1 DEF Cancellable, Unfinished
<1> QED
  BY <1>1, <1>3, <1>4, AbortsKept, OneCall

LEMMA CancelAgrees ==
  ASSUME TypeInv, AgreeInv, NEW k \in Calls, Cancel(k) \/ CancelGoesOn(k)
  PROVE  AgreeInv'
<1>1. CASE Cancel(k)
  <2> DEFINE r == [rec[<<k, cur[k]>>] EXCEPT !.cancelled = TRUE]
  <2>1. cur[k] \in Objects /\ rec[<<k, cur[k]>>] \in Record /\ r \in Record
    BY <1>1, RecordMarks DEF Cancel, TypeInv, RapTypeOK, StoreTypeOK
  <2>2. /\ r.text = rec[<<k, cur[k]>>].text /\ r.known = rec[<<k, cur[k]>>].known
        /\ r.status = rec[<<k, cur[k]>>].status
    BY <2>1 DEF Record
  <2>3. Upsert(k, cur[k], r) /\ UNCHANGED <<pc, obj, received, abort>>
    BY <1>1 DEF Cancel, taskVars
  <2> HIDE DEF r
  <2> QED
    BY <2>1, <2>2, <2>3, MarkAgrees DEF Upsert
<1>2. CASE CancelGoesOn(k)
  <2>1. UNCHANGED <<rec, cur, disk, pc, obj, received, abort>>
    BY <1>2 DEF CancelGoesOn, storeVars, taskVars
  <2> QED
    BY <2>1, CallKept, AbortsKept DEF AgreeInv, Cancellable
<1> QED
  BY <1>1, <1>2

LEMMA AnswerAgrees ==
  ASSUME TypeInv, AgreeInv, NEW t \in Tasks, Lands(t) \/ Answered(t) \/ Refused(t)
  PROVE  AgreeInv'
<1> DEFINE k == t[1]
<1>1. /\ k \in Calls /\ t = <<k, t[2]>> /\ t[2] \in {"run", "again"} /\ obj[t] \in Objects
      /\ CallAgrees(k) /\ rec[<<k, obj[t]>>] \in Record /\ StoreTypeOK /\ TaskTypeOK
      /\ cur[k] \in Objects \cup {Absent}
  BY TaskParts DEF TypeInv, RapTypeOK, StoreTypeOK, TaskTypeOK, AgreeInv
<1>2. /\ UNCHANGED <<received, abort>>
      /\ pc[t] \in Early \/ (t[2] = "run" /\ pc[t] = "polling")
  BY DEF Lands, Answered, Refused, Early
<1>3. t[2] = "run" /\ pc[t] \in Early \cup Watches
  BY <1>1, <1>2 DEF CallAgrees, Early, Watches
<1>4. CASE Lands(t)
  <2>1. UNCHANGED <<rec, cur, disk>> /\ Goes(t, obj[t], "answering") /\ pc[t] \in Early
    BY <1>4 DEF Lands, storeVars, Early
  <2>2. /\ pc'[<<k, "run">>] = "answering" /\ obj'[<<k, "run">>] = obj[<<k, "run">>]
        /\ \A i \in Tasks \ {t} : pc'[i] = pc[i] /\ obj'[i] = obj[i]
        /\ pc'[<<k, "again">>] = pc[<<k, "again">>] /\ obj'[<<k, "again">>] = obj[<<k, "again">>]
    BY <1>1, <1>3, <2>1, GoesPoints, TaskParts
  <2>3. pc[<<k, "run">>] \in Early
    BY <1>1, <1>3, <2>1
  <2>4. CallAgrees(k)'
    BY <1>1, <1>2, <2>1, <2>2, <2>3 DEF CallAgrees, Early, Watches
  <2>5. \A a \in Aborters : AbortAgrees(a)'
    BY <1>2, <2>1, AbortsKept DEF Cancellable
  <2> QED
    BY <1>1, <1>2, <2>1, <2>2, <2>4, <2>5, OtherTasks, OneCall
<1>5. CASE Answered(t)
  <2>1. CASE k \in LeaseCalls
    BY <1>2, <1>3, <1>5, <2>1, ConcludesAgrees DEF Answered
  <2>2. CASE k \notin LeaseCalls
    <3> DEFINE r == [rec[<<k, obj[t]>>] EXCEPT !.known = TRUE]
    <3>1. Upsert(k, obj[t], r) /\ Goes(t, obj[t], Watching(r)) /\ pc[t] = "answering"
      BY <1>5, <2>2 DEF Answered, Mine
    <3>2. r.text = rec[<<k, obj[t]>>].text /\ r.status = rec[<<k, obj[t]>>].status /\ r.known
      BY <1>1 DEF Record
    <3>3. Watching(r) \in Watches
      BY DEF Watching, Watches
    <3> HIDE DEF r
    <3>4. /\ obj[t] = cur[k] /\ pc[<<k, "run">>] \in Early
          /\ disk[k].text = "none" /\ rec[<<k, obj[t]>>].text = "none"
      BY <1>1, <1>3, <3>1 DEF CallAgrees, Early
    <3>5. /\ rec'[<<k, obj[t]>>] = r /\ cur'[k] = obj[t] /\ disk'[k] = r
          /\ \A x \in Calls \X Objects : x # <<k, obj[t]>> => rec'[x] = rec[x]
          /\ \A i \in Calls \ {k} : cur'[i] = cur[i] /\ disk'[i] = disk[i]
      BY <1>1, <3>1, UpsertPoints
    <3>6. /\ pc'[<<k, "run">>] \in Watches /\ obj'[<<k, "run">>] = obj[t]
          /\ \A i \in Tasks \ {t} : pc'[i] = pc[i] /\ obj'[i] = obj[i]
          /\ pc'[<<k, "again">>] = pc[<<k, "again">>] /\ obj'[<<k, "again">>] = obj[<<k, "again">>]
      BY <1>1, <1>3, <3>1, <3>3, GoesPoints, TaskParts
    <3>7. received[k] = {} /\ pc[<<k, "again">>] # "posting"
      BY <1>1, <3>4 DEF CallAgrees
    <3>8. obj[t] # Absent
      BY <1>1 DEF Objects, Absent
    <3>9. CallAgrees(k)'
      BY <1>1, <1>2, <3>2, <3>4, <3>5, <3>6, <3>7, <3>8 DEF CallAgrees, Early, Watches
    <3>10. \A x \in Calls \X Objects : Cancellable(x) => Cancellable(x)'
      BY <1>1, <3>2, <3>4, <3>5 DEF Cancellable
    <3>11. \A i \in Calls \ {k}, h \in Objects : rec'[<<i, h>>] = rec[<<i, h>>]
      BY <3>5
    <3>12. \A a \in Aborters : AbortAgrees(a)'
      BY <1>2, <3>10, AbortsKept
    <3> QED
      BY <1>1, <1>2, <3>5, <3>6, <3>9, <3>11, <3>12, OtherTasks, OneCall
  <2> QED
    BY <2>1, <2>2
<1>6. CASE Refused(t)
  BY <1>2, <1>3, <1>6, ConcludesAgrees DEF Refused
<1> QED
  BY <1>4, <1>5, <1>6

LEMMA WatchAgrees ==
  ASSUME TypeInv, AgreeInv, NEW t \in Tasks, Asks(t) \/ Polls(t) \/ TimesUp(t)
  PROVE  AgreeInv'
<1> DEFINE k == t[1]
<1>1. /\ k \in Calls /\ t = <<k, t[2]>> /\ t[2] \in {"run", "again"} /\ obj[t] \in Objects
      /\ CallAgrees(k) /\ rec[<<k, obj[t]>>] \in Record /\ StoreTypeOK /\ TaskTypeOK
      /\ cur[k] \in Objects \cup {Absent} /\ obj[<<k, "run">>] \in Objects
  BY TaskParts DEF TypeInv, RapTypeOK, StoreTypeOK, TaskTypeOK, AgreeInv
<1>2. UNCHANGED <<received, abort>> /\ pc[t] \in Watches
  BY DEF Asks, Polls, TimesUp, Watches
<1>3. \/ \E x \in {"result", "pending"} : Concludes(t, x)
      \/ \E w \in Watches, b \in BOOLEAN :
            /\ rec' = [rec EXCEPT ![<<k, obj[t]>>] = [rec[<<k, obj[t]>>] EXCEPT !.cancelled = b]]
            /\ Goes(t, obj[t], w) /\ UNCHANGED <<cur, disk>>
  <2>1. CASE Asks(t)
    <3>1. rec[<<k, obj[t]>>].cancelled \in BOOLEAN
          /\ [rec[<<k, obj[t]>>] EXCEPT !.cancelled = rec[<<k, obj[t]>>].cancelled]
                = rec[<<k, obj[t]>>]
      BY <1>1 DEF Record
    <3>2. rec = [rec EXCEPT ![<<k, obj[t]>>] = rec[<<k, obj[t]>>]]
      BY <1>1 DEF StoreTypeOK
    <3> QED
      BY <2>1, <3>1, <3>2 DEF Asks, storeVars, Watches
  <2>2. CASE Polls(t)
    <3>1. CASE Concludes(t, "result")
      BY <3>1
    <3>2. CASE ~Concludes(t, "result")
      <4> DEFINE b == Mine(t).cancelled \/ rec[<<k, cur[k]>>].cancelled
      <4> DEFINE r == [Mine(t) EXCEPT !.cancelled = b]
      <4>1. rec' = [rec EXCEPT ![<<k, obj[t]>>] = r] /\ Goes(t, obj[t], Watching(r))
            /\ UNCHANGED <<cur, disk>>
        BY <2>2, <3>2 DEF Polls
      <4>2. b \in BOOLEAN /\ Watching(r) \in Watches
        BY DEF Watching, Watches
      <4> HIDE DEF b
      <4> QED
        BY <4>1, <4>2 DEF Mine
    <3> QED
      BY <3>1, <3>2
  <2>3. CASE TimesUp(t)
    BY <2>3 DEF TimesUp
  <2> QED
    BY <2>1, <2>2, <2>3
<1>4. CASE \E x \in {"result", "pending"} : Concludes(t, x)
  BY <1>2, <1>4, ConcludesAgrees
<1>5. ASSUME NEW w \in Watches, NEW b \in BOOLEAN,
             rec' = [rec EXCEPT ![<<k, obj[t]>>] = [rec[<<k, obj[t]>>] EXCEPT !.cancelled = b]],
             Goes(t, obj[t], w), UNCHANGED <<cur, disk>>
      PROVE  AgreeInv'
  <2>1. /\ pc'[t] = w /\ obj' = obj
        /\ \A i \in Tasks \ {t} : pc'[i] = pc[i] /\ obj'[i] = obj[i]
    BY <1>5, <1>1, GoesPoints DEF Goes, TaskTypeOK
  <2>2. \A x \in Calls \X Objects : /\ rec'[x].text = rec[x].text
                                    /\ rec'[x].known = rec[x].known
                                    /\ rec'[x].status = rec[x].status
    BY <1>1, <1>5 DEF StoreTypeOK, Record
  <2>3. CallAgrees(k)'
    <3>1. pc[<<k, "run">>] # "off" => cur[k] # Absent
      BY <1>1 DEF CallAgrees
    <3>2. pc[<<k, "again">>] # "off" => cur[k] # Absent
      BY <1>1 DEF CallAgrees
    <3>3. \A h \in Objects : /\ rec'[<<k, h>>].text = rec[<<k, h>>].text
                             /\ rec'[<<k, h>>].known = rec[<<k, h>>].known
                             /\ rec'[<<k, h>>].status = rec[<<k, h>>].status
      BY <1>1, <2>2
    <3>4. CASE t[2] = "run"
      <4>1. /\ pc'[<<k, "run">>] \in Watches /\ pc[<<k, "run">>] \in Watches
            /\ pc'[<<k, "again">>] = pc[<<k, "again">>]
        BY <1>1, <1>2, <2>1, <3>4, TaskParts
      <4> QED
        BY <1>1, <1>2, <1>5, <2>1, <3>1, <3>3, <4>1 DEF CallAgrees, Early, Watches
    <3>5. CASE t[2] = "again"
      <4>1. /\ pc'[<<k, "again">>] \in Watches /\ pc[<<k, "again">>] \in Watches
            /\ pc'[<<k, "run">>] = pc[<<k, "run">>]
        BY <1>1, <1>2, <2>1, <3>5, TaskParts
      <4> QED
        BY <1>1, <1>2, <1>5, <2>1, <3>1, <3>2, <3>3, <4>1 DEF CallAgrees, Early, Watches
    <3> QED
      BY <1>1, <3>4, <3>5
  <2>4. \A x \in Calls \X Objects : Cancellable(x) => Cancellable(x)'
    BY <1>5, <2>2 DEF Cancellable, Unfinished
  <2>5. \A i \in Calls \ {k}, h \in Objects : rec'[<<i, h>>] = rec[<<i, h>>]
    BY <1>1, <1>5 DEF StoreTypeOK
  <2>6. \A a \in Aborters : AbortAgrees(a)'
    BY <1>2, <2>4, AbortsKept
  <2> QED
    BY <1>1, <1>2, <1>5, <2>1, <2>3, <2>5, <2>6, OtherTasks, OneCall
<1> QED
  BY <1>3, <1>4, <1>5

\* What is posted is what the journal has.
LEMMA PostAgrees ==
  ASSUME TypeInv, AgreeInv, NEW t \in Tasks, PostedOk(t) \/ PostedAgain(t) \/ GivesUp(t)
  PROVE  AgreeInv'
<1> DEFINE k == t[1]
<1> DEFINE r0 == rec[<<k, obj[t]>>]
<1>1. /\ k \in Calls /\ t = <<k, t[2]>> /\ t[2] \in {"run", "again"} /\ obj[t] \in Objects
      /\ CallAgrees(k) /\ r0 \in Record /\ StoreTypeOK /\ TaskTypeOK /\ t \in Aborters
      /\ tries[t] \in Nat
  BY TaskParts, RapAssumption DEF TypeInv, RapTypeOK, StoreTypeOK, TaskTypeOK, AgreeInv
<1>2. pc[t] = "posting"
  BY DEF PostedOk, PostedAgain, GivesUp
<1>3. /\ obj[t] = cur[k] /\ disk[k].text # "none" /\ cur[k] # Absent
      /\ r0.text = disk[k].text
  <2>1. obj[t] = cur[k] /\ disk[k].text # "none"
    BY <1>1, <1>2 DEF CallAgrees
  <2>2. obj[t] # Absent
    BY <1>1 DEF Objects, Absent
  <2> QED
    BY <1>1, <2>1, <2>2 DEF CallAgrees
<1>4. /\ received'[k] \in {received[k], received[k] \cup {disk[k].text}}
      /\ \A i \in Calls \ {k} : received'[i] = received[i]
  <2>1. Receives(t) \/ UNCHANGED received
    BY DEF PostedOk, PostedAgain, GivesUp
  <2> QED
    BY <1>1, <1>3, <2>1 DEF Receives, Mine, TypeInv, RapTypeOK
<1>5. received'[k] # {} => received'[k] = {disk[k].text}
  BY <1>1, <1>4 DEF CallAgrees
<1>6. pc[<<k, "run">>] \notin Early \cup Watches
  BY <1>1, <1>3 DEF CallAgrees
<1>7. CASE PostedAgain(t)
  <2>1. UNCHANGED <<rec, cur, disk, pc, obj, abort>>
    BY <1>7 DEF PostedAgain, storeVars
  <2>2. CallAgrees(k)'
    BY <1>1, <1>3, <1>5, <2>1 DEF CallAgrees, Early, Watches
  <2>3. \A a \in Aborters : AbortAgrees(a)'
    BY <2>1, AbortsKept DEF Cancellable
  <2> QED
    BY <1>1, <1>4, <2>1, <2>2, <2>3, OneCall
<1>8. ASSUME NEW r \in Record, Upsert(k, obj[t], r),
             r.text = r0.text, r.known = r0.known, ~Unfinished(r),
             NEW w \in {"off", "aborting"}, NEW g, Goes(t, g, w),
             \/ UNCHANGED abort
             \/ AbortBegins(t, cur', rec')
      PROVE  AgreeInv'
  <2>1. /\ rec'[<<k, obj[t]>>] = r /\ cur'[k] = obj[t] /\ disk'[k] = r
        /\ \A x \in Calls \X Objects : x # <<k, obj[t]>> => rec'[x] = rec[x]
        /\ \A i \in Calls \ {k} : cur'[i] = cur[i] /\ disk'[i] = disk[i]
    BY <1>1, <1>8, UpsertPoints
  <2>2. /\ pc'[t] = w
        /\ \A i \in Tasks \ {t} : pc'[i] = pc[i] /\ obj'[i] = obj[i]
    BY <1>1, <1>8, GoesPoints
  <2>3. CallAgrees(k)'
    <3>1. \A v \in {"run", "again"} : /\ pc'[<<k, v>>] \in {pc[<<k, v>>], "off", "aborting"}
                                      /\ pc'[<<k, v>>] = "posting" => obj'[<<k, v>>] = obj[<<k, v>>]
      BY <1>1, <2>2, TaskParts
    <3>2. pc'[<<k, "run">>] \notin Early \cup Watches /\ pc'[<<k, "again">>] \notin Early
      BY <1>1, <1>6, <3>1 DEF CallAgrees, Early, Watches
    <3>3. \A v \in {"run", "again"} : pc'[<<k, v>>] = "posting" => obj'[<<k, v>>] = cur'[k]
      BY <1>1, <1>3, <2>1, <3>1 DEF CallAgrees
    <3> QED
      BY <1>3, <1>5, <1>8, <2>1, <3>2, <3>3 DEF CallAgrees
  <2>4. \A x \in Calls \X Objects : Cancellable(x) => Cancellable(x)'
    BY <1>1, <1>3, <1>8, <2>1 DEF Cancellable
  <2>5. \A a \in Aborters : AbortAgrees(a)'
    <3>1. CASE UNCHANGED abort
      BY <2>4, <3>1, AbortsKept
    <3>2. CASE AbortBegins(t, cur', rec')
      <4> SUFFICES ASSUME NEW a \in Aborters, abort'[a].stage = "ops", NEW x \in abort'[a].left
                   PROVE  Cancellable(x)'
        BY DEF AbortAgrees
      <4>1. CASE a = t
        <5>1. abort'[t] = Aborting({y \in Calls \X Objects : cur'[y[1]] = y[2] /\ rec'[y].known})
          BY <1>1, <3>2 DEF AbortBegins, TaskTypeOK
        <5>2. x \in {y \in Calls \X Objects : cur'[y[1]] = y[2] /\ rec'[y].known}
          BY <4>1, <5>1 DEF Aborting
        <5> QED
          BY <5>2 DEF Cancellable
      <4>2. CASE a # t
        <5>1. abort'[a] = abort[a]
          BY <1>1, <3>2, <4>2 DEF AbortBegins, TaskTypeOK
        <5>2. x \in Calls \X Objects /\ Cancellable(x)
          BY <1>1, <5>1 DEF AgreeInv, AbortAgrees, TaskTypeOK, Aborts
        <5> QED
          BY <2>4, <5>2
      <4> QED
        BY <4>1, <4>2
    <3> QED
      BY <1>8, <3>1, <3>2
  <2>6. \A i \in Calls \ {k}, h \in Objects : rec'[<<i, h>>] = rec[<<i, h>>]
    BY <2>1
  <2> QED
    BY <1>1, <1>4, <2>1, <2>2, <2>3, <2>5, <2>6, OtherTasks, OneCall
<1>9. CASE PostedOk(t)
  <2> DEFINE r == [r0 EXCEPT !.status = "delivered", !.attempts = @ + tries[t]]
  <2>1. r \in Record /\ Upsert(k, obj[t], r) /\ Goes(t, 0, "off") /\ UNCHANGED abort
    BY <1>1, <1>9, RecordResults DEF PostedOk, Mine, Rests, Texts
  <2>2. r.text = r0.text /\ r.known = r0.known /\ ~Unfinished(r)
    BY <1>1 DEF Record, Unfinished
  <2> HIDE DEF r
  <2> QED
    BY <1>8, <2>1, <2>2
<1>10. CASE GivesUp(t)
  <2> DEFINE r == [r0 EXCEPT !.status = "failed", !.attempts = @ + tries[t]]
  <2>1. r \in Record /\ Upsert(k, obj[t], r)
    BY <1>1, <1>10, RecordResults DEF GivesUp, Mine, Texts
  <2>2. \/ Goes(t, obj[t], "aborting") /\ AbortBegins(t, cur', rec')
        \/ Goes(t, 0, "off") /\ UNCHANGED abort
    BY <1>10 DEF GivesUp, Rests
  <2>3. r.text = r0.text /\ r.known = r0.known /\ ~Unfinished(r)
    BY <1>1 DEF Record, Unfinished
  <2> HIDE DEF r
  <2> QED
    BY <1>8, <2>1, <2>2, <2>3
<1> QED
  BY <1>7, <1>9, <1>10

\* Bringing the thread to safety touches only records the Map has, or their flag.
LEMMA AbortAgreesNext ==
  ASSUME TypeInv, AgreeInv, NEW a \in Aborters, AbortStep(a)
  PROVE  AgreeInv'
<1>1. StoreTypeOK /\ TaskTypeOK
  BY DEF TypeInv, RapTypeOK
<1>2. CASE AbortCancels(a)
  <2>1. UNCHANGED <<pc, obj, received>> /\ abort[a].stage = "ops"
    BY <1>2 DEF AbortCancels, taskVars
  <2>2. PICK x \in abort[a].left :
          LET r == [rec[x] EXCEPT !.cancelled = TRUE] IN
          /\ IF r.status \in {"accepted", "running", "delivering"}
             THEN Upsert(x[1], x[2], [r EXCEPT !.status = "cancelled"])
             ELSE rec' = [rec EXCEPT ![x] = r] /\ UNCHANGED <<cur, disk>>
          /\ abort' = [abort EXCEPT ![a] = Aborting(@.left \ {x})]
    BY <1>2 DEF AbortCancels
  <2>3. x \in Calls \X Objects /\ Cancellable(x) /\ abort[a].left \subseteq Calls \X Objects
    BY <1>1, <2>1 DEF TaskTypeOK, Aborts, AgreeInv, AbortAgrees
  <2> DEFINE k == x[1]
  <2> DEFINE g == x[2]
  <2>4. k \in Calls /\ g \in Objects /\ x = <<k, g>> /\ rec[x] \in Record /\ CallAgrees(k)
    BY <1>1, <2>3 DEF StoreTypeOK, AgreeInv
  <2>5. PICK r \in Record :
          /\ r.text = rec[x].text /\ r.known = rec[x].known
          /\ r.status = "cancelled" \/ (r.status = rec[x].status /\ ~Unfinished(r))
          /\ \/ g = cur[k] /\ Upsert(k, g, r)
             \/ rec' = [rec EXCEPT ![<<k, g>>] = r] /\ UNCHANGED <<cur, disk>>
    <3> DEFINE r1 == [rec[x] EXCEPT !.cancelled = TRUE]
    <3> DEFINE r2 == [r1 EXCEPT !.status = "cancelled"]
    <3>1. /\ r1 \in Record /\ r2 \in Record
          /\ r1.text = rec[x].text /\ r1.known = rec[x].known /\ r1.status = rec[x].status
          /\ r2.text = rec[x].text /\ r2.known = rec[x].known /\ r2.status = "cancelled"
      BY <2>4, RecordMarks DEF Record
    <3>2. IF r1.status \in {"accepted", "running", "delivering"} THEN Upsert(k, g, r2)
          ELSE rec' = [rec EXCEPT ![<<k, g>>] = r1] /\ UNCHANGED <<cur, disk>>
      BY <2>2, <2>4
    <3> HIDE DEF r1, r2
    <3>3. CASE r1.status \in {"accepted", "running", "delivering"}
      <4>1. g = cur[k]
        BY <2>3, <3>1, <3>3 DEF Cancellable, Unfinished
      <4> QED
        BY <3>1, <3>2, <3>3, <4>1
    <3>4. CASE r1.status \notin {"accepted", "running", "delivering"}
      BY <3>1, <3>2, <3>4 DEF Unfinished
    <3> QED
      BY <3>3, <3>4
  <2>6. g # Absent
    BY <2>4 DEF Objects, Absent
  <2>7. /\ rec'[x] = r /\ cur'[k] = cur[k] /\ disk'[k].text = disk[k].text
        /\ \A y \in Calls \X Objects : y # x => rec'[y] = rec[y]
        /\ \A i \in Calls \ {k} : cur'[i] = cur[i] /\ disk'[i] = disk[i]
    <3>1. g = cur[k] => rec[x].text = disk[k].text
      BY <2>4, <2>6 DEF CallAgrees
    <3>2. CASE g = cur[k] /\ Upsert(k, g, r)
      BY <1>1, <2>4, <2>5, <3>1, <3>2, UpsertPoints
    <3>3. CASE rec' = [rec EXCEPT ![<<k, g>>] = r] /\ UNCHANGED <<cur, disk>>
      BY <1>1, <2>4, <3>3 DEF StoreTypeOK
    <3> QED
      BY <2>5, <3>2, <3>3
  <2>8. \A h \in Objects : rec'[<<k, h>>].text = rec[<<k, h>>].text
                             /\ rec'[<<k, h>>].known = rec[<<k, h>>].known
    BY <2>4, <2>5, <2>7
  <2>9. CallAgrees(k)'
    <3>1. cur[k] \in Objects \cup {Absent} /\ obj[<<k, "run">>] \in Objects
      BY <1>1, <2>4, TaskParts DEF StoreTypeOK, TaskTypeOK
    <3>2. pc[<<k, "run">>] # "off" => cur[k] # Absent
      BY <2>4 DEF CallAgrees
    <3>3. /\ pc[<<k, "run">>] \in Early => g # cur[k]
          /\ pc[<<k, "run">>] \in Watches /\ obj[<<k, "run">>] # cur[k] => g # cur[k]
      BY <2>3, <2>4, <3>2 DEF CallAgrees, Cancellable, Early, Watches
    <3>4. g # cur[k] /\ cur[k] # Absent => rec'[<<k, cur[k]>>] = rec[<<k, cur[k]>>]
      BY <2>4, <2>7, <3>1
    <3> QED
      BY <2>1, <2>4, <2>7, <2>8, <3>1, <3>2, <3>3, <3>4 DEF CallAgrees, Early, Watches
  <2>10. \A y \in Calls \X Objects : Cancellable(y) => Cancellable(y)'
    <3> SUFFICES ASSUME NEW y \in Calls \X Objects, Cancellable(y)
                 PROVE  Cancellable(y)'
      OBVIOUS
    <3>1. cur'[y[1]] = cur[y[1]]
      BY <2>7
    <3>2. CASE y = x
      BY <2>5, <2>7, <3>2 DEF Cancellable, Unfinished
    <3>3. CASE y # x
      BY <2>7, <3>1, <3>3 DEF Cancellable
    <3> QED
      BY <3>2, <3>3
  <2>11. \A b \in Aborters : AbortAgrees(b)'
    <3> SUFFICES ASSUME NEW b \in Aborters, abort'[b].stage = "ops", NEW y \in abort'[b].left
                 PROVE  Cancellable(y)'
      BY DEF AbortAgrees
    <3>1. abort[b].stage = "ops" /\ y \in abort[b].left
      <4>1. CASE b = a
        <5>1. abort'[a] = Aborting(abort[a].left \ {x})
          BY <1>1, <2>2 DEF TaskTypeOK
        <5> QED
          BY <2>1, <4>1, <5>1 DEF Aborting
      <4>2. CASE b # a
        BY <1>1, <2>2, <4>2 DEF TaskTypeOK
      <4> QED
        BY <4>1, <4>2
    <3>2. y \in Calls \X Objects /\ Cancellable(y)
      BY <1>1, <3>1 DEF TaskTypeOK, Aborts, AgreeInv, AbortAgrees
    <3> QED
      BY <2>10, <3>2
  <2>12. \A i \in Calls \ {k}, h \in Objects : rec'[<<i, h>>] = rec[<<i, h>>]
    BY <2>4, <2>7
  <2> QED
    BY <2>1, <2>4, <2>7, <2>9, <2>11, <2>12, OneCall
<1>3. CASE AbortReleases(a) \/ AbortLists(a) \/ AbortDisarms(a)
  <2>1. UNCHANGED <<rec, cur, disk, received>>
    BY <1>3 DEF AbortReleases, AbortLists, AbortDisarms, storeVars
  <2>2. \A b \in Aborters : abort'[b].stage = "ops" => abort'[b] = abort[b]
    <3>1. PICK s : abort' = [abort EXCEPT ![a] = s] /\ s.stage # "ops"
      <4>1. CASE AbortReleases(a)
        <5>1. abort[a].stage \in {"leases", "listed"}
          BY <4>1 DEF AbortReleases
        <5>2. PICK id \in abort[a].left : abort' = [abort EXCEPT ![a] =
                 CASE abort[a].stage = "listed" -> [stage |-> "device", left |-> {noted}]
                   [] ~(abort[a].stage = "listed") /\ @.left # {id} ->
                         [stage |-> "leases", left |-> @.left \ {id}]
                   [] OTHER -> [stage |-> "list", left |-> {}]]
          BY <4>1 DEF AbortReleases
        <5> DEFINE s == CASE abort[a].stage = "listed" -> [stage |-> "device", left |-> {noted}]
                          [] ~(abort[a].stage = "listed") /\ abort[a].left # {id} ->
                                [stage |-> "leases", left |-> abort[a].left \ {id}]
                          [] OTHER -> [stage |-> "list", left |-> {}]
        <5>3. abort' = [abort EXCEPT ![a] = s]
          BY <5>2
        <5>4. s.stage # "ops"
          OBVIOUS
        <5> HIDE DEF s
        <5> QED
          BY <5>3, <5>4
      <4>2. CASE AbortLists(a)
        <5> DEFINE s1 == [stage |-> "listed", left |-> {lease}]
        <5> DEFINE s2 == [stage |-> "device", left |-> {noted}]
        <5>1. abort' = [abort EXCEPT ![a] = s1] \/ abort' = [abort EXCEPT ![a] = s2]
          BY <4>2 DEF AbortLists
        <5>2. s1.stage # "ops" /\ s2.stage # "ops"
          OBVIOUS
        <5> HIDE DEF s1, s2
        <5> QED
          BY <5>1, <5>2
      <4>3. CASE AbortDisarms(a)
        <5>1. abort' = [abort EXCEPT ![a] = NoAbort] /\ NoAbort.stage # "ops"
          BY <4>3 DEF AbortDisarms, NoAbort
        <5> QED
          BY <5>1
      <4> QED
        BY <1>3, <4>1, <4>2, <4>3
    <3> QED
      BY <1>1, <3>1 DEF TaskTypeOK
  <2>3. \A b \in Aborters : AbortAgrees(b)'
    BY <2>1, <2>2 DEF AgreeInv, AbortAgrees, Cancellable
  <2>4. UNCHANGED <<pc, obj>> \/ (a \in Tasks /\ Goes(a, 0, "off"))
    BY <1>3 DEF AbortReleases, AbortLists, AbortDisarms, taskVars, Rests
  <2>5. CASE UNCHANGED <<pc, obj>>
    BY <2>1, <2>3, <2>5, CallKept DEF AgreeInv
  <2>6. CASE a \in Tasks /\ Goes(a, 0, "off")
    <3>1. pc'[a] = "off" /\ \A i \in Tasks \ {a} : pc'[i] = pc[i] /\ obj'[i] = obj[i]
      BY <1>1, <2>6, GoesPoints
    <3>2. a[1] \in Calls /\ a = <<a[1], a[2]>> /\ CallAgrees(a[1])
      BY <2>6, TaskParts DEF AgreeInv
    <3>3. \A v \in {"run", "again"} : \/ pc'[<<a[1], v>>] = "off"
                                      \/ /\ pc'[<<a[1], v>>] = pc[<<a[1], v>>]
                                         /\ obj'[<<a[1], v>>] = obj[<<a[1], v>>]
      BY <3>1, <3>2, TaskParts
    <3>4. CallAgrees(a[1])'
      BY <2>1, <3>2, <3>3 DEF CallAgrees, Early, Watches
    <3> QED
      BY <2>1, <2>3, <2>6, <3>1, <3>2, <3>4, OtherTasks, OneCall
  <2> QED
    BY <2>4, <2>5, <2>6
<1> QED
  BY <1>2, <1>3 DEF AbortStep

LEMMA OtherAgrees ==
  ASSUME TypeInv, AgreeInv, Close \/ \E k \in Calls : LandsLate(k) \/ OpEnds(k)
  PROVE  AgreeInv'
<1>1. UNCHANGED <<rec, cur, disk, received, pc, obj>>
  BY DEF Close, LandsLate, OpEnds, storeVars, taskVars
<1>2. \A k \in Calls : CallAgrees(k)'
  BY <1>1, CallKept DEF AgreeInv
<1>3. CASE UNCHANGED abort
  BY <1>1, <1>2, <1>3, AbortsKept DEF AgreeInv, Cancellable
<1>4. CASE AbortBegins(<<"close">>, cur, rec)
  <2> SUFFICES ASSUME NEW a \in Aborters, abort'[a].stage = "ops", NEW x \in abort'[a].left
               PROVE  Cancellable(x)'
    BY <1>2 DEF AgreeInv, AbortAgrees
  <2>1. CASE a = <<"close">>
    <3>1. abort'[a] = Aborting({y \in Calls \X Objects : cur[y[1]] = y[2] /\ rec[y].known})
      BY <1>4, <2>1 DEF AbortBegins, TypeInv, RapTypeOK, TaskTypeOK
    <3>2. x \in {y \in Calls \X Objects : cur[y[1]] = y[2] /\ rec[y].known}
      BY <3>1 DEF Aborting
    <3> QED
      BY <1>1, <3>2 DEF Cancellable
  <2>2. CASE a # <<"close">>
    <3>1. abort'[a] = abort[a]
      BY <1>4, <2>2 DEF AbortBegins, TypeInv, RapTypeOK, TaskTypeOK
    <3> QED
      BY <1>1, <3>1 DEF AgreeInv, AbortAgrees, Cancellable
  <2> QED
    BY <2>1, <2>2
<1> QED
  BY <1>3, <1>4 DEF Close, LandsLate, OpEnds

\* A new process resumes from the journal alone: what it posts, the journal has.
LEMMA RestartAgrees ==
  ASSUME TypeInv, AgreeInv, CrashAndRestart
  PROVE  AgreeInv'
<1> DEFINE kept == [k \in Calls |-> IF cur[k] = Absent THEN disk[k] ELSE Resumed(disk[k])]
<1>1. /\ disk' = kept
      /\ rec' = [x \in Calls \X Objects |-> IF x[2] = 0 THEN kept[x[1]] ELSE Accepted]
      /\ cur' = [k \in Calls |-> IF cur[k] = Absent THEN Absent ELSE 0]
      /\ pc' = [t \in Tasks |-> ResumedAt(t)]
      /\ obj' = [t \in Tasks |-> 0]
      /\ abort' = [a \in Aborters |-> NoAbort] /\ UNCHANGED received
  BY DEF CrashAndRestart
<1>2. \A a \in Aborters : AbortAgrees(a)'
  BY <1>1 DEF AbortAgrees, NoAbort
<1>3. ASSUME NEW k \in Calls
      PROVE  CallAgrees(k)'
  <2>1. CallAgrees(k) /\ disk[k] \in Record /\ 0 \in Objects /\ Absent # 0
        /\ <<k, "run">> \in Tasks /\ <<k, "again">> \in Tasks
    BY TaskParts DEF AgreeInv, TypeInv, RapTypeOK, StoreTypeOK, Objects, Absent
  <2>2. /\ disk'[k] = kept[k] /\ received'[k] = received[k]
        /\ cur'[k] = IF cur[k] = Absent THEN Absent ELSE 0
        /\ obj'[<<k, "run">>] = 0 /\ obj'[<<k, "again">>] = 0
        /\ pc'[<<k, "run">>] = ResumedAt(<<k, "run">>)
        /\ pc'[<<k, "again">>] = ResumedAt(<<k, "again">>)
    BY <1>1, <2>1
  <2>3. rec'[<<k, 0>>] = kept[k]
    BY <1>1, <2>1
  <2>4. CASE cur[k] = Absent
    <3>1. kept[k] = disk[k] /\ ResumedAt(<<k, "run">>) = "off" /\ ResumedAt(<<k, "again">>) = "off"
      BY <2>4 DEF ResumedAt
    <3> QED
      BY <2>1, <2>2, <2>4, <3>1 DEF CallAgrees, Early, Watches
  <2>5. CASE cur[k] # Absent
    <3> DEFINE r == disk[k]
    <3>1. kept[k] = Resumed(r)
      BY <2>5
    <3>2. /\ r.text # "none" => Resumed(r).text = r.text
          /\ received[k] # {} => received[k] = {r.text} /\ r.text # "none"
      BY <2>1 DEF Resumed, CallAgrees, Record
    <3>3. \A w \in {"run", "again"} :
            /\ ResumedAt(<<k, w>>) = "posting" => Resumed(r).text # "none"
            /\ ResumedAt(<<k, w>>) \in Early =>
                  /\ w = "run" /\ Resumed(r).text = "none" /\ ~Resumed(r).known
                  /\ Resumed(r).status = "running"
            /\ ResumedAt(<<k, w>>) \in Watches => w # "run"
      <4> SUFFICES ASSUME NEW w \in {"run", "again"}
                   PROVE  /\ ResumedAt(<<k, w>>) = "posting" => Resumed(r).text # "none"
                          /\ ResumedAt(<<k, w>>) \in Early =>
                                /\ w = "run" /\ Resumed(r).text = "none" /\ ~Resumed(r).known
                                /\ Resumed(r).status = "running"
                          /\ ResumedAt(<<k, w>>) \in Watches => w # "run"
        OBVIOUS
      <4> DEFINE rerun == r.text = "none" /\ ~r.known
      <4>1. CASE ~Open(r) \/ (rerun <=> w = "again")
        <5>1. ResumedAt(<<k, w>>) = "off"
          BY <4>1 DEF ResumedAt
        <5> QED
          BY <5>1 DEF Early, Watches
      <4>2. CASE Open(r) /\ rerun /\ w = "run" /\ r.cancelled
        <5>1. ResumedAt(<<k, w>>) = "posting"
          BY <2>5, <4>2 DEF ResumedAt
        <5>2. Resumed(r).text = "unexecuted"
          BY <2>1, <4>2 DEF Resumed, Record
        <5> QED
          BY <5>1, <5>2 DEF Early, Watches
      <4>3. CASE Open(r) /\ rerun /\ w = "run" /\ ~r.cancelled
        <5>1. ResumedAt(<<k, w>>) = Executing(k)
          BY <2>5, <4>3 DEF ResumedAt
        <5>2. Resumed(r).text = "none" /\ ~Resumed(r).known /\ Resumed(r).status = "running"
          BY <2>1, <4>3 DEF Resumed, Record
        <5> QED
          BY <4>3, <5>1, <5>2 DEF Early, Watches, Executing
      <4>4. CASE Open(r) /\ ~rerun /\ w = "again" /\ r.text = "none"
        <5>1. ResumedAt(<<k, w>>) = Watching(r)
          BY <2>5, <4>4 DEF ResumedAt
        <5> QED
          BY <4>4, <5>1 DEF Early, Watches, Watching
      <4>5. CASE Open(r) /\ ~rerun /\ w = "again" /\ r.text # "none"
        <5>1. ResumedAt(<<k, w>>) = "posting"
          BY <2>5, <4>5 DEF ResumedAt
        <5> QED
          BY <3>2, <4>5, <5>1 DEF Early, Watches
      <4> QED
        BY <4>1, <4>2, <4>3, <4>4, <4>5
    <3>4. ResumedAt(<<k, "run">>) \notin Watches /\ ResumedAt(<<k, "again">>) \notin Early
      BY <3>3
    <3> HIDE DEF kept, r
    <3> QED
      BY <2>1, <2>2, <2>3, <2>5, <3>1, <3>2, <3>3, <3>4 DEF CallAgrees
  <2> QED
    BY <2>4, <2>5
<1> QED
  BY <1>2, <1>3 DEF AgreeInv

\* No step brings a call in disagreement with its journal.
LEMMA AgreeStep == TypeInv /\ AgreeInv /\ [RapNext]_vars => AgreeInv'
<1> SUFFICES ASSUME TypeInv, AgreeInv, [RapNext]_vars PROVE AgreeInv'
  OBVIOUS
<1>1. CASE UNCHANGED vars
  <2>1. UNCHANGED <<rec, cur, disk, received, pc, obj, abort>>
    BY <1>1 DEF vars, storeVars, taskVars
  <2> QED
    BY <2>1, CallKept, AbortsKept DEF AgreeInv, Cancellable
<1>2. CASE \E k \in Calls : Accept(k) \/ AcceptAgain(k) \/ Cancel(k) \/ CancelGoesOn(k)
  BY <1>2, AcceptAgrees, AcceptAgainAgrees, CancelAgrees
<1>3. CASE \E t \in Tasks : TaskStep(t) \/ TimesUp(t)
  BY <1>3, AnswerAgrees, WatchAgrees, PostAgrees DEF TaskStep
<1>4. CASE \E a \in Aborters : AbortStep(a)
  BY <1>4, AbortAgreesNext
<1>5. CASE Close \/ \E k \in Calls : LandsLate(k) \/ OpEnds(k)
  BY <1>5, OtherAgrees
<1>6. CASE CrashAndRestart
  BY <1>6, RestartAgrees
<1> QED
  BY <1>1, <1>2, <1>3, <1>4, <1>5, <1>6 DEF RapNext

\* Whatever is retried, redelivered, replaced by a duplicate or resumed after a
\* restart, the runtime never gets two different results for one call.
THEOREM OneAnswerPerCall == RapSpec => []AnswersAgree
<1>1. RapInit => TypeInv /\ AgreeInv
  BY RapInitTypes DEF RapInit, AgreeInv, CallAgrees, AbortAgrees, NoAbort, Tasks, Early, Watches
<1>2. TypeInv /\ AgreeInv /\ [RapNext]_vars => (TypeInv /\ AgreeInv)'
  BY AgreeStep, RapNextTypes
<1>3. AgreeInv => AnswersAgree
  BY DEF AgreeInv, CallAgrees, AnswersAgree
<1> QED
  BY <1>1, <1>2, <1>3, PTL DEF RapSpec
-----------------------------------------------------------------------------
(* Why close_thread is thorough. While its abort runs, what it has still to do   *)
(* covers what the thread has left: the operations known when it came are in its *)
(* list until they are cancelled, a lease is released when the daemon lists it   *)
(* at the latest, and a device that was set in motion had been noted before.     *)
(* An operation known only to a record that a duplicate replaced is not in that  *)
(* list: it was cancelled already, as a record is replaced only after that.      *)
Closing == abort[<<"close">>]
Stopped(k) == op[k] \in {"asked", "over"}
Replaced(k) == \/ cur[k] = 1 \/ rec[<<k, 1>>].known
               \/ \E w \in {"run", "again"} : obj[<<k, w>>] = 1

RecordsPart(k) ==
  /\ cur[k] = Absent => /\ disk[k].status # "cancelled" /\ ~disk[k].known
                        /\ \A g \in Objects : ~rec[<<k, g>>].known
  /\ cur[k] # Absent => /\ rec[<<k, cur[k]>>].known = disk[k].known
                        /\ rec[<<k, cur[k]>>].status = disk[k].status
  /\ \A g \in Objects : rec[<<k, g>>].known => op[k] # "none"
  /\ \A w \in {"run", "again"} :
        pc[<<k, w>>] = "answering" => k \in LeaseCalls \/ op[k] # "none"
  /\ \A g \in Objects : rec[<<k, g>>].status = "cancelled" => faults # 0 \/ Stopped(k)
  /\ Replaced(k) => faults # 0 \/ Stopped(k)
RecordsInv == faults \in Nat /\ \A k \in Calls : RecordsPart(k)

OpsPart ==
  closed # "no" /\ faults = 0 =>
     \A k \in Calls : disk[k].known /\ op[k] = "running" =>
        \/ <<"known", k>> \in since
        \/ Closing.stage = "ops" /\ \E x \in Closing.left : x[1] = k
LeasePart ==
  closed # "no" /\ faults = 0 /\ lease # 0 =>
     \/ <<"granted", lease>> \in since
     \/ Closing.stage \in {"ops", "leases", "list"}
     \/ Closing.stage = "listed" /\ Closing.left = {lease}
DevicePart ==
  closed # "no" /\ faults = 0 /\ hot =>
     \/ \E k \in Calls : <<"begun", k>> \in since
     \/ Closing.stage \in {"ops", "leases", "list", "listed"}
     \/ Closing.stage = "device" /\ Closing.left = {TRUE}
NotedPart ==
  /\ hot \/ late # {} => noted
  /\ \A t \in Tasks : pc[t] \in {"invoking", "acquiring"} => noted
ClosePart == closed = "closing" <=> Closing.stage # "off"

ThoroughInv == RecordsInv /\ OpsPart /\ LeasePart /\ DevicePart /\ NotedPart /\ ClosePart

\* How the daemon's part may move in a step, as far as call k goes.
OpMove(k) ==
  \/ op'[k] = op[k]
  \/ op[k] = "none" /\ op'[k] = "running"
  \/ op[k] = "running" /\ op'[k] = "asked"
  \/ Going(k) /\ op'[k] = "over"
FaultsMove == faults' \in Nat /\ (faults' = 0 => faults = 0)
LeaseMove == lease' = lease \/ lease' = 0 \/ closed = "no" \/ <<"granted", lease'>> \in since'
HotMove == hot' => hot \/ closed = "no" \/ \E k \in Calls : <<"begun", k>> \in since'
\* What is in the journal as known and goes on was so before, or was just learnt.
KnownMove(k) ==
  disk'[k].known /\ op'[k] = "running" /\ faults' = 0 =>
     \/ disk[k].known /\ op[k] = "running"
     \/ closed = "no" \/ <<"known", k>> \in since'

\* close_thread aborts in its own name, not in the name of a task.
LEMMA CloseIsNoTask == <<"close">> \notin Tasks /\ <<"close">> \in Aborters
  BY DEF Tasks, Aborters

\* The daemon begins, cancels or ends one operation.
LEMMA OpMoves ==
  ASSUME TypeInv, UNCHANGED op \/ (\E k \in Calls : Begins(k) \/ Stops(k))
  PROVE  \A i \in Calls : OpMove(i)
  BY DEF TypeInv, RapTypeOK, DaemonTypeOK, Begins, Stops, OpMove

\* A failed request is counted, and no step takes one back.
LEMMA FaultsMoves ==
  ASSUME faults \in Nat, Fails \/ UNCHANGED faults
  PROVE  FaultsMove
  BY DEF Fails, FaultsMove

\* What was stopped stays so, what was begun stays so.
LEMMA StoppedStays ==
  ASSUME NEW k, OpMove(k)
  PROVE  /\ Stopped(k) => Stopped(k)'
         /\ op[k] # "none" => op'[k] # "none"
         /\ op'[k] = "running" => op[k] = "running" \/ op[k] = "none"
  BY DEF OpMove, Stopped, Going

\* What a task of a call may do beside its writing.
TaskMove(k) ==
  \A w \in {"run", "again"} :
     /\ pc'[<<k, w>>] = "answering" =>
           pc[<<k, w>>] = "answering" \/ k \in LeaseCalls \/ op'[k] # "none"
     /\ obj'[<<k, w>>] = 1 => Replaced(k) \/ faults' # 0 \/ Stopped(k)'

\* A step that writes nothing of a call but its cancelled flag.
LEMMA RecordsKept ==
  ASSUME TypeInv, NEW k \in Calls, RecordsPart(k), OpMove(k), FaultsMove, TaskMove(k),
         cur'[k] = cur[k], disk'[k] = disk[k],
         \A g \in Objects : /\ rec'[<<k, g>>].known = rec[<<k, g>>].known
                            /\ rec'[<<k, g>>].status = rec[<<k, g>>].status
  PROVE  RecordsPart(k)' /\ KnownMove(k)
<1>1. cur[k] \in Objects \/ cur[k] = Absent
  BY DEF TypeInv, RapTypeOK, StoreTypeOK
<1>2. /\ Stopped(k) => Stopped(k)'
      /\ op[k] # "none" => op'[k] # "none"
      /\ op'[k] = "running" => op[k] = "running" \/ op[k] = "none"
  BY StoppedStays
<1>3. 1 \in Objects /\ (faults # 0 => faults' # 0)
  BY DEF FaultsMove, Objects
<1>4. Replaced(k)' => Replaced(k) \/ faults' # 0 \/ Stopped(k)'
  BY <1>3 DEF Replaced, TaskMove
<1>5. RecordsPart(k)'
  BY <1>1, <1>2, <1>3, <1>4 DEF RecordsPart, TaskMove
<1>6. disk[k].known => op[k] # "none"
  BY <1>1 DEF RecordsPart
<1> QED
  BY <1>2, <1>5, <1>6 DEF KnownMove

\* A step that journals an object of a call.
LEMMA RecordsWritten ==
  ASSUME TypeInv, NEW k \in Calls, NEW g \in Objects, NEW r \in Record, Upsert(k, g, r),
         RecordsPart(k), OpMove(k), FaultsMove, TaskMove(k),
         r.known => \/ rec[<<k, g>>].known
                    \/ op[k] # "none" /\ (closed = "no" \/ <<"known", k>> \in since'),
         r.status = "cancelled" =>
            rec[<<k, g>>].status = "cancelled" \/ faults' # 0 \/ Stopped(k)',
         g = 1 => Replaced(k) \/ faults' # 0 \/ Stopped(k)'
  PROVE  RecordsPart(k)' /\ KnownMove(k)
<1>1. cur[k] \in Objects \/ cur[k] = Absent
  BY DEF TypeInv, RapTypeOK, StoreTypeOK
<1>2. /\ Stopped(k) => Stopped(k)'
      /\ op[k] # "none" => op'[k] # "none"
      /\ op'[k] = "running" => op[k] = "running" \/ op[k] = "none"
  BY StoppedStays
<1>3. 1 \in Objects /\ (faults # 0 => faults' # 0) /\ g # Absent
  BY DEF FaultsMove, Objects, Absent
<1>4. /\ rec'[<<k, g>>] = r /\ cur'[k] = g /\ disk'[k] = r
      /\ \A h \in Objects : h # g => rec'[<<k, h>>] = rec[<<k, h>>]
  BY UpsertPoints DEF TypeInv, RapTypeOK
<1>5. Replaced(k)' => Replaced(k) \/ faults' # 0 \/ Stopped(k)'
  BY <1>3, <1>4 DEF Replaced, TaskMove
<1>6. RecordsPart(k)'
  <2>1. \A h \in Objects : rec'[<<k, h>>].known => op'[k] # "none"
    BY <1>2, <1>4 DEF RecordsPart
  <2>2. \A h \in Objects : rec'[<<k, h>>].status = "cancelled" => faults' # 0 \/ Stopped(k)'
    BY <1>2, <1>3, <1>4 DEF RecordsPart
  <2>3. Replaced(k)' => faults' # 0 \/ Stopped(k)'
    BY <1>2, <1>3, <1>5 DEF RecordsPart
  <2>4. \A w \in {"run", "again"} :
           pc'[<<k, w>>] = "answering" => k \in LeaseCalls \/ op'[k] # "none"
    BY <1>2 DEF RecordsPart, TaskMove
  <2> QED
    BY <1>3, <1>4, <2>1, <2>2, <2>3, <2>4 DEF RecordsPart
<1>7. KnownMove(k)
  <2> SUFFICES ASSUME r.known, op'[k] = "running", faults' = 0, rec[<<k, g>>].known
               PROVE  disk[k].known /\ op[k] = "running"
    BY <1>4 DEF KnownMove
  <2>1. op[k] = "running" /\ ~Stopped(k) /\ faults = 0
    BY <1>2 DEF RecordsPart, FaultsMove, Stopped
  <2>2. ~Replaced(k) /\ cur[k] # Absent
    BY <2>1 DEF RecordsPart
  <2>3. cur[k] = g
    BY <1>1, <2>2 DEF Replaced, Objects
  <2> QED
    BY <2>1, <2>2, <2>3 DEF RecordsPart
<1> QED
  BY <1>6, <1>7

RecordsMove == RecordsInv' /\ \A k \in Calls : KnownMove(k)

\* A task that moves elsewhere than to an answer, at the object it was at or none.
LEMMA TasksMove ==
  ASSUME TypeInv, NEW t \in Tasks, pc'[t] # "answering", obj'[t] \in {0, obj[t]},
         \A i \in Tasks \ {t} : pc'[i] = pc[i] /\ obj'[i] = obj[i]
  PROVE  \A k \in Calls : TaskMove(k)
<1> SUFFICES ASSUME NEW k \in Calls, NEW w \in {"run", "again"}
             PROVE  /\ pc'[<<k, w>>] = "answering" => pc[<<k, w>>] = "answering"
                    /\ obj'[<<k, w>>] = 1 => obj[<<k, w>>] = 1
  BY DEF TaskMove, Replaced
<1>1. <<k, w>> \in Tasks
  BY TaskParts
<1> QED
  BY <1>1

\* A step that moves no task moves none for a call.
LEMMA TasksStay == UNCHANGED <<pc, obj>> => \A k \in Calls : TaskMove(k)
  BY DEF TaskMove, Replaced

\* A step in which the records say what they said.
LEMMA NothingWritten ==
  ASSUME TypeInv, RecordsInv, FaultsMove, \A k \in Calls : OpMove(k) /\ TaskMove(k),
         UNCHANGED <<rec, cur, disk>>
  PROVE  RecordsMove
  BY RecordsKept DEF RecordsInv, RecordsMove, FaultsMove

\* A step that writes an object of one call.
LEMMA OneWritten ==
  ASSUME TypeInv, RecordsInv, FaultsMove, \A i \in Calls : OpMove(i) /\ TaskMove(i),
         NEW k \in Calls, NEW g \in Objects, NEW r \in Record, Upsert(k, g, r),
         r.known => \/ rec[<<k, g>>].known
                    \/ op[k] # "none" /\ (closed = "no" \/ <<"known", k>> \in since'),
         r.status = "cancelled" =>
            rec[<<k, g>>].status = "cancelled" \/ faults' # 0 \/ Stopped(k)',
         g = 1 => Replaced(k) \/ faults' # 0 \/ Stopped(k)'
  PROVE  RecordsMove
<1>1. RecordsPart(k)' /\ KnownMove(k)
  BY RecordsWritten DEF RecordsInv
<1>2. ASSUME NEW i \in Calls, i # k PROVE RecordsPart(i)' /\ KnownMove(i)
  <2>1. /\ cur'[i] = cur[i] /\ disk'[i] = disk[i]
        /\ \A h \in Objects : rec'[<<i, h>>] = rec[<<i, h>>]
    BY <1>2, UpsertPoints DEF TypeInv, RapTypeOK
  <2> QED
    BY <2>1, RecordsKept DEF RecordsInv
<1> QED
  BY <1>1, <1>2 DEF RecordsMove, RecordsInv, FaultsMove

\* A task writes its own object, which is the replacement only if one was made.
LEMMA TaskWrites ==
  ASSUME TypeInv, RecordsInv, FaultsMove, \A i \in Calls : OpMove(i) /\ TaskMove(i),
         NEW t \in Tasks, NEW r \in Record, Upsert(t[1], obj[t], r), r.status # "cancelled",
         r.known => \/ Mine(t).known
                    \/ op[t[1]] # "none" /\ (closed = "no" \/ <<"known", t[1]>> \in since')
  PROVE  RecordsMove
<1>1. t[1] \in Calls /\ obj[t] \in Objects /\ t = <<t[1], t[2]>> /\ t[2] \in {"run", "again"}
  BY TaskParts DEF TypeInv, RapTypeOK, TaskTypeOK
<1>2. obj[t] = 1 => Replaced(t[1])
  BY <1>1 DEF Replaced
<1> QED
  BY <1>1, <1>2, OneWritten DEF Mine

\* The end of an execution.
LEMMA ConcludesWrites ==
  ASSUME TypeInv, RecordsInv, FaultsMove, \A i \in Calls : OpMove(i),
         NEW t \in Tasks, NEW x \in {"result", "pending", "error"}, Concludes(t, x)
  PROVE  RecordsMove
<1>1. /\ t[1] \in Calls /\ obj[t] \in Objects /\ rec[<<t[1], obj[t]>>] \in Record
      /\ StoreTypeOK /\ TaskTypeOK
  BY TaskParts DEF TypeInv, RapTypeOK, StoreTypeOK, TaskTypeOK
<1>2. CASE t[2] = "run"
  <2>1. PICK y \in Texts : Deliver(t, obj[t], y)
    BY <1>2 DEF Concludes, Texts
  <2> DEFINE r == [rec[<<t[1], obj[t]>>] EXCEPT !.text = y, !.status = "delivering"]
  <2>2. Upsert(t[1], obj[t], r) /\ Goes(t, obj[t], "posting")
    BY <2>1 DEF Deliver
  <2>3. r \in Record /\ r.status = "delivering" /\ r.known = rec[<<t[1], obj[t]>>].known
    BY <1>1, RecordResults DEF Record
  <2> HIDE DEF r
  <2>4. \A i \in Calls : TaskMove(i)
    BY <1>1, <2>2, GoesPoints, TasksMove
  <2> QED
    BY <2>2, <2>3, <2>4, TaskWrites DEF Mine
<1>3. CASE t[2] # "run"
  <2>1. Rests(t) /\ UNCHANGED <<rec, cur, disk>>
    BY <1>3 DEF Concludes
  <2>2. \A i \in Calls : TaskMove(i)
    BY <1>1, <2>1, GoesPoints, TasksMove DEF Rests
  <2> QED
    BY <2>1, <2>2, NothingWritten
<1> QED
  BY <1>2, <1>3

\* The runtime's requests.
LEMMA RequestsWrite ==
  ASSUME TypeInv, AgreeInv, RecordsInv, NEW k \in Calls,
         Accept(k) \/ AcceptAgain(k) \/ Cancel(k) \/ CancelGoesOn(k)
  PROVE  RecordsMove
<1>1. StoreTypeOK /\ TaskTypeOK /\ cur[k] \in Objects \cup {Absent} /\ faults \in Nat
      /\ RecordsPart(k) /\ CallAgrees(k)
  BY DEF TypeInv, RapTypeOK, StoreTypeOK, RecordsInv, AgreeInv
<1>2. FaultsMove
  BY <1>1, FaultsMoves DEF Accept, AcceptAgain, Cancel, CancelGoesOn
<1>3. \A i \in Calls : OpMove(i)
  <2>1. UNCHANGED op \/ Stops(k)
    BY DEF Accept, AcceptAgain, Cancel, CancelGoesOn, daemonVars
  <2> QED
    BY <2>1, OpMoves
<1>4. CASE Accept(k)
  <2> DEFINE g == IF cur[k] = 0 THEN 1 ELSE 0
             t == <<k, "run">>
  <2>1. /\ t \in Tasks /\ g \in Objects /\ UNCHANGED <<op, faults>>
        /\ cur[k] # Absent => rec[<<k, cur[k]>>].status = "cancelled"
    BY <1>4, TaskParts DEF Accept, Objects, daemonVars
  <2>2. \/ /\ InFlight(k) /\ Upsert(k, g, Accepted) /\ UNCHANGED <<pc, obj>>
        \/ /\ ~InFlight(k) /\ Upsert(k, g, [Accepted EXCEPT !.status = "running"])
           /\ Goes(t, g, Executing(k))
    BY <1>4 DEF Accept
  <2>3. g = 1 => faults # 0 \/ Stopped(k)
    BY <1>1, <2>1 DEF RecordsPart, Absent, Objects
  <2>4. faults' = faults /\ (Stopped(k) => Stopped(k)')
    BY <1>3, <2>1, StoppedStays
  <2> HIDE DEF g
  <2>5. \A i \in Calls : TaskMove(i)
    <3>1. CASE UNCHANGED <<pc, obj>>
      BY <3>1, TasksStay
    <3>2. CASE Goes(t, g, Executing(k))
      <4>1. /\ pc'[t] # "answering" /\ obj'[t] = g
            /\ \A i \in Tasks \ {t} : pc'[i] = pc[i] /\ obj'[i] = obj[i]
        BY <1>1, <2>1, <3>2, GoesPoints DEF Executing
      <4> SUFFICES ASSUME NEW i \in Calls, NEW w \in {"run", "again"}
                   PROVE  /\ pc'[<<i, w>>] = "answering" => pc[<<i, w>>] = "answering"
                          /\ obj'[<<i, w>>] = 1 =>
                                Replaced(i) \/ faults' # 0 \/ Stopped(i)'
        BY DEF TaskMove
      <4>2. <<i, w>> \in Tasks
        BY TaskParts
      <4>3. CASE <<i, w>> = t
        BY <2>3, <2>4, <4>1, <4>3
      <4>4. CASE <<i, w>> # t
        BY <4>1, <4>2, <4>4 DEF Replaced
      <4> QED
        BY <4>3, <4>4
    <3> QED
      BY <2>2, <3>1, <3>2
  <2>6. PICK r \in Record : Upsert(k, g, r) /\ ~r.known /\ r.status # "cancelled"
    BY <2>2, AcceptedIsRecord DEF Accepted
  <2> QED
    BY <1>2, <1>3, <2>1, <2>3, <2>4, <2>5, <2>6, OneWritten
<1>5. CASE AcceptAgain(k)
  <2> DEFINE t == <<k, "again">>
  <2>1. t \in Tasks /\ cur[k] \in Objects /\ rec[<<k, cur[k]>>] \in Record
    BY <1>1, <1>5, TaskParts DEF AcceptAgain, StoreTypeOK
  <2>2. \/ \E x \in Texts : Deliver(t, cur[k], x)
        \/ /\ \E y \in Watches : Goes(t, cur[k], y)
           /\ UNCHANGED <<rec, cur, disk>>
    BY <1>5, <2>1, RecordFields DEF AcceptAgain, Watching, Watches
  <2>3. ASSUME NEW y, y # "answering", Goes(t, cur[k], y) PROVE \A i \in Calls : TaskMove(i)
    <3>1. /\ pc'[t] # "answering" /\ obj'[t] = cur[k]
          /\ \A i \in Tasks \ {t} : pc'[i] = pc[i] /\ obj'[i] = obj[i]
      BY <1>1, <2>1, <2>3, GoesPoints
    <3> SUFFICES ASSUME NEW i \in Calls, NEW w \in {"run", "again"}
                 PROVE  /\ pc'[<<i, w>>] = "answering" => pc[<<i, w>>] = "answering"
                        /\ obj'[<<i, w>>] = 1 => Replaced(i)
      BY DEF TaskMove
    <3>2. <<i, w>> \in Tasks
      BY TaskParts
    <3>3. CASE <<i, w>> = t
      BY <3>1, <3>3 DEF Replaced
    <3>4. CASE <<i, w>> # t
      BY <3>1, <3>2, <3>4 DEF Replaced
    <3> QED
      BY <3>3, <3>4
  <2>4. CASE \E x \in Texts : Deliver(t, cur[k], x)
    <3>1. PICK x \in Texts : Deliver(t, cur[k], x)
      BY <2>4
    <3> DEFINE r == [rec[<<k, cur[k]>>] EXCEPT !.text = x, !.status = "delivering"]
    <3>2. Upsert(k, cur[k], r) /\ Goes(t, cur[k], "posting")
      BY <3>1 DEF Deliver
    <3>3. r \in Record /\ r.status = "delivering" /\ r.known = rec[<<k, cur[k]>>].known
      BY <2>1, RecordResults DEF Record
    <3> HIDE DEF r
    <3>4. \A i \in Calls : TaskMove(i)
      BY <2>3, <3>2
    <3>5. cur[k] = 1 => Replaced(k)
      BY DEF Replaced
    <3> QED
      BY <1>2, <1>3, <2>1, <3>2, <3>3, <3>4, <3>5, OneWritten
  <2>5. CASE /\ \E y \in Watches : Goes(t, cur[k], y)
             /\ UNCHANGED <<rec, cur, disk>>
    <3>1. \A i \in Calls : TaskMove(i)
      BY <2>3, <2>5 DEF Watches
    <3> QED
      BY <1>2, <1>3, <2>5, <3>1, NothingWritten
  <2> QED
    BY <2>2, <2>4, <2>5
<1>6. CASE Cancel(k)
  <2> DEFINE r == [rec[<<k, cur[k]>>] EXCEPT !.cancelled = TRUE]
  <2>1. cur[k] \in Objects /\ rec[<<k, cur[k]>>] \in Record /\ UNCHANGED <<pc, obj>>
        /\ Upsert(k, cur[k], r)
    BY <1>1, <1>6 DEF Cancel, StoreTypeOK, taskVars
  <2>2. /\ r \in Record /\ r.status = rec[<<k, cur[k]>>].status
        /\ r.known = rec[<<k, cur[k]>>].known
    BY <2>1, RecordMarks DEF Record
  <2> HIDE DEF r
  <2>3. cur[k] = 1 => Replaced(k)
    BY DEF Replaced
  <2> QED
    BY <1>2, <1>3, <2>1, <2>2, <2>3, TasksStay, OneWritten
<1>7. CASE CancelGoesOn(k)
  <2>1. UNCHANGED <<rec, cur, disk, pc, obj>>
    BY <1>7 DEF CancelGoesOn, storeVars, taskVars
  <2> QED
    BY <1>2, <1>3, <2>1, TasksStay, NothingWritten
<1> QED
  BY <1>4, <1>5, <1>6, <1>7

\* The daemon's answers to a task, and its operations' ends.
LEMMA DaemonWrites ==
  ASSUME TypeInv, AgreeInv, RecordsInv,
         \/ \E t \in Tasks : Lands(t) \/ Answered(t) \/ Refused(t)
         \/ \E k \in Calls : LandsLate(k) \/ OpEnds(k)
  PROVE  RecordsMove
<1>1. StoreTypeOK /\ TaskTypeOK /\ faults \in Nat
  BY DEF TypeInv, RapTypeOK, RecordsInv
<1>2. ASSUME NEW t \in Tasks, Lands(t) PROVE RecordsMove
  <2>1. /\ t[1] \in Calls /\ t = <<t[1], t[2]>> /\ t[2] \in {"run", "again"}
        /\ UNCHANGED <<rec, cur, disk, faults>> /\ Goes(t, obj[t], "answering")
        /\ pc[t] = "acquiring" => t[1] \in LeaseCalls
        /\ \/ pc[t] = "invoking" /\ Begins(t[1])
           \/ pc[t] = "acquiring" /\ UNCHANGED op
    BY <1>2, TaskParts DEF Lands, TypeInv, storeVars, boundVars
  <2>2. \A i \in Calls : OpMove(i)
    BY <2>1, OpMoves
  <2>3. t[1] \in LeaseCalls \/ op'[t[1]] # "none"
    BY <2>1 DEF Begins, TypeInv, RapTypeOK, DaemonTypeOK
  <2>4. /\ obj'[t] = obj[t]
        /\ \A i \in Tasks \ {t} : pc'[i] = pc[i] /\ obj'[i] = obj[i]
    BY <1>1, <2>1, GoesPoints
  <2>5. ASSUME NEW i \in Calls PROVE TaskMove(i)
    <3> SUFFICES ASSUME NEW w \in {"run", "again"}
                 PROVE  /\ pc'[<<i, w>>] = "answering" =>
                             pc[<<i, w>>] = "answering" \/ i \in LeaseCalls \/ op'[i] # "none"
                        /\ obj'[<<i, w>>] = 1 => Replaced(i)
      BY DEF TaskMove
    <3>1. <<i, w>> \in Tasks
      BY TaskParts
    <3>2. CASE <<i, w>> = t
      BY <2>1, <2>3, <2>4, <3>2 DEF Replaced
    <3>3. CASE <<i, w>> # t
      BY <2>4, <3>1, <3>3 DEF Replaced
    <3> QED
      BY <3>2, <3>3
  <2>6. FaultsMove
    BY <1>1, <2>1, FaultsMoves
  <2> QED
    BY <2>1, <2>2, <2>5, <2>6, NothingWritten
<1>3. ASSUME NEW t \in Tasks, Answered(t) PROVE RecordsMove
  <2> DEFINE k == t[1]
             r == [Mine(t) EXCEPT !.known = TRUE]
  <2>1. /\ k \in Calls /\ t = <<k, t[2]>> /\ t[2] \in {"run", "again"} /\ obj[t] \in Objects
        /\ Mine(t) \in Record /\ pc[t] = "answering" /\ UNCHANGED <<op, faults, closed>>
    BY <1>1, <1>3, TaskParts DEF Answered, StoreTypeOK, TaskTypeOK, Mine, daemonVars, boundVars
  <2>2. FaultsMove /\ \A i \in Calls : OpMove(i)
    BY <1>1, <2>1, FaultsMoves, OpMoves
  <2>3. CASE k \in LeaseCalls
    BY <1>3, <2>2, <2>3, ConcludesWrites DEF Answered
  <2>4. CASE k \notin LeaseCalls
    <3>1. Upsert(k, obj[t], r) /\ (\E y \in Watches : Goes(t, obj[t], y))
          /\ (closed = "no" \/ <<"known", k>> \in since')
      BY <1>3, <2>4 DEF Answered, Watching, Watches, Learns
    <3>2. op[k] # "none"
      BY <2>1, <2>4 DEF RecordsInv, RecordsPart
    <3>3. CallAgrees(k) /\ (t[2] = "run" => Mine(t).status = "running") /\ t[2] = "run"
      BY <2>1 DEF AgreeInv, CallAgrees, Early, Mine
    <3>4. r \in Record /\ r.status = "running"
      BY <2>1, <3>3, RecordMarks DEF Record
    <3> HIDE DEF r
    <3>5. \A i \in Calls : TaskMove(i)
      BY <1>1, <3>1, GoesPoints, TasksMove DEF Watches
    <3> QED
      BY <2>2, <3>1, <3>2, <3>4, <3>5, TaskWrites
  <2> QED
    BY <2>3, <2>4
<1>4. ASSUME NEW t \in Tasks, Refused(t) PROVE RecordsMove
  <2>1. Concludes(t, "error") /\ UNCHANGED op /\ (Fails \/ UNCHANGED faults)
    BY <1>4 DEF Refused, daemonVars
  <2> QED
    BY <1>1, <2>1, FaultsMoves, OpMoves, ConcludesWrites
<1>5. ASSUME NEW k \in Calls, LandsLate(k) \/ OpEnds(k) PROVE RecordsMove
  <2>1. UNCHANGED <<rec, cur, disk, pc, obj, faults>>
    BY <1>5 DEF LandsLate, OpEnds, storeVars, taskVars, boundVars
  <2>2. \A i \in Calls : OpMove(i)
    <3>1. CASE LandsLate(k)
      BY <3>1, OpMoves DEF LandsLate
    <3>2. CASE OpEnds(k)
      BY <3>2 DEF OpEnds, OpMove, TypeInv, RapTypeOK, DaemonTypeOK
    <3> QED
      BY <1>5, <3>1, <3>2
  <2> QED
    BY <1>1, <2>1, <2>2, FaultsMoves, TasksStay, NothingWritten
<1> QED
  BY <1>2, <1>3, <1>4, <1>5

\* A task watches its operation.
LEMMA WatchWrites ==
  ASSUME TypeInv, RecordsInv, NEW t \in Tasks, Asks(t) \/ Polls(t) \/ TimesUp(t)
  PROVE  RecordsMove
<1>1. StoreTypeOK /\ TaskTypeOK /\ faults \in Nat /\ t[1] \in Calls /\ obj[t] \in Objects
      /\ Mine(t) \in Record
  BY TaskParts DEF TypeInv, RapTypeOK, RecordsInv, TaskTypeOK, StoreTypeOK, Mine
<1>2. FaultsMove
  BY <1>1, FaultsMoves DEF Asks, Polls, TimesUp, boundVars
<1>3. \A i \in Calls : OpMove(i)
  <2>1. UNCHANGED op \/ Stops(t[1])
    BY DEF Asks, Polls, TimesUp, daemonVars
  <2> QED
    BY <1>1, <2>1, OpMoves
<1>4. CASE Asks(t)
  <2>1. UNCHANGED <<rec, cur, disk>> /\ Goes(t, obj[t], "polling")
    BY <1>4 DEF Asks, storeVars
  <2>2. \A i \in Calls : TaskMove(i)
    BY <1>1, <2>1, GoesPoints, TasksMove
  <2> QED
    BY <1>2, <1>3, <2>1, <2>2, NothingWritten
<1>5. CASE (\E x \in {"result", "pending"} : Concludes(t, x))
  BY <1>2, <1>3, <1>5, ConcludesWrites
<1>6. CASE Polls(t) /\ ~Concludes(t, "result")
  <2> DEFINE r == [Mine(t) EXCEPT !.cancelled = @ \/ rec[<<t[1], cur[t[1]]>>].cancelled]
  <2>1. /\ rec' = [rec EXCEPT ![<<t[1], obj[t]>>] = r] /\ UNCHANGED <<cur, disk>>
        /\ \E y \in Watches : Goes(t, obj[t], y)
    BY <1>6 DEF Polls, Watching, Watches
  <2>2. r.known = Mine(t).known /\ r.status = Mine(t).status
    BY <1>1 DEF Record
  <2> HIDE DEF r
  <2>3. \A i \in Calls, g \in Objects : /\ rec'[<<i, g>>].known = rec[<<i, g>>].known
                                        /\ rec'[<<i, g>>].status = rec[<<i, g>>].status
    BY <1>1, <2>1, <2>2 DEF StoreTypeOK, Mine
  <2>4. \A i \in Calls : TaskMove(i)
    BY <1>1, <2>1, GoesPoints, TasksMove DEF Watches
  <2>5. \A i \in Calls : RecordsPart(i)' /\ KnownMove(i)
    BY <1>2, <1>3, <2>1, <2>3, <2>4, RecordsKept DEF RecordsInv
  <2> QED
    BY <1>2, <2>5 DEF RecordsMove, RecordsInv, FaultsMove
<1> QED
  BY <1>4, <1>5, <1>6 DEF Polls, TimesUp

\* A task posts its result.
LEMMA PostWrites ==
  ASSUME TypeInv, RecordsInv, NEW t \in Tasks, PostedOk(t) \/ PostedAgain(t) \/ GivesUp(t)
  PROVE  RecordsMove
<1>1. /\ StoreTypeOK /\ TaskTypeOK /\ faults \in Nat /\ t[1] \in Calls /\ obj[t] \in Objects
      /\ Mine(t) \in Record /\ tries[t] \in Nat
  BY TaskParts, RapAssumption DEF TypeInv, RapTypeOK, RecordsInv, TaskTypeOK, StoreTypeOK, Mine
<1>2. UNCHANGED <<op, faults>>
  BY DEF PostedOk, PostedAgain, GivesUp, boundVars, daemonVars
<1>3. FaultsMove /\ \A i \in Calls : OpMove(i)
  BY <1>1, <1>2, FaultsMoves, OpMoves
<1>4. CASE PostedAgain(t)
  <2>1. UNCHANGED <<rec, cur, disk, pc, obj>>
    BY <1>4 DEF PostedAgain, storeVars
  <2> QED
    BY <1>3, <2>1, TasksStay, NothingWritten
<1>5. CASE PostedOk(t) \/ GivesUp(t)
  <2>1. PICK r \in Record : Upsert(t[1], obj[t], r) /\ r.status # "cancelled"
                            /\ r.known = Mine(t).known
    <3> DEFINE r1 == [Mine(t) EXCEPT !.status = "delivered", !.attempts = @ + tries[t]]
               r2 == [Mine(t) EXCEPT !.status = "failed", !.attempts = @ + tries[t]]
    <3>1. r1 \in Record /\ r2 \in Record
      <4>1. "none" \in Texts
        BY DEF Texts
      <4> QED
        BY <1>1, <4>1, RecordResults
    <3>2. /\ r1.status = "delivered" /\ r1.known = Mine(t).known
          /\ r2.status = "failed" /\ r2.known = Mine(t).known
      BY <1>1 DEF Record
    <3>3. Upsert(t[1], obj[t], r1) \/ Upsert(t[1], obj[t], r2)
      BY <1>5 DEF PostedOk, GivesUp
    <3> HIDE DEF r1, r2
    <3> QED
      BY <3>1, <3>2, <3>3
  <2>2. Rests(t) \/ Goes(t, obj[t], "aborting")
    BY <1>5 DEF PostedOk, GivesUp
  <2>3. /\ pc'[t] # "answering" /\ obj'[t] \in {0, obj[t]}
        /\ \A i \in Tasks \ {t} : pc'[i] = pc[i] /\ obj'[i] = obj[i]
    BY <1>1, <2>2, GoesPoints DEF Rests
  <2>4. \A i \in Calls : TaskMove(i)
    BY <2>3, TasksMove
  <2> QED
    BY <1>3, <2>1, <2>4, TaskWrites
<1> QED
  BY <1>4, <1>5

\* A thread is brought to safety, or closed.
LEMMA AbortWrites ==
  ASSUME TypeInv, AgreeInv, RecordsInv, Close \/ \E a \in Aborters : AbortStep(a)
  PROVE  RecordsMove
<1>1. StoreTypeOK /\ TaskTypeOK /\ faults \in Nat
  BY DEF TypeInv, RapTypeOK, RecordsInv
<1>2. ASSUME NEW a \in Aborters, AbortCancels(a) PROVE RecordsMove
  <2>1. abort[a].stage = "ops" /\ UNCHANGED <<pc, obj>>
    BY <1>2 DEF AbortCancels, taskVars
  <2>2. PICK x \in abort[a].left :
          LET r == [rec[x] EXCEPT !.cancelled = TRUE] IN
          /\ \/ Stops(x[1]) /\ UNCHANGED faults
             \/ Fails /\ UNCHANGED op
          /\ IF r.status \in {"accepted", "running", "delivering"}
             THEN Upsert(x[1], x[2], [r EXCEPT !.status = "cancelled"])
             ELSE rec' = [rec EXCEPT ![x] = r] /\ UNCHANGED <<cur, disk>>
    BY <1>2 DEF AbortCancels
  <2> DEFINE k == x[1]
             g == x[2]
             r1 == [rec[x] EXCEPT !.cancelled = TRUE]
             r2 == [r1 EXCEPT !.status = "cancelled"]
  <2>3. /\ k \in Calls /\ g \in Objects /\ x = <<k, g>> /\ rec[x] \in Record /\ rec[x].known
        /\ RecordsPart(k)
    <3>1. x \in Calls \X Objects
      BY <1>1, <2>1 DEF TaskTypeOK, Aborts
    <3>2. rec[x].known
      BY <2>1 DEF AgreeInv, AbortAgrees, Cancellable
    <3> QED
      BY <1>1, <3>1, <3>2 DEF StoreTypeOK, RecordsInv
  <2>4. /\ r1 \in Record /\ r2 \in Record /\ r1.known = rec[x].known /\ r2.known = rec[x].known
        /\ r1.status = rec[x].status /\ r2.status = "cancelled"
    BY <2>3, RecordMarks DEF Record
  <2>5. FaultsMove /\ \A i \in Calls : OpMove(i)
    BY <1>1, <2>2, <2>3, FaultsMoves, OpMoves
  <2>6. faults' # 0 \/ Stopped(k)'
    <3>1. op[k] \in {"running", "asked", "over"}
      BY <2>3 DEF RecordsPart, TypeInv, RapTypeOK, DaemonTypeOK
    <3>2. CASE Stops(k)
      BY <2>3, <3>1, <3>2 DEF Stops, Stopped, TypeInv, RapTypeOK, DaemonTypeOK
    <3>3. CASE Fails
      BY <1>1, <3>3 DEF Fails
    <3> QED
      BY <2>2, <3>2, <3>3
  <2>7. \A i \in Calls : TaskMove(i)
    BY <2>1, TasksStay
  <2>8. \/ Upsert(k, g, r2)
        \/ rec' = [rec EXCEPT ![x] = r1] /\ UNCHANGED <<cur, disk>>
    BY <2>2
  <2> HIDE DEF r1, r2
  <2>9. CASE Upsert(k, g, r2)
    <3>1. g = 1 => Replaced(k)
      BY <2>3 DEF Replaced
    <3> QED
      BY <2>3, <2>4, <2>5, <2>6, <2>7, <2>9, <3>1, OneWritten
  <2>10. CASE rec' = [rec EXCEPT ![x] = r1] /\ UNCHANGED <<cur, disk>>
    <3>1. \A i \in Calls, h \in Objects : /\ rec'[<<i, h>>].known = rec[<<i, h>>].known
                                          /\ rec'[<<i, h>>].status = rec[<<i, h>>].status
      BY <1>1, <2>3, <2>4, <2>10 DEF StoreTypeOK
    <3>2. \A i \in Calls : RecordsPart(i)' /\ KnownMove(i)
      BY <2>5, <2>7, <2>10, <3>1, RecordsKept DEF RecordsInv
    <3> QED
      BY <2>5, <3>2 DEF RecordsMove, RecordsInv, FaultsMove
  <2> QED
    BY <2>8, <2>9, <2>10
<1>3. ASSUME NEW a \in Aborters, AbortReleases(a) \/ AbortLists(a) \/ AbortDisarms(a)
      PROVE  RecordsMove
  <2>1. UNCHANGED <<rec, cur, disk, op>> /\ (Fails \/ UNCHANGED faults)
    BY <1>3 DEF AbortReleases, AbortLists, AbortDisarms, storeVars, daemonVars
  <2>2. \A i \in Calls : TaskMove(i)
    <3>1. UNCHANGED <<pc, obj>> \/ (a \in Tasks /\ Rests(a))
      BY <1>3 DEF AbortReleases, AbortLists, AbortDisarms, taskVars
    <3>2. CASE UNCHANGED <<pc, obj>>
      BY <3>2, TasksStay
    <3>3. CASE a \in Tasks /\ Rests(a)
      BY <1>1, <3>3, GoesPoints, TasksMove DEF Rests
    <3> QED
      BY <3>1, <3>2, <3>3
  <2> QED
    BY <1>1, <2>1, <2>2, FaultsMoves, OpMoves, NothingWritten
<1>4. CASE Close
  <2>1. UNCHANGED <<rec, cur, disk, pc, obj, op, faults>>
    BY <1>4 DEF Close, storeVars, taskVars, daemonVars
  <2> QED
    BY <1>1, <2>1, FaultsMoves, OpMoves, TasksStay, NothingWritten
<1> QED
  BY <1>2, <1>3, <1>4 DEF AbortStep

\* A restart takes the records from the journal.
LEMMA RestartWrites ==
  ASSUME TypeInv, RecordsInv, CrashAndRestart
  PROVE  RecordsMove
<1> DEFINE kept == [k \in Calls |-> IF cur[k] = Absent THEN disk[k] ELSE Resumed(disk[k])]
<1>1. /\ disk' = kept /\ UNCHANGED <<op, faults>>
      /\ rec' = [x \in Calls \X Objects |-> IF x[2] = 0 THEN kept[x[1]] ELSE Accepted]
      /\ cur' = [k \in Calls |-> IF cur[k] = Absent THEN Absent ELSE 0]
      /\ pc' = [t \in Tasks |-> ResumedAt(t)]
      /\ obj' = [t \in Tasks |-> 0]
  BY DEF CrashAndRestart, daemonVars
<1>2. ASSUME NEW k \in Calls PROVE RecordsPart(k)' /\ KnownMove(k)
  <2>1. /\ RecordsPart(k) /\ disk[k] \in Record /\ cur[k] \in Objects \cup {Absent}
        /\ <<k, "run">> \in Tasks /\ <<k, "again">> \in Tasks
        /\ Objects = {0, 1} /\ Absent \notin Objects
    BY TaskParts DEF TypeInv, RapTypeOK, StoreTypeOK, RecordsInv, Objects, Absent
  <2>2. /\ kept[k].known = disk[k].known
        /\ kept[k].status = "cancelled" <=> disk[k].status = "cancelled"
    <3>1. /\ Resumed(disk[k]).known = disk[k].known
          /\ Resumed(disk[k]).status = "cancelled" <=> disk[k].status = "cancelled"
      BY <2>1 DEF Resumed, Record, Open
    <3> QED
      BY <3>1
  <2>3. /\ disk'[k] = kept[k] /\ rec'[<<k, 0>>] = kept[k] /\ rec'[<<k, 1>>] = Accepted
        /\ cur'[k] = (IF cur[k] = Absent THEN Absent ELSE 0)
        /\ op'[k] = op[k] /\ faults' = faults
        /\ \A w \in {"run", "again"} :
              obj'[<<k, w>>] = 0 /\ pc'[<<k, w>>] = ResumedAt(<<k, w>>)
    BY <1>1, <2>1
  <2> HIDE DEF kept
  <2>4. \A w \in {"run", "again"} : ResumedAt(<<k, w>>) # "answering"
    BY DEF ResumedAt, Executing, Watching
  <2>5. ~Accepted.known /\ Accepted.status # "cancelled"
    BY DEF Accepted
  <2>6. ~Replaced(k)'
    BY <2>1, <2>3, <2>5 DEF Replaced
  <2>7. /\ disk[k].known => op[k] # "none"
        /\ disk[k].status = "cancelled" => faults # 0 \/ Stopped(k)
    BY <2>1 DEF RecordsPart
  <2>8. Stopped(k)' <=> Stopped(k)
    BY <2>3 DEF Stopped
  <2>9. RecordsPart(k)'
    BY <2>1, <2>2, <2>3, <2>4, <2>5, <2>6, <2>7, <2>8 DEF RecordsPart
  <2> QED
    BY <2>2, <2>3, <2>9 DEF KnownMove
<1> QED
  BY <1>1, <1>2 DEF RecordsMove, RecordsInv

\* What a step that is not of close_thread's abort does to the daemon and to what
\* is remembered since.
Elsewhere ==
  /\ LeaseMove /\ HotMove
  /\ closed' = closed /\ since \subseteq since' /\ Closing' = Closing

\* The steps of the tasks and of the requests.
LEMMA TasksElsewhere ==
  ASSUME TypeInv,
         \/ \E k \in Calls : \/ Accept(k) \/ AcceptAgain(k) \/ Cancel(k) \/ CancelGoesOn(k)
                             \/ LandsLate(k) \/ OpEnds(k)
         \/ \E t \in Tasks : TaskStep(t) \/ TimesUp(t)
  PROVE  Elsewhere
<1>1. CASE \E k \in Calls : Accept(k) \/ AcceptAgain(k) \/ Cancel(k)
  BY <1>1 DEF Accept, AcceptAgain, Cancel, historyVars, daemonVars, Elsewhere, LeaseMove,
              HotMove, Closing
<1>2. CASE \E k \in Calls : CancelGoesOn(k) \/ OpEnds(k)
  BY <1>2 DEF CancelGoesOn, OpEnds, historyVars, Elsewhere, LeaseMove, HotMove, Closing
<1>3. ASSUME NEW k \in Calls, LandsLate(k) \/ \E t \in Tasks : Lands(t)
      PROVE  Elsewhere
  <2>1. UNCHANGED <<abort, closed>>
    BY <1>3 DEF LandsLate, Lands
  <2>2. PICK i \in Calls : \/ Begins(i) /\ UNCHANGED <<lease, granted, leaseOf>>
                           \/ Grants(i) /\ UNCHANGED <<op, hot>>
    BY <1>3, TaskParts DEF LandsLate, Lands
  <2>3. CASE Begins(i) /\ UNCHANGED <<lease, granted, leaseOf>>
    BY <2>1, <2>2, <2>3 DEF Begins, Learns, Elsewhere, LeaseMove, HotMove, Closing
  <2>4. CASE Grants(i) /\ UNCHANGED <<op, hot>>
    BY <2>1, <2>2, <2>4 DEF Grants, Learns, Elsewhere, LeaseMove, HotMove, Closing
  <2> QED
    BY <2>2, <2>3, <2>4
<1>4. CASE \E t \in Tasks : Lands(t)
  BY <1>3, <1>4, TaskParts
<1>5. ASSUME NEW t \in Tasks, Answered(t) PROVE Elsewhere
  <2>1. UNCHANGED <<abort, closed, lease, hot>> /\ since \subseteq since'
    BY <1>5 DEF Answered, daemonVars, Learns
  <2> QED
    BY <2>1 DEF Elsewhere, LeaseMove, HotMove, Closing
<1>6. CASE \E t \in Tasks : Refused(t) \/ Asks(t) \/ Polls(t) \/ TimesUp(t) \/ PostedOk(t)
                            \/ PostedAgain(t)
  BY <1>6 DEF Refused, Asks, Polls, TimesUp, PostedOk, PostedAgain, daemonVars, historyVars,
              Elsewhere, LeaseMove, HotMove, Closing
<1>7. ASSUME NEW t \in Tasks, GivesUp(t) PROVE Elsewhere
  <2>1. abort'[<<"close">>] = abort[<<"close">>]
    <3>1. UNCHANGED abort \/ AbortBegins(t, cur', rec')
      BY <1>7 DEF GivesUp
    <3> QED
      BY <3>1, CloseIsNoTask DEF AbortBegins, TypeInv, RapTypeOK, TaskTypeOK
  <2> QED
    BY <1>7, <2>1 DEF GivesUp, daemonVars, historyVars, Elsewhere, LeaseMove, HotMove, Closing
<1> QED
  BY <1>1, <1>2, <1>3, <1>4, <1>5, <1>6, <1>7 DEF TaskStep

\* The last request of an abort may leave the device armed, it never arms it.
LEMMA AbortCools ==
  ASSUME NEW a, AbortDisarms(a)
  PROVE  hot' => hot
<1>1. \/ hot' = (hot /\ abort[a].left = {FALSE})
      \/ UNCHANGED hot
  BY DEF AbortDisarms
<1>2. CASE hot' = (hot /\ abort[a].left = {FALSE})
  BY <1>2, Zenon
<1>3. CASE UNCHANGED hot
  BY <1>3, Zenon
<1> QED
  BY <1>1, <1>2, <1>3

\* The steps of other aborts.
LEMMA AbortsElsewhere ==
  ASSUME TypeInv, NEW a \in Aborters, a # <<"close">>, AbortStep(a)
  PROVE  Elsewhere
<1>1. abort'[<<"close">>] = abort[<<"close">>]
  <2>1. \E v : abort' = [abort EXCEPT ![a] = v]
    <3>1. CASE AbortCancels(a)
      BY <3>1 DEF AbortCancels
    <3>2. CASE AbortReleases(a)
      BY <3>2 DEF AbortReleases
    <3>3. CASE AbortLists(a) \/ AbortDisarms(a)
      BY <3>3 DEF AbortLists, AbortDisarms
    <3> QED
      BY <3>1, <3>2, <3>3 DEF AbortStep
  <2> QED
    BY <2>1, CloseIsNoTask DEF TypeInv, RapTypeOK, TaskTypeOK
<1>2. UNCHANGED <<closed, since>>
  <2>1. a \in Tasks
    BY DEF Aborters
  <2> QED
    BY <2>1 DEF AbortStep, AbortCancels, AbortReleases, AbortLists, AbortDisarms, historyVars
<1>3. (lease' = lease \/ lease' = 0) /\ (hot' => hot)
  <2>1. CASE AbortCancels(a)
    BY <2>1 DEF AbortCancels
  <2>2. CASE AbortReleases(a)
    BY <2>2 DEF AbortReleases
  <2>3. CASE AbortLists(a)
    BY <2>3 DEF AbortLists, daemonVars
  <2>4. CASE AbortDisarms(a)
    <3>1. UNCHANGED lease
      BY <2>4 DEF AbortDisarms
    <3>2. hot' => hot
      BY <2>4, AbortCools
    <3> QED
      BY <3>1, <3>2
  <2> QED
    BY <2>1, <2>2, <2>3, <2>4 DEF AbortStep
<1> QED
  BY <1>1, <1>2, <1>3 DEF Elsewhere, Closing, LeaseMove, HotMove

\* They leave the parts of the close as they are.
LEMMA ElsewhereKeeps ==
  ASSUME ThoroughInv, RecordsMove, FaultsMove, Elsewhere
  PROVE  OpsPart' /\ LeasePart' /\ DevicePart' /\ ClosePart'
<1> USE DEF ThoroughInv, Elsewhere
<1>1. OpsPart'
  <2> SUFFICES ASSUME closed # "no", faults = 0, faults' = 0,
                      NEW k \in Calls, disk'[k].known, op'[k] = "running"
               PROVE  \/ <<"known", k>> \in since'
                      \/ Closing.stage = "ops" /\ \E x \in Closing.left : x[1] = k
    BY DEF OpsPart, FaultsMove
  <2>1. KnownMove(k)
    BY DEF RecordsMove
  <2> QED
    BY <2>1 DEF KnownMove, OpsPart
<1>2. LeasePart'
  BY DEF LeasePart, LeaseMove, FaultsMove
<1>3. DevicePart'
  BY DEF DevicePart, HotMove, FaultsMove
<1>4. ClosePart'
  BY DEF ClosePart
<1> QED
  BY <1>1, <1>2, <1>3, <1>4

\* The steps of close_thread's own abort.
LEMMA ClosingGoesOn ==
  ASSUME TypeInv, AgreeInv, ThoroughInv, RecordsMove, FaultsMove, AbortStep(<<"close">>)
  PROVE  OpsPart' /\ LeasePart' /\ DevicePart' /\ ClosePart'
<1> DEFINE a == <<"close">>
<1>1. /\ a \in Aborters /\ a \notin Tasks /\ TaskTypeOK /\ Closing = abort[a]
      /\ Closing \in Aborts /\ OpsPart /\ LeasePart /\ DevicePart /\ NotedPart /\ ClosePart
      /\ RecordsInv /\ closed \in {"no", "closing", "closed"} /\ lease \in 0..MaxLeases
  BY CloseIsNoTask DEF TypeInv, RapTypeOK, TaskTypeOK, DaemonTypeOK, Closing, ThoroughInv
<1> HIDE DEF a
<1>2. CASE AbortCancels(a)
  <2>1. PICK x \in abort[a].left :
          /\ \/ Stops(x[1]) /\ UNCHANGED faults
             \/ Fails /\ UNCHANGED op
          /\ abort' = [abort EXCEPT ![a] = Aborting(@.left \ {x})]
    BY <1>2 DEF AbortCancels
  <2>2. /\ Closing.stage = "ops" /\ UNCHANGED <<lease, hot, closed, since>>
        /\ Closing' = Aborting(Closing.left \ {x}) /\ closed = "closing"
        /\ x \in Closing.left
    BY <1>1, <1>2, <2>1 DEF AbortCancels, historyVars, Closing, a, TaskTypeOK, ClosePart
  <2>3. /\ Closing'.stage \in {"ops", "leases", "list"}
        /\ \A y \in Closing.left : y # x => Closing'.stage = "ops" /\ y \in Closing'.left
    BY <2>2 DEF Aborting
  <2>4. OpsPart'
    <3> SUFFICES ASSUME faults = 0, faults' = 0,
                        NEW k \in Calls, disk'[k].known, op'[k] = "running"
                 PROVE  \/ <<"known", k>> \in since'
                        \/ Closing'.stage = "ops" /\ \E y \in Closing'.left : y[1] = k
      BY <2>2 DEF OpsPart, FaultsMove
    <3>1. (disk[k].known /\ op[k] = "running") \/ <<"known", k>> \in since'
      BY <2>2 DEF RecordsMove, KnownMove
    <3>2. x[1] # k
      <4>1. Stops(x[1])
        BY <1>1, <2>1 DEF Fails, RecordsInv
      <4> QED
        BY <4>1 DEF Stops, TypeInv, RapTypeOK, DaemonTypeOK
    <3> QED
      BY <1>1, <2>2, <2>3, <3>1, <3>2 DEF OpsPart
  <2>5. LeasePart' /\ DevicePart' /\ ClosePart'
    BY <2>2, <2>3 DEF LeasePart, DevicePart, ClosePart
  <2> QED
    BY <2>4, <2>5
<1>3. ASSUME UNCHANGED <<op, closed, since>>, Closing.stage # "ops", closed # "no"
      PROVE  OpsPart'
  <2> SUFFICES ASSUME faults = 0, faults' = 0,
                      NEW k \in Calls, disk'[k].known, op'[k] = "running"
               PROVE  <<"known", k>> \in since'
    BY <1>3 DEF OpsPart, FaultsMove
  <2>1. (disk[k].known /\ op[k] = "running") \/ <<"known", k>> \in since'
    BY <1>3 DEF RecordsMove, KnownMove
  <2> QED
    BY <1>1, <1>3, <2>1 DEF OpsPart
<1>4. CASE AbortReleases(a)
  <2>1. PICK id \in abort[a].left :
          /\ \/ /\ lease' = IF lease = id THEN 0 ELSE lease
                /\ UNCHANGED faults
             \/ Fails /\ UNCHANGED lease
          /\ abort' = [abort EXCEPT ![a] =
                CASE abort[a].stage = "listed" -> [stage |-> "device", left |-> {noted}]
                  [] abort[a].stage # "listed" /\ @.left # {id} ->
                        [stage |-> "leases", left |-> @.left \ {id}]
                  [] OTHER -> [stage |-> "list", left |-> {}]]
    BY <1>4 DEF AbortReleases
  <2>2. /\ Closing.stage \in {"leases", "listed"} /\ UNCHANGED <<op, hot, closed, since, noted>>
        /\ closed = "closing" /\ id \in Closing.left
    BY <1>1, <1>4, <2>1 DEF AbortReleases, historyVars, Closing, ClosePart
  <2>3. Closing' = CASE Closing.stage = "listed" -> [stage |-> "device", left |-> {noted}]
                     [] Closing.stage # "listed" /\ Closing.left # {id} ->
                           [stage |-> "leases", left |-> Closing.left \ {id}]
                     [] OTHER -> [stage |-> "list", left |-> {}]
    BY <1>1, <2>1 DEF Closing, a, TaskTypeOK
  <2>4. OpsPart'
    BY <1>3, <2>2
  <2>5. /\ Closing.stage = "listed" =>
              Closing'.stage = "device" /\ Closing'.left = {noted}
        /\ Closing.stage = "leases" => Closing'.stage \in {"leases", "list"}
    BY <2>3
  <2>6. LeasePart'
    <3> SUFFICES ASSUME faults = 0, faults' = 0, lease' # 0
                 PROVE  \/ <<"granted", lease'>> \in since'
                        \/ Closing'.stage \in {"leases", "list"}
      BY <2>2 DEF LeasePart, FaultsMove
    <3>1. lease' = lease /\ lease # id
      BY <1>1, <2>1 DEF Fails, RecordsInv
    <3> QED
      BY <1>1, <2>2, <2>5, <3>1 DEF LeasePart
  <2>7. DevicePart' /\ ClosePart'
    <3>1. hot => noted = TRUE
      BY <1>1, Zenon DEF NotedPart, TypeInv, RapTypeOK, StoreTypeOK
    <3> QED
      BY <2>2, <2>5, <3>1 DEF DevicePart, ClosePart
  <2> QED
    BY <2>4, <2>6, <2>7
<1>5. CASE AbortLists(a)
  <2>1. /\ Closing.stage = "list" /\ UNCHANGED <<op, lease, hot, closed, since, noted>>
        /\ closed = "closing"
        /\ \/ /\ lease # 0
              /\ Closing' = [stage |-> "listed", left |-> {lease}]
           \/ /\ lease = 0 \/ Fails
              /\ Closing' = [stage |-> "device", left |-> {noted}]
    BY <1>1, <1>5 DEF AbortLists, storeVars, daemonVars, historyVars, Closing, a, TaskTypeOK,
                      ClosePart
  <2>2. OpsPart'
    BY <1>3, <2>1
  <2>3. LeasePart'
    <3>1. Fails => faults' # 0
      BY <1>1 DEF Fails, RecordsInv
    <3> QED
      BY <2>1, <3>1 DEF LeasePart
  <2>4. DevicePart' /\ ClosePart'
    <3>1. hot => noted = TRUE
      BY <1>1, Zenon DEF NotedPart, TypeInv, RapTypeOK, StoreTypeOK
    <3>2. CASE Closing' = [stage |-> "listed", left |-> {lease}]
      BY <2>1, <3>2 DEF DevicePart, ClosePart
    <3>3. CASE Closing' = [stage |-> "device", left |-> {noted}]
      <4>1. Closing'.stage = "device" /\ (hot => Closing'.left = {TRUE})
        BY <3>1, <3>3
      <4> QED
        BY <2>1, <4>1 DEF DevicePart, ClosePart
    <3> QED
      BY <2>1, <3>2, <3>3
  <2> QED
    BY <2>2, <2>3, <2>4
<1>6. CASE AbortDisarms(a)
  <2>1. /\ Closing.stage = "device" /\ UNCHANGED <<lease, since>>
        /\ closed = "closing" /\ closed' = "closed" /\ Closing' = NoAbort
        /\ \/ hot' = (hot /\ Closing.left = {FALSE})
           \/ Fails /\ UNCHANGED hot
    BY <1>1, <1>6 DEF AbortDisarms, storeVars, Closing, a, TaskTypeOK, ClosePart
  <2>2. OpsPart'
    <3> SUFFICES ASSUME faults = 0, faults' = 0,
                        NEW k \in Calls, disk'[k].known, op'[k] = "running"
                 PROVE  <<"known", k>> \in since'
      BY <2>1 DEF OpsPart, FaultsMove
    <3>1. (disk[k].known /\ op[k] = "running") \/ <<"known", k>> \in since'
      BY <2>1 DEF RecordsMove, KnownMove
    <3> QED
      BY <1>1, <2>1, <3>1 DEF OpsPart
  <2>3. LeasePart'
    BY <1>1, <2>1 DEF LeasePart, FaultsMove
  <2>4. DevicePart'
    <3> SUFFICES ASSUME faults = 0, faults' = 0, hot'
                 PROVE  \E k \in Calls : <<"begun", k>> \in since'
      BY <2>1 DEF DevicePart, FaultsMove
    <3>1. ~Fails
      BY <1>1 DEF Fails, RecordsInv
    <3>2. hot /\ Closing.left = {FALSE}
      BY <2>1, <3>1
    <3>3. Closing.left # {TRUE}
      BY <3>2
    <3> QED
      BY <1>1, <2>1, <3>2, <3>3 DEF DevicePart
  <2>5. ClosePart'
    BY <2>1 DEF ClosePart, NoAbort
  <2> QED
    BY <2>2, <2>3, <2>4, <2>5
<1> QED
  BY <1>2, <1>4, <1>5, <1>6 DEF AbortStep, a

\* close_thread comes, or the adapter dies.
LEMMA CloseBegins ==
  ASSUME TypeInv, AgreeInv, ThoroughInv, RecordsMove, FaultsMove, Close \/ CrashAndRestart
  PROVE  OpsPart' /\ LeasePart' /\ DevicePart' /\ ClosePart'
<1>1. /\ TaskTypeOK /\ OpsPart /\ LeasePart /\ DevicePart /\ ClosePart /\ RecordsInv
      /\ <<"close">> \in Aborters /\ closed \in {"no", "closing", "closed"}
  BY CloseIsNoTask DEF TypeInv, RapTypeOK, ThoroughInv
<1>2. CASE Close
  <2> DEFINE calls == {x \in Calls \X Objects : cur[x[1]] = x[2] /\ rec[x].known}
  <2>1. Closing' = Aborting(calls) /\ closed' = "closing" /\ UNCHANGED <<disk, op, cur, rec>>
    BY <1>1, <1>2 DEF Close, AbortBegins, Closing, TaskTypeOK, storeVars, daemonVars
  <2> HIDE DEF calls
  <2>2. /\ Closing'.stage \in {"ops", "leases", "list"}
        /\ calls # {} => Closing'.stage = "ops" /\ Closing'.left = calls
    BY <2>1 DEF Aborting
  <2>3. \A k \in Calls : disk[k].known => \E x \in calls : x[1] = k
    <3> SUFFICES ASSUME NEW k \in Calls, disk[k].known PROVE <<k, cur[k]>> \in calls
      OBVIOUS
    <3>1. cur[k] \in Objects /\ rec[<<k, cur[k]>>].known
      BY <1>1 DEF RecordsInv, RecordsPart, TypeInv, RapTypeOK, StoreTypeOK
    <3> QED
      BY <3>1 DEF calls
  <2>4. OpsPart'
    BY <2>1, <2>2, <2>3 DEF OpsPart
  <2>5. LeasePart' /\ DevicePart' /\ ClosePart'
    BY <2>1, <2>2 DEF LeasePart, DevicePart, ClosePart
  <2> QED
    BY <2>4, <2>5
<1>3. CASE CrashAndRestart
  <2>1. /\ Closing' = NoAbort /\ UNCHANGED <<op, lease, hot, since>>
        /\ closed' = (IF closed = "closing" THEN "no" ELSE closed)
    BY <1>1, <1>3 DEF CrashAndRestart, Closing, daemonVars
  <2>2. closed # "closing" => Closing.stage = "off"
    BY <1>1, <2>1 DEF ClosePart
  <2>3. OpsPart'
    <3> SUFFICES ASSUME closed = "closed", faults = 0, faults' = 0,
                        NEW k \in Calls, disk'[k].known, op'[k] = "running"
                 PROVE  <<"known", k>> \in since'
      BY <1>1, <2>1 DEF OpsPart, FaultsMove
    <3>1. (disk[k].known /\ op[k] = "running") \/ <<"known", k>> \in since'
      BY DEF RecordsMove, KnownMove
    <3> QED
      BY <1>1, <2>1, <2>2, <3>1 DEF OpsPart
  <2>4. LeasePart' /\ DevicePart'
    BY <1>1, <2>1, <2>2 DEF LeasePart, DevicePart, FaultsMove
  <2>5. ClosePart'
    BY <1>1, <2>1 DEF ClosePart, NoAbort
  <2> QED
    BY <2>3, <2>4, <2>5
<1> QED
  BY <1>2, <1>3

\* The device is noted before anything can set it in motion.
LEMMA NotedStep ==
  ASSUME TypeInv, NotedPart, RapNext
  PROVE  NotedPart'
<1>1. StoreTypeOK /\ TaskTypeOK
  BY DEF TypeInv, RapTypeOK
<1>2. noted => noted'
  BY DEF RapNext, TaskStep, AbortStep, Accept, AcceptAgain, Cancel, CancelGoesOn, LandsLate,
         OpEnds, Lands, Answered, Refused, Asks, Polls, TimesUp, PostedOk, PostedAgain,
         GivesUp, AbortCancels, AbortReleases, AbortLists, AbortDisarms, Close,
         CrashAndRestart, storeVars
<1>3. ASSUME NEW k \in Calls, Accept(k) PROVE NotedPart'
  <2>1. UNCHANGED <<hot, late>>
    BY <1>3 DEF Accept, daemonVars
  <2>2. UNCHANGED pc \/ noted' = TRUE
    BY <1>3 DEF Accept
  <2> QED
    BY <1>2, <2>1, <2>2 DEF NotedPart
<1>4. ASSUME NEW t \in Tasks, NEW w, w \notin {"invoking", "acquiring"}, NEW g, Goes(t, g, w),
             late' \subseteq late, hot' => hot \/ pc[t] = "invoking"
      PROVE  NotedPart'
  <2>1. pc'[t] = w /\ \A i \in Tasks \ {t} : pc'[i] = pc[i]
    BY <1>1, <1>4, GoesPoints
  <2> QED
    BY <1>2, <1>4, <2>1 DEF NotedPart
<1>5. ASSUME UNCHANGED pc, late' \subseteq late, hot' => hot \/ late # {} PROVE NotedPart'
  BY <1>2, <1>5 DEF NotedPart
<1>6. ASSUME NEW k \in Calls, AcceptAgain(k) PROVE NotedPart'
  <2>1. UNCHANGED <<hot, late>> /\ <<k, "again">> \in Tasks
    BY <1>6, TaskParts DEF AcceptAgain, daemonVars
  <2>2. \E w \in Watches \cup {"posting"} : Goes(<<k, "again">>, cur[k], w)
    BY <1>6 DEF AcceptAgain, Deliver, Watching, Watches
  <2> QED
    BY <1>4, <2>1, <2>2 DEF Watches
<1>7. ASSUME NEW k \in Calls, Cancel(k) \/ CancelGoesOn(k) \/ OpEnds(k)
      PROVE  NotedPart'
  BY <1>5, <1>7 DEF Cancel, CancelGoesOn, OpEnds, taskVars, daemonVars
<1>13. CASE Close
  BY <1>5, <1>13 DEF Close, taskVars, daemonVars
<1>8. ASSUME NEW k \in Calls, LandsLate(k) PROVE NotedPart'
  BY <1>5, <1>8 DEF LandsLate, taskVars
<1>9. ASSUME NEW t \in Tasks, NEW x, Concludes(t, x), UNCHANGED <<late, hot>> PROVE NotedPart'
  <2>1. Goes(t, obj[t], "posting") \/ Goes(t, 0, "off")
    BY <1>9 DEF Concludes, Deliver, Rests
  <2> QED
    BY <1>4, <1>9, <2>1
<1>10. ASSUME NEW t \in Tasks, TaskStep(t) \/ TimesUp(t) PROVE NotedPart'
  <2>1. CASE Lands(t)
    BY <1>4, <2>1 DEF Lands
  <2>2. CASE Answered(t)
    <3>1. UNCHANGED <<late, hot>>
      BY <2>2 DEF Answered, daemonVars
    <3>2. Concludes(t, "result") \/ \E w \in Watches : Goes(t, obj[t], w)
      BY <2>2 DEF Answered, Watching, Watches
    <3> QED
      BY <1>4, <1>9, <3>1, <3>2 DEF Watches
  <2>3. CASE Refused(t) \/ TimesUp(t)
    BY <1>9, <2>3 DEF Refused, TimesUp, daemonVars
  <2>4. CASE Asks(t)
    BY <1>4, <2>4 DEF Asks
  <2>5. CASE Polls(t)
    <3>1. UNCHANGED <<late, hot>>
      BY <2>5 DEF Polls, daemonVars
    <3>2. Concludes(t, "result") \/ \E w \in Watches : Goes(t, obj[t], w)
      BY <2>5 DEF Polls, Watching, Watches
    <3> QED
      BY <1>4, <1>9, <3>1, <3>2 DEF Watches
  <2>6. CASE PostedOk(t) \/ GivesUp(t)
    <3>1. UNCHANGED <<late, hot>>
      BY <2>6 DEF PostedOk, GivesUp, daemonVars
    <3>2. \E w \in {"off", "aborting"}, g \in {0, obj[t]} : Goes(t, g, w)
      BY <2>6 DEF PostedOk, GivesUp, Rests
    <3> QED
      BY <1>4, <3>1, <3>2
  <2>7. CASE PostedAgain(t)
    BY <1>5, <2>7 DEF PostedAgain, daemonVars
  <2> QED
    BY <1>10, <2>1, <2>2, <2>3, <2>4, <2>5, <2>6, <2>7 DEF TaskStep
<1>11. ASSUME NEW a \in Aborters, AbortStep(a) PROVE NotedPart'
  <2>1. CASE AbortCancels(a) \/ AbortReleases(a) \/ AbortLists(a)
    BY <1>5, <2>1 DEF AbortCancels, AbortReleases, AbortLists, taskVars, daemonVars
  <2>2. CASE AbortDisarms(a)
    <3>1. UNCHANGED late /\ (hot' => hot)
      <4>1. UNCHANGED late
        BY <2>2 DEF AbortDisarms
      <4> QED
        BY <2>2, <4>1, AbortCools
    <3>2. UNCHANGED pc \/ (a \in Tasks /\ Goes(a, 0, "off"))
      BY <2>2 DEF AbortDisarms, taskVars, Rests
    <3> QED
      BY <1>4, <1>5, <3>1, <3>2
  <2> QED
    BY <1>11, <2>1, <2>2 DEF AbortStep
<1>12. CASE CrashAndRestart
  <2>1. /\ UNCHANGED hot /\ pc' = [t \in Tasks |-> ResumedAt(t)]
        /\ noted' = (noted \/ \E t \in Tasks : ResumedAt(t) = Executing(t[1]))
        /\ late' = late \cup {k \in Calls : pc[<<k, "run">>] \in {"invoking", "acquiring"}}
    BY <1>12 DEF CrashAndRestart, daemonVars
  <2>2. hot' \/ late' # {} => noted
    BY <2>1, TaskParts DEF NotedPart
  <2>3. \A t \in Tasks : ResumedAt(t) \in {"invoking", "acquiring"} =>
                            ResumedAt(t) = Executing(t[1])
    BY DEF ResumedAt, Watching
  <2> QED
    BY <1>2, <2>1, <2>2, <2>3 DEF NotedPart
<1> QED
  BY <1>3, <1>6, <1>7, <1>8, <1>10, <1>11, <1>12, <1>13 DEF RapNext

\* No step of the adapter or the daemon loses what the close has to answer for.
LEMMA ThoroughStep ==
  ASSUME TypeInv, AgreeInv, ThoroughInv, [RapNext]_vars
  PROVE  ThoroughInv'
<1>1. RecordsInv
  BY DEF ThoroughInv
<1>2. CASE UNCHANGED vars
  <2>1. UNCHANGED <<rec, cur, disk, noted, pc, obj, abort, op, lease, hot, late, faults, closed,
                    since>>
    BY <1>2 DEF vars, storeVars, taskVars, daemonVars, boundVars, historyVars
  <2>2. RecordsInv'
    BY <1>1, <2>1 DEF RecordsInv, RecordsPart, Stopped, Replaced
  <2>3. OpsPart' /\ LeasePart' /\ DevicePart' /\ NotedPart' /\ ClosePart'
    BY <2>1 DEF ThoroughInv, OpsPart, LeasePart, DevicePart, NotedPart, ClosePart, Closing
  <2> QED
    BY <2>2, <2>3 DEF ThoroughInv
<1>3. CASE RapNext
  <2>1. RecordsMove
    BY <1>1, <1>3, RequestsWrite, DaemonWrites, WatchWrites, PostWrites, AbortWrites,
       RestartWrites DEF RapNext, TaskStep
  <2>2. FaultsMove
    <3>1. Fails \/ UNCHANGED faults
      BY <1>3 DEF RapNext, TaskStep, AbortStep, Accept, AcceptAgain, Cancel, CancelGoesOn,
         LandsLate, OpEnds, Lands, Answered, Refused, Asks, Polls, TimesUp, PostedOk,
         PostedAgain, GivesUp, AbortCancels, AbortReleases, AbortLists, AbortDisarms, Close,
         CrashAndRestart, boundVars
    <3> QED
      BY <1>1, <3>1, FaultsMoves DEF RecordsInv
  <2>3. NotedPart'
    BY <1>3, NotedStep DEF ThoroughInv
  <2>4. OpsPart' /\ LeasePart' /\ DevicePart' /\ ClosePart'
    <3>1. CASE Elsewhere
      BY <2>1, <2>2, <3>1, ElsewhereKeeps
    <3>2. CASE AbortStep(<<"close">>)
      BY <2>1, <2>2, <3>2, ClosingGoesOn
    <3>3. CASE Close \/ CrashAndRestart
      BY <2>1, <2>2, <3>3, CloseBegins
    <3> QED
      BY <1>3, <3>1, <3>2, <3>3, TasksElsewhere, AbortsElsewhere DEF RapNext
  <2> QED
    BY <2>1, <2>3, <2>4 DEF ThoroughInv, RecordsMove
<1> QED
  BY <1>2, <1>3

\* When close_thread is done and no request failed, the thread holds no lease, its
\* device is at rest and its operations were cancelled, but for what the daemon
\* began, or the adapter learnt of, after the close came; whatever duplicates,
\* retries, cancels and restarts there were.
THEOREM ClosedThreadsAreOver == RapSpec => []CloseIsThorough
<1>1. RapInit => TypeInv /\ AgreeInv /\ ThoroughInv
  <2> SUFFICES ASSUME RapInit PROVE TypeInv /\ AgreeInv /\ ThoroughInv
    OBVIOUS
  <2>1. AgreeInv
    BY DEF RapInit, AgreeInv, CallAgrees, AbortAgrees, NoAbort, Tasks, Early, Watches
  <2>2. RecordsInv
    BY TaskParts DEF RapInit, RecordsInv, RecordsPart, Replaced, Accepted, Absent, Objects
  <2>3. OpsPart /\ LeasePart /\ DevicePart /\ NotedPart
    BY DEF RapInit, OpsPart, LeasePart, DevicePart, NotedPart
  <2>4. ClosePart
    BY CloseIsNoTask DEF RapInit, ClosePart, Closing, NoAbort
  <2> QED
    BY <2>1, <2>2, <2>3, <2>4, RapInitTypes DEF ThoroughInv
<1>2. TypeInv /\ AgreeInv /\ [RapNext]_vars => AgreeInv'
  BY AgreeStep
<1>3. ThoroughInv => CloseIsThorough
  BY DEF ThoroughInv, OpsPart, LeasePart, DevicePart, ClosePart, CloseIsThorough
<1> QED
  BY <1>1, <1>2, <1>3, RapNextTypes, ThoroughStep, PTL DEF RapSpec
-----------------------------------------------------------------------------
(* Why the runtime may rely on an answer. Only a call that was taken is worked   *)
(* on or gets a text; its text is written once, by the task that executes it,    *)
(* and "result" when the daemon's part is over.                                  *)
Served(k) == op[k] = "over" \/ leaseOf[k] # 0
Untouched(k) == cur[k] = Absent => disk[k].text = "none" /\ op[k] = "none" /\ k \notin late
LedgerInv == \A k \in Calls : Untouched(k)

\* How a step may move what the ledger shows of a call.
TextMove(k) ==
  /\ cur[k] # Absent => cur'[k] # Absent
  /\ \/ disk'[k].text = disk[k].text
     \/ /\ cur[k] # Absent /\ disk[k].text = "none"
        /\ disk'[k].text = "result" => Served(k)
WorkMove(k) ==
  /\ OpMove(k)
  /\ op'[k] # "none" => op[k] # "none" \/ cur[k] # Absent
  /\ leaseOf[k] # 0 => leaseOf'[k] # 0
  /\ leaseOf'[k] # 0 => leaseOf[k] # 0 \/ cur[k] # Absent
  /\ k \in late' => k \in late \/ cur[k] # Absent
HearMove(k) ==
  \/ received'[k] = received[k]
  \/ disk[k].text # "none" /\ received'[k] = received[k] \cup {disk[k].text}
LedgerMove == \A k \in Calls : TextMove(k) /\ WorkMove(k) /\ HearMove(k)

\* A step that writes no record writes no text.
LEMMA TextsStay == UNCHANGED <<cur, disk>> => \A k \in Calls : TextMove(k)
  BY DEF TextMove

\* A step in which the daemon begins nothing and grants nothing.
LEMMA WorkStays ==
  ASSUME TypeInv, UNCHANGED <<leaseOf, late>>, UNCHANGED op \/ \E k \in Calls : Stops(k)
  PROVE  \A i \in Calls : WorkMove(i)
<1>1. \A i \in Calls : OpMove(i)
  BY OpMoves
<1>2. \A i \in Calls : op'[i] # "none" => op[i] # "none"
  BY DEF TypeInv, RapTypeOK, DaemonTypeOK, Stops
<1> QED
  BY <1>1, <1>2 DEF WorkMove

\* The writing of one record.
LEMMA TextWritten ==
  ASSUME TypeInv, NEW k \in Calls, NEW g \in Objects, NEW r, Upsert(k, g, r),
         \/ r.text = disk[k].text
         \/ cur[k] # Absent /\ disk[k].text = "none" /\ (r.text = "result" => Served(k))
  PROVE  \A i \in Calls : TextMove(i)
<1>1. /\ cur'[k] = g /\ disk'[k] = r
      /\ \A i \in Calls \ {k} : cur'[i] = cur[i] /\ disk'[i] = disk[i]
  BY DEF TypeInv, RapTypeOK, StoreTypeOK, Upsert
<1>2. g # Absent
  BY DEF Objects, Absent
<1>3. TextMove(k)
  BY <1>1, <1>2 DEF TextMove
<1>4. \A i \in Calls \ {k} : TextMove(i)
  BY <1>1 DEF TextMove
<1> QED
  BY <1>3, <1>4

\* The end of an execution writes the one text of its call.
LEMMA ConcludesText ==
  ASSUME TypeInv, AgreeInv, NEW t \in Tasks, NEW x, Concludes(t, x),
         pc[t] \in Early \cup Watches, x = "result" => Served(t[1])
  PROVE  \A i \in Calls : TextMove(i)
<1>1. /\ t[1] \in Calls /\ obj[t] \in Objects /\ t = <<t[1], t[2]>> /\ CallAgrees(t[1])
      /\ rec[<<t[1], obj[t]>>] \in Record
  BY TaskParts DEF TypeInv, RapTypeOK, StoreTypeOK, TaskTypeOK, AgreeInv
<1>2. CASE t[2] = "run"
  <2>1. PICK y : /\ y \in {x, "late"} /\ Deliver(t, obj[t], y)
    BY <1>2 DEF Concludes
  <2> DEFINE r == [rec[<<t[1], obj[t]>>] EXCEPT !.text = y, !.status = "delivering"]
  <2>2. Upsert(t[1], obj[t], r) /\ r.text = y
    BY <1>1, <2>1 DEF Deliver, Record
  <2> HIDE DEF r
  <2>3. pc[<<t[1], "run">>] \in Early \cup Watches
    BY <1>1, <1>2
  <2>4. disk[t[1]].text = "none" /\ cur[t[1]] # Absent
    BY <1>1, <2>3 DEF CallAgrees, Early, Watches
  <2> QED
    BY <1>1, <2>1, <2>2, <2>4, TextWritten
<1>3. CASE t[2] # "run"
  BY <1>3, TextsStay DEF Concludes
<1> QED
  BY <1>2, <1>3

\* A request of the runtime accepts a call, or posts its text again.
LEMMA RequestLedger ==
  ASSUME TypeInv, AgreeInv, LedgerInv, NEW k \in Calls,
         Accept(k) \/ AcceptAgain(k) \/ Cancel(k) \/ CancelGoesOn(k)
  PROVE  LedgerMove
<1>1. UNCHANGED <<leaseOf, late, received>> /\ (UNCHANGED op \/ Stops(k))
  BY DEF Accept, AcceptAgain, Cancel, CancelGoesOn, daemonVars
<1>2. \A i \in Calls : WorkMove(i)
  BY <1>1, WorkStays
<1>3. /\ cur[k] \in Objects \cup {Absent} /\ CallAgrees(k)
      /\ cur[k] # Absent => rec[<<k, cur[k]>>] \in Record
  BY DEF TypeInv, RapTypeOK, StoreTypeOK, AgreeInv
<1>4. cur[k] # Absent => rec[<<k, cur[k]>>].text = disk[k].text
  BY <1>3 DEF CallAgrees
<1>5. \A i \in Calls : TextMove(i)
  <2>1. CASE Accept(k)
    <3>1. disk[k].text = "none"
      BY <1>4, <2>1 DEF Accept, LedgerInv, Untouched
    <3>2. \E g \in Objects, r \in {Accepted, [Accepted EXCEPT !.status = "running"]} :
             Upsert(k, g, r)
      BY <2>1 DEF Accept, Objects
    <3>3. \A r \in {Accepted, [Accepted EXCEPT !.status = "running"]} : r.text = "none"
      BY DEF Accepted
    <3> QED
      BY <3>1, <3>2, <3>3, TextWritten
  <2>2. CASE AcceptAgain(k)
    <3>1. CASE UNCHANGED <<cur, disk>>
      BY <3>1, TextsStay
    <3>2. CASE Deliver(<<k, "again">>, cur[k], rec[<<k, cur[k]>>].text)
      <4> DEFINE r == [rec[<<k, cur[k]>>] EXCEPT !.text = rec[<<k, cur[k]>>].text,
                                                 !.status = "delivering"]
      <4>1. Upsert(k, cur[k], r) /\ cur[k] # Absent
        BY <2>2, <3>2 DEF Deliver, AcceptAgain
      <4>2. r.text = disk[k].text
        BY <1>3, <1>4, <4>1 DEF Record
      <4> HIDE DEF r
      <4> QED
        BY <1>3, <4>1, <4>2, TextWritten
    <3> QED
      BY <2>2, <3>1, <3>2 DEF AcceptAgain
  <2>3. CASE Cancel(k)
    <3> DEFINE r == [rec[<<k, cur[k]>>] EXCEPT !.cancelled = TRUE]
    <3>1. Upsert(k, cur[k], r) /\ cur[k] # Absent
      BY <2>3 DEF Cancel
    <3>2. r.text = disk[k].text
      BY <1>3, <1>4, <3>1 DEF Record
    <3> HIDE DEF r
    <3> QED
      BY <1>3, <3>1, <3>2, TextWritten
  <2>4. CASE CancelGoesOn(k)
    BY <2>4, TextsStay DEF CancelGoesOn, storeVars
  <2> QED
    BY <2>1, <2>2, <2>3, <2>4
<1> QED
  BY <1>1, <1>2, <1>5 DEF LedgerMove, HearMove

\* The daemon begins, grants or ends something for a call that was taken.
LEMMA DaemonLedger ==
  ASSUME TypeInv, AgreeInv, LedgerInv,
         \/ \E k \in Calls : LandsLate(k) \/ OpEnds(k)
         \/ \E t \in Tasks : Lands(t)
  PROVE  LedgerMove
<1>1. UNCHANGED <<cur, disk, received>>
  BY DEF LandsLate, OpEnds, Lands, storeVars
<1>2. ASSUME NEW k \in Calls, cur[k] # Absent \/ Going(k),
             \/ Begins(k) /\ UNCHANGED leaseOf
             \/ Grants(k) /\ UNCHANGED op
             \/ OpEnds(k),
             late' \subseteq late
      PROVE  \A i \in Calls : WorkMove(i)
  <2>1. /\ op \in [Calls -> {"none", "running", "asked", "over"}]
        /\ leaseOf \in [Calls -> 0..MaxLeases] /\ granted \in Nat
    BY RapAssumption DEF TypeInv, RapTypeOK, DaemonTypeOK
  <2>2. cur[k] # Absent
    BY <1>2 DEF LedgerInv, Untouched, Going
  <2>3. \A i \in Calls : OpMove(i)
    BY <1>2, <2>1 DEF Begins, OpEnds, OpMove, Going
  <2>4. \A i \in Calls : op'[i] # "none" => op[i] # "none" \/ i = k
    BY <1>2, <2>1 DEF Begins, OpEnds
  <2>5. \A i \in Calls : leaseOf'[i] = leaseOf[i] \/ (i = k /\ leaseOf'[i] # 0)
    BY <1>2, <2>1 DEF Grants, OpEnds
  <2> QED
    BY <1>2, <2>2, <2>3, <2>4, <2>5 DEF WorkMove
<1>3. ASSUME NEW k \in Calls, LandsLate(k) \/ OpEnds(k) PROVE \A i \in Calls : WorkMove(i)
  <2>1. cur[k] # Absent \/ Going(k)
    BY <1>3 DEF LandsLate, OpEnds, LedgerInv, Untouched
  <2>2. late' \subseteq late
    BY <1>3 DEF LandsLate, OpEnds
  <2> QED
    BY <1>2, <1>3, <2>1, <2>2 DEF LandsLate
<1>4. ASSUME NEW t \in Tasks, Lands(t) PROVE \A i \in Calls : WorkMove(i)
  <2>1. t[1] \in Calls /\ t = <<t[1], t[2]>> /\ t[2] \in {"run", "again"} /\ CallAgrees(t[1])
    BY TaskParts DEF AgreeInv
  <2>2. pc[t] \in Early
    BY <1>4 DEF Lands, Early
  <2>3. cur[t[1]] # Absent
    BY <2>1, <2>2 DEF CallAgrees, Early
  <2> QED
    BY <1>2, <1>4, <2>1, <2>3 DEF Lands
<1> QED
  BY <1>1, <1>3, <1>4, TextsStay DEF LedgerMove, HearMove

\* A task of the adapter goes on: it ends the execution once, and posts the text
\* that the journal has.
LEMMA TaskLedger ==
  ASSUME TypeInv, AgreeInv, LedgerInv, NEW t \in Tasks,
         \/ Answered(t) \/ Refused(t) \/ Asks(t) \/ Polls(t) \/ TimesUp(t)
         \/ PostedOk(t) \/ PostedAgain(t) \/ GivesUp(t)
  PROVE  LedgerMove
<1> DEFINE k == t[1]
<1> DEFINE r0 == rec[<<k, obj[t]>>]
<1>1. /\ k \in Calls /\ t = <<k, t[2]>> /\ t[2] \in {"run", "again"} /\ obj[t] \in Objects
      /\ CallAgrees(k) /\ r0 \in Record /\ obj[t] # Absent
      /\ received \in [Calls -> SUBSET Texts]
  BY TaskParts DEF TypeInv, RapTypeOK, StoreTypeOK, TaskTypeOK, AgreeInv, Objects, Absent
<1>2. UNCHANGED <<leaseOf, late>> /\ (UNCHANGED op \/ Stops(k))
  BY DEF Answered, Refused, Asks, Polls, TimesUp, PostedOk, PostedAgain, GivesUp, daemonVars
<1>3. \A i \in Calls : WorkMove(i)
  BY <1>1, <1>2, WorkStays
<1>4. CASE Answered(t) \/ Refused(t) \/ Asks(t) \/ Polls(t) \/ TimesUp(t)
  <2>1. UNCHANGED received /\ pc[t] \in Early \cup Watches
    BY <1>4 DEF Answered, Refused, Asks, Polls, TimesUp, Early, Watches
  <2> SUFFICES \A i \in Calls : TextMove(i)
    BY <1>3, <2>1 DEF LedgerMove, HearMove
  <2>2. CASE \E x \in {"pending", "error"} : Concludes(t, x)
    BY <2>1, <2>2, ConcludesText
  <2>3. CASE Concludes(t, "result") /\ Served(k)
    BY <2>1, <2>3, ConcludesText
  <2>4. CASE UNCHANGED <<cur, disk>>
    BY <2>4, TextsStay
  <2>5. CASE Answered(t) /\ Upsert(k, obj[t], [r0 EXCEPT !.known = TRUE])
    <3> DEFINE r == [r0 EXCEPT !.known = TRUE]
    <3>1. Upsert(k, obj[t], r) /\ r.text = r0.text
      BY <1>1, <2>5 DEF Record
    <3> HIDE DEF r
    <3>2. pc[t] \in Early
      BY <2>5 DEF Answered, Early
    <3>3. t[2] = "run"
      BY <1>1, <3>2 DEF CallAgrees
    <3>4. pc[<<k, "run">>] \in Early /\ obj[<<k, "run">>] = obj[t]
      BY <1>1, <3>2, <3>3
    <3>5. r0.text = disk[k].text
      BY <1>1, <3>4 DEF CallAgrees
    <3> QED
      BY <1>1, <3>1, <3>5, TextWritten
  <2>6. \/ \E x \in {"pending", "error"} : Concludes(t, x)
        \/ Concludes(t, "result") /\ Served(k)
        \/ UNCHANGED <<cur, disk>>
        \/ Answered(t) /\ Upsert(k, obj[t], [r0 EXCEPT !.known = TRUE])
    <3>1. CASE Answered(t)
      <4>1. CASE k \in LeaseCalls
        BY <3>1, <4>1 DEF Answered, TypeInv, Served
      <4>2. CASE k \notin LeaseCalls
        BY <3>1, <4>2 DEF Answered, Mine
      <4> QED
        BY <4>1, <4>2
    <3>2. CASE Refused(t) \/ Asks(t) \/ TimesUp(t)
      BY <3>2 DEF Refused, Asks, TimesUp, storeVars
    <3>3. CASE Polls(t)
      BY <3>3 DEF Polls, Served
    <3> QED
      BY <1>4, <3>1, <3>2, <3>3
  <2> QED
    BY <2>2, <2>3, <2>4, <2>5, <2>6
<1>5. CASE PostedOk(t) \/ PostedAgain(t) \/ GivesUp(t)
  <2>1. pc[t] = "posting"
    BY <1>5 DEF PostedOk, PostedAgain, GivesUp
  <2>2. disk[k].text # "none" /\ r0.text = disk[k].text /\ cur[k] = obj[t]
    BY <1>1, <2>1 DEF CallAgrees
  <2>3. \A i \in Calls : HearMove(i)
    <3>1. Receives(t) \/ UNCHANGED received
      BY <1>5 DEF PostedOk, PostedAgain, GivesUp
    <3>2. received' = received \/ received' = [received EXCEPT ![k] = received[k] \cup {disk[k].text}]
      BY <2>2, <3>1 DEF Receives, Mine
    <3> QED
      BY <1>1, <2>2, <3>2 DEF HearMove
  <2>4. \A i \in Calls : TextMove(i)
    <3>1. CASE UNCHANGED <<cur, disk>>
      BY <3>1, TextsStay
    <3>2. ASSUME NEW s \in {"delivered", "failed"},
                 Upsert(k, obj[t], [r0 EXCEPT !.status = s, !.attempts = @ + tries[t]])
          PROVE  \A i \in Calls : TextMove(i)
      <4> DEFINE r == [r0 EXCEPT !.status = s, !.attempts = @ + tries[t]]
      <4>1. Upsert(k, obj[t], r) /\ r.text = disk[k].text
        BY <1>1, <2>2, <3>2 DEF Record
      <4> HIDE DEF r
      <4> QED
        BY <1>1, <4>1, TextWritten
    <3>3. CASE PostedAgain(t)
      BY <3>1, <3>3 DEF PostedAgain, storeVars
    <3> QED
      BY <1>5, <3>2, <3>3 DEF PostedOk, GivesUp, Mine
  <2> QED
    BY <1>3, <2>3, <2>4 DEF LedgerMove
<1> QED
  BY <1>4, <1>5

\* An abort writes the record the Map has, and leaves its text.
LEMMA AbortLedger ==
  ASSUME TypeInv, AgreeInv, LedgerInv, NEW a \in Aborters, AbortStep(a)
  PROVE  LedgerMove
<1>1. UNCHANGED <<leaseOf, late, received>> /\ (UNCHANGED op \/ \E k \in Calls : Stops(k))
  <2>1. CASE AbortCancels(a)
    <3>1. PICK x \in abort[a].left : UNCHANGED op \/ Stops(x[1])
      BY <2>1 DEF AbortCancels
    <3>2. x \in Calls \X Objects
      BY <2>1, <3>1 DEF AbortCancels, TypeInv, RapTypeOK, TaskTypeOK, Aborts
    <3> QED
      BY <2>1, <3>1, <3>2 DEF AbortCancels
  <2> QED
    BY <2>1 DEF AbortStep, AbortReleases, AbortLists, AbortDisarms, daemonVars
<1>2. \A i \in Calls : WorkMove(i)
  BY <1>1, WorkStays
<1>3. \A i \in Calls : TextMove(i)
  <2>1. CASE UNCHANGED <<cur, disk>>
    BY <2>1, TextsStay
  <2>2. CASE AbortCancels(a) /\ ~UNCHANGED <<cur, disk>>
    <3>1. PICK x \in abort[a].left :
             LET r == [rec[x] EXCEPT !.cancelled = TRUE] IN
                /\ r.status \in {"accepted", "running", "delivering"}
                /\ Upsert(x[1], x[2], [r EXCEPT !.status = "cancelled"])
      BY <2>2 DEF AbortCancels
    <3>2. x \in Calls \X Objects /\ rec[x] \in Record /\ Cancellable(x)
      BY <2>2, <3>1 DEF AbortCancels, AgreeInv, AbortAgrees, TypeInv, RapTypeOK, StoreTypeOK,
                        TaskTypeOK, Aborts
    <3> DEFINE r1 == [[rec[x] EXCEPT !.cancelled = TRUE] EXCEPT !.status = "cancelled"]
    <3>3. /\ Upsert(x[1], x[2], r1) /\ r1.text = rec[x].text /\ Unfinished(rec[x])
          /\ x[1] \in Calls /\ x[2] \in Objects /\ x = <<x[1], x[2]>>
      BY <3>1, <3>2 DEF Record, Unfinished
    <3> HIDE DEF r1
    <3>4. cur[x[1]] = x[2] /\ x[2] # Absent
      BY <3>2, <3>3 DEF Cancellable, Objects, Absent
    <3>5. rec[x].text = disk[x[1]].text
      <4>1. rec[<<x[1], cur[x[1]]>>].text = disk[x[1]].text
        BY <3>3, <3>4 DEF AgreeInv, CallAgrees
      <4> QED
        BY <3>3, <3>4, <4>1
    <3> QED
      BY <3>3, <3>5, TextWritten
  <2>3. CASE AbortReleases(a) \/ AbortLists(a) \/ AbortDisarms(a)
    BY <2>1, <2>3 DEF AbortReleases, AbortLists, AbortDisarms, storeVars
  <2> QED
    BY <2>1, <2>2, <2>3 DEF AbortStep
<1> QED
  BY <1>1, <1>2, <1>3 DEF LedgerMove, HearMove

\* A restart finds every text that was written, and writes only that a cancelled
\* call was not executed.
LEMMA RestartLedger ==
  ASSUME TypeInv, AgreeInv, LedgerInv, CrashAndRestart
  PROVE  LedgerMove
<1> SUFFICES ASSUME NEW k \in Calls PROVE TextMove(k) /\ WorkMove(k) /\ HearMove(k)
  BY DEF LedgerMove
<1>1. /\ disk[k] \in Record /\ cur[k] \in Objects \cup {Absent} /\ CallAgrees(k)
  BY DEF TypeInv, RapTypeOK, StoreTypeOK, AgreeInv
<1>2. UNCHANGED <<op, leaseOf, received>>
  BY DEF CrashAndRestart, daemonVars
<1>3. k \in late' => k \in late \/ cur[k] # Absent
  BY <1>1 DEF CrashAndRestart, CallAgrees
<1>4. WorkMove(k)
  BY <1>2, <1>3 DEF WorkMove, OpMove
<1>5. disk'[k] = IF cur[k] = Absent THEN disk[k] ELSE Resumed(disk[k])
  BY DEF CrashAndRestart
<1>6. cur[k] # Absent => cur'[k] # Absent
  BY DEF CrashAndRestart, Absent
<1>7. \/ Resumed(disk[k]).text = disk[k].text
      \/ disk[k].text = "none" /\ Resumed(disk[k]).text = "unexecuted"
  BY <1>1 DEF Resumed, Record
<1> QED
  BY <1>2, <1>4, <1>5, <1>6, <1>7 DEF TextMove, HearMove

\* What a call that was not taken has stays so.
LEMMA LedgerKept == LedgerInv /\ LedgerMove => LedgerInv'
  BY DEF LedgerInv, LedgerMove, Untouched, TextMove, WorkMove

\* Every step moves the ledger as it may.
LEMMA LedgerStep ==
  TypeInv /\ AgreeInv /\ LedgerInv /\ [RapNext]_vars => LedgerMove
<1> SUFFICES ASSUME TypeInv, AgreeInv, LedgerInv, [RapNext]_vars PROVE LedgerMove
  OBVIOUS
<1>1. CASE UNCHANGED vars
  <2>1. UNCHANGED <<cur, disk, received, op, leaseOf, late>>
    BY <1>1 DEF vars, storeVars, daemonVars
  <2> QED
    BY <2>1, TextsStay, WorkStays DEF LedgerMove, HearMove
<1>2. CASE \E k \in Calls : Accept(k) \/ AcceptAgain(k) \/ Cancel(k) \/ CancelGoesOn(k)
  BY <1>2, RequestLedger
<1>3. CASE \E k \in Calls : LandsLate(k) \/ OpEnds(k)
  BY <1>3, DaemonLedger
<1>4. CASE \E t \in Tasks : TaskStep(t) \/ TimesUp(t)
  BY <1>4, DaemonLedger, TaskLedger DEF TaskStep
<1>5. CASE \E a \in Aborters : AbortStep(a)
  BY <1>5, AbortLedger
<1>6. CASE Close
  <2>1. UNCHANGED <<cur, disk, received, op, leaseOf, late>>
    BY <1>6 DEF Close, storeVars, daemonVars
  <2> QED
    BY <2>1, TextsStay, WorkStays DEF LedgerMove, HearMove
<1>7. CASE CrashAndRestart
  BY <1>7, RestartLedger
<1> QED
  BY <1>1, <1>2, <1>3, <1>4, <1>5, <1>6, <1>7 DEF RapNext

\* The adapter keeps its promise to the runtime: whatever is retried, replaced by
\* a duplicate, aborted or resumed, the answer of a call is on record before it is
\* told, is never changed, and is "result" only when the daemon's part is over.
THEOREM AdapterKeepsTheLedger == RapSpec => LedgerSpec
<1> DEFINE Inv == TypeInv /\ AgreeInv /\ LedgerInv
<1>1. RapInit => Inv /\ Ledger!LedgerInit
  <2> SUFFICES ASSUME RapInit PROVE Inv /\ Ledger!LedgerInit
    OBVIOUS
  <2>1. TypeInv
    BY RapInitTypes
  <2>2. AgreeInv
    BY DEF RapInit, AgreeInv, CallAgrees, AbortAgrees, NoAbort, Tasks, Early, Watches
  <2>3. \A k \in Calls : cur[k] = Absent /\ disk[k].text = "none" /\ op[k] = "none"
                         /\ leaseOf[k] = 0 /\ k \notin late
    BY DEF RapInit, Accepted
  <2>4. LedgerInv
    BY <2>3 DEF LedgerInv, Untouched
  <2>5. Ledger!LedgerInit
    BY <2>3 DEF Ledger!LedgerInit, RapInit, Accepted
  <2> QED
    BY <2>1, <2>2, <2>4, <2>5
<1>2. Inv /\ [RapNext]_vars => Inv' /\ [Ledger!LedgerNext]_Ledger!ledgerVars
  <2> SUFFICES ASSUME Inv, [RapNext]_vars PROVE Inv' /\ Ledger!LedgerNext
    OBVIOUS
  <2>1. LedgerMove
    BY LedgerStep
  <2>2. Inv'
    BY <2>1, AgreeStep, RapNextTypes, LedgerKept
  <2>3. ASSUME NEW k \in Calls
        PROVE  Ledger!Proceeds(k) /\ Ledger!Settles(k) /\ Ledger!Hears(k)
    <3>1. TextMove(k) /\ WorkMove(k) /\ HearMove(k) /\ Untouched(k)
      BY <2>1 DEF LedgerMove, LedgerInv
    <3>2. Ledger!Settles(k)
      BY <3>1 DEF Ledger!Settles, TextMove, Served
    <3>3. Ledger!Hears(k)
      BY <3>1 DEF Ledger!Hears, HearMove
    <3>4. Ledger!Proceeds(k)
      <4>1. op[k] = "over" => op'[k] = "over"
        BY <3>1 DEF WorkMove, OpMove, Going
      <4>2. op'[k] = "over" => cur[k] # Absent
        BY <3>1 DEF WorkMove, OpMove, Going, Untouched
      <4> QED
        BY <3>1, <4>1, <4>2 DEF Ledger!Proceeds, TextMove, WorkMove
    <3> QED
      BY <3>2, <3>3, <3>4
  <2> QED
    BY <2>2, <2>3 DEF Ledger!LedgerNext
<1> QED
  BY <1>1, <1>2, PTL DEF RapSpec, LedgerSpec, Ledger!LedgerSpec
=============================================================================
