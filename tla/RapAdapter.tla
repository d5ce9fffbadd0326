------------------------------ MODULE RapAdapter ------------------------------
(* The RAP adapter between an agent runtime and the daemon: it acknowledges a    *)
(* tool call at once, executes it, and posts the result to the runtime with      *)
(* retries. Every change of a call is journaled before the adapter goes on, and  *)
(* a new process resumes the calls that were open. The calls of one thread are   *)
(* enough: threads share nothing but the daemon.                                 *)
(*                                                                               *)
(* An action is the code between two awaits, with the effect of the answer it    *)
(* waited for; requests to the daemon whose landing and answer matter apart      *)
(* (invoke, acquire) take two.                                                   *)
EXTENDS Integers, FiniteSets

CONSTANTS Calls,         \* tool calls of the thread, by their key group_id:id
          LeaseCalls,    \* those of pinout__acquire_lease; the others are pinout__invoke
          MaxAttempts,   \* maxCallbackAttempts
          RecoverBelow,  \* delivery attempts below which a failed call is open again
          MaxLeases,     \* bound: leases granted
          MaxEvents      \* bound: requests of the runtime, requests to the daemon that
                         \* fail and crashes of the adapter, together

ASSUME RapAssumption ==
    /\ IsFiniteSet(Calls) /\ LeaseCalls \subseteq Calls
    /\ MaxAttempts \in Nat \ {0} /\ RecoverBelow \in Nat
    /\ {MaxLeases, MaxEvents} \subseteq Nat

VARIABLES rec,      \* PendingCallRecord objects: a call replaced by a duplicate has several
          cur,      \* PendingStore.calls: per call, which object; Absent: none
          disk,     \* what its journal says of each call
          noted, leases,   \* ThreadState: its device was noted; the lease ids
          pc, obj, tries,  \* per task: what it awaits, its object, the delivery attempt
          abort,    \* abortThreadSafety(), per function that awaits it
          cancel,   \* cancelToolCall(), per call: what it awaits
          op, lease, granted, leaseOf, hot,   \* the daemon; the lease last granted to a call
          late,     \* calls whose request outlived the process that sent it
          received, \* per call: the results its callback got
          requests, faults, misses, crashes,
          stranded, \* history: calls a restart could not bring to an answer
          closed,   \* history: where close_thread is
          since     \* history: what the daemon did, and what was learnt of it, since then

storeVars == <<rec, cur, disk, noted, leases>>
taskVars == <<pc, obj, tries>>
daemonVars == <<op, lease, granted, leaseOf, hot>>
boundVars == <<requests, faults, misses, crashes>>
historyVars == <<stranded, closed, since>>
vars == <<storeVars, taskVars, abort, cancel, daemonVars, late, received, boundVars,
          historyVars>>

Absent == -1
Objects == {0, 1}            \* bound: a record and its replacement
Tasks == Calls \X {"run", "again"}   \* runCall(), and what resumes or redelivers beside it
Aborters == Tasks \cup {<<"close">>}
Texts == {"none", "result", "pending", "late", "error", "unexecuted"}
Record == [status : {"accepted", "running", "delivering", "delivered", "failed", "cancelled"},
           known : BOOLEAN, text : Texts, attempts : Nat, cancelled : BOOLEAN]
Accepted == [status |-> "accepted", known |-> FALSE, text |-> "none", attempts |-> 0,
             cancelled |-> FALSE]
Room == requests + faults + misses + crashes < MaxEvents
Fails == Room /\ faults' = faults + 1
Aborts == [stage : {"off", "list"}, left : {{}}]
            \cup [stage : {"ops"}, left : SUBSET (Calls \X Objects)]
            \cup [stage : {"leases", "listed"}, left : SUBSET (1..MaxLeases)]
            \cup [stage : {"device"}, left : {{TRUE}, {FALSE}}]
NoAbort == [stage |-> "off", left |-> {}]
Dropped(x) == /\ \A t \in Tasks : pc[t] # "off" => <<t[1], obj[t]>> # x
              /\ \A a \in Aborters : abort[a].stage = "ops" => x \notin abort[a].left
InFlight(k) == pc[<<k, "run">>] # "off"
Mine(t) == rec[<<t[1], obj[t]>>]
Executing(k) == IF k \in LeaseCalls THEN "acquiring" ELSE "invoking"
-----------------------------------------------------------------------------
(* upsertCall(): the object is put into the Map and its line into the journal. *)
Upsert(k, g, r) ==
    /\ rec' = [rec EXCEPT ![<<k, g>>] = r]
    /\ cur' = [cur EXCEPT ![k] = g]
    /\ disk' = [disk EXCEPT ![k] = r]

Goes(t, g, where) ==
    /\ pc' = [pc EXCEPT ![t] = where]
    /\ obj' = [obj EXCEPT ![t] = g]

Rests(t) == Goes(t, 0, "off") /\ tries' = [tries EXCEPT ![t] = 0]

(* Fault: the result is posted before it is in the journal. *)
DeliverUnjournaled(t, g, text) ==
    /\ rec' = [rec EXCEPT ![<<t[1], g>>].text = text, ![<<t[1], g>>].status = "delivering"]
    /\ Goes(t, g, "posting")
    /\ tries' = [tries EXCEPT ![t] = 1]
    /\ UNCHANGED <<cur, disk>>

(* deliverResult() up to its first POST. *)
Deliver(t, g, text) ==
    /\ Upsert(t[1], g, [rec[<<t[1], g>>] EXCEPT !.text = text, !.status = "delivering"])
    /\ Goes(t, g, "posting")
    /\ tries' = [tries EXCEPT ![t] = 1]

(* The end of executeOperation() in runCall(). *)
Concludes(t, text) ==
    IF t[2] = "run"
    THEN Deliver(t, obj[t], IF Mine(t).cancelled /\ text # "error" THEN "late" ELSE text)
    ELSE Rests(t) /\ UNCHANGED <<rec, cur, disk>>

(* Fault: a turn of the loop does not look at the flag. *)
WatchingOnly(r) == "polling"

(* A turn of watchOperation()'s loop begins with the cancel of a cancelled call. *)
Watching(r) == IF r.cancelled THEN "asking" ELSE "polling"

Learns(what) == since' = IF closed = "no" THEN since ELSE since \cup {what}

(* What abortThreadSafety() goes on with once it has the calls left to cancel.   *)
Aborting(left) ==
    CASE left # {} -> [stage |-> "ops", left |-> left]
      [] left = {} /\ leases # {} -> [stage |-> "leases", left |-> leases]
      [] OTHER -> [stage |-> "list", left |-> {}]
AbortBegins(a, calls, records) ==
    abort' = [abort EXCEPT ![a] =
                 Aborting({x \in Calls \X Objects : calls[x[1]] = x[2] /\ records[x].known})]

RapInit ==
    /\ rec = [x \in Calls \X Objects |-> Accepted]
    /\ cur = [k \in Calls |-> Absent] /\ disk = [k \in Calls |-> Accepted]
    /\ noted = FALSE /\ leases = {}
    /\ pc = [t \in Tasks |-> "off"] /\ obj = [t \in Tasks |-> 0] /\ tries = [t \in Tasks |-> 0]
    /\ abort = [a \in Aborters |-> NoAbort] /\ cancel = [k \in Calls |-> "off"]
    /\ op = [k \in Calls |-> "none"]
    /\ lease = 0 /\ granted = 0 /\ leaseOf = [k \in Calls |-> 0] /\ hot = FALSE
    /\ late = {} /\ received = [k \in Calls |-> {}]
    /\ requests = 0 /\ faults = 0 /\ misses = 0 /\ crashes = 0
    /\ stranded = {} /\ closed = "no" /\ since = {}
-----------------------------------------------------------------------------
(* POST /invoke of a call that is not known, or was cancelled with its thread    *)
(* before it had a result: a new record. runCall() returns at once if a task of  *)
(* that key is still running.                                                    *)
Accept(k) ==
    LET g == IF cur[k] = 0 THEN 1 ELSE 0  t == <<k, "run">> IN
    /\ Room /\ Dropped(<<k, g>>)
    /\ cur[k] # Absent => /\ rec[<<k, cur[k]>>].status = "cancelled"
                          /\ rec[<<k, cur[k]>>].text = "none"
    /\ requests' = requests + 1
    /\ IF InFlight(k)
       THEN Upsert(k, g, Accepted) /\ UNCHANGED <<noted, pc, obj>>
       ELSE /\ Upsert(k, g, [Accepted EXCEPT !.status = "running"])
            /\ Goes(t, g, Executing(k))
            /\ noted' = TRUE
    /\ UNCHANGED <<leases, tries, abort, cancel, daemonVars, late, received, faults, misses,
                   crashes, historyVars>>

(* The same call again: its result is posted again, or its operation is watched  *)
(* once more, without a result. At most one such task per call is modelled.      *)
AcceptAgain(k) ==
    LET t == <<k, "again">>  r == rec[<<k, cur[k]>>] IN
    /\ Room
    /\ cur[k] # Absent /\ pc[t] = "off"
    /\ requests' = requests + 1
    /\ \/ r.text # "none" /\ Deliver(t, cur[k], r.text)
       \/ /\ r.text = "none" /\ r.status # "cancelled" /\ r.known
          /\ Goes(t, cur[k], Watching(r))
          /\ UNCHANGED <<rec, cur, disk, tries>>
    /\ UNCHANGED <<noted, leases, abort, cancel, daemonVars, late, received, faults, misses,
                   crashes, historyVars>>

(* The daemon gets an invoke: it begins the operation of that key, or finds it.  *)
Begins(k) ==
    IF op[k] # "none" THEN UNCHANGED <<op, hot, since>>
    ELSE op' = [op EXCEPT ![k] = "running"] /\ hot' = TRUE /\ Learns(<<"begun", k>>)
Stops(k) == op' = [op EXCEPT ![k] = IF @ = "running" THEN "asked" ELSE @]
Going(k) == op[k] \in {"running", "asked"}
Grants(k) ==
    /\ lease = 0 /\ granted < MaxLeases
    /\ granted' = granted + 1 /\ lease' = granted'
    /\ leaseOf' = [leaseOf EXCEPT ![k] = granted']
    /\ Learns(<<"granted", granted'>>)

Lands(t) ==
    /\ \/ pc[t] = "invoking" /\ Begins(t[1]) /\ UNCHANGED <<lease, granted, leaseOf>>
       \/ pc[t] = "acquiring" /\ Grants(t[1]) /\ UNCHANGED <<op, hot>>
    /\ Goes(t, obj[t], "answering")
    /\ UNCHANGED <<storeVars, tries, abort, cancel, late, received, boundVars, stranded,
                   closed>>

(* ... from a process that is gone. *)
LandsLate(k) ==
    /\ k \in late /\ late' = late \ {k}
    /\ \/ k \notin LeaseCalls /\ Begins(k) /\ UNCHANGED <<lease, granted, leaseOf>>
       \/ k \in LeaseCalls /\ Grants(k) /\ UNCHANGED <<op, hot>>
    /\ UNCHANGED <<storeVars, taskVars, abort, cancel, received, boundVars, stranded, closed>>

(* The answer: the operation's id is journaled and watched; the lease is noted   *)
(* for the thread, and is the result.                                            *)
Answered(t) ==
    LET k == t[1]  r == [Mine(t) EXCEPT !.known = TRUE] IN
    /\ pc[t] = "answering"
    /\ IF k \in LeaseCalls
       THEN leases' = leases \cup {leaseOf[k]} /\ Concludes(t, "result") /\ UNCHANGED since
       ELSE /\ Upsert(k, obj[t], r)
            /\ Goes(t, obj[t], Watching(r))
            /\ Learns(<<"known", k>>)
            /\ UNCHANGED <<leases, tries>>
    /\ UNCHANGED <<noted, abort, cancel, daemonVars, late, received, boundVars, stranded,
                   closed>>

(* The daemon refuses (a policy, a lease held), or cannot be reached.            *)
Refused(t) ==
    /\ \/ pc[t] \in {"invoking", "acquiring"} /\ UNCHANGED faults
       \/ /\ \/ pc[t] \in {"invoking", "acquiring", "answering"}
             \/ pc[t] = "polling" /\ t[2] = "run"
          /\ Fails
    /\ Concludes(t, "error")
    /\ UNCHANGED <<noted, leases, abort, cancel, daemonVars, late, received, requests, misses,
                   crashes, historyVars>>

OpEnds(k) ==
    /\ Going(k)
    /\ op' = [op EXCEPT ![k] = "over"]
    /\ UNCHANGED <<storeVars, taskVars, abort, cancel, lease, granted, leaseOf, hot, late,
                   received, boundVars, historyVars>>

(* watchOperation(), a turn of its loop: the cancel of a cancelled call, if the  *)
(* daemon gets it, then the state of the operation, and the flag read again from *)
(* the record the Map has now.                                                   *)
Asks(t) ==
    /\ pc[t] = "asking"
    /\ \/ Stops(t[1]) /\ UNCHANGED faults
       \/ Fails /\ UNCHANGED op
    /\ Goes(t, obj[t], "polling")
    /\ UNCHANGED <<storeVars, tries, abort, cancel, lease, granted, leaseOf, hot, late,
                   received, requests, misses, crashes, historyVars>>

Polls(t) ==
    LET r == [Mine(t) EXCEPT !.cancelled = @ \/ rec[<<t[1], cur[t[1]]>>].cancelled] IN
    /\ pc[t] = "polling"
    /\ \/ op[t[1]] = "over" /\ Concludes(t, "result")
       \/ /\ Going(t[1])
          /\ rec' = [rec EXCEPT ![<<t[1], obj[t]>>] = r]
          /\ Goes(t, obj[t], Watching(r))
          /\ UNCHANGED <<cur, disk, tries>>
    /\ UNCHANGED <<noted, leases, abort, cancel, daemonVars, late, received, boundVars,
                   historyVars>>

(* The wait budget is used up before a turn: OPERATION_PENDING, even if the      *)
(* operation ended since the last.                                               *)
TimesUp(t) ==
    /\ pc[t] = "polling"
    /\ Concludes(t, "pending")
    /\ UNCHANGED <<noted, leases, abort, cancel, daemonVars, late, received, boundVars,
                   historyVars>>
-----------------------------------------------------------------------------
(* CallbackDelivery.deliver(): posted until it is answered 2xx, at most          *)
(* MaxAttempts times, and not again after a 4xx.                                 *)
Receives(t) == received' = [received EXCEPT ![t[1]] = @ \cup {Mine(t).text}]

PostedOk(t) ==
    /\ pc[t] = "posting"
    /\ Receives(t)
    /\ Upsert(t[1], obj[t], [Mine(t) EXCEPT !.status = "delivered", !.attempts = @ + tries[t]])
    /\ Rests(t)
    /\ UNCHANGED <<noted, leases, abort, cancel, daemonVars, late, boundVars, historyVars>>

PostedAgain(t) ==
    /\ pc[t] = "posting" /\ tries[t] < MaxAttempts
    /\ Room /\ misses' = misses + 1
    /\ Receives(t) \/ UNCHANGED received   \* its answer was lost, or it was
    /\ tries' = [tries EXCEPT ![t] = @ + 1]
    /\ UNCHANGED <<storeVars, pc, obj, abort, cancel, daemonVars, late, requests, faults,
                   crashes, historyVars>>

(* Given up: after MaxAttempts in all the thread is brought to safety.           *)
GivesUp(t) ==
    LET r == [Mine(t) EXCEPT !.status = "failed", !.attempts = @ + tries[t]] IN
    /\ pc[t] = "posting"
    /\ Room /\ misses' = misses + 1
    /\ \/ UNCHANGED received
       \/ tries[t] = MaxAttempts /\ Receives(t)
    /\ Upsert(t[1], obj[t], r)
    /\ IF r.attempts >= MaxAttempts
       THEN /\ Goes(t, obj[t], "aborting") /\ tries' = [tries EXCEPT ![t] = 0]
            /\ AbortBegins(t, cur', rec')
       ELSE Rests(t) /\ UNCHANGED abort
    /\ UNCHANGED <<noted, leases, cancel, daemonVars, late, requests, faults, crashes,
                   historyVars>>
-----------------------------------------------------------------------------
(* abortThreadSafety(): cancel the operation of every call it found, as an       *)
(* object of that moment; then release the leases noted, then those the daemon   *)
(* lists; then disarm. A step that fails is passed over.                         *)
AbortCancels(a) ==
    /\ abort[a].stage = "ops"
    /\ \E x \in abort[a].left :
        LET r == [rec[x] EXCEPT !.cancelled = TRUE] IN
        /\ \/ Stops(x[1]) /\ UNCHANGED faults
           \/ Fails /\ UNCHANGED op
        /\ IF r.status \in {"accepted", "running", "delivering"}
           THEN Upsert(x[1], x[2], [r EXCEPT !.status = "cancelled"])
           ELSE rec' = [rec EXCEPT ![x] = r] /\ UNCHANGED <<cur, disk>>
        /\ abort' = [abort EXCEPT ![a] = Aborting(@.left \ {x})]
    /\ UNCHANGED <<noted, leases, taskVars, cancel, lease, granted, leaseOf, hot, late,
                   received, requests, misses, crashes, historyVars>>

AbortReleases(a) ==
    LET listed == abort[a].stage = "listed" IN
    /\ abort[a].stage = "leases" \/ listed
    /\ \E id \in abort[a].left :
        /\ \/ /\ lease' = IF lease = id THEN 0 ELSE lease
              /\ leases' = leases \ {id}
              /\ UNCHANGED faults
           \/ Fails /\ UNCHANGED <<lease, leases>>
        /\ abort' = [abort EXCEPT ![a] =
              CASE listed -> [stage |-> "device", left |-> {noted}]
                [] ~listed /\ @.left # {id} -> [stage |-> "leases", left |-> @.left \ {id}]
                [] OTHER -> [stage |-> "list", left |-> {}]]
    /\ UNCHANGED <<rec, cur, disk, noted, taskVars, cancel, op, granted, leaseOf, hot, late,
                   received, requests, misses, crashes, historyVars>>

(* Fault: only the leases noted are released. *)
AbortListsNothing(a) ==
    /\ abort[a].stage = "list"
    /\ abort' = [abort EXCEPT ![a] = [stage |-> "device", left |-> {noted}]]
    /\ UNCHANGED <<storeVars, taskVars, cancel, daemonVars, late, received, boundVars,
                   historyVars>>

AbortLists(a) ==
    /\ abort[a].stage = "list"
    /\ \/ /\ lease # 0 /\ UNCHANGED faults
          /\ abort' = [abort EXCEPT ![a] = [stage |-> "listed", left |-> {lease}]]
       \/ /\ \/ lease = 0 /\ UNCHANGED faults
             \/ Fails
          /\ abort' = [abort EXCEPT ![a] = [stage |-> "device", left |-> {noted}]]
    /\ UNCHANGED <<storeVars, taskVars, cancel, daemonVars, late, received, requests, misses,
                   crashes, historyVars>>

AbortDisarms(a) ==
    /\ abort[a].stage = "device"
    /\ \/ hot' = (hot /\ abort[a].left = {FALSE}) /\ UNCHANGED faults
       \/ Fails /\ UNCHANGED hot
    /\ abort' = [abort EXCEPT ![a] = NoAbort]
    /\ IF a \in Tasks THEN Rests(a) /\ UNCHANGED closed
       ELSE UNCHANGED taskVars /\ closed' = "closed"
    /\ UNCHANGED <<storeVars, cancel, op, lease, granted, leaseOf, late, received, requests,
                   misses, crashes, stranded, since>>

(* close_thread, once a thread.                                                  *)
Close ==
    /\ Room /\ requests' = requests + 1
    /\ closed = "no" /\ closed' = "closing" /\ since' = {}
    /\ AbortBegins(<<"close">>, cur, rec)
    /\ UNCHANGED <<storeVars, taskVars, cancel, daemonVars, late, received, faults, misses,
                   crashes, stranded>>
-----------------------------------------------------------------------------
(* cancel_tool_call: the record is marked, its operation cancelled if it is      *)
(* known, its device disarmed if it was touched. Once a call.                    *)
Cancel(k) ==
    LET r == rec[<<k, cur[k]>>] IN
    /\ Room /\ requests' = requests + 1
    /\ cur[k] # Absent /\ ~r.cancelled /\ cancel[k] = "off"
    /\ Upsert(k, cur[k], [r EXCEPT !.cancelled = TRUE])
    /\ cancel' = [cancel EXCEPT ![k] = CASE r.known -> "asking"
                                         [] ~r.known /\ r.status # "accepted" -> "disarming"
                                         [] OTHER -> "off"]
    /\ UNCHANGED <<noted, leases, taskVars, abort, daemonVars, late, received, faults, misses,
                   crashes, historyVars>>

CancelGoesOn(k) ==
    /\ \/ /\ cancel[k] = "asking" /\ cancel' = [cancel EXCEPT ![k] = "disarming"]
          /\ Stops(k) /\ UNCHANGED <<hot, faults>>
       \/ /\ cancel[k] = "disarming" /\ cancel' = [cancel EXCEPT ![k] = "off"]
          /\ hot' = FALSE /\ UNCHANGED <<op, faults>>
       \/ /\ Fails
          /\ cancel[k] # "off"
          /\ cancel' = [cancel EXCEPT ![k] = IF @ = "asking" THEN "disarming" ELSE "off"]
          /\ UNCHANGED <<op, hot>>
    /\ UNCHANGED <<storeVars, taskVars, abort, lease, granted, leaseOf, late, received,
                   requests, misses, crashes, historyVars>>
-----------------------------------------------------------------------------
(* Fault: a call whose delivery was under way is not resumed. *)
OpenUnsent(r) ==
    \/ r.status \in {"accepted", "running"}
    \/ r.status = "failed" /\ r.attempts < RecoverBelow

(* listOpenCalls() *)
Open(r) ==
    \/ r.status \in {"accepted", "running", "delivering"}
    \/ r.status = "failed" /\ r.attempts < RecoverBelow

(* The process dies (a kill, or an operation resumed by recovery that cannot be  *)
(* polled: nothing catches that) and another loads the journal and resumes every *)
(* open call. A call whose operation is known and has no result is only watched. *)
Resumed(r) ==
    CASE Open(r) /\ r.text # "none" -> [r EXCEPT !.status = "delivering"]
      [] Open(r) /\ r.text = "none" /\ ~r.known /\ r.cancelled ->
             [r EXCEPT !.status = "delivering", !.text = "unexecuted"]
      [] Open(r) /\ r.text = "none" /\ ~r.known /\ ~r.cancelled ->
             [r EXCEPT !.status = "running"]
      [] OTHER -> r
ResumedAt(t) ==
    LET r == disk[t[1]]  rerun == r.text = "none" /\ ~r.known IN
    IF cur[t[1]] = Absent \/ ~Open(r) \/ (rerun <=> t[2] = "again") THEN "off"
    ELSE CASE rerun /\ ~r.cancelled -> Executing(t[1])
           [] ~rerun /\ r.text = "none" -> Watching(r)
           [] OTHER -> "posting"

CrashAndRestart ==
    LET kept == [k \in Calls |-> IF cur[k] = Absent THEN disk[k] ELSE Resumed(disk[k])] IN
    /\ Room /\ crashes' = crashes + 1
    /\ disk' = kept
    /\ rec' = [x \in Calls \X Objects |-> IF x[2] = 0 THEN kept[x[1]] ELSE Accepted]
    /\ cur' = [k \in Calls |-> IF cur[k] = Absent THEN Absent ELSE 0]
    /\ pc' = [t \in Tasks |-> ResumedAt(t)]
    /\ obj' = [t \in Tasks |-> 0]
    /\ tries' = [t \in Tasks |-> IF ResumedAt(t) = "posting" THEN 1 ELSE 0]
    /\ noted' = (noted \/ \E t \in Tasks : ResumedAt(t) = Executing(t[1]))
    /\ abort' = [a \in Aborters |-> NoAbort] /\ cancel' = [k \in Calls |-> "off"]
    /\ late' = late \cup {k \in Calls : pc[<<k, "run">>] \in {"invoking", "acquiring"}}
    /\ closed' = IF closed = "closing" THEN "no" ELSE closed
    /\ stranded' = stranded
          \cup {<<"answer", k>> : k \in {i \in Calls : \/ disk[i].status = "cancelled"
                                                      \/ /\ Open(disk[i]) /\ disk[i].known
                                                         /\ disk[i].text = "none"}}
          \cup {<<"cancel", k>> : k \in {i \in Calls : cancel[i] # "off"}}
    /\ UNCHANGED <<leases, daemonVars, received, requests, faults, misses, since>>
-----------------------------------------------------------------------------
TaskStep(t) ==
    Lands(t) \/ Answered(t) \/ Refused(t) \/ Asks(t) \/ Polls(t)
      \/ PostedOk(t) \/ PostedAgain(t) \/ GivesUp(t)
AbortStep(a) == AbortCancels(a) \/ AbortReleases(a) \/ AbortLists(a) \/ AbortDisarms(a)

RapNext ==
    \/ \E k \in Calls : Accept(k) \/ AcceptAgain(k) \/ Cancel(k) \/ CancelGoesOn(k)
    \/ \E k \in Calls : LandsLate(k) \/ OpEnds(k)
    \/ \E t \in Tasks : TaskStep(t) \/ TimesUp(t)
    \/ \E a \in Aborters : AbortStep(a)
    \/ Close \/ CrashAndRestart

RapSpec == RapInit /\ [][RapNext]_vars

(* Requests are answered or fail, timers fire: every task goes on, and the       *)
(* deadline passes for one that polls again and again. The daemon's operations   *)
(* need not end, and crashes and requests need not happen.                       *)
FairRapSpec ==
    /\ RapSpec
    /\ \A t \in Tasks : WF_vars(TaskStep(t))
    /\ \A t \in {i \in Tasks : i[1] \notin LeaseCalls} : SF_vars(TimesUp(t))
    /\ \A a \in Aborters : WF_vars(AbortStep(a))
    /\ \A k \in Calls : WF_vars(CancelGoesOn(k))
-----------------------------------------------------------------------------
(* Types, and what binds the tables: a task that rests is at no object; a task   *)
(* brings the thread to safety exactly while its abort runs.                     *)
Places == {"off", "invoking", "acquiring", "answering", "asking", "polling", "posting", "aborting"}
StoreTypeOK ==
    /\ rec \in [Calls \X Objects -> Record] /\ disk \in [Calls -> Record]
    /\ cur \in [Calls -> Objects \cup {Absent}]
    /\ noted \in BOOLEAN /\ leases \subseteq 1..MaxLeases
TaskTypeOK ==
    /\ pc \in [Tasks -> Places] /\ obj \in [Tasks -> Objects] /\ tries \in [Tasks -> 0..MaxAttempts]
    /\ \A t \in Tasks : pc[t] = "off" => obj[t] = 0 /\ tries[t] = 0
    /\ abort \in [Aborters -> Aborts]
    /\ \A t \in Tasks : pc[t] = "aborting" <=> abort[t].stage # "off"
DaemonTypeOK ==
    /\ op \in [Calls -> {"none", "running", "asked", "over"}]
    /\ lease \in 0..MaxLeases /\ granted \in 0..MaxLeases
    /\ leaseOf \in [Calls -> 0..MaxLeases] /\ hot \in BOOLEAN
RapTypeOK ==
    /\ StoreTypeOK /\ TaskTypeOK /\ DaemonTypeOK
    /\ cancel \in [Calls -> {"off", "asking", "disarming"}]
    /\ late \subseteq Calls /\ received \in [Calls -> SUBSET Texts]
    /\ closed \in {"no", "closing", "closed"}

(* The runtime never gets two different results for one call, whatever is        *)
(* retried, redelivered or resumed: what it got is what the journal holds.       *)
AnswersAgree ==
    \A k \in Calls : received[k] # {} => received[k] = {disk[k].text}

(* The answers as the runtime may rely on them: on record before they are told,  *)
(* never changed, and "result" only for an operation that is over or a lease     *)
(* that was granted.                                                             *)
Ledger == INSTANCE AnswerLedger
             WITH taken  <- {k \in Calls : cur[k] # Absent},
                  done   <- {k \in Calls : op[k] = "over" \/ leaseOf[k] # 0},
                  answer <- [k \in Calls |-> disk[k].text],
                  told   <- received
LedgerSpec == Ledger!LedgerSpec

(* close_thread, when every request of it was answered, leaves to the thread no  *)
(* lease, no device set in motion and no operation it was not asked to cancel,   *)
(* except what the daemon began, or the adapter learnt of, after it came.        *)
CloseIsThorough ==
    closed = "closed" /\ faults = 0 =>
        /\ lease # 0 => <<"granted", lease>> \in since
        /\ hot => \E k \in Calls : <<"begun", k>> \in since
        /\ \A k \in Calls : disk[k].known /\ op[k] = "running" =>
              <<"known", k>> \in since

(* A call the adapter took is answered, or given up as failed, except one a      *)
(* restart found open with its operation known and no result.                    *)
CallsAreAnswered ==
    \A k \in Calls : cur[k] # Absent ~>
        received[k] # {} \/ disk[k].status = "failed" \/ <<"answer", k>> \in stranded

(* A cancelled call whose operation the adapter knows has it cancelled, when no  *)
(* request failed and no restart came in between.                                *)
CancelTakes ==
    \A k \in Calls \ LeaseCalls : disk[k].cancelled /\ disk[k].known /\ op[k] = "running" ~>
        op[k] \in {"asked", "over"} \/ faults > 0 \/ <<"cancel", k>> \in stranded
=============================================================================
