------------------------------ MODULE ModuleHost ------------------------------
(* ModuleProcess of the module host: a worker process that is spawned, watched,  *)
(* restarted within a budget, called, and shut down. Timers, process exits and   *)
(* write callbacks interleave freely.                                            *)
EXTENDS Integers, FiniteSets

CONSTANTS Calls,         \* invocations
          MaxRestarts,   \* restartPolicy.maxRestarts
          MaxWorkers     \* bound: processes spawned

ASSUME HostAssumption ==
    /\ MaxRestarts \in Nat
    /\ MaxWorkers \in Nat \ {0}

VARIABLES worker,    \* per process: what it does
          sent,      \* per process: the signals it was sent
          spawned,   \* processes spawned
          child,     \* this.child, or NoWorker
          state,     \* currentState
          call,      \* per invocation: whether it is pending, or how it ended
          to,        \* per invocation: the process it was sent to
          watch,     \* the heartbeat watch is set
          attempts,  \* restartAttempts
          timers,    \* restart timers that have not fired
          inits,     \* processes whose init message is being written
          start,     \* where start() is
          stop,      \* where shutdown() is
          victim,    \* the process whose exit it waits for
          respawns,  \* history: restarts since the last heartbeat
          doubled    \* history: one process that died had two restarts scheduled

shutdownVars == <<stop, victim>>
callVars == <<call, to>>
hostVars == <<worker, sent, spawned, child, state, callVars, watch, attempts, timers, inits,
              start, shutdownVars, respawns, doubled>>

Workers == 1..MaxWorkers
NoWorker == 0
Alive == {w \in Workers : worker[w] \in {"loading", "serving", "hung"}}
Beating == {w \in Workers : worker[w] \in {"loading", "serving"}}
-----------------------------------------------------------------------------
HostInit ==
    /\ worker = [w \in Workers |-> "none"]
    /\ sent = [w \in Workers |-> {}]
    /\ spawned = 0
    /\ child = NoWorker
    /\ state = "starting"
    /\ call = [c \in Calls |-> "new"] /\ to = [c \in Calls |-> NoWorker]
    /\ watch = FALSE
    /\ attempts = 0
    /\ timers = 0
    /\ inits = {}
    /\ start = "new"
    /\ stop = "no" /\ victim = NoWorker
    /\ respawns = 0 /\ doubled = FALSE

(* setState(), and the listener by which start() waits. *)
SetState(s) ==
    /\ state' = s
    /\ start' = CASE start = "waiting" /\ s = "ready" -> "ok"
                  [] start = "waiting" /\ s = "dead" -> "failed"
                  [] OTHER -> start

Rejected == [c \in Calls |-> IF call[c] = "pending" THEN "failed" ELSE call[c]]

(* spawnChild() up to the write of the init message. *)
SpawnChild ==
    LET w == spawned + 1 IN
    /\ spawned < MaxWorkers
    /\ spawned' = w
    /\ worker' = [worker EXCEPT ![w] = "loading"]
    /\ child' = w
    /\ inits' = inits \cup {w}
    /\ state' = "starting"

Start ==
    /\ start = "new" /\ stop = "no"
    /\ start' = "spawning"
    /\ SpawnChild
    /\ UNCHANGED <<sent, callVars, watch, attempts, timers, shutdownVars, respawns, doubled>>

(* The init message is written. start() awaits that of the first process, and    *)
(* then ready or dead.                                                           *)
InitWritten(w) ==
    /\ w \in inits
    /\ inits' = inits \ {w}
    /\ start' = IF w # 1 THEN start
                ELSE CASE state = "ready" -> "ok" [] state = "dead" -> "failed"
                       [] OTHER -> "waiting"
    /\ UNCHANGED <<worker, sent, spawned, child, state, callVars, watch, attempts, timers,
                   shutdownVars, respawns, doubled>>

ScheduleRestart ==
    IF stop # "no" THEN UNCHANGED <<state, start, attempts, timers>>
    ELSE IF attempts >= MaxRestarts THEN SetState("dead") /\ UNCHANGED <<attempts, timers>>
    ELSE /\ attempts' = attempts + 1
         /\ timers' = timers + 1
         /\ SetState("restarting")

(* The process died under the write: start() rejects. The catch of a restart     *)
(* schedules another one, beside that of the exit handler.                       *)
InitFails(w) ==
    /\ w \in inits /\ worker[w] \in {"gone", "reaped"}
    /\ inits' = inits \ {w}
    /\ IF w = 1
       THEN start' = "failed" /\ UNCHANGED <<state, attempts, timers, doubled>>
       ELSE ScheduleRestart /\ doubled' = (doubled \/ stop = "no")
    /\ UNCHANGED <<worker, sent, spawned, child, callVars, watch, shutdownVars, respawns>>

(* Fault: the timer does not look whether the module is stopping. *)
RestartFiresAnyway ==
    /\ timers > 0
    /\ timers' = timers - 1
    /\ SpawnChild
    /\ respawns' = respawns + 1
    /\ UNCHANGED <<sent, callVars, watch, attempts, start, shutdownVars, doubled>>

RestartFires ==
    /\ timers > 0
    /\ timers' = timers - 1
    /\ IF stop # "no"
       THEN UNCHANGED <<worker, spawned, child, state, inits, respawns>>
       ELSE SpawnChild /\ respawns' = respawns + 1
    /\ UNCHANGED <<sent, callVars, watch, attempts, start, shutdownVars, doubled>>
-----------------------------------------------------------------------------
(* The worker: it loads its module, beats, hangs, and ends for any reason. *)
(* Fault: ready gives the budget back. *)
ReadyResets(w) ==
    /\ worker[w] = "loading" /\ w \notin inits
    /\ worker' = [worker EXCEPT ![w] = "serving"]
    /\ watch' = TRUE
    /\ attempts' = 0
    /\ SetState("ready")
    /\ UNCHANGED <<sent, spawned, child, callVars, timers, inits, shutdownVars, respawns, doubled>>

Ready(w) ==
    /\ worker[w] = "loading" /\ w \notin inits
    /\ worker' = [worker EXCEPT ![w] = "serving"]
    /\ watch' = TRUE
    /\ SetState("ready")
    /\ UNCHANGED <<sent, spawned, child, callVars, attempts, timers, inits, shutdownVars, respawns, doubled>>

Heartbeat(w) ==
    /\ w \in Beating
    /\ attempts' = 0
    /\ watch' = TRUE
    /\ respawns' = 0
    /\ UNCHANGED <<worker, sent, spawned, child, state, callVars, timers, inits, start,
                   shutdownVars, doubled>>

Hang(w) ==
    /\ w \in Beating
    /\ worker' = [worker EXCEPT ![w] = "hung"]
    /\ UNCHANGED <<sent, spawned, child, state, callVars, watch, attempts, timers, inits,
                   start, shutdownVars, respawns, doubled>>

Die(w) ==
    /\ w \in Alive
    /\ worker' = [worker EXCEPT ![w] = "gone"]
    /\ UNCHANGED <<sent, spawned, child, state, callVars, watch, attempts, timers, inits,
                   start, shutdownVars, respawns, doubled>>

(* Fault: the calls of the process stay pending. *)
ExitHandledLeaving(w) ==
    /\ worker[w] = "gone"
    /\ worker' = [worker EXCEPT ![w] = "reaped"]
    /\ watch' = FALSE
    /\ child' = NoWorker
    /\ stop' = IF stop = "grace" /\ victim = w THEN "done" ELSE stop
    /\ IF stop # "no"
       THEN SetState("dead") /\ UNCHANGED <<attempts, timers>>
       ELSE ScheduleRestart
    /\ UNCHANGED <<sent, spawned, callVars, inits, victim, respawns, doubled>>

(* The exit handler; it also ends the wait of a shutdown() for this process. *)
ExitHandled(w) ==
    /\ worker[w] = "gone"
    /\ worker' = [worker EXCEPT ![w] = "reaped"]
    /\ watch' = FALSE
    /\ call' = Rejected
    /\ child' = NoWorker
    /\ stop' = IF stop = "grace" /\ victim = w THEN "done" ELSE stop
    /\ IF stop # "no"
       THEN SetState("dead") /\ UNCHANGED <<attempts, timers>>
       ELSE ScheduleRestart
    /\ UNCHANGED <<sent, spawned, to, inits, victim, respawns, doubled>>

(* Fault: the process is killed and at once replaced. *)
SilenceRestarts ==
    /\ watch /\ Beating = {}
    /\ watch' = FALSE
    /\ call' = IF stop # "no" THEN call ELSE Rejected
    /\ sent' = IF child = NoWorker THEN sent ELSE [sent EXCEPT ![child] = @ \cup {"KILL"}]
    /\ ScheduleRestart
    /\ UNCHANGED <<worker, spawned, child, to, inits, shutdownVars, respawns, doubled>>

(* Fault: the calls are rejected, the process is left. *)
SilenceTolerated ==
    /\ watch /\ Beating = {}
    /\ watch' = FALSE
    /\ call' = IF stop # "no" THEN call ELSE Rejected
    /\ UNCHANGED <<worker, sent, spawned, child, state, to, attempts, timers, inits, start,
                   shutdownVars, respawns, doubled>>

(* No heartbeat for three intervals: the process is killed. *)
SilenceNoticed ==
    /\ watch /\ Beating = {}
    /\ watch' = FALSE
    /\ IF stop # "no" THEN UNCHANGED <<call, sent>>
       ELSE /\ call' = Rejected
            /\ sent' = IF child = NoWorker THEN sent ELSE [sent EXCEPT ![child] = @ \cup {"KILL"}]
    /\ UNCHANGED <<worker, spawned, child, state, to, attempts, timers, inits, start,
                   shutdownVars, respawns, doubled>>
-----------------------------------------------------------------------------
(* invoke() of a process that is ready; otherwise it throws. *)
Invoke(c) ==
    /\ call[c] = "new"
    /\ state = "ready" /\ child # NoWorker
    /\ call' = [call EXCEPT ![c] = "pending"]
    /\ to' = [to EXCEPT ![c] = child]
    /\ UNCHANGED <<worker, sent, spawned, child, state, watch, attempts, timers, inits,
                   start, shutdownVars, respawns, doubled>>

CallEnds(c, how) ==
    /\ call[c] = "pending"
    /\ how = "ok" => worker[to[c]] = "serving"
    /\ call' = [call EXCEPT ![c] = how]
    /\ UNCHANGED <<worker, sent, spawned, child, state, to, watch, attempts, timers, inits,
                   start, shutdownVars, respawns, doubled>>

(* shutdown() up to its wait for the exit of the child it found. *)
Shutdown ==
    /\ stop = "no" /\ start # "new"
    /\ IF child = NoWorker
       THEN stop' = "done" /\ UNCHANGED <<call, victim>>
       ELSE stop' = "grace" /\ victim' = child /\ call' = Rejected
    /\ UNCHANGED <<worker, sent, spawned, child, state, to, watch, attempts, timers, inits,
                   start, respawns, doubled>>

(* Two seconds pass: SIGTERM. It marks the child as killed, so SIGKILL is never sent. *)
GraceEnds ==
    /\ stop = "grace"
    /\ sent' = [sent EXCEPT ![victim] = @ \cup {"TERM"}]
    /\ stop' = "done"
    /\ SetState("dead")
    /\ UNCHANGED <<worker, spawned, child, callVars, watch, attempts, timers, inits, victim,
                   respawns, doubled>>

HostNext ==
    \/ Start \/ RestartFires \/ SilenceNoticed \/ Shutdown \/ GraceEnds
    \/ \E w \in Workers : \/ InitWritten(w) \/ InitFails(w) \/ Ready(w) \/ Heartbeat(w)
                          \/ Hang(w) \/ Die(w) \/ ExitHandled(w)
    \/ \E c \in Calls : Invoke(c) \/ CallEnds(c, "ok") \/ CallEnds(c, "failed")

HostSpec == HostInit /\ [][HostNext]_hostVars

(* Timers fire, exits are reported, and a process that was sent SIGKILL ends. *)
FairHostSpec ==
    /\ HostSpec
    /\ WF_hostVars(SilenceNoticed) /\ WF_hostVars(RestartFires) /\ WF_hostVars(GraceEnds)
    /\ \A w \in Workers :
          /\ WF_hostVars(ExitHandled(w)) /\ WF_hostVars(InitWritten(w))
          /\ WF_hostVars("KILL" \in sent[w] /\ Die(w))
    /\ \A c \in Calls : WF_hostVars(CallEnds(c, "failed"))
-----------------------------------------------------------------------------
HostTypeOK ==
    /\ worker \in [Workers -> {"none", "loading", "serving", "hung", "gone", "reaped"}]
    /\ sent \in [Workers -> SUBSET {"TERM", "KILL"}]
    /\ spawned \in 0..MaxWorkers
    /\ child \in Workers \cup {NoWorker}
    /\ state \in {"starting", "ready", "restarting", "dead"}
    /\ call \in [Calls -> {"new", "pending", "ok", "failed"}]
    /\ to \in [Calls -> Workers \cup {NoWorker}]
    /\ watch \in BOOLEAN
    /\ attempts \in 0..MaxRestarts
    /\ timers \in Nat
    /\ inits \subseteq Workers
    /\ start \in {"new", "spawning", "waiting", "ok", "failed"}
    /\ stop \in {"no", "grace", "done"} /\ victim \in Workers \cup {NoWorker}
    /\ respawns \in Nat
    /\ doubled \in BOOLEAN

(* One module is one process: a restart, a kill for silence and a shutdown that  *)
(* race never leave two, and the process that runs is the one that is called --  *)
(* as long as no process that died had its restart scheduled twice.              *)
OneWorker == ~doubled => Cardinality(Alive) <= 1 /\ (child # NoWorker => Alive \subseteq {child})

(* A call is never left to a process whose exit was already handled. *)
NoCallIsOrphaned == \A c \in Calls : call[c] = "pending" => worker[to[c]] # "reaped"

(* A module that says it is ready has a process to send a call to. *)
ReadyHasWorker == (state = "ready" /\ ~doubled) => child # NoWorker

(* "A crash loop cannot restart forever": between two heartbeats no more restarts *)
(* than the budget, and a dead module is not restarted.                           *)
RestartsAreBounded ==
    ~doubled => /\ respawns <= MaxRestarts
                /\ (state = "dead" /\ stop = "no") => timers = 0 /\ Alive = {}

(* After shutdown() nothing is spawned, whichever timer or exit comes later. *)
NothingAfterShutdown == [][stop # "no" => spawned' = spawned]_hostVars

(* A process whose watch runs and that falls silent ends, also if it was silent *)
(* before its module was loaded.                                                 *)
SilentWorkerEnds ==
    \A w \in Workers :
        (child = w /\ worker[w] = "hung" /\ watch) ~> (worker[w] \in {"gone", "reaped"} \/ stop # "no" \/ doubled)

(* "shutdown message, 2s grace, SIGTERM, SIGKILL": a process that outlives its   *)
(* shutdown() has been sent the last of the chain.                               *)
KillChainEnds ==
    stop = "done" => \A w \in Alive : "KILL" \in sent[w]
=============================================================================
