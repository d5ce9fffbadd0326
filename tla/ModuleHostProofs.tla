--------------------------- MODULE ModuleHostProofs ---------------------------
(***************************************************************************)
(* For every number of calls, restarts and processes: no call is left to a *)
(* process that is over, shutdown is final, and -- while no death had its  *)
(* restart scheduled twice -- one process at a time, within the budget.    *)
(* The argument counts what may still become a process: a worker whose     *)
(* exit was not handled and a timer that has not fired are never both.     *)
(***************************************************************************)
EXTENDS ModuleHost, FiniteSetTheorems, TLAPS

\* The processes whose exit handler has not run.
Unreaped == {w \in Workers : worker[w] \in {"loading", "serving", "hung", "gone"}}

\* What this.child and the pending calls speak of.
References ==
    /\ \A w \in Workers : w > spawned => worker[w] = "none"
    /\ child # NoWorker => child \in Unreaped
    /\ \A c \in Calls : call[c] = "pending" => to[c] \in Unreaped

\* One process or one timer, and within the budget.
OneAtATime ==
    ~doubled =>
        /\ Unreaped \subseteq {child}
        /\ timers <= 1
        /\ timers > 0 => Unreaped = {}
        /\ start = "new" => timers = 0 /\ Unreaped = {}
        /\ state = "ready" => child # NoWorker
        /\ respawns + timers <= attempts
        /\ (state = "dead" /\ stop = "no") => timers = 0 /\ Unreaped = {}

HostInv == HostTypeOK /\ References /\ OneAtATime
-----------------------------------------------------------------------------
\* setState() and scheduleRestart() keep their types.
LEMMA SetStateType ==
  ASSUME HostTypeOK, NEW s, SetState(s)
  PROVE  start' \in {"new", "spawning", "waiting", "ok", "failed"} /\ state' = s
  BY DEF SetState, HostTypeOK

LEMMA ScheduleRestartType ==
  ASSUME HostTypeOK, ScheduleRestart
  PROVE  /\ start' \in {"new", "spawning", "waiting", "ok", "failed"}
         /\ state' \in {"starting", "ready", "restarting", "dead"}
         /\ attempts' \in 0..MaxRestarts /\ timers' \in Nat
  BY HostAssumption, SetStateType DEF ScheduleRestart, HostTypeOK

LEMMA SpawnType ==
  ASSUME HostTypeOK, SpawnChild
  PROVE  /\ worker' \in [Workers -> {"none", "loading", "serving", "hung", "gone", "reaped"}]
         /\ spawned' \in 0..MaxWorkers /\ child' \in Workers
         /\ inits' \subseteq Workers /\ state' = "starting"
<1>1. spawned + 1 \in Workers
  BY HostAssumption DEF HostTypeOK, SpawnChild, Workers
<1> QED
  BY <1>1, HostAssumption DEF HostTypeOK, SpawnChild, Workers

\* Every step keeps the types.
LEMMA HostNextType == HostTypeOK /\ [HostNext]_hostVars => HostTypeOK'
<1> SUFFICES ASSUME HostTypeOK, [HostNext]_hostVars PROVE HostTypeOK'
  OBVIOUS
<1>1. CASE Start
  BY <1>1, SpawnType DEF Start, HostTypeOK, callVars, shutdownVars
<1>2. CASE RestartFires
  <2>1. timers' \in Nat
    BY <1>2 DEF RestartFires, HostTypeOK
  <2>2. CASE stop # "no"
    BY <1>2, <2>1, <2>2 DEF RestartFires, HostTypeOK, callVars, shutdownVars
  <2>3. CASE stop = "no"
    BY <1>2, <2>1, <2>3, SpawnType DEF RestartFires, HostTypeOK, callVars, shutdownVars
  <2> QED
    BY <2>2, <2>3
<1>3. CASE SilenceNoticed
  <2>1. sent' \in [Workers -> SUBSET {"TERM", "KILL"}]
    BY <1>3 DEF SilenceNoticed, HostTypeOK
  <2>2. call' \in [Calls -> {"new", "pending", "ok", "failed"}]
    BY <1>3 DEF SilenceNoticed, HostTypeOK, Rejected
  <2> QED
    BY <1>3, <2>1, <2>2 DEF SilenceNoticed, HostTypeOK, shutdownVars
<1>4. CASE Shutdown
  BY <1>4 DEF Shutdown, HostTypeOK, Rejected
<1>5. CASE GraceEnds
  <2>1. sent' \in [Workers -> SUBSET {"TERM", "KILL"}]
    BY <1>5 DEF GraceEnds, HostTypeOK
  <2> QED
    BY <1>5, <2>1, SetStateType DEF GraceEnds, HostTypeOK, callVars
<1>6. ASSUME NEW w \in Workers, InitWritten(w) PROVE HostTypeOK'
  BY <1>6 DEF InitWritten, HostTypeOK, callVars, shutdownVars
<1>7. ASSUME NEW w \in Workers, InitFails(w) PROVE HostTypeOK'
  <2>1. CASE w = 1
    BY <1>7, <2>1 DEF InitFails, HostTypeOK, callVars, shutdownVars
  <2>2. CASE w # 1
    BY <1>7, <2>2, ScheduleRestartType DEF InitFails, HostTypeOK, callVars, shutdownVars
  <2> QED
    BY <2>1, <2>2
<1>8. ASSUME NEW w \in Workers, Ready(w) PROVE HostTypeOK'
  <2>1. worker' \in [Workers -> {"none", "loading", "serving", "hung", "gone", "reaped"}]
    BY <1>8 DEF Ready, HostTypeOK
  <2> QED
    BY <1>8, <2>1, SetStateType DEF Ready, HostTypeOK, callVars, shutdownVars
<1>9. ASSUME NEW w \in Workers, Heartbeat(w) \/ Hang(w) \/ Die(w) PROVE HostTypeOK'
  <2>1. worker' \in [Workers -> {"none", "loading", "serving", "hung", "gone", "reaped"}]
    BY <1>9 DEF Heartbeat, Hang, Die, HostTypeOK
  <2>2. attempts' \in 0..MaxRestarts /\ respawns' \in Nat
    BY <1>9, HostAssumption DEF Heartbeat, Hang, Die, HostTypeOK
  <2>3. watch' \in BOOLEAN
    BY <1>9 DEF Heartbeat, Hang, Die, HostTypeOK
  <2> QED
    BY <1>9, <2>1, <2>2, <2>3 DEF Heartbeat, Hang, Die, HostTypeOK, callVars, shutdownVars
<1>10. ASSUME NEW w \in Workers, ExitHandled(w) PROVE HostTypeOK'
  <2>1. /\ worker' \in [Workers -> {"none", "loading", "serving", "hung", "gone", "reaped"}]
        /\ call' \in [Calls -> {"new", "pending", "ok", "failed"}]
        /\ stop' \in {"no", "grace", "done"}
    BY <1>10 DEF ExitHandled, HostTypeOK, Rejected
  <2>2. /\ start' \in {"new", "spawning", "waiting", "ok", "failed"}
        /\ state' \in {"starting", "ready", "restarting", "dead"}
        /\ attempts' \in 0..MaxRestarts /\ timers' \in Nat
    <3>1. CASE stop # "no"
      BY <1>10, <3>1, SetStateType DEF ExitHandled, HostTypeOK
    <3>2. CASE stop = "no"
      BY <1>10, <3>2, ScheduleRestartType DEF ExitHandled
    <3> QED
      BY <3>1, <3>2
  <2> QED
    BY <1>10, <2>1, <2>2 DEF ExitHandled, HostTypeOK
<1>11. ASSUME NEW c \in Calls, Invoke(c) \/ CallEnds(c, "ok") \/ CallEnds(c, "failed")
       PROVE  HostTypeOK'
  BY <1>11 DEF Invoke, CallEnds, HostTypeOK, shutdownVars
<1>12. CASE UNCHANGED hostVars
  BY <1>12 DEF hostVars, HostTypeOK, callVars, shutdownVars
<1> QED
  BY <1>1, <1>2, <1>3, <1>4, <1>5, <1>6, <1>7, <1>8, <1>9, <1>10, <1>11, <1>12 DEF HostNext

\* A process is called and awaited only while its exit is to come: the exit
\* handler rejects every call and forgets the child.
LEMMA ReferencesStep == ASSUME HostTypeOK, References, [HostNext]_hostVars PROVE References'
<1> USE HostAssumption DEF HostTypeOK, References, Unreaped, Workers, NoWorker
<1>1. CASE Start
  BY <1>1 DEF Start, SpawnChild, callVars, shutdownVars
<1>2. CASE RestartFires
  BY <1>2 DEF RestartFires, SpawnChild, callVars, shutdownVars
<1>3. CASE SilenceNoticed
  BY <1>3 DEF SilenceNoticed, Rejected, shutdownVars
<1>4. CASE Shutdown
  BY <1>4 DEF Shutdown, Rejected
<1>5. CASE GraceEnds
  BY <1>5 DEF GraceEnds, callVars
<1>6. ASSUME NEW w \in Workers, InitWritten(w) \/ InitFails(w) PROVE References'
  BY <1>6 DEF InitWritten, InitFails, callVars, shutdownVars
<1>7. ASSUME NEW w \in Workers, Ready(w) \/ Heartbeat(w) PROVE References'
  BY <1>7 DEF Ready, Heartbeat, callVars, shutdownVars
<1>8. ASSUME NEW w \in Workers, Hang(w) \/ Die(w) PROVE References'
  BY <1>8 DEF Hang, Die, callVars, shutdownVars, Alive, Beating
<1>9. ASSUME NEW w \in Workers, ExitHandled(w) PROVE References'
  BY <1>9 DEF ExitHandled, Rejected
<1>10. ASSUME NEW c \in Calls, Invoke(c) \/ CallEnds(c, "ok") \/ CallEnds(c, "failed")
       PROVE  References'
  BY <1>10 DEF Invoke, CallEnds, shutdownVars
<1>11. CASE UNCHANGED hostVars
  BY <1>11 DEF hostVars, callVars, shutdownVars
<1> QED
  BY <1>1, <1>2, <1>3, <1>4, <1>5, <1>6, <1>7, <1>8, <1>9, <1>10, <1>11 DEF HostNext

\* Only the exit of the one process sets a timer, and only a timer starts the
\* next process.
LEMMA OneAtATimeStep == ASSUME HostInv, [HostNext]_hostVars PROVE OneAtATime'
<1> SUFFICES ASSUME ~doubled' PROVE OneAtATime'
  BY DEF OneAtATime
<1> USE HostAssumption DEF HostInv, HostTypeOK, References, OneAtATime, Unreaped, Workers, NoWorker
<1>1. CASE Start
  BY <1>1 DEF Start, SpawnChild, callVars, shutdownVars
<1>2. CASE RestartFires
  BY <1>2 DEF RestartFires, SpawnChild, callVars, shutdownVars
<1>3. CASE SilenceNoticed
  BY <1>3 DEF SilenceNoticed, shutdownVars
<1>4. CASE Shutdown
  BY <1>4 DEF Shutdown
<1>5. CASE GraceEnds
  BY <1>5 DEF GraceEnds, SetState, callVars
<1>6. ASSUME NEW w \in Workers, InitWritten(w) PROVE OneAtATime'
  BY <1>6 DEF InitWritten, callVars, shutdownVars
<1>7. ASSUME NEW w \in Workers, InitFails(w) PROVE OneAtATime'
  BY <1>7 DEF InitFails, ScheduleRestart, SetState, callVars, shutdownVars
<1>8. ASSUME NEW w \in Workers, Ready(w) \/ Heartbeat(w) PROVE OneAtATime'
  BY <1>8 DEF Ready, Heartbeat, Beating, SetState, callVars, shutdownVars
<1>9. ASSUME NEW w \in Workers, Hang(w) \/ Die(w) PROVE OneAtATime'
  BY <1>9 DEF Hang, Die, Alive, Beating, callVars, shutdownVars
<1>10. ASSUME NEW w \in Workers, ExitHandled(w) PROVE OneAtATime'
  BY <1>10 DEF ExitHandled, ScheduleRestart, SetState
<1>11. ASSUME NEW c \in Calls, Invoke(c) \/ CallEnds(c, "ok") \/ CallEnds(c, "failed")
       PROVE  OneAtATime'
  BY <1>11 DEF Invoke, CallEnds, shutdownVars
<1>12. CASE UNCHANGED hostVars
  BY <1>12 DEF hostVars, callVars, shutdownVars
<1> QED
  BY <1>1, <1>2, <1>3, <1>4, <1>5, <1>6, <1>7, <1>8, <1>9, <1>10, <1>11, <1>12 DEF HostNext

\* The invariant holds throughout.
LEMMA HostInvariant == HostSpec => []HostInv
<1>1. HostInit => HostInv
  <2> SUFFICES ASSUME HostInit PROVE HostInv
    OBVIOUS
  <2>1. HostTypeOK
    <3>1. /\ worker \in [Workers -> {"none", "loading", "serving", "hung", "gone", "reaped"}]
          /\ sent \in [Workers -> SUBSET {"TERM", "KILL"}]
          /\ call \in [Calls -> {"new", "pending", "ok", "failed"}]
          /\ to \in [Calls -> Workers \cup {NoWorker}]
      BY DEF HostInit
    <3>2. spawned \in 0..MaxWorkers /\ attempts \in 0..MaxRestarts /\ timers \in Nat /\ respawns \in Nat
      BY HostAssumption DEF HostInit
    <3>3. watch \in BOOLEAN /\ doubled \in BOOLEAN
      BY DEF HostInit
    <3> QED
      BY <3>1, <3>2, <3>3 DEF HostInit, HostTypeOK
  <2>2. References /\ OneAtATime
    BY DEF HostInit, References, OneAtATime, Unreaped, NoWorker
  <2> QED
    BY <2>1, <2>2 DEF HostInv
<1>2. HostInv /\ [HostNext]_hostVars => HostInv'
  BY HostNextType, ReferencesStep, OneAtATimeStep DEF HostInv
<1> QED
  BY <1>1, <1>2, PTL DEF HostSpec

\* HostTypeOK: the restart budget is never overdrawn, and all else has its type.
THEOREM HostTypeCorrect == HostSpec => []HostTypeOK
  BY HostInvariant, PTL DEF HostInv

\* NoCallIsOrphaned: the exit handler leaves no pending call behind.
THEOREM NoOrphanedCall == HostSpec => []NoCallIsOrphaned
<1>1. HostInv => NoCallIsOrphaned
  BY DEF HostInv, References, Unreaped, NoCallIsOrphaned
<1> QED
  BY <1>1, HostInvariant, PTL

\* OneWorker: whatever dies, hangs or is restarted, one process at a time.
THEOREM OneWorkerAtATime == HostSpec => []OneWorker
<1>1. HostInv => OneWorker
  <2> SUFFICES ASSUME HostInv, ~doubled
               PROVE  Cardinality(Alive) <= 1 /\ (child # NoWorker => Alive \subseteq {child})
    BY DEF OneWorker
  <2>1. Alive \subseteq {child}
    BY DEF HostInv, OneAtATime, Unreaped, Alive
  <2>2. Alive = {} \/ Alive = {child}
    BY <2>1
  <2>3. Cardinality(Alive) <= 1
    <3>1. CASE Alive = {}
      BY <3>1, FS_EmptySet
    <3>2. CASE Alive = {child}
      <4>1. Cardinality({child}) = 1
        BY FS_Singleton
      <4> QED
        BY <3>2, <4>1
    <3> QED
      BY <2>2, <3>1, <3>2
  <2> QED
    BY <2>1, <2>3
<1> QED
  BY <1>1, HostInvariant, PTL

\* ReadyHasWorker: the state says ready only of a process that invoke() can reach.
THEOREM ReadyIsTrue == HostSpec => []ReadyHasWorker
<1>1. HostInv => ReadyHasWorker
  BY DEF HostInv, OneAtATime, ReadyHasWorker
<1> QED
  BY <1>1, HostInvariant, PTL

\* RestartsAreBounded: a crash loop ends, and a module given up stays down.
THEOREM CrashLoopsEnd == HostSpec => []RestartsAreBounded
<1>1. HostInv => RestartsAreBounded
  BY HostAssumption DEF HostInv, HostTypeOK, OneAtATime, RestartsAreBounded, Unreaped, Alive
<1> QED
  BY <1>1, HostInvariant, PTL

\* NothingAfterShutdown: no timer and no exit spawns a process once shutdown()
\* was called.
THEOREM ShutdownIsFinal == HostSpec => NothingAfterShutdown
<1>1. [HostNext]_hostVars => [stop # "no" => spawned' = spawned]_hostVars
  <2> SUFFICES ASSUME HostNext, stop # "no" PROVE spawned' = spawned
    OBVIOUS
  <2>1. CASE Start \/ RestartFires
    BY <2>1 DEF Start, RestartFires
  <2>2. CASE SilenceNoticed \/ Shutdown \/ GraceEnds
    BY <2>2 DEF SilenceNoticed, Shutdown, GraceEnds
  <2>3. CASE \E w \in Workers : \/ InitWritten(w) \/ InitFails(w) \/ Ready(w) \/ Heartbeat(w)
                                \/ Hang(w) \/ Die(w) \/ ExitHandled(w)
    BY <2>3 DEF InitWritten, InitFails, Ready, Heartbeat, Hang, Die, ExitHandled
  <2>4. CASE \E c \in Calls : Invoke(c) \/ CallEnds(c, "ok") \/ CallEnds(c, "failed")
    BY <2>4 DEF Invoke, CallEnds
  <2> QED
    BY <2>1, <2>2, <2>3, <2>4 DEF HostNext
<1> QED
  BY <1>1, PTL DEF HostSpec, NothingAfterShutdown
=============================================================================
