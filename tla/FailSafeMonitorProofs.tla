------------------------- MODULE FailSafeMonitorProofs -------------------------
(***************************************************************************)
(* What a lease is worth, for every set of owners, devices, capabilities   *)
(* and TTLs: exclusive leases stand alone and are honoured by permits(),   *)
(* none runs further ahead than maxTtlMs, and none comes back once lapsed. *)
(*                                                                         *)
(* Then the fail-safe monitor over the lease table, for every set of       *)
(* devices, calls, leases and ages: the monitor and the calls do to the    *)
(* table only what its methods do, and no device whose host was heard in   *)
(* time is taken for silent.                                               *)
(***************************************************************************)
EXTENDS FailSafeMonitor, TLAPS

-----------------------------------------------------------------------------
(* The lease table on its own *)

\* clampTtl() returns a positive number of ticks, at most MaxTtl.
LEMMA TtlBounds == \A t \in Ttls : Ttl(t) \in 1..MaxTtl
  BY LeaseAssumption DEF Ttl

\* The fields of a lease have their types.
LEMMA LeaseFields ==
  ASSUME LeaseTypeOK, NEW l \in DOMAIN lease
  PROVE  /\ l \in 1..Len(lease)
         /\ lease[l].mode \in Modes
         /\ lease[l].scope \in Scopes
         /\ lease[l].scope.kind \in {"device", "capability"}
         /\ lease[l].expiresAt \in Nat
<1>1. l \in 1..Len(lease) /\ lease[l] \in Lease
  BY DEF LeaseTypeOK
<1>2. \A s \in Scopes : s.kind \in {"device", "capability"}
  BY DEF Scopes
<1> QED
  BY <1>1, <1>2 DEF Lease

\* Every step preserves the types.
LEMMA LeaseNextType == LeaseTypeOK /\ [LeaseNext]_leaseVars => LeaseTypeOK'
<1> SUFFICES ASSUME LeaseTypeOK, [LeaseNext]_leaseVars PROVE LeaseTypeOK'
  OBVIOUS
<1>1. ASSUME NEW o \in Owners, NEW s \in Scopes, NEW m \in Modes, NEW t \in Ttls,
             Acquire(o, s, m, t)
      PROVE  LeaseTypeOK'
  <2> DEFINE x == [mode |-> m, scope |-> s, owner |-> o, expiresAt |-> clock + Ttl(t)]
  <2>1. x \in Lease
    BY TtlBounds, LeaseAssumption DEF LeaseTypeOK, Lease
  <2>2. lease' \in Seq(Lease) /\ DOMAIN lease' = 1..(Len(lease) + 1)
    BY <1>1, <2>1 DEF LeaseTypeOK, Acquire
  <2>3. held' \subseteq DOMAIN lease'
    BY <1>1, <2>2 DEF LeaseTypeOK, Acquire, Live
  <2> QED
    BY <1>1, <2>2, <2>3 DEF LeaseTypeOK, Acquire
<1>2. ASSUME NEW l \in Numbers, NEW o \in Owners, NEW t \in Ttls, Renew(l, o, t)
      PROVE  LeaseTypeOK'
  <2>1. l \in DOMAIN lease /\ lease[l] \in Lease
    BY <1>2 DEF LeaseTypeOK, Renew, Live
  <2>2. [lease[l] EXCEPT !.expiresAt = clock + Ttl(t)] \in Lease
    <3>1. clock + Ttl(t) \in Nat
      BY TtlBounds, LeaseAssumption DEF LeaseTypeOK
    <3> QED
      BY <2>1, <3>1 DEF Lease
  <2>3. lease' \in Seq(Lease) /\ DOMAIN lease' = DOMAIN lease
    BY <1>2, <2>1, <2>2 DEF LeaseTypeOK, Renew
  <2> QED
    BY <1>2, <2>3 DEF LeaseTypeOK, Renew
<1>3. CASE \/ \E l \in Numbers, o \in Owners : Release(l, o)
           \/ \E l \in Numbers : MeetExpired(l) \/ ForceRelease(l)
           \/ Reap
  BY <1>3 DEF LeaseTypeOK, Release, MeetExpired, ForceRelease, Reap, Live
<1>4. CASE LeaseTick
  BY <1>4, LeaseAssumption DEF LeaseTypeOK, LeaseTick
<1>5. CASE UNCHANGED leaseVars
  BY <1>5 DEF LeaseTypeOK, leaseVars
<1> QED
  BY <1>1, <1>2, <1>3, <1>4, <1>5 DEF LeaseNext, LeaseCall

\* What any step leaves: leases that were in the Map, with their terms, and at
\* most one more that conflicts with none of them.
LEMMA LeaseStepShape ==
  ASSUME LeaseTypeOK, [LeaseNext]_leaseVars
  PROVE  \/ /\ held' \subseteq held
            /\ \A l \in held : /\ lease'[l].mode = lease[l].mode
                               /\ lease'[l].scope = lease[l].scope
         \/ \E s \in Scopes, m \in Modes :
              LET n == Len(lease) + 1 IN
              /\ held' \subseteq Live \cup {n}
              /\ lease'[n].mode = m /\ lease'[n].scope = s
              /\ \A l \in Live : ~Conflicts(l, s, m) /\ lease'[l] = lease[l]
<1>1. ASSUME NEW o \in Owners, NEW s \in Scopes, NEW m \in Modes, NEW t \in Ttls,
             Acquire(o, s, m, t)
      PROVE  LET n == Len(lease) + 1 IN
             /\ held' \subseteq Live \cup {n}
             /\ lease'[n].mode = m /\ lease'[n].scope = s
             /\ \A l \in Live : ~Conflicts(l, s, m) /\ lease'[l] = lease[l]
  BY <1>1 DEF LeaseTypeOK, Acquire, Live
<1>2. ASSUME NEW l \in Numbers, NEW o \in Owners, NEW t \in Ttls, Renew(l, o, t)
      PROVE  /\ held' \subseteq held
             /\ \A k \in held : /\ lease'[k].mode = lease[k].mode
                                /\ lease'[k].scope = lease[k].scope
  <2>1. l \in DOMAIN lease /\ lease[l] \in Lease
    BY <1>2 DEF LeaseTypeOK, Renew, Live
  <2> QED
    BY <1>2, <2>1 DEF LeaseTypeOK, Renew, Lease
<1>3. CASE \/ \E l \in Numbers, o \in Owners : Release(l, o)
           \/ \E l \in Numbers : MeetExpired(l) \/ ForceRelease(l)
           \/ Reap \/ LeaseTick \/ UNCHANGED leaseVars
  BY <1>3 DEF Release, MeetExpired, ForceRelease, Reap, Live, LeaseTick, leaseVars
<1> QED
  BY <1>1, <1>2, <1>3 DEF LeaseNext, LeaseCall

\* LeaseTypeOK holds throughout: the Map only holds leases that were acquired.
THEOREM LeaseTypeCorrect == LeaseSpec => []LeaseTypeOK
<1>1. LeaseInit => LeaseTypeOK
  BY LeaseAssumption DEF LeaseInit, LeaseTypeOK
<1> QED
  BY <1>1, LeaseNextType, PTL DEF LeaseSpec

\* No two leases in the Map overlap unless both only read: acquire() refuses
\* what would, and nothing else brings a lease into the Map.
THEOREM LeaseExclusion == LeaseSpec => []ExclusiveIsAlone
<1>1. LeaseInit => ExclusiveIsAlone
  BY DEF LeaseInit, ExclusiveIsAlone
<1>2. LeaseTypeOK /\ ExclusiveIsAlone /\ [LeaseNext]_leaseVars => ExclusiveIsAlone'
  <2> SUFFICES ASSUME LeaseTypeOK, ExclusiveIsAlone, [LeaseNext]_leaseVars,
                      NEW k \in held', NEW l \in held', k # l,
                      ScopesOverlap(lease'[k].scope, lease'[l].scope)
               PROVE  lease'[k].mode = "shared-read" /\ lease'[l].mode = "shared-read"
    BY DEF ExclusiveIsAlone
  <2>1. CASE /\ held' \subseteq held
             /\ \A i \in held : /\ lease'[i].mode = lease[i].mode
                                /\ lease'[i].scope = lease[i].scope
    BY <2>1 DEF ExclusiveIsAlone
  <2>2. ASSUME NEW s \in Scopes, NEW m \in Modes,
               held' \subseteq Live \cup {Len(lease) + 1},
               lease'[Len(lease) + 1].mode = m, lease'[Len(lease) + 1].scope = s,
               \A i \in Live : ~Conflicts(i, s, m) /\ lease'[i] = lease[i]
        PROVE  lease'[k].mode = "shared-read" /\ lease'[l].mode = "shared-read"
    <3> DEFINE n == Len(lease) + 1
    <3>1. \A i \in Live : i \in held /\ lease[i].mode \in Modes
      BY LeaseFields DEF LeaseTypeOK, Live
    <3>2. CASE k = n
      <4>1. l \in Live /\ ScopesOverlap(s, lease[l].scope)
        BY <2>2, <3>2
      <4>2. ScopesOverlap(lease[l].scope, s)
        BY <4>1 DEF ScopesOverlap
      <4> QED
        BY <2>2, <3>1, <3>2, <4>1, <4>2 DEF Conflicts, Modes
    <3>3. CASE l = n
      <4>1. k \in Live /\ ScopesOverlap(lease[k].scope, s)
        BY <2>2, <3>3
      <4> QED
        BY <2>2, <3>1, <3>3, <4>1 DEF Conflicts, Modes
    <3>4. CASE k # n /\ l # n
      BY <2>2, <3>1, <3>4 DEF ExclusiveIsAlone
    <3> QED
      BY <3>2, <3>3, <3>4
  <2> QED
    BY <2>1, <2>2, LeaseStepShape
<1> QED
  BY <1>1, <1>2, LeaseTypeCorrect, PTL DEF LeaseSpec

\* A live exclusive lease is never vetoed: permits() accepts its owner for all
\* it covers, whatever other leases are around.
THEOREM LeaseIsHonoured == LeaseSpec => []LeaseGrants
<1>1. LeaseTypeOK /\ ExclusiveIsAlone => LeaseGrants
  <2> SUFFICES ASSUME LeaseTypeOK, ExclusiveIsAlone,
                      NEW l \in Live, NEW c \in Capabilities,
                      lease[l].mode = "exclusive",
                      Covers(l, lease[l].scope.device, c)
               PROVE  Permits(lease[l].owner, lease[l].scope.device, c, "exclusive")
    BY DEF LeaseGrants
  <2>1. ASSUME NEW k \in Live, Covers(k, lease[l].scope.device, c)
        PROVE  k = l
    <3>1. k \in held /\ l \in held
      BY DEF Live
    <3>2. lease[k].scope.kind \in {"device", "capability"}
      BY <3>1, LeaseFields DEF LeaseTypeOK
    <3>3. lease[l].scope.kind \in {"device", "capability"}
      BY <3>1, LeaseFields DEF LeaseTypeOK
    <3>4. ScopesOverlap(lease[k].scope, lease[l].scope)
      BY <2>1, <3>2, <3>3 DEF Covers, ScopesOverlap
    <3> QED
      BY <3>1, <3>4 DEF ExclusiveIsAlone
  <2> QED
    BY <2>1 DEF Permits
<1> QED
  BY <1>1, LeaseTypeCorrect, LeaseExclusion, PTL

\* A crashed owner holds a machine for at most maxTtlMs after its last call.
THEOREM HoldsAreBounded == LeaseSpec => []HoldIsBounded
<1>1. LeaseInit => HoldIsBounded
  BY DEF LeaseInit, HoldIsBounded
<1>2. LeaseTypeOK /\ HoldIsBounded /\ [LeaseNext]_leaseVars => HoldIsBounded'
  <2> SUFFICES ASSUME LeaseTypeOK, HoldIsBounded, [LeaseNext]_leaseVars
               PROVE  HoldIsBounded'
    OBVIOUS
  <2> USE LeaseAssumption
  <2>1. \A k \in held : k \in DOMAIN lease /\ lease[k].expiresAt \in Nat
    BY LeaseFields DEF LeaseTypeOK
  <2>2. clock \in Nat /\ \A t \in Ttls : Ttl(t) \in Nat /\ Ttl(t) <= MaxTtl
    BY TtlBounds DEF LeaseTypeOK
  <2>3. ASSUME NEW o \in Owners, NEW s \in Scopes, NEW m \in Modes, NEW t \in Ttls,
               Acquire(o, s, m, t)
        PROVE  HoldIsBounded'
    <3>1. lease'[Len(lease) + 1].expiresAt = clock + Ttl(t)
      BY <2>3 DEF LeaseTypeOK, Acquire
    <3>2. \A k \in Live : k \in held /\ lease'[k] = lease[k]
      BY <2>1, <2>3 DEF LeaseTypeOK, Acquire, Live
    <3>3. held' = Live \cup {Len(lease) + 1} /\ clock' = clock
      BY <2>3 DEF Acquire
    <3>4. ASSUME NEW k \in Live PROVE lease'[k].expiresAt <= clock' + MaxTtl
      BY <3>2, <3>3, <3>4 DEF HoldIsBounded
    <3>5. lease'[Len(lease) + 1].expiresAt <= clock' + MaxTtl
      BY <2>2, <3>1, <3>3
    <3> QED
      BY <3>3, <3>4, <3>5 DEF HoldIsBounded
  <2>4. ASSUME NEW l \in Numbers, NEW o \in Owners, NEW t \in Ttls, Renew(l, o, t)
        PROVE  HoldIsBounded'
    <3>1. l \in held /\ lease'[l].expiresAt = clock + Ttl(t)
      BY <2>1, <2>4 DEF LeaseTypeOK, Renew, Live, Lease
    <3>2. \A k \in held : k # l => lease'[k] = lease[k]
      BY <2>1, <2>4 DEF LeaseTypeOK, Renew
    <3>3. held' = held /\ clock' = clock
      BY <2>4 DEF Renew
    <3> QED
      BY <2>2, <3>1, <3>2, <3>3 DEF HoldIsBounded
  <2>5. CASE \/ \E l \in Numbers, o \in Owners : Release(l, o)
             \/ \E l \in Numbers : MeetExpired(l) \/ ForceRelease(l)
             \/ Reap \/ UNCHANGED leaseVars
    BY <2>5 DEF HoldIsBounded, Release, MeetExpired, ForceRelease, Reap, Live, leaseVars
  <2>6. CASE LeaseTick
    BY <2>1, <2>2, <2>6 DEF HoldIsBounded, LeaseTick
  <2> QED
    BY <2>3, <2>4, <2>5, <2>6 DEF LeaseNext, LeaseCall
<1> QED
  BY <1>1, <1>2, LeaseTypeCorrect, PTL DEF LeaseSpec

\* An owner whose lease lapsed has to acquire anew, in competition: renew()
\* revives nothing.
THEOREM LapsedLeasesStayLapsed == LeaseSpec => LapsedStaysLapsed
<1> DEFINE Stays == \A l \in DOMAIN lease : l \notin Live => l \notin Live'
<1>1. LeaseTypeOK /\ [LeaseNext]_leaseVars => Stays
  <2> SUFFICES ASSUME LeaseTypeOK, [LeaseNext]_leaseVars,
                      NEW k \in DOMAIN lease, k \notin Live
               PROVE  k \notin Live'
    OBVIOUS
  <2>1. k \in 1..Len(lease) /\ lease[k].expiresAt \in Nat /\ clock \in Nat
    BY LeaseAssumption, LeaseFields DEF LeaseTypeOK
  <2>2. ASSUME NEW o \in Owners, NEW s \in Scopes, NEW m \in Modes, NEW t \in Ttls,
               Acquire(o, s, m, t)
        PROVE  k \notin Live'
    BY <2>1, <2>2 DEF Acquire, Live
  <2>3. ASSUME NEW l \in Numbers, NEW o \in Owners, NEW t \in Ttls, Renew(l, o, t)
        PROVE  k \notin Live'
    <3>1. k # l
      BY <2>3 DEF Renew
    <3>2. lease'[k] = lease[k] /\ held' = held /\ clock' = clock
      BY <2>1, <2>3, <3>1 DEF LeaseTypeOK, Renew
    <3> QED
      BY <3>2 DEF Live, Expired
  <2>4. CASE \/ \E l \in Numbers, o \in Owners : Release(l, o)
             \/ \E l \in Numbers : MeetExpired(l) \/ ForceRelease(l)
             \/ Reap \/ UNCHANGED leaseVars
    BY <2>4 DEF Release, MeetExpired, ForceRelease, Reap, Live, Expired, leaseVars
  <2>5. CASE LeaseTick
    BY <2>1, <2>5 DEF LeaseTick, Live, Expired
  <2> QED
    BY <2>2, <2>3, <2>4, <2>5 DEF LeaseNext, LeaseCall
<1>2. LeaseTypeOK /\ [LeaseNext]_leaseVars => [Stays]_leaseVars
  BY <1>1
<1> QED
  BY <1>2, LeaseTypeCorrect, PTL DEF LeaseSpec, LapsedStaysLapsed

-----------------------------------------------------------------------------
(* The monitor and the daemon's calls over it *)

\* Dropping the expired leases is what list() does, or nothing.
LEMMA DroppingIsReaping ==
  ASSUME held' = Live, UNCHANGED <<lease, clock>>
  PROVE  Reap \/ UNCHANGED leaseVars
  BY DEF Reap, leaseVars

\* A step of the daemon is a step of the lease table or leaves it alone.
LEMMA MonitorStepsLeases == [FailSafeNext]_failSafeVars => [LeaseNext]_leaseVars
<1> SUFFICES ASSUME [FailSafeNext]_failSafeVars
             PROVE  LeaseNext \/ UNCHANGED leaseVars
  OBVIOUS
<1>1. CASE TickStep
  <2>1. CASE TickStarts
    BY <2>1, DroppingIsReaping DEF TickStarts, LeaseNext, LeaseCall
  <2>2. CASE CheckStarts \/ TickEnds
    BY <2>2 DEF CheckStarts, TickEnds
  <2>3. ASSUME NEW l \in Numbers, FailSafeExpired(l) PROVE UNCHANGED leaseVars
    BY <2>3 DEF FailSafeExpired
  <2>4. ASSUME NEW d \in Devices, CheckDevice(d) PROVE UNCHANGED leaseVars
    BY <2>4 DEF CheckDevice
  <2> QED
    BY <1>1, <2>1, <2>2, <2>3, <2>4 DEF TickStep
<1>2. CASE Backend
  BY <1>2 DEF Backend, SafeStateTakes, FailSafeSettles
<1>3. CASE CallStep
  <2>1. ASSUME NEW i \in Calls, NEW o \in Owners, NEW d \in Devices, NEW kind, Send(i, o, d, kind)
        PROVE  LeaseNext \/ UNCHANGED leaseVars
    BY <2>1, DroppingIsReaping DEF Send, LeaseNext, LeaseCall, leaseVars
  <2>2. ASSUME NEW i \in Calls, Takes(i) \/ Returns(i) \/ Refused(i)
        PROVE  UNCHANGED leaseVars
    BY <2>2 DEF Takes, Returns, Refused
  <2> QED
    BY <1>3, <2>1, <2>2 DEF CallStep
<1>4. CASE DeviceStep
  BY <1>4 DEF DeviceStep, Heartbeat, Plug, Unplug
<1>5. CASE LeaseStep
  BY <1>5 DEF LeaseStep, LeaseNext, LeaseCall
<1>6. CASE UNCHANGED failSafeVars
  BY <1>6 DEF failSafeVars
<1> QED
  BY <1>1, <1>2, <1>3, <1>4, <1>5, <1>6 DEF FailSafeNext

\* The table under the monitor is a lease table: exclusion, authority and the
\* bound on a hold, proved of the table alone, hold in the daemon too.
THEOREM MonitorImplementsLeases == FailSafeSpec => LeaseSpec
<1>1. FailSafeInit => LeaseInit
  BY DEF FailSafeInit
<1> QED
  BY <1>1, MonitorStepsLeases, PTL DEF FailSafeSpec, LeaseSpec

\* A lease that left the Map does not come back, and the clock does not go back.
LEMMA LeasesStayGone ==
  ASSUME LeaseTypeOK, [LeaseNext]_leaseVars
  PROVE  /\ DOMAIN lease \ held \subseteq DOMAIN lease' \ held'
         /\ clock \in Nat /\ clock' \in {clock, clock + 1}
         /\ \A l \in DOMAIN lease : lease'[l].scope = lease[l].scope
<1> USE DEF LeaseTypeOK
<1>0. clock \in Nat
  BY LeaseAssumption
<1>1. ASSUME NEW o \in Owners, NEW s \in Scopes, NEW m \in Modes, NEW t \in Ttls,
             Acquire(o, s, m, t)
      PROVE  /\ DOMAIN lease \ held \subseteq DOMAIN lease' \ held' /\ clock' = clock
             /\ \A l \in DOMAIN lease : lease'[l].scope = lease[l].scope
  BY <1>1 DEF Acquire, Live
<1>2. ASSUME NEW l \in Numbers, NEW o \in Owners, NEW t \in Ttls, Renew(l, o, t)
      PROVE  /\ DOMAIN lease \ held \subseteq DOMAIN lease' \ held' /\ clock' = clock
             /\ \A k \in DOMAIN lease : lease'[k].scope = lease[k].scope
  <2>1. l \in DOMAIN lease /\ lease[l] \in Lease
    BY <1>2 DEF Renew, Live
  <2> QED
    BY <1>2, <2>1 DEF Renew, Lease
<1>3. CASE \/ \E l \in Numbers, o \in Owners : Release(l, o)
           \/ \E l \in Numbers : MeetExpired(l) \/ ForceRelease(l)
           \/ Reap \/ LeaseTick \/ UNCHANGED leaseVars
  BY <1>3 DEF Release, MeetExpired, ForceRelease, Reap, Live, LeaseTick, leaseVars
<1> QED
  BY <1>0, <1>1, <1>2, <1>3 DEF LeaseNext, LeaseCall

-----------------------------------------------------------------------------
\* FailSafeTypeOK with what it leaves out: the calls name devices, and the time
\* a check compares with was read from the same clock.
Times == 0..clock \cup {Never}

MonitorInv ==
  /\ registered \subseteq Devices
  /\ armed \in [Devices -> Times]
  /\ heard \in [Devices -> Times]
  /\ phase \in {"idle", "leases", "deadman"}
  /\ drained \subseteq DOMAIN lease \ held
  /\ unchecked \subseteq Devices
  /\ asOf \in 0..clock
  /\ applying \in Devices \cup {NoDevice}
  /\ applying # NoDevice => phase # "idle"
  /\ hardware \subseteq Devices
  /\ DOMAIN call = Calls
  /\ \A i \in Calls : Idle(i) \/ call[i].device \in Devices

\* Marks are times of the clock, or Never.
LEMMA Marking ==
  ASSUME LeaseTypeOK, MonitorInv, NEW d \in Devices,
         MarkArmed(d) \/ MarkDisarmed(d) \/ UNCHANGED <<armed, heard>>
  PROVE  armed' \in [Devices -> Times] /\ heard' \in [Devices -> Times]
<1>1. clock \in Times /\ Never \in Times
  BY LeaseAssumption DEF LeaseTypeOK, Times
<1> QED
  BY <1>1 DEF MonitorInv, MarkArmed, MarkDisarmed

LEMMA FailSafeStarts ==
  ASSUME LeaseTypeOK, MonitorInv, NEW d \in Devices, StartFailSafe(d)
  PROVE  /\ armed' \in [Devices -> Times] /\ heard' \in [Devices -> Times]
         /\ applying' \in {d, applying}
  BY Marking DEF StartFailSafe

\* The scope of a lease names a device.
LEMMA LeaseNamesDevice ==
  ASSUME LeaseTypeOK, NEW l \in DOMAIN lease
  PROVE  lease[l].scope.device \in Devices
<1>1. lease[l].scope \in Scopes
  BY LeaseFields
<1>2. \A s \in Scopes : s.device \in Devices
  BY DEF Scopes
<1> QED
  BY <1>1, <1>2

\* Whatever befalls the table, what the monitor holds keeps its types.
LEMMA TableStepKeeps ==
  ASSUME LeaseTypeOK, MonitorInv, [LeaseNext]_leaseVars, UNCHANGED <<monitorVars, deviceVars>>
  PROVE  MonitorInv'
<1>1. /\ clock \in Nat /\ clock' \in {clock, clock + 1}
      /\ DOMAIN lease \ held \subseteq DOMAIN lease' \ held'
  BY LeasesStayGone
<1>2. Times \subseteq Times' /\ 0..clock \subseteq 0..clock'
  BY <1>1 DEF Times
<1>3. armed' \in [Devices -> Times'] /\ heard' \in [Devices -> Times']
  BY <1>2 DEF MonitorInv, monitorVars
<1>4. asOf' \in 0..clock' /\ drained' \subseteq DOMAIN lease' \ held'
  BY <1>1, <1>2 DEF MonitorInv, monitorVars
<1> QED
  BY <1>3, <1>4 DEF MonitorInv, monitorVars, deviceVars, Idle

LEMMA TickStepKeeps ==
  ASSUME LeaseTypeOK, MonitorInv, TickStep
  PROVE  MonitorInv'
<1> USE FailSafeAssumption
<1>1. CASE TickStarts
  <2>1. drained' \subseteq DOMAIN lease' \ held'
    BY <1>1 DEF TickStarts, LeaseTypeOK, Live
  <2> QED
    BY <1>1, <2>1 DEF TickStarts, MonitorInv, Idle, deviceVars, Times
<1>2. ASSUME NEW l \in Numbers, FailSafeExpired(l) PROVE MonitorInv'
  <2> DEFINE d == lease[l].scope.device
  <2>1. d \in Devices
    BY <1>2, LeaseNamesDevice DEF FailSafeExpired, MonitorInv
  <2>2. /\ armed' \in [Devices -> Times] /\ heard' \in [Devices -> Times]
        /\ applying' \in {d, applying}
    BY <1>2, <2>1, FailSafeStarts DEF FailSafeExpired
  <2> QED
    BY <1>2, <2>1, <2>2 DEF FailSafeExpired, MonitorInv, Idle, deviceVars, leaseVars, Times
<1>3. CASE CheckStarts
  <2>1. asOf' \in 0..clock'
    BY <1>3, LeaseAssumption DEF CheckStarts, LeaseTypeOK, leaseVars
  <2> QED
    BY <1>3, <2>1 DEF CheckStarts, MonitorInv, Idle, deviceVars, leaseVars, Times
<1>4. ASSUME NEW d \in Devices, CheckDevice(d) PROVE MonitorInv'
  <2>1. /\ armed' \in [Devices -> Times] /\ heard' \in [Devices -> Times]
        /\ applying' \in {d, applying}
    BY <1>4, FailSafeStarts, Marking DEF CheckDevice
  <2> QED
    BY <1>4, <2>1 DEF CheckDevice, MonitorInv, Idle, deviceVars, leaseVars, Times
<1>5. CASE TickEnds
  BY <1>5 DEF TickEnds, MonitorInv, Idle, deviceVars, leaseVars, Times
<1> QED
  BY <1>1, <1>2, <1>3, <1>4, <1>5 DEF TickStep

LEMMA OtherStepKeeps ==
  ASSUME LeaseTypeOK, MonitorInv, Backend \/ CallStep \/ DeviceStep
  PROVE  MonitorInv'
<1> USE FailSafeAssumption
<1>1. CASE SafeStateTakes
  BY <1>1 DEF SafeStateTakes, MonitorInv, Idle, leaseVars, Times
<1>2. CASE FailSafeSettles
  <2>1. armed' \in [Devices -> Times] /\ heard' \in [Devices -> Times]
    BY <1>2, Marking DEF FailSafeSettles, MonitorInv
  <2> QED
    BY <1>2, <2>1 DEF FailSafeSettles, MonitorInv, Idle, deviceVars, leaseVars, Times
<1>3. ASSUME NEW i \in Calls, NEW o \in Owners, NEW d \in Devices, NEW kind, Send(i, o, d, kind)
      PROVE  MonitorInv'
  <2>1. drained' \subseteq DOMAIN lease' \ held' /\ clock' = clock
    BY <1>3 DEF Send, MonitorInv, Live, monitorVars
  <2>2. /\ DOMAIN call' = Calls
        /\ \A j \in Calls : Idle(j)' \/ call'[j].device \in Devices
    BY <1>3 DEF Send, MonitorInv, Idle
  <2> QED
    BY <1>3, <2>1, <2>2 DEF Send, MonitorInv, monitorVars, Times
<1>4. ASSUME NEW i \in Calls, Takes(i) PROVE MonitorInv'
  <2>1. call[i].device \in Devices
    BY <1>4 DEF Takes, MonitorInv
  <2>2. /\ DOMAIN call' = Calls
        /\ \A j \in Calls : Idle(j)' \/ call'[j].device \in Devices
    BY <1>4, <2>1 DEF Takes, Idle, MonitorInv
  <2>3. hardware' \subseteq Devices
    BY <1>4, <2>1 DEF Takes, MonitorInv
  <2> QED
    BY <1>4, <2>2, <2>3 DEF Takes, MonitorInv, monitorVars, leaseVars, Times
<1>5. ASSUME NEW i \in Calls, Returns(i) PROVE MonitorInv'
  <2>1. call[i].device \in Devices
    BY <1>5 DEF Returns, MonitorInv
  <2>2. armed' \in [Devices -> Times] /\ heard' \in [Devices -> Times]
    BY <1>5, <2>1, Marking DEF Returns
  <2>3. /\ DOMAIN call' = Calls
        /\ \A j \in Calls : Idle(j)' \/ call'[j].device \in Devices
    BY <1>5 DEF Returns, Idle, MonitorInv
  <2> QED
    BY <1>5, <2>2, <2>3 DEF Returns, MonitorInv, leaseVars, Times
<1>6. ASSUME NEW i \in Calls, Refused(i) PROVE MonitorInv'
  BY <1>6 DEF Refused, Idle, MonitorInv, monitorVars, leaseVars, Times
<1>7. ASSUME NEW d \in Devices, Heartbeat(d) PROVE MonitorInv'
  <2>1. clock \in Times
    BY LeaseAssumption DEF LeaseTypeOK, Times
  <2> QED
    BY <1>7, <2>1 DEF Heartbeat, MonitorInv, Idle, deviceVars, leaseVars, Times
<1>8. ASSUME NEW d \in Devices, Plug(d) PROVE MonitorInv'
  BY <1>8 DEF Plug, MonitorInv, Idle, monitorVars, leaseVars, Times
<1>9. ASSUME NEW d \in Devices, Unplug(d) PROVE MonitorInv'
  BY <1>9 DEF Unplug, Idle, MonitorInv, monitorVars, leaseVars, Times
<1> QED
  BY <1>1, <1>2, <1>3, <1>4, <1>5, <1>6, <1>7, <1>8, <1>9
     DEF Backend, CallStep, DeviceStep

\* MonitorInv holds throughout.
LEMMA MonitorInvariant == FailSafeSpec => []MonitorInv
<1>1. ASSUME FailSafeInit PROVE MonitorInv
  <2>1. 0 \in 0..clock /\ Never \in Times
    BY <1>1 DEF FailSafeInit, LeaseInit, Times
  <2> QED
    BY <1>1, <2>1 DEF FailSafeInit, LeaseInit, MonitorInv, Idle
<1>2. ASSUME LeaseTypeOK, MonitorInv, [FailSafeNext]_failSafeVars PROVE MonitorInv'
  <2>1. CASE LeaseStep \/ UNCHANGED failSafeVars
    <3>1. UNCHANGED <<monitorVars, deviceVars>>
      BY <2>1 DEF LeaseStep, failSafeVars
    <3> QED
      BY <1>2, <3>1, MonitorStepsLeases, TableStepKeeps
  <2> QED
    BY <1>2, <2>1, TickStepKeeps, OtherStepKeeps DEF FailSafeNext
<1> QED
  BY <1>1, <1>2, MonitorImplementsLeases, LeaseTypeCorrect, PTL DEF FailSafeSpec

\* FailSafeTypeOK holds throughout: a tick that awaits a device is running, and
\* what it has drained has left the Map for good.
THEOREM FailSafeTypeCorrect == FailSafeSpec => []FailSafeTypeOK
<1>1. LeaseTypeOK /\ MonitorInv => FailSafeTypeOK
  BY DEF MonitorInv, FailSafeTypeOK, Times
<1> QED
  BY <1>1, MonitorInvariant, MonitorImplementsLeases, LeaseTypeCorrect, PTL

\* A device whose host was heard within the age it is allowed is never taken for
\* silent, although checkDeadman() compares a time it read before its awaits with
\* heartbeats it reads after them.
THEOREM HeartbeatIsHonoured == FailSafeSpec => HeartbeatProtects
<1> DEFINE Protected == \A d \in Devices :
      phase = "deadman" /\ applying' = d /\ applying # d => clock - heard[d] > MaxAge(d)
<1>1. ASSUME LeaseTypeOK, MonitorInv, FailSafeNext PROVE Protected
  <2> SUFFICES ASSUME NEW d \in Devices, phase = "deadman", applying' = d, applying # d
               PROVE  clock - heard[d] > MaxAge(d)
    OBVIOUS
  <2>1. CheckDevice(d) /\ Stale(d, asOf)
    <3>1. ASSUME NEW e \in Devices, CheckDevice(e) PROVE e = d /\ Stale(d, asOf)
      BY <3>1 DEF CheckDevice, StartFailSafe
    <3>2. ~(Backend \/ CallStep \/ DeviceStep \/ LeaseStep)
      BY FailSafeAssumption DEF Backend, SafeStateTakes, FailSafeSettles, CallStep, Send,
         Takes, Returns, Refused, DeviceStep, Heartbeat, Plug, Unplug, LeaseStep, monitorVars
    <3>3. ~(TickStarts \/ CheckStarts \/ TickEnds \/ \E l \in Numbers : FailSafeExpired(l))
      BY DEF TickStarts, CheckStarts, TickEnds, FailSafeExpired
    <3> QED
      BY <1>1, <3>1, <3>2, <3>3 DEF FailSafeNext, TickStep
  <2>2. /\ clock \in Int /\ asOf \in Int /\ asOf <= clock
        /\ heard[d] \in Int /\ armed[d] \in Int /\ MaxAge(d) \in Int
    BY <1>1, LeaseAssumption, FailSafeAssumption DEF LeaseTypeOK, MonitorInv, Times, Never, MaxAge
  <2>3. ASSUME NEW c \in Int, NEW a \in Int, NEW h \in Int, NEW m \in Int,
               a <= c, a - h > m
        PROVE  c - h > m /\ (h >= 0 => c - (-1) > m)
    BY <2>3
  <2>4. CASE heard[d] # Never
    <3>1. asOf - heard[d] > MaxAge(d)
      BY <2>1, <2>4 DEF Stale, Reference
    <3> QED
      BY <2>2, <2>3, <3>1
  <2>5. CASE heard[d] = Never
    <3>1. armed[d] # Never /\ asOf - armed[d] > MaxAge(d)
      BY <2>1, <2>5 DEF Stale, Watched, Reference
    <3>2. armed[d] >= 0
      BY <1>1, <3>1, LeaseAssumption DEF LeaseTypeOK, MonitorInv, Times, Never
    <3>3. clock - (-1) > MaxAge(d)
      BY <2>2, <2>3, <3>1, <3>2
    <3> QED
      BY <2>5, <3>3 DEF Never
  <2> QED
    BY <2>4, <2>5
<1> QED
  BY <1>1, MonitorInvariant, MonitorImplementsLeases, LeaseTypeCorrect, PTL
     DEF FailSafeSpec, HeartbeatProtects
=============================================================================
