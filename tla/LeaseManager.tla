----------------------------- MODULE LeaseManager -----------------------------
(***************************************************************************)
(* Resource leases.  A lease leaves the Map only when a call meets it:     *)
(* acquire(), permits() and list() drop every expired lease, get() and     *)
(* renew() the one they look up.  Each method runs to its end without an   *)
(* await, so each is one action.  Lease numbers stand for whole ids.       *)
(***************************************************************************)
EXTENDS Integers, FiniteSets, Sequences

CONSTANTS
  Owners,
  Devices,
  Capabilities,
  Ttls,       \* ttlMs callers ask for, in ticks
  MaxTtl,     \* options.maxTtlMs
  MaxLeases,  \* bound: leases acquired in a behaviour
  MaxClock    \* bound: ticks of the wall clock

ASSUME LeaseAssumption ==
  /\ Ttls \subseteq Int
  /\ MaxTtl \in Nat \ {0}
  /\ MaxLeases \in Nat
  /\ MaxClock \in Nat

VARIABLES
  lease,   \* the lease objects, in the order of their numbers
  held,    \* numbers in the leases Map
  clock    \* Date.now(), in ticks

leaseVars == <<lease, held, clock>>

Numbers == 1..MaxLeases
Modes == {"exclusive", "shared-read"}
Scopes ==
  [kind: {"device"}, device: Devices, caps: {{}}]
    \cup [kind: {"capability"}, device: Devices, caps: SUBSET Capabilities]
Lease == [mode: Modes, scope: Scopes, owner: Owners, expiresAt: Nat]

-----------------------------------------------------------------------------
\* clampTtl()
Ttl(t) == IF t < 1 THEN 1 ELSE IF t > MaxTtl THEN MaxTtl ELSE t

\* isExpired(), and what drainExpired() leaves in the Map
Expired(l) == lease[l].expiresAt <= clock
Live == {l \in held : ~Expired(l)}

\* leaseCoversDevice(), then the capability lists when both sides have one
Covers(l, d, c) ==
  /\ lease[l].scope.device = d
  /\ lease[l].scope.kind = "capability" => c \in lease[l].scope.caps

ScopesOverlap(s, t) ==
  /\ s.device = t.device
  /\ s.kind = "device" \/ t.kind = "device" \/ s.caps \cap t.caps # {}

Conflicts(l, s, m) ==
  /\ ScopesOverlap(lease[l].scope, s)
  /\ lease[l].mode = "exclusive" \/ m = "exclusive"

\* permits()
Permits(o, d, c, m) ==
  LET covering == {l \in Live : Covers(l, d, c)}
      enough(l) == m = "shared-read" \/ lease[l].mode = "exclusive"
      harmless(l) == m = "shared-read" /\ lease[l].mode = "shared-read"
  IN  /\ \A l \in covering : lease[l].owner = o \/ harmless(l)
      /\ \E l \in covering : lease[l].owner = o /\ enough(l)

-----------------------------------------------------------------------------
Acquire(o, s, m, t) ==
  /\ Len(lease) < MaxLeases
  /\ \A k \in Live : ~Conflicts(k, s, m)
  /\ lease' = Append(lease,
       [mode |-> m, scope |-> s, owner |-> o, expiresAt |-> clock + Ttl(t)])
  /\ held' = Live \cup {Len(lease) + 1}
  /\ UNCHANGED clock

\* permits(), list(), and an acquire() that throws: all they change is this.
Reap ==
  /\ held # Live
  /\ held' = Live
  /\ UNCHANGED <<lease, clock>>

\* get() and renew() of an expired lease, by anybody.
MeetExpired(l) ==
  /\ l \in held \ Live
  /\ held' = held \ {l}
  /\ UNCHANGED <<lease, clock>>

Renew(l, o, t) ==
  /\ l \in Live
  /\ lease[l].owner = o
  /\ lease' = [lease EXCEPT ![l] = [@ EXCEPT !.expiresAt = clock + Ttl(t)]]
  /\ UNCHANGED <<held, clock>>

Release(l, o) ==
  /\ l \in held
  /\ lease[l].owner = o
  /\ held' = held \ {l}
  /\ UNCHANGED <<lease, clock>>

\* forceRelease(), whoever owns it.
ForceRelease(l) ==
  /\ l \in held
  /\ held' = held \ {l}
  /\ UNCHANGED <<lease, clock>>

LeaseTick ==
  /\ clock < MaxClock
  /\ clock' = clock + 1
  /\ UNCHANGED <<lease, held>>

-----------------------------------------------------------------------------
LeaseInit ==
  /\ lease = <<>>
  /\ held = {}
  /\ clock = 0

LeaseCall ==
  \/ \E o \in Owners, s \in Scopes, m \in Modes, t \in Ttls : Acquire(o, s, m, t)
  \/ \E l \in Numbers, o \in Owners :
       Release(l, o) \/ \E t \in Ttls : Renew(l, o, t)
  \/ \E l \in Numbers : MeetExpired(l) \/ ForceRelease(l)
  \/ Reap

LeaseNext == LeaseCall \/ LeaseTick

LeaseSpec == LeaseInit /\ [][LeaseNext]_leaseVars

-----------------------------------------------------------------------------
(* Properties *)

\* The leases keep their types and only acquired ones are in the Map.
LeaseTypeOK ==
  /\ lease \in Seq(Lease)
  /\ held \subseteq DOMAIN lease
  /\ clock \in 0..MaxClock

\* acquire(): of two leases in the Map whose scopes overlap neither is
\* exclusive, through every order of acquire, renew and expiry.
ExclusiveIsAlone ==
  \A k, l \in held :
    k # l /\ ScopesOverlap(lease[k].scope, lease[l].scope)
      => lease[k].mode = "shared-read" /\ lease[l].mode = "shared-read"

\* "A lease gives one owner deterministic permission": permits() accepts the
\* owner of a live exclusive lease for everything the lease covers.
LeaseGrants ==
  \A l \in Live, c \in Capabilities :
    lease[l].mode = "exclusive" /\ Covers(l, lease[l].scope.device, c)
      => Permits(lease[l].owner, lease[l].scope.device, c, "exclusive")

\* "A crashed agent cannot hold a machine forever": no lease in the Map runs
\* further than maxTtlMs ahead, however it was acquired and renewed.
HoldIsBounded == \A l \in held : lease[l].expiresAt <= clock + MaxTtl

\* renew(): authority that lapsed does not come back under the same lease.
LapsedStaysLapsed ==
  [][\A l \in DOMAIN lease : l \notin Live => l \notin Live']_leaseVars
=============================================================================
