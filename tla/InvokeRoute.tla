------------------------------ MODULE InvokeRoute ------------------------------
(***************************************************************************)
(* The invoke route of the HTTP server in front of the OperationManager.   *)
(* A request for a physical output without a key is given one generated    *)
(* from its arguments.  When a later request finds the operation of such a *)
(* key failed, cancelled, rejected or timed out, the route removes the     *)
(* tombstone, and after the await of its dry run begins the call anew.     *)
(***************************************************************************)
EXTENDS OperationManager

CONSTANT Generated  \* keys the route generated; clients chose the others

ASSUME GeneratedAssumption == Generated \subseteq Keys

-----------------------------------------------------------------------------
\* Endings after which the same request may actuate again.
Retryable == {"failed", "cancelled", "rejected", "timed_out"}

\* Fault: a generated key is removed whatever its operation is doing.
ForgetAny(k) ==
  LET o == tombstone[k].op IN
  /\ alive
  /\ CallerTurn
  /\ k \in Generated
  /\ Hit(k)
  /\ slot[o] > 0
  /\ tombstone' = [tombstone EXCEPT ![k] = NoTombstone]
  /\ lru' = RankWithout(lru, k)
  /\ emits' = <<>>
  /\ UNCHANGED <<sequence, op, slot, insertions, evicted, waiters, told, alive,
                 now>>

\* The retry of a generated key whose operation ended badly: remove().
Forget(k) ==
  LET o == tombstone[k].op IN
  /\ alive
  /\ CallerTurn
  /\ k \in Generated
  /\ Hit(k)
  /\ slot[o] > 0
  /\ op[o].status \in Retryable
  /\ tombstone' = [tombstone EXCEPT ![k] = NoTombstone]
  /\ lru' = RankWithout(lru, k)
  /\ emits' = <<>>
  /\ UNCHANGED <<sequence, op, slot, insertions, evicted, waiters, told, alive,
                 now>>

RouteNext == Next \/ \E k \in Keys : Forget(k)

RouteSpec == Init /\ [][RouteNext]_vars

FairRouteSpec == RouteSpec /\ EventLoop

-----------------------------------------------------------------------------
(* Properties *)

\* begin() and the invoke route together: two operations begin with one key
\* only if the first one's tombstone overflowed, or its retention window had
\* passed, or the key was generated and the first one ended badly.
RetriesAreExplained ==
  \A a, b \in 1..sequence :
    a < b /\ op[a].key = op[b].key /\ op[a].key # NoKey
      => \/ a \in evicted
         \/ op[b].created - op[a].created > Retention
         \/ op[a].key \in Generated /\ op[a].status \in Retryable

\* updateUnder() patches whichever operation the key names now: while a key
\* has had one operation only, its tombstone tells how that operation ended,
\* so that a lookup after the Map forgot it still answers correctly.
TombstoneTellsTheEnd ==
  \A k \in Present :
    LET o == tombstone[k].op IN
    Terminal(o) /\ (\A p \in 1..sequence : op[p].key = k => p = o)
      => tombstone[k].status = op[o].status

\* The comment of the route: with a key on every physical output, "retries
\* after an agent pause / MCP wait timeout cannot double-actuate".  No two
\* runs of one key are in flight together.
NoDoubleActuation ==
  \A a, b \in 1..sequence :
    a # b /\ op[a].key = op[b].key /\ op[a].key # NoKey
      => ~(op[a].pc = "run" /\ op[b].pc = "run")
=============================================================================
