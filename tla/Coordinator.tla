---------------------------- MODULE Coordinator ----------------------------
(***************************************************************************)
(* The lease table of the fleet server (`struct Coordinator`): which       *)
(* shards are done and which are lent out, over the universe 0..Total-1.   *)
(* Each operation of the struct is an action on <<done, leases>>; the      *)
(* HTTP loop that calls them is in module Fleet.                           *)
(*                                                                         *)
(* The code stores the instant of each lease and compares its age with the *)
(* TTL.  Only the age matters, and only up to the TTL, so a lease is its   *)
(* age in ticks, saturating at LeaseTTL: an entry that old is an expired   *)
(* one lingering in the map.                                               *)
(***************************************************************************)
EXTENDS Integers, FiniteSets

CONSTANTS Total,      \* number of shards (size of the alphabet)
          LeaseTTL,   \* --lease-secs, in ticks
          Free        \* leases[s] when the map has no entry for s

ASSUME TotalAssumption == Total \in Nat \ {0}
ASSUME LeaseTTLAssumption == LeaseTTL \in Nat \ {0}
ASSUME FreeAssumption == Free \notin Nat

Shards == 0 .. Total - 1

VARIABLES done,    \* shards with a recorded result
          leases   \* shard -> age of its lease, or Free

LeaseTypeOK ==
    /\ done \in SUBSET Shards
    /\ leases \in [Shards -> 0 .. LeaseTTL \cup {Free}]

\* An unexpired lease.
Active(s) == leases[s] # Free /\ leases[s] < LeaseTTL

\* Mutant of Leasable: an expired lease still blocks its shard.
Leasable_NoExpiry == {s \in Shards : s \notin done /\ leases[s] = Free}

\* Mutant of Leasable: the scan goes one past the last shard.
Leasable_PastEnd == {s \in 0 .. Total : s \notin done /\ ~(s \in Shards /\ Active(s))}

\* What lease() may hand out.
Leasable == {s \in Shards : s \notin done /\ ~Active(s)}

\* Mutant of Rebuild: no rescan of the out directory.
Rebuild_Forget(found) ==
    /\ done' = {}
    /\ leases' = [s \in Shards |-> Free]

\* `Coordinator::new` followed by mark_done for every shard of `found`.
Rebuild(found) ==
    /\ done' = found
    /\ leases' = [s \in Shards |-> Free]

\* lease(): the lowest leasable shard is lent out now.
Lease(s) ==
    /\ s \in Leasable
    /\ \A t \in Leasable : s <= t
    /\ leases' = [leases EXCEPT ![s] = 0]
    /\ UNCHANGED done

\* complete(): the lease, whoever holds it, is cleared.
Complete(s) ==
    /\ leases' = [leases EXCEPT ![s] = Free]
    /\ done' = done \cup {s}

\* release(): clears the lease of a shard that is not done, whoever holds it.
Release(s) ==
    /\ leases' = IF s \in done THEN leases ELSE [leases EXCEPT ![s] = Free]
    /\ UNCHANGED done

\* Time passes: now.duration_since(t) grows for every lease in the map.
Age ==
    /\ \E s \in Shards : Active(s)
    /\ leases' = [s \in Shards |-> IF Active(s) THEN leases[s] + 1 ELSE leases[s]]
    /\ UNCHANGED done
=============================================================================
