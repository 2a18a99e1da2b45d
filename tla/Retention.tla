----------------------------- MODULE Retention -----------------------------
(***************************************************************************)
(* planRetention of src/src/retention/retention.ts: which snapshots of a   *)
(* listing a grandfather-father-son policy keeps.                          *)
(*                                                                         *)
(* A snapshot is the instant its name encodes.  A tier is a bucket         *)
(* function (hour, day, ISO week, month, year) with the number of buckets  *)
(* to keep.  The tier loop of the code walks the snapshots newest first    *)
(* with the set of buckets seen so far; at snapshot n that set is the      *)
(* buckets of the snapshots newer than n, which is how it is written here. *)
(***************************************************************************)
EXTENDS Integers, FiniteSets

CONSTANTS
    Instant,  \* the instants snapshots are named for
    Tier,     \* the configured tiers
    BucketOf, \* BucketOf[tier][n]: the bucket of an instant
    Count,    \* Count[tier]: rules.keepHourly, rules.keepDaily, ...
    KeepLast  \* rules.keepLast; 0 when absent

\* Buckets are calendar intervals: a later instant is in the same bucket or in
\* a later one.
ASSUME RetentionAssumption ==
    /\ Instant \subseteq Nat
    /\ KeepLast \in Nat
    /\ Count \in [Tier -> Nat]
    /\ BucketOf \in [Tier -> [Instant -> Nat]]
    /\ \A t \in Tier : \A a, b \in Instant :
           a <= b => BucketOf[t][a] <= BucketOf[t][b]

Newer(n, S) == {m \in S : m > n}

\* The buckets a tier has seen when its walk reaches n.
SeenBuckets(t, n, S) == {BucketOf[t][m] : m \in Newer(n, S)}

\* Mutant: the oldest of a bucket is kept.
ClaimedByTier_KeepsOldest(t, n, S) ==
    /\ Cardinality(SeenBuckets(t, n, S) \ {BucketOf[t][n]}) < Count[t]
    /\ \A m \in S : BucketOf[t][m] = BucketOf[t][n] => m >= n

ClaimedByTier(t, n, S) ==
    /\ Cardinality(SeenBuckets(t, n, S)) < Count[t]
    /\ BucketOf[t][n] \notin SeenBuckets(t, n, S)

\* Mutant: the snapshots after the first keepLast instead of the first.
ClaimedByLast_Tail(n, S) == Cardinality(Newer(n, S)) >= KeepLast

ClaimedByLast(n, S) == Cardinality(Newer(n, S)) < KeepLast

IsNewest(n, S) == Newer(n, S) = {}

\* RetentionPlan.keep and RetentionPlan.prune.
Keep(S) == {n \in S : \/ IsNewest(n, S)
                      \/ ClaimedByLast(n, S)
                      \/ \E t \in Tier : ClaimedByTier(t, n, S)}
Prune(S) == S \ Keep(S)
=============================================================================
