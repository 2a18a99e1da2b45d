-------------------------- MODULE RetentionHistory --------------------------
(***************************************************************************)
(* A target that lives for a long time: every run adds a snapshot newer    *)
(* than all others and then applies the retention plan to what is left of  *)
(* its history, as runTarget does after each promote.  A run whose         *)
(* retention is skipped (a tripwire, an error, a crash) or stops part way  *)
(* leaves some of the planned deletions for a later run.                   *)
(***************************************************************************)
EXTENDS Retention

VARIABLES
    taken,   \* every snapshot ever taken (ghost)
    archive  \* the snapshots still there

vars == <<taken, archive>>

Init == taken = {} /\ archive = {}

\* What a run may leave of S: the planned deletions go oldest first and stop at
\* the first error, and a run may not come to them at all.
Thinned(S) ==
    LET planned == Prune(S)
    IN  {S \ {m \in planned : m < n} : n \in S} \cup {S \ planned}

Run(n) ==
    /\ \A m \in taken : m < n
    /\ taken' = taken \cup {n}
    /\ archive' \in Thinned(archive \cup {n})

\* backupkit prune, without a new snapshot.  It goes on past a deletion that fails, and
\* may be killed between two.
PruneNow ==
    /\ \E gone \in SUBSET Prune(archive) : archive' = archive \ gone
    /\ UNCHANGED taken

Next == PruneNow \/ \E n \in Instant : Run(n)

Spec == Init /\ [][Next]_vars

-----------------------------------------------------------------------------
\* Applying the policy now gives the same archive as applying it for the first
\* time to the whole history: the plan does not depend on the pruning schedule.
PlanIsScheduleFree == Keep(archive) = Keep(taken)

\* What the policy promises in its own terms: of the newest Count[t] buckets in
\* which a snapshot was ever taken, the newest snapshot of each is still there.
NewestBuckets(t) ==
    LET all == {BucketOf[t][m] : m \in taken}
    IN  {b \in all : Cardinality({c \in all : c > b}) < Count[t]}
TiersCovered ==
    \A t \in Tier : \A b \in NewestBuckets(t) :
        \E n \in archive : /\ BucketOf[t][n] = b
                           /\ \A m \in taken : BucketOf[t][m] = b => m <= n
=============================================================================
