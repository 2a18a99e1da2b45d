--------------------------- MODULE TargetsProofs ----------------------------
(***************************************************************************)
(* Proofs about Targets: a configured target, whose snapshots are thinned  *)
(* by retention and restored from, or which is a mirror.  They hold for    *)
(* any tiers, counts, keepLast, buckets and number of snapshots, and for   *)
(* the mirror whatever MirrorProofs has them for: Targets has Mirror as    *)
(* the instance M, and MirrorProofs brings its own as P, which are the     *)
(* same definitions under two names.  What the runs take from the calendar *)
(* (due times, buckets, names) is proved of every instant and every        *)
(* schedule that the configuration admits.                                 *)
(***************************************************************************)
EXTENDS Targets, FiniteSetTheorems, WellFoundedInduction, TLAPS

P == INSTANCE MirrorProofs

-----------------------------------------------------------------------------
(***************************************************************************)
(* Finite sets of instants                                                 *)
(***************************************************************************)
\* Every non-empty finite set of numbers has a greatest one: the one with the
\* smallest set of others above it.
LEMMA GreatestExists ==
  ASSUME NEW S \in SUBSET Nat, IsFiniteSet(S), S # {}
  PROVE  \E m \in S : \A x \in S : x <= m
  <1> DEFINE Above(m) == {y \in S : y > m}
             Sets == {Above(m) : m \in S}
  <1>1. Sets \subseteq FiniteSubsetsOf(S) /\ Sets # {}
    <2>1. \A m \in S : Above(m) \in SUBSET S /\ IsFiniteSet(Above(m))
      BY FS_Subset
    <2> QED
      BY <2>1 DEF FiniteSubsetsOf
  <1>2. PICK A \in Sets : \A B \in Sets : ~(<<B, A>> \in StrictSubsetOrdering(S))
    <2> HIDE DEF Sets
    <2> QED
      BY <1>1, FS_StrictSubsetOrderingWellFounded, WFMin
  <1>3. PICK m \in S : A = Above(m)
    OBVIOUS
  <1>4. ASSUME NEW x \in S, x > m PROVE FALSE
    <2>1. Above(x) \subseteq Above(m) /\ x \in Above(m) /\ x \notin Above(x)
      <3>1. \A y \in S : y > x => y > m
        BY <1>4
      <3>2. ~(x > x)
        OBVIOUS
      <3> QED
        BY <1>4, <3>1, <3>2
    <2>2. <<Above(x), Above(m)>> \in StrictSubsetOrdering(S)
      BY <2>1 DEF StrictSubsetOrdering
    <2> QED
      BY <1>2, <1>3, <2>2
  <1> QED
    BY <1>4

\* The images of a finite set of instants under a tier's buckets are finite.
LEMMA BucketsFinite ==
  ASSUME NEW S \in SUBSET Instant, IsFiniteSet(S), NEW t \in Tier, NEW n \in S
  PROVE  /\ IsFiniteSet(SeenBuckets(t, n, S))
         /\ IsFiniteSet({BucketOf[t][m] : m \in S})
  <1>1. IsFiniteSet({BucketOf[t][m] : m \in S})
    <2> DEFINE f == [m \in S |-> BucketOf[t][m]]
               T == {BucketOf[t][m] : m \in S}
    <2>1. f \in Surjection(S, T)
      BY DEF Surjection
    <2> HIDE DEF f, T
    <2>2. IsFiniteSet(T)
      BY <2>1, FS_Surjection
    <2> QED
      BY <2>2 DEF T
  <1>2. SeenBuckets(t, n, S) \in SUBSET {BucketOf[t][m] : m \in S}
    BY DEF SeenBuckets, Newer
  <1> QED
    BY <1>1, <1>2, FS_Subset

\* Of two finite sets the larger has no fewer elements.
LEMMA Counts ==
  ASSUME NEW B, IsFiniteSet(B), NEW A \in SUBSET B
  PROVE  /\ IsFiniteSet(A)
         /\ Cardinality(A) \in Nat /\ Cardinality(B) \in Nat
         /\ Cardinality(A) <= Cardinality(B)
  BY FS_Subset, FS_CardinalityType

-----------------------------------------------------------------------------
(***************************************************************************)
(* The plan of a part of a listing                                         *)
(***************************************************************************)
\* What is kept of a listing is kept of every part of it that still has it.
LEMMA KeptOfPart ==
  ASSUME NEW S \in SUBSET Instant, IsFiniteSet(S), NEW A \in SUBSET S
  PROVE  A \cap Keep(S) \subseteq Keep(A)
  <1> USE RetentionAssumption
  <1> SUFFICES ASSUME NEW n \in A, n \in Keep(S) PROVE n \in Keep(A)
    OBVIOUS
  <1>1. Newer(n, A) \in SUBSET Newer(n, S) /\ Newer(n, S) \in SUBSET S
    BY DEF Newer
  <1>2. IsFiniteSet(Newer(n, S))
    BY <1>1, FS_Subset
  <1>3. CASE IsNewest(n, S)
    BY <1>1, <1>3 DEF IsNewest, Keep
  <1>4. CASE ClaimedByLast(n, S)
    BY <1>1, <1>2, <1>4, Counts DEF ClaimedByLast, Keep
  <1>5. ASSUME NEW t \in Tier, ClaimedByTier(t, n, S) PROVE n \in Keep(A)
    <2>1. SeenBuckets(t, n, A) \in SUBSET SeenBuckets(t, n, S)
      BY <1>1 DEF SeenBuckets
    <2>2. IsFiniteSet(SeenBuckets(t, n, S))
      BY BucketsFinite
    <2>3. Cardinality(SeenBuckets(t, n, A)) < Count[t]
      BY <1>5, <2>1, <2>2, Counts DEF ClaimedByTier
    <2> QED
      BY <1>5, <2>1, <2>3 DEF ClaimedByTier, Keep
  <1> QED
    BY <1>3, <1>4, <1>5 DEF Keep

\* And nothing else is: a part of a listing that has all that the plan keeps of
\* it has the same plan.  What the part lacks was not kept, so that the newest
\* snapshot it lacks would have been claimed like the one in question.
LEMMA PlanOfPart ==
  ASSUME NEW S \in SUBSET Instant, IsFiniteSet(S), NEW A \in SUBSET S, Keep(S) \subseteq A
  PROVE  Keep(A) = Keep(S)
  <1> USE RetentionAssumption
  <1>1. Keep(S) \subseteq Keep(A)
    BY KeptOfPart
  <1>2. ASSUME NEW n \in Keep(A) PROVE n \in Keep(S)
    <2>0. n \in A /\ n \in S
      BY DEF Keep
    <2>n. \A x \in S : x \in Nat
      OBVIOUS
    <2>1. CASE IsNewest(n, A)
      <3>1. SUFFICES ASSUME Newer(n, S) # {} PROVE FALSE
        BY <2>0 DEF IsNewest, Keep
      <3>2. PICK m \in S : \A x \in S : x <= m
        BY <2>0, GreatestExists
      <3>3. Newer(m, S) = {}
        <4>1. \A x \in S : ~(x > m)
          BY <2>n, <3>2
        <4> QED
          BY <4>1 DEF Newer
      <3>4. m \in Keep(S)
        BY <3>3 DEF IsNewest, Keep
      <3>5. m > n
        <4>1. PICK y \in S : y > n
          BY <3>1 DEF Newer
        <4>2. y <= m
          BY <3>2
        <4> QED
          BY <2>n, <2>0, <4>1, <4>2
      <3>6. m \in Newer(n, A)
        BY <3>4, <3>5 DEF Newer
      <3> QED
        BY <2>1, <3>6 DEF IsNewest
    <2>2. CASE ClaimedByLast(n, A)
      <3> DEFINE Lost == Newer(n, S) \ A
      <3>1. CASE Lost = {}
        <4>1. Newer(n, S) = Newer(n, A)
          BY <3>1 DEF Newer
        <4> QED
          BY <2>0, <2>2, <4>1 DEF ClaimedByLast, Keep
      <3>2. CASE Lost # {}
        <4>1. Lost \in SUBSET S /\ IsFiniteSet(Lost) /\ Lost \in SUBSET Nat
          <5>1. Lost \in SUBSET S
            BY DEF Newer
          <5> QED
            BY <2>n, <5>1, FS_Subset
        <4>2. PICK x \in Lost : \A y \in Lost : y <= x
          <5> HIDE DEF Lost
          <5> QED
            BY <3>2, <4>1, GreatestExists
        <4>3. x \in S /\ x \notin A /\ x > n
          BY DEF Newer
        <4>4. Newer(x, S) \in SUBSET Newer(n, A)
          <5>1. ASSUME NEW y \in S, y > x PROVE y \in Newer(n, A)
            <6>1. y > n
              BY <2>0, <2>n, <4>3, <5>1
            <6>2. y \notin Lost
              BY <2>n, <4>2, <4>3, <5>1
            <6> QED
              BY <6>1, <6>2 DEF Newer
          <5> QED
            BY <5>1 DEF Newer
        <4>5. IsFiniteSet(Newer(n, A))
          <5>1. Newer(n, A) \in SUBSET S
            BY DEF Newer
          <5> QED
            BY <5>1, FS_Subset
        <4>6. ClaimedByLast(x, S)
          BY <2>2, <4>4, <4>5, Counts DEF ClaimedByLast
        <4> QED
          BY <4>3, <4>6 DEF Keep
      <3> QED
        BY <3>1, <3>2
    <2>3. ASSUME NEW t \in Tier, ClaimedByTier(t, n, A) PROVE n \in Keep(S)
      <3> DEFINE Missed == {x \in Newer(n, S) : BucketOf[t][x] \notin SeenBuckets(t, n, A)}
      <3>1. CASE Missed = {}
        <4>1. SeenBuckets(t, n, S) = SeenBuckets(t, n, A)
          BY <3>1 DEF SeenBuckets, Newer
        <4> QED
          BY <2>0, <2>3, <4>1 DEF ClaimedByTier, Keep
      <3>2. CASE Missed # {}
        <4>1. Missed \in SUBSET S /\ IsFiniteSet(Missed) /\ Missed \in SUBSET Nat
          <5>1. Missed \in SUBSET S
            BY DEF Newer
          <5> QED
            BY <2>n, <5>1, FS_Subset
        <4>2. PICK x \in Missed : \A y \in Missed : y <= x
          <5> HIDE DEF Missed
          <5> QED
            BY <3>2, <4>1, GreatestExists
        <4>3. x \in S /\ x > n /\ BucketOf[t][x] \notin SeenBuckets(t, n, A)
          BY DEF Newer
        <4>4. SeenBuckets(t, x, S) \in SUBSET SeenBuckets(t, n, A)
          <5>1. ASSUME NEW y \in S, y > x PROVE BucketOf[t][y] \in SeenBuckets(t, n, A)
            <6>1. y > n
              BY <2>0, <2>n, <4>3, <5>1
            <6>2. y \notin Missed
              BY <2>n, <4>2, <4>3, <5>1
            <6> QED
              BY <6>1, <6>2 DEF Newer
          <5> QED
            BY <5>1 DEF SeenBuckets, Newer
        <4>5. IsFiniteSet(SeenBuckets(t, n, A))
          <5>1. IsFiniteSet(A)
            BY FS_Subset
          <5> QED
            BY <2>0, <5>1, BucketsFinite
        <4>6. ClaimedByTier(t, x, S)
          BY <2>3, <4>3, <4>4, <4>5, Counts DEF ClaimedByTier
        <4>7. x \in A
          BY <4>3, <4>6 DEF Keep
        <4> QED
          BY <4>3, <4>7 DEF SeenBuckets, Newer
      <3> QED
        BY <3>1, <3>2
    <2> QED
      BY <2>1, <2>2, <2>3 DEF Keep
  <1> QED
    BY <1>1, <1>2

\* A snapshot newer than all others claims its place at the expense of older
\* ones only: what is kept with it was kept without it.
LEMMA KeptWithNewer ==
  ASSUME NEW S \in SUBSET Instant, IsFiniteSet(S), NEW n \in Instant
  PROVE  Keep(S \cup {n}) \subseteq Keep(S) \cup {n}
  <1>1. S \cup {n} \in SUBSET Instant /\ IsFiniteSet(S \cup {n})
    BY FS_AddElement
  <1>2. S \cap Keep(S \cup {n}) \subseteq Keep(S)
    BY <1>1, KeptOfPart
  <1> QED
    BY <1>2 DEF Keep

-----------------------------------------------------------------------------
(***************************************************************************)
(* The life of a target                                                    *)
(***************************************************************************)
\* The archive is a part of what was taken, and has all of it that one
\* application of the policy would keep.
HistoryInv ==
    /\ taken \in SUBSET Instant
    /\ IsFiniteSet(taken)
    /\ archive \subseteq taken
    /\ Keep(taken) \subseteq archive

LEMMA InitHistory == Init => HistoryInv
  BY FS_EmptySet DEF Init, HistoryInv, Keep

\* Whatever a run leaves of a listing has all that the plan keeps of it.
LEMMA ThinnedKeeps ==
  ASSUME NEW S, NEW T \in Thinned(S)
  PROVE  Keep(S) \subseteq T /\ T \subseteq S
  BY DEF Thinned, Prune, Keep

LEMMA NextHistory == HistoryInv /\ [Next]_vars => HistoryInv'
  <1> SUFFICES ASSUME HistoryInv, [Next]_vars PROVE HistoryInv'
    OBVIOUS
  <1>1. ASSUME NEW n \in Instant, Run(n) PROVE HistoryInv'
    <2>1. taken' \in SUBSET Instant /\ IsFiniteSet(taken')
      BY <1>1, FS_AddElement DEF Run, HistoryInv
    <2>2. Keep(taken') \subseteq archive \cup {n} /\ archive \cup {n} \in SUBSET taken'
      BY <1>1, KeptWithNewer DEF Run, HistoryInv
    <2>3. Keep(archive \cup {n}) = Keep(taken')
      BY <2>1, <2>2, PlanOfPart
    <2>4. Keep(archive \cup {n}) \subseteq archive' /\ archive' \subseteq archive \cup {n}
      BY <1>1, ThinnedKeeps DEF Run
    <2> QED
      BY <2>1, <2>2, <2>3, <2>4 DEF HistoryInv
  <1>2. CASE PruneNow
    <2>1. Keep(archive) = Keep(taken)
      BY PlanOfPart DEF HistoryInv
    <2>2. Keep(archive) \subseteq archive' /\ archive' \subseteq archive
      BY <1>2 DEF PruneNow, Prune, Keep
    <2> QED
      BY <1>2, <2>1, <2>2 DEF PruneNow, HistoryInv
  <1>3. CASE UNCHANGED vars
    BY <1>3 DEF vars, HistoryInv
  <1> QED
    BY <1>1, <1>2, <1>3 DEF Next

LEMMA HistoryHolds == Spec => []HistoryInv
  BY InitHistory, NextHistory, PTL DEF Spec

\* Retention applied after every run, some of the times, or part of the way,
\* always leaves a history whose plan is that of the full one: planRetention
\* never deletes what a later plan would have needed.
THEOREM ScheduleFree == Spec => []PlanIsScheduleFree
  <1>1. HistoryInv => PlanIsScheduleFree
    BY PlanOfPart DEF HistoryInv, PlanIsScheduleFree
  <1> QED
    BY <1>1, HistoryHolds, PTL

\* The newest snapshot of a tier's newest bucket is kept.
LEMMA TierKeeps ==
  ASSUME HistoryInv, NEW t \in Tier, NEW b \in NewestBuckets(t)
  PROVE  \E n \in archive : /\ BucketOf[t][n] = b
                            /\ \A m \in taken : BucketOf[t][m] = b => m <= n
  <1> USE RetentionAssumption
  <1> DEFINE all == {BucketOf[t][m] : m \in taken}
             Same == {m \in taken : BucketOf[t][m] = b}
             later == {c \in all : c > b}
  <1>1. b \in all /\ Cardinality(later) < Count[t]
    BY DEF NewestBuckets
  <1>2. taken \in SUBSET Instant /\ IsFiniteSet(taken) /\ \A m \in taken : m \in Nat
    BY DEF HistoryInv
  <1>3. \A m \in taken : BucketOf[t][m] \in Nat
    BY <1>2
  <1>4. Same \in SUBSET Nat /\ IsFiniteSet(Same) /\ Same # {}
    <2>1. Same \in SUBSET taken
      OBVIOUS
    <2> QED
      BY <1>1, <1>2, <2>1, FS_Subset
  <1>5. PICK n \in Same : \A m \in Same : m <= n
    <2> HIDE DEF Same
    <2> QED
      BY <1>4, GreatestExists
  <1>6. n \in taken /\ BucketOf[t][n] = b
    OBVIOUS
  <1>7. IsFiniteSet(later)
    <2>1. IsFiniteSet(all)
      BY <1>2, <1>6, BucketsFinite
    <2>2. later \in SUBSET all
      OBVIOUS
    <2> QED
      BY <2>1, <2>2, FS_Subset
  <1>8. ASSUME NEW m \in taken, m > n PROVE BucketOf[t][m] > b
    <2>1. m \notin Same
      BY <1>2, <1>5, <1>6, <1>8
    <2>2. BucketOf[t][n] <= BucketOf[t][m]
      BY <1>2, <1>6, <1>8
    <2> QED
      BY <1>3, <1>6, <2>1, <2>2
  <1>9. SeenBuckets(t, n, taken) \in SUBSET later /\ b \notin SeenBuckets(t, n, taken)
    <2>1. b \in Nat
      BY <1>3, <1>6
    <2> QED
      BY <1>8, <2>1 DEF SeenBuckets, Newer
  <1>10. Cardinality(SeenBuckets(t, n, taken)) < Count[t]
    <2> HIDE DEF later
    <2> QED
      BY <1>1, <1>7, <1>9, Counts
  <1>11. n \in Keep(taken)
    BY <1>6, <1>9, <1>10 DEF ClaimedByTier, Keep
  <1> QED
    BY <1>5, <1>6, <1>11 DEF HistoryInv

\* The policy in its own terms: of each of the newest Count[t] buckets of a tier
\* in which a snapshot was ever taken, the newest snapshot is in the archive.
THEOREM EveryTierCovered == Spec => []TiersCovered
  <1>1. HistoryInv => TiersCovered
    BY TierKeeps DEF TiersCovered
  <1> QED
    BY <1>1, HistoryHolds, PTL

-----------------------------------------------------------------------------
(***************************************************************************)
(* Restores                                                                *)
(***************************************************************************)
\* A copy that ended with code 0 and is not whole is of a snapshot that is gone, so that
\* the checksum pass does not find it any more.
Lost == ~StillThere

RestoreInv ==
    /\ restore \in [at : {"idle", "output", "copy", "copying", "verify", "verifying",
                          "done", "failed"},
                    of : SUBSET Instant, check : BOOLEAN, output : {"none", "part", "whole"}]
    /\ restore.of \subseteq taken
    /\ restore.at = "verify" => restore.output = "whole" \/ Lost
    /\ restore.at = "verifying" => restore.output = "whole"
    /\ VerifiedIsWhole

LEMMA InitRestore == RestoreInit => RestoreInv
  BY DEF RestoreInit, RestoreInv, NoRestore, VerifiedIsWhole

\* A snapshot that is gone does not come back: no run takes its name again.
LEMMA GoneForGood ==
  ASSUME HistoryInv, [Next]_vars, restore' = restore, restore.of \subseteq taken, Lost
  PROVE  Lost' /\ restore.of \subseteq taken'
  <1>1. PICK m \in restore.of : m \in taken /\ m \notin archive /\ m \in Nat
    BY RetentionAssumption DEF Lost, StillThere, HistoryInv
  <1>2. ASSUME NEW n \in Instant, Run(n) PROVE m \notin archive' /\ taken \subseteq taken'
    <2>1. n \in Nat /\ m < n
      BY <1>1, <1>2, RetentionAssumption DEF Run
    <2>2. m # n
      BY <1>1, <2>1
    <2> QED
      BY <1>1, <1>2, <2>2, ThinnedKeeps DEF Run
  <1>3. PruneNow => m \notin archive' /\ taken' = taken
    BY <1>1 DEF PruneNow
  <1>4. UNCHANGED vars => m \notin archive' /\ taken' = taken
    BY <1>1 DEF vars
  <1> QED
    BY <1>1, <1>2, <1>3, <1>4 DEF Next, Lost, StillThere

LEMMA TakenGrows ==
  ASSUME HistoryInv, [Next]_vars PROVE taken \subseteq taken'
  BY DEF Next, Run, PruneNow, vars

LEMMA NextRestore == HistoryInv /\ RestoreInv /\ [RestoreNext]_restoreVars => RestoreInv'
  <1> SUFFICES ASSUME HistoryInv, RestoreInv, [RestoreNext]_restoreVars PROVE RestoreInv'
    OBVIOUS
  <1> USE DEF RestoreInv, VerifiedIsWhole
  <1>1. CASE Next /\ UNCHANGED <<restore, restores>>
    BY <1>1, GoneForGood, TakenGrows
  <1>2. ASSUME NEW asked \in SUBSET Instant, NEW check \in BOOLEAN, Choose(asked, check)
        PROVE  RestoreInv'
    <2> DEFINE found == IF asked = {} THEN {n \in archive : IsNewest(n, archive)}
                        ELSE asked \cap archive
    <2>1. restore' = [NoRestore EXCEPT !.at = IF found = {} THEN "failed" ELSE "output",
                                       !.of = found, !.check = check]
          /\ UNCHANGED vars
      BY <1>2 DEF Choose
    <2>2. found \in SUBSET Instant /\ found \subseteq taken
      BY DEF HistoryInv
    <2> HIDE DEF found
    <2> QED
      BY <2>1, <2>2 DEF NoRestore, vars
  <1>3. ASSUME NEW point \in {"copy", "copying", "failed"}, Goes(point), UNCHANGED vars
        PROVE  RestoreInv'
    BY <1>3 DEF Goes, vars
  <1>4. CASE Output \/ CopyStart
    BY <1>3, <1>4 DEF Output, CopyStart, Start
  <1>5. CASE Copy
    <2>1. PICK end \in CopyEnds :
              restore' = [restore EXCEPT
                  !.output = end.output,
                  !.at = IF end.code # 0 THEN "failed"
                         ELSE IF restore.check THEN "verify" ELSE "done"]
      BY <1>5, Zenon DEF Copy, CopyAccepts
    <2>2. UNCHANGED vars
      BY <1>5 DEF Copy
    <2>3. end.output \in {"part", "whole"}
          /\ (end.code = 0 => end.output = "whole" \/ Lost)
      BY DEF CopyEnds, Lost
    <2>4. CASE end.code # 0
      BY <2>1, <2>2, <2>3, <2>4 DEF vars
    <2>5. CASE end.code = 0
      <3>1. restore'.output = "whole" \/ Lost'
        BY <2>1, <2>2, <2>3, <2>5 DEF Lost, StillThere, vars
      <3>2. restore' = [restore EXCEPT
                  !.output = end.output,
                  !.at = IF restore.check THEN "verify" ELSE "done"]
        BY <2>1, <2>5
      <3> QED
        BY <2>2, <2>3, <3>1, <3>2 DEF vars
    <2> QED
      BY <2>4, <2>5
  <1>6. CASE VerifyStart
    <2>1. CASE StillThere
      <3>1. restore.output = "whole"
        BY <1>6, <2>1 DEF VerifyStart, Lost
      <3>2. Goes("verifying") /\ UNCHANGED vars
        BY <1>6, <2>1 DEF VerifyStart, Start, Opens
      <3> QED
        BY <3>1, <3>2 DEF Goes, vars
    <2>2. CASE ~StillThere
      BY <1>3, <1>6, <2>2 DEF VerifyStart, Start, Opens
    <2> QED
      BY <2>1, <2>2
  <1>7. CASE VerifyCopy
    <2>1. restore.output = "whole" /\ UNCHANGED vars
      BY <1>7 DEF VerifyCopy
    <2>2. CASE Goes("done")
      BY <2>1, <2>2 DEF Goes, vars
    <2> QED
      BY <1>3, <1>7, <2>1, <2>2 DEF VerifyCopy
  <1>8. CASE UNCHANGED restoreVars
    BY <1>8 DEF restoreVars, vars, Lost, StillThere
  <1> QED
    BY <1>1, <1>2, <1>4, <1>5, <1>6, <1>7, <1>8 DEF RestoreNext

\* Restores and the mirror do not move a snapshot target's history.
LEMMA HistoryPart == TargetsSpec => Spec
  <1>1. TargetsInit => Init
    BY DEF TargetsInit, RestoreInit
  <1>2. [TargetsNext]_allVars => [Next]_vars
    BY DEF TargetsNext, allVars, restoreVars, vars, RestoreNext, Choose, Output,
           CopyStart, Copy, VerifyStart, VerifyCopy
  <1> QED
    BY <1>1, <1>2, PTL DEF TargetsSpec, Spec

\* A restore with --verify that reports success has copied the whole of the snapshot it
\* chose, although nothing keeps retention or a prune from removing that snapshot half
\* way through: of what is removed nothing is left under its name to be compared with,
\* and the code of the copy is not forgotten.
THEOREM VerifiedAreWhole == TargetsSpec => []VerifiedIsWhole
  <1>1. TargetsInit => RestoreInv
    BY InitRestore DEF TargetsInit
  <1>2. HistoryInv /\ RestoreInv /\ [TargetsNext]_allVars => RestoreInv'
    <2>1. [TargetsNext]_allVars => [RestoreNext]_restoreVars
      BY DEF TargetsNext, allVars, restoreVars
    <2> QED
      BY <2>1, NextRestore
  <1>3. RestoreInv => VerifiedIsWhole
    BY DEF RestoreInv
  <1> QED
    BY <1>1, <1>2, <1>3, HistoryPart, HistoryHolds, PTL DEF TargetsSpec

-----------------------------------------------------------------------------
(***************************************************************************)
(* Mirror targets                                                          *)
(***************************************************************************)
LEMMA SameStart ==
  /\ M!Init = P!Init
  /\ M!vars = P!vars
  /\ M!Parameters = P!Parameters
  BY DEF M!Init, P!Init, M!Idle, P!Idle, M!None, P!None, M!vars, P!vars, M!Parameters,
         P!Parameters

LEMMA SameNext == M!Next = P!Next
  <1>1. \A r, force, dry : M!Begin(r, force, dry) = P!Begin(r, force, dry)
    BY DEF M!Begin, P!Begin, M!world, P!world, M!Set, P!Set, M!At, P!At, M!Idle,
       P!Idle, M!None, P!None
  <1>2. \A r : M!Dedup(r) = P!Dedup(r)
    BY DEF M!Dedup, P!Dedup, M!world, P!world, M!Set, P!Set, M!At, P!At, M!Ends,
       P!Ends, M!Idle, P!Idle, M!None, P!None, M!LastRunAt, P!LastRunAt, M!Newest,
       P!Newest
  <1>3. \A r : M!Estimate(r) = P!Estimate(r)
    BY DEF M!Estimate, P!Estimate, M!world, P!world, M!Set, P!Set, M!At, P!At
  <1>4. \A r : M!EstimateFails(r) = P!EstimateFails(r)
    BY DEF M!EstimateFails, P!EstimateFails, M!world, P!world, M!Set, P!Set, M!At,
       P!At, M!Ends, P!Ends, M!Idle, P!Idle, M!None, P!None
  <1>5. \A r : M!Guard(r) = P!Guard(r)
    BY DEF M!Guard, P!Guard, M!world, P!world, M!Set, P!Set, M!At, P!At, M!Ends,
       P!Ends, M!Collapsed, P!Collapsed, M!PreviousFiles, P!PreviousFiles, M!Trusted,
       P!Trusted, M!Newest, P!Newest, M!Idle, P!Idle, M!None, P!None
  <1>6. \A r : M!Transfer(r) = P!Transfer(r)
    BY DEF M!Transfer, P!Transfer, M!world, P!world, M!Set, P!Set, M!At, P!At, M!Ends,
       P!Ends, M!Idle, P!Idle, M!None, P!None
  <1>7. \A r : M!TransferFails(r) = P!TransferFails(r)
    BY DEF M!TransferFails, P!TransferFails, M!world, P!world, M!Set, P!Set, M!At,
       P!At, M!Ends, P!Ends, M!Idle, P!Idle, M!None, P!None, M!Between, P!Between
  <1>8. \A r : M!VerifyPass(r) = P!VerifyPass(r)
    BY DEF M!VerifyPass, P!VerifyPass, M!world, P!world, M!Set, P!Set, M!At, P!At,
       M!Ends, P!Ends, M!Idle, P!Idle, M!None, P!None
  <1>9. \A r : M!Stop(r) = P!Stop(r)
    BY DEF M!Stop, P!Stop, M!world, P!world, M!Set, P!Set, M!At, P!At, M!Ends, P!Ends,
       M!Idle, P!Idle, M!None, P!None, M!Between, P!Between
  <1>10. \A r : M!Kill(r) = P!Kill(r)
    BY DEF M!Kill, P!Kill, M!world, P!world, M!Set, P!Set, M!At, P!At, M!Idle, P!Idle,
       M!None, P!None, M!Between, P!Between
  <1>11. \A r : M!Record(r) = P!Record(r)
    <2>1. M!None = P!None /\ M!Idle = P!Idle
      BY DEF M!None, P!None, M!Idle, P!Idle
    <2>0. \A S : M!Cardinality(S) = P!Cardinality(S)
      BY DEF M!Cardinality, P!Cardinality
    <2>2. \A x : M!Written(x) = P!Written(x)
      BY <2>0 DEF M!Written, P!Written
    <2>3. \A a, b : M!Least(a, b) = P!Least(a, b)
      BY <2>1 DEF M!Least, P!Least
    <2> QED
      BY <2>1, <2>2, <2>3 DEF M!Record, P!Record, M!At, P!At, M!Set, P!Set, M!world, P!world
  <1>12. M!Tick = P!Tick /\ \A f : M!SourceChanges(f) = P!SourceChanges(f)
    BY DEF M!SourceChanges, P!SourceChanges, M!Tick, P!Tick
  <1> QED
    BY <1>1, <1>2, <1>3, <1>4, <1>5, <1>6, <1>7, <1>8, <1>9, <1>10, <1>11, <1>12 DEF
       M!Next, P!Next, M!Step, P!Step

\* A snapshot target does not move the mirror's state.
LEMMA MirrorPart == TargetsSpec => P!Spec
  <1>1. TargetsInit => P!Init
    BY SameStart DEF TargetsInit
  <1>2. [TargetsNext]_allVars => [P!Next]_(P!vars)
    BY SameNext DEF TargetsNext, allVars, mirrorVars, P!vars
  <1> QED
    BY <1>1, <1>2, PTL DEF TargetsSpec, P!Spec

\* The collapse guard of runMirror, in a target of either mode: a mirror loses more than
\* half of a trusted baseline only by force or by a source that moved after its estimate.
THEOREM MirrorIsGuarded == TargetsSpec => LossNeedsForce
  <1>1. P!Parameters
    BY MirrorAssumption, SameStart
  <1>2. P!Spec => P!LossNeedsForce
    BY <1>1, P!GuardIsNotDisarmed
  <1> DEFINE
        Holds == dst' < dst =>
                    \E r \in Runner :
                        /\ P!At(r, "transfer")
                        /\ runner[r].force \/ runner[r].moved \/ 2 * dst' >= runner[r].bar
        Promise == dst' < dst =>
                    \E r \in Runner :
                        /\ M!At(r, "transfer")
                        /\ runner[r].force \/ runner[r].moved \/ 2 * dst' >= runner[r].bar
  <1>3. [Holds]_(P!vars) => [Promise]_(M!vars)
    BY DEF M!At, P!At, M!vars, P!vars
  <1>4. P!LossNeedsForce => [][Holds]_(P!vars)
    BY DEF P!LossNeedsForce
  <1>5. [][Promise]_(M!vars) => LossNeedsForce
    BY DEF LossNeedsForce, M!LossNeedsForce
  <1> HIDE DEF Holds, Promise
  <1> QED
    BY <1>2, <1>3, <1>4, <1>5, MirrorPart, PTL

-----------------------------------------------------------------------------
(***************************************************************************)
(* Whole quotients                                                         *)
(***************************************************************************)
\* A quotient is a number, and its multiple leaves less than the divisor.
LEMMA Floor ==
  ASSUME NEW c \in Nat \ {0}, NEW n \in Nat
  PROVE  /\ n \div c \in Nat
         /\ c * (n \div c) <= n /\ n < c * (n \div c) + c
  OBVIOUS

\* Multiples of a number are in the order of their factors, with the number between.
LEMMA Product ==
  ASSUME NEW c \in Nat \ {0}, NEW a \in Nat, NEW b \in Nat
  PROVE  /\ c * a \in Nat
         /\ a < b => c * a + c <= c * b
  <1>1. c * a \in Nat
    OBVIOUS
  <1>2. ASSUME a < b PROVE c * a + c <= c * b
    <2> DEFINE k == b - a - 1
    <2>1. k \in Nat /\ b = a + 1 + k
      BY <1>2
    <2>2. c * k \in Nat
      BY <2>1
    <2> HIDE DEF k
    <2>3. c * b = c * a + c + c * k
      BY <2>1
    <2> QED
      BY <1>1, <2>2, <2>3
  <1> QED
    BY <1>1, <1>2

\* The quotient is where the multiples of the divisor leave off.
LEMMA QuotientIs ==
  ASSUME NEW c \in Nat \ {0}, NEW n \in Nat, NEW q \in Nat, c * q <= n, n < c * q + c
  PROVE  n \div c = q
  <1> DEFINE p == n \div c
  <1>1. p \in Nat /\ c * p <= n /\ n < c * p + c
    BY Floor
  <1> HIDE DEF p
  <1>2. c * p \in Nat /\ c * q \in Nat
    BY <1>1
  <1>3. p < q => c * p + c <= c * q
    BY <1>1, Product
  <1>4. q < p => c * q + c <= c * p
    BY <1>1, Product
  <1>5. ~(p < q) /\ ~(q < p)
    BY <1>1, <1>2, <1>3, <1>4
  <1>6. p = q
    BY <1>1, <1>5
  <1> QED
    BY <1>6 DEF p

\* Quotients are in the order of what is divided.
LEMMA QuotientGrows ==
  ASSUME NEW c \in Nat \ {0}, NEW a \in Nat, NEW b \in Nat, a <= b
  PROVE  a \div c <= b \div c
  <1> DEFINE p == a \div c
             q == b \div c
  <1>1. p \in Nat /\ c * p <= a
    BY Floor
  <1>2. q \in Nat /\ b < c * q + c
    BY Floor
  <1> HIDE DEF p, q
  <1>3. q < p => c * q + c <= c * p
    BY <1>1, <1>2, Product
  <1>4. c * p \in Nat /\ c * q \in Nat
    BY <1>1, <1>2
  <1>5. ~(q < p)
    BY <1>1, <1>2, <1>3, <1>4
  <1>6. p <= q
    BY <1>1, <1>2, <1>5
  <1> QED
    BY <1>6 DEF p, q

\* A multiple divides evenly.
LEMMA QuotientOfMultiple ==
  ASSUME NEW c \in Nat \ {0}, NEW i \in Nat
  PROVE  i * c \in Nat /\ (i * c) \div c = i
  <1>1. i * c \in Nat /\ c * i = i * c
    OBVIOUS
  <1> QED
    BY <1>1, QuotientIs

-----------------------------------------------------------------------------
(***************************************************************************)
(* The calendar: years, months and days                                    *)
(***************************************************************************)
\* A year has 365 days or, a leap year, 366.
LEMMA Leap ==
  ASSUME NEW y \in Nat, y >= 1970
  PROVE  NewYear(y + 1) = NewYear(y) + (IF IsLeap(y) THEN 366 ELSE 365)
  BY DEF NewYear, IsLeap

\* Where the first of January lies: the range in which YearOf looks for a year.
LEMMA NewYears ==
  ASSUME NEW y \in Nat, y >= 1970
  PROVE  /\ NewYear(y) \in Nat
         /\ 365 * (y - 1970) <= NewYear(y)
         /\ NewYear(y + 1) <= 366 * (y - 1969)
  BY DEF NewYear

\* Years follow each other.
LEMMA NewYearsGrow ==
  ASSUME NEW y \in Nat, NEW z \in Nat, 1970 <= y, y < z
  PROVE  NewYear(y + 1) <= NewYear(z)
  BY DEF NewYear

\* The year of a day is the one that has begun and not ended.
LEMMA YearIs ==
  ASSUME NEW d \in Nat, NEW y \in Nat, 1970 <= y, NewYear(y) <= d, d < NewYear(y + 1)
  PROVE  YearOf(d) = y
  <1> DEFINE S == (1970 + d \div 366)..(1970 + d \div 365)
  <1>1. y \in S
    <2>1. 365 * (y - 1970) <= d /\ d < 366 * (y - 1969)
      <3> HIDE DEF NewYear
      <3>1. NewYear(y) \in Nat /\ NewYear(y + 1) \in Nat
        BY NewYears
      <3> QED
        BY <3>1, NewYears
    <2> QED
      BY <2>1
  <1>2. ASSUME NEW z \in S, NewYear(z) <= d, d < NewYear(z + 1) PROVE z = y
    <2>1. z \in Nat /\ 1970 <= z
      OBVIOUS
    <2>2. /\ NewYear(y) \in Nat /\ NewYear(z) \in Nat
          /\ NewYear(y + 1) \in Nat /\ NewYear(z + 1) \in Nat
      BY <2>1, NewYears
    <2>3. ~(y < z) /\ ~(z < y)
      BY <1>2, <2>1, <2>2, NewYearsGrow
    <2> QED
      BY <2>1, <2>3
  <1> HIDE DEF S
  <1>3. (CHOOSE x \in S : NewYear(x) <= d /\ d < NewYear(x + 1)) = y
    BY <1>1, <1>2
  <1> QED
    BY <1>3 DEF YearOf, S

\* Every day lies in some year: the last that has begun.
LEMMA YearExists ==
  ASSUME NEW d \in Nat
  PROVE  \E y \in Nat : 1970 <= y /\ NewYear(y) <= d /\ d < NewYear(y + 1)
  <1> DEFINE begun == {y \in 1970..(1970 + d \div 365) : NewYear(y) <= d}
  <1>1. begun \in SUBSET Nat /\ IsFiniteSet(begun)
    <2>1. IsFiniteSet(1970..(1970 + d \div 365))
      BY FS_Interval
    <2> QED
      BY <2>1, FS_Subset
  <1>2. 1970 \in begun
    BY DEF NewYear
  <1>3. PICK y \in begun : \A x \in begun : x <= y
    <2> HIDE DEF begun
    <2> QED
      BY <1>1, <1>2, GreatestExists
  <1>4. d < NewYear(y + 1)
    <2> SUFFICES ASSUME NewYear(y + 1) <= d PROVE FALSE
      BY NewYears
    <2>1. 365 * (y + 1 - 1970) <= d
      BY NewYears
    <2>2. y + 1 \in begun
      BY <2>1
    <2> QED
      BY <1>3, <2>2
  <1> QED
    BY <1>3, <1>4

\* getUTCFullYear is that year.
LEMMA YearType ==
  ASSUME NEW d \in Nat
  PROVE  YearOf(d) \in Nat /\ 1970 <= YearOf(d) /\ NewYear(YearOf(d)) <= d
         /\ d < NewYear(YearOf(d) + 1)
  <1>1. PICK y \in Nat : 1970 <= y /\ NewYear(y) <= d /\ d < NewYear(y + 1)
    BY YearExists
  <1>2. YearOf(d) = y
    BY <1>1, YearIs
  <1> QED
    BY <1>1, <1>2

\* A later day lies in the same year or a later one.
LEMMA YearsGrow ==
  ASSUME NEW d \in Nat, NEW e \in Nat, d <= e
  PROVE  YearOf(d) <= YearOf(e)
  <1> DEFINE y == YearOf(d)
             z == YearOf(e)
  <1>1. /\ y \in Nat /\ 1970 <= y /\ NewYear(y) <= d
        /\ z \in Nat /\ 1970 <= z /\ e < NewYear(z + 1)
    BY YearType
  <1> HIDE DEF y, z
  <1>2. NewYear(y) \in Nat /\ NewYear(z + 1) \in Nat
    BY <1>1, NewYears
  <1>3. ~(z < y)
    BY <1>1, <1>2, NewYearsGrow
  <1>4. y <= z
    BY <1>1, <1>3
  <1> QED
    BY <1>4 DEF y, z

\* The months of a year: each has 28 days at least.
LEMMA Months ==
  ASSUME NEW y \in Nat, NEW m \in 0..11
  PROVE  /\ BeforeMonth(y, 0) = 0 /\ BeforeMonth(y, m) \in 0..335
         /\ \A k \in 0..11 : k < m => BeforeMonth(y, k) + 28 <= BeforeMonth(y, m)
  BY DEF BeforeMonth

\* Fewer days precede the last month than a year has.
LEMMA BeforeType == ASSUME NEW y \in Nat, NEW m \in 0..11 PROVE BeforeMonth(y, m) \in 0..335
  BY DEF BeforeMonth

\* The first day of month m of year y.
FirstOf(y, m) == NewYear(y) + BeforeMonth(y, m)

\* The first of a month is a day of its year.
LEMMA FirstType ==
  ASSUME NEW y \in Nat, 1970 <= y, NEW k \in 0..11
  PROVE  /\ FirstOf(y, k) \in Nat /\ NewYear(y) <= FirstOf(y, k)
         /\ NewYear(y) \in Nat /\ BeforeMonth(y, k) \in Nat
  <1>1. NewYear(y) \in Nat
    BY NewYears
  <1>2. BeforeMonth(y, k) \in 0..335
    BY DEF BeforeMonth
  <1> QED
    BY <1>1, <1>2 DEF FirstOf

\* getUTCMonth is the last month that has begun.
LEMMA MonthType ==
  ASSUME NEW d \in Nat
  PROVE  /\ MonthOf(d) \in 0..11
         /\ FirstOf(YearOf(d), MonthOf(d)) <= d
         /\ \A k \in 0..11 : FirstOf(YearOf(d), k) <= d => k <= MonthOf(d)
  <1> DEFINE y == YearOf(d)
             begun == {m \in 0..11 : FirstOf(y, m) <= d}
  <1>1. y \in Nat /\ 1970 <= y /\ NewYear(y) <= d /\ NewYear(y) \in Nat
    BY YearType, NewYears
  <1>2. begun \in SUBSET Nat /\ IsFiniteSet(begun)
    <2>1. IsFiniteSet(0..11)
      <3>1. 0 \in Int /\ 11 \in Int
        OBVIOUS
      <3> QED
        BY <3>1, FS_Interval, Zenon
    <2> QED
      BY <2>1, FS_Subset
  <1>3. 0 \in begun
    BY <1>1, Months DEF FirstOf
  <1>4. \E m \in begun : \A k \in begun : k <= m
    <2> HIDE DEF begun
    <2> QED
      BY <1>2, <1>3, GreatestExists
  <1>5. MonthOf(d) = CHOOSE m \in begun : \A k \in begun : k <= m
    BY DEF MonthOf, FirstOf
  <1>6. MonthOf(d) \in begun /\ \A k \in begun : k <= MonthOf(d)
    <2> HIDE DEF begun
    <2> QED
      BY <1>4, <1>5
  <1> QED
    BY <1>6

\* The month of a day is the one that has begun when no later one has.
LEMMA MonthIs ==
  ASSUME NEW d \in Nat, NEW y \in Nat, 1970 <= y, NEW m \in 0..11, FirstOf(y, m) <= d,
         d < NewYear(y + 1), \A k \in 0..11 : m < k => d < FirstOf(y, k)
  PROVE  YearOf(d) = y /\ MonthOf(d) = m
  <1>1. \A k \in 0..11 : FirstOf(y, k) \in Nat /\ NewYear(y) <= FirstOf(y, k)
    BY FirstType
  <1>2. YearOf(d) = y
    <2>1. NewYear(y) \in Nat
      BY NewYears
    <2> QED
      BY <1>1, <2>1, YearIs
  <1>3. \A k \in 0..11 : FirstOf(y, k) \in Nat
    BY <1>1
  <1>4. MonthOf(d) \in 0..11 /\ FirstOf(y, MonthOf(d)) <= d /\ m <= MonthOf(d)
    BY <1>2, MonthType
  <1>5. ~(m < MonthOf(d))
    BY <1>3, <1>4
  <1> QED
    BY <1>2, <1>4, <1>5

\* getUTCDate is the rest: between 1 and 31.
LEMMA DayType ==
  ASSUME NEW d \in Nat
  PROVE  /\ DayOf(d) \in 1..31
         /\ d = FirstOf(YearOf(d), MonthOf(d)) + DayOf(d) - 1
  <1> DEFINE y == YearOf(d)
             m == MonthOf(d)
  <1>1. /\ y \in Nat /\ 1970 <= y /\ NewYear(y) \in Nat
        /\ d < NewYear(y) + (IF IsLeap(y) THEN 366 ELSE 365)
    BY YearType, NewYears, Leap
  <1>2. /\ m \in 0..11 /\ FirstOf(y, m) <= d
        /\ \A k \in 0..11 : FirstOf(y, k) <= d => k <= m
    BY MonthType
  <1> HIDE DEF y, m
  <1>4. BeforeMonth(y, m) \in 0..335
    <2>1. y \in Nat /\ m \in 0..11
      BY <1>1, <1>2
    <2> QED
      BY <2>1, BeforeType, Zenon
  <1>3. DayOf(d) = d - FirstOf(y, m) + 1
    BY <1>1, <1>4 DEF DayOf, FirstOf, y, m
  <1>7. FirstOf(y, m) \in Nat
    BY <1>1, <1>2, FirstType
  <1>5. d < FirstOf(y, m) + 31
    <2>1. CASE m = 11
      BY <1>1, <2>1 DEF FirstOf, BeforeMonth
    <2>2. CASE m # 11
      <3>1. m + 1 \in 0..11 /\ ~(m + 1 <= m)
        BY <1>2, <2>2
      <3>2. BeforeMonth(y, m + 1) \in Nat /\ BeforeMonth(y, m + 1) <= BeforeMonth(y, m) + 31
        BY <1>1, <1>2, <2>2 DEF BeforeMonth
      <3>3. d < FirstOf(y, m + 1)
        BY <1>1, <1>2, <3>1, <3>2 DEF FirstOf
      <3> QED
        BY <1>1, <1>4, <3>2, <3>3 DEF FirstOf
    <2> QED
      BY <2>1, <2>2
  <1>6. DayOf(d) \in 1..31 /\ d = FirstOf(y, m) + DayOf(d) - 1
    BY <1>2, <1>3, <1>5, <1>7
  <1> QED
    BY <1>6 DEF y, m

\* Of two days the later has the later date.
LEMMA MonthsGrow ==
  ASSUME NEW d \in Nat, NEW e \in Nat, d <= e
  PROVE  \/ YearOf(d) < YearOf(e)
         \/ YearOf(d) = YearOf(e) /\ MonthOf(d) < MonthOf(e)
         \/ YearOf(d) = YearOf(e) /\ MonthOf(d) = MonthOf(e) /\ DayOf(d) = DayOf(e) + d - e
  <1>1. YearOf(d) \in Nat /\ YearOf(e) \in Nat /\ YearOf(d) <= YearOf(e)
    BY YearType, YearsGrow
  <1>2. /\ MonthOf(d) \in 0..11 /\ FirstOf(YearOf(d), MonthOf(d)) <= d
        /\ MonthOf(e) \in 0..11
        /\ \A k \in 0..11 : FirstOf(YearOf(e), k) <= e => k <= MonthOf(e)
    BY MonthType
  <1>3. /\ DayOf(d) \in 1..31 /\ d = FirstOf(YearOf(d), MonthOf(d)) + DayOf(d) - 1
        /\ DayOf(e) \in 1..31 /\ e = FirstOf(YearOf(e), MonthOf(e)) + DayOf(e) - 1
    BY DayType
  <1>4. FirstOf(YearOf(d), MonthOf(d)) \in Int
    <2>1. 1970 <= YearOf(d)
      BY YearType
    <2> QED
      BY <1>1, <1>2, <2>1, FirstType
  <1> SUFFICES ASSUME YearOf(d) = YearOf(e)
               PROVE  \/ MonthOf(d) < MonthOf(e)
                      \/ MonthOf(d) = MonthOf(e) /\ DayOf(d) = DayOf(e) + d - e
    BY <1>1
  <1>5. MonthOf(d) <= MonthOf(e)
    BY <1>2, <1>4
  <1>6. CASE MonthOf(d) = MonthOf(e)
    BY <1>3, <1>4, <1>6
  <1> QED
    BY <1>2, <1>5, <1>6

-----------------------------------------------------------------------------
(***************************************************************************)
(* Windows and their anchors (src/src/shared/time.ts)                      *)
(***************************************************************************)
\* The unit an instant lies in: a window is so many of them.
UnitIndex(s, n) ==
  CASE s.interval = "minute" -> n
    [] s.interval = "hour"   -> n \div 60
    [] s.interval = "day"    -> DaysSinceEpoch(n)
    [] s.interval = "week"   -> WeeksSinceEpoch(n, s.on)
    [] s.interval = "month"  -> MonthsSinceEpoch(n)

\* What a valid schedule is made of.
LEMMA IntervalCases ==
  ASSUME NEW s \in ValidSchedules
  PROVE  /\ s.interval \in {"minute", "hour", "day", "week", "month"}
         /\ s.count \in Nat \ {0} /\ s.on \in 0..6 /\ s.at \in 0..1439
         /\ s.dayOfMonth \in 1..28
  BY DEF ValidSchedules, MinutesPerDay

\* A window is intervalCount of its units.
LEMMA WindowIndexIs ==
  ASSUME NEW s \in ValidSchedules, NEW n \in Nat
  PROVE  WindowIndex(s, n) = UnitIndex(s, n) \div s.count
  BY IntervalCases DEF WindowIndex, UnitIndex

\* Later instants lie in later units, whatever the unit.
LEMMA DaysGrow ==
  ASSUME NEW a \in Nat, NEW b \in Nat, a <= b
  PROVE  /\ DaysSinceEpoch(a) \in Nat /\ DaysSinceEpoch(b) \in Nat
         /\ DaysSinceEpoch(a) <= DaysSinceEpoch(b)
  BY DEF DaysSinceEpoch, MinutesPerDay

\* The same of months.
LEMMA MonthIndexGrows ==
  ASSUME NEW a \in Nat, NEW b \in Nat, a <= b
  PROVE  /\ MonthsSinceEpoch(a) \in Nat /\ MonthsSinceEpoch(b) \in Nat
         /\ MonthsSinceEpoch(a) <= MonthsSinceEpoch(b)
  <1> DEFINE d == DaysSinceEpoch(a)
             e == DaysSinceEpoch(b)
  <1>1. d \in Nat /\ e \in Nat /\ d <= e
    BY DaysGrow
  <1>2. /\ MonthsSinceEpoch(a) = (YearOf(d) - 1970) * 12 + MonthOf(d)
        /\ MonthsSinceEpoch(b) = (YearOf(e) - 1970) * 12 + MonthOf(e)
    BY DEF MonthsSinceEpoch
  <1> HIDE DEF d, e
  <1>3. /\ YearOf(d) \in Nat /\ 1970 <= YearOf(d) /\ MonthOf(d) \in 0..11
        /\ YearOf(e) \in Nat /\ 1970 <= YearOf(e) /\ MonthOf(e) \in 0..11
    BY <1>1, YearType, MonthType
  <1>4. \/ YearOf(d) < YearOf(e)
        \/ YearOf(d) = YearOf(e) /\ MonthOf(d) < MonthOf(e)
        \/ YearOf(d) = YearOf(e) /\ MonthOf(d) = MonthOf(e)
    BY <1>1, MonthsGrow
  <1> QED
    BY <1>2, <1>3, <1>4

\* The same of weeks, counted from the anchor of the first.
LEMMA WeeksGrow ==
  ASSUME NEW a \in Nat, NEW b \in Nat, a <= b, NEW on \in 0..6
  PROVE  /\ WeeksSinceEpoch(a, on) \in Nat /\ WeeksSinceEpoch(b, on) \in Nat
         /\ WeeksSinceEpoch(a, on) <= WeeksSinceEpoch(b, on)
  <1> DEFINE d == DaysSinceEpoch(a)
             e == DaysSinceEpoch(b)
             w == WeekAnchorDayZero(on)
  <1>1. w \in -6..0 /\ d \in Nat /\ e \in Nat /\ d <= e
    BY DaysGrow DEF WeekAnchorDayZero
  <1>2. WeeksSinceEpoch(a, on) = (d - w) \div 7 /\ WeeksSinceEpoch(b, on) = (e - w) \div 7
    BY DEF WeeksSinceEpoch
  <1> HIDE DEF d, e, w
  <1>3. d - w \in Nat /\ e - w \in Nat /\ d - w <= e - w /\ 7 \in Nat \ {0}
    BY <1>1
  <1> QED
    BY <1>2, <1>3, Floor, QuotientGrows

\* The same of any unit.
LEMMA UnitsGrow ==
  ASSUME NEW s \in ValidSchedules, NEW a \in Nat, NEW b \in Nat, a <= b
  PROVE  /\ UnitIndex(s, a) \in Nat /\ UnitIndex(s, b) \in Nat
         /\ UnitIndex(s, a) <= UnitIndex(s, b)
  <1>1. CASE s.interval = "minute"
    BY <1>1 DEF UnitIndex
  <1>2. CASE s.interval = "hour"
    BY <1>2 DEF UnitIndex
  <1>3. CASE s.interval = "day"
    BY <1>3, DaysGrow DEF UnitIndex
  <1>4. CASE s.interval = "week"
    BY <1>4, WeeksGrow, IntervalCases DEF UnitIndex
  <1>5. CASE s.interval = "month"
    BY <1>5, MonthIndexGrows DEF UnitIndex
  <1> QED
    BY <1>1, <1>2, <1>3, <1>4, <1>5, IntervalCases

\* A later instant lies in the same window or in a later one.
LEMMA WindowsGrow ==
  ASSUME NEW s \in ValidSchedules, NEW a \in Nat, NEW b \in Nat, a <= b
  PROVE  /\ WindowIndex(s, a) \in Nat /\ WindowIndex(s, b) \in Nat
         /\ WindowIndex(s, a) <= WindowIndex(s, b)
  <1>1. /\ UnitIndex(s, a) \in Nat /\ UnitIndex(s, b) \in Nat
        /\ UnitIndex(s, a) <= UnitIndex(s, b) /\ s.count \in Nat \ {0}
    BY UnitsGrow, IntervalCases
  <1>2. /\ WindowIndex(s, a) = UnitIndex(s, a) \div s.count
        /\ WindowIndex(s, b) = UnitIndex(s, b) \div s.count
    BY WindowIndexIs
  <1> HIDE DEF UnitIndex
  <1> QED
    BY <1>1, <1>2, QuotientGrows, Floor

\* A window's anchor lies in its first unit; the week that holds the epoch may have its
\* anchor before it.
LEMMA AnchorInUnit ==
  ASSUME NEW s \in ValidSchedules, NEW i \in Nat
  PROVE  /\ WindowAnchor(s, i) \in Int
         /\ WindowAnchor(s, i) >= 0 => UnitIndex(s, WindowAnchor(s, i)) = i * s.count
         /\ i > 0 => WindowAnchor(s, i) >= 0
  <1> DEFINE u == i * s.count
             a == WindowAnchor(s, i)
  <1>0. u \in Nat /\ (i > 0 => u >= 1)
    <2>1. u \in Nat
      BY IntervalCases, QuotientOfMultiple
    <2>2. s.count \in Nat \ {0} /\ u = s.count * i /\ s.count * 0 = 0
      BY IntervalCases
    <2>3. 0 < i => s.count * 0 + s.count <= s.count * i
      BY <2>2, Product
    <2> QED
      BY <2>1, <2>2, <2>3
  <1> SUFFICES /\ a \in Int
               /\ a >= 0 => UnitIndex(s, a) = u
               /\ u >= 1 => a >= 0
    BY <1>0
  <1> HIDE DEF u
  <1>1. CASE s.interval = "minute"
    <2>1. a = u
      BY <1>0, <1>1 DEF WindowAnchor, WindowStart, u
    <2> QED
      BY <1>0, <1>1, <2>1 DEF UnitIndex
  <1>2. CASE s.interval = "hour"
    <2>1. a = u * 60
      BY <1>0, <1>2 DEF WindowAnchor, WindowStart, u
    <2> HIDE DEF a
    <2> QED
      BY <1>0, <1>2, <2>1 DEF UnitIndex
  <1>3. CASE s.interval = "day"
    <2>1. a = u * 1440 + s.at /\ s.at \in 0..1439
      BY <1>0, <1>3, IntervalCases DEF WindowAnchor, WindowStart, MinutesPerDay, u
    <2>2. UnitIndex(s, a) = a \div 1440
      BY <1>3 DEF UnitIndex, DaysSinceEpoch, MinutesPerDay
    <2> DEFINE t == s.at
    <2> HIDE DEF a, t
    <2>3. a = u * 1440 + t /\ t \in 0..1439 /\ u \in Int
      BY <1>0, <2>1 DEF t
    <2>4. a \div 1440 = u
      BY <2>3
    <2> QED
      BY <1>0, <2>2, <2>3, <2>4
  <1>4. CASE s.interval = "week"
    <2> DEFINE w == WeekAnchorDayZero(s.on)
    <2>1. w \in -6..0
      BY IntervalCases DEF WeekAnchorDayZero
    <2>2. a = (w + u * 7) * 1440 + s.at /\ s.at \in 0..1439
      BY <1>0, <1>4, IntervalCases DEF WindowAnchor, WindowStart, WeekStart, MinutesPerDay, u
    <2>3. UnitIndex(s, a) = (a \div 1440 - w) \div 7
      BY <1>4 DEF UnitIndex, WeeksSinceEpoch, DaysSinceEpoch, MinutesPerDay
    <2> DEFINE t == s.at
               d == w + u * 7
    <2> HIDE DEF a, w, t
    <2>6. a = d * 1440 + t /\ t \in 0..1439 /\ d \in Int
      BY <1>0, <2>1, <2>2 DEF t
    <2>4. a \div 1440 = d
      <3> HIDE DEF d
      <3> QED
        BY <2>6
    <2>5. UnitIndex(s, a) = u
      BY <1>0, <2>1, <2>3, <2>4
    <2> QED
      <3>1. u >= 1 => d >= 1
        BY <1>0, <2>1
      <3> HIDE DEF d
      <3> QED
        BY <2>5, <2>6, <3>1
  <1>5. CASE s.interval = "month"
    <2> DEFINE y == 1970 + u \div 12
               m == u % 12
               d == FirstOf(y, m) + s.dayOfMonth - 1
    <2>1. y \in Nat /\ 1970 <= y /\ m \in 0..11 /\ u = 12 * (y - 1970) + m
      BY <1>0
    <2> HIDE DEF y, m
    <2>2. FirstOf(y, m) \in Nat /\ s.dayOfMonth \in 1..28 /\ s.at \in 0..1439
      BY <2>1, FirstType, IntervalCases
    <2>3. d \in Nat
      BY <2>2
    <2>4. a = d * 1440 + s.at
      <3>1. MonthStart(u) = FirstOf(y, m) * 1440
        <4>1. BeforeMonth(y, m) \in Nat /\ NewYear(y) \in Nat
          BY <2>1, FirstType
        <4>2. MonthStart(u) = (NewYear(y) + BeforeMonth(y, m) + 1 - 1) * 1440
          BY DEF MonthStart, DayOfDate, MinutesPerDay, y, m
        <4> QED
          BY <4>1, <4>2 DEF FirstOf
      <3>2. a = MonthStart(u) + ((s.dayOfMonth - 1) * 1440 + s.at)
        BY <1>5 DEF WindowAnchor, WindowStart, MinutesPerDay, u
      <3> QED
        <4> DEFINE f == FirstOf(y, m)
                   n == s.dayOfMonth
                   t == s.at
        <4>1. f \in Nat /\ n \in 1..28 /\ t \in 0..1439
          BY <2>2
        <4>2. a = f * 1440 + ((n - 1) * 1440 + t)
          BY <3>1, <3>2
        <4>3. d = f + n - 1
          OBVIOUS
        <4> HIDE DEF a, f, n, t, d
        <4>4. a = d * 1440 + t
          BY <4>1, <4>2, <4>3
        <4> QED
          BY <4>4 DEF t
    <2>5. DaysSinceEpoch(a) = d
      <3> DEFINE t == s.at
      <3> HIDE DEF a, d, t
      <3>1. a = d * 1440 + t /\ t \in 0..1439 /\ d \in Int
        BY <2>2, <2>3, <2>4 DEF t
      <3>2. a \div 1440 = d
        BY <3>1
      <3> QED
        BY <3>2 DEF DaysSinceEpoch, MinutesPerDay
    <2>6. YearOf(d) = y /\ MonthOf(d) = m
      <3>1. FirstOf(y, m) <= d
        BY <2>2
      <3>2. ASSUME NEW k \in 0..11, m < k PROVE d < FirstOf(y, k)
        <4>1. BeforeMonth(y, m) + 28 <= BeforeMonth(y, k)
          BY <2>1, <3>2, Months
        <4>2. /\ NewYear(y) \in Nat /\ BeforeMonth(y, m) \in Nat /\ BeforeMonth(y, k) \in Nat
          BY <2>1, FirstType
        <4> QED
          BY <2>2, <4>1, <4>2 DEF FirstOf
      <3>3. d < NewYear(y + 1)
        <4>0. BeforeMonth(y, m) \in 0..335
          <5>1. y \in Nat /\ m \in 0..11
            BY <2>1
          <5> QED
            BY <5>1, BeforeType, Zenon
        <4>1. BeforeMonth(y, m) <= 335 /\ BeforeMonth(y, m) \in Nat /\ NewYear(y) \in Nat
          BY <2>1, <4>0, FirstType
        <4>2. NewYear(y + 1) >= NewYear(y) + 365 /\ NewYear(y + 1) \in Nat
          BY <2>1, <4>1, Leap, NewYears
        <4> QED
          BY <2>2, <4>1, <4>2 DEF FirstOf
      <3> HIDE DEF d
      <3> QED
        BY <2>1, <2>3, <3>1, <3>2, <3>3, MonthIs
    <2>7. UnitIndex(s, a) = u
      <3>1. UnitIndex(s, a) = (YearOf(d) - 1970) * 12 + MonthOf(d)
        BY <1>5, <2>5 DEF UnitIndex, MonthsSinceEpoch
      <3> QED
        BY <2>1, <2>6, <3>1
    <2>8. a \in Int /\ a >= 0
      <3> DEFINE t == s.at
      <3> HIDE DEF a, d, t
      <3>1. a = d * 1440 + t /\ t \in 0..1439 /\ d \in Nat
        BY <2>2, <2>3, <2>4 DEF t
      <3> QED
        BY <3>1
    <2> HIDE DEF a
    <2> QED
      BY <2>7, <2>8
  <1> QED
    BY <1>1, <1>2, <1>3, <1>4, <1>5, IntervalCases

\* A window's anchor lies in the window.
LEMMA AnchorInWindow ==
  ASSUME NEW s \in ValidSchedules, NEW i \in Nat
  PROVE  /\ WindowAnchor(s, i) \in Int
         /\ WindowAnchor(s, i) >= 0 => WindowIndex(s, WindowAnchor(s, i)) = i
         /\ i > 0 => WindowAnchor(s, i) >= 0
  <1>1. ASSUME WindowAnchor(s, i) >= 0 PROVE WindowIndex(s, WindowAnchor(s, i)) = i
    <2>1. WindowAnchor(s, i) \in Nat
      BY <1>1, AnchorInUnit
    <2>2. WindowIndex(s, WindowAnchor(s, i)) = (i * s.count) \div s.count
      BY <1>1, <2>1, WindowIndexIs, AnchorInUnit
    <2> QED
      BY <2>2, IntervalCases, QuotientOfMultiple
  <1> QED
    BY <1>1, AnchorInUnit

\* The windows and anchors of every schedule are what the models of the scheduler, the
\* archive and the mirror take for granted of theirs (WindowAssumption, Parameters): later
\* instants have no earlier window, and a window has one anchor.
THEOREM WindowsAreWindows ==
  ASSUME NEW s \in ValidSchedules, NEW S \in SUBSET Nat
  PROVE  LET index == [n \in S |-> WindowIndex(s, n)]
             anchor == [n \in S |-> WindowAnchor(s, WindowIndex(s, n))]
         IN  /\ index \in [S -> Nat] /\ anchor \in [S -> Int]
             /\ \A a, b \in S :
                    /\ a <= b => index[a] <= index[b]
                    /\ index[a] = index[b] => anchor[a] = anchor[b]
  <1>1. \A n \in S : /\ WindowIndex(s, n) \in Nat
                     /\ WindowAnchor(s, WindowIndex(s, n)) \in Int
    <2> TAKE n \in S
    <2>1. n \in Nat /\ n <= n
      OBVIOUS
    <2>2. WindowIndex(s, n) \in Nat
      BY <2>1, WindowsGrow
    <2> QED
      BY <2>2, AnchorInWindow
  <1>2. \A a, b \in S : a <= b => WindowIndex(s, a) <= WindowIndex(s, b)
    BY WindowsGrow
  <1> QED
    BY <1>1, <1>2

\* No window goes by without its moment: the anchor of every window after the epoch's,
\* of any length and on any day that validateSchedule allows, lies in that window, and
\* there a target last run in another window is due.
THEOREM EveryWindowComes ==
  ASSUME NEW s \in ValidSchedules, NEW i \in Nat \ {0}, NEW k \in Nat, WindowIndex(s, k) # i
  PROVE  /\ WindowAnchor(s, i) \in Nat /\ WindowIndex(s, WindowAnchor(s, i)) = i
         /\ IsDue(s, {k}, WindowAnchor(s, i))
  <1>1. WindowAnchor(s, i) \in Nat /\ WindowIndex(s, WindowAnchor(s, i)) = i
    BY AnchorInWindow
  <1> QED
    BY <1>1 DEF IsDue

\* nextDueAt is the first due moment from now on, whatever the newest snapshot.
LEMMA NextDueIsFirst ==
  ASSUME NEW s \in ValidSchedules, NEW k \in Nat, NEW n \in Nat
  PROVE  /\ NextDueAt(s, {k}, n) \in Nat
         /\ IsDue(s, {k}, NextDueAt(s, {k}, n))
         /\ \A m \in Nat : n <= m /\ m < NextDueAt(s, {k}, n) => ~IsDue(s, {k}, m)
  <1> DEFINE i == WindowIndex(s, n)
             due == NextDueAt(s, {k}, n)
  <1>1. i \in Nat /\ WindowIndex(s, k) \in Nat
    BY WindowsGrow
  <1>2. CASE WindowIndex(s, k) = i
    <2>1. due = WindowAnchor(s, i + 1)
      BY <1>2 DEF NextDueAt
    <2>2. due \in Nat /\ WindowIndex(s, due) = i + 1
      BY <1>1, <2>1, AnchorInWindow
    <2>3. IsDue(s, {k}, due)
      BY <1>1, <1>2, <2>1, <2>2 DEF IsDue
    <2>4. ASSUME NEW m \in Nat, n <= m, m < due PROVE ~IsDue(s, {k}, m)
      <3>1. WindowIndex(s, m) \in Nat /\ i <= WindowIndex(s, m) /\ WindowIndex(s, m) <= i + 1
        <4>1. m <= due
          BY <2>2, <2>4
        <4> HIDE DEF due, i
        <4>2. WindowIndex(s, n) <= WindowIndex(s, m) /\ WindowIndex(s, m) \in Nat
          BY <2>4, WindowsGrow
        <4>3. WindowIndex(s, m) <= WindowIndex(s, due)
          BY <2>2, <4>1, WindowsGrow
        <4> QED
          BY <2>2, <4>2, <4>3 DEF i
      <3>2. CASE WindowIndex(s, m) = i
        BY <1>2, <3>2 DEF IsDue
      <3>3. CASE WindowIndex(s, m) = i + 1
        BY <2>1, <2>2, <2>4, <3>3 DEF IsDue
      <3> QED
        BY <1>1, <3>1, <3>2, <3>3
    <2> HIDE DEF due
    <2> QED
      BY <2>2, <2>3, <2>4 DEF due
  <1>3. CASE WindowIndex(s, k) # i /\ n >= WindowAnchor(s, i)
    <2>1. due = n
      BY <1>3 DEF NextDueAt
    <2>2. IsDue(s, {k}, due)
      BY <1>3, <2>1 DEF IsDue
    <2>3. \A m \in Nat : ~(n <= m /\ m < n)
      OBVIOUS
    <2> QED
      BY <2>1, <2>2, <2>3
  <1>4. CASE WindowIndex(s, k) # i /\ ~(n >= WindowAnchor(s, i))
    <2>1. due = WindowAnchor(s, i)
      BY <1>4 DEF NextDueAt
    <2>2. due \in Nat /\ n <= due /\ WindowIndex(s, due) = i
      BY <1>1, <1>4, <2>1, AnchorInWindow
    <2>3. IsDue(s, {k}, due)
      BY <1>4, <2>1, <2>2 DEF IsDue
    <2>4. ASSUME NEW m \in Nat, n <= m, m < due PROVE ~IsDue(s, {k}, m)
      <3>1. WindowIndex(s, m) = i
        <4>1. m <= due
          BY <2>2, <2>4
        <4> HIDE DEF due, i
        <4>2. WindowIndex(s, n) <= WindowIndex(s, m) /\ WindowIndex(s, m) \in Nat
          BY <2>4, WindowsGrow
        <4>3. WindowIndex(s, m) <= WindowIndex(s, due)
          BY <2>2, <4>1, WindowsGrow
        <4> QED
          BY <1>1, <2>2, <4>2, <4>3 DEF i
      <3> QED
        BY <2>1, <2>2, <2>4, <3>1 DEF IsDue
    <2> HIDE DEF due
    <2> QED
      BY <2>2, <2>3, <2>4 DEF due
  <1> QED
    BY <1>2, <1>3, <1>4

\* The due time that status prints for a target without failures (nextDueAt) is the first
\* moment from now on at which isDue lets the scheduler run it: for every schedule that
\* validateSchedule accepts, every snapshot that the reports name as the newest and every moment.
THEOREM NextDueHolds == TargetsSpec => []NextDueIsDue
  <1>1. Misprinted = {}
    <2> SUFFICES ASSUME NEW s \in Schedule, NEW k \in Instant, NEW n \in Instant,
                        <<s, k, n>> \in Misprinted
                 PROVE  FALSE
      BY DEF Misprinted
    <2> DEFINE due == NextDueAt(s, {k}, n)
    <2>1. s \in ValidSchedules /\ k \in Nat /\ n \in Nat /\ Instant \subseteq Nat
      BY ScheduleAssumption, RetentionAssumption
    <2>2. /\ due \in Nat /\ IsDue(s, {k}, due)
          /\ \A m \in Nat : n <= m /\ m < due => ~IsDue(s, {k}, m)
      BY <2>1, NextDueIsFirst
    <2>3. \/ ~IsDue(s, {k}, due)
          \/ \E m \in Instant \cup {due - 1} : n <= m /\ m < due /\ IsDue(s, {k}, m)
      BY DEF Misprinted
    <2> HIDE DEF due
    <2>4. PICK m \in Instant \cup {due - 1} : n <= m /\ m < due /\ IsDue(s, {k}, m)
      BY <2>2, <2>3
    <2>5. m \in Nat
      BY <2>1, <2>2, <2>4
    <2> QED
      BY <2>2, <2>4, <2>5
  <1>2. NextDueIsDue
    BY <1>1 DEF NextDueIsDue, MisprintedAfter
  <1> QED
    BY <1>2, PTL

-----------------------------------------------------------------------------
(***************************************************************************)
(* Retention buckets (src/src/retention/retention.ts)                      *)
(***************************************************************************)
\* The Thursday of the week of day d.
ThursdayOf(d) == d - ((d + 3) % 7) + 3
WeekOf(d) == (d + 3) \div 7

\* It is a multiple of seven, for the epoch was a Thursday.
LEMMA Thursdays ==
  ASSUME NEW d \in Nat
  PROVE  WeekOf(d) \in Nat /\ ThursdayOf(d) = 7 * WeekOf(d)
  <1>1. d + 3 = 7 * ((d + 3) \div 7) + ((d + 3) % 7)
    OBVIOUS
  <1>2. WeekOf(d) \in Nat
    BY DEF WeekOf
  <1> QED
    BY <1>1, <1>2 DEF WeekOf, ThursdayOf

\* The ISO week of a Thursday, by its year and its place in it.
LEMMA WeekNumber ==
  ASSUME NEW n \in Nat
  PROVE  LET t == ThursdayOf(DaysSinceEpoch(n))
             y == YearOf(t)
         IN  /\ t \in Nat /\ y \in Nat /\ 1970 <= y /\ NewYear(y) \in Nat
             /\ NewYear(y) <= t /\ t <= NewYear(y) + 365
             /\ WeeklyBucket(n) = 100 * y + (t - NewYear(y)) \div 7 + 1
  <1> DEFINE t == ThursdayOf(DaysSinceEpoch(n))
             y == YearOf(t)
  <1>1. t \in Nat
    <2>1. DaysSinceEpoch(n) \in Nat
      BY DaysGrow
    <2> QED
      BY <2>1, Thursdays
  <1>2. WeeklyBucket(n) = 100 * y + (t - NewYear(y)) \div 7 + 1
    BY DEF WeeklyBucket, ThursdayOf
  <1>3. y \in Nat /\ 1970 <= y /\ NewYear(y) <= t /\ t < NewYear(y + 1)
    <2> HIDE DEF t
    <2> QED
      BY <1>1, YearType
  <1>4. NewYear(y) \in Nat /\ NewYear(y + 1) = NewYear(y) + (IF IsLeap(y) THEN 366 ELSE 365)
    <2> HIDE DEF y
    <2> QED
      BY <1>3, NewYears, Leap
  <1>5. t <= NewYear(y) + 365
    <2> HIDE DEF t, y
    <2> QED
      BY <1>1, <1>3, <1>4
  <1> QED
    BY <1>1, <1>2, <1>3, <1>4, <1>5

\* Later weeks have later keys, across the turn of a year with 52 or 53 weeks too.
LEMMA WeeksOrder ==
  ASSUME NEW a \in Nat, NEW b \in Nat, WeekOf(DaysSinceEpoch(a)) < WeekOf(DaysSinceEpoch(b))
  PROVE  WeeklyBucket(a) < WeeklyBucket(b)
  <1> DEFINE t == ThursdayOf(DaysSinceEpoch(a))
             u == ThursdayOf(DaysSinceEpoch(b))
             y == YearOf(t)
             z == YearOf(u)
  <1>1. t + 7 <= u
    <2>1. DaysSinceEpoch(a) \in Nat /\ DaysSinceEpoch(b) \in Nat
      BY DEF DaysSinceEpoch, MinutesPerDay
    <2> QED
      BY <2>1, Thursdays
  <1>2. /\ t \in Nat /\ y \in Nat /\ 1970 <= y /\ NewYear(y) \in Nat
        /\ NewYear(y) <= t /\ t <= NewYear(y) + 365
        /\ WeeklyBucket(a) = 100 * y + (t - NewYear(y)) \div 7 + 1
    BY WeekNumber
  <1>3. /\ u \in Nat /\ z \in Nat /\ 1970 <= z /\ NewYear(z) \in Nat
        /\ NewYear(z) <= u /\ u <= NewYear(z) + 365
        /\ WeeklyBucket(b) = 100 * z + (u - NewYear(z)) \div 7 + 1
    BY WeekNumber
  <1>4. y <= z
    <2> HIDE DEF t, u
    <2> QED
      BY <1>1, <1>2, <1>3, YearsGrow
  <1> HIDE DEF t, u, y, z
  <1>5. CASE y = z
    BY <1>1, <1>2, <1>3, <1>5
  <1>6. CASE y < z
    <2>1. (t - NewYear(y)) \div 7 <= 52 /\ (u - NewYear(z)) \div 7 >= 0
      BY <1>2, <1>3
    <2> DEFINE p == (t - NewYear(y)) \div 7
               q == (u - NewYear(z)) \div 7
    <2>2. p \in Int /\ q \in Int
      BY <1>2, <1>3
    <2> HIDE DEF p, q
    <2> QED
      BY <1>2, <1>3, <1>6, <2>1, <2>2 DEF p, q
  <1> QED
    BY <1>2, <1>3, <1>4, <1>5, <1>6

\* A weekly bucket is a number.
LEMMA WeeklyType == ASSUME NEW n \in Nat PROVE WeeklyBucket(n) \in Nat
  BY WeekNumber

\* A week is one bucket: two instants have the same weekly bucket exactly when they lie in
\* the same week from Monday to Sunday, so that at the turn of a year neither is a week
\* split in two nor do two weeks share a key.
THEOREM WeekIsOneBucket ==
  ASSUME NEW a \in Nat, NEW b \in Nat
  PROVE  WeeklyBucket(a) = WeeklyBucket(b)
             <=> (DaysSinceEpoch(a) + 3) \div 7 = (DaysSinceEpoch(b) + 3) \div 7
  <1>1. /\ DaysSinceEpoch(a) \in Nat /\ DaysSinceEpoch(b) \in Nat
        /\ WeeklyBucket(a) \in Nat /\ WeeklyBucket(b) \in Nat
    BY DaysGrow, WeeklyType
  <1>2. WeekOf(DaysSinceEpoch(a)) \in Nat /\ WeekOf(DaysSinceEpoch(b)) \in Nat
    BY <1>1, Thursdays
  <1>3. ASSUME WeekOf(DaysSinceEpoch(a)) = WeekOf(DaysSinceEpoch(b))
        PROVE  WeeklyBucket(a) = WeeklyBucket(b)
    <2>1. ThursdayOf(DaysSinceEpoch(a)) = ThursdayOf(DaysSinceEpoch(b))
      BY <1>1, <1>3, Thursdays
    <2> QED
      BY <2>1 DEF WeeklyBucket, ThursdayOf
  <1>4. WeekOf(DaysSinceEpoch(a)) < WeekOf(DaysSinceEpoch(b))
            => WeeklyBucket(a) < WeeklyBucket(b)
    BY WeeksOrder
  <1>5. WeekOf(DaysSinceEpoch(b)) < WeekOf(DaysSinceEpoch(a))
            => WeeklyBucket(b) < WeeklyBucket(a)
    BY WeeksOrder
  <1>6. WeeklyBucket(a) = WeeklyBucket(b)
            <=> WeekOf(DaysSinceEpoch(a)) = WeekOf(DaysSinceEpoch(b))
    BY <1>1, <1>2, <1>3, <1>4, <1>5
  <1> QED
    BY <1>6 DEF WeekOf

\* Every tier's buckets are numbers that never fall as time goes on: what
\* RetentionAssumption asks of them, and with it the theorems about retention, is true of
\* the five bucket functions over any set of instants.
THEOREM BucketsAreIntervals ==
  ASSUME NEW S \in SUBSET Nat,
         NEW f \in {[n \in S |-> HourlyBucket(n)], [n \in S |-> DailyBucket(n)],
                    [n \in S |-> WeeklyBucket(n)], [n \in S |-> MonthlyBucket(n)],
                    [n \in S |-> YearlyBucket(n)]}
  PROVE  f \in [S -> Nat] /\ \A a, b \in S : a <= b => f[a] <= f[b]
  <1>1. ASSUME NEW a \in Nat, NEW b \in Nat, a <= b
        PROVE  /\ HourlyBucket(a) \in Nat /\ HourlyBucket(a) <= HourlyBucket(b)
               /\ DailyBucket(a) \in Nat /\ DailyBucket(a) <= DailyBucket(b)
               /\ WeeklyBucket(a) \in Nat /\ WeeklyBucket(a) <= WeeklyBucket(b)
               /\ MonthlyBucket(a) \in Nat /\ MonthlyBucket(a) <= MonthlyBucket(b)
               /\ YearlyBucket(a) \in Nat /\ YearlyBucket(a) <= YearlyBucket(b)
    <2> USE <1>1
    <2>1. DaysSinceEpoch(a) \in Nat /\ DaysSinceEpoch(b) \in Nat
          /\ DaysSinceEpoch(a) <= DaysSinceEpoch(b)
      BY DaysGrow
    <2>2. HourlyBucket(a) \in Nat /\ HourlyBucket(b) \in Nat /\ HourlyBucket(a) <= HourlyBucket(b)
      BY DEF HourlyBucket
    <2>3. DailyBucket(a) \in Nat /\ DailyBucket(b) \in Nat /\ DailyBucket(a) <= DailyBucket(b)
      BY <2>1 DEF DailyBucket
    <2>4. WeeklyBucket(a) \in Nat /\ WeeklyBucket(b) \in Nat /\ WeeklyBucket(a) <= WeeklyBucket(b)
      <3>1. WeeklyBucket(a) \in Nat /\ WeeklyBucket(b) \in Nat
        BY WeeklyType
      <3> DEFINE v == WeekOf(DaysSinceEpoch(a))
                 w == WeekOf(DaysSinceEpoch(b))
      <3>2. v \in Nat /\ w \in Nat /\ v <= w
        BY <2>1 DEF WeekOf
      <3>3. v = w => WeeklyBucket(a) = WeeklyBucket(b)
        BY WeekIsOneBucket DEF WeekOf
      <3>4. v < w => WeeklyBucket(a) < WeeklyBucket(b)
        BY WeeksOrder
      <3> HIDE DEF v, w
      <3> QED
        BY <3>1, <3>2, <3>3, <3>4
    <2>5. /\ MonthlyBucket(a) \in Nat /\ MonthlyBucket(b) \in Nat
          /\ MonthlyBucket(a) <= MonthlyBucket(b)
      BY MonthIndexGrows DEF MonthlyBucket
    <2>6. YearlyBucket(a) \in Nat /\ YearlyBucket(b) \in Nat /\ YearlyBucket(a) <= YearlyBucket(b)
      BY <2>1, YearType, YearsGrow DEF YearlyBucket
    <2> QED
      BY <2>2, <2>3, <2>4, <2>5, <2>6
  <1>2. \A n \in S : /\ n <= n /\ n \in Nat
    OBVIOUS
  <1>3. \A n \in S : /\ HourlyBucket(n) \in Nat /\ DailyBucket(n) \in Nat
                     /\ WeeklyBucket(n) \in Nat /\ MonthlyBucket(n) \in Nat
                     /\ YearlyBucket(n) \in Nat
    BY <1>1, <1>2
  <1>4. CASE f = [n \in S |-> HourlyBucket(n)]
    BY <1>1, <1>3, <1>4
  <1>5. CASE f = [n \in S |-> DailyBucket(n)]
    BY <1>1, <1>3, <1>5
  <1>6. CASE f = [n \in S |-> WeeklyBucket(n)]
    BY <1>1, <1>3, <1>6
  <1>7. CASE f = [n \in S |-> MonthlyBucket(n)]
    BY <1>1, <1>3, <1>7
  <1>8. CASE f = [n \in S |-> YearlyBucket(n)]
    BY <1>1, <1>3, <1>8
  <1> QED
    BY <1>4, <1>5, <1>6, <1>7, <1>8

-----------------------------------------------------------------------------
(***************************************************************************)
(* Snapshot names (src/src/shared/snapshot-name.ts)                        *)
(***************************************************************************)
\* The fields of a name.
LEMMA NameFields ==
  ASSUME NEW n \in Nat
  PROVE  LET x == NameOf(n)
             d == DaysSinceEpoch(n)
         IN  /\ d \in Nat /\ n = d * 1440 + x.minute /\ x.minute \in 0..1439
             /\ x.year = YearOf(d) /\ x.month = MonthOf(d) + 1 /\ x.day = DayOf(d)
             /\ x.year \in Nat /\ x.month \in 1..12 /\ x.day \in 1..31
             /\ x = [year |-> x.year, month |-> x.month, day |-> x.day, minute |-> x.minute]
  <1> DEFINE d == DaysSinceEpoch(n)
             x == NameOf(n)
  <1>1. /\ x.minute = n % 1440 /\ x.year = YearOf(d)
        /\ x.month = MonthOf(d) + 1 /\ x.day = DayOf(d)
        /\ x = [year |-> x.year, month |-> x.month, day |-> x.day, minute |-> x.minute]
    BY DEF NameOf, MinutesPerDay
  <1>2. d \in Nat /\ d = n \div 1440
    BY DEF DaysSinceEpoch, MinutesPerDay
  <1>3. n = (n \div 1440) * 1440 + (n % 1440) /\ n % 1440 \in 0..1439
    OBVIOUS
  <1> HIDE DEF d
  <1>4. YearOf(d) \in Nat /\ MonthOf(d) + 1 \in 1..12 /\ DayOf(d) \in 1..31
    <2>1. MonthOf(d) \in 0..11
      BY <1>2, MonthType
    <2> QED
      BY <1>2, <2>1, YearType, DayType
  <1> HIDE DEF x
  <1> QED
    BY <1>1, <1>2, <1>3, <1>4 DEF d, x

\* Snapshots sort by name, as the listings of both stores do, as they sort by time, as
\* planRetention does (for years of four digits, in which the digits are the text).
THEOREM NamesKeepOrder ==
  ASSUME NEW a \in Nat, NEW b \in Nat, a < b
  PROVE  Digits(NameOf(a)) < Digits(NameOf(b))
  <1> DEFINE d == DaysSinceEpoch(a)
             e == DaysSinceEpoch(b)
             x == NameOf(a)
             z == NameOf(b)
  <1>1. /\ d \in Nat /\ a = d * 1440 + x.minute /\ x.minute \in 0..1439
        /\ x.year = YearOf(d) /\ x.month = MonthOf(d) + 1 /\ x.day = DayOf(d)
        /\ x.year \in Nat /\ x.month \in 1..12 /\ x.day \in 1..31
    BY NameFields
  <1>2. /\ e \in Nat /\ b = e * 1440 + z.minute /\ z.minute \in 0..1439
        /\ z.year = YearOf(e) /\ z.month = MonthOf(e) + 1 /\ z.day = DayOf(e)
        /\ z.year \in Nat /\ z.month \in 1..12 /\ z.day \in 1..31
    BY NameFields
  <1>3. d <= e
    BY DaysGrow
  <1> HIDE DEF d, e, x, z
  <1>4. \/ YearOf(d) < YearOf(e)
        \/ YearOf(d) = YearOf(e) /\ MonthOf(d) < MonthOf(e)
        \/ YearOf(d) = YearOf(e) /\ MonthOf(d) = MonthOf(e) /\ DayOf(d) = DayOf(e) + d - e
    BY <1>1, <1>2, <1>3, MonthsGrow
  <1>m. MonthOf(d) \in Int /\ MonthOf(e) \in Int
    BY <1>1, <1>2, MonthType
  <1>5. \/ x.year < z.year
        \/ x.year = z.year /\ x.month < z.month
        \/ x.year = z.year /\ x.month = z.month /\ x.day < z.day
        \/ x.year = z.year /\ x.month = z.month /\ x.day = z.day /\ x.minute < z.minute
    <2> DEFINE m == x.minute
               k == z.minute
               v == x.day
               w == z.day
    <2>1. /\ m \in 0..1439 /\ k \in 0..1439 /\ d * 1440 + m < e * 1440 + k
          /\ a = d * 1440 + m /\ b = e * 1440 + k
      BY <1>1, <1>2
    <2>2. /\ x.year = YearOf(d) /\ x.month = MonthOf(d) + 1 /\ v = DayOf(d)
          /\ z.year = YearOf(e) /\ z.month = MonthOf(e) + 1 /\ w = DayOf(e)
          /\ v \in 1..31 /\ w \in 1..31
      BY <1>1, <1>2
    <2> HIDE DEF m, k, v, w
    <2>3. d < e \/ (d = e /\ m < k)
      BY <1>1, <1>2, <1>3, <2>1
    <2>4. v = w + d - e => v < w \/ (v = w /\ m < k)
      BY <1>1, <1>2, <2>1, <2>2, <2>3
    <2>5. MonthOf(d) < MonthOf(e) => x.month < z.month
      BY <1>m, <2>2
    <2> QED
      BY <1>4, <2>2, <2>4, <2>5 DEF v, w, m, k
  <1>6. Digits(x) < Digits(z)
    <2>1. /\ x.year \in Nat /\ x.month \in 1..12 /\ x.day \in 1..31 /\ x.minute \in 0..1439
          /\ z.year \in Nat /\ z.month \in 1..12 /\ z.day \in 1..31 /\ z.minute \in 0..1439
      BY <1>1, <1>2
    <2> DEFINE p == x.year
               q == z.year
               m == x.month
               n == z.month
               v == x.day
               w == z.day
               t == x.minute
               u == z.minute
    <2>2. /\ Digits(x) = ((p * 13 + m) * 32 + v) * (24 * 60) + t
          /\ Digits(z) = ((q * 13 + n) * 32 + w) * (24 * 60) + u
      BY DEF Digits, MinutesPerDay
    <2>3. /\ p \in Nat /\ m \in 1..12 /\ v \in 1..31 /\ t \in 0..1439
          /\ q \in Nat /\ n \in 1..12 /\ w \in 1..31 /\ u \in 0..1439
          /\ \/ p < q
             \/ p = q /\ m < n
             \/ p = q /\ m = n /\ v < w
             \/ p = q /\ m = n /\ v = w /\ t < u
      BY <1>5, <2>1
    <2> HIDE DEF p, q, m, n, v, w, t, u
    <2>4. ((p * 13 + m) * 32 + v) * (24 * 60) + t < ((q * 13 + n) * 32 + w) * (24 * 60) + u
      BY <2>3
    <2> QED
      BY <2>2, <2>4
  <1> QED
    BY <1>6 DEF x, z

\* parseSnapshotName gives back the minute that formatSnapshotName was given.
THEOREM NamesReadBack == ASSUME NEW n \in Nat PROVE ParseName(NameOf(n)) = n
  <1> DEFINE x == NameOf(n)
             d == DaysSinceEpoch(n)
  <1>1. /\ d \in Nat /\ n = d * 1440 + x.minute
        /\ x.year = YearOf(d) /\ x.month = MonthOf(d) + 1 /\ x.day = DayOf(d)
    BY NameFields
  <1> HIDE DEF d, x
  <1>2. MonthOf(d) \in Int /\ x.month - 1 = MonthOf(d)
    BY <1>1, MonthType
  <1>3. d = NewYear(x.year) + BeforeMonth(x.year, x.month - 1) + x.day - 1
    BY <1>1, <1>2, DayType DEF FirstOf
  <1>4. n = (NewYear(x.year) + BeforeMonth(x.year, x.month - 1) + x.day - 1)
                * MinutesPerDay + x.minute
    BY <1>1, <1>3 DEF MinutesPerDay
  <1>5. ParseName(x) = IF NameOf(n) = x THEN n ELSE -1
    BY <1>4 DEF ParseName
  <1> QED
    BY <1>5 DEF x
=============================================================================
