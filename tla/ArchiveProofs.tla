---------------------------- MODULE ArchiveProofs ----------------------------
(***************************************************************************)
(* Proofs about Archive, for any processes, instants, retention policy,    *)
(* source sizes and numbers of kills.                                      *)
(***************************************************************************)
EXTENDS Archive, FiniteSetTheorems, WellFoundedInduction, TLAPS

-----------------------------------------------------------------------------
(***************************************************************************)
(* Values                                                                  *)
(***************************************************************************)
\* Every non-empty finite set of numbers has a greatest one: the one with the
\* smallest set of others above it.
LEMMA GreatestExists ==
  ASSUME NEW S \in SUBSET Nat, IsFiniteSet(S), S # {}
  PROVE  \E m \in S : \A x \in S : x <= m
  <1> DEFINE Above(m) == {y \in S : y > m}
             Sets == {Above(m) : m \in S}
  <1>1. Sets \subseteq FiniteSubsetsOf(S) /\ Sets # {}
    <2>1. \A m \in S : Above(m) \in SUBSET S /\ IsFiniteSet(Above(m))
      BY FS_Subset
    <2> QED
      BY <2>1 DEF FiniteSubsetsOf
  <1>2. PICK A \in Sets : \A B \in Sets : ~(<<B, A>> \in StrictSubsetOrdering(S))
    <2> HIDE DEF Sets
    <2> QED
      BY <1>1, FS_StrictSubsetOrderingWellFounded, WFMin
  <1>3. PICK m \in S : A = Above(m)
    OBVIOUS
  <1>4. ASSUME NEW x \in S, x > m PROVE FALSE
    <2>1. Above(x) \subseteq Above(m) /\ x \in Above(m) /\ x \notin Above(x)
      <3>1. \A y \in S : y > x => y > m
        BY <1>4
      <3>2. ~(x > x)
        OBVIOUS
      <3> QED
        BY <1>4, <3>1, <3>2
    <2>2. <<Above(x), Above(m)>> \in StrictSubsetOrdering(S)
      BY <2>1 DEF StrictSubsetOrdering
    <2> QED
      BY <1>2, <1>3, <2>2
  <1> QED
    BY <1>4

LEMMA NewestIn ==
  ASSUME NEW S \in SUBSET Nat, IsFiniteSet(S), S # {}
  PROVE  Newest(S) \in S /\ \A m \in S : m <= Newest(S)
  BY GreatestExists DEF Newest

LEMMA NoTreeType ==
  /\ NoTree \in Trees /\ NoTree.is = "none" /\ ~NoTree.touched /\ NoTree.links = {}
  /\ Foreign \in Trees /\ Foreign.is = "foreign"
  BY DEF NoTree, Foreign, Trees

LEMMA NoReportType == NoReport \in Reports /\ ~NoReport.there
  BY DEF NoReport, Reports, Counts, None

LEMMA IdleType == Idle \in Runs /\ Idle.at = "idle" /\ Idle.op = "run" /\ ~Idle.insertion
  BY ArchiveAssumption DEF Idle, Runs, Points, Counts, None, Marks, NoMark

LEMMA Moments == 1..MaxNow \subseteq Instant /\ Instant \subseteq Nat /\ 0 \notin Instant
  BY ArchiveAssumption, RetentionAssumption

-----------------------------------------------------------------------------
(***************************************************************************)
(* Types                                                                   *)
(***************************************************************************)
\* The pipeline of a run, up to its retention.
Pipeline == {"claim", "list", "guard", "transfer", "rsync", "verify", "promote", "rename",
             "collapse", "history"}

Started(r) ==
  /\ r.at \in Pipeline \cup {"report"} => r.op = "run"
  /\ r.at # "idle" /\ r.op = "run" => r.start \in 1..MaxNow

TypeInv ==
  /\ TypeOK
  /\ IsFiniteSet(Complete)
  /\ \A n \in Instant : reports[n].there => n \in 1..MaxNow
  /\ \A p \in Runner : Started(run[p])

\* A process's step replaces its own operation and no other.
LEMMA Placed ==
  ASSUME TypeOK, NEW p \in Runner, NEW d \in Runs, run' = [run EXCEPT ![p] = d]
  PROVE  /\ run' \in [Runner -> Runs] /\ run'[p] = d
         /\ \A q \in Runner \ {p} : run'[q] = run[q]
  BY DEF TypeOK

\* An operation that goes to another program point keeps its locals.
LEMMA Gone ==
  ASSUME TypeOK, NEW p \in Runner, NEW point \in Points, Goto(p, point)
  PROVE  /\ run' \in [Runner -> Runs]
         /\ run'[p].at = point /\ run'[p].op = run[p].op /\ run'[p].start = run[p].start
         /\ run'[p].force = run[p].force /\ run'[p].insertion = run[p].insertion
         /\ run'[p].todo = run[p].todo /\ run'[p].attempt = run[p].attempt
         /\ \A q \in Runner \ {p} : run'[q] = run[q]
  BY DEF TypeOK, Goto, Runs

\* A transfer that has failed for good leaves its attempts behind.
LEMMA GivenUp ==
  ASSUME TypeOK, NEW p \in Runner, TransferFails(p)
  PROVE  \E d \in Runs : /\ run' = [run EXCEPT ![p] = d]
                         /\ d = [run[p] EXCEPT !.attempt = 1, !.at = "release"]
  <1> DEFINE d == [run[p] EXCEPT !.attempt = 1, !.at = "release"]
  <1>1. run[p] \in Runs /\ 1 \in 1..Attempts
    BY ArchiveAssumption DEF TypeOK
  <1>2. d \in Runs
    BY <1>1 DEF Runs, Points
  <1>3. run' = [run EXCEPT ![p] = d]
    BY DEF TransferFails, TypeOK
  <1> QED
    BY <1>2, <1>3

\* While a process works on the root, every other one is outside.
Outside(p) == run[p].at \in {"idle", "lock", "report"}

LEMMA Alone ==
  ASSUME TypeOK, NEW p \in Runner, ~Outside(p)
  PROVE  holder = p /\ \A q \in Runner \ {p} : Outside(q)
  BY DEF TypeOK, Outside

LEMMA InitType == Init => TypeInv
  <1> SUFFICES ASSUME Init PROVE TypeInv
    OBVIOUS
  <1>1. Complete = {}
    BY NoTreeType DEF Init, Complete
  <1>2. IsFiniteSet(Complete)
    BY <1>1, FS_EmptySet
  <1>3. TypeOK
    BY ArchiveAssumption, NoTreeType, NoReportType, IdleType DEF Init, TypeOK
  <1>4. /\ \A n \in Instant : reports[n].there => n \in 1..MaxNow
        /\ \A p \in Runner : Started(run[p])
    BY NoReportType, IdleType DEF Init, Started, Pipeline
  <1> QED
    BY <1>2, <1>3, <1>4 DEF TypeInv

\* The newest member of a listing of reports or snapshots, or none.
LEMMA MarkType == ASSUME TypeInv PROVE NewestHistoryMark \in Marks
  <1> DEFINE S == {n \in Instant : reports[n].there /\ reports[n].count # None}
  <1>1. S \in SUBSET (1..MaxNow) /\ IsFiniteSet(1..MaxNow)
    BY FS_Interval, ArchiveAssumption DEF TypeInv
  <1>2. S \in SUBSET Nat /\ S \in SUBSET Instant /\ IsFiniteSet(S)
    BY <1>1, FS_Subset, Moments
  <1> HIDE DEF S
  <1>3. CASE S = {}
    BY <1>3 DEF NewestHistoryMark, S, NoMark, Marks
  <1>4. CASE S # {}
    <2>1. Newest(S) \in S
      BY <1>2, <1>4, NewestIn
    <2>2. Newest(S) \in Instant /\ reports[Newest(S)].count \in Nat
      BY <2>1 DEF S, TypeInv, TypeOK, Reports, Counts
    <2>3. NewestHistoryMark = [newest |-> Newest(S), count |-> reports[Newest(S)].count]
      BY <1>4 DEF NewestHistoryMark, S
    <2> QED
      BY <2>2, <2>3 DEF Marks
  <1> QED
    BY <1>3, <1>4

LEMMA ListingType ==
  ASSUME TypeInv
  PROVE  /\ Complete \in SUBSET Instant /\ Complete \in SUBSET Nat
         /\ Cardinality(Complete) \in Nat
         /\ PruneList(Complete) \in SUBSET Complete
         /\ Complete # {} => /\ Newest(Complete) \in Complete
                             /\ \A m \in Complete : m <= Newest(Complete)
  <1>1. Complete \in SUBSET Instant /\ Complete \in SUBSET Nat
    BY Moments DEF Complete
  <1>2. Cardinality(Complete) \in Nat
    BY FS_CardinalityType DEF TypeInv
  <1>3. PruneList(Complete) \in SUBSET Complete
    BY DEF PruneList, Prune, Genuine
  <1> QED
    BY <1>1, <1>2, <1>3, NewestIn DEF TypeInv

\* What a step of p makes of the operations.
Moved(p) == /\ run' \in [Runner -> Runs] /\ Started(run'[p])
            /\ \A q \in Runner \ {p} : run'[q] = run[q]

\* A process on the root takes a step.
LEMMA InsideStep ==
  ASSUME TypeInv, NEW p \in Runner, ~Outside(p), Moved(p), UNCHANGED <<reports, holder, env>>,
         complete' \in [Instant -> Trees], partial' \in [Instant -> Trees],
         deleting' \in SUBSET Instant, NEW n, Complete' \in SUBSET (Complete \cup {n})
  PROVE  TypeInv'
  <1>1. holder = p
    BY Alone DEF TypeInv
  <1>2. IsFiniteSet(Complete')
    BY FS_AddElement, FS_Subset DEF TypeInv
  <1>3. \A q \in Runner : run'[q].at \notin {"idle", "lock", "report"} => holder' = q
    BY <1>1 DEF TypeInv, TypeOK, Moved
  <1>4. TypeOK'
    BY <1>3 DEF TypeInv, TypeOK, Moved, env
  <1>5. \A q \in Runner : Started(run'[q])
    BY DEF TypeInv, Moved
  <1> QED
    BY <1>2, <1>4, <1>5 DEF TypeInv

LEMMA SameTrees ==
  ASSUME TypeInv, UNCHANGED <<complete, partial, deleting>>
  PROVE  /\ complete' \in [Instant -> Trees] /\ partial' \in [Instant -> Trees]
         /\ deleting' \in SUBSET Instant /\ Complete' \in SUBSET (Complete \cup {0})
  BY DEF TypeInv, TypeOK, Complete

LEMMA InsideGoto ==
  ASSUME TypeInv, NEW p \in Runner, NEW point \in Points, Goto(p, point),
         point \in Pipeline => run[p].op = "run", point # "report", run[p].at # "idle"
  PROVE  Moved(p)
  BY Gone DEF TypeInv, Moved, Started

LEMMA InsidePlaced ==
  ASSUME TypeInv, NEW p \in Runner, NEW d \in Runs, run' = [run EXCEPT ![p] = d],
         d.at \in Pipeline => d.op = "run", d.at \notin {"report", "idle"},
         d.op = run[p].op, d.start = run[p].start, run[p].at # "idle"
  PROVE  Moved(p)
  BY Placed DEF TypeInv, Moved, Started

\* The steps of a run from its claim to its promotion.
LEMMA ClaimType ==
  ASSUME TypeInv, NEW p \in Runner, ClaimSweep(p) \/ ClaimResume(p) \/ ClaimFresh(p)
  PROVE  TypeInv'
  <1>0. run[p].at = "claim" /\ run[p].op = "run" /\ ~Outside(p)
    BY DEF ClaimSweep, ClaimResume, ClaimFresh, At, TypeInv, Started, Pipeline, Outside
  <1>1. Moved(p)
    <2>1. CASE UNCHANGED run
      BY <2>1 DEF TypeInv, TypeOK, Moved
    <2>2. CASE Goto(p, "list")
      BY <1>0, <2>2, InsideGoto DEF Points
    <2> QED
      BY <2>1, <2>2 DEF ClaimSweep, ClaimResume, ClaimFresh
  <1>2. partial' \in [Instant -> Trees]
    <2>1. CASE ClaimSweep(p)
      BY <2>1, NoTreeType DEF ClaimSweep, TypeInv, TypeOK
    <2>2. CASE ClaimResume(p)
      <3>1. PICK n \in Partials :
                partial' = [[partial EXCEPT ![n] = NoTree] EXCEPT ![run[p].start] = partial[n]]
        BY <2>2 DEF ClaimResume
      <3>2. n \in Instant /\ partial[n] \in Trees
        BY DEF Partials, TypeInv, TypeOK
      <3> QED
        BY <3>1, <3>2, NoTreeType DEF TypeInv, TypeOK
    <2>3. CASE ClaimFresh(p)
      BY <2>3, NoTreeType DEF ClaimFresh
    <2> QED
      BY <2>1, <2>2, <2>3
  <1>3. /\ complete' = complete /\ deleting' \in SUBSET Instant
        /\ UNCHANGED <<reports, holder, env>>
    BY DEF ClaimSweep, ClaimResume, ClaimFresh, TypeInv, TypeOK
  <1>4. complete' \in [Instant -> Trees] /\ Complete' \in SUBSET (Complete \cup {0})
    BY <1>3 DEF TypeInv, TypeOK, Complete
  <1> QED
    BY <1>0, <1>1, <1>2, <1>3, <1>4, InsideStep

LEMMA GuardsType ==
  ASSUME TypeInv, NEW p \in Runner,
         \/ ListComplete(p) \/ DiskGuard(p) \/ TransferRetry(p) \/ TransferFails(p)
         \/ VerifyPass(p) \/ PromoteCheck(p) \/ RemovedAll(p)
  PROVE  TypeInv'
  <1>0. /\ ~Outside(p) /\ run[p].at \in Pipeline \cup {"remove"} /\ run[p].at # "idle"
        /\ run[p].at \in Pipeline => run[p].op = "run"
        /\ run[p] \in Runs
        /\ UNCHANGED <<reports, holder, env>> /\ UNCHANGED <<complete, partial, deleting>>
    BY DEF ListComplete, DiskGuard, TransferRetry, TransferFails, VerifyPass, PromoteCheck,
           RemovedAll, At, TypeInv, TypeOK, Started, Pipeline, Outside, root
  <1>1. Moved(p)
    <2>1. CASE ListComplete(p) /\ ~Finish(p)
      <3> DEFINE newest == IF Complete = {} THEN 0 ELSE Newest(Complete)
                 d == [run[p] EXCEPT !.base = newest, !.at = "guard"]
      <3>1. newest \in Instant \cup {0}
        BY ListingType
      <3>2. d \in Runs /\ d.at = "guard" /\ d.op = run[p].op /\ d.start = run[p].start
        BY <1>0, <3>1 DEF Runs, Points
      <3>3. run' = [run EXCEPT ![p] = d]
        BY <2>1 DEF ListComplete, TypeInv, TypeOK
      <3>4. d.op = "run"
        BY <1>0, <2>1, <3>2 DEF ListComplete, At, Pipeline
      <3> HIDE DEF d
      <3> QED
        BY <1>0, <3>2, <3>3, <3>4, InsidePlaced
    <2>2. CASE TransferRetry(p)
      <3> DEFINE d == [run[p] EXCEPT !.attempt = @ + 1, !.at = "transfer"]
      <3>1. run[p].attempt + 1 \in 1..Attempts
        BY <1>0, <2>2, ArchiveAssumption DEF TransferRetry, Runs
      <3>2. d \in Runs /\ d.at = "transfer" /\ d.op = run[p].op /\ d.start = run[p].start
        BY <1>0, <3>1 DEF Runs, Points
      <3>3. run' = [run EXCEPT ![p] = d]
        BY <2>2 DEF TransferRetry, TypeInv, TypeOK
      <3>4. d.op = "run"
        BY <1>0, <2>2, <3>2 DEF TransferRetry, At, Pipeline
      <3> HIDE DEF d
      <3> QED
        BY <1>0, <3>2, <3>3, <3>4, InsidePlaced
    <2>3. CASE Finish(p)
      BY <1>0, <2>3, InsideGoto DEF Finish, Points, Pipeline
    <2>4. ASSUME NEW point \in {"transfer", "promote", "rename"}, Goto(p, point),
                 run[p].at # "remove"
          PROVE  Moved(p)
      BY <1>0, <2>4, InsideGoto DEF Points
    <2>5. CASE DiskGuard(p)
      BY <2>3, <2>4, <2>5 DEF DiskGuard, At
    <2>6. CASE VerifyPass(p)
      BY <2>3, <2>4, <2>6 DEF VerifyPass, At
    <2>7. CASE PromoteCheck(p)
      BY <2>3, <2>4, <2>7 DEF PromoteCheck, At
    <2>8. CASE RemovedAll(p)
      BY <2>3, <2>8 DEF RemovedAll
    <2>9. CASE TransferFails(p)
      <3>1. PICK d \in Runs : /\ run' = [run EXCEPT ![p] = d]
                             /\ d = [run[p] EXCEPT !.attempt = 1, !.at = "release"]
        BY <2>9, GivenUp DEF TypeInv
      <3>2. d.at = "release" /\ d.op = run[p].op /\ d.start = run[p].start
        BY <1>0, <3>1 DEF Runs
      <3> QED
        BY <1>0, <3>1, <3>2, InsidePlaced DEF Pipeline
    <2> QED
      BY <2>1, <2>2, <2>3, <2>5, <2>6, <2>7, <2>8, <2>9
  <1> QED
    BY <1>0, <1>1, SameTrees, InsideStep

LEMMA TransferType ==
  ASSUME TypeInv, NEW p \in Runner, TransferStart(p) \/ TransferDone(p) \/ PromoteMove(p)
  PROVE  TypeInv'
  <1> DEFINE n == run[p].start
  <1>0. /\ ~Outside(p) /\ run[p].at # "idle" /\ run[p].op = "run" /\ run[p] \in Runs
        /\ UNCHANGED <<deleting, reports, holder, env>>
        /\ n \in Instant
    BY Moments DEF TransferStart, TransferDone, PromoteMove, At, TypeInv, TypeOK, Started,
                   Pipeline, Outside
  <1>1. Moved(p)
    <2>1. CASE Goto(p, "rsync") \/ Goto(p, "collapse") \/ Finish(p)
      BY <1>0, <2>1, InsideGoto DEF Finish, Points, Pipeline
    <2>2. CASE TransferDone(p)
      <3>1. PICK f \in Counts :
                run' = [run EXCEPT ![p].files = f, ![p].attempt = 1,
                                   ![p].at = IF Verify THEN "verify" ELSE "promote"]
        BY <2>2, ArchiveAssumption DEF TransferDone, Counts, TypeInv, TypeOK
      <3> DEFINE d == [run[p] EXCEPT !.files = f, !.attempt = 1,
                                     !.at = IF Verify THEN "verify" ELSE "promote"]
      <3>0. 1 \in 1..Attempts
        BY ArchiveAssumption
      <3>2. d \in Runs /\ d.op = "run" /\ d.start = run[p].start
            /\ d.at \in {"verify", "promote"}
        BY <1>0, <3>0 DEF Runs, Points
      <3>3. run' = [run EXCEPT ![p] = d]
        BY <3>1 DEF TypeInv, TypeOK
      <3> HIDE DEF d
      <3> QED
        BY <1>0, <3>2, <3>3, InsidePlaced
    <2> QED
      BY <2>1, <2>2 DEF TransferStart, PromoteMove
  <1>2. \A tree \in Trees : /\ [tree EXCEPT !.touched = TRUE] \in Trees
                            /\ [tree EXCEPT !.touched = TRUE].is = tree.is
                            /\ [tree EXCEPT !.is = "whole"] \in Trees
    BY DEF Trees
  <1>3. complete' \in [Instant -> Trees] /\ Complete' \in SUBSET (Complete \cup {n})
    <2>1. CASE TransferStart(p)
      <3>1. PICK hit : complete' = [m \in Instant |->
                           IF m \in hit THEN [complete[m] EXCEPT !.touched = TRUE]
                                        ELSE complete[m]]
        BY <2>1 DEF TransferStart
      <3>2. \A m \in Instant : complete'[m] \in Trees /\ complete'[m].is = complete[m].is
        BY <1>2, <3>1 DEF TypeInv, TypeOK
      <3> QED
        BY <3>1, <3>2 DEF Complete
    <2>2. CASE TransferDone(p)
      BY <2>2 DEF TransferDone, TypeInv, TypeOK, Complete
    <2>3. CASE PromoteMove(p)
      <3>1. complete' = complete \/ complete' = [complete EXCEPT ![n] = partial[n]]
        BY <2>3 DEF PromoteMove
      <3> QED
        BY <1>0, <3>1 DEF TypeInv, TypeOK, Complete
    <2> QED
      BY <2>1, <2>2, <2>3
  <1>4. partial' \in [Instant -> Trees]
    <2>1. CASE TransferStart(p)
      <3> DEFINE based == IF run[p].base = 0 THEN {} ELSE {run[p].base} \cup complete[run[p].base].links
                 t == [is |-> "torn", links |-> partial[n].links \cup based, touched |-> FALSE]
      <3>1. based \in SUBSET Instant
        BY <1>0 DEF Runs, TypeInv, TypeOK, Trees
      <3> HIDE DEF based
      <3>2. t \in Trees
        BY <1>0, <3>1 DEF TypeInv, TypeOK, Trees
      <3>3. partial' = [partial EXCEPT ![n] = t]
        BY <2>1 DEF TransferStart, based
      <3> QED
        BY <3>2, <3>3 DEF TypeInv, TypeOK
    <2>2. CASE TransferDone(p)
      <3>1. partial' = [partial EXCEPT ![n] = [partial[n] EXCEPT !.is = "whole"]]
        BY <2>2 DEF TransferDone, TypeInv, TypeOK
      <3> QED
        BY <1>0, <1>2, <3>1 DEF TypeInv, TypeOK
    <2>3. CASE PromoteMove(p)
      BY <2>3, NoTreeType DEF PromoteMove, TypeInv, TypeOK
    <2> QED
      BY <2>1, <2>2, <2>3
  <1>5. deleting' \in SUBSET Instant
    BY <1>0 DEF TypeInv, TypeOK
  <1> HIDE DEF n
  <1> QED
    BY <1>0, <1>1, <1>3, <1>4, <1>5, InsideStep

\* Retention: the plan, and its deletions.
LEMMA FailedType ==
  ASSUME TypeInv, NEW p \in Runner, run[p].at \in {"remove", "rm"}, RemoveFailed(p)
  PROVE  Moved(p) /\ run'[p].at \in {"release", "remove"}
  <1> DEFINE next == IF run[p].op = "run" THEN "release" ELSE "remove"
             d == [run[p] EXCEPT !.todo = @ \ {Oldest(@)}, !.at = next]
  <1>1. run' = [run EXCEPT ![p] = d]
    BY DEF RemoveFailed, TypeInv, TypeOK
  <1>2. run[p] \in Runs /\ next \in {"release", "remove"}
    BY DEF TypeInv, TypeOK
  <1> HIDE DEF next
  <1>3. d \in Runs /\ d.at = next /\ d.op = run[p].op /\ d.start = run[p].start
    BY <1>2 DEF Runs, Points
  <1> HIDE DEF d
  <1>4. Moved(p)
    BY <1>1, <1>2, <1>3, InsidePlaced DEF Pipeline
  <1>5. run'[p] = d
    BY <1>1, <1>3, Placed DEF TypeInv
  <1> QED
    BY <1>2, <1>3, <1>4, <1>5

LEMMA PlanType ==
  ASSUME TypeInv, NEW p \in Runner, Collapse(p) \/ History(p) \/ PrunePlan(p)
  PROVE  TypeInv'
  <1>0. /\ ~Outside(p) /\ run[p].at # "idle" /\ run[p] \in Runs
        /\ UNCHANGED <<reports, holder, env>> /\ UNCHANGED <<complete, partial, deleting>>
    <2>1. run[p].at \in {"collapse", "history", "prunelist"}
      BY DEF Collapse, History, PrunePlan, At
    <2>2. UNCHANGED <<root, reports, holder, env>>
      BY Zenon DEF Collapse, History, PrunePlan
    <2> QED
      BY <2>1, <2>2 DEF TypeInv, TypeOK, Outside, root
  <1>p. PruneList(Complete) \in SUBSET Instant /\ Cardinality(Complete) \in Nat
    BY ListingType
  <1>1. Moved(p)
    <2>1. CASE Collapse(p)
      <3> DEFINE d == [run[p] EXCEPT !.collapse = CollapseAgainst(NewestStats, run[p].files),
                                     !.at = "history"]
      <3>1. CollapseAgainst(NewestStats, run[p].files) \in BOOLEAN
        BY DEF CollapseAgainst
      <3>2. d \in Runs /\ d.at = "history" /\ d.op = run[p].op /\ d.start = run[p].start
        BY <1>0, <3>1 DEF Runs, Points
      <3>3. run' = [run EXCEPT ![p] = d]
        BY <2>1 DEF Collapse, TypeInv, TypeOK
      <3>4. d.op = "run"
        BY <2>1, <3>2 DEF Collapse, At, TypeInv, Started, Pipeline
      <3> HIDE DEF d
      <3> QED
        BY <1>0, <3>2, <3>3, <3>4, InsidePlaced
    <2>2. CASE History(p)
      <3> DEFINE inserted == DetectHistoryInsertion(Complete, NewestHistoryMark)
                 plan == IF run[p].collapse \/ inserted THEN {} ELSE PruneList(Complete)
                 d == [run[p] EXCEPT !.count = Cardinality(Complete), !.insertion = inserted,
                                     !.todo = plan, !.at = "remove"]
      <3>1. inserted \in BOOLEAN /\ plan \in SUBSET Instant
        BY <1>p DEF DetectHistoryInsertion
      <3> HIDE DEF inserted, plan
      <3>2. d \in Runs /\ d.at = "remove" /\ d.op = run[p].op /\ d.start = run[p].start
        BY <1>0, <1>p, <3>1 DEF Runs, Points, Counts
      <3>3. run' = [run EXCEPT ![p] = d]
        BY <2>2 DEF History, TypeInv, TypeOK, inserted, plan
      <3> HIDE DEF d
      <3> QED
        BY <1>0, <3>2, <3>3, InsidePlaced DEF Pipeline
    <2>3. CASE PrunePlan(p)
      <3> DEFINE refused == InsertionRefusal(p)
                 plan == IF refused THEN {} ELSE PruneList(Complete)
                 d == [run[p] EXCEPT !.insertion = refused, !.todo = plan, !.at = "remove"]
      <3>1. refused \in BOOLEAN /\ plan \in SUBSET Instant
        BY <1>p DEF InsertionRefusal
      <3> HIDE DEF refused, plan
      <3>2. d \in Runs /\ d.at = "remove" /\ d.op = run[p].op /\ d.start = run[p].start
        BY <1>0, <3>1 DEF Runs, Points
      <3>3. run' = [run EXCEPT ![p] = d]
        BY <2>3 DEF PrunePlan, TypeInv, TypeOK, refused, plan
      <3> HIDE DEF d
      <3> QED
        BY <1>0, <3>2, <3>3, InsidePlaced DEF Pipeline
    <2> QED
      BY <2>1, <2>2, <2>3
  <1> QED
    BY <1>0, <1>1, SameTrees, InsideStep

LEMMA RemoveType ==
  ASSUME TypeInv, NEW p \in Runner, Remove(p) \/ RemoveTree(p)
  PROVE  TypeInv'
  <1> DEFINE n == Oldest(run[p].todo)
  <1>0. /\ ~Outside(p) /\ run[p].at \in {"remove", "rm"} /\ run[p] \in Runs
        /\ UNCHANGED <<partial, reports, holder, env>>
    BY DEF Remove, RemoveTree, At, TypeInv, TypeOK, Outside, root
  <1>1. CASE RemoveFailed(p) /\ UNCHANGED root
    BY <1>0, <1>1, FailedType, SameTrees, InsideStep DEF root
  <1>2. CASE /\ n \in Complete /\ complete' = [complete EXCEPT ![n] = NoTree]
             /\ deleting' = deleting \cup {n} /\ Goto(p, "rm")
    <2>1. Moved(p)
      BY <1>0, <1>2, InsideGoto DEF Points, Pipeline
    <2>2. n \in Instant
      BY <1>2 DEF Complete
    <2>3. /\ complete' \in [Instant -> Trees] /\ Complete' \in SUBSET (Complete \cup {n})
          /\ deleting' \in SUBSET Instant /\ partial' \in [Instant -> Trees]
      BY <1>0, <1>2, <2>2, NoTreeType DEF TypeInv, TypeOK, Complete
    <2> HIDE DEF n
    <2> QED
      BY <1>0, <2>1, <2>3, InsideStep
  <1>3. CASE RemoveTree(p)
    <2> DEFINE d == [run[p] EXCEPT !.todo = @ \ {Oldest(@)}, !.at = "remove"]
    <2>1. d \in Runs /\ d.at = "remove" /\ d.op = run[p].op /\ d.start = run[p].start
      BY <1>0 DEF Runs, Points
    <2>2. run' = [run EXCEPT ![p] = d]
      BY <1>3 DEF RemoveTree, TypeInv, TypeOK
    <2> HIDE DEF d
    <2>3. Moved(p)
      BY <1>0, <2>1, <2>2, InsidePlaced DEF Pipeline
    <2>4. /\ complete' \in [Instant -> Trees] /\ Complete' \in SUBSET (Complete \cup {n})
          /\ deleting' \in SUBSET Instant /\ partial' \in [Instant -> Trees]
      BY <1>0, <1>3 DEF RemoveTree, TypeInv, TypeOK, Complete
    <2> HIDE DEF n
    <2> QED
      BY <1>0, <2>3, <2>4, InsideStep
  <1> QED
    BY <1>1, <1>2, <1>3 DEF Remove

LEMMA StoreFailsType ==
  ASSUME TypeInv, NEW p \in Runner, StoreFails(p)
  PROVE  TypeInv'
  <1>0. ~Outside(p) /\ run[p].at # "idle" /\ UNCHANGED <<reports, holder, env>>
        /\ UNCHANGED <<complete, partial, deleting>>
    BY DEF StoreFails, Outside, root
  <1>1. Moved(p)
    <2>1. CASE run[p].at \in {"remove", "rm"}
      BY <2>1, FailedType DEF StoreFails
    <2>2. CASE run[p].at \notin {"remove", "rm"}
      BY <1>0, <2>2, InsideGoto DEF StoreFails, Finish, Points, Pipeline
    <2> QED
      BY <2>1, <2>2
  <1> QED
    BY <1>0, <1>1, SameTrees, InsideStep

\* Steps outside the lock: the archive root does not change.
LEMMA OutsideStep ==
  ASSUME TypeInv, NEW p \in Runner, Moved(p), UNCHANGED <<complete, partial, deleting, now, source>>,
         crashes' \in 0..MaxCrash,
         holder' \in Runner \cup {Nobody},
         run'[p].at \notin {"idle", "lock", "report"} => holder' = p,
         holder' # holder => holder \in {p, Nobody},
         reports' \in [Instant -> Reports],
         \A n \in Instant : reports'[n].there => n \in 1..MaxNow
  PROVE  TypeInv'
  <1>1. \A q \in Runner : run'[q].at \notin {"idle", "lock", "report"} => holder' = q
    BY ArchiveAssumption DEF TypeInv, TypeOK, Moved
  <1>2. TypeOK'
    BY <1>1 DEF TypeInv, TypeOK, Moved
  <1>3. Complete' = Complete
    BY DEF Complete
  <1>4. \A q \in Runner : Started(run'[q])
    BY DEF TypeInv, Moved
  <1> QED
    BY <1>2, <1>3, <1>4 DEF TypeInv

LEMMA BeginType ==
  ASSUME TypeInv, NEW p \in Runner, NEW op \in {"run", "prune"}, NEW force \in BOOLEAN,
         Begin(p, op, force)
  PROVE  TypeInv'
  <1> DEFINE start == IF op = "run" THEN now ELSE 0
             mark == IF op = "run" THEN NoMark ELSE NewestHistoryMark
             d == [Idle EXCEPT !.at = "lock", !.op = op, !.force = force, !.start = start,
                               !.mark = mark]
  <1>1. run' = [run EXCEPT ![p] = d]
    BY DEF Begin
  <1>2. /\ start \in Instant \cup {0} /\ mark \in Marks
        /\ op = "run" => start \in 1..MaxNow
    BY MarkType, Moments DEF NoMark, Marks, TypeInv, TypeOK
  <1> HIDE DEF start, mark
  <1>3. d \in Runs /\ d.at = "lock" /\ d.op = op /\ d.start = start
    BY <1>2, IdleType DEF Runs, Points
  <1> HIDE DEF d
  <1>4. Moved(p) /\ run'[p].at = "lock"
    BY <1>1, <1>2, <1>3, Placed DEF TypeInv, Moved, Started, Pipeline
  <1>5. UNCHANGED <<complete, partial, deleting, reports, holder, now, source, crashes>>
    BY DEF Begin, root, env
  <1> QED
    BY <1>4, <1>5, OutsideStep DEF TypeInv, TypeOK

LEMMA AcquireType ==
  ASSUME TypeInv, NEW p \in Runner, Acquire(p)
  PROVE  TypeInv'
  <1> DEFINE point == IF run[p].op = "run" THEN "claim" ELSE "prunelist"
  <1>1. /\ point \in Points /\ (point \in Pipeline => run[p].op = "run") /\ point # "report"
        /\ run[p].at = "lock" /\ Goto(p, point)
    BY DEF Acquire, Points, Pipeline, At
  <1>2. Moved(p)
    BY <1>1, InsideGoto
  <1>3. /\ UNCHANGED <<complete, partial, deleting, reports, now, source, crashes>>
        /\ holder = Nobody /\ holder' = p
    BY DEF Acquire, root, env
  <1> QED
    BY <1>2, <1>3, OutsideStep DEF TypeInv, TypeOK

\* An operation ends, or goes to write its report.
LEMMA Ended ==
  ASSUME TypeInv, NEW p \in Runner, run' = [run EXCEPT ![p] = Idle]
  PROVE  Moved(p) /\ run'[p].at = "idle"
  BY Placed, IdleType DEF TypeInv, Moved, Started, Pipeline

LEMMA Reporting ==
  ASSUME TypeInv, NEW p \in Runner, run[p].op = "run", NEW start \in 1..MaxNow,
         run' = [run EXCEPT ![p].at = "report", ![p].start = start]
  PROVE  Moved(p) /\ run'[p].at = "report"
  <1> DEFINE d == [run[p] EXCEPT !.at = "report", !.start = start]
  <1>1. run' = [run EXCEPT ![p] = d]
    BY DEF TypeInv, TypeOK
  <1>2. run[p] \in Runs /\ start \in Instant
    BY Moments DEF TypeInv, TypeOK
  <1>3. d \in Runs /\ d.at = "report" /\ d.op = "run" /\ d.start = start
    BY <1>2 DEF Runs, Points
  <1> HIDE DEF d
  <1> QED
    BY <1>1, <1>3, Placed DEF TypeInv, Moved, Started

LEMMA LockHeldType ==
  ASSUME TypeInv, NEW p \in Runner, LockHeld(p)
  PROVE  TypeInv'
  <1>1. Moved(p) /\ run'[p].at \in {"idle", "report"}
    <2>1. CASE run' = [run EXCEPT ![p] = Idle]
      BY <2>1, Ended
    <2>2. CASE run[p].op = "run" /\ run' = [run EXCEPT ![p].at = "report", ![p].start = now]
      BY <2>2, Reporting DEF TypeInv, TypeOK
    <2>3. CASE run[p].op = "run" /\ Goto(p, "report")
      <3>1. run[p].at = "lock"
        BY DEF LockHeld, At
      <3> QED
        BY <2>3, <3>1, Gone DEF Points, TypeInv, Moved, Started
    <2> QED
      BY <2>1, <2>2, <2>3 DEF LockHeld
  <1>2. UNCHANGED <<complete, partial, deleting, reports, holder, now, source, crashes>>
    BY DEF LockHeld, root, env
  <1> QED
    BY <1>1, <1>2, OutsideStep DEF TypeInv, TypeOK

LEMMA ReleaseType ==
  ASSUME TypeInv, NEW p \in Runner, Release(p)
  PROVE  TypeInv'
  <1>1. run[p].at = "release" /\ holder = p
    BY DEF Release, At, TypeInv, TypeOK
  <1>2. Moved(p) /\ run'[p].at \in {"idle", "report"}
    <2>1. CASE run[p].op = "run"
      <3>1. Goto(p, "report")
        BY <2>1 DEF Release, Goto, TypeInv, TypeOK
      <3> QED
        BY <1>1, <2>1, <3>1, Gone DEF Points, TypeInv, Moved, Started
    <2>2. CASE run[p].op # "run"
      <3>1. run' = [run EXCEPT ![p] = Idle]
        BY <2>2 DEF Release, TypeInv, TypeOK
      <3> QED
        BY <3>1, Ended
    <2> QED
      BY <2>1, <2>2
  <1>3. /\ UNCHANGED <<complete, partial, deleting, reports, now, source, crashes>>
        /\ holder' = Nobody
    BY DEF Release, root, env
  <1> QED
    BY <1>1, <1>2, <1>3, OutsideStep DEF TypeInv, TypeOK

LEMMA WriteReportType ==
  ASSUME TypeInv, NEW p \in Runner, WriteReport(p)
  PROVE  TypeInv'
  <1> DEFINE r == run[p]
             new == [there |-> TRUE, files |-> r.files, collapse |-> r.collapse,
                     count |-> r.count]
             all == [reports EXCEPT ![r.start] = new]
  <1>1. r.start \in 1..MaxNow /\ r.start \in Instant
    BY Moments DEF WriteReport, At, TypeInv, Started
  <1>2. new \in Reports
    BY DEF Reports, TypeInv, TypeOK, Runs
  <1> HIDE DEF new
  <1>3. all \in [Instant -> Reports] /\ \A n \in Instant : all[n].there => n \in 1..MaxNow
    BY <1>1, <1>2 DEF TypeInv, TypeOK
  <1> HIDE DEF all
  <1>4. \A n \in Instant : reports'[n] \in {all[n], NoReport}
    <2>1. reports' = WithReport(r.start, new)
      BY DEF WriteReport, new
    <2>2. reports' = [m \in Instant |->
              IF Cardinality({k \in Instant : k > m /\ all[k].there}) < Kept
              THEN all[m] ELSE NoReport]
      BY <2>1, Zenon DEF WithReport, all
    <2> QED
      BY <2>2
  <1>5. reports' = [n \in Instant |-> reports'[n]]
    BY DEF WriteReport, WithReport
  <1>6. reports' \in [Instant -> Reports]
        /\ \A n \in Instant : reports'[n].there => n \in 1..MaxNow
    <2>1. \A n \in Instant : reports'[n] \in Reports
      BY <1>3, <1>4, NoReportType
    <2> QED
      BY <1>3, <1>4, <1>5, <2>1, NoReportType
  <1>7. Moved(p) /\ run'[p].at = "idle"
    BY Ended DEF WriteReport
  <1>8. UNCHANGED <<complete, partial, deleting, holder, now, source, crashes>>
    BY DEF WriteReport, root, env
  <1> QED
    BY <1>6, <1>7, <1>8, OutsideStep DEF TypeInv, TypeOK

LEMMA CrashType ==
  ASSUME TypeInv, NEW p \in Runner, Crash(p)
  PROVE  TypeInv'
  <1>1. Moved(p) /\ run'[p].at = "idle"
    BY Ended DEF Crash
  <1>2. /\ UNCHANGED <<complete, partial, deleting, reports, now, source>>
        /\ crashes' \in 0..MaxCrash /\ holder' \in Runner \cup {Nobody}
        /\ holder' # holder => holder = p
    BY ArchiveAssumption DEF Crash, root, TypeInv, TypeOK
  <1> QED
    BY <1>1, <1>2, OutsideStep DEF TypeInv, TypeOK

LEMMA WorldType == TypeInv /\ (Tick \/ Shrink \/ Plant) => TypeInv'
  <1> SUFFICES ASSUME TypeInv, Tick \/ Shrink \/ Plant PROVE TypeInv'
    OBVIOUS
  <1>1. CASE Tick
    <2>1. now' \in 1..MaxNow
      <3>1. now \in Nat /\ 1 <= now /\ now <= MaxNow /\ MaxNow \in Nat
        BY ArchiveAssumption DEF TypeInv, TypeOK
      <3>2. (now < MaxNow /\ now' = now + 1) \/ now' \in 1..(now - 1)
        BY <1>1 DEF Tick
      <3> QED
        BY <3>1, <3>2
    <2>2. Complete' = Complete
      BY <1>1 DEF Tick, root, Complete
    <2> QED
      BY <1>1, <2>1, <2>2 DEF Tick, root, TypeInv, TypeOK
  <1>2. CASE Shrink
    <2>1. Complete' = Complete
      BY <1>2 DEF Shrink, root, Complete
    <2> QED
      BY <1>2, <2>1 DEF Shrink, root, TypeInv, TypeOK
  <1>3. CASE Plant
    <2>1. PICK n \in Instant \ Complete : complete' = [complete EXCEPT ![n] = Foreign]
      BY <1>3 DEF Plant
    <2>2. complete' \in [Instant -> Trees] /\ Complete' \in SUBSET (Complete \cup {n})
      BY <2>1, NoTreeType DEF TypeInv, TypeOK, Complete
    <2>3. IsFiniteSet(Complete')
      BY <2>2, FS_AddElement, FS_Subset DEF TypeInv
    <2> QED
      BY <1>3, <2>2, <2>3 DEF Plant, TypeInv, TypeOK
  <1> QED
    BY <1>1, <1>2, <1>3

LEMMA StepType == TypeInv /\ [Next]_vars => TypeInv'
  <1> SUFFICES ASSUME TypeInv, [Next]_vars PROVE TypeInv'
    OBVIOUS
  <1>1. ASSUME NEW p \in Runner, Step(p) PROVE TypeInv'
    BY <1>1, ClaimType, GuardsType, TransferType, PlanType, RemoveType, StoreFailsType,
       AcquireType, LockHeldType, ReleaseType, WriteReportType DEF Step
  <1>2. ASSUME UNCHANGED vars PROVE TypeInv'
    <2>1. Complete' = Complete
      BY <1>2 DEF vars, Complete
    <2> QED
      BY <1>2, <2>1 DEF vars, TypeInv, TypeOK
  <1> QED
    BY <1>1, <1>2, BeginType, CrashType, WorldType DEF Next

LEMMA Typed == Spec => []TypeInv
  BY InitType, StepType, PTL DEF Spec

\* Every variable of the archive keeps its type, and whoever is inside the
\* pipeline or inside prune's deletion holds the lock, under every fault.
THEOREM TypeCorrect == Spec => []TypeOK
  <1>1. TypeInv => TypeOK
    BY DEF TypeInv
  <1> QED
    BY <1>1, Typed, PTL
-----------------------------------------------------------------------------
(***************************************************************************)
(* What one process's step does to the root and to its own operation       *)
(***************************************************************************)
\* The points at which a run depends on its partial or on its snapshot.
Working == {"list", "guard", "transfer", "rsync", "verify", "promote", "rename",
            "collapse", "history"}

Others(p) == \A q \in Runner \ {p} : run'[q] = run[q]

\* p waits, cleans up, deletes or ends; snapshots and partials stay.
Rest(p) == /\ UNCHANGED <<complete, partial>> /\ Others(p)
           /\ run'[p].at \notin Working

\* p goes on; snapshots and partials stay, and so does the name it works for.
Onward(p) ==
  /\ UNCHANGED <<complete, partial>> /\ Others(p)
  /\ run'[p].start = run[p].start /\ run'[p].force = run[p].force
  /\ \/ /\ run[p].at = "list" /\ run'[p].at = "guard" /\ ListComplete(p)
        /\ run'[p].attempt = run[p].attempt
     \/ run[p].at = "guard" /\ run'[p].at = "transfer" /\ run'[p].attempt = run[p].attempt
     \/ run[p].at = "rsync" /\ run'[p].at = "transfer" /\ run'[p].attempt # 1
     \/ run[p].at = "verify" /\ run'[p].at = "promote"
     \/ run[p].at = "promote" /\ run'[p].at = "rename"
     \/ run[p].at = "collapse" /\ run'[p].at = "history"

\* The steps that change a snapshot or a partial.
Change(p) == \/ ClaimSweep(p) \/ ClaimResume(p) \/ ClaimFresh(p)
             \/ TransferStart(p) \/ TransferDone(p) \/ PromoteMove(p)
             \/ Remove(p) /\ ~(RemoveFailed(p) /\ UNCHANGED root)

LEMMA Goes ==
  ASSUME TypeInv, NEW p \in Runner, NEW point \in Points, Goto(p, point),
         UNCHANGED <<complete, partial>>
  PROVE  /\ Others(p) /\ run'[p].at = point
         /\ run'[p].start = run[p].start /\ run'[p].force = run[p].force
         /\ run'[p].attempt = run[p].attempt
         /\ point \notin Working => Rest(p)
  BY Gone DEF TypeInv, Others, Rest

LEMMA Finishes ==
  ASSUME TypeInv, NEW p \in Runner, Finish(p), UNCHANGED <<complete, partial>>
  PROVE  Rest(p)
  BY Goes DEF Finish, Points, Working

LEMMA Drops ==
  ASSUME TypeInv, NEW p \in Runner, run[p].at \in {"remove", "rm"}, RemoveFailed(p),
         UNCHANGED <<complete, partial>>
  PROVE  Rest(p)
  BY FailedType DEF Rest, Others, Moved, Working

LEMMA Cases ==
  ASSUME TypeInv, NEW p \in Runner, Step(p)
  PROVE  Rest(p) \/ Onward(p) \/ Change(p)
  <1>1. CASE Acquire(p)
    <2> DEFINE point == IF run[p].op = "run" THEN "claim" ELSE "prunelist"
    <2>1. point \in Points \ Working /\ Goto(p, point) /\ UNCHANGED <<complete, partial>>
      BY <1>1 DEF Acquire, root, Points, Working
    <2> HIDE DEF point
    <2> QED
      BY <2>1, Goes
  <1>2. CASE LockHeld(p)
    <2>1. UNCHANGED <<complete, partial>>
      BY <1>2 DEF LockHeld, root
    <2>2. CASE run' = [run EXCEPT ![p] = Idle]
      BY <2>1, <2>2, Ended DEF Rest, Others, Moved, Working
    <2>3. CASE run[p].op = "run" /\ run' = [run EXCEPT ![p].at = "report", ![p].start = now]
      BY <2>1, <2>3, Reporting DEF TypeInv, TypeOK, Rest, Others, Moved, Working
    <2>4. CASE Goto(p, "report")
      BY <2>1, <2>4, Goes DEF Points, Working
    <2> QED
      BY <1>2, <2>2, <2>3, <2>4 DEF LockHeld
  <1>3. CASE ListComplete(p)
    <2>1. UNCHANGED <<complete, partial>> /\ run[p].at = "list"
      BY <1>3 DEF ListComplete, root, At
    <2>2. CASE Finish(p)
      BY <2>1, <2>2, Finishes
    <2>3. CASE ~Finish(p)
      <3> DEFINE newest == IF Complete = {} THEN 0 ELSE Newest(Complete)
                 d == [run[p] EXCEPT !.base = newest, !.at = "guard"]
      <3>1. newest \in Instant \cup {0} /\ run[p] \in Runs
        BY ListingType DEF TypeInv, TypeOK
      <3>2. d \in Runs /\ d.at = "guard" /\ d.start = run[p].start /\ d.force = run[p].force
            /\ d.attempt = run[p].attempt
        BY <3>1 DEF Runs, Points
      <3>3. run' = [run EXCEPT ![p] = d]
        BY <1>3, <2>3 DEF ListComplete, TypeInv, TypeOK
      <3> HIDE DEF d
      <3>4. run'[p] = d /\ Others(p)
        BY <3>2, <3>3, Placed DEF TypeInv, Others
      <3> QED
        BY <1>3, <2>1, <3>2, <3>4 DEF Onward
    <2> QED
      BY <2>2, <2>3
  <1>4. CASE DiskGuard(p)
    <2>1. UNCHANGED <<complete, partial>> /\ run[p].at = "guard"
      BY <1>4 DEF DiskGuard, root, At
    <2>2. CASE Goto(p, "transfer")
      BY <2>1, <2>2, Goes DEF Onward, Points
    <2> QED
      BY <1>4, <2>1, <2>2, Finishes DEF DiskGuard
  <1>5. CASE TransferRetry(p)
    <2>1. UNCHANGED <<complete, partial>> /\ run[p].at = "rsync" /\ run[p].attempt < Attempts
          /\ run[p] \in Runs
      BY <1>5 DEF TransferRetry, root, At, TypeInv, TypeOK
    <2>2. run[p].attempt + 1 \in 1..Attempts /\ run[p].attempt + 1 # 1
      BY <2>1, ArchiveAssumption DEF Runs
    <2> DEFINE d == [run[p] EXCEPT !.attempt = @ + 1, !.at = "transfer"]
    <2>3. d \in Runs /\ d.at = "transfer" /\ d.start = run[p].start /\ d.force = run[p].force
          /\ d.attempt # 1
      BY <2>1, <2>2 DEF Runs, Points
    <2>4. run' = [run EXCEPT ![p] = d]
      BY <1>5 DEF TransferRetry, TypeInv, TypeOK
    <2> HIDE DEF d
    <2>5. run'[p] = d /\ Others(p)
      BY <2>3, <2>4, Placed DEF TypeInv, Others
    <2> QED
      BY <2>1, <2>2, <2>3, <2>5 DEF Onward
  <1>6. CASE RemovedAll(p)
    BY <1>6, Finishes DEF RemovedAll, root
  <1>16. CASE TransferFails(p)
    <2>1. PICK d \in Runs : /\ run' = [run EXCEPT ![p] = d]
                           /\ d = [run[p] EXCEPT !.attempt = 1, !.at = "release"]
      BY <1>16, GivenUp DEF TypeInv
    <2>2. d.at = "release"
      BY <2>1 DEF Runs, TypeInv, TypeOK
    <2>3. run'[p] = d /\ Others(p) /\ UNCHANGED <<complete, partial>>
      BY <1>16, <2>1, Placed DEF TransferFails, root, TypeInv, Others
    <2> QED
      BY <2>2, <2>3 DEF Rest, Working
  <1>7. CASE VerifyPass(p)
    <2>1. UNCHANGED <<complete, partial>> /\ run[p].at = "verify"
      BY <1>7 DEF VerifyPass, root, At
    <2>2. CASE Goto(p, "promote")
      BY <2>1, <2>2, Goes DEF Onward, Points
    <2> QED
      BY <1>7, <2>1, <2>2, Finishes DEF VerifyPass
  <1>8. CASE PromoteCheck(p)
    <2>1. UNCHANGED <<complete, partial>> /\ run[p].at = "promote"
      BY <1>8 DEF PromoteCheck, root, At
    <2>2. CASE Goto(p, "rename")
      BY <2>1, <2>2, Goes DEF Onward, Points
    <2> QED
      BY <1>8, <2>1, <2>2, Finishes DEF PromoteCheck
  <1>9. CASE Collapse(p)
    <2>1. UNCHANGED <<complete, partial>> /\ run[p].at = "collapse" /\ run[p] \in Runs
      BY <1>9 DEF Collapse, root, At, TypeInv, TypeOK
    <2> DEFINE fell == CollapseAgainst(NewestStats, run[p].files)
               d == [run[p] EXCEPT !.collapse = fell, !.at = "history"]
    <2>2. fell \in BOOLEAN
      BY DEF CollapseAgainst
    <2>3. run' = [run EXCEPT ![p] = d]
      BY <1>9 DEF Collapse, TypeInv, TypeOK
    <2> HIDE DEF fell
    <2>4. d \in Runs /\ d.at = "history" /\ d.start = run[p].start /\ d.force = run[p].force
      BY <2>1, <2>2 DEF Runs, Points
    <2> HIDE DEF d
    <2>5. run'[p] = d /\ Others(p)
      BY <2>3, <2>4, Placed DEF TypeInv, Others
    <2> QED
      BY <2>1, <2>4, <2>5 DEF Onward
  <1>10. CASE History(p) \/ PrunePlan(p)
    <2>1. UNCHANGED <<complete, partial>>
      BY <1>10, Zenon DEF History, PrunePlan, root
    <2>2. run'[p].at = "remove" /\ Others(p)
      BY <1>10 DEF History, PrunePlan, TypeInv, TypeOK, Runs, Others
    <2> QED
      BY <2>1, <2>2 DEF Rest, Working
  <1>11. CASE Remove(p) /\ RemoveFailed(p) /\ UNCHANGED root
    BY <1>11, Drops DEF Remove, At, root
  <1>12. CASE RemoveTree(p)
    <2>1. run'[p].at = "remove" /\ Others(p) /\ UNCHANGED <<complete, partial>>
      BY <1>12 DEF RemoveTree, TypeInv, TypeOK, Runs, Others
    <2> QED
      BY <2>1 DEF Rest, Working
  <1>13. CASE StoreFails(p)
    BY <1>13, Drops, Finishes DEF StoreFails, root
  <1>14. CASE Release(p)
    <2>1. UNCHANGED <<complete, partial>>
      BY <1>14 DEF Release, root
    <2>2. CASE run[p].op = "run"
      <3>1. Goto(p, "report")
        BY <1>14, <2>2 DEF Release, Goto, TypeInv, TypeOK
      <3> QED
        BY <2>1, <3>1, Goes DEF Points, Working
    <2>3. CASE run[p].op # "run"
      <3>1. run' = [run EXCEPT ![p] = Idle]
        BY <1>14, <2>3 DEF Release, TypeInv, TypeOK
      <3> QED
        BY <2>1, <3>1, Ended DEF Rest, Others, Moved, Working
    <2> QED
      BY <2>2, <2>3
  <1>15. CASE WriteReport(p)
    BY <1>15, Ended DEF WriteReport, root, Rest, Others, Moved, Working
  <1> QED
    BY <1>1, <1>2, <1>3, <1>4, <1>5, <1>6, <1>7, <1>8, <1>9, <1>10, <1>11, <1>12, <1>13,
       <1>14, <1>15, <1>16 DEF Step, Change
LEMMA Solo ==
  ASSUME TypeInv, NEW p \in Runner, ~Outside(p), Others(p)
  PROVE  \A q \in Runner \ {p} : run'[q].at \notin Working
  BY Alone DEF TypeInv, Outside, Others, Working

\* Where a step that changes a snapshot or a partial comes from and leads to.
LEMMA Sources ==
  ASSUME NEW p \in Runner
  PROVE  /\ ClaimSweep(p) \/ ClaimResume(p) \/ ClaimFresh(p) => run[p].at = "claim"
         /\ TransferStart(p) => run[p].at = "transfer"
         /\ TransferDone(p) => run[p].at = "rsync"
         /\ PromoteMove(p) => run[p].at = "rename"
         /\ Remove(p) => run[p].at = "remove"
  <1>1. ClaimSweep(p) \/ ClaimResume(p) \/ ClaimFresh(p) => run[p].at = "claim"
    BY Zenon DEF ClaimSweep, ClaimResume, ClaimFresh, At
  <1>2. TransferStart(p) => run[p].at = "transfer"
    BY Zenon DEF TransferStart, At
  <1>3. TransferDone(p) => run[p].at = "rsync"
    BY Zenon DEF TransferDone, At
  <1>4. PromoteMove(p) => run[p].at = "rename"
    BY Zenon DEF PromoteMove, At
  <1>5. Remove(p) => run[p].at = "remove"
    BY Zenon DEF Remove, At
  <1> QED
    BY <1>1, <1>2, <1>3, <1>4, <1>5

LEMMA Changing ==
  ASSUME TypeInv, NEW p \in Runner, Change(p)
  PROVE  /\ ~Outside(p) /\ Others(p)
         /\ run[p].at # "remove" => run[p].op = "run"
         /\ run'[p].start = run[p].start /\ run'[p].force = run[p].force
         /\ ClaimSweep(p) => run'[p].at = "claim"
         /\ ClaimResume(p) \/ ClaimFresh(p) => run'[p].at = "list"
         /\ TransferStart(p) => run'[p].at = "rsync"
         /\ TransferDone(p) => run'[p].at \in {"verify", "promote"}
         /\ PromoteMove(p) => run'[p].at \in {"collapse", "release"}
         /\ Remove(p) => run'[p].at = "rm"
  <1> DEFINE sweep == ClaimSweep(p)
             claim == ClaimResume(p) \/ ClaimFresh(p)
             start == TransferStart(p)
             done == TransferDone(p)
             move == PromoteMove(p)
             rem == Remove(p)
  <1>0. run[p] \in Runs /\ run \in [Runner -> Runs] /\ Started(run[p])
    BY DEF TypeInv, TypeOK
  <1>1. /\ sweep \/ claim => run[p].at = "claim"
        /\ start => run[p].at = "transfer"
        /\ done => run[p].at = "rsync"
        /\ move => run[p].at = "rename"
        /\ rem => run[p].at = "remove"
    BY Sources
  <1>2. sweep \/ claim \/ start \/ done \/ move \/ rem
    BY DEF Change
  <1>3. ~Outside(p) /\ (run[p].at # "remove" => run[p].op = "run")
    <2> HIDE DEF sweep, claim, start, done, move, rem
    <2> QED
      BY <1>0, <1>1, <1>2 DEF Outside, Started, Pipeline
  <1>4. sweep => run' = run
    BY DEF ClaimSweep
  <1>5. claim => Goto(p, "list")
    BY Zenon DEF ClaimResume, ClaimFresh
  <1>6. start => Goto(p, "rsync")
    BY Zenon DEF TransferStart
  <1>7. done => /\ run'[p].at \in {"verify", "promote"} /\ Others(p)
                /\ run'[p].start = run[p].start /\ run'[p].force = run[p].force
    BY <1>0 DEF TransferDone, At, Runs, Others
  <1>8. move => Goto(p, "collapse") \/ Goto(p, "release")
    BY Zenon DEF PromoteMove, Finish
  <1>9. rem => Goto(p, "rm")
    BY Zenon DEF Remove, Change, At, ClaimSweep, ClaimResume, ClaimFresh, TransferStart,
       TransferDone, PromoteMove
  <1> HIDE DEF sweep, claim, start, done, move, rem
  <1>10. \A point \in Points : Goto(p, point) =>
            /\ run'[p].at = point /\ Others(p)
            /\ run'[p].start = run[p].start /\ run'[p].force = run[p].force
    BY Gone DEF TypeInv, Others
  <1>11. /\ Others(p) /\ run'[p].start = run[p].start /\ run'[p].force = run[p].force
         /\ sweep => run'[p].at = "claim"
         /\ claim => run'[p].at = "list"
         /\ start => run'[p].at = "rsync"
         /\ done => run'[p].at \in {"verify", "promote"}
         /\ move => run'[p].at \in {"collapse", "release"}
         /\ rem => run'[p].at = "rm"
    BY <1>1, <1>2, <1>4, <1>5, <1>6, <1>7, <1>8, <1>9, <1>10 DEF Points, Others
  <1> QED
    BY <1>3, <1>11 DEF sweep, claim, start, done, move, rem

\* Steps of the world, of a new operation and of a kill.
LEMMA Elsewhere ==
  ASSUME TypeInv, NEW p \in Runner,
         \/ Crash(p)
         \/ \E op \in {"run", "prune"}, force \in BOOLEAN : Begin(p, op, force)
  PROVE  Rest(p)
  <1>1. CASE Crash(p)
    BY <1>1, Ended DEF Crash, root, Rest, Others, Moved, Working
  <1>2. ASSUME NEW op \in {"run", "prune"}, NEW force \in BOOLEAN, Begin(p, op, force)
        PROVE  Rest(p)
    <2>1. run'[p].at = "lock" /\ Others(p)
      BY <1>2 DEF Begin, TypeInv, TypeOK, Idle, Others
    <2>2. UNCHANGED <<complete, partial>>
      BY <1>2 DEF Begin, root
    <2> QED
      BY <2>1, <2>2 DEF Rest, Working
  <1> QED
    BY <1>1, <1>2

LEMMA Moves ==
  ASSUME TypeInv, [Next]_vars
  PROVE  \/ \E p \in Runner : Rest(p) \/ Onward(p) \/ Change(p)
         \/ UNCHANGED <<complete, partial, run>>
         \/ Plant
  <1>1. ASSUME NEW p \in Runner, Step(p) PROVE Rest(p) \/ Onward(p) \/ Change(p)
    BY <1>1, Cases
  <1>2. CASE Tick \/ Shrink \/ UNCHANGED vars
    BY <1>2 DEF Tick, Shrink, root, vars
  <1> QED
    BY <1>1, <1>2, Elsewhere DEF Next

-----------------------------------------------------------------------------
(***************************************************************************)
(* Whole snapshots, real promotions                                        *)
(***************************************************************************)
\* What a run relies on: its partial once the transfer has ended well, its
\* snapshot once it is promoted.
Solid(p) ==
  /\ run[p].at \in {"verify", "promote", "rename"} => partial[run[p].start].is = "whole"
  /\ run[p].at \in {"collapse", "history"} => complete[run[p].start].is = "whole"

Real == WholeSnapshots /\ \A p \in Runner : Solid(p)

LEMMA RealInit == Init => Real
  BY NoTreeType, IdleType DEF Init, Real, WholeSnapshots, Solid

LEMMA RealChange ==
  ASSUME TypeInv, Real, NEW p \in Runner, Change(p)
  PROVE  Real'
  <1> DEFINE n == run[p].start
  <1>0. run[p].at # "remove" => n \in Instant
    BY Changing, Moments DEF TypeInv, Started, Outside
  <1>1. \A q \in Runner \ {p} : Solid(q)'
    BY Changing, Solo DEF Solid, Working
  <1>2. CASE ClaimSweep(p) \/ ClaimResume(p) \/ ClaimFresh(p)
    <2>1. complete' = complete
      BY <1>2 DEF ClaimSweep, ClaimResume, ClaimFresh
    <2>2. Solid(p)'
      BY <1>2, Changing DEF Solid
    <2> QED
      BY <1>1, <2>1, <2>2 DEF Real, WholeSnapshots
  <1>3. CASE TransferStart(p)
    <2>1. PICK hit : complete' = [m \in Instant |->
                         IF m \in hit THEN [complete[m] EXCEPT !.touched = TRUE]
                                      ELSE complete[m]]
      BY <1>3 DEF TransferStart
    <2>2. \A m \in Instant : complete'[m].is = complete[m].is
      BY <2>1 DEF TypeInv, TypeOK, Trees
    <2>3. Solid(p)'
      BY <1>3, Changing DEF Solid
    <2> QED
      BY <1>1, <2>2, <2>3 DEF Real, WholeSnapshots
  <1>4. CASE TransferDone(p)
    <2>1. complete' = complete /\ run'[p].at \in {"verify", "promote"} /\ run'[p].start = n
          /\ n \in Instant
      BY <1>0, <1>4, Changing, Sources DEF TransferDone
    <2>2. partial'[n].is = "whole"
      BY <1>4, <2>1 DEF TransferDone, TypeInv, TypeOK, Trees
    <2> QED
      BY <1>1, <2>1, <2>2 DEF Real, WholeSnapshots, Solid
  <1>5. CASE PromoteMove(p)
    <2>1. run[p].at = "rename" /\ n \in Instant /\ partial[n].is = "whole"
          /\ run'[p].start = n
      BY <1>0, <1>5, Changing, Sources DEF Real, Solid
    <2>2. CASE Goto(p, "collapse") /\ complete' = [complete EXCEPT ![n] = partial[n]]
      <3>1. run'[p].at = "collapse" /\ complete'[n].is = "whole"
        BY <2>1, <2>2 DEF Goto, TypeInv, TypeOK
      <3>2. \A m \in Instant : complete'[m].is # "torn"
        BY <2>1, <2>2 DEF TypeInv, TypeOK, Real, WholeSnapshots
      <3> QED
        BY <1>1, <2>1, <3>1, <3>2 DEF Real, WholeSnapshots, Solid
    <2>3. CASE Finish(p) /\ complete' = complete
      <3>1. run'[p].at = "release"
        BY <2>3 DEF Finish, Goto, TypeInv, TypeOK
      <3> QED
        BY <1>1, <2>3, <3>1 DEF Real, WholeSnapshots, Solid
    <2> QED
      BY <1>5, <2>2, <2>3 DEF PromoteMove
  <1>6. CASE Remove(p) /\ ~(RemoveFailed(p) /\ UNCHANGED root)
    <2>1. PICK m : m \in Complete /\ complete' = [complete EXCEPT ![m] = NoTree]
      BY <1>6 DEF Remove
    <2>2. \A k \in Instant : complete'[k].is # "torn"
      BY <2>1, NoTreeType DEF TypeInv, TypeOK, Real, WholeSnapshots, Complete
    <2>3. Solid(p)'
      BY <1>6, Changing DEF Solid
    <2> QED
      BY <1>1, <2>2, <2>3 DEF Real, WholeSnapshots
  <1> QED
    BY <1>2, <1>3, <1>4, <1>5, <1>6 DEF Change

LEMMA RealStep == TypeInv /\ Real /\ [Next]_vars => Real'
  <1> SUFFICES ASSUME TypeInv, Real, [Next]_vars PROVE Real'
    OBVIOUS
  <1>1. ASSUME NEW p \in Runner, Rest(p) PROVE Real'
    <2>1. Solid(p)'
      BY <1>1 DEF Rest, Solid, Working
    <2>2. \A q \in Runner \ {p} : Solid(q)'
      BY <1>1 DEF Rest, Others, Real, Solid
    <2> QED
      BY <1>1, <2>1, <2>2 DEF Rest, Real, WholeSnapshots
  <1>2. ASSUME NEW p \in Runner, Onward(p) PROVE Real'
    <2>1. Solid(p)'
      BY <1>2 DEF Onward, Solid, Real
    <2>2. \A q \in Runner \ {p} : Solid(q)'
      BY <1>2 DEF Onward, Others, Real, Solid
    <2> QED
      BY <1>2, <2>1, <2>2 DEF Onward, Real, WholeSnapshots
  <1>3. CASE UNCHANGED <<complete, partial, run>>
    BY <1>3 DEF Real, WholeSnapshots, Solid
  <1>4. CASE Plant
    <2>1. PICK n \in Instant \ Complete : complete' = [complete EXCEPT ![n] = Foreign]
      BY <1>4 DEF Plant
    <2>2. \A m \in Instant : /\ complete'[m].is # "torn"
                             /\ complete[m].is = "whole" => complete'[m].is = "whole"
      BY <2>1, NoTreeType DEF TypeInv, TypeOK, Complete, Real, WholeSnapshots
    <2>3. \A p \in Runner : run[p].at \in {"collapse", "history"} => run[p].start \in Instant
      BY Moments DEF TypeInv, Started, Pipeline
    <2>4. partial' = partial /\ run' = run
      BY <1>4 DEF Plant
    <2> QED
      BY <2>2, <2>3, <2>4 DEF Real, WholeSnapshots, Solid
  <1> QED
    BY <1>1, <1>2, <1>3, <1>4, Moves, RealChange

\* A directory that lists as a finished snapshot is one, whatever fails, is
\* killed or is put there by somebody else.
THEOREM SnapshotsAreWhole == Spec => []WholeSnapshots
  <1>1. Real => WholeSnapshots
    BY DEF Real
  <1> QED
    BY <1>1, RealInit, RealStep, Typed, PTL DEF Spec

\* A run that goes on to retention and a success report has its snapshot under
\* its name, under every fault, a name taken at the last moment included.
THEOREM PromotionsAreReal == Spec => []PromotionIsReal
  <1>1. Real => PromotionIsReal
    BY DEF Real, Solid, PromotionIsReal
  <1> QED
    BY <1>1, RealInit, RealStep, Typed, PTL DEF Spec
-----------------------------------------------------------------------------
(***************************************************************************)
(* Where a run's snapshot goes                                             *)
(***************************************************************************)
\* Nobody else creates snapshot-shaped directories.
OwnedRoot == "insert" \notin Faults

\* Past the guards a run's name is newer than every snapshot, and in a schedule
\* window of its own unless the run is forced.
Ahead(p) ==
  run[p].at \in {"guard", "transfer", "rsync", "verify", "promote", "rename"} =>
     \A m \in Complete : /\ m < run[p].start
                         /\ ~run[p].force => WindowIndex(m) # WindowIndex(run[p].start)

Ordered == \A p \in Runner : Ahead(p)

\* Windows follow one another.
LEMMA WindowsFollow ==
  ASSUME NEW a \in Instant, NEW b \in Instant, a <= b
  PROVE  WindowIndex(a) \in Int /\ WindowIndex(b) \in Int /\ WindowIndex(a) <= WindowIndex(b)
  BY WindowAssumption DEF WindowIndex

LEMMA Guarded ==
  ASSUME TypeInv, NEW p \in Runner, ListComplete(p), run'[p].at = "guard",
         NEW m \in Complete
  PROVE  m < run[p].start /\ (~run[p].force => WindowIndex(m) # WindowIndex(run[p].start))
  <1> DEFINE r == run[p]
             top == Newest(Complete)
  <1>1. /\ top \in Complete /\ top \in Nat /\ m \in Nat /\ m <= top /\ Complete # {}
        /\ top # 0 /\ top \in Instant /\ m \in Instant
    BY ListingType, Moments DEF Complete
  <1>2. r.start \in Nat /\ r.start \in Instant /\ run \in [Runner -> Runs]
    BY Moments DEF ListComplete, At, TypeInv, TypeOK, Started, Pipeline
  <1>3. ~Finish(p)
    BY Finishes DEF Rest, Working, ListComplete, root
  <1>4. /\ ~(r.start <= top)
        /\ ~r.force => WindowIndex(top) # WindowIndex(r.start)
    BY <1>1, <1>3, Zenon DEF ListComplete
  <1>5. top < r.start /\ m < r.start
    BY <1>1, <1>2, <1>4
  <1> HIDE DEF top
  <1>6. ASSUME ~r.force PROVE WindowIndex(m) # WindowIndex(r.start)
    <2>1. /\ WindowIndex(m) <= WindowIndex(top) /\ WindowIndex(top) <= WindowIndex(r.start)
          /\ WindowIndex(m) \in Int /\ WindowIndex(top) \in Int
          /\ WindowIndex(r.start) \in Int
      BY <1>1, <1>2, <1>5, WindowsFollow
    <2> QED
      BY <1>4, <1>6, <2>1
  <1> QED
    BY <1>5, <1>6

LEMMA OrderInit == Init => Ordered
  BY IdleType DEF Init, Ordered, Ahead

LEMMA OrderChange ==
  ASSUME TypeInv, Ordered, NEW p \in Runner, Change(p)
  PROVE  Ordered'
  <1>1. \A q \in Runner \ {p} : Ahead(q)'
    BY Changing, Solo DEF Ahead, Working
  <1>2. ASSUME run'[p].at \notin {"guard", "transfer", "rsync", "verify", "promote", "rename"}
        PROVE  Ahead(p)'
    BY <1>2 DEF Ahead
  <1>3. CASE TransferStart(p) \/ TransferDone(p)
    <2>1. run[p].at \in {"transfer", "rsync"}
      BY <1>3, Sources
    <2>2. Complete' = Complete
      <3>1. CASE TransferDone(p)
        BY <3>1 DEF TransferDone, Complete
      <3>2. CASE TransferStart(p)
        <4>1. PICK hit : complete' = [m \in Instant |->
                             IF m \in hit THEN [complete[m] EXCEPT !.touched = TRUE]
                                          ELSE complete[m]]
          BY <3>2 DEF TransferStart
        <4>2. \A m \in Instant : complete'[m].is = complete[m].is
          BY <4>1 DEF TypeInv, TypeOK, Trees
        <4> QED
          BY <4>2 DEF Complete
      <3> QED
        BY <1>3, <3>1, <3>2
    <2>3. Ahead(p)'
      BY <2>1, <2>2, Changing DEF Ordered, Ahead
    <2> QED
      BY <1>1, <2>3 DEF Ordered
  <1>4. CASE ~(TransferStart(p) \/ TransferDone(p))
    BY <1>1, <1>2, <1>4, Changing DEF Change, Ordered
  <1> QED
    BY <1>3, <1>4

LEMMA OrderStep ==
  ASSUME OwnedRoot
  PROVE  TypeInv /\ Ordered /\ [Next]_vars => Ordered'
  <1> SUFFICES ASSUME TypeInv, Ordered, [Next]_vars PROVE Ordered'
    OBVIOUS
  <1>1. ASSUME NEW p \in Runner, Rest(p) \/ Onward(p) PROVE Ordered'
    <2>1. Complete' = Complete /\ Others(p)
      BY <1>1 DEF Rest, Onward, Complete
    <2>2. \A q \in Runner \ {p} : Ahead(q)'
      BY <2>1 DEF Others, Ordered, Ahead
    <2>3. ASSUME Rest(p) PROVE Ahead(p)'
      BY <2>3 DEF Rest, Ahead, Working
    <2>4. ASSUME Onward(p), run[p].at # "list" PROVE Ahead(p)'
      BY <1>1, <2>1, <2>4 DEF Onward, Ahead, Ordered
    <2>5. ASSUME Onward(p), run[p].at = "list" PROVE Ahead(p)'
      BY <1>1, <2>1, <2>5, Guarded DEF Onward, Ahead
    <2> QED
      BY <1>1, <2>2, <2>3, <2>4, <2>5 DEF Ordered
  <1>2. CASE UNCHANGED <<complete, partial, run>>
    BY <1>2 DEF Ordered, Ahead, Complete
  <1>3. ~Plant
    BY DEF Plant, OwnedRoot
  <1> QED
    BY <1>1, <1>2, <1>3, Moves, OrderChange

\* Runs without --force make one snapshot per schedule window, for any number
\* of processes, any schedule, clock steps, failures and kills, as long as nobody
\* else writes snapshot-shaped directories.
THEOREM OnePerWindowHolds ==
  ASSUME OwnedRoot
  PROVE  Spec => OnePerWindow
  <1>1. Ordered =>
        [\A p \in Runner :
            At(p, "rename") /\ run'[p].at = "collapse" /\ ~run[p].force
               => \A m \in Complete : WindowIndex(m) # WindowIndex(run[p].start)]_vars
    BY DEF Ordered, Ahead, At
  <1> QED
    BY <1>1, OrderInit, OrderStep, Typed, PTL DEF Spec, OnePerWindow

-----------------------------------------------------------------------------
(***************************************************************************)
(* What a transfer may write into                                          *)
(***************************************************************************)
\* Up to the first attempt of its transfer a local run's partial shares no file
\* with a snapshot.
Apart(p) ==
  Kind = "local" /\ run[p].attempt = 1 /\ run[p].at \in {"list", "guard", "transfer"}
    => ~SharesFiles(partial[run[p].start])

Parted == \A p \in Runner : Apart(p)

LEMMA PartedInit == Init => Parted
  BY IdleType DEF Init, Parted, Apart

LEMMA PartedChange ==
  ASSUME TypeInv, Parted, NEW p \in Runner, Change(p)
  PROVE  Parted'
  <1> DEFINE n == run[p].start
  <1>1. \A q \in Runner \ {p} : Apart(q)'
    BY Changing, Solo DEF Apart, Working
  <1>2. ASSUME run'[p].at \notin {"list", "guard", "transfer"} PROVE Apart(p)'
    BY <1>2 DEF Apart
  <1>3. CASE ClaimResume(p) /\ Kind = "local"
    <2>0. n \in Instant
      BY <1>3, Changing, Sources, Moments DEF TypeInv, Started, Outside
    <2>1. PICK m \in Partials :
              /\ ~SharesFiles(partial[m])
              /\ partial' = [[partial EXCEPT ![m] = NoTree] EXCEPT ![n] = partial[m]]
      BY <1>3 DEF ClaimResume
    <2>2. complete' = complete /\ run'[p].start = n /\ m \in Instant
      BY <1>3, Changing DEF ClaimResume, Partials
    <2>3. partial'[n] = partial[m]
      BY <2>0, <2>1, <2>2 DEF TypeInv, TypeOK
    <2> QED
      BY <1>1, <2>1, <2>2, <2>3 DEF Parted, Apart, SharesFiles, Complete
  <1>4. CASE ClaimFresh(p)
    <2>0. n \in Instant
      BY <1>4, Changing, Sources, Moments DEF TypeInv, Started, Outside
    <2>1. partial' = [k \in Instant |-> NoTree] /\ run'[p].start = n
      BY <1>4, Changing DEF ClaimFresh
    <2> QED
      BY <1>1, <2>0, <2>1, NoTreeType DEF Parted, Apart, SharesFiles
  <1>5. CASE Kind # "local"
    BY <1>1, <1>5 DEF Parted, Apart
  <1>6. CASE ~(ClaimResume(p) \/ ClaimFresh(p))
    BY <1>1, <1>2, <1>6, Changing DEF Change, Parted
  <1> QED
    BY <1>3, <1>4, <1>5, <1>6

LEMMA PartedStep ==
  ASSUME OwnedRoot
  PROVE  TypeInv /\ Parted /\ [Next]_vars => Parted'
  <1> SUFFICES ASSUME TypeInv, Parted, [Next]_vars PROVE Parted'
    OBVIOUS
  <1>1. ASSUME NEW p \in Runner, Rest(p) \/ Onward(p) PROVE Parted'
    <2>1. UNCHANGED <<complete, partial>> /\ Others(p)
      BY <1>1 DEF Rest, Onward
    <2>2. \A q \in Runner \ {p} : Apart(q)'
      BY <2>1 DEF Others, Parted, Apart, SharesFiles, Complete
    <2>3. ASSUME Rest(p) PROVE Apart(p)'
      BY <2>3 DEF Rest, Apart, Working
    <2>4. ASSUME Onward(p) PROVE Apart(p)'
      BY <2>1, <2>4 DEF Onward, Apart, Parted, SharesFiles, Complete
    <2> QED
      BY <1>1, <2>2, <2>3, <2>4 DEF Parted
  <1>2. CASE UNCHANGED <<complete, partial, run>>
    BY <1>2 DEF Parted, Apart, SharesFiles, Complete
  <1>3. ~Plant
    BY DEF Plant, OwnedRoot
  <1> QED
    BY <1>1, <1>2, <1>3, Moves, PartedChange

\* A step that changes a snapshot refills a partial, or removes the snapshot.
LEMMA TouchChange ==
  ASSUME TypeInv, Ordered, Parted, NEW p \in Runner, Change(p), ~Refills(p),
         NEW m \in Complete
  PROVE  complete'[m] \in {complete[m], NoTree}
  <1> DEFINE n == run[p].start
  <1>0. m \in Instant /\ (run[p].at # "remove" => n \in Instant)
    BY Changing, Moments DEF TypeInv, Started, Outside, Complete
  <1>1. CASE ClaimSweep(p) \/ ClaimResume(p) \/ ClaimFresh(p) \/ TransferDone(p)
    BY <1>1 DEF ClaimSweep, ClaimResume, ClaimFresh, TransferDone
  <1>2. CASE TransferStart(p)
    <2>1. run[p].at = "transfer"
      BY <1>2, Sources
    <2>2. Kind = "local" /\ run[p].attempt = 1
      BY <2>1, ArchiveAssumption DEF Refills, At, TypeInv, TypeOK, Runs
    <2>3. partial[n].links \cap Complete = {}
      BY <2>1, <2>2 DEF Parted, Apart, SharesFiles
    <2>4. PICK hit \in {{}, partial[n].links \cap Complete} :
              complete' = [k \in Instant |->
                             IF k \in hit THEN [complete[k] EXCEPT !.touched = TRUE]
                                          ELSE complete[k]]
      BY <1>2 DEF TransferStart
    <2> QED
      BY <1>0, <2>3, <2>4
  <1>3. CASE PromoteMove(p)
    <2>1. n \in Instant /\ \A k \in Complete : k < n
      BY <1>0, <1>3, Sources DEF Ordered, Ahead
    <2>2. m # n
      <3>1. n \in Nat /\ m < n
        BY <2>1, Moments
      <3> HIDE DEF n
      <3> QED
        BY <3>1
    <2>3. complete' = complete \/ complete' = [complete EXCEPT ![n] = partial[n]]
      BY <1>3 DEF PromoteMove
    <2> QED
      BY <1>0, <2>2, <2>3 DEF TypeInv, TypeOK
  <1>4. CASE Remove(p) /\ ~(RemoveFailed(p) /\ UNCHANGED root)
    <2>1. PICK k : complete' = [complete EXCEPT ![k] = NoTree]
      BY <1>4 DEF Remove
    <2> QED
      BY <1>0, <2>1 DEF TypeInv, TypeOK
  <1> QED
    BY <1>1, <1>2, <1>3, <1>4 DEF Change

\* While it exists a snapshot is changed by nothing but a transfer into a partial
\* that an earlier attempt has filled: of the same run, or, on a remote archive,
\* of a run that failed or was killed.  For any kind of archive and any number of
\* attempts, whatever partials kills and failures leave to be resumed.
THEOREM SnapshotsStay ==
  ASSUME OwnedRoot
  PROVE  Spec => OnlyRefillsTouch
  <1>1. TypeInv /\ Ordered /\ Parted /\ [Next]_vars =>
        [(\E n \in Complete : complete'[n] \notin {complete[n], NoTree})
            => \E p \in Runner : Refills(p)]_vars
    <2> SUFFICES ASSUME TypeInv, Ordered, Parted, [Next]_vars, NEW n \in Complete,
                        complete'[n] \notin {complete[n], NoTree}
                 PROVE  \E p \in Runner : Refills(p)
      OBVIOUS
    <2>1. complete' # complete
      OBVIOUS
    <2>2. ~Plant
      BY DEF Plant, OwnedRoot
    <2>3. PICK p \in Runner : Change(p)
      BY <2>1, <2>2, Moves DEF Rest, Onward
    <2> QED
      BY <2>3, TouchChange
  <1> QED
    BY <1>1, OrderInit, OrderStep, PartedInit, PartedStep, Typed, PTL
       DEF Spec, OnlyRefillsTouch
-----------------------------------------------------------------------------
(***************************************************************************)
(* The archive implements the abstract history                             *)
(***************************************************************************)
\* The finished snapshots as the abstract specification sees them.
Shown == {[name |-> n, is |-> complete[n].is] : n \in Complete}

\* The same when backupkit alone has made them.
Plain(S) == {[name |-> k, is |-> "whole"] : k \in S}

Made == \A n \in Complete : complete[n].is = "whole"

LEMMA MadeInit == Init => Made
  BY NoTreeType DEF Init, Made, Complete

LEMMA MadeStep ==
  ASSUME OwnedRoot
  PROVE  TypeInv /\ Real /\ Real' /\ Made /\ [Next]_vars => Made'
  <1> SUFFICES ASSUME TypeInv, Real, Made, [Next]_vars PROVE Made'
    OBVIOUS
  <1>1. CASE UNCHANGED complete
    BY <1>1 DEF Made, Complete
  <1>2. ASSUME NEW p \in Runner, Change(p) PROVE Made'
    <2> DEFINE n == run[p].start
    <2>1. CASE ClaimSweep(p) \/ ClaimResume(p) \/ ClaimFresh(p) \/ TransferDone(p)
      BY <1>1, <2>1 DEF ClaimSweep, ClaimResume, ClaimFresh, TransferDone
    <2>2. CASE TransferStart(p)
      <3>1. PICK hit : complete' = [m \in Instant |->
                           IF m \in hit THEN [complete[m] EXCEPT !.touched = TRUE]
                                        ELSE complete[m]]
        BY <2>2 DEF TransferStart
      <3>2. \A m \in Instant : complete'[m].is = complete[m].is
        BY <3>1 DEF TypeInv, TypeOK, Trees
      <3> QED
        BY <3>2 DEF Made, Complete
    <2>3. CASE PromoteMove(p)
      <3>1. n \in Instant /\ partial[n].is = "whole"
        BY <1>2, <2>3, Changing, Sources, Moments DEF Real, Solid, TypeInv, Started, Outside
      <3>2. complete' = complete \/ complete' = [complete EXCEPT ![n] = partial[n]]
        BY <2>3 DEF PromoteMove
      <3> QED
        BY <3>1, <3>2 DEF Made, Complete, TypeInv, TypeOK
    <2>4. CASE Remove(p) /\ ~(RemoveFailed(p) /\ UNCHANGED root)
      <3>1. PICK k : complete' = [complete EXCEPT ![k] = NoTree]
        BY <2>4 DEF Remove
      <3> QED
        BY <3>1, NoTreeType DEF Made, Complete, TypeInv, TypeOK
    <2> QED
      BY <1>2, <2>1, <2>2, <2>3, <2>4 DEF Change
  <1>3. ~Plant
    BY DEF Plant, OwnedRoot
  <1> QED
    BY <1>1, <1>2, <1>3, Moves DEF Rest, Onward

LEMMA ShownPlain ==
  ASSUME Made, Made'
  PROVE  Shown = Plain(Complete) /\ Shown' = Plain(Complete')
  BY DEF Made, Shown, Plain

LEMMA ShownChange ==
  ASSUME TypeInv, TypeInv', Ordered, Made, Made', NEW p \in Runner, Change(p)
  PROVE  [Past!Next]_Shown
  <1> DEFINE n == run[p].start
  <1>0. run[p].at # "remove" => n \in Instant
    BY Changing, Moments DEF TypeInv, Started, Outside
  <1>1. Shown = Plain(Complete) /\ Shown' = Plain(Complete')
    BY ShownPlain
  <1>2. CASE Complete' = Complete
    BY <1>1, <1>2
  <1>3. CASE ClaimSweep(p) \/ ClaimResume(p) \/ ClaimFresh(p) \/ TransferDone(p)
    <2>1. Complete' = Complete
      BY <1>3 DEF ClaimSweep, ClaimResume, ClaimFresh, TransferDone, Complete
    <2> QED
      BY <1>2, <2>1
  <1>4. CASE TransferStart(p)
    <2>1. PICK hit : complete' = [m \in Instant |->
                         IF m \in hit THEN [complete[m] EXCEPT !.touched = TRUE]
                                      ELSE complete[m]]
      BY <1>4 DEF TransferStart
    <2>2. \A m \in Instant : complete'[m].is = complete[m].is
      BY <2>1 DEF TypeInv, TypeOK, Trees
    <2>3. Complete' = Complete
      BY <2>2 DEF Complete
    <2> QED
      BY <1>2, <2>3
  <1>5. CASE PromoteMove(p)
    <2>1. n \in Instant /\ \A m \in Complete : m < n
      BY <1>0, <1>5, Sources DEF Ordered, Ahead
    <2>2. CASE complete' = [complete EXCEPT ![n] = partial[n]] /\ Complete' # Complete
      <3>1. Complete' = Complete \cup {n}
        <4>1. \A m \in Instant \ {n} : m \in Complete' <=> m \in Complete
          BY <2>2 DEF Complete, TypeInv, TypeOK
        <4>2. Complete \in SUBSET Instant /\ Complete' \in SUBSET Instant /\ n \notin Complete
          <5>1. n \in Nat
            BY <2>1, Moments
          <5> HIDE DEF n
          <5>2. ~(n < n)
            BY <5>1
          <5> QED
            BY <2>1, <5>2 DEF Complete
        <4> HIDE DEF n
        <4>3. n \in Complete'
          BY <2>2, <4>1, <4>2
        <4> QED
          BY <4>1, <4>2, <4>3
      <3>2. PICK k \in Instant : k = n
        BY <2>1
      <3> HIDE DEF n
      <3>3. /\ \A h \in Shown : h.name < k
            /\ Shown' = Shown \cup {[name |-> k, is |-> "whole"]}
        BY <1>1, <2>1, <3>1, <3>2 DEF Plain
      <3>4. Past!Add(k)
        BY <3>3 DEF Past!Add, Shown
      <3>5. Past!Next
        BY <3>4 DEF Past!Next
      <3> QED
        BY <3>5
    <2>3. CASE complete' = complete
      BY <1>2, <2>3 DEF Complete
    <2> QED
      BY <1>2, <1>5, <2>2, <2>3 DEF PromoteMove
  <1>6. CASE Remove(p) /\ ~(RemoveFailed(p) /\ UNCHANGED root)
    <2>1. PICK m : /\ m \in Complete /\ m # NewestUndeletable(Complete)
                   /\ complete' = [complete EXCEPT ![m] = NoTree]
      BY <1>6 DEF Remove
    <2>2. Complete' = Complete \ {m} /\ m \in Instant
      BY <2>1, NoTreeType DEF Complete, TypeInv, TypeOK
    <2>3. Complete # {m}
      <3>1. ASSUME Complete = {m} PROVE NewestUndeletable(Complete) = m
        <4>1. Newest({m}) = m
          BY ListingType, <3>1
        <4>2. Genuine(Complete) \in {{}, {m}}
          BY <3>1 DEF Genuine
        <4> QED
          BY <3>1, <4>1, <4>2 DEF NewestUndeletable
      <3> QED
        BY <2>1, <3>1
    <2> DEFINE h == [name |-> m, is |-> "whole"]
    <2>4. h \in Shown /\ Shown # {h} /\ Shown' = Shown \ {h}
      <3>1. PICK k \in Complete : k # m
        BY <2>1, <2>3
      <3> QED
        <4>1. h \in Shown
          BY <1>1, <2>1 DEF Plain
        <4>2. [name |-> k, is |-> "whole"] \in Shown /\ [name |-> k, is |-> "whole"] # h
          BY <1>1, <3>1 DEF Plain
        <4>3. \A x : x \in Shown' <=> x \in Shown /\ x # h
          BY <1>1, <2>2 DEF Plain
        <4> HIDE DEF h
        <4> QED
          BY <4>1, <4>2, <4>3
    <2> HIDE DEF h
    <2>5. Past!Drop(h)
      BY <2>4 DEF Past!Drop, Shown
    <2> QED
      BY <2>4, <2>5 DEF Past!Next, Shown
  <1> QED
    BY <1>3, <1>4, <1>5, <1>6 DEF Change

LEMMA ShownStep ==
  ASSUME OwnedRoot
  PROVE  /\ TypeInv /\ TypeInv' /\ Ordered /\ Made /\ Made' /\ [Next]_vars
         => [Past!Next]_Shown
  <1> SUFFICES ASSUME TypeInv, TypeInv', Ordered, Made, Made', [Next]_vars
               PROVE  [Past!Next]_Shown
    OBVIOUS
  <1>1. CASE UNCHANGED complete
    BY <1>1 DEF Shown, Complete
  <1>2. ~Plant
    BY DEF Plant, OwnedRoot
  <1> QED
    BY <1>1, <1>2, Moves, ShownChange DEF Rest, Onward

\* The archive implements the abstract history: it grows at its newest end by whole
\* snapshots, loses them one by one and never the last one, and each stays whole,
\* whatever kind of archive it is and whatever fails, is retried or is killed.
THEOREM ImplementsHistory ==
  ASSUME OwnedRoot
  PROVE  Spec => HistorySpec
  <1>1. Init => Past!Init
    BY NoTreeType DEF Init, Past!Init, Complete
  <1>2. /\ TypeInv /\ TypeInv' /\ Ordered /\ Made /\ Made' /\ [Next]_vars
        => [Past!Next]_Shown
    BY ShownStep
  <1> QED
    BY <1>1, <1>2, RealInit, RealStep, OrderInit, OrderStep, MadeInit, MadeStep, Typed, PTL
       DEF Spec, HistorySpec, Past!Spec, Shown

-----------------------------------------------------------------------------
(***************************************************************************)
(* What a step does to the memory of its operation and to the record       *)
(***************************************************************************)
\* p goes on with the operation it is at, remembering what it remembered.
Same(p) ==
  /\ Others(p) /\ run'[p].at \notin {"idle", "lock"}
  /\ run'[p].op = run[p].op /\ run'[p].start = run[p].start
  /\ run'[p].mark = run[p].mark /\ run'[p].count = run[p].count
  /\ run'[p].insertion = run[p].insertion
  /\ run'[p].todo \in SUBSET run[p].todo
  /\ run'[p].files = run[p].files \/ TransferDone(p)
  /\ run'[p].collapse = run[p].collapse \/ Collapse(p)

\* p's operation is over, or leaves a report dated now because the lock is held.
Over(p) == run' = [run EXCEPT ![p] = Idle]
Refused(p) == /\ run[p].at = "lock" /\ run[p].op = "run"
              /\ run' = [run EXCEPT ![p].at = "report", ![p].start = now]

LEMMA Going ==
  ASSUME TypeInv, NEW p \in Runner, NEW point \in Points \ {"idle", "lock"}, Goto(p, point)
  PROVE  Same(p)
  <1>1. run[p] \in Runs /\ run \in [Runner -> Runs]
    BY DEF TypeInv, TypeOK
  <1> DEFINE d == [run[p] EXCEPT !.at = point]
  <1>2. /\ d \in Runs /\ d.at = point /\ d.op = run[p].op /\ d.start = run[p].start
        /\ d.mark = run[p].mark /\ d.count = run[p].count
        /\ d.insertion = run[p].insertion /\ d.todo = run[p].todo
        /\ d.files = run[p].files /\ d.collapse = run[p].collapse
    BY <1>1 DEF Runs, Points
  <1>3. run' = [run EXCEPT ![p] = d]
    BY <1>1 DEF Goto
  <1> HIDE DEF d
  <1>4. run'[p] = d /\ Others(p)
    BY <1>1, <1>3 DEF Others
  <1> QED
    BY <1>2, <1>4 DEF Same

LEMMA Failing ==
  ASSUME TypeInv, NEW p \in Runner, RemoveFailed(p)
  PROVE  Same(p)
  <1>1. run[p] \in Runs /\ run \in [Runner -> Runs]
    BY DEF TypeInv, TypeOK
  <1> DEFINE next == IF run[p].op = "run" THEN "release" ELSE "remove"
             d == [run[p] EXCEPT !.todo = @ \ {Oldest(@)}, !.at = next]
  <1>2. next \in {"release", "remove"}
    OBVIOUS
  <1>3. run' = [run EXCEPT ![p] = d]
    BY <1>1 DEF RemoveFailed
  <1> HIDE DEF next
  <1>4. /\ d.at = next /\ d.op = run[p].op /\ d.start = run[p].start
        /\ d.mark = run[p].mark /\ d.count = run[p].count
        /\ d.insertion = run[p].insertion /\ d.todo \in SUBSET run[p].todo
        /\ d.files = run[p].files /\ d.collapse = run[p].collapse
    BY <1>1 DEF Runs
  <1> HIDE DEF d
  <1>5. run'[p] = d /\ Others(p)
    BY <1>1, <1>3 DEF Others
  <1> QED
    BY <1>2, <1>4, <1>5 DEF Same

LEMMA Keeps ==
  ASSUME TypeInv, NEW p \in Runner, Step(p)
  PROVE  \/ Same(p) \/ Over(p) \/ Refused(p) \/ History(p) \/ PrunePlan(p)
  <1>0. run[p] \in Runs /\ run \in [Runner -> Runs]
    BY DEF TypeInv, TypeOK
  <1>1. ASSUME NEW d, run' = [run EXCEPT ![p] = d], d.at \notin {"idle", "lock"},
               d.op = run[p].op, d.start = run[p].start,
               d.mark = run[p].mark, d.count = run[p].count,
               d.insertion = run[p].insertion, d.todo \in SUBSET run[p].todo,
               d.files = run[p].files \/ TransferDone(p),
               d.collapse = run[p].collapse \/ Collapse(p)
        PROVE  Same(p)
    <2>1. run'[p] = d /\ Others(p)
      BY <1>0, <1>1 DEF Others
    <2> QED
      BY <1>1, <2>1 DEF Same
  <1>2. ASSUME NEW point \in Points \ {"idle", "lock"}, Goto(p, point) PROVE Same(p)
    BY <1>2, Going
  <1>3. CASE Acquire(p)
    <2> DEFINE point == IF run[p].op = "run" THEN "claim" ELSE "prunelist"
    <2>1. point \in Points \ {"idle", "lock"} /\ Goto(p, point)
      BY <1>3 DEF Acquire, Points
    <2> HIDE DEF point
    <2> QED
      BY <1>2, <2>1
  <1>4. CASE LockHeld(p)
    <2>1. CASE Goto(p, "report")
      BY <1>2, <2>1 DEF Points
    <2> QED
      BY <1>4, <2>1 DEF LockHeld, At, Over, Refused
  <1>5. CASE ClaimSweep(p)
    <2>1. run' = run /\ run[p].at = "claim"
      BY <1>5 DEF ClaimSweep, At
    <2> QED
      BY <2>1 DEF Same, Others
  <1>6. CASE ListComplete(p) /\ ~Finish(p)
    <2> DEFINE newest == IF Complete = {} THEN 0 ELSE Newest(Complete)
               d == [run[p] EXCEPT !.base = newest, !.at = "guard"]
    <2>1. run' = [run EXCEPT ![p] = d]
      BY <1>0, <1>6 DEF ListComplete
    <2> HIDE DEF newest
    <2>2. /\ d.at = "guard" /\ d.op = run[p].op /\ d.start = run[p].start
          /\ d.mark = run[p].mark /\ d.count = run[p].count
          /\ d.insertion = run[p].insertion /\ d.todo \in SUBSET run[p].todo
          /\ d.files = run[p].files /\ d.collapse = run[p].collapse
      BY <1>0 DEF Runs
    <2> HIDE DEF d
    <2> QED
      BY <1>1, <2>1, <2>2
  <1>7. CASE TransferDone(p)
    <2>1. PICK f : run' = [run EXCEPT ![p].files = f, ![p].attempt = 1,
                                      ![p].at = IF Verify THEN "verify" ELSE "promote"]
      BY <1>7 DEF TransferDone
    <2> DEFINE next == IF Verify THEN "verify" ELSE "promote"
               d == [run[p] EXCEPT !.files = f, !.attempt = 1, !.at = next]
    <2>2. run' = [run EXCEPT ![p] = d] /\ next \in {"verify", "promote"}
      BY <1>0, <2>1
    <2> HIDE DEF next
    <2>3. /\ d.at = next /\ d.op = run[p].op /\ d.start = run[p].start
          /\ d.mark = run[p].mark /\ d.count = run[p].count
          /\ d.insertion = run[p].insertion /\ d.todo \in SUBSET run[p].todo
          /\ d.collapse = run[p].collapse
      BY <1>0 DEF Runs
    <2> HIDE DEF d
    <2> QED
      BY <1>1, <1>7, <2>2, <2>3
  <1>8. CASE TransferRetry(p)
    <2> DEFINE d == [run[p] EXCEPT !.attempt = @ + 1, !.at = "transfer"]
    <2>1. run' = [run EXCEPT ![p] = d]
      BY <1>0, <1>8 DEF TransferRetry
    <2>2. /\ d.at = "transfer" /\ d.op = run[p].op /\ d.start = run[p].start
          /\ d.mark = run[p].mark /\ d.count = run[p].count
          /\ d.insertion = run[p].insertion /\ d.todo \in SUBSET run[p].todo
          /\ d.files = run[p].files /\ d.collapse = run[p].collapse
      BY <1>0 DEF Runs
    <2> HIDE DEF d
    <2> QED
      BY <1>1, <2>1, <2>2
  <1>9. CASE Collapse(p)
    <2> DEFINE fell == CollapseAgainst(NewestStats, run[p].files)
               d == [run[p] EXCEPT !.collapse = fell, !.at = "history"]
    <2>1. run' = [run EXCEPT ![p] = d]
      BY <1>0, <1>9 DEF Collapse
    <2> HIDE DEF fell
    <2>2. /\ d.at = "history" /\ d.op = run[p].op /\ d.start = run[p].start
          /\ d.mark = run[p].mark /\ d.count = run[p].count
          /\ d.insertion = run[p].insertion /\ d.todo \in SUBSET run[p].todo
          /\ d.files = run[p].files
      BY <1>0 DEF Runs
    <2> HIDE DEF d
    <2> QED
      BY <1>1, <1>9, <2>1, <2>2
  <1>10. CASE RemoveFailed(p)
    BY <1>10, Failing
  <1>11. CASE RemoveTree(p)
    <2> DEFINE d == [run[p] EXCEPT !.todo = @ \ {Oldest(@)}, !.at = "remove"]
    <2>1. run' = [run EXCEPT ![p] = d]
      BY <1>0, <1>11 DEF RemoveTree
    <2>2. /\ d.at = "remove" /\ d.op = run[p].op /\ d.start = run[p].start
          /\ d.mark = run[p].mark /\ d.count = run[p].count
          /\ d.insertion = run[p].insertion /\ d.todo \in SUBSET run[p].todo
          /\ d.files = run[p].files /\ d.collapse = run[p].collapse
      BY <1>0 DEF Runs
    <2> HIDE DEF d
    <2> QED
      BY <1>1, <2>1, <2>2
  <1>12. CASE Release(p)
    <2>1. CASE run[p].op = "run"
      <3>1. Goto(p, "report")
        BY <1>0, <1>12, <2>1 DEF Release, Goto
      <3> QED
        BY <1>2, <3>1 DEF Points
    <2>2. CASE run[p].op # "run"
      BY <1>0, <1>12, <2>2 DEF Release, Over
    <2> QED
      BY <2>1, <2>2
  <1>13. CASE WriteReport(p)
    BY <1>13 DEF WriteReport, Over
  <1>14. ASSUME Finish(p) PROVE Same(p)
    BY <1>2, <1>14 DEF Finish, Points
  <1>15. CASE \/ ClaimResume(p) \/ ClaimFresh(p) \/ DiskGuard(p) \/ TransferStart(p)
              \/ VerifyPass(p) \/ PromoteCheck(p) \/ PromoteMove(p) \/ RemovedAll(p)
    <2>1. \E point \in {"list", "transfer", "rsync", "promote", "rename", "collapse", "release"} :
             Goto(p, point)
      BY <1>15, Zenon DEF ClaimResume, ClaimFresh, DiskGuard, TransferStart, VerifyPass,
         PromoteCheck, PromoteMove, RemovedAll, Finish
    <2> QED
      BY <1>2, <2>1 DEF Points
  <1>17. CASE TransferFails(p)
    <2>1. PICK d \in Runs : /\ run' = [run EXCEPT ![p] = d]
                           /\ d = [run[p] EXCEPT !.attempt = 1, !.at = "release"]
      BY <1>17, GivenUp DEF TypeInv
    <2>2. /\ d.at = "release" /\ d.op = run[p].op /\ d.start = run[p].start
          /\ d.mark = run[p].mark /\ d.count = run[p].count
          /\ d.insertion = run[p].insertion /\ d.todo \in SUBSET run[p].todo
          /\ d.files = run[p].files /\ d.collapse = run[p].collapse
      BY <1>0, <2>1 DEF Runs
    <2> QED
      BY <1>1, <2>1, <2>2
  <1>16. CASE Remove(p) \/ StoreFails(p)
    <2>1. RemoveFailed(p) \/ Finish(p) \/ Goto(p, "rm")
      BY <1>16, Zenon DEF Remove, StoreFails
    <2>2. ASSUME Goto(p, "rm") PROVE Same(p)
      BY <1>2, <2>2 DEF Points
    <2> QED
      BY <1>10, <1>14, <2>1, <2>2
  <1> QED
    BY <1>3, <1>4, <1>5, <1>6, <1>7, <1>8, <1>9, <1>11, <1>12, <1>13, <1>14, <1>15,
       <1>16, <1>17 DEF Step

\* Reports change only when one is written, and only the one written is new.
LEMMA Filed ==
  ASSUME TypeInv, NEW p \in Runner, WriteReport(p)
  PROVE  LET r == run[p]
             new == [there |-> TRUE, files |-> r.files, collapse |-> r.collapse,
                     count |-> r.count]
         IN  \A n \in Instant : \/ reports'[n] = NoReport
                                \/ n # r.start /\ reports'[n] = reports[n]
                                \/ n = r.start /\ reports'[n] = new
  <1> DEFINE r == run[p]
             new == [there |-> TRUE, files |-> r.files, collapse |-> r.collapse,
                     count |-> r.count]
             all == [reports EXCEPT ![r.start] = new]
  <1>1. reports' = WithReport(r.start, new)
    BY DEF WriteReport
  <1>2. reports' = [m \in Instant |->
            IF Cardinality({k \in Instant : k > m /\ all[k].there}) < Kept
            THEN all[m] ELSE NoReport]
    BY <1>1, Zenon DEF WithReport
  <1>3. \A n \in Instant : all[n] = IF n = r.start THEN new ELSE reports[n]
    BY DEF TypeInv, TypeOK
  <1> HIDE DEF all, new
  <1>4. \A n \in Instant : reports'[n] \in {all[n], NoReport}
    BY <1>2
  <1>5. \A n \in Instant : \/ reports'[n] = NoReport
                           \/ n # r.start /\ reports'[n] = reports[n]
                           \/ n = r.start /\ reports'[n] = new
    BY <1>3, <1>4
  <1> QED
    BY <1>5 DEF new

LEMMA Unfiled ==
  ASSUME [Next]_vars, \A p \in Runner : ~WriteReport(p)
  PROVE  reports' = reports
  <1>1. ASSUME NEW p \in Runner, Step(p) PROVE reports' = reports
    <2>1. \/ Acquire(p) \/ LockHeld(p) \/ ClaimSweep(p) \/ ClaimResume(p) \/ ClaimFresh(p)
          \/ ListComplete(p) \/ DiskGuard(p) \/ TransferStart(p) \/ TransferDone(p)
          => reports' = reports
      BY DEF Acquire, LockHeld, ClaimSweep, ClaimResume, ClaimFresh, ListComplete, DiskGuard,
             TransferStart, TransferDone
    <2>2. \/ TransferRetry(p) \/ TransferFails(p) \/ VerifyPass(p) \/ PromoteCheck(p)
          \/ PromoteMove(p) \/ Collapse(p) \/ RemoveTree(p) \/ RemovedAll(p) \/ Release(p)
          => reports' = reports
      BY DEF TransferRetry, TransferFails, VerifyPass, PromoteCheck, PromoteMove, Collapse,
             RemoveTree, RemovedAll, Release
    <2>3. History(p) \/ PrunePlan(p) \/ Remove(p) \/ StoreFails(p) => reports' = reports
      BY Zenon DEF History, PrunePlan, Remove, StoreFails
    <2> QED
      BY <1>1, <2>1, <2>2, <2>3 DEF Step
  <1>2. CASE Tick \/ Shrink \/ Plant \/ UNCHANGED vars
    BY <1>2 DEF Tick, Shrink, Plant, vars
  <1> QED
    BY <1>1, <1>2 DEF Next, Begin, Crash

\* Nothing but the clock and the loss of files moves the environment of a step.
LEMMA Untimed ==
  ASSUME NEW p \in Runner, Step(p)
  PROVE  UNCHANGED env
  <1>1. \/ Acquire(p) \/ LockHeld(p) \/ ClaimSweep(p) \/ ClaimResume(p) \/ ClaimFresh(p)
        \/ ListComplete(p) \/ DiskGuard(p) \/ TransferStart(p) \/ TransferDone(p)
        => UNCHANGED env
    BY Zenon DEF Acquire, LockHeld, ClaimSweep, ClaimResume, ClaimFresh, ListComplete,
       DiskGuard, TransferStart, TransferDone
  <1>2. \/ TransferRetry(p) \/ TransferFails(p) \/ VerifyPass(p) \/ PromoteCheck(p)
        \/ PromoteMove(p) \/ Collapse(p) \/ RemoveTree(p) \/ RemovedAll(p) \/ Release(p)
        => UNCHANGED env
    BY Zenon DEF TransferRetry, TransferFails, VerifyPass, PromoteCheck, PromoteMove, Collapse,
       RemoveTree, RemovedAll, Release
  <1>3. \/ History(p) \/ PrunePlan(p) \/ Remove(p) \/ StoreFails(p) \/ WriteReport(p)
        => UNCHANGED env
    BY Zenon DEF History, PrunePlan, Remove, StoreFails, WriteReport
  <1> QED
    BY <1>1, <1>2, <1>3 DEF Step

LEMMA Timed ==
  ASSUME [Next]_vars
  PROVE  UNCHANGED <<now, source>> \/ Tick \/ Shrink
  BY Untimed DEF Next, Begin, Crash, Plant, env, vars

\* A process that takes a step of an operation has one.
LEMMA Busy ==
  ASSUME NEW p \in Runner, Step(p)
  PROVE  run[p].at # "idle"
  <1>1. \/ Acquire(p) \/ LockHeld(p) \/ ClaimSweep(p) \/ ClaimResume(p) \/ ClaimFresh(p)
        \/ ListComplete(p) \/ DiskGuard(p) \/ TransferStart(p) \/ TransferDone(p)
        \/ TransferRetry(p) \/ TransferFails(p) \/ VerifyPass(p) \/ PromoteCheck(p)
        => run[p].at # "idle"
    BY DEF Acquire, LockHeld, ClaimSweep, ClaimResume, ClaimFresh, ListComplete, DiskGuard,
           TransferStart, TransferDone, TransferRetry, TransferFails, VerifyPass, PromoteCheck, At
  <1>2. \/ PromoteMove(p) \/ Collapse(p) \/ RemoveTree(p) \/ RemovedAll(p) \/ Release(p)
        \/ WriteReport(p)
        => run[p].at # "idle"
    BY DEF PromoteMove, Collapse, RemoveTree, RemovedAll, Release, WriteReport, At
  <1>3. History(p) \/ PrunePlan(p) \/ Remove(p) \/ StoreFails(p)
        => run[p].at \in {"history", "prunelist", "remove", "claim", "list", "guard", "promote",
                         "rename", "collapse", "rm"}
    <2>1. /\ History(p) => run[p].at = "history"
          /\ PrunePlan(p) => run[p].at = "prunelist"
          /\ Remove(p) => run[p].at = "remove"
      BY Zenon DEF History, PrunePlan, Remove, At
    <2>2. StoreFails(p) => run[p].at \in {"claim", "list", "guard", "promote", "rename",
                                          "collapse", "history", "prunelist", "remove", "rm"}
      BY Zenon DEF StoreFails
    <2> QED
      BY <2>1, <2>2
  <1> QED
    BY <1>1, <1>2, <1>3 DEF Step

-----------------------------------------------------------------------------
(***************************************************************************)
(* The insertion check                                                     *)
(***************************************************************************)
\* A count c that was taken at the name n cannot be exceeded up to n: the
\* snapshots S have one that is no older, and at most c up to n.
Within(S, n, c) ==
  /\ \E m \in S : n <= m
  /\ Cardinality({m \in S : m <= n}) <= c

\* Nothing is dated in the future, neither a snapshot nor a run under way.
Current ==
  /\ \A m \in Complete : m <= now
  /\ \A p \in Runner : run[p].at # "idle" /\ run[p].op = "run" => run[p].start <= now

\* Every count in a report, and every one a process holds, is within reach.
Recorded == \A n \in Instant : reports[n].there /\ reports[n].count # None
               => Within(Complete, n, reports[n].count)
Counted(p) ==
  /\ run[p].at = "lock" => run[p].count = None
  /\ run[p].count # None => Within(Complete, run[p].start, run[p].count)
  /\ run[p].mark.newest # 0 => Within(Complete, run[p].mark.newest, run[p].mark.count)
  /\ ~run[p].insertion

AlarmInv == Current /\ Recorded /\ \A p \in Runner : Counted(p)

\* The snapshots stay, lose one that is not the newest, or gain a newest one.
Growth ==
  \/ Complete' = Complete
  \/ \E n \in Complete : n # Newest(Complete) /\ Complete' = Complete \ {n}
  \/ \E n \in Instant : /\ \A m \in Complete : m < n
                        /\ n <= now /\ Complete' = Complete \cup {n}

LEMMA Lasts ==
  ASSUME TypeInv, Growth, NEW n \in Nat, NEW c \in Nat, Within(Complete, n, c)
  PROVE  Within(Complete', n, c)
  <1> DEFINE upto == {m \in Complete : m <= n}
  <1>0. /\ Complete \in SUBSET Nat /\ IsFiniteSet(Complete)
        /\ Complete # {} => Newest(Complete) \in Complete /\ \A m \in Complete : m <= Newest(Complete)
    BY ListingType DEF TypeInv
  <1>1. PICK w \in Complete : n <= w
    BY DEF Within
  <1>2. IsFiniteSet(upto) /\ Cardinality(upto) \in Nat /\ Cardinality(upto) <= c
    <2>1. IsFiniteSet(upto)
      BY <1>0, FS_Subset
    <2> QED
      BY <2>1, FS_CardinalityType DEF Within
  <1>3. CASE Complete' = Complete
    BY <1>3 DEF Within
  <1>4. ASSUME NEW x \in Complete, x # Newest(Complete), Complete' = Complete \ {x}
        PROVE  Within(Complete', n, c)
    <2>1. Newest(Complete) \in Complete' /\ n <= Newest(Complete)
      <3>1. Newest(Complete) \in Complete /\ w <= Newest(Complete)
        BY <1>0
      <3>2. n <= Newest(Complete)
        <4>1. w \in Nat /\ Newest(Complete) \in Nat
          BY <1>0, <3>1
        <4> HIDE DEF Newest
        <4> QED
          BY <1>1, <3>1, <4>1
      <3> QED
        BY <1>4, <3>1, <3>2
    <2> DEFINE left == {m \in Complete' : m <= n}
    <2>2. left \subseteq upto
      BY <1>4
    <2> HIDE DEF upto, left
    <2>3. Cardinality(left) \in Nat /\ Cardinality(left) <= Cardinality(upto)
      BY <1>2, <2>2, FS_Subset, FS_CardinalityType
    <2>4. Cardinality(left) <= c
      BY <1>2, <2>3
    <2> QED
      BY <2>1, <2>4 DEF Within, left
  <1>5. ASSUME NEW x \in Instant, \A m \in Complete : m < x, Complete' = Complete \cup {x}
        PROVE  Within(Complete', n, c)
    <2>1. x \in Nat /\ ~(x <= n)
      BY <1>0, <1>1, <1>5, Moments
    <2>2. {m \in Complete' : m <= n} = upto
      BY <1>5, <2>1
    <2>3. \E m \in Complete' : n <= m
      BY <1>1, <1>5
    <2> QED
      BY <1>2, <2>2, <2>3 DEF Within
  <1> QED
    BY <1>3, <1>4, <1>5 DEF Growth

\* Without snapshots from the future the newest one is the one that stays.
LEMMA Grows ==
  ASSUME OwnedRoot
  PROVE  TypeInv /\ Ordered /\ Current /\ [Next]_vars => Growth
  <1> SUFFICES ASSUME TypeInv, Ordered, Current, [Next]_vars PROVE Growth
    OBVIOUS
  <1>1. ASSUME NEW p \in Runner, Change(p) PROVE Growth
    <2>1. CASE ClaimSweep(p) \/ ClaimResume(p) \/ ClaimFresh(p) \/ TransferDone(p)
      <3>1. complete' = complete
        BY <2>1 DEF ClaimSweep, ClaimResume, ClaimFresh, TransferDone
      <3> QED
        BY <3>1 DEF Growth, Complete
    <2>2. CASE TransferStart(p)
      <3>1. PICK hit : complete' = [m \in Instant |->
                           IF m \in hit THEN [complete[m] EXCEPT !.touched = TRUE]
                                        ELSE complete[m]]
        BY <2>2 DEF TransferStart
      <3>2. \A m \in Instant : complete'[m].is = complete[m].is
        BY <3>1 DEF TypeInv, TypeOK, Trees
      <3> QED
        BY <3>2 DEF Growth, Complete
    <2>3. CASE PromoteMove(p)
      <3> DEFINE n == run[p].start
      <3>1. run[p].at = "rename" /\ run[p].op = "run" /\ n \in Instant /\ n <= now
        BY <2>3, Sources, Moments DEF TypeInv, Started, Pipeline, Current
      <3>2. \A m \in Complete : m < n
        BY <3>1 DEF Ordered, Ahead
      <3>3. n \notin Complete
        <4>1. n \in Nat
          BY <3>1, Moments
        <4> HIDE DEF n
        <4>2. ~(n < n)
          BY <4>1
        <4> QED
          BY <3>2, <4>2
      <3>4. CASE complete' = complete
        BY <3>4 DEF Growth, Complete
      <3>5. CASE complete' = [complete EXCEPT ![n] = partial[n]]
        <4>1. Complete' = Complete \/ Complete' = Complete \cup {n}
          BY <3>1, <3>3, <3>5 DEF TypeInv, TypeOK, Complete
        <4> QED
          BY <3>1, <3>2, <4>1 DEF Growth
      <3> QED
        BY <2>3, <3>4, <3>5 DEF PromoteMove
    <2>4. CASE Remove(p) /\ ~(RemoveFailed(p) /\ UNCHANGED root)
      <3>1. PICK n : n \in Complete /\ n # NewestUndeletable(Complete)
                     /\ complete' = [complete EXCEPT ![n] = NoTree]
        BY <2>4, Zenon DEF Remove
      <3>2. Genuine(Complete) = Complete
        <4>1. \A m \in Complete : ~IsFuture(m)
          <5>1. \A m \in Complete : m \in Nat /\ m <= now
            BY ListingType DEF Current
          <5>2. now \in Nat /\ Skew \in Nat
            BY ArchiveAssumption DEF TypeInv, TypeOK
          <5> QED
            BY <5>1, <5>2 DEF IsFuture
        <4> QED
          BY <4>1 DEF Genuine
      <3>3. n # Newest(Complete)
        BY <3>1, <3>2 DEF NewestUndeletable
      <3>4. Complete' = Complete \ {n}
        BY <3>1, NoTreeType DEF TypeInv, TypeOK, Complete
      <3> QED
        BY <3>1, <3>3, <3>4 DEF Growth
    <2> QED
      BY <1>1, <2>1, <2>2, <2>3, <2>4 DEF Change
  <1>2. ASSUME UNCHANGED complete PROVE Growth
    BY <1>2 DEF Growth, Complete
  <1>3. ~Plant
    BY DEF Plant, OwnedRoot
  <1> QED
    BY <1>1, <1>2, <1>3, Moves DEF Rest, Onward

\* The check at a listing of today's snapshots does not trip.
LEMMA Quiet ==
  ASSUME NEW mark \in Marks, mark.newest # 0 => Within(Complete, mark.newest, mark.count), TypeInv
  PROVE  ~DetectHistoryInsertion(Complete, mark)
  <1>1. CASE mark.newest = 0
    BY <1>1 DEF DetectHistoryInsertion
  <1>2. CASE mark.newest # 0
    <2> DEFINE upto == {n \in Complete : n <= mark.newest}
    <2>1. IsFiniteSet(upto)
      BY FS_Subset DEF TypeInv
    <2>2. Cardinality(upto) \in Nat /\ Cardinality(upto) <= mark.count /\ mark.count \in Nat
      BY <1>2, <2>1, FS_CardinalityType DEF Within, Marks
    <2> HIDE DEF upto
    <2>3. ~(Cardinality(upto) > mark.count)
      BY <2>2
    <2> QED
      BY <2>3 DEF DetectHistoryInsertion, upto
  <1> QED
    BY <1>1, <1>2

LEMMA MarkWithin ==
  ASSUME TypeInv, Recorded, NewestHistoryMark.newest # 0
  PROVE  Within(Complete, NewestHistoryMark.newest, NewestHistoryMark.count)
  <1> DEFINE S == {n \in Instant : reports[n].there /\ reports[n].count # None}
  <1>1. S # {}
    BY DEF NewestHistoryMark, NoMark
  <1>2. S \in SUBSET (1..MaxNow) /\ IsFiniteSet(1..MaxNow)
    BY FS_Interval, ArchiveAssumption DEF TypeInv
  <1>3. S \in SUBSET Nat /\ IsFiniteSet(S)
    BY <1>2, FS_Subset, Moments
  <1>4. NewestHistoryMark = [newest |-> Newest(S), count |-> reports[Newest(S)].count]
    BY <1>1 DEF NewestHistoryMark
  <1> HIDE DEF S
  <1>5. Newest(S) \in S
    BY <1>1, <1>3, NewestIn
  <1>6. Within(Complete, Newest(S), reports[Newest(S)].count)
    BY <1>5 DEF Recorded, S
  <1> QED
    BY <1>4, <1>6

LEMMA AlarmInit == Init => AlarmInv
  <1> SUFFICES ASSUME Init PROVE AlarmInv
    OBVIOUS
  <1>1. Complete = {}
    BY NoTreeType DEF Init, Complete
  <1>2. \A p \in Runner : run[p] = Idle
    BY DEF Init
  <1>3. Idle.count = None /\ Idle.mark.newest = 0 /\ ~Idle.insertion /\ Idle.at = "idle"
    BY DEF Idle, NoMark
  <1>4. \A n \in Instant : ~reports[n].there
    BY NoReportType DEF Init
  <1> QED
    BY <1>1, <1>2, <1>3, <1>4 DEF AlarmInv, Current, Recorded, Counted

LEMMA MomentsOrNone == \A n \in Instant \cup {0} : n \in Nat
  <1>1. Instant \subseteq Nat
    BY Moments
  <1> QED
    BY <1>1

LEMMA MarkNumbers ==
  ASSUME NEW mark \in Marks
  PROVE  mark.newest \in Nat /\ mark.count \in Nat
  <1>1. mark.newest \in Instant \cup {0} /\ mark.count \in Nat
    BY DEF Marks
  <1> QED
    BY <1>1, MomentsOrNone

LEMMA Numbers ==
  ASSUME NEW r \in Runs
  PROVE  /\ r.start \in Nat /\ r.mark \in Marks
         /\ r.mark.newest \in Nat /\ r.mark.count \in Nat
         /\ (r.count # None => r.count \in Nat)
  <1>1. r.start \in Instant \cup {0} /\ r.mark \in Marks /\ r.count \in Nat \cup {None}
    BY DEF Runs, Counts
  <1>2. r.mark.newest \in Nat /\ r.mark.count \in Nat
    BY <1>1, MarkNumbers
  <1> QED
    BY <1>1, <1>2, MomentsOrNone

\* The operations of a step that is none of p's.
LEMMA AlarmOthers ==
  ASSUME TypeInv, AlarmInv, Growth, NEW q \in Runner, run'[q] = run[q]
  PROVE  Counted(q)'
  <1>1. /\ run[q].start \in Nat /\ (run[q].count # None => run[q].count \in Nat)
        /\ run[q].mark.newest \in Nat /\ run[q].mark.count \in Nat
    BY Numbers DEF TypeInv, TypeOK
  <1>2. Counted(q)
    BY DEF AlarmInv
  <1>3. \A n, c \in Nat : Within(Complete, n, c) => Within(Complete', n, c)
    BY Lasts
  <1> QED
    BY <1>1, <1>2, <1>3 DEF Counted

LEMMA AlarmStep ==
  ASSUME OwnedRoot, "clockBack" \notin Faults
  PROVE  TypeInv /\ TypeInv' /\ Real /\ Ordered /\ AlarmInv /\ [Next]_vars => AlarmInv'
  <1> SUFFICES ASSUME TypeInv, TypeInv', Real, Ordered, AlarmInv, [Next]_vars PROVE AlarmInv'
    OBVIOUS
  <1>1. Growth
    BY Grows DEF AlarmInv
  <1>2. now \in Nat /\ now' \in Nat /\ now <= now'
    <2>1. now \in Nat /\ now' \in Nat
      BY DEF TypeInv, TypeOK
    <2>2. now' = now \/ now' = now + 1
      BY Timed DEF Tick, Shrink
    <2> QED
      BY <2>1, <2>2
  <1>3. \A m \in Complete' : m <= now'
    <2>1. \A m \in Complete' : m \in Nat
      BY Moments DEF Complete
    <2>2. \A m \in Complete' : m <= now
      BY <1>1 DEF Growth, AlarmInv, Current
    <2> QED
      BY <1>2, <2>1, <2>2
  <1>4. /\ run \in [Runner -> Runs] /\ run' \in [Runner -> Runs]
        /\ \A p \in Runner : run[p].start \in Nat /\ run'[p].start \in Nat
    <2>1. run \in [Runner -> Runs] /\ run' \in [Runner -> Runs]
      BY DEF TypeInv, TypeOK
    <2>2. \A p \in Runner : run[p] \in Runs /\ run'[p] \in Runs
      BY <2>1
    <2> QED
      BY <2>1, <2>2, Numbers
  <1>5. ASSUME NEW n \in Nat, NEW c \in Nat, Within(Complete, n, c)
        PROVE  Within(Complete', n, c)
    BY <1>1, <1>5, Lasts
  <1>6. ASSUME NEW q \in Runner, run'[q] = run[q]
        PROVE  /\ Counted(q)'
               /\ run'[q].at # "idle" /\ run'[q].op = "run" => run'[q].start <= now'
    <2>1. Counted(q)'
      BY <1>1, <1>6, AlarmOthers
    <2>2. ASSUME run'[q].at # "idle", run'[q].op = "run" PROVE run'[q].start <= now'
      <3>1. run[q].start <= now
        BY <1>6, <2>2 DEF AlarmInv, Current
      <3> QED
        BY <1>2, <1>4, <1>6, <3>1
    <2> QED
      BY <2>1, <2>2
  <1>7. ASSUME NEW p \in Runner, run' = [run EXCEPT ![p] = Idle]
        PROVE  Others(p) /\ Counted(p)' /\ run'[p].at = "idle"
    <2>1. run'[p] = Idle /\ Others(p)
      BY <1>4, <1>7 DEF Others
    <2>2. Idle.count = None /\ Idle.mark.newest = 0 /\ ~Idle.insertion /\ Idle.at = "idle"
      BY DEF Idle, NoMark
    <2> QED
      BY <2>1, <2>2 DEF Counted
  <1>8. ASSUME NEW p \in Runner, Same(p), run[p].at # "idle"
        PROVE  /\ Others(p) /\ Counted(p)'
               /\ run'[p].at # "idle" /\ run'[p].op = "run" => run'[p].start <= now'
    <2>1. Others(p)
      BY <1>8 DEF Same
    <2>2. Counted(p)'
      <3>1. /\ run[p].count # None => run[p].count \in Nat
            /\ run[p].mark.newest \in Nat /\ run[p].mark.count \in Nat
        BY <1>4, Numbers
      <3>2. Counted(p)
        BY DEF AlarmInv
      <3> QED
        BY <1>4, <1>5, <1>8, <3>1, <3>2 DEF Same, Counted
    <2>3. ASSUME run'[p].at # "idle", run'[p].op = "run" PROVE run'[p].start <= now'
      <3>1. run'[p].start = run[p].start /\ run[p].op = "run"
        BY <1>8, <2>3 DEF Same
      <3>2. run[p].start <= now
        BY <1>8, <3>1 DEF AlarmInv, Current
      <3> QED
        BY <1>2, <1>4, <3>1, <3>2
    <2> QED
      BY <2>1, <2>2, <2>3
  <1>9. ASSUME NEW p \in Runner, Refused(p)
        PROVE  /\ Others(p) /\ Counted(p)'
               /\ run'[p].op = "run" => run'[p].start <= now'
    <2> DEFINE d == [run[p] EXCEPT !.at = "report", !.start = now]
    <2>1. run' = [run EXCEPT ![p] = d]
      BY <1>4, <1>9 DEF Refused
    <2>2. /\ d.at = "report" /\ d.start = now /\ d.count = run[p].count
          /\ d.mark = run[p].mark /\ d.insertion = run[p].insertion
      BY <1>4 DEF Runs
    <2> HIDE DEF d
    <2>3. run'[p] = d /\ Others(p)
      BY <1>4, <2>1 DEF Others
    <2>4. /\ run[p].count = None /\ ~run[p].insertion
          /\ run[p].mark.newest # 0 => Within(Complete, run[p].mark.newest, run[p].mark.count)
      BY <1>9 DEF Refused, AlarmInv, Counted
    <2>5. run[p].mark.newest \in Nat /\ run[p].mark.count \in Nat
      BY <1>4, Numbers
    <2>6. Counted(p)'
      BY <1>5, <2>2, <2>3, <2>4, <2>5 DEF Counted
    <2> QED
      BY <1>2, <2>2, <2>3, <2>6
  <1>m. /\ NewestHistoryMark \in Marks
        /\ NewestHistoryMark.newest # 0
             => Within(Complete, NewestHistoryMark.newest, NewestHistoryMark.count)
    BY MarkType, MarkWithin DEF AlarmInv
  <1>10. ASSUME NEW p \in Runner, History(p)
         PROVE  /\ Others(p) /\ Counted(p)'
                /\ run'[p].op = "run" => run'[p].start <= now'
    <2> DEFINE inserted == DetectHistoryInsertion(Complete, NewestHistoryMark)
               plan == IF run[p].collapse \/ inserted THEN {} ELSE PruneList(Complete)
               d == [run[p] EXCEPT !.count = Cardinality(Complete), !.insertion = inserted,
                                   !.todo = plan, !.at = "remove"]
    <2>1. run' = [run EXCEPT ![p] = d]
      BY <1>4, <1>10 DEF History
    <2>2. ~inserted
      BY <1>m, Quiet
    <2> HIDE DEF inserted, plan
    <2>3. /\ d.at = "remove" /\ d.start = run[p].start /\ d.count = Cardinality(Complete)
          /\ d.mark = run[p].mark /\ d.insertion = inserted /\ d.op = run[p].op
      BY <1>4 DEF Runs
    <2> HIDE DEF d
    <2>4. run'[p] = d /\ Others(p)
      BY <1>4, <2>1 DEF Others
    <2>5. run[p].at = "history" /\ run[p].op = "run"
      BY <1>10, Zenon DEF History, At, TypeInv, Started, Pipeline
    <2>6. run[p].start \in Complete /\ run[p].start <= now
      BY <2>5, Moments DEF Real, Solid, Complete, TypeInv, Started, AlarmInv, Current
    <2>7. Within(Complete, run[p].start, Cardinality(Complete))
      <3> DEFINE n == run[p].start
                 upto == {m \in Complete : m <= n}
      <3>1. IsFiniteSet(Complete) /\ upto \subseteq Complete
        BY DEF TypeInv
      <3>2. Cardinality(upto) <= Cardinality(Complete)
        BY <3>1, FS_Subset
      <3>3. n <= n
        BY <1>4
      <3> QED
        BY <2>6, <3>2, <3>3 DEF Within
    <2>8. /\ run[p].mark.newest \in Nat /\ run[p].mark.count \in Nat
          /\ Cardinality(Complete) \in Nat
      BY <1>4, Numbers, ListingType
    <2>9. run[p].mark.newest # 0 => Within(Complete, run[p].mark.newest, run[p].mark.count)
      BY DEF AlarmInv, Counted
    <2>10. Counted(p)'
      BY <1>4, <1>5, <2>2, <2>3, <2>4, <2>7, <2>8, <2>9 DEF Counted
    <2> QED
      BY <1>2, <1>4, <2>3, <2>4, <2>6, <2>10
  <1>11. ASSUME NEW p \in Runner, PrunePlan(p)
         PROVE  /\ Others(p) /\ Counted(p)'
                /\ run'[p].op = "run" => run'[p].start <= now'
    <2> DEFINE refused == InsertionRefusal(p)
               plan == IF refused THEN {} ELSE PruneList(Complete)
               d == [run[p] EXCEPT !.insertion = refused, !.todo = plan, !.at = "remove"]
    <2>1. run' = [run EXCEPT ![p] = d] /\ run[p].at = "prunelist"
      BY <1>4, <1>11 DEF PrunePlan, At
    <2>2. ~refused
      <3>1. run[p].mark \in Marks /\ Counted(p)
        BY <1>4 DEF Runs, AlarmInv
      <3> QED
        BY <3>1, Quiet DEF InsertionRefusal, Counted
    <2> HIDE DEF refused, plan
    <2>3. /\ d.at = "remove" /\ d.start = run[p].start /\ d.count = run[p].count
          /\ d.mark = run[p].mark /\ d.insertion = refused /\ d.op = run[p].op
      BY <1>4 DEF Runs
    <2> HIDE DEF d
    <2>4. run'[p] = d /\ Others(p)
      BY <1>4, <2>1 DEF Others
    <2>5. /\ run[p].mark.newest \in Nat /\ run[p].mark.count \in Nat
          /\ run[p].count # None => run[p].count \in Nat
      BY <1>4, Numbers
    <2>6. /\ run[p].mark.newest # 0 => Within(Complete, run[p].mark.newest, run[p].mark.count)
          /\ run[p].count # None => Within(Complete, run[p].start, run[p].count)
      BY DEF AlarmInv, Counted
    <2>7. Counted(p)'
      BY <1>4, <1>5, <2>2, <2>3, <2>4, <2>5, <2>6 DEF Counted
    <2>8. run[p].op = "run" => run[p].start <= now
      BY <2>1 DEF AlarmInv, Current
    <2> QED
      BY <1>2, <1>4, <2>3, <2>4, <2>7, <2>8
  <1>12. ASSUME NEW p \in Runner, NEW op \in {"run", "prune"}, NEW force \in BOOLEAN,
                Begin(p, op, force)
         PROVE  /\ Others(p) /\ Counted(p)'
                /\ run'[p].op = "run" => run'[p].start <= now'
    <2> DEFINE start == IF op = "run" THEN now ELSE 0
               mark == IF op = "run" THEN NoMark ELSE NewestHistoryMark
               d == [Idle EXCEPT !.at = "lock", !.op = op, !.force = force, !.start = start,
                                 !.mark = mark]
    <2>1. run' = [run EXCEPT ![p] = d]
      BY <1>12 DEF Begin
    <2>2. /\ mark \in Marks /\ start \in Nat /\ start <= now
          /\ mark.newest # 0 => Within(Complete, mark.newest, mark.count)
      BY <1>2, <1>m DEF NoMark, Marks
    <2> HIDE DEF start, mark
    <2>3. /\ d.count = None /\ ~d.insertion /\ d.mark = mark /\ d.start = start
      BY DEF Idle
    <2> HIDE DEF d
    <2>4. run'[p] = d /\ Others(p)
      BY <1>4, <2>1 DEF Others
    <2>5. mark.newest \in Nat /\ mark.count \in Nat
      BY <2>2, MarkNumbers
    <2>6. Counted(p)'
      BY <1>5, <2>2, <2>3, <2>4, <2>5 DEF Counted
    <2> QED
      BY <1>2, <2>2, <2>3, <2>4, <2>6
  <1>13. ASSUME NEW p \in Runner, Others(p), Counted(p)',
                run'[p].at # "idle" /\ run'[p].op = "run" => run'[p].start <= now'
         PROVE  (\A q \in Runner : Counted(q))' /\ Current'
    <2>1. \A q \in Runner \ {p} : run'[q] = run[q]
      BY <1>13 DEF Others
    <2>2. \A q \in Runner : /\ Counted(q)'
                            /\ run'[q].at # "idle" /\ run'[q].op = "run" => run'[q].start <= now'
      BY <1>6, <1>13, <2>1
    <2> QED
      BY <1>3, <2>2 DEF Current
  <1>14. (\A q \in Runner : Counted(q))' /\ Current'
    <2>1. ASSUME NEW p \in Runner, Step(p) PROVE (\A q \in Runner : Counted(q))' /\ Current'
      <3>1. run[p].at # "idle"
        BY <2>1, Busy
      <3>2. \/ Same(p) \/ Over(p) \/ Refused(p) \/ History(p) \/ PrunePlan(p)
        BY <2>1, Keeps
      <3> QED
        BY <1>7, <1>8, <1>9, <1>10, <1>11, <1>13, <3>1, <3>2 DEF Over
    <2>2. ASSUME NEW p \in Runner, Crash(p) PROVE (\A q \in Runner : Counted(q))' /\ Current'
      BY <1>7, <1>13, <2>2 DEF Crash
    <2>3. ASSUME run' = run PROVE (\A q \in Runner : Counted(q))' /\ Current'
      <3>1. \A q \in Runner : /\ Counted(q)'
                              /\ run'[q].at # "idle" /\ run'[q].op = "run" => run'[q].start <= now'
        BY <1>6, <2>3
      <3> QED
        BY <1>3, <3>1 DEF Current
    <2>4. Tick \/ Shrink \/ Plant \/ UNCHANGED vars => run' = run
      BY DEF Tick, Shrink, Plant, vars
    <2> QED
      BY <1>12, <1>13, <2>1, <2>2, <2>3, <2>4 DEF Next
  <1>15. Recorded'
    <2>0. \A n \in Instant : reports[n].there /\ reports[n].count # None
             => n \in Nat /\ reports[n].count \in Nat /\ Within(Complete, n, reports[n].count)
      BY Moments DEF AlarmInv, Recorded, TypeInv, TypeOK, Reports, Counts
    <2>1. CASE reports' = reports
      BY <1>5, <2>0, <2>1 DEF Recorded
    <2>2. ASSUME NEW p \in Runner, WriteReport(p) PROVE Recorded'
      <3> DEFINE new == [there |-> TRUE, files |-> run[p].files, collapse |-> run[p].collapse,
                         count |-> run[p].count]
      <3>1. \A n \in Instant : \/ reports'[n] = NoReport
                               \/ n # run[p].start /\ reports'[n] = reports[n]
                               \/ n = run[p].start /\ reports'[n] = new
        BY <2>2, Filed
      <3>2. run[p].count # None => run[p].count \in Nat /\ Within(Complete, run[p].start, run[p].count)
        BY <1>4 DEF Runs, Counts, AlarmInv, Counted
      <3>3. new.count = run[p].count
        OBVIOUS
      <3> HIDE DEF new
      <3> QED
        BY <1>4, <1>5, <2>0, <3>1, <3>2, <3>3, NoReportType DEF Recorded
    <2> QED
      BY <2>1, <2>2, Unfiled
  <1> QED
    BY <1>14, <1>15 DEF AlarmInv

\* While nobody else writes into the archive and the clock is not set back the
\* insertion check never trips, whatever runs, prunes, failures, kills and lost
\* reports came before.
THEOREM NoAlarmIsFalse ==
  ASSUME OwnedRoot, "clockBack" \notin Faults
  PROVE  Spec => []NoFalseAlarm
  <1>1. AlarmInv => NoFalseAlarm
    BY DEF AlarmInv, Counted, NoFalseAlarm
  <1> QED
    BY <1>1, RealInit, RealStep, OrderInit, OrderStep, AlarmInit, AlarmStep, Typed, PTL DEF Spec

=============================================================================
