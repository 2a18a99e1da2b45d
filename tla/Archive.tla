------------------------------ MODULE Archive ------------------------------
(***************************************************************************)
(* One snapshot target's archive root and the processes that work on it:   *)
(* the snapshot pipeline runTarget (src/src/engine/internal/               *)
(* target-runner.ts), Backupkit.prune, the SnapshotStore operations of     *)
(* local-store.ts and remote-store.ts they are made of, and the run        *)
(* reports (reports.ts) whose tripwires decide whether retention may run.  *)
(*                                                                         *)
(* Every directory operation is one step; a process may be killed between  *)
(* any two.  The destination lock is the abstract mutex RemoteLock         *)
(* implements: one holder, freed when its process dies.                    *)
(*                                                                         *)
(* A snapshot name is the instant it encodes.  An instant is a second: two *)
(* runs started in one second share a name.                                *)
(*                                                                         *)
(* Faults names what may happen besides crashes:                           *)
(*   "storeFail"  a store command fails, or runs and its reply is lost     *)
(*   "clockBack"  the wall clock is set back                               *)
(*   "shrink"     the source loses most of its files and stays so          *)
(*   "noStats"    rsync prints no stats block that can be parsed           *)
(*   "insert"     somebody else creates a snapshot-shaped directory        *)
(***************************************************************************)
EXTENDS Retention

CONSTANTS
    Runner,    \* processes working on the root: the daemon, a CLI command
    Nobody,    \* the lock's holder when it is free
    Kind,      \* "local": LocalSnapshotStore; "remote": RemoteSnapshotStore
    Verify,    \* target.rsync.verify
    Attempts,  \* target.retry.attempts
    WindowOf,  \* WindowOf[n]: the schedule window of an instant
    Skew,      \* SNAPSHOT_FUTURE_SKEW_MS, in instants
    Kept,      \* REPORTS_KEPT
    Files,     \* file counts the source may have
    MaxNow,    \* bound: the end of the clock
    MaxCrash,  \* bound: kills
    MaxPlant,  \* bound: foreign directories at a time
    Faults

ASSUME ArchiveAssumption ==
    /\ Nobody \notin Runner
    /\ Kind \in {"local", "remote"}
    /\ Verify \in BOOLEAN
    /\ Attempts \in Nat \ {0} /\ Kept \in Nat \ {0}
    /\ Skew \in Nat /\ MaxNow \in Nat \ {0}
    /\ MaxCrash \in Nat /\ MaxPlant \in Nat
    /\ Files \subseteq Nat /\ Files # {}
    /\ 1..MaxNow \subseteq Instant /\ 0 \notin Instant

ASSUME WindowAssumption ==
    /\ WindowOf \in [Instant -> Nat]
    /\ \A a, b \in Instant : a <= b => WindowOf[a] <= WindowOf[b]

VARIABLES
    complete, \* <name> directories
    partial,  \* <name>.partial directories
    deleting, \* <name>.deleting directories
    reports,  \* run reports in the state directory, by runId
    holder,   \* the holder of the destination lock
    run,      \* each process's operation: program point and locals
    now, source, crashes

vars == <<complete, partial, deleting, reports, holder, run, now, source, crashes>>
root == <<complete, partial, deleting>>
env  == <<now, source, crashes>>

-----------------------------------------------------------------------------
(***************************************************************************)
(* Values                                                                  *)
(***************************************************************************)
None == -1   \* null: no stats, no count

\* is: "whole" holds everything a transfer with a promotable exit left,
\* "torn" less, "foreign" was not made by a run.  links: the snapshots it has
\* hardlinks into.  touched: its files changed after it was promoted.
Trees == [is : {"none", "torn", "whole", "foreign"},
          links : SUBSET Instant, touched : BOOLEAN]
NoTree == [is |-> "none", links |-> {}, touched |-> FALSE]
Foreign == [NoTree EXCEPT !.is = "foreign"]

Complete == {n \in Instant : complete[n].is # "none"}
Partials == {n \in Instant : partial[n].is # "none"}

Newest(S) == CHOOSE n \in S : \A m \in S : m <= n
Oldest(S) == CHOOSE n \in S : \A m \in S : n <= m

Counts == Nat \cup {None}
Reports == [there : BOOLEAN, files : Counts, collapse : BOOLEAN, count : Counts]
NoReport == [there |-> FALSE, files |-> None, collapse |-> FALSE, count |-> None]

\* HistoryMark; newest = 0 when there is none.
Marks == [newest : Instant \cup {0}, count : Nat]
NoMark == [newest |-> 0, count |-> 0]

Points == {"idle", "lock", "claim", "list", "guard", "transfer", "rsync",
           "verify", "promote", "rename", "collapse", "history", "remove", "rm",
           "prunelist", "release", "report"}
Runs == [at : Points, op : {"run", "prune"}, force : BOOLEAN,
         start : Instant \cup {0}, base : Instant \cup {0}, attempt : 1..Attempts,
         files : Counts, collapse : BOOLEAN, insertion : BOOLEAN, count : Counts,
         mark : Marks, todo : SUBSET Instant]
Idle == [at |-> "idle", op |-> "run", force |-> FALSE, start |-> 0, base |-> 0,
         attempt |-> 1, files |-> None, collapse |-> FALSE, insertion |-> FALSE,
         count |-> None, mark |-> NoMark, todo |-> {}]

At(p, point) == run[p].at = point
Goto(p, point) == run' = [run EXCEPT ![p].at = point]
\* The pipeline returns its report or throws; withLock releases.
Finish(p) == Goto(p, "release")

-----------------------------------------------------------------------------
(***************************************************************************)
(* snapshots/types.ts, shared/time.ts                                      *)
(***************************************************************************)
IsFuture(n) == n - now > Skew
Genuine(S) == {n \in S : ~IsFuture(n)}

NewestUndeletable(S) == IF Genuine(S) # {} THEN Newest(Genuine(S)) ELSE Newest(S)

\* Windows of any schedule: none ends after a later one begins (module Calendar).
WindowIndex(n) == WindowOf[n]

\* The plan of runTarget and of planFor: the policy over the genuine names; the
\* future-dated ones go too, but only while genuine history exists.
PruneList(S) == IF Genuine(S) = {} THEN {} ELSE Prune(Genuine(S)) \cup (S \ Genuine(S))

-----------------------------------------------------------------------------
(***************************************************************************)
(* reports.ts                                                              *)
(***************************************************************************)
\* The newest report of a run that has stats and did not trip the collapse wire.
NewestStats ==
    LET trusted == {n \in Instant : /\ reports[n].there
                                    /\ ~reports[n].collapse
                                    /\ reports[n].files # None}
    IN  IF trusted = {} THEN None ELSE reports[Newest(trusted)].files

NewestHistoryMark ==
    LET marked == {n \in Instant : reports[n].there /\ reports[n].count # None}
    IN  IF marked = {} THEN NoMark
        ELSE [newest |-> Newest(marked), count |-> reports[Newest(marked)].count]

DetectHistoryInsertion(S, mark) ==
    /\ mark.newest # 0
    /\ Cardinality({n \in S : n <= mark.newest}) > mark.count

\* collapseAgainst: fewer than half the files of the baseline, or unmeasured.
CollapseAgainst(previous, files) ==
    /\ previous > 0
    /\ files = None \/ 2 * files < previous

\* writeTargetReport: over an older report of the same second; the newest Kept
\* reports stay.
WithReport(n, r) ==
    LET all == [reports EXCEPT ![n] = r]
        newer(m) == {k \in Instant : k > m /\ all[k].there}
    IN  [m \in Instant |-> IF Cardinality(newer(m)) < Kept THEN all[m] ELSE NoReport]

-----------------------------------------------------------------------------
Init ==
    /\ complete = [n \in Instant |-> NoTree]
    /\ partial = [n \in Instant |-> NoTree]
    /\ deleting = {}
    /\ reports = [n \in Instant |-> NoReport]
    /\ holder = Nobody
    /\ run = [p \in Runner |-> Idle]
    /\ now = 1
    /\ source \in Files
    /\ crashes = 0

\* runTarget takes its start time, prune its reports, before the lock.
Begin(p, op, force) ==
    /\ At(p, "idle")
    /\ run' = [run EXCEPT ![p] =
                  [Idle EXCEPT !.at = "lock", !.op = op, !.force = force,
                               !.start = IF op = "run" THEN now ELSE 0,
                               !.mark = IF op = "run" THEN NoMark
                                                      ELSE NewestHistoryMark]]
    /\ UNCHANGED <<root, reports, holder, env>>

\* Mutant: the lock is taken whoever holds it.
Acquire_Unchecked(p) ==
    /\ At(p, "lock")
    /\ holder' = p
    /\ Goto(p, IF run[p].op = "run" THEN "claim" ELSE "prunelist")
    /\ UNCHANGED <<root, reports, env>>

Acquire(p) ==
    /\ At(p, "lock")
    /\ holder = Nobody
    /\ holder' = p
    /\ Goto(p, IF run[p].op = "run" THEN "claim" ELSE "prunelist")
    /\ UNCHANGED <<root, reports, env>>

\* LockHeldError, or a lock that cannot be reached: prune ends; a run leaves a
\* report without stats (dated now, and only once per lock-held episode).
LockHeld(p) ==
    /\ At(p, "lock")
    /\ \/ holder # Nobody /\ run' = [run EXCEPT ![p] = Idle]
       \/ /\ holder # Nobody /\ run[p].op = "run"
          /\ run' = [run EXCEPT ![p].at = "report", ![p].start = now]
       \/ /\ "storeFail" \in Faults
          /\ IF run[p].op = "run" THEN Goto(p, "report")
             ELSE run' = [run EXCEPT ![p] = Idle]
    /\ UNCHANGED <<root, reports, holder, env>>

-----------------------------------------------------------------------------
(***************************************************************************)
(* claimPartial                                                            *)
(***************************************************************************)
\* One rm of the sweep: a .deleting directory, then every partial but the newest.
ClaimSweep(p) ==
    /\ At(p, "claim")
    /\ \/ \E n \in deleting : deleting' = deleting \ {n} /\ UNCHANGED partial
       \/ /\ deleting = {}
          /\ \E n \in Partials : /\ n # Newest(Partials)
                                 /\ partial' = [partial EXCEPT ![n] = NoTree]
          /\ UNCHANGED deleting
    /\ UNCHANGED <<complete, reports, holder, run, env>>

\* Mutant: the claim goes ahead before every .deleting directory is gone.
Swept_PartialsOnly == Cardinality(Partials) <= 1

Swept == deleting = {} /\ Cardinality(Partials) <= 1

\* Mutant: the hardlink check finds nothing.
SharesFiles_Never(tree) == FALSE

\* A file of the tree is also a file of a snapshot that still exists.
SharesFiles(tree) == tree.links \cap Complete # {}

\* The survivor becomes this run's destination.  The local store first makes
\* sure that it shares no file with a promoted snapshot.
ClaimResume(p) ==
    /\ At(p, "claim")
    /\ Swept
    /\ \E n \in Partials :
          /\ Kind = "local" => ~SharesFiles(partial[n])
          /\ partial' = [[partial EXCEPT ![n] = NoTree]
                            EXCEPT ![run[p].start] = partial[n]]
    /\ Goto(p, "list")
    /\ UNCHANGED <<complete, deleting, reports, holder, env>>

\* No survivor, or one the local store discards: it shares files with a
\* snapshot, has hardlinks of its own, or is a symlink.
ClaimFresh(p) ==
    /\ At(p, "claim")
    /\ Swept
    /\ Kind = "local" \/ Partials = {}
    /\ partial' = [n \in Instant |-> NoTree]
    /\ Goto(p, "list")
    /\ UNCHANGED <<complete, deleting, reports, holder, env>>

-----------------------------------------------------------------------------
(***************************************************************************)
(* The guards and the transfer                                             *)
(***************************************************************************)
\* Mutants: no window dedup, no clock-skew guard.
ListComplete_NoDedup(p) ==
    LET r == run[p]
        newest == IF Complete = {} THEN 0 ELSE Newest(Complete)
    IN  /\ At(p, "list")
        /\ IF newest # 0 /\ r.start <= newest THEN Finish(p)
           ELSE run' = [run EXCEPT ![p].base = newest, ![p].at = "guard"]
        /\ UNCHANGED <<root, reports, holder, env>>
ListComplete_NoSkewGuard(p) ==
    LET r == run[p]
        newest == IF Complete = {} THEN 0 ELSE Newest(Complete)
    IN  /\ At(p, "list")
        /\ IF ~r.force /\ newest # 0 /\ WindowIndex(newest) = WindowIndex(r.start)
           THEN Finish(p)
           ELSE run' = [run EXCEPT ![p].base = newest, ![p].at = "guard"]
        /\ UNCHANGED <<root, reports, holder, env>>

\* Window dedup and clock-skew guard over the listing; its newest name becomes
\* the --link-dest base.
ListComplete(p) ==
    LET r == run[p]
        newest == IF Complete = {} THEN 0 ELSE Newest(Complete)
        dedup == /\ ~r.force
                 /\ newest # 0
                 /\ WindowIndex(newest) = WindowIndex(r.start)
        skewed == newest # 0 /\ r.start <= newest
    IN  /\ At(p, "list")
        /\ IF dedup \/ skewed THEN Finish(p)
           ELSE run' = [run EXCEPT ![p].base = newest, ![p].at = "guard"]
        /\ UNCHANGED <<root, reports, holder, env>>

\* The estimate and the disk guard: there is room, or the run is skipped.
DiskGuard(p) ==
    /\ At(p, "guard")
    /\ Goto(p, "transfer") \/ Finish(p)
    /\ UNCHANGED <<root, reports, holder, env>>

\* rsync starts writing <start>.partial.  Files it finds there are brought up
\* to date in place, through any hardlink they have into a snapshot; files it
\* does not find are hardlinked from the base when unchanged.
TransferStart(p) ==
    LET r == run[p]
        old == partial[r.start]
        based == IF r.base = 0 THEN {} ELSE {r.base} \cup complete[r.base].links
    IN  /\ At(p, "transfer")
        /\ partial' = [partial EXCEPT ![r.start] =
                          [is |-> "torn", links |-> old.links \cup based,
                           touched |-> FALSE]]
        /\ \E hit \in {{}, old.links \cap Complete} :
              complete' = [n \in Instant |->
                             IF n \in hit THEN [complete[n] EXCEPT !.touched = TRUE]
                                          ELSE complete[n]]
        /\ Goto(p, "rsync")
        /\ UNCHANGED <<deleting, reports, holder, env>>

\* rsync ends with 0, 23 or 24; its stats block may be unreadable.
TransferDone(p) ==
    /\ At(p, "rsync")
    /\ partial' = [partial EXCEPT ![run[p].start].is = "whole"]
    /\ \E f \in {source} \cup (IF "noStats" \in Faults THEN {None} ELSE {}) :
          run' = [run EXCEPT ![p].files = f, ![p].attempt = 1,
                             ![p].at = IF Verify THEN "verify" ELSE "promote"]
    /\ UNCHANGED <<complete, deleting, reports, holder, env>>

\* A transient exit: another attempt into the same partial.
TransferRetry(p) ==
    /\ At(p, "rsync")
    /\ run[p].attempt < Attempts
    /\ run' = [run EXCEPT ![p].attempt = @ + 1, ![p].at = "transfer"]
    /\ UNCHANGED <<root, reports, holder, env>>

\* Attempts exhausted, a permanent exit, or a shutdown: the partial is kept.
TransferFails(p) ==
    /\ At(p, "rsync")
    /\ run' = [run EXCEPT ![p].attempt = 1, ![p].at = "release"]
    /\ UNCHANGED <<root, reports, holder, env>>

\* The checksum pass agrees, or it does not or is shut down: the partial is
\* kept and the report carries the transfer's stats.
VerifyPass(p) ==
    /\ At(p, "verify")
    /\ Goto(p, "promote") \/ Finish(p)
    /\ UNCHANGED <<root, reports, holder, env>>

-----------------------------------------------------------------------------
(***************************************************************************)
(* promote                                                                 *)
(***************************************************************************)
\* There is a partial, and its name is not taken.
Promotable(n) == n \in Partials \ Complete

PromoteCheck(p) ==
    /\ At(p, "promote")
    /\ IF Promotable(run[p].start) THEN Goto(p, "rename") ELSE Finish(p)
    /\ UNCHANGED <<root, reports, holder, env>>

\* Mutant: no post-check, so that a nested mv passes for a promotion.
PromoteMove_NoPostCheck(p) ==
    LET n == run[p].start
    IN  /\ At(p, "rename")
        /\ complete' = IF n \in Complete THEN complete
                       ELSE [complete EXCEPT ![n] = partial[n]]
        /\ partial' = [partial EXCEPT ![n] = NoTree]
        /\ Goto(p, "collapse")
        /\ UNCHANGED <<deleting, reports, holder, env>>

\* The name was free at the check.  If it no longer is, a remote mv nests the
\* partial inside it, which the post-check turns into a failure; a local rename
\* fails, or replaces a directory that is still empty.
PromoteMove(p) ==
    LET n == run[p].start
        free == n \notin Complete
    IN  /\ At(p, "rename")
        /\ \/ /\ free \/ Kind = "local"
              /\ complete' = [complete EXCEPT ![n] = partial[n]]
              /\ partial' = [partial EXCEPT ![n] = NoTree]
              /\ Goto(p, "collapse")
           \/ /\ ~free
              /\ partial' = IF Kind = "remote" THEN [partial EXCEPT ![n] = NoTree]
                                               ELSE partial
              /\ Finish(p)
              /\ UNCHANGED complete
        /\ UNCHANGED <<deleting, reports, holder, env>>

-----------------------------------------------------------------------------
(***************************************************************************)
(* Retention                                                               *)
(***************************************************************************)
Collapse(p) ==
    /\ At(p, "collapse")
    /\ run' = [run EXCEPT ![p].collapse = CollapseAgainst(NewestStats, run[p].files),
                          ![p].at = "history"]
    /\ UNCHANGED <<root, reports, holder, env>>

\* Mutant: the report counts the snapshots the run found, without its own.
History_WithoutOwn(p) ==
    LET inserted == DetectHistoryInsertion(Complete, NewestHistoryMark)
    IN  /\ At(p, "history")
        /\ run' = [run EXCEPT
                      ![p].count = Cardinality(Complete) - 1,
                      ![p].insertion = inserted,
                      ![p].todo = IF run[p].collapse \/ inserted THEN {}
                                  ELSE PruneList(Complete),
                      ![p].at = "remove"]
        /\ UNCHANGED <<root, reports, holder, env>>

\* One listing serves the count in the report, the insertion check and the plan.
History(p) ==
    LET inserted == DetectHistoryInsertion(Complete, NewestHistoryMark)
    IN  /\ At(p, "history")
        /\ run' = [run EXCEPT
                      ![p].count = Cardinality(Complete),
                      ![p].insertion = inserted,
                      ![p].todo = IF run[p].collapse \/ inserted THEN {}
                                  ELSE PruneList(Complete),
                      ![p].at = "remove"]
        /\ UNCHANGED <<root, reports, holder, env>>

\* prune refuses a listing that grew below the mark.
InsertionRefusal(p) == ~run[p].force /\ DetectHistoryInsertion(Complete, run[p].mark)

\* prune's listing, under the lock; the mark was read before it.
PrunePlan(p) ==
    LET refused == InsertionRefusal(p)
    IN  /\ At(p, "prunelist")
        /\ run' = [run EXCEPT ![p].insertion = refused,
                              ![p].todo = IF refused THEN {} ELSE PruneList(Complete),
                              ![p].at = "remove"]
        /\ UNCHANGED <<root, reports, holder, env>>

\* A deletion failed: retention ends there; prune goes on to the next name.
RemoveFailed(p) ==
    run' = [run EXCEPT ![p].todo = @ \ {Oldest(@)},
                       ![p].at = IF run[p].op = "run" THEN "release" ELSE "remove"]

\* Mutant: one phase, deleting under the snapshot's own name.
Remove_InPlace(p) ==
    LET n == Oldest(run[p].todo)
    IN  /\ At(p, "remove")
        /\ run[p].todo # {}
        /\ IF n \notin Complete \/ n = NewestUndeletable(Complete)
           THEN RemoveFailed(p) /\ UNCHANGED root
           ELSE /\ complete' = [complete EXCEPT ![n].is = "torn"]
                /\ Goto(p, "rm")
                /\ UNCHANGED <<partial, deleting>>
        /\ UNCHANGED <<reports, holder, env>>

\* remove, phase 1, oldest name first: re-list, refuse an unknown name and the
\* newest genuine one, rename aside.
Remove(p) ==
    LET n == Oldest(run[p].todo)
    IN  /\ At(p, "remove")
        /\ run[p].todo # {}
        /\ IF n \notin Complete \/ n = NewestUndeletable(Complete)
           THEN RemoveFailed(p) /\ UNCHANGED root
           ELSE /\ complete' = [complete EXCEPT ![n] = NoTree]
                /\ deleting' = deleting \cup {n}
                /\ Goto(p, "rm")
                /\ UNCHANGED partial
        /\ UNCHANGED <<reports, holder, env>>

\* remove, phase 2: the recursive rm.
RemoveTree(p) ==
    /\ At(p, "rm")
    /\ deleting' = deleting \ {Oldest(run[p].todo)}
    /\ run' = [run EXCEPT ![p].todo = @ \ {Oldest(@)}, ![p].at = "remove"]
    /\ UNCHANGED <<complete, partial, reports, holder, env>>

RemovedAll(p) ==
    /\ At(p, "remove")
    /\ run[p].todo = {}
    /\ Finish(p)
    /\ UNCHANGED <<root, reports, holder, env>>

-----------------------------------------------------------------------------
(***************************************************************************)
(* The end of a run, failures and the environment                          *)
(***************************************************************************)
\* A store command throws.  Striking after a step it also stands for that
\* step's command having run with its reply lost.
StoreFails(p) ==
    /\ "storeFail" \in Faults
    /\ run[p].at \in {"claim", "list", "guard", "promote", "rename", "collapse",
                      "history", "prunelist", "remove", "rm"}
    /\ IF run[p].at \in {"remove", "rm"}
       THEN run[p].todo # {} /\ RemoveFailed(p) ELSE Finish(p)
    /\ UNCHANGED <<root, reports, holder, env>>

Release(p) ==
    /\ At(p, "release")
    /\ holder' = Nobody
    /\ run' = [run EXCEPT ![p] = IF @.op = "run" THEN [@ EXCEPT !.at = "report"]
                                                 ELSE Idle]
    /\ UNCHANGED <<root, reports, env>>

\* The report is written after the lock is released.
WriteReport(p) ==
    LET r == run[p]
    IN  /\ At(p, "report")
        /\ reports' = WithReport(r.start,
                         [there |-> TRUE, files |-> r.files,
                          collapse |-> r.collapse, count |-> r.count])
        /\ run' = [run EXCEPT ![p] = Idle]
        /\ UNCHANGED <<root, holder, env>>

\* SIGKILL or power loss; the next process on the root retakes the lock.
Crash(p) ==
    /\ ~At(p, "idle")
    /\ crashes < MaxCrash
    /\ crashes' = crashes + 1
    /\ run' = [run EXCEPT ![p] = Idle]
    /\ holder' = IF holder = p THEN Nobody ELSE holder
    /\ UNCHANGED <<root, reports, now, source>>

Tick ==
    /\ \/ now < MaxNow /\ now' = now + 1
       \/ "clockBack" \in Faults /\ now' \in 1..(now - 1)
    /\ UNCHANGED <<root, reports, holder, run, source, crashes>>

Shrink ==
    /\ "shrink" \in Faults
    /\ \E f \in Files : 2 * f < source /\ source' = f
    /\ UNCHANGED <<root, reports, holder, run, now, crashes>>

Plant ==
    /\ "insert" \in Faults
    /\ Cardinality({n \in Complete : complete[n] = Foreign}) < MaxPlant
    /\ \E n \in Instant \ Complete : complete' = [complete EXCEPT ![n] = Foreign]
    /\ UNCHANGED <<partial, deleting, reports, holder, run, now, source, crashes>>

Step(p) ==
    \/ Acquire(p) \/ LockHeld(p)
    \/ ClaimSweep(p) \/ ClaimResume(p) \/ ClaimFresh(p)
    \/ ListComplete(p) \/ DiskGuard(p)
    \/ TransferStart(p) \/ TransferDone(p) \/ TransferRetry(p) \/ TransferFails(p)
    \/ VerifyPass(p) \/ PromoteCheck(p) \/ PromoteMove(p)
    \/ Collapse(p) \/ History(p) \/ PrunePlan(p)
    \/ Remove(p) \/ RemoveTree(p) \/ RemovedAll(p)
    \/ StoreFails(p) \/ Release(p) \/ WriteReport(p)

Next ==
    \/ \E p \in Runner :
          \/ Step(p)
          \/ \E op \in {"run", "prune"}, force \in BOOLEAN : Begin(p, op, force)
          \/ Crash(p)
    \/ Tick \/ Shrink \/ Plant

Spec == Init /\ [][Next]_vars

\* A started operation goes on, and runs keep being started.
FairSpec ==
    /\ Spec
    /\ \A p \in Runner : /\ WF_vars(Step(p))
                         /\ SF_vars(Begin(p, "run", FALSE))

-----------------------------------------------------------------------------
(***************************************************************************)
(* Properties                                                              *)
(***************************************************************************)
\* Every variable has its type, and a process inside the pipeline or inside
\* prune's deletion holds the lock.
TypeOK ==
    /\ complete \in [Instant -> Trees]
    /\ partial \in [Instant -> Trees]
    /\ deleting \subseteq Instant
    /\ reports \in [Instant -> Reports]
    /\ holder \in Runner \cup {Nobody}
    /\ run \in [Runner -> Runs]
    /\ now \in 1..MaxNow
    /\ source \in Files
    /\ crashes \in 0..MaxCrash
    /\ \A p \in Runner :
          run[p].at \notin {"idle", "lock", "report"} => holder = p

\* A directory that lists as a finished snapshot is one: neither a killed or
\* failed transfer nor a half-done deletion ever shows under a snapshot name.
WholeSnapshots == \A n \in Instant : complete[n].is # "torn"

\* A run that goes on to retention and a success report has its snapshot under
\* its name, also when somebody takes the name between promote's check and its
\* rename: a nested mv is never mistaken for a promotion.
PromotionIsReal ==
    \A p \in Runner : run[p].at \in {"collapse", "history"}
        => complete[run[p].start].is = "whole"

\* A promoted snapshot never changes, whatever later transfers resume or retry: "a
\* snapshot is immutable once promoted" (local-store.ts).
SnapshotImmutable == \A n \in Instant : ~complete[n].touched

\* rsync is about to write into a partial that an earlier attempt has filled with
\* hardlinks: of this run, or, on a remote archive, also of one that was killed.
Refills(p) == At(p, "transfer") /\ (run[p].attempt > 1 \/ Kind = "remote")

\* While it exists a finished snapshot is changed by such a transfer and by nothing
\* else: what a killed or failed run left behind never leads the next one into it.
OnlyRefillsTouch ==
    [][(\E n \in Complete : complete'[n] \notin {complete[n], NoTree})
          => \E p \in Runner : Refills(p)]_vars

\* Runs without --force make one snapshot per schedule window, even when two
\* processes find the window due at the same time.
OnePerWindow ==
    [][\A p \in Runner :
          At(p, "rename") /\ run'[p].at = "collapse" /\ ~run[p].force
             => \A m \in Complete :
                   WindowIndex(m) # WindowIndex(run[p].start)]_vars

\* While nobody else writes into the archive the insertion check never trips,
\* whatever runs, prunes, crashes and lost reports came before: retention and
\* prune are not switched off by backupkit's own work.
NoFalseAlarm == \A p \in Runner : ~run[p].insertion

\* "A sustained collapse keeps retention off run after run", until "every
\* pre-collapse report has aged out" (newestStats, reports.ts): a run that saw less
\* than half the files of a trusted run still on record deletes no snapshot.
CollapseHoldsHistory ==
    \A p \in Runner : At(p, "rm") /\ run[p].op = "run" =>
        \A n \in Instant : reports[n].there /\ ~reports[n].collapse
            => ~CollapseAgainst(reports[n].files, run[p].files)

\* What a killed or failed deletion leaves behind is swept by a later run, again and
\* again, once the lock and the store commands no longer fail.
LeftoversSwept ==
    <>[][\A p \in Runner : ~StoreFails(p) /\ ~LockHeld(p)]_vars => []<>(deleting = {})

\* The archive implements the abstract history: also, a run files its snapshot
\* after all that exist, whatever the clock did and whoever else ran since it
\* took its start time.
Past == INSTANCE SnapshotHistory WITH
    history <- {[name |-> n, is |-> complete[n].is] : n \in Complete}
HistorySpec == Past!Spec
=============================================================================
