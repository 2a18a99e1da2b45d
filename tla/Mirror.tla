------------------------------- MODULE Mirror -------------------------------
(***************************************************************************)
(* A mirror target: runMirror of                                           *)
(* src/src/engine/internal/target-runner.ts, the reports it leaves and     *)
(* reads (src/src/engine/internal/reports.ts) and its part of runOne.      *)
(* There is no lock and no snapshot: a daemon and a command-line run may   *)
(* be at it together, and what a transfer deletes is gone.  What guards    *)
(* the destination is the estimate, compared with the last trusted run on  *)
(* record.                                                                 *)
(*                                                                         *)
(* Faults names what may happen: "fail" (an estimate, an attempt or the    *)
(* verify pass), "noStats" (a transfer whose statistics cannot be read),   *)
(* "stop" (a stop is asked for), "stateDir" (a report cannot be written),  *)
(* "kill" (a process is killed).                                           *)
(***************************************************************************)
EXTENDS Integers, FiniteSets

CONSTANTS
    Runner,   \* the processes that may run the target
    Files,    \* sizes of the source tree, in files
    WindowOf, \* WindowOf[n]: the schedule window of an instant
    Verify,   \* target.rsync.verify
    Kept,     \* REPORTS_KEPT
    MaxNow,   \* bound: the end of the clock
    MaxRun,   \* bound: runs
    Faults

\* What the values given to the constants satisfy (assumed by module Targets).
Parameters ==
    /\ Files \subseteq Nat \ {0} /\ Files # {}
    /\ Verify \in BOOLEAN /\ Kept \in Nat \ {0}
    /\ MaxNow \in Nat \ {0} /\ MaxRun \in Nat
    /\ WindowOf \in [0..MaxNow -> Nat]
    /\ \A a, b \in 0..MaxNow : a <= b => WindowOf[a] <= WindowOf[b]

VARIABLES
    src,     \* files in the source tree
    dst,     \* files in the destination; 0 before the first run
    reports, \* run reports on disk, at most one for each start
    runner,  \* each process: program point and locals
    now,
    runs,    \* runs begun (bound)
    low      \* fewest files a trusted run measured since there was none (ghost)

vars == <<src, dst, reports, runner, now, runs, low>>

-----------------------------------------------------------------------------
Moment == 1..MaxNow
None == 0  \* null stats, no instant

\* Of a report: start orders it, ok is status success or warning, files is
\* stats.totalFiles, collapse is contentCollapse # null.
Reports == [start : Moment, ok : BOOLEAN, files : Files \cup {None},
            collapse : BOOLEAN]

\* moved: the source changed since the estimate (ghost); bar: low when the run
\* was let through (ghost).
Runners == [at : {"idle", "dedup", "estimate", "guard", "transfer", "verify", "record"},
            force : BOOLEAN, dry : BOOLEAN, start : Moment \cup {None},
            files : Files \cup {None}, ok : BOOLEAN, collapse : BOOLEAN,
            moved : BOOLEAN, bar : Files \cup {None}]
Idle == [at |-> "idle", force |-> FALSE, dry |-> FALSE, start |-> None,
         files |-> None, ok |-> FALSE, collapse |-> FALSE,
         moved |-> FALSE, bar |-> None]

At(r, point) == runner[r].at = point
Set(r, x) == runner' = [runner EXCEPT ![r] = x]

\* Mutant: a run that tripped the wire is a baseline too.
Trusted_Any(x) == x.files # None

\* newestStats passes over the runs that tripped the wire.
Trusted(x) == ~x.collapse /\ x.files # None

Newest(S) == CHOOSE x \in S : \A y \in S : y.start <= x.start

\* newestStats(...).totalFiles.
PreviousFiles ==
    LET S == {x \in reports : Trusted(x)}
    IN  IF S = {} THEN None ELSE Newest(S).files

\* lastSuccessAt of deriveBackoff.
LastRunAt ==
    LET S == {x \in reports : x.ok}
    IN  IF S = {} THEN None ELSE Newest(S).start

\* collapseAgainst: below COLLAPSE_FRACTION, rounded up.
Collapsed(files) == PreviousFiles # None /\ files < (PreviousFiles + 1) \div 2

\* writeTargetReport: one file per start, the newest Kept stay.
Written(x) ==
    LET all == {y \in reports : y.start # x.start} \cup {x}
        after(y) == {z \in all : z.start > y.start}
    IN  {y \in all : Cardinality(after(y)) < Kept}

-----------------------------------------------------------------------------
Init ==
    /\ src \in Files
    /\ dst = 0
    /\ reports = {}
    /\ runner = [r \in Runner |-> Idle]
    /\ now = 1
    /\ runs = 0
    /\ low = None

world == <<src, now, runs>>

\* The run is over, with success or warning, or failed, aborted or skipped; its
\* report is next.  A dry run leaves none.
Ends(r, x, ok) ==
    Set(r, IF x.dry THEN Idle
           ELSE [x EXCEPT !.at = "record", !.ok = ok, !.moved = FALSE, !.bar = None])

\* runOne of a mirror target.
Begin(r, force, dry) ==
    /\ At(r, "idle")
    /\ runs < MaxRun
    /\ runs' = runs + 1
    /\ Set(r, [Idle EXCEPT !.at = "dedup", !.force = force, !.dry = dry, !.start = now])
    /\ UNCHANGED <<src, dst, reports, now, low>>

\* The window is looked at unless forced.
Dedup(r) ==
    LET x == runner[r]
        done == LastRunAt # None /\ WindowOf[LastRunAt] = WindowOf[x.start]
    IN  /\ At(r, "dedup")
        /\ IF ~x.force /\ done THEN Ends(r, x, FALSE)
           ELSE Set(r, [x EXCEPT !.at = "estimate"])
        /\ UNCHANGED <<world, dst, reports, low>>

\* dryRunStats: the collapse guard's only view of the source.
Estimate(r) ==
    /\ At(r, "estimate")
    /\ Set(r, [runner[r] EXCEPT !.at = "guard", !.files = src])
    /\ UNCHANGED <<world, dst, reports, low>>

\* previousStats is read after the estimate.  A forced run does not look; a dry
\* run reports what a real one would do and ends.
Guard(r) ==
    LET x == runner[r]
        trips == ~x.force /\ Collapsed(x.files)
    IN  /\ At(r, "guard")
        /\ IF trips \/ x.dry
           THEN Ends(r, [x EXCEPT !.collapse = trips], FALSE)
           ELSE Set(r, [x EXCEPT !.at = "transfer", !.bar = low])
        /\ UNCHANGED <<world, dst, reports, low>>

\* An attempt of runTransfer that works (code 0, or 23 and 24 as a warning).
Transfer(r) ==
    LET x == runner[r]
    IN  /\ At(r, "transfer")
        /\ dst' = src
        /\ \E stats \in {src} \cup (IF "noStats" \in Faults THEN {None} ELSE {}) :
               LET y == [x EXCEPT !.files = stats]
               IN  IF Verify THEN Set(r, [y EXCEPT !.at = "verify"]) ELSE Ends(r, y, TRUE)
        /\ UNCHANGED <<world, reports, low>>

\* Sizes an interrupted transfer can leave the destination at.
Between(a, b) == {f \in Files \cup {0} : (a <= f /\ f <= b) \/ (b <= f /\ f <= a)}

\* An attempt that fails part of the way: once more, for as long as
\* target.retry.attempts allows, or the run fails with the statistics of its
\* estimate.
TransferFails(r) ==
    /\ At(r, "transfer")
    /\ "fail" \in Faults
    /\ dst' \in Between(dst, src)
    /\ UNCHANGED runner \/ Ends(r, runner[r], FALSE)
    /\ UNCHANGED <<world, reports, low>>

\* The verify pass: a difference cannot withhold anything any more.
VerifyPass(r) ==
    /\ At(r, "verify")
    /\ \/ dst = src /\ Ends(r, runner[r], TRUE)
       \/ (dst # src \/ "fail" \in Faults) /\ Ends(r, runner[r], FALSE)
    /\ UNCHANGED <<world, dst, reports, low>>

EstimateFails(r) ==
    /\ At(r, "estimate")
    /\ "fail" \in Faults
    /\ Ends(r, runner[r], FALSE)
    /\ UNCHANGED <<world, dst, reports, low>>

\* A stop ends the child of the step under way.
Stop(r) ==
    /\ "stop" \in Faults
    /\ runner[r].at \in {"estimate", "transfer", "verify"}
    /\ dst' \in IF At(r, "transfer") THEN Between(dst, src) ELSE {dst}
    /\ Ends(r, runner[r], FALSE)
    /\ UNCHANGED <<world, reports, low>>

Least(a, b) == IF a = None \/ (b # None /\ b < a) THEN b ELSE a

\* The report of a run that was not dry.
Record(r) ==
    LET x == runner[r]
        report == [start |-> x.start, ok |-> x.ok, files |-> x.files,
                   collapse |-> x.collapse]
        kept == Written(report)
    IN  /\ At(r, "record")
        /\ \/ /\ reports' = kept
              /\ low' = IF \A y \in kept : y.collapse \/ y.files = None THEN None
                        ELSE IF x.collapse THEN low ELSE Least(low, x.files)
           \/ "stateDir" \in Faults /\ UNCHANGED <<reports, low>>
        /\ Set(r, Idle)
        /\ UNCHANGED <<world, dst>>

\* The process is killed.
Kill(r) ==
    /\ "kill" \in Faults
    /\ ~At(r, "idle")
    /\ dst' \in IF At(r, "transfer") THEN Between(dst, src) ELSE {dst}
    /\ Set(r, Idle)
    /\ UNCHANGED <<world, reports, low>>

SourceChanges(f) ==
    /\ f # src
    /\ src' = f
    /\ runner' = [r \in Runner |-> [runner[r] EXCEPT !.moved =
                     @ \/ runner[r].at \in {"guard", "transfer"}]]
    /\ UNCHANGED <<dst, reports, now, runs, low>>

Tick ==
    /\ now < MaxNow
    /\ now' = now + 1
    /\ UNCHANGED <<src, dst, reports, runner, runs, low>>

Step(r) ==
    \/ Dedup(r) \/ Estimate(r) \/ EstimateFails(r) \/ Guard(r)
    \/ Transfer(r) \/ TransferFails(r) \/ VerifyPass(r) \/ Stop(r) \/ Record(r)

Next ==
    \/ \E r \in Runner : Step(r) \/ Kill(r)
    \/ \E r \in Runner, force \in BOOLEAN : Begin(r, force, FALSE)
    \/ \E r \in Runner : Begin(r, FALSE, TRUE)
    \/ \E f \in Files : SourceChanges(f)
    \/ Tick

Spec == Init /\ [][Next]_vars

-----------------------------------------------------------------------------
TypeOK ==
    /\ src \in Files /\ dst \in Files \cup {0}
    /\ reports \subseteq Reports
    /\ \A x, y \in reports : x.start = y.start => x = y
    /\ runner \in [Runner -> Runners]
    /\ now \in Moment /\ runs \in 0..MaxRun /\ low \in Files \cup {None}

\* The destination never loses more than half of what a trusted run on record
\* measured, whatever failed, was refused or was killed in between and whoever
\* else runs the target, unless the run that deletes was forced or its source
\* shrank after it was measured: the guard cannot be disarmed by the reports of
\* the runs it refused.  Runs that stop after their estimate are trusted here,
\* as newestStats trusts them.
LossNeedsForce ==
    [][dst' < dst =>
          \E r \in Runner :
              /\ At(r, "transfer")
              /\ runner[r].force \/ runner[r].moved \/ 2 * dst' >= runner[r].bar]_vars
=============================================================================
