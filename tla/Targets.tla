------------------------------ MODULE Targets -------------------------------
(***************************************************************************)
(* A configured target of either mode, as runOne tells them apart: a       *)
(* snapshot target, whose archive is thinned and restored from (module     *)
(* Restore), or a mirror target (module Mirror).  Both are scheduled by    *)
(* one calendar (module Calendar).                                         *)
(***************************************************************************)
EXTENDS Restore, Calendar

CONSTANTS Schedule, Runner, Files, WindowOf, Verify, Kept, MaxNow, MaxRun, Faults

VARIABLES mode, src, dst, reports, runner, now, runs, low

mirrorVars == <<src, dst, reports, runner, now, runs, low>>
allVars == <<mode, restoreVars, mirrorVars>>

M == INSTANCE Mirror

ASSUME MirrorAssumption == M!Parameters

ASSUME ScheduleAssumption == Schedule \subseteq ValidSchedules

TargetsInit ==
    /\ mode \in {"snapshots", "mirror"}
    /\ RestoreInit
    /\ M!Init

TargetsNext ==
    /\ UNCHANGED mode
    /\ \/ mode = "snapshots" /\ RestoreNext /\ UNCHANGED mirrorVars
       \/ mode = "mirror" /\ M!Next /\ UNCHANGED restoreVars

TargetsSpec == TargetsInit /\ [][TargetsNext]_allVars

-----------------------------------------------------------------------------
\* What status takes for the newest snapshot: the lastSnapshot of the newest report, which
\* may be any that was taken, for reports are lost and other hosts make snapshots.
Reported == taken

\* Schedule, newest snapshot and moment for which the due time that status
\* prints is not due, or is not the first moment that is.
Misprinted ==
    {p \in Schedule \X Instant \X Instant :
        LET due == NextDueAt(p[1], {p[2]}, p[3])
        IN  \/ ~IsDue(p[1], {p[2]}, due)
            \/ \E n \in Instant \cup {due - 1} :
                   p[3] <= n /\ n < due /\ IsDue(p[1], {p[2]}, n)}

MisprintedAfter == {p[2] : p \in Misprinted}

\* With no failure to back off from, the due time that status prints is the
\* first moment from now on at which a scheduler that knows of the same snapshot runs
\* the target, across weeks, months of any length and years.
NextDueIsDue == Reported \cap MisprintedAfter = {}

\* A mirror loses more than half of its files only to a forced run or to a
\* source that shrank after it was measured (module Mirror).
LossNeedsForce == M!LossNeedsForce
=============================================================================
