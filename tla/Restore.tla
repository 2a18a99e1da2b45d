------------------------------ MODULE Restore -------------------------------
(***************************************************************************)
(* restore of src/src/engine/backupkit.ts next to everything else that     *)
(* happens to a target's archive (module RetentionHistory).  A restore     *)
(* takes no lock: between its listing and its last file, runs add          *)
(* snapshots and retention or backupkit prune removes them, the one being  *)
(* copied not excepted.                                                    *)
(***************************************************************************)
EXTENDS RetentionHistory

CONSTANT MaxRestore \* bound: restores

\* of: the snapshot restored, a set of one; check: --verify; output: "none",
\* "part" or "whole", what of it is at the output path.
VARIABLE restore, restores

restoreVars == <<vars, restore, restores>>

NoRestore == [at |-> "idle", of |-> {}, check |-> FALSE, output |-> "none"]

RestoreInit == Init /\ restore = NoRestore /\ restores = 0

Goes(point) == restore' = [restore EXCEPT !.at = point]

\* The listing; asked is a name, or nothing for "latest".  A name that is not
\* listed is refused, as is "latest" of an empty archive.
Choose(asked, check) ==
    LET found == IF asked = {} THEN {n \in archive : IsNewest(n, archive)}
                 ELSE asked \cap archive
    IN  /\ restore.at \in {"idle", "done", "failed"}
        /\ restores < MaxRestore
        /\ restores' = restores + 1
        /\ restore' = [NoRestore EXCEPT !.at = IF found = {} THEN "failed" ELSE "output",
                                        !.of = found, !.check = check]
        /\ UNCHANGED vars

\* lstat of the output path and realpath of its parent: it exists, or it lies
\* inside an archive root, or the copy begins.
Output ==
    /\ restore.at = "output"
    /\ \/ Goes("copy")
       \/ Goes("failed")
    /\ UNCHANGED <<vars, restores>>

StillThere == restore.of \subseteq archive

\* Mutant: remove deletes a snapshot under its own name, so that rsync still finds a
\* directory there when part of it is gone.
Opens_InPlace == TRUE

\* rsync finds the directory.  remove renames a snapshot aside before it deletes
\* anything of it, and nobody ever takes its name again.
Opens == StillThere

Start(point) == Goes(IF Opens THEN point ELSE "failed")

\* rsync -a without --delete enters the snapshot, or fails with 23.
CopyStart ==
    /\ restore.at = "copy"
    /\ Start("copying")
    /\ UNCHANGED <<vars, restores>>

\* Mutant: the codes with which a transfer is promoted are good for a restore.
CopyAccepts_Promotable(code) == code \in {0, 23, 24}

CopyAccepts(code) == code = 0

\* How a copy ends: everything and 0, or a failure.  If the snapshot is removed on the
\* way, files that rsync has listed and does not find make it 24, and files that were
\* gone before it listed their directory are missing without a word.
CopyEnds ==
    IF StillThere THEN {[code |-> 0, output |-> "whole"], [code |-> 23, output |-> "part"]}
    ELSE [code : {0, 23, 24}, output : {"part"}] \cup {[code |-> 0, output |-> "whole"]}

Copy ==
    /\ restore.at = "copying"
    /\ \E end \in CopyEnds :
           restore' = [restore EXCEPT
               !.output = end.output,
               !.at = IF ~CopyAccepts(end.code) THEN "failed"
                      ELSE IF restore.check THEN "verify" ELSE "done"]
    /\ UNCHANGED <<vars, restores>>

\* --verify: a second rsync, with --checksum and --dry-run.
VerifyStart ==
    /\ restore.at = "verify"
    /\ Start("verifying")
    /\ UNCHANGED <<vars, restores>>

\* Code 0 or 24 with nothing itemized, or else a failure.  A file missing from the
\* output is itemized while the snapshot has it.
VerifyCopy ==
    /\ restore.at = "verifying"
    /\ \/ (restore.output = "whole" \/ ~StillThere) /\ Goes("done")
       \/ Goes("failed")
    /\ UNCHANGED <<vars, restores>>

RestoreNext ==
    \/ Next /\ UNCHANGED <<restore, restores>>
    \/ \E check \in BOOLEAN :
           Choose({}, check) \/ \E n \in Instant : Choose({n}, check)
    \/ Output \/ CopyStart \/ Copy \/ VerifyStart \/ VerifyCopy

-----------------------------------------------------------------------------
\* A restore with --verify that reports success has put the whole of the snapshot it
\* chose at the output path, although no lock kept a run or backupkit prune from removing
\* that snapshot during the copy, during the checksum pass or between the two.
VerifiedIsWhole == restore.at = "done" /\ restore.check => restore.output = "whole"
=============================================================================
