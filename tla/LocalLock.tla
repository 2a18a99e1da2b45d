----------------------------- MODULE LocalLock -----------------------------
(***************************************************************************)
(* The destination-root lock of an archive on a mounted disk: acquire,     *)
(* withLockScope and forceUnlock of src/src/snapshots/internal/lock.ts     *)
(* over LocalLockBackend of local-store.ts.                                *)
(*                                                                         *)
(* A scope is one call of withLock or unlock; every file-system call of it *)
(* is an action.  The backend has no owner token, so LockJournal records   *)
(* nothing and owns nothing here: who holds the lock is read from the meta *)
(* file (pid, start time, host, creation time).                            *)
(***************************************************************************)
EXTENDS Integers, FiniteSets

CONSTANTS
    Scope, Proc, Host,
    ProcOf,     \* the process a scope runs in
    HostOf,     \* the machine a process runs on
    OpsOf,      \* what a scope may be: only the command line unlocks
    Nobody,     \* not a scope
    Leftover,   \* lock directories a run may find at the start
    Grace,      \* META_GRACE_MS
    TTL,        \* FOREIGN_LOCK_TTL_MS
    MaxInode,   \* bound: lock directories created
    MaxAcquire, \* bound: the last instant at which one is created
    MaxNow,     \* bound: the clock
    MaxLives,   \* bound: the last life of each process slot
    Faults

ASSUME LocalLockAssumption ==
    /\ ProcOf \in [Scope -> Proc]
    /\ HostOf \in [Proc -> Host]
    /\ OpsOf \in [Scope -> SUBSET {"run", "unlock", "force"}]
    /\ Proc # {} /\ Nobody \notin Scope
    /\ Grace \in Nat \ {0} /\ TTL \in Nat
    /\ MaxInode \in Nat \ {0} /\ MaxAcquire \in Nat /\ MaxNow \in Nat \ {0}
    /\ MaxLives \in [Proc -> Nat]

VARIABLES
    dir,     \* what lies at the lock path
    inodes,  \* lock directories created so far
    now,     \* Date.now()
    call,    \* each scope's call: program point and locals
    alive,   \* the processes that are running
    life     \* which life of its slot a process is in: its start time

vars == <<dir, inodes, now, call, alive, life>>

procs == <<alive, life>>

-----------------------------------------------------------------------------
(***************************************************************************)
(* Values                                                                  *)
(***************************************************************************)
\* The meta file: absent, there but not parsing, or a LockMeta, whose start is
\* FALSE when pidStartTime answered null.  "unread" is a local's initial value.
Metas == [state : {"none", "torn", "whole", "unread"}, proc : Proc, life : Nat,
          start : BOOLEAN, created : Nat]
Blank(state) == [state |-> state, proc |-> CHOOSE p \in Proc : TRUE, life |-> 0,
                 start |-> FALSE, created |-> 0]
NoMeta == Blank("none")
Torn   == Blank("torn")

NoDir == [there |-> FALSE, ino |-> 0, by |-> Nobody, meta |-> NoMeta, mtime |-> 0]
Dirs == [there : BOOLEAN, ino : Nat, by : Scope \cup {Nobody}, meta : Metas,
         mtime : Nat]

\* No scope owns a lock that was there before, and its inode is not a new one.
ASSUME LeftoverAssumption ==
    \A d \in Leftover : d \in Dirs /\ d.by = Nobody /\ d.ino <= 1

\* lockIdentity: inode and ctime.  The ctime of a directory is that of its last
\* entry: it moves when the meta file appears in it.
Identity(d) == [ino |-> d.ino, marked |-> d.meta # NoMeta]
Unseen == [ino |-> -1, marked |-> FALSE]
Identities == [ino : Nat \cup {-1}, marked : BOOLEAN]

Ops == {"run", "unlock", "force"}
Points == {"idle", "mkdir", "meta", "fill", "cs", "release", "lstat", "read",
           "probe", "steal", "stealrm", "uremove"}

\* inspected: LocalLockBackend.inspected; mtime, read: locals of inspect; file:
\* the directory whose meta file writeMeta has open.
Calls == [at : Points, op : Ops, attempt : {1, 2}, inspected : Identities,
          mtime : Nat, read : Metas, file : Nat]
NoCall == [at |-> "idle", op |-> "run", attempt |-> 1, inspected |-> Unseen,
           mtime |-> 0, read |-> Blank("unread"), file |-> 0]

\* The scope has won the mkdir and not yet removed the lock: it relies on it.
Owning(s) == call[s].at \in {"meta", "fill", "cs", "release"}

Inside == {s \in Scope : call[s].at = "cs"}

At(s, point) == call[s].at = point
Goto(s, point) == call' = [call EXCEPT ![s].at = point]
Return(s) == call' = [call EXCEPT ![s] = NoCall]

Init ==
    /\ dir \in {NoDir} \cup Leftover
    /\ inodes = 1
    /\ now = 1
    /\ call = [s \in Scope |-> NoCall]
    /\ alive = [p \in Proc |-> TRUE]
    /\ life = [p \in Proc |-> 1]

-----------------------------------------------------------------------------
(***************************************************************************)
(* Winning the lock                                                        *)
(***************************************************************************)
Begin(s, o) ==
    /\ At(s, "idle")
    /\ alive[ProcOf[s]]
    /\ o \in OpsOf[s]
    /\ call' = [call EXCEPT ![s] = [NoCall EXCEPT !.at = "mkdir", !.op = o]]
    /\ UNCHANGED <<dir, inodes, now, procs>>

TryAcquire(s) ==
    /\ At(s, "mkdir")
    /\ ~dir.there
    /\ inodes < MaxInode /\ now <= MaxAcquire
    /\ inodes' = inodes + 1
    /\ dir' = [NoDir EXCEPT !.there = TRUE, !.ino = inodes', !.by = s, !.mtime = now]
    /\ Goto(s, "meta")
    /\ UNCHANGED <<now, procs>>

\* EEXIST.
TryAcquireRefused(s) ==
    /\ At(s, "mkdir")
    /\ dir.there
    /\ Goto(s, "lstat")
    /\ UNCHANGED <<dir, inodes, now, procs>>

\* writeFile opens (and truncates) the meta file of whatever directory is at
\* the lock path.  With none there it fails: acquire rolls back with a removal,
\* unlock swallows the error and goes on to its own.
MetaOpen(s) ==
    /\ At(s, "meta")
    /\ \/ /\ dir.there
          /\ dir' = [dir EXCEPT !.meta = Torn,
                                !.mtime = IF dir.meta = NoMeta THEN now ELSE @]
          /\ call' = [call EXCEPT ![s].at = "fill", ![s].file = dir.ino]
       \/ /\ ~dir.there \/ "metaFail" \in Faults
          /\ Goto(s, "release")
          /\ UNCHANGED dir
    /\ UNCHANGED <<inodes, now, procs>>

MetaOf(s) == {[state |-> "whole", proc |-> ProcOf[s], life |-> life[ProcOf[s]], start |-> known,
               created |-> now] :
                   known \in {TRUE} \cup (IF "noStart" \in Faults THEN {FALSE} ELSE {})}

\* The content reaches the file that was opened, at the lock path or not, or the
\* write fails and leaves it torn.
MetaFill(s) ==
    /\ At(s, "fill")
    /\ \/ /\ IF dir.there /\ dir.ino = call[s].file
             THEN \E m \in MetaOf(s) : dir' = [dir EXCEPT !.meta = m]
             ELSE UNCHANGED dir
          /\ call' = [call EXCEPT ![s] = [NoCall EXCEPT !.op = call[s].op,
                          !.at = IF call[s].op = "run" THEN "cs" ELSE "release"]]
       \/ "metaFail" \in Faults /\ Goto(s, "release") /\ UNCHANGED dir
    /\ UNCHANGED <<inodes, now, procs>>

\* The pipeline returned, threw or was aborted.
Leave(s) ==
    /\ At(s, "cs")
    /\ Goto(s, "release")
    /\ UNCHANGED <<dir, inodes, now, procs>>

\* The archive's disk may fail for a while: until the last lock is taken.
RmFails == "rmFail" \in Faults /\ now <= MaxAcquire /\ inodes < MaxInode

\* rm -rf of whatever lies at the lock path: the release in withLockScope's
\* finally, acquire's rollback, and the end of unlock's own probe.  A failure
\* is logged, and the lock stays.
Release(s) ==
    /\ At(s, "release")
    /\ dir' \in {NoDir} \cup (IF RmFails THEN {dir} ELSE {})
    /\ Return(s)
    /\ UNCHANGED <<inodes, now, procs>>

-----------------------------------------------------------------------------
(***************************************************************************)
(* inspect, and what acquire and forceUnlock do with its answer            *)
(***************************************************************************)
\* The verdict: a run that found a live lock, or any lock on its second
\* attempt, throws LockHeldError; unlock without --force reports it.
Verdict(s, stale) ==
    LET c == call[s]
    IN  call' = [call EXCEPT ![s] =
            CASE c.op = "run" /\ stale /\ c.attempt = 1 ->
                    [NoCall EXCEPT !.at = "steal", !.attempt = c.attempt,
                                   !.inspected = c.inspected]
              [] (c.op = "unlock" /\ stale) \/ c.op = "force" ->
                    [NoCall EXCEPT !.at = "uremove", !.op = c.op]
              [] OTHER -> NoCall]

\* lstat of the lock path.  A lock that disappeared is called stale with nothing
\* inspected.
Lstat(s) ==
    /\ At(s, "lstat")
    /\ IF dir.there
       THEN call' = [call EXCEPT ![s].at = "read", ![s].mtime = dir.mtime,
                                 ![s].inspected = Identity(dir)]
       ELSE Verdict(s, TRUE)
    /\ UNCHANGED <<dir, inodes, now, procs>>

\* A lock without a readable meta may still be getting one.
Young(mtime) == now - mtime < Grace

\* Mutant: a creation time in the future never expires.
Expired_PastOnly(created) == now - created > TTL

\* Age in either direction.
Expired(created) == now - created > TTL \/ created - now > TTL

\* The process life that wrote the meta is over.
Over(m) == ~alive[m.proc] \/ life[m.proc] # m.life

\* Mutant: the pid is looked up here whatever machine the holder is on, where it
\* is some other process or none.
Stale_PidAnywhere(m, h) ==
    IF HostOf[m.proc] # h THEN {TRUE, FALSE}
    ELSE IF ~alive[m.proc] \/ ~m.start THEN {TRUE}
    ELSE {Over(m)}

\* The answers to "is the lock with meta m stale?" as seen from machine h: time
\* for a holder on another machine; its pid for one on this machine, where a pid
\* that is alive counts as recycled unless the recorded start time is still its
\* own, a missing record of the start time counts as recycled, and a start time
\* that cannot be read now counts as the same.
Stale(m, h) ==
    IF HostOf[m.proc] # h THEN {Expired(m.created)}
    ELSE IF ~alive[m.proc] \/ ~m.start THEN {TRUE}
    ELSE {Over(m)} \cup (IF "noStart" \in Faults THEN {FALSE} ELSE {})

\* readFile of the meta, of whatever directory is there by now.  The age of a lock
\* without a readable one is taken in the same turn of the event loop.
ReadMeta(s) ==
    LET m == IF dir.there THEN dir.meta ELSE NoMeta
    IN  /\ At(s, "read")
        /\ IF m.state = "whole"
           THEN call' = [call EXCEPT ![s].at = "probe", ![s].read = m]
           ELSE Verdict(s, ~Young(call[s].mtime))
        /\ UNCHANGED <<dir, inodes, now, procs>>

\* The host comparison and the pid probes.
Probe(s) ==
    /\ At(s, "probe")
    /\ \E stale \in Stale(call[s].read, HostOf[ProcOf[s]]) : Verdict(s, stale)
    /\ UNCHANGED <<dir, inodes, now, procs>>

\* Mutant: the steal deletes without looking again.
Compare_Blind(s) ==
    /\ At(s, "steal")
    /\ Goto(s, "stealrm")
    /\ UNCHANGED <<dir, inodes, now, procs>>

\* removeIfUnchanged, the comparison: an lstat right before the deletion.
Compare(s) ==
    /\ At(s, "steal")
    /\ IF dir.there /\ Identity(dir) = call[s].inspected
       THEN call' = [call EXCEPT ![s] = [NoCall EXCEPT !.at = "stealrm",
                                                       !.attempt = call[s].attempt]]
       ELSE Return(s)
    /\ UNCHANGED <<dir, inodes, now, procs>>

\* removeIfUnchanged, the deletion; acquire makes its second attempt.
StealRemove(s) ==
    /\ At(s, "stealrm")
    /\ \/ /\ dir' = NoDir
          /\ call' = [call EXCEPT ![s] =
                  [NoCall EXCEPT !.at = "mkdir", !.attempt = call[s].attempt + 1]]
       \/ RmFails /\ UNCHANGED dir /\ Return(s)
    /\ UNCHANGED <<inodes, now, procs>>

\* unlock's removal of a stale (or, with --force, any) lock: no comparison.
UnlockRemove(s) ==
    /\ At(s, "uremove")
    /\ dir' \in {NoDir} \cup (IF RmFails THEN {dir} ELSE {})
    /\ Return(s)
    /\ UNCHANGED <<inodes, now, procs>>

-----------------------------------------------------------------------------
(***************************************************************************)
(* The environment                                                         *)
(***************************************************************************)
\* SIGKILL or power loss.
Crash(p) ==
    /\ alive[p]
    /\ life[p] < MaxLives[p]
    /\ alive' = [alive EXCEPT ![p] = FALSE]
    /\ call' = [s \in Scope |-> IF ProcOf[s] = p THEN NoCall ELSE call[s]]
    /\ UNCHANGED <<dir, inodes, now, life>>

\* The next life may get the pid of the last one; its start time differs.
Restart(p) ==
    /\ ~alive[p]
    /\ alive' = [alive EXCEPT ![p] = TRUE]
    /\ life' = [life EXCEPT ![p] = @ + 1]
    /\ UNCHANGED <<dir, inodes, now, call>>

\* A scope that writes its meta (or rolls back) within the grace, and ends within
\* the TTL.
Prompt(s) ==
    /\ Owning(s) /\ dir.meta.state # "whole" => now + 1 - dir.mtime < Grace
    /\ Owning(s) /\ dir.meta.state = "whole" => now + 1 - dir.meta.created <= TTL

Tick ==
    /\ now < MaxNow
    /\ "slow" \in Faults \/ \A s \in Scope : dir.by = s => Prompt(s)
    /\ now' = now + 1
    /\ UNCHANGED <<dir, inodes, call, procs>>

Work(s) ==
    \/ TryAcquire(s) \/ TryAcquireRefused(s) \/ MetaOpen(s) \/ MetaFill(s)
    \/ Leave(s) \/ Release(s) \/ Lstat(s) \/ ReadMeta(s) \/ Probe(s)
    \/ Compare(s) \/ StealRemove(s) \/ UnlockRemove(s)

\* The two residual windows: without the fault, no scope acts while another is
\* between its look at the lock and the deletion that look allowed.
Undisturbed(s) ==
    \A o \in Scope \ {s} :
        /\ At(o, "stealrm") => "stealWindow" \in Faults
        /\ call[o].op # "run" /\ call[o].at \in {"read", "probe", "uremove"}
              => "unlockWindow" \in Faults

Next ==
    \/ \E s \in Scope : Undisturbed(s) /\ (Work(s) \/ \E o \in Ops : Begin(s, o))
    \/ \E p \in Proc : Crash(p) \/ Restart(p)
    \/ Tick

Spec == Init /\ [][Next]_vars

-----------------------------------------------------------------------------
(***************************************************************************)
(* Properties                                                              *)
(***************************************************************************)
\* Every variable has its type.
TypeOK ==
    /\ dir \in Dirs
    /\ inodes \in Nat /\ inodes <= MaxInode
    /\ now \in Nat /\ now <= MaxNow
    /\ call \in [Scope -> Calls]
    /\ alive \in [Proc -> BOOLEAN]
    /\ life \in [Proc -> Nat]

\* A scope that won the lock keeps it until its own removal, and while it runs
\* its pipeline the meta names it: a slow contender's look at an older lock, a
\* restart with the same pid, another machine's probe, a rollback or an unlock
\* never delete or relabel the lock of a running scope.
HolderKeepsLock ==
    \A s \in Scope :
        /\ Owning(s) => dir.there /\ dir.by = s
        /\ At(s, "cs") => /\ dir.meta.state = "whole"
                          /\ dir.meta.proc = ProcOf[s]
                          /\ dir.meta.life = life[ProcOf[s]]

\* The lock of a killed holder, whether it got to write its meta or not, and one
\* whose creation time lies in the future.  (A lock whose process lives on after
\* its own removal failed is none: it stays.)
Abandoned ==
    /\ dir.there
    /\ ~\E s \in Scope : dir.by = s /\ Owning(s)
    /\ dir.meta.state = "whole" => Over(dir.meta)

\* The local lock implements the abstract mutex: two pipelines never run over
\* one archive root.
Mutex == INSTANCE ArchiveMutex WITH inside <- Inside
MutexSpec == Mutex!Spec
=============================================================================
