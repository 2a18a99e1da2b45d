----------------------------- MODULE RemoteLock -----------------------------
(***************************************************************************)
(* The destination-root lock of a REMOTE archive: the acquire / release /  *)
(* unlock algorithm of src/src/snapshots/internal/lock.ts over the ssh     *)
(* backend of src/src/snapshots/internal/remote-store.ts, with the         *)
(* LockJournal each process keeps in memory and in its state directory.    *)
(*                                                                         *)
(* A scope is one call of withLock or unlock.  Every remote command is one *)
(* step; the steps of different scopes interleave.  Processes are killed   *)
(* and restarted, and a killed process loses its in-memory journal.        *)
(*                                                                         *)
(* Faults names what the environment may do besides:                       *)
(*   "lostReply"    ssh drops a command before or after it ran             *)
(*   "unreadable"   the server refuses a mkdir or a listing                *)
(*   "diskFail"     the state directory cannot be written or read          *)
(*   "rmFail"       a lock removal is not carried out and reported failed  *)
(*   "rmLost"       a lock removal is carried out and reported failed      *)
(*   "late"         a removal given up on is carried out later             *)
(*   "overstay"     a holder outlives the 24 h TTL                         *)
(*   "sameSecond"   two acquisitions get the same second-resolution token  *)
(*   "stealWindow"  others act between compare and delete of a steal       *)
(*   "unlockWindow" others act between inspect and delete of an unlock     *)
(*   "force"        the operator runs unlock --force                       *)
(***************************************************************************)
EXTENDS Integers, FiniteSets

CONSTANTS
    Scope,      \* lock scopes
    Proc,       \* process slots: a restart is a new life in the same slot
    Host,       \* machines
    Dir,        \* state directories
    ProcOf,     \* the process a scope runs in
    HostOf,     \* the machine a process runs on
    DirOf,      \* the state directory a process uses
    Nobody,     \* owner of a lock no scope knows it created
    Leftover,   \* marker sets a lock found at the start may carry
    TTL,        \* LOCK_TTL_MS, in clock units
    MaxAcquire, \* bound: the last instant a mkdir can win
    MaxNow,     \* bound: the end of the clock
    MaxLives,   \* bound: lives of a process slot
    Faults

ASSUME ConstantsAssumption ==
    /\ ProcOf \in [Scope -> Proc]
    /\ HostOf \in [Proc -> Host]
    /\ DirOf \in [Proc -> Dir]
    /\ Proc # {} /\ Nobody \notin Scope
    /\ TTL \in Nat /\ MaxAcquire \in Nat /\ MaxNow \in Nat /\ MaxLives \in Nat
    /\ 1 <= MaxNow /\ MaxAcquire <= MaxNow

\* A marker found at the start is either older than the clock or so far ahead
\* that the clock never comes within the TTL of it.
ASSUME LeftoverAssumption ==
    Leftover \subseteq SUBSET {t \in Nat : t = 0 \/ t > MaxNow + TTL}

VARIABLES
    lock,    \* the lock directory on the archive server
    late,    \* removals the client gave up on and the server still holds
    now,     \* the wall clock
    lastTok, \* the newest token handed out (ghost)
    call,    \* each scope's call: program point and locals
    mem,     \* LockJournal.entries of each process
    disk,    \* LockJournal's record file in each state directory
    alive, life,
    robbed   \* a removal destroyed a lock its owner still relied on (ghost)

vars == <<lock, late, now, lastTok, call, mem, disk, alive, life, robbed>>

server  == <<lock, late, robbed>>
clock   == <<now, lastTok>>
journal == <<mem, disk>>
procs   == <<alive, life>>

-----------------------------------------------------------------------------
(***************************************************************************)
(* Values                                                                  *)
(***************************************************************************)
NoToken == -1      \* LockInspection.token = null
Unread  == -2      \* LockInspection.token = undefined

NoLock == [there |-> FALSE, by |-> Nobody, markers |-> {}]
LockDirs == [there : BOOLEAN, by : Scope \cup {Nobody}, markers : SUBSET Nat]

NoEntry == [there |-> FALSE, marker |-> 0, live |-> FALSE]
Entries == [there : BOOLEAN, marker : Nat, live : BOOLEAN]

NoRecord == [there |-> FALSE, marker |-> 0, proc |-> CHOOSE p \in Proc : TRUE,
             life |-> 0]
Records == [there : BOOLEAN, marker : Nat, proc : Proc, life : Nat]

Inspections == [tok : Nat \cup {NoToken, Unread}, stale : BOOLEAN]
NotSeen == [tok |-> Unread, stale |-> FALSE]

Ops == {"run", "unlock", "force"}
Points == {"idle", "mkdir", "inspect", "judge", "steal", "stealrm", "uremove",
          "journal", "mark", "cs", "release", "forget"}

\* at: program point; tok: RemoteLockBackend.ownerToken; seen: the last
\* inspection.  The backend object lives as long as the call.
Calls == [at : Points, op : Ops, attempt : {1, 2}, tok : Nat, seen : Inspections]
NoCall == [at |-> "idle", op |-> "run", attempt |-> 1, tok |-> 0, seen |-> NotSeen]

\* The program points at which a scope has won the mkdir and not yet sent the
\* removal: it relies on the lock directory being its own.
Owning(s) == call[s].at \in {"journal", "mark", "cs", "release"}

\* The scopes running their pipeline over the archive root.
Inside == {s \in Scope : call[s].at = "cs"}

\* Removing the lock now would rob a scope other than s.
Robs(s) == /\ lock.there
           /\ \E o \in Scope \ {s} : lock.by = o /\ Owning(o)

-----------------------------------------------------------------------------
(***************************************************************************)
(* LockJournal                                                             *)
(***************************************************************************)
\* Mutant: a live pid is taken for the writer, whatever its start time.
LifeOver_PidOnly(r) == ~alive[r.proc]

\* The process life that wrote r is over: its pid is dead, or alive with a
\* different start time.
LifeOver(r) == ~alive[r.proc] \/ life[r.proc] # r.life

Owns(s, observed) ==
    LET entry == mem[ProcOf[s]]
        r     == disk[DirOf[ProcOf[s]]]
    IN  /\ observed # Unread
        /\ IF entry.there
           THEN ~entry.live /\ observed \in {NoToken, entry.marker}
           ELSE /\ r.there
                /\ observed # NoToken
                /\ r.marker = observed
                /\ HostOf[r.proc] = HostOf[ProcOf[s]]
                /\ LifeOver(r)

\* Reading the record can fail, and an unknown start time refuses a recycled
\* pid: both read as "not ours".  The in-memory entry cannot fail.
OwnsAnswers(s, observed) ==
    {Owns(s, observed)} \cup
        (IF "diskFail" \in Faults /\ ~mem[ProcOf[s]].there THEN {FALSE} ELSE {})

Orphaned(p) == mem' = [mem EXCEPT ![p].live = FALSE]

-----------------------------------------------------------------------------
(***************************************************************************)
(* RemoteLockBackend and the algorithm over it                             *)
(***************************************************************************)
Init ==
    /\ lock \in {NoLock} \cup
                {[there |-> TRUE, by |-> Nobody, markers |-> m] : m \in Leftover}
    /\ late = 0
    /\ now = 1
    /\ lastTok = 0
    /\ call = [s \in Scope |-> NoCall]
    /\ mem = [p \in Proc |-> NoEntry]
    /\ disk = [d \in Dir |-> NoRecord]
    /\ alive = [p \in Proc |-> TRUE]
    /\ life = [p \in Proc |-> 0]
    /\ robbed = FALSE

\* Mutant: a marker dated in the future never ages.
Aged_PastOnly(t) == now - t > TTL

\* Age in either direction: a marker dated in the future is stale as well.
Aged(t) == now - t > TTL \/ t - now > TTL

At(s, point) == call[s].at = point
Goto(s, point) == call' = [call EXCEPT ![s].at = point]
\* The call returns or throws.
Return(s) == call' = [call EXCEPT ![s] = NoCall]

\* withLock and unlock are entered from outside: a run, a prune, an operator.
Begin(s, o) ==
    /\ At(s, "idle")
    /\ alive[ProcOf[s]]
    /\ o = "force" => "force" \in Faults
    /\ call' = [call EXCEPT ![s] = [NoCall EXCEPT !.at = "mkdir", !.op = o]]
    /\ UNCHANGED <<server, clock, journal, procs>>

\* The token is the second in which the reply arrived.
FreshToken == now <= MaxAcquire /\ ("sameSecond" \in Faults \/ now > lastTok)

\* Mutant: mkdir -p, which also succeeds on a directory that exists.
TryAcquire_MkdirP(s) ==
    /\ At(s, "mkdir")
    /\ FreshToken
    /\ lock' = [there |-> TRUE, by |-> s, markers |-> {}]
    /\ call' = [call EXCEPT ![s].at = "journal", ![s].tok = now]
    /\ lastTok' = now
    /\ mem' = [mem EXCEPT ![ProcOf[s]] =
                  [there |-> TRUE, marker |-> now, live |-> TRUE]]
    /\ UNCHANGED <<late, robbed, now, disk, procs>>

\* Mutant: ownerToken is not stamped.
TryAcquire_NoStamp(s) ==
    /\ At(s, "mkdir")
    /\ ~lock.there
    /\ FreshToken
    /\ lock' = [there |-> TRUE, by |-> s, markers |-> {}]
    /\ call' = [call EXCEPT ![s].at = "journal", ![s].tok = NoToken]
    /\ lastTok' = now
    /\ mem' = [mem EXCEPT ![ProcOf[s]] =
                  [there |-> TRUE, marker |-> now, live |-> TRUE]]
    /\ UNCHANGED <<late, robbed, now, disk, procs>>

\* mkdir exits 0: the token is stamped and the win put in the in-memory journal.
TryAcquire(s) ==
    /\ At(s, "mkdir")
    /\ ~lock.there
    /\ FreshToken
    /\ lock' = [there |-> TRUE, by |-> s, markers |-> {}]
    /\ call' = [call EXCEPT ![s].at = "journal", ![s].tok = now]
    /\ lastTok' = now
    /\ mem' = [mem EXCEPT ![ProcOf[s]] =
                  [there |-> TRUE, marker |-> now, live |-> TRUE]]
    /\ UNCHANGED <<late, robbed, now, disk, procs>>

\* Any other exit code of mkdir reads as "the lock exists".
TryAcquireRefused(s) ==
    /\ At(s, "mkdir")
    /\ lock.there \/ "unreadable" \in Faults
    /\ Goto(s, "inspect")
    /\ UNCHANGED <<server, clock, journal, procs>>

\* The mkdir is sent once.  Its reply is lost: the call throws, and the server
\* may now have a lock that no journal knows.
TryAcquireLost(s) ==
    /\ At(s, "mkdir")
    /\ "lostReply" \in Faults
    /\ lock' \in {lock, IF lock.there THEN lock
                        ELSE [there |-> TRUE, by |-> Nobody, markers |-> {}]}
    /\ Return(s)
    /\ UNCHANGED <<late, robbed, clock, journal, procs>>

\* LockJournal.held's record file, written before the marker; a failed write
\* leaves the older record.
JournalHeld(s) ==
    LET p == ProcOf[s]
    IN  /\ At(s, "journal")
        /\ \/ disk' = [disk EXCEPT ![DirOf[p]] =
                          [there |-> TRUE, marker |-> call[s].tok, proc |-> p,
                           life |-> life[p]]]
           \/ "diskFail" \in Faults /\ UNCHANGED disk
        /\ Goto(s, "mark")
        /\ UNCHANGED <<server, clock, mem, procs>>

\* mkdir -p creates the lock directory as well when it is gone.
Marked(s) == [there |-> TRUE,
              by |-> IF lock.there THEN lock.by ELSE s,
              markers |-> lock.markers \cup {call[s].tok}]

\* The marker write.  A failure rolls back (acquire) or is ignored (unlock);
\* both go on to the removal.
WriteMeta(s) ==
    /\ At(s, "mark")
    /\ \/ /\ lock' = Marked(s)
          /\ Goto(s, IF call[s].op = "run" THEN "cs" ELSE "release")
       \/ /\ "lostReply" \in Faults
          /\ lock' \in {lock, Marked(s)}
          /\ Goto(s, "release")
    /\ UNCHANGED <<late, robbed, clock, journal, procs>>

\* The pipeline returned, threw or was aborted.
Leave(s) ==
    /\ At(s, "cs")
    /\ Goto(s, "release")
    /\ UNCHANGED <<server, clock, journal, procs>>

\* rm -rf of whatever lies at the lock path, reported successful.
RemoveSucceeds(s) ==
    /\ lock' = NoLock
    /\ robbed' = (robbed \/ Robs(s))
    /\ UNCHANGED late

\* rm -rf reported failed after its attempts: not carried out, carried out
\* with the reply lost, or still to be carried out by the server.
RemoveFails(s) ==
    \/ "rmFail" \in Faults /\ UNCHANGED server
    \/ "rmLost" \in Faults /\ RemoveSucceeds(s)
    \/ "late" \in Faults /\ late = 0 /\ late' = 1 /\ UNCHANGED <<lock, robbed>>

\* Mutant: a failed release leaves the journal entry live.
Release_StaysLive(s) ==
    /\ At(s, "release")
    /\ \/ RemoveSucceeds(s) /\ Goto(s, "forget") /\ UNCHANGED mem
       \/ RemoveFails(s) /\ Return(s) /\ UNCHANGED mem
    /\ UNCHANGED <<clock, disk, procs>>

\* The release in withLockScope's finally, the rollback of a failed marker
\* write, and the removal of unlock's own probe.
Release(s) ==
    /\ At(s, "release")
    /\ \/ RemoveSucceeds(s) /\ Goto(s, "forget") /\ UNCHANGED mem
       \/ RemoveFails(s) /\ Orphaned(ProcOf[s]) /\ Return(s)
    /\ UNCHANGED <<clock, disk, procs>>

\* LockJournal.released: by path, whoever wrote the record.
Released(s) ==
    LET p == ProcOf[s]
    IN  /\ At(s, "forget")
        /\ mem' = [mem EXCEPT ![p] = NoEntry]
        /\ \/ disk' = [disk EXCEPT ![DirOf[p]] = NoRecord]
           \/ "diskFail" \in Faults /\ UNCHANGED disk
        /\ Return(s)
        /\ UNCHANGED <<server, clock, procs>>

\* The readings one listing of the lock directory can give: unreadable (also
\* when it is gone), no marker, or the first marker listed.
Listings ==
    (IF ~lock.there \/ "unreadable" \in Faults THEN {Unread} ELSE {}) \cup
    (IF lock.there /\ lock.markers = {} THEN {NoToken} ELSE {}) \cup
    (IF lock.there THEN lock.markers ELSE {})

\* inspect.  unlock decides on its answer alone; acquire consults the journal.
Inspect(s) ==
    /\ At(s, "inspect")
    /\ \/ \E t \in Listings :
            LET stale == t \in Nat /\ Aged(t)
                look(point) == call' = [call EXCEPT ![s].at = point,
                                   ![s].seen = [tok |-> t, stale |-> stale]]
            IN  \/ call[s].op = "run" /\ look("judge")
                \/ call[s].op # "run" /\ (stale \/ call[s].op = "force")
                     /\ look("uremove")
                \/ call[s].op = "unlock" /\ ~stale /\ Return(s)
       \/ "lostReply" \in Faults /\ Return(s)
    /\ UNCHANGED <<server, clock, journal, procs>>

\* acquire's decision: leave the lock alone (LockHeldError) or try to steal it.
Judge(s) ==
    /\ At(s, "judge")
    /\ \E mine \in OwnsAnswers(s, call[s].seen.tok) :
         IF (~call[s].seen.stale /\ ~mine) \/ call[s].attempt = 2
         THEN Return(s) ELSE Goto(s, "steal")
    /\ UNCHANGED <<server, clock, journal, procs>>

\* Mutant: the steal deletes without looking again.
RemoveIfUnchanged_Blind(s) ==
    /\ At(s, "steal")
    /\ Goto(s, "stealrm")
    /\ UNCHANGED <<server, clock, journal, procs>>

\* removeIfUnchanged, the comparison: list again, and give up unless the first
\* marker is still the inspected one.
RemoveIfUnchanged(s) ==
    /\ At(s, "steal")
    /\ \/ \E t \in Listings :
            IF t # Unread /\ t = call[s].seen.tok THEN Goto(s, "stealrm")
                                                  ELSE Return(s)
       \/ "lostReply" \in Faults /\ Return(s)
    /\ UNCHANGED <<server, clock, journal, procs>>

\* removeIfUnchanged, the deletion: a command of its own.  acquire then makes
\* its second and last attempt.
StealRemove(s) ==
    /\ At(s, "stealrm")
    /\ \/ /\ RemoveSucceeds(s)
          /\ call' = [call EXCEPT ![s] =
                         [NoCall EXCEPT !.at = "mkdir", !.attempt = 2]]
       \/ RemoveFails(s) /\ Return(s)
    /\ UNCHANGED <<clock, journal, procs>>

\* unlock's removal of a stale (or, with --force, any) lock: no comparison.
UnlockRemove(s) ==
    /\ At(s, "uremove")
    /\ \/ RemoveSucceeds(s) /\ Goto(s, "forget")
       \/ RemoveFails(s) /\ Return(s)
    /\ UNCHANGED <<clock, journal, procs>>

-----------------------------------------------------------------------------
(***************************************************************************)
(* The environment                                                         *)
(***************************************************************************)
\* SIGKILL or power loss.
Crash(p) ==
    /\ alive[p]
    /\ life[p] < MaxLives
    /\ alive' = [alive EXCEPT ![p] = FALSE]
    /\ call' = [s \in Scope |-> IF ProcOf[s] = p THEN NoCall ELSE call[s]]
    /\ mem' = [mem EXCEPT ![p] = NoEntry]
    /\ UNCHANGED <<server, clock, disk, life>>

Restart(p) ==
    /\ ~alive[p]
    /\ alive' = [alive EXCEPT ![p] = TRUE]
    /\ life' = [life EXCEPT ![p] = @ + 1]
    /\ UNCHANGED <<server, clock, call, journal>>

Tick ==
    /\ now < MaxNow
    /\ "overstay" \in Faults
         \/ \A s \in Scope : Owning(s) => now - call[s].tok < TTL
    /\ now' = now + 1
    /\ UNCHANGED <<server, lastTok, call, journal, procs>>

\* The server carries out a removal whose client gave up.
LateRemove ==
    /\ late = 1
    /\ late' = 0
    /\ lock' = NoLock
    /\ robbed' = (robbed \/ Robs(Nobody))
    /\ UNCHANGED <<clock, call, journal, procs>>

Work(s) ==
    \/ TryAcquire(s) \/ TryAcquireRefused(s) \/ TryAcquireLost(s)
    \/ JournalHeld(s) \/ WriteMeta(s) \/ Leave(s) \/ Release(s) \/ Released(s)
    \/ Inspect(s) \/ Judge(s) \/ RemoveIfUnchanged(s) \/ StealRemove(s)
    \/ UnlockRemove(s)

\* The two residual windows: without the fault, no scope acts while another is
\* between its look at the lock and the deletion that look allowed.
Undisturbed(s) ==
    \A o \in Scope \ {s} :
        /\ At(o, "stealrm") => "stealWindow" \in Faults
        /\ At(o, "uremove") => "unlockWindow" \in Faults

Next ==
    \/ \E s \in Scope : Undisturbed(s) /\ (Work(s) \/ \E o \in Ops : Begin(s, o))
    \/ \E p \in Proc : Crash(p) \/ Restart(p)
    \/ Tick
    \/ LateRemove

Spec == Init /\ [][Next]_vars

-----------------------------------------------------------------------------
(***************************************************************************)
(* Properties                                                              *)
(***************************************************************************)
\* Every variable has its type.
TypeOK ==
    /\ lock \in LockDirs
    /\ late \in {0, 1}
    /\ now \in Nat /\ now <= MaxNow
    /\ lastTok \in Nat
    /\ call \in [Scope -> Calls]
    /\ mem \in [Proc -> Entries]
    /\ disk \in [Dir -> Records]
    /\ alive \in [Proc -> BOOLEAN]
    /\ life \in [Proc -> Nat]
    /\ robbed \in BOOLEAN

\* Two pipelines never run over one archive root (withLock's purpose), whatever
\* crashes, restarts, TTL steals, self-reclaims and unlocks interleave.
Exclusion == Cardinality(Inside) <= 1

\* A scope that won the lock keeps it until it sends its own removal: no steal,
\* reclaim or unlock ever deletes the lock of a running scope.
HolderKeepsLock == \A s \in Scope : Owning(s) => lock.there /\ lock.by = s

\* With every fault allowed, the mkdir itself still never admits two: exclusion
\* is only ever lost through a removal that hit a running scope's lock.
BreachNeedsRobbery == Cardinality(Inside) > 1 => robbed

\* With every fault allowed, an entry the journal calls live belongs to a scope
\* that is still on its way from mkdir to the end of its release: no exit from
\* acquire, withLockScope or forceUnlock leaves a lock marked live for ever,
\* which would stop this process from ever reclaiming it.
LiveEntryHasScope ==
    \A p \in Proc : mem[p].there /\ mem[p].live =>
        \E s \in Scope : /\ ProcOf[s] = p
                         /\ Owning(s) \/ At(s, "forget")
                         /\ call[s].tok = mem[p].marker

\* A marked lock that no scope relies on any more.
Abandoned == /\ lock.there
             /\ lock.markers # {}
             /\ ~\E s \in Scope : lock.by = s /\ Owning(s)

\* The remote lock implements the abstract mutex.
Mutex == INSTANCE ArchiveMutex WITH inside <- Inside
MutexSpec == Mutex!Spec

\* The environment under which exclusion is claimed: removals are reported
\* truthfully, holders respect the TTL, tokens are distinct, nobody acts in the
\* two compare-to-delete windows, and no operator forces an unlock.  Crashes,
\* restarts, lost replies, unreadable locks and journal failures remain.
Quiet == Faults \cap {"rmFail", "rmLost", "late", "overstay", "sameSecond",
                      "stealWindow", "unlockWindow", "force"} = {}
=============================================================================
