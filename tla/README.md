# A TLA+ development for backupkit

backupkit backs directories up to a local or a remote archive: an rsync run
writes `<name>.partial`, hardlinks what did not change to the newest snapshot,
and a rename promotes it to `<name>`; a mirror target
overwrites one tree instead. A daemon decides when each target runs; command-line
verbs (`run`, `prune`, `unlock`, ...) do the same work by hand, at the same time,
on the same directories. Nothing but directory operations over
ssh, a lock directory, and JSON run reports holds the parts together, and any
part may be killed at any point.

This directory holds TLA+ models of that core and of what it stands on (commands,
ssh-agent, service units, configuration files, the calendar), the TLC
configurations that check them on small instances, and TLAPS proofs. Paths below
are relative to the repository root, whose code is in `src/` (so `src/src/...` in `PROJECT.json`).

- [Inventory](#inventory)
- [Modules and how they follow the code](#modules-and-how-they-follow-the-code)
- [Runs](#runs)
- [Bounds](#bounds)
- [Fairness](#fairness)
- [Proofs](#proofs)
- [Where code and comments disagree](#where-code-and-comments-disagree)
- [What is not modelled](#what-is-not-modelled)
- [Plan](#plan)

## Inventory

| component | state | operations | what makes it correct |
|---|---|---|---|
| destination lock, remote (`snapshots/internal/lock.ts`, `remote-store.ts`) | lock directory and marker file on the server; `LockJournal` in memory and one record file per state directory | acquire, steal, self-reclaim, release, unlock | one pipeline at a time; nobody's live lock is removed; an abandoned lock does not block a target |
| destination lock, local (`local-store.ts`) | lock directory (inode, ctime), meta file with pid, start time, host and creation time | acquire, inspect, steal, rollback, release, unlock | the same |
| snapshot stores (`snapshots/store.ts`, `local-store.ts`, `remote-store.ts`) | `<name>`, `<name>.partial`, `<name>.deleting` directories | listComplete, claimPartial, promote, remove, free space | what lists as a snapshot is whole and, but for retries, never changes |
| snapshot pipeline (`engine/internal/target-runner.ts`, `runTarget`) | locals of one run | claim, list, dedup, skew guard, disk guard, transfer, verify, promote, collapse check, insertion check, retention | one snapshot per window, filed in order; retention never runs on doubtful evidence |
| mirror pipeline (`runMirror`) | locals; its reports | dedup from reports, estimate, collapse refusal, transfer, verify, dry run | never mirrors a collapsed source unless forced |
| retention (`retention/retention.ts`) | none | planRetention | what it deletes is never missed later |
| run reports (`engine/internal/reports.ts`) | up to 50 JSON files per target | write and rotate, read, newestStats, newestHistoryMark, detectHistoryInsertion, deriveBackoff | tripwires and backoff survive crashes and rotation |
| scheduler (`engine/internal/scheduler.ts`) | backoff, cache of the newest snapshot, stop flag | tick, record, rehydrate, stop | a target is delayed, never stopped; at most one run per window |
| engine (`engine/backupkit.ts`) | disk-low and lock-held episodes, probe memos, abort controller | start, stop, run, runPass, runOne, prune, status, unlock, restore, check | every failure reaches `status`; a restore that reports verified is whole |
| disk guard (`engine/internal/disk-guard.ts`) | none | evaluateDiskGuard | never fills the archive disk |
| rsync (`rsync/`) | attempts | runTransfer, estimate, classify, args, stats | only promotable exits are promoted |
| exec, retry (`exec/`, `shared/retry.ts`) | child process, five timers, abort listener | exec, withTransientRetry | settles once; no child outlives a call; a stop ends in time |
| ssh (`ssh/`) | the agent's process and socket, keys in it, `.pub` sidecars, known_hosts, probe results | runRemote, preflight (agent, permissions, priming), reach | a remote that is not given up on has its key; errors are transient or permanent |
| calendar and names (`shared/time.ts`, `shared/snapshot-name.ts`, `scheduler.ts`) | none | windowIndex, windowAnchor, isDue, nextDueAt, buckets, parseName | windows tile time; what status prints is what the scheduler does |
| configuration (`config/`) | files | JSONC parsing, include chains, merge, validate, resolve | accepts its grammar; later wins |
| command line and service units (`cli/`) | unit or plist, supervisor, running daemon | install, start, stop, restart, uninstall; status, logs | the daemon runs under the unit its configuration asks for |
| jail script (`backupkit-remote.sh`) | none | a command grammar | lets through the store's commands only |

How they interact. The scheduler calls `runOne`, which passes the disk-low
throttle and the remote gate, calls `runTarget` inside `withLock`, and writes
the report after the lock is released. `runTarget` calls the store for every
change of the archive and the reports of earlier runs for its two tripwires.
The scheduler rehydrates its backoff from the reports. Every remote store
operation and every transfer is one `exec` under `withTransientRetry`, and one
shutdown signal reaches all of them but the lock's release. Daemon and command
line share the archive (through the lock), a mirror's destination (through
nothing), the reports, the lock journal's record file and the ssh-agent (through
nothing either: plain files and a socket).

What is hard here: steps of two processes that meet in an order nobody tested
(steal against release, promote against somebody else's mkdir, prune against a
run or a restore, two preflights at one socket); a reply that is lost although
the command ran; a kill between any two directory operations; state read before
a lock or an await and used after it (start times, marks, caches, inspections,
estimates); a clock that is set back; reports that are ordered by start and
written at the end; timers of a child that race its exit. `PROJECT.json` lists
these hazards with the line where each bites and the property that watches it.

## Modules and how they follow the code

Locks and the archive:

**`ArchiveMutex`** is the abstract lock: a set of scopes inside, one at a time.

**`RemoteLock`** is `acquire`, `withLockScope`, `forceUnlock` and `LockJournal`
over `RemoteLockBackend`. A *scope* is one call of `withLock` or `unlock`; its
program point and locals are `call[s]`. `lock` is the directory on the server
with its markers, `mem[p]` the journal entry a process holds in memory, `disk[d]`
the record file of a state directory, `alive` and `life` the processes and their
restarts (a pid with its start time). Each remote command is one action:
`TryAcquire` (mkdir), `WriteMeta`, `Inspect`, `RemoveIfUnchanged` (a compare and
a delete, in two commands), `Release`, `UnlockRemove`; `JournalHeld` and
`Released` are the writes of the record; `Judge` is the decision in between. A
lost reply is an alternative of the action it belongs to. `robbed` is a ghost: a
removal hit the lock of a scope that relied on it. The constant `Faults` names
which faults of the environment a run allows.

**`LocalLock`** is the same code over `LocalLockBackend`, where the backend has
no owner token. `dir` is what lies at the lock path: its inode, the time of its
last entry, and a meta file that is absent, torn (opened and not yet written) or
whole. `lockIdentity` is the inode together with "the meta has appeared", which
is what moves the ctime. One action per file-system call: `TryAcquire`,
`MetaOpen`, `MetaFill`, `Leave`, `Release`, `Lstat`, `ReadMeta`, `Probe` (the host
comparison, pid and start time), `Compare` and `StealRemove`, `UnlockRemove`.
`Grace` and `TTL` are the two ages. A process slot that is restarted may get its
old pid; its start time, `life`, differs.

**`Locks`** is the lock of a target with either store, `storeFor`: one of the two
above, with the fairness they have in common.

**`SnapshotHistory`** is the abstract archive: a set of whole snapshots that grows
by a newest one, and shrinks but never to nothing. Whether the files of one change
is not part of it (OnlyRefillsTouch is about that).

**`Archive`** is one archive root with the processes on it: `runTarget` and
`prune`, one action per store operation, and the store operations themselves as
directory operations (`ClaimSweep`, `ClaimResume`, `ClaimFresh`, `PromoteCheck`,
`PromoteMove`, `Remove`, `RemoveTree`), for both stores (`Kind`). A directory is
`whole`, `torn` or `foreign`, with the snapshots it has hardlinks into; a transfer
into a partial that an earlier attempt has filled may touch these. The lock
is `ArchiveMutex` with a holder that frees it by dying. `reports` are the run
reports by start time; `WriteReport` with rotation is its own step after the
release, as in `runOne`. `NewestStats`, `NewestHistoryMark`,
`DetectHistoryInsertion` and `CollapseAgainst` are the tripwires.

Targets:

**`Retention`** is `planRetention` as sets: the walk over the snapshots, newest
first, with the set of buckets seen so far, becomes "the buckets of the newer
snapshots". Buckets are arbitrary monotone functions of the instant.
**`RetentionHistory`** applies it over the life of a target, run after run,
skipped and interrupted at will. **`Restore`** extends it with `restore`: the
listing, the checks of the output path, the copy and the checksum pass, while
runs and prunes go on, since a restore takes no lock. `CopyEnds` is how rsync ends
over a snapshot that is being removed: with 24 or 23, or with 0 and files missing
that were gone before it read their directory; the code goes by the code alone.
`remove` renames before it deletes, so that an rsync started later does not find
the snapshot (`Opens`). **`Calendar`** is the real
calendar in integer arithmetic: windows and anchors of the five intervals,
`isDue`, `nextDueAt`, the five retention buckets (the ISO week included), and
the snapshot name with its round trip.

**`Mirror`** is `runMirror` and its part of `runOne`, for processes without a
lock: `Dedup`, `Estimate`, `Guard`, `Transfer`, `VerifyPass`, `Record`, and
failures, stops and kills in between. The destination is its number of files,
which an interrupted transfer leaves anywhere between before and after. `low`
and `bar` are ghosts: the fewest files a trusted report has measured, and that
number when a run was let through.

**`Targets`** composes `Restore`, `Calendar` and an instance of `Mirror`: a
target of either mode, under one calendar.

The instants of `Archive`, `Mirror` and `Scheduler` are too few for a calendar, so
these three leave the schedule open: `WindowOf[n]` is the window of an instant and
`AnchorAt[n]` its anchor, any functions of which no window ends after a later one
begins. `Calendar` has the schedules themselves (`ValidSchedules`).

**`Scheduler`** is the tick loop, `BackoffTracker`, `start`, `stop`, `run`,
`runPass`, `runOne` and `recordOutcome`, for a daemon and a command-line pass.
`engine[p]` is an engine's loop and locals, `mem` the daemon's memory (backoff,
`newestCache`, `diskLowTargets`, `diskLowCheckedAt`, `lockHeldSince`), `reports`
what `deriveBackoff` reads. The pipeline is `Gate` (start time), `Lock` and
`Pipeline` (one step with the outcome its guards give); `RunThrows` is what throws
out of `runOne` before it has a lock, the probe of the local rsync for one. A one-shot pass visits
each target once, so its memory is not kept. `last` and `idle` are ghosts.

Commands:

**`RemoteCall`** is what a caller relies on: a command takes effect at most `max`
times, and a good reply comes after an effect. A failed reply says nothing. It
is the contract under which `RemoteLock` and `Archive` treat a store operation
as a step with a lost reply as its alternative.

**`Command`** is `exec`, `withTransientRetry` and their users: `runRemote`,
`runTransfer`, `dryRunStats` and the detached release of the lock. A process
makes the calls of one *pass*, such as a transfer and the release in its finally
block. `timer` holds the timeout, the two SIGKILL timers, the stream drain and
the backoff in half seconds; `child` is the program, with the end it came to and
whether somebody still holds its pipes; `orphans` are commands the server goes
on with after their ssh has died. `ClassifyExit` is the exit-code table, with
one code of every row enumerated. `Judge` is what the caller makes of an end, in
the same turn of the event loop but for an alias whose key was refused: then
`diagnoseAliasAuth` runs up to `Probes` further programs (`ssh -G`, a probe per
key, ...), each with 10 s and without the shutdown signal, and only then does the
call fail. What the probes say changes the message and how many there are.

The host:

**`Agent`** is `runPreflight` in two processes that share a socket, the `.pub`
sidecars and known_hosts: the permission gate, `ensureAgent` (probe, remove the
stale socket, spawn), the list of fingerprints, and `primeKey` per key. Whether a process has a terminal
is independent of its being the service, so a command started by cron is there too.
**`Service`** is `service install | start | restart | stop | uninstall` on systemd
and launchd: `unit` is the definition on disk, `loaded` what the supervisor has
read, `proc` what the daemon was started under; a verb is a list of tool calls,
`Tool` does one, and crashes, restarts, edits and reboots come between.
**`Jsonc`** is the recursive-descent parser over lexemes next to a generator of
the grammar, and **`Include`** is `readDocument` and `mergeNodes` next to the
documented order. **`Host`** composes the four. `Jsonc` and `Include` hold the
project's only RECURSIVE operators; nothing is proved about them.

`MCRemoteLock`, `MCLocks`, `MCArchive`, `MCRetention`, `MCScheduler`,
`MCCommand` and `MCHost` instantiate them; `MCRetention` also assumes, and TLC
evaluates, that names order as instants do.

Definitions named `X_Something` are plausible mistakes in `X` ("Mutant: ..."):
`PROJECT.json` pairs each property with one that makes TLC find it violated.

## Runs

`tlc -workers 2 -config <cfg> <module>`; each takes a minute or two.

| run | module | checks | shows |
|---|---|---|---|
| `remote_lock` | MCRemoteLock | TypeOK, Exclusion, HolderKeepsLock, MutexSpec | daemon, CLI and a second machine on one root, with kills, TTL steals, unlocks and lost replies: one pipeline at a time, nobody's lock is taken, and the lock implements `ArchiveMutex` |
| `remote_lock_open` | MCRemoteLock | BreachNeedsRobbery, LiveEntryHasScope | with all eleven faults exclusion falls only through a removal that hit a live lock; no exit path leaves a journal entry live for ever |
| `locks` | MCLocks | HolderKeepsLock, MutexSpec, LeftLockIsFreed | the same three actors on a mounted disk, with kills, recycled pids, failing meta writes and removals: no running scope loses its lock and it implements `ArchiveMutex`; and over either store a lock left behind is freed, the remote one through its record, before any TTL |
| `archive` | MCArchive | TypeOK, WholeSnapshots, NoFalseAlarm, OnePerWindow, OnlyRefillsTouch, HistorySpec | two processes on a local archive, with retries, kills and failing commands: what is listed is whole, one per window, touched by retried transfers only; backupkit's own work never trips the insertion check; and the archive implements `SnapshotHistory` |
| `archive_faults` | MCArchive | WholeSnapshots, PromotionIsReal, LeftoversSwept | remote archive with verify, retries, a kill, unreadable stats, clock set back, foreign directories: nothing torn is listed, no nested rename passes for a promotion, and what a killed deletion leaves is swept |
| `archive_retry` | MCArchive | SnapshotImmutable: violated | a retried transfer touches a promoted snapshot |
| `archive_verify` | MCArchive | CollapseHoldsHistory: violated | the report of a run whose verify pass failed disarms the collapse wire |
| `retention` | MCRetention | PlanIsScheduleFree, TiersCovered, VerifiedIsWhole, NextDueIsDue, LossNeedsForce | thinning along the way keeps what the policy promises; a verified restore is whole, whatever is pruned under it; the due time printed is the first due moment; a mirror loses more than half of its files only by force |
| `scheduler` | MCScheduler | TypeOK, FailureShows, OneVainRun | daemon against CLI: no failure hides behind a success in the reports that go back to it; a covered window is entered in vain once |
| `scheduler_live` | MCScheduler | BackoffAgrees, Recovers | the daemon's backoff is always what its reports would restore; after the trouble the target gets its snapshot |
| `command` | MCCommand | NoChildLeft, StopFitsUnit, CallSpec, NoAttemptAfterStop, PassEnds | no call returns or retries over a running child; a stop starts nothing more and ends the pass in the unit's time, or that of the probes of a refused alias key it met; every caller gets the contract of `RemoteCall` |
| `host` | MCHost | TextIsRead, FilesAreMerged, ReadyIsUsable, StartsUnderWritten, HaltsForGood | parser against grammar; merge against its documented order; a process that is ready has its keys; a verb starts the daemon under the unit just written, and a stop or uninstall leaves nothing behind |

## Bounds

- `RemoteLock`: three scopes in three processes on two machines: a holder, a
  thief and a bystander, two of them sharing a state directory. Each process
  crashes and restarts at most once where exclusion is checked, twice where
  recovery is (`MaxLives`). In `remote_lock` (`TTL = 1`, `MaxNow = 3`,
  `MaxAcquire = 3`) a stale lock is found, stolen and followed by two more
  acquisitions, which is what a thief that acts on an old look needs to do harm.
  `remote_lock_open` has two scopes, every fault and `TTL = 0`, so that a lock is
  outlived, stolen and retaken within two ticks. In `locks`, where one scope of the
  daemon and one of the second machine remain, the clock ends before any TTL does
  (`RemoteTTL = 9`), so that only the record can free the lock.
  `MaxAcquire` ends the acquisitions so that every behaviour ends; deadlock
  checking is off for that reason, as a system whose clock has ended may stop.
- `LocalLock`: the same three actors; the daemon is restarted once more than the
  others. `Grace = TTL = 1`, so that a lock without a meta and a foreign one both
  age away before `MaxNow = 3`. Two lock directories can be created beside the
  one found at the start (`MaxInode = 3`), all by the first instant
  (`MaxAcquire`): one to be stolen, one to be hit by a thief that looked too
  early. The found lock has no meta, is of an earlier life of the daemon, or is a
  second machine's, dated in the future. Deadlock checking is off as above.
- `Archive`: three or four names, windows of two, one tier and `KeepLast = 1`, so
  that runs do prune; no kill or one; two attempts per transfer, of which the second
  is the one that refills a partial (one in `archive_verify`); `Kept` of one or two
  reports where rotation matters and larger where it is not the question. Two
  processes are interchangeable (symmetry; used with safety properties only).
  With a clock that is set back and two processes the space is too large, so the
  runs divide these up; the theorems below have no such bound.
- `Retention`, `Restore`, `Calendar`: eight instants around a leap day and a turn
  of the year where weeks, months and years do not nest, four tiers, keepLast 2,
  one restore; eight schedules cover the five intervals, counts that do not
  divide a week or a year, late anchors and the last allowed day of month.
- `Mirror`: two processes, a source of one or four files (so that the collapse
  fraction is crossed both ways), three runs, `Kept = 2`, so that the baseline can
  be rotated out; all five faults.
- `Scheduler`: one target (targets interact only by taking time), windows of
  four instants with the anchor at one, base 2 and ceiling 3, so that the second
  failure already meets the ceiling; two windows of clock; two or three faults
  (`MaxTrouble`), one command-line pass. `Calm` happens early enough that the
  longest delay ends before the clock does. An instant stands for minutes:
  `visit` and the writing of a report take none.
- `Command`: the timers have their real values in half seconds (a timeout of 60 s
  is 120), the jitter its two ends, `RetryAttempts` is 2, and `TimeoutStop` is the
  unit's 45 s. `Probes` is 2, enough for one to end well and the next to time out; the
  code makes `2k + 2` for an alias with k keys, and the theorem has any number. Four
  passes put each kind of call where the pipelines have it. A
  single process suffices: calls share nothing. Deadlock checking is off: a pass
  that has returned is over.
- `Host`: texts within one deletion, insertion or replacement of a document of up
  to two commas nested two deep, or of one nested too deep; four files with up to
  two includes in the main one and one in the others, depth 3; two keys for three
  remotes, two starts, three agents, one fault; two configurations in two files,
  one edit, crash, tool failure and reboot each, so that every one of them can
  fall between two tool calls of any verb. Deadlock checking is off: an operator
  may be done.

## Fairness

- `Locks`, remote: a command that was sent ends (ssh has timeouts: `NO_RETRY`,
  `DETACHED_RELEASE`), the clock moves, a dead process is restarted (the unit
  files say `Restart=on-failure`), and the scheduler returns to the target on a
  later tick, strongly, because another scope's lock may turn it away many times.
  `Undisturbed` is the same guard `Next` has: without the window faults nobody
  acts between the compare and the delete of a steal or an unlock.
- `Locks`, local: the same, with file-system calls for commands. Removals may fail
  for as long as locks are still being taken (`RmFails`).
- `Archive` (`FairSpec`, in `archive_faults`): a started operation goes on
  and runs keep being started. No fairness on kills, failures or the clock:
  `LeftoversSwept` speaks of behaviours in which the lock and the store commands
  at last stop failing.
- `Scheduler`: each engine's loop goes on, the 30 s timer fires, the daemon is
  started again, and the clock moves (strongly: short program points interrupt
  it). No fairness on `Calm`: `Recovers` speaks of behaviours in which the
  trouble ends.
- `Command`: the event loop and the clock go on, and a child that was sent SIGKILL
  ends. Nothing is owed by a child that was only asked to end, by whoever holds
  its pipes, or by the server.
- `Mirror`, `Restore`, `Service` and `Agent` are checked for safety only.

## Proofs

`tlapm <module>.tla` for each of the modules below. No bound of a run is in
them: they are for any sets of processes, scopes, machines, directories, tiers
and passes and any value of the numeric constants that the named assumptions of
the modules admit (TLC evaluates these in every run).

| module | theorem | states |
|---|---|---|
| `RemoteLockProofs` | `TypeCorrect` | `[]TypeOK` |
| | `BreachOnlyByRobbery` | with every fault: `[]BreachNeedsRobbery` |
| | `LiveEntriesEnd` | with every fault: `[]LiveEntryHasScope` |
| | `HolderIsSafe` | when `Quiet`: `[]HolderKeepsLock` |
| | `MutualExclusion` | when `Quiet`: `[]Exclusion` |
| | `ImplementsMutex` | when `Quiet`: `MutexSpec` |
| `LocalLockProofs` | `TypeCorrect` | with every fault: `[]TypeOK` |
| | `HolderIsSafe` | when `Quiet`: `[]HolderKeepsLock` |
| | `ImplementsMutex` | when `Quiet`: `MutexSpec` |
| `ArchiveProofs` | `TypeCorrect` | with every fault: `[]TypeOK` |
| | `SnapshotsAreWhole` | with every fault: `[]WholeSnapshots` |
| | `PromotionsAreReal` | with every fault: `[]PromotionIsReal` |
| | `OnePerWindowHolds` | when `OwnedRoot`: `OnePerWindow` |
| | `SnapshotsStay` | when `OwnedRoot`: `OnlyRefillsTouch` |
| | `ImplementsHistory` | when `OwnedRoot`: `HistorySpec` |
| | `NoAlarmIsFalse` | when `OwnedRoot` and the clock is not set back: `[]NoFalseAlarm` |
| `TargetsProofs` | `ScheduleFree` | `[]PlanIsScheduleFree` |
| | `EveryTierCovered` | `[]TiersCovered` |
| | `VerifiedAreWhole` | `[]VerifiedIsWhole` |
| | `MirrorIsGuarded` | `LossNeedsForce` of a target of either mode |
| | `NextDueHolds` | `[]NextDueIsDue` |
| | `EveryWindowComes` | the anchor of each window lies in it, and there the target is due |
| | `WindowsAreWindows` | the windows of every schedule are what `Scheduler`, `Archive` and `Mirror` assume of theirs |
| | `BucketsAreIntervals`, `WeekIsOneBucket` | buckets never fall; a week from Monday to Sunday is one bucket |
| | `NamesKeepOrder`, `NamesReadBack` | names sort as instants and are read back as them |
| `SchedulerProofs` | `TypeCorrect` | with every fault: `[]TypeOK` |
| | `NoHiddenFailure` | with every fault: `[]FailureShows` |
| | `NoSecondVainRun` | with every fault: `OneVainRun` |
| | `MemoryIsTheRecord` | with every fault: `[]BackoffAgrees` |
| `HostProofs` | `ReadyAgent` | `[]ReadyIsUsable` |
| | `StartedUnderItsUnit` | `StartsUnderWritten` |
| | `NothingLeftBehind` | `HaltsForGood` |
| `CommandProofs` | `OneChild` | `[]NoChildLeft` |
| | `StopIsHeeded` | `NoAttemptAfterStop` |
| | `KeepsContract` | `CallSpec` |
| | `StopFits` (with `PassesFit`) | `[]StopFitsUnit` |
| `MirrorProofs` | `TypeCorrect` | `[]TypeOK` |
| | `GuardIsNotDisarmed` | `LossNeedsForce` |

*Remote lock.* `Quiet` says that `Faults` holds at most lost replies, failing
listings and a failing state directory. What it leaves out is what the code
itself cannot exclude: a holder that outlives the TTL, two acquisitions with the
same second's token, a removal that is carried out late or reported falsely, the
window inside a steal or an unlock, and `unlock --force`.
`BreachOnlyByRobbery` needs a small invariant: while nobody was robbed, a scope
that relies on the lock has it (`KeptUnlessRobbed`). It is inductive because the
lock directory changes hands only by a mkdir that finds none, and each removal
sets the ghost when it hits an owner. Two scopes inside would then both own one
directory. `HolderIsSafe` must show that no removal hits an owner, which is not
inductive alone: the decision to remove was taken earlier, on an inspection.
`QuietInv` adds what makes an old decision still right. Tokens grow with the
clock, so that a token somebody has seen as stale is never given out again
(`TokensPast`); the owner's token is younger than the TTL (`HeldByOwner`); a
record that names a running scope's token was written by that process life
(`RecordsHonest`), so that self-reclaim never judges it dead; no entry is
orphaned in memory (`NoOrphans`), so that the markerless reclaim is never taken;
and every verdict a scope carries names a token that is nobody's
(`VerdictsHold`). One lemma per kind of step keeps it. `ImplementsMutex` then
maps each step to an entry, an exit or a stutter.

*Local lock.* Here `Quiet` admits failing meta writes and failing removals. The
part of the token is played by the inode: `QuietInv` says of every scope that it
owns the directory it won (`OwnersLock`), that what it has read of another is
old enough or names a life that is over (`LooksHold`), that the identity it is
about to delete is nobody's (`VerdictHolds`), and that only live processes have
calls (`AliveCall`).

*Archive.* `TypeInv` adds to `TypeOK` that the listed snapshots are finite, that
reports and starts lie at real instants, and that only the holder of the lock is
inside the pipeline. Each step is then one of three: it changes no directory
(`Rest`), it moves a run on along its program (`Onward`), or it is one of the
directory operations (`Change`), of which only one process can be capable. With
that, `Real` (a run past a point of the pipeline has what it built there),
`Ordered` (a run that is past its guard is ahead of every snapshot), `Parted` (up to
the first attempt of its transfer a local run's partial shares no inode with a
snapshot: `claimPartial` has discarded what does) and `Made` (what lists was made by
a run) are inductive, each used for the theorems of its own. `OwnedRoot` says that
nobody else creates snapshot-shaped directories; a foreign directory is outside what
the code promises. Neither `SnapshotsStay` nor `ImplementsHistory` needs more: they hold
for both stores and any number of attempts. That a snapshot is never touched at all is
false, see the disagreements below; what is proved is that nothing but a refill touches
one, and that the history of names and whole snapshots is what it should be regardless.
`NoFalseAlarm` rests on counts: a count taken at a name is `Within` the archive if
there is a snapshot that is no older and not more than that many up to the name. The
archive changes by `Growth` only, losing one that is not its newest or gaining a
newest one, and that keeps every such count within (`Lasts`); `AlarmInv` says that
all the counts in reports and all those a process carries are. It needs the clock:
a snapshot from the future is not the newest one that a removal must spare.
TLC refutes it with `"clockBack"`. Nothing is proved of
`CollapseHoldsHistory`, which is false (`archive_verify`).

*Retention.* `HistoryInv` says that the archive lies between what the policy
keeps of all snapshots ever taken and that set. The plan of such a part is the
plan of the whole: since buckets are monotone, the newest snapshot of a bucket in
the part is the newest of that bucket in the whole. A
verified restore is whole by `RestoreInv`: a copy that ended well is whole or its
snapshot is gone, what is gone does not come back (`GoneForGood`: a run's name is newer
than all), and the checksum pass of a snapshot that is gone does not start. So
a pass that has started has a whole copy before it, whatever is removed under it
then.

*Calendar.* These theorems are about every instant and every schedule that
`validateSchedule` admits (`ValidSchedules`, which `Targets` assumes of `Schedule`);
TLC checks them on eight instants and eight schedules. Everything goes back to two
facts. The first of January, written with three quotients, advances by 365 or 366
days (`Leap`, `NewYearsGrow`), so that every day lies in exactly one year, one month
and one day of month (`YearIs`, `MonthIs`, `DayType`) and later days have later dates
(`MonthsGrow`). And a quotient by a divisor that is not a number, such as
`intervalCount`, is where its multiples leave off (`QuotientIs`). Windows then never
fall (`WindowsGrow`), and an anchor lies in its own window (`AnchorInUnit`): for months
this is where the limit of 28 to `dayOfMonth` is needed. So `nextDueAt` is right: in a
fulfilled window nothing is due before the anchor of the next, and in one that is not
fulfilled nothing before its own. A week's bucket is that of its Thursday, a multiple of
seven days from the epoch, and a year holds at most 53 of them. The bucket theorems
discharge `RetentionAssumption` for the code's own tiers, and `WindowsAreWindows` the
assumptions of `Scheduler`, `Archive` and `Mirror` about windows: what is proved of these
is proved for every schedule, months of unequal length included.

*Command.* `IInv` says that an alive child belongs to the attempt in progress
(`OneAttempt`), that attempts are counted (`AttemptsCounted`), that effects, the
commands under way and those orphaned are never more than the attempts that could
have caused them (`EffectsCounted`), and that a good end of a child came after its
effect (`EndIsTrue`). `KeepsContract` follows step by step. `StopFits` counts: `Clocked`
says where the timers stand that somebody counts on, `ReturnsWithin(n)` how many half
seconds the call in progress can still go on after a stop, retries and probes included,
and `Paced` that these and `Longest` (20.5 s, two attempts to release the lock) for every
call left fit into what is left of `Granted`. A tick lowers both sides, and no other step
raises the first but the start of a diagnosis, which raises both: `Granted` is
`TimeoutStop` and `Probes` times 12.5 s (10 s, 2 s to the SIGKILL, half a second for the
pipes) for every call that asked why a key was refused. `PassesFit` asks for `Longest`
per call; the passes of the code have two calls, 41 s of the unit's 45. An alias whose
keys the server refuses may thus outlast the unit's 45 s when two of its probes are slow
in the release; the theorem says by how much, and that nothing else can.
TLC checked `Clocked` and `Paced` before.

*Mirror.* `IInv` says that `low` is a lower bound of every trusted report that is
kept and that there is one whenever `low` is set (`Lowest`), and that a run let
through unforced measured at least half of its `bar` (`Measured`). It assumes
`Parameters`, which `Targets` assumes of its instance of `Mirror`;
`MirrorIsGuarded` carries the theorem over to that instance.

*Scheduler.* `TypeInv` adds to `TypeOK` where each engine stands in its loop.
`FailureShows` needs to know who is about to write what: `FailedIsKept` says that a
failure that was a target's latest is being written by some engine or shows in the
reports, at its start or behind a skip, which survives later insertions and
rotation as long as the reports go back that far. `VainInv` ties the daemon's cache
to what it has found: of a target whose newest snapshot it has met in vain
(`Known`) it remembers that snapshot or nothing (`KnownIsKept`), what it listed is no
older (`LookedOK`), and beyond its due check only a newer window can lead
(`KnownIsGone`). `Alone` says that while no other pass was made the reports are all
of the past and tell what the daemon remembers (`Tells`), insertion and rehydration
included.

*Agent.* `AgentInv` says of each preflight, whatever the other one does: while the
socket leads to the agent it adopted, that agent still has the keys it listed, and
each key it has been through is in the agent or its remotes are given up on
(`Sound`). It holds because agents only gain keys and a socket never leads back to
an agent it has left (`Grows`). An undisturbed process gives up on a key only if
it is `Unreadable` to it: a passphrase is needed and there is no terminal.

*Service.* `ServiceInv` enumerates what a verb can have left to do (`Steps`) and says
that the unit on disk is the one a writing verb derived (`OnDisk`), that systemd
holds that unit unless its daemon-reload is on its way (`IsRead`), that launchd runs
no job it does not hold (`IsHeld`), and what a stop or uninstall has got done by what
it has left (`Halted`). `NoneAssumption` only says that the value that stands for "no
verb" is not a verb.

Model-checked only: liveness
(`LeftLockIsFreed`, `LeftoversSwept`, `Recovers`, `PassEnds`: fairness
is outside what the prover does). `TextIsRead` and `FilesAreMerged` are about functions
that are recursive over data, where induction is out of the prover's reach.

## Where code and comments disagree

Two of these have a run that shows them, `archive_retry` and `archive_verify`; others
of the first groups can be reproduced by changing one run's cfg, as said with them.

Locks and archive:

- `lock.ts:274`: a markerless lock is reclaimed from memory because only
  `unlock --force` or a shell could have replaced it. A release whose rm ran and
  whose reply was lost is another way: the entry left in memory lets this process
  delete a lock another machine has just won and not yet marked.
- `lock.ts:480`: `unlock` removes unconditionally what it inspected before; a
  lock stolen in between is deleted although live. (`remote_lock` or `locks`
  with `"unlockWindow"` in `Faults`: HolderKeepsLock.)
- `lock.ts:235`: daemon and CLI share one record file per archive root; what one
  of them writes or unlinks can be the other's, and a kill then leaves a lock
  only the TTL clears. (`locks` with `RemoteScope = {s1, s2}` and `RemoteProc =
  {daemon, cli}`: LeftLockIsFreed.)
- `lock.ts:522`: a local lock whose own removal failed is not retaken while its
  process lives. (The exception in LocalLock's `Abandoned`.)
- `local-store.ts:168`: a meta without a start time counts as stale when the pid
  lives, while a start time that cannot be read now counts as the same
  (`local-store.ts:224`). (`locks` with `"noStart"`: HolderKeepsLock.)
- `rsync.ts:293`: a retry within one run writes into the partial that the failed
  attempt has filled with hardlinks, which the local `claimPartial` refuses between runs
  because "a snapshot is immutable once promoted" (`local-store.ts:309`). The default
  is five attempts. (`archive_retry`: SnapshotImmutable.)
- `remote-store.ts:452`: the remote `claimPartial` resumes such a partial. (`archive_retry`
  with `Kind = "remote"` and `Attempts = 1`: SnapshotImmutable.)

Pipelines and reports:

- `target-runner.ts:686`: a run that fails its verify pass reports the collapsed
  file count without `contentCollapse`, and becomes the next baseline.
  (`archive_verify`: CollapseHoldsHistory.) A
  store command that fails between the transfer and the check does the same, and a
  second process that starts before the first has written its report has an older
  baseline still. (`archive_verify` with `Verify = FALSE` and `"storeFail"` or two
  processes; with neither, the property holds there.)
- `reports.ts:193`: after a clock that ran ahead is set right, the newest report
  by name lies in the future, and the client's own snapshots count as
  insertions. (`archive` with one process, `"clockBack"`, six instants:
  NoFalseAlarm.)
- `target-runner.ts:741`: `completeCount` is taken before retention deletes, so
  the mark is larger than what "existed when it finished" (`reports.ts:170`).
- A mirror's baseline may come from a run that failed or was aborted, whose
  estimate it is; halving after halving the source can erode without tripping the
  wire, and rotation can evict the last trusted report. LossNeedsForce is stated
  relative to the reports that are left.
- `reports.ts:243`: `lastFailedAt` is "finishedAt of the newest failed report",
  but null when a blocking skip is newer: a restart then forgets the backoff.
  (The exception in BackoffAgrees.)

Engine:

- `backupkit.ts:971`: a second disk-low episode is taken for a repetition of
  the first when the run that ended the first was not the daemon's own; it
  leaves no report and `status` shows no error (against `reports.ts:307`).
- `backupkit.ts:987`: a stop during the preflight of a one-shot `run` has no
  abort controller to reach; the pass then runs to its end. `start` handles the
  same case. (`Started` in `Scheduler`.)
- A stop that aborts the remote gate's probe is recorded as a failed run, not as
  aborted, and counts towards the backoff. (`GateFails`.)
- `engine/types.ts:301` has the next due time include an active backoff. The end
  of the backoff is returned even when it precedes the next window's anchor, where
  the target is not due. (NextDueIsDue is stated without a backoff.)
- The verify pass of a restore accepts exit 24, so that a snapshot pruned while
  it is compared counts as verified. The copy is whole by then (VerifiedIsWhole).
  Without `--verify` a restore whose snapshot is pruned meanwhile may miss files and
  report success: rsync exits 0 when they were gone before it read their directory.
- `backupkit.ts:836`: an alias whose first `ssh -G` fails is cached as having no
  endpoint, and its reach probe passes from then on.
- `remote-store.ts:72` says about 15 s for the worst release; two attempts of 7 s
  with their SIGKILLs and the pause are nearer 20 s. `backupkit.ts:763` says
  `TimeoutStopSec` is 30; the unit has 45, which StopFitsUnit needs.
- `ssh.ts:119` has a stop "bounded by the child's own death". For an alias whose key
  was refused `diagnoseAliasAuth` follows it, with up to 12.5 s for each of its
  probes and without the signal, also in the detached release. (`Granted` in `Command`.)
- `dryRunStats` gives its child the signal and its retry loop none, and the
  newest snapshot of a due check is listed without any (`backupkit.ts:632`): a
  stop waits for them.

Host:

- `lifecycle.ts:296`: on systemd, a stop or uninstall between a crash and the
  automatic restart says "already stopped", and the daemon comes back.
  (HaltsForGood leaves this window, `sawWaiting`, out.)
- A `service start` after an edit of the configuration and a crash leaves the
  daemon under the old sandbox and says it runs already (against
  `lifecycle.ts:192`); a daemon-reload that failed is not repeated; on launchd a
  plist that is rewritten while loaded is not read again by a later kickstart.
  (StartsUnderWritten leaves these out.)
- Two preflights can each remove the other's socket, which leaves an agent with
  keys that nobody can reach, and a process that is ready without them (ReadyIsUsable
  speaks of a process whose agent answers on the socket); the loser of a race for a `.pub` sidecar gives up a
  key that is fine until it is started again.
- On systemd the agent dies with the service's cgroup, where a comment in
  `agent.ts` has it survive.
- `include.ts:85` wants an object at the root of an included file; an array or a
  scalar there is ignored, and with it what was included before. A scalar in a
  nested include ends only what its own includer has merged.

## What is not modelled

- The jail script: a grammar of shell words. The commands it lets through are the
  store's.
- An rsync child that survives the SIGKILL of its parent; the model's crash
  takes the transfer with it.
- Rotation by skips alone: `Scheduler` has the damping of repeated skips, but no run
  is long enough to fill the kept reports with them.
- The reports behind the due time of `status`: NextDueIsDue takes any snapshot that was
  ever made for the one that they name.
- The single removals of a prune, in `RetentionHistory`: there it removes any part of its
  list in one step, what failed or was not reached being left; `Archive` has them one by
  one.
- File contents. A tree is whole or torn, and knows which snapshots it shares
  inodes with; whether a resumed transfer really touches a shared file is a free
  choice.
- Dry runs of snapshot targets (they take no lock and write nothing), disabled
  targets, corrupt report files, two reports in the same second of one target.
- `validateConfig` (but for schedules) and `resolveConfig`: tables of fields over one document,
  without state or order. The lexer below the parser's lexemes.
- The disk guard's arithmetic: its verdict is a free choice of `Archive` and a
  fault of `Scheduler`.
- `check` (independent probes), `status` beyond its due time, `service status` and
  `logs`; argument building for ssh and rsync, the parsing of their output, error
  texts, truncation, formatting and logging.

## Plan

Done: both locks, the archive, retention with restore and calendar, the mirror,
the scheduler, commands, and the host; the proofs above.

Left, in this order:

1. Several targets in one pass, where a shared remote's gate and a stop fall
   between them.
2. The disk guard's arithmetic at its boundaries, and the jail's grammar over the
   store's commands.
