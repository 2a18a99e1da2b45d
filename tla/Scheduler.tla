----------------------------- MODULE Scheduler -----------------------------
(***************************************************************************)
(* When targets run, and what is remembered of it: the tick loop and the   *)
(* BackoffTracker (src/src/engine/internal/scheduler.ts), start, stop, the *)
(* one-shot pass and runOne (src/src/engine/backupkit.ts), and what status *)
(* and a restart derive from the run reports (reports.ts, deriveBackoff).  *)
(*                                                                         *)
(* Two engines share the archives and the reports: the daemon and a        *)
(* command-line `run`.  The snapshot pipeline is one step that takes the   *)
(* destination lock, time, and an outcome (module Archive has its inside). *)
(* An instant is coarse: several ticks and several runs fit into one, and  *)
(* the reports of runs begun in one instant stand as they were written.    *)
(*                                                                         *)
(* Faults names what may happen until the trouble ends (action Calm):      *)
(*   "fail"      a listing, the gate, the rsync probe or a transfer fails  *)
(*   "offline"   the backup server cannot be reached                       *)
(*   "diskLow"   the archive disk fills and is cleared                     *)
(*   "stateDir"  a report cannot be written                                *)
(*   "stop"      an engine is asked to stop (SIGTERM, SIGINT)              *)
(*   "kill"      an engine is killed                                       *)
(***************************************************************************)
EXTENDS Integers, Sequences, FiniteSets

CONSTANTS
    Config,     \* the targets, in config order
    WindowOf,   \* WindowOf[n]: the schedule window of an instant
    AnchorAt,   \* AnchorAt[n]: the anchor of that window
    Base,       \* BACKOFF_BASE_MS
    Cap,        \* BACKOFF_CAP_MS
    Recheck,    \* DISK_LOW_RECHECK_MS
    Kept,       \* REPORTS_KEPT
    MaxNow,     \* bound: the end of the clock
    MaxPass,    \* bound: command-line passes
    MaxTrouble, \* bound: faults
    Faults

ASSUME SchedulerAssumption ==
    /\ Config \in Seq(STRING) /\ Config # <<>>
    /\ Base \in Nat \ {0} /\ Cap \in Nat /\ Base <= Cap
    /\ Recheck \in Nat /\ Kept \in Nat \ {0}
    /\ MaxNow \in Nat \ {0} /\ MaxPass \in Nat /\ MaxTrouble \in Nat

ASSUME WindowAssumption ==
    /\ WindowOf \in [0..MaxNow -> Nat] /\ AnchorAt \in [0..MaxNow -> Int]
    /\ \A a, b \in 0..MaxNow :
           /\ a <= b => WindowOf[a] <= WindowOf[b]
           /\ WindowOf[a] = WindowOf[b] => AnchorAt[a] = AnchorAt[b]

VARIABLES
    newest,  \* newest complete snapshot of each target; 0 when none
    lock,    \* holder of each target's destination lock
    room,    \* the archive disk of each target has room
    reports, \* each target's run reports, oldest first
    engine,  \* each engine's loop: program point and locals
    mem,     \* what the daemon remembers of each target
    now, calm, trouble, passes,
    last,    \* each target's latest attempt: start and outcome (ghost)
    idle     \* newest snapshot when the daemon last recorded a vain run (ghost)

ghosts == <<last, idle>>
vars == <<newest, lock, room, reports, engine, mem, now, calm, trouble, passes, ghosts>>

-----------------------------------------------------------------------------
(***************************************************************************)
(* Values                                                                  *)
(***************************************************************************)
Target == {Config[i] : i \in 1..Len(Config)}
Engine == {"daemon", "cli"}
Instant == 1..MaxNow
None == 0      \* null
Unset == -1    \* no entry in newestCache

\* RunStatus with the reasons that matter; "ok" is success or warning.
Outcomes == {"ok", "failed", "aborted", "window", "disk-low", "lock-held"}

\* TargetRunReport: startedAt orders the reports, failedAt is finishedAt of a
\* failed one.
Reports == [start : Instant, is : Outcomes, failedAt : Instant \cup {None}]
ReportOf(start, o) ==
    [start |-> start, is |-> o, failedAt |-> IF o = "failed" THEN now ELSE None]

Points ==
    {"down", "starting", "visit", "check", "gate", "lock", "run", "record", "sleep"}

\* seen: the clock at the top of the visit; start: the run's start time;
\* low: wasDiskLow; o: the run's outcome.
Engines == [at : Points, pos : 1..Len(Config), force : BOOLEAN, stop : BOOLEAN,
            seen : Instant \cup {None}, start : Instant \cup {None},
            low : BOOLEAN, o : Outcomes]
Down == [at |-> "down", pos |-> 1, force |-> FALSE, stop |-> FALSE,
         seen |-> None, start |-> None, low |-> FALSE, o |-> "ok"]

\* BackoffState, newestCache, diskLowTargets, diskLowCheckedAt, lockHeldSince.
Memories == [failures : Nat, anchor : Instant \cup {None},
             cache : Instant \cup {None, Unset}, low : BOOLEAN,
             lowAt : Instant \cup {None}, blocked : BOOLEAN]
Blank == [failures |-> 0, anchor |-> None, cache |-> Unset,
          low |-> FALSE, lowAt |-> None, blocked |-> FALSE]
Forgotten == [t \in Target |-> Blank]

At(p, point) == engine[p].at = point
This(p) == Config[engine[p].pos]

-----------------------------------------------------------------------------
(***************************************************************************)
(* shared/time.ts, backoff arithmetic, reports                             *)
(***************************************************************************)
\* Windows and anchors of any schedule (module Calendar).
WindowIndex(n) == WindowOf[n]
IsDue(known, n) ==
    /\ known # None => WindowIndex(known) # WindowIndex(n)
    /\ n >= AnchorAt[n]

\* Mutant: no ceiling.
BackoffDelay_NoCap(n) == IF n = 0 THEN 0 ELSE Base * 2^(n - 1)

BackoffDelay(n) ==
    IF n = 0 THEN 0 ELSE IF Base * 2^(n - 1) < Cap THEN Base * 2^(n - 1) ELSE Cap

\* Mutant: only the newest report can be an error.
Derived_NewestOnly(t) ==
    LET rs == reports[t]
        oks == {i \in 1..Len(rs) : rs[i].is = "ok"}
        since == {i \in 1..Len(rs) : \A k \in oks : k < i}
        bad == {i \in since \cap {Len(rs)} : rs[i].is \in {"failed", "lock-held", "disk-low"}}
    IN  [failures |-> Cardinality({i \in since : rs[i].is = "failed"}),
         anchor |-> IF bad = {} THEN None ELSE rs[Len(rs)].failedAt,
         error |-> bad # {}]

\* deriveBackoff over the reports after the newest completed run: the failures,
\* and the newest failure or blocking skip.  Only a failure is an anchor.
Derived(t) ==
    LET rs == reports[t]
        oks == {i \in 1..Len(rs) : rs[i].is = "ok"}
        since == {i \in 1..Len(rs) : \A k \in oks : k < i}
        bad == {i \in since : rs[i].is \in {"failed", "lock-held", "disk-low"}}
        newestBad == CHOOSE i \in bad : \A k \in bad : k <= i
    IN  [failures |-> Cardinality({i \in since : rs[i].is = "failed"}),
         anchor |-> IF bad = {} THEN None ELSE rs[newestBad].failedAt,
         error |-> bad # {}]

\* Where r goes among the reports s: before the first of a run begun later.
Place(s, r) ==
    LET later == {i \in 1..Len(s) : s[i].start > r.start} \cup {Len(s) + 1}
    IN  CHOOSE i \in later : \A k \in later : i <= k
Inserted(s, r) == SubSeq(s, 1, Place(s, r) - 1) \o <<r>> \o SubSeq(s, Place(s, r), Len(s))

\* Mutant: no rotation.
WithReport_NoRotation(t, r) == [reports EXCEPT ![t] = Inserted(@, r)]

\* writeTargetReport: in order of the runs' start times, the newest Kept stay.
WithReport(t, r) ==
    [reports EXCEPT ![t] = SubSeq(Inserted(@, r), IF Len(@) < Kept THEN 1 ELSE 2, Len(@) + 1)]

\* ensureBackoffState and BackoffTracker.rehydrate.
Rehydrated(t) ==
    [Blank EXCEPT !.failures = Derived(t).failures, !.anchor = Derived(t).anchor]

\* BackoffTracker.record.
Noted(m, o) ==
    CASE o = "failed" -> [m EXCEPT !.failures = @ + 1, !.anchor = now]
      [] o = "ok"     -> [m EXCEPT !.failures = 0, !.anchor = None]
      [] OTHER        -> m

\* BackoffTracker.untilFor, against the clock.
BackedOff(m, n) ==
    m.failures # 0 /\ m.anchor # None /\ n < m.anchor + BackoffDelay(m.failures)

-----------------------------------------------------------------------------
Init ==
    /\ newest = [t \in Target |-> None]
    /\ lock = [t \in Target |-> "free"]
    /\ room = [t \in Target |-> TRUE]
    /\ reports = [t \in Target |-> <<>>]
    /\ engine = [p \in Engine |-> Down]
    /\ mem = Forgotten
    /\ now = 1
    /\ calm = FALSE
    /\ trouble = 0
    /\ passes = 0
    /\ last = [t \in Target |-> [start |-> None, is |-> "window"]]
    /\ idle = [t \in Target |-> None]

archives == <<newest, lock, room>>
env == <<now, calm, passes>>

\* A fault of one of these kinds strikes.
Strikes(kinds) ==
    /\ kinds \cap Faults # {}
    /\ ~calm
    /\ trouble < MaxTrouble
    /\ trouble' = trouble + 1

\* A one-shot pass visits each target once, so that only the daemon's memory of
\* a target outlives the visit.
Memory(p, t) == IF p = "daemon" THEN mem[t] ELSE Blank
Remember(p, t, m) == mem' = IF p = "daemon" THEN [mem EXCEPT ![t] = m] ELSE mem

Goto(p, point) == engine' = [engine EXCEPT ![p].at = point]

\* The loop goes on to the next target.  After the last one the daemon sleeps
\* until its next tick and a one-shot pass ends.
AfterTarget(p) ==
    LET e == [Down EXCEPT !.force = engine[p].force, !.stop = engine[p].stop]
    IN  IF engine[p].pos < Len(Config)
        THEN [e EXCEPT !.at = "visit", !.pos = engine[p].pos + 1]
        ELSE IF p = "daemon" THEN [e EXCEPT !.at = "sleep"] ELSE Down
NextTarget(p) == engine' = [engine EXCEPT ![p] = AfterTarget(p)]

-----------------------------------------------------------------------------
(***************************************************************************)
(* start, run, stop and the loops                                          *)
(***************************************************************************)
\* A new process: start() of the daemon, run() of the command line.
Start(p, force) ==
    /\ At(p, "down")
    /\ p = "daemon" => ~force
    /\ p = "cli" => passes < MaxPass
    /\ passes' = IF p = "cli" THEN passes + 1 ELSE passes
    /\ engine' = [engine EXCEPT ![p] = [Down EXCEPT !.at = "starting", !.force = force]]
    /\ UNCHANGED <<archives, reports, mem, now, calm, trouble, ghosts>>

\* Preflight is over.  start() rehydrates every backoff, then honours a stop
\* that came meanwhile; run() makes its abort signal only now, so that an
\* earlier stop has no effect on the pass.
Started(p) ==
    /\ At(p, "starting")
    /\ IF p = "daemon" /\ engine[p].stop
       THEN engine' = [engine EXCEPT ![p] = Down]
       ELSE engine' = [engine EXCEPT ![p].at = "visit", ![p].stop = FALSE]
    /\ mem' = IF p = "daemon" /\ ~engine[p].stop
              THEN [t \in Target |-> Rehydrated(t)] ELSE mem
    /\ UNCHANGED <<archives, reports, env, trouble, ghosts>>

\* The top of the loop: a stop ends it, a backoff passes over the target.
\* --force looks at neither backoff nor window.
Visit(p) ==
    LET e == engine[p]
        m == IF p = "daemon" THEN mem[This(p)] ELSE Rehydrated(This(p))
    IN  /\ At(p, "visit")
        /\ mem' = IF p = "daemon" /\ e.stop THEN Forgotten ELSE mem
        /\ CASE e.stop -> engine' = [engine EXCEPT ![p] = Down]
             [] ~e.stop /\ e.force -> Goto(p, "gate")
             [] ~e.stop /\ ~e.force /\ BackedOff(m, now) -> NextTarget(p)
             [] OTHER -> engine' = [engine EXCEPT ![p].at = "check", ![p].seen = now]
        /\ UNCHANGED <<archives, reports, env, trouble, ghosts>>

\* The reach probe finds no link, no address or no route to the backup server.
NoPath == "offline" \in Faults /\ ~calm

\* The daemon passes over a target it cannot reach: no report, no backoff.
Unreachable(p) ==
    /\ At(p, "check")
    /\ p = "daemon"
    /\ NoPath
    /\ NextTarget(p)
    /\ UNCHANGED <<archives, reports, mem, env, trouble, ghosts>>

\* The due check, from the cache or a listing.
DueCheck(p) ==
    LET t == This(p)
        m == Memory(p, t)
        known == IF m.cache = Unset THEN newest[t] ELSE m.cache
    IN  /\ At(p, "check")
        /\ Remember(p, t, [m EXCEPT !.cache = known])
        /\ IF IsDue(known, engine[p].seen)
           THEN engine' = [engine EXCEPT ![p].at = "gate", ![p].seen = None]
           ELSE NextTarget(p)
        /\ UNCHANGED <<archives, reports, env, trouble, ghosts>>

\* Mutant: the backoff is noted before the report is written.
RecordFailed_NotesFirst(p, t) ==
    /\ Remember(p, t, Noted(Memory(p, t), "failed"))
    /\ \/ /\ reports' = WithReport(t, ReportOf(now, "failed"))
          /\ last' = [last EXCEPT ![t] = [start |-> now, is |-> "failed"]]
       \/ /\ "stateDir" \in Faults /\ ~calm
          /\ last' = [last EXCEPT ![t] = [start |-> now, is |-> "unrecorded"]]
          /\ UNCHANGED reports

\* recordOutcome "failed": the report, then the backoff; neither when the
\* report cannot be written.
RecordFailed(p, t) ==
    \/ /\ reports' = WithReport(t, ReportOf(now, "failed"))
       /\ Remember(p, t, Noted(Memory(p, t), "failed"))
       /\ last' = [last EXCEPT ![t] = [start |-> now, is |-> "failed"]]
    \/ /\ "stateDir" \in Faults /\ ~calm
       /\ last' = [last EXCEPT ![t] = [start |-> now, is |-> "unrecorded"]]
       /\ UNCHANGED <<reports, mem>>

\* The listing of the due check fails.
DueCheckFails(p) ==
    /\ At(p, "check")
    /\ Memory(p, This(p)).cache = Unset
    /\ Strikes({"fail"})
    /\ RecordFailed(p, This(p))
    /\ NextTarget(p)
    /\ UNCHANGED <<archives, env, idle>>

-----------------------------------------------------------------------------
(***************************************************************************)
(* runOne                                                                  *)
(***************************************************************************)
\* The attempt is over; its report is still to be written.
Ends(p, o, start) ==
    /\ engine' = [engine EXCEPT ![p].at = "record", ![p].o = o, ![p].start = start]
    /\ last' = [last EXCEPT ![This(p)] = [start |-> start, is |-> o]]
    /\ UNCHANGED idle

\* DISK_LOW_RECHECK_MS has not passed since the guard last refused.
Throttled(p) ==
    LET m == Memory(p, This(p))
    IN  ~engine[p].force /\ m.lowAt # None /\ now - m.lowAt < Recheck

\* The disk-low damping: a skip that leaves no trace.
Damped(p) ==
    /\ At(p, "gate")
    /\ Throttled(p)
    /\ NextTarget(p)
    /\ UNCHANGED <<archives, reports, mem, env, trouble, ghosts>>

\* The remote gate opens; the run takes its start time, and ends at once when a
\* stop is already in.
Gate(p) ==
    /\ At(p, "gate")
    /\ ~Throttled(p)
    /\ IF engine[p].stop THEN Ends(p, "aborted", now)
       ELSE /\ engine' = [engine EXCEPT ![p].at = "lock", ![p].start = now,
                                        ![p].low = Memory(p, This(p)).low]
            /\ UNCHANGED ghosts
    /\ UNCHANGED <<archives, reports, mem, env, trouble>>

\* The gate's probe fails, also when it is a stop that aborts it.
GateFails(p) ==
    /\ At(p, "gate")
    /\ ~Throttled(p)
    /\ Strikes({"fail"}) \/ (engine[p].stop /\ UNCHANGED trouble)
    /\ Ends(p, "failed", now)
    /\ UNCHANGED <<archives, reports, mem, env>>

\* The probe of the local rsync fails, or the ssh command cannot be built: runOne
\* throws before it has a lock.  The daemon's loop records a failed run; a
\* one-shot pass ends with the error and leaves no report.
RunThrows(p) ==
    /\ At(p, "gate")
    /\ ~Throttled(p)
    /\ Strikes({"fail"})
    /\ IF p = "daemon" THEN RecordFailed(p, This(p)) /\ NextTarget(p)
       ELSE /\ last' = [last EXCEPT ![This(p)] = [start |-> now, is |-> "unrecorded"]]
            /\ engine' = [engine EXCEPT ![p] = Down]
            /\ UNCHANGED <<reports, mem>>
    /\ UNCHANGED <<archives, env, idle>>

\* The destination lock.
Lock(p) ==
    LET t == This(p)
    IN  /\ At(p, "lock")
        /\ IF lock[t] # "free" THEN Ends(p, "lock-held", now) /\ UNCHANGED lock
           ELSE /\ lock' = [lock EXCEPT ![t] = p]
                /\ Goto(p, "run")
                /\ UNCHANGED ghosts
        /\ UNCHANGED <<newest, room, reports, mem, env, trouble>>

\* The pipeline, in the order of its guards.  An error is a failure, or an
\* abort when a stop is in; either may come before or after the disk guard.
Pipeline(p) ==
    LET e == engine[p]
        t == This(p)
        covered == /\ ~e.force
                   /\ newest[t] # None /\ WindowIndex(newest[t]) = WindowIndex(e.start)
        skewed == e.start < newest[t]
        clears == ~covered /\ ~skewed /\ room[t]
        ends(o) == Ends(p, o, e.start) /\ lock' = [lock EXCEPT ![t] = "free"]
        low(b) == Remember(p, t, [Memory(p, t) EXCEPT !.low = b])
    IN  /\ At(p, "run")
        /\ \/ /\ IF e.stop THEN UNCHANGED trouble ELSE Strikes({"fail"})
              /\ ends(IF e.stop THEN "aborted" ELSE "failed")
              /\ UNCHANGED mem \/ (clears /\ low(FALSE))
              /\ UNCHANGED newest
           \/ covered /\ ends("window") /\ UNCHANGED <<newest, mem, trouble>>
           \/ ~covered /\ skewed /\ ends("failed") /\ UNCHANGED <<newest, mem, trouble>>
           \/ /\ ~covered /\ ~skewed /\ ~room[t]
              /\ ends("disk-low") /\ low(TRUE)
              /\ UNCHANGED <<newest, trouble>>
           \/ /\ clears
              /\ ends("ok") /\ low(FALSE)
              /\ newest' = [newest EXCEPT ![t] = e.start]
              /\ UNCHANGED trouble
        /\ UNCHANGED <<room, reports, env>>

\* What the engine remembers after an outcome, before the report is written.
Remembered(m, o) ==
    IF o = "lock-held" THEN [m EXCEPT !.blocked = TRUE]
    ELSE [m EXCEPT !.blocked = FALSE, !.lowAt = IF o = "disk-low" THEN now ELSE None]

\* One report per lock-held and per disk-low episode.
Repeated(p) ==
    \/ engine[p].o = "lock-held" /\ Memory(p, This(p)).blocked
    \/ engine[p].o = "disk-low" /\ engine[p].low

\* Mutant: a window skip leaves the cache as it is.
Cached_KeepsStale(m, o, start) == IF o = "ok" THEN [m EXCEPT !.cache = start] ELSE m

\* The scheduler's cache after a run begun at start.
Cached(m, o, start) ==
    CASE o = "ok"     -> [m EXCEPT !.cache = start]
      [] o = "window" -> [m EXCEPT !.cache = Unset]
      [] OTHER        -> m

\* The report, the backoff and the cache.
Record(p) ==
    LET e == engine[p]
        t == This(p)
        m == Remembered(Memory(p, t), e.o)
    IN  /\ At(p, "record")
        /\ IF Repeated(p)
           THEN reports' = reports /\ Remember(p, t, Cached(m, e.o, e.start))
           ELSE /\ reports' = WithReport(t, ReportOf(e.start, e.o))
                /\ Remember(p, t, Cached(Noted(m, e.o), e.o, e.start))
        /\ idle' = IF p = "daemon" /\ e.o = "window"
                   THEN [idle EXCEPT ![t] = newest[t]] ELSE idle
        /\ NextTarget(p)
        /\ UNCHANGED <<archives, env, trouble, last>>

\* The report cannot be written.  The daemon records a failed run instead, if
\* it can; a one-shot pass ends with the error.
RecordFails(p) ==
    LET t == This(p)
        m == Remembered(Memory(p, t), engine[p].o)
    IN  /\ At(p, "record")
        /\ ~Repeated(p)
        /\ Strikes({"stateDir"})
        /\ \/ /\ p = "daemon"
              /\ reports' = WithReport(t, ReportOf(now, "failed"))
              /\ Remember(p, t, Noted(m, "failed"))
              /\ last' = [last EXCEPT ![t] = [start |-> now, is |-> "failed"]]
           \/ /\ Remember(p, t, m)
              /\ last' = [last EXCEPT ![t].is = "unrecorded"]
              /\ UNCHANGED reports
        /\ IF p = "daemon" THEN NextTarget(p)
           ELSE engine' = [engine EXCEPT ![p] = Down]
        /\ UNCHANGED <<archives, env, idle>>

-----------------------------------------------------------------------------
(***************************************************************************)
(* Time and the environment                                                *)
(***************************************************************************)
\* The 30 s timer, or the stop that wakes the sleeping loop.
Wake ==
    /\ At("daemon", "sleep")
    /\ engine' = [engine EXCEPT !["daemon"] =
                     IF @.stop THEN Down ELSE [@ EXCEPT !.at = "visit", !.pos = 1]]
    /\ mem' = IF engine["daemon"].stop THEN Forgotten ELSE mem
    /\ UNCHANGED <<archives, reports, env, trouble, ghosts>>

Stop(p) ==
    /\ ~At(p, "down")
    /\ ~engine[p].stop
    /\ Strikes({"stop"})
    /\ engine' = [engine EXCEPT ![p].stop = TRUE]
    /\ UNCHANGED <<archives, reports, mem, env, ghosts>>

\* SIGKILL or a power cut.  The next run takes over the lock of a dead holder
\* (module RemoteLock has when), which is as good as a free one.
Kill(p) ==
    /\ ~At(p, "down")
    /\ Strikes({"kill"})
    /\ engine' = [engine EXCEPT ![p] = Down]
    /\ lock' = [t \in Target |-> IF lock[t] = p THEN "free" ELSE lock[t]]
    /\ last' = IF At(p, "record") THEN [last EXCEPT ![This(p)].is = "unrecorded"] ELSE last
    /\ mem' = IF p = "daemon" THEN Forgotten ELSE mem
    /\ UNCHANGED <<newest, room, reports, env, idle>>

Disk(t) ==
    /\ IF room[t] THEN Strikes({"diskLow"}) ELSE UNCHANGED trouble
    /\ room' = [room EXCEPT ![t] = ~@]
    /\ UNCHANGED <<newest, lock, reports, engine, mem, env, ghosts>>

\* Visits and the writing of reports take no time; probes, listings, locks,
\* transfers and the loop's sleep do.
Tick ==
    /\ now < MaxNow
    /\ \A p \in Engine : ~At(p, "visit") /\ ~At(p, "record")
    /\ now' = now + 1
    /\ UNCHANGED <<archives, reports, engine, mem, calm, trouble, passes, ghosts>>

\* The trouble ends: the disks have room, and nothing fails any more.  It ends
\* while the clock still has room for the longest delay.
Calm ==
    /\ ~calm
    /\ now + Cap <= MaxNow /\ now + Recheck <= MaxNow
    /\ calm' = TRUE
    /\ room' = [t \in Target |-> TRUE]
    /\ UNCHANGED <<newest, lock, reports, engine, mem, now, trouble, passes, ghosts>>

Step(p) ==
    \/ Started(p) \/ Visit(p)
    \/ Unreachable(p) \/ DueCheck(p) \/ DueCheckFails(p)
    \/ Damped(p) \/ Gate(p) \/ GateFails(p) \/ RunThrows(p) \/ Lock(p)
    \/ Pipeline(p) \/ Record(p) \/ RecordFails(p)

Next ==
    \/ \E p \in Engine : \/ Step(p)
                         \/ \E force \in BOOLEAN : Start(p, force)
                         \/ Stop(p) \/ Kill(p)
    \/ \E t \in Target : Disk(t)
    \/ Wake \/ Tick \/ Calm

Spec == Init /\ [][Next]_vars

\* The loop goes on, the timer fires, the service manager restarts the daemon,
\* and the clock moves.
FairSpec ==
    /\ Spec
    /\ \A p \in Engine : WF_vars(Step(p))
    /\ WF_vars(Wake)
    /\ WF_vars(Start("daemon", FALSE))
    /\ SF_vars(Tick)

-----------------------------------------------------------------------------
(***************************************************************************)
(* Properties                                                              *)
(***************************************************************************)
\* Type correctness; at most Kept reports of a target stay (writeTargetReport).
TypeOK ==
    /\ newest \in [Target -> Instant \cup {None}]
    /\ lock \in [Target -> Engine \cup {"free"}]
    /\ room \in [Target -> BOOLEAN]
    /\ reports \in [Target -> Seq(Reports)]
    /\ \A t \in Target : Len(reports[t]) <= Kept
    /\ engine \in [Engine -> Engines]
    /\ mem \in [Target -> Memories]
    /\ now \in Instant
    /\ calm \in BOOLEAN
    /\ trouble \in 0..MaxTrouble
    /\ passes \in 0..MaxPass
    /\ last \in [Target -> [start : Instant \cup {None}, is : Outcomes \cup {"unrecorded"}]]
    /\ idle \in [Target -> Instant \cup {None}]

Recording(t) == \E p \in Engine : At(p, "record") /\ This(p) = t

\* The reports of t go back beyond a moment: none was rotated away yet, or one
\* of an earlier run is still there.
GoBack(t, start) ==
    \/ Len(reports[t]) < Kept
    \/ \E i \in 1..Len(reports[t]) : reports[t][i].start < start

\* The latest attempt at t, once it is on record, ended in o, and every completed
\* run began at an earlier instant.
Latest(t, o) ==
    /\ last[t].is = o
    /\ ~Recording(t)
    /\ \A i \in 1..Len(reports[t]) :
          reports[t][i].is = "ok" => reports[t][i].start < last[t].start

\* A target whose latest attempt failed shows an error in `status`, whoever
\* attempted it and whatever was skipped or written late around it: nothing
\* fails behind a report of success.  Only the reports of as many runs begun
\* since as are kept could hide it.
FailureShows ==
    \A t \in Target : Latest(t, "failed") /\ GoBack(t, last[t].start) => Derived(t).error

\* "The two must agree, and the report is the record" (recordOutcome): what a
\* lone daemon remembers of a target's failures is what a restarted one would
\* read, so that no crash, stop or lost report shortens or stretches the
\* backoff.  A newer blocking skip takes the place of the anchor, and Kept
\* reports may hide older ones.
BackoffAgrees ==
    \A t \in Target :
        LET m == mem[t]
        IN  /\ passes = 0 /\ Len(reports[t]) < Kept
            /\ engine["daemon"].at \notin {"down", "starting", "record"}
            => /\ m.failures = Derived(t).failures
               /\ m.anchor = Derived(t).anchor
                    \/ (Derived(t).anchor = None /\ Derived(t).error)

\* The daemon takes the lock in vain at most once for each snapshot that
\* somebody else made: after the first skip on record it knows of it.
OneVainRun ==
    [][\A t \in Target :
          /\ At("daemon", "run") /\ engine'["daemon"].at = "record"
          /\ This("daemon") = t /\ engine'["daemon"].o = "window"
          => idle[t] # newest[t]]_vars

\* "Backoff can delay a target but can NEVER stop it" (scheduler.ts), nor can the
\* disk-low throttle or a lost report: once the trouble is over the window at
\* the end of the clock gets its snapshot.  A stop that was still pending may
\* fail one more run; then the clock must have room for its backoff too.
Recovers ==
    \A t \in Target :
        <>[](calm /\ mem[t].anchor + Cap <= MaxNow)
            => <>(newest[t] # None /\ WindowIndex(newest[t]) = WindowIndex(MaxNow))
=============================================================================
