-------------------------- MODULE RemoteLockProofs --------------------------
(***************************************************************************)
(* Proofs about RemoteLock, for any number of scopes, processes, machines  *)
(* and state directories and for every TTL.                                *)
(***************************************************************************)
EXTENDS RemoteLock, FiniteSetTheorems, TLAPS

-----------------------------------------------------------------------------
(***************************************************************************)
(* Types                                                                   *)
(***************************************************************************)
LEMMA NoCallType == NoCall \in Calls
  BY DEF NoCall, Calls, Points, Ops, NotSeen, Inspections, NoToken, Unread

LEMMA NoRecordType == NoRecord \in Records
  BY ConstantsAssumption DEF NoRecord, Records

LEMMA InitType == Init => TypeOK
  <1> SUFFICES ASSUME Init PROVE TypeOK
    OBVIOUS
  <1>1. lock \in LockDirs
    <2>1. \A m \in Leftover : m \in SUBSET Nat
      BY LeftoverAssumption
    <2>2. CASE lock = NoLock
      BY <2>2 DEF NoLock, LockDirs
    <2>3. CASE \E m \in Leftover : lock = [there |-> TRUE, by |-> Nobody, markers |-> m]
      BY <2>1, <2>3 DEF LockDirs
    <2> QED
      BY <2>2, <2>3 DEF Init
  <1>2. call \in [Scope -> Calls]
    BY NoCallType DEF Init
  <1>3. mem \in [Proc -> Entries]
    BY DEF Init, NoEntry, Entries
  <1>4. disk \in [Dir -> Records]
    BY NoRecordType DEF Init
  <1>5. now \in Nat /\ now <= MaxNow
    BY ConstantsAssumption DEF Init
  <1> QED
    BY <1>1, <1>2, <1>3, <1>4, <1>5 DEF Init, TypeOK

\* The four ways a step changes a call keep its type.
LEMMA CallTypes ==
  ASSUME TypeOK, NEW s \in Scope
  PROVE  /\ \A point \in Points : Goto(s, point) => call' \in [Scope -> Calls]
         /\ Return(s) => call' \in [Scope -> Calls]
         /\ \A c \in Calls : call' = [call EXCEPT ![s] = c] => call' \in [Scope -> Calls]
         /\ \A point \in Points, i \in Inspections :
               call' = [call EXCEPT ![s].at = point, ![s].seen = i]
                 => call' \in [Scope -> Calls]
  BY NoCallType DEF TypeOK, Goto, Return, Calls

\* A removal, whatever becomes of it, leaves the server in a typed state.
LEMMA ServerTypes ==
  ASSUME TypeOK, NEW s \in Scope, RemoveSucceeds(s) \/ RemoveFails(s)
  PROVE  lock' \in LockDirs /\ late' \in {0, 1} /\ robbed' \in BOOLEAN
  <1>1. NoLock \in LockDirs
    BY DEF NoLock, LockDirs
  <1>2. CASE RemoveSucceeds(s)
    BY <1>1, <1>2 DEF RemoveSucceeds, TypeOK
  <1>3. CASE RemoveFails(s)
    BY <1>1, <1>3 DEF RemoveFails, RemoveSucceeds, server, TypeOK
  <1> QED
    BY <1>2, <1>3

\* One lemma per kind of step: each keeps every variable's type.
LEMMA WorkType ==
  ASSUME TypeOK, NEW s \in Scope, Work(s)
  PROVE  TypeOK'
  <1> USE ConstantsAssumption
  <1> DEFINE p == ProcOf[s]
  <1>0. p \in Proc /\ DirOf[p] \in Dir
    OBVIOUS
  <1>1. CASE TryAcquire(s)
    <2>1. lock' \in LockDirs
      BY <1>1 DEF TryAcquire, LockDirs
    <2>2. call' \in [Scope -> Calls]
      <3>1. call \in [Scope -> Calls] /\ now \in Nat
        BY DEF TypeOK
      <3>2. [call[s] EXCEPT !.at = "journal", !.tok = now] \in Calls
        <4>1. call[s] \in Calls
          BY <3>1
        <4>2. \A c \in Calls : [c EXCEPT !.at = "journal"] \in Calls
          BY DEF Calls, Points
        <4>3. \A c \in Calls : [c EXCEPT !.tok = now] \in Calls
          BY <3>1 DEF Calls
        <4> QED
          BY <4>1, <4>2, <4>3
      <3>3. call' = [call EXCEPT ![s] =
                        [call[s] EXCEPT !.at = "journal", !.tok = now]]
        BY <1>1 DEF TryAcquire
      <3> QED
        BY <3>1, <3>2, <3>3
    <2>3. mem' \in [Proc -> Entries]
      <3>1. [there |-> TRUE, marker |-> now, live |-> TRUE] \in Entries
        BY DEF TypeOK, Entries
      <3>2. mem \in [Proc -> Entries]
        BY DEF TypeOK
      <3>3. mem' = [mem EXCEPT ![p] =
                       [there |-> TRUE, marker |-> now, live |-> TRUE]]
        BY <1>1 DEF TryAcquire
      <3> HIDE DEF p
      <3> QED
        BY <1>0, <3>1, <3>2, <3>3
    <2> QED
      BY <1>1, <2>1, <2>2, <2>3 DEF TryAcquire, TypeOK, procs
  <1>2. CASE TryAcquireRefused(s)
    BY <1>2, CallTypes DEF TryAcquireRefused, TypeOK, Points, server, clock, journal, procs
  <1>3. CASE TryAcquireLost(s)
    <2>1. lock' \in LockDirs
      <3>1. [there |-> TRUE, by |-> Nobody, markers |-> {}] \in LockDirs
        BY DEF LockDirs
      <3> QED
        BY <1>3, <3>1 DEF TryAcquireLost, TypeOK
    <2> QED
      BY <1>3, <2>1, CallTypes DEF TryAcquireLost, TypeOK, clock, journal, procs
  <1>4. CASE JournalHeld(s)
    <2>1. [there |-> TRUE, marker |-> call[s].tok, proc |-> p, life |-> life[p]]
             \in Records
      BY <1>0 DEF TypeOK, Records, Calls
    <2>2. disk' \in [Dir -> Records]
      BY <1>0, <1>4, <2>1 DEF JournalHeld, TypeOK
    <2> QED
      BY <1>4, <2>2, CallTypes DEF JournalHeld, TypeOK, Points, server, clock, procs
  <1>5. CASE WriteMeta(s)
    <2>1. Marked(s) \in LockDirs
      BY DEF Marked, TypeOK, LockDirs, Calls
    <2>2. lock' \in LockDirs
      BY <1>5, <2>1 DEF WriteMeta, TypeOK
    <2>3. call' \in [Scope -> Calls]
      BY <1>5, CallTypes DEF WriteMeta, Points
    <2> QED
      BY <1>5, <2>2, <2>3 DEF WriteMeta, TypeOK, clock, journal, procs
  <1>6. CASE Leave(s)
    BY <1>6, CallTypes DEF Leave, TypeOK, Points, server, clock, journal, procs
  <1>7. CASE Release(s)
    <2>1. call' \in [Scope -> Calls]
      BY <1>7, CallTypes DEF Release, Points
    <2>2. mem' \in [Proc -> Entries]
      <3>1. mem \in [Proc -> Entries]
        BY DEF TypeOK
      <3>2. CASE mem' = mem
        BY <3>1, <3>2
      <3>3. CASE mem' = [mem EXCEPT ![p].live = FALSE]
        <4>1. [mem[p] EXCEPT !.live = FALSE] \in Entries
          BY <1>0, <3>1 DEF Entries
        <4>2. mem' = [mem EXCEPT ![p] = [mem[p] EXCEPT !.live = FALSE]]
          BY <3>3
        <4> HIDE DEF p
        <4> QED
          BY <1>0, <3>1, <4>1, <4>2
      <3> QED
        BY <1>7, <3>2, <3>3 DEF Release, Orphaned
    <2> QED
      BY <1>7, <2>1, <2>2, ServerTypes DEF Release, TypeOK, clock, procs
  <1>8. CASE Released(s)
    <2>1. mem' \in [Proc -> Entries]
      BY <1>0, <1>8 DEF Released, TypeOK, Entries, NoEntry
    <2>2. disk' \in [Dir -> Records]
      BY <1>0, <1>8, NoRecordType DEF Released, TypeOK
    <2> QED
      BY <1>8, <2>1, <2>2, CallTypes DEF Released, TypeOK, server, clock, procs
  <1>9. CASE Inspect(s)
    <2>1. call' \in [Scope -> Calls]
      <3>1. CASE Return(s)
        BY <3>1, CallTypes
      <3>2. ASSUME NEW t \in Listings, NEW point \in {"judge", "uremove"},
                   call' = [call EXCEPT ![s].at = point,
                      ![s].seen = [tok |-> t, stale |-> t \in Nat /\ Aged(t)]]
            PROVE  call' \in [Scope -> Calls]
        <4>1. t \in Nat \cup {NoToken, Unread}
          BY DEF Listings, TypeOK, LockDirs
        <4>2. [tok |-> t, stale |-> t \in Nat /\ Aged(t)] \in Inspections
          BY <4>1 DEF Inspections
        <4> QED
          BY <3>2, <4>2, CallTypes DEF Points
      <3>3. CASE \E t \in Listings, point \in {"judge", "uremove"} :
                   call' = [call EXCEPT ![s].at = point,
                      ![s].seen = [tok |-> t, stale |-> t \in Nat /\ Aged(t)]]
        BY <3>2, <3>3
      <3> QED
        BY <1>9, <3>1, <3>3, Zenon DEF Inspect
    <2> QED
      BY <1>9, <2>1 DEF Inspect, TypeOK, server, clock, journal, procs
  <1>10. CASE Judge(s)
    <2>1. call' \in [Scope -> Calls]
      BY <1>10, CallTypes DEF Judge, Points
    <2> QED
      BY <1>10, <2>1 DEF Judge, TypeOK, server, clock, journal, procs
  <1>11. CASE RemoveIfUnchanged(s)
    <2>1. call' \in [Scope -> Calls]
      BY <1>11, CallTypes DEF RemoveIfUnchanged, Points
    <2> QED
      BY <1>11, <2>1 DEF RemoveIfUnchanged, TypeOK, server, clock, journal, procs
  <1>12. CASE StealRemove(s)
    <2>1. [NoCall EXCEPT !.at = "mkdir", !.attempt = 2] \in Calls
      BY NoCallType DEF Calls, Points
    <2>2. call' \in [Scope -> Calls]
      BY <1>12, <2>1, CallTypes DEF StealRemove
    <2> QED
      BY <1>12, <2>2, ServerTypes DEF StealRemove, TypeOK, clock, journal, procs
  <1>13. CASE UnlockRemove(s)
    <2>1. call' \in [Scope -> Calls]
      BY <1>13, CallTypes DEF UnlockRemove, Points
    <2> QED
      BY <1>13, <2>1, ServerTypes DEF UnlockRemove, TypeOK, clock, journal, procs
  <1> QED
    BY <1>1, <1>2, <1>3, <1>4, <1>5, <1>6, <1>7, <1>8, <1>9, <1>10, <1>11,
       <1>12, <1>13 DEF Work

LEMMA TypeStep == TypeOK /\ [Next]_vars => TypeOK'
  <1> SUFFICES ASSUME TypeOK, [Next]_vars PROVE TypeOK'
    OBVIOUS
  <1> USE ConstantsAssumption
  <1>1. ASSUME NEW s \in Scope, NEW o \in Ops, Begin(s, o) PROVE TypeOK'
    <2>1. [NoCall EXCEPT !.at = "mkdir", !.op = o] \in Calls
      BY NoCallType DEF Calls, Points
    <2>2. call' \in [Scope -> Calls]
      BY <1>1, <2>1, CallTypes DEF Begin
    <2> QED
      BY <1>1, <2>2 DEF Begin, TypeOK, server, clock, journal, procs
  <1>2. ASSUME NEW p \in Proc, Crash(p) PROVE TypeOK'
    <2>1. call' \in [Scope -> Calls]
      BY <1>2, NoCallType DEF Crash, TypeOK
    <2>2. mem' \in [Proc -> Entries]
      BY <1>2 DEF Crash, TypeOK, Entries, NoEntry
    <2> QED
      BY <1>2, <2>1, <2>2 DEF Crash, TypeOK, server, clock
  <1>3. ASSUME NEW p \in Proc, Restart(p) PROVE TypeOK'
    BY <1>3 DEF Restart, TypeOK, server, clock, journal
  <1>4. CASE Tick
    BY <1>4 DEF Tick, TypeOK, server, journal, procs
  <1>5. CASE LateRemove
    BY <1>5 DEF LateRemove, TypeOK, NoLock, LockDirs, clock, journal, procs
  <1>6. CASE UNCHANGED vars
    BY <1>6 DEF vars, TypeOK
  <1> QED
    BY <1>1, <1>2, <1>3, <1>4, <1>5, <1>6, WorkType DEF Next

\* Every reachable state of the lock protocol, under every fault, is typed.
THEOREM TypeCorrect == Spec => []TypeOK
  BY InitType, TypeStep, PTL DEF Spec

-----------------------------------------------------------------------------
(***************************************************************************)
(* Under every fault: exclusion is only lost through a robbery             *)
(***************************************************************************)
\* A scope's step leaves the calls of the other scopes alone.
LEMMA OthersUntouched ==
  ASSUME TypeOK, NEW s \in Scope, Work(s) \/ \E o \in Ops : Begin(s, o)
  PROVE  /\ call' \in [Scope -> Calls]
         /\ \A r \in Scope \ {s} : call'[r] = call[r]
  <1>1. call' \in [Scope -> Calls]
    <2>1. CASE Work(s)
      BY <2>1, WorkType DEF TypeOK
    <2>2. ASSUME NEW o \in Ops, Begin(s, o) PROVE call' \in [Scope -> Calls]
      BY <2>2, NoCallType DEF Begin, TypeOK, Calls, Points
    <2> QED
      BY <2>1, <2>2
  <1>2. \/ \E c : call' = [call EXCEPT ![s] = c]
        \/ \E point : call' = [call EXCEPT ![s].at = point]
        \/ \E point, t : call' = [call EXCEPT ![s].at = point, ![s].tok = t]
        \/ \E point, i : call' = [call EXCEPT ![s].at = point, ![s].seen = i]
    <2>1. CASE \E o \in Ops : Begin(s, o)
      BY <2>1 DEF Begin
    <2>2. CASE TryAcquire(s)
      BY <2>2 DEF TryAcquire
    <2>3. CASE Inspect(s)
      BY <2>3, Zenon DEF Inspect, Return
    <2>4. CASE StealRemove(s)
      BY <2>4 DEF StealRemove, Return
    <2>5. CASE Work(s) /\ ~TryAcquire(s) /\ ~Inspect(s) /\ ~StealRemove(s)
      BY <2>5 DEF Work, TryAcquireRefused, TryAcquireLost, JournalHeld, WriteMeta,
           Leave, Release, Released, Judge, RemoveIfUnchanged, UnlockRemove,
           Goto, Return
    <2> QED
      BY <2>1, <2>2, <2>3, <2>4, <2>5
  <1> QED
    BY <1>1, <1>2 DEF TypeOK

\* Where a removal leaves the scope that sent it.
LEMMA RemovalMoves ==
  ASSUME TypeOK, NEW s \in Scope, Release(s) \/ StealRemove(s) \/ UnlockRemove(s)
  PROVE  call'[s].at \in {"idle", "forget", "mkdir"}
  <1>1. CASE Release(s) \/ UnlockRemove(s)
    BY <1>1 DEF Release, UnlockRemove, Goto, Return, NoCall, TypeOK, Calls
  <1>2. CASE StealRemove(s) /\ Return(s)
    BY <1>2 DEF Return, NoCall, TypeOK
  <1>3. CASE call' = [call EXCEPT ![s] = [NoCall EXCEPT !.at = "mkdir", !.attempt = 2]]
    <2>1. call'[s] = [NoCall EXCEPT !.at = "mkdir", !.attempt = 2]
      BY <1>3 DEF TypeOK
    <2> QED
      BY <2>1 DEF NoCall
  <1> QED
    BY <1>1, <1>2, <1>3 DEF StealRemove

\* A scope becomes the owner only by winning the mkdir.
LEMMA OwningOnlyByMkdir ==
  ASSUME TypeOK, NEW s \in Scope, Work(s) \/ \E o \in Ops : Begin(s, o),
         ~TryAcquire(s), Owning(s)'
  PROVE  Owning(s)
  <1>1. CASE JournalHeld(s) \/ WriteMeta(s) \/ Leave(s) \/ Release(s)
    BY <1>1 DEF JournalHeld, WriteMeta, Leave, Release, At, Owning
  <1>2. CASE call'[s].at \in {"idle", "mkdir", "inspect", "judge", "steal",
                              "stealrm", "uremove", "forget"}
    BY <1>2 DEF Owning
  <1> USE DEF TypeOK, Goto, Return, NoCall, Calls
  <1>3. CASE \E o \in Ops : Begin(s, o)
    BY <1>2, <1>3 DEF Begin
  <1>4. CASE TryAcquireRefused(s) \/ TryAcquireLost(s) \/ Released(s)
    BY <1>2, <1>4 DEF TryAcquireRefused, TryAcquireLost, Released
  <1>5. CASE Inspect(s)
    BY <1>2, <1>5 DEF Inspect
  <1>6. CASE Judge(s) \/ RemoveIfUnchanged(s)
    BY <1>2, <1>6 DEF Judge, RemoveIfUnchanged
  <1>7. CASE StealRemove(s) \/ UnlockRemove(s)
    BY <1>2, <1>7, RemovalMoves
  <1> QED
    BY <1>1, <1>3, <1>4, <1>5, <1>6, <1>7 DEF Work

\* What the ghost variable robbed protects.
KeptUnlessRobbed == robbed = FALSE => HolderKeepsLock

LEMMA KeptStep == TypeOK /\ KeptUnlessRobbed /\ [Next]_vars => KeptUnlessRobbed'
  <1> SUFFICES ASSUME TypeOK, KeptUnlessRobbed, [Next]_vars, robbed' = FALSE,
                      NEW o \in Scope, Owning(o)'
               PROVE  lock'.there /\ lock'.by = o
    BY DEF KeptUnlessRobbed, HolderKeepsLock, Owning
  <1>1. ASSUME NEW s \in Scope, Work(s) PROVE lock'.there /\ lock'.by = o
    <2>1. CASE TryAcquire(s)
      BY <1>1, <2>1, OthersUntouched
         DEF TryAcquire, KeptUnlessRobbed, HolderKeepsLock, Owning
    <2>2. CASE ~TryAcquire(s)
      <3>1. Owning(o)
        <4>1. CASE o = s
          BY <1>1, <2>2, <4>1, OwningOnlyByMkdir
        <4>2. CASE o # s
          BY <1>1, <4>2, OthersUntouched DEF Owning
        <4> QED
          BY <4>1, <4>2
      <3>2. robbed = FALSE
        BY <1>1, <2>2 DEF Work, TryAcquireRefused, TryAcquireLost, JournalHeld,
           WriteMeta, Leave, Release, Released, Inspect, Judge, RemoveIfUnchanged,
           StealRemove, UnlockRemove, RemoveSucceeds, RemoveFails, server, TypeOK
      <3>3. lock.there /\ lock.by = o
        BY <3>1, <3>2 DEF KeptUnlessRobbed, HolderKeepsLock
      <3>4. CASE RemoveSucceeds(s)
        <4>1. ~Robs(s)
          BY <3>4 DEF RemoveSucceeds
        <4>2. o = s
          BY <3>1, <3>3, <4>1 DEF Robs
        <4>3. Release(s) \/ StealRemove(s) \/ UnlockRemove(s)
          BY <1>1, <2>2, <3>1, <3>3, <3>4, <4>2 DEF Work, RemoveSucceeds, NoLock,
             TryAcquireRefused, TryAcquireLost, JournalHeld, WriteMeta, Marked, Leave,
             Released, Inspect, Judge, RemoveIfUnchanged, server
        <4>4. call'[s].at \in {"idle", "forget", "mkdir"}
          BY <4>3, RemovalMoves
        <4> QED
          BY <4>2, <4>4 DEF Owning
      <3>5. CASE lock' = lock \/ lock' = Marked(s)
        BY <3>3, <3>5 DEF Marked
      <3> QED
        BY <1>1, <2>2, <3>3, <3>4, <3>5 DEF Work, TryAcquireRefused, TryAcquireLost,
           JournalHeld, WriteMeta, Leave, Release, Released, Inspect, Judge,
           RemoveIfUnchanged, StealRemove, UnlockRemove, RemoveFails, server
    <2> QED
      BY <2>1, <2>2
  <1>2. ASSUME NEW s \in Scope, NEW q \in Ops, Begin(s, q)
        PROVE  lock'.there /\ lock'.by = o
    <2>1. ~TryAcquire(s)
      BY <1>2 DEF Begin, TryAcquire, At
    <2>2. Owning(o)
      BY <1>2, <2>1, OthersUntouched, OwningOnlyByMkdir DEF Owning
    <2> QED
      BY <1>2, <2>2 DEF Begin, server, KeptUnlessRobbed, HolderKeepsLock
  <1>3. ASSUME NEW p \in Proc, Crash(p) PROVE lock'.there /\ lock'.by = o
    BY <1>3 DEF Crash, server, KeptUnlessRobbed, HolderKeepsLock, Owning, NoCall
  <1>4. ASSUME NEW p \in Proc, Restart(p) PROVE lock'.there /\ lock'.by = o
    BY <1>4 DEF Restart, server, KeptUnlessRobbed, HolderKeepsLock, Owning
  <1>5. CASE Tick
    BY <1>5 DEF Tick, server, KeptUnlessRobbed, HolderKeepsLock, Owning
  <1>6. CASE LateRemove
    BY <1>6, ConstantsAssumption
       DEF LateRemove, Robs, TypeOK, KeptUnlessRobbed, HolderKeepsLock, Owning
  <1>7. CASE UNCHANGED vars
    BY <1>7 DEF vars, KeptUnlessRobbed, HolderKeepsLock, Owning
  <1> QED
    BY <1>1, <1>2, <1>3, <1>4, <1>5, <1>6, <1>7 DEF Next

\* If every running scope's lock is its own, at most one is in its pipeline.
LEMMA SoleInside == HolderKeepsLock => Cardinality(Inside) \in {0, 1}
  <1> SUFFICES ASSUME HolderKeepsLock PROVE Cardinality(Inside) \in {0, 1}
    OBVIOUS
  <1>1. \A r, s \in Inside : r = s
    BY DEF Inside, HolderKeepsLock, Owning
  <1>2. CASE Inside = {}
    BY <1>2, FS_EmptySet
  <1>3. ASSUME NEW s \in Inside PROVE Cardinality(Inside) \in {0, 1}
    <2>1. Inside = {s}
      BY <1>1
    <2> QED
      BY <2>1, FS_Singleton
  <1> QED
    BY <1>2, <1>3

\* Whatever the environment does, mkdir never admits a second scope: two
\* pipelines run at once only after a removal deleted a running scope's lock.
THEOREM BreachOnlyByRobbery == Spec => []BreachNeedsRobbery
  <1>1. Init => KeptUnlessRobbed
    BY DEF Init, KeptUnlessRobbed, HolderKeepsLock, Owning, NoCall
  <1>2. TypeOK /\ KeptUnlessRobbed => BreachNeedsRobbery
    <2> SUFFICES ASSUME TypeOK, KeptUnlessRobbed, ~robbed
                 PROVE  ~(Cardinality(Inside) > 1)
      BY DEF BreachNeedsRobbery
    <2>1. HolderKeepsLock
      BY DEF TypeOK, KeptUnlessRobbed
    <2> QED
      BY <2>1, SoleInside
  <1> QED
    BY <1>1, <1>2, TypeCorrect, KeptStep, PTL DEF Spec

-----------------------------------------------------------------------------
(***************************************************************************)
(* Under every fault: a live journal entry has a scope behind it           *)
(***************************************************************************)
Serves(s, p) == /\ ProcOf[s] = p
                /\ Owning(s) \/ At(s, "forget")
                /\ call[s].tok = mem[p].marker

\* A scope with a lock keeps serving its entry, or takes it from the journal.
LEMMA ServingScope ==
  ASSUME TypeOK, NEW s \in Scope, Owning(s) \/ At(s, "forget"), Work(s)
  PROVE  LET p == ProcOf[s]
         IN  \/ /\ Owning(s)' \/ At(s, "forget")'
                /\ call'[s].tok = call[s].tok /\ mem' = mem
             \/ ~mem'[p].live
  <1> USE ConstantsAssumption DEF TypeOK
  <1>1. call[s] \in Calls /\ ProcOf[s] \in Proc
    OBVIOUS
  <1>2. ASSUME NEW point \in {"mark", "cs", "release", "forget"}, Goto(s, point)
        PROVE  (Owning(s)' \/ At(s, "forget")') /\ call'[s].tok = call[s].tok
    BY <1>1, <1>2 DEF Goto, Owning, At, Calls
  <1>3. CASE JournalHeld(s) \/ WriteMeta(s) \/ Leave(s)
    BY <1>2, <1>3 DEF JournalHeld, WriteMeta, Leave, journal
  <1>4. CASE Release(s)
    <2>1. CASE Goto(s, "forget") /\ UNCHANGED mem
      BY <1>2, <2>1
    <2>2. CASE Orphaned(ProcOf[s])
      BY <1>1, <2>2 DEF Orphaned, Entries
    <2> QED
      BY <1>4, <2>1, <2>2 DEF Release
  <1>5. CASE Released(s)
    BY <1>1, <1>5 DEF Released, NoEntry
  <1> QED
    BY <1>3, <1>4, <1>5 DEF Work, Owning, At, TryAcquire, TryAcquireRefused, TryAcquireLost,
                            Inspect, Judge, RemoveIfUnchanged, StealRemove, UnlockRemove

\* The journal is written by the scopes of its own process only.
LEMMA EntryStep ==
  ASSUME TypeOK, NEW s \in Scope, Work(s) \/ \E o \in Ops : Begin(s, o), ~TryAcquire(s),
         NEW p \in Proc, mem'[p].there, mem'[p].live
  PROVE  mem'[p] = mem[p]
  <1> USE ConstantsAssumption DEF TypeOK
  <1>1. CASE UNCHANGED mem
    BY <1>1
  <1>2. CASE Orphaned(ProcOf[s])
    BY <1>2 DEF Orphaned, Entries
  <1>3. CASE Released(s)
    BY <1>3 DEF Released, NoEntry
  <1> QED
    BY <1>1, <1>2, <1>3 DEF Work, Begin, TryAcquireRefused, TryAcquireLost, JournalHeld,
         WriteMeta, Leave, Release, Inspect, Judge, RemoveIfUnchanged, StealRemove,
         UnlockRemove, journal

LEMMA LiveScopeStep ==
  ASSUME TypeOK, LiveEntryHasScope, NEW s \in Scope, Work(s) \/ \E o \in Ops : Begin(s, o)
  PROVE  LiveEntryHasScope'
  <1> SUFFICES ASSUME NEW p \in Proc, mem'[p].there, mem'[p].live
               PROVE  \E w \in Scope : Serves(w, p)'
    BY DEF LiveEntryHasScope, Serves
  <1> USE ConstantsAssumption
  <1>1. CASE TryAcquire(s)
    <2>1. CASE p = ProcOf[s]
      <3>1. call'[s].at = "journal" /\ call'[s].tok = now
        BY <1>1 DEF TryAcquire, TypeOK, Calls
      <3>2. mem'[p].marker = now
        BY <1>1, <2>1 DEF TryAcquire, TypeOK
      <3> QED
        BY <2>1, <3>1, <3>2 DEF Serves, Owning
    <2>2. CASE p # ProcOf[s]
      <3>1. mem'[p] = mem[p]
        BY <1>1, <2>2 DEF TryAcquire, TypeOK
      <3>2. PICK w \in Scope : Serves(w, p)
        BY <3>1 DEF LiveEntryHasScope, Serves
      <3>3. call'[w] = call[w]
        BY <2>2, <3>2, OthersUntouched DEF Serves
      <3> QED
        BY <3>1, <3>2, <3>3 DEF Serves, Owning, At
    <2> QED
      BY <2>1, <2>2
  <1>2. CASE ~TryAcquire(s)
    <2>1. mem'[p] = mem[p]
      BY <1>2, EntryStep
    <2>2. PICK w \in Scope : Serves(w, p)
      BY <2>1 DEF LiveEntryHasScope, Serves
    <2>3. CASE w # s
      <3>1. call'[w] = call[w]
        BY <2>3, OthersUntouched
      <3> QED
        BY <2>1, <2>2, <3>1 DEF Serves, Owning, At
    <2>4. CASE w = s
      <3>1. Work(s)
        BY <2>2, <2>4 DEF Begin, Serves, Owning, At
      <3>2. (Owning(s)' \/ At(s, "forget")') /\ call'[s].tok = call[s].tok
        BY <2>2, <2>4, <3>1, ServingScope DEF Serves
      <3> QED
        BY <2>1, <2>2, <2>4, <3>2 DEF Serves
    <2> QED
      BY <2>3, <2>4
  <1> QED
    BY <1>1, <1>2

\* LockJournal: no exit of acquire, withLockScope or forceUnlock leaves an entry marked
\* live with nobody on the way to release it.
THEOREM LiveEntriesEnd == Spec => []LiveEntryHasScope
  <1>1. Init => LiveEntryHasScope
    BY DEF Init, LiveEntryHasScope, NoEntry
  <1>2. TypeOK /\ LiveEntryHasScope /\ [Next]_vars => LiveEntryHasScope'
    <2> SUFFICES ASSUME TypeOK, LiveEntryHasScope, [Next]_vars PROVE LiveEntryHasScope'
      OBVIOUS
    <2>1. ASSUME NEW s \in Scope, Work(s) \/ \E o \in Ops : Begin(s, o)
          PROVE  LiveEntryHasScope'
      BY <2>1, LiveScopeStep
    <2>2. ASSUME NEW p \in Proc, Crash(p) PROVE LiveEntryHasScope'
      <3> SUFFICES ASSUME NEW q \in Proc, mem'[q].there, mem'[q].live
                   PROVE  \E w \in Scope : Serves(w, q)'
        BY DEF LiveEntryHasScope, Serves
      <3>1. q # p /\ mem'[q] = mem[q]
        BY <2>2 DEF Crash, TypeOK, NoEntry
      <3>2. PICK w \in Scope : Serves(w, q)
        BY <3>1 DEF LiveEntryHasScope, Serves
      <3>3. call'[w] = call[w]
        BY <2>2, <3>1, <3>2 DEF Crash, Serves
      <3> QED
        BY <3>1, <3>2, <3>3 DEF Serves, Owning, At
    <2>3. CASE (\E p \in Proc : Restart(p)) \/ Tick \/ LateRemove \/ UNCHANGED vars
      BY <2>3 DEF Restart, Tick, LateRemove, vars, journal, LiveEntryHasScope, Owning, At
    <2> QED
      BY <2>1, <2>2, <2>3 DEF Next
  <1> QED
    BY <1>1, <1>2, TypeCorrect, PTL DEF Spec

-----------------------------------------------------------------------------
(***************************************************************************)
(* The inductive invariant behind exclusion in a quiet environment         *)
(***************************************************************************)
\* A token that no later acquisition can be given.
Past(t) == t <= lastTok \/ t > MaxNow

\* A token that is not the one of a running scope.
NotHeld(t) == \A o \in Scope : Owning(o) => call[o].tok # t

\* The lock directory is the running scope's own and carries no other marker.
HeldByOwner ==
    \A s \in Scope : Owning(s) =>
        /\ lock.there /\ lock.by = s /\ lock.markers \subseteq {call[s].tok}
        /\ call[s].tok <= lastTok /\ now - call[s].tok <= TTL

\* Only a live process has a call under way.
AliveCalls == \A s \in Scope : call[s].at # "idle" => alive[ProcOf[s]]

\* Every token the lock, the records and the inspections mention is past.
TokensPast ==
    /\ lastTok <= now
    /\ \A t \in lock.markers : Past(t)
    /\ \A d \in Dir : Past(disk[d].marker)
    /\ \A s \in Scope : call[s].seen.tok \in Nat => Past(call[s].seen.tok)

\* A record that names a running scope's token was written by its process life.
RecordsHonest ==
    \A d \in Dir, s \in Scope :
        Owning(s) /\ disk[d].there /\ disk[d].marker = call[s].tok =>
            disk[d].proc = ProcOf[s] /\ disk[d].life = life[ProcOf[s]]

\* No entry is orphaned: a removal that is reported truthfully never fails.
NoOrphans == \A p \in Proc : mem[p].there => mem[p].live

\* What a scope has concluded about the lock still holds when it acts on it.
VerdictsHold ==
    \A s \in Scope :
        /\ call[s].op # "force"
        /\ call[s].seen.stale => NotHeld(call[s].seen.tok) /\ call[s].seen.tok \in Nat
        /\ call[s].at \in {"steal", "stealrm"} =>
              NotHeld(call[s].seen.tok) /\ call[s].seen.tok \in Nat
        /\ call[s].at \in {"stealrm", "uremove"} =>
              lock.there /\ call[s].seen.tok \in lock.markers
        /\ call[s].at = "uremove" => call[s].seen.stale

QuietInv ==
    /\ TypeOK
    /\ robbed = FALSE /\ late = 0
    /\ AliveCalls
    /\ HeldByOwner
    /\ TokensPast
    /\ RecordsHonest
    /\ NoOrphans
    /\ VerdictsHold

LEMMA QuietInit == Init => QuietInv
  <1> SUFFICES ASSUME Init PROVE QuietInv
    OBVIOUS
  <1>1. TypeOK
    BY InitType
  <1>2. TokensPast
    <2>1. \A t \in lock.markers : Past(t)
      <3>1. \A m \in Leftover : \A t \in m : t \in Nat /\ (t = 0 \/ t > MaxNow + TTL)
        BY LeftoverAssumption
      <3>2. CASE lock = NoLock
        BY <3>2 DEF NoLock
      <3>3. ASSUME NEW m \in Leftover,
                   lock = [there |-> TRUE, by |-> Nobody, markers |-> m]
            PROVE  \A t \in lock.markers : Past(t)
        BY <3>1, <3>3, ConstantsAssumption DEF Past, Init
      <3> QED
        BY <3>2, <3>3 DEF Init
    <2> QED
      BY <2>1 DEF Init, TokensPast, Past, NoRecord, NoCall, NotSeen, Unread
  <1> QED
    BY <1>1, <1>2 DEF Init, QuietInv, AliveCalls, HeldByOwner, RecordsHonest,
       NoOrphans, VerdictsHold, NoCall, NoEntry, NotSeen, Owning, NoRecord, NotHeld

LEMMA AliveStep ==
  ASSUME TypeOK, AliveCalls, NEW s \in Scope, Work(s) \/ \E o \in Ops : Begin(s, o)
  PROVE  AliveCalls'
  <1>1. alive' = alive
    BY DEF Work, Begin, TryAcquire, TryAcquireRefused, TryAcquireLost, JournalHeld,
       WriteMeta, Leave, Release, Released, Inspect, Judge, RemoveIfUnchanged,
       StealRemove, UnlockRemove, procs
  <1>2. alive[ProcOf[s]]
    <2>1. CASE \E o \in Ops : Begin(s, o)
      BY <2>1 DEF Begin
    <2>2. CASE Work(s)
      <3>1. call[s].at # "idle"
        BY <2>2 DEF Work, TryAcquire, TryAcquireRefused, TryAcquireLost, JournalHeld,
           WriteMeta, Leave, Release, Released, Inspect, Judge, RemoveIfUnchanged,
           StealRemove, UnlockRemove, At
      <3> QED
        BY <3>1 DEF AliveCalls
    <2> QED
      BY <2>1, <2>2
  <1> QED
    BY <1>1, <1>2, OthersUntouched DEF AliveCalls

LEMMA QuietRemovals ==
  ASSUME Quiet, NEW s
  PROVE  ~RemoveFails(s)
  BY DEF Quiet, RemoveFails

\* A removal hits nobody but, in a release, the scope that sends it.
LEMMA RemovalIsSafe ==
  ASSUME QuietInv, NEW s \in Scope, NEW o \in Scope \ {s}, Owning(o),
         At(s, "release") \/ At(s, "stealrm") \/ At(s, "uremove")
  PROVE  FALSE
  <1>1. lock.there /\ lock.by = o /\ lock.markers \subseteq {call[o].tok}
    BY DEF QuietInv, HeldByOwner
  <1>2. CASE At(s, "release")
    BY <1>1, <1>2 DEF QuietInv, HeldByOwner, Owning, At
  <1>3. CASE At(s, "stealrm") \/ At(s, "uremove")
    <2>1. call[s].seen.tok \in lock.markers /\ NotHeld(call[s].seen.tok)
      BY <1>3 DEF QuietInv, VerdictsHold, At
    <2> QED
      BY <1>1, <2>1 DEF NotHeld
  <1> QED
    BY <1>2, <1>3

\* The three removals.
LEMMA QuietRemoval ==
  ASSUME Quiet, QuietInv, NEW s \in Scope, Undisturbed(s), TypeOK',
         Release(s) \/ StealRemove(s) \/ UnlockRemove(s)
  PROVE  QuietInv'
  <1> USE DEF At
  <1>1. RemoveSucceeds(s)
    BY QuietRemovals DEF Release, StealRemove, UnlockRemove
  <1>2. \A o \in Scope : ~Owning(o)'
    <2>1. ~Owning(s)'
      BY RemovalMoves DEF Owning, QuietInv
    <2>2. ASSUME NEW o \in Scope \ {s} PROVE ~Owning(o)'
      BY <2>2, RemovalIsSafe, OthersUntouched
         DEF Owning, Release, StealRemove, UnlockRemove, Work, QuietInv
    <2> QED
      BY <2>1, <2>2
  <1>3. robbed' = FALSE /\ late' = 0 /\ lock' = NoLock
    BY <1>1, RemovalIsSafe DEF RemoveSucceeds, Robs, QuietInv, Release, StealRemove, UnlockRemove
  <1>4. UNCHANGED <<now, lastTok, disk, alive, life>>
    BY DEF Release, StealRemove, UnlockRemove, clock, journal, procs
  <1>5. NoOrphans'
    BY <1>1, QuietRemovals DEF Release, StealRemove, UnlockRemove, journal, QuietInv, NoOrphans
  <1>6. /\ \A r \in Scope \ {s} : call'[r] = call[r]
        /\ call'[s].op \in {call[s].op, "run"}
        /\ call'[s].at \in {"idle", "forget", "mkdir"}
        /\ call'[s].seen \in {call[s].seen, NotSeen}
    <2>1. \A r \in Scope \ {s} : call'[r] = call[r]
      BY OthersUntouched DEF Work, QuietInv
    <2>2. CASE Goto(s, "forget")
      BY <2>2 DEF Goto, QuietInv, TypeOK, Calls
    <2>3. CASE call' = [call EXCEPT ![s] = [NoCall EXCEPT !.at = "mkdir", !.attempt = 2]]
      <3>1. call'[s] = [NoCall EXCEPT !.at = "mkdir", !.attempt = 2]
        BY <2>3 DEF QuietInv, TypeOK
      <3> QED
        BY <2>1, <3>1 DEF NoCall
    <2> QED
      BY <2>1, <2>2, <2>3, QuietRemovals DEF Release, StealRemove, UnlockRemove
  <1>7. TokensPast'
    BY <1>3, <1>4, <1>6 DEF QuietInv, TokensPast, Past, NoLock, NotSeen, Unread
  <1>8. VerdictsHold'
    <2>1. \A r \in Scope \ {s} : call[r].at \notin {"stealrm", "uremove"}
      BY DEF Undisturbed, Quiet
    <2> QED
      BY <1>2, <1>6, <2>1 DEF QuietInv, VerdictsHold, NotHeld, NotSeen
  <1>9. AliveCalls'
    BY AliveStep DEF QuietInv, Work
  <1> QED
    BY <1>2, <1>3, <1>5, <1>7, <1>8, <1>9 DEF QuietInv, HeldByOwner, RecordsHonest

\* Winning the mkdir: the new token is later than every token known anywhere.
LEMMA QuietAcquire ==
  ASSUME Quiet, QuietInv, NEW s \in Scope, Undisturbed(s), TypeOK', TryAcquire(s)
  PROVE  QuietInv'
  <1> USE DEF At
  <1>1. /\ call[s].at = "mkdir" /\ ~lock.there /\ lastTok < now /\ lastTok' = now
        /\ lock' = [there |-> TRUE, by |-> s, markers |-> {}]
        /\ UNCHANGED <<late, robbed, now, disk, alive, life>>
        /\ now \in Nat /\ lastTok \in Nat /\ now <= MaxNow
    BY DEF TryAcquire, FreshToken, Quiet, QuietInv, TypeOK, procs
  <1>2. /\ \A r \in Scope \ {s} : call'[r] = call[r]
        /\ call'[s].at = "journal" /\ call'[s].tok = now
        /\ call'[s].seen = call[s].seen /\ call'[s].op = call[s].op
    BY DEF TryAcquire, QuietInv, TypeOK, Calls
  <1>3. \A o \in Scope : ~Owning(o)
    BY <1>1 DEF QuietInv, HeldByOwner
  <1>4. \A o \in Scope : Owning(o)' => o = s
    BY <1>2, <1>3 DEF Owning
  <1>5. AliveCalls'
    BY AliveStep DEF QuietInv, Work
  <1>6. HeldByOwner'
    BY <1>1, <1>2, <1>4, ConstantsAssumption DEF HeldByOwner
  <1>7. \A t \in Nat : Past(t) => Past(t)' /\ t # now
    BY <1>1, ConstantsAssumption DEF Past
  <1>8. TokensPast'
    BY <1>1, <1>2, <1>7 DEF QuietInv, TypeOK, TokensPast, Records
  <1>9. RecordsHonest'
    BY <1>1, <1>2, <1>4, <1>7 DEF QuietInv, TypeOK, TokensPast, RecordsHonest, Records
  <1>10. NoOrphans'
    BY ConstantsAssumption DEF TryAcquire, QuietInv, TypeOK, NoOrphans
  <1>11. VerdictsHold'
    BY <1>1, <1>2, <1>4, <1>7 DEF QuietInv, TokensPast, VerdictsHold, NotHeld
  <1> QED
    BY <1>1, <1>5, <1>6, <1>8, <1>9, <1>10, <1>11 DEF QuietInv

\* Steps of the owner that touch neither clock nor processes.
LEMMA QuietOwner ==
  ASSUME Quiet, QuietInv, NEW s \in Scope, TypeOK',
         JournalHeld(s) \/ WriteMeta(s) \/ Leave(s)
  PROVE  QuietInv'
  <1> USE DEF At
  <1>1. /\ \A r \in Scope \ {s} : call'[r] = call[r]
        /\ call'[s].tok = call[s].tok /\ call'[s].seen = call[s].seen
        /\ call'[s].op = call[s].op
        /\ Owning(s) /\ Owning(s)'
    BY DEF JournalHeld, WriteMeta, Leave, Goto, Owning, QuietInv, TypeOK, Calls
  <1>2. \A o \in Scope : Owning(o)' <=> Owning(o)
    BY <1>1 DEF Owning
  <1>3. UNCHANGED <<late, robbed, now, lastTok, mem, alive, life>>
    BY DEF JournalHeld, WriteMeta, Leave, server, clock, journal, procs
  <1>4. lock' = lock \/ lock' = Marked(s)
    BY DEF JournalHeld, WriteMeta, Leave, server
  <1>5. /\ lock.there /\ lock.by = s /\ lock.markers \subseteq {call[s].tok}
        /\ call[s].tok <= lastTok
    BY <1>1 DEF QuietInv, HeldByOwner
  <1>6. /\ lock'.there /\ lock'.by = s
        /\ lock.markers \subseteq lock'.markers
        /\ lock'.markers \subseteq {call[s].tok}
    BY <1>4, <1>5 DEF Marked
  <1>7. HeldByOwner'
    BY <1>1, <1>2, <1>3, <1>6 DEF QuietInv, HeldByOwner
  <1>8. disk' = disk \/ disk' = [disk EXCEPT ![DirOf[ProcOf[s]]] =
                          [there |-> TRUE, marker |-> call[s].tok,
                           proc |-> ProcOf[s], life |-> life[ProcOf[s]]]]
    BY DEF JournalHeld, WriteMeta, Leave, journal
  <1>9. TokensPast'
    BY <1>1, <1>3, <1>5, <1>6, <1>8 DEF QuietInv, TypeOK, TokensPast, Past
  <1>10. RecordsHonest'
    <2>1. \A o \in Scope : Owning(o) => o = s
      BY <1>5 DEF QuietInv, HeldByOwner
    <2> QED
      BY <1>1, <1>2, <1>3, <1>8, <2>1 DEF QuietInv, TypeOK, RecordsHonest
  <1>11. VerdictsHold'
    BY <1>1, <1>2, <1>6 DEF QuietInv, VerdictsHold, NotHeld, Owning
  <1>12. AliveCalls'
    BY AliveStep DEF QuietInv, Work
  <1> QED
    BY <1>3, <1>7, <1>9, <1>10, <1>11, <1>12 DEF QuietInv, NoOrphans

\* Steps that touch nothing but the call of a scope that owns nothing: they
\* keep the invariant if the verdict they leave behind is sound.
LEMMA QuietLook ==
  ASSUME QuietInv, NEW s \in Scope, TypeOK', AliveCalls',
         UNCHANGED <<late, robbed, now, lastTok, mem, disk, alive, life>>,
         \/ lock' = lock
         \/ ~lock.there /\ lock' = [there |-> TRUE, by |-> Nobody, markers |-> {}],
         \A r \in Scope \ {s} : call'[r] = call[r],
         ~Owning(s), ~Owning(s)',
         call'[s].op # "force",
         call'[s].seen.tok \in Nat => Past(call'[s].seen.tok),
         call'[s].seen.stale => NotHeld(call'[s].seen.tok) /\ call'[s].seen.tok \in Nat,
         call'[s].at \in {"steal", "stealrm"} =>
              NotHeld(call'[s].seen.tok) /\ call'[s].seen.tok \in Nat,
         call'[s].at \in {"stealrm", "uremove"} =>
              lock'.there /\ call'[s].seen.tok \in lock'.markers,
         call'[s].at = "uremove" => call'[s].seen.stale
  PROVE  QuietInv'
  <1>1. \A o \in Scope : /\ Owning(o)' <=> Owning(o)
                         /\ Owning(o) => call'[o].tok = call[o].tok
    BY DEF Owning
  <1>2. \A t : NotHeld(t) => NotHeld(t)'
    BY <1>1 DEF NotHeld
  <1>3. HeldByOwner'
    BY <1>1 DEF QuietInv, HeldByOwner
  <1>4. TokensPast'
    BY DEF QuietInv, TokensPast, Past
  <1>5. RecordsHonest'
    BY <1>1 DEF QuietInv, RecordsHonest
  <1>6. VerdictsHold'
    <2>1. ASSUME NEW r \in Scope \ {s}
          PROVE  call'[r].at \in {"stealrm", "uremove"} =>
                    lock'.there /\ call'[r].seen.tok \in lock'.markers
      BY DEF QuietInv, VerdictsHold
    <2> QED
      BY <1>2, <2>1 DEF QuietInv, VerdictsHold
  <1> QED
    BY <1>3, <1>4, <1>5, <1>6 DEF QuietInv, NoOrphans

\* A token judged aged is not the token of a running scope.
LEMMA AgedIsNotHeld ==
  ASSUME QuietInv, NEW t \in Nat, Aged(t)
  PROVE  NotHeld(t)
  BY ConstantsAssumption DEF QuietInv, TypeOK, HeldByOwner, TokensPast, Aged, NotHeld, Calls

\* A token the journal claims for a dead life is not the token of a running scope.
LEMMA OwnedIsNotHeld ==
  ASSUME QuietInv, NEW s \in Scope, Owns(s, call[s].seen.tok)
  PROVE  NotHeld(call[s].seen.tok) /\ call[s].seen.tok \in Nat
  <1> DEFINE t == call[s].seen.tok
             r == disk[DirOf[ProcOf[s]]]
  <1>0. ProcOf[s] \in Proc /\ DirOf[ProcOf[s]] \in Dir
    BY ConstantsAssumption
  <1>1. /\ r.there /\ t # NoToken /\ t # Unread /\ r.marker = t /\ LifeOver(r)
    BY <1>0 DEF Owns, QuietInv, NoOrphans
  <1>2. t \in Nat
    BY <1>1 DEF QuietInv, TypeOK, Calls, Inspections
  <1>3. ASSUME NEW o \in Scope, Owning(o), call[o].tok = t PROVE FALSE
    <2>1. r.proc = ProcOf[o] /\ r.life = life[ProcOf[o]]
      BY <1>0, <1>1, <1>3 DEF QuietInv, RecordsHonest
    <2>2. alive[ProcOf[o]]
      BY <1>3 DEF QuietInv, AliveCalls, Owning
    <2> QED
      BY <1>1, <2>1, <2>2 DEF LifeOver
  <1> QED
    BY <1>2, <1>3 DEF NotHeld

LEMMA QuietReleased ==
  ASSUME QuietInv, NEW s \in Scope, TypeOK', Released(s)
  PROVE  QuietInv'
  <1>1. /\ \A r \in Scope \ {s} : call'[r] = call[r]
        /\ call'[s] = NoCall
    BY DEF Released, Return, QuietInv, TypeOK
  <1>2. \A o \in Scope : /\ Owning(o)' <=> Owning(o)
                         /\ Owning(o) => call'[o] = call[o]
    BY <1>1 DEF Owning, NoCall, Released, At
  <1>3. UNCHANGED <<lock, late, robbed, now, lastTok, alive, life>>
    BY DEF Released, server, clock, procs
  <1>4. \A d \in Dir : disk'[d] = disk[d] \/ disk'[d] = NoRecord
    BY DEF Released, QuietInv, TypeOK
  <1>0. NoRecord.there = FALSE /\ NoRecord.marker = 0
    BY DEF NoRecord
  <1>5. AliveCalls' /\ HeldByOwner'
    BY <1>1, <1>2, <1>3 DEF QuietInv, AliveCalls, HeldByOwner, NoCall
  <1>6. TokensPast'
    BY <1>0, <1>1, <1>3, <1>4 DEF QuietInv, TypeOK, TokensPast, Past, NoCall,
       NotSeen, Unread
  <1>7. RecordsHonest'
    BY <1>0, <1>2, <1>3, <1>4 DEF QuietInv, RecordsHonest
  <1>8. NoOrphans'
    BY ConstantsAssumption DEF Released, QuietInv, TypeOK, NoOrphans, NoEntry
  <1>9. VerdictsHold'
    BY <1>1, <1>2, <1>3 DEF QuietInv, VerdictsHold, NotHeld, NoCall, NotSeen
  <1> QED
    BY <1>3, <1>5, <1>6, <1>7, <1>8, <1>9 DEF QuietInv

\* Starting a call, and the ways a call ends without having touched the lock.
LEMMA QuietStartOrReturn ==
  ASSUME Quiet, QuietInv, NEW s \in Scope, TypeOK',
         \/ TryAcquireRefused(s)
         \/ TryAcquireLost(s)
         \/ \E o \in Ops : Begin(s, o)
  PROVE  QuietInv'
  <1>1. AliveCalls'
    BY AliveStep DEF QuietInv, Work
  <1>2. /\ UNCHANGED <<late, robbed, now, lastTok, mem, disk, alive, life>>
        /\ \/ lock' = lock
           \/ ~lock.there /\ lock' = [there |-> TRUE, by |-> Nobody, markers |-> {}]
    BY DEF TryAcquireRefused, TryAcquireLost, Begin, server, clock, journal, procs
  <1>3. \A r \in Scope \ {s} : call'[r] = call[r]
    BY OthersUntouched DEF QuietInv, Work
  <1>4. ~Owning(s)
    BY DEF TryAcquireRefused, TryAcquireLost, Begin, At, Owning
  <1>5. /\ call'[s].at \in {"idle", "mkdir", "inspect"}
        /\ call'[s].op # "force"
        /\ call'[s].seen \in {call[s].seen, NotSeen}
    <2>1. CASE TryAcquireRefused(s) \/ TryAcquireLost(s)
      BY <2>1 DEF TryAcquireRefused, TryAcquireLost, Goto, Return, NoCall, QuietInv,
         TypeOK, Calls, VerdictsHold
    <2>2. ASSUME NEW o \in Ops, Begin(s, o)
          PROVE  call'[s] = [NoCall EXCEPT !.at = "mkdir", !.op = o] /\ o # "force"
      BY <2>2 DEF Begin, Quiet, QuietInv, TypeOK
    <2> QED
      BY <2>1, <2>2 DEF NoCall
  <1>6. ~Owning(s)'
    BY <1>5 DEF Owning
  <1>7. /\ call'[s].seen.tok \in Nat => Past(call'[s].seen.tok)
        /\ call'[s].seen.stale =>
              NotHeld(call'[s].seen.tok) /\ call'[s].seen.tok \in Nat
    BY <1>5 DEF QuietInv, TokensPast, VerdictsHold, NotSeen, Unread
  <1> QED
    BY <1>1, <1>2, <1>3, <1>4, <1>5, <1>6, <1>7, QuietLook

LEMMA QuietInspect ==
  ASSUME Quiet, QuietInv, NEW s \in Scope, TypeOK', Inspect(s)
  PROVE  QuietInv'
  <1>1. AliveCalls'
    BY AliveStep DEF QuietInv, Work
  <1>2. UNCHANGED <<lock, late, robbed, now, lastTok, mem, disk, alive, life>>
    BY DEF Inspect, server, clock, journal, procs
  <1>3. \A r \in Scope \ {s} : call'[r] = call[r]
    BY OthersUntouched DEF QuietInv, Work
  <1>4. ~Owning(s) /\ call[s].op # "force"
    BY DEF Inspect, At, Owning, QuietInv, VerdictsHold
  <1>5. CASE Return(s)
    <2>1. call'[s] = NoCall
      BY <1>5 DEF Return, QuietInv, TypeOK
    <2> QED
      BY <1>1, <1>2, <1>3, <1>4, <2>1, QuietLook DEF NoCall, NotSeen, Owning, Unread
  <1>6. ASSUME NEW t \in Listings, NEW point \in {"judge", "uremove"},
               point = "uremove" => t \in Nat /\ Aged(t),
               call' = [call EXCEPT ![s].at = point,
                      ![s].seen = [tok |-> t, stale |-> t \in Nat /\ Aged(t)]]
        PROVE  QuietInv'
    <2> DEFINE b == t \in Nat /\ Aged(t)
    <2>0. call' = [call EXCEPT ![s].at = point, ![s].seen = [tok |-> t, stale |-> b]]
      BY <1>6
    <2>1. /\ call'[s].at = point /\ call'[s].op = call[s].op
          /\ call'[s].seen.tok = t /\ call'[s].seen.stale = b
      <3> HIDE DEF b
      <3> QED
        BY <2>0 DEF QuietInv, TypeOK, Calls
    <2>2. t \in Nat => t \in lock.markers /\ lock.there
      BY DEF Listings, NoToken, Unread
    <2>3. t \in Nat => Past(t)
      BY <2>2 DEF QuietInv, TokensPast
    <2>4. t \in Nat /\ Aged(t) => NotHeld(t)
      BY AgedIsNotHeld
    <2>5. ~Owning(s)'
      BY <2>1 DEF Owning
    <2> QED
      BY <1>1, <1>2, <1>3, <1>4, <1>6, <2>1, <2>2, <2>3, <2>4, <2>5, QuietLook
  <1>7. CASE \E t \in Listings, point \in {"judge", "uremove"} :
               /\ point = "uremove" => t \in Nat /\ Aged(t)
               /\ call' = [call EXCEPT ![s].at = point,
                      ![s].seen = [tok |-> t, stale |-> t \in Nat /\ Aged(t)]]
    BY <1>6, <1>7
  <1> QED
    BY <1>4, <1>5, <1>7, Zenon DEF Inspect

LEMMA QuietDecide ==
  ASSUME Quiet, QuietInv, NEW s \in Scope, TypeOK', Judge(s) \/ RemoveIfUnchanged(s)
  PROVE  QuietInv'
  <1>1. AliveCalls'
    BY AliveStep DEF QuietInv, Work
  <1>2. UNCHANGED <<lock, late, robbed, now, lastTok, mem, disk, alive, life>>
    BY DEF Judge, RemoveIfUnchanged, server, clock, journal, procs
  <1>3. \A r \in Scope \ {s} : call'[r] = call[r]
    BY OthersUntouched DEF QuietInv, Work
  <1>4. ~Owning(s)
    BY DEF Judge, RemoveIfUnchanged, At, Owning
  <1>5. CASE Return(s)
    <2>1. call'[s] = NoCall
      BY <1>5 DEF Return, QuietInv, TypeOK
    <2> QED
      BY <1>1, <1>2, <1>3, <1>4, <2>1, QuietLook DEF NoCall, NotSeen, Owning, Unread
  <1>6. CASE Judge(s) /\ Goto(s, "steal") /\ ~Return(s)
    <2>1. /\ call'[s].at = "steal" /\ call'[s].op = call[s].op
          /\ call'[s].seen = call[s].seen
      BY <1>6 DEF Goto, QuietInv, TypeOK, Calls
    <2>2. call[s].seen.stale \/ Owns(s, call[s].seen.tok)
      BY <1>6 DEF Judge, OwnsAnswers
    <2>3. NotHeld(call[s].seen.tok) /\ call[s].seen.tok \in Nat
      BY <2>2, OwnedIsNotHeld DEF QuietInv, VerdictsHold
    <2>4. ~Owning(s)'
      BY <2>1 DEF Owning
    <2> QED
      BY <1>1, <1>2, <1>3, <1>4, <2>1, <2>3, <2>4, QuietLook
         DEF QuietInv, VerdictsHold, TokensPast
  <1>7. CASE RemoveIfUnchanged(s) /\ ~Return(s)
    <2>1. Goto(s, "stealrm") /\ call[s].at = "steal" /\ call[s].seen.tok \in Listings
      BY <1>7 DEF RemoveIfUnchanged, At
    <2>2. /\ call'[s].at = "stealrm" /\ call'[s].op = call[s].op
          /\ call'[s].seen = call[s].seen
      BY <2>1 DEF Goto, QuietInv, TypeOK, Calls
    <2>3. NotHeld(call[s].seen.tok) /\ call[s].seen.tok \in Nat
      BY <2>1 DEF QuietInv, VerdictsHold
    <2>4. lock.there /\ call[s].seen.tok \in lock.markers
      BY <2>1, <2>3 DEF Listings, NoToken, Unread
    <2>5. ~Owning(s)'
      BY <2>2 DEF Owning
    <2> QED
      BY <1>1, <1>2, <1>3, <1>4, <2>2, <2>3, <2>4, <2>5, QuietLook
         DEF QuietInv, VerdictsHold, TokensPast
  <1> QED
    BY <1>5, <1>6, <1>7 DEF Judge

\* The clock, and processes that die and come back.
LEMMA QuietEnvironment ==
  ASSUME Quiet, QuietInv, TypeOK', Tick \/ \E p \in Proc : Crash(p) \/ Restart(p)
  PROVE  QuietInv'
  <1>1. CASE Tick
    <2>1. UNCHANGED <<lock, late, robbed, lastTok, call, mem, disk, alive, life>>
      BY <1>1 DEF Tick, server, journal, procs
    <2>2. HeldByOwner'
      BY <1>1, <2>1, ConstantsAssumption
         DEF Tick, Quiet, QuietInv, TypeOK, HeldByOwner, Owning, Calls
    <2>3. TokensPast'
      BY <1>1, <2>1 DEF Tick, QuietInv, TypeOK, TokensPast, Past
    <2>4. \A t : NotHeld(t)' <=> NotHeld(t)
      BY <2>1 DEF NotHeld, Owning
    <2> QED
      BY <2>1, <2>2, <2>3, <2>4
         DEF QuietInv, AliveCalls, RecordsHonest, NoOrphans, VerdictsHold, Owning
  <1>2. ASSUME NEW p \in Proc, Crash(p) PROVE QuietInv'
    <2>1. UNCHANGED <<lock, late, robbed, now, lastTok, disk, life>>
      BY <1>2 DEF Crash, server, clock
    <2>2. \A s \in Scope : \/ ProcOf[s] = p /\ call'[s] = NoCall
                           \/ ProcOf[s] # p /\ call'[s] = call[s]
      BY <1>2 DEF Crash
    <2>3. \A o \in Scope : Owning(o)' => Owning(o) /\ call'[o] = call[o]
      BY <2>2 DEF Owning, NoCall
    <2>4. AliveCalls' /\ HeldByOwner'
      BY <1>2, <2>1, <2>2, <2>3 DEF Crash, QuietInv, TypeOK, AliveCalls, HeldByOwner, NoCall
    <2>5. TokensPast'
      BY <2>1, <2>2 DEF QuietInv, TokensPast, Past, NoCall, NotSeen, Unread
    <2>6. RecordsHonest'
      BY <2>1, <2>3 DEF QuietInv, RecordsHonest
    <2>7. NoOrphans'
      BY <1>2 DEF Crash, QuietInv, TypeOK, NoOrphans, NoEntry
    <2>8. VerdictsHold'
      BY <2>1, <2>2, <2>3 DEF QuietInv, VerdictsHold, NotHeld, NoCall, NotSeen
    <2> QED
      BY <2>1, <2>4, <2>5, <2>6, <2>7, <2>8 DEF QuietInv
  <1>3. ASSUME NEW p \in Proc, Restart(p) PROVE QuietInv'
    <2>1. UNCHANGED <<lock, late, robbed, now, lastTok, call, mem, disk>>
      BY <1>3 DEF Restart, server, clock, journal
    <2>2. \A o \in Scope : Owning(o) => ProcOf[o] # p
      BY <1>3 DEF Restart, QuietInv, AliveCalls, Owning
    <2>3. AliveCalls'
      BY <1>3, <2>1 DEF Restart, QuietInv, TypeOK, AliveCalls
    <2>4. RecordsHonest'
      BY <1>3, <2>1, <2>2, ConstantsAssumption
         DEF Restart, QuietInv, TypeOK, RecordsHonest, Owning
    <2>5. \A t : NotHeld(t)' <=> NotHeld(t)
      BY <2>1 DEF NotHeld, Owning
    <2> QED
      BY <2>1, <2>3, <2>4, <2>5
         DEF QuietInv, HeldByOwner, TokensPast, Past, NoOrphans, VerdictsHold, Owning
  <1> QED
    BY <1>1, <1>2, <1>3

LEMMA QuietStep ==
  ASSUME Quiet, QuietInv, [Next]_vars
  PROVE  QuietInv'
  <1>1. TypeOK'
    BY TypeStep DEF QuietInv
  <1>2. ASSUME NEW s \in Scope, Undisturbed(s), Work(s) \/ \E o \in Ops : Begin(s, o)
        PROVE  QuietInv'
    BY <1>1, <1>2, QuietAcquire, QuietOwner, QuietRemoval, QuietReleased,
       QuietStartOrReturn, QuietInspect, QuietDecide DEF Work
  <1>3. CASE LateRemove
    BY <1>3 DEF LateRemove, QuietInv
  <1>4. CASE UNCHANGED vars
    BY <1>1, <1>4 DEF vars, QuietInv, AliveCalls, HeldByOwner, TokensPast, Past,
       RecordsHonest, NoOrphans, VerdictsHold, NotHeld, Owning
  <1> QED
    BY <1>1, <1>2, <1>3, <1>4, QuietEnvironment DEF Next

LEMMA QuietKeeps == QuietInv => HolderKeepsLock
  BY DEF QuietInv, HeldByOwner, HolderKeepsLock

\* In a quiet environment no steal, reclaim or unlock ever takes the lock of a
\* running scope, however many processes on however many machines contend,
\* crash and restart.
THEOREM HolderIsSafe ==
  ASSUME Quiet
  PROVE  Spec => []HolderKeepsLock
  <1>1. QuietInv /\ [Next]_vars => QuietInv'
    BY QuietStep
  <1> QED
    BY <1>1, QuietInit, QuietKeeps, PTL DEF Spec

\* In a quiet environment at most one pipeline runs over an archive root.
THEOREM MutualExclusion ==
  ASSUME Quiet
  PROVE  Spec => []Exclusion
  <1>1. HolderKeepsLock => Exclusion
    BY SoleInside DEF Exclusion
  <1> QED
    BY <1>1, HolderIsSafe, PTL

-----------------------------------------------------------------------------
(***************************************************************************)
(* Refinement                                                              *)
(***************************************************************************)
\* A scope enters its pipeline only from the marker write, as the owner.
LEMMA EntersAsOwner ==
  ASSUME TypeOK, [Next]_vars, NEW s \in Scope, s \in Inside', s \notin Inside
  PROVE  Owning(s)
  <1>0. call'[s].at = "cs" /\ call[s].at # "cs" /\ Owning(s)'
    BY DEF Inside, Owning
  <1>1. ASSUME NEW r \in Scope, Work(r) \/ \E o \in Ops : Begin(r, o) PROVE Owning(s)
    <2>1. r = s
      BY <1>0, <1>1, OthersUntouched
    <2>2. ~TryAcquire(s)
      BY <1>0 DEF TryAcquire, TypeOK, Calls
    <2> QED
      BY <1>0, <1>1, <2>1, <2>2, OwningOnlyByMkdir
  <1>2. ASSUME NEW p \in Proc, Crash(p) \/ Restart(p) PROVE FALSE
    BY <1>0, <1>2 DEF Crash, Restart, NoCall
  <1>3. CASE Tick \/ LateRemove \/ UNCHANGED vars
    BY <1>0, <1>3 DEF Tick, LateRemove, vars
  <1> QED
    BY <1>1, <1>2, <1>3 DEF Next

\* In a quiet environment the remote lock implements the abstract mutex.
THEOREM ImplementsMutex ==
  ASSUME Quiet
  PROVE  Spec => MutexSpec
  <1>1. Init => Mutex!Init
    BY DEF Init, Mutex!Init, Inside, NoCall
  <1>2. QuietInv /\ QuietInv' /\ [Next]_vars => [Mutex!Next]_Inside
    <2> SUFFICES ASSUME QuietInv, QuietInv', [Next]_vars PROVE [Mutex!Next]_Inside
      OBVIOUS
    <2>1. HolderKeepsLock /\ HolderKeepsLock' /\ TypeOK
      BY QuietKeeps DEF QuietInv, HeldByOwner, HolderKeepsLock
    <2>2. ASSUME NEW s \in Scope, s \in Inside', s \notin Inside PROVE Mutex!Next
      <3>1. Owning(s)
        BY <2>1, <2>2, EntersAsOwner
      <3>2. Inside = {}
        BY <2>1, <2>2, <3>1 DEF Inside, HolderKeepsLock, Owning
      <3>3. Inside' = {s}
        BY <2>1, <2>2 DEF Inside, HolderKeepsLock, Owning
      <3> QED
        BY <3>2, <3>3 DEF Mutex!Next, Mutex!Enter
    <2>3. CASE Inside' \subseteq Inside
      <3>1. CASE Inside' = Inside
        BY <3>1
      <3>2. CASE Inside' # Inside
        <4> DEFINE gone == Inside \ Inside'
        <4>1. gone # {} /\ gone \subseteq Inside /\ Inside' = Inside \ gone
          BY <2>3, <3>2
        <4>2. gone \in SUBSET Scope
          BY DEF Inside
        <4>3. Mutex!Leave(gone)
          BY <4>1 DEF Mutex!Leave
        <4> QED
          BY <4>2, <4>3 DEF Mutex!Next
      <3> QED
        BY <3>1, <3>2
    <2> QED
      BY <2>2, <2>3 DEF Inside
  <1>3. QuietInv /\ [Next]_vars => QuietInv'
    BY QuietStep
  <1> QED
    BY <1>1, <1>2, <1>3, QuietInit, PTL DEF Spec, MutexSpec, Mutex!Spec

=============================================================================
