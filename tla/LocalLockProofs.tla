--------------------------- MODULE LocalLockProofs ---------------------------
(***************************************************************************)
(* Proofs about LocalLock, for any number of scopes, processes and         *)
(* machines and for every grace and TTL.                                   *)
(***************************************************************************)
EXTENDS LocalLock, FiniteSetTheorems, TLAPS

-----------------------------------------------------------------------------
(***************************************************************************)
(* Values                                                                  *)
(***************************************************************************)
LEMMA BlankType ==
  /\ \A state \in {"none", "torn", "whole", "unread"} : Blank(state) \in Metas
  /\ NoMeta \in Metas /\ Torn \in Metas
  /\ NoMeta.state = "none" /\ Torn.state = "torn"
  <1>1. (CHOOSE p \in Proc : TRUE) \in Proc
    BY LocalLockAssumption
  <1> QED
    BY <1>1 DEF Blank, NoMeta, Torn, Metas

LEMMA NoDirType == NoDir \in Dirs /\ ~NoDir.there /\ NoDir.ino = 0 /\ NoDir.meta = NoMeta
  BY BlankType DEF NoDir, Dirs

LEMMA NoCallType ==
  /\ NoCall \in Calls
  /\ NoCall.at = "idle" /\ NoCall.op = "run" /\ NoCall.attempt = 1
  /\ NoCall.inspected = Unseen
  BY BlankType DEF NoCall, Calls, Points, Ops, Unseen, Identities

LEMMA IdentityType ==
  ASSUME NEW d \in Dirs
  PROVE  /\ Identity(d) \in Identities
         /\ Identity(d).ino = d.ino
         /\ Identity(d).marked = (d.meta # NoMeta)
  BY DEF Identity, Dirs, Identities

\* A scope's step replaces its own call and no other.
LEMMA CallSet ==
  ASSUME TypeOK, NEW s \in Scope, NEW c \in Calls, call' = [call EXCEPT ![s] = c]
  PROVE  /\ call' \in [Scope -> Calls]
         /\ call'[s] = c
         /\ \A r \in Scope \ {s} : call'[r] = call[r]
  BY DEF TypeOK

\* A call that goes to another program point keeps its locals.
LEMMA Moved ==
  ASSUME TypeOK, NEW s \in Scope, NEW point \in Points, Goto(s, point)
  PROVE  /\ call' \in [Scope -> Calls]
         /\ call'[s].at = point /\ call'[s].op = call[s].op
         /\ call'[s].attempt = call[s].attempt
         /\ call'[s].inspected = call[s].inspected /\ call'[s].file = call[s].file
         /\ \A r \in Scope \ {s} : call'[r] = call[r]
  BY DEF TypeOK, Goto, Calls

LEMMA Returned ==
  ASSUME TypeOK, NEW s \in Scope, Return(s)
  PROVE  /\ call' \in [Scope -> Calls]
         /\ call'[s] = NoCall
         /\ \A r \in Scope \ {s} : call'[r] = call[r]
  BY NoCallType, CallSet DEF Return

\* What a verdict makes of a call: it ends, or the lock is to be removed.
LEMMA VerdictMoves ==
  ASSUME TypeOK, NEW s \in Scope, NEW stale \in BOOLEAN, Verdict(s, stale)
  PROVE  /\ call' \in [Scope -> Calls]
         /\ \A r \in Scope \ {s} : call'[r] = call[r]
         /\ \/ call'[s] = NoCall
            \/ /\ call[s].op = "run" /\ stale
               /\ call'[s].at = "steal" /\ call'[s].op = "run" /\ call'[s].attempt = 1
               /\ call'[s].inspected = call[s].inspected
            \/ /\ (call[s].op = "unlock" /\ stale) \/ call[s].op = "force"
               /\ call'[s].at = "uremove" /\ call'[s].op = call[s].op
  <1> DEFINE c == call[s]
  <1>0. c \in Calls
    BY DEF TypeOK
  <1>1. CASE c.op = "run" /\ stale /\ c.attempt = 1
    <2> DEFINE d == [NoCall EXCEPT !.at = "steal", !.attempt = c.attempt,
                                   !.inspected = c.inspected]
    <2>1. /\ d \in Calls
          /\ d.at = "steal" /\ d.op = "run" /\ d.attempt = 1 /\ d.inspected = c.inspected
      BY <1>0, <1>1, NoCallType DEF Calls, Points
    <2>2. call' = [call EXCEPT ![s] = d]
      BY <1>1 DEF Verdict
    <2> HIDE DEF d
    <2> QED
      BY <1>1, <2>1, <2>2, CallSet
  <1>2. CASE (c.op = "unlock" /\ stale) \/ c.op = "force"
    <2> DEFINE d == [NoCall EXCEPT !.at = "uremove", !.op = c.op]
    <2>1. d \in Calls /\ d.at = "uremove" /\ d.op = c.op
      BY <1>0, NoCallType DEF Calls, Points
    <2>2. call' = [call EXCEPT ![s] = d]
      BY <1>2 DEF Verdict
    <2> HIDE DEF d
    <2> QED
      BY <1>2, <2>1, <2>2, CallSet
  <1>3. CASE ~(c.op = "run" /\ stale /\ c.attempt = 1)
             /\ ~((c.op = "unlock" /\ stale) \/ c.op = "force")
    <2>1. call' = [call EXCEPT ![s] = NoCall]
      BY <1>3 DEF Verdict
    <2> QED
      BY <2>1, NoCallType, CallSet
  <1> QED
    BY <1>1, <1>2, <1>3
-----------------------------------------------------------------------------
(***************************************************************************)
(* Types                                                                   *)
(***************************************************************************)
\* A steal is the work of a first attempt: what the type of attempt rests on.
FirstSteal == \A s \in Scope : call[s].at \in {"steal", "stealrm"} => call[s].attempt = 1

TypeInv == TypeOK /\ FirstSteal

LEMMA InitType == Init => TypeInv
  <1> SUFFICES ASSUME Init PROVE TypeInv
    OBVIOUS
  <1>1. dir \in Dirs
    BY LeftoverAssumption, NoDirType DEF Init
  <1>2. call \in [Scope -> Calls] /\ \A s \in Scope : call[s] = NoCall
    BY NoCallType DEF Init
  <1> QED
    BY <1>1, <1>2, NoCallType, LocalLockAssumption DEF Init, TypeInv, TypeOK, FirstSteal

\* What each step does to the call of its scope.
LEMMA BeginMoves ==
  ASSUME TypeOK, NEW s \in Scope, NEW o \in Ops, Begin(s, o)
  PROVE  /\ call' \in [Scope -> Calls]
         /\ \A r \in Scope \ {s} : call'[r] = call[r]
         /\ call'[s].at = "mkdir" /\ call'[s].op = o /\ call'[s].inspected = Unseen
         /\ o \in OpsOf[s] /\ alive[ProcOf[s]] /\ call[s].at = "idle"
  <1> DEFINE d == [NoCall EXCEPT !.at = "mkdir", !.op = o]
  <1>1. d \in Calls /\ d.at = "mkdir" /\ d.op = o /\ d.inspected = Unseen
    BY NoCallType DEF Calls, Points
  <1>2. call' = [call EXCEPT ![s] = d]
    BY DEF Begin
  <1>3. o \in OpsOf[s] /\ alive[ProcOf[s]] /\ call[s].at = "idle"
    BY DEF Begin, At
  <1> HIDE DEF d
  <1> QED
    BY <1>1, <1>2, <1>3, CallSet

LEMMA OpenMoves ==
  ASSUME TypeOK, NEW s \in Scope, MetaOpen(s)
  PROVE  /\ call' \in [Scope -> Calls]
         /\ \A r \in Scope \ {s} : call'[r] = call[r]
         /\ call'[s].op = call[s].op
         /\ \/ /\ dir.there /\ call'[s].at = "fill" /\ call'[s].file = dir.ino
               /\ dir' = [dir EXCEPT !.meta = Torn,
                                     !.mtime = IF dir.meta = NoMeta THEN now ELSE @]
            \/ call'[s].at = "release" /\ dir' = dir
  <1>1. CASE Goto(s, "release") /\ UNCHANGED dir
    BY <1>1, Moved DEF Points
  <1>2. CASE ~(Goto(s, "release") /\ UNCHANGED dir)
    <2> DEFINE d == [call[s] EXCEPT !.at = "fill", !.file = dir.ino]
    <2>0. call[s] \in Calls /\ dir.ino \in Nat
      BY DEF TypeOK, Dirs
    <2>1. d \in Calls /\ d.at = "fill" /\ d.op = call[s].op /\ d.file = dir.ino
      BY <2>0 DEF Calls, Points
    <2>2. /\ dir.there
          /\ dir' = [dir EXCEPT !.meta = Torn,
                                !.mtime = IF dir.meta = NoMeta THEN now ELSE @]
          /\ call' = [call EXCEPT ![s] = d]
      BY <1>2 DEF MetaOpen
    <2> HIDE DEF d
    <2> QED
      BY <2>1, <2>2, CallSet
  <1> QED
    BY <1>1, <1>2

LEMMA FillMoves ==
  ASSUME TypeOK, NEW s \in Scope, MetaFill(s)
  PROVE  /\ call' \in [Scope -> Calls]
         /\ \A r \in Scope \ {s} : call'[r] = call[r]
         /\ call'[s].op = call[s].op
         /\ \/ /\ call'[s].at \in {"cs", "release"}
               /\ IF dir.there /\ dir.ino = call[s].file
                  THEN \E m \in MetaOf(s) : dir' = [dir EXCEPT !.meta = m]
                  ELSE dir' = dir
            \/ call'[s].at = "release" /\ dir' = dir
  <1>1. CASE Goto(s, "release") /\ UNCHANGED dir
    BY <1>1, Moved DEF Points
  <1>2. CASE ~(Goto(s, "release") /\ UNCHANGED dir)
    <2> DEFINE d == [NoCall EXCEPT !.op = call[s].op,
                          !.at = IF call[s].op = "run" THEN "cs" ELSE "release"]
    <2>1. d \in Calls /\ d.at \in {"cs", "release"} /\ d.op = call[s].op
      BY NoCallType DEF TypeOK, Calls, Points
    <2>2. call' = [call EXCEPT ![s] = d]
      BY <1>2 DEF MetaFill
    <2>3. IF dir.there /\ dir.ino = call[s].file
          THEN \E m \in MetaOf(s) : dir' = [dir EXCEPT !.meta = m]
          ELSE dir' = dir
      BY <1>2 DEF MetaFill
    <2> HIDE DEF d
    <2> QED
      BY <2>1, <2>2, <2>3, CallSet
  <1> QED
    BY <1>1, <1>2

LEMMA LstatMoves ==
  ASSUME TypeOK, NEW s \in Scope, Lstat(s), dir.there
  PROVE  /\ call' \in [Scope -> Calls]
         /\ \A r \in Scope \ {s} : call'[r] = call[r]
         /\ call'[s].op = call[s].op /\ call'[s].at = "read"
         /\ call'[s].mtime = dir.mtime /\ call'[s].inspected = Identity(dir)
  <1> DEFINE d == [call[s] EXCEPT !.at = "read", !.mtime = dir.mtime,
                                  !.inspected = Identity(dir)]
  <1>0. call[s] \in Calls /\ dir.mtime \in Nat /\ Identity(dir) \in Identities
    BY IdentityType DEF TypeOK, Dirs
  <1>1. /\ d \in Calls /\ d.at = "read" /\ d.op = call[s].op
        /\ d.mtime = dir.mtime /\ d.inspected = Identity(dir)
    BY <1>0 DEF Calls, Points
  <1>2. call' = [call EXCEPT ![s] = d]
    BY DEF Lstat
  <1> HIDE DEF d
  <1> QED
    BY <1>1, <1>2, CallSet

LEMMA ReadMoves ==
  ASSUME TypeOK, NEW s \in Scope, NEW m \in Metas, ReadMeta(s),
         m = IF dir.there THEN dir.meta ELSE NoMeta, m.state = "whole"
  PROVE  /\ call' \in [Scope -> Calls]
         /\ \A r \in Scope \ {s} : call'[r] = call[r]
         /\ call'[s].op = call[s].op /\ call'[s].at = "probe"
         /\ call'[s].read = m /\ call'[s].inspected = call[s].inspected
  <1> DEFINE d == [call[s] EXCEPT !.at = "probe", !.read = m]
  <1>0. call[s] \in Calls
    BY DEF TypeOK
  <1>1. /\ d \in Calls /\ d.at = "probe" /\ d.op = call[s].op
        /\ d.read = m /\ d.inspected = call[s].inspected
    BY <1>0 DEF Calls, Points
  <1>2. call' = [call EXCEPT ![s] = d]
    BY DEF ReadMeta
  <1> HIDE DEF d
  <1> QED
    BY <1>1, <1>2, CallSet

LEMMA CompareMoves ==
  ASSUME TypeOK, NEW s \in Scope, Compare(s)
  PROVE  /\ call' \in [Scope -> Calls]
         /\ \A r \in Scope \ {s} : call'[r] = call[r]
         /\ \/ call'[s] = NoCall
            \/ /\ dir.there /\ Identity(dir) = call[s].inspected
               /\ call'[s].at = "stealrm" /\ call'[s].op = "run"
               /\ call'[s].attempt = call[s].attempt
  <1>1. CASE dir.there /\ Identity(dir) = call[s].inspected
    <2> DEFINE d == [NoCall EXCEPT !.at = "stealrm", !.attempt = call[s].attempt]
    <2>1. d \in Calls /\ d.at = "stealrm" /\ d.op = "run" /\ d.attempt = call[s].attempt
      BY NoCallType DEF TypeOK, Calls, Points
    <2>2. call' = [call EXCEPT ![s] = d]
      BY <1>1 DEF Compare
    <2> HIDE DEF d
    <2> QED
      BY <1>1, <2>1, <2>2, CallSet
  <1>2. CASE ~(dir.there /\ Identity(dir) = call[s].inspected)
    BY <1>2, Returned DEF Compare
  <1> QED
    BY <1>1, <1>2

LEMMA StealMoves ==
  ASSUME TypeInv, NEW s \in Scope, StealRemove(s)
  PROVE  /\ call' \in [Scope -> Calls]
         /\ \A r \in Scope \ {s} : call'[r] = call[r]
         /\ \/ dir' = dir /\ call'[s] = NoCall
            \/ /\ dir' = NoDir /\ call'[s].at = "mkdir" /\ call'[s].op = "run"
               /\ call'[s].inspected = Unseen
  <1>0. TypeOK /\ call[s].attempt = 1
    BY DEF TypeInv, FirstSteal, StealRemove, At
  <1>1. CASE Return(s) /\ UNCHANGED dir
    BY <1>0, <1>1, Returned
  <1>2. CASE ~(Return(s) /\ UNCHANGED dir)
    <2> DEFINE d == [NoCall EXCEPT !.at = "mkdir", !.attempt = 2]
    <2>1. d \in Calls /\ d.at = "mkdir" /\ d.op = "run" /\ d.inspected = Unseen
      BY NoCallType DEF Calls, Points
    <2>2. call' = [call EXCEPT ![s] = d] /\ dir' = NoDir
      BY <1>0, <1>2 DEF StealRemove
    <2> HIDE DEF d
    <2> QED
      BY <1>0, <2>1, <2>2, CallSet
  <1> QED
    BY <1>1, <1>2

\* The meta of a lock directory, new or rewritten.
LEMMA MetaTypes ==
  ASSUME TypeOK, NEW s \in Scope
  PROVE  /\ \A m \in MetaOf(s) : /\ m \in Metas /\ m.state = "whole" /\ m.proc = ProcOf[s]
                                 /\ m.life = life[ProcOf[s]] /\ m.created = now
         /\ \A m \in Metas : [dir EXCEPT !.meta = m] \in Dirs
         /\ \A m \in Metas, t \in Nat : [dir EXCEPT !.meta = m, !.mtime = t] \in Dirs
  <1> USE LocalLockAssumption DEF TypeOK
  <1>1. ASSUME NEW m \in MetaOf(s)
        PROVE  /\ m \in Metas /\ m.state = "whole" /\ m.proc = ProcOf[s]
               /\ m.life = life[ProcOf[s]] /\ m.created = now
    <2>1. PICK known \in BOOLEAN :
             m = [state |-> "whole", proc |-> ProcOf[s], life |-> life[ProcOf[s]],
                  start |-> known, created |-> now]
      BY <1>1 DEF MetaOf
    <2> QED
      BY <2>1 DEF Metas
  <1>2. dir \in Dirs
    OBVIOUS
  <1>3. \A m \in Metas : [dir EXCEPT !.meta = m] \in Dirs
    BY <1>2 DEF Dirs
  <1>4. \A m \in Metas, t \in Nat : [dir EXCEPT !.meta = m, !.mtime = t] \in Dirs
    BY <1>2 DEF Dirs
  <1> QED
    BY <1>1, <1>3, <1>4

LEMMA WorkType ==
  ASSUME TypeInv, NEW s \in Scope, Work(s)
  PROVE  TypeInv'
  <1> USE LocalLockAssumption
  <1>0. TypeOK /\ FirstSteal
    BY DEF TypeInv
  <1>q. ASSUME call' \in [Scope -> Calls], \A r \in Scope \ {s} : call'[r] = call[r],
               call'[s].at \in {"steal", "stealrm"} => call'[s].attempt = 1,
               dir' \in Dirs, UNCHANGED <<inodes, now, procs>>
        PROVE  TypeInv'
    BY <1>0, <1>q DEF TypeInv, TypeOK, FirstSteal, procs
  <1>1. CASE TryAcquire(s)
    <2>1. call' \in [Scope -> Calls] /\ call'[s].at = "meta"
          /\ \A r \in Scope \ {s} : call'[r] = call[r]
      BY <1>0, <1>1, Moved DEF TryAcquire, Points
    <2>2. dir' \in Dirs
      <3>1. dir' = [there |-> TRUE, ino |-> inodes', by |-> s, meta |-> NoMeta,
                    mtime |-> now]
        BY <1>1 DEF TryAcquire, NoDir
      <3>2. inodes' \in Nat /\ now \in Nat
        BY <1>0, <1>1 DEF TryAcquire, TypeOK
      <3> QED
        BY <3>1, <3>2, BlankType DEF Dirs
    <2>3. inodes' \in Nat /\ inodes' <= MaxInode
      BY <1>0, <1>1 DEF TryAcquire, TypeOK
    <2> QED
      BY <1>0, <1>1, <2>1, <2>2, <2>3 DEF TryAcquire, TypeInv, TypeOK, FirstSteal, procs
  <1>2. CASE TryAcquireRefused(s)
    BY <1>0, <1>2, <1>q, Moved DEF TryAcquireRefused, Points, TypeOK
  <1>3. CASE MetaOpen(s)
    <2>1. dir' \in Dirs
      <3>1. dir \in Dirs /\ now \in Nat /\ dir.mtime \in Nat
        BY <1>0 DEF TypeOK, Dirs
      <3>2. CASE dir' = dir
        BY <3>1, <3>2
      <3>3. CASE dir' = [dir EXCEPT !.meta = Torn,
                                    !.mtime = IF dir.meta = NoMeta THEN now ELSE @]
        <4> DEFINE t == IF dir.meta = NoMeta THEN now ELSE dir.mtime
        <4>1. t \in Nat
          BY <3>1
        <4>2. dir' = [dir EXCEPT !.meta = Torn, !.mtime = t]
          BY <3>3
        <4> HIDE DEF t
        <4> QED
          BY <1>0, <4>1, <4>2, BlankType, MetaTypes
      <3> QED
        BY <1>0, <1>3, <3>2, <3>3, OpenMoves
    <2> QED
      BY <1>0, <1>3, <1>q, <2>1, OpenMoves DEF MetaOpen
  <1>4. CASE MetaFill(s)
    <2>1. dir' \in Dirs
      <3>1. dir \in Dirs
        BY <1>0 DEF TypeOK
      <3>2. ASSUME NEW m \in MetaOf(s), dir' = [dir EXCEPT !.meta = m] PROVE dir' \in Dirs
        BY <1>0, <3>2, MetaTypes
      <3>3. dir' = dir \/ \E m \in MetaOf(s) : dir' = [dir EXCEPT !.meta = m]
        BY <1>0, <1>4, FillMoves
      <3> QED
        BY <3>1, <3>2, <3>3
    <2> QED
      BY <1>0, <1>4, <1>q, <2>1, FillMoves DEF MetaFill
  <1>5. CASE Leave(s)
    BY <1>0, <1>5, <1>q, Moved DEF Leave, Points, TypeOK
  <1>6. CASE Release(s) \/ UnlockRemove(s)
    <2>1. dir' \in Dirs
      BY <1>0, <1>6, NoDirType DEF Release, UnlockRemove, TypeOK
    <2> QED
      BY <1>0, <1>6, <1>q, <2>1, Returned, NoCallType DEF Release, UnlockRemove
  <1>7. ASSUME NEW stale \in BOOLEAN, Verdict(s, stale), UNCHANGED <<dir, inodes, now, procs>>
        PROVE  TypeInv'
    BY <1>0, <1>7, <1>q, VerdictMoves, NoCallType DEF TypeOK
  <1>8. CASE Lstat(s)
    <2>1. CASE dir.there
      BY <1>0, <1>8, <1>q, <2>1, LstatMoves DEF Lstat, TypeOK
    <2>2. CASE ~dir.there
      BY <1>7, <1>8, <2>2 DEF Lstat
    <2> QED
      BY <2>1, <2>2
  <1>9. CASE ReadMeta(s)
    <2> DEFINE m == IF dir.there THEN dir.meta ELSE NoMeta
    <2>1. m \in Metas
      BY <1>0, BlankType DEF TypeOK, Dirs
    <2>2. CASE m.state = "whole"
      BY <1>0, <1>9, <1>q, <2>1, <2>2, ReadMoves DEF ReadMeta, TypeOK
    <2>3. CASE m.state # "whole"
      <3>1. Verdict(s, ~Young(call[s].mtime)) /\ UNCHANGED <<dir, inodes, now, procs>>
        BY <1>9, <2>3 DEF ReadMeta
      <3>2. (~Young(call[s].mtime)) \in BOOLEAN
        BY DEF Young
      <3> QED
        BY <1>7, <3>1, <3>2
    <2> QED
      BY <2>2, <2>3
  <1>10. CASE Probe(s)
    <2>1. PICK stale \in Stale(call[s].read, HostOf[ProcOf[s]]) : Verdict(s, stale)
      BY <1>10 DEF Probe
    <2>2. stale \in BOOLEAN
      BY DEF Stale, Expired, Over
    <2> QED
      BY <1>7, <1>10, <2>1, <2>2 DEF Probe
  <1>11. CASE Compare(s)
    <2>1. call[s].attempt = 1
      BY <1>0, <1>11 DEF Compare, At, FirstSteal
    <2> QED
      BY <1>0, <1>11, <1>q, <2>1, CompareMoves, NoCallType DEF Compare, TypeOK
  <1>12. CASE StealRemove(s)
    <2>1. dir' \in Dirs
      BY <1>0, <1>12, StealMoves, NoDirType DEF TypeOK
    <2> QED
      BY <1>0, <1>12, <1>q, <2>1, StealMoves, NoCallType DEF StealRemove
  <1> QED
    BY <1>1, <1>2, <1>3, <1>4, <1>5, <1>6, <1>8, <1>9, <1>10, <1>11, <1>12 DEF Work

LEMMA TypeStep == TypeInv /\ [Next]_vars => TypeInv'
  <1> SUFFICES ASSUME TypeInv, [Next]_vars PROVE TypeInv'
    OBVIOUS
  <1> USE LocalLockAssumption
  <1>0. TypeOK /\ FirstSteal
    BY DEF TypeInv
  <1>1. ASSUME NEW s \in Scope, NEW o \in Ops, Begin(s, o) PROVE TypeInv'
    <2>1. UNCHANGED <<dir, inodes, now, procs>>
      BY <1>1 DEF Begin
    <2>2. /\ call' \in [Scope -> Calls] /\ call'[s].at = "mkdir"
          /\ \A r \in Scope \ {s} : call'[r] = call[r]
      BY <1>0, <1>1, BeginMoves
    <2>3. TypeOK'
      BY <1>0, <2>1, <2>2 DEF TypeOK, procs
    <2>4. FirstSteal'
      BY <1>0, <2>2 DEF FirstSteal
    <2> QED
      BY <2>3, <2>4 DEF TypeInv
  <1>2. ASSUME NEW p \in Proc, Crash(p) PROVE TypeInv'
    <2>1. call' \in [Scope -> Calls]
      BY <1>0, <1>2, NoCallType DEF Crash, TypeOK
    <2>2. FirstSteal'
      BY <1>0, <1>2, NoCallType DEF Crash, FirstSteal
    <2> QED
      BY <1>0, <1>2, <2>1, <2>2 DEF Crash, TypeInv, TypeOK
  <1>3. ASSUME NEW p \in Proc, Restart(p) PROVE TypeInv'
    BY <1>0, <1>3 DEF Restart, TypeInv, TypeOK, FirstSteal
  <1>4. CASE Tick
    BY <1>0, <1>4 DEF Tick, TypeInv, TypeOK, FirstSteal, procs
  <1>5. CASE UNCHANGED vars
    BY <1>0, <1>5 DEF vars, TypeInv, TypeOK, FirstSteal
  <1> QED
    BY <1>1, <1>2, <1>3, <1>4, <1>5, WorkType DEF Next

\* Every reachable state of the local lock, under every fault, is typed: a steal
\* is followed by one more attempt and no third.
THEOREM TypeCorrect == Spec => []TypeOK
  <1>1. TypeInv => TypeOK
    BY DEF TypeInv
  <1> QED
    BY <1>1, InitType, TypeStep, PTL DEF Spec
-----------------------------------------------------------------------------
(***************************************************************************)
(* The inductive invariant behind exclusion in a quiet environment         *)
(***************************************************************************)
\* Writes and removals may fail.  No scope outlives the grace or the TTL, start
\* times can be read, nobody acts in the windows between a look and a deletion,
\* and nobody forces an unlock.
Quiet ==
    /\ Faults \subseteq {"metaFail", "rmFail"}
    /\ \A s \in Scope : OpsOf[s] \subseteq {"run", "unlock"}

\* No scope owns the lock.
Free == \A o \in Scope : ~Owning(o)

\* The lock of an owner is its own, and young: as the mtime has it before the
\* meta is whole, as the meta has it from then on.
OwnersLock(o) ==
    Owning(o) =>
        /\ dir.there /\ dir.by = o
        /\ At(o, "meta") => dir.meta = NoMeta
        /\ At(o, "fill") => dir.meta = Torn /\ call[o].file = dir.ino
        /\ At(o, "cs") => dir.meta.state = "whole"
        /\ dir.meta.state # "whole" => now - dir.mtime < Grace
        /\ dir.meta.state = "whole" =>
              /\ dir.meta.proc = ProcOf[o] /\ dir.meta.life = life[ProcOf[o]]
              /\ dir.meta.start
              /\ dir.meta.created <= now /\ now - dir.meta.created <= TTL

\* What a scope has seen of a lock directory is past, or true of the one that is
\* there; and one it has found stale is nobody's.
LooksHold(s) ==
    LET seen == call[s].inspected
    IN  call[s].at \in {"read", "probe", "steal"} =>
            /\ seen.ino <= inodes
            /\ At(s, "probe") => call[s].read.state = "whole"
            /\ dir.there /\ dir.ino = seen.ino =>
                  /\ seen.marked => dir.meta # NoMeta
                  /\ At(s, "read") /\ seen = Identity(dir) => call[s].mtime = dir.mtime
                  /\ At(s, "probe") => dir.meta = call[s].read
                  /\ At(s, "steal") /\ seen = Identity(dir) => Free

\* A scope on its way to a deletion: the lock it is about is nobody's.
VerdictHolds(s) ==
    /\ call[s].op # "force"
    /\ At(s, "mkdir") \/ At(s, "lstat") => call[s].inspected = Unseen
    /\ At(s, "uremove") => call[s].op = "unlock"
    /\ At(s, "stealrm") \/ At(s, "uremove") => Free
    /\ call[s].op = "unlock" /\ (At(s, "read") \/ At(s, "probe")) =>
          dir.there /\ call[s].inspected = Identity(dir)

AliveCall(s) == ~At(s, "idle") => alive[ProcOf[s]]

ScopeInv(s) == OwnersLock(s) /\ LooksHold(s) /\ VerdictHolds(s) /\ AliveCall(s)

QuietInv ==
    /\ TypeInv
    /\ dir.ino <= inodes
    /\ \A s \in Scope : ScopeInv(s)

LEMMA QuietInit == Init => QuietInv
  <1> SUFFICES ASSUME Init PROVE QuietInv
    OBVIOUS
  <1>1. TypeInv
    BY InitType
  <1>2. dir.ino <= inodes
    BY LeftoverAssumption, NoDirType DEF Init
  <1>3. \A s \in Scope : call[s] = NoCall /\ alive[ProcOf[s]]
    BY LocalLockAssumption DEF Init
  <1>4. \A s \in Scope : ScopeInv(s)
    BY <1>3, NoCallType DEF ScopeInv, OwnersLock, LooksHold, VerdictHolds, AliveCall,
       Owning, At
  <1> QED
    BY <1>1, <1>2, <1>4 DEF QuietInv

\* A lock that was looked at and is still the same is nobody's if its look said
\* stale: without a whole meta it is too old to be just coming up, with one it is
\* too old or its process is gone.
LEMMA Aged ==
  ASSUME QuietInv, NEW s \in Scope, dir.there, dir.meta.state # "whole",
         ~Young(dir.mtime)
  PROVE  Free
  BY DEF QuietInv, ScopeInv, OwnersLock, Free, Young

LEMMA StaleIsFree ==
  ASSUME Quiet, QuietInv, dir.there, dir.meta.state = "whole", NEW h,
         TRUE \in Stale(dir.meta, h)
  PROVE  Free
  <1> SUFFICES ASSUME NEW o \in Scope, Owning(o) PROVE FALSE
    BY DEF Free
  <1> DEFINE m == dir.meta
  <1>1. /\ m.proc = ProcOf[o] /\ m.life = life[ProcOf[o]] /\ m.start
        /\ m.created <= now /\ now - m.created <= TTL
    BY DEF QuietInv, ScopeInv, OwnersLock
  <1>2. alive[ProcOf[o]]
    BY DEF QuietInv, ScopeInv, AliveCall, Owning, At
  <1>3. now \in Nat /\ m.created \in Nat /\ TTL \in Nat
    BY LocalLockAssumption DEF QuietInv, TypeInv, TypeOK, Dirs, Metas
  <1>4. ~Expired(m.created)
    BY <1>1, <1>3 DEF Expired
  <1>5. ~Over(m)
    BY <1>1, <1>2 DEF Over
  <1>6. "noStart" \notin Faults
    BY DEF Quiet
  <1> QED
    BY <1>1, <1>2, <1>4, <1>5, <1>6 DEF Stale

\* While a scope is between its look and its deletion, only it acts.
LEMMA OthersWait ==
  ASSUME Quiet, QuietInv, NEW s \in Scope, Undisturbed(s), NEW o \in Scope \ {s}
  PROVE  /\ ~At(o, "stealrm") /\ ~At(o, "uremove")
         /\ ~(call[o].op = "unlock" /\ (At(o, "read") \/ At(o, "probe")))
  <1>1. /\ At(o, "stealrm") => "stealWindow" \in Faults
        /\ call[o].op # "run" /\ call[o].at \in {"read", "probe", "uremove"}
              => "unlockWindow" \in Faults
    BY DEF Undisturbed
  <1>2. "stealWindow" \notin Faults /\ "unlockWindow" \notin Faults
    BY DEF Quiet
  <1>3. At(o, "uremove") => call[o].op = "unlock"
    BY DEF QuietInv, ScopeInv, VerdictHolds
  <1> QED
    BY <1>1, <1>2, <1>3 DEF At

-----------------------------------------------------------------------------
(***************************************************************************)
(* Each kind of step keeps it                                              *)
(***************************************************************************)
\* A step that leaves the lock path alone and wins nothing.
LEMMA SameDir ==
  ASSUME QuietInv, TypeInv', NEW s \in Scope,
         UNCHANGED <<dir, inodes, now, procs>>,
         \A r \in Scope \ {s} : call'[r] = call[r],
         Owning(s)' => Owning(s),
         ScopeInv(s)'
  PROVE  QuietInv'
  <1>1. Free => Free'
    BY DEF Free, Owning
  <1>2. ASSUME NEW r \in Scope \ {s} PROVE ScopeInv(r)'
    <2>1. ScopeInv(r) /\ call'[r] = call[r]
      BY DEF QuietInv
    <2>2. OwnersLock(r)'
      BY <2>1 DEF ScopeInv, OwnersLock, Owning, At, procs
    <2>3. LooksHold(r)'
      BY <1>1, <2>1 DEF ScopeInv, LooksHold, At, Identity
    <2>4. VerdictHolds(r)'
      BY <1>1, <2>1 DEF ScopeInv, VerdictHolds, At, Identity, Unseen
    <2>5. AliveCall(r)'
      BY <2>1 DEF ScopeInv, AliveCall, At, procs
    <2> QED
      BY <2>2, <2>3, <2>4, <2>5 DEF ScopeInv
  <1> QED
    BY <1>2 DEF QuietInv

\* A call at work is alive after the step too.
LEMMA StaysAlive ==
  ASSUME QuietInv, NEW s \in Scope, Work(s)
  PROVE  AliveCall(s)'
  <1>1. ~At(s, "idle")
    BY DEF Work, TryAcquire, TryAcquireRefused, MetaOpen, MetaFill, Leave, Release,
       Lstat, ReadMeta, Probe, Compare, StealRemove, UnlockRemove, At
  <1>2. alive' = alive
    BY DEF Work, TryAcquire, TryAcquireRefused, MetaOpen, MetaFill, Leave, Release,
       Lstat, ReadMeta, Probe, Compare, StealRemove, UnlockRemove, procs
  <1> QED
    BY <1>1, <1>2 DEF QuietInv, ScopeInv, AliveCall

\* Winning the mkdir: nobody owned the lock, and nobody has seen its inode.
LEMMA AcquireStep ==
  ASSUME Quiet, QuietInv, TypeInv', NEW s \in Scope, Undisturbed(s), TryAcquire(s)
  PROVE  QuietInv'
  <1> USE LocalLockAssumption
  <1>0. TypeOK /\ TypeOK'
    BY DEF QuietInv, TypeInv
  <1>1. /\ ~dir.there /\ inodes' = inodes + 1 /\ inodes \in Nat
        /\ UNCHANGED <<now, alive, life>> /\ now \in Nat
    BY <1>0 DEF TryAcquire, TypeOK, procs
  <1>2. dir' = [there |-> TRUE, ino |-> inodes', by |-> s, meta |-> NoMeta, mtime |-> now]
    BY DEF TryAcquire, NoDir
  <1>3. /\ call'[s].at = "meta" /\ call'[s].op = call[s].op
        /\ \A r \in Scope \ {s} : call'[r] = call[r]
    BY <1>0, Moved DEF TryAcquire, Points
  <1>4. \A o \in Scope : ~Owning(o)
    BY <1>1 DEF QuietInv, ScopeInv, OwnersLock
  <1>5. ScopeInv(s)'
    <2>1. OwnersLock(s)'
      BY <1>1, <1>2, <1>3, BlankType DEF OwnersLock, At
    <2>2. VerdictHolds(s)' /\ LooksHold(s)'
      BY <1>3 DEF QuietInv, ScopeInv, VerdictHolds, LooksHold, At
    <2> QED
      BY <2>1, <2>2, StaysAlive DEF Work, ScopeInv
  <1>6. ASSUME NEW r \in Scope \ {s} PROVE ScopeInv(r)'
    <2>1. ScopeInv(r) /\ call'[r] = call[r] /\ ~Owning(r)
      BY <1>3, <1>4 DEF QuietInv
    <2>2. OwnersLock(r)'
      BY <2>1 DEF OwnersLock, Owning
    <2>3. call[r].inspected.ino \in Int
      BY <1>0 DEF TypeOK, Calls, Identities
    <2>4. LooksHold(r)'
      BY <1>1, <1>2, <2>1, <2>3 DEF ScopeInv, LooksHold, At
    <2>5. VerdictHolds(r)'
      BY <2>1, OthersWait DEF ScopeInv, VerdictHolds, At, Unseen
    <2>6. AliveCall(r)'
      BY <1>1, <2>1 DEF ScopeInv, AliveCall, At
    <2> QED
      BY <2>2, <2>4, <2>5, <2>6 DEF ScopeInv
  <1> QED
    BY <1>1, <1>2, <1>5, <1>6 DEF QuietInv

\* What holds of the lock of the scope that is at its meta file.
LEMMA OwnLock ==
  ASSUME QuietInv, NEW s \in Scope, Owning(s)
  PROVE  /\ dir.there /\ dir.by = s
         /\ \A o \in Scope \ {s} : ~Owning(o)
  BY DEF QuietInv, ScopeInv, OwnersLock

\* The meta file comes into being: the identity of the lock changes with it.
LEMMA OpenStep ==
  ASSUME Quiet, QuietInv, TypeInv', NEW s \in Scope, Undisturbed(s), MetaOpen(s)
  PROVE  QuietInv'
  <1> USE LocalLockAssumption
  <1>0. TypeOK /\ Owning(s) /\ At(s, "meta") /\ UNCHANGED <<inodes, now, alive, life>>
    BY DEF QuietInv, TypeInv, MetaOpen, Owning, At, procs
  <1>1. /\ dir.there /\ dir.by = s /\ dir.meta = NoMeta
        /\ dir.meta.state # "whole" => now - dir.mtime < Grace
        /\ \A o \in Scope \ {s} : ~Owning(o)
    BY <1>0, OwnLock DEF QuietInv, ScopeInv, OwnersLock
  <1>2. call'[s].op = call[s].op /\ \A r \in Scope \ {s} : call'[r] = call[r]
    BY <1>0, OpenMoves
  <1>3. (VerdictHolds(s)' /\ LooksHold(s)') \/ call'[s].at \notin {"fill", "release"}
    BY <1>2 DEF QuietInv, ScopeInv, VerdictHolds, LooksHold, At
  <1>4. CASE call'[s].at = "release" /\ dir' = dir
    <2>1. OwnersLock(s)'
      BY <1>0, <1>1, <1>4, BlankType DEF OwnersLock, At
    <2>2. ScopeInv(s)'
      BY <1>3, <1>4, <2>1, StaysAlive DEF Work, ScopeInv
    <2> QED
      BY <1>0, <1>2, <1>4, <2>2, SameDir DEF procs
  <1>5. CASE /\ call'[s].at = "fill" /\ call'[s].file = dir.ino
             /\ dir' = [dir EXCEPT !.meta = Torn,
                                   !.mtime = IF dir.meta = NoMeta THEN now ELSE @]
    <2>1. /\ dir'.there /\ dir'.by = s /\ dir'.ino = dir.ino /\ dir'.meta = Torn
          /\ dir'.mtime = now /\ now \in Nat
      BY <1>0, <1>1, <1>5 DEF TypeOK, Dirs
    <2>2. OwnersLock(s)'
      BY <1>0, <1>5, <2>1, BlankType DEF OwnersLock, At
    <2>3. ScopeInv(s)'
      BY <1>3, <1>5, <2>2, StaysAlive DEF Work, ScopeInv
    <2>4. ASSUME NEW r \in Scope \ {s} PROVE ScopeInv(r)'
      <3>1. ScopeInv(r) /\ call'[r] = call[r] /\ ~Owning(r)
        BY <1>1, <1>2 DEF QuietInv
      <3>2. OwnersLock(r)'
        BY <3>1 DEF OwnersLock, Owning
      <3>3. Identity(dir').marked = TRUE /\ Torn # NoMeta
        BY <2>1, BlankType DEF Identity
      <3>4. LooksHold(r)'
        <4>1. call[r].at \in {"read", "probe", "steal"} /\ dir'.ino = call[r].inspected.ino =>
                 ~call[r].inspected.marked /\ ~At(r, "probe")
          BY <1>1, <2>1, <3>1, BlankType DEF ScopeInv, LooksHold
        <4> QED
          BY <1>0, <3>1, <3>3, <4>1 DEF ScopeInv, LooksHold, At
      <3>5. VerdictHolds(r)'
        BY <3>1, OthersWait DEF ScopeInv, VerdictHolds, At, Unseen
      <3>6. AliveCall(r)'
        BY <1>0, <3>1 DEF ScopeInv, AliveCall, At
      <3> QED
        BY <3>2, <3>4, <3>5, <3>6 DEF ScopeInv
    <2> QED
      BY <1>0, <2>1, <2>3, <2>4 DEF QuietInv
  <1> QED
    BY <1>0, <1>4, <1>5, OpenMoves

\* The meta file is filled: the lock names its owner, from now on.
LEMMA FillStep ==
  ASSUME Quiet, QuietInv, TypeInv', NEW s \in Scope, Undisturbed(s), MetaFill(s)
  PROVE  QuietInv'
  <1> USE LocalLockAssumption
  <1>0. TypeOK /\ Owning(s) /\ At(s, "fill") /\ UNCHANGED <<inodes, now, alive, life>>
    BY DEF QuietInv, TypeInv, MetaFill, Owning, At, procs
  <1>1. /\ dir.there /\ dir.by = s /\ dir.meta = Torn /\ call[s].file = dir.ino
        /\ dir.meta.state # "whole" => now - dir.mtime < Grace
        /\ \A o \in Scope \ {s} : ~Owning(o)
    BY <1>0, OwnLock DEF QuietInv, ScopeInv, OwnersLock
  <1>2. call'[s].op = call[s].op /\ \A r \in Scope \ {s} : call'[r] = call[r]
    BY <1>0, FillMoves
  <1>3. (VerdictHolds(s)' /\ LooksHold(s)') \/ call'[s].at \notin {"cs", "release"}
    BY <1>2 DEF QuietInv, ScopeInv, VerdictHolds, LooksHold, At
  <1>4. CASE call'[s].at = "release" /\ dir' = dir
    <2>1. OwnersLock(s)'
      BY <1>0, <1>1, <1>4, BlankType DEF OwnersLock, At
    <2>2. ScopeInv(s)'
      BY <1>3, <1>4, <2>1, StaysAlive DEF Work, ScopeInv
    <2> QED
      BY <1>0, <1>2, <1>4, <2>2, SameDir DEF procs
  <1>5. ASSUME call'[s].at \in {"cs", "release"},
               NEW m \in MetaOf(s), dir' = [dir EXCEPT !.meta = m]
        PROVE  QuietInv'
    <2>0. m.start = TRUE
      <3>1. "noStart" \notin Faults
        BY DEF Quiet
      <3>2. PICK known \in {TRUE} :
               m = [state |-> "whole", proc |-> ProcOf[s], life |-> life[ProcOf[s]],
                    start |-> known, created |-> now]
        BY <3>1, <1>5 DEF MetaOf
      <3> QED
        BY <3>2
    <2>1. /\ m.state = "whole" /\ m.proc = ProcOf[s] /\ m.life = life[ProcOf[s]]
          /\ m.created = now /\ now \in Nat
      BY <1>0, MetaTypes DEF TypeOK
    <2>2. /\ dir'.there /\ dir'.by = s /\ dir'.ino = dir.ino /\ dir'.meta = m
          /\ dir'.mtime = dir.mtime
      BY <1>0, <1>1, <1>5 DEF TypeOK, Dirs
    <2>3. OwnersLock(s)'
      BY <1>0, <1>5, <2>0, <2>1, <2>2 DEF OwnersLock, At
    <2>4. ScopeInv(s)'
      BY <1>3, <1>5, <2>3, StaysAlive DEF Work, ScopeInv
    <2>5. ASSUME NEW r \in Scope \ {s} PROVE ScopeInv(r)'
      <3>1. ScopeInv(r) /\ call'[r] = call[r] /\ ~Owning(r)
        BY <1>1, <1>2 DEF QuietInv
      <3>2. OwnersLock(r)'
        BY <3>1 DEF OwnersLock, Owning
      <3>3. Identity(dir') = Identity(dir) /\ m # NoMeta /\ ~Free
        BY <1>0, <1>1, <2>1, <2>2, BlankType DEF Identity, Free
      <3>4. LooksHold(r)'
        <4>1. call[r].at \in {"read", "probe", "steal"} /\ dir'.ino = call[r].inspected.ino =>
                 ~At(r, "probe")
          BY <1>1, <2>2, <3>1, BlankType DEF ScopeInv, LooksHold
        <4> QED
          BY <1>0, <1>1, <2>2, <3>1, <3>3, <4>1 DEF ScopeInv, LooksHold, At
      <3>5. VerdictHolds(r)'
        BY <3>1, OthersWait DEF ScopeInv, VerdictHolds, At, Unseen
      <3>6. AliveCall(r)'
        BY <1>0, <3>1 DEF ScopeInv, AliveCall, At
      <3> QED
        BY <3>2, <3>4, <3>5, <3>6 DEF ScopeInv
    <2> QED
      BY <1>0, <2>2, <2>4, <2>5 DEF QuietInv
  <1> QED
    BY <1>0, <1>1, <1>4, <1>5, FillMoves

\* A removal hits nobody but, in a release, the scope that sends it.
LEMMA RemovalStep ==
  ASSUME Quiet, QuietInv, TypeInv', NEW s \in Scope, Undisturbed(s), Work(s),
         At(s, "release") \/ At(s, "stealrm") \/ At(s, "uremove"),
         dir' = NoDir, UNCHANGED <<inodes, now, procs>>,
         \A r \in Scope \ {s} : call'[r] = call[r],
         call'[s].at \in {"idle", "mkdir"}, call'[s].op = "run",
         call'[s].inspected = Unseen
  PROVE  QuietInv'
  <1>1. \A o \in Scope \ {s} : ~Owning(o)
    <2>1. CASE At(s, "release")
      BY <2>1, OwnLock DEF Owning, At
    <2>2. CASE At(s, "stealrm") \/ At(s, "uremove")
      BY <2>2 DEF QuietInv, ScopeInv, VerdictHolds, Free
    <2> QED
      BY <2>1, <2>2
  <1>2. Free'
    BY <1>1 DEF Free, Owning
  <1>3. ~dir'.there /\ dir'.ino = 0 /\ inodes \in Nat
    BY NoDirType DEF QuietInv, TypeInv, TypeOK
  <1>4. ScopeInv(s)'
    <2>1. AliveCall(s)'
      BY StaysAlive
    <2> QED
      BY <1>2, <2>1 DEF ScopeInv, OwnersLock, LooksHold, VerdictHolds, Owning, At, Free, Unseen
  <1>5. ASSUME NEW r \in Scope \ {s} PROVE ScopeInv(r)'
    <2>1. ScopeInv(r) /\ call'[r] = call[r]
      BY DEF QuietInv
    <2>2. OwnersLock(r)'
      BY <1>2 DEF OwnersLock, Free
    <2>3. LooksHold(r)'
      BY <1>3, <2>1 DEF ScopeInv, LooksHold, At
    <2>4. VerdictHolds(r)'
      BY <1>2, <2>1, OthersWait DEF ScopeInv, VerdictHolds, At, Unseen
    <2>5. AliveCall(r)'
      BY <2>1 DEF ScopeInv, AliveCall, At, procs
    <2> QED
      BY <2>2, <2>3, <2>4, <2>5 DEF ScopeInv
  <1> QED
    BY <1>3, <1>4, <1>5 DEF QuietInv

\* A verdict is sound when stale means that the lock, if it is still the one the
\* scope inspected, is nobody's, and that an unlock's lock is nobody's.
LEMMA VerdictStep ==
  ASSUME QuietInv, TypeInv', NEW s \in Scope, Work(s),
         NEW stale \in BOOLEAN, Verdict(s, stale),
         UNCHANGED <<dir, inodes, now, procs>>, ~Owning(s),
         call[s].inspected.ino <= inodes,
         stale /\ dir.there /\ call[s].inspected = Identity(dir) => Free,
         dir.there /\ dir.ino = call[s].inspected.ino =>
            (call[s].inspected.marked => dir.meta # NoMeta),
         stale /\ call[s].op = "unlock" => Free
  PROVE  QuietInv'
  <1>0. TypeOK
    BY DEF QuietInv, TypeInv
  <1>1. \A r \in Scope \ {s} : call'[r] = call[r]
    BY <1>0, VerdictMoves
  <1>2. call[s].op # "force"
    BY DEF QuietInv, ScopeInv, VerdictHolds
  <1>3. CASE call'[s] = NoCall
    <2>1. ScopeInv(s)'
      BY <1>3, NoCallType
         DEF ScopeInv, OwnersLock, LooksHold, VerdictHolds, AliveCall, Owning, At
    <2> QED
      BY <1>1, <1>3, <2>1, NoCallType, SameDir DEF Owning
  <1>4. CASE /\ stale
             /\ call'[s].at = "steal" /\ call'[s].op = "run"
             /\ call'[s].inspected = call[s].inspected
    <2>1. Free => Free'
      BY <1>1, <1>4 DEF Free, Owning
    <2>2. LooksHold(s)'
      BY <1>4, <2>1 DEF LooksHold, At, Identity
    <2>3. OwnersLock(s)' /\ VerdictHolds(s)' /\ ~Owning(s)'
      BY <1>4 DEF OwnersLock, VerdictHolds, Owning, At
    <2> QED
      BY <1>1, <2>2, <2>3, StaysAlive, SameDir DEF ScopeInv
  <1>5. CASE /\ call[s].op = "unlock" /\ stale
             /\ call'[s].at = "uremove" /\ call'[s].op = call[s].op
    <2>1. Free'
      BY <1>1, <1>5 DEF Free, Owning
    <2>2. LooksHold(s)' /\ OwnersLock(s)' /\ VerdictHolds(s)' /\ ~Owning(s)'
      BY <1>5, <2>1 DEF LooksHold, OwnersLock, VerdictHolds, Owning, At
    <2> QED
      BY <1>1, <2>2, StaysAlive, SameDir DEF ScopeInv
  <1> QED
    BY <1>0, <1>2, <1>3, <1>4, <1>5, VerdictMoves

LEMMA LstatStep ==
  ASSUME Quiet, QuietInv, TypeInv', NEW s \in Scope, Lstat(s)
  PROVE  QuietInv'
  <1>0. TypeOK /\ At(s, "lstat") /\ ~Owning(s) /\ UNCHANGED <<dir, inodes, now, procs>>
    BY DEF QuietInv, TypeInv, Lstat, Owning, At
  <1>1. Work(s) /\ call[s].op # "force"
    BY DEF Work, QuietInv, ScopeInv, VerdictHolds
  <1>2. CASE dir.there
    <2>1. /\ call'[s].op = call[s].op /\ call'[s].at = "read"
          /\ call'[s].mtime = dir.mtime /\ call'[s].inspected = Identity(dir)
          /\ \A r \in Scope \ {s} : call'[r] = call[r]
      BY <1>0, <1>2, LstatMoves
    <2>2. Identity(dir).ino = dir.ino /\ Identity(dir).marked = (dir.meta # NoMeta)
      BY <1>0, IdentityType DEF TypeOK
    <2>3. LooksHold(s)'
      BY <1>0, <2>1, <2>2 DEF QuietInv, LooksHold, At
    <2>4. VerdictHolds(s)'
      BY <1>0, <1>1, <1>2, <2>1 DEF VerdictHolds, At, Identity
    <2>5. OwnersLock(s)' /\ ~Owning(s)'
      BY <2>1 DEF OwnersLock, Owning
    <2> QED
      BY <1>0, <1>1, <2>1, <2>3, <2>4, <2>5, StaysAlive, SameDir DEF ScopeInv
  <1>3. CASE ~dir.there
    <2>1. Free
      BY <1>3 DEF QuietInv, ScopeInv, OwnersLock, Free
    <2>2. call[s].inspected.ino <= inodes
      BY <1>0 DEF QuietInv, ScopeInv, VerdictHolds, Unseen, TypeOK
    <2>3. Verdict(s, TRUE)
      BY <1>3 DEF Lstat
    <2> QED
      BY <1>0, <1>1, <1>3, <2>1, <2>2, <2>3, VerdictStep
  <1> QED
    BY <1>2, <1>3

LEMMA ReadStep ==
  ASSUME Quiet, QuietInv, TypeInv', NEW s \in Scope, ReadMeta(s)
  PROVE  QuietInv'
  <1> DEFINE m == IF dir.there THEN dir.meta ELSE NoMeta
             seen == call[s].inspected
  <1>0. TypeOK /\ At(s, "read") /\ ~Owning(s) /\ UNCHANGED <<dir, inodes, now, procs>>
    BY DEF QuietInv, TypeInv, ReadMeta, Owning, At
  <1>1. Work(s) /\ m \in Metas
    BY <1>0, BlankType DEF Work, TypeOK, Dirs
  <1>2. /\ call[s].op # "force" /\ seen.ino <= inodes
        /\ dir.there /\ dir.ino = seen.ino =>
              /\ seen.marked => dir.meta # NoMeta
              /\ seen = Identity(dir) => call[s].mtime = dir.mtime
        /\ call[s].op = "unlock" => dir.there /\ seen = Identity(dir)
    BY <1>0 DEF QuietInv, ScopeInv, VerdictHolds, LooksHold, At
  <1>3. CASE m.state = "whole"
    <2>1. /\ call'[s].op = call[s].op /\ call'[s].at = "probe"
          /\ call'[s].read = m /\ call'[s].inspected = seen
          /\ \A r \in Scope \ {s} : call'[r] = call[r]
      BY <1>0, <1>1, <1>3, ReadMoves
    <2>2. LooksHold(s)'
      BY <1>0, <1>2, <1>3, <2>1 DEF LooksHold, At
    <2>3. VerdictHolds(s)'
      BY <1>0, <1>2, <2>1 DEF VerdictHolds, At, Identity
    <2>4. OwnersLock(s)' /\ ~Owning(s)'
      BY <2>1 DEF OwnersLock, Owning
    <2> QED
      BY <1>0, <1>1, <2>1, <2>2, <2>3, <2>4, StaysAlive, SameDir DEF ScopeInv
  <1>4. CASE m.state # "whole"
    <2> DEFINE stale == ~Young(call[s].mtime)
    <2>1. Verdict(s, stale) /\ stale \in BOOLEAN
      BY <1>4 DEF ReadMeta, Young
    <2>2. dir.there /\ seen = Identity(dir) => dir.ino = seen.ino
      BY <1>0, IdentityType DEF TypeOK
    <2>3. stale /\ dir.there /\ seen = Identity(dir) => Free
      BY <1>2, <1>4, <2>2, Aged
    <2> HIDE DEF stale
    <2> QED
      BY <1>0, <1>1, <1>2, <2>1, <2>2, <2>3, VerdictStep
  <1> QED
    BY <1>3, <1>4

LEMMA ProbeStep ==
  ASSUME Quiet, QuietInv, TypeInv', NEW s \in Scope, Probe(s)
  PROVE  QuietInv'
  <1> DEFINE seen == call[s].inspected
  <1>0. TypeOK /\ At(s, "probe") /\ ~Owning(s) /\ UNCHANGED <<dir, inodes, now, procs>>
    BY DEF QuietInv, TypeInv, Probe, Owning, At
  <1>1. PICK stale \in Stale(call[s].read, HostOf[ProcOf[s]]) : Verdict(s, stale)
    BY DEF Probe
  <1>2. stale \in BOOLEAN /\ Work(s)
    BY DEF Stale, Expired, Over, Work
  <1>3. /\ seen.ino <= inodes /\ call[s].read.state = "whole"
        /\ dir.there /\ dir.ino = seen.ino =>
              (seen.marked => dir.meta # NoMeta) /\ dir.meta = call[s].read
        /\ call[s].op = "unlock" => dir.there /\ seen = Identity(dir)
    BY <1>0 DEF QuietInv, ScopeInv, VerdictHolds, LooksHold, At
  <1>4. stale /\ dir.there /\ seen = Identity(dir) => Free
    <2> SUFFICES ASSUME stale, dir.there, seen = Identity(dir) PROVE Free
      OBVIOUS
    <2>1. dir.ino = seen.ino
      BY <1>0, IdentityType DEF TypeOK
    <2>2. dir.meta = call[s].read /\ dir.meta.state = "whole"
      BY <1>3, <2>1
    <2>3. TRUE \in Stale(dir.meta, HostOf[ProcOf[s]])
      BY <1>1, <1>2, <2>2
    <2> QED
      BY <2>2, <2>3, StaleIsFree
  <1> QED
    BY <1>0, <1>1, <1>2, <1>3, <1>4, VerdictStep

LEMMA CompareStep ==
  ASSUME Quiet, QuietInv, TypeInv', NEW s \in Scope, Compare(s)
  PROVE  QuietInv'
  <1>0. TypeOK /\ At(s, "steal") /\ ~Owning(s) /\ UNCHANGED <<dir, inodes, now, procs>>
    BY DEF QuietInv, TypeInv, Compare, Owning, At
  <1>1. Work(s) /\ \A r \in Scope \ {s} : call'[r] = call[r]
    BY <1>0, CompareMoves DEF Work
  <1>2. CASE call'[s] = NoCall
    <2>1. ScopeInv(s)' /\ ~Owning(s)'
      BY <1>2, NoCallType
         DEF ScopeInv, OwnersLock, LooksHold, VerdictHolds, AliveCall, Owning, At
    <2> QED
      BY <1>0, <1>1, <2>1, SameDir
  <1>3. CASE /\ dir.there /\ Identity(dir) = call[s].inspected
             /\ call'[s].at = "stealrm" /\ call'[s].op = "run"
    <2>1. dir.ino = call[s].inspected.ino
      BY <1>0, <1>3, IdentityType DEF TypeOK
    <2>2. Free
      BY <1>0, <1>3, <2>1 DEF QuietInv, ScopeInv, LooksHold, At
    <2>3. Free'
      BY <1>1, <1>3, <2>2 DEF Free, Owning
    <2>4. LooksHold(s)' /\ OwnersLock(s)' /\ VerdictHolds(s)' /\ ~Owning(s)'
      BY <1>3, <2>3 DEF LooksHold, OwnersLock, VerdictHolds, Owning, At
    <2> QED
      BY <1>0, <1>1, <2>4, StaysAlive, SameDir DEF ScopeInv
  <1> QED
    BY <1>0, <1>2, <1>3, CompareMoves

LEMMA ScopeStep ==
  ASSUME Quiet, QuietInv, TypeInv', NEW s \in Scope, Undisturbed(s),
         Work(s) \/ \E o \in Ops : Begin(s, o)
  PROVE  QuietInv'
  <1>0. TypeInv /\ TypeOK
    BY DEF QuietInv, TypeInv
  <1>1. ASSUME NEW o \in Ops, Begin(s, o) PROVE QuietInv'
    <2>1. /\ \A r \in Scope \ {s} : call'[r] = call[r]
          /\ call'[s].at = "mkdir" /\ call'[s].op = o /\ call'[s].inspected = Unseen
          /\ o \in OpsOf[s] /\ alive[ProcOf[s]]
          /\ UNCHANGED <<dir, inodes, now, procs>>
      BY <1>0, <1>1, BeginMoves DEF Begin
    <2>2. o # "force"
      BY <2>1 DEF Quiet
    <2>3. ScopeInv(s)' /\ ~Owning(s)'
      BY <2>1, <2>2
         DEF ScopeInv, OwnersLock, LooksHold, VerdictHolds, AliveCall, Owning, At, Unseen, procs
    <2> QED
      BY <2>1, <2>3, SameDir
  <1>2. CASE TryAcquireRefused(s)
    <2>1. /\ \A r \in Scope \ {s} : call'[r] = call[r]
          /\ call'[s].at = "lstat" /\ call'[s].op = call[s].op
          /\ call'[s].inspected = call[s].inspected /\ At(s, "mkdir")
          /\ UNCHANGED <<dir, inodes, now, procs>>
      BY <1>0, <1>2, Moved DEF TryAcquireRefused, Points
    <2>2. VerdictHolds(s)' /\ LooksHold(s)' /\ OwnersLock(s)' /\ ~Owning(s)'
      BY <2>1 DEF QuietInv, ScopeInv, VerdictHolds, LooksHold, OwnersLock, Owning, At, Unseen
    <2> QED
      BY <1>2, <2>1, <2>2, StaysAlive, SameDir DEF ScopeInv, Work
  <1>3. CASE Leave(s)
    <2>1. /\ \A r \in Scope \ {s} : call'[r] = call[r]
          /\ call'[s].at = "release" /\ call'[s].op = call[s].op /\ At(s, "cs")
          /\ UNCHANGED <<dir, inodes, now, procs>>
      BY <1>0, <1>3, Moved DEF Leave, Points
    <2>2. VerdictHolds(s)' /\ LooksHold(s)' /\ Owning(s)
      BY <2>1 DEF QuietInv, ScopeInv, VerdictHolds, LooksHold, Owning, At
    <2>3. OwnersLock(s)'
      BY <2>1, <2>2 DEF QuietInv, ScopeInv, OwnersLock, At, procs
    <2> QED
      BY <1>3, <2>1, <2>2, <2>3, StaysAlive, SameDir DEF ScopeInv, Work
  <1>4. CASE Release(s) \/ UnlockRemove(s)
    <2>1. /\ At(s, "release") \/ At(s, "uremove")
          /\ \A r \in Scope \ {s} : call'[r] = call[r]
          /\ call'[s] = NoCall /\ UNCHANGED <<inodes, now, procs>>
          /\ dir' = NoDir \/ dir' = dir
          /\ Work(s)
      BY <1>0, <1>4, Returned DEF Release, UnlockRemove, Work
    <2>2. CASE dir' = NoDir
      BY <2>1, <2>2, NoCallType, RemovalStep
    <2>3. CASE dir' = dir
      <3>1. ScopeInv(s)' /\ ~Owning(s)'
        BY <2>1, NoCallType
           DEF ScopeInv, OwnersLock, LooksHold, VerdictHolds, AliveCall, Owning, At
      <3> QED
        BY <2>1, <2>3, <3>1, SameDir
    <2> QED
      BY <2>1, <2>2, <2>3
  <1>5. CASE StealRemove(s)
    <2>1. /\ At(s, "stealrm") /\ \A r \in Scope \ {s} : call'[r] = call[r]
          /\ UNCHANGED <<inodes, now, procs>> /\ Work(s)
      BY <1>0, <1>5, StealMoves DEF StealRemove, Work
    <2>2. CASE dir' = dir /\ call'[s] = NoCall
      <3>1. ScopeInv(s)' /\ ~Owning(s)'
        BY <2>2, NoCallType
           DEF ScopeInv, OwnersLock, LooksHold, VerdictHolds, AliveCall, Owning, At
      <3> QED
        BY <2>1, <2>2, <3>1, SameDir
    <2>3. CASE /\ dir' = NoDir /\ call'[s].at = "mkdir" /\ call'[s].op = "run"
               /\ call'[s].inspected = Unseen
      BY <2>1, <2>3, RemovalStep
    <2> QED
      BY <1>0, <1>5, <2>2, <2>3, StealMoves
  <1> QED
    BY <1>1, <1>2, <1>3, <1>4, <1>5, AcquireStep, OpenStep, FillStep, LstatStep,
       ReadStep, ProbeStep, CompareStep DEF Work

\* The clock, kills and restarts.
LEMMA EnvironmentStep ==
  ASSUME Quiet, QuietInv, TypeInv', Tick \/ \E p \in Proc : Crash(p) \/ Restart(p)
  PROVE  QuietInv'
  <1> USE LocalLockAssumption
  <1>0. TypeOK
    BY DEF QuietInv, TypeInv
  <1>1. CASE Tick
    <2>1. /\ UNCHANGED <<dir, inodes, call, alive, life>> /\ now' = now + 1 /\ now \in Nat
          /\ \A s \in Scope : dir.by = s => Prompt(s)
      BY <1>0, <1>1 DEF Tick, Quiet, procs, TypeOK
    <2>2. ASSUME NEW s \in Scope PROVE ScopeInv(s)'
      <3>1. ScopeInv(s)
        BY DEF QuietInv
      <3>2. OwnersLock(s)'
        <4>1. dir.meta.created \in Nat /\ dir.mtime \in Nat
          BY <1>0 DEF TypeOK, Dirs, Metas
        <4>2. Owning(s) => Prompt(s)
          BY <2>1, <3>1 DEF ScopeInv, OwnersLock
        <4> QED
          BY <2>1, <3>1, <4>1, <4>2 DEF ScopeInv, OwnersLock, Prompt, Owning, At
      <3>3. LooksHold(s)' /\ VerdictHolds(s)' /\ AliveCall(s)'
        BY <2>1, <3>1
           DEF ScopeInv, LooksHold, VerdictHolds, AliveCall, Free, Owning, At, Identity, Unseen
      <3> QED
        BY <3>2, <3>3 DEF ScopeInv
    <2> QED
      BY <2>1, <2>2 DEF QuietInv
  <1>2. ASSUME NEW p \in Proc, Crash(p) PROVE QuietInv'
    <2>1. /\ UNCHANGED <<dir, inodes, now, life>>
          /\ \A q \in Proc \ {p} : alive'[q] = alive[q]
          /\ \A s \in Scope : IF ProcOf[s] = p THEN call'[s] = NoCall ELSE call'[s] = call[s]
      BY <1>0, <1>2 DEF Crash, TypeOK
    <2>2. Free => Free'
      BY <2>1, NoCallType DEF Free, Owning
    <2>3. ASSUME NEW s \in Scope PROVE ScopeInv(s)'
      <3>1. CASE ProcOf[s] = p
        BY <2>1, <3>1, NoCallType
           DEF ScopeInv, OwnersLock, LooksHold, VerdictHolds, AliveCall, Owning, At
      <3>2. CASE ProcOf[s] # p
        <4>1. ScopeInv(s) /\ call'[s] = call[s] /\ alive'[ProcOf[s]] = alive[ProcOf[s]]
          BY <2>1, <3>2 DEF QuietInv
        <4>2. OwnersLock(s)' /\ AliveCall(s)'
          BY <2>1, <4>1 DEF ScopeInv, OwnersLock, AliveCall, Owning, At
        <4>3. LooksHold(s)' /\ VerdictHolds(s)'
          BY <2>1, <2>2, <4>1 DEF ScopeInv, LooksHold, VerdictHolds, At, Identity, Unseen
        <4> QED
          BY <4>2, <4>3 DEF ScopeInv
      <3> QED
        BY <3>1, <3>2
    <2> QED
      BY <2>1, <2>3 DEF QuietInv
  <1>3. ASSUME NEW p \in Proc, Restart(p) PROVE QuietInv'
    <2>1. /\ UNCHANGED <<dir, inodes, now, call>> /\ ~alive[p]
          /\ \A q \in Proc \ {p} : alive'[q] = alive[q] /\ life'[q] = life[q]
          /\ alive'[p]
      BY <1>0, <1>3 DEF Restart, TypeOK
    <2>2. ASSUME NEW s \in Scope PROVE ScopeInv(s)'
      <3>1. ScopeInv(s)
        BY DEF QuietInv
      <3>2. ~At(s, "idle") => ProcOf[s] # p
        BY <2>1, <3>1 DEF ScopeInv, AliveCall
      <3>3. OwnersLock(s)' /\ AliveCall(s)'
        BY <2>1, <3>1, <3>2 DEF ScopeInv, OwnersLock, AliveCall, Owning, At
      <3>4. LooksHold(s)' /\ VerdictHolds(s)'
        BY <2>1, <3>1 DEF ScopeInv, LooksHold, VerdictHolds, Free, Owning, At, Identity, Unseen
      <3> QED
        BY <3>3, <3>4 DEF ScopeInv
    <2> QED
      BY <2>1, <2>2 DEF QuietInv
  <1> QED
    BY <1>1, <1>2, <1>3

LEMMA QuietStep ==
  ASSUME Quiet, QuietInv, [Next]_vars
  PROVE  QuietInv'
  <1>0. TypeInv'
    BY TypeStep DEF QuietInv
  <1>1. ASSUME NEW s \in Scope, Undisturbed(s), Work(s) \/ \E o \in Ops : Begin(s, o)
        PROVE  QuietInv'
    BY <1>0, <1>1, ScopeStep
  <1>2. CASE Tick \/ \E p \in Proc : Crash(p) \/ Restart(p)
    BY <1>0, <1>2, EnvironmentStep
  <1>3. CASE UNCHANGED vars
    <2>1. \A s \in Scope : ScopeInv(s)'
      BY <1>3 DEF vars, QuietInv, ScopeInv, OwnersLock, LooksHold, VerdictHolds, AliveCall,
         Free, Owning, At, Identity, Unseen
    <2> QED
      BY <1>0, <1>3, <2>1 DEF vars, QuietInv
  <1> QED
    BY <1>1, <1>2, <1>3 DEF Next

LEMMA QuietHolds ==
  ASSUME Quiet
  PROVE  Spec => []QuietInv
  BY QuietInit, QuietStep, PTL DEF Spec

-----------------------------------------------------------------------------
(***************************************************************************)
(* What the lock is for                                                    *)
(***************************************************************************)
\* No removal, relabelling or restart takes a running scope's lock from it: the
\* identity check before a steal, the pid and start-time check of a contender and
\* the grace of a new lock are together enough.
THEOREM HolderIsSafe ==
  ASSUME Quiet
  PROVE  Spec => []HolderKeepsLock
  <1>1. QuietInv => HolderKeepsLock
    BY DEF QuietInv, ScopeInv, OwnersLock, HolderKeepsLock, Owning, At
  <1> QED
    BY <1>1, QuietHolds, PTL

\* A scope enters its pipeline by filling the meta file.
LEMMA EntersByFill ==
  ASSUME Quiet, QuietInv, QuietInv', [Next]_vars, NEW s \in Inside', s \notin Inside
  PROVE  At(s, "fill") /\ \A r \in Scope \ {s} : call'[r] = call[r]
  <1> USE DEF Inside, At
  <1>0. TypeInv /\ TypeOK /\ s \in Scope /\ call'[s].at = "cs" /\ call[s].at # "cs"
    BY DEF QuietInv, TypeInv
  <1>1. ASSUME NEW r \in Scope, Work(r) \/ \E o \in Ops : Begin(r, o)
        PROVE  At(s, "fill") /\ \A q \in Scope \ {s} : call'[q] = call[q]
    <2>1. CASE \E o \in Ops : Begin(r, o)
      BY <1>0, <2>1, BeginMoves
    <2>2. CASE TryAcquire(r) \/ TryAcquireRefused(r) \/ Leave(r)
      BY <1>0, <2>2, Moved DEF TryAcquire, TryAcquireRefused, Leave, Points
    <2>3. CASE MetaOpen(r)
      BY <1>0, <2>3, OpenMoves
    <2>4. CASE MetaFill(r)
      BY <1>0, <2>4, FillMoves DEF MetaFill
    <2>5. CASE Release(r) \/ UnlockRemove(r)
      BY <1>0, <2>5, Returned, NoCallType DEF Release, UnlockRemove
    <2>6. ASSUME NEW stale \in BOOLEAN, Verdict(r, stale) PROVE FALSE
      BY <1>0, <2>6, VerdictMoves, NoCallType
    <2>7. CASE Lstat(r)
      BY <1>0, <2>6, <2>7, LstatMoves DEF Lstat
    <2>8. CASE ReadMeta(r)
      <3> DEFINE m == IF dir.there THEN dir.meta ELSE NoMeta
      <3>1. m \in Metas
        BY <1>0, BlankType DEF TypeOK, Dirs
      <3>2. CASE m.state = "whole"
        BY <1>0, <2>8, <3>1, <3>2, ReadMoves
      <3>3. CASE m.state # "whole"
        BY <2>6, <2>8, <3>3 DEF ReadMeta, Young
      <3> QED
        BY <3>2, <3>3
    <2>9. CASE Probe(r)
      BY <2>6, <2>9 DEF Probe, Stale, Expired, Over
    <2>10. CASE Compare(r)
      BY <1>0, <2>10, CompareMoves, NoCallType
    <2>11. CASE StealRemove(r)
      BY <1>0, <2>11, StealMoves, NoCallType
    <2> QED
      BY <1>1, <2>1, <2>2, <2>3, <2>4, <2>5, <2>7, <2>8, <2>9, <2>10, <2>11 DEF Work
  <1>2. ASSUME NEW p \in Proc, Crash(p) \/ Restart(p) PROVE FALSE
    BY <1>0, <1>2, NoCallType DEF Crash, Restart
  <1>3. CASE Tick \/ UNCHANGED vars
    BY <1>0, <1>3 DEF Tick, vars
  <1> QED
    BY <1>1, <1>2, <1>3 DEF Next

\* The local lock implements the abstract mutex: every step is an entry into an
\* empty root, an exit, or invisible.
THEOREM ImplementsMutex ==
  ASSUME Quiet
  PROVE  Spec => MutexSpec
  <1>1. Init => Mutex!Init
    BY NoCallType DEF Init, Mutex!Init, Inside, At
  <1>2. QuietInv /\ QuietInv' /\ [Next]_vars => [Mutex!Next]_Inside
    <2> SUFFICES ASSUME QuietInv, QuietInv', [Next]_vars PROVE [Mutex!Next]_Inside
      OBVIOUS
    <2>1. CASE Inside' \subseteq Inside
      <3>1. CASE Inside' = Inside
        BY <3>1
      <3>2. CASE Inside' # Inside
        <4> DEFINE S == Inside \ Inside'
        <4>1. /\ S # {} /\ S \subseteq Inside /\ Inside' = Inside \ S
              /\ S \in SUBSET Scope
          BY <2>1, <3>2 DEF Inside
        <4> HIDE DEF S
        <4>2. Mutex!Leave(S)
          BY <4>1 DEF Mutex!Leave
        <4> QED
          BY <4>1, <4>2 DEF Mutex!Next
      <3> QED
        BY <3>1, <3>2
    <2>2. ASSUME NEW s \in Inside', s \notin Inside PROVE Mutex!Next
      <3>1. At(s, "fill") /\ s \in Scope
        BY <2>2, EntersByFill DEF Inside
      <3>2. Inside = {}
        BY <3>1, OwnLock DEF Inside, Owning, At
      <3>3. Inside' = {s}
        <4>1. \A r \in Inside' : r = s
          BY <2>2, <3>2, EntersByFill DEF Inside, At
        <4> QED
          BY <2>2, <4>1
      <3> QED
        BY <3>1, <3>2, <3>3 DEF Mutex!Next, Mutex!Enter
    <2> QED
      BY <2>1, <2>2
  <1> QED
    BY <1>1, <1>2, QuietHolds, PTL DEF Spec, MutexSpec, Mutex!Spec
=============================================================================
