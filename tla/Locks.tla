------------------------------- MODULE Locks -------------------------------
(***************************************************************************)
(* The destination lock of a target, whichever store it has: one algorithm *)
(* (lock.ts) over the backend of the local store (module LocalLock) or of  *)
(* the remote store (module RemoteLock).                                   *)
(***************************************************************************)
EXTENDS LocalLock

\* The other parameters of RemoteLock; its scopes and processes are among those
\* of LocalLock.
CONSTANTS RemoteScope, RemoteProc, Dir, DirOf, RemoteLeftover, RemoteTTL,
          RemoteAcquire, RemoteLives, RemoteFaults

\* The store of the target, and the variables of RemoteLock.
VARIABLES kind, lock, late, lastTok, rcall, mem, disk, ralive, rlife, robbed

remoteVars == <<lock, late, lastTok, rcall, mem, disk, ralive, rlife, robbed>>
localVars == <<dir, inodes, call, procs>>
allVars == <<kind, vars, remoteVars>>

R == INSTANCE RemoteLock WITH
         Scope <- RemoteScope, Proc <- RemoteProc,
         ProcOf <- [s \in RemoteScope |-> ProcOf[s]],
         HostOf <- [p \in RemoteProc |-> HostOf[p]],
         Leftover <- RemoteLeftover, TTL <- RemoteTTL, MaxAcquire <- RemoteAcquire,
         MaxLives <- RemoteLives, Faults <- RemoteFaults,
         call <- rcall, alive <- ralive, life <- rlife

ASSUME RemoteAssumption == RemoteScope \subseteq Scope /\ RemoteProc \subseteq Proc

\* Nobody uses the lock of the other store.
LocksInit ==
    /\ Init /\ R!Init
    /\ kind \in {"local", "remote"}
    /\ kind = "local" => lock = R!NoLock
    /\ kind = "remote" => dir = NoDir

\* storeFor: a target has one store, and keeps it.
LocksNext ==
    /\ UNCHANGED kind
    /\ \/ kind = "local" /\ Next /\ UNCHANGED remoteVars
       \/ kind = "remote" /\ R!Next /\ UNCHANGED localVars

\* The fair steps, in terms of what they change: a started call goes on, the clock
\* moves, the service manager restarts a dead process, and the scheduler comes
\* back to a target on a later tick.
Local(A) == kind = "local" /\ A /\ UNCHANGED <<ralive, rcall>>
Remote(A) == kind = "remote" /\ A /\ UNCHANGED <<alive, call>>

Ticks == Local(Tick) \/ Remote(R!Tick)
Restarts(p) == Local(Restart(p)) \/ Remote(p \in RemoteProc /\ R!Restart(p))
Works(s) == \/ Local(Undisturbed(s) /\ Work(s))
            \/ Remote(s \in RemoteScope /\ R!Undisturbed(s) /\ R!Work(s))
Begins(s) == \/ Local(Undisturbed(s) /\ Begin(s, "run"))
             \/ Remote(s \in RemoteScope /\ R!Undisturbed(s) /\ R!Begin(s, "run"))

LocksSpec ==
    /\ LocksInit /\ [][LocksNext]_allVars
    /\ WF_now(Ticks)
    /\ \A p \in Proc : WF_<<alive, ralive>>(Restarts(p))
    /\ \A s \in Scope : WF_<<call, rcall>>(Works(s)) /\ SF_<<call, rcall>>(Begins(s))

-----------------------------------------------------------------------------
\* Whichever store it is in, a lock whose holder is gone does not block the archive
\* for ever.  A local one is judged by its meta, or by its age when it has none.  A
\* remote one is retaken by the next life of its process, through the record in
\* the state directory and without waiting for a TTL (where the clock ends before
\* any TTL does); and a creation time in the future ages like one of the past.
Left == Abandoned \/ R!Abandoned
LeftLockIsFreed == Left ~> ~Left
=============================================================================
