------------------------------ MODULE Command ------------------------------
(***************************************************************************)
(* Running another program: exec (src/src/exec/exec.ts), the retry loop     *)
(* around it (src/src/shared/retry.ts) and its users: runRemote             *)
(* (src/src/ssh/ssh.ts), runTransfer and dryRunStats (src/src/rsync/        *)
(* rsync.ts).  Every command backupkit sends, and every transfer, is one    *)
(* call of this module.                                                     *)
(*                                                                         *)
(* A process makes the calls of one pass (Passes), each in turn: a transfer *)
(* and the release of the destination lock in its finally block, a          *)
(* command alone, ...  The operating system ends the child at any moment;   *)
(* the event loop learns of it in a later step, and of the end of its pipes *)
(* when the last process that holds them is gone, which may be never.       *)
(* A command sent over ssh takes effect on the server, also after the ssh   *)
(* that sent it has died.                                                   *)
(*                                                                         *)
(* Time passes in half seconds and never while the event loop has something *)
(* to do: timers that are due, a child's exit.  SIGKILL ends a child.       *)
(***************************************************************************)
EXTENDS Integers, Sequences

CONSTANTS
    Passes,        \* the sequences of calls a process may make
    RetryAttempts, \* retry.attempts of the target
    Probes,        \* probes of an alias whose key is refused; 0 for an explicit remote
    TimeoutStop    \* TimeoutStopSec of the unit, in half seconds

Kinds == {"command", "once", "release", "transfer", "estimate"}

ASSUME CommandAssumption ==
    /\ \A p \in Passes : p \in Seq(Kinds) /\ p # <<>>
    /\ RetryAttempts \in 1..10
    /\ Probes \in Nat /\ TimeoutStop \in Nat

VARIABLES
    todo,    \* the calls of the pass that are left; the first is in progress
    call,    \* withTransientRetry: where it stands, the attempt and, while the
             \* cause of its failure is looked for, the probe, the result
    exec,    \* exec's locals: exited, timedOut, the abort listener
    timer,   \* the timers of both, in half seconds
    child,   \* the child process
    runs,    \* times the command in progress took effect
    orphans, \* commands of it still running on the server without their ssh
    stop,    \* the shutdown signal
    spent,   \* half seconds since the stop, until they are too many (ghost)
    asked    \* calls of the pass that have asked why a key is refused (ghost)

ghosts == <<spent, asked>>
vars == <<todo, call, exec, timer, child, runs, orphans, stop, ghosts>>

Off == -1
Timer == {"term", "kill", "abortKill", "drain", "sleep"}

-----------------------------------------------------------------------------
(***************************************************************************)
(* Calls.  "command" is a store command, "once" one that must not be sent   *)
(* again (mkdir of the lock, mv), "release" the detached removal of the     *)
(* lock, which gets no shutdown signal.                                     *)
(***************************************************************************)
Kind == Head(todo)
OverSsh == Kind \in {"command", "once", "release"}
Probing == call.probe > 0

Attempts == CASE Kind = "once" -> 1
              [] Kind = "release" -> 2
              [] Kind = "transfer" -> RetryAttempts
              [] OTHER -> 3

\* Mutant: the release is an ordinary command, with ordinary timeouts.
Timeout_Same == IF OverSsh THEN 120 ELSE Off

Timeout == CASE Kind = "release" -> 14
             [] Kind \in {"command", "once"} -> 120
             [] OTHER -> Off

\* The child is given the signal; the loop is, too.
ChildSignal == Kind # "release"
LoopSignal == ChildSignal /\ Kind # "estimate"

BaseDelay == CASE Kind = "release" -> 2 [] Kind = "transfer" -> 30 [] OTHER -> 4
CapDelay == CASE Kind = "release" -> 2 [] Kind = "transfer" -> 600 [] OTHER -> 16

\* The ends of the jitter around the delay before attempt n.
RetryDelays(n) ==
    LET doubled == BaseDelay * 2^(n - 2)
        base == IF doubled < CapDelay THEN doubled ELSE CapDelay
    IN  {(8 * base) \div 10, (12 * base + 9) \div 10}

-----------------------------------------------------------------------------
(***************************************************************************)
(* How a child ends: an exit code, or Signal, and what its stderr says:     *)
(* "denied" is a permanent ssh pattern, "rejected" the jail's refusal.      *)
(***************************************************************************)
Signal == -1
End(exit, says) == [exit |-> exit, says |-> says]
Endings == [exit : Int, says : {"", "denied", "rejected"}]

\* One code of every row of classifyExit; 0 and 1 are the remote command's.
OwnEnds == IF Probing THEN {End(0, "")}   \* what a probe says is left open
           ELSE IF OverSsh
           THEN {End(0, ""), End(1, ""), End(255, ""), End(255, "denied"), End(Signal, "")}
           ELSE {End(0, ""), End(23, ""), End(24, ""), End(12, ""), End(12, "rejected"),
                 End(255, ""), End(255, "denied"), End(11, ""), End(1, ""), End(99, ""),
                 End(Signal, "")}

TermEnds == {End(Signal, ""), IF OverSsh THEN End(255, "") ELSE End(20, "")}

ClassifyExit(end) ==
    LET row(class, retriable, promote) ==
            [class |-> class, retriable |-> retriable, promote |-> promote]
        refused == \/ end.says = "rejected"
                   \/ end.exit = 255 /\ end.says = "denied"
    IN  CASE end.exit \in {Signal, 20} -> row("signal", FALSE, FALSE)
          [] end.exit = 0 -> row("ok", FALSE, TRUE)
          [] end.exit \in {23, 24} -> row("warning", FALSE, TRUE)
          [] ~refused /\ end.exit \in {10, 12, 13, 14, 21, 30, 35, 255} ->
                 row("transient", TRUE, FALSE)
          [] ~refused /\ end.exit = 11 -> row("disk", FALSE, FALSE)
          [] ~refused /\ end.exit \in {1, 2, 4, 5, 6} -> row("hard", FALSE, FALSE)
          [] OTHER -> row("fatal", FALSE, FALSE)

\* Mutant: a timeout is an answer.
RemoteFails_NotTimeouts(end, timedOut) == end.exit \in {Signal}

\* What runRemote makes of an end: any exit but 255 is the command's own answer.
RemoteFails(end, timedOut) == timedOut \/ end.exit \in {Signal, 255}
RemoteRetriable(end, timedOut) == timedOut \/ end.says # "denied"

\* The end tells that the command ran, or that everything was transferred.
Tells(end) == ~Probing /\ end.exit \in (IF OverSsh THEN {0, 1} ELSE {0, 23, 24})

-----------------------------------------------------------------------------
NoChild == [state |-> "none", end |-> End(Signal, ""), termed |-> FALSE,
            killed |-> FALSE, held |-> FALSE, link |-> "unsent"]
Fresh == [at |-> "begin", attempt |-> 0, probe |-> 0, result |-> "none"]
NoExec == [exited |-> FALSE, timedOut |-> FALSE, listening |-> FALSE]
NoTimers == [t \in Timer |-> Off]

TypeOK ==
    /\ todo \in Seq(Kinds) /\ todo # <<>>
    /\ call \in [at : {"begin", "exec", "sleep", "done"}, attempt : Nat, probe : Nat,
                 result : {"none", "ok", "failed"}]
    /\ exec \in [exited : BOOLEAN, timedOut : BOOLEAN, listening : BOOLEAN]
    /\ timer = [t \in Timer |-> timer[t]]
    /\ child \in [state : {"none", "alive", "dead"}, end : Endings,
                  termed : BOOLEAN, killed : BOOLEAN, held : BOOLEAN,
                  link : {"unsent", "running", "done"}]
    /\ runs \in Nat /\ orphans \in Nat
    /\ stop \in BOOLEAN /\ spent \in Nat /\ asked \in Nat

Init ==
    /\ todo \in Passes
    /\ call = Fresh
    /\ exec = NoExec /\ timer = NoTimers /\ child = NoChild
    /\ runs = 0 /\ orphans = 0 /\ stop = FALSE /\ spent = 0 /\ asked = 0

-----------------------------------------------------------------------------
(***************************************************************************)
(* Attempts                                                                *)
(***************************************************************************)
Cleanup(timers) == [timers EXCEPT !["term"] = Off, !["kill"] = Off, !["abortKill"] = Off]

\* The timers once a promise has settled.
Settled == [Cleanup(timer) EXCEPT !["drain"] = Off, !["sleep"] = Off]

Return(result) ==
    /\ call' = [call EXCEPT !.at = "done", !.result = result]
    /\ exec' = NoExec /\ timer' = Settled

\* Attempt n starts: exec spawns the child, arms the timeout and listens for the abort,
\* or SIGTERMs the child at once when the abort has come.
Launch(n) ==
    \/ /\ Kind = "transfer" /\ stop
       /\ Return("failed") /\ UNCHANGED child
    \/ /\ ~(Kind = "transfer" /\ stop)
       /\ Return("failed") /\ UNCHANGED child   \* the program cannot be spawned
    \/ /\ ~(Kind = "transfer" /\ stop)
       /\ call' = [call EXCEPT !.at = "exec", !.attempt = n]
       /\ LET aborted == ChildSignal /\ stop
          IN  /\ exec' = [NoExec EXCEPT !.listening = ChildSignal /\ ~stop]
              /\ timer' = [Settled EXCEPT !["term"] = Timeout,
                                          !["abortKill"] = IF aborted THEN 20 ELSE Off]
              /\ \E held \in BOOLEAN :
                     child' = [NoChild EXCEPT !.state = "alive", !.termed = aborted,
                                              !.held = held]

Begin ==
    /\ call.at = "begin"
    /\ Launch(1)
    /\ UNCHANGED <<todo, runs, orphans, stop, ghosts>>

\* Mutant: the abort is not looked at after the backoff.
Wake_Blind ==
    /\ call.at = "sleep"
    /\ timer["sleep"] = 0
    /\ Launch(call.attempt + 1)
    /\ UNCHANGED <<todo, runs, orphans, stop, ghosts>>

\* The backoff ends, by its timer or by the abort; the abort is looked at again.
Wake ==
    /\ call.at = "sleep"
    /\ timer["sleep"] = 0
    /\ IF LoopSignal /\ stop THEN Return("failed") /\ UNCHANGED child ELSE Launch(call.attempt + 1)
    /\ UNCHANGED <<todo, runs, orphans, stop, ghosts>>

\* The next call of the pass: the finally block after a transfer.
NextCall ==
    /\ call.at = "done" /\ Len(todo) > 1
    /\ todo' = Tail(todo)
    /\ call' = Fresh
    /\ child' = NoChild /\ runs' = 0 /\ orphans' = 0
    /\ UNCHANGED <<exec, timer, stop, ghosts>>

-----------------------------------------------------------------------------
(***************************************************************************)
(* The promise of exec settles, once, with how the child ended.  The loop   *)
(* judges it in the same turn of the event loop, or first asks why an alias *)
(* was refused: a row of further programs, each with a timeout but without  *)
(* the shutdown signal.                                                     *)
(***************************************************************************)
Retry ==
    /\ call' = [call EXCEPT !.at = "sleep"]
    /\ exec' = NoExec
    /\ \E d \in RetryDelays(call.attempt + 1) : timer' = [Settled EXCEPT !["sleep"] = d]

\* An error the classifiers call retriable, with attempts left and no stop.
Caught(retriable) ==
    IF ~retriable \/ call.attempt >= Attempts \/ (LoopSignal /\ stop)
    THEN Return("failed")
    ELSE Retry

\* What a call makes of its end; a diagnosis changes the message only.
Verdict ==
    IF Probing THEN Return("failed")
    ELSE IF OverSsh
    THEN IF RemoteFails(child.end, exec.timedOut)
         THEN Caught(RemoteRetriable(child.end, exec.timedOut))
         ELSE Return("ok")
    ELSE LET c == ClassifyExit(child.end)
         IN  \/ ~c.promote /\ Caught(c.retriable)
             \/ c.promote /\ Return("ok")
             \/ c.promote /\ Kind = "estimate" /\ Caught(FALSE)  \* no stats in its output

\* sshFailureMessage, diagnoseAliasAuth: the alias's key was refused, or the last probe
\* has not been the last word.  A probe that times out is.
Unexplained ==
    /\ call.probe < Probes /\ ~exec.timedOut
    /\ Probing \/ (OverSsh /\ child.end = End(255, "denied"))

\* ssh -G, ssh-keygen -y per key, ssh-add -l, ssh-keygen -lf per key: ten seconds each.
Probe(n) ==
    /\ call' = [call EXCEPT !.probe = n]
    /\ exec' = NoExec
    /\ timer' = [Settled EXCEPT !["term"] = 20]
    /\ \E held \in BOOLEAN : child' = [NoChild EXCEPT !.state = "alive", !.held = held]
    /\ asked' = IF n = 1 THEN asked + 1 ELSE asked

Judge ==
    \/ Verdict /\ UNCHANGED <<child, asked>>
    \/ Unexplained /\ Probe(call.probe + 1)

\* "close": the exit, and nobody holds the pipes any more.
Closed ==
    /\ call.at = "exec" /\ exec.exited /\ ~child.held
    /\ Judge
    /\ UNCHANGED <<todo, runs, orphans, stop, spent>>

\* Mutant: a result waits for the pipes.
Drained_WhenClosed ==
    /\ call.at = "exec" /\ timer["drain"] = 0 /\ ~child.held
    /\ Judge
    /\ UNCHANGED <<todo, runs, orphans, stop, spent>>

\* Mutant: a timeout is a result.
Drained_OnTimeout ==
    /\ call.at = "exec" /\ (timer["drain"] = 0 \/ exec.timedOut)
    /\ Judge
    /\ UNCHANGED <<todo, runs, orphans, stop, spent>>

\* STREAM_DRAIN_MS after the exit.
Drained ==
    /\ call.at = "exec" /\ timer["drain"] = 0
    /\ Judge
    /\ UNCHANGED <<todo, runs, orphans, stop, spent>>

-----------------------------------------------------------------------------
(***************************************************************************)
(* The child's exit, the timeout and the abort                             *)
(***************************************************************************)
Exited ==
    /\ call.at = "exec" /\ child.state = "dead" /\ ~exec.exited
    /\ exec' = [exec EXCEPT !.exited = TRUE, !.listening = FALSE]
    /\ timer' = [Cleanup(timer) EXCEPT !["drain"] = 1]
    /\ UNCHANGED <<todo, call, child, runs, orphans, stop, ghosts>>

\* timeoutMs is over: SIGTERM, and SIGKILL two seconds later.
TermTimer ==
    /\ call.at = "exec" /\ timer["term"] = 0
    /\ exec' = [exec EXCEPT !.timedOut = TRUE]
    /\ child' = [child EXCEPT !.termed = TRUE]
    /\ timer' = [timer EXCEPT !["term"] = Off, !["kill"] = 4]
    /\ UNCHANGED <<todo, call, runs, orphans, stop, ghosts>>

KillTimer ==
    \E t \in {"kill", "abortKill"} :
        /\ call.at = "exec" /\ timer[t] = 0
        /\ child' = [child EXCEPT !.killed = TRUE]
        /\ timer' = [timer EXCEPT ![t] = Off]
        /\ UNCHANGED <<todo, call, exec, runs, orphans, stop, ghosts>>

\* What the abort does to a child that is running: SIGTERM, and SIGKILL after ten seconds.
OnAbort ==
    /\ child' = [child EXCEPT !.termed = TRUE]
    /\ timer' = [timer EXCEPT !["abortKill"] = 20]
    /\ exec' = [exec EXCEPT !.listening = FALSE]

\* stop(): the abort controller fires; a child is told, a backoff wakes.
Stop ==
    /\ ~stop /\ stop' = TRUE
    /\ CASE exec.listening -> OnAbort
         [] call.at = "sleep" /\ LoopSignal ->
                timer' = [timer EXCEPT !["sleep"] = 0] /\ UNCHANGED <<child, exec>>
         [] OTHER -> UNCHANGED <<child, exec, timer>>
    /\ UNCHANGED <<todo, call, runs, orphans, ghosts>>

-----------------------------------------------------------------------------
(***************************************************************************)
(* The child, the server and the clock                                     *)
(***************************************************************************)
Ends(end) ==
    /\ child' = [child EXCEPT !.state = "dead", !.end = end]
    /\ orphans' = orphans + (IF OverSsh /\ child.link = "running" THEN 1 ELSE 0)
    /\ UNCHANGED <<todo, call, exec, timer, runs, stop, ghosts>>

\* On its own; once it has a SIGTERM it ends by it, whenever it likes.
ChildEnds ==
    /\ child.state = "alive" /\ ~child.killed
    /\ \E end \in IF child.termed THEN TermEnds ELSE OwnEnds :
           (Tells(end) => child.link = "done") /\ Ends(end)

ChildKilled == child.state = "alive" /\ child.killed /\ Ends(End(Signal, ""))

CommandSent ==
    /\ ~Probing
    /\ child.state = "alive" /\ child.link = "unsent"
    /\ child' = [child EXCEPT !.link = "running"]
    /\ UNCHANGED <<todo, call, exec, timer, runs, orphans, stop, ghosts>>

TakesEffect ==
    /\ child.state = "alive" /\ child.link = "running"
    /\ child' = [child EXCEPT !.link = "done"] /\ runs' = runs + 1
    /\ UNCHANGED <<todo, call, exec, timer, orphans, stop, ghosts>>

OrphanEnds ==
    /\ orphans > 0 /\ orphans' = orphans - 1
    /\ runs' \in {runs, runs + 1}
    /\ UNCHANGED <<todo, call, exec, timer, child, stop, ghosts>>

\* The event loop has something to do before time passes.
Busy ==
    \/ \E t \in Timer : timer[t] = 0
    \/ call.at \in {"begin", "done"}
    \/ child.state = "alive" /\ child.killed
    \/ call.at = "exec" /\ child.state = "dead" /\ (~exec.exited \/ ~child.held)

\* Ten seconds of a probe, two to its SIGKILL, half of one for its pipes.
ProbeTime == 25

\* What a stop may take: TimeoutStopSec, and the diagnoses it had to wait for.
Granted == TimeoutStop + asked * Probes * ProbeTime

Tick ==
    /\ ~Busy
    /\ timer' = [t \in Timer |-> IF timer[t] > 0 THEN timer[t] - 1 ELSE timer[t]]
    /\ spent' = IF stop /\ spent <= Granted THEN spent + 1 ELSE spent
    /\ UNCHANGED <<todo, call, exec, child, runs, orphans, stop, asked>>

Works == \/ Begin \/ Wake \/ NextCall \/ Closed \/ Drained \/ Exited \/ TermTimer
         \/ KillTimer \/ ChildKilled \/ Tick

Next == Works \/ Stop \/ ChildEnds \/ CommandSent \/ TakesEffect \/ OrphanEnds

Spec == Init /\ [][Next]_vars

\* The event loop and the clock go on, and SIGKILL ends a child; nothing else is owed:
\* a child may run for ever and its pipes may be held for ever.
FairSpec == Spec /\ WF_vars(Works)

-----------------------------------------------------------------------------
(***************************************************************************)
(* Properties                                                              *)
(***************************************************************************)
\* A call that waits before its next attempt, or has returned, has no child left: two
\* rsyncs never write one .partial, and the lock is never released under a running one.
NoChildLeft == call.at # "exec" => child.state # "alive"

\* Every call keeps the contract its caller relies on: a good result only after an
\* effect, and one effect in all, also a late one, of a command that must not be resent.
Promised == IF Kind = "once" THEN 1 ELSE 10
Contract == INSTANCE RemoteCall WITH max <- Promised, reply <- call.result
CallSpec == Contract!Spec

\* After a stop no further attempt starts of a call that knows of the stop.
NoAttemptAfterStop ==
    [][stop /\ LoopSignal /\ call.attempt > 0 /\ todo' = todo => call'.attempt = call.attempt]_vars

\* A stop ends the pass within the time the service manager grants, TimeoutStopSec,
\* unless a server has refused the key of an alias: a call that then asks for the cause
\* goes on for as long as its probes may take, and no pass asks more than once a call.
StopFitsUnit == spent <= Granted

\* A stop ends the pass whatever the children do; without one, a call with a timeout
\* ends.
PassEnds == (stop \/ \A i \in 1..Len(todo) : todo[i] \notin {"transfer", "estimate"})
                ~> (call.at = "done" /\ Len(todo) = 1)
=============================================================================
