---------------------------- MODULE CommandProofs ----------------------------
(***************************************************************************)
(* Proofs about Command, for any passes, any number of attempts of a       *)
(* transfer and any TimeoutStopSec, the last theorem for one that the      *)
(* passes fit in.                                                          *)
(***************************************************************************)
EXTENDS Command, SequenceTheorems, TLAPS

-----------------------------------------------------------------------------
(***************************************************************************)
(* Types                                                                   *)
(***************************************************************************)
LEMMA EndTypes ==
  /\ OwnEnds \subseteq Endings /\ TermEnds \subseteq Endings /\ End(Signal, "") \in Endings
  /\ ~Tells(End(Signal, ""))
  /\ \A end \in TermEnds : ~Tells(end)
  <1>1. /\ End(0, "") \in Endings /\ End(1, "") \in Endings /\ End(11, "") \in Endings
        /\ End(12, "") \in Endings /\ End(12, "rejected") \in Endings
        /\ End(20, "") \in Endings /\ End(23, "") \in Endings /\ End(24, "") \in Endings
        /\ End(99, "") \in Endings /\ End(255, "") \in Endings
        /\ End(255, "denied") \in Endings /\ End(Signal, "") \in Endings
    BY DEF End, Endings, Signal
  <1>2. Signal = -1
    BY DEF Signal
  <1>3. OwnEnds \subseteq Endings
    <2>1. CASE Probing
      BY <1>1, <2>1 DEF OwnEnds
    <2>2. CASE ~Probing /\ OverSsh
      BY <2>2, SMT DEF OwnEnds, End, Endings, Signal
    <2>3. CASE ~Probing /\ ~OverSsh
      BY <2>3, SMT DEF OwnEnds, End, Endings, Signal
    <2> QED
      BY <2>1, <2>2, <2>3
  <1>4. ASSUME NEW end \in TermEnds PROVE end \in Endings
    <2>1. end = End(Signal, "") \/ end = End(255, "") \/ end = End(20, "")
      BY <1>4, Zenon DEF TermEnds
    <2> QED
      BY <1>1, <2>1, ZenonT(40)
  <1>5. ~Tells(End(Signal, "")) /\ ~Tells(End(255, "")) /\ (~OverSsh => ~Tells(End(20, "")))
    BY <1>2 DEF Tells, End
  <1>6. \A end \in TermEnds : ~Tells(end)
    <2>1. CASE OverSsh
      BY <1>5, <2>1, ZenonT(40) DEF TermEnds
    <2>2. CASE ~OverSsh
      BY <1>5, <2>2, Zenon DEF TermEnds
    <2> QED
      BY <2>1, <2>2
  <1> QED
    BY <1>1, <1>3, <1>4, <1>5, <1>6

Calls == [at : {"begin", "exec", "sleep", "done"}, attempt : Nat, probe : Nat,
          result : {"none", "ok", "failed"}]
Execs == [exited : BOOLEAN, timedOut : BOOLEAN, listening : BOOLEAN]
Children == [state : {"none", "alive", "dead"}, end : Endings,
             termed : BOOLEAN, killed : BOOLEAN, held : BOOLEAN,
             link : {"unsent", "running", "done"}]

\* What a command over ssh can end with.
LEMMA EndsOverSsh ==
  ASSUME OverSsh, NEW end, end \in OwnEnds \/ end \in TermEnds
  PROVE  end.exit \in {0, 1, 255, Signal}
  <1>1. /\ End(0, "").exit = 0 /\ End(1, "").exit = 1 /\ End(255, "").exit = 255
        /\ End(255, "denied").exit = 255 /\ End(Signal, "").exit = Signal
    BY DEF End
  <1>2. \/ end = End(0, "") \/ end = End(1, "") \/ end = End(255, "")
        \/ end = End(255, "denied") \/ end = End(Signal, "")
    <2>1. CASE end \in OwnEnds
      <3>1. end \in {End(0, ""), End(1, ""), End(255, ""), End(255, "denied"), End(Signal, "")}
        BY <2>1, Zenon DEF OwnEnds
      <3> QED
        BY <3>1
    <2>2. CASE end \in TermEnds
      BY <2>2, Zenon DEF TermEnds
    <2> QED
      BY <2>1, <2>2
  <1> QED
    BY <1>1, <1>2, ZenonT(40)

LEMMA NoneType ==
  /\ NoChild \in Children /\ NoChild.state = "none" /\ NoChild.link = "unsent"
  /\ NoExec \in Execs /\ ~NoExec.exited /\ ~NoExec.listening
  /\ NoTimers = [t \in Timer |-> NoTimers[t]] /\ NoTimers["drain"] = Off
  BY EndTypes DEF NoChild, Children, NoExec, Execs, NoTimers, Timer

LEMMA AttemptsType ==
  /\ Attempts \in Nat /\ Attempts >= 1
  /\ Promised \in Nat \ {0} /\ Attempts <= Promised
  BY CommandAssumption DEF Attempts, Promised

LEMMA TimersType ==
  ASSUME TypeOK
  PROVE  /\ Settled = [t \in Timer |-> Settled[t]] /\ Settled["drain"] = Off
         /\ Cleanup(timer) = [t \in Timer |-> Cleanup(timer)[t]]
         /\ Cleanup(timer)["drain"] = timer["drain"]
  BY DEF TypeOK, Settled, Cleanup, Timer

-----------------------------------------------------------------------------
(***************************************************************************)
(* What an attempt's end and its start do                                  *)
(***************************************************************************)
LEMMA Returned ==
  ASSUME TypeOK, NEW r \in {"ok", "failed"}, Return(r)
  PROVE  /\ call' \in Calls
         /\ call'.at = "done" /\ call'.result = r /\ call'.attempt = call.attempt
         /\ call'.probe = call.probe
         /\ exec' \in Execs /\ ~exec'.exited /\ ~exec'.listening
         /\ timer' = [t \in Timer |-> timer'[t]] /\ timer'["drain"] = Off
  BY TimersType, NoneType DEF TypeOK, Return, Calls

\* A call that is going to be sent again.
Delayed ==
  /\ call' \in Calls
  /\ call'.at = "sleep" /\ call'.result = call.result /\ call'.attempt = call.attempt
  /\ call'.probe = call.probe
  /\ exec' \in Execs /\ ~exec'.exited /\ ~exec'.listening
  /\ timer' = [t \in Timer |-> timer'[t]] /\ timer'["drain"] = Off

LEMMA RetryStep == ASSUME TypeOK, Retry PROVE Delayed
  <1>1. PICK d \in RetryDelays(call.attempt + 1) : timer' = [Settled EXCEPT !["sleep"] = d]
    BY DEF Retry
  <1>2. timer' = [t \in Timer |-> timer'[t]] /\ timer'["drain"] = Off
    BY <1>1, TimersType DEF Timer
  <1> QED
    BY <1>2, NoneType DEF TypeOK, Retry, Delayed, Calls

\* A new attempt, whose command has not been sent yet.
Launched(n) ==
  /\ call' \in Calls
  /\ call'.at = "exec" /\ call'.result = call.result /\ call'.attempt = n
  /\ call'.probe = call.probe
  /\ exec' \in Execs /\ ~exec'.exited
  /\ timer' = [t \in Timer |-> timer'[t]] /\ timer'["drain"] = Off
  /\ child' \in Children /\ child'.state = "alive" /\ child'.link = "unsent"

LEMMA LaunchStep ==
  ASSUME TypeOK, NEW n \in Nat, Launch(n)
  PROVE  (Return("failed") /\ UNCHANGED child) \/ Launched(n)
  <1> DEFINE aborted == ChildSignal /\ stop
  <1> SUFFICES
        ASSUME call' = [call EXCEPT !.at = "exec", !.attempt = n],
               exec' = [NoExec EXCEPT !.listening = ChildSignal /\ ~stop],
               timer' = [Settled EXCEPT !["term"] = Timeout,
                                        !["abortKill"] = IF aborted THEN 20 ELSE Off],
               \E held \in BOOLEAN :
                   child' = [NoChild EXCEPT !.state = "alive", !.termed = aborted,
                                            !.held = held]
        PROVE  Launched(n)
    BY DEF Launch
  <1>1. /\ call' \in Calls /\ call'.at = "exec" /\ call'.result = call.result
        /\ call'.attempt = n /\ call'.probe = call.probe
    BY DEF TypeOK, Calls
  <1>2. exec' \in Execs /\ ~exec'.exited
    BY NoneType DEF TypeOK, Execs, ChildSignal
  <1>3. timer' = [t \in Timer |-> timer'[t]] /\ timer'["drain"] = Off
    BY TimersType DEF Timer
  <1>4. PICK held \in BOOLEAN :
            child' = [NoChild EXCEPT !.state = "alive", !.termed = aborted, !.held = held]
    OBVIOUS
  <1>5. aborted \in BOOLEAN
    BY DEF TypeOK, ChildSignal
  <1>6. child' \in Children /\ child'.state = "alive" /\ child'.link = "unsent"
    BY <1>4, <1>5, NoneType DEF Children
  <1> QED
    BY <1>1, <1>2, <1>3, <1>6 DEF Launched

-----------------------------------------------------------------------------
(***************************************************************************)
(* The invariant                                                           *)
(***************************************************************************)
\* One attempt at a time, and its child and its timers end with it.
OneAttempt ==
  /\ call.at # "exec" => child.state # "alive" /\ ~exec.listening
  /\ exec.exited => call.at = "exec" /\ child.state = "dead"
  /\ timer["drain"] # Off => exec.exited
  /\ call.at = "done" <=> call.result # "none"

AttemptsCounted ==
  /\ call.at = "begin" => call.attempt = 0
  /\ call.at \in {"exec", "sleep"} => call.attempt >= 1
  /\ call.at = "sleep" => call.attempt < Attempts
  /\ call.attempt <= Attempts

\* The cause of a failure is looked for by children that carry no command, after an attempt.
ProbesApart ==
  /\ call.at \in {"begin", "sleep"} => ~Probing
  /\ Probing => /\ OverSsh /\ child.link = "unsent" /\ ~exec.listening
                /\ call.probe <= Probes /\ asked >= 1

\* The attempt in progress may still take effect, over the ssh that carries it.
Pending == IF child.state = "alive" /\ child.link # "done" /\ ~Probing THEN 1 ELSE 0

EffectsCounted == runs + orphans + Pending <= call.attempt

EndIsTrue ==
  /\ child.link = "done" => runs > 0
  /\ child.state = "dead" => /\ Tells(child.end) => child.link = "done"
                             /\ OverSsh => child.end.exit \in {0, 1, 255, Signal}

IInv == /\ TypeOK /\ OneAttempt /\ AttemptsCounted /\ ProbesApart /\ EffectsCounted
        /\ EndIsTrue

LEMMA InitIInv == Init => IInv
  <1> SUFFICES ASSUME Init PROVE IInv
    OBVIOUS
  <1>1. todo \in Seq(Kinds) /\ todo # <<>>
    BY CommandAssumption DEF Init
  <1>2. TypeOK
    BY <1>1, NoneType DEF Init, TypeOK, Children, Execs, Fresh
  <1>3. OneAttempt
    BY NoneType DEF Init, OneAttempt, Fresh
  <1>4. AttemptsCounted /\ ProbesApart
    BY AttemptsType DEF Init, AttemptsCounted, ProbesApart, Probing, Fresh
  <1>5. EffectsCounted /\ EndIsTrue
    BY NoneType DEF Init, EffectsCounted, Pending, EndIsTrue, Fresh
  <1> QED
    BY <1>2, <1>3, <1>4, <1>5 DEF IInv

\* Judging an end is one of four things; a good result needs an effect.
LEMMA JudgeStep ==
  ASSUME IInv, child.state = "dead", Judge
  PROVE  \/ /\ UNCHANGED <<child, asked>>
            /\ \/ Return("failed")
               \/ Return("ok") /\ runs > 0
               \/ Retry /\ ~Probing /\ call.attempt < Attempts /\ ~(LoopSignal /\ stop)
         \/ Unexplained /\ Probe(call.probe + 1)
  <1>1. Attempts \in Nat /\ call.attempt \in Nat
    BY AttemptsType DEF IInv, TypeOK
  <1>2. ASSUME NEW retriable, Caught(retriable)
        PROVE  \/ Return("failed")
               \/ Retry /\ call.attempt < Attempts /\ ~(LoopSignal /\ stop)
    BY <1>1, <1>2 DEF Caught
  <1>3. Tells(child.end) => runs > 0
    BY DEF IInv, EndIsTrue
  <1> SUFFICES ASSUME Verdict
               PROVE  \/ Return("failed")
                      \/ Return("ok") /\ runs > 0
                      \/ Retry /\ ~Probing /\ call.attempt < Attempts /\ ~(LoopSignal /\ stop)
    BY DEF Judge
  <1>4. CASE Probing
    BY <1>4 DEF Verdict
  <1>5. CASE ~Probing /\ OverSsh
    <2>1. CASE RemoteFails(child.end, exec.timedOut)
      BY <1>2, <1>5, <2>1 DEF Verdict
    <2>2. CASE ~RemoteFails(child.end, exec.timedOut)
      <3>1. Return("ok")
        BY <1>5, <2>2 DEF Verdict
      <3>2. child.end.exit \in {0, 1, 255, Signal} /\ child.end.exit \notin {Signal, 255}
        BY <1>5, <2>2 DEF IInv, EndIsTrue, RemoteFails
      <3>3. Tells(child.end)
        BY <1>5, <3>2 DEF Tells
      <3> QED
        BY <1>3, <3>1, <3>3
    <2> QED
      BY <2>1, <2>2
  <1>6. CASE ~Probing /\ ~OverSsh
    <2> DEFINE c == ClassifyExit(child.end)
    <2>1. c.promote => Tells(child.end)
      BY <1>6 DEF ClassifyExit, Tells
    <2>2. \/ Caught(c.retriable)
          \/ c.promote /\ Return("ok")
          \/ Caught(FALSE)
      BY <1>6 DEF Verdict
    <2> QED
      BY <1>2, <1>3, <1>6, <2>1, <2>2
  <1> QED
    BY <1>4, <1>5, <1>6

\* A child that carries no command, of a call whose attempts are over.
Probed ==
  /\ call' \in Calls
  /\ call'.at = "exec" /\ call'.result = call.result /\ call'.attempt = call.attempt
  /\ call'.probe = call.probe + 1
  /\ exec' \in Execs /\ ~exec'.exited /\ ~exec'.listening
  /\ timer' = [t \in Timer |-> timer'[t]] /\ timer'["drain"] = Off /\ timer'["term"] = 20
  /\ child' \in Children /\ child'.state = "alive" /\ child'.link = "unsent"
  /\ ~child'.killed
  /\ asked' \in Nat /\ asked' >= 1
  /\ asked' = IF call.probe = 0 THEN asked + 1 ELSE asked

LEMMA ProbeStep ==
  ASSUME IInv, call.at = "exec", Unexplained, Probe(call.probe + 1)
  PROVE  Probed /\ OverSsh /\ call.probe + 1 <= Probes
  <1>1. call.probe \in Nat /\ asked \in Nat /\ Probes \in Nat
    BY CommandAssumption DEF IInv, TypeOK
  <1>2. OverSsh /\ call.probe < Probes
    BY Zenon DEF Unexplained, IInv, ProbesApart
  <1>3. /\ call' \in Calls
        /\ call'.at = "exec" /\ call'.result = call.result /\ call'.attempt = call.attempt
        /\ call'.probe = call.probe + 1
    <2>1. call' = [call EXCEPT !.probe = call.probe + 1]
      BY DEF Probe
    <2>2. call \in Calls
      BY DEF IInv, TypeOK, Calls
    <2> QED
      BY <1>1, <2>1, <2>2 DEF Calls
  <1>4. exec' \in Execs /\ ~exec'.exited /\ ~exec'.listening
    BY NoneType DEF Probe
  <1>5. timer' = [t \in Timer |-> timer'[t]] /\ timer'["drain"] = Off /\ timer'["term"] = 20
    BY TimersType DEF Probe, IInv, Timer
  <1>6. PICK held \in BOOLEAN : child' = [NoChild EXCEPT !.state = "alive", !.held = held]
    BY DEF Probe
  <1>7. /\ child' \in Children /\ child'.state = "alive" /\ child'.link = "unsent"
        /\ ~child'.killed
    BY <1>6, NoneType DEF NoChild, Children
  <1>8. asked' = IF call.probe = 0 THEN asked + 1 ELSE asked
    BY <1>1 DEF Probe
  <1>9. asked' \in Nat /\ asked' >= 1
    BY <1>1, <1>8 DEF IInv, ProbesApart, Probing
  <1> QED
    BY <1>1, <1>2, <1>3, <1>4, <1>5, <1>7, <1>8, <1>9 DEF Probed

-----------------------------------------------------------------------------
(***************************************************************************)
(* The steps that start and end an attempt preserve it                     *)
(***************************************************************************)
LEMMA ReturnInductive ==
  ASSUME IInv, NEW r \in {"ok", "failed"}, Return(r), child.state # "alive",
         UNCHANGED <<todo, child, runs, orphans, stop, ghosts>>
  PROVE  IInv'
  <1> USE DEF ghosts
  <1>1. /\ call' \in Calls
        /\ call'.at = "done" /\ call'.result = r /\ call'.attempt = call.attempt
        /\ call'.probe = call.probe
        /\ exec' \in Execs /\ ~exec'.exited /\ ~exec'.listening
        /\ timer' = [t \in Timer |-> timer'[t]] /\ timer'["drain"] = Off
    BY Returned DEF IInv
  <1>2. TypeOK'
    BY <1>1 DEF IInv, TypeOK, Calls, Execs
  <1>3. OneAttempt'
    BY <1>1 DEF OneAttempt
  <1>4. AttemptsCounted' /\ ProbesApart'
    BY <1>1 DEF IInv, AttemptsCounted, ProbesApart, Probing, Attempts, OverSsh, Kind
  <1>5. EffectsCounted' /\ EndIsTrue'
    BY <1>1 DEF IInv, EffectsCounted, Pending, EndIsTrue, Tells, Probing, OverSsh, Kind
  <1> QED
    BY <1>2, <1>3, <1>4, <1>5 DEF IInv

LEMMA RetryInductive ==
  ASSUME IInv, Delayed, call.at = "exec", ~Probing, call.attempt < Attempts,
         child.state = "dead", UNCHANGED <<todo, child, runs, orphans, stop, ghosts>>
  PROVE  IInv'
  <1> USE DEF ghosts
  <1>1. call.result = "none"
    BY DEF IInv, OneAttempt, TypeOK
  <1>2. TypeOK'
    BY DEF IInv, TypeOK, Delayed, Calls, Execs
  <1>3. OneAttempt'
    BY <1>1 DEF OneAttempt, Delayed
  <1>4. AttemptsCounted' /\ ProbesApart'
    BY DEF IInv, AttemptsCounted, ProbesApart, Probing, Attempts, Kind, Delayed
  <1>5. EffectsCounted' /\ EndIsTrue'
    BY DEF IInv, EffectsCounted, Pending, EndIsTrue, Tells, Probing, OverSsh, Kind, Delayed
  <1> QED
    BY <1>2, <1>3, <1>4, <1>5 DEF IInv

\* The next attempt, of a call that has attempts left and whose last child is gone.
LEMMA LaunchInductive ==
  ASSUME IInv, call.at \in {"begin", "sleep"}, Launch(call.attempt + 1),
         UNCHANGED <<todo, runs, orphans, stop, ghosts>>
  PROVE  IInv'
  <1> USE DEF ghosts
  <1>1. call.attempt \in Nat /\ call.attempt + 1 \in Nat /\ call.attempt < Attempts
    BY AttemptsType DEF IInv, TypeOK, AttemptsCounted
  <1>2. child.state # "alive" /\ call.result = "none"
    BY DEF IInv, OneAttempt, TypeOK
  <1>3. (Return("failed") /\ UNCHANGED child) \/ Launched(call.attempt + 1)
    BY <1>1, LaunchStep DEF IInv
  <1>4. CASE Return("failed") /\ UNCHANGED child
    BY <1>2, <1>4, ReturnInductive
  <1>5. CASE Launched(call.attempt + 1)
    <2>1. TypeOK'
      BY <1>5 DEF IInv, TypeOK, Launched, Calls, Execs, Children
    <2>2. OneAttempt'
      BY <1>2, <1>5 DEF OneAttempt, Launched
    <2>0. ~Probing /\ ~Probing'
      BY <1>5 DEF IInv, ProbesApart, Probing, Launched
    <2>3. AttemptsCounted' /\ ProbesApart'
      BY <1>1, <1>5, <2>0, AttemptsType DEF IInv, AttemptsCounted, ProbesApart, Attempts, Kind,
                                            Launched
    <2>4. Pending = 0 /\ Pending' = 1
      BY <1>2, <1>5, <2>0 DEF Pending, Launched
    <2>5. EffectsCounted'
      BY <1>1, <1>5, <2>4 DEF IInv, TypeOK, EffectsCounted, Launched
    <2>6. EndIsTrue'
      BY <1>5 DEF EndIsTrue, Launched
    <2> QED
      BY <2>1, <2>2, <2>3, <2>5, <2>6 DEF IInv
  <1> QED
    BY <1>3, <1>4, <1>5

LEMMA ProbeInductive ==
  ASSUME IInv, call.at = "exec", Unexplained, Probe(call.probe + 1),
         UNCHANGED <<todo, runs, orphans, stop, spent>>
  PROVE  IInv'
  <1>1. Probed /\ OverSsh /\ call.probe + 1 <= Probes
    BY ProbeStep
  <1>2. call.probe \in Nat /\ Probing'
    BY <1>1 DEF IInv, TypeOK, Probed, Probing
  <1>3. TypeOK'
    BY <1>1 DEF IInv, TypeOK, Probed, Calls, Execs, Children
  <1>4. OneAttempt'
    BY <1>1 DEF IInv, OneAttempt, Probed
  <1>5. AttemptsCounted' /\ ProbesApart'
    BY <1>1, <1>2 DEF IInv, AttemptsCounted, ProbesApart, Attempts, OverSsh, Kind, Probed
  <1>6. EffectsCounted'
    <2>1. Pending' = 0 /\ Pending \in {0, 1}
      BY <1>2 DEF Pending
    <2> QED
      BY <1>1, <2>1 DEF IInv, TypeOK, EffectsCounted, Probed
  <1>7. EndIsTrue'
    BY <1>1 DEF EndIsTrue, Probed
  <1> QED
    BY <1>3, <1>4, <1>5, <1>6, <1>7 DEF IInv

LEMMA JudgeInductive ==
  ASSUME IInv, call.at = "exec", child.state = "dead", Judge,
         UNCHANGED <<todo, runs, orphans, stop, spent>>
  PROVE  IInv'
  <1>1. CASE UNCHANGED <<child, asked>> /\ (Return("failed") \/ Return("ok"))
    BY <1>1, ReturnInductive DEF ghosts
  <1>2. CASE UNCHANGED <<child, asked>> /\ Retry /\ ~Probing /\ call.attempt < Attempts
    BY <1>2, RetryStep, RetryInductive DEF IInv, ghosts
  <1>3. CASE Unexplained /\ Probe(call.probe + 1)
    BY <1>3, ProbeInductive
  <1> QED
    BY <1>1, <1>2, <1>3, JudgeStep

-----------------------------------------------------------------------------
(***************************************************************************)
(* Every step preserves it                                                 *)
(***************************************************************************)
LEMMA BeginInductive == IInv /\ Begin => IInv'
  <1> SUFFICES ASSUME IInv, Begin PROVE IInv'
    OBVIOUS
  <1>1. call.attempt + 1 = 1
    BY DEF IInv, AttemptsCounted, Begin
  <1> QED
    BY <1>1, LaunchInductive DEF Begin

LEMMA WakeInductive == IInv /\ Wake => IInv'
  <1> SUFFICES ASSUME IInv, Wake PROVE IInv'
    OBVIOUS
  <1>1. child.state # "alive"
    BY DEF IInv, OneAttempt, Wake
  <1> QED
    BY <1>1, LaunchInductive, ReturnInductive DEF Wake

LEMMA NextTodo ==
  ASSUME TypeOK, NextCall
  PROVE  todo' \in Seq(Kinds) /\ todo' # <<>> /\ todo' # todo
  <1>1. /\ Tail(todo) \in Seq(Kinds)
        /\ Len(Tail(todo)) = Len(todo) - 1 /\ Len(todo) \in Nat
    BY HeadTailProperties, LenProperties DEF TypeOK
  <1>0. Len(todo) > 1 /\ todo' = Tail(todo)
    BY DEF NextCall
  <1>2. Len(Tail(todo)) # 0 /\ Len(Tail(todo)) # Len(todo)
    <2>1. \A n \in Nat : n > 1 => n - 1 # 0 /\ n - 1 # n
      OBVIOUS
    <2> QED
      BY <1>0, <1>1, <2>1, Zenon
  <1>3. Len(<<>>) = 0
    BY EmptySeq
  <1> QED
    BY <1>0, <1>1, <1>2, <1>3, Zenon

LEMMA NextCallInductive == IInv /\ NextCall => IInv'
  <1> SUFFICES ASSUME IInv, NextCall PROVE IInv'
    OBVIOUS
  <1>1. todo' \in Seq(Kinds) /\ todo' # <<>>
    BY NextTodo DEF IInv
  <1>2. TypeOK'
    BY <1>1, NoneType DEF IInv, TypeOK, NextCall, Children, Fresh, ghosts
  <1>3. OneAttempt'
    BY NoneType DEF IInv, OneAttempt, NextCall, Fresh
  <1>4. AttemptsCounted' /\ ProbesApart'
    <2>1. Attempts' \in Nat
      BY <1>1, CommandAssumption DEF Attempts, Kind
    <2> QED
      BY <2>1 DEF AttemptsCounted, ProbesApart, Probing, NextCall, Fresh
  <1>5. EffectsCounted' /\ EndIsTrue'
    BY NoneType DEF NextCall, EffectsCounted, Pending, EndIsTrue, Fresh
  <1> QED
    BY <1>2, <1>3, <1>4, <1>5 DEF IInv

LEMMA SettlesDead ==
  ASSUME IInv, Closed \/ Drained
  PROVE  /\ call.at = "exec" /\ child.state = "dead" /\ Judge
         /\ UNCHANGED <<todo, runs, orphans, stop, spent>>
  <1>1. child.state = "dead"
    BY DEF IInv, OneAttempt, Closed, Drained, Off
  <1> QED
    BY <1>1, Zenon DEF Closed, Drained

LEMMA SettledInductive == IInv /\ (Closed \/ Drained) => IInv'
  BY SettlesDead, JudgeInductive

\* The timers, the child's exit and the abort leave the call where it stands.
LEMMA EventInductive == IInv /\ (Exited \/ TermTimer \/ KillTimer \/ Stop \/ Tick) => IInv'
  <1> SUFFICES ASSUME IInv, Exited \/ TermTimer \/ KillTimer \/ Stop \/ Tick
               PROVE  /\ TypeOK' /\ OneAttempt'
                      /\ UNCHANGED <<todo, call, runs, orphans, asked>>
                      /\ child'.state = child.state /\ child'.link = child.link
                      /\ child'.end = child.end /\ (exec'.listening => exec.listening)
    BY DEF IInv, AttemptsCounted, ProbesApart, EffectsCounted, EndIsTrue, Pending, Probing,
           Attempts, Tells, OverSsh, Kind
  <1> USE DEF ghosts
  <1>1. CASE Exited
    <2>1. TypeOK'
      BY <1>1, TimersType DEF IInv, TypeOK, Exited, Timer
    <2>2. OneAttempt'
      BY <1>1 DEF IInv, TypeOK, OneAttempt, Exited
    <2> QED
      BY <1>1, <2>1, <2>2 DEF Exited
  <1>2. CASE TermTimer
    <2>1. TypeOK'
      BY <1>2 DEF IInv, TypeOK, TermTimer, Timer
    <2>2. OneAttempt'
      BY <1>2 DEF IInv, TypeOK, OneAttempt, TermTimer, Timer
    <2> QED
      BY <1>2, <2>1, <2>2 DEF IInv, TypeOK, TermTimer
  <1>3. CASE KillTimer
    <2>1. TypeOK'
      <3>1. child' = [child EXCEPT !.killed = TRUE] /\ timer' = [t \in Timer |-> timer'[t]]
        BY <1>3 DEF IInv, TypeOK, KillTimer, Timer
      <3>2. UNCHANGED <<todo, call, exec, runs, orphans, stop, ghosts>>
        BY <1>3 DEF KillTimer
      <3> QED
        BY <3>1, <3>2 DEF IInv, TypeOK
    <2>2. OneAttempt'
      BY <1>3 DEF IInv, TypeOK, OneAttempt, KillTimer, Timer
    <2> QED
      BY <1>3, <2>1, <2>2 DEF IInv, TypeOK, KillTimer
  <1>4. CASE Stop
    <2>1. CASE OnAbort
      <3>1. TypeOK'
        BY <1>4, <2>1 DEF IInv, TypeOK, Stop, OnAbort, Timer
      <3>2. OneAttempt'
        BY <1>4, <2>1 DEF IInv, TypeOK, OneAttempt, Stop, OnAbort, Timer
      <3> QED
        BY <1>4, <2>1, <3>1, <3>2 DEF IInv, TypeOK, Stop, OnAbort
    <2>2. CASE /\ call.at = "sleep"
               /\ timer' = [timer EXCEPT !["sleep"] = 0] /\ UNCHANGED <<child, exec>>
      BY <1>4, <2>2 DEF IInv, TypeOK, OneAttempt, Stop, Timer
    <2>3. CASE UNCHANGED <<child, exec, timer>>
      BY <1>4, <2>3 DEF IInv, TypeOK, OneAttempt, Stop
    <2> QED
      BY <1>4, <2>1, <2>2, <2>3 DEF Stop
  <1>5. CASE Tick
    <2>1. timer' = [t \in Timer |-> timer'[t]]
      BY <1>5 DEF Tick
    <2>2. timer["drain"] = Off => timer'["drain"] = Off
      BY <1>5 DEF Tick, Timer, Off
    <2>3. spent' \in Nat
      BY <1>5 DEF IInv, TypeOK, Tick
    <2> QED
      BY <1>5, <2>1, <2>2, <2>3 DEF IInv, TypeOK, OneAttempt, Tick
  <1> QED
    BY <1>1, <1>2, <1>3, <1>4, <1>5

LEMMA EndsInductive == IInv /\ (ChildEnds \/ ChildKilled) => IInv'
  <1> SUFFICES ASSUME IInv, ChildEnds \/ ChildKilled PROVE IInv'
    OBVIOUS
  <1>1. PICK end \in Endings :
            /\ Ends(end) /\ (Tells(end) => child.link = "done")
            /\ OverSsh => end.exit \in {0, 1, 255, Signal}
    <2>1. CASE ChildKilled
      BY <2>1, EndTypes DEF ChildKilled, End
    <2>2. CASE ChildEnds
      BY <2>2, EndTypes, EndsOverSsh, ZenonT(40) DEF ChildEnds
    <2> QED
      BY <2>1, <2>2
  <1>2. child.state = "alive"
    BY DEF ChildEnds, ChildKilled
  <1>3. /\ child' \in Children /\ child'.state = "dead" /\ child'.link = child.link
        /\ child'.end = end
    BY <1>1 DEF IInv, TypeOK, Ends, Children
  <1>4. /\ orphans' \in Nat
        /\ orphans' + Pending' <= orphans + Pending
    BY <1>1, <1>2, <1>3 DEF IInv, TypeOK, ProbesApart, Ends, Pending
  <1>5. TypeOK'
    BY <1>1, <1>3, <1>4 DEF IInv, TypeOK, Ends, Children, ghosts
  <1>6. OneAttempt'
    BY <1>1, <1>2, <1>3 DEF IInv, OneAttempt, Ends
  <1>7. AttemptsCounted' /\ ProbesApart'
    BY <1>1, <1>3 DEF IInv, AttemptsCounted, ProbesApart, Probing, Attempts, OverSsh, Kind, Ends,
                      ghosts
  <1>8. EffectsCounted'
    BY <1>1, <1>4 DEF IInv, TypeOK, EffectsCounted, Ends, Pending
  <1>9. EndIsTrue'
    BY <1>1, <1>3 DEF IInv, EndIsTrue, Ends, Tells, Probing, OverSsh, Kind
  <1> QED
    BY <1>5, <1>6, <1>7, <1>8, <1>9 DEF IInv

LEMMA EffectInductive == IInv /\ (CommandSent \/ TakesEffect \/ OrphanEnds) => IInv'
  <1> SUFFICES ASSUME IInv, CommandSent \/ TakesEffect \/ OrphanEnds
               PROVE  /\ TypeOK' /\ OneAttempt' /\ EffectsCounted' /\ EndIsTrue'
                      /\ child'.link # child.link => ~Probing
    BY DEF IInv, AttemptsCounted, ProbesApart, Probing, Attempts, OverSsh, Kind, CommandSent,
           TakesEffect, OrphanEnds, ghosts
  <1> USE DEF ghosts
  <1>1. CASE CommandSent
    <2>1. /\ child' \in Children /\ child'.state = "alive" /\ child'.link = "running"
          /\ Pending = 1 /\ Pending' = 1
      BY <1>1 DEF IInv, TypeOK, CommandSent, Children, Pending, Probing
    <2> QED
      BY <1>1, <2>1 DEF IInv, TypeOK, Children, OneAttempt, EffectsCounted, EndIsTrue, Probing,
                        CommandSent
  <1>2. CASE TakesEffect
    <2>0. ~Probing
      BY <1>2 DEF IInv, ProbesApart, TakesEffect
    <2>1. /\ child' \in Children /\ child'.state = "alive" /\ child'.link = "done"
          /\ Pending = 1 /\ Pending' = 0
      BY <1>2, <2>0 DEF IInv, TypeOK, TakesEffect, Children, Pending
    <2> QED
      BY <1>2, <2>0, <2>1 DEF IInv, TypeOK, Children, OneAttempt, EffectsCounted, EndIsTrue,
                        TakesEffect
  <1>3. CASE OrphanEnds
    BY <1>3 DEF IInv, TypeOK, OneAttempt, EffectsCounted, EndIsTrue, Pending, OrphanEnds,
                Tells, Probing, OverSsh, Kind
  <1> QED
    BY <1>1, <1>2, <1>3

\* The invariant the rest follows from: at most one child and one attempt at a time, their
\* effects counted (exec, withTransientRetry).
THEOREM Inductive == Spec => []IInv
  <1>1. IInv /\ [Next]_vars => IInv'
    <2> SUFFICES ASSUME IInv, [Next]_vars PROVE IInv'
      OBVIOUS
    <2>1. CASE Next
      BY <2>1, BeginInductive, WakeInductive, NextCallInductive, SettledInductive,
         EventInductive, EndsInductive, EffectInductive DEF Next, Works
    <2>2. CASE UNCHANGED vars
      BY <2>2 DEF vars, ghosts, IInv, TypeOK, OneAttempt, AttemptsCounted, ProbesApart,
                  EffectsCounted, EndIsTrue, Pending, Probing, Attempts, Tells, OverSsh, Kind
    <2> QED
      BY <2>1, <2>2
  <1> QED
    BY InitIInv, <1>1, PTL DEF Spec

-----------------------------------------------------------------------------
(***************************************************************************)
(* What it gives                                                           *)
(***************************************************************************)
\* A call that waits or has returned has no child left: no two children of one process,
\* and no release of the lock under a running transfer (exec.ts, runTransfer).
THEOREM OneChild == Spec => []NoChildLeft
  <1>1. IInv => NoChildLeft
    BY DEF IInv, OneAttempt, NoChildLeft
  <1> QED
    BY <1>1, Inductive, PTL

\* The abort is looked at before every attempt but the first (withTransientRetry).
THEOREM StopIsHeeded == Spec => NoAttemptAfterStop
  <1> DEFINE Heeded == stop /\ LoopSignal /\ call.attempt > 0 /\ todo' = todo
                           => call'.attempt = call.attempt
  <1>1. IInv /\ [Next]_vars => [Heeded]_vars
    <2> SUFFICES ASSUME IInv, Next, stop, LoopSignal, call.attempt > 0, todo' = todo
                 PROVE  call'.attempt = call.attempt
      BY DEF vars
    <2>1. CASE Begin
      BY <2>1 DEF Begin, IInv, AttemptsCounted
    <2>2. CASE Wake
      BY <2>2, Returned DEF Wake, IInv
    <2>3. CASE NextCall
      BY <2>3, NextTodo DEF IInv
    <2>4. CASE Closed \/ Drained
      <3>1. CASE Unexplained /\ Probe(call.probe + 1)
        BY <2>4, <3>1, SettlesDead, ProbeStep DEF Probed
      <3> QED
        BY <2>4, <3>1, SettlesDead, JudgeStep, Returned DEF IInv
    <2>5. CASE \/ Exited \/ TermTimer \/ KillTimer \/ Stop \/ Tick \/ ChildEnds \/ ChildKilled
               \/ CommandSent \/ TakesEffect \/ OrphanEnds
      BY <2>5 DEF Exited, TermTimer, KillTimer, Stop, Tick, ChildEnds, ChildKilled, Ends,
                  CommandSent, TakesEffect, OrphanEnds
    <2> QED
      BY <2>1, <2>2, <2>3, <2>4, <2>5 DEF Next, Works
  <1> QED
    BY <1>1, Inductive, PTL DEF Spec, NoAttemptAfterStop

\* A step in which the call neither ends nor takes effect.
LEMMA Silent == ASSUME UNCHANGED <<todo, runs>>, call'.result = call.result
                PROVE  UNCHANGED <<Promised, runs, call.result>>
  BY DEF Promised, Kind

\* A good result is preceded by an effect, and no call takes effect more often than its
\* caller allows for (runRemote, withTransientRetry).
THEOREM KeepsContract == Spec => CallSpec
  <1>1. Init => Contract!Init
    <2> SUFFICES ASSUME Init PROVE Contract!Init
      OBVIOUS
    <2> QED
      BY AttemptsType DEF Init, Fresh, Contract!Init
  <1>2. IInv /\ [Next]_vars => [Contract!Next]_<<Promised, runs, call.result>>
    <2> SUFFICES ASSUME IInv, [Next]_vars
                 PROVE  Contract!Next \/ UNCHANGED <<Promised, runs, call.result>>
      OBVIOUS
    <2>0. /\ runs \in Nat /\ orphans \in Nat /\ runs + orphans + Pending <= call.attempt
          /\ call.attempt \in Nat /\ call.attempt <= Attempts
          /\ Attempts \in Nat /\ Promised \in Nat \ {0} /\ Attempts <= Promised
      BY AttemptsType DEF IInv, TypeOK, EffectsCounted, AttemptsCounted
    <2>1. ASSUME Return("failed") \/ (Return("ok") /\ runs > 0), call.at # "done",
                 UNCHANGED <<todo, runs>>
          PROVE  Contract!Next
      <3>1. call.result = "none"
        BY <2>1 DEF IInv, OneAttempt
      <3>2. call'.result = "failed" \/ (call'.result = "ok" /\ runs > 0)
        BY <2>1, Returned DEF IInv
      <3>3. Contract!Reply
        BY <2>1, <3>1, <3>2 DEF Contract!Reply, Promised, Kind
      <3> QED
        BY <3>3 DEF Contract!Next
    <2>2. ASSUME Launch(call.attempt + 1), call.at # "done", UNCHANGED <<todo, runs>>
          PROVE  Contract!Next \/ UNCHANGED <<Promised, runs, call.result>>
      <3>1. Return("failed") \/ Launched(call.attempt + 1)
        BY <2>0, <2>2, LaunchStep DEF IInv
      <3>2. CASE Launched(call.attempt + 1)
        BY <2>2, <3>2, Silent DEF Launched
      <3> QED
        BY <2>1, <2>2, <3>1, <3>2
    <2>3. CASE Begin
      BY <2>2, <2>3 DEF Begin, IInv, AttemptsCounted
    <2>4. CASE Wake
      BY <2>1, <2>2, <2>4 DEF Wake
    <2>5. CASE NextCall
      <3>1. call.result # "none" /\ call'.result = "none" /\ runs' = 0
        BY <2>5 DEF IInv, OneAttempt, NextCall, Fresh
      <3>2. Promised' \in Nat \ {0}
        BY DEF Promised
      <3> QED
        BY <3>1, <3>2 DEF Contract!Next, Contract!Again
    <2>6. CASE Closed \/ Drained
      <3>1. Judge /\ child.state = "dead" /\ call.at # "done" /\ UNCHANGED <<todo, runs>>
        BY <2>6, SettlesDead
      <3>2. CASE Retry
        BY <3>1, <3>2, RetryStep, Silent DEF IInv, Delayed
      <3>3. CASE Unexplained /\ Probe(call.probe + 1)
        BY <2>6, <3>1, <3>3, SettlesDead, ProbeStep, Silent DEF Probed
      <3> QED
        BY <2>1, <3>1, <3>2, <3>3, JudgeStep
    <2>7. CASE TakesEffect \/ OrphanEnds
      <3>0. TakesEffect => ~Probing
        BY DEF IInv, ProbesApart, TakesEffect
      <3>1. /\ UNCHANGED <<todo, call>> /\ runs' \in {runs, runs + 1}
            /\ orphans + Pending >= 1
        <4>1. CASE TakesEffect
          <5>1. Pending = 1
            BY <3>0, <4>1 DEF TakesEffect, Pending
          <5> QED
            BY <2>0, <4>1, <5>1 DEF TakesEffect
        <4>2. CASE OrphanEnds
          <5>1. Pending \in {0, 1}
            BY DEF Pending
          <5> QED
            BY <2>0, <4>2, <5>1 DEF OrphanEnds
        <4> QED
          BY <2>7, <4>1, <4>2
      <3>2. UNCHANGED Promised
        BY <3>1 DEF Promised, Kind
      <3>3. CASE runs' = runs + 1
        <4>1. runs < Promised
          BY <2>0, <3>1 DEF Pending
        <4> QED
          BY <3>1, <3>2, <3>3, <4>1 DEF Contract!Next, Contract!Run
      <3> QED
        BY <3>1, <3>2, <3>3
    <2>8. CASE \/ Exited \/ TermTimer \/ KillTimer \/ Stop \/ Tick \/ ChildEnds \/ ChildKilled
               \/ CommandSent
      BY <2>8, Silent DEF Exited, TermTimer, KillTimer, Stop, Tick, ChildEnds, ChildKilled, Ends,
                          CommandSent
    <2>9. CASE UNCHANGED vars
      BY <2>9, Silent DEF vars
    <2> QED
      BY <2>3, <2>4, <2>5, <2>6, <2>7, <2>8, <2>9 DEF Next, Works
  <1> QED
    BY <1>1, <1>2, Inductive, PTL DEF Spec, CallSpec, Contract!Spec

-----------------------------------------------------------------------------
(***************************************************************************)
(* How long a stop takes                                                   *)
(***************************************************************************)
\* Longest that one call of a pass may go on after a stop, but for the probes it is at.
Longest == 41

PassesFit == \A p \in Passes : Longest * Len(p) <= TimeoutStop

\* exec runs a child, waits for one it saw exit, or has not seen the end of one yet.
Running == call.at = "exec" /\ ~exec.exited /\ child.state = "alive" /\ ~child.killed
Ending == call.at = "exec" /\ ~exec.exited /\ (child.state = "dead" \/ child.killed)
Draining == call.at = "exec" /\ exec.exited

\* The child in progress is told of a stop.
Told == ChildSignal /\ ~Probing

SleepTop == IF Kind = "release" THEN 3 ELSE 10
TermTop == IF Probing THEN 20 ELSE 14

\* Where the timers can stand while somebody counts on them.
Clocked ==
  /\ Longest * Len(todo) <= TimeoutStop
  /\ ~stop => spent = 0
  /\ call.at = "exec" => child.state # "none"
  /\ exec.listening => ~exec.exited
  /\ Draining => child.state = "dead" /\ timer["drain"] \in 0..1
  /\ Running => \/ Told /\ ~stop /\ exec.listening
                \/ Told /\ stop /\ child.termed /\ timer["abortKill"] \in 0..20
                \/ ~Told /\ timer["term"] \in 0..TermTop
                \/ ~Told /\ timer["term"] = Off /\ timer["kill"] \in 0..4
  /\ call.at = "sleep" /\ ~LoopSignal => timer["sleep"] \in 0..SleepTop
  /\ call.at = "sleep" /\ LoopSignal /\ stop => timer["sleep"] = 0

\* What the call takes at most after its child: the probes that are left, or the backoff
\* and the end of another attempt.
RetryNeeds ==
  CASE Probing -> (Probes - call.probe) * ProbeTime
    [] ~Probing /\ Kind = "release" /\ call.attempt = 1 -> 22
    [] /\ ~Probing /\ Kind = "estimate" /\ child.state = "dead"
       /\ child.end.exit \notin {Signal, 20} -> 31
    [] OTHER -> 0

\* Once a stop has come, the call in progress returns within n half seconds.
ReturnsWithin(n) ==
  /\ 0 <= n
  /\ call.at = "begin" => Longest <= n
  /\ call.at = "sleep" /\ ~LoopSignal =>
         timer["sleep"] + (IF Kind = "release" THEN 19 ELSE 21) <= n
  /\ Draining => timer["drain"] + RetryNeeds <= n
  /\ Ending => 1 + RetryNeeds <= n
  /\ Running /\ Told => timer["abortKill"] + 1 <= n
  /\ Running /\ ~Told /\ timer["term"] # Off => timer["term"] + 5 + RetryNeeds <= n
  /\ Running /\ ~Told /\ timer["term"] = Off => timer["kill"] + 1 + RetryNeeds <= n

Paced == stop => ReturnsWithin(Granted - Longest * (Len(todo) - 1) - spent)

LEMMA TermTopType == TermTop \in {14, 20} /\ \A k \in 0..TermTop : k \in 0..20
  BY DEF TermTop

\* What all probes of one call take.
Inquiry == Probes * ProbeTime

LEMMA Needed ==
  ASSUME IInv
  PROVE  /\ RetryNeeds \in Nat
         /\ ~Probing => RetryNeeds \in 0..31
         /\ ~Probing /\ ~Told => RetryNeeds \in 0..22
         /\ Probing => RetryNeeds \in 0..(Inquiry - ProbeTime)
         /\ Inquiry \in Nat
  <1>1. Probes \in Nat /\ call.probe \in Nat /\ (Probing => call.probe \in 1..Probes)
    BY CommandAssumption DEF IInv, TypeOK, ProbesApart, Probing
  <1>2. \A m \in Nat : \A k \in 1..m : (m - k) * 25 \in 0..(m * 25 - 25)
    OBVIOUS
  <1>3. Probing => /\ RetryNeeds = (Probes - call.probe) * ProbeTime
                   /\ RetryNeeds \in 0..(Inquiry - ProbeTime)
    BY <1>1, <1>2 DEF RetryNeeds, Inquiry, ProbeTime
  <1>4. Inquiry \in Nat /\ ProbeTime \in Nat
    BY <1>1 DEF Inquiry, ProbeTime
  <1>5. ~Probing => RetryNeeds \in 0..31
    BY DEF RetryNeeds
  <1>6. ~Probing /\ ~Told => RetryNeeds \in 0..22
    BY DEF RetryNeeds, Told, ChildSignal
  <1> QED
    BY <1>3, <1>4, <1>5, <1>6

\* A call that asks for the cause is granted the time of its probes.
LEMMA GrantedGrows ==
  ASSUME TypeOK
  PROVE  /\ Granted \in Nat /\ Granted >= TimeoutStop /\ TimeoutStop \in Nat
         /\ asked >= 1 => Granted >= TimeoutStop + Inquiry
         /\ asked' = asked + 1 => Granted' = Granted + Inquiry
  <1>1. \A a, m \in Nat : /\ a * m * 25 \in Nat
                          /\ a >= 1 => a * m * 25 >= m * 25
                          /\ (a + 1) * m * 25 = a * m * 25 + m * 25
    <2> SUFFICES ASSUME NEW a \in Nat, NEW m \in Nat
                 PROVE  /\ a * m * 25 \in Nat
                        /\ a >= 1 => a * m * 25 >= m * 25
                        /\ (a + 1) * m * 25 = a * m * 25 + m * 25
      OBVIOUS
    <2>1. a * m \in Nat /\ (a >= 1 => a * m >= m) /\ (a + 1) * m = a * m + m
      OBVIOUS
    <2> QED
      BY <2>1
  <1>2. asked \in Nat /\ Probes \in Nat /\ TimeoutStop \in Nat
    BY CommandAssumption DEF TypeOK
  <1> QED
    BY <1>1, <1>2 DEF Granted, Inquiry, ProbeTime

LEMMA Backoffs ==
  ASSUME NEW n \in 1..2, ~LoopSignal, (Kind = "release") => n = 1, NEW d \in RetryDelays(n + 1)
  PROVE  d \in 0..SleepTop
  <1>1. 2^0 = 1 /\ 2^1 = 2
    OBVIOUS
  <1>2. (n + 1) - 2 = 0 \/ (n + 1) - 2 = 1
    OBVIOUS
  <1>3. CASE Kind = "release"
    <2>1. n = 1
      BY <1>3
    <2>2. RetryDelays(n + 1) = {1, 3}
      BY <1>1, <1>3, <2>1 DEF RetryDelays, BaseDelay, CapDelay
    <2> QED
      BY <1>3, <2>2 DEF SleepTop
  <1>4. CASE Kind # "release"
    <2>1. Kind = "estimate"
      BY <1>4 DEF LoopSignal, ChildSignal
    <2>2. BaseDelay = 4 /\ CapDelay = 16
      BY <2>1 DEF BaseDelay, CapDelay
    <2>3. RetryDelays(n + 1) \subseteq {3, 5, 6, 10}
      <3>1. CASE n = 1
        BY <1>1, <2>2, <3>1 DEF RetryDelays
      <3>2. CASE n = 2
        BY <1>1, <2>2, <3>2 DEF RetryDelays
      <3> QED
        BY <3>1, <3>2
    <2> QED
      BY <1>4, <2>3 DEF SleepTop
  <1> QED
    BY <1>3, <1>4

\* What the steps of the event loop leave alone.
Fixed == UNCHANGED <<todo, stop, ghosts>>

LEMMA ReturnClocked ==
  ASSUME IInv, Clocked, NEW r \in {"ok", "failed"}, Return(r), Fixed
  PROVE  Clocked'
  <1>1. call'.at = "done" /\ ~exec'.listening
    BY Returned DEF IInv
  <1> QED
    BY <1>1 DEF Clocked, Running, Draining, Fixed, ghosts

LEMMA RetryClocked ==
  ASSUME IInv, Clocked, Retry, call.at = "exec", call.attempt < Attempts, ~(LoopSignal /\ stop),
         Fixed
  PROVE  Clocked'
  <1>1. call'.at = "sleep" /\ ~exec'.listening
    BY RetryStep DEF IInv, Delayed
  <1>2. PICK d \in RetryDelays(call.attempt + 1) : timer' = [Settled EXCEPT !["sleep"] = d]
    BY DEF Retry
  <1>3. timer'["sleep"] = d
    BY <1>2, TimersType DEF IInv, Timer
  <1>4. ASSUME ~LoopSignal PROVE d \in 0..SleepTop
    <2>1. call.attempt \in 1..2 /\ ((Kind = "release") => call.attempt = 1)
      BY <1>4 DEF IInv, TypeOK, AttemptsCounted, Attempts, LoopSignal, ChildSignal
    <2> QED
      BY <1>4, <2>1, Backoffs
  <1> QED
    BY <1>1, <1>3, <1>4 DEF Clocked, Running, Draining, Fixed, ghosts, LoopSignal, ChildSignal,
                            Kind, SleepTop

LEMMA LaunchTimers ==
  ASSUME TypeOK, NEW n \in Nat, Launch(n), call'.at = "exec"
  PROVE  /\ ~exec'.exited /\ exec'.listening = (ChildSignal /\ ~stop)
         /\ timer'["term"] = Timeout
         /\ timer'["abortKill"] = IF ChildSignal /\ stop THEN 20 ELSE Off
         /\ child'.state = "alive" /\ child'.termed = (ChildSignal /\ stop) /\ ~child'.killed
  <1> DEFINE aborted == ChildSignal /\ stop
  <1>1. ~Return("failed")
    BY Returned
  <1>2. /\ exec' = [NoExec EXCEPT !.listening = ChildSignal /\ ~stop]
        /\ timer' = [Settled EXCEPT !["term"] = Timeout,
                                    !["abortKill"] = IF aborted THEN 20 ELSE Off]
        /\ \E held \in BOOLEAN :
               child' = [NoChild EXCEPT !.state = "alive", !.termed = aborted, !.held = held]
    BY <1>1 DEF Launch
  <1>3. ~exec'.exited /\ exec'.listening = (ChildSignal /\ ~stop)
    BY <1>2 DEF NoExec
  <1>4. timer'["term"] = Timeout /\ timer'["abortKill"] = IF aborted THEN 20 ELSE Off
    BY <1>2, TimersType DEF Timer
  <1>5. child'.state = "alive" /\ child'.termed = aborted /\ ~child'.killed
    BY <1>2 DEF NoChild
  <1> QED
    BY <1>3, <1>4, <1>5

LEMMA LaunchClocked ==
  ASSUME IInv, Clocked, call.at \in {"begin", "sleep"}, Launch(call.attempt + 1), Fixed
  PROVE  Clocked'
  <1>1. call.attempt + 1 \in Nat
    BY DEF IInv, TypeOK
  <1>2. CASE Return("failed")
    BY <1>2, ReturnClocked
  <1>3. CASE Launched(call.attempt + 1)
    <2>1. call'.at = "exec"
      BY <1>3 DEF Launched
    <2>2. ~ChildSignal => Timeout = 14
      BY DEF ChildSignal, Timeout
    <2>3. /\ UNCHANGED ChildSignal
          /\ Told' = ChildSignal /\ TermTop' = 14
      BY <1>3 DEF IInv, ProbesApart, Probing, Launched, Fixed, Told, TermTop, ChildSignal, Kind
    <2> HIDE DEF ChildSignal, Told, TermTop
    <2>4. /\ ~exec'.exited /\ exec'.listening = (ChildSignal /\ ~stop)
          /\ timer'["term"] = Timeout
          /\ timer'["abortKill"] = IF ChildSignal /\ stop THEN 20 ELSE Off
          /\ child'.state = "alive" /\ child'.termed = (ChildSignal /\ stop) /\ ~child'.killed
      BY <1>1, <2>1, LaunchTimers DEF IInv
    <2>5. CASE ChildSignal /\ ~stop
      BY <2>1, <2>3, <2>4, <2>5 DEF IInv, TypeOK, Clocked, Running, Draining, Fixed, ghosts
    <2>6. CASE ChildSignal /\ stop
      <3>1. child'.termed /\ timer'["abortKill"] = 20
        BY <2>4, <2>6
      <3> QED
        BY <2>1, <2>3, <2>4, <2>6, <3>1 DEF Clocked, Running, Draining, Fixed, ghosts
    <2>7. CASE ~ChildSignal
      BY <2>1, <2>2, <2>3, <2>4, <2>7 DEF IInv, TypeOK, Clocked, Running, Draining, Fixed, ghosts
    <2> QED
      BY <2>5, <2>6, <2>7 DEF IInv, TypeOK
  <1> QED
    BY <1>1, <1>2, <1>3, LaunchStep DEF IInv

LEMMA NextCallClocked ==
  ASSUME IInv, Clocked, NextCall
  PROVE  Clocked' /\ Len(todo) \in Nat /\ Len(todo') = Len(todo) - 1
  <1>1. Len(todo) \in Nat /\ Len(todo') = Len(todo) - 1
    BY HeadTailProperties, LenProperties DEF IInv, TypeOK, NextCall
  <1>2. Longest * Len(todo') <= TimeoutStop
    BY <1>1, CommandAssumption DEF Clocked, Longest
  <1> QED
    BY <1>1, <1>2 DEF IInv, OneAttempt, Clocked, Running, Draining, NextCall, Fresh,
                               ghosts

\* The child's exit and the timers.
LEMMA TimersClocked == IInv /\ Clocked /\ (Exited \/ TermTimer \/ KillTimer) => Clocked'
  <1> SUFFICES ASSUME IInv, Clocked, Exited \/ TermTimer \/ KillTimer PROVE Clocked'
    OBVIOUS
  <1>0. /\ UNCHANGED <<todo, stop, spent, Kind, LoopSignal, SleepTop, Told, TermTop>>
        /\ call.at = "exec" /\ call' = call
    BY DEF Exited, TermTimer, KillTimer, ghosts, Kind, ChildSignal, LoopSignal, SleepTop, Told,
           TermTop, Probing
  <1> HIDE DEF Told, TermTop
  <1>1. CASE Exited
    <2>1. exec'.exited /\ timer'["drain"] = 1
      BY <1>1, TimersType DEF IInv, TypeOK, Exited, Timer
    <2> QED
      BY <1>0, <1>1, <2>1 DEF Clocked, Running, Draining, Exited
  <1>2. CASE TermTimer
    <2>1. /\ exec'.exited = exec.exited /\ exec'.listening = exec.listening
          /\ child'.state = child.state /\ child'.killed = child.killed /\ child'.termed
          /\ timer'["drain"] = timer["drain"] /\ timer'["abortKill"] = timer["abortKill"]
          /\ timer'["term"] = Off /\ timer'["kill"] = 4
      BY <1>2 DEF IInv, TypeOK, TermTimer, Timer
    <2> QED
      BY <1>0, <1>2, <2>1 DEF Clocked, Running, Draining, TermTimer
  <1>3. CASE KillTimer
    <2>1. child'.killed /\ child'.state = child.state /\ timer'["drain"] = timer["drain"]
      BY <1>3 DEF IInv, TypeOK, KillTimer, Timer
    <2> QED
      BY <1>0, <1>3, <2>1 DEF Clocked, Running, Draining, KillTimer
  <1> QED
    BY <1>1, <1>2, <1>3

LEMMA StopClocked == IInv /\ Clocked /\ Stop => Clocked'
  <1> SUFFICES ASSUME IInv, Clocked, Stop PROVE Clocked'
    OBVIOUS
  <1>0. UNCHANGED <<todo, call, spent, Kind, LoopSignal, SleepTop, Told, TermTop>> /\ stop'
    BY DEF Stop, ghosts, Kind, ChildSignal, LoopSignal, SleepTop, Told, TermTop, Probing
  <1> HIDE DEF Told, TermTop
  <1>1. CASE exec.listening
    <2>1. OnAbort /\ call.at = "exec" /\ ~exec.exited
      BY <1>1 DEF IInv, OneAttempt, Clocked, Stop
    <2>2. /\ exec'.exited = exec.exited /\ ~exec'.listening
          /\ child'.state = child.state /\ child'.killed = child.killed /\ child'.termed
          /\ timer'["abortKill"] = 20
          /\ timer'["term"] = timer["term"] /\ timer'["kill"] = timer["kill"]
      BY <2>1 DEF IInv, TypeOK, OnAbort, Timer
    <2> QED
      BY <1>0, <2>1, <2>2 DEF Clocked, Running, Draining
  <1>2. CASE ~exec.listening /\ call.at = "sleep" /\ LoopSignal
    <2>1. timer'["sleep"] = 0 /\ UNCHANGED <<child, exec>>
      BY <1>2 DEF IInv, TypeOK, Stop, Timer
    <2> QED
      BY <1>0, <1>2, <2>1 DEF Clocked, Running, Draining
  <1>3. CASE ~exec.listening /\ ~(call.at = "sleep" /\ LoopSignal)
    <2>1. UNCHANGED <<child, exec, timer>>
      BY <1>3 DEF Stop
    <2> QED
      BY <1>0, <1>3, <2>1 DEF Clocked, Running, Draining
  <1> QED
    BY <1>1, <1>2, <1>3

LEMMA TickClocked == IInv /\ Clocked /\ Tick => Clocked'
  <1> SUFFICES ASSUME IInv, Clocked, Tick PROVE Clocked'
    OBVIOUS
  <1>0. /\ UNCHANGED <<todo, call, exec, child, stop, Kind, LoopSignal, SleepTop, Told, TermTop>>
        /\ ~stop => spent' = spent
    BY DEF Tick, Kind, ChildSignal, LoopSignal, SleepTop, Told, TermTop, Probing
  <1>1. ASSUME NEW t \in Timer
        PROVE  /\ timer[t] # 0
               /\ timer'[t] = IF timer[t] > 0 THEN timer[t] - 1 ELSE timer[t]
    BY DEF Tick, Busy
  <1>2. ASSUME NEW t \in Timer, NEW n \in Nat, timer[t] \in 0..n PROVE timer'[t] \in 0..n
    BY <1>1, <1>2
  <1>3. timer["term"] = Off => timer'["term"] = Off
    BY <1>1 DEF Timer, Off
  <1>4. ~(call.at = "sleep" /\ LoopSignal /\ stop)
    BY <1>1 DEF Clocked, Timer
  <1>5. SleepTop \in Nat /\ TermTop \in Nat
    BY DEF SleepTop, TermTop
  <1>6. "term" \in Timer /\ "kill" \in Timer /\ "abortKill" \in Timer /\ "drain" \in Timer
        /\ "sleep" \in Timer
    BY DEF Timer
  <1>7. Draining' = Draining /\ Running' = Running
    BY <1>0 DEF Draining, Running
  <1>8. /\ timer["term"] \in 0..TermTop => timer'["term"] \in 0..TermTop
        /\ timer["kill"] \in 0..4 => timer'["kill"] \in 0..4
        /\ timer["abortKill"] \in 0..20 => timer'["abortKill"] \in 0..20
        /\ timer["drain"] \in 0..1 => timer'["drain"] \in 0..1
        /\ timer["sleep"] \in 0..SleepTop => timer'["sleep"] \in 0..SleepTop
    BY <1>2, <1>5, <1>6
  <1> HIDE DEF LoopSignal, Draining, Running, SleepTop, Told, TermTop
  <1> QED
    BY <1>0, <1>3, <1>4, <1>7, <1>8 DEF Clocked

\* What ends or changes a child without the event loop.
LEMMA ChildClocked ==
  IInv /\ Clocked /\ (ChildEnds \/ ChildKilled \/ CommandSent \/ TakesEffect \/ OrphanEnds)
      => Clocked'
  <1> SUFFICES ASSUME IInv, Clocked,
                      ChildEnds \/ ChildKilled \/ CommandSent \/ TakesEffect \/ OrphanEnds
               PROVE  Clocked'
    OBVIOUS
  <1>1. CASE ChildEnds \/ ChildKilled
    <2>1. UNCHANGED <<todo, call, exec, timer, stop, spent>>
      BY <1>1 DEF ChildEnds, ChildKilled, Ends, ghosts
    <2>2. child'.state = "dead" /\ child.state = "alive"
      BY <1>1 DEF IInv, TypeOK, ChildEnds, ChildKilled, Ends
    <2> QED
      BY <2>1, <2>2 DEF Clocked, Running, Draining, Kind, ChildSignal, LoopSignal, SleepTop, Told,
                        TermTop, Probing
  <1>2. CASE CommandSent \/ TakesEffect \/ OrphanEnds
    <2>1. /\ UNCHANGED <<todo, call, exec, timer, stop, spent>>
          /\ child'.state = child.state /\ child'.killed = child.killed
          /\ child'.termed = child.termed
      BY <1>2 DEF IInv, TypeOK, CommandSent, TakesEffect, OrphanEnds, ghosts
    <2> QED
      BY <2>1 DEF Clocked, Running, Draining, Kind, ChildSignal, LoopSignal, SleepTop, Told,
                  TermTop, Probing
  <1> QED
    BY <1>1, <1>2

LEMMA JudgeClocked == IInv /\ Clocked /\ (Closed \/ Drained) => Clocked'
  <1> SUFFICES ASSUME IInv, Clocked, Closed \/ Drained PROVE Clocked'
    OBVIOUS
  <1>1. /\ call.at = "exec" /\ child.state = "dead" /\ Judge
        /\ UNCHANGED <<todo, stop, spent>>
    BY SettlesDead
  <1>2. CASE UNCHANGED <<child, asked>> /\ (Return("failed") \/ Return("ok"))
    BY <1>1, <1>2, ReturnClocked DEF Fixed, ghosts
  <1>3. CASE UNCHANGED <<child, asked>> /\ Retry /\ call.attempt < Attempts
             /\ ~(LoopSignal /\ stop)
    BY <1>1, <1>3, RetryClocked DEF Fixed, ghosts
  <1>4. CASE Unexplained /\ Probe(call.probe + 1)
    <2>1. Probed
      BY <1>1, <1>4, ProbeStep
    <2>2. ~Told' /\ TermTop' = 20
      BY <2>1 DEF Probed, Told, TermTop, Probing, IInv, TypeOK
    <2>3. /\ call'.at = "exec" /\ ~exec'.exited /\ ~exec'.listening
          /\ child'.state = "alive" /\ timer'["term"] = 20
      BY <2>1 DEF Probed
    <2> HIDE DEF Told, TermTop
    <2> QED
      BY <1>1, <2>2, <2>3 DEF Clocked, Running, Draining
  <1> QED
    BY <1>1, <1>2, <1>3, <1>4, JudgeStep

LEMMA ClockedAlways == ASSUME PassesFit PROVE Spec => []Clocked
  <1>1. Init => Clocked
    BY CommandAssumption, NoneType DEF PassesFit, Init, Clocked, Running, Draining, Fresh
  <1>2. IInv /\ Clocked /\ [Next]_vars => Clocked'
    <2> SUFFICES ASSUME IInv, Clocked, [Next]_vars PROVE Clocked'
      OBVIOUS
    <2>1. CASE Begin \/ Wake
      <3>1. /\ Fixed /\ (Launch(call.attempt + 1) \/ Return("failed"))
            /\ call.at \in {"begin", "sleep"}
        BY <2>1 DEF Begin, Wake, Fixed, IInv, AttemptsCounted
      <3> QED
        BY <3>1, LaunchClocked, ReturnClocked
    <2>2. CASE UNCHANGED vars
      BY <2>2 DEF vars, ghosts, Clocked, Running, Draining, Kind, ChildSignal, LoopSignal,
                  SleepTop, Told, TermTop, Probing
    <2> QED
      BY <2>1, <2>2, NextCallClocked, TimersClocked, StopClocked, TickClocked, ChildClocked,
         JudgeClocked DEF Next, Works
  <1> QED
    BY <1>1, <1>2, Inductive, PTL DEF Spec

\* The clock a stop starts: a call goes on for Longest and its probes at most, wherever it
\* stands.
LEMMA StopPaced ==
  ASSUME IInv, Stop, Clocked', NEW n \in Int, Longest <= n, Probing => Longest + Inquiry <= n
  PROVE  ReturnsWithin(n)'
  <1>0. /\ UNCHANGED <<call, Kind, Told, Probing, RetryNeeds>> /\ stop'
        /\ TermTop' = IF Probing THEN 20 ELSE 14
    BY DEF Stop, OnAbort, IInv, TypeOK, Kind, ChildSignal, Told, TermTop, Probing, RetryNeeds
  <1>1. /\ RetryNeeds \in Nat
        /\ ~Probing => RetryNeeds \in 0..31
        /\ ~Probing /\ ~Told => RetryNeeds \in 0..22
        /\ Probing => RetryNeeds \in 0..(Inquiry - 25)
        /\ Inquiry \in Nat
    BY Needed DEF ProbeTime
  <1> HIDE DEF Told, LoopSignal, RetryNeeds, Inquiry, TermTop, Probing
  <1>3. Draining' => timer'["drain"] + RetryNeeds' <= n
    BY <1>0, <1>1 DEF Clocked, Longest
  <1>4. Ending' => 1 + RetryNeeds' <= n
    <2>1. 1 + RetryNeeds <= n
      BY <1>1 DEF Longest
    <2> QED
      BY <1>0, <2>1
  <1>5. Running' => \/ Told' /\ timer'["abortKill"] \in 0..20
                    \/ ~Told' /\ timer'["term"] \in 0..TermTop'
                    \/ ~Told' /\ timer'["term"] = Off /\ timer'["kill"] \in 0..4
    BY <1>0 DEF Clocked
  <1>6. /\ Running' /\ Told' => timer'["abortKill"] + 1 <= n
        /\ Running' /\ ~Told' /\ timer'["term"] # Off => timer'["term"] + 5 + RetryNeeds' <= n
        /\ Running' /\ ~Told' /\ timer'["term"] = Off => timer'["kill"] + 1 + RetryNeeds' <= n
    <2>1. CASE Probing
      BY <1>0, <1>1, <1>5, <2>1 DEF Longest, Off
    <2>2. CASE ~Probing
      BY <1>0, <1>1, <1>5, <2>2 DEF Longest, Off
    <2> QED
      BY <2>1, <2>2
  <1> HIDE DEF Running, Draining, Ending
  <1>7. 0 <= n
    BY DEF Longest
  <1>8. call'.at = "sleep" /\ ~LoopSignal' =>
            timer'["sleep"] + (IF Kind' = "release" THEN 19 ELSE 21) <= n
    BY DEF Clocked, SleepTop, Longest
  <1> QED
    BY <1>3, <1>4, <1>6, <1>7, <1>8 DEF ReturnsWithin

LEMMA ReturnPaced ==
  ASSUME IInv, NEW r \in {"ok", "failed"}, Return(r), NEW n \in Int, ReturnsWithin(n)
  PROVE  ReturnsWithin(n)'
  <1>1. call'.at = "done" /\ ~exec'.exited
    BY Returned DEF IInv
  <1> QED
    BY <1>1 DEF ReturnsWithin, Running, Ending, Draining

\* A retriable end: of a child nobody terminated, for a call that does not see the stop.
LEMMA RetryPaced ==
  ASSUME IInv, Clocked, Retry, call.at = "exec", ~Probing, call.attempt < Attempts, Fixed,
         UNCHANGED child, child.state = "dead",
         (Kind = "estimate") => child.end.exit \notin {Signal, 20},
         NEW n \in Int, ReturnsWithin(n)
  PROVE  ReturnsWithin(n)'
  <1>1. call'.at = "sleep" /\ ~exec'.exited /\ call'.attempt = call.attempt
    BY RetryStep DEF IInv, Delayed
  <1>2. PICK d \in RetryDelays(call.attempt + 1) : timer' = [Settled EXCEPT !["sleep"] = d]
    BY DEF Retry
  <1>3. timer'["sleep"] = d
    BY <1>2, TimersType DEF IInv, Timer
  <1>4. ASSUME ~LoopSignal
        PROVE  d \in 0..SleepTop /\ RetryNeeds = IF Kind = "release" THEN 22 ELSE 31
    <2>1. call.attempt \in 1..2 /\ ((Kind = "release") => call.attempt = 1)
      BY <1>4 DEF IInv, TypeOK, AttemptsCounted, Attempts, LoopSignal, ChildSignal
    <2>2. RetryNeeds = IF Kind = "release" THEN 22 ELSE 31
      BY <1>4, <2>1 DEF RetryNeeds, LoopSignal, ChildSignal
    <2> QED
      BY <1>4, <2>1, <2>2, Backoffs
  <1>5. ASSUME ~LoopSignal PROVE RetryNeeds <= n
    <2>1. CASE exec.exited
      BY <1>4, <1>5, <2>1 DEF ReturnsWithin, Draining, Clocked
    <2>2. CASE ~exec.exited
      BY <1>4, <1>5, <2>2 DEF ReturnsWithin, Ending
    <2> QED
      BY <2>1, <2>2
  <1>6. UNCHANGED <<Kind, LoopSignal>>
    BY DEF Fixed, Kind, LoopSignal, ChildSignal
  <1>7. ~LoopSignal => d + (IF Kind = "release" THEN 19 ELSE 21) <= n
    BY <1>4, <1>5 DEF SleepTop
  <1> HIDE DEF LoopSignal
  <1> QED
    BY <1>1, <1>3, <1>6, <1>7 DEF ReturnsWithin, Running, Ending, Draining

LEMMA LaunchPaced ==
  ASSUME IInv, Clocked, call.at \in {"begin", "sleep"}, Launch(call.attempt + 1), Fixed, stop,
         (call.at = "sleep") => timer["sleep"] = 0 /\ ~LoopSignal,
         NEW n \in Int, ReturnsWithin(n)
  PROVE  ReturnsWithin(n)'
  <1>1. call.attempt + 1 \in Nat
    BY DEF IInv, TypeOK
  <1>2. CASE Return("failed")
    BY <1>2, ReturnPaced
  <1>3. CASE Launched(call.attempt + 1)
    <2>1. call'.at = "exec" /\ call'.attempt = call.attempt + 1
      BY <1>3 DEF Launched
    <2>2. UNCHANGED <<Kind, ChildSignal>> /\ ~Probing' /\ Told' = ChildSignal
      BY <1>3 DEF IInv, ProbesApart, Probing, Launched, Fixed, Told, ChildSignal, Kind
    <2> HIDE DEF Told, Probing
    <2>3. /\ ~exec'.exited /\ timer'["term"] = Timeout
          /\ timer'["abortKill"] = IF ChildSignal /\ stop THEN 20 ELSE Off
          /\ child'.state = "alive" /\ ~child'.killed
      BY <1>1, <2>1, LaunchTimers DEF IInv
    <2>4. ~ChildSignal => Timeout = 14 /\ Kind = "release"
      BY DEF ChildSignal, Timeout
    <2>5. CASE ChildSignal
      <3>1. 21 <= n
        BY <2>5 DEF ReturnsWithin, Longest, ChildSignal
      <3>2. timer'["abortKill"] = 20
        BY <2>3, <2>5
      <3> QED
        BY <2>1, <2>2, <2>3, <2>5, <3>1, <3>2 DEF ReturnsWithin, Running, Ending, Draining
    <2>6. CASE ~ChildSignal
      <3>1. RetryNeeds' \in 0..22 /\ (call.at = "sleep" => RetryNeeds' = 0)
        <4>1. call.at = "sleep" => call'.attempt # 1
          BY <2>1 DEF IInv, TypeOK, AttemptsCounted
        <4>2. Kind' = "release"
          BY <2>2, <2>4, <2>6
        <4> QED
          BY <2>2, <4>1, <4>2 DEF RetryNeeds
      <3>2. 14 + 5 + RetryNeeds' <= n
        <4>1. CASE call.at = "begin"
          <5>1. \A m \in 0..22 : 14 + 5 + m <= n
            BY <4>1 DEF ReturnsWithin, Longest
          <5> QED
            BY <3>1, <5>1, Zenon
        <4>2. CASE call.at = "sleep"
          BY <2>4, <2>6, <3>1, <4>2 DEF ReturnsWithin
        <4> QED
          BY <4>1, <4>2
      <3> QED
        BY <2>1, <2>2, <2>3, <2>4, <2>6, <3>2 DEF ReturnsWithin, Running, Ending, Draining, Off
    <2> QED
      BY <2>5, <2>6
  <1> QED
    BY <1>1, <1>2, <1>3, LaunchStep DEF IInv

\* An estimate is not made again once its rsync has obeyed the SIGTERM.
LEMMA EstimateEnds ==
  ASSUME IInv, Verdict, Retry, Kind = "estimate"
  PROVE  child.end.exit \notin {Signal, 20}
  <1> DEFINE c == ClassifyExit(child.end)
  <1>1. ~Return("failed") /\ ~Return("ok")
    BY Returned, RetryStep DEF IInv, Delayed
  <1>2. \/ Caught(c.retriable)
        \/ Caught(FALSE)
    BY <1>1 DEF Verdict, OverSsh
  <1>3. c.retriable
    BY <1>1, <1>2 DEF Caught
  <1> QED
    BY <1>3 DEF ClassifyExit, Signal

LEMMA JudgePaced ==
  ASSUME IInv, Clocked, Closed \/ Drained, UNCHANGED asked,
         ~(Unexplained /\ Probe(call.probe + 1)), NEW n \in Int, ReturnsWithin(n)
  PROVE  ReturnsWithin(n)'
  <1>1. call.at = "exec" /\ child.state = "dead" /\ Judge /\ Fixed
    BY SettlesDead DEF Fixed, ghosts
  <1>2. CASE Return("failed") \/ Return("ok")
    BY <1>1, <1>2, ReturnPaced
  <1>3. CASE /\ UNCHANGED child
             /\ Retry /\ ~Probing /\ call.attempt < Attempts
    <2>1. Verdict
      BY <1>1 DEF Judge
    <2> QED
      BY <1>1, <1>3, <2>1, RetryPaced, EstimateEnds
  <1> QED
    BY <1>1, <1>2, <1>3, JudgeStep

\* The first probe takes what the call is granted for it and the rest, a later one its share.
LEMMA ProbePaced ==
  ASSUME IInv, Clocked, Closed \/ Drained, Unexplained, Probe(call.probe + 1),
         NEW n \in Int, ReturnsWithin(n)
  PROVE  /\ Probing => UNCHANGED asked /\ ReturnsWithin(n)'
         /\ ~Probing => asked' = asked + 1 /\ ReturnsWithin(n + Inquiry)'
  <1>1. call.at = "exec" /\ child.state = "dead"
    BY SettlesDead
  <1>2. Probed /\ call.probe + 1 <= Probes /\ call.probe \in Nat /\ Probes \in Nat
    BY <1>1, ProbeStep, CommandAssumption DEF IInv, TypeOK
  <1>3. /\ ~Told' /\ call'.at = "exec" /\ ~exec'.exited /\ child'.state = "alive"
        /\ ~child'.killed /\ timer'["term"] = 20
    BY <1>2 DEF Probed, Told, Probing
  <1>4. RetryNeeds' = (Probes - (call.probe + 1)) * 25
    BY <1>2 DEF Probed, RetryNeeds, Probing, ProbeTime
  <1>5. RetryNeeds' + 25 = (Probes - call.probe) * 25
    BY <1>2, <1>4
  <1>6. ASSUME NEW m \in Int, RetryNeeds' + 25 <= m PROVE ReturnsWithin(m)'
    <2>1. RetryNeeds' \in Nat
      <3>1. \A k \in Nat : k * 25 \in Nat
        OBVIOUS
      <3>2. Probes - (call.probe + 1) \in Nat
        BY <1>2
      <3> QED
        BY <1>4, <3>1, <3>2
    <2>2. ~Draining' /\ ~Ending'
      BY <1>3 DEF Draining, Ending
    <2>3. 0 <= m /\ 20 + 5 + RetryNeeds' <= m
      <3>1. \A k \in Nat : k + 25 <= m => 0 <= m /\ 20 + 5 + k <= m
        OBVIOUS
      <3> QED
        BY <1>6, <2>1, <3>1, Zenon
    <2> HIDE DEF Told, RetryNeeds, Running, Draining, Ending
    <2> QED
      BY <1>3, <2>2, <2>3 DEF ReturnsWithin, Off
  <1>7. CASE Probing
    <2>1. UNCHANGED asked
      BY <1>2, <1>7 DEF Probed, Probing
    <2>2. RetryNeeds = (Probes - call.probe) * 25
      BY <1>7 DEF RetryNeeds, ProbeTime
    <2>3. RetryNeeds \in Nat
      BY Needed
    <2>4. RetryNeeds <= n
      <3> HIDE DEF RetryNeeds
      <3>1. CASE exec.exited
        BY <1>1, <2>3, <3>1 DEF ReturnsWithin, Draining, Clocked
      <3>2. CASE ~exec.exited
        BY <1>1, <2>3, <3>2 DEF ReturnsWithin, Ending
      <3> QED
        BY <3>1, <3>2
    <2> QED
      BY <1>5, <1>6, <1>7, <2>1, <2>2, <2>4
  <1>8. CASE ~Probing
    <2>1. call.probe = 0 /\ asked' = asked + 1
      BY <1>2, <1>8 DEF Probed, Probing
    <2>2. RetryNeeds' + 25 = Inquiry /\ Inquiry \in Nat
      BY <1>2, <1>5, <2>1, Needed DEF Inquiry, ProbeTime
    <2>3. 0 <= n
      BY DEF ReturnsWithin
    <2> HIDE DEF Inquiry
    <2> QED
      BY <1>6, <1>8, <2>1, <2>2, <2>3
  <1> QED
    BY <1>7, <1>8

LEMMA TimersPaced ==
  ASSUME IInv, Clocked, stop, Exited \/ TermTimer \/ KillTimer, NEW n \in Int, ReturnsWithin(n)
  PROVE  ReturnsWithin(n)'
  <1>0. /\ UNCHANGED <<Kind, Told, Probing>> /\ call.at = "exec" /\ call' = call
        /\ child'.state = child.state /\ child'.end = child.end
    BY DEF Exited, TermTimer, KillTimer, Kind, ChildSignal, Told, Probing, IInv, TypeOK
  <1>1. UNCHANGED RetryNeeds
    BY <1>0 DEF RetryNeeds
  <1>2. RetryNeeds \in Nat
    BY Needed
  <1> HIDE DEF RetryNeeds, Told, Probing
  <1>3. CASE Exited
    <2>1. exec'.exited /\ timer'["drain"] = 1 /\ Ending
      BY <1>3, TimersType DEF IInv, TypeOK, Exited, Timer, Ending
    <2>2. 1 + RetryNeeds <= n
      BY <2>1 DEF ReturnsWithin
    <2> QED
      BY <1>0, <1>1, <2>1, <2>2 DEF ReturnsWithin, Running, Draining, Ending
  <1>4. CASE TermTimer
    <2>1. /\ exec'.exited = exec.exited /\ child'.killed = child.killed
          /\ timer'["drain"] = timer["drain"] /\ timer'["abortKill"] = timer["abortKill"]
          /\ timer["term"] = 0 /\ timer'["term"] = Off /\ timer'["kill"] = 4
      BY <1>4 DEF IInv, TypeOK, TermTimer, Timer
    <2>2. Running' = Running /\ Draining' = Draining /\ Ending' = Ending
      BY <1>0, <2>1 DEF Running, Draining, Ending
    <2>3. Running /\ ~Told => 4 + 1 + RetryNeeds <= n
      BY <1>2, <2>1 DEF ReturnsWithin, Off
    <2> HIDE DEF Running, Draining, Ending
    <2> QED
      BY <1>0, <1>1, <2>1, <2>2, <2>3 DEF ReturnsWithin
  <1>5. CASE KillTimer
    <2>1. PICK t \in {"kill", "abortKill"} : timer[t] = 0 /\ timer' = [timer EXCEPT ![t] = Off]
      BY <1>5 DEF KillTimer
    <2>2. /\ exec' = exec /\ child'.killed /\ timer'["drain"] = timer["drain"]
      BY <1>5, <2>1 DEF IInv, TypeOK, KillTimer, Timer
    <2>3. ~Running' /\ Draining' = Draining
      BY <1>0, <2>2 DEF Running, Draining
    <2>4. Running => 1 + RetryNeeds <= n
      <3>1. Running /\ Told => RetryNeeds = 0
        BY DEF Running, RetryNeeds, ChildSignal, Told
      <3>2. CASE Told
        BY <3>1, <3>2 DEF Clocked, ReturnsWithin
      <3>3. CASE ~Told
        <4>1. ASSUME Running PROVE \/ timer["term"] \in 0..20
                                   \/ timer["term"] = Off /\ timer["kill"] \in 0..4
          BY <3>3, <4>1, TermTopType DEF Clocked
        <4> HIDE DEF Running
        <4> QED
          BY <1>2, <3>3, <4>1 DEF ReturnsWithin, Off
      <3> QED
        BY <3>2, <3>3
    <2>5. Ending' => 1 + RetryNeeds <= n
      BY <1>0, <2>2, <2>4, <1>2 DEF ReturnsWithin, Running, Ending, IInv, TypeOK, Clocked
    <2> HIDE DEF Running, Draining, Ending
    <2> QED
      BY <1>0, <1>1, <2>2, <2>3, <2>5 DEF ReturnsWithin
  <1> QED
    BY <1>3, <1>4, <1>5

LEMMA ChildPaced ==
  ASSUME IInv, Clocked, stop,
         ChildEnds \/ ChildKilled \/ CommandSent \/ TakesEffect \/ OrphanEnds,
         NEW n \in Int, ReturnsWithin(n)
  PROVE  ReturnsWithin(n)'
  <1>0. UNCHANGED <<Kind, Told, Probing, LoopSignal, call, exec, timer>>
    BY DEF ChildEnds, ChildKilled, Ends, CommandSent, TakesEffect, OrphanEnds, Kind, ChildSignal,
           Told, Probing, LoopSignal
  <1>1. CASE ChildEnds \/ ChildKilled
    <2>1. PICK end : /\ child' = [child EXCEPT !.state = "dead", !.end = end]
                     /\ \/ end = End(Signal, "")
                        \/ end \in TermEnds
                        \/ ~child.termed /\ ~child.killed
      BY <1>1, Zenon DEF ChildEnds, ChildKilled, Ends
    <2>2. /\ child'.state = "dead" /\ child.state = "alive"
          /\ child'.end = end /\ child'.killed = child.killed
      BY <1>1, <2>1 DEF IInv, TypeOK, ChildEnds, ChildKilled
    <2>3. ~Running' /\ Draining' = Draining /\ (Ending' => Running \/ Ending)
      BY <1>0, <2>2 DEF Running, Draining, Ending, IInv, TypeOK
    <2>4. ~Draining
      BY <2>2 DEF Clocked
    <2>5. ASSUME Ending', Kind = "estimate" PROVE end.exit \in {Signal, 20}
      <3>1. Told /\ ~OverSsh
        BY <2>5 DEF ChildSignal, OverSsh, Told, IInv, ProbesApart
      <3>2. child.termed \/ child.killed
        BY <2>2, <2>3, <2>5, <3>1 DEF Clocked, Running, Ending
      <3>3. end = End(Signal, "") \/ end = End(20, "")
        BY <2>1, <3>1, <3>2, Zenon DEF TermEnds
      <3>4. End(Signal, "").exit = Signal /\ End(20, "").exit = 20
        BY DEF End
      <3> QED
        BY <3>3, <3>4
    <2>6. ASSUME Ending' PROVE 1 + RetryNeeds' <= n
      <3>1. CASE Told
        <4>1. RetryNeeds' = 0
          BY <1>0, <2>2, <2>5, <2>6, <3>1 DEF RetryNeeds, ChildSignal, Told
        <4>2. 1 <= n
          <5>1. RetryNeeds \in Nat
            BY Needed
          <5>2. CASE Running
            BY <3>1, <5>2 DEF Clocked, ReturnsWithin
          <5>3. CASE Ending
            <6>1. 1 + RetryNeeds <= n
              BY <5>3 DEF ReturnsWithin
            <6> HIDE DEF RetryNeeds
            <6> QED
              BY <5>1, <6>1
          <5> QED
            BY <2>3, <2>6, <5>2, <5>3
        <4> QED
          BY <4>1, <4>2
      <3>2. CASE ~Told
        <4>1. RetryNeeds' = RetryNeeds /\ RetryNeeds \in Nat
          BY <1>0, <3>2, Needed DEF RetryNeeds, ChildSignal, Told
        <4>2. 1 + RetryNeeds <= n
          <5> HIDE DEF RetryNeeds
          <5>1. CASE Running
            <6>1. \/ timer["term"] \in 0..20
                  \/ timer["term"] = Off /\ timer["kill"] \in 0..4
              BY <3>2, <5>1, TermTopType DEF Clocked
            <6> HIDE DEF Running
            <6> QED
              BY <3>2, <4>1, <5>1, <6>1 DEF ReturnsWithin, Off
          <5>2. CASE Ending
            BY <5>2 DEF ReturnsWithin
          <5> QED
            BY <2>3, <2>6, <5>1, <5>2
        <4> QED
          BY <4>1, <4>2
      <3> QED
        BY <3>1, <3>2
    <2> HIDE DEF Running, Draining, Ending, RetryNeeds, LoopSignal, Told, Probing
    <2> QED
      BY <1>0, <2>3, <2>4, <2>6 DEF ReturnsWithin
  <1>2. CASE CommandSent \/ TakesEffect \/ OrphanEnds
    <2>1. /\ child'.state = child.state /\ child'.killed = child.killed
          /\ child'.end = child.end
      BY <1>2 DEF IInv, TypeOK, CommandSent, TakesEffect, OrphanEnds
    <2>2. /\ Running' = Running /\ Draining' = Draining /\ Ending' = Ending
          /\ RetryNeeds' = RetryNeeds
      BY <1>0, <2>1 DEF Running, Draining, Ending, RetryNeeds
    <2> HIDE DEF Running, Draining, Ending, RetryNeeds, LoopSignal, Told
    <2> QED
      BY <1>0, <2>2 DEF ReturnsWithin
  <1> QED
    BY <1>1, <1>2

\* Half a second passes: the call is half a second nearer to its return.
LEMMA TickPaced ==
  ASSUME IInv, Clocked, stop, Tick, NEW n \in Int, ReturnsWithin(n)
  PROVE  ReturnsWithin(n - 1)'
  <1>0. UNCHANGED <<todo, call, exec, child, stop, Kind, Told, LoopSignal, RetryNeeds>>
    BY DEF Tick, Kind, ChildSignal, Told, Probing, LoopSignal, RetryNeeds
  <1>1. ASSUME NEW t \in Timer
        PROVE  /\ timer[t] # 0
               /\ timer'[t] = IF timer[t] > 0 THEN timer[t] - 1 ELSE timer[t]
    BY DEF Tick, Busy
  <1>2. Draining' = Draining /\ Running' = Running /\ ~Ending /\ ~Ending'
    <2>1. ~(child.state = "alive" /\ child.killed)
          /\ ~(call.at = "exec" /\ child.state = "dead" /\ ~exec.exited)
      BY DEF Tick, Busy
    <2> QED
      BY <1>0, <2>1 DEF Draining, Running, Ending, Clocked, IInv, TypeOK
  <1>3. "term" \in Timer /\ "kill" \in Timer /\ "abortKill" \in Timer /\ "drain" \in Timer
        /\ "sleep" \in Timer
    BY DEF Timer
  <1>4. ASSUME NEW t \in Timer, NEW m \in Nat, timer[t] \in 0..m
        PROVE  timer'[t] = timer[t] - 1 /\ timer[t] \in 1..m
    BY <1>1, <1>4
  <1>5. RetryNeeds \in Nat
    BY Needed
  <1> HIDE DEF RetryNeeds, Draining, Running, Ending, Told
  <1>6. call.at = "sleep" =>
            /\ ~LoopSignal
            /\ timer'["sleep"] = timer["sleep"] - 1 /\ timer["sleep"] \in 1..10
    <2> SUFFICES ASSUME call.at = "sleep" PROVE /\ ~LoopSignal
                                                /\ timer'["sleep"] = timer["sleep"] - 1
                                                /\ timer["sleep"] \in 1..10
      OBVIOUS
    <2>1. ~LoopSignal
      BY <1>1, <1>3 DEF Clocked
    <2>2. timer["sleep"] \in 0..10
      BY <2>1 DEF Clocked, SleepTop
    <2> QED
      BY <1>3, <1>4, <2>1, <2>2
  <1>7. Draining => timer'["drain"] = timer["drain"] - 1 /\ timer["drain"] \in 1..1
    BY <1>3, <1>4 DEF Clocked
  <1>8. Running => \/ /\ Told
                      /\ timer'["abortKill"] = timer["abortKill"] - 1
                      /\ timer["abortKill"] \in 1..20
                   \/ /\ ~Told
                      /\ timer'["term"] = timer["term"] - 1 /\ timer["term"] \in 1..20
                   \/ /\ ~Told
                      /\ timer["term"] = Off /\ timer'["term"] = Off
                      /\ timer'["kill"] = timer["kill"] - 1 /\ timer["kill"] \in 1..4
    <2>1. CASE Told
      <3>1. Running => timer["abortKill"] \in 0..20
        BY <2>1 DEF Clocked
      <3> QED
        BY <1>3, <1>4, <2>1, <3>1
    <2>2. CASE ~Told
      <3>1. Running => \/ timer["term"] \in 0..20
                       \/ timer["term"] = Off /\ timer["kill"] \in 0..4
        BY <2>2, TermTopType DEF Clocked
      <3>2. timer["term"] = Off => timer'["term"] = Off
        BY <1>1, <1>3 DEF Off
      <3> QED
        BY <1>3, <1>4, <2>2, <3>1, <3>2
    <2> QED
      BY <2>1, <2>2
  <1>9. call.at = "sleep" \/ Draining \/ Running
    BY <1>2 DEF Tick, Busy, IInv, TypeOK, Draining, Running, Ending, Clocked
  <1>10. 0 <= n - 1
    BY <1>5, <1>6, <1>7, <1>8, <1>9 DEF ReturnsWithin, Off
  <1>11. call.at # "begin"
    BY DEF Tick, Busy
  <1>12. (call'.at = "sleep" /\ ~LoopSignal') =>
             timer'["sleep"] + (IF Kind' = "release" THEN 19 ELSE 21) <= n - 1
    BY <1>0, <1>6 DEF ReturnsWithin
  <1>13. Draining' => timer'["drain"] + RetryNeeds' <= n - 1
    BY <1>0, <1>2, <1>5, <1>7 DEF ReturnsWithin
  <1>14. /\ Running' /\ Told' => timer'["abortKill"] + 1 <= n - 1
         /\ Running' /\ ~Told' /\ timer'["term"] # Off =>
                timer'["term"] + 5 + RetryNeeds' <= n - 1
         /\ Running' /\ ~Told' /\ timer'["term"] = Off =>
                timer'["kill"] + 1 + RetryNeeds' <= n - 1
    BY <1>0, <1>2, <1>5, <1>8 DEF ReturnsWithin, Off
  <1> QED
    BY <1>0, <1>2, <1>10, <1>11, <1>12, <1>13, <1>14 DEF ReturnsWithin

\* A stop ends the pass, whatever the children and their pipes do, within the time the service
\* manager grants and that of the probes of calls whose alias was refused, for every pass whose
\* calls have 20.5 seconds each and any number of probes (exec, withTransientRetry, runRemote).
THEOREM StopFits == ASSUME PassesFit PROVE Spec => []StopFitsUnit
  <1> DEFINE Room == Granted - Longest * (Len(todo) - 1) - spent
  <1>1. Init => Paced
    BY DEF Init, Paced
  <1>2. IInv => Len(todo) \in Nat /\ Len(todo) >= 1 /\ spent \in Nat /\ TimeoutStop \in Nat
                /\ Granted \in Nat /\ Granted >= TimeoutStop /\ Room \in Int
    <2>1. \A s \in Seq(Kinds) : s # <<>> => Len(s) \in Nat /\ Len(s) >= 1
      BY EmptySeq, LenProperties
    <2> QED
      BY <2>1, GrantedGrows DEF IInv, TypeOK, Longest
  <1>3. IInv /\ Clocked /\ Clocked' /\ Paced /\ [Next]_vars => Paced'
    <2> SUFFICES ASSUME IInv, Clocked, Clocked', Paced, [Next]_vars, stop'
                 PROVE  ReturnsWithin(Room)'
      BY DEF Paced
    <2>0. Room \in Int
      BY <1>2
    <2>1. CASE Stop
      <3>1. /\ Room' \in Int /\ Longest <= Room'
            /\ Probing => Longest + Inquiry <= Room'
        <4>1. UNCHANGED <<todo, Granted, spent>> /\ spent = 0 /\ Longest * Len(todo) <= TimeoutStop
          BY <2>1 DEF Stop, ghosts, Granted, Clocked
        <4>2. /\ Inquiry \in Nat
              /\ Probing => Granted >= TimeoutStop + Inquiry
          BY GrantedGrows, Needed DEF IInv, ProbesApart
        <4> HIDE DEF Inquiry, Granted, Probing
        <4> QED
          BY <1>2, <4>1, <4>2 DEF Longest
      <3> HIDE DEF Room
      <3>2. ASSUME NEW n \in Int, Longest <= n, Probing => Longest + Inquiry <= n
            PROVE  ReturnsWithin(n)'
        BY <2>1, <3>2, StopPaced
      <3> QED
        BY <3>1, <3>2 DEF ReturnsWithin
    <2>2. CASE ~Stop
      <3>1. stop /\ ReturnsWithin(Room)
        <4>1. stop
          BY <2>2 DEF Next, Works, Begin, Wake, NextCall, Closed, Drained, Exited, TermTimer,
                      KillTimer, ChildKilled, ChildEnds, Ends, Tick, CommandSent, TakesEffect,
                      OrphanEnds, vars
        <4> QED
          BY <4>1 DEF Paced
      <3> HIDE DEF Room
      <3>2. CASE Tick
        <4>1. Room' = Room - 1 \/ (UNCHANGED Room /\ Room < 0)
          BY <1>2, <3>1, <3>2 DEF Room, Tick, Longest, Granted
        <4>2. ASSUME NEW n \in Int, ReturnsWithin(n) PROVE ReturnsWithin(n - 1)'
          BY <3>1, <3>2, <4>2, TickPaced
        <4> QED
          BY <2>0, <3>1, <4>1, <4>2 DEF ReturnsWithin
      <3>3. CASE NextCall
        <4>1. Room' = Room + Longest
          BY <1>2, <3>3, NextCallClocked DEF Room, NextCall, Longest, Granted, ghosts
        <4>2. call'.at = "begin" /\ ~exec'.exited /\ call'.at # "exec"
          BY <3>3 DEF NextCall, IInv, OneAttempt, Fresh
        <4>3. 0 <= Room' /\ Longest <= Room'
          BY <2>0, <3>1, <4>1 DEF ReturnsWithin, Longest
        <4> QED
          BY <4>2, <4>3 DEF ReturnsWithin, Running, Draining, Ending
      <3>4. CASE (Closed \/ Drained) /\ Unexplained /\ Probe(call.probe + 1)
        <4>1. UNCHANGED <<todo, spent>>
          BY <3>4, SettlesDead
        <4>2. ASSUME NEW n \in Int, ReturnsWithin(n)
              PROVE  /\ Probing => UNCHANGED asked /\ ReturnsWithin(n)'
                     /\ ~Probing => asked' = asked + 1 /\ ReturnsWithin(n + Inquiry)'
          BY <3>4, <4>2, ProbePaced
        <4>3. CASE Probing
          <5>1. UNCHANGED Room
            BY <2>0, <3>1, <4>1, <4>2, <4>3 DEF Room, Granted
          <5> QED
            BY <2>0, <3>1, <4>2, <4>3, <5>1 DEF ReturnsWithin
        <4>4. CASE ~Probing
          <5>1. Room' = Room + Inquiry
            <6>1. asked' = asked + 1 /\ Inquiry \in Nat
              BY <2>0, <3>1, <4>2, <4>4, Needed
            <6>2. Granted' = Granted + Inquiry
              BY <6>1, GrantedGrows DEF IInv
            <6> HIDE DEF Inquiry, Granted
            <6> QED
              BY <1>2, <4>1, <6>1, <6>2 DEF Room, Longest
          <5> QED
            BY <2>0, <3>1, <4>2, <4>4, <5>1 DEF ReturnsWithin
        <4> QED
          BY <4>3, <4>4
      <3>5. CASE /\ ~Tick /\ ~NextCall
                 /\ ~((Closed \/ Drained) /\ Unexplained /\ Probe(call.probe + 1))
        <4>1. UNCHANGED <<todo, spent, asked>>
          <5>1. CASE Closed \/ Drained
            BY <3>5, <5>1, SettlesDead, JudgeStep
          <5> QED
            BY <2>2, <3>5, <5>1 DEF Next, Works, Begin, Wake, Exited, TermTimer, KillTimer,
                         ChildKilled, ChildEnds, Ends, CommandSent, TakesEffect, OrphanEnds, vars,
                         ghosts
        <4>2. ASSUME NEW n \in Int, ReturnsWithin(n) PROVE ReturnsWithin(n)'
          <5>1. CASE Begin \/ Wake
            <6>1. Fixed
              BY <5>1 DEF Begin, Wake, Fixed
            <6>2. CASE Return("failed")
              BY <4>2, <6>2, ReturnPaced
            <6>3. CASE /\ Launch(call.attempt + 1) /\ call.at \in {"begin", "sleep"}
                       /\ (call.at = "sleep") => timer["sleep"] = 0 /\ ~LoopSignal
              BY <3>1, <4>2, <6>1, <6>3, LaunchPaced
            <6> QED
              BY <3>1, <5>1, <6>2, <6>3 DEF Begin, Wake, IInv, AttemptsCounted
          <5>2. CASE Closed \/ Drained
            BY <3>5, <4>1, <4>2, <5>2, JudgePaced
          <5>3. CASE Exited \/ TermTimer \/ KillTimer
            BY <3>1, <4>2, <5>3, TimersPaced
          <5>4. CASE ChildEnds \/ ChildKilled \/ CommandSent \/ TakesEffect \/ OrphanEnds
            BY <3>1, <4>2, <5>4, ChildPaced
          <5>5. CASE UNCHANGED vars
            BY <4>2, <5>5 DEF vars, ReturnsWithin, Running, Draining, Ending, RetryNeeds, Kind,
                              ChildSignal, LoopSignal, Told, Probing
          <5> QED
            BY <2>2, <3>5, <5>1, <5>2, <5>3, <5>4, <5>5 DEF Next, Works
        <4>3. UNCHANGED Room
          BY <4>1 DEF Room, Granted
        <4> QED
          BY <2>0, <3>1, <4>2, <4>3 DEF ReturnsWithin
      <3> QED
        BY <2>2, <3>2, <3>3, <3>4, <3>5
    <2> QED
      BY <2>1, <2>2
  <1>4. IInv /\ Clocked /\ Paced => StopFitsUnit
    BY <1>2 DEF Paced, ReturnsWithin, StopFitsUnit, Clocked, Longest
  <1> QED
    BY <1>1, <1>3, <1>4, Inductive, ClockedAlways, PTL DEF Spec
=============================================================================
