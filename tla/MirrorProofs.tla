---------------------------- MODULE MirrorProofs -----------------------------
(***************************************************************************)
(* Proofs about Mirror, for any number of processes and reports, any sizes *)
(* of the source and any schedule.                                         *)
(***************************************************************************)
EXTENDS Mirror, WellFoundedInduction, TLAPS

-----------------------------------------------------------------------------
(***************************************************************************)
(* The newest of a set of reports                                          *)
(***************************************************************************)
LEMMA NewestExists ==
  ASSUME Parameters, NEW S \in SUBSET Reports, S # {}
  PROVE  Newest(S) \in S
  <1> DEFINE Ages == {MaxNow - x.start : x \in S}
  <1>0. MaxNow \in Nat /\ \A x \in S : x.start \in 1..MaxNow
    BY DEF Parameters, Reports, Moment
  <1>1. Ages \subseteq Nat /\ Ages # {}
    BY <1>0
  <1>2. PICK a \in Ages : \A b \in Ages : ~(<<b, a>> \in OpToRel(<, Nat))
    <2> HIDE DEF Ages
    <2> QED
      BY <1>1, NatLessThanWellFounded, WFMin
  <1>3. \A b \in Ages : ~(b < a)
    BY <1>1, <1>2 DEF OpToRel
  <1>4. PICK x \in S : a = MaxNow - x.start
    OBVIOUS
  <1>5. \A y \in S : y.start <= x.start
    <2> SUFFICES ASSUME NEW y \in S PROVE y.start <= x.start
      OBVIOUS
    <2>1. MaxNow - y.start \in Ages
      OBVIOUS
    <2>2. ~(MaxNow - y.start < MaxNow - x.start)
      BY <1>3, <1>4, <2>1
    <2> QED
      BY <1>0, <2>2
  <1> QED
    BY <1>4, <1>5 DEF Newest

-----------------------------------------------------------------------------
(***************************************************************************)
(* The invariant                                                           *)
(***************************************************************************)
Started == \A r \in Runner : runner[r].at # "idle" => runner[r].start \in Moment

\* low is below every baseline the guard may choose.
Lowest ==
  /\ \A x \in reports : Trusted(x) => low # None /\ low <= x.files
  /\ (\A x \in reports : ~Trusted(x)) => low = None

\* What a process that is let through knows of the source.
Fits(x) ==
  /\ x.at = "guard" /\ ~x.moved => x.files = src
  /\ x.at = "transfer" /\ ~x.moved /\ ~x.force => 2 * src >= x.bar

Measured == \A r \in Runner : Fits(runner[r])

IInv == TypeOK /\ Started /\ Lowest /\ Measured

LEMMA IdleType ==
  /\ Idle \in Runners /\ Idle.at = "idle"
  /\ Idle.moved = FALSE /\ Idle.bar = None /\ Idle.files = None
  BY DEF Idle, Runners

LEMMA InitIInv == ASSUME Parameters PROVE Init => IInv
  <1> SUFFICES ASSUME Init PROVE IInv
    OBVIOUS
  <1>1. TypeOK
    BY IdleType DEF Parameters, Init, TypeOK, Moment
  <1>2. Started /\ Lowest /\ Measured
    BY IdleType DEF Init, Started, Lowest, Measured, Fits
  <1> QED
    BY <1>1, <1>2 DEF IInv

LEMMA FilesNumbers == ASSUME Parameters PROVE Files \subseteq Nat /\ None \notin Files /\ None = 0
  BY DEF Parameters, None

\* A process moves on, and nothing the guard reads changes.
LEMMA PlacedInductive ==
  ASSUME IInv, NEW r \in Runner, NEW y \in Runners, Set(r, y), Fits(y),
         y.at # "idle" => y.start \in Moment,
         UNCHANGED <<src, now, reports, low>>, runs' \in 0..MaxRun, dst' \in Files \cup {0}
  PROVE  IInv'
  <1>1. runner' \in [Runner -> Runners] /\ runner'[r] = y
    BY DEF IInv, TypeOK, Set
  <1>2. \A q \in Runner \ {r} : runner'[q] = runner[q]
    BY DEF IInv, TypeOK, Set
  <1>3. TypeOK'
    BY <1>1 DEF IInv, TypeOK, Moment
  <1>4. Started'
    BY <1>1, <1>2 DEF IInv, Started, Moment
  <1>5. Lowest'
    BY DEF IInv, Lowest, Trusted
  <1>6. Measured'
    BY <1>1, <1>2 DEF IInv, Measured, Fits
  <1> QED
    BY <1>3, <1>4, <1>5, <1>6 DEF IInv

LEMMA EndsInductive ==
  ASSUME IInv, NEW r \in Runner, NEW x \in Runners, x.start \in Moment, NEW ok \in BOOLEAN,
         Ends(r, x, ok),
         UNCHANGED <<src, now, runs, reports, low>>, dst' \in Files \cup {0}
  PROVE  IInv'
  <1>1. CASE x.dry
    BY <1>1, IdleType, PlacedInductive DEF Ends, Fits, IInv, TypeOK
  <1>2. CASE ~x.dry
    <2> DEFINE y == [x EXCEPT !.at = "record", !.ok = ok, !.moved = FALSE, !.bar = None]
    <2>1. y \in Runners /\ y.at = "record" /\ y.start = x.start
      BY DEF Runners
    <2>2. Set(r, y)
      BY <1>2 DEF Ends
    <2> HIDE DEF y
    <2> QED
      BY <2>1, <2>2, PlacedInductive DEF Fits, IInv, TypeOK
  <1> QED
    BY <1>1, <1>2

-----------------------------------------------------------------------------
(***************************************************************************)
(* The guard                                                               *)
(***************************************************************************)
\* A run the guard lets through measured at least half of every baseline.
LEMMA GuardHolds ==
  ASSUME Parameters, IInv, NEW files \in Files, ~Collapsed(files)
  PROVE  2 * files >= low
  <1> DEFINE S == {x \in reports : Trusted(x)}
  <1>1. low \in Nat /\ files \in Nat
    BY FilesNumbers DEF IInv, TypeOK
  <1>2. CASE S = {}
    <2>1. low = 0
      BY <1>2, FilesNumbers DEF IInv, Lowest
    <2> QED
      BY <1>1, <2>1
  <1>3. CASE S # {}
    <2>1. S \in SUBSET Reports
      BY DEF IInv, TypeOK
    <2>2. Newest(S) \in S
      BY <1>3, <2>1, NewestExists
    <2>3. PreviousFiles = Newest(S).files
      BY <1>3 DEF PreviousFiles
    <2>4. PreviousFiles \in Files /\ low <= PreviousFiles
      BY <2>1, <2>2, <2>3 DEF IInv, Lowest, Trusted, Reports
    <2>5. ~(files < (PreviousFiles + 1) \div 2)
      BY <2>4, FilesNumbers DEF Collapsed
    <2>6. PreviousFiles \in Nat
      BY <2>4, FilesNumbers
    <2> QED
      BY <1>1, <2>4, <2>5, <2>6
  <1> QED
    BY <1>2, <1>3

LEMMA GuardInductive ==
  ASSUME Parameters, IInv, NEW r \in Runner, Guard(r)
  PROVE  IInv'
  <1> DEFINE x == runner[r]
             trips == ~x.force /\ Collapsed(x.files)
  <1>0. /\ x \in Runners /\ x.start \in Moment /\ x.at = "guard"
        /\ dst' \in Files \cup {0} /\ runs' \in 0..MaxRun /\ UNCHANGED <<src, now, runs, reports, low>>
    BY DEF IInv, TypeOK, Started, Guard, At, world
  <1>1. CASE trips \/ x.dry
    <2> DEFINE y == [x EXCEPT !.collapse = trips]
    <2>1. y \in Runners /\ y.start = x.start
      BY <1>0 DEF Runners, Collapsed
    <2>2. Ends(r, y, FALSE)
      BY <1>1 DEF Guard
    <2> HIDE DEF y
    <2> QED
      BY <1>0, <2>1, <2>2, EndsInductive
  <1>2. CASE ~(trips \/ x.dry)
    <2> DEFINE y == [x EXCEPT !.at = "transfer", !.bar = low]
    <2>1. /\ y \in Runners /\ y.start = x.start /\ y.at = "transfer" /\ y.bar = low
          /\ y.moved = x.moved /\ y.force = x.force
      BY <1>0 DEF IInv, TypeOK, Runners
    <2>2. Set(r, y)
      BY <1>2 DEF Guard
    <2>3. ASSUME ~x.moved, ~x.force PROVE 2 * src >= low
      <3>1. x.files = src /\ src \in Files
        BY <1>0, <2>3 DEF IInv, TypeOK, Measured, Fits
      <3>2. ~Collapsed(src)
        BY <1>2, <2>3, <3>1
      <3> QED
        BY <3>1, <3>2, GuardHolds
    <2>4. Fits(y)
      BY <2>1, <2>3 DEF Fits
    <2> HIDE DEF y
    <2> QED
      BY <1>0, <2>1, <2>2, <2>4, PlacedInductive
  <1> QED
    BY <1>1, <1>2

-----------------------------------------------------------------------------
(***************************************************************************)
(* Every other step                                                        *)
(***************************************************************************)
LEMMA BeginInductive ==
  ASSUME IInv, NEW r \in Runner, NEW force \in BOOLEAN, NEW dry \in BOOLEAN,
         Begin(r, force, dry), Parameters
  PROVE  IInv'
  <1> DEFINE y == [Idle EXCEPT !.at = "dedup", !.force = force, !.dry = dry, !.start = now]
  <1>1. y \in Runners /\ y.at = "dedup" /\ y.start = now
    BY IdleType DEF Runners, IInv, TypeOK
  <1>2. Set(r, y)
    BY DEF Begin
  <1>3. runs' \in 0..MaxRun /\ dst' \in Files \cup {0} /\ now \in Moment
        /\ UNCHANGED <<src, now, reports, low>>
    BY DEF Begin, IInv, TypeOK, Parameters
  <1> HIDE DEF y
  <1> QED
    BY <1>1, <1>2, <1>3, PlacedInductive DEF Fits

LEMMA DedupInductive == ASSUME IInv, NEW r \in Runner, Dedup(r) PROVE IInv'
  <1> DEFINE x == runner[r]
             y == [x EXCEPT !.at = "estimate"]
  <1>0. /\ x \in Runners /\ x.start \in Moment
        /\ dst' \in Files \cup {0} /\ runs' \in 0..MaxRun /\ UNCHANGED <<src, now, runs, reports, low>>
    BY DEF IInv, TypeOK, Started, Dedup, At, world
  <1>1. y \in Runners /\ y.start = x.start /\ y.at = "estimate"
    BY <1>0 DEF Runners
  <1>2. Ends(r, x, FALSE) \/ Set(r, y)
    BY DEF Dedup
  <1> HIDE DEF y
  <1>3. CASE Ends(r, x, FALSE)
    BY <1>0, <1>3, EndsInductive
  <1>4. CASE Set(r, y)
    BY <1>0, <1>1, <1>4, PlacedInductive DEF Fits
  <1> QED
    BY <1>2, <1>3, <1>4

LEMMA EstimateInductive == ASSUME IInv, NEW r \in Runner, Estimate(r) PROVE IInv'
  <1> DEFINE x == runner[r]
             y == [x EXCEPT !.at = "guard", !.files = src]
  <1>0. /\ x \in Runners /\ x.start \in Moment
        /\ dst' \in Files \cup {0} /\ runs' \in 0..MaxRun /\ UNCHANGED <<src, now, reports, low>>
    BY DEF IInv, TypeOK, Started, Estimate, At, world
  <1>1. y \in Runners /\ y.start = x.start /\ y.at = "guard" /\ y.files = src
    BY <1>0 DEF Runners, IInv, TypeOK
  <1>2. Set(r, y)
    BY DEF Estimate
  <1> HIDE DEF y
  <1> QED
    BY <1>0, <1>1, <1>2, PlacedInductive DEF Fits

LEMMA TransferInductive == ASSUME IInv, NEW r \in Runner, Transfer(r) PROVE IInv'
  <1> DEFINE x == runner[r]
  <1>0. /\ x \in Runners /\ x.start \in Moment
        /\ dst' \in Files \cup {0} /\ runs' \in 0..MaxRun /\ UNCHANGED <<src, now, runs, reports, low>>
    BY DEF IInv, TypeOK, Started, Transfer, At, world
  <1>1. PICK stats \in Files \cup {None} :
            LET y == [x EXCEPT !.files = stats]
            IN  IF Verify THEN Set(r, [y EXCEPT !.at = "verify"]) ELSE Ends(r, y, TRUE)
    BY DEF Transfer, IInv, TypeOK
  <1> DEFINE y == [x EXCEPT !.files = stats]
             z == [y EXCEPT !.at = "verify"]
  <1>2. y \in Runners /\ y.start = x.start
    BY <1>0 DEF Runners
  <1>3. z \in Runners /\ z.start = x.start /\ z.at = "verify"
    BY <1>0 DEF Runners
  <1>4. Set(r, z) \/ Ends(r, y, TRUE)
    BY <1>1
  <1> HIDE DEF y, z
  <1>5. CASE Set(r, z)
    BY <1>0, <1>3, <1>5, PlacedInductive DEF Fits
  <1>6. CASE Ends(r, y, TRUE)
    BY <1>0, <1>2, <1>6, EndsInductive
  <1> QED
    BY <1>4, <1>5, <1>6

LEMMA BetweenType == ASSUME NEW a, NEW b PROVE Between(a, b) \subseteq Files \cup {0}
  BY DEF Between

\* A run that ends, or is killed, or fails an attempt.
LEMMA EndingInductive ==
  ASSUME IInv, NEW r \in Runner,
         \/ TransferFails(r) \/ VerifyPass(r) \/ EstimateFails(r) \/ Stop(r) \/ Kill(r)
  PROVE  IInv'
  <1> DEFINE x == runner[r]
  <1>0. /\ x \in Runners /\ x.start \in Moment
        /\ runs' \in 0..MaxRun /\ UNCHANGED <<src, now, runs, reports, low>>
    BY DEF IInv, TypeOK, Started, TransferFails, VerifyPass, EstimateFails, Stop, Kill, At, world
  <1>1. dst' \in Files \cup {0}
    BY BetweenType DEF IInv, TypeOK, TransferFails, VerifyPass, EstimateFails, Stop, Kill
  <1>2. UNCHANGED runner \/ Ends(r, x, TRUE) \/ Ends(r, x, FALSE) \/ Set(r, Idle)
    BY DEF TransferFails, VerifyPass, EstimateFails, Stop, Kill
  <1>3. CASE UNCHANGED runner
    BY <1>0, <1>1, <1>3 DEF IInv, TypeOK, Started, Lowest, Trusted, Measured, Fits, Moment
  <1>4. CASE Ends(r, x, TRUE) \/ Ends(r, x, FALSE)
    BY <1>0, <1>1, <1>4, EndsInductive
  <1>5. CASE Set(r, Idle)
    BY <1>0, <1>1, <1>5, IdleType, PlacedInductive DEF Fits
  <1> QED
    BY <1>2, <1>3, <1>4, <1>5

\* The report of a run is a baseline only if it may be one, and low sinks to it.
LEMMA RecordInductive == ASSUME Parameters, IInv, NEW r \in Runner, Record(r) PROVE IInv'
  <1> DEFINE x == runner[r]
             report == [start |-> x.start, ok |-> x.ok, files |-> x.files,
                        collapse |-> x.collapse]
             kept == Written(report)
  <1>0. /\ x \in Runners /\ x.start \in Moment /\ Set(r, Idle)
        /\ dst' \in Files \cup {0} /\ runs' \in 0..MaxRun /\ UNCHANGED <<src, now, runs>>
    BY DEF IInv, TypeOK, Started, Record, At, world
  <1>1. CASE UNCHANGED <<reports, low>>
    BY <1>0, <1>1, IdleType, PlacedInductive DEF Fits
  <1>2. CASE /\ reports' = kept
             /\ low' = IF \A y \in kept : y.collapse \/ y.files = None THEN None
                       ELSE IF x.collapse THEN low ELSE Least(low, x.files)
    <2>1. /\ report \in Reports /\ report.files = x.files /\ report.collapse = x.collapse
          /\ report.start = x.start
      BY <1>0 DEF Reports, Runners
    <2> HIDE DEF report
    <2>2. kept \subseteq {y \in reports : y.start # report.start} \cup {report}
      BY DEF Written
    <2>3. low \in Files \cup {None} /\ x.files \in Files \cup {None}
          /\ \A y \in reports : y.files \in Files \cup {None}
      BY <1>0 DEF IInv, TypeOK, Runners, Reports
    <2>4. Least(low, x.files) \in {low, x.files}
      BY DEF Least
    <2> HIDE DEF kept
    <2>5. low' \in Files \cup {None}
      BY <1>2, <2>3, <2>4
    <2>6. Lowest'
      <3>1. CASE \A y \in kept : y.collapse \/ y.files = None
        BY <1>2, <3>1 DEF Lowest, Trusted
      <3>2. CASE \E y \in kept : ~y.collapse /\ y.files # None
        <4>1. ASSUME NEW y \in kept, Trusted(y)
              PROVE  low' # None /\ low' <= y.files
          <5>1. low \in Nat /\ x.files \in Nat /\ y.files \in Nat /\ None = 0
            BY <2>1, <2>2, <2>3, FilesNumbers
          <5>2. CASE y \in reports
            <6>1. low # None /\ low <= y.files
              BY <4>1, <5>2 DEF IInv, Lowest
            <6> QED
              BY <1>2, <3>2, <5>1, <6>1 DEF Least
          <5>3. CASE y = report
            <6>1. ~x.collapse /\ x.files # None /\ y.files = x.files
              BY <2>1, <4>1, <5>3 DEF Trusted
            <6> QED
              BY <1>2, <3>2, <5>1, <6>1 DEF Least
          <5> QED
            BY <2>2, <5>2, <5>3
        <4>2. \E y \in kept : Trusted(y)
          BY <3>2 DEF Trusted
        <4> QED
          BY <1>2, <4>1, <4>2 DEF Lowest, Trusted
      <3> QED
        BY <3>1, <3>2
    <2>7. TypeOK'
      <3>1. runner' \in [Runner -> Runners]
        BY <1>0, IdleType DEF IInv, TypeOK, Set
      <3>2. kept \subseteq Reports /\ \A y, z \in kept : y.start = z.start => y = z
        BY <2>1, <2>2 DEF IInv, TypeOK
      <3>3. now' \in Moment
        BY DEF Record, world, IInv, TypeOK, Moment
      <3> QED
        BY <1>0, <1>2, <2>5, <3>1, <3>2, <3>3 DEF IInv, TypeOK
    <2>8. Started' /\ Measured'
      <3>1. /\ runner'[r] = Idle
            /\ \A q \in Runner \ {r} : runner'[q] = runner[q]
        BY <1>0 DEF IInv, TypeOK, Set
      <3> QED
        BY <1>0, <3>1, IdleType DEF IInv, Started, Measured, Fits, Moment
    <2> QED
      BY <2>6, <2>7, <2>8 DEF IInv
  <1> QED
    BY <1>1, <1>2 DEF Record

LEMMA SourceInductive == ASSUME IInv, NEW f \in Files, SourceChanges(f) PROVE IInv'
  <1> DEFINE after(r) == [runner[r] EXCEPT !.moved = @ \/ runner[r].at \in {"guard", "transfer"}]
  <1>1. \A r \in Runner :
            /\ after(r) \in Runners
            /\ after(r).at = runner[r].at /\ after(r).start = runner[r].start
            /\ after(r).at \in {"guard", "transfer"} => after(r).moved
    <2> SUFFICES ASSUME NEW r \in Runner
                 PROVE  /\ after(r) \in Runners
                        /\ after(r).at = runner[r].at /\ after(r).start = runner[r].start
                        /\ after(r).at \in {"guard", "transfer"} => after(r).moved
      OBVIOUS
    <2>1. runner[r] \in Runners
      BY DEF IInv, TypeOK
    <2> QED
      BY <2>1 DEF Runners
  <1>2. runner' \in [Runner -> Runners] /\ \A r \in Runner : runner'[r] = after(r)
    BY <1>1 DEF SourceChanges
  <1> HIDE DEF after
  <1>3. TypeOK'
    BY <1>2 DEF SourceChanges, IInv, TypeOK, Moment
  <1>4. Started' /\ Measured'
    BY <1>1, <1>2 DEF SourceChanges, IInv, Started, Measured, Fits, Moment
  <1>5. Lowest'
    BY DEF SourceChanges, IInv, Lowest, Trusted
  <1> QED
    BY <1>3, <1>4, <1>5 DEF IInv

LEMMA TickInductive == ASSUME Parameters, IInv, Tick PROVE IInv'
  <1>1. now' \in Moment
    BY DEF Tick, IInv, TypeOK, Moment, Parameters
  <1> QED
    BY <1>1 DEF Tick, IInv, TypeOK, Started, Lowest, Trusted, Measured, Fits, Moment

LEMMA StepInductive == ASSUME Parameters, IInv, [Next]_vars PROVE IInv'
  <1>1. CASE UNCHANGED vars
    BY <1>1 DEF vars, IInv, TypeOK, Started, Lowest, Trusted, Measured, Fits, Moment
  <1>2. CASE Next
    <2>1. ASSUME NEW r \in Runner, Step(r) \/ Kill(r) PROVE IInv'
      BY <2>1, DedupInductive, EstimateInductive, GuardInductive, TransferInductive,
         EndingInductive, RecordInductive DEF Step
    <2>2. ASSUME NEW r \in Runner, NEW force \in BOOLEAN, NEW dry \in BOOLEAN, Begin(r, force, dry)
          PROVE  IInv'
      BY <2>2, BeginInductive
    <2> QED
      BY <1>2, <2>1, <2>2, SourceInductive, TickInductive DEF Next
  <1> QED
    BY <1>1, <1>2

-----------------------------------------------------------------------------
(***************************************************************************)
(* What it gives                                                           *)
(***************************************************************************)
\* The invariant the rest follows from: a run past the guard has been measured against a
\* bar no lower than half of the baseline it was judged by (runMirror, newestStats).
THEOREM Inductive == ASSUME Parameters PROVE Spec => []IInv
  <1>1. Init => IInv
    BY InitIInv
  <1>2. IInv /\ [Next]_vars => IInv'
    BY StepInductive
  <1> QED
    BY <1>1, <1>2, PTL DEF Spec

\* State, reports and every run's locals stay what they should be.
THEOREM TypeCorrect == ASSUME Parameters PROVE Spec => []TypeOK
  <1>1. IInv => TypeOK
    BY DEF IInv
  <1> QED
    BY <1>1, Inductive, PTL

\* The collapse guard of runMirror: whatever failed, was refused, was killed or was lost,
\* a mirror loses more than half of a trusted baseline only by force or by a source that
\* moved after its estimate.
THEOREM GuardIsNotDisarmed == ASSUME Parameters PROVE Spec => LossNeedsForce
  <1> DEFINE Loss == dst' < dst =>
                         \E r \in Runner :
                             /\ At(r, "transfer")
                             /\ runner[r].force \/ runner[r].moved \/ 2 * dst' >= runner[r].bar
  <1>1. IInv /\ [Next]_vars => [Loss]_vars
    <2> SUFFICES ASSUME IInv, Next, dst' < dst
                 PROVE  \E r \in Runner :
                            /\ At(r, "transfer")
                            /\ runner[r].force \/ runner[r].moved \/ 2 * dst' >= runner[r].bar
      BY DEF vars
    <2>0. src \in Nat /\ dst \in Nat /\ ~(dst < dst)
      BY FilesNumbers DEF IInv, TypeOK
    <2>1. PICK r \in Runner :
              \/ Transfer(r) \/ TransferFails(r)
              \/ (Stop(r) \/ Kill(r)) /\ At(r, "transfer")
      BY <2>0 DEF Next, Step, Dedup, Estimate, EstimateFails, Guard, VerifyPass, Stop, Record,
                  Kill, Begin, SourceChanges, Tick
    <2>2. At(r, "transfer") /\ dst' \in Between(dst, src) \cup {src}
      BY <2>1 DEF Transfer, TransferFails, Stop, Kill
    <2>3. dst' >= src /\ dst' \in Nat
      BY <2>0, <2>2, FilesNumbers DEF Between
    <2>4. runner[r].force \/ runner[r].moved \/ 2 * src >= runner[r].bar
      BY <2>2 DEF IInv, Measured, Fits, At
    <2>5. runner[r].bar \in Nat
      BY FilesNumbers DEF IInv, TypeOK, Runners
    <2>6. runner[r].force \/ runner[r].moved \/ 2 * dst' >= runner[r].bar
      BY <2>0, <2>3, <2>4, <2>5
    <2> QED
      BY <2>2, <2>6
  <1> QED
    BY <1>1, Inductive, PTL DEF Spec, LossNeedsForce
=============================================================================
