--------------------------- MODULE SchedulerProofs ---------------------------
(***************************************************************************)
(* Proofs about Scheduler, for any targets, schedule, backoff constants,   *)
(* number of reports kept and kinds of faults.                             *)
(***************************************************************************)
EXTENDS Scheduler, FiniteSetTheorems, SequenceTheorems, WellFoundedInduction, TLAPS

-----------------------------------------------------------------------------
(***************************************************************************)
(* Positions                                                               *)
(***************************************************************************)
\* Of a set of numbers there is a least, of a set of positions also a last.
LEMMA FirstExists ==
  ASSUME NEW S \in SUBSET Nat, S # {}
  PROVE  \E m \in S : \A x \in S : m <= x
  <1>1. PICK m \in S : \A x \in S : ~(<<x, m>> \in OpToRel(<, Nat))
    BY NatLessThanWellFounded, WFMin
  <1>2. \A x \in S : ~(x < m)
    BY <1>1 DEF OpToRel
  <1> QED
    BY <1>2

LEMMA LastExists ==
  ASSUME NEW n \in Nat, NEW S \in SUBSET (1..n), S # {}
  PROVE  \E m \in S : \A x \in S : x <= m
  <1> DEFINE Rest == {n - i : i \in S}
  <1>1. Rest \in SUBSET Nat /\ Rest # {}
    <2>1. \A i \in S : n - i \in Nat
      OBVIOUS
    <2> QED
      BY <2>1
  <1>2. PICK r \in Rest : \A x \in Rest : r <= x
    <2> HIDE DEF Rest
    <2> QED
      BY <1>1, FirstExists
  <1>3. PICK m \in S : r = n - m
    OBVIOUS
  <1>4. \A x \in S : n - m <= n - x
    BY <1>2, <1>3
  <1> QED
    BY <1>4

-----------------------------------------------------------------------------
(***************************************************************************)
(* Writing a report                                                        *)
(***************************************************************************)
Sorted(s) == \A i, j \in 1..Len(s) : i <= j => s[i].start <= s[j].start

\* What is left of the reports s when r is written.
Written(s, r) == SubSeq(Inserted(s, r), IF Len(s) < Kept THEN 1 ELSE 2, Len(s) + 1)

Has(s, x) == \E i \in 1..Len(s) : s[i] = x

LEMMA ReportIs ==
  ASSUME NEW x \in Reports
  PROVE  x.start \in Nat /\ x.start \in Instant /\ x.is \in Outcomes
  BY SchedulerAssumption DEF Reports, Instant

LEMMA PlaceIs ==
  ASSUME NEW s \in Seq(Reports), NEW r \in Reports
  PROVE  /\ Place(s, r) \in 1..(Len(s) + 1)
         /\ \A i \in 1..Len(s) : i < Place(s, r) => s[i].start <= r.start
         /\ Place(s, r) <= Len(s) => s[Place(s, r)].start > r.start
  <1> DEFINE later == {i \in 1..Len(s) : s[i].start > r.start} \cup {Len(s) + 1}
  <1>1. Len(s) \in Nat /\ \A i \in 1..Len(s) : s[i] \in Reports
    BY LenProperties, ElementOfSeq
  <1>2. later \in SUBSET Nat /\ later # {}
    BY <1>1
  <1>3. \E m \in later : \A x \in later : m <= x
    <2> HIDE DEF later
    <2> QED
      BY <1>2, FirstExists
  <1>4. Place(s, r) \in later /\ \A x \in later : Place(s, r) <= x
    BY <1>3 DEF Place
  <1>5. \A i \in 1..Len(s) : i < Place(s, r) => ~(s[i].start > r.start)
    BY <1>1, <1>4
  <1> QED
    BY <1>1, <1>4, <1>5, ReportIs

LEMMA InsertedIs ==
  ASSUME NEW s \in Seq(Reports), NEW r \in Reports
  PROVE  /\ Inserted(s, r) \in Seq(Reports)
         /\ Len(Inserted(s, r)) = Len(s) + 1
         /\ \A i \in 1..(Len(s) + 1) :
               Inserted(s, r)[i] = IF i < Place(s, r) THEN s[i]
                                   ELSE IF i = Place(s, r) THEN r ELSE s[i - 1]
  <1> DEFINE k == Place(s, r)
             head == SubSeq(s, 1, k - 1)
             tail == SubSeq(s, k, Len(s))
  <1>1. Len(s) \in Nat /\ \A i \in 1..Len(s) : s[i] \in Reports
    BY LenProperties, ElementOfSeq
  <1>2. k \in 1..(Len(s) + 1)
    BY PlaceIs
  <1> HIDE DEF k
  <1>3. /\ head \in Seq(Reports) /\ Len(head) = k - 1
        /\ \A i \in 1..(k - 1) : head[i] = s[i]
    <2>1. \A i \in 1..(k - 1) : s[i] \in Reports
      BY <1>1, <1>2
    <2>2. 1 \in Int /\ k - 1 \in Int
      BY <1>2
    <2> QED
      BY <1>1, <1>2, <2>1, <2>2, SubSeqProperties
  <1>4. /\ tail \in Seq(Reports) /\ Len(tail) = Len(s) - k + 1
        /\ \A i \in 1..(Len(s) - k + 1) : tail[i] = s[k + i - 1]
    <2>1. \A i \in k..Len(s) : s[i] \in Reports
      BY <1>1, <1>2
    <2>2. k \in Int /\ Len(s) \in Int
      BY <1>1, <1>2
    <2> QED
      BY <1>1, <1>2, <2>1, <2>2, SubSeqProperties
  <1> HIDE DEF head, tail
  <1>5. /\ <<r>> \in Seq(Reports) /\ Len(<<r>>) = 1 /\ <<r>>[1] = r
    OBVIOUS
  <1>6. /\ head \o <<r>> \in Seq(Reports) /\ Len(head \o <<r>>) = k
        /\ \A i \in 1..k : (head \o <<r>>)[i] = IF i < k THEN s[i] ELSE r
    <2>1. /\ head \o <<r>> \in Seq(Reports) /\ Len(head \o <<r>>) = Len(head) + 1
          /\ \A i \in 1..(Len(head) + 1) :
                (head \o <<r>>)[i] = IF i <= Len(head) THEN head[i] ELSE <<r>>[i - Len(head)]
      BY <1>3, <1>5, ConcatProperties
    <2> QED
      BY <1>2, <1>3, <1>5, <2>1
  <1> DEFINE front == head \o <<r>>
  <1>7. Inserted(s, r) = front \o tail
    BY DEF Inserted, k, head, tail
  <1> HIDE DEF front
  <1>8. /\ front \in Seq(Reports) /\ Len(front) = k
        /\ \A i \in 1..k : front[i] = IF i < k THEN s[i] ELSE r
    BY <1>6 DEF front
  <1>9. /\ front \o tail \in Seq(Reports) /\ Len(front \o tail) = Len(front) + Len(tail)
        /\ \A i \in 1..(Len(front) + Len(tail)) :
              (front \o tail)[i] = IF i <= Len(front) THEN front[i] ELSE tail[i - Len(front)]
    BY <1>4, <1>8, ConcatProperties
  <1>10. ASSUME NEW i \in 1..(Len(s) + 1)
         PROVE  (front \o tail)[i] = IF i < k THEN s[i] ELSE IF i = k THEN r ELSE s[i - 1]
    <2>1. CASE i <= k
      BY <1>1, <1>2, <1>4, <1>8, <1>9, <2>1
    <2>2. CASE i > k
      <3>1. i - k \in 1..(Len(s) - k + 1) /\ k + (i - k) - 1 = i - 1
        BY <1>1, <1>2, <2>2
      <3>2. (front \o tail)[i] = tail[i - k]
        BY <1>1, <1>2, <1>4, <1>8, <1>9, <2>2
      <3> QED
        BY <1>1, <1>2, <1>4, <2>2, <3>1, <3>2
    <2>3. i <= k \/ i > k
      BY <1>1, <1>2
    <2> QED
      BY <2>1, <2>2, <2>3
  <1> QED
    BY <1>1, <1>2, <1>4, <1>7, <1>8, <1>9, <1>10 DEF k

\* The report goes in its place; if there are too many the first goes.
LEMMA WrittenIs ==
  ASSUME NEW s \in Seq(Reports), NEW r \in Reports
  PROVE  /\ Written(s, r) \in Seq(Reports)
         /\ Len(Written(s, r)) = IF Len(s) < Kept THEN Len(s) + 1 ELSE Len(s)
         /\ \A i \in 1..Len(Written(s, r)) :
               Written(s, r)[i] = Inserted(s, r)[IF Len(s) < Kept THEN i ELSE i + 1]
  <1> DEFINE m == IF Len(s) < Kept THEN 1 ELSE 2
             n == Len(s) + 1
             all == Inserted(s, r)
  <1>1. Len(s) \in Nat /\ Kept \in Nat \ {0}
    BY LenProperties, SchedulerAssumption
  <1>2. m \in 1..2 /\ n \in Int /\ m \in Int /\ m <= n
    BY <1>1
  <1>3. \A i \in m..n : all[i] \in Reports
    BY <1>1, <1>2, InsertedIs, ElementOfSeq
  <1>4. Written(s, r) = SubSeq(all, m, n)
    BY DEF Written
  <1> HIDE DEF m, n, all
  <1>5. /\ SubSeq(all, m, n) \in Seq(Reports) /\ Len(SubSeq(all, m, n)) = n - m + 1
        /\ \A i \in 1..(n - m + 1) : SubSeq(all, m, n)[i] = all[m + i - 1]
    BY <1>2, <1>3, SubSeqProperties
  <1>6. n - m + 1 = IF Len(s) < Kept THEN Len(s) + 1 ELSE Len(s)
    BY <1>1 DEF m, n
  <1>7. \A i \in 1..(n - m + 1) : m + i - 1 = IF Len(s) < Kept THEN i ELSE i + 1
    BY <1>1, <1>2 DEF m, n
  <1> QED
    BY <1>4, <1>5, <1>6, <1>7 DEF all

\* The reports stay in order.
LEMMA WrittenSorted ==
  ASSUME NEW s \in Seq(Reports), NEW r \in Reports, Sorted(s)
  PROVE  Sorted(Written(s, r))
  <1> DEFINE k == Place(s, r)
             all == Inserted(s, r)
             new == Written(s, r)
  <1>1. Len(s) \in Nat /\ Len(new) \in Nat /\ r.start \in Nat
        /\ \A i \in 1..Len(s) : s[i].start \in Nat
    BY LenProperties, ElementOfSeq, ReportIs, WrittenIs
  <1>2. /\ k \in 1..(Len(s) + 1)
        /\ \A l \in 1..Len(s) : l < k => s[l].start <= r.start
        /\ \A l \in 1..Len(s) : l >= k => r.start <= s[l].start
    <2>1. ASSUME NEW i \in 1..Len(s), i >= k PROVE r.start <= s[i].start
      <3>1. k \in 1..Len(s) /\ s[k].start > r.start
        BY <1>1, <2>1, PlaceIs
      <3>2. s[k].start <= s[i].start
        BY <2>1, <3>1 DEF Sorted
      <3> QED
        BY <1>1, <3>1, <3>2
    <2> QED
      BY <2>1, PlaceIs
  <1>3. \A i \in 1..(Len(s) + 1) : all[i] = IF i < k THEN s[i] ELSE IF i = k THEN r ELSE s[i - 1]
    BY InsertedIs
  <1> HIDE DEF k, all
  <1>4. ASSUME NEW i \in 1..(Len(s) + 1), NEW j \in 1..(Len(s) + 1), i <= j
        PROVE  all[i].start <= all[j].start
    <2>1. CASE j < k
      <3>1. i < k /\ i \in 1..Len(s) /\ j \in 1..Len(s)
        BY <1>1, <1>2, <1>4, <2>1
      <3> QED
        BY <1>3, <1>4, <2>1, <3>1 DEF Sorted
    <2>2. CASE i > k
      <3>1. j > k /\ i - 1 \in 1..Len(s) /\ j - 1 \in 1..Len(s) /\ i - 1 <= j - 1
            /\ ~(i < k) /\ ~(j < k) /\ i # k /\ j # k
        BY <1>1, <1>2, <1>4, <2>2
      <3>2. s[i - 1].start <= s[j - 1].start
        BY <3>1 DEF Sorted
      <3>3. all[i] = s[i - 1] /\ all[j] = s[j - 1]
        BY <1>3, <3>1
      <3> QED
        BY <3>2, <3>3
    <2>3. CASE i <= k /\ k <= j
      <3>1. all[i].start <= r.start
        <4>1. CASE i < k
          <5>1. i \in 1..Len(s) /\ all[i] = s[i]
            BY <1>1, <1>2, <1>3, <4>1
          <5>2. s[i].start <= r.start
            BY <1>2, <4>1, <5>1
          <5> QED
            BY <5>1, <5>2
        <4>2. CASE i = k
          <5>1. ~(i < k) /\ r.start <= r.start
            BY <1>1, <1>2, <4>2
          <5>2. all[i] = r
            BY <1>3, <4>2, <5>1
          <5> QED
            BY <5>1, <5>2
        <4> QED
          BY <1>1, <1>2, <2>3, <4>1, <4>2
      <3>2. r.start <= all[j].start
        <4>1. CASE j = k
          BY <1>1, <1>2, <1>3, <4>1
        <4>2. CASE j > k
          <5>1. j - 1 \in 1..Len(s) /\ j - 1 >= k /\ ~(j < k) /\ j # k
            BY <1>1, <1>2, <4>2
          <5>2. all[j] = s[j - 1]
            BY <1>3, <5>1
          <5> QED
            BY <1>2, <5>1, <5>2
        <4> QED
          BY <1>1, <1>2, <2>3, <4>1, <4>2
      <3>3. all[i].start \in Nat /\ all[j].start \in Nat
        BY InsertedIs, ElementOfSeq, ReportIs DEF all
      <3> QED
        BY <1>1, <3>1, <3>2, <3>3
    <2> QED
      BY <1>1, <1>2, <2>1, <2>2, <2>3
  <1>5. ASSUME NEW i \in 1..Len(new), NEW j \in 1..Len(new), i <= j
        PROVE  new[i].start <= new[j].start
    <2> DEFINE d == IF Len(s) < Kept THEN 0 ELSE 1
    <2>0. Len(new) = IF Len(s) < Kept THEN Len(s) + 1 ELSE Len(s)
      BY WrittenIs
    <2>1. Len(new) = Len(s) + 1 - d /\ d \in 0..1
      BY <1>1, <2>0
    <2>2. i + d \in 1..(Len(s) + 1) /\ j + d \in 1..(Len(s) + 1) /\ i + d <= j + d
      BY <1>1, <1>5, <2>1
    <2>3. new[i] = all[i + d] /\ new[j] = all[j + d]
      BY <1>1, WrittenIs DEF all
    <2> HIDE DEF d
    <2> QED
      BY <1>4, <2>2, <2>3
  <1> QED
    BY <1>5 DEF Sorted

\* Nothing new but the report appears, and nothing is lost but a report that
\* began no later than all that are left, when there are as many as are kept.
LEMMA WrittenHas ==
  ASSUME NEW s \in Seq(Reports), NEW r \in Reports, Sorted(s), Len(s) <= Kept
  PROVE  /\ \A i \in 1..Len(Written(s, r)) : Written(s, r)[i] = r \/ Has(s, Written(s, r)[i])
         /\ \A x : x = r \/ Has(s, x) =>
               \/ Has(Written(s, r), x)
               \/ /\ Len(Written(s, r)) = Kept
                  /\ \A i \in 1..Kept : x.start <= Written(s, r)[i].start
  <1> DEFINE k == Place(s, r)
             all == Inserted(s, r)
             new == Written(s, r)
             n == Len(s)
  <1>1. n \in Nat /\ Len(new) \in Nat /\ Kept \in Nat \ {0} /\ k \in 1..(n + 1)
    BY LenProperties, WrittenIs, PlaceIs, SchedulerAssumption
  <1>2. /\ \A i \in 1..(n + 1) : all[i] = IF i < k THEN s[i] ELSE IF i = k THEN r ELSE s[i - 1]
        /\ Len(new) = IF n < Kept THEN n + 1 ELSE n
        /\ \A i \in 1..Len(new) : new[i] = all[IF n < Kept THEN i ELSE i + 1]
    BY InsertedIs, WrittenIs
  <1> HIDE DEF k, all, new
  <1>3. \A i \in 1..(n + 1) : all[i] = r \/ Has(s, all[i])
    <2>1. \A i \in 1..(n + 1) : i > k => i - 1 \in 1..n
      BY <1>1
    <2>2. \A i \in 1..(n + 1) : i < k => i \in 1..n
      BY <1>1
    <2> QED
      BY <1>1, <1>2, <2>1, <2>2 DEF Has
  <1>4. \A i \in 1..Len(new) : new[i] = r \/ Has(s, new[i])
    <2>1. \A i \in 1..Len(new) : (IF n < Kept THEN i ELSE i + 1) \in 1..(n + 1)
      BY <1>1, <1>2
    <2> QED
      BY <1>2, <1>3, <2>1
  <1>5. ASSUME NEW x, x = r \/ Has(s, x)
        PROVE  \E i \in 1..(n + 1) : all[i] = x
    <2>1. CASE x = r
      BY <1>1, <1>2, <2>1
    <2>2. CASE Has(s, x)
      <3>1. PICK j \in 1..n : s[j] = x
        BY <2>2 DEF Has
      <3>2. CASE j < k
        <4>1. j \in 1..(n + 1)
          BY <1>1
        <4>2. all[j] = s[j]
          BY <1>2, <3>2, <4>1
        <4> QED
          BY <3>1, <4>1, <4>2
      <3>3. CASE j >= k
        <4>1. j + 1 \in 1..(n + 1) /\ ~(j + 1 < k) /\ j + 1 # k /\ (j + 1) - 1 = j
          BY <1>1, <3>3
        <4>2. all[j + 1] = s[j]
          BY <1>2, <4>1
        <4> QED
          BY <3>1, <4>1, <4>2
      <3> QED
        BY <1>1, <3>2, <3>3
    <2> QED
      BY <1>5, <2>1, <2>2
  <1>6. ASSUME NEW x, x = r \/ Has(s, x), ~Has(new, x)
        PROVE  Len(new) = Kept /\ \A i \in 1..Kept : x.start <= new[i].start
    <2>1. PICK j \in 1..(n + 1) : all[j] = x
      BY <1>5, <1>6
    <2>2. ~(n < Kept)
      <3>1. n < Kept => j \in 1..Len(new) /\ new[j] = all[j]
        BY <1>1, <1>2
      <3> QED
        BY <1>6, <2>1, <3>1 DEF Has
    <2>3. n = Kept /\ Len(new) = Kept
      BY <1>1, <1>2, <2>2
    <2>4. j = 1
      <3>1. j # 1 => j - 1 \in 1..Len(new) /\ (j - 1) + 1 = j
        BY <1>1, <2>3
      <3>2. j # 1 => new[j - 1] = all[j]
        BY <1>2, <2>2, <3>1
      <3> QED
        BY <1>6, <2>1, <3>1, <3>2 DEF Has
    <2>5. ASSUME NEW i \in 1..Kept PROVE x.start <= new[i].start
      <3>1. new[i] = all[i + 1] /\ i + 1 \in 1..(n + 1) /\ i + 1 > 1
        BY <1>1, <1>2, <2>2, <2>3
      <3>2. r.start \in Nat /\ \A l \in 1..n : s[l].start \in Nat
        BY ElementOfSeq, ReportIs
      <3>3. CASE k = 1
        <4>1. x = r
          BY <1>1, <1>2, <2>1, <2>4, <3>3
        <4>2. all[i + 1] = s[i] /\ i \in 1..n
          <5>1. ~(i + 1 < k) /\ i + 1 # k /\ (i + 1) - 1 = i
            BY <3>3
          <5> QED
            BY <1>2, <2>3, <3>1, <5>1
        <4>3. s[1].start > r.start /\ 1 \in 1..n
          BY <1>1, <2>3, <3>3, PlaceIs DEF k
        <4>4. s[1].start <= s[i].start
          BY <1>1, <4>2, <4>3 DEF Sorted
        <4> QED
          BY <3>1, <3>2, <4>1, <4>2, <4>3, <4>4
      <3>4. CASE k > 1
        <4>1. x = s[1] /\ 1 \in 1..n
          BY <1>1, <1>2, <2>1, <2>3, <2>4, <3>4
        <4>2. x.start <= r.start
          BY <3>4, <4>1, PlaceIs DEF k
        <4>3. all[i + 1] = r \/ \E l \in 1..n : all[i + 1] = s[l]
          BY <1>3, <3>1 DEF Has
        <4>4. \A l \in 1..n : s[1].start <= s[l].start
          BY <4>1 DEF Sorted
        <4> QED
          BY <3>1, <4>1, <4>2, <4>3, <4>4
      <3> QED
        BY <1>1, <3>3, <3>4
    <2> QED
      BY <2>3, <2>5
  <1> QED
    BY <1>4, <1>6 DEF new

-----------------------------------------------------------------------------
(***************************************************************************)
(* Types                                                                   *)
(***************************************************************************)
ArchivesOK ==
    /\ newest \in [Target -> Instant \cup {None}]
    /\ lock \in [Target -> Engine \cup {"free"}]
    /\ room \in [Target -> BOOLEAN]

\* The reports of a target are in order.
ReportsOK ==
    /\ reports \in [Target -> Seq(Reports)]
    /\ \A t \in Target : Len(reports[t]) <= Kept /\ Sorted(reports[t])

\* A run has a start time.
EnginesOK ==
    /\ engine \in [Engine -> Engines]
    /\ \A p \in Engine : engine[p].at \in {"lock", "run", "record"} => engine[p].start # None

MemOK == mem \in [Target -> Memories]

ClockOK ==
    /\ now \in Instant /\ calm \in BOOLEAN
    /\ trouble \in 0..MaxTrouble /\ passes \in 0..MaxPass

LastOK == last \in [Target -> [start : Instant \cup {None}, is : Outcomes \cup {"unrecorded"}]]
IdleOK == idle \in [Target -> Instant \cup {None}]

TypeInv == ArchivesOK /\ ReportsOK /\ EnginesOK /\ MemOK /\ ClockOK /\ LastOK /\ IdleOK

LEMMA TypeInvImplies == TypeInv => TypeOK
  BY DEF TypeInv, TypeOK, ArchivesOK, ReportsOK, EnginesOK, MemOK, ClockOK, LastOK, IdleOK

LEMMA Constants ==
  /\ Len(Config) \in Nat /\ Len(Config) >= 1 /\ 1 \in 1..Len(Config)
  /\ MaxNow \in Nat /\ MaxPass \in Nat /\ MaxTrouble \in Nat
  /\ Kept \in Nat \ {0} /\ Instant \subseteq Nat \ {0} /\ None \notin Instant
  /\ 1 \in Instant
  <1>1. Len(Config) \in Nat /\ Len(Config) # 0
    BY SchedulerAssumption, EmptySeq, LenProperties
  <1> QED
    BY <1>1, SchedulerAssumption DEF Instant, None

LEMMA ThisType == ASSUME TypeOK, NEW p \in Engine PROVE This(p) \in Target
  BY DEF TypeOK, Engines, This, Target

LEMMA DownType == Down \in Engines /\ Down.at = "down" /\ ~Down.stop
  BY Constants DEF Down, Engines, Points, Outcomes

LEMMA BlankType == Blank \in Memories /\ Forgotten \in [Target -> Memories]
  BY DEF Blank, Memories, Forgotten

LEMMA MemoryType ==
  ASSUME TypeOK, NEW p \in Engine, NEW t \in Target
  PROVE  Memory(p, t) \in Memories
  BY BlankType DEF TypeOK, Memory

LEMMA RememberType ==
  ASSUME TypeOK, NEW p \in Engine, NEW t \in Target, NEW m \in Memories, Remember(p, t, m)
  PROVE  mem' \in [Target -> Memories]
  BY DEF TypeOK, Remember

LEMMA NotedType ==
  ASSUME TypeOK, NEW m \in Memories, NEW o \in Outcomes
  PROVE  Noted(m, o) \in Memories
  <1>1. CASE o = "failed"
    <2>1. Noted(m, o) = [m EXCEPT !.failures = @ + 1, !.anchor = now]
      BY <1>1 DEF Noted
    <2>2. m.failures + 1 \in Nat /\ now \in Instant
      BY DEF TypeOK, Memories
    <2> QED
      BY <2>1, <2>2 DEF Memories
  <1>2. CASE o = "ok"
    BY <1>2 DEF Noted, Memories
  <1>3. CASE o \notin {"failed", "ok"}
    BY <1>3 DEF Noted
  <1> QED
    BY <1>1, <1>2, <1>3

LEMMA RememberedType ==
  ASSUME TypeOK, NEW m \in Memories, NEW o \in Outcomes
  PROVE  Remembered(m, o) \in Memories
  BY DEF TypeOK, Remembered, Memories

LEMMA CachedType ==
  ASSUME NEW m \in Memories, NEW o \in Outcomes, NEW start \in Instant
  PROVE  Cached(m, o, start) \in Memories
  BY DEF Cached, Memories, Outcomes

LEMMA ReportType ==
  ASSUME TypeOK, NEW start \in Instant, NEW o \in Outcomes
  PROVE  /\ ReportOf(start, o) \in Reports
         /\ ReportOf(start, o).start = start /\ ReportOf(start, o).is = o
  BY DEF TypeOK, ReportOf, Reports

\* What the reports s of a target tell, whatever they are.
Since(s) == {i \in 1..Len(s) : \A k \in 1..Len(s) : s[k].is = "ok" => k < i}
BadOf(s) == {i \in Since(s) : s[i].is \in {"failed", "lock-held", "disk-low"}}
FailedOf(s) == {i \in Since(s) : s[i].is = "failed"}
Tally(s) ==
    LET newestBad == CHOOSE i \in BadOf(s) : \A k \in BadOf(s) : k <= i
    IN  [failures |-> Cardinality(FailedOf(s)),
         anchor |-> IF BadOf(s) = {} THEN None ELSE s[newestBad].failedAt,
         error |-> BadOf(s) # {}]

LEMMA DerivedIs ==
  ASSUME NEW t \in Target
  PROVE  Derived(t) = Tally(reports[t])
  <1> DEFINE rs == reports[t]
             oks == {i \in 1..Len(rs) : rs[i].is = "ok"}
             since == {i \in 1..Len(rs) : \A k \in oks : k < i}
             bad == {i \in since : rs[i].is \in {"failed", "lock-held", "disk-low"}}
             newestBad == CHOOSE i \in bad : \A k \in bad : k <= i
  <1>1. since = Since(rs) /\ bad = BadOf(rs)
    BY DEF Since, BadOf
  <1>2. {i \in since : rs[i].is = "failed"} = FailedOf(rs)
    BY <1>1 DEF FailedOf
  <1>3. Derived(t) = [failures |-> Cardinality({i \in since : rs[i].is = "failed"}),
                      anchor |-> IF bad = {} THEN None ELSE rs[newestBad].failedAt,
                      error |-> bad # {}]
    BY DEF Derived
  <1>4. newestBad = CHOOSE i \in BadOf(rs) : \A k \in BadOf(rs) : k <= i
    BY <1>1
  <1> HIDE DEF since, bad, newestBad, rs
  <1> QED
    BY <1>1, <1>2, <1>3, <1>4 DEF Tally, rs

LEMMA TallyIs ==
  ASSUME NEW s \in Seq(Reports)
  PROVE  /\ Tally(s).failures = Cardinality(FailedOf(s)) /\ IsFiniteSet(FailedOf(s))
         /\ Tally(s).failures \in Nat
         /\ Tally(s).error <=> BadOf(s) # {}
         /\ BadOf(s) = {} => Tally(s).anchor = None
         /\ BadOf(s) # {} => \E i \in BadOf(s) : /\ \A k \in BadOf(s) : k <= i
                                               /\ Tally(s).anchor = s[i].failedAt
         /\ Tally(s).anchor \in Instant \cup {None}
  <1> DEFINE newestBad == CHOOSE i \in BadOf(s) : \A k \in BadOf(s) : k <= i
  <1>1. Len(s) \in Nat
    BY LenProperties
  <1>2. /\ Tally(s).failures = Cardinality(FailedOf(s))
        /\ Tally(s).anchor = IF BadOf(s) = {} THEN None ELSE s[newestBad].failedAt
        /\ Tally(s).error = (BadOf(s) # {})
    BY DEF Tally
  <1>3. IsFiniteSet(FailedOf(s)) /\ Cardinality(FailedOf(s)) \in Nat
    <2>1. FailedOf(s) \in SUBSET (1..Len(s))
      BY DEF FailedOf, Since
    <2>2. IsFiniteSet(1..Len(s))
      BY <1>1, FS_Interval
    <2>3. IsFiniteSet(FailedOf(s))
      BY <2>1, <2>2, FS_Subset
    <2> QED
      BY <2>3, FS_CardinalityType
  <1>4. BadOf(s) # {} => newestBad \in BadOf(s) /\ \A k \in BadOf(s) : k <= newestBad
    <2>1. BadOf(s) \in SUBSET (1..Len(s))
      BY DEF BadOf, Since
    <2>2. BadOf(s) # {} => \E m \in BadOf(s) : \A x \in BadOf(s) : x <= m
      BY <1>1, <2>1, LastExists
    <2> QED
      BY <2>2
  <1>5. BadOf(s) # {} => s[newestBad].failedAt \in Instant \cup {None}
    <2>1. BadOf(s) # {} => newestBad \in 1..Len(s)
      BY <1>4 DEF BadOf, Since
    <2>2. \A i \in 1..Len(s) : s[i].failedAt \in Instant \cup {None}
      <3>1. \A i \in 1..Len(s) : s[i] \in Reports
        BY ElementOfSeq
      <3> QED
        BY <3>1 DEF Reports
    <2> QED
      BY <2>1, <2>2
  <1> HIDE DEF newestBad
  <1> QED
    BY <1>2, <1>3, <1>4, <1>5

LEMMA RehydratedType ==
  ASSUME TypeOK, NEW t \in Target
  PROVE  /\ Rehydrated(t) \in Memories /\ Rehydrated(t).cache = Unset
         /\ Rehydrated(t).failures = Derived(t).failures
         /\ Rehydrated(t).anchor = Derived(t).anchor
  <1>1. reports[t] \in Seq(Reports)
    BY DEF TypeOK
  <1>2. Derived(t).failures \in Nat /\ Derived(t).anchor \in Instant \cup {None}
    BY <1>1, DerivedIs, TallyIs
  <1> QED
    BY <1>2, BlankType DEF Rehydrated, Memories, Blank

-----------------------------------------------------------------------------
(***************************************************************************)
(* The parts of a step                                                     *)
(***************************************************************************)
Running == {"lock", "run", "record"}

LEMMA EngineBecomes ==
  ASSUME TypeInv, NEW p \in Engine, NEW e \in Engines, e.at \in Running => e.start # None,
         engine' = [engine EXCEPT ![p] = e]
  PROVE  EnginesOK'
  BY DEF TypeInv, EnginesOK, Running

LEMMA GotoType ==
  ASSUME TypeInv, NEW p \in Engine, NEW point \in Points, Goto(p, point),
         point \in Running => engine[p].start # None
  PROVE  EnginesOK'
  <1>1. [engine[p] EXCEPT !.at = point] \in Engines
    BY DEF TypeInv, EnginesOK, Engines
  <1>2. engine' = [engine EXCEPT ![p] = [engine[p] EXCEPT !.at = point]]
    BY DEF Goto
  <1> QED
    BY <1>1, <1>2, EngineBecomes DEF Engines

LEMMA AfterTargetType ==
  ASSUME TypeInv, NEW p \in Engine
  PROVE  AfterTarget(p) \in Engines /\ AfterTarget(p).at \in {"visit", "sleep", "down"}
  <1>1. engine[p] \in Engines
    BY DEF TypeInv, EnginesOK
  <1>2. engine[p].pos < Len(Config) => engine[p].pos + 1 \in 1..Len(Config)
    BY <1>1, Constants DEF Engines
  <1> QED
    BY <1>1, <1>2, DownType DEF AfterTarget, Engines, Points

LEMMA NextTargetType ==
  ASSUME TypeInv, NEW p \in Engine, NextTarget(p)
  PROVE  EnginesOK'
  BY AfterTargetType, EngineBecomes DEF NextTarget, Running

LEMMA EndsType ==
  ASSUME TypeInv, NEW p \in Engine, NEW o \in Outcomes, NEW start \in Instant,
         Ends(p, o, start)
  PROVE  EnginesOK' /\ LastOK' /\ IdleOK'
  <1> DEFINE e == [engine[p] EXCEPT !.at = "record", !.o = o, !.start = start]
  <1>1. e \in Engines /\ e.start # None
    BY Constants DEF TypeInv, EnginesOK, Engines, Points
  <1>2. engine' = [engine EXCEPT ![p] = e]
    BY DEF Ends
  <1>3. EnginesOK'
    BY <1>1, <1>2, EngineBecomes
  <1>4. This(p) \in Target
    BY TypeInvImplies, ThisType
  <1> QED
    BY <1>3, <1>4 DEF TypeInv, LastOK, IdleOK, Ends

LEMMA Writes ==
  ASSUME TypeInv, NEW t \in Target, NEW r \in Reports, reports' = WithReport(t, r)
  PROVE  /\ ReportsOK'
         /\ reports' = [reports EXCEPT ![t] = Written(reports[t], r)]
  <1>1. reports' = [reports EXCEPT ![t] = Written(reports[t], r)]
    BY DEF WithReport, Written
  <1>2. reports[t] \in Seq(Reports) /\ Sorted(reports[t]) /\ Len(reports[t]) <= Kept
    BY DEF TypeInv, ReportsOK
  <1> DEFINE new == Written(reports[t], r)
  <1>3. new \in Seq(Reports) /\ Sorted(new)
    BY <1>2, WrittenIs, WrittenSorted
  <1>4. Len(new) <= Kept
    <2>1. Len(reports[t]) \in Nat
      BY <1>2, LenProperties
    <2>2. Len(new) = IF Len(reports[t]) < Kept THEN Len(reports[t]) + 1 ELSE Len(reports[t])
      BY <1>2, WrittenIs
    <2> QED
      BY <1>2, <2>1, <2>2, Constants
  <1> HIDE DEF new
  <1>5. reports' = [reports EXCEPT ![t] = new]
    BY <1>1 DEF new
  <1> QED
    BY <1>1, <1>3, <1>4, <1>5 DEF TypeInv, ReportsOK

LEMMA RecordFailedType ==
  ASSUME TypeInv, NEW p \in Engine, NEW t \in Target, RecordFailed(p, t)
  PROVE  ReportsOK' /\ MemOK' /\ LastOK'
  <1>0. TypeOK /\ now \in Instant /\ "failed" \in Outcomes
    BY TypeInvImplies DEF TypeInv, ClockOK, Outcomes
  <1>1. CASE /\ reports' = WithReport(t, ReportOf(now, "failed"))
             /\ Remember(p, t, Noted(Memory(p, t), "failed"))
             /\ last' = [last EXCEPT ![t] = [start |-> now, is |-> "failed"]]
    <2>1. ReportsOK'
      BY <1>0, <1>1, ReportType, Writes
    <2>2. MemOK'
      BY <1>0, <1>1, MemoryType, NotedType, RememberType DEF MemOK
    <2>3. LastOK'
      BY <1>0, <1>1 DEF TypeInv, LastOK
    <2> QED
      BY <2>1, <2>2, <2>3
  <1>2. CASE /\ last' = [last EXCEPT ![t] = [start |-> now, is |-> "unrecorded"]]
             /\ UNCHANGED <<reports, mem>>
    BY <1>0, <1>2 DEF TypeInv, ReportsOK, MemOK, LastOK
  <1> QED
    BY <1>1, <1>2 DEF RecordFailed

LEMMA StrikesType ==
  ASSUME TypeInv, NEW kinds, Strikes(kinds)
  PROVE  trouble' \in 0..MaxTrouble
  BY Constants DEF TypeInv, ClockOK, Strikes

LEMMA InitType == Init => TypeInv
  <1> SUFFICES ASSUME Init PROVE TypeInv
    OBVIOUS
  <1> USE Constants DEF Init
  <1>1. ArchivesOK
    BY DEF ArchivesOK
  <1>2. ReportsOK
    <2>1. \A t \in Target : reports[t] = <<>>
      OBVIOUS
    <2>2. <<>> \in Seq(Reports) /\ Len(<<>>) = 0
      BY EmptySeq
    <2> QED
      BY <2>1, <2>2 DEF ReportsOK, Sorted
  <1>3. EnginesOK /\ MemOK
    BY DownType, BlankType DEF EnginesOK, MemOK
  <1>4. ClockOK
    <2>1. now \in Instant
      OBVIOUS
    <2>2. calm \in BOOLEAN
      OBVIOUS
    <2>3. trouble \in 0..MaxTrouble
      OBVIOUS
    <2>4. passes \in 0..MaxPass
      OBVIOUS
    <2> QED
      BY <2>1, <2>2, <2>3, <2>4 DEF ClockOK
  <1>5. LastOK /\ IdleOK
    BY DEF LastOK, IdleOK, Outcomes
  <1> QED
    BY <1>1, <1>2, <1>3, <1>4, <1>5 DEF TypeInv

\* What the loops do between the runs.
LEMMA LoopType ==
  ASSUME TypeInv, NEW p \in Engine,
         \/ \E force \in BOOLEAN : Start(p, force)
         \/ Started(p) \/ Visit(p) \/ Unreachable(p) \/ DueCheck(p) \/ DueCheckFails(p)
         \/ Damped(p) \/ Wake \/ Stop(p)
  PROVE  TypeInv'
  <1>0. TypeOK /\ engine[p] \in Engines /\ This(p) \in Target /\ "daemon" \in Engine
    BY TypeInvImplies, ThisType DEF TypeInv, EnginesOK, Engine
  <1> USE DEF archives, env, ghosts
  <1>1. ASSUME NEW force \in BOOLEAN, Start(p, force) PROVE TypeInv'
    <2>1. EnginesOK'
      <3> DEFINE e == [Down EXCEPT !.at = "starting", !.force = force]
      <3>1. e \in Engines /\ e.at \notin Running
        BY DownType DEF Engines, Points, Running
      <3> QED
        BY <1>1, <3>1, EngineBecomes DEF Start
    <2>2. ClockOK'
      <3>1. passes' \in 0..MaxPass
        <4>1. \/ passes' = passes
              \/ passes < MaxPass /\ passes' = passes + 1
          BY <1>1 DEF Start
        <4> QED
          BY <4>1, Constants DEF TypeInv, ClockOK
      <3> QED
        BY <1>1, <3>1 DEF Start, TypeInv, ClockOK
    <2> QED
      BY <1>1, <2>1, <2>2 DEF Start, TypeInv, ArchivesOK, ReportsOK, MemOK, LastOK, IdleOK
  <1>2. CASE Started(p)
    <2>1. EnginesOK'
      <3>1. CASE engine' = [engine EXCEPT ![p] = Down]
        BY <3>1, DownType, EngineBecomes DEF Running
      <3>2. CASE engine' = [engine EXCEPT ![p].at = "visit", ![p].stop = FALSE]
        <4> DEFINE e == [engine[p] EXCEPT !.at = "visit", !.stop = FALSE]
        <4>1. e \in Engines /\ e.at \notin Running
          BY <1>0 DEF Engines, Points, Running
        <4>2. engine' = [engine EXCEPT ![p] = e]
          BY <3>2
        <4> QED
          BY <4>1, <4>2, EngineBecomes
      <3> QED
        BY <1>2, <3>1, <3>2 DEF Started
    <2>2. MemOK'
      BY <1>0, <1>2, RehydratedType DEF Started, TypeInv, MemOK
    <2> QED
      BY <1>2, <2>1, <2>2 DEF Started, TypeInv, ArchivesOK, ReportsOK, ClockOK, LastOK, IdleOK
  <1>3. CASE Visit(p)
    <2>1. EnginesOK'
      <3>1. CASE engine' = [engine EXCEPT ![p] = Down]
        BY <3>1, DownType, EngineBecomes DEF Running
      <3>2. CASE Goto(p, "gate")
        BY <3>2, GotoType DEF Running, Points
      <3>3. CASE NextTarget(p)
        BY <3>3, NextTargetType
      <3>4. CASE engine' = [engine EXCEPT ![p].at = "check", ![p].seen = now]
        <4> DEFINE e == [engine[p] EXCEPT !.at = "check", !.seen = now]
        <4>1. e \in Engines /\ e.at \notin Running
          BY <1>0 DEF Engines, Points, Running, TypeInv, ClockOK
        <4>2. engine' = [engine EXCEPT ![p] = e]
          BY <3>4
        <4> QED
          BY <4>1, <4>2, EngineBecomes
      <3> QED
        BY <1>3, <3>1, <3>2, <3>3, <3>4 DEF Visit
    <2>2. MemOK'
      BY <1>3, BlankType DEF Visit, TypeInv, MemOK
    <2> QED
      BY <1>3, <2>1, <2>2 DEF Visit, TypeInv, ArchivesOK, ReportsOK, ClockOK, LastOK, IdleOK
  <1>4. CASE Unreachable(p) \/ Damped(p)
    <2>1. EnginesOK'
      BY <1>4, NextTargetType DEF Unreachable, Damped
    <2> QED
      BY <1>4, <2>1 DEF Unreachable, Damped, TypeInv, ArchivesOK, ReportsOK, MemOK, ClockOK,
                        LastOK, IdleOK
  <1>5. CASE DueCheck(p)
    <2> DEFINE t == This(p)
               known == IF Memory(p, t).cache = Unset THEN newest[t] ELSE Memory(p, t).cache
    <2>1. EnginesOK'
      <3>1. CASE engine' = [engine EXCEPT ![p].at = "gate", ![p].seen = None]
        <4> DEFINE e == [engine[p] EXCEPT !.at = "gate", !.seen = None]
        <4>1. e \in Engines /\ e.at \notin Running
          BY <1>0 DEF Engines, Points, Running
        <4>2. engine' = [engine EXCEPT ![p] = e]
          BY <3>1
        <4> QED
          BY <4>1, <4>2, EngineBecomes
      <3>2. CASE NextTarget(p)
        BY <3>2, NextTargetType
      <3> QED
        BY <1>5, <3>1, <3>2 DEF DueCheck
    <2>2. known \in Instant \cup {None, Unset}
      BY <1>0, MemoryType DEF Memories, TypeInv, ArchivesOK
    <2>3. [Memory(p, t) EXCEPT !.cache = known] \in Memories
      <3> HIDE DEF known
      <3> QED
        BY <1>0, <2>2, MemoryType DEF Memories
    <2>4. MemOK'
      <3>1. Remember(p, t, [Memory(p, t) EXCEPT !.cache = known])
        BY <1>5 DEF DueCheck
      <3> HIDE DEF known, t
      <3> QED
        BY <1>0, <2>3, <3>1, RememberType DEF MemOK, t
    <2> QED
      BY <1>5, <2>1, <2>4 DEF DueCheck, TypeInv, ArchivesOK, ReportsOK, ClockOK, LastOK, IdleOK
  <1>6. CASE DueCheckFails(p)
    <2>1. ReportsOK' /\ MemOK' /\ LastOK'
      BY <1>0, <1>6, RecordFailedType DEF DueCheckFails
    <2>2. EnginesOK'
      BY <1>6, NextTargetType DEF DueCheckFails
    <2>3. ClockOK'
      BY <1>6, StrikesType DEF DueCheckFails, TypeInv, ClockOK
    <2> QED
      BY <1>6, <2>1, <2>2, <2>3 DEF DueCheckFails, TypeInv, ArchivesOK, IdleOK
  <1>7. CASE Wake
    <2> DEFINE d == engine["daemon"]
               e == IF d.stop THEN Down ELSE [d EXCEPT !.at = "visit", !.pos = 1]
    <2>1. e \in Engines /\ e.at \notin Running
      BY <1>0, DownType, Constants DEF Engines, Points, Running, TypeInv, EnginesOK
    <2>2. engine' = [engine EXCEPT !["daemon"] = e]
      BY <1>7 DEF Wake
    <2> HIDE DEF e
    <2>3. EnginesOK'
      BY <1>0, <2>1, <2>2, EngineBecomes
    <2>4. MemOK'
      BY <1>7, BlankType DEF Wake, TypeInv, MemOK
    <2> QED
      BY <1>7, <2>3, <2>4 DEF Wake, TypeInv, ArchivesOK, ReportsOK, ClockOK, LastOK, IdleOK
  <1>8. CASE Stop(p)
    <2> DEFINE e == [engine[p] EXCEPT !.stop = TRUE]
    <2>1. e \in Engines /\ (e.at \in Running => e.start # None)
      BY <1>0 DEF Engines, Running, TypeInv, EnginesOK
    <2>2. engine' = [engine EXCEPT ![p] = e]
      BY <1>8 DEF Stop
    <2> HIDE DEF e
    <2>3. EnginesOK'
      BY <2>1, <2>2, EngineBecomes
    <2>4. ClockOK'
      BY <1>8, StrikesType DEF Stop, TypeInv, ClockOK
    <2> QED
      BY <1>8, <2>3, <2>4 DEF Stop, TypeInv, ArchivesOK, ReportsOK, MemOK, LastOK, IdleOK
  <1> QED
    BY <1>1, <1>2, <1>3, <1>4, <1>5, <1>6, <1>7, <1>8

\* What runOne does.
LEMMA RunType ==
  ASSUME TypeInv, NEW p \in Engine,
         \/ Gate(p) \/ GateFails(p) \/ RunThrows(p) \/ Lock(p)
         \/ Pipeline(p) \/ Record(p) \/ RecordFails(p)
  PROVE  TypeInv'
  <1>0. /\ TypeOK /\ engine[p] \in Engines /\ This(p) \in Target
        /\ now \in Instant /\ Memory(p, This(p)) \in Memories
    BY TypeInvImplies, ThisType, MemoryType DEF TypeInv, EnginesOK, ClockOK
  <1>s. engine[p].at \in Running => engine[p].start \in Instant
    BY DEF TypeInv, EnginesOK, Engines, Running
  <1>o. {"failed", "aborted", "window", "disk-low", "lock-held", "ok"} \subseteq Outcomes
    BY DEF Outcomes
  <1> USE DEF archives, env, ghosts
  <1>1. CASE Gate(p)
    <2>1. EnginesOK' /\ LastOK' /\ IdleOK'
      <3>1. CASE Ends(p, "aborted", now)
        BY <1>0, <1>o, <3>1, EndsType
      <3>2. CASE /\ engine' = [engine EXCEPT ![p].at = "lock", ![p].start = now,
                                             ![p].low = Memory(p, This(p)).low]
                 /\ UNCHANGED ghosts
        <4> DEFINE e == [engine[p] EXCEPT !.at = "lock", !.start = now,
                                          !.low = Memory(p, This(p)).low]
        <4>1. e \in Engines /\ e.start # None
          BY <1>0, Constants DEF Engines, Points, Memories
        <4>2. engine' = [engine EXCEPT ![p] = e]
          BY <3>2
        <4> HIDE DEF e
        <4>3. EnginesOK'
          BY <4>1, <4>2, EngineBecomes
        <4> QED
          BY <3>2, <4>3 DEF TypeInv, LastOK, IdleOK
      <3> QED
        BY <1>1, <3>1, <3>2 DEF Gate
    <2> QED
      BY <1>1, <2>1 DEF Gate, TypeInv, ArchivesOK, ReportsOK, MemOK, ClockOK
  <1>2. CASE GateFails(p)
    <2>1. EnginesOK' /\ LastOK' /\ IdleOK'
      BY <1>0, <1>2, <1>o, EndsType DEF GateFails
    <2>2. ClockOK'
      BY <1>2, StrikesType DEF GateFails, TypeInv, ClockOK
    <2> QED
      BY <1>2, <2>1, <2>2 DEF GateFails, TypeInv, ArchivesOK, ReportsOK, MemOK
  <1>3. CASE Lock(p)
    <2>1. EnginesOK' /\ LastOK' /\ IdleOK'
      <3>1. CASE Ends(p, "lock-held", now)
        BY <1>0, <1>o, <3>1, EndsType
      <3>2. CASE Goto(p, "run") /\ UNCHANGED ghosts
        <4>1. EnginesOK'
          BY <1>3, <3>2, GotoType DEF Lock, At, TypeInv, EnginesOK, Points
        <4> QED
          BY <3>2, <4>1 DEF TypeInv, LastOK, IdleOK
      <3> QED
        BY <1>3, <3>1, <3>2 DEF Lock
    <2>2. ArchivesOK'
      BY <1>3 DEF Lock, TypeInv, ArchivesOK
    <2> QED
      BY <1>3, <2>1, <2>2 DEF Lock, TypeInv, ReportsOK, MemOK, ClockOK
  <1>4. CASE Pipeline(p)
    <2> DEFINE t == This(p)
               start == engine[p].start
               low(b) == Remember(p, t, [Memory(p, t) EXCEPT !.low = b])
    <2>1. start \in Instant
      BY <1>4, <1>s DEF Pipeline, At, Running
    <2>2. /\ \E o \in Outcomes : Ends(p, o, start)
          /\ lock' = [lock EXCEPT ![t] = "free"]
          /\ UNCHANGED mem \/ \E b \in BOOLEAN : low(b)
          /\ UNCHANGED newest \/ newest' = [newest EXCEPT ![t] = start]
          /\ UNCHANGED trouble \/ Strikes({"fail"})
          /\ UNCHANGED <<room, reports, env>>
      BY <1>4, <1>o DEF Pipeline
    <2>3. EnginesOK' /\ LastOK' /\ IdleOK'
      BY <2>1, <2>2, EndsType
    <2>4. MemOK'
      <3>1. ASSUME NEW b \in BOOLEAN, low(b) PROVE MemOK'
        <4>1. [Memory(p, t) EXCEPT !.low = b] \in Memories
          BY <1>0 DEF Memories
        <4> HIDE DEF t
        <4> QED
          BY <1>0, <3>1, <4>1, RememberType DEF MemOK, t
      <3> QED
        BY <2>2, <3>1 DEF TypeInv, MemOK
    <2>5. ArchivesOK'
      BY <1>0, <2>1, <2>2 DEF TypeInv, ArchivesOK
    <2>6. ClockOK'
      BY <2>2, StrikesType DEF TypeInv, ClockOK
    <2>7. ReportsOK'
      BY <2>2 DEF TypeInv, ReportsOK
    <2> QED
      BY <2>3, <2>4, <2>5, <2>6, <2>7 DEF TypeInv
  <1>5. CASE Record(p)
    <2> DEFINE e == engine[p]
               t == This(p)
               m == Remembered(Memory(p, t), e.o)
    <2>1. e.start \in Instant /\ e.o \in Outcomes
      BY <1>0, <1>5, <1>s DEF Record, At, Running, Engines
    <2>2. m \in Memories /\ Noted(m, e.o) \in Memories
      BY <1>0, <2>1, RememberedType, NotedType
    <2>3. /\ Cached(m, e.o, e.start) \in Memories
          /\ Cached(Noted(m, e.o), e.o, e.start) \in Memories
      <3> HIDE DEF m, e
      <3> QED
        BY <2>1, <2>2, CachedType
    <2>4. /\ \/ Remember(p, t, Cached(m, e.o, e.start))
             \/ Remember(p, t, Cached(Noted(m, e.o), e.o, e.start))
          /\ UNCHANGED reports \/ reports' = WithReport(t, ReportOf(e.start, e.o))
          /\ UNCHANGED idle \/ idle' = [idle EXCEPT ![t] = newest[t]]
          /\ NextTarget(p)
          /\ UNCHANGED <<archives, env, trouble, last>>
      BY <1>5 DEF Record
    <2>5. ReportsOK'
      BY <1>0, <2>1, <2>4, ReportType, Writes DEF TypeInv, ReportsOK
    <2>6. MemOK'
      <3> HIDE DEF m, e, t
      <3> QED
        BY <1>0, <2>3, <2>4, RememberType DEF MemOK, t
    <2>7. EnginesOK'
      BY <2>4, NextTargetType
    <2>8. IdleOK' /\ ArchivesOK' /\ LastOK' /\ ClockOK'
      BY <1>0, <2>4 DEF TypeInv, IdleOK, ArchivesOK, LastOK, ClockOK
    <2> QED
      BY <2>5, <2>6, <2>7, <2>8 DEF TypeInv
  <1>6. CASE RecordFails(p)
    <2> DEFINE t == This(p)
               m == Remembered(Memory(p, t), engine[p].o)
    <2>1. m \in Memories /\ Noted(m, "failed") \in Memories
      BY <1>0, <1>o, RememberedType, NotedType DEF Engines
    <2>2. /\ \/ /\ reports' = WithReport(t, ReportOf(now, "failed"))
                /\ Remember(p, t, Noted(m, "failed"))
                /\ last' = [last EXCEPT ![t] = [start |-> now, is |-> "failed"]]
             \/ /\ Remember(p, t, m)
                /\ last' = [last EXCEPT ![t].is = "unrecorded"]
                /\ UNCHANGED reports
          /\ NextTarget(p) \/ engine' = [engine EXCEPT ![p] = Down]
          /\ Strikes({"stateDir"})
          /\ UNCHANGED <<archives, env, idle>>
      BY <1>6 DEF RecordFails
    <2>3. ReportsOK'
      BY <1>0, <1>o, <2>2, ReportType, Writes DEF TypeInv, ReportsOK
    <2>4. MemOK'
      <3> HIDE DEF m, t
      <3> QED
        BY <1>0, <2>1, <2>2, RememberType DEF MemOK, t
    <2>5. EnginesOK'
      <3>1. CASE engine' = [engine EXCEPT ![p] = Down]
        BY <3>1, DownType, EngineBecomes DEF Running
      <3> QED
        BY <2>2, <3>1, NextTargetType
    <2>6. LastOK'
      BY <1>0, <1>o, <2>2 DEF TypeInv, LastOK
    <2>7. IdleOK' /\ ArchivesOK' /\ ClockOK'
      BY <2>2, StrikesType DEF TypeInv, IdleOK, ArchivesOK, ClockOK
    <2> QED
      BY <2>3, <2>4, <2>5, <2>6, <2>7 DEF TypeInv
  <1>7. CASE RunThrows(p)
    <2> DEFINE t == This(p)
    <2>1. ReportsOK' /\ MemOK' /\ LastOK' /\ EnginesOK'
      <3>1. \/ RecordFailed(p, t) /\ NextTarget(p)
            \/ /\ last' = [last EXCEPT ![t] = [start |-> now, is |-> "unrecorded"]]
               /\ engine' = [engine EXCEPT ![p] = Down]
               /\ UNCHANGED <<reports, mem>>
        BY <1>7 DEF RunThrows
      <3>2. CASE RecordFailed(p, t) /\ NextTarget(p)
        <4>1. ReportsOK' /\ MemOK' /\ LastOK'
          BY <1>0, <3>2, RecordFailedType
        <4> QED
          BY <3>2, <4>1, NextTargetType
      <3>3. CASE /\ last' = [last EXCEPT ![t] = [start |-> now, is |-> "unrecorded"]]
                 /\ engine' = [engine EXCEPT ![p] = Down]
                 /\ UNCHANGED <<reports, mem>>
        <4>1. EnginesOK'
          BY <3>3, DownType, EngineBecomes DEF Running
        <4>2. LastOK'
          BY <1>0, <3>3 DEF TypeInv, LastOK
        <4> QED
          BY <3>3, <4>1, <4>2 DEF TypeInv, ReportsOK, MemOK
      <3> QED
        BY <3>1, <3>2, <3>3
    <2>2. IdleOK' /\ ArchivesOK' /\ ClockOK'
      BY <1>7, StrikesType DEF RunThrows, TypeInv, IdleOK, ArchivesOK, ClockOK
    <2> QED
      BY <2>1, <2>2 DEF TypeInv
  <1> QED
    BY <1>1, <1>2, <1>3, <1>4, <1>5, <1>6, <1>7

\* The environment.
LEMMA WorldType ==
  ASSUME TypeInv, \/ \E p \in Engine : Kill(p)
                  \/ \E t \in Target : Disk(t)
                  \/ Tick \/ Calm \/ UNCHANGED vars
  PROVE  TypeInv'
  <1> USE DEF archives, env, ghosts
  <1>1. ASSUME NEW p \in Engine, Kill(p) PROVE TypeInv'
    <2>0. This(p) \in Target
      BY TypeInvImplies, ThisType
    <2>1. EnginesOK'
      BY <1>1, DownType, EngineBecomes DEF Kill, Running
    <2>2. LastOK'
      BY <1>1, <2>0 DEF Kill, TypeInv, LastOK
    <2>3. MemOK'
      BY <1>1, BlankType DEF Kill, TypeInv, MemOK
    <2>4. ArchivesOK' /\ IdleOK'
      BY <1>1 DEF Kill, TypeInv, ArchivesOK, IdleOK
    <2>5. ClockOK'
      BY <1>1, StrikesType DEF Kill, TypeInv, ClockOK
    <2> QED
      BY <1>1, <2>1, <2>2, <2>3, <2>4, <2>5 DEF Kill, TypeInv, ReportsOK
  <1>2. ASSUME NEW t \in Target, Disk(t) PROVE TypeInv'
    <2>1. ArchivesOK'
      BY <1>2 DEF Disk, TypeInv, ArchivesOK
    <2>2. ClockOK'
      BY <1>2, StrikesType DEF Disk, TypeInv, ClockOK
    <2> QED
      BY <1>2, <2>1, <2>2 DEF Disk, TypeInv, ReportsOK, EnginesOK, MemOK, LastOK, IdleOK
  <1>3. CASE Tick
    <2>1. now' \in Instant
      BY <1>3, Constants DEF Tick, TypeInv, ClockOK, Instant
    <2>2. ClockOK'
      BY <1>3, <2>1 DEF Tick, TypeInv, ClockOK
    <2> QED
      BY <1>3, <2>2 DEF Tick, TypeInv, ArchivesOK, ReportsOK, EnginesOK, MemOK, LastOK, IdleOK
  <1>4. CASE Calm
    BY <1>4 DEF Calm, TypeInv, ArchivesOK, ReportsOK, EnginesOK, MemOK, ClockOK, LastOK, IdleOK
  <1>5. CASE UNCHANGED vars
    BY <1>5 DEF vars, TypeInv, ArchivesOK, ReportsOK, EnginesOK, MemOK, ClockOK, LastOK, IdleOK
  <1> QED
    BY <1>1, <1>2, <1>3, <1>4, <1>5

LEMMA NextType == TypeInv /\ [Next]_vars => TypeInv'
  <1> SUFFICES ASSUME TypeInv, [Next]_vars PROVE TypeInv'
    OBVIOUS
  <1>1. ASSUME NEW p \in Engine, Step(p) \/ (\E force \in BOOLEAN : Start(p, force)) \/ Stop(p)
        PROVE  TypeInv'
    BY <1>1, LoopType, RunType DEF Step
  <1>2. CASE Wake
    BY <1>2, LoopType DEF Engine
  <1> QED
    BY <1>1, <1>2, WorldType DEF Next

\* Types, for any constants; at most Kept reports of a target stay, and they stay
\* in the order of their runs (writeTargetReport).
THEOREM TypeCorrect == Spec => []TypeOK
  BY InitType, NextType, TypeInvImplies, PTL DEF Spec

-----------------------------------------------------------------------------
(***************************************************************************)
(* What one engine's step leaves alone                                     *)
(***************************************************************************)
Acts(p) == \/ Step(p) \/ (\E force \in BOOLEAN : Start(p, force)) \/ Stop(p) \/ Kill(p)

LEMMA DaemonIs == "daemon" \in Engine /\ \A p \in Engine : p = "daemon" \/ p = "cli"
  BY DEF Engine

LEMMA ActsBecome ==
  ASSUME TypeInv, NEW p \in Engine, Acts(p)
  PROVE  /\ \A q \in Engine \ {p} : engine'[q] = engine[q]
         /\ now' = now
         /\ p # "daemon" => UNCHANGED <<mem, idle>>
  <1> USE DEF archives, env, ghosts
  <1>1. \A q \in Engine \ {p} : engine'[q] = engine[q]
    <2> USE DEF TypeInv, EnginesOK
    <2>1. CASE NextTarget(p) \/ \E point : Goto(p, point)
      BY <2>1 DEF NextTarget, Goto
    <2>2. CASE \E o, start : Ends(p, o, start)
      BY <2>2 DEF Ends
    <2>3. CASE (\E force \in BOOLEAN : Start(p, force)) \/ Stop(p) \/ Kill(p) \/ Started(p)
      BY <2>3 DEF Start, Stop, Kill, Started
    <2>4. CASE Visit(p) \/ DueCheck(p)
      BY <2>1, <2>4 DEF Visit, DueCheck
    <2>5. CASE Gate(p) \/ Lock(p) \/ RecordFails(p)
      BY <2>1, <2>2, <2>5 DEF Gate, Lock, RecordFails
    <2>6. CASE Unreachable(p) \/ DueCheckFails(p) \/ Damped(p) \/ Record(p)
      BY <2>1, <2>6 DEF Unreachable, DueCheckFails, Damped, Record
    <2>7. CASE GateFails(p) \/ Pipeline(p)
      BY <2>2, <2>7 DEF GateFails, Pipeline
    <2>8. CASE RunThrows(p)
      BY <2>1, <2>8 DEF RunThrows
    <2> QED
      BY <2>3, <2>4, <2>5, <2>6, <2>7, <2>8 DEF Acts, Step
  <1>2. now' = now
    BY DEF Acts, Step, Start, Stop, Kill, Started, Visit, Unreachable, DueCheck, DueCheckFails,
           Damped, Gate, GateFails, RunThrows, Lock, Pipeline, Record, RecordFails
  <1>3. ASSUME p # "daemon" PROVE UNCHANGED <<mem, idle>>
    <2> USE <1>3 DEF Remember, RecordFailed, Ends
    <2>1. CASE \/ \E force \in BOOLEAN : Start(p, force)
               \/ Stop(p) \/ Kill(p) \/ Started(p) \/ Visit(p) \/ Unreachable(p)
      BY <2>1 DEF Start, Stop, Kill, Started, Visit, Unreachable
    <2>2. CASE \/ DueCheck(p) \/ DueCheckFails(p) \/ Damped(p) \/ Gate(p)
               \/ GateFails(p) \/ RunThrows(p) \/ Lock(p)
      BY <2>2 DEF DueCheck, DueCheckFails, Damped, Gate, GateFails, RunThrows, Lock
    <2>3. CASE Pipeline(p)
      BY <2>3 DEF Pipeline
    <2>4. CASE Record(p) \/ RecordFails(p)
      BY <2>4 DEF Record, RecordFails
    <2> QED
      BY <2>1, <2>2, <2>3, <2>4 DEF Acts, Step
  <1> QED
    BY <1>1, <1>2, <1>3

\* A new snapshot is no older than the newest, and falls into another window
\* unless it was forced.
LEMMA NewestGrows ==
  ASSUME TypeInv, NEW p \in Engine, Acts(p), NEW t \in Target
  PROVE  \/ newest'[t] = newest[t]
         \/ /\ Pipeline(p) /\ t = This(p) /\ engine[p].start \in Instant
            /\ newest'[t] = engine[p].start /\ newest[t] <= newest'[t]
  <1>1. CASE Pipeline(p)
    <2>1. engine[p].start \in Instant /\ This(p) \in Target
      BY <1>1, TypeInvImplies, ThisType DEF Pipeline, At, TypeInv, EnginesOK, Engines
    <2>2. \/ newest' = newest
          \/ /\ newest' = [newest EXCEPT ![This(p)] = engine[p].start]
             /\ ~(engine[p].start < newest[This(p)])
      BY <1>1 DEF Pipeline
    <2>3. engine[p].start \in Nat /\ newest[t] \in Nat /\ newest \in [Target -> Instant \cup {None}]
      <3>1. Instant \cup {None} \subseteq Nat
        BY Constants DEF None
      <3> QED
        BY <2>1, <3>1 DEF TypeInv, ArchivesOK
    <2> QED
      BY <1>1, <2>1, <2>2, <2>3
  <1>2. CASE ~Pipeline(p)
    BY <1>2 DEF Acts, Step, Start, Stop, Kill, Started, Visit, Unreachable, DueCheck, DueCheckFails,
           Damped, Gate, GateFails, RunThrows, Lock, Record, RecordFails, archives
  <1> QED
    BY <1>1, <1>2

\* The loop is about to do what the next case says, and goes on from there.
LEMMA Moves ==
  ASSUME TypeInv, NEW p \in Engine, Acts(p)
  PROVE  LET e == engine[p]
             f == engine'[p]
         IN  /\ f.force => e.force \/ Start(p, TRUE)
             /\ \/ f.at \in {"down", "starting", "visit", "sleep"}
                \/ /\ f.pos = e.pos
                   /\ \/ /\ Stop(p) /\ f.at = e.at /\ f.seen = e.seen
                         /\ f.start = e.start /\ f.o = e.o
                      \/ Visit(p) /\ f.at = "gate" /\ e.force
                      \/ Visit(p) /\ f.at = "check" /\ f.seen = now
                      \/ DueCheck(p) /\ f.at = "gate"
                      \/ Gate(p) /\ f.at = "lock" /\ f.start = now
                      \/ /\ Gate(p) \/ GateFails(p)
                         /\ f.at = "record" /\ f.start = now /\ f.o \in {"aborted", "failed"}
                      \/ Lock(p) /\ f.at = "run" /\ f.start = e.start
                      \/ Lock(p) /\ f.at = "record" /\ f.start = now /\ f.o = "lock-held"
                      \/ Pipeline(p) /\ f.at = "record" /\ f.start = e.start
  <1> DEFINE e == engine[p]
             f == engine'[p]
  <1>0. e \in Engines /\ p \in DOMAIN engine
    BY DEF TypeInv, EnginesOK
  <1>d. ASSUME engine' = [engine EXCEPT ![p] = Down]
        PROVE  f.at = "down" /\ ~f.force
    BY <1>0, <1>d DEF Down
  <1>n. ASSUME NextTarget(p)
        PROVE  f.at \in {"visit", "sleep", "down"} /\ (f.force => e.force)
    <2>1. f = AfterTarget(p)
      BY <1>0, <1>n DEF NextTarget
    <2> QED
      BY <1>0, <2>1 DEF AfterTarget, Down
  <1>e. ASSUME NEW o, NEW start, Ends(p, o, start)
        PROVE  /\ f.at = "record" /\ f.start = start /\ f.o = o
               /\ f.force = e.force /\ f.pos = e.pos
    <2>1. f = [e EXCEPT !.at = "record", !.o = o, !.start = start]
      BY <1>0, <1>e DEF Ends
    <2> QED
      BY <1>0, <2>1 DEF Engines
  <1>1. ASSUME NEW force \in BOOLEAN, Start(p, force)
        PROVE  f.at = "starting" /\ (f.force => Start(p, TRUE))
    <2>1. f = [Down EXCEPT !.at = "starting", !.force = force]
      BY <1>0, <1>1 DEF Start
    <2> QED
      BY <1>1, <2>1 DEF Down
  <1>2. CASE Started(p)
    <2>1. CASE engine' = [engine EXCEPT ![p].at = "visit", ![p].stop = FALSE]
      <3>1. f = [e EXCEPT !.at = "visit", !.stop = FALSE]
        BY <1>0, <2>1
      <3> QED
        BY <1>0, <3>1 DEF Engines
    <2> QED
      BY <1>2, <1>d, <2>1 DEF Started
  <1>3. CASE Visit(p)
    <2>1. CASE Goto(p, "gate") /\ e.force
      <3>1. f = [e EXCEPT !.at = "gate"]
        BY <1>0, <2>1 DEF Goto
      <3> QED
        BY <1>0, <1>3, <2>1, <3>1 DEF Engines
    <2>2. CASE engine' = [engine EXCEPT ![p].at = "check", ![p].seen = now]
      <3>1. f = [e EXCEPT !.at = "check", !.seen = now]
        BY <1>0, <2>2
      <3> QED
        BY <1>0, <1>3, <3>1 DEF Engines
    <2> QED
      BY <1>3, <1>d, <1>n, <2>1, <2>2 DEF Visit
  <1>4. CASE DueCheck(p)
    <2>1. CASE engine' = [engine EXCEPT ![p].at = "gate", ![p].seen = None]
      <3>1. f = [e EXCEPT !.at = "gate", !.seen = None]
        BY <1>0, <2>1
      <3> QED
        BY <1>0, <1>4, <3>1 DEF Engines
    <2> QED
      BY <1>4, <1>n, <2>1 DEF DueCheck
  <1>5. CASE Unreachable(p) \/ DueCheckFails(p) \/ Damped(p) \/ Record(p)
    BY <1>5, <1>n DEF Unreachable, DueCheckFails, Damped, Record
  <1>6. CASE Gate(p)
    <2>1. CASE engine' = [engine EXCEPT ![p].at = "lock", ![p].start = now,
                                        ![p].low = Memory(p, This(p)).low]
      <3>1. f = [e EXCEPT !.at = "lock", !.start = now, !.low = Memory(p, This(p)).low]
        BY <1>0, <2>1
      <3> QED
        BY <1>0, <1>6, <3>1 DEF Engines
    <2> QED
      BY <1>6, <1>e, <2>1 DEF Gate
  <1>7. CASE GateFails(p)
    BY <1>7, <1>e DEF GateFails
  <1>8. CASE Lock(p)
    <2>1. CASE Goto(p, "run")
      <3>1. f = [e EXCEPT !.at = "run"]
        BY <1>0, <2>1 DEF Goto
      <3> QED
        BY <1>0, <1>8, <3>1 DEF Engines
    <2> QED
      BY <1>8, <1>e, <2>1 DEF Lock
  <1>9. CASE Pipeline(p)
    <2>1. PICK o : Ends(p, o, e.start)
      BY <1>9 DEF Pipeline
    <2> QED
      BY <1>9, <1>e, <2>1
  <1>10. CASE RecordFails(p)
    BY <1>10, <1>d, <1>n DEF RecordFails
  <1>11. CASE Stop(p)
    <2>1. f = [e EXCEPT !.stop = TRUE]
      BY <1>0, <1>11 DEF Stop
    <2> QED
      BY <1>0, <1>11, <2>1 DEF Engines
  <1>12. CASE Kill(p)
    BY <1>12, <1>d DEF Kill
  <1>13. CASE RunThrows(p)
    BY <1>13, <1>d, <1>n DEF RunThrows
  <1> QED
    BY <1>1, <1>2, <1>3, <1>4, <1>5, <1>6, <1>7, <1>8, <1>9, <1>10, <1>11, <1>12, <1>13
       DEF Acts, Step

\* The cache of a target is what it was or empty, but for a listing and a run.
LEMMA CacheMoves ==
  ASSUME TypeInv, Acts("daemon"), NEW t \in Target
  PROVE  LET p == "daemon"
             D == This(p)
         IN  /\ \/ mem'[t].cache \in {Unset, mem[t].cache}
                \/ DueCheck(p) /\ t = D /\ mem[t].cache = Unset /\ mem'[t].cache = newest[t]
                \/ Record(p) /\ t = D /\ engine[p].o = "ok"
             /\ \/ idle'[t] = idle[t]
                \/ /\ Record(p) /\ t = D /\ engine[p].o = "window"
                   /\ idle'[t] = newest[t] /\ mem'[t].cache = Unset
  <1> DEFINE p == "daemon"
             D == This(p)
  <1> USE DEF archives, env, ghosts
  <1>0. /\ mem \in [Target -> Memories] /\ idle \in [Target -> Instant \cup {None}]
        /\ D \in Target /\ p \in Engine /\ Memory(p, D) = mem[D] /\ mem[D] \in Memories
    BY TypeInvImplies, ThisType DEF TypeInv, MemOK, IdleOK, Memory, Engine
  <1> HIDE DEF D
  <1>r. ASSUME NEW m, Remember(p, D, m)
        PROVE  mem'[t] = IF t = D THEN m ELSE mem[t]
    BY <1>0, <1>r DEF Remember
  <1>n. ASSUME NEW m \in Memories, NEW o PROVE Noted(m, o).cache = m.cache
    BY DEF Noted, Memories
  <1>m. ASSUME NEW o PROVE Remembered(mem[D], o) \in Memories
                           /\ Remembered(mem[D], o).cache = mem[D].cache
    <2>1. now \in Instant
      BY DEF TypeInv, ClockOK
    <2> QED
      BY <1>0, <2>1 DEF Remembered, Memories
  <1>f. ASSUME mem' = Forgotten \/ mem' = [u \in Target |-> Rehydrated(u)]
        PROVE  mem'[t].cache = Unset
    BY <1>f, RehydratedType, TypeInvImplies DEF Forgotten, Blank
  <1>1. CASE \/ \E force \in BOOLEAN : Start(p, force)
             \/ Unreachable(p) \/ Damped(p) \/ Gate(p) \/ GateFails(p) \/ Lock(p) \/ Stop(p)
    BY <1>1 DEF Start, Unreachable, Damped, Gate, GateFails, Lock, Stop, Ends
  <1>2. CASE Started(p) \/ Visit(p) \/ Kill(p)
    <2>1. idle' = idle
      BY <1>2 DEF Started, Visit, Kill
    <2>2. \/ mem' = mem \/ mem' = Forgotten \/ mem' = [u \in Target |-> Rehydrated(u)]
      BY <1>2 DEF Started, Visit, Kill
    <2> QED
      BY <1>f, <2>1, <2>2
  <1>3. CASE DueCheck(p)
    <2> DEFINE known == IF mem[D].cache = Unset THEN newest[D] ELSE mem[D].cache
    <2>1. Remember(p, D, [mem[D] EXCEPT !.cache = known]) /\ idle' = idle
      BY <1>0, <1>3 DEF DueCheck, D
    <2>2. [mem[D] EXCEPT !.cache = known].cache = known
      BY <1>0 DEF Memories
    <2>3. mem'[t].cache = IF t = D THEN known ELSE mem[t].cache
      <3> HIDE DEF known
      <3> QED
        BY <1>r, <2>1, <2>2
    <2> QED
      BY <1>3, <2>1, <2>3 DEF D
  <1>4. CASE DueCheckFails(p) \/ RunThrows(p)
    <2>1. idle' = idle /\ RecordFailed(p, D)
      BY <1>4 DEF DueCheckFails, RunThrows, D
    <2>2. mem' = mem \/ Remember(p, D, Noted(mem[D], "failed"))
      BY <1>0, <2>1 DEF RecordFailed
    <2> QED
      BY <1>0, <1>n, <1>r, <2>1, <2>2
  <1>5. CASE Pipeline(p)
    <2>1. idle' = idle
      BY <1>5 DEF Pipeline, Ends
    <2>2. mem' = mem \/ \E b : Remember(p, D, [mem[D] EXCEPT !.low = b])
      BY <1>0, <1>5 DEF Pipeline, D
    <2>3. \A b : [mem[D] EXCEPT !.low = b].cache = mem[D].cache
      BY <1>0 DEF Memories
    <2> QED
      BY <1>r, <2>1, <2>2, <2>3
  <1>6. CASE Record(p)
    <2> DEFINE e == engine[p]
               m == Remembered(mem[D], e.o)
    <2>1. \/ Remember(p, D, Cached(m, e.o, e.start)) /\ Repeated(p)
          \/ Remember(p, D, Cached(Noted(m, e.o), e.o, e.start))
      BY <1>0, <1>6 DEF Record, D
    <2>2. m \in Memories /\ m.cache = mem[D].cache /\ Noted(m, e.o).cache = mem[D].cache
      BY <1>m, <1>n
    <2>3. Noted(m, e.o) \in Memories
      BY <1>0, <2>2, TypeInvImplies, NotedType DEF TypeInv, EnginesOK, Engines
    <2>4. e.o # "ok" =>
             /\ Cached(m, e.o, e.start).cache = IF e.o = "window" THEN Unset ELSE mem[D].cache
             /\ Cached(Noted(m, e.o), e.o, e.start).cache
                   = IF e.o = "window" THEN Unset ELSE mem[D].cache
      <3>1. ASSUME NEW x \in Memories, e.o # "ok"
            PROVE  Cached(x, e.o, e.start).cache = IF e.o = "window" THEN Unset ELSE x.cache
        BY <3>1 DEF Cached, Memories
      <3> HIDE DEF m, e
      <3> QED
        BY <2>2, <2>3, <3>1
    <2>5. idle' = IF e.o = "window" THEN [idle EXCEPT ![D] = newest[D]] ELSE idle
      BY <1>6 DEF Record, D
    <2>6. t # D => mem'[t] = mem[t] /\ idle'[t] = idle[t]
      <3> HIDE DEF m, e
      <3> QED
        BY <1>0, <1>r, <2>1, <2>5
    <2>7. t = D /\ e.o # "ok" => mem'[t].cache = IF e.o = "window" THEN Unset ELSE mem[D].cache
      <3> HIDE DEF m, e
      <3> QED
        BY <1>0, <1>r, <2>1, <2>4
    <2>8. t = D => idle'[t] = IF e.o = "window" THEN newest[D] ELSE idle[D]
      BY <1>0, <2>5
    <2> HIDE DEF m
    <2> QED
      BY <1>6, <2>6, <2>7, <2>8 DEF D
  <1>7. CASE RecordFails(p)
    <2> DEFINE m == Remembered(mem[D], engine[p].o)
    <2>1. idle' = idle /\ (Remember(p, D, Noted(m, "failed")) \/ Remember(p, D, m))
      BY <1>0, <1>7 DEF RecordFails, D
    <2>2. m \in Memories /\ m.cache = mem[D].cache /\ Noted(m, "failed").cache = mem[D].cache
      BY <1>m, <1>n
    <2> HIDE DEF m
    <2> QED
      BY <1>r, <2>1, <2>2
  <1> QED
    BY <1>1, <1>2, <1>3, <1>4, <1>5, <1>6, <1>7 DEF Acts, Step

-----------------------------------------------------------------------------
(***************************************************************************)
(* One vain run for each snapshot somebody else made                       *)
(***************************************************************************)
Daemon == engine["daemon"]

TimesOK ==
    /\ \A t \in Target : newest[t] <= now /\ idle[t] <= newest[t]
    /\ \A p \in Engine : engine[p].at \in Running => engine[p].start <= now
    /\ ~Daemon.force

\* The daemon has recorded a vain run, and nothing is newer.
Known(t) == idle[t] = newest[t] /\ idle[t] # None

\* Of such a target it remembers the snapshot or nothing ...
KnownIsKept == \A t \in Target : Known(t) => mem[t].cache \in {Unset, newest[t]}

LookedOK == Daemon.at = "check" => Daemon.seen <= now /\ idle[This("daemon")] <= Daemon.seen

\* ... and it goes beyond the due check only when another window has begun.
KnownIsGone ==
    LET t == This("daemon")
    IN  /\ Daemon.at = "gate" /\ Known(t) => WindowIndex(newest[t]) < WindowIndex(now)
        /\ Daemon.at \in {"lock", "run"} /\ Known(t)
              => WindowIndex(newest[t]) < WindowIndex(Daemon.start)
        /\ Daemon.at = "record" /\ Daemon.o = "ok" => idle[t] < newest[t]

VainInv == TypeInv /\ TimesOK /\ KnownIsKept /\ LookedOK /\ KnownIsGone

LEMMA WindowsGrow ==
  ASSUME NEW a \in 0..MaxNow, NEW b \in 0..MaxNow, a <= b
  PROVE  /\ WindowIndex(a) \in Nat /\ WindowIndex(b) \in Nat
         /\ WindowIndex(a) <= WindowIndex(b)
  BY WindowAssumption DEF WindowIndex

LEMMA Times ==
  ASSUME TypeInv
  PROVE  /\ now \in Nat
         /\ \A t \in Target : newest[t] \in Nat /\ idle[t] \in Nat
         /\ \A p \in Engine : engine[p].start \in Nat /\ engine[p].seen \in Nat
  <1>1. Instant \cup {None} \subseteq Nat /\ Instant \subseteq Nat
    BY Constants DEF None
  <1> QED
    BY <1>1 DEF TypeInv, ArchivesOK, IdleOK, EnginesOK, Engines, ClockOK

\* All of these lie within the clock, where windows are.
LEMMA InClock ==
  ASSUME TypeInv
  PROVE  /\ now \in 0..MaxNow
         /\ \A t \in Target : newest[t] \in 0..MaxNow
         /\ \A p \in Engine : engine[p].start \in 0..MaxNow /\ engine[p].seen \in 0..MaxNow
  <1>1. Instant \cup {None} \subseteq 0..MaxNow /\ Instant \subseteq 0..MaxNow
    BY SchedulerAssumption DEF None, Instant
  <1> QED
    BY <1>1 DEF TypeInv, ArchivesOK, EnginesOK, Engines, ClockOK

LEMMA TimesNext ==
  ASSUME TypeInv'
  PROVE  /\ now' \in Nat
         /\ \A t \in Target : newest'[t] \in Nat /\ idle'[t] \in Nat
         /\ \A p \in Engine : engine'[p].start \in Nat /\ engine'[p].seen \in Nat
  <1>1. Instant \cup {None} \subseteq Nat /\ Instant \subseteq Nat
    BY Constants DEF None
  <1> QED
    BY <1>1 DEF TypeInv, ArchivesOK, IdleOK, EnginesOK, Engines, ClockOK

LEMMA InitVain == Init => VainInv
  <1> SUFFICES ASSUME Init PROVE VainInv
    OBVIOUS
  <1>1. /\ \A t \in Target : newest[t] = 0 /\ idle[t] = 0
        /\ \A p \in Engine : engine[p] = Down
        /\ now = 1 /\ mem = Forgotten /\ "daemon" \in Engine
    BY DEF Init, None, Engine
  <1>2. Down.at = "down" /\ ~Down.force
    BY DEF Down
  <1> QED
    BY <1>1, <1>2, InitType DEF VainInv, TimesOK, KnownIsKept, LookedOK, KnownIsGone, Known,
                                Daemon, Running, None

\* An engine's step keeps the order of the times ...
LEMMA ActsTimes ==
  ASSUME VainInv, NEW p \in Engine, Acts(p)
  PROVE  TimesOK'
  <1> USE DEF VainInv
  <1>0. TypeInv' /\ now' = now
    BY NextType, ActsBecome DEF Acts, Next
  <1>1. ASSUME NEW t \in Target PROVE newest'[t] <= now /\ idle'[t] <= newest'[t] /\ newest[t] <= newest'[t]
    <2>1. newest[t] <= newest'[t] /\ newest'[t] <= now
      <3>1. CASE newest'[t] = newest[t]
        BY <3>1, Times DEF TimesOK
      <3>2. CASE Pipeline(p) /\ newest'[t] = engine[p].start /\ newest[t] <= newest'[t]
        BY <3>2 DEF TimesOK, Pipeline, At, Running
      <3> QED
        BY <3>1, <3>2, NewestGrows
    <2>2. idle'[t] = idle[t] \/ idle'[t] = newest[t]
      <3>1. CASE p = "daemon"
        BY <3>1, CacheMoves
      <3>2. CASE p # "daemon"
        BY <3>2, ActsBecome
      <3> QED
        BY <3>1, <3>2
    <2>3. newest[t] \in Nat /\ newest'[t] \in Nat /\ idle[t] \in Nat /\ idle[t] <= newest[t]
      BY <1>0, Times, TimesNext DEF TimesOK
    <2> QED
      BY <2>1, <2>2, <2>3
  <1>2. ASSUME NEW q \in Engine, engine'[q].at \in Running PROVE engine'[q].start <= now
    <2>1. CASE q = p
      <3>1. engine'[p].start \in {now, engine[p].start} /\ (engine'[p].start = now \/ engine[p].at \in Running)
        BY <1>2, <2>1, Moves DEF Running, Lock, Pipeline, At
      <3> QED
        BY <2>1, <3>1, Times DEF TimesOK
    <2>2. CASE q # p
      BY <1>2, <2>2, ActsBecome DEF TimesOK
    <2> QED
      BY <2>1, <2>2
  <1>3. ~engine'["daemon"].force
    <2>1. CASE p = "daemon"
      BY <2>1, Moves DEF TimesOK, Daemon, Start
    <2>2. CASE p # "daemon"
      BY <2>2, ActsBecome, DaemonIs DEF TimesOK, Daemon
    <2> QED
      BY <2>1, <2>2
  <1> QED
    BY <1>0, <1>1, <1>2, <1>3 DEF TimesOK, Daemon

\* ... what the daemon knows ...
LEMMA ActsKnown ==
  ASSUME VainInv, NEW p \in Engine, Acts(p)
  PROVE  KnownIsKept'
  <1> USE DEF VainInv
  <1>0. TypeInv' /\ TimesOK'
    BY NextType, ActsTimes DEF Acts, Next
  <1> SUFFICES ASSUME NEW t \in Target, Known(t)' PROVE mem'[t].cache \in {Unset, newest'[t]}
    BY DEF KnownIsKept
  <1>1. /\ newest[t] \in Nat /\ newest'[t] \in Nat /\ idle[t] \in Nat /\ idle'[t] \in Nat
        /\ idle[t] <= newest[t] /\ newest[t] <= newest'[t]
        /\ idle'[t] = newest'[t] /\ idle'[t] # None
    <2>1. newest[t] \in Nat /\ newest'[t] \in Nat /\ idle[t] \in Nat /\ idle'[t] \in Nat
      BY <1>0, Times, TimesNext
    <2> QED
      BY <2>1, NewestGrows DEF Known, TimesOK
  <1>2. CASE p # "daemon"
    <2>1. idle'[t] = idle[t] /\ mem'[t] = mem[t]
      BY <1>2, ActsBecome
    <2>2. newest'[t] = newest[t]
      BY <1>1, <2>1
    <2> QED
      BY <1>1, <2>1, <2>2 DEF KnownIsKept, Known
  <1>3. CASE p = "daemon" /\ idle'[t] = idle[t]
    <2>1. newest'[t] = newest[t] /\ Known(t)
      BY <1>1, <1>3 DEF Known
    <2>2. mem[t].cache \in {Unset, newest[t]}
      BY <2>1 DEF KnownIsKept
    <2>3. ~(Record(p) /\ t = This("daemon") /\ engine["daemon"].o = "ok")
      BY <1>1, <1>3, <2>1 DEF KnownIsGone, Known, Record, At, Daemon
    <2> QED
      BY <1>3, <2>1, <2>2, <2>3, CacheMoves
  <1>4. CASE p = "daemon" /\ idle'[t] # idle[t]
    BY <1>4, CacheMoves
  <1> QED
    BY <1>2, <1>3, <1>4

\* ... and that it looks before it goes on.
LEMMA OthersGone ==
  ASSUME VainInv, NEW p \in Engine, Acts(p), p # "daemon"
  PROVE  LookedOK' /\ KnownIsGone'
  <1> USE DEF VainInv
  <1> DEFINE t == This("daemon")
  <1>1. /\ Daemon' = Daemon /\ This("daemon")' = t /\ now' = now
        /\ idle' = idle /\ t \in Target
    BY ActsBecome, DaemonIs, TypeInvImplies, ThisType DEF Daemon, This
  <1>2. TypeInv'
    BY NextType DEF Acts, Next
  <1> HIDE DEF t
  <1>3. /\ newest[t] \in Nat /\ newest'[t] \in Nat /\ idle[t] \in Nat
        /\ idle[t] <= newest[t] /\ newest[t] <= newest'[t]
    <2>1. newest[t] \in Nat /\ newest'[t] \in Nat /\ idle[t] \in Nat
      BY <1>1, <1>2, Times, TimesNext
    <2> QED
      BY <1>1, <2>1, NewestGrows DEF TimesOK
  <1>4. idle[t] = newest'[t] /\ idle[t] # None => Known(t) /\ newest'[t] = newest[t]
    BY <1>3 DEF Known
  <1>5. LookedOK'
    BY <1>1 DEF LookedOK, t
  <1>6. Known(This("daemon"))' <=> idle[t] = newest'[t] /\ idle[t] # None
    BY <1>1 DEF Known
  <1>7. LET known == idle[t] = newest'[t] /\ idle[t] # None
        IN  /\ Daemon.at = "gate" /\ known => WindowIndex(newest'[t]) < WindowIndex(now)
            /\ Daemon.at \in {"lock", "run"} /\ known
                  => WindowIndex(newest'[t]) < WindowIndex(Daemon.start)
            /\ Daemon.at = "record" /\ Daemon.o = "ok" => idle[t] < newest'[t]
    BY <1>3, <1>4 DEF KnownIsGone, t
  <1>8. KnownIsGone'
    BY <1>1, <1>6, <1>7 DEF KnownIsGone, WindowIndex
  <1> QED
    BY <1>5, <1>8

LEMMA OwnGone ==
  ASSUME VainInv, Acts("daemon")
  PROVE  LookedOK' /\ KnownIsGone'
  <1> USE DEF VainInv
  <1> DEFINE t == This("daemon")
             f == engine'["daemon"]
             d == engine["daemon"]
  <1>0. /\ TypeInv' /\ TimesOK' /\ now' = now /\ "daemon" \in Engine /\ ~d.force
    BY NextType, ActsTimes, ActsBecome, DaemonIs DEF Acts, Next, TimesOK, Daemon
  <1>1. CASE f.at \in {"down", "starting", "visit", "sleep"}
    BY <1>1 DEF LookedOK, KnownIsGone, Daemon
  <1>2. CASE f.at \notin {"down", "starting", "visit", "sleep"}
    <2>1. f.pos = d.pos /\ This("daemon")' = t /\ t \in Target
      BY <1>0, <1>2, Moves, TypeInvImplies, ThisType DEF This
    <2> HIDE DEF t
    <2>2. /\ newest[t] \in Nat /\ idle[t] \in Nat /\ idle[t] <= newest[t] /\ newest[t] <= now
          /\ newest'[t] \in Nat /\ now \in Nat /\ d.seen \in Nat /\ d.start \in Nat
      BY <1>0, <2>1, Times, TimesNext DEF TimesOK
    <2>3. CASE Stop("daemon")
      <3>1. /\ f.at = d.at /\ f.seen = d.seen /\ f.start = d.start /\ f.o = d.o
            /\ newest' = newest /\ idle' = idle
        <4>1. f = [d EXCEPT !.stop = TRUE] /\ newest' = newest /\ idle' = idle
          BY <1>0, <2>3 DEF Stop, archives, ghosts, TypeInv, EnginesOK
        <4> QED
          BY <1>0, <4>1 DEF TypeInv, EnginesOK, Engines
      <3> QED
        BY <1>0, <2>1, <3>1 DEF LookedOK, KnownIsGone, Known, Daemon, WindowIndex, t
    <2>4. CASE Visit("daemon") /\ f.at = "check" /\ f.seen = now
      <3>1. idle' = idle
        BY <2>4 DEF Visit, ghosts
      <3>2. LookedOK'
        BY <1>0, <2>1, <2>2, <2>4, <3>1 DEF LookedOK, Daemon
      <3> QED
        BY <2>4, <3>2 DEF KnownIsGone, Daemon
    <2>5. CASE DueCheck("daemon") /\ f.at = "gate"
      <3> DEFINE m == mem[t]
                 known == IF m.cache = Unset THEN newest[t] ELSE m.cache
      <3>1. newest' = newest /\ idle' = idle /\ d.at = "check"
        BY <2>5 DEF DueCheck, archives, ghosts, At
      <3>2. IsDue(known, d.seen)
        <4>1. ~NextTarget("daemon")
          BY <1>0, <2>5, AfterTargetType DEF NextTarget, TypeInv, EnginesOK
        <4> QED
          BY <2>5, <4>1 DEF DueCheck, Memory, t
      <3>3. Known(t) => known = newest[t]
        BY <2>1 DEF KnownIsKept
      <3> HIDE DEF known
      <3>4. Known(t) => WindowIndex(newest[t]) # WindowIndex(d.seen)
        BY <3>2, <3>3 DEF IsDue, Known
      <3>5. Known(t) => newest[t] <= d.seen /\ d.seen <= now
        BY <3>1 DEF LookedOK, Daemon, Known, t
      <3>6. Known(t) => WindowIndex(newest[t]) < WindowIndex(now)
        <4>1. Known(t) => /\ WindowIndex(newest[t]) <= WindowIndex(d.seen)
                          /\ WindowIndex(d.seen) <= WindowIndex(now)
                          /\ WindowIndex(newest[t]) \in Nat /\ WindowIndex(d.seen) \in Nat
                          /\ WindowIndex(now) \in Nat
          <5>1. /\ newest[t] \in 0..MaxNow /\ d.seen \in 0..MaxNow /\ now \in 0..MaxNow
            BY <1>0, <2>1, InClock
          <5> QED
            BY <3>5, <5>1, WindowsGrow
        <4> QED
          BY <3>4, <4>1
      <3> QED
        BY <1>0, <2>1, <2>5, <3>1, <3>6 DEF LookedOK, KnownIsGone, Known, Daemon, WindowIndex
    <2>6. CASE Gate("daemon") /\ f.at = "lock" /\ f.start = now
      <3>1. newest' = newest /\ idle' = idle /\ d.at = "gate"
        BY <2>6, Constants DEF Gate, archives, ghosts, At, Ends
      <3> QED
        BY <1>0, <2>1, <2>6, <3>1 DEF LookedOK, KnownIsGone, Known, Daemon, WindowIndex, t
    <2>7. CASE Lock("daemon") /\ f.at = "run" /\ f.start = d.start
      <3>1. newest' = newest /\ idle' = idle /\ d.at = "lock"
        BY <2>7 DEF Lock, ghosts, At, Ends
      <3> QED
        BY <1>0, <2>1, <2>7, <3>1 DEF LookedOK, KnownIsGone, Known, Daemon, WindowIndex, t
    <2>8. CASE f.at = "record" /\ f.o \in {"aborted", "failed", "lock-held"}
      BY <2>8 DEF LookedOK, KnownIsGone, Daemon
    <2>9. CASE Pipeline("daemon") /\ f.at = "record" /\ f.start = d.start
      <3>1. f.o = "ok" => idle'[t] < newest'[t]
        <4> SUFFICES ASSUME f.o = "ok" PROVE idle'[t] < newest'[t]
          OBVIOUS
        <4>1. /\ newest' = [newest EXCEPT ![t] = d.start] /\ idle' = idle
              /\ ~(d.start < newest[t])
              /\ ~(newest[t] # None /\ WindowIndex(newest[t]) = WindowIndex(d.start))
              /\ d.at = "run"
          <5>1. ASSUME NEW o, NEW start, Ends("daemon", o, start)
                PROVE  f.o = o
            <6>1. f = [d EXCEPT !.at = "record", !.o = o, !.start = start]
              BY <1>0, <5>1 DEF Ends, TypeInv, EnginesOK
            <6> QED
              BY <1>0, <6>1 DEF TypeInv, EnginesOK, Engines
          <5>2. ~Ends("daemon", "window", d.start) /\ ~Ends("daemon", "failed", d.start)
                /\ ~Ends("daemon", "disk-low", d.start) /\ ~Ends("daemon", "aborted", d.start)
            BY <5>1
          <5>3. idle' = idle
            BY <2>9 DEF Pipeline, Ends
          <5> QED
            BY <1>0, <2>9, <5>2, <5>3 DEF Pipeline, At, t
        <4>2. newest'[t] = d.start /\ d.start \in Nat \ {0}
          <5>1. d.start # None
            BY <1>0, <4>1 DEF TypeInv, EnginesOK
          <5> QED
            BY <2>1, <2>2, <4>1, <5>1 DEF TypeInv, ArchivesOK, None
        <4>3. newest[t] # d.start
          BY <2>2, <4>1, <4>2 DEF None
        <4> QED
          BY <2>2, <4>1, <4>2, <4>3
      <3> QED
        BY <2>1, <2>9, <3>1 DEF LookedOK, KnownIsGone, Daemon
    <2>10. ~(Visit("daemon") /\ f.at = "gate" /\ d.force)
      BY <1>0
    <2> QED
      BY <1>0, <1>2, <2>3, <2>4, <2>5, <2>6, <2>7, <2>8, <2>9, <2>10, Moves
  <1> QED
    BY <1>1, <1>2

LEMMA WorldVain ==
  ASSUME VainInv, \/ \E t \in Target : Disk(t)
                  \/ Wake \/ Tick \/ Calm \/ UNCHANGED vars
  PROVE  VainInv'
  <1> USE DEF VainInv
  <1>0. TypeInv' /\ \A t \in Target : newest[t] \in Nat /\ now \in Nat
    BY NextType, Times DEF Next
  <1>1. UNCHANGED <<newest, idle>>
    BY DEF Disk, Wake, Tick, Calm, vars, archives, ghosts
  <1>2. CASE Wake
    <2>1. /\ now' = now /\ (mem' = mem \/ mem' = Forgotten)
          /\ \A q \in Engine : q # "daemon" => engine'[q] = engine[q]
      BY <1>2 DEF Wake, env, TypeInv, EnginesOK
    <2>2. engine'["daemon"].at \in {"down", "visit"} /\ ~engine'["daemon"].force
      <3> DEFINE d == engine["daemon"]
                 e == IF d.stop THEN Down ELSE [d EXCEPT !.at = "visit", !.pos = 1]
      <3>1. engine'["daemon"] = e /\ d \in Engines /\ ~d.force
        BY <1>2, DaemonIs DEF Wake, TypeInv, EnginesOK, TimesOK, Daemon
      <3>2. e.at \in {"down", "visit"} /\ ~e.force
        BY <3>1 DEF Down, Engines
      <3> QED
        BY <3>1, <3>2
    <2>3. TimesOK'
      BY <1>1, <2>1, <2>2 DEF TimesOK, Daemon, Running
    <2>4. KnownIsKept'
      BY <1>1, <2>1 DEF KnownIsKept, Known, Forgotten, Blank
    <2> QED
      BY <1>0, <2>2, <2>3, <2>4 DEF LookedOK, KnownIsGone, Daemon
  <1>3. CASE Tick
    <2>1. UNCHANGED <<newest, engine, mem, idle>> /\ now' = now + 1 /\ now \in Nat /\ now' \in Nat
      BY <1>3, Times DEF Tick, archives, ghosts
    <2>2. TimesOK'
      BY <1>0, <2>1, Times DEF TimesOK, Daemon
    <2>3. KnownIsKept'
      BY <2>1 DEF KnownIsKept, Known
    <2>4. LookedOK'
      BY <2>1, Times, DaemonIs DEF LookedOK, Daemon, This
    <2>5. KnownIsGone'
      <3> DEFINE t == This("daemon")
      <3>1. t \in Target
        BY DaemonIs, TypeInvImplies, ThisType
      <3>2. WindowIndex(now) <= WindowIndex(now + 1) /\ WindowIndex(now) \in Nat
            /\ WindowIndex(now + 1) \in Nat /\ WindowIndex(newest[t]) \in Nat
        <4>1. newest[t] \in 0..MaxNow /\ now \in 0..MaxNow /\ now + 1 \in 0..MaxNow
          <5>1. newest[t] \in 0..MaxNow /\ now \in 0..MaxNow
            <6> HIDE DEF t
            <6> QED
              BY <1>0, <3>1, InClock
          <5>2. now < MaxNow
            BY <1>3 DEF Tick
          <5>3. MaxNow \in Nat
            BY SchedulerAssumption
          <5> QED
            BY <5>1, <5>2, <5>3
        <4> QED
          BY <2>1, <4>1, WindowsGrow
      <3>3. This("daemon")' = t
        BY <2>1 DEF This
      <3> HIDE DEF t
      <3>4. Daemon.at = "gate" /\ Known(t) => WindowIndex(newest[t]) < WindowIndex(now + 1)
        BY <3>2 DEF KnownIsGone, t
      <3> QED
        BY <2>1, <3>3, <3>4 DEF KnownIsGone, Daemon, Known, WindowIndex, t
    <2> QED
      BY <1>0, <2>2, <2>3, <2>4, <2>5
  <1>4. CASE (\E t \in Target : Disk(t)) \/ Calm \/ UNCHANGED vars
    <2>1. UNCHANGED <<newest, engine, mem, idle, now>>
      BY <1>4 DEF Disk, Calm, vars, archives, env, ghosts
    <2> QED
      BY <1>0, <2>1 DEF TimesOK, KnownIsKept, LookedOK, KnownIsGone, Known, Daemon, This, WindowIndex
  <1> QED
    BY <1>2, <1>3, <1>4

LEMMA NextVain == VainInv /\ [Next]_vars => VainInv'
  <1> SUFFICES ASSUME VainInv, [Next]_vars PROVE VainInv'
    OBVIOUS
  <1>1. ASSUME NEW p \in Engine, Acts(p) PROVE VainInv'
    <2>1. LookedOK' /\ KnownIsGone'
      BY <1>1, OthersGone, OwnGone
    <2>2. TypeInv'
      BY NextType DEF VainInv
    <2> QED
      BY <1>1, <2>1, <2>2, ActsTimes, ActsKnown DEF VainInv
  <1>2. CASE \A p \in Engine : ~Acts(p)
    BY <1>2, WorldVain DEF Next, Acts
  <1> QED
    BY <1>1, <1>2

LEMMA VainStep ==
  ASSUME VainInv, [Next]_vars, NEW t \in Target,
         At("daemon", "run"), engine'["daemon"].at = "record",
         This("daemon") = t, engine'["daemon"].o = "window"
  PROVE  idle[t] # newest[t]
  <1> USE DEF VainInv
  <1> DEFINE d == engine["daemon"]
             f == engine'["daemon"]
  <1>0. f # d /\ d.at = "run" /\ d \in Engines /\ "daemon" \in DOMAIN engine
    BY DaemonIs DEF At, TypeInv, EnginesOK
  <1>1. Acts("daemon")
    <2>1. ASSUME NEW p \in Engine, Acts(p) PROVE p = "daemon"
      BY <1>0, <2>1, ActsBecome, DaemonIs
    <2>2. ~Wake /\ ~Tick /\ ~Calm /\ ~UNCHANGED vars /\ ~\E u \in Target : Disk(u)
      BY <1>0 DEF Wake, At, Tick, Calm, vars, Disk
    <2> QED
      BY <2>1, <2>2, DaemonIs DEF Next, Acts
  <1>2. Pipeline("daemon")
    <2>1. ~Stop("daemon") /\ ~Visit("daemon") /\ ~DueCheck("daemon") /\ ~Gate("daemon")
          /\ ~GateFails("daemon") /\ ~Lock("daemon")
      <3>1. ~Stop("daemon")
        <4>1. Stop("daemon") => f.at = d.at
          BY <1>0 DEF Stop, Engines
        <4> QED
          BY <1>0, <4>1
      <3> QED
        BY <1>0, <3>1 DEF Visit, DueCheck, Gate, GateFails, Lock, At
    <2> QED
      BY <1>1, <2>1, Moves, DaemonIs
  <1>3. newest[t] # None /\ WindowIndex(newest[t]) = WindowIndex(d.start)
    <2>1. ASSUME NEW o, NEW start, Ends("daemon", o, start) PROVE f.o = o
      <3>1. f = [d EXCEPT !.at = "record", !.o = o, !.start = start]
        BY <1>0, <2>1 DEF Ends
      <3> QED
        BY <1>0, <3>1 DEF Engines
    <2>2. \A o \in {"failed", "aborted", "disk-low", "ok"} : ~Ends("daemon", o, d.start)
      BY <2>1
    <2> QED
      BY <1>2, <2>2 DEF Pipeline
  <1>4. WindowIndex(newest[t]) \in Nat
    <2>1. newest[t] \in 0..MaxNow
      BY InClock
    <2> QED
      BY <2>1, WindowsGrow
  <1> QED
    BY <1>0, <1>3, <1>4 DEF KnownIsGone, Known, Daemon

\* After one vain run on record the daemon leaves alone a snapshot it did not
\* make: with the report it empties its cache, and until another window begins
\* the listing stops it before the lock (runDueTargets, recordOutcome).
THEOREM NoSecondVainRun == Spec => OneVainRun
  <1>1. Spec => []VainInv
    BY InitVain, NextVain, PTL DEF Spec
  <1>2. VainInv /\ [Next]_vars => 
          [\A t \in Target :
          /\ At("daemon", "run") /\ engine'["daemon"].at = "record"
          /\ This("daemon") = t /\ engine'["daemon"].o = "window"
          => idle[t] # newest[t]]_vars
    BY VainStep
  <1> QED
    BY <1>1, <1>2, PTL DEF Spec, OneVainRun

-----------------------------------------------------------------------------
(***************************************************************************)
(* A failure shows                                                         *)
(***************************************************************************)
\* A failed run begun at b is among the reports s, or only runs begun no earlier
\* are, as many as are kept.
Shows(s, b) ==
    \/ \E i \in 1..Len(s) : s[i].is = "failed" /\ s[i].start = b
    \/ Len(s) = Kept /\ \A i \in 1..Kept : b <= s[i].start

LEMMA ShowsNew ==
  ASSUME NEW s \in Seq(Reports), Sorted(s), Len(s) <= Kept, NEW r \in Reports, r.is = "failed"
  PROVE  Shows(Written(s, r), r.start)
  <1> DEFINE new == Written(s, r)
  <1>1. \/ Has(new, r)
        \/ Len(new) = Kept /\ \A i \in 1..Kept : r.start <= new[i].start
    BY WrittenHas
  <1> HIDE DEF new
  <1>2. Shows(new, r.start)
    BY <1>1 DEF Shows, Has
  <1> QED
    BY <1>2 DEF new

LEMMA ShowsStill ==
  ASSUME NEW s \in Seq(Reports), Sorted(s), Len(s) <= Kept, NEW r \in Reports,
         NEW b \in Nat, Shows(s, b)
  PROVE  Shows(Written(s, r), b)
  <1> DEFINE new == Written(s, r)
  <1>1. CASE \E i \in 1..Len(s) : s[i].is = "failed" /\ s[i].start = b
    <2>1. PICK i \in 1..Len(s) : s[i].is = "failed" /\ s[i].start = b
      BY <1>1
    <2>2. Has(s, s[i])
      BY DEF Has
    <2>3. \/ Has(new, s[i])
          \/ Len(new) = Kept /\ \A j \in 1..Kept : s[i].start <= new[j].start
      BY <2>2, WrittenHas
    <2> QED
      BY <2>1, <2>3 DEF Shows, Has
  <1>2. CASE Len(s) = Kept /\ \A i \in 1..Kept : b <= s[i].start
    <2> DEFINE k == Place(s, r)
    <2>0. Len(s) \in Nat /\ Kept \in Nat \ {0} /\ r.start \in Nat
          /\ \A l \in 1..Len(s) : s[l].start \in Nat
      BY LenProperties, Constants, ElementOfSeq, ReportIs
    <2>1. k \in 1..(Len(s) + 1) /\ (k > 1 => s[1].start <= r.start)
      <3>1. k \in 1..(Len(s) + 1) /\ \A l \in 1..Len(s) : l < k => s[l].start <= r.start
        BY PlaceIs
      <3>2. 1 \in 1..Len(s)
        BY <1>2, <2>0
      <3> QED
        BY <3>1, <3>2
    <2>2. Len(new) = Kept
      BY <1>2, <2>0, WrittenIs
    <2>3. ASSUME NEW i \in 1..Kept PROVE b <= new[i].start
      <3>1. new[i] = Inserted(s, r)[i + 1]
        <4>1. \A j \in 1..Len(new) : new[j] = Inserted(s, r)[IF Len(s) < Kept THEN j ELSE j + 1]
          BY WrittenIs
        <4>2. i \in 1..Len(new) /\ ~(Len(s) < Kept)
          BY <1>2, <2>0, <2>2
        <4> HIDE DEF new
        <4> QED
          BY <4>1, <4>2
      <3>2. i + 1 \in 1..(Len(s) + 1)
        BY <1>2, <2>0
      <3>3. Inserted(s, r)[i + 1] = IF i + 1 < k THEN s[i + 1]
                                    ELSE IF i + 1 = k THEN r ELSE s[(i + 1) - 1]
        BY <3>2, InsertedIs
      <3> HIDE DEF new, k
      <3>4. CASE i + 1 < k
        BY <1>2, <2>0, <2>1, <3>1, <3>3, <3>4
      <3>5. CASE i + 1 = k
        <4>1. new[i] = r /\ k > 1 /\ 1 \in 1..Kept
          BY <2>0, <3>1, <3>3, <3>5
        <4>2. b <= s[1].start /\ s[1].start <= r.start /\ s[1].start \in Nat
          BY <1>2, <2>0, <2>1, <4>1
        <4> QED
          BY <2>0, <4>1, <4>2
      <3>6. CASE i + 1 > k
        <4>1. new[i] = s[i]
          BY <2>1, <3>1, <3>3, <3>6
        <4> QED
          BY <1>2, <4>1
      <3> QED
        BY <2>1, <3>4, <3>5, <3>6
    <2> QED
      BY <2>2, <2>3 DEF Shows
  <1> QED
    BY <1>1, <1>2 DEF Shows

\* An engine is about to write the failure of the latest attempt at t.
Writing(p, t) ==
    /\ At(p, "record") /\ This(p) = t
    /\ engine[p].o = "failed" /\ engine[p].start = last[t].start

FailedIsKept ==
    \A t \in Target :
        last[t].is = "failed" => \/ \E p \in Engine : Writing(p, t)
                                 \/ Shows(reports[t], last[t].start)

\* What a step has to do with the reports of t and its latest attempt.
LEMMA LastMoves ==
  ASSUME TypeInv, NEW p \in Engine, Acts(p), NEW t \in Target, last'[t].is = "failed"
  PROVE  \/ \E r \in Reports : /\ reports'[t] = Written(reports[t], r)
                               /\ r.is = "failed" /\ r.start = last'[t].start
         \/ Writing(p, t)'
         \/ /\ last'[t] = last[t]
            /\ ~Writing(p, t)
            /\ \/ reports'[t] = reports[t]
               \/ \E r \in Reports : reports'[t] = Written(reports[t], r)
  <1> DEFINE D == This(p)
             e == engine[p]
             f == engine'[p]
  <1>0. /\ D \in Target /\ TypeOK /\ e \in Engines /\ p \in DOMAIN engine
        /\ last \in [Target -> [start : Instant \cup {None}, is : Outcomes \cup {"unrecorded"}]]
        /\ reports \in [Target -> Seq(Reports)] /\ now \in Instant
    BY TypeInvImplies, ThisType DEF TypeInv, EnginesOK, LastOK, ReportsOK, ClockOK
  <1> USE DEF archives, env, ghosts
  <1>e. ASSUME NEW o, NEW start, Ends(p, o, start), reports' = reports
        PROVE  Writing(p, t)' \/ (last'[t] = last[t] /\ t # D)
    <2>1. f = [e EXCEPT !.at = "record", !.o = o, !.start = start]
      BY <1>0, <1>e DEF Ends
    <2>2. f.at = "record" /\ f.o = o /\ f.start = start /\ f.pos = e.pos /\ This(p)' = D
      BY <1>0, <2>1 DEF Engines, This
    <2>3. last' = [last EXCEPT ![D] = [start |-> start, is |-> o]]
      BY <1>e DEF Ends
    <2>4. t = D => last'[t].start = start /\ o = "failed"
      BY <1>0, <2>3
    <2> QED
      BY <1>0, <2>2, <2>3, <2>4 DEF Writing, At
  <1>w. ASSUME NEW start \in Instant, NEW o \in Outcomes, reports' = WithReport(D, ReportOf(start, o))
        PROVE  /\ ReportOf(start, o) \in Reports
               /\ ReportOf(start, o).start = start /\ ReportOf(start, o).is = o
               /\ reports'[t] = IF t = D THEN Written(reports[t], ReportOf(start, o)) ELSE reports[t]
    <2>1. ReportOf(start, o) \in Reports /\ ReportOf(start, o).start = start /\ ReportOf(start, o).is = o
      BY <1>0, <1>w, ReportType
    <2>2. reports' = [reports EXCEPT ![D] = Written(reports[D], ReportOf(start, o))]
      BY <1>0, <1>w, <2>1, Writes
    <2> QED
      BY <1>0, <2>1, <2>2
  <1>k. "failed" \in Outcomes /\ "failed" # "unrecorded"
    BY DEF Outcomes
  <1> HIDE DEF D, f
  <1>1. CASE /\ e.at # "record"
             /\ \/ \E force \in BOOLEAN : Start(p, force)
                \/ Started(p) \/ Visit(p) \/ Unreachable(p) \/ DueCheck(p) \/ Damped(p)
                \/ Stop(p) \/ Kill(p)
    <2>1. UNCHANGED <<reports, last>>
      BY <1>1 DEF Start, Started, Visit, Unreachable, DueCheck, Damped, Stop, Kill, At
    <2> QED
      BY <1>1, <2>1 DEF Writing, At
  <1>2. CASE \/ DueCheckFails(p) \/ RunThrows(p)
    <2>1. /\ e.at # "record"
          /\ \/ RecordFailed(p, D)
             \/ /\ last' = [last EXCEPT ![D] = [start |-> now, is |-> "unrecorded"]]
                /\ reports' = reports
      BY <1>2 DEF DueCheckFails, RunThrows, At, D
    <2>2. CASE /\ reports' = WithReport(D, ReportOf(now, "failed"))
               /\ last' = [last EXCEPT ![D] = [start |-> now, is |-> "failed"]]
      <3>1. t = D => last'[t].start = now
        BY <1>0, <2>2
      <3>2. t # D => last'[t] = last[t]
        BY <1>0, <2>2
      <3> QED
        BY <1>0, <1>k, <1>w, <2>1, <2>2, <3>1, <3>2 DEF Writing, At
    <2>3. CASE /\ last' = [last EXCEPT ![D] = [start |-> now, is |-> "unrecorded"]]
               /\ reports' = reports
      <3>1. t # D /\ last'[t] = last[t]
        BY <1>0, <1>k, <2>3
      <3> QED
        BY <2>1, <2>3, <3>1 DEF Writing, At
    <2> QED
      BY <2>1, <2>2, <2>3 DEF RecordFailed
  <1>3. CASE Gate(p) \/ GateFails(p) \/ Lock(p) \/ Pipeline(p)
    <2>1. e.at # "record" /\ reports' = reports
      BY <1>3 DEF Gate, GateFails, Lock, Pipeline, At
    <2>2. \/ \E o, start : Ends(p, o, start)
          \/ last' = last
      BY <1>3 DEF Gate, GateFails, Lock, Pipeline
    <2> QED
      BY <1>e, <2>1, <2>2 DEF Writing, At
  <1>4. CASE Record(p)
    <2>1. e.start \in Instant /\ e.o \in Outcomes
      BY <1>0, <1>4 DEF Record, At, TypeInv, EnginesOK, Engines
    <2>2. last' = last /\ (reports' = reports \/ reports' = WithReport(D, ReportOf(e.start, e.o)))
          /\ (e.o = "failed" => reports' = WithReport(D, ReportOf(e.start, e.o)))
      BY <1>4 DEF Record, Repeated, D
    <2>3. CASE reports' = reports
      BY <2>2, <2>3, <1>w, <2>1 DEF Writing, D
    <2>4. CASE reports' = WithReport(D, ReportOf(e.start, e.o))
      BY <2>1, <2>2, <2>4, <1>w DEF Writing, D
    <2> QED
      BY <2>2, <2>3, <2>4
  <1>5. CASE RecordFails(p)
    <2>1. \/ /\ reports' = WithReport(D, ReportOf(now, "failed"))
             /\ last' = [last EXCEPT ![D] = [start |-> now, is |-> "failed"]]
          \/ /\ last' = [last EXCEPT ![D].is = "unrecorded"]
             /\ reports' = reports
      BY <1>5 DEF RecordFails, D
    <2>2. t # D
      => last'[t] = last[t] /\ ~Writing(p, t)
      BY <1>0, <2>1 DEF Writing, D
    <2>3. CASE /\ reports' = WithReport(D, ReportOf(now, "failed"))
               /\ last' = [last EXCEPT ![D] = [start |-> now, is |-> "failed"]]
      <3>1. t = D => last'[t].start = now
        BY <1>0, <2>3
      <3>2. /\ ReportOf(now, "failed") \in Reports
            /\ ReportOf(now, "failed").start = now /\ ReportOf(now, "failed").is = "failed"
            /\ reports'[t] = IF t = D THEN Written(reports[t], ReportOf(now, "failed"))
                             ELSE reports[t]
        BY <1>0, <1>k, <1>w, <2>3
      <3>3. CASE t = D
        BY <3>1, <3>2, <3>3
      <3>4. CASE t # D
        BY <2>2, <3>2, <3>4
      <3> QED
        BY <3>3, <3>4
    <2>4. CASE /\ last' = [last EXCEPT ![D].is = "unrecorded"]
               /\ reports' = reports
      <3>1. t # D
        BY <1>0, <1>k, <2>4
      <3> QED
        BY <2>2, <2>4, <3>1
    <2> QED
      BY <2>1, <2>3, <2>4
  <1>6. CASE e.at = "record" /\ Stop(p)
    <2>1. f = [e EXCEPT !.stop = TRUE] /\ UNCHANGED <<reports, last>>
      BY <1>0, <1>6 DEF Stop, f
    <2>2. f.at = "record" /\ f.o = e.o /\ f.start = e.start /\ f.pos = e.pos
      BY <1>0, <1>6, <2>1 DEF Engines
    <2> QED
      BY <2>1, <2>2 DEF Writing, At, This, f
  <1>7. CASE e.at = "record" /\ Kill(p)
    <2>1. last' = [last EXCEPT ![D].is = "unrecorded"] /\ reports' = reports
      BY <1>7 DEF Kill, At, D
    <2>2. t # D
      BY <1>0, <1>k, <2>1
    <2> QED
      BY <1>0, <2>1, <2>2 DEF Writing, D
  <1>8. e.at = "record" => /\ ~\E force \in BOOLEAN : Start(p, force)
                           /\ ~Started(p) /\ ~Visit(p) /\ ~Unreachable(p) /\ ~DueCheck(p)
                           /\ ~Damped(p)
    BY DEF Start, Started, Visit, Unreachable, DueCheck, Damped, At
  <1> QED
    BY <1>1, <1>2, <1>3, <1>4, <1>5, <1>6, <1>7, <1>8 DEF Acts, Step

LEMMA InitFailed == Init => TypeInv /\ FailedIsKept
  <1> SUFFICES ASSUME Init PROVE TypeInv /\ FailedIsKept
    OBVIOUS
  <1>1. \A t \in Target : last[t].is = "window"
    BY DEF Init
  <1> QED
    BY <1>1, InitType DEF FailedIsKept

LEMMA NextFailed == TypeInv /\ FailedIsKept /\ [Next]_vars => FailedIsKept'
  <1> SUFFICES ASSUME TypeInv, FailedIsKept, [Next]_vars PROVE FailedIsKept'
    OBVIOUS
  <1>1. ASSUME NEW p \in Engine, Acts(p) PROVE FailedIsKept'
    <2> SUFFICES ASSUME NEW t \in Target, last'[t].is = "failed"
                 PROVE  \/ \E q \in Engine : Writing(q, t)'
                        \/ Shows(reports'[t], last'[t].start)
      BY DEF FailedIsKept, Shows
    <2>0. reports[t] \in Seq(Reports) /\ Sorted(reports[t]) /\ Len(reports[t]) <= Kept
      BY DEF TypeInv, ReportsOK
    <2>1. CASE \E r \in Reports : /\ reports'[t] = Written(reports[t], r)
                                  /\ r.is = "failed" /\ r.start = last'[t].start
      <3>1. PICK r \in Reports : /\ reports'[t] = Written(reports[t], r)
                                 /\ r.is = "failed" /\ r.start = last'[t].start
        BY <2>1
      <3>2. Shows(Written(reports[t], r), r.start)
        BY <2>0, <3>1, ShowsNew
      <3> QED
        BY <3>1, <3>2
    <2>2. CASE /\ last'[t] = last[t]
               /\ ~Writing(p, t)
               /\ \/ reports'[t] = reports[t]
                  \/ \E r \in Reports : reports'[t] = Written(reports[t], r)
      <3>1. CASE \E q \in Engine : Writing(q, t)
        <4>1. PICK q \in Engine : Writing(q, t)
          BY <3>1
        <4>2. q # p /\ engine'[q] = engine[q]
          BY <1>1, <2>2, <4>1, ActsBecome
        <4> QED
          BY <2>2, <4>1, <4>2 DEF Writing, At, This
      <3>2. CASE Shows(reports[t], last[t].start)
        <4>1. last[t].start \in Nat
          <5>1. Instant \cup {None} \subseteq Nat
            BY Constants DEF None
          <5> QED
            BY <5>1 DEF TypeInv, LastOK
        <4>2. \A r \in Reports : Shows(Written(reports[t], r), last[t].start)
          BY <2>0, <3>2, <4>1, ShowsStill
        <4> QED
          BY <2>2, <3>2, <4>2
      <3> QED
        BY <2>2, <3>1, <3>2 DEF FailedIsKept
    <2> QED
      BY <1>1, <2>1, <2>2, LastMoves
  <1>2. CASE Wake
    <2>1. UNCHANGED <<reports, last>> /\ \A q \in Engine : At(q, "record") => engine'[q] = engine[q]
      BY <1>2 DEF Wake, At, ghosts, TypeInv, EnginesOK
    <2> QED
      BY <2>1 DEF FailedIsKept, Writing, Shows, At, This
  <1>3. CASE (\E t \in Target : Disk(t)) \/ Tick \/ Calm \/ UNCHANGED vars
    <2>1. UNCHANGED <<reports, last, engine>>
      BY <1>3 DEF Disk, Tick, Calm, vars, ghosts
    <2> QED
      BY <2>1 DEF FailedIsKept, Writing, Shows, At, This
  <1> QED
    BY <1>1, <1>2, <1>3 DEF Next, Acts

LEMMA FailureOnRecord == TypeInv /\ FailedIsKept => FailureShows
  <1> SUFFICES ASSUME TypeInv, FailedIsKept, NEW t \in Target, Latest(t, "failed"),
                      GoBack(t, last[t].start)
               PROVE  Derived(t).error
    BY DEF FailureShows
  <1> DEFINE rs == reports[t]
             b == last[t].start
  <1>0. /\ rs \in Seq(Reports) /\ Sorted(rs) /\ Len(rs) \in Nat
        /\ \A i \in 1..Len(rs) : rs[i].start \in Nat
        /\ b \in Nat
    <2>1. Instant \cup {None} \subseteq Nat
      BY Constants DEF None
    <2>2. b \in Nat
      BY <2>1 DEF TypeInv, LastOK
    <2> QED
      BY <2>2, LenProperties, ElementOfSeq, ReportIs DEF TypeInv, ReportsOK
  <1>1. \E i \in 1..Len(rs) : rs[i].is = "failed" /\ rs[i].start = b
    <2>1. Shows(rs, b)
      BY DEF FailedIsKept, Latest, Recording, Writing
    <2>2. ~(Len(rs) = Kept /\ \A i \in 1..Kept : b <= rs[i].start)
      BY <1>0, Constants DEF GoBack
    <2> QED
      BY <2>1, <2>2 DEF Shows
  <1>2. PICK i \in 1..Len(rs) : rs[i].is = "failed" /\ rs[i].start = b
    BY <1>1
  <1>3. \A k \in 1..Len(rs) : rs[k].is = "ok" => k < i
    <2> SUFFICES ASSUME NEW k \in 1..Len(rs), rs[k].is = "ok", ~(k < i) PROVE FALSE
      OBVIOUS
    <2>1. rs[i].start <= rs[k].start
      BY <1>0 DEF Sorted
    <2>2. rs[k].start < b
      BY DEF Latest
    <2> QED
      BY <1>0, <1>2, <2>1, <2>2
  <1>4. i \in BadOf(rs)
    BY <1>2, <1>3 DEF BadOf, Since
  <1> QED
    BY <1>0, <1>4, DerivedIs, TallyIs

\* A failed attempt shows in `status` once it is on record, for any number of
\* reports kept and any order in which two engines write theirs (recordOutcome,
\* writeTargetReport, deriveBackoff).
THEOREM NoHiddenFailure == Spec => []FailureShows
  <1>1. TypeInv /\ FailedIsKept /\ [Next]_vars => (TypeInv /\ FailedIsKept)'
    BY NextType, NextFailed
  <1> QED
    BY <1>1, InitFailed, FailureOnRecord, PTL DEF Spec

-----------------------------------------------------------------------------
(***************************************************************************)
(* A lone daemon remembers what a restarted one would read                 *)
(***************************************************************************)
\* What one more report changes.
LEMMA TallyGrows ==
  ASSUME NEW s \in Seq(Reports), NEW r \in Reports, NEW new \in Seq(Reports),
         Len(new) = Len(s) + 1, new[Len(s) + 1] = r, \A i \in 1..Len(s) : new[i] = s[i]
  PROVE  /\ r.is = "ok" => Tally(new).failures = 0 /\ Tally(new).anchor = None
         /\ r.is = "failed" => /\ Tally(new).failures = Tally(s).failures + 1
                               /\ Tally(new).anchor = r.failedAt
         /\ r.is \in {"lock-held", "disk-low"} => /\ Tally(new).failures = Tally(s).failures
                                                  /\ Tally(new).anchor = r.failedAt
                                                  /\ Tally(new).error
         /\ r.is \in {"aborted", "window"} => /\ Tally(new).failures = Tally(s).failures
                                              /\ Tally(new).anchor = Tally(s).anchor
                                              /\ Tally(new).error = Tally(s).error
  <1> DEFINE n == Len(s)
  <1>0. n \in Nat /\ n + 1 \in 1..(n + 1) /\ \A i \in 1..n : i \in 1..(n + 1) /\ i < n + 1
    BY LenProperties
  <1>1. CASE r.is = "ok"
    <2>1. Since(new) = {}
      <3>1. \A i \in 1..(n + 1) : ~(n + 1 < i)
        BY <1>0
      <3> QED
        BY <1>0, <1>1, <3>1 DEF Since
    <2>2. BadOf(new) = {} /\ FailedOf(new) = {}
      BY <2>1 DEF BadOf, FailedOf
    <2>3. Cardinality({}) = 0
      BY FS_EmptySet
    <2> QED
      BY <1>1, <2>2, <2>3, TallyIs
  <1>2. CASE r.is # "ok"
    <2>1. Since(new) = Since(s) \cup {n + 1}
      <3>1. \A k \in 1..(n + 1) : new[k].is = "ok" <=> k \in 1..n /\ s[k].is = "ok"
        <4>1. \A k \in 1..(n + 1) : k \in 1..n \/ k = n + 1
          BY <1>0
        <4>2. n + 1 \notin 1..n
          BY <1>0
        <4> QED
          BY <1>2, <4>1, <4>2
      <3>2. \A k \in 1..n : k < n + 1 /\ k \in 1..(n + 1)
        BY <1>0
      <3>3. \A k \in 1..(n + 1) : k = n + 1 \/ k \in 1..n
        BY <1>0
      <3> QED
        BY <1>0, <3>1, <3>2, <3>3 DEF Since
    <2>2. Since(s) \subseteq 1..n /\ n + 1 \notin Since(s)
      BY <1>0 DEF Since
    <2>3. BadOf(new) = BadOf(s) \cup (IF r.is \in {"failed", "lock-held", "disk-low"} THEN {n + 1} ELSE {})
      BY <2>1, <2>2 DEF BadOf
    <2>4. FailedOf(new) = FailedOf(s) \cup (IF r.is = "failed" THEN {n + 1} ELSE {})
      BY <2>1, <2>2 DEF FailedOf
    <2>5. r.is = "failed" => Tally(new).failures = Tally(s).failures + 1
      <3>1. n + 1 \notin FailedOf(s) /\ IsFiniteSet(FailedOf(s))
        BY <2>2, TallyIs DEF FailedOf
      <3>2. Cardinality(FailedOf(s) \cup {n + 1}) = Cardinality(FailedOf(s)) + 1
        BY <3>1, FS_AddElement
      <3> QED
        BY <2>4, <3>2, TallyIs
    <2>6. r.is # "failed" => Tally(new).failures = Tally(s).failures
      BY <2>4, TallyIs
    <2>7. r.is \in {"failed", "lock-held", "disk-low"} => Tally(new).anchor = r.failedAt /\ Tally(new).error
      <3> SUFFICES ASSUME r.is \in {"failed", "lock-held", "disk-low"}
                   PROVE  Tally(new).anchor = r.failedAt /\ Tally(new).error
        OBVIOUS
      <3>1. n + 1 \in BadOf(new) /\ BadOf(new) \subseteq 1..(n + 1)
        BY <1>0, <2>2, <2>3 DEF BadOf
      <3>2. PICK i \in BadOf(new) : /\ \A k \in BadOf(new) : k <= i
                                    /\ Tally(new).anchor = new[i].failedAt
        BY <3>1, TallyIs
      <3>3. i = n + 1
        BY <1>0, <3>1, <3>2
      <3> QED
        BY <3>1, <3>2, <3>3, TallyIs
    <2>8. r.is \in {"aborted", "window"} => Tally(new).anchor = Tally(s).anchor /\ Tally(new).error = Tally(s).error
      <3> SUFFICES ASSUME r.is \in {"aborted", "window"}
                   PROVE  Tally(new).anchor = Tally(s).anchor /\ Tally(new).error = Tally(s).error
        OBVIOUS
      <3>1. BadOf(new) = BadOf(s)
        BY <2>3
      <3>2. BadOf(s) \subseteq 1..n
        BY DEF BadOf, Since
      <3>3. (CHOOSE i \in BadOf(s) : \A k \in BadOf(s) : k <= i) \in 1..n \/ BadOf(s) = {}
        <4>1. BadOf(s) # {} => \E m \in BadOf(s) : \A x \in BadOf(s) : x <= m
          BY <1>0, <3>2, LastExists
        <4> QED
          BY <3>2, <4>1
      <3> QED
        BY <3>1, <3>3 DEF Tally
    <2> QED
      BY <1>2, <2>5, <2>6, <2>7, <2>8
  <1> QED
    BY <1>1, <1>2

\* A report no older than the others is the last.
LEMMA WrittenLast ==
  ASSUME NEW s \in Seq(Reports), NEW r \in Reports, Len(s) < Kept,
         \A i \in 1..Len(s) : s[i].start <= r.start
  PROVE  LET new == Written(s, r)
         IN  /\ new \in Seq(Reports) /\ Len(new) = Len(s) + 1
             /\ new[Len(s) + 1] = r /\ \A i \in 1..Len(s) : new[i] = s[i]
  <1> DEFINE new == Written(s, r)
             k == Place(s, r)
  <1>0. Len(s) \in Nat /\ r.start \in Nat /\ \A i \in 1..Len(s) : s[i].start \in Nat
    BY LenProperties, ReportIs, ElementOfSeq
  <1>1. k = Len(s) + 1
    <2>1. k \in 1..(Len(s) + 1) /\ (k <= Len(s) => s[k].start > r.start)
      BY PlaceIs
    <2> HIDE DEF k
    <2>2. k <= Len(s) => k \in 1..Len(s)
      BY <1>0, <2>1
    <2>3. ~(k <= Len(s))
      BY <1>0, <2>1, <2>2
    <2> QED
      BY <1>0, <2>1, <2>3
  <1>2. /\ new \in Seq(Reports) /\ Len(new) = Len(s) + 1
        /\ \A i \in 1..(Len(s) + 1) : new[i] = Inserted(s, r)[i]
    <2>1. new \in Seq(Reports) /\ Len(new) = Len(s) + 1
      BY WrittenIs
    <2>2. \A i \in 1..Len(new) : new[i] = Inserted(s, r)[i]
      BY WrittenIs
    <2> QED
      BY <2>1, <2>2
  <1>3. \A i \in 1..(Len(s) + 1) :
           Inserted(s, r)[i] = IF i < k THEN s[i] ELSE IF i = k THEN r ELSE s[i - 1]
    BY InsertedIs
  <1> HIDE DEF new, k
  <1>4. \A i \in 1..Len(s) : i \in 1..(Len(s) + 1) /\ i < Len(s) + 1
    BY <1>0
  <1>5. Len(s) + 1 \in 1..(Len(s) + 1) /\ ~(Len(s) + 1 < Len(s) + 1)
    BY <1>0
  <1> QED
    BY <1>1, <1>2, <1>3, <1>4, <1>5 DEF new

\* m remembers of a target what its reports s tell.
Tells(s, m) ==
    /\ m.failures = Tally(s).failures
    /\ m.anchor = Tally(s).anchor \/ (Tally(s).anchor = None /\ Tally(s).error)

LEMMA TellsStill ==
  ASSUME TypeInv, NEW s \in Seq(Reports), NEW m \in Memories, NEW n \in Memories,
         NEW o \in Outcomes, NEW start \in Instant,
         Len(s) < Kept, \A i \in 1..Len(s) : s[i].start <= start,
         Tells(s, m), n.failures = Noted(m, o).failures, n.anchor = Noted(m, o).anchor
  PROVE  Tells(Written(s, ReportOf(start, o)), n)
  <1> DEFINE r == ReportOf(start, o)
             new == Written(s, r)
  <1>1. /\ r \in Reports /\ r.start = start /\ r.is = o
        /\ r.failedAt = IF o = "failed" THEN now ELSE None
    BY TypeInvImplies, ReportType DEF ReportOf
  <1>2. /\ new \in Seq(Reports) /\ Len(new) = Len(s) + 1
        /\ new[Len(s) + 1] = r /\ \A i \in 1..Len(s) : new[i] = s[i]
    BY <1>1, WrittenLast
  <1> HIDE DEF r, new
  <1>3. /\ o = "ok" => Tally(new).failures = 0 /\ Tally(new).anchor = None
        /\ o = "failed" => /\ Tally(new).failures = Tally(s).failures + 1
                           /\ Tally(new).anchor = now
        /\ o \in {"lock-held", "disk-low"} => /\ Tally(new).failures = Tally(s).failures
                                              /\ Tally(new).anchor = None
                                              /\ Tally(new).error
        /\ o \in {"aborted", "window"} => /\ Tally(new).failures = Tally(s).failures
                                          /\ Tally(new).anchor = Tally(s).anchor
                                          /\ Tally(new).error = Tally(s).error
    BY <1>1, <1>2, TallyGrows
  <1>4. /\ o = "ok" => n.failures = 0 /\ n.anchor = None
        /\ o = "failed" => n.failures = m.failures + 1 /\ n.anchor = now
        /\ o \notin {"ok", "failed"} => n.failures = m.failures /\ n.anchor = m.anchor
    BY DEF Noted, Memories
  <1>5. o \in {"ok", "failed", "aborted", "window", "disk-low", "lock-held"}
    BY DEF Outcomes
  <1> QED
    BY <1>3, <1>4, <1>5 DEF Tells, new, r

\* The command line never ran; the reports are in the past, also of the run that
\* will report next; and the memory tells what the reports do.
Alone ==
    passes = 0 =>
        /\ At("cli", "down")
        /\ \A t \in Target : \A i \in 1..Len(reports[t]) :
              /\ reports[t][i].start <= now
              /\ Daemon.at \in Running /\ This("daemon") = t
                    => reports[t][i].start <= Daemon.start
        /\ Daemon.at \notin {"down", "starting"} =>
              \A t \in Target : Len(reports[t]) < Kept => Tells(reports[t], mem[t])

\* What a step of the daemon has to do with the reports of t and its memory of t.
LEMMA DaemonWrites ==
  ASSUME TypeInv, Acts("daemon"), NEW t \in Target
  PROVE  LET d == engine["daemon"]
             same(o) == /\ mem'[t].failures = Noted(mem[t], o).failures
                        /\ mem'[t].anchor = Noted(mem[t], o).anchor
         IN  \/ /\ reports'[t] = reports[t]
                /\ \/ mem'[t].failures = mem[t].failures /\ mem'[t].anchor = mem[t].anchor
                   \/ engine'["daemon"].at \in {"down", "starting"}
                   \/ mem'[t] = Rehydrated(t)
             \/ /\ d.at \in {"check", "gate", "record"} /\ t = This("daemon")
                /\ engine'["daemon"].at \notin Running
                /\ \E start \in Instant, o \in Outcomes :
                      /\ start = now \/ (start = d.start /\ d.at = "record")
                      /\ reports'[t] = Written(reports[t], ReportOf(start, o))
                      /\ same(o)
  <1> DEFINE p == "daemon"
             D == This(p)
             d == engine[p]
             same(o) == /\ mem'[t].failures = Noted(mem[t], o).failures
                        /\ mem'[t].anchor = Noted(mem[t], o).anchor
  <1> USE DEF archives, env, ghosts
  <1>0. /\ D \in Target /\ p \in Engine /\ Memory(p, D) = mem[D] /\ mem \in [Target -> Memories]
        /\ now \in Instant /\ d \in Engines /\ p \in DOMAIN engine
        /\ reports \in [Target -> Seq(Reports)]
    BY TypeInvImplies, ThisType, DaemonIs DEF TypeInv, MemOK, Memory, EnginesOK, ClockOK, ReportsOK
  <1>o. {"failed", "aborted", "window", "disk-low", "lock-held", "ok"} \subseteq Outcomes
    BY DEF Outcomes
  <1> HIDE DEF D
  <1>r. ASSUME NEW m, Remember(p, D, m)
        PROVE  mem'[t] = IF t = D THEN m ELSE mem[t]
    BY <1>0, <1>r DEF Remember
  <1>w. ASSUME NEW start \in Instant, NEW o \in Outcomes, reports' = WithReport(D, ReportOf(start, o))
        PROVE  reports'[t] = IF t = D THEN Written(reports[t], ReportOf(start, o)) ELSE reports[t]
    <2>1. ReportOf(start, o) \in Reports
      BY TypeInvImplies, ReportType
    <2>2. reports' = [reports EXCEPT ![D] = Written(reports[D], ReportOf(start, o))]
      BY <1>0, <1>w, <2>1, Writes
    <2> QED
      BY <1>0, <2>2
  <1>n. ASSUME NextTarget(p) PROVE engine'[p].at \notin Running
    BY <1>0, <1>n, AfterTargetType DEF NextTarget, Running
  <1>m. ASSUME NEW m \in Memories, NEW n \in Memories, NEW o,
               n.failures = m.failures, n.anchor = m.anchor
        PROVE  Noted(n, o).failures = Noted(m, o).failures /\ Noted(n, o).anchor = Noted(m, o).anchor
    BY <1>m DEF Noted, Memories
  <1>b. ASSUME NEW o PROVE /\ Remembered(mem[D], o) \in Memories
                           /\ Remembered(mem[D], o).failures = mem[D].failures
                           /\ Remembered(mem[D], o).anchor = mem[D].anchor
    BY <1>0 DEF Remembered, Memories
  <1>c. ASSUME NEW m \in Memories, NEW o, NEW start
        PROVE  Cached(m, o, start).failures = m.failures /\ Cached(m, o, start).anchor = m.anchor
    BY DEF Cached, Memories
  <1>1. CASE \/ \E force \in BOOLEAN : Start(p, force)
             \/ Unreachable(p) \/ Damped(p) \/ Gate(p) \/ GateFails(p) \/ Lock(p) \/ Stop(p)
    BY <1>1 DEF Start, Unreachable, Damped, Gate, GateFails, Lock, Stop
  <1>2. CASE Started(p)
    <2>1. reports' = reports /\ (mem' = mem \/ mem' = [u \in Target |-> Rehydrated(u)])
      BY <1>2 DEF Started
    <2> QED
      BY <2>1
  <1>3. CASE Visit(p) \/ Kill(p)
    <2>1. reports' = reports /\ (mem' = mem \/ engine'[p] = Down)
      BY <1>0, <1>3 DEF Visit, Kill
    <2> QED
      BY <2>1 DEF Down
  <1>4. CASE DueCheck(p)
    <2>1. /\ reports' = reports
          /\ \E known : Remember(p, D, [mem[D] EXCEPT !.cache = known])
      BY <1>0, <1>4 DEF DueCheck, D
    <2>2. \A known : LET m == [mem[D] EXCEPT !.cache = known]
                     IN  m.failures = mem[D].failures /\ m.anchor = mem[D].anchor
      BY <1>0 DEF Memories
    <2> QED
      BY <1>r, <2>1, <2>2
  <1>5. CASE DueCheckFails(p) \/ RunThrows(p)
    <2>1. RecordFailed(p, D) /\ d.at \in {"check", "gate"} /\ engine'[p].at \notin Running
      BY <1>5, <1>n DEF DueCheckFails, RunThrows, At, D
    <2>2. CASE UNCHANGED <<reports, mem>>
      BY <2>2
    <2>3. CASE /\ reports' = WithReport(D, ReportOf(now, "failed"))
               /\ Remember(p, D, Noted(Memory(p, D), "failed"))
      <3>1. reports'[t] = IF t = D THEN Written(reports[t], ReportOf(now, "failed")) ELSE reports[t]
        BY <1>0, <1>o, <1>w, <2>3
      <3>2. mem'[t] = IF t = D THEN Noted(mem[t], "failed") ELSE mem[t]
        BY <1>0, <1>r, <2>3
      <3> QED
        BY <1>0, <1>o, <2>1, <3>1, <3>2 DEF D
    <2> QED
      BY <2>1, <2>2, <2>3 DEF RecordFailed
  <1>6. CASE Pipeline(p)
    <2>1. reports' = reports /\ (mem' = mem \/ \E b : Remember(p, D, [mem[D] EXCEPT !.low = b]))
      BY <1>0, <1>6 DEF Pipeline, D
    <2>2. \A b : LET m == [mem[D] EXCEPT !.low = b]
                 IN  m.failures = mem[D].failures /\ m.anchor = mem[D].anchor
      BY <1>0 DEF Memories
    <2> QED
      BY <1>r, <2>1, <2>2
  <1>7. CASE Record(p)
    <2> DEFINE m == Remembered(mem[D], d.o)
    <2>1. d.start \in Instant /\ d.o \in Outcomes /\ d.at = "record" /\ engine'[p].at \notin Running
      BY <1>0, <1>7, <1>n DEF Record, At, TypeInv, EnginesOK, Engines
    <2>2. /\ m \in Memories /\ m.failures = mem[D].failures /\ m.anchor = mem[D].anchor
          /\ Noted(m, d.o) \in Memories
          /\ Noted(m, d.o).failures = Noted(mem[D], d.o).failures
          /\ Noted(m, d.o).anchor = Noted(mem[D], d.o).anchor
      <3>1. m \in Memories /\ m.failures = mem[D].failures /\ m.anchor = mem[D].anchor
        BY <1>b
      <3> HIDE DEF m
      <3>2. Noted(m, d.o) \in Memories
        BY <2>1, <3>1, TypeInvImplies, NotedType
      <3> QED
        BY <1>0, <1>m, <3>1, <3>2
    <2>3. \/ reports' = reports /\ Remember(p, D, Cached(m, d.o, d.start))
          \/ /\ reports' = WithReport(D, ReportOf(d.start, d.o))
             /\ Remember(p, D, Cached(Noted(m, d.o), d.o, d.start))
      BY <1>0, <1>7 DEF Record, D
    <2> HIDE DEF m, d
    <2>4. CASE reports' = reports /\ Remember(p, D, Cached(m, d.o, d.start))
      BY <1>c, <1>r, <2>2, <2>4
    <2>5. CASE /\ reports' = WithReport(D, ReportOf(d.start, d.o))
               /\ Remember(p, D, Cached(Noted(m, d.o), d.o, d.start))
      <3>1. reports'[t] = IF t = D THEN Written(reports[t], ReportOf(d.start, d.o)) ELSE reports[t]
        BY <1>w, <2>1, <2>5
      <3>2. t = D => same(d.o)
        BY <1>c, <1>r, <2>2, <2>5
      <3>3. t # D => mem'[t] = mem[t]
        BY <1>r, <2>5
      <3> HIDE DEF same
      <3>4. CASE t = D
        BY <2>1, <3>1, <3>2, <3>4 DEF D, d, same
      <3> QED
        BY <3>1, <3>3, <3>4
    <2> QED
      BY <2>3, <2>4, <2>5
  <1>8. CASE RecordFails(p)
    <2> DEFINE m == Remembered(mem[D], d.o)
    <2>1. d.at = "record" /\ engine'[p].at \notin Running
      BY <1>0, <1>8, <1>n DEF RecordFails, At
    <2>2. /\ m \in Memories /\ m.failures = mem[D].failures /\ m.anchor = mem[D].anchor
          /\ Noted(m, "failed").failures = Noted(mem[D], "failed").failures
          /\ Noted(m, "failed").anchor = Noted(mem[D], "failed").anchor
      <3>1. m \in Memories /\ m.failures = mem[D].failures /\ m.anchor = mem[D].anchor
        BY <1>b
      <3> HIDE DEF m
      <3> QED
        BY <1>0, <1>m, <3>1
    <2>3. \/ /\ reports' = WithReport(D, ReportOf(now, "failed"))
             /\ Remember(p, D, Noted(m, "failed"))
          \/ reports' = reports /\ Remember(p, D, m)
      BY <1>0, <1>8 DEF RecordFails, D
    <2> HIDE DEF m, d
    <2>4. CASE reports' = reports /\ Remember(p, D, m)
      BY <1>r, <2>2, <2>4
    <2>5. CASE /\ reports' = WithReport(D, ReportOf(now, "failed"))
               /\ Remember(p, D, Noted(m, "failed"))
      <3>1. reports'[t] = IF t = D THEN Written(reports[t], ReportOf(now, "failed")) ELSE reports[t]
        BY <1>0, <1>o, <1>w, <2>5
      <3>2. t = D => same("failed")
        BY <1>r, <2>2, <2>5
      <3>3. t # D => mem'[t] = mem[t]
        BY <1>r, <2>5
      <3> HIDE DEF same
      <3>4. CASE t = D
        BY <1>0, <1>o, <2>1, <3>1, <3>2, <3>4 DEF D, d, same
      <3> QED
        BY <3>1, <3>3, <3>4
    <2> QED
      BY <2>3, <2>4, <2>5
  <1> QED
    BY <1>1, <1>2, <1>3, <1>4, <1>5, <1>6, <1>7, <1>8 DEF Acts, Step

\* The daemon reads the reports before it does anything else.
LEMMA DaemonStarts ==
  ASSUME TypeInv, Acts("daemon"), Daemon.at \in {"down", "starting"},
         Daemon'.at \notin {"down", "starting"}, NEW t \in Target
  PROVE  reports'[t] = reports[t] /\ mem'[t] = Rehydrated(t)
  <1> DEFINE p == "daemon"
             d == engine[p]
             f == engine'[p]
  <1>0. d \in Engines /\ p \in DOMAIN engine
    BY DaemonIs DEF TypeInv, EnginesOK
  <1>1. ASSUME NEW force \in BOOLEAN, Start(p, force) PROVE FALSE
    <2>1. f = [Down EXCEPT !.at = "starting", !.force = force]
      BY <1>0, <1>1 DEF Start
    <2> QED
      BY <2>1 DEF Down, Daemon
  <1>2. ~Stop(p)
    <2>1. Stop(p) => f = [d EXCEPT !.stop = TRUE]
      BY <1>0 DEF Stop
    <2> QED
      BY <1>0, <2>1 DEF Engines, Daemon
  <1>3. ~Kill(p)
    <2>1. Kill(p) => f = Down
      BY <1>0 DEF Kill
    <2> QED
      BY <2>1 DEF Down, Daemon
  <1>4. Started(p)
    BY <1>1, <1>2, <1>3 DEF Acts, Step, Daemon, Visit, Unreachable, DueCheck, DueCheckFails, Damped,
                            Gate, GateFails, RunThrows, Lock, Pipeline, Record, RecordFails, At
  <1>5. ~d.stop
    <2>1. d.stop => f = Down
      BY <1>0, <1>4 DEF Started
    <2> QED
      BY <2>1 DEF Down, Daemon
  <1>6. reports' = reports /\ mem' = [u \in Target |-> Rehydrated(u)]
    BY <1>4, <1>5 DEF Started
  <1> QED
    BY <1>6

LEMMA InitAlone == Init => Alone
  <1> SUFFICES ASSUME Init PROVE Alone
    OBVIOUS
  <1>1. /\ \A p \in Engine : engine[p] = Down
        /\ \A t \in Target : reports[t] = <<>>
        /\ "cli" \in Engine /\ "daemon" \in Engine
    BY DEF Init, Engine
  <1>2. Len(<<>>) = 0 /\ \A t \in Target : 1..Len(reports[t]) = {}
    BY <1>1, EmptySeq
  <1> QED
    BY <1>1, <1>2, DownType DEF Alone, At, Daemon, Running

\* As long as the command line does not run nobody but the daemon acts.
LEMMA AloneActs ==
  ASSUME TypeInv, Alone, passes' = 0, NEW p \in Engine, Acts(p)
  PROVE  passes = 0 /\ p = "daemon"
  <1>1. passes \in Nat
    BY Constants DEF TypeInv, ClockOK
  <1>2. passes = 0
    <2>1. passes' = passes \/ passes' = passes + 1
      BY DEF Acts, Step, Start, Stop, Kill, Started, Visit, Unreachable, DueCheck, DueCheckFails,
             Damped, Gate, GateFails, RunThrows, Lock, Pipeline, Record, RecordFails, env
    <2> QED
      BY <1>1, <2>1
  <1>3. At("cli", "down")
    BY <1>2 DEF Alone
  <1>4. p # "cli"
    <2>1. \A force \in BOOLEAN : ~Start("cli", force)
      BY <1>1 DEF Start
    <2> QED
      BY <1>3, <2>1 DEF Acts, Step, Stop, Kill, Started, Visit, Unreachable, DueCheck, DueCheckFails,
             Damped, Gate, GateFails, RunThrows, Lock, Pipeline, Record, RecordFails, At
  <1> QED
    BY <1>2, <1>4, DaemonIs

LEMMA ActsAlone ==
  ASSUME VainInv, Alone, NEW p \in Engine, Acts(p), passes' = 0
  PROVE  Alone'
  <1> USE DEF VainInv
  <1> DEFINE d == engine["daemon"]
             f == engine'["daemon"]
             D == This("daemon")
  <1>0. /\ TypeInv' /\ TimesOK' /\ now' = now /\ now \in Nat
        /\ passes = 0 /\ p = "daemon" /\ "daemon" \in Engine /\ "cli" \in Engine
        /\ D \in Target
    BY NextType, ActsTimes, ActsBecome, AloneActs, Times, DaemonIs, TypeInvImplies, ThisType
       DEF Acts, Next, Engine
  <1>1. At("cli", "down")'
    BY <1>0, ActsBecome DEF Alone, At
  <1> HIDE DEF D
  <1>2. ASSUME NEW t \in Target
        PROVE  /\ reports[t] \in Seq(Reports) /\ Sorted(reports[t]) /\ Len(reports[t]) <= Kept
               /\ Len(reports[t]) \in Nat /\ mem[t] \in Memories /\ mem'[t] \in Memories
               /\ \A i \in 1..Len(reports[t]) :
                     reports[t][i].start \in Nat /\ reports[t][i].start <= now
    <2>1. reports[t] \in Seq(Reports)
      BY DEF TypeInv, ReportsOK
    <2>2. \A i \in 1..Len(reports[t]) : reports[t][i].start \in Nat
      BY <2>1, ElementOfSeq, ReportIs
    <2> QED
      BY <1>0, <2>1, <2>2, LenProperties DEF TypeInv, ReportsOK, MemOK, Alone
  \* The reports stay in the past.
  <1>3. ASSUME NEW t \in Target, NEW start \in Instant, NEW o \in Outcomes,
               start = now \/ (start = d.start /\ d.at = "record"),
               reports'[t] = Written(reports[t], ReportOf(start, o))
        PROVE  \A i \in 1..Len(reports'[t]) : reports'[t][i].start <= now
    <2>1. ReportOf(start, o) \in Reports /\ ReportOf(start, o).start = start
      BY TypeInvImplies, ReportType
    <2>2. start <= now
      BY <1>0, <1>3 DEF TimesOK, Running
    <2>3. \A i \in 1..Len(reports'[t]) :
             reports'[t][i] = ReportOf(start, o) \/ Has(reports[t], reports'[t][i])
      BY <1>2, <1>3, <2>1, WrittenHas
    <2> QED
      BY <1>2, <2>1, <2>2, <2>3 DEF Has
  <1>4. ASSUME NEW t \in Target, NEW i \in 1..Len(reports'[t])
        PROVE  reports'[t][i].start <= now
    <2>1. CASE reports'[t] = reports[t]
      BY <1>2, <2>1
    <2> QED
      BY <1>0, <1>3, <1>4, <2>1, DaemonWrites
  <1>5. ASSUME NEW t \in Target, NEW i \in 1..Len(reports'[t]), f.at \in Running, This("daemon")' = t
        PROVE  reports'[t][i].start <= f.start
    <2>1. reports'[t] = reports[t]
      BY <1>0, <1>5, DaemonWrites DEF Daemon, Running
    <2>2. f.start = now \/ (d.at \in Running /\ f.start = d.start /\ f.pos = d.pos)
      BY <1>0, <1>5, Moves DEF Running, Lock, Pipeline, At
    <2>3. CASE f.start = now
      BY <1>4, <1>5, <2>3
    <2>4. CASE d.at \in Running /\ f.start = d.start /\ f.pos = d.pos
      BY <1>0, <1>5, <2>1, <2>4 DEF Alone, This, Daemon
    <2> QED
      BY <2>2, <2>3, <2>4
  <1>6. ASSUME NEW t \in Target, f.at \notin {"down", "starting"}, Len(reports'[t]) < Kept
        PROVE  Tells(reports'[t], mem'[t])
    <2>r. mem'[t] = Rehydrated(t) => Tells(reports[t], mem'[t])
      BY RehydratedType, DerivedIs, TypeInvImplies DEF Tells
    <2>1. CASE d.at \in {"down", "starting"}
      BY <1>0, <1>6, <2>r, <2>1, DaemonStarts DEF Daemon
    <2>2. CASE d.at \notin {"down", "starting"}
      <3>1. CASE reports'[t] = reports[t]
        <4>1. Tells(reports[t], mem[t])
          BY <1>0, <1>6, <2>2, <3>1 DEF Alone, Daemon
        <4>2. \/ mem'[t].failures = mem[t].failures /\ mem'[t].anchor = mem[t].anchor
              \/ mem'[t] = Rehydrated(t)
              \/ \E start \in Instant, o \in Outcomes :
                      /\ start = now \/ (start = d.start /\ d.at = "record")
                      /\ t = This("daemon") /\ d.at \in {"check", "gate", "record"}
                      /\ reports'[t] = Written(reports[t], ReportOf(start, o))
                      /\ mem'[t].failures = Noted(mem[t], o).failures
                      /\ mem'[t].anchor = Noted(mem[t], o).anchor
          BY <1>0, <1>6, DaemonWrites
        <4>3. \A start \in Instant, o \in Outcomes :
                 reports'[t] # Written(reports[t], ReportOf(start, o))
          <5> SUFFICES ASSUME NEW start \in Instant, NEW o \in Outcomes
                       PROVE  reports[t] # Written(reports[t], ReportOf(start, o))
            BY <3>1
          <5>1. ReportOf(start, o) \in Reports
            BY TypeInvImplies, ReportType
          <5>2. Len(Written(reports[t], ReportOf(start, o))) = Len(reports[t]) + 1
            BY <1>2, <1>6, <3>1, <5>1, WrittenIs
          <5> QED
            BY <1>2, <5>2
        <4> QED
          BY <2>r, <3>1, <4>1, <4>2, <4>3 DEF Tells
      <3>2. CASE reports'[t] # reports[t]
        <4>1. PICK start \in Instant, o \in Outcomes :
                      /\ start = now \/ (start = d.start /\ d.at = "record")
                      /\ t = This("daemon") /\ d.at \in {"check", "gate", "record"}
                      /\ reports'[t] = Written(reports[t], ReportOf(start, o))
                      /\ mem'[t].failures = Noted(mem[t], o).failures
                      /\ mem'[t].anchor = Noted(mem[t], o).anchor
          BY <1>0, <3>2, DaemonWrites
        <4>2. ReportOf(start, o) \in Reports
          BY TypeInvImplies, ReportType
        <4>3. Len(reports[t]) < Kept
          <5>1. Len(reports'[t]) = IF Len(reports[t]) < Kept THEN Len(reports[t]) + 1
                                   ELSE Len(reports[t])
            BY <1>2, <4>1, <4>2, WrittenIs
          <5> QED
            BY <1>2, <1>6, <5>1, Constants
        <4>4. \A i \in 1..Len(reports[t]) : reports[t][i].start <= start
          BY <1>0, <1>2, <4>1 DEF Alone, Daemon, Running
        <4>5. Tells(reports[t], mem[t])
          BY <1>0, <4>1, <4>3 DEF Alone, Daemon
        <4>6. reports[t] \in Seq(Reports) /\ mem[t] \in Memories /\ mem'[t] \in Memories
          BY <1>2
        <4>7. Tells(Written(reports[t], ReportOf(start, o)), mem'[t])
          BY <4>1, <4>3, <4>4, <4>5, <4>6, TellsStill
        <4> QED
          BY <4>1, <4>7
      <3> QED
        BY <3>1, <3>2
    <2> QED
      BY <2>1, <2>2
  <1> QED
    BY <1>0, <1>1, <1>4, <1>5, <1>6 DEF Alone, Daemon, Tells

LEMMA NextAlone == VainInv /\ Alone /\ [Next]_vars => Alone'
  <1> SUFFICES ASSUME VainInv, Alone, [Next]_vars, passes' = 0 PROVE Alone'
    BY DEF Alone
  <1> USE DEF VainInv
  <1>1. ASSUME NEW p \in Engine, Acts(p) PROVE Alone'
    BY <1>1, ActsAlone
  <1>2. CASE Wake
    <2>1. /\ UNCHANGED <<reports, now, passes>> /\ engine'["cli"] = engine["cli"]
          /\ engine'["daemon"].at \in {"down", "visit"} /\ At("daemon", "sleep")
          /\ (mem' = mem \/ engine'["daemon"].at = "down")
      <3> DEFINE d == engine["daemon"]
                 e == IF d.stop THEN Down ELSE [d EXCEPT !.at = "visit", !.pos = 1]
      <3>1. engine' = [engine EXCEPT !["daemon"] = e] /\ d \in Engines
        BY <1>2, DaemonIs DEF Wake, TypeInv, EnginesOK
      <3>2. e.at = IF d.stop THEN "down" ELSE "visit"
        BY <3>1 DEF Down, Engines
      <3> HIDE DEF e
      <3>3. engine'["daemon"] = e /\ engine'["cli"] = engine["cli"]
        BY <3>1, DaemonIs DEF TypeInv, EnginesOK, Engine
      <3> QED
        BY <1>2, <3>2, <3>3 DEF Wake, env
    <2> QED
      BY <2>1 DEF Alone, At, Daemon, Running, Tells
  <1>3. CASE Tick
    <2>1. UNCHANGED <<reports, engine, mem, passes>> /\ now' = now + 1
      BY <1>3 DEF Tick
    <2>2. \A t \in Target : \A i \in 1..Len(reports[t]) : reports[t][i].start \in Nat
      BY ElementOfSeq, ReportIs DEF TypeInv, ReportsOK
    <2>3. \A t \in Target : \A i \in 1..Len(reports[t]) : reports[t][i].start <= now + 1
      BY <2>1, <2>2, Times DEF Alone
    <2> QED
      BY <2>1, <2>3 DEF Alone, At, Daemon, This, Tells
  <1>4. CASE (\E t \in Target : Disk(t)) \/ Calm \/ UNCHANGED vars
    <2>1. UNCHANGED <<reports, engine, mem, passes, now>>
      BY <1>4 DEF Disk, Calm, vars, env
    <2> QED
      BY <2>1 DEF Alone, At, Daemon, This, Tells
  <1> QED
    BY <1>1, <1>2, <1>3, <1>4 DEF Next, Acts

LEMMA AloneAgrees == TypeInv /\ Alone => BackoffAgrees
  BY DerivedIs DEF BackoffAgrees, Alone, Daemon, Tells

\* What a lone daemon remembers of a target's failures is what its reports tell,
\* through every fault, stop, kill and restart (BackoffTracker, deriveBackoff).
THEOREM MemoryIsTheRecord == Spec => []BackoffAgrees
  <1>1. VainInv /\ Alone /\ [Next]_vars => (VainInv /\ Alone)'
    BY NextVain, NextAlone
  <1>2. VainInv /\ Alone => BackoffAgrees
    BY AloneAgrees DEF VainInv
  <1> QED
    BY <1>1, <1>2, InitVain, InitAlone, PTL DEF Spec
=============================================================================
