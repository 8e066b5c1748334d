------------------------ MODULE ReplayScheduleProofs ------------------------
(***************************************************************************)
(* Theorems about ReplaySchedule for any number of threads, any recorded   *)
(* programs and interleavings, and whichever threads diverge: the fresh    *)
(* events are the recorded ones, and while no thread is failed every       *)
(* thread gets back the inputs that were its own.                          *)
(***************************************************************************)
EXTENDS ReplaySchedule, FiniteSetTheorems, WellFoundedInduction, TLAPS

\* The schedule is passed entry by entry: a thread that writes is the one whose event is
\* next, and nobody can take the entry away from it.
Scheduled ==
    /\ Len(written) = cursor
    /\ \A i \in 1..cursor : written[i] = schedule[i]
    /\ \A t \in Threads : pc[t] = "write" =>
        /\ cursor < Len(schedule)
        /\ schedule[cursor + 1].thread = t
        /\ schedule[cursor + 1].category = category[t]

\* The thread inside the tape's monitor is the one that emits an INPUT event.
MonitorIsHeld ==
    \A t \in Threads :
        monitor = t <=> pc[t] \in {"wait", "write"} /\ category[t] = "INPUT"

Passed == Cardinality(InputsUpTo(cursor))

\* The tape is as far as the schedule, but for the entry whose event is to come.
TapeFollows ==
    (\A t \in Threads : pc[t] # "failed") =>
        /\ IF monitor = NoThread
           THEN taken = Passed
           ELSE taken = Passed + 1 /\ entry[monitor] = TapeOwner(taken)
        /\ \A t \in Threads : t # monitor /\ entry[t] # NoThread => entry[t] = t

IInv == TypeOK /\ Scheduled /\ MonitorIsHeld /\ TapeFollows

-----------------------------------------------------------------------------
(* Counting the inputs of the schedule.                                    *)

Below == {p \in Nat \X Nat : p[1] < p[2]}

\* A set of naturals has a least element.
LEMMA Least ==
    ASSUME NEW S \in SUBSET Nat, S # {}
    PROVE  \E n \in S : \A m \in S : n <= m
<1>1. IsWellFoundedOn(Below, Nat)
  <2>1. OpToRel(<, Nat) = Below
    BY Zenon DEF OpToRel, Below
  <2>2. QED
    BY <2>1, NatLessThanWellFounded, Zenon
<1>2. PICK n \in S : \A m \in S : ~(<<m, n>> \in Below)
  BY <1>1, WFMin, Zenon
<1>3. ASSUME NEW m \in S, m < n PROVE <<m, n>> \in Below
  <2>1. <<m, n>> \in Nat \X Nat /\ <<m, n>>[1] < <<m, n>>[2]
    BY <1>3
  <2>2. QED
    BY <2>1, Zenon DEF Below
<1>4. \A m \in S : ~(m < n)
  BY <1>2, <1>3, Zenon
<1>5. QED
  BY <1>4

\* The inputs among the first events are finitely many.
LEMMA InputsAreFinite ==
    ASSUME schedule \in Seq(Events), NEW i \in Nat
    PROVE  IsFiniteSet(InputsUpTo(i)) /\ Cardinality(InputsUpTo(i)) \in Nat
<1>1. IsFiniteSet(1..Len(schedule))
  BY FS_Interval
<1>2. InputsUpTo(i) \in SUBSET (1..Len(schedule))
  BY DEF InputsUpTo
<1>3. IsFiniteSet(InputsUpTo(i))
  BY <1>1, <1>2, FS_Subset
<1>4. QED
  BY <1>3, FS_CardinalityType

\* One more event adds itself if it is an input.
LEMMA OneMore ==
    ASSUME schedule \in Seq(Events), NEW i \in 0..(Len(schedule) - 1)
    PROVE  Cardinality(InputsUpTo(i + 1)) =
             IF schedule[i + 1].category = "INPUT"
             THEN Cardinality(InputsUpTo(i)) + 1
             ELSE Cardinality(InputsUpTo(i))
<1>1. CASE schedule[i + 1].category = "INPUT"
  <2>1. InputsUpTo(i + 1) = InputsUpTo(i) \cup {i + 1}
    BY <1>1 DEF InputsUpTo
  <2>2. i + 1 \notin InputsUpTo(i)
    BY DEF InputsUpTo
  <2>3. IsFiniteSet(InputsUpTo(i))
    BY InputsAreFinite
  <2>4. Cardinality(InputsUpTo(i) \cup {i + 1}) = Cardinality(InputsUpTo(i)) + 1
    BY <2>2, <2>3, FS_AddElement
  <2>5. QED
    BY <1>1, <2>1, <2>4
<1>2. CASE schedule[i + 1].category # "INPUT"
  <2>1. InputsUpTo(i + 1) = InputsUpTo(i)
    BY <1>2 DEF InputsUpTo
  <2>2. QED
    BY <1>2, <2>1
<1>3. QED
  BY <1>1, <1>2

\* Two inputs of the schedule have different numbers.
LEMMA NumbersDiffer ==
    ASSUME schedule \in Seq(Events),
           NEW i \in InputsUpTo(Len(schedule)), NEW k \in InputsUpTo(Len(schedule)), i < k
    PROVE  Cardinality(InputsUpTo(i)) # Cardinality(InputsUpTo(k))
<1>1. i \in Nat /\ k \in Nat
  BY DEF InputsUpTo
<1>2. IsFiniteSet(InputsUpTo(k))
  BY <1>1, InputsAreFinite
<1>3. InputsUpTo(i) \in SUBSET InputsUpTo(k)
  BY <1>1 DEF InputsUpTo
<1>4. k \in InputsUpTo(k) /\ k \notin InputsUpTo(i)
  BY <1>1 DEF InputsUpTo
<1>5. InputsUpTo(k) # InputsUpTo(i)
  BY <1>4
<1>6. QED
  BY <1>2, <1>3, <1>5, FS_Subset

\* The nth input is where the count reaches n.
LEMMA TapePositionExists ==
    ASSUME schedule \in Seq(Events), NEW n \in 1..TapeLength
    PROVE  \E i \in InputsUpTo(Len(schedule)) : Cardinality(InputsUpTo(i)) = n
<1> DEFINE Reached == {i \in 0..Len(schedule) : Cardinality(InputsUpTo(i)) >= n}
<1>1. Len(schedule) \in Nat
  OBVIOUS
<1>2. TapeLength \in Nat
  BY <1>1, InputsAreFinite DEF TapeLength
<1>3. Len(schedule) \in Reached
  BY <1>1, <1>2 DEF TapeLength
<1>4. Reached \in SUBSET Nat
  BY <1>1
<1>5. PICK i \in Reached : \A m \in Reached : i <= m
  BY <1>3, <1>4, Least
<1>6. i # 0
  <2>1. InputsUpTo(0) = {}
    BY DEF InputsUpTo
  <2>2. Cardinality(InputsUpTo(0)) = 0
    BY <2>1, FS_EmptySet
  <2>3. QED
    BY <1>2, <1>5, <2>2
<1>7. i \in 1..Len(schedule) /\ i - 1 \in Nat /\ i - 1 \in 0..(Len(schedule) - 1)
  BY <1>1, <1>5, <1>6
<1>8. i - 1 \notin Reached
  BY <1>5, <1>7
<1>9. Cardinality(InputsUpTo(i - 1)) < n
  <2>1. Cardinality(InputsUpTo(i - 1)) \in Nat
    <3>1. i - 1 \in Nat
      BY <1>7
    <3>2. QED
      BY <3>1, InputsAreFinite
  <2>2. QED
    BY <1>2, <1>7, <1>8, <2>1
<1>10. Cardinality(InputsUpTo(i)) =
          IF schedule[i].category = "INPUT"
          THEN Cardinality(InputsUpTo(i - 1)) + 1
          ELSE Cardinality(InputsUpTo(i - 1))
  <2>1. (i - 1) + 1 = i
    BY <1>7
  <2>2. QED
    BY <1>7, <2>1, OneMore
<1>11. Cardinality(InputsUpTo(i)) >= n
  BY <1>5
<1>12. schedule[i].category = "INPUT" /\ Cardinality(InputsUpTo(i)) = n
  <2>1. Cardinality(InputsUpTo(i - 1)) \in Nat
    <3>1. i - 1 \in Nat
      BY <1>7
    <3>2. QED
      BY <3>1, InputsAreFinite
  <2>2. QED
    BY <1>2, <1>9, <1>10, <1>11, <2>1
<1>13. i \in InputsUpTo(Len(schedule))
  BY <1>7, <1>12 DEF InputsUpTo
<1>14. QED
  BY <1>12, <1>13

\* The tape's entries were given to threads.
LEMMA OwnerIsThread ==
    ASSUME schedule \in Seq(Events), NEW n \in 1..TapeLength
    PROVE  TapeOwner(n) \in Threads
<1>1. TapePosition(n) \in InputsUpTo(Len(schedule))
  BY TapePositionExists DEF TapePosition
<1>2. TapePosition(n) \in 1..Len(schedule)
  BY <1>1 DEF InputsUpTo
<1>3. schedule[TapePosition(n)] \in Events
  BY <1>2
<1>4. QED
  BY <1>3 DEF TapeOwner, Events

\* The owner of the tape's nth entry is the thread of the nth input.
LEMMA OwnerIsExpected ==
    ASSUME schedule \in Seq(Events), NEW i \in InputsUpTo(Len(schedule))
    PROVE  TapeOwner(Cardinality(InputsUpTo(i))) = schedule[i].thread
<1> DEFINE n == Cardinality(InputsUpTo(i))
<1> DEFINE k == TapePosition(n)
<1>1. k \in InputsUpTo(Len(schedule)) /\ Cardinality(InputsUpTo(k)) = n
  BY DEF TapePosition
<1>2. i \in Nat /\ k \in Nat
  BY <1>1 DEF InputsUpTo
<1>3. k = i
  <2> HIDE DEF k
  <2>1. ~(k < i) /\ ~(i < k)
    BY <1>1, NumbersDiffer
  <2>2. QED
    BY <1>2, <2>1
<1>4. QED
  BY <1>3 DEF TapeOwner

-----------------------------------------------------------------------------
\* The schedule, and with it the tape, stay what they were.
LEMMA ScheduleStays ==
    ASSUME [Next]_vars
    PROVE  /\ schedule' = schedule
           /\ TapeLength' = TapeLength
           /\ Passed' = Cardinality(InputsUpTo(cursor'))
           /\ cursor' = cursor => Passed' = Passed
           /\ TapeOwner(taken)' = TapeOwner(taken')
<1>1. schedule' = schedule
  BY DEF Next, vars, ThreadStep, Reach, EnterTape, Before, Exceeded, Timeout, WriteAndAfter
<1>2. TapeLength' = TapeLength
  BY <1>1 DEF TapeLength, InputsUpTo
<1>3. Passed' = Cardinality(InputsUpTo(cursor'))
  BY <1>1 DEF Passed, InputsUpTo
<1>4. TapeOwner(taken)' = TapeOwner(taken')
  BY <1>1 DEF TapeOwner, TapePosition, InputsUpTo
<1>5. cursor' = cursor => Passed' = Passed
  BY <1>3 DEF Passed
<1>6. QED
  BY <1>1, <1>2, <1>3, <1>4, <1>5

\* Every step keeps the variables in their types.
LEMMA TypeStep ==
    ASSUME IInv, [Next]_vars
    PROVE  TypeOK'
<1> USE ReplayAssumption, ScheduleStays DEF IInv, TypeOK, Scheduled, Categories, Emitted
<1>1. ASSUME NEW t \in Threads, NEW c \in Categories, Reach(t, c)
      PROVE  TypeOK'
  BY <1>1 DEF Reach
<1>2. ASSUME NEW t \in Threads, EnterTape(t)
      PROVE  TypeOK'
  <2>1. CASE taken < TapeLength
    <3>1. TapeLength \in Nat
      BY InputsAreFinite DEF TapeLength
    <3>2. taken + 1 \in 1..TapeLength
      BY <2>1, <3>1
    <3>3. TapeOwner(taken + 1) \in Threads
      BY <3>2, OwnerIsThread
    <3>4. taken' \in 0..TapeLength'
      BY <1>2, <2>1, <3>1, <3>2 DEF EnterTape
    <3>5. CASE Kind[TapeOwner(taken + 1)] = Kind[t]
      <4>1. entry' \in [Threads -> Threads \cup {NoThread}]
        <5>1. entry' = [entry EXCEPT ![t] = TapeOwner(taken + 1)]
          BY <1>2, <2>1, <3>5 DEF EnterTape
        <5>2. QED
          BY <3>3, <5>1
      <4>2. /\ pc' \in [Threads -> {"run", "wait", "write", "done", "failed"}]
            /\ category' \in [Threads -> Categories]
            /\ monitor' \in Threads \cup {NoThread}
        BY <1>2, <2>1, <3>5 DEF EnterTape
      <4>3. QED
        BY <1>2, <3>4, <4>1, <4>2 DEF EnterTape
    <3>6. CASE Kind[TapeOwner(taken + 1)] # Kind[t]
      BY <1>2, <2>1, <3>4, <3>6 DEF EnterTape, Fail
    <3>7. QED
      BY <3>5, <3>6
  <2>2. CASE ~(taken < TapeLength)
    BY <1>2, <2>2 DEF EnterTape, MayEnter, Fail
  <2>3. QED
    BY <2>1, <2>2
<1>3. ASSUME NEW t \in Threads, Before(t)
      PROVE  TypeOK'
  BY <1>3 DEF Before, Matches, Fail
<1>4. ASSUME NEW t \in Threads, Exceeded(t)
      PROVE  TypeOK'
  BY <1>4 DEF Exceeded, Fail
<1>5. ASSUME NEW t \in Threads, Timeout(t)
      PROVE  TypeOK'
  BY <1>5 DEF Timeout, Fail
<1>6. ASSUME NEW t \in Threads, WriteAndAfter(t)
      PROVE  TypeOK'
  <2>1. cursor < Len(schedule) /\ schedule[cursor + 1] \in Events
    BY <1>6 DEF WriteAndAfter
  <2>2. schedule[cursor + 1] = [thread |-> t, category |-> category[t]]
    BY <1>6, <2>1 DEF WriteAndAfter, Events
  <2>3. written' \in Seq(Events) /\ cursor' \in 0..Len(schedule)
    BY <1>6, <2>1, <2>2 DEF WriteAndAfter, Advanced
  <2>4. /\ pc' \in [Threads -> {"run", "wait", "write", "done", "failed"}]
        /\ step' \in [Threads -> Nat]
        /\ category' \in [Threads -> Categories]
    BY <1>6 DEF WriteAndAfter
  <2>5. QED
    BY <1>6, <2>3, <2>4 DEF WriteAndAfter
<1>7. CASE UNCHANGED vars
  BY <1>7 DEF vars
<1> HIDE DEF IInv, TypeOK, Scheduled, Categories, Emitted
<1>8. QED
  BY <1>1, <1>2, <1>3, <1>4, <1>5, <1>6, <1>7
     DEF Next, ThreadStep

\* The schedule moves on only with the event it expects.
LEMMA ScheduledStep ==
    ASSUME IInv, [Next]_vars
    PROVE  Scheduled'
<1> USE ReplayAssumption, ScheduleStays DEF IInv, TypeOK, Scheduled
<1>1. ASSUME NEW t \in Threads, NEW c \in Categories, Reach(t, c)
      PROVE  Scheduled'
  BY <1>1 DEF Reach
<1>2. ASSUME NEW t \in Threads, EnterTape(t)
      PROVE  Scheduled'
  BY <1>2 DEF EnterTape, MayEnter, Fail
<1>3. ASSUME NEW t \in Threads, Before(t)
      PROVE  Scheduled'
  BY <1>3 DEF Before, Matches, Fail
<1>4. ASSUME NEW t \in Threads, Exceeded(t)
      PROVE  Scheduled'
  BY <1>4 DEF Exceeded, Fail
<1>5. ASSUME NEW t \in Threads, Timeout(t)
      PROVE  Scheduled'
  BY <1>5 DEF Timeout, Fail
<1>6. ASSUME NEW t \in Threads, WriteAndAfter(t)
      PROVE  Scheduled'
  <2>1. cursor < Len(schedule) /\ schedule[cursor + 1] \in Events
    BY <1>6 DEF WriteAndAfter
  <2>2. schedule[cursor + 1] = [thread |-> t, category |-> category[t]]
    BY <1>6, <2>1 DEF WriteAndAfter, Events
  <2>3. QED
    BY <1>6, <2>1, <2>2 DEF WriteAndAfter, Advanced
<1>7. CASE UNCHANGED vars
  BY <1>7 DEF vars
<1> HIDE DEF IInv, TypeOK, Scheduled
<1>8. QED
  BY <1>1, <1>2, <1>3, <1>4, <1>5, <1>6, <1>7
     DEF Next, ThreadStep

\* The monitor is taken with the INPUT event and left after it.
LEMMA MonitorStep ==
    ASSUME IInv, [Next]_vars
    PROVE  MonitorIsHeld'
<1> USE ReplayAssumption DEF IInv, TypeOK, MonitorIsHeld
<1>1. ASSUME NEW t \in Threads, NEW c \in Categories, Reach(t, c)
      PROVE  MonitorIsHeld'
  BY <1>1 DEF Reach
<1>2. ASSUME NEW t \in Threads, EnterTape(t)
      PROVE  MonitorIsHeld'
  <2>1. CASE taken < TapeLength /\ Kind[TapeOwner(taken + 1)] = Kind[t]
    BY <1>2, <2>1 DEF EnterTape, MayEnter
  <2>2. CASE ~(taken < TapeLength /\ Kind[TapeOwner(taken + 1)] = Kind[t])
    BY <1>2, <2>2 DEF EnterTape, MayEnter, Fail
  <2>3. QED
    BY <2>1, <2>2
<1>3. ASSUME NEW t \in Threads, Before(t)
      PROVE  MonitorIsHeld'
  BY <1>3 DEF Before, Matches, Fail
<1>4. ASSUME NEW t \in Threads, Exceeded(t)
      PROVE  MonitorIsHeld'
  BY <1>4 DEF Exceeded, Fail
<1>5. ASSUME NEW t \in Threads, Timeout(t)
      PROVE  MonitorIsHeld'
  BY <1>5 DEF Timeout, Fail
<1>6. ASSUME NEW t \in Threads, WriteAndAfter(t)
      PROVE  MonitorIsHeld'
  BY <1>6 DEF WriteAndAfter, Advanced
<1>7. CASE UNCHANGED vars
  BY <1>7 DEF vars
<1> HIDE DEF IInv, TypeOK, MonitorIsHeld
<1>8. QED
  BY <1>1, <1>2, <1>3, <1>4, <1>5, <1>6, <1>7
     DEF Next, ThreadStep

\* An entry is taken by the thread whose input comes next, or a thread fails.
LEMMA TapeStep ==
    ASSUME IInv, [Next]_vars
    PROVE  TapeFollows'
<1> USE ReplayAssumption, ScheduleStays DEF IInv, TypeOK, MonitorIsHeld, TapeFollows
<1>1. ASSUME NEW t \in Threads, NEW c \in Categories, Reach(t, c)
      PROVE  TapeFollows'
  BY <1>1 DEF Reach
<1>2. ASSUME NEW t \in Threads, EnterTape(t)
      PROVE  TapeFollows'
  <2>1. CASE taken < TapeLength /\ Kind[TapeOwner(taken + 1)] = Kind[t]
    BY <1>2, <2>1 DEF EnterTape, MayEnter
  <2>2. CASE ~(taken < TapeLength /\ Kind[TapeOwner(taken + 1)] = Kind[t])
    BY <1>2, <2>2 DEF EnterTape, MayEnter, Fail
  <2>3. QED
    BY <2>1, <2>2
<1>3. ASSUME NEW t \in Threads, Before(t)
      PROVE  TapeFollows'
  BY <1>3 DEF Before, Matches, Fail
<1>4. ASSUME NEW t \in Threads, Exceeded(t)
      PROVE  TapeFollows'
  BY <1>4 DEF Exceeded, Fail
<1>5. ASSUME NEW t \in Threads, Timeout(t)
      PROVE  TapeFollows'
  BY <1>5 DEF Timeout, Fail
<1>6. ASSUME NEW t \in Threads, WriteAndAfter(t)
      PROVE  TapeFollows'
  <2>1. /\ cursor \in 0..(Len(schedule) - 1)
        /\ schedule[cursor + 1].thread = t
        /\ schedule[cursor + 1].category = category[t]
    BY <1>6 DEF WriteAndAfter, Scheduled
  <2>2. Passed' = IF category[t] = "INPUT" THEN Passed + 1 ELSE Passed
    BY <1>6, <2>1, OneMore DEF WriteAndAfter, Advanced, Passed
  <2>3. SUFFICES ASSUME \A u \in Threads : pc'[u] # "failed"
                 PROVE  TapeFollows'
    OBVIOUS
  <2>4. \A u \in Threads : pc[u] # "failed"
    BY <1>6, <2>3 DEF WriteAndAfter
  <2>5. CASE monitor = t
    <3>1. cursor + 1 \in InputsUpTo(Len(schedule))
      BY <2>1, <2>5 DEF InputsUpTo
    <3>2. TapeOwner(Passed') = t
      BY <1>6, <2>1, <3>1, OwnerIsExpected DEF WriteAndAfter, Advanced
    <3>3. taken = Passed' /\ entry[t] = t
      BY <2>2, <2>4, <2>5, <3>2
    <3>4. QED
      BY <1>6, <2>4, <2>5, <3>3 DEF WriteAndAfter
  <2>6. CASE monitor # t
    BY <1>6, <2>2, <2>4, <2>6 DEF WriteAndAfter
  <2>7. QED
    BY <2>5, <2>6
<1>7. CASE UNCHANGED vars
  BY <1>7 DEF vars
<1> HIDE DEF IInv, TypeOK, MonitorIsHeld, TapeFollows
<1>8. QED
  BY <1>1, <1>2, <1>3, <1>4, <1>5, <1>6, <1>7
     DEF Next, ThreadStep

-----------------------------------------------------------------------------
\* A fresh JVM that has not begun.
LEMMA InitIInv == Init => IInv
<1> SUFFICES ASSUME Init PROVE IInv
  OBVIOUS
<1> DEFINE Emissions == {{t} \X DOMAIN Programs[t] : t \in Threads}
<1>1. \A t \in Threads : IsFiniteSet({t} \X DOMAIN Programs[t])
  <2> TAKE t \in Threads
  <2>1. Programs[t] \in Seq(Emitted)
    BY ReplayAssumption
  <2>2. IsFiniteSet(DOMAIN Programs[t])
    BY <2>1, FS_Interval
  <2>3. QED
    BY <2>2, FS_Singleton, FS_Product
<1>2. IsFiniteSet(Emissions)
  <2>1. IsFiniteSet(Threads)
    BY ReplayAssumption
  <2>2. QED
    <3> DEFINE g == [t \in Threads |-> {t} \X DOMAIN Programs[t]]
    <3>1. g \in Surjection(Threads, Emissions)
      BY DEF Surjection
    <3>2. QED
      BY <2>1, <3>1, FS_Surjection
<1>3. IsFiniteSet(UNION Emissions)
  BY <1>1, <1>2, FS_UNION
<1>4. Cardinality(UNION Emissions) \in Nat
  BY <1>3, FS_CardinalityType
<1> DEFINE n == Cardinality(UNION Emissions)
<1>5. PICK recorded \in [1..n -> Events] : Start(recorded)
  BY DEF Init
<1> HIDE DEF n
<1>6. schedule \in Seq(Events)
  <2>1. n \in Nat
    BY <1>4 DEF n
  <2>2. recorded \in Seq(Events)
    BY <1>5, <2>1
  <2>3. QED
    BY <1>5, <2>2 DEF Start
<1>7. TapeLength \in Nat
  BY <1>6, InputsAreFinite DEF TapeLength
<1>8. Passed = 0
  <2>1. InputsUpTo(0) = {}
    BY <1>6 DEF InputsUpTo
  <2>2. QED
    BY <1>5, <2>1, FS_EmptySet DEF Passed, Start
<1> USE ReplayAssumption, <1>5, <1>6, <1>7, <1>8
<1>9. TypeOK
  <2>1. cursor \in 0..Len(schedule) /\ taken \in 0..TapeLength /\ written \in Seq(Events)
    BY DEF Start
  <2>2. QED
    BY <2>1 DEF TypeOK, Start, Categories
<1>10. Scheduled /\ MonitorIsHeld /\ TapeFollows
  BY DEF Scheduled, MonitorIsHeld, TapeFollows, Start
<1>11. QED
  BY <1>9, <1>10 DEF IInv

\* Every behaviour keeps the inductive invariant.
THEOREM Invariance == Spec => []IInv
<1>1. IInv /\ [Next]_vars => IInv'
  BY TypeStep, ScheduledStep, MonitorStep, TapeStep DEF IInv
<1>2. QED
  BY InitIInv, <1>1, PTL DEF Spec

\* The scheduler, the tape and the threads keep their types.
THEOREM TypeCorrect == Spec => []TypeOK
<1>1. IInv => TypeOK
  BY DEF IInv
<1>2. QED
  BY Invariance, <1>1, PTL

\* However many threads run and whichever of them diverge, the fresh events are a
\* beginning of the recorded ones: ReplayScheduler never lets another trace be written.
THEOREM FreshEventsAreRecorded == Spec => []EventsFollowSchedule
<1>1. IInv => EventsFollowSchedule
  BY DEF IInv, TypeOK, Scheduled, EventsFollowSchedule
<1>2. QED
  BY Invariance, <1>1, PTL

\* InputTape hands out its entries by position and never looks at the thread that
\* asks; the schedule makes the position the thread's own, or fails a thread.
THEOREM InputsGoHome == Spec => []InputsAreOwn
<1>1. IInv => InputsAreOwn
  BY DEF IInv, TypeOK, MonitorIsHeld, TapeFollows, InputsAreOwn
<1>2. QED
  BY Invariance, <1>1, PTL
=============================================================================
