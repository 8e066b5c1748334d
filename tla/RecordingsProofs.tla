-------------------------- MODULE RecordingsProofs --------------------------
(***************************************************************************)
(* Theorems about Recordings for every test program, any number of record, *)
(* replay and reverse requests and of edits, and any retention: a stored   *)
(* recording is of its revision, what is called verified is exact and      *)
(* complete, a reverse is nearest, and a faithful replay does not diverge. *)
(***************************************************************************)
EXTENDS Recordings, FiniteSetTheorems, WellFoundedInduction, TLAPS

\* What the JVM of a record request did: the test up to some step, and perhaps one value
\* more on the tape than the log shows.
Made(y) ==
    /\ y.revision \in Revisions
    /\ \E n \in 0..Len(Program[y.revision]), capture \in BOOLEAN : \E d \in Draws(y.revision, n) :
        /\ y.tape = TapeOf(y.revision, d, capture)
        /\ \/ y.events = LogOf(y.revision, d, capture)
           \/ /\ n > 0 /\ Kept(Program[y.revision][n], d[n], capture)
              /\ \E e \in Draws(y.revision, n - 1) : y.events = LogOf(y.revision, e, capture)

\* What the JVM of a replay did with a tape, unless it was killed: the test up to its end,
\* or up to where the tape did not let it go on.
HasFile(tape) == \E j \in DOMAIN tape : tape[j].kind = "file"
Replayed(y, tape) ==
    /\ y.revision \in Revisions
    /\ ~y.cut =>
        \E n \in 0..Len(Program[y.revision]), again \in BOOLEAN : \E d \in Draws(y.revision, n) :
            /\ again <=> HasFile(tape)
            /\ Follows(y.revision, d, again, tape)
            /\ n = Len(Program[y.revision]) \/ Stopped(y.revision, d, again, tape)
            /\ y.events = LogOf(y.revision, d, again)

\* x is what a record request left that has ended (p and j are pc and jvm): the events
\* of its JVM up to a limit, and its tape, on the revision x is bound to, and what of the
\* events the tape does not have.
Faithful(x, p, j) ==
    /\ x.run \in Requests /\ p[x.run] = "done"
    /\ j[x.run].revision = x.revision
    /\ j[x.run].events \in Seq(Events)
    /\ x.events \in Seq(Events) /\ IsPrefix(x.events, j[x.run].events)
    /\ Len(x.events) <= MaxEvents
    /\ Made(j[x.run]) /\ x.tape = j[x.run].tape
    /\ x.unavailable = Unavailable(j[x.run].events)

\* n is the place of the last event before `start` that is wanted.
Nearest(events, start, want, n) ==
    /\ ValidWant(want)
    /\ start \in DOMAIN events /\ n \in DOMAIN events /\ n < start
    /\ Matches(events[n], want)
    /\ \A i \in n + 1 .. start - 1 : ~Matches(events[i], want)

\* n is the place of the event that a replay or reverse of recording x has to reach.
Aimed(x, ask, n) ==
    /\ x.run = ask.held /\ x.unavailable = {}
    /\ n \in DOMAIN x.events
    /\ ask.cmd = "replay" => n = ask.event
    /\ ask.cmd = "reverse" => Nearest(x.events, ask.event, ask.want, n)

Tables ==
    /\ DOMAIN asked = Requests /\ DOMAIN loaded = Requests /\ DOMAIN target = Requests
    /\ DOMAIN before = Requests /\ DOMAIN jvm = Requests /\ DOMAIN answer = Requests
Rows == {RunRow(r) : r \in Requests} \cup {RecordingRow(id) : id \in RecordingIds}
Shape ==
    /\ tree \in Revisions /\ retained \in Seq(Rows)
    /\ pc \in [Requests -> {"idle", "check", "start", "work", "finish", "read", "done"}]
    /\ Tables

\* A request on its way: revisions do not come back, so a run that finds the worktree
\* as it was before was executed on that revision; a replay works from a recording that
\* stays what it was.
Going(r) ==
    /\ pc[r] \in {"check", "start", "work"} /\ asked[r].cmd = "record" => asked[r].capture \in BOOLEAN
    /\ pc[r] = "work" => before[r] \in Revisions /\ before[r] <= tree
    /\ pc[r] \in {"finish", "read"} =>
        /\ before[r] \in Revisions /\ jvm[r].revision \in Revisions
        /\ before[r] <= jvm[r].revision /\ jvm[r].revision <= tree
        /\ jvm[r].events \in Seq(Events)
        /\ asked[r].cmd = "record" => Made(jvm[r])
        /\ asked[r].cmd # "record" => Replayed(jvm[r], loaded[r].tape)
    /\ pc[r] = "read" => jvm[r].revision = before[r]
    /\ pc[r] \in {"check", "start", "work", "finish", "read"} /\ asked[r].cmd # "record" =>
        Faithful(loaded[r], pc, jvm) /\ Aimed(loaded[r], asked[r], target[r])

\* What a "verified" rests on.
Verified(r) ==
    answer[r].status = "verified" =>
        /\ pc[r] = "done"
        /\ Faithful(loaded[r], pc, jvm) /\ Aimed(loaded[r], asked[r], target[r])
        /\ answer[r].event = <<loaded[r].run, target[r]>>
        /\ jvm[r].events \in Seq(Events) /\ target[r] <= Len(jvm[r].events)
        /\ \A i \in 1..target[r] : loaded[r].events[i] = jvm[r].events[i]

\* The test draws what no rule of the agent knows.
Hides(R) == \E i \in DOMAIN Program[R] : Program[R][i].of = "unseen"

\* What a "diverged" rests on; a run that is gone does not come back.
Diverged(r) ==
    answer[r].status = "diverged" =>
        /\ pc[r] = "done"
        /\ \/ jvm[r].revision # loaded[r].revision
           \/ jvm[r].cut
           \/ ~HasRun(r)
           \/ Hides(loaded[r].revision)

Told(r) == Verified(r) /\ Diverged(r)

AllFaithful == \A id \in DOMAIN recordings : Faithful(recordings[id], pc, jvm)

IInv ==
    /\ Shape
    /\ \A r \in Requests : Going(r) /\ Told(r)
    /\ AllFaithful

-----------------------------------------------------------------------------
(* Sets of numbers, and sequences by the places of numbers in them.        *)

Below == {p \in Nat \X Nat : p[1] < p[2]}

\* A set of naturals has a least element.
LEMMA Least ==
    ASSUME NEW S \in SUBSET Nat, S # {}
    PROVE  \E n \in S : \A m \in S : n <= m
<1>1. IsWellFoundedOn(Below, Nat)
  <2>1. OpToRel(<, Nat) = Below
    BY Zenon DEF OpToRel, Below
  <2>2. QED
    BY <2>1, NatLessThanWellFounded, Zenon
<1>2. PICK n \in S : \A m \in S : ~(<<m, n>> \in Below)
  BY <1>1, WFMin, Zenon
<1>3. ASSUME NEW m \in S, m < n PROVE <<m, n>> \in Below
  <2>1. <<m, n>> \in Nat \X Nat /\ <<m, n>>[1] < <<m, n>>[2]
    BY <1>3
  <2>2. QED
    BY <2>1, Zenon DEF Below
<1>4. \A m \in S : ~(m < n)
  BY <1>2, <1>3, Zenon
<1>5. QED
  BY <1>4

IsGreatest(S, n) == n \in S /\ \A m \in S : m <= n

\* A finite set of naturals has a greatest element, which is its Max.
LEMMA Greatest ==
    ASSUME NEW S \in SUBSET Nat, IsFiniteSet(S), S # {}
    PROVE  IsGreatest(S, Max(S))
<1> DEFINE Without == {T \in SUBSET S : IsFiniteSet(T) /\ T # {} /\ \A n \in T : ~IsGreatest(T, n)}
           Sizes == {Cardinality(T) : T \in Without}
<1>1. ASSUME Without # {} PROVE FALSE
  <2>1. \A T \in Without : Cardinality(T) \in Nat
    BY FS_CardinalityType
  <2>2. Sizes \in SUBSET Nat /\ Sizes # {}
    BY <1>1, <2>1
  <2>3. PICK c \in Sizes : \A d \in Sizes : c <= d
    BY <2>2, Least
  <2>4. PICK T \in Without : c = Cardinality(T)
    BY <2>3
  <2>5. PICK x \in T : TRUE
    BY <2>4
  <2> DEFINE U == T \ {x}
  <2>6. IsFiniteSet(U) /\ Cardinality(U) = c - 1
    BY <2>4, <2>5, FS_RemoveElement
  <2>7. c \in Nat /\ c - 1 < c
    BY <2>2, <2>3
  <2>8. ASSUME U \in Without PROVE FALSE
    <3>1. Cardinality(U) \in Sizes
      BY <2>8
    <3> HIDE DEF U, Without, Sizes
    <3>2. c <= c - 1
      BY <2>3, <2>6, <3>1
    <3>3. QED
      BY <2>7, <3>2
  <2>9. T \in SUBSET Nat /\ x \in Nat
    BY <2>4, <2>5
  <2>10. CASE U = {}
    <3>1. \A m \in T : m = x
      BY <2>10
    <3>2. IsGreatest(T, x)
      BY <2>5, <2>9, <3>1 DEF IsGreatest
    <3>3. QED
      BY <2>4, <2>5, <3>2
  <2>11. CASE U # {}
    <3>1. PICK n \in U : IsGreatest(U, n)
      BY <2>4, <2>6, <2>8, <2>11
    <3>2. CASE n <= x
      <4>1. IsGreatest(T, x)
        BY <2>5, <2>9, <3>1, <3>2 DEF IsGreatest
      <4>2. QED
        BY <2>4, <2>5, <4>1
    <3>3. CASE ~(n <= x)
      <4>1. IsGreatest(T, n)
        BY <2>5, <2>9, <3>1, <3>3 DEF IsGreatest
      <4>2. QED
        BY <2>4, <3>1, <4>1
    <3>4. QED
      BY <3>2, <3>3
  <2>12. QED
    BY <2>10, <2>11
<1>2. PICK n \in S : IsGreatest(S, n)
  BY <1>1
<1>3. \E x \in S : \A y \in S : x >= y
  BY <1>2 DEF IsGreatest
<1>4. Max(S) \in S /\ \A y \in S : Max(S) >= y
  BY <1>3 DEF Max
<1>5. QED
  BY <1>4 DEF IsGreatest

\* How many of the numbers I are at most i.
Rank(I, i) == Cardinality({k \in I : k <= i})

\* The numbers at most i are finitely many.
LEMMA RankType ==
    ASSUME NEW I \in SUBSET Nat, IsFiniteSet(I), NEW i
    PROVE  /\ IsFiniteSet({k \in I : k <= i}) /\ Rank(I, i) \in Nat
           /\ Rank(I, i) <= Cardinality(I) /\ Cardinality(I) \in Nat
<1>1. {k \in I : k <= i} \in SUBSET I
  OBVIOUS
<1>2. IsFiniteSet({k \in I : k <= i}) /\ Cardinality({k \in I : k <= i}) <= Cardinality(I)
  BY <1>1, FS_Subset
<1>3. QED
  BY <1>2, FS_CardinalityType DEF Rank

\* Ranks go up with the numbers.
LEMMA RankGrows ==
    ASSUME NEW I \in SUBSET Nat, IsFiniteSet(I), NEW i \in I, NEW k \in I, i < k
    PROVE  Rank(I, i) < Rank(I, k)
<1> DEFINE A == {m \in I : m <= i}
           B == {m \in I : m <= k}
<1>1. IsFiniteSet(B)
  BY RankType
<1>2. A \in SUBSET B /\ k \in B /\ k \notin A
  <2>1. i \in Nat /\ k \in Nat
    OBVIOUS
  <2>2. ASSUME NEW m \in I, m <= i PROVE m <= k
    <3>1. m \in Nat
      OBVIOUS
    <3>2. QED
      BY <2>1, <2>2, <3>1
  <2>3. k <= k /\ ~(k <= i)
    BY <2>1
  <2>4. QED
    BY <2>2, <2>3
<1>3. A # B
  BY <1>2
<1> HIDE DEF A, B
<1>4. Cardinality(A) < Cardinality(B)
  <2>1. IsFiniteSet(A) /\ Cardinality(A) <= Cardinality(B) /\ Cardinality(A) # Cardinality(B)
    BY <1>1, <1>2, <1>3, FS_Subset
  <2>2. Cardinality(A) \in Nat /\ Cardinality(B) \in Nat
    BY <1>1, <2>1, FS_CardinalityType
  <2>3. QED
    BY <2>1, <2>2
<1>5. QED
  BY <1>4 DEF Rank, A, B

\* Every number from 1 to the size of I is the rank of one of I.
LEMMA RankExists ==
    ASSUME NEW I \in SUBSET Nat, IsFiniteSet(I), NEW j \in 1..Cardinality(I)
    PROVE  \E i \in I : Rank(I, i) = j
<1> DEFINE Reached == {i \in I : Rank(I, i) >= j}
<1>1. Cardinality(I) \in Nat /\ I # {} /\ \A m \in I : m \in Nat
  BY FS_CardinalityType, FS_EmptySet
<1>2. Max(I) \in I /\ {k \in I : k <= Max(I)} = I
  BY <1>1, Greatest DEF IsGreatest
<1>3. Max(I) \in Reached
  BY <1>1, <1>2 DEF Rank
<1>4. PICK i \in Reached : \A m \in Reached : i <= m
  <2>1. Reached \in SUBSET Nat /\ Reached # {}
    BY <1>3
  <2>2. QED
    BY <2>1, Least
<1> DEFINE L == {k \in I : k < i}
<1>5. {k \in I : k <= i} = L \cup {i} /\ i \notin L
  <2>1. i \in I /\ i \in Nat
    BY <1>1, <1>4
  <2>2. ASSUME NEW k \in I PROVE k <= i <=> k < i \/ k = i
    <3>1. k \in Nat
      OBVIOUS
    <3>2. QED
      BY <2>1, <3>1
  <2>3. ~(i < i)
    BY <2>1
  <2>4. QED
    BY <2>1, <2>2, <2>3
<1>6. IsFiniteSet(L) /\ Cardinality(L) \in Nat
  <2>1. L \in SUBSET I
    OBVIOUS
  <2>2. QED
    BY <2>1, FS_Subset, FS_CardinalityType
<1>7. Rank(I, i) = Cardinality(L) + 1
  BY <1>5, <1>6, FS_AddElement DEF Rank
<1>8. ASSUME Cardinality(L) >= j PROVE FALSE
  <2>1. L # {}
    BY <1>8, FS_EmptySet
  <2>2. Max(L) \in L /\ \A m \in L : m <= Max(L)
    BY <1>6, <2>1, Greatest DEF IsGreatest
  <2>3. {k \in I : k <= Max(L)} = L
    <3>1. i \in Nat /\ Max(L) \in I /\ Max(L) \in Nat /\ Max(L) < i
      BY <1>1, <1>4, <2>2
    <3>2. ASSUME NEW k \in I, k <= Max(L) PROVE k < i
      <4>1. k \in Nat
        OBVIOUS
      <4>2. QED
        BY <3>1, <3>2, <4>1
    <3>3. QED
      BY <2>2, <3>2
  <2>4. Max(L) \in Reached
    BY <1>8, <2>2, <2>3 DEF Rank
  <2>5. i \in Nat /\ Max(L) \in Nat /\ Max(L) < i
    BY <1>1, <1>4, <2>2
  <2>6. QED
    BY <1>4, <2>4, <2>5
<1>9. Rank(I, i) = j
  BY <1>4, <1>6, <1>7, <1>8
<1>10. QED
  BY <1>4, <1>9

\* The j-th of the numbers I is the one of rank j.
LEMMA NthHasRank ==
    ASSUME NEW I \in SUBSET Nat, IsFiniteSet(I), NEW j \in 1..Cardinality(I)
    PROVE  Nth(I, j) \in I /\ Rank(I, Nth(I, j)) = j
  BY RankExists DEF Nth, Rank

\* And a number of I is the one of its rank.
LEMMA NthOfRank ==
    ASSUME NEW I \in SUBSET Nat, IsFiniteSet(I), NEW i \in I
    PROVE  Rank(I, i) \in 1..Cardinality(I) /\ Nth(I, Rank(I, i)) = i
<1>1. Rank(I, i) \in Nat /\ Rank(I, i) <= Cardinality(I) /\ IsFiniteSet({k \in I : k <= i})
  BY RankType
<1>2. Rank(I, i) # 0
  <2>1. i \in {k \in I : k <= i}
    OBVIOUS
  <2>2. QED
    BY <1>1, <2>1, FS_EmptySet DEF Rank
<1>3. Rank(I, i) \in 1..Cardinality(I)
  BY <1>1, <1>2, RankType
<1> DEFINE n == Nth(I, Rank(I, i))
<1>4. n \in I /\ Rank(I, n) = Rank(I, i)
  BY <1>3, NthHasRank
<1> HIDE DEF n
<1>5. n \in Nat /\ i \in Nat
  BY <1>4
<1>6. ~(n < i) /\ ~(i < n)
  <2>1. CASE n < i
    BY <1>1, <1>4, <2>1, RankGrows
  <2>2. CASE i < n
    BY <1>1, <1>4, <2>2, RankGrows
  <2>3. QED
    BY <2>1, <2>2
<1>7. n = i
  BY <1>5, <1>6
<1>8. QED
  BY <1>3, <1>7 DEF n

\* What is picked from a sequence is in it, and nothing is left out.
LEMMA PickedFacts ==
    ASSUME NEW T, NEW s \in Seq(T), NEW I \in SUBSET DOMAIN s
    PROVE  /\ I \in SUBSET Nat /\ IsFiniteSet(I) /\ Cardinality(I) \in Nat
           /\ Picked(s, I) \in Seq(T) /\ Len(Picked(s, I)) = Cardinality(I)
           /\ \A j \in 1..Cardinality(I) : \E i \in I : Rank(I, i) = j /\ Picked(s, I)[j] = s[i]
           /\ \A i \in I : Rank(I, i) \in 1..Cardinality(I) /\ Picked(s, I)[Rank(I, i)] = s[i]
<1>1. DOMAIN s = 1..Len(s) /\ Len(s) \in Nat
  OBVIOUS
<1>2. I \in SUBSET Nat
  BY <1>1
<1>3. IsFiniteSet(I)
  <2>1. IsFiniteSet(1..Len(s))
    BY <1>1, FS_Interval
  <2>2. QED
    BY <1>1, <2>1, FS_Subset
<1>4. Cardinality(I) \in Nat
  BY <1>3, FS_CardinalityType
<1>5. \A j \in 1..Cardinality(I) : Nth(I, j) \in I /\ Rank(I, Nth(I, j)) = j
  BY <1>2, <1>3, NthHasRank
<1>6. \A j \in 1..Cardinality(I) : s[Nth(I, j)] \in T
  BY <1>1, <1>5
<1>7. Picked(s, I) \in [1..Cardinality(I) -> T]
  BY <1>6 DEF Picked
<1>8. Picked(s, I) \in Seq(T) /\ Len(Picked(s, I)) = Cardinality(I)
  BY <1>4, <1>7
<1>9. \A j \in 1..Cardinality(I) : Picked(s, I)[j] = s[Nth(I, j)]
  BY DEF Picked
<1>10. ASSUME NEW i \in I
       PROVE  Rank(I, i) \in 1..Cardinality(I) /\ Picked(s, I)[Rank(I, i)] = s[i]
  <2>1. Rank(I, i) \in 1..Cardinality(I) /\ Nth(I, Rank(I, i)) = i
    BY <1>2, <1>3, NthOfRank
  <2>2. QED
    BY <1>9, <2>1
<1>11. QED
  BY <1>2, <1>3, <1>4, <1>5, <1>8, <1>9, <1>10

\* A prefix agrees with the sequence it begins.
LEMMA PrefixAgrees ==
    ASSUME NEW T, NEW s \in Seq(T), NEW u \in Seq(T), IsPrefix(s, u)
    PROVE  Len(s) <= Len(u) /\ \A i \in DOMAIN s : s[i] = u[i]
<1>1. Len(s) <= Len(u) /\ SubSeq(s, 1, Len(s)) = SubSeq(u, 1, Len(s))
  BY DEF IsPrefix
<1>2. \A i \in 1..Len(s) :
        SubSeq(s, 1, Len(s))[i] = s[i] /\ SubSeq(u, 1, Len(s))[i] = u[i]
  BY <1>1
<1>3. QED
  BY <1>1, <1>2

\* And a sequence that agrees is a prefix.
LEMMA AgreeingIsPrefix ==
    ASSUME NEW s \in Seq(Events), NEW u \in Seq(Events), NEW n \in Nat,
           n <= Len(s), n <= Len(u), \A i \in 1..n : s[i] = u[i]
    PROVE  /\ SubSeq(s, 1, n) \in Seq(Events) /\ Len(SubSeq(s, 1, n)) = n
           /\ \A i \in 1..n : SubSeq(s, 1, n)[i] = s[i]
           /\ IsPrefix(SubSeq(s, 1, n), u)
<1> DEFINE p == SubSeq(s, 1, n)
<1>1. p \in Seq(Events) /\ Len(p) = n /\ \A i \in 1..n : p[i] = s[i]
  OBVIOUS
<1> HIDE DEF p
<1>2. /\ SubSeq(p, 1, n) \in Seq(Events) /\ Len(SubSeq(p, 1, n)) = n
      /\ \A i \in 1..n : SubSeq(p, 1, n)[i] = p[i]
  BY <1>1
<1>3. /\ SubSeq(u, 1, n) \in Seq(Events) /\ Len(SubSeq(u, 1, n)) = n
      /\ \A i \in 1..n : SubSeq(u, 1, n)[i] = u[i]
  OBVIOUS
<1>4. SubSeq(p, 1, n) = SubSeq(u, 1, n)
  BY <1>1, <1>2, <1>3
<1>5. IsPrefix(p, u)
  BY <1>1, <1>4 DEF IsPrefix
<1>6. QED
  BY <1>1, <1>5 DEF p

\* JvmReplayBackend::reverse finds the nearest event.
LEMMA PreviousIsNearest ==
    ASSUME NEW events \in Seq(Events), NEW start \in DOMAIN events, NEW want, ValidWant(want),
           NEW n, n = Previous(events, start, want), n # 0
    PROVE  Nearest(events, start, want, n)
<1> DEFINE I == {i \in 1..start - 1 : Matches(events[i], want)}
<1>1. n = IF I # {} THEN Max(I) ELSE 0
  BY DEF Previous, SelectLastInSubSeq
<1>2. start \in Nat /\ start <= Len(events) /\ I \in SUBSET (1..start) /\ I # {}
  BY <1>1
<1>3. n \in I /\ \A m \in I : m <= n
  <2>1. IsFiniteSet(1..start)
    BY <1>2, FS_Interval
  <2>2. IsFiniteSet(I) /\ I \in SUBSET Nat
    BY <1>2, <2>1, FS_Subset
  <2>3. QED
    BY <1>1, <1>2, <2>2, Greatest DEF IsGreatest
<1>4. \A i \in n + 1 .. start - 1 : i \notin I
  BY <1>2, <1>3
<1>5. QED
  BY <1>2, <1>3, <1>4 DEF Nearest

-----------------------------------------------------------------------------
(* Logs and tapes.                                                         *)

\* The next number has the next rank.
LEMMA RankNext ==
    ASSUME NEW I \in SUBSET Nat, IsFiniteSet(I), NEW i \in I, i - 1 \in I
    PROVE  Rank(I, i) = Rank(I, i - 1) + 1
<1> DEFINE A == {k \in I : k <= i - 1}
<1>1. i \in Nat /\ \A k \in I : k \in Nat
  OBVIOUS
<1>2. {k \in I : k <= i} = A \cup {i} /\ i \notin A
  <2>1. \A k \in I : k <= i <=> k <= i - 1 \/ k = i
    BY <1>1
  <2>2. ~(i <= i - 1)
    BY <1>1
  <2>3. QED
    BY <2>1, <2>2
<1>3. IsFiniteSet(A)
  BY RankType
<1> HIDE DEF A
<1>4. Cardinality(A \cup {i}) = Cardinality(A) + 1
  BY <1>2, <1>3, FS_AddElement
<1>5. QED
  BY <1>2, <1>4 DEF Rank, A

\* Among numbers that begin with 1..m, each of these is its own rank.
LEMMA RankOfFirst ==
    ASSUME NEW I \in SUBSET Nat, NEW m \in Nat, 0 \notin I, 1..m \in SUBSET I, NEW i \in 1..m
    PROVE  Rank(I, i) = i
<1>1. {k \in I : k <= i} = 1..i
  <2>1. \A k \in I : k \in Nat /\ k # 0
    OBVIOUS
  <2>2. \A k \in 1..i : k \in 1..m /\ k <= i
    OBVIOUS
  <2>3. \A k \in 1..i : k \in I
    BY <2>2
  <2>4. \A k \in I : k <= i => k \in 1..i
    BY <2>1
  <2>5. QED
    BY <2>2, <2>3, <2>4
<1>2. Cardinality(1..i) = i
  <2>1. i \in Int /\ 1 \in Int /\ ~(1 > i) /\ i - 1 + 1 = i
    OBVIOUS
  <2>2. QED
    BY <2>1, FS_Interval
<1>3. QED
  BY <1>1, <1>2 DEF Rank

\* Steps and what they draw.
LEMMA DrawsFacts ==
    ASSUME NEW R \in Revisions, NEW n \in 0..Len(Program[R]), NEW d \in Draws(R, n)
    PROVE  /\ Program[R] \in Seq(Steps) /\ Len(Program[R]) \in Nat /\ n \in Nat
           /\ DOMAIN d = 1..n /\ d \in Seq(Values \cup {None}) /\ Len(d) = n
           /\ \A i \in 1..n :
                /\ i \in DOMAIN Program[R] /\ Program[R][i] \in Steps
                /\ d[i] \in Values \cup {None}
                /\ d[i] = None <=> Program[R][i].kind # "DRAW"
<1>1. Program[R] \in Seq(Steps)
  BY RecordingsAssumption
<1>2. Len(Program[R]) \in Nat /\ n \in Nat /\ \A i \in 1..n : i \in DOMAIN Program[R]
  BY <1>1
<1>3. d \in [1..n -> Values \cup {None}] /\ \A i \in 1..n : d[i] = None <=> Program[R][i].kind # "DRAW"
  <2> DEFINE drawn == {i \in 1..n : Program[R][i].kind = "DRAW"}
  <2>1. PICK v \in [drawn -> Values] : d = [i \in 1..n |-> IF i \in drawn THEN v[i] ELSE None]
    BY DEF Draws
  <2>2. None \notin Values /\ \A i \in drawn : v[i] \in Values
    BY <2>1, RecordingsAssumption
  <2>3. QED
    BY <2>1, <2>2
<1>4. d \in Seq(Values \cup {None}) /\ Len(d) = n /\ DOMAIN d = 1..n
  BY <1>2, <1>3
<1>5. \A i \in 1..n : Program[R][i] \in Steps /\ d[i] \in Values \cup {None}
  BY <1>1, <1>2, <1>3
<1>6. QED
  BY <1>1, <1>2, <1>3, <1>4, <1>5

\* What a draw shows in the source, and where a shown value comes from.
LEMMA ProgramFacts ==
    ASSUME NEW R \in Revisions, NEW i \in DOMAIN Program[R]
    PROVE  /\ Program[R][i].kind = "DRAW" => Program[R][i].of # None
           /\ Program[R][i].of = "unseen" => Program[R][i].kind = "DRAW"
           /\ Program[R][i].shows # 0 => Program[R][i].shows < i
           /\ Program[R][i].kind = "DRAW" /\ Program[R][i].of # "unseen" =>
                /\ i > 1 /\ Program[R][i - 1].kind = "CALL"
                /\ Program[R][i - 1].of = Program[R][i].of
<1>1. Announced(Program[R])
  BY RecordingsAssumption
<1>2. QED
  BY <1>1, RecordingsAssumption DEF Announced

\* The line of a step.
LEMMA LineFacts ==
    ASSUME NEW R \in Revisions, NEW n \in 0..Len(Program[R]), NEW d \in Draws(R, n), NEW i \in 1..n
    PROVE  /\ Line(R, d, i) \in Events
           /\ Line(R, d, i).of = Program[R][i].of
           /\ Program[R][i].kind # "DRAW" => Line(R, d, i).kind = Program[R][i].kind
           /\ Program[R][i].kind # "DRAW" =>
                Line(R, d, i).kind # "INPUT" /\ Line(R, d, i).kind # "CAPABILITY"
           /\ Program[R][i].kind = "DRAW" =>
                Line(R, d, i).kind = IF Kept(Program[R][i], d[i], TRUE) THEN "INPUT" ELSE "CAPABILITY"
<1> DEFINE step == Program[R][i]
           kind == IF step.kind # "DRAW" THEN step.kind
                   ELSE IF Kept(step, d[i], TRUE) THEN "INPUT" ELSE "CAPABILITY"
           shown == Shown(R, d, i)
<1>1. step \in Steps /\ d[i] \in Values \cup {None} /\ i \in DOMAIN Program[R] /\ n \in Nat
  BY DrawsFacts
<1>2. /\ step.kind \in {"LINE", "CALL", "WRITE", "TEST_FINISH", "DRAW"}
      /\ step.at \in Places \cup {None} /\ step.field \in Fields \cup {None}
      /\ step.of \in Sources \cup {None} /\ step.shows \in Nat
  BY <1>1 DEF Steps
<1>3. shown \in Values \cup {None}
  <2>1. step.shows # 0 => step.shows \in 1..n
    <3>1. step.shows # 0 => step.shows < i
      BY <1>1, ProgramFacts
    <3>2. QED
      BY <1>1, <1>2, <3>1
  <2>2. step.shows # 0 => d[step.shows] \in Values \cup {None}
    BY <2>1, DrawsFacts
  <2> HIDE DEF step
  <2>3. shown = IF step.kind = "DRAW" THEN IF step.of = "clock" THEN d[i] ELSE None
                ELSE IF step.shows = 0 \/ step.field \in Secrets THEN None
                ELSE d[step.shows]
    BY DEF Shown, step
  <2> HIDE DEF shown
  <2>4. QED
    BY <1>1, <2>2, <2>3
<1>4. kind \in Kinds
  BY <1>2 DEF Kinds
<1>5. Line(R, d, i) = [kind |-> kind, at |-> step.at, field |-> step.field, of |-> step.of,
                       value |-> shown]
  BY DEF Line
<1> HIDE DEF shown
<1>6. Line(R, d, i) \in Events
  <2> HIDE DEF kind, step
  <2>1. QED
    BY <1>2, <1>3, <1>4, <1>5 DEF Events
<1>7. Line(R, d, i).of = step.of /\ Line(R, d, i).kind = kind
  BY <1>5
<1>8. QED
  BY <1>2, <1>6, <1>7

\* A line of the log is that of a step that writes one, in their order.
LEMMA LogFacts ==
    ASSUME NEW R \in Revisions, NEW n \in 0..Len(Program[R]), NEW d \in Draws(R, n),
           NEW capture \in BOOLEAN,
           NEW W, W = Written(R, d, capture), NEW log, log = LogOf(R, d, capture)
    PROVE  /\ W \in SUBSET Nat /\ W \in SUBSET (1..n) /\ IsFiniteSet(W)
           /\ log \in Seq(Events) /\ Cardinality(W) \in Nat /\ Len(log) = Cardinality(W)
           /\ \A j \in DOMAIN log : \E i \in W : Rank(W, i) = j /\ log[j] = Line(R, d, i)
           /\ \A i \in W : Rank(W, i) \in DOMAIN log /\ log[Rank(W, i)] = Line(R, d, i)
<1> DEFINE s == [i \in DOMAIN d |-> Line(R, d, i)]
<1>1. DOMAIN d = 1..n /\ n \in Nat
  BY DrawsFacts
<1>2. \A i \in 1..n : Line(R, d, i) \in Events
  BY LineFacts
<1>3. s \in [1..n -> Events] /\ \A i \in 1..n : s[i] = Line(R, d, i)
  BY <1>1, <1>2
<1>4. s \in Seq(Events) /\ DOMAIN s = 1..n
  BY <1>1, <1>3
<1>5. W \in SUBSET (1..n) /\ W \in SUBSET DOMAIN s
  BY <1>1, <1>4 DEF Written
<1>6. log = Picked(s, W)
  BY DEF LogOf
<1> HIDE DEF s
<1>7. /\ W \in SUBSET Nat /\ IsFiniteSet(W) /\ Cardinality(W) \in Nat
      /\ log \in Seq(Events) /\ Len(log) = Cardinality(W)
      /\ \A j \in 1..Cardinality(W) : \E i \in W : Rank(W, i) = j /\ log[j] = s[i]
      /\ \A i \in W : Rank(W, i) \in 1..Cardinality(W) /\ log[Rank(W, i)] = s[i]
  <2> HIDE DEF Events
  <2>1. /\ W \in SUBSET Nat /\ IsFiniteSet(W) /\ Cardinality(W) \in Nat
        /\ Picked(s, W) \in Seq(Events) /\ Len(Picked(s, W)) = Cardinality(W)
        /\ \A j \in 1..Cardinality(W) : \E i \in W : Rank(W, i) = j /\ Picked(s, W)[j] = s[i]
        /\ \A i \in W : Rank(W, i) \in 1..Cardinality(W) /\ Picked(s, W)[Rank(W, i)] = s[i]
    BY <1>4, <1>5, PickedFacts
  <2>2. QED
    BY <1>6, <2>1
<1>8. DOMAIN log = 1..Cardinality(W)
  BY <1>7
<1>9. \A i \in W : s[i] = Line(R, d, i)
  BY <1>3, <1>5
<1>10. QED
  BY <1>5, <1>7, <1>8, <1>9

\* The steps whose values are kept, and what is kept.
KeptAt(R, d, capture) == {i \in DOMAIN d : Kept(Program[R][i], d[i], capture)}
Entry(R, d, i) == [kind |-> Program[R][i].of, value |-> d[i]]

\* An entry of the tape is that of a step whose value is kept, in their order.
LEMMA TapeFacts ==
    ASSUME NEW R \in Revisions, NEW n \in 0..Len(Program[R]), NEW d \in Draws(R, n),
           NEW capture \in BOOLEAN,
           NEW K, K = KeptAt(R, d, capture), NEW tape, tape = TapeOf(R, d, capture)
    PROVE  /\ K \in SUBSET Nat /\ K \in SUBSET (1..n) /\ IsFiniteSet(K)
           /\ tape \in Seq(Inputs) /\ Cardinality(K) \in Nat /\ Len(tape) = Cardinality(K)
           /\ \A j \in DOMAIN tape : \E i \in K : Rank(K, i) = j /\ tape[j] = Entry(R, d, i)
           /\ \A i \in K : Rank(K, i) \in DOMAIN tape /\ tape[Rank(K, i)] = Entry(R, d, i)
<1> DEFINE s == [i \in DOMAIN d |-> Entry(R, d, i)]
           All == {Entry(R, d, i) : i \in 1..n}
<1>1. DOMAIN d = 1..n /\ n \in Nat
  BY DrawsFacts
<1>2. s \in [1..n -> All] /\ \A i \in 1..n : s[i] = Entry(R, d, i)
  BY <1>1
<1>3. s \in Seq(All) /\ DOMAIN s = 1..n
  BY <1>1, <1>2
<1>4. K \in SUBSET (1..n) /\ K \in SUBSET DOMAIN s
  BY <1>1, <1>3 DEF KeptAt
<1>5. tape = Picked(s, K)
  BY DEF TapeOf, KeptAt, Entry
<1> HIDE DEF s, All
<1>6. /\ K \in SUBSET Nat /\ IsFiniteSet(K) /\ Cardinality(K) \in Nat
      /\ tape \in Seq(All) /\ Len(tape) = Cardinality(K)
      /\ \A j \in 1..Cardinality(K) : \E i \in K : Rank(K, i) = j /\ tape[j] = s[i]
      /\ \A i \in K : Rank(K, i) \in 1..Cardinality(K) /\ tape[Rank(K, i)] = s[i]
  <2>1. /\ K \in SUBSET Nat /\ IsFiniteSet(K) /\ Cardinality(K) \in Nat
        /\ Picked(s, K) \in Seq(All) /\ Len(Picked(s, K)) = Cardinality(K)
        /\ \A j \in 1..Cardinality(K) : \E i \in K : Rank(K, i) = j /\ Picked(s, K)[j] = s[i]
        /\ \A i \in K : Rank(K, i) \in 1..Cardinality(K) /\ Picked(s, K)[Rank(K, i)] = s[i]
    BY <1>3, <1>4, PickedFacts
  <2>2. QED
    BY <1>5, <2>1
<1>7. DOMAIN tape = 1..Cardinality(K)
  BY <1>6
<1>8. \A i \in K : s[i] = Entry(R, d, i)
  BY <1>2, <1>4
<1>9. ASSUME NEW i \in K PROVE Entry(R, d, i) \in Inputs
  <2>1. Program[R][i].kind = "DRAW" /\ Program[R][i].of \in {"clock", "file"}
    BY DEF KeptAt, Kept, Bridged
  <2>2. d[i] \in Values
    BY <1>4, <2>1, DrawsFacts
  <2>3. QED
    BY <2>1, <2>2 DEF Entry, Inputs
<1>10. \A j \in DOMAIN tape : tape[j] \in Inputs
  BY <1>6, <1>7, <1>8, <1>9
<1>11. tape \in Seq(Inputs)
  BY <1>6, <1>10
<1>12. QED
  BY <1>4, <1>6, <1>7, <1>8, <1>11

\* visitMethodInsn: the line of a draw comes right after the line of its call.
LEMMA InputsAreAnswers ==
    ASSUME NEW R \in Revisions, NEW n \in 0..Len(Program[R]), NEW d \in Draws(R, n),
           NEW capture \in BOOLEAN, NEW W, W = Written(R, d, capture),
           NEW log, log = LogOf(R, d, capture),
           NEW i \in W, Program[R][i].kind = "DRAW"
    PROVE  /\ i - 1 \in W /\ Rank(W, i) = Rank(W, i - 1) + 1
           /\ Program[R][i - 1].kind = "CALL" /\ Program[R][i - 1].of = Program[R][i].of
<1>1. /\ W \in SUBSET Nat /\ W \in SUBSET (1..n) /\ IsFiniteSet(W)
  BY LogFacts
<1>2. Program[R][i].of # "unseen"
  BY DEF Written, Bridged
<1>3. DOMAIN d = 1..n /\ n \in Nat /\ i \in DOMAIN Program[R]
  BY <1>1, DrawsFacts
<1>4. i > 1 /\ Program[R][i - 1].kind = "CALL" /\ Program[R][i - 1].of = Program[R][i].of
  BY <1>2, <1>3, ProgramFacts
<1>5. i - 1 \in 1..n
  BY <1>1, <1>3, <1>4
<1>6. i - 1 \in W
  BY <1>3, <1>4, <1>5 DEF Written
<1>7. QED
  BY <1>1, <1>4, <1>6, RankNext

\* Places after each of the places C, as many as these, come after all of them.
LEMMA CountsMatch ==
    ASSUME NEW T, NEW s \in Seq(T), NEW C \in SUBSET DOMAIN s, NEW P \in SUBSET DOMAIN s,
           \A p \in P : p - 1 \in C, Cardinality(P) = Cardinality(C)
    PROVE  \A c \in C : c + 1 \in P
<1> DEFINE f == [p \in P |-> p - 1]
<1>1. DOMAIN s = 1..Len(s) /\ Len(s) \in Nat
  OBVIOUS
<1>2. IsFiniteSet(C)
  <2>1. IsFiniteSet(1..Len(s))
    BY <1>1, FS_Interval
  <2>2. QED
    BY <1>1, <2>1, FS_Subset
<1>3. P \in SUBSET Nat /\ C \in SUBSET Nat
  BY <1>1
<1>4. f \in [P -> C] /\ \A p \in P : f[p] = p - 1
  OBVIOUS
<1> HIDE DEF f
<1>5. \A p, q \in P : f[p] = f[q] => p = q
  BY <1>3, <1>4
<1>6. f \in Injection(P, C)
  BY <1>4, <1>5 DEF Injection, IsInjective
<1>7. f \in Surjection(P, C)
  BY <1>2, <1>6, FS_Injection
<1>8. ASSUME NEW c \in C PROVE c + 1 \in P
  <2>1. PICK p \in P : f[p] = c
    BY <1>7 DEF Surjection
  <2>2. QED
    BY <1>3, <1>4, <2>1
<1>9. QED
  BY <1>8

\* A set of places that counts for nothing is empty.
LEMMA CountsNothing ==
    ASSUME NEW T, NEW s \in Seq(T), NEW S \in SUBSET DOMAIN s
    PROVE  Cardinality(S) \in Nat /\ (Cardinality(S) > 0 <=> S # {})
<1>1. Len(s) \in Nat /\ DOMAIN s = 1..Len(s)
  OBVIOUS
<1>2. IsFiniteSet(S)
  <2>1. IsFiniteSet(1..Len(s))
    BY <1>1, FS_Interval
  <2>2. QED
    BY <1>1, <2>1, FS_Subset
<1>3. Cardinality(S) \in Nat /\ (Cardinality(S) = 0 <=> S = {})
  BY <1>2, FS_EmptySet, FS_CardinalityType
<1>4. QED
  BY <1>3

\* Every call of a boundary is followed by its input.
Answered(log) ==
    \A i \in Calls(log, Sources) :
        i + 1 \in DOMAIN log /\ log[i + 1].kind = "INPUT" /\ log[i + 1].of = log[i].of

\* The capability rules of ingest_events: when nothing is unavailable, the totals being
\* equal, every boundary that was called was answered.
LEMMA CompleteIsAnswered ==
    ASSUME NEW R \in Revisions, NEW n \in 0..Len(Program[R]), NEW d \in Draws(R, n),
           NEW capture \in BOOLEAN, NEW log, log = LogOf(R, d, capture), Unavailable(log) = {}
    PROVE  Answered(log) /\ \A i \in DOMAIN log : log[i].kind # "CAPABILITY"
<1> DEFINE W == Written(R, d, capture)
           C == Calls(log, Nondeterministic)
           P == Recorded(log, "clock")
           F == Calls(log, {"file"})
           Q == Recorded(log, "file")
           N == Calls(log, {"network"})
           missing == \E i \in DOMAIN log : log[i].kind = "CAPABILITY"
<1>1. /\ W \in SUBSET (1..n) /\ log \in Seq(Events)
      /\ \A j \in DOMAIN log : \E i \in W : Rank(W, i) = j /\ log[j] = Line(R, d, i)
      /\ \A i \in W : Rank(W, i) \in DOMAIN log /\ log[Rank(W, i)] = Line(R, d, i)
  BY LogFacts
<1>2. /\ Cardinality(C) > 0 => Cardinality(P) = Cardinality(C)
      /\ Cardinality(F) > 0 \/ N # {} \/ missing =>
           Cardinality(F) > 0 /\ Cardinality(Q) = Cardinality(F) /\ N = {}
  BY DEF Unavailable
<1>3. C \in SUBSET DOMAIN log /\ P \in SUBSET DOMAIN log /\ F \in SUBSET DOMAIN log /\ Q \in SUBSET DOMAIN log
  BY DEF Calls, Recorded
<1>4. ASSUME NEW j \in DOMAIN log, log[j].kind \in {"INPUT", "CAPABILITY"}
      PROVE  /\ j - 1 \in DOMAIN log /\ log[j - 1].kind = "CALL" /\ log[j - 1].of = log[j].of
             /\ log[j].of \in {"clock", "file"} /\ (log[j].kind = "CAPABILITY" => log[j].of = "file")
  <2>1. PICK i \in W : Rank(W, i) = j /\ log[j] = Line(R, d, i)
    BY <1>1
  <2>2. i \in 1..n /\ Line(R, d, i).kind \in {"INPUT", "CAPABILITY"}
    BY <1>1, <1>4, <2>1
  <2>3. /\ Program[R][i].kind = "DRAW" /\ log[j].of = Program[R][i].of
        /\ log[j].kind = IF Kept(Program[R][i], d[i], TRUE) THEN "INPUT" ELSE "CAPABILITY"
    <3>1. /\ Line(R, d, i).of = Program[R][i].of
          /\ Program[R][i].kind # "DRAW" =>
               Line(R, d, i).kind # "INPUT" /\ Line(R, d, i).kind # "CAPABILITY"
          /\ Program[R][i].kind = "DRAW" =>
               Line(R, d, i).kind = IF Kept(Program[R][i], d[i], TRUE) THEN "INPUT" ELSE "CAPABILITY"
      BY <2>2, LineFacts
    <3>2. QED
      BY <2>1, <2>2, <3>1
  <2>4. /\ i - 1 \in W /\ Rank(W, i) = Rank(W, i - 1) + 1
        /\ Program[R][i - 1].kind = "CALL" /\ Program[R][i - 1].of = Program[R][i].of
    BY <2>3, InputsAreAnswers
  <2>5. i - 1 \in 1..n /\ Rank(W, i - 1) \in DOMAIN log /\ log[Rank(W, i - 1)] = Line(R, d, i - 1)
    BY <1>1, <2>4
  <2>6. Line(R, d, i - 1).kind = "CALL" /\ Line(R, d, i - 1).of = Program[R][i].of
    BY <2>4, <2>5, LineFacts
  <2>7. DOMAIN log \in SUBSET Nat
    BY <1>1
  <2>8. Rank(W, i - 1) = j - 1
    BY <2>1, <2>4, <2>5, <2>7
  <2>9. Program[R][i].of \in {"clock", "file"}
    BY <2>3 DEF Written, Bridged
  <2>10. log[j].kind = "CAPABILITY" => Program[R][i].of = "file"
    BY <2>3, <2>9 DEF Kept, Bridged
  <2>11. QED
    BY <2>3, <2>5, <2>6, <2>8, <2>9, <2>10
<1> HIDE DEF W
<1>5. \A p \in P : p - 1 \in C
  BY <1>4 DEF Recorded, Calls, Nondeterministic
<1>6. \A q \in Q : q - 1 \in F
  BY <1>4 DEF Recorded, Calls
<1>7. /\ Cardinality(C) > 0 <=> C # {}
      /\ Cardinality(F) > 0 <=> F # {}
  BY <1>1, <1>3, CountsNothing
<1> HIDE DEF C, P, F, Q, N, missing
<1>8. C # {} => \A c \in C : c + 1 \in P
  BY <1>1, <1>2, <1>3, <1>5, <1>7, CountsMatch
<1>9. F # {} => \A c \in F : c + 1 \in Q
  BY <1>1, <1>2, <1>3, <1>6, <1>7, CountsMatch
<1>10. N = {}
  BY <1>2
<1>11. ASSUME NEW i \in Calls(log, Sources)
       PROVE  i + 1 \in DOMAIN log /\ log[i + 1].kind = "INPUT" /\ log[i + 1].of = log[i].of
  <2>1. i \in DOMAIN log /\ log[i].kind = "CALL" /\ log[i].of \in Sources /\ i \in Nat
    BY <1>1, <1>11 DEF Calls
  <2>2. log[i].of # "network"
    BY <1>10, <2>1 DEF N, Calls
  <2>3. log[i].of # "unseen"
    <3>1. PICK k \in W : Rank(W, k) = i /\ log[i] = Line(R, d, k)
      BY <1>1, <2>1
    <3>2. k \in 1..n /\ k \in DOMAIN Program[R]
      BY <1>1, <3>1, DrawsFacts
    <3>3. /\ Line(R, d, k).of = Program[R][k].of
          /\ Program[R][k].kind = "DRAW" => Line(R, d, k).kind # "CALL"
      BY <3>2, LineFacts
    <3>4. QED
      BY <2>1, <3>1, <3>2, <3>3, ProgramFacts
  <2>4. i \in C \/ i \in F
    BY <2>1, <2>2, <2>3 DEF C, F, Calls, Sources, Nondeterministic
  <2>5. i + 1 \in P \/ i + 1 \in Q
    BY <1>8, <1>9, <2>4
  <2>6. i + 1 \in DOMAIN log /\ log[i + 1].kind = "INPUT"
    BY <2>5 DEF P, Q, Recorded
  <2>7. log[(i + 1) - 1].of = log[i + 1].of /\ (i + 1) - 1 = i
    BY <1>4, <2>1, <2>6
  <2>8. QED
    BY <2>6, <2>7
<1>12. ASSUME NEW j \in DOMAIN log, log[j].kind = "CAPABILITY" PROVE FALSE
  <2>1. /\ j - 1 \in DOMAIN log /\ log[j - 1].kind = "CALL" /\ log[j - 1].of = "file"
    BY <1>4, <1>12
  <2>2. j - 1 \in Calls(log, Sources) /\ j \in Nat
    BY <1>1, <2>1 DEF Calls, Sources
  <2>3. log[(j - 1) + 1].kind = "INPUT" /\ (j - 1) + 1 = j
    BY <1>11, <2>2
  <2>4. QED
    BY <1>12, <2>3
<1>13. QED
  BY <1>11, <1>12 DEF Answered

\* A line of the log is that of a recorded input when the step's value is on the tape.
LEMMA InputsAreKept ==
    ASSUME NEW R \in Revisions, NEW n \in 0..Len(Program[R]), NEW d \in Draws(R, n),
           NEW capture \in BOOLEAN, NEW i \in 1..n
    PROVE  /\ i \in KeptAt(R, d, capture) => i \in Written(R, d, capture)
           /\ i \in Written(R, d, capture) =>
                (Line(R, d, i).kind = "INPUT" <=> i \in KeptAt(R, d, capture))
<1> DEFINE step == Program[R][i]
<1>1. i \in DOMAIN d
  BY DrawsFacts
<1>2. i \in KeptAt(R, d, capture) <=> Kept(step, d[i], capture)
  BY <1>1 DEF KeptAt
<1>3. i \in Written(R, d, capture) <=> step.kind # "DRAW" \/ Bridged(step, capture)
  BY <1>1 DEF Written
<1>4. Kept(step, d[i], capture) => step.kind = "DRAW" /\ Bridged(step, capture)
  BY DEF Kept, Bridged
<1>5. Bridged(step, capture) => (Kept(step, d[i], TRUE) <=> Kept(step, d[i], capture))
  BY DEF Kept, Bridged
<1>6. /\ step.kind # "DRAW" => Line(R, d, i).kind # "INPUT"
      /\ step.kind = "DRAW" => (Line(R, d, i).kind = "INPUT" <=> Kept(step, d[i], TRUE))
  BY LineFacts
<1> HIDE DEF step
<1>7. QED
  BY <1>2, <1>3, <1>4, <1>5, <1>6

\* The tape has as many entries as the log has lines of inputs.
LEMMA TapeCountsInputs ==
    ASSUME NEW R \in Revisions, NEW n \in 0..Len(Program[R]), NEW d \in Draws(R, n),
           NEW capture \in BOOLEAN, NEW log, log = LogOf(R, d, capture)
    PROVE  Len(TapeOf(R, d, capture)) = Cardinality({j \in DOMAIN log : log[j].kind = "INPUT"})
<1> DEFINE W == Written(R, d, capture)
           K == KeptAt(R, d, capture)
           J == {j \in DOMAIN log : log[j].kind = "INPUT"}
           f == [i \in K |-> Rank(W, i)]
<1>1. /\ W \in SUBSET Nat /\ W \in SUBSET (1..n) /\ IsFiniteSet(W)
      /\ \A j \in DOMAIN log : \E i \in W : Rank(W, i) = j /\ log[j] = Line(R, d, i)
      /\ \A i \in W : Rank(W, i) \in DOMAIN log /\ log[Rank(W, i)] = Line(R, d, i)
  BY LogFacts
<1>2. K \in SUBSET (1..n) /\ IsFiniteSet(K) /\ Len(TapeOf(R, d, capture)) = Cardinality(K)
  BY TapeFacts
<1>3. /\ \A i \in K : i \in W /\ Line(R, d, i).kind = "INPUT"
      /\ \A i \in W : Line(R, d, i).kind = "INPUT" => i \in K
  BY <1>1, <1>2, InputsAreKept
<1> HIDE DEF W, K
<1>4. f \in [K -> J]
  BY <1>1, <1>3
<1>5. ASSUME NEW i \in K, NEW k \in K, f[i] = f[k] PROVE i = k
  <2>1. i \in W /\ k \in W /\ i \in Nat /\ k \in Nat /\ Rank(W, i) = Rank(W, k)
    BY <1>1, <1>3, <1>5
  <2>2. Rank(W, i) \in Nat
    BY <1>1, RankType
  <2>3. CASE i < k
    BY <1>1, <2>1, <2>2, <2>3, RankGrows
  <2>4. CASE k < i
    BY <1>1, <2>1, <2>2, <2>4, RankGrows
  <2>5. QED
    BY <2>1, <2>3, <2>4
<1>6. ASSUME NEW j \in J PROVE \E i \in K : f[i] = j
  <2>1. PICK i \in W : Rank(W, i) = j /\ log[j] = Line(R, d, i)
    BY <1>1
  <2>2. i \in K
    BY <1>3, <2>1
  <2>3. QED
    BY <2>1, <2>2
<1>7. f \in Bijection(K, J)
  <2> HIDE DEF f, J
  <2>1. f \in Injection(K, J)
    BY <1>4, <1>5 DEF Injection, IsInjective
  <2>2. f \in Surjection(K, J)
    BY <1>4, <1>6 DEF Surjection
  <2>3. QED
    BY <2>1, <2>2 DEF Bijection
<1> HIDE DEF f, J
<1>8. Cardinality(J) = Cardinality(K)
  BY <1>2, <1>7, FS_Bijection DEF ExistsBijection
<1>9. QED
  BY <1>2, <1>8 DEF J

\* A JVM that is killed between a value's entry and its line leaves a call without answer.
LEMMA LostIsUnanswered ==
    ASSUME NEW R \in Revisions, NEW n \in 0..Len(Program[R]), n > 0, NEW capture \in BOOLEAN,
           NEW value, Kept(Program[R][n], value, capture),
           NEW e \in Draws(R, n - 1), NEW log, log = LogOf(R, e, capture)
    PROVE  ~Answered(log)
<1> DEFINE W == Written(R, e, capture)
<1>1. Program[R] \in Seq(Steps) /\ Len(Program[R]) \in Nat /\ n \in Nat /\ n \in DOMAIN Program[R]
  <2>1. Program[R] \in Seq(Steps)
    BY RecordingsAssumption
  <2>2. QED
    BY <2>1
<1>2. n - 1 \in 0..Len(Program[R])
  BY <1>1
<1>3. Program[R][n].kind = "DRAW" /\ Program[R][n].of \in {"clock", "file"}
  BY DEF Kept, Bridged
<1>4. n > 1 /\ Program[R][n - 1].kind = "CALL" /\ Program[R][n - 1].of = Program[R][n].of
  BY <1>1, <1>3, ProgramFacts
<1>5. /\ W \in SUBSET Nat /\ W \in SUBSET (1..(n - 1)) /\ IsFiniteSet(W)
      /\ log \in Seq(Events) /\ Cardinality(W) \in Nat /\ Len(log) = Cardinality(W)
      /\ \A i \in W : Rank(W, i) \in DOMAIN log /\ log[Rank(W, i)] = Line(R, e, i)
  BY <1>2, LogFacts
<1>6. n - 1 \in 1..(n - 1)
  BY <1>1, <1>4
<1>7. n - 1 \in W
  <2>1. DOMAIN e = 1..(n - 1)
    BY <1>2, DrawsFacts
  <2>2. QED
    BY <1>4, <1>6, <2>1 DEF Written
<1>8. Line(R, e, n - 1).kind = "CALL" /\ Line(R, e, n - 1).of \in Sources
  <2>1. Line(R, e, n - 1).kind = "CALL" /\ Line(R, e, n - 1).of = Program[R][n - 1].of
    BY <1>2, <1>4, <1>6, LineFacts
  <2>2. QED
    BY <1>3, <1>4, <2>1 DEF Sources
<1> HIDE DEF W
<1>9. Rank(W, n - 1) = Cardinality(W)
  <2>1. \A k \in W : k <= n - 1
    BY <1>1, <1>5
  <2>2. {k \in W : k <= n - 1} = W
    BY <2>1
  <2>3. QED
    BY <2>2 DEF Rank
<1>10. Cardinality(W) \in Calls(log, Sources)
  BY <1>5, <1>7, <1>8, <1>9 DEF Calls
<1>11. Cardinality(W) + 1 \notin DOMAIN log
  BY <1>5
<1>12. QED
  BY <1>10, <1>11 DEF Answered

\* When every call of a boundary was answered and no rule is missing, every value that was
\* drawn is on the tape, and every step has its line.
LEMMA AnsweredIsKept ==
    ASSUME NEW R \in Revisions, \A i \in DOMAIN Program[R] : Program[R][i].of # "unseen",
           NEW n \in 0..Len(Program[R]), NEW d \in Draws(R, n), NEW capture \in BOOLEAN,
           NEW log, log = LogOf(R, d, capture), Answered(log)
    PROVE  /\ \A i \in 1..n : Program[R][i].kind = "DRAW" <=> i \in KeptAt(R, d, capture)
           /\ Written(R, d, capture) = 1..n
<1> DEFINE W == Written(R, d, capture)
<1>1. /\ W \in SUBSET Nat /\ W \in SUBSET (1..n) /\ IsFiniteSet(W)
      /\ log \in Seq(Events)
      /\ \A j \in DOMAIN log : \E i \in W : Rank(W, i) = j /\ log[j] = Line(R, d, i)
      /\ \A i \in W : Rank(W, i) \in DOMAIN log /\ log[Rank(W, i)] = Line(R, d, i)
  BY LogFacts
<1>2. DOMAIN d = 1..n /\ n \in Nat /\ \A i \in 1..n : i \in DOMAIN Program[R] /\ Program[R][i] \in Steps
  BY DrawsFacts
<1>3. ASSUME NEW i \in 1..n, Program[R][i].kind = "DRAW" PROVE i \in KeptAt(R, d, capture)
  <2>1. /\ i > 1 /\ Program[R][i - 1].kind = "CALL" /\ Program[R][i - 1].of = Program[R][i].of
        /\ Program[R][i].of # None
    BY <1>2, <1>3, ProgramFacts
  <2>2. i - 1 \in 1..n
    BY <1>2, <2>1
  <2>3. i - 1 \in W
    BY <1>2, <2>1, <2>2 DEF Written
  <2>4. Line(R, d, i - 1).kind = "CALL" /\ Line(R, d, i - 1).of = Program[R][i].of
    BY <2>1, <2>2, LineFacts
  <2>5. Program[R][i].of \in Sources
    BY <1>2, <2>1 DEF Steps
  <2> DEFINE c == Rank(W, i - 1)
  <2>6. c \in Calls(log, Sources) /\ c \in Nat
    BY <1>1, <2>3, <2>4, <2>5, RankType DEF Calls
  <2>7. c + 1 \in DOMAIN log /\ log[c + 1].kind = "INPUT"
    BY <2>6 DEF Answered
  <2>8. PICK k \in W : Rank(W, k) = c + 1 /\ log[c + 1] = Line(R, d, k)
    BY <1>1, <2>7
  <2>9. k \in 1..n /\ Line(R, d, k).kind = "INPUT"
    BY <1>1, <2>7, <2>8
  <2>10. k \in KeptAt(R, d, capture) /\ Program[R][k].kind = "DRAW"
    BY <2>8, <2>9, InputsAreKept DEF KeptAt, Kept, Bridged
  <2>11. /\ k - 1 \in W /\ Rank(W, k) = Rank(W, k - 1) + 1
    BY <2>8, <2>10, InputsAreAnswers
  <2>12. Rank(W, k - 1) = c
    <3>1. Rank(W, k - 1) \in Nat
      BY <1>1, RankType
    <3>2. QED
      BY <2>6, <2>8, <2>11, <3>1
  <2> HIDE DEF W
  <2>13. k - 1 = i - 1
    <3>1. k - 1 \in Nat /\ i - 1 \in Nat
      BY <1>1, <2>3, <2>11
    <3>2. CASE k - 1 < i - 1
      BY <1>1, <2>3, <2>6, <2>11, <2>12, <3>2, RankGrows
    <3>3. CASE i - 1 < k - 1
      BY <1>1, <2>3, <2>6, <2>11, <2>12, <3>3, RankGrows
    <3>4. QED
      BY <3>1, <3>2, <3>3
  <2>14. k = i
    BY <2>9, <2>13
  <2>15. QED
    BY <2>10, <2>14
<1>4. ASSUME NEW i \in 1..n, i \in KeptAt(R, d, capture) PROVE Program[R][i].kind = "DRAW"
  BY <1>4 DEF KeptAt, Kept, Bridged
<1>5. ASSUME NEW i \in 1..n PROVE i \in W
  <2>1. CASE Program[R][i].kind = "DRAW"
    BY <1>3, <2>1, InputsAreKept
  <2>2. CASE Program[R][i].kind # "DRAW"
    BY <1>2, <2>2 DEF Written
  <2>3. QED
    BY <2>1, <2>2
<1>6. W = 1..n
  BY <1>1, <1>5
<1>7. QED
  BY <1>3, <1>4, <1>6

\* Lines agree where all that was drawn agrees.
LEMMA LinesAgree ==
    ASSUME NEW R \in Revisions, NEW n \in 0..Len(Program[R]), NEW d \in Draws(R, n),
           NEW m \in 0..Len(Program[R]), NEW e \in Draws(R, m), NEW i \in 1..n, i \in 1..m,
           \A k \in 1..i : d[k] = e[k]
    PROVE  Line(R, d, i) = Line(R, e, i)
<1> DEFINE step == Program[R][i]
<1>1. i \in DOMAIN Program[R] /\ step \in Steps /\ i \in Nat /\ n \in Nat
  BY DrawsFacts
<1>2. step.shows \in Nat /\ (step.shows # 0 => step.shows < i)
  BY <1>1, ProgramFacts DEF Steps
<1>3. step.shows # 0 => d[step.shows] = e[step.shows]
  BY <1>1, <1>2
<1>4. d[i] = e[i]
  BY <1>1
<1>5. Shown(R, d, i) = Shown(R, e, i)
  <2> HIDE DEF step
  <2>1. Shown(R, d, i) = IF step.kind = "DRAW" THEN IF step.of = "clock" THEN d[i] ELSE None
                         ELSE IF step.shows = 0 \/ step.field \in Secrets THEN None
                         ELSE d[step.shows]
    BY DEF Shown, step
  <2>2. Shown(R, e, i) = IF step.kind = "DRAW" THEN IF step.of = "clock" THEN e[i] ELSE None
                         ELSE IF step.shows = 0 \/ step.field \in Secrets THEN None
                         ELSE e[step.shows]
    BY DEF Shown, step
  <2>3. QED
    BY <1>3, <1>4, <2>1, <2>2
<1>6. QED
  BY <1>4, <1>5 DEF Line

\* A JVM that replays a complete tape on the recorded revision repeats the recording, when
\* no draw is hidden from the agent.
LEMMA ReplayRepeats ==
    ASSUME NEW R \in Revisions, \A i \in DOMAIN Program[R] : Program[R][i].of # "unseen",
           NEW n \in 0..Len(Program[R]), NEW d \in Draws(R, n), NEW capture \in BOOLEAN,
           NEW log, log = LogOf(R, d, capture), Answered(log),
           NEW tape, tape = TapeOf(R, d, capture),
           NEW m \in 0..Len(Program[R]), NEW e \in Draws(R, m),
           NEW again \in BOOLEAN, again <=> HasFile(tape),
           Follows(R, e, again, tape), m = Len(Program[R]) \/ Stopped(R, e, again, tape),
           NEW fresh, fresh = LogOf(R, e, again)
    PROVE  \A i \in DOMAIN log : i \in DOMAIN fresh /\ fresh[i] = log[i]
<1> DEFINE K == KeptAt(R, d, capture)
           L == KeptAt(R, e, again)
           used == TapeOf(R, e, again)
<1>1. /\ Len(Program[R]) \in Nat /\ n \in Nat /\ m \in Nat /\ DOMAIN d = 1..n /\ DOMAIN e = 1..m
      /\ Len(e) = m /\ n <= Len(Program[R])
      /\ \A i \in 1..n : d[i] = None <=> Program[R][i].kind # "DRAW"
      /\ \A i \in 1..m : e[i] = None <=> Program[R][i].kind # "DRAW"
  BY DrawsFacts
<1>2. /\ \A i \in 1..n : Program[R][i].kind = "DRAW" <=> i \in K
      /\ Written(R, d, capture) = 1..n
  BY AnsweredIsKept
<1>3. /\ K \in SUBSET Nat /\ K \in SUBSET (1..n) /\ IsFiniteSet(K)
      /\ tape \in Seq(Inputs) /\ Cardinality(K) \in Nat /\ Len(tape) = Cardinality(K)
      /\ \A i \in K : Rank(K, i) \in DOMAIN tape /\ tape[Rank(K, i)] = Entry(R, d, i)
  BY TapeFacts
<1>4. /\ L \in SUBSET Nat /\ L \in SUBSET (1..m) /\ IsFiniteSet(L)
      /\ used \in Seq(Inputs) /\ Cardinality(L) \in Nat /\ Len(used) = Cardinality(L)
      /\ \A i \in L : Rank(L, i) \in DOMAIN used /\ used[Rank(L, i)] = Entry(R, e, i)
  BY TapeFacts
<1>5. ASSUME NEW i \in 1..n, Program[R][i].kind = "DRAW" PROVE Bridged(Program[R][i], again)
  <2>1. i \in K /\ Kept(Program[R][i], d[i], capture)
    BY <1>2, <1>5 DEF KeptAt
  <2>2. Program[R][i].of \in {"clock", "file"}
    BY <2>1 DEF Kept, Bridged
  <2>3. CASE Program[R][i].of = "clock"
    BY <1>5, <2>3 DEF Bridged
  <2>4. CASE Program[R][i].of = "file"
    <3>1. Rank(K, i) \in DOMAIN tape /\ tape[Rank(K, i)] = Entry(R, d, i)
      BY <1>3, <2>1
    <3>2. tape[Rank(K, i)].kind = "file"
      BY <2>4, <3>1 DEF Entry
    <3>3. again
      BY <3>1, <3>2 DEF HasFile
    <3>4. QED
      BY <1>5, <2>4, <3>3 DEF Bridged
  <2>5. QED
    BY <2>2, <2>3, <2>4
<1>6. ASSUME NEW i \in 1..n, i <= m PROVE i \in K <=> i \in L
  <2>1. i \in 1..m
    BY <1>1, <1>6
  <2>2. ASSUME i \in K PROVE i \in L
    <3>1. Bridged(Program[R][i], again)
      BY <1>2, <1>5, <2>2
    <3>2. Kept(Program[R][i], e[i], again)
      BY <1>1, <2>1, <3>1 DEF Follows
    <3>3. QED
      BY <1>1, <2>1, <3>2 DEF KeptAt
  <2>3. ASSUME i \in L PROVE i \in K
    <3>1. Program[R][i].kind = "DRAW"
      BY <2>3 DEF KeptAt, Kept, Bridged
    <3>2. QED
      BY <1>2, <3>1
  <2>4. QED
    BY <2>2, <2>3
<1>7. /\ Len(used) <= Len(tape)
      /\ \A j \in DOMAIN used : used[j] = tape[j]
  <2>1. IsPrefix(used, tape)
    BY DEF Follows
  <2>2. QED
    BY <1>3, <1>4, <2>1, PrefixAgrees
<1>8. Stopped(R, e, again, tape) =>
        /\ Bridged(Program[R][m + 1], again)
        /\ Len(used) < Len(tape) => tape[Len(used) + 1].kind # Program[R][m + 1].of
  BY <1>1 DEF Stopped
<1> HIDE DEF K, L, used
<1>9. ASSUME NEW i \in 1..n, i <= m PROVE d[i] = e[i]
  <2>1. i \in 1..m /\ i \in Nat
    BY <1>1, <1>9
  <2>2. CASE i \in K
    <3>1. i \in L
      BY <1>6, <1>9, <2>2
    <3>2. {k \in K : k <= i} = {k \in L : k <= i}
      <4>1. \A k \in K : k <= i => k \in 1..n /\ k <= m
        BY <1>1, <1>3, <1>9, <2>1
      <4>2. \A k \in L : k <= i => k \in 1..n /\ k <= m
        BY <1>1, <1>4, <1>9, <2>1
      <4>3. QED
        BY <1>6, <4>1, <4>2
    <3>3. Rank(K, i) = Rank(L, i)
      BY <3>2 DEF Rank
    <3>4. Entry(R, d, i) = Entry(R, e, i)
      BY <1>3, <1>4, <1>7, <2>2, <3>1, <3>3
    <3>5. QED
      BY <3>4 DEF Entry
  <2>3. CASE i \notin K
    BY <1>1, <1>2, <2>1, <2>3
  <2>4. QED
    BY <2>2, <2>3
<1>10. n <= m
  <2>1. SUFFICES ASSUME m < n PROVE FALSE
    BY <1>1
  <2>2. m + 1 \in 1..n /\ Stopped(R, e, again, tape)
    BY <1>1, <2>1
  <2>3. Program[R][m + 1].kind = "DRAW"
    BY <1>8, <2>2 DEF Bridged
  <2>4. m + 1 \in K
    BY <1>2, <2>2, <2>3
  <2>5. {k \in K : k <= m + 1} = L \cup {m + 1} /\ m + 1 \notin L
    <3>1. \A k \in K : k <= m + 1 <=> k <= m \/ k = m + 1
      BY <1>1, <1>3
    <3>2. \A k \in L : k \in 1..n /\ k <= m
      BY <1>1, <1>4, <2>1
    <3>3. ~(m + 1 <= m)
      BY <1>1
    <3>4. \A k \in K : k \in 1..n
      BY <1>3
    <3>5. QED
      BY <1>6, <2>4, <3>1, <3>2, <3>3, <3>4
  <2>6. Rank(K, m + 1) = Cardinality(L) + 1
    BY <1>4, <2>5, FS_AddElement DEF Rank
  <2>7. Len(used) < Len(tape) /\ tape[Len(used) + 1] = Entry(R, d, m + 1)
    BY <1>3, <1>4, <2>4, <2>6
  <2>8. tape[Len(used) + 1].kind = Program[R][m + 1].of
    BY <2>7 DEF Entry
  <2>9. QED
    BY <1>8, <2>2, <2>7, <2>8
<1>11. /\ 1..n \in SUBSET Nat /\ DOMAIN log = 1..n
       /\ \A i \in 1..n : log[i] = Line(R, d, i)
  <2>1. /\ 1..n \in SUBSET Nat /\ IsFiniteSet(1..n) /\ log \in Seq(Events)
        /\ Len(log) = Cardinality(1..n)
        /\ \A i \in 1..n : Rank(1..n, i) \in DOMAIN log /\ log[Rank(1..n, i)] = Line(R, d, i)
    BY <1>2, LogFacts
  <2>2. \A i \in 1..n : Rank(1..n, i) = i
    <3>1. 0 \notin 1..n
      BY <1>1
    <3>2. QED
      BY <1>1, <2>1, <3>1, RankOfFirst
  <2>3. Cardinality(1..n) = n
    <3>1. CASE n = 0
      BY <3>1, FS_Interval
    <3>2. CASE n # 0
      <4>1. 1 \in Int /\ n \in Int /\ ~(1 > n) /\ n - 1 + 1 = n
        BY <1>1, <3>2
      <4>2. QED
        BY <4>1, FS_Interval
    <3>3. QED
      BY <3>1, <3>2
  <2>4. QED
    BY <1>1, <2>1, <2>2, <2>3
<1>12. ASSUME NEW i \in 1..n PROVE i \in DOMAIN fresh /\ fresh[i] = Line(R, e, i)
  <2> DEFINE V == Written(R, e, again)
  <2>1. /\ V \in SUBSET Nat /\ V \in SUBSET (1..m) /\ IsFiniteSet(V)
        /\ \A k \in V : Rank(V, k) \in DOMAIN fresh /\ fresh[Rank(V, k)] = Line(R, e, k)
    BY LogFacts
  <2>2. \A k \in 1..n : k \in V
    BY <1>1, <1>5, <1>10 DEF Written
  <2>3. 0 \notin V
    BY <1>1, <2>1
  <2> HIDE DEF V
  <2>4. Rank(V, i) = i
    BY <1>1, <2>1, <2>2, <2>3, RankOfFirst
  <2>5. QED
    BY <2>1, <2>2, <2>4
<1>13. ASSUME NEW i \in 1..n PROVE Line(R, d, i) = Line(R, e, i)
  <2>1. i \in 1..m /\ \A k \in 1..i : k \in 1..n /\ k <= m
    BY <1>1, <1>10
  <2>2. \A k \in 1..i : d[k] = e[k]
    BY <1>9, <2>1
  <2>3. QED
    BY <2>1, <2>2, LinesAgree
<1>14. QED
  BY <1>11, <1>12, <1>13

\* What is drawn up to a step is drawn by the test up to that step.
LEMMA DrawsShorten ==
    ASSUME NEW R \in Revisions, NEW n \in 0..Len(Program[R]), NEW d \in Draws(R, n),
           NEW m \in 0..n
    PROVE  SubSeq(d, 1, m) \in Draws(R, m) /\ (m = n => SubSeq(d, 1, m) = d)
<1>1. /\ n \in Nat /\ m \in Nat /\ m <= n /\ d \in Seq(Values \cup {None}) /\ Len(d) = n
      /\ DOMAIN d = 1..n
      /\ \A i \in 1..n : d[i] \in Values \cup {None} /\ (d[i] = None <=> Program[R][i].kind # "DRAW")
  BY DrawsFacts
<1> DEFINE s == SubSeq(d, 1, m)
<1>2. s \in Seq(Values \cup {None}) /\ Len(s) = m /\ \A i \in 1..m : s[i] = d[i]
  BY <1>1
<1> HIDE DEF s
<1>3. s \in [1..m -> Values \cup {None}] /\ \A i \in 1..m : i \in 1..n
  BY <1>1, <1>2
<1>4. s \in Draws(R, m)
  <2> DEFINE drawn == {i \in 1..m : Program[R][i].kind = "DRAW"}
             v == [i \in drawn |-> s[i]]
  <2>1. v \in [drawn -> Values] /\ \A i \in 1..m : i \notin drawn => s[i] = None
    BY <1>1, <1>2, <1>3
  <2>2. s = [i \in 1..m |-> IF i \in drawn THEN v[i] ELSE None]
    BY <1>3, <2>1
  <2>3. QED
    BY <2>1, <2>2 DEF Draws
<1>5. m = n => s = d
  BY <1>1, <1>2
<1>6. QED
  BY <1>4, <1>5 DEF s

-----------------------------------------------------------------------------
(* A step of one request leaves the others alone.                          *)

Stays(s) ==
    /\ pc'[s] = pc[s] /\ asked'[s] = asked[s] /\ loaded'[s] = loaded[s]
    /\ target'[s] = target[s] /\ before'[s] = before[s] /\ jvm'[s] = jvm[s]
    /\ answer'[s] = answer[s]

\* Requests that have ended do nothing more.
Calm == \A s \in Requests : Stays(s) \/ pc[s] # "done"

\* And their runs do not come back.
StayGone == \A s \in Requests : pc[s] = "done" /\ HasRun(s)' => HasRun(s)

\* So a recording stays what it was.
LEMMA FaithfulStays ==
    ASSUME Calm, NEW x, Faithful(x, pc, jvm)
    PROVE  Faithful(x, pc', jvm')
  BY DEF Calm, Stays, Faithful

\* The invariant, from what the acting request and the store do.
LEMMA Frame ==
    ASSUME IInv, Calm, StayGone, Shape', tree' >= tree,
           \A s \in Requests : Stays(s) \/ (Going(s)' /\ Told(s)'),
           AllFaithful'
    PROVE  IInv'
<1>1. ASSUME NEW s \in Requests, Stays(s) PROVE Going(s)' /\ Told(s)'
  <2>1. Going(s) /\ Told(s) /\ tree \in Nat /\ tree' \in Nat
    BY RecordingsAssumption DEF IInv, Shape, Tables, Revisions
  <2>2. \A R \in Revisions : R \in Nat
    BY RecordingsAssumption DEF Revisions
  <2>3. Faithful(loaded[s], pc, jvm) => Faithful(loaded'[s], pc', jvm')
    BY <1>1, FaithfulStays DEF Stays
  <2>4. Going(s)'
    BY <1>1, <2>1, <2>2, <2>3 DEF Going, Stays
  <2>5. Verified(s)'
    BY <1>1, <2>1, <2>3 DEF Told, Verified, Stays
  <2>6. Diverged(s)'
    BY <1>1, <2>1 DEF Told, Diverged, Stays, StayGone
  <2>7. QED
    BY <2>4, <2>5, <2>6 DEF Told
<1>2. QED
  BY <1>1 DEF IInv

\* The store's recordings when a step does not write them.
LEMMA StoreStays ==
    ASSUME AllFaithful, Calm,
           recordings' = recordings \/ \E rows : Prune(rows, recordings)
    PROVE  AllFaithful'
<1>1. ASSUME NEW id \in DOMAIN recordings'
      PROVE  id \in DOMAIN recordings /\ recordings'[id] = recordings[id]
  BY DEF Prune, Restrict
<1>2. QED
  BY <1>1, FaithfulStays DEF AllFaithful

\* Retention takes rows away, and adds none.
LEMMA PrunedRows ==
    ASSUME NEW T, NEW rows \in Seq(T), NEW stored, Prune(rows, stored)
    PROVE  /\ retained' \in Seq(T)
           /\ \A i \in DOMAIN retained' : \E j \in DOMAIN rows : retained'[i] = rows[j]
<1>1. PICK k \in 0..Len(rows) : retained' = SubSeq(rows, k + 1, Len(rows))
  BY DEF Prune
<1>2. Len(rows) \in Nat /\ k \in Nat /\ k <= Len(rows)
  BY <1>1
<1>3. /\ SubSeq(rows, k + 1, Len(rows)) \in Seq(T)
      /\ Len(SubSeq(rows, k + 1, Len(rows))) = Len(rows) - k
      /\ \A i \in 1..Len(rows) - k : SubSeq(rows, k + 1, Len(rows))[i] = rows[k + i]
  BY <1>2
<1>4. \A i \in 1..Len(rows) - k : k + i \in DOMAIN rows
  BY <1>2
<1>5. QED
  BY <1>1, <1>3, <1>4

\* So a run whose row is gone stays gone, unless its own request starts it.
LEMMA PrunedStayGone ==
    ASSUME retained \in Seq(Rows),
           retained' = retained \/ \E stored : Prune(retained, stored)
    PROVE  StayGone
<1>1. \A i \in DOMAIN retained' : \E j \in DOMAIN retained : retained'[i] = retained[j]
  BY PrunedRows
<1>2. QED
  BY <1>1 DEF StayGone, HasRun

\* A request that is answered with anything but "verified" or "diverged" has no more to
\* keep.
LEMMA RefusedIsDone ==
    ASSUME Shape, NEW r \in Requests, NEW status, status \notin {"verified", "diverged"},
           Reply(r, Plain(status))
    PROVE  Going(r)' /\ Told(r)' /\ pc'[r] = "done"
<1>1. pc'[r] = "done" /\ answer'[r].status = status
  BY DEF Shape, Tables, Reply, Goto, Plain, Answer
<1>2. QED
  BY <1>1 DEF Going, Told, Verified, Diverged

\* A request that has not been answered was not told "verified".
LEMMA NotToldYet ==
    ASSUME IInv, NEW r \in Requests, pc[r] # "done", answer'[r] = answer[r]
    PROVE  Told(r)'
  BY DEF IInv, Told, Verified, Diverged

-----------------------------------------------------------------------------
(* The actions.                                                            *)

\* A request moves on and the worktree stays.
LEMMA ShapeKept ==
    ASSUME Shape, NEW r \in Requests, NEW place \in {"check", "start", "work", "finish", "read", "done"},
           Goto(r, place), tree' = tree, Tables',
           retained' = retained \/ retained' \in Seq(Rows)
    PROVE  Shape' /\ tree' >= tree
<1>1. pc' \in [Requests -> {"idle", "check", "start", "work", "finish", "read", "done"}]
  BY DEF Shape, Goto
<1>2. tree \in Revisions /\ tree >= tree
  BY RecordingsAssumption DEF Shape, Revisions
<1>3. QED
  BY <1>1, <1>2 DEF Shape

\* A request that does not touch the store.
LEMMA StayGoneKept ==
    ASSUME retained' = retained
    PROVE  StayGone
  BY DEF StayGone, HasRun

\* record asks for a run.
LEMMA RecordStep ==
    ASSUME IInv, NEW r \in Recorders, NEW capture \in BOOLEAN, Record(r, capture) PROVE IInv'
<1>1. r \in Requests /\ Shape /\ pc[r] = "idle"
  BY DEF Requests, IInv, Record
<1>2. Shape' /\ tree' >= tree
  <2>1. Tables'
    BY <1>1 DEF Shape, Tables, Record
  <2>2. \E place \in {"start"} : Goto(r, place)
    BY <1>1 DEF Record
  <2>3. tree' = tree /\ retained' = retained
    BY <1>1 DEF Record
  <2>4. QED
    BY <1>1, <2>1, <2>2, <2>3, ShapeKept
<1>3. \A s \in Requests \ {r} : Stays(s)
  BY <1>1 DEF Shape, Tables, Record, Goto, Stays
<1>4. Calm /\ StayGone
  BY <1>1, <1>3, StayGoneKept DEF Calm, Record
<1>5. /\ pc'[r] = "start" /\ asked'[r].cmd = "record" /\ asked'[r].capture = capture
      /\ answer' = answer
  BY <1>1 DEF Shape, Tables, Record, Goto, Ask
<1>6. Going(r)' /\ Told(r)'
  BY <1>1, <1>5, NotToldYet DEF Going
<1>7. AllFaithful'
  BY <1>4, StoreStays DEF IInv, Record
<1>8. QED
  BY <1>2, <1>3, <1>4, <1>6, <1>7, Frame

\* The recording a replay or reverse begins with is in the store.
LEMMA LoadStep ==
    ASSUME IInv, NEW r \in Requests, pc[r] = "idle", Calm, NEW recording, NEW n,
           Faithful(recording, pc, jvm), Aimed(recording, asked'[r], n), asked'[r].cmd # "record",
           Load(r, recording, n)
    PROVE  Going(r)' /\ Told(r)'
<1>1. Shape
  BY DEF IInv
<1>2. pc'[r] = "check" /\ loaded'[r] = recording /\ target'[r] = n /\ answer' = answer
  BY <1>1 DEF Shape, Tables, Load, Goto
<1>3. Faithful(recording, pc', jvm')
  BY FaithfulStays
<1>4. QED
  BY <1>2, <1>3, NotToldYet DEF Going

\* replay_at
LEMMA ReplayStep ==
    ASSUME IInv, NEW r \in Players, NEW held \in Recorders, NEW i \in 1..MaxEvents,
           Replay(r, held, i)
    PROVE  IInv'
<1> DEFINE recording == Stored(answer[held].id)
           n == Position(recording, held, i)
<1>1. r \in Requests /\ Shape /\ pc[r] = "idle"
  BY DEF Requests, IInv, Replay
<1>2. \/ \E status \in {"not_found", "unsupported"} : Refuse(r, status)
      \/ n # 0 /\ recording.unavailable = {} /\ Load(r, recording, n)
  BY DEF Replay
<1>3. /\ UNCHANGED <<tree, retained, recordings, before, jvm>>
      /\ asked' = [asked EXCEPT ![r] = Ask("replay", FALSE, held, i, NoWant)]
  BY DEF Replay
<1>4. n # 0 => /\ recording.run = held /\ i \in DOMAIN recording.events /\ n = i
               /\ Faithful(recording, pc, jvm)
  <2>1. n # 0 => recording.run = held /\ i \in DOMAIN recording.events /\ n = i
    BY DEF Position
  <2>2. NoRecording.events = <<>>
    BY DEF NoRecording, RecordingOf
  <2>3. n # 0 => recording # NoRecording
    BY <2>1, <2>2
  <2>4. QED
    BY <2>1, <2>3 DEF Stored, IInv, AllFaithful
<1> HIDE DEF recording, n
<1>5. Shape' /\ tree' >= tree
  <2>1. Tables'
    BY <1>2, <1>3, <1>1 DEF Shape, Tables, Refuse, Load, Reply
  <2>2. \E place \in {"check", "done"} : Goto(r, place)
    BY <1>2, <1>3, <1>1 DEF Refuse, Load, Reply
  <2>3. tree' = tree /\ retained' = retained
    BY <1>2, <1>3, <1>1
  <2>4. QED
    BY <1>1, <2>1, <2>2, <2>3, ShapeKept
<1>6. \A s \in Requests \ {r} : Stays(s)
  BY <1>1, <1>2, <1>3 DEF Shape, Tables, Refuse, Load, Reply, Goto, Stays
<1>7. Calm /\ StayGone
  BY <1>1, <1>6, <1>3, StayGoneKept DEF Calm
<1>8. Going(r)' /\ Told(r)'
  <2>1. CASE \E status \in {"not_found", "unsupported"} : Refuse(r, status)
    BY <1>1, <2>1, RefusedIsDone DEF Refuse
  <2>2. CASE n # 0 /\ recording.unavailable = {} /\ Load(r, recording, n)
    <3>1. asked'[r] = Ask("replay", FALSE, held, i, NoWant)
      BY <1>1, <1>3 DEF Shape, Tables
    <3>2. Aimed(recording, asked'[r], n) /\ asked'[r].cmd # "record"
      BY <1>4, <2>2, <3>1 DEF Aimed, Ask
    <3>3. QED
      BY <1>1, <1>4, <1>7, <2>2, <3>2, LoadStep
  <2>3. QED
    BY <1>2, <2>1, <2>2
<1>9. AllFaithful'
  BY <1>3, <1>7, StoreStays DEF IInv
<1>10. QED
  BY <1>5, <1>6, <1>7, <1>8, <1>9, Frame

\* reverse
LEMMA ReverseStep ==
    ASSUME IInv, NEW r \in Players, NEW held \in Recorders, NEW i \in 1..MaxEvents,
           NEW want \in Wants, ReverseFrom(r, held, i, want)
    PROVE  IInv'
<1> DEFINE recording == Stored(answer[held].id)
           start == Position(recording, held, i)
           n == Previous(recording.events, start, want)
<1>1. r \in Requests /\ Shape /\ pc[r] = "idle"
  BY DEF Requests, IInv, ReverseFrom
<1>2. \/ \E status \in {"not_found", "unsupported", "position"} : Refuse(r, status)
      \/ /\ ValidWant(want) /\ start # 0 /\ n # 0 /\ recording.unavailable = {}
         /\ Load(r, recording, n)
  BY DEF ReverseFrom
<1>3. /\ UNCHANGED <<tree, retained, recordings, before, jvm>>
      /\ asked' = [asked EXCEPT ![r] = Ask("reverse", FALSE, held, i, want)]
  BY DEF ReverseFrom
<1>4. start # 0 => /\ recording.run = held /\ i \in DOMAIN recording.events /\ start = i
                   /\ Faithful(recording, pc, jvm)
  <2>1. start # 0 => recording.run = held /\ i \in DOMAIN recording.events /\ start = i
    BY DEF Position
  <2>2. NoRecording.events = <<>>
    BY DEF NoRecording, RecordingOf
  <2>3. start # 0 => recording # NoRecording
    BY <2>1, <2>2
  <2>4. QED
    BY <2>1, <2>3 DEF Stored, IInv, AllFaithful
<1> HIDE DEF recording, start
<1>5. ValidWant(want) /\ start # 0 /\ n # 0 => Nearest(recording.events, i, want, n)
  BY <1>4, PreviousIsNearest DEF Faithful
<1> HIDE DEF n
<1>6. Shape' /\ tree' >= tree
  <2>1. Tables'
    BY <1>2, <1>3, <1>1 DEF Shape, Tables, Refuse, Load, Reply
  <2>2. \E place \in {"check", "done"} : Goto(r, place)
    BY <1>2, <1>3, <1>1 DEF Refuse, Load, Reply
  <2>3. tree' = tree /\ retained' = retained
    BY <1>2, <1>3, <1>1
  <2>4. QED
    BY <1>1, <2>1, <2>2, <2>3, ShapeKept
<1>7. \A s \in Requests \ {r} : Stays(s)
  BY <1>1, <1>2, <1>3 DEF Shape, Tables, Refuse, Load, Reply, Goto, Stays
<1>8. Calm /\ StayGone
  BY <1>1, <1>7, <1>3, StayGoneKept DEF Calm
<1>9. Going(r)' /\ Told(r)'
  <2>1. CASE \E status \in {"not_found", "unsupported", "position"} : Refuse(r, status)
    BY <1>1, <2>1, RefusedIsDone DEF Refuse
  <2>2. CASE /\ ValidWant(want) /\ start # 0 /\ n # 0 /\ recording.unavailable = {}
             /\ Load(r, recording, n)
    <3>1. asked'[r] = Ask("reverse", FALSE, held, i, want)
      BY <1>1, <1>3 DEF Shape, Tables
    <3>2. /\ asked'[r].cmd = "reverse" /\ asked'[r].held = held /\ asked'[r].event = i
          /\ asked'[r].want = want
      BY <3>1 DEF Ask
    <3>3. Aimed(recording, asked'[r], n)
      BY <1>4, <1>5, <2>2, <3>2 DEF Aimed, Nearest
    <3>4. asked'[r].cmd # "record"
      BY <3>2
    <3>5. QED
      BY <1>1, <1>4, <1>8, <2>2, <3>3, <3>4, LoadStep
  <2>3. QED
    BY <1>2, <2>1, <2>2
<1>10. AllFaithful'
  BY <1>3, <1>8, StoreStays DEF IInv
<1>11. QED
  BY <1>6, <1>7, <1>8, <1>9, <1>10, Frame

\* verify_replay_event compares revisions.
LEMMA CheckStep ==
    ASSUME IInv, NEW r \in Requests, Check(r) PROVE IInv'
<1>1. Shape /\ pc[r] = "check"
  BY DEF IInv, Check
<1>2. /\ UNCHANGED <<tree, retained, recordings, asked, loaded, target, before, jvm>>
      /\ (Goto(r, "start") /\ UNCHANGED answer) \/ Reply(r, Plain("moved"))
  BY DEF Check
<1>3. Shape' /\ tree' >= tree
  <2>1. Tables'
    BY <1>1, <1>2 DEF Shape, Tables, Reply
  <2>2. \E place \in {"start", "done"} : Goto(r, place)
    BY <1>1, <1>2 DEF Reply
  <2>3. tree' = tree /\ retained' = retained
    BY <1>2
  <2>4. QED
    BY <1>1, <2>1, <2>2, <2>3, ShapeKept
<1>4. \A s \in Requests \ {r} : Stays(s)
  BY <1>1, <1>2 DEF Shape, Tables, Reply, Goto, Stays
<1>5. Calm /\ StayGone
  BY <1>1, <1>4, <1>2, StayGoneKept DEF Calm
<1>6. Going(r)' /\ Told(r)'
  <2>1. CASE Goto(r, "start") /\ UNCHANGED answer
    <3>1. pc'[r] = "start"
      BY <1>1, <2>1 DEF Shape, Tables, Goto
    <3>2. asked[r].cmd # "record" =>
            Faithful(loaded[r], pc', jvm') /\ Aimed(loaded[r], asked[r], target[r])
      BY <1>1, <1>5, FaithfulStays DEF IInv, Going
    <3>3. asked[r].cmd = "record" => asked[r].capture \in BOOLEAN
      BY <1>1 DEF IInv, Going
    <3>4. QED
      BY <1>1, <1>2, <2>1, <3>1, <3>2, <3>3, NotToldYet DEF Going
  <2>2. CASE Reply(r, Plain("moved"))
    BY <1>1, <2>2, RefusedIsDone
  <2>3. QED
    BY <1>2, <2>1, <2>2
<1>7. AllFaithful'
  BY <1>2, <1>5, StoreStays DEF IInv
<1>8. QED
  BY <1>3, <1>4, <1>5, <1>6, <1>7, Frame

\* begin_run
LEMMA StartStep ==
    ASSUME IInv, NEW r \in Requests, Start(r) PROVE IInv'
<1>1. Shape /\ pc[r] = "start"
  BY DEF IInv, Start
<1>2. /\ UNCHANGED <<tree, recordings, asked, loaded, target, jvm, answer>>
      /\ before' = [before EXCEPT ![r] = tree] /\ Goto(r, "work")
      /\ retained' = Append(retained, RunRow(r))
  BY DEF Start
<1>3. Shape' /\ tree' >= tree
  <2>1. Tables'
    BY <1>1, <1>2 DEF Shape, Tables
  <2>2. \E place \in {"work"} : Goto(r, place)
    BY <1>2
  <2>3. tree' = tree /\ retained' \in Seq(Rows)
    <3>1. RunRow(r) \in Rows
      BY DEF Rows
    <3>2. retained \in Seq(Rows)
      BY <1>1 DEF Shape
    <3>3. QED
      BY <1>2, <3>1, <3>2
  <2>4. QED
    BY <1>1, <2>1, <2>2, <2>3, ShapeKept
<1>4. \A s \in Requests \ {r} : Stays(s)
  BY <1>1, <1>2 DEF Shape, Tables, Goto, Stays
<1>5. Calm /\ StayGone
  <2>1. ASSUME NEW s \in Requests \ {r}, HasRun(s)' PROVE HasRun(s)
    <3>1. RunRow(s) # RunRow(r)
      BY DEF RunRow
    <3>2. retained \in Seq(Rows)
      BY <1>1 DEF Shape
    <3>3. QED
      BY <1>2, <2>1, <3>1, <3>2 DEF HasRun
  <2>2. QED
    BY <1>1, <1>4, <2>1 DEF Calm, StayGone
<1>6. Going(r)' /\ Told(r)'
  <2>1. pc'[r] = "work" /\ before'[r] = tree /\ tree \in Revisions /\ tree <= tree
    BY <1>1, <1>2, RecordingsAssumption DEF Shape, Tables, Goto, Revisions
  <2>2. asked[r].cmd # "record" =>
          Faithful(loaded[r], pc', jvm') /\ Aimed(loaded[r], asked[r], target[r])
    BY <1>1, <1>5, FaithfulStays DEF IInv, Going
  <2>3. asked[r].cmd = "record" => asked[r].capture \in BOOLEAN
    BY <1>1 DEF IInv, Going
  <2>4. QED
    BY <1>1, <1>2, <2>1, <2>2, <2>3, NotToldYet DEF Going
<1>7. AllFaithful'
  BY <1>2, <1>5, StoreStays DEF IInv
<1>8. QED
  BY <1>3, <1>4, <1>5, <1>6, <1>7, Frame

\* A run that fails.
LEMMA FailsStep ==
    ASSUME IInv, NEW r \in Requests, Fails(r) PROVE IInv'
<1>1. Shape /\ pc[r] # "done"
  BY DEF IInv, Fails
<1>2. /\ UNCHANGED <<tree, retained, recordings, asked, loaded, target, before, jvm>>
      /\ Reply(r, Plain("error"))
  BY DEF Fails
<1>3. Shape' /\ tree' >= tree
  <2>1. Tables'
    BY <1>1, <1>2 DEF Shape, Tables, Reply
  <2>2. \E place \in {"done"} : Goto(r, place)
    BY <1>1, <1>2 DEF Reply
  <2>3. tree' = tree /\ retained' = retained
    BY <1>2
  <2>4. QED
    BY <1>1, <2>1, <2>2, <2>3, ShapeKept
<1>4. \A s \in Requests \ {r} : Stays(s)
  BY <1>1, <1>2 DEF Shape, Tables, Reply, Goto, Stays
<1>5. Calm /\ StayGone
  BY <1>1, <1>4, <1>2, StayGoneKept DEF Calm
<1>6. Going(r)' /\ Told(r)'
  BY <1>1, <1>2, RefusedIsDone
<1>7. AllFaithful'
  BY <1>2, <1>5, StoreStays DEF IInv
<1>8. QED
  BY <1>3, <1>4, <1>5, <1>6, <1>7, Frame

\* What a worker did that got as far as step n, without the last line when it is lost.
Outcome(r, R, n, d, lost) ==
    [revision |-> R,
     events |-> LogOf(R, SubSeq(d, 1, n - lost), CaptureFiles(r)),
     tape |-> TapeOf(R, d, CaptureFiles(r)),
     cut |-> \/ lost = 1
             \/ /\ n < Len(Program[R])
                /\ ~(asked[r].cmd # "record" /\ Stopped(R, d, CaptureFiles(r), loaded[r].tape))]
Worked(r, R, n, d, lost) ==
    /\ asked[r].cmd # "record" => Follows(R, d, CaptureFiles(r), loaded[r].tape)
    /\ lost = 1 => n > 0 /\ Kept(Program[R][n], d[n], CaptureFiles(r))

\* What the worker executes is a recording's test or follows the replayed tape.
LEMMA WorkedWell ==
    ASSUME NEW r \in Requests, NEW R \in Revisions, NEW n \in 0..Len(Program[R]),
           NEW d \in Draws(R, n), NEW lost \in {0, 1}, Worked(r, R, n, d, lost),
           CaptureFiles(r) \in BOOLEAN, NEW y, y = Outcome(r, R, n, d, lost)
    PROVE  /\ y.revision = R /\ y.events \in Seq(Events)
           /\ asked[r].cmd = "record" => Made(y)
           /\ asked[r].cmd # "record" => Replayed(y, loaded[r].tape)
<1> DEFINE m == n - lost
           e == SubSeq(d, 1, m)
           capture == CaptureFiles(r)
<1>1. /\ y.revision = R /\ y.events = LogOf(R, e, capture) /\ y.tape = TapeOf(R, d, capture)
  BY DEF Outcome
<1>2. ~y.cut => /\ lost = 0
                /\ \/ ~(n < Len(Program[R]))
                   \/ Stopped(R, d, capture, loaded[r].tape)
  BY DEF Outcome
<1>3. Len(Program[R]) \in Nat /\ n \in Nat /\ n <= Len(Program[R])
  BY DrawsFacts
<1>4. lost = 1 => n > 0 /\ Kept(Program[R][n], d[n], capture)
  BY DEF Worked
<1>5. m \in 0..n /\ m \in 0..Len(Program[R]) /\ (lost = 0 => m = n) /\ (lost = 1 => m = n - 1)
  BY <1>3, <1>4
<1> HIDE DEF m
<1>6. e \in Draws(R, m) /\ (m = n => e = d)
  BY <1>5, DrawsShorten
<1> HIDE DEF e, capture
<1>7. capture \in BOOLEAN
  BY DEF capture
<1>8. y.events \in Seq(Events)
  BY <1>1, <1>5, <1>6, <1>7, LogFacts
<1>9. Made(y)
  <2>1. CASE lost = 0
    <3>1. y.events = LogOf(R, d, capture)
      BY <1>1, <1>5, <1>6, <2>1
    <3>2. QED
      BY <1>1, <1>7, <3>1 DEF Made
  <2>2. CASE lost = 1
    <3>1. n > 0 /\ Kept(Program[R][n], d[n], capture) /\ e \in Draws(R, n - 1)
      BY <1>4, <1>5, <1>6, <2>2
    <3>2. QED
      BY <1>1, <1>7, <3>1 DEF Made
  <2>3. QED
    BY <2>1, <2>2
<1>10. ASSUME asked[r].cmd # "record" PROVE Replayed(y, loaded[r].tape)
  <2>1. Follows(R, d, capture, loaded[r].tape)
    BY <1>10 DEF Worked, capture
  <2>2. capture <=> HasFile(loaded[r].tape)
    BY <1>10 DEF CaptureFiles, HasFile, capture
  <2>3. ASSUME ~y.cut
        PROVE  /\ n = Len(Program[R]) \/ Stopped(R, d, capture, loaded[r].tape)
               /\ y.events = LogOf(R, d, capture)
    BY <1>1, <1>2, <1>3, <1>5, <1>6, <2>3
  <2>4. QED
    BY <1>1, <1>7, <2>1, <2>2, <2>3 DEF Replayed
<1>11. QED
  BY <1>1, <1>8, <1>9, <1>10

\* The worker gets somewhere.
LEMMA WorkGets ==
    ASSUME NEW r \in Requests, Work(r)
    PROVE  \E n \in 0..Len(Program[tree]) : \E d \in Draws(tree, n), lost \in {0, 1} :
             Worked(r, tree, n, d, lost) /\ jvm' = [jvm EXCEPT ![r] = Outcome(r, tree, n, d, lost)]
  BY DEF Work, Worked, Outcome

\* The worker executes the test on the revision it finds.
LEMMA WorkStep ==
    ASSUME IInv, NEW r \in Requests, Work(r) PROVE IInv'
<1>1. Shape /\ pc[r] = "work"
  BY DEF IInv, Work
<1>2. /\ UNCHANGED <<tree, retained, recordings, asked, loaded, target, before, answer>>
      /\ Goto(r, "finish")
  BY DEF Work
<1>3. PICK n \in 0..Len(Program[tree]) : \E d \in Draws(tree, n), lost \in {0, 1} :
        Worked(r, tree, n, d, lost) /\ jvm' = [jvm EXCEPT ![r] = Outcome(r, tree, n, d, lost)]
  BY WorkGets
<1>4. PICK d \in Draws(tree, n), lost \in {0, 1} :
        Worked(r, tree, n, d, lost) /\ jvm' = [jvm EXCEPT ![r] = Outcome(r, tree, n, d, lost)]
  BY <1>3
<1> DEFINE y == Outcome(r, tree, n, d, lost)
<1>5. jvm' = [jvm EXCEPT ![r] = y]
  BY <1>4
<1>6. tree \in Revisions
  BY <1>1 DEF Shape
<1>7. CaptureFiles(r) \in BOOLEAN
  <2>1. asked[r].cmd = "record" => asked[r].capture \in BOOLEAN
    BY <1>1 DEF IInv, Going
  <2>2. QED
    BY <2>1 DEF CaptureFiles
<1>8. /\ y.revision = tree /\ y.events \in Seq(Events)
      /\ asked[r].cmd = "record" => Made(y)
      /\ asked[r].cmd # "record" => Replayed(y, loaded[r].tape)
  BY <1>4, <1>6, <1>7, WorkedWell
<1> HIDE DEF y
<1>10. Shape' /\ tree' >= tree
  <2>1. Tables'
    BY <1>1, <1>2, <1>5 DEF Shape, Tables
  <2>2. \E place \in {"finish"} : Goto(r, place)
    BY <1>2
  <2>3. tree' = tree /\ retained' = retained
    BY <1>2
  <2>4. QED
    BY <1>1, <2>1, <2>2, <2>3, ShapeKept
<1>11. \A s \in Requests \ {r} : Stays(s)
  BY <1>1, <1>2, <1>5 DEF Shape, Tables, Goto, Stays
<1>12. Calm /\ StayGone
  BY <1>1, <1>11, <1>2, StayGoneKept DEF Calm
<1>13. Going(r)' /\ Told(r)'
  <2>1. /\ pc'[r] = "finish" /\ jvm'[r] = y /\ y.revision = tree /\ y.events \in Seq(Events)
        /\ tree \in Revisions /\ tree <= tree
    BY <1>1, <1>2, <1>5, <1>6, <1>8, RecordingsAssumption DEF Shape, Tables, Goto, Revisions
  <2>2. before[r] \in Revisions /\ before[r] <= tree
    BY <1>1 DEF IInv, Going
  <2>3. asked[r].cmd # "record" =>
          Faithful(loaded[r], pc', jvm') /\ Aimed(loaded[r], asked[r], target[r])
    BY <1>1, <1>12, FaithfulStays DEF IInv, Going
  <2>4. /\ asked[r].cmd = "record" => Made(jvm'[r])
        /\ asked[r].cmd # "record" => Replayed(jvm'[r], loaded[r].tape)
    <3>1. jvm'[r] = y
      BY <2>1
    <3>2. QED
      BY <1>8, <3>1, Zenon
  <2>5. /\ jvm'[r].revision = tree /\ jvm'[r].events \in Seq(Events)
    BY <2>1
  <2>6. pc'[r] = "finish" /\ UNCHANGED <<tree, asked, loaded, target, before, answer>>
    BY <1>2, <2>1
  <2>7. Told(r)'
    BY <1>1, <2>6, NotToldYet
  <2>8. Going(r)'
    BY <2>1, <2>2, <2>3, <2>4, <2>5, <2>6 DEF Going
  <2>9. QED
    BY <2>7, <2>8
<1>14. AllFaithful'
  BY <1>2, <1>12, StoreStays DEF IInv
<1>15. QED
  BY <1>10, <1>11, <1>12, <1>13, <1>14, Frame

\* finish_run: a run goes on only when the worktree is as it was before.
LEMMA FinishStep ==
    ASSUME IInv, NEW r \in Requests, Finish(r) PROVE IInv'
<1>1. Shape /\ pc[r] = "finish"
  BY DEF IInv, Finish
<1>2. /\ UNCHANGED <<tree, asked, loaded, target, before, jvm>>
      /\ \/ \E status \in {"error", "stale"} : Reply(r, Plain(status))
         \/ tree = before[r] /\ Goto(r, "read") /\ UNCHANGED answer
      /\ UNCHANGED <<retained, recordings>> \/ Prune(retained, recordings)
  BY DEF Finish, Settled
<1>3. Shape' /\ tree' >= tree
  <2>1. Tables'
    BY <1>1, <1>2 DEF Shape, Tables, Reply
  <2>2. \E place \in {"read", "done"} : Goto(r, place)
    BY <1>1, <1>2 DEF Reply
  <2>3. tree' = tree /\ (retained' = retained \/ retained' \in Seq(Rows))
    BY <1>1, <1>2, PrunedRows DEF Shape
  <2>4. QED
    BY <1>1, <2>1, <2>2, <2>3, ShapeKept
<1>4. \A s \in Requests \ {r} : Stays(s)
  BY <1>1, <1>2 DEF Shape, Tables, Reply, Goto, Stays
<1>5. Calm /\ StayGone
  BY <1>1, <1>2, <1>4, PrunedStayGone DEF Calm, Shape
<1>6. Going(r)' /\ Told(r)'
  <2>1. CASE tree = before[r] /\ Goto(r, "read") /\ UNCHANGED answer
    <3>1. pc'[r] = "read"
      BY <1>1, <2>1 DEF Shape, Tables, Goto
    <3>2. /\ before[r] \in Revisions /\ jvm[r].revision \in Revisions
          /\ before[r] <= jvm[r].revision /\ jvm[r].revision <= tree
          /\ jvm[r].events \in Seq(Events)
          /\ asked[r].cmd = "record" => Made(jvm[r])
          /\ asked[r].cmd # "record" => Replayed(jvm[r], loaded[r].tape)
      BY <1>1 DEF IInv, Going
    <3>3. jvm[r].revision = before[r]
      BY <2>1, <3>2, RecordingsAssumption DEF Revisions
    <3>4. asked[r].cmd # "record" =>
            Faithful(loaded[r], pc', jvm') /\ Aimed(loaded[r], asked[r], target[r])
      BY <1>1, <1>5, FaithfulStays DEF IInv, Going
    <3>5. QED
      BY <1>1, <1>2, <2>1, <3>1, <3>2, <3>3, <3>4, NotToldYet DEF Going
  <2>2. CASE \E status \in {"error", "stale"} : Reply(r, Plain(status))
    BY <1>1, <2>2, RefusedIsDone
  <2>3. QED
    BY <1>2, <2>1, <2>2
<1>7. AllFaithful'
  BY <1>2, <1>5, StoreStays DEF IInv
<1>8. QED
  BY <1>3, <1>4, <1>5, <1>6, <1>7, Frame

\* What is read back is a prefix of what was executed.
LEMMA StoredIsPrefix ==
    ASSUME NEW r \in Requests, jvm[r].events \in Seq(Events),
           NEW events, events = StoredEvents(r)
    PROVE  /\ events \in Seq(Events) /\ IsPrefix(events, jvm[r].events)
           /\ Len(events) <= Len(jvm[r].events) /\ Len(events) <= MaxEvents
           /\ \A i \in 1..Len(events) : events[i] = jvm[r].events[i]
           /\ HasRun(r) => Len(events) = MaxEvents \/ Len(events) = Len(jvm[r].events)
<1> DEFINE all == jvm[r].events
           m == Min({MaxEvents, Len(all)})
           k == IF HasRun(r) THEN m ELSE 0
<1>1. Len(all) \in Nat /\ MaxEvents \in Nat
  BY RecordingsAssumption
<1>2. m \in {MaxEvents, Len(all)} /\ m \in Nat /\ m <= Len(all) /\ m <= MaxEvents
  <2>1. \E x \in {MaxEvents, Len(all)} : \A y \in {MaxEvents, Len(all)} : x <= y
    BY <1>1
  <2>2. /\ m \in {MaxEvents, Len(all)} /\ \A y \in {MaxEvents, Len(all)} : m <= y
    BY <2>1 DEF Min
  <2>3. QED
    BY <1>1, <2>2
<1>3. /\ k \in Nat /\ k <= Len(all) /\ k <= MaxEvents
      /\ HasRun(r) => k \in {MaxEvents, Len(all)}
  BY <1>1, <1>2
<1>4. events = SubSeq(all, 1, k)
  <2>1. CASE HasRun(r)
    BY <2>1 DEF StoredEvents
  <2>2. CASE ~HasRun(r)
    BY <2>2 DEF StoredEvents
  <2>3. QED
    BY <2>1, <2>2
<1> HIDE DEF k, m
<1>5. /\ SubSeq(all, 1, k) \in Seq(Events) /\ Len(SubSeq(all, 1, k)) = k
      /\ \A i \in 1..k : SubSeq(all, 1, k)[i] = all[i]
      /\ IsPrefix(SubSeq(all, 1, k), all)
  BY <1>3, AgreeingIsPrefix
<1>6. QED
  BY <1>3, <1>4, <1>5

\* The rows after an INSERT OR REPLACE of one.
UpsertedWith(rows, row, upserted) ==
    /\ \A i \in DOMAIN upserted : upserted[i] = row \/ \E j \in DOMAIN rows : upserted[i] = rows[j]
    /\ \E i \in DOMAIN upserted : upserted[i] = row
    /\ \A j \in DOMAIN rows : \E i \in DOMAIN upserted : upserted[i] = rows[j]

\* INSERT OR REPLACE leaves the other rows and adds this one.
LEMMA UpsertedRows ==
    ASSUME NEW rows \in Seq(Rows), NEW row \in Rows, NEW upserted, upserted = Upsert(rows, row)
    PROVE  upserted \in Seq(Rows) /\ UpsertedWith(rows, row, upserted)
<1> DEFINE I == {i \in DOMAIN rows : rows[i] # row}
           kept == Picked(rows, I)
<1>1. I \in SUBSET DOMAIN rows
  OBVIOUS
<1>2. /\ kept \in Seq(Rows) /\ Len(kept) = Cardinality(I) /\ Cardinality(I) \in Nat
      /\ \A j \in 1..Cardinality(I) : \E i \in I : kept[j] = rows[i]
      /\ \A i \in I : Rank(I, i) \in 1..Cardinality(I) /\ kept[Rank(I, i)] = rows[i]
  <2> HIDE DEF I
  <2>1. QED
    BY <1>1, PickedFacts
<1>3. upserted = Append(kept, row)
  BY DEF Upsert
<1> HIDE DEF kept
<1>4. /\ upserted \in Seq(Rows) /\ DOMAIN upserted = 1..Cardinality(I) + 1
      /\ upserted[Cardinality(I) + 1] = row
      /\ \A j \in 1..Cardinality(I) : upserted[j] = kept[j]
  <2> DEFINE c == Cardinality(I)
  <2>1. c \in Nat /\ Len(kept) = c /\ kept \in Seq(Rows)
    BY <1>2
  <2> HIDE DEF c
  <2>2. /\ upserted \in Seq(Rows) /\ DOMAIN upserted = 1..c + 1 /\ upserted[c + 1] = row
        /\ \A j \in 1..c : upserted[j] = kept[j]
    BY <1>3, <2>1
  <2>3. QED
    BY <2>2 DEF c
<1>5. \A i \in DOMAIN upserted : i \in 1..Cardinality(I) \/ i = Cardinality(I) + 1
  BY <1>2, <1>4
<1>6. \A i \in 1..Cardinality(I) : i \in DOMAIN upserted
  BY <1>2, <1>4
<1>7. Cardinality(I) + 1 \in DOMAIN upserted
  BY <1>2, <1>4
<1>8. \A j \in DOMAIN rows : \E i \in DOMAIN upserted : upserted[i] = rows[j]
  <2>1. ASSUME NEW j \in DOMAIN rows PROVE \E i \in DOMAIN upserted : upserted[i] = rows[j]
    <3>1. CASE rows[j] = row
      BY <1>4, <1>7, <3>1
    <3>2. CASE rows[j] # row
      BY <1>2, <1>4, <1>6, <3>2
    <3>3. QED
      BY <3>1, <3>2
  <2>2. QED
    BY <2>1
<1>9. \A i \in DOMAIN upserted : upserted[i] = row \/ \E j \in DOMAIN rows : upserted[i] = rows[j]
  <2>1. \A i \in I : i \in DOMAIN rows
    OBVIOUS
  <2> HIDE DEF I
  <2>2. QED
    BY <1>2, <1>4, <1>5, <2>1
<1>10. QED
  BY <1>4, <1>7, <1>8, <1>9 DEF UpsertedWith

\* The end of record_with_options: what is saved is what was executed.
LEMMA SaveStep ==
    ASSUME IInv, NEW r \in Requests, Save(r) PROVE IInv'
<1> DEFINE events == StoredEvents(r)
           id == <<before[r], IF events = <<>> THEN None ELSE StateHash(Last(events))>>
           unavailable == Unavailable(jvm[r].events)
           recording == RecordingOf(r, before[r], events, jvm[r].tape, unavailable)
           stored == [x \in DOMAIN recordings \cup {id} |->
                            IF x = id THEN recording ELSE recordings[x]]
           status == IF unavailable = {} THEN "ok" ELSE "partial"
<1>1. Shape /\ pc[r] = "read" /\ asked[r].cmd = "record"
  BY DEF IInv, Save
<1>2. UNCHANGED <<tree, asked, loaded, target, before, jvm>>
  BY DEF Save
<1>3. \/ Reply(r, Plain("error")) /\ UNCHANGED <<retained, recordings>>
      \/ /\ Reply(r, Answer(status, id, None))
         /\ Prune(Upsert(retained, RecordingRow(id)), stored)
  BY DEF Save
<1>4. /\ events \in Seq(Events) /\ IsPrefix(events, jvm[r].events)
      /\ Len(events) <= MaxEvents
  BY <1>1, StoredIsPrefix DEF IInv, Going
<1>5. /\ recording.run = r /\ recording.revision = before[r] /\ recording.events = events
      /\ recording.tape = jvm[r].tape /\ recording.unavailable = unavailable
  BY DEF RecordingOf
<1>6. Prune(Upsert(retained, RecordingRow(id)), stored) =>
        \A x \in DOMAIN recordings' :
          \/ recordings'[x] = recording
          \/ x \in DOMAIN recordings /\ recordings'[x] = recordings[x]
  BY DEF Prune, Restrict
<1>7. status \notin {"verified", "diverged"}
  OBVIOUS
<1> HIDE DEF events
<1>8. RecordingRow(id) \in Rows
  <2>1. before[r] \in Revisions
    BY <1>1 DEF IInv, Going
  <2>2. events # <<>> => StateHash(Last(events)) \in Events
    BY <1>4 DEF StateHash, Last
  <2>3. id \in RecordingIds
    BY <2>1, <2>2 DEF RecordingIds
  <2>4. QED
    BY <2>3 DEF Rows
<1> HIDE DEF id, recording, stored, status
<1>9. /\ Upsert(retained, RecordingRow(id)) \in Seq(Rows)
       /\ \A s \in Requests : \A i \in DOMAIN Upsert(retained, RecordingRow(id)) :
            Upsert(retained, RecordingRow(id))[i] = RunRow(s) => HasRun(s)
  <2>1. \A s \in Requests : RunRow(s) # RecordingRow(id)
    BY DEF RunRow, RecordingRow
  <2>2. retained \in Seq(Rows)
    BY <1>1 DEF Shape
  <2>3. QED
    BY <1>8, <2>1, <2>2, UpsertedRows DEF HasRun, UpsertedWith
<1>10. Shape' /\ tree' >= tree
  <2>1. Tables'
    BY <1>1, <1>2, <1>3 DEF Shape, Tables, Reply
  <2>2. \E place \in {"done"} : Goto(r, place)
    BY <1>1, <1>2, <1>3 DEF Reply
  <2>3. tree' = tree /\ (retained' = retained \/ retained' \in Seq(Rows))
    BY <1>2, <1>3, <1>9, PrunedRows
  <2>4. QED
    BY <1>1, <2>1, <2>2, <2>3, ShapeKept
<1>11. \A s \in Requests \ {r} : Stays(s)
  BY <1>1, <1>2, <1>3 DEF Shape, Tables, Reply, Goto, Stays
<1>12. Calm /\ StayGone
  <2>1. Calm
    BY <1>1, <1>11 DEF Calm
  <2>2. CASE retained' = retained
    BY <2>1, <2>2, StayGoneKept
  <2>3. CASE Prune(Upsert(retained, RecordingRow(id)), stored)
    <3>1. \A i \in DOMAIN retained' : \E j \in DOMAIN Upsert(retained, RecordingRow(id)) :
            retained'[i] = Upsert(retained, RecordingRow(id))[j]
      BY <1>9, <2>3, PrunedRows
    <3>2. \A s \in Requests : HasRun(s)' => HasRun(s)
      BY <1>9, <3>1 DEF HasRun
    <3>3. QED
      BY <2>1, <3>2 DEF StayGone
  <2>4. QED
    BY <1>3, <2>2, <2>3
<1>13. pc'[r] = "done" /\ answer'[r].status \notin {"verified", "diverged"}
  BY <1>1, <1>3, <1>7 DEF Shape, Tables, Reply, Goto, Plain, Answer
<1>14. Going(r)' /\ Told(r)'
  BY <1>13 DEF Going, Told, Verified, Diverged
<1>15. Faithful(recording, pc', jvm')
  BY <1>1, <1>2, <1>4, <1>5, <1>13 DEF IInv, Going, Faithful
<1>16. AllFaithful'
  <2>1. CASE recordings' = recordings
    BY <1>12, <2>1, StoreStays DEF IInv
  <2>2. CASE Prune(Upsert(retained, RecordingRow(id)), stored)
    BY <1>6, <1>12, <1>15, <2>2, FaithfulStays DEF IInv, AllFaithful
  <2>3. QED
    BY <1>3, <2>1, <2>2
<1>17. QED
  BY <1>10, <1>11, <1>12, <1>14, <1>16, Frame

\* A complete recording is of all that its JVM did: every call is answered, and the tape is
\* that of the log.
LEMMA CompleteRuns ==
    ASSUME NEW y, Made(y), Unavailable(y.events) = {}
    PROVE  /\ y.revision \in Revisions /\ Answered(y.events)
           /\ \E n \in 0..Len(Program[y.revision]), capture \in BOOLEAN :
                \E d \in Draws(y.revision, n) :
                    /\ y.tape = TapeOf(y.revision, d, capture)
                    /\ y.events = LogOf(y.revision, d, capture)
<1> DEFINE R == y.revision
<1>1. R \in Revisions
  BY DEF Made
<1>2. PICK n \in 0..Len(Program[R]), capture \in BOOLEAN : \E d \in Draws(R, n) :
        /\ y.tape = TapeOf(R, d, capture)
        /\ \/ y.events = LogOf(R, d, capture)
           \/ /\ n > 0 /\ Kept(Program[R][n], d[n], capture)
              /\ \E e \in Draws(R, n - 1) : y.events = LogOf(R, e, capture)
  BY DEF Made
<1>3. PICK d \in Draws(R, n) :
        /\ y.tape = TapeOf(R, d, capture)
        /\ \/ y.events = LogOf(R, d, capture)
           \/ /\ n > 0 /\ Kept(Program[R][n], d[n], capture)
              /\ \E e \in Draws(R, n - 1) : y.events = LogOf(R, e, capture)
  BY <1>2
<1> HIDE DEF R
<1>4. ASSUME NEW e \in Draws(R, n - 1), n > 0, Kept(Program[R][n], d[n], capture),
             y.events = LogOf(R, e, capture)
      PROVE  FALSE
  <2>1. Program[R] \in Seq(Steps)
    BY <1>1, RecordingsAssumption
  <2>2. n - 1 \in 0..Len(Program[R])
    BY <1>4, <2>1
  <2>3. Answered(y.events)
    BY <1>1, <1>4, <2>2, CompleteIsAnswered
  <2>4. QED
    BY <1>1, <1>4, <2>3, LostIsUnanswered
<1>5. y.events = LogOf(R, d, capture)
  BY <1>3, <1>4
<1>6. Answered(y.events)
  BY <1>1, <1>5, CompleteIsAnswered
<1>7. QED
  BY <1>1, <1>3, <1>5, <1>6 DEF R

\* A replay of the recorded revision that was not killed did what was recorded.
LEMMA FaithfulReplay ==
    ASSUME NEW x, Faithful(x, pc, jvm), x.unavailable = {}, ~Hides(x.revision),
           NEW y, Replayed(y, x.tape), ~y.cut, y.revision = x.revision
    PROVE  \A i \in DOMAIN jvm[x.run].events :
             i \in DOMAIN y.events /\ y.events[i] = jvm[x.run].events[i]
<1> DEFINE told == jvm[x.run]
           R == x.revision
<1>1. told.revision = R /\ x.tape = told.tape /\ Made(told) /\ Unavailable(told.events) = {}
  BY DEF Faithful
<1>2. \A i \in DOMAIN Program[R] : Program[R][i].of # "unseen"
  BY DEF Hides
<1>3. PICK m \in 0..Len(Program[R]), again \in BOOLEAN : \E e \in Draws(R, m) :
        /\ again <=> HasFile(x.tape)
        /\ Follows(R, e, again, x.tape)
        /\ m = Len(Program[R]) \/ Stopped(R, e, again, x.tape)
        /\ y.events = LogOf(R, e, again)
  BY DEF Replayed
<1>4. PICK e \in Draws(R, m) :
        /\ again <=> HasFile(x.tape)
        /\ Follows(R, e, again, x.tape)
        /\ m = Len(Program[R]) \/ Stopped(R, e, again, x.tape)
        /\ y.events = LogOf(R, e, again)
  BY <1>3
<1> HIDE DEF told, R
<1>5. R \in Revisions /\ Answered(told.events)
  BY <1>1, CompleteRuns
<1>6. PICK n \in 0..Len(Program[R]), capture \in BOOLEAN : \E d \in Draws(R, n) :
        told.tape = TapeOf(R, d, capture) /\ told.events = LogOf(R, d, capture)
  BY <1>1, CompleteRuns
<1>7. PICK d \in Draws(R, n) :
        told.tape = TapeOf(R, d, capture) /\ told.events = LogOf(R, d, capture)
  BY <1>6
<1>8. \A i \in DOMAIN told.events : i \in DOMAIN y.events /\ y.events[i] = told.events[i]
  BY <1>1, <1>2, <1>4, <1>5, <1>7, ReplayRepeats
<1>9. QED
  BY <1>8 DEF told

\* The end of verify_replay_event: "verified" is said of what was compared.
LEMMA CompareStep ==
    ASSUME IInv, NEW r \in Requests, Compare(r) PROVE IInv'
<1> DEFINE fresh == StoredEvents(r)
           same == SamePrefix(loaded[r], fresh, target[r])
<1>1. Shape /\ pc[r] = "read" /\ asked[r].cmd # "record"
  BY DEF IInv, Compare
<1>2. /\ UNCHANGED <<tree, retained, recordings, asked, loaded, target, before, jvm>>
      /\ \/ same /\ Reply(r, Answer("verified", None, <<loaded[r].run, target[r]>>))
         \/ ~same /\ Reply(r, Plain("diverged"))
  BY DEF Compare
<1>3. Shape' /\ tree' >= tree
  <2>1. Tables'
    BY <1>1, <1>2 DEF Shape, Tables, Reply
  <2>2. \E place \in {"done"} : Goto(r, place)
    BY <1>1, <1>2 DEF Reply
  <2>3. tree' = tree /\ retained' = retained
    BY <1>2
  <2>4. QED
    BY <1>1, <2>1, <2>2, <2>3, ShapeKept
<1>4. \A s \in Requests \ {r} : Stays(s)
  BY <1>1, <1>2 DEF Shape, Tables, Reply, Goto, Stays
<1>5. Calm /\ StayGone
  BY <1>1, <1>4, <1>2, StayGoneKept DEF Calm
<1>6. Going(r)' /\ Told(r)'
  <2>1. CASE same /\ Reply(r, Answer("verified", None, <<loaded[r].run, target[r]>>))
    <3>1. /\ pc'[r] = "done" /\ answer'[r].event = <<loaded[r].run, target[r]>>
      BY <1>1, <2>1 DEF Shape, Tables, Reply, Goto, Answer
    <3>2. Faithful(loaded[r], pc, jvm) /\ Aimed(loaded[r], asked[r], target[r])
      BY <1>1 DEF IInv, Going
    <3>3. Faithful(loaded[r], pc', jvm')
      BY <1>5, <3>2, FaithfulStays
    <3>4. jvm[r].events \in Seq(Events)
      BY <1>1 DEF IInv, Going
    <3>5. /\ fresh \in Seq(Events) /\ Len(fresh) <= Len(jvm[r].events)
          /\ \A i \in 1..Len(fresh) : fresh[i] = jvm[r].events[i]
      BY <3>4, StoredIsPrefix
    <3> HIDE DEF fresh
    <3>6. target[r] <= Len(fresh) /\ \A i \in 1..target[r] : loaded[r].events[i] = fresh[i]
      BY <2>1 DEF SamePrefix
    <3>7. target[r] \in Nat
      BY <3>2 DEF Aimed, Faithful
    <3>8. /\ target[r] <= Len(jvm[r].events)
          /\ \A i \in 1..target[r] : loaded[r].events[i] = jvm[r].events[i]
      BY <3>4, <3>5, <3>6, <3>7
    <3>9. answer'[r].status = "verified"
      BY <1>1, <2>1 DEF Shape, Tables, Reply, Answer
    <3>10. Going(r)'
      BY <3>1 DEF Going
    <3>11. Verified(r)'
      BY <1>2, <3>1, <3>2, <3>3, <3>4, <3>8 DEF Verified
    <3>12. Diverged(r)'
      BY <3>9 DEF Diverged
    <3>13. QED
      BY <3>10, <3>11, <3>12 DEF Told
  <2>2. CASE ~same /\ Reply(r, Plain("diverged"))
    <3>1. pc'[r] = "done" /\ answer'[r].status = "diverged"
      BY <1>1, <2>2 DEF Shape, Tables, Reply, Goto, Plain, Answer
    <3>2. /\ jvm[r].events \in Seq(Events) /\ Replayed(jvm[r], loaded[r].tape)
          /\ Faithful(loaded[r], pc, jvm) /\ Aimed(loaded[r], asked[r], target[r])
      BY <1>1 DEF IInv, Going
    <3>3. ASSUME jvm[r].revision = loaded[r].revision, ~jvm[r].cut, HasRun(r),
                 ~Hides(loaded[r].revision)
          PROVE  same
      <4> DEFINE told == jvm[loaded[r].run].events
      <4>1. \A i \in DOMAIN told : i \in DOMAIN jvm[r].events /\ jvm[r].events[i] = told[i]
        BY <3>2, <3>3, FaithfulReplay DEF Aimed
      <4>2. /\ loaded[r].events \in Seq(Events) /\ IsPrefix(loaded[r].events, told)
            /\ Len(loaded[r].events) <= MaxEvents /\ told \in Seq(Events)
        BY <3>2 DEF Faithful
      <4> HIDE DEF told
      <4>3. /\ Len(loaded[r].events) <= Len(jvm[r].events)
            /\ \A i \in DOMAIN loaded[r].events : loaded[r].events[i] = jvm[r].events[i]
        <5>1. /\ Len(loaded[r].events) <= Len(told)
              /\ \A i \in DOMAIN loaded[r].events : loaded[r].events[i] = told[i]
          BY <4>2, PrefixAgrees
        <5>2. \A i \in DOMAIN loaded[r].events : i \in DOMAIN told
          BY <4>2, <5>1
        <5>3. \A i \in DOMAIN loaded[r].events :
                i \in DOMAIN jvm[r].events /\ loaded[r].events[i] = jvm[r].events[i]
          BY <4>1, <5>1, <5>2
        <5>4. Len(loaded[r].events) <= Len(jvm[r].events)
          BY <3>2, <4>2, <5>3
        <5>5. QED
          BY <5>3, <5>4
      <4>4. target[r] \in DOMAIN loaded[r].events
        BY <3>2 DEF Aimed
      <4>5. /\ fresh \in Seq(Events)
            /\ \A i \in 1..Len(fresh) : fresh[i] = jvm[r].events[i]
            /\ Len(fresh) = MaxEvents \/ Len(fresh) = Len(jvm[r].events)
        BY <3>2, <3>3, StoredIsPrefix
      <4> HIDE DEF fresh
      <4>6. /\ target[r] \in Nat /\ target[r] <= Len(loaded[r].events)
            /\ Len(loaded[r].events) \in Nat /\ Len(fresh) \in Nat
        BY <4>2, <4>4, <4>5
      <4>7. target[r] <= Len(fresh)
        BY <3>2, <4>2, <4>3, <4>5, <4>6, RecordingsAssumption
      <4>8. \A i \in 1..target[r] : loaded[r].events[i] = fresh[i]
        BY <4>2, <4>3, <4>5, <4>6, <4>7
      <4>9. QED
        BY <4>7, <4>8 DEF SamePrefix
    <3>4. HasRun(r)' <=> HasRun(r)
      BY <1>2 DEF HasRun
    <3> HIDE DEF same
    <3>5. Diverged(r)'
      BY <1>2, <2>2, <3>1, <3>3, <3>4 DEF Diverged
    <3>6. QED
      BY <3>1, <3>5 DEF Going, Told, Verified
  <2>3. QED
    BY <1>2, <2>1, <2>2
<1>7. AllFaithful'
  BY <1>2, <1>5, StoreStays DEF IInv
<1>8. QED
  BY <1>3, <1>4, <1>5, <1>6, <1>7, Frame

\* An edit: revisions only grow.
LEMMA EditStep ==
    ASSUME IInv, Edit PROVE IInv'
<1>1. Shape
  BY DEF IInv
<1>2. /\ UNCHANGED <<retained, recordings, pc, asked, loaded, target, before, jvm, answer>>
      /\ tree' = tree + 1 /\ tree < MaxRevision
  BY DEF Edit
<1>3. Shape' /\ tree' >= tree
  BY <1>1, <1>2, RecordingsAssumption DEF Shape, Tables, Revisions
<1>4. (\A s \in Requests : Stays(s)) /\ Calm /\ StayGone
  BY <1>2, StayGoneKept DEF Stays, Calm
<1>5. AllFaithful'
  BY <1>2, <1>4, StoreStays DEF IInv
<1>6. QED
  BY <1>3, <1>4, <1>5, Frame

-----------------------------------------------------------------------------
(* Theorems.                                                               *)

\* A daemon that has no recordings and no requests.
LEMMA InitIInv ==
    ASSUME Init PROVE IInv
<1>1. Shape
  BY RecordingsAssumption DEF Init, Shape, Tables, Revisions
<1>2. \A r \in Requests : pc[r] = "idle" /\ answer[r].status = "none"
  BY DEF Init, Plain, Answer
<1>3. \A r \in Requests : Going(r) /\ Told(r)
  BY <1>2 DEF Going, Told, Verified, Diverged
<1>4. AllFaithful
  BY DEF Init, AllFaithful
<1>5. QED
  BY <1>1, <1>3, <1>4 DEF IInv

\* Whatever requests, the worker and the developer do next.
LEMMA NextIInv ==
    ASSUME IInv, [Next]_vars PROVE IInv'
<1>1. CASE UNCHANGED vars
  BY <1>1 DEF vars, IInv, Shape, Tables, Going, Told, Verified, Diverged, HasRun, AllFaithful
<1>2. CASE \E r \in Recorders, capture \in Captures : Record(r, capture)
  BY <1>2, RecordStep, RecordingsAssumption
<1>3. CASE \E r \in Players, held \in Recorders, i \in 1..MaxEvents :
             Replay(r, held, i) \/ \E want \in Wants : ReverseFrom(r, held, i, want)
  BY <1>3, ReplayStep, ReverseStep
<1>4. CASE \E r \in Requests :
             Check(r) \/ Start(r) \/ Fails(r) \/ Work(r) \/ Finish(r) \/ Save(r) \/ Compare(r)
  BY <1>4, CheckStep, StartStep, FailsStep, WorkStep, FinishStep, SaveStep, CompareStep
<1>5. CASE Edit
  BY <1>5, EditStep
<1>6. QED
  BY <1>1, <1>2, <1>3, <1>4, <1>5 DEF Next

\* The invariant holds of every behaviour.
THEOREM Invariance == Spec => []IInv
<1>1. Init => IInv
  BY InitIInv
<1>2. IInv /\ [Next]_vars => IInv'
  BY NextIInv
<1>3. QED
  BY <1>1, <1>2, PTL DEF Spec

\* A stored recording is what its worker executed on the revision it is bound to, for
\* any edits while it ran and whatever retention took away (record_with_options).
THEOREM RecordingsAreOfTheirRevision == Spec => []RecordingIsOfItsRevision
<1>1. IInv => RecordingIsOfItsRevision
  BY DEF IInv, AllFaithful, Faithful, RecordingIsOfItsRevision
<1>2. QED
  BY <1>1, Invariance, PTL

\* What is called verified is the recording and the event the client holds, and the
\* replaying JVM did the same up to it (replay_at, reverse, verify_replayed_prefix).
THEOREM VerifiedAnswersAreExact == Spec => []VerifiedIsExact
<1>1. ASSUME IInv, NEW r \in Requests, answer[r].status = "verified"
      PROVE  LET held == answer[r].event[1]
                 n == answer[r].event[2]
                 told == jvm[held].events
             IN  /\ held = asked[r].held
                 /\ asked[r].cmd = "replay" => n = asked[r].event
                 /\ n <= Len(told)
                 /\ IsPrefix(SubSeq(told, 1, n), jvm[r].events)
  <2> DEFINE x == loaded[r]
             n == target[r]
             told == jvm[x.run].events
             own == jvm[r].events
  <2>1. /\ Faithful(x, pc, jvm) /\ Aimed(x, asked[r], n) /\ answer[r].event = <<x.run, n>>
        /\ own \in Seq(Events) /\ n <= Len(own)
        /\ \A i \in 1..n : x.events[i] = own[i]
    BY <1>1 DEF IInv, Told, Verified
  <2>2. /\ x.run = asked[r].held /\ (asked[r].cmd = "replay" => n = asked[r].event)
        /\ n \in DOMAIN x.events
    BY <2>1 DEF Aimed
  <2>3. told \in Seq(Events) /\ x.events \in Seq(Events) /\ IsPrefix(x.events, told)
    BY <2>1 DEF Faithful
  <2> HIDE DEF x, n, told, own
  <2>4. Len(x.events) <= Len(told) /\ \A i \in DOMAIN x.events : x.events[i] = told[i]
    BY <2>3, PrefixAgrees
  <2>5. n \in Nat /\ n <= Len(told) /\ \A i \in 1..n : told[i] = own[i]
    BY <2>1, <2>2, <2>3, <2>4
  <2>6. IsPrefix(SubSeq(told, 1, n), own)
    BY <2>1, <2>3, <2>5, AgreeingIsPrefix
  <2>7. answer[r].event[1] = x.run /\ answer[r].event[2] = n
    BY <2>1
  <2>8. QED
    BY <2>2, <2>5, <2>6, <2>7 DEF told, own
<1>2. IInv => VerifiedIsExact
  BY <1>1 DEF VerifiedIsExact
<1>3. QED
  BY <1>2, Invariance, PTL

\* A reverse answers with the nearest earlier event that was meant
\* (JvmReplayBackend::reverse, matches_request).
THEOREM ReversesAreNearest == Spec => []ReverseIsNearest
<1>1. ASSUME IInv, NEW r \in Requests, answer[r].status = "verified", asked[r].cmd = "reverse"
      PROVE  LET n == answer[r].event[2]
                 told == jvm[asked[r].held].events
                 want == asked[r].want
                 Meant(i) == /\ want.step \in {None, told[i].kind}
                             /\ want.until \in {None, told[i].at}
                             /\ want.watch \in {None, told[i].field}
             IN  /\ n < asked[r].event
                 /\ Meant(n)
                 /\ \A i \in n + 1 .. asked[r].event - 1 : ~Meant(i)
  <2> DEFINE x == loaded[r]
             n == target[r]
             told == jvm[x.run].events
             want == asked[r].want
             start == asked[r].event
             Meant(i) == /\ want.step \in {None, told[i].kind}
                         /\ want.until \in {None, told[i].at}
                         /\ want.watch \in {None, told[i].field}
  <2>1. /\ Faithful(x, pc, jvm) /\ Aimed(x, asked[r], n) /\ answer[r].event = <<x.run, n>>
    BY <1>1 DEF IInv, Told, Verified
  <2>2. x.run = asked[r].held /\ Nearest(x.events, start, want, n)
    BY <1>1, <2>1 DEF Aimed
  <2>3. told \in Seq(Events) /\ x.events \in Seq(Events) /\ IsPrefix(x.events, told)
    BY <2>1 DEF Faithful
  <2> HIDE DEF x, n, told, want, start
  <2>4. \A i \in DOMAIN x.events : x.events[i] = told[i]
    BY <2>3, PrefixAgrees
  <2>5. ValidWant(want)
    BY <2>2 DEF Nearest
  <2>6. \A i \in DOMAIN x.events : Meant(i) <=> Matches(x.events[i], want)
    <3> SUFFICES ASSUME NEW i \in DOMAIN x.events
                 PROVE  Meant(i) <=> Matches(x.events[i], want)
      OBVIOUS
    <3>1. x.events[i] = told[i]
      BY <2>4
    <3>2. None # "WRITE"
      BY RecordingsAssumption DEF Kinds
    <3>3. CASE want.step = None
      <4>1. want.until # None /\ want.watch = None
        BY <2>5, <3>2, <3>3, Zenon DEF ValidWant
      <4>2. QED
        BY <3>1, <3>3, <4>1 DEF Matches
    <3>4. CASE want.step # None
      <4>1. want.until = None
        BY <2>5, <3>4, Zenon DEF ValidWant
      <4>2. QED
        BY <3>1, <3>4, <4>1 DEF Matches
    <3>5. QED
      BY <3>3, <3>4
  <2>7. start \in DOMAIN x.events /\ n \in DOMAIN x.events /\ n < start /\ Meant(n)
    BY <2>2, <2>6 DEF Nearest
  <2>8. \A i \in n + 1 .. start - 1 : i \in DOMAIN x.events
    BY <2>3, <2>7
  <2>9. \A i \in n + 1 .. start - 1 : ~Meant(i)
    BY <2>2, <2>6, <2>8 DEF Nearest
  <2>10. answer[r].event[2] = n
    BY <2>1
  <2>11. QED
    BY <2>2, <2>7, <2>9, <2>10 DEF told, want, start
<1>2. IInv => ReverseIsNearest
  BY <1>1 DEF ReverseIsNearest
<1>3. QED
  BY <1>2, Invariance, PTL

\* What is called verified was replayed from a recording in which every boundary call that
\* the log shows was answered by an input of its own, and from the tape of these inputs,
\* for every test, every file too long to keep and every place where the JVM is killed (the
\* capability rules of ingest_events).
THEOREM VerifiedAnswersAreComplete == Spec => []VerifiedIsComplete
<1>1. ASSUME IInv, NEW r \in Requests, answer[r].status = "verified"
      PROVE  LET log == jvm[asked[r].held].events
             IN  /\ \A i \in Calls(log, Sources) :
                     i + 1 \in DOMAIN log /\ log[i + 1].kind = "INPUT" /\ log[i + 1].of = log[i].of
                 /\ Len(jvm[asked[r].held].tape) =
                     Cardinality({i \in DOMAIN log : log[i].kind = "INPUT"})
  <2> DEFINE x == loaded[r]
             held == jvm[x.run]
             R == held.revision
  <2>1. Faithful(x, pc, jvm) /\ Aimed(x, asked[r], target[r])
    BY <1>1 DEF IInv, Told, Verified
  <2>2. x.run = asked[r].held /\ x.unavailable = {}
    BY <2>1 DEF Aimed
  <2>3. Made(held) /\ Unavailable(held.events) = {}
    BY <2>1, <2>2 DEF Faithful
  <2> HIDE DEF x, held
  <2>4. R \in Revisions /\ Answered(held.events)
    BY <2>3, CompleteRuns
  <2>5. PICK n \in 0..Len(Program[R]), capture \in BOOLEAN : \E d \in Draws(R, n) :
          held.tape = TapeOf(R, d, capture) /\ held.events = LogOf(R, d, capture)
    BY <2>3, CompleteRuns
  <2>6. Len(held.tape) = Cardinality({i \in DOMAIN held.events : held.events[i].kind = "INPUT"})
    BY <2>4, <2>5, TapeCountsInputs
  <2>7. QED
    BY <2>2, <2>4, <2>6 DEF held, Answered
<1>2. IInv => VerifiedIsComplete
  BY <1>1 DEF VerifiedIsComplete
<1>3. QED
  BY <1>2, Invariance, PTL

\* On one thread a replay of the recorded revision whose JVM was not killed and whose run is
\* still there is never called diverged, when the test draws only what some rule of the
\* agent knows: then the inputs on a complete tape determine what the test does (InputTape,
\* verify_replay_event, verify_replayed_prefix).
THEOREM FaithfulReplaysDoNotDiverge == Spec => []NoFalseDivergence
<1>1. IInv => NoFalseDivergence
  BY DEF IInv, Told, Diverged, NoFalseDivergence, Hides
<1>2. QED
  BY <1>1, Invariance, PTL

-----------------------------------------------------------------------------
(* Types.                                                                  *)

\* The rows of retention and the recordings go together.
StoreTyped(rows, stored) ==
    /\ \A i \in DOMAIN rows :
        \/ \E r \in Requests : rows[i] = RunRow(r)
        \/ \E id \in DOMAIN stored : rows[i] = RecordingRow(id)
    /\ \A id \in DOMAIN stored :
        /\ id \in RecordingIds /\ IsRecording(stored[id])
        /\ \E i \in DOMAIN rows : rows[i] = RecordingRow(id)

AskTyped(a) ==
    /\ a.cmd \in {"none", "record", "replay", "reverse"}
    /\ a.capture \in BOOLEAN /\ a.held \in Requests \cup {None}
    /\ a.event \in 0..MaxEvents /\ a.want \in Wants \cup {NoWant}
LoadTyped(x, n) == (x = NoRecording \/ IsRecording(x)) /\ n \in 0..Len(x.events)
AnswerTyped(a) ==
    /\ a.status \in Statuses /\ a.id \in RecordingIds \cup {None}
    /\ a.event \in EventIds \cup {None}
RequestTyped(r) ==
    /\ AskTyped(asked[r]) /\ LoadTyped(loaded[r], target[r])
    /\ before[r] \in Revisions \cup {None}
    /\ jvm[r] = NoRun \/ jvm[r].revision \in Revisions
    /\ AnswerTyped(answer[r])
    /\ pc[r] = "done" <=> answer[r].status # "none"

TInv == IInv /\ StoreTyped(retained, recordings) /\ \A r \in Requests : RequestTyped(r)

\* Other requests keep their types.
LEMMA TypedFrame ==
    ASSUME TInv, IInv', NEW r \in Requests, \A s \in Requests \ {r} : Stays(s), RequestTyped(r)',
           UNCHANGED <<retained, recordings>> \/ StoreTyped(retained', recordings')
    PROVE  TInv'
<1>1. ASSUME NEW s \in Requests \ {r} PROVE RequestTyped(s)'
  BY DEF TInv, RequestTyped, Stays
<1>2. StoreTyped(retained, recordings)'
  BY DEF TInv, StoreTyped
<1>3. QED
  BY <1>1, <1>2 DEF TInv

\* The acting request: what of it stays, and what it is given.
LEMMA ActingTyped ==
    ASSUME NEW r \in Requests, RequestTyped(r), pc[r] # "done",
           asked'[r] = asked[r] \/ AskTyped(asked'[r]),
           (loaded'[r] = loaded[r] /\ target'[r] = target[r]) \/ LoadTyped(loaded'[r], target'[r]),
           before'[r] = before[r] \/ before'[r] \in Revisions,
           jvm'[r] = jvm[r] \/ jvm'[r].revision \in Revisions,
           \/ answer'[r] = answer[r] /\ pc'[r] # "done"
           \/ AnswerTyped(answer'[r]) /\ answer'[r].status # "none" /\ pc'[r] = "done"
    PROVE  RequestTyped(r)'
  BY DEF RequestTyped

\* An answer without a recording or an event.
LEMMA PlainTyped ==
    ASSUME Shape, NEW r \in Requests, NEW status \in Statuses, status # "none", Reply(r, Plain(status))
    PROVE  AnswerTyped(answer'[r]) /\ answer'[r].status # "none" /\ pc'[r] = "done"
<1>1. answer'[r] = Answer(status, None, None) /\ pc'[r] = "done"
  BY DEF Shape, Tables, Reply, Goto, Plain
<1>2. QED
  BY <1>1 DEF AnswerTyped, Answer

\* A request that moves on.
LEMMA GotoTyped ==
    ASSUME Shape, NEW r \in Requests, NEW place, place # "done", Goto(r, place), UNCHANGED answer
    PROVE  answer'[r] = answer[r] /\ pc'[r] # "done"
  BY DEF Shape, Goto

\* Retention keeps rows and recordings together.
LEMMA PruneTyped ==
    ASSUME NEW rows \in Seq(Rows), NEW stored, StoreTyped(rows, stored), Prune(rows, stored)
    PROVE  StoreTyped(retained', recordings')
<1>1. /\ retained' \in Seq(Rows)
      /\ \A i \in DOMAIN retained' : \E j \in DOMAIN rows : retained'[i] = rows[j]
  BY PrunedRows
<1>2. recordings' = Restrict(stored, {id \in DOMAIN stored : RecordingRow(id) \in ToSet(retained')})
  BY DEF Prune
<1>3. /\ DOMAIN recordings' = {id \in DOMAIN stored : RecordingRow(id) \in ToSet(retained')}
      /\ \A id \in DOMAIN recordings' : recordings'[id] = stored[id]
  BY <1>2 DEF Restrict
<1>4. \A id \in DOMAIN stored : RecordingRow(id) \in ToSet(retained')
                                <=> \E i \in DOMAIN retained' : retained'[i] = RecordingRow(id)
  BY DEF ToSet
<1>5. ASSUME NEW i \in DOMAIN retained'
      PROVE  \/ \E r \in Requests : retained'[i] = RunRow(r)
             \/ \E id \in DOMAIN recordings' : retained'[i] = RecordingRow(id)
  <2>1. PICK j \in DOMAIN rows : retained'[i] = rows[j]
    BY <1>1
  <2>2. CASE \E id \in DOMAIN stored : rows[j] = RecordingRow(id)
    BY <1>3, <1>4, <2>1, <2>2
  <2>3. CASE \E r \in Requests : rows[j] = RunRow(r)
    BY <2>1, <2>3
  <2>4. QED
    BY <2>2, <2>3 DEF StoreTyped
<1>6. ASSUME NEW id \in DOMAIN recordings'
      PROVE  /\ id \in RecordingIds /\ IsRecording(recordings'[id])
             /\ \E i \in DOMAIN retained' : retained'[i] = RecordingRow(id)
  BY <1>3, <1>4 DEF StoreTyped
<1>7. QED
  BY <1>5, <1>6 DEF StoreTyped

\* save_recording, too.
LEMMA UpsertTyped ==
    ASSUME NEW rows \in Seq(Rows), NEW stored, StoreTyped(rows, stored),
           NEW id \in RecordingIds, NEW x, IsRecording(x), NEW upserted, NEW into,
           upserted \in Seq(Rows), UpsertedWith(rows, RecordingRow(id), upserted),
           into = [k \in DOMAIN stored \cup {id} |-> IF k = id THEN x ELSE stored[k]]
    PROVE  StoreTyped(upserted, into)
<1> DEFINE row == RecordingRow(id)
<1>2. /\ \A i \in DOMAIN upserted : upserted[i] = row \/ \E j \in DOMAIN rows : upserted[i] = rows[j]
      /\ \E i \in DOMAIN upserted : upserted[i] = row
      /\ \A j \in DOMAIN rows : \E i \in DOMAIN upserted : upserted[i] = rows[j]
  BY DEF UpsertedWith
<1>3. /\ DOMAIN into = DOMAIN stored \cup {id}
      /\ \A k \in DOMAIN into : into[k] = x \/ (k \in DOMAIN stored /\ into[k] = stored[k])
  OBVIOUS
<1>4. ASSUME NEW i \in DOMAIN upserted
      PROVE  \/ \E r \in Requests : upserted[i] = RunRow(r)
             \/ \E k \in DOMAIN into : upserted[i] = RecordingRow(k)
  <2>1. CASE upserted[i] = row
    BY <1>3, <2>1
  <2>2. CASE \E j \in DOMAIN rows : upserted[i] = rows[j]
    BY <1>3, <2>2 DEF StoreTyped
  <2>3. QED
    BY <1>2, <2>1, <2>2
<1>5. ASSUME NEW k \in DOMAIN into
      PROVE  /\ k \in RecordingIds /\ IsRecording(into[k])
             /\ \E i \in DOMAIN upserted : upserted[i] = RecordingRow(k)
  <2>1. k \in RecordingIds /\ IsRecording(into[k])
    BY <1>3 DEF StoreTyped
  <2>2. CASE k = id
    BY <1>2, <2>1, <2>2
  <2>3. CASE k # id
    <3>1. \E j \in DOMAIN rows : rows[j] = RecordingRow(k)
      BY <1>3, <2>3 DEF StoreTyped
    <3>2. QED
      BY <1>2, <2>1, <3>1
  <2>4. QED
    BY <2>2, <2>3
<1>6. QED
  BY <1>2, <1>4, <1>5 DEF StoreTyped

\* Requests that begin.
LEMMA RecordTyped ==
    ASSUME TInv, IInv', NEW r \in Recorders, NEW capture \in BOOLEAN, Record(r, capture) PROVE TInv'
<1>1. r \in Requests /\ Shape /\ pc[r] = "idle" /\ RequestTyped(r)
  BY DEF Requests, TInv, IInv, Record
<1>2. /\ UNCHANGED <<tree, retained, recordings, loaded, target, before, jvm, answer>>
      /\ asked' = [asked EXCEPT ![r] = Ask("record", capture, None, 0, NoWant)]
      /\ Goto(r, "start")
  BY DEF Record
<1>3. \A s \in Requests \ {r} : Stays(s)
  BY <1>1, <1>2 DEF Shape, Tables, Goto, Stays
<1>4. AskTyped(asked'[r])
  <2>1. asked'[r] = Ask("record", capture, None, 0, NoWant)
    BY <1>1, <1>2 DEF Shape, Tables
  <2>2. QED
    BY <2>1, RecordingsAssumption DEF AskTyped, Ask
<1>5. answer'[r] = answer[r] /\ pc'[r] # "done"
  BY <1>1, <1>2, GotoTyped
<1>6. RequestTyped(r)'
  BY <1>1, <1>2, <1>4, <1>5, ActingTyped
<1>7. QED
  BY <1>1, <1>2, <1>3, <1>6, TypedFrame

\* A recording in the store is one.
LEMMA StoredTyped ==
    ASSUME TInv, NEW id, Stored(id) # NoRecording
    PROVE  IsRecording(Stored(id))
  BY DEF TInv, StoreTyped, Stored

\* A replay or reverse that is refused, or goes on with a recording of the store.
LEMMA AskedTyped ==
    ASSUME TInv, IInv', NEW r \in Requests, pc[r] = "idle", NEW a, AskTyped(a),
           asked' = [asked EXCEPT ![r] = a], NEW x, NEW n,
           UNCHANGED <<tree, retained, recordings, before, jvm>>,
           \/ \E status \in {"not_found", "unsupported", "position"} : Refuse(r, status)
           \/ IsRecording(x) /\ n \in DOMAIN x.events /\ Load(r, x, n)
    PROVE  TInv'
<1>1. Shape /\ RequestTyped(r)
  BY DEF TInv, IInv
<1>2. \A s \in Requests \ {r} : Stays(s)
  BY <1>1 DEF Shape, Tables, Refuse, Load, Reply, Goto, Stays
<1>3. asked'[r] = a
  BY <1>1 DEF Shape, Tables
<1>4. RequestTyped(r)'
  <2>1. CASE \E status \in {"not_found", "unsupported", "position"} : Refuse(r, status)
    <3>1. PICK status \in {"not_found", "unsupported", "position"} : Refuse(r, status)
      BY <2>1
    <3>2. status \in Statuses /\ status # "none" /\ UNCHANGED <<loaded, target>>
      BY <3>1 DEF Statuses, Refuse
    <3>3. AnswerTyped(answer'[r]) /\ answer'[r].status # "none" /\ pc'[r] = "done"
      BY <1>1, <3>1, <3>2, PlainTyped DEF Refuse
    <3>4. QED
      BY <1>1, <1>3, <3>2, <3>3, ActingTyped
  <2>2. CASE IsRecording(x) /\ n \in DOMAIN x.events /\ Load(r, x, n)
    <3>1. loaded'[r] = x /\ target'[r] = n
      BY <1>1, <2>2 DEF Shape, Tables, Load
    <3>2. LoadTyped(loaded'[r], target'[r])
      BY <2>2, <3>1 DEF LoadTyped, IsRecording
    <3>3. answer'[r] = answer[r] /\ pc'[r] # "done"
      BY <1>1, <2>2, GotoTyped DEF Load
    <3>4. QED
      BY <1>1, <1>3, <3>2, <3>3, ActingTyped
  <2>3. QED
    BY <2>1, <2>2
<1>5. QED
  BY <1>2, <1>4, TypedFrame

\* replay_at
LEMMA ReplayTyped ==
    ASSUME TInv, IInv', NEW r \in Players, NEW held \in Recorders, NEW i \in 1..MaxEvents,
           Replay(r, held, i)
    PROVE  TInv'
<1> DEFINE x == Stored(answer[held].id)
           n == Position(x, held, i)
           a == Ask("replay", FALSE, held, i, NoWant)
<1>1. r \in Requests /\ pc[r] = "idle" /\ asked' = [asked EXCEPT ![r] = a]
  BY DEF Requests, Replay
<1>2. \/ \E status \in {"not_found", "unsupported"} : Refuse(r, status)
      \/ n # 0 /\ Load(r, x, n)
  BY DEF Replay
<1>3. UNCHANGED <<tree, retained, recordings, before, jvm>>
  BY DEF Replay
<1>4. n # 0 => IsRecording(x) /\ n \in DOMAIN x.events
  <2>1. n # 0 => n = i /\ i \in DOMAIN x.events
    BY DEF Position
  <2>2. NoRecording.events = <<>>
    BY DEF NoRecording, RecordingOf
  <2>3. n # 0 => x # NoRecording
    BY <2>1, <2>2
  <2>4. QED
    BY <2>1, <2>3, StoredTyped
<1>5. AskTyped(a)
  BY RecordingsAssumption DEF AskTyped, Ask, Requests
<1> HIDE DEF x, n, a
<1>6. \/ \E status \in {"not_found", "unsupported", "position"} : Refuse(r, status)
      \/ IsRecording(x) /\ n \in DOMAIN x.events /\ Load(r, x, n)
  BY <1>2, <1>4
<1>7. QED
  BY <1>1, <1>3, <1>5, <1>6, AskedTyped

\* reverse
LEMMA ReverseTyped ==
    ASSUME TInv, IInv', NEW r \in Players, NEW held \in Recorders, NEW i \in 1..MaxEvents,
           NEW want \in Wants, ReverseFrom(r, held, i, want)
    PROVE  TInv'
<1> DEFINE x == Stored(answer[held].id)
           start == Position(x, held, i)
           n == Previous(x.events, start, want)
           a == Ask("reverse", FALSE, held, i, want)
<1>1. r \in Requests /\ pc[r] = "idle" /\ asked' = [asked EXCEPT ![r] = a]
  BY DEF Requests, ReverseFrom
<1>2. \/ \E status \in {"not_found", "unsupported", "position"} : Refuse(r, status)
      \/ ValidWant(want) /\ start # 0 /\ n # 0 /\ Load(r, x, n)
  BY DEF ReverseFrom
<1>3. UNCHANGED <<tree, retained, recordings, before, jvm>>
  BY DEF ReverseFrom
<1>4. start # 0 => IsRecording(x) /\ start \in DOMAIN x.events
  <2>1. start # 0 => start = i /\ i \in DOMAIN x.events
    BY DEF Position
  <2>2. NoRecording.events = <<>>
    BY DEF NoRecording, RecordingOf
  <2>3. start # 0 => x # NoRecording
    BY <2>1, <2>2
  <2>4. QED
    BY <2>1, <2>3, StoredTyped
<1>5. AskTyped(a)
  BY RecordingsAssumption DEF AskTyped, Ask, Requests
<1> HIDE DEF x, start, a
<1>6. ValidWant(want) /\ start # 0 /\ n # 0 => n \in DOMAIN x.events
  BY <1>4, PreviousIsNearest DEF IsRecording, Nearest
<1> HIDE DEF n
<1>7. \/ \E status \in {"not_found", "unsupported", "position"} : Refuse(r, status)
      \/ IsRecording(x) /\ n \in DOMAIN x.events /\ Load(r, x, n)
  BY <1>2, <1>4, <1>6
<1>8. QED
  BY <1>1, <1>3, <1>5, <1>7, AskedTyped

\* Requests on their way.
LEMMA CheckTyped ==
    ASSUME TInv, IInv', NEW r \in Requests, Check(r) PROVE TInv'
<1>1. Shape /\ pc[r] = "check" /\ RequestTyped(r)
  BY DEF TInv, IInv, Check
<1>2. /\ UNCHANGED <<tree, retained, recordings, asked, loaded, target, before, jvm>>
      /\ (Goto(r, "start") /\ UNCHANGED answer) \/ Reply(r, Plain("moved"))
  BY DEF Check
<1>3. \A s \in Requests \ {r} : Stays(s)
  BY <1>1, <1>2 DEF Shape, Tables, Reply, Goto, Stays
<1>4. \/ answer'[r] = answer[r] /\ pc'[r] # "done"
      \/ AnswerTyped(answer'[r]) /\ answer'[r].status # "none" /\ pc'[r] = "done"
  <2>1. CASE Goto(r, "start") /\ UNCHANGED answer
    BY <1>1, <2>1, GotoTyped
  <2>2. CASE Reply(r, Plain("moved"))
    <3>1. "moved" \in Statuses
      BY DEF Statuses
    <3>2. QED
      BY <1>1, <2>2, <3>1, PlainTyped
  <2>3. QED
    BY <1>2, <2>1, <2>2
<1>5. RequestTyped(r)'
  BY <1>1, <1>2, <1>4, ActingTyped
<1>6. QED
  BY <1>2, <1>3, <1>5, TypedFrame

\* begin_run
LEMMA StartTyped ==
    ASSUME TInv, IInv', NEW r \in Requests, Start(r) PROVE TInv'
<1>1. Shape /\ pc[r] = "start" /\ RequestTyped(r) /\ StoreTyped(retained, recordings)
  BY DEF TInv, IInv, Start
<1>2. /\ UNCHANGED <<tree, recordings, asked, loaded, target, jvm, answer>>
      /\ before' = [before EXCEPT ![r] = tree] /\ Goto(r, "work")
      /\ retained' = Append(retained, RunRow(r))
  BY DEF Start
<1>3. \A s \in Requests \ {r} : Stays(s)
  BY <1>1, <1>2 DEF Shape, Tables, Goto, Stays
<1>4. answer'[r] = answer[r] /\ pc'[r] # "done"
  BY <1>1, <1>2, GotoTyped
<1>5. before'[r] \in Revisions
  BY <1>1, <1>2 DEF Shape, Tables
<1>6. RequestTyped(r)'
  BY <1>1, <1>2, <1>4, <1>5, ActingTyped
<1>7. StoreTyped(retained', recordings')
  <2>1. retained \in Seq(Rows)
    BY <1>1 DEF Shape
  <2>2. /\ DOMAIN retained' = 1..Len(retained) + 1 /\ retained'[Len(retained) + 1] = RunRow(r)
        /\ DOMAIN retained = 1..Len(retained) /\ Len(retained) \in Nat
        /\ \A i \in 1..Len(retained) : retained'[i] = retained[i]
    BY <1>2, <2>1
  <2>3. \A i \in DOMAIN retained' : i \in DOMAIN retained \/ i = Len(retained) + 1
    BY <2>2
  <2>4. \A i \in DOMAIN retained : i \in DOMAIN retained' /\ retained'[i] = retained[i]
    BY <2>2
  <2>5. QED
    BY <1>1, <1>2, <2>2, <2>3, <2>4 DEF StoreTyped
<1>8. QED
  BY <1>3, <1>6, <1>7, TypedFrame

\* A run that fails.
LEMMA FailsTyped ==
    ASSUME TInv, IInv', NEW r \in Requests, Fails(r) PROVE TInv'
<1>1. Shape /\ pc[r] # "done" /\ RequestTyped(r)
  BY DEF TInv, IInv, Fails
<1>2. /\ UNCHANGED <<tree, retained, recordings, asked, loaded, target, before, jvm>>
      /\ Reply(r, Plain("error"))
  BY DEF Fails
<1>3. \A s \in Requests \ {r} : Stays(s)
  BY <1>1, <1>2 DEF Shape, Tables, Reply, Goto, Stays
<1>4. "error" \in Statuses
  BY DEF Statuses
<1>5. AnswerTyped(answer'[r]) /\ answer'[r].status # "none" /\ pc'[r] = "done"
  BY <1>1, <1>2, <1>4, PlainTyped
<1>6. RequestTyped(r)'
  BY <1>1, <1>2, <1>5, ActingTyped
<1>7. QED
  BY <1>2, <1>3, <1>6, TypedFrame

\* The worker.
LEMMA WorkTyped ==
    ASSUME TInv, IInv', NEW r \in Requests, Work(r) PROVE TInv'
<1>1. Shape /\ pc[r] = "work" /\ RequestTyped(r)
  BY DEF TInv, IInv, Work
<1>2. /\ UNCHANGED <<tree, retained, recordings, asked, loaded, target, before, answer>>
      /\ Goto(r, "finish")
  BY DEF Work
<1>3. \E y : jvm' = [jvm EXCEPT ![r] = y] /\ y.revision = tree
  <2>1. PICK n \in 0..Len(Program[tree]) : \E d \in Draws(tree, n), lost \in {0, 1} :
          jvm' = [jvm EXCEPT ![r] = Outcome(r, tree, n, d, lost)]
    BY WorkGets
  <2>2. PICK d \in Draws(tree, n), lost \in {0, 1} :
          jvm' = [jvm EXCEPT ![r] = Outcome(r, tree, n, d, lost)]
    BY <2>1
  <2>3. Outcome(r, tree, n, d, lost).revision = tree
    BY DEF Outcome
  <2>4. QED
    BY <2>2, <2>3
<1>4. \A s \in Requests \ {r} : Stays(s)
  BY <1>1, <1>2, <1>3 DEF Shape, Tables, Goto, Stays
<1>5. jvm'[r].revision \in Revisions
  BY <1>1, <1>3 DEF Shape, Tables
<1>6. answer'[r] = answer[r] /\ pc'[r] # "done"
  BY <1>1, <1>2, GotoTyped
<1>7. RequestTyped(r)'
  BY <1>1, <1>2, <1>5, <1>6, ActingTyped
<1>8. QED
  BY <1>2, <1>4, <1>7, TypedFrame

\* finish_run and prune
LEMMA FinishTyped ==
    ASSUME TInv, IInv', NEW r \in Requests, Finish(r) PROVE TInv'
<1>1. Shape /\ pc[r] = "finish" /\ RequestTyped(r) /\ StoreTyped(retained, recordings)
  BY DEF TInv, IInv, Finish
<1>2. /\ UNCHANGED <<tree, asked, loaded, target, before, jvm>>
      /\ \/ \E status \in {"error", "stale"} : Reply(r, Plain(status))
         \/ Goto(r, "read") /\ UNCHANGED answer
      /\ UNCHANGED <<retained, recordings>> \/ Prune(retained, recordings)
  BY DEF Finish
<1>3. \A s \in Requests \ {r} : Stays(s)
  BY <1>1, <1>2 DEF Shape, Tables, Reply, Goto, Stays
<1>4. \/ answer'[r] = answer[r] /\ pc'[r] # "done"
      \/ AnswerTyped(answer'[r]) /\ answer'[r].status # "none" /\ pc'[r] = "done"
  <2>1. CASE Goto(r, "read") /\ UNCHANGED answer
    BY <1>1, <2>1, GotoTyped
  <2>2. CASE \E status \in {"error", "stale"} : Reply(r, Plain(status))
    <3>1. {"error", "stale"} \in SUBSET Statuses
      BY DEF Statuses
    <3>2. QED
      BY <1>1, <2>2, <3>1, PlainTyped
  <2>3. QED
    BY <1>2, <2>1, <2>2
<1>5. RequestTyped(r)'
  BY <1>1, <1>2, <1>4, ActingTyped
<1>6. UNCHANGED <<retained, recordings>> \/ StoreTyped(retained', recordings')
  BY <1>1, <1>2, PruneTyped DEF Shape
<1>7. QED
  BY <1>3, <1>5, <1>6, TypedFrame

\* The end of record_with_options.
LEMMA SaveTyped ==
    ASSUME TInv, IInv', NEW r \in Requests, Save(r) PROVE TInv'
<1> DEFINE events == StoredEvents(r)
           id == <<before[r], IF events = <<>> THEN None ELSE StateHash(Last(events))>>
           unavailable == Unavailable(jvm[r].events)
           x == RecordingOf(r, before[r], events, jvm[r].tape, unavailable)
           into == [k \in DOMAIN recordings \cup {id} |-> IF k = id THEN x ELSE recordings[k]]
           upserted == Upsert(retained, RecordingRow(id))
           status == IF unavailable = {} THEN "ok" ELSE "partial"
<1>1. /\ Shape /\ pc[r] = "read" /\ asked[r].cmd = "record" /\ RequestTyped(r)
      /\ StoreTyped(retained, recordings)
  BY DEF TInv, IInv, Save
<1>2. UNCHANGED <<tree, asked, loaded, target, before, jvm>>
  BY DEF Save
<1>3. \/ Reply(r, Plain("error")) /\ UNCHANGED <<retained, recordings>>
      \/ Reply(r, Answer(status, id, None)) /\ Prune(upserted, into)
  BY DEF Save
<1>4. before[r] \in Revisions /\ jvm[r].events \in Seq(Events) /\ Made(jvm[r])
  BY <1>1 DEF TInv, IInv, Going
<1>5. events \in Seq(Events) /\ Len(events) <= MaxEvents
  BY <1>4, StoredIsPrefix
<1>6. jvm[r].tape \in Seq(Inputs)
  <2> DEFINE y == jvm[r]
  <2>1. PICK n \in 0..Len(Program[y.revision]), capture \in BOOLEAN :
          \E d \in Draws(y.revision, n) : y.tape = TapeOf(y.revision, d, capture)
    BY <1>4 DEF Made
  <2>2. y.revision \in Revisions
    BY <1>4 DEF Made
  <2> HIDE DEF y
  <2>3. y.tape \in Seq(Inputs)
    BY <2>1, <2>2, TapeFacts
  <2>4. QED
    BY <2>3 DEF y
<1>7. unavailable \subseteq {"nondeterminism", "io"}
  BY DEF Unavailable
<1> HIDE DEF events, unavailable
<1>8. IsRecording(x)
  BY <1>4, <1>5, <1>6, <1>7 DEF IsRecording, RecordingOf
<1>9. id \in RecordingIds
  <2>1. events # <<>> => StateHash(Last(events)) \in Events
    BY <1>5 DEF StateHash, Last
  <2>2. QED
    BY <1>4, <2>1 DEF RecordingIds
<1>10. status \in {"ok", "partial"}
  OBVIOUS
<1> HIDE DEF id, x, status
<1>11. upserted \in Seq(Rows) /\ StoreTyped(upserted, into)
  <2>1. retained \in Seq(Rows) /\ StoreTyped(retained, recordings)
    BY <1>1 DEF Shape
  <2> DEFINE row == RecordingRow(id)
  <2>2. row \in Rows
    BY <1>9 DEF Rows
  <2>3. upserted \in Seq(Rows) /\ UpsertedWith(retained, row, upserted)
    <3>1. upserted = Upsert(retained, row)
      OBVIOUS
    <3> HIDE DEF row, upserted
    <3>2. QED
      BY <2>1, <2>2, <3>1, UpsertedRows
  <2> HIDE DEF upserted
  <2>4. StoreTyped(upserted, into)
    BY <1>8, <1>9, <2>1, <2>3, UpsertTyped
  <2>5. QED
    BY <2>3, <2>4
<1> HIDE DEF upserted, into
<1>12. UNCHANGED <<retained, recordings>> \/ StoreTyped(retained', recordings')
  BY <1>3, <1>11, PruneTyped
<1>13. \A s \in Requests \ {r} : Stays(s)
  BY <1>1, <1>2, <1>3 DEF Shape, Tables, Reply, Goto, Stays
<1>14. AnswerTyped(answer'[r]) /\ answer'[r].status # "none" /\ pc'[r] = "done"
  <2>1. CASE Reply(r, Plain("error"))
    <3>1. "error" \in Statuses
      BY DEF Statuses
    <3>2. QED
      BY <1>1, <2>1, <3>1, PlainTyped
  <2>2. CASE Reply(r, Answer(status, id, None))
    <3>1. answer'[r] = Answer(status, id, None) /\ pc'[r] = "done"
      BY <1>1, <2>2 DEF Shape, Tables, Reply, Goto
    <3>2. QED
      BY <1>9, <1>10, <3>1 DEF AnswerTyped, Answer, Statuses
  <2>3. QED
    BY <1>3, <2>1, <2>2
<1>15. RequestTyped(r)'
  BY <1>1, <1>2, <1>14, ActingTyped
<1>16. QED
  BY <1>12, <1>13, <1>15, TypedFrame

\* The end of verify_replay_event.
LEMMA CompareTyped ==
    ASSUME TInv, IInv', NEW r \in Requests, Compare(r) PROVE TInv'
<1> DEFINE told == Answer("verified", None, <<loaded[r].run, target[r]>>)
<1>1. Shape /\ pc[r] = "read" /\ asked[r].cmd # "record" /\ RequestTyped(r)
  BY DEF TInv, IInv, Compare
<1>2. /\ UNCHANGED <<tree, retained, recordings, asked, loaded, target, before, jvm>>
      /\ Reply(r, told) \/ Reply(r, Plain("diverged"))
  BY DEF Compare
<1>3. \A s \in Requests \ {r} : Stays(s)
  BY <1>1, <1>2 DEF Shape, Tables, Reply, Goto, Stays
<1>4. AnswerTyped(told) /\ told.status # "none"
  <2>1. Faithful(loaded[r], pc, jvm) /\ Aimed(loaded[r], asked[r], target[r])
    BY <1>1 DEF TInv, IInv, Going
  <2>2. /\ loaded[r].run \in Requests /\ loaded[r].events \in Seq(Events)
        /\ Len(loaded[r].events) <= MaxEvents /\ target[r] \in DOMAIN loaded[r].events
    BY <2>1 DEF Faithful, Aimed
  <2>3. target[r] \in 1..MaxEvents
    BY <2>2, RecordingsAssumption
  <2>4. <<loaded[r].run, target[r]>> \in EventIds
    BY <2>2, <2>3 DEF EventIds
  <2>5. QED
    BY <2>4 DEF AnswerTyped, Answer, Statuses
<1> HIDE DEF told
<1>5. AnswerTyped(answer'[r]) /\ answer'[r].status # "none" /\ pc'[r] = "done"
  <2>1. CASE Reply(r, told)
    <3>1. answer'[r] = told /\ pc'[r] = "done"
      BY <1>1, <2>1 DEF Shape, Tables, Reply, Goto
    <3>2. QED
      BY <1>4, <3>1
  <2>2. CASE Reply(r, Plain("diverged"))
    <3>1. "diverged" \in Statuses
      BY DEF Statuses
    <3>2. QED
      BY <1>1, <2>2, <3>1, PlainTyped
  <2>3. QED
    BY <1>2, <2>1, <2>2
<1>6. RequestTyped(r)'
  BY <1>1, <1>2, <1>5, ActingTyped
<1>7. QED
  BY <1>2, <1>3, <1>6, TypedFrame

\* Every step.
LEMMA NextTyped ==
    ASSUME TInv, IInv', [Next]_vars PROVE TInv'
<1>1. CASE UNCHANGED vars
  BY <1>1 DEF vars, TInv, StoreTyped, RequestTyped
<1>2. CASE \E r \in Recorders, capture \in Captures : Record(r, capture)
  BY <1>2, RecordTyped, RecordingsAssumption
<1>3. CASE \E r \in Players, held \in Recorders, i \in 1..MaxEvents :
             Replay(r, held, i) \/ \E want \in Wants : ReverseFrom(r, held, i, want)
  BY <1>3, ReplayTyped, ReverseTyped
<1>4. CASE \E r \in Requests :
             Check(r) \/ Start(r) \/ Fails(r) \/ Work(r) \/ Finish(r) \/ Save(r) \/ Compare(r)
  BY <1>4, CheckTyped, StartTyped, FailsTyped, WorkTyped, FinishTyped, SaveTyped, CompareTyped
<1>5. CASE Edit
  BY <1>5 DEF Edit, TInv, StoreTyped, RequestTyped
<1>6. QED
  BY <1>1, <1>2, <1>3, <1>4, <1>5 DEF Next

\* Types; recordings are no longer than what is read back and keep a row among those that
\* retention looks at, whatever it takes away and whichever ids are written again, and a
\* request is answered when it has ended (save_recording, prune).
THEOREM TypeCorrect == Spec => []TypeOK
<1>1. Init => TInv
  <2> SUFFICES ASSUME Init PROVE TInv
    OBVIOUS
  <2>1. StoreTyped(retained, recordings)
    BY DEF Init, StoreTyped
  <2>2. ASSUME NEW r \in Requests PROVE RequestTyped(r)
    <3>1. /\ asked[r] = NoAsk /\ loaded[r] = NoRecording /\ target[r] = 0 /\ before[r] = None
          /\ jvm[r] = NoRun /\ answer[r] = Plain("none") /\ pc[r] = "idle"
      BY DEF Init
    <3>2. AskTyped(NoAsk)
      BY RecordingsAssumption DEF AskTyped, NoAsk, Ask
    <3>3. LoadTyped(NoRecording, 0)
      BY DEF LoadTyped, NoRecording, RecordingOf
    <3>4. AnswerTyped(Plain("none")) /\ Plain("none").status = "none"
      BY DEF AnswerTyped, Plain, Answer, Statuses
    <3>5. QED
      BY <3>1, <3>2, <3>3, <3>4 DEF RequestTyped
  <2>3. QED
    BY <2>1, <2>2, InitIInv DEF TInv
<1>2. TInv /\ IInv' /\ [Next]_vars => TInv'
  BY NextTyped
<1>3. TInv => TypeOK
  <2> SUFFICES ASSUME TInv PROVE TypeOK
    OBVIOUS
  <2>1. Shape /\ StoreTyped(retained, recordings) /\ \A r \in Requests : RequestTyped(r)
    BY DEF TInv, IInv
  <2>2. /\ \A i \in DOMAIN retained :
            \/ \E r \in Requests : retained[i] = RunRow(r)
            \/ \E id \in DOMAIN recordings : retained[i] = RecordingRow(id)
        /\ \A id \in DOMAIN recordings :
            /\ id \in RecordingIds /\ IsRecording(recordings[id])
            /\ \E i \in DOMAIN retained : retained[i] = RecordingRow(id)
    BY <2>1 DEF StoreTyped
  <2>3. ASSUME NEW r \in Requests
        PROVE  /\ asked[r].cmd \in {"none", "record", "replay", "reverse"}
               /\ asked[r].capture \in BOOLEAN /\ asked[r].held \in Requests \cup {None}
               /\ asked[r].event \in 0..MaxEvents /\ asked[r].want \in Wants \cup {NoWant}
               /\ loaded[r] = NoRecording \/ IsRecording(loaded[r])
               /\ target[r] \in 0..Len(loaded[r].events)
               /\ before[r] \in Revisions \cup {None}
               /\ jvm[r] = NoRun \/ jvm[r].revision \in Revisions
               /\ answer[r].status \in Statuses
               /\ answer[r].id \in RecordingIds \cup {None}
               /\ answer[r].event \in EventIds \cup {None}
               /\ pc[r] = "done" <=> answer[r].status # "none"
    <3>1. RequestTyped(r)
      BY <2>1
    <3>2. AskTyped(asked[r]) /\ LoadTyped(loaded[r], target[r]) /\ AnswerTyped(answer[r])
      BY <3>1 DEF RequestTyped
    <3>3. QED
      BY <3>1, <3>2, Zenon DEF RequestTyped, AskTyped, LoadTyped, AnswerTyped
  <2>4. QED
    BY <2>1, <2>2, <2>3, Zenon DEF TypeOK, Shape
<1>4. QED
  BY <1>1, <1>2, <1>3, Invariance, PTL DEF Spec
=============================================================================
