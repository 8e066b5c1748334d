------------------------- MODULE LiveSchedulerProofs -------------------------
(***************************************************************************)
(* Theorems about LiveScheduler for any number of edits, commands, runs    *)
(* and cancels: what is painted is of the current content or of one that   *)
(* an edit in onSave mode left to run, a manual run is alone, and the      *)
(* scheduler's own cancels and requests hit no run that is still wanted.   *)
(***************************************************************************)
EXTENDS LiveScheduler, FiniteSetTheorems, TLAPS

Requests ==
  [kind : {"live", "manual"}, generation : Nat, snapshot : Nat,
   stage : {"waiting", "manifest", "sent", "arrived", "settled"},
   aborted : BOOLEAN, restore : BOOLEAN, verdict : {"none", "cancelled", "ok", "error"}]

Workspaces ==
  [generation : Nat, pending : [generation : Nat, snapshot : Nat], timer : Nat, active : Nat,
   paused : BOOLEAN, disposed : BOOLEAN, off : BOOLEAN, userPaused : BOOLEAN,
   suspensions : Nat, painted : Nat, shown : Nat, cancel : {"none", "sent", "arrived"},
   runs : Seq(Requests)]

(* The unsettled runs of a workspace, but for run e, which is settling (or *)
(* none is, and e is 0).                                                   *)
Open(x, kind, e) ==
  {r \in DOMAIN x.runs : r # e /\ x.runs[r].kind = kind /\ x.runs[r].stage # "settled"}

(* Only the active run is not aborted, live runs have generations of their *)
(* own, and suspensions count the manual runs.                             *)
Held(x, e) ==
  /\ x.active \in {0} \cup Open(x, "live", e)
  /\ \A r \in Open(x, "live", e) :
       /\ x.runs[r].generation <= x.generation
       /\ x.runs[r].aborted \/ r = x.active
       /\ \A s \in Open(x, "live", e) : x.runs[s].generation = x.runs[r].generation => s = r
  /\ ~x.disposed => x.suspensions = Cardinality(Open(x, "manual", e))

(* A timer that is set is for what is pending, and no run has begun that.  *)
Timed(x, e) ==
  /\ x.timer \in {0, x.generation}
  /\ x.pending.generation \in {0, x.generation}
  /\ x.pending.generation = 0 => x.pending = NoPending
  /\ x.timer # 0 =>
       /\ x.pending.generation = x.timer
       /\ \A r \in Open(x, "live", e) : x.runs[r].generation < x.generation

(* A run that goes on is of the current generation, nothing holds the      *)
(* scheduler, and no cancel overtakes the run's request.                   *)
Wanted(x, e) ==
  \A r \in Open(x, "live", e) : ~x.runs[r].aborted =>
    /\ x.runs[r].generation = x.generation
    /\ x.timer = 0 /\ ~x.paused /\ ~x.disposed
    /\ x.cancel # "none" => x.runs[r].stage = "waiting"

(* What Configure establishes. *)
Configured(x) == x.paused <=> x.off \/ x.userPaused \/ x.suspensions > 0

(* What is pending, verified and painted is one of the contents b. *)
Latest(x, b) ==
  ~x.off /\ ~x.userPaused /\ ~x.disposed => x.pending = NoPending \/ x.pending.snapshot \in b
Showing(x, b, e) ==
  /\ x.painted \in {0} \cup b
  /\ \A r \in Open(x, "live", e) : x.runs[r].aborted \/ x.runs[r].snapshot \in b

Counters ==
  /\ events \in 0..MaxEvents /\ buffer \in 1..(events + 1)
  /\ policy \in {"automatic", "onSave"} /\ left \subseteq Nat
  /\ foreign \in Nat /\ late \in Nat

Good(x) ==
  /\ x \in Workspaces
  /\ Held(x, 0) /\ Timed(x, 0) /\ Wanted(x, 0) /\ Configured(x)
  /\ x.disposed => x.painted = 0
Fits(x, b) == Latest(x, b) /\ Showing(x, b, 0)

(* The editor's content, and those that an edit in onSave mode left. *)
Contents == {buffer} \cup left

IInv ==
  /\ Counters
  /\ Good(w)
  /\ Fits(w, Contents)
  /\ OwnCancelsAreOrdered

------------------------------------------------------------------------------
(* What a step of the scheduler may do to the runs and to the mode: abort  *)
(* runs, and clear the decorations.                                        *)
Follows(x, y) ==
  /\ DOMAIN y.runs = DOMAIN x.runs
  /\ \A r \in DOMAIN x.runs :
       /\ y.runs[r].kind = x.runs[r].kind /\ y.runs[r].generation = x.runs[r].generation
       /\ y.runs[r].snapshot = x.runs[r].snapshot /\ y.runs[r].stage = x.runs[r].stage
       /\ y.runs[r].verdict = x.runs[r].verdict /\ y.runs[r].restore = x.runs[r].restore
       /\ x.runs[r].aborted => y.runs[r].aborted
  /\ y.active = x.active /\ y.disposed = x.disposed
  /\ y.off = x.off /\ y.userPaused = x.userPaused /\ y.suspensions = x.suspensions
  /\ y.painted \in {0, x.painted} /\ y.shown = x.shown

AllAborted(x, e) == \A r \in Open(x, "live", e) : x.runs[r].aborted

(* The types of a workspace's runs. *)
LEMMA RunTypes ==
  ASSUME NEW x \in Workspaces
  PROVE  /\ x.runs \in Seq(Requests) /\ x.generation \in Nat
         /\ \A r \in DOMAIN x.runs :
              r \in Nat \ {0} /\ x.runs[r].generation \in Nat /\ x.runs[r].snapshot \in Nat
         /\ \A kind, e : Open(x, kind, e) \subseteq DOMAIN x.runs
<1>1. x.runs \in Seq(Requests) /\ x.generation \in Nat
  BY DEF Workspaces
<1>2. \A r \in DOMAIN x.runs : r \in Nat \ {0} /\ x.runs[r] \in Requests
  BY <1>1
<1>3. QED
  BY <1>1, <1>2 DEF Requests, Open

(* Fields keep their types. *)
LEMMA FieldTypes ==
  ASSUME NEW x \in Workspaces, NEW t \in Nat, NEW p \in Nat, NEW on \in BOOLEAN
  PROVE  /\ [x EXCEPT !.timer = t] \in Workspaces
         /\ [x EXCEPT !.timer = t, !.painted = p] \in Workspaces
         /\ [x EXCEPT !.painted = p] \in Workspaces
         /\ [x EXCEPT !.paused = on, !.timer = t] \in Workspaces
         /\ [x EXCEPT !.paused = on] \in Workspaces
         /\ [x EXCEPT !.userPaused = on] \in Workspaces
         /\ [x EXCEPT !.off = on] \in Workspaces
         /\ [x EXCEPT !.suspensions = t] \in Workspaces
         /\ [x EXCEPT !.active = t] \in Workspaces
         /\ [x EXCEPT !.disposed = on, !.timer = t, !.painted = p] \in Workspaces
         /\ [x EXCEPT !.pending = NoPending, !.shown = t] \in Workspaces
         /\ [x EXCEPT !.pending = NoPending, !.shown = t, !.painted = p] \in Workspaces
  BY DEF Workspaces, NoPending

(* abort and cancelRemote *)
LEMMA AbortActiveStep ==
  ASSUME NEW x \in Workspaces, x.active \in {0} \cup DOMAIN x.runs,
         NEW y, y = AbortActive(x)
  PROVE  /\ y \in Workspaces /\ Follows(x, y)
         /\ y.generation = x.generation /\ y.timer = x.timer /\ y.pending = x.pending
         /\ y.paused = x.paused /\ y.painted = x.painted
         /\ y.active # 0 => y.runs[y.active].aborted
<1>1. CASE x.active = 0
  BY <1>1 DEF AbortActive, Follows, Workspaces
<1>2. CASE x.active # 0
  <2> DEFINE n == x.active
  <2>1. n \in DOMAIN x.runs /\ x.runs \in Seq(Requests) /\ x.runs[n] \in Requests
    BY <1>2 DEF Workspaces
  <2>2. [x.runs[n] EXCEPT !.aborted = TRUE] \in Requests
    BY <2>1 DEF Requests
  <2> DEFINE runs == [x.runs EXCEPT ![n] = [x.runs[n] EXCEPT !.aborted = TRUE]]
             cancel == IF x.cancel = "none" THEN "sent" ELSE x.cancel
  <2>3. runs \in Seq(Requests) /\ DOMAIN runs = DOMAIN x.runs
    BY <2>1, <2>2
  <2>4. y = [x EXCEPT !.runs = runs, !.cancel = cancel]
    BY <1>2 DEF AbortActive, Workspaces
  <2>5. y \in Workspaces
    BY <2>3, <2>4 DEF Workspaces
  <2>6. /\ y.runs = runs /\ y.active = x.active /\ y.disposed = x.disposed /\ y.off = x.off
        /\ y.userPaused = x.userPaused /\ y.suspensions = x.suspensions
        /\ y.painted = x.painted /\ y.shown = x.shown /\ y.generation = x.generation
        /\ y.timer = x.timer /\ y.pending = x.pending /\ y.paused = x.paused
    BY <2>4 DEF Workspaces
  <2>7. /\ runs[n].aborted
        /\ \A r \in DOMAIN x.runs :
             /\ runs[r].kind = x.runs[r].kind /\ runs[r].generation = x.runs[r].generation
             /\ runs[r].snapshot = x.runs[r].snapshot /\ runs[r].stage = x.runs[r].stage
             /\ runs[r].verdict = x.runs[r].verdict /\ runs[r].restore = x.runs[r].restore
             /\ x.runs[r].aborted => runs[r].aborted
    BY <2>1 DEF Requests
  <2> HIDE DEF runs
  <2>8. QED
    BY <1>2, <2>3, <2>5, <2>6, <2>7 DEF Follows
<1>3. QED
  BY <1>1, <1>2

(* Aborting and clearing leave the runs what they were to each other. *)
LEMMA FollowsHeld ==
  ASSUME NEW x \in Workspaces, NEW y \in Workspaces, NEW e \in Nat, Follows(x, y)
  PROVE  /\ \A kind \in {"live", "manual"} : Open(y, kind, e) = Open(x, kind, e)
         /\ Held(x, e) /\ y.generation >= x.generation => Held(y, e)
<1>1. \A kind \in {"live", "manual"} : Open(y, kind, e) = Open(x, kind, e)
  BY DEF Open, Follows
<1>2. ASSUME Held(x, e), y.generation >= x.generation PROVE Held(y, e)
  <2>1. \A r \in Open(x, "live", e) : x.runs[r].generation \in Nat /\ r \in DOMAIN x.runs
    BY RunTypes
  <2>2. x.generation \in Nat /\ y.generation \in Nat
    BY RunTypes
  <2>3. QED
    BY <1>1, <1>2, <2>1, <2>2 DEF Held, Follows
<1>3. QED
  BY <1>1, <1>2

(* One step after another. *)
LEMMA FollowsTransitive ==
  ASSUME NEW x, NEW y, NEW z, Follows(x, y), Follows(y, z)
  PROVE  Follows(x, z)
  BY DEF Follows

(* LiveScheduler.schedule: nothing goes on beside what is queued. *)
LEMMA EnqueueStep ==
  ASSUME NEW x \in Workspaces, NEW e \in Nat, NEW snapshot \in Nat, ~x.disposed, Held(x, e),
         NEW y, y = Enqueue(x, snapshot)
  PROVE  /\ y \in Workspaces /\ Follows(x, y) /\ Held(y, e) /\ Timed(y, e) /\ AllAborted(y, e)
         /\ y.generation = x.generation + 1 /\ y.paused = x.paused
         /\ y.pending # NoPending /\ y.pending.snapshot = snapshot
         /\ IF x.paused THEN y.timer = 0 /\ y.painted = x.painted
            ELSE y.timer # 0 /\ y.painted = 0
<1> DEFINE g == x.generation + 1
           p == [generation |-> g, snapshot |-> snapshot]
           a == [x EXCEPT !.generation = g, !.timer = 0, !.pending = p]
           b == AbortActive(a)
<1>1. g \in Nat /\ g > x.generation /\ g # 0 /\ x.generation \in Nat
  BY DEF Workspaces
<1>2. /\ a \in Workspaces /\ a.generation = g /\ a.timer = 0 /\ a.pending = p
      /\ a.runs = x.runs /\ a.active = x.active /\ a.disposed = x.disposed /\ a.off = x.off
      /\ a.userPaused = x.userPaused /\ a.suspensions = x.suspensions
      /\ a.painted = x.painted /\ a.shown = x.shown /\ a.paused = x.paused
  BY <1>1 DEF Workspaces
<1>3. Follows(x, a)
  BY <1>2 DEF Follows
<1> HIDE DEF a
<1>4. a.active \in {0} \cup DOMAIN a.runs
  BY <1>2 DEF Held, Open
<1>5. /\ b \in Workspaces /\ Follows(a, b)
      /\ b.generation = g /\ b.timer = 0 /\ b.pending = p
      /\ b.paused = x.paused /\ b.painted = x.painted
      /\ b.active # 0 => b.runs[b.active].aborted
  BY <1>2, <1>4, AbortActiveStep
<1> HIDE DEF b
<1>6. y = IF x.paused THEN b ELSE [b EXCEPT !.timer = g, !.painted = 0]
  BY DEF Enqueue, a, b
<1>7. /\ y \in Workspaces /\ Follows(b, y) /\ y.generation = g /\ y.pending = p
      /\ y.paused = x.paused /\ y.timer = (IF x.paused THEN 0 ELSE g)
      /\ y.painted = (IF x.paused THEN x.painted ELSE 0)
      /\ y.runs = b.runs /\ y.active = b.active
  <2>1. CASE x.paused
    BY <1>5, <1>6, <2>1 DEF Follows
  <2>2. CASE ~x.paused
    <3> HIDE DEF g, p
    <3>1. y \in Workspaces
      <4>1. b \in Workspaces /\ g \in Nat /\ 0 \in Nat /\ TRUE \in BOOLEAN
        BY <1>1, <1>5
      <4>2. [b EXCEPT !.timer = g, !.painted = 0] \in Workspaces
        BY <4>1, FieldTypes, Zenon
      <4>3. QED
        BY <1>6, <2>2, <4>2
    <3>2. /\ y.generation = g /\ y.pending = p
          /\ y.paused = b.paused /\ y.timer = g /\ y.painted = 0
          /\ y.runs = b.runs /\ y.active = b.active
          /\ y.disposed = b.disposed /\ y.off = b.off /\ y.userPaused = b.userPaused
          /\ y.suspensions = b.suspensions /\ y.shown = b.shown
      BY <1>1, <1>5, <1>6, <2>2 DEF Workspaces
    <3>3. QED
      BY <1>5, <2>2, <3>1, <3>2 DEF Follows
  <2>3. QED
    BY <2>1, <2>2
<1>8. Follows(x, y)
  BY <1>3, <1>5, <1>7, FollowsTransitive
<1>9. Held(y, e) /\ Open(y, "live", e) = Open(x, "live", e)
  BY <1>1, <1>7, <1>8, FollowsHeld
<1>10. AllAborted(y, e)
  BY <1>5, <1>7, <1>9, RunTypes DEF AllAborted, Held
<1>11. \A r \in Open(y, "live", e) : y.runs[r].generation < g
  <2> TAKE r \in Open(y, "live", e)
  <2>1. x.runs[r].generation <= x.generation /\ r \in DOMAIN x.runs
    BY <1>9 DEF Held, Open
  <2>2. x.runs[r].generation \in Nat
    BY <2>1, RunTypes
  <2>3. QED
    BY <1>1, <1>8, <2>1, <2>2 DEF Follows
<1>12. Timed(y, e)
  BY <1>1, <1>7, <1>11 DEF Timed
<1>13. QED
  BY <1>1, <1>7, <1>8, <1>9, <1>10, <1>12 DEF NoPending

(* LiveScheduler.pause *)
LEMMA PauseStep ==
  ASSUME NEW x \in Workspaces, NEW e \in Nat, Held(x, e), Timed(x, e),
         NEW y, y = Pause(x)
  PROVE  /\ y \in Workspaces /\ Follows(x, y) /\ Held(y, e) /\ Timed(y, e) /\ AllAborted(y, e)
         /\ y.paused = TRUE /\ y.timer = 0 /\ y.pending = x.pending /\ y.painted = x.painted
<1> DEFINE a == [x EXCEPT !.paused = TRUE, !.timer = 0]
<1>1. a \in Workspaces
  BY FieldTypes
<1>2. /\ a.generation = x.generation /\ a.timer = 0 /\ a.pending = x.pending
      /\ a.runs = x.runs /\ a.active = x.active /\ a.disposed = x.disposed /\ a.off = x.off
      /\ a.userPaused = x.userPaused /\ a.suspensions = x.suspensions
      /\ a.painted = x.painted /\ a.shown = x.shown /\ a.paused = TRUE
  BY DEF Workspaces
<1>3. Follows(x, a)
  BY <1>2 DEF Follows
<1>4. y = AbortActive(a)
  BY DEF Pause
<1> HIDE DEF a
<1>5. a.active \in {0} \cup DOMAIN a.runs
  BY <1>2 DEF Held, Open
<1>6. /\ y \in Workspaces /\ Follows(a, y)
      /\ y.generation = x.generation /\ y.timer = 0 /\ y.pending = x.pending
      /\ y.paused = TRUE /\ y.painted = x.painted
      /\ y.active # 0 => y.runs[y.active].aborted
  BY <1>1, <1>2, <1>4, <1>5, AbortActiveStep
<1>7. Follows(x, y)
  BY <1>3, <1>6, FollowsTransitive
<1>8. Held(y, e) /\ Open(y, "live", e) = Open(x, "live", e)
  BY <1>6, <1>7, FollowsHeld, RunTypes
<1>9. AllAborted(y, e)
  BY <1>6, <1>8, RunTypes DEF AllAborted, Held
<1>10. Timed(y, e)
  BY <1>6 DEF Timed
<1>11. QED
  BY <1>6, <1>7, <1>8, <1>9, <1>10

(* What Configure keeps of what is pending. *)
SamePending(x, y) ==
  /\ y.pending = NoPending <=> x.pending = NoPending
  /\ y.pending.snapshot = x.pending.snapshot

(* LiveScheduler.resume *)
LEMMA ResumeStep ==
  ASSUME NEW x \in Workspaces, NEW e \in Nat, Held(x, e), Timed(x, e), Wanted(x, e),
         NEW y, y = Resume(x)
  PROVE  /\ y \in Workspaces /\ Follows(x, y) /\ Held(y, e) /\ Timed(y, e) /\ Wanted(y, e)
         /\ y.paused = FALSE /\ SamePending(x, y)
<1>1. CASE ~x.paused
  <2>1. y = x /\ x.paused \in BOOLEAN
    BY <1>1 DEF Resume, Workspaces
  <2>2. QED
    BY <1>1, <2>1 DEF Follows, SamePending
<1>2. CASE x.paused
  <2> DEFINE a == [x EXCEPT !.paused = FALSE]
  <2>1. a \in Workspaces
    BY FieldTypes
  <2>2. /\ a.generation = x.generation /\ a.timer = x.timer /\ a.pending = x.pending
        /\ a.runs = x.runs /\ a.active = x.active /\ a.disposed = x.disposed /\ a.off = x.off
        /\ a.userPaused = x.userPaused /\ a.suspensions = x.suspensions
        /\ a.painted = x.painted /\ a.shown = x.shown /\ a.paused = FALSE
    BY DEF Workspaces
  <2>3. y = IF x.pending = NoPending THEN a ELSE Enqueue(a, x.pending.snapshot)
    BY <1>2 DEF Resume
  <2> HIDE DEF a
  <2>4. Follows(x, a)
    BY <2>2 DEF Follows
  <2>5. Held(a, e) /\ Open(a, "live", e) = Open(x, "live", e)
    BY <2>1, <2>2, <2>4, FollowsHeld, RunTypes
  <2>6. Timed(a, e)
    BY <2>2, <2>5 DEF Timed
  <2>7. AllAborted(a, e) /\ Wanted(a, e)
    BY <1>2, <2>2, <2>5 DEF AllAborted, Wanted
  <2>8. CASE y = a
    BY <2>1, <2>2, <2>4, <2>5, <2>6, <2>7, <2>8 DEF SamePending
  <2>9. CASE y # a /\ ~x.disposed
    <3>1. x.pending # NoPending /\ y = Enqueue(a, x.pending.snapshot) /\ x.pending.snapshot \in Nat
      BY <2>3, <2>9 DEF Workspaces
    <3>2. /\ y \in Workspaces /\ Follows(a, y) /\ Held(y, e) /\ Timed(y, e) /\ AllAborted(y, e)
          /\ y.paused = FALSE
          /\ y.pending # NoPending /\ y.pending.snapshot = x.pending.snapshot
      BY <2>1, <2>2, <2>5, <2>9, <3>1, EnqueueStep
    <3>3. Follows(x, y)
      BY <2>4, <3>2, FollowsTransitive
    <3>4. QED
      BY <3>1, <3>2, <3>3 DEF AllAborted, Wanted, SamePending
  <2>10. CASE y # a /\ x.disposed
    BY <2>2, <2>3, <2>10 DEF Enqueue
  <2>11. QED
    BY <2>8, <2>9, <2>10
<1>3. QED
  BY <1>1, <1>2

(* LiveWorkspace.configure *)
LEMMA ConfigureStep ==
  ASSUME NEW x \in Workspaces, NEW e \in Nat, Held(x, e), Timed(x, e), Wanted(x, e),
         NEW y, y = Configure(x)
  PROVE  /\ y \in Workspaces /\ Follows(x, y) /\ Held(y, e) /\ Timed(y, e) /\ Wanted(y, e)
         /\ Configured(y) /\ SamePending(x, y)
<1>1. CASE x.off \/ x.userPaused \/ x.suspensions > 0
  <2>1. y = Pause(x)
    BY <1>1 DEF Configure
  <2>2. /\ y \in Workspaces /\ Follows(x, y) /\ Held(y, e) /\ Timed(y, e) /\ AllAborted(y, e)
        /\ y.paused = TRUE /\ y.pending = x.pending
    BY <2>1, PauseStep
  <2>3. Configured(y)
    BY <1>1, <2>2, Zenon DEF Configured, Follows
  <2>4. QED
    BY <2>2, <2>3 DEF AllAborted, Wanted, SamePending
<1>2. CASE ~(x.off \/ x.userPaused \/ x.suspensions > 0)
  <2>1. y = Resume(x)
    BY <1>2 DEF Configure
  <2>2. /\ y \in Workspaces /\ Follows(x, y) /\ Held(y, e) /\ Timed(y, e) /\ Wanted(y, e)
        /\ y.paused = FALSE /\ SamePending(x, y)
    BY <2>1, ResumeStep
  <2>3. Configured(y)
    BY <1>2, <2>2, Zenon DEF Configured, Follows
  <2>4. QED
    BY <2>2, <2>3
<1>3. QED
  BY <1>1, <1>2

(* LiveWorkspace.schedule of a configured workspace, with the editor's content. *)
LEMMA ScheduleStep ==
  ASSUME NEW x \in Workspaces, NEW e \in Nat, NEW b \in Nat, ~x.disposed,
         Held(x, e), Timed(x, e), Wanted(x, e), Configured(x),
         NEW y, y = Schedule(x, b)
  PROVE  /\ y \in Workspaces /\ Follows(x, y) /\ Held(y, e) /\ Timed(y, e) /\ AllAborted(y, e)
         /\ Wanted(y, e) /\ Configured(y) /\ \A c : b \in c => Latest(y, c)
         /\ ~y.paused => y.timer # 0 /\ y.painted = 0
<1>1. CASE x.off \/ x.userPaused
  <2>1. y = x /\ x.paused
    BY <1>1 DEF Schedule, Configured
  <2>2. Follows(x, y) /\ AllAborted(y, e)
    BY <2>1 DEF Follows, AllAborted, Wanted
  <2>3. QED
    BY <1>1, <2>1, <2>2 DEF Latest
<1>2. CASE ~(x.off \/ x.userPaused)
  <2>1. y = Enqueue(x, b)
    BY <1>2 DEF Schedule
  <2>2. /\ y \in Workspaces /\ Follows(x, y) /\ Held(y, e) /\ Timed(y, e) /\ AllAborted(y, e)
        /\ y.paused = x.paused /\ y.pending.snapshot = b
        /\ ~x.paused => y.timer # 0 /\ y.painted = 0
    BY <2>1, EnqueueStep
  <2>3. Configured(y)
    BY <2>2, Zenon DEF Configured, Follows
  <2>4. QED
    BY <2>2, <2>3 DEF AllAborted, Wanted, Latest
<1>3. QED
  BY <1>1, <1>2

(* A painted result stays or goes. *)
LEMMA FollowsShowing ==
  ASSUME NEW x \in Workspaces, NEW y \in Workspaces, NEW e \in Nat, Follows(x, y)
  PROVE  \A b \in SUBSET Nat : Showing(x, b, e) => Showing(y, b, e)
<1>1. Open(y, "live", e) = Open(x, "live", e) /\ Open(x, "live", e) \subseteq DOMAIN x.runs
  BY FollowsHeld, RunTypes
<1>2. QED
  BY <1>1 DEF Showing, Follows

(* The finally of runNow. *)
LEMMA RestoreStep ==
  ASSUME NEW x \in Workspaces, NEW e \in Nat, Held(x, e), Timed(x, e), Wanted(x, e),
         NEW y, y = Restore(x)
  PROVE  /\ y \in Workspaces /\ Held(y, e) /\ Timed(y, e) /\ Wanted(y, e) /\ Configured(y)
         /\ y.userPaused = TRUE /\ y.disposed = x.disposed /\ y.painted \in {0, x.painted}
         /\ DOMAIN y.runs = DOMAIN x.runs /\ y.active = x.active
         /\ \A b \in SUBSET Nat : Showing(x, b, e) => Showing(y, b, e)
<1> DEFINE a == [x EXCEPT !.userPaused = TRUE]
<1>1. a \in Workspaces
  <2>1. 0 \in Nat /\ TRUE \in BOOLEAN
    OBVIOUS
  <2>2. QED
    BY <2>1, FieldTypes, Zenon
<1>2. /\ a.generation = x.generation /\ a.timer = x.timer /\ a.pending = x.pending
      /\ a.runs = x.runs /\ a.active = x.active /\ a.disposed = x.disposed
      /\ a.suspensions = x.suspensions /\ a.cancel = x.cancel
      /\ a.painted = x.painted /\ a.paused = x.paused /\ a.userPaused = TRUE
  BY DEF Workspaces
<1>3. y = Configure(a)
  BY DEF Restore
<1> HIDE DEF a
<1>4. \A kind \in {"live", "manual"} : Open(a, kind, e) = Open(x, kind, e)
  BY <1>2 DEF Open
<1>5. Held(a, e) /\ Timed(a, e) /\ Wanted(a, e)
  BY <1>2, <1>4 DEF Held, Timed, Wanted
<1>6. \A b \in SUBSET Nat : Showing(x, b, e) => Showing(a, b, e)
  BY <1>2, <1>4 DEF Showing
<1>7. /\ y \in Workspaces /\ Follows(a, y) /\ Held(y, e) /\ Timed(y, e) /\ Wanted(y, e)
      /\ Configured(y)
  BY <1>1, <1>3, <1>5, ConfigureStep
<1>8. \A b \in SUBSET Nat : Showing(x, b, e) => Showing(y, b, e)
  BY <1>1, <1>6, <1>7, FollowsShowing
<1>9. QED
  BY <1>2, <1>7, <1>8 DEF Follows

(* One more request. *)
LEMMA AppendStep ==
  ASSUME NEW x \in Workspaces, NEW y \in Workspaces, NEW q \in Requests,
         q.stage # "settled", y.runs = Append(x.runs, q),
         NEW n, n = Len(x.runs) + 1
  PROVE  /\ DOMAIN y.runs = DOMAIN x.runs \cup {n} /\ n \notin DOMAIN x.runs /\ n # 0
         /\ y.runs[n] = q /\ \A r \in DOMAIN x.runs : y.runs[r] = x.runs[r]
         /\ \A kind \in {"live", "manual"} :
              Open(y, kind, 0) =
                IF kind = q.kind THEN Open(x, kind, 0) \cup {n} ELSE Open(x, kind, 0)
<1>1. x.runs \in Seq(Requests)
  BY RunTypes
<1>2. n \in Nat /\ n # 0 /\ n \notin DOMAIN x.runs /\ DOMAIN y.runs = DOMAIN x.runs \cup {n}
  BY <1>1
<1>3. y.runs[n] = q /\ \A r \in DOMAIN x.runs : y.runs[r] = x.runs[r]
  BY <1>1
<1>4. ASSUME NEW kind \in {"live", "manual"}
      PROVE  Open(y, kind, 0) =
               IF kind = q.kind THEN Open(x, kind, 0) \cup {n} ELSE Open(x, kind, 0)
  <2>1. \A r \in DOMAIN y.runs :
          r \in Open(y, kind, 0) <=> r \in Open(x, kind, 0) \/ (r = n /\ kind = q.kind)
    BY <1>2, <1>3 DEF Open
  <2>2. Open(y, kind, 0) \subseteq DOMAIN y.runs /\ Open(x, kind, 0) \subseteq DOMAIN x.runs
    BY DEF Open
  <2>3. CASE kind = q.kind
    BY <1>2, <2>1, <2>2, <2>3
  <2>4. CASE kind # q.kind
    BY <1>2, <2>1, <2>2, <2>4
  <2>5. QED
    BY <2>3, <2>4
<1>5. QED
  BY <1>2, <1>3, <1>4

(* LiveScheduler.start for what the timer, or a run now, waited for. *)
LEMMA StartStep ==
  ASSUME NEW x, Good(x), x.timer # 0, NEW restore \in BOOLEAN,
         NEW y, y = Start([x EXCEPT !.timer = 0], x.timer, restore)
  PROVE  Good(y) /\ \A b \in SUBSET Nat : Fits(x, b) => Fits(y, b)
<1> DEFINE a == [x EXCEPT !.timer = 0]
<1>0. x \in Workspaces
  BY DEF Good
<1>1. a \in Workspaces
  <2>1. 0 \in Nat /\ TRUE \in BOOLEAN
    OBVIOUS
  <2>2. QED
    BY <1>0, <2>1, FieldTypes, Zenon
<1>2. /\ a.generation = x.generation /\ a.timer = 0 /\ a.pending = x.pending
      /\ a.runs = x.runs /\ a.active = x.active /\ a.disposed = x.disposed /\ a.off = x.off
      /\ a.userPaused = x.userPaused /\ a.suspensions = x.suspensions /\ a.cancel = x.cancel
      /\ a.painted = x.painted /\ a.paused = x.paused
  BY <1>0 DEF Workspaces
<1>3. \A kind \in {"live", "manual"} : Open(a, kind, 0) = Open(x, kind, 0)
  BY <1>2 DEF Open
<1>4. AllAborted(x, 0)
  BY DEF Good, Wanted, AllAborted
<1>5. /\ Held(a, 0) /\ Timed(a, 0) /\ Wanted(a, 0) /\ AllAborted(a, 0)
      /\ a.disposed => a.painted = 0
  BY <1>2, <1>3, <1>4 DEF Good, Held, Timed, Wanted, AllAborted
<1>6. Configured(a)
  BY <1>2, Zenon DEF Good, Configured
<1>7. \A b \in SUBSET Nat : Fits(x, b) => Fits(a, b)
  BY <1>2, <1>3 DEF Fits, Latest, Showing
<1>8. x.timer = a.generation /\ x.timer = a.pending.generation /\ a.pending # NoPending
  BY <1>2 DEF Good, Timed, NoPending
<1>9. y = IF a.disposed \/ a.paused THEN IF restore THEN Restore(a) ELSE a
          ELSE [a EXCEPT !.active = Len(a.runs) + 1,
                         !.runs = Append(@, Request(a, "live", a.generation,
                                                    a.pending.snapshot, restore))]
  <2>1. y = Start(a, x.timer, restore)
    OBVIOUS
  <2> HIDE DEF a
  <2>2. QED
    BY <1>8, <2>1 DEF Start
<1> HIDE DEF a
<1>10. CASE y = a
  BY <1>1, <1>5, <1>6, <1>7, <1>10 DEF Good
<1>11. CASE y = Restore(a)
  <2>1. /\ y \in Workspaces /\ Held(y, 0) /\ Timed(y, 0) /\ Wanted(y, 0) /\ Configured(y)
        /\ y.userPaused = TRUE /\ y.disposed = a.disposed /\ y.painted \in {0, a.painted}
        /\ \A b \in SUBSET Nat : Showing(a, b, 0) => Showing(y, b, 0)
    BY <1>1, <1>5, <1>11, RestoreStep
  <2>2. QED
    BY <1>5, <1>7, <2>1 DEF Good, Fits, Latest
<1>12. CASE ~(a.disposed \/ a.paused)
  <2> DEFINE n == Len(a.runs) + 1
             q == Request(a, "live", a.generation, a.pending.snapshot, restore)
  <2>1. /\ q \in Requests /\ q.kind = "live" /\ q.generation = a.generation
        /\ q.snapshot = a.pending.snapshot /\ q.aborted = FALSE
        /\ q.stage \in {"manifest", "waiting"}
        /\ a.cancel # "none" => q.stage = "waiting"
    BY <1>1 DEF Request, Requests, Workspaces
  <2>2. a.runs \in Seq(Requests) /\ n \in Nat /\ n # 0
    BY <1>1, RunTypes
  <2>3. y = [a EXCEPT !.active = n, !.runs = Append(a.runs, q)]
    BY <1>1, <1>9, <1>12 DEF Workspaces
  <2> HIDE DEF n, q
  <2>4. Append(a.runs, q) \in Seq(Requests)
    BY <2>1, <2>2
  <2>5. y \in Workspaces
    BY <1>1, <2>2, <2>3, <2>4 DEF Workspaces
  <2>6. /\ y.generation = a.generation /\ y.timer = 0 /\ y.pending = a.pending
        /\ y.runs = Append(a.runs, q) /\ y.active = n /\ y.disposed = a.disposed
        /\ y.off = a.off /\ y.userPaused = a.userPaused /\ y.suspensions = a.suspensions
        /\ y.cancel = a.cancel /\ y.painted = a.painted /\ y.paused = a.paused
    BY <1>1, <1>2, <2>3 DEF Workspaces
  <2>7. /\ DOMAIN y.runs = DOMAIN a.runs \cup {n} /\ n \notin DOMAIN a.runs
        /\ y.runs[n] = q /\ \A r \in DOMAIN a.runs : y.runs[r] = a.runs[r]
    BY <1>1, <2>1, <2>5, <2>6, AppendStep DEF n
  <2>8. /\ Open(y, "live", 0) = Open(a, "live", 0) \cup {n}
        /\ Open(y, "manual", 0) = Open(a, "manual", 0)
    <3>1. "live" \in {"live", "manual"} /\ "manual" \in {"live", "manual"} /\ q.stage # "settled"
      BY <2>1
    <3>2. QED
      BY <1>1, <2>1, <2>5, <2>6, <3>1, AppendStep DEF n
  <2>9. \A r \in Open(a, "live", 0) : /\ r \in DOMAIN a.runs /\ y.runs[r] = a.runs[r]
                                      /\ a.runs[r].generation < a.generation
                                      /\ a.runs[r].aborted
    BY <1>2, <1>3, <1>5, <2>7 DEF Good, Timed, Open, AllAborted
  <2>10. \A r \in DOMAIN a.runs : a.runs[r].generation \in Nat /\ a.generation \in Nat
    BY <1>1, RunTypes
  <2>11. Held(y, 0)
    <3>1. y.active \in {0} \cup Open(y, "live", 0)
      BY <2>6, <2>8
    <3>2. y.runs[n].generation = y.generation /\ y.generation \in Nat
      BY <1>1, <2>1, <2>6, <2>7, RunTypes
    <3>3. \A r \in Open(y, "live", 0) :
            r = n \/ (r \in Open(a, "live", 0) /\ y.runs[r].generation < y.generation)
      BY <2>6, <2>8, <2>9
    <3>4. \A r \in Open(y, "live", 0) :
            y.runs[r].generation <= y.generation /\ (y.runs[r].aborted \/ r = y.active)
      <4> TAKE r \in Open(y, "live", 0)
      <4>1. CASE r = n
        BY <2>6, <3>2, <4>1
      <4>2. CASE r \in Open(a, "live", 0)
        BY <2>6, <2>9, <2>10, <4>2
      <4>3. QED
        BY <2>8, <4>1, <4>2
    <3>5. \A r \in Open(y, "live", 0), s \in Open(y, "live", 0) :
            y.runs[s].generation = y.runs[r].generation => s = r
      BY <1>5, <2>9, <2>10, <3>2, <3>3 DEF Held
    <3>6. ~y.disposed => y.suspensions = Cardinality(Open(y, "manual", 0))
      BY <1>5, <2>6, <2>8 DEF Held
    <3>7. QED
      BY <3>1, <3>4, <3>5, <3>6 DEF Held
  <2>12. Timed(y, 0) /\ Wanted(y, 0)
    <3>1. Timed(y, 0)
      BY <1>5, <2>6 DEF Timed
    <3>2. ASSUME NEW r \in Open(y, "live", 0), ~y.runs[r].aborted
          PROVE  /\ y.runs[r].generation = y.generation
                 /\ y.timer = 0 /\ ~y.paused /\ ~y.disposed
                 /\ y.cancel # "none" => y.runs[r].stage = "waiting"
      <4>1. r = n
        BY <2>8, <2>9, <3>2
      <4>2. QED
        BY <1>12, <2>1, <2>6, <2>7, <4>1
    <3>3. QED
      BY <3>1, <3>2 DEF Wanted
  <2>13. Configured(y)
    BY <1>6, <2>6, Zenon DEF Configured
  <2>14. ASSUME NEW b \in SUBSET Nat, Fits(a, b) PROVE Fits(y, b)
    <3>1. ~a.off /\ ~a.userPaused
      BY <1>6, <1>12 DEF Configured
    <3>2. a.pending.snapshot \in b
      BY <1>8, <1>12, <2>14, <3>1 DEF Fits, Latest
    <3>3. QED
      BY <2>1, <2>6, <2>7, <2>8, <2>9, <2>14, <3>2 DEF Fits, Latest, Showing
  <2>15. QED
    BY <1>5, <1>7, <2>5, <2>6, <2>11, <2>12, <2>13, <2>14 DEF Good
<1>13. QED
  BY <1>9, <1>10, <1>11, <1>12

(* LiveScheduler.flush of a workspace that was scheduled just before. *)
LEMMA FlushStep ==
  ASSUME NEW x, Good(x), ~x.paused /\ ~x.disposed => x.timer # 0, NEW restore \in BOOLEAN,
         NEW y, y = Flush(x, restore)
  PROVE  Good(y) /\ \A b \in SUBSET Nat : Fits(x, b) => Fits(y, b)
<1>1. CASE x.pending = NoPending \/ x.paused \/ x.disposed
  <2>1. y = x \/ y = Restore(x)
    BY <1>1 DEF Flush
  <2>2. CASE y = Restore(x)
    <3>1. /\ y \in Workspaces /\ Held(y, 0) /\ Timed(y, 0) /\ Wanted(y, 0) /\ Configured(y)
          /\ y.userPaused = TRUE /\ y.disposed = x.disposed /\ y.painted \in {0, x.painted}
          /\ \A b \in SUBSET Nat : Showing(x, b, 0) => Showing(y, b, 0)
      BY <2>2, RestoreStep DEF Good
    <3>2. QED
      BY <3>1 DEF Good, Fits, Latest
  <2>3. QED
    BY <2>1, <2>2
<1>2. CASE ~(x.pending = NoPending \/ x.paused \/ x.disposed)
  <2>1. x.timer # 0 /\ x.pending.generation = x.timer
    BY <1>2 DEF Good, Timed
  <2>2. y = Start([x EXCEPT !.timer = 0], x.timer, restore)
    BY <1>2, <2>1 DEF Flush
  <2>3. QED
    BY <2>1, <2>2, StartStep
<1>3. QED
  BY <1>1, <1>2

------------------------------------------------------------------------------
(* A run without a promise to settle is as if it were not there. *)
LEMMA SettledRun ==
  ASSUME NEW x \in Workspaces, NEW r \in DOMAIN x.runs, NEW run \in Requests,
         run.stage = "settled",
         NEW y, y = [x EXCEPT !.runs[r] = run],
         Held(x, r), Timed(x, r), Wanted(x, r), Configured(x),
         x.disposed => x.painted = 0
  PROVE  /\ Good(y)
         /\ \A b \in SUBSET Nat : Latest(x, b) /\ Showing(x, b, r) => Fits(y, b)
<1> DEFINE runs == [x.runs EXCEPT ![r] = run]
<1>1. x.runs \in Seq(Requests) /\ runs \in Seq(Requests) /\ DOMAIN runs = DOMAIN x.runs
  BY RunTypes
<1>2. runs[r] = run /\ \A s \in DOMAIN x.runs : s # r => runs[s] = x.runs[s]
  BY <1>1
<1>3. y = [x EXCEPT !.runs = runs]
  BY DEF Workspaces
<1> HIDE DEF runs
<1>4. y \in Workspaces
  BY <1>1, <1>3 DEF Workspaces
<1>5. /\ y.generation = x.generation /\ y.timer = x.timer /\ y.pending = x.pending
      /\ y.runs = runs /\ y.active = x.active /\ y.disposed = x.disposed /\ y.off = x.off
      /\ y.userPaused = x.userPaused /\ y.suspensions = x.suspensions /\ y.cancel = x.cancel
      /\ y.painted = x.painted /\ y.paused = x.paused
  BY <1>3 DEF Workspaces
<1>6. \A kind \in {"live", "manual"} : Open(y, kind, 0) = Open(x, kind, r)
  <2> TAKE kind \in {"live", "manual"}
  <2>1. \A s \in DOMAIN x.runs : s \in Open(y, kind, 0) <=> s \in Open(x, kind, r)
    BY <1>1, <1>2, <1>5, RunTypes DEF Open
  <2>2. Open(y, kind, 0) \subseteq DOMAIN x.runs /\ Open(x, kind, r) \subseteq DOMAIN x.runs
    BY <1>1, <1>5 DEF Open
  <2>3. QED
    BY <2>1, <2>2
<1>7. \A s \in Open(x, "live", r) : y.runs[s] = x.runs[s]
  BY <1>2, <1>5 DEF Open
<1>8. Held(y, 0)
  BY <1>5, <1>6, <1>7 DEF Held
<1>9. Timed(y, 0) /\ Wanted(y, 0)
  BY <1>5, <1>6, <1>7 DEF Timed, Wanted
<1>10. Configured(y)
  BY <1>5, Zenon DEF Configured
<1>11. \A b \in SUBSET Nat : Latest(x, b) /\ Showing(x, b, r) => Fits(y, b)
  BY <1>5, <1>6, <1>7 DEF Fits, Latest, Showing
<1>12. QED
  BY <1>4, <1>5, <1>8, <1>9, <1>10, <1>11 DEF Good

(* A result is shown only for the run that goes on. *)
LEMMA ShownStep ==
  ASSUME NEW x, Good(x), NEW r \in Open(x, "live", 0), NEW y, y = Shown(x, x.runs[r])
  PROVE  /\ Good(y) /\ y.runs = x.runs /\ y.active = x.active
         /\ \A b \in SUBSET Nat : Fits(x, b) => Fits(y, b)
<1> DEFINE run == x.runs[r]
           n == run.snapshot
<1>1. CASE y = x
  BY <1>1
<1>2. CASE y # x
  <2>0. x \in Workspaces /\ r \in DOMAIN x.runs
    BY DEF Good, Open
  <2>1. n \in Nat
    BY <2>0, RunTypes
  <2>2. ~run.aborted /\ run.generation = x.generation
    BY <1>2 DEF Shown
  <2>3. x.timer = 0 /\ ~x.disposed
    BY <2>2 DEF Good, Wanted
  <2>4. \/ y = [x EXCEPT !.pending = NoPending, !.shown = n]
        \/ y = [x EXCEPT !.pending = NoPending, !.shown = n, !.painted = n]
    BY <1>2 DEF Shown
  <2> HIDE DEF n
  <2>5. y \in Workspaces
    <3>1. TRUE \in BOOLEAN
      OBVIOUS
    <3>2. [x EXCEPT !.pending = NoPending, !.shown = n] \in Workspaces
      BY <2>0, <2>1, <3>1, FieldTypes, Zenon
    <3>3. [x EXCEPT !.pending = NoPending, !.shown = n, !.painted = n] \in Workspaces
      BY <2>0, <2>1, <3>1, FieldTypes, Zenon
    <3>4. QED
      BY <2>4, <3>2, <3>3
  <2>6. /\ y.generation = x.generation /\ y.timer = x.timer /\ y.pending = NoPending
        /\ y.runs = x.runs /\ y.active = x.active /\ y.disposed = x.disposed /\ y.off = x.off
        /\ y.userPaused = x.userPaused /\ y.suspensions = x.suspensions /\ y.cancel = x.cancel
        /\ y.painted \in {x.painted, n} /\ y.paused = x.paused
    BY <2>0, <2>4 DEF Workspaces
  <2>7. \A kind \in {"live", "manual"} : Open(y, kind, 0) = Open(x, kind, 0)
    BY <2>6 DEF Open
  <2>8. Held(y, 0) /\ Wanted(y, 0)
    BY <2>6, <2>7 DEF Good, Held, Wanted
  <2>9. Timed(y, 0)
    BY <2>3, <2>6 DEF Timed, NoPending
  <2>10. Configured(y)
    BY <2>6, Zenon DEF Good, Configured
  <2>11. \A b \in SUBSET Nat : Fits(x, b) => Fits(y, b)
    <3> SUFFICES ASSUME NEW b \in SUBSET Nat, Fits(x, b) PROVE Fits(y, b)
      OBVIOUS
    <3>1. n \in b /\ y.painted \in {0} \cup b
      BY <2>2, <2>6 DEF Fits, Showing, n
    <3>2. QED
      BY <2>6, <2>7, <3>1 DEF Fits, Latest, Showing
  <2>12. QED
    BY <2>3, <2>5, <2>6, <2>8, <2>9, <2>10, <2>11 DEF Good
<1>3. QED
  BY <1>1, <1>2

(* What is left when run r is about to settle. *)
Leaves(x, y, r) ==
  /\ y \in Workspaces /\ r \in DOMAIN y.runs
  /\ Held(y, r) /\ Timed(y, r) /\ Wanted(y, r) /\ Configured(y)
  /\ y.disposed => y.painted = 0
  /\ \A b \in SUBSET Nat : Fits(x, b) => Latest(y, b) /\ Showing(y, b, r)

(* The end of LiveScheduler.start and of runNow. *)
LEMMA LiveEndsStep ==
  ASSUME NEW x, Good(x), NEW r \in Open(x, "live", 0), NEW z, z = LiveEnds(x, x.runs[r])
  PROVE  Leaves(x, z, r)
<1> DEFINE run == x.runs[r]
           s == Shown(x, run)
           y == IF s.active # 0 /\ s.runs[s.active].generation = run.generation
                THEN [s EXCEPT !.active = 0] ELSE s
<1>1. /\ Good(s) /\ s.runs = x.runs /\ s.active = x.active
      /\ \A b \in SUBSET Nat : Fits(x, b) => Fits(s, b)
  BY ShownStep
<1>2. z = IF run.restore THEN Restore(y) ELSE y
  BY DEF LiveEnds
<1> HIDE DEF s
<1>3. s \in Workspaces /\ r \in Open(s, "live", 0) /\ r \in DOMAIN s.runs /\ r \in Nat
  BY <1>1, RunTypes DEF Good, Open
<1>4. y = IF s.active = r THEN [s EXCEPT !.active = 0] ELSE s
  <2>1. s.active \in {0} \cup Open(s, "live", 0)
    BY <1>1 DEF Good, Held
  <2>2. s.active # 0 => (s.runs[s.active].generation = run.generation <=> s.active = r)
    BY <1>1, <1>3, <2>1 DEF Good, Held
  <2>3. r # 0
    BY <1>3, RunTypes
  <2>4. QED
    BY <2>2, <2>3
<1> HIDE DEF y
<1>5. y \in Workspaces
  <2>1. 0 \in Nat /\ TRUE \in BOOLEAN
    OBVIOUS
  <2>2. QED
    BY <1>3, <1>4, <2>1, FieldTypes, Zenon
<1>6. /\ y.generation = s.generation /\ y.timer = s.timer /\ y.pending = s.pending
      /\ y.runs = s.runs /\ y.disposed = s.disposed /\ y.off = s.off
      /\ y.userPaused = s.userPaused /\ y.suspensions = s.suspensions /\ y.cancel = s.cancel
      /\ y.painted = s.painted /\ y.paused = s.paused
      /\ y.active = IF s.active = r THEN 0 ELSE s.active
  BY <1>3, <1>4 DEF Workspaces
<1>7. /\ Open(y, "live", r) = Open(s, "live", 0) \ {r}
      /\ Open(y, "manual", r) = Open(s, "manual", 0)
  BY <1>3, <1>6, RunTypes DEF Open
<1>8. Held(y, r)
  BY <1>1, <1>6, <1>7 DEF Good, Held
<1>9. Timed(y, r) /\ Wanted(y, r)
  BY <1>1, <1>6, <1>7 DEF Good, Timed, Wanted
<1>10. Configured(y)
  BY <1>1, <1>6, Zenon DEF Good, Configured
<1>11. \A b \in SUBSET Nat : Fits(x, b) => Latest(y, b) /\ Showing(y, b, r)
  BY <1>1, <1>6, <1>7 DEF Fits, Latest, Showing
<1>12. y.disposed => y.painted = 0
  BY <1>1, <1>6 DEF Good
<1>13. CASE z = y
  BY <1>3, <1>5, <1>6, <1>8, <1>9, <1>10, <1>11, <1>12, <1>13 DEF Leaves
<1>14. CASE z = Restore(y)
  <2>1. /\ z \in Workspaces /\ Held(z, r) /\ Timed(z, r) /\ Wanted(z, r) /\ Configured(z)
        /\ z.userPaused = TRUE /\ z.disposed = y.disposed /\ z.painted \in {0, y.painted}
        /\ DOMAIN z.runs = DOMAIN y.runs
        /\ \A b \in SUBSET Nat : Showing(y, b, r) => Showing(z, b, r)
    BY <1>3, <1>5, <1>8, <1>9, <1>14, RestoreStep
  <2>2. QED
    BY <1>3, <1>6, <1>11, <1>12, <2>1 DEF Leaves, Latest
<1>15. QED
  BY <1>2, <1>13, <1>14

(* LiveWorkspace.release: a manual run gives its suspension back. *)
LEMMA ReleaseStep ==
  ASSUME NEW x, Good(x), NEW r \in Open(x, "manual", 0), NEW z, z = Release(x)
  PROVE  Leaves(x, z, r)
<1>1. x \in Workspaces /\ r \in DOMAIN x.runs /\ r \in Nat /\ r # 0
  BY RunTypes DEF Good, Open
<1>2. /\ Open(x, "live", r) = Open(x, "live", 0)
      /\ Open(x, "manual", r) = Open(x, "manual", 0) \ {r}
  BY <1>1, RunTypes DEF Open
<1>3. CASE x.disposed
  <2>1. z = x
    BY <1>3 DEF Release
  <2>2. Held(x, r)
    BY <1>2, <1>3 DEF Good, Held
  <2>3. Timed(x, r) /\ Wanted(x, r) /\ Configured(x)
    BY <1>2 DEF Good, Timed, Wanted
  <2>4. QED
    BY <1>1, <1>2, <2>1, <2>2, <2>3 DEF Leaves, Good, Fits, Showing
<1>4. CASE ~x.disposed
  <2> DEFINE n == IF x.suspensions = 0 THEN 0 ELSE x.suspensions - 1
             a == [x EXCEPT !.suspensions = n]
  <2>1. n \in Nat /\ n = Cardinality(Open(x, "manual", r))
    <3>1. x.suspensions = Cardinality(Open(x, "manual", 0)) /\ x.suspensions \in Nat
      BY <1>1, <1>4 DEF Good, Held, Workspaces
    <3>2. IsFiniteSet(DOMAIN x.runs)
      BY <1>1, RunTypes, FS_Interval
    <3>3. IsFiniteSet(Open(x, "manual", 0))
      BY <3>2, FS_Subset DEF Open
    <3>4. Cardinality(Open(x, "manual", r)) = Cardinality(Open(x, "manual", 0)) - 1
      BY <1>2, <3>3, FS_RemoveElement
    <3>5. Cardinality(Open(x, "manual", r)) \in Nat
      BY <1>2, <3>3, FS_RemoveElement, FS_CardinalityType
    <3>6. QED
      BY <3>1, <3>4, <3>5
  <2> HIDE DEF n
  <2>2. a \in Workspaces
    <3>1. 0 \in Nat /\ TRUE \in BOOLEAN
      OBVIOUS
    <3>2. QED
      BY <1>1, <2>1, <3>1, FieldTypes, Zenon
  <2>3. /\ a.generation = x.generation /\ a.timer = x.timer /\ a.pending = x.pending
        /\ a.runs = x.runs /\ a.active = x.active /\ a.disposed = x.disposed /\ a.off = x.off
        /\ a.userPaused = x.userPaused /\ a.suspensions = n /\ a.cancel = x.cancel
        /\ a.painted = x.painted /\ a.paused = x.paused
    BY <1>1 DEF Workspaces
  <2>4. z = Configure(a)
    BY <1>1, <1>4 DEF Release, n
  <2> HIDE DEF a
  <2>5. \A kind \in {"live", "manual"} : Open(a, kind, r) = Open(x, kind, r)
    BY <2>3 DEF Open
  <2>6. Held(a, r)
    BY <1>2, <2>1, <2>3, <2>5 DEF Good, Held
  <2>7. Timed(a, r) /\ Wanted(a, r)
    BY <1>2, <2>3, <2>5 DEF Good, Timed, Wanted
  <2>8. /\ z \in Workspaces /\ Follows(a, z) /\ Held(z, r) /\ Timed(z, r) /\ Wanted(z, r)
        /\ Configured(z) /\ SamePending(a, z)
    BY <1>1, <2>2, <2>4, <2>6, <2>7, ConfigureStep
  <2>9. ASSUME NEW b \in SUBSET Nat, Fits(x, b) PROVE Latest(z, b) /\ Showing(z, b, r)
    <3>1. Showing(a, b, r)
      BY <1>2, <2>3, <2>5, <2>9 DEF Fits, Showing
    <3>2. Showing(z, b, r)
      BY <1>1, <2>2, <2>8, <3>1, FollowsShowing
    <3>3. Latest(z, b)
      BY <2>3, <2>8, <2>9 DEF Fits, Latest, Follows, SamePending
    <3>4. QED
      BY <3>2, <3>3
  <2>10. QED
    BY <1>1, <1>4, <2>3, <2>8, <2>9 DEF Leaves, Follows
<1>5. QED
  BY <1>3, <1>4

(* The promise of any request settles. *)
LEMMA SettledStep ==
  ASSUME NEW x, Good(x), NEW r \in DOMAIN x.runs, x.runs[r].stage # "settled",
         NEW z, z = Settled(x, r)
  PROVE  Good(z) /\ \A b \in SUBSET Nat : Fits(x, b) => Fits(z, b)
<1> DEFINE run == x.runs[r]
           y == IF run.kind = "live" THEN LiveEnds(x, run) ELSE Release(x)
           q == [run EXCEPT !.stage = "settled", !.snapshot = 0, !.aborted = FALSE,
                            !.restore = FALSE, !.verdict = "none"]
<1>1. x \in Workspaces /\ run \in Requests /\ r # 0
  <2>1. x \in Workspaces
    BY DEF Good
  <2>2. QED
    BY <2>1, RunTypes
<1>2. q \in Requests /\ q.stage = "settled"
  BY <1>1 DEF Requests
<1>3. z = [y EXCEPT !.runs[r] = q]
  BY DEF Settled
<1>4. Leaves(x, y, r)
  <2>1. CASE run.kind = "live"
    <3>1. r \in Open(x, "live", 0)
      BY <1>1, <2>1 DEF Open
    <3>2. QED
      BY <2>1, <3>1, LiveEndsStep
  <2>2. CASE run.kind # "live"
    <3>1. r \in Open(x, "manual", 0)
      BY <1>1, <2>2 DEF Open, Requests
    <3>2. QED
      BY <2>2, <3>1, ReleaseStep
  <2>3. QED
    BY <2>1, <2>2
<1> HIDE DEF y, q
<1>5. /\ Good(z)
      /\ \A b \in SUBSET Nat : Latest(y, b) /\ Showing(y, b, r) => Fits(z, b)
  BY <1>2, <1>3, <1>4, SettledRun DEF Leaves
<1>6. QED
  BY <1>4, <1>5 DEF Leaves

------------------------------------------------------------------------------
(* The actions.  Kept is what a step that leaves the editor alone must do. *)
Kept == Good(w') /\ \A b \in SUBSET Nat : Fits(w, b) => Fits(w', b)

(* A step of the workspace keeps the invariant. *)
LEMMA KeptStep ==
  ASSUME IInv, Kept, UNCHANGED <<buffer, left>>, Counters', OwnCancelsAreOrdered'
  PROVE  IInv'
<1>1. Contents \in SUBSET Nat /\ Contents' = Contents
  BY MaxEventsAssumption DEF IInv, Counters, Contents
<1>2. Fits(w', Contents)
  BY <1>1 DEF IInv, Kept
<1>3. QED
  BY <1>1, <1>2 DEF IInv, Kept, Fits, Latest, Showing, Good

(* One more thing the developer does. *)
LEMMA ActCounts ==
  ASSUME Counters, Act, buffer' \in {buffer, buffer + 1}, UNCHANGED late,
         policy' \in {"automatic", "onSave"}, left' \subseteq Nat,
         foreign' \in {foreign, foreign + 1}
  PROVE  Counters'
  BY MaxEventsAssumption DEF Counters, Act

(* The mode is changed, and configure acts on it. *)
LEMMA ToggleStep ==
  ASSUME NEW x, Good(x), NEW userPaused \in BOOLEAN, NEW off \in BOOLEAN,
         NEW a, a \in {[x EXCEPT !.userPaused = userPaused], [x EXCEPT !.off = off]},
         NEW y, y \in {Configure(a), Pause([x EXCEPT !.userPaused = TRUE])}
  PROVE  /\ Good(y) /\ y.disposed = x.disposed /\ y.painted \in {0, x.painted}
         /\ y = Configure(a) => y.off = a.off /\ y.userPaused = a.userPaused
         /\ y = Pause([x EXCEPT !.userPaused = TRUE]) => y.userPaused = TRUE
         /\ \A b \in SUBSET Nat : Showing(x, b, 0) => Showing(y, b, 0)
<1>0. x \in Workspaces /\ 0 \in Nat /\ TRUE \in BOOLEAN
  BY DEF Good
<1>1. ASSUME NEW c, c \in {[x EXCEPT !.userPaused = userPaused],
                           [x EXCEPT !.off = off], [x EXCEPT !.userPaused = TRUE]}
      PROVE  /\ c \in Workspaces /\ Held(c, 0) /\ Timed(c, 0) /\ Wanted(c, 0)
             /\ c.painted = x.painted /\ c.disposed = x.disposed
             /\ c.disposed => c.painted = 0
             /\ \A b \in SUBSET Nat : Showing(x, b, 0) => Showing(c, b, 0)
  <2>1. c \in Workspaces
    <3>1. [x EXCEPT !.userPaused = userPaused] \in Workspaces
      BY <1>0, FieldTypes, Zenon
    <3>2. [x EXCEPT !.off = off] \in Workspaces
      BY <1>0, FieldTypes, Zenon
    <3>3. [x EXCEPT !.userPaused = TRUE] \in Workspaces
      BY <1>0, FieldTypes, Zenon
    <3>4. QED
      BY <1>1, <3>1, <3>2, <3>3
  <2>2. /\ c.generation = x.generation /\ c.timer = x.timer /\ c.pending = x.pending
        /\ c.runs = x.runs /\ c.active = x.active /\ c.disposed = x.disposed
        /\ c.suspensions = x.suspensions /\ c.cancel = x.cancel
        /\ c.painted = x.painted /\ c.paused = x.paused
    BY <1>0, <1>1 DEF Workspaces
  <2>3. \A kind \in {"live", "manual"} : Open(c, kind, 0) = Open(x, kind, 0)
    BY <2>2 DEF Open
  <2>4. Held(c, 0) /\ Timed(c, 0) /\ Wanted(c, 0)
    BY <2>2, <2>3 DEF Good, Held, Timed, Wanted
  <2>5. QED
    BY <2>1, <2>2, <2>3, <2>4 DEF Good, Showing
<1>2. CASE y = Configure(a)
  <2>1. /\ a \in Workspaces /\ Held(a, 0) /\ Timed(a, 0) /\ Wanted(a, 0)
        /\ a.painted = x.painted /\ a.disposed = x.disposed
        /\ \A b \in SUBSET Nat : Showing(x, b, 0) => Showing(a, b, 0)
    BY <1>1
  <2>2. /\ y \in Workspaces /\ Follows(a, y) /\ Held(y, 0) /\ Timed(y, 0) /\ Wanted(y, 0)
        /\ Configured(y)
    BY <1>2, <2>1, ConfigureStep
  <2>3. \A b \in SUBSET Nat : Showing(x, b, 0) => Showing(y, b, 0)
    BY <2>1, <2>2, FollowsShowing
  <2>4. /\ y.disposed = x.disposed /\ y.painted \in {0, x.painted}
        /\ y.off = a.off /\ y.userPaused = a.userPaused
    BY <2>1, <2>2 DEF Follows
  <2>5. y = Pause([x EXCEPT !.userPaused = TRUE]) => y.userPaused = TRUE
    <3> DEFINE c == [x EXCEPT !.userPaused = TRUE]
    <3>1. c \in Workspaces /\ Held(c, 0) /\ Timed(c, 0) /\ c.userPaused = TRUE
      BY <1>0, <1>1 DEF Workspaces
    <3> HIDE DEF c
    <3>2. y = Pause(c) => y.userPaused = TRUE
      BY <3>1, PauseStep DEF Follows
    <3>3. QED
      BY <3>2 DEF c
  <2>6. QED
    BY <2>2, <2>3, <2>4, <2>5 DEF Good
<1>3. CASE y # Configure(a)
  <2> DEFINE c == [x EXCEPT !.userPaused = TRUE]
  <2>1. /\ c \in Workspaces /\ Held(c, 0) /\ Timed(c, 0) /\ c.userPaused = TRUE
        /\ c.painted = x.painted /\ c.disposed = x.disposed
        /\ \A b \in SUBSET Nat : Showing(x, b, 0) => Showing(c, b, 0)
    BY <1>0, <1>1 DEF Workspaces
  <2>2. y = Pause(c)
    BY <1>3
  <2> HIDE DEF c
  <2>3. /\ y \in Workspaces /\ Follows(c, y) /\ Held(y, 0) /\ Timed(y, 0) /\ AllAborted(y, 0)
        /\ y.paused = TRUE
    BY <2>1, <2>2, PauseStep
  <2>4. Configured(y) /\ y.userPaused = TRUE
    BY <2>1, <2>3, Zenon DEF Configured, Follows
  <2>5. Wanted(y, 0)
    BY <2>3 DEF AllAborted, Wanted
  <2>6. \A b \in SUBSET Nat : Showing(x, b, 0) => Showing(y, b, 0)
    BY <2>1, <2>3, FollowsShowing
  <2>7. y.disposed = x.disposed /\ y.painted \in {0, x.painted}
    BY <2>1, <2>3 DEF Follows
  <2>8. QED
    BY <1>3, <2>3, <2>4, <2>5, <2>6, <2>7 DEF Good
<1>4. QED
  BY <1>2, <1>3

(* The editor's content is scheduled in a good workspace. *)
LEMMA RescheduleStep ==
  ASSUME NEW x, Good(x), ~x.disposed, NEW b \in Nat, NEW y, y = Schedule(x, b)
  PROVE  /\ Good(y) /\ ~y.disposed
         /\ ~y.paused => y.timer # 0
         /\ \A c : b \in c /\ x.painted \in {0} \cup c => Fits(y, c)
<1>1. /\ y \in Workspaces /\ Follows(x, y) /\ Held(y, 0) /\ Timed(y, 0) /\ AllAborted(y, 0)
      /\ Wanted(y, 0) /\ Configured(y) /\ \A c : b \in c => Latest(y, c)
      /\ ~y.paused => y.timer # 0
  BY ScheduleStep DEF Good
<1>2. \A c : b \in c /\ x.painted \in {0} \cup c => Fits(y, c)
  BY <1>1 DEF Follows, Fits, Showing, AllAborted
<1>3. QED
  BY <1>1, <1>2 DEF Good, Follows

(* The contents are numbers. *)
LEMMA ContentsType ==
  ASSUME IInv PROVE Contents \in SUBSET Nat /\ buffer \in Contents
  BY MaxEventsAssumption DEF IInv, Counters, Contents

(* Nothing else is cancelled by what the developer does. *)
LEMMA QuietStep ==
  ASSUME IInv, Quiet PROVE OwnCancelsAreOrdered'
  BY DEF IInv, Quiet, OwnCancelsAreOrdered

(* An edit clears the decorations and, in automatic mode, aborts what ran. *)
LEMMA EditStep ==
  ASSUME IInv, Edit PROVE IInv'
<1> DEFINE y == [w EXCEPT !.painted = 0]
<1>1. w \in Workspaces /\ 0 \in Nat /\ TRUE \in BOOLEAN /\ ~w.disposed
  BY DEF IInv, Good, Edit, Act
<1>2. y \in Workspaces
  BY <1>1, FieldTypes, Zenon
<1>3. /\ y.generation = w.generation /\ y.timer = w.timer /\ y.pending = w.pending
      /\ y.runs = w.runs /\ y.active = w.active /\ y.disposed = w.disposed /\ y.off = w.off
      /\ y.userPaused = w.userPaused /\ y.suspensions = w.suspensions /\ y.cancel = w.cancel
      /\ y.painted = 0 /\ y.paused = w.paused
  BY <1>1 DEF Workspaces
<1>4. /\ w' = (IF policy = "automatic" THEN Schedule(y, buffer + 1) ELSE y)
      /\ policy' = policy /\ left' = left \cup Unscheduled(w)
  BY DEF Edit
<1> HIDE DEF y
<1>5. \A kind \in {"live", "manual"} : Open(y, kind, 0) = Open(w, kind, 0)
  BY <1>3 DEF Open
<1>6. Held(y, 0) /\ Timed(y, 0) /\ Wanted(y, 0)
  BY <1>3, <1>5 DEF IInv, Good, Held, Timed, Wanted
<1>7. Configured(y)
  BY <1>3, Zenon DEF IInv, Good, Configured
<1>8. Good(y)
  BY <1>2, <1>3, <1>6, <1>7 DEF Good
<1>9. /\ buffer' = buffer + 1 /\ buffer' \in Nat /\ policy \in {"automatic", "onSave"}
      /\ buffer' \in Contents'
  BY MaxEventsAssumption DEF IInv, Counters, Edit, Contents
<1>10. Good(w') /\ Fits(w', Contents')
  <2>1. CASE policy = "automatic"
    BY <1>1, <1>3, <1>4, <1>8, <1>9, <2>1, RescheduleStep
  <2>2. CASE policy # "automatic"
    <3>1. w' = y
      BY <1>4, <2>2
    <3>2. ~w.off /\ ~w.userPaused => w.pending.snapshot \in Contents'
      BY <1>4, <2>2 DEF Unscheduled, Contents
    <3>3. ASSUME NEW r \in Open(w, "live", 0), ~w.runs[r].aborted
          PROVE  w.runs[r].snapshot \in Contents'
      <4>1. ~w.paused /\ r = w.active /\ r # 0
        BY <1>1, <3>3, RunTypes DEF IInv, Good, Wanted, Held
      <4>2. ~w.off /\ ~w.userPaused
        BY <4>1 DEF IInv, Good, Configured
      <4>3. QED
        BY <1>4, <2>2, <4>1, <4>2 DEF Unscheduled, Contents
    <3>4. Latest(y, Contents')
      BY <1>3, <3>2 DEF Latest
    <3>5. Showing(y, Contents', 0)
      BY <1>3, <1>5, <3>3 DEF Showing
    <3>6. QED
      BY <1>8, <3>1, <3>4, <3>5 DEF Fits
  <2>3. QED
    BY <2>1, <2>2
<1>11. Counters'
  <2>1. Unscheduled(w) \subseteq Nat
    <3>1. w.pending.snapshot \in Nat
      BY <1>1 DEF Workspaces
    <3>2. \A r \in {w.active} \ {0} : w.runs[r].snapshot \in Nat
      BY <1>1, RunTypes DEF IInv, Good, Held, Open
    <3>3. QED
      BY <3>1, <3>2 DEF Unscheduled
  <2>2. left' \subseteq Nat
    BY <1>4, <2>1 DEF IInv, Counters
  <2>3. QED
    BY <1>4, <1>9, <2>2, ActCounts DEF IInv, Edit, Quiet
<1>12. OwnCancelsAreOrdered'
  BY QuietStep DEF Edit
<1>13. QED
  BY <1>10, <1>11, <1>12 DEF IInv, Good, Fits, Latest, Showing

(* A closed document loses what was not saved, and is scheduled. *)
LEMMA CloseDocumentStep ==
  ASSUME IInv, CloseDocument PROVE IInv'
<1> DEFINE y == [w EXCEPT !.painted = 0]
<1>1. w \in Workspaces /\ 0 \in Nat /\ TRUE \in BOOLEAN /\ ~w.disposed
  BY DEF IInv, Good, CloseDocument, Act
<1>2. y \in Workspaces
  BY <1>1, FieldTypes, Zenon
<1>3. /\ y.generation = w.generation /\ y.timer = w.timer /\ y.pending = w.pending
      /\ y.runs = w.runs /\ y.active = w.active /\ y.disposed = w.disposed /\ y.off = w.off
      /\ y.userPaused = w.userPaused /\ y.suspensions = w.suspensions /\ y.cancel = w.cancel
      /\ y.painted = 0 /\ y.paused = w.paused
  BY <1>1 DEF Workspaces
<1>4. w' = Schedule(y, buffer') /\ policy' = policy /\ left' = left
  BY DEF CloseDocument
<1> HIDE DEF y
<1>5. \A kind \in {"live", "manual"} : Open(y, kind, 0) = Open(w, kind, 0)
  BY <1>3 DEF Open
<1>6. Held(y, 0) /\ Timed(y, 0) /\ Wanted(y, 0)
  BY <1>3, <1>5 DEF IInv, Good, Held, Timed, Wanted
<1>7. Configured(y)
  BY <1>3, Zenon DEF IInv, Good, Configured
<1>8. Good(y)
  BY <1>2, <1>3, <1>6, <1>7 DEF Good
<1>9. /\ buffer' \in {buffer, buffer + 1} /\ buffer' \in Nat
      /\ buffer' \in Contents'
  BY MaxEventsAssumption DEF IInv, Counters, CloseDocument, Contents
<1>10. Good(w') /\ Fits(w', Contents')
  BY <1>1, <1>3, <1>4, <1>8, <1>9, RescheduleStep
<1>11. Counters'
  BY <1>4, <1>9, ActCounts DEF IInv, Counters, CloseDocument, Quiet
<1>12. OwnCancelsAreOrdered'
  BY QuietStep DEF CloseDocument
<1>13. QED
  BY <1>10, <1>11, <1>12 DEF IInv, Good, Fits, Latest, Showing

(* A save schedules the content that is saved. *)
LEMMA SaveStep ==
  ASSUME IInv, Save PROVE IInv'
<1>1. /\ ~w.disposed /\ Good(w) /\ buffer \in Nat
      /\ w' = Schedule(w, buffer)
  BY MaxEventsAssumption DEF IInv, Counters, Save, Act
<1>2. Good(w') /\ Fits(w', Contents)
  BY <1>1, RescheduleStep DEF IInv, Fits, Showing, Contents
<1>3. Counters'
  BY ActCounts DEF IInv, Counters, Save, Quiet
<1>4. OwnCancelsAreOrdered'
  BY QuietStep DEF Save
<1>5. QED
  BY <1>2, <1>3, <1>4 DEF IInv, Good, Fits, Latest, Showing, Contents, Save

(* The pause command aborts what runs. *)
LEMMA PauseLiveStep ==
  ASSUME IInv, PauseLive PROVE IInv'
<1>1. Good(w) /\ w' = Pause([w EXCEPT !.userPaused = TRUE])
  BY DEF IInv, PauseLive
<1>2. /\ Good(w') /\ w'.userPaused = TRUE
      /\ \A b \in SUBSET Nat : Showing(w, b, 0) => Showing(w', b, 0)
  BY <1>1, ToggleStep
<1>3. Kept
  BY <1>2 DEF Kept, Fits, Latest
<1>4. Counters'
  BY ActCounts DEF IInv, Counters, PauseLive, Quiet
<1>5. OwnCancelsAreOrdered'
  BY QuietStep DEF PauseLive
<1>6. QED
  BY <1>3, <1>4, <1>5, KeptStep DEF PauseLive, Quiet

(* The resume command schedules the content as it is now. *)
LEMMA ResumeLiveStep ==
  ASSUME IInv, ResumeLive PROVE IInv'
<1> DEFINE y == Configure([w EXCEPT !.userPaused = FALSE])
<1>1. Good(w) /\ ~w.disposed /\ buffer \in Nat /\ w' = Schedule(y, buffer)
  BY MaxEventsAssumption DEF IInv, Counters, ResumeLive, Act
<1>2. Good(y) /\ y.disposed = w.disposed /\ y.painted \in {0, w.painted}
  BY <1>1, ToggleStep
<1> HIDE DEF y
<1>7. buffer \in Contents /\ y.painted \in {0} \cup Contents
  BY <1>2, ContentsType DEF IInv, Fits, Showing
<1>3. Good(w') /\ Fits(w', Contents)
  BY <1>1, <1>2, <1>7, RescheduleStep
<1>4. Counters'
  BY ActCounts DEF IInv, Counters, ResumeLive, Quiet
<1>5. OwnCancelsAreOrdered'
  BY QuietStep DEF ResumeLive
<1>6. QED
  BY <1>3, <1>4, <1>5 DEF IInv, Good, Fits, Latest, Showing, Contents, ResumeLive

(* The run command verifies at once, and a paused workspace pauses again. *)
LEMMA RunNowStep ==
  ASSUME IInv, RunNow PROVE IInv'
<1> DEFINE y == IF w.userPaused THEN Configure([w EXCEPT !.userPaused = FALSE]) ELSE w
           z == Schedule(y, buffer)
<1>1. /\ Good(w) /\ ~w.disposed /\ buffer \in Nat /\ w.userPaused \in BOOLEAN
      /\ w' = Flush(z, w.userPaused)
  BY MaxEventsAssumption DEF IInv, Counters, RunNow, Act, Good, Workspaces
<1>2. Good(y) /\ y.disposed = w.disposed /\ y.painted \in {0, w.painted}
  BY <1>1, ToggleStep
<1> HIDE DEF y
<1>3. Good(z) /\ (~z.paused => z.timer # 0) /\ Fits(z, Contents)
  BY <1>1, <1>2, RescheduleStep DEF IInv, Fits, Showing, Contents
<1> HIDE DEF z
<1>4. Good(w') /\ Fits(w', Contents)
  BY <1>1, <1>3, FlushStep, ContentsType
<1>5. Counters'
  BY ActCounts DEF IInv, Counters, RunNow, Quiet
<1>6. OwnCancelsAreOrdered'
  BY QuietStep DEF RunNow
<1>7. QED
  BY <1>4, <1>5, <1>6 DEF IInv, Good, Fits, Latest, Showing, Contents, RunNow

(* Turned off, nothing goes on; turned on, the content is verified. *)
LEMMA ChangeModeStep ==
  ASSUME IInv, ChangeMode PROVE IInv'
<1>0. PICK mode \in {"off", "automatic", "onSave"} :
        LET y == Configure([w EXCEPT !.off = (mode = "off")])
        IN  /\ w' = IF y.off THEN y ELSE Flush(Schedule(y, buffer), FALSE)
            /\ policy' = IF mode = "off" THEN policy ELSE mode
  BY DEF ChangeMode
<1> DEFINE off == (mode = "off")
           a == [w EXCEPT !.off = off]
           y == Configure(a)
           z == Schedule(y, buffer)
<1>8. w' = (IF y.off THEN y ELSE Flush(z, FALSE)) /\ left' = left /\ buffer' = buffer
  BY <1>0 DEF ChangeMode
<1>9. policy' \in {"automatic", "onSave"}
  BY <1>0 DEF IInv, Counters
<1>1. /\ Good(w) /\ w \in Workspaces /\ ~w.disposed /\ buffer \in Nat
      /\ off \in BOOLEAN /\ TRUE \in BOOLEAN
  BY MaxEventsAssumption DEF IInv, Good, Counters, ChangeMode, Act
<1> HIDE DEF off
<1>2. /\ Good(y) /\ y.disposed = w.disposed /\ y.painted \in {0, w.painted}
      /\ \A b \in SUBSET Nat : Showing(w, b, 0) => Showing(y, b, 0)
  BY <1>1, ToggleStep
<1> HIDE DEF y
<1>3. Good(z) /\ (~z.paused => z.timer # 0) /\ Fits(z, Contents)
  BY <1>1, <1>2, RescheduleStep DEF IInv, Fits, Showing, Contents
<1> HIDE DEF z
<1>4. Good(w') /\ Fits(w', Contents)
  <2>1. CASE y.off
    BY <1>8, <1>1, <1>2, <2>1, ContentsType DEF IInv, Fits, Latest
  <2>2. CASE ~y.off
    BY <1>8, <1>1, <1>3, <2>2, FlushStep, ContentsType
  <2>3. QED
    BY <2>1, <2>2
<1>5. Counters'
  BY <1>8, <1>9, ActCounts DEF IInv, Counters, ChangeMode, Quiet
<1>6. OwnCancelsAreOrdered'
  BY QuietStep DEF ChangeMode
<1>7. QED
  BY <1>4, <1>5, <1>6, <1>8 DEF IInv, Good, Fits, Latest, Showing, Contents

(* Another setting: configure finds what it established before. *)
LEMMA ChangeSettingStep ==
  ASSUME IInv, ChangeSetting PROVE IInv'
<1>1. /\ Good(w) /\ w \in Workspaces /\ w' = Configure(w) /\ 0 \in Nat
      /\ Held(w, 0) /\ Timed(w, 0) /\ Wanted(w, 0)
  BY DEF IInv, Good, ChangeSetting
<1>2. /\ w' \in Workspaces /\ Follows(w, w') /\ Held(w', 0) /\ Timed(w', 0) /\ Wanted(w', 0)
      /\ Configured(w') /\ SamePending(w, w')
  BY <1>1, ConfigureStep
<1>3. Good(w')
  BY <1>1, <1>2 DEF Good, Follows
<1>4. \A b \in SUBSET Nat : Showing(w, b, 0) => Showing(w', b, 0)
  BY <1>1, <1>2, FollowsShowing
<1>5. \A b \in SUBSET Nat : Latest(w, b) => Latest(w', b)
  BY <1>2 DEF Latest, Follows, SamePending
<1>6. Kept
  BY <1>3, <1>4, <1>5 DEF Kept, Fits
<1>7. Counters'
  BY ActCounts DEF IInv, Counters, ChangeSetting, Quiet
<1>8. OwnCancelsAreOrdered'
  BY QuietStep DEF ChangeSetting
<1>9. QED
  BY <1>6, <1>7, <1>8, KeptStep DEF ChangeSetting

(* A manual run suspends the scheduler and aborts what it runs. *)
LEMMA ManualRunStep ==
  ASSUME IInv, ManualRun PROVE IInv'
<1> DEFINE c == [w EXCEPT !.suspensions = w.suspensions + 1, !.paused = TRUE, !.timer = 0]
           y == AbortActive(c)
           q == Request(y, "manual", 0, buffer, FALSE)
           n == Len(y.runs) + 1
<1>1. /\ Good(w) /\ w \in Workspaces /\ ~w.disposed /\ buffer \in Nat
      /\ w.suspensions \in Nat
  BY MaxEventsAssumption DEF IInv, Good, Counters, ManualRun, Act, Workspaces
<1>2. /\ c \in Workspaces /\ c.generation = w.generation /\ c.timer = 0
      /\ c.pending = w.pending /\ c.runs = w.runs /\ c.active = w.active
      /\ c.disposed = w.disposed /\ c.off = w.off /\ c.userPaused = w.userPaused
      /\ c.suspensions = w.suspensions + 1 /\ c.painted = w.painted /\ c.paused = TRUE
  <2> DEFINE m == w.suspensions + 1
  <2>1. m \in Nat /\ TRUE \in BOOLEAN /\ 0 \in Nat
    BY <1>1
  <2> HIDE DEF m
  <2>2. [w EXCEPT !.suspensions = m, !.paused = TRUE, !.timer = 0] \in Workspaces
    BY <1>1, <2>1 DEF Workspaces
  <2>3. c = [w EXCEPT !.suspensions = m, !.paused = TRUE, !.timer = 0]
    BY DEF m
  <2>4. c \in Workspaces
    BY <2>2, <2>3
  <2>5. QED
    BY <1>1, <2>3, <2>4 DEF Workspaces, m
<1>3. [[w EXCEPT !.suspensions = @ + 1] EXCEPT !.paused = TRUE, !.timer = 0] = c
  BY <1>1 DEF Workspaces
<1>4. w' = [y EXCEPT !.runs = Append(y.runs, q)]
  BY <1>3 DEF ManualRun, Pause
<1> HIDE DEF c
<1>5. c.active \in {0} \cup DOMAIN c.runs
  BY <1>1, <1>2 DEF Good, Held, Open
<1>6. /\ y \in Workspaces /\ Follows(c, y)
      /\ y.generation = c.generation /\ y.timer = 0 /\ y.pending = c.pending
      /\ y.paused = TRUE /\ y.painted = c.painted
      /\ y.active # 0 => y.runs[y.active].aborted
  BY <1>2, <1>5, AbortActiveStep
<1> HIDE DEF y
<1>7. \A kind \in {"live", "manual"} : Open(y, kind, 0) = Open(w, kind, 0)
  BY <1>2, <1>6 DEF Open, Follows
<1>8. q \in Requests /\ q.kind = "manual" /\ q.stage # "settled"
  BY <1>1, <1>6 DEF Request, Requests, Workspaces
<1> HIDE DEF q
<1>9. w' \in Workspaces
  <2>1. Append(y.runs, q) \in Seq(Requests)
    BY <1>6, <1>8, RunTypes
  <2>2. QED
    BY <1>4, <1>6, <2>1 DEF Workspaces
<1>10. /\ w'.generation = y.generation /\ w'.timer = 0 /\ w'.pending = y.pending
       /\ w'.runs = Append(y.runs, q) /\ w'.active = y.active /\ w'.disposed = y.disposed
       /\ w'.off = y.off /\ w'.userPaused = y.userPaused /\ w'.suspensions = y.suspensions
       /\ w'.painted = y.painted /\ w'.paused = TRUE
  BY <1>4, <1>6 DEF Workspaces
<1>11. /\ n \notin DOMAIN y.runs /\ \A r \in DOMAIN y.runs : w'.runs[r] = y.runs[r]
       /\ Open(w', "live", 0) = Open(y, "live", 0)
       /\ Open(w', "manual", 0) = Open(y, "manual", 0) \cup {n}
  <2>1. "live" \in {"live", "manual"} /\ "manual" \in {"live", "manual"}
    OBVIOUS
  <2>2. QED
    BY <1>6, <1>8, <1>9, <1>10, <2>1, AppendStep
<1> HIDE DEF n
<1>12. \A r \in Open(w', "live", 0) :
         /\ r \in Open(w, "live", 0) /\ r \in DOMAIN w.runs
         /\ w'.runs[r] = y.runs[r] /\ y.runs[r].aborted
         /\ y.runs[r].generation = w.runs[r].generation
  <2> TAKE r \in Open(w', "live", 0)
  <2>1. r \in Open(w, "live", 0) /\ r \in DOMAIN w.runs /\ r \in DOMAIN y.runs
    BY <1>7, <1>11 DEF Open
  <2>2. w.runs[r].aborted \/ r = w.active
    BY <1>1, <2>1 DEF Good, Held
  <2>3. r # 0
    BY <2>1 DEF Open
  <2>4. QED
    BY <1>2, <1>6, <1>11, <2>1, <2>2, <2>3 DEF Follows
<1>13. w'.suspensions = Cardinality(Open(w', "manual", 0))
  <2>1. w.suspensions = Cardinality(Open(w, "manual", 0))
    BY <1>1 DEF Good, Held
  <2>2. IsFiniteSet(DOMAIN w.runs)
    BY <1>1, RunTypes, FS_Interval
  <2>3. IsFiniteSet(Open(w, "manual", 0))
    BY <2>2, FS_Subset DEF Open
  <2>4. n \notin Open(w, "manual", 0)
    BY <1>7, <1>11 DEF Open
  <2>5. Cardinality(Open(w, "manual", 0) \cup {n}) = Cardinality(Open(w, "manual", 0)) + 1
    BY <2>3, <2>4, FS_AddElement
  <2>6. w'.suspensions = w.suspensions + 1
    BY <1>2, <1>6, <1>10 DEF Follows
  <2>7. QED
    BY <1>7, <1>11, <2>1, <2>5, <2>6
<1>14. Held(w', 0)
  <2>1. w'.active \in {0} \cup Open(w', "live", 0)
    BY <1>1, <1>2, <1>6, <1>7, <1>10, <1>11 DEF Good, Held, Follows
  <2>2. w'.generation = w.generation
    BY <1>2, <1>6, <1>10
  <2>3. QED
    BY <1>1, <1>12, <1>13, <2>1, <2>2 DEF Good, Held
<1>15. Timed(w', 0) /\ Wanted(w', 0)
  BY <1>1, <1>2, <1>6, <1>10, <1>12 DEF Good, Timed, Wanted
<1>16. Configured(w')
  <2>1. w'.suspensions > 0
    BY <1>1, <1>2, <1>6, <1>10 DEF Follows
  <2>2. QED
    BY <1>10, <2>1, Zenon DEF Configured
<1>17. w'.disposed = w.disposed /\ w'.off = w.off /\ w'.userPaused = w.userPaused
  BY <1>2, <1>6, <1>10 DEF Follows
<1>18. \A b \in SUBSET Nat : Fits(w, b) => Fits(w', b)
  BY <1>2, <1>6, <1>10, <1>12, <1>17 DEF Fits, Latest, Showing
<1>19. Kept
  BY <1>1, <1>9, <1>14, <1>15, <1>16, <1>17, <1>18 DEF Kept, Good
<1>20. Counters'
  BY ActCounts DEF IInv, Counters, ManualRun, Quiet
<1>21. OwnCancelsAreOrdered'
  BY QuietStep DEF ManualRun
<1>22. QED
  BY <1>19, <1>20, <1>21, KeptStep DEF ManualRun, Quiet

(* The folder leaves: the run is aborted and the decorations go. *)
LEMMA DisposeStep ==
  ASSUME IInv, Dispose PROVE IInv'
<1> DEFINE y == AbortActive(w)
<1>1. Good(w) /\ w \in Workspaces /\ 0 \in Nat /\ TRUE \in BOOLEAN
  BY DEF IInv, Good
<1>2. w.active \in {0} \cup DOMAIN w.runs
  BY <1>1 DEF Good, Held, Open
<1>3. /\ y \in Workspaces /\ Follows(w, y)
      /\ y.generation = w.generation /\ y.timer = w.timer /\ y.pending = w.pending
      /\ y.paused = w.paused /\ y.painted = w.painted
      /\ y.active # 0 => y.runs[y.active].aborted
  BY <1>1, <1>2, AbortActiveStep
<1>4. w' = [y EXCEPT !.disposed = TRUE, !.timer = 0, !.painted = 0]
  BY DEF Dispose
<1> HIDE DEF y
<1>5. Held(y, 0) /\ Open(y, "live", 0) = Open(w, "live", 0)
  BY <1>1, <1>3, FollowsHeld, RunTypes DEF Good
<1>6. w' \in Workspaces
  BY <1>1, <1>3, <1>4, FieldTypes, Zenon
<1>7. /\ w'.generation = y.generation /\ w'.timer = 0 /\ w'.pending = y.pending
      /\ w'.runs = y.runs /\ w'.active = y.active /\ w'.disposed = TRUE
      /\ w'.off = y.off /\ w'.userPaused = y.userPaused /\ w'.suspensions = y.suspensions
      /\ w'.painted = 0 /\ w'.paused = y.paused
  BY <1>3, <1>4 DEF Workspaces
<1>8. Open(w', "live", 0) = Open(y, "live", 0)
  BY <1>7 DEF Open
<1>9. \A r \in Open(w', "live", 0) : w'.runs[r].aborted
  <2> TAKE r \in Open(w', "live", 0)
  <2>1. (y.runs[r].aborted \/ r = y.active) /\ r # 0
    BY <1>5, <1>8, <1>3, RunTypes DEF Held
  <2>2. QED
    BY <1>3, <1>7, <2>1
<1>10. Held(w', 0)
  BY <1>5, <1>7, <1>8 DEF Held
<1>11. Timed(w', 0) /\ Wanted(w', 0)
  BY <1>1, <1>3, <1>7, <1>9 DEF Good, Timed, Wanted
<1>12. Configured(w')
  BY <1>1, <1>3, <1>7, Zenon DEF Good, Configured, Follows
<1>13. Kept
  BY <1>6, <1>7, <1>9, <1>10, <1>11, <1>12 DEF Kept, Good, Fits, Latest, Showing
<1>14. Counters'
  BY ActCounts DEF IInv, Counters, Dispose, Quiet
<1>15. OwnCancelsAreOrdered'
  BY QuietStep DEF Dispose
<1>16. QED
  BY <1>13, <1>14, <1>15, KeptStep DEF Dispose, Quiet

------------------------------------------------------------------------------
(* What the daemon, a process or an abort makes of request p. *)
Becomes(p, q) ==
  /\ q.kind = p.kind /\ q.generation = p.generation /\ q.snapshot = p.snapshot
  /\ p.aborted => q.aborted
  /\ q.stage = "settled" <=> p.stage = "settled"

(* Runs go on, and while the cancel does those that wait for it wait on. *)
Progress(x, runs, c) ==
  /\ DOMAIN runs = DOMAIN x.runs
  /\ c # "none" => x.cancel # "none"
  /\ \A r \in DOMAIN x.runs :
       /\ Becomes(x.runs[r], runs[r])
       /\ c # "none" /\ x.runs[r].stage = "waiting" => runs[r].stage = "waiting"

(* A workspace with other runs and another cancel, or with one other run. *)
With(x, runs, c) == [x EXCEPT !.runs = runs, !.cancel = c]
WithRun(x, r, q) == [x EXCEPT !.runs[r] = q]

(* Runs may go on, be aborted or be cancelled, and a cancel may go on or   *)
(* end: a workspace that was good stays good.                              *)
LEMMA ProgressStep ==
  ASSUME NEW x, Good(x), NEW runs \in Seq(Requests), NEW c \in {"none", "sent", "arrived"},
         Progress(x, runs, c),
         NEW y, y = With(x, runs, c)
  PROVE  Good(y) /\ \A b \in SUBSET Nat : Fits(x, b) => Fits(y, b)
<1>1. x \in Workspaces
  BY DEF Good
<1>2. y \in Workspaces
  BY <1>1 DEF Workspaces, With
<1>3. /\ y.generation = x.generation /\ y.timer = x.timer /\ y.pending = x.pending
      /\ y.runs = runs /\ y.active = x.active /\ y.disposed = x.disposed /\ y.off = x.off
      /\ y.userPaused = x.userPaused /\ y.suspensions = x.suspensions /\ y.cancel = c
      /\ y.painted = x.painted /\ y.paused = x.paused
  BY <1>1 DEF Workspaces, With
<1>4. \A kind \in {"live", "manual"} :
        Open(y, kind, 0) = Open(x, kind, 0) /\ Open(x, kind, 0) \subseteq DOMAIN x.runs
  BY <1>3 DEF Open, Progress, Becomes
<1>5. \A r \in Open(x, "live", 0) :
        /\ r \in DOMAIN x.runs /\ y.runs[r].generation = x.runs[r].generation
        /\ y.runs[r].snapshot = x.runs[r].snapshot
        /\ x.runs[r].aborted => y.runs[r].aborted
        /\ c # "none" => x.cancel # "none"
        /\ c # "none" /\ x.runs[r].stage = "waiting" => y.runs[r].stage = "waiting"
  BY <1>3, <1>4 DEF Progress, Becomes
<1>6. Held(y, 0)
  BY <1>3, <1>4, <1>5 DEF Good, Held
<1>7. Timed(y, 0)
  BY <1>3, <1>4, <1>5 DEF Good, Timed
<1>8. Wanted(y, 0)
  BY <1>3, <1>4, <1>5 DEF Good, Wanted
<1>9. Configured(y)
  BY <1>3, Zenon DEF Good, Configured
<1>10. \A b \in SUBSET Nat : Fits(x, b) => Fits(y, b)
  BY <1>3, <1>4, <1>5 DEF Fits, Latest, Showing
<1>11. QED
  BY <1>2, <1>3, <1>6, <1>7, <1>8, <1>9, <1>10 DEF Good

(* The same for one run. *)
LEMMA OneRunStep ==
  ASSUME NEW x, Good(x), NEW r \in DOMAIN x.runs, NEW q \in Requests,
         Becomes(x.runs[r], q), x.runs[r].stage = "waiting" => q.stage = "waiting",
         NEW y, y = WithRun(x, r, q)
  PROVE  /\ Good(y) /\ \A b \in SUBSET Nat : Fits(x, b) => Fits(y, b)
         /\ DOMAIN y.runs = DOMAIN x.runs /\ y.runs[r] = q
         /\ \A s \in DOMAIN x.runs : s # r => y.runs[s] = x.runs[s]
<1> DEFINE runs == [x.runs EXCEPT ![r] = q]
           c == x.cancel
<1>1. x \in Workspaces /\ x.runs \in Seq(Requests) /\ c \in {"none", "sent", "arrived"}
  BY DEF Good, Workspaces
<1>2. runs \in Seq(Requests) /\ DOMAIN runs = DOMAIN x.runs
  BY <1>1
<1>3. runs[r] = q /\ \A s \in DOMAIN x.runs : s # r => runs[s] = x.runs[s]
  BY <1>1
<1>4. y = With(x, runs, c) /\ y.runs = runs
  BY <1>1 DEF Workspaces, With, WithRun
<1> HIDE DEF runs
<1>5. \A s \in DOMAIN x.runs :
        /\ Becomes(x.runs[s], runs[s])
        /\ x.runs[s].stage = "waiting" => runs[s].stage = "waiting"
  <2> TAKE s \in DOMAIN x.runs
  <2>1. CASE s = r
    BY <1>3, <2>1
  <2>2. CASE s # r
    BY <1>3, <2>2 DEF Becomes
  <2>3. QED
    BY <2>1, <2>2
<1>6. Progress(x, runs, c)
  BY <1>2, <1>5 DEF Progress
<1> HIDE DEF c
<1>7. Good(y) /\ \A b \in SUBSET Nat : Fits(x, b) => Fits(y, b)
  BY <1>1, <1>2, <1>4, <1>6, ProgressStep
<1>8. QED
  BY <1>2, <1>3, <1>4, <1>7

(* What an abort, a new stage or a verdict makes of one run. *)
Changed(p, q) ==
  \/ q = [p EXCEPT !.aborted = TRUE]
  \/ /\ p.stage \in {"manifest", "sent"}
     /\ \E stage \in {"sent", "arrived"} : q = [p EXCEPT !.stage = stage]
  \/ \E v \in {"ok", "error"} : q = [p EXCEPT !.verdict = v]

(* It leaves the workspace good. *)
LEMMA FieldStep ==
  ASSUME NEW x, Good(x), NEW r \in DOMAIN x.runs,
         NEW q, Changed(x.runs[r], q),
         NEW y, y = WithRun(x, r, q)
  PROVE  /\ Good(y) /\ \A b \in SUBSET Nat : Fits(x, b) => Fits(y, b)
         /\ DOMAIN y.runs = DOMAIN x.runs /\ y.runs[r] = q
         /\ q.stage = "settled" <=> x.runs[r].stage = "settled"
         /\ \A s \in DOMAIN x.runs : s # r => y.runs[s] = x.runs[s]
<1>1. x.runs[r] \in Requests
  <2>1. x \in Workspaces
    BY DEF Good
  <2>2. QED
    BY <2>1, RunTypes
<1>2. /\ q \in Requests /\ Becomes(x.runs[r], q)
      /\ x.runs[r].stage = "waiting" => q.stage = "waiting"
  <2>1. CASE q = [x.runs[r] EXCEPT !.aborted = TRUE]
    BY <1>1, <2>1 DEF Requests, Becomes
  <2>2. CASE /\ x.runs[r].stage \in {"manifest", "sent"}
             /\ \E stage \in {"sent", "arrived"} : q = [x.runs[r] EXCEPT !.stage = stage]
    BY <1>1, <2>2 DEF Requests, Becomes
  <2>3. CASE \E v \in {"ok", "error"} : q = [x.runs[r] EXCEPT !.verdict = v]
    BY <1>1, <2>3 DEF Requests, Becomes
  <2>4. QED
    BY <2>1, <2>2, <2>3 DEF Changed
<1>3. QED
  BY <1>2, OneRunStep DEF Becomes

(* The daemon cancels what it is told to: the workspace stays good, and    *)
(* another cause is recorded only when it hit a live run that is wanted.   *)
LEMMA StrikeStep ==
  ASSUME NEW x, Good(x), NEW rs, rs \subseteq DOMAIN x.runs, NEW cause, Strike(x, rs, cause)
  PROVE  /\ Good(w') /\ \A b \in SUBSET Nat : Fits(x, b) => Fits(w', b)
         /\ struck' \subseteq struck \cup {cause}
         /\ \/ struck' = struck
            \/ \E s \in Open(x, "live", 0) :
                 s \in rs /\ Working(x.runs[s]) /\ ~x.runs[s].aborted
<1> DEFINE hit == {r \in rs : Working(x.runs[r])}
           runs == [r \in DOMAIN x.runs |->
                      IF r \in hit THEN [x.runs[r] EXCEPT !.verdict = "cancelled"]
                      ELSE x.runs[r]]
           c == x.cancel
           more == {d \in {cause} : \E r \in hit : x.runs[r].kind = "live" /\ ~x.runs[r].aborted}
<1>1. x \in Workspaces /\ x.runs \in Seq(Requests) /\ c \in {"none", "sent", "arrived"}
  BY DEF Good, Workspaces
<1>2. w' = [x EXCEPT !.runs = runs] /\ struck' = struck \cup more
  BY DEF Strike
<1>3. \A r \in DOMAIN x.runs : x.runs[r] \in Requests
  BY <1>1
<1>4. \A r \in DOMAIN x.runs :
        /\ runs[r] \in Requests /\ Becomes(x.runs[r], runs[r])
        /\ runs[r].stage = x.runs[r].stage
  <2> TAKE r \in DOMAIN x.runs
  <2>1. CASE r \in hit
    <3> DEFINE q == [x.runs[r] EXCEPT !.verdict = "cancelled"]
    <3>1. runs[r] = q
      BY <2>1
    <3>2. q \in Requests /\ Becomes(x.runs[r], q) /\ q.stage = x.runs[r].stage
      BY <1>3 DEF Requests, Becomes
    <3>3. QED
      BY <3>1, <3>2
  <2>2. CASE r \notin hit
    BY <1>3, <2>2 DEF Becomes
  <2>3. QED
    BY <2>1, <2>2
<1>5. DOMAIN runs = DOMAIN x.runs /\ runs \in Seq(Requests)
  <2>1. DOMAIN x.runs = 1..Len(x.runs) /\ Len(x.runs) \in Nat
    BY <1>1
  <2>2. runs \in [1..Len(x.runs) -> Requests]
    BY <1>4, <2>1
  <2>3. QED
    BY <2>1, <2>2
<1> HIDE DEF runs
<1>6. w' = With(x, runs, c)
  BY <1>1, <1>2 DEF Workspaces, With
<1>7. Progress(x, runs, c)
  BY <1>4, <1>5 DEF Progress
<1> HIDE DEF c
<1>8. Good(w') /\ \A b \in SUBSET Nat : Fits(x, b) => Fits(w', b)
  BY <1>1, <1>5, <1>6, <1>7, ProgressStep, Zenon
<1>9. more \subseteq {cause}
  OBVIOUS
<1>10. CASE more = {}
  BY <1>2, <1>8, <1>10
<1>11. CASE more # {}
  <2>1. PICK s \in hit : x.runs[s].kind = "live" /\ ~x.runs[s].aborted
    BY <1>11
  <2>2. s \in rs /\ s \in DOMAIN x.runs /\ Working(x.runs[s]) /\ s # 0
    BY <1>1, <2>1, RunTypes
  <2>3. s \in Open(x, "live", 0)
    BY <2>1, <2>2 DEF Open, Working
  <2>4. QED
    BY <1>2, <1>8, <1>9, <2>1, <2>2, <2>3
<1>12. QED
  BY <1>10, <1>11

(* Nothing of the developer's or the editor's is changed from outside. *)
LEMMA OutsideStep ==
  ASSUME IInv, Outside, Kept, foreign' \in Nat, late' \in Nat,
         struck' \subseteq struck \cup {"user", "killed"}
  PROVE  IInv'
<1>1. Counters' /\ UNCHANGED <<buffer, left>>
  BY DEF IInv, Counters, Outside
<1>2. OwnCancelsAreOrdered'
  BY DEF IInv, OwnCancelsAreOrdered
<1>3. QED
  BY <1>1, <1>2, KeptStep

(* A cancelled test run is aborted; its cancel is on its way. *)
LEMMA CancelTestRunStep ==
  ASSUME IInv, CancelTestRun PROVE IInv'
<1>1. PICK r \in DOMAIN w.runs : w' = [w EXCEPT !.runs[r].aborted = TRUE]
  BY DEF CancelTestRun
<1> DEFINE q == [w.runs[r] EXCEPT !.aborted = TRUE]
<1>2. Good(w) /\ w' = WithRun(w, r, q) /\ Changed(w.runs[r], q)
  BY <1>1 DEF IInv, WithRun, Changed
<1> HIDE DEF q
<1>3. Good(w') /\ \A b \in SUBSET Nat : Fits(w, b) => Fits(w', b)
  BY <1>2, FieldStep
<1>4. Counters'
  <2>1. foreign' = foreign + 1 /\ buffer' = buffer /\ Act /\ UNCHANGED <<policy, left, late>>
    BY DEF CancelTestRun, Quiet
  <2>2. QED
    BY <2>1, ActCounts DEF IInv, Counters
<1>5. OwnCancelsAreOrdered'
  BY QuietStep DEF CancelTestRun
<1>6. QED
  BY <1>3, <1>4, <1>5, KeptStep DEF CancelTestRun, Quiet, Kept

(* The debounce timer fires and a run begins. *)
LEMMA TimerFiresStep ==
  ASSUME IInv, TimerFires PROVE IInv'
<1>1. Good(w) /\ w.timer # 0 /\ w' = Start([w EXCEPT !.timer = 0], w.timer, FALSE)
  BY DEF IInv, TimerFires
<1>2. Kept
  BY <1>1, StartStep DEF Kept
<1>3. foreign' \in Nat /\ late' \in Nat /\ struck' = struck /\ Outside
  BY DEF IInv, Counters, TimerFires
<1>4. QED
  BY <1>2, <1>3, OutsideStep

(* A process is started, or an aborted request settles without one. *)
LEMMA SpawnStep ==
  ASSUME IInv, NEW r \in DOMAIN w.runs, Spawn(r) PROVE IInv'
<1>1. Good(w) /\ w.runs[r].stage = "manifest"
  BY DEF IInv, Spawn
<1>2. Kept
  <2>1. CASE w' = Settled(w, r)
    BY <1>1, <2>1, SettledStep DEF Kept
  <2>2. CASE w' = [w EXCEPT !.runs[r].stage = "sent"]
    <3> DEFINE q == [w.runs[r] EXCEPT !.stage = "sent"]
    <3>1. w' = WithRun(w, r, q)
      BY <2>2 DEF WithRun
    <3>2. Changed(w.runs[r], q)
      BY <1>1 DEF Changed
    <3> HIDE DEF q
    <3>3. Good(w') /\ \A b \in SUBSET Nat : Fits(w, b) => Fits(w', b)
      BY <1>1, <3>1, <3>2, FieldStep
    <3>4. QED
      BY <3>3 DEF Kept
  <2>3. QED
    BY <2>1, <2>2 DEF Spawn
<1>3. foreign' \in Nat /\ late' \in Nat /\ struck' = struck /\ Outside
  BY DEF IInv, Counters, Spawn
<1>4. QED
  BY <1>2, <1>3, OutsideStep

(* A manual run that has not settled keeps the scheduler paused. *)
LEMMA ManualPauses ==
  ASSUME NEW x, Good(x), ~x.disposed, Open(x, "manual", 0) # {}
  PROVE  x.paused
<1>1. x \in Workspaces /\ x.suspensions = Cardinality(Open(x, "manual", 0))
  BY DEF Good, Held
<1>2. IsFiniteSet(DOMAIN x.runs)
  BY <1>1, RunTypes, FS_Interval
<1>3. IsFiniteSet(Open(x, "manual", 0))
  BY <1>2, FS_Subset DEF Open
<1>4. x.suspensions > 0
  BY <1>1, <1>3, FS_EmptySet, FS_CardinalityType
<1>5. QED
  BY <1>4 DEF Good, Configured

(* A request that nobody aborted arrives: had another live run been going  *)
(* on, this one would be aborted or the scheduler paused.                  *)
LEMMA VerifyArrivesStep ==
  ASSUME IInv, NEW r \in DOMAIN w.runs, VerifyArrives(r) PROVE IInv'
<1> DEFINE q == [w.runs[r] EXCEPT !.stage = "arrived"]
           x == WithRun(w, r, q)
           cause == IF w.runs[r].aborted THEN "killed" ELSE "request"
<1>1. /\ Good(w) /\ w.runs[r].stage = "sent" /\ x = [w EXCEPT !.runs[r].stage = "arrived"]
  BY DEF IInv, VerifyArrives, WithRun
<1>2. Strike(x, DOMAIN w.runs \ {r}, cause)
  BY <1>1 DEF VerifyArrives
<1>3. /\ Good(x) /\ \A b \in SUBSET Nat : Fits(w, b) => Fits(x, b)
      /\ DOMAIN x.runs = DOMAIN w.runs
      /\ \A s \in DOMAIN w.runs : s # r => x.runs[s] = w.runs[s]
  <2>1. Good(w) /\ Changed(w.runs[r], q) /\ x = WithRun(w, r, q)
    BY <1>1 DEF Changed
  <2> HIDE DEF q, x
  <2>2. QED
    BY <2>1, FieldStep
<1> HIDE DEF x, q
<1>4. /\ Good(w') /\ \A b \in SUBSET Nat : Fits(x, b) => Fits(w', b)
      /\ struck' \subseteq struck \cup {cause}
      /\ \/ struck' = struck
         \/ \E s \in Open(x, "live", 0) :
              s \in DOMAIN w.runs \ {r} /\ Working(x.runs[s]) /\ ~x.runs[s].aborted
  BY <1>2, <1>3, StrikeStep
<1>5. Kept
  BY <1>3, <1>4 DEF Kept
<1>6. struck' \subseteq struck \cup {"killed"}
  <2>1. CASE w.runs[r].aborted
    BY <1>4, <2>1
  <2>2. CASE ~w.runs[r].aborted /\ struck' # struck
    <3>1. PICK s \in Open(x, "live", 0) : s # r /\ ~x.runs[s].aborted
      BY <1>4, <2>2
    <3>2. s \in Open(w, "live", 0) /\ ~w.runs[s].aborted
      BY <1>3, <3>1 DEF Open
    <3>3. s = w.active /\ ~w.paused /\ ~w.disposed
      BY <1>1, <3>2 DEF Good, Held, Wanted
    <3>4. w.runs[r].kind \in {"live", "manual"} /\ r # 0
      <4>1. w \in Workspaces
        BY <1>1 DEF Good
      <4>2. w.runs[r] \in Requests /\ r # 0
        BY <4>1, RunTypes
      <4>3. QED
        BY <4>2 DEF Requests
    <3>5. CASE w.runs[r].kind = "live"
      <4>1. r \in Open(w, "live", 0)
        BY <1>1, <3>4, <3>5 DEF Open
      <4>2. r = w.active
        BY <1>1, <2>2, <4>1 DEF Good, Held
      <4>3. QED
        BY <3>1, <3>3, <4>2
    <3>6. CASE w.runs[r].kind = "manual"
      <4>1. r \in Open(w, "manual", 0)
        BY <1>1, <3>4, <3>6 DEF Open
      <4>2. QED
        BY <1>1, <3>3, <4>1, ManualPauses
    <3>7. QED
      BY <3>4, <3>5, <3>6
  <2>3. QED
    BY <2>1, <2>2
<1>7. foreign' \in Nat /\ late' \in Nat /\ Outside
  BY DEF IInv, Counters, VerifyArrives
<1>8. QED
  BY <1>5, <1>6, <1>7, OutsideStep

(* The request of a killed process arrives. *)
LEMMA LateArrivesStep ==
  ASSUME IInv, LateArrives PROVE IInv'
<1>1. Good(w) /\ Strike(w, DOMAIN w.runs, "killed")
  BY DEF IInv, LateArrives
<1>2. Kept /\ struck' \subseteq struck \cup {"killed"}
  BY <1>1, StrikeStep DEF Kept
<1>3. foreign' \in Nat /\ late' \in Nat /\ Outside
  BY DEF IInv, Counters, LateArrives
<1>4. QED
  BY <1>2, <1>3, OutsideStep

(* The cancel of a cancelled test run arrives. *)
LEMMA ForeignArrivesStep ==
  ASSUME IInv, ForeignArrives PROVE IInv'
<1>1. Good(w) /\ Strike(w, DOMAIN w.runs, "user")
  BY DEF IInv, ForeignArrives
<1>2. Kept /\ struck' \subseteq struck \cup {"user"}
  BY <1>1, StrikeStep DEF Kept
<1>3. foreign' \in Nat /\ late' \in Nat /\ Outside
  BY DEF IInv, Counters, ForeignArrives
<1>4. QED
  BY <1>2, <1>3, OutsideStep

(* The scheduler's own cancel arrives: a run that goes on waits for it. *)
LEMMA CancelArrivesStep ==
  ASSUME IInv, CancelArrives PROVE IInv'
<1> DEFINE x == [w EXCEPT !.cancel = "arrived"]
           runs == w.runs
<1>1. Good(w) /\ w \in Workspaces /\ w.cancel = "sent" /\ Strike(x, DOMAIN w.runs, "scheduler")
  BY DEF IInv, Good, CancelArrives
<1>2. /\ x = With(w, runs, "arrived") /\ x.runs = w.runs
      /\ x.cancel = "arrived" /\ runs \in Seq(Requests)
  BY <1>1 DEF Workspaces, With
<1>3. Progress(w, runs, "arrived")
  BY <1>1 DEF Progress, Becomes
<1> HIDE DEF x, runs
<1>4. Good(x) /\ \A b \in SUBSET Nat : Fits(w, b) => Fits(x, b)
  <2>1. "arrived" \in {"none", "sent", "arrived"}
    OBVIOUS
  <2>2. QED
    BY <1>1, <1>2, <1>3, <2>1, ProgressStep, Zenon
<1>5. /\ Good(w') /\ \A b \in SUBSET Nat : Fits(x, b) => Fits(w', b)
      /\ \/ struck' = struck
         \/ \E s \in Open(x, "live", 0) : Working(x.runs[s]) /\ ~x.runs[s].aborted
  BY <1>1, <1>2, <1>4, StrikeStep
<1>6. Kept
  BY <1>4, <1>5 DEF Kept
<1>7. struck' = struck
  BY <1>2, <1>4, <1>5 DEF Good, Wanted, Working
<1>8. foreign' \in Nat /\ late' \in Nat /\ Outside
  BY DEF IInv, Counters, CancelArrives
<1>9. QED
  BY <1>6, <1>7, <1>8, OutsideStep

(* The cancel ends and those who waited for it go on. *)
LEMMA CancelEndsStep ==
  ASSUME IInv, CancelEnds PROVE IInv'
<1> DEFINE runs == [r \in DOMAIN w.runs |->
                      IF w.runs[r].stage = "waiting" THEN [w.runs[r] EXCEPT !.stage = "manifest"]
                      ELSE w.runs[r]]
<1>1. Good(w) /\ w \in Workspaces /\ w.runs \in Seq(Requests)
  BY DEF IInv, Good, Workspaces
<1>2. w' = With(w, runs, "none")
  BY <1>1 DEF CancelEnds, Workspaces, With
<1>3. \A r \in DOMAIN w.runs : w.runs[r] \in Requests
  BY <1>1
<1>4. \A r \in DOMAIN w.runs : runs[r] \in Requests /\ Becomes(w.runs[r], runs[r])
  <2> TAKE r \in DOMAIN w.runs
  <2>1. CASE w.runs[r].stage = "waiting"
    <3> DEFINE q == [w.runs[r] EXCEPT !.stage = "manifest"]
    <3>1. runs[r] = q
      BY <2>1
    <3>2. q \in Requests /\ Becomes(w.runs[r], q)
      BY <1>3, <2>1 DEF Requests, Becomes
    <3>3. QED
      BY <3>1, <3>2
  <2>2. CASE w.runs[r].stage # "waiting"
    BY <1>3, <2>2 DEF Becomes
  <2>3. QED
    BY <2>1, <2>2
<1>5. DOMAIN runs = DOMAIN w.runs /\ runs \in Seq(Requests)
  <2>1. DOMAIN w.runs = 1..Len(w.runs) /\ Len(w.runs) \in Nat
    BY <1>1
  <2>2. runs \in [1..Len(w.runs) -> Requests]
    BY <1>4, <2>1
  <2>3. QED
    BY <2>1, <2>2
<1>6. Progress(w, runs, "none")
  BY <1>4, <1>5 DEF Progress
<1> HIDE DEF runs
<1>7. Kept
  <2>1. "none" \in {"none", "sent", "arrived"}
    OBVIOUS
  <2>2. Good(w') /\ \A b \in SUBSET Nat : Fits(w, b) => Fits(w', b)
    BY <1>1, <1>2, <1>5, <1>6, <2>1, ProgressStep, Zenon
  <2>3. QED
    BY <2>2 DEF Kept
<1>8. foreign' \in Nat /\ late' \in Nat /\ struck' = struck /\ Outside
  BY DEF IInv, Counters, CancelEnds
<1>9. QED
  BY <1>7, <1>8, OutsideStep

(* The daemon answers. *)
LEMMA AnswersStep ==
  ASSUME IInv, NEW r \in DOMAIN w.runs, Answers(r) PROVE IInv'
<1>1. PICK v \in {"ok", "error"} : w' = [w EXCEPT !.runs[r].verdict = v]
  BY DEF Answers
<1> DEFINE q == [w.runs[r] EXCEPT !.verdict = v]
<1>2. Good(w) /\ w' = WithRun(w, r, q) /\ Changed(w.runs[r], q)
  BY <1>1 DEF IInv, WithRun, Changed
<1> HIDE DEF q
<1>3. Kept
  BY <1>2, FieldStep DEF Kept
<1>4. foreign' \in Nat /\ late' \in Nat /\ struck' = struck /\ Outside
  BY DEF IInv, Counters, Answers
<1>5. QED
  BY <1>3, <1>4, OutsideStep

(* A process closes and its promise settles. *)
LEMMA ClosesStep ==
  ASSUME IInv, NEW r \in DOMAIN w.runs, Closes(r) PROVE IInv'
<1>1. Good(w) /\ w.runs[r].stage \in {"sent", "arrived"}
  BY DEF IInv, Closes
<1>2. Kept
  <2>1. CASE w' = Settled(w, r)
    BY <1>1, <2>1, SettledStep DEF Kept
  <2>2. ASSUME NEW v \in {"ok", "error"}, w' = Settled([w EXCEPT !.runs[r].verdict = v], r)
        PROVE  Kept
    <3> DEFINE q == [w.runs[r] EXCEPT !.verdict = v]
               x == WithRun(w, r, q)
    <3>1. w' = Settled(x, r)
      BY <2>2 DEF WithRun
    <3>2. /\ Good(x) /\ \A b \in SUBSET Nat : Fits(w, b) => Fits(x, b)
          /\ r \in DOMAIN x.runs /\ x.runs[r].stage # "settled"
      <4>1. /\ Changed(w.runs[r], q) /\ x = WithRun(w, r, q)
            /\ w.runs[r].stage # "settled"
        BY <1>1 DEF Changed
      <4> HIDE DEF q, x
      <4>2. QED
        BY <1>1, <4>1, FieldStep
    <3> HIDE DEF x
    <3>3. Good(w') /\ \A b \in SUBSET Nat : Fits(x, b) => Fits(w', b)
      BY <3>1, <3>2, SettledStep
    <3>4. QED
      BY <3>2, <3>3 DEF Kept
  <2>3. QED
    BY <2>1, <2>2 DEF Closes
<1>3. foreign' \in Nat /\ late' \in Nat /\ struck' = struck /\ Outside
  BY DEF IInv, Counters, Closes
<1>4. QED
  BY <1>2, <1>3, OutsideStep

------------------------------------------------------------------------------
(* The extension is activated: the content is scheduled and verified at once. *)
LEMMA InitIInv ==
  ASSUME Init PROVE IInv
<1> DEFINE f == Fresh
           c == Configure(f)
           s == Schedule(c, buffer)
<1>1. buffer = 1 /\ buffer \in Nat /\ w = Flush(s, FALSE)
  BY DEF Init
<1>2. /\ f \in Workspaces /\ f.generation = 0 /\ f.timer = 0 /\ f.pending = NoPending
      /\ f.active = 0 /\ f.runs = <<>> /\ f.disposed = FALSE /\ f.suspensions = 0
      /\ f.painted = 0 /\ f.pending.generation = 0
  <2>1. <<>> \in Seq(Requests)
    OBVIOUS
  <2>2. QED
    BY <2>1 DEF Fresh, Workspaces, NoPending
<1> HIDE DEF f
<1>3. \A kind \in {"live", "manual"} : Open(f, kind, 0) = {}
  BY <1>2 DEF Open
<1>4. Held(f, 0) /\ Timed(f, 0) /\ Wanted(f, 0)
  BY <1>2, <1>3, FS_EmptySet DEF Held, Timed, Wanted
<1>5. /\ c \in Workspaces /\ Follows(f, c) /\ Held(c, 0) /\ Timed(c, 0) /\ Wanted(c, 0)
      /\ Configured(c)
  BY <1>2, <1>4, ConfigureStep
<1> HIDE DEF c
<1>6. Good(c) /\ ~c.disposed /\ c.painted = 0
  BY <1>2, <1>5 DEF Good, Follows
<1>0. buffer \in Contents /\ Contents \in SUBSET Nat
  BY <1>1 DEF Init, Contents
<1>7. Good(s) /\ (~s.paused => s.timer # 0) /\ Fits(s, Contents)
  BY <1>0, <1>1, <1>6, RescheduleStep
<1> HIDE DEF s
<1>8. Good(w) /\ Fits(w, Contents)
  BY <1>0, <1>1, <1>7, FlushStep
<1>9. Counters /\ OwnCancelsAreOrdered
  BY MaxEventsAssumption DEF Init, Counters, OwnCancelsAreOrdered
<1>10. QED
  BY <1>8, <1>9 DEF IInv

(* Whatever the developer, the processes and the daemon do next. *)
LEMMA NextIInv ==
  ASSUME IInv, [Next]_vars PROVE IInv'
<1>1. CASE UNCHANGED vars
  BY <1>1 DEF vars, IInv, Counters, Contents, Good, Fits, Latest, Showing, OwnCancelsAreOrdered
<1>2. CASE Edit \/ CloseDocument \/ Save \/ PauseLive \/ ResumeLive \/ RunNow \/ ChangeMode
  BY <1>2, EditStep, CloseDocumentStep, SaveStep, PauseLiveStep, ResumeLiveStep, RunNowStep,
     ChangeModeStep
<1>3. CASE ChangeSetting \/ ManualRun \/ CancelTestRun \/ Dispose
  BY <1>3, ChangeSettingStep, ManualRunStep, CancelTestRunStep, DisposeStep
<1>4. CASE TimerFires \/ LateArrives \/ CancelArrives \/ ForeignArrives \/ CancelEnds
  BY <1>4, TimerFiresStep, LateArrivesStep, CancelArrivesStep, ForeignArrivesStep,
     CancelEndsStep
<1>5. CASE \E r \in DOMAIN w.runs : Spawn(r) \/ VerifyArrives(r) \/ Answers(r) \/ Closes(r)
  BY <1>5, SpawnStep, VerifyArrivesStep, AnswersStep, ClosesStep
<1>6. QED
  BY <1>1, <1>2, <1>3, <1>4, <1>5 DEF Next, System, Developer

(* The invariant holds of every behaviour, however much is edited, run and *)
(* cancelled.                                                              *)
THEOREM Invariance == Spec => []IInv
<1>1. Init => IInv
  BY InitIInv
<1>2. IInv /\ [Next]_vars => IInv'
  BY NextIInv
<1>3. QED
  BY <1>1, <1>2, PTL DEF Spec

(* The runs that TypeOK and ManualIsAlone speak of. *)
LEMMA UnsettledIsOpen ==
  ASSUME IInv, NEW kind PROVE Unsettled(kind) = Open(w, kind, 0)
<1>1. \A r \in DOMAIN w.runs : r # 0
  BY RunTypes DEF IInv, Good
<1>2. QED
  BY <1>1 DEF Unsettled, Open

(* The state's types, the active run has not settled, a timer is of the    *)
(* current generation and suspensions count the manual runs: what the      *)
(* finally blocks of live.js and extension.js keep true.                   *)
THEOREM TypeCorrect == Spec => []TypeOK
<1>1. ASSUME IInv PROVE TypeOK
  <2>1. buffer \in 1..(MaxEvents + 1) /\ events \in 0..MaxEvents
    BY <1>1, MaxEventsAssumption DEF IInv, Counters
  <2>2. w.cancel \in {"none", "sent", "arrived"}
    BY <1>1 DEF IInv, Good, Workspaces
  <2>3. /\ w.timer \in {0, w.generation} /\ w.pending.generation \in {0, w.generation}
        /\ w.active \in {0} \cup Unsettled("live")
        /\ ~w.disposed => w.suspensions = Cardinality(Unsettled("manual"))
    BY <1>1, UnsettledIsOpen DEF IInv, Good, Timed, Held
  <2>4. policy \in {"automatic", "onSave"} /\ left \subseteq Nat /\ struck \subseteq {"user", "killed"}
    BY <1>1 DEF IInv, Counters, OwnCancelsAreOrdered
  <2>5. QED
    BY <2>1, <2>2, <2>3, <2>4 DEF TypeOK
<1>2. QED
  BY <1>1, Invariance, PTL

(* In every mode, and over every change of it, an older content is painted *)
(* only if an edit in onSave mode left its run or its timer as it was.     *)
THEOREM PaintStaysCurrent == Spec => []PaintIsCurrentOrLeft
<1>1. ASSUME IInv PROVE PaintIsCurrentOrLeft
  BY <1>1 DEF IInv, Good, Fits, Showing, Contents, PaintIsCurrentOrLeft
<1>2. QED
  BY <1>1, Invariance, PTL

(* Beside a manual run every live run that has not settled is aborted. *)
THEOREM ManualRunsAlone == Spec => []ManualIsAlone
<1>1. ASSUME IInv PROVE ManualIsAlone
  <2>1. ASSUME ~w.disposed, Unsettled("manual") # {}, NEW r \in Unsettled("live")
        PROVE  w.runs[r].aborted
    <3>1. Open(w, "manual", 0) # {} /\ r \in Open(w, "live", 0) /\ Good(w)
      BY <1>1, <2>1, UnsettledIsOpen DEF IInv
    <3>2. w.paused
      BY <2>1, <3>1, ManualPauses
    <3>3. QED
      BY <3>1, <3>2 DEF Good, Wanted
  <2>2. QED
    BY <2>1 DEF ManualIsAlone
<1>2. QED
  BY <1>1, Invariance, PTL

(* The scheduler's own cancels and wanted requests cancel no run in the    *)
(* daemon that is still wanted: queryVerification waits for the cancel.    *)
THEOREM OwnCancelsStayOrdered == Spec => []OwnCancelsAreOrdered
<1>1. IInv => OwnCancelsAreOrdered
  BY DEF IInv
<1>2. QED
  BY <1>1, Invariance, PTL
==============================================================================
