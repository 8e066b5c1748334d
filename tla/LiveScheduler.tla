---------------------------- MODULE LiveScheduler ----------------------------
(***************************************************************************)
(* Live verification in the editor: LiveScheduler (clients/vscode/live.js) *)
(* debounces edits into generations and aborts obsolete runs,              *)
(* LiveWorkspace (extension.js) suspends it around manual runs and keeps   *)
(* one `cancel` in flight, and client.js runs one CLI process for each     *)
(* request.  JavaScript runs to completion between awaits, so one action   *)
(* is one callback.  The workspace is trusted.  Of the daemon (server.rs)  *)
(* the module keeps what module VerificationService promises: a verify     *)
(* that supersedes, and a cancel, cancel what has arrived before and has   *)
(* no answer yet.                                                          *)
(***************************************************************************)
EXTENDS Naturals, Sequences, FiniteSets

CONSTANT MaxEvents      \* bound: what the developer does in one behaviour

ASSUME MaxEventsAssumption == MaxEvents \in Nat \ {0}

VARIABLES
  buffer,     \* the content of the editor's documents, a counter of edits
  policy,     \* walaru.live.mode, automatic or onSave, while w.off is FALSE
  w,          \* LiveWorkspace with its LiveScheduler, decorations and requests
  foreign,    \* cancels sent by cancelled test runs that are on their way
  late,       \* requests of killed processes that are still on their way
  left,       \* history: contents that an edit in onSave mode left pending
  struck,     \* history: what has cancelled a live run that nobody aborted
  events      \* what the developer has done so far

vars == <<buffer, policy, w, foreign, late, left, struck, events>>

NoPending == [generation |-> 0, snapshot |-> 0]

------------------------------------------------------------------------------
(* LiveScheduler and LiveWorkspace, as functions of the workspace's state. *)

RequestUnordered(x, kind, generation, snapshot, restore) ==
  [kind |-> kind, generation |-> generation, snapshot |-> snapshot,
   stage |-> "manifest",
   aborted |-> FALSE, restore |-> restore, verdict |-> "none"]

(* queryVerification waits for the cancel in flight before it writes the   *)
(* manifest.  restore: this is a "run now" of a paused workspace.          *)
Request(x, kind, generation, snapshot, restore) ==
  [kind |-> kind, generation |-> generation, snapshot |-> snapshot,
   stage |-> IF x.cancel = "none" THEN "manifest" ELSE "waiting",
   aborted |-> FALSE, restore |-> restore, verdict |-> "none"]

CancelActiveOnly(x) ==
  IF x.active = 0 THEN x ELSE [x EXCEPT !.cancel = IF @ = "none" THEN "sent" ELSE @]

(* abort of the active run's controller, and cancelRemote, which joins a   *)
(* cancel that is already in flight.                                       *)
AbortActive(x) ==
  IF x.active = 0 THEN x
  ELSE [x EXCEPT !.runs[x.active].aborted = TRUE,
                 !.cancel = IF @ = "none" THEN "sent" ELSE @]

(* LiveScheduler.schedule; "queued" clears the decorations. *)
Enqueue(x, snapshot) ==
  LET g == x.generation + 1
      y == AbortActive([x EXCEPT !.generation = g, !.timer = 0,
                          !.pending = [generation |-> g, snapshot |-> snapshot]])
  IN  IF x.disposed THEN x
      ELSE IF x.paused THEN y
      ELSE [y EXCEPT !.timer = g, !.painted = 0]

Pause(x) == AbortActive([x EXCEPT !.paused = TRUE, !.timer = 0])

ResumeForgets(x) == [x EXCEPT !.paused = FALSE]

Resume(x) ==
  IF ~x.paused THEN x
  ELSE LET y == [x EXCEPT !.paused = FALSE]
       IN  IF x.pending = NoPending THEN y ELSE Enqueue(y, x.pending.snapshot)

Configure(x) ==
  IF x.off \/ x.userPaused \/ x.suspensions > 0 THEN Pause(x) ELSE Resume(x)

(* LiveWorkspace.schedule takes a snapshot of the unsaved documents. *)
Schedule(x, snapshot) == IF x.off \/ x.userPaused THEN x ELSE Enqueue(x, snapshot)

(* The finally of runNow, which pauses again. *)
Restore(x) == Configure([x EXCEPT !.userPaused = TRUE])

(* LiveScheduler.start up to its await. *)
Start(x, generation, restore) ==
  IF x.disposed \/ x.paused \/ x.pending = NoPending
       \/ generation # x.generation \/ generation # x.pending.generation
  THEN IF restore THEN Restore(x) ELSE x
  ELSE [x EXCEPT !.active = Len(x.runs) + 1,
                 !.runs = Append(@, Request(x, "live", generation,
                                            x.pending.snapshot, restore))]

Flush(x, restore) ==
  IF x.pending = NoPending \/ x.paused \/ x.disposed
  THEN IF restore THEN Restore(x) ELSE x
  ELSE Start([x EXCEPT !.timer = 0], x.pending.generation, restore)

(* What a run of the scheduler shows when its promise settles: a result or *)
(* an error of the current generation, and nothing when it was aborted.    *)
Shown(x, run) ==
  IF run.generation # x.generation \/ run.aborted \/ run.verdict \in {"none", "cancelled"}
  THEN x
  ELSE IF run.verdict = "error"
  THEN [x EXCEPT !.pending = NoPending, !.shown = run.snapshot]
  ELSE IF x.disposed THEN x
  ELSE [x EXCEPT !.pending = NoPending, !.shown = run.snapshot, !.painted = run.snapshot]

LiveEndsActive(x, run) ==
  LET y == Shown(x, run) IN IF run.restore THEN Restore(y) ELSE y

(* The end of start, its finally included, and of runNow. *)
LiveEnds(x, run) ==
  LET y == Shown(x, run)
      z == IF y.active # 0 /\ y.runs[y.active].generation = run.generation
           THEN [y EXCEPT !.active = 0] ELSE y
  IN  IF run.restore THEN Restore(z) ELSE z

ReleaseAll(x) == IF x.disposed THEN x ELSE Configure([x EXCEPT !.suspensions = 0])

(* The finally of a manual run: the workspace may be gone by then. *)
Release(x) ==
  IF x.disposed THEN x
  ELSE Configure([x EXCEPT !.suspensions = IF @ = 0 THEN 0 ELSE @ - 1])

(* The promise of request r settles; what it held is forgotten. *)
Settled(x, r) ==
  LET run == x.runs[r]
      y == IF run.kind = "live" THEN LiveEnds(x, run) ELSE Release(x)
  IN  [y EXCEPT !.runs[r] = [run EXCEPT !.stage = "settled", !.snapshot = 0,
                               !.aborted = FALSE, !.restore = FALSE, !.verdict = "none"]]

------------------------------------------------------------------------------
(* The extension is activated, or the folder added: the constructor, then  *)
(* LiveWorkspace.start.                                                    *)
Fresh ==
  [generation |-> 0, pending |-> NoPending, timer |-> 0, active |-> 0,
   paused |-> FALSE, disposed |-> FALSE, off |-> FALSE, userPaused |-> FALSE,
   suspensions |-> 0, painted |-> 0, shown |-> 0, cancel |-> "none", runs |-> <<>>]

Init ==
  /\ buffer = 1
  /\ policy \in {"automatic", "onSave"}
  /\ w = Flush(Schedule(Configure(Fresh), buffer), FALSE)
  /\ foreign = 0 /\ late = 0 /\ left = {} /\ struck = {} /\ events = 0

------------------------------------------------------------------------------
(* What the developer does. *)

Act == ~w.disposed /\ events < MaxEvents /\ events' = events + 1
Quiet == UNCHANGED <<late, struck>>

(* onDocumentChanged: it clears the decorations; in onSave mode it leaves  *)
(* the timer, the pending snapshot and the active run as they are.         *)
Unscheduled(x) ==
  IF policy = "automatic" \/ x.off \/ x.userPaused THEN {}
  ELSE {x.pending.snapshot} \cup {x.runs[r].snapshot : r \in {x.active} \ {0}}

Edit ==
  /\ Act
  /\ buffer' = buffer + 1
  /\ LET y == [w EXCEPT !.painted = 0]
     IN  w' = IF policy = "automatic" THEN Schedule(y, buffer + 1) ELSE y
  /\ left' = left \cup Unscheduled(w)
  /\ Quiet /\ UNCHANGED <<policy, foreign>>

(* onDocumentClosed: unsaved content is lost with its buffer. *)
CloseDocument ==
  /\ Act
  /\ buffer' \in {buffer, buffer + 1}
  /\ w' = Schedule([w EXCEPT !.painted = 0], buffer')
  /\ Quiet /\ UNCHANGED <<policy, foreign, left>>

(* onDocumentSaved, and a watcher that reports a file of the worktree *)
Save ==
  /\ Act
  /\ w' = Schedule(w, buffer)
  /\ Quiet /\ UNCHANGED <<buffer, policy, foreign, left>>

(* The commands of the palette *)
PauseLive ==
  /\ Act
  /\ w' = Pause([w EXCEPT !.userPaused = TRUE])
  /\ Quiet /\ UNCHANGED <<buffer, policy, foreign, left>>

ResumeLive ==
  /\ Act
  /\ w' = Schedule(Configure([w EXCEPT !.userPaused = FALSE]), buffer)
  /\ Quiet /\ UNCHANGED <<buffer, policy, foreign, left>>

RunNow ==
  /\ Act /\ ~w.off
  /\ LET y == IF w.userPaused THEN Configure([w EXCEPT !.userPaused = FALSE]) ELSE w
     IN  w' = Flush(Schedule(y, buffer), w.userPaused)
  /\ Quiet /\ UNCHANGED <<buffer, policy, foreign, left>>

(* walaru.live.mode is set (or walaru.binaryPath, when the mode stays what *)
(* it was): configure, then start.                                         *)
ChangeMode ==
  /\ Act
  /\ \E mode \in {"off", "automatic", "onSave"} :
       LET y == Configure([w EXCEPT !.off = (mode = "off")])
       IN  /\ w' = IF y.off THEN y ELSE Flush(Schedule(y, buffer), FALSE)
           /\ policy' = IF mode = "off" THEN policy ELSE mode
  /\ Quiet /\ UNCHANGED <<buffer, foreign, left>>

(* Another setting of walaru changes: configure alone. *)
ChangeSetting ==
  /\ Act
  /\ w' = Configure(w)
  /\ Quiet /\ UNCHANGED <<buffer, policy, foreign, left>>

(* A manual run suspends the scheduler and verifies by the same way. *)
ManualRun ==
  /\ Act
  /\ LET y == Pause([w EXCEPT !.suspensions = @ + 1])
     IN  w' = [y EXCEPT !.runs = Append(@, Request(y, "manual", 0, buffer, FALSE))]
  /\ Quiet /\ UNCHANGED <<buffer, policy, foreign, left>>

(* The developer cancels a test run: abort, and a cancel nobody waits for. *)
CancelTestRun ==
  /\ Act
  /\ \E r \in DOMAIN w.runs :
       /\ w.runs[r].kind = "manual" /\ w.runs[r].stage # "settled"
       /\ ~w.runs[r].aborted
       /\ w' = [w EXCEPT !.runs[r].aborted = TRUE]
  /\ foreign' = foreign + 1
  /\ Quiet /\ UNCHANGED <<buffer, policy, left>>

(* The folder leaves the workspace: LiveWorkspace.dispose. *)
Dispose ==
  /\ Act
  /\ w' = [AbortActive(w) EXCEPT !.disposed = TRUE, !.timer = 0, !.painted = 0]
  /\ Quiet /\ UNCHANGED <<buffer, policy, foreign, left>>

------------------------------------------------------------------------------
(* Timers, processes and the daemon. *)

Outside == UNCHANGED <<buffer, policy, left, events>>

TimerFires ==
  /\ w.timer # 0
  /\ w' = Start([w EXCEPT !.timer = 0], w.timer, FALSE)
  /\ Outside /\ UNCHANGED <<foreign, late, struck>>

(* The manifest is written; query refuses an aborted signal, or spawns. *)
Spawn(r) ==
  /\ w.runs[r].stage = "manifest"
  /\ w' = IF w.runs[r].aborted THEN Settled(w, r) ELSE [w EXCEPT !.runs[r].stage = "sent"]
  /\ Outside /\ UNCHANGED <<foreign, late, struck>>

Working(run) == run.stage = "arrived" /\ run.verdict = "none"

(* The daemon cancels the verifications among rs that have arrived and     *)
(* have no answer: their generation is past, and the active one's token is *)
(* cancelled.                                                              *)
Strike(x, rs, cause) ==
  LET hit == {r \in rs : Working(x.runs[r])}
  IN  /\ w' = [x EXCEPT !.runs = [r \in DOMAIN x.runs |->
                 IF r \in hit THEN [x.runs[r] EXCEPT !.verdict = "cancelled"]
                 ELSE x.runs[r]]]
      /\ struck' = struck \cup
           {c \in {cause} : \E r \in hit : x.runs[r].kind = "live" /\ ~x.runs[r].aborted}

VerifyArrives(r) ==
  /\ w.runs[r].stage = "sent"
  /\ Strike([w EXCEPT !.runs[r].stage = "arrived"], DOMAIN w.runs \ {r},
            IF w.runs[r].aborted THEN "killed" ELSE "request")
  /\ Outside /\ UNCHANGED <<foreign, late>>

(* The request of a process that was killed arrives after all. *)
LateArrives ==
  /\ late > 0
  /\ late' = late - 1
  /\ Strike(w, DOMAIN w.runs, "killed")
  /\ Outside /\ UNCHANGED foreign

CancelArrives ==
  /\ w.cancel = "sent"
  /\ Strike([w EXCEPT !.cancel = "arrived"], DOMAIN w.runs, "scheduler")
  /\ Outside /\ UNCHANGED <<foreign, late>>

ForeignArrives ==
  /\ foreign > 0
  /\ foreign' = foreign - 1
  /\ Strike(w, DOMAIN w.runs, "user")
  /\ Outside /\ UNCHANGED late

(* The cancel's process ends, having failed or not, and those who waited  *)
(* for it go on; an aborted one settles with its next step.                *)
CancelEnds ==
  /\ w.cancel # "none"
  /\ w' = [w EXCEPT !.cancel = "none",
              !.runs = [r \in DOMAIN w.runs |->
                IF w.runs[r].stage = "waiting" THEN [w.runs[r] EXCEPT !.stage = "manifest"]
                ELSE w.runs[r]]]
  /\ Outside /\ UNCHANGED <<foreign, late, struck>>

(* The verification ends uncancelled; the answer is on its way.            *)
Answers(r) ==
  /\ Working(w.runs[r])
  /\ \E v \in {"ok", "error"} : w' = [w EXCEPT !.runs[r].verdict = v]
  /\ Outside /\ UNCHANGED <<foreign, late, struck>>

(* The process closes, with the daemon's answer or an error of its own, or *)
(* because it was killed, when its request may still be on the way.        *)
Closes(r) ==
  LET run == w.runs[r]
  IN  /\ run.stage \in {"sent", "arrived"}
      /\ \/ /\ run.verdict # "none" \/ run.aborted
            /\ w' = Settled(w, r)
         \/ /\ run.verdict = "none" /\ ~run.aborted
            /\ w' = Settled([w EXCEPT !.runs[r].verdict = "error"], r)
      /\ late' \in {late, IF run.stage = "sent" /\ run.aborted THEN late + 1 ELSE late}
      /\ Outside /\ UNCHANGED <<foreign, struck>>

------------------------------------------------------------------------------
System ==
  \/ TimerFires \/ LateArrives \/ CancelArrives \/ ForeignArrives \/ CancelEnds
  \/ \E r \in DOMAIN w.runs :
       Spawn(r) \/ VerifyArrives(r) \/ Answers(r) \/ Closes(r)

Developer ==
  \/ Edit \/ CloseDocument \/ Save \/ PauseLive \/ ResumeLive \/ RunNow
  \/ ChangeMode \/ ChangeSetting \/ ManualRun \/ CancelTestRun \/ Dispose

Next == System \/ Developer

(* Timers fire, processes end and the daemon answers; the developer may    *)
(* stop at any time.                                                       *)
Spec == Init /\ [][Next]_vars /\ WF_vars(System)

------------------------------------------------------------------------------
Unsettled(kind) ==
  {r \in DOMAIN w.runs : w.runs[r].kind = kind /\ w.runs[r].stage # "settled"}

(* The state's types, and what finally and release keep true of it: the    *)
(* active run has not settled, a timer belongs to the current generation,  *)
(* and suspensions count the manual runs.                                  *)
TypeOK ==
  /\ buffer \in 1..(MaxEvents + 1)
  /\ events \in 0..MaxEvents
  /\ policy \in {"automatic", "onSave"}
  /\ w.timer \in {0, w.generation}
  /\ w.pending.generation \in {0, w.generation}
  /\ w.active \in {0} \cup Unsettled("live")
  /\ ~w.disposed => w.suspensions = Cardinality(Unsettled("manual"))
  /\ w.cancel \in {"none", "sent", "arrived"}
  /\ struck \subseteq {"user", "killed", "request", "scheduler"}
  /\ left \subseteq Nat

(* The decorations are those of the editor's current content, or there are *)
(* none ("A new edit clears old feedback immediately"), in every mode.     *)
PaintIsCurrent == w.painted \in {0, buffer}

(* The decorations are of the editor's current content but for one case:   *)
(* an edit in onSave mode left their snapshot pending or running, and it   *)
(* was painted when it ended.  No pause, suspension, change of mode, close *)
(* or "run now" paints another old snapshot, however they interleave with  *)
(* the runs, and nothing is painted for a folder that is gone.             *)
PaintIsCurrentOrLeft ==
  /\ w.painted \in {0, buffer} \cup left
  /\ w.disposed => w.painted = 0

(* While a manual run holds the workspace every live run that has not      *)
(* settled is aborted, however its end, edits, changes of mode and "run    *)
(* now" interleave: no live result is shown beside the manual one.  (The   *)
(* request of an aborted run that is already sent may still arrive and     *)
(* supersede the manual one: suspend waits for the cancel only.)           *)
ManualIsAlone ==
  ~w.disposed /\ Unsettled("manual") # {} =>
    \A r \in Unsettled("live") : w.runs[r].aborted

(* A live run that nobody aborted is cancelled in the daemon neither by    *)
(* the scheduler's own cancels nor by another request that is still        *)
(* wanted: only by a cancelled test run's cancel (which nobody waits for)  *)
(* and by the request of a killed process.                                 *)
OwnCancelsAreOrdered == struck \subseteq {"user", "killed"}

(* In automatic mode the last content of the editor ends up shown, as a    *)
(* result or as an error, with nothing left pending: unless the developer  *)
(* paused it, turned it off or removed the folder, or a run was cancelled  *)
(* from outside, the scheduler is never left "queued" or "running".        *)
LatestIsShown ==
  <>[](\/ policy # "automatic" \/ w.off \/ w.userPaused \/ w.disposed \/ struck # {}
       \/ w.shown = buffer /\ w.pending = NoPending)
==============================================================================
