------------------------------ MODULE Recordings ------------------------------
(***************************************************************************)
(* Recording a test and replaying it up to an event (Daemon::record,       *)
(* replay_at and reverse of crates/walaru-daemon/src/server.rs;            *)
(* record_with_options, verify_replay_event and the capability rules of    *)
(* ingest_events in crates/walaru-daemon/src/verifier.rs;                  *)
(* crates/walaru-core/src/replay.rs; tables runs, events and recordings of *)
(* crates/walaru-core/src/store.rs).                                       *)
(*                                                                         *)
(* These requests do not take the gate: they run side by side, each with a *)
(* worker of its own, over one store whose retention may take away what    *)
(* any of them still needs.  There is one test, on one thread: what        *)
(* several threads do with a tape is ReplaySchedule's.  On a revision it   *)
(* takes a sequence of steps, some of which draw a value from outside the  *)
(* JVM; which of them the agent sees, and which values it keeps, is that   *)
(* of BytecodeInstrumenter, AgentBridge and InputTape in jvm-agent/.  A    *)
(* request makes one run, so it also names that run.                       *)
(***************************************************************************)
EXTENDS Integers, Sequences, FiniteSets, SequencesExt, Subsequences

CONSTANTS
    Recorders,      \* record requests
    Players,        \* replay and reverse requests
    MaxRevision,    \* bound: edits of the worktree
    Program,        \* for each revision, the steps of the test
    Values,         \* what a draw may return
    EmptyValue,     \* the one of them that is no bytes long
    HugeValue,      \* the one of them that is longer than what is kept of a file
    Places,         \* source locations
    Fields,         \* what a WRITE may write to, for watchpoints
    Secrets,        \* the fields whose names make the agent redact their values
    Captures,       \* whether a record request may ask for file inputs
    Wants,          \* what a reverse request may look for, see AllWants
    MaxEvents,      \* bound: events read back from a run (100 000 in the code)
    None            \* no revision, no event, no option

Requests == Recorders \cup Players
Revisions == 0..MaxRevision

\* Where a value comes from: a call the agent rewrites (the clock, most random numbers),
\* one it only knows by name (SplittableRandom), a bounded file read, a boundary that is
\* never recorded (the network; a process or the environment likewise), or a call that no
\* rule knows (new Date(), Collections.shuffle).
Sources == {"clock", "random", "file", "network", "unseen"}
\* A step that draws has no line of its own in the source; the step that shows a value
\* names the step that drew it (0: no value).
Steps == [kind : {"LINE", "CALL", "WRITE", "TEST_FINISH", "DRAW"}, at : Places \cup {None},
          field : Fields \cup {None}, of : Sources \cup {None}, shows : Nat]

\* visitMethodInsn: a call that some rule knows is announced before it is made.
Announced(steps) ==
    \A i \in DOMAIN steps : steps[i].kind = "DRAW" /\ steps[i].of # "unseen" =>
        i > 1 /\ steps[i - 1].kind = "CALL" /\ steps[i - 1].of = steps[i].of

\* A reverse request wants an earlier event of a kind, perhaps one that writes a
\* certain field, or an earlier event at a source location.
Kinds == {"LINE", "CALL", "WRITE", "TEST_FINISH", "INPUT", "CAPABILITY"}
AllWants == [step : {"LINE", "CALL", "WRITE", None}, until : Places \cup {None},
             watch : Fields \cup {None}]

ASSUME RecordingsAssumption ==
    /\ MaxRevision \in Nat /\ MaxEvents \in Nat \ {0}
    /\ Program \in [Revisions -> Seq(Steps)]
    /\ \A R \in Revisions : Announced(Program[R])
    /\ \A R \in Revisions : \A i \in DOMAIN Program[R] :
        /\ Program[R][i].kind = "DRAW" => Program[R][i].of # None
        /\ Program[R][i].of = "unseen" => Program[R][i].kind = "DRAW"
        /\ Program[R][i].shows # 0 => Program[R][i].shows < i
                                       /\ Program[R][Program[R][i].shows].kind = "DRAW"
    /\ Captures \subseteq BOOLEAN /\ Wants \subseteq AllWants
    /\ None \notin Values \cup Places \cup Fields \cup Kinds \cup Sources \cup Requests

VARIABLES
    tree,           \* the revision of the worktree
    retained,       \* rows of runs and recordings, oldest first
    recordings,     \* table `recordings`: the recordings by id
    pc,             \* where a request is
    asked,          \* what a request asks for
    loaded,         \* the recording a replay works from
    target,         \* the index of the event a replay has to reach
    before,         \* the revision captured before the run
    jvm,            \* what the request's JVM really did, on which revision
    answer          \* what the client was told

vars == <<tree, retained, recordings, pc, asked, loaded, target, before, jvm, answer>>

-----------------------------------------------------------------------------
(* An execution of the test: the lines of its log, and its tape.           *)

Events == [kind : Kinds, at : Places \cup {None}, field : Fields \cup {None},
           of : Sources \cup {None}, value : Values \cup {None}]
Inputs == [kind : {"clock", "file"}, value : Values]

\* What the first n steps draw: any value for every draw.
Draws(R, n) ==
    LET drawn == {i \in 1..n : Program[R][i].kind = "DRAW"}
    IN  {[i \in 1..n |-> IF i \in drawn THEN v[i] ELSE None] : v \in [drawn -> Values]}

\* rewriteDeterministicInput: the draw goes through the tape.
Bridged(step, capture) ==
    step.kind = "DRAW" /\ (step.of = "clock" \/ (step.of = "file" /\ capture))

\* InputTape in a recording JVM: the value is put on the tape, unless the file is too long.
Kept(step, value, capture) ==
    Bridged(step, capture) /\ ~(step.of = "file" /\ value = HugeValue)

\* What a step's line shows of the values drawn: a file input its size alone, a field with
\* a telling name nothing.
Shown(R, d, i) ==
    LET step == Program[R][i]
    IN  IF step.kind = "DRAW" THEN IF step.of = "clock" THEN d[i] ELSE None
        ELSE IF step.shows = 0 \/ step.field \in Secrets THEN None
        ELSE d[step.shows]

\* inputObserved, inputObservedSensitive and capabilityMissing for a draw, call, line,
\* write and testFinished for the others.
Line(R, d, i) ==
    LET step == Program[R][i]
        kind == IF step.kind # "DRAW" THEN step.kind
                ELSE IF Kept(step, d[i], TRUE) THEN "INPUT" ELSE "CAPABILITY"
    IN  [kind |-> kind, at |-> step.at, field |-> step.field, of |-> step.of,
         value |-> Shown(R, d, i)]

\* events.jsonl: a draw that does not go through the tape leaves no line.
Written(R, d, capture) ==
    {i \in DOMAIN d : Program[R][i].kind # "DRAW" \/ Bridged(Program[R][i], capture)}
LogOf(R, d, capture) ==
    Picked([i \in DOMAIN d |-> Line(R, d, i)], Written(R, d, capture))

\* inputs.tape
TapeOf(R, d, capture) ==
    Picked([i \in DOMAIN d |-> [kind |-> Program[R][i].of, value |-> d[i]]],
           {i \in DOMAIN d : Kept(Program[R][i], d[i], capture)})

\* InputTape in a replaying JVM: what is bridged comes from the tape, in its order.
Follows(R, d, capture, tape) ==
    /\ \A i \in DOMAIN d : Bridged(Program[R][i], capture) => Kept(Program[R][i], d[i], capture)
    /\ IsPrefix(TapeOf(R, d, capture), tape)

\* And the next draw gets an exception: the tape has ended, or its next entry is of
\* another kind.
Stopped(R, d, capture, tape) ==
    LET next == Len(d) + 1
        used == Len(TapeOf(R, d, capture))
    IN  /\ next <= Len(Program[R]) /\ Bridged(Program[R][next], capture)
        /\ used < Len(tape) => tape[used + 1].kind # Program[R][next].of

\* The state hash of an event covers what its line shows.
StateHash(e) == e

\* Lines of a log.
Calls(log, sources) == {i \in DOMAIN log : log[i].kind = "CALL" /\ log[i].of \in sources}
Recorded(log, source) == {i \in DOMAIN log : log[i].kind = "INPUT" /\ log[i].of = source}
Nondeterministic == {"clock", "random"}

\* Mutant of Unavailable: file inputs count as deterministic inputs too.
UnavailableAllInputs(log) ==
    LET calls == Cardinality(Calls(log, Nondeterministic))
        files == Cardinality(Calls(log, {"file"}))
        inputs == Cardinality(Recorded(log, "clock") \cup Recorded(log, "file"))
        external == Calls(log, {"network"}) # {}
        missing == \E i \in DOMAIN log : log[i].kind = "CAPABILITY"
    IN  (IF calls > 0 /\ inputs # calls THEN {"nondeterminism"} ELSE {})
        \cup (IF /\ files > 0 \/ external \/ missing
                 /\ ~(files > 0 /\ Cardinality(Recorded(log, "file")) = files /\ ~external)
              THEN {"io"} ELSE {})

\* classify_boundary and the counters of ingest_events: a boundary that was seen is taken
\* off the list again when as many inputs were recorded.  Nothing left: complete.
Unavailable(log) ==
    LET calls == Cardinality(Calls(log, Nondeterministic))
        files == Cardinality(Calls(log, {"file"}))
        external == Calls(log, {"network"}) # {}
        missing == \E i \in DOMAIN log : log[i].kind = "CAPABILITY"
    IN  (IF calls > 0 /\ Cardinality(Recorded(log, "clock")) # calls
         THEN {"nondeterminism"} ELSE {})
        \cup (IF /\ files > 0 \/ external \/ missing
                 /\ ~(files > 0 /\ Cardinality(Recorded(log, "file")) = files /\ ~external)
              THEN {"io"} ELSE {})

-----------------------------------------------------------------------------
(* The store and the requests.                                             *)

RunRow(r) == [kind |-> "run", key |-> r]
RecordingRow(id) == [kind |-> "recording", key |-> id]
HasRun(r) == \E i \in DOMAIN retained : retained[i] = RunRow(r)

\* A recording's events have the ids <<run, 1>>, <<run, 2>>, ...
RecordingIds == Revisions \X (Events \cup {None})
RecordingOf(run, revision, events, tape, unavailable) ==
    [run |-> run, revision |-> revision, events |-> events, tape |-> tape,
     unavailable |-> unavailable]
NoRecording == RecordingOf(None, None, <<>>, <<>>, {})
IsRecording(x) ==
    /\ x.run \in Requests /\ x.revision \in Revisions
    /\ x.events \in Seq(Events) /\ Len(x.events) <= MaxEvents
    /\ x.tape \in Seq(Inputs) /\ x.unavailable \subseteq {"nondeterminism", "io"}

NoWant == [step |-> None, until |-> None, watch |-> None]

\* held: the record request from whose answer the client knows recording and event.
Ask(cmd, capture, held, event, want) ==
    [cmd |-> cmd, capture |-> capture, held |-> held, event |-> event, want |-> want]
NoAsk == Ask("none", FALSE, None, 0, NoWant)

Statuses == {"none", "ok", "partial", "verified", "not_found", "unsupported", "position",
             "moved", "stale", "diverged", "error"}
Answer(status, id, event) == [status |-> status, id |-> id, event |-> event]
Plain(status) == Answer(status, None, None)
EventIds == Requests \X (1..MaxEvents)

\* cut: the JVM was killed, or did not get to run.
NoRun == [revision |-> None, events |-> <<>>, tape |-> <<>>, cut |-> FALSE]

\* Types; a stored recording is no longer than what is read back, has its row among the
\* retained ones, and every request that has ended was answered.
TypeOK ==
    /\ tree \in Revisions
    /\ \A i \in DOMAIN retained :
        \/ \E r \in Requests : retained[i] = RunRow(r)
        \/ \E id \in DOMAIN recordings : retained[i] = RecordingRow(id)
    /\ \A id \in DOMAIN recordings :
        /\ id \in RecordingIds /\ IsRecording(recordings[id])
        /\ \E i \in DOMAIN retained : retained[i] = RecordingRow(id)
    /\ pc \in [Requests -> {"idle", "check", "start", "work", "finish", "read", "done"}]
    /\ \A r \in Requests :
        /\ asked[r].cmd \in {"none", "record", "replay", "reverse"}
        /\ asked[r].capture \in BOOLEAN /\ asked[r].held \in Requests \cup {None}
        /\ asked[r].event \in 0..MaxEvents /\ asked[r].want \in Wants \cup {NoWant}
        /\ loaded[r] = NoRecording \/ IsRecording(loaded[r])
        /\ target[r] \in 0..Len(loaded[r].events)
        /\ before[r] \in Revisions \cup {None}
        /\ jvm[r] = NoRun \/ jvm[r].revision \in Revisions
        /\ answer[r].status \in Statuses
        /\ answer[r].id \in RecordingIds \cup {None}
        /\ answer[r].event \in EventIds \cup {None}
        /\ pc[r] = "done" <=> answer[r].status # "none"

Init ==
    /\ tree = 0
    /\ retained = <<>>
    /\ recordings = <<>>
    /\ pc = [r \in Requests |-> "idle"]
    /\ asked = [r \in Requests |-> NoAsk]
    /\ loaded = [r \in Requests |-> NoRecording]
    /\ target = [r \in Requests |-> 0]
    /\ before = [r \in Requests |-> None]
    /\ jvm = [r \in Requests |-> NoRun]
    /\ answer = [r \in Requests |-> Plain("none")]

Goto(r, place) == pc' = [pc EXCEPT ![r] = place]
Reply(r, a) == Goto(r, "done") /\ answer' = [answer EXCEPT ![r] = a]

\* Store::prune: by age and by size the oldest rows go, runs with their events.
Prune(rows, stored) ==
    \E k \in 0..Len(rows) :
        /\ retained' = SubSeq(rows, k + 1, Len(rows))
        /\ recordings' = Restrict(stored,
                {id \in DOMAIN stored : RecordingRow(id) \in ToSet(retained')})

\* INSERT OR REPLACE: the row is as new as its last write.
Upsert(rows, row) == Append(Picked(rows, {i \in DOMAIN rows : rows[i] # row}), row)

-----------------------------------------------------------------------------
(* replay.rs.                                                              *)

Matches(e, want) ==
    IF want.step # None
    THEN e.kind = want.step /\ (want.watch # None => e.field = want.watch)
    ELSE e.at = want.until

ValidWant(want) ==
    /\ (want.step = None) # (want.until = None)
    /\ want.watch # None => want.step = "WRITE"

\* Mutant of Previous: the search starts at the event itself.
PreviousInclusive(events, start, want) ==
    SelectLastInSubSeq(events, 1, start, LAMBDA e : Matches(e, want))

\* JvmReplayBackend::reverse: the last event before `start` that matches, or 0.
Previous(events, start, want) ==
    SelectLastInSubSeq(events, 1, start - 1, LAMBDA e : Matches(e, want))

\* Mutant of Position: an event is looked up by its place alone.
PositionOfAnyRun(recording, run, i) ==
    IF i \in DOMAIN recording.events THEN i ELSE 0

\* The position of event <<run, i>> in a recording, or 0 when it has no such event.
Position(recording, run, i) ==
    IF recording.run = run /\ i \in DOMAIN recording.events THEN i ELSE 0

\* verify_replayed_prefix
SamePrefix(recording, fresh, n) ==
    /\ n <= Len(fresh)
    /\ \A i \in 1..n : recording.events[i] = fresh[i]

-----------------------------------------------------------------------------
(* What a client asks for.                                                 *)

\* Daemon::record
Record(r, capture) ==
    /\ pc[r] = "idle"
    /\ asked' = [asked EXCEPT ![r] = Ask("record", capture, None, 0, NoWant)]
    /\ Goto(r, "start")
    /\ UNCHANGED <<tree, retained, recordings, loaded, target, before, jvm, answer>>

\* The recording a client was told of, as it is stored now.
Stored(id) == IF id \in DOMAIN recordings THEN recordings[id] ELSE NoRecording

\* The work a replay or a reverse goes on with, once it knows the event to reach.
Load(r, recording, n) ==
    /\ loaded' = [loaded EXCEPT ![r] = recording]
    /\ target' = [target EXCEPT ![r] = n]
    /\ Goto(r, "check")
    /\ UNCHANGED answer

Refuse(r, status) ==
    /\ Reply(r, Plain(status))
    /\ UNCHANGED <<loaded, target>>

\* Daemon::replay_at, up to verify_replay_event.
Replay(r, held, i) ==
    /\ pc[r] = "idle"
    /\ answer[held].status \in {"ok", "partial"}
    /\ asked' = [asked EXCEPT ![r] = Ask("replay", FALSE, held, i, NoWant)]
    /\ LET recording == Stored(answer[held].id)
           n == Position(recording, held, i)
       IN  \/ recording = NoRecording /\ Refuse(r, "not_found")
           \/ /\ recording # NoRecording /\ recording.unavailable # {}
              /\ Refuse(r, "unsupported")
           \/ /\ recording # NoRecording /\ recording.unavailable = {} /\ n = 0
              /\ Refuse(r, "not_found")
           \/ recording.unavailable = {} /\ n # 0 /\ Load(r, recording, n)
    /\ UNCHANGED <<tree, retained, recordings, before, jvm>>

\* Daemon::reverse, up to verify_replay_event.
ReverseFrom(r, held, i, want) ==
    /\ pc[r] = "idle"
    /\ answer[held].status \in {"ok", "partial"}
    /\ asked' = [asked EXCEPT ![r] = Ask("reverse", FALSE, held, i, want)]
    /\ LET recording == Stored(answer[held].id)
           start == Position(recording, held, i)
           n == Previous(recording.events, start, want)
       IN  \/ recording = NoRecording /\ Refuse(r, "not_found")
           \/ /\ recording # NoRecording /\ recording.unavailable # {}
              /\ Refuse(r, "unsupported")
           \/ /\ recording # NoRecording /\ recording.unavailable = {}
              /\ ~ValidWant(want) \/ start = 0 \/ n = 0
              /\ Refuse(r, "position")
           \/ /\ recording.unavailable = {} /\ ValidWant(want) /\ start # 0 /\ n # 0
              /\ Load(r, recording, n)
    /\ UNCHANGED <<tree, retained, recordings, before, jvm>>

-----------------------------------------------------------------------------
(* The run of a request: verify_replay_event and verify_internal.          *)

\* verify_replay_event compares revisions before it starts the run.
Check(r) ==
    /\ pc[r] = "check"
    /\ \/ tree = loaded[r].revision /\ Goto(r, "start") /\ UNCHANGED answer
       \/ tree # loaded[r].revision /\ Reply(r, Plain("moved"))
    /\ UNCHANGED <<tree, retained, recordings, asked, loaded, target, before, jvm>>

\* The capture before the run, and begin_run.
Start(r) ==
    /\ pc[r] = "start"
    /\ before' = [before EXCEPT ![r] = tree]
    /\ retained' = Append(retained, RunRow(r))
    /\ Goto(r, "work")
    /\ UNCHANGED <<tree, recordings, asked, loaded, target, jvm, answer>>

\* Artifacts are missing, the worker cannot be spawned or runs out of time, or its log
\* ends in half a line.
Fails(r) ==
    /\ pc[r] \in {"check", "start", "work", "finish"}
    /\ Reply(r, Plain("error"))
    /\ UNCHANGED <<tree, retained, recordings, asked, loaded, target, before, jvm>>

\* Mutant of CaptureFiles: a replay does not ask for file inputs.
CaptureNoFiles(r) == asked[r].capture

\* A recording captures files when asked to, a replay when its tape has any.
CaptureFiles(r) ==
    IF asked[r].cmd = "record" THEN asked[r].capture
    ELSE \E j \in DOMAIN loaded[r].tape : loaded[r].tape[j].kind = "file"

\* The worker compiles the worktree and executes the test.  It may be killed after any
\* step (after none: it does not compile), and once a value is on the tape before its line
\* is in the log.
Work(r) ==
    /\ pc[r] = "work"
    /\ \E n \in 0..Len(Program[tree]) : \E d \in Draws(tree, n), lost \in {0, 1} :
        LET capture == CaptureFiles(r)
            replay == asked[r].cmd # "record"
        IN  /\ replay => Follows(tree, d, capture, loaded[r].tape)
            /\ lost = 1 => n > 0 /\ Kept(Program[tree][n], d[n], capture)
            /\ jvm' = [jvm EXCEPT ![r] =
                [revision |-> tree,
                 events |-> LogOf(tree, SubSeq(d, 1, n - lost), capture),
                 tape |-> TapeOf(tree, d, capture),
                 cut |-> \/ lost = 1
                         \/ /\ n < Len(Program[tree])
                            /\ ~(replay /\ Stopped(tree, d, capture, loaded[r].tape))]]
    /\ Goto(r, "finish")
    /\ UNCHANGED <<tree, retained, recordings, asked, loaded, target, before, answer>>

\* Mutant of Settled: a run is not stale when its test left events.
SettledWithEvents(r) == tree = before[r] \/ jvm[r].events # <<>>

\* finish_run finds the revision it began with.
Settled(r) == tree = before[r]

\* ingest_events, the capture after the run, finish_run and prune.  Without its row
\* (another request's prune took it) the events cannot be stored.
Finish(r) ==
    /\ pc[r] = "finish"
    /\ \/ /\ ~HasRun(r)
          /\ Reply(r, Plain("error"))
          /\ UNCHANGED <<retained, recordings>>
       \/ /\ HasRun(r) /\ Settled(r)
          /\ Prune(retained, recordings)
          /\ Goto(r, "read") /\ UNCHANGED answer
       \/ /\ HasRun(r) /\ ~Settled(r)
          /\ Prune(retained, recordings)
          /\ Reply(r, Plain("stale"))
    /\ UNCHANGED <<tree, asked, loaded, target, before, jvm>>

\* Mutant of StoredEvents: everything is read back.
StoredEventsAll(r) == IF HasRun(r) THEN jvm[r].events ELSE <<>>

\* Store::events: nothing when the run has been pruned, no more than MaxEvents.
StoredEvents(r) ==
    IF HasRun(r) THEN SubSeq(jvm[r].events, 1, Min({MaxEvents, Len(jvm[r].events)})) ELSE <<>>

\* The end of record_with_options, and its answer.
Save(r) ==
    /\ pc[r] = "read" /\ asked[r].cmd = "record"
    /\ LET events == StoredEvents(r)
           id == <<before[r], IF events = <<>> THEN None ELSE StateHash(Last(events))>>
           unavailable == Unavailable(jvm[r].events)
           recording == RecordingOf(r, before[r], events, jvm[r].tape, unavailable)
       IN  \/ \* recorded_inputs: an input of no bytes is taken for a malformed entry
              /\ \E j \in DOMAIN jvm[r].tape : jvm[r].tape[j].value = EmptyValue
              /\ Reply(r, Plain("error"))
              /\ UNCHANGED <<retained, recordings>>
           \/ /\ \A j \in DOMAIN jvm[r].tape : jvm[r].tape[j].value # EmptyValue
              /\ Prune(Upsert(retained, RecordingRow(id)),
                       [x \in DOMAIN recordings \cup {id} |->
                            IF x = id THEN recording ELSE recordings[x]])
              /\ Reply(r, Answer(IF unavailable = {} THEN "ok" ELSE "partial", id, None))
    /\ UNCHANGED <<tree, asked, loaded, target, before, jvm>>

\* The end of verify_replay_event, and the answer of a replay or a reverse.
Compare(r) ==
    /\ pc[r] = "read" /\ asked[r].cmd # "record"
    /\ LET same == SamePrefix(loaded[r], StoredEvents(r), target[r])
       IN  \/ same /\ Reply(r, Answer("verified", None, <<loaded[r].run, target[r]>>))
           \/ ~same /\ Reply(r, Plain("diverged"))
    /\ UNCHANGED <<tree, retained, recordings, asked, loaded, target, before, jvm>>

\* The developer edits; a revision does not come back.
Edit ==
    /\ tree < MaxRevision
    /\ tree' = tree + 1
    /\ UNCHANGED <<retained, recordings, pc, asked, loaded, target, before, jvm, answer>>

Next ==
    \/ \E r \in Recorders, capture \in Captures : Record(r, capture)
    \/ \E r \in Players, held \in Recorders, i \in 1..MaxEvents :
        \/ Replay(r, held, i)
        \/ \E want \in Wants : ReverseFrom(r, held, i, want)
    \/ \E r \in Requests :
        \/ Check(r) \/ Start(r) \/ Fails(r) \/ Work(r) \/ Finish(r) \/ Save(r) \/ Compare(r)
    \/ Edit

Spec == Init /\ [][Next]_vars

-----------------------------------------------------------------------------
(* Properties.                                                             *)

\* "verified" is only said when the JVM of the replay did, up to the event, what the
\* JVM of the recording did; and the answer is about the very recording and event the
\* client holds, although a later recording of the same outcome takes over the id
\* (replay_at, reverse, verify_replayed_prefix).
VerifiedIsExact ==
    \A r \in Requests : answer[r].status = "verified" =>
        LET held == answer[r].event[1]
            n == answer[r].event[2]
            told == jvm[held].events
        IN  /\ held = asked[r].held
            /\ asked[r].cmd = "replay" => n = asked[r].event
            /\ n <= Len(told)
            /\ IsPrefix(SubSeq(told, 1, n), jvm[r].events)

\* And only when every boundary that the recorded JVM called, as far as its log shows, was
\* answered by an input, and these inputs are the tape that was replayed: the totals that
\* ingest_events compares cannot make up for each other (a file too long to keep, a random
\* number from a generator that is not rewritten, a JVM killed before its input's line).
VerifiedIsComplete ==
    \A r \in Requests : answer[r].status = "verified" =>
        LET log == jvm[asked[r].held].events
        IN  /\ \A i \in Calls(log, Sources) :
                i + 1 \in DOMAIN log /\ log[i + 1].kind = "INPUT" /\ log[i + 1].of = log[i].of
            /\ Len(jvm[asked[r].held].tape) =
                Cardinality({i \in DOMAIN log : log[i].kind = "INPUT"})

\* A reverse answers with the nearest earlier event of the recorded execution that the
\* client could have meant (JvmReplayBackend::reverse, matches_request).
ReverseIsNearest ==
    \A r \in Requests : answer[r].status = "verified" /\ asked[r].cmd = "reverse" =>
        LET n == answer[r].event[2]
            told == jvm[asked[r].held].events
            want == asked[r].want
            Meant(i) == /\ want.step \in {None, told[i].kind}
                        /\ want.until \in {None, told[i].at}
                        /\ want.watch \in {None, told[i].field}
        IN  /\ n < asked[r].event
            /\ Meant(n)
            /\ \A i \in n + 1 .. asked[r].event - 1 : ~Meant(i)

\* A replay of the recorded revision on one thread is not taken for a divergence: what
\* made the recording complete is enough to repeat it, unless the replaying JVM was killed,
\* its run was pruned, or the test draws what no rule of the agent knows (InputTape,
\* verify_replay_event's choice of inputs, verify_replayed_prefix).
NoFalseDivergence ==
    \A r \in Requests : answer[r].status = "diverged" =>
        \/ jvm[r].revision # loaded[r].revision
        \/ jvm[r].cut
        \/ ~HasRun(r)
        \/ \E i \in DOMAIN Program[loaded[r].revision] :
            Program[loaded[r].revision][i].of = "unseen"

\* What docs/replay.md says of any boundary that cannot be reconstructed and docs/README.md
\* of unsupported inputs: they make a recording partial, so the recording of a test that
\* ran to its end is only called complete when all it drew is on the tape.
CompleteIsRecorded ==
    \A r \in Recorders : answer[r].status = "ok" /\ ~jvm[r].cut =>
        Len(jvm[r].tape) = Cardinality({i \in DOMAIN Program[jvm[r].revision] :
                                            Program[jvm[r].revision][i].kind = "DRAW"})

\* A stored recording is what the worker executed on the revision it is bound to, cut
\* off at the limit or emptied by a prune, never another revision or another run
\* (record_with_options).
RecordingIsOfItsRevision ==
    \A id \in DOMAIN recordings :
        LET x == recordings[id]
        IN  /\ jvm[x.run].revision = x.revision
            /\ IsPrefix(x.events, jvm[x.run].events)
            /\ x.tape = jvm[x.run].tape
=============================================================================
