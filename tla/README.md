# A TLA+ development of Walaru

Walaru runs a JVM project's tests for a developer, an editor or a script, binds every result to a
content revision of the worktree, selects the tests an edit may affect, runs unsaved editor text in
a shadow workspace, and records executions that it can replay. This directory models the parts of it
whose correctness depends on order, failure and memory of earlier runs, checks them with TLC on small
instances, and proves the central ones with TLAPS for every instance.

Paths are relative to `src/`. `D` = `crates/walaru-daemon/src`, `C` = `crates/walaru-core/src`,
`A` = `jvm-agent/src/main/java/io/github/p4suta/walaru/agent`.

## 1. Inventory

| component | state | operations | interacts with | hard behaviour | correct when |
|---|---|---|---|---|---|
| verification gate (`D/server.rs`, `Daemon`) | generation, gate mutex, active token slot, `should_stop` | verify (with `supersede`), cancel, stop | verifier, server life, all clients | a thread per connection; bump, cancel, lock, install and check are separate steps | one verification at a time, a cancel always reaches it, overtaken requests publish nothing, every request ends |
| verifier attempt (`D/verifier.rs`, `verify_internal`) | token, `before`, the run's files | capture, cache lookup, spawn, supervise, ingest, capture, finish, cache | store, revision, overlay, build tool | edits while the worker runs; an error after every step | a success belongs to the revision it is reported for; no row stays `running` |
| run store (`C/store.rs`) | SQLite tables `runs`, `verification_cache`, `revision_manifests`, `dependencies`, `recordings`, ... | begin/finish run, cache, learn, select, prune, open | verifier, queries | crash between statements; retention removes rows that others rely on | recovery on open; selection never trusts half of a baseline |
| impact selection (`impacted_tests`, `impacted_tests_since_git`, `ingest_events`, `select_impact`) | learned dependencies, manifests, cache | select, learn, cache | store, revision, Git | long sequences of selected, failing, stale and full runs | "passed" is only said where every test passes |
| worktree revision (`C/workspace.rs`) | none | capture | file system | files change during and between captures | equal revisions mean equal inputs |
| overlay mirror (`D/overlay.rs`) | mirror directory, manifest, marker | prepare | file system, verifier | abandoned half way; files saved meanwhile; builds change the mirror | a prepared mirror shows what the editor shows |
| replay in the JVM (`A/ReplayScheduler.java`, `A/InputTape.java`, `A/AgentBridge.java`) | schedule and cursor, tape and cursor | before, after, next | program under test | real threads, monitors, time limits | recorded order or a failure; own inputs; nobody waits for ever |
| server life (`D/server.rs`, `serve`) | listener, threads, endpoint files | accept, stop, drain, exit | gate, CLI | stop during a run; crash | a stop ends the daemon |
| daemon startup (`crates/walaru-cli/src/main.rs`) | startup lock, endpoint, metadata | ensure, start, bind, remove | server life | several clients and a stopping daemon | at most one daemon, and one that is found |
| live scheduling (`clients/vscode/live.js`, `extension.js`, `client.js`) | generation, pending snapshot, active run, timer, suspensions, the cancel in flight | schedule, flush, pause, resume, run now, suspend, release, dispose | gate through CLI processes | results, aborts and cancels out of order | what is painted is current, the last edit ends up shown, a cancel strikes nothing newer |
| recordings (`C/replay.rs`, `record`, `replay_at`, `reverse`, `record_with_options`, `verify_replay_event`) | table `recordings`, a request's run, tape and events | record, replay, reverse | verifier, store, JVM agent | requests run beside each other without the gate; retention takes what they need | "verified" only for an execution that repeats the recording |
| queries (`dispatch`, `C/store.rs`, `enforce_response_limit`) | tables `tests`, `events`, `failures`, `coverage` | tests, trace, coverage, failure, page by page | runs that write, retention | rows change between two pages; limits of items and bytes | following cursors reads everything that stayed |
| dashboard (`crates/walaru-cli/src/tui.rs`) | list, selection, failure, operation, channel | refresh, move, open, start, receive | queries | the thread's list and the loop's own refreshes | the selection stays on its test, the list catches up |
| analysis, rendering, instrumentation, adapters | none that survives a call | | | | not modelled, see section 7 |

`PROJECT.json` lists the main hazards of this code at their lines, each with the properties that would
catch it, or a note that says why none does. Smaller ones that no property covers: two contents of
one length with the same modification time (`D/overlay.rs:471`); a capture torn by an edit
(`C/workspace.rs:48`); `finish_run` itself failing (`D/verifier.rs:556`); a swallowed replay time-out
(`A/ReplayScheduler.java:59`); a source of values on no list of boundaries (`D/verifier.rs:2087`,
section 4); a stopping daemon that removes the metadata of its successor
(`D/server.rs:1659`); an edit during a manual run that sends a second cancel while the process of an
aborted live run has not closed (`clients/vscode/live.js:60`); a resume that is undone by the end of
a run-now (`extension.js:738`); failing tests beyond the first page of the dashboard, and a failure
shown under another test's title (`tui.rs:279`, `tui.rs:658`).

## 2. Modules

| module | models | checked by | proved in |
|---|---|---|---|
| `Verification` | gate, verifier attempt, run rows, result cache, server life | `MCVerification` | `VerificationProofs` |
| `VerificationService` | what the gate promises its clients | `ImplementsService` of `Verification` | `VerificationProofs` |
| `Impact` | selection, learning, cache, manifests, prune | `MCImpact` | `ImpactProofs` |
| `OverlayMirror` | preparation of the shadow workspace | `MCOverlayMirror` | `OverlayMirrorProofs` |
| `ReplaySchedule` | scheduler and tape of a replaying JVM | `MCReplaySchedule` | `ReplayScheduleProofs` |
| `DaemonStartup` | finding, starting and stopping the daemon of a worktree | `MCDaemonStartup` | `DaemonStartupProofs` |
| `Recordings` | recording, replay and reverse over one store | `MCRecordings` | `RecordingsProofs` |
| `Queries` | what runs store and how clients read it in pages | `MCDashboard` | `DashboardProofs` |
| `Dashboard` | the terminal dashboard, composed with `Queries` | `MCDashboard` | `DashboardProofs` |
| `Subsequences` | rows in the order of their keys, and what a filter lets through; used by the three above | with them | with them |
| `LiveScheduler` | live verification in the editor, with what the daemon does to its requests | `MCLiveScheduler` | `LiveSchedulerProofs` |

### Verification

A request is a thread. Its `pc` names the place in `Daemon::verify` and, below it, in
`verify_internal`; each action is one atomic operation on shared state: a load or `fetch_add` of
`verification_generation`, a critical section of `active_verification`, lock and unlock of the gate,
a capture of the worktree, a statement on the store. `Arrive` stands for the validation and the
reading of the generation, `CancelOlder` for the call in line 513, `Admit` and `Recheck` for the two
checks around `InstallToken`, `Decide` for the last check, `Clear` for the end of scope. The last
check loads the token and then the generation; since the generation only grows, the pair has the
same result as one atomic look at either load.
`CaptureBefore` to `SaveCache` are an attempt; `StartFails`, `RunFails`, `SaveFails` and
`RequeueDiscoverFails` are its error returns, each with the row it leaves. The last one is the `?`
in line 552, which leaves the slot filled. `CancelBump`, `CancelToken` and `StopFlag` are the
`cancel` and `stop` commands, and `ServeBump`, `ServeCancel`, `Exit` the end of `serve`.
The environment edits the worktree (`Edit`; `Revert` also goes back), ends the worker with any
result the revision allows, and kills the daemon (`Crash`).

Abstractions: a revision is a number, `Good` are those whose tests all pass; the row and the cache
entry of a request stand for the tables; a statement on the store does not fail, except where the
action's name says so; requests are finitely many and each is sent once.

`VerificationService` has neither threads nor gate: a request waits until it is answered, an
interruption overtakes everyone who waits, and an overtaken request is never answered with the
outcome of a run. `Service` in `Verification` gives the mapping: a request is `answered` as soon as
its answer is fixed, and `overtaken` while its generation is old.

### Impact

One verification is one step: the gate serialises them. A worktree maps files to contents; a
revision is the part of it that `included_file` accepts (`Included`). `Executes(t, R)` and
`Passes(t, R)` are what a test does on worktree `R`; the only thing assumed of them is what the tool
itself relies on: a test's run is determined by the sources it executes, the surfaces of all
sources and all other files (`ImpactAssumption`). `RunTo` lets the worktree move once while tests
run, lets the worker see either side of the edit, and lets any subset of the selected tests leave
events. A run learns (`Ingest`) whatever its outcome, saves only a fresh, cacheable success, and
prunes. `claim` records what an answer says: that all tests pass on a worktree.
`--since <Git reference>` compares with a commit that nobody verified, so it claims nothing.
`Included` may leave files out, tests may execute different sources on different worktrees, and those
in `Silent` may pass without events, which a run without a selection does not notice. `lapses` is a
history variable with the three things that happen in the code and that selection does not reckon
with: a run learned less of a test than was known (`forgot`), a run without a selection was saved
although a test left no events (`silent`), a file outside the revision changed (`unseen`).

### OverlayMirror

One action per file operation of `prepare_cancellable` and of the functions it calls. `Abandon`
can end it between any two operations and leaves the disk as it is; `Save` changes the workspace at
any time; `BuildRan` lets the build change and delete files of the mirror and create others, which no
manifest lists and no preparation removes: `Generated` is such a file, as long as its path is not
mirrored. Files have one length, so that only
digests and modification times tell contents apart; every save has a new time. A copy has three
states on disk: absent, `Partial`, and complete with the source's time or (read-only inputs) its own.
`seen` is a history variable: the contents a path had since the preparation began.

### ReplaySchedule

A thread runs (`run`), waits in `ReplayScheduler.before` (`wait`), writes its event (`write`), and
ends (`done`) or gets an exception (`failed`). `EnterTape` is the part of `InputTape.next` before the
event: the cursor moves, the kind is compared, the monitor is held. `WriteAndAfter` leaves it.
Threads in `Diverging` do anything; the others repeat their recording. `Init` ranges over every
interleaving the threads can have been recorded in. Ten seconds are taken to be long: a wait times
out only if it cannot end.

### DaemonStartup

Clients (`crates/walaru-cli/src/main.rs`) and daemons (`serve`, `bind_local_endpoint`, `SocketGuard`)
are processes that share the socket path, the metadata file and the startup lock; a step is one
operation on one of them. `client` and `daemon` name the place each process is at. A client goes
through `ensure_daemon` (`SeeFile`, `FindReady`, `FindNotReady`, `TryLock`, `Spawn`), sends its
request (`Connect`, `Accept`, `Answered`) and, after a stop, waits for both files to disappear. A
daemon goes through `CheckSocket` to `Bind`, opens the store, writes its metadata and serves until it
drains; after two seconds, or at once when `serve` fails, it goes on without the workers that are left
(`Drained`, `ServeFails`); its guard removes first the socket, then the metadata, and the process ends
(`Exit`). Time limits pass at any moment;
a daemon can be killed anywhere (`Crash`) and leaves its files, which a worktree may also begin with;
a client can be killed while it wants or holds the startup lock (`KillClient`), and its child lives on.
`socket` is the daemon whose listener the path leads to, dead or alive. The reads of `daemon_ready` and
of `wait_for_daemon_shutdown` are steps of their own (`SeeFile`, `SocketGone`). Verification itself is
in module `Verification`, which starts where a request was accepted.

`bind_local_endpoint` is safe only for one starting daemon at a time, and the startup lock is what is
meant to see to that. The code does not guarantee it (section 4): the lock excludes clients, and a
daemon can outlive the client that started it. `overlap` is a history variable that says that two
daemons have been between spawn and bind at once; the promises about daemons are stated for the time
before it, and section 4 says what the documented ones come to.

### Recordings

A request (`Record`, `Replay`, `ReverseFrom`) makes one run of its own, which also names it: `Check`
compares revisions, `Start` is the capture and `begin_run`, `Work` the JVM, `Finish` the ingestion,
the second capture, `finish_run` and `prune`, `Save` and `Compare` the two ends. None of them takes
the gate, so all interleave. `retained` holds the rows of runs and recordings in the order in which
`prune` takes them; how far it goes is any choice. There is one test, on one thread, a sequence of
steps per revision (`Program`). A step that draws takes a value from one of five sources: a call the
agent rewrites (`clock`: time, UUIDs, most random numbers), one it knows only by name (`random`), a
bounded file read (`file`, rewritten on demand), a boundary that is never recorded (`network`), and a
call that no rule knows (`unseen`). Every call that a rule knows is announced by a `CALL` of its own
before it is made (`Announced`). `Bridged` says which draws go through the tape, `Kept` which values
stay on it: not those of files that are too long, for which a `CAPABILITY` line is written instead of
an `INPUT`. A later step may show a drawn value in its line, or redact it (`Shown`). `LogOf` and
`TapeOf` are the two files a JVM leaves. `Work` stops the JVM after any step, and also between the tape
and the line of an input; in a replay it takes what is bridged from the tape (`Follows`) and stops
where the tape ends or has another kind (`Stopped`). `Unavailable` compares, per kind, the announced
calls with the inputs of the log as `ingest_events` does. An event's state hash is what its line shows,
so two values that are redacted have the same; the id of a recording is its revision and the hash of its last
event, so two recordings can have one id. What several threads do with a tape is in `ReplaySchedule`.
Revisions do not come back.

### Queries and Dashboard

Runs are numbered in the order of their start. `Begin`, `Ingest`, `Learn` and `End` are the
statements of a run as other connections see them; `CacheHit` repeats old statuses. `Found` are the
rows a query finds and `Keys` those after a cursor, in order; `Fitting` and `PageOf` what fits a page,
`Response` what is left after field mask and response limit. A reader (external) follows cursors and
asks for fewer items when an answer was too large. Sizes are in units: a row with a large value
(`Heavy` lines) or a large name (`Wide` tests, whose names are in all three kinds of rows) takes all of
`MaxBytes`. A field mask drops what is large, or keeps it; with either a page of events is not bounded
by bytes when it is fetched. Limits are at least one and `Overhead < MaxBytes`, so that one small row always fits:
`QueryOptions::bounded` clamps a limit to 1..1000 and `max_bytes` to at least 4096 (`D/server.rs:1368`).

`Dashboard` adds `App` and its event loop. The loop blocks in its requests, so a refresh is one step;
the thread of the one long operation fetches the list (`OperationLists`) before it sends it; `sent` is
the channel, which holds at most that one list. `ByRank` is the sort of `apply_tests`. A
request that goes wrong gives an empty list, as in the code. Clients do not write to the store, so a
behaviour has one client: a reader or the dashboard.

### LiveScheduler

JavaScript runs to completion between awaits: an action is one callback. The operators of the first
part are the methods of `LiveScheduler` and `LiveWorkspace` as functions of the workspace's state
`w`, composed as the code calls them; the actions are what the developer does, timers, processes and
the daemon. A run waits for the cancel in flight (`waiting`), writes its manifest (`manifest`), is
`sent` by a CLI process, has `arrived` at the daemon and is `settled`. A killed process settles at
once, while its request may still arrive (`late`). Of the daemon the module has what
`VerificationService` promises: a verify that supersedes, and a cancel, cancel whatever arrived before
and has no answer yet (`Strike`, `VerifyArrives`, `CancelArrives`); `Verification` has the details.
`struck` records what cancelled a run that was still wanted. `ChangeMode` goes between the three modes
at any time; `policy` is the last one that was not `off`. A document that is closed may lose unsaved
text (`CloseDocument`). `left` is a history variable: the snapshots that were pending or running when
an edit in `onSave` mode left them so.

## 3. Runs

| run | instance | shows |
|---|---|---|
| `verification_gate` | 2 verifies, 1 cancel or stop, 2 revisions, 1 restart | `TypeOK`, `HolderIsCancellable`, `ObsoleteWorkIsCancelled`, `SuccessIsReal`, `NoPhantomRun`, `ImplementsService` |
| `verification_liveness` | 2 verifies (one full), 1 cancel or stop | `EveryRequestEnds`, `StopEnds` |
| `impact` | 2 tests (one silent, one that stops early), 2 sources, 2 resources, one outside the revision | `TypeOK`, `ClaimsAreSound`, `CacheIsSound`, `BaselineIsLearned` |
| `impact_fail_fast` | a failing test stops early; everything is in the revision | violates `CacheIsTrue` |
| `overlay_mirror` | 2 paths, 2 contents, 2 saves | `TypeOK`, `MirrorIsCurrent`, `UnmarkedMirrorIsWhole` |
| `replay_schedule` | 2 threads with inputs, one may diverge | `TypeOK`, `EventsFollowSchedule`, `InputsAreOwn`, `EveryThreadEnds` |
| `replay_deadlock` | the same threads, none diverges | violates `ReplaySucceeds` |
| `daemon_startup` | 3 clients, 3 daemons | `TypeOK`, `OneDaemonUntilOverlap`, `OneStarter`, `EndpointIsOwn`, `StopIsReal` |
| `recordings` | 2 records, 1 replay or reverse, 2 revisions | `TypeOK`, `VerifiedIsExact`, `VerifiedIsComplete`, `NoFalseDivergence`, `ReverseIsNearest`, `RecordingIsOfItsRevision` |
| `clients` | 2 runs, 3 tests, one with a large name, 2 lines, one with a large value, a reader or the dashboard | `TypeOK`, `ReadIsWhole`, `StuckOnlyOnLargeItems`, `SelectionStays`, `ListCatchesUp` |
| `live` | 2 acts of the developer after activation, all modes | `TypeOK`, `PaintIsCurrentOrLeft`, `ManualIsAlone`, `OwnCancelsAreOrdered`, `LatestIsShown` |
| `live_on_save` | 1 act | violates `PaintIsCurrent` |

Bounds. Two verifies and a cancel are enough for every pairwise race on gate, slot and generation,
and for an interruption between any two steps of either; an old superseder needs no third request.
Two revisions, of which the first has a failing test, let a capture differ from what the worker
reads and from the capture after it; one restart lets a row be left behind and repaired. The proofs
remove these bounds. In `MCImpact` each file has a content that makes a test fail, one source has a
content with another surface, and `MaxRetained = 4` holds two cached revisions, so that a baseline can
lose its manifest or its cache row. In `MCOverlayMirror` two saves allow a change during a
preparation and another between two; preparations are not bounded. In `MCReplaySchedule` both
threads draw one input, and one has an event after it. In `MCDaemonStartup` the first daemon can
crash or be stopped while two further clients compete for its place, so that a stale path, a
removal and a bind of three different processes meet; each client spawns at most one daemon.
In `MCRecordings` two recordings of revision 0 can share an id although the file they read differs; the
file can be too long to keep, its value is shown in a later line, a random number that the agent
cannot record follows it, and a JVM killed before that number leaves a complete recording; revision 1
draws from the clock. `MaxEvents` cuts recordings short. File inputs are always asked for in this
instance, and the network and calls no rule knows are left to the proofs, which are for every program
and every capture option. In `MCDashboard` pages of one and of
three items meet events that fill a whole page, and a second run starts, finishes or is pruned
between two pages; two keys are enough for a selection to move before and during an operation. In
`MCLiveScheduler` the run of the activation and two acts are enough for two overlapping manual runs, for
a pause or a manual run with an edit beside it, for a change of mode and an edit, and for a cancelled
test run before the next live run. A pause, an edit and a resume, or a change to `onSave`, an edit and
the change back, take a third: with `MaxEvents = 3` the invariants hold too, in minutes, and they are
proved for any number. `verification_liveness` has one revision and no restart, so no attempt
is requeued in it; with `MaxRevision = 1` it passes too, in several minutes.

Symmetry (permutations of requests, paths, contents, clients and daemons) is used only in runs without liveness.
Deadlock is checked where the system never stops (`Impact`, `OverlayMirror`); the other models stop
when all requests are answered, all threads or all clients have ended.

Fairness. `Verification` assumes weak fairness of each request's `Progress`, of each cancel and of
the server's loop: threads are scheduled, the gate's mutex is not held by a dead thread, and
`supervise` ends the worker after its time limit. A weakly fair lock is enough because each of the
finitely many requests takes the gate once. Nothing is assumed of new requests, failures, edits and
crashes. `ReplaySchedule` assumes weak fairness of each thread. `Dashboard` assumes that the event
loop goes round, that its requests are answered again and again, and that the operation's thread is
scheduled; nothing of keys and runs. `LiveScheduler` assumes that timers fire, that processes end and
that the daemon answers; nothing of the developer. `Recordings` has no liveness property.

## 4. Findings

Three disagreements between the code and its documents have a run; `PROJECT.json` quotes the lines.

* `impact_fail_fast`: a failing run replaces what was learned of its test, while the baseline stays
  at the last success. The next selection relies on the shorter list.
* `replay_deadlock`: inputs are announced inside the tape's monitor, so a thread that is early
  blocks the thread whose turn it is.
* `live_on_save`: in `onSave` mode an edit leaves the run of the last save alone, and its result is
  painted over the edited text. A later change to the automatic mode leaves it there when a manual
  run suspends the scheduler.

Six more are one change of an instance away. Each line names the invariant that fails, stated in the
module beside the one that holds, and where.

* Nested resources: `CacheIsTrue` in `Impact.cfg` with `StopAtFailure = FALSE` and `Silent = {}`.
  `included_file` (`C/workspace.rs:171`) takes no resources of nested modules, so a cached success
  survives their change. `docs/architecture.md:3` binds observations to "source, resource,
  Maven/Gradle configuration, and wrapper inputs".
* Undone edits: `SuccessIsReal` in `VerificationGate.cfg` with `SPECIFICATION RevertSpec`. Equal
  captures before and after a run do not show that nothing happened in between (`D/verifier.rs:373`).
  The run of an edit that is undone in time is reported, stored and cached for the original revision.
  `docs/README.md:95`: "A concurrent edit makes an in-flight result stale."
* Delayed superseder: `SupersededOnlyByNewer` in `VerificationGate.cfg`. A superseding request bumps
  the generation and only then cancels "the active" token (`D/server.rs:513`). Delayed in between, it
  cancels a newer request, whose client is told that "a newer request replaced it"
  (`D/server.rs:666`) although it asked last.
* Orphaned daemon: `OneDaemon` in `DaemonStartup.cfg`. The startup lock belongs to the client, not to
  the daemon it starts (`crates/walaru-cli/src/main.rs:449`). A client that is killed gives the lock to
  another although its child goes on; both children can find the same stale path, and the slower one
  removes the socket the faster one just bound. The same happens without a kill, with three clients
  and the files of a dead daemon: the first client takes the old metadata and the new socket for a
  ready daemon and gives the lock up early; the second misses the metadata, spawns a child, then finds
  the first daemon ready and leaves that child behind; when the first daemon ends, the child competes
  with that of the third. `docs/architecture.md:3`: "One worktree owns one daemon and SQLite WAL store".
* Detached workers: `OneStore` in `DaemonStartup.cfg`. A daemon removes its endpoint while workers it
  has detached still have the store (`D/server.rs:1278`), until its process has ended; the next daemon
  opens the store beside them, contrary to the same sentence.
* Unseen draws: `CompleteIsRecorded` in `Recordings.cfg` with a step `Draw("unseen")` at the end of
  the test of revision 1. Boundaries are known by name (`D/verifier.rs:2087`): a test that draws a
  value by a call on no list (`new Date()`, `Collections.shuffle`) gets a recording that is called
  complete. `docs/README.md:97`: "unsupported inputs make a recording partial".

What the models showed without contradicting a promise: the cancel of a cancelled test run can strike
the next live run, which then stays "running" until the next edit; the request of an aborted live run
that is already on its way can supersede a later one, a manual run too, which waits for the cancel and
not for the process (`ManualIsAlone` says what does hold); a row larger than `--max-bytes` can only be
read with a field mask that drops what is large; the trace of a test can continue in another run
between two pages (`ReadIsWhole` says when it does not); a recording made from a run whose build
failed is complete and empty, and one whose JVM was killed between two calls is complete as far as it
goes.

## 5. Proofs

`VerificationProofs` proves, for every number of requests, revisions and restarts, that `Spec` keeps
`TypeOK`, `HolderIsCancellable`, `ObsoleteWorkIsCancelled`, `SuccessIsReal` and `NoPhantomRun`. The
inductive invariant `IInv` is their conjunction with `SuccessIsReal` strengthened to `Evidence`:
along an attempt, `before <= executed <= tree`, since revisions only grow; if the capture after the
run finds `before` again, all three are equal, and a success of the worker is a success of `before`;
a row that says passed belongs to the attempt that is being answered.
`SuccessIsReal` alone says nothing of an attempt under way. `ObsoleteWorkIsCancelled` is inductive
only with `HolderIsCancellable`: a cancel reaches the obsolete request because the slot holds its
token. There is one lemma per conjunct, with one step per action. The assumptions are those of
`ConstantsAssumption`; fairness is not used. `Revert` is outside `Spec`, and has to be (section 4).

`Refinement` in the same module proves `Spec => ImplementsService`: the initial states map to initial
states of `VerificationService`, and each action of the gate to one of its steps or to a stutter. A bump
of the generation overtakes everyone who waits, and `Decide` is `Answer`: it answers with an outcome only
where `MayNotPublish` finds the generation unchanged, which is where the request is not `overtaken`.
`Bookkeeping` holds what the mapping needs besides the types: a request has no answer before its last
check, its generation is not ahead of the daemon's, and a cancelled token means that somebody bumped.

`ImpactProofs` proves `ClaimsAreSound`, `CacheIsSound` and `BaselineIsLearned` for every set of
tests and files and every behaviour of `Spec`: a false claim, a false cache entry or an incomplete
baseline can only follow one of the three `lapses`. Run `impact_fail_fast` and section 4 show
that such lapses do lead there. Before the first lapse the invariant says that files outside the
revision are as in the beginning (`Outside`), that on every retained revision all tests pass and
execute nothing that is not known of them (`RowsAreSound`), and that the last claim is true. That a test
executes other sources on other revisions does no harm as long as what is known of it only grows: what
it executed on an older baseline is still known. The core is `SelectionIsSound`: a test outside the
selection executes no changed source and sees no changed surface, so it behaves as on the baseline.

`OverlayMirrorProofs` proves `TypeOK`, `MirrorIsCurrent` and `UnmarkedMirrorIsWhole` for every set of
paths and contents and any number of saves, preparations and builds. The invariant says, for each place
in the preparation, what has been done for a path (`PreparedOf`); that the marker is on disk whenever the
mirror is being changed and a manifest vouches for it (`Guarded`); and `DigestsVouch`: for a path with a
digest in the manifest, equal modification times mean equal contents. The last is what makes the
shortcut of `destination_matches` right, and it is only true because a torn copy and the build's own
writes have times no save had (`KnownTimes`). What the build created has a time of its own, by which
the invariant tells it from a mirrored file that fell out of the manifest.

`ReplayScheduleProofs` proves `TypeOK`, `EventsFollowSchedule` and `InputsAreOwn` for any finite set of
threads, any recorded programs and whichever threads diverge. `Scheduled` says that the thread that
writes owns the next entry; `TapeFollows` ties the tape's cursor to the schedule's: without a failure
the tape is as far as the `INPUT` events that were written, or one ahead while a thread is inside the
monitor. The thread inside emits the next `INPUT` event of the schedule, so the entry it took is its own.
That the nth entry belongs to the nth `INPUT` event is a fact about counting, proved with the least
element of a set of naturals (`WFMin`) where one would use induction.

`DaemonStartupProofs` proves `TypeOK`, `OneStarter`, `OneDaemonUntilOverlap`, `EndpointIsOwn` and
`StopIsReal` of `Spec` for every number of clients and daemons. `LockIsHeld` says that a client inside
`start_daemon` is the holder of the lock, also when others are killed. Until `overlap` at most one daemon is
starting (`OneStarts`); so what it found out about the path stays true until it binds (`PathIsFree`),
and from bind to the removal of the socket the path leads to the daemon (`OwnersHoldPath`).
`StopIsReal` also needs how far the daemon has come that a client talks to (`PeerOf`). Section 4
says what happens after an overlap.

`LiveSchedulerProofs` proves `TypeOK`, `PaintIsCurrentOrLeft`, `ManualIsAlone` and `OwnCancelsAreOrdered` for
any number of acts of the developer. None of them is inductive: that a result is of the current text
rests on which run is active, whether a timer is set, what is pending and why the scheduler is held.
`Held` says that only the active run is not aborted and that suspensions count the manual runs, `Timed`
that a timer is for what is pending, `Wanted` that a run which goes on is of the current generation,
that nothing holds the scheduler and that no cancel can overtake the run's request, `Configured` that
`paused` is what the mode, the user and the suspensions make it. `Latest` and `Showing` relate what is
pending, verified and painted to the editor's content. The methods of the code are operators on the
workspace's state, so there is one lemma per method about what it keeps, and the lemmas on actions
compose them as the callbacks do.

`RecordingsProofs` proves `RecordingIsOfItsRevision`, `VerifiedIsExact`, `VerifiedIsComplete`,
`NoFalseDivergence`, `ReverseIsNearest` and `TypeOK` for every program, any number of concurrent
requests, edits and any retention. `Going` follows a run along
`before <= jvm.revision <= tree`, as in `Verification`, and says that a replay under way works from a
recording that is `Faithful` to the JVM of the request that made it, although the row it was read from
may be replaced or pruned meanwhile, and that its target is the event that was asked for, or for a
reverse the `Nearest` one that matches. `Told` is what is left of it in an answer, `Verified` or
`Diverged`. A finished request never runs again, so what a recording is faithful to does not change
(`FaithfulStays`), and a run that is gone does not come back, so a "diverged" stays justified.
`VerifiedIsComplete` and `NoFalseDivergence` rest on facts about logs and tapes; `Made` says which logs
and tapes a JVM can leave. If nothing is `Unavailable`, every boundary call of the log is followed by
its input (`CompleteIsAnswered`): an `INPUT` line comes right after its own `CALL`, so the inputs of a
kind can be as many as its calls only if each call has one, and calls of a kind without inputs are not
there at all. A value whose line was lost leaves an unanswered call (`LostIsUnanswered`), and then the
tape has exactly the inputs of the log (`TapeCountsInputs`). And the replay repeats the recording
(`ReplayRepeats`): with every call answered, each draw that a rule knows is on the tape
(`AnsweredIsKept`), `Replayed` says that the replaying JVM took its draws from the tape in their order,
so the nth draw of either is the nth entry, and equal draws give equal lines. This needs that the test
draws nothing `unseen`, runs on one thread, and that the JVM was not killed, which is what
`NoFalseDivergence` says; run `replay_deadlock` shows that with several threads even a faithful replay
can fail. `TypeOK` needs that `prune` and `save_recording` move the row and the recording together
(`StoreTyped`): whatever was pruned and saved again, a recording has a row in `retained`, and a row
there that names a recording names one that is stored.

`DashboardProofs` proves `ReadIsWhole` and `StuckOnlyOnLargeItems` of `Queries`, and `TypeOK` and
`SelectionStays` of `Dashboard`, for any number of runs, clients, keys, any logs, page sizes and byte
limits. `ReadIsWhole` speaks only of a client that has finished; the invariant says what it has on the
way. `SoFar`: no item twice, each from a row up to the cursor, and of what was there at the beginning
everything is read or is still found after the cursor. `Steady`: the next page is of the same rows. Or
the rows are `Gone`: the run is pruned, another run has a newer trace, the coverage is replaced.
`Gone` is not the exception stated in `ReadIsWhole`, which can end: a client that asks for a run that
has not begun is excused until it begins. `Gone` is for good, implies that exception for a client that
has finished, and is all that can happen to a client that has read something. That takes `Moves`, what
a step of a run can never do: runs are pruned oldest first and none returns, a begun run keeps
its log, what is learned is not forgotten, and coverage is replaced only by who learns something.
`StoreInv` adds that the tables are finite and no two rows of coverage are alike, so that pages exist
and different rows are different items. A page ends before the last row only with the key of its last
item as a cursor (`FirstKeys`), so that its items and those read before are again all up to a cursor
(`NextPage`). It has an item if there is one (`FittingFacts`), and a page of one is refused only for
the size of that item (`TooLarge`). `SelectionStays` needs only that the cursor is in the list
(`ListInv`): wherever the sort puts the selected test, the first place with its id is found.

Lists that come from `ORDER BY` or a filter are given by places in a set of numbers (`Subsequences`):
the nth row is the number with n numbers up to it. What the proofs need of them, that they list the set
once, ascending, and that a page and its rest make up the whole, follows from cardinalities and least
elements (`WFMin`), where a recursive definition would need induction over the list. The lemmas on
sets of numbers are stated in `RecordingsProofs` and again in `DashboardProofs`.

All of these are about `Spec` and use the named assumptions on constants, no other premise, and no
fairness.
Every invariant and every action property that a passing run checks is proved. Only model-checked are
the liveness properties `EveryRequestEnds`, `StopEnds`, `EveryThreadEnds`, `ListCatchesUp` and
`LatestIsShown`: liveness under fairness is out of the prover's reach.

## 6. Plan

1. Done: `Verification`, `VerificationService`, `Impact`, `OverlayMirror`, `ReplaySchedule`,
   `DaemonStartup`, `Recordings`, `Queries`, `Dashboard`, `LiveScheduler`, and the proofs above.
2. `explain` as a verify followed by recordings with a time budget; `Recordings` composed with
   `ReplaySchedule`: recordings of several threads, and what a swallowed time-out leads to.
3. Failing statements on the store; restored modification times in `OverlayMirror`.
4. Proofs: the step properties behind `EveryThreadEnds` and `EveryRequestEnds` (what each step brings
   nearer to its end, and that no other step takes it back), which say most of what liveness needs
   besides fairness.

## 7. Not modelled

Failure analysis and the rendering of an envelope (`human.rs`, the layout of `tui.rs`) are sequential
functions from data to text. `doctor` looks at the machine and keeps nothing. `explain` combines a
verify (`Verification`) with recordings (`Recordings`). Of the editor extension only the scheduling
is modelled; tree views and test items show what queries return. Of bytecode instrumentation
`Recordings` has which calls are announced and rewritten; how it is done, and safe value capture,
decide what events contain, not their order. The Gradle and Maven adapters are
configuration; the build tool itself appears as a worker that reads the sources once and ends with
any result its sources allow. The optional `rr` backend only builds command lines. The Kotlin and
Java surface lexers are an arbitrary function of a file's content. On Windows the endpoint is a file
that names a TCP port instead of a socket; `DaemonStartup` models Unix.
