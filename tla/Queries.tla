------------------------------- MODULE Queries -------------------------------
(***************************************************************************)
(* What runs leave in the store and how clients read it page by page       *)
(* (ingest_events of crates/walaru-daemon/src/verifier.rs; the tables      *)
(* tests, events, failures and coverage of crates/walaru-core/src/store.rs;*)
(* Daemon::dispatch, enforce_response_limit and apply_field_mask of        *)
(* crates/walaru-daemon/src/server.rs).                                    *)
(*                                                                         *)
(* A run is known by the order in which it was started.  Its worker wrote  *)
(* a log, whose lines are stored one by one while clients read.  Tests are *)
(* numbers, in the order of their ids; a size counts units of bytes.       *)
(***************************************************************************)
EXTENDS Integers, Sequences, FiniteSets, SequencesExt, Subsequences

CONSTANTS
    MaxRuns,        \* bound: runs
    Tests,          \* test ids
    Lines,          \* source lines, all of one file
    Heavy,          \* the lines whose values are large
    Wide,           \* the tests whose names are large
    Logs,           \* what a worker may leave in its event file
    Readers,        \* clients that follow cursors
    Asks,           \* what they ask for, see AllAsks
    Limits,         \* the page sizes they begin with
    MaxBytes,       \* --max-bytes
    Overhead,       \* what an envelope needs besides its items
    None

Runs == 1..MaxRuns
StatusNames == {"passed", "failed", "skipped"}
LogLines == [kind : {"START"}, test : Tests, what : {None}]
            \cup [kind : {"LINE"}, test : Tests, what : Lines]
            \cup [kind : {"FINISH"}, test : Tests, what : StatusNames]

\* tests; trace of a run or of a test; coverage of a test or (None) of the file.
\* There is no field mask, or it drops or keeps what is large.
Masks == {"none", "drops", "keeps"}
AllAsks == [query : {"tests"}, of : {None}, mask : Masks]
           \cup [query : {"run"}, of : Runs, mask : Masks]
           \cup [query : {"trace"}, of : Tests, mask : Masks]
           \cup [query : {"coverage"}, of : Tests \cup {None}, mask : Masks]

ASSUME QueriesAssumption ==
    /\ MaxRuns \in Nat /\ Tests \subseteq Nat \ {0} /\ Lines \subseteq Nat
    /\ Heavy \subseteq Lines /\ Wide \subseteq Tests /\ Logs \subseteq Seq(LogLines) /\ Asks \subseteq AllAsks
    /\ Limits \subseteq Nat \ {0} /\ None \notin Nat
    /\ MaxBytes \in Nat /\ Overhead \in Nat
    /\ Overhead < MaxBytes  \* at least 4096 (QueryOptions::bounded): room for a small row

VARIABLES
    stage,          \* of a run: none, ingest, ended
    log,            \* of a run: the lines of its worker
    stored,         \* of a run: how many of them are in table `events`
    learned,        \* of a run: the tests whose status and coverage it has stored
    rows,           \* table `runs`; the events and failures of others are gone
    tests,          \* table `tests`: the last status of every test known
    failures,       \* table `failures`, in the order of its rowids
    coverage,       \* table `coverage`: rows by rowid
    reader          \* the clients that follow cursors

storeVars == <<stage, log, stored, learned, rows, tests, failures, coverage>>

-----------------------------------------------------------------------------
(* Runs write.                                                             *)

NoReader == [phase |-> "idle", ask |-> None, limit |-> 0, cursor |-> None, got |-> <<>>,
             base |-> None]

QueriesInit ==
    /\ stage = [k \in Runs |-> "none"]
    /\ log = [k \in Runs |-> <<>>]
    /\ stored = [k \in Runs |-> 0]
    /\ learned = [k \in Runs |-> {}]
    /\ rows = {}
    /\ tests = <<>>
    /\ failures = <<>>
    /\ coverage = <<>>
    /\ reader = [c \in Readers |-> NoReader]

\* The tests a log names, and the last word it has on one of them: its status, or
\* None when the worker did not get that far.
Started(lines) == {lines[i].test : i \in {j \in DOMAIN lines : lines[j].kind \in {"START", "FINISH"}}}
Outcome(lines, t) ==
    LET ends == {i \in DOMAIN lines : lines[i].kind = "FINISH" /\ lines[i].test = t}
    IN  IF ends = {} THEN None ELSE lines[Max(ends)].what
Covered(lines, t) ==
    {lines[i].what : i \in {j \in DOMAIN lines : lines[j].kind = "LINE" /\ lines[j].test = t}}

\* begin_run; the worker has run when the first line is stored.
Begin(k) ==
    /\ stage[k] = "none" /\ \A j \in 1..k - 1 : stage[j] # "none"
    /\ \E lines \in Logs : log' = [log EXCEPT ![k] = lines]
    /\ stage' = [stage EXCEPT ![k] = "ingest"]
    /\ rows' = rows \cup {k}
    /\ UNCHANGED <<stored, learned, tests, failures, coverage>>

\* One line of ingest_events: append_event, and save_failure for a failed test.
Ingest(k) ==
    /\ stage[k] = "ingest" /\ k \in rows /\ stored[k] < Len(log[k])
    /\ LET line == log[k][stored[k] + 1]
       IN  failures' = IF line.kind = "FINISH" /\ line.what = "failed"
                       THEN Append(failures, [run |-> k, test |-> line.test]) ELSE failures
    /\ stored' = [stored EXCEPT ![k] = @ + 1]
    /\ UNCHANGED <<stage, log, learned, rows, tests, coverage>>

\* replace_coverage: the rows of the test go, the new ones follow the last row left.
Recovered(t, lines) ==
    LET kept == {id \in DOMAIN coverage : coverage[id].test # t}
        last == Max(kept \cup {0})
        new == Ascending(lines)
    IN  [id \in kept \cup (last + 1 .. last + Len(new)) |->
            IF id \in kept THEN coverage[id] ELSE [test |-> t, line |-> new[id - last]]]

\* upsert_test and replace_coverage, test by test.
Learn(k) ==
    /\ stage[k] = "ingest" /\ stored[k] = Len(log[k]) /\ learned[k] # Started(log[k])
    /\ LET t == Min(Started(log[k]) \ learned[k])
       IN  /\ tests' = [u \in DOMAIN tests \cup {t} |->
                            IF u = t THEN Outcome(log[k], t) ELSE tests[u]]
           /\ coverage' = Recovered(t, Covered(log[k], t))
           /\ learned' = [learned EXCEPT ![k] = @ \cup {t}]
    /\ UNCHANGED <<stage, log, stored, rows, failures>>

\* finish_run and prune, which takes the oldest runs; or the run's row is gone, its next
\* line cannot be stored and ingest_events gives up.
End(k) ==
    /\ stage[k] = "ingest"
    /\ \/ /\ stored[k] = Len(log[k]) /\ learned[k] = Started(log[k])
          /\ \E oldest \in 0..MaxRuns : rows' = {j \in rows : j > oldest}
       \/ k \notin rows /\ stored[k] < Len(log[k]) /\ UNCHANGED rows
    /\ stage' = [stage EXCEPT ![k] = "ended"]
    /\ UNCHANGED <<log, stored, learned, tests, failures, coverage>>

\* A verify answered from the cache: update_test_statuses repeats a run that passed.
CacheHit(k) ==
    /\ stage[k] = "ended" /\ k \in rows /\ Started(log[k]) # {}
    /\ \A t \in Started(log[k]) : Outcome(log[k], t) = "passed"
    /\ tests' = [t \in DOMAIN tests |-> IF t \in Started(log[k]) THEN "passed" ELSE tests[t]]
    /\ UNCHANGED <<stage, log, stored, learned, rows, failures, coverage>>

StoreNext == \E k \in Runs : Begin(k) \/ Ingest(k) \/ Learn(k) \/ End(k) \/ CacheHit(k)

-----------------------------------------------------------------------------
(* Pages.  A row is known by its key, and a cursor is the last key of the  *)
(* page before: a test's id, an event's place in its run, a rowid.         *)

Events(k) == IF k \in rows THEN SubSeq(log[k], 1, stored[k]) ELSE <<>>

\* Store::trace: the latest run that has an event of the test, 0 for none.
LatestRun(t) == Max({0} \cup {k \in rows : \E i \in DOMAIN Events(k) : Events(k)[i].test = t})

\* The run whose events a query reads, chosen again for every page.
RunRead(ask) == IF ask.query = "trace" THEN LatestRun(ask.of) ELSE ask.of

\* The rows a query finds, and those after a cursor, in order.
Found(ask) ==
    CASE ask.query = "tests" -> DOMAIN tests
      [] ask.query = "run" -> DOMAIN Events(ask.of)
      [] ask.query = "trace" ->
            {i \in DOMAIN Events(RunRead(ask)) : Events(RunRead(ask))[i].test = ask.of}
      [] ask.query = "coverage" ->
            {id \in DOMAIN coverage : ask.of \in {None, coverage[id].test}}
Keys(ask, cursor) == Ascending({key \in Found(ask) : key > cursor})

Item(ask, key) ==
    CASE ask.query = "tests" -> key
      [] ask.query \in {"run", "trace"} -> <<RunRead(ask), key>>
      [] ask.query = "coverage" -> coverage[key]

\* A row that holds a large value or a large name takes all of MaxBytes, unless a mask drops
\* what is large; any other row takes one unit.
LargeEvent(line) == line.test \in Wide \/ (line.kind = "LINE" /\ line.what \in Heavy)
Large(ask, key) ==
    CASE ask.query = "tests" -> key \in Wide
      [] ask.query = "coverage" -> coverage[key].test \in Wide
      [] OTHER -> LargeEvent(log[RunRead(ask)][key])
Size(ask, keys, mask) ==
    Len(keys) + (IF mask = "drops" THEN 0 ELSE MaxBytes - 1)
                * Cardinality({i \in DOMAIN keys : Large(ask, keys[i])})

\* How many rows fit: as many as the limit and, for events without a mask, max_bytes
\* allow, but at least one.
Fitting(ask, keys, limit) ==
    LET bounded == ask.query \in {"run", "trace"} /\ ask.mask = "none"
    IN  Cardinality({n \in 1..Len(keys) :
            /\ n <= limit
            /\ bounded /\ n > 1 => Size(ask, SubSeq(keys, 1, n), "none") <= MaxBytes})

\* Mutant of PageOf: a page that ends at max_bytes is taken for the last one.
PageOfLimitOnly(ask, cursor, limit) ==
    LET keys == Keys(ask, cursor)
        n == Fitting(ask, keys, limit)
    IN  [status |-> "ok", keys |-> SubSeq(keys, 1, n),
         next |-> IF n = limit /\ n < Len(keys) THEN keys[n] ELSE None]

\* events_matching, tests and coverage: a cursor when there is more.
PageOf(ask, cursor, limit) ==
    LET keys == Keys(ask, cursor)
        n == Fitting(ask, keys, limit)
    IN  [status |-> "ok", keys |-> SubSeq(keys, 1, n),
         next |-> IF n < Len(keys) THEN keys[n] ELSE None]

Truncated == [status |-> "partial", keys |-> <<>>, next |-> None]

\* Mutant of Response: the size is that of the values before the field mask.
ResponseUnmasked(ask, cursor, limit) ==
    LET page == PageOf(ask, cursor, limit)
    IN  IF Overhead + Size(ask, page.keys, "none") > MaxBytes THEN Truncated ELSE page

\* apply_field_mask, then enforce_response_limit: an envelope that is too large loses its
\* data and its page, cursor included.
Response(ask, cursor, limit) ==
    LET page == PageOf(ask, cursor, limit)
    IN  IF Overhead + Size(ask, page.keys, ask.mask) > MaxBytes THEN Truncated ELSE page

-----------------------------------------------------------------------------
(* A client that follows cursors, and asks for less when told to.          *)

AskFor(c, ask, limit) ==
    /\ reader[c].phase = "idle"
    /\ reader' = [reader EXCEPT ![c] = [NoReader EXCEPT !.phase = "reading", !.ask = ask,
                                        !.limit = limit, !.cursor = 0]]
    /\ UNCHANGED storeVars

\* What was there when a client began, to compare with what it gets.
Base(ask) ==
    [items |-> {Item(ask, key) : key \in Found(ask)}, learned |-> learned,
     run |-> RunRead(ask)]

ReadPage(c) ==
    /\ reader[c].phase = "reading"
    /\ LET R == reader[c]
           answer == Response(R.ask, R.cursor, R.limit)
           base == IF R.got = <<>> THEN Base(R.ask) ELSE R.base
       IN  reader' = [reader EXCEPT ![c] =
             IF answer.status = "partial"
             THEN IF R.limit > 1 THEN [R EXCEPT !.limit = @ - 1, !.base = base]
                  ELSE [R EXCEPT !.phase = "stuck", !.base = base]
             ELSE [R EXCEPT !.got = @ \o [i \in DOMAIN answer.keys |-> Item(R.ask, answer.keys[i])],
                            !.base = base,
                            !.cursor = answer.next,
                            !.phase = IF answer.next = None THEN "done" ELSE "reading"]]
    /\ UNCHANGED storeVars

ReaderNext ==
    \E c \in Readers :
        \/ ReadPage(c)
        \/ \E ask \in Asks, limit \in Limits : AskFor(c, ask, limit)

-----------------------------------------------------------------------------
(* Properties.                                                             *)

\* Types of the store's tables and of the runs that write them.
StoreTypeOK ==
    /\ stage \in [Runs -> {"none", "ingest", "ended"}]
    /\ log \in [Runs -> Logs \cup {<<>>}]
    /\ \A k \in Runs : stored[k] \in 0..Len(log[k]) /\ learned[k] \subseteq Started(log[k])
    /\ rows \subseteq Runs
    /\ DOMAIN tests \subseteq Tests /\ \A t \in DOMAIN tests : tests[t] \in StatusNames \cup {None}
    /\ failures \in Seq([run : Runs, test : Tests])
    /\ \A id \in DOMAIN coverage : id \in Nat \ {0} /\ coverage[id] \in [test : Tests, line : Lines]

\* A client that follows cursors to the end has got no item twice, and every item that was
\* there when it began: all tests, whatever runs store in between; a run's events, unless
\* the run was pruned; a test's latest trace, unless it became that of another run; coverage,
\* unless a run replaced some (tests, events_matching, coverage, trace).
ReadIsWhole ==
    \A c \in Readers : reader[c].phase = "done" =>
        LET R == reader[c]
            disturbed == CASE R.ask.query = "tests" -> FALSE
                           [] R.ask.query = "run" -> R.ask.of \notin rows
                           [] R.ask.query = "trace" -> RunRead(R.ask) # R.base.run
                           [] OTHER -> learned # R.base.learned
        IN  disturbed \/ (IsInjective(R.got) /\ R.base.items \subseteq ToSet(R.got))

\* A client whose response is too large and who then asks for fewer items gets on: it only
\* gets stuck at a row, the next one after its cursor, that alone is too large and of which
\* its mask drops nothing (enforce_response_limit, the byte bound of events_matching).
StuckOnlyOnLargeItems ==
    [][\A c \in Readers : reader[c].phase # "stuck" /\ reader'[c].phase = "stuck" =>
        LET ask == reader[c].ask
            ahead == Keys(ask, reader[c].cursor)
        IN  ask.mask # "drops" /\ ahead # <<>> /\ Large(ask, ahead[1])]_<<storeVars, reader>>
=============================================================================
