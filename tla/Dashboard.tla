------------------------------ MODULE Dashboard ------------------------------
(***************************************************************************)
(* The terminal dashboard of crates/walaru-cli/src/tui.rs, over the store  *)
(* of module Queries: the event loop, which blocks in its own requests,    *)
(* and the thread of the one long operation (verify or record), whose      *)
(* answer and list of tests come back through a channel.                   *)
(*                                                                         *)
(* Notices, the revision in the header, the layout and the events on the   *)
(* trace screen with their own cursor are left out; so is what an          *)
(* operation does, which is to start a run like any other client.          *)
(***************************************************************************)
EXTENDS Queries

CONSTANTS
    ListLimit,      \* --limit: the dashboard reads the first page only
    MaxKeys         \* bound: keys pressed

\* A limit is at least one (QueryOptions::bounded).
ASSUME DashboardAssumption == ListLimit \in Nat \ {0} /\ MaxKeys \in Nat

VARIABLES
    screen,         \* closed, tests, trace, quit
    list,           \* App::tests
    index,          \* App::test_index, counting from 1; 0 in an empty list
    detail,         \* App::failure_detail: the test whose failure is shown
    operation,      \* App::operation: "none", or how far its thread is
    sent,           \* the channel: nothing, or the list of tests
    keys            \* keys pressed

appVars == <<screen, list, index, detail, operation, sent, keys>>
vars == <<storeVars, reader, appVars>>

Init ==
    /\ QueriesInit
    /\ screen = "closed"
    /\ list = <<>> /\ index = 0
    /\ detail = None
    /\ operation = "none" /\ sent = <<>>
    /\ keys = 0

-----------------------------------------------------------------------------
(* What the daemon answers.                                                *)

LastFailure(t) ==
    LET i == SelectLastInSeq(failures, LAMBDA f : f.test = t /\ f.run \in rows)
    IN  IF i = 0 THEN None ELSE failures[i]
TestItem(t) == [id |-> t, status |-> tests[t], failure |-> LastFailure(t)]

TestsAsk == [query |-> "tests", of |-> None, mask |-> "none"]
TestsAnswer ==
    LET ids == Response(TestsAsk, 0, ListLimit).keys
    IN  [i \in DOMAIN ids |-> TestItem(ids[i])]

-----------------------------------------------------------------------------
(* App.                                                                    *)

FailureRank(status) == CASE status = "failed" -> 0 [] status = "passed" -> 1 [] OTHER -> 2

\* The sort of apply_tests; an answer is in the order of ids already.
ByRank(answer) ==
    LET Ranked(n) == Picked(answer, {i \in DOMAIN answer : FailureRank(answer[i].status) = n})
    IN  Ranked(0) \o Ranked(1) \o Ranked(2)

\* Mutant of ApplyTests: the cursor stays on its line.
ApplyTestsKeepsLine(answer) ==
    /\ list' = ByRank(answer)
    /\ index' = Min({Max({1, index}), Len(list')})

\* App::apply_tests: failures first, and the selected test stays selected if it is there.
ApplyTests(answer) ==
    /\ list' = ByRank(answer)
    /\ LET selected == IF index = 0 THEN None ELSE list[index].id
           at == {i \in DOMAIN list' : list'[i].id = selected}
       IN  index' = IF at # {} THEN Min(at) ELSE Min({1, Len(list')})

\* refresh_tests.  Nobody looks at the exit code: the answer of a request that went wrong
\* (a busy database, --at another revision) has no tests, and empties the list.
Refreshed(answers) == \E answer \in answers : ApplyTests(answer)

\* run: nothing is shown when the first refresh fails.
Open ==
    /\ screen = "closed"
    /\ Refreshed({TestsAnswer, <<>>})
    /\ screen' = "tests"
    /\ UNCHANGED <<storeVars, reader, detail, operation, sent, keys>>

Visible == screen \in {"tests", "trace"}

\* The timed refresh, not during an operation; the same with key r, at any time.
AutoRefresh ==
    /\ Visible /\ operation = "none"
    /\ UNCHANGED <<storeVars, reader, screen, detail, operation, sent, keys>>
    /\ Refreshed({TestsAnswer})

AutoRefreshEmpties ==
    /\ Visible /\ operation = "none"
    /\ UNCHANGED <<storeVars, reader, screen, detail, operation, sent, keys>>
    /\ Refreshed({<<>>})

Press == Visible /\ keys < MaxKeys /\ keys' = keys + 1

KeyRefresh ==
    /\ Press
    /\ Refreshed({TestsAnswer, <<>>})
    /\ UNCHANGED <<storeVars, reader, screen, detail, operation, sent>>

\* Mutant of KeyMove: the last line does not stop it.
KeyMoveUnbounded ==
    /\ Press
    /\ screen = "tests"
    /\ \E by \in {1, -1} : index' = Max({Min({1, Len(list)}), index + by})
    /\ UNCHANGED <<storeVars, reader, screen, list, detail, operation, sent>>

\* move_down and move_up
KeyMove ==
    /\ Press
    /\ screen = "tests"
    /\ \E by \in {1, -1} :
        index' = Min({Max({Min({1, Len(list)}), index + by}), Len(list)})
    /\ UNCHANGED <<storeVars, reader, screen, list, detail, operation, sent>>

\* Esc: back to the tests, or the failure goes.
KeyEsc ==
    /\ Press
    /\ screen' = "tests"
    /\ detail' = IF screen = "tests" THEN None ELSE detail
    /\ UNCHANGED <<storeVars, reader, list, index, operation, sent>>

KeyQuit ==
    /\ Press
    /\ screen' = "quit"
    /\ UNCHANGED <<storeVars, reader, list, index, detail, operation, sent>>

\* open_selected: the failure, when the list knows one, then the trace.  The failure may
\* have been pruned or too large for the answer; when a request fails, what it would have
\* replaced stays.
KeyOpen ==
    /\ Press
    /\ screen = "tests" /\ index # 0
    /\ LET known == list[index].failure
       IN  \/ known = None /\ detail' = None
           \/ known # None /\ known.run \in rows /\ detail' = known.test
           \/ known # None /\ detail' \in {None, detail}
    /\ screen' \in {"trace", screen}
    /\ UNCHANGED <<storeVars, reader, list, index, operation, sent>>

\* start_operation: one at a time.  A recording also needs a selected test; a
\* verification, otherwise the same here, does not.
KeyStart ==
    /\ Press
    /\ operation = "none"
    /\ operation' = "running"
    /\ UNCHANGED <<storeVars, reader, screen, list, index, detail, sent>>

\* Its thread: the operation's answer, then the list of tests, then the channel.
OperationEnds ==
    /\ operation = "running"
    /\ operation' = "listing"
    /\ UNCHANGED <<storeVars, reader, screen, list, index, detail, sent, keys>>

OperationLists ==
    /\ operation = "listing"
    /\ operation' = "sent"
    /\ UNCHANGED <<storeVars, reader, screen, list, index, detail, keys>>
    /\ \E answer \in {TestsAnswer, <<>>} : sent' = <<answer>>

\* One of the two requests failed: only an error is sent.
OperationFails ==
    /\ operation \in {"running", "listing"}
    /\ operation' = "failed"
    /\ UNCHANGED <<storeVars, reader, screen, list, index, detail, sent, keys>>

\* Mutant of Receive: an operation that failed is never over.
ReceiveSuccess ==
    /\ Visible
    /\ operation = "sent"
    /\ ApplyTests(sent[1])
    /\ operation' = "none" /\ sent' = <<>>
    /\ UNCHANGED <<storeVars, reader, screen, detail, keys>>

\* receive_operation, at the top of the event loop.
Receive ==
    /\ Visible
    /\ \/ /\ operation = "sent"
          /\ ApplyTests(sent[1])
       \/ operation = "failed" /\ UNCHANGED <<list, index>>
    /\ operation' = "none" /\ sent' = <<>>
    /\ UNCHANGED <<storeVars, reader, screen, detail, keys>>

LoopNext == AutoRefresh \/ Receive
KeyNext ==
    KeyRefresh \/ KeyMove \/ KeyEsc \/ KeyQuit \/ KeyOpen \/ KeyStart
ThreadNext == Visible /\ (OperationEnds \/ OperationLists \/ OperationFails)

\* Clients meet only in the store, and none of the steps below writes to it: one client
\* per behaviour, the dashboard or one of the readers, sees all that any of them can see.
Next ==
    \/ StoreNext /\ UNCHANGED <<reader, appVars>>
    \/ screen = "closed" /\ ReaderNext /\ UNCHANGED appVars
    \/ (\A c \in Readers : reader[c] = NoReader) /\
        (Open \/ AutoRefreshEmpties \/ LoopNext \/ KeyNext \/ ThreadNext)

\* The loop goes round, requests are answered again and again and threads are scheduled.  At
\* any time at most one of these steps is possible: a refresh while there is no operation,
\* the thread's next step, or the receipt of what it sent.
Spec == Init /\ [][Next]_vars /\ WF_vars(LoopNext \/ ThreadNext)

-----------------------------------------------------------------------------
(* Properties.                                                             *)

\* Types; and no cursor of the dashboard is ever outside the list it points into.
TypeOK ==
    /\ StoreTypeOK
    /\ \A c \in Readers : reader[c].phase \in {"idle", "reading", "done", "stuck"}
    /\ screen \in {"closed", "tests", "trace", "quit"}
    /\ \A i \in DOMAIN list : list[i].id \in Tests /\ list[i].status \in StatusNames \cup {None}
    /\ index \in Min({1, Len(list)}) .. Len(list)
    /\ detail \in Tests \cup {None}
    /\ operation \in {"none", "running", "listing", "sent", "failed"}
    /\ operation = "sent" <=> sent # <<>>
    /\ keys \in 0..MaxKeys

\* A list that arrives by itself, from the timer or from an operation's thread, does not
\* move the selection to another test while the selected one is still listed, however the
\* statuses reorder the list: what is recorded or opened next is what the user sees
\* selected (App::apply_tests).
SelectionStays ==
    [][index # 0 /\ list' # list =>
        LET selected == list[index].id
        IN  (\E i \in DOMAIN list' : list'[i].id = selected) => list'[index'].id = selected]_vars

\* While the dashboard stays open, it comes back to what the store has, even though an
\* operation's older list may replace a newer one and an error empties it (event_loop).
ListCatchesUp ==
    <>[]Visible => []<>(ToSet(list) = ToSet(TestsAnswer))
=============================================================================
