--------------------------- MODULE ReplaySchedule ---------------------------
(***************************************************************************)
(* Replay of a multi-threaded recording inside the fresh JVM               *)
(* (jvm-agent: ReplayScheduler, InputTape and AgentBridge.emitForTest; the *)
(* schedule and the tape are written by write_replay_schedule and          *)
(* write_replay_inputs of crates/walaru-daemon/src/verifier.rs).           *)
(*                                                                         *)
(* Every event a thread emits passes ReplayScheduler.before, which waits   *)
(* until the schedule expects that thread, and after, which moves the      *)
(* schedule on.  An input is served from the tape inside InputTape's       *)
(* monitor, and its INPUT event is emitted while the monitor is held.      *)
(* Recording goes through the same monitor, so the tape has its entries in *)
(* the order of the INPUT events of the schedule.                          *)
(***************************************************************************)
EXTENDS Naturals, Sequences, FiniteSets

CONSTANTS
    Threads,     \* threads, standing for their unique keys
    NoThread,    \* nobody holds the tape's monitor
    Programs,    \* for each thread, the categories of the events it emitted
    Kind,        \* for each thread, the kind of input it asks for
    Diverging    \* the threads whose fresh execution may differ from the recorded one

\* Event categories that differ in how they are replayed: any but an input are alike.
Emitted == {"CALL", "INPUT", "LINE"}

ASSUME ReplayAssumption ==
    /\ IsFiniteSet(Threads)
    /\ Programs \in [Threads -> Seq(Emitted)]
    /\ NoThread \notin Threads
    /\ Diverging \subseteq Threads
    /\ \A t \in Threads : Len(Programs[t]) > 0

VARIABLES
    schedule,    \* ReplayScheduler.expected
    cursor,      \* ReplayScheduler.cursor: entries passed
    writing,     \* ReplayScheduler.writing
    taken,       \* InputTape.cursor: entries consumed
    monitor,     \* the thread inside InputTape.next
    pc,          \* where each thread is
    step,        \* number of events of its program each thread has emitted
    category,    \* the category of the event each thread is about to emit
    entry,       \* the thread whose recorded input each thread was last given
    written      \* the events of the fresh execution

vars == <<schedule, cursor, writing, taken, monitor, pc, step, category, entry, written>>

-----------------------------------------------------------------------------
Categories == Emitted \cup {"none"}

Events == [thread : Threads, category : Emitted]

\* What a recording can hold: every interleaving of the threads' programs.
Recorded(s) ==
    \A t \in Threads :
        LET Mine(e) == e.thread = t
        IN  SelectSeq(s, Mine) =
                [i \in DOMAIN Programs[t] |-> [thread |-> t, category |-> Programs[t][i]]]

\* The positions of the INPUT events among the first i of the schedule.
InputsUpTo(i) == {j \in DOMAIN schedule : j <= i /\ schedule[j].category = "INPUT"}

\* The tape has one entry for each, in their order.
TapeLength == Cardinality(InputsUpTo(Len(schedule)))

\* The position of the INPUT event of the tape's nth entry.
TapePosition(n) ==
    CHOOSE i \in InputsUpTo(Len(schedule)) : Cardinality(InputsUpTo(i)) = n

\* The thread that was given the nth entry of the tape when it was recorded.
TapeOwner(n) == schedule[TapePosition(n)].thread

TypeOK ==
    /\ schedule \in Seq(Events)
    /\ cursor \in 0..Len(schedule)
    /\ writing \in BOOLEAN
    /\ taken \in 0..TapeLength
    /\ monitor \in Threads \cup {NoThread}
    /\ pc \in [Threads -> {"run", "wait", "write", "done", "failed"}]
    /\ step \in [Threads -> Nat]
    /\ category \in [Threads -> Categories]
    /\ entry \in [Threads -> Threads \cup {NoThread}]
    /\ written \in Seq(Events)

\* The fresh JVM runs `recorded`.
Start(recorded) ==
    /\ schedule = recorded
    /\ cursor = 0
    /\ writing = FALSE
    /\ taken = 0
    /\ monitor = NoThread
    /\ pc = [t \in Threads |-> "run"]
    /\ step = [t \in Threads |-> 0]
    /\ category = [t \in Threads |-> "none"]
    /\ entry = [t \in Threads |-> NoThread]
    /\ written = <<>>

\* `length` is the number of recorded events.
Init ==
    \E length \in {Cardinality(UNION {{t} \X DOMAIN Programs[t] : t \in Threads})} :
        \E recorded \in [1..length -> Events] :
            Recorded(recorded) /\ Start(recorded)

-----------------------------------------------------------------------------
\* The event a thread emits next: as recorded, or anything if it diverges.
Emits(t, c) == IF t \in Diverging THEN TRUE ELSE c = Programs[t][step[t] + 1]

\* What a thread does after its event: it ends with its recorded program, or
\* at any time if it diverges.
Continues(t, next) ==
    t \notin Diverging => (next = "done" <=> step[t] + 1 = Len(Programs[t]))

\* An exception leaves the agent in thread t, and with it the tape's monitor.
Fail(t) ==
    /\ pc' = [pc EXCEPT ![t] = "failed"]
    /\ category' = [category EXCEPT ![t] = "none"]
    /\ monitor' = IF monitor = t THEN NoThread ELSE monitor

\* A thread reaches an event other than an input.
Reach(t, c) ==
    /\ pc[t] = "run"
    /\ c \in {"CALL", "LINE"}
    /\ Emits(t, c)
    /\ category' = [category EXCEPT ![t] = c]
    /\ pc' = [pc EXCEPT ![t] = "wait"]
    /\ UNCHANGED <<schedule, cursor, writing, taken, monitor, step, entry, written>>

\* Mutant of MayEnter: the tape's methods are not synchronized.
MayAlwaysEnter == TRUE

\* synchronized InputTape.next
MayEnter == monitor = NoThread

\* InputTape.next in replay mode: the next entry is consumed, checked for its
\* kind, and its INPUT event is emitted inside the monitor.
EnterTape(t) ==
    /\ pc[t] = "run"
    /\ Emits(t, "INPUT")
    /\ MayEnter
    /\ IF taken < TapeLength
       THEN /\ taken' = taken + 1
            /\ IF Kind[TapeOwner(taken + 1)] = Kind[t]
               THEN /\ monitor' = t
                    /\ entry' = [entry EXCEPT ![t] = TapeOwner(taken + 1)]
                    /\ category' = [category EXCEPT ![t] = "INPUT"]
                    /\ pc' = [pc EXCEPT ![t] = "wait"]
               ELSE Fail(t) /\ UNCHANGED entry
       ELSE Fail(t) /\ UNCHANGED <<taken, entry>>
    /\ UNCHANGED <<schedule, cursor, writing, step, written>>

\* Mutant of Matches: the category is not compared.
MatchesAny(t) == TRUE

\* entry.category.equals(category)
Matches(t) == schedule[cursor + 1].category = category[t]

\* ReplayScheduler.before lets the expected thread pass, or fails it.
Before(t) ==
    /\ pc[t] = "wait"
    /\ cursor < Len(schedule)
    /\ ~writing
    /\ schedule[cursor + 1].thread = t
    /\ IF Matches(t)
       THEN /\ writing' = TRUE
            /\ pc' = [pc EXCEPT ![t] = "write"]
            /\ UNCHANGED <<monitor, category>>
       ELSE Fail(t) /\ UNCHANGED writing
    /\ UNCHANGED <<schedule, cursor, taken, step, entry, written>>

\* "fresh execution exceeded replay schedule"
Exceeded(t) ==
    /\ pc[t] = "wait"
    /\ cursor >= Len(schedule)
    /\ Fail(t)
    /\ UNCHANGED <<schedule, cursor, writing, taken, step, entry, written>>

\* The thread the schedule expects cannot come: it has ended, or it wants an
\* input while another thread waits for its turn inside the tape's monitor.
Unreachable(u) ==
    \/ pc[u] \in {"done", "failed"}
    \/ pc[u] = "run" /\ monitor # NoThread /\ Emits(u, "INPUT")

\* Mutant of Timeout: the wait has no limit.
TimeoutNever(t) == FALSE /\ UNCHANGED vars

\* "replay schedule timed out waiting for ...": ten seconds are enough for
\* every thread that can move, so only a wait that cannot end times out.
Timeout(t) ==
    /\ pc[t] = "wait"
    /\ cursor < Len(schedule)
    /\ Unreachable(schedule[cursor + 1].thread)
    /\ Fail(t)
    /\ UNCHANGED <<schedule, cursor, writing, taken, step, entry, written>>

\* Mutant of Advanced: an event is counted twice.
AdvancedTwice == cursor + 2

\* cursor++ of ReplayScheduler.after
Advanced == cursor + 1

\* writer.write(fields), then ReplayScheduler.after, and for an input the
\* monitor is left.
WriteAndAfter(t) ==
    /\ pc[t] = "write"
    /\ written' = Append(written, [thread |-> t, category |-> category[t]])
    /\ cursor' = Advanced
    /\ writing' = FALSE
    /\ monitor' = IF monitor = t THEN NoThread ELSE monitor
    /\ step' = [step EXCEPT ![t] = @ + 1]
    /\ category' = [category EXCEPT ![t] = "none"]
    /\ \E next \in {"run", "done"} :
            Continues(t, next) /\ pc' = [pc EXCEPT ![t] = next]
    /\ UNCHANGED <<schedule, taken, entry>>

ThreadStep(t) ==
    \/ \E c \in Categories : Reach(t, c)
    \/ EnterTape(t)
    \/ Before(t)
    \/ Exceeded(t)
    \/ Timeout(t)
    \/ WriteAndAfter(t)

Next == \E t \in Threads : ThreadStep(t)

\* Every thread of the JVM is scheduled.
Spec == Init /\ [][Next]_vars /\ \A t \in Threads : WF_vars(ThreadStep(t))

-----------------------------------------------------------------------------
(* Properties.                                                             *)

\* Whatever the threads do, the events written are the recorded ones in the
\* recorded order: a divergence ends in an exception, never in another trace.
EventsFollowSchedule ==
    \A i \in DOMAIN written : written[i] = schedule[i]

\* As long as no thread was failed, every input that was handed out is the one
\* its thread was given when it was recorded.
InputsAreOwn ==
    (\A t \in Threads : pc[t] # "failed") =>
        \A t \in Threads : pc[t] \in {"run", "done"} /\ entry[t] # NoThread => entry[t] = t

\* No thread waits for ever, whatever the others do.
EveryThreadEnds == \A t \in Threads : <>(pc[t] \in {"done", "failed"})

\* "Cooperative event-boundary scheduler for deterministic multi-thread
\* replay": threads that do again what was recorded are not failed.
ReplaySucceeds == \A t \in Threads : pc[t] # "failed"
=============================================================================
