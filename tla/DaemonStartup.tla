---------------------------- MODULE DaemonStartup ----------------------------
(***************************************************************************)
(* How clients find, start and stop the daemon of a worktree               *)
(* (ensure_daemon, start_daemon and StartupLock of                         *)
(* crates/walaru-cli/src/main.rs; DaemonServer::serve, bind_local_endpoint *)
(* and SocketGuard of crates/walaru-daemon/src/server.rs).                 *)
(*                                                                         *)
(* Clients and daemons are processes that share three things: the socket   *)
(* path, the metadata file, and the startup lock.  A step is one operation *)
(* on one of them; time limits may pass at any moment.  A daemon may be    *)
(* killed anywhere and leaves its files; a client may be killed while it   *)
(* waits or starts a daemon: the operating system then releases its lock,  *)
(* and the daemon it spawned goes on.  The endpoint is a Unix socket.      *)
(***************************************************************************)
EXTENDS Naturals, FiniteSets

CONSTANTS
    Clients,        \* the clients' processes, one command each
    Daemons,        \* the daemons that may be spawned
    None            \* no process

ASSUME StartupAssumption ==
    /\ None \notin Clients \cup Daemons
    /\ Clients \cap Daemons = {}

VARIABLES
    socket,     \* the daemon whose listener the path leads to, or None
    metadata,   \* whether daemon_metadata exists
    lock,       \* who holds daemon.starting.lock
    client,     \* where each client is
    seen,       \* how many files the client, within daemon_ready, has found
    child,      \* the daemon a client spawned
    peer,       \* the daemon a client is connected to
    daemon,     \* where each daemon is
    overlap     \* history: two daemons have been starting at once

vars == <<socket, metadata, lock, client, seen, child, peer, daemon, overlap>>

\* Where a client is; it ends "stopped" when it saw the end of the daemon it stopped.
ClientPC == {"idle", "wait", "locked", "spawn", "starting", "request", "sent", "accepted",
             "shutdown", "gone", "done", "stopped", "failed"}
\* Where a daemon is, from its spawn through bind_local_endpoint and serve, which is
\* "closing" once it has dropped its handle of the store, to the end of the process.
DaemonPC == {"unborn", "check", "probe", "replace", "stale", "unlink", "bind", "open",
             "serving", "draining", "closing", "unlinked", "exiting", "dead"}

TypeOK ==
    /\ socket \in Daemons \cup {None}
    /\ metadata \in BOOLEAN
    /\ lock \in Clients \cup {None}
    /\ lock # None => client[lock] \in {"locked", "spawn", "starting"}
    /\ client \in [Clients -> ClientPC]
    /\ seen \in [Clients -> 0..2]
    /\ child \in [Clients -> Daemons \cup {None}]
    /\ peer \in [Clients -> Daemons \cup {None}]
    /\ daemon \in [Daemons -> DaemonPC]
    /\ overlap \in BOOLEAN

\* A worktree without a daemon, perhaps with the files of one that was killed.
Init ==
    /\ socket \in Daemons \cup {None}
    /\ metadata \in BOOLEAN
    /\ daemon = [d \in Daemons |-> IF d = socket THEN "dead" ELSE "unborn"]
    /\ lock = None
    /\ client = [c \in Clients |-> "idle"]
    /\ seen = [c \in Clients |-> 0]
    /\ child = [c \in Clients |-> None]
    /\ peer = [c \in Clients |-> None]
    /\ overlap = FALSE

\* Where a daemon is before it has bound the path.
Starting == {"check", "probe", "replace", "stale", "unlink", "bind"}

\* The listener is open from bind to the end of serve.
Listening(d) == daemon[d] \in {"open", "serving", "draining", "closing", "unlinked"}

\* daemon_is_running: a connection reaches a listener.
Reachable == socket # None /\ Listening(socket)

ClientTo(c, to) == client' = [client EXCEPT ![c] = to]
DaemonTo(d, to) == daemon' = [daemon EXCEPT ![d] = to]

\* StartupLock::drop, or the end of the client's process.
Release(c) == lock' = IF lock = c THEN None ELSE lock

-----------------------------------------------------------------------------
(* The client.                                                             *)

Asking(c) == client[c] \in {"idle", "wait", "locked", "starting"}

\* daemon_ready looks for the socket, then for the metadata, then connects.
SeeFile(c) ==
    /\ Asking(c)
    /\ \/ seen[c] = 0 /\ socket # None
       \/ seen[c] = 1 /\ metadata
    /\ seen' = [seen EXCEPT ![c] = @ + 1]
    /\ UNCHANGED <<socket, metadata, lock, client, child, peer, daemon, overlap>>

\* It fails at the first of the three that fails.
NotReady(c) ==
    \/ seen[c] = 0 /\ socket = None
    \/ seen[c] = 1 /\ ~metadata
    \/ seen[c] = 2 /\ ~Reachable

\* Mutant of FindReady: the lock is not dropped.
FindReadyLocked(c) ==
    /\ Asking(c)
    /\ seen[c] = 2 /\ Reachable
    /\ seen' = [seen EXCEPT ![c] = 0]
    /\ ClientTo(c, "request")
    /\ UNCHANGED <<socket, metadata, lock, child, peer, daemon, overlap>>

\* ensure_daemon, start_daemon: a daemon is found at once, after waiting, under
\* the lock, or after spawning one.
FindReady(c) ==
    /\ Asking(c)
    /\ seen[c] = 2 /\ Reachable
    /\ seen' = [seen EXCEPT ![c] = 0]
    /\ ClientTo(c, "request")
    /\ Release(c)
    /\ UNCHANGED <<socket, metadata, child, peer, daemon, overlap>>

\* It is not: wait for the lock, or go on waiting; under the lock, go on to spawn.
\* "Rechecking here prevents a delayed client from starting a second daemon."
FindNotReady(c) ==
    /\ Asking(c)
    /\ NotReady(c)
    /\ seen' = [seen EXCEPT ![c] = 0]
    /\ ClientTo(c, CASE client[c] = "idle" -> "wait"
                     [] client[c] = "locked" -> "spawn"
                     [] OTHER -> client[c])
    /\ UNCHANGED <<socket, metadata, lock, child, peer, daemon, overlap>>

\* Mutant of TryLock: the lock is not exclusive.
TryLockShared(c) ==
    /\ client[c] = "wait" /\ seen[c] = 0
    /\ lock' = c
    /\ ClientTo(c, "locked")
    /\ UNCHANGED <<socket, metadata, seen, child, peer, daemon, overlap>>

\* StartupLock::try_acquire
TryLock(c) ==
    /\ client[c] = "wait" /\ seen[c] = 0
    /\ lock = None
    /\ lock' = c
    /\ ClientTo(c, "locked")
    /\ UNCHANGED <<socket, metadata, seen, child, peer, daemon, overlap>>

\* start_daemon
Spawn(c, d) ==
    /\ client[c] = "spawn"
    /\ daemon[d] = "unborn"
    /\ child' = [child EXCEPT ![c] = d]
    /\ DaemonTo(d, "check")
    /\ ClientTo(c, "starting")
    /\ overlap' = (overlap \/ \E e \in Daemons : daemon[e] \in Starting)
    /\ UNCHANGED <<socket, metadata, lock, seen, peer>>

\* Three seconds passed: a child that has not exited is killed.
StartDeadline(c) ==
    /\ client[c] = "starting" /\ seen[c] = 0
    /\ DaemonTo(child[c], "dead")
    /\ ClientTo(c, "failed")
    /\ Release(c)
    /\ UNCHANGED <<socket, metadata, seen, child, peer, overlap>>

\* "timed out waiting for another client to start the daemon"
WaitDeadline(c) ==
    /\ client[c] = "wait"
    /\ NotReady(c)
    /\ ClientTo(c, "failed")
    /\ UNCHANGED <<socket, metadata, lock, seen, child, peer, daemon, overlap>>

\* send_request: the connection waits in the listener's backlog.
Connect(c) ==
    /\ client[c] = "request"
    /\ IF Reachable
       THEN ClientTo(c, "sent") /\ peer' = [peer EXCEPT ![c] = socket]
       ELSE ClientTo(c, "failed") /\ UNCHANGED peer
    /\ UNCHANGED <<socket, metadata, lock, seen, child, daemon, overlap>>

\* serve hands the connection to a thread of its own ...
Accept(c) ==
    /\ client[c] = "sent"
    /\ daemon[peer[c]] = "serving"
    /\ ClientTo(c, "accepted")
    /\ UNCHANGED <<socket, metadata, lock, seen, child, peer, daemon, overlap>>

\* ... which answers, also after the accept loop ended and, detached, until the end
\* of the process; a stop ends the loop.
Answered(c, isStop) ==
    /\ client[c] = "accepted"
    /\ daemon[peer[c]] # "dead"
    /\ ClientTo(c, IF isStop THEN "shutdown" ELSE "done")
    /\ IF isStop /\ daemon[peer[c]] = "serving"
       THEN DaemonTo(peer[c], "draining")
       ELSE UNCHANGED daemon
    /\ UNCHANGED <<socket, metadata, lock, seen, child, peer, overlap>>

\* The daemon ended or closed the listener without an answer, or drops the connection
\* because MAX_CONNECTION_WORKERS threads are busy.
Reset(c) ==
    /\ client[c] \in {"sent", "accepted"}
    /\ \/ daemon[peer[c]] = "dead"
       \/ client[c] = "sent" /\ daemon[peer[c]] \in {"serving", "exiting"}
    /\ ClientTo(c, "failed")
    /\ UNCHANGED <<socket, metadata, lock, seen, child, peer, daemon, overlap>>

\* wait_for_daemon_shutdown: the socket is gone ...
SocketGone(c) ==
    /\ client[c] = "shutdown"
    /\ socket = None
    /\ ClientTo(c, "gone")
    /\ UNCHANGED <<socket, metadata, lock, seen, child, peer, daemon, overlap>>

\* Mutant of MetadataGone: the acknowledgement is taken for the end.
AcknowledgementSeen(c) ==
    /\ client[c] \in {"shutdown", "gone"}
    /\ ClientTo(c, "stopped")
    /\ UNCHANGED <<socket, metadata, lock, seen, child, peer, daemon, overlap>>

\* ... and then the metadata, or it looks again.
MetadataGone(c) ==
    /\ client[c] = "gone"
    /\ ClientTo(c, IF metadata THEN "shutdown" ELSE "stopped")
    /\ UNCHANGED <<socket, metadata, lock, seen, child, peer, daemon, overlap>>

ShutdownDeadline(c) ==
    /\ client[c] = "shutdown"
    /\ ClientTo(c, "failed")
    /\ UNCHANGED <<socket, metadata, lock, seen, child, peer, daemon, overlap>>

\* A client is killed while it holds or wants the lock; its child lives on.
KillClient(c) ==
    /\ client[c] \in {"wait", "locked", "spawn", "starting"}
    /\ ClientTo(c, "failed")
    /\ Release(c)
    /\ UNCHANGED <<socket, metadata, seen, child, peer, daemon, overlap>>

-----------------------------------------------------------------------------
(* The daemon: bind_local_endpoint, serve, SocketGuard.                    *)

\* if layout.socket.exists()
CheckSocket(d) ==
    /\ daemon[d] = "check"
    /\ DaemonTo(d, IF socket = None THEN "stale" ELSE "probe")
    /\ UNCHANGED <<socket, metadata, lock, client, seen, child, peer, overlap>>

\* Mutant of Probe: whatever is there is taken for stale.
ProbeSkipped(d) ==
    /\ daemon[d] = "probe"
    /\ DaemonTo(d, "replace")
    /\ UNCHANGED <<socket, metadata, lock, client, seen, child, peer, overlap>>

\* AlreadyRunning when the path leads to a listener.
Probe(d) ==
    /\ daemon[d] = "probe"
    /\ DaemonTo(d, IF Reachable THEN "dead" ELSE "replace")
    /\ UNCHANGED <<socket, metadata, lock, client, seen, child, peer, overlap>>

\* fs::remove_file(&layout.socket)?
ReplaceSocket(d) ==
    /\ daemon[d] = "replace"
    /\ DaemonTo(d, IF socket = None THEN "dead" ELSE "stale")
    /\ socket' = None
    /\ UNCHANGED <<metadata, lock, client, seen, child, peer, overlap>>

\* if layout.daemon_metadata.exists()
CheckMetadata(d) ==
    /\ daemon[d] = "stale"
    /\ DaemonTo(d, IF metadata THEN "unlink" ELSE "bind")
    /\ UNCHANGED <<socket, metadata, lock, client, seen, child, peer, overlap>>

\* fs::remove_file(&layout.daemon_metadata)?
RemoveMetadata(d) ==
    /\ daemon[d] = "unlink"
    /\ DaemonTo(d, IF metadata THEN "bind" ELSE "dead")
    /\ metadata' = FALSE
    /\ UNCHANGED <<socket, lock, client, seen, child, peer, overlap>>

\* UnixListener::bind fails when the path is taken.
Bind(d) ==
    /\ daemon[d] = "bind"
    /\ IF socket = None
       THEN socket' = d /\ DaemonTo(d, "open")
       ELSE DaemonTo(d, "dead") /\ UNCHANGED socket
    /\ UNCHANGED <<metadata, lock, client, seen, child, peer, overlap>>

\* Daemon::open opens the store, then the metadata is written.
OpenAndServe(d) ==
    /\ daemon[d] = "open"
    /\ metadata' = TRUE
    /\ DaemonTo(d, "serving")
    /\ UNCHANGED <<socket, lock, client, seen, child, peer, overlap>>

\* Daemon::open, the write or a later accept fails: serve returns at once.
ServeFails(d) ==
    /\ daemon[d] \in {"open", "serving"}
    /\ DaemonTo(d, "closing")
    /\ UNCHANGED <<socket, metadata, lock, client, seen, child, peer, overlap>>

\* The workers have ended or two seconds have passed: those left are detached, and keep
\* the store until the process ends.
Drained(d) ==
    /\ daemon[d] = "draining"
    /\ DaemonTo(d, "closing")
    /\ UNCHANGED <<socket, metadata, lock, client, seen, child, peer, overlap>>

\* SocketGuard::drop: the socket first ...
UnlinkSocket(d) ==
    /\ daemon[d] = "closing"
    /\ socket' = None
    /\ DaemonTo(d, "unlinked")
    /\ UNCHANGED <<metadata, lock, client, seen, child, peer, overlap>>

\* ... then the metadata, whoever wrote it; then the listener is closed.
UnlinkMetadata(d) ==
    /\ daemon[d] = "unlinked"
    /\ metadata' = FALSE
    /\ DaemonTo(d, "exiting")
    /\ UNCHANGED <<socket, lock, client, seen, child, peer, overlap>>

\* main returns, and detached workers end with the process.
Exit(d) ==
    /\ daemon[d] = "exiting"
    /\ DaemonTo(d, "dead")
    /\ UNCHANGED <<socket, metadata, lock, client, seen, child, peer, overlap>>

Crash(d) ==
    /\ daemon[d] \notin {"unborn", "dead"}
    /\ DaemonTo(d, "dead")
    /\ UNCHANGED <<socket, metadata, lock, client, seen, child, peer, overlap>>

ClientStep(c) ==
    \/ SeeFile(c) \/ FindReady(c) \/ FindNotReady(c) \/ TryLock(c)
    \/ \E d \in Daemons : Spawn(c, d)
    \/ StartDeadline(c) \/ WaitDeadline(c) \/ Connect(c) \/ Accept(c)
    \/ \E isStop \in BOOLEAN : Answered(c, isStop)
    \/ Reset(c) \/ SocketGone(c) \/ MetadataGone(c) \/ ShutdownDeadline(c)
    \/ KillClient(c)

DaemonStep(d) ==
    \/ CheckSocket(d) \/ Probe(d) \/ ReplaceSocket(d) \/ CheckMetadata(d) \/ RemoveMetadata(d)
    \/ Bind(d) \/ OpenAndServe(d) \/ Drained(d) \/ UnlinkSocket(d)
    \/ UnlinkMetadata(d) \/ Exit(d)

Next ==
    \/ \E c \in Clients : ClientStep(c)
    \/ \E d \in Daemons : DaemonStep(d) \/ ServeFails(d) \/ Crash(d)

Spec == Init /\ [][Next]_vars

-----------------------------------------------------------------------------
(* Properties.                                                             *)

\* "One worktree owns one daemon and SQLite WAL store": no two daemons have bound the
\* endpoint and not yet begun to clean up, however clients, stops and crashes interleave.
\* As documented it is without exception ...
OneDaemon ==
    Cardinality({d \in Daemons : daemon[d] \in {"open", "serving", "draining", "closing"}}) <= 1

\* ... and as it is, it holds as long as no two daemons start at once: the probe, the
\* removal and the bind of bind_local_endpoint are separate steps and rely on it.
OneDaemonUntilOverlap == ~overlap => OneDaemon

\* No two clients are between the recheck of ensure_daemon and the end of start_daemon,
\* so of daemons that start at once all but one have lost their client: it was killed, or
\* returned because another daemon was ready (StartupLock).
OneStarter ==
    \A c, e \in Clients :
        {client[c], client[e]} \subseteq {"locked", "spawn", "starting"} => c = e

\* The path leads to the daemon that serves: no start, stop or clean-up of another
\* process takes it away before two daemons start at once.
EndpointIsOwn == ~overlap => \A d \in Daemons : daemon[d] \in {"open", "serving"} => socket = d

\* `walaru stop` succeeds only once the daemon it stopped accepts nothing more, before
\* two daemons start at once (wait_for_daemon_shutdown).
StopIsReal ==
    ~overlap => \A c \in Clients :
        client[c] = "stopped" => daemon[peer[c]] \in {"unlinked", "exiting", "dead"}

\* A daemon has the store from Daemon::open on; afterwards, workers it detached have it.
HasStore(d) ==
    \/ daemon[d] \in {"serving", "draining"}
    \/ /\ daemon[d] \in {"closing", "unlinked", "exiting"}
       /\ \E c \in Clients : client[c] = "accepted" /\ peer[c] = d

\* "One worktree owns one daemon and SQLite WAL store": even when no two daemons start at
\* once, no two of them have the store (serve, SocketGuard).
OneStore == ~overlap => Cardinality({d \in Daemons : HasStore(d)}) <= 1
=============================================================================
