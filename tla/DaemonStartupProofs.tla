------------------------ MODULE DaemonStartupProofs -------------------------
(***************************************************************************)
(* Theorems about DaemonStartup for every number of clients and daemons,   *)
(* and every behaviour of them: the startup lock excludes; and until two   *)
(* daemons have been starting at once, one daemon is bound, its endpoint   *)
(* is its own, and a stop that succeeded stopped the daemon.               *)
(***************************************************************************)
EXTENDS DaemonStartup, FiniteSetTheorems, TLAPS

\* TypeOK but for the history variable.
Shared ==
    /\ socket \in Daemons \cup {None}
    /\ metadata \in BOOLEAN
    /\ lock \in Clients \cup {None}
    /\ lock # None => client[lock] \in {"locked", "spawn", "starting"}
    /\ client \in [Clients -> ClientPC]
    /\ seen \in [Clients -> 0..2]
    /\ child \in [Clients -> Daemons \cup {None}]
    /\ peer \in [Clients -> Daemons \cup {None}]
    /\ daemon \in [Daemons -> DaemonPC]

\* A client is past the startup lock only while it holds it.
LockIsHeld ==
    \A c \in Clients : client[c] \in {"locked", "spawn", "starting"} => lock = c

\* Which daemon a client waits for.
Talking ==
    \A c \in Clients :
        /\ client[c] = "starting" => child[c] \in Daemons
        /\ client[c] \in {"sent", "accepted", "shutdown", "gone", "stopped"} => peer[c] \in Daemons

\* What holds whatever happens.
Basics == Shared /\ LockIsHeld /\ Talking

OneStarts == \A d, e \in Daemons : daemon[d] \in Starting /\ daemon[e] \in Starting => d = e

\* From bind to UnlinkSocket the path leads to the daemon.
Owns == {"open", "serving", "draining", "closing"}
OwnersHoldPath == \A d \in Daemons : daemon[d] \in Owns => socket = d

\* What a starting daemon found out about the path is still true.
PathIsFree ==
    \A d \in Daemons :
        /\ daemon[d] = "replace" => \A e \in Daemons : daemon[e] \notin Owns
        /\ daemon[d] \in {"stale", "unlink", "bind"} => socket = None

\* How far the daemon a client talks to has come.
Ended == {"unlinked", "exiting", "dead"}
PeerOf(c) ==
    /\ client[c] = "accepted" => daemon[peer[c]] \in {"serving", "draining", "closing"} \cup Ended
    /\ client[c] = "shutdown" => daemon[peer[c]] \in {"draining", "closing"} \cup Ended
    /\ client[c] \in {"gone", "stopped"} => daemon[peer[c]] \in Ended
Peers == \A c \in Clients : PeerOf(c)

\* What holds until two daemons start at once.
Calm == OneStarts /\ OwnersHoldPath /\ PathIsFree /\ Peers

IInv == Basics /\ overlap \in BOOLEAN /\ (~overlap => Calm)

\* A step that spawns a daemon finds no other one starting.
SpawnsAlone ==
    \A c \in Clients, d \in Daemons : Spawn(c, d) => \A e \in Daemons : daemon[e] \notin Starting

-----------------------------------------------------------------------------
\* Every step keeps the variables in their types, and the lock with a client that starts.
LEMMA TypeStep ==
    ASSUME Basics, [Next]_vars
    PROVE  Shared'
<1> USE StartupAssumption DEF Basics, Shared, Talking, ClientPC, DaemonPC
<1>1. ASSUME NEW c \in Clients, SeeFile(c)
      PROVE  Shared'
  BY <1>1 DEF SeeFile, Asking
<1>2. ASSUME NEW c \in Clients, FindReady(c)
      PROVE  Shared'
  BY <1>2 DEF FindReady, Asking, ClientTo, Release
<1>3. ASSUME NEW c \in Clients, FindNotReady(c)
      PROVE  Shared'
  BY <1>3 DEF FindNotReady, Asking, ClientTo
<1>4. ASSUME NEW c \in Clients, TryLock(c)
      PROVE  Shared'
  BY <1>4 DEF TryLock, ClientTo
<1>5. ASSUME NEW c \in Clients, NEW d \in Daemons, Spawn(c, d)
      PROVE  Shared'
  BY <1>5 DEF Spawn, ClientTo, DaemonTo
<1>6. ASSUME NEW c \in Clients, StartDeadline(c)
      PROVE  Shared'
  BY <1>6 DEF StartDeadline, ClientTo, DaemonTo, Release
<1>7. ASSUME NEW c \in Clients, WaitDeadline(c)
      PROVE  Shared'
  BY <1>7 DEF WaitDeadline, ClientTo
<1>8. ASSUME NEW c \in Clients, Connect(c)
      PROVE  Shared'
  BY <1>8 DEF Connect, ClientTo, Reachable
<1>9. ASSUME NEW c \in Clients, Accept(c)
      PROVE  Shared'
  BY <1>9 DEF Accept, ClientTo
<1>10. ASSUME NEW c \in Clients, NEW isStop \in BOOLEAN, Answered(c, isStop)
      PROVE  Shared'
  BY <1>10 DEF Answered, ClientTo, DaemonTo
<1>11. ASSUME NEW c \in Clients, Reset(c)
      PROVE  Shared'
  BY <1>11 DEF Reset, ClientTo
<1>12. ASSUME NEW c \in Clients, SocketGone(c)
      PROVE  Shared'
  BY <1>12 DEF SocketGone, ClientTo
<1>13. ASSUME NEW c \in Clients, MetadataGone(c)
      PROVE  Shared'
  BY <1>13 DEF MetadataGone, ClientTo
<1>14. ASSUME NEW c \in Clients, ShutdownDeadline(c)
      PROVE  Shared'
  BY <1>14 DEF ShutdownDeadline, ClientTo
<1>15. ASSUME NEW c \in Clients, KillClient(c)
      PROVE  Shared'
  BY <1>15 DEF KillClient, ClientTo, Release
<1>16. ASSUME NEW d \in Daemons, CheckSocket(d)
      PROVE  Shared'
  BY <1>16 DEF CheckSocket, DaemonTo
<1>17. ASSUME NEW d \in Daemons, Probe(d)
      PROVE  Shared'
  BY <1>17 DEF Probe, DaemonTo, Reachable, Listening
<1>18. ASSUME NEW d \in Daemons, ReplaceSocket(d)
      PROVE  Shared'
  BY <1>18 DEF ReplaceSocket, DaemonTo
<1>19. ASSUME NEW d \in Daemons, CheckMetadata(d)
      PROVE  Shared'
  BY <1>19 DEF CheckMetadata, DaemonTo
<1>20. ASSUME NEW d \in Daemons, RemoveMetadata(d)
      PROVE  Shared'
  BY <1>20 DEF RemoveMetadata, DaemonTo
<1>21. ASSUME NEW d \in Daemons, Bind(d)
      PROVE  Shared'
  BY <1>21 DEF Bind, DaemonTo
<1>22. ASSUME NEW d \in Daemons, OpenAndServe(d)
      PROVE  Shared'
  BY <1>22 DEF OpenAndServe, DaemonTo
<1>23. ASSUME NEW d \in Daemons, ServeFails(d)
      PROVE  Shared'
  BY <1>23 DEF ServeFails, DaemonTo
<1>24. ASSUME NEW d \in Daemons, Drained(d)
      PROVE  Shared'
  BY <1>24 DEF Drained, DaemonTo
<1>25. ASSUME NEW d \in Daemons, UnlinkSocket(d)
      PROVE  Shared'
  BY <1>25 DEF UnlinkSocket, DaemonTo
<1>26. ASSUME NEW d \in Daemons, UnlinkMetadata(d)
      PROVE  Shared'
  BY <1>26 DEF UnlinkMetadata, DaemonTo
<1>27. ASSUME NEW d \in Daemons, Exit(d)
      PROVE  Shared'
  BY <1>27 DEF Exit, DaemonTo
<1>28. ASSUME NEW d \in Daemons, Crash(d)
      PROVE  Shared'
  BY <1>28 DEF Crash, DaemonTo
<1>29. CASE UNCHANGED vars
  BY <1>29 DEF vars
<1> HIDE DEF Basics, Shared, Talking, ClientPC, DaemonPC
<1>30. QED
  BY <1>1, <1>2, <1>3, <1>4, <1>5, <1>6, <1>7, <1>8, <1>9, <1>10, <1>11, <1>12, <1>13,
     <1>14, <1>15, <1>16, <1>17, <1>18, <1>19, <1>20, <1>21, <1>22, <1>23, <1>24, <1>25,
     <1>26, <1>27, <1>28, <1>29
     DEF Next, ClientStep, DaemonStep

\* Every step that goes past the lock has it, and every step that gives it up leaves
\* those places.
LEMMA LockStep ==
    ASSUME Basics, [Next]_vars
    PROVE  LockIsHeld'
<1> USE StartupAssumption DEF Basics, Shared, LockIsHeld
<1>1. ASSUME NEW c \in Clients, SeeFile(c)
      PROVE  LockIsHeld'
  BY <1>1 DEF SeeFile, Asking
<1>2. ASSUME NEW c \in Clients, FindReady(c)
      PROVE  LockIsHeld'
  BY <1>2 DEF FindReady, Asking, ClientTo, Release
<1>3. ASSUME NEW c \in Clients, FindNotReady(c)
      PROVE  LockIsHeld'
  BY <1>3 DEF FindNotReady, Asking, ClientTo
<1>4. ASSUME NEW c \in Clients, TryLock(c)
      PROVE  LockIsHeld'
  BY <1>4 DEF TryLock, ClientTo
<1>5. ASSUME NEW c \in Clients, NEW d \in Daemons, Spawn(c, d)
      PROVE  LockIsHeld'
  BY <1>5 DEF Spawn, ClientTo, DaemonTo
<1>6. ASSUME NEW c \in Clients, StartDeadline(c)
      PROVE  LockIsHeld'
  BY <1>6 DEF StartDeadline, ClientTo, DaemonTo, Release
<1>7. ASSUME NEW c \in Clients, WaitDeadline(c)
      PROVE  LockIsHeld'
  BY <1>7 DEF WaitDeadline, ClientTo
<1>8. ASSUME NEW c \in Clients, Connect(c)
      PROVE  LockIsHeld'
  BY <1>8 DEF Connect, ClientTo, Reachable
<1>9. ASSUME NEW c \in Clients, Accept(c)
      PROVE  LockIsHeld'
  BY <1>9 DEF Accept, ClientTo
<1>10. ASSUME NEW c \in Clients, NEW isStop \in BOOLEAN, Answered(c, isStop)
      PROVE  LockIsHeld'
  BY <1>10 DEF Answered, ClientTo, DaemonTo
<1>11. ASSUME NEW c \in Clients, Reset(c)
      PROVE  LockIsHeld'
  BY <1>11 DEF Reset, ClientTo
<1>12. ASSUME NEW c \in Clients, SocketGone(c)
      PROVE  LockIsHeld'
  BY <1>12 DEF SocketGone, ClientTo
<1>13. ASSUME NEW c \in Clients, MetadataGone(c)
      PROVE  LockIsHeld'
  BY <1>13 DEF MetadataGone, ClientTo
<1>14. ASSUME NEW c \in Clients, ShutdownDeadline(c)
      PROVE  LockIsHeld'
  BY <1>14 DEF ShutdownDeadline, ClientTo
<1>15. ASSUME NEW c \in Clients, KillClient(c)
      PROVE  LockIsHeld'
  BY <1>15 DEF KillClient, ClientTo, Release
<1>16. ASSUME NEW d \in Daemons, CheckSocket(d)
      PROVE  LockIsHeld'
  BY <1>16 DEF CheckSocket, DaemonTo
<1>17. ASSUME NEW d \in Daemons, Probe(d)
      PROVE  LockIsHeld'
  BY <1>17 DEF Probe, DaemonTo, Reachable, Listening
<1>18. ASSUME NEW d \in Daemons, ReplaceSocket(d)
      PROVE  LockIsHeld'
  BY <1>18 DEF ReplaceSocket, DaemonTo
<1>19. ASSUME NEW d \in Daemons, CheckMetadata(d)
      PROVE  LockIsHeld'
  BY <1>19 DEF CheckMetadata, DaemonTo
<1>20. ASSUME NEW d \in Daemons, RemoveMetadata(d)
      PROVE  LockIsHeld'
  BY <1>20 DEF RemoveMetadata, DaemonTo
<1>21. ASSUME NEW d \in Daemons, Bind(d)
      PROVE  LockIsHeld'
  BY <1>21 DEF Bind, DaemonTo
<1>22. ASSUME NEW d \in Daemons, OpenAndServe(d)
      PROVE  LockIsHeld'
  BY <1>22 DEF OpenAndServe, DaemonTo
<1>23. ASSUME NEW d \in Daemons, ServeFails(d)
      PROVE  LockIsHeld'
  BY <1>23 DEF ServeFails, DaemonTo
<1>24. ASSUME NEW d \in Daemons, Drained(d)
      PROVE  LockIsHeld'
  BY <1>24 DEF Drained, DaemonTo
<1>25. ASSUME NEW d \in Daemons, UnlinkSocket(d)
      PROVE  LockIsHeld'
  BY <1>25 DEF UnlinkSocket, DaemonTo
<1>26. ASSUME NEW d \in Daemons, UnlinkMetadata(d)
      PROVE  LockIsHeld'
  BY <1>26 DEF UnlinkMetadata, DaemonTo
<1>27. ASSUME NEW d \in Daemons, Exit(d)
      PROVE  LockIsHeld'
  BY <1>27 DEF Exit, DaemonTo
<1>28. ASSUME NEW d \in Daemons, Crash(d)
      PROVE  LockIsHeld'
  BY <1>28 DEF Crash, DaemonTo
<1>29. CASE UNCHANGED vars
  BY <1>29 DEF vars
<1> HIDE DEF Basics, Shared, LockIsHeld
<1>30. QED
  BY <1>1, <1>2, <1>3, <1>4, <1>5, <1>6, <1>7, <1>8, <1>9, <1>10, <1>11, <1>12, <1>13,
     <1>14, <1>15, <1>16, <1>17, <1>18, <1>19, <1>20, <1>21, <1>22, <1>23, <1>24, <1>25,
     <1>26, <1>27, <1>28, <1>29
     DEF Next, ClientStep, DaemonStep

\* A client has a child once it has spawned one, and a peer once it is connected.
LEMMA TalkingStep ==
    ASSUME Basics, [Next]_vars
    PROVE  Talking'
<1> USE StartupAssumption DEF Basics, Shared, Talking
<1>1. ASSUME NEW c \in Clients, SeeFile(c)
      PROVE  Talking'
  BY <1>1 DEF SeeFile, Asking
<1>2. ASSUME NEW c \in Clients, FindReady(c)
      PROVE  Talking'
  BY <1>2 DEF FindReady, Asking, ClientTo, Release
<1>3. ASSUME NEW c \in Clients, FindNotReady(c)
      PROVE  Talking'
  BY <1>3 DEF FindNotReady, Asking, ClientTo
<1>4. ASSUME NEW c \in Clients, TryLock(c)
      PROVE  Talking'
  BY <1>4 DEF TryLock, ClientTo
<1>5. ASSUME NEW c \in Clients, NEW d \in Daemons, Spawn(c, d)
      PROVE  Talking'
  BY <1>5 DEF Spawn, ClientTo, DaemonTo
<1>6. ASSUME NEW c \in Clients, StartDeadline(c)
      PROVE  Talking'
  BY <1>6 DEF StartDeadline, ClientTo, DaemonTo, Release
<1>7. ASSUME NEW c \in Clients, WaitDeadline(c)
      PROVE  Talking'
  BY <1>7 DEF WaitDeadline, ClientTo
<1>8. ASSUME NEW c \in Clients, Connect(c)
      PROVE  Talking'
  BY <1>8 DEF Connect, ClientTo, Reachable, Listening
<1>9. ASSUME NEW c \in Clients, Accept(c)
      PROVE  Talking'
  BY <1>9 DEF Accept, ClientTo
<1>10. ASSUME NEW c \in Clients, NEW isStop \in BOOLEAN, Answered(c, isStop)
      PROVE  Talking'
  BY <1>10 DEF Answered, ClientTo, DaemonTo
<1>11. ASSUME NEW c \in Clients, Reset(c)
      PROVE  Talking'
  BY <1>11 DEF Reset, ClientTo
<1>12. ASSUME NEW c \in Clients, SocketGone(c)
      PROVE  Talking'
  BY <1>12 DEF SocketGone, ClientTo
<1>13. ASSUME NEW c \in Clients, MetadataGone(c)
      PROVE  Talking'
  BY <1>13 DEF MetadataGone, ClientTo
<1>14. ASSUME NEW c \in Clients, ShutdownDeadline(c)
      PROVE  Talking'
  BY <1>14 DEF ShutdownDeadline, ClientTo
<1>15. ASSUME NEW c \in Clients, KillClient(c)
      PROVE  Talking'
  BY <1>15 DEF KillClient, ClientTo, Release
<1>16. ASSUME NEW d \in Daemons, CheckSocket(d)
      PROVE  Talking'
  BY <1>16 DEF CheckSocket, DaemonTo
<1>17. ASSUME NEW d \in Daemons, Probe(d)
      PROVE  Talking'
  BY <1>17 DEF Probe, DaemonTo, Reachable, Listening
<1>18. ASSUME NEW d \in Daemons, ReplaceSocket(d)
      PROVE  Talking'
  BY <1>18 DEF ReplaceSocket, DaemonTo
<1>19. ASSUME NEW d \in Daemons, CheckMetadata(d)
      PROVE  Talking'
  BY <1>19 DEF CheckMetadata, DaemonTo
<1>20. ASSUME NEW d \in Daemons, RemoveMetadata(d)
      PROVE  Talking'
  BY <1>20 DEF RemoveMetadata, DaemonTo
<1>21. ASSUME NEW d \in Daemons, Bind(d)
      PROVE  Talking'
  BY <1>21 DEF Bind, DaemonTo
<1>22. ASSUME NEW d \in Daemons, OpenAndServe(d)
      PROVE  Talking'
  BY <1>22 DEF OpenAndServe, DaemonTo
<1>23. ASSUME NEW d \in Daemons, ServeFails(d)
      PROVE  Talking'
  BY <1>23 DEF ServeFails, DaemonTo
<1>24. ASSUME NEW d \in Daemons, Drained(d)
      PROVE  Talking'
  BY <1>24 DEF Drained, DaemonTo
<1>25. ASSUME NEW d \in Daemons, UnlinkSocket(d)
      PROVE  Talking'
  BY <1>25 DEF UnlinkSocket, DaemonTo
<1>26. ASSUME NEW d \in Daemons, UnlinkMetadata(d)
      PROVE  Talking'
  BY <1>26 DEF UnlinkMetadata, DaemonTo
<1>27. ASSUME NEW d \in Daemons, Exit(d)
      PROVE  Talking'
  BY <1>27 DEF Exit, DaemonTo
<1>28. ASSUME NEW d \in Daemons, Crash(d)
      PROVE  Talking'
  BY <1>28 DEF Crash, DaemonTo
<1>29. CASE UNCHANGED vars
  BY <1>29 DEF vars
<1> HIDE DEF Basics, Shared, Talking
<1>30. QED
  BY <1>1, <1>2, <1>3, <1>4, <1>5, <1>6, <1>7, <1>8, <1>9, <1>10, <1>11, <1>12, <1>13,
     <1>14, <1>15, <1>16, <1>17, <1>18, <1>19, <1>20, <1>21, <1>22, <1>23, <1>24, <1>25,
     <1>26, <1>27, <1>28, <1>29
     DEF Next, ClientStep, DaemonStep

\* Only its daemon takes the path of a listening daemon away: ReplaceSocket
\* removes a path that nobody listens on.
LEMMA OwnersStep ==
    ASSUME Basics, Calm, [Next]_vars
    PROVE  OwnersHoldPath'
<1> USE StartupAssumption DEF Basics, Shared, Talking, Calm, OwnersHoldPath, Owns, PathIsFree
<1>1. ASSUME NEW c \in Clients, SeeFile(c)
      PROVE  OwnersHoldPath'
  BY <1>1 DEF SeeFile, Asking
<1>2. ASSUME NEW c \in Clients, FindReady(c)
      PROVE  OwnersHoldPath'
  BY <1>2 DEF FindReady, Asking, ClientTo, Release
<1>3. ASSUME NEW c \in Clients, FindNotReady(c)
      PROVE  OwnersHoldPath'
  BY <1>3 DEF FindNotReady, Asking, ClientTo
<1>4. ASSUME NEW c \in Clients, TryLock(c)
      PROVE  OwnersHoldPath'
  BY <1>4 DEF TryLock, ClientTo
<1>5. ASSUME NEW c \in Clients, NEW d \in Daemons, Spawn(c, d)
      PROVE  OwnersHoldPath'
  BY <1>5 DEF Spawn, ClientTo, DaemonTo
<1>6. ASSUME NEW c \in Clients, StartDeadline(c)
      PROVE  OwnersHoldPath'
  BY <1>6 DEF StartDeadline, ClientTo, DaemonTo, Release
<1>7. ASSUME NEW c \in Clients, WaitDeadline(c)
      PROVE  OwnersHoldPath'
  BY <1>7 DEF WaitDeadline, ClientTo
<1>8. ASSUME NEW c \in Clients, Connect(c)
      PROVE  OwnersHoldPath'
  BY <1>8 DEF Connect, ClientTo, Reachable
<1>9. ASSUME NEW c \in Clients, Accept(c)
      PROVE  OwnersHoldPath'
  BY <1>9 DEF Accept, ClientTo
<1>10. ASSUME NEW c \in Clients, NEW isStop \in BOOLEAN, Answered(c, isStop)
      PROVE  OwnersHoldPath'
  BY <1>10 DEF Answered, ClientTo, DaemonTo
<1>11. ASSUME NEW c \in Clients, Reset(c)
      PROVE  OwnersHoldPath'
  BY <1>11 DEF Reset, ClientTo
<1>12. ASSUME NEW c \in Clients, SocketGone(c)
      PROVE  OwnersHoldPath'
  BY <1>12 DEF SocketGone, ClientTo
<1>13. ASSUME NEW c \in Clients, MetadataGone(c)
      PROVE  OwnersHoldPath'
  BY <1>13 DEF MetadataGone, ClientTo
<1>14. ASSUME NEW c \in Clients, ShutdownDeadline(c)
      PROVE  OwnersHoldPath'
  BY <1>14 DEF ShutdownDeadline, ClientTo
<1>15. ASSUME NEW c \in Clients, KillClient(c)
      PROVE  OwnersHoldPath'
  BY <1>15 DEF KillClient, ClientTo, Release
<1>16. ASSUME NEW d \in Daemons, CheckSocket(d)
      PROVE  OwnersHoldPath'
  BY <1>16 DEF CheckSocket, DaemonTo
<1>17. ASSUME NEW d \in Daemons, Probe(d)
      PROVE  OwnersHoldPath'
  BY <1>17 DEF Probe, DaemonTo, Reachable, Listening
<1>18. ASSUME NEW d \in Daemons, ReplaceSocket(d)
      PROVE  OwnersHoldPath'
  BY <1>18 DEF ReplaceSocket, DaemonTo
<1>19. ASSUME NEW d \in Daemons, CheckMetadata(d)
      PROVE  OwnersHoldPath'
  BY <1>19 DEF CheckMetadata, DaemonTo
<1>20. ASSUME NEW d \in Daemons, RemoveMetadata(d)
      PROVE  OwnersHoldPath'
  BY <1>20 DEF RemoveMetadata, DaemonTo
<1>21. ASSUME NEW d \in Daemons, Bind(d)
      PROVE  OwnersHoldPath'
  BY <1>21 DEF Bind, DaemonTo
<1>22. ASSUME NEW d \in Daemons, OpenAndServe(d)
      PROVE  OwnersHoldPath'
  BY <1>22 DEF OpenAndServe, DaemonTo
<1>23. ASSUME NEW d \in Daemons, ServeFails(d)
      PROVE  OwnersHoldPath'
  BY <1>23 DEF ServeFails, DaemonTo
<1>24. ASSUME NEW d \in Daemons, Drained(d)
      PROVE  OwnersHoldPath'
  BY <1>24 DEF Drained, DaemonTo
<1>25. ASSUME NEW d \in Daemons, UnlinkSocket(d)
      PROVE  OwnersHoldPath'
  BY <1>25 DEF UnlinkSocket, DaemonTo
<1>26. ASSUME NEW d \in Daemons, UnlinkMetadata(d)
      PROVE  OwnersHoldPath'
  BY <1>26 DEF UnlinkMetadata, DaemonTo
<1>27. ASSUME NEW d \in Daemons, Exit(d)
      PROVE  OwnersHoldPath'
  BY <1>27 DEF Exit, DaemonTo
<1>28. ASSUME NEW d \in Daemons, Crash(d)
      PROVE  OwnersHoldPath'
  BY <1>28 DEF Crash, DaemonTo
<1>29. CASE UNCHANGED vars
  BY <1>29 DEF vars
<1> HIDE DEF Basics, Shared, Talking, Calm, OwnersHoldPath, Owns, PathIsFree
<1>30. QED
  BY <1>1, <1>2, <1>3, <1>4, <1>5, <1>6, <1>7, <1>8, <1>9, <1>10, <1>11, <1>12, <1>13,
     <1>14, <1>15, <1>16, <1>17, <1>18, <1>19, <1>20, <1>21, <1>22, <1>23, <1>24, <1>25,
     <1>26, <1>27, <1>28, <1>29
     DEF Next, ClientStep, DaemonStep

\* What a starting daemon found stays true, since it is the only one that starts.
LEMMA PathStep ==
    ASSUME Basics, Calm, [Next]_vars
    PROVE  PathIsFree'
<1> USE StartupAssumption DEF Basics, Shared, Talking, Calm, OneStarts, OwnersHoldPath, Owns, PathIsFree, Starting
<1>1. ASSUME NEW c \in Clients, SeeFile(c)
      PROVE  PathIsFree'
  BY <1>1 DEF SeeFile, Asking
<1>2. ASSUME NEW c \in Clients, FindReady(c)
      PROVE  PathIsFree'
  BY <1>2 DEF FindReady, Asking, ClientTo, Release
<1>3. ASSUME NEW c \in Clients, FindNotReady(c)
      PROVE  PathIsFree'
  BY <1>3 DEF FindNotReady, Asking, ClientTo
<1>4. ASSUME NEW c \in Clients, TryLock(c)
      PROVE  PathIsFree'
  BY <1>4 DEF TryLock, ClientTo
<1>5. ASSUME NEW c \in Clients, NEW d \in Daemons, Spawn(c, d)
      PROVE  PathIsFree'
  BY <1>5 DEF Spawn, ClientTo, DaemonTo
<1>6. ASSUME NEW c \in Clients, StartDeadline(c)
      PROVE  PathIsFree'
  BY <1>6 DEF StartDeadline, ClientTo, DaemonTo, Release
<1>7. ASSUME NEW c \in Clients, WaitDeadline(c)
      PROVE  PathIsFree'
  BY <1>7 DEF WaitDeadline, ClientTo
<1>8. ASSUME NEW c \in Clients, Connect(c)
      PROVE  PathIsFree'
  BY <1>8 DEF Connect, ClientTo, Reachable
<1>9. ASSUME NEW c \in Clients, Accept(c)
      PROVE  PathIsFree'
  BY <1>9 DEF Accept, ClientTo
<1>10. ASSUME NEW c \in Clients, NEW isStop \in BOOLEAN, Answered(c, isStop)
      PROVE  PathIsFree'
  BY <1>10 DEF Answered, ClientTo, DaemonTo
<1>11. ASSUME NEW c \in Clients, Reset(c)
      PROVE  PathIsFree'
  BY <1>11 DEF Reset, ClientTo
<1>12. ASSUME NEW c \in Clients, SocketGone(c)
      PROVE  PathIsFree'
  BY <1>12 DEF SocketGone, ClientTo
<1>13. ASSUME NEW c \in Clients, MetadataGone(c)
      PROVE  PathIsFree'
  BY <1>13 DEF MetadataGone, ClientTo
<1>14. ASSUME NEW c \in Clients, ShutdownDeadline(c)
      PROVE  PathIsFree'
  BY <1>14 DEF ShutdownDeadline, ClientTo
<1>15. ASSUME NEW c \in Clients, KillClient(c)
      PROVE  PathIsFree'
  BY <1>15 DEF KillClient, ClientTo, Release
<1>16. ASSUME NEW d \in Daemons, CheckSocket(d)
      PROVE  PathIsFree'
  BY <1>16 DEF CheckSocket, DaemonTo
<1>17. ASSUME NEW d \in Daemons, Probe(d)
      PROVE  PathIsFree'
  BY <1>17 DEF Probe, DaemonTo, Reachable, Listening
<1>18. ASSUME NEW d \in Daemons, ReplaceSocket(d)
      PROVE  PathIsFree'
  BY <1>18 DEF ReplaceSocket, DaemonTo
<1>19. ASSUME NEW d \in Daemons, CheckMetadata(d)
      PROVE  PathIsFree'
  BY <1>19 DEF CheckMetadata, DaemonTo
<1>20. ASSUME NEW d \in Daemons, RemoveMetadata(d)
      PROVE  PathIsFree'
  BY <1>20 DEF RemoveMetadata, DaemonTo
<1>21. ASSUME NEW d \in Daemons, Bind(d)
      PROVE  PathIsFree'
  BY <1>21 DEF Bind, DaemonTo
<1>22. ASSUME NEW d \in Daemons, OpenAndServe(d)
      PROVE  PathIsFree'
  BY <1>22 DEF OpenAndServe, DaemonTo
<1>23. ASSUME NEW d \in Daemons, ServeFails(d)
      PROVE  PathIsFree'
  BY <1>23 DEF ServeFails, DaemonTo
<1>24. ASSUME NEW d \in Daemons, Drained(d)
      PROVE  PathIsFree'
  BY <1>24 DEF Drained, DaemonTo
<1>25. ASSUME NEW d \in Daemons, UnlinkSocket(d)
      PROVE  PathIsFree'
  BY <1>25 DEF UnlinkSocket, DaemonTo
<1>26. ASSUME NEW d \in Daemons, UnlinkMetadata(d)
      PROVE  PathIsFree'
  BY <1>26 DEF UnlinkMetadata, DaemonTo
<1>27. ASSUME NEW d \in Daemons, Exit(d)
      PROVE  PathIsFree'
  BY <1>27 DEF Exit, DaemonTo
<1>28. ASSUME NEW d \in Daemons, Crash(d)
      PROVE  PathIsFree'
  BY <1>28 DEF Crash, DaemonTo
<1>29. CASE UNCHANGED vars
  BY <1>29 DEF vars
<1> HIDE DEF Basics, Shared, Talking, Calm, OneStarts, OwnersHoldPath, Owns, PathIsFree, Starting
<1>30. QED
  BY <1>1, <1>2, <1>3, <1>4, <1>5, <1>6, <1>7, <1>8, <1>9, <1>10, <1>11, <1>12, <1>13,
     <1>14, <1>15, <1>16, <1>17, <1>18, <1>19, <1>20, <1>21, <1>22, <1>23, <1>24, <1>25,
     <1>26, <1>27, <1>28, <1>29
     DEF Next, ClientStep, DaemonStep

\* The daemon a client talks to only moves towards its end, and the client sees
\* the path gone only when that daemon removed it.
LEMMA PeersStep ==
    ASSUME Basics, Calm, [Next]_vars
    PROVE  Peers'
<1> USE StartupAssumption DEF Basics, Shared, Talking, Calm, OwnersHoldPath, Owns, Peers, PeerOf, Ended
<1>1. ASSUME NEW c \in Clients, SeeFile(c)
      PROVE  Peers'
  BY <1>1 DEF SeeFile, Asking
<1>2. ASSUME NEW c \in Clients, FindReady(c)
      PROVE  Peers'
  BY <1>2 DEF FindReady, Asking, ClientTo, Release
<1>3. ASSUME NEW c \in Clients, FindNotReady(c)
      PROVE  Peers'
  BY <1>3 DEF FindNotReady, Asking, ClientTo
<1>4. ASSUME NEW c \in Clients, TryLock(c)
      PROVE  Peers'
  BY <1>4 DEF TryLock, ClientTo
<1>5. ASSUME NEW c \in Clients, NEW d \in Daemons, Spawn(c, d)
      PROVE  Peers'
  BY <1>5 DEF Spawn, ClientTo, DaemonTo
<1>6. ASSUME NEW c \in Clients, StartDeadline(c)
      PROVE  Peers'
  BY <1>6 DEF StartDeadline, ClientTo, DaemonTo, Release
<1>7. ASSUME NEW c \in Clients, WaitDeadline(c)
      PROVE  Peers'
  BY <1>7 DEF WaitDeadline, ClientTo
<1>8. ASSUME NEW c \in Clients, Connect(c)
      PROVE  Peers'
  BY <1>8 DEF Connect, ClientTo, Reachable
<1>9. ASSUME NEW c \in Clients, Accept(c)
      PROVE  Peers'
  BY <1>9 DEF Accept, ClientTo
<1>10. ASSUME NEW c \in Clients, NEW isStop \in BOOLEAN, Answered(c, isStop)
      PROVE  Peers'
  BY <1>10 DEF Answered, ClientTo, DaemonTo
<1>11. ASSUME NEW c \in Clients, Reset(c)
      PROVE  Peers'
  BY <1>11 DEF Reset, ClientTo
<1>12. ASSUME NEW c \in Clients, SocketGone(c)
      PROVE  Peers'
  BY <1>12 DEF SocketGone, ClientTo
<1>13. ASSUME NEW c \in Clients, MetadataGone(c)
      PROVE  Peers'
  BY <1>13 DEF MetadataGone, ClientTo
<1>14. ASSUME NEW c \in Clients, ShutdownDeadline(c)
      PROVE  Peers'
  BY <1>14 DEF ShutdownDeadline, ClientTo
<1>15. ASSUME NEW c \in Clients, KillClient(c)
      PROVE  Peers'
  BY <1>15 DEF KillClient, ClientTo, Release
<1>16. ASSUME NEW d \in Daemons, CheckSocket(d)
      PROVE  Peers'
  BY <1>16 DEF CheckSocket, DaemonTo
<1>17. ASSUME NEW d \in Daemons, Probe(d)
      PROVE  Peers'
  BY <1>17 DEF Probe, DaemonTo, Reachable, Listening
<1>18. ASSUME NEW d \in Daemons, ReplaceSocket(d)
      PROVE  Peers'
  BY <1>18 DEF ReplaceSocket, DaemonTo
<1>19. ASSUME NEW d \in Daemons, CheckMetadata(d)
      PROVE  Peers'
  BY <1>19 DEF CheckMetadata, DaemonTo
<1>20. ASSUME NEW d \in Daemons, RemoveMetadata(d)
      PROVE  Peers'
  BY <1>20 DEF RemoveMetadata, DaemonTo
<1>21. ASSUME NEW d \in Daemons, Bind(d)
      PROVE  Peers'
  BY <1>21 DEF Bind, DaemonTo
<1>22. ASSUME NEW d \in Daemons, OpenAndServe(d)
      PROVE  Peers'
  BY <1>22 DEF OpenAndServe, DaemonTo
<1>23. ASSUME NEW d \in Daemons, ServeFails(d)
      PROVE  Peers'
  BY <1>23 DEF ServeFails, DaemonTo
<1>24. ASSUME NEW d \in Daemons, Drained(d)
      PROVE  Peers'
  BY <1>24 DEF Drained, DaemonTo
<1>25. ASSUME NEW d \in Daemons, UnlinkSocket(d)
      PROVE  Peers'
  BY <1>25 DEF UnlinkSocket, DaemonTo
<1>26. ASSUME NEW d \in Daemons, UnlinkMetadata(d)
      PROVE  Peers'
  BY <1>26 DEF UnlinkMetadata, DaemonTo
<1>27. ASSUME NEW d \in Daemons, Exit(d)
      PROVE  Peers'
  BY <1>27 DEF Exit, DaemonTo
<1>28. ASSUME NEW d \in Daemons, Crash(d)
      PROVE  Peers'
  BY <1>28 DEF Crash, DaemonTo
<1>29. CASE UNCHANGED vars
  BY <1>29 DEF vars
<1> HIDE DEF Basics, Shared, Talking, Calm, OwnersHoldPath, Owns, Peers, PeerOf, Ended
<1>30. QED
  BY <1>1, <1>2, <1>3, <1>4, <1>5, <1>6, <1>7, <1>8, <1>9, <1>10, <1>11, <1>12, <1>13,
     <1>14, <1>15, <1>16, <1>17, <1>18, <1>19, <1>20, <1>21, <1>22, <1>23, <1>24, <1>25,
     <1>26, <1>27, <1>28, <1>29
     DEF Next, ClientStep, DaemonStep

\* Without an overlap a spawned daemon is the only one that starts.
LEMMA StartsStep ==
    ASSUME Basics, Calm, [Next]_vars, SpawnsAlone
    PROVE  OneStarts'
<1> USE StartupAssumption DEF Basics, Shared, Talking, Calm, OneStarts, Starting
<1>1. ASSUME NEW c \in Clients, SeeFile(c)
      PROVE  OneStarts'
  BY <1>1 DEF SeeFile, Asking
<1>2. ASSUME NEW c \in Clients, FindReady(c)
      PROVE  OneStarts'
  BY <1>2 DEF FindReady, Asking, ClientTo, Release
<1>3. ASSUME NEW c \in Clients, FindNotReady(c)
      PROVE  OneStarts'
  BY <1>3 DEF FindNotReady, Asking, ClientTo
<1>4. ASSUME NEW c \in Clients, TryLock(c)
      PROVE  OneStarts'
  BY <1>4 DEF TryLock, ClientTo
<1>5. ASSUME NEW c \in Clients, NEW d \in Daemons, Spawn(c, d)
      PROVE  OneStarts'
  BY <1>5 DEF SpawnsAlone, Spawn, ClientTo, DaemonTo
<1>6. ASSUME NEW c \in Clients, StartDeadline(c)
      PROVE  OneStarts'
  BY <1>6 DEF StartDeadline, ClientTo, DaemonTo, Release
<1>7. ASSUME NEW c \in Clients, WaitDeadline(c)
      PROVE  OneStarts'
  BY <1>7 DEF WaitDeadline, ClientTo
<1>8. ASSUME NEW c \in Clients, Connect(c)
      PROVE  OneStarts'
  BY <1>8 DEF Connect, ClientTo, Reachable
<1>9. ASSUME NEW c \in Clients, Accept(c)
      PROVE  OneStarts'
  BY <1>9 DEF Accept, ClientTo
<1>10. ASSUME NEW c \in Clients, NEW isStop \in BOOLEAN, Answered(c, isStop)
      PROVE  OneStarts'
  BY <1>10 DEF Answered, ClientTo, DaemonTo
<1>11. ASSUME NEW c \in Clients, Reset(c)
      PROVE  OneStarts'
  BY <1>11 DEF Reset, ClientTo
<1>12. ASSUME NEW c \in Clients, SocketGone(c)
      PROVE  OneStarts'
  BY <1>12 DEF SocketGone, ClientTo
<1>13. ASSUME NEW c \in Clients, MetadataGone(c)
      PROVE  OneStarts'
  BY <1>13 DEF MetadataGone, ClientTo
<1>14. ASSUME NEW c \in Clients, ShutdownDeadline(c)
      PROVE  OneStarts'
  BY <1>14 DEF ShutdownDeadline, ClientTo
<1>15. ASSUME NEW c \in Clients, KillClient(c)
      PROVE  OneStarts'
  BY <1>15 DEF KillClient, ClientTo, Release
<1>16. ASSUME NEW d \in Daemons, CheckSocket(d)
      PROVE  OneStarts'
  BY <1>16 DEF CheckSocket, DaemonTo
<1>17. ASSUME NEW d \in Daemons, Probe(d)
      PROVE  OneStarts'
  BY <1>17 DEF Probe, DaemonTo, Reachable, Listening
<1>18. ASSUME NEW d \in Daemons, ReplaceSocket(d)
      PROVE  OneStarts'
  BY <1>18 DEF ReplaceSocket, DaemonTo
<1>19. ASSUME NEW d \in Daemons, CheckMetadata(d)
      PROVE  OneStarts'
  BY <1>19 DEF CheckMetadata, DaemonTo
<1>20. ASSUME NEW d \in Daemons, RemoveMetadata(d)
      PROVE  OneStarts'
  BY <1>20 DEF RemoveMetadata, DaemonTo
<1>21. ASSUME NEW d \in Daemons, Bind(d)
      PROVE  OneStarts'
  BY <1>21 DEF Bind, DaemonTo
<1>22. ASSUME NEW d \in Daemons, OpenAndServe(d)
      PROVE  OneStarts'
  BY <1>22 DEF OpenAndServe, DaemonTo
<1>23. ASSUME NEW d \in Daemons, ServeFails(d)
      PROVE  OneStarts'
  BY <1>23 DEF ServeFails, DaemonTo
<1>24. ASSUME NEW d \in Daemons, Drained(d)
      PROVE  OneStarts'
  BY <1>24 DEF Drained, DaemonTo
<1>25. ASSUME NEW d \in Daemons, UnlinkSocket(d)
      PROVE  OneStarts'
  BY <1>25 DEF UnlinkSocket, DaemonTo
<1>26. ASSUME NEW d \in Daemons, UnlinkMetadata(d)
      PROVE  OneStarts'
  BY <1>26 DEF UnlinkMetadata, DaemonTo
<1>27. ASSUME NEW d \in Daemons, Exit(d)
      PROVE  OneStarts'
  BY <1>27 DEF Exit, DaemonTo
<1>28. ASSUME NEW d \in Daemons, Crash(d)
      PROVE  OneStarts'
  BY <1>28 DEF Crash, DaemonTo
<1>29. CASE UNCHANGED vars
  BY <1>29 DEF vars
<1> HIDE DEF Basics, Shared, Talking, Calm, OneStarts, Starting
<1>30. QED
  BY <1>1, <1>2, <1>3, <1>4, <1>5, <1>6, <1>7, <1>8, <1>9, <1>10, <1>11, <1>12, <1>13,
     <1>14, <1>15, <1>16, <1>17, <1>18, <1>19, <1>20, <1>21, <1>22, <1>23, <1>24, <1>25,
     <1>26, <1>27, <1>28, <1>29
     DEF Next, ClientStep, DaemonStep

\* Only a spawn changes the history.
LEMMA OverlapStep ==
    ASSUME [Next]_vars
    PROVE  UNCHANGED overlap \/ \E c \in Clients, d \in Daemons : Spawn(c, d)
<1>1. ASSUME NEW c \in Clients, ClientStep(c)
      PROVE  UNCHANGED overlap \/ \E d \in Daemons : Spawn(c, d)
  BY <1>1, Zenon
     DEF ClientStep, SeeFile, FindReady, FindNotReady, TryLock, StartDeadline, WaitDeadline, Connect,
         Accept, Answered, Reset, SocketGone, MetadataGone, ShutdownDeadline, KillClient
<1>2. ASSUME NEW d \in Daemons, DaemonStep(d) \/ ServeFails(d) \/ Crash(d)
      PROVE  UNCHANGED overlap
  BY <1>2, Zenon
     DEF DaemonStep, CheckSocket, Probe, ReplaceSocket, CheckMetadata, RemoveMetadata, Bind,
         OpenAndServe, Drained, UnlinkSocket, UnlinkMetadata, Exit, ServeFails, Crash
<1>3. CASE UNCHANGED vars
  BY <1>3 DEF vars
<1>4. QED
  BY <1>1, <1>2, <1>3, Zenon DEF Next

\* Every spawn finds no other daemon starting as long as there is no overlap, and an overlap
\* is not forgotten.
LEMMA OverlapIsKept ==
    ASSUME [Next]_vars, overlap \in BOOLEAN
    PROVE  overlap' \in BOOLEAN /\ (~overlap' => ~overlap /\ SpawnsAlone)
<1>1. ASSUME NEW c \in Clients, NEW d \in Daemons, Spawn(c, d)
      PROVE  overlap' = (overlap \/ \E e \in Daemons : daemon[e] \in Starting)
  BY <1>1, Zenon DEF Spawn
<1>2. overlap' \in BOOLEAN /\ (overlap => overlap')
  <2>1. CASE UNCHANGED overlap
    BY <2>1, Zenon
  <2>2. ASSUME NEW c \in Clients, NEW d \in Daemons, Spawn(c, d)
        PROVE  overlap' \in BOOLEAN /\ (overlap => overlap')
    BY <1>1, <2>2, Zenon
  <2>3. QED
    BY <2>1, <2>2, OverlapStep, Zenon
<1>3. ASSUME ~overlap'
      PROVE  SpawnsAlone
  BY <1>1, <1>3, Zenon DEF SpawnsAlone
<1>4. QED
  BY <1>2, <1>3, Zenon

-----------------------------------------------------------------------------
\* A worktree without a daemon, with or without stale files.
LEMMA InitIInv == Init => IInv
<1> SUFFICES ASSUME Init PROVE IInv
  OBVIOUS
<1>1. Basics
  BY StartupAssumption DEF Init, Basics, Shared, LockIsHeld, Talking, ClientPC, DaemonPC
<1>2. Calm
  BY DEF Init, Calm, OneStarts, Starting, OwnersHoldPath, Owns, PathIsFree, Peers, PeerOf
<1>3. overlap \in BOOLEAN
  BY DEF Init
<1>4. QED
  BY <1>1, <1>2, <1>3 DEF IInv

\* The inductive invariant holds in every behaviour.
THEOREM Invariance == Spec => []IInv
<1>1. IInv /\ [Next]_vars => IInv'
  <2> SUFFICES ASSUME IInv, [Next]_vars PROVE IInv'
    OBVIOUS
  <2>1. Basics'
    BY TypeStep, LockStep, TalkingStep DEF IInv, Basics
  <2>2. overlap' \in BOOLEAN /\ (~overlap' => ~overlap /\ SpawnsAlone)
    BY OverlapIsKept, Zenon DEF IInv
  <2>3. ASSUME ~overlap'
        PROVE  Calm'
    <3>1. Basics /\ Calm /\ SpawnsAlone
      BY <2>2, <2>3, Zenon DEF IInv
    <3>2. QED
      BY <3>1, OwnersStep, PathStep, PeersStep, StartsStep DEF Calm
  <2>4. QED
    BY <2>1, <2>2, <2>3, Zenon DEF IInv
<1>2. QED
  BY InitIInv, <1>1, PTL DEF Spec

\* The processes and what they share keep their types, and the startup lock is only ever
\* with a client that starts a daemon or is about to.
THEOREM TypeCorrect == Spec => []TypeOK
<1>1. IInv => TypeOK
  BY Zenon DEF IInv, Basics, Shared, TypeOK
<1>2. QED
  BY Invariance, <1>1, PTL

\* Of any number of clients one at a time rechecks, spawns and waits for a daemon.
THEOREM TheLockExcludes == Spec => []OneStarter
<1>1. IInv => OneStarter
  BY DEF IInv, Basics, LockIsHeld, OneStarter
<1>2. QED
  BY Invariance, <1>1, PTL

\* However many clients race to start, stop or use a daemon, and whichever process is
\* killed, there is one daemon at a time until two have been starting at once.
THEOREM OneDaemonAtATime == Spec => []OneDaemonUntilOverlap
<1>1. IInv => OneDaemonUntilOverlap
  <2> SUFFICES ASSUME IInv, ~overlap PROVE OneDaemon
    BY Zenon DEF OneDaemonUntilOverlap
  <2> DEFINE Bound == {d \in Daemons : daemon[d] \in {"open", "serving", "draining", "closing"}}
  <2>0. OwnersHoldPath
    BY Zenon DEF IInv, Calm
  <2>1. Bound = {} \/ Bound = {socket}
    BY <2>0 DEF OwnersHoldPath, Owns
  <2>2. Cardinality({}) = 0 /\ Cardinality({socket}) = 1
    BY FS_EmptySet, FS_Singleton
  <2>3. Cardinality(Bound) <= 1
    <3> HIDE DEF Bound
    <3> QED
      BY <2>1, <2>2
  <2>4. QED
    BY <2>3 DEF OneDaemon
<1>2. QED
  BY Invariance, <1>1, PTL

\* No process takes the path of a serving daemon away, until two have been starting at once.
THEOREM EndpointStays == Spec => []EndpointIsOwn
<1>1. IInv => EndpointIsOwn
  <2> SUFFICES ASSUME IInv, ~overlap
               PROVE  \A d \in Daemons : daemon[d] \in {"open", "serving"} => socket = d
    BY Zenon DEF EndpointIsOwn
  <2>1. OwnersHoldPath
    BY Zenon DEF IInv, Calm
  <2>2. QED
    BY <2>1 DEF OwnersHoldPath, Owns
<1>2. QED
  BY Invariance, <1>1, PTL

\* A stop that is reported as done is done: wait_for_daemon_shutdown looks at files, and
\* those say what the daemon does until two have been starting at once.
THEOREM StopsAreReal == Spec => []StopIsReal
<1>1. IInv => StopIsReal
  <2> SUFFICES ASSUME IInv, ~overlap, NEW c \in Clients, client[c] = "stopped"
               PROVE  daemon[peer[c]] \in {"unlinked", "exiting", "dead"}
    BY Zenon DEF StopIsReal
  <2>1. Peers
    BY Zenon DEF IInv, Calm
  <2>2. QED
    BY <2>1 DEF Peers, PeerOf, Ended
<1>2. QED
  BY Invariance, <1>1, PTL
=============================================================================
