\* Three clients, each of which may have to start a daemon, may stop it and may be killed.
SPECIFICATION Spec
CONSTANTS
    Clients = {c1, c2, c3}
    Daemons = {d1, d2, d3}
    None = None
SYMMETRY Symmetry
INVARIANTS
    TypeOK
    OneDaemonUntilOverlap
    OneStarter
    EndpointIsOwn
    StopIsReal
\* All clients have ended.
CHECK_DEADLOCK FALSE
