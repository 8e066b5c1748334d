\* Two verify requests and one cancel or stop, racing for the gate over one edit, a stop or
\* a crash, and a restart.
SPECIFICATION Spec
CONSTANTS
    Verifies = {v1, v2}
    Full = {}
    Cancels = {c1}
    NoRequest = NoRequest
    MaxRevision = 1
    Good = {1}
    MaxRestarts = 1
SYMMETRY Symmetry
INVARIANTS
    TypeOK
    HolderIsCancellable
    ObsoleteWorkIsCancelled
    SuccessIsReal
    NoPhantomRun
PROPERTIES
    ImplementsService
\* All requests are answered and nothing more happens.
CHECK_DEADLOCK FALSE
