\* One of the two requests is a full one; no edit, so that every attempt can end.
SPECIFICATION Spec
CONSTANTS
    Verifies = {v1, v2}
    Full = {v2}
    Cancels = {c1}
    NoRequest = NoRequest
    MaxRevision = 0
    Good = {0}
    MaxRestarts = 0
PROPERTIES
    EveryRequestEnds
    StopEnds
CHECK_DEADLOCK FALSE
