\* Two recordings and a replay or reverse of one of them, over one edit.
SPECIFICATION Spec
CONSTANTS
    Recorders = {r1, r2}
    Players = {p1}
    MaxRevision = 1
    Program <- MCProgram
    Values = {"", "1", "long"}
    EmptyValue = ""
    HugeValue = "long"
    Places = {"p", "q"}
    Fields = {"x", "s"}
    Secrets = {"s"}
    Captures = {TRUE}
    Wants <- MCWants
    MaxEvents = 3
    None = None
SYMMETRY Symmetry
INVARIANTS
    TypeOK
    VerifiedIsExact
    VerifiedIsComplete
    NoFalseDivergence
    
    RecordingIsOfItsRevision
CHECK_DEADLOCK FALSE
