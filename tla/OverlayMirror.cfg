\* Two paths, two contents and two saves during or between preparations.
SPECIFICATION Spec
CONSTANTS
    Files = {a, b}
    Contents = {x, y}
    Absent = Absent
    Partial = Partial
    MaxSaves = 2
SYMMETRY Symmetry
INVARIANTS
    TypeOK
    MirrorIsCurrent
    UnmarkedMirrorIsWhole
