CONSTANTS
    Sessions = {p1, p2}
    Askers = {p1}
    Files = {f1}
    Notes = {n1}
    Texts = {t1, t2}
    Blank = blank
    None = none
    Citations = {{f1, n1}}
    MaxFaults = 1
SPECIFICATION Spec
SYMMETRY Symmetric
INVARIANTS
    AgreeingFilesSync
    ServedIsCurrent
PROPERTY
    PresentFilesStay
CHECK_DEADLOCK FALSE
