SPECIFICATION Spec
CONSTANTS
    Procs = {p1, p2}
    Spellings <- MCSpellings
    None = None
    MaxRuns = 2
    MaxStrays = 1
SYMMETRY ProcSymmetry
INVARIANTS
    SubjectsPass
    InstalledIsRecorded
    IssuedPairMatches
CHECK_DEADLOCK FALSE
