SPECIFICATION Spec
CONSTANTS
    v1 = v1  v2 = v2  v3 = v3
    Absent = Absent
    Partial = Partial
    Values <- ThreeValues
    Interrupted = FALSE
INVARIANT HonestResult
PROPERTY ReplacesAtomically
