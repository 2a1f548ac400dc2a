SPECIFICATION TaskSpec
CONSTANTS
    Selections = {s1, s2}
    Nothing = nothing
    MaxQueued = 1
INVARIANTS
    TaskTypeOK
    CompletionTimed
PROPERTY PausedSelectionKept
SYMMETRY Symmetric
