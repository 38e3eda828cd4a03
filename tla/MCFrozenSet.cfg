CONSTANTS
    Longs = 8
    Files <- FrozenSetFiles
SPECIFICATION Spec
INVARIANT
    ReadsWhatWasWritten
