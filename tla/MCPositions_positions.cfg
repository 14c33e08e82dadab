\* Two clients that read positions, one of which seeks, while the renderer
\* plays on.
SPECIFICATION Spec
CONSTANTS
    Caller = {c1, c2}
    None = None
    Error = Error
    NotImplemented = NotImplemented
    Second = 2
    Word = 4096
    LongWord = 8192
    Length = 3700
    Stops = {3605}
    Offsets <- SomeOffsets
    Counts <- SomeCounts
    MaxSeeks = 1
INVARIANTS
    TypeOK
PROPERTIES
    SeeksLand
    AnswersAreFresh
    CallsAreAnswered
