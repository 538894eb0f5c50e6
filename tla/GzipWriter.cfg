SPECIFICATION Spec
CONSTANTS
    Threshold = 3
    LevelValid = TRUE
    Codes = {200, 404}
    ChunkSizes = {0, 1, 2, 4}
    MaxBytes = 6
    NoLength = NoLength
INVARIANTS
    BodyPreserved
    HeaderOnceWithFirstCode
    WireIsPrefix
