SPECIFICATION SyntaxSpec
CONSTANTS
    MaxChunk = 5
    Overlap = 1
    Documents <- MCDocuments

INVARIANT ChunksAreSlices
