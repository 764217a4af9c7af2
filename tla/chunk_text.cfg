SPECIFICATION SyntaxSpec
CONSTANTS
    MaxChunk = 5
    Overlap = 1
    Documents <- MCDocuments

INVARIANTS SyntaxTypeOK WindowsCover OrderedIsKept LongHasReason
PROPERTIES HeadersAreOwn Chunked
