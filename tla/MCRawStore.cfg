CONSTANTS
    c1 = c1
    c2 = c2
    w1 = w1
    w2 = w2
    Content <- MCContent
    Writers <- MCWriters
    NoContent = NoContent
    NoRun = NoRun
SPECIFICATION Spec
INVARIANTS
    ListedDocumentsComplete
PROPERTIES
    FirstMetadataKept
    ImplementsArchive
