CONSTANTS
    statement = statement
    correction = correction
    other = other
    Docs <- MCDocs
    Original <- MCOriginal
    Kind <- MCKind
    Uncoded = {"report"}
    Null = Null
SPECIFICATION Spec
INVARIANTS
    OneDocumentPerRow
    DetailNeverRefused
    CorrectionsKeepTheirOriginal
    ReimportAddsNothing
CHECK_DEADLOCK FALSE
