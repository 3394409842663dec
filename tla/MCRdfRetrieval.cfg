SPECIFICATION FairRetrieval
CONSTANTS
    Null = Null
    k1 = k1
    k2 = k2
    k3 = k3
    d1 = d1
    d4 = d4
    d2 = d2
    d3 = d3
    c2 = c2
    c3 = c3
    Entities <- MCEntities
    Refs <- MCRefs
    Owner <- MCOwner
    Original <- MCOriginal
    Listing <- MCListing
    LateRefs = {d1, c3}
    Unknown = {k3}
    SmallPage = 1
    LargePage = 2
    MaxAttempts = 2
    MaxFaults = 2
    CreditCap = 3
    Place <- MCPlace
    InScope = {d2, c2, d3, c3, d4}
    Mistyped = {d1}
    Nameless = {c3}
    Unredactable = {d4}
    Threshold = 2
INVARIANTS PaidBeforeClick OneFileOneBundle NoSecondDownload
PROPERTIES BrowserKeepsItsPromise EventuallySettled
CHECK_DEADLOCK FALSE
