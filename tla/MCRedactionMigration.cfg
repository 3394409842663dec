CONSTANTS
    bundle = bundle
    bundleNamed = bundleNamed
    bundleLoose = bundleLoose
    note = note
    detail1 = detail1
    detail1Clean = detail1Clean
    f1 = f1
    f2 = f2
    w1 = w1
    Content <- MCContent
    Writers <- MCWriters
    NoContent = NoContent
    NoRun = NoRun
    Filings <- MCFilings
    DownloadOf <- MCDownloadOf
    DetailOf <- MCDetailOf
    Marked <- MCMarked
    RedactAs <- MCRedactAs
SPECIFICATION ArchiveSpec
INVARIANTS
    ReferencesListed
    LostObjectHasReplacement
    RunNamesItsBundles
PROPERTIES
    CommitCleans
