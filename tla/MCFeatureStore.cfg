SPECIFICATION Spec
CONSTANTS
  Download <- MCDownload
  Bodies <- MCBodies
  ItemType <- MCItemType
  Roles <- MCRoles
  Formulas <- MCFormulas
  Unchecked <- MCUnchecked
  Tolerance = 0
  WarnShare = 4
  YearLength = 4
  MayBeNegative <- MCMayBeNegative
  ShareCapital = "capital"
  Thousand = 10
  MinShared = 2
  Regimes <- MCRegimes
  TotalAssetsLine = "assets"
  RevenueRules <- MCRevenueRules
  EmploymentItem = "average_employment"
  Inputs <- MCInputs
  UseQuarantined = FALSE
  FeatureSet <- MCFeatureSet
  Flows <- MCFlows
  Band <- MCBand
  LagTolerance = 1
  Tripwires <- MCTripwires
  ApprovalDays = 1
  FilingDays = 1
  Extensions <- MCExtensions
  StatementTypes = {"18"}
  Imports <- MCImports
  Deletions <- MCDeletions
  FirstConfig = "c1"
  MaxRuns = 3
  MaxChanges = 3
  Config <- MCConfig
  Configs <- MCConfigs
  ParseRows <- OutcomeRows
  MappedFiles <- FilesMapped
  GradedFiles <- GradedByVersion
  Disclosed <- IntroductionRows
  Restated <- RestatementEvents
  SizeClasses <- SizeHistory
  Unpairable <- UnpairableFiles
  Unassembled <- PanelError
  Leaks <- StoreLeaks
  StatementType <- MCStatementType
  LegalEventRows <- MCLegalEventRows
  Fetches <- MCFetches
  LabelSources = {"krs", "msig"}
  MonthEnds = {7, 9, 11, 13, 15}
  TextRows <- MCTextRows
  AuditRows <- MCAuditRows
  TopFigure = 4
CHECK_DEADLOCK FALSE
INVARIANTS
  NoLeak
  OneFilePerFiling
  DecidedClassStands
  Reproducible
  RestatementsCurrent
