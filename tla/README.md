# A formal model of the Polish Corporate Distress Radar

The radar collects the filings and legal events of Polish companies, parses them,
assembles point-in-time features, fits and serves distress models, and publishes
scores and alerts. Everything it publishes rests on a raw layer that must never
lose or mix documents, on labels that must not claim a survival they cannot know, on
features that must not know the future, and on chains of scheduled runs that must keep
going. The modules here describe those parts in TLA+; TLC checks them on small instances,
and TLAPS proves the most important results for every instance. `PROJECT.json` ties each
definition to the source lines it stands for, each property to the hazard it is about, and
each run to what it shows.

## The system

Paths are under `src/src/distress_radar/` unless they name another directory.

| Part | State it keeps | Operations | Interacts with | Correct when |
|---|---|---|---|---|
| raw store (`acquisition/raw_store.py`) | objects and sidecars in MinIO | `put_raw`, `exists`, `get` | every acquisition step, the parser | a sidecar means a complete document; the first metadata stays |
| raw manifest (`acquisition/manifest.py`) | `raw_documents`, `raw_document_fetches` | `insert_raw_fetch` in the caller's transaction | raw store (objects first, rows after) | what is listed can be read |
| redaction (`acquisition/redaction.py`) | none | redact a download, find markers | every import, the migration | what it returns is stable and holds no marker it looks for |
| redaction migration (`acquisition/redaction_migration.py`) | none of its own | scan, replace, repoint, delete | raw store, every table that names a hash | nothing is lost and nothing marked is left |
| filing index (`manifest.py`, `har_import.py`, `script_import.py`) | `filing_index`, `rdf_listed_entities` | list, detail, download, script listing, ZIP | raw store, parser, RDF queue | one row per document whichever source names it |
| live RDF retrieval (`acquisition/document_retrieval.py`) | the browser's page, circuit breaker | listing, detail, download | filing index | a file is its document's; every click is paid for |
| script searches, RDF queue (`script_import.py`, `rdf_queue.py`) | `rdf_listed_entities`, the queue file | import of searches, next companies | filing index, owner's script | an outage is not an absence |
| sampling, discovery, registration (`sampling.py`, `universe_discovery.py`, `regon_client.py`) | `universe_draws`, candidates, `entity_master` | draw, list, look up | population, weights | probabilities are exact; an outcome is the register's |
| legal registers (`krs_extract.py`, `msig_client.py`, `dagster_defs/assets/legal.py`) | `legal_source_fetches`, `msig_notices` | per-company fetch and commit | legal events | a cutoff is never ahead of what was read |
| legal events and labels (`parsing/legal_events.py`, `transform/models`, `labels.py`) | `legal_events`, grid, frozen label sets | rebuild, freeze | model datasets | no false survival, no undone outcome |
| orchestration (`dagster_defs/`) | run queue, run tags, sensor cursors | schedules, sensors, retries | every asset | every success reaches what depends on it; retries are bounded |
| source client (`acquisition/base.py`, `availability.py`) | rate-limit buckets, HTTP cache | `get`, retries, probe | registers, orchestration | a source that is down is told from a failed request |
| parsing (`parsing/`) | `parsed_documents`, quarantine events, canonical facts | unwrap, pair, map, check, grade, restate, class | features | a file speaks for one filing; a re-parse repeats itself |
| features (`features/`) | `feature_store` | panel, as-of assembly, leakage check | models, alerts | a feature is what was known on its day |
| warehouse (`warehouse.py`) | Parquet datasets | replace, read | all later steps | derived datasets agree with what they came from |
| models (`models/`) | registry versions and aliases, `scores_history`, exclusions, intervals | backtest, promote, score, refit | alerts, publication | the last weighted verdict serves; a score keeps its horizons and its interval |
| alerts, monitoring (`alerts/`, `monitoring/`) | `alerts`, reports | insert once, acknowledge, report | API | an alert is raised once and keeps its reason |
| text extraction (`extraction/`) | stored responses | request, store, replay | features | a response is stored once |
| API, explorer, methodology, publication, site | none | read-only queries | stored results | small cells are suppressed |

What is hard here: several processes write one object store and one manifest and can
stop between any two calls; object-store writes do not roll back with the database; two
sources name one document differently and are imported in any order, repeatedly; a web page
answers late, twice or with a gate while its rows are reused; an outage looks like an
absence; register entries are published late, without dates and by two sources, and a label
must be worth the same on every later day; filings are corrected, deleted, re-parsed and
restated after the month their features are for; derived datasets are written by assets that
run alone and die half way; versions, scores, intervals and alerts follow each other while the
version served moves. `PROJECT.json` "hazards" lists these at their lines; a hazard no property
covers says why.

## The modules

```
DocumentArchive <-- RawStore <-- RedactionMigration       FilingBrowser <-- RdfBrowser <-- RdfRetrieval
  (abstract)                           |                    (abstract)
                                 FileRedaction (in the instance)

LegalEvents <-- LegalLabels                               FilingIndex   ScriptSearches   Universe
                                                          Orchestration ModelRegistry    ModelScores
StatementFiles <-- AccountingIdentities <-- SizeClass <-- FeaturePanel <-- FeatureFamilies <-- FeatureStore
                                                                            WarehouseJobs <--------+
```

`RedactionMigrationProofs`, `RdfRetrievalProofs`, `FilingIndexProofs`, `LegalLabelsProofs`,
`OrchestrationProofs`, `ModelRegistryProofs`, `ModelScoresProofs` and `FeatureStoreProofs` each
extend the module they are named after by its theorems and their proofs; those of RawStore, which
RedactionMigration extends, come first in `RedactionMigrationProofs`, and those of WarehouseJobs,
which FeatureStore extends, are in `FeatureStoreProofs`.

`MC...` modules are the instances TLC checks. A definition named as a mutant in its comment is a
plausible slip in the definition that follows it. No `Next` uses one; it documents what the
run's properties can tell apart.

**DocumentArchive** is what the raw layer promises: a document is archived at most once
with the metadata of one fetch, and catalogued only when archived. It knows neither
sidecars nor transactions.

**RawStore** models `put_raw` call by call. `BeginPut` is the check for the sidecar,
`PutObject` and `PutSidecar` the two conditional writes, `InsertRawFetch` the manifest
rows, `Commit` the transaction's end, and `Crash` may come between any two of them and
loses what is uncommitted. `objects` and `sidecars` are MinIO, `rawDocuments` and `fetches`
the committed rows, `uncommitted[w]` the rows writer `w` alone sees. A document is its own
hash.

**FileRedaction** is `redaction.py` over nested files (ZIPs, signatures, containers, statements
with payloads, PDFs), abstracted to what the redaction and the marker check look at: `Redact`
and `RedactDownload` are the one, `FileMarked` and `Marks` the other. They are recursive
operators, so no module to be proved about extends this one.

**RedactionMigration** composes RawStore's writers with an importer, the parser and the
migration. What the redaction makes of a document is its constants (`Marked`, `RedactAs`), which
the instance takes from FileRedaction. `Deploy` brings a new redaction version; `MigScan` reads
the manifest, `MigRedact` ... `MigDeleteSidecar` replace one document by its redacted form call
by call, `MigRepoint` changes the rows inside the open transaction, `MigCommit` and `MigAbort`
end it. `moved` is the transaction's uncommitted effect; `Viewed...` operators are what the
migration reads through it. A bundle (a ZIP of several filings) can be redacted only while its
members' names are known; a document the redaction cannot clean is refused.

**FilingIndex** is the `filing_index` of one entity. Its actions are the committed steps of
both importers: `HarList`, `HarDetail`, `HarDownload` for the captures of the RDF site;
`ScriptGroup`, `ScriptCorrection`, `ScriptZip` for the scripted downloads; `RdfDeletes` is
the source. A row is keyed by RDF's id or by `id-<number>`; `Target`, `Candidates`,
`ScriptKey` and `DropDuplicates` are the code's decisions about when two keys are one
document. What a document *really* is comes from the constants `Original` and `Kind`, so a
property can compare a row with the truth. Two originals may be of one kind (`Confusable`): while
neither has a number the script takes the captured row of the one for the other. Uncoded kinds are those whose list and listing
names do not map to one another.

**FilingBrowser** is what the retrieval asks of RDF: one call at a time, answered by what was
asked for or by an error. **RdfBrowser** is the Chromium page that keeps this promise: clicks,
marks in the log of answers, tokens paid per request, rows left expanded, retries with and
without a reload, answers that arrive late, gated or not at all. **RdfRetrieval** runs the two
assets over it: list lookups, then detail and download of what is owed, with the circuit
breaker, a commit after each step, runs that die, and RDF adding statements and corrections
meanwhile. Two refusals depend on a document alone: a bundle with a nameless member (`Nameless`) is
refused before RDF is asked (`Refuse`), a file the redaction cannot clean (`Unredactable`) when it
comes.

**ScriptSearches** is the owner's script and the import of its log: `SearchWhole`, `SearchCut`,
`SearchLost` append lines, `ImportSearches` decides which are believed (`Held`, noted spans,
`CompleteSearch`), `ImportDocuments` indexes, `WriteQueue` orders who is searched next, and
connections are lost and regained.

**Universe** holds both draw designs and their probabilities (`Pi`, `PiIn`), the log checks
(`Accepted`), discovery, the lookups at BIR1, and the population and its weights (`Backtest`). A
lookup is a search and two reports, each asked as `_with_session` asks: `Ask` logs in when there is
no session; an empty answer leads to `AskStatus`, which gives the candidate up while the session is
live and else logs in once more, and `AskAgain` asks a second time. `SessionExpires` may come before
any of these calls. `Judge` reads a search, `Resolve` the reports; an answer of the kind the code
catches (`GiveUp`, `CallFails`) leads to the next candidate, one it cannot parse ends the run
(`EndRun`), as a transient error that outlasts its retries does (`RunStops`).

**LegalEvents** holds the pure part of the labels: `finalise`'s grouping of rows into
events (`Anchor`, `Group`), the canonical reading of a group (`EffectiveDate`,
`KnownFrom`, `LabelClass`), and one row of the outcome grid (`Excluded`, `Triggers`,
`AliveLimit`, `Outcome`). Each row carries `decided`, the true day of its event, which no
operator of the code reads.

**LegalLabels** runs it: `StartCheck`, `FetchKrs`, `FetchMsig`, `RebuildEvents`,
`BuildLabels`, `Freeze` are the assets of the job `legal_to_labels` in their order,
`StopRun` a failure before any of them, `Features` the offline rebuild of `legal_events`
and `ChangeVocabulary` a new notice vocabulary, which hides every notice reduced under the
old one until the next search. `history` is everything the two registers will ever
publish; `fetched` the days of `legal_source_fetches`; `eventsOf` the day up to which
`legal_events` holds each source's rows; `frozen` the label sets.

**Orchestration** is the Dagster side: `Night` and `Evening` the clock, `ByHand` the owner,
`Launch` the queue with one run at a time, `Fetch`, `EndCheck` and `EndRun` the runs,
`Follow` the five chaining sensors (`Chain`), `RetryTick` and `RetryProbed` the two halves
of `registry_check_retry`: what it reads, and what it does once the probes are answered.
Between the halves any other step may come. `SensorsOn` is the set of sensors the owner
has turned on, since every sensor ships stopped.

**StatementFiles**, **AccountingIdentities**, **SizeClass**, **FeaturePanel** and
**FeatureFamilies** are the pure part of the way from a stored download to a feature:
unwrapping and pairing with the filing index, mapping to canonical facts under a configuration;
identities, grades, suspicion of a file's unit and signs, restatements; size classes from
criteria known within bounds; the versions of a period's figures by day; the ten families of
features, each with the day its facts became known. What a configuration must satisfy to be
loaded are assumptions, which TLC evaluates.

**WarehouseJobs** is how the assets run: `ParseFiles` and `GradeFiles` the two transactions of
the parsing asset, `WriteCanonical`, `WriteChecks`, `WriteDisclosures`, `BuildRestatements`,
`BuildSizeClasses`, `BuildFeatures` the dataset replacements, `CheckStore` the blocking leakage
check; a run takes one asset or several, refuses missing or stale input, and dies at any step
(`Crash`) or between the two renames of a replacement (`CrashInReplacement`). Between runs rows
are imported, deleted, and another mapping configuration is deployed. What the assets compute
are operator constants, so the module stands alone. **FeatureStore** defines them from the pure
modules (its configuration names which definition is which constant), and adds the grid and
`known_on`, the observer of `features/leakage.py`.

**ModelRegistry** is the champion rule over what each comparison found, the registration of a
backtest's versions call by call and horizon by horizon, and the aliases `incumbent` and
`champion`; a run may die between two calls. **ModelScores** is what the served versions make:
scores and exclusions, intervals that come later, alerts after features and again after
scoring, while versions move, feature rows are rewritten and companies come and go.

## The runs

`tlc -workers 2 -config <cfg> <module>` repeats one, with module and configuration `MC...`;
each takes between two seconds and two minutes.

| Run | Instance and bounds | States | What it shows |
|---|---|---|---|
| `raw_store` | two documents, two writers, one put or transaction each at a time | 14,178 | `ListedDocumentsComplete`, `FirstMetadataKept`, and that RawStore implements DocumentArchive (`ImplementsArchive`), with crashes at every call |
| `redaction_migration` | a bundle of two filings, one detail, their redacted forms, a document that cannot be cleaned, one importer | 1,650,132 | `ReferencesListed`, `LostObjectHasReplacement`, `RunNamesItsBundles`, `CommitCleans`; before it starts, that redaction of every file nested twice is stable (`RedactionIsStable`) |
| `filing_index` | an original with its correction, and a second original of the same type and period | 67,014 | `OneDocumentPerRow`, `DetailNeverRefused`, `CorrectionsKeepTheirOriginal`, `ReimportAddsNothing` |
| `legal_labels` | 14 register histories; a month is 2 days, horizon 1 month, launch on day 4, lag 1 month, petition expiry 2 months, adoption window 3 days, days 5 to 8, at most 2 frozen sets | 129,206 | `AliveIsTrue`, `EventsReachCutoff`, `OutcomeNeverUndone` |
| `training_labels` (MCLegalLabels) | the same | violated | `TrainingLabelsKnown`, the finding below |
| `orchestration` | the retry sensor beside a chain to the alerts; 1 night, 1 check or import by hand, 6 changes of the sources, 2 retries | 208,459 | `RetriesBounded`, `SuccessReachesAll`, `MaintenanceIsOvercome` |
| `rdf_retrieval` | an entity with three documents over two pages and two corrections, one filed late with a late document; one of them nameless, a document that cannot be redacted; one empty list, one unknown entity; pages of 1 and 2 rows, 2 attempts, 2 faults | 307,462 | `PaidBeforeClick`, `OneFileOneBundle`, `NoSecondDownload`, `EventuallySettled`, and that the browser implements FilingBrowser (`BrowserKeepsItsPromise`) |
| `script_searches` | two companies, one unknown to RDF; a suspected outage is a run of 2, logs of 2 lines, 1 fault, days 0 and 1 | 102,960 | `CompleteMeansListed`, `FilingsIndexed`, `EveryCompanySearched` |
| `universe` | a frame of six, two distress statuses that overlap in one company, both designs, four frame orders, one malformed line; of the six a person, one with empty reports, one with unreadable ones, one refused for two reasons; 2 expiries, failures or stops | 103,895 | `PiIsTheChance`, `OutcomesAreTheRegisters`, `GroupsKeepTheirWeight`, `CandidatesSettle` |
| `model_registry` | two horizons, two challengers, two feature sets, 3 backtests, 1 crash | 1,241,876 | `VerdictGoverns` |
| `model_scores` | two horizons, two versions trained on different feature sets, one company, two inputs, two months, 1 rewritten row, 4 moves, refits that reproduce or not | 300,722 | `HorizonsScoredTogether`, `ScoreAlertsStand`, `IntervalsAreOfTheScore`, `CrossingsAlerted`, `IntervalsArrive` |
| `feature_store` | two companies, five stored downloads (nested, multi-member, corrected, in another unit, unmappable under the first configuration), eight filings, two configurations, one deletion, all ten families, month-ends on days 7 to 15; 3 runs, 3 changes | 53,770 | `NoLeak`, `OneFilePerFiling`, `DecidedClassStands`, `Reproducible`, `RestatementsCurrent` |

Why these bounds suffice. Two writers and two documents are the least on which a put can
race a put of the same and of another document; every property speaks of one document, or
one document and one writer. The migration needs a bundle with two members to be
unnameable, one detail to make it so, and a document its own redacted form could replace. The
index needs a pair of original and correction (the only relation between rows) and a second original
of the kind, which the sources pair too easily before either has a number, and not at all when both
are captured; a kind whose names do not map to one another is the latter case, and the proofs'. The label days are scaled so that a window, the lag,
the launch and the adoption window all end inside the modelled days with at least one day on
either side; the histories combine dated and undated rows, one case and two, petitions,
proceedings and deregistration, late publication, and both sources. Six source changes are what
two retries of one chain, each stopped anew, and a recovery need; a night and a run by hand put
two chains into one queue. A retrieval needs a second page, a bundle of two, a bundle that
grows, and a fault in each of two attempts; one member without a name makes every bundle with it a
refused one, and one file that cannot be redacted must not keep the others waiting. A lookup needs
an expiry before an ask and another between the second login and the second ask; that an unreadable
answer is before other candidates in some draws and undrawn in others is what lets `CandidatesSettle`
and the backtest both say something. A suspected outage is 2 searches instead of 20, so a
lost run can be shorter, as long, or cut by a noted span. The draw needs an overlap of the
two statuses and of each with group A, or no probability counts two runs; the share over all
720 orders of the frame is computed outright. Three backtests are a weighted one, one that dies
and one after it; two horizons are the least that can be left on different verdicts. The
features need a correction and a restatement of one year, a company whose files share a ZIP,
and a deletion inside the month-ends; three runs are what builds a store, changes part of its
input, and rebuilds part of it.
Bounds that are not of the code: the counters `nights`, `byHand`, `outages`, `faults`,
`MaxSets`, `MaxLines`, `MaxBacktests`, `MaxCrashes`, `MaxMoves`, `MaxRevisions`, `MaxMonth`,
`MaxRuns`, `MaxChanges`, and `CreditCap`, past which paid tokens are not counted; it is at least
2, the most one click costs, so that a click is never affordable only beyond it. The
repository's `MAX_RETRIES` is 3; the run takes 2, one being the first retry and the other a
retry of a retry.

Where imports, nights, days, faults, backtests, moves or changes are used up a system may
simply stop, so all configurations but those of RawStore, RedactionMigration and LegalLabels
turn off the deadlock check.

### Fairness

RawStore, RedactionMigration, FilingIndex, LegalLabels, ModelRegistry and WarehouseJobs state
safety only and assume no fairness: any of their processes may stop for good. The others:

- Orchestration: weakly fair for the 02:00 schedule, the queue, each source's fetch, the end of a run, each
  sensor that is on and the retry's two halves. The Dagster daemon re-evaluates sensors and the
  queue on every tick, requests and probes have timeouts, and a run executes alone, so no step
  is disabled again by a competitor; the owner and the sources are not fair, and a night may
  pass without its check (Dagster down, a tick is not caught up). `MaintenanceIsOvercome`
  assumes besides that the sources stay up from some day on. Runs being bounded, `[]<>` in both
  liveness properties means that the debt does not remain.
- RdfRetrieval: the assets are run again and again, the browser's calls have timeouts, and the
  page answers or fails; faults are bounded, deaths of a run and RDF's changes are not fair.
- ScriptSearches: the queue job is scheduled, the owner imports and delivers again, an outage
  ends, and a company searched again and again is not cut short every time (strong fairness:
  an outage disables the search).
- Universe: the lookup asset is materialized again until nothing is left, and a lookup's calls are
  made or fail (weak fairness of `StartRun`, `Ask`, `AskStatus`, `AskAgain`: all calls have
  timeouts); expiries, failures and stops are bounded and not fair.
- ModelScores: alerts and intervals are computed again and again once they can be; versions,
  features and scoring are not fair.

### Finding

`training_labels` checks a statement of the repository that its code does not keep; TLC's trace
is the evidence, and `PROJECT.json` "findings" quotes both sides. A training row counts as
settled on the day its event's first notice was published, even when that notice carried no
date and the date came later from the other register: on that day the row's label was another.

### Known disagreements

Some modules state further sentences of the repository that its code does not keep. No run
checks them; adding the named definition as an `INVARIANT` to the named configuration shows the
counterexample.

- `OthersSettle` (MCUniverse, as a `PROPERTY`): `entity_master` catches `PermanentSourceError`
  (`dagster_defs/assets/acquisition.py:256`), which is said to cover a "malformed or unexpected
  response" (`acquisition/base.py:60`) and to leave that candidate for the next run
  (`assets/acquisition.py:226`); an answer that cannot be parsed raises `XMLSyntaxError` or
  `ValueError` (`regon_client.py:255,269`) and ends the run. The candidates are taken in the same
  order every time, so those behind it never get an outcome. `CandidatesSettle` is what holds.
- `DetailCompletesItsRow` (MCFilingIndex): a list is captured before a second original of one type
  and period is filed; the script lists the second, and gives its number to the captured row of the
  first. Captured later, the second original's detail does not complete "the row already holding the
  same `idDokumentu` under another key" (`manifest.py:640,688`), because only `id-` keys are looked
  up (`:653`), and runs into the unique index (`:238`) with an error `har_import.py:453` does not
  catch. `DetailNeverRefused` excepts it (`TakenFor`).
- `NothingLostBetweenRuns` (MCRedactionMigration): the per-document `conn.transaction()` of
  `redaction_migration.py:216` is a savepoint of the transaction the scan opened, so objects are
  deleted before anything is committed; a later failure leaves the manifest naming objects that
  are gone. `LostObjectHasReplacement`, which does hold, says how to recover.
- `ScanSeesEveryObject` (MCRedactionMigration): the scan reads the manifest
  (`redaction_migration.py:89`), so an object whose writer stopped before its commit is never
  scanned, although the docstring speaks of every stored object.
- `QuietNightFreezesNothing` (MCLegalLabels): the cutoff date is part of a label set's hash
  (`labels.py:123,152`), so a night without any new event freezes a new set, against
  `dagster_defs/schedules.py:19-20`.
- `StopsAfterGates` (MCRdfRetrieval, with `MaxFaults = 3`, `MaxAttempts = 1`, `Threshold = 3`): a
  gated corrections list is a shape error (`document_retrieval.py:945`), so the breaker never
  counts it, against `docs/adr/0007-rdf-access-probe-results.md:85`.
- `QuarantineCountsAreCurrent` (MCFeatureStore): `asof_assembly.py:262` reads every
  `parsed_documents` row, those of earlier mapping configurations included, although
  `parsing/manifest.py:14-16` calls the latest run's rows the current ones.

Read off the code while it was modelled, and left out of or worked around in the properties:

- `PiIsTheChance` speaks, in the permutation design, of companies outside the distress statuses
  only: a drawn one's probability counts how many of the first `n` carry its status, which
  depends on the order drawn (`sampling.py:342`), and malformed lines count in the frame's size
  although they cannot be drawn.
- `IntervalsAreOfTheScore` holds until a feature row is rewritten; after that the interval is of
  the new row (`models/intervals.py:119`).
- A document detailed alone, not downloaded, and then corrected is refused at every later
  download (`document_retrieval.py:1421`); `EventuallySettled` excludes it (`Outgrown`).
- A size class is called one no missing figure could change, but a missing filing of the year
  before counts as nothing to carry over (`size_class.py:383`); `DecidedClassStands` excludes
  those years.
- A payload in parsed XML that is only a signature stays (`redaction.py:400`) while the check
  marks it; an unparsed one is refused (`:256`). The RDF route stores without that check
  (`document_retrieval.py:1352`).
- `docs/plans/0019-list-draw-weights-provisional-champion.md:313-316` says a later lists-only run
  cannot undo a weighted verdict; after a weighted verdict that promoted nobody, an unweighted
  promotion sets a provisional champion all the same (`models/registry.py:395` looks for a final
  champion only). `VerdictGoverns` allows it.
- A feature alert is said never to change when later facts arrive (`alerts/rules.py:8`), but it
  reads feature rows that are rebuilt; `ScoreAlertsStand` is about score alerts.
- A deleted filing is left out of the next parse (`parsing/manifest.py`, `deleted_on IS NULL`)
  though the panel still uses the deletion's date; a second filing row on the same download makes
  a file that used to be paired ambiguous; restatements of a deleted filing count until the next
  parse. `Reproducible` therefore compares parses of equal standing filings.

## The proofs

All theorems are checked by `tlapm` to the last leaf, on SMT (Z3), Zenon and LS4.

**RawStore** (in RedactionMigrationProofs), for any sets of documents and writers. The two properties are not
inductive as they stand: that a listed document is complete depends on what its writer
did before. `IInv` adds `SidecarMeansObject` (a sidecar is written only after the object,
and nothing is deleted) and `WriterProgress` (at `put_sidecar` the object is stored, at
`insert_raw_fetch` both are). `IInvHolds` proves it by one step per action. From it follow
`TypeCorrect`, `ListedComplete`, `FirstMetadata` (a sidecar once written never changes)
and `RawStoreImplementsArchive`: the initial states map, `PutSidecar` maps to `Archive`,
`Commit` to `Catalogue`, all other steps stutter. The assumption `SentinelAssumption` says that
the two sentinels are no document and no writer.

**LegalLabelsProofs**, for any calendar, horizons, lag, launch, grid start and register
histories. `IInv` is `TypeOK` with `CheckProgress` (what each stage of the job has already
read), `MartIsTrue` and `FrozenIsTrue` (a row of the mart, or of any frozen set, that is
alive had no labelled event decided in its window). The heart is the lemma
`LabelsAreTrue`: if every register row published by the cutoff was read, a labelled event
decided inside the window would have been published with its date within the lag, would
form a group whose effective date lies in the window, and would trigger; it rests on
`AnchorOfDated`, `OneDatePerGroup`, `OneClassPerGroup`, `EventIsNotAlive` and
`ReadEventTriggers`. The theorems are `TypeCorrect`, `FrozenAliveIsTrue` (`AliveIsTrue`) and
`LabelsReadUpToCutoff` (`EventsReachCutoff`). The assumptions: `CalendarAssumption` and
`BoundsAssumption` fix the types of the constants; `HistoriesAssumption` says of every
history that `RegistersAnswer`: a date given is the true one and is published on it or
later; rows of one case and kind describe one decision; and a labelled event is published
with its date within the lag, or by the first fetch if it precedes the launch. That last
clause is the repository's engineering choice, not a fact about the registers:
`config/labels/outcome_labels_v3.yaml` itself records a delay of 21 months against the lag
of 12. The theorem says that under it no order of fetches, failures, rebuilds and
vocabularies makes a frozen set claim a false survival. `OutcomesStand` (`OutcomeNeverUndone`) goes
on from there: `SetsToldApart` says that an outcome has, and an alive row has not, a labelled row of
the history read in its window, which no longer speaks of when a set was built. An undated notice
whose event was decided before the window is the hard case; the dated row of that event, read by
then, must exclude the row (`DecidedBeforeExcludes`), and it does if `NoticesInTime`, the theorem's
hypothesis, which TLC evaluates on the run's histories.

**RedactionMigrationProofs**, for any documents, filings, writers and any redaction. Here objects
are deleted, so RawStore's invariant does not hold. `Stored` takes its place: a document with a
sidecar, a document some writer is past storing, one it has listed or will list, is `Safe`, that
is, kept (stored, or with a complete and clean replacement), and stored if unmarked; a run deletes
only what is marked, and only after its unmarked replacement is complete (`RunProgress`), so what is
safe stays safe. `DownloadsFirst` (no detail is replaced while a download is left) and
`RestIsLetIn` (what a run will not have replaced came in under the new redaction) complete
`MigInv`. The theorems are `ReferencesStayListed`, `NothingIsLost`, `BundlesAreNamed`,
`CommitLeavesLetIn` and `CommitsClean`. The last one is `CommitCleans` under the hypothesis
`MarksLeftStay`, that the redaction changes nothing of what it let in and the check still marks;
`FileRedaction` decides that, TLC evaluates it in the run as `MarksAssumption`, and
`CommitLeavesLetIn` is what remains true of a redaction without it.

**RdfRetrievalProofs**, for any entities, documents, corrections filed late, pages, attempts and
order of the pending list. The browser's half of `Inv`, `PageInv`, says what may be in flight: while
the page need not be reloaded, everything but a late detail of an earlier call is what the call in
progress waits for, at most one such request is on its way (`OneRequest`, `OfThisCall`), and what the
browser believes of the page is so (`Beliefs`). Hence an answer is of what was asked (`AnswerOK`),
which is the refinement of FilingBrowser (`BrowserImplementsPromise`): a call maps to a call, the
step that settles one to its answer, and everything else the page, RDF or the flow does stutters.
`PaidFor` needs only `TokensCover`. The flow's half, `FlowInv`, relates three views of one document
that are read at different times: RDF's bundle, the rows, and the list the run read when it
started. The rows of a document share one file or have none (`SharesTheFile`); a detailed row's
bundle has its rows (`BundlesFit`); a bundle RDF answered covers every row there is, late corrections
included (`LogCovers`, `AnswerCovers`); and the list is out of date only about rows whose file this
run has saved (`TodoFits`). From it follow `FilesAreOfOneBundle` and `NothingDownloadedTwice`.
`SourceAssumption`, `RowAssumption` and `BrowserAssumption` fix the types of the constants and that
an original is its own original; a correction belongs to its original's entity.

**FilingIndexProofs**, for an entity with any documents and corrections, of any kinds, without a
hypothesis. None of the four properties is inductive: which row the script takes for a document, and
which one a detail drops, depends on what the rows hold. `WellFormed` says it. A row without a number
is the bare list row of an original, and a numbered row is of its number: if its key names another
document, it is a captured row the script took for one it could not tell apart, whose own detail
RDF has not given (`RowStory`). No number is on two rows (`UniqueNumbers`), so the script finds a
document it has listed by its number and takes nothing else for it (`NumberedOnce`). A row some
correction points at is an original's and has a number (`PointsHome`), as have the rows a bundle
names (`BundleThere`): what a detail drops is a row without one, so nothing points at it.
`DetailKept`, `GroupImported` and one lemma for each other step keep it; the second import of a group
finds every row numbered and changes nothing (`ReimportIdempotent`).

The rest have smaller invariants. In **OrchestrationProofs**, for any limit and sensors, `NumberedOnce` (no two retries of
a chain carry one number) is what bounds a chain, since the tags a retry carries do not count its
chain; it rests on `TagsTell` and on one run per run key. `ChainsBounded` then maps a chain's
retries one to one into `1 .. MaxRetries`. In **ModelRegistryProofs**, for any horizons, challengers
and crashes, `RegisteredSoFar` says that the horizons behind a weighted registration are on its
verdict, and `MadeIsDue` that a version is made only for a role the rule does not pass over, so an
unweighted run cannot move what a weighted verdict set; `RegisteredVerdictGoverns` follows. In
**ModelScoresProofs**, for any horizons, versions and alert rules, scores are of month-ends reached
(`ScoreTypes`) and, until a row is rewritten, read off the stored rows (`ReadFromRows`); the
theorems are `ScoredAtEveryHorizon`, `AlertsStand` and `IntervalsHold`.

**FeatureStoreProofs** has two layers. The first is about the runs alone, for any parsing, mapping,
grading and restatement operators: `DraftIsCurrent` and `ProducedStands` say that what is in memory
and what was ever written are functions of the filings, the configuration and the first runs
recorded, and `OneFirst` that those never change. `IInvHolds` gives `FactsReproduce` and
`RestatementsOfTheStore`.

The second is what the leakage check is there for, `NothingLeaks` (`NoLeak`): whatever is filed,
mapped, corrected, deleted or imported again, and whichever features and days are computed, the check
finds nothing in the store just built. Its two halves are lemmas about the operators, over sources
that are `WellDated`:

- a feature computed of what `known_on` leaves of the sources is the feature computed of all of them.
  `known_on` cuts rows off and takes back deletions, and every family is followed through it: the
  panel's candidates, its living sources and the versions of its periods (`PanelByDay`), the filings
  of several parts, deleted when the last one is (`FilingsByDay`), the classes of each day of an
  entity's history (`HistoryByDay`), the events, which count from the day first seen (`EventByDay`);
- no value is known later than the day (`KnownBy`), although its date is the latest of all it rests
  on: `PanelValueBy`, `RestatementToAssetsBy`, `FilingValueBy`, `EventValueBy`, `FileValuesBy`.

That the sources of a store are well dated is `DInv`, which no step breaks. What a run has drafted,
and what is stored, is dated by the filings it is of (`SourcesDated`, `StoresDated`): a file maps only
onto a row with a submission day (`MapsDated`), grading, restating and introductions add no row of
another day, and an import or deletion keeps every filing's day (`ImportDated`, `DeleteDated`).
The draft has one file per filing (`DraftUnshared`), from which `FilesSpeakOnce`
(`OneFilePerFiling`): within a download, pairing is one to one whatever the names
(`PairsOneToOne`), and a path has one content (`ContentByPath`). `DraftStored`, that the facts stored
while introductions are written are the draft, is for `RunsDateTogether`.

Its hypotheses are three. `Configured` says that the operator constants of WarehouseJobs are
FeatureStore's definitions, which is what the configuration of the run says. `SeenInOrder` is about
the registers: of two dated registrations of one company the earlier is not seen later. Otherwise the
first year of activity, and with it a size class of a past day, would change when the earlier one
appears, and the check would refuse the store. `DisclosedInTime` is about the store: no introduction
of a file is younger than its facts. Facts and introductions are two datasets, and a run that dies
between them, after filings were imported in between, leaves introductions of another day than the
facts; a feature run alone could then build a store of both. `RunsDateTogether` shows that every run
that reaches the introductions leaves the two in time, and TLC finds no such store in the run.

TLC evaluates every assumption in the runs; every conjunct of the inductive invariants was checked
on the run of its module before it was proved. The `TypeCorrect` theorems are about `TypeOK`,
which no run repeats.

Only model-checked: the properties of ScriptSearches and Universe, and `DecidedClassStands` of
FeatureStore, which quantifies over completions of a year's missing figures. Out of the prover's
reach are all liveness (`SuccessReachesAll`, `MaintenanceIsOvercome`, `EventuallySettled`,
`FilingsIndexed`, `EveryCompanySearched`, `CandidatesSettle`, `CrossingsAlerted`,
`IntervalsArrive`), `ENABLED`, induction over data, hence what the recursive function over an
entity's years (`YearClasses`) computes, of which the proofs use only that it is a function of the
latest filings, and what rests on a recursive operator: FileRedaction.

## What is not modelled

- Raw store: the bytes. Hashing is assumed collision-free.
- Redaction: reading PDF, CMS and XML bytes, which filings a token of a member must belong to, and
  the redaction of registry extracts. Migration: the columns `submission_date_sha256` and
  `listing_sha256` and the table `rdf_listed_entities`, which it does not repoint and which end in
  its error path. An importer that was started under the old redaction and still runs when the new
  one is deployed (`Deploy` waits for idle writers); the scan is one step.
- Filing index: rows that were detailed before the number column existed and their
  backfill, pairing by file name inside a ZIP, pairing by the date prepared, byte-identical
  twins, submission dates from the owner's list. Two originals of one type and period that only the
  list knows stay two rows until a detail merges them, as plan 0014 decides.
- RDF retrieval: more than one row open on the page at a time; which member of a bundle has no name,
  beyond that one has none; the fields of an answer (a wrong shape is one error), the `max_documents` slice,
  `only_krs`, deleted filings, the rate limiter's pacing.
- Script searches: the rows of `documents.csv` beyond how many statements a search listed;
  FilingIndex models what they do to the index.
- Universe: a registration's fields beyond what decides its outcome, the reconciliation log of
  seed hints, `draw_order`, the logout at a run's end. The status question and the login it leads to
  are one step. Of the permutation design the hash is any of four orders.
- Legal events and labels: reading an extract or a notice into rows, and the notices quarantined
  on the way (a warning check reports them; the labels then rest on the other register); two case
  signatures that only a later row shows to be one case; the registration date; regime and era
  flags; a return to an older vocabulary; the refusal of other mapping versions. Where the code
  breaks a tie by the order of a hash, the model takes some member (`CHOOSE`).
  `OutcomeNeverUndone` is checked, and proved, for histories that are `NoticesInTime`: no undated
  notice of a proceeding is published after the proceeding's closing, or of a petition after it
  expired. Such a notice, once its date is read, moves an outcome out of its window.
- Orchestration: more than one run by hand beside a night, so that an import overtaking another at
  the asset sensor is hardly met; the `rdf_queue` schedules, the jobs that are only started by hand, switching
  a sensor while runs wait, and runs started outside the queue. A check started by hand while the
  probes run is followed by the retry all the same (`sensors.py:167`); it fetches once more. A
  maintenance page with a 5xx status is a failed request in the code (the status is checked
  first) and here. That an asset sensor sees the newest materialization only, and that a sensor's
  run key starts one run, is Dagster's behaviour as the wiring uses it.
- Parsing and features: the XSD engine (a document's violations are data), the rows of
  `quarantine_events`, wildcards in tolerance paths, a size class's basis and by-analogy texts;
  one legal form. Figures are small integers, a ratio is its numerator and denominator, a
  volatility its chain of ratios, a tripwire's coefficients halves. `legal_events`, `text_coverage`,
  `auditor_reports` and the fetch rows are constant while the warehouse jobs run; LegalLabels is
  where they change. Of two filings of one year known on one day the code takes the one with the
  greater hash and member; the model orders them by their number, which stands for that order.
  `NoLeak`, like the check it models, compares a store with an observer cut from the store's own
  sources: a filing deleted before a parse is in neither.
- Warehouse jobs: changes within a run. `max_concurrent_runs: 1` (`dagster_defs/dagster.yaml:17`)
  keeps runs apart; a script import started outside Dagster could come between two steps.
  Loading the manifest and writing the store are one step. Readers outside the runs (API, explorer)
  and the clean-up of staging directories are left out.
- Models: fitting and its numbers; a comparison is "short", "fails" or "passes", and a refit for
  intervals reproduces the served coefficients or not. Registry: a call
  that fails and is survived, two backtests at once. Scores: drivers, hashes, the interval's width.
  Alerts: `filing_overdue`, acknowledgement. The folds of the backtest (`models/splits.py`) beyond
  `settled_by`.
- The parts listed as not modelled in `PROJECT.json` "components": the personal data scan is a
  read-only report over the marker check modelled here; report import puts documents as RawStore
  does; text responses have one writer; quarantine marts, monitoring, evaluation, publication, API,
  explorer and site are queries, statistics or presentation over stored results, without
  interleavings of their own.

## Plan

The modules are written, and the invariants of eight of them proved. What is left, in this order:

1. *ScriptSearches*: `CompleteMeansListed`. *Universe*: `OutcomesAreTheRegisters`,
   `GroupsKeepTheirWeight`.
