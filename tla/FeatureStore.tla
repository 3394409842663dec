----------------------------- MODULE FeatureStore -----------------------------
(*************************************************************************)
(* Stored downloads to a leakage-checked feature store: the parsing,     *)
(* grading, size class, panel and family definitions run by the          *)
(* warehouse jobs.  The configuration gives the jobs' parameters as      *)
(*   ParseRows <- OutcomeRows         Restated <- RestatementEvents      *)
(*   MappedFiles <- FilesMapped       SizeClasses <- SizeHistory         *)
(*   GradedFiles <- GradedByVersion   Unpairable <- UnpairableFiles      *)
(*   Disclosed <- IntroductionRows    Unassembled <- PanelError          *)
(*   Configs <- DOMAIN Config         Leaks <- StoreLeaks                *)
(*************************************************************************)
EXTENDS FeatureFamilies, WarehouseJobs

CONSTANTS
  Config,         \* name of a mapping configuration -> the configuration
  StatementType,  \* statement -> the type of its lines
  LegalEventRows, \* legal_events
  Fetches,        \* the legal registers' latest fetches: [krs, source, day]
  LabelSources,   \* the sources a label needs
  MonthEnds,      \* the month-ends of the grid
  TextRows,       \* text_coverage
  AuditRows,      \* auditor_reports
  TopFigure       \* bound: figures a missing criterion of a size class may have

ConfigAssumption ==
  \A c \in DOMAIN Config :
    /\ ConsistentConfig(Config[c])
    /\ ConsistentSizeInputs(Config[c])
    /\ \A k \in DOMAIN Config[c].specs :
         LET units == Config[c].specs[k].units
         IN  /\ DOMAIN units # {}
             /\ \A u \in DOMAIN units : units[u] \in {1, Thousand}
    /\ \A f \in FeatureSet : f.family = "disclosure" =>
         \E v \in DOMAIN Config[c].introduction : f.item \in Config[c].introduction[v]

\* The columns of filing_index and legal_events that are read here.
IndexFields == {"krs", "ref", "sha", "type", "file_name", "start", "end", "submitted",
                "deleted", "correction", "pdf_name"}
EventFields == {"krs", "type", "date", "known", "removed"}

\* Rows are dated, statements have their file; what was read of a filing's files
\* is known once it is filed.
RowsAssumption ==
  /\ MonthEnds \subseteq Nat
  /\ \A r \in UNION Imports :
       /\ IndexFields \subseteq DOMAIN r /\ r.ref \in Nat /\ r.end \in Int /\ r.submitted \in Nat
       /\ r.type \in StatementTypes => r.sha \in DOMAIN Download
  /\ \A e \in LegalEventRows :
       EventFields \subseteq DOMAIN e /\ {e.known, e.date, e.removed} \subseteq Nat
  /\ \A t \in TextRows \cup AuditRows :
       /\ t.known \in Nat
       /\ \A r \in UNION Imports :
            r.krs = t.krs /\ r.ref = t.ref => r.submitted # None /\ r.submitted <= t.known

ASSUME ConfigAssumption
ASSUME RowsAssumption

----------------------------------------------------------------------------
(* The parsing asset *)

\* statement_sources: the standing statement rows of a stored file.
OfFile(rows, sha) == {r \in rows : r.sha = sha /\ r.type \in StatementTypes}
Files(rows) == {r.sha : r \in {s \in rows : s.type \in StatementTypes}}

UnpairableFiles(rows) ==
  \E sha \in Files(rows) : Cardinality({r.krs : r \in OfFile(rows, sha)}) > 1

Key(sha, o, cfg) == <<sha, o.member, SpecHash(cfg, sha, o)>>

\* A file that maps, with the filing it was paired with.
Maps(rows, sha, o, cfg) ==
  o.status = "valid" /\ \E r \in OfFile(rows, sha) : r.ref = o.ref
                           /\ MappingError(sha, o, r, cfg) = ""

Entity(rows, sha) == (CHOOSE r \in OfFile(rows, sha) : TRUE).krs

OutcomeRows(rows, c) ==
  LET cfg == Config[c]
  IN  UNION {{[key |-> Key(sha, o, cfg), krs |-> Entity(rows, sha), ref |-> o.ref,
               status |-> IF o.status = "valid" /\ ~Maps(rows, sha, o, cfg)
                          THEN "quarantined" ELSE o.status] :
               o \in Outcomes(sha, OfFile(rows, sha), cfg)} : sha \in Files(rows)}

\* map_file: the facts of a file, known from its filing's submission; capped
\* when XSD violations were tolerated or its unit corrected.
MappedFile(sha, o, row, cfg, run) ==
  [sha |-> sha, member |-> o.member, krs |-> row.krs, ref |-> row.ref,
   version |-> o.spec.version, start |-> row.start, end |-> row.end,
   known |-> row.submitted, run |-> run, facts |-> Facts(sha, o, cfg),
   capped |-> o.doc.violations # {} \/ Corrections(cfg, sha, o.member) # {}]

MappedOutcomes(rows, cfg) ==
  UNION {{<<sha, o, CHOOSE r \in OfFile(rows, sha) : r.ref = o.ref>> :
            o \in {p \in Outcomes(sha, OfFile(rows, sha), cfg) : Maps(rows, sha, p, cfg)}} :
         sha \in Files(rows)}

FilesMapped(rows, c, firstRun) ==
  LET cfg == Config[c]
  IN  {MappedFile(m[1], m[2], m[3], cfg, firstRun[Key(m[1], m[2], cfg)]) :
         m \in MappedOutcomes(rows, cfg)}

\* run_identity_checks, suspects and grade over the run's files, each under the
\* spec of its version.
GradedByVersion(files, c) ==
  LET specs == Config[c].specs
      Versions == {specs[k].version : k \in DOMAIN specs}
  IN  Graded(files, [v \in Versions |->
                       specs[CHOOSE k \in DOMAIN specs : specs[k].version = v]])

IntroductionRows(rows, c) ==
  UNION {{[krs |-> m[3].krs, ref |-> m[3].ref, sha |-> m[1], member |-> m[2].member,
           end |-> m[3].end, known |-> m[3].submitted, item |-> d.item, value |-> d.value] :
           d \in Disclosures(m[2], Config[c])} :
         m \in MappedOutcomes(rows, Config[c])}

----------------------------------------------------------------------------
(* The feature store *)

\* statement_files: rows of a per-file dataset with their filing's deletion.
WithDeletion(rows, idx) ==
  LET Of_(r) == {x \in idx : x.krs = r.krs /\ x.ref = r.ref}
  IN  {[row |-> r, deleted |-> IF Of_(r) = {} THEN None
                               ELSE (CHOOSE x \in Of_(r) : TRUE).deleted] : r \in rows}

\* feature_inputs; the size classes are recomputed, never read as stored.
FeatureInputs(src) ==
  [panel |-> Panel(src.canonical, src.index),
   filings |-> StatementFilings(src.index, src.status, src.canonical),
   restatements |-> src.restatements,
   events |-> src.events,
   disclosures |-> WithDeletion(src.disclosures, src.index),
   text |-> WithDeletion(src.text, src.index),
   audit |-> WithDeletion(src.audit, src.index),
   size |-> WithDeletion(SizeClassHistory(src.canonical, src.disclosures, src.events),
                         src.index)]

\* What a store was computed from: the datasets the jobs stored, and those of
\* the legal and text jobs.
SourcesOf(store) ==
  [canonical |-> store.canonical, restatements |-> store.restatements,
   index |-> store.index, status |-> store.status, disclosures |-> store.disclosures,
   events |-> LegalEventRows, text |-> TextRows, audit |-> AuditRows]

\* build_grid: month-ends from the registration to the earliest of the latest
\* fetches of every label source.
Cutoff(krs) == {f \in Fetches : f.krs = krs /\ f.source \in LabelSources}
Registered(krs) ==
  {IF e.date = None THEN e.known ELSE e.date :
     e \in {x \in LegalEventRows : x.krs = krs /\ x.type = "registered"}}
Grid ==
  {g \in {f.krs : f \in Fetches} \X MonthEnds :
     /\ {f.source : f \in Cutoff(g[1])} = LabelSources
     /\ \A s \in LabelSources : \E f \in Cutoff(g[1]) : f.source = s /\ g[2] <= f.day
     /\ Registered(g[1]) # {} => g[2] >= Min(Registered(g[1]))}

----------------------------------------------------------------------------
(* Leakage *)

Until(day, d) == IF d > day THEN None ELSE d

\* known_on: the sources as an observer had them at the end of a day.
Dated(rows, day) == {r \in rows : r.known <= day}
KnownIndex(idx, day) ==
  {[r EXCEPT !.deleted = Until(day, r.deleted)] :
     r \in {x \in idx : x.submitted # None /\ x.submitted <= day}}
KnownStatus(status, idx) ==
  {s \in status : \E r \in idx : r.krs = s.krs /\ r.ref = s.ref}
KnownEvents(events, day) ==
  {[e EXCEPT !.removed = Until(day, e.removed)] : e \in Dated(events, day)}

KnownOn(src, day) ==
  [canonical |-> Dated(src.canonical, day), restatements |-> Dated(src.restatements, day),
   events |-> KnownEvents(src.events, day), index |-> KnownIndex(src.index, day),
   status |-> KnownStatus(src.status, KnownIndex(src.index, day)),
   disclosures |-> Dated(src.disclosures, day), text |-> Dated(src.text, day),
   audit |-> Dated(src.audit, day)]

\* known_from_violations
KnownAfter(values) == {v \in values : v.known > v.day}

\* truncation_differences: each day's rows from the full sources and from the
\* sources known by then.
Differences(src, values) ==
  UNION {SymDiff({v \in values : v.day = day},
                 FeatureValues({g \in Grid : g[2] = day}, FeatureInputs(KnownOn(src, day)))) :
         day \in {g[2] : g \in Grid}}

\* check_leakage
StoreLeaks(store) ==
  LET Leaky(src, values) == KnownAfter(values) # {} \/ Differences(src, values) # {}
  IN  Leaky(SourcesOf(store), FeatureValues(Grid, FeatureInputs(SourcesOf(store))))

SizeHistory(canonical, disclosures) ==
  SizeClassHistory(canonical, disclosures, LegalEventRows)

----------------------------------------------------------------------------
(* Properties *)

\* The store just written leaks nothing: every month's features are what an
\* observer cut from its sources at that month gives, and no fact behind them is
\* younger (features/leakage.py), whatever was filed, corrected or restated later.
\* The sources are the store's own: a deleted filing stands until its deletion as
\* long as they hold its facts, and after the next parse they hold none.
NoLeak ==
  Reached("features", "check") => ~StoreLeaks(ContentOf("features"))

\* A filing speaks through at most one file of a download, and no file through
\* two filings (parsing/statements.py): facts never count twice.
OneFilePerFiling ==
  \A f, g \in draft : f.ref = g.ref <=> <<f.sha, f.member>> = <<g.sha, g.member>>

\* A decided size class is one no missing figure could change: every way to fill
\* in what was not filed gives it (parsing/size_class.py), in every year whose
\* year before, where its class carries over, is filed too.
DecidedClassStands ==
  \A history \in warehouse["size"] : \A r \in history :
    LET day == {q.row : q \in {h \in history : h.krs = r.krs /\ h.known <= r.known}}
        rows == {q \in day : \A p \in day : p.filing.year = q.filing.year =>
                               ~Later(p.filing, q.filing)}
    IN  r.row \in rows => DecidedRowStands(rows, r.row, TopFigure)

\* The status counted for a filing is one the latest parse gave it: a row the
\* latest run did not touch is not a current one (parsing/manifest.py).
QuarantineCountsAreCurrent ==
  Reached("features", "check") =>
    \A s \in ContentOf("features").status :
      /\ s.status = "quarantined"
      /\ \E r \in Standing : r.ref = s.ref
      => \E p \in parsed : /\ p.ref = s.ref /\ p.status = "quarantined"
                           /\ p.last = Max({q.last : q \in parsed})
===============================================================================
