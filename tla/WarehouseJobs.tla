----------------------------- MODULE WarehouseJobs -----------------------------
(* The offline jobs over the filing index: the canonical facts, restatement    *)
(* events, size classes and feature store, rebuilt one dataset at a time.      *)
(*                                                                             *)
(* One run executes at a time; between runs the index and the mapping config   *)
(* change.  A run may be killed at any step: what it held in memory is lost,   *)
(* and a dataset whose directory was being replaced is gone.  What the assets  *)
(* compute is given by the operators below; this module is how they are run.   *)
EXTENDS Integers, Sequences, FiniteSets

CONSTANTS
  Imports,              \* sets of filing_index rows, each brought by one import
  Deletions,            \* <<document_ref, day>> that may be recorded
  Configs,              \* mapping configurations
  FirstConfig,          \* the one deployed at first
  MaxRuns,              \* bound: runs launched
  MaxChanges,           \* bound: imports, deletions and deployments
  ParseRows(_, _),      \* index, config: [key, krs, ref, status] of each file
  MappedFiles(_, _, _), \* index, config, key -> first run: the files that map
  GradedFiles(_, _),    \* files, config: the same, each with its grade
  Disclosed(_, _),      \* index, config: the rows of the introductions
  Restated(_),          \* canonical facts: the restatement events
  SizeClasses(_, _),    \* canonical facts, disclosures: the class history
  Unpairable(_),        \* index: a stored file is filed under two entities
  Unassembled(_, _),    \* canonical facts, index: the panel refuses them
  Leaks(_)              \* sources of a store: the leakage check fails

VARIABLES
  index,    \* filing_index: the rows, each with its `deleted` day
  config,   \* the mapping configuration deployed
  runs,     \* runs launched
  changes,  \* imports, deletions and deployments so far
  job,      \* the assets the run has still to materialize
  step,     \* where in its asset the run is
  draft,    \* the files the run has mapped, in memory
  parsed,   \* parsed_documents
  warehouse,\* dataset -> its stored content, {} while there is none
  produced  \* history: what canonical facts were written from which inputs

\* An import brings a filing once, standing; a filing is deleted on a day.
ImportsAssumption ==
  /\ \A rows \in Imports :
       /\ IsFiniteSet(rows)
       /\ \A r \in rows : "deleted" \in DOMAIN r /\ r.deleted = 0
       /\ \A r, s \in rows : r.ref = s.ref => r = s
  /\ \A d \in Deletions : d[2] \in Nat

ASSUME ImportsAssumption

vars == <<index, config, runs, changes, job, step, draft, parsed, warehouse, produced>>

Datasets == {"canonical", "checks", "disclosures", "restatements", "size", "features"}
Jobs == {<<"canonical">>, <<"restatements">>, <<"size">>, <<"features">>,
         <<"canonical", "restatements", "features">>}
\* The datasets of an asset, in the order it writes them.
Outputs == [a \in {"canonical", "restatements", "size", "features"} |->
              IF a = "canonical" THEN <<"canonical", "checks", "disclosures">> ELSE <<a>>]

NoRow == 0
Idle == job = <<>>
Stands(r) == r.deleted = NoRow
Standing == {r \in index : Stands(r)}
Stored(d) == warehouse[d] # {}
ContentOf(d) == CHOOSE c \in warehouse[d] : TRUE

Init ==
  /\ index = {} /\ parsed = {} /\ draft = {} /\ produced = {}
  /\ config = FirstConfig
  /\ runs = 0 /\ changes = 0 /\ job = <<>> /\ step = "start"
  /\ warehouse = [d \in Datasets |-> {}]

----------------------------------------------------------------------------
(* Between runs *)

Changed ==
  /\ Idle
  /\ changes < MaxChanges
  /\ changes' = changes + 1
  /\ UNCHANGED <<runs, job, step, draft, parsed, warehouse, produced>>

Import(rows) ==
  /\ Changed
  /\ \A r \in rows, s \in index : s.ref # r.ref
  /\ index' = index \cup rows
  /\ UNCHANGED config

Delete(r, day) ==
  /\ Changed
  /\ Stands(r)
  /\ index' = (index \ {r}) \cup {[r EXCEPT !.deleted = day]}
  /\ UNCHANGED config

Deploy(c) ==
  /\ Changed
  /\ c # config
  /\ config' = c
  /\ UNCHANGED index

Launch(assets) ==
  /\ Idle
  /\ runs < MaxRuns
  /\ runs' = runs + 1
  /\ job' = assets
  /\ step' = "start"
  /\ UNCHANGED <<index, config, changes, draft, parsed, warehouse, produced>>

----------------------------------------------------------------------------
(* A run *)

Reached(asset, s) == job # <<>> /\ Head(job) = asset /\ step = s

\* The run is over: what it held in memory is gone.
Ended ==
  /\ job' = <<>>
  /\ step' = "start"
  /\ draft' = {}

Fail ==
  /\ Ended
  /\ UNCHANGED <<index, config, runs, changes, parsed, warehouse, produced>>

\* An upsert that takes the run for the first one on every row.
OverwrittenBy(rows, run) ==
  {p \in parsed : \A r \in rows : r.key # p.key}
    \cup {[key |-> r.key, krs |-> r.krs, ref |-> r.ref, status |-> r.status,
           first |-> run, last |-> run] : r \in rows}

\* record_parsed_document: the first run of a row is never overwritten.
Upserted(rows, run) ==
  LET Before(r) == {p \in parsed : p.key = r.key}
  IN  {p \in parsed : \A r \in rows : r.key # p.key}
        \cup {[key |-> r.key, krs |-> r.krs, ref |-> r.ref, status |-> r.status,
               first |-> IF Before(r) = {} THEN run ELSE (CHOOSE p \in Before(r) : TRUE).first,
               last |-> run] : r \in rows}

\* The first transaction: every standing download classified and mapped.
ParseFiles ==
  LET rows == ParseRows(Standing, config)
      now  == Upserted(rows, runs)
      FirstRun(key) == (CHOOSE p \in now : p.key = key).first
  IN  /\ Reached("canonical", "start")
      /\ ~Unpairable(Standing)
      /\ parsed' = now
      /\ draft' = MappedFiles(Standing, config, [k \in {r.key : r \in rows} |-> FirstRun(k)])
      /\ step' = "grade"
      /\ UNCHANGED <<index, config, runs, changes, job, warehouse, produced>>

ParseRefused ==
  /\ Reached("canonical", "start")
  /\ Unpairable(Standing)
  /\ Fail

\* The second transaction: identities checked, units and signs suspected, graded.
GradeFiles ==
  /\ Reached("canonical", "grade")
  /\ draft' = GradedFiles(draft, config)
  /\ step' = "canonical"
  /\ UNCHANGED <<index, config, runs, changes, job, parsed, warehouse, produced>>

\* A dataset replaced, and the step that follows it.
Replaced(d, content) == warehouse' = [warehouse EXCEPT ![d] = {content}]
NextStep(s) == step' = s /\ UNCHANGED job
AssetDone == job' = Tail(job) /\ step' = "start"

WriteCanonical ==
  /\ Reached("canonical", "canonical")
  /\ Replaced("canonical", draft)
  /\ produced' = produced \cup {[sources |-> Standing, config |-> config, facts |-> draft]}
  /\ NextStep("checks")
  /\ UNCHANGED <<index, config, runs, changes, draft, parsed>>

WriteChecks ==
  /\ Reached("canonical", "checks")
  /\ Replaced("checks", {[sha |-> f.sha, member |-> f.member, grade |-> f.grade] : f \in draft})
  /\ NextStep("disclosures")
  /\ UNCHANGED <<index, config, runs, changes, draft, parsed, produced>>

WriteDisclosures ==
  /\ Reached("canonical", "disclosures")
  /\ Replaced("disclosures", Disclosed(Standing, config))
  /\ AssetDone
  /\ draft' = {}
  /\ UNCHANGED <<index, config, runs, changes, parsed, produced>>

\* stale_restatements by the number of rows alone.
StaleByCount ==
  Cardinality(ContentOf("restatements")) # Cardinality(Restated(ContentOf("canonical")))

\* stale_restatements: the stored copy is not what the stored facts give.
Stale == ContentOf("restatements") # Restated(ContentOf("canonical"))

\* What a derived asset reads is stored (legal_events always is), and the store
\* is refused over stale restatements or facts the panel cannot date.
Reads(asset) ==
  {"canonical"} \cup (IF asset = "size" THEN {"disclosures"} ELSE {})
    \cup (IF asset = "features" THEN {"restatements", "disclosures"} ELSE {})

Buildable(asset) ==
  /\ \A d \in Reads(asset) : Stored(d)
  /\ asset = "features" => ~Stale /\ ~Unassembled(ContentOf("canonical"), index)

Derive(asset, content) ==
  /\ Reached(asset, "start")
  /\ Buildable(asset)
  /\ Replaced(asset, content)
  /\ UNCHANGED <<index, config, runs, changes, draft, parsed, produced>>

BuildRestatements ==
  Derive("restatements", Restated(ContentOf("canonical"))) /\ AssetDone

BuildSizeClasses ==
  Derive("size", SizeClasses(ContentOf("canonical"), ContentOf("disclosures"))) /\ AssetDone

\* build_feature_store, from the warehouse and the manifest as they are: a store
\* is the sources it was computed from.
BuildFeatures ==
  /\ Derive("features",
            [canonical |-> ContentOf("canonical"), restatements |-> ContentOf("restatements"),
             disclosures |-> ContentOf("disclosures"), index |-> index,
             status |-> {[krs |-> p.krs, ref |-> p.ref, status |-> p.status] : p \in parsed}])
  /\ NextStep("check")

Refuse ==
  /\ job # <<>> /\ step = "start" /\ Head(job) # "canonical"
  /\ ~Buildable(Head(job))
  /\ Fail

\* The blocking check, on the store just written: a leak fails the run, the
\* store stays.
CheckStore ==
  /\ Reached("features", "check")
  /\ IF Leaks(ContentOf("features")) THEN Ended ELSE AssetDone /\ UNCHANGED draft
  /\ UNCHANGED <<index, config, runs, changes, parsed, warehouse, produced>>

----------------------------------------------------------------------------
(* Crashes *)

Crash ==
  /\ ~Idle
  /\ Fail

\* Between the two renames of a replacement: the old directory is set aside,
\* the new one not yet in place.
CrashInReplacement ==
  LET outputs == Outputs[Head(job)]
      replacing == IF step \in {"canonical", "checks", "disclosures"} THEN step
                   ELSE outputs[1]
  IN  /\ ~Idle
      /\ step \notin {"grade", "check"}
      /\ step = "start" => Head(job) # "canonical" /\ Buildable(Head(job))
      /\ Stored(replacing)
      /\ Ended
      /\ warehouse' = [warehouse EXCEPT ![replacing] = {}]
      /\ UNCHANGED <<index, config, runs, changes, parsed, produced>>

Next ==
  \/ \E rows \in Imports : Import(rows)
  \/ \E r \in index : \E d \in Deletions : d[1] = r.ref /\ Delete(r, d[2])
  \/ \E c \in Configs : Deploy(c)
  \/ \E assets \in Jobs : Launch(assets)
  \/ ParseFiles \/ ParseRefused \/ GradeFiles
  \/ WriteCanonical \/ WriteChecks \/ WriteDisclosures
  \/ BuildRestatements \/ BuildSizeClasses \/ BuildFeatures \/ Refuse \/ CheckStore
  \/ Crash \/ CrashInReplacement

Spec == Init /\ [][Next]_vars

----------------------------------------------------------------------------
(* Properties *)

\* Equal standing filings and an equal mapping config give equal canonical
\* facts, run ids included, whatever runs, crashes and configs came between
\* (parsing/manifest.py: re-parsing reproduces the canonical Parquet).
Reproducible ==
  \A p, q \in produced :
    p.sources = q.sources /\ p.config = q.config => p.facts = q.facts

\* A stored feature store never mixes canonical facts with restatements built
\* from other facts (parsing/restatements.py), though the two datasets are
\* written by different assets that may run alone or be killed in between.
RestatementsCurrent ==
  \A f \in warehouse["features"] : f.restatements = Restated(f.canonical)
===============================================================================
