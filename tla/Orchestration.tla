---------------------------- MODULE Orchestration ----------------------------
(*************************************************************************)
(* The nightly chain (dagster_defs/sensors.py, schedules.py, jobs.py):   *)
(* the registry check at 02:00, its retry after a maintenance page, and  *)
(* the sensors that pass each success on to features, scoring, alerting  *)
(* and monitoring.  One run executes at a time, the rest wait in the     *)
(* queue.                                                                *)
(*                                                                       *)
(* A run key is the pair of the requested job and the run it follows     *)
(* (`after`): Dagster requests each once.                                *)
(*************************************************************************)
EXTENDS Integers, Sequences, FiniteSets

CONSTANTS
    SensorsOn,      \* the sensors the owner has turned on
    MaxRetries,     \* MAX_RETRIES
    MaxNights,      \* bound: scheduled nights
    MaxByHand,      \* bound: runs and imports the owner starts
    MaxOutages      \* bound: changes of a source's availability

Sources == {"KRS", "MSiG"}
Jobs == {"legal_to_labels", "rdf_script_import", "features", "scoring", "alerting", "monitoring"}
NoRun == 0

\* What each chaining sensor watches, and the job it requests.
Chain == [
    features_after_registry_check    |-> [watches |-> {"legal_to_labels"},     job |-> "features"],
    features_after_rdf_import        |-> [watches |-> {"rdf_script_import"},   job |-> "features"],
    scoring_after_features           |-> [watches |-> {"features"},            job |-> "scoring"],
    alerts_after_features_or_scoring |-> [watches |-> {"features", "scoring"}, job |-> "alerting"],
    monitoring_after_scoring         |-> [watches |-> {"scoring"},             job |-> "monitoring"]]
Chaining == DOMAIN Chain \intersect SensorsOn

ASSUME OrchestrationAssumption ==
    /\ SensorsOn \subseteq DOMAIN Chain \union {"registry_check_retry"}
    /\ MaxRetries \in Nat /\ MaxNights \in Nat /\ MaxByHand \in Nat /\ MaxOutages \in Nat

VARIABLES
    runs,       \* every run in the order it was requested, its id its place
    answers,    \* what each source has answered the executing check
    up,         \* the sources that answer
    tick,       \* the failed run the retry sensor is probing for, or NoRun
    late,       \* 22:00 to 02:00 Warsaw time
    nights, byHand, outages     \* counters of the bounds
vars == <<runs, answers, up, tick, late, nights, byHand, outages>>

Run(job, after, retry, root) ==
    [job |-> job, after |-> after, status |-> "queued",
     retry |-> retry,       \* RETRY_NUMBER, 0 without the tag
     root |-> root,         \* RETRY_OF, NoRun without the tag
     said |-> {}]           \* failure_texts: "unavailable" carries UNAVAILABLE_MARK

Ids == DOMAIN runs
Request(run) == runs' = Append(runs, run)
\* Mutant: one run key per job.
RequestedOnce(job, after) == \E i \in Ids : runs[i].job = job /\ runs[i].after # NoRun
Requested(job, after) == \E i \in Ids : runs[i].job = job /\ runs[i].after = after
Executing == {i \in Ids : runs[i].status = "started"}
Checks == {i \in Ids : runs[i].job = "legal_to_labels"}
Failed(i) == runs[i].status = "failure"

------------------------------------------------------------------------------
Init ==
    /\ runs = << >>
    /\ answers = [s \in Sources |-> "none"]
    /\ up = Sources
    /\ tick = NoRun
    /\ late \in BOOLEAN
    /\ nights = 0 /\ byHand = 0 /\ outages = 0

\* registry_check_nightly at 02:00; a tick missed while Dagster is down is not caught up.
Night ==
    /\ late /\ nights < MaxNights
    /\ late' = FALSE
    /\ nights' = nights + 1
    /\ \/ Request(Run("legal_to_labels", NoRun, 0, NoRun))
       \/ UNCHANGED runs
    /\ UNCHANGED <<answers, up, tick, byHand, outages>>

Evening ==
    /\ ~ late /\ nights < MaxNights
    /\ late' = TRUE
    /\ UNCHANGED <<runs, answers, up, tick, nights, byHand, outages>>

\* The owner starts a check, or an import of the script's files.
ByHand ==
    /\ byHand < MaxByHand
    /\ byHand' = byHand + 1
    /\ \E job \in {"legal_to_labels", "rdf_script_import"} : Request(Run(job, NoRun, 0, NoRun))
    /\ UNCHANGED <<answers, up, tick, late, nights, outages>>

SourceChanges(s) ==
    /\ outages < MaxOutages
    /\ up' = IF s \in up THEN up \ {s} ELSE up \union {s}
    /\ outages' = outages + 1
    /\ UNCHANGED <<runs, answers, tick, late, nights, byHand>>

------------------------------------------------------------------------------
\* Runs.

\* The queue: the oldest waiting run, when none executes.
Launch(i) ==
    /\ runs[i].status = "queued" /\ Executing = {}
    /\ \A j \in Ids : j < i => runs[j].status # "queued"
    /\ runs' = [runs EXCEPT ![i].status = "started"]
    /\ UNCHANGED <<answers, up, tick, late, nights, byHand, outages>>

\* The check's two assets fetch side by side.  A source that is down shows its
\* maintenance page, which stops the asset at once, or fails request after request;
\* one that is up may still fail some companies.
Fetch(s) ==
    /\ Executing # {} /\ Executing \subseteq Checks
    /\ answers[s] = "none"
    /\ \E a \in IF s \in up THEN {"ok", "other"} ELSE {"unavailable", "other"} :
          answers' = [answers EXCEPT ![s] = a]
    /\ UNCHANGED <<runs, up, tick, late, nights, byHand, outages>>

\* The check ends once both assets have; what either failed with is in its log.  With
\* both fetched, a later asset may still fail.
EndCheck(i) ==
    /\ i \in Executing \intersect Checks
    /\ \A s \in Sources : answers[s] # "none"
    /\ LET failures == {answers[s] : s \in Sources} \ {"ok"} IN
          \/ /\ failures = {}
             /\ runs' = [runs EXCEPT ![i].status = "success"]
          \/ runs' = [runs EXCEPT ![i].status = "failure",
                                  ![i].said = IF failures = {} THEN {"other"} ELSE failures]
    /\ answers' = [s \in Sources |-> "none"]
    /\ UNCHANGED <<up, tick, late, nights, byHand, outages>>

\* Any other run succeeds or fails: a dirty tree stops scoring, an import with a file it
\* could not read fails at its end.
EndRun(i) ==
    /\ i \in Executing \ Checks
    /\ \/ runs' = [runs EXCEPT ![i].status = "success"]
       \/ runs' = [runs EXCEPT ![i].status = "failure", ![i].said = {"other"}]
    /\ UNCHANGED <<answers, up, tick, late, nights, byHand, outages>>

------------------------------------------------------------------------------
\* Sensors.

\* An asset sensor looks at the newest materialization only; a run status sensor at each.
Overtaken(i) ==
    /\ runs[i].job = "rdf_script_import"
    /\ \E j \in Ids : j > i /\ runs[j].job = "rdf_script_import" /\ runs[j].status = "success"

\* A chaining sensor requests its job once for an upstream success.
Follow(sensor, i) ==
    /\ runs[i].status = "success" /\ runs[i].job \in Chain[sensor].watches
    /\ ~ Overtaken(i)
    /\ ~ Requested(Chain[sensor].job, i)
    /\ Request(Run(Chain[sensor].job, i, 0, NoRun))
    /\ UNCHANGED <<answers, up, tick, late, nights, byHand, outages>>

\* The check requested last (get_runs, limit 1).
Latest(i) == i \in Checks /\ \A j \in Checks : j <= i

\* retry_number: what the failed run says, its tags and the hour.
Retriable(i) ==
    /\ "unavailable" \in runs[i].said
    /\ runs[i].retry + 1 <= MaxRetries
    /\ ~ late

\* registry_check_retry reads the latest check and sends its probes.
RetryTick(i) ==
    /\ "registry_check_retry" \in SensorsOn /\ tick = NoRun
    /\ Latest(i) /\ Failed(i) /\ Retriable(i)
    /\ tick' = i
    /\ UNCHANGED <<runs, answers, up, late, nights, byHand, outages>>

\* Mutant: each retry is numbered 1.
RetryOfFirst(i) == Run("legal_to_labels", i, 1, IF runs[i].root = NoRun THEN i ELSE runs[i].root)
\* The retry of failed run i: its tags name the chain's first run and count its retries.
RetryOf(i) == Run("legal_to_labels", i, runs[i].retry + 1,
                  IF runs[i].root = NoRun THEN i ELSE runs[i].root)

\* Mutant: the run key is the chain's, so only its first failure is retried.
RetryProbedOnce ==
    /\ tick # NoRun /\ tick' = NoRun
    /\ IF up = Sources /\ \A i \in Checks : runs[i].root # RetryOf(tick).root
          THEN Request(RetryOf(tick)) ELSE UNCHANGED runs
    /\ UNCHANGED <<answers, up, late, nights, byHand, outages>>
\* The probes are answered: a run if both sources are up, under the failed run's key.
RetryProbed ==
    /\ tick # NoRun
    /\ tick' = NoRun
    /\ IF up = Sources /\ ~ Requested("legal_to_labels", tick)
          THEN Request(RetryOf(tick)) ELSE UNCHANGED runs
    /\ UNCHANGED <<answers, up, late, nights, byHand, outages>>

Next ==
    \/ Night \/ Evening \/ ByHand
    \/ \E s \in Sources : SourceChanges(s) \/ Fetch(s)
    \/ \E i \in Ids : Launch(i) \/ EndCheck(i) \/ EndRun(i) \/ RetryTick(i)
    \/ RetryProbed
    \/ \E sensor \in Chaining, i \in Ids : Follow(sensor, i)

Spec == Init /\ [][Next]_vars

\* The schedule fires, the queue launches, a run ends, and each sensor ticks again.
Fairness ==
    /\ WF_vars(Night)
    /\ WF_vars(\E i \in Ids : Launch(i))
    /\ \A s \in Sources : WF_vars(Fetch(s))
    /\ WF_vars(\E i \in Ids : EndCheck(i))
    /\ WF_vars(\E i \in Ids : EndRun(i))
    /\ \A sensor \in Chaining : WF_vars(\E i \in Ids : Follow(sensor, i))
    /\ WF_vars(\E i \in Ids : RetryTick(i))
    /\ WF_vars(RetryProbed)

FairSpec == Spec /\ Fairness

------------------------------------------------------------------------------
(* Properties.                                                             *)

TypeOK ==
    /\ runs \in Seq([job : Jobs, after : Nat, status : {"queued", "started", "success", "failure"},
                     retry : 0 .. MaxRetries, root : Nat,
                     said : SUBSET {"unavailable", "other"}])
    /\ answers \in [Sources -> {"none", "ok", "unavailable", "other"}]
    /\ up \subseteq Sources /\ late \in BOOLEAN
    /\ tick \in {NoRun} \union Ids
    /\ nights \in 0 .. MaxNights /\ byHand \in 0 .. MaxByHand /\ outages \in 0 .. MaxOutages

\* "At most MAX_RETRIES times": counted over a whole chain of retries, each of which
\* only carries its own number and the chain's first run in its tags, while checks of
\* other chains are queued, fail and are retried in between.
RetriesBounded ==
    \A root \in Checks :
        Cardinality({i \in Checks : runs[i].root = root}) <= MaxRetries

\* Job `job` has run to its end on what run i made, or on a later run of the same job.
Served(i, job) ==
    \E k \in Ids : /\ runs[k].job = job /\ runs[k].status \in {"success", "failure"}
                   /\ runs[k].after >= i /\ runs[runs[k].after].job = runs[i].job

\* New data reaches what depends on it: every success is followed, by every job whose
\* sensor is on, to the end, though other runs fill the queue and other chains cross it.
\* (Runs are bounded, so "again and again none is owed" is "none stays owed".)
SuccessReachesAll ==
    []<>(\A i \in Ids, sensor \in Chaining :
            (runs[i].status = "success" /\ runs[i].job \in Chain[sensor].watches)
                => Served(i, Chain[sensor].job))

\* A check stopped by a maintenance page, with retries left, and nothing newer.
NightLost ==
    \E i \in Ids : /\ Latest(i) /\ Failed(i) /\ "unavailable" \in runs[i].said
                   /\ runs[i].retry < MaxRetries

\* A night lost to a maintenance page is made good: once the sources stay up, it does
\* not stay lost, whatever the hour the page came at and whatever else was queued.
MaintenanceIsOvercome == <>[](up = Sources) => []<>(~ NightLost)
==============================================================================
