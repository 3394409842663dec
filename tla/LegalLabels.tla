----------------------------- MODULE LegalLabels -----------------------------
(*************************************************************************)
(* The registers of one company, from fetch to frozen label set: the job *)
(* `legal_to_labels` fetches the KRS extract and the MSiG notices,       *)
(* rebuilds `legal_events`, rebuilds the label models and freezes the    *)
(* set; the job `features` rebuilds `legal_events` from what is stored;  *)
(* a new vocabulary hides the notices reduced under the old one.  Runs   *)
(* never overlap (dagster.yaml, max_concurrent_runs: 1) and may stop     *)
(* after any step.                                                       *)
(*                                                                       *)
(* The world is `history`: the rows the two registers will ever publish, *)
(* each with `decided`, the true day of its event, which the code never  *)
(* sees.                                                                 *)
(*************************************************************************)
EXTENDS LegalEvents

CONSTANTS
    Histories,      \* the histories a company may have: sets of rows
    FirstDay,       \* the day the project first fetches
    MaxDay,         \* bound: the last day of a behaviour
    MaxSets         \* bound: label sets frozen in a behaviour

Sources == {"KRS", "MSiG"}      \* LABEL_SOURCES
Never == 0                      \* no fetch recorded

Labelled(row) == OutcomeClass(row.type) # NoClass

\* What is known of the registers: a row that gives a date gives the true one and is
\* published on it or after; the rows of one case and kind describe one decision; and
\* a labelled event is published with its date by the first fetch if it precedes the
\* launch, and otherwise within the lag allowance.
RegistersAnswer(rows) ==
    /\ \A r \in rows : /\ r.source \in Sources
                       /\ r.decided \in Nat \ {0} /\ r.known \in Nat
                       /\ r.decided <= r.known
                       /\ r.date \in {NoDate, r.decided}
    /\ \A r, o \in rows : /\ r.case # NoCase /\ r.case = o.case
                          /\ DedupKind(r) = DedupKind(o)
                          => r.decided = o.decided
    /\ \A r \in rows : Labelled(r) =>
          \E o \in rows : /\ o.type = r.type /\ o.decided = r.decided
                          /\ o.date = o.decided
                          /\ o.known <= (IF r.decided < Launch THEN FirstDay
                                         ELSE r.decided + AliveLagMonths * MonthLength)

ASSUME HistoriesAssumption == \A rows \in Histories : RegistersAnswer(rows)
ASSUME BoundsAssumption == /\ FirstDay \in Nat \ {0} /\ MaxDay \in Nat
                           /\ FirstDay <= MaxDay /\ MaxSets \in Nat

VARIABLES
    history,        \* the rows the registers will publish
    day,            \* today
    stage,          \* what the running job does next, or "idle"
    pending,        \* sources the running check has not answered for yet
    fetched,        \* latest legal_source_fetches day per source
    reducedTo,      \* day of the latest MSiG fetch under the current extraction key
    eventsOf,       \* the fetch of each source that `legal_events` was built from
    mart,           \* marts.outcome_labels
    frozen          \* the label sets under WAREHOUSE_DIR/outcome_labels
vars == <<history, day, stage, pending, fetched, reducedTo, eventsOf, mart, frozen>>

\* The rows in `legal_events`: an extract holds its whole history, a search every
\* notice up to its day.
RowsAsOf(upTo) == {r \in history : r.known <= upTo[r.source]}

\* earliest_last_complete_fetch, or Never when a source was never fetched.
Cutoff == MinOf({fetched[s] : s \in Sources})

StoredUpTo == [s \in Sources |-> IF s = "MSiG" THEN reducedTo ELSE fetched[s]]

------------------------------------------------------------------------------
Init ==
    /\ history \in Histories
    /\ day = FirstDay
    /\ stage = "idle"
    /\ pending = {}
    /\ fetched = [s \in Sources |-> Never]
    /\ reducedTo = Never
    /\ eventsOf = [s \in Sources |-> Never]
    /\ mart = {}
    /\ frozen = {}

Tick ==
    /\ day < MaxDay
    /\ day' = day + 1
    /\ UNCHANGED <<history, stage, pending, fetched, reducedTo, eventsOf, mart, frozen>>

StartCheck ==
    /\ stage = "idle"
    /\ Cardinality(frozen) < MaxSets
    /\ stage' = "fetch"
    /\ pending' = Sources
    /\ UNCHANGED <<history, day, fetched, reducedTo, eventsOf, mart, frozen>>

\* krs_extracts records the fetch, or quarantines the answer (not found, unredactable)
\* and records none.  The two assets have no order.
FetchKrs ==
    /\ stage = "fetch" /\ "KRS" \in pending
    /\ pending' = pending \ {"KRS"}
    /\ \/ fetched' = [fetched EXCEPT !["KRS"] = day]
       \/ UNCHANGED fetched
    /\ UNCHANGED <<history, day, stage, reducedTo, eventsOf, mart, frozen>>

\* msig_notices reduces every notice not yet held under the current extraction key.
FetchMsig ==
    /\ stage = "fetch" /\ "MSiG" \in pending
    /\ pending' = pending \ {"MSiG"}
    /\ fetched' = [fetched EXCEPT !["MSiG"] = day]
    /\ reducedTo' = day
    /\ UNCHANGED <<history, day, stage, eventsOf, mart, frozen>>

\* Mutant: legal_events does not wait for both sources.
RebuildEventsEarly ==
    /\ stage = "fetch"
    /\ eventsOf' = StoredUpTo
    /\ stage' = "labels"
    /\ UNCHANGED <<history, day, pending, fetched, reducedTo, mart, frozen>>

RebuildEvents ==
    /\ stage = "fetch" /\ pending = {}
    /\ eventsOf' = StoredUpTo
    /\ stage' = "labels"
    /\ UNCHANGED <<history, day, pending, fetched, reducedTo, mart, frozen>>

BuildLabels ==
    /\ stage = "labels"
    /\ mart' = IF Cutoff = Never THEN {} ELSE Labels(RowsAsOf(eventsOf), Cutoff)
    /\ stage' = "freeze"
    /\ UNCHANGED <<history, day, pending, fetched, reducedTo, eventsOf, frozen>>

\* A set with no rows has no label_version and is refused (StopRun).
Freeze ==
    /\ stage = "freeze" /\ mart # {}
    /\ frozen' = frozen \union {mart}
    /\ stage' = "idle"
    /\ UNCHANGED <<history, day, pending, fetched, reducedTo, eventsOf, mart>>

\* A source error, a failed contract or a killed process: later assets do not run.
StopRun ==
    /\ stage # "idle"
    /\ stage' = "idle"
    /\ pending' = {}
    /\ UNCHANGED <<history, day, fetched, reducedTo, eventsOf, mart, frozen>>

\* The job `features` rebuilds legal_events offline.
Features ==
    /\ stage = "idle"
    /\ eventsOf' = StoredUpTo
    /\ UNCHANGED <<history, day, stage, pending, fetched, reducedTo, mart, frozen>>

\* A deployed vocabulary is a new extraction key.
ChangeVocabulary ==
    /\ stage = "idle"
    /\ reducedTo' = Never
    /\ UNCHANGED <<history, day, stage, pending, fetched, eventsOf, mart, frozen>>

Next ==
    \/ Tick \/ StartCheck \/ FetchKrs \/ FetchMsig \/ RebuildEvents
    \/ BuildLabels \/ Freeze \/ StopRun \/ Features \/ ChangeVocabulary

Spec == Init /\ [][Next]_vars

------------------------------------------------------------------------------
(* Properties.                                                             *)

TypeOK ==
    /\ history \in Histories
    /\ day \in FirstDay .. MaxDay
    /\ stage \in {"idle", "fetch", "labels", "freeze"}
    /\ pending \subseteq Sources
    /\ fetched \in [Sources -> {Never} \union FirstDay .. MaxDay]
    /\ reducedTo \in {Never} \union FirstDay .. MaxDay
    /\ eventsOf \in [Sources -> {Never} \union FirstDay .. MaxDay]

\* No set ever frozen calls a row alive when a labelled event was decided in its
\* window: the lag allowance, the earliest of the two cutoffs and the order of the
\* job's assets together keep a late registry entry from being read as survival.
AliveIsTrue ==
    \A set \in frozen : \A row \in {x \in set : x.class = Alive} :
        ~ \E r \in history : /\ Labelled(r)
                             /\ row.asOf < r.decided
                             /\ r.decided <= WindowEnd(row.asOf, row.horizon)

\* While labels are built and frozen, legal_events holds every row each register had
\* published by the cutoff the labels are given, whatever failed or was rebuilt
\* offline before: the cutoff and the events are read from different stores.
EventsReachCutoff ==
    stage \in {"labels", "freeze"} => \A s \in Sources : Cutoff <= eventsOf[s]

\* A row that one frozen set labels with an outcome is not alive in any other: a later
\* notice may change what happened or exclude the row, but not undo the event.
OutcomeNeverUndone ==
    \A s, t \in frozen : \A x \in s, y \in t :
        /\ x.asOf = y.asOf /\ x.horizon = y.horizon
        /\ x.class \notin {Alive, NoClass}
        => y.class # Alive

\* The day an event is taken to be on while a row is all that is read of it.
ReadOn(row) == IF row.date = NoDate THEN row.known ELSE row.date

\* An undated notice of a labelled event is published while the event still counts: before
\* any closing that ends it, and a petition's before it expires.  OutcomeNeverUndone needs
\* this of a history: until its date is read, the event seems to be on the notice's day, and
\* then the company must still be in the proceeding that the date puts earlier.
NoticesInTime(rows) ==
    \A r \in rows : Labelled(r) /\ r.date = NoDate =>
        /\ Stage(r.type) = "petition" => r.known <= r.decided + PetitionExpiry * MonthLength
        /\ \A c \in rows :
              Stage(c.type) = "closing" /\ OutcomeClass(r.type) \in Ends(c.type)
                  => ReadOn(c) < r.decided \/ r.known <= ReadOn(c)

\* splits.settled_by: the row's label was already known on `eve`.
SettledBy(row, eve) ==
    IF row.class = Alive
    THEN WindowEnd(row.asOf, row.horizon) <= AliveLimit(WindowEnd(row.asOf, row.horizon), eve)
    ELSE row.class # NoClass /\ row.knownFrom <= eve

\* A row the backtest may train on at `eve` has the label that a set built on `eve`
\* from what was published by then would have given it.
TrainingLabelsKnown ==
    \A set \in frozen : \A row \in set : \A eve \in row.asOf .. row.cutoff :
        SettledBy(row, eve) =>
            /\ ~ Excluded({r \in history : r.known <= eve}, row.asOf)
            /\ row.class = Outcome({r \in history : r.known <= eve}, eve, row.asOf, row.horizon)

\* A run that changed no label froze no set: two frozen sets differ in more than the
\* cutoff they were built with.
QuietNightFreezesNothing ==
    \A s, t \in frozen :
        {[x EXCEPT !.cutoff = Never] : x \in s} = {[x EXCEPT !.cutoff = Never] : x \in t}
        => s = t
==============================================================================
