------------------------------ MODULE ModelScores ------------------------------
(*************************************************************************)
(* What the served versions make: the scores of the latest month-end and *)
(* the exclusions beside them, the intervals given to scores later, and  *)
(* the alerts read off stored scores and features. The feature store is  *)
(* rebuilt whole, so a later import may change a past row as well as add *)
(* a month-end.                                                          *)
(*                                                                       *)
(* Which version serves a horizon is the registry's (ModelRegistry): it  *)
(* moves one horizon at a time, to a newer version or, when a champion   *)
(* is withdrawn, back to an older one; here it moves as it likes.        *)
(*                                                                       *)
(* A feature row is one value: the model's input, and above HighFlag     *)
(* also a company whose tripwire is set. A scorer's probability is the   *)
(* input it read; only the order and the distances of the values matter  *)
(* to the rules.                                                         *)
(*************************************************************************)
EXTENDS Integers, FiniteSetsExt

CONSTANTS
    HorizonCount,   \* the horizons of the backtest config
    Regressions,    \* the version numbers that are regressions,
    Challengers,    \* and those that are promoted challengers
    TrainedOn,      \* the feature set each version was trained on
    Companies,      \* companies in feature_store
    Inputs,         \* the values an input takes, numbers above 0
    HighFlag,       \* from this input on the tripwire is set
    Level,          \* the alert rules' threshold
    MinIncrease,    \* and their jump rule
    MinRatio,
    AlertHorizon,   \* the horizon the score alerts read
    MaxMonth,       \* bound: month-ends
    MaxRevisions,   \* bound: rebuilds that change a row already there, and
                    \* changes of the companies modelled at a month-end
    MaxMoves        \* bound: changes of a horizon's served version

ScoresAssumption ==
    /\ HorizonCount \in Nat \ {0}
    /\ Regressions \union Challengers \subseteq Nat \ {0}
    /\ Regressions \intersect Challengers = {}
    /\ TrainedOn \in [Regressions \union Challengers -> Nat]
    /\ Inputs \subseteq Nat \ {0}
    /\ AlertHorizon \in 1 .. HorizonCount
    /\ MaxMonth \in Nat \ {0}
    /\ MaxRevisions \in Nat
    /\ MaxMoves \in Nat

ASSUME ScoresAssumption

VARIABLES
    served,     \* per horizon, the version serving it, 0 for none
    held,       \* the feature set feature_store was built for
    month,      \* the latest month-end in feature_store
    feature,    \* per company and month-end, its row's input, Null or Absent
    revisions,  \* such changes so far
    moves,      \* moves of served versions so far
    modelled,   \* companies the population rule keeps and the latest label
                \* set has at risk at this month-end, or NoGrid while the
                \* label set's grid ends before it
    scores,     \* scores_history
    exclusions, \* scoring_exclusions
    intervals,  \* score_intervals
    alerts      \* alerts

tables == <<scores, exclusions, intervals, alerts>>
inputs == <<served, moves, held, month, feature, revisions, modelled>>
vars == <<inputs, tables>>

Horizon == 1 .. HorizonCount
Versions == Regressions \union Challengers
Absent == -1            \* no row at that month-end
Null == 0               \* a row whose input is missing
NoGrid == {"no grid"}
Month == 1 .. MaxMonth
NotScored == 0          \* "inputs incomplete", a null probability
NoBounds == -1          \* an interval row with a reason in place of its bounds

----------------------------------------------------------------------------
(* The data the models read.                                                  *)

Init ==
    /\ served = [h \in Horizon |-> 0]
    /\ held \in {TrainedOn[v] : v \in Versions}
    /\ month = 1
    /\ feature \in [Companies -> [{1} -> Inputs \union {Null}]]
    /\ revisions = 0
    /\ moves = 0
    /\ modelled = NoGrid
    /\ scores = {} /\ exclusions = {} /\ intervals = {} /\ alerts = {}

\* A backtest registers a version for a horizon and it serves it, or the
\* horizon falls back to the incumbent.
Serve ==
    /\ moves < MaxMoves
    /\ moves' = moves + 1
    /\ \E h \in Horizon, v \in Versions :
         /\ v # served[h]
         /\ served' = [served EXCEPT ![h] = v]
    /\ UNCHANGED <<held, month, feature, revisions, modelled, tables>>

\* feature_store is rebuilt for another feature set version.
BuildFeatureSet ==
    /\ held' \in {TrainedOn[v] : v \in Versions} \ {held}
    /\ UNCHANGED <<served, moves, month, feature, revisions, modelled, tables>>

\* A new month-end: every company keeps the rows it has and gets one more, or
\* none. The labels' grid does not reach it yet.
NewMonth ==
    /\ month < MaxMonth
    /\ month' = month + 1
    /\ \E row \in [Companies -> Inputs \union {Null, Absent}] :
         feature' = [c \in Companies |-> [m \in 1 .. month + 1 |->
                       IF m <= month THEN feature[c][m] ELSE row[c]]]
    /\ modelled' = NoGrid
    /\ UNCHANGED <<served, moves, held, revisions, tables>>

\* A rebuild over facts imported since: one row's input changes, its value is
\* lost, or the row itself is.
Rebuild ==
    /\ revisions < MaxRevisions
    /\ revisions' = revisions + 1
    /\ \E c \in Companies, m \in 1 .. month, v \in Inputs \union {Null, Absent} :
         /\ v # feature[c][m]
         /\ feature' = [feature EXCEPT ![c][m] = v]
    /\ UNCHANGED <<served, moves, held, month, modelled, tables>>

\* A new frozen label set, or new acquisition records: who is in the population
\* and at risk at this month-end.
Reassess ==
    /\ modelled' \in SUBSET Companies \ {modelled}
    /\ \/ modelled = NoGrid /\ UNCHANGED revisions
       \/ modelled # NoGrid /\ revisions < MaxRevisions /\ revisions' = revisions + 1
    /\ UNCHANGED <<served, moves, held, month, feature, tables>>

----------------------------------------------------------------------------
(* Scoring.                                                                   *)

\* The regression takes complete cases; the challengers read a null natively.
Probability(version, input) ==
    IF input # Null THEN input
    ELSE IF version \in Regressions THEN NotScored ELSE Min(Inputs)

Key(r) == <<r.krs, r.month, r.horizon, r.version>>
Keys(rows) == {Key(r) : r \in rows}

\* (a mistake: the rows of a key that is stored replace what is there)
Upsert(table, rows) == {r \in table : Key(r) \notin Keys(rows)} \union rows

\* INSERT ... ON CONFLICT DO NOTHING: a row whose key is stored is left as it is.
Insert(table, rows) == table \union {r \in rows : Key(r) \notin Keys(table)}

Present == {c \in Companies : feature[c][month] # Absent}
LeftOut == Present \ modelled

ScoreRows ==
    {[krs |-> c, month |-> month, horizon |-> h, version |-> served[h],
      probability |-> Probability(served[h], feature[c][month])] :
        c \in Present \ LeftOut, h \in Horizon}

ExclusionRows ==
    {[krs |-> c, month |-> month, horizon |-> h, version |-> served[h]] :
        c \in LeftOut, h \in Horizon}

\* What stops the scoring job before it writes: a horizon nothing serves,
\* versions trained on different feature sets or on another than
\* feature_store's, a label grid that ends before the month-end.
CanScore ==
    /\ \A h \in Horizon : served[h] # 0 /\ TrainedOn[served[h]] = held
    /\ modelled # NoGrid

\* (a mistake: a horizon is committed as soon as it is scored)
ScoresByHorizon ==
    /\ CanScore
    /\ \E done \in (SUBSET Horizon) \ {{}} :
         /\ scores' = Insert(scores, {r \in ScoreRows : r.horizon \in done})
         /\ exclusions' = Insert(exclusions, {r \in ExclusionRows : r.horizon \in done})
    /\ UNCHANGED <<inputs, intervals, alerts>>

\* The scores asset: all horizons in one transaction.
Scores ==
    /\ CanScore
    /\ scores' = Insert(scores, ScoreRows)
    /\ exclusions' = Insert(exclusions, ExclusionRows)
    /\ UNCHANGED <<inputs, intervals, alerts>>

----------------------------------------------------------------------------
(* Intervals.                                                                 *)

\* Scored rows of the version serving a horizon that have no interval row yet.
Pending(h) ==
    {r \in scores : /\ served[h] # 0
                    /\ r.horizon = h /\ r.version = served[h]
                    /\ r.probability # NotScored
                    /\ Key(r) \notin Keys(intervals)}

\* The bounds a regression gives a row: those of feature_store's row now, where
\* an input lost since the score ranks above every training value.
Bounds(version, input) ==
    IF version \notin Regressions THEN NoBounds
    ELSE IF input = Null THEN Max(Inputs) ELSE input

\* (mistakes: only the month-end that was scored last is refitted; and the row
\* is looked up at the latest month-end instead of the score's)
JoinedLatest(h) == {r \in Pending(h) : r.month = month /\ feature[r.krs][r.month] # Absent}
RefittedLatest(r, refits) ==
    [krs |-> r.krs, month |-> r.month, horizon |-> r.horizon, version |-> r.version,
     around |-> IF r.horizon \in refits THEN Bounds(r.version, feature[r.krs][month]) ELSE NoBounds]

\* Of these, the ones feature_store still has a row for.
Joined(h) == {r \in Pending(h) : feature[r.krs][r.month] # Absent}

\* The asset fails when a horizon is not served, and when there is a score to
\* refit for and feature_store holds another feature set.
CanRefit ==
    \A h \in Horizon :
        /\ served[h] # 0
        /\ Pending(h) # {} => TrainedOn[served[h]] = held

\* A refit that does not reproduce the served coefficients, or too few draws to fit, leaves
\* every row of its horizon without bounds, for good.
Refitted(r, refits) ==
    [krs |-> r.krs, month |-> r.month, horizon |-> r.horizon, version |-> r.version,
     around |-> IF r.horizon \in refits THEN Bounds(r.version, feature[r.krs][r.month]) ELSE NoBounds]

\* The score_intervals asset: a row for every joined score, in one transaction.  Which refits
\* reproduce depends on the training rows rebuilt, which are not modelled: any may.
Intervals ==
    /\ CanRefit
    /\ \E refits \in SUBSET Horizon :
         intervals' = intervals \union
           {Refitted(r, refits) : r \in UNION {Joined(h) : h \in Horizon}}
    /\ UNCHANGED <<inputs, scores, exclusions, alerts>>

----------------------------------------------------------------------------
(* Alerts.                                                                    *)

\* The rows of one company, horizon and version form a series, and a row is
\* compared with the one before it, scored or not.
Earlier(r) ==
    {q \in scores : /\ q.krs = r.krs /\ q.horizon = r.horizon /\ q.version = r.version
                    /\ q.month < r.month}
Previous(r) == CHOOSE q \in Earlier(r) : \A p \in Earlier(r) : p.month <= q.month

Comparable ==
    {r \in scores : /\ r.horizon = AlertHorizon
                    /\ r.probability # NotScored
                    /\ Earlier(r) # {}
                    /\ Previous(r).probability # NotScored}

ScoreAlert(type, r) ==
    [type |-> type, krs |-> r.krs, month |-> r.month, key |-> r.version,
     now |-> r.probability, before |-> Previous(r).probability]

Crossed(r) == Previous(r).probability < Level /\ Level <= r.probability
Jumped(r) ==
    /\ r.probability - Previous(r).probability >= MinIncrease
    /\ r.probability >= MinRatio * Previous(r).probability

ScoreAlerts ==
    {ScoreAlert("threshold_crossed", r) : r \in {s \in Comparable : Crossed(s)}}
      \union {ScoreAlert("score_jump", r) : r \in {s \in Comparable : Jumped(s)}}

\* A flag true at a month-end and not at the company's row before it.
RowsBefore(c, m) == {n \in 1 .. m - 1 : feature[c][n] # Absent}
Flagged(c, m) == feature[c][m] >= HighFlag
Triggered(c, m) ==
    /\ Flagged(c, m)
    /\ RowsBefore(c, m) # {}
    /\ ~Flagged(c, Max(RowsBefore(c, m)))
TripwireAlert(c, m) ==
    [type |-> "tripwire_triggered", krs |-> c, month |-> m, key |-> 0,
     now |-> feature[c][m], before |-> feature[c][Max(RowsBefore(c, m))]]
FeatureAlerts ==
    UNION {{TripwireAlert(c, m) : m \in {n \in 1 .. month : Triggered(c, n)}} : c \in Companies}

\* (a mistake: an id that leaves out what fired)
AlertIdOfMonth(a) == <<a.krs, a.month>>

AlertId(a) == <<a.type, a.krs, a.month, a.key>>
AlertIds(found) == {AlertId(a) : a \in found}

\* The alerts asset: what is not stored yet under its id is added.
Alerts ==
    /\ alerts' = alerts \union
         {a \in ScoreAlerts \union FeatureAlerts : AlertId(a) \notin AlertIds(alerts)}
    /\ UNCHANGED <<inputs, scores, exclusions, intervals>>

----------------------------------------------------------------------------

Next ==
    \/ Serve \/ BuildFeatureSet
    \/ NewMonth \/ Rebuild \/ Reassess
    \/ Scores \/ Intervals \/ Alerts

\* The nightly chain runs the alerts, the scoring job ends with the intervals;
\* neither keeps failing once it can run.
Spec == Init /\ [][Next]_vars /\ WF_vars(Intervals) /\ WF_vars(Alerts)

\* The stored scores hold the same companies and month-ends at every horizon,
\* whatever serves them and whenever a run died: the API and the explorer show
\* the horizons side by side.
HorizonsScoredTogether ==
    \A g, h \in Horizon :
        {<<r.krs, r.month>> : r \in {s \in scores : s.horizon = g}}
          = {<<r.krs, r.month>> : r \in {s \in scores : s.horizon = h}}

\* A stored score alert stays what the rules say of the stored scores: scores
\* are never rewritten and none is ever inserted before another of its series,
\* so the row an alert compared with is still the one before it (rules.py: "an
\* alert's id ... so a rerun yields the same ids").
ScoreAlertsStand ==
    {a \in alerts : a.type # "tripwire_triggered"} \subseteq ScoreAlerts

\* Every crossing or jump of the stored scores is alerted in the end: scores
\* are never taken back, so one that fired still fires at the next run, and no
\* other alert stands in its place.
CrossingsAlerted ==
    []<>(ScoreAlerts \subseteq alerts)

\* Every score gets its interval row in the end, as long as its version serves
\* and was trained on the feature set in feature_store, some version serves the
\* other horizons, and its feature row is still there.
IntervalsArrive ==
    []<>(CanRefit =>
           \A h \in Horizon : \A r \in Pending(h) : feature[r.krs][r.month] = Absent)

\* While no row of feature_store was rewritten, bounds lie around the score they
\* are stored beside, however late they came and whatever serves by then.
IntervalsAreOfTheScore ==
    revisions = 0 =>
      \A i \in intervals :
        i.around # NoBounds =>
          \E r \in scores : Key(r) = Key(i) /\ r.probability = i.around
================================================================================
