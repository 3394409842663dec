--------------------------- MODULE ModelScoresProofs ---------------------------
(*************************************************************************)
(* For any horizons, versions, companies, inputs and alert rules: scores *)
(* are complete across horizons, the alerts read off them stand, and an  *)
(* interval made late is still around its score.                         *)
(*                                                                       *)
(* All three rest on what a later scoring may add: rows of the latest    *)
(* month-end only, under keys not stored yet (ScoreTypes).  The          *)
(* interval's also needs that the row it refits is the one that was      *)
(* scored, which holds until a rebuild (ReadFromRows).                   *)
(*************************************************************************)
EXTENDS ModelScores, TLAPS

Values == Inputs \union {Null, Absent}

DataTypes ==
    /\ served \in [Horizon -> Versions \union {0}]
    /\ month \in Nat \ {0}
    /\ feature \in [Companies -> [1 .. month -> Values]]
    /\ revisions \in Nat

\* A score is of a month-end already reached, by a version that served its horizon.
ScoreTypes ==
    \A r \in scores : /\ r.krs \in Companies /\ r.month \in 1 .. month
                      /\ r.horizon \in Horizon /\ r.version \in Versions

\* Until a rebuild, a score is what its version makes of the row stored at its month-end.
ReadFromRows ==
    revisions = 0 =>
        \A r \in scores : r.probability = Probability(r.version, feature[r.krs][r.month])

IInv ==
    /\ DataTypes /\ ScoreTypes /\ ReadFromRows
    /\ HorizonsScoredTogether /\ ScoreAlertsStand /\ IntervalsAreOfTheScore

--------------------------------------------------------------------------------
\* What the scoring of a month-end writes.
LEMMA NewScores ==
    ASSUME DataTypes, Scores
    PROVE  /\ UNCHANGED <<inputs, intervals, alerts>>
           /\ \A r \in scores : r \in scores'
           /\ \A r \in scores' : \/ r \in scores
                                 \/ /\ r \in ScoreRows /\ Key(r) \notin Keys(scores)
                                    /\ r.krs \in Companies /\ r.month = month
                                    /\ r.horizon \in Horizon /\ r.version \in Versions
                                    /\ r.probability = Probability(r.version, feature[r.krs][month])
           /\ \A r \in ScoreRows : Key(r) \in Keys(scores')
<1>1. scores' = Insert(scores, ScoreRows) /\ UNCHANGED <<inputs, intervals, alerts>>
  BY DEF Scores
<1>2. \A h \in Horizon : served[h] \in Versions
  BY DEF Scores, CanScore, DataTypes
<1>3. \A r \in ScoreRows : /\ r.krs \in Companies /\ r.month = month
                           /\ r.horizon \in Horizon /\ r.version \in Versions
                           /\ r.probability = Probability(r.version, feature[r.krs][month])
  BY <1>2 DEF ScoreRows, Present
<1>4. \A r \in ScoreRows : Key(r) \in Keys(scores')
  BY <1>1 DEF Insert, Keys
<1> QED
  BY <1>1, <1>3, <1>4 DEF Insert

\* Where the series of the stored scores stay as they are, their alerts do.
LEMMA AlertsStay ==
    ASSUME \A r \in scores : r \in scores' /\ Earlier(r)' = Earlier(r)
    PROVE  ScoreAlerts \subseteq ScoreAlerts'
<1>0. \A r \in scores : Previous(r)' = Previous(r)
  BY DEF Previous
<1>1. \A r \in Comparable : r \in Comparable'
  BY <1>0 DEF Comparable
<1>2. \A r \in Comparable : r \in scores
  BY DEF Comparable
<1>3. \A r \in scores : /\ Crossed(r)' <=> Crossed(r)
                        /\ Jumped(r)' <=> Jumped(r)
                        /\ ScoreAlert("threshold_crossed", r)' = ScoreAlert("threshold_crossed", r)
                        /\ ScoreAlert("score_jump", r)' = ScoreAlert("score_jump", r)
  BY <1>0 DEF Crossed, Jumped, ScoreAlert
<1> QED
  BY <1>1, <1>2, <1>3 DEF ScoreAlerts

\* A score inserted later changes no series before its month-end.
LEMMA SeriesStay ==
    ASSUME DataTypes, ScoreTypes, Scores
    PROVE  ScoreAlerts \subseteq ScoreAlerts'
<1> SUFFICES ASSUME NEW r \in scores PROVE r \in scores' /\ Earlier(r)' = Earlier(r)
  BY AlertsStay
<1>1. \A q \in scores' : q \in scores \/ ~(q.month < r.month)
  BY NewScores DEF ScoreTypes, DataTypes
<1>2. \A q \in scores : q \in scores'
  BY NewScores
<1> QED
  BY <1>1, <1>2 DEF Earlier

\* The score alerts are of the stored scores alone.
LEMMA SameAlerts ==
    ASSUME scores' = scores
    PROVE  ScoreAlerts \subseteq ScoreAlerts'
BY AlertsStay DEF Earlier

\* The company-months scored at horizon h.
ScoredAt(h) == {<<r.krs, r.month>> : r \in {s \in scores : s.horizon = h}}

\* One scoring adds the same companies at every horizon.
LEMMA ScoredTogether ==
    ASSUME DataTypes, Scores, NEW h \in Horizon
    PROVE  ScoredAt(h)' = ScoredAt(h) \union {<<c, month>> : c \in Present \ LeftOut}
<1>1. ScoredAt(h) \subseteq ScoredAt(h)'
  BY NewScores DEF ScoredAt
<1>2. ASSUME NEW c \in Present \ LeftOut PROVE <<c, month>> \in ScoredAt(h)'
  <2> DEFINE r == [krs |-> c, month |-> month, horizon |-> h, version |-> served[h],
                   probability |-> Probability(served[h], feature[c][month])]
  <2>1. r \in ScoreRows
    BY DEF ScoreRows
  <2>2. PICK s \in scores' : Key(s) = Key(r)
    BY <2>1, NewScores DEF Keys
  <2>3. s.krs = c /\ s.month = month /\ s.horizon = h
    BY <2>2 DEF Key
  <2> QED
    BY <2>3 DEF ScoredAt
<1>3. ASSUME NEW r \in scores', r.horizon = h, r \notin scores
      PROVE  <<r.krs, r.month>> \in {<<c, month>> : c \in Present \ LeftOut}
  BY <1>3, NewScores DEF ScoreRows
<1>4. ScoredAt(h)' \subseteq ScoredAt(h) \union {<<c, month>> : c \in Present \ LeftOut}
  BY <1>3 DEF ScoredAt
<1> QED
  BY <1>1, <1>2, <1>4

\* An interval refitted while no row was rewritten lies around its score.
LEMMA IntervalsFit ==
    ASSUME IInv, Intervals
    PROVE  IntervalsAreOfTheScore'
<1> SUFFICES ASSUME revisions' = 0, NEW i \in intervals', i.around # NoBounds
             PROVE  \E r \in scores' : Key(r) = Key(i) /\ r.probability = i.around
  BY DEF IntervalsAreOfTheScore
<1>1. scores' = scores /\ revisions' = revisions
  BY DEF Intervals, inputs
<1>2. CASE i \in intervals
  BY <1>1, <1>2 DEF IInv, IntervalsAreOfTheScore
<1>3. CASE i \notin intervals
  <2>1. PICK refits \in SUBSET Horizon, h \in Horizon : \E r \in Joined(h) : i = Refitted(r, refits)
    BY <1>3 DEF Intervals
  <2>2. PICK r \in Joined(h) : i = Refitted(r, refits)
    BY <2>1
  <2>3. r \in scores /\ r.probability # NotScored /\ Key(r) = Key(i) /\ i.version = r.version
    BY <2>2 DEF Joined, Pending, Refitted, Key
  <2>4. r.probability = Probability(r.version, feature[r.krs][r.month])
    BY <1>1, <2>3 DEF IInv, ReadFromRows
  <2>5. i.around = r.probability
    BY <2>2, <2>3, <2>4 DEF Refitted, Bounds, Probability
  <2> QED
    BY <1>1, <2>3, <2>5
<1> QED
  BY <1>2, <1>3

--------------------------------------------------------------------------------
\* A step that leaves the tables and the rows of past month-ends alone.
LEMMA TablesStay ==
    ASSUME IInv, UNCHANGED tables, DataTypes', month' \in {month, month + 1},
           revisions' = 0 => /\ revisions = 0
                             /\ \A c \in Companies : \A m \in 1 .. month : feature'[c][m] = feature[c][m]
    PROVE  IInv'
<1>1. scores' = scores /\ intervals' = intervals /\ alerts' = alerts
  BY DEF tables
<1>2. ScoreTypes'
  BY <1>1 DEF IInv, ScoreTypes, DataTypes
<1>3. ReadFromRows'
  BY <1>1 DEF IInv, ScoreTypes, ReadFromRows, Probability
<1>4. HorizonsScoredTogether'
  BY <1>1 DEF IInv, HorizonsScoredTogether
<1>5. ScoreAlertsStand'
  BY <1>1, SameAlerts DEF IInv, ScoreAlertsStand
<1>6. IntervalsAreOfTheScore'
  BY <1>1 DEF IInv, IntervalsAreOfTheScore
<1> QED
  BY <1>2, <1>3, <1>4, <1>5, <1>6 DEF IInv

LEMMA NextInv == IInv /\ [Next]_vars => IInv'
<1> SUFFICES ASSUME IInv, [Next]_vars PROVE IInv'
  OBVIOUS
<1>0. DataTypes /\ ScoreTypes /\ ScoresAssumption
  BY ScoresAssumption DEF IInv
<1>1. CASE Scores
  <2>0. UNCHANGED <<inputs, intervals, alerts>>
    BY <1>0, <1>1, NewScores
  <2>1. DataTypes'
    BY <1>0, <2>0 DEF DataTypes, inputs
  <2>2. ScoreTypes'
    BY <1>0, <1>1, <2>0, NewScores DEF ScoreTypes, DataTypes, inputs
  <2>3. ReadFromRows'
    <3>1. \A r \in scores' : \/ r \in scores
                             \/ r.probability = Probability(r.version, feature[r.krs][r.month])
      BY <1>0, <1>1, NewScores
    <3> QED
      BY <2>0, <3>1 DEF IInv, ReadFromRows, inputs, Probability
  <2>4. HorizonsScoredTogether'
    <3>1. \A h \in Horizon : ScoredAt(h)' = ScoredAt(h) \union {<<c, month>> : c \in Present \ LeftOut}
      BY <1>0, <1>1, ScoredTogether
    <3>2. \A g, h \in Horizon : ScoredAt(g) = ScoredAt(h)
      BY DEF IInv, HorizonsScoredTogether, ScoredAt
    <3>3. \A g, h \in Horizon : ScoredAt(g)' = ScoredAt(h)'
      BY <3>1, <3>2
    <3> QED
      BY <3>3 DEF HorizonsScoredTogether, ScoredAt
  <2>5. ScoreAlertsStand'
    BY <1>0, <1>1, <2>0, SeriesStay DEF IInv, ScoreAlertsStand
  <2>6. IntervalsAreOfTheScore'
    BY <1>0, <1>1, <2>0, NewScores DEF IInv, IntervalsAreOfTheScore, inputs
  <2> QED
    BY <2>1, <2>2, <2>3, <2>4, <2>5, <2>6 DEF IInv
<1>2. CASE Intervals
  <2>0. UNCHANGED <<inputs, scores, exclusions, alerts>>
    BY <1>2 DEF Intervals
  <2>1. DataTypes' /\ ScoreTypes' /\ ReadFromRows'
    BY <1>0, <2>0 DEF IInv, DataTypes, ScoreTypes, ReadFromRows, Probability, inputs
  <2>2. HorizonsScoredTogether'
    BY <2>0 DEF IInv, HorizonsScoredTogether
  <2>3. ScoreAlertsStand'
    BY <2>0, SameAlerts DEF IInv, ScoreAlertsStand
  <2> QED
    BY <1>2, <2>1, <2>2, <2>3, IntervalsFit DEF IInv
<1>3. CASE Alerts
  <2>0. UNCHANGED <<inputs, scores, exclusions, intervals>>
    BY <1>3 DEF Alerts
  <2>1. DataTypes' /\ ScoreTypes' /\ ReadFromRows'
    BY <1>0, <2>0 DEF IInv, DataTypes, ScoreTypes, ReadFromRows, Probability, inputs
  <2>2. HorizonsScoredTogether' /\ IntervalsAreOfTheScore'
    BY <2>0 DEF IInv, HorizonsScoredTogether, IntervalsAreOfTheScore, inputs
  <2>3. ScoreAlertsStand'
    <3>1. \A a \in FeatureAlerts : a.type = "tripwire_triggered"
      BY DEF FeatureAlerts, TripwireAlert
    <3>2. \A a \in alerts' : a \in alerts \/ a \in ScoreAlerts \/ a \in FeatureAlerts
      BY <1>3 DEF Alerts
    <3>3. ScoreAlerts \subseteq ScoreAlerts'
      BY <2>0, SameAlerts
    <3> QED
      BY <3>1, <3>2, <3>3 DEF IInv, ScoreAlertsStand
  <2> QED
    BY <2>1, <2>2, <2>3 DEF IInv
<1>4. CASE Serve
  <2>1. DataTypes' /\ UNCHANGED <<month, feature, revisions, tables>>
    BY <1>0, <1>4 DEF Serve, DataTypes
  <2> QED
    BY <2>1, TablesStay
<1>5. CASE BuildFeatureSet \/ UNCHANGED vars
  <2>1. DataTypes' /\ UNCHANGED <<month, feature, revisions, tables>>
    BY <1>0, <1>5 DEF BuildFeatureSet, DataTypes, vars, inputs
  <2> QED
    BY <2>1, TablesStay
<1>6. CASE NewMonth
  <2>1. PICK row \in [Companies -> Values] :
            feature' = [c \in Companies |-> [m \in 1 .. month + 1 |->
                          IF m <= month THEN feature[c][m] ELSE row[c]]]
    BY <1>6 DEF NewMonth, Values
  <2>2. month' = month + 1 /\ UNCHANGED <<served, revisions, tables>> /\ month \in Nat \ {0}
    BY <1>0, <1>6 DEF NewMonth, DataTypes
  <2>3. \A c \in Companies : \A m \in 1 .. month + 1 : m <= month => m \in 1 .. month
    BY <2>2
  <2>4. feature' \in [Companies -> [1 .. month + 1 -> Values]]
    BY <1>0, <2>1, <2>3 DEF DataTypes
  <2>5. \A c \in Companies : \A m \in 1 .. month : feature'[c][m] = feature[c][m]
    BY <2>1, <2>2
  <2>6. DataTypes'
    BY <1>0, <2>2, <2>4 DEF DataTypes
  <2> QED
    BY <2>2, <2>5, <2>6, TablesStay
<1>7. CASE Rebuild
  <2>1. PICK c \in Companies, m \in 1 .. month, v \in Values :
            feature' = [feature EXCEPT ![c][m] = v]
    BY <1>7 DEF Rebuild, Values
  <2>2. revisions' = revisions + 1 /\ UNCHANGED <<served, month, tables>>
    BY <1>7 DEF Rebuild
  <2>3. feature' \in [Companies -> [1 .. month -> Values]]
    BY <1>0, <2>1 DEF DataTypes
  <2>4. DataTypes' /\ revisions' # 0
    BY <1>0, <2>2, <2>3 DEF DataTypes
  <2> QED
    BY <2>2, <2>4, TablesStay
<1>8. CASE Reassess
  <2>1. UNCHANGED <<served, month, feature, tables>> /\ revisions' \in {revisions, revisions + 1}
    BY <1>8 DEF Reassess
  <2>2. DataTypes' /\ (revisions' = 0 => revisions = 0)
    BY <1>0, <2>1 DEF DataTypes
  <2> QED
    BY <2>1, <2>2, TablesStay
<1> QED
  BY <1>1, <1>2, <1>3, <1>4, <1>5, <1>6, <1>7, <1>8 DEF Next

LEMMA InitInv == Init => IInv
<1> SUFFICES ASSUME Init PROVE IInv
  OBVIOUS
<1>1. DataTypes
  <2>1. feature \in [Companies -> [1 .. 1 -> Values]]
    <3>1. {1} = 1 .. 1
      OBVIOUS
    <3> QED
      BY <3>1 DEF Init, Values
  <2> QED
    BY <2>1 DEF Init, DataTypes
<1>2. scores = {} /\ intervals = {} /\ alerts = {}
  BY DEF Init
<1> QED
  BY <1>1, <1>2 DEF IInv, ScoreTypes, ReadFromRows, HorizonsScoredTogether, ScoreAlertsStand,
                    IntervalsAreOfTheScore

--------------------------------------------------------------------------------
\* What every scoring, refit, alert run, rebuild and change of champion keeps.
THEOREM IInvHolds == Spec => []IInv
  BY InitInv, NextInv, PTL DEF Spec

\* Stored scores hold the same companies and month-ends at every horizon.
THEOREM ScoredAtEveryHorizon == Spec => []HorizonsScoredTogether
<1>1. IInv => HorizonsScoredTogether
  BY DEF IInv
<1> QED
  BY <1>1, IInvHolds, PTL

\* A stored score alert is what the rules say of the scores stored now.
THEOREM AlertsStand == Spec => []ScoreAlertsStand
<1>1. IInv => ScoreAlertsStand
  BY DEF IInv
<1> QED
  BY <1>1, IInvHolds, PTL

\* An interval made while no row was rewritten lies around its score, however late it comes.
THEOREM IntervalsHold == Spec => []IntervalsAreOfTheScore
<1>1. IInv => IntervalsAreOfTheScore
  BY DEF IInv
<1> QED
  BY <1>1, IInvHolds, PTL
================================================================================
