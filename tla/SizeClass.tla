------------------------------- MODULE SizeClass -------------------------------
(* The statutory size class per fiscal year: criteria known within bounds are  *)
(* placed in regions between the regime's thresholds, and a year has a class   *)
(* only when every combination of regions gives the same one.                  *)
EXTENDS AccountingIdentities

CONSTANTS
  Regimes,         \* set of [id, from, to, carry_over, thresholds]
  TotalAssetsLine, \* the line of the first criterion
  RevenueRules,    \* sequence of [when, low, high]; high is {} where unbounded
  EmploymentItem   \* the disclosure of the third

Criteria == {"total_assets", "net_revenue", "average_employment"}

\* Regime, SizeThresholds: thresholds that increase, and regimes that leave no
\* gap and no overlap.
RegimesAssumption ==
  /\ \A r \in Regimes :
       /\ r.from <= r.to
       /\ \A c \in Criteria : \A i \in 1..2 : r.thresholds[c][i] < r.thresholds[c][i + 1]
  /\ \A r, s \in Regimes :
       /\ r.id = s.id => r = s
       /\ r # s => r.to < s.from \/ s.to < r.from
       /\ r.from < s.from => \E t \in Regimes : t.from = r.to + 1

\* RevenueRule: a bound adds up lines its rule requires, the lower one only adds.
RevenueRulesAssumption ==
  \A i \in DOMAIN RevenueRules :
    LET rule == RevenueRules[i]
    IN  /\ {t[2] : t \in rule.low \cup UNION rule.high} \subseteq rule.when
        /\ \A t \in rule.low : t[1] = 1

\* carried_code_sets, load_size_class_inputs: every body a spec can reach carries
\* the total assets, and some body the lines of each rule.
CarriedCodeSets(cfg) ==
  UNION {{{Canonical(spec, code) : code \in Codes(Bodies[s.body])} :
            s \in UNION {ToSet(spec.shapes[n]) : n \in DOMAIN spec.shapes}} :
          spec \in {cfg.specs[k] : k \in DOMAIN cfg.specs}}

ConsistentSizeInputs(cfg) ==
  /\ \A carried \in CarriedCodeSets(cfg) : TotalAssetsLine \in carried
  /\ \A i \in DOMAIN RevenueRules :
       \E carried \in CarriedCodeSets(cfg) : RevenueRules[i].when \subseteq carried

ASSUME RegimesAssumption
ASSUME RevenueRulesAssumption

Classes == <<"micro", "small", "medium", "large">>
Gap == "gap"
NoStatus == "no earlier status"
Undetermined == "undetermined"

\* A value known exactly, or between `low` and the member of `high`; a criterion
\* with no `high` is unbounded above.
Exact(v) == [low |-> v, high |-> {v}]
Unknown == [low |-> 0, high |-> {}]

\* Bounds.regions, reading a threshold as the first value above it.
RegionsFromThreshold(bounds, limits) ==
  {r \in 0..3 : /\ r > 0 => \A h \in bounds.high : h >= limits[r]
                /\ r < 3 => bounds.low < limits[r + 1]}

\* Bounds.regions: 0 at or below the first threshold, 3 above all three.
Regions(bounds, limits) ==
  {r \in 0..3 : /\ r > 0 => \A h \in bounds.high : h > limits[r]
                /\ r < 3 => bounds.low <= limits[r + 1]}

Terms(terms, codes) == MapThenSumSet(LAMBDA t : t[1] * codes[t[2]], terms)

\* revenue_bounds: the first rule whose lines the statement carries.
RevenueBounds(codes) ==
  LET applying == SelectSeq(RevenueRules, LAMBDA r : r.when \subseteq DOMAIN codes)
      rule == Head(applying)
      low  == Terms(rule.low, codes)
      high == {Terms(h, codes) : h \in rule.high}
  IN  IF applying = <<>> \/ (\E h \in high : h < low) THEN Unknown
      ELSE [low |-> Max({low, 0}), high |-> high]

\* The levels of a year whose criteria lie in those regions: the first boundary
\* that at most one criterion exceeds.
LevelsIn(regions) ==
  LET Level(r) == Min({k \in 0..2 : Cardinality({c \in Criteria : r[c] <= k}) >= 2}
                        \cup {3})
  IN  {Level(r) : r \in {f \in [Criteria -> 0..3] : \A c \in Criteria : f[c] \in regions[c]}}

RegionsOf(year, regime) ==
  [c \in Criteria |-> Regions(year[c], regime.thresholds[c])]

----------------------------------------------------------------------------
(* The test of one fiscal year *)

Rank(class) == CHOOSE i \in 0..3 : Classes[i + 1] = class

\* _side, of a year whose year before had any of the levels `before`, {} in the
\* first year of activity.
Side(now, before, k, prior) ==
  LET belows == {l <= k : l \in before \cup {now}}
  IN  CASE belows = {TRUE} -> "below"
        [] belows = {FALSE} -> "above"
        [] belows = {TRUE, FALSE} /\ prior # NoStatus ->
             IF Rank(prior) <= k THEN "below" ELSE "above"
        [] OTHER -> IF k = 2 THEN Gap ELSE "above"

\* _class: the first boundary the year is not above.
ClassOf(now, before, prior) ==
  LET sides == [k \in 0..2 |-> Side(now, before, k, prior)]
      ends  == {k \in 0..2 : sides[k] # "above"}
  IN  IF ends = {} THEN "large"
      ELSE IF sides[Min(ends)] = Gap THEN Gap ELSE Classes[Min(ends) + 1]

\* outcomes; a set of levels before, {} in the first year of activity.
PossibleClasses(now, before, priors) ==
  {ClassOf(t[1], t[2], t[3]) :
     t \in now \X (IF before = {} THEN {{}} ELSE {{b} : b \in before}) \X priors}

Decided(found) == Cardinality(found) = 1 /\ Gap \notin found

\* _decided_when_pinned: whatever the criterion's regions in the two years.
DecidedWhenPinned(now, before, priors, c) ==
  LET Pinned(year, r) == LevelsIn([year EXCEPT ![c] = {r}])
      befores == UNION {{Pinned(b, r) : r \in b[c]} : b \in before}
  IN  \A r \in now[c] : \A b \in IF before = {} THEN {{}} ELSE befores :
        Decided(PossibleClasses(Pinned(now, r), b, priors))

\* _reason
Reason(now, before, priors, found) ==
  IF found = {Gap} THEN "no_prior_side"
  ELSE FirstReason(<<
         <<DecidedWhenPinned(now, before, priors, "average_employment"), "employment_decides">>,
         <<DecidedWhenPinned(now, before, priors, "net_revenue"), "revenue_bounds">>,
         <<TRUE, "inputs_missing">> >>)

Judged(now, before, priors, found) ==
  IF Decided(found)
  THEN [class |-> CHOOSE c \in found : TRUE, reason |-> "", possible |-> found]
  ELSE [class |-> Undetermined, reason |-> Reason(now, before, priors, found),
        possible |-> found]

\* classify_year; `regime` and `before` are sets of at most one member.
ClassifyYear(regime, now, before, priors) ==
  LET Judge(nowIn, beforeIn) ==
        Judged(nowIn, beforeIn, priors,
               PossibleClasses(LevelsIn(nowIn), UNION {LevelsIn(b) : b \in beforeIn}, priors))
  IN  IF regime = {} THEN [class |-> Undetermined, reason |-> "no_regime", possible |-> {}]
      ELSE LET r == CHOOSE x \in regime : TRUE
           IN  Judge(RegionsOf(now, r), {RegionsOf(b, r) : b \in before})

----------------------------------------------------------------------------
(* The history of an entity *)

YearFigures(codes, employment) ==
  [total_assets |-> IF TotalAssetsLine \in DOMAIN codes
                    THEN Exact(codes[TotalAssetsLine]) ELSE Unknown,
   net_revenue |-> RevenueBounds(codes),
   average_employment |-> IF employment = {} THEN Unknown
                          ELSE Exact(CHOOSE e \in employment : TRUE)]

\* filings: the year before's figures as restated where they are, else as filed.
Employment(disclosures, f) ==
  {d.value : d \in {e \in disclosures : /\ e.sha = f.sha /\ e.member = f.member
                                        /\ e.item = EmploymentItem}}

SizeFiling(f, employment) ==
  [krs |-> f.krs, year |-> FiscalYear(f.end), start |-> f.start, end |-> f.end,
   known |-> f.known, ref |-> f.ref, sha |-> f.sha, member |-> f.member, run |-> f.run,
   current |-> YearFigures(Values(f.facts, Current), employment),
   prior |-> YearFigures(Overlaid(Values(f.facts, PriorRestated), Values(f.facts, Prior)), {})]

SizeFilings(canonical, disclosures) ==
  {SizeFiling(f, Employment(disclosures, f)) :
     f \in {g \in canonical : g.grade # "quarantined"}}

\* registrations: the earliest dated one, with the day it became known.
Registration(events, krs) ==
  LET dated == {e \in events : e.krs = krs /\ e.type = "registered" /\ e.date # None}
  IN  {e \in dated : \A o \in dated : \/ e.date < o.date
                                      \/ e.date = o.date /\ e.known <= o.known}

RegimeFor(start) == {r \in Regimes : r.from <= start /\ start <= r.to}

\* Filing.order. Of two filings known on one day the code takes the one with the greater hash and
\* member, an order without meaning that never changes: the order of their numbers stands for it.
Later(f, g) == \/ f.known > g.known
               \/ f.known = g.known /\ f.ref > g.ref

\* What a year takes from the class of the year before.
CarriedOver(regime, regimeBefore, possible) ==
  IF /\ \E r \in regime : r.carry_over
     /\ regime = regimeBefore
     /\ possible \ {Gap} # {}
  THEN (possible \ {Gap}) \cup (IF Gap \in possible THEN {NoStatus} ELSE {})
  ELSE {NoStatus}

\* The figures of the year before, of which the last filing has the employment;
\* none in the first year of activity. `of` is fiscal year -> its latest filing.
FiguresBefore(of, firstDays, f) ==
  IF \E day \in firstDays : f.start <= day /\ day <= f.end THEN {}
  ELSE {[f.prior EXCEPT !.average_employment =
           IF f.year - 1 \in DOMAIN of THEN of[f.year - 1].current.average_employment
           ELSE Unknown]}

\* Year -> its class, the years in order.
YearClasses(of, firstDays) ==
  LET result[y \in DOMAIN of] ==
        LET priors == IF y - 1 \in DOMAIN of
                      THEN CarriedOver(RegimeFor(of[y].start), RegimeFor(of[y - 1].start),
                                       result[y - 1].possible)
                      ELSE {NoStatus}
        IN  ClassifyYear(RegimeFor(of[y].start), of[y].current, FiguresBefore(of, firstDays, of[y]), priors)
  IN  result

\* A day's years, each with the figures of the year before and its class.
Classified(of, firstDays) ==
  {[filing |-> of[y], before |-> FiguresBefore(of, firstDays, of[y]),
    class |-> YearClasses(of, firstDays)[y].class,
    reason |-> YearClasses(of, firstDays)[y].reason] : y \in DOMAIN of}

\* One entity's years from the filings and the registration known on a day.
ClassesOn(filings, registration, day) ==
  LET latest == {f \in filings : /\ f.known <= day
                                /\ \A g \in filings \ {f} :
                                     g.known <= day /\ g.year = f.year => Later(f, g)}
  IN  Classified([y \in {f.year : f \in latest} |-> CHOOSE f \in latest : f.year = y],
                 {e.date : e \in {r \in registration : r.known <= day}})

\* The rows a day adds to the history: those the day before it did not have.
NewRows(krs, on) ==
  UNION {LET earlier == {d \in DOMAIN on : d < day}
         IN  {[krs |-> krs, known |-> day, ref |-> r.filing.ref,
               member |-> r.filing.member, end |-> r.filing.end, row |-> r] :
                r \in on[day] \ IF earlier = {} THEN {} ELSE on[Max(earlier)]} :
         day \in DOMAIN on}

\* entity_size_class_history: a row for a year on each day its content changes.
EntityRows(krs, filings, registration) ==
  NewRows(krs, [day \in {f.known : f \in filings} |-> ClassesOn(filings, registration, day)])

SizeClassHistory(canonical, disclosures, events) ==
  LET filings == SizeFilings(canonical, disclosures)
  IN  UNION {EntityRows(krs, {f \in filings : f.krs = krs}, Registration(events, krs)) :
             krs \in {f.krs : f \in filings}}

----------------------------------------------------------------------------
(* What a decided class says *)

\* Every way to fill in the figures a year leaves open, up to `top`.
Completions(year, top) ==
  {v \in [Criteria -> 0..top] :
     \A c \in Criteria : v[c] >= year[c].low /\ \A h \in year[c].high : v[c] <= h}

\* The level the statute gives exact figures: at most one exceeds its threshold.
StatutoryLevel(values, regime) ==
  Min({k \in 0..2 : Cardinality({c \in Criteria :
                                   values[c] > regime.thresholds[c][k + 1]}) <= 1} \cup {3})

StatutoryLevels(year, regime, top) ==
  {StatutoryLevel(v, regime) : v \in Completions(year, top)}

\* The classes a day's years can have, figure by figure, each year carrying the
\* class its year before would have had.
StatutoryClasses(rows, top) ==
  LET classes[row \in rows] ==
        LET regime == CHOOSE r \in RegimeFor(row.filing.start) : TRUE
            carried == {r \in rows : /\ regime.carry_over
                                     /\ r.filing.year = row.filing.year - 1
                                     /\ regime \in RegimeFor(r.filing.start)}
            priors == IF carried = {} THEN {NoStatus}
                      ELSE {IF c = Gap THEN NoStatus ELSE c :
                              c \in UNION {classes[r] : r \in carried}}
        IN  PossibleClasses(StatutoryLevels(row.filing.current, regime, top),
                            UNION {StatutoryLevels(b, regime, top) : b \in row.before}, priors)
  IN  classes

DecidedRowStands(rows, row, top) ==
  row.class # Undetermined => StatutoryClasses(rows, top)[row] = {row.class}
===============================================================================
