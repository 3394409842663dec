---------------------------- MODULE FeatureFamilies ----------------------------
(* The ten feature families: each feature of an entity on a day, with the day  *)
(* the facts behind it became known.  A value is a sequence of integers: one   *)
(* for a number or a flag, numerator and denominator for a ratio, the ratios   *)
(* of its periods for a volatility.  A null feature is the empty set.          *)
EXTENDS FeaturePanel

CONSTANTS
  FeatureSet,     \* set of features [name, family, kind, ...] by kind
  Flows,          \* the inputs that are flows, not stocks
  Band,           \* the period lengths taken for a year
  LagTolerance,   \* days two period ends a year apart may differ from one
  Tripwires,      \* rule -> [from, to, losses, threshold, equity, offsets, non_negative]
  ApprovalDays, FilingDays, Extensions, \* filing deadlines
  StatementTypes  \* RDF type codes of statements

Names(terms) == {t[2] : t \in terms}

FamiliesOf == [ratio |-> {"financial", "construction"}, growth |-> {"financial"},
               volatility |-> {"financial"}, tripwire |-> {"tripwire"},
               below_zero |-> {"tripwire"}, filing |-> {"filing"},
               event_count |-> {"registry", "legal_history"},
               disclosure_flag |-> {"disclosure"}, disclosure_number |-> {"disclosure"},
               text_flag |-> {"text"}, text_years |-> {"text"}, audit_flag |-> {"audit"},
               audit_years |-> {"audit"}, audit_age |-> {"audit"}, size_class |-> {"size"}]

\* What each kind of feature may ask for: inputs the statements can supply, a
\* rule that exists, a ratio to vary.
FigureFeature(f) ==
  LET Mixed(terms) == Names(terms) \cap Flows # {} /\ ~(Names(terms) \subseteq Flows)
  IN  \/ /\ f.kind = "ratio"
         /\ f.numerator # {} /\ f.denominator # {}
         /\ Names(f.numerator \cup f.denominator) \cup f.null_when_negative
              \subseteq DOMAIN Inputs
         /\ ~Mixed(f.numerator) /\ ~Mixed(f.denominator)
      \/ f.kind = "growth" /\ f.input \in DOMAIN Inputs /\ f.years >= 1
      \/ /\ f.kind = "volatility" /\ f.years \in Nat /\ f.years >= 2
         /\ \E g \in FeatureSet : g.name = f.of /\ g.kind = "ratio"
      \/ f.kind = "tripwire" /\ f.rule \in DOMAIN Tripwires
      \/ f.kind = "below_zero" /\ f.input \in DOMAIN Inputs

FilingMetrics == {"days_to_file_latest", "missing_years", "late_filings", "corrections",
                  "statements_quarantined", "latest_filed_as_pdf", "restating_filings",
                  "restatement_max_to_assets"}

\* A lookback where years are counted; event types to count, in a window or ever.
HistoryFeature(f) ==
  \/ /\ f.kind = "filing" /\ f.metric \in FilingMetrics
     /\ (f.metric \in {"missing_years", "late_filings"}) <=> (f.lookback # None)
  \/ f.kind = "event_count" /\ f.types # {} /\ f.window >= 0

\* Features of the files beside the figures: an introduction's item, a signal of
\* a kind of document, a fact of an audit, the class of a year.
DocumentFeature(f) ==
  \/ f.kind = "disclosure_flag" /\ f.negate \in BOOLEAN
  \/ f.kind \in {"text_flag", "text_years"}
       /\ f.document \in {"statement_notes", "auditor_report"}
  \/ f.kind \in {"audit_flag", "audit_years"}
       /\ f.item \in {"modified_opinion", "auditor_changed"}
  \/ f.kind \in {"disclosure_number", "audit_age", "size_class"}

\* FeatureSet, FeatureConfig: features by distinct names, each of a family that
\* can supply it; flows are the inputs of the income statement.
FeatureSetAssumption ==
  /\ \A f, g \in FeatureSet : f.name = g.name => f = g
  /\ \A f \in FeatureSet :
       /\ f.family \in FamiliesOf[f.kind]
       /\ FigureFeature(f) \/ HistoryFeature(f) \/ DocumentFeature(f)
  /\ Band # {} /\ Band = Min(Band)..Max(Band) /\ LagTolerance >= 0
  /\ Flows = {i \in DOMAIN Inputs : \A line \in Inputs[i] : ItemType[line] = "income_statement"}

\* KshTripwires: one rule of the legal form on a day, its coefficients positive,
\* over inputs there are.
TripwiresAssumption ==
  \A name, other \in DOMAIN Tripwires :
    LET rule == Tripwires[name]
    IN  /\ rule.from <= rule.to
        /\ name # other => rule.to < Tripwires[other].from \/ Tripwires[other].to < rule.from
        /\ \A c \in rule.threshold : c[1] > 0
        /\ rule.non_negative \subseteq Names(rule.threshold)
        /\ rule.losses \cup Names(rule.threshold) \cup {rule.equity} \cup rule.offsets
             \subseteq DOMAIN Inputs

\* FilingDeadlines: a period end is extended once.
ExtensionsAssumption ==
  \A x, y \in Extensions : x # y => x.to < y.from \/ y.to < x.from

ASSUME FeatureSetAssumption
ASSUME TripwiresAssumption
ASSUME ExtensionsAssumption

Hit(value, known) == {[value |-> value, known |-> known]}
Flag(b) == IF b THEN <<1>> ELSE <<0>>
Null == {}

Deadline(end) ==
  LET extended == {x \in Extensions : x.from <= end /\ end <= x.to}
  IN  end + ApprovalDays + FilingDays
        + IF extended = {} THEN 0 ELSE (CHOOSE x \in extended : TRUE).extra

\* known_on: a row, kept with its filing's deletion, is known and its filing stands.
KnownOnDay(x, day) == x.row.known <= day /\ (x.deleted = None \/ day < x.deleted)
Known(files, krs, day) == {x.row : x \in {y \in files : y.row.krs = krs /\ KnownOnDay(y, day)}}

\* _latest_by_period: each period's latest of the rows known on a day.
After(r, s) == \/ r.known > s.known
               \/ r.known = s.known /\ r.ref > s.ref
LatestByPeriod(known) ==
  {r \in known : \A s \in known : s.end = r.end /\ <<s.known, s.ref>> # <<r.known, r.ref>>
                                  => After(r, s)}
Latest(known) ==
  LET periods == LatestByPeriod(known)
  IN  {r \in periods : \A s \in periods : s.end <= r.end}

----------------------------------------------------------------------------
(* Financial, construction and tripwire families *)

LatestPeriod(snap) == {v \in snap : \A w \in snap : w.end <= v.end}

\* _Snapshot.back: the period nearest to `years` before, the earlier on a tie.
Back(snap, v, years) ==
  LET Distance(p) == Magnitude(p.end - (v.end - years * YearLength))
      near == {p \in snap : Distance(p) <= LagTolerance /\ p.end < v.end}
  IN  {p \in near : \A q \in near : \/ Distance(p) < Distance(q)
                                    \/ Distance(p) = Distance(q) /\ p.end <= q.end}

InBand(v) == v.start # None /\ (v.end - v.start) + 1 \in Band

Carries(v, names) == names \subseteq DOMAIN v.values
Signed(terms, v) == MapThenSumSet(LAMBDA t : t[1] * v.values[t[2]], terms)

\* length_sensitive: a flow over a stock, or the growth of a flow.
Sensitive(f) ==
  CASE f.kind = "ratio" -> (Names(f.numerator) \subseteq Flows)
                             # (Names(f.denominator) \subseteq Flows)
    [] f.kind = "growth" -> f.input \in Flows
    [] OTHER -> FALSE

RatioOf(f, v) ==
  LET n == Signed(f.numerator, v)
      d == Signed(f.denominator, v)
  IN  IF \/ Sensitive(f) /\ ~InBand(v)
         \/ \E i \in f.null_when_negative \cap DOMAIN v.values : v.values[i] < 0
         \/ ~Carries(v, Names(f.numerator) \cup Names(f.denominator))
      THEN Null
      ELSE IF d = 0 \/ (f.positive /\ d < 0) THEN Null ELSE {<<n, d>>}

Growth(f, snap, latest) ==
  UNION {IF \/ Sensitive(f) /\ ~(InBand(latest) /\ InBand(base))
            \/ ~Carries(latest, {f.input})
            \/ ~Carries(base, {f.input})
         THEN Null
         ELSE IF base.values[f.input] <= 0 THEN Null
              ELSE Hit(<<latest.values[f.input], base.values[f.input]>>,
                       Max({latest.known, base.known})) :
         base \in Back(snap, latest, f.years)}

\* The latest period and the ones each a year before, in a set of at most one:
\* none when there are not as many as `years`.
Chains(snap, latest, years) ==
  {c \in [1..years -> snap] :
     /\ c[1] = latest
     /\ \A i \in 2..years : c[i] \in Back(snap, c[i - 1], 1)}

Spread(chain, ratios) ==
  IF \E i \in DOMAIN ratios : ratios[i] = Null THEN Null
  ELSE Hit(FlattenSeq([i \in DOMAIN ratios |-> CHOOSE r \in ratios[i] : TRUE]),
           Max({chain[i].known : i \in DOMAIN chain}))

Volatility(f, snap, latest) ==
  LET ratio == CHOOSE g \in FeatureSet : g.name = f.of
  IN  UNION {Spread(c, [i \in DOMAIN c |-> RatioOf(ratio, c[i])]) :
             c \in Chains(snap, latest, f.years)}

\* _tripwire: a loss strictly above the threshold, its coefficients in halves.
\* A negative equity triggers it first; a negative capital makes it null.
Tripwire(f, v) ==
  LET rule == Tripwires[f.rule]
      Reported(names) == names \cap DOMAIN v.values
      Total(names) == MapThenSumSet(LAMBDA i : v.values[i], names)
      negative == /\ rule.equity \in DOMAIN v.values
                  /\ v.values[rule.equity] < 0
                  /\ Total(Reported(rule.offsets)) >= 0
      halves == MapThenSumSet(LAMBDA c : c[1] * v.values[c[2]], rule.threshold)
      required == rule.losses \cup Names(rule.threshold)
  IN  IF ~(rule.from <= v.end /\ v.end <= rule.to) THEN Null
      ELSE IF negative THEN Hit(<<1>>, v.known)
      ELSE IF ~Carries(v, required) \/ (\E i \in rule.non_negative : v.values[i] < 0) THEN Null
      ELSE Hit(Flag(2 * Max({0, -Total(rule.losses)}) > halves), v.known)

\* _financial_value
PanelValue(f, snap) ==
  UNION {CASE f.kind = "ratio" ->
                UNION {Hit(r, v.known) : r \in RatioOf(f, v)}
           [] f.kind = "growth" -> Growth(f, snap, v)
           [] f.kind = "volatility" -> Volatility(f, snap, v)
           [] f.kind = "tripwire" -> Tripwire(f, v)
           [] f.kind = "below_zero" ->
                IF Carries(v, {f.input}) THEN Hit(Flag(v.values[f.input] < 0), v.known)
                ELSE Null :
         v \in LatestPeriod(snap)}

----------------------------------------------------------------------------
(* Filing behaviour *)

\* statement_filings: the parts of one filing are one filing, present while any
\* part is; what a part's parse or grade says holds of the whole.
FilingKey(r) == <<r.krs, r.start, r.end, r.submitted, r.correction>>
DatedStatements(index) == {r \in index : r.type \in StatementTypes /\ r.submitted # None}
Parts(index, k) == {r \in DatedStatements(index) : FilingKey(r) = k}

Said(status, r, what) ==
  \E s \in status : s.krs = r.krs /\ s.ref = r.ref /\ s.status = what
Untrusted(canonical, r) ==
  \E c \in canonical : c.krs = r.krs /\ c.ref = r.ref /\ c.grade = "quarantined"

FilingOf(k, parts, status, canonical) ==
  [krs |-> k[1], start |-> k[2], end |-> k[3], known |-> k[4], correction |-> k[5],
   pdf |-> \A r \in parts : r.pdf_name \/ Said(status, r, "needs_pdf_tier"),
   quarantined |-> \E r \in parts : Said(status, r, "quarantined") \/ Untrusted(canonical, r)]

DeletedAll(parts) ==
  IF \E r \in parts : r.deleted = None THEN None ELSE Max({r.deleted : r \in parts})

\* Each filing with the day it was deleted.
StatementFilings(index, status, canonical) ==
  {[row |-> FilingOf(k, Parts(index, k), status, canonical),
    deleted |-> DeletedAll(Parts(index, k))] :
     k \in {FilingKey(r) : r \in DatedStatements(index)}}

\* _year_ends: the latest year ends already due, from the first filing known.
YearEnds(known, day, lookback) ==
  LET anchor == Max({f.end : f \in known})
      first  == Min({f.end : f \in known})
      due    == {e \in {anchor + k * YearLength : k \in (first - anchor)..day} :
                   e >= first /\ Deadline(e) < day}
  IN  {e \in due : Cardinality({d \in due : d > e}) < lookback}

\* _covering: filings for a period that ends in the year to that end.
Covering(known, yearEnd) ==
  {f \in known : /\ f.end - (yearEnd - YearLength) > LagTolerance
                 /\ f.end - yearEnd <= LagTolerance}

LateFor(known, yearEnd) ==
  LET covering == Covering(known, yearEnd)
      end == Max({f.end : f \in covering})
  IN  /\ covering # {}
      /\ Min({f.known : f \in {g \in covering : g.end = end}}) > Deadline(end)

\* restatement_max_to_assets: the latest restating filing's largest line.
RestatementToAssets(restating, snap, evidence) ==
  LET last == {r \in restating : \A s \in restating :
                 \/ r.known > s.known
                 \/ r.known = s.known /\ r.ref >= s.ref}
      ref == (CHOOSE r \in last : TRUE).ref
      period == (CHOOSE r \in last : TRUE).period_end
      largest == Max({Magnitude(r.difference) : r \in {s \in restating : s.ref = ref}})
      restated == {v \in snap :
                     v.end = period /\ "total_assets" \in DOMAIN v.values
                       /\ v.values["total_assets"] > 0}
  IN  IF restating = {} THEN Hit(<<0, 1>>, evidence)
      ELSE UNION {Hit(<<largest, v.values["total_assets"]>>,
                      Max({(CHOOSE r \in last : TRUE).known, v.known})) : v \in restated}

\* _FilingHistory.value
FilingValue(f, known, restating, snap, day) ==
  LET evidence == Max({x.known : x \in known})
      Count(set) == Hit(<<Cardinality(set)>>, evidence)
      end == Max({x.end : x \in known})
      first == Min({x.known : x \in {y \in known : y.end = end}})
      Newer(x, y) == \/ x.end > y.end
                     \/ x.end = y.end /\ x.known > y.known
                     \/ /\ <<x.end, x.known>> = <<y.end, y.known>>
                        /\ y.correction => x.correction
      latest == CHOOSE x \in known : \A y \in known : Newer(x, y)
  IN  IF known = {} THEN Null
      ELSE CASE f.metric = "days_to_file_latest" -> Hit(<<first - end>>, first)
             [] f.metric = "missing_years" ->
                  Count({e \in YearEnds(known, day, f.lookback) : Covering(known, e) = {}})
             [] f.metric = "late_filings" ->
                  Count({e \in YearEnds(known, day, f.lookback) : LateFor(known, e)})
             [] f.metric = "corrections" -> Count({x \in known : x.correction})
             [] f.metric = "statements_quarantined" -> Count({x \in known : x.quarantined})
             [] f.metric = "latest_filed_as_pdf" -> Hit(Flag(latest.pdf), latest.known)
             [] f.metric = "restating_filings" -> Count({r.ref : r \in restating})
             [] f.metric = "restatement_max_to_assets" ->
                  RestatementToAssets(restating, snap, evidence)

----------------------------------------------------------------------------
(* Registry and legal events *)

\* _EventHistory.value: events by type and day, each from the day it was first
\* seen; counted by that day, never by its own date.
EventValue(f, events, day) ==
  LET Key(e) == <<e.type, IF e.date = None THEN e.known ELSE e.date>>
      FirstSeen(k) == Min({e.known : e \in {x \in events : Key(x) = k}})
      seen == {e.known : e \in {x \in events : x.known <= day}}
      counted == {k \in {Key(e) : e \in {x \in events : x.type \in f.types}} :
                    /\ FirstSeen(k) <= day
                    /\ f.window # None => FirstSeen(k) > day - f.window}
  IN  IF seen = {} THEN Null
      ELSE Hit(<<Cardinality(counted)>>,
               IF counted = {} THEN Max(seen) ELSE Max({FirstSeen(k) : k \in counted}))

----------------------------------------------------------------------------
(* Families read from one row per statement file *)

DisclosureValue(f, rows) ==
  UNION {IF f.kind = "disclosure_flag"
         THEN Hit(Flag((r.value = 1) # f.negate), r.known) ELSE Hit(<<r.value>>, r.known) :
         r \in {s \in rows : s.item = f.item /\ \E l \in Latest(rows) :
                               <<l.ref, l.member>> = <<s.ref, s.member>>}}

\* Periods whose rows were flagged, dated by those or by all read.
Years(seen, flagged) ==
  IF seen = {} THEN Null
  ELSE Hit(<<Cardinality(flagged)>>,
           Max({r.known : r \in IF flagged # {} THEN flagged ELSE seen}))

TextValue(f, rows) ==
  LET about == {r \in rows : r.document = f.document /\ r.signal = f.signal}
      read  == {r \in about : r.present > 0 \/ r.status \in {"read", "partial"}}
      seen  == LatestByPeriod(read)
  IN  IF f.kind = "text_flag"
      THEN UNION {IF r.present > 0 THEN Hit(<<1>>, r.known)
                  ELSE IF r.status = "read" THEN Hit(<<0>>, r.known) ELSE Null :
                  r \in Latest(about)}
      ELSE Years(seen, {r \in seen : r.present > 0})

AuditValue(f, rows, day) ==
  LET seen == LatestByPeriod({r \in rows : f.item \in DOMAIN r.facts})
  IN  CASE f.kind = "audit_age" -> UNION {Hit(<<day - r.end>>, r.known) : r \in Latest(rows)}
        [] f.kind = "audit_flag" ->
             UNION {IF f.item \in DOMAIN r.facts THEN Hit(Flag(r.facts[f.item]), r.known)
                    ELSE Null : r \in Latest(rows)}
        [] f.kind = "audit_years" -> Years(seen, {r \in seen : r.facts[f.item]})

SizeValue(rows) ==
  UNION {IF r.row.class = Undetermined THEN Null ELSE Hit(<<Rank(r.row.class)>>, r.known) :
         r \in Latest(rows)}

----------------------------------------------------------------------------
Of(rows, krs) == {r \in rows : r.krs = krs}

FeatureValue(f, inputs, krs, day) ==
  LET snap == Snapshot(Of(inputs.panel, krs), day)
  IN  CASE f.family \in {"financial", "construction", "tripwire"} -> PanelValue(f, snap)
        [] f.family = "filing" ->
             FilingValue(f, Known(inputs.filings, krs, day),
                         {r \in Of(inputs.restatements, krs) : r.known <= day}, snap, day)
        [] f.family \in {"registry", "legal_history"} ->
             EventValue(f, Of(inputs.events, krs), day)
        [] f.family = "disclosure" ->
             DisclosureValue(f, Known(inputs.disclosures, krs, day))
        [] f.family = "text" -> TextValue(f, Known(inputs.text, krs, day))
        [] f.family = "audit" -> AuditValue(f, Known(inputs.audit, krs, day), day)
        [] f.family = "size" -> SizeValue(Known(inputs.size, krs, day))

\* compute_features: every family's values on the grid.
FeatureValues(grid, inputs) ==
  UNION {UNION {{[krs |-> g[1], day |-> g[2], feature |-> f.name,
                  value |-> h.value, known |-> h.known] :
                  h \in FeatureValue(f, inputs, g[1], g[2])} : f \in FeatureSet} : g \in grid}
===============================================================================
