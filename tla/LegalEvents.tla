----------------------------- MODULE LegalEvents -----------------------------
(*************************************************************************)
(* From register rows to outcome labels, for one company: the rows that  *)
(* `finalise` groups into events (parsing/legal_events.py), the          *)
(* canonical reading of a group (staging/legal_events_canonical.sql),    *)
(* and the label of one row of the grid                                  *)
(* (staging/outcome_label_grid.sql).  All operators are pure: `rows` is  *)
(* the set of rows read so far.                                          *)
(*                                                                       *)
(* A row is [source, type, case, date, known, decided]: its source, its  *)
(* event type, the case it is signed with or NoCase, its decision date   *)
(* or NoDate, the day it was published, and the true day of its event,   *)
(* which the code never sees.  Days are naturals, a month is MonthLength *)
(* of them and a month-end is a multiple of it.                          *)
(*************************************************************************)
EXTENDS Integers, FiniteSets

CONSTANTS
    MonthLength,        \* days in a month
    Horizons,           \* horizons_months
    GridStart,          \* as_of_grid.start, a month-end
    Launch,             \* krz_launch
    AliveLagMonths,     \* alive_lag_months
    PetitionExpiry,     \* petition_expiry_months
    AdoptionWindow      \* _ADOPTION_WINDOW_DAYS

ASSUME CalendarAssumption ==
    /\ MonthLength \in Nat \ {0}
    /\ Horizons \subseteq Nat \ {0}
    /\ GridStart \in Nat /\ Launch \in Nat
    /\ AliveLagMonths \in Nat
    /\ PetitionExpiry \in Nat \ {0}
    /\ AdoptionWindow \in Nat

NoDate == 0             \* event_date is null; every real date is positive
NoCase == "no_case"     \* the row carries no signature
NoClass == "none"       \* outcome_class is null
Alive == "alive"
MergedAway == "merged_away"

------------------------------------------------------------------------------
(* The procedure taxonomy, one event type for each way the labels treat one. *)

Stage(type) ==
    CASE type = "bankruptcy_petition" -> "petition"
      [] type \in {"bankruptcy_declared", "restructuring_proceedings_opened",
                   "liquidation_opened"} -> "opening"
      [] type \in {"bankruptcy_proceeding_ended",
                   "restructuring_proceeding_ended", "liquidation_closed"} -> "closing"
      [] type = "deregistered" -> "exit"
      [] OTHER -> "signal"

OutcomeClass(type) ==
    CASE type \in {"bankruptcy_petition", "bankruptcy_declared"} -> "bankruptcy"
      [] type = "restructuring_proceedings_opened" -> "restructuring"
      [] type = "liquidation_opened" -> "liquidation"
      [] type = "deregistered" -> "silent_exit"
      [] OTHER -> NoClass

Ends(type) ==
    CASE type = "bankruptcy_proceeding_ended" -> {"bankruptcy"}
      [] type = "restructuring_proceeding_ended" -> {"restructuring"}
      [] type = "liquidation_closed" -> {"liquidation"}
      [] type = "deregistered" -> {"bankruptcy", "restructuring", "liquidation"}
      [] OTHER -> {}

ProceedingClasses == {"bankruptcy", "restructuring", "liquidation"}

PrecludesSilentExit(type) ==
    OutcomeClass(type) \in ProceedingClasses \/ type = "merger_division_transformation"

\* Openings deduplicate by outcome class, every other event by its type.
DedupKind(row) ==
    IF Stage(row.type) = "opening" THEN <<"opening", OutcomeClass(row.type)>>
                                   ELSE <<"type", row.type>>

------------------------------------------------------------------------------
(* finalise: rows to groups.                                               *)

MinOf(S) == CHOOSE m \in S : \A x \in S : m <= x

SameKind(rows, row) == {o \in rows : DedupKind(o) = DedupKind(row)}

\* The cases of the signed rows of this kind and date that an unsigned row can join.
SignedOn(rows, row) ==
    {<<"case", o.case>> : o \in {x \in SameKind(rows, row) :
                                    x.case # NoCase /\ x.date = row.date}}

\* A signed row anchors its case; a dated one joins the single signed group of its
\* kind on that date, or anchors the date.
DatedAnchor(rows, row) ==
    IF row.case # NoCase THEN <<"case", row.case>>
    ELSE IF Cardinality(SignedOn(rows, row)) = 1
         THEN CHOOSE a \in SignedOn(rows, row) : TRUE
         ELSE <<"date", row.date>>

\* The groups of its kind decided at most AdoptionWindow days before an undated row
\* became known.
Adopters(rows, row) ==
    {DatedAnchor(rows, o) : o \in {x \in SameKind(rows, row) :
                                    /\ x.date # NoDate
                                    /\ x.date <= row.known
                                    /\ row.known - x.date <= AdoptionWindow}}

Anchor(rows, row) ==
    IF row.case # NoCase \/ row.date # NoDate THEN DatedAnchor(rows, row)
    ELSE IF Cardinality(Adopters(rows, row)) = 1
         THEN CHOOSE a \in Adopters(rows, row) : TRUE
         ELSE <<"known", row.known>>

Group(rows, row) == {o \in SameKind(rows, row) : Anchor(rows, o) = Anchor(rows, row)}

Groups(rows) == {Group(rows, row) : row \in rows}

------------------------------------------------------------------------------
(* legal_events_canonical: one event per group.                             *)

TypeOf(g) == (CHOOSE row \in g : TRUE).type
Dates(g) == {row.date : row \in g} \ {NoDate}
KnownFrom(g) == MinOf({row.known : row \in g})
EffectiveDate(g) == IF Dates(g) # {} THEN MinOf(Dates(g)) ELSE KnownFrom(g)

Before(rows, g) == {p \in Groups(rows) : EffectiveDate(p) <= EffectiveDate(g)}

\* A deregistration takes the latest class before it, is a merger's exit after an
\* event that precludes a silent one, and is a silent exit otherwise.
LabelClass(rows, g) ==
    LET prior == {p \in Before(rows, g) : OutcomeClass(TypeOf(p)) \in ProceedingClasses}
        last == CHOOSE p \in prior : \A o \in prior : EffectiveDate(o) <= EffectiveDate(p)
        precluded == \E p \in Before(rows, g) \ {g} : PrecludesSilentExit(TypeOf(p))
    IN  IF TypeOf(g) # "deregistered" THEN OutcomeClass(TypeOf(g))
        ELSE IF prior # {} THEN OutcomeClass(TypeOf(last))
        ELSE IF precluded THEN MergedAway
        ELSE "silent_exit"

------------------------------------------------------------------------------
(* outcome_label_grid: one row (asOf, h) of a company with this cutoff.       *)

WindowEnd(asOf, h) == asOf + h * MonthLength

\* Mutant: version 1's limit, the cutoff itself.
AliveLimitNoLag(windowEnd, cutoff) == cutoff

AliveLimit(windowEnd, cutoff) ==
    IF windowEnd >= Launch THEN cutoff - AliveLagMonths * MonthLength ELSE cutoff

Deregistered(rows, asOf) ==
    \E g \in Groups(rows) : TypeOf(g) = "deregistered" /\ EffectiveDate(g) <= asOf

\* Mutant: a closing of the class before the opening counts too.
InProceedingAnyClosing(rows, asOf) ==
    \E g \in Groups(rows) :
        /\ Stage(TypeOf(g)) \in {"petition", "opening"}
        /\ EffectiveDate(g) <= asOf
        /\ \/ Stage(TypeOf(g)) = "opening"
           \/ asOf < EffectiveDate(g) + PetitionExpiry * MonthLength
        /\ ~ \E c \in Groups(rows) :
                /\ Stage(TypeOf(c)) = "closing"
                /\ OutcomeClass(TypeOf(g)) \in Ends(TypeOf(c))
                /\ EffectiveDate(c) <= asOf

\* An opening lasts until a closing of its class, a petition also expires.
InProceeding(rows, asOf) ==
    \E g \in Groups(rows) :
        /\ Stage(TypeOf(g)) \in {"petition", "opening"}
        /\ EffectiveDate(g) <= asOf
        /\ \/ Stage(TypeOf(g)) = "opening"
           \/ asOf < EffectiveDate(g) + PetitionExpiry * MonthLength
        /\ ~ \E c \in Groups(rows) :
                /\ Stage(TypeOf(c)) = "closing"
                /\ OutcomeClass(TypeOf(g)) \in Ends(TypeOf(c))
                /\ EffectiveDate(g) <= EffectiveDate(c) /\ EffectiveDate(c) <= asOf

Excluded(rows, asOf) == Deregistered(rows, asOf) \/ InProceeding(rows, asOf)

Triggers(rows, asOf, h) ==
    {g \in Groups(rows) :
        /\ OutcomeClass(TypeOf(g)) # NoClass
        /\ asOf < EffectiveDate(g) /\ EffectiveDate(g) <= WindowEnd(asOf, h)}

Precedence(class) ==
    CASE class = "bankruptcy" -> 1 [] class = "restructuring" -> 2
      [] class = "liquidation" -> 3 [] class = "silent_exit" -> 4 [] OTHER -> 5

\* The first event of the window; on one day, the class of higher precedence.
Trigger(rows, asOf, h) ==
    CHOOSE g \in Triggers(rows, asOf, h) :
        \A o \in Triggers(rows, asOf, h) :
            \/ EffectiveDate(g) < EffectiveDate(o)
            \/ /\ EffectiveDate(g) = EffectiveDate(o)
               /\ Precedence(LabelClass(rows, g)) <= Precedence(LabelClass(rows, o))

\* The class of a row that is not excluded; NoClass when it is censored.
Outcome(rows, cutoff, asOf, h) ==
    IF Triggers(rows, asOf, h) # {}
    THEN LET class == LabelClass(rows, Trigger(rows, asOf, h))
         IN  IF class = MergedAway THEN NoClass ELSE class
    ELSE IF WindowEnd(asOf, h) <= AliveLimit(WindowEnd(asOf, h), cutoff) THEN Alive
    ELSE NoClass

MonthEnds(cutoff) == {d \in GridStart .. cutoff : d % MonthLength = 0}

\* marts.outcome_labels: the grid's rows that are not excluded.
Labels(rows, cutoff) ==
    {[asOf |-> a, horizon |-> h, class |-> Outcome(rows, cutoff, a, h),
      knownFrom |-> IF Triggers(rows, a, h) # {} THEN KnownFrom(Trigger(rows, a, h))
                                                ELSE NoDate,
      cutoff |-> cutoff] :
        a \in {d \in MonthEnds(cutoff) : ~ Excluded(rows, d)}, h \in Horizons}
==============================================================================
