-------------------------- MODULE LegalLabelsProofs --------------------------
(*************************************************************************)
(* For every calendar, lag allowance and history the registers can have: *)
(* a frozen `alive` is true.  The argument has two halves.  The job's    *)
(* order keeps the events at least as recent as the cutoff               *)
(* (CheckProgress); and a dated row read by then makes a group of its    *)
(* own date (OneDatePerGroup), so a labelled event decided in the window *)
(* is a trigger and the row not alive.                                   *)
(*************************************************************************)
EXTENDS LegalLabels, FiniteSetTheorems, WellFoundedInduction, TLAPS

\* A smallest element of a pair of integers exists and is below both.
LEMMA MinOfPair ==
    ASSUME NEW a \in Int, NEW b \in Int
    PROVE  /\ MinOf({a, b}) \in {a, b}
           /\ MinOf({a, b}) <= a /\ MinOf({a, b}) <= b
<1>1. \E m \in {a, b} : \A x \in {a, b} : m <= x
  <2>1. CASE a <= b
    BY <2>1
  <2>2. CASE b <= a
    BY <2>2
  <2> QED
    BY <2>1, <2>2
<1> QED
  BY <1>1 DEF MinOf

LEMMA MinOfSingleton ==
    ASSUME NEW a \in Int
    PROVE  MinOf({a}) = a
BY DEF MinOf

\* A set of naturals has a smallest.
LEMMA MinOfNaturals ==
    ASSUME NEW S \in SUBSET Nat, S # {}
    PROVE  MinOf(S) \in S
<1> DEFINE L == OpToRel(<, Nat)
<1>1. IsWellFoundedOn(L, Nat)
  BY NatLessThanWellFounded
<1>2. PICK m \in S : \A x \in S : <<x, m>> \notin L
  BY <1>1, WFMin
<1>3. \A x \in S : ~ (x < m)
  BY <1>2, Zenon DEF OpToRel
<1>4. \A x \in S : m <= x
  BY <1>3
<1> QED
  BY <1>4 DEF MinOf

\* The cutoff is one of the two fetches and no later than either.
LEMMA CutoffIsEarliest ==
    ASSUME \A s \in Sources : fetched[s] \in Int
    PROVE  /\ Cutoff \in {fetched["KRS"], fetched["MSiG"]}
           /\ \A s \in Sources : Cutoff <= fetched[s]
<1>1. {fetched[s] : s \in Sources} = {fetched["KRS"], fetched["MSiG"]}
  BY DEF Sources
<1> QED
  BY <1>1, MinOfPair DEF Cutoff, Sources

------------------------------------------------------------------------------
\* A dated row anchors its date, or the case of a signed row of its kind and date.
LEMMA AnchorOfDated ==
    ASSUME NEW rows, NEW x \in rows, x.date # NoDate
    PROVE  \/ Anchor(rows, x) = <<"date", x.date>>
           \/ \E s \in SameKind(rows, x) :
                 /\ s.case # NoCase /\ s.date = x.date
                 /\ Anchor(rows, x) = <<"case", s.case>>
<1>1. Anchor(rows, x) = DatedAnchor(rows, x)
  BY DEF Anchor
<1>2. x \in SameKind(rows, x)
  BY DEF SameKind
<1>3. CASE x.case # NoCase
  BY <1>1, <1>2, <1>3 DEF DatedAnchor
<1>4. CASE x.case = NoCase /\ Cardinality(SignedOn(rows, x)) = 1
  <2>1. SignedOn(rows, x) # {}
    BY <1>4, FS_EmptySet
  <2>2. Anchor(rows, x) \in SignedOn(rows, x)
    BY <1>1, <1>4, <2>1 DEF DatedAnchor
  <2> QED
    BY <2>2 DEF SignedOn
<1>5. CASE x.case = NoCase /\ Cardinality(SignedOn(rows, x)) # 1
  BY <1>1, <1>5 DEF DatedAnchor
<1> QED
  BY <1>3, <1>4, <1>5

\* The dated rows of one group give one date: what finalise never checks, and the
\* canonical reading's MIN relies on.
LEMMA OneDatePerGroup ==
    ASSUME NEW all, NEW rows \in SUBSET all, RegistersAnswer(all),
           NEW x \in rows, x.date # NoDate
    PROVE  Dates(Group(rows, x)) = {x.date}
<1>1. x \in Group(rows, x)
  BY DEF Group, SameKind
<1>2. ASSUME NEW y \in Group(rows, x), y.date # NoDate
      PROVE  y.date = x.date
  <2>1. y \in rows /\ DedupKind(y) = DedupKind(x) /\ Anchor(rows, y) = Anchor(rows, x)
    BY <1>2 DEF Group, SameKind
  <2>2. CASE Anchor(rows, x) = <<"date", x.date>>
    BY <2>1, <2>2, <1>2, AnchorOfDated
  <2>3. ASSUME NEW s \in SameKind(rows, x), s.case # NoCase, s.date = x.date,
               Anchor(rows, x) = <<"case", s.case>>
        PROVE  y.date = x.date
    <3>1. PICK t \in SameKind(rows, y) :
              t.case # NoCase /\ t.date = y.date /\ t.case = s.case
      BY <2>1, <2>3, <1>2, AnchorOfDated
    <3>2. s \in all /\ t \in all /\ DedupKind(s) = DedupKind(t)
      BY <2>1, <2>3, <3>1 DEF SameKind
    <3>3. s.decided = t.decided
      BY <2>3, <3>1, <3>2 DEF RegistersAnswer
    <3>4. s.date = s.decided /\ t.date = t.decided
      BY <2>3, <3>1, <3>2, <1>2 DEF RegistersAnswer
    <3> QED
      BY <3>1, <3>3, <3>4, <2>3
  <2> QED
    BY <2>2, <2>3, AnchorOfDated
<1> QED
  BY <1>1, <1>2 DEF Dates

\* All rows of a group have the same outcome class.
LEMMA OneClassPerGroup ==
    ASSUME NEW rows, NEW x \in rows
    PROVE  OutcomeClass(TypeOf(Group(rows, x))) = OutcomeClass(x.type)
<1>1. PICK y \in Group(rows, x) : TypeOf(Group(rows, x)) = y.type
  <2>1. x \in Group(rows, x)
    BY DEF Group, SameKind
  <2> QED
    BY <2>1 DEF TypeOf
<1>2. DedupKind(y) = DedupKind(x)
  BY <1>1 DEF Group, SameKind
<1>3. CASE Stage(x.type) = "opening" /\ Stage(y.type) = "opening"
  BY <1>1, <1>2, <1>3 DEF DedupKind
<1>4. CASE Stage(x.type) # "opening" /\ Stage(y.type) # "opening"
  BY <1>1, <1>2, <1>4 DEF DedupKind
<1> QED
  BY <1>2, <1>3, <1>4 DEF DedupKind

\* No event labels a row alive: only the absence of events does.
LEMMA EventIsNotAlive ==
    ASSUME NEW rows, NEW g
    PROVE  LabelClass(rows, g) # Alive
<1>1. \A type : OutcomeClass(type) # Alive
  BY DEF OutcomeClass, Alive, NoClass
<1> QED
  BY <1>1 DEF LabelClass, Alive, MergedAway

\* A dated labelled row that was read and decided in the window keeps the row from
\* being alive.
LEMMA ReadEventTriggers ==
    ASSUME NEW all, NEW rows \in SUBSET all, RegistersAnswer(all),
           NEW o \in rows, Labelled(o), o.date = o.decided,
           NEW a, NEW h, a < o.decided, o.decided <= WindowEnd(a, h),
           NEW cutoff
    PROVE  Outcome(rows, cutoff, a, h) # Alive
<1> DEFINE g == Group(rows, o)
<1>1. o.decided \in Nat \ {0} /\ o.date # NoDate
  BY DEF RegistersAnswer, NoDate
<1>2. EffectiveDate(g) = o.decided
  <2>1. Dates(g) = {o.decided}
    BY <1>1, OneDatePerGroup
  <2>2. MinOf({o.decided}) = o.decided
    BY <1>1, MinOfSingleton
  <2> QED
    BY <2>1, <2>2 DEF EffectiveDate
<1>3. OutcomeClass(TypeOf(g)) # NoClass
  BY OneClassPerGroup DEF Labelled
<1>4. g \in Triggers(rows, a, h)
  BY <1>2, <1>3 DEF Triggers, Groups
<1> QED
  BY <1>4, EventIsNotAlive DEF Outcome, Alive, NoClass, MergedAway

\* Products with a month are naturals, and a window ends on an integer day.
LEMMA WindowTypes ==
    /\ AliveLagMonths * MonthLength \in Nat /\ PetitionExpiry * MonthLength \in Nat
    /\ \A a \in Int : \A h \in Horizons : WindowEnd(a, h) \in Int
<1>1. \A m, n \in Nat : m * n \in Nat
  OBVIOUS
<1>2. /\ AliveLagMonths \in Nat /\ MonthLength \in Nat /\ PetitionExpiry \in Nat
      /\ \A h \in Horizons : h \in Nat
  BY CalendarAssumption
<1>3. \A h \in Horizons : h * MonthLength \in Nat
  BY <1>1, <1>2
<1> QED
  BY <1>1, <1>2, <1>3 DEF WindowEnd

------------------------------------------------------------------------------
(* The inductive invariant.                                                *)

\* A row is truly alive: no labelled event was decided in its window.
TrulyAlive(row) ==
    row.class = Alive =>
        ~ \E r \in history : /\ Labelled(r)
                             /\ row.asOf < r.decided
                             /\ r.decided <= WindowEnd(row.asOf, row.horizon)

\* Once a check has its notices, they are reduced under the current key; once it has
\* rebuilt the events, they are as recent as both fetches.
CheckProgress ==
    /\ stage = "fetch" /\ "MSiG" \notin pending => reducedTo = fetched["MSiG"]
    /\ stage \in {"labels", "freeze"} => eventsOf = fetched

MartIsTrue == \A row \in mart : TrulyAlive(row)
FrozenIsTrue == \A set \in frozen : \A row \in set : TrulyAlive(row)

IInv == TypeOK /\ CheckProgress /\ MartIsTrue /\ FrozenIsTrue

LEMMA InitIInv == Init => IInv
BY BoundsAssumption
   DEF Init, IInv, TypeOK, CheckProgress, MartIsTrue, FrozenIsTrue, Sources, Never

\* A labelled event decided before an alive row's window ends was read with its date.
LEMMA DecidedWasRead ==
    ASSUME IInv, stage = "labels", Cutoff # Never, NEW a \in MonthEnds(Cutoff),
           NEW h \in Horizons, Outcome(RowsAsOf(eventsOf), Cutoff, a, h) = Alive,
           NEW r \in history, Labelled(r), r.decided <= WindowEnd(a, h)
    PROVE  \E o \in RowsAsOf(eventsOf) :
               o.type = r.type /\ o.decided = r.decided /\ o.date = o.decided
<1> DEFINE rows == RowsAsOf(eventsOf)
           lag == AliveLagMonths * MonthLength
<1>3. /\ FirstDay \in Nat /\ FirstDay <= Cutoff /\ Cutoff \in Int
      /\ \A s \in Sources : Cutoff <= eventsOf[s]
  <2>1. \A s \in Sources : fetched[s] \in Int
    BY BoundsAssumption DEF IInv, TypeOK, Never
  <2> QED
    BY <2>1, CutoffIsEarliest, BoundsAssumption
       DEF IInv, TypeOK, CheckProgress, Never, Sources
<1>4. lag \in Nat /\ WindowEnd(a, h) \in Int
  BY WindowTypes, CalendarAssumption, <1>3 DEF MonthEnds
<1>5. WindowEnd(a, h) <= AliveLimit(WindowEnd(a, h), Cutoff)
  <2>1. \A g : LabelClass(rows, g) # Alive
    BY EventIsNotAlive
  <2> QED
    BY <2>1 DEF Outcome, Alive, NoClass, MergedAway
<1>6. RegistersAnswer(history)
  BY HistoriesAssumption DEF IInv, TypeOK
<1>7. PICK o \in history :
          /\ o.type = r.type /\ o.decided = r.decided /\ o.date = o.decided
          /\ o.known <= (IF r.decided < Launch THEN FirstDay ELSE r.decided + lag)
  BY <1>6 DEF RegistersAnswer
<1>8. /\ o.known \in Nat /\ o.source \in Sources /\ r.decided \in Nat
  BY <1>6, <1>7 DEF RegistersAnswer
<1>9. o.known <= Cutoff
  <2>1. CASE r.decided < Launch
    BY <2>1, <1>7, <1>8, <1>3
  <2>2. CASE ~ (r.decided < Launch)
    <3>1. WindowEnd(a, h) >= Launch
      BY <2>2, <1>4, <1>8, CalendarAssumption
    <3>2. WindowEnd(a, h) <= Cutoff - lag
      BY <3>1, <1>5 DEF AliveLimit
    <3>3. o.known <= r.decided + lag
      BY <2>2, <1>7
    <3> HIDE DEF lag
    <3> QED
      BY <3>2, <3>3, <1>3, <1>4, <1>8
  <2> QED
    BY <2>1, <2>2
<1>10. Cutoff <= eventsOf[o.source] /\ eventsOf[o.source] \in Int
  BY <1>3, <1>8, BoundsAssumption DEF IInv, TypeOK, Never
<1> QED
  BY <1>3, <1>7, <1>8, <1>9, <1>10 DEF RowsAsOf

\* A row of the labels, and what was read for it.
LEMMA RowOfLabels ==
    ASSUME NEW rows, NEW cutoff, NEW x \in Labels(rows, cutoff)
    PROVE  /\ x.asOf \in MonthEnds(cutoff) /\ ~ Excluded(rows, x.asOf)
           /\ x.horizon \in Horizons
           /\ x.class = Outcome(rows, cutoff, x.asOf, x.horizon)
BY DEF Labels

\* What was built from the events of the cutoff or later is true.
LEMMA LabelsAreTrue ==
    ASSUME IInv, stage = "labels", Cutoff # Never,
           NEW row \in Labels(RowsAsOf(eventsOf), Cutoff), row.class = Alive
    PROVE  TrulyAlive(row)
<1> DEFINE rows == RowsAsOf(eventsOf)
<1>1. /\ row.asOf \in MonthEnds(Cutoff) /\ row.horizon \in Horizons
      /\ Outcome(rows, Cutoff, row.asOf, row.horizon) = Alive
  BY RowOfLabels
<1>2. RegistersAnswer(history) /\ rows \in SUBSET history
  BY HistoriesAssumption DEF IInv, TypeOK, RowsAsOf
<1>3. ASSUME NEW r \in history, Labelled(r), row.asOf < r.decided,
             r.decided <= WindowEnd(row.asOf, row.horizon)
      PROVE  FALSE
  <2>1. PICK o \in rows : o.type = r.type /\ o.decided = r.decided /\ o.date = o.decided
    BY <1>1, <1>3, DecidedWasRead
  <2>2. Labelled(o)
    BY <1>3, <2>1 DEF Labelled
  <2> QED
    BY <1>1, <1>2, <1>3, <2>1, <2>2, ReadEventTriggers
<1> QED
  BY <1>3 DEF TrulyAlive

\* Every step preserves the invariant.
LEMMA NextIInv == IInv /\ [Next]_vars => IInv'
<1> SUFFICES ASSUME IInv, [Next]_vars PROVE IInv'
  OBVIOUS
<1> USE BoundsAssumption
<1>1. CASE Tick
  BY <1>1 DEF Tick, IInv, TypeOK, CheckProgress, MartIsTrue, FrozenIsTrue, TrulyAlive
<1>2. CASE StartCheck
  BY <1>2 DEF StartCheck, IInv, TypeOK, CheckProgress, MartIsTrue, FrozenIsTrue,
              TrulyAlive, Sources
<1>3. CASE FetchKrs
  <2>1. /\ history' = history /\ mart' = mart /\ frozen' = frozen /\ day' = day
        /\ stage' = stage /\ stage = "fetch" /\ reducedTo' = reducedTo
        /\ eventsOf' = eventsOf /\ pending' = pending \ {"KRS"}
    BY <1>3 DEF FetchKrs
  <2>2. /\ fetched' \in [Sources -> {Never} \union FirstDay .. MaxDay]
        /\ fetched'["MSiG"] = fetched["MSiG"]
    BY <1>3 DEF FetchKrs, IInv, TypeOK, Sources
  <2> QED
    BY <2>1, <2>2 DEF IInv, TypeOK, CheckProgress, MartIsTrue, FrozenIsTrue, TrulyAlive
<1>4. CASE FetchMsig
  BY <1>4 DEF FetchMsig, IInv, TypeOK, CheckProgress, MartIsTrue, FrozenIsTrue,
              TrulyAlive, Sources
<1>5. CASE RebuildEvents
  <2>1. /\ history' = history /\ mart' = mart /\ frozen' = frozen /\ day' = day
        /\ stage' = "labels" /\ reducedTo' = reducedTo /\ fetched' = fetched
        /\ pending' = pending /\ eventsOf' = StoredUpTo
        /\ stage = "fetch" /\ pending = {}
    BY <1>5 DEF RebuildEvents
  <2>2. StoredUpTo = fetched
    BY <2>1 DEF StoredUpTo, IInv, CheckProgress, TypeOK
  <2> QED
    BY <2>1, <2>2 DEF IInv, TypeOK, CheckProgress, MartIsTrue, FrozenIsTrue, TrulyAlive
<1>6. CASE BuildLabels
  <2>1. /\ history' = history /\ frozen' = frozen /\ day' = day /\ stage = "labels"
        /\ stage' = "freeze" /\ reducedTo' = reducedTo /\ fetched' = fetched
        /\ pending' = pending /\ eventsOf' = eventsOf
    BY <1>6 DEF BuildLabels
  <2>2. \A row \in mart' : TrulyAlive(row)
    BY <1>6, LabelsAreTrue DEF BuildLabels, TrulyAlive
  <2> QED
    BY <2>1, <2>2 DEF IInv, TypeOK, CheckProgress, MartIsTrue, FrozenIsTrue, TrulyAlive
<1>7. CASE Freeze
  BY <1>7 DEF Freeze, IInv, TypeOK, CheckProgress, MartIsTrue, FrozenIsTrue, TrulyAlive
<1>8. CASE StopRun
  BY <1>8 DEF StopRun, IInv, TypeOK, CheckProgress, MartIsTrue, FrozenIsTrue, TrulyAlive
<1>9. CASE Features
  <2>1. StoredUpTo \in [Sources -> {Never} \union FirstDay .. MaxDay]
    BY DEF StoredUpTo, IInv, TypeOK
  <2> QED
    BY <1>9, <2>1 DEF Features, IInv, TypeOK, CheckProgress, MartIsTrue, FrozenIsTrue,
                      TrulyAlive
<1>10. CASE ChangeVocabulary
  BY <1>10 DEF ChangeVocabulary, IInv, TypeOK, CheckProgress, MartIsTrue, FrozenIsTrue,
               TrulyAlive
<1>11. CASE UNCHANGED vars
  BY <1>11 DEF vars, IInv, TypeOK, CheckProgress, MartIsTrue, FrozenIsTrue, TrulyAlive
<1> QED
  BY <1>1, <1>2, <1>3, <1>4, <1>5, <1>6, <1>7, <1>8, <1>9, <1>10, <1>11 DEF Next

\* The invariant implies what the runs check.
LEMMA IInvImplies == IInv => TypeOK /\ AliveIsTrue /\ EventsReachCutoff
<1> SUFFICES ASSUME IInv PROVE TypeOK /\ AliveIsTrue /\ EventsReachCutoff
  OBVIOUS
<1>1. AliveIsTrue
  BY DEF IInv, FrozenIsTrue, TrulyAlive, AliveIsTrue
<1>2. EventsReachCutoff
  <2>1. \A s \in Sources : fetched[s] \in Int
    BY BoundsAssumption DEF IInv, TypeOK, Never
  <2> QED
    BY <2>1, CutoffIsEarliest DEF IInv, CheckProgress, EventsReachCutoff
<1> QED
  BY <1>1, <1>2 DEF IInv

\* Every reachable state satisfies the inductive invariant.
THEOREM IInvHolds == Spec => []IInv
BY InitIInv, NextIInv, PTL DEF Spec

\* The variables keep their types: no fetch or rebuild is dated outside the project.
THEOREM TypeCorrect == Spec => []TypeOK
BY IInvHolds, IInvImplies, PTL

\* Frozen survival is true survival, whatever the lag allowance, the horizons and the
\* order in which fetches fail, succeed and are rebuilt from.
THEOREM FrozenAliveIsTrue == Spec => []AliveIsTrue
BY IInvHolds, IInvImplies, PTL

\* Labels are never built from events older than the cutoff they claim.
THEOREM LabelsReadUpToCutoff == Spec => []EventsReachCutoff
BY IInvHolds, IInvImplies, PTL

------------------------------------------------------------------------------
(* Outcomes are not undone.                                                *)

\* Row x is of a window in which event r is taken to be.
ReadIn(r, x) == x.asOf < ReadOn(r) /\ ReadOn(r) <= WindowEnd(x.asOf, x.horizon)

\* Whether a row is an outcome or alive is told apart by the days on which the rows of the
\* history are read, not by when the set was built.
ToldApart(x) ==
    /\ x.class \notin {Alive, NoClass} => \E r \in history : Labelled(r) /\ ReadIn(r, x)
    /\ x.class = Alive => ~ \E r \in history : Labelled(r) /\ ReadIn(r, x)

SetsToldApart == /\ \A x \in mart : ToldApart(x)
                 /\ \A set \in frozen : \A x \in set : ToldApart(x)

\* Every member of a group has that group.
LEMMA SameGroup ==
    ASSUME NEW rows, NEW x \in rows, NEW y \in Group(rows, x)
    PROVE  y \in rows /\ Group(rows, y) = Group(rows, x)
BY DEF Group, SameKind

\* All rows of a group are of one stage, and of one type unless they open a proceeding.
LEMMA OneStagePerGroup ==
    ASSUME NEW rows, NEW x \in rows
    PROVE  /\ Stage(TypeOf(Group(rows, x))) = Stage(x.type)
           /\ Stage(x.type) # "opening" => TypeOf(Group(rows, x)) = x.type
<1>1. x \in Group(rows, x)
  BY DEF Group, SameKind
<1>2. PICK y \in Group(rows, x) : TypeOf(Group(rows, x)) = y.type
  BY <1>1 DEF TypeOf
<1>3. DedupKind(y) = DedupKind(x)
  BY <1>2 DEF Group, SameKind
<1> QED
  BY <1>2, <1>3 DEF DedupKind

\* The effective date of a group is the day on which one of its rows is read.
LEMMA DateOfSomeRow ==
    ASSUME NEW all, NEW rows \in SUBSET all, RegistersAnswer(all), NEW x \in rows
    PROVE  \E y \in Group(rows, x) : EffectiveDate(Group(rows, x)) = ReadOn(y)
<1> DEFINE g == Group(rows, x)
<1>1. x \in g /\ g \subseteq rows
  BY DEF Group, SameKind
<1>2. CASE Dates(g) # {}
  <2>1. PICK y \in g : y.date # NoDate
    BY <1>2 DEF Dates
  <2>2. Dates(g) = {y.date}
    BY <2>1, SameGroup, OneDatePerGroup
  <2>3. y.date \in Int
    BY <1>1, <2>1 DEF RegistersAnswer
  <2> QED
    BY <1>2, <2>1, <2>2, <2>3, MinOfSingleton DEF EffectiveDate, ReadOn
<1>3. CASE Dates(g) = {}
  <2>1. \A y \in g : y.date = NoDate
    BY <1>3 DEF Dates
  <2>2. {y.known : y \in g} \in SUBSET Nat /\ {y.known : y \in g} # {}
    BY <1>1 DEF RegistersAnswer
  <2>3. KnownFrom(g) \in {y.known : y \in g}
    BY <2>2, MinOfNaturals DEF KnownFrom
  <2> QED
    BY <1>3, <2>1, <2>3 DEF EffectiveDate, ReadOn
<1> QED
  BY <1>2, <1>3

\* An outcome is read off an event of the window.
LEMMA OutcomeWasRead ==
    ASSUME NEW all, NEW rows \in SUBSET all, RegistersAnswer(all),
           NEW cutoff, NEW a, NEW h, Outcome(rows, cutoff, a, h) \notin {Alive, NoClass}
    PROVE  \E r \in rows : Labelled(r) /\ a < ReadOn(r) /\ ReadOn(r) <= WindowEnd(a, h)
<1>1. PICK g \in Groups(rows) : /\ OutcomeClass(TypeOf(g)) # NoClass
                                /\ a < EffectiveDate(g) /\ EffectiveDate(g) <= WindowEnd(a, h)
  BY DEF Outcome, Triggers
<1>2. PICK x \in rows : g = Group(rows, x)
  BY <1>1 DEF Groups
<1>3. PICK r \in g : EffectiveDate(g) = ReadOn(r)
  BY <1>2, DateOfSomeRow
<1>4. r \in rows /\ Group(rows, r) = g
  BY <1>2, <1>3, SameGroup
<1>5. Labelled(r)
  BY <1>1, <1>4, OneClassPerGroup DEF Labelled
<1> QED
  BY <1>1, <1>3, <1>4, <1>5

\* An event decided by a and read with its date excludes the row at a, while an undated
\* notice of it that came in time is still to come.
LEMMA DecidedBeforeExcludes ==
    ASSUME NEW all, NEW rows \in SUBSET all, RegistersAnswer(all), NoticesInTime(all),
           NEW r \in all, Labelled(r), r.date = NoDate,
           NEW o \in rows, o.type = r.type, o.decided = r.decided, o.date = o.decided,
           NEW a \in Int, r.decided <= a, a < r.known
    PROVE  Excluded(rows, a)
<1> DEFINE g == Group(rows, o)
<1>1. r.decided \in Nat \ {0} /\ r.known \in Nat
  BY DEF RegistersAnswer
<1>2. EffectiveDate(g) = r.decided /\ g \in Groups(rows)
  <2>1. Dates(g) = {r.decided}
    BY <1>1, OneDatePerGroup DEF NoDate
  <2> QED
    BY <1>1, <2>1, MinOfSingleton DEF EffectiveDate, Groups
<1>3. /\ OutcomeClass(TypeOf(g)) = OutcomeClass(r.type)
      /\ Stage(TypeOf(g)) = Stage(r.type)
      /\ Stage(r.type) # "opening" => TypeOf(g) = r.type
  BY OneClassPerGroup, OneStagePerGroup
<1>4. \/ r.type = "deregistered" /\ Stage(r.type) # "opening"
      \/ Stage(r.type) \in {"petition", "opening"}
  BY DEF Labelled, OutcomeClass, Stage
<1>5. CASE r.type = "deregistered" /\ Stage(r.type) # "opening"
  BY <1>2, <1>3, <1>5 DEF Excluded, Deregistered
<1>6. CASE Stage(r.type) \in {"petition", "opening"}
  <2>1. Stage(r.type) = "opening" \/ a < r.decided + PetitionExpiry * MonthLength
    <3>1. Stage(r.type) = "petition" => r.known <= r.decided + PetitionExpiry * MonthLength
      BY DEF NoticesInTime
    <3> QED
      BY <1>1, <1>6, <3>1, WindowTypes
  <2>2. ASSUME NEW c \in Groups(rows), Stage(TypeOf(c)) = "closing",
               OutcomeClass(TypeOf(g)) \in Ends(TypeOf(c)),
               EffectiveDate(g) <= EffectiveDate(c), EffectiveDate(c) <= a
        PROVE  FALSE
    <3>1. PICK z \in rows : c = Group(rows, z)
      BY <2>2 DEF Groups
    <3>2. PICK w \in c : EffectiveDate(c) = ReadOn(w)
      BY <3>1, DateOfSomeRow
    <3>3. w \in rows /\ Group(rows, w) = c
      BY <3>1, <3>2, SameGroup
    <3>4. Stage(w.type) = "closing" /\ TypeOf(c) = w.type
      BY <2>2, <3>3, OneStagePerGroup
    <3>5. ReadOn(w) < r.decided \/ r.known <= ReadOn(w)
      BY <1>3, <2>2, <3>3, <3>4 DEF NoticesInTime
    <3>6. ReadOn(w) \in Int
      BY <3>3 DEF RegistersAnswer, ReadOn
    <3> QED
      BY <1>1, <1>2, <2>2, <3>2, <3>5, <3>6
  <2> QED
    BY <1>2, <1>3, <1>6, <2>1, <2>2 DEF Excluded, InProceeding
<1> QED
  BY <1>4, <1>5, <1>6

\* What the labels tell apart by whether an event is read in the window.
LEMMA LabelsToldApart ==
    ASSUME IInv, NoticesInTime(history), stage = "labels", Cutoff # Never,
           NEW x \in Labels(RowsAsOf(eventsOf), Cutoff)
    PROVE  ToldApart(x)
<1> DEFINE rows == RowsAsOf(eventsOf)
           a == x.asOf
           h == x.horizon
<1>1. /\ a \in MonthEnds(Cutoff) /\ ~ Excluded(rows, a) /\ h \in Horizons
      /\ x.class = Outcome(rows, Cutoff, a, h)
  BY RowOfLabels
<1>2. RegistersAnswer(history) /\ rows \in SUBSET history
  BY HistoriesAssumption DEF IInv, TypeOK, RowsAsOf
<1>3. a \in Int /\ WindowEnd(a, h) \in Int
  <2>1. a \in Int
    BY <1>1 DEF MonthEnds
  <2> QED
    BY <1>1, <2>1, WindowTypes
<1>4. ASSUME x.class \notin {Alive, NoClass}
      PROVE  \E r \in history : Labelled(r) /\ ReadIn(r, x)
  <2>1. PICK r \in rows : Labelled(r) /\ a < ReadOn(r) /\ ReadOn(r) <= WindowEnd(a, h)
    BY <1>1, <1>2, <1>4, OutcomeWasRead
  <2> QED
    BY <1>2, <2>1 DEF ReadIn
<1>5. ASSUME x.class = Alive, NEW r \in history, Labelled(r), ReadIn(r, x)
      PROVE  FALSE
  <2>1. a < ReadOn(r) /\ ReadOn(r) <= WindowEnd(a, h)
    BY <1>5 DEF ReadIn
  <2>2. /\ r.decided \in Nat /\ r.known \in Nat /\ r.decided <= r.known
        /\ r.date \in {NoDate, r.decided}
    BY <1>2, <1>5 DEF RegistersAnswer
  <2>3. r.decided <= ReadOn(r) /\ ReadOn(r) \in Int
    BY <2>2 DEF ReadOn
  <2>4. PICK o \in rows : o.type = r.type /\ o.decided = r.decided /\ o.date = o.decided
    <3>1. r.decided <= WindowEnd(a, h)
      BY <1>3, <2>1, <2>2, <2>3
    <3> QED
      BY <1>1, <1>5, <3>1, DecidedWasRead
  <2>5. Labelled(o)
    BY <1>5, <2>4 DEF Labelled
  <2>6. CASE a < r.decided
    <3>1. o.decided <= WindowEnd(a, h)
      BY <1>3, <2>1, <2>2, <2>3, <2>4
    <3> QED
      BY <1>1, <1>2, <1>5, <2>4, <2>5, <2>6, <3>1, ReadEventTriggers
  <2>7. CASE r.decided <= a
    <3>1. r.date = NoDate /\ a < r.known
      BY <1>3, <2>1, <2>2, <2>7 DEF ReadOn
    <3> QED
      BY <1>1, <1>2, <1>3, <1>5, <2>4, <2>7, <3>1, DecidedBeforeExcludes
  <2> QED
    BY <1>3, <2>2, <2>6, <2>7
<1> QED
  BY <1>4, <1>5 DEF ToldApart

\* Where undated notices come in time, an outcome is never undone: no later notice, rebuild
\* or return to fewer rows lets another set call the row alive.
THEOREM OutcomesStand ==
    ASSUME \A rows \in Histories : NoticesInTime(rows)
    PROVE  Spec => []OutcomeNeverUndone
<1>1. Init => SetsToldApart
  BY DEF Init, SetsToldApart
<1>2. IInv /\ SetsToldApart /\ [Next]_vars => SetsToldApart'
  <2> SUFFICES ASSUME IInv, SetsToldApart, [Next]_vars PROVE SetsToldApart'
    OBVIOUS
  <2>1. history' = history
    BY DEF Next, vars, Tick, StartCheck, FetchKrs, FetchMsig, RebuildEvents, BuildLabels,
           Freeze, StopRun, Features, ChangeVocabulary
  <2>2. \A x : ToldApart(x) => ToldApart(x)'
    BY <2>1 DEF ToldApart, ReadIn
  <2>3. CASE BuildLabels
    <3>1. \A x \in mart' : ToldApart(x)
      <4>1. NoticesInTime(history)
        BY DEF IInv, TypeOK
      <4> QED
        BY <2>3, <4>1, LabelsToldApart DEF BuildLabels
    <3> QED
      BY <2>2, <2>3, <3>1 DEF BuildLabels, SetsToldApart
  <2>4. CASE Freeze
    BY <2>2, <2>4 DEF Freeze, SetsToldApart
  <2>5. CASE UNCHANGED <<mart, frozen>>
    BY <2>2, <2>5 DEF SetsToldApart
  <2> QED
    BY <2>3, <2>4, <2>5
       DEF Next, vars, Tick, StartCheck, FetchKrs, FetchMsig, RebuildEvents, StopRun,
           Features, ChangeVocabulary
<1>3. SetsToldApart => OutcomeNeverUndone
  BY DEF SetsToldApart, ToldApart, ReadIn, OutcomeNeverUndone
<1> QED
  BY <1>1, <1>2, <1>3, IInvHolds, PTL DEF Spec
=============================================================================
