--------------------------- MODULE FeatureStoreProofs ---------------------------
(***************************************************************************)
(* For any filings, mappings, features, grid, runs and crashes: the facts  *)
(* of a file are a function of the standing filings and the config, a file *)
(* speaks for one filing, and the store just built leaks nothing.          *)
(*                                                                         *)
(* A store leaks when a feature on a day differs from the one computed of  *)
(* what was known by that day, or rests on something younger than the day. *)
(* Neither happens to well dated sources.  A row filed after the day is    *)
(* seen on the day by no feature, and a deletion after the day changes no  *)
(* row before it: first the panel, the filings, the size classes and the   *)
(* events of a day are shown to be those of the sources cut to it          *)
(* (PanelByDay, FilingsByDay, HistoryByDay, EventByDay), then every value  *)
(* to be known by the latest of what it is computed of (PanelValueBy,      *)
(* FilingValueBy, EventValueBy, FileValuesBy).                             *)
(*                                                                         *)
(* What is left is that the sources are well dated.  DInv says of whatever *)
(* a run has read, drafted or stored that it is filed in the index, on the *)
(* day of its filing: a file is paired with one row of its download, and   *)
(* only onto a row with a submission day.  An import keeps every filing's  *)
(* day, so this survives the index changing under a run.                   *)
(***************************************************************************)
EXTENDS FeatureStore, FunctionTheorems, FiniteSetTheorems, WellFoundedInduction, TLAPS

----------------------------------------------------------------------------
(* Largest and smallest *)

\* Days have a first one.
LEMMA HasLeast ==
  ASSUME NEW S \in SUBSET Nat, S # {}
  PROVE  \E m \in S : \A x \in S : m <= x
<1> DEFINE L == OpToRel(<, Nat)
<1>1. IsWellFoundedOn(L, Nat)
  BY NatLessThanWellFounded
<1>2. PICK m \in S : \A x \in S : <<x, m>> \notin L
  BY <1>1, WFMin
<1>3. \A x \in S : ~ (x < m)
  BY <1>2, Zenon DEF OpToRel
<1> QED
  BY <1>3

\* The first of some days.
LEMMA MinOfDays ==
  ASSUME NEW S \in SUBSET Nat, S # {}
  PROVE  Min(S) \in S /\ Min(S) \in Nat /\ \A x \in S : Min(S) <= x
BY HasLeast DEF Min

\* Days up to a bound have a last one.
LEMMA MaxOfDays ==
  ASSUME NEW S \in SUBSET Nat, S # {}, NEW d \in Nat, \A x \in S : x <= d
  PROVE  Max(S) \in S /\ Max(S) \in Nat /\ \A x \in S : x <= Max(S)
<1> DEFINE Above == {n \in Nat : \A x \in S : x <= n}
<1>1. Above \subseteq Nat /\ d \in Above
  OBVIOUS
<1>2. PICK m \in Above : \A n \in Above : m <= n
  BY <1>1, HasLeast
<1>3. m \in S
  <2> SUFFICES ASSUME m \notin S PROVE FALSE
    OBVIOUS
  <2>1. \A x \in S : x < m
    BY <1>2
  <2>2. m - 1 \in Nat
    <3>1. PICK x \in S : TRUE
      OBVIOUS
    <3> QED
      BY <2>1, <3>1
  <2>3. m - 1 \in Above
    BY <2>1, <2>2
  <2> QED
    BY <1>2, <2>2, <2>3
<1>4. \E x \in S : \A y \in S : x >= y
  BY <1>2, <1>3
<1> QED
  BY <1>4 DEF Max

\* A finite set under a strict order has a member none is above.
LEMMA HasTop ==
  ASSUME NEW S, IsFiniteSet(S), S # {}, NEW R,
         \A x \in S : <<x, x>> \notin R,
         \A x, y, z \in S : <<x, y>> \in R /\ <<y, z>> \in R => <<x, z>> \in R
  PROVE  \E x \in S : \A y \in S : <<x, y>> \notin R
<1> DEFINE Up(x) == {y \in S : <<x, y>> \in R}
           Size(x) == Cardinality(Up(x))
           Sizes == {Size(x) : x \in S}
<1>1. \A x \in S : IsFiniteSet(Up(x)) /\ Size(x) \in Nat
  <2> SUFFICES ASSUME NEW x \in S PROVE IsFiniteSet(Up(x)) /\ Size(x) \in Nat
    OBVIOUS
  <2>1. IsFiniteSet(Up(x))
    BY FS_Subset
  <2> QED
    BY <2>1, FS_CardinalityType
<1>2. Sizes \subseteq Nat /\ Sizes # {}
  <2>1. \A x \in S : Size(x) \in Nat
    BY <1>1
  <2> HIDE DEF Size
  <2> QED
    BY <2>1
<1>3. PICK x \in S : \A y \in S : Size(x) <= Size(y)
  <2> HIDE DEF Size
  <2>1. PICK n \in Sizes : \A m \in Sizes : n <= m
    BY <1>2, HasLeast
  <2> QED
    BY <2>1
<1>4. ASSUME NEW y \in S, <<x, y>> \in R
      PROVE  FALSE
  <2>1. Up(y) \subseteq Up(x) /\ y \in Up(x) /\ y \notin Up(y)
    BY <1>4
  <2>2. /\ Cardinality(Up(y)) <= Cardinality(Up(x))
        /\ Cardinality(Up(x)) = Cardinality(Up(y)) => Up(x) = Up(y)
    <3> HIDE DEF Up
    <3> QED
      BY <1>1, <2>1, FS_Subset
  <2>3. Size(x) \in Nat /\ Size(y) \in Nat /\ Size(x) <= Size(y)
    <3> HIDE DEF Size
    <3> QED
      BY <1>1, <1>3
  <2> HIDE DEF Up
  <2> QED
    BY <2>1, <2>2, <2>3
<1> QED
  BY <1>4

\* Finitely many numbers have a largest one.
LEMMA MaxOfFinite ==
  ASSUME NEW S \in SUBSET Int, IsFiniteSet(S), S # {}
  PROVE  Max(S) \in S /\ Max(S) \in Int /\ \A x \in S : x <= Max(S)
<1> DEFINE R == {p \in S \X S : p[1] < p[2]}
<1>1. \A x, y \in S : <<x, y>> \in R <=> x < y
  OBVIOUS
<1>2. /\ \A x \in S : <<x, x>> \notin R
      /\ \A x, y, z \in S : <<x, y>> \in R /\ <<y, z>> \in R => <<x, z>> \in R
  BY <1>1
<1> HIDE DEF R
<1>3. \E x \in S : \A y \in S : <<x, y>> \notin R
  BY <1>2, HasTop
<1>4. \E x \in S : \A y \in S : x >= y
  <2>1. PICK x \in S : \A y \in S : <<x, y>> \notin R
    BY <1>3
  <2>2. \A y \in S : ~ (x < y)
    BY <1>1, <2>1
  <2> QED
    BY <2>2
<1> QED
  BY <1>4 DEF Max

----------------------------------------------------------------------------
(* Dated sources *)

\* An index as imports and deletions leave it.
IndexTyped(idx) ==
  /\ IsFiniteSet(idx)
  /\ \A r \in idx : /\ IndexFields \subseteq DOMAIN r
                    /\ r.ref \in Nat /\ r.end \in Int
                    /\ r.submitted \in Nat /\ r.deleted \in Nat
                    /\ r.type \in StatementTypes => r.sha \in DOMAIN Download
  /\ \A r, s \in idx : r.ref = s.ref => r = s

\* A row of the index is that of the filing x is of.
FiledAs(x, r) == r.krs = x.krs /\ r.ref = x.ref

\* Each row is known from the day its filing was submitted.
Filed(rows, idx) ==
  \A x \in rows : /\ x.known \in Nat \ {None}
                  /\ \E r \in idx : FiledAs(x, r) /\ r.submitted = x.known

\* No row is known before the filing it is of was submitted.
NeverBefore(rows, idx) ==
  \A x \in rows : /\ x.known \in Nat
                  /\ \A r \in idx : FiledAs(x, r) => r.submitted # None /\ r.submitted <= x.known

\* A filing has one row in the index.
LEMMA RowIs ==
  ASSUME NEW idx, IndexTyped(idx), NEW r \in idx, NEW x, FiledAs(x, r)
  PROVE  Row(idx, x) = r
BY DEF IndexTyped, FiledAs, Row

\* What is known when its filing was submitted is not known before.
LEMMA FiledNeverBefore ==
  ASSUME NEW idx, IndexTyped(idx), NEW rows, Filed(rows, idx)
  PROVE  NeverBefore(rows, idx)
BY DEF IndexTyped, Filed, FiledAs, NeverBefore, None

\* A row of the index as an observer had it: all but its deletion.
AsKnown(r, day) == [r EXCEPT !.deleted = Until(day, r.deleted)]

\* A row as known differs in its deletion only.
LEMMA AsKnownIs ==
  ASSUME NEW idx, IndexTyped(idx), NEW r \in idx, NEW day
  PROVE  /\ AsKnown(r, day).krs = r.krs /\ AsKnown(r, day).ref = r.ref
         /\ AsKnown(r, day).type = r.type
         /\ AsKnown(r, day).start = r.start /\ AsKnown(r, day).end = r.end
         /\ AsKnown(r, day).submitted = r.submitted
         /\ AsKnown(r, day).correction = r.correction
         /\ AsKnown(r, day).pdf_name = r.pdf_name
         /\ AsKnown(r, day).deleted = Until(day, r.deleted)
BY DEF IndexTyped, AsKnown, IndexFields

\* The index by a day: the rows submitted by then, as known.
LEMMA KnownIndexIs ==
  ASSUME NEW idx, NEW day
  PROVE  KnownIndex(idx, day) =
           {AsKnown(r, day) : r \in {x \in idx : x.submitted # None /\ x.submitted <= day}}
BY DEF KnownIndex, AsKnown

\* A filing known by a day has the row it had then.
LEMMA KnownRowIs ==
  ASSUME NEW idx, IndexTyped(idx), NEW day \in Nat, NEW r \in idx,
         r.submitted # None, r.submitted <= day, NEW x, FiledAs(x, r)
  PROVE  Row(KnownIndex(idx, day), x) = AsKnown(r, day)
<1>1. AsKnown(r, day) \in KnownIndex(idx, day) /\ FiledAs(x, AsKnown(r, day))
  BY KnownIndexIs, AsKnownIs DEF FiledAs
<1>2. ASSUME NEW s \in KnownIndex(idx, day), FiledAs(x, s)
      PROVE  s = AsKnown(r, day)
  <2>1. PICK t \in idx : s = AsKnown(t, day)
    BY KnownIndexIs
  <2>2. t.ref = r.ref
    BY <1>2, <2>1, AsKnownIs DEF FiledAs
  <2> QED
    BY <2>1, <2>2 DEF IndexTyped
<1> QED
  BY <1>1, <1>2 DEF Row, FiledAs

\* What the index says of the filing of a row known by a day: its correction, and
\* of its deletion what was known by then.
LEMMA RowByDay ==
  ASSUME NEW idx, IndexTyped(idx), NEW day \in Nat, NEW rows, Filed(rows, idx),
         NEW x \in Dated(rows, day)
  PROVE  /\ x \in rows /\ x.known \in Nat /\ x.known <= day
         /\ Row(KnownIndex(idx, day), x).correction = Row(idx, x).correction
         /\ Row(KnownIndex(idx, day), x).deleted = Until(day, Row(idx, x).deleted)
         /\ Row(idx, x).deleted \in Nat
<1>1. x \in rows /\ x.known \in Nat \ {None} /\ x.known <= day
  BY DEF Dated, Filed
<1>2. PICK r \in idx : FiledAs(x, r) /\ r.submitted = x.known
  BY <1>1 DEF Filed
<1>3. Row(idx, x) = r /\ Row(KnownIndex(idx, day), x) = AsKnown(r, day)
  BY <1>1, <1>2, RowIs, KnownRowIs
<1>4. r.deleted \in Nat
  BY DEF IndexTyped
<1> QED
  BY <1>1, <1>3, <1>4, AsKnownIs

----------------------------------------------------------------------------
(* The panel *)

\* A source of figures is one of a file's, with the file's filing and day.
LEMMA CandidatesFiled ==
  ASSUME NEW idx, NEW canonical, Filed(canonical, idx)
  PROVE  Filed(Candidates(canonical, idx), idx)
<1> SUFFICES ASSUME NEW c \in Candidates(canonical, idx)
             PROVE  /\ c.known \in Nat \ {None}
                    /\ \E r \in idx : FiledAs(c, r) /\ r.submitted = c.known
  BY DEF Filed
<1>1. PICK f \in canonical : c = OwnPeriod(idx, f) \/ c = YearBefore(idx, f)
  BY DEF Candidates, Usable
<1>2. c.krs = f.krs /\ c.ref = f.ref /\ c.known = f.known
  BY <1>1 DEF OwnPeriod, YearBefore, Candidate
<1> QED
  BY <1>2 DEF Filed, FiledAs

\* A year's candidates on a day.
LEMMA CandidatesByDay ==
  ASSUME NEW idx, IndexTyped(idx), NEW day \in Nat, NEW canonical, Filed(canonical, idx)
  PROVE  Candidates(Dated(canonical, day), KnownIndex(idx, day))
           = Dated(Candidates(canonical, idx), day)
<1> DEFINE known == KnownIndex(idx, day)
<1>1. ASSUME NEW f \in Dated(canonical, day)
      PROVE  OwnPeriod(known, f) = OwnPeriod(idx, f) /\ YearBefore(known, f) = YearBefore(idx, f)
  <2>1. Row(known, f).correction = Row(idx, f).correction
    BY RowByDay
  <2> HIDE DEF known
  <2> QED
    BY <2>1 DEF OwnPeriod, YearBefore, Candidate
<1>2. \A f, i : OwnPeriod(i, f).known = f.known /\ YearBefore(i, f).known = f.known
  BY DEF OwnPeriod, YearBefore, Candidate
<1>3. \A f : f \in Usable(Dated(canonical, day)) <=> f \in Usable(canonical) /\ f.known <= day
  BY DEF Usable, Dated
<1>4. \A f \in Usable(canonical) : f.known <= day => f \in Dated(canonical, day)
  BY DEF Usable, Dated
<1> HIDE DEF known
<1>5. ASSUME NEW c
      PROVE  c \in Candidates(Dated(canonical, day), known)
               <=> c \in Candidates(canonical, idx) /\ c.known <= day
  <2>1. \A S, i : c \in Candidates(S, i) <=>
          \/ \E f \in Usable(S) : c = OwnPeriod(i, f)
          \/ \E f \in Usable(S) : c = YearBefore(i, f) /\ HasAssets(f)
    <3> TAKE S, i
    <3> DEFINE own == {OwnPeriod(i, f) : f \in Usable(S)}
               before == {YearBefore(i, f) : f \in {g \in Usable(S) : HasAssets(g)}}
    <3>1. Candidates(S, i) = own \cup before
      BY DEF Candidates
    <3>2. c \in own <=> \E f \in Usable(S) : c = OwnPeriod(i, f)
      OBVIOUS
    <3>3. c \in before <=> \E f \in Usable(S) : c = YearBefore(i, f) /\ HasAssets(f)
      OBVIOUS
    <3> HIDE DEF own, before
    <3> QED
      BY <3>1, <3>2, <3>3
  <2>2. Usable(Dated(canonical, day)) \subseteq Usable(canonical)
    BY <1>3
  <2> QED
    BY <1>1, <1>2, <1>3, <1>4, <2>1, <2>2
<1> QED
  BY <1>5 DEF Dated, known

\* What a live source is: it was deleted, if at all, after it was known.
Outlives(period, idx) ==
  \A c \in period : Row(idx, c).deleted # None => Row(idx, c).deleted > c.known

\* A deletion by a day is the deletion, or none yet.
LEMMA UntilIs ==
  ASSUME NEW day \in Nat, NEW d \in Nat
  PROVE  /\ Until(day, d) \in Nat
         /\ Until(day, d) # None <=> d # None /\ d <= day
         /\ d <= day => Until(day, d) = d
BY DEF Until, None

\* A period is live on a day, or not, by what was known by then.
LEMMA LiveByDay ==
  ASSUME NEW idx, IndexTyped(idx), NEW day \in Nat, NEW cands, Filed(cands, idx)
  PROVE  /\ Live(Dated(cands, day), KnownIndex(idx, day)) = Dated(Live(cands, idx), day)
         /\ Filed(Live(cands, idx), idx) /\ Outlives(Live(cands, idx), idx)
<1> DEFINE known == KnownIndex(idx, day)
           Clash(c, d) == d.krs = c.krs /\ d.end = c.end /\ d.known = c.known /\ d.rank = c.rank
           Lives(c, i) == Row(i, c).deleted # None => Row(i, c).deleted > c.known
<1>1. ASSUME NEW c \in Dated(cands, day)
      PROVE  Lives(c, known) <=> Lives(c, idx)
  <2>1. /\ c.known \in Nat /\ c.known <= day /\ Row(idx, c).deleted \in Nat
        /\ Row(known, c).deleted = Until(day, Row(idx, c).deleted)
    BY RowByDay
  <2>2. /\ Until(day, Row(idx, c).deleted) # None
             <=> Row(idx, c).deleted # None /\ Row(idx, c).deleted <= day
        /\ Row(idx, c).deleted <= day => Until(day, Row(idx, c).deleted) = Row(idx, c).deleted
    BY <2>1, UntilIs
  <2> HIDE DEF known
  <2> QED
    BY <2>1, <2>2
<1>2. \A S, i : Live(S, i) = {c \in S : (~ \E d \in S \ {c} : Clash(c, d)) /\ Lives(c, i)}
  BY DEF Live, Deleted
<1>3. \A c, d : Clash(c, d) => d.known = c.known
  OBVIOUS
<1> HIDE DEF Clash, Lives, known
<1>4. Live(Dated(cands, day), known) = Dated(Live(cands, idx), day)
  <2>1. \A c : c \in Live(Dated(cands, day), known) <=>
                 /\ c \in Dated(cands, day)
                 /\ ~ \E d \in Dated(cands, day) \ {c} : Clash(c, d)
                 /\ Lives(c, known)
    BY <1>2
  <2>2. \A c : c \in Dated(Live(cands, idx), day) <=>
                 /\ c \in Dated(cands, day)
                 /\ ~ \E d \in cands \ {c} : Clash(c, d)
                 /\ Lives(c, idx)
    BY <1>2 DEF Dated
  <2>3. \A c \in Dated(cands, day) : \A d \in cands : Clash(c, d) => d \in Dated(cands, day)
    BY <1>3 DEF Dated
  <2>4. Dated(cands, day) \subseteq cands
    BY DEF Dated
  <2> QED
    BY <1>1, <2>1, <2>2, <2>3, <2>4
<1>5. Filed(Live(cands, idx), idx)
  BY DEF Live, Filed
<1>6. Outlives(Live(cands, idx), idx)
  BY DEF Live, Outlives, Deleted
<1> QED
  BY <1>4, <1>5, <1>6 DEF known

\* On a day up to `day`, what speaks is what an observer of that day had.
LEMMA InForceByDay ==
  ASSUME NEW idx, IndexTyped(idx), NEW day \in Nat, NEW period, Filed(period, idx),
         NEW e \in Nat, e <= day
  PROVE  InForce(Dated(period, day), KnownIndex(idx, day), e) = InForce(period, idx, e)
<1> DEFINE known == KnownIndex(idx, day)
<1>1. ASSUME NEW c \in Dated(period, day)
      PROVE  SpeaksOn(c, known, e) <=> SpeaksOn(c, idx, e)
  <2>1. /\ Row(idx, c).deleted \in Nat
        /\ Row(known, c).deleted = Until(day, Row(idx, c).deleted)
    BY RowByDay
  <2>2. /\ Until(day, Row(idx, c).deleted) # None
             <=> Row(idx, c).deleted # None /\ Row(idx, c).deleted <= day
        /\ Row(idx, c).deleted <= day => Until(day, Row(idx, c).deleted) = Row(idx, c).deleted
    BY <2>1, UntilIs
  <2> HIDE DEF known
  <2> QED
    BY <2>1, <2>2 DEF SpeaksOn, Deleted
<1>2. \A c \in period : SpeaksOn(c, idx, e) => c \in Dated(period, day)
  BY DEF SpeaksOn, Dated, Filed
<1> HIDE DEF known
<1>3. {c \in Dated(period, day) : SpeaksOn(c, known, e)} = {c \in period : SpeaksOn(c, idx, e)}
  BY <1>1, <1>2 DEF Dated
<1> QED
  BY <1>3 DEF InForce, known

\* A day a version starts on, by `day`, is one of what was known.
LEMMA DaysByDay ==
  ASSUME NEW idx, IndexTyped(idx), NEW day \in Nat, NEW period, Filed(period, idx),
         Outlives(period, idx)
  PROVE  /\ Days(period, idx) \subseteq Nat
         /\ Days(Dated(period, day), KnownIndex(idx, day)) = {e \in Days(period, idx) : e <= day}
<1> DEFINE known == KnownIndex(idx, day)
<1>1. ASSUME NEW c \in period
      PROVE  c.known \in Nat /\ Row(idx, c).deleted \in Nat
  BY <1>1, RowIs DEF Filed, IndexTyped
<1>2. \A S, i : \A e : e \in Days(S, i) <=>
                     \/ \E c \in S : e = c.known
                     \/ e # None /\ \E c \in S : e = Row(i, c).deleted
  BY DEF Days, Deleted
<1>4. ASSUME NEW c \in Dated(period, day)
      PROVE  Row(known, c).deleted = Until(day, Row(idx, c).deleted)
  BY RowByDay
<1> HIDE DEF known
<1>5. Days(period, idx) \subseteq Nat
  BY <1>1, <1>2
<1>6. ASSUME NEW e, e \in Days(Dated(period, day), known)
      PROVE  e \in Days(period, idx) /\ e <= day
  <2>1. PICK c \in Dated(period, day) : e = c.known \/ (e # None /\ e = Row(known, c).deleted)
    BY <1>2, <1>6
  <2>2. c \in period /\ c.known <= day
    BY DEF Dated
  <2>3. e # None /\ e = Row(known, c).deleted => e = Row(idx, c).deleted /\ e <= day
    BY <1>1, <1>4, <2>2, UntilIs
  <2> QED
    BY <1>2, <2>1, <2>2, <2>3
<1>7. ASSUME NEW e \in Days(period, idx), e <= day
      PROVE  e \in Days(Dated(period, day), known)
  <2>1. PICK c \in period : e = c.known \/ (e # None /\ e = Row(idx, c).deleted)
    BY <1>2
  <2>2. c.known <= day
    BY <1>1, <1>7, <2>1 DEF Outlives
  <2>3. c \in Dated(period, day)
    BY <2>2 DEF Dated
  <2>4. e = Row(idx, c).deleted => e = Row(known, c).deleted
    BY <1>1, <1>4, <1>7, <2>3, UntilIs
  <2> QED
    BY <1>2, <2>1, <2>3, <2>4
<1> QED
  BY <1>5, <1>6, <1>7 DEF known

\* A period's versions by a day are the versions of what was known by then.
LEMMA PeriodByDay ==
  ASSUME NEW idx, IndexTyped(idx), NEW day \in Nat, NEW period, Filed(period, idx),
         Outlives(period, idx)
  PROVE  PeriodVersions(Dated(period, day), KnownIndex(idx, day))
           = Dated(PeriodVersions(period, idx), day)
<1> DEFINE known == KnownIndex(idx, day)
           On(e) == VersionsOn(InForce(period, idx, e), Previous(period, idx, e), e)
           KnownOn_(e) == VersionsOn(InForce(Dated(period, day), known, e),
                                     Previous(Dated(period, day), known, e), e)
<1>1. /\ Days(period, idx) \subseteq Nat
      /\ Days(Dated(period, day), known) = {e \in Days(period, idx) : e <= day}
  BY DaysByDay
<1>2. \A e \in Nat : e <= day => InForce(Dated(period, day), known, e) = InForce(period, idx, e)
  BY InForceByDay
<1>3. ASSUME NEW e \in Days(period, idx), e <= day
      PROVE  Previous(Dated(period, day), known, e) = Previous(period, idx, e)
  <2> DEFINE before == {d \in Days(period, idx) : d < e}
  <2>1. {d \in Days(Dated(period, day), known) : d < e} = before
    BY <1>1, <1>3
  <2>2. e \in Nat /\ before \subseteq Nat
    BY <1>1
  <2>3. CASE before = {}
    BY <2>1, <2>3 DEF Previous
  <2>4. CASE before # {}
    <3>1. Max(before) \in before
      <4>1. \A x \in before : x <= e
        BY <2>2
      <4> HIDE DEF before
      <4> QED
        BY <2>2, <2>4, <4>1, MaxOfDays
    <3>2. Max(before) \in Nat /\ Max(before) <= day
      BY <1>3, <2>2, <3>1
    <3> HIDE DEF known
    <3> QED
      BY <1>2, <2>1, <2>4, <3>2 DEF Previous
  <2> QED
    BY <2>3, <2>4
<1>4. \A e \in Days(period, idx) : e <= day => KnownOn_(e) = On(e)
  BY <1>1, <1>2, <1>3
<1>5. \A e : \A v \in On(e) : v.known = e
  BY DEF VersionsOn, Version
<1>6. /\ PeriodVersions(period, idx) = UNION {On(e) : e \in Days(period, idx)}
      /\ PeriodVersions(Dated(period, day), known)
           = UNION {KnownOn_(e) : e \in Days(Dated(period, day), known)}
  BY DEF PeriodVersions
<1> HIDE DEF On, KnownOn_, known
<1>7. ASSUME NEW v
      PROVE  v \in PeriodVersions(Dated(period, day), known)
               <=> v \in Dated(PeriodVersions(period, idx), day)
  <2>1. v \in PeriodVersions(Dated(period, day), known)
          <=> \E e \in Days(period, idx) : e <= day /\ v \in On(e)
    BY <1>1, <1>4, <1>6
  <2> QED
    BY <1>5, <1>6, <2>1 DEF Dated
<1> QED
  BY <1>7 DEF known

\* The panel of the filings known by a day is that day's panel.
LEMMA PanelByDay ==
  ASSUME NEW idx, IndexTyped(idx), NEW day \in Nat, NEW canonical, Filed(canonical, idx)
  PROVE  Panel(Dated(canonical, day), KnownIndex(idx, day)) = Dated(Panel(canonical, idx), day)
<1> DEFINE known == KnownIndex(idx, day)
           live == Live(Candidates(canonical, idx), idx)
           Of_(S, k) == {c \in S : c.krs = k[1] /\ c.end = k[2]}
           Periods(S) == {<<c.krs, c.end>> : c \in S}
<1>1. /\ Live(Candidates(Dated(canonical, day), known), known) = Dated(live, day)
      /\ Filed(live, idx) /\ Outlives(live, idx)
  BY CandidatesFiled, CandidatesByDay, LiveByDay
<1>2. /\ Panel(canonical, idx) = UNION {PeriodVersions(Of_(live, k), idx) : k \in Periods(live)}
      /\ Panel(Dated(canonical, day), known)
           = UNION {PeriodVersions(Of_(Dated(live, day), k), known) : k \in Periods(Dated(live, day))}
  BY <1>1 DEF Panel
<1>3. \A k : Of_(Dated(live, day), k) = Dated(Of_(live, k), day)
  BY DEF Dated
<1>4. ASSUME NEW k
      PROVE  PeriodVersions(Dated(Of_(live, k), day), known)
               = Dated(PeriodVersions(Of_(live, k), idx), day)
  <2>1. Filed(Of_(live, k), idx) /\ Outlives(Of_(live, k), idx)
    BY <1>1 DEF Filed, Outlives
  <2> QED
    BY <2>1, PeriodByDay
<1>5. \A k \in Periods(Dated(live, day)) : k \in Periods(live)
  BY DEF Dated
<1>6. ASSUME NEW k \in Periods(live), NEW v \in Dated(PeriodVersions(Of_(live, k), idx), day)
      PROVE  k \in Periods(Dated(live, day))
  <2>1. v \in PeriodVersions(Dated(Of_(live, k), day), known)
    BY <1>4, <1>6
  <2>2. Dated(Of_(live, k), day) # {}
    BY <2>1 DEF PeriodVersions, Days
  <2> QED
    BY <2>2 DEF Dated
<1> HIDE DEF Of_, Periods, known, live
<1>7. ASSUME NEW v
      PROVE  v \in Panel(Dated(canonical, day), known) <=> v \in Dated(Panel(canonical, idx), day)
  <2>1. v \in Dated(Panel(canonical, idx), day)
          <=> \E k \in Periods(live) : v \in Dated(PeriodVersions(Of_(live, k), idx), day)
    BY <1>2 DEF Dated
  <2>2. v \in Panel(Dated(canonical, day), known)
          <=> \E k \in Periods(Dated(live, day)) : v \in Dated(PeriodVersions(Of_(live, k), idx), day)
    BY <1>2, <1>3, <1>4
  <2> QED
    BY <1>5, <1>6, <2>1, <2>2
<1> QED
  BY <1>7 DEF known

\* A snapshot of a day sees the panel of that day.
LEMMA SnapshotByDay ==
  ASSUME NEW idx, IndexTyped(idx), NEW day \in Nat, NEW canonical, Filed(canonical, idx), NEW krs
  PROVE  Snapshot(Of(Panel(Dated(canonical, day), KnownIndex(idx, day)), krs), day)
           = Snapshot(Of(Panel(canonical, idx), krs), day)
<1>1. \A P : {v \in Of(Dated(P, day), krs) : v.known <= day} = {v \in Of(P, krs) : v.known <= day}
  BY DEF Dated, Of
<1> QED
  BY <1>1, PanelByDay DEF Snapshot

----------------------------------------------------------------------------
(* Filings and files with their deletion *)

\* The statements submitted by a day.
Statements(idx, day) == {r \in DatedStatements(idx) : r.submitted <= day}

\* What stands on a day, of what was known by then.
StandsOn(d, day) == d = None \/ day < d

\* The filings of an index by a day: each of the parts submitted by then.
LEMMA PartsByDay ==
  ASSUME NEW idx, IndexTyped(idx), NEW day \in Nat, NEW k
  PROVE  /\ DatedStatements(KnownIndex(idx, day))
              = {AsKnown(r, day) : r \in Statements(idx, day)}
         /\ k[4] <= day => Parts(KnownIndex(idx, day), k) = {AsKnown(r, day) : r \in Parts(idx, k)}
<1>1. \A r \in idx : /\ AsKnown(r, day).type = r.type /\ AsKnown(r, day).submitted = r.submitted
                     /\ FilingKey(AsKnown(r, day)) = FilingKey(r)
  BY AsKnownIs DEF FilingKey
<1>2. DatedStatements(KnownIndex(idx, day)) = {AsKnown(r, day) : r \in Statements(idx, day)}
  BY <1>1, KnownIndexIs DEF DatedStatements, Statements
<1>3. ASSUME k[4] <= day
      PROVE  Parts(KnownIndex(idx, day), k) = {AsKnown(r, day) : r \in Parts(idx, k)}
  <2>1. \A r \in idx : FilingKey(r) = k => r.submitted <= day
    BY <1>3 DEF FilingKey
  <2> QED
    BY <1>1, <1>2, <2>1 DEF Parts, Statements, DatedStatements
<1> QED
  BY <1>2, <1>3

\* A filing is deleted by a day in the index as it was known exactly when it is.
LEMMA DeletedAllByDay ==
  ASSUME NEW idx, IndexTyped(idx), NEW day \in Nat, NEW k, k[4] <= day, Parts(idx, k) # {}
  PROVE  StandsOn(DeletedAll(Parts(KnownIndex(idx, day), k)), day)
           <=> StandsOn(DeletedAll(Parts(idx, k)), day)
<1> DEFINE parts == Parts(idx, k)
           days == {r.deleted : r \in parts}
           known == {AsKnown(r, day) : r \in parts}
           knownDays == {r.deleted : r \in known}
<1>1. Parts(KnownIndex(idx, day), k) = known
  BY PartsByDay
<1>2. parts \subseteq idx /\ IsFiniteSet(parts)
  BY FS_Subset DEF Parts, DatedStatements, IndexTyped
<1>3. \A r \in parts : r.deleted \in Nat /\ AsKnown(r, day).deleted = Until(day, r.deleted)
  BY <1>2, AsKnownIs DEF IndexTyped
<1>4. days \subseteq Nat /\ days # {} /\ IsFiniteSet(days)
  <2>1. days \subseteq Nat /\ days # {}
    BY <1>3
  <2>2. [r \in parts |-> r.deleted] \in Surjection(parts, days)
    BY DEF Surjection
  <2> QED
    BY <1>2, <2>1, <2>2, FS_Surjection
<1>5. knownDays = {Until(day, r.deleted) : r \in parts}
  BY <1>3
<1>6. knownDays \subseteq Nat /\ knownDays # {} /\ \A d \in knownDays : d <= day
  BY <1>3, <1>5, UntilIs DEF Until, None
<1>7. Max(days) \in days /\ Max(days) \in Nat /\ \A d \in days : d <= Max(days)
  <2> HIDE DEF days
  <2> QED
    BY <1>4, MaxOfFinite
<1>8. Max(knownDays) \in knownDays /\ Max(knownDays) \in Nat /\ \A d \in knownDays : d <= Max(knownDays)
  BY <1>6, MaxOfDays
<1>9. DeletedAll(parts) = IF None \in days THEN None ELSE Max(days)
  BY DEF DeletedAll
<1>10. DeletedAll(known) = IF None \in knownDays THEN None ELSE Max(knownDays)
  BY DEF DeletedAll
<1>11. /\ None \in knownDays <=> None \in days \/ \E d \in days : d > day
       /\ None \notin knownDays => knownDays = days
  BY <1>3, <1>5, UntilIs DEF Until, None
<1> HIDE DEF days, knownDays, known
<1>12. StandsOn(DeletedAll(known), day) <=> None \in knownDays
  <2>1. CASE None \in knownDays
    BY <1>10, <2>1 DEF StandsOn
  <2>2. CASE None \notin knownDays
    BY <1>6, <1>8, <1>10, <2>2 DEF StandsOn
  <2> QED
    BY <2>1, <2>2
<1>13. StandsOn(DeletedAll(parts), day) <=> None \in days \/ \E d \in days : d > day
  <2> HIDE DEF parts
  <2>1. CASE None \in days
    BY <1>9, <2>1 DEF StandsOn
  <2>2. CASE None \notin days
    <3>1. DeletedAll(parts) = Max(days) /\ Max(days) # None
      BY <1>7, <1>9, <2>2
    <3>2. day < Max(days) <=> \E d \in days : d > day
      BY <1>4, <1>7
    <3> QED
      BY <2>2, <3>1, <3>2 DEF StandsOn
  <2> QED
    BY <2>1, <2>2
<1> QED
  BY <1>1, <1>11, <1>12, <1>13

\* What a parse or a grade said of a filing known by a day, it said of the files known by then.
LEMMA FilingByDay ==
  ASSUME NEW idx, IndexTyped(idx), NEW day \in Nat, NEW k, k[4] <= day,
         NEW status, NEW canonical, Filed(canonical, idx)
  PROVE  FilingOf(k, Parts(KnownIndex(idx, day), k), KnownStatus(status, KnownIndex(idx, day)),
                  Dated(canonical, day))
           = FilingOf(k, Parts(idx, k), status, canonical)
<1> DEFINE known == KnownIndex(idx, day)
<1>1. Parts(known, k) = {AsKnown(r, day) : r \in Parts(idx, k)}
  BY PartsByDay
<1>2. ASSUME NEW r \in Parts(idx, k)
      PROVE  r \in idx /\ r.submitted # None /\ r.submitted <= day /\ AsKnown(r, day) \in known
  <2>1. r \in idx /\ r.submitted # None /\ r.submitted = k[4]
    BY DEF Parts, DatedStatements, FilingKey
  <2> QED
    BY <2>1, KnownIndexIs
<1>3. ASSUME NEW r \in Parts(idx, k)
      PROVE  /\ AsKnown(r, day).krs = r.krs /\ AsKnown(r, day).ref = r.ref
             /\ AsKnown(r, day).pdf_name = r.pdf_name
  BY <1>2, AsKnownIs
<1>4. ASSUME NEW r \in Parts(idx, k), NEW what
      PROVE  Said(KnownStatus(status, known), AsKnown(r, day), what) <=> Said(status, r, what)
  BY <1>2, <1>3 DEF Said, KnownStatus
<1>5. ASSUME NEW r \in Parts(idx, k)
      PROVE  Untrusted(Dated(canonical, day), AsKnown(r, day)) <=> Untrusted(canonical, r)
  <2>1. ASSUME NEW c \in canonical, c.krs = r.krs, c.ref = r.ref
        PROVE  c \in Dated(canonical, day)
    <3>1. PICK s \in idx : FiledAs(c, s) /\ s.submitted = c.known
      BY DEF Filed
    <3>2. s = r
      BY <1>2, <2>1, <3>1 DEF FiledAs, IndexTyped
    <3> QED
      BY <1>2, <3>1, <3>2 DEF Dated
  <2>2. Dated(canonical, day) \subseteq canonical
    BY DEF Dated
  <2> QED
    BY <1>3, <2>1, <2>2 DEF Untrusted
<1> HIDE DEF known
<1>6. (\A r \in Parts(known, k) : r.pdf_name \/ Said(KnownStatus(status, known), r, "needs_pdf_tier"))
        <=> (\A r \in Parts(idx, k) : r.pdf_name \/ Said(status, r, "needs_pdf_tier"))
  BY <1>1, <1>3, <1>4
<1>7. (\E r \in Parts(known, k) : \/ Said(KnownStatus(status, known), r, "quarantined")
                                  \/ Untrusted(Dated(canonical, day), r))
        <=> (\E r \in Parts(idx, k) : Said(status, r, "quarantined") \/ Untrusted(canonical, r))
  BY <1>1, <1>4, <1>5
<1> QED
  BY <1>6, <1>7 DEF FilingOf, known

\* The filings known by a day are those of what was known by then.
LEMMA FilingsByDay ==
  ASSUME NEW idx, IndexTyped(idx), NEW day \in Nat, NEW status, NEW canonical,
         Filed(canonical, idx), NEW krs
  PROVE  Known(StatementFilings(KnownIndex(idx, day), KnownStatus(status, KnownIndex(idx, day)),
                                Dated(canonical, day)), krs, day)
           = Known(StatementFilings(idx, status, canonical), krs, day)
<1> DEFINE known == KnownIndex(idx, day)
           Keys(i) == {FilingKey(r) : r \in DatedStatements(i)}
           Row_(k, i, s, c) == FilingOf(k, Parts(i, k), s, c)
           Stands_(k, i) == StandsOn(DeletedAll(Parts(i, k)), day)
<1>1. \A i, s, c, x : x \in Known(StatementFilings(i, s, c), krs, day)
        <=> \E k \in Keys(i) : x = Row_(k, i, s, c) /\ k[1] = krs /\ k[4] <= day /\ Stands_(k, i)
  <2> TAKE i, s, c, x
  <2> DEFINE Entry(k) == [row |-> Row_(k, i, s, c), deleted |-> DeletedAll(Parts(i, k))]
  <2>1. /\ StatementFilings(i, s, c) = {Entry(k) : k \in Keys(i)}
        /\ \A k : Entry(k).row = Row_(k, i, s, c) /\ Entry(k).deleted = DeletedAll(Parts(i, k))
    BY DEF StatementFilings
  <2>2. \A k : Row_(k, i, s, c).krs = k[1] /\ Row_(k, i, s, c).known = k[4]
    BY DEF FilingOf
  <2>3. \A F : x \in Known(F, krs, day)
              <=> \E y \in F : x = y.row /\ x.krs = krs /\ x.known <= day /\ StandsOn(y.deleted, day)
    BY DEF Known, KnownOnDay, StandsOn
  <2>4. \A k : Stands_(k, i) <=> StandsOn(Entry(k).deleted, day)
    BY <2>1
  <2> HIDE DEF Row_, Keys, Entry, Stands_
  <2>5. ASSUME NEW k \in Keys(i), x = Row_(k, i, s, c), k[1] = krs, k[4] <= day, Stands_(k, i)
        PROVE  x \in Known(StatementFilings(i, s, c), krs, day)
    <3>1. Entry(k) \in StatementFilings(i, s, c) /\ Entry(k).row = x
      BY <2>1, <2>5
    <3>2. x.krs = krs /\ x.known <= day /\ StandsOn(Entry(k).deleted, day)
      BY <2>2, <2>4, <2>5
    <3> QED
      BY <2>3, <3>1, <3>2
  <2>6. ASSUME x \in Known(StatementFilings(i, s, c), krs, day)
        PROVE  \E k \in Keys(i) : x = Row_(k, i, s, c) /\ k[1] = krs /\ k[4] <= day /\ Stands_(k, i)
    <3>1. PICK y \in StatementFilings(i, s, c) :
                 x = y.row /\ x.krs = krs /\ x.known <= day /\ StandsOn(y.deleted, day)
      BY <2>3, <2>6
    <3>2. PICK k \in Keys(i) : y = Entry(k)
      BY <2>1
    <3>3. x = Row_(k, i, s, c) /\ k[1] = krs /\ k[4] <= day /\ Stands_(k, i)
      BY <2>1, <2>2, <2>4, <3>1, <3>2
    <3> QED
      BY <3>3
  <2> QED
    BY <2>5, <2>6
<1>2. \A k : k \in Keys(known) <=> k \in Keys(idx) /\ k[4] <= day
  <2>1. \A r \in Statements(idx, day) : r \in idx /\ FilingKey(AsKnown(r, day)) = FilingKey(r)
    BY AsKnownIs DEF Statements, DatedStatements, FilingKey
  <2>2. Keys(known) = {FilingKey(r) : r \in Statements(idx, day)}
    BY <2>1, PartsByDay
  <2> QED
    BY <2>2 DEF Statements, FilingKey
<1>3. ASSUME NEW k \in Keys(idx), k[4] <= day
      PROVE  Stands_(k, known) <=> Stands_(k, idx)
  <2>1. Parts(idx, k) # {}
    BY DEF Parts
  <2> QED
    BY <1>3, <2>1, DeletedAllByDay
<1>4. ASSUME NEW k \in Keys(idx), k[4] <= day
      PROVE  Row_(k, known, KnownStatus(status, known), Dated(canonical, day))
               = Row_(k, idx, status, canonical)
  BY <1>4, FilingByDay
<1> HIDE DEF known, Keys, Row_, Stands_
<1>5. ASSUME NEW x
      PROVE  x \in Known(StatementFilings(known, KnownStatus(status, known), Dated(canonical, day)),
                         krs, day)
               <=> x \in Known(StatementFilings(idx, status, canonical), krs, day)
  BY <1>1, <1>2, <1>3, <1>4
<1>6. \A S, T : S \subseteq T /\ T \subseteq S => S = T
  OBVIOUS
<1> QED
  BY <1>5 DEF known

\* A file's row known by a day, of a filing submitted by then, stands as its filing does.
LEMMA WithDeletionByDay ==
  ASSUME NEW idx, IndexTyped(idx), NEW day \in Nat, NEW rows, NEW part, NeverBefore(rows, idx),
         Dated(part, day) = Dated(rows, day), NEW krs
  PROVE  Known(WithDeletion(part, KnownIndex(idx, day)), krs, day)
           = Known(WithDeletion(rows, idx), krs, day)
<1> DEFINE known == KnownIndex(idx, day)
           Of_(r, i) == {x \in i : x.krs = r.krs /\ x.ref = r.ref}
           End(r, i) == IF Of_(r, i) = {} THEN None ELSE (CHOOSE x \in Of_(r, i) : TRUE).deleted
<1>1. \A S, i, x : x \in Known(WithDeletion(S, i), krs, day)
                     <=> x \in Dated(S, day) /\ x.krs = krs /\ StandsOn(End(x, i), day)
  <2> TAKE S, i, x
  <2> DEFINE Entry(r) == [row |-> r, deleted |-> End(r, i)]
  <2>1. /\ WithDeletion(S, i) = {Entry(r) : r \in S}
        /\ \A r : Entry(r).row = r /\ Entry(r).deleted = End(r, i)
    BY DEF WithDeletion
  <2>2. \A F : x \in Known(F, krs, day)
              <=> \E y \in F : x = y.row /\ x.krs = krs /\ x.known <= day /\ StandsOn(y.deleted, day)
    BY DEF Known, KnownOnDay, StandsOn
  <2> HIDE DEF End, Entry
  <2> QED
    BY <2>1, <2>2 DEF Dated
<1>2. ASSUME NEW x \in Dated(rows, day)
      PROVE  StandsOn(End(x, known), day) <=> StandsOn(End(x, idx), day)
  <2>1. x \in rows /\ x.known \in Nat /\ x.known <= day
    BY DEF Dated, NeverBefore
  <2>2. CASE Of_(x, idx) = {}
    <3>1. Of_(x, known) = {}
      BY <2>2, KnownIndexIs, AsKnownIs
    <3> QED
      BY <2>2, <3>1
  <2>3. ASSUME NEW r \in Of_(x, idx)
        PROVE  StandsOn(End(x, known), day) <=> StandsOn(End(x, idx), day)
    <3>1. r \in idx /\ FiledAs(x, r) /\ r.submitted # None /\ r.submitted <= day /\ r.deleted \in Nat
      BY <2>1 DEF NeverBefore, FiledAs, IndexTyped
    <3>2. \A s \in Of_(x, idx) : s = r
      BY <3>1 DEF IndexTyped, FiledAs
    <3>3. AsKnown(r, day) \in Of_(x, known)
      BY <3>1, KnownIndexIs, AsKnownIs DEF FiledAs
    <3>4. \A s \in Of_(x, known) : s = AsKnown(r, day)
      <4> SUFFICES ASSUME NEW s \in Of_(x, known) PROVE s = AsKnown(r, day)
        OBVIOUS
      <4>1. PICK t \in idx : s = AsKnown(t, day)
        BY KnownIndexIs
      <4>2. t \in Of_(x, idx)
        BY <4>1, AsKnownIs
      <4> QED
        BY <3>2, <4>1, <4>2
    <3>5. End(x, idx) = r.deleted /\ End(x, known) = Until(day, r.deleted)
      BY <3>1, <3>2, <3>3, <3>4, AsKnownIs
    <3>6. StandsOn(Until(day, r.deleted), day) <=> StandsOn(r.deleted, day)
      BY <3>1 DEF StandsOn, Until, None
    <3> HIDE DEF End
    <3> QED
      BY <3>5, <3>6
  <2> QED
    BY <2>2, <2>3
<1> HIDE DEF End, known
<1>3. ASSUME NEW x
      PROVE  x \in Known(WithDeletion(part, known), krs, day)
               <=> x \in Known(WithDeletion(rows, idx), krs, day)
  BY <1>1, <1>2
<1> QED
  BY <1>3 DEF known

----------------------------------------------------------------------------
(* Size classes *)

\* No disclosure of a file is known later than its facts.
InTime(canonical, disclosures) ==
  \A f \in canonical, d \in disclosures :
    d.sha = f.sha /\ d.member = f.member => d.known <= f.known

\* Events as the event table holds them.
EventsTyped(events) ==
  \A e \in events : /\ EventFields \subseteq DOMAIN e
                    /\ e.known \in Nat /\ e.date \in Nat /\ e.removed \in Nat

\* The dated registrations of an entity; one of an earlier date is not seen later.
RegistrationsOf(events, krs) == {e \in events : e.krs = krs /\ e.type = "registered" /\ e.date # None}
InOrder(registrations) ==
  \A x, y \in registrations : x.date < y.date => x.known <= y.known
SeenInOrder(events) == \A krs : InOrder(RegistrationsOf(events, krs))

\* Events by a day, each with its removal if it was known by then.
LEMMA KnownEventsAre ==
  ASSUME NEW events, EventsTyped(events), NEW day
  PROVE  /\ KnownEvents(events, day)
              = {[e EXCEPT !.removed = Until(day, e.removed)] : e \in Dated(events, day)}
         /\ \A e \in events :
              LET k == [e EXCEPT !.removed = Until(day, e.removed)]
              IN  k.krs = e.krs /\ k.type = e.type /\ k.date = e.date /\ k.known = e.known
BY DEF KnownEvents, EventsTyped, EventFields

\* An event by a day is an event known by then, but for its removal.
LEMMA KnownEventsMatch ==
  ASSUME NEW events, EventsTyped(events), NEW day
  PROVE  /\ \A x \in KnownEvents(events, day) : \E e \in events :
              /\ e.known <= day
              /\ x.krs = e.krs /\ x.type = e.type /\ x.date = e.date /\ x.known = e.known
         /\ \A e \in events : e.known <= day =>
              \E x \in KnownEvents(events, day) :
                x.krs = e.krs /\ x.type = e.type /\ x.date = e.date /\ x.known = e.known
<1> DEFINE Known_(e) == [e EXCEPT !.removed = Until(day, e.removed)]
<1>1. KnownEvents(events, day) = {Known_(e) : e \in Dated(events, day)}
  BY KnownEventsAre
<1>2. \A e \in events : /\ Known_(e).krs = e.krs /\ Known_(e).type = e.type
                         /\ Known_(e).date = e.date /\ Known_(e).known = e.known
  BY KnownEventsAre
<1>3. \A e : e \in Dated(events, day) <=> e \in events /\ e.known <= day
  BY DEF Dated
<1> HIDE DEF Known_
<1> QED
  BY <1>1, <1>2, <1>3

\* The size filings of a day are those of what was known by then.
LEMMA SizeFilingsByDay ==
  ASSUME NEW idx, NEW day \in Nat, NEW canonical, Filed(canonical, idx),
         NEW disclosures, Filed(disclosures, idx), InTime(canonical, disclosures)
  PROVE  SizeFilings(Dated(canonical, day), Dated(disclosures, day))
           = Dated(SizeFilings(canonical, disclosures), day)
<1>1. ASSUME NEW f \in canonical, f.known <= day
      PROVE  Employment(Dated(disclosures, day), f) = Employment(disclosures, f)
  <2>1. ASSUME NEW d \in disclosures, d.sha = f.sha, d.member = f.member
        PROVE  d \in Dated(disclosures, day)
    <3>1. d.known \in Nat /\ f.known \in Nat /\ d.known <= f.known
      BY <2>1 DEF Filed, InTime
    <3> QED
      BY <1>1, <3>1 DEF Dated
  <2>2. Dated(disclosures, day) \subseteq disclosures
    BY DEF Dated
  <2>3. {e \in Dated(disclosures, day) : e.sha = f.sha /\ e.member = f.member /\ e.item = EmploymentItem}
          = {e \in disclosures : e.sha = f.sha /\ e.member = f.member /\ e.item = EmploymentItem}
    BY <2>1, <2>2
  <2> QED
    BY <2>3 DEF Employment
<1>2. \A f, e : SizeFiling(f, e).known = f.known
  BY DEF SizeFiling
<1>3. ASSUME NEW x
      PROVE  x \in SizeFilings(Dated(canonical, day), Dated(disclosures, day))
               <=> x \in Dated(SizeFilings(canonical, disclosures), day)
  <2>1. \A C, D : x \in SizeFilings(C, D)
          <=> \E f \in C : f.grade # "quarantined" /\ x = SizeFiling(f, Employment(D, f))
    BY DEF SizeFilings
  <2>2. \A f : f \in Dated(canonical, day) <=> f \in canonical /\ f.known <= day
    BY DEF Dated
  <2>3. x \in Dated(SizeFilings(canonical, disclosures), day)
          <=> x \in SizeFilings(canonical, disclosures) /\ x.known <= day
    BY DEF Dated
  <2> QED
    BY <1>1, <1>2, <2>1, <2>2, <2>3
<1> QED
  BY <1>3

\* The days of first registration known by a day.
RegisteredBy(registration, day) == {r.date : r \in {x \in registration : x.known <= day}}

\* Seen in order, the first registration known by a day is the first of all.
LEMMA RegistrationByDay ==
  ASSUME NEW events, EventsTyped(events), SeenInOrder(events), NEW day \in Nat, NEW krs,
         NEW e \in Nat, e <= day
  PROVE  RegisteredBy(Registration(KnownEvents(events, day), krs), e)
           = RegisteredBy(Registration(events, krs), e)
<1> DEFINE Dates(S) == RegisteredBy(Registration(S, krs), e)
           known == KnownEvents(events, day)
           First(S, d) == \E x \in RegistrationsOf(S, krs) :
                            /\ x.date = d /\ x.known <= e
                            /\ \A y \in RegistrationsOf(S, krs) : y.known <= e => x.date <= y.date
<1>1. ASSUME NEW S, \A x \in S : x.known \in Nat /\ x.date \in Nat, InOrder(RegistrationsOf(S, krs))
      PROVE  \A d : d \in Dates(S) <=> First(S, d)
  <2> DEFINE T == RegistrationsOf(S, krs)
  <2>1. \A x \in T : x.known \in Nat /\ x.date \in Nat
    BY <1>1 DEF RegistrationsOf
  <2>2. \A x : x \in Registration(S, krs)
                 <=> x \in T /\ \A y \in T : \/ x.date < y.date
                                             \/ x.date = y.date /\ x.known <= y.known
    BY DEF Registration, RegistrationsOf
  <2>3. ASSUME NEW x \in T, x.known <= e, \A y \in T : y.known <= e => x.date <= y.date
        PROVE  x.date \in Dates(S)
    <3> DEFINE same == {y \in T : y.date = x.date}
               knowns == {y.known : y \in same}
    <3>1. ASSUME NEW y \in T PROVE x.date <= y.date
      <4>1. CASE y.date < x.date
        <5>1. y.known <= x.known
          BY <1>1, <4>1 DEF InOrder
        <5>2. y.known <= e
          BY <2>1, <2>3, <5>1
        <5> QED
          BY <2>3, <5>2
      <4> QED
        BY <2>1, <4>1
    <3>2. knowns \subseteq Nat /\ knowns # {}
      BY <2>1
    <3>3. PICK m \in knowns : \A k \in knowns : m <= k
      BY <3>2, HasLeast
    <3>4. PICK y \in same : y.known = m
      BY <3>3
    <3>5. y \in T /\ y.date = x.date
      OBVIOUS
    <3>6. \A z \in T : z.date = x.date => y.known <= z.known
      BY <3>3, <3>4
    <3>7. y.known <= e
      BY <2>1, <2>3, <3>5, <3>6
    <3> HIDE DEF T
    <3>8. y \in Registration(S, krs)
      BY <2>1, <2>2, <3>1, <3>5, <3>6
    <3> QED
      BY <3>5, <3>7, <3>8 DEF RegisteredBy
  <2>4. ASSUME NEW d \in Dates(S) PROVE First(S, d)
    <3>1. PICK x \in Registration(S, krs) : x.date = d /\ x.known <= e
      BY <2>4 DEF RegisteredBy
    <3>2. x \in T /\ \A y \in T : x.date <= y.date
      BY <2>1, <2>2
    <3> QED
      BY <3>1, <3>2
  <2> QED
    BY <2>3, <2>4
<1>2. /\ \A x \in events : x.known \in Nat /\ x.date \in Nat
      /\ InOrder(RegistrationsOf(events, krs))
  BY DEF EventsTyped, SeenInOrder
<1>3. \A x : x \in RegistrationsOf(known, krs)
               => \E y \in RegistrationsOf(events, krs) : x.date = y.date /\ x.known = y.known
  BY KnownEventsMatch DEF RegistrationsOf
<1>4. \A y \in RegistrationsOf(events, krs) : y.known <= day
               => \E x \in RegistrationsOf(known, krs) : x.date = y.date /\ x.known = y.known
  <2> SUFFICES ASSUME NEW y \in RegistrationsOf(events, krs), y.known <= day
               PROVE  \E x \in RegistrationsOf(known, krs) : x.date = y.date /\ x.known = y.known
    OBVIOUS
  <2>1. y \in events /\ y.krs = krs /\ y.type = "registered" /\ y.date # None
    BY DEF RegistrationsOf
  <2>2. PICK x \in known :
          x.krs = y.krs /\ x.type = y.type /\ x.date = y.date /\ x.known = y.known
    BY <2>1, KnownEventsMatch
  <2> HIDE DEF known
  <2> QED
    BY <2>1, <2>2 DEF RegistrationsOf
<1>5. /\ \A x \in known : x.known \in Nat /\ x.date \in Nat
      /\ InOrder(RegistrationsOf(known, krs))
  <2>1. \A x \in known : x.known \in Nat /\ x.date \in Nat
    BY <1>2, KnownEventsMatch
  <2> HIDE DEF known
  <2>2. ASSUME NEW x \in RegistrationsOf(known, krs), NEW y \in RegistrationsOf(known, krs), x.date < y.date
        PROVE  x.known <= y.known
    <3>1. PICK v \in RegistrationsOf(events, krs) : x.date = v.date /\ x.known = v.known
      BY <1>3
    <3>2. PICK w \in RegistrationsOf(events, krs) : y.date = w.date /\ y.known = w.known
      BY <1>3
    <3> QED
      BY <1>2, <2>2, <3>1, <3>2 DEF InOrder
  <2> QED
    BY <2>1, <2>2 DEF InOrder
<1>6. \A d : d \in Dates(known) <=> First(known, d)
  BY <1>1, <1>5
<1>7. \A d : d \in Dates(events) <=> First(events, d)
  BY <1>1, <1>2
<1>8. \A y \in RegistrationsOf(events, krs) : y.known <= e => y.known <= day
  BY <1>2 DEF RegistrationsOf
<1> HIDE DEF Dates, known
<1>9. ASSUME NEW d PROVE First(known, d) <=> First(events, d)
  <2>1. ASSUME First(known, d) PROVE First(events, d)
    <3>1. PICK x \in RegistrationsOf(known, krs) :
            /\ x.date = d /\ x.known <= e
            /\ \A y \in RegistrationsOf(known, krs) : y.known <= e => x.date <= y.date
      BY <2>1
    <3>2. PICK v \in RegistrationsOf(events, krs) : x.date = v.date /\ x.known = v.known
      BY <1>3
    <3>3. ASSUME NEW w \in RegistrationsOf(events, krs), w.known <= e PROVE v.date <= w.date
      BY <1>4, <1>8, <3>1, <3>2, <3>3
    <3> QED
      BY <3>1, <3>2, <3>3
  <2>2. ASSUME First(events, d) PROVE First(known, d)
    <3>1. PICK v \in RegistrationsOf(events, krs) :
            /\ v.date = d /\ v.known <= e
            /\ \A w \in RegistrationsOf(events, krs) : w.known <= e => v.date <= w.date
      BY <2>2
    <3>2. PICK x \in RegistrationsOf(known, krs) : x.date = v.date /\ x.known = v.known
      BY <1>4, <1>8, <3>1
    <3>3. ASSUME NEW y \in RegistrationsOf(known, krs), y.known <= e PROVE x.date <= y.date
      BY <1>3, <3>1, <3>2, <3>3
    <3> QED
      BY <3>1, <3>2, <3>3
  <2> QED
    BY <2>1, <2>2
<1>10. Dates(known) = Dates(events)
  BY <1>6, <1>7, <1>9
<1> QED
  BY <1>10 DEF Dates, known

\* The filings of an entity's years by a day.
LatestOn(filings, e) ==
  {f \in filings : /\ f.known <= e
                   /\ \A g \in filings \ {f} : g.known <= e /\ g.year = f.year => Later(f, g)}

\* The classes of the latest filing of each year.
ClassesOf(latest, firstDays) ==
  Classified([y \in {f.year : f \in latest} |-> CHOOSE f \in latest : f.year = y], firstDays)

\* The classes of a day are of each year's latest filing.
LEMMA ClassesOnIs ==
  ASSUME NEW filings, NEW registration, NEW e
  PROVE  ClassesOn(filings, registration, e) =
           ClassesOf(LatestOn(filings, e), RegisteredBy(registration, e))
BY DEF ClassesOn, LatestOn, ClassesOf, RegisteredBy

\* Each classified year is of its filing.
LEMMA ClassifiedIs ==
  \A of, days : \A x \in Classified(of, days) : \E y \in DOMAIN of : x.filing = of[y]
<1> SUFFICES ASSUME NEW of, NEW days, NEW x \in Classified(of, days)
             PROVE  \E y \in DOMAIN of : x.filing = of[y]
  OBVIOUS
<1> DEFINE Entry(y) == [filing |-> of[y], before |-> FiguresBefore(of, days, of[y]),
                        class |-> YearClasses(of, days)[y].class,
                        reason |-> YearClasses(of, days)[y].reason]
<1>1. Classified(of, days) = {Entry(y) : y \in DOMAIN of}
  BY DEF Classified
<1>2. \A y : Entry(y).filing = of[y]
  OBVIOUS
<1> HIDE DEF Entry
<1> QED
  BY <1>1, <1>2

\* A classified year is of one of the filings by then.
LEMMA ClassifiedFiling ==
  ASSUME NEW filings, NEW registration, NEW e, NEW r \in ClassesOn(filings, registration, e)
  PROVE  r.filing \in filings /\ r.filing.known <= e
<1> DEFINE years == {f.year : f \in LatestOn(filings, e)}
           of == [y \in years |-> CHOOSE f \in LatestOn(filings, e) : f.year = y]
           days == {x.date : x \in {y \in registration : y.known <= e}}
<1>1. r \in Classified(of, days)
  BY ClassesOnIs DEF ClassesOf, RegisteredBy
<1>2. \E y \in years : r.filing = of[y]
  <2>1. \A o, d : \A x \in Classified(o, d) : \E y \in DOMAIN o : x.filing = o[y]
    BY ClassifiedIs
  <2> HIDE DEF years, days
  <2> QED
    BY <1>1, <2>1
<1>3. \A y \in years : of[y] \in LatestOn(filings, e)
  OBVIOUS
<1> HIDE DEF of, years
<1> QED
  BY <1>2, <1>3 DEF LatestOn

DayTyped(filings) == \A f \in filings : f.known \in Nat

\* Classes of an earlier day do not depend on later filings.
LEMMA ClassesByDay ==
  ASSUME NEW filings, DayTyped(filings), NEW day \in Nat, NEW e \in Nat, e <= day,
         NEW R, NEW K,
         RegisteredBy(K, e) = RegisteredBy(R, e)
  PROVE  ClassesOn(Dated(filings, day), K, e) = ClassesOn(filings, R, e)
<1>1. \A f \in filings : f.known <= e => f.known <= day
  BY DEF DayTyped
<1>2. LatestOn(Dated(filings, day), e) = LatestOn(filings, e)
  BY <1>1 DEF LatestOn, Dated
<1>3. ClassesOn(Dated(filings, day), K, e)
        = ClassesOf(LatestOn(Dated(filings, day), e), RegisteredBy(K, e))
  BY ClassesOnIs
<1>4. ClassesOn(filings, R, e)
        = ClassesOf(LatestOn(filings, e), RegisteredBy(R, e))
  BY ClassesOnIs
<1> QED
  BY <1>2, <1>3, <1>4

\* A day's new rows of the history.
LEMMA NewRowsAre ==
  ASSUME NEW krs, NEW on, NEW x
  PROVE  x \in NewRows(krs, on) <=>
           \E day \in DOMAIN on :
             \E r \in on[day] \ (IF {d \in DOMAIN on : d < day} = {} THEN {}
                                 ELSE on[Max({d \in DOMAIN on : d < day})]) :
               x = [krs |-> krs, known |-> day, ref |-> r.filing.ref,
                    member |-> r.filing.member, end |-> r.filing.end, row |-> r]
BY DEF NewRows

\* An entity's history by a day is the history of what was known by then.
LEMMA EntityByDay ==
  ASSUME NEW filings, DayTyped(filings), NEW day \in Nat, NEW krs, NEW R, NEW K,
         \A e \in Nat : e <= day =>
           RegisteredBy(K, e) = RegisteredBy(R, e)
  PROVE  EntityRows(krs, Dated(filings, day), K) = Dated(EntityRows(krs, filings, R), day)
<1> DEFINE days == {f.known : f \in filings}
           knownDays == {f.known : f \in Dated(filings, day)}
           on == [d \in days |-> ClassesOn(filings, R, d)]
           known == [d \in knownDays |-> ClassesOn(Dated(filings, day), K, d)]
           Before(o, d) == {c \in DOMAIN o : c < d}
           Earlier(o, d) == IF Before(o, d) = {} THEN {} ELSE o[Max(Before(o, d))]
           Entry(d, r) == [krs |-> krs, known |-> d, ref |-> r.filing.ref,
                           member |-> r.filing.member, end |-> r.filing.end, row |-> r]
<1>1. EntityRows(krs, filings, R) = NewRows(krs, on)
      /\ EntityRows(krs, Dated(filings, day), K) = NewRows(krs, known)
  BY DEF EntityRows
<1>2. days \subseteq Nat /\ knownDays = {d \in days : d <= day}
  BY DEF DayTyped, Dated
<1>3. ASSUME NEW d \in knownDays
      PROVE  known[d] = on[d]
  <2>1. d \in Nat /\ d <= day /\ d \in days
    <3> HIDE DEF days, knownDays
    <3> QED
      BY <1>2
  <2>2. ClassesOn(Dated(filings, day), K, d) = ClassesOn(filings, R, d)
    BY <2>1, ClassesByDay
  <2> QED
    BY <2>1, <2>2
<1>4. ASSUME NEW d \in knownDays
      PROVE  Earlier(known, d) = Earlier(on, d)
  <2>0. DOMAIN known = knownDays /\ DOMAIN on = days
    OBVIOUS
  <2>1. /\ Before(known, d) = Before(on, d) /\ Before(on, d) = {c \in days : c < d}
        /\ d \in Nat /\ d <= day
    <3> HIDE DEF known, on, days, knownDays
    <3>1. d \in Nat /\ d <= day
      BY <1>2
    <3>2. ASSUME NEW c \in days, c < d
          PROVE  c \in knownDays
      <4>1. c \in Nat /\ c <= day
        BY <1>2, <3>1, <3>2
      <4> QED
        BY <1>2, <4>1
    <3>3. \A c : c \in knownDays => c \in days
      BY <1>2
    <3>4. Before(known, d) = {c \in days : c < d}
      BY <2>0, <3>2, <3>3
    <3>5. Before(on, d) = {c \in days : c < d}
      BY <2>0
    <3> QED
      BY <3>1, <3>4, <3>5
  <2>2. CASE Before(on, d) = {}
    BY <2>1, <2>2
  <2>3. CASE Before(on, d) # {}
    <3> DEFINE B == {c \in days : c < d}
    <3>1. B \subseteq Nat /\ B # {} /\ d \in Nat /\ d <= day /\ \A c \in B : c <= d /\ c \in days
      <4> HIDE DEF known, on, days, knownDays, Before
      <4>1. B \subseteq Nat /\ \A c \in B : c <= d /\ c \in days
        <5>1. ASSUME NEW c \in B PROVE c \in Nat /\ c <= d /\ c \in days
          <6>1. c \in days /\ c < d
            BY DEF B
          <6>2. c \in Nat
            BY <1>2, <6>1
          <6> QED
            BY <2>1, <6>1, <6>2
        <5> QED
          BY <5>1
      <4>2. B # {}
        BY <2>1, <2>3
      <4> QED
        BY <2>1, <4>1, <4>2
    <3>2. Max(B) \in B
      <4> HIDE DEF B
      <4> QED
        BY <3>1, MaxOfDays
    <3> HIDE DEF B, days, knownDays
    <3>3. Max(B) \in knownDays
      <4> DEFINE m == Max(B)
      <4>1. m \in B /\ m <= d /\ m \in days /\ m \in Nat
        BY <3>1, <3>2
      <4> HIDE DEF m
      <4>2. m <= day
        BY <3>1, <4>1
      <4>3. m \in knownDays
        BY <1>2, <4>1, <4>2
      <4> QED
        BY <4>3 DEF m
    <3>4. known[Max(B)] = on[Max(B)]
      BY <1>3, <3>3
    <3>5. Before(known, d) = B /\ Before(on, d) = B
      BY <2>1 DEF B
    <3> HIDE DEF known, on, Before
    <3> QED
      BY <2>3, <3>4, <3>5
  <2> QED
    BY <2>2, <2>3
<1>5. DOMAIN on = days /\ DOMAIN known = knownDays
  OBVIOUS
<1>6. \A o, x : x \in NewRows(krs, o)
                  <=> \E d \in DOMAIN o : \E r \in o[d] \ Earlier(o, d) : x = Entry(d, r)
  BY NewRowsAre
<1>7. \A d, r : Entry(d, r).known = d
  OBVIOUS
<1> HIDE DEF on, known, days, knownDays, Earlier, Entry
<1>8. ASSUME NEW x
      PROVE  x \in NewRows(krs, known) <=> x \in Dated(NewRows(krs, on), day)
  <2>1. x \in NewRows(krs, known)
          <=> \E d \in knownDays : \E r \in on[d] \ Earlier(on, d) : x = Entry(d, r)
    BY <1>3, <1>4, <1>5, <1>6
  <2>2. x \in NewRows(krs, on)
          <=> \E d \in days : \E r \in on[d] \ Earlier(on, d) : x = Entry(d, r)
    BY <1>5, <1>6
  <2>3. \A d : d \in knownDays <=> d \in days /\ d <= day
    BY <1>2
  <2>4. x \in Dated(NewRows(krs, on), day) <=> x \in NewRows(krs, on) /\ x.known <= day
    BY DEF Dated
  <2> QED
    BY <1>7, <2>1, <2>2, <2>3, <2>4
<1>9. NewRows(krs, known) = Dated(NewRows(krs, on), day)
  BY <1>8
<1> QED
  BY <1>1, <1>9

\* A size filing is dated as its facts are.
LEMMA SizeFilingsFiled ==
  ASSUME NEW idx, NEW canonical, Filed(canonical, idx), NEW disclosures
  PROVE  Filed(SizeFilings(canonical, disclosures), idx)
<1> SUFFICES ASSUME NEW x \in SizeFilings(canonical, disclosures)
             PROVE  /\ x.known \in Nat \ {None}
                    /\ \E r \in idx : FiledAs(x, r) /\ r.submitted = x.known
  BY DEF Filed
<1>1. PICK f \in canonical : x = SizeFiling(f, Employment(disclosures, f))
  BY DEF SizeFilings
<1>2. x.krs = f.krs /\ x.ref = f.ref /\ x.known = f.known
  BY <1>1 DEF SizeFiling
<1> QED
  BY <1>2 DEF Filed, FiledAs

\* The size classes by a day are those of the facts, disclosures and registrations
\* known by then.
LEMMA HistoryByDay ==
  ASSUME NEW idx, NEW day \in Nat, NEW canonical, Filed(canonical, idx),
         NEW disclosures, Filed(disclosures, idx), InTime(canonical, disclosures),
         NEW events, EventsTyped(events), SeenInOrder(events)
  PROVE  SizeClassHistory(Dated(canonical, day), Dated(disclosures, day), KnownEvents(events, day))
           = Dated(SizeClassHistory(canonical, disclosures, events), day)
<1> DEFINE filings == SizeFilings(canonical, disclosures)
           Of_(S, k) == {f \in S : f.krs = k}
           Entities(S) == {f.krs : f \in S}
           known == KnownEvents(events, day)
           Rows(S, E, k) == EntityRows(k, Of_(S, k), Registration(E, k))
<1>1. SizeFilings(Dated(canonical, day), Dated(disclosures, day)) = Dated(filings, day)
  BY SizeFilingsByDay
<1>2. DayTyped(filings)
  BY SizeFilingsFiled DEF Filed, DayTyped
<1>3. \A k : Of_(Dated(filings, day), k) = Dated(Of_(filings, k), day)
  BY DEF Dated
<1>4. ASSUME NEW k
      PROVE  Rows(Dated(filings, day), known, k) = Dated(Rows(filings, events, k), day)
  <2>1. DayTyped(Of_(filings, k))
    BY <1>2 DEF DayTyped
  <2>2. \A e \in Nat : e <= day =>
          RegisteredBy(Registration(known, k), e)
            = RegisteredBy(Registration(events, k), e)
    <3> SUFFICES ASSUME NEW e \in Nat, e <= day
                 PROVE  RegisteredBy(Registration(KnownEvents(events, day), k), e)
                          = RegisteredBy(Registration(events, k), e)
      OBVIOUS
    <3> QED
      BY RegistrationByDay
  <2>3. EntityRows(k, Dated(Of_(filings, k), day), Registration(known, k))
          = Dated(EntityRows(k, Of_(filings, k), Registration(events, k)), day)
    <3> DEFINE F == Of_(filings, k)
               R == Registration(events, k)
               KR == Registration(known, k)
    <3> HIDE DEF F, R, KR
    <3>1. EntityRows(k, Dated(F, day), KR) = Dated(EntityRows(k, F, R), day)
      <4>1. DayTyped(F)
        BY <2>1 DEF F
      <4>2. \A e \in Nat : e <= day =>
              RegisteredBy(KR, e) = RegisteredBy(R, e)
        BY <2>2 DEF R, KR
      <4> QED
        BY <4>1, <4>2, EntityByDay
    <3> QED
      BY <3>1 DEF F, R, KR
  <2> QED
    BY <1>3, <2>3
<1>5. /\ SizeClassHistory(canonical, disclosures, events)
           = UNION {Rows(filings, events, k) : k \in Entities(filings)}
      /\ SizeClassHistory(Dated(canonical, day), Dated(disclosures, day), known)
           = UNION {Rows(Dated(filings, day), known, k) : k \in Entities(Dated(filings, day))}
  BY <1>1 DEF SizeClassHistory
<1>6. ASSUME NEW k, k \notin Entities(Dated(filings, day))
      PROVE  Rows(Dated(filings, day), known, k) = {}
  <2>1. Of_(Dated(filings, day), k) = {}
    BY <1>6
  <2>2. \A R : EntityRows(k, {}, R) = {}
    BY DEF EntityRows, NewRows
  <2> QED
    BY <2>1, <2>2
<1>7. Entities(Dated(filings, day)) \subseteq Entities(filings)
  BY DEF Dated
<1> HIDE DEF filings, known, Rows, Entities
<1>8. ASSUME NEW x
      PROVE  x \in SizeClassHistory(Dated(canonical, day), Dated(disclosures, day), known)
               <=> x \in Dated(SizeClassHistory(canonical, disclosures, events), day)
  <2>1. x \in Dated(SizeClassHistory(canonical, disclosures, events), day)
          <=> \E k \in Entities(filings) : x \in Dated(Rows(filings, events, k), day)
    BY <1>5 DEF Dated
  <2> QED
    BY <1>4, <1>5, <1>6, <1>7, <2>1
<1> QED
  BY <1>8 DEF known

\* A class is known no earlier than the filing whose year it is of.
LEMMA HistoryNeverBefore ==
  ASSUME NEW idx, IndexTyped(idx), NEW canonical, Filed(canonical, idx), NEW disclosures, NEW events
  PROVE  NeverBefore(SizeClassHistory(canonical, disclosures, events), idx)
<1> DEFINE filings == SizeFilings(canonical, disclosures)
<1>1. Filed(filings, idx)
  BY SizeFilingsFiled
<1> SUFFICES ASSUME NEW x \in SizeClassHistory(canonical, disclosures, events)
             PROVE  /\ x.known \in Nat
                    /\ \A r \in idx : FiledAs(x, r) => r.submitted # None /\ r.submitted <= x.known
  BY DEF NeverBefore
<1>2. PICK k, R : x \in EntityRows(k, {f \in filings : f.krs = k}, R)
  BY DEF SizeClassHistory
<1> DEFINE of == {f \in filings : f.krs = k}
           on == [d \in {f.known : f \in of} |-> ClassesOn(of, R, d)]
<1>3. x \in NewRows(k, on)
  BY <1>2 DEF EntityRows
<1>4. PICK d \in {f.known : f \in of} :
        \E r \in on[d] : x = [krs |-> k, known |-> d, ref |-> r.filing.ref,
                              member |-> r.filing.member, end |-> r.filing.end, row |-> r]
  <2>1. DOMAIN on = {f.known : f \in of}
    OBVIOUS
  <2> HIDE DEF on, of
  <2>2. PICK d \in DOMAIN on :
          \E r \in on[d] \ (IF {c \in DOMAIN on : c < d} = {} THEN {}
                            ELSE on[Max({c \in DOMAIN on : c < d})]) :
            x = [krs |-> k, known |-> d, ref |-> r.filing.ref,
                 member |-> r.filing.member, end |-> r.filing.end, row |-> r]
    BY <1>3, NewRowsAre
  <2> QED
    BY <2>1, <2>2
<1>5. PICK r \in ClassesOn(of, R, d) :
        x = [krs |-> k, known |-> d, ref |-> r.filing.ref,
             member |-> r.filing.member, end |-> r.filing.end, row |-> r]
  BY <1>4
<1>6. r.filing \in of /\ r.filing.known <= d
  BY ClassifiedFiling
<1> HIDE DEF filings
<1>7. /\ r.filing \in filings /\ r.filing.krs = x.krs /\ r.filing.ref = x.ref
      /\ x.known = d /\ d \in Nat
  BY <1>1, <1>5, <1>6 DEF Filed
<1>8. PICK s \in idx : FiledAs(r.filing, s) /\ s.submitted = r.filing.known /\ s.submitted \in Nat \ {None}
  BY <1>1, <1>7 DEF Filed
<1>9. ASSUME NEW t \in idx, FiledAs(x, t)
      PROVE  t.submitted # None /\ t.submitted <= x.known
  <2>1. t = s
    BY <1>7, <1>8, <1>9 DEF FiledAs, IndexTyped
  <2> QED
    BY <1>6, <1>7, <1>8, <2>1
<1> QED
  BY <1>7, <1>9

----------------------------------------------------------------------------
(* Events *)

\* An event counts by its type and day, from the day it was first seen.
EventKey(e) == <<e.type, IF e.date = None THEN e.known ELSE e.date>>
SeenOn(events, k) == {e.known : e \in {x \in events : EventKey(x) = k}}
SeenBy(events, day) == {e.known : e \in {x \in events : x.known <= day}}
CountedBy(f, events, day) ==
  {k \in {EventKey(e) : e \in {x \in events : x.type \in f.types}} :
     /\ Min(SeenOn(events, k)) <= day
     /\ f.window # None => Min(SeenOn(events, k)) > day - f.window}

\* An event feature counts the event days seen by its day.
LEMMA EventValueIs ==
  ASSUME NEW f, NEW events, NEW day
  PROVE  EventValue(f, events, day) =
           IF SeenBy(events, day) = {} THEN Null
           ELSE Hit(<<Cardinality(CountedBy(f, events, day))>>,
                    IF CountedBy(f, events, day) = {} THEN Max(SeenBy(events, day))
                    ELSE Max({Min(SeenOn(events, k)) : k \in CountedBy(f, events, day)}))
BY DEF EventValue, EventKey, SeenOn, SeenBy, CountedBy

\* The days an event was seen on, of what was known by a day.
LEMMA SeenOnByDay ==
  ASSUME NEW events, EventsTyped(events), NEW day \in Nat, NEW krs, NEW k
  PROVE  /\ SeenOn(Of(events, krs), k) \subseteq Nat
         /\ SeenOn(Of(KnownEvents(events, day), krs), k)
              = {n \in SeenOn(Of(events, krs), k) : n <= day}
         /\ SeenBy(Of(KnownEvents(events, day), krs), day) = SeenBy(Of(events, krs), day)
<1> DEFINE E == Of(events, krs)
           K == Of(KnownEvents(events, day), krs)
<1>1. \A x \in K : \E e \in E : /\ e.known <= day
                                /\ EventKey(x) = EventKey(e) /\ x.known = e.known
  <2> SUFFICES ASSUME NEW x \in K
               PROVE  \E e \in E : e.known <= day /\ EventKey(x) = EventKey(e) /\ x.known = e.known
    OBVIOUS
  <2>1. x \in KnownEvents(events, day) /\ x.krs = krs
    BY DEF Of
  <2>2. PICK e \in events : /\ e.known <= day
                            /\ x.krs = e.krs /\ x.type = e.type /\ x.date = e.date /\ x.known = e.known
    BY <2>1, KnownEventsMatch
  <2>3. e \in E /\ EventKey(x) = EventKey(e)
    BY <2>1, <2>2 DEF Of, EventKey
  <2> QED
    BY <2>2, <2>3
<1>2. \A e \in E : e.known <= day =>
        \E x \in K : EventKey(x) = EventKey(e) /\ x.known = e.known
  <2> SUFFICES ASSUME NEW e \in E, e.known <= day
               PROVE  \E x \in K : EventKey(x) = EventKey(e) /\ x.known = e.known
    OBVIOUS
  <2>1. e \in events /\ e.krs = krs
    BY DEF Of
  <2>2. PICK x \in KnownEvents(events, day) :
          x.krs = e.krs /\ x.type = e.type /\ x.date = e.date /\ x.known = e.known
    BY <2>1, KnownEventsMatch
  <2>3. x \in K /\ EventKey(x) = EventKey(e)
    BY <2>1, <2>2 DEF Of, EventKey
  <2> QED
    BY <2>2, <2>3
<1>3. \A e \in E : e.known \in Nat
  BY DEF Of, EventsTyped
<1> HIDE DEF E, K
<1>4. SeenOn(E, k) \subseteq Nat
  BY <1>3 DEF SeenOn
<1>5. SeenOn(K, k) = {n \in SeenOn(E, k) : n <= day}
  BY <1>1, <1>2 DEF SeenOn
<1>6. SeenBy(K, day) = SeenBy(E, day)
  <2>1. ASSUME NEW n PROVE n \in SeenBy(K, day) <=> n \in SeenBy(E, day)
    BY <1>1, <1>2 DEF SeenBy
  <2> QED
    BY <2>1
<1> QED
  BY <1>4, <1>5, <1>6 DEF E, K

\* The events counted on a day are those seen by then.
LEMMA EventByDay ==
  ASSUME NEW events, EventsTyped(events), NEW day \in Nat, NEW krs, NEW f
  PROVE  EventValue(f, Of(KnownEvents(events, day), krs), day) = EventValue(f, Of(events, krs), day)
<1> DEFINE E == Of(events, krs)
           K == Of(KnownEvents(events, day), krs)
           Keys(S) == {EventKey(e) : e \in {x \in S : x.type \in f.types}}
<1>1. \A k : /\ SeenOn(E, k) \subseteq Nat
             /\ SeenOn(K, k) = {n \in SeenOn(E, k) : n <= day}
  BY SeenOnByDay
<1>2. SeenBy(K, day) = SeenBy(E, day)
  BY SeenOnByDay
<1>3. \A S, k : k \in Keys(S) <=> SeenOn(S, k) # {} /\ k[1] \in f.types
  BY DEF SeenOn, EventKey
<1> HIDE DEF E, K, Keys
<1>4. ASSUME NEW k, SeenOn(K, k) # {} \/ (SeenOn(E, k) # {} /\ Min(SeenOn(E, k)) <= day)
      PROVE  Min(SeenOn(K, k)) = Min(SeenOn(E, k)) /\ SeenOn(K, k) # {} /\ SeenOn(E, k) # {}
  <2>1. SeenOn(E, k) # {}
    BY <1>1, <1>4
  <2>2. /\ Min(SeenOn(E, k)) \in SeenOn(E, k) /\ Min(SeenOn(E, k)) \in Nat
        /\ \A n \in SeenOn(E, k) : Min(SeenOn(E, k)) <= n
    BY <1>1, <2>1, MinOfDays
  <2>3. Min(SeenOn(E, k)) <= day
    BY <1>1, <1>4, <2>2
  <2>4. Min(SeenOn(E, k)) \in SeenOn(K, k)
    BY <1>1, <2>2, <2>3
  <2>5. /\ Min(SeenOn(K, k)) \in SeenOn(K, k) /\ Min(SeenOn(K, k)) \in Nat
        /\ \A n \in SeenOn(K, k) : Min(SeenOn(K, k)) <= n
    BY <1>1, <2>4, MinOfDays
  <2>6. Min(SeenOn(K, k)) \in SeenOn(E, k)
    BY <1>1, <2>5
  <2> QED
    BY <2>1, <2>2, <2>4, <2>5, <2>6
<1>5. ASSUME NEW k, SeenOn(K, k) # {}
      PROVE  Min(SeenOn(K, k)) <= day
  <2>1. Min(SeenOn(K, k)) \in SeenOn(K, k)
    BY <1>1, <1>5, MinOfDays
  <2> QED
    BY <1>1, <2>1
<1>6. ASSUME NEW k
      PROVE  k \in CountedBy(f, K, day) <=> k \in CountedBy(f, E, day)
  <2>1. \A S : k \in CountedBy(f, S, day)
          <=> /\ SeenOn(S, k) # {} /\ k[1] \in f.types /\ Min(SeenOn(S, k)) <= day
              /\ f.window # None => Min(SeenOn(S, k)) > day - f.window
    BY <1>3 DEF CountedBy, Keys
  <2> QED
    BY <1>4, <1>5, <2>1
<1>7. \A k \in CountedBy(f, K, day) : Min(SeenOn(K, k)) = Min(SeenOn(E, k))
  <2>1. \A k \in CountedBy(f, K, day) : k \in Keys(K)
    BY DEF CountedBy, Keys
  <2> QED
    BY <1>3, <1>4, <2>1
<1>8. CountedBy(f, K, day) = CountedBy(f, E, day)
  BY <1>6
<1>9. {Min(SeenOn(K, k)) : k \in CountedBy(f, K, day)} = {Min(SeenOn(E, k)) : k \in CountedBy(f, E, day)}
  BY <1>7, <1>8
<1>10. EventValue(f, K, day) = EventValue(f, E, day)
  BY <1>2, <1>8, <1>9, EventValueIs
<1> QED
  BY <1>10 DEF E, K

----------------------------------------------------------------------------
(* Every feature *)

\* The sources of a store: what was filed by its submission, what was read of a
\* filing after it, restatements of the facts, and registrations seen in order.
WellDated(src) ==
  /\ IndexTyped(src.index)
  /\ Filed(src.canonical, src.index)
  /\ Filed(src.disclosures, src.index)
  /\ InTime(src.canonical, src.disclosures)
  /\ NeverBefore(src.text, src.index)
  /\ NeverBefore(src.audit, src.index)
  /\ EventsTyped(src.events) /\ SeenInOrder(src.events)
  /\ src.restatements = RestatementEvents(src.canonical)

Families == {"financial", "construction", "tripwire", "filing", "registry", "legal_history",
             "disclosure", "text", "audit", "size"}

\* The family of a feature kind.
LEMMA FamilyOf ==
  ASSUME NEW f \in FeatureSet
  PROVE  f.family \in Families
<1>1. f.family \in FamiliesOf[f.kind] /\ (FigureFeature(f) \/ HistoryFeature(f) \/ DocumentFeature(f))
  BY FeatureSetAssumption DEF FeatureSetAssumption
<1>2. f.kind \in DOMAIN FamiliesOf
  BY <1>1 DEF FamiliesOf, FigureFeature, HistoryFeature, DocumentFeature
<1> QED
  BY <1>1, <1>2 DEF FamiliesOf, Families

\* What a feature is a function of.
LEMMA FeatureReads ==
  ASSUME NEW f \in FeatureSet, NEW i, NEW j, NEW krs, NEW day,
         Snapshot(Of(i.panel, krs), day) = Snapshot(Of(j.panel, krs), day),
         Known(i.filings, krs, day) = Known(j.filings, krs, day),
         {r \in Of(i.restatements, krs) : r.known <= day}
           = {r \in Of(j.restatements, krs) : r.known <= day},
         EventValue(f, Of(i.events, krs), day) = EventValue(f, Of(j.events, krs), day),
         Known(i.disclosures, krs, day) = Known(j.disclosures, krs, day),
         Known(i.text, krs, day) = Known(j.text, krs, day),
         Known(i.audit, krs, day) = Known(j.audit, krs, day),
         Known(i.size, krs, day) = Known(j.size, krs, day)
  PROVE  FeatureValue(f, i, krs, day) = FeatureValue(f, j, krs, day)
<1>1. f.family \in Families
  BY FamilyOf
<1>2. CASE f.family \in {"financial", "construction", "tripwire"}
  BY <1>2 DEF FeatureValue
<1>3. CASE f.family = "filing"
  BY <1>3 DEF FeatureValue
<1>4. CASE f.family \in {"registry", "legal_history"}
  BY <1>4 DEF FeatureValue
<1>5. CASE f.family \in {"disclosure", "text", "audit", "size"}
  BY <1>5 DEF FeatureValue
<1> QED
  BY <1>1, <1>2, <1>3, <1>4, <1>5 DEF Families

\* A feature of a day is the same from all the sources and from those known by then.
LEMMA FeatureByDay ==
  ASSUME NEW src, WellDated(src), NEW day \in Nat, NEW f \in FeatureSet, NEW krs
  PROVE  FeatureValue(f, FeatureInputs(KnownOn(src, day)), krs, day)
           = FeatureValue(f, FeatureInputs(src), krs, day)
<1> DEFINE i == FeatureInputs(KnownOn(src, day))
           j == FeatureInputs(src)
           known == KnownIndex(src.index, day)
<1>0. \A S : Dated(Dated(S, day), day) = Dated(S, day)
  BY DEF Dated
<1>1. Snapshot(Of(i.panel, krs), day) = Snapshot(Of(j.panel, krs), day)
  BY SnapshotByDay DEF FeatureInputs, KnownOn, WellDated
<1>2. Known(i.filings, krs, day) = Known(j.filings, krs, day)
  BY FilingsByDay DEF FeatureInputs, KnownOn, WellDated
<1>3. {r \in Of(i.restatements, krs) : r.known <= day} = {r \in Of(j.restatements, krs) : r.known <= day}
  BY DEF FeatureInputs, KnownOn, Of, Dated
<1>4. EventValue(f, Of(i.events, krs), day) = EventValue(f, Of(j.events, krs), day)
  BY EventByDay DEF FeatureInputs, KnownOn, WellDated
<1>5. ASSUME NEW rows, NeverBefore(rows, src.index)
      PROVE  Known(WithDeletion(Dated(rows, day), known), krs, day)
               = Known(WithDeletion(rows, src.index), krs, day)
  BY <1>0, <1>5, WithDeletionByDay DEF WellDated
<1>6. Known(i.disclosures, krs, day) = Known(j.disclosures, krs, day)
  BY <1>5, FiledNeverBefore DEF FeatureInputs, KnownOn, WellDated
<1>7. Known(i.text, krs, day) = Known(j.text, krs, day)
  BY <1>5 DEF FeatureInputs, KnownOn, WellDated
<1>8. Known(i.audit, krs, day) = Known(j.audit, krs, day)
  BY <1>5 DEF FeatureInputs, KnownOn, WellDated
<1>9. Known(i.size, krs, day) = Known(j.size, krs, day)
  <2> DEFINE history == SizeClassHistory(src.canonical, src.disclosures, src.events)
  <2>1. SizeClassHistory(Dated(src.canonical, day), Dated(src.disclosures, day),
                         KnownEvents(src.events, day))
          = Dated(history, day)
    BY HistoryByDay DEF WellDated
  <2>2. NeverBefore(history, src.index)
    BY HistoryNeverBefore DEF WellDated
  <2>3. /\ i.size = WithDeletion(Dated(history, day), known)
        /\ j.size = WithDeletion(history, src.index)
    BY <2>1 DEF FeatureInputs, KnownOn
  <2> HIDE DEF history
  <2> QED
    BY <1>5, <2>2, <2>3
<1> HIDE DEF i, j
<1>10. FeatureValue(f, i, krs, day) = FeatureValue(f, j, krs, day)
  BY <1>1, <1>2, <1>3, <1>4, <1>6, <1>7, <1>8, <1>9, FeatureReads
<1> QED
  BY <1>10 DEF i, j

\* Values of what was known by a day are that day's values.
LEMMA NoDifferences ==
  ASSUME NEW src, WellDated(src)
  PROVE  Differences(src, FeatureValues(Grid, FeatureInputs(src))) = {}
<1> DEFINE values == FeatureValues(Grid, FeatureInputs(src))
           On(g, f, inputs) == {[krs |-> g[1], day |-> g[2], feature |-> f.name,
                                 value |-> h.value, known |-> h.known] :
                                  h \in FeatureValue(f, inputs, g[1], g[2])}
<1>1. \A g \in Grid : g[2] \in Nat
  BY RowsAssumption DEF Grid, RowsAssumption
<1>2. \A grid, inputs : FeatureValues(grid, inputs)
                          = UNION {UNION {On(g, f, inputs) : f \in FeatureSet} : g \in grid}
  BY DEF FeatureValues
<1>3. ASSUME NEW g \in Grid, NEW f \in FeatureSet
      PROVE  On(g, f, FeatureInputs(KnownOn(src, g[2]))) = On(g, f, FeatureInputs(src))
  BY <1>1, FeatureByDay
<1>4. \A g, f, inputs : \A v \in On(g, f, inputs) : v.day = g[2]
  OBVIOUS
<1> HIDE DEF On
<1>5. ASSUME NEW day
      PROVE  {v \in values : v.day = day}
               = FeatureValues({g \in Grid : g[2] = day}, FeatureInputs(KnownOn(src, day)))
  <2>1. ASSUME NEW v
        PROVE  v \in {w \in values : w.day = day}
                 <=> v \in FeatureValues({g \in Grid : g[2] = day}, FeatureInputs(KnownOn(src, day)))
    <3>1. v \in values <=> \E g \in Grid : \E f \in FeatureSet : v \in On(g, f, FeatureInputs(src))
      BY <1>2
    <3>2. v \in FeatureValues({g \in Grid : g[2] = day}, FeatureInputs(KnownOn(src, day)))
            <=> \E g \in Grid : g[2] = day /\
                  \E f \in FeatureSet : v \in On(g, f, FeatureInputs(KnownOn(src, day)))
      BY <1>2
    <3> HIDE DEF values
    <3> QED
      BY <1>3, <1>4, <3>1, <3>2
  <2> QED
    BY <2>1
<1> HIDE DEF values
<1>6. \A A, B : A = B => SymDiff(A, B) = {}
  BY DEF SymDiff
<1> QED
  BY <1>5, <1>6 DEF Differences, values

----------------------------------------------------------------------------
(* No fact behind a feature is younger than its day *)

\* Values known by a day.
KnownBy(hits, day) == \A h \in hits : h.known \in 0..day

\* The latest of days known by a day is known by it.
LEMMA MaxBy ==
  ASSUME NEW day \in Nat, NEW S \in SUBSET (0..day), S # {}
  PROVE  Max(S) \in 0..day
<1>1. S \in SUBSET Nat /\ \A x \in S : x <= day
  OBVIOUS
<1>2. Max(S) \in S
  BY <1>1, MaxOfDays
<1> QED
  BY <1>2

\* The first of days known by a day is known by it.
LEMMA MinBy ==
  ASSUME NEW day \in Nat, NEW S \in SUBSET (0..day), S # {}
  PROVE  Min(S) \in 0..day
<1>1. S \in SUBSET Nat
  OBVIOUS
<1>2. Min(S) \in S
  BY <1>1, MinOfDays
<1> QED
  BY <1>2

\* A value known by a day.
LEMMA HitBy ==
  ASSUME NEW day \in Nat, NEW known \in 0..day, NEW value
  PROVE  KnownBy(Hit(value, known), day)
BY DEF KnownBy, Hit

\* No value.
LEMMA NullBy ==
  ASSUME NEW day
  PROVE  KnownBy(Null, day)
BY DEF KnownBy, Null

\* A version starts on a day a source arrived or was deleted.
LEMMA PanelDays ==
  ASSUME NEW idx, IndexTyped(idx), NEW canonical, Filed(canonical, idx),
         NEW v \in Panel(canonical, idx)
  PROVE  v.known \in Nat
<1> DEFINE live == Live(Candidates(canonical, idx), idx)
           Of_(k) == {c \in live : c.krs = k[1] /\ c.end = k[2]}
<1>1. Filed(live, idx) /\ Outlives(live, idx)
  BY CandidatesFiled, LiveByDay
<1>2. PICK k : v \in PeriodVersions(Of_(k), idx)
  BY DEF Panel
<1>3. Filed(Of_(k), idx) /\ Outlives(Of_(k), idx)
  BY <1>1 DEF Filed, Outlives
<1> HIDE DEF live, Of_
<1>4. Days(Of_(k), idx) \subseteq Nat
  BY <1>3, DaysByDay
<1>5. PICK e \in Days(Of_(k), idx) : v \in VersionsOn(InForce(Of_(k), idx, e), Previous(Of_(k), idx, e), e)
  BY <1>2 DEF PeriodVersions
<1>6. \A A, B : \A w \in VersionsOn(A, B, e) : w.known = e
  BY DEF VersionsOn, Version
<1> QED
  BY <1>4, <1>5, <1>6

FigureKinds == {"ratio", "growth", "volatility", "tripwire", "below_zero"}

\* The kinds computed of the panel's figures.
LEMMA KindOf ==
  ASSUME NEW f \in FeatureSet
  PROVE  /\ f.family \in {"financial", "construction", "tripwire"} => f.kind \in FigureKinds
         /\ f.family = "filing" => f.kind = "filing" /\ f.metric \in FilingMetrics
         /\ f.family = "audit" => f.kind \in {"audit_flag", "audit_years", "audit_age"}
         /\ f.kind = "volatility" => f.years \in Nat /\ f.years >= 2
<1>1. f.family \in FamiliesOf[f.kind] /\ (FigureFeature(f) \/ HistoryFeature(f) \/ DocumentFeature(f))
  BY FeatureSetAssumption DEF FeatureSetAssumption
<1>2. f.kind \in DOMAIN FamiliesOf
  BY <1>1 DEF FamiliesOf, FigureFeature, HistoryFeature, DocumentFeature
<1>3. /\ f.kind = "volatility" => f.years \in Nat /\ f.years >= 2
      /\ f.kind = "filing" => f.metric \in FilingMetrics
  BY <1>1 DEF FigureFeature, HistoryFeature, DocumentFeature
<1>4. \A kind \in DOMAIN FamiliesOf :
        /\ FamiliesOf[kind] \cap {"financial", "construction", "tripwire"} # {} => kind \in FigureKinds
        /\ "filing" \in FamiliesOf[kind] => kind = "filing"
        /\ "audit" \in FamiliesOf[kind] => kind \in {"audit_flag", "audit_years", "audit_age"}
  BY DEF FamiliesOf, FigureKinds
<1> QED
  BY <1>1, <1>2, <1>3, <1>4

\* A value of figures is known by the latest of them.
LEMMA PanelValueBy ==
  ASSUME NEW f \in FeatureSet, f.kind \in FigureKinds, NEW day \in Nat,
         NEW snap, \A v \in snap : v.known \in 0..day
  PROVE  KnownBy(PanelValue(f, snap), day)
<1>1. ASSUME NEW v \in snap, f.kind = "ratio"
      PROVE  KnownBy(UNION {Hit(r, v.known) : r \in RatioOf(f, v)}, day)
  BY DEF KnownBy, Hit
<1>2. ASSUME NEW v \in snap
      PROVE  KnownBy(Growth(f, snap, v), day)
  <2>1. Back(snap, v, f.years) \subseteq snap
    BY DEF Back
  <2>2. ASSUME NEW base \in Back(snap, v, f.years)
        PROVE  Max({v.known, base.known}) \in 0..day
    BY <2>1, MaxBy
  <2>3. \A h \in Growth(f, snap, v) :
          \E base \in Back(snap, v, f.years) : h.known = Max({v.known, base.known})
    BY DEF Growth, Hit, Null
  <2> QED
    BY <2>2, <2>3 DEF KnownBy
<1>3. ASSUME NEW v \in snap, f.kind = "volatility"
      PROVE  KnownBy(Volatility(f, snap, v), day)
  <2>1. ASSUME NEW c \in Chains(snap, v, f.years)
        PROVE  Max({c[i].known : i \in DOMAIN c}) \in 0..day
    <3>1. c \in [1..f.years -> snap] /\ 1 \in 1..f.years
      BY <1>3, KindOf DEF Chains
    <3>2. {c[i].known : i \in DOMAIN c} \in SUBSET (0..day) /\ {c[i].known : i \in DOMAIN c} # {}
      BY <3>1
    <3> QED
      BY <3>2, MaxBy
  <2>2. \A c, ratios : \A h \in Spread(c, ratios) : h.known = Max({c[i].known : i \in DOMAIN c})
    BY DEF Spread, Hit, Null
  <2> SUFFICES ASSUME NEW h \in Volatility(f, snap, v) PROVE h.known \in 0..day
    BY DEF KnownBy
  <2>3. PICK c \in Chains(snap, v, f.years) : \E ratios : h \in Spread(c, ratios)
    BY DEF Volatility
  <2>4. h.known = Max({c[i].known : i \in DOMAIN c})
    BY <2>2, <2>3
  <2> QED
    BY <2>1, <2>4
<1>4. ASSUME NEW v \in snap
      PROVE  KnownBy(Tripwire(f, v), day)
  <2>1. Tripwire(f, v) = Null \/ \E x : Tripwire(f, v) = Hit(x, v.known)
    BY Zenon DEF Tripwire
  <2> QED
    BY <2>1, HitBy, NullBy
<1>5. ASSUME NEW v \in snap, NEW x
      PROVE  KnownBy(IF Carries(v, {f.input}) THEN Hit(x, v.known) ELSE Null, day)
  BY HitBy, NullBy
<1>6. LatestPeriod(snap) \subseteq snap
  BY DEF LatestPeriod
<1> SUFFICES ASSUME NEW h \in PanelValue(f, snap) PROVE h.known \in 0..day
  BY DEF KnownBy
<1>7. CASE f.kind = "ratio"
  BY <1>1, <1>6, <1>7 DEF PanelValue, KnownBy
<1>8. CASE f.kind = "growth"
  BY <1>2, <1>6, <1>8 DEF PanelValue, KnownBy
<1>9. CASE f.kind = "volatility"
  BY <1>3, <1>6, <1>9 DEF PanelValue, KnownBy
<1>10. CASE f.kind = "tripwire"
  BY <1>4, <1>6, <1>10 DEF PanelValue, KnownBy
<1>11. CASE f.kind = "below_zero"
  <2>1. PICK v \in snap :
          h \in IF Carries(v, {f.input}) THEN Hit(Flag(v.values[f.input] < 0), v.known) ELSE Null
    BY <1>6, <1>11 DEF PanelValue
  <2> QED
    BY <1>5, <2>1 DEF KnownBy
<1> QED
  BY <1>7, <1>8, <1>9, <1>10, <1>11 DEF FigureKinds

\* The values of a function on a finite set are finitely many.
LEMMA FiniteImage ==
  ASSUME NEW S, IsFiniteSet(S), NEW T, NEW F \in [S -> T], \A t \in T : \E s \in S : F[s] = t
  PROVE  IsFiniteSet(T)
<1>1. F \in Surjection(S, T)
  BY DEF Surjection
<1> QED
  BY <1>1, FS_Surjection

\* The filings known on a day: finitely many, each known by then.
LEMMA FilingsBy ==
  ASSUME NEW idx, IndexTyped(idx), NEW day \in Nat, NEW status, NEW canonical, NEW krs
  PROVE  LET filings == Known(StatementFilings(idx, status, canonical), krs, day)
         IN  /\ IsFiniteSet(filings)
             /\ \A x \in filings : x.known \in 0..day /\ x.end \in Int
<1> DEFINE D == DatedStatements(idx)
           Entry(k) == [row |-> FilingOf(k, Parts(idx, k), status, canonical),
                        deleted |-> DeletedAll(Parts(idx, k))]
           Of_(r) == FilingOf(FilingKey(r), Parts(idx, FilingKey(r)), status, canonical)
           T == {Of_(r) : r \in D}
           filings == Known(StatementFilings(idx, status, canonical), krs, day)
<1>1. \A k : Entry(k).row = FilingOf(k, Parts(idx, k), status, canonical)
  OBVIOUS
<1>2. StatementFilings(idx, status, canonical) = {Entry(k) : k \in {FilingKey(r) : r \in D}}
  BY DEF StatementFilings
<1> HIDE DEF Entry
<1>3. \A x \in filings : x \in T /\ x.known <= day
  BY <1>1, <1>2 DEF Known, KnownOnDay
<1>4. \A r \in D : Of_(r).known = r.submitted /\ Of_(r).end = r.end
  BY DEF FilingOf, FilingKey
<1>5. \A r \in D : r.submitted \in Nat /\ r.end \in Int
  BY DEF DatedStatements, IndexTyped
<1>6. IsFiniteSet(T)
  <2>1. IsFiniteSet(D)
    BY FS_Subset DEF DatedStatements, IndexTyped
  <2> HIDE DEF Of_, D
  <2> DEFINE F == [r \in D |-> Of_(r)]
  <2>2. F \in [D -> T] /\ \A t \in T : \E r \in D : F[r] = t
    OBVIOUS
  <2> HIDE DEF F, T
  <2> QED
    BY <2>1, <2>2, FiniteImage
<1>7. IsFiniteSet(filings)
  <2>1. filings \subseteq T
    BY <1>3
  <2> HIDE DEF filings, T
  <2> QED
    BY <1>6, <2>1, FS_Subset
<1>8. \A x \in filings : x.known \in 0..day /\ x.end \in Int
  <2> SUFFICES ASSUME NEW x \in filings PROVE x.known \in 0..day /\ x.end \in Int
    OBVIOUS
  <2>1. x \in T /\ x.known <= day
    BY <1>3
  <2>2. PICK r \in D : x = Of_(r)
    BY <2>1
  <2> HIDE DEF Of_, D, filings
  <2> QED
    BY <1>4, <1>5, <2>1, <2>2
<1> QED
  BY <1>7, <1>8

\* Of finitely many filings one is the latest.
LEMMA LatestFiling ==
  ASSUME NEW known, IsFiniteSet(known), known # {}, \A x \in known : x.known \in Nat /\ x.end \in Int
  PROVE  \E x \in known : \A y \in known :
           \/ x.end > y.end
           \/ x.end = y.end /\ x.known > y.known
           \/ <<x.end, x.known>> = <<y.end, y.known>> /\ (y.correction => x.correction)
<1> DEFINE Newer(x, y) ==
             \/ x.end > y.end
             \/ x.end = y.end /\ x.known > y.known
             \/ <<x.end, x.known>> = <<y.end, y.known>> /\ (y.correction => x.correction)
           R == {p \in known \X known : ~Newer(p[1], p[2])}
<1>1. \A x, y \in known : <<x, y>> \in R <=> ~Newer(x, y)
  BY Zenon
<1>2. \A x \in known : Newer(x, x)
  OBVIOUS
<1>3. \A x, y, z \in known : ~Newer(x, y) /\ ~Newer(y, z) => ~Newer(x, z)
  OBVIOUS
<1> HIDE DEF Newer, R
<1>4. /\ \A x \in known : <<x, x>> \notin R
      /\ \A x, y, z \in known : <<x, y>> \in R /\ <<y, z>> \in R => <<x, z>> \in R
  BY <1>1, <1>2, <1>3
<1>5. \E x \in known : \A y \in known : <<x, y>> \notin R
  BY <1>4, HasTop
<1>6. \E x \in known : \A y \in known : Newer(x, y)
  BY <1>1, <1>5
<1> QED
  BY <1>6 DEF Newer

\* Of restatements of finitely many filings some are of the latest.
LEMMA LatestRestatement ==
  ASSUME NEW day \in Nat, NEW restating, restating # {}, IsFiniteSet({r.ref : r \in restating}),
         \A r \in restating : r.known \in 0..day /\ r.ref \in Nat
  PROVE  \E r \in restating : \A s \in restating :
           \/ r.known > s.known
           \/ r.known = s.known /\ r.ref >= s.ref
<1> DEFINE K == {r.known : r \in restating}
           last == {r \in restating : r.known = Max(K)}
           refs == {r.ref : r \in last}
<1>1. K \in SUBSET Nat /\ K # {} /\ \A x \in K : x <= day
  OBVIOUS
<1>2. Max(K) \in K /\ Max(K) \in Nat /\ \A x \in K : x <= Max(K)
  BY <1>1, MaxOfDays
<1>3. \A s \in restating : s \in last \/ s.known < Max(K)
  <2>1. \A s \in restating : s.known \in Nat /\ s.known <= Max(K)
    BY <1>2
  <2>2. \A s \in restating : s.known = Max(K) => s \in last
    OBVIOUS
  <2> HIDE DEF K, last
  <2> QED
    BY <1>2, <2>1, <2>2
<1>4. refs \in SUBSET Int /\ refs # {}
  <2>1. PICK s \in restating : s.known = Max(K)
    BY <1>2
  <2>2. s.ref \in refs
    BY <2>1
  <2>3. \A r \in refs : r \in Int
    <3>1. \A r \in last : r.ref \in Int
      OBVIOUS
    <3> HIDE DEF last
    <3> QED
      BY <3>1
  <2> HIDE DEF refs
  <2> QED
    BY <2>2, <2>3
<1>5. IsFiniteSet(refs)
  <2>1. refs \subseteq {r.ref : r \in restating}
    OBVIOUS
  <2> HIDE DEF refs
  <2> QED
    BY <2>1, FS_Subset
<1>6. Max(refs) \in refs /\ Max(refs) \in Int /\ \A x \in refs : x <= Max(refs)
  <2> HIDE DEF refs
  <2> QED
    BY <1>4, <1>5, MaxOfFinite
<1>7. PICK r \in last : r.ref = Max(refs)
  BY <1>6
<1>8. \A s \in last : s.known = Max(K) /\ s.ref <= Max(refs)
  BY <1>6
<1>9. r \in restating /\ r.known = Max(K)
  OBVIOUS
<1> HIDE DEF K, last, refs
<1> QED
  BY <1>2, <1>3, <1>6, <1>7, <1>8, <1>9

\* The restatement ratio is known by its restatement and its assets.
LEMMA RestatementToAssetsBy ==
  ASSUME NEW day \in Nat, NEW restating, IsFiniteSet({r.ref : r \in restating}),
         \A r \in restating : r.known \in 0..day /\ r.ref \in Nat,
         NEW snap, \A v \in snap : v.known \in 0..day, NEW evidence \in 0..day
  PROVE  KnownBy(RestatementToAssets(restating, snap, evidence), day)
<1> DEFINE last == {r \in restating : \A s \in restating :
                      \/ r.known > s.known
                      \/ r.known = s.known /\ r.ref >= s.ref}
           latest == CHOOSE r \in last : TRUE
<1>1. \A h \in RestatementToAssets(restating, snap, evidence) :
        \/ restating = {} /\ h.known = evidence
        \/ restating # {} /\ \E v \in snap : h.known = Max({latest.known, v.known})
  <2> DEFINE largest == Max({Magnitude(r.difference) : r \in {s \in restating : s.ref = latest.ref}})
             restated == {v \in snap : /\ v.end = latest.period_end
                                       /\ "total_assets" \in DOMAIN v.values
                                       /\ v.values["total_assets"] > 0}
  <2>1. RestatementToAssets(restating, snap, evidence) =
          IF restating = {} THEN Hit(<<0, 1>>, evidence)
          ELSE UNION {Hit(<<largest, v.values["total_assets"]>>, Max({latest.known, v.known})) : v \in restated}
    BY DEF RestatementToAssets
  <2>2. \A x, k : \A h \in Hit(x, k) : h.known = k
    BY DEF Hit
  <2>3. restated \subseteq snap
    OBVIOUS
  <2> HIDE DEF largest, restated, latest
  <2>4. CASE restating = {}
    BY <2>1, <2>2, <2>4
  <2>5. CASE restating # {}
    <3> SUFFICES ASSUME NEW h \in RestatementToAssets(restating, snap, evidence)
                 PROVE  \E v \in snap : h.known = Max({latest.known, v.known})
      BY <2>5
    <3>1. PICK v \in restated :
            h \in Hit(<<largest, v.values["total_assets"]>>, Max({latest.known, v.known}))
      BY <2>1, <2>5
    <3> QED
      BY <2>2, <2>3, <3>1
  <2> QED
    BY <2>4, <2>5
<1>2. restating # {} => latest \in restating
  BY LatestRestatement
<1> HIDE DEF latest
<1>3. ASSUME restating # {}, NEW v \in snap
      PROVE  Max({latest.known, v.known}) \in 0..day
  BY <1>2, <1>3, MaxBy
<1> QED
  BY <1>1, <1>3 DEF KnownBy

\* A filing feature is known by the filings it is of.
LEMMA FilingValueBy ==
  ASSUME NEW f, f.metric \in FilingMetrics, NEW day \in Nat,
         NEW known, IsFiniteSet(known), \A x \in known : x.known \in 0..day /\ x.end \in Int,
         NEW restating, IsFiniteSet({r.ref : r \in restating}),
         \A r \in restating : r.known \in 0..day /\ r.ref \in Nat,
         NEW snap, \A v \in snap : v.known \in 0..day
  PROVE  KnownBy(FilingValue(f, known, restating, snap, day), day)
<1> DEFINE evidence == Max({x.known : x \in known})
           end == Max({x.end : x \in known})
           ofEnd == {x.known : x \in {y \in known : y.end = end}}
           Newer(x, y) ==
             \/ x.end > y.end
             \/ x.end = y.end /\ x.known > y.known
             \/ <<x.end, x.known>> = <<y.end, y.known>> /\ (y.correction => x.correction)
           latest == CHOOSE x \in known : \A y \in known : Newer(x, y)
<1>1. CASE known = {}
  BY <1>1, NullBy DEF FilingValue
<1>2. CASE known # {}
  <2>1. evidence \in 0..day
    <3>1. {x.known : x \in known} \in SUBSET (0..day) /\ {x.known : x \in known} # {}
      BY <1>2
    <3> QED
      BY <3>1, MaxBy
  <2>2. end \in {x.end : x \in known}
    <3> DEFINE ends == {x.end : x \in known}
    <3>1. ends \in SUBSET Int /\ ends # {}
      BY <1>2
    <3>2. IsFiniteSet(ends)
      <4> DEFINE F == [x \in known |-> x.end]
      <4>1. F \in [known -> ends] /\ \A t \in ends : \E x \in known : F[x] = t
        OBVIOUS
      <4> HIDE DEF F, ends
      <4> QED
        BY <4>1, FiniteImage
    <3> HIDE DEF ends
    <3>3. Max(ends) \in ends
      BY <3>1, <3>2, MaxOfFinite
    <3> QED
      BY <3>3 DEF ends
  <2>3. Min(ofEnd) \in 0..day
    <3>1. ofEnd \in SUBSET (0..day) /\ ofEnd # {}
      BY <2>2
    <3> HIDE DEF ofEnd
    <3> QED
      BY <3>1, MinBy
  <2>4. latest \in known /\ latest.known \in 0..day
    <3>1. \E x \in known : \A y \in known : Newer(x, y)
      BY <1>2, LatestFiling
    <3> HIDE DEF Newer
    <3> QED
      BY <3>1
  <2>5. KnownBy(RestatementToAssets(restating, snap, evidence), day)
    BY <2>1, RestatementToAssetsBy
  <2>6. \/ \E value : FilingValue(f, known, restating, snap, day) = Hit(value, evidence)
        \/ \E value : FilingValue(f, known, restating, snap, day) = Hit(value, Min(ofEnd))
        \/ \E value : FilingValue(f, known, restating, snap, day) = Hit(value, latest.known)
        \/ FilingValue(f, known, restating, snap, day) = RestatementToAssets(restating, snap, evidence)
    BY <1>2, Zenon DEF FilingValue, FilingMetrics
  <2> HIDE DEF evidence, end, ofEnd, latest
  <2> QED
    BY <2>1, <2>3, <2>4, <2>5, <2>6, HitBy
<1> QED
  BY <1>1, <1>2

\* An event feature is known by the events it counts.
LEMMA EventValueBy ==
  ASSUME NEW f, NEW events, \A e \in events : e.known \in Nat, NEW day \in Nat
  PROVE  KnownBy(EventValue(f, events, day), day)
<1> DEFINE seen == SeenBy(events, day)
           counted == CountedBy(f, events, day)
           days == {Min(SeenOn(events, k)) : k \in counted}
<1>1. seen \in SUBSET (0..day)
  BY DEF SeenBy
<1>2. ASSUME NEW k \in counted
      PROVE  Min(SeenOn(events, k)) \in 0..day
  <2>1. SeenOn(events, k) \in SUBSET Nat /\ SeenOn(events, k) # {}
    BY DEF SeenOn, CountedBy
  <2>2. Min(SeenOn(events, k)) \in Nat
    BY <2>1, MinOfDays
  <2>3. Min(SeenOn(events, k)) <= day
    BY DEF CountedBy
  <2> QED
    BY <2>2, <2>3
<1>3. days \in SUBSET (0..day) /\ (counted # {} => days # {})
  BY <1>2
<1>4. seen # {} => Max(seen) \in 0..day
  BY <1>1, MaxBy
<1>5. counted # {} => Max(days) \in 0..day
  BY <1>3, MaxBy
<1>6. EventValue(f, events, day) =
        IF seen = {} THEN Null
        ELSE Hit(<<Cardinality(counted)>>, IF counted = {} THEN Max(seen) ELSE Max(days))
  BY EventValueIs
<1> HIDE DEF seen, counted, days
<1> QED
  BY <1>4, <1>5, <1>6, HitBy, NullBy

\* The audit years are known by their rows.
LEMMA YearsBy ==
  ASSUME NEW day \in Nat, NEW seen, \A r \in seen : r.known \in 0..day, NEW flagged \in SUBSET seen
  PROVE  KnownBy(Years(seen, flagged), day)
<1> DEFINE dated == IF flagged # {} THEN flagged ELSE seen
           S == {r.known : r \in dated}
<1>1. CASE seen = {}
  BY <1>1, NullBy DEF Years
<1>2. CASE seen # {}
  <2>1. S \in SUBSET (0..day) /\ S # {}
    BY <1>2
  <2>2. Years(seen, flagged) = Hit(<<Cardinality(flagged)>>, Max(S))
    BY <1>2 DEF Years
  <2> HIDE DEF S
  <2> QED
    BY <2>1, <2>2, MaxBy, HitBy
<1> QED
  BY <1>1, <1>2

\* The families read from one row per file are dated by rows they read.
LEMMA FileValuesBy ==
  ASSUME NEW f, NEW day \in Nat, NEW rows, \A r \in rows : r.known \in 0..day
  PROVE  /\ KnownBy(DisclosureValue(f, rows), day)
         /\ KnownBy(TextValue(f, rows), day)
         /\ f.kind \in {"audit_flag", "audit_years", "audit_age"} => KnownBy(AuditValue(f, rows, day), day)
         /\ KnownBy(SizeValue(rows), day)
<1>1. \A S : LatestByPeriod(S) \subseteq S /\ Latest(S) \subseteq S
  BY DEF LatestByPeriod, Latest
<1>2. KnownBy(DisclosureValue(f, rows), day)
  BY DEF KnownBy, DisclosureValue, Hit
<1>3. KnownBy(TextValue(f, rows), day)
  <2> DEFINE about == {r \in rows : r.document = f.document /\ r.signal = f.signal}
             seen == LatestByPeriod({r \in about : r.present > 0 \/ r.status \in {"read", "partial"}})
             flagged == {r \in seen : r.present > 0}
             value(r) == IF r.present > 0 THEN Hit(<<1>>, r.known)
                         ELSE IF r.status = "read" THEN Hit(<<0>>, r.known) ELSE Null
  <2>1. \A r \in about : r.known \in 0..day
    OBVIOUS
  <2>2. seen \subseteq about
    BY <1>1
  <2>3. KnownBy(Years(seen, flagged), day)
    <3>1. (\A r \in seen : r.known \in 0..day) /\ flagged \in SUBSET seen
      BY <2>1, <2>2
    <3> HIDE DEF seen, flagged
    <3> QED
      BY <3>1, YearsBy
  <2>4. KnownBy(UNION {value(r) : r \in Latest(about)}, day)
    <3>1. \A r \in Latest(about) : r.known \in 0..day
      BY <1>1, <2>1
    <3>2. \A r : \A h \in value(r) : h.known = r.known
      BY DEF Hit, Null
    <3> HIDE DEF value, about
    <3> QED
      BY <3>1, <3>2 DEF KnownBy
  <2>5. TextValue(f, rows) = IF f.kind = "text_flag" THEN UNION {value(r) : r \in Latest(about)}
                             ELSE Years(seen, flagged)
    BY DEF TextValue
  <2> HIDE DEF value, about, seen, flagged
  <2> QED
    BY <2>3, <2>4, <2>5
<1>4. ASSUME f.kind \in {"audit_flag", "audit_years", "audit_age"}
      PROVE  KnownBy(AuditValue(f, rows, day), day)
  <2> DEFINE seen == LatestByPeriod({r \in rows : f.item \in DOMAIN r.facts})
             flagged == {r \in seen : r.facts[f.item]}
  <2>1. KnownBy(Years(seen, flagged), day)
    <3>1. (\A r \in seen : r.known \in 0..day) /\ flagged \in SUBSET seen
      BY <1>1
    <3> HIDE DEF seen, flagged
    <3> QED
      BY <3>1, YearsBy
  <2>2. KnownBy(UNION {Hit(<<day - r.end>>, r.known) : r \in Latest(rows)}, day)
    BY <1>1 DEF KnownBy, Hit
  <2>3. KnownBy(UNION {IF f.item \in DOMAIN r.facts THEN Hit(Flag(r.facts[f.item]), r.known)
                       ELSE Null : r \in Latest(rows)}, day)
    BY <1>1 DEF KnownBy, Hit, Null
  <2>4. CASE f.kind = "audit_age"
    BY <2>2, <2>4 DEF AuditValue
  <2>5. CASE f.kind = "audit_flag"
    BY <2>3, <2>5 DEF AuditValue
  <2>6. CASE f.kind = "audit_years"
    BY <2>1, <2>6 DEF AuditValue
  <2> QED
    BY <1>4, <2>4, <2>5, <2>6
<1>5. KnownBy(SizeValue(rows), day)
  BY <1>1 DEF KnownBy, SizeValue, Hit, Null
<1> QED
  BY <1>2, <1>3, <1>4, <1>5

\* A restatement is of a canonical file, from the day that file is known.
LEMMA RestatingBy ==
  ASSUME NEW idx, IndexTyped(idx), NEW canonical, Filed(canonical, idx), NEW day \in Nat, NEW krs
  PROVE  LET restating == {r \in Of(RestatementEvents(canonical), krs) : r.known <= day}
         IN  /\ IsFiniteSet({r.ref : r \in restating})
             /\ \A r \in restating : r.known \in 0..day /\ r.ref \in Nat
<1> DEFINE restating == {r \in Of(RestatementEvents(canonical), krs) : r.known <= day}
           refs == {r.ref : r \in restating}
           all == {r.ref : r \in idx}
<1>1. \A files, d : \A r \in RestatementsOf(files, d) : r.ref = d.ref /\ r.known = d.known
  BY DEF RestatementsOf
<1>2. \A r \in restating : r.known <= day /\ \E d \in canonical : r.ref = d.ref /\ r.known = d.known
  <2> SUFFICES ASSUME NEW r \in restating
               PROVE  r.known <= day /\ \E d \in canonical : r.ref = d.ref /\ r.known = d.known
    OBVIOUS
  <2>1. r \in RestatementEvents(canonical) /\ r.known <= day
    BY DEF Of
  <2>2. PICK d \in canonical : \E files : r \in RestatementsOf(files, d)
    BY <2>1 DEF RestatementEvents
  <2> QED
    BY <1>1, <2>1, <2>2
<1>3. \A d \in canonical : d.known \in Nat /\ d.ref \in all /\ d.ref \in Nat
  BY DEF Filed, FiledAs, IndexTyped
<1>4. \A r \in restating : r.known \in 0..day /\ r.ref \in Nat
  BY <1>2, <1>3
<1>5. IsFiniteSet(all)
  <2> DEFINE F == [r \in idx |-> r.ref]
  <2>1. F \in [idx -> all] /\ \A t \in all : \E r \in idx : F[r] = t
    OBVIOUS
  <2>2. IsFiniteSet(idx)
    BY DEF IndexTyped
  <2> HIDE DEF F, all
  <2> QED
    BY <2>1, <2>2, FiniteImage
<1>6. refs \subseteq all
  BY <1>2, <1>3
<1>7. IsFiniteSet(refs)
  <2> HIDE DEF refs, all
  <2> QED
    BY <1>5, <1>6, FS_Subset
<1> QED
  BY <1>4, <1>7

\* Every feature of a day is known by it.
LEMMA FeatureKnownBy ==
  ASSUME NEW src, WellDated(src), NEW day \in Nat, NEW f \in FeatureSet, NEW krs
  PROVE  KnownBy(FeatureValue(f, FeatureInputs(src), krs, day), day)
<1> DEFINE i == FeatureInputs(src)
           snap == Snapshot(Of(i.panel, krs), day)
           filings == Known(i.filings, krs, day)
           restating == {r \in Of(i.restatements, krs) : r.known <= day}
<1>0. /\ IndexTyped(src.index) /\ Filed(src.canonical, src.index) /\ EventsTyped(src.events)
      /\ src.restatements = RestatementEvents(src.canonical)
  BY DEF WellDated
<1>1. \A v \in snap : v.known \in 0..day
  <2>1. \A v \in i.panel : v.known \in Nat
    BY <1>0, PanelDays DEF FeatureInputs
  <2> HIDE DEF i
  <2> QED
    BY <2>1 DEF Snapshot, Of
<1>2. IsFiniteSet(filings) /\ \A x \in filings : x.known \in 0..day /\ x.end \in Int
  BY <1>0, FilingsBy DEF FeatureInputs
<1>3. IsFiniteSet({r.ref : r \in restating}) /\ \A r \in restating : r.known \in 0..day /\ r.ref \in Nat
  BY <1>0, RestatingBy DEF FeatureInputs
<1>4. \A e \in Of(i.events, krs) : e.known \in Nat
  BY <1>0 DEF FeatureInputs, Of, EventsTyped
<1>5. ASSUME NEW rows, \A r \in rows : r.known \in Nat
      PROVE  \A r \in Known(WithDeletion(rows, src.index), krs, day) : r.known \in 0..day
  BY <1>5 DEF Known, KnownOnDay, WithDeletion
<1>6. /\ \A r \in Known(i.disclosures, krs, day) : r.known \in 0..day
      /\ \A r \in Known(i.text, krs, day) : r.known \in 0..day
      /\ \A r \in Known(i.audit, krs, day) : r.known \in 0..day
      /\ \A r \in Known(i.size, krs, day) : r.known \in 0..day
  <2>1. /\ \A r \in src.disclosures : r.known \in Nat
        /\ \A r \in src.text \cup src.audit : r.known \in Nat
    BY DEF WellDated, Filed, NeverBefore
  <2>2. \A r \in SizeClassHistory(src.canonical, src.disclosures, src.events) : r.known \in Nat
    BY <1>0, HistoryNeverBefore DEF NeverBefore
  <2> QED
    BY <1>5, <2>1, <2>2 DEF FeatureInputs
<1> HIDE DEF i, snap, filings, restating
<1>7. f.family \in Families
  BY FamilyOf
<1>8. CASE f.family \in {"financial", "construction", "tripwire"}
  <2>1. KnownBy(PanelValue(f, snap), day)
    BY <1>1, <1>8, KindOf, PanelValueBy
  <2> QED
    BY <1>8, <2>1 DEF FeatureValue, i, snap
<1>9. CASE f.family = "filing"
  <2>1. f.metric \in FilingMetrics
    BY <1>9, KindOf
  <2>2. KnownBy(FilingValue(f, filings, restating, snap, day), day)
    BY <1>1, <1>2, <1>3, <2>1, FilingValueBy
  <2> QED
    BY <1>9, <2>2 DEF FeatureValue, i, snap, filings, restating
<1>10. CASE f.family \in {"registry", "legal_history"}
  <2>1. KnownBy(EventValue(f, Of(i.events, krs), day), day)
    BY <1>4, EventValueBy
  <2> QED
    BY <1>10, <2>1 DEF FeatureValue, i
<1>11. CASE f.family \in {"disclosure", "text", "size"}
  BY <1>6, <1>11, FileValuesBy DEF FeatureValue, i
<1>12. CASE f.family = "audit"
  <2>1. f.kind \in {"audit_flag", "audit_years", "audit_age"}
    BY <1>12, KindOf
  <2>2. KnownBy(AuditValue(f, Known(i.audit, krs, day), day), day)
    BY <1>6, <2>1, FileValuesBy
  <2> QED
    BY <1>12, <2>2 DEF FeatureValue, i
<1> QED
  BY <1>7, <1>8, <1>9, <1>10, <1>11, <1>12 DEF Families, i

\* Sources dated this way leak nothing, on any grid of days.
LEMMA WellDatedNeverLeaks ==
  ASSUME NEW store, WellDated(SourcesOf(store))
  PROVE  ~StoreLeaks(store)
<1> DEFINE src == SourcesOf(store)
           values == FeatureValues(Grid, FeatureInputs(src))
<1>1. \A v \in values : v.day \in Nat /\ v.known \in 0..v.day
  <2> SUFFICES ASSUME NEW v \in values PROVE v.day \in Nat /\ v.known \in 0..v.day
    OBVIOUS
  <2>1. PICK g \in Grid, f \in FeatureSet :
          \E h \in FeatureValue(f, FeatureInputs(src), g[1], g[2]) : v.known = h.known /\ v.day = g[2]
    BY DEF FeatureValues
  <2>2. g[2] \in Nat
    BY RowsAssumption DEF Grid, RowsAssumption
  <2>3. KnownBy(FeatureValue(f, FeatureInputs(src), g[1], g[2]), g[2])
    BY <2>2, FeatureKnownBy
  <2> QED
    BY <2>1, <2>2, <2>3 DEF KnownBy
<1>2. KnownAfter(values) = {}
  BY <1>1 DEF KnownAfter
<1>3. Differences(src, values) = {}
  BY NoDifferences
<1> HIDE DEF src, values
<1> QED
  BY <1>2, <1>3 DEF StoreLeaks, src, values

----------------------------------------------------------------------------
(* The facts the runs wrote.  A canonical fact carries the run that first parsed its file,
   read back from parsed_documents, which every run rewrites; facts reproduce because the
   first run of a key, once recorded, is never another, and the rows a run reads it for are
   recorded by then. *)

\* The first run recorded of a key, and the keys recorded.
First(k) == (CHOOSE p \in parsed : p.key = k).first
Recorded == {p.key : p \in parsed}
KeysOf(rows, c) == {r.key : r \in ParseRows(rows, c)}

\* What mapping and grading the filings of `rows` give with the first runs recorded.
MappedNow(rows, c) == MappedFiles(rows, c, [k \in KeysOf(rows, c) |-> First(k)])
GradedNow(rows, c) == GradedFiles(MappedNow(rows, c), c)

\* Rows of one key agree on its first run.
OneFirst == \A p, q \in parsed : p.key = q.key => p.first = q.first

\* Between runs nothing is half done, and the files in memory are those of the run's sources.
DraftIsCurrent ==
  /\ Idle => step = "start"
  /\ step \in {"grade", "canonical"} => KeysOf(Standing, config) \subseteq Recorded
  /\ step = "grade" => draft = MappedNow(Standing, config)
  /\ step = "canonical" => draft = GradedNow(Standing, config)

\* What was ever written is what its sources would give now.
ProducedStands ==
  \A p \in produced : /\ KeysOf(p.sources, p.config) \subseteq Recorded
                      /\ p.facts = GradedNow(p.sources, p.config)

IInv ==
  /\ DOMAIN warehouse = Datasets
  /\ OneFirst /\ DraftIsCurrent /\ ProducedStands /\ RestatementsCurrent


\* A step that leaves parsed_documents alone leaves what anything maps to alone.
LEMMA SameParsed ==
  ASSUME parsed' = parsed
  PROVE  /\ Recorded' = Recorded
         /\ \A k : First(k)' = First(k)
         /\ \A rows, c : MappedNow(rows, c)' = MappedNow(rows, c)
         /\ \A rows, c : GradedNow(rows, c)' = GradedNow(rows, c)
BY DEF Recorded, First, MappedNow, GradedNow

\* An upsert records the rows it is given, and keeps the first run of every key.
LEMMA UpsertKeepsFirst ==
  ASSUME OneFirst, NEW rows, NEW run, parsed' = Upserted(rows, run)
  PROVE  /\ OneFirst'
         /\ Recorded' = Recorded \cup {r.key : r \in rows}
         /\ \A k \in Recorded : First(k)' = First(k)
<1> DEFINE Before(r) == {p \in parsed : p.key = r.key}
           first(r) == IF Before(r) = {} THEN run ELSE (CHOOSE p \in Before(r) : TRUE).first
           new(r) == [key |-> r.key, krs |-> r.krs, ref |-> r.ref, status |-> r.status,
                      first |-> first(r), last |-> run]
<1>1. parsed' = {p \in parsed : \A r \in rows : r.key # p.key} \cup {new(r) : r \in rows}
  BY DEF Upserted
<1>2. \A r : new(r).key = r.key /\ new(r).first = first(r)
  OBVIOUS
<1>3. \A r : \A p \in parsed : p.key = r.key => first(r) = p.first
  BY DEF OneFirst
<1>4. \A r, s : r.key = s.key => first(r) = first(s)
  OBVIOUS
<1> HIDE DEF first, new
<1>5. \A p \in parsed' : \/ p \in parsed /\ \A r \in rows : r.key # p.key
                         \/ \E r \in rows : p.key = r.key /\ p.first = first(r)
  BY <1>1, <1>2
<1>6. OneFirst'
  <2> SUFFICES ASSUME NEW p \in parsed', NEW q \in parsed', p.key = q.key
               PROVE  p.first = q.first
    BY DEF OneFirst
  <2> QED
    BY <1>4, <1>5 DEF OneFirst
<1>7. Recorded' = Recorded \cup {r.key : r \in rows}
  BY <1>1, <1>2 DEF Recorded
<1>8. \A k \in Recorded : First(k)' = First(k)
  <2> SUFFICES ASSUME NEW k \in Recorded PROVE First(k)' = First(k)
    OBVIOUS
  <2>1. PICK p \in parsed : p.key = k /\ First(k) = p.first
    BY DEF Recorded, First
  <2>2. PICK q \in parsed' : q.key = k /\ First(k)' = q.first
    BY <1>7 DEF Recorded, First
  <2> QED
    BY <1>3, <1>5, <2>1, <2>2 DEF OneFirst
<1> QED
  BY <1>6, <1>7, <1>8

\* With the first runs of a set of rows recorded, an upsert changes nothing they map to.
LEMMA UpsertKeepsFacts ==
  ASSUME \A k \in Recorded : First(k)' = First(k),
         NEW rows, NEW c, KeysOf(rows, c) \subseteq Recorded
  PROVE  MappedNow(rows, c)' = MappedNow(rows, c) /\ GradedNow(rows, c)' = GradedNow(rows, c)
<1>1. [k \in KeysOf(rows, c) |-> First(k)'] = [k \in KeysOf(rows, c) |-> First(k)]
  OBVIOUS
<1> QED
  BY <1>1 DEF MappedNow, GradedNow, KeysOf

\* A store is built of the facts and the restatements stored; other steps keep it or lose it.
LEMMA NextRestatements ==
  ASSUME IInv, [Next]_vars
  PROVE  DOMAIN warehouse' = Datasets /\ RestatementsCurrent'
<1>0. DOMAIN warehouse = Datasets /\ RestatementsCurrent /\ "features" \in Datasets
  BY DEF IInv, Datasets
<1>1. ASSUME NEW d, NEW content, d # "features",
             \/ Replaced(d, content)
             \/ warehouse' = [warehouse EXCEPT ![d] = {}]
      PROVE  DOMAIN warehouse' = Datasets /\ RestatementsCurrent'
  BY <1>0, <1>1 DEF Replaced, RestatementsCurrent
<1>2. CASE BuildFeatures
  <2> DEFINE store == [canonical |-> ContentOf("canonical"), restatements |-> ContentOf("restatements"),
                       disclosures |-> ContentOf("disclosures"), index |-> index,
                       status |-> {[krs |-> p.krs, ref |-> p.ref, status |-> p.status] : p \in parsed}]
  <2>1. /\ warehouse' = [warehouse EXCEPT !["features"] = {store}]
        /\ ContentOf("restatements") = Restated(ContentOf("canonical"))
    BY <1>2 DEF BuildFeatures, Derive, Buildable, Stale, Replaced
  <2>2. store.restatements = Restated(store.canonical)
    BY <2>1
  <2> HIDE DEF store
  <2> QED
    BY <1>0, <2>1, <2>2 DEF RestatementsCurrent
<1>3. CASE WriteCanonical \/ WriteChecks \/ WriteDisclosures \/ BuildRestatements \/ BuildSizeClasses
  BY <1>1, <1>3 DEF WriteCanonical, WriteChecks, WriteDisclosures, BuildRestatements,
                    BuildSizeClasses, Derive
<1>4. CASE CrashInReplacement
  <2>1. PICK d : warehouse' = [warehouse EXCEPT ![d] = {}]
    BY <1>4 DEF CrashInReplacement
  <2> QED
    BY <1>0, <2>1 DEF RestatementsCurrent
<1>5. CASE UNCHANGED warehouse
  BY <1>0, <1>5 DEF RestatementsCurrent
<1> QED
  BY <1>2, <1>3, <1>4, <1>5
     DEF Next, Import, Delete, Deploy, Changed, Launch, ParseFiles, ParseRefused, GradeFiles,
         Refuse, CheckStore, Crash, Fail, vars

\* Facts stay a function of the filings and the config.
LEMMA NextFacts ==
  ASSUME IInv, [Next]_vars
  PROVE  OneFirst' /\ DraftIsCurrent' /\ ProducedStands'
<1>0. OneFirst /\ DraftIsCurrent /\ ProducedStands
  BY DEF IInv
<1>1. CASE ParseFiles
  <2> DEFINE rows == ParseRows(Standing, config)
  <2>1. /\ parsed' = Upserted(rows, runs) /\ step' = "grade" /\ job # <<>>
        /\ UNCHANGED <<index, config, job, produced>>
    BY <1>1 DEF ParseFiles, Reached
  <2>2. /\ OneFirst' /\ Recorded' = Recorded \cup {r.key : r \in rows}
        /\ \A k \in Recorded : First(k)' = First(k)
    BY <1>0, <2>1, UpsertKeepsFirst
  <2>3. Standing' = Standing
    BY <2>1 DEF Standing
  <2>4. draft' = MappedNow(Standing, config)'
    BY <1>1, <2>1, <2>3 DEF ParseFiles, MappedNow, KeysOf, First
  <2>5. KeysOf(Standing, config)' \subseteq Recorded'
    BY <2>1, <2>2, <2>3 DEF KeysOf
  <2>6. DraftIsCurrent'
    BY <2>1, <2>4, <2>5 DEF DraftIsCurrent, Idle
  <2>7. ProducedStands'
    <3> SUFFICES ASSUME NEW p \in produced
                 PROVE  /\ KeysOf(p.sources, p.config) \subseteq Recorded'
                        /\ p.facts = GradedNow(p.sources, p.config)'
      BY <2>1 DEF ProducedStands, KeysOf, GradedNow, MappedNow
    <3>1. /\ KeysOf(p.sources, p.config) \subseteq Recorded
          /\ p.facts = GradedNow(p.sources, p.config)
      BY <1>0 DEF ProducedStands
    <3> QED
      BY <2>2, <3>1, UpsertKeepsFacts
  <2> QED
    BY <2>2, <2>6, <2>7
<1>2. ASSUME parsed' = parsed, produced' = produced,
             \/ step' = "start"
             \/ UNCHANGED <<index, config, draft, step>> /\ job' # <<>>
             \/ step' \notin {"start", "grade", "canonical"} /\ job' # <<>>
             \/ /\ step' = "canonical" /\ step = "grade" /\ job' # <<>>
                /\ draft' = GradedFiles(draft, config) /\ UNCHANGED <<index, config>>
      PROVE  OneFirst' /\ DraftIsCurrent' /\ ProducedStands'
  <2>1. /\ Recorded' = Recorded
        /\ \A r, c : MappedNow(r, c)' = MappedNow(r, c) /\ GradedNow(r, c)' = GradedNow(r, c)
    BY <1>2, SameParsed
  <2>2. OneFirst'
    BY <1>0, <1>2 DEF OneFirst
  <2>3. ProducedStands'
    BY <1>0, <1>2, <2>1 DEF ProducedStands, KeysOf
  <2>4. DraftIsCurrent'
    BY <1>0, <1>2, <2>1 DEF DraftIsCurrent, Standing, Idle, GradedNow, MappedNow, KeysOf, Recorded, First
  <2> QED
    BY <2>2, <2>3, <2>4
<1>3. CASE WriteCanonical
  <2>1. /\ step = "canonical" /\ job # <<>> /\ step' = "checks" /\ job' = job
        /\ UNCHANGED <<index, config, parsed, draft>>
        /\ produced' = produced \cup {[sources |-> Standing, config |-> config, facts |-> draft]}
    BY <1>3 DEF WriteCanonical, Reached, NextStep
  <2>2. /\ Recorded' = Recorded
        /\ \A r, c : GradedNow(r, c)' = GradedNow(r, c)
    BY <2>1, SameParsed
  <2>3. OneFirst' /\ DraftIsCurrent'
    BY <1>0, <2>1 DEF OneFirst, DraftIsCurrent, Idle
  <2>4. ProducedStands'
    BY <1>0, <2>1, <2>2 DEF ProducedStands, DraftIsCurrent, KeysOf
  <2> QED
    BY <2>3, <2>4
<1>4. CASE Next /\ Idle
  <2>1. step = "start"
    BY <1>0, <1>4 DEF DraftIsCurrent
  <2>2. step' = "start" /\ parsed' = parsed /\ produced' = produced
    BY <1>4, <2>1
       DEF Next, Idle, Import, Delete, Deploy, Changed, Launch, ParseFiles, ParseRefused, GradeFiles,
           WriteCanonical, WriteChecks, WriteDisclosures, BuildRestatements, BuildSizeClasses,
           BuildFeatures, Derive, Refuse, CheckStore, Reached, Crash, CrashInReplacement, Ended, Fail
  <2> QED
    BY <1>2, <2>2
<1>5. CASE ParseRefused \/ Refuse \/ Crash \/ CrashInReplacement
  BY <1>2, <1>5 DEF ParseRefused, Refuse, Crash, CrashInReplacement, Ended, Fail
<1>6. CASE WriteDisclosures \/ BuildRestatements \/ BuildSizeClasses
  BY <1>2, <1>6 DEF WriteDisclosures, BuildRestatements, BuildSizeClasses, Derive, AssetDone
<1>7. CASE GradeFiles \/ WriteChecks \/ BuildFeatures
  BY <1>2, <1>7 DEF GradeFiles, WriteChecks, BuildFeatures, Derive, Reached, NextStep
<1>8. CASE CheckStore
  BY <1>2, <1>8 DEF CheckStore, AssetDone, Ended
<1>9. CASE UNCHANGED vars
  <2>1. UNCHANGED <<index, config, draft, step, job, parsed, produced>>
    BY <1>9 DEF vars
  <2>2. CASE job = <<>>
    BY <1>0, <1>2, <2>1, <2>2 DEF DraftIsCurrent, Idle
  <2> QED
    BY <1>2, <2>1, <2>2
<1> QED
  BY <1>1, <1>3, <1>4, <1>5, <1>6, <1>7, <1>8, <1>9
     DEF Next, Import, Delete, Deploy, Changed, Launch, Idle

\* What every run keeps of the facts it wrote and the sources it read.
THEOREM IInvHolds == Spec => []IInv
<1>1. Init => IInv
  BY DEF Init, IInv, OneFirst, DraftIsCurrent, ProducedStands, RestatementsCurrent, Datasets, Idle
<1>2. IInv /\ [Next]_vars => IInv'
  BY NextRestatements, NextFacts DEF IInv
<1> QED
  BY <1>1, <1>2, PTL DEF Spec

\* Equal standing filings under an equal config give equal facts, run ids included, whatever
\* runs, crashes, imports, deletions and deployments came between.
THEOREM FactsReproduce == Spec => []Reproducible
<1>1. IInv => Reproducible
  BY DEF IInv, ProducedStands, Reproducible
<1> QED
  BY <1>1, IInvHolds, PTL

\* A stored feature store holds the restatement events of the facts it was built from.
THEOREM RestatementsOfTheStore == Spec => []RestatementsCurrent
<1>1. IInv => RestatementsCurrent
  BY DEF IInv
<1> QED
  BY <1>1, IInvHolds, PTL

----------------------------------------------------------------------------
(* Files and filings *)

\* With no reason no check failed.
LEMMA FirstReasonNone ==
  ASSUME NEW checks, DOMAIN checks \subseteq Nat, \A i \in DOMAIN checks : checks[i][2] # "",
         FirstReason(checks) = ""
  PROVE  \A i \in DOMAIN checks : ~checks[i][1]
<1> DEFINE failing == {i \in DOMAIN checks : checks[i][1]}
<1>1. CASE failing = {}
  BY <1>1
<1>2. CASE failing # {}
  <2>1. Min(failing) \in failing
    BY <1>2, MinOfDays
  <2>2. FirstReason(checks) = checks[Min(failing)][2]
    BY <1>2 DEF FirstReason
  <2> QED
    BY <2>1, <2>2
<1> QED
  BY <1>1, <1>2

\* The checks of a mapping, the submission day among them.
LEMMA ChecksAre ==
  ASSUME NEW sha, NEW o, NEW row, NEW cfg
  PROVE  /\ DOMAIN MappingChecks(sha, o, row, cfg) = 1..14
         /\ MappingChecks(sha, o, row, cfg)[13][1] = (row.submitted = None)
BY DEF MappingChecks

\* What holds of each of the fourteen checks holds of all.
LEMMA EachOfFourteen ==
  ASSUME NEW checks, NEW reason, DOMAIN checks = 1..14,
         checks[1][2] # reason, checks[2][2] # reason, checks[3][2] # reason,
         checks[4][2] # reason, checks[5][2] # reason, checks[6][2] # reason,
         checks[7][2] # reason, checks[8][2] # reason, checks[9][2] # reason,
         checks[10][2] # reason, checks[11][2] # reason, checks[12][2] # reason,
         checks[13][2] # reason, checks[14][2] # reason
  PROVE  /\ \A i \in DOMAIN checks : checks[i][2] # reason
         /\ DOMAIN checks \subseteq Nat /\ 13 \in DOMAIN checks
OBVIOUS

\* A file maps only onto a filing with a submission day.
LEMMA MapsDated ==
  ASSUME NEW sha, NEW o, NEW row, NEW cfg, MappingError(sha, o, row, cfg) = ""
  PROVE  row.submitted # None
<1> DEFINE checks == MappingChecks(sha, o, row, cfg)
<1>1. /\ checks[1][2] # "" /\ checks[2][2] # "" /\ checks[3][2] # "" /\ checks[4][2] # ""
      /\ checks[5][2] # "" /\ checks[6][2] # "" /\ checks[7][2] # "" /\ checks[8][2] # ""
      /\ checks[9][2] # "" /\ checks[10][2] # "" /\ checks[11][2] # "" /\ checks[12][2] # ""
      /\ checks[13][2] # "" /\ checks[14][2] # ""
  BY DEF MappingChecks
<1>2. FirstReason(checks) = ""
  BY DEF MappingError
<1>3. /\ DOMAIN checks = 1..14
      /\ checks[13][1] = (row.submitted = None)
  BY ChecksAre, Zenon
<1> HIDE DEF checks
<1>4. /\ \A i \in DOMAIN checks : checks[i][2] # ""
      /\ DOMAIN checks \subseteq Nat /\ 13 \in DOMAIN checks
  BY <1>1, <1>3, EachOfFourteen, Zenon
<1>5. \A i \in DOMAIN checks : ~checks[i][1]
  BY <1>2, <1>4, FirstReasonNone, Zenon
<1> QED
  BY <1>3, <1>4, <1>5, Zenon

\* The files of a download and its filings pair one to one.
LEMMA PairsOneToOne ==
  ASSUME NEW members, IsFiniteSet(members), NEW rows, IsFiniteSet(rows),
         NEW p \in Paired(members, rows), NEW q \in Paired(members, rows)
  PROVE  /\ p[1] \in Content(members) /\ p[2] \in rows
         /\ p[1] = q[1] <=> p[2] = q[2]
<1> DEFINE content == Content(members)
           Named(m) == {r \in rows : r.file_name # "" /\ r.file_name = m.name}
<1>1. IsFiniteSet(content)
  BY FS_Subset DEF Content
<1>2. CASE Cardinality(content) = 1 /\ Cardinality(rows) = 1
  <2>1. p \in content \X rows /\ q \in content \X rows
    BY <1>2 DEF Paired
  <2>2. (\E x : content = {x}) /\ (\E x : rows = {x})
    BY <1>1, <1>2, FS_Singleton
  <2> HIDE DEF content
  <2>3. p[1] = q[1] /\ p[2] = q[2] /\ p[1] \in content /\ p[2] \in rows
    BY <2>1, <2>2
  <2> QED
    BY <2>3 DEF content
<1>3. CASE ~(Cardinality(content) = 1 /\ Cardinality(rows) = 1)
  <2>1. \A x \in Paired(members, rows) :
          /\ x \in content \X rows
          /\ Named(x[1]) = {x[2]}
          /\ \A m \in content : Named(m) = {x[2]} => m = x[1]
    BY <1>3 DEF Paired
  <2> HIDE DEF content, Named
  <2>2. /\ p[1] \in content /\ q[1] \in content /\ p[2] \in rows /\ q[2] \in rows
        /\ Named(p[1]) = {p[2]} /\ Named(q[1]) = {q[2]}
        /\ \A m \in content : Named(m) = {p[2]} => m = p[1]
    BY <2>1
  <2> QED
    BY <2>2 DEF content
<1> QED
  BY <1>2, <1>3

\* A download unwraps to finitely many members.
LEMMA UnwrappedFinite ==
  ASSUME NEW sha \in DOMAIN Download
  PROVE  IsFiniteSet(Unwrapped(Download[sha]))
<1> DEFINE d == Download[sha]
           layers == d.layers
           Member(path, kind, doc) ==
             [member |-> path, name |-> IF d.zip THEN path[1] ELSE "", kind |-> kind, doc |-> doc]
           L == {q \in DOMAIN layers : layers[q].kind \in Leaves}
           S == {q \in DOMAIN layers : Detached(layers, q)}
           leaves == {Member(p, layers[p].kind, layers[p].doc) : p \in L}
           signatures == {Member(p, "detached_signature", NoDoc) : p \in S}
<1>1. IsFiniteSet(L) /\ IsFiniteSet(S)
  <2>1. IsFiniteSet(DOMAIN layers) /\ L \subseteq DOMAIN layers /\ S \subseteq DOMAIN layers
    BY DownloadAssumption DEF DownloadAssumption
  <2> HIDE DEF L, S
  <2> QED
    BY <2>1, FS_Subset
<1> HIDE DEF L, S
<1>2. IsFiniteSet(leaves)
  <2> HIDE DEF layers, Member
  <2> DEFINE F == [p \in L |-> Member(p, layers[p].kind, layers[p].doc)]
  <2>1. F \in [L -> leaves] /\ \A t \in leaves : \E p \in L : F[p] = t
    OBVIOUS
  <2> HIDE DEF F, leaves
  <2> QED
    BY <1>1, <2>1, FiniteImage
<1>3. IsFiniteSet(signatures)
  <2> HIDE DEF layers, Member
  <2> DEFINE F == [p \in S |-> Member(p, "detached_signature", NoDoc)]
  <2>1. F \in [S -> signatures] /\ \A t \in signatures : \E p \in S : F[p] = t
    OBVIOUS
  <2> HIDE DEF F, signatures
  <2> QED
    BY <1>1, <2>1, FiniteImage
<1>4. Unwrapped(Download[sha]) = leaves \cup signatures
  BY DEF Unwrapped, L, S
<1> HIDE DEF leaves, signatures
<1> QED
  BY <1>2, <1>3, <1>4, FS_Union

\* A file inside a download is known by its path.
LEMMA ContentByPath ==
  ASSUME NEW download, NEW m \in Content(Unwrapped(download)), NEW n \in Content(Unwrapped(download)),
         m.member = n.member
  PROVE  m = n
<1> DEFINE layers == download.layers
           Member(path, kind, doc) ==
             [member |-> path, name |-> IF download.zip THEN path[1] ELSE "",
              kind |-> kind, doc |-> doc]
<1>1. \A x \in Content(Unwrapped(download)) :
        \E p \in DOMAIN layers : x = Member(p, layers[p].kind, layers[p].doc)
  <2>1. \A p : Member(p, "detached_signature", NoDoc).kind = "detached_signature"
    OBVIOUS
  <2>2. Unwrapped(download)
          = {Member(p, layers[p].kind, layers[p].doc) :
               p \in {q \in DOMAIN layers : layers[q].kind \in Leaves}}
              \cup {Member(p, "detached_signature", NoDoc) :
                      p \in {q \in DOMAIN layers : Detached(layers, q)}}
    BY DEF Unwrapped
  <2> HIDE DEF Member, layers
  <2> QED
    BY <2>1, <2>2 DEF Content
<1>2. \A p : Member(p, layers[p].kind, layers[p].doc).member = p
  OBVIOUS
<1> HIDE DEF Member, layers
<1> QED
  BY <1>1, <1>2

\* What a valid file of a download is: one member paired with one row.
LEMMA ValidPaired ==
  ASSUME NEW sha, NEW rows, NEW cfg, NEW o \in Outcomes(sha, rows, cfg), o.status = "valid"
  PROVE  \E p \in Paired(Unwrapped(Download[sha]), rows) : o.member = p[1].member /\ o.ref = p[2].ref
<1> DEFINE members == Unwrapped(Download[sha])
<1>1. \A m, ref, status, reason, spec :
        /\ Outcome(m, ref, status, reason, spec).status = status
        /\ Outcome(m, ref, status, reason, spec).member = m.member
        /\ Outcome(m, ref, status, reason, spec).ref = ref
  BY DEF Outcome
<1>2. \A m, row : \E status, reason, spec :
        ClassifyMember(m, row, cfg) = Outcome(m, row.ref, status, reason, spec)
  <2> SUFFICES ASSUME NEW m, NEW row
               PROVE  \E status, reason, spec :
                        ClassifyMember(m, row, cfg) = Outcome(m, row.ref, status, reason, spec)
    OBVIOUS
  <2>1. CASE m.kind = "pdf"
    BY <2>1 DEF ClassifyMember
  <2>2. CASE m.kind # "pdf"
    <3> DEFINE spec == cfg.specs[m.doc.key]
               first == m.doc.key \in cfg.catalogued
               mapped == m.doc.key \in DOMAIN cfg.specs
               failed == Refused(m.doc, spec, cfg) # {}
    <3>1. ClassifyMember(m, row, cfg) =
            CASE FALSE -> Outcome(m, row.ref, "needs_pdf_tier", "", NoSpec)
              [] first -> Outcome(m, row.ref, "not_yet_mapped", "", NoSpec)
              [] ~(first \/ mapped) ->
                   Outcome(m, row.ref, "quarantined", "unknown_structure_version", NoSpec)
              [] mapped -> IF failed THEN Outcome(m, row.ref, "quarantined", "xsd_invalid", spec)
                           ELSE Outcome(m, row.ref, "valid", "", spec)
      BY <2>2 DEF ClassifyMember
    <3> HIDE DEF spec, first, mapped, failed
    <3>2. CASE first
      BY <3>1, <3>2
    <3>3. CASE ~first /\ ~mapped
      BY <3>1, <3>3
    <3>4. CASE ~first /\ mapped
      BY <3>1, <3>4
    <3> QED
      BY <3>2, <3>3, <3>4
  <2> QED
    BY <2>1, <2>2
<1>3. \E p \in Paired(members, rows) : o = ClassifyMember(p[1], p[2], cfg)
  BY <1>1 DEF Outcomes
<1> QED
  BY <1>1, <1>2, <1>3

\* What mapping a file reads: one row, one outcome of its download.
LEMMA MappedAre ==
  ASSUME NEW idx, IndexTyped(idx), NEW rows \in SUBSET idx, NEW cfg, NEW m \in MappedOutcomes(rows, cfg)
  PROVE  /\ m[3] \in OfFile(rows, m[1]) /\ m[3] \in idx
         /\ m[3].ref = m[2].ref /\ m[3].submitted # None
         /\ m[2] \in Outcomes(m[1], OfFile(rows, m[1]), cfg) /\ m[2].status = "valid"
<1>0. PICK sha : \E o \in Outcomes(sha, OfFile(rows, sha), cfg) :
        /\ Maps(rows, sha, o, cfg)
        /\ m = <<sha, o, CHOOSE r \in OfFile(rows, sha) : r.ref = o.ref>>
  BY DEF MappedOutcomes
<1>1. PICK o \in Outcomes(sha, OfFile(rows, sha), cfg) :
        /\ Maps(rows, sha, o, cfg)
        /\ m = <<sha, o, CHOOSE r \in OfFile(rows, sha) : r.ref = o.ref>>
  BY <1>0
<1>2. PICK r \in OfFile(rows, sha) : r.ref = o.ref /\ MappingError(sha, o, r, cfg) = ""
  BY <1>1 DEF Maps
<1>3. r \in idx /\ r.submitted # None
  BY <1>2, MapsDated DEF OfFile
<1>4. (CHOOSE x \in OfFile(rows, sha) : x.ref = o.ref) = r
  BY <1>2, <1>3 DEF OfFile, IndexTyped
<1>5. m[1] = sha /\ m[2] = o /\ m[3] = r
  BY <1>1, <1>4
<1>6. o.status = "valid"
  BY <1>1 DEF Maps
<1> QED
  BY <1>2, <1>3, <1>5, <1>6

\* A file that maps speaks for one filing, and a filing through one file.
LEMMA OneFileOneFiling ==
  ASSUME NEW idx, IndexTyped(idx), NEW rows \in SUBSET idx, NEW cfg,
         NEW m \in MappedOutcomes(rows, cfg), NEW n \in MappedOutcomes(rows, cfg)
  PROVE  m[3] = n[3] <=> <<m[1], m[2].member>> = <<n[1], n[2].member>>
<1>1. /\ m[3] \in OfFile(rows, m[1]) /\ m[3] \in idx /\ m[3].ref = m[2].ref
      /\ m[2] \in Outcomes(m[1], OfFile(rows, m[1]), cfg) /\ m[2].status = "valid"
      /\ n[3] \in OfFile(rows, n[1]) /\ n[3] \in idx /\ n[3].ref = n[2].ref
      /\ n[2] \in Outcomes(n[1], OfFile(rows, n[1]), cfg) /\ n[2].status = "valid"
  BY MappedAre
<1>2. m[3] = n[3] => m[1] = n[1]
  BY <1>1 DEF OfFile
<1>3. ASSUME m[1] = n[1]
      PROVE  m[3] = n[3] <=> m[2].member = n[2].member
  <2> DEFINE sha == m[1]
             R == OfFile(rows, sha)
             members == Unwrapped(Download[sha])
  <2>1. sha \in DOMAIN Download
    BY <1>1 DEF OfFile, IndexTyped
  <2>2. IsFiniteSet(members)
    BY <2>1, UnwrappedFinite
  <2>3. R \subseteq idx /\ IsFiniteSet(R)
    BY FS_Subset DEF OfFile, IndexTyped
  <2>4. PICK p \in Paired(members, R) : m[2].member = p[1].member /\ m[2].ref = p[2].ref
    BY <1>1, ValidPaired
  <2>5. PICK q \in Paired(members, R) : n[2].member = q[1].member /\ n[2].ref = q[2].ref
    BY <1>1, <1>3, ValidPaired
  <2> HIDE DEF R, members
  <2>6. /\ p[1] \in Content(members) /\ p[2] \in R
        /\ q[1] \in Content(members) /\ q[2] \in R
        /\ p[1] = q[1] <=> p[2] = q[2]
    BY <2>2, <2>3, PairsOneToOne
  <2>7. p[2] = m[3] /\ q[2] = n[3]
    BY <1>1, <2>3, <2>4, <2>5, <2>6 DEF IndexTyped
  <2>8. p[1].member = q[1].member => p[1] = q[1]
    BY <2>6, ContentByPath DEF members
  <2> QED
    BY <2>4, <2>5, <2>6, <2>7, <2>8
<1> QED
  BY <1>2, <1>3

FileFields == {"sha", "member", "krs", "ref", "known"}
Fielded(files) == \A f \in files : FileFields \subseteq DOMAIN f

\* The draft of a run speaks for each of its filings through one file.
Unshared(files) ==
  \A f, g \in files : f.ref = g.ref <=> <<f.sha, f.member>> = <<g.sha, g.member>>

\* Mapped files are dated by the filings they are of, one file to a filing.
LEMMA MappedFilesAre ==
  ASSUME NEW idx, IndexTyped(idx), NEW rows \in SUBSET idx, NEW c, NEW first
  PROVE  LET files == FilesMapped(rows, c, first)
         IN  Filed(files, idx) /\ Fielded(files) /\ Unshared(files)
<1> DEFINE files == FilesMapped(rows, c, first)
           File(m) == MappedFile(m[1], m[2], m[3], Config[c], first[Key(m[1], m[2], Config[c])])
<1>1. files = {File(m) : m \in MappedOutcomes(rows, Config[c])}
  BY DEF FilesMapped
<1>2. \A m : /\ File(m).sha = m[1] /\ File(m).member = m[2].member
             /\ File(m).krs = m[3].krs /\ File(m).ref = m[3].ref /\ File(m).known = m[3].submitted
             /\ FileFields \subseteq DOMAIN File(m)
  BY DEF MappedFile, FileFields
<1> HIDE DEF File
<1>3. \A m \in MappedOutcomes(rows, Config[c]) : m[3] \in idx /\ m[3].submitted \in Nat \ {None}
  BY MappedAre DEF IndexTyped
<1>4. Filed(files, idx)
  BY <1>1, <1>2, <1>3 DEF Filed, FiledAs
<1>5. Fielded(files)
  BY <1>1, <1>2 DEF Fielded
<1>6. Unshared(files)
  <2> SUFFICES ASSUME NEW m \in MappedOutcomes(rows, Config[c]), NEW n \in MappedOutcomes(rows, Config[c])
               PROVE  m[3].ref = n[3].ref <=> <<m[1], m[2].member>> = <<n[1], n[2].member>>
    BY <1>1, <1>2 DEF Unshared
  <2>1. m[3].ref = n[3].ref <=> m[3] = n[3]
    BY <1>3 DEF IndexTyped
  <2> QED
    BY <2>1, OneFileOneFiling
<1> QED
  BY <1>4, <1>5, <1>6

\* Grading adds the grade.
LEMMA GradingKeeps ==
  ASSUME NEW files, Fielded(files), NEW c, NEW g \in GradedByVersion(files, c)
  PROVE  \E f \in files : /\ g.sha = f.sha /\ g.member = f.member /\ g.krs = f.krs
                          /\ g.ref = f.ref /\ g.known = f.known
<1>1. PICK f \in files : \E x : g = Overlaid(f, [grade |-> x])
  BY DEF GradedByVersion, Graded
<1>2. FileFields \subseteq DOMAIN f
  BY DEF Fielded
<1>3. \A x : \A k \in FileFields : Overlaid(f, [grade |-> x])[k] = f[k]
  BY <1>2 DEF Overlaid
<1> QED
  BY <1>1, <1>3 DEF FileFields

\* Grading leaves files and filings paired as they were.
LEMMA GradedAre ==
  ASSUME NEW idx, NEW files, Filed(files, idx), Fielded(files), Unshared(files), NEW c
  PROVE  Filed(GradedByVersion(files, c), idx) /\ Unshared(GradedByVersion(files, c))
<1>1. \A g \in GradedByVersion(files, c) :
        \E f \in files : /\ g.sha = f.sha /\ g.member = f.member /\ g.krs = f.krs
                         /\ g.ref = f.ref /\ g.known = f.known
  BY GradingKeeps
<1>2. Filed(GradedByVersion(files, c), idx)
  BY <1>1 DEF Filed, FiledAs
<1>3. Unshared(GradedByVersion(files, c))
  BY <1>1 DEF Unshared
<1> QED
  BY <1>2, <1>3

\* An introduction is of a file and dated by its filing.
LEMMA DisclosedAre ==
  ASSUME NEW rows, NEW c, NEW d \in IntroductionRows(rows, c)
  PROVE  \E m \in MappedOutcomes(rows, Config[c]) :
           /\ d.sha = m[1] /\ d.member = m[2].member
           /\ d.krs = m[3].krs /\ d.ref = m[3].ref /\ d.known = m[3].submitted
<1> DEFINE Of_(m) == {[krs |-> m[3].krs, ref |-> m[3].ref, sha |-> m[1], member |-> m[2].member,
                       end |-> m[3].end, known |-> m[3].submitted, item |-> x.item, value |-> x.value] :
                        x \in Disclosures(m[2], Config[c])}
<1>1. IntroductionRows(rows, c) = UNION {Of_(m) : m \in MappedOutcomes(rows, Config[c])}
  BY DEF IntroductionRows
<1>2. \A m : \A x \in Of_(m) : /\ x.sha = m[1] /\ x.member = m[2].member
                               /\ x.krs = m[3].krs /\ x.ref = m[3].ref /\ x.known = m[3].submitted
  OBVIOUS
<1> HIDE DEF Of_
<1> QED
  BY <1>1, <1>2

\* Introductions are dated by their filings.
LEMMA DisclosedFiled ==
  ASSUME NEW idx, IndexTyped(idx), NEW rows \in SUBSET idx, NEW c
  PROVE  Filed(IntroductionRows(rows, c), idx)
<1>1. \A m \in MappedOutcomes(rows, Config[c]) : m[3] \in idx /\ m[3].submitted \in Nat \ {None}
  BY MappedAre DEF IndexTyped
<1> QED
  BY <1>1, DisclosedAre DEF Filed, FiledAs

\* The introductions of the files a run maps are known with their facts.
LEMMA OneRunInTime ==
  ASSUME NEW idx, IndexTyped(idx), NEW rows \in SUBSET idx, NEW c, NEW first
  PROVE  InTime(GradedByVersion(FilesMapped(rows, c, first), c), IntroductionRows(rows, c))
<1> DEFINE files == FilesMapped(rows, c, first)
<1> SUFFICES ASSUME NEW g \in GradedByVersion(files, c), NEW d \in IntroductionRows(rows, c),
                    d.sha = g.sha, d.member = g.member
             PROVE  d.known <= g.known
  BY DEF InTime
<1>1. Filed(files, idx) /\ Fielded(files)
  BY MappedFilesAre
<1>2. PICK f \in files : g.sha = f.sha /\ g.member = f.member /\ g.known = f.known
  BY <1>1, GradingKeeps
<1>3. PICK m \in MappedOutcomes(rows, Config[c]) :
        f.sha = m[1] /\ f.member = m[2].member /\ f.known = m[3].submitted
  BY <1>2 DEF FilesMapped, MappedFile
<1>4. PICK n \in MappedOutcomes(rows, Config[c]) :
        d.sha = n[1] /\ d.member = n[2].member /\ d.known = n[3].submitted
  BY DisclosedAre
<1>5. m[3] = n[3]
  BY <1>2, <1>3, <1>4, OneFileOneFiling
<1>6. g.known \in Nat
  BY <1>1, <1>2 DEF Filed
<1> QED
  BY <1>2, <1>3, <1>4, <1>5, <1>6

----------------------------------------------------------------------------
(* What the runs store *)

\* The jobs run what this system's modules compute.
Configured ==
  /\ \A rows, c, first : MappedFiles(rows, c, first) = FilesMapped(rows, c, first)
  /\ \A files, c : GradedFiles(files, c) = GradedByVersion(files, c)
  /\ \A rows, c : Disclosed(rows, c) = IntroductionRows(rows, c)
  /\ \A canonical : Restated(canonical) = RestatementEvents(canonical)

\* The index holds what was imported; facts and introductions are of its filings.
Imported(idx) == \A r \in idx : \E s \in UNION Imports : FiledAs(r, s) /\ s.submitted = r.submitted
SourcesDated ==
  /\ IndexTyped(index) /\ Imported(index)
  /\ Filed(draft, index)
  /\ \A rows \in warehouse["canonical"] \cup warehouse["disclosures"] : Filed(rows, index)

\* A draft has one file per filing.
DraftUnshared ==
  /\ OneFilePerFiling
  /\ step = "grade" => Fielded(draft)

\* A store is of the index it was built from, and one under check is stored.
StoresDated ==
  /\ \A s \in warehouse["features"] :
       /\ IndexTyped(s.index)
       /\ Filed(s.canonical, s.index) /\ Filed(s.disclosures, s.index)
       /\ NeverBefore(TextRows, s.index) /\ NeverBefore(AuditRows, s.index)
  /\ step = "check" => Stored("features")

\* The facts stored while a run writes its other datasets are its draft.
DraftStored ==
  step \in {"checks", "disclosures"} =>
    /\ draft = GradedNow(Standing, config)
    /\ warehouse["canonical"] = {draft}

\* What every step keeps of the draft, the stores and the filings they are of.
DInv == IInv /\ SourcesDated /\ DraftUnshared /\ StoresDated /\ DraftStored

\* A store's introductions are of the generation of its facts, or one no younger.
DisclosedInTime == \A s \in warehouse["features"] : InTime(s.canonical, s.disclosures)

\* Rows stay dated when filings keep their days.
LEMMA FiledStays ==
  ASSUME NEW idx, NEW more,
         \A r \in idx : \E s \in more : FiledAs(r, s) /\ s.submitted = r.submitted,
         NEW rows, Filed(rows, idx)
  PROVE  Filed(rows, more)
<1> SUFFICES ASSUME NEW x \in rows
             PROVE  x.known \in Nat \ {None} /\ \E s \in more : FiledAs(x, s) /\ s.submitted = x.known
  BY DEF Filed
<1>1. PICK r \in idx : FiledAs(x, r) /\ r.submitted = x.known
  BY DEF Filed
<1>2. PICK s \in more : FiledAs(r, s) /\ s.submitted = r.submitted
  BY <1>1
<1> QED
  BY <1>1, <1>2 DEF Filed, FiledAs

\* An import keeps every filing and its day.
LEMMA ImportDated ==
  ASSUME IndexTyped(index), Imported(index), NEW rows \in Imports, Import(rows)
  PROVE  /\ IndexTyped(index') /\ Imported(index')
         /\ \A r \in index : \E s \in index' : FiledAs(r, s) /\ s.submitted = r.submitted
<1>1. index' = index \cup rows /\ \A r \in rows, s \in index : s.ref # r.ref
  BY DEF Import
<1>2. /\ IsFiniteSet(rows)
      /\ \A r \in rows : r.deleted = 0
      /\ \A r, s \in rows : r.ref = s.ref => r = s
  BY ImportsAssumption DEF ImportsAssumption
<1>3. \A r \in rows : /\ IndexFields \subseteq DOMAIN r /\ r.ref \in Nat /\ r.end \in Int /\ r.submitted \in Nat
                      /\ r.type \in StatementTypes => r.sha \in DOMAIN Download
  BY RowsAssumption DEF RowsAssumption
<1>4. IsFiniteSet(index')
  BY <1>1, <1>2, FS_Union DEF IndexTyped
<1>5. IndexTyped(index')
  BY <1>1, <1>2, <1>3, <1>4 DEF IndexTyped
<1>6. Imported(index')
  BY <1>1 DEF Imported, FiledAs
<1> QED
  BY <1>1, <1>5, <1>6 DEF FiledAs

\* A deletion keeps every filing and its day.
LEMMA DeleteDated ==
  ASSUME IndexTyped(index), Imported(index), NEW r \in index, NEW day \in Nat, Delete(r, day)
  PROVE  /\ IndexTyped(index') /\ Imported(index')
         /\ \A t \in index : \E s \in index' : FiledAs(t, s) /\ s.submitted = t.submitted
<1> DEFINE gone == [r EXCEPT !.deleted = day]
<1>1. index' = (index \ {r}) \cup {gone}
  BY DEF Delete
<1>2. IndexFields \subseteq DOMAIN r
  BY DEF IndexTyped
<1>3. /\ DOMAIN gone = DOMAIN r /\ gone.deleted = day
      /\ gone.krs = r.krs /\ gone.ref = r.ref /\ gone.end = r.end
      /\ gone.submitted = r.submitted /\ gone.type = r.type /\ gone.sha = r.sha
  BY <1>2 DEF IndexFields
<1> HIDE DEF gone
<1>4. IsFiniteSet(index')
  <2>1. IsFiniteSet(index \ {r}) /\ IsFiniteSet({gone})
    BY FS_Subset, FS_Singleton DEF IndexTyped
  <2> QED
    BY <1>1, <2>1, FS_Union
<1>5. IndexTyped(index')
  BY <1>1, <1>3, <1>4 DEF IndexTyped
<1>6. Imported(index')
  BY <1>1, <1>3 DEF Imported, FiledAs
<1> QED
  BY <1>1, <1>3, <1>5, <1>6 DEF FiledAs

\* What was read of a filing's files is never before the filing in what was imported.
LEMMA ReadAfterFiling ==
  ASSUME NEW idx, Imported(idx), NEW rows \in SUBSET (TextRows \cup AuditRows)
  PROVE  NeverBefore(rows, idx)
<1> SUFFICES ASSUME NEW x \in rows
             PROVE  /\ x.known \in Nat
                    /\ \A r \in idx : FiledAs(x, r) => r.submitted # None /\ r.submitted <= x.known
  BY DEF NeverBefore
<1>1. /\ x.known \in Nat
      /\ \A s \in UNION Imports :
           s.krs = x.krs /\ s.ref = x.ref => s.submitted # None /\ s.submitted <= x.known
  BY RowsAssumption DEF RowsAssumption
<1> QED
  BY <1>1 DEF Imported, FiledAs

\* The steps of a run that leave the index alone.
LEMMA RunDated ==
  ASSUME Configured, DInv, Next, index' = index
  PROVE  SourcesDated' /\ DraftUnshared' /\ StoresDated'
<1>0. /\ DOMAIN warehouse = Datasets
      /\ IndexTyped(index) /\ Imported(index) /\ Filed(draft, index)
      /\ \A rows \in warehouse["canonical"] \cup warehouse["disclosures"] : Filed(rows, index)
      /\ Unshared(draft) /\ (step = "grade" => Fielded(draft))
      /\ StoresDated
  BY DEF DInv, IInv, SourcesDated, DraftUnshared, OneFilePerFiling, Unshared
<1>1. Standing \subseteq index
  BY DEF Standing
<1>2. Filed({}, index) /\ Unshared({}) /\ Fielded({})
  BY DEF Filed, Unshared, Fielded
<1>3. ASSUME \/ draft' = draft
             \/ draft' = {}
             \/ Filed(draft', index) /\ Unshared(draft'),
             step' = "grade" => Fielded(draft'), UNCHANGED warehouse, step' # "check"
      PROVE  SourcesDated' /\ DraftUnshared' /\ StoresDated'
  BY <1>0, <1>2, <1>3 DEF SourcesDated, DraftUnshared, OneFilePerFiling, Unshared, StoresDated
<1>4. ASSUME draft' = draft \/ draft' = {}, step' \notin {"grade", "check"},
             NEW d \in Datasets, NEW content, warehouse' = [warehouse EXCEPT ![d] = content],
             d # "features" \/ content = {},
             d \in {"canonical", "disclosures"} => \A rows \in content : Filed(rows, index)
      PROVE  SourcesDated' /\ DraftUnshared' /\ StoresDated'
  <2>1. /\ \A s \in warehouse'["features"] : s \in warehouse["features"]
        /\ \A rows \in warehouse'["canonical"] \cup warehouse'["disclosures"] : Filed(rows, index)
    BY <1>0, <1>4 DEF Datasets
  <2>2. SourcesDated' /\ DraftUnshared'
    BY <1>0, <1>2, <1>4, <2>1 DEF SourcesDated, DraftUnshared, OneFilePerFiling, Unshared
  <2>3. StoresDated'
    BY <1>0, <1>4, <2>1 DEF StoresDated
  <2> QED
    BY <2>2, <2>3
<1>5. CASE ParseFiles
  <2>1. PICK first : draft' = FilesMapped(Standing, config, first)
    BY <1>5 DEF ParseFiles, Configured
  <2>2. Filed(draft', index) /\ Fielded(draft') /\ Unshared(draft')
    BY <1>0, <1>1, <2>1, MappedFilesAre
  <2> QED
    BY <1>3, <1>5, <2>2 DEF ParseFiles
<1>6. CASE GradeFiles
  <2>1. draft' = GradedByVersion(draft, config) /\ step = "grade" /\ step' = "canonical"
    BY <1>6 DEF GradeFiles, Reached, Configured
  <2>2. Filed(draft', index) /\ Unshared(draft')
    BY <1>0, <2>1, GradedAre
  <2> QED
    BY <1>3, <1>6, <2>1, <2>2 DEF GradeFiles
<1>7. CASE WriteCanonical
  <2>1. warehouse' = [warehouse EXCEPT !["canonical"] = {draft}] /\ draft' = draft /\ step' = "checks"
    BY <1>7 DEF WriteCanonical, Replaced, NextStep
  <2>2. "canonical" \in Datasets
    BY DEF Datasets
  <2> QED
    BY <1>0, <1>4, <2>1, <2>2
<1>8. CASE WriteDisclosures
  <2>1. /\ warehouse' = [warehouse EXCEPT !["disclosures"] = {IntroductionRows(Standing, config)}]
        /\ draft' = {} /\ step' = "start"
    BY <1>8 DEF WriteDisclosures, Replaced, AssetDone, Configured
  <2>2. "disclosures" \in Datasets
    BY DEF Datasets
  <2>3. Filed(IntroductionRows(Standing, config), index)
    BY <1>0, <1>1, DisclosedFiled
  <2> QED
    BY <1>4, <2>1, <2>2, <2>3
<1>9. ASSUME WriteChecks \/ BuildRestatements \/ BuildSizeClasses
      PROVE  SourcesDated' /\ DraftUnshared' /\ StoresDated'
  <2>1. \E d \in {"checks", "restatements", "size"} : \E content :
          warehouse' = [warehouse EXCEPT ![d] = {content}]
    BY <1>9 DEF WriteChecks, BuildRestatements, BuildSizeClasses, Derive, Replaced
  <2>2. draft' = draft /\ step' \notin {"grade", "check"}
    BY <1>9 DEF WriteChecks, BuildRestatements, BuildSizeClasses, Derive, NextStep, AssetDone
  <2>3. {"checks", "restatements", "size"} \subseteq Datasets \ {"canonical", "disclosures", "features"}
    BY DEF Datasets
  <2> QED
    BY <1>4, <2>1, <2>2, <2>3
<1>10. CASE BuildFeatures
  <2> DEFINE store == [canonical |-> ContentOf("canonical"), restatements |-> ContentOf("restatements"),
                       disclosures |-> ContentOf("disclosures"), index |-> index,
                       status |-> {[krs |-> p.krs, ref |-> p.ref, status |-> p.status] : p \in parsed}]
  <2>1. /\ warehouse' = [warehouse EXCEPT !["features"] = {store}]
        /\ draft' = draft /\ step' = "check"
        /\ Stored("canonical") /\ Stored("disclosures")
    BY <1>10 DEF BuildFeatures, Derive, Buildable, Reads, Replaced, NextStep
  <2>2. Filed(ContentOf("canonical"), index) /\ Filed(ContentOf("disclosures"), index)
    BY <1>0, <2>1 DEF Stored, ContentOf
  <2>3. NeverBefore(TextRows, index) /\ NeverBefore(AuditRows, index)
    BY <1>0, ReadAfterFiling
  <2>4. /\ store.index = index /\ store.canonical = ContentOf("canonical")
        /\ store.disclosures = ContentOf("disclosures")
    OBVIOUS
  <2> HIDE DEF store
  <2>5. /\ warehouse'["features"] = {store}
        /\ warehouse'["canonical"] = warehouse["canonical"]
        /\ warehouse'["disclosures"] = warehouse["disclosures"]
    BY <1>0, <2>1 DEF Datasets
  <2>6. SourcesDated' /\ DraftUnshared'
    BY <1>0, <2>1, <2>5 DEF SourcesDated, DraftUnshared, OneFilePerFiling, Unshared
  <2>7. StoresDated'
    BY <1>0, <2>1, <2>2, <2>3, <2>4, <2>5 DEF StoresDated, Stored
  <2> QED
    BY <2>6, <2>7
<1>11. CASE CrashInReplacement
  <2>1. \E d : warehouse' = [warehouse EXCEPT ![d] = {}]
    BY <1>11 DEF CrashInReplacement
  <2>2. draft' = {} /\ step' = "start"
    BY <1>11 DEF CrashInReplacement, Ended
  <2>3. ASSUME NEW d, d \notin Datasets, warehouse' = [warehouse EXCEPT ![d] = {}]
        PROVE  SourcesDated' /\ DraftUnshared' /\ StoresDated'
    <3>1. \A e \in Datasets : warehouse'[e] = warehouse[e]
      BY <1>0, <2>3
    <3>2. /\ warehouse'["features"] = warehouse["features"]
          /\ warehouse'["canonical"] = warehouse["canonical"]
          /\ warehouse'["disclosures"] = warehouse["disclosures"]
      BY <3>1 DEF Datasets
    <3> QED
      BY <1>0, <1>2, <2>2, <3>2
         DEF SourcesDated, DraftUnshared, OneFilePerFiling, Unshared, StoresDated
  <2> QED
    BY <1>4, <2>1, <2>2, <2>3
<1>12. CASE CheckStore
  BY <1>3, <1>12 DEF CheckStore, AssetDone, Ended
<1>13. CASE ParseRefused \/ Refuse \/ Crash
  BY <1>3, <1>13 DEF ParseRefused, Refuse, Crash, Fail, Ended
<1>14. ASSUME NEW assets, Launch(assets)
       PROVE  SourcesDated' /\ DraftUnshared' /\ StoresDated'
  BY <1>3, <1>14 DEF Launch
<1>15. ASSUME Idle, UNCHANGED <<draft, warehouse, step>>
       PROVE  SourcesDated' /\ DraftUnshared' /\ StoresDated'
  BY <1>0, <1>15 DEF SourcesDated, DraftUnshared, OneFilePerFiling, Unshared, StoresDated, Stored
<1>16. ASSUME NEW rows, Import(rows)
       PROVE  SourcesDated' /\ DraftUnshared' /\ StoresDated'
  BY <1>15, <1>16 DEF Import, Changed
<1>17. ASSUME NEW r, NEW day, Delete(r, day)
       PROVE  SourcesDated' /\ DraftUnshared' /\ StoresDated'
  BY <1>15, <1>17 DEF Delete, Changed
<1>18. ASSUME NEW c, Deploy(c)
       PROVE  SourcesDated' /\ DraftUnshared' /\ StoresDated'
  BY <1>15, <1>18 DEF Deploy, Changed
<1> QED
  BY <1>5, <1>6, <1>7, <1>8, <1>9, <1>10, <1>11, <1>12, <1>13, <1>14, <1>16, <1>17, <1>18 DEF Next

\* Between facts and introductions the draft is what was stored.
LEMMA NextDraft ==
  ASSUME DInv, [Next]_vars
  PROVE  DraftStored'
<1>0. DOMAIN warehouse = Datasets /\ DraftIsCurrent /\ DraftStored /\ "canonical" \in Datasets
  BY DEF DInv, IInv, Datasets
<1>1. CASE WriteCanonical
  <2>1. /\ step = "canonical" /\ draft' = draft /\ UNCHANGED <<index, config, parsed>>
        /\ warehouse' = [warehouse EXCEPT !["canonical"] = {draft}]
    BY <1>1 DEF WriteCanonical, Reached, Replaced
  <2>2. \A rows, c : GradedNow(rows, c)' = GradedNow(rows, c)
    BY <2>1, SameParsed
  <2>3. draft' = GradedNow(Standing, config)'
    BY <1>0, <2>1, <2>2 DEF DraftIsCurrent, Standing, GradedNow, MappedNow, KeysOf, First
  <2> QED
    BY <1>0, <2>1, <2>3 DEF DraftStored
<1>2. ASSUME step = "checks", draft' = draft, UNCHANGED <<index, config, parsed>>,
             warehouse'["canonical"] = warehouse["canonical"]
      PROVE  DraftStored'
  BY <1>0, <1>2 DEF DraftStored, Standing, GradedNow, MappedNow, KeysOf, First
<1>3. CASE WriteChecks
  <2>1. warehouse' = [warehouse EXCEPT !["checks"] =
                        {{[sha |-> f.sha, member |-> f.member, grade |-> f.grade] : f \in draft}}]
    BY <1>3 DEF WriteChecks, Replaced
  <2>2. warehouse'["canonical"] = warehouse["canonical"]
    BY <1>0, <2>1
  <2> QED
    BY <1>2, <1>3, <2>2 DEF WriteChecks, Reached
<1>4. CASE UNCHANGED vars
  BY <1>0, <1>4 DEF vars, DraftStored, Standing, GradedNow, MappedNow, KeysOf, First
<1>5. ASSUME step' \notin {"checks", "disclosures"}
      PROVE  DraftStored'
  BY <1>5 DEF DraftStored
<1>6. ASSUME Next, Idle
      PROVE  step' = "start"
  BY <1>0, <1>6
     DEF DraftIsCurrent, Next, Idle, Import, Delete, Deploy, Changed, Launch, ParseFiles, ParseRefused,
         GradeFiles, WriteCanonical, WriteChecks, WriteDisclosures, BuildRestatements,
         BuildSizeClasses, BuildFeatures, Derive, Refuse, CheckStore, Reached, Crash,
         CrashInReplacement, Ended, Fail
<1>7. CASE ParseFiles \/ ParseRefused \/ GradeFiles \/ WriteDisclosures \/ Refuse \/ Crash \/ CrashInReplacement
  BY <1>5, <1>7 DEF ParseFiles, ParseRefused, GradeFiles, WriteDisclosures, AssetDone, Refuse, Crash,
                    CrashInReplacement, Ended, Fail
<1>8. CASE BuildRestatements \/ BuildSizeClasses \/ BuildFeatures
  BY <1>5, <1>8 DEF BuildRestatements, BuildSizeClasses, BuildFeatures, AssetDone, NextStep
<1>9. CASE CheckStore
  BY <1>5, <1>9 DEF CheckStore, AssetDone, Ended
<1> QED
  BY <1>1, <1>3, <1>4, <1>5, <1>6, <1>7, <1>8, <1>9 DEF Next, Import, Delete, Deploy, Changed, Launch

\* Every step keeps the sources dated.
LEMMA NextDated ==
  ASSUME Configured, DInv, [Next]_vars
  PROVE  DInv'
<1>0. IInv /\ SourcesDated /\ DraftUnshared /\ StoresDated
  BY DEF DInv
<1>1. IInv'
  BY <1>0, NextRestatements, NextFacts DEF IInv
<1>2. DraftStored'
  BY NextDraft
<1>3. ASSUME /\ IndexTyped(index') /\ Imported(index')
             /\ \A r \in index : \E s \in index' : FiledAs(r, s) /\ s.submitted = r.submitted,
             UNCHANGED <<step, draft, warehouse>>
      PROVE  SourcesDated' /\ DraftUnshared' /\ StoresDated'
  <2>1. \A rows : Filed(rows, index) => Filed(rows, index')
    BY <1>3, FiledStays
  <2> QED
    BY <1>0, <1>3, <2>1 DEF SourcesDated, DraftUnshared, OneFilePerFiling, StoresDated, Stored
<1>4. ASSUME NEW rows \in Imports, Import(rows)
      PROVE  SourcesDated' /\ DraftUnshared' /\ StoresDated'
  <2>1. /\ IndexTyped(index') /\ Imported(index')
        /\ \A r \in index : \E s \in index' : FiledAs(r, s) /\ s.submitted = r.submitted
    BY <1>0, <1>4, ImportDated DEF SourcesDated
  <2> QED
    BY <1>3, <1>4, <2>1 DEF Import, Changed
<1>5. ASSUME NEW r \in index, NEW d \in Deletions, Delete(r, d[2])
      PROVE  SourcesDated' /\ DraftUnshared' /\ StoresDated'
  <2>1. d[2] \in Nat
    BY ImportsAssumption DEF ImportsAssumption
  <2>2. /\ IndexTyped(index') /\ Imported(index')
        /\ \A t \in index : \E s \in index' : FiledAs(t, s) /\ s.submitted = t.submitted
    BY <1>0, <1>5, <2>1, DeleteDated DEF SourcesDated
  <2> QED
    BY <1>3, <1>5, <2>2 DEF Delete, Changed
<1>6. CASE UNCHANGED vars
  <2>1. UNCHANGED <<index, step, draft, warehouse>>
    BY <1>6 DEF vars
  <2>2. SourcesDated' /\ DraftUnshared' /\ StoresDated'
    BY <1>0, <2>1 DEF SourcesDated, DraftUnshared, OneFilePerFiling, StoresDated, Stored
  <2> QED
    BY <1>1, <1>2, <2>2 DEF DInv
<1>7. CASE Next /\ index' = index
  BY <1>1, <1>2, <1>7, RunDated DEF DInv
<1>8. \/ \E rows \in Imports : Import(rows)
      \/ \E r \in index : \E d \in Deletions : Delete(r, d[2])
      \/ UNCHANGED vars
      \/ Next /\ index' = index
  BY DEF Next, Deploy, Launch, ParseFiles, ParseRefused, GradeFiles, WriteCanonical, WriteChecks,
         WriteDisclosures, BuildRestatements, BuildSizeClasses, BuildFeatures, Derive, Refuse, CheckStore,
         Crash, CrashInReplacement, Fail
<1> QED
  BY <1>1, <1>2, <1>4, <1>5, <1>6, <1>7, <1>8 DEF DInv

\* Everything a run holds or stores is dated by filings the index has.
THEOREM DInvHolds == ASSUME Configured PROVE Spec => []DInv
<1>1. Init => DInv
  <2> SUFFICES ASSUME Init PROVE DInv
    OBVIOUS
  <2>1. /\ index = {} /\ draft = {} /\ step = "start"
        /\ warehouse["canonical"] = {} /\ warehouse["disclosures"] = {} /\ warehouse["features"] = {}
    BY DEF Init, Datasets
  <2>2. IInv
    BY DEF Init, IInv, OneFirst, DraftIsCurrent, ProducedStands, RestatementsCurrent, Datasets, Idle
  <2>3. SourcesDated
    BY <2>1, FS_EmptySet DEF SourcesDated, IndexTyped, Imported, Filed
  <2> QED
    BY <2>1, <2>2, <2>3 DEF DInv, DraftUnshared, OneFilePerFiling, StoresDated, DraftStored
<1>2. DInv /\ [Next]_vars => DInv'
  BY NextDated
<1> QED
  BY <1>1, <1>2, PTL DEF Spec

\* No file speaks for two filings and no filing through two files, whatever a download holds
\* and however its filings are named (parsing/statements.py).
THEOREM FilesSpeakOnce == ASSUME Configured PROVE Spec => []OneFilePerFiling
<1>1. DInv => OneFilePerFiling
  BY DEF DInv, DraftUnshared
<1> QED
  BY <1>1, DInvHolds, PTL

\* A run that writes its introductions leaves them in time with the facts it wrote.
THEOREM RunsDateTogether ==
  ASSUME Configured
  PROVE  Spec => [][WriteDisclosures =>
                      \A facts \in warehouse'["canonical"], rows \in warehouse'["disclosures"] :
                        InTime(facts, rows)]_vars
<1>1. ASSUME DInv, WriteDisclosures
      PROVE  \A facts \in warehouse'["canonical"], rows \in warehouse'["disclosures"] : InTime(facts, rows)
  <2>1. /\ step = "disclosures"
        /\ warehouse' = [warehouse EXCEPT !["disclosures"] = {IntroductionRows(Standing, config)}]
    BY <1>1 DEF WriteDisclosures, Reached, Replaced, Configured
  <2>2. PICK first : warehouse["canonical"] = {GradedByVersion(FilesMapped(Standing, config, first), config)}
    BY <1>1, <2>1 DEF DInv, DraftStored, GradedNow, MappedNow, Configured
  <2>3. /\ warehouse'["canonical"] = warehouse["canonical"]
        /\ warehouse'["disclosures"] = {IntroductionRows(Standing, config)}
    BY <1>1, <2>1 DEF DInv, IInv, Datasets
  <2>4. IndexTyped(index) /\ Standing \subseteq index
    BY <1>1 DEF DInv, SourcesDated, Standing
  <2>5. InTime(GradedByVersion(FilesMapped(Standing, config, first), config),
               IntroductionRows(Standing, config))
    BY <2>4, OneRunInTime
  <2> QED
    BY <2>2, <2>3, <2>5
<1>2. DInv /\ [Next]_vars
        => [WriteDisclosures =>
              \A facts \in warehouse'["canonical"], rows \in warehouse'["disclosures"] :
                InTime(facts, rows)]_vars
  BY <1>1
<1> QED
  BY <1>2, DInvHolds, PTL DEF Spec

\* The store just written leaks nothing, for any filings, mappings, features and grid, when an
\* entity's registrations are seen in the order of their dates and the store's introductions
\* are no younger than the facts of their files (features/leakage.py).
THEOREM NothingLeaks ==
  ASSUME Configured, SeenInOrder(LegalEventRows)
  PROVE  Spec => [](DisclosedInTime => NoLeak)
<1>1. ASSUME DInv, DisclosedInTime, step = "check"
      PROVE  ~StoreLeaks(ContentOf("features"))
  <2> DEFINE s == ContentOf("features")
             src == SourcesOf(s)
  <2>1. s \in warehouse["features"]
    BY <1>1 DEF DInv, StoresDated, Stored, ContentOf
  <2> HIDE DEF s
  <2>2. /\ src.canonical = s.canonical /\ src.restatements = s.restatements
        /\ src.index = s.index /\ src.disclosures = s.disclosures
        /\ src.events = LegalEventRows /\ src.text = TextRows /\ src.audit = AuditRows
    BY DEF SourcesOf
  <2>3. /\ IndexTyped(s.index)
        /\ Filed(s.canonical, s.index) /\ Filed(s.disclosures, s.index)
        /\ NeverBefore(TextRows, s.index) /\ NeverBefore(AuditRows, s.index)
    BY <1>1, <2>1 DEF DInv, StoresDated
  <2>4. s.restatements = RestatementEvents(s.canonical)
    BY <1>1, <2>1 DEF DInv, IInv, RestatementsCurrent, Configured
  <2>5. InTime(s.canonical, s.disclosures)
    BY <1>1, <2>1 DEF DisclosedInTime
  <2>6. EventsTyped(LegalEventRows)
    BY RowsAssumption DEF RowsAssumption, EventsTyped
  <2> HIDE DEF src
  <2>7. WellDated(src)
    BY <2>2, <2>3, <2>4, <2>5, <2>6 DEF WellDated
  <2>8. ~StoreLeaks(s)
    BY <2>7, WellDatedNeverLeaks DEF src
  <2> QED
    BY <2>8 DEF s
<1>2. DInv => (DisclosedInTime => NoLeak)
  BY <1>1 DEF NoLeak, Reached
<1> QED
  BY <1>2, DInvHolds, PTL

=================================================================================
