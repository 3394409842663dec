----------------------------- MODULE FeaturePanel -----------------------------
(* The point-in-time panel: for each statement period, the versions of its     *)
(* figures, each in force from the day a filing arrived or was deleted.        *)
(*                                                                             *)
(* A filing_index row is a record [krs, ref, sha, type, file_name, start, end, *)
(* submitted, deleted, correction]; `deleted` is None while it stands.         *)
EXTENDS SizeClass

CONSTANTS
  Inputs,        \* ratio input -> the canonical lines that carry it
  UseQuarantined \* the feature set's include_quarantined_statements

\* LineItems: an input is carried by lines of one statement, no line carries two
\* inputs, and no section of a body's statement two lines of one.
LineItemsAssumption ==
  /\ \A i \in DOMAIN Inputs :
       /\ Inputs[i] # {}
       /\ Inputs[i] \subseteq DOMAIN ItemType
       /\ Cardinality({ItemType[line] : line \in Inputs[i]}) = 1
       /\ \A b \in DOMAIN Bodies : \A it, other \in Bodies[b] :
            /\ {it.code, other.code} \subseteq Inputs[i]
            /\ <<it.statement, it.section>> = <<other.statement, other.section>>
            => it.code = other.code
  /\ \A i, j \in DOMAIN Inputs : i # j => Inputs[i] \cap Inputs[j] = {}

ASSUME LineItemsAssumption

Row(index, file) == CHOOSE r \in index : r.krs = file.krs /\ r.ref = file.ref

\* _values: the inputs a column carries; two lines of one input are refused.
Clashing(file) ==
  \E column \in {Current, Prior} : \E i \in DOMAIN Inputs :
    Cardinality(Inputs[i] \cap DOMAIN Values(file.facts, column)) > 1

Carried(file, column) ==
  LET values == Values(file.facts, column)
  IN  [i \in {j \in DOMAIN Inputs : Inputs[j] \cap DOMAIN values # {}} |->
         values[CHOOSE line \in Inputs[i] \cap DOMAIN values : TRUE]]

PanelError(canonical, index) ==
  \E f \in canonical :
    \/ Clashing(f)
    \/ ~ \E r \in index : r.krs = f.krs /\ r.ref = f.ref
    \/ \E g \in canonical \ {f} : <<g.krs, g.ref, g.member>> = <<f.krs, f.ref, f.member>>

\* A source of a period's figures: the current-year column of a usable file for its
\* own period, its prior-year column for the one before.
Candidate(index, f, kind, start, end, column) ==
  [krs |-> f.krs, end |-> end, start |-> start, kind |-> kind, known |-> f.known,
   rank |-> (IF kind = "comparative" THEN 2 ELSE 0)
              + IF Row(index, f).correction THEN 1 ELSE 0,
   ref |-> f.ref, member |-> f.member, values |-> Carried(f, column)]

OwnPeriod(index, f) ==
  Candidate(index, f, IF Row(index, f).correction THEN "correction" ELSE "filed",
            f.start, f.end, Current)
YearBefore(index, f) == Candidate(index, f, "comparative", None, f.start - 1, Prior)

Usable(canonical) == {f \in canonical : UseQuarantined \/ f.grade # "quarantined"}

\* A prior-year column speaks only when it has assets.
HasAssets(f) ==
  LET prior == Carried(f, Prior)
  IN  "total_assets" \in DOMAIN prior /\ prior["total_assets"] # 0

Candidates(canonical, index) ==
  {OwnPeriod(index, f) : f \in Usable(canonical)}
    \cup {YearBefore(index, f) : f \in {g \in Usable(canonical) : HasAssets(g)}}

Deleted(index, c) == Row(index, c).deleted

\* Two sources of one rank for one period on one day: neither speaks.  A file
\* deleted by the day it was filed never spoke.
Live(candidates, index) ==
  {c \in candidates :
     /\ ~ \E d \in candidates \ {c} : /\ d.krs = c.krs /\ d.end = c.end
                                      /\ d.known = c.known /\ d.rank = c.rank
     /\ Deleted(index, c) # None => Deleted(index, c) > c.known}

\* speaks_on without the test that the filing had been made by that day.
SpeaksUntilDeleted(c, index, day) == Deleted(index, c) = None \/ day < Deleted(index, c)

\* speaks_on: known by the end of the day, and not yet deleted.
SpeaksOn(c, index, day) ==
  /\ c.known <= day
  /\ Deleted(index, c) = None \/ day < Deleted(index, c)

\* The source in force at the end of a day, in a set of at most one: a filed
\* statement before a prior-year column, within a kind the latest.
InForce(period, index, day) ==
  LET speaking == {c \in period : SpeaksOn(c, index, day)}
      filed == {c \in speaking : c.kind # "comparative"}
      pool  == IF filed # {} THEN filed ELSE speaking
  IN  {c \in pool : \A d \in pool : \/ c.known > d.known
                                    \/ c.known = d.known /\ c.rank >= d.rank}

\* The days a source arrives or is deleted, and the source before such a day.
Days(period, index) ==
  {c.known : c \in period} \cup ({Deleted(index, c) : c \in period} \ {None})
Previous(period, index, day) ==
  LET before == {d \in Days(period, index) : d < day}
  IN  IF before = {} THEN {} ELSE InForce(period, index, Max(before))

\* _rows
Version(c, day, kind, start, values) ==
  [krs |-> c.krs, end |-> c.end, known |-> day, kind |-> kind, start |-> start,
   ref |-> c.ref, member |-> c.member, values |-> values]

\* A period's versions: a new one on each day its source changes, a withdrawn
\* one on the day it loses its last.
VersionsOn(now, before, day) ==
  IF now = before THEN {}
  ELSE IF now # {} THEN {Version(c, day, c.kind, c.start, c.values) : c \in now}
  ELSE {Version(c, day, "withdrawn", None, <<>>) : c \in before}
PeriodVersions(period, index) ==
  UNION {VersionsOn(InForce(period, index, day), Previous(period, index, day), day) :
         day \in Days(period, index)}

\* build_panel
Panel(canonical, index) ==
  LET live == Live(Candidates(canonical, index), index)
  IN  UNION {PeriodVersions({c \in live : c.krs = k[1] /\ c.end = k[2]}, index) :
             k \in {<<c.krs, c.end>> : c \in live}}

\* _Snapshot: each period's latest version known on a day, unless withdrawn.
Snapshot(versions, day) ==
  LET known == {v \in versions : v.known <= day}
  IN  {v \in known : /\ v.kind # "withdrawn"
                     /\ \A w \in known : w.end = v.end => w.known <= v.known}
===============================================================================
