------------------------- MODULE AccountingIdentities -------------------------
(* The identity checks on canonical facts, the grade they give a file, the     *)
(* plausibility flags that cap it, and the restatements between two files.     *)
(*                                                                             *)
(* A parsed file is a record [sha, member, krs, ref, version, start, end,      *)
(* known, run, facts, capped]; a graded one also has its grade.                *)
EXTENDS StatementFiles

CONSTANTS
  Roles,          \* role -> the canonical lines that play it
  Formulas,       \* body -> computed line -> its operands <<sign, line>>
  Unchecked,      \* body -> the statements whose subtotals are not checked
  Tolerance,      \* identity tolerance
  WarnShare,      \* a subtotal off by at most assets / WarnShare is immaterial
  YearLength,     \* days of a fiscal year
  MayBeNegative,  \* balance-sheet lines the forms allow below zero
  ShareCapital,   \* the line that tells which of two files is off
  Thousand,       \* the factor between the two units
  MinShared       \* lines two files share before their units are compared

\* StatementBody, SignCheck: formulas over lines of the body, and balance-sheet
\* lines the forms allow below zero.
ChecksAssumption ==
  /\ \A b \in DOMAIN Formulas : \A line \in DOMAIN Formulas[b] :
       {line} \cup {o[2] : o \in Formulas[b][line]} \subseteq Codes(Bodies[b])
  /\ \A line \in MayBeNegative : ItemType[line] = "balance_sheet"

ASSUME ChecksAssumption

Current == "current_year"
Prior == "prior_year"
PriorRestated == "prior_year_restated"
Columns == {Current, Prior, PriorRestated}
FiscalYear(day) == ((day - 1) \div YearLength) + 1
Magnitude(x) == IF x < 0 THEN -x ELSE x

\* What `over` maps, and of what it does not what `under` maps.
Overlaid(over, under) ==
  [x \in DOMAIN over \cup DOMAIN under |-> IF x \in DOMAIN over THEN over[x] ELSE under[x]]

\* The values of one column by line; a line is in a file's column once.
Values(facts, column) ==
  LET part == {f \in facts : f.column = column}
  IN  [i \in {f.item : f \in part} |-> (CHOOSE f \in part : f.item = i).value]

\* _role_value: the lines that play a role and that the column carries.
Playing(values, role) == Roles[role] \cap DOMAIN values
Has(values, role) == Playing(values, role) # {}
RoleValue(values, role) == values[CHOOSE i \in Playing(values, role) : TRUE]

\* _bodies_filed: the body of the shape the facts came from, the first shape's
\* where none matches.
CheckedBody(spec, facts, name) ==
  LET filed == SelectSeq(spec.shapes[name],
                         LAMBDA s : \E f \in facts : f.xpath = s.xpath)
  IN  Head(filed \o spec.shapes[name]).body

\* _subtotal_rules: a computed line with its formula, or with the lines under
\* it and the filer's own, but no "of which" line.
Operands(body, items, parent) ==
  IF parent.code \in DOMAIN Formulas[body] THEN Formulas[body][parent.code]
  ELSE LET children == {<<1, c.code>> : c \in {d \in items : d.parent = parent.path
                                                 /\ d.code # "" /\ ~d.of_which}}
       IN  children \cup
             IF children # {} /\ parent.user_code # "" /\ ~parent.user_of_which
             THEN {<<1, parent.user_code>>} ELSE {}

SubtotalRules(spec, facts) ==
  UNION {LET body  == CheckedBody(spec, facts, n)
             items == {i \in Bodies[body] : i.statement = n}
             Line(c) == Canonical(spec, c)
         IN  IF n \in Unchecked[body] THEN {}
             ELSE {[line |-> Line(p.code),
                    operands |-> {<<o[1], Line(o[2])>> : o \in Operands(body, items, p)}] :
                     p \in {i \in items : i.code # "" /\ ~i.header}} :
         n \in DOMAIN spec.shapes}

Tie(check, expected, actual) ==
  [check |-> check, off |-> actual - expected,
   fails |-> Magnitude(actual - expected) > Tolerance]

\* balance_sheet_balances, profit_ties and cashflow_ties; a tie with a missing
\* side is not applicable.  A difference the exchange-rate effect explains ties.
Ties(values) ==
  LET TieOf(check, a, b) ==
        IF Has(values, a) /\ Has(values, b)
        THEN {Tie(check, RoleValue(values, a), RoleValue(values, b))} ELSE {}
      cash == IF /\ Has(values, "net_cash_flow") /\ Has(values, "cash_opening")
                 /\ Has(values, "cash_closing")
              THEN {Tie("cashflow_ties",
                        RoleValue(values, "cash_closing") - RoleValue(values, "cash_opening"),
                        RoleValue(values, "net_cash_flow"))}
              ELSE {}
      ByFx(t) == /\ Has(values, "cash_fx_effect")
                 /\ Magnitude(Magnitude(t.off) - Magnitude(RoleValue(values, "cash_fx_effect")))
                      <= Tolerance
  IN  TieOf("balance_sheet_balances", "total_assets", "total_equity_and_liabilities")
        \cup TieOf("profit_ties", "net_result", "net_result_balance_sheet")
        \cup {[t EXCEPT !.fails = @ /\ ~ByFx(t)] : t \in cash}

\* subtotals_consistent, over the operands reported: nothing is imputed.
Subtotals(spec, facts, values) ==
  LET Reported(r) == {o \in r.operands : o[2] \in DOMAIN values}
      Total(r) == MapThenSumSet(LAMBDA o : o[1] * values[o[2]], Reported(r))
  IN  {Tie("subtotals_consistent", Total(r), values[r.line]) :
         r \in {q \in SubtotalRules(spec, facts) :
                  q.line \in DOMAIN values /\ Reported(q) # {}}}

\* run_identity_checks on one column of a file.
Checked(spec, facts, column) ==
  LET part   == {f \in facts : f.column = column}
      values == Values(facts, column)
  IN  Ties(values) \cup Subtotals(spec, part, values)

\* _with_severity: only the current year's own figures can be material.
Material(spec, facts) ==
  LET values == Values(facts, Current)
      Small(t) == /\ t.check = "subtotals_consistent"
                  /\ Has(values, "total_assets")
                  /\ Magnitude(t.off) * WarnShare
                       <= Magnitude(RoleValue(values, "total_assets"))
  IN  {t \in Checked(spec, facts, Current) : t.fails /\ ~Small(t)}

Failing(spec, facts) ==
  {t \in UNION {Checked(spec, facts, c) : c \in {f.column : f \in facts}} : t.fails}

Severity(quarantines, warns) ==
  CASE quarantines -> "quarantined"
    [] ~quarantines /\ warns -> "warn"
    [] OTHER -> "pass"

\* grade
Grade(spec, file, capped) ==
  Severity(Material(spec, file.facts) # {}, Failing(spec, file.facts) # {} \/ capped)

----------------------------------------------------------------------------
(* Plausibility of units and signs *)

\* sign_plausibility: a balance-sheet line below zero the forms do not allow.
SignSuspect(file) ==
  \E f \in file.facts : /\ f.type = "balance_sheet" /\ f.value < 0
                        /\ f.item \notin MayBeNegative

NonZero(values) == {i \in DOMAIN values : values[i] # 0}
NearThousand(a, b) == \/ Magnitude(a) = Thousand * Magnitude(b)
                      \/ Magnitude(b) = Thousand * Magnitude(a)

\* The prior-year column by line, as published where a line is in both.
PriorValues(facts) ==
  LET restated == Values(facts, PriorRestated)
      prior    == Values(facts, Prior)
  IN  [i \in NonZero(prior) \cup NonZero(restated) |->
         IF i \in NonZero(prior) THEN prior[i] ELSE restated[i]]

\* scaled_pairs: two files that report one period, the later one as its prior
\* year, on lines of which most are a thousand apart.
Scaled(files, a, b) ==
  LET now  == Values(a.facts, Current)
      then == PriorValues(b.facts)
      shared == NonZero(now) \cap DOMAIN then
      Ends == {f.end : f \in {g \in files : g.krs = b.krs
                                /\ FiscalYear(g.end) = FiscalYear(b.end) - 1}}
  IN  /\ a # b /\ a.krs = b.krs /\ a.known <= b.known
      /\ Ends # {} /\ a.end = Min(Ends)
      /\ Cardinality(shared) >= MinShared
      /\ 2 * Cardinality({i \in shared : NearThousand(now[i], then[i])})
           > Cardinality(shared)

\* suspects: the side whose share capital is a thousand from the entity's other
\* files', both sides when that cannot tell.
UnitSuspects(files) ==
  LET Capital(f) == Values(f.facts, Current)
      Stated(f) == ShareCapital \in DOMAIN Capital(f) /\ Capital(f)[ShareCapital] > 0
      Others(p) == {Capital(f)[ShareCapital] :
                      f \in {g \in files \ {p[1], p[2]} : g.krs = p[1].krs /\ Stated(g)}}
      Median(set) == SetToSortSeq(set, <)[(Cardinality(set) \div 2) + 1]
      Off(p) == {f \in {p[1], p[2]} :
                   /\ Others(p) # {} /\ Stated(f)
                   /\ NearThousand(Capital(f)[ShareCapital], Median(Others(p)))}
  IN  UNION {IF Cardinality(Off(p)) = 1 THEN Off(p) ELSE {p[1], p[2]} :
             p \in {q \in files \X files : Scaled(files, q[1], q[2])}}

\* The files of one run, graded: tolerated, corrected and suspected ones capped.
Graded(files, specs) ==
  LET suspects == UnitSuspects(files)
  IN  {Overlaid(f, [grade |-> Grade(specs[f.version], f,
                                    f.capped \/ f \in suspects \/ SignSuspect(f))]) :
       f \in files}

----------------------------------------------------------------------------
(* Restatements *)

\* prior_year_consistency: the latest file known by then for the period that
\* ends the day before this one's.
Reference(files, doc) ==
  LET before == {d \in files : /\ d.krs = doc.krs /\ d.end = doc.start - 1
                               /\ d.known <= doc.known}
  IN  {d \in before : \A e \in before :
         \/ d.known > e.known
         \/ d.known = e.known /\ d.ref >= e.ref}

RestatementsOf(files, doc) ==
  UNION {{[krs |-> doc.krs, ref |-> doc.ref, period_end |-> r.end, item |-> f.item,
           column |-> f.column, known |-> doc.known,
           difference |-> f.value - Values(r.facts, Current)[f.item]] :
            f \in {g \in doc.facts :
                     /\ g.column # Current
                     /\ g.item \in DOMAIN Values(r.facts, Current)
                     /\ Magnitude(g.value - Values(r.facts, Current)[g.item])
                          > Tolerance}} :
         r \in Reference(files, doc)}

\* restatement_events: from the files graded `pass` or `warn`.
RestatementEvents(canonical) ==
  LET trusted == {f \in canonical : f.grade # "quarantined"}
  IN  UNION {RestatementsOf(trusted, d) : d \in trusted}
===============================================================================
