---------------------------- MODULE MCFeatureStore ----------------------------
(* Two companies over three years of four days.  Company k1 files a year, a    *)
(* correction that is later deleted, the next year in a structure only the     *)
(* second config maps, and a third year declared in the wrong unit; company k2 *)
(* files a ZIP with an ambiguous envelope and a statement that does not tie.   *)
EXTENDS FeatureStore

MCItemType == [l \in {"assets", "fixed", "current", "own", "passives", "equity", "capital",
                      "debts", "result"} |-> "balance_sheet"]
              @@ [l \in {"revenue", "turnover", "costs", "net"} |-> "income_statement"]
MCStatementType == [Bilans |-> "balance_sheet", RZiS |-> "income_statement"]

LOCAL Item(path, parent, code, statement) ==
  [path |-> path, parent |-> parent, code |-> code, statement |-> statement, section |-> "",
   header |-> FALSE, of_which |-> FALSE, required |-> FALSE,
   user_code |-> "", user_of_which |-> FALSE]
LOCAL Within(section, item) == [item EXCEPT !.section = section]
LOCAL Full ==
  {[Item("A", "", "assets", "Bilans") EXCEPT !.required = TRUE, !.user_code = "own"],
   Item("A.I", "A", "fixed", "Bilans"), Item("A.II", "A", "current", "Bilans"),
   Item("P", "", "passives", "Bilans"),
   Item("P.A", "P", "equity", "Bilans"), Item("P.B", "P", "debts", "Bilans"),
   [Item("P.A.I", "P.A", "capital", "Bilans") EXCEPT !.of_which = TRUE],
   Within("by nature", Item("R", "", "revenue", "RZiS")),
   Within("by nature", Item("K", "", "costs", "RZiS")),
   Within("by nature", Item("N", "", "net", "RZiS")),
   Within("by function", Item("S", "", "turnover", "RZiS"))}
LOCAL Short == {Item("A", "", "assets", "Bilans"), Item("P", "", "passives", "Bilans"),
                Item("R", "", "revenue", "RZiS"), Item("N", "", "net", "RZiS")}
MCBodies == [full |-> Full, short |-> Short]
MCFormulas == [full |-> [net |-> {<<1, "revenue">>, <<-1, "costs">>}],
               short |-> <<>>]
MCUnchecked == [full |-> {}, short |-> {"RZiS"}]
MCRoles == [total_assets |-> {"assets"}, total_equity_and_liabilities |-> {"passives"},
            net_result |-> {"net"}, net_result_balance_sheet |-> {"result"},
            net_cash_flow |-> {}, cash_opening |-> {}, cash_closing |-> {},
            cash_fx_effect |-> {}]

\* A document of the amounts of each column, in line order.
LOCAL Lines(amounts, lines) == [i \in 1..Len(lines) |-> <<lines[i], amounts[i]>>]
LOCAL FullLines == <<"assets", "fixed", "current", "passives", "equity", "debts", "capital",
                     "revenue", "costs", "net">>
LOCAL Cells(column, amounts) ==
  {[shape |-> IF l[1] \in {"revenue", "costs", "net"} THEN "R" ELSE "B",
    item |-> l[1], column |-> column, amount |-> l[2]] : l \in ToSet(Lines(amounts, FullLines))}
LOCAL Doc(key, start, end, now, prior, restated, employment) ==
  [key |-> key, root |-> TRUE, unit |-> "zl", start |-> start, end |-> end,
   shapes |-> {"B", "R"}, twice |-> {}, sections |-> {"by nature"},
   cells |-> Cells(Current, now)
               \cup (IF prior = <<>> THEN {} ELSE Cells(Prior, prior))
               \cup (IF restated = <<>> THEN {} ELSE Cells(PriorRestated, restated)),
   user_lines |-> {}, malformed |-> FALSE, violations |-> {}, blocks |-> 1,
   introduction |-> {[item |-> "going_concern_threat", value |-> 0]}
                      \cup {[item |-> "average_employment", value |-> e] : e \in employment}]
LOCAL Xml(doc) == [kind |-> "xml_statement", doc |-> doc]
LOCAL Of2018 == Doc("v1", 1, 4, <<2, 1, 1, 2, 1, 1, 1, 2, 1, 1>>, <<>>, <<>>, {2})
LOCAL Corrected ==
  Doc("v1", 1, 4, <<3, 1, 2, 3, 1, 2, 1, 3, 1, 2>>,
      <<1, 1, 0, 1, 1, 0, 1, 1, 1, 0>>, <<>>, {})
LOCAL Of2019 ==
  [Doc("v2", 5, 8, <<4, 2, 2, 4, 2, 2, 1, 3, 1, 2>>,
       <<2, 1, 1, 2, 1, 1, 1, 2, 1, 1>>, <<3, 1, 2, 3, 1, 2, 1, 3, 1, 2>>, {3})
     EXCEPT !.violations = {[path |-> "notes", error |-> "empty"]}]
LOCAL Of2020 ==
  Doc("v1", 9, 12, <<5, 2, 3, 5, -1, 6, 1, 4, 1, 3>>,
      <<40, 20, 20, 40, 20, 20, 10, 30, 10, 20>>, <<>>, {})
LOCAL OfAnother == Doc("v1", 1, 4, <<2, 1, 1, 2, 1, 1, 1, 2, 1, 1>>, <<>>, <<>>, {})
LOCAL Untied == Doc("v1", 5, 8, <<3, 1, 2, 1, 1, 0, 1, 2, 1, 1>>, <<>>, <<>>, {})
LOCAL Bare(layers) == [zip |-> FALSE, layers |-> layers]
LOCAL Envelope(kind) == [kind |-> kind]
MCDownload == <<
  Bare(<<"raw">> :> Xml(Of2018)),
  [zip |-> TRUE,
   layers |-> <<"2018.xml">> :> Xml(Corrected) @@ <<"2018.sig">> :> Envelope("signature")],
  Bare(<<"raw">> :> Envelope("signature") @@ <<"raw", 1>> :> Xml(Of2019)),
  [zip |-> TRUE,
   layers |-> <<"b.xml">> :> Envelope("epuap") @@ <<"b.xml", 1>> :> Xml(OfAnother)
              @@ <<"b.xml", 2>> :> Xml(OfAnother) @@ <<"c.xml">> :> Xml(Untied)
              @@ <<"d.pdf">> :> [kind |-> "pdf", doc |-> NoDoc]],
  Bare(<<"raw">> :> Xml(Of2020))>>

LOCAL Spec_(version, shapes) ==
  [version |-> version, hash |-> version, units |-> [zl |-> 1], shapes |-> shapes,
   overrides |-> <<>>]
LOCAL Shapes_ == [Bilans |-> <<[xpath |-> "B", body |-> "full"], [xpath |-> "M", body |-> "short"]>>,
                  RZiS |-> <<[xpath |-> "R", body |-> "full"]>>]
LOCAL First == [catalogued |-> {}, specs |-> [v1 |-> Spec_("v1", Shapes_)], tolerances |-> {},
                corrections |-> {},
                introduction |-> [v1 |-> {"going_concern_threat", "average_employment"}]]
LOCAL Second ==
  [First EXCEPT
     !.specs = [v1 |-> Spec_("v1", Shapes_), v2 |-> Spec_("v2", Shapes_)],
     !.tolerances = {[versions |-> {}, paths |-> {"notes"}, errors |-> {"empty"}]},
     !.introduction = [v \in {"v1", "v2"} |-> {"going_concern_threat", "average_employment"}]]
MCConfig == [c1 |-> First, c2 |-> Second]
MCConfigs == DOMAIN MCConfig

LOCAL Filing(ref, krs, sha, start, end, submitted, name, correction) ==
  [ref |-> ref, krs |-> krs, sha |-> sha, type |-> "18", file_name |-> name,
   start |-> start, end |-> end, submitted |-> submitted, deleted |-> None,
   correction |-> correction, pdf_name |-> name = "d.pdf"]
MCImports ==
  {{Filing(1, "k1", 1, 1, 4, 6, "", FALSE), Filing(2, "k1", 2, 1, 4, 8, "2018.xml", TRUE),
    Filing(3, "k1", 3, 5, 8, 12, "", FALSE), Filing(4, "k2", 4, 1, 4, 6, "b.xml", FALSE),
    Filing(5, "k2", 4, 5, 8, 10, "c.xml", FALSE), Filing(6, "k2", 4, 5, 8, 11, "d.pdf", FALSE),
    Filing(7, "k1", 5, 9, 12, 14, "", FALSE)},
   {Filing(8, "k2", 1, 1, 4, 9, "", FALSE)}}
MCDeletions == {<<2, 13>>}

MCLegalEventRows ==
  {[krs |-> k, type |-> t, date |-> d, known |-> n, removed |-> r] :
     <<k, t, d, n, r>> \in {<<"k1", "registered", 2, 2, None>>,
                            <<"k1", "board_change", 5, 9, None>>,
                            <<"k1", "bankruptcy_petition", None, 10, 12>>,
                            <<"k2", "registered", None, 3, None>>}}
MCFetches == {[krs |-> k, source |-> s, day |-> d] :
                <<k, s, d>> \in {<<"k1", "krs", 15>>, <<"k1", "msig", 15>>,
                                 <<"k2", "krs", 15>>, <<"k2", "msig", 15>>}}
MCTextRows ==
  {[krs |-> "k1", ref |-> r[1], member |-> <<"raw">>, end |-> r[2], known |-> r[3],
    document |-> "statement_notes", signal |-> "threat", status |-> r[4], present |-> r[5]] :
     r \in {<<1, 4, 6, "read", 0>>, <<2, 4, 8, "failed", 0>>, <<3, 8, 12, "partial", 1>>}}
MCAuditRows ==
  {[krs |-> "k1", ref |-> 1, member |-> <<"raw">>, end |-> 4, known |-> 6,
    facts |-> [modified_opinion |-> FALSE]],
   [krs |-> "k1", ref |-> 3, member |-> <<"raw">>, end |-> 8, known |-> 12,
    facts |-> [modified_opinion |-> TRUE, auditor_changed |-> TRUE]]}

LOCAL Limits == [c \in Criteria |-> <<1, 2, 3>>]
MCRegimes == {[id |-> "old", from |-> 1, to |-> 4, carry_over |-> FALSE, thresholds |-> Limits],
              [id |-> "new", from |-> 5, to |-> 99, carry_over |-> TRUE, thresholds |-> Limits]}
MCRevenueRules == <<[when |-> {"revenue", "costs"}, low |-> {<<1, "costs">>},
                     high |-> {{<<1, "revenue">>}}],
                    [when |-> {"revenue"}, low |-> {<<1, "revenue">>}, high |-> {}]>>
MCInputs == [total_assets |-> {"assets"}, current_assets |-> {"current"}, equity |-> {"equity"},
             share_capital |-> {"capital"}, debts |-> {"debts"}, revenue |-> {"revenue", "turnover"},
             net_result |-> {"net"}]
MCTripwires == [art_233 |-> [from |-> 1, to |-> 99, losses |-> {"net_result"},
                             threshold |-> {<<1, "share_capital">>}, equity |-> "equity",
                             offsets |-> {"debts"}, non_negative |-> {"share_capital"}]]

LOCAL Ratio(name, family, n, d, positive) ==
  [name |-> name, family |-> family, kind |-> "ratio", numerator |-> {<<1, n>>},
   denominator |-> {<<1, d>>}, positive |-> positive, null_when_negative |-> {"share_capital"}]
LOCAL FilingMetric(m) == [name |-> m, family |-> "filing", kind |-> "filing", metric |-> m,
                          lookback |-> IF m \in {"missing_years", "late_filings"} THEN 2
                                       ELSE None]
MCFeatureSet ==
  {Ratio("roe", "financial", "net_result", "equity", TRUE),
   Ratio("equity_to_assets", "financial", "equity", "total_assets", FALSE),
   Ratio("liability_days", "construction", "debts", "revenue", TRUE),
   [name |-> "growth", family |-> "financial", kind |-> "growth", input |-> "revenue", years |-> 1],
   [name |-> "volatility", family |-> "financial", kind |-> "volatility",
    of |-> "equity_to_assets", years |-> 2],
   [name |-> "art_233", family |-> "tripwire", kind |-> "tripwire", rule |-> "art_233"],
   [name |-> "negative_equity", family |-> "tripwire", kind |-> "below_zero", input |-> "equity"],
   [name |-> "board", family |-> "registry", kind |-> "event_count", types |-> {"board_change"},
    window |-> 4],
   [name |-> "petitions", family |-> "legal_history", kind |-> "event_count",
    types |-> {"bankruptcy_petition"}, window |-> None],
   [name |-> "threat", family |-> "disclosure", kind |-> "disclosure_flag",
    item |-> "going_concern_threat", negate |-> TRUE],
   [name |-> "employment", family |-> "disclosure", kind |-> "disclosure_number",
    item |-> "average_employment"],
   [name |-> "text", family |-> "text", kind |-> "text_flag", document |-> "statement_notes",
    signal |-> "threat"],
   [name |-> "text_years", family |-> "text", kind |-> "text_years",
    document |-> "statement_notes", signal |-> "threat"],
   [name |-> "audit", family |-> "audit", kind |-> "audit_flag", item |-> "auditor_changed"],
   [name |-> "audit_years", family |-> "audit", kind |-> "audit_years",
    item |-> "modified_opinion"],
   [name |-> "audit_age", family |-> "audit", kind |-> "audit_age", item |-> "modified_opinion"],
   [name |-> "size", family |-> "size", kind |-> "size_class"]}
  \cup {FilingMetric(m) : m \in {"days_to_file_latest", "missing_years", "late_filings",
          "corrections", "statements_quarantined", "latest_filed_as_pdf",
          "restating_filings", "restatement_max_to_assets"}}

MCMayBeNegative == {"equity"}
MCFlows == {"revenue", "net_result"}
MCBand == {3, 4, 5}
MCExtensions == {[from |-> 5, to |-> 8, extra |-> 1]}
===============================================================================
