--------------------------- MODULE MCLegalLabels ---------------------------
\* A month of two days; a bankruptcy seen by both registers, and what may surround it.
EXTENDS LegalLabels

Row(type, source, case, decided, date, known) ==
    [type |-> type, source |-> source, case |-> case,
     decided |-> decided, date |-> date, known |-> known]

\* Decided on d; in MSiG m days later with or without its date, in the KRS k days later.
TwoSources(type, case, d, m, msigDate, k) ==
    {Row(type, "MSiG", case, d, msigDate, d + m), Row(type, "KRS", NoCase, d, d, d + k)}

Undated(case, d, k) == TwoSources("bankruptcy_declared", case, d, 1, NoDate, k)
Dated(case, d, k) == TwoSources("bankruptcy_declared", case, d, 0, d, k)
Petition(d, k) == TwoSources("bankruptcy_petition", "GU", d, 1, NoDate, k)
Deregistration(d) == {Row("deregistered", "KRS", NoCase, d, d, d)}
Closing(d, k) == {Row("bankruptcy_proceeding_ended", "KRS", NoCase, d, d, d + k)}
Merger(d) == {Row("merger_division_transformation", "MSiG", NoCase, d, d, d)}

MCHistories ==
    {Undated(c, d, 2) : c \in {NoCase, "GU"}, d \in {3, 4}}
      \union {Dated("GU", d, 2) : d \in {2, 5}}
      \union {Undated("GU", 4, 2) \union Deregistration(7)}
      \union {Dated(NoCase, 1, 1) \union Closing(2, k) \union Undated(NoCase, 4, 2) : k \in {0, 2}}
      \union {Petition(d, 2) \union Dated("GUp", 6, 1) : d \in {1, 4}}
      \union {Merger(3) \union Deregistration(d) : d \in {4, 6}}
      \union {Deregistration(4)}
\* What the theorem about OutcomeNeverUndone asks of the histories.
ASSUME NoticesAssumption == \A rows \in MCHistories : NoticesInTime(rows)
=============================================================================
