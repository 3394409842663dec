------------------------ MODULE MCRedactionMigration ------------------------
\* A bundle of two filings and the detail of one of them, each with its redacted forms, and a
\* statement whose payload is only a signature, which the redaction leaves; one import process.
EXTENDS RedactionMigration, FileRedaction

CONSTANTS bundle, bundleNamed, bundleLoose, detail1, detail1Clean, note, f1, f2, w1

MCContent == {bundle, bundleNamed, bundleLoose, detail1, detail1Clean, note}
MCWriters == {w1}
MCFilings == {f1, f2}

Xml(form, signed, names, payloads) ==
    [kind |-> "xml", form |-> form, signed |-> signed, names |-> names, renamed |-> FALSE,
     payloads |-> payloads, person |-> FALSE]
Pdf(signed, metadata, opens) ==
    [kind |-> "pdf", signed |-> signed, metadata |-> metadata, opens |-> opens, person |-> FALSE]
Container(form, held) == [kind |-> "container", form |-> form, objects |-> held]
Cms(content) == [kind |-> "cms", content |-> content, person |-> FALSE]
ZipOf(names, files) ==
    [kind |-> "zip", members |-> [i \in DOMAIN names |->
        [name |-> names[i], dir |-> FALSE, file |-> files[i]]]]

Signed == <<Container("parsed", <<Xml("parsed", TRUE, "Plik", <<Pdf(TRUE, FALSE, "yes")>>)>>),
            Cms(<<Xml("quoted", FALSE, "none", <<>>)>>)>>
Cleaned == <<[Xml("parsed", FALSE, "Plik", <<Pdf(FALSE, FALSE, "yes")>>) EXCEPT !.renamed = TRUE],
             Xml("quoted", FALSE, "none", <<>>)>>
MCFile ==
    [c \in MCContent |->
        CASE c = bundle -> ZipOf(<<<<"own", f1>>, <<"own", f2>>>>, Signed)
          [] c = bundleNamed -> ZipOf(<<<<"token", f1>>, <<"unmatched", 1>>>>, Cleaned)
          [] c = bundleLoose -> ZipOf(<<<<"unmatched", 1>>, <<"unmatched", 2>>>>, Cleaned)
          [] c = detail1 -> [kind |-> "detail", ref |-> <<f1>>, name |-> <<"own", f1>>]
          [] c = detail1Clean -> [kind |-> "detail", ref |-> <<f1>>, name |-> <<"token", f1>>]
          [] c = note -> Xml("parsed", FALSE, "none", <<Container("parsed", <<>>)>>)]
MCDownloadOf ==
    [c \in MCContent |-> IF c \in {bundle, bundleNamed, bundleLoose} THEN {f1, f2} ELSE {}]
MCDetailOf ==
    [c \in MCContent |-> IF c \in {detail1, detail1Clean} THEN {f1} ELSE {}]

\* The bytes decide what is marked and what redaction makes of it.
ASSUME DocumentsAssumption ==
    /\ \A c, d \in MCContent : MCFile[c] = MCFile[d] => c = d
    /\ \A c \in MCContent : MCDetailOf[c] # {} <=> MCFile[c].kind = "detail"

MCMarked == {c \in MCContent : Marks(MCFile[c])}
FilerName(f, known) == CASE known = "none" -> <<>>
                         [] known = "own" -> <<"own", f>>
                         [] known = "token" -> <<"token", f>>
MCRedactAs(c, names) ==
    LET r == RedactDownload(MCFile[c], [f \in DOMAIN names |-> FilerName(f, names[f])])
    IN  IF r.end = "kept" THEN CHOOSE d \in MCContent : MCFile[d] = r.file ELSE NoContent

ASSUME MarksAssumption == MarksLeftStay

-----------------------------------------------------------------------------
\* Every file of these shapes, nested twice.
Leaves ==
    {[kind |-> "other", person |-> p] : p \in BOOLEAN} \cup {[kind |-> "broken"]}
    \cup {Pdf(s, m, o) : s, m \in BOOLEAN, o \in {"yes", "no", "password"}}
Around(inner) ==
    LET Up == {<<>>} \cup {<<f>> : f \in inner}
    IN  {Cms(c) : c \in Up} \cup {Container(m, o) : m \in {"parsed", "quoted"}, o \in Up}
        \cup {Xml(m, s, n, c) : m \in {"parsed", "quoted", "unparsed"}, s \in BOOLEAN,
                                n \in {"none", "Plik", "Zalacznik"}, c \in Up \ {<<[kind |-> "broken"]>>}}
Files == (Leaves \ {[kind |-> "broken"]}) \cup Around(Leaves)
            \cup Around(Around(Leaves))

\* Holds a payload that is only a signature, or text that names a person.
RECURSIVE Left(_)
Left(f) ==
    CASE f.kind = "xml" -> f.person \/ \E i \in DOMAIN f.payloads :
                              Redact(f.payloads[i]).end = "dropped" \/ Left(f.payloads[i])
      [] f.kind = "container" -> FALSE
      [] f.kind = "pdf" -> f.person \/ f.opens = "no"
      [] OTHER -> f.person

\* Redacting what redaction returned changes nothing, so a file fetched again stores the same
\* object; and the check finds nothing in it but what the redaction does not look for.
ASSUME RedactionIsStable ==
    \A f \in Files : LET r == Redact(f) IN
        r.end = "kept" => Redact(r.file) = r /\ (FileMarked(r.file) => Left(r.file))
=============================================================================
