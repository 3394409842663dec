---------------------------- MODULE FileRedaction ----------------------------
(***************************************************************************)
(* acquisition/redaction.py: what is taken out of a download before it is  *)
(* hashed and stored, and the independent check of what is left.  Files    *)
(* nest: a ZIP holds files, a signature wraps one, a statement carries     *)
(* others as base64 payloads.  Bytes are abstracted to what the redaction  *)
(* and the check look at:                                                  *)
(*   other      person: its text spells a marker                           *)
(*   pdf        signed, metadata, person; opens: yes, no or password       *)
(*   cms        content: the one document it signs, or none (detached)     *)
(*   container  a signature as root; objects: what its ds:Objects hold     *)
(*   xml        signed, names ("none", "Plik" or "Zalacznik", and whether  *)
(*              they are renamed), payloads, person                        *)
(*   broken     an Object that cannot be read as one document              *)
(* An XML file is parsed, or refused by the parser: quoted-printable       *)
(* ("quoted") or damaged ("unparsed").  A certificate goes with every      *)
(* ds:Signature.  Names are <<"own", x>>, <<"token", filing>> or           *)
(* <<"unmatched", n>>; extensions are left out.                            *)
(***************************************************************************)
EXTENDS Integers, Sequences, FiniteSets, SequencesExt

Refused == [end |-> "refused"]              \* RedactionError
Dropped == [end |-> "dropped"]              \* only a signature
Kept(f) == [end |-> "kept", file |-> f]
AnyRefused(results) == \E i \in DOMAIN results : results[i].end = "refused"
KeptOf(results) == SelectSeq(results, LAMBDA r : r.end = "kept")

-----------------------------------------------------------------------------
\* redact_file.

\* _redact_pdf: left alone unless its bytes name a signature or metadata.
RedactPdf(f) ==
    IF ~ f.signed /\ ~ f.metadata THEN Kept(f)
    ELSE IF f.opens # "yes" THEN Refused
    ELSE Kept([f EXCEPT !.signed = FALSE, !.metadata = FALSE])

\* _unwrap_container: the one document its Objects hold; none when all are signatures.
Unwrapped(results) ==
    IF AnyRefused(results) \/ Len(KeptOf(results)) > 1 THEN Refused
    ELSE IF KeptOf(results) = <<>> THEN Dropped ELSE KeptOf(results)[1]

\* _unwrap_cms: the document a SignedData carries; a detached one carries none.
UnwrappedCms(results) == IF results = <<>> THEN Dropped ELSE results[1]

\* _redact_xml: signatures out, attachments renamed, payloads redacted in place; one that is
\* only a signature stays.
ParsedXml(f, results) ==
    IF AnyRefused(results) THEN Refused
    ELSE Kept([f EXCEPT !.signed = FALSE, !.renamed = (f.names # "none"),
                        !.payloads = [i \in DOMAIN f.payloads |->
                            IF results[i].end = "kept" THEN results[i].file ELSE f.payloads[i]]])

\* XML no parser accepts: by bytes, and refused where only a parse would do.
UnparsedXml(f, results) ==
    IF f.names = "Zalacznik" \/ \E i \in DOMAIN results : results[i].end # "kept" THEN Refused
    ELSE Kept([f EXCEPT !.signed = FALSE, !.renamed = (f.names # "none"),
                        !.payloads = [i \in DOMAIN f.payloads |-> results[i].file]])

\* Decoded quoted-printable is kept only when something was taken out.
Decoded(f, result) ==
    CASE result.end = "dropped" -> Refused
      [] result.end = "refused" -> Refused
      [] OTHER -> IF result.file = [f EXCEPT !.form = "parsed"] THEN Kept(f) ELSE result

RECURSIVE Redact(_)
Redact(f) ==
    CASE f.kind = "other" -> Kept(f)
      [] f.kind = "broken" -> Refused
      [] f.kind = "pdf" -> RedactPdf(f)
      [] f.kind = "cms" -> UnwrappedCms([i \in DOMAIN f.content |-> Redact(f.content[i])])
      [] f.kind \in {"container", "xml"} /\ f.form = "quoted" ->
            Decoded(f, Redact([f EXCEPT !.form = "parsed"]))
      [] f.kind = "container" -> Unwrapped([i \in DOMAIN f.objects |-> Redact(f.objects[i])])
      [] f.kind = "xml" ->
            LET results == [i \in DOMAIN f.payloads |-> Redact(f.payloads[i])]
            IN  IF f.form = "parsed" THEN ParsedXml(f, results) ELSE UnparsedXml(f, results)

\* _file_markers: a payload of a file that no parser accepts is not looked into.
RECURSIVE FileMarked(_)
FileMarked(f) ==
    CASE f.kind = "pdf" -> f.person \/ f.signed \/ f.metadata \/ f.opens = "no"
      [] f.kind = "container" -> TRUE
      [] f.kind = "xml" ->
            \/ f.person \/ f.signed
            \/ f.names # "none" /\ (~ f.renamed \/ (f.form # "parsed" /\ f.names = "Zalacznik"))
            \/ f.form = "parsed" /\ \E i \in DOMAIN f.payloads : FileMarked(f.payloads[i])
      [] OTHER -> f.person

-----------------------------------------------------------------------------
\* redact_download: a ZIP of statement files, or a single file.  names[r]: the filer's name of
\* filing r's file, <<>> when not known.

\* _member_names: the filing's token for its one file; else the token of the one filing whose
\* name a member bears alone, or unmatched.
MemberNames(members, names) ==
    LET Named(m) == {r \in DOMAIN names : names[r] = m.name}
        Sure(i) == /\ Cardinality(Named(members[i])) = 1
                   /\ \A j \in DOMAIN members : members[j].name = members[i].name => j = i
        Token(r) == <<"token", r>>
    IN  [i \in DOMAIN members |->
            IF Len(members) = 1 /\ Cardinality(DOMAIN names) = 1
            THEN Token(CHOOSE r \in DOMAIN names : TRUE)
            ELSE IF Sure(i) THEN Token(CHOOSE r \in Named(members[i]) : TRUE)
            ELSE <<"unmatched", Cardinality({j \in 1..i : ~ Sure(j)})>>]

RedactZip(d, names) ==
    LET files == SelectSeq(d.members, LAMBDA m : ~ m.dir)
        results == [i \in DOMAIN files |-> Redact(files[i].file)]
        content == SelectSeq([i \in DOMAIN files |-> [name |-> files[i].name, r |-> results[i]]],
                             LAMBDA m : m.r.end = "kept")
        renamed == MemberNames(content, names)
    IN  IF DOMAIN names = {} \/ AnyRefused(results) \/ content = <<>> THEN Refused
        ELSE Kept([d EXCEPT !.members = [i \in DOMAIN content |->
                       [name |-> renamed[i], dir |-> FALSE, file |-> content[i].r.file]]])

\* redact_rdf_detail: nazwaPliku becomes the token of the detail's identyfikator.
RedactDetail(d) ==
    IF d.name = <<>> THEN Kept(d)
    ELSE IF d.ref = <<>> THEN Refused
    ELSE Kept([d EXCEPT !.name = <<"token", d.ref[1]>>])

RedactDownload(d, names) ==
    CASE d.kind = "detail" -> RedactDetail(d)
      [] d.kind = "zip" -> RedactZip(d, names)
      [] OTHER -> IF Redact(d).end = "dropped" THEN Refused ELSE Redact(d)

\* personal_data_markers, without the filings a token must be of.
Marks(d) ==
    CASE d.kind = "detail" -> d.name # <<>> /\ (d.ref = <<>> \/ d.name # <<"token", d.ref[1]>>)
      [] d.kind = "zip" -> \E i \in DOMAIN d.members :
                              \/ d.members[i].dir \/ d.members[i].name[1] = "own"
                              \/ FileMarked(d.members[i].file)
      [] OTHER -> FileMarked(d)
=============================================================================
