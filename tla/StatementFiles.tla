---------------------------- MODULE StatementFiles ----------------------------
(*************************************************************************)
(* Parsing of one stored download: unwrapping, pairing with the filing   *)
(* index, detection, XSD tolerances, mapping to canonical facts, the     *)
(* introduction.                                                         *)
(*                                                                       *)
(* A download is [zip, layers]: its layers by path.  A member of a ZIP   *)
(* is under its name, a bare file under "raw", what a signature or an    *)
(* ePUAP envelope holds under the envelope's path and its position.  A   *)
(* layer has a `kind`, the statement and PDF leaves also a `doc`.        *)
(* A document carries the amounts of its lines as cells [shape, item,    *)
(* column, amount], its filer's own lines as cells with the parent in    *)
(* `item`.                                                               *)
(*************************************************************************)
EXTENDS Integers, Sequences, FiniteSets, SequencesExt, FiniteSetsExt

CONSTANTS
  Download,   \* stored file (sha256) -> what unwrapping it finds
  Bodies,     \* body -> the set of its items
  ItemType    \* canonical line -> "balance_sheet" | "income_statement" | "cash_flow"

Mandatory == {"Bilans", "RZiS"}
NoKey == "no header"
None == 0
NoDoc == [unread |-> TRUE]

----------------------------------------------------------------------------
(* What a mapping configuration is, or it is refused when it is loaded *)

Codes(body) == ({i.code : i \in body} \cup {i.user_code : i \in body}) \ {""}

\* BodyItem and StatementBody: paths once and below a parent, a code mapped once.
ConsistentBody(body) ==
  /\ \A i \in body :
       /\ i.header => i.code # ""
       /\ i.user_of_which => i.user_code # ""
       /\ i.code = i.user_code => i.code = ""
       /\ i.parent # "" => \E p \in body : p.statement = i.statement /\ p.path = i.parent
  /\ \A i \in body : \A j \in body \ {i} :
       /\ <<i.statement, i.path>> # <<j.statement, j.path>>
       /\ Codes({i}) \cap Codes({j}) = {}

BodiesAssumption ==
  \A b \in DOMAIN Bodies : /\ ConsistentBody(Bodies[b])
                           /\ Codes(Bodies[b]) \subseteq DOMAIN ItemType

\* StructureSpec: the bodies it binds exist and their shapes can be told apart.
ConsistentSpec(spec) ==
  LET Bound == UNION {ToSet(spec.shapes[n]) : n \in DOMAIN spec.shapes}
      Reached == UNION {Codes(Bodies[s.body]) : s \in Bound}
  IN  /\ {s.body : s \in Bound} \subseteq DOMAIN Bodies
      /\ \A n \in DOMAIN spec.shapes :
           Cardinality({s.xpath : s \in ToSet(spec.shapes[n])}) = Len(spec.shapes[n])
      /\ \A old \in DOMAIN spec.overrides :
           old \in Reached /\ spec.overrides[old] \in DOMAIN ItemType

\* What a run reads of a document: a tolerance may not reach it.
ReadPaths(spec) ==
  {"Naglowek"} \cup UNION {{s.xpath : s \in ToSet(spec.shapes[n])} : n \in DOMAIN spec.shapes}

\* load_introduction_config, check_introduction: every mapped version has the
\* items its introduction carries, and no tolerance reaches one.
ConsistentIntroduction(cfg) ==
  LET Versions == {cfg.specs[k].version : k \in DOMAIN cfg.specs}
  IN  /\ DOMAIN cfg.introduction = Versions
      /\ \A t \in cfg.tolerances :
           \A v \in (IF t.versions = {} THEN Versions ELSE t.versions) :
             t.paths \cap cfg.introduction[v] = {}

\* UnitCorrections, MappingConfig: a file is corrected once, from a unit its
\* version declares to another.
ConsistentCorrections(cfg) ==
  /\ \A c, d \in cfg.corrections : <<c.sha, c.member>> = <<d.sha, d.member>> => c = d
  /\ \A c \in cfg.corrections :
       /\ c.declared # c.actual
       /\ \E k \in DOMAIN cfg.specs : LET spec == cfg.specs[k]
                                     IN  /\ c.version = spec.version
                                         /\ \E u \in DOMAIN spec.units : spec.units[u] = c.declared

ConsistentConfig(cfg) ==
  LET Specs == {cfg.specs[k] : k \in DOMAIN cfg.specs}
  IN  /\ \A spec \in Specs : ConsistentSpec(spec)
      /\ cfg.catalogued \cap DOMAIN cfg.specs = {}
      /\ Cardinality({spec.version : spec \in Specs}) = Cardinality(DOMAIN cfg.specs)
      /\ \A t \in cfg.tolerances :
           /\ t.versions \subseteq {spec.version : spec \in Specs}
           /\ \A spec \in Specs :
                t.versions = {} \/ spec.version \in t.versions
                  => t.paths \cap ReadPaths(spec) = {}
      /\ ConsistentCorrections(cfg)
      /\ ConsistentIntroduction(cfg)

\* A stored file has finitely many layers.
DownloadAssumption == \A sha \in DOMAIN Download : IsFiniteSet(DOMAIN Download[sha].layers)

ASSUME BodiesAssumption
ASSUME DownloadAssumption

----------------------------------------------------------------------------
(* Containers *)

Leaves == {"xml_statement", "pdf"}

Inside(layers, path) == {p \in DOMAIN layers : IsStrictPrefix(path, p)}

\* A signature with nothing in it, not even another signature.
Detached(layers, path) ==
  /\ layers[path].kind = "signature"
  /\ \A p \in Inside(layers, path) : layers[p].kind \notin Leaves \cup {"signature"}

\* unwrap: every file inside, with the path that led to it and the base name of
\* its ZIP member.
Unwrapped(download) ==
  LET layers == download.layers
      Member(path, kind, doc) ==
        [member |-> path, name |-> IF download.zip THEN path[1] ELSE "",
         kind |-> kind, doc |-> doc]
  IN  {Member(p, layers[p].kind, layers[p].doc) :
         p \in {q \in DOMAIN layers : layers[q].kind \in Leaves}}
        \cup {Member(p, "detached_signature", NoDoc) :
                p \in {q \in DOMAIN layers : Detached(layers, q)}}

\* A layer nothing recognises, or an ePUAP envelope without attachments.
Unreadable(download) ==
  LET layers == download.layers
  IN  \E p \in DOMAIN layers :
        \/ layers[p].kind = "unknown"
        \/ layers[p].kind = "epuap" /\ Inside(layers, p) = {}

Content(members) == {m \in members : m.kind # "detached_signature"}

\* The pairing without the test that one member only claims the row.
PairedByName(members, rows) ==
  LET content == Content(members)
      Names(m) == {r \in rows : r.file_name # "" /\ r.file_name = m.name}
  IN  IF Cardinality(content) = 1 /\ Cardinality(rows) = 1
      THEN content \X rows
      ELSE {p \in content \X rows : Names(p[1]) = {p[2]}}

\* Pairs <<member, row>>: the single file with the single row whatever their
\* names, otherwise by a file name one row and one member have.
Paired(members, rows) ==
  LET content == Content(members)
      Names(m) == {r \in rows : r.file_name # "" /\ r.file_name = m.name}
  IN  IF Cardinality(content) = 1 /\ Cardinality(rows) = 1
      THEN content \X rows
      ELSE {p \in content \X rows :
              /\ Names(p[1]) = {p[2]}
              /\ \A m \in content : Names(m) = {p[2]} => m = p[1]}

----------------------------------------------------------------------------
(* Detection and validation *)

Tolerates(tolerance, violation, spec) ==
  /\ tolerance.versions = {} \/ spec.version \in tolerance.versions
  /\ violation.path \in tolerance.paths
  /\ violation.error \in tolerance.errors

Refused(doc, spec, cfg) ==
  {v \in doc.violations : \A t \in cfg.tolerances : ~Tolerates(t, v, spec)}

Outcome(m, ref, status, reason, spec) ==
  [member |-> m.member, kind |-> m.kind, doc |-> m.doc, ref |-> ref,
   status |-> status, reason |-> reason, spec |-> spec]

NoSpec == [version |-> "", hash |-> ""]

\* _classify_member
ClassifyMember(m, row, cfg) ==
  LET Out(status, reason, spec) == Outcome(m, row.ref, status, reason, spec)
  IN  CASE m.kind = "pdf" -> Out("needs_pdf_tier", "", NoSpec)
        [] m.kind # "pdf" /\ m.doc.key \in cfg.catalogued ->
             Out("not_yet_mapped", "", NoSpec)
        [] m.kind # "pdf" /\ m.doc.key \notin cfg.catalogued \cup DOMAIN cfg.specs ->
             Out("quarantined", "unknown_structure_version", NoSpec)
        [] m.kind # "pdf" /\ m.doc.key \in DOMAIN cfg.specs ->
             LET spec == cfg.specs[m.doc.key]
             IN  IF Refused(m.doc, spec, cfg) # {}
                 THEN Out("quarantined", "xsd_invalid", spec)
                 ELSE Out("valid", "", spec)

\* classify_download: one outcome per file, or one for a download that cannot
\* be unwrapped.
Outcomes(sha, rows, cfg) ==
  LET members == Unwrapped(Download[sha])
      pairs   == Paired(members, rows)
  IN  IF Unreadable(Download[sha])
      THEN {Outcome([member |-> <<"raw">>, kind |-> "unknown", doc |-> NoDoc], None,
                    "quarantined", "unknown_container", NoSpec)}
      ELSE {ClassifyMember(p[1], p[2], cfg) : p \in pairs}
             \cup {Outcome(m, None, "quarantined", "member_not_in_filing_index", NoSpec) :
                     m \in {c \in Content(members) : \A p \in pairs : p[1] # c}}

\* file_spec_hash: a corrected file's hash is its own.
Corrections(cfg, sha, member) ==
  {c \in cfg.corrections : c.sha = sha /\ c.member = member}

SpecHash(cfg, sha, o) ==
  IF o.spec = NoSpec THEN <<>>
  ELSE <<o.spec.hash, Corrections(cfg, sha, o.member)>>

----------------------------------------------------------------------------
(* Mapping *)

Shapes(doc, spec, name) ==
  {s \in ToSet(spec.shapes[name]) : s.xpath \in doc.shapes}

ShapeOf(doc, spec, name) == CHOOSE s \in Shapes(doc, spec, name) : TRUE

Canonical(spec, code) ==
  IF code \in DOMAIN spec.overrides THEN spec.overrides[code] ELSE code

Filled(doc, xpath, item) ==
  \E c \in doc.cells : c.shape = xpath /\ c.item = item.code

Sum(seq) == FoldSeq(LAMBDA x, y : x + y, 0, seq)

\* The first failing check of a sequence of <<failed, reason>>, "" when none is.
FirstReason(checks) ==
  LET failing == {i \in DOMAIN checks : checks[i][1]}
  IN  IF failing = {} THEN "" ELSE checks[Min(failing)][2]

\* parse_statement and map_file, as far as they refuse a file; a correction
\* applies to the version and the declared unit it was reviewed against.
MappingChecks(sha, o, row, cfg) ==
  LET doc  == o.doc
      spec == o.spec
      names == DOMAIN spec.shapes
      Filed(n) == Cardinality(Shapes(doc, spec, n)) = 1
      Items(n) == {i \in Bodies[ShapeOf(doc, spec, n).body] : i.statement = n}
      Declared(n) == {i.section : i \in Items(n)} \ {""}
  IN  << <<~doc.root, "statement_root_missing">>,
        <<doc.unit \notin DOMAIN spec.units, "unit_unrecognised">>,
        <<\E c \in Corrections(cfg, sha, o.member) :
            c.version # spec.version \/ c.declared # spec.units[doc.unit],
          "unit_correction_mismatch">>,
        <<doc.end < doc.start, "header_malformed">>,
        <<\E n \in doc.twice : n \in names, "statement_duplicated">>,
        <<\E n \in Mandatory \cap names : Shapes(doc, spec, n) = {},
          "required_statement_missing">>,
        <<\E n \in names : Cardinality(Shapes(doc, spec, n)) > 1,
          "statement_body_ambiguous">>,
        <<\E n \in names : Filed(n) /\ Declared(n) # {}
                            /\ Cardinality(doc.sections \cap Declared(n)) # 1,
          "statement_variant_ambiguous">>,
        <<\E n \in names : Filed(n) /\ \E i \in Items(n) :
            i.required /\ ~Filled(doc, ShapeOf(doc, spec, n).xpath, i),
          "required_item_missing">>,
        <<doc.malformed, "amount_malformed">>,
        <<"Bilans" \in names /\ Filed("Bilans")
            /\ \A i \in Items("Bilans") :
                 ~Filled(doc, ShapeOf(doc, spec, "Bilans").xpath, i),
          "required_item_missing">>,
        <<<<doc.start, doc.end>> # <<row.start, row.end>>, "period_mismatch">>,
        <<row.submitted = None, "known_from_missing">>,
        <<doc.blocks > 1, "introduction_ambiguous">> >>

MappingError(sha, o, row, cfg) == FirstReason(MappingChecks(sha, o, row, cfg))

Multiplier(sha, o, cfg) ==
  LET corrected == Corrections(cfg, sha, o.member)
  IN  IF corrected = {} THEN o.spec.units[o.doc.unit]
      ELSE (CHOOSE c \in corrected : TRUE).actual

\* _statement_facts, _user_line_facts: a cell of a line the body maps, and per
\* column the sum of the filer's own lines under an element.
StatementFacts(doc, spec, name, shape, times) ==
  LET items == {i \in Bodies[shape.body] : i.statement = name}
      Of(cells, i) == {c \in cells : c.shape = shape.xpath /\ c.item = i.code}
      Fact(code, column, value) ==
        LET line == Canonical(spec, code)
        IN  [item |-> line, type |-> ItemType[line], column |-> column,
             value |-> value * times, xpath |-> shape.xpath]
  IN  UNION {{Fact(i.code, c.column, c.amount) : c \in Of(doc.cells, i)} : i \in items}
        \cup UNION {{Fact(i.user_code, c.column, Sum(c.amounts)) :
                       c \in Of(doc.user_lines, i)} :
                     i \in {j \in items : j.user_code # ""}}

\* parse_statement: every statement in the one shape the document has it in.
Facts(sha, o, cfg) ==
  UNION {UNION {StatementFacts(o.doc, o.spec, n, s, Multiplier(sha, o, cfg)) :
                  s \in Shapes(o.doc, o.spec, n)} : n \in DOMAIN o.spec.shapes}

\* read_introduction: the items the version's generation reads.
Disclosures(o, cfg) ==
  {d \in o.doc.introduction : d.item \in cfg.introduction[o.spec.version]}
===============================================================================
