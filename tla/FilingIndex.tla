---------------------------- MODULE FilingIndex ----------------------------
(***************************************************************************)
(* One entity's filing_index and the two sources that fill it:             *)
(*  - HAR captures of the RDF site (acquisition/har_import.py), whose list *)
(*    names a document by RDF's base64 id and whose expanded rows carry    *)
(*    the document's detail;                                               *)
(*  - the scripted downloads (acquisition/script_import.py), whose listing *)
(*    names it by its numeric id and carries its facts.                    *)
(* Each action is one committed step of an import.  Imports may be of any  *)
(* capture or listing, in any order, repeated, and stopped between steps,  *)
(* so a step's inputs are any documents the source may have shown.         *)
(*                                                                         *)
(* A row is keyed by RDF's id or, when the script created it, by           *)
(* id-<number>; manifest.py decides when two keys are one document.        *)
(***************************************************************************)
EXTENDS Naturals, FiniteSets

CONSTANTS
    Docs,      \* the documents RDF holds for the entity
    Original,  \* Original[d]: the document d corrects, d itself when it is an original
    Kind,      \* Kind[d]: the type and period d is listed under
    Uncoded,   \* the kinds whose type name no code fits
    Null       \* an empty column

ASSUME DocsAssumption ==
    /\ Original \in [Docs -> Docs]
    /\ \A d \in Docs : Original[Original[d]] = Original[d]
    /\ DOMAIN Kind = Docs

VARIABLES
    index,    \* index[k]: the row with key k, or Null
    deleted   \* documents RDF shows as deleted (USUNIETY)

vars == <<index, deleted>>

IsOriginal(d) == Original[d] = d
Corrections(o) == {d \in Docs : Original[d] = o /\ d # o}

\* A row's key says which id it was created under and whose list columns it holds.
Rdf(d) == <<"rdf", d>>
Id(d) == <<"id", d>>
Keys == {"rdf", "id"} \X Docs

\* Where the detail columns were read from, and of which document.
NoFacts == [from |-> "none", of |-> Null]
Facts(from, d) == [from |-> from, of |-> d]

Rows ==
    [number : Docs \cup {Null},            \* rdf_document_id
     facts : {NoFacts} \cup {Facts(s, d) : s \in {"listing", "detail"}, d \in Docs},
     file : Docs \cup {Null},              \* sha256: the download of this original's row
     correctionOf : Keys \cup {Null},      \* correction_of
     refs : SUBSET Keys,                   \* correction_refs
     live : BOOLEAN]                       \* status NIEUSUNIETY

ASSUME NullAssumption ==
    /\ Null \notin Docs
    /\ Null \notin Keys
    /\ Null \notin Rows

TypeOK ==
    /\ index \in [Keys -> Rows \cup {Null}]
    /\ deleted \subseteq Docs

Init ==
    /\ index = [k \in Keys |-> Null]
    /\ deleted = {}

Held(ix) == {k \in Keys : ix[k] # Null}

\* A row holding only its list columns.
BareRow(d, original) ==
    [number |-> Null, facts |-> NoFacts, file |-> Null, correctionOf |-> original,
     refs |-> {}, live |-> d \notin deleted]

\* INSERT ... ON CONFLICT DO NOTHING.
Insert(ix, k, row) == IF ix[k] = Null THEN [ix EXCEPT ![k] = row] ELSE ix

-----------------------------------------------------------------------------
\* manifest.py: what a detail does to the index.

\* Mutant: a detail never recognises the script's row.
HasNoAlias(ix, d) == FALSE

\* The key of the row a detail of d completes: the script's row of the same number, if any.
HasAlias(ix, d) == ix[Id(d)] # Null /\ ix[Id(d)].number = d
Target(ix, d) == IF HasAlias(ix, d) THEN Id(d) ELSE Rdf(d)

\* _UPDATE_DETAIL: the detail columns, once; the number only if the row has none.
SetDetail(ix, k, d, refs) ==
    IF ix[k] = Null \/ ix[k].facts.from = "detail" THEN ix
    ELSE [ix EXCEPT ![k].facts = Facts("detail", d),
                    ![k].number = IF @ = Null THEN d ELSE @,
                    ![k].refs = refs]

\* _drop_list_duplicate looks at the detail and the file of the row to drop, nothing else.
Droppable(ix, d) == ix[Rdf(d)].facts.from # "detail" /\ ix[Rdf(d)].file = Null
Conflicting(ix, S) ==
    \E d \in S : HasAlias(ix, d) /\ ix[Rdf(d)] # Null /\ ~ Droppable(ix, d)
DropDuplicates(ix, S) ==
    [k \in Keys |-> IF \E d \in S : HasAlias(ix, d) /\ k = Rdf(d) THEN Null ELSE ix[k]]

\* The unique index on (krs, rdf_document_id).
UniqueNumbers(ix) ==
    \A j, k \in Held(ix) : ix[j].number = ix[k].number /\ ix[j].number # Null => j = k

\* Mutant: a new correction's row points at the id RDF's list gave its original.
AddCorrectionsOfListed(ix, o, S) ==
    [k \in Keys |->
        IF ix[Target(ix, o)] # Null /\ \E c \in S : k = Rdf(c) /\ ~ HasAlias(ix, c)
        THEN Insert(ix, k, BareRow(k[2], Rdf(o)))[k] ELSE ix[k]]

\* A row per correction without one, pointing at the row its original is kept in.
AddCorrections(ix, o, S) ==
    [k \in Keys |->
        IF ix[Target(ix, o)] # Null /\ \E c \in S : k = Rdf(c) /\ ~ HasAlias(ix, c)
        THEN Insert(ix, k, BareRow(k[2], Target(ix, o)))[k] ELSE ix[k]]

\* record_a3_detail: the detail of original o and of the corrections S expanded with it.
RecordDetail(ix, o, S) ==
    LET dropped == DropDuplicates(ix, {o} \cup S)
        refs == {Target(ix, d) : d \in {o} \cup S}
        added == AddCorrections(SetDetail(dropped, Target(ix, o), o, refs), o, S)
    IN  [k \in Keys |->
            IF \E c \in S : k = Target(ix, c) THEN SetDetail(added, k, k[2], refs)[k]
            ELSE added[k]]

\* The row has no detail columns, or a correction it names has no row.
NeedsDetail(k) ==
    \/ index[k].facts = NoFacts
    \/ \E r \in index[k].refs : index[r] = Null

-----------------------------------------------------------------------------
\* Steps of a HAR import.

\* The captured list: originals only.  Once the script has rows here, only the documents
\* the capture expanded are added, so S is any set of them.
HarList(S) ==
    /\ S # {}
    /\ \A d \in S : IsOriginal(d) /\ index[Rdf(d)] = Null
    /\ index' = [k \in Keys |-> IF \E d \in S : k = Rdf(d) THEN BareRow(k[2], Null)
                                ELSE index[k]]
    /\ UNCHANGED deleted

\* The captured detail of a listed row.  A conflict between two keys, or a second row with
\* the same number, fails the step and changes nothing.
HarDetail(o, S) ==
    /\ IsOriginal(o) /\ S \subseteq Corrections(o)
    /\ index[Rdf(o)] # Null
    /\ NeedsDetail(Rdf(o))
    /\ ~ Conflicting(index, {o} \cup S)
    /\ UniqueNumbers(RecordDetail(index, o, S))
    /\ index' = RecordDetail(index, o, S)
    /\ UNCHANGED deleted

\* A captured download covers the documents RDF was asked for, under RDF's own ids.  A
\* single document's row must expect exactly it; a bundle's expected refs are read again
\* from the capture.  A correction is downloaded through the row it points at.
HarDownload(d, S) ==
    LET o == Original[d]
        covered == {Rdf(e) : e \in {o} \cup S} IN
    /\ S \subseteq Corrections(o)
    /\ index[Rdf(d)] # Null
    /\ IsOriginal(d) \/ index[Rdf(d)].correctionOf = Rdf(o)
    /\ index[Rdf(d)].facts.from = "detail"
    /\ index[Rdf(d)].file = Null
    /\ Cardinality(index[Rdf(d)].refs) > 1 \/ index[Rdf(d)].refs = covered
    /\ index' = [k \in Keys |-> IF k \in covered /\ index[k] # Null /\ index[k].file = Null
                                THEN [index[k] EXCEPT !.file = o] ELSE index[k]]
    /\ UNCHANGED deleted

-----------------------------------------------------------------------------
\* Steps of a script import.

\* Mutant: a row that has a number may be taken for another document of its kind.
CandidatesNumbered(ix, d) ==
    {k \in Held(ix) : /\ Kind[d] \notin Uncoded
                      /\ Kind[k[2]] = Kind[d]
                      /\ (ix[k].correctionOf # Null) = ~ IsOriginal(d)}

\* _candidates: rows without a number, of the document's type, period and correction flag.
Candidates(ix, d) ==
    {k \in Held(ix) : /\ Kind[d] \notin Uncoded
                      /\ Kind[k[2]] = Kind[d]
                      /\ (ix[k].correctionOf # Null) = ~ IsOriginal(d)
                      /\ ix[k].number = Null}
Numbered(ix, d) == {k \in Held(ix) : ix[k].number = d}

\* Mutant: never looks the number up.
ScriptKeyUnnumbered(ix, d) ==
    IF Cardinality(Candidates(ix, d)) = 1 THEN CHOOSE k \in Candidates(ix, d) : TRUE ELSE Id(d)

\* _existing, then the one candidate, else a row of the script's own.
ScriptKey(ix, d) ==
    IF Numbered(ix, d) # {} THEN CHOOSE k \in Numbered(ix, d) : TRUE
    ELSE IF Cardinality(Candidates(ix, d)) = 1 THEN CHOOSE k \in Candidates(ix, d) : TRUE
    ELSE Id(d)

\* _index: create or complete the row of listed document d; a deletion is only ever added.
ListedRow(row, d, original) ==
    IF row = Null
    THEN [BareRow(d, original) EXCEPT !.number = d, !.facts = Facts("listing", d)]
    ELSE [row EXCEPT !.number = d,
                     !.facts = IF @ = NoFacts THEN Facts("listing", d) ELSE @,
                     !.live = @ /\ d \notin deleted]

IndexListed(ix, d, original) ==
    [ix EXCEPT ![ScriptKey(ix, d)] = ListedRow(@, d, original)]

\* _group_refs: the bundle of a listed original, unless a detail gave it.
SetBundle(ix, row, refs) ==
    [k \in Keys |-> IF k = row /\ ix[k].facts.from = "listing"
                    THEN [ix[k] EXCEPT !.refs = refs] ELSE ix[k]]

\* The corrections S in the tabs of an original's row, each by what the index says of it: a
\* correction's row is only ever made with its number, so no tab takes the row of another.
IndexTabs(ix, S, row) ==
    [k \in Keys |->
        LET tabs == {c \in S : ScriptKey(ix, c) = k}
        IN  IF tabs = {} THEN ix[k] ELSE ListedRow(ix[k], CHOOSE c \in tabs : TRUE, row)]

\* One expanded row of the listing, original o and at most the corrections in its tabs.
IndexGroup(ix, o, S) ==
    LET row == ScriptKey(ix, o)
        tabs == IndexTabs(IndexListed(ix, o, Null), S, row)
        bundle == {k \in Held(tabs) : tabs[k].number \in {o} \cup S}
    IN  SetBundle(tabs, row, bundle)

ScriptGroup(o, S) ==
    /\ IsOriginal(o) /\ S \subseteq Corrections(o)
    /\ index' = IndexGroup(index, o, S)
    /\ index' # index
    /\ UNCHANGED deleted

\* A correction listed as a row of its own: its original is the one row of its kind that is
\* no correction and has a submission date; with none or several, it is not used.
FiledOriginals(c) ==
    {k \in Held(index) : /\ Kind[c] \notin Uncoded
                         /\ Kind[k[2]] = Kind[c]
                         /\ index[k].correctionOf = Null
                         /\ index[k].facts # NoFacts
                         /\ IsOriginal(index[k].facts.of)}
ScriptCorrection(c) ==
    /\ ~ IsOriginal(c)
    /\ \/ Cardinality(FiledOriginals(c)) = 1
       \/ Numbered(index, c) # {}
    /\ LET original == IF Cardinality(FiledOriginals(c)) = 1
                       THEN CHOOSE k \in FiledOriginals(c) : TRUE ELSE Null
       IN  index' = IndexListed(index, c, original)
    /\ index' # index
    /\ UNCHANGED deleted

\* _import_zip: every tab the page showed is listed, so the ZIP covers their rows; a row
\* that has a file keeps it.
ScriptZip(o, S) ==
    LET covered == {k \in Held(index) : index[k].number \in {o} \cup S} IN
    /\ IsOriginal(o) /\ S \subseteq Corrections(o)
    /\ \A d \in {o} \cup S : Numbered(index, d) # {}
    /\ \E k \in covered : index[k].file = Null
    /\ index' = [k \in Keys |-> IF k \in covered /\ index[k].file = Null
                                THEN [index[k] EXCEPT !.file = o] ELSE index[k]]
    /\ UNCHANGED deleted

-----------------------------------------------------------------------------
\* RDF marks a document deleted; the next listing shows it.
RdfDeletes(d) ==
    /\ d \notin deleted
    /\ deleted' = deleted \cup {d}
    /\ UNCHANGED index

Next ==
    \/ \E S \in SUBSET Docs : HarList(S)
    \/ \E o \in Docs, S \in SUBSET Docs : HarDetail(o, S)
    \/ \E d \in Docs, S \in SUBSET Docs : HarDownload(d, S)
    \/ \E o \in Docs, S \in SUBSET Docs : ScriptGroup(o, S)
    \/ \E c \in Docs : ScriptCorrection(c)
    \/ \E o \in Docs, S \in SUBSET Docs : ScriptZip(o, S)
    \/ \E d \in Docs : RdfDeletes(d)

Spec == Init /\ [][Next]_vars

-----------------------------------------------------------------------------
\* Properties.

\* The document a row is of: its number's, or the one its list columns name.
Of(ix, k) == IF ix[k].number = Null THEN k[2] ELSE ix[k].number

\* Two originals the script cannot tell apart before one of them has a number.
Confusable(d, e) ==
    IsOriginal(d) /\ IsOriginal(e) /\ Kind[d] = Kind[e] /\ Kind[d] \notin Uncoded

\* A row tells one document's story: its number, facts and file are all of one document,
\* whichever source wrote them and in whatever order, and it is the document its key names.
\* Only a row of a captured list may be taken for another original of its coded kind, and only
\* while RDF's own detail of it is unread (script_import.py, _candidates).
OneDocumentPerRow ==
    \A k \in Held(index) :
        LET d == Of(index, k)
        IN  /\ index[k].facts.of \in {Null, d}
            /\ index[k].file \in {Null, Original[d]}
            /\ d # k[2] => k = Rdf(k[2]) /\ Confusable(k[2], d) /\ index[k].facts.from = "listing"

\* The script took the captured row of another original for d's.
TakenFor(d) == \E k \in Numbered(index, d) : k[2] # d

\* A captured detail that is still wanted can be recorded, whatever was imported before it: never
\* a conflict of two keys, and a second row with its number only when the script took another
\* captured row for it (manifest.py, record_a3_detail).
DetailNeverRefused ==
    \A o \in Docs : \A S \in SUBSET Corrections(o) :
        IsOriginal(o) /\ index[Rdf(o)] # Null /\ NeedsDetail(Rdf(o)) =>
            /\ ~ Conflicting(index, {o} \cup S)
            /\ TakenFor(o) \/ UniqueNumbers(RecordDetail(index, o, S))

\* The row a correction points at is there for good and is an original's: a captured one's is of
\* the document it corrects, even after the detail that moves it to its script key
\* (record_a3_detail's `listed`); a listed one's is of it or of the one original of its kind
\* (_filed_original).
CorrectionsKeepTheirOriginal ==
    \A k \in Held(index) :
        LET to == index[k].correctionOf
        IN  to # Null =>
                /\ index[to] # Null /\ index[to].correctionOf = Null /\ index[to].facts # NoFacts
                /\ LET d == Of(index, to)
                   IN  \/ d = Original[k[2]]
                       \/ k = Id(k[2]) /\ IsOriginal(d) /\ Kind[d] = Kind[k[2]]

\* Importing the same expanded row of a listing a second time adds and changes nothing.
ReimportAddsNothing ==
    \A o \in Docs : \A S \in SUBSET Corrections(o) :
        IsOriginal(o) =>
            LET once == IndexGroup(index, o, S) IN IndexGroup(once, o, S) = once

\* What manifest.py:640-643 and :688-691 say of a detail: it completes the row that already holds
\* its document's number under another key.
DetailCompletesItsRow ==
    \A o \in Docs :
        IsOriginal(o) /\ index[Rdf(o)] # Null /\ NeedsDetail(Rdf(o)) =>
            \A k \in Numbered(index, o) : Target(index, o) = k

=============================================================================
