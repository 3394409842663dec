------------------------- MODULE RedactionMigration -------------------------
(***************************************************************************)
(* The redaction migration (acquisition/redaction_migration.py) beside the *)
(* writers of RawStore.                                                    *)
(*                                                                         *)
(* A new redaction version turns some stored documents into documents that *)
(* "hold markers".  A migration run scans the manifest, stores the         *)
(* redacted form of each marked document, repoints the manifest rows and   *)
(* deletes the old object and sidecar.  The run's whole work is one        *)
(* database transaction: the scan's SELECT opens it, so the per-document   *)
(* conn.transaction() blocks are savepoints, and it commits when main      *)
(* returns.  The object store has no transactions.                         *)
(*                                                                         *)
(* `moved` is the open transaction's effect, old document -> new one.      *)
(***************************************************************************)
EXTENDS RawStore, Naturals, FiniteSets

CONSTANTS
    Filings,        \* filing_index rows: (krs, document_ref)
    DownloadOf,     \* DownloadOf[c]: the filings document c holds as a downloaded file
    DetailOf,       \* DetailOf[c]: the filing whose RDF detail c is (a set of at most one)
    Marked,         \* documents the check of the new redaction version finds personal data in
    RedactAs(_, _)  \* RedactAs(c, names): what it makes of c when the file name of each filing
                    \* is not known, the filer's own or a token; NoContent when refused

\* A name comes with the filing's detail; _redact refuses a bundle with a token.
PossibleNames(S) ==
    {names \in [S -> {"none", "own", "token"}] :
        /\ \A f \in S : names[f] # "none" => \E d \in Content : f \in DetailOf[d]
        /\ Cardinality(S) > 1 => \A f \in S : names[f] # "token"}

ASSUME RedactionAssumption ==
    /\ DownloadOf \in [Content -> SUBSET Filings]
    /\ DetailOf \in [Content -> SUBSET Filings]
    /\ \A c \in Content : DownloadOf[c] = {} \/ DetailOf[c] = {}
    /\ Marked \subseteq Content
    /\ \A c \in Content : \A S \in SUBSET DownloadOf[c] : \A names \in PossibleNames(S) :
          LET d == RedactAs(c, names) IN
          d # NoContent => /\ d \in Content
                           /\ DownloadOf[d] = DownloadOf[c] /\ DetailOf[d] = DetailOf[c]

\* The redacted forms of c: a bundle's depends on which filers' file names are known.
KnownNames(c) == {names \in PossibleNames(DownloadOf[c]) :
                    \A f \in DownloadOf[c] : names[f] # "token"}
RedactedForms == [c \in Content |-> {RedactAs(c, names) : names \in KnownNames(c)} \ {NoContent}]
\* What a run may put in c's place: a filing of c may have its file elsewhere, and the name of
\* a single one may be a token by then.
ReplacementsOf(c) ==
    {RedactAs(c, names) : names \in UNION {PossibleNames(S) : S \in SUBSET DownloadOf[c]}}
        \ {NoContent}
AsFiled == {c \in Content : \A d \in Content \ {c} : c \notin RedactedForms[d]}

VARIABLES
    version,   \* the deployed redaction: "old" or "new" (REDACTION_VERSION)
    download,  \* committed filing_index.sha256
    detail,    \* committed filing_index.detail_sha256
    fileName,  \* committed filing_index.file_name: "none", the filer's "own", or its "token"
    parsed,    \* documents with committed parsed_documents rows
    mig,       \* the call the migration makes next, "off" when none runs
    todo,      \* marked documents the scan found, still to be replaced
    first,     \* of those, the downloads: they go before everything else
    at,        \* the document being replaced
    into,      \* its redacted form
    moved      \* old document -> new document, by the open transaction

filingVars == <<download, detail, fileName, parsed>>
migVars == <<mig, todo, first, at, into, moved>>
allVars == <<vars, version, filingVars, migVars>>

MigInit ==
    /\ Init
    /\ version = "old"
    /\ download = [f \in Filings |-> NoContent]
    /\ detail = [f \in Filings |-> NoContent]
    /\ fileName = [f \in Filings |-> "none"]
    /\ parsed = {}
    /\ mig = "off"
    /\ todo = {}
    /\ first = {}
    /\ at = NoContent
    /\ into = NoContent
    /\ moved = << >>

-----------------------------------------------------------------------------
\* Importers, and the parser.

\* Redaction happens before hashing: the bytes a run stores are what its version leaves of the
\* bytes as filed.  The old one left these documents as they were; what the new one leaves is
\* stored even when it still holds markers (download_filing does not check).
Receivable(c) ==
    IF version = "old" THEN c \in AsFiled ELSE \E d \in AsFiled : c \in RedactedForms[d]

\* A detail captured under the old redaction still gives the filer's own file name.
NameIn(c) == IF c \in Marked THEN "own" ELSE "token"

\* The filing columns a transaction sets, each once (detail_sha256 IS NULL, sha256 IS NULL).
SetOnce(column, Of, listed) ==
    {g \in [Filings -> Content \cup {NoContent}] :
        \A f \in Filings :
            LET found == {c \in listed : f \in Of[c]} IN
            IF column[f] = NoContent /\ found # {} THEN g[f] \in found ELSE g[f] = column[f]}

\* record_a3_detail and record_a3_download, with the raw rows of the same transaction.
ImportCommit(w) ==
    /\ Commit(w)
    /\ download' \in SetOnce(download, DownloadOf, uncommitted[w])
    /\ detail' \in SetOnce(detail, DetailOf, uncommitted[w])
    /\ fileName' = [f \in Filings |->
                      IF detail'[f] # detail[f] THEN NameIn(detail'[f]) ELSE fileName[f]]
    /\ UNCHANGED <<version, parsed, migVars>>

ImportStep(w) ==
    /\ \/ \E c \in Content : Receivable(c) /\ BeginPut(w, c)
       \/ PutObject(w)
       \/ PutSidecar(w)
       \/ InsertRawFetch(w)
       \/ Crash(w)
    /\ UNCHANGED <<version, filingVars, migVars>>

\* Parsing a downloaded file; a row the migration's transaction has taken waits for it.
Parse(c) ==
    /\ c \in rawDocuments \ (parsed \cup DOMAIN moved)
    /\ c \in objects
    /\ \E f \in Filings : download[f] = c
    /\ parsed' = parsed \cup {c}
    /\ UNCHANGED <<vars, version, download, detail, fileName, migVars>>

\* A new redaction rule is deployed between runs.
Deploy ==
    /\ version = "old"
    /\ \A w \in Writers : pc[w] = "idle" /\ uncommitted[w] = {}
    /\ version' = "new"
    /\ UNCHANGED <<vars, filingVars, migVars>>

-----------------------------------------------------------------------------
\* The transaction's view of the manifest.

MovedTo(c) == IF c \in DOMAIN moved THEN moved[c] ELSE c
ViewedDocuments == {MovedTo(c) : c \in rawDocuments}
ViewedDownloads == {MovedTo(download[f]) : f \in Filings} \ {NoContent}
MovedDetails == {c \in DOMAIN moved : DetailOf[c] # {}}
ViewedName(f) == IF detail[f] \in MovedDetails THEN "token" ELSE fileName[f]

\* The filings _redact names a download's members from, and those already tokens.
FilingsIn(c) == {f \in Filings : MovedTo(download[f]) = c}
Tokened(c) == {f \in FilingsIn(c) : ViewedName(f) = "token"}

\* A bundle is named from the filers' file names; once one is a token it is refused.
Unnameable(c) == Cardinality(FilingsIn(c)) > 1 /\ Tokened(c) # {}

-----------------------------------------------------------------------------
\* One migration run.

\* Mutant: the scan goes over the downloads only, as the file-name plan's first draft did.
MigScanDownloads ==
    /\ mig = "off"
    /\ version = "new"
    /\ rawDocuments \subseteq objects
    /\ todo' = rawDocuments \cap Marked \cap ViewedDownloads
    /\ first' = todo'
    /\ mig' = "replace"
    /\ UNCHANGED <<vars, version, filingVars, at, into, moved>>

\* find_unredacted reads every listed object; one that is not there is an error.
MigScan ==
    /\ mig = "off"
    /\ version = "new"
    /\ rawDocuments \subseteq objects
    /\ todo' = rawDocuments \cap Marked
    /\ first' = todo' \cap ViewedDownloads
    /\ mig' = "replace"
    /\ UNCHANGED <<vars, version, filingVars, at, into, moved>>

\* The document is redacted as it can be now, its filings' names as the transaction sees them;
\* put_raw finds its sidecar stored, or puts it.
RedactInto(c, d) ==
    /\ d = RedactAs(c, [f \in FilingsIn(c) |-> ViewedName(f)])
    /\ at' = c /\ into' = d
    /\ mig' = IF HasSidecar(d) THEN "repoint" ELSE "put_object"
    /\ UNCHANGED <<vars, version, filingVars, todo, first, moved>>

\* Mutant: replaces the document whatever the redaction left.
MigRedactUnchecked(c) ==
    /\ mig = "replace"
    /\ c \in todo
    /\ c \in first \/ todo \cap first = {}
    /\ c \in objects /\ HasSidecar(c)
    /\ DetailOf[c] = {} => ~ Unnameable(c)
    /\ \E d \in Content : RedactInto(c, d)

\* Mutant: replaces the documents in any order.
MigRedactUnordered(c) ==
    /\ mig = "replace"
    /\ c \in todo
    /\ c \in objects /\ HasSidecar(c)
    /\ DetailOf[c] = {} => ~ Unnameable(c)
    /\ \E d \in Content \ Marked : RedactInto(c, d)

\* replace_document up to put_raw's check of the new sidecar: downloads first, and nothing whose
\* redacted form still holds markers.
MigRedact(c) ==
    /\ mig = "replace"
    /\ c \in todo
    /\ c \in first \/ todo \cap first = {}
    /\ c \in objects /\ HasSidecar(c)
    /\ DetailOf[c] = {} => ~ Unnameable(c)
    /\ \E d \in Content \ Marked : RedactInto(c, d)

MigPutObject ==
    /\ mig = "put_object"
    /\ objects' = objects \cup {into}
    /\ mig' = "put_sidecar"
    /\ UNCHANGED <<sidecars, manifestVars, writerVars, version, filingVars,
                   todo, first, at, into, moved>>

\* The new sidecar keeps the old one's fetch metadata.
MigPutSidecar ==
    /\ mig = "put_sidecar"
    /\ sidecars' = IF HasSidecar(into) THEN sidecars
                   ELSE [sidecars EXCEPT ![into] = sidecars[at]]
    /\ mig' = "repoint"
    /\ UNCHANGED <<objects, manifestVars, writerVars, version, filingVars,
                   todo, first, at, into, moved>>

\* The savepoint: raw rows copied, references repointed, old rows dropped.
MigRepoint ==
    /\ mig = "repoint"
    /\ moved' = [c \in DOMAIN moved \cup {at} |-> IF c = at THEN into ELSE moved[c]]
    /\ mig' = "delete_object"
    /\ UNCHANGED <<vars, version, filingVars, todo, first, at, into>>

MigDeleteObject ==
    /\ mig = "delete_object"
    /\ objects' = objects \ {at}
    /\ mig' = "delete_sidecar"
    /\ UNCHANGED <<sidecars, manifestVars, writerVars, version, filingVars,
                   todo, first, at, into, moved>>

MigDeleteSidecar ==
    /\ mig = "delete_sidecar"
    /\ sidecars' = [sidecars EXCEPT ![at] = NoRun]
    /\ todo' = todo \ {at}
    /\ at' = NoContent
    /\ into' = NoContent
    /\ mig' = "replace"
    /\ UNCHANGED <<objects, manifestVars, writerVars, version, filingVars, first, moved>>

\* Mutant: leaves filing_index.detail_sha256 behind.
MigCommitWithoutDetails ==
    /\ mig = "replace"
    /\ todo = {}
    /\ ViewedDocuments \subseteq objects
    /\ rawDocuments' = ViewedDocuments
    /\ fetches' = {<<MovedTo(r[1]), r[2]>> : r \in fetches}
    /\ download' = [f \in Filings |-> MovedTo(download[f])]
    /\ fileName' = [f \in Filings |-> ViewedName(f)]
    /\ parsed' = parsed \ DOMAIN moved
    /\ mig' = "off"
    /\ first' = {}
    /\ moved' = << >>
    /\ UNCHANGED <<storeVars, writerVars, version, detail, todo, at, into>>

\* Nothing is left: the closing scan reads every object, main returns and the
\* connection commits, which makes every repointing visible.
MigCommit ==
    /\ mig = "replace"
    /\ todo = {}
    /\ ViewedDocuments \subseteq objects
    /\ rawDocuments' = ViewedDocuments
    /\ fetches' = {<<MovedTo(r[1]), r[2]>> : r \in fetches}
    /\ download' = [f \in Filings |-> MovedTo(download[f])]
    /\ detail' = [f \in Filings |-> MovedTo(detail[f])]
    /\ fileName' = [f \in Filings |-> ViewedName(f)]
    /\ parsed' = parsed \ DOMAIN moved
    /\ mig' = "off"
    /\ first' = {}
    /\ moved' = << >>
    /\ UNCHANGED <<storeVars, writerVars, version, todo, at, into>>

\* An error or a crash: the transaction rolls back, the store stays as it is.  Errors
\* the code raises here: personal data left by the redaction, an unnameable bundle, a
\* missing object, a row of a table it does not repoint (its foreign key).
MigAbort ==
    /\ mig # "off"
    /\ mig' = "off"
    /\ todo' = {}
    /\ first' = {}
    /\ at' = NoContent
    /\ into' = NoContent
    /\ moved' = << >>
    /\ UNCHANGED <<vars, version, filingVars>>

MigNext ==
    \/ MigScan
    \/ \E c \in Marked : MigRedact(c)
    \/ MigPutObject
    \/ MigPutSidecar
    \/ MigRepoint
    \/ MigDeleteObject
    \/ MigDeleteSidecar
    \/ MigCommit
    \/ MigAbort

ArchiveNext ==
    \/ \E w \in Writers : ImportStep(w) \/ ImportCommit(w)
    \/ \E c \in Content : Parse(c)
    \/ Deploy
    \/ MigNext

ArchiveSpec == MigInit /\ [][ArchiveNext]_allVars

-----------------------------------------------------------------------------
\* Properties that hold.

\* Every reference the manifest holds names a document it lists: repointing misses no
\* column, however imports, parsing and aborted runs interleave (replace_document's updates).
ReferencesListed ==
    /\ \A f \in Filings : {download[f], detail[f]} \subseteq rawDocuments \cup {NoContent}
    /\ parsed \subseteq rawDocuments
    /\ \A r \in fetches : r[1] \in rawDocuments

\* A listed document whose object is gone can be recovered: a clean redacted form of it is
\* stored with a sidecar, after any crash or rollback (put_raw before delete_for_redaction),
\* and a document the redaction cannot clean is not lost to its own replacement.
Recoverable(c) == c \in objects \/ \E d \in ReplacementsOf(c) \ Marked : Complete(d)
LostObjectHasReplacement == \A c \in rawDocuments : Recoverable(c)

\* A run that commits leaves no document in the manifest that redaction would change, whatever
\* was imported meanwhile, and every document the manifest lists from then on can be read.  (One
\* that redaction leaves as it is and the check still marks may have come in: the run says so.)
CommitCleans ==
    [][MigCommit => /\ \A c \in rawDocuments' \cap Marked : RedactedForms[c] = {c}
                    /\ rawDocuments' \subseteq objects']_allVars

\* What the new redaction lets in, and that it finds nothing to change in what of it is marked.
LetIn == {c \in Content : \E d \in AsFiled : c \in RedactedForms[d]}
MarksLeftStay == \A c \in LetIn \cap Marked : RedactedForms[c] = {c}

\* A run never makes a bundle unnameable itself: a download it has yet to replace is
\* refused only for a token that was committed before the run ("downloads go first").
RunNamesItsBundles ==
    \A c \in todo \cap first :
        Unnameable(c) => \E f \in FilingsIn(c) : fileName[f] = "token"

-----------------------------------------------------------------------------
\* Properties the repository states and the code does not keep.

\* Steps 3 and 4 of the module's docstring and ADR 0009: an old object is deleted only
\* after the transaction that repoints the manifest.  So whenever no run is active, every
\* document the manifest lists can be read.
NothingLostBetweenRuns == mig = "off" => rawDocuments \subseteq objects

\* stored_markers: the scan covers every stored object.  With no migration running and
\* nothing marked in the manifest (the scan returns nothing), nothing marked is stored.
ScanSeesEveryObject ==
    version = "new" /\ mig = "off" /\ rawDocuments \cap Marked = {} => objects \cap Marked = {}
=============================================================================
