----------------------- MODULE RedactionMigrationProofs -----------------------
(*************************************************************************)
(* For any documents and writers: the raw store while nothing is ever    *)
(* deleted, and the archive it implements.                               *)
(*                                                                       *)
(* For any documents, filings, writers and redaction: what a migration   *)
(* run, stopped anywhere and beside any number of importers, leaves      *)
(* behind.                                                               *)
(*                                                                       *)
(* RawStore's own invariant is not kept here, since a run deletes        *)
(* objects.  What takes its place is Stored: a document the redaction is *)
(* done with is never deleted (a run deletes a marked one, and only puts *)
(* unmarked ones in its place), so "kept" is never undone, whatever      *)
(* put_raw call another process is in.                                   *)
(*************************************************************************)
EXTENDS RedactionMigration, TLAPS

-------------------------------------------------------------------------------
\* The raw store alone (RawStore).

\* The initial states satisfy the inductive invariant.
LEMMA InitIInv == Init => IInv
BY SentinelAssumption
   DEF Init, IInv, TypeOK, Calls, SidecarMeansObject, WriterProgress,
       ListedDocumentsComplete, HasSidecar, Complete

\* Every step keeps the state well typed.
LEMMA NextTypeOK == ASSUME IInv, [Next]_vars PROVE TypeOK'
<1> USE SentinelAssumption DEF TypeOK, Calls
<1>0. TypeOK BY DEF IInv
<1>1. ASSUME NEW w \in Writers, NEW c \in Content, BeginPut(w, c) PROVE TypeOK'
  BY <1>0, <1>1 DEF BeginPut, storeVars, manifestVars
<1>2. ASSUME NEW w \in Writers, PutObject(w) PROVE TypeOK'
  <2>1. holding[w] \in Content BY <1>2 DEF PutObject, IInv, WriterProgress
  <2> QED BY <1>0, <1>2, <2>1 DEF PutObject, manifestVars
<1>3. ASSUME NEW w \in Writers, PutSidecar(w) PROVE TypeOK'
  BY <1>0, <1>3 DEF PutSidecar, manifestVars
<1>4. ASSUME NEW w \in Writers, InsertRawFetch(w) PROVE TypeOK'
  <2>1. holding[w] \in Content BY <1>4 DEF InsertRawFetch, IInv, WriterProgress
  <2> QED BY <1>0, <1>4, <2>1 DEF InsertRawFetch, storeVars, manifestVars
<1>5. ASSUME NEW w \in Writers, Commit(w) PROVE TypeOK'
  BY <1>0, <1>5 DEF Commit, storeVars
<1>6. ASSUME NEW w \in Writers, Crash(w) PROVE TypeOK'
  BY <1>0, <1>6 DEF Crash, storeVars, manifestVars
<1>7. CASE UNCHANGED vars
  BY <1>0, <1>7 DEF vars
<1> QED BY <1>1, <1>2, <1>3, <1>4, <1>5, <1>6, <1>7 DEF Next, WriterNext

\* The store only grows: no step removes an object or rewrites a sidecar.
LEMMA StoreGrows ==
    ASSUME IInv, [Next]_vars
    PROVE  /\ objects \subseteq objects'
           /\ \A c \in Content : HasSidecar(c) => sidecars'[c] = sidecars[c]
           /\ \A c \in Content : Complete(c) => Complete(c)'
<1>0. TypeOK BY DEF IInv
<1>1. /\ objects \subseteq objects'
      /\ \A c \in Content : HasSidecar(c) => sidecars'[c] = sidecars[c]
  <2>1. ASSUME NEW w \in Writers, PutObject(w)
        PROVE objects \subseteq objects' /\ UNCHANGED sidecars
    BY <2>1 DEF PutObject
  <2>2. ASSUME NEW w \in Writers, PutSidecar(w)
        PROVE /\ UNCHANGED objects
              /\ \A c \in Content : HasSidecar(c) => sidecars'[c] = sidecars[c]
    BY <1>0, <2>2 DEF PutSidecar, TypeOK, HasSidecar
  <2>3. ASSUME NEW w \in Writers, NEW c \in Content,
               BeginPut(w, c) \/ InsertRawFetch(w) \/ Commit(w) \/ Crash(w)
        PROVE UNCHANGED storeVars
    BY <2>3 DEF BeginPut, InsertRawFetch, Commit, Crash
  <2>4. ASSUME NEW w \in Writers, InsertRawFetch(w) \/ Commit(w) \/ Crash(w)
        PROVE UNCHANGED storeVars
    BY <2>4 DEF InsertRawFetch, Commit, Crash
  <2>5. UNCHANGED vars => UNCHANGED storeVars
    BY DEF vars, storeVars
  <2> QED BY <2>1, <2>2, <2>3, <2>4, <2>5 DEF Next, WriterNext, storeVars
<1> QED BY <1>1 DEF Complete, HasSidecar

\* A sidecar is written only onto a stored object.
LEMMA NextSidecarMeansObject == ASSUME IInv, [Next]_vars PROVE SidecarMeansObject'
<1>0. TypeOK /\ SidecarMeansObject /\ WriterProgress BY DEF IInv
<1>1. objects \subseteq objects' BY StoreGrows
<1>2. SUFFICES ASSUME NEW c \in Content, HasSidecar(c)' PROVE c \in objects'
  BY DEF SidecarMeansObject
<1>3. CASE HasSidecar(c)
  BY <1>0, <1>1, <1>3 DEF SidecarMeansObject
<1>4. CASE ~ HasSidecar(c)
  <2>1. PICK w \in Writers : PutSidecar(w)
    BY <1>2, <1>4 DEF Next, WriterNext, BeginPut, PutObject, InsertRawFetch, Commit,
       Crash, storeVars, vars, HasSidecar
  <2>2. c = holding[w]
    BY <1>0, <1>2, <1>4, <2>1 DEF PutSidecar, HasSidecar, TypeOK
  <2> QED BY <1>0, <1>1, <2>1, <2>2 DEF WriterProgress, PutSidecar
<1> QED BY <1>3, <1>4

\* A writer past a call of put_raw finds what the call promised, whatever others did since.
LEMMA NextWriterProgress == ASSUME IInv, [Next]_vars PROVE WriterProgress'
<1>0. TypeOK /\ SidecarMeansObject /\ WriterProgress BY DEF IInv
<1>g. /\ objects \subseteq objects'
      /\ \A c \in Content : Complete(c) => Complete(c)'
  BY StoreGrows
<1>1. SUFFICES ASSUME NEW v \in Writers
               PROVE /\ pc'[v] # "idle" => holding'[v] \in Content
                     /\ pc'[v] = "put_sidecar" => holding'[v] \in objects'
                     /\ pc'[v] = "insert_raw_fetch" => Complete(holding[v])' 
  BY DEF WriterProgress, Complete, HasSidecar
<1>2. CASE pc'[v] = pc[v] /\ holding'[v] = holding[v]
  BY <1>0, <1>g, <1>2 DEF WriterProgress, Complete, HasSidecar
<1>3. ASSUME NEW c \in Content, BeginPut(v, c)
      PROVE /\ pc'[v] # "idle" => holding'[v] \in Content
            /\ pc'[v] = "put_sidecar" => holding'[v] \in objects'
            /\ pc'[v] = "insert_raw_fetch" => Complete(holding[v])'
  BY <1>0, <1>3 DEF BeginPut, TypeOK, SidecarMeansObject, Complete, HasSidecar, storeVars
<1>4. CASE PutObject(v)
  BY <1>0, <1>4 DEF PutObject, TypeOK, WriterProgress
<1>5. CASE PutSidecar(v)
  BY <1>0, <1>5, SentinelAssumption
     DEF PutSidecar, TypeOK, WriterProgress, Complete, HasSidecar
<1>6. CASE InsertRawFetch(v) \/ Crash(v)
  BY <1>0, <1>6 DEF InsertRawFetch, Crash, TypeOK
<1>7. CASE ~ (\/ \E c \in Content : BeginPut(v, c)
              \/ PutObject(v) \/ PutSidecar(v) \/ InsertRawFetch(v) \/ Crash(v))
  <2>1. pc'[v] = pc[v] /\ holding'[v] = holding[v]
    BY <1>0, <1>7 DEF Next, WriterNext, BeginPut, PutObject, PutSidecar, InsertRawFetch,
       Commit, Crash, vars, TypeOK
  <2> QED BY <1>2, <2>1
<1> QED BY <1>3, <1>4, <1>5, <1>6, <1>7

\* A listed document was complete when it was listed and stays complete.
LEMMA NextListedDocumentsComplete ==
    ASSUME IInv, [Next]_vars PROVE ListedDocumentsComplete'
<1>0. TypeOK /\ WriterProgress /\ ListedDocumentsComplete BY DEF IInv
<1>g. \A c \in Content : Complete(c) => Complete(c)' BY StoreGrows
<1>1. ASSUME NEW w \in Writers, InsertRawFetch(w)
      PROVE /\ rawDocuments' = rawDocuments
            /\ \A v \in Writers : uncommitted'[v] \subseteq uncommitted[v] \cup {holding[w]}
            /\ holding[w] \in Content /\ Complete(holding[w])
  BY <1>0, <1>1 DEF InsertRawFetch, WriterProgress, TypeOK, manifestVars
<1>2. ASSUME NEW w \in Writers, Commit(w)
      PROVE /\ rawDocuments' = rawDocuments \cup uncommitted[w]
            /\ \A v \in Writers : uncommitted'[v] \subseteq uncommitted[v]
  BY <1>0, <1>2 DEF Commit, TypeOK
<1>3. CASE ~ \E w \in Writers : InsertRawFetch(w) \/ Commit(w)
  <2>1. /\ rawDocuments' = rawDocuments
        /\ \A v \in Writers : uncommitted'[v] \subseteq uncommitted[v]
    BY <1>0, <1>3 DEF Next, WriterNext, BeginPut, PutObject, PutSidecar, Crash,
       manifestVars, vars, TypeOK
  <2> QED BY <1>0, <1>g, <2>1 DEF ListedDocumentsComplete, TypeOK
<1>4. ASSUME NEW w \in Writers, InsertRawFetch(w) PROVE ListedDocumentsComplete'
  BY <1>0, <1>g, <1>1, <1>4 DEF ListedDocumentsComplete, TypeOK
<1>5. ASSUME NEW w \in Writers, Commit(w) PROVE ListedDocumentsComplete'
  BY <1>0, <1>g, <1>2, <1>5 DEF ListedDocumentsComplete, TypeOK
<1> QED BY <1>3, <1>4, <1>5

\* The inductive invariant holds in every reachable state.
THEOREM IInvHolds == Spec => []IInv
<1>1. Init => IInv BY InitIInv
<1>2. IInv /\ [Next]_vars => IInv'
  BY NextTypeOK, NextSidecarMeansObject, NextWriterProgress, NextListedDocumentsComplete
     DEF IInv
<1> QED BY <1>1, <1>2, PTL DEF Spec

\* The type invariant, for any documents and writers.
THEOREM TypeCorrect == Spec => []TypeOK
BY IInvHolds, PTL DEF IInv

\* Whatever the manifest lists can be read back, for any number of concurrent and
\* crashing ingestion runs (put_raw before insert_raw_fetch, object before sidecar).
THEOREM ListedComplete == Spec => []ListedDocumentsComplete
BY IInvHolds, PTL DEF IInv

\* No put rewrites a sidecar: the metadata of the first fetch is kept.
THEOREM FirstMetadata == Spec => FirstMetadataKept
<1>1. IInv /\ [Next]_vars =>
        [\A c \in Content : HasSidecar(c) => sidecars'[c] = sidecars[c]]_vars
  BY StoreGrows
<1> QED BY <1>1, IInvHolds, PTL DEF Spec, FirstMetadataKept

-----------------------------------------------------------------------------
\* The refinement.

archivedBar == [c \in Content |-> IF c \in objects THEN sidecars[c] ELSE NoRun]

\* A step of the store is an archiving step, a cataloguing step or a stutter.
LEMMA StepRefines ==
    ASSUME IInv, IInv', [Next]_vars
    PROVE  [Archive!Next]_Archive!vars
<1>0. TypeOK /\ SidecarMeansObject /\ WriterProgress /\ ListedDocumentsComplete
  BY DEF IInv
<1> USE DEF Archive!Next, Archive!vars, Archive!Archive, Archive!Catalogue, archivedBar
<1>1. ASSUME NEW w \in Writers, NEW c \in Content, BeginPut(w, c)
      PROVE UNCHANGED Archive!vars
  BY <1>1 DEF BeginPut, storeVars, manifestVars
<1>2. ASSUME NEW w \in Writers, PutObject(w)
      PROVE UNCHANGED Archive!vars
  <2>1. \A c \in Content : c \in objects' /\ c \notin objects => sidecars[c] = NoRun
    BY <1>0, <1>2 DEF SidecarMeansObject, HasSidecar
  <2>2. archivedBar' = archivedBar
    BY <1>0, <1>2, <2>1 DEF PutObject, TypeOK, SidecarMeansObject, HasSidecar
  <2> QED BY <1>2, <2>2 DEF PutObject, manifestVars
<1>3. ASSUME NEW w \in Writers, PutSidecar(w)
      PROVE [Archive!Next]_Archive!vars
  <2>1. holding[w] \in Content /\ holding[w] \in objects
    BY <1>0, <1>3 DEF PutSidecar, WriterProgress
  <2>2. CASE HasSidecar(holding[w])
    BY <1>3, <2>2 DEF PutSidecar, manifestVars
  <2>3. CASE ~ HasSidecar(holding[w])
    <3>1. archivedBar[holding[w]] = NoRun
      BY <2>1, <2>3 DEF HasSidecar
    <3>2. archivedBar' = [archivedBar EXCEPT ![holding[w]] = w]
      BY <1>0, <1>3, <2>1, <2>3 DEF PutSidecar, TypeOK
    <3>3. rawDocuments' = rawDocuments
      BY <1>3 DEF PutSidecar, manifestVars
    <3> QED BY <2>1, <3>1, <3>2, <3>3
  <2> QED BY <2>2, <2>3
<1>4. ASSUME NEW w \in Writers, Commit(w)
      PROVE [Archive!Next]_Archive!vars
  <2>1. \A c \in uncommitted[w] : c \in Content /\ archivedBar[c] # NoRun
    BY <1>0 DEF TypeOK, ListedDocumentsComplete, Complete, HasSidecar
  <2>2. /\ rawDocuments' = rawDocuments \cup uncommitted[w]
        /\ archivedBar' = archivedBar
        /\ uncommitted[w] \in SUBSET Content
    BY <1>0, <1>4 DEF Commit, storeVars, TypeOK
  <2> QED BY <2>1, <2>2
<1>5. ASSUME NEW w \in Writers, InsertRawFetch(w) \/ Crash(w)
      PROVE UNCHANGED Archive!vars
  BY <1>5 DEF InsertRawFetch, Crash, storeVars, manifestVars
<1>6. CASE UNCHANGED vars
  BY <1>6 DEF vars
<1> QED BY <1>1, <1>2, <1>3, <1>4, <1>5, <1>6 DEF Next, WriterNext

\* put_raw and the manifest, with crashes and concurrent writers, implement the archive:
\* a document appears once, with its first metadata, and is catalogued only once it is there.
THEOREM RawStoreImplementsArchive == Spec => ImplementsArchive
<1>1. Init => Archive!Init
  BY DEF Init, Archive!Init
<1>2. IInv /\ IInv' /\ [Next]_vars => [Archive!Next]_Archive!vars
  BY StepRefines
<1> QED BY <1>1, <1>2, IInvHolds, PTL DEF Spec, ImplementsArchive, Archive!Spec

-------------------------------------------------------------------------------
\* The raw store under a migration (RedactionMigration).

Replacing == {"put_object", "put_sidecar", "repoint", "delete_object", "delete_sidecar"}

MigTypeOK ==
    /\ TypeOK
    /\ version \in {"old", "new"}
    /\ download \in [Filings -> Content \cup {NoContent}]
    /\ detail \in [Filings -> Content \cup {NoContent}]
    /\ fileName \in [Filings -> {"none", "own", "token"}]
    /\ parsed \subseteq Content
    /\ mig \in {"off", "replace"} \cup Replacing
    /\ todo \subseteq Marked /\ first \subseteq Marked
    /\ at \in Marked \cup {NoContent} /\ into \in Content \cup {NoContent}
    /\ DOMAIN moved \subseteq Marked
    /\ \A c \in DOMAIN moved : moved[c] \in Content \ Marked

\* A filing's columns name documents that hold it, before and after the open transaction.
HoldsItsFilings ==
    /\ \A f \in Filings :
          /\ download[f] # NoContent => f \in DownloadOf[download[f]]
          /\ detail[f] # NoContent => f \in DetailOf[detail[f]]
          /\ fileName[f] # "none" => detail[f] # NoContent
    /\ \A c \in DOMAIN moved :
          DownloadOf[moved[c]] = DownloadOf[c] /\ DetailOf[moved[c]] = DetailOf[c]

\* What each call of a run finds of the calls before it.
RunProgress ==
    /\ mig # "off" => version = "new"
    /\ mig = "off" => DOMAIN moved = {} /\ todo = {}
    /\ mig \in Replacing =>
          /\ at \in Marked /\ into \in ReplacementsOf(at) \ Marked
          /\ DownloadOf[into] = DownloadOf[at] /\ DetailOf[into] = DetailOf[at]
    /\ mig \in {"put_object", "put_sidecar"} => HasSidecar(at)
    /\ mig = "put_sidecar" => into \in objects
    /\ mig \in {"repoint", "delete_object", "delete_sidecar"} => Complete(into)
    /\ mig \in {"delete_object", "delete_sidecar"} => at \in DOMAIN moved

\* Only a marked document loses its object.
Safe(c) == Recoverable(c) /\ (c \notin Marked => c \in objects)

Stored ==
    /\ \A c \in Content : HasSidecar(c) => Safe(c)
    /\ \A w \in Writers :
          /\ pc[w] # "idle" => holding[w] \in Content
          /\ pc[w] \in {"put_sidecar", "insert_raw_fetch"} => Safe(holding[w])
          /\ \A c \in uncommitted[w] : Safe(c)
    /\ \A c \in rawDocuments : Safe(c)

\* No detail is replaced, or being replaced, while a download is left.
DownloadsFirst ==
    /\ \A c \in first : DownloadOf[c] # {}
    /\ MovedDetails # {} => todo \cap first = {}
    /\ mig \in Replacing /\ DetailOf[at] # {} => todo \cap first = {}

\* Marked documents a run will not have replaced are those the new redaction let in.
RestIsLetIn ==
    /\ version = "new" =>
          \A w \in Writers : (pc[w] # "idle" => holding[w] \in LetIn) /\ uncommitted[w] \subseteq LetIn
    /\ mig # "off" => rawDocuments \cap Marked \subseteq todo \cup DOMAIN moved \cup LetIn

MigInv ==
    /\ MigTypeOK /\ HoldsItsFilings /\ RunProgress /\ Stored /\ ReferencesListed
    /\ DownloadsFirst /\ RestIsLetIn

-------------------------------------------------------------------------------
\* Types.

\* Each step of a writer keeps the types of the raw store and the manifest.
LEMMA WriterTypes ==
    ASSUME TypeOK, Stored, NEW w \in Writers,
           \/ \E c \in Content : BeginPut(w, c)
           \/ PutObject(w) \/ PutSidecar(w) \/ InsertRawFetch(w) \/ Crash(w) \/ Commit(w)
    PROVE  TypeOK'
<1> USE SentinelAssumption DEF TypeOK, Calls
<1>0. pc[w] # "idle" => holding[w] \in Content
  BY DEF Stored
<1>1. ASSUME NEW c \in Content, BeginPut(w, c) PROVE TypeOK'
  BY <1>1 DEF BeginPut, storeVars, manifestVars
<1>2. CASE PutObject(w)
  BY <1>0, <1>2 DEF PutObject, manifestVars
<1>3. CASE PutSidecar(w)
  BY <1>0, <1>3 DEF PutSidecar, manifestVars
<1>4. CASE InsertRawFetch(w)
  BY <1>0, <1>4 DEF InsertRawFetch, storeVars, manifestVars
<1>5. CASE Crash(w)
  BY <1>5 DEF Crash, storeVars, manifestVars
<1>6. CASE Commit(w)
  BY <1>6 DEF Commit, storeVars
<1> QED
  BY <1>1, <1>2, <1>3, <1>4, <1>5, <1>6

\* What the scan does not name is not moved.
LEMMA MovedToTypes ==
    ASSUME MigTypeOK, NEW c \in Content \cup {NoContent}
    PROVE  /\ MovedTo(c) \in Content \cup {NoContent}
           /\ c = NoContent <=> MovedTo(c) = NoContent
           /\ c \in DOMAIN moved => MovedTo(c) \in Content \ Marked
           /\ c \notin DOMAIN moved => MovedTo(c) = c
BY SentinelAssumption, RedactionAssumption DEF MigTypeOK, MovedTo

\* What an import sets a filing's columns to: documents of its transaction that hold it.
LEMMA ImportSets ==
    ASSUME MigTypeOK, NEW w \in Writers, ImportCommit(w), NEW f \in Filings
    PROVE  /\ \/ download'[f] = download[f]
              \/ download'[f] \in uncommitted[w] /\ f \in DownloadOf[download'[f]]
           /\ \/ detail'[f] = detail[f]
              \/ detail'[f] \in uncommitted[w] /\ f \in DetailOf[detail'[f]]
<1>1. /\ uncommitted[w] \in SUBSET Content
      /\ DownloadOf \in [Content -> SUBSET Filings] /\ DetailOf \in [Content -> SUBSET Filings]
  BY RedactionAssumption DEF MigTypeOK, TypeOK
<1>2. /\ download \in [Filings -> Content \cup {NoContent}]
      /\ download' \in SetOnce(download, DownloadOf, uncommitted[w])
  BY DEF ImportCommit, MigTypeOK
<1>3. /\ detail \in [Filings -> Content \cup {NoContent}]
      /\ detail' \in SetOnce(detail, DetailOf, uncommitted[w])
  BY DEF ImportCommit, MigTypeOK
<1>4. \/ download'[f] = download[f]
      \/ download'[f] \in uncommitted[w] /\ f \in DownloadOf[download'[f]]
  BY <1>1, <1>2 DEF SetOnce
<1>5. \/ detail'[f] = detail[f]
      \/ detail'[f] \in uncommitted[w] /\ f \in DetailOf[detail'[f]]
  BY <1>1, <1>3 DEF SetOnce
<1> QED
  BY <1>4, <1>5

LEMMA NextTypes == ASSUME MigInv, [ArchiveNext]_allVars PROVE MigTypeOK'
<1> USE DEF Replacing
<1>0. MigTypeOK /\ TypeOK /\ Stored /\ Marked \subseteq Content
  BY RedactionAssumption DEF MigInv, MigTypeOK
<1>1. ASSUME NEW w \in Writers, ImportStep(w) PROVE MigTypeOK'
  <2>1. TypeOK'
    BY <1>0, <1>1, WriterTypes DEF ImportStep
  <2> QED
    BY <1>0, <1>1, <2>1 DEF ImportStep, MigTypeOK, filingVars, migVars
<1>2. ASSUME NEW w \in Writers, ImportCommit(w) PROVE MigTypeOK'
  <2>1. TypeOK'
    BY <1>0, <1>2, WriterTypes DEF ImportCommit
  <2>2. /\ download' \in [Filings -> Content \cup {NoContent}]
        /\ detail' \in [Filings -> Content \cup {NoContent}]
    BY <1>2 DEF ImportCommit, SetOnce
  <2>3. fileName' \in [Filings -> {"none", "own", "token"}]
    BY <1>0, <1>2 DEF ImportCommit, MigTypeOK, NameIn
  <2> QED
    BY <1>0, <1>2, <2>1, <2>2, <2>3 DEF ImportCommit, MigTypeOK, migVars
<1>3. ASSUME NEW c \in Content, Parse(c) PROVE MigTypeOK'
  BY <1>0, <1>3 DEF Parse, MigTypeOK, TypeOK, vars, migVars
<1>4. CASE Deploy
  BY <1>0, <1>4 DEF Deploy, MigTypeOK, TypeOK, vars, filingVars, migVars
<1>5. CASE MigScan
  BY <1>0, <1>5 DEF MigScan, MigTypeOK, TypeOK, vars, filingVars
<1>6. ASSUME NEW c \in Marked, MigRedact(c) PROVE MigTypeOK'
  BY <1>0, <1>6 DEF MigRedact, RedactInto, MigTypeOK, TypeOK, vars, filingVars
<1>7. CASE MigPutObject
  <2>1. into \in Content
    BY <1>7, SentinelAssumption DEF MigPutObject, MigInv, RunProgress, ReplacementsOf, MigTypeOK
  <2> QED
    BY <1>0, <1>7, <2>1 DEF MigPutObject, MigTypeOK, TypeOK, manifestVars, writerVars, filingVars
<1>8. CASE MigPutSidecar
  <2>1. into \in Content /\ at \in Content
    BY <1>0, <1>8 DEF MigPutSidecar, MigInv, RunProgress, ReplacementsOf, MigTypeOK
  <2> QED
    BY <1>0, <1>8, <2>1 DEF MigPutSidecar, MigTypeOK, TypeOK, manifestVars, writerVars, filingVars
<1>9. CASE MigRepoint
  <2>1. at \in Marked /\ into \in Content \ Marked
    BY <1>0, <1>9 DEF MigRepoint, MigInv, RunProgress, ReplacementsOf, MigTypeOK
  <2> QED
    BY <1>0, <1>9, <2>1 DEF MigRepoint, MigTypeOK, TypeOK, vars, filingVars
<1>10. CASE MigDeleteObject
  BY <1>0, <1>10 DEF MigDeleteObject, MigTypeOK, TypeOK, manifestVars, writerVars, filingVars
<1>11. CASE MigDeleteSidecar
  BY <1>0, <1>11 DEF MigDeleteSidecar, MigTypeOK, TypeOK, manifestVars, writerVars, filingVars
<1>12. CASE MigCommit
  <2>1. /\ rawDocuments' \subseteq Content
        /\ download' \in [Filings -> Content \cup {NoContent}]
        /\ detail' \in [Filings -> Content \cup {NoContent}]
    <3>1. \A c \in Content : MovedTo(c) \in Content
      BY <1>0, MovedToTypes, SentinelAssumption
    <3> QED
      BY <1>0, <1>12, <3>1, MovedToTypes DEF MigCommit, MigTypeOK, TypeOK, ViewedDocuments
  <2>2. fetches' \subseteq Content \X Writers
    <3>1. \A r \in fetches : MovedTo(r[1]) \in Content /\ r[2] \in Writers
      BY <1>0, MovedToTypes, SentinelAssumption DEF TypeOK
    <3> QED
      BY <1>12, <3>1 DEF MigCommit
  <2>3. fileName' \in [Filings -> {"none", "own", "token"}]
    BY <1>0, <1>12 DEF MigCommit, MigTypeOK, ViewedName
  <2>4. DOMAIN moved' = {}
    BY <1>12 DEF MigCommit
  <2> QED
    BY <1>0, <1>12, <2>1, <2>2, <2>3, <2>4
       DEF MigCommit, MigTypeOK, TypeOK, storeVars, writerVars
<1>13. CASE MigAbort
  <2>1. DOMAIN moved' = {}
    BY <1>13 DEF MigAbort
  <2> QED
    BY <1>0, <1>13, <2>1 DEF MigAbort, MigTypeOK, TypeOK, vars, filingVars
<1>14. CASE UNCHANGED allVars
  BY <1>0, <1>14 DEF allVars, vars, filingVars, migVars, MigTypeOK, TypeOK
<1> QED
  BY <1>1, <1>2, <1>3, <1>4, <1>5, <1>6, <1>7, <1>8, <1>9, <1>10, <1>11, <1>12, <1>13, <1>14
     DEF ArchiveNext, MigNext

-------------------------------------------------------------------------------
\* The store.

\* Only the two deletes of a run take anything out of the store.
LEMMA StoreSteps ==
    ASSUME MigInv, [ArchiveNext]_allVars, ~ MigDeleteObject, ~ MigDeleteSidecar
    PROVE  /\ objects \subseteq objects'
           /\ \A c \in Content : HasSidecar(c) => HasSidecar(c)'
<1>0. TypeOK /\ MigTypeOK
  BY DEF MigInv, MigTypeOK
<1>1. ASSUME UNCHANGED storeVars
      PROVE  objects \subseteq objects' /\ \A c \in Content : HasSidecar(c) => HasSidecar(c)'
  BY <1>1 DEF storeVars, HasSidecar
<1>2. ASSUME NEW w \in Writers, ImportStep(w)
      PROVE  objects \subseteq objects' /\ \A c \in Content : HasSidecar(c) => HasSidecar(c)'
  <2>1. CASE PutObject(w)
    BY <2>1 DEF PutObject, HasSidecar
  <2>2. CASE PutSidecar(w)
    BY <1>0, <2>2 DEF PutSidecar, HasSidecar, TypeOK
  <2>3. CASE UNCHANGED storeVars
    BY <1>1, <2>3
  <2> QED
    BY <1>2, <2>1, <2>2, <2>3 DEF ImportStep, BeginPut, InsertRawFetch, Crash
<1>3. CASE MigPutObject
  BY <1>3 DEF MigPutObject, HasSidecar
<1>4. CASE MigPutSidecar
  BY <1>0, <1>4 DEF MigPutSidecar, HasSidecar, TypeOK
<1>5. CASE UNCHANGED storeVars
  BY <1>1, <1>5
<1> QED
  BY <1>2, <1>3, <1>4, <1>5
     DEF ArchiveNext, MigNext, ImportCommit, Commit, Parse, Deploy, MigScan, MigRedact, RedactInto,
         MigRepoint, MigCommit, MigAbort, allVars, vars, storeVars

\* A document kept stays kept: one loses its object only to a clean form that is stored.
LEMMA SafeStays ==
    ASSUME MigInv, [ArchiveNext]_allVars
    PROVE  \A c \in Content : Safe(c) => Safe(c)'
<1> SUFFICES ASSUME NEW c \in Content, Safe(c) PROVE Safe(c)'
  OBVIOUS
<1>0. \A x : ReplacementsOf(x) \subseteq ReplacementsOf(x)
  OBVIOUS
<1>1. CASE ~ MigDeleteObject /\ ~ MigDeleteSidecar
  <2>1. objects \subseteq objects' /\ \A d \in Content : HasSidecar(d) => HasSidecar(d)'
    BY <1>1, StoreSteps
  <2>2. \A d \in Content : Complete(d) => Complete(d)'
    BY <2>1 DEF Complete
  <2>3. \A d : Complete(d) => d \in Content
    BY DEF MigInv, MigTypeOK, TypeOK, Complete
  <2> QED
    BY <2>1, <2>2, <2>3 DEF Safe, Recoverable
<1>2. CASE MigDeleteObject
  <2>1. /\ at \in Marked /\ into \in ReplacementsOf(at) \ Marked /\ Complete(into)
        /\ objects' = objects \ {at} /\ sidecars' = sidecars
    BY <1>2 DEF MigDeleteObject, MigInv, RunProgress, Replacing
  <2>2. \A d : d \notin Marked /\ Complete(d) => Complete(d)'
    BY <2>1 DEF Complete, HasSidecar
  <2>3. CASE c = at
    BY <2>1, <2>2, <2>3 DEF Safe, Recoverable
  <2>4. CASE c # at
    BY <2>1, <2>2, <2>4 DEF Safe, Recoverable
  <2> QED
    BY <2>3, <2>4
<1>3. CASE MigDeleteSidecar
  <2>1. at \in Marked /\ objects' = objects /\ sidecars' = [sidecars EXCEPT ![at] = NoRun]
    BY <1>3 DEF MigDeleteSidecar, MigInv, RunProgress, Replacing
  <2>2. \A d : d \notin Marked /\ Complete(d) => Complete(d)'
    BY <2>1 DEF Complete, HasSidecar, MigInv, MigTypeOK, TypeOK
  <2> QED
    BY <2>1, <2>2 DEF Safe, Recoverable
<1> QED
  BY <1>1, <1>2, <1>3

\* A sidecar is written for a document that is safe.
LEMMA SidecarsSafe ==
    ASSUME MigInv, [ArchiveNext]_allVars, NEW c \in Content, HasSidecar(c)', ~ HasSidecar(c)
    PROVE  Safe(c)'
<1>0. TypeOK /\ MigTypeOK /\ Stored /\ RunProgress
  BY DEF MigInv, MigTypeOK
<1>1. ASSUME NEW w \in Writers, PutSidecar(w) PROVE Safe(c)'
  <2>1. c = holding[w]
    BY <1>0, <1>1 DEF PutSidecar, HasSidecar, TypeOK
  <2>2. Safe(c)
    BY <1>0, <1>1, <2>1 DEF PutSidecar, Stored
  <2> QED
    BY <2>2, SafeStays
<1>2. CASE MigPutSidecar
  <2>1. c = into /\ into \in objects /\ objects' = objects
    BY <1>0, <1>2 DEF MigPutSidecar, RunProgress, HasSidecar, TypeOK
  <2> QED
    BY <2>1 DEF Safe, Recoverable
<1>3. ~ MigDeleteSidecar
  BY <1>0 DEF MigDeleteSidecar, HasSidecar, TypeOK
<1> QED
  BY <1>1, <1>2, <1>3
     DEF ArchiveNext, MigNext, ImportStep, BeginPut, PutObject, InsertRawFetch, Crash,
         ImportCommit, Commit, Parse, Deploy, MigScan, MigRedact, RedactInto,
         MigPutObject, MigDeleteObject, MigRepoint, MigCommit, MigAbort,
         allVars, vars, storeVars, HasSidecar

\* The writers' and the manifest's documents stay safe.
LEMMA NextStored == ASSUME MigInv, [ArchiveNext]_allVars PROVE Stored'
<1>0. TypeOK /\ MigTypeOK /\ Stored /\ RunProgress
  BY DEF MigInv, MigTypeOK
<1>s. \A c \in Content : Safe(c) => Safe(c)'
  BY SafeStays
<1>1. \A c \in Content : HasSidecar(c)' => Safe(c)'
  BY <1>0, <1>s, SidecarsSafe DEF Stored
<1> DEFINE WriterSafe(v) ==
             /\ pc[v] # "idle" => holding[v] \in Content
             /\ pc[v] \in {"put_sidecar", "insert_raw_fetch"} => Safe(holding[v])
             /\ \A c \in uncommitted[v] : Safe(c)
<1>2. \A v \in Writers : WriterSafe(v)'
  <2> SUFFICES ASSUME NEW v \in Writers
               PROVE  /\ pc'[v] # "idle" => holding'[v] \in Content
                      /\ pc'[v] \in {"put_sidecar", "insert_raw_fetch"} => Safe(holding[v])'
                      /\ \A c \in uncommitted'[v] : Safe(c)'
    OBVIOUS
  <2>1. CASE pc'[v] = pc[v] /\ holding'[v] = holding[v] /\ uncommitted'[v] \subseteq uncommitted[v]
    <3>1. \A c \in uncommitted'[v] : c \in Content /\ Safe(c)
      BY <1>0, <2>1 DEF Stored, TypeOK
    <3>2. pc'[v] \in {"put_sidecar", "insert_raw_fetch"} => Safe(holding[v])
      BY <1>0, <2>1 DEF Stored
    <3>3. pc[v] # "idle" => holding[v] \in Content
      BY <1>0 DEF Stored
    <3>4. pc'[v] \in {"put_sidecar", "insert_raw_fetch"} => Safe(holding[v])'
      BY <1>s, <2>1, <3>2, <3>3 DEF Safe, Recoverable, Complete, HasSidecar
    <3> QED
      BY <1>s, <2>1, <3>1, <3>3, <3>4
  <2>2. ASSUME NEW c \in Content, BeginPut(v, c)
        PROVE  /\ pc'[v] # "idle" => holding'[v] \in Content
               /\ pc'[v] \in {"put_sidecar", "insert_raw_fetch"} => Safe(holding[v])'
               /\ \A d \in uncommitted'[v] : Safe(d)'
    <3>1. holding'[v] = c /\ uncommitted' = uncommitted
      BY <1>0, <2>2 DEF BeginPut, TypeOK
    <3>2. pc'[v] \in {"put_sidecar", "insert_raw_fetch"} => HasSidecar(c)
      BY <1>0, <2>2 DEF BeginPut, TypeOK
    <3>3. HasSidecar(c) => Safe(c)'
      BY <1>0, <1>s DEF Stored
    <3>4. HasSidecar(c) => Safe(holding[v])'
      BY <3>1, <3>3 DEF Safe, Recoverable, Complete, HasSidecar
    <3>5. \A d \in uncommitted[v] : d \in Content /\ Safe(d)
      BY <1>0 DEF Stored, TypeOK
    <3> QED
      BY <1>s, <3>1, <3>2, <3>4, <3>5
  <2>3. CASE PutObject(v)
    <3>1. /\ holding'[v] = holding[v] /\ holding[v] \in Content /\ holding[v] \in objects'
          /\ uncommitted' = uncommitted
      BY <1>0, <2>3 DEF PutObject, Stored
    <3>2. Safe(holding[v])'
      BY <3>1 DEF Safe, Recoverable
    <3>3. \A d \in uncommitted[v] : d \in Content /\ Safe(d)
      BY <1>0 DEF Stored, TypeOK
    <3> QED
      BY <1>s, <3>1, <3>2, <3>3
  <2>4. CASE PutSidecar(v)
    <3>1. /\ holding'[v] = holding[v] /\ holding[v] \in Content /\ Safe(holding[v])
          /\ uncommitted' = uncommitted
      BY <1>0, <2>4 DEF PutSidecar, Stored
    <3>2. Safe(holding[v])'
      BY <1>s, <3>1 DEF Safe, Recoverable, Complete, HasSidecar
    <3>3. \A d \in uncommitted[v] : d \in Content /\ Safe(d)
      BY <1>0 DEF Stored, TypeOK
    <3> QED
      BY <1>s, <3>1, <3>2, <3>3
  <2>5. CASE InsertRawFetch(v)
    <3>1. /\ pc'[v] = "idle" /\ uncommitted'[v] = uncommitted[v] \cup {holding[v]}
          /\ holding[v] \in Content /\ Safe(holding[v])
      BY <1>0, <2>5 DEF InsertRawFetch, Stored, TypeOK
    <3>2. \A d \in uncommitted'[v] : d \in Content /\ Safe(d)
      BY <1>0, <3>1 DEF Stored, TypeOK
    <3> QED
      BY <1>s, <3>1, <3>2
  <2>6. CASE Crash(v)
    BY <1>0, <2>6 DEF Crash, TypeOK
  <2>7. CASE Commit(v)
    BY <1>0, <2>1, <2>7 DEF Commit, TypeOK
  <2>8. CASE ~ (\/ \E c \in Content : BeginPut(v, c)
                \/ PutObject(v) \/ PutSidecar(v) \/ InsertRawFetch(v) \/ Crash(v) \/ Commit(v))
    <3>1. pc'[v] = pc[v] /\ holding'[v] = holding[v] /\ uncommitted'[v] = uncommitted[v]
      <4>1. ASSUME NEW w \in Writers, ImportStep(w) \/ ImportCommit(w)
            PROVE  pc'[v] = pc[v] /\ holding'[v] = holding[v] /\ uncommitted'[v] = uncommitted[v]
        BY <1>0, <2>8, <4>1
           DEF ImportStep, ImportCommit, BeginPut, PutObject, PutSidecar, InsertRawFetch, Crash,
               Commit, TypeOK
      <4>2. CASE UNCHANGED writerVars
        BY <4>2 DEF writerVars
      <4> QED
        BY <4>1, <4>2
           DEF ArchiveNext, MigNext, Parse, Deploy, MigScan, MigRedact, RedactInto, MigPutObject,
               MigPutSidecar, MigRepoint, MigDeleteObject, MigDeleteSidecar, MigCommit, MigAbort,
               allVars, vars, writerVars
    <3> QED
      BY <2>1, <3>1
  <2> QED
    BY <2>2, <2>3, <2>4, <2>5, <2>6, <2>7, <2>8
<1>3. \A c \in rawDocuments' : Safe(c)'
  <2>1. ASSUME NEW w \in Writers, ImportCommit(w) PROVE \A c \in rawDocuments' : Safe(c)'
    <3>1. \A c \in rawDocuments' : c \in Content /\ Safe(c)
      BY <1>0, <2>1 DEF ImportCommit, Commit, Stored, TypeOK
    <3> QED
      BY <1>s, <3>1
  <2>2. CASE MigCommit
    <3>1. rawDocuments' \subseteq objects /\ objects' = objects
      BY <2>2 DEF MigCommit, storeVars
    <3> QED
      BY <3>1 DEF Safe, Recoverable
  <2>3. CASE UNCHANGED rawDocuments
    <3>1. \A c \in rawDocuments' : c \in Content /\ Safe(c)
      BY <1>0, <2>3 DEF Stored, TypeOK
    <3> QED
      BY <1>s, <3>1
  <2> QED
    BY <2>1, <2>2, <2>3
       DEF ArchiveNext, MigNext, ImportStep, BeginPut, PutObject, PutSidecar, InsertRawFetch, Crash,
           Parse, Deploy, MigScan, MigRedact, RedactInto, MigPutObject, MigPutSidecar, MigRepoint,
           MigDeleteObject, MigDeleteSidecar, MigAbort, allVars, vars, manifestVars
<1> QED
  BY <1>1, <1>2, <1>3 DEF Stored

-------------------------------------------------------------------------------
\* The run.

\* The names a run redacts a document with are those of filings it holds, and are possible.
LEMMA RunNames ==
    ASSUME MigInv, NEW c \in Marked, DetailOf[c] = {} => ~ Unnameable(c)
    PROVE  /\ FilingsIn(c) \subseteq DownloadOf[c]
           /\ [f \in FilingsIn(c) |-> ViewedName(f)] \in PossibleNames(FilingsIn(c))
<1>0. /\ MigTypeOK /\ HoldsItsFilings /\ Marked \subseteq Content /\ NoContent \notin Content
  BY RedactionAssumption, SentinelAssumption DEF MigInv
<1>1. FilingsIn(c) \subseteq DownloadOf[c]
  <2> SUFFICES ASSUME NEW f \in FilingsIn(c) PROVE f \in DownloadOf[c]
    OBVIOUS
  <2>1. f \in Filings /\ MovedTo(download[f]) = c /\ download[f] \in Content \cup {NoContent}
    BY <1>0 DEF FilingsIn, MigTypeOK
  <2>2. download[f] = c
    BY <1>0, <2>1, MovedToTypes
  <2> QED
    BY <1>0, <2>1, <2>2 DEF HoldsItsFilings
<1>2. \A f \in Filings : /\ ViewedName(f) \in {"none", "own", "token"}
                         /\ ViewedName(f) # "none" => detail[f] # NoContent
  BY <1>0 DEF ViewedName, MovedDetails, MigTypeOK, HoldsItsFilings
<1>3. \A f \in FilingsIn(c) : ViewedName(f) # "none" => \E d \in Content : f \in DetailOf[d]
  BY <1>0, <1>2 DEF FilingsIn, HoldsItsFilings, MigTypeOK
<1>4. Cardinality(FilingsIn(c)) > 1 => \A f \in FilingsIn(c) : ViewedName(f) # "token"
  <2>1. CASE DetailOf[c] = {}
    BY <2>1 DEF Unnameable, Tokened
  <2>2. CASE DetailOf[c] # {}
    <3>1. DownloadOf[c] = {}
      BY <1>0, <2>2, RedactionAssumption
    <3> QED
      BY <1>1, <3>1
  <2> QED
    BY <2>1, <2>2
<1> DEFINE names == [f \in FilingsIn(c) |-> ViewedName(f)]
<1>5. names \in [FilingsIn(c) -> {"none", "own", "token"}]
  BY <1>2 DEF FilingsIn
<1>6. \A f \in FilingsIn(c) : names[f] = ViewedName(f)
  OBVIOUS
<1> HIDE DEF names
<1>7. names \in PossibleNames(FilingsIn(c))
  BY <1>3, <1>4, <1>5, <1>6 DEF PossibleNames
<1> QED
  BY <1>1, <1>7 DEF names

\* What a run puts in a document's place is an unmarked form of it, which holds its filings.
LEMMA RunReplaces ==
    ASSUME MigInv, NEW c \in Marked, MigRedact(c)
    PROVE  /\ at' = c /\ into' \in ReplacementsOf(c) \ Marked /\ into' \in Content
           /\ DownloadOf[into'] = DownloadOf[c] /\ DetailOf[into'] = DetailOf[c]
           /\ HasSidecar(c) /\ c \in todo /\ (c \in first \/ todo \cap first = {})
           /\ IF HasSidecar(into') THEN mig' = "repoint" ELSE mig' = "put_object"
<1>1. PICK d \in Content \ Marked : RedactInto(c, d)
  BY DEF MigRedact
<1> DEFINE names == [f \in FilingsIn(c) |-> ViewedName(f)]
<1>2. /\ d = RedactAs(c, names) /\ at' = c /\ into' = d
      /\ mig' = IF HasSidecar(d) THEN "repoint" ELSE "put_object"
  BY <1>1 DEF RedactInto
<1>3. FilingsIn(c) \in SUBSET DownloadOf[c] /\ names \in PossibleNames(FilingsIn(c))
  BY RunNames DEF MigRedact
<1> HIDE DEF names
<1>4. c \in Content /\ d # NoContent
  BY RedactionAssumption, SentinelAssumption
<1>5. d \in ReplacementsOf(c)
  BY <1>2, <1>3, <1>4 DEF ReplacementsOf
<1>6. DownloadOf[d] = DownloadOf[c] /\ DetailOf[d] = DetailOf[c]
  BY <1>2, <1>3, <1>4, RedactionAssumption
<1> QED
  BY <1>1, <1>2, <1>5, <1>6 DEF MigRedact

LEMMA NextRunProgress == ASSUME MigInv, [ArchiveNext]_allVars PROVE RunProgress'
<1> USE DEF Replacing
<1>0. /\ TypeOK /\ MigTypeOK /\ Stored /\ RunProgress
      /\ Marked \subseteq Content /\ NoContent \notin Content
  BY RedactionAssumption, SentinelAssumption DEF MigInv, MigTypeOK
<1>1. ASSUME UNCHANGED <<version, migVars>>, ~ MigDeleteObject, ~ MigDeleteSidecar
      PROVE  RunProgress'
  <2>1. objects \subseteq objects' /\ \A c \in Content : HasSidecar(c) => HasSidecar(c)'
    BY <1>1, StoreSteps
  <2>2. /\ mig' = mig /\ at' = at /\ into' = into /\ moved' = moved /\ todo' = todo
        /\ version' = version
    BY <1>1 DEF migVars
  <2>3. mig \in {"put_object", "put_sidecar"} => HasSidecar(at)'
    <3>1. mig \in {"put_object", "put_sidecar"} => at \in Content /\ HasSidecar(at)
      BY <1>0 DEF RunProgress
    <3> QED
      BY <2>1, <2>2, <3>1 DEF HasSidecar
  <2>4. mig \in {"repoint", "delete_object", "delete_sidecar"} => Complete(into)'
    <3>1. mig \in {"repoint", "delete_object", "delete_sidecar"} =>
              into \in Content /\ Complete(into)
      BY <1>0 DEF RunProgress, Complete, TypeOK
    <3> QED
      BY <2>1, <2>2, <3>1 DEF HasSidecar, Complete
  <2> QED
    BY <1>0, <2>1, <2>2, <2>3, <2>4 DEF RunProgress
<1>2. CASE Deploy
  <2>1. version' = "new" /\ UNCHANGED <<vars, migVars>>
    BY <1>2 DEF Deploy
  <2> QED
    BY <1>0, <2>1 DEF RunProgress, vars, migVars, HasSidecar, Complete
<1>3. CASE MigScan
  BY <1>0, <1>3 DEF MigScan, RunProgress
<1>4. ASSUME NEW c \in Marked, MigRedact(c) PROVE RunProgress'
  <2>1. /\ at' = c /\ into' \in ReplacementsOf(c) \ Marked /\ into' \in Content
        /\ DownloadOf[into'] = DownloadOf[c] /\ DetailOf[into'] = DetailOf[c]
        /\ HasSidecar(c)
        /\ IF HasSidecar(into') THEN mig' = "repoint" ELSE mig' = "put_object"
    BY <1>4, RunReplaces DEF MigInv
  <2>2. version = "new" /\ version' = version /\ objects' = objects /\ sidecars' = sidecars
    BY <1>0, <1>4 DEF MigRedact, RedactInto, RunProgress, vars
  <2>3. HasSidecar(into') => into' \in objects
    BY <1>0, <2>1 DEF Stored, Safe
  <2>4. HasSidecar(c)' /\ HasSidecar(at)'
    BY <2>1, <2>2 DEF HasSidecar
  <2>5. mig' = "repoint" => Complete(into)'
    BY <2>1, <2>2, <2>3 DEF Complete, HasSidecar
  <2>6. mig' \in {"repoint", "put_object"}
    BY <2>1
  <2> QED
    BY <2>1, <2>2, <2>4, <2>5, <2>6 DEF RunProgress
<1>5. CASE MigPutObject
  BY <1>0, <1>5 DEF MigPutObject, RunProgress, HasSidecar
<1>6. CASE MigPutSidecar
  <2>1. into \in Content /\ at \in Content
    BY <1>0, <1>6 DEF MigPutSidecar, RunProgress, TypeOK
  <2>2. /\ mig' = "repoint" /\ version' = version /\ at' = at /\ into' = into
        /\ objects' = objects
    BY <1>6 DEF MigPutSidecar
  <2>3. Complete(into)'
    BY <1>0, <1>6, <2>1 DEF MigPutSidecar, RunProgress, TypeOK, HasSidecar, Complete
  <2> QED
    BY <1>0, <1>6, <2>2, <2>3 DEF RunProgress, MigPutSidecar
<1>7. CASE MigRepoint
  BY <1>0, <1>7 DEF MigRepoint, RunProgress, vars, HasSidecar, Complete
<1>8. CASE MigDeleteObject
  BY <1>0, <1>8 DEF MigDeleteObject, RunProgress, HasSidecar, Complete
<1>9. CASE MigDeleteSidecar
  BY <1>0, <1>9 DEF MigDeleteSidecar, RunProgress
<1>10. CASE MigCommit
  <2>1. DOMAIN moved' = {} /\ mig' = "off" /\ todo' = {}
    BY <1>10 DEF MigCommit
  <2> QED
    BY <2>1 DEF RunProgress
<1>11. CASE MigAbort
  <2>1. DOMAIN moved' = {} /\ mig' = "off" /\ todo' = {}
    BY <1>11 DEF MigAbort
  <2> QED
    BY <2>1 DEF RunProgress
<1>12. ASSUME NEW w \in Writers, ImportStep(w) \/ ImportCommit(w)
       PROVE  UNCHANGED <<version, migVars>>
  BY <1>12 DEF ImportStep, ImportCommit
<1>13. ASSUME NEW c \in Content, Parse(c)
       PROVE  UNCHANGED <<version, migVars>>
  BY <1>13 DEF Parse
<1> QED
  BY <1>1, <1>2, <1>3, <1>4, <1>5, <1>6, <1>7, <1>8, <1>9, <1>10, <1>11, <1>12, <1>13
     DEF ArchiveNext, MigNext, allVars

-------------------------------------------------------------------------------
\* The filings.

LEMMA NextHoldsItsFilings == ASSUME MigInv, [ArchiveNext]_allVars PROVE HoldsItsFilings'
<1>0. /\ TypeOK /\ MigTypeOK /\ HoldsItsFilings /\ RunProgress
      /\ Marked \subseteq Content /\ NoContent \notin Content
  BY RedactionAssumption, SentinelAssumption DEF MigInv, MigTypeOK
<1>1. ASSUME UNCHANGED <<download, detail, fileName, moved>> PROVE HoldsItsFilings'
  BY <1>0, <1>1 DEF HoldsItsFilings
<1>2. ASSUME NEW w \in Writers, ImportCommit(w) PROVE HoldsItsFilings'
  <2>1. uncommitted[w] \in SUBSET Content /\ moved' = moved
    BY <1>0, <1>2 DEF ImportCommit, migVars, TypeOK
  <2>2. \A f \in Filings : \/ download'[f] = download[f]
                           \/ download'[f] # NoContent /\ f \in DownloadOf[download'[f]]
    BY <1>0, <1>2, <2>1, ImportSets
  <2>3. \A f \in Filings : \/ detail'[f] = detail[f]
                           \/ detail'[f] # NoContent /\ f \in DetailOf[detail'[f]]
    BY <1>0, <1>2, <2>1, ImportSets
  <2>4. \A f \in Filings : detail'[f] = detail[f] => fileName'[f] = fileName[f]
    BY <1>2 DEF ImportCommit
  <2> QED
    BY <1>0, <2>1, <2>2, <2>3, <2>4 DEF HoldsItsFilings
<1>3. CASE MigRepoint
  <2>1. /\ DOMAIN moved' = DOMAIN moved \cup {at}
        /\ \A c \in DOMAIN moved' : moved'[c] = IF c = at THEN into ELSE moved[c]
        /\ UNCHANGED <<download, detail, fileName>>
    BY <1>3 DEF MigRepoint, filingVars
  <2>2. DownloadOf[into] = DownloadOf[at] /\ DetailOf[into] = DetailOf[at]
    BY <1>0, <1>3 DEF MigRepoint, RunProgress, Replacing
  <2> QED
    BY <1>0, <2>1, <2>2 DEF HoldsItsFilings
<1>4. CASE MigCommit
  <2>1. DOMAIN moved' = {}
    BY <1>4 DEF MigCommit
  <2>2. ASSUME NEW f \in Filings
        PROVE  /\ download'[f] # NoContent => f \in DownloadOf[download'[f]]
               /\ detail'[f] # NoContent => f \in DetailOf[detail'[f]]
               /\ fileName'[f] # "none" => detail'[f] # NoContent
    <3>1. /\ download'[f] = MovedTo(download[f]) /\ detail'[f] = MovedTo(detail[f])
          /\ fileName'[f] = ViewedName(f)
      BY <1>4 DEF MigCommit
    <3>2. download[f] \in Content \cup {NoContent} /\ detail[f] \in Content \cup {NoContent}
      BY <1>0 DEF MigTypeOK
    <3>3. \A c \in Content : DownloadOf[MovedTo(c)] = DownloadOf[c]
                             /\ DetailOf[MovedTo(c)] = DetailOf[c]
      BY <1>0 DEF HoldsItsFilings, MovedTo
    <3>4. /\ MovedTo(download[f]) # NoContent => download[f] \in Content
          /\ MovedTo(detail[f]) # NoContent => detail[f] \in Content
          /\ detail[f] # NoContent => MovedTo(detail[f]) # NoContent
      BY <1>0, <3>2, MovedToTypes
    <3>5. ViewedName(f) # "none" => detail[f] # NoContent
      BY <1>0 DEF ViewedName, MovedDetails, MigTypeOK, HoldsItsFilings
    <3> QED
      BY <1>0, <3>1, <3>2, <3>3, <3>4, <3>5 DEF HoldsItsFilings
  <2> QED
    BY <2>1, <2>2 DEF HoldsItsFilings
<1>5. CASE MigAbort
  <2>1. DOMAIN moved' = {} /\ UNCHANGED filingVars
    BY <1>5 DEF MigAbort
  <2> QED
    BY <1>0, <2>1 DEF HoldsItsFilings, filingVars
<1> QED
  BY <1>1, <1>2, <1>3, <1>4, <1>5
     DEF ArchiveNext, MigNext, ImportStep, Parse, Deploy, MigScan, MigRedact, RedactInto,
         MigPutObject, MigPutSidecar, MigDeleteObject, MigDeleteSidecar, allVars, filingVars, migVars

\* The columns set by an import are of rows its transaction adds, and a run repoints the rest.
LEMMA NextReferences == ASSUME MigInv, [ArchiveNext]_allVars PROVE ReferencesListed'
<1>0. /\ TypeOK /\ MigTypeOK /\ ReferencesListed /\ NoContent \notin Content
  BY RedactionAssumption, SentinelAssumption DEF MigInv, MigTypeOK
<1>1. ASSUME UNCHANGED <<rawDocuments, fetches, download, detail, parsed>>
      PROVE  ReferencesListed'
  BY <1>0, <1>1 DEF ReferencesListed
<1>2. ASSUME NEW w \in Writers, ImportCommit(w) PROVE ReferencesListed'
  <2>1. /\ rawDocuments' = rawDocuments \cup uncommitted[w]
        /\ fetches' = fetches \cup (uncommitted[w] \X {w}) /\ parsed' = parsed
    BY <1>2 DEF ImportCommit, Commit
  <2>2. \A f \in Filings : download'[f] \in {download[f]} \cup uncommitted[w]
    BY <1>0, <1>2, <2>1, ImportSets
  <2>3. \A f \in Filings : detail'[f] \in {detail[f]} \cup uncommitted[w]
    BY <1>0, <1>2, <2>1, ImportSets
  <2> QED
    BY <1>0, <2>1, <2>2, <2>3 DEF ReferencesListed
<1>3. ASSUME NEW c \in Content, Parse(c) PROVE ReferencesListed'
  BY <1>0, <1>3 DEF Parse, ReferencesListed, vars
<1>4. CASE MigCommit
  <2>1. /\ rawDocuments' = {MovedTo(c) : c \in rawDocuments}
        /\ fetches' = {<<MovedTo(r[1]), r[2]>> : r \in fetches}
        /\ \A f \in Filings : download'[f] = MovedTo(download[f]) /\ detail'[f] = MovedTo(detail[f])
        /\ parsed' = parsed \ DOMAIN moved
    BY <1>4 DEF MigCommit, ViewedDocuments
  <2>2. MovedTo(NoContent) = NoContent
    BY <1>0, MovedToTypes
  <2>3. \A f \in Filings : {download'[f], detail'[f]} \subseteq rawDocuments' \cup {NoContent}
    BY <1>0, <2>1, <2>2 DEF ReferencesListed
  <2>4. parsed' \subseteq rawDocuments'
    BY <1>0, <2>1 DEF ReferencesListed, MovedTo
  <2>5. \A r \in fetches' : r[1] \in rawDocuments'
    BY <1>0, <2>1 DEF ReferencesListed
  <2> QED
    BY <2>3, <2>4, <2>5 DEF ReferencesListed
<1> QED
  BY <1>1, <1>2, <1>3, <1>4
     DEF ArchiveNext, MigNext, ImportStep, BeginPut, PutObject, PutSidecar, InsertRawFetch, Crash,
         Deploy, MigScan, MigRedact, RedactInto, MigPutObject, MigPutSidecar, MigRepoint,
         MigDeleteObject, MigDeleteSidecar, MigAbort, allVars, vars, manifestVars, filingVars

-------------------------------------------------------------------------------
\* The order of a run, and what it leaves.

LEMMA NextDownloadsFirst == ASSUME MigInv, [ArchiveNext]_allVars PROVE DownloadsFirst'
<1>0. /\ MigTypeOK /\ HoldsItsFilings /\ RunProgress /\ DownloadsFirst
      /\ Marked \subseteq Content /\ NoContent \notin Content
  BY RedactionAssumption, SentinelAssumption DEF MigInv
<1>1. ASSUME UNCHANGED <<todo, first, moved>>, at' = at /\ mig' \in Replacing => mig \in Replacing,
             at' = at
      PROVE  DownloadsFirst'
  BY <1>0, <1>1 DEF DownloadsFirst, MovedDetails
<1>2. CASE MigScan
  <2>1. /\ todo' = rawDocuments \cap Marked /\ first' = todo' \cap ViewedDownloads
        /\ mig' = "replace" /\ moved' = moved /\ DOMAIN moved = {}
    BY <1>0, <1>2 DEF MigScan, RunProgress
  <2>2. \A c \in first' : DownloadOf[c] # {}
    <3> SUFFICES ASSUME NEW c \in first' PROVE DownloadOf[c] # {}
      OBVIOUS
    <3>1. PICK f \in Filings : c = MovedTo(download[f]) /\ c # NoContent
      BY <2>1 DEF ViewedDownloads
    <3>2. c = download[f]
      BY <2>1, <3>1 DEF MovedTo
    <3> QED
      BY <1>0, <3>1, <3>2 DEF HoldsItsFilings
  <2>3. MovedDetails' = {}
    BY <2>1 DEF MovedDetails
  <2> QED
    BY <2>1, <2>2, <2>3 DEF DownloadsFirst, Replacing
<1>3. ASSUME NEW c \in Marked, MigRedact(c) PROVE DownloadsFirst'
  <2>1. at' = c /\ c \in todo /\ (c \in first \/ todo \cap first = {})
    BY <1>3, RunReplaces
  <2>2. UNCHANGED <<todo, first, moved>>
    BY <1>3 DEF MigRedact, RedactInto
  <2>3. c \in first => DetailOf[c] = {}
    BY <1>0, RedactionAssumption DEF DownloadsFirst
  <2> QED
    BY <1>0, <2>1, <2>2, <2>3 DEF DownloadsFirst, MovedDetails
<1>4. CASE MigRepoint
  <2>1. /\ UNCHANGED <<todo, first, at>> /\ DOMAIN moved' = DOMAIN moved \cup {at}
        /\ mig \in Replacing
    BY <1>4 DEF MigRepoint, Replacing
  <2> QED
    BY <1>0, <2>1 DEF DownloadsFirst, MovedDetails
<1>5. CASE MigDeleteSidecar
  <2>1. /\ todo' \subseteq todo /\ UNCHANGED <<first, moved>> /\ mig' = "replace"
    BY <1>5 DEF MigDeleteSidecar
  <2> QED
    BY <1>0, <2>1 DEF DownloadsFirst, MovedDetails, Replacing
<1>6. ASSUME first' = {}, DOMAIN moved' = {}, mig' = "off" PROVE DownloadsFirst'
  BY <1>6 DEF DownloadsFirst, MovedDetails, Replacing
<1>7. CASE MigCommit \/ MigAbort
  BY <1>6, <1>7 DEF MigCommit, MigAbort
<1>8. CASE MigPutObject \/ MigPutSidecar \/ MigDeleteObject
  BY <1>1, <1>8 DEF MigPutObject, MigPutSidecar, MigDeleteObject, Replacing
<1>9. CASE UNCHANGED migVars
  BY <1>1, <1>9 DEF migVars
<1> QED
  BY <1>2, <1>3, <1>4, <1>5, <1>7, <1>8, <1>9
     DEF ArchiveNext, MigNext, ImportStep, ImportCommit, Parse, Deploy, allVars

LEMMA NextRest == ASSUME MigInv, [ArchiveNext]_allVars PROVE RestIsLetIn'
<1>0. /\ TypeOK /\ MigTypeOK /\ RunProgress /\ Stored /\ RestIsLetIn
  BY DEF MigInv, MigTypeOK
<1>1. version' = "new" =>
          \A v \in Writers : (pc'[v] # "idle" => holding'[v] \in LetIn) /\ uncommitted'[v] \subseteq LetIn
  <2>1. ASSUME NEW w \in Writers, ImportStep(w), version' = "new", NEW v \in Writers
        PROVE  (pc'[v] # "idle" => holding'[v] \in LetIn) /\ uncommitted'[v] \subseteq LetIn
    <3>0. version = "new"
      BY <2>1 DEF ImportStep
    <3>1. ASSUME NEW c \in Content, Receivable(c), BeginPut(w, c)
          PROVE  (pc'[v] # "idle" => holding'[v] \in LetIn) /\ uncommitted'[v] \subseteq LetIn
      <4>1. c \in LetIn
        BY <3>0, <3>1 DEF Receivable, LetIn
      <4> QED
        BY <1>0, <3>0, <3>1, <4>1 DEF BeginPut, RestIsLetIn, TypeOK
    <3>2. CASE PutObject(w) \/ PutSidecar(w)
      BY <1>0, <3>0, <3>2 DEF PutObject, PutSidecar, RestIsLetIn, TypeOK
    <3>3. CASE InsertRawFetch(w)
      BY <1>0, <3>0, <3>3 DEF InsertRawFetch, RestIsLetIn, TypeOK
    <3>4. CASE Crash(w)
      BY <1>0, <3>0, <3>4 DEF Crash, RestIsLetIn, TypeOK
    <3> QED
      BY <2>1, <3>1, <3>2, <3>3, <3>4 DEF ImportStep
  <2>2. ASSUME NEW w \in Writers, ImportCommit(w), version' = "new", NEW v \in Writers
        PROVE  (pc'[v] # "idle" => holding'[v] \in LetIn) /\ uncommitted'[v] \subseteq LetIn
    BY <1>0, <2>2 DEF ImportCommit, Commit, RestIsLetIn, TypeOK
  <2>3. CASE Deploy
    BY <1>0, <2>3 DEF Deploy, vars
  <2>4. CASE UNCHANGED <<version, writerVars>>
    BY <1>0, <2>4 DEF writerVars, RestIsLetIn
  <2> QED
    BY <2>1, <2>2, <2>3, <2>4
       DEF ArchiveNext, MigNext, Parse, MigScan, MigRedact, RedactInto, MigPutObject,
           MigPutSidecar, MigRepoint, MigDeleteObject, MigDeleteSidecar, MigCommit, MigAbort,
           allVars, vars, writerVars
<1>2. mig' # "off" => rawDocuments' \cap Marked \subseteq todo' \cup DOMAIN moved' \cup LetIn
  <2>1. ASSUME NEW w \in Writers, ImportCommit(w), mig' # "off"
        PROVE  rawDocuments' \cap Marked \subseteq todo' \cup DOMAIN moved' \cup LetIn
    <3>1. /\ rawDocuments' = rawDocuments \cup uncommitted[w] /\ mig # "off"
          /\ UNCHANGED <<todo, moved>> /\ version = "new"
      BY <1>0, <2>1 DEF ImportCommit, Commit, migVars, RunProgress
    <3> QED
      BY <1>0, <3>1 DEF RestIsLetIn
  <2>2. CASE MigScan
    BY <2>2 DEF MigScan, vars
  <2>3. CASE MigRepoint
    <3>1. /\ DOMAIN moved' = DOMAIN moved \cup {at} /\ UNCHANGED <<todo, rawDocuments>>
          /\ mig # "off"
      BY <2>3 DEF MigRepoint, vars
    <3> QED
      BY <1>0, <3>1 DEF RestIsLetIn
  <2>4. CASE MigDeleteSidecar
    <3>1. /\ todo' = todo \ {at} /\ UNCHANGED <<moved, rawDocuments>> /\ mig # "off"
          /\ at \in DOMAIN moved
      BY <1>0, <2>4 DEF MigDeleteSidecar, RunProgress, manifestVars
    <3> QED
      BY <1>0, <3>1 DEF RestIsLetIn
  <2>5. CASE MigCommit \/ MigAbort
    BY <2>5 DEF MigCommit, MigAbort
  <2>6. ASSUME UNCHANGED <<todo, moved, rawDocuments>>, mig' # "off" => mig # "off", mig' # "off"
        PROVE  rawDocuments' \cap Marked \subseteq todo' \cup DOMAIN moved' \cup LetIn
    BY <1>0, <2>6 DEF RestIsLetIn
  <2>7. CASE MigPutObject \/ MigPutSidecar \/ MigDeleteObject \/ (\E c \in Marked : MigRedact(c))
    BY <2>6, <2>7
       DEF MigPutObject, MigPutSidecar, MigDeleteObject, MigRedact, RedactInto, manifestVars, vars
  <2>8. CASE UNCHANGED <<mig, todo, moved, rawDocuments>>
    BY <2>6, <2>8
  <2> QED
    BY <2>1, <2>2, <2>3, <2>4, <2>5, <2>7, <2>8
       DEF ArchiveNext, MigNext, ImportStep, BeginPut, PutObject, PutSidecar, InsertRawFetch, Crash,
           Parse, Deploy, allVars, vars, migVars, manifestVars
<1> QED
  BY <1>1, <1>2 DEF RestIsLetIn

-------------------------------------------------------------------------------
\* The theorems.

LEMMA InitMigInv == MigInit => MigInv
<1> SUFFICES ASSUME MigInit PROVE MigInv
  OBVIOUS
<1>1. /\ objects = {} /\ rawDocuments = {} /\ fetches = {} /\ parsed = {}
      /\ \A c \in Content : sidecars[c] = NoRun
      /\ \A w \in Writers : pc[w] = "idle" /\ uncommitted[w] = {}
      /\ DOMAIN moved = {} /\ mig = "off" /\ todo = {} /\ first = {} /\ version = "old"
      /\ \A f \in Filings : download[f] = NoContent /\ detail[f] = NoContent /\ fileName[f] = "none"
  BY DEF MigInit, Init
<1>2. MigTypeOK
  BY <1>1 DEF MigInit, Init, MigTypeOK, TypeOK, Calls
<1>3. HoldsItsFilings /\ RunProgress /\ ReferencesListed
  BY <1>1 DEF HoldsItsFilings, RunProgress, ReferencesListed, Replacing
<1>4. Stored /\ DownloadsFirst /\ RestIsLetIn
  BY <1>1 DEF Stored, HasSidecar, DownloadsFirst, MovedDetails, RestIsLetIn, Replacing
<1> QED
  BY <1>2, <1>3, <1>4 DEF MigInv

\* What every step of the importers, the parser and the migration keeps.
THEOREM MigInvHolds == ArchiveSpec => []MigInv
<1>1. MigInv /\ [ArchiveNext]_allVars => MigInv'
  BY NextTypes, NextStored, NextRunProgress, NextHoldsItsFilings, NextReferences,
     NextDownloadsFirst, NextRest DEF MigInv
<1> QED
  BY InitMigInv, <1>1, PTL DEF ArchiveSpec

\* Repointing misses no reference, for any documents, importers and interrupted runs.
THEOREM ReferencesStayListed == ArchiveSpec => []ReferencesListed
<1>1. MigInv => ReferencesListed
  BY DEF MigInv
<1> QED
  BY <1>1, MigInvHolds, PTL

\* No listed document is lost: wherever a run stops, its object or a clean form is stored.
THEOREM NothingIsLost == ArchiveSpec => []LostObjectHasReplacement
<1>1. MigInv => LostObjectHasReplacement
  BY DEF MigInv, Stored, Safe, LostObjectHasReplacement
<1> QED
  BY <1>1, MigInvHolds, PTL

\* "Downloads go first": a run does not take from a bundle the names it needs for it.
THEOREM BundlesAreNamed == ArchiveSpec => []RunNamesItsBundles
<1>1. MigInv => RunNamesItsBundles
  <2> SUFFICES ASSUME MigInv, NEW c \in todo \cap first, Unnameable(c)
               PROVE  \E f \in FilingsIn(c) : fileName[f] = "token"
    BY DEF RunNamesItsBundles
  <2>1. MovedDetails = {}
    BY DEF MigInv, DownloadsFirst
  <2>2. PICK f \in FilingsIn(c) : ViewedName(f) = "token"
    BY DEF Unnameable, Tokened
  <2> QED
    BY <2>1, <2>2 DEF ViewedName
<1> QED
  BY <1>1, MigInvHolds, PTL

\* A committed run leaves only documents that can be read, and marked ones only where the new
\* redaction itself let them in while the run was going on.
THEOREM CommitLeavesLetIn ==
    ArchiveSpec => [][MigCommit => /\ rawDocuments' \cap Marked \subseteq LetIn
                                   /\ rawDocuments' \subseteq objects']_allVars
<1>1. MigInv /\ [ArchiveNext]_allVars =>
          [MigCommit => /\ rawDocuments' \cap Marked \subseteq LetIn
                        /\ rawDocuments' \subseteq objects']_allVars
  <2> SUFFICES ASSUME MigInv, MigCommit
               PROVE  rawDocuments' \cap Marked \subseteq LetIn /\ rawDocuments' \subseteq objects'
    OBVIOUS
  <2>1. /\ rawDocuments' = {MovedTo(c) : c \in rawDocuments} /\ rawDocuments' \subseteq objects
        /\ objects' = objects /\ todo = {} /\ mig # "off"
    BY DEF MigCommit, ViewedDocuments, storeVars
  <2>2. ASSUME NEW c \in rawDocuments, MovedTo(c) \in Marked PROVE MovedTo(c) \in LetIn
    <3>1. c \in Content /\ c \notin DOMAIN moved /\ MovedTo(c) = c
      BY <2>2, MovedToTypes DEF MigInv, MigTypeOK, TypeOK
    <3> QED
      BY <2>1, <2>2, <3>1 DEF MigInv, RestIsLetIn
  <2> QED
    BY <2>1, <2>2
<1> QED
  BY <1>1, MigInvHolds, PTL DEF ArchiveSpec

\* Where the redaction changes nothing of what it lets in marked, a committed run is clean.
THEOREM CommitsClean == ASSUME MarksLeftStay PROVE ArchiveSpec => CommitCleans
<1>1. [MigCommit => /\ rawDocuments' \cap Marked \subseteq LetIn
                    /\ rawDocuments' \subseteq objects']_allVars
      => [MigCommit => /\ \A c \in rawDocuments' \cap Marked : RedactedForms[c] = {c}
                       /\ rawDocuments' \subseteq objects']_allVars
  BY DEF MarksLeftStay
<1> QED
  BY <1>1, CommitLeavesLetIn, PTL DEF CommitCleans
===============================================================================
