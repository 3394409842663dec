------------------------------ MODULE RawStore ------------------------------
(***************************************************************************)
(* The content-addressed raw store and the manifest rows that list it      *)
(* (src/distress_radar/acquisition/raw_store.py, manifest.py).             *)
(*                                                                         *)
(* A document is named by its hash, so its name is the document itself.    *)
(* put_raw is three calls to the object store (is the sidecar there? put   *)
(* the object; put the sidecar), each a step of its own: writers           *)
(* interleave between them and any writer may crash there.  The manifest   *)
(* row of a document is inserted afterwards in the writer's transaction,   *)
(* which others see only once it commits.                                  *)
(***************************************************************************)
CONSTANTS
    Content,    \* documents the writers may store
    Writers,    \* ingestion runs, each one process with one connection
    NoContent,  \* the writer is not storing anything
    NoRun       \* the document has no sidecar

ASSUME SentinelAssumption == NoContent \notin Content /\ NoRun \notin Writers

VARIABLES
    objects,      \* documents whose object raw/sha256/.. exists
    sidecars,     \* sidecars[c]: the run whose metadata c's sidecar holds, or NoRun
    rawDocuments, \* committed rows of raw_documents
    fetches,      \* committed rows of raw_document_fetches: <<document, run>>
    pc,           \* pc[w]: the store call writer w makes next
    holding,      \* holding[w]: the document w is storing
    uncommitted   \* uncommitted[w]: documents listed by w's open transaction

storeVars == <<objects, sidecars>>
manifestVars == <<rawDocuments, fetches>>
writerVars == <<pc, holding, uncommitted>>
vars == <<objects, sidecars, rawDocuments, fetches, pc, holding, uncommitted>>

Calls == {"idle", "put_object", "put_sidecar", "insert_raw_fetch"}

TypeOK ==
    /\ objects \subseteq Content
    /\ sidecars \in [Content -> Writers \cup {NoRun}]
    /\ rawDocuments \subseteq Content
    /\ fetches \subseteq Content \X Writers
    /\ pc \in [Writers -> Calls]
    /\ holding \in [Writers -> Content \cup {NoContent}]
    /\ uncommitted \in [Writers -> SUBSET Content]

Init ==
    /\ objects = {}
    /\ sidecars = [c \in Content |-> NoRun]
    /\ rawDocuments = {}
    /\ fetches = {}
    /\ pc = [w \in Writers |-> "idle"]
    /\ holding = [w \in Writers |-> NoContent]
    /\ uncommitted = [w \in Writers |-> {}]

HasSidecar(c) == sidecars[c] # NoRun
Complete(c) == c \in objects /\ HasSidecar(c)

-----------------------------------------------------------------------------
\* put_raw, call by call.

\* Mutant: trusts the object alone, so a put that crashed before its sidecar looks done.
BeginPutTrustingObject(w, c) ==
    /\ pc[w] = "idle"
    /\ holding' = [holding EXCEPT ![w] = c]
    /\ pc' = [pc EXCEPT ![w] = IF c \in objects THEN "insert_raw_fetch" ELSE "put_object"]
    /\ UNCHANGED <<storeVars, manifestVars, uncommitted>>

\* The sidecar is the completion marker: a document that has one is not written again.
BeginPut(w, c) ==
    /\ pc[w] = "idle"
    /\ holding' = [holding EXCEPT ![w] = c]
    /\ pc' = [pc EXCEPT ![w] = IF HasSidecar(c) THEN "insert_raw_fetch" ELSE "put_object"]
    /\ UNCHANGED <<storeVars, manifestVars, uncommitted>>

\* Mutant: goes on to the manifest before the sidecar is written.
PutObjectOnly(w) ==
    /\ pc[w] = "put_object"
    /\ objects' = objects \cup {holding[w]}
    /\ pc' = [pc EXCEPT ![w] = "insert_raw_fetch"]
    /\ UNCHANGED <<sidecars, manifestVars, holding, uncommitted>>

\* put_if_absent of the object: a no-op when another writer was first.
PutObject(w) ==
    /\ pc[w] = "put_object"
    /\ objects' = objects \cup {holding[w]}
    /\ pc' = [pc EXCEPT ![w] = "put_sidecar"]
    /\ UNCHANGED <<sidecars, manifestVars, holding, uncommitted>>

\* Mutant: a plain put, so the last writer's metadata wins.
PutSidecarOverwriting(w) ==
    /\ pc[w] = "put_sidecar"
    /\ sidecars' = [sidecars EXCEPT ![holding[w]] = w]
    /\ pc' = [pc EXCEPT ![w] = "insert_raw_fetch"]
    /\ UNCHANGED <<objects, manifestVars, holding, uncommitted>>

\* put_if_absent of the sidecar: the first writer's metadata stays.
PutSidecar(w) ==
    /\ pc[w] = "put_sidecar"
    /\ sidecars' = IF HasSidecar(holding[w]) THEN sidecars
                   ELSE [sidecars EXCEPT ![holding[w]] = w]
    /\ pc' = [pc EXCEPT ![w] = "insert_raw_fetch"]
    /\ UNCHANGED <<objects, manifestVars, holding, uncommitted>>

-----------------------------------------------------------------------------
\* The manifest rows, inside the writer's transaction.

InsertRawFetch(w) ==
    /\ pc[w] = "insert_raw_fetch"
    /\ uncommitted' = [uncommitted EXCEPT ![w] = @ \cup {holding[w]}]
    /\ holding' = [holding EXCEPT ![w] = NoContent]
    /\ pc' = [pc EXCEPT ![w] = "idle"]
    /\ UNCHANGED <<storeVars, manifestVars>>

\* Both inserts are ON CONFLICT DO NOTHING: rows already there stay.
Commit(w) ==
    /\ pc[w] = "idle"
    /\ uncommitted[w] # {}
    /\ rawDocuments' = rawDocuments \cup uncommitted[w]
    /\ fetches' = fetches \cup (uncommitted[w] \X {w})
    /\ uncommitted' = [uncommitted EXCEPT ![w] = {}]
    /\ UNCHANGED <<storeVars, pc, holding>>

\* A crash, or an error that leaves the connection context: the transaction
\* rolls back and what reached the object store stays there.
Crash(w) ==
    /\ pc[w] # "idle" \/ uncommitted[w] # {}
    /\ pc' = [pc EXCEPT ![w] = "idle"]
    /\ holding' = [holding EXCEPT ![w] = NoContent]
    /\ uncommitted' = [uncommitted EXCEPT ![w] = {}]
    /\ UNCHANGED <<storeVars, manifestVars>>

WriterNext(w) ==
    \/ \E c \in Content : BeginPut(w, c)
    \/ PutObject(w)
    \/ PutSidecar(w)
    \/ InsertRawFetch(w)
    \/ Commit(w)
    \/ Crash(w)

Next == \E w \in Writers : WriterNext(w)

Spec == Init /\ [][Next]_vars

-----------------------------------------------------------------------------
\* Properties.

\* Every document a transaction lists, open or committed, can be read back: its
\* object and its sidecar are both stored, whoever crashed on the way (put_raw's
\* promise that the sidecar marks completion).
ListedDocumentsComplete ==
    /\ \A c \in rawDocuments : Complete(c)
    /\ \A w \in Writers : \A c \in uncommitted[w] : Complete(c)

\* The sidecar keeps the metadata of the first fetch: no later or concurrent put
\* rewrites it (put_raw's conditional writes).
FirstMetadataKept ==
    [][\A c \in Content : HasSidecar(c) => sidecars'[c] = sidecars[c]]_vars

\* Readers see a document archived when its sidecar lands on its object.
Archive == INSTANCE DocumentArchive WITH
    Fetch <- Writers,
    NoFetch <- NoRun,
    archived <- [c \in Content |-> IF c \in objects THEN sidecars[c] ELSE NoRun],
    catalogue <- rawDocuments

\* The object-by-object protocol of put_raw and the manifest implements the archive.
ImplementsArchive == Archive!Spec

-----------------------------------------------------------------------------
\* What makes ListedDocumentsComplete inductive: a sidecar never precedes its
\* object, and a writer past a call of put_raw finds what that call promised.
SidecarMeansObject == \A c \in Content : HasSidecar(c) => c \in objects

WriterProgress ==
    \A w \in Writers :
        /\ pc[w] # "idle" => holding[w] \in Content
        /\ pc[w] = "put_sidecar" => holding[w] \in objects
        /\ pc[w] = "insert_raw_fetch" => Complete(holding[w])

IInv == TypeOK /\ SidecarMeansObject /\ WriterProgress /\ ListedDocumentsComplete
=============================================================================
