-------------------------- MODULE DocumentArchive --------------------------
(***************************************************************************)
(* What the raw layer promises to its readers, without objects, sidecars   *)
(* or transactions: a document is archived at most once, keeps the         *)
(* metadata of the fetch that archived it, and is catalogued only once it  *)
(* is archived.  RawStore implements this specification.                   *)
(***************************************************************************)
CONSTANTS
    Content,    \* documents, each named by the hash of its bytes
    Fetch,      \* the fetches (ingestion runs) whose metadata a document keeps
    NoFetch     \* "not archived"

VARIABLES
    archived,   \* archived[c]: the fetch that archived c, or NoFetch
    catalogue   \* the documents the manifest lists

vars == <<archived, catalogue>>

Init ==
    /\ archived = [c \in Content |-> NoFetch]
    /\ catalogue = {}

Archive(c, f) ==
    /\ archived[c] = NoFetch
    /\ archived' = [archived EXCEPT ![c] = f]
    /\ UNCHANGED catalogue

Catalogue(S) ==
    /\ \A c \in S : archived[c] # NoFetch
    /\ catalogue' = catalogue \cup S
    /\ UNCHANGED archived

Next ==
    \/ \E c \in Content, f \in Fetch : Archive(c, f)
    \/ \E S \in SUBSET Content : Catalogue(S)

Spec == Init /\ [][Next]_vars
=============================================================================
