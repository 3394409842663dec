-------------------------- MODULE FilingBrowser --------------------------
(***************************************************************************)
(* What the A3 flow needs from RDF (document_retrieval.py, the             *)
(* FilingBrowser protocol): one call at a time, answered with what was     *)
(* asked for or with an error.  An answer never holds another entity's or  *)
(* another document's filings.                                             *)
(***************************************************************************)
EXTENDS Sequences

CONSTANTS
    Entities,   \* KRS numbers
    Refs,       \* document ids
    Owner,      \* Owner[r]: the entity r was filed by
    Original,   \* Original[r]: the listed document r corrects, r itself when it is listed
    Null        \* no entity, no document

VARIABLES
    call,     \* the call in progress
    answer    \* its answer, until the caller takes it

bvars == <<call, answer>>

Ops == {"open_filing_list", "open_document", "download"}
NoCall == [op |-> "none", krs |-> Null, ref |-> Null]
Calls ==
    {[op |-> "open_filing_list", krs |-> k, ref |-> Null] : k \in Entities}
    \cup {[op |-> o, krs |-> Owner[r], ref |-> r] : o \in Ops \ {"open_filing_list"}, r \in Refs}

NoAnswer == [kind |-> "none"]
Errors == {[kind |-> "error", error |-> e] : e \in {"transient", "permanent", "waf", "blocked"}}

InSeq(s) == {s[i] : i \in DOMAIN s}

\* A listing's documents are the entity's; a view and a file are one listed document's.
IsListing(a) == a.kind = "listing"
IsView(a) == a.kind = "view"
IsFile(a) == a.kind = "file"
Right(c, a) ==
    CASE c.op = "open_filing_list" ->
            /\ IsListing(a)
            /\ \A i \in DOMAIN a.pages : \A r \in InSeq(a.pages[i].refs) : Owner[r] = c.krs
      [] c.op = "open_document" ->
            IsView(a) /\ c.ref \in InSeq(a.refs) /\ \A r \in InSeq(a.refs) : Original[r] = c.ref
      [] c.op = "download" ->
            IsFile(a) /\ c.ref \in InSeq(a.requested) /\ a.holds = a.requested

Init == call = NoCall /\ answer = NoAnswer

Begin(c) == call = NoCall /\ call' = c /\ answer' = NoAnswer

Answer(a) ==
    /\ call # NoCall /\ answer = NoAnswer
    /\ a \in Errors \/ Right(call, a)
    /\ answer' = a /\ UNCHANGED call

Take == answer # NoAnswer /\ call' = NoCall /\ answer' = NoAnswer

\* The run that made the call dies.
Abandon == call # NoCall /\ call' = NoCall /\ answer' = NoAnswer

Next == (\E c \in Calls : Begin(c)) \/ Answer(answer') \/ Take \/ Abandon

Spec == Init /\ [][Next]_bvars
=============================================================================
