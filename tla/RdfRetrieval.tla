--------------------------- MODULE RdfRetrieval ---------------------------
(***************************************************************************)
(* The A3 assets over the browser: filing_index looks up the entities with *)
(* no outcome, raw_filing_documents settles the rows owed a detail or a    *)
(* download (retrieve_document).  One asset runs at a time, with a browser *)
(* and a circuit breaker of its own; every step of a document is committed *)
(* as soon as it succeeds, and a run may fail or die between any two.      *)
(***************************************************************************)
EXTENDS RdfBrowser

CONSTANTS
    Place,       \* an entity's place by KRS number, a document's in pending_filing_documents' order
    InScope,     \* documents whose detail's type is downloaded
    Mistyped,    \* documents whose list type is not their detail's
    Nameless,    \* documents whose detail names no file
    Unredactable,  \* listed documents whose file the redactor cannot read
    Threshold    \* CIRCUIT_BREAKER_THRESHOLD

VARIABLES
    outcome,   \* outcome[k]: "none", "indexed" or "quarantined"
    rows,      \* filing_index: rows[r], or Null
    run,       \* the asset running, what it has to do, the files it saved
    breaker,   \* consecutive_blocks
    gates,     \* calls in a row that met a gate page, as an observer counts them
    task       \* the document being settled: its pending row, step, bundle and names

flowVars == <<outcome, rows, run, breaker, gates, task>>
vars == <<browserVars, flowVars>>

ASSUME RowAssumption ==
    /\ Place \in [Entities \cup Refs -> Nat]
    /\ Null \notin [bundle : Seq(Refs), file : Seq(Refs), of : Refs \cup {Null}]

NoRow == Null
ListRow == [bundle |-> <<>>, file |-> <<>>, of |-> Null]
Idle == [asset |-> "none", todo |-> {}, saved |-> {}]
NoTask == [ref |-> Null, step |-> "none", need |-> FALSE, bundle |-> <<>>, names |-> FALSE]

Detailed(r) == rows[r].bundle # <<>>
\* A detailed row whose corrections have no rows yet still needs its detail.
NeedsDetail(r) == ~ Detailed(r) \/ \E c \in InSeq(rows[r].bundle) : rows[c] = NoRow
Owed(r) ==
    /\ rows[r] # NoRow
    /\ NeedsDetail(r) \/ (rows[r].file = <<>> /\ r \in InScope)
DownloadRef(r) == IF rows[r].of = Null THEN r ELSE rows[r].of

RetrievalInit ==
    /\ BrowserInit
    /\ outcome = [k \in Entities |-> "none"]
    /\ rows = [r \in Refs |-> NoRow]
    /\ run = Idle /\ breaker = 0 /\ gates = 0 /\ task = NoTask

----------------------------------------------------------------------------
\* A run's browser is new: nothing loaded, nothing in flight, nothing to pay.
NewPage ==
    /\ site' = BlankSite /\ flight' = <<>> /\ log' = <<>> /\ pay' = NoPay
    /\ br' = NewBrowser /\ at' = "idle" /\ attempt' = 1 /\ acc' = <<>>

Start(asset, todo) ==
    /\ run = Idle /\ todo # {}
    /\ run' = [asset |-> asset, todo |-> todo, saved |-> {}]
    /\ breaker' = 0 /\ gates' = 0 /\ NewPage
    /\ UNCHANGED <<call, answer, rdf, faults, outcome, rows, task>>

StartIndexing == Start("filing_index", {[item |-> k] : k \in {e \in Entities : outcome[e] = "none"}})

\* pending_filing_documents is read once, when the run starts.
PendingRow(r) == [item |-> r, of |-> DownloadRef(r), need |-> NeedsDetail(r),
                  bundle |-> rows[r].bundle, down |-> rows[r].file # <<>>]
StartRetrieving == Start("raw_filing_documents", {PendingRow(r) : r \in {x \in Refs : Owed(x)}})

\* The one whose turn it is, and the rest of the list once it is done with.
Current == CHOOSE p \in run.todo : \A q \in run.todo : Place[p.item] <= Place[q.item]
Done == [run EXCEPT !.todo = @ \ {Current}]

Stop ==
    /\ run' = Idle /\ task' = NoTask /\ breaker' = 0 /\ gates' = 0
    /\ call' = NoCall /\ answer' = NoAnswer /\ NewPage
    /\ UNCHANGED <<rdf, outcome, rows>>

RunEnds == run.asset # "none" /\ run.todo = {} /\ Stop /\ UNCHANGED faults

\* The process dies: a fault like any other.
RunDies == run.asset # "none" /\ faults < MaxFaults /\ faults' = faults + 1 /\ Stop

----------------------------------------------------------------------------
\* _checked: the circuit breaker and the gate check around a browser call.

Call(c) ==
    /\ breaker < Threshold     \* ensure_closed
    /\ BeginCall(c)
    /\ UNCHANGED <<rdf, site, flight, log, pay, br, acc, faults>>

Answered == answer # NoAnswer
IsError == answer.kind = "error"
\* The browser saw the gate, or a response it handed over is gated.
Blocked ==
    \/ IsError /\ answer.error = "blocked"
    \/ answer.kind \in {"view", "file"} /\ answer.gated
\* The gate page met, whether or not the code recognised it.
GateMet == Blocked \/ (IsError /\ answer.error = "waf")

TakeAnswer ==
    /\ call' = NoCall /\ answer' = NoAnswer
    /\ UNCHANGED <<rdf, site, flight, log, pay, br, at, attempt, acc, faults>>

Observed == gates' = IF GateMet THEN gates + 1 ELSE 0

\* record_block; RdfCircuitOpen at the threshold ends the run, any other failure goes on
\* with the next of the list.
Fails ==
    /\ Answered /\ (IsError \/ Blocked)
    /\ \/ /\ Blocked /\ breaker + 1 >= Threshold
          /\ Stop /\ UNCHANGED faults
       \/ /\ ~ (Blocked /\ breaker + 1 >= Threshold)
          /\ breaker' = IF Blocked THEN breaker + 1 ELSE breaker
          /\ run' = Done /\ task' = NoTask
          /\ Observed /\ TakeAnswer
          /\ UNCHANGED <<outcome, rows>>

----------------------------------------------------------------------------
\* filing_index.

LookUp ==
    /\ run.asset = "filing_index" /\ run.todo # {} /\ call = NoCall
    /\ Call([op |-> "open_filing_list", krs |-> Current.item, ref |-> Null])
    /\ UNCHANGED flowVars

\* parse_filing_list: consecutive pages of one paging, together all documents, each once.
Complete(pages) ==
    LET refs == FlattenSeq([i \in DOMAIN pages |-> pages[i].refs]) IN
    /\ \A i \in DOMAIN pages : pages[i].n = i - 1
    /\ Len(pages) = IF pages[1].count = 0 THEN 1 ELSE pages[1].count
    /\ \A i \in DOMAIN pages : /\ pages[i].size = pages[1].size
                               /\ pages[i].count = pages[1].count
                               /\ pages[i].total = pages[1].total
    /\ IsInjective(refs) /\ Len(refs) = pages[1].total

ListedIn(pages) == UNION {InSeq(pages[i].refs) : i \in DOMAIN pages}

\* index_filings and record_a3_index_result.  A list that is not whole leaves the entity
\* without an outcome.
Index ==
    /\ run.asset = "filing_index" /\ Answered /\ answer.kind = "listing"
    /\ LET k == Current.item
           listed == ListedIn(answer.pages)
           whole == answer.found => Complete(answer.pages) IN
       \/ /\ whole /\ listed # {}
          /\ rows' = [r \in Refs |-> IF r \in listed /\ rows[r] = NoRow THEN ListRow ELSE rows[r]]
          /\ outcome' = [outcome EXCEPT ![k] = "indexed"]
       \/ /\ whole /\ listed = {}
          /\ outcome' = [outcome EXCEPT ![k] = "quarantined"] /\ UNCHANGED rows
       \/ ~ whole /\ UNCHANGED <<outcome, rows>>
    /\ breaker' = 0 /\ Observed
    /\ run' = Done
    /\ TakeAnswer /\ UNCHANGED task

----------------------------------------------------------------------------
\* raw_filing_documents.

\* A document whose file came with another of this run is done, unless it needs its detail.
SkipSaved ==
    /\ run.asset = "raw_filing_documents" /\ run.todo # {} /\ task = NoTask
    /\ Current.item \in run.saved /\ ~ Current.need
    /\ run' = Done
    /\ UNCHANGED <<browserVars, outcome, rows, breaker, gates, task>>

\* What retrieve_document does first.  A bundle of several is told apart by names that are
\* not stored, so its row is expanded again.
FirstStepStored(p) == IF p.need THEN "detail" ELSE "file"   \* mutant: the stored bundle is trusted

FirstStep(p) == CASE p.need -> "detail" [] ~ p.need /\ Len(p.bundle) > 1 -> "names" [] OTHER -> "file"

TakeDocument ==
    /\ run.asset = "raw_filing_documents" /\ run.todo # {} /\ task = NoTask
    /\ LET p == Current IN
       /\ ~ (p.item \in run.saved /\ ~ p.need)
       /\ task' = [ref |-> p.item, step |-> FirstStep(p), need |-> p.need, bundle |-> p.bundle, names |-> FALSE]
    /\ UNCHANGED <<browserVars, outcome, rows, run, breaker, gates>>

Through == IF task.step = "detail" THEN task.ref ELSE Current.of
Expected == IF task.bundle = <<>> THEN <<Through>> ELSE task.bundle

\* The members of a bundle of several are told apart by their names.
NamesInHand == Len(Expected) = 1 \/ task.names

Ask ==
    /\ task # NoTask /\ call = NoCall
    /\ task.step = "file" => NamesInHand
    /\ Call([op |-> IF task.step = "file" THEN "download" ELSE "open_document",
             krs |-> Owner[task.ref], ref |-> Through])
    /\ UNCHANGED flowVars

\* record_a3_detail: the detail once, a row with its detail for each correction without one.
WithDetail(d, refs) ==
    [r \in Refs |->
        IF r = d /\ rows[r] # NoRow /\ rows[r].bundle = <<>> THEN [rows[r] EXCEPT !.bundle = refs]
        ELSE IF r \in InSeq(refs) \ {d} /\ rows[d] # NoRow
             THEN IF rows[r] = NoRow THEN [ListRow EXCEPT !.bundle = refs, !.of = d]
                  ELSE IF rows[r].bundle = <<>> THEN [rows[r] EXCEPT !.bundle = refs] ELSE rows[r]
        ELSE rows[r]]

NextDocument == run' = Done /\ task' = NoTask

\* download_filing refuses a bundle it could not tell apart before asking for it.
Refuse ==
    /\ task # NoTask /\ call = NoCall
    /\ task.step = "file" /\ ~ NamesInHand
    /\ NextDocument
    /\ UNCHANGED <<browserVars, outcome, rows, breaker, gates>>

\* fetch_filing_detail and on_detail, which commits before the type is checked.
Expanded ==
    /\ task # NoTask /\ Answered /\ answer.kind = "view" /\ ~ answer.gated
    /\ rows' = WithDetail(Through, answer.refs)
    /\ breaker' = 0 /\ Observed
    /\ IF Through \in Mistyped \/ (task.step = "detail" /\ (task.ref \notin InScope \/ Current.down))
       THEN NextDocument
       ELSE /\ task' = [task EXCEPT !.step = "file", !.bundle = answer.refs,
                                     !.names = InSeq(answer.refs) \cap Nameless = {}]
            /\ UNCHANGED run
    /\ TakeAnswer /\ UNCHANGED outcome

\* Mutant: whatever the file covers is accepted.
CoversSomething(requested) == requested # <<>>

\* The file covers exactly the bundle.
Covers(requested) == requested = Expected

\* Mutant: only the document asked for counts as saved.
SavedWithOne(ref, refs) == {ref}

\* saved_refs: one file holds a document and its corrections.
SavedWith(ref, refs) == InSeq(refs)

\* download_filing, record_a3_download and on_download.  Bytes that are not attributable or
\* cannot be redacted are not stored.
Saved ==
    /\ task # NoTask /\ Answered /\ answer.kind = "file" /\ ~ answer.gated
    /\ breaker' = 0 /\ Observed
    /\ \/ /\ Covers(answer.requested) /\ Through \notin Unredactable
          /\ rows' = [r \in Refs |-> IF r \in InSeq(Expected) /\ rows[r] # NoRow /\ rows[r].file = <<>>
                                     THEN [rows[r] EXCEPT !.file = answer.holds] ELSE rows[r]]
          /\ run' = [Done EXCEPT !.saved = @ \cup SavedWith(task.ref, Expected)]
       \/ /\ Covers(answer.requested) => Through \in Unredactable
          /\ run' = Done /\ UNCHANGED rows
    /\ task' = NoTask
    /\ TakeAnswer /\ UNCHANGED outcome

----------------------------------------------------------------------------
Browses == BrowserStep /\ UNCHANGED flowVars
PageAnswers == PageStep /\ UNCHANGED flowVars
GivesUp == TimesOut /\ UNCHANGED flowVars
RdfChanges == \E r \in Refs : File(r) /\ UNCHANGED flowVars

Runs ==
    \/ StartIndexing \/ StartRetrieving \/ RunEnds
    \/ LookUp \/ Index \/ SkipSaved \/ TakeDocument \/ Ask \/ Refuse \/ Expanded \/ Saved \/ Fails

RetrievalNext == Runs \/ Browses \/ PageAnswers \/ GivesUp \/ RunDies \/ RdfChanges

RetrievalSpec == RetrievalInit /\ [][RetrievalNext]_vars

\* The assets are run again and again; the page goes on answering.
FairRetrieval ==
    /\ RetrievalSpec
    /\ WF_vars(Runs) /\ WF_vars(Browses) /\ WF_vars(PageAnswers)

----------------------------------------------------------------------------
(***************************************************************************)
(* A row's file holds the row's document and its corrections, nothing      *)
(* else, and every one of them has a row pointing at it (download_filing:  *)
(* bytes that are not attributable are not stored).                        *)
(***************************************************************************)
OneFileOneBundle ==
    \A r \in Refs : rows[r] # NoRow /\ rows[r].file # <<>> =>
        /\ r \in InSeq(rows[r].file)
        /\ \A x \in InSeq(rows[r].file) :
              Original[x] = Original[r] /\ rows[x] # NoRow /\ rows[x].file = rows[r].file

(***************************************************************************)
(* What is downloaded is not requested again, though the pending list is   *)
(* read once and grows stale as the run goes on (raw_filing_documents:     *)
(* settled rows are skipped).                                              *)
(***************************************************************************)
NoSecondDownload ==
    call.op = "download" => rows[call.ref] # NoRow /\ rows[call.ref].file = <<>>

\* The answers the flow acts on are the ones the browser protocol promises.
Browser == INSTANCE FilingBrowser
BrowserKeepsItsPromise == Browser!Spec

\* A row detailed with a bundle RDF has since added to, not downloaded in between.  Alone it
\* is refused at every download: its row is not expanded again.
Outgrown(r) == Len(rows[r].bundle) = 1 /\ rdf.bundle[DownloadRef(r)] # rows[r].bundle
\* Refused whenever it is tried: its members cannot be told apart, or its file not redacted.
Refused(r) ==
    \/ Len(rows[r].bundle) > 1 /\ InSeq(rows[r].bundle) \cap Nameless # {}
    \/ DownloadRef(r) \in Unredactable
Settled(r) == rows[r] # NoRow /\ (~ NeedsDetail(r)) /\ (r \in InScope => rows[r].file # <<>>)

(***************************************************************************)
(* Once the source answers, repeated runs settle everything listed from    *)
(* the start, whatever failed before (each step commits on its own; a      *)
(* failed document stays pending).  What the data itself rules out is      *)
(* tried by every run, has its detail, and keeps nothing else from being   *)
(* settled.                                                                *)
(***************************************************************************)
EventuallySettled ==
    <>[](\A k \in Entities \ Unknown : \A r \in InSeq(Listing[k]) :
            \/ Settled(r)
            \/ rows[r] # NoRow /\ (Outgrown(r) \/ (~ NeedsDetail(r) /\ Refused(r))))

(***************************************************************************)
(* docs/adr/0007: "After N consecutive ContentCheckFailed or CAPTCHA       *)
(* results, stop the whole run instead of retrying entity by entity."      *)
(* Does not hold: a gated corrections list is a shape error, not a block.  *)
(***************************************************************************)
StopsAfterGates == gates < Threshold
=============================================================================
