--------------------------- MODULE ScriptSearches ---------------------------
(***************************************************************************)
(* Which companies the owner's download script searches on RDF, what it    *)
(* writes, and what the pipeline believes of it.                           *)
(*  - acquisition/rdf_queue.py orders the companies of entity_master into  *)
(*    a file; the script (outside src/) searches them in that order;       *)
(*  - the script appends a line per search to entities.csv and a row per   *)
(*    listed document to documents.csv; the owner may note in outages.csv  *)
(*    when the script had no connection;                                   *)
(*  - acquisition/script_import.py records the searches it believes in     *)
(*    rdf_listed_entities and indexes the listed statements.               *)
(* A search without a connection looks like one that found nothing: that   *)
(* is what outages.csv and the suspected runs are for.                     *)
(*                                                                         *)
(* Day n is the filing deadline of a company's statement n + 1, which it   *)
(* files on that day or later: with n statements listed it is due on day n.*)
(***************************************************************************)
EXTENDS Naturals, FiniteSets, Sequences, SequencesExt

CONSTANTS
    Companies,   \* entity_master, as positions in the order of the KRS numbers
    Known,       \* the companies RDF knows: the others never file
    Captured,    \* the companies of a source complete by capture
    LeftOut,     \* left_out_entities: never imported
    Drawn,       \* Drawn[k]: the place in the draw; companies outside it share the last
    Run,         \* SUSPECTED_OUTAGE_RUN
    MinYears,    \* min_history_years
    MaxDay,      \* bound: days, and the statements a company can have filed
    MaxLines,    \* bound: lines of one delivery's entities.csv
    MaxFaults,   \* bound: connections lost and imports stopped
    Null         \* an empty list_rows

ASSUME ScriptSearchesAssumption ==
    /\ Companies \subseteq Nat /\ IsFiniteSet(Companies)
    /\ Known \subseteq Companies /\ Captured \subseteq Companies /\ LeftOut \subseteq Companies
    /\ Drawn \in [Companies -> Nat]
    /\ Run \in Nat \ {0} /\ MinYears \in Nat
    /\ MaxDay \in Nat /\ MaxLines \in Nat /\ MaxFaults \in Nat

VARIABLES
    filed,    \* RDF: filed[k] is the number of statements k has filed
    day,
    online,   \* whether the script has a connection
    faults,   \* connections lost and imports stopped so far
    log,      \* entities.csv of the delivery folder
    listed,   \* documents.csv of the folder: listed[k] rows of k
    spans,    \* outages.csv of the folder: the lines a span covers
    rows,     \* rdf_listed_entities, the folder's lines: rows[i] is what line i is recorded as
    base,     \* rdf_listed_entities, the older searches of each company
    pending,  \* the companies whose listed rows the running import has still to index
    imported, \* whether an import of the folder as it is now ran to its end
    indexed,  \* filing_index: the statements of k
    queue     \* the companies of the queue file the script has still to search

outside == <<filed, day, online, faults>>
folder == <<log, listed, spans>>
records == <<rows, base, pending, imported, indexed>>
vars == <<outside, folder, records, queue>>

Larger(a, b) == IF a < b THEN b ELSE a
Lines == DOMAIN log

Statements == 0..(MaxDay + 1)

\* What one search leaves in entities.csv; had and lost are what it cannot say of itself: the
\* statements RDF held then, and that there was no connection.
Searches ==
    [krs : Companies, day : 0..MaxDay, found : BOOLEAN, count : Statements \cup {Null},
     flag : BOOLEAN, had : Statements, lost : BOOLEAN]

Recorded == {"no", "incomplete", "complete"}

TypeOK ==
    /\ filed \in [Companies -> Statements] /\ day \in 0..MaxDay
    /\ online \in BOOLEAN /\ faults \in 0..MaxFaults
    /\ log \in Seq(Searches) /\ Len(log) <= MaxLines
    /\ listed \in [Companies -> Statements] /\ spans \subseteq Lines
    /\ rows \in [Lines -> Recorded]
    /\ base \in [Companies -> [latest : Recorded, complete : 0..MaxDay \cup {Null}]]
    /\ pending \subseteq Companies /\ imported \in BOOLEAN
    /\ indexed \in [Companies -> Statements]
    /\ Range(queue) \subseteq Companies

Init ==
    /\ filed = [k \in Companies |-> 0] /\ day = 0 /\ online = TRUE /\ faults = 0
    /\ log = <<>> /\ listed = [k \in Companies |-> 0] /\ spans = {}
    /\ rows = <<>> /\ base = [k \in Companies |-> [latest |-> "no", complete |-> Null]]
    /\ pending = {} /\ imported = FALSE
    /\ indexed = [k \in Companies |-> 0]
    /\ queue = <<>>

-----------------------------------------------------------------------------
\* rdf_queue.py.

\* The recorded searches of k in the folder, and all of them, by the time they were made.
RecordedLines(k) == {i \in Lines : log[i].krs = k /\ rows[i] # "no"}
CompleteLines(k) == {i \in RecordedLines(k) : rows[i] = "complete"}
LatestLine(S) == CHOOSE i \in S : \A j \in S : j <= i

Latest(k) == IF RecordedLines(k) # {} THEN rows[LatestLine(RecordedLines(k))] ELSE base[k].latest
LastComplete(k) ==
    IF CompleteLines(k) # {} THEN log[LatestLine(CompleteLines(k))].day ELSE base[k].complete

\* The deadline of the year after the latest listed one, when there is one.
Due(k) == IF indexed[k] = 0 THEN Null ELSE indexed[k]

Overdue(k) ==
    /\ Due(k) # Null /\ Due(k) <= day
    /\ LastComplete(k) = Null \/ LastComplete(k) < Due(k)

Tiers == <<"not_searched", "search_incomplete", "filing_due", "oldest_search">>
Tier(k) ==
    IF Latest(k) = "no" /\ k \notin Captured THEN 1
    ELSE IF Latest(k) = "incomplete" THEN 2
    ELSE IF Overdue(k) THEN 3 ELSE 4

\* The sort key: tier, never complete first, oldest complete, the draw's order, KRS.
SortKey(k) ==
    <<Tier(k), IF LastComplete(k) = Null THEN 0 ELSE LastComplete(k) + 1,
      IF Tier(k) = 1 THEN Drawn[k] ELSE 0, k>>
Before(j, k) ==
    \E n \in 1..4 : /\ SortKey(j)[n] < SortKey(k)[n]
                    /\ \A m \in 1..(n - 1) : SortKey(j)[m] = SortKey(k)[m]

\* Mutant: a company RDF was said not to know is not queued again.
QueuedFound == {k \in Companies : ~ (LastComplete(k) # Null /\ indexed[k] = 0)}

Queued == Companies

\* rdf_research_queue; the script works one file to its end before it reads the next.
WriteQueue ==
    /\ queue = <<>>
    /\ queue' = SetToSortSeq(Queued, Before)
    /\ UNCHANGED <<outside, folder, records>>

-----------------------------------------------------------------------------
\* Outside the pipeline: companies file, days pass, the connection comes and goes.

File(k) ==
    /\ k \in Known /\ filed[k] <= day
    /\ filed' = [filed EXCEPT ![k] = @ + 1]
    /\ UNCHANGED <<day, online, faults, folder, records, queue>>

NextDay ==
    /\ day < MaxDay
    /\ day' = day + 1
    /\ UNCHANGED <<filed, online, faults, folder, records, queue>>

LoseConnection ==
    /\ online /\ faults < MaxFaults
    /\ online' = FALSE /\ faults' = faults + 1
    /\ UNCHANGED <<filed, day, folder, records, queue>>

RegainConnection ==
    /\ ~ online /\ online' = TRUE
    /\ UNCHANGED <<filed, day, faults, folder, records, queue>>

\* The script searches the next company of its file and appends a line.
AppendLine(line, rowsListed) ==
    /\ log' = Append(log, line)
    /\ listed' = [listed EXCEPT ![line.krs] = rowsListed]
    /\ rows' = Append(rows, "no")
    /\ queue' = Tail(queue)
    /\ imported' = FALSE
    /\ UNCHANGED <<outside, spans, base, pending, indexed>>

\* A folder being imported is not written to.
Searching(k) == queue # <<>> /\ Head(queue) = k /\ Len(log) < MaxLines /\ pending = {}

SearchOf(k, found, count, flag) ==
    [krs |-> k, day |-> day, found |-> found, count |-> count, flag |-> flag,
     had |-> IF found THEN filed[k] ELSE 0, lost |-> ~ online]

\* It lists every row of the page, or the page says there is no such company.
SearchWhole(k) ==
    /\ Searching(k) /\ online
    /\ AppendLine(SearchOf(k, filed[k] > 0, IF filed[k] > 0 THEN filed[k] ELSE Null, TRUE), filed[k])

\* It stops early and says so, or claims the whole list and gives no count.
SearchCut(k) ==
    /\ Searching(k) /\ online /\ filed[k] > 0
    /\ \E n \in listed[k]..filed[k], c \in {filed[k], Null} :
          AppendLine(SearchOf(k, TRUE, c, c = Null), n)

\* Without a connection it finds nothing and cannot tell.
SearchLost(k) ==
    /\ Searching(k) /\ ~ online
    /\ AppendLine(SearchOf(k, FALSE, Null, TRUE), listed[k])

\* The owner notes an outage: the lost searches of a stretch of time, all or some of them.
NoteOutage ==
    /\ \E i, j \in Lines :
          /\ \A n \in i..j : log[n].lost
          /\ i <= j /\ spans' = spans \cup (i..j)
    /\ spans' # spans /\ pending = {}
    /\ imported' = FALSE
    /\ UNCHANGED <<outside, log, listed, rows, base, pending, indexed, queue>>

-----------------------------------------------------------------------------
\* script_import.py.

\* read_entities refuses a search found and complete that gives no count.
Readable(s) == ~ (s.found /\ s.flag /\ s.count = Null)

\* read_outages: an unreadable row names no span.
InOutage(i) == i \in spans

\* The searches left once unreadable ones and those of a noted outage are dropped.
Kept == {i \in Lines : Readable(log[i]) /\ (log[i].found \/ ~ InOutage(i))}

Unfound(S, i, j) == \A n \in S : i <= n /\ n <= j => ~ log[n].found

\* Mutant: a run one search short of suspect is held too.
HeldOneFewer(S) ==
    {n \in S : \E i, j \in S :
        /\ i <= n /\ n <= j /\ Unfound(S, i, j)
        /\ Cardinality({m \in S : i <= m /\ m <= j}) >= Run - 1}

\* suspected_outages: at least Run searches in a row that found nothing.
Held(S) ==
    {n \in S : \E i, j \in S :
        /\ i <= n /\ n <= j /\ Unfound(S, i, j)
        /\ Cardinality({m \in S : i <= m /\ m <= j}) >= Run}

\* Mutant: the listing is not held against the page's count.
CompleteFound(s, n) == s.flag \/ s.found

\* complete_search: its flag, or the listing holds every row of the page.
CompleteSearch(s, n) == s.flag \/ (s.found /\ s.count # Null /\ n >= s.count)

\* The searches of one import, INSERT ... ON CONFLICT DO NOTHING.
RecordSearches ==
    LET believed == Kept \ Held(Kept)
    IN  [i \in Lines |->
            IF rows[i] # "no" \/ i \notin believed THEN rows[i]
            ELSE IF CompleteSearch(log[i], listed[log[i].krs]) THEN "complete" ELSE "incomplete"]

\* Young companies, by what this folder lists, and left-out ones are not indexed.
Indexable == {k \in Companies \ LeftOut : listed[k] > 0 /\ listed[k] >= MinYears}

\* import_listing to the commit of its searches.
ImportSearches ==
    /\ log # <<>> /\ ~ imported /\ pending = {}
    /\ rows' = RecordSearches
    /\ pending' = Indexable
    /\ imported' = (Indexable = {})
    /\ UNCHANGED <<outside, folder, base, indexed, queue>>

\* The documents of one company, committed on their own.
ImportDocuments(k) ==
    /\ k \in pending
    /\ indexed' = [indexed EXCEPT ![k] = Larger(@, listed[k])]
    /\ pending' = pending \ {k}
    /\ imported' = (pending = {k})
    /\ UNCHANGED <<outside, folder, rows, base, queue>>

\* The import stops; what it committed stays.
Crash ==
    /\ pending # {} /\ pending' = {}
    /\ faults < MaxFaults /\ faults' = faults + 1
    /\ UNCHANGED <<filed, day, online, folder, rows, base, imported, indexed, queue>>

\* The owner starts a new delivery folder once this one is full and the whole of it imported.
NewDelivery ==
    /\ Len(log) = MaxLines /\ imported
    /\ base' = [k \in Companies |-> [latest |-> Latest(k), complete |-> LastComplete(k)]]
    /\ log' = <<>> /\ spans' = {} /\ listed' = [k \in Companies |-> 0]
    /\ rows' = <<>> /\ imported' = FALSE
    /\ UNCHANGED <<outside, pending, indexed, queue>>

Next ==
    \/ WriteQueue \/ NextDay \/ LoseConnection \/ RegainConnection
    \/ NoteOutage \/ ImportSearches \/ Crash \/ NewDelivery
    \/ \E k \in Companies :
          File(k) \/ SearchWhole(k) \/ SearchCut(k) \/ SearchLost(k) \/ ImportDocuments(k)

Spec == Init /\ [][Next]_vars

(***************************************************************************)
(* Fairness.  The queue job is scheduled and the owner runs the script and *)
(* the import again and again; an outage ends; a company searched again    *)
(* and again is not cut short every time.                                  *)
(***************************************************************************)
FairSpec ==
    /\ Spec
    /\ WF_vars(WriteQueue) /\ WF_vars(RegainConnection)
    /\ WF_vars(ImportSearches) /\ WF_vars(NewDelivery)
    /\ \A k \in Companies : SF_vars(SearchWhole(k)) /\ WF_vars(ImportDocuments(k))

-----------------------------------------------------------------------------
\* A search recorded as complete listed every statement RDF held when it was made, whatever
\* stopped the script and whatever its flag says, or RDF knew no such company, or there was
\* no connection (what the queue's filing_due and oldest_search tiers rely on).
CompleteMeansListed ==
    \A i \in Lines : rows[i] = "complete" /\ log[i].found => listed[log[i].krs] >= log[i].had

\* A company that files is indexed in the end: neither a search lost in an outage and taken for
\* an answer, nor one cut short, nor a crash of the import hides its statements for good.
FilingsIndexed ==
    \A k \in Companies \ LeftOut :
        filed[k] >= MinYears ~> indexed[k] = filed[k]

\* Companies RDF does not know leave the not_searched tier too, as long as there are fewer of
\* them than make a suspected outage: a run of real empty answers is not held for ever.
EveryCompanySearched ==
    Cardinality({k \in Companies : filed[k] = 0}) < Run ~>
        \A k \in Companies : Tier(k) # 1
=============================================================================
