---------------------------- MODULE RdfBrowser ----------------------------
(***************************************************************************)
(* PlaywrightFilingBrowser (document_retrieval.py): one Chromium page, one *)
(* call at a time.  A call is a sequence of clicks; after each the browser *)
(* waits for answers the page logs, reading the log from where it stood at *)
(* the click (the marks).  The page itself sends the requests, follow-ups  *)
(* included, so answers may come late, gated or failed, and a failed call  *)
(* leaves the page, and what is in flight, as it is unless it is reloaded. *)
(*                                                                         *)
(* The log is kept only from the marks on: nothing earlier is ever read.   *)
(***************************************************************************)
EXTENDS FilingBrowser, Integers, SequencesExt

CONSTANTS
    Listing,      \* Listing[k]: the listed documents of k, in the list's order
    LateRefs,     \* documents filed only after the first run may have begun
    Unknown,      \* entities RDF does not know
    SmallPage, LargePage,   \* the page sizes the site offers
    MaxAttempts,  \* SourcePolicy.max_attempts
    MaxFaults,    \* bound: gated, failed and lost answers of a behaviour
    CreditCap     \* bound: tokens paid beyond the requests sent; a click expects up to two

ASSUME BrowserAssumption ==
    /\ SmallPage \in Nat \ {0} /\ LargePage \in Nat /\ SmallPage <= LargePage
    /\ MaxAttempts \in Nat \ {0}
    /\ CreditCap \in Nat \ {0, 1}

\* A correction belongs to one listed document of its entity; an entity's list holds listed
\* documents of its own.
ASSUME SourceAssumption ==
    /\ IsFiniteSet(Refs) /\ LateRefs \subseteq Refs
    /\ Owner \in [Refs -> Entities] /\ Original \in [Refs -> Refs]
    /\ \A r \in Refs : Original[Original[r]] = Original[r] /\ Owner[Original[r]] = Owner[r]
    /\ Listing \in [Entities -> Seq(Refs)]
    /\ \A k \in Entities : \A r \in InSeq(Listing[k]) : Original[r] = r /\ Owner[r] = k
    /\ Null \notin Entities \cup Refs

VARIABLES
    rdf,      \* RDF: listing[k], its list; bundle[d], a listed document and its corrections, in order
    site,     \* the page: krs searched, size, n and rows of the page shown, open row, its refs
    flight,   \* requests the page has sent and not seen answered
    log,      \* answers since the marks
    pay,      \* credit: tokens_spent - api_requests; unpaid: api_requests - _covered; sent since the marks
    br,       \* _entry_loaded, _krs, _pages, _page_number, _expanded, _expanded_refs
    at,       \* where the call stands
    attempt,  \* of _call's Retrying
    acc,      \* list pages read by this lookup
    faults

netVars == <<site, flight, log, pay>>
browserVars == <<call, answer, rdf, site, flight, log, pay, br, at, attempt, acc, faults>>

----------------------------------------------------------------------------
\* RDF's side.

AllRefs(k) == {r \in Refs : Owner[r] = k}
Bundle0 == [d \in Refs |->
    IF Original[d] # d THEN <<>>
    ELSE <<d>> \o SetToSeq({r \in Refs : Original[r] = d /\ r \notin LateRefs \cup {d}})]

PageCount(k, size) == (Len(rdf.listing[k]) + size - 1) \div size
PageOf(k, n, size) ==
    [n |-> n, size |-> size, count |-> PageCount(k, size), total |-> Len(rdf.listing[k]),
     refs |-> SubSeq(rdf.listing[k], n * size + 1,
                     IF (n + 1) * size < Len(rdf.listing[k]) THEN (n + 1) * size ELSE Len(rdf.listing[k]))]

BlankSite == [krs |-> Null, size |-> SmallPage, n |-> 0, rows |-> <<>>, open |-> Null, refs |-> <<>>]

\* A document is filed: a statement goes on top of its entity's list, a correction into
\* the row of the document it corrects.
File(r) ==
    /\ r \in LateRefs
    /\ IF Original[r] = r
       THEN /\ r \notin InSeq(rdf.listing[Owner[r]])
            /\ rdf' = [rdf EXCEPT !.listing[Owner[r]] = <<r>> \o @]
       ELSE /\ r \notin InSeq(rdf.bundle[Original[r]])
            /\ rdf' = [rdf EXCEPT !.bundle[Original[r]] = Append(@, r)]
    /\ UNCHANGED <<call, answer, site, flight, log, pay, br, at, attempt, acc, faults>>

----------------------------------------------------------------------------
\* The browser's beliefs and its tokens.

ResetView(b) == [b EXCEPT !.krs = Null, !.pages = <<>>, !.number = 0, !.expanded = Null, !.refs = <<>>]
NewBrowser == [loaded |-> FALSE, krs |-> Null, pages |-> <<>>, number |-> 0,
               expanded |-> Null, refs |-> <<>>]
NoPay == [credit |-> 0, unpaid |-> 0, sent |-> 0]

Capped(n) == IF n > CreditCap THEN CreditCap ELSE n
Send(p, n) == [credit |-> p.credit - n, unpaid |-> p.unpaid + n, sent |-> p.sent + n]
Settle(p) == [p EXCEPT !.credit = Capped(p.credit + p.unpaid), !.unpaid = 0]

\* Mutant: what was sent and not covered is left for later.
PaidForClickUnsettled(p, expected) == [p EXCEPT !.credit = Capped(@ + expected), !.sent = 0]

\* _click: settle, pay the expected requests, set the marks.
PaidForClick(p, expected) ==
    [Settle(p) EXCEPT !.credit = Capped(@ + expected), !.sent = 0]

\* _finish: the expected requests that were sent are covered; the rest is paid.
Finished(p, expected) ==
    Settle([p EXCEPT !.unpaid = @ - (IF p.sent < expected THEN p.sent ELSE expected)])

\* The page sends request and its answers are awaited at next.
Click(request, expected, next, s) ==
    /\ pay' = Send(PaidForClick(pay, expected), 1)
    /\ site' = s
    /\ flight' = Append(flight, request)
    /\ log' = <<>>
    /\ at' = next

Logged(path, of) == {i \in DOMAIN log : log[i].path = path /\ (of = Null \/ log[i].of = of)}
First(path, of) == log[CHOOSE i \in Logged(path, of) : \A j \in Logged(path, of) : i <= j]

\* _await has its answer: A is what the call does with it.
Await(where, path, of) == at = where /\ Logged(path, of) # {}

Reply(a) ==
    /\ answer' = a /\ at' = "idle" /\ acc' = <<>> /\ log' = <<>>
    /\ UNCHANGED <<call, rdf, attempt, faults>>

\* An error that is not retried leaves the page and the browser's beliefs as they are.
Permanent(error) ==
    /\ Reply([kind |-> "error", error |-> error])
    /\ UNCHANGED <<site, flight, pay, br>>

\* _call: a transient or a Playwright error reloads the page before the next attempt.
Transient ==
    /\ br' = [br EXCEPT !.loaded = FALSE]
    /\ IF attempt < MaxAttempts
       THEN /\ attempt' = attempt + 1 /\ at' = "enter" /\ acc' = <<>> /\ log' = <<>>
            /\ UNCHANGED <<call, answer, rdf>>
       ELSE /\ answer' = [kind |-> "error", error |-> "transient"]
            /\ at' = "idle" /\ acc' = <<>> /\ log' = <<>>
            /\ UNCHANGED <<call, rdf, attempt>>

\* _raise_for_status, then the gate where the browser looks for it.
Usable(r) == r.status \in {"ok", "waf"}
BadStatus(r) ==
    \/ r.status = "5xx" /\ Transient /\ UNCHANGED <<site, flight, pay, faults>>
    \/ r.status = "4xx" /\ Permanent("permanent")

----------------------------------------------------------------------------
\* The page.

Fault(status) == IF status = "ok" THEN 0 ELSE 1

\* What the page sends when an answer arrives: the list of a found entity, the details of an
\* expanded row's documents; a download's answer is handed to the browser as a file.
FollowUps(r) ==
    CASE r.path = "entity" /\ r.status = "ok" /\ r.found ->
            <<[path |-> "list", of |-> r.of, n |-> 0, size |-> site.size]>>
      [] r.path = "corrections" /\ r.status = "ok" ->
            [i \in DOMAIN r.refs |-> [path |-> "detail", of |-> r.refs[i]]]
      [] r.path = "file" /\ Usable(r) ->
            <<[path |-> "saved", of |-> r.of]>>
      [] OTHER -> <<>>

Rendered(r) ==
    CASE r.path = "list" /\ r.status = "ok" ->
            [site EXCEPT !.krs = r.of, !.n = r.page.n, !.size = r.page.size, !.rows = r.page.refs,
                         !.open = Null, !.refs = <<>>]
      [] r.path = "corrections" /\ r.status = "ok" -> [site EXCEPT !.open = r.of, !.refs = r.refs]
      [] OTHER -> site

Response(q, status) ==
    CASE q.path = "entity" -> [path |-> "entity", of |-> q.of, status |-> status, found |-> q.of \notin Unknown]
      [] q.path = "list" -> [path |-> "list", of |-> q.of, status |-> status, page |-> PageOf(q.of, q.n, q.size)]
      [] q.path = "corrections" -> [path |-> "corrections", of |-> q.of, status |-> status, refs |-> rdf.bundle[q.of]]
      [] OTHER -> [path |-> q.path, of |-> q.of, status |-> status]

\* An answer reaches the page, which logs it (_on_response, _on_download) and goes on.
Arrive(i, status) ==
    LET r == Response(flight[i], status)
        next == FollowUps(r)
        asked == IF r.path = "file" THEN 0 ELSE Len(next)
    IN  /\ faults + Fault(status) <= MaxFaults
        /\ r.path = "saved" => status \in {"ok", "5xx"}
        /\ faults' = faults + Fault(status)
        /\ flight' = RemoveAt(flight, i) \o next
        /\ site' = Rendered(r)
        /\ log' = IF at = "idle" THEN log ELSE Append(log, r)
        /\ pay' = Send(pay, asked)
        /\ UNCHANGED <<call, answer, rdf, br, at, attempt, acc>>

Waiting == {"entity", "list", "resized", "next", "first", "forward", "corrections", "details", "file", "saved"}

AwaitedPath ==
    [w \in Waiting |->
        CASE w \in {"resized", "next", "first", "forward", "list"} -> "list"
          [] w = "details" -> "detail" [] OTHER -> w]

\* No answer within timeout_seconds, or a Playwright error on the page.
TimesOut ==
    /\ at \in Waiting /\ faults < MaxFaults
    /\ at # "details" => Logged(AwaitedPath[at], Null) = {}
    /\ faults' = faults + 1
    /\ Transient /\ UNCHANGED <<site, flight, pay>>

----------------------------------------------------------------------------
\* A call.

BeginCall(c) ==
    /\ call = NoCall /\ call' = c /\ answer' = NoAnswer
    /\ at' = "enter" /\ attempt' = 1

\* _ensure_entry: the page is loaded, which cancels what it had in flight.
Enter(status) ==
    /\ at = "enter" /\ ~ br.loaded
    /\ faults + Fault(status) <= MaxFaults
    /\ faults' = faults + Fault(status)
    /\ site' = BlankSite /\ flight' = <<>> /\ UNCHANGED pay
    /\ \/ /\ status = "ok"
          /\ br' = [ResetView(br) EXCEPT !.loaded = TRUE]
          /\ UNCHANGED <<call, answer, rdf, log, at, attempt, acc>>
       \/ status = "5xx" /\ Transient
       \/ /\ status \in {"waf", "4xx"}
          /\ answer' = [kind |-> "error", error |-> IF status = "waf" THEN "blocked" ELSE "permanent"]
          /\ at' = "idle" /\ acc' = <<>> /\ log' = <<>>
          /\ UNCHANGED <<call, rdf, br, attempt>>

\* _search: collapse, reset the view, search; the list of a found entity is paid for too.
Search ==
    /\ at = "enter" /\ br.loaded
    /\ call.op = "open_filing_list" \/ br.krs # call.krs
    /\ br' = ResetView(br)
    /\ Click([path |-> "entity", of |-> call.krs], 2, "entity",
             [site EXCEPT !.krs = call.krs, !.n = 0, !.rows = <<>>, !.open = Null, !.refs = <<>>])
    /\ acc' = <<>>
    /\ UNCHANGED <<call, answer, rdf, attempt, faults>>

EntityAnswer ==
    /\ Await("entity", "entity", Null)
    /\ LET r == First("entity", Null) IN
       \/ BadStatus(r)
       \/ r.status = "waf" /\ Permanent("blocked")
       \/ /\ r.status = "ok" /\ r.found
          /\ at' = "list"
          /\ UNCHANGED <<call, answer, rdf, site, flight, log, pay, br, attempt, acc, faults>>
       \/ /\ r.status = "ok" /\ ~ r.found      \* then the row asked for is not in RDF's list
          /\ pay' = Finished(pay, 2)
          /\ Reply(IF call.op = "open_filing_list" THEN [kind |-> "listing", found |-> FALSE, pages |-> <<>>]
                   ELSE [kind |-> "error", error |-> "permanent"])
          /\ UNCHANGED <<site, flight, br>>

\* The list is complete: what _open_filing_list_once returns and remembers.
ListComplete(pages) ==
    /\ br' = [br EXCEPT !.krs = call.krs, !.pages = [i \in DOMAIN pages |-> pages[i].refs],
                        !.number = pages[Len(pages)].n]
    /\ UNCHANGED <<site, flight>>
    /\ IF call.op = "open_filing_list"
       THEN Reply([kind |-> "listing", found |-> TRUE, pages |-> pages])
       ELSE /\ at' = "row" /\ acc' = <<>> /\ log' = <<>>
            /\ UNCHANGED <<call, answer, rdf, attempt, faults>>

\* The next page of the list, or its end.
WalkOn(pages, expected) ==
    LET current == pages[Len(pages)] IN
    IF current.n + 1 < current.count
    THEN /\ acc' = pages
         /\ pay' = Send(PaidForClick(Finished(pay, expected), 1), 1)
         /\ flight' = Append(flight, [path |-> "list", of |-> site.krs, n |-> site.n + 1, size |-> site.size])
         /\ log' = <<>> /\ at' = "next"
         /\ UNCHANGED <<call, answer, rdf, site, br, attempt, faults>>
    ELSE /\ pay' = Finished(pay, expected)
         /\ ListComplete(pages)

\* The first list answer: the largest page size is chosen before paging.
ListAnswer ==
    /\ Await("list", "list", Null)
    /\ LET r == First("list", Null) IN
       \/ BadStatus(r)
       \/ r.status = "waf" /\ Permanent("blocked")
       \/ /\ r.status = "ok" /\ r.page.count > 1 /\ r.page.size < LargePage
          /\ pay' = Send(PaidForClick(Finished(pay, 2), 1), 1)
          /\ flight' = Append(flight, [path |-> "list", of |-> site.krs, n |-> 0, size |-> LargePage])
          /\ log' = <<>> /\ at' = "resized"
          /\ UNCHANGED <<call, answer, rdf, site, br, attempt, acc, faults>>
       \/ /\ r.status = "ok" /\ (r.page.count <= 1 \/ r.page.size = LargePage)
          /\ WalkOn(<<r.page>>, 2)

\* _click_for_list within _open_filing_list_once.
PageAnswer ==
    /\ at \in {"resized", "next"} /\ Logged("list", Null) # {}
    /\ LET r == First("list", Null) IN
       \/ BadStatus(r)
       \/ r.status = "waf" /\ Permanent("blocked")
       \/ r.status = "ok" /\ WalkOn(Append(acc, r.page), 1)

----------------------------------------------------------------------------
\* _show_row and _expand.

PagesWith(ref) == {i \in DOMAIN br.pages : ref \in InSeq(br.pages[i])}

\* _collapse: only a row the browser believes expanded.  One whose expansion it gave up on, its
\* answers late or unusable, stays open on the page.
Collapsed(b, s) ==
    IF b.expanded = Null THEN s ELSE [s EXCEPT !.open = Null, !.refs = <<>>]

\* The row's button is clicked: the page asks for the corrections of what its row shows.  There
\* is no button where the page has no such row, or has it open.
ExpandAt(b, s, p, row) ==
    LET shown == Collapsed(b, s) IN
    IF row \in DOMAIN s.rows /\ shown.open # s.rows[row]
    THEN /\ br' = [b EXCEPT !.expanded = Null]
         /\ pay' = Send(PaidForClick(p, 2), 1)
         /\ site' = shown
         /\ flight' = Append(flight, [path |-> "corrections", of |-> s.rows[row]])
         /\ log' = <<>> /\ at' = "corrections" /\ acc' = <<>>
         /\ UNCHANGED <<call, answer, rdf, attempt, faults>>
    ELSE /\ Transient /\ UNCHANGED <<site, flight, pay, faults>>

\* The list is in hand: find the row's page.
StartRow ==
    \/ at = "row"
    \/ /\ at = "enter" /\ br.loaded /\ br.krs = call.krs
       /\ \/ call.op = "open_document"
          \/ call.op = "download" /\ br.expanded # call.ref

RowOf(ref) == CHOOSE i \in DOMAIN br.pages[CHOOSE p \in PagesWith(ref) : TRUE] :
                 br.pages[CHOOSE p \in PagesWith(ref) : TRUE][i] = ref
Target(ref) == (CHOOSE p \in PagesWith(ref) : TRUE) - 1

ShowRow ==
    /\ StartRow
    /\ \/ PagesWith(call.ref) = {} /\ Permanent("permanent")
       \/ /\ PagesWith(call.ref) # {} /\ Target(call.ref) = br.number
          /\ ExpandAt(br, site, pay, RowOf(call.ref))
       \/ /\ PagesWith(call.ref) # {} /\ Target(call.ref) # br.number
          /\ br' = [br EXCEPT !.expanded = Null]
          /\ LET back == Target(call.ref) < br.number IN
             Click([path |-> "list", of |-> site.krs, n |-> IF back THEN 0 ELSE site.n + 1, size |-> site.size],
                   1, IF back THEN "first" ELSE "forward", Collapsed(br, site))
          /\ UNCHANGED <<call, answer, rdf, attempt, acc, faults>>

\* A page on the way to the row; the page reached must show what the list showed.
RowPage ==
    /\ at \in {"first", "forward"} /\ Logged("list", Null) # {}
    /\ LET r == First("list", Null) IN
       \/ BadStatus(r)
       \/ r.status = "waf" /\ Permanent("blocked")
       \/ /\ r.status = "ok" /\ r.page.n < Target(call.ref)
          /\ br' = [br EXCEPT !.number = r.page.n]
          /\ pay' = Send(PaidForClick(Finished(pay, 1), 1), 1)
          /\ flight' = Append(flight, [path |-> "list", of |-> site.krs, n |-> site.n + 1, size |-> site.size])
          /\ log' = <<>> /\ at' = "forward"
          /\ UNCHANGED <<call, answer, rdf, site, attempt, acc, faults>>
       \/ /\ r.status = "ok" /\ r.page.n >= Target(call.ref)
          /\ IF r.page.refs = br.pages[Target(call.ref) + 1]
             THEN ExpandAt([br EXCEPT !.number = r.page.n], site, Finished(pay, 1), RowOf(call.ref))
             ELSE /\ br' = ResetView(br) /\ pay' = Finished(pay, 1)
                  /\ Reply([kind |-> "error", error |-> "permanent"])
                  /\ UNCHANGED <<site, flight>>

\* The corrections list names the document the row really is.  A gated one is not JSON.
CorrectionsAnswer ==
    /\ Await("corrections", "corrections", Null)
    /\ LET r == First("corrections", Null) IN
       \/ BadStatus(r)
       \/ Usable(r) /\ r.of # call.ref /\ Permanent("permanent")
       \/ r.status = "waf" /\ r.of = call.ref /\ Permanent("waf")
       \/ /\ r.status = "ok" /\ r.of = call.ref /\ at' = "details"
          /\ UNCHANGED <<call, answer, rdf, site, flight, log, pay, br, attempt, acc, faults>>

\* One detail per document of the row, awaited in the row's order.
DetailAnswers ==
    /\ at = "details"
    /\ LET refs == First("corrections", Null).refs
           good(i) == Logged("detail", refs[i]) # {} /\ Usable(First("detail", refs[i]))
       IN \/ \E i \in DOMAIN refs :
                /\ \A j \in 1..(i - 1) : good(j)
                /\ Logged("detail", refs[i]) # {} /\ BadStatus(First("detail", refs[i]))
          \/ /\ \A i \in DOMAIN refs : good(i)
             /\ LET gated == \E r \in InSeq(refs) : First("detail", r).status = "waf"
                    b == [br EXCEPT !.expanded = call.ref, !.refs = refs] IN
                IF call.op = "open_document"
                THEN /\ Reply([kind |-> "view", refs |-> refs, gated |-> gated])
                     /\ br' = b /\ pay' = Finished(pay, 2) /\ UNCHANGED <<site, flight>>
                ELSE /\ br' = b
                     /\ pay' = Send(PaidForClick(Finished(pay, 2), 1), 1)
                     /\ flight' = Append(flight, [path |-> "file", of |-> site.refs])
                     /\ log' = <<>> /\ at' = "file"
                     /\ UNCHANGED <<call, answer, rdf, site, attempt, acc, faults>>

----------------------------------------------------------------------------
\* _download_once.

\* Mutant: whatever row of the entity is expanded is used.
ExpandedAny(ref) == br.krs = call.krs /\ br.expanded # Null

\* The document's row is the one expanded.
ExpandedHere(ref) == br.krs = call.krs /\ br.expanded = ref

\* The row is already expanded: its download button is pressed.
DownloadExpanded ==
    /\ at = "enter" /\ br.loaded /\ call.op = "download"
    /\ ExpandedHere(call.ref)
    /\ Click([path |-> "file", of |-> site.refs], 1, "file", site)
    /\ UNCHANGED <<call, answer, rdf, br, attempt, acc, faults>>

FileAnswer ==
    /\ Await("file", "file", Null)
    /\ LET r == First("file", Null) IN
       \/ BadStatus(r)
       \/ /\ Usable(r) /\ at' = "saved"
          /\ UNCHANGED <<call, answer, rdf, site, flight, log, pay, br, attempt, acc, faults>>

\* The file covers exactly the expanded row.
Attributable(requested) == requested = br.refs

\* The saved file's bytes; its request must be for the expanded row's documents.
SavedFile ==
    /\ Await("saved", "saved", Null)
    /\ LET answered == First("file", Null)
           file == First("saved", Null) IN
       \/ file.status # "ok" /\ Transient /\ UNCHANGED <<site, flight, pay, faults>>
       \/ /\ file.status = "ok"
          /\ pay' = Finished(pay, 1)
          /\ Reply(IF Attributable(answered.of)
                   THEN [kind |-> "file", requested |-> answered.of, holds |-> file.of,
                         gated |-> answered.status = "waf"]
                   ELSE [kind |-> "error", error |-> "permanent"])
          /\ UNCHANGED <<site, flight, br>>

----------------------------------------------------------------------------
BrowserInit ==
    /\ rdf = [listing |-> Listing, bundle |-> Bundle0] /\ site = BlankSite /\ flight = <<>> /\ log = <<>>
    /\ pay = NoPay /\ br = NewBrowser /\ at = "idle" /\ attempt = 1 /\ acc = <<>>
    /\ faults = 0 /\ call = NoCall /\ answer = NoAnswer

Statuses == {"ok", "waf", "4xx", "5xx"}

\* A step the browser takes by itself.
BrowserStep ==
    \/ \E s \in Statuses : Enter(s)
    \/ Search \/ EntityAnswer \/ ListAnswer \/ PageAnswer
    \/ ShowRow \/ RowPage \/ CorrectionsAnswer \/ DetailAnswers
    \/ DownloadExpanded \/ FileAnswer \/ SavedFile

PageStep == \E i \in DOMAIN flight, s \in Statuses : Arrive(i, s)

(***************************************************************************)
(* Every request the page sent is paid for before the browser clicks       *)
(* again: at a click, before any answer, tokens_spent covers api_requests  *)
(* (the class docstring of PlaywrightFilingBrowser).                       *)
(***************************************************************************)
PaidBeforeClick == at \in Waiting /\ log = <<>> => pay.credit >= 0
=============================================================================
