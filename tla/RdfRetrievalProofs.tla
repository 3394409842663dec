-------------------------- MODULE RdfRetrievalProofs --------------------------
(***************************************************************************)
(* For any entities, documents, corrections filed late, page sizes and     *)
(* attempts: the browser answers with what it was asked for and pays       *)
(* before it clicks, and the flow neither mixes two documents' files nor   *)
(* downloads one twice.                                                    *)
(*                                                                         *)
(* The browser's half rests on what may be in flight: while its page need  *)
(* not be reloaded, only details of an earlier call can still arrive late; *)
(* any other request is the one the call in progress waits for             *)
(* (OneRequest, OfThisCall).  The flow's half rests on the rows of one     *)
(* document sharing one file (SharesTheFile), and on the pending list      *)
(* being stale only about rows whose file this run has saved (TodoFits).   *)
(***************************************************************************)
EXTENDS RdfRetrieval, TLAPS, SequenceTheorems, FiniteSetTheorems, WellFoundedInduction

Originals == {r \in Refs : Original[r] = r}
Listed(k) == {r \in Originals : Owner[r] = k}
Sizes == {SmallPage, LargePage}

Pages == [n : Nat, size : Sizes, count : Int, total : Nat, refs : Seq(Refs)]
PageFor(k, g) == g \in Pages /\ InSeq(g.refs) \subseteq Listed(k)
BundleFor(d, s) == s \in Seq(Refs) /\ d \in InSeq(s) /\ \A r \in InSeq(s) : Original[r] = d

\* What RDF holds: lists of listed documents, bundles of one document and its corrections.
SourceOK ==
    /\ rdf \in [listing : [Entities -> Seq(Refs)], bundle : [Refs -> Seq(Refs)]]
    /\ \A k \in Entities : InSeq(rdf.listing[k]) \subseteq Listed(k)
    /\ \A d \in Originals : BundleFor(d, rdf.bundle[d])

Requests ==
    [path : {"entity"}, of : Entities]
    \cup [path : {"list"}, of : Entities, n : Nat, size : Sizes]
    \cup [path : {"corrections"}, of : Originals]
    \cup [path : {"detail"}, of : Refs]
    \cup [path : {"file", "saved"}, of : Seq(Refs)]

EntityResponses == [path : {"entity"}, of : Entities, status : Statuses, found : BOOLEAN]
ListResponses ==
    {r \in [path : {"list"}, of : Entities, status : Statuses, page : Pages] : PageFor(r.of, r.page)}
BundleResponses ==
    {r \in [path : {"corrections"}, of : Originals, status : Statuses, refs : Seq(Refs)] :
        BundleFor(r.of, r.refs)}
OtherResponses ==
    [path : {"detail"}, of : Refs, status : Statuses]
    \cup [path : {"file", "saved"}, of : Seq(Refs), status : Statuses]
Responses == EntityResponses \cup ListResponses \cup BundleResponses \cup OtherResponses

Sites == [krs : Entities \cup {Null}, size : Sizes, n : Nat, rows : Seq(Originals),
          open : Originals \cup {Null}, refs : Seq(Refs)]
Pays == [credit : Int, unpaid : Int, sent : Int]
Browsers == [loaded : BOOLEAN, krs : Entities \cup {Null}, pages : Seq(Seq(Refs)), number : Nat,
             expanded : Refs \cup {Null}, refs : Seq(Refs)]

PageTypes ==
    /\ site \in Sites /\ flight \in Seq(Requests) /\ log \in Seq(Responses)
    /\ br \in Browsers
    /\ acc \in Seq(Pages)
    /\ pay \in Pays
    /\ at \in Waiting \cup {"idle", "enter", "row"}

----------------------------------------------------------------------------
\* Tokens: what is not settled yet still covers what the click in progress expects.

DueAt(w) == IF w \in {"entity", "list", "corrections", "details"} THEN 2
            ELSE IF w \in Waiting THEN 1 ELSE 0
TokensCover == pay.credit + pay.unpaid >= DueAt(at)

----------------------------------------------------------------------------
\* What is in flight.

IsDetail(x) == x.path = "detail"

\* What the wait of the call can be for; everywhere else nothing is waited for.
Chain(w) ==
    CASE w \in {"entity", "list"} -> {"entity", "list"}
      [] w \in {"resized", "next", "first", "forward"} -> {"list"}
      [] w \in {"corrections", "details"} -> {"corrections"}
      [] w \in {"file", "saved"} -> {"file", "saved"}
      [] OTHER -> {}

ListWaits == {"entity", "list", "resized", "next"}
RowWaits == {"first", "forward"}

OneRequest ==
    br.loaded =>
        /\ \A i, j \in DOMAIN flight : ~ IsDetail(flight[i]) /\ ~ IsDetail(flight[j]) => i = j
        /\ \A i \in DOMAIN flight : IsDetail(flight[i]) \/ flight[i].path \in Chain(at)

\* r, logged, is the answer whose follow-up q is.
Follows(q, r) ==
    \/ q.path = "list" /\ r.path = "entity" /\ r.status = "ok" /\ r.found
    \/ q.path = "saved" /\ r.path = "file" /\ Usable(r) /\ q.of = r.of

OfThisCall ==
    br.loaded /\ at \in Waiting =>
        /\ \A j \in DOMAIN log : IsDetail(log[j]) \/ log[j].path \in Chain(at)
        /\ \A i \in DOMAIN flight, j \in DOMAIN log :
              IsDetail(flight[i]) \/ IsDetail(log[j]) \/ Follows(flight[i], log[j])
        /\ \A j, k \in DOMAIN log : ~ IsDetail(log[j]) /\ log[j].path = log[k].path => j = k
        /\ at \in ListWaits \cup RowWaits =>
              /\ \A i \in DOMAIN flight : IsDetail(flight[i]) \/ flight[i].of = call.krs
              /\ \A j \in DOMAIN log : IsDetail(log[j]) \/ log[j].of = call.krs
        /\ \A j, k \in DOMAIN log : log[j].path = "file" /\ log[k].path = "saved" => log[j].of = log[k].of
        /\ at = "list" => \E j \in DOMAIN log : log[j].path = "entity"
        /\ at = "details" => \E j \in DOMAIN log : log[j].path = "corrections"
        /\ at = "details" => \A j \in DOMAIN log : log[j].path = "corrections" => log[j].of = call.ref
        /\ at = "saved" => \E j \in DOMAIN log : log[j].path = "file"

----------------------------------------------------------------------------
\* What the browser believes of the page, and where a call stands.

Opens == {"open_document", "download"}

Beliefs ==
    /\ ~ br.loaded => at \in {"idle", "enter"}
    /\ br.loaded /\ br.krs # Null => site.krs = br.krs
    /\ br.loaded /\ at \in ListWaits => site.krs = call.krs /\ br.krs = Null
    /\ at \in RowWaits \cup {"row", "corrections", "details", "file", "saved"} => br.krs = call.krs
    /\ br.expanded # Null => br.expanded \in InSeq(br.refs)
    /\ at \in RowWaits \cup {"row", "corrections", "details"} => call.op \in Opens
    /\ at \in {"file", "saved"} => call.op = "download" /\ br.expanded = call.ref
    /\ \A i \in DOMAIN acc : PageFor(call.krs, acc[i])

CallStands ==
    /\ call \in Calls \cup {NoCall}
    /\ call = NoCall => at = "idle" /\ answer = NoAnswer
    /\ at = "idle" => log = <<>> /\ acc = <<>>
    /\ at # "idle" => answer = NoAnswer
    /\ at = "idle" /\ call # NoCall => answer # NoAnswer

\* An answer is of what was asked for, and a view of a document names every row it has.
AnswerOK ==
    answer = NoAnswer \/ answer \in Errors \/
        /\ Right(call, answer)
        /\ call.op = "open_filing_list" =>
              \A i \in DOMAIN answer.pages : InSeq(answer.pages[i].refs) \subseteq Originals
        /\ call.op = "open_document" => answer.refs \in Seq(Refs)
        /\ call.op = "download" => answer.requested \in Seq(Refs)

Covering(d, s) == \A c \in Refs : rows[c] # NoRow /\ Original[c] = d => c \in InSeq(s)
\* s names every row of d and nothing RDF does not.
Names(d, s) == Covering(d, s) /\ InSeq(s) \subseteq InSeq(rdf.bundle[d])
LogCovers == \A i \in DOMAIN log : log[i].path = "corrections" => Names(log[i].of, log[i].refs)
AnswerCovers == answer.kind = "view" => Names(call.ref, answer.refs)
RowsCovered == \A d \in Originals : Covering(d, rdf.bundle[d])

----------------------------------------------------------------------------
\* The rows.

RowSet == [bundle : Seq(Refs), file : Seq(Refs), of : Refs \cup {Null}]
HasRow(r) == rows[r] # NoRow

RowTypes == rows \in [Refs -> RowSet \cup {NoRow}]

\* The detail of a row names its document's rows; a correction has a row only with its detail.
BundlesFit ==
    \A r \in Refs : HasRow(r) =>
        /\ rows[r].of = IF Original[r] = r THEN Null ELSE Original[r]
        /\ Original[r] # r =>
              /\ Detailed(r) /\ HasRow(Original[r])
              /\ Detailed(Original[r]) /\ Len(rows[Original[r]].bundle) # 1
        /\ Detailed(r) =>
              /\ BundleFor(Original[r], rows[r].bundle) /\ r \in InSeq(rows[r].bundle)
              /\ \A x \in InSeq(rows[r].bundle) : HasRow(x)

\* All rows of a document have the file of its bundle, or none has one.
SharesTheFile ==
    \A r \in Refs : HasRow(r) =>
        /\ HasRow(Original[r]) /\ rows[r].file = rows[Original[r]].file
        /\ rows[r].file # <<>> =>
              /\ Detailed(r) /\ r \in InSeq(rows[r].file)
              /\ \A x \in InSeq(rows[r].file) : HasRow(x) /\ Original[x] = Original[r]

----------------------------------------------------------------------------
\* The run and its list.

Pending == [item : Refs, of : Refs, need : BOOLEAN, bundle : Seq(Refs), down : BOOLEAN]
Lookups == [item : Entities]

RunTypes ==
    \/ run = Idle /\ task = NoTask /\ call = NoCall
    \/ run \in [asset : {"filing_index"}, todo : SUBSET Lookups, saved : {{}}] /\ task = NoTask
    \/ run \in [asset : {"raw_filing_documents"}, todo : SUBSET Pending, saved : SUBSET Refs]

Retrieving == run.asset = "raw_filing_documents"

\* Of what is still to do, the list is out of date only about files this run saved, and
\* about the document whose turn it is.
TodoFits ==
    Retrieving =>
        /\ \A p, q \in run.todo : p.item = q.item => p = q
        /\ \A p \in run.todo :
              /\ HasRow(p.item) /\ p.of = Original[p.item]
              /\ p.item \notin run.saved => rows[p.item].file = <<>>
              /\ p.need /\ (task # NoTask => task.ref # p.item) => ~ Detailed(p.item)
              /\ p.need => Original[p.item] = p.item
              /\ ~ p.need => Detailed(p.item) /\ p.bundle = rows[p.item].bundle
        /\ \A r \in run.saved : HasRow(r) /\ rows[r].file # <<>>

Tasks == [ref : Refs, step : {"detail", "names", "file"}, need : BOOLEAN, bundle : Seq(Refs), names : BOOLEAN]

TaskFits ==
    task # NoTask =>
        /\ Retrieving /\ task \in Tasks
        /\ run.todo # {} /\ Current.item = task.ref
        /\ rows[task.ref].file = <<>>
        /\ task.step = "detail" => Current.need /\ ~ Detailed(task.ref)
        /\ task.step = "names" => ~ Current.need /\ Len(rows[task.ref].bundle) > 1
        /\ task.step = "file" =>
              /\ Detailed(task.ref)
              /\ task.bundle # <<>> /\ BundleFor(Original[task.ref], task.bundle)
              /\ Covering(Original[task.ref], task.bundle)
              /\ \A x \in InSeq(task.bundle) : HasRow(x)

CallFits ==
    call # NoCall =>
        \/ run.asset = "filing_index" /\ call.op = "open_filing_list"
        \/ /\ Retrieving /\ task # NoTask /\ call.ref = Through
           /\ call.op = IF task.step = "file" THEN "download" ELSE "open_document"

----------------------------------------------------------------------------
FlowInv == /\ RowTypes /\ BundlesFit /\ SharesTheFile /\ RunTypes /\ TodoFits /\ TaskFits /\ CallFits
           /\ RowsCovered /\ LogCovers /\ AnswerCovers

----------------------------------------------------------------------------
\* Sequences.

LEMMA InSeqAppend ==
    ASSUME NEW S, NEW s \in Seq(S), NEW x \in S
    PROVE  Append(s, x) \in Seq(S) /\ InSeq(Append(s, x)) = InSeq(s) \cup {x}
<1>1. Append(s, x) \in Seq(S) /\ DOMAIN s = 1 .. Len(s) /\ DOMAIN Append(s, x) = 1 .. Len(s) + 1
      /\ Len(s) \in Nat
  OBVIOUS
<1>2. \A i \in 1 .. Len(s) : Append(s, x)[i] = s[i]
  OBVIOUS
<1>3. Append(s, x)[Len(s) + 1] = x
  OBVIOUS
<1>4. ASSUME NEW y \in InSeq(Append(s, x)) PROVE y \in InSeq(s) \cup {x}
  BY <1>1, <1>2, <1>3 DEF InSeq
<1>5. ASSUME NEW y \in InSeq(s) \cup {x} PROVE y \in InSeq(Append(s, x))
  BY <1>1, <1>2, <1>3 DEF InSeq
<1> QED BY <1>1, <1>4, <1>5

LEMMA InSeqConcat ==
    ASSUME NEW S, NEW s \in Seq(S), NEW t \in Seq(S)
    PROVE  s \o t \in Seq(S) /\ InSeq(s \o t) \subseteq InSeq(s) \cup InSeq(t)
           /\ \A i \in DOMAIN s : i \in DOMAIN (s \o t) /\ (s \o t)[i] = s[i]
<1>1. /\ s \o t \in Seq(S) /\ DOMAIN s = 1 .. Len(s) /\ DOMAIN t = 1 .. Len(t)
      /\ DOMAIN (s \o t) = 1 .. Len(s) + Len(t) /\ Len(s) \in Nat /\ Len(t) \in Nat
  BY ConcatProperties, LenProperties
<1>2. \A i \in 1 .. Len(s) + Len(t) : (s \o t)[i] = IF i <= Len(s) THEN s[i] ELSE t[i - Len(s)]
  BY ConcatProperties
<1> QED BY <1>1, <1>2 DEF InSeq

LEMMA InSeqSub ==
    ASSUME NEW S, NEW s \in Seq(S), NEW m \in Nat \ {0}, NEW n \in Int, n <= Len(s)
    PROVE  SubSeq(s, m, n) \in Seq(S) /\ InSeq(SubSeq(s, m, n)) \subseteq InSeq(s)
<1>1. DOMAIN s = 1 .. Len(s) /\ Len(s) \in Nat /\ \A i \in 1 .. Len(s) : s[i] \in S
  BY LenProperties, ElementOfSeq
<1>2. \A i \in m .. n : s[i] \in S
  BY <1>1
<1>3. /\ SubSeq(s, m, n) \in Seq(S)
      /\ Len(SubSeq(s, m, n)) = IF m <= n THEN n - m + 1 ELSE 0
      /\ \A i \in 1 .. n - m + 1 : SubSeq(s, m, n)[i] = s[m + i - 1]
  BY <1>2, SubSeqProperties
<1>4. DOMAIN SubSeq(s, m, n) = 1 .. Len(SubSeq(s, m, n))
  BY <1>3, LenProperties
<1>5. ASSUME NEW i \in DOMAIN SubSeq(s, m, n)
      PROVE  i \in 1 .. n - m + 1 /\ m + i - 1 \in DOMAIN s
  BY <1>1, <1>3, <1>4
<1> QED BY <1>3, <1>5 DEF InSeq

\* What is in flight once flight[i] is answered: the others, and the requests it entails.
LEMMA FlightAfter ==
    ASSUME NEW S, NEW s \in Seq(S), NEW i \in DOMAIN s, NEW t \in Seq(S)
    PROVE  LET f == RemoveAt(s, i) \o t
               from(j) == IF j < i THEN j ELSE j + 1 IN
           /\ f \in Seq(S) /\ Len(s) \in Nat \ {0} /\ Len(t) \in Nat /\ DOMAIN t = 1 .. Len(t)
           /\ DOMAIN s = 1 .. Len(s) /\ DOMAIN f = 1 .. Len(s) - 1 + Len(t)
           /\ \A j \in 1 .. Len(s) - 1 : from(j) \in DOMAIN s \ {i} /\ f[j] = s[from(j)]
           /\ \A j \in Len(s) .. Len(s) - 1 + Len(t) :
                 j - Len(s) + 1 \in DOMAIN t /\ f[j] = t[j - Len(s) + 1]
<1> DEFINE a == SubSeq(s, 1, i - 1)  b == SubSeq(s, i + 1, Len(s))
<1>1. DOMAIN s = 1 .. Len(s) /\ Len(s) \in Nat /\ \A j \in 1 .. Len(s) : s[j] \in S
  BY LenProperties, ElementOfSeq
<1>2. /\ a \in Seq(S) /\ Len(a) = i - 1 /\ \A j \in 1 .. i - 1 : a[j] = s[j]
  <2>1. /\ \A j \in 1 .. i - 1 : s[j] \in S
        /\ 1 \in Int /\ i - 1 \in Int
    BY <1>1
  <2>2. /\ a \in Seq(S) /\ Len(a) = IF 1 <= i - 1 THEN (i - 1) - 1 + 1 ELSE 0
        /\ \A j \in 1 .. (i - 1) - 1 + 1 : a[j] = s[1 + j - 1]
    BY <2>1, SubSeqProperties
  <2> HIDE DEF a
  <2> QED BY <2>2, <1>1
<1>3. /\ b \in Seq(S) /\ Len(b) = Len(s) - i /\ \A j \in 1 .. Len(s) - i : b[j] = s[i + j]
  <2>1. /\ \A j \in i + 1 .. Len(s) : s[j] \in S
        /\ i + 1 \in Int /\ Len(s) \in Int
    BY <1>1
  <2>2. /\ b \in Seq(S) /\ Len(b) = IF i + 1 <= Len(s) THEN Len(s) - (i + 1) + 1 ELSE 0
        /\ \A j \in 1 .. Len(s) - (i + 1) + 1 : b[j] = s[i + 1 + j - 1]
    BY <2>1, SubSeqProperties
  <2> HIDE DEF b
  <2>3. \A j \in 1 .. Len(s) - i : j \in 1 .. Len(s) - (i + 1) + 1 /\ i + 1 + j - 1 = i + j
    BY <1>1
  <2>4. Len(b) = Len(s) - i
    BY <2>2, <1>1
  <2>5. ASSUME NEW j \in 1 .. Len(s) - i PROVE b[j] = s[i + j]
    <3>1. b[j] = s[i + 1 + j - 1]
      BY <2>2, <2>3
    <3> QED BY <3>1, <2>3
  <2> QED BY <2>2, <2>4, <2>5
<1>4. RemoveAt(s, i) = a \o b
  BY DEF RemoveAt
<1> HIDE DEF a, b
<1> DEFINE r == a \o b
<1>5. /\ r \in Seq(S) /\ Len(r) = Len(s) - 1
      /\ \A j \in 1 .. Len(s) - 1 : r[j] = IF j < i THEN s[j] ELSE s[j + 1]
  <2>1. /\ r \in Seq(S) /\ Len(r) = Len(a) + Len(b)
        /\ \A j \in 1 .. Len(a) + Len(b) : r[j] = IF j <= Len(a) THEN a[j] ELSE b[j - Len(a)]
    BY <1>2, <1>3, ConcatProperties
  <2> HIDE DEF r
  <2>2. Len(r) = Len(s) - 1
    BY <2>1, <1>1, <1>2, <1>3
  <2>3. ASSUME NEW j \in 1 .. Len(s) - 1, j < i PROVE r[j] = s[j]
    BY <2>1, <2>3, <1>1, <1>2, <1>3
  <2>4. ASSUME NEW j \in 1 .. Len(s) - 1, ~ (j < i) PROVE r[j] = s[j + 1]
    <3>1. /\ j \in 1 .. Len(a) + Len(b) /\ ~ (j <= Len(a)) /\ j - Len(a) \in 1 .. Len(s) - i
          /\ i + (j - Len(a)) = j + 1
      BY <2>4, <1>1, <1>2, <1>3
    <3>2. r[j] = b[j - Len(a)]
      BY <3>1, <2>1
    <3>3. b[j - Len(a)] = s[i + (j - Len(a))]
      BY <3>1, <1>3
    <3> QED BY <3>1, <3>2, <3>3
  <2> QED BY <2>1, <2>2, <2>3, <2>4
<1> HIDE DEF r
<1>6. /\ r \o t \in Seq(S) /\ Len(r \o t) = Len(r) + Len(t)
      /\ \A j \in 1 .. Len(r) + Len(t) : (r \o t)[j] = IF j <= Len(r) THEN r[j] ELSE t[j - Len(r)]
  BY <1>5, ConcatProperties
<1>7. DOMAIN (r \o t) = 1 .. Len(r \o t) /\ DOMAIN t = 1 .. Len(t) /\ Len(t) \in Nat
  BY <1>6, LenProperties
<1>8. RemoveAt(s, i) \o t = r \o t
  BY <1>4 DEF r
<1> DEFINE f == r \o t
<1> HIDE DEF f
<1>9. /\ f \in Seq(S) /\ Len(s) \in Nat \ {0} /\ Len(t) \in Nat /\ DOMAIN t = 1 .. Len(t)
      /\ DOMAIN s = 1 .. Len(s) /\ DOMAIN f = 1 .. Len(s) - 1 + Len(t)
  BY <1>1, <1>5, <1>6, <1>7 DEF f
<1>10. ASSUME NEW j \in 1 .. Len(s) - 1
       PROVE  (IF j < i THEN j ELSE j + 1) \in DOMAIN s \ {i} /\ f[j] = s[IF j < i THEN j ELSE j + 1]
  BY <1>1, <1>5, <1>6, <1>7 DEF f
<1>11. ASSUME NEW j \in Len(s) .. Len(s) - 1 + Len(t)
       PROVE  j - Len(s) + 1 \in DOMAIN t /\ f[j] = t[j - Len(s) + 1]
  BY <1>1, <1>5, <1>6, <1>7 DEF f
<1> QED BY <1>8, <1>9, <1>10, <1>11 DEF f

\* The first answer of a kind is one of the logged.
LEMMA FirstIsLogged ==
    ASSUME log \in Seq(Responses), NEW path, NEW of, Logged(path, of) # {}
    PROVE  \E i \in DOMAIN log : i \in Logged(path, of) /\ First(path, of) = log[i]
<1>1. Logged(path, of) \subseteq DOMAIN log /\ DOMAIN log \subseteq Nat
  BY LenProperties DEF Logged
<1>2. \E i \in Logged(path, of) : \A j \in Logged(path, of) : ~ (<<j, i>> \in OpToRel(<, Nat))
  <2> DEFINE T == Logged(path, of)  L == OpToRel(<, Nat)
  <2>1. T \subseteq Nat /\ T # {}
    BY <1>1
  <2>2. IsWellFoundedOn(L, Nat)
    BY NatLessThanWellFounded
  <2> HIDE DEF T, L
  <2>3. \E i \in T : \A j \in T : ~ (<<j, i>> \in L)
    BY <2>1, <2>2, WFMin
  <2> QED BY <2>3 DEF T, L
<1>3. PICK i \in Logged(path, of) : \A j \in Logged(path, of) : ~ (<<j, i>> \in OpToRel(<, Nat))
  BY <1>2
<1>4. \A j \in Logged(path, of) : i <= j
  <2> SUFFICES ASSUME NEW j \in Logged(path, of) PROVE i <= j
    OBVIOUS
  <2>1. i \in Nat /\ j \in Nat
    BY <1>1
  <2>2. ~ (<<j, i>> \in OpToRel(<, Nat))
    BY <1>3
  <2>3. ~ (j < i)
    BY <2>1, <2>2, Zenon DEF OpToRel
  <2> QED BY <2>1, <2>3
<1> DEFINE m == CHOOSE x \in Logged(path, of) : \A j \in Logged(path, of) : x <= j
<1>5. m \in Logged(path, of)
  BY <1>4
<1>6. First(path, of) = log[m]
  BY DEF First
<1> QED BY <1>1, <1>5, <1>6

----------------------------------------------------------------------------
\* Tokens.

LEMMA SettleIs ==
    ASSUME NEW p \in Pays
    PROVE  /\ Capped(p.credit + p.unpaid) \in Int
           /\ Settle(p) \in Pays
           /\ Settle(p).credit = Capped(p.credit + p.unpaid) /\ Settle(p).unpaid = 0
<1> DEFINE c == Capped(p.credit + p.unpaid)
<1>1. c \in Int
  BY BrowserAssumption DEF Capped, Pays
<1>2. Settle(p) = [p EXCEPT !.credit = c, !.unpaid = 0]
  BY DEF Settle
<1> HIDE DEF c
<1> DEFINE q == [p EXCEPT !.credit = c]
<1>3. q \in Pays /\ q.credit = c
  BY <1>1 DEF Pays
<1>4. Settle(p) = [q EXCEPT !.unpaid = 0]
  BY <1>2
<1> HIDE DEF q
<1>5. Settle(p) \in Pays
  BY <1>3, <1>4 DEF Pays
<1>6. Settle(p).credit = c /\ Settle(p).unpaid = 0
  BY <1>3, <1>4 DEF Pays
<1> QED BY <1>1, <1>5, <1>6 DEF c

LEMMA FinishedCovers ==
    ASSUME NEW p \in Pays, NEW e \in {1, 2}, p.credit + p.unpaid >= e
    PROVE  Finished(p, e) \in Pays /\ Finished(p, e).credit + Finished(p, e).unpaid >= 0
<1> DEFINE paid == IF p.sent < e THEN p.sent ELSE e
           q == [credit |-> p.credit, unpaid |-> p.unpaid - paid, sent |-> p.sent]
<1>1. p = [credit |-> p.credit, unpaid |-> p.unpaid, sent |-> p.sent]
      /\ p.credit \in Int /\ p.unpaid \in Int /\ p.sent \in Int
  BY DEF Pays
<1>2. Finished(p, e) = Settle(q)
  BY <1>1 DEF Finished
<1>3. paid \in Int /\ paid <= e
  BY <1>1
<1>4. q \in Pays /\ q.credit = p.credit /\ q.unpaid = p.unpaid - paid
  BY <1>1, <1>3 DEF Pays
<1> HIDE DEF q, paid
<1>5. Settle(q) \in Pays /\ Settle(q).credit = Capped(q.credit + q.unpaid) /\ Settle(q).unpaid = 0
  BY <1>4, SettleIs
<1>6. q.credit + q.unpaid \in Nat /\ q.sent \in Int
  BY <1>1, <1>3, <1>4 DEF Pays
<1>7. Capped(q.credit + q.unpaid) \in Nat
  BY <1>6, BrowserAssumption DEF Capped
<1> QED BY <1>2, <1>5, <1>6, <1>7 DEF Pays

LEMMA ClickPays ==
    ASSUME NEW p \in Pays, NEW e \in {1, 2}, p.credit + p.unpaid >= 0
    PROVE  LET q == Send(PaidForClick(p, e), 1) IN
           q \in Pays /\ q.credit >= 0 /\ q.credit + q.unpaid >= e
<1> DEFINE c == Capped(p.credit + p.unpaid)  d == Capped(c + e)
<1>1. c \in Nat
  BY BrowserAssumption DEF Capped, Pays
<1>2. Settle(p) \in Pays /\ Settle(p).credit = c /\ Settle(p).unpaid = 0
  BY SettleIs
<1> HIDE DEF c
<1>3. d \in Nat /\ d >= e
  BY <1>1, BrowserAssumption DEF Capped
<1>4. LET q == PaidForClick(p, e) IN
      q \in Pays /\ q.credit = d /\ q.unpaid = 0 /\ q.sent = 0
  <2> DEFINE t == Settle(p)
  <2>1. t \in Pays /\ t.credit = c /\ t.unpaid = 0
    BY <1>1, <1>2 DEF Pays
  <2>2. PaidForClick(p, e) = [t EXCEPT !.credit = Capped(t.credit + e), !.sent = 0]
    BY DEF PaidForClick
  <2> HIDE DEF t
  <2>3. PaidForClick(p, e) = [t EXCEPT !.credit = d, !.sent = 0]
    BY <2>1, <2>2
  <2> HIDE DEF d
  <2> DEFINE u == [t EXCEPT !.credit = d]
  <2>4. u \in Pays /\ u.credit = d /\ u.unpaid = 0
    BY <2>1, <1>3 DEF Pays
  <2>5. PaidForClick(p, e) = [u EXCEPT !.sent = 0]
    BY <2>3
  <2> HIDE DEF u
  <2>6. PaidForClick(p, e) \in Pays
    BY <2>4, <2>5 DEF Pays
  <2> QED BY <2>4, <2>5, <2>6 DEF Pays
<1> HIDE DEF d
<1>5. Send(PaidForClick(p, e), 1) = [credit |-> d - 1, unpaid |-> 0 + 1, sent |-> 0 + 1]
  BY <1>4 DEF Send
<1> QED BY <1>3, <1>5 DEF Pays

----------------------------------------------------------------------------
\* Requests, answers and what the page does with them.

LEMMA ResponseFields ==
    ASSUME NEW r \in Responses
    PROVE  /\ r.status \in Statuses
           /\ r.path \in {"entity", "list", "corrections", "detail", "file", "saved"}
           /\ r.path = "entity" => r.of \in Entities /\ r.found \in BOOLEAN
           /\ r.path = "list" => r.of \in Entities /\ r.page \in Pages /\ PageFor(r.of, r.page)
           /\ r.path = "corrections" => r.of \in Originals /\ r.refs \in Seq(Refs) /\ BundleFor(r.of, r.refs)
           /\ r.path \in {"file", "saved"} => r.of \in Seq(Refs)
<1> USE DEF EntityResponses, ListResponses, BundleResponses, OtherResponses
<1>1. CASE r \in EntityResponses
  BY <1>1
<1>2. CASE r \in ListResponses
  BY <1>2
<1>3. CASE r \in BundleResponses
  BY <1>3
<1>4. CASE r \in OtherResponses
  BY <1>4
<1> QED BY <1>1, <1>2, <1>3, <1>4 DEF Responses

LEMMA RequestFields ==
    ASSUME NEW q \in Requests
    PROVE  /\ q.path \in {"entity", "list", "corrections", "detail", "file", "saved"}
           /\ q.path = "entity" => q.of \in Entities
           /\ q.path = "list" => q.of \in Entities /\ q.n \in Nat /\ q.size \in Sizes
           /\ q.path = "corrections" => q.of \in Originals
           /\ q.path = "detail" => q.of \in Refs
           /\ q.path \in {"file", "saved"} => q.of \in Seq(Refs)
BY DEF Requests

LEMMA PageOfFits ==
    ASSUME SourceOK, NEW k \in Entities, NEW n \in Nat, NEW size \in Sizes
    PROVE  PageOf(k, n, size) \in Pages /\ PageFor(k, PageOf(k, n, size))
<1> DEFINE l == rdf.listing[k]
           to == IF (n + 1) * size < Len(l) THEN (n + 1) * size ELSE Len(l)
           g == PageOf(k, n, size)
<1>1. l \in Seq(Refs) /\ Len(l) \in Nat /\ InSeq(l) \subseteq Listed(k)
  BY DEF SourceOK
<1>2. size \in Nat \ {0}
  BY BrowserAssumption DEF Sizes
<1>3. n * size \in Nat /\ (n + 1) * size \in Nat
  BY <1>2
<1>4. to \in Int /\ to <= Len(l) /\ n * size + 1 \in Nat \ {0}
  BY <1>1, <1>3
<1>5. SubSeq(l, n * size + 1, to) \in Seq(Refs) /\ InSeq(SubSeq(l, n * size + 1, to)) \subseteq InSeq(l)
  <2> DEFINE m == n * size + 1
  <2>1. m \in Nat \ {0}
    BY <1>4
  <2> HIDE DEF m, to, l
  <2>2. SubSeq(l, m, to) \in Seq(Refs) /\ InSeq(SubSeq(l, m, to)) \subseteq InSeq(l)
    BY <1>1, <1>4, <2>1, InSeqSub
  <2> QED BY <2>2 DEF m
<1>6. PageCount(k, size) \in Int
  <2>1. Len(l) + size - 1 \in Int
    BY <1>1, <1>2
  <2> QED BY <2>1, <1>2 DEF PageCount
<1>7. g = [n |-> n, size |-> size, count |-> PageCount(k, size), total |-> Len(l),
           refs |-> SubSeq(l, n * size + 1, to)]
  BY DEF PageOf
<1> HIDE DEF g, to, l
<1>8. g \in Pages
  BY <1>1, <1>5, <1>6, <1>7 DEF Pages
<1> QED BY <1>1, <1>5, <1>7, <1>8 DEF PageFor, g

LEMMA ResponseTyped ==
    ASSUME SourceOK, NEW q \in Requests, NEW status \in Statuses
    PROVE  /\ Response(q, status) \in Responses
           /\ Response(q, status).path = q.path /\ Response(q, status).of = q.of
           /\ Response(q, status).status = status
           /\ q.path = "corrections" => Response(q, status).refs = rdf.bundle[q.of]
<1> DEFINE r == Response(q, status)
<1>1. CASE q.path = "entity"
  <2>1. r = [path |-> "entity", of |-> q.of, status |-> status, found |-> q.of \notin Unknown]
    BY <1>1 DEF Response
  <2>2. q.of \in Entities
    BY <1>1, RequestFields
  <2> DEFINE known == q.of \notin Unknown
  <2> HIDE DEF known, r
  <2>3. known \in BOOLEAN
    BY DEF known
  <2>4. r = [path |-> "entity", of |-> q.of, status |-> status, found |-> known]
    BY <2>1 DEF known
  <2>5. r \in EntityResponses
    BY <2>4, <2>2, <2>3 DEF EntityResponses
  <2> QED BY <2>4, <2>5, <1>1 DEF Responses, r
<1>2. CASE q.path = "list"
  <2>1. r = [path |-> "list", of |-> q.of, status |-> status, page |-> PageOf(q.of, q.n, q.size)]
    BY <1>2 DEF Response
  <2>2. q.of \in Entities /\ PageOf(q.of, q.n, q.size) \in Pages /\ PageFor(q.of, PageOf(q.of, q.n, q.size))
    BY <1>2, RequestFields, PageOfFits
  <2> DEFINE g == PageOf(q.of, q.n, q.size)
  <2> HIDE DEF g, r
  <2>3. r \in ListResponses
    BY <2>1, <2>2 DEF ListResponses, g
  <2> QED BY <2>1, <2>3, <1>2 DEF Responses, r
<1>3. CASE q.path = "corrections"
  <2>1. r = [path |-> "corrections", of |-> q.of, status |-> status, refs |-> rdf.bundle[q.of]]
    BY <1>3 DEF Response
  <2>2. q.of \in Originals /\ BundleFor(q.of, rdf.bundle[q.of]) /\ rdf.bundle[q.of] \in Seq(Refs)
    BY <1>3, RequestFields DEF SourceOK, BundleFor
  <2> HIDE DEF r
  <2>3. r \in BundleResponses
    BY <2>1, <2>2 DEF BundleResponses
  <2> QED BY <2>1, <2>3, <1>3 DEF Responses, r
<1>4. CASE q.path \in {"detail", "file", "saved"}
  <2>1. r = [path |-> q.path, of |-> q.of, status |-> status]
    BY <1>4 DEF Response
  <2> HIDE DEF r
  <2>2. r \in OtherResponses
    BY <2>1, <1>4, RequestFields DEF OtherResponses
  <2> QED BY <2>1, <2>2, <1>4 DEF Responses, r
<1> QED BY <1>1, <1>2, <1>3, <1>4, RequestFields

LEMMA FollowUpsTyped ==
    ASSUME site \in Sites, NEW r \in Responses
    PROVE  /\ FollowUps(r) \in Seq(Requests)
           /\ \A j \in DOMAIN FollowUps(r) :
                 \/ r.path = "corrections" /\ IsDetail(FollowUps(r)[j])
                 \/ /\ r.path \in {"entity", "file"} /\ FollowUps(r)[j].of = r.of
                    /\ Follows(FollowUps(r)[j], r) /\ Len(FollowUps(r)) = 1
                    /\ FollowUps(r)[j].path = IF r.path = "entity" THEN "list" ELSE "saved"
           /\ Len(FollowUps(r)) \in Nat
<1>1. CASE r.path = "entity" /\ r.status = "ok" /\ r.found
  <2> DEFINE q == [path |-> "list", of |-> r.of, n |-> 0, size |-> site.size]
  <2>1. FollowUps(r) = <<q>>
    BY <1>1 DEF FollowUps
  <2>2. q \in Requests
    BY <1>1, ResponseFields DEF Requests, Sites
  <2>3. Follows(q, r) /\ q.of = r.of
    BY <1>1 DEF Follows
  <2>4. q.path = "list"
    OBVIOUS
  <2> HIDE DEF q
  <2> QED BY <2>1, <2>2, <2>3, <2>4, <1>1
<1>2. CASE r.path = "corrections" /\ r.status = "ok"
  <2> DEFINE f == [i \in DOMAIN r.refs |-> [path |-> "detail", of |-> r.refs[i]]]
  <2>1. FollowUps(r) = f
    BY <1>2 DEF FollowUps
  <2>2. r.refs \in Seq(Refs) /\ DOMAIN r.refs = 1 .. Len(r.refs) /\ Len(r.refs) \in Nat
    BY <1>2, ResponseFields, LenProperties
  <2>3. \A i \in 1 .. Len(r.refs) : r.refs[i] \in Refs
    BY <2>2, ElementOfSeq
  <2>4. f \in [1 .. Len(r.refs) -> Requests]
    BY <2>2, <2>3 DEF Requests
  <2>5. f \in Seq(Requests)
    BY <2>2, <2>4, SeqDef
  <2>6. \A j \in DOMAIN f : IsDetail(f[j])
    BY DEF IsDetail
  <2> HIDE DEF f
  <2> QED BY <2>1, <2>5, <2>6, <1>2, LenProperties
<1>3. CASE r.path = "file" /\ Usable(r)
  <2> DEFINE q == [path |-> "saved", of |-> r.of]
  <2>1. FollowUps(r) = <<q>>
    BY <1>3 DEF FollowUps
  <2>2. q \in Requests
    BY <1>3, ResponseFields DEF Requests
  <2>3. Follows(q, r) /\ q.of = r.of
    BY <1>3 DEF Follows
  <2>4. q.path = "saved"
    OBVIOUS
  <2> HIDE DEF q
  <2> QED BY <2>1, <2>2, <2>3, <2>4, <1>3
<1>4. CASE /\ ~ (r.path = "entity" /\ r.status = "ok" /\ r.found)
           /\ ~ (r.path = "corrections" /\ r.status = "ok")
           /\ ~ (r.path = "file" /\ Usable(r))
  <2>1. FollowUps(r) = <<>>
    BY <1>4 DEF FollowUps
  <2> QED BY <2>1
<1> QED BY <1>1, <1>2, <1>3, <1>4

LEMMA RenderedTyped ==
    ASSUME site \in Sites, NEW r \in Responses
    PROVE  /\ Rendered(r) \in Sites
           /\ Rendered(r).krs = IF r.path = "list" /\ r.status = "ok" THEN r.of ELSE site.krs
<1>1. CASE r.path = "list" /\ r.status = "ok"
  <2>1. r.of \in Entities /\ r.page \in Pages /\ PageFor(r.of, r.page)
    BY <1>1, ResponseFields
  <2>2. r.page.refs \in Seq(Originals)
    <3>1. r.page.refs \in Seq(Refs) /\ \A i \in DOMAIN r.page.refs : r.page.refs[i] \in Originals
      BY <2>1 DEF PageFor, Pages, InSeq, Listed
    <3>2. r.page.refs \in [1 .. Len(r.page.refs) -> Originals] /\ Len(r.page.refs) \in Nat
      BY <3>1, LenProperties
    <3> QED BY <3>2, SeqDef
  <2>3. Rendered(r) = [site EXCEPT !.krs = r.of, !.n = r.page.n, !.size = r.page.size, !.rows = r.page.refs,
                         !.open = Null, !.refs = <<>>]
    BY <1>1 DEF Rendered
  <2>4. r.page.n \in Nat /\ r.page.size \in Sizes
    BY <2>1 DEF Pages
  <2>5. site.krs \in Entities \cup {Null} /\ Null \in Originals \cup {Null} /\ <<>> \in Seq(Refs)
    BY DEF Sites
  <2> DEFINE k == r.of  n == r.page.n  z == r.page.size  w == r.page.refs
  <2> HIDE DEF k, n, z, w
  <2>6. Rendered(r) = [site EXCEPT !.krs = k, !.n = n, !.size = z, !.rows = w, !.open = Null, !.refs = <<>>]
    BY <2>3 DEF k, n, z, w
  <2>8. k \in Entities /\ n \in Nat /\ z \in Sizes /\ w \in Seq(Originals)
    BY <2>1, <2>2, <2>4 DEF k, n, z, w
  <2>9. Rendered(r) \in Sites /\ Rendered(r).krs = k
    <3> DEFINE s1 == [site EXCEPT !.krs = k]  s2 == [s1 EXCEPT !.n = n]  s3 == [s2 EXCEPT !.size = z]
               s4 == [s3 EXCEPT !.rows = w]  s5 == [s4 EXCEPT !.open = Null]  s6 == [s5 EXCEPT !.refs = <<>>]
    <3>0. Rendered(r) = s6
      BY <2>6
    <3>1. s1 \in Sites /\ s1.krs = k
      BY <2>8 DEF Sites
    <3> HIDE DEF s1
    <3>2. s2 \in Sites /\ s2.krs = k
      BY <3>1, <2>8 DEF Sites
    <3> HIDE DEF s2
    <3>3. s3 \in Sites /\ s3.krs = k
      BY <3>2, <2>8 DEF Sites
    <3> HIDE DEF s3
    <3>4. s4 \in Sites /\ s4.krs = k
      BY <3>3, <2>8 DEF Sites
    <3> HIDE DEF s4
    <3>5. s5 \in Sites /\ s5.krs = k
      BY <3>4, <2>5 DEF Sites
    <3> HIDE DEF s5
    <3>6. s6 \in Sites /\ s6.krs = k
      BY <3>5, <2>5 DEF Sites
    <3> QED BY <3>0, <3>6
  <2> QED BY <2>9, <1>1 DEF k
<1>2. CASE r.path = "corrections" /\ r.status = "ok"
  <2>1. r.of \in Originals /\ r.refs \in Seq(Refs)
    BY <1>2, ResponseFields
  <2>2. Rendered(r) = [site EXCEPT !.open = r.of, !.refs = r.refs]
    BY <1>2 DEF Rendered
  <2> QED BY <2>1, <2>2, <1>2 DEF Sites
<1>3. CASE ~ (r.path = "list" /\ r.status = "ok") /\ ~ (r.path = "corrections" /\ r.status = "ok")
  BY <1>3 DEF Rendered
<1> QED BY <1>1, <1>2, <1>3

----------------------------------------------------------------------------
\* Records after an update of several fields.

LEMMA ResetTyped ==
    ASSUME NEW b \in Browsers
    PROVE  LET v == ResetView(b) IN
           v \in Browsers /\ v.loaded = b.loaded /\ v.krs = Null /\ v.expanded = Null /\ v.refs = <<>>
<1> DEFINE b1 == [b EXCEPT !.krs = Null]  b2 == [b1 EXCEPT !.pages = <<>>]  b3 == [b2 EXCEPT !.number = 0]
           b4 == [b3 EXCEPT !.expanded = Null]  b5 == [b4 EXCEPT !.refs = <<>>]
<1>0. ResetView(b) = b5 /\ <<>> \in Seq(Refs) /\ <<>> \in Seq(Seq(Refs))
  BY DEF ResetView
<1>1. b1 \in Browsers /\ b1.loaded = b.loaded /\ b1.krs = Null
  BY DEF Browsers
<1> HIDE DEF b1
<1>2. b2 \in Browsers /\ b2.loaded = b.loaded /\ b2.krs = Null
  BY <1>0, <1>1 DEF Browsers
<1> HIDE DEF b2
<1>3. b3 \in Browsers /\ b3.loaded = b.loaded /\ b3.krs = Null
  BY <1>2 DEF Browsers
<1> HIDE DEF b3
<1>4. b4 \in Browsers /\ b4.loaded = b.loaded /\ b4.krs = Null /\ b4.expanded = Null
  BY <1>3 DEF Browsers
<1> HIDE DEF b4
<1>5. b5 \in Browsers /\ b5.loaded = b.loaded /\ b5.krs = Null /\ b5.expanded = Null /\ b5.refs = <<>>
  BY <1>0, <1>4 DEF Browsers
<1> QED BY <1>0, <1>5

Showing(b, k, ps, n) == [b EXCEPT !.krs = k, !.pages = ps, !.number = n]

LEMMA ListedTyped ==
    ASSUME NEW b \in Browsers, NEW k \in Entities, NEW ps \in Seq(Seq(Refs)), NEW n \in Nat
    PROVE  LET v == Showing(b, k, ps, n) IN
           /\ v \in Browsers /\ v.loaded = b.loaded /\ v.krs = k
           /\ v.expanded = b.expanded /\ v.refs = b.refs
<1> DEFINE b1 == [b EXCEPT !.krs = k]  b2 == [b1 EXCEPT !.pages = ps]  b3 == [b2 EXCEPT !.number = n]
<1>0. Showing(b, k, ps, n) = b3
  BY DEF Showing
<1>1. b1 \in Browsers /\ b1.loaded = b.loaded /\ b1.krs = k /\ b1.expanded = b.expanded /\ b1.refs = b.refs
  BY DEF Browsers
<1> HIDE DEF b1
<1>2. b2 \in Browsers /\ b2.loaded = b.loaded /\ b2.krs = k /\ b2.expanded = b.expanded /\ b2.refs = b.refs
  BY <1>1 DEF Browsers
<1> HIDE DEF b2
<1>3. b3 \in Browsers /\ b3.loaded = b.loaded /\ b3.krs = k /\ b3.expanded = b.expanded /\ b3.refs = b.refs
  BY <1>2 DEF Browsers
<1> QED BY <1>0, <1>3

WithRow(b, r, refs) == [b EXCEPT !.expanded = r, !.refs = refs]

LEMMA ExpandedTyped ==
    ASSUME NEW b \in Browsers, NEW r \in Refs, NEW refs \in Seq(Refs)
    PROVE  LET v == WithRow(b, r, refs) IN
           v \in Browsers /\ v.loaded = b.loaded /\ v.krs = b.krs /\ v.expanded = r /\ v.refs = refs
<1> DEFINE b1 == [b EXCEPT !.expanded = r]  b2 == [b1 EXCEPT !.refs = refs]
<1>0. WithRow(b, r, refs) = b2
  BY DEF WithRow
<1>1. b1 \in Browsers /\ b1.loaded = b.loaded /\ b1.krs = b.krs /\ b1.expanded = r
  BY DEF Browsers
<1> HIDE DEF b1
<1>2. b2 \in Browsers /\ b2.loaded = b.loaded /\ b2.krs = b.krs /\ b2.expanded = r /\ b2.refs = refs
  BY <1>1 DEF Browsers
<1> QED BY <1>0, <1>2

LEMMA ClosedTyped ==
    ASSUME NEW s \in Sites
    PROVE  LET v == [s EXCEPT !.open = Null, !.refs = <<>>] IN v \in Sites /\ v.krs = s.krs
<1> DEFINE s1 == [s EXCEPT !.open = Null]  s2 == [s1 EXCEPT !.refs = <<>>]
<1>0. [s EXCEPT !.open = Null, !.refs = <<>>] = s2 /\ <<>> \in Seq(Refs)
  OBVIOUS
<1>1. s1 \in Sites /\ s1.krs = s.krs
  BY DEF Sites
<1> HIDE DEF s1
<1>2. s2 \in Sites /\ s2.krs = s.krs
  BY <1>0, <1>1 DEF Sites
<1> QED BY <1>0, <1>2

LEMMA CollapsedTyped ==
    ASSUME NEW b, NEW s \in Sites
    PROVE  Collapsed(b, s) \in Sites /\ Collapsed(b, s).krs = s.krs
<1> DEFINE v == [s EXCEPT !.open = Null, !.refs = <<>>]
<1>1. v \in Sites /\ v.krs = s.krs BY ClosedTyped
<1> QED BY <1>1 DEF Collapsed

LEMMA SearchedTyped ==
    ASSUME NEW s \in Sites, NEW k \in Entities
    PROVE  LET v == [s EXCEPT !.krs = k, !.n = 0, !.rows = <<>>, !.open = Null, !.refs = <<>>] IN
           v \in Sites /\ v.krs = k
<1> DEFINE s1 == [s EXCEPT !.krs = k]  s2 == [s1 EXCEPT !.n = 0]  s3 == [s2 EXCEPT !.rows = <<>>]
           s4 == [s3 EXCEPT !.open = Null]  s5 == [s4 EXCEPT !.refs = <<>>]
<1>0. /\ [s EXCEPT !.krs = k, !.n = 0, !.rows = <<>>, !.open = Null, !.refs = <<>>] = s5
      /\ <<>> \in Seq(Refs) /\ <<>> \in Seq(Originals)
  OBVIOUS
<1>1. s1 \in Sites /\ s1.krs = k
  BY DEF Sites
<1> HIDE DEF s1
<1>2. s2 \in Sites /\ s2.krs = k
  BY <1>1 DEF Sites
<1> HIDE DEF s2
<1>3. s3 \in Sites /\ s3.krs = k
  BY <1>0, <1>2 DEF Sites
<1> HIDE DEF s3
<1>4. s4 \in Sites /\ s4.krs = k
  BY <1>3 DEF Sites
<1> HIDE DEF s4
<1>5. s5 \in Sites /\ s5.krs = k
  BY <1>0, <1>4 DEF Sites
<1> QED BY <1>0, <1>5

----------------------------------------------------------------------------
\* The ways a step of a call can end.

PageInv ==
    /\ PageTypes /\ OneRequest /\ OfThisCall /\ Beliefs /\ CallStands /\ AnswerOK
    /\ TokensCover /\ PaidBeforeClick

\* Nothing is in flight that a new wait could take for its answer.
Quiet == br.loaded => \A i \in DOMAIN flight : IsDetail(flight[i])

LEMMA QuietBefore ==
    ASSUME OneRequest, at \in {"idle", "enter", "row"}
    PROVE  Quiet
BY DEF OneRequest, Quiet, Chain

LEMMA QuietAfter ==
    ASSUME OfThisCall, at \in Waiting, NEW j \in DOMAIN log, ~ IsDetail(log[j]),
           \A i \in DOMAIN flight : ~ Follows(flight[i], log[j])
    PROVE  Quiet
BY DEF OfThisCall, Quiet

LEMMA SumCovers ==
    ASSUME PageInv
    PROVE  /\ pay \in Pays /\ pay.credit + pay.unpaid >= DueAt(at) /\ DueAt(at) \in {0, 1, 2}
           /\ pay.credit + pay.unpaid >= 0
BY DEF PageInv, PageTypes, TokensCover, DueAt, Pays

LEMMA ErrorReply ==
    ASSUME PageInv, Quiet, at # "idle",
           NEW e \in {"transient", "permanent", "waf", "blocked"}, Permanent(e)
    PROVE  PageInv'
<1> USE DEF PageInv
<1>1. PageTypes'
  BY DEF PageTypes, Permanent, Reply
<1>2. OneRequest' /\ OfThisCall'
  BY DEF OneRequest, OfThisCall, Quiet, Permanent, Reply, Waiting
<1>3. Beliefs'
  BY DEF Beliefs, Permanent, Reply, RowWaits, ListWaits
<1>4. CallStands'
  BY DEF CallStands, Permanent, Reply, NoAnswer
<1>5. AnswerOK'
  BY DEF AnswerOK, Permanent, Reply, Errors
<1>6. TokensCover' /\ PaidBeforeClick'
  BY SumCovers DEF TokensCover, PaidBeforeClick, DueAt, Permanent, Reply, Waiting
<1> QED BY <1>1, <1>2, <1>3, <1>4, <1>5, <1>6

LEMMA RetryReply ==
    ASSUME PageInv, at # "idle", Transient, pay' = pay, site' \in Sites, flight' \in Seq(Requests)
    PROVE  PageInv'
<1> USE DEF PageInv
<1>1. br' \in Browsers /\ ~ br'.loaded /\ br'.krs = br.krs /\ br'.expanded = br.expanded /\ br'.refs = br.refs
  BY DEF PageTypes, Browsers, Transient
<1>2. /\ log' = <<>> /\ acc' = <<>> /\ call' = call
      /\ \/ at' = "enter" /\ answer' = answer
         \/ at' = "idle" /\ answer' = [kind |-> "error", error |-> "transient"]
  BY DEF Transient
<1>3. PageTypes'
  BY <1>1, <1>2 DEF PageTypes
<1>4. OneRequest' /\ OfThisCall'
  BY <1>1 DEF OneRequest, OfThisCall
<1>5. Beliefs'
  BY <1>1, <1>2 DEF Beliefs, RowWaits, ListWaits
<1>6. CallStands'
  BY <1>2 DEF CallStands, NoAnswer
<1>7. AnswerOK'
  BY <1>2 DEF AnswerOK, CallStands, Errors
<1>8. TokensCover' /\ PaidBeforeClick'
  BY <1>2, SumCovers DEF TokensCover, PaidBeforeClick, DueAt, Waiting
<1> QED BY <1>3, <1>4, <1>5, <1>6, <1>7, <1>8

LEMMA ClickStep ==
    ASSUME PageInv, Quiet, br.loaded, at # "idle", call' = call, answer' = answer,
           NEW q \in Requests, NEW next \in Waiting \ {"list", "details", "saved"},
           q.path \in Chain(next), next \in ListWaits \cup RowWaits => q.of = call.krs,
           NEW p \in Pays, p.credit + p.unpaid >= 0,
           pay' = Send(PaidForClick(p, DueAt(next)), 1),
           flight' = Append(flight, q), log' = <<>>, at' = next,
           site' \in Sites, acc' \in Seq(Pages), br' \in Browsers, br'.loaded, Beliefs'
    PROVE  PageInv'
<1> USE DEF PageInv
<1>1. DueAt(next) \in {1, 2}
  BY DEF DueAt
<1>2. pay' \in Pays /\ pay'.credit >= 0 /\ pay'.credit + pay'.unpaid >= DueAt(next)
  BY <1>1, ClickPays
<1>3. /\ flight' \in Seq(Requests) /\ DOMAIN flight = 1 .. Len(flight) /\ Len(flight) \in Nat
      /\ DOMAIN flight' = 1 .. Len(flight) + 1 /\ flight'[Len(flight) + 1] = q
      /\ \A i \in 1 .. Len(flight) : flight'[i] = flight[i]
  <2>1. flight \in Seq(Requests)
    BY DEF PageTypes
  <2> QED BY <2>1
<1>4. PageTypes'
  BY <1>2, <1>3 DEF PageTypes
<1>5. \A i \in DOMAIN flight' : IsDetail(flight'[i]) \/ i = Len(flight) + 1
  BY <1>3 DEF Quiet, IsDetail
<1>6. OneRequest'
  <2>1. \A i, j \in DOMAIN flight' : ~ IsDetail(flight'[i]) /\ ~ IsDetail(flight'[j]) => i = j
    BY <1>5
  <2>2. \A i \in DOMAIN flight' : IsDetail(flight'[i]) \/ flight'[i].path \in Chain(next)
    BY <1>3, <1>5
  <2> QED BY <2>1, <2>2 DEF OneRequest, IsDetail
<1>7. OfThisCall'
  <2>1. next \in ListWaits \cup RowWaits =>
           \A i \in DOMAIN flight' : IsDetail(flight'[i]) \/ flight'[i].of = call'.krs
    BY <1>3, <1>5
  <2> QED BY <2>1 DEF OfThisCall, IsDetail
<1>8. CallStands'
  BY DEF CallStands, Waiting
<1>9. AnswerOK'
  BY DEF AnswerOK, CallStands
<1>10. TokensCover' /\ PaidBeforeClick'
  BY <1>2 DEF TokensCover, PaidBeforeClick
<1> QED BY <1>4, <1>6, <1>7, <1>8, <1>9, <1>10

LEMMA AnswerReply ==
    ASSUME PageInv, Quiet, at # "idle", NEW a, a.kind # "none", Reply(a), AnswerOK',
           site' = site, flight' = flight, br' \in Browsers, br'.loaded = br.loaded, Beliefs',
           pay' \in Pays, pay'.credit + pay'.unpaid >= 0
    PROVE  PageInv'
<1> USE DEF PageInv
<1>1. PageTypes'
  BY DEF PageTypes, Reply
<1>2. OneRequest' /\ OfThisCall'
  BY DEF OneRequest, OfThisCall, Quiet, Reply, Waiting, IsDetail
<1>3. CallStands'
  BY DEF CallStands, Reply, NoAnswer
<1>4. TokensCover' /\ PaidBeforeClick'
  BY DEF TokensCover, PaidBeforeClick, DueAt, Reply, Waiting
<1> QED BY <1>1, <1>2, <1>3, <1>4

LEMMA BadReply ==
    ASSUME PageInv, at # "idle", NEW r, BadStatus(r), r.status = "4xx" => Quiet
    PROVE  PageInv'
<1>1. CASE r.status = "5xx" /\ Transient /\ UNCHANGED <<site, flight, pay, faults>>
  BY <1>1, RetryReply DEF PageInv, PageTypes
<1>2. CASE r.status = "4xx" /\ Permanent("permanent")
  BY <1>2, ErrorReply
<1> QED BY <1>1, <1>2 DEF BadStatus

LEMMA CallFields ==
    ASSUME CallStands, at # "idle"
    PROVE  /\ call \in Calls /\ call.op \in Ops /\ call.krs \in Entities /\ answer = NoAnswer
           /\ call.op \in Opens => call.ref \in Refs /\ call.krs = Owner[call.ref]
<1>1. call \in Calls /\ answer = NoAnswer
  BY DEF CallStands
<1>2. CASE \E k \in Entities : call = [op |-> "open_filing_list", krs |-> k, ref |-> Null]
  BY <1>1, <1>2 DEF Ops, Opens
<1>3. CASE \E o \in Ops \ {"open_filing_list"}, r \in Refs : call = [op |-> o, krs |-> Owner[r], ref |-> r]
  BY <1>1, <1>3, SourceAssumption DEF Ops, Opens
<1> QED BY <1>1, <1>2, <1>3 DEF Calls

----------------------------------------------------------------------------
\* The steps of a call.

LEMMA EnterStep ==
    ASSUME PageInv, NEW status \in Statuses, Enter(status)
    PROVE  PageInv'
<1>1. BlankSite \in Sites
  BY BrowserAssumption DEF BlankSite, Sites, Sizes
<1>2. at = "enter" /\ ~ br.loaded /\ site' = BlankSite /\ flight' = <<>> /\ pay' = pay
  BY DEF Enter
<1>3. CASE /\ br' = [ResetView(br) EXCEPT !.loaded = TRUE]
           /\ UNCHANGED <<call, answer, rdf, log, at, attempt, acc>>
  <2>1. br' \in Browsers /\ br'.krs = Null /\ br'.expanded = Null
    <3> DEFINE v == ResetView(br)
    <3>1. v \in Browsers /\ v.krs = Null /\ v.expanded = Null
      BY ResetTyped DEF PageInv, PageTypes
    <3>2. br' = [v EXCEPT !.loaded = TRUE]
      BY <1>3
    <3> HIDE DEF v
    <3> QED BY <3>1, <3>2 DEF Browsers
  <2>2. PageTypes'
    BY <1>1, <1>2, <1>3, <2>1 DEF PageInv, PageTypes
  <2>3. OneRequest' /\ OfThisCall'
    BY <1>2, <1>3 DEF OneRequest, OfThisCall, Waiting
  <2>4. Beliefs'
    BY <1>2, <1>3, <2>1 DEF PageInv, Beliefs, ListWaits, RowWaits
  <2>5. CallStands' /\ AnswerOK'
    BY <1>3 DEF PageInv, CallStands, AnswerOK, Right
  <2>6. TokensCover' /\ PaidBeforeClick'
    BY <1>2, <1>3 DEF PageInv, TokensCover, PaidBeforeClick
  <2> QED BY <2>2, <2>3, <2>4, <2>5, <2>6 DEF PageInv
<1>4. CASE Transient
  BY <1>1, <1>2, <1>4, RetryReply
<1>5. CASE /\ answer' = [kind |-> "error", error |-> IF status = "waf" THEN "blocked" ELSE "permanent"]
           /\ at' = "idle" /\ acc' = <<>> /\ log' = <<>>
           /\ UNCHANGED <<call, rdf, br, attempt>>
  <2>1. PageTypes'
    BY <1>1, <1>2, <1>5 DEF PageInv, PageTypes
  <2>2. OneRequest' /\ OfThisCall'
    BY <1>2, <1>5 DEF OneRequest, OfThisCall
  <2>3. Beliefs'
    BY <1>2, <1>5 DEF PageInv, Beliefs, ListWaits, RowWaits
  <2>4. CallStands' /\ AnswerOK'
    BY <1>2, <1>5 DEF PageInv, CallStands, AnswerOK, Errors, NoAnswer
  <2>5. TokensCover' /\ PaidBeforeClick'
    BY <1>2, <1>5 DEF PageInv, TokensCover, PaidBeforeClick, DueAt, Waiting
  <2> QED BY <2>1, <2>2, <2>3, <2>4, <2>5 DEF PageInv
<1> QED BY <1>3, <1>4, <1>5 DEF Enter

LEMMA SearchStep ==
    ASSUME PageInv, Search
    PROVE  PageInv'
<1> DEFINE q == [path |-> "entity", of |-> call.krs]
           s == [site EXCEPT !.krs = call.krs, !.n = 0, !.rows = <<>>, !.open = Null, !.refs = <<>>]
<1>1. at = "enter" /\ br.loaded /\ call.krs \in Entities /\ Quiet
  BY CallFields, QuietBefore DEF Search, PageInv
<1>2. q \in Requests /\ q.path = "entity" /\ q.of = call.krs
  BY <1>1 DEF Requests
<1>3. s \in Sites /\ s.krs = call.krs
  BY <1>1, SearchedTyped DEF PageInv, PageTypes
<1>4. /\ br' = ResetView(br) /\ br' \in Browsers /\ br'.loaded /\ br'.krs = Null /\ br'.expanded = Null
  BY <1>1, ResetTyped DEF Search, PageInv, PageTypes
<1>5. /\ pay' = Send(PaidForClick(pay, 2), 1) /\ site' = s /\ flight' = Append(flight, q)
      /\ log' = <<>> /\ at' = "entity" /\ acc' = <<>> /\ call' = call /\ answer' = answer
  BY DEF Search, Click
<1> HIDE DEF q, s
<1>6. Beliefs'
  BY <1>3, <1>4, <1>5 DEF Beliefs, ListWaits, RowWaits
<1>7. DueAt("entity") = 2 /\ "entity" \in Waiting /\ "entity" \in Chain("entity")
  BY DEF DueAt, Waiting, Chain
<1>8. acc' \in Seq(Pages)
  BY <1>5
<1> QED BY <1>1, <1>2, <1>3, <1>4, <1>5, <1>6, <1>7, <1>8, SumCovers, ClickStep

LEMMA EntityAnswerStep ==
    ASSUME PageInv, EntityAnswer
    PROVE  PageInv'
<1> DEFINE r == First("entity", Null)
<1>1. at = "entity" /\ Logged("entity", Null) # {}
  BY DEF EntityAnswer, Await
<1>2. PICK j \in DOMAIN log : j \in Logged("entity", Null) /\ r = log[j]
  BY <1>1, FirstIsLogged DEF PageInv, PageTypes
<1>3. r.path = "entity" /\ r \in Responses
  BY <1>2 DEF Logged, PageInv, PageTypes
<1> HIDE DEF r
<1>4. at \in Waiting /\ ~ IsDetail(log[j]) /\ br.loaded
  BY <1>1, <1>2, <1>3 DEF Waiting, IsDetail, PageInv, Beliefs
<1>5. ~ (r.status = "ok" /\ r.found) => Quiet
  <2>1. SUFFICES ASSUME ~ (r.status = "ok" /\ r.found) PROVE Quiet
    OBVIOUS
  <2>2. \A i \in DOMAIN flight : ~ Follows(flight[i], log[j])
    BY <1>2, <1>3, <2>1 DEF Follows
  <2> QED BY <1>4, <2>2, QuietAfter DEF PageInv
<1>6. CASE BadStatus(r)
  BY <1>1, <1>5, <1>6, BadReply
<1>7. CASE r.status = "waf" /\ Permanent("blocked")
  BY <1>1, <1>5, <1>7, ErrorReply
<1>8. CASE /\ r.status = "ok" /\ r.found
           /\ at' = "list"
           /\ UNCHANGED <<call, answer, rdf, site, flight, log, pay, br, attempt, acc, faults>>
  <2>1. PageTypes'
    BY <1>8 DEF PageInv, PageTypes, Waiting
  <2>2. OneRequest'
    BY <1>1, <1>8 DEF PageInv, OneRequest, Chain
  <2>3. OfThisCall'
    BY <1>1, <1>2, <1>3, <1>4, <1>8 DEF PageInv, OfThisCall, Chain, ListWaits, RowWaits
  <2>4. Beliefs'
    BY <1>1, <1>4, <1>8 DEF PageInv, Beliefs, ListWaits, RowWaits
  <2>5. CallStands' /\ AnswerOK'
    BY <1>1, <1>8 DEF PageInv, CallStands, AnswerOK, Right
  <2>6. TokensCover' /\ PaidBeforeClick'
    BY <1>1, <1>2, <1>8 DEF PageInv, PageTypes, TokensCover, PaidBeforeClick, DueAt
  <2> QED BY <2>1, <2>2, <2>3, <2>4, <2>5, <2>6 DEF PageInv
<1>9. CASE /\ r.status = "ok" /\ ~ r.found
           /\ pay' = Finished(pay, 2)
           /\ Reply(IF call.op = "open_filing_list" THEN [kind |-> "listing", found |-> FALSE, pages |-> <<>>]
                    ELSE [kind |-> "error", error |-> "permanent"])
           /\ UNCHANGED <<site, flight, br>>
  <2> DEFINE a == IF call.op = "open_filing_list" THEN [kind |-> "listing", found |-> FALSE, pages |-> <<>>]
                  ELSE [kind |-> "error", error |-> "permanent"]
  <2>1. a.kind # "none" /\ answer' = a /\ call' = call /\ acc' = <<>> /\ at' = "idle"
    BY <1>9 DEF Reply
  <2>2. AnswerOK'
    <3>1. CASE call.op = "open_filing_list"
      <4>1. answer'.kind = "listing" /\ answer'.pages = <<>> /\ call'.op = "open_filing_list"
        BY <2>1, <3>1
      <4>2. DOMAIN answer'.pages = {}
        BY <4>1
      <4>3. Right(call', answer')
        BY <4>1, <4>2 DEF Right, IsListing
      <4> QED BY <4>1, <4>2, <4>3 DEF AnswerOK
    <3>2. CASE call.op # "open_filing_list"
      BY <2>1, <3>2 DEF AnswerOK, Errors
    <3> QED BY <3>1, <3>2
  <2>3. Beliefs'
    BY <1>1, <1>9, <2>1 DEF PageInv, Beliefs, ListWaits, RowWaits
  <2>4. pay' \in Pays /\ pay'.credit + pay'.unpaid >= 0
    BY <1>1, <1>9, SumCovers, FinishedCovers DEF DueAt
  <2>5. Reply(a) /\ site' = site /\ flight' = flight /\ br' = br /\ Quiet
    BY <1>5, <1>9
  <2> HIDE DEF a
  <2> QED BY <1>1, <2>1, <2>2, <2>3, <2>4, <2>5, AnswerReply DEF PageInv, PageTypes
<1> QED BY <1>6, <1>7, <1>8, <1>9 DEF EntityAnswer, r

\* The whole list is in hand.
LEMMA ListCompleteStep ==
    ASSUME PageInv, Quiet, br.loaded, at \in ListWaits \ {"entity"}, NEW pages \in Seq(Pages), pages # <<>>,
           \A i \in DOMAIN pages : PageFor(call.krs, pages[i]),
           ListComplete(pages), pay' \in Pays, pay'.credit + pay'.unpaid >= 0
    PROVE  PageInv'
<1> DEFINE ps == [i \in DOMAIN pages |-> pages[i].refs]  n == pages[Len(pages)].n
           b == [br EXCEPT !.krs = call.krs, !.pages = ps, !.number = n]
<1>1. /\ at # "idle" /\ call.krs \in Entities /\ call.op \in Ops /\ answer = NoAnswer /\ site.krs = call.krs
      /\ call.krs # Null
  BY CallFields, SourceAssumption DEF ListWaits, PageInv, Beliefs
<1>2. /\ Len(pages) \in Nat \ {0} /\ DOMAIN pages = 1 .. Len(pages)
      /\ \A i \in 1 .. Len(pages) : pages[i] \in Pages
  BY LenProperties, ElementOfSeq, EmptySeq
<1>3. ps \in Seq(Seq(Refs)) /\ n \in Nat
  <2>1. ps \in [1 .. Len(pages) -> Seq(Refs)]
    BY <1>2 DEF Pages
  <2>2. ps \in Seq(Seq(Refs))
    BY <1>2, <2>1, SeqDef
  <2>3. n \in Nat
    <3>1. Len(pages) \in 1 .. Len(pages)
      BY <1>2
    <3>2. pages[Len(pages)] \in Pages
      BY <1>2, <3>1
    <3> QED BY <3>2 DEF Pages
  <2> QED BY <2>2, <2>3
<1>4. br' = b
  BY DEF ListComplete
<1> HIDE DEF b
<1> HIDE DEF ps, n
<1>5. b \in Browsers /\ b.loaded = br.loaded /\ b.krs = call.krs /\ b.expanded = br.expanded /\ b.refs = br.refs
  <2>1. br \in Browsers
    BY DEF PageInv, PageTypes
  <2>2. b = Showing(br, call.krs, ps, n)
    BY DEF Showing, b
  <2>3. \A k \in Entities : Showing(br, k, ps, n) \in Browsers
    BY <1>3, <2>1, ListedTyped
  <2>4. \A k \in Entities : Showing(br, k, ps, n).loaded = br.loaded
    BY <1>3, <2>1, ListedTyped
  <2>5. \A k \in Entities : Showing(br, k, ps, n).krs = k
    BY <1>3, <2>1, ListedTyped
  <2>6. \A k \in Entities : Showing(br, k, ps, n).expanded = br.expanded
    BY <1>3, <2>1, ListedTyped
  <2>7. \A k \in Entities : Showing(br, k, ps, n).refs = br.refs
    BY <1>3, <2>1, ListedTyped
  <2> QED BY <1>1, <2>3, <2>4, <2>5, <2>6, <2>7, <2>2
<1>6. CASE call.op = "open_filing_list" /\ Reply([kind |-> "listing", found |-> TRUE, pages |-> pages])
  <2> DEFINE a == [kind |-> "listing", found |-> TRUE, pages |-> pages]
  <2>1. a.kind = "listing" /\ a.pages = pages /\ answer' = a /\ call' = call /\ at' = "idle" /\ acc' = <<>>
    BY <1>6 DEF Reply
  <2> HIDE DEF a
  <2>2. \A i \in DOMAIN pages : InSeq(pages[i].refs) \subseteq Listed(call.krs)
    BY DEF PageFor
  <2>3. Right(call, a)
    BY <1>6, <2>1, <2>2 DEF Right, IsListing, Listed
  <2>4. \A i \in DOMAIN pages : InSeq(pages[i].refs) \subseteq Originals
    BY <2>2 DEF Listed
  <2>5. AnswerOK'
    BY <1>6, <2>1, <2>3, <2>4 DEF AnswerOK
  <2>6. site' = site /\ flight' = flight
    BY DEF ListComplete
  <2>7. Beliefs'
    BY <1>1, <1>4, <1>5, <2>1, <2>6 DEF PageInv, Beliefs, ListWaits, RowWaits
  <2> QED BY <1>1, <1>4, <1>5, <1>6, <2>1, <2>5, <2>6, <2>7, AnswerReply DEF a
<1>7. CASE /\ call.op # "open_filing_list"
           /\ at' = "row" /\ acc' = <<>> /\ log' = <<>>
           /\ UNCHANGED <<call, answer, rdf, attempt, faults>>
  <2>1. site' = site /\ flight' = flight /\ call.op \in Opens
    BY <1>1, <1>7 DEF ListComplete, Ops, Opens
  <2>2. PageTypes'
    BY <1>4, <1>5, <1>7, <2>1 DEF PageInv, PageTypes
  <2>3. OneRequest' /\ OfThisCall'
    BY <1>7, <2>1 DEF OneRequest, OfThisCall, Waiting, Quiet, IsDetail
  <2>4. Beliefs'
    BY <1>1, <1>4, <1>5, <1>7, <2>1 DEF PageInv, Beliefs, ListWaits, RowWaits
  <2>5. CallStands' /\ AnswerOK'
    BY <1>1, <1>7 DEF PageInv, CallStands, AnswerOK
  <2>6. TokensCover' /\ PaidBeforeClick'
    BY <1>7 DEF TokensCover, PaidBeforeClick, DueAt, Waiting
  <2> QED BY <2>2, <2>3, <2>4, <2>5, <2>6 DEF PageInv
<1> QED BY <1>6, <1>7 DEF ListComplete

LEMMA WalkOnStep ==
    ASSUME PageInv, Quiet, br.loaded, at \in ListWaits \ {"entity"}, NEW pages \in Seq(Pages), pages # <<>>,
           \A i \in DOMAIN pages : PageFor(call.krs, pages[i]), WalkOn(pages, DueAt(at))
    PROVE  PageInv'
<1>1. /\ at # "idle" /\ call.krs \in Entities /\ site.krs = call.krs /\ br.krs = Null
      /\ DueAt(at) \in {1, 2}
  BY CallFields DEF ListWaits, PageInv, Beliefs, DueAt, Waiting
<1> DEFINE p == Finished(pay, DueAt(at))
<1>2. p \in Pays /\ p.credit + p.unpaid >= 0
  BY <1>1, SumCovers, FinishedCovers
<1> DEFINE q == [path |-> "list", of |-> site.krs, n |-> site.n + 1, size |-> site.size]
<1>3. q \in Requests /\ q.path = "list" /\ q.of = call.krs
  BY <1>1 DEF Requests, PageInv, PageTypes, Sites
<1> HIDE DEF p, q
<1>4. CASE /\ acc' = pages
           /\ pay' = Send(PaidForClick(p, 1), 1)
           /\ flight' = Append(flight, q)
           /\ log' = <<>> /\ at' = "next"
           /\ UNCHANGED <<call, answer, rdf, site, br, attempt, faults>>
  <2>1. Beliefs'
    BY <1>1, <1>4 DEF PageInv, Beliefs, ListWaits, RowWaits
  <2>2. DueAt("next") = 1 /\ "next" \in Waiting /\ "list" \in Chain("next")
    BY DEF DueAt, Waiting, Chain
  <2> QED BY <1>1, <1>2, <1>3, <1>4, <2>1, <2>2, ClickStep DEF PageInv, PageTypes
<1>5. CASE pay' = p /\ ListComplete(pages)
  BY <1>2, <1>5, ListCompleteStep
<1> QED BY <1>4, <1>5 DEF WalkOn, p, q

LEMMA ListAnswerStep ==
    ASSUME PageInv, ListAnswer
    PROVE  PageInv'
<1> DEFINE r == First("list", Null)
<1>1. at = "list" /\ Logged("list", Null) # {}
  BY DEF ListAnswer, Await
<1>2. PICK j \in DOMAIN log : j \in Logged("list", Null) /\ r = log[j]
  BY <1>1, FirstIsLogged DEF PageInv, PageTypes
<1>3. r.path = "list" /\ r \in Responses
  BY <1>2 DEF Logged, PageInv, PageTypes
<1> HIDE DEF r
<1>4. at \in Waiting /\ ~ IsDetail(log[j]) /\ br.loaded /\ at \in ListWaits \ {"entity"} /\ at # "idle"
  BY <1>1, <1>2, <1>3 DEF Waiting, IsDetail, PageInv, Beliefs, ListWaits
<1>5. Quiet
  <2>2. \A i \in DOMAIN flight : ~ Follows(flight[i], log[j])
    BY <1>2, <1>3 DEF Follows
  <2> QED BY <1>4, <2>2, QuietAfter DEF PageInv
<1>6. r.of = call.krs /\ PageFor(call.krs, r.page) /\ r.page \in Pages
  BY <1>2, <1>3, <1>4, ResponseFields DEF PageInv, OfThisCall
<1>7. CASE BadStatus(r)
  BY <1>4, <1>5, <1>7, BadReply
<1>8. CASE r.status = "waf" /\ Permanent("blocked")
  BY <1>4, <1>5, <1>8, ErrorReply
<1>9. CASE /\ pay' = Send(PaidForClick(Finished(pay, 2), 1), 1)
           /\ flight' = Append(flight, [path |-> "list", of |-> site.krs, n |-> 0, size |-> LargePage])
           /\ log' = <<>> /\ at' = "resized"
           /\ UNCHANGED <<call, answer, rdf, site, br, attempt, acc, faults>>
  <2> DEFINE q == [path |-> "list", of |-> site.krs, n |-> 0, size |-> LargePage]  p == Finished(pay, 2)
  <2>1. p \in Pays /\ p.credit + p.unpaid >= 0
    BY <1>1, SumCovers, FinishedCovers DEF DueAt
  <2>2. site.krs = call.krs /\ call.krs \in Entities
    BY <1>4, CallFields DEF PageInv, Beliefs
  <2>3. q \in Requests /\ q.path = "list" /\ q.of = call.krs
    BY <2>2 DEF Requests, Sizes
  <2> HIDE DEF q, p
  <2>4. Beliefs'
    BY <1>4, <1>9, <2>2 DEF PageInv, Beliefs, ListWaits, RowWaits
  <2>5. DueAt("resized") = 1 /\ "resized" \in Waiting /\ "list" \in Chain("resized")
    BY DEF DueAt, Waiting, Chain
  <2>6. pay' = Send(PaidForClick(p, 1), 1) /\ flight' = Append(flight, q)
    BY <1>9 DEF p, q
  <2> QED BY <1>4, <1>5, <1>9, <2>1, <2>3, <2>4, <2>5, <2>6, ClickStep DEF PageInv, PageTypes
<1>10. CASE WalkOn(<<r.page>>, 2)
  <2>1. <<r.page>> \in Seq(Pages) /\ <<r.page>> # <<>> /\ \A i \in DOMAIN <<r.page>> : PageFor(call.krs, <<r.page>>[i])
    BY <1>6
  <2>2. DueAt(at) = 2
    BY <1>1 DEF DueAt
  <2> QED BY <1>4, <1>5, <1>10, <2>1, <2>2, WalkOnStep
<1> QED BY <1>7, <1>8, <1>9, <1>10 DEF ListAnswer, r

LEMMA PageAnswerStep ==
    ASSUME PageInv, PageAnswer
    PROVE  PageInv'
<1> DEFINE r == First("list", Null)
<1>1. at \in {"resized", "next"} /\ Logged("list", Null) # {}
  BY DEF PageAnswer
<1>2. PICK j \in DOMAIN log : j \in Logged("list", Null) /\ r = log[j]
  BY <1>1, FirstIsLogged DEF PageInv, PageTypes
<1>3. r.path = "list" /\ r \in Responses
  BY <1>2 DEF Logged, PageInv, PageTypes
<1> HIDE DEF r
<1>4. at \in Waiting /\ ~ IsDetail(log[j]) /\ br.loaded /\ at \in ListWaits \ {"entity"} /\ at # "idle"
  BY <1>1, <1>2, <1>3 DEF Waiting, IsDetail, PageInv, Beliefs, ListWaits
<1>5. Quiet
  <2>2. \A i \in DOMAIN flight : ~ Follows(flight[i], log[j])
    BY <1>2, <1>3 DEF Follows
  <2> QED BY <1>4, <2>2, QuietAfter DEF PageInv
<1>6. r.of = call.krs /\ PageFor(call.krs, r.page) /\ r.page \in Pages
  BY <1>2, <1>3, <1>4, ResponseFields DEF PageInv, OfThisCall
<1>7. CASE BadStatus(r)
  BY <1>4, <1>5, <1>7, BadReply
<1>8. CASE r.status = "waf" /\ Permanent("blocked")
  BY <1>4, <1>5, <1>8, ErrorReply
<1>9. CASE WalkOn(Append(acc, r.page), 1)
  <2>1. acc \in Seq(Pages) /\ \A i \in DOMAIN acc : PageFor(call.krs, acc[i])
    BY DEF PageInv, PageTypes, Beliefs
  <2> DEFINE pages == Append(acc, r.page)
  <2>2. /\ pages \in Seq(Pages) /\ Len(acc) \in Nat /\ DOMAIN acc = 1 .. Len(acc)
        /\ DOMAIN pages = 1 .. Len(acc) + 1 /\ pages[Len(acc) + 1] = r.page
        /\ \A i \in 1 .. Len(acc) : pages[i] = acc[i]
    BY <1>6, <2>1
  <2> HIDE DEF pages
  <2>3. pages # <<>> /\ \A i \in DOMAIN pages : PageFor(call.krs, pages[i])
    <3>1. \A i \in DOMAIN pages : i \in DOMAIN acc \/ i = Len(acc) + 1
      BY <2>2
    <3>2. \A i \in DOMAIN pages : PageFor(call.krs, pages[i])
      BY <1>6, <2>1, <2>2, <3>1
    <3>3. 1 \in DOMAIN pages
      BY <2>2
    <3> QED BY <3>2, <3>3
  <2>4. DueAt(at) = 1
    BY <1>1 DEF DueAt, Waiting
  <2> QED BY <1>4, <1>5, <1>9, <2>2, <2>3, <2>4, WalkOnStep DEF pages
<1> QED BY <1>7, <1>8, <1>9 DEF PageAnswer, r

LEMMA ExpandStep ==
    ASSUME PageInv, Quiet, br.loaded, at # "idle", call.op \in Opens, site.krs = call.krs,
           NEW b \in Browsers, b.loaded, b.krs = call.krs, b.refs = br.refs,
           NEW p \in Pays, p.credit + p.unpaid >= 0, NEW row, ExpandAt(b, site, p, row)
    PROVE  PageInv'
<1>1. CASE /\ row \in DOMAIN site.rows
           /\ br' = [b EXCEPT !.expanded = Null]
           /\ pay' = Send(PaidForClick(p, 2), 1)
           /\ site' = Collapsed(b, site)
           /\ flight' = Append(flight, [path |-> "corrections", of |-> site.rows[row]])
           /\ log' = <<>> /\ at' = "corrections" /\ acc' = <<>>
           /\ UNCHANGED <<call, answer, rdf, attempt, faults>>
  <2> DEFINE q == [path |-> "corrections", of |-> site.rows[row]]
  <2>1. site \in Sites /\ site.rows \in Seq(Originals)
    BY DEF PageInv, PageTypes, Sites
  <2>2. q \in Requests /\ q.path = "corrections"
    <3>1. site.rows[row] \in Originals
      BY <1>1, <2>1, ElementOfSeq, LenProperties
    <3> QED BY <3>1 DEF Requests
  <2>3. site' \in Sites /\ site'.krs = site.krs
    BY <1>1, <2>1, CollapsedTyped
  <2>4. br' \in Browsers /\ br'.loaded /\ br'.krs = call.krs /\ br'.expanded = Null
    BY <1>1 DEF Browsers
  <2> HIDE DEF q
  <2>5. Beliefs'
    BY <1>1, <2>3, <2>4 DEF Beliefs, ListWaits, RowWaits
  <2>6. DueAt("corrections") = 2 /\ "corrections" \in Waiting /\ "corrections" \in Chain("corrections")
    BY DEF DueAt, Waiting, Chain
  <2>7. /\ flight' = Append(flight, q) /\ "corrections" \notin ListWaits \cup RowWaits
        /\ acc' \in Seq(Pages)
    BY <1>1 DEF q, ListWaits, RowWaits
  <2> QED BY <1>1, <2>2, <2>3, <2>4, <2>5, <2>6, <2>7, ClickStep
<1>2. CASE Transient /\ UNCHANGED <<site, flight, pay, faults>>
  BY <1>2, RetryReply DEF PageInv, PageTypes
<1> QED BY <1>1, <1>2 DEF ExpandAt

LEMMA StartsRow ==
    ASSUME PageInv, StartRow
    PROVE  /\ br.loaded /\ Quiet /\ at \in {"enter", "row"} /\ call.op \in Opens
           /\ br.krs = call.krs /\ site.krs = call.krs
<1>1. at \in {"enter", "row"} /\ br.loaded
  BY DEF StartRow, PageInv, Beliefs
<1>2. call.krs \in Entities
  BY <1>1, CallFields DEF PageInv
<1>3. br.krs = call.krs /\ call.op \in Opens
  BY <1>1 DEF StartRow, Opens, PageInv, Beliefs
<1>4. site.krs = call.krs
  BY <1>1, <1>2, <1>3, SourceAssumption DEF PageInv, Beliefs
<1> QED BY <1>1, <1>3, <1>4, QuietBefore DEF PageInv

LEMMA ShowRowStep ==
    ASSUME PageInv, ShowRow
    PROVE  PageInv'
<1>1. /\ br.loaded /\ Quiet /\ at \in {"enter", "row"} /\ call.op \in Opens
      /\ br.krs = call.krs /\ site.krs = call.krs /\ at # "idle"
  BY StartsRow DEF ShowRow
<1>2. call.krs \in Entities /\ br \in Browsers /\ site \in Sites /\ acc \in Seq(Pages)
  BY <1>1, CallFields DEF PageInv, PageTypes
<1>3. CASE Permanent("permanent")
  BY <1>1, <1>3, ErrorReply
<1>4. CASE ExpandAt(br, site, pay, RowOf(call.ref))
  BY <1>1, <1>2, <1>4, SumCovers, ExpandStep
<1>5. CASE /\ br' = [br EXCEPT !.expanded = Null]
           /\ LET back == Target(call.ref) < br.number IN
              Click([path |-> "list", of |-> site.krs, n |-> IF back THEN 0 ELSE site.n + 1, size |-> site.size],
                    1, IF back THEN "first" ELSE "forward", Collapsed(br, site))
           /\ UNCHANGED <<call, answer, rdf, attempt, acc, faults>>
  <2> DEFINE back == Target(call.ref) < br.number  n == IF back THEN 0 ELSE site.n + 1
             next == IF back THEN "first" ELSE "forward"
             q == [path |-> "list", of |-> site.krs, n |-> n, size |-> site.size]
  <2>1. site.n \in Nat /\ site.size \in Sizes
    BY <1>2 DEF Sites
  <2>2. n \in Nat /\ next \in {"first", "forward"}
    BY <2>1
  <2>3. /\ pay' = Send(PaidForClick(pay, 1), 1) /\ site' = Collapsed(br, site)
        /\ flight' = Append(flight, q) /\ log' = <<>> /\ at' = next
    BY <1>5 DEF Click
  <2> HIDE DEF n, next
  <2>4. q \in Requests /\ q.path = "list" /\ q.of = call.krs
    BY <1>1, <1>2, <2>1, <2>2 DEF Requests
  <2> HIDE DEF q
  <2>5. site' \in Sites /\ site'.krs = site.krs
    BY <1>2, <2>3, CollapsedTyped
  <2>6. br' \in Browsers /\ br'.loaded /\ br'.krs = call.krs /\ br'.expanded = Null
    BY <1>1, <1>2, <1>5 DEF Browsers
  <2>7. Beliefs'
    BY <1>1, <1>5, <2>2, <2>3, <2>5, <2>6 DEF PageInv, Beliefs, ListWaits, RowWaits
  <2>8. DueAt(next) = 1 /\ next \in Waiting \ {"list", "details", "saved"} /\ "list" \in Chain(next)
    BY <2>2 DEF DueAt, Waiting, Chain
  <2> QED BY <1>1, <1>2, <1>5, <2>3, <2>4, <2>5, <2>6, <2>7, <2>8, SumCovers, ClickStep
<1> QED BY <1>3, <1>4, <1>5 DEF ShowRow

LEMMA RowPageStep ==
    ASSUME PageInv, RowPage
    PROVE  PageInv'
<1> DEFINE r == First("list", Null)
<1>1. at \in {"first", "forward"} /\ Logged("list", Null) # {}
  BY DEF RowPage
<1>2. PICK j \in DOMAIN log : j \in Logged("list", Null) /\ r = log[j]
  BY <1>1, FirstIsLogged DEF PageInv, PageTypes
<1>3. r.path = "list" /\ r \in Responses
  BY <1>2 DEF Logged, PageInv, PageTypes
<1> HIDE DEF r
<1>4. at \in Waiting /\ ~ IsDetail(log[j]) /\ br.loaded /\ at # "idle" /\ br.krs = call.krs /\ call.op \in Opens
  BY <1>1, <1>2, <1>3 DEF Waiting, IsDetail, PageInv, Beliefs, RowWaits
<1>5. Quiet
  <2>2. \A i \in DOMAIN flight : ~ Follows(flight[i], log[j])
    BY <1>2, <1>3 DEF Follows
  <2> QED BY <1>4, <2>2, QuietAfter DEF PageInv
<1>6. call.krs \in Entities /\ site.krs = call.krs /\ br \in Browsers /\ site \in Sites /\ acc \in Seq(Pages)
      /\ r.page.n \in Nat
  <2>1. call.krs \in Entities /\ br \in Browsers /\ site \in Sites /\ acc \in Seq(Pages)
    BY <1>4, CallFields DEF PageInv, PageTypes
  <2>2. site.krs = call.krs
    BY <1>4, <2>1, SourceAssumption DEF PageInv, Beliefs
  <2>3. r.page.n \in Nat
    BY <1>3, ResponseFields DEF Pages
  <2> QED BY <2>1, <2>2, <2>3
<1> DEFINE p == Finished(pay, 1)
<1>7. p \in Pays /\ p.credit + p.unpaid >= 0
  <2>1. DueAt(at) = 1
    BY <1>1 DEF DueAt, Waiting
  <2> QED BY <2>1, SumCovers, FinishedCovers
<1>8. CASE BadStatus(r)
  BY <1>4, <1>5, <1>8, BadReply
<1>9. CASE r.status = "waf" /\ Permanent("blocked")
  BY <1>4, <1>5, <1>9, ErrorReply
<1>10. CASE /\ br' = [br EXCEPT !.number = r.page.n]
            /\ pay' = Send(PaidForClick(Finished(pay, 1), 1), 1)
            /\ flight' = Append(flight, [path |-> "list", of |-> site.krs, n |-> site.n + 1, size |-> site.size])
            /\ log' = <<>> /\ at' = "forward"
            /\ UNCHANGED <<call, answer, rdf, site, attempt, acc, faults>>
  <2> DEFINE q == [path |-> "list", of |-> site.krs, n |-> site.n + 1, size |-> site.size]
  <2>1. q \in Requests /\ q.path = "list" /\ q.of = call.krs
    BY <1>6 DEF Requests, Sites
  <2>2. flight' = Append(flight, q) /\ pay' = Send(PaidForClick(p, 1), 1)
    BY <1>10
  <2> HIDE DEF q, p
  <2>3. /\ br' \in Browsers /\ br'.loaded /\ br'.krs = call.krs
        /\ br'.expanded = br.expanded /\ br'.refs = br.refs
    BY <1>4, <1>6, <1>10 DEF Browsers
  <2>4. Beliefs'
    BY <1>4, <1>6, <1>10, <2>3 DEF PageInv, Beliefs, ListWaits, RowWaits
  <2>5. DueAt("forward") = 1 /\ "forward" \in Waiting /\ "list" \in Chain("forward")
    BY DEF DueAt, Waiting, Chain
  <2> QED BY <1>4, <1>5, <1>6, <1>7, <1>10, <2>1, <2>2, <2>3, <2>4, <2>5, ClickStep
<1>11. CASE ExpandAt([br EXCEPT !.number = r.page.n], site, p, RowOf(call.ref))
  <2> DEFINE b == [br EXCEPT !.number = r.page.n]
  <2>1. b \in Browsers /\ b.loaded /\ b.krs = call.krs /\ b.refs = br.refs
    BY <1>4, <1>6 DEF Browsers
  <2>2. ExpandAt(b, site, p, RowOf(call.ref))
    BY <1>11
  <2> HIDE DEF b, p
  <2> QED BY <1>4, <1>5, <1>6, <1>7, <2>1, <2>2, ExpandStep
<1>12. CASE /\ br' = ResetView(br) /\ pay' = Finished(pay, 1)
            /\ Reply([kind |-> "error", error |-> "permanent"])
            /\ UNCHANGED <<site, flight>>
  <2> DEFINE a == [kind |-> "error", error |-> "permanent"]
  <2>1. a.kind # "none" /\ answer' = a /\ call' = call /\ acc' = <<>> /\ at' = "idle"
    BY <1>12 DEF Reply
  <2>2. AnswerOK'
    BY <2>1 DEF AnswerOK, Errors
  <2>3. br' \in Browsers /\ br'.loaded = br.loaded /\ br'.krs = Null /\ br'.expanded = Null
    BY <1>6, <1>12, ResetTyped
  <2>4. Beliefs'
    BY <2>1, <2>3 DEF Beliefs, ListWaits, RowWaits
  <2>5. pay' = p /\ Reply(a)
    BY <1>12
  <2> HIDE DEF a, p
  <2> QED BY <1>4, <1>5, <1>7, <1>12, <2>1, <2>2, <2>3, <2>4, <2>5, AnswerReply
<1> QED BY <1>8, <1>9, <1>10, <1>11, <1>12 DEF RowPage, r

LEMMA CorrectionsStep ==
    ASSUME PageInv, CorrectionsAnswer
    PROVE  PageInv'
<1> DEFINE r == First("corrections", Null)
<1>1. at = "corrections" /\ Logged("corrections", Null) # {}
  BY DEF CorrectionsAnswer, Await
<1>2. PICK j \in DOMAIN log : j \in Logged("corrections", Null) /\ r = log[j]
  BY <1>1, FirstIsLogged DEF PageInv, PageTypes
<1>3. r.path = "corrections" /\ r \in Responses
  BY <1>2 DEF Logged, PageInv, PageTypes
<1> HIDE DEF r
<1>4. at \in Waiting /\ ~ IsDetail(log[j]) /\ br.loaded /\ at # "idle"
  BY <1>1, <1>2, <1>3 DEF Waiting, IsDetail, PageInv, Beliefs
<1>5. \A i \in DOMAIN flight, k \in DOMAIN log : ~ IsDetail(log[k]) => IsDetail(flight[i])
  <2>1. \A k \in DOMAIN log : IsDetail(log[k]) \/ log[k].path = "corrections"
    BY <1>1, <1>4 DEF PageInv, OfThisCall, Chain
  <2> QED BY <1>4, <2>1 DEF PageInv, OfThisCall, Follows
<1>6. Quiet
  BY <1>4, <1>5 DEF Quiet
<1>7. \A k \in DOMAIN log : log[k].path = "corrections" => k = j
  BY <1>2, <1>3, <1>4 DEF PageInv, OfThisCall
<1>8. CASE BadStatus(r)
  BY <1>4, <1>6, <1>8, BadReply
<1>9. CASE Permanent("permanent")
  BY <1>4, <1>6, <1>9, ErrorReply
<1>10. CASE Permanent("waf")
  BY <1>4, <1>6, <1>10, ErrorReply
<1>11. CASE /\ r.status = "ok" /\ r.of = call.ref /\ at' = "details"
            /\ UNCHANGED <<call, answer, rdf, site, flight, log, pay, br, attempt, acc, faults>>
  <2>1. PageTypes'
    BY <1>11 DEF PageInv, PageTypes, Waiting
  <2>2. OneRequest'
    BY <1>1, <1>11 DEF PageInv, OneRequest, Chain
  <2>3. OfThisCall'
    BY <1>1, <1>2, <1>3, <1>4, <1>7, <1>11 DEF PageInv, OfThisCall, Chain, ListWaits, RowWaits
  <2>4. Beliefs'
    BY <1>1, <1>4, <1>11 DEF PageInv, Beliefs, ListWaits, RowWaits
  <2>5. CallStands' /\ AnswerOK'
    BY <1>1, <1>11 DEF PageInv, CallStands, AnswerOK, Right
  <2>6. TokensCover' /\ PaidBeforeClick'
    BY <1>1, <1>2, <1>11 DEF PageInv, PageTypes, TokensCover, PaidBeforeClick, DueAt
  <2> QED BY <2>1, <2>2, <2>3, <2>4, <2>5, <2>6 DEF PageInv
<1> QED BY <1>8, <1>9, <1>10, <1>11 DEF CorrectionsAnswer, r

\* The corrections list in hand is the one of the document asked for.
LEMMA RowInHand ==
    ASSUME PageInv, at = "details"
    PROVE  /\ \E j \in DOMAIN log : First("corrections", Null) = log[j] /\ log[j].path = "corrections"
           /\ First("corrections", Null).of = call.ref
           /\ BundleFor(call.ref, First("corrections", Null).refs)
           /\ call.ref \in Refs /\ br.loaded /\ Quiet /\ call.op \in Opens /\ br.krs = call.krs
<1> DEFINE r == First("corrections", Null)
<1>1. br.loaded /\ at \in Waiting /\ call.op \in Opens /\ br.krs = call.krs
  BY DEF PageInv, Beliefs, Waiting
<1>2. PICK k \in DOMAIN log : log[k].path = "corrections"
  BY <1>1 DEF PageInv, OfThisCall
<1>3. Logged("corrections", Null) # {}
  BY <1>2 DEF Logged
<1>4. PICK j \in DOMAIN log : j \in Logged("corrections", Null) /\ r = log[j]
  BY <1>3, FirstIsLogged DEF PageInv, PageTypes
<1>5. r.path = "corrections" /\ r \in Responses
  BY <1>4 DEF Logged, PageInv, PageTypes
<1> HIDE DEF r
<1>6. r.of = call.ref
  BY <1>1, <1>4, <1>5 DEF PageInv, OfThisCall
<1>7. BundleFor(call.ref, r.refs)
  BY <1>5, <1>6, ResponseFields
<1>8. ~ IsDetail(log[j]) /\ \A i \in DOMAIN flight : ~ Follows(flight[i], log[j])
  BY <1>4, <1>5 DEF Follows, IsDetail
<1>9. Quiet
  BY <1>1, <1>8, QuietAfter DEF PageInv
<1>10. call.ref \in Refs
  BY <1>1, CallFields DEF PageInv
<1> QED BY <1>1, <1>4, <1>5, <1>6, <1>7, <1>9, <1>10 DEF r

LEMMA DetailsStep ==
    ASSUME PageInv, DetailAnswers
    PROVE  PageInv'
<1> DEFINE refs == First("corrections", Null).refs
           b == [br EXCEPT !.expanded = call.ref, !.refs = refs]
           gated == \E r \in InSeq(refs) : First("detail", r).status = "waf"
<1>1. at = "details" /\ at # "idle"
  BY DEF DetailAnswers
<1>2. /\ BundleFor(call.ref, refs) /\ call.ref \in Refs /\ br.loaded /\ Quiet
      /\ call.op \in Opens /\ br.krs = call.krs /\ refs \in Seq(Refs)
  BY <1>1, RowInHand DEF BundleFor
<1> HIDE DEF refs
<1>3. b \in Browsers /\ b.loaded /\ b.krs = call.krs /\ b.expanded = call.ref /\ b.refs = refs
  <2>1. br \in Browsers
    BY DEF PageInv, PageTypes
  <2>2. b = WithRow(br, call.ref, refs)
    BY DEF WithRow
  <2> DEFINE d == call.ref
  <2>3. d \in Refs
    BY <1>2
  <2> HIDE DEF b, d
  <2>4. LET v == WithRow(br, d, refs) IN
        v \in Browsers /\ v.loaded = br.loaded /\ v.krs = br.krs /\ v.expanded = d /\ v.refs = refs
    BY <1>2, <2>1, <2>3, ExpandedTyped
  <2> QED BY <1>2, <2>2, <2>4 DEF d
<1> HIDE DEF b
<1>4. CASE \E i \in DOMAIN refs : BadStatus(First("detail", refs[i]))
  BY <1>1, <1>2, <1>4, BadReply
<1>5. Finished(pay, 2) \in Pays /\ Finished(pay, 2).credit + Finished(pay, 2).unpaid >= 0
  BY <1>1, SumCovers, FinishedCovers DEF DueAt
<1>6. CASE /\ call.op = "open_document"
           /\ Reply([kind |-> "view", refs |-> refs, gated |-> gated])
           /\ br' = b /\ pay' = Finished(pay, 2) /\ UNCHANGED <<site, flight>>
  <2> DEFINE a == [kind |-> "view", refs |-> refs, gated |-> gated]
  <2>1. a.kind = "view" /\ a.refs = refs
    OBVIOUS
  <2>2. answer' = a /\ call' = call /\ acc' = <<>> /\ at' = "idle" /\ Reply(a)
    BY <1>6 DEF Reply
  <2> HIDE DEF a, gated
  <2>3. Right(call, a)
    BY <1>2, <1>6, <2>1 DEF Right, IsView, BundleFor
  <2>4. AnswerOK'
    BY <1>2, <1>6, <2>1, <2>2, <2>3 DEF AnswerOK
  <2>5. Beliefs'
    BY <1>2, <1>3, <1>6, <2>2 DEF PageInv, Beliefs, BundleFor, ListWaits, RowWaits
  <2> QED BY <1>1, <1>2, <1>3, <1>5, <1>6, <2>1, <2>2, <2>4, <2>5, AnswerReply
<1>7. CASE /\ call.op # "open_document"
           /\ br' = b
           /\ pay' = Send(PaidForClick(Finished(pay, 2), 1), 1)
           /\ flight' = Append(flight, [path |-> "file", of |-> site.refs])
           /\ log' = <<>> /\ at' = "file"
           /\ UNCHANGED <<call, answer, rdf, site, attempt, acc, faults>>
  <2> DEFINE q == [path |-> "file", of |-> site.refs]  p == Finished(pay, 2)
  <2>1. q \in Requests /\ q.path = "file"
    BY DEF Requests, PageInv, PageTypes, Sites
  <2>2. flight' = Append(flight, q) /\ pay' = Send(PaidForClick(p, 1), 1) /\ call.op = "download"
    BY <1>2, <1>7 DEF Opens
  <2> HIDE DEF q
  <2>3. p \in Pays /\ p.credit + p.unpaid >= 0
    BY <1>5
  <2> HIDE DEF p
  <2>4. Beliefs'
    BY <1>2, <1>3, <1>7, <2>2 DEF PageInv, Beliefs, BundleFor, ListWaits, RowWaits
  <2>5. DueAt("file") = 1 /\ "file" \in Waiting /\ "file" \in Chain("file") /\ "file" \notin ListWaits \cup RowWaits
    BY DEF DueAt, Waiting, Chain, ListWaits, RowWaits
  <2>6. acc' \in Seq(Pages) /\ site' \in Sites
    BY <1>7 DEF PageInv, PageTypes
  <2> QED BY <1>1, <1>2, <1>3, <1>7, <2>1, <2>2, <2>3, <2>4, <2>5, <2>6, ClickStep
<1> QED BY <1>4, <1>6, <1>7 DEF DetailAnswers, refs, b, gated

LEMMA DownloadStep ==
    ASSUME PageInv, DownloadExpanded
    PROVE  PageInv'
<1> DEFINE q == [path |-> "file", of |-> site.refs]
<1>1. at = "enter" /\ br.loaded /\ call.op = "download" /\ br.krs = call.krs /\ br.expanded = call.ref
  BY DEF DownloadExpanded, ExpandedHere
<1>2. /\ pay' = Send(PaidForClick(pay, 1), 1) /\ site' = site /\ flight' = Append(flight, q)
      /\ log' = <<>> /\ at' = "file" /\ UNCHANGED <<call, answer, br, acc>>
  BY DEF DownloadExpanded, Click
<1>3. q \in Requests /\ q.path = "file" /\ Quiet /\ site \in Sites /\ br \in Browsers /\ acc \in Seq(Pages)
  BY <1>1, QuietBefore DEF Requests, PageInv, PageTypes, Sites
<1> HIDE DEF q
<1>4. Beliefs'
  BY <1>1, <1>2 DEF PageInv, Beliefs, ListWaits, RowWaits
<1>5. DueAt("file") = 1 /\ "file" \in Waiting /\ "file" \in Chain("file") /\ "file" \notin ListWaits \cup RowWaits
  BY DEF DueAt, Waiting, Chain, ListWaits, RowWaits
<1> QED BY <1>1, <1>2, <1>3, <1>4, <1>5, SumCovers, ClickStep

LEMMA FileAnswerStep ==
    ASSUME PageInv, FileAnswer
    PROVE  PageInv'
<1> DEFINE r == First("file", Null)
<1>1. at = "file" /\ Logged("file", Null) # {}
  BY DEF FileAnswer, Await
<1>2. PICK j \in DOMAIN log : j \in Logged("file", Null) /\ r = log[j]
  BY <1>1, FirstIsLogged DEF PageInv, PageTypes
<1>3. r.path = "file" /\ r \in Responses
  BY <1>2 DEF Logged, PageInv, PageTypes
<1> HIDE DEF r
<1>4. at \in Waiting /\ ~ IsDetail(log[j]) /\ br.loaded /\ at # "idle"
  BY <1>1, <1>2, <1>3 DEF Waiting, IsDetail, PageInv, Beliefs
<1>5. ~ Usable(r) => Quiet
  <2>1. ASSUME ~ Usable(r) PROVE \A i \in DOMAIN flight : ~ Follows(flight[i], log[j])
    BY <1>2, <1>3, <2>1 DEF Follows
  <2> QED BY <1>4, <2>1, QuietAfter DEF PageInv
<1>6. CASE BadStatus(r)
  <2>1. r.status = "4xx" => Quiet
    BY <1>5 DEF Usable
  <2> QED BY <1>4, <1>6, <2>1, BadReply
<1>7. CASE /\ at' = "saved"
           /\ UNCHANGED <<call, answer, rdf, site, flight, log, pay, br, attempt, acc, faults>>
  <2>1. PageTypes'
    BY <1>7 DEF PageInv, PageTypes, Waiting
  <2>2. OneRequest'
    BY <1>1, <1>7 DEF PageInv, OneRequest, Chain
  <2>3. OfThisCall'
    BY <1>1, <1>2, <1>3, <1>4, <1>7 DEF PageInv, OfThisCall, Chain, ListWaits, RowWaits
  <2>4. Beliefs'
    BY <1>1, <1>4, <1>7 DEF PageInv, Beliefs, ListWaits, RowWaits
  <2>5. CallStands' /\ AnswerOK'
    BY <1>1, <1>7 DEF PageInv, CallStands, AnswerOK, Right
  <2>6. TokensCover' /\ PaidBeforeClick'
    BY <1>1, <1>2, <1>7 DEF PageInv, PageTypes, TokensCover, PaidBeforeClick, DueAt, Waiting
  <2> QED BY <2>1, <2>2, <2>3, <2>4, <2>5, <2>6 DEF PageInv
<1> QED BY <1>6, <1>7 DEF FileAnswer, r

LEMMA SavedFileStep ==
    ASSUME PageInv, SavedFile
    PROVE  PageInv'
<1> DEFINE answered == First("file", Null)  file == First("saved", Null)
           a == IF Attributable(answered.of)
                THEN [kind |-> "file", requested |-> answered.of, holds |-> file.of,
                      gated |-> answered.status = "waf"]
                ELSE [kind |-> "error", error |-> "permanent"]
<1>1. at = "saved" /\ Logged("saved", Null) # {}
  BY DEF SavedFile, Await
<1>2. at \in Waiting /\ at # "idle" /\ br.loaded /\ call.op = "download" /\ br.expanded = call.ref
  BY <1>1 DEF Waiting, PageInv, Beliefs
<1>3. PICK k \in DOMAIN log : k \in Logged("saved", Null) /\ file = log[k]
  BY <1>1, FirstIsLogged DEF PageInv, PageTypes
<1>4. Logged("file", Null) # {}
  <2>1. \E j \in DOMAIN log : log[j].path = "file"
    BY <1>1, <1>2 DEF PageInv, OfThisCall
  <2> QED BY <2>1 DEF Logged
<1>5. PICK j \in DOMAIN log : j \in Logged("file", Null) /\ answered = log[j]
  BY <1>4, FirstIsLogged DEF PageInv, PageTypes
<1>6. answered.path = "file" /\ file.path = "saved" /\ answered \in Responses
  BY <1>3, <1>5 DEF Logged, PageInv, PageTypes
<1> HIDE DEF answered, file
<1>7. answered.of = file.of
  BY <1>2, <1>3, <1>5, <1>6 DEF PageInv, OfThisCall
<1>8. Quiet
  <2>1. ~ IsDetail(log[k]) /\ \A i \in DOMAIN flight : ~ Follows(flight[i], log[k])
    BY <1>3, <1>6 DEF Follows, IsDetail
  <2> QED BY <1>2, <2>1, QuietAfter DEF PageInv
<1>9. CASE Transient /\ UNCHANGED <<site, flight, pay, faults>>
  BY <1>2, <1>9, RetryReply DEF PageInv, PageTypes
<1>10. CASE pay' = Finished(pay, 1) /\ Reply(a) /\ UNCHANGED <<site, flight, br>>
  <2>1. pay' \in Pays /\ pay'.credit + pay'.unpaid >= 0
    <3>1. DueAt(at) = 1
      BY <1>1 DEF DueAt, Waiting
    <3> QED BY <1>10, <3>1, SumCovers, FinishedCovers
  <2>2. answer' = a /\ call' = call /\ acc' = <<>> /\ at' = "idle" /\ Reply(a)
    BY <1>10 DEF Reply
  <2>3. a.kind # "none"
    OBVIOUS
  <2>4. AnswerOK'
    <3>1. CASE Attributable(answered.of)
      <4>1. a.kind = "file" /\ a.requested = answered.of /\ a.holds = answered.of
        BY <1>7, <3>1
      <4>2. answered.of = br.refs /\ br.refs \in Seq(Refs) /\ call.ref \in Refs
        BY <1>2, <3>1, CallFields DEF Attributable, PageInv, PageTypes, Browsers, Opens
      <4>3. call.ref \in InSeq(br.refs)
        BY <1>2, <4>2, SourceAssumption DEF PageInv, Beliefs
      <4> HIDE DEF a
      <4>4. Right(call, a)
        BY <1>2, <4>1, <4>2, <4>3 DEF Right, IsFile
      <4> QED BY <1>2, <2>2, <4>1, <4>2, <4>4 DEF AnswerOK
    <3>2. CASE ~ Attributable(answered.of)
      BY <2>2, <3>2 DEF AnswerOK, Errors
    <3> QED BY <3>1, <3>2
  <2>5. Beliefs'
    BY <1>2, <1>10, <2>2 DEF PageInv, Beliefs, ListWaits, RowWaits
  <2>6. br' = br /\ br \in Browsers /\ site' = site /\ flight' = flight
    BY <1>10 DEF PageInv, PageTypes
  <2> HIDE DEF a
  <2> QED BY <1>2, <1>8, <2>1, <2>2, <2>3, <2>4, <2>5, <2>6, AnswerReply
<1> QED BY <1>9, <1>10 DEF SavedFile, answered, file

LEMMA TimesOutStep ==
    ASSUME PageInv, TimesOut
    PROVE  PageInv'
BY RetryReply DEF TimesOut, Waiting, PageInv, PageTypes

LEMMA BrowserStepKeeps ==
    ASSUME PageInv, BrowserStep
    PROVE  PageInv'
BY EnterStep, SearchStep, EntityAnswerStep, ListAnswerStep, PageAnswerStep, ShowRowStep, RowPageStep,
   CorrectionsStep, DetailsStep, DownloadStep, FileAnswerStep, SavedFileStep DEF BrowserStep

----------------------------------------------------------------------------
\* An answer reaches the page.

LEMMA ArriveStep ==
    ASSUME PageInv, SourceOK, NEW i \in DOMAIN flight, NEW status \in Statuses, Arrive(i, status)
    PROVE  PageInv'
<1> DEFINE q == flight[i]  r == Response(q, status)  nx == FollowUps(r)  f == RemoveAt(flight, i) \o nx
           from(j) == IF j < i THEN j ELSE j + 1
           n == Len(flight)
<1>1. q \in Requests /\ flight \in Seq(Requests) /\ site \in Sites /\ log \in Seq(Responses)
  BY ElementOfSeq, LenProperties DEF PageInv, PageTypes
<1>2. r \in Responses /\ r.path = q.path /\ r.of = q.of
  BY <1>1, ResponseTyped
<1>3. /\ flight' = f /\ site' = Rendered(r) /\ log' = IF at = "idle" THEN log ELSE Append(log, r)
      /\ pay' = Send(pay, IF r.path = "file" THEN 0 ELSE Len(nx))
      /\ UNCHANGED <<call, answer, rdf, br, at, attempt, acc>>
  BY DEF Arrive
<1> HIDE DEF r
<1>4. /\ nx \in Seq(Requests) /\ Len(nx) \in Nat
      /\ \A j \in DOMAIN nx :
           \/ r.path = "corrections" /\ IsDetail(nx[j])
           \/ /\ r.path \in {"entity", "file"} /\ nx[j].of = r.of /\ Follows(nx[j], r) /\ Len(nx) = 1
              /\ nx[j].path = IF r.path = "entity" THEN "list" ELSE "saved"
  BY <1>1, <1>2, FollowUpsTyped
<1> HIDE DEF nx
<1>5. /\ f \in Seq(Requests) /\ n \in Nat \ {0} /\ DOMAIN nx = 1 .. Len(nx) /\ DOMAIN flight = 1 .. n
      /\ DOMAIN f = 1 .. n - 1 + Len(nx)
      /\ \A j \in 1 .. n - 1 : from(j) \in DOMAIN flight \ {i} /\ f[j] = flight[from(j)]
      /\ \A j \in n .. n - 1 + Len(nx) : j - n + 1 \in DOMAIN nx /\ f[j] = nx[j - n + 1]
  BY <1>1, <1>4, FlightAfter
<1> HIDE DEF f
<1>6. \A j \in DOMAIN f : j \in 1 .. n - 1 \/ j \in n .. n - 1 + Len(nx)
  BY <1>4, <1>5
<1>7. Rendered(r) \in Sites /\ Rendered(r).krs = IF r.path = "list" /\ r.status = "ok" THEN r.of ELSE site.krs
  BY <1>1, <1>2, RenderedTyped
<1>8. IsDetail(q) => Len(nx) = 0
  <2>1. ASSUME IsDetail(q) PROVE ~ (1 \in DOMAIN nx)
    <3>1. r.path = "detail"
      BY <1>2, <2>1 DEF IsDetail
    <3> QED BY <1>4, <3>1
  <2>2. Len(nx) # 0 => 1 \in DOMAIN nx
    BY <1>4, <1>5
  <2> QED BY <2>1, <2>2
<1>9. PageTypes'
  <2>1. log' \in Seq(Responses)
    BY <1>1, <1>2, <1>3
  <2>2. pay' \in Pays
    BY <1>3, <1>4 DEF Send, PageInv, PageTypes, Pays
  <2> QED BY <1>3, <1>5, <1>7, <2>1, <2>2 DEF PageInv, PageTypes
\* Of what is in flight now, what is awaited is what was, or the follow-up of q.
<1>10. ASSUME br.loaded, ~ IsDetail(q)
       PROVE  \A j \in DOMAIN f :
                 \/ IsDetail(f[j])
                 \/ /\ j = n /\ Len(nx) = 1 /\ r.path \in {"entity", "file"} /\ f[j].of = r.of /\ Follows(f[j], r)
                    /\ f[j].path = IF r.path = "entity" THEN "list" ELSE "saved"
  <2>1. \A j \in 1 .. n - 1 : IsDetail(f[j])
    BY <1>5, <1>10 DEF PageInv, OneRequest, IsDetail
  <2>2. SUFFICES ASSUME NEW j \in n .. n - 1 + Len(nx), ~ IsDetail(f[j])
                 PROVE  /\ j = n /\ Len(nx) = 1 /\ r.path \in {"entity", "file"} /\ f[j].of = r.of
                        /\ Follows(f[j], r) /\ f[j].path = IF r.path = "entity" THEN "list" ELSE "saved"
    BY <1>6, <2>1
  <2>3. j - n + 1 \in DOMAIN nx /\ f[j] = nx[j - n + 1]
    BY <1>5
  <2>4. ~ IsDetail(nx[j - n + 1])
    BY <2>2, <2>3
  <2>5. /\ r.path \in {"entity", "file"} /\ f[j].of = r.of /\ Follows(f[j], r) /\ Len(nx) = 1
        /\ f[j].path = IF r.path = "entity" THEN "list" ELSE "saved"
    BY <1>4, <2>3, <2>4
  <2>6. j = n
    BY <2>5, <1>5
  <2> QED BY <2>5, <2>6
<1>11. ASSUME IsDetail(q)
       PROVE  \A j \in DOMAIN f : j \in 1 .. n - 1 /\ from(j) \in DOMAIN flight /\ f[j] = flight[from(j)]
  BY <1>5, <1>6, <1>8, <1>11
<1>12. OneRequest'
  <2>1. SUFFICES ASSUME br.loaded
                 PROVE  /\ \A j, k \in DOMAIN f : ~ IsDetail(f[j]) /\ ~ IsDetail(f[k]) => j = k
                        /\ \A j \in DOMAIN f : IsDetail(f[j]) \/ f[j].path \in Chain(at)
    BY <1>3 DEF OneRequest, IsDetail
  <2>2. CASE IsDetail(q)
    <3>1. \A j, k \in DOMAIN f : from(j) = from(k) => j = k
      BY <1>5, <1>11, <2>2
    <3> HIDE DEF from
    <3>2. \A j \in DOMAIN f : from(j) \in DOMAIN flight /\ f[j] = flight[from(j)]
      BY <1>11, <2>2
    <3>3. \A j, k \in DOMAIN f : ~ IsDetail(f[j]) /\ ~ IsDetail(f[k]) => from(j) = from(k)
      BY <2>1, <3>2 DEF PageInv, OneRequest
    <3>4. \A j \in DOMAIN f : IsDetail(f[j]) \/ f[j].path \in Chain(at)
      BY <2>1, <3>2 DEF PageInv, OneRequest
    <3> QED BY <3>1, <3>3, <3>4
  <2>3. CASE ~ IsDetail(q)
    <3>1. q.path \in Chain(at)
      BY <2>1, <2>3 DEF PageInv, OneRequest
    <3>2. q.path = "entity" => "list" \in Chain(at)
      BY <3>1 DEF Chain
    <3>3. q.path = "file" => "saved" \in Chain(at)
      BY <3>1 DEF Chain
    <3>4. \A j, k \in DOMAIN f : ~ IsDetail(f[j]) /\ ~ IsDetail(f[k]) => j = k
      BY <1>10, <2>1, <2>3
    <3>5. \A j \in DOMAIN f : IsDetail(f[j]) \/ f[j].path \in Chain(at)
      BY <1>2, <1>10, <2>1, <2>3, <3>2, <3>3
    <3> QED BY <3>4, <3>5
  <2> QED BY <2>2, <2>3
<1>13. OfThisCall'
  <2>1. SUFFICES ASSUME br.loaded, at \in Waiting PROVE OfThisCall'
    BY <1>3 DEF OfThisCall
  <2> DEFINE l == Append(log, r)  m == Len(log)
  <2>2. log' = l /\ br'.loaded /\ at' = at /\ call' = call /\ flight' = f
    BY <1>3, <2>1 DEF Waiting
  <2>3. m \in Nat /\ DOMAIN log = 1 .. m /\ DOMAIN l = 1 .. m + 1 /\ l[m + 1] = r /\ \A j \in 1 .. m : l[j] = log[j]
    BY <1>1, <1>2
  <2> HIDE DEF l, m, from
  <2>4. \A j \in DOMAIN l : (j \in DOMAIN log /\ l[j] = log[j]) \/ (j = m + 1 /\ l[j] = r)
    BY <2>3
  <2>5. IsDetail(r) <=> IsDetail(q)
    BY <1>2 DEF IsDetail
  <2>6. IsDetail(q) \/ q.path \in Chain(at)
    BY <2>1 DEF PageInv, OneRequest
  <2>7. \A j \in DOMAIN log : IsDetail(q) \/ IsDetail(log[j]) \/ Follows(q, log[j])
    BY <2>1 DEF PageInv, OfThisCall
  <2>8. \A j \in DOMAIN l : IsDetail(l[j]) \/ l[j].path \in Chain(at)
    BY <1>2, <2>1, <2>4, <2>5, <2>6 DEF PageInv, OfThisCall
  <2>9. \A k \in DOMAIN f, j \in DOMAIN l : IsDetail(f[k]) \/ IsDetail(l[j]) \/ Follows(f[k], l[j])
    <3>1. CASE IsDetail(q)
      <4>1. \A k \in DOMAIN f : from(k) \in DOMAIN flight /\ f[k] = flight[from(k)]
        BY <1>11, <3>1 DEF from
      <4>2. \A j \in DOMAIN l : IsDetail(l[j]) \/ (j \in DOMAIN log /\ l[j] = log[j])
        BY <2>4, <2>5, <3>1
      <4> QED BY <2>1, <4>1, <4>2 DEF PageInv, OfThisCall
    <3>2. CASE ~ IsDetail(q)
      <4>1. SUFFICES ASSUME NEW k \in DOMAIN f, NEW j \in DOMAIN l, ~ IsDetail(f[k]), ~ IsDetail(l[j])
                     PROVE  Follows(f[k], l[j])
        OBVIOUS
      <4>2. r.path \in {"entity", "file"} /\ Follows(f[k], r)
        BY <1>10, <2>1, <3>2, <4>1
      <4>3. j \notin DOMAIN log
        <5>1. \A x \in DOMAIN log : ~ IsDetail(log[x]) => q.path \in {"list", "saved"}
          BY <2>7, <3>2 DEF Follows
        <5> QED BY <1>2, <2>3, <4>1, <4>2, <5>1
      <4> QED BY <2>4, <4>2, <4>3
    <3> QED BY <3>1, <3>2
  <2>10. \A j, k \in DOMAIN l : ~ IsDetail(l[j]) /\ l[j].path = l[k].path => j = k
    <3>1. \A j \in DOMAIN log : ~ IsDetail(log[j]) => log[j].path # r.path
      BY <1>2, <2>7 DEF Follows, IsDetail
    <3>2. \A j, k \in DOMAIN log : ~ IsDetail(log[j]) /\ log[j].path = log[k].path => j = k
      BY <2>1 DEF PageInv, OfThisCall
    <3> QED BY <2>4, <3>1, <3>2 DEF IsDetail
  <2>11. at \in ListWaits \cup RowWaits =>
            /\ \A k \in DOMAIN f : IsDetail(f[k]) \/ f[k].of = call.krs
            /\ \A j \in DOMAIN l : IsDetail(l[j]) \/ l[j].of = call.krs
    <3>1. SUFFICES ASSUME at \in ListWaits \cup RowWaits
                   PROVE  /\ \A k \in DOMAIN f : IsDetail(f[k]) \/ f[k].of = call.krs
                          /\ \A j \in DOMAIN l : IsDetail(l[j]) \/ l[j].of = call.krs
      OBVIOUS
    <3>2. /\ \A k \in DOMAIN flight : IsDetail(flight[k]) \/ flight[k].of = call.krs
          /\ \A j \in DOMAIN log : IsDetail(log[j]) \/ log[j].of = call.krs
      BY <2>1, <3>1 DEF PageInv, OfThisCall
    <3>3. \A j \in DOMAIN l : IsDetail(l[j]) \/ l[j].of = call.krs
      BY <1>2, <2>4, <2>5, <3>2
    <3>4. CASE IsDetail(q)
      <4>1. \A k \in DOMAIN f : from(k) \in DOMAIN flight /\ f[k] = flight[from(k)]
        BY <1>11, <3>4 DEF from
      <4> QED BY <3>2, <3>3, <4>1
    <3>5. CASE ~ IsDetail(q)
      BY <1>2, <1>10, <2>1, <3>2, <3>3, <3>5
    <3> QED BY <3>4, <3>5
  <2>12. \A j, k \in DOMAIN l : l[j].path = "file" /\ l[k].path = "saved" => l[j].of = l[k].of
    <3>1. \A j, k \in DOMAIN log : log[j].path = "file" /\ log[k].path = "saved" => log[j].of = log[k].of
      BY <2>1 DEF PageInv, OfThisCall
    <3>2. \A j \in DOMAIN log : log[j].path = "file" /\ r.path = "saved" => log[j].of = r.of
      BY <1>2, <2>7 DEF Follows, IsDetail
    <3>3. \A k \in DOMAIN log : ~ (r.path = "file" /\ log[k].path = "saved")
      BY <1>2, <2>7 DEF Follows, IsDetail
    <3> QED BY <2>4, <3>1, <3>2, <3>3
  <2>13. \A x \in {"entity", "corrections", "file"} :
            (\E j \in DOMAIN log : log[j].path = x) => \E j \in DOMAIN l : l[j].path = x
    BY <2>3
  <2>14. at = "details" => \A j \in DOMAIN l : l[j].path = "corrections" => l[j].of = call.ref
    <3>1. SUFFICES ASSUME at = "details" PROVE \A j \in DOMAIN l : l[j].path = "corrections" => l[j].of = call.ref
      OBVIOUS
    <3>2. PICK k \in DOMAIN log : log[k].path = "corrections"
      BY <2>1, <3>1 DEF PageInv, OfThisCall
    <3>3. r.path # "corrections"
      BY <1>2, <2>7, <3>2 DEF Follows, IsDetail
    <3> QED BY <2>1, <2>4, <3>1, <3>3 DEF PageInv, OfThisCall
  <2>15. /\ at = "list" => \E j \in DOMAIN l : l[j].path = "entity"
         /\ at = "details" => \E j \in DOMAIN l : l[j].path = "corrections"
         /\ at = "saved" => \E j \in DOMAIN l : l[j].path = "file"
    BY <2>1, <2>13 DEF PageInv, OfThisCall
  <2> HIDE DEF q
  <2> QED BY <2>2, <2>8, <2>9, <2>10, <2>11, <2>12, <2>14, <2>15 DEF OfThisCall, IsDetail, Follows, Usable
<1>14. Beliefs'
  <2>1. ASSUME br.loaded, r.path = "list" PROVE at \in ListWaits \cup RowWaits /\ r.of = call.krs
    <3>1. q.path = "list" /\ ~ IsDetail(q)
      BY <1>2, <2>1 DEF IsDetail
    <3>2. "list" \in Chain(at)
      BY <2>1, <3>1 DEF PageInv, OneRequest
    <3>3. at \in ListWaits \cup RowWaits /\ at \in Waiting
      BY <3>2 DEF Chain, ListWaits, RowWaits, Waiting
    <3>4. q.of = call.krs
      BY <2>1, <3>1, <3>3 DEF PageInv, OfThisCall
    <3> QED BY <1>2, <3>3, <3>4
  <2>2. br.loaded /\ br.krs # Null => site'.krs = br.krs
    BY <1>3, <1>7, <2>1 DEF PageInv, Beliefs
  <2>3. br.loaded /\ at \in ListWaits => site'.krs = call.krs
    BY <1>3, <1>7, <2>1 DEF PageInv, Beliefs
  <2> QED BY <1>3, <2>2, <2>3 DEF PageInv, Beliefs
<1>15. CallStands' /\ AnswerOK'
  BY <1>3 DEF PageInv, CallStands, AnswerOK, Right
<1>16. TokensCover' /\ PaidBeforeClick'
  <2>1. pay'.credit + pay'.unpaid = pay.credit + pay.unpaid
    BY <1>3, <1>4 DEF Send, PageInv, PageTypes, Pays
  <2>2. at \in Waiting => log' # <<>>
    BY <1>1, <1>2, <1>3 DEF Waiting
  <2> QED BY <1>3, <2>1, <2>2 DEF PageInv, TokensCover, PaidBeforeClick
<1> QED BY <1>9, <1>12, <1>13, <1>14, <1>15, <1>16 DEF PageInv

----------------------------------------------------------------------------
\* What happens to the browser between two calls.

\* A new browser: a run starts or ends.
LEMMA NewPageStep ==
    ASSUME NewPage, call' = NoCall, answer' = NoAnswer
    PROVE  PageInv'
<1>1. BlankSite \in Sites /\ NewBrowser \in Browsers /\ NoPay \in Pays
  BY BrowserAssumption DEF BlankSite, Sites, Sizes, NewBrowser, Browsers, NoPay, Pays
<1>2. PageTypes'
  BY <1>1 DEF PageTypes, NewPage
<1>3. OneRequest' /\ OfThisCall' /\ Beliefs'
  BY DEF OneRequest, OfThisCall, Beliefs, NewPage, NewBrowser, Waiting, ListWaits, RowWaits
<1>4. CallStands' /\ AnswerOK'
  BY DEF CallStands, AnswerOK, NewPage
<1>5. TokensCover' /\ PaidBeforeClick'
  BY DEF TokensCover, PaidBeforeClick, NewPage, NoPay, DueAt, Waiting
<1> QED BY <1>2, <1>3, <1>4, <1>5 DEF PageInv

LEMMA CallStep ==
    ASSUME PageInv, NEW c \in Calls, Call(c)
    PROVE  PageInv'
<1>1. /\ call = NoCall /\ call' = c /\ answer' = NoAnswer /\ at' = "enter"
      /\ UNCHANGED <<site, flight, log, pay, br, acc>>
  BY DEF Call, BeginCall
<1>2. at = "idle" /\ log = <<>> /\ acc = <<>> /\ Quiet
  BY <1>1, QuietBefore DEF PageInv, CallStands
<1>3. PageTypes'
  BY <1>1 DEF PageInv, PageTypes
<1>4. OneRequest' /\ OfThisCall'
  BY <1>1, <1>2 DEF PageInv, OneRequest, OfThisCall, Quiet, Waiting
<1>5. Beliefs'
  BY <1>1, <1>2 DEF PageInv, Beliefs, ListWaits, RowWaits
<1>6. CallStands' /\ AnswerOK'
  <2>1. c # NoCall
    <3>1. c.op \in Ops
      BY DEF Calls, Ops
    <3> QED BY <3>1 DEF Ops, NoCall
  <2> QED BY <1>1, <2>1 DEF CallStands, AnswerOK
<1>7. TokensCover' /\ PaidBeforeClick'
  BY <1>1, SumCovers DEF TokensCover, PaidBeforeClick, DueAt, Waiting
<1> QED BY <1>3, <1>4, <1>5, <1>6, <1>7 DEF PageInv

LEMMA TakeStep ==
    ASSUME PageInv, Answered, TakeAnswer
    PROVE  PageInv'
<1>1. /\ call' = NoCall /\ answer' = NoAnswer
      /\ UNCHANGED <<site, flight, log, pay, br, at, acc>>
  BY DEF TakeAnswer
<1>2. at = "idle" /\ log = <<>> /\ acc = <<>>
  BY DEF Answered, PageInv, CallStands
<1>3. PageTypes'
  BY <1>1 DEF PageInv, PageTypes
<1>4. OneRequest' /\ OfThisCall'
  BY <1>1, <1>2 DEF PageInv, OneRequest, OfThisCall, Waiting
<1>5. Beliefs'
  BY <1>1, <1>2 DEF PageInv, Beliefs, ListWaits, RowWaits
<1>6. CallStands' /\ AnswerOK'
  BY <1>1, <1>2 DEF CallStands, AnswerOK
<1>7. TokensCover' /\ PaidBeforeClick'
  BY <1>1, <1>2 DEF PageInv, TokensCover, PaidBeforeClick, DueAt, Waiting
<1> QED BY <1>3, <1>4, <1>5, <1>6, <1>7 DEF PageInv

LEMMA SamePage ==
    ASSUME PageInv, UNCHANGED <<call, answer, site, flight, log, pay, br, at, acc>>
    PROVE  PageInv'
<1>1. PageTypes' /\ OneRequest'
  BY DEF PageInv, PageTypes, OneRequest
<1>2. OfThisCall' /\ Beliefs'
  BY DEF PageInv, OfThisCall, Beliefs
<1>3. CallStands' /\ AnswerOK' /\ TokensCover' /\ PaidBeforeClick'
  BY DEF PageInv, CallStands, AnswerOK, TokensCover, PaidBeforeClick, Right
<1> QED BY <1>1, <1>2, <1>3 DEF PageInv

\* An answer is of the call it answers.
LEMMA AnswerIs ==
    ASSUME PageInv, Answered
    PROVE  /\ call \in Calls /\ call # NoCall
           /\ answer.kind = "listing" =>
                 /\ call.op = "open_filing_list"
                 /\ \A i \in DOMAIN answer.pages : InSeq(answer.pages[i].refs) \subseteq Originals
           /\ answer.kind = "view" =>
                 call.op = "open_document" /\ call.ref \in Refs /\ BundleFor(call.ref, answer.refs)
           /\ answer.kind = "file" =>
                 call.op = "download" /\ call.ref \in InSeq(answer.requested) /\ answer.holds = answer.requested
<1>1. call # NoCall /\ call \in Calls
  BY DEF Answered, PageInv, CallStands
<1>2. call.op \in Ops /\ (call.op \in Opens => call.ref \in Refs)
  <2>1. CASE \E k \in Entities : call = [op |-> "open_filing_list", krs |-> k, ref |-> Null]
    BY <2>1 DEF Ops, Opens
  <2>2. CASE \E o \in Ops \ {"open_filing_list"}, r \in Refs : call = [op |-> o, krs |-> Owner[r], ref |-> r]
    <3>1. PICK o \in Ops \ {"open_filing_list"}, r \in Refs : call = [op |-> o, krs |-> Owner[r], ref |-> r]
      BY <2>2
    <3> QED BY <3>1
  <2> QED BY <1>1, <2>1, <2>2 DEF Calls
<1>3. CASE answer \in Errors
  BY <1>1, <1>3 DEF Errors
<1>4. CASE answer \notin Errors
  <2>1. /\ Right(call, answer)
        /\ call.op = "open_filing_list" =>
              \A i \in DOMAIN answer.pages : InSeq(answer.pages[i].refs) \subseteq Originals
        /\ call.op = "open_document" => answer.refs \in Seq(Refs)
    BY <1>4 DEF Answered, PageInv, AnswerOK
  <2>2. CASE call.op = "open_filing_list"
    BY <1>1, <2>1, <2>2 DEF Right, IsListing
  <2>3. CASE call.op = "open_document"
    BY <1>1, <1>2, <2>1, <2>3 DEF Right, IsView, BundleFor, Opens
  <2>4. CASE call.op = "download"
    BY <1>1, <2>1, <2>4 DEF Right, IsFile
  <2> QED BY <1>2, <2>2, <2>3, <2>4 DEF Ops
<1> QED BY <1>3, <1>4

----------------------------------------------------------------------------
\* RDF.

LEMMA SetInSequence ==
    ASSUME NEW S, IsFiniteSet(S)
    PROVE  SetToSeq(S) \in Seq(S)
<1>1. Cardinality(S) \in Nat /\ ExistsBijection(1 .. Cardinality(S), S)
  BY FS_CardinalityType
<1>2. \E f \in [1 .. Cardinality(S) -> S] : IsInjective(f)
  <2>1. PICK f \in Bijection(1 .. Cardinality(S), S) : TRUE
    BY <1>1 DEF ExistsBijection
  <2>2. f \in Injection(1 .. Cardinality(S), S)
    BY <2>1 DEF Bijection
  <2> QED BY <2>2 DEF Injection, IsInjective
<1>3. SetToSeq(S) \in [1 .. Cardinality(S) -> S]
  BY <1>2 DEF SetToSeq
<1> QED BY <1>1, <1>3

LEMMA SourceBegins ==
    ASSUME rdf = [listing |-> Listing, bundle |-> Bundle0]
    PROVE  SourceOK
<1> DEFINE S(d) == {r \in Refs : Original[r] = d /\ r \notin LateRefs \cup {d}}
           b(d) == <<d>> \o SetToSeq(S(d))
<1>1. rdf.listing = Listing /\ rdf.bundle = Bundle0
  OBVIOUS
<1>2. ASSUME NEW d \in Originals PROVE BundleFor(d, b(d))
  <2>1. IsFiniteSet(S(d))
    BY SourceAssumption, FS_Subset
  <2> DEFINE t == SetToSeq(S(d))
  <2>2. t \in Seq(S(d))
    BY <2>1, SetInSequence
  <2>3. <<d>> \in Seq(Refs) /\ d \in Refs /\ Original[d] = d /\ DOMAIN <<d>> = {1} /\ <<d>>[1] = d
    BY <1>2 DEF Originals
  <2>4. t \in Seq(Refs) /\ InSeq(t) \subseteq S(d)
    BY <2>2 DEF InSeq
  <2> DEFINE u == <<d>>
  <2> HIDE DEF t
  <2>5. u \in Seq(Refs) /\ InSeq(u) = {d} /\ 1 \in DOMAIN u /\ u[1] = d
    BY <2>3 DEF InSeq
  <2> HIDE DEF u
  <2>6. /\ u \o t \in Seq(Refs) /\ InSeq(u \o t) \subseteq InSeq(u) \cup InSeq(t)
        /\ \A i \in DOMAIN u : i \in DOMAIN (u \o t) /\ (u \o t)[i] = u[i]
    BY <2>4, <2>5, InSeqConcat
  <2>7. d \in InSeq(u \o t)
    BY <2>5, <2>6 DEF InSeq
  <2> QED BY <2>3, <2>4, <2>5, <2>6, <2>7 DEF BundleFor, t, u
<1>3. Bundle0 = [d \in Refs |-> IF Original[d] # d THEN <<>> ELSE b(d)]
  BY DEF Bundle0
<1> HIDE DEF b
<1>4. Bundle0 \in [Refs -> Seq(Refs)] /\ \A d \in Originals : Bundle0[d] = b(d)
  <2>1. ASSUME NEW d \in Refs PROVE (IF Original[d] # d THEN <<>> ELSE b(d)) \in Seq(Refs)
    BY <1>2 DEF BundleFor, Originals
  <2> QED BY <1>3, <2>1 DEF Originals
<1>5. \A k \in Entities : InSeq(Listing[k]) \subseteq Listed(k)
  <2>1. ASSUME NEW k \in Entities, NEW r \in InSeq(Listing[k]) PROVE r \in Listed(k)
    <3>1. r \in Refs
      BY <2>1, SourceAssumption DEF InSeq
    <3> QED BY <2>1, <3>1, SourceAssumption DEF Listed, Originals
  <2> QED BY <2>1
<1>6. Listing \in [Entities -> Seq(Refs)]
  BY SourceAssumption
<1>7. \A d \in Originals : BundleFor(d, rdf.bundle[d])
  BY <1>1, <1>2, <1>4
<1> QED BY <1>1, <1>4, <1>5, <1>6, <1>7 DEF SourceOK

\* What is filed is added to a list or to a bundle: nothing leaves either.
LEMMA FiledStep ==
    ASSUME SourceOK, NEW r \in Refs, File(r)
    PROVE  SourceOK' /\ \A d \in Refs : InSeq(rdf.bundle[d]) \subseteq InSeq(rdf'.bundle[d])
<1>0. /\ rdf.listing \in [Entities -> Seq(Refs)] /\ rdf.bundle \in [Refs -> Seq(Refs)]
      /\ rdf = [listing |-> rdf.listing, bundle |-> rdf.bundle]
      /\ Owner[r] \in Entities /\ Original[r] \in Refs
  BY SourceAssumption DEF SourceOK
<1>1. CASE Original[r] = r
  <2> DEFINE k == Owner[r]  u == <<r>>  v == rdf.listing[k]  l == u \o v  ls == [rdf.listing EXCEPT ![k] = l]
  <2>1. rdf' = [listing |-> ls, bundle |-> rdf.bundle]
    BY <1>0, <1>1 DEF File
  <2>2. u \in Seq(Refs) /\ v \in Seq(Refs) /\ InSeq(u) = {r}
    BY <1>0 DEF InSeq
  <2> HIDE DEF u, v
  <2>3. l \in Seq(Refs) /\ InSeq(l) \subseteq {r} \cup InSeq(v)
    BY <2>2, InSeqConcat
  <2>4. r \in Listed(k)
    BY <1>1 DEF Listed, Originals
  <2> HIDE DEF l
  <2>5. ls \in [Entities -> Seq(Refs)] /\ \A e \in Entities : ls[e] = IF e = k THEN l ELSE rdf.listing[e]
    BY <1>0, <2>3
  <2> HIDE DEF ls
  <2>6. \A e \in Entities : InSeq(ls[e]) \subseteq Listed(e)
    BY <1>0, <2>3, <2>4, <2>5 DEF SourceOK, v
  <2>7. rdf'.listing = ls /\ rdf'.bundle = rdf.bundle
    BY <2>1
  <2> QED BY <1>0, <2>1, <2>5, <2>6, <2>7 DEF SourceOK
<1>2. CASE Original[r] # r
  <2> DEFINE d == Original[r]  b == Append(rdf.bundle[d], r)  bs == [rdf.bundle EXCEPT ![d] = b]
  <2>1. rdf' = [listing |-> rdf.listing, bundle |-> bs]
    BY <1>0, <1>2 DEF File
  <2>2. rdf.bundle[d] \in Seq(Refs) /\ d \in Originals
    BY <1>0, SourceAssumption DEF Originals
  <2>3. b \in Seq(Refs) /\ InSeq(b) = InSeq(rdf.bundle[d]) \cup {r}
    BY <2>2, InSeqAppend
  <2> HIDE DEF b
  <2>4. bs \in [Refs -> Seq(Refs)] /\ \A e \in Refs : bs[e] = IF e = d THEN b ELSE rdf.bundle[e]
    BY <1>0, <2>3
  <2> HIDE DEF bs
  <2>5. BundleFor(d, b)
    BY <2>2, <2>3 DEF SourceOK, BundleFor
  <2>6. \A e \in Originals : BundleFor(e, bs[e])
    BY <2>4, <2>5 DEF SourceOK, Originals
  <2>7. rdf'.listing = rdf.listing /\ rdf'.bundle = bs
    BY <2>1
  <2>8. \A e \in Refs : InSeq(rdf.bundle[e]) \subseteq InSeq(bs[e])
    BY <2>3, <2>4
  <2> QED BY <1>0, <2>1, <2>4, <2>6, <2>7, <2>8 DEF SourceOK
<1> QED BY <1>1, <1>2

----------------------------------------------------------------------------
\* The flow: what a step of the browser tells it.

Inv == PageInv /\ SourceOK /\ FlowInv

\* A step of the browser is a step of a call: it forgets the log or leaves it, and a view it answers
\* with is the row in hand.
Steps(viewed) ==
    /\ at # "idle" /\ call' = call /\ rdf' = rdf /\ log' \in {log, <<>>}
    /\ answer'.kind = "view" =>
          \/ answer' = answer
          \/ viewed /\ answer'.refs = First("corrections", Null).refs

LEMMA WaysToStep ==
    /\ \A e : Permanent(e) /\ at # "idle" => Steps(FALSE)
    /\ Transient /\ at # "idle" => Steps(FALSE)
    /\ \A a : Reply(a) /\ a.kind # "view" /\ at # "idle" => Steps(FALSE)
    /\ \A r : BadStatus(r) /\ at # "idle" => Steps(FALSE)
    /\ UNCHANGED <<call, answer, rdf, log>> /\ at # "idle" => Steps(FALSE)
    /\ UNCHANGED <<call, answer, rdf>> /\ log' = <<>> /\ at # "idle" => Steps(FALSE)
<1>1. Transient /\ at # "idle" => Steps(FALSE)
  BY DEF Transient, Steps
<1>2. \A a : Reply(a) /\ a.kind # "view" /\ at # "idle" => Steps(FALSE)
  BY DEF Reply, Steps
<1>3. ASSUME NEW e, Permanent(e), at # "idle" PROVE Steps(FALSE)
  BY <1>2, <1>3 DEF Permanent
<1>4. \A r : BadStatus(r) /\ at # "idle" => Steps(FALSE)
  BY <1>1, <1>3 DEF BadStatus
<1>5. /\ UNCHANGED <<call, answer, rdf, log>> /\ at # "idle" => Steps(FALSE)
      /\ UNCHANGED <<call, answer, rdf>> /\ log' = <<>> /\ at # "idle" => Steps(FALSE)
  BY DEF Steps
<1> QED BY <1>1, <1>2, <1>3, <1>4, <1>5

LEMMA WalkSteps ==
    ASSUME at # "idle", NEW pages, NEW e, WalkOn(pages, e)
    PROVE  Steps(FALSE)
BY WaysToStep DEF WalkOn, ListComplete

LEMMA ExpandSteps ==
    ASSUME at # "idle", NEW b, NEW s, NEW p, NEW row, ExpandAt(b, s, p, row)
    PROVE  Steps(FALSE)
BY WaysToStep DEF ExpandAt

LEMMA BrowserSteps ==
    ASSUME BrowserStep
    PROVE  Steps(at = "details")
<1>1. ASSUME NEW s \in Statuses, Enter(s) PROVE Steps(FALSE)
  BY <1>1, WaysToStep DEF Enter, Steps
<1>2. ASSUME Search PROVE Steps(FALSE)
  BY <1>2, WaysToStep DEF Search, Click
<1>3. ASSUME EntityAnswer PROVE Steps(FALSE)
  BY <1>3, WaysToStep DEF EntityAnswer, Await
<1>4. ASSUME ListAnswer PROVE Steps(FALSE)
  BY <1>4, WaysToStep, WalkSteps DEF ListAnswer, Await
<1>5. ASSUME PageAnswer PROVE Steps(FALSE)
  BY <1>5, WaysToStep, WalkSteps DEF PageAnswer
<1>6. ASSUME ShowRow PROVE Steps(FALSE)
  BY <1>6, WaysToStep, ExpandSteps DEF ShowRow, StartRow, Click
<1>7. ASSUME RowPage PROVE Steps(FALSE)
  BY <1>7, WaysToStep, ExpandSteps DEF RowPage
<1>8. ASSUME CorrectionsAnswer PROVE Steps(FALSE)
  BY <1>8, WaysToStep DEF CorrectionsAnswer, Await
<1>9. ASSUME DetailAnswers PROVE Steps(at = "details")
  BY <1>9, WaysToStep DEF DetailAnswers, Steps, Reply
<1>10. ASSUME DownloadExpanded PROVE Steps(FALSE)
  BY <1>10, WaysToStep DEF DownloadExpanded, Click
<1>11. ASSUME FileAnswer PROVE Steps(FALSE)
  BY <1>11, WaysToStep DEF FileAnswer, Await
<1>12. ASSUME SavedFile PROVE Steps(FALSE)
  BY <1>12, WaysToStep DEF SavedFile, Await
<1>13. Steps(FALSE) => Steps(at = "details")
  BY DEF Steps
<1> QED BY <1>1, <1>2, <1>3, <1>4, <1>5, <1>6, <1>7, <1>8, <1>9, <1>10, <1>11, <1>12, <1>13 DEF BrowserStep

\* The flow's own state is not touched by the browser.
LEMMA FlowKeeps ==
    ASSUME FlowInv, UNCHANGED flowVars, call' = call
    PROVE  /\ (RowTypes /\ BundlesFit /\ SharesTheFile /\ RunTypes /\ TodoFits /\ TaskFits /\ CallFits)'
           /\ rdf' = rdf => RowsCovered'
<1>1. RowTypes' /\ BundlesFit' /\ SharesTheFile'
  BY DEF FlowInv, flowVars, RowTypes, BundlesFit, SharesTheFile, HasRow, Detailed
<1>2. RunTypes'
  BY DEF FlowInv, flowVars, RunTypes
<1>3. TodoFits'
  BY DEF FlowInv, flowVars, TodoFits, Retrieving, HasRow, Detailed
<1>4. TaskFits'
  BY DEF FlowInv, flowVars, TaskFits, Retrieving, Current, HasRow, Detailed, Covering
<1>5. CallFits'
  BY DEF FlowInv, flowVars, CallFits, Retrieving, Through, Current
<1>6. rdf' = rdf => RowsCovered'
  BY DEF FlowInv, flowVars, RowsCovered, Covering
<1> QED BY <1>1, <1>2, <1>3, <1>4, <1>5, <1>6

LEMMA BrowsesStep ==
    ASSUME Inv, Browses \/ GivesUp
    PROVE  Inv'
<1>1. UNCHANGED flowVars /\ (BrowserStep \/ TimesOut)
  BY DEF Browses, GivesUp
<1>2. Steps(at = "details")
  <2>1. CASE BrowserStep
    BY <2>1, BrowserSteps
  <2>2. CASE TimesOut
    BY <2>2, WaysToStep DEF TimesOut, Waiting, Steps
  <2> QED BY <1>1, <2>1, <2>2
<1>3. PageInv'
  BY <1>1, BrowserStepKeeps, TimesOutStep DEF Inv
<1>4. SourceOK' /\ rows' = rows /\ rdf' = rdf /\ call' = call
  BY <1>1, <1>2 DEF Inv, SourceOK, Steps, flowVars
<1>5. LogCovers'
  BY <1>2, <1>4 DEF Inv, FlowInv, LogCovers, Names, Covering, Steps
<1>6. AnswerCovers'
  <2>1. SUFFICES ASSUME answer'.kind = "view" PROVE Names(call.ref, answer'.refs)
    BY <1>4 DEF AnswerCovers, Names, Covering
  <2>2. CASE answer' = answer
    BY <2>1, <2>2 DEF Inv, FlowInv, AnswerCovers
  <2>3. CASE at = "details" /\ answer'.refs = First("corrections", Null).refs
    <3>1. /\ \E j \in DOMAIN log : First("corrections", Null) = log[j] /\ log[j].path = "corrections"
          /\ First("corrections", Null).of = call.ref
      BY <2>3, RowInHand DEF Inv
    <3> QED BY <2>3, <3>1 DEF Inv, FlowInv, LogCovers
  <2> QED BY <1>2, <2>1, <2>2, <2>3 DEF Steps
<1> QED BY <1>1, <1>3, <1>4, <1>5, <1>6, FlowKeeps DEF Inv, FlowInv

LEMMA PageAnswersStep ==
    ASSUME Inv, PageAnswers
    PROVE  Inv'
<1>1. PICK i \in DOMAIN flight, s \in Statuses : Arrive(i, s)
  BY DEF PageAnswers, PageStep
<1> DEFINE q == flight[i]  r == Response(q, s)
<1>2. /\ UNCHANGED flowVars /\ UNCHANGED <<call, answer, rdf>>
      /\ log' = IF at = "idle" THEN log ELSE Append(log, r)
  BY <1>1 DEF PageAnswers, Arrive
<1>3. PageInv' /\ SourceOK'
  BY <1>1, <1>2, ArriveStep DEF Inv, SourceOK
<1>4. q \in Requests /\ log \in Seq(Responses)
  BY ElementOfSeq, LenProperties DEF Inv, PageInv, PageTypes
<1>5. /\ r \in Responses /\ r.path = q.path /\ r.of = q.of
      /\ q.path = "corrections" => r.refs = rdf.bundle[q.of]
  BY <1>4, ResponseTyped DEF Inv
<1>6. r.path = "corrections" => Names(r.of, r.refs)
  <2>1. r.path = "corrections" => q.of \in Originals
    BY <1>4, <1>5, RequestFields
  <2> QED BY <1>5, <2>1 DEF Inv, FlowInv, RowsCovered, Names
<1> HIDE DEF r
<1>7. \A j \in DOMAIN log' : (j \in DOMAIN log /\ log'[j] = log[j]) \/ log'[j] = r
  <2>1. CASE at = "idle"
    BY <1>2, <2>1
  <2>2. CASE at # "idle"
    BY <1>2, <1>4, <1>5, <2>2
  <2> QED BY <2>1, <2>2
<1>8. LogCovers'
  <2>1. SUFFICES ASSUME NEW j \in DOMAIN log', log'[j].path = "corrections"
                 PROVE  Names(log'[j].of, log'[j].refs)
    BY <1>2 DEF LogCovers, Names, Covering, flowVars
  <2> QED BY <1>6, <1>7, <2>1 DEF Inv, FlowInv, LogCovers
<1>9. AnswerCovers'
  BY <1>2 DEF Inv, FlowInv, AnswerCovers, Names, Covering, flowVars
<1> QED BY <1>2, <1>3, <1>8, <1>9, FlowKeeps DEF Inv, FlowInv

LEMMA RdfChangesStep ==
    ASSUME Inv, RdfChanges
    PROVE  Inv'
<1>1. PICK r \in Refs : File(r)
  BY DEF RdfChanges
<1>2. /\ UNCHANGED flowVars
      /\ UNCHANGED <<call, answer, site, flight, log, pay, br, at, attempt, acc, faults>>
  BY <1>1 DEF RdfChanges, File
<1>3. SourceOK' /\ \A d \in Refs : InSeq(rdf.bundle[d]) \subseteq InSeq(rdf'.bundle[d])
  BY <1>1, FiledStep DEF Inv
<1>4. PageInv'
  BY <1>2, SamePage DEF Inv
<1>5. RowsCovered'
  BY <1>2, <1>3 DEF Inv, FlowInv, RowsCovered, Covering, flowVars, Originals
<1>6. LogCovers'
  <2>1. SUFFICES ASSUME NEW j \in DOMAIN log, log[j].path = "corrections"
                 PROVE  Names(log[j].of, log[j].refs)'
    BY <1>2 DEF LogCovers
  <2>2. log[j] \in Responses
    BY ElementOfSeq, LenProperties DEF Inv, PageInv, PageTypes
  <2>3. log[j].of \in Refs
    BY <2>1, <2>2, ResponseFields DEF Originals
  <2> QED BY <1>2, <1>3, <2>1, <2>3 DEF Inv, FlowInv, LogCovers, Names, Covering, flowVars
<1>7. AnswerCovers'
  <2>1. answer.kind = "view" => call.ref \in Refs
    BY AnswerIs DEF Inv, Answered, NoAnswer
  <2> QED BY <1>2, <1>3, <2>1 DEF Inv, FlowInv, AnswerCovers, Names, Covering, flowVars
<1> QED BY <1>2, <1>3, <1>4, <1>5, <1>6, <1>7, FlowKeeps DEF Inv, FlowInv

----------------------------------------------------------------------------
\* The flow: rows and the pending list.

LEMMA RowFacts ==
    ASSUME FlowInv, NEW r \in Refs, HasRow(r)
    PROVE  /\ rows[r] \in RowSet /\ rows[r].bundle \in Seq(Refs) /\ rows[r].file \in Seq(Refs)
           /\ Original[r] \in Originals /\ HasRow(Original[r]) /\ DownloadRef(r) = Original[r]
           /\ rows[r].file = rows[Original[r]].file
           /\ NeedsDetail(r) <=> ~ Detailed(r)
           /\ ~ Detailed(r) => Original[r] = r /\ rows[r].file = <<>>
<1>1. Null \notin Refs /\ Original[r] \in Originals
  BY SourceAssumption DEF Originals
<1>2. rows[r] \in RowSet
  BY DEF FlowInv, RowTypes, HasRow
<1>3. rows[r].bundle \in Seq(Refs) /\ rows[r].file \in Seq(Refs)
  BY <1>2 DEF RowSet
<1>4. /\ rows[r].of = IF Original[r] = r THEN Null ELSE Original[r]
      /\ Detailed(r) => \A x \in InSeq(rows[r].bundle) : HasRow(x)
      /\ Original[r] # r => Detailed(r)
  BY DEF FlowInv, BundlesFit
<1>5. DownloadRef(r) = Original[r]
  BY <1>1, <1>4 DEF DownloadRef, Originals
<1>6. NeedsDetail(r) <=> ~ Detailed(r)
  BY <1>4 DEF NeedsDetail, HasRow
<1>7. /\ HasRow(Original[r]) /\ rows[r].file = rows[Original[r]].file
      /\ rows[r].file # <<>> => Detailed(r)
  BY DEF FlowInv, SharesTheFile
<1> QED BY <1>1, <1>2, <1>3, <1>4, <1>5, <1>6, <1>7

\* A list that is not empty has a first item.
LEMMA CurrentIn ==
    ASSUME RunTypes, run.todo # {}
    PROVE  Current \in run.todo
<1> DEFINE places == {Place[p.item] : p \in run.todo}
<1>1. places \subseteq Nat /\ places # {}
  <2>1. \A p \in run.todo : p.item \in Entities \cup Refs
    BY DEF RunTypes, Idle, Lookups, Pending
  <2> QED BY <2>1, RowAssumption
<1>2. \E n \in places : \A m \in places : ~ (<<m, n>> \in OpToRel(<, Nat))
  <2> DEFINE L == OpToRel(<, Nat)
  <2>1. IsWellFoundedOn(L, Nat)
    BY NatLessThanWellFounded
  <2> HIDE DEF places, L
  <2>2. \E n \in places : \A m \in places : ~ (<<m, n>> \in L)
    BY <1>1, <2>1, WFMin
  <2> QED BY <2>2 DEF L
<1>3. PICK n \in places : \A m \in places : ~ (<<m, n>> \in OpToRel(<, Nat))
  BY <1>2
<1>4. \A m \in places : n <= m
  <2> SUFFICES ASSUME NEW m \in places PROVE n <= m
    OBVIOUS
  <2> HIDE DEF places
  <2>1. n \in Nat /\ m \in Nat
    BY <1>1
  <2>2. ~ (<<m, n>> \in OpToRel(<, Nat))
    BY <1>3
  <2>3. ~ (m < n)
    BY <2>1, <2>2, Zenon DEF OpToRel
  <2> QED BY <2>1, <2>3
<1>5. \E p \in run.todo : \A q \in run.todo : Place[p.item] <= Place[q.item]
  BY <1>3, <1>4
<1> QED BY <1>5 DEF Current

\* Every row of a list drawn up when a run starts fits the rows.
LEMMA PendingFits ==
    ASSUME FlowInv, NEW r \in Refs, Owed(r)
    PROVE  LET p == PendingRow(r) IN
           /\ p \in Pending /\ p.item = r /\ HasRow(r) /\ p.of = Original[r] /\ rows[r].file = <<>>
           /\ p.need => ~ Detailed(r) /\ Original[r] = r
           /\ ~ p.need => Detailed(r) /\ p.bundle = rows[r].bundle
<1>1. HasRow(r) /\ (NeedsDetail(r) \/ rows[r].file = <<>>)
  BY DEF Owed, HasRow
<1>2. /\ rows[r].bundle \in Seq(Refs) /\ rows[r].file \in Seq(Refs) /\ Original[r] \in Refs
      /\ DownloadRef(r) = Original[r] /\ (NeedsDetail(r) <=> ~ Detailed(r))
      /\ ~ Detailed(r) => Original[r] = r /\ rows[r].file = <<>>
  BY <1>1, RowFacts DEF Originals
<1> DEFINE need == NeedsDetail(r)  down == rows[r].file # <<>>
<1>3. need \in BOOLEAN /\ down \in BOOLEAN
  BY DEF NeedsDetail
<1>4. PendingRow(r) = [item |-> r, of |-> Original[r], need |-> need, bundle |-> rows[r].bundle, down |-> down]
  BY <1>2 DEF PendingRow
<1>5. need <=> ~ Detailed(r)
  BY <1>2
<1> HIDE DEF need, down
<1>6. PendingRow(r) \in Pending
  BY <1>2, <1>3, <1>4 DEF Pending
<1> QED BY <1>1, <1>2, <1>4, <1>5, <1>6

----------------------------------------------------------------------------
\* The flow's steps.

\* What is said of the rows stays true where they do not change.
LEMMA RowsStay ==
    ASSUME FlowInv, rows' = rows, rdf' = rdf
    PROVE  RowTypes' /\ BundlesFit' /\ SharesTheFile' /\ RowsCovered'
<1>1. RowTypes' /\ BundlesFit' /\ SharesTheFile'
  BY DEF FlowInv, RowTypes, BundlesFit, SharesTheFile, HasRow, Detailed
<1>2. RowsCovered'
  BY DEF FlowInv, RowsCovered, Covering
<1> QED BY <1>1, <1>2

\* Nothing is logged and nothing answered.
LEMMA NothingSaid ==
    ASSUME log' = <<>>, answer' = NoAnswer
    PROVE  LogCovers' /\ AnswerCovers'
BY DEF LogCovers, AnswerCovers, NoAnswer

LEMMA StopStep ==
    ASSUME Inv, Stop
    PROVE  Inv'
<1>1. /\ run' = Idle /\ task' = NoTask /\ call' = NoCall /\ answer' = NoAnswer /\ NewPage
      /\ log' = <<>> /\ rows' = rows /\ rdf' = rdf
  BY DEF Stop, NewPage
<1>2. PageInv' /\ SourceOK'
  BY <1>1, NewPageStep DEF Inv, SourceOK
<1>3. RunTypes' /\ TodoFits' /\ TaskFits' /\ CallFits'
  BY <1>1 DEF RunTypes, TodoFits, TaskFits, CallFits, Retrieving, Idle
<1> QED BY <1>1, <1>2, <1>3, RowsStay, NothingSaid DEF Inv, FlowInv

LEMMA StartIndexingStep ==
    ASSUME Inv, StartIndexing
    PROVE  Inv'
<1> DEFINE todo == {[item |-> k] : k \in {e \in Entities : outcome[e] = "none"}}
<1>1. /\ run = Idle /\ run' = [asset |-> "filing_index", todo |-> todo, saved |-> {}] /\ NewPage
      /\ log' = <<>> /\ UNCHANGED <<call, answer, rdf, rows, task>>
  BY DEF StartIndexing, Start, NewPage
<1>2. task = NoTask /\ call = NoCall /\ answer = NoAnswer
  BY <1>1 DEF Inv, PageInv, CallStands, FlowInv, RunTypes, Idle
<1>3. PageInv' /\ SourceOK'
  BY <1>1, <1>2, NewPageStep DEF Inv, SourceOK
<1>4. todo \subseteq Lookups
  BY DEF Lookups
<1> HIDE DEF todo
<1>5. run' \in [asset : {"filing_index"}, todo : SUBSET Lookups, saved : {{}}] /\ run'.asset = "filing_index"
  BY <1>1, <1>4
<1>6. RunTypes' /\ TodoFits' /\ TaskFits' /\ CallFits'
  BY <1>1, <1>2, <1>5 DEF RunTypes, TodoFits, TaskFits, CallFits, Retrieving
<1> QED BY <1>1, <1>2, <1>3, <1>6, RowsStay, NothingSaid DEF Inv, FlowInv

LEMMA StartRetrievingStep ==
    ASSUME Inv, StartRetrieving
    PROVE  Inv'
<1> DEFINE todo == {PendingRow(r) : r \in {x \in Refs : Owed(x)}}
<1>1. /\ run = Idle /\ run' = [asset |-> "raw_filing_documents", todo |-> todo, saved |-> {}] /\ NewPage
      /\ log' = <<>> /\ UNCHANGED <<call, answer, rdf, rows, task>>
  BY DEF StartRetrieving, Start, NewPage
<1>2. task = NoTask /\ call = NoCall /\ answer = NoAnswer
  BY <1>1 DEF Inv, PageInv, CallStands, FlowInv, RunTypes, Idle
<1>3. PageInv' /\ SourceOK'
  BY <1>1, <1>2, NewPageStep DEF Inv, SourceOK
<1>4. ASSUME NEW p \in todo
      PROVE  /\ p \in Pending /\ HasRow(p.item) /\ p.of = Original[p.item] /\ rows[p.item].file = <<>>
             /\ p.need => ~ Detailed(p.item) /\ Original[p.item] = p.item
             /\ ~ p.need => Detailed(p.item) /\ p.bundle = rows[p.item].bundle
             /\ p = PendingRow(p.item)
  <2>1. PICK r \in Refs : Owed(r) /\ p = PendingRow(r)
    BY <1>4
  <2>2. PendingRow(r).item = r
    BY DEF PendingRow
  <2> QED BY <2>1, <2>2, PendingFits DEF Inv
<1> HIDE DEF todo
<1>5. /\ run' \in [asset : {"raw_filing_documents"}, todo : SUBSET Pending, saved : SUBSET Refs]
      /\ run'.todo = todo /\ run'.saved = {}
  BY <1>1, <1>4
<1>6. RunTypes' /\ TaskFits' /\ CallFits'
  BY <1>1, <1>2, <1>5 DEF RunTypes, TaskFits, CallFits
<1>7. TodoFits'
  <2>1. \A p, q \in todo : p.item = q.item => p = q
    BY <1>4
  <2> QED BY <1>1, <1>2, <1>4, <1>5, <2>1 DEF TodoFits, HasRow, Detailed
<1> QED BY <1>1, <1>2, <1>3, <1>6, <1>7, RowsStay, NothingSaid DEF Inv, FlowInv

\* A call's document is the one whose turn it is, or what it corrects.
LEMMA ThroughIs ==
    ASSUME FlowInv, task # NoTask
    PROVE  /\ task.ref \in Refs /\ HasRow(task.ref) /\ Current \in run.todo /\ Current.item = task.ref
           /\ Through = Original[task.ref] /\ Through \in Originals /\ HasRow(Through)
           /\ rows[Through].file = <<>> /\ Retrieving
<1>1. Retrieving /\ task \in Tasks /\ run.todo # {} /\ Current.item = task.ref /\ rows[task.ref].file = <<>>
  BY DEF FlowInv, TaskFits
<1>2. task.ref \in Refs /\ Current \in run.todo
  BY <1>1, CurrentIn DEF FlowInv, Tasks
<1>3. HasRow(task.ref) /\ Current.of = Original[task.ref] /\ (Current.need => Original[task.ref] = task.ref)
  BY <1>1, <1>2 DEF FlowInv, TodoFits
<1>4. Through = Original[task.ref]
  BY <1>3 DEF Through, FlowInv, TaskFits
<1> QED BY <1>1, <1>2, <1>3, <1>4, RowFacts

LEMMA LookUpStep ==
    ASSUME Inv, LookUp
    PROVE  Inv'
<1> DEFINE c == [op |-> "open_filing_list", krs |-> Current.item, ref |-> Null]
<1>1. /\ run.asset = "filing_index" /\ run.todo # {} /\ Call(c) /\ UNCHANGED flowVars /\ UNCHANGED <<log, rdf>>
      /\ call = NoCall /\ call' = c /\ answer' = NoAnswer
  BY DEF LookUp, Call, BeginCall
<1>2. Current.item \in Entities
  BY <1>1, CurrentIn DEF Inv, FlowInv, RunTypes, Idle, Lookups
<1>3. c \in Calls
  BY <1>2 DEF Calls
<1>4. PageInv' /\ SourceOK'
  BY <1>1, <1>3, CallStep DEF Inv, SourceOK
<1>5. log' = <<>>
  BY <1>1 DEF Inv, PageInv, CallStands
<1>6. TaskFits' /\ TodoFits' /\ CallFits' /\ RunTypes'
  BY <1>1 DEF Inv, FlowInv, TaskFits, TodoFits, CallFits, RunTypes, Retrieving, flowVars, Idle
<1> QED BY <1>1, <1>4, <1>5, <1>6, RowsStay, NothingSaid DEF Inv, FlowInv, flowVars

LEMMA AskStep ==
    ASSUME Inv, Ask
    PROVE  Inv'
<1> DEFINE o == IF task.step = "file" THEN "download" ELSE "open_document"
           c == [op |-> o, krs |-> Owner[task.ref], ref |-> Through]
<1>1. /\ task # NoTask /\ Call(c) /\ UNCHANGED flowVars /\ UNCHANGED <<log, rdf>>
      /\ call = NoCall /\ call' = c /\ answer' = NoAnswer
  BY DEF Ask, Call, BeginCall
<1>2. task.ref \in Refs /\ Through = Original[task.ref] /\ Through \in Refs /\ Retrieving
  BY <1>1, ThroughIs DEF Inv, Originals
<1>3. c \in Calls
  <2>1. Owner[task.ref] = Owner[Through] /\ o \in Ops \ {"open_filing_list"}
    BY <1>2, SourceAssumption DEF Ops
  <2> HIDE DEF o
  <2> QED BY <1>2, <2>1 DEF Calls
<1>4. PageInv' /\ SourceOK'
  BY <1>1, <1>3, CallStep DEF Inv, SourceOK
<1>5. log' = <<>>
  BY <1>1 DEF Inv, PageInv, CallStands
<1>6. TaskFits'
  BY <1>1 DEF Inv, FlowInv, TaskFits, Retrieving, flowVars, Current, HasRow, Detailed, Covering
<1>7. TodoFits'
  BY <1>1 DEF Inv, FlowInv, TodoFits, Retrieving, flowVars, HasRow, Detailed
<1>8. CallFits'
  BY <1>1, <1>2 DEF CallFits, Retrieving, flowVars, Through, Current
<1>9. RunTypes'
  BY <1>1, <1>2 DEF Inv, FlowInv, RunTypes, Retrieving, flowVars, Idle
<1> QED BY <1>1, <1>4, <1>5, <1>6, <1>7, <1>8, <1>9, RowsStay, NothingSaid DEF Inv, FlowInv, flowVars

LEMMA DoneIs ==
    ASSUME RunTypes, run.asset # "none"
    PROVE  /\ Done.asset = run.asset /\ Done.todo = run.todo \ {Current} /\ Done.saved = run.saved
           /\ ~ Retrieving => Done \in [asset : {"filing_index"}, todo : SUBSET Lookups, saved : {{}}]
           /\ Retrieving => /\ Done \in [asset : {"raw_filing_documents"}, todo : SUBSET Pending, saved : SUBSET Refs]
                            /\ run.todo \subseteq Pending /\ run.saved \subseteq Refs
<1> DEFINE rest == run.todo \ {Current}
<1>1. Done = [run EXCEPT !.todo = rest]
  BY DEF Done
<1> HIDE DEF rest
<1>2. CASE run \in [asset : {"filing_index"}, todo : SUBSET Lookups, saved : {{}}]
  <2>1. rest \subseteq Lookups
    BY <1>2 DEF rest
  <2> QED BY <1>1, <1>2, <2>1 DEF Retrieving, rest
<1>3. CASE run \in [asset : {"raw_filing_documents"}, todo : SUBSET Pending, saved : SUBSET Refs]
  <2>1. rest \subseteq Pending /\ run.todo \subseteq Pending /\ run.saved \subseteq Refs
    BY <1>3 DEF rest
  <2> QED BY <1>1, <1>3, <2>1 DEF Retrieving, rest
<1> QED BY <1>2, <1>3 DEF RunTypes, Idle

\* The next of the list, with nothing more in the rows.
LEMMA PassedOn ==
    ASSUME FlowInv, run.asset # "none", run' = Done, task' = NoTask, rows' = rows
    PROVE  RunTypes' /\ TodoFits' /\ TaskFits'
<1>1. /\ Done.asset = run.asset /\ Done.todo = run.todo \ {Current} /\ Done.saved = run.saved
      /\ ~ Retrieving => Done \in [asset : {"filing_index"}, todo : SUBSET Lookups, saved : {{}}]
      /\ Retrieving => Done \in [asset : {"raw_filing_documents"}, todo : SUBSET Pending, saved : SUBSET Refs]
  BY DoneIs DEF FlowInv
<1>2. RunTypes' /\ TaskFits'
  BY <1>1 DEF RunTypes, TaskFits
<1>3. TodoFits'
  <2>1. SUFFICES ASSUME Retrieving PROVE TodoFits'
    BY <1>1 DEF TodoFits, Retrieving
  <2>2. task # NoTask => run.todo # {} /\ Current.item = task.ref /\ Current \in run.todo
    BY CurrentIn DEF FlowInv, TaskFits
  <2>3. /\ \A p, q \in run.todo : p.item = q.item => p = q
        /\ \A p \in run.todo :
              /\ HasRow(p.item) /\ p.of = Original[p.item]
              /\ p.item \notin run.saved => rows[p.item].file = <<>>
              /\ p.need /\ (task # NoTask => task.ref # p.item) => ~ Detailed(p.item)
              /\ p.need => Original[p.item] = p.item
              /\ ~ p.need => Detailed(p.item) /\ p.bundle = rows[p.item].bundle
        /\ \A r \in run.saved : HasRow(r) /\ rows[r].file # <<>>
    BY <2>1 DEF FlowInv, TodoFits
  <2>4. \A p \in Done.todo : p \in run.todo /\ (task # NoTask => task.ref # p.item)
    BY <1>1, <2>2, <2>3
  <2> HIDE DEF Done
  <2> QED BY <1>1, <2>3, <2>4 DEF TodoFits, HasRow, Detailed
<1> QED BY <1>2, <1>3

LEMMA SkipSavedStep ==
    ASSUME Inv, SkipSaved
    PROVE  Inv'
<1>1. /\ run.asset = "raw_filing_documents" /\ run' = Done /\ task = NoTask /\ task' = NoTask /\ rows' = rows
      /\ UNCHANGED <<call, answer, rdf, site, flight, log, pay, br, at, attempt, acc, faults>>
  BY DEF SkipSaved, browserVars
<1>2. PageInv' /\ SourceOK'
  BY <1>1, SamePage DEF Inv, SourceOK
<1>3. RunTypes' /\ TodoFits' /\ TaskFits'
  BY <1>1, PassedOn DEF Inv, FlowInv
<1>4. call = NoCall
  BY <1>1 DEF Inv, FlowInv, CallFits
<1>5. CallFits' /\ LogCovers' /\ AnswerCovers'
  BY <1>1, <1>4 DEF Inv, FlowInv, CallFits, LogCovers, AnswerCovers, Names, Covering
<1> QED BY <1>1, <1>2, <1>3, <1>5, RowsStay DEF Inv, FlowInv

LEMMA RefuseStep ==
    ASSUME Inv, Refuse
    PROVE  Inv'
<1>1. /\ task # NoTask /\ call = NoCall /\ run' = Done /\ task' = NoTask /\ rows' = rows
      /\ UNCHANGED <<call, answer, rdf, site, flight, log, pay, br, at, attempt, acc, faults>>
  BY DEF Refuse, NextDocument, browserVars
<1>2. PageInv' /\ SourceOK'
  BY <1>1, SamePage DEF Inv, SourceOK
<1>3. run.asset # "none"
  BY <1>1, ThroughIs DEF Inv, Retrieving
<1>4. RunTypes' /\ TodoFits' /\ TaskFits'
  BY <1>1, <1>3, PassedOn DEF Inv
<1>5. CallFits' /\ LogCovers' /\ AnswerCovers'
  BY <1>1 DEF Inv, FlowInv, CallFits, LogCovers, AnswerCovers, Names, Covering
<1> QED BY <1>1, <1>2, <1>4, <1>5, RowsStay DEF Inv, FlowInv

LEMMA TakeDocumentStep ==
    ASSUME Inv, TakeDocument
    PROVE  Inv'
<1> DEFINE p == Current  s == FirstStep(p)
<1>1. /\ Retrieving /\ run.todo # {} /\ task = NoTask /\ ~ (p.item \in run.saved /\ ~ p.need)
      /\ task' = [ref |-> p.item, step |-> s, need |-> p.need, bundle |-> p.bundle, names |-> FALSE]
      /\ run' = run /\ rows' = rows
      /\ UNCHANGED <<call, answer, rdf, site, flight, log, pay, br, at, attempt, acc, faults>>
  BY DEF TakeDocument, browserVars, Retrieving
<1>2. PageInv' /\ SourceOK' /\ call = NoCall
  BY <1>1, SamePage DEF Inv, FlowInv, SourceOK, CallFits, Retrieving
<1>3. CallFits' /\ LogCovers' /\ AnswerCovers'
  BY <1>1, <1>2 DEF Inv, FlowInv, CallFits, LogCovers, AnswerCovers, Names, Covering
<1>4. p \in run.todo /\ run.todo \subseteq Pending /\ Current' = p
  BY <1>1, CurrentIn DEF Inv, FlowInv, RunTypes, Retrieving, Idle, Current
<1> HIDE DEF p
<1> DEFINE r == p.item
<1>5. /\ r \in Refs /\ p.need \in BOOLEAN /\ p.bundle \in Seq(Refs)
      /\ HasRow(r) /\ (r \notin run.saved => rows[r].file = <<>>)
      /\ p.need => ~ Detailed(r)
      /\ ~ p.need => Detailed(r) /\ p.bundle = rows[r].bundle
      /\ r \in run.saved => rows[r].file # <<>>
  BY <1>1, <1>4 DEF Inv, FlowInv, TodoFits, Pending
<1>6. rows[r].file = <<>>
  <2>1. p.need => rows[r].file = <<>>
    BY <1>5, RowFacts DEF Inv
  <2> QED BY <1>1, <1>5, <2>1
<1>7. /\ s \in {"detail", "names", "file"}
      /\ s = "detail" => p.need
      /\ s = "names" => ~ p.need /\ Len(p.bundle) > 1
      /\ s = "file" => ~ p.need /\ ~ (Len(p.bundle) > 1)
  BY DEF FirstStep
<1> HIDE DEF s
<1>8. task' \in Tasks /\ task'.ref = r /\ task'.step = s /\ task'.bundle = p.bundle
  BY <1>1, <1>5, <1>7 DEF Tasks
<1>9. ASSUME s = "file"
      PROVE  /\ Detailed(r) /\ p.bundle # <<>> /\ BundleFor(Original[r], p.bundle)
             /\ Covering(Original[r], p.bundle) /\ \A x \in InSeq(p.bundle) : HasRow(x)
  <2>1. /\ Detailed(r) /\ p.bundle = rows[r].bundle /\ ~ (Len(p.bundle) > 1) /\ p.bundle # <<>>
        /\ BundleFor(Original[r], p.bundle) /\ r \in InSeq(p.bundle) /\ \A x \in InSeq(p.bundle) : HasRow(x)
    BY <1>5, <1>7, <1>9 DEF Inv, FlowInv, BundlesFit, Detailed
  <2>2. DOMAIN p.bundle = {1} /\ Len(p.bundle) = 1
    <3>1. ASSUME NEW b \in Seq(Refs), ~ (Len(b) > 1), b # <<>> PROVE DOMAIN b = {1} /\ Len(b) = 1
      <4>1. Len(b) \in Nat /\ Len(b) # 0 /\ DOMAIN b = 1 .. Len(b)
        BY <3>1, EmptySeq, LenProperties
      <4> QED BY <3>1, <4>1
    <3> QED BY <1>5, <2>1, <3>1
  <2>3. Original[r] = r
    BY <2>1, <2>2 DEF BundleFor, InSeq
  <2>4. \A c \in Refs : HasRow(c) /\ Original[c] = r => c = r
    BY <2>1, <2>2, <2>3 DEF Inv, FlowInv, BundlesFit
  <2> QED BY <2>1, <2>3, <2>4 DEF Covering, HasRow
<1>10. TaskFits'
  <2>1. (Current.item = task.ref)'
    BY <1>4, <1>8
  <2>2. (task.step = "detail" => Current.need /\ ~ Detailed(task.ref))'
    BY <1>1, <1>4, <1>5, <1>7, <1>8 DEF Detailed
  <2>3. (task.step = "names" => ~ Current.need /\ Len(rows[task.ref].bundle) > 1)'
    BY <1>1, <1>4, <1>5, <1>7, <1>8
  <2>4. (task.step = "file" =>
              /\ Detailed(task.ref)
              /\ task.bundle # <<>> /\ BundleFor(Original[task.ref], task.bundle)
              /\ Covering(Original[task.ref], task.bundle)
              /\ \A x \in InSeq(task.bundle) : HasRow(x))'
    BY <1>1, <1>8, <1>9 DEF Detailed, Covering, HasRow
  <2>5. (Retrieving /\ task \in Tasks /\ run.todo # {} /\ rows[task.ref].file = <<>>)'
    BY <1>1, <1>6, <1>8 DEF Retrieving
  <2> QED BY <2>1, <2>2, <2>3, <2>4, <2>5 DEF TaskFits
<1>11. TodoFits'
  BY <1>1 DEF Inv, FlowInv, TodoFits, Retrieving, HasRow, Detailed
<1>12. RunTypes'
  BY <1>1 DEF Inv, FlowInv, RunTypes, Retrieving, Idle
<1> QED BY <1>1, <1>2, <1>3, <1>10, <1>11, <1>12, RowsStay DEF Inv, FlowInv

\* The answer is taken: nothing is left of the call.
LEMMA TakenStep ==
    ASSUME Inv, Answered, TakeAnswer
    PROVE  /\ PageInv' /\ SourceOK' /\ CallFits' /\ LogCovers' /\ AnswerCovers'
           /\ rdf' = rdf /\ run.asset # "none"
<1>1. PageInv' /\ rdf' = rdf /\ log' = log /\ call' = NoCall /\ answer' = NoAnswer
  BY TakeStep DEF Inv, TakeAnswer
<1>2. log = <<>> /\ call # NoCall
  BY DEF Inv, PageInv, CallStands, Answered
<1>3. SourceOK' /\ LogCovers' /\ AnswerCovers' /\ CallFits'
  BY <1>1, <1>2, NothingSaid DEF Inv, SourceOK, CallFits
<1>4. run.asset # "none"
  BY <1>2 DEF Inv, FlowInv, RunTypes
<1> QED BY <1>1, <1>3, <1>4

LEMMA FailsStep ==
    ASSUME Inv, Fails
    PROVE  Inv'
<1>1. CASE Stop
  BY <1>1, StopStep
<1>2. CASE Answered /\ run' = Done /\ task' = NoTask /\ TakeAnswer /\ UNCHANGED <<outcome, rows>>
  <2>1. /\ PageInv' /\ SourceOK' /\ CallFits' /\ LogCovers' /\ AnswerCovers'
        /\ rdf' = rdf /\ run.asset # "none"
    BY <1>2, TakenStep
  <2>2. RunTypes' /\ TodoFits' /\ TaskFits'
    BY <1>2, <2>1, PassedOn DEF Inv
  <2> QED BY <1>2, <2>1, <2>2, RowsStay DEF Inv, FlowInv
<1> QED BY <1>1, <1>2 DEF Fails

\* The rows after a list is indexed: each new document one more, without a detail.
LEMMA IndexedRows ==
    ASSUME FlowInv, SourceOK, NEW listed \in SUBSET Originals, rdf' = rdf,
           rows' = [r \in Refs |-> IF r \in listed /\ rows[r] = NoRow THEN ListRow ELSE rows[r]]
    PROVE  RowTypes' /\ BundlesFit' /\ SharesTheFile' /\ RowsCovered'
<1>0. /\ ListRow \in RowSet /\ ListRow # NoRow /\ ListRow.bundle = <<>> /\ ListRow.file = <<>> /\ ListRow.of = Null
      /\ rows \in [Refs -> RowSet \cup {NoRow}]
      /\ \A r \in Originals : r \in Refs /\ Original[r] = r
  <2>1. ListRow \in RowSet /\ ListRow.bundle = <<>> /\ ListRow.file = <<>> /\ ListRow.of = Null
    <3>1. <<>> \in Seq(Refs)
      OBVIOUS
    <3> QED BY <3>1 DEF ListRow, RowSet
  <2>2. NoRow \notin RowSet
    BY RowAssumption DEF RowSet, NoRow
  <2> QED BY <2>1, <2>2 DEF FlowInv, RowTypes, Originals
<1>1. \A r \in Refs : HasRow(r) => rows'[r] = rows[r] /\ HasRow(r)'
  BY DEF HasRow
<1>2. \A r \in Refs : ~ HasRow(r) /\ HasRow(r)' => r \in Originals /\ rows'[r] = ListRow
  BY DEF HasRow
<1>3. RowTypes'
  BY <1>0 DEF RowTypes
<1> DEFINE new == rows'
<1> HIDE DEF new
<1>4. ASSUME NEW r \in Refs, HasRow(r)'
      PROVE  /\ rows'[r].of = IF Original[r] = r THEN Null ELSE Original[r]
             /\ Original[r] # r =>
                   /\ Detailed(r)' /\ HasRow(Original[r])'
                   /\ Detailed(Original[r])' /\ Len(rows'[Original[r]].bundle) # 1
             /\ Detailed(r)' =>
                   /\ BundleFor(Original[r], rows'[r].bundle) /\ r \in InSeq(rows'[r].bundle)
                   /\ \A x \in InSeq(rows'[r].bundle) : HasRow(x)'
  <2>1. CASE HasRow(r)
    <3>1. rows'[r] = rows[r] /\ Original[r] \in Refs
      BY <1>1, <2>1, SourceAssumption
    <3>2. /\ rows[r].of = IF Original[r] = r THEN Null ELSE Original[r]
          /\ Original[r] # r =>
                /\ Detailed(r) /\ HasRow(Original[r])
                /\ Detailed(Original[r]) /\ Len(rows[Original[r]].bundle) # 1
          /\ Detailed(r) =>
                /\ BundleFor(Original[r], rows[r].bundle) /\ r \in InSeq(rows[r].bundle)
                /\ \A x \in InSeq(rows[r].bundle) : HasRow(x)
      BY <2>1 DEF FlowInv, BundlesFit
    <3>3. Original[r] # r => rows'[Original[r]] = rows[Original[r]] /\ HasRow(Original[r])'
      BY <1>1, <3>1, <3>2
    <3>4. Detailed(r) => \A x \in InSeq(rows[r].bundle) : x \in Refs /\ HasRow(x)'
      <4>1. Detailed(r) => \A x \in InSeq(rows[r].bundle) : x \in Refs
        BY <3>2 DEF BundleFor, InSeq
      <4> QED BY <1>1, <3>2, <4>1
    <3> QED BY <3>1, <3>2, <3>3, <3>4 DEF Detailed
  <2>2. CASE ~ HasRow(r)
    BY <1>0, <1>2, <1>4, <2>2 DEF Detailed
  <2> QED BY <2>1, <2>2
<1>5. BundlesFit'
  BY <1>4 DEF BundlesFit
<1>6. SharesTheFile'
  <2>1. SUFFICES ASSUME NEW r \in Refs, HasRow(r)'
                 PROVE  /\ HasRow(Original[r])' /\ rows'[r].file = rows'[Original[r]].file
                        /\ rows'[r].file # <<>> =>
                              /\ Detailed(r)' /\ r \in InSeq(rows'[r].file)
                              /\ \A x \in InSeq(rows'[r].file) : HasRow(x)' /\ Original[x] = Original[r]
    BY DEF SharesTheFile
  <2>2. CASE HasRow(r)
    <3>1. /\ HasRow(Original[r]) /\ rows[r].file = rows[Original[r]].file
          /\ rows[r].file # <<>> =>
                /\ Detailed(r) /\ r \in InSeq(rows[r].file)
                /\ \A x \in InSeq(rows[r].file) : HasRow(x) /\ Original[x] = Original[r]
      BY <2>2 DEF FlowInv, SharesTheFile
    <3>2. rows[r].file \in Seq(Refs) /\ Original[r] \in Refs
      BY <2>2, RowFacts DEF Originals
    <3>3. \A x \in InSeq(rows[r].file) : x \in Refs
      BY <3>2 DEF InSeq
    <3> QED BY <1>1, <2>2, <3>1, <3>2, <3>3 DEF Detailed
  <2>3. CASE ~ HasRow(r)
    BY <1>0, <1>2, <2>1, <2>3
  <2> QED BY <2>2, <2>3
<1>7. RowsCovered'
  <2>1. SUFFICES ASSUME NEW d \in Originals, NEW c \in Refs, HasRow(c)', Original[c] = d
                 PROVE  c \in InSeq(rdf.bundle[d])
    BY DEF RowsCovered, Covering, HasRow
  <2>2. CASE HasRow(c)
    BY <2>1, <2>2 DEF FlowInv, RowsCovered, Covering, HasRow
  <2>3. CASE ~ HasRow(c)
    BY <1>0, <1>2, <2>1, <2>3 DEF SourceOK, BundleFor
  <2> QED BY <2>2, <2>3
<1> QED BY <1>3, <1>5, <1>6, <1>7

LEMMA IndexStep ==
    ASSUME Inv, Index
    PROVE  Inv'
<1>1. /\ run.asset = "filing_index" /\ Answered /\ answer.kind = "listing" /\ run' = Done
      /\ TakeAnswer /\ task' = task
      /\ \/ rows' = [r \in Refs |-> IF r \in ListedIn(answer.pages) /\ rows[r] = NoRow THEN ListRow ELSE rows[r]]
         \/ rows' = rows
  BY DEF Index
<1>2. /\ PageInv' /\ SourceOK' /\ CallFits' /\ LogCovers' /\ AnswerCovers' /\ rdf' = rdf
  BY <1>1, TakenStep
<1>3. ListedIn(answer.pages) \subseteq Originals
  <2>1. \A i \in DOMAIN answer.pages : InSeq(answer.pages[i].refs) \subseteq Originals
    BY <1>1, AnswerIs DEF Inv
  <2> QED BY <2>1 DEF ListedIn
<1>4. RowTypes' /\ BundlesFit' /\ SharesTheFile' /\ RowsCovered'
  BY <1>1, <1>2, <1>3, RowsStay, IndexedRows DEF Inv
<1>5. task = NoTask
  BY <1>1 DEF Inv, FlowInv, TaskFits, Retrieving
<1>6. /\ Done.asset = "filing_index"
      /\ Done \in [asset : {"filing_index"}, todo : SUBSET Lookups, saved : {{}}]
  BY <1>1, DoneIs DEF Inv, FlowInv, Retrieving
<1>7. RunTypes' /\ TodoFits' /\ TaskFits'
  BY <1>1, <1>5, <1>6 DEF RunTypes, TodoFits, TaskFits, Retrieving
<1> QED BY <1>2, <1>4, <1>7 DEF Inv, FlowInv

\* A document's rows once its detail is recorded.
LEMMA RowsOfDetail ==
    ASSUME FlowInv, NEW d \in Originals, HasRow(d), NEW refs, BundleFor(d, refs),
           rows' = WithDetail(d, refs), NEW r \in Refs
    PROVE  /\ HasRow(r) => /\ HasRow(r)' /\ rows'[r] \in RowSet
                           /\ rows'[r].file = rows[r].file /\ rows'[r].of = rows[r].of
                           /\ rows'[r].bundle = IF r \in InSeq(refs) /\ ~ Detailed(r) THEN refs ELSE rows[r].bundle
           /\ r \in InSeq(refs) => HasRow(r)' /\ Detailed(r)'
           /\ r \notin InSeq(refs) => rows'[r] = rows[r]
           /\ ~ HasRow(r) /\ r \in InSeq(refs) =>
                 /\ r # d /\ rows'[r] \in RowSet
                 /\ rows'[r].bundle = refs /\ rows'[r].file = <<>> /\ rows'[r].of = d
<1>1. /\ refs \in Seq(Refs) /\ d \in InSeq(refs) /\ refs # <<>> /\ d \in Refs
  BY DEF BundleFor, InSeq, Originals
<1> DEFINE new == [bundle |-> refs, file |-> <<>>, of |-> d]
           old == [rows[r] EXCEPT !.bundle = refs]
<1>2. [ListRow EXCEPT !.bundle = refs, !.of = d] = new
  <2> DEFINE a == [ListRow EXCEPT !.bundle = refs]
  <2>1. a = [bundle |-> refs, file |-> <<>>, of |-> Null]
    BY DEF ListRow
  <2>2. [ListRow EXCEPT !.bundle = refs, !.of = d] = [a EXCEPT !.of = d]
    OBVIOUS
  <2> HIDE DEF a
  <2> QED BY <2>1, <2>2
<1>3. new \in RowSet /\ new.bundle = refs /\ new.file = <<>> /\ new.of = d
  BY <1>1 DEF RowSet
<1>4. NoRow \notin RowSet
  BY RowAssumption DEF RowSet, NoRow
<1>5. HasRow(r) => /\ old \in RowSet /\ old.bundle = refs /\ old.file = rows[r].file /\ old.of = rows[r].of
  <2>1. HasRow(r) => rows[r] \in RowSet
    BY RowFacts
  <2> QED BY <1>1, <2>1 DEF RowSet
<1> HIDE DEF new, old
<1>6. rows'[r] = IF r \in InSeq(refs)
                 THEN IF ~ HasRow(r) THEN new ELSE IF ~ Detailed(r) THEN old ELSE rows[r]
                 ELSE rows[r]
  <2>1. rows'[r] = IF r = d /\ rows[r] # NoRow /\ rows[r].bundle = <<>> THEN old
                   ELSE IF r \in InSeq(refs) \ {d} /\ rows[d] # NoRow
                        THEN IF rows[r] = NoRow THEN new
                             ELSE IF rows[r].bundle = <<>> THEN old ELSE rows[r]
                   ELSE rows[r]
    BY <1>2 DEF WithDetail, old
  <2> QED BY <1>1, <2>1 DEF HasRow, Detailed
<1>7. HasRow(r) => rows[r] \in RowSet
  BY RowFacts
<1> QED BY <1>1, <1>3, <1>4, <1>5, <1>6, <1>7 DEF HasRow, Detailed

LEMMA DetailedRows ==
    ASSUME FlowInv, SourceOK, NEW d \in Originals, HasRow(d), rows[d].file = <<>>,
           NEW refs, BundleFor(d, refs), Names(d, refs), Detailed(d) => Len(rows[d].bundle) # 1,
           rows' = WithDetail(d, refs), rdf' = rdf
    PROVE  RowTypes' /\ BundlesFit' /\ SharesTheFile' /\ RowsCovered'
<1>1. ASSUME NEW r \in Refs
      PROVE  /\ HasRow(r) => /\ HasRow(r)' /\ rows'[r] \in RowSet
                             /\ rows'[r].file = rows[r].file /\ rows'[r].of = rows[r].of
                             /\ rows'[r].bundle = IF r \in InSeq(refs) /\ ~ Detailed(r) THEN refs ELSE rows[r].bundle
             /\ r \in InSeq(refs) => HasRow(r)' /\ Detailed(r)'
             /\ r \notin InSeq(refs) => rows'[r] = rows[r]
             /\ ~ HasRow(r) /\ r \in InSeq(refs) =>
                   /\ r # d /\ rows'[r] \in RowSet
                   /\ rows'[r].bundle = refs /\ rows'[r].file = <<>> /\ rows'[r].of = d
  BY RowsOfDetail
<1>2. /\ refs \in Seq(Refs) /\ d \in InSeq(refs) /\ d \in Refs /\ Original[d] = d
      /\ \A r \in InSeq(refs) : r \in Refs /\ Original[r] = d
  BY DEF BundleFor, Originals, InSeq
<1>3. \A r \in Refs : HasRow(r) /\ Original[r] = d => r \in InSeq(refs)
  BY DEF Names, Covering, HasRow
<1>4. Detailed(d)' /\ HasRow(d)' /\ rows'[d].file = <<>> /\ rows'[d].of = rows[d].of
  BY <1>1, <1>2
<1>5. RowTypes'
  <2>1. \A r \in Refs : rows'[r] \in RowSet \cup {NoRow}
    BY <1>1 DEF HasRow, NoRow
  <2>2. rows' = [r \in Refs |-> rows'[r]]
    BY DEF WithDetail
  <2> QED BY <2>1, <2>2 DEF RowTypes
\* A second document in the bundle makes it a bundle of several.
<1>6. ASSUME NEW r \in InSeq(refs), r # d PROVE Len(rows'[d].bundle) # 1
  <2>1. Len(refs) # 1
    <3>1. PICK i \in DOMAIN refs : refs[i] = r
      BY DEF InSeq
    <3>2. PICK j \in DOMAIN refs : refs[j] = d
      BY <1>2 DEF InSeq
    <3>3. DOMAIN refs = 1 .. Len(refs) /\ Len(refs) \in Nat
      BY <1>2, LenProperties
    <3> QED BY <1>6, <3>1, <3>2, <3>3
  <2> QED BY <1>1, <1>2, <2>1
<1>7. BundlesFit'
  <2>1. SUFFICES ASSUME NEW r \in Refs, HasRow(r)'
                 PROVE  /\ rows'[r].of = IF Original[r] = r THEN Null ELSE Original[r]
                        /\ Original[r] # r =>
                              /\ Detailed(r)' /\ HasRow(Original[r])'
                              /\ Detailed(Original[r])' /\ Len(rows'[Original[r]].bundle) # 1
                        /\ Detailed(r)' =>
                              /\ BundleFor(Original[r], rows'[r].bundle) /\ r \in InSeq(rows'[r].bundle)
                              /\ \A x \in InSeq(rows'[r].bundle) : HasRow(x)'
    BY DEF BundlesFit
  <2>2. CASE ~ HasRow(r)
    <3>1. r \in InSeq(refs)
      BY <1>1, <2>1, <2>2 DEF HasRow
    <3>2. r # d /\ rows'[r].bundle = refs /\ rows'[r].of = d /\ Original[r] = d /\ Detailed(r)'
      BY <1>1, <1>2, <2>2, <3>1
    <3>3. Len(rows'[d].bundle) # 1
      BY <1>6, <3>1, <3>2
    <3>4. \A x \in InSeq(refs) : HasRow(x)'
      BY <1>1, <1>2
    <3> QED BY <1>4, <3>1, <3>2, <3>3, <3>4
  <2>3. CASE HasRow(r)
    <3> DEFINE o == Original[r]
    <3>1. /\ rows[r].of = IF o = r THEN Null ELSE o
          /\ o # r => /\ Detailed(r) /\ HasRow(o) /\ Detailed(o) /\ Len(rows[o].bundle) # 1
          /\ Detailed(r) =>
                /\ BundleFor(o, rows[r].bundle) /\ r \in InSeq(rows[r].bundle)
                /\ \A x \in InSeq(rows[r].bundle) : HasRow(x)
      BY <2>3 DEF FlowInv, BundlesFit
    <3>2. /\ rows'[r].of = rows[r].of
          /\ rows'[r].bundle = IF r \in InSeq(refs) /\ ~ Detailed(r) THEN refs ELSE rows[r].bundle
      BY <1>1, <2>3
    <3>3. o \in Refs /\ Original[o] = o
      BY SourceAssumption
    <3>4. ASSUME o # r
          PROVE  Detailed(r)' /\ HasRow(o)' /\ Detailed(o)' /\ Len(rows'[o].bundle) # 1
      <4>1. Detailed(r)' /\ HasRow(o)'
        BY <1>1, <3>1, <3>2, <3>3, <3>4 DEF Detailed
      <4>2. rows'[o].bundle = rows[o].bundle
        BY <1>1, <3>1, <3>3, <3>4
      <4> QED BY <3>1, <3>4, <4>1, <4>2 DEF Detailed
    <3>5. ASSUME Detailed(r)'
          PROVE  /\ BundleFor(o, rows'[r].bundle) /\ r \in InSeq(rows'[r].bundle)
                 /\ \A x \in InSeq(rows'[r].bundle) : HasRow(x)'
      <4>1. CASE r \in InSeq(refs) /\ ~ Detailed(r)
        <5>1. rows'[r].bundle = refs /\ o = d
          BY <1>2, <3>2, <4>1
        <5> QED BY <1>1, <1>2, <4>1, <5>1
      <4>2. CASE ~ (r \in InSeq(refs) /\ ~ Detailed(r))
        <5>1. rows'[r].bundle = rows[r].bundle /\ Detailed(r)
          BY <3>2, <3>5, <4>2 DEF Detailed
        <5>2. \A x \in InSeq(rows[r].bundle) : x \in Refs /\ HasRow(x)
          BY <3>1, <5>1 DEF BundleFor, InSeq
        <5> QED BY <1>1, <3>1, <5>1, <5>2
      <4> QED BY <4>1, <4>2
    <3> QED BY <3>1, <3>2, <3>4, <3>5
  <2> QED BY <2>2, <2>3
<1>8. SharesTheFile'
  <2>1. SUFFICES ASSUME NEW r \in Refs, HasRow(r)'
                 PROVE  /\ HasRow(Original[r])' /\ rows'[r].file = rows'[Original[r]].file
                        /\ rows'[r].file # <<>> =>
                              /\ Detailed(r)' /\ r \in InSeq(rows'[r].file)
                              /\ \A x \in InSeq(rows'[r].file) : HasRow(x)' /\ Original[x] = Original[r]
    BY DEF SharesTheFile
  <2>2. CASE ~ HasRow(r)
    <3>1. r \in InSeq(refs)
      BY <1>1, <2>1, <2>2 DEF HasRow
    <3> QED BY <1>1, <1>2, <1>4, <2>2, <3>1
  <2>3. CASE HasRow(r)
    <3> DEFINE o == Original[r]
    <3>1. /\ HasRow(o) /\ rows[r].file = rows[o].file /\ o \in Refs /\ rows[r].file \in Seq(Refs)
      BY <2>3, RowFacts DEF Originals
    <3>2. rows[r].file # <<>> =>
             /\ Detailed(r) /\ r \in InSeq(rows[r].file)
             /\ \A x \in InSeq(rows[r].file) : x \in Refs /\ HasRow(x) /\ Original[x] = o
      <4>1. \A x \in InSeq(rows[r].file) : x \in Refs
        BY <3>1 DEF InSeq
      <4> QED BY <2>3, <4>1 DEF FlowInv, SharesTheFile
    <3>3. rows'[r].file = rows[r].file /\ rows'[o].file = rows[o].file /\ HasRow(o)'
      BY <1>1, <2>3, <3>1
    <3>4. Detailed(r) => Detailed(r)'
      BY <1>1, <2>3 DEF Detailed
    <3> QED BY <1>1, <3>1, <3>2, <3>3, <3>4
  <2> QED BY <2>2, <2>3
<1>9. RowsCovered'
  <2>1. SUFFICES ASSUME NEW e \in Originals, NEW c \in Refs, HasRow(c)', Original[c] = e
                 PROVE  c \in InSeq(rdf.bundle[e])
    BY DEF RowsCovered, Covering, HasRow
  <2>2. CASE HasRow(c)
    BY <2>1, <2>2 DEF FlowInv, RowsCovered, Covering, HasRow
  <2>3. CASE ~ HasRow(c)
    <3>1. c \in InSeq(refs)
      BY <1>1, <2>1, <2>3 DEF HasRow
    <3> QED BY <1>2, <2>1, <3>1 DEF Names
  <2> QED BY <2>2, <2>3
<1> QED BY <1>5, <1>7, <1>8, <1>9

LEMMA ExpandedStep ==
    ASSUME Inv, Expanded
    PROVE  Inv'
<1> DEFINE d == Through  refs == answer.refs  p == Current  named == InSeq(refs) \cap Nameless = {}
<1>1. /\ task # NoTask /\ Answered /\ answer.kind = "view" /\ rows' = WithDetail(d, refs) /\ TakeAnswer
      /\ \/ NextDocument
         \/ task' = [task EXCEPT !.step = "file", !.bundle = refs, !.names = named] /\ run' = run
  BY DEF Expanded
<1>2. /\ PageInv' /\ SourceOK' /\ CallFits' /\ LogCovers' /\ AnswerCovers' /\ rdf' = rdf
      /\ run.asset # "none"
  BY <1>1, TakenStep
<1>3. call.op = "open_document" /\ BundleFor(call.ref, refs) /\ call # NoCall
  BY <1>1, AnswerIs DEF Inv
<1>4. call.ref = d /\ task.step # "file"
  BY <1>1, <1>3 DEF Inv, FlowInv, CallFits, Retrieving
<1>5. /\ task.ref \in Refs /\ HasRow(task.ref) /\ p \in run.todo /\ p.item = task.ref
      /\ d = Original[task.ref] /\ d \in Originals /\ HasRow(d) /\ rows[d].file = <<>> /\ Retrieving
  BY <1>1, ThroughIs DEF Inv
<1>6. /\ task \in Tasks /\ rows[task.ref].file = <<>>
      /\ task.step = "detail" => p.need /\ ~ Detailed(task.ref)
      /\ task.step = "names" => ~ p.need /\ Len(rows[task.ref].bundle) > 1
  BY <1>1 DEF Inv, FlowInv, TaskFits
<1>7. Names(d, refs)
  BY <1>1, <1>4 DEF Inv, FlowInv, AnswerCovers
<1>8. task.step = "detail" => d = task.ref
  BY <1>5, <1>6 DEF Inv, FlowInv, TodoFits
<1>b. named \in BOOLEAN
  OBVIOUS
<1> HIDE DEF d, refs, p, named
<1>9. Detailed(d) => Len(rows[d].bundle) # 1 /\ task.step = "names"
  <2>1. CASE task.step = "detail"
    BY <1>6, <1>8, <2>1
  <2>2. CASE task.step = "names"
    <3>1. CASE d = task.ref
      <4>1. Len(rows[d].bundle) > 1
        BY <1>6, <2>2, <3>1
      <4>2. Len(rows[d].bundle) # 1
        <5>1. rows[d].bundle \in Seq(Refs)
          BY <1>5, RowFacts DEF Inv, Originals
        <5>2. Len(rows[d].bundle) \in Nat
          BY <5>1, LenProperties
        <5>3. \A n \in Nat : n > 1 => n # 1
          OBVIOUS
        <5> QED BY <4>1, <5>2, <5>3
      <4> QED BY <2>2, <4>2
    <3>2. CASE d # task.ref
      BY <1>5, <2>2, <3>2 DEF Inv, FlowInv, BundlesFit
    <3> QED BY <3>1, <3>2
  <2> QED BY <1>4, <1>6, <2>1, <2>2 DEF Tasks
<1>10. RowTypes' /\ BundlesFit' /\ SharesTheFile' /\ RowsCovered'
  BY <1>1, <1>2, <1>3, <1>4, <1>5, <1>7, <1>9, DetailedRows DEF Inv
<1>11. ASSUME NEW r \in Refs
       PROVE  /\ HasRow(r) => /\ HasRow(r)' /\ rows'[r].file = rows[r].file
                              /\ rows'[r].bundle = IF r \in InSeq(refs) /\ ~ Detailed(r) THEN refs ELSE rows[r].bundle
              /\ r \in InSeq(refs) => HasRow(r)' /\ Detailed(r)'
              /\ r \notin InSeq(refs) => rows'[r] = rows[r]
  BY <1>1, <1>3, <1>4, <1>5, RowsOfDetail DEF Inv
<1>12. /\ refs \in Seq(Refs) /\ d \in InSeq(refs) /\ refs # <<>>
       /\ \A r \in InSeq(refs) : r \in Refs /\ Original[r] = d
  BY <1>3, <1>4 DEF BundleFor, InSeq
<1>13. ASSUME NEW q \in run.todo
       PROVE  /\ HasRow(q.item)' /\ q.of = Original[q.item]
              /\ q.item \notin run.saved => rows'[q.item].file = <<>>
              /\ q.need /\ task.ref # q.item => ~ Detailed(q.item)'
              /\ q.need => Original[q.item] = q.item
              /\ ~ q.need => Detailed(q.item)' /\ q.bundle = rows'[q.item].bundle
              /\ p.item = q.item => p = q
  <2>1. q.item \in Refs
    BY <1>2, <1>5, DoneIs DEF Inv, FlowInv, Pending
  <2>2. /\ HasRow(q.item) /\ q.of = Original[q.item]
        /\ q.item \notin run.saved => rows[q.item].file = <<>>
        /\ q.need /\ task.ref # q.item => ~ Detailed(q.item)
        /\ q.need => Original[q.item] = q.item
        /\ ~ q.need => Detailed(q.item) /\ q.bundle = rows[q.item].bundle
        /\ p.item = q.item => p = q
    BY <1>5 DEF Inv, FlowInv, TodoFits
  <2>3. ASSUME q.need, task.ref # q.item PROVE ~ Detailed(q.item)'
    <3>1. CASE q.item \in InSeq(refs)
      <4>1. q.item = d /\ ~ Detailed(d)
        BY <1>12, <2>2, <2>3, <3>1
      <4>2. task.step = "names"
        BY <1>4, <1>6, <1>8, <2>3, <4>1 DEF Tasks
      <4> QED BY <1>5, <2>3, <4>1 DEF Inv, FlowInv, BundlesFit
    <3>2. CASE q.item \notin InSeq(refs)
      BY <1>11, <2>1, <2>2, <2>3, <3>2 DEF Detailed
    <3> QED BY <3>1, <3>2
  <2>4. ~ q.need => Detailed(q.item)' /\ q.bundle = rows'[q.item].bundle
    BY <1>11, <2>1, <2>2 DEF Detailed
  <2> QED BY <1>11, <2>1, <2>2, <2>3, <2>4
<1>14. \A r \in run.saved : HasRow(r)' /\ rows'[r].file # <<>>
  BY <1>2, <1>5, <1>11, DoneIs DEF Inv, FlowInv, TodoFits
<1>15. \A q, s \in run.todo : q.item = s.item => q = s
  BY <1>5 DEF Inv, FlowInv, TodoFits
<1>16. CASE NextDocument
  <2>1. run' = Done /\ task' = NoTask /\ Done.todo = run.todo \ {p} /\ Done.saved = run.saved
    BY <1>2, <1>16, DoneIs DEF NextDocument, Inv, FlowInv, p
  <2>2. RunTypes' /\ TaskFits'
    BY <1>2, <1>5, <2>1, DoneIs DEF Inv, FlowInv, RunTypes, TaskFits
  <2>3. \A q \in Done.todo : q \in run.todo /\ task.ref # q.item
    BY <1>5, <1>13, <2>1
  <2> HIDE DEF Done
  <2>4. TodoFits'
    BY <1>13, <1>14, <1>15, <2>1, <2>3 DEF TodoFits, HasRow, Detailed
  <2> QED BY <1>2, <1>10, <2>2, <2>4 DEF Inv, FlowInv
<1>17. CASE task' = [task EXCEPT !.step = "file", !.bundle = refs, !.names = named] /\ run' = run
  <2> DEFINE t1 == [task EXCEPT !.step = "file"]  t2 == [t1 EXCEPT !.bundle = refs]
  <2>1. task' = [t2 EXCEPT !.names = named]
    BY <1>17
  <2>2. t1 \in Tasks /\ t1.ref = task.ref /\ t1.step = "file"
    BY <1>6 DEF Tasks
  <2> HIDE DEF t1
  <2>3. t2 \in Tasks /\ t2.ref = task.ref /\ t2.step = "file" /\ t2.bundle = refs
    BY <1>12, <2>2 DEF Tasks
  <2> HIDE DEF t2
  <2>4. task' \in Tasks /\ task'.ref = task.ref /\ task'.step = "file" /\ task'.bundle = refs
    BY <1>b, <2>1, <2>3 DEF Tasks
  <2>5. Detailed(task.ref)'
    <3>1. task.step = "detail" => task.ref \in InSeq(refs)
      BY <1>8, <1>12
    <3>2. task.step = "names" => Detailed(task.ref)
      <4>1. rows[task.ref].bundle = <<>> => Len(rows[task.ref].bundle) = 0
        BY EmptySeq
      <4> QED BY <1>6, <4>1 DEF Detailed
    <3>3. task.step \in {"detail", "names"}
      BY <1>4, <1>6 DEF Tasks
    <3>4. Detailed(task.ref) => Detailed(task.ref)'
      <4>1. HasRow(task.ref) => rows'[task.ref].bundle =
               IF task.ref \in InSeq(refs) /\ ~ Detailed(task.ref) THEN refs ELSE rows[task.ref].bundle
        BY <1>5, <1>11
      <4>2. Detailed(task.ref) => rows'[task.ref].bundle = rows[task.ref].bundle
        BY <1>5, <4>1
      <4> QED BY <1>17, <2>4, <4>2 DEF Detailed
    <3>5. task.ref \in InSeq(refs) => Detailed(task.ref)'
      BY <1>5, <1>11, <2>4 DEF Detailed
    <3> QED BY <3>1, <3>2, <3>3, <3>4, <3>5
  <2>6. ASSUME NEW c \in Refs, rows'[c] # NoRow, Original[c] = d PROVE c \in InSeq(refs)
    BY <1>7, <1>11, <2>6 DEF Names, Covering
  <2>7. p = Current' /\ rows'[task.ref].file = <<>> /\ (run.todo # {} /\ Retrieving)'
    BY <1>5, <1>6, <1>11, <1>17 DEF Retrieving, Current, p
  <2>8. TaskFits'
    <3>1. \A x \in InSeq(refs) : HasRow(x)'
      BY <1>11, <1>12
    <3>2. BundleFor(Original[task.ref], refs)
      BY <1>3, <1>4, <1>5
    <3>3. (Retrieving /\ task \in Tasks /\ run.todo # {} /\ Current.item = task.ref /\ rows[task.ref].file = <<>>)'
      BY <1>5, <2>4, <2>7
    <3>4. (task.step # "detail" /\ task.step # "names" /\ Detailed(task.ref) /\ task.bundle # <<>>)'
      BY <1>12, <2>4, <2>5 DEF Detailed
    <3>5. BundleFor(Original[task'.ref], task'.bundle) /\ \A x \in InSeq(task'.bundle) : HasRow(x)'
      BY <2>4, <3>1, <3>2
    <3>6. Covering(Original[task.ref], task.bundle)'
      BY <1>5, <2>4, <2>6 DEF Covering
    <3> QED BY <3>3, <3>4, <3>5, <3>6 DEF TaskFits
  <2>9. TodoFits'
    <3>1. task' # NoTask
      BY <1>5, <2>4, SourceAssumption DEF NoTask
    <3> QED BY <1>13, <1>14, <1>15, <1>17, <2>4, <3>1 DEF TodoFits, HasRow, Detailed
  <2>10. RunTypes'
    BY <1>5, <1>17 DEF Inv, FlowInv, RunTypes, Retrieving, Idle
  <2> QED BY <1>2, <1>10, <2>8, <2>9, <2>10 DEF Inv, FlowInv
<1> QED BY <1>1, <1>16, <1>17

\* A document's rows once its file is recorded.
LEMMA RowsOfFile ==
    ASSUME FlowInv, NEW d \in Originals, HasRow(d), rows[d].file = <<>>,
           NEW s, BundleFor(d, s), \A x \in InSeq(s) : HasRow(x),
           rows' = [r \in Refs |-> IF r \in InSeq(s) /\ rows[r] # NoRow /\ rows[r].file = <<>>
                                   THEN [rows[r] EXCEPT !.file = s] ELSE rows[r]],
           NEW r \in Refs
    PROVE  /\ HasRow(r)' <=> HasRow(r)
           /\ HasRow(r) => rows'[r] \in RowSet /\ rows'[r].bundle = rows[r].bundle /\ rows'[r].of = rows[r].of
           /\ rows'[r].file = IF r \in InSeq(s) THEN s ELSE rows[r].file
           /\ ~ HasRow(r) => rows'[r] = NoRow
<1> DEFINE new == [rows[r] EXCEPT !.file = s]
<1>1. s \in Seq(Refs) /\ \A x \in InSeq(s) : x \in Refs /\ Original[x] = d
  BY DEF BundleFor, InSeq
<1>2. r \in InSeq(s) => HasRow(r) /\ rows[r].file = <<>>
  BY <1>1, RowFacts
<1>3. HasRow(r) => rows[r] \in RowSet
  BY RowFacts
<1>4. HasRow(r) => new \in RowSet /\ new.file = s /\ new.bundle = rows[r].bundle /\ new.of = rows[r].of
  BY <1>1, <1>3 DEF RowSet
<1> HIDE DEF new
<1>5. rows'[r] = IF r \in InSeq(s) THEN new ELSE rows[r]
  BY <1>2 DEF HasRow, new
<1>6. NoRow \notin RowSet
  BY RowAssumption DEF RowSet, NoRow
<1> QED BY <1>2, <1>3, <1>4, <1>5, <1>6 DEF HasRow

LEMMA FiledRows ==
    ASSUME FlowInv, NEW d \in Originals, HasRow(d), rows[d].file = <<>>, Detailed(d),
           NEW s, BundleFor(d, s), Covering(d, s), \A x \in InSeq(s) : HasRow(x),
           rows' = [r \in Refs |-> IF r \in InSeq(s) /\ rows[r] # NoRow /\ rows[r].file = <<>>
                                   THEN [rows[r] EXCEPT !.file = s] ELSE rows[r]],
           rdf' = rdf
    PROVE  RowTypes' /\ BundlesFit' /\ SharesTheFile' /\ RowsCovered'
<1>1. ASSUME NEW r \in Refs
      PROVE  /\ HasRow(r)' <=> HasRow(r)
             /\ HasRow(r) => rows'[r] \in RowSet /\ rows'[r].bundle = rows[r].bundle /\ rows'[r].of = rows[r].of
             /\ rows'[r].file = IF r \in InSeq(s) THEN s ELSE rows[r].file
             /\ ~ HasRow(r) => rows'[r] = NoRow
             /\ HasRow(r) => (Detailed(r)' <=> Detailed(r))
  <2>1. /\ HasRow(r)' <=> HasRow(r)
        /\ HasRow(r) => rows'[r] \in RowSet /\ rows'[r].bundle = rows[r].bundle /\ rows'[r].of = rows[r].of
        /\ rows'[r].file = IF r \in InSeq(s) THEN s ELSE rows[r].file
        /\ ~ HasRow(r) => rows'[r] = NoRow
    BY RowsOfFile
  <2> QED BY <2>1 DEF Detailed
<1>2. s \in Seq(Refs) /\ d \in InSeq(s) /\ \A x \in InSeq(s) : x \in Refs /\ Original[x] = d
  BY DEF BundleFor, InSeq
<1>3. RowTypes'
  <2>1. \A r \in Refs : rows'[r] \in RowSet \cup {NoRow}
    BY <1>1
  <2>2. rows' = [r \in Refs |-> rows'[r]]
    OBVIOUS
  <2> QED BY <2>1, <2>2 DEF RowTypes
<1>4. BundlesFit'
  <2>1. SUFFICES ASSUME NEW r \in Refs, HasRow(r)'
                 PROVE  /\ rows'[r].of = IF Original[r] = r THEN Null ELSE Original[r]
                        /\ Original[r] # r =>
                              /\ Detailed(r)' /\ HasRow(Original[r])'
                              /\ Detailed(Original[r])' /\ Len(rows'[Original[r]].bundle) # 1
                        /\ Detailed(r)' =>
                              /\ BundleFor(Original[r], rows'[r].bundle) /\ r \in InSeq(rows'[r].bundle)
                              /\ \A x \in InSeq(rows'[r].bundle) : HasRow(x)'
    BY DEF BundlesFit
  <2> DEFINE o == Original[r]
  <2>2. /\ rows[r].of = IF o = r THEN Null ELSE o
        /\ o # r => /\ Detailed(r) /\ HasRow(o) /\ Detailed(o) /\ Len(rows[o].bundle) # 1
        /\ Detailed(r) =>
              /\ BundleFor(o, rows[r].bundle) /\ r \in InSeq(rows[r].bundle)
              /\ \A x \in InSeq(rows[r].bundle) : HasRow(x)
    BY <1>1, <2>1 DEF FlowInv, BundlesFit
  <2>3. o \in Refs
    BY SourceAssumption
  <2>4. Detailed(r) => \A x \in InSeq(rows[r].bundle) : x \in Refs
    BY <2>2 DEF BundleFor, InSeq
  <2>5. o # r => Detailed(r)' /\ HasRow(o)' /\ Detailed(o)' /\ rows'[o].bundle = rows[o].bundle
    BY <1>1, <2>1, <2>2, <2>3
  <2>6. rows'[r].of = rows[r].of /\ rows'[r].bundle = rows[r].bundle /\ (Detailed(r)' => Detailed(r))
    BY <1>1, <2>1
  <2>7. Detailed(r) => \A x \in InSeq(rows[r].bundle) : HasRow(x)'
    BY <1>1, <2>2, <2>4
  <2> HIDE DEF o
  <2>8. Detailed(r)' =>
           /\ BundleFor(o, rows'[r].bundle) /\ r \in InSeq(rows'[r].bundle)
           /\ \A x \in InSeq(rows'[r].bundle) : HasRow(x)'
    BY <2>2, <2>6, <2>7
  <2> QED BY <2>2, <2>5, <2>6, <2>8 DEF o
<1>5. SharesTheFile'
  <2>1. SUFFICES ASSUME NEW r \in Refs, HasRow(r)'
                 PROVE  /\ HasRow(Original[r])' /\ rows'[r].file = rows'[Original[r]].file
                        /\ rows'[r].file # <<>> =>
                              /\ Detailed(r)' /\ r \in InSeq(rows'[r].file)
                              /\ \A x \in InSeq(rows'[r].file) : HasRow(x)' /\ Original[x] = Original[r]
    BY DEF SharesTheFile
  <2> DEFINE o == Original[r]
  <2>2. HasRow(r) /\ HasRow(o) /\ rows[r].file = rows[o].file /\ o \in Originals /\ o \in Refs
        /\ rows[r].file \in Seq(Refs)
    BY <1>1, <2>1, RowFacts DEF Originals
  <2>3. CASE o = d
    <3>1. r \in InSeq(s)
      BY <2>2, <2>3 DEF Covering, HasRow
    <3>2. rows'[r].file = s /\ rows'[o].file = s /\ HasRow(o)'
      BY <1>1, <1>2, <2>2, <2>3, <3>1
    <3>3. Detailed(r)
      BY <2>2, <2>3 DEF FlowInv, BundlesFit
    <3>4. \A x \in InSeq(s) : HasRow(x)' /\ Original[x] = d
      BY <1>1, <1>2
    <3> QED BY <1>1, <2>2, <2>3, <3>1, <3>2, <3>3, <3>4
  <2>4. CASE o # d
    <3>1. r \notin InSeq(s) /\ o \notin InSeq(s)
      BY <1>2, <2>2, <2>4 DEF Originals
    <3>2. rows[r].file # <<>> =>
             /\ Detailed(r) /\ r \in InSeq(rows[r].file)
             /\ \A x \in InSeq(rows[r].file) : HasRow(x) /\ Original[x] = o
      BY <2>2 DEF FlowInv, SharesTheFile
    <3>3. \A x \in InSeq(rows[r].file) : x \in Refs
      BY <2>2 DEF InSeq
    <3>4. rows'[r].file = rows[r].file /\ rows'[o].file = rows[o].file /\ HasRow(o)'
      BY <1>1, <2>2, <3>1
    <3>5. rows[r].file # <<>> =>
             /\ Detailed(r)' /\ r \in InSeq(rows[r].file)
             /\ \A x \in InSeq(rows[r].file) : HasRow(x)' /\ Original[x] = o
      BY <1>1, <2>2, <3>2, <3>3
    <3> QED BY <2>2, <3>4, <3>5
  <2> QED BY <2>3, <2>4
<1>6. RowsCovered'
  <2>1. SUFFICES ASSUME NEW e \in Originals, NEW c \in Refs, HasRow(c)', Original[c] = e
                 PROVE  c \in InSeq(rdf.bundle[e])
    BY DEF RowsCovered, Covering, HasRow
  <2>2. HasRow(c)
    BY <1>1, <2>1
  <2> QED BY <2>1, <2>2 DEF FlowInv, RowsCovered, Covering, HasRow
<1> QED BY <1>3, <1>4, <1>5, <1>6

LEMMA SavedStep ==
    ASSUME Inv, Saved
    PROVE  Inv'
<1> DEFINE d == Through  s == Expected  p == Current
<1>1. /\ task # NoTask /\ Answered /\ answer.kind = "file" /\ task' = NoTask /\ TakeAnswer
      /\ \/ /\ Covers(answer.requested)
            /\ rows' = [r \in Refs |-> IF r \in InSeq(s) /\ rows[r] # NoRow /\ rows[r].file = <<>>
                                       THEN [rows[r] EXCEPT !.file = answer.holds] ELSE rows[r]]
            /\ run' = [Done EXCEPT !.saved = @ \cup InSeq(s)]
         \/ run' = Done /\ rows' = rows
  BY DEF Saved, SavedWith
<1>2. /\ PageInv' /\ SourceOK' /\ CallFits' /\ LogCovers' /\ AnswerCovers' /\ rdf' = rdf
      /\ run.asset # "none"
  BY <1>1, TakenStep
<1>3. CASE run' = Done /\ rows' = rows
  <2>1. RunTypes' /\ TodoFits' /\ TaskFits'
    BY <1>1, <1>2, <1>3, PassedOn DEF Inv
  <2> QED BY <1>2, <1>3, <2>1, RowsStay DEF Inv, FlowInv
<1>4. CASE /\ Covers(answer.requested)
           /\ rows' = [r \in Refs |-> IF r \in InSeq(s) /\ rows[r] # NoRow /\ rows[r].file = <<>>
                                      THEN [rows[r] EXCEPT !.file = answer.holds] ELSE rows[r]]
           /\ run' = [Done EXCEPT !.saved = @ \cup InSeq(s)]
  <2>1. call.op = "download" /\ answer.holds = answer.requested /\ answer.requested = s /\ call # NoCall
    BY <1>1, <1>4, AnswerIs DEF Inv, Covers
  <2>2. task.step = "file"
    BY <1>1, <2>1 DEF Inv, FlowInv, CallFits, Retrieving
  <2>3. /\ task.ref \in Refs /\ HasRow(task.ref) /\ p \in run.todo /\ p.item = task.ref
        /\ d = Original[task.ref] /\ d \in Originals /\ HasRow(d) /\ rows[d].file = <<>> /\ Retrieving
    BY <1>1, ThroughIs DEF Inv
  <2>4. /\ s = task.bundle /\ s # <<>> /\ BundleFor(d, s) /\ Covering(d, s)
        /\ \A x \in InSeq(s) : HasRow(x)
    BY <1>1, <2>2, <2>3 DEF Inv, FlowInv, TaskFits, Expected
  <2>5. Detailed(d)
    BY <1>1, <2>2, <2>3 DEF Inv, FlowInv, TaskFits, BundlesFit
  <2>6. rows' = [r \in Refs |-> IF r \in InSeq(s) /\ rows[r] # NoRow /\ rows[r].file = <<>>
                                THEN [rows[r] EXCEPT !.file = s] ELSE rows[r]]
    BY <1>4, <2>1
  <2> HIDE DEF d, s, p
  <2>7. RowTypes' /\ BundlesFit' /\ SharesTheFile' /\ RowsCovered'
    BY <1>2, <2>3, <2>4, <2>5, <2>6, FiledRows DEF Inv
  <2>8. ASSUME NEW r \in Refs
        PROVE  /\ HasRow(r)' <=> HasRow(r)
               /\ HasRow(r) => rows'[r].bundle = rows[r].bundle
               /\ rows'[r].file = IF r \in InSeq(s) THEN s ELSE rows[r].file
    BY <2>3, <2>4, <2>6, RowsOfFile DEF Inv
  <2>9. /\ Done.asset = run.asset /\ Done.todo = run.todo \ {p} /\ Done.saved = run.saved
        /\ Done \in [asset : {"raw_filing_documents"}, todo : SUBSET Pending, saved : SUBSET Refs]
        /\ run.todo \subseteq Pending /\ run.saved \subseteq Refs
    BY <1>2, <2>3, DoneIs DEF Inv, FlowInv, p
  <2>10. InSeq(s) \subseteq Refs
    BY <2>4 DEF BundleFor, InSeq
  <2> DEFINE saved == run.saved \cup InSeq(s)
  <2>11. run' = [Done EXCEPT !.saved = saved]
    BY <1>4, <2>9
  <2> HIDE DEF saved, Done
  <2>12. /\ run' \in [asset : {"raw_filing_documents"}, todo : SUBSET Pending, saved : SUBSET Refs]
         /\ run'.todo = run.todo \ {p} /\ run'.saved = saved
    <3>1. saved \subseteq Refs
      BY <2>9, <2>10 DEF saved
    <3> QED BY <2>9, <2>11, <3>1
  <2>13. RunTypes' /\ TaskFits'
    BY <1>1, <2>12 DEF RunTypes, TaskFits
  <2>14. ASSUME NEW q \in run'.todo
         PROVE  /\ HasRow(q.item)' /\ q.of = Original[q.item]
                /\ q.item \notin saved => rows'[q.item].file = <<>>
                /\ q.need => ~ Detailed(q.item)'
                /\ q.need => Original[q.item] = q.item
                /\ ~ q.need => Detailed(q.item)' /\ q.bundle = rows'[q.item].bundle
    <3>1. q \in run.todo /\ q # p /\ q.item \in Refs
      BY <2>9, <2>12 DEF Pending
    <3>2. q.item # task.ref
      BY <2>3, <3>1 DEF Inv, FlowInv, TodoFits
    <3>3. /\ HasRow(q.item) /\ q.of = Original[q.item]
          /\ q.item \notin run.saved => rows[q.item].file = <<>>
          /\ q.need => ~ Detailed(q.item)
          /\ q.need => Original[q.item] = q.item
          /\ ~ q.need => Detailed(q.item) /\ q.bundle = rows[q.item].bundle
      BY <2>3, <3>1, <3>2 DEF Inv, FlowInv, TodoFits
    <3> QED BY <2>8, <3>1, <3>3 DEF Detailed, saved
  <2>15. \A r \in saved : HasRow(r)' /\ rows'[r].file # <<>>
    <3>1. \A r \in run.saved : HasRow(r) /\ rows[r].file # <<>> /\ r \in Refs
      BY <2>3, <2>9 DEF Inv, FlowInv, TodoFits
    <3> QED BY <2>4, <2>8, <2>10, <3>1 DEF saved
  <2>16. \A q, t \in run'.todo : q.item = t.item => q = t
    BY <2>3, <2>12 DEF Inv, FlowInv, TodoFits
  <2>17. TodoFits'
    BY <1>1, <2>12, <2>14, <2>15, <2>16 DEF TodoFits, HasRow, Detailed
  <2> QED BY <1>2, <2>7, <2>13, <2>17 DEF Inv, FlowInv
<1> QED BY <1>1, <1>3, <1>4

----------------------------------------------------------------------------
LEMMA InvBegins ==
    ASSUME RetrievalInit
    PROVE  Inv
<1>1. /\ site = BlankSite /\ flight = <<>> /\ log = <<>> /\ pay = NoPay /\ br = NewBrowser /\ at = "idle"
      /\ acc = <<>> /\ call = NoCall /\ answer = NoAnswer
      /\ rdf = [listing |-> Listing, bundle |-> Bundle0]
      /\ rows = [r \in Refs |-> NoRow] /\ run = Idle /\ task = NoTask
  BY DEF RetrievalInit, BrowserInit
<1>2. BlankSite \in Sites /\ NewBrowser \in Browsers /\ NoPay \in Pays
  BY BrowserAssumption DEF BlankSite, Sites, Sizes, NewBrowser, Browsers, NoPay, Pays
<1>3. PageTypes
  BY <1>1, <1>2 DEF PageTypes
<1>4. OneRequest /\ OfThisCall /\ Beliefs
  BY <1>1 DEF OneRequest, OfThisCall, Beliefs, NewBrowser, Waiting, ListWaits, RowWaits
<1>5. CallStands /\ AnswerOK /\ TokensCover /\ PaidBeforeClick
  BY <1>1 DEF CallStands, AnswerOK, TokensCover, PaidBeforeClick, NoPay, DueAt, Waiting
<1>6. SourceOK
  BY <1>1, SourceBegins
<1>7. RowTypes /\ BundlesFit /\ SharesTheFile /\ RowsCovered
  BY <1>1 DEF RowTypes, BundlesFit, SharesTheFile, RowsCovered, HasRow, Covering
<1>8. RunTypes /\ TodoFits /\ TaskFits /\ CallFits
  BY <1>1 DEF RunTypes, TodoFits, TaskFits, CallFits, Retrieving, Idle
<1>9. LogCovers /\ AnswerCovers
  BY <1>1 DEF LogCovers, AnswerCovers, NoAnswer
<1> QED BY <1>3, <1>4, <1>5, <1>6, <1>7, <1>8, <1>9 DEF Inv, PageInv, FlowInv

LEMMA InvStays ==
    ASSUME Inv, [RetrievalNext]_vars
    PROVE  Inv'
<1>1. CASE UNCHANGED vars
  <2>1. UNCHANGED flowVars /\ UNCHANGED <<call, answer, rdf, site, flight, log, pay, br, at, attempt, acc, faults>>
    BY <1>1 DEF vars, browserVars
  <2>2. PageInv' /\ SourceOK'
    BY <2>1, SamePage DEF Inv, SourceOK
  <2>3. LogCovers' /\ AnswerCovers'
    BY <2>1 DEF Inv, FlowInv, LogCovers, AnswerCovers, Names, Covering, flowVars
  <2> QED BY <2>1, <2>2, <2>3, FlowKeeps DEF Inv, FlowInv
<1>2. CASE RunEnds
  BY <1>2, StopStep DEF RunEnds
<1>3. CASE RunDies
  BY <1>3, StopStep DEF RunDies
<1>4. CASE Runs
  BY <1>4, <1>2, StartIndexingStep, StartRetrievingStep, LookUpStep, IndexStep, SkipSavedStep,
     TakeDocumentStep, AskStep, RefuseStep, ExpandedStep, SavedStep, FailsStep DEF Runs
<1> QED BY <1>1, <1>3, <1>4, BrowsesStep, PageAnswersStep, RdfChangesStep DEF RetrievalNext

\* The inductive invariant holds.
THEOREM IInvHolds == RetrievalSpec => []Inv
<1>1. RetrievalInit => Inv
  BY InvBegins
<1>2. Inv /\ [RetrievalNext]_vars => Inv'
  BY InvStays
<1> QED BY <1>1, <1>2, PTL DEF RetrievalSpec

\* Before any answer to a click, what was paid covers every request sent (_click, _finish).
THEOREM PaidFor == RetrievalSpec => []PaidBeforeClick
<1>1. Inv => PaidBeforeClick
  BY DEF Inv, PageInv
<1> QED BY <1>1, IInvHolds, PTL

\* A row's file is its document's and its corrections', each of which has a row with the same file.
THEOREM FilesAreOfOneBundle == RetrievalSpec => []OneFileOneBundle
<1>1. ASSUME Inv PROVE OneFileOneBundle
  <2>1. SUFFICES ASSUME NEW r \in Refs, HasRow(r), rows[r].file # <<>>
                 PROVE  /\ r \in InSeq(rows[r].file)
                        /\ \A x \in InSeq(rows[r].file) :
                              Original[x] = Original[r] /\ HasRow(x) /\ rows[x].file = rows[r].file
    BY DEF OneFileOneBundle, HasRow
  <2>2. /\ rows[r].file = rows[Original[r]].file /\ r \in InSeq(rows[r].file)
        /\ \A x \in InSeq(rows[r].file) : HasRow(x) /\ Original[x] = Original[r]
    BY <1>1, <2>1 DEF Inv, FlowInv, SharesTheFile
  <2>3. \A x \in InSeq(rows[r].file) : x \in Refs
    BY <1>1, <2>1, RowFacts DEF Inv, InSeq
  <2>4. \A x \in InSeq(rows[r].file) : rows[x].file = rows[Original[x]].file
    BY <1>1, <2>2, <2>3 DEF Inv, FlowInv, SharesTheFile
  <2> QED BY <2>2, <2>4
<1> QED BY <1>1, IInvHolds, PTL

\* A document whose row has a file is not asked for again, however stale the run's list.
THEOREM NothingDownloadedTwice == RetrievalSpec => []NoSecondDownload
<1>1. ASSUME Inv PROVE NoSecondDownload
  <2>1. SUFFICES ASSUME call.op = "download" PROVE HasRow(call.ref) /\ rows[call.ref].file = <<>>
    BY DEF NoSecondDownload, HasRow
  <2>2. call # NoCall
    BY <2>1 DEF NoCall
  <2>3. task # NoTask /\ call.ref = Through
    BY <1>1, <2>1, <2>2 DEF Inv, FlowInv, CallFits
  <2> QED BY <1>1, <2>3, ThroughIs DEF Inv
<1> QED BY <1>1, IInvHolds, PTL

\* A step of the flow, of its browser or of RDF is a step of the promised browser, or none.
LEMMA StepKeepsPromise ==
    ASSUME Inv, Inv', [RetrievalNext]_vars
    PROVE  [Browser!Next]_(Browser!bvars)
<1> USE DEF Browser!bvars
<1>0. ASSUME UNCHANGED <<call, answer>> PROVE [Browser!Next]_(Browser!bvars)
  BY <1>0
<1>1. CASE Stop
  <2>1. call' = NoCall /\ answer' = NoAnswer
    BY <1>1 DEF Stop
  <2>2. CASE call = NoCall
    BY <1>0, <2>1, <2>2 DEF Inv, PageInv, CallStands
  <2>3. CASE call # NoCall
    <3>1. Browser!Abandon
      BY <2>1, <2>3 DEF Browser!Abandon, Browser!NoCall, Browser!NoAnswer, NoCall, NoAnswer
    <3> QED BY <3>1 DEF Browser!Next
  <2> QED BY <2>2, <2>3
<1>2. CASE LookUp \/ Ask
  <2>1. call = NoCall /\ answer' = NoAnswer
    BY <1>2 DEF LookUp, Ask, Call, BeginCall
  <2>2. call' # NoCall
    BY <1>2 DEF LookUp, Ask, Call, BeginCall, NoCall
  <2>3. call' \in Calls
    BY <2>2 DEF Inv, PageInv, CallStands
  <2>4. Browser!Begin(call') /\ call' \in Browser!Calls
    BY <2>1, <2>3 DEF Browser!Begin, Browser!Calls, Calls, Browser!Ops, Ops, Browser!NoCall, Browser!NoAnswer,
                      NoCall, NoAnswer
  <2> QED BY <2>4 DEF Browser!Next
<1>3. CASE Answered /\ TakeAnswer
  <2>1. Browser!Take
    BY <1>3 DEF Answered, TakeAnswer, Browser!Take, Browser!NoCall, Browser!NoAnswer, NoCall, NoAnswer
  <2> QED BY <2>1 DEF Browser!Next
<1>4. CASE Browses \/ GivesUp
  <2>1. at # "idle" /\ call' = call
    <3>1. CASE BrowserStep
      BY <3>1, BrowserSteps DEF Steps
    <3>2. CASE TimesOut
      BY <3>2 DEF TimesOut, Transient, Waiting
    <3> QED BY <1>4, <3>1, <3>2 DEF Browses, GivesUp
  <2>2. call # NoCall /\ answer = NoAnswer
    BY <2>1 DEF Inv, PageInv, CallStands
  <2>3. answer' = NoAnswer \/ answer' \in Errors \/ Right(call, answer')
    BY <2>1 DEF Inv, PageInv, AnswerOK, Right
  <2>4. CASE answer' = NoAnswer
    BY <1>0, <2>1, <2>2, <2>4
  <2>5. CASE answer' \in Errors \/ Right(call, answer')
    <3>1. Browser!Answer(answer')
      BY <2>1, <2>2, <2>5 DEF Browser!Answer, Browser!Errors, Errors, Browser!Right, Right, Browser!IsListing,
         IsListing, Browser!IsView, IsView, Browser!IsFile, IsFile, Browser!InSeq, InSeq,
         Browser!NoCall, Browser!NoAnswer, NoCall, NoAnswer
    <3> QED BY <3>1 DEF Browser!Next
  <2> QED BY <2>3, <2>4, <2>5
<1>5. CASE UNCHANGED vars \/ StartIndexing \/ StartRetrieving \/ SkipSaved \/ TakeDocument \/ Refuse \/ PageAnswers \/ RdfChanges
  <2>1. UNCHANGED <<call, answer>>
    BY <1>5 DEF vars, browserVars, StartIndexing, StartRetrieving, Start, SkipSaved, TakeDocument, Refuse, PageAnswers,
                PageStep, Arrive, RdfChanges, File
  <2> QED BY <1>0, <2>1
<1>6. CASE Index \/ Expanded \/ Saved
  BY <1>3, <1>6 DEF Index, Expanded, Saved
<1>7. CASE Fails
  BY <1>1, <1>3, <1>7 DEF Fails
<1>8. CASE RunEnds \/ RunDies
  BY <1>1, <1>8 DEF RunEnds, RunDies
<1> QED BY <1>2, <1>4, <1>5, <1>6, <1>7, <1>8 DEF RetrievalNext, Runs

\* The answers the flow acts on are those of a browser that keeps to what it was asked (FilingBrowser).
THEOREM BrowserImplementsPromise == RetrievalSpec => BrowserKeepsItsPromise
<1>1. RetrievalInit => Browser!Init
  BY DEF RetrievalInit, BrowserInit, Browser!Init, Browser!NoCall, Browser!NoAnswer, NoCall, NoAnswer
<1>2. Inv /\ Inv' /\ [RetrievalNext]_vars => [Browser!Next]_(Browser!bvars)
  BY StepKeepsPromise
<1> QED BY <1>1, <1>2, IInvHolds, PTL DEF RetrievalSpec, BrowserKeepsItsPromise, Browser!Spec
=============================================================================
