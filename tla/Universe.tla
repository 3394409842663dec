------------------------------ MODULE Universe ------------------------------
(***************************************************************************)
(* How companies get into the pipeline, and what each stands for:          *)
(*  - acquisition/sampling.py checks the logs of the owner's drawing       *)
(*    scripts against the draw spec and gives every drawn company its      *)
(*    probability of being drawn, exactly;                                 *)
(*  - acquisition/regon_client.py looks each candidate up in the BIR1      *)
(*    register, call by call, and accepts or quarantines it;               *)
(*  - models/population.py keeps the companies whose filings are all in,   *)
(*    models/weights.py weighs them by the draw and scales each group's    *)
(*    weights for the companies it could not keep.                         *)
(* Frames are positions 0..N-1 of a search, sorted; a run of the script    *)
(* takes n of the N at a fixed step N/n from a random start in [0, N/n).   *)
(* Starts are whole multiples of 1/n, which floor tells apart no further.  *)
(* In the other design, permutation, pipeline code draws from an exported  *)
(* frame put in one order by a hash of seed and number, here any order.    *)
(***************************************************************************)
EXTENDS Integers, FiniteSets, Sequences, FiniteSetsExt, SequencesExt

CONSTANTS
    FrameSize,   \* N_F: the companies of the frame, 0..FrameSize-1, by registration date
    Year,        \* Year[k]: the registration year of k
    Distress,    \* the distress statuses a run of B was drawn for, in the spec's order
    InStatus,    \* InStatus[c]: the companies that carry status c
    Wanted,      \* Wanted["A"], Wanted[c]: n of each run
    Designs,     \* the designs of the draw spec: systematic, permutation
    Orders,      \* bound: the orders of the frame the hash may give, as sequences
    Register,    \* Register[k]: what BIR1 answers for k's number: the search's hits, whether the
                 \* two reports can be parsed, and what they say
    Garbled,     \* <<run or source, company>>: the lines whose KRS number is malformed
    Listed,      \* Listed[s]: the companies of the seed file and of each list, by discovery source
    Acquired,    \* what the acquisition records can say of a company: its latest search and
                 \* whether its statements are stored, held back, or both
    LeftOut,     \* left_out_entities
    MaxFaults,   \* bound: runs that stop, calls that fail and sessions that expire
    Null

Companies == 0..(FrameSize - 1)
Statuses == Range(Distress)
Groups == {"A"} \cup Statuses
ListOf(g) == IF g = "A" THEN "A" ELSE "B"

UniverseAssumption ==
    /\ FrameSize \in Nat \ {0}
    /\ Year \in [Companies -> Nat]
    /\ \A j, k \in Companies : j < k => Year[j] <= Year[k]
    /\ InStatus \in [Statuses -> SUBSET Companies]
    /\ Wanted \in [Groups -> Nat \ {0}]
    /\ Designs \subseteq {"systematic", "permutation"} /\ Orders \subseteq SetToSeqs(Companies)
    /\ Register \in [Companies ->
          [hits : {"one", "person", "none", "several", "empty", "error", "unreadable"},
           report : {"sound", "empty", "refused", "unreadable"}, number : {"same", "other", "none"},
           form : {"llc", "other"}, pkd : {"inside", "outside", "missing", "unmapped"}]]
    /\ Garbled \subseteq (Groups \cup DOMAIN Listed) \X Companies
    /\ Listed \in [DOMAIN Listed -> SUBSET Companies]

ASSUME UniverseAssumption

VARIABLES
    design,     \* the draw spec's
    order,      \* the frame's companies in the hash's order
    start,      \* start[g]: where the script began each run, in steps of 1/n
    log,        \* log[g]: the positions the log prints, in line order
    draws,      \* universe_draws
    candidates, \* universe_candidates
    pending,    \* the candidates the entity_master run still has to look up
    lookup,     \* the run's call on Upcoming: the answer it wants, and whether it asks, has an
                \* empty answer and asks for the session's status, or asks again; or Null
    session,    \* the BIR1 session: none, live, or expired without the client knowing
    raw,        \* BIR1 answers in the raw store
    master,     \* entity_master, each row with the answers it cites
    quarantine, \* quarantine_events: <<company, reason>>
    faults,
    backtest    \* the population and weights of a backtest, or Null

drawing == <<design, order, start, log>>
records == <<draws, candidates, raw, master, quarantine>>
a2 == <<pending, lookup, session>>
vars == <<drawing, records, a2, faults, backtest>>

-----------------------------------------------------------------------------
\* Fractions, reduced.

Common(a, b) == Max({d \in 1..Max({a, b, 1}) : a % d = 0 /\ b % d = 0})
Fraction(a, b) == [n |-> a \div Common(a, b), d |-> b \div Common(a, b)]
One == Fraction(1, 1)
Times(p, q) == Fraction(p.n * q.n, p.d * q.d)
Plus(p, q) == Fraction(p.n * q.d + q.n * p.d, p.d * q.d)
Inverse1(p) == Fraction(p.d, p.n)
Without(p) == Fraction(p.d - p.n, p.d)
Total(f(_), S) == MapThenFoldSet(Plus, Fraction(0, 1), f, LAMBDA T : CHOOSE x \in T : TRUE, S)

-----------------------------------------------------------------------------
\* sampling.py, the systematic design.

\* The companies of a run's search, in the search's order, and their number.
RunFrame == [g \in Groups |-> SetToSortSeq(IF g = "A" THEN Companies ELSE InStatus[g], <)]
Size(g) == Len(RunFrame[g])
Starts(g) == 0..(Size(g) - 1)

\* What the spec refuses: more companies wanted than the run's search holds.
SpecAssumption == \A g \in Groups : Wanted[g] <= Size(g)

ASSUME SpecAssumption

\* The position of a run's pick i from 0, floor(start + i * step) with start s / n.
Position(g, s, i) == (s + i * Size(g)) \div Wanted[g]
Positions(g, s) == [i \in 1..Wanted[g] |-> Position(g, s, i - 1)]
Picked(g, s) == {RunFrame[g][p + 1] : p \in Range(Positions(g, s))}

\* check_run_log: as many picks as wanted, none twice, each at its place.
Accepted(g, positions) ==
    /\ Len(positions) = Wanted[g]
    /\ Cardinality(Range(positions)) = Wanted[g]
    /\ \A i \in DOMAIN positions : positions[i] = Position(g, start[g], i - 1)

\* The statuses a company's picks show, in any log that names it.
Flagged(k) == {c \in Statuses : k \in InStatus[c]}

\* Mutant: a company drawn in a group has that group's probability.
PiOfGroup(k, g) == Fraction(Wanted[g], Size(g))

\* 1 - (1 - pi_A) * the product of 1 - pi_Bc over the statuses it carries.
Pi(k, g) ==
    Without(MapThenFoldSet(Times, One,
                LAMBDA h : Without(Fraction(Wanted[h], Size(h))),
                LAMBDA T : CHOOSE x \in T : TRUE, {"A"} \cup Flagged(k)))

Row(k, g) == [krs |-> k, list |-> ListOf(g), stratum |-> g, pi |-> Pi(k, g), year |-> Year[k]]

\* The readable picks of a run's log; a malformed line holds its place and is quarantined.
Named(g) == {RunFrame[g][p + 1] : p \in Range(log[g])}
Sound(g) == {k \in Named(g) : <<g, k>> \notin Garbled}

\* One row per company and list: drawn by two runs of B, it keeps the first run's row.
Kept(k, g) ==
    \A i, j \in DOMAIN Distress : j < i /\ Distress[i] = g => k \notin Sound(Distress[j])

-----------------------------------------------------------------------------
\* sampling.py, the permutation design.

\* read_frame: the readable lines, each in the status its label names; two statuses name neither.
FrameLines == {k \in Companies : <<"frame", k>> \notin Garbled}
FrameStratum == [k \in FrameLines |->
    IF Cardinality(Flagged(k)) = 1 THEN CHOOSE c \in Flagged(k) : TRUE ELSE "none"]

\* The first n of S in the order.
FirstOf(o, S, n) ==
    LET members == SelectSeq(o, LAMBDA k : k \in S)
    IN  Range(SubSeq(members, 1, Min({n, Len(members)})))
InStratum(c) == {k \in FrameLines : FrameStratum[k] = c}

\* draw: A is the first n_A; B, per status, the first n_B of those of the status not in A.
GroupIn(o, g) ==
    LET inA == FirstOf(o, FrameLines, Wanted["A"])
    IN  IF g = "A" THEN inA ELSE FirstOf(o, InStratum(g) \ inA, Wanted[g])

\* f_A outside D; in D_c, f_A + (1 - f_A) * min(1, n_Bc / (N_Dc - d_Ac)), d_Ac drawn into A.
PiIn(o, k) ==
    LET fA == Fraction(Wanted["A"], FrameSize)
        c == FrameStratum[k]
        remaining == Cardinality(InStratum(c) \ GroupIn(o, "A"))
        share == IF remaining <= Wanted[c] THEN One ELSE Fraction(Wanted[c], remaining)
    IN  IF c = "none" THEN fA ELSE Plus(fA, Times(Without(fA), share))

-----------------------------------------------------------------------------
\* universe_draw, of either design.

Members(g) ==
    IF design = "permutation" THEN GroupIn(order, g) ELSE Sound(g)
Rows(g) ==
    IF design = "permutation"
    THEN {[krs |-> k, list |-> ListOf(g), stratum |-> g, pi |-> PiIn(order, k), year |-> Null] :
              k \in Members(g)}
    ELSE {Row(k, g) : k \in {j \in Members(g) : Kept(j, g)}}
MalformedLines(g) ==
    IF design = "permutation" THEN Companies \ FrameLines ELSE Named(g) \ Sound(g)

\* Every log as the spec says, or nothing of any.
UniverseDraw ==
    /\ draws = {}
    /\ design = "systematic" => \A g \in Groups : Accepted(g, log[g])
    /\ draws' = UNION {Rows(g) : g \in Groups}
    /\ candidates' = candidates \cup
            UNION {{[krs |-> k, source |-> ListOf(g)] : k \in Members(g)} : g \in Groups}
    /\ quarantine' = quarantine \cup
            UNION {{<<"A1", k, "malformed_krs">> : k \in MalformedLines(g)} : g \in Groups}
    /\ UNCHANGED <<drawing, raw, master, a2, faults, backtest>>

\* load_seed, load_krs_list: one candidate per number, a malformed one quarantined.
Entries(s) == {k \in Listed[s] : <<s, k>> \notin Garbled}

\* universe_candidates: the seed file and a list, each committed on its own.
UniverseCandidates ==
    \E s \in DOMAIN Listed :
        /\ candidates' = candidates \cup {[krs |-> k, source |-> s] : k \in Entries(s)}
        /\ quarantine' = quarantine \cup
                {<<"A1", k, "malformed_krs">> : k \in Listed[s] \ Entries(s)}
        /\ candidates' # candidates
        /\ UNCHANGED <<drawing, draws, raw, master, a2, faults, backtest>>

-----------------------------------------------------------------------------
\* entity_master: one run over the candidates with no outcome.

\* unresolved_candidates: neither in the master nor quarantined by A2.
Settled(k) == (\E m \in master : m.krs = k) \/ (\E q \in quarantine : q[1] = "A2" /\ q[2] = k)
Waiting == {k \in {c.krs : c \in candidates} : ~ Settled(k)}

\* Mutant: a candidate whose search was stored is not looked up again.
WaitingUnread == {k \in Waiting : <<k, "search">> \notin raw}

Unresolved == Waiting

\* The candidates are looked up in the order of their numbers.
Upcoming == Min(pending)

\* resolve_entity begins with the search.
First == [wants |-> "search", at |-> "ask"]

StartRun ==
    /\ pending = {} /\ Unresolved # {}
    /\ pending' = Unresolved /\ lookup' = First
    /\ session' = "none"
    /\ UNCHANGED <<drawing, records, faults, backtest>>

\* The run is over: the service is closed.
EndRun == pending' = {} /\ lookup' = Null /\ session' = "none"

\* The next candidate, with session s as this one leaves it.
GoOn(s) ==
    IF pending = {Upcoming} THEN EndRun
    ELSE pending' = pending \ {Upcoming} /\ lookup' = First /\ session' = s

\* PermanentSourceError: the candidate is left unresolved, what was stored of it stays.
GiveUp(s) == GoOn(s) /\ UNCHANGED <<master, quarantine>>

Refuse(k, reasons) == quarantine' = quarantine \cup {<<"A2", k, r>> : r \in reasons}

\* segment_violations: the legal form and the PKD section, each on its own.
Violations(k) ==
    (IF Register[k].form = "llc" THEN {} ELSE {"legal_form_mismatch"}) \cup
    (CASE Register[k].pkd = "missing" -> {"pkd_missing"}
       [] Register[k].pkd = "unmapped" -> {"pkd_version_unknown"}
       [] Register[k].pkd = "outside" -> {"pkd_section_mismatch"}
       [] Register[k].pkd = "inside" -> {})

\* parse_legal_entity; then the identity, the segment and the master row.
Resolve(k, s) ==
    CASE Register[k].report = "unreadable" -> EndRun /\ UNCHANGED <<master, quarantine>>
      [] Register[k].report = "refused" -> GiveUp(s)
      [] OTHER ->
           LET reasons == IF Register[k].number = "other" THEN {"krs_mismatch"} ELSE Violations(k)
           IN  /\ Refuse(k, reasons)
               /\ master' = IF reasons # {} THEN master
                            ELSE master \cup {[krs |-> k, cites |-> {"report", "pkd"}]}
               /\ GoOn(s)

\* parse_search_result and the inspection of the hits, before anything of a person is stored.
Judge(k, hits, s) ==
    LET refused(reason) == Refuse(k, {reason}) /\ GoOn(s) /\ UNCHANGED master
    IN  /\ raw' = IF hits \in {"none", "several", "one"} THEN raw \cup {<<k, "search">>} ELSE raw
        /\ CASE hits = "unreadable" -> EndRun /\ UNCHANGED <<master, quarantine>>
             [] hits = "error" -> GiveUp(s)
             [] hits = "person" -> refused("natural_person")
             [] hits = "none" -> refused("not_found")
             [] hits = "several" -> refused("ambiguous_match")
             [] hits = "one" -> /\ lookup' = [wants |-> "report", at |-> "ask"] /\ session' = s
                                /\ UNCHANGED <<pending, master, quarantine>>

\* An answer that is not empty: a report is stored before anything is parsed.
Receive(answer, s) ==
    LET k == Upcoming
    IN  CASE lookup.wants = "search" -> Judge(k, answer, s)
          [] lookup.wants = "report" ->
               /\ raw' = raw \cup {<<k, "report">>}
               /\ lookup' = [wants |-> "pkd", at |-> "ask"] /\ session' = s
               /\ UNCHANGED <<pending, master, quarantine>>
          [] lookup.wants = "pkd" -> raw' = raw \cup {<<k, "pkd">>} /\ Resolve(k, s)

\* Mutant: the empty answer of an expired session passes for one that names nobody.
AnswerUnchecked(want, s) ==
    IF want = "search" THEN IF s = "live" THEN Register[Upcoming].hits ELSE "none"
    ELSE Register[Upcoming].report

\* What BIR1 answers in session s: an empty string in an expired one, and to some questions.
Answer(want, s) ==
    IF s # "live" THEN "empty"
    ELSE IF want = "search" THEN Register[Upcoming].hits ELSE Register[Upcoming].report

\* _with_session: logs in when there is no session, and asks.
Ask ==
    /\ lookup # Null /\ lookup.at = "ask"
    /\ LET s == IF session = "none" THEN "live" ELSE session
           answer == Answer(lookup.wants, s)
       IN  IF answer # "empty" THEN Receive(answer, s)
           ELSE /\ lookup' = [lookup EXCEPT !.at = "status"] /\ session' = s
                /\ UNCHANGED <<pending, raw, master, quarantine>>
    /\ UNCHANGED <<drawing, draws, candidates, faults, backtest>>

\* An empty answer: with the session live there is none to be had; otherwise log in once.
AskStatus ==
    /\ lookup # Null /\ lookup.at = "status"
    /\ IF session = "live" THEN GiveUp(session)
       ELSE /\ session' = "live" /\ lookup' = [lookup EXCEPT !.at = "again"]
            /\ UNCHANGED <<pending, master, quarantine>>
    /\ UNCHANGED <<drawing, draws, candidates, raw, faults, backtest>>

\* Empty again, the candidate is given up.
AskAgain ==
    /\ lookup # Null /\ lookup.at = "again"
    /\ LET answer == Answer(lookup.wants, session)
       IN  IF answer # "empty" THEN Receive(answer, session) ELSE GiveUp(session) /\ UNCHANGED raw
    /\ UNCHANGED <<drawing, draws, candidates, faults, backtest>>

\* A session may expire at the register at any moment.
SessionExpires ==
    /\ session = "live" /\ faults < MaxFaults
    /\ session' = "expired" /\ faults' = faults + 1
    /\ UNCHANGED <<drawing, records, pending, lookup, backtest>>

\* A call is refused: a SOAP fault, an HTTP 4xx, an empty session id.  The first login's session
\* stays when the question after it is refused.
CallFails ==
    /\ lookup # Null /\ faults < MaxFaults /\ faults' = faults + 1
    /\ \/ GiveUp(session)
       \/ session = "none" /\ GiveUp("live")
    /\ UNCHANGED <<drawing, draws, candidates, raw, backtest>>

\* A transient error that outlasts its retries ends the run; so does a crash.
RunStops ==
    /\ lookup # Null /\ faults < MaxFaults /\ faults' = faults + 1
    /\ EndRun
    /\ UNCHANGED <<drawing, records, backtest>>

-----------------------------------------------------------------------------
\* models/population.py and models/weights.py.

Drawn == {r.krs : r \in draws}
Captured(k) == [krs |-> k, source |-> "manual_seed"] \in candidates

\* classify: the first reason that applies, Null for an included company.
Excluded(k, acquired) ==
    IF k \notin Drawn THEN "not_in_draw"
    ELSE IF k \in LeftOut THEN "left_out"
    ELSE IF ~ Captured(k) /\ acquired[k].search # "complete" THEN acquired[k].search
    ELSE IF ~ acquired[k].stored THEN "no_statement_imported"
    ELSE IF acquired[k].held THEN "statements_held_back"
    ELSE Null

\* draw_weights: one over pi; resampled with B when drawn in B, else by A's registration year.
Weight(k) == Inverse1((CHOOSE r \in draws : r.krs = k).pi)
Stratum(k) ==
    IF \E r \in draws : r.krs = k /\ r.list = "B"
    THEN <<"B", (CHOOSE r \in draws : r.krs = k /\ r.list = "B").stratum>>
    ELSE <<"A", (CHOOSE r \in draws : r.krs = k).year>>
GroupOf(k) == IF Stratum(k)[1] = "A" THEN "A" ELSE Stratum(k)[2]

\* Mutant: the drawn companies BIR1 refused count among those the group should carry.
ClassifiedDrawn(entities, acquired) == Drawn

\* The drawn companies the rule classified, whatever it said.
Classified(entities, acquired) == {k \in entities : Excluded(k, acquired) # "not_in_draw"}

Included(entities, acquired) == {k \in entities : Excluded(k, acquired) = Null}

InGroup(g, S) == {k \in S : GroupOf(k) = g}

\* nonresponse_adjusted: each group's factor on its included companies.
Adjusted(entities, acquired) ==
    [k \in Included(entities, acquired) |->
        LET g == GroupOf(k)
        IN  Times(Weight(k),
                  Times(Total(Weight, InGroup(g, Classified(entities, acquired))),
                        Inverse1(Total(Weight, InGroup(g, Included(entities, acquired))))))]

\* The register's answers for k that leave it without an outcome, and those that also end the run.
EndsRun(k) ==
    \/ Register[k].hits = "unreadable"
    \/ Register[k].hits = "one" /\ Register[k].report = "unreadable"
NoOutcome(k) ==
    \/ Register[k].hits \in {"empty", "error", "unreadable"}
    \/ Register[k].hits = "one" /\ Register[k].report # "sound"

\* A weighted backtest over the companies of the master (the labelled ones), refused when a group
\* has classified companies and none included. Bound: one, when nobody waits who can be settled.
Backtest ==
    /\ draws # {} /\ pending = {} /\ backtest = Null
    /\ \A k \in Unresolved : NoOutcome(k)
    /\ LET entities == {m.krs : m \in master} IN
        \E acquired \in [entities -> Acquired] :
          /\ \A g \in Groups : InGroup(g, Classified(entities, acquired)) # {}
                                  => InGroup(g, Included(entities, acquired)) # {}
          /\ backtest' = [entities |-> entities, weight |-> Adjusted(entities, acquired)]
    /\ UNCHANGED <<drawing, records, a2, faults>>

-----------------------------------------------------------------------------
\* The script picks from any start; a log may have been edited after the run.
Runs ==
    /\ start \in {s \in [Groups -> 0..(FrameSize - 1)] : \A g \in Groups : s[g] \in Starts(g)}
    /\ log \in {[g \in Groups |-> Positions(g, start[g])]}
            \cup {[g \in Groups |-> IF g = "A" THEN Tail(Positions(g, start[g])) \o <<p>>
                                    ELSE Positions(g, start[g])] : p \in Companies}

Init ==
    /\ design \in Designs
    /\ order \in IF design = "permutation" THEN Orders ELSE {<<>>}
    /\ IF design = "permutation" THEN start = <<>> /\ log = <<>> ELSE Runs
    /\ draws = {} /\ candidates = {} /\ pending = {} /\ lookup = Null /\ session = "none"
    /\ raw = {} /\ master = {} /\ quarantine = {} /\ faults = 0 /\ backtest = Null

Next ==
    \/ UniverseCandidates \/ UniverseDraw \/ StartRun \/ Ask \/ AskStatus \/ AskAgain
    \/ SessionExpires \/ CallFails \/ RunStops \/ Backtest

Spec == Init /\ [][Next]_vars

\* The asset is materialized again until nothing is left to look up.
FairSpec ==
    Spec /\ WF_vars(StartRun) /\ WF_vars(Ask) /\ WF_vars(AskStatus) /\ WF_vars(AskAgain)

-----------------------------------------------------------------------------
\* The probability a drawn company carries is the share of all the ways the runs could have
\* started under which it is drawn at all, in whichever group (sampling.py: "known exactly").  In
\* the permutation design it is the share of all orders, of a frame without malformed lines, and
\* for the companies outside the distress statuses only: in one it depends on the order drawn.
Chances == {s \in [Groups -> 0..(FrameSize - 1)] : \A g \in Groups : s[g] \in Starts(g)}
DrawnBy == [k \in Companies |->
    Cardinality({s \in Chances : \E g \in Groups : k \in Picked(g, s[g])})]
AllOrders == SetToSeqs(FrameLines)
DrawnInOrders == [k \in FrameLines |->
    Cardinality({o \in AllOrders : \E g \in Groups : k \in GroupIn(o, g)})]
PiIsTheChance ==
    \A r \in draws :
        IF design = "systematic" THEN r.pi = Fraction(DrawnBy[r.krs], Cardinality(Chances))
        ELSE FrameStratum[r.krs] = "none" =>
                 r.pi = Fraction(DrawnInOrders[r.krs], Cardinality(AllOrders))

\* The outcome the register's answers for k stand for: the reasons of a refusal, none if accepted.
ReasonsFor(k) ==
    CASE Register[k].hits = "person" -> {"natural_person"}
      [] Register[k].hits = "none" -> {"not_found"}
      [] Register[k].hits = "several" -> {"ambiguous_match"}
      [] Register[k].hits = "one" /\ Register[k].number = "other" -> {"krs_mismatch"}
      [] OTHER -> Violations(k)

\* An outcome is final, so it must be what the register holds, whatever expired, failed or stopped
\* on the way (regon_client.py, _with_session: an expired session answers with an empty string).
\* A company has one outcome, with every reason against it; an accepted one's answers are stored,
\* and nothing of a person's is.
OutcomesAreTheRegisters ==
    /\ \A k \in {j \in Companies : Settled(j)} :
          /\ ~ NoOutcome(k)
          /\ {q[3] : q \in {r \in quarantine : r[1] = "A2" /\ r[2] = k}} = ReasonsFor(k)
          /\ \A m \in master : m.krs = k =>
                ReasonsFor(k) = {} /\ {<<k, part>> : part \in m.cites} \subseteq raw
    /\ \A k \in Companies : Register[k].hits = "person" => \A a \in raw : a[1] # k

\* Within each group the kept companies carry the weight of all its companies in the segment; a
\* group with companies and none kept is refused (weights.py, nonresponse_adjusted).
GroupsKeepTheirWeight ==
    backtest # Null =>
        \A g \in Groups :
            Total(LAMBDA k : backtest.weight[k], InGroup(g, DOMAIN backtest.weight))
                = Total(Weight, InGroup(g, Drawn \cap backtest.entities))

IsCandidate(k) == \E c \in candidates : c.krs = k

\* Every candidate gets an outcome, whatever expires, fails or stops, unless the register has none
\* for it, or has an answer for a candidate before it that cannot be read: every run ends there
\* (dagster_defs/assets/acquisition.py, entity_master).
CandidatesSettle ==
    \A k \in Companies :
        IsCandidate(k) ~> \/ Settled(k) \/ NoOutcome(k)
                          \/ \E j \in Companies : j < k /\ IsCandidate(j) /\ EndsRun(j)

\* What the repository says: a source error, a malformed answer among them (base.py:60), leaves
\* that candidate unresolved (assets/acquisition.py:226-227), and not those behind it.
OthersSettle ==
    \A k \in Companies : IsCandidate(k) ~> (Settled(k) \/ NoOutcome(k))
=============================================================================
