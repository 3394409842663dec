-------------------------- MODULE FilingIndexProofs --------------------------
(***************************************************************************)
(* For an entity with any documents, two originals of one period among     *)
(* them or not: whatever captures and listings are imported, in whatever   *)
(* order and however often, the two sources agree on the rows.             *)
(*                                                                         *)
(* WellFormed is what every step keeps.  A row without a number is the     *)
(* bare list row of an original; a numbered row is of its number, and of   *)
(* another document than its key's only if the script took the row of an   *)
(* original it cannot tell apart; no number is on two rows; and the rows   *)
(* that others point at have numbers, so they are never dropped.           *)
(***************************************************************************)
EXTENDS FilingIndex, FiniteSetTheorems, TLAPS

\* What a row under key k says of one document.
RowStory(row, k) ==
    /\ row.number = Null =>
          /\ k = Rdf(k[2]) /\ IsOriginal(k[2])
          /\ row.facts = NoFacts /\ row.file = Null /\ row.correctionOf = Null
          /\ row.refs = {}
    /\ row.number # Null =>
          /\ row.facts.of = row.number
          /\ row.file \in {Null, Original[row.number]}
          /\ IsOriginal(row.number) => row.correctionOf = Null
          /\ row.number # k[2] => /\ k = Rdf(k[2]) /\ Confusable(k[2], row.number)
                                  /\ row.facts.from = "listing"

HasNumber(ix, k) == ix[k] # Null /\ ix[k].number # Null

\* Where the row under key k points: at a numbered row of an original, of the one it corrects
\* when it was captured, and then one that keeps its document.
PointsHome(ix, k) ==
    LET to == ix[k].correctionOf
    IN  to # Null =>
            /\ HasNumber(ix, to) /\ IsOriginal(ix[to].number)
            /\ \/ ix[to].number = Original[k[2]]
               \/ k = Id(k[2]) /\ Kind[ix[to].number] = Kind[k[2]]
            /\ k = Rdf(k[2]) /\ to = Rdf(to[2]) => ix[to].facts.from = "detail"

\* The rows a bundle names have numbers.
BundleThere(ix, k) == \A r \in ix[k].refs : HasNumber(ix, r)

WellFormed(ix) ==
    /\ ix \in [Keys -> Rows \cup {Null}]
    /\ \A k \in Keys : ix[k] # Null =>
          RowStory(ix[k], k) /\ PointsHome(ix, k) /\ BundleThere(ix, k)
    /\ UniqueNumbers(ix)

IInv == WellFormed(index) /\ deleted \subseteq Docs

-----------------------------------------------------------------------------
\* Keys, rows and the script's key.

\* A key is RDF's or the script's, and names its document.
LEMMA KeyCases ==
    /\ \A k \in Keys : k[2] \in Docs /\ (k = Rdf(k[2]) \/ k = Id(k[2]))
    /\ \A d \in Docs : /\ Rdf(d) \in Keys /\ Id(d) \in Keys
                       /\ Rdf(d)[2] = d /\ Id(d)[2] = d
    /\ \A d, e \in Docs : /\ Rdf(d) # Id(e)
                          /\ Rdf(d) = Rdf(e) => d = e
                          /\ Id(d) = Id(e) => d = e
BY DEF Keys, Rdf, Id

\* A document's original is an original.
LEMMA OriginalOf ==
    \A d \in Docs : /\ Original[d] \in Docs /\ IsOriginal(Original[d])
                    /\ \A c \in Corrections(d) : c \in Docs /\ Original[c] = d /\ c # d
BY DocsAssumption DEF IsOriginal, Corrections

\* The kinds of facts a row may hold.
LEMMA FactsOf ==
    /\ \A r \in Rows : /\ r.facts = NoFacts <=> r.facts.of = Null
                       /\ r.facts = NoFacts <=> r.facts.from = "none"
    /\ \A s \in {"listing", "detail"}, d \in Docs :
          Facts(s, d) # NoFacts /\ Facts(s, d).of = d /\ Facts(s, d).from = s
BY NullAssumption DEF Rows, Facts, NoFacts

AllFacts == {NoFacts} \cup {Facts(s, d) : s \in {"listing", "detail"}, d \in Docs}

\* The columns of a row.
LEMMA RowsAre ==
    Rows = [number : Docs \cup {Null}, facts : AllFacts, file : Docs \cup {Null},
            correctionOf : Keys \cup {Null}, refs : SUBSET Keys, live : BOOLEAN]
BY DEF Rows, AllFacts

\* A bare row is a row.
LEMMA BareRows ==
    ASSUME NEW d \in Docs, NEW original \in Keys \cup {Null}
    PROVE  /\ BareRow(d, original) \in Rows /\ BareRow(d, original) # Null
           /\ BareRow(d, original).number = Null
           /\ BareRow(d, original).facts = NoFacts
           /\ BareRow(d, original).file = Null
           /\ BareRow(d, original).correctionOf = original
           /\ BareRow(d, original).refs = {}
<1>1. BareRow(d, original) \in Rows BY DEF BareRow, Rows, NoFacts
<1> QED BY <1>1, NullAssumption DEF BareRow

\* A number is on one row, which the script finds by it.
LEMMA NumberedOnce ==
    ASSUME NEW ix, WellFormed(ix), NEW k \in Keys, ix[k] # Null, ix[k].number # Null
    PROVE  /\ ix[k].number \in Docs
           /\ Numbered(ix, ix[k].number) = {k}
           /\ ScriptKey(ix, ix[k].number) = k
<1> DEFINE n == ix[k].number
<1>1. n \in Docs BY DEF WellFormed, Rows
<1>2. k \in Numbered(ix, n) BY DEF Numbered, Held
<1>3. ASSUME NEW j \in Numbered(ix, n) PROVE j = k
  BY <1>3 DEF Numbered, Held, WellFormed, UniqueNumbers
<1>4. Numbered(ix, n) = {k} BY <1>2, <1>3
<1> QED BY <1>1, <1>4 DEF ScriptKey

\* A correction's row has its number, and a key of the script's names its row's document.
LEMMA OwnNumber ==
    ASSUME NEW ix, WellFormed(ix), NEW k \in Keys, ix[k] # Null
    PROVE  /\ k = Id(k[2]) => ix[k].number = k[2]
           /\ ~ IsOriginal(k[2]) => ix[k].number = k[2]
           /\ ix[k].number # Null /\ ix[k].number # k[2] =>
                 k = Rdf(k[2]) /\ Confusable(k[2], ix[k].number)
<1>1. RowStory(ix[k], k) /\ k[2] \in Docs /\ Rdf(k[2]) # Id(k[2]) BY KeyCases DEF WellFormed
<1> QED BY <1>1 DEF RowStory, Confusable

\* The script's row for a document is the one with its number, the bare list row of an original
\* it cannot tell from it, or a new one.
LEMMA ScriptKeyIs ==
    ASSUME NEW ix, WellFormed(ix), NEW d \in Docs
    PROVE  LET k == ScriptKey(ix, d)
           IN  /\ k \in Keys
               /\ ix[k] # Null => \/ ix[k].number = d
                                  \/ /\ ix[k].number = Null /\ Confusable(k[2], d)
                                     /\ Numbered(ix, d) = {}
               /\ ix[k] = Null => Numbered(ix, d) = {} /\ k = Id(d)
<1>1. CASE Numbered(ix, d) # {}
  <2>1. PICK k \in Numbered(ix, d) : TRUE BY <1>1
  <2>2. k \in Keys /\ ix[k] # Null /\ ix[k].number = d /\ d # Null
    BY <2>1, NullAssumption DEF Numbered, Held
  <2>3. ScriptKey(ix, d) = k BY <2>2, NumberedOnce
  <2> QED BY <2>2, <2>3
<1>2. CASE Numbered(ix, d) = {} /\ Cardinality(Candidates(ix, d)) = 1
  <2> DEFINE k == CHOOSE j \in Candidates(ix, d) : TRUE
  <2>1. ScriptKey(ix, d) = k BY <1>2 DEF ScriptKey
  <2>2. Candidates(ix, d) # {} BY <1>2, FS_EmptySet
  <2>3. k \in Candidates(ix, d) BY <2>2
  <2>4. /\ k \in Keys /\ ix[k] # Null /\ ix[k].number = Null
        /\ Kind[k[2]] = Kind[d] /\ Kind[d] \notin Uncoded
        /\ (ix[k].correctionOf # Null) = ~ IsOriginal(d)
    BY <2>3 DEF Candidates, Held
  <2>5. IsOriginal(k[2]) /\ ix[k].correctionOf = Null BY <2>4 DEF WellFormed, RowStory
  <2>6. Confusable(k[2], d) BY <2>4, <2>5 DEF Confusable
  <2> QED BY <2>1, <2>4, <2>6, <1>2
<1>3. CASE Numbered(ix, d) = {} /\ Cardinality(Candidates(ix, d)) # 1
  <2>1. ScriptKey(ix, d) = Id(d) BY <1>3 DEF ScriptKey
  <2>2. ASSUME ix[Id(d)] # Null PROVE FALSE
    <3>1. ix[Id(d)].number = d BY <2>2, KeyCases, OwnNumber
    <3> QED BY <1>3, <2>2, <3>1, KeyCases DEF Numbered, Held
  <2> QED BY <1>3, <2>1, <2>2, KeyCases
<1> QED BY <1>1, <1>2, <1>3

-----------------------------------------------------------------------------
\* Steps that only add to rows.

\* No numbered row loses its number, its detail or its pointer.
Grown(ix, jx) ==
    \A k \in Keys : HasNumber(ix, k) =>
        /\ HasNumber(jx, k) /\ jx[k].number = ix[k].number
        /\ jx[k].correctionOf = ix[k].correctionOf
        /\ ix[k].facts.from = "detail" => jx[k].facts.from = "detail"

\* A row of a grown index that points and bundles as before, or as it should.
GrownRow(ix, jx, k) ==
    /\ RowStory(jx[k], k)
    /\ PointsHome(jx, k) \/ (ix[k] # Null /\ jx[k].correctionOf = ix[k].correctionOf)
    /\ BundleThere(jx, k) \/ (ix[k] # Null /\ jx[k].refs = ix[k].refs)

LEMMA GrownIndex ==
    ASSUME NEW ix, WellFormed(ix), NEW jx \in [Keys -> Rows \cup {Null}], Grown(ix, jx),
           \A k \in Keys : jx[k] # Null => GrownRow(ix, jx, k), UniqueNumbers(jx)
    PROVE  WellFormed(jx)
<1> SUFFICES ASSUME NEW k \in Keys, jx[k] # Null PROVE PointsHome(jx, k) /\ BundleThere(jx, k)
  BY DEF WellFormed, GrownRow
<1>1. ASSUME ix[k] # Null, jx[k].correctionOf = ix[k].correctionOf PROVE PointsHome(jx, k)
  <2>1. ix[k] \in Rows /\ PointsHome(ix, k) BY <1>1 DEF WellFormed
  <2>2. ix[k].correctionOf \in Keys \cup {Null} BY <2>1 DEF Rows
  <2>3. CASE ix[k].correctionOf = Null BY <2>3, <1>1 DEF PointsHome
  <2>4. CASE ix[k].correctionOf # Null
    <3> DEFINE to == ix[k].correctionOf
    <3>1. to \in Keys /\ HasNumber(ix, to) BY <2>1, <2>2, <2>4 DEF PointsHome
    <3>2. /\ HasNumber(jx, to) /\ jx[to].number = ix[to].number
          /\ ix[to].facts.from = "detail" => jx[to].facts.from = "detail"
      BY <3>1 DEF Grown
    <3> QED BY <1>1, <2>1, <2>4, <3>2 DEF PointsHome
  <2> QED BY <2>3, <2>4
<1>2. ASSUME ix[k] # Null, jx[k].refs = ix[k].refs PROVE BundleThere(jx, k)
  <2>1. ix[k].refs \subseteq Keys /\ BundleThere(ix, k) BY <1>2 DEF WellFormed, Rows
  <2> QED BY <1>2, <2>1 DEF BundleThere, Grown
<1> QED BY <1>1, <1>2 DEF GrownRow

\* Giving rows a file of their original keeps the index well formed.
LEMMA FiledIndex ==
    ASSUME NEW ix, WellFormed(ix), NEW F \in SUBSET Keys, NEW o \in Docs,
           \A k \in F : HasNumber(ix, k) /\ Original[ix[k].number] = o
    PROVE  WellFormed([k \in Keys |-> IF k \in F THEN [ix[k] EXCEPT !.file = o] ELSE ix[k]])
<1> DEFINE jx == [k \in Keys |-> IF k \in F THEN [ix[k] EXCEPT !.file = o] ELSE ix[k]]
<1>1. ASSUME NEW k \in F
      PROVE  /\ jx[k] \in Rows /\ jx[k] # Null
             /\ jx[k].number = ix[k].number /\ jx[k].correctionOf = ix[k].correctionOf
             /\ jx[k].facts = ix[k].facts /\ jx[k].refs = ix[k].refs
             /\ RowStory(jx[k], k)
  <2>1. /\ ix[k] \in Rows /\ RowStory(ix[k], k) /\ k \in Keys
        /\ ix[k].number # Null /\ Original[ix[k].number] = o
    BY <1>1 DEF WellFormed, HasNumber
  <2>2. jx[k] = [ix[k] EXCEPT !.file = o] BY <1>1
  <2>3. jx[k] \in Rows /\ jx[k].file = o BY <2>1, <2>2 DEF Rows
  <2>4. /\ jx[k].number = ix[k].number /\ jx[k].correctionOf = ix[k].correctionOf
        /\ jx[k].facts = ix[k].facts /\ jx[k].refs = ix[k].refs
    BY <2>1, <2>2 DEF Rows
  <2>5. RowStory(jx[k], k)
    <3> HIDE DEF jx
    <3> QED BY <2>1, <2>3, <2>4 DEF RowStory
  <2> QED BY <2>3, <2>4, <2>5, NullAssumption
<1>2. \A k \in Keys : k \notin F => jx[k] = ix[k] OBVIOUS
<1>3. jx \in [Keys -> Rows \cup {Null}] BY <1>1, <1>2 DEF WellFormed
<1> HIDE DEF jx
<1>4. \A k \in Keys : /\ jx[k] # Null <=> ix[k] # Null
                      /\ ix[k] # Null => /\ jx[k].number = ix[k].number
                                         /\ jx[k].correctionOf = ix[k].correctionOf
                                         /\ jx[k].facts = ix[k].facts
                                         /\ jx[k].refs = ix[k].refs
                                         /\ RowStory(jx[k], k)
  BY <1>1, <1>2 DEF WellFormed, HasNumber
<1>5. Grown(ix, jx) BY <1>4 DEF Grown, HasNumber
<1>6. \A k \in Keys : jx[k] # Null => GrownRow(ix, jx, k) BY <1>4 DEF GrownRow
<1>7. UniqueNumbers(jx) BY <1>4 DEF WellFormed, UniqueNumbers, Held
<1> QED BY <1>3, <1>5, <1>6, <1>7, GrownIndex DEF jx

-----------------------------------------------------------------------------
\* What a listing does to the index.

\* A listed row has its document's number and facts, and its deletion if it was deleted.
LEMMA ListedRowIs ==
    ASSUME NEW k \in Keys, NEW d \in Docs, NEW row \in Rows \cup {Null},
           row = Null => k = Id(d),
           row # Null => /\ RowStory(row, k)
                         /\ row.number = d \/ (row.number = Null /\ Confusable(k[2], d)),
           NEW original \in Keys \cup {Null}, IsOriginal(d) => original = Null
    PROVE  LET new == ListedRow(row, d, original)
           IN  /\ new \in Rows /\ new # Null
               /\ new.number = d /\ new.facts # NoFacts
               /\ new.live => d \notin deleted
               /\ new.correctionOf = IF row = Null THEN original ELSE row.correctionOf
               /\ new.refs = IF row = Null THEN {} ELSE row.refs
               /\ row # Null /\ row.number # Null => new.facts = row.facts
               /\ RowStory(new, k)
<1> DEFINE new == ListedRow(row, d, original)
<1>d. d # Null BY NullAssumption
<1>f. /\ Facts("listing", d) # NoFacts /\ Facts("listing", d).of = d
      /\ Facts("listing", d).from = "listing"
  BY FactsOf
<1>r. Facts("listing", d) \in AllFacts BY DEF AllFacts
<1>1. CASE row = Null
  <2>1. BareRow(d, original) \in Rows BY BareRows
  <2>2. new = [BareRow(d, original) EXCEPT !.number = d, !.facts = Facts("listing", d)]
    BY <1>1 DEF ListedRow
  <2>3. new \in Rows BY <2>1, <2>2, <1>d, <1>r, RowsAre
  <2>4. /\ new.number = d /\ new.facts = Facts("listing", d) /\ new.file = Null
        /\ new.correctionOf = original /\ new.live = (d \notin deleted) /\ new.refs = {}
    BY <2>2 DEF BareRow
  <2>5. k[2] = d BY <1>1, KeyCases
  <2> HIDE DEF new
  <2>6. RowStory(new, k) BY <2>4, <2>5, <1>d, <1>f DEF RowStory
  <2> QED BY <2>3, <2>4, <2>6, <1>1, <1>f, NullAssumption DEF new
<1>2. CASE row # Null
  <2>1. row \in Rows /\ RowStory(row, k) BY <1>2
  <2>2. new = [row EXCEPT !.number = d,
                          !.facts = IF row.facts = NoFacts THEN Facts("listing", d) ELSE row.facts,
                          !.live = row.live /\ d \notin deleted]
    BY <1>2 DEF ListedRow
  <2>3. new \in Rows BY <2>1, <2>2, <1>d, <1>r, RowsAre
  <2>4. /\ new.number = d /\ new.file = row.file /\ new.correctionOf = row.correctionOf
        /\ new.facts = IF row.facts = NoFacts THEN Facts("listing", d) ELSE row.facts
        /\ new.live = (row.live /\ d \notin deleted) /\ new.refs = row.refs
    BY <2>1, <2>2 DEF Rows
  <2> HIDE DEF new
  <2>5. row.number = Null => new.facts = Facts("listing", d) BY <2>1, <2>4 DEF RowStory
  <2>6. row.number # Null => row.facts # NoFacts /\ new.facts = row.facts
    BY <2>1, <2>4, FactsOf DEF RowStory
  <2>7. CASE row.number = d
    <3>1. RowStory(new, k) BY <2>1, <2>4, <2>6, <2>7, <1>d DEF RowStory
    <3> QED BY <2>3, <2>4, <2>6, <2>7, <3>1, <1>2, <1>d, NullAssumption DEF new
  <2>8. CASE row.number = Null /\ Confusable(k[2], d)
    <3>1. k = Rdf(k[2]) /\ row.file = Null /\ row.correctionOf = Null BY <2>1, <2>8 DEF RowStory
    <3>2. RowStory(new, k) BY <2>4, <2>5, <2>8, <3>1, <1>d, <1>f DEF RowStory
    <3> QED BY <2>3, <2>4, <2>5, <2>8, <3>2, <1>2, <1>f, NullAssumption DEF new
  <2> QED BY <2>7, <2>8, <1>2
<1> QED BY <1>1, <1>2

\* The documents L are listed in rows of their own.
Apart(ix, L) == \A d, e \in L : ScriptKey(ix, d) = ScriptKey(ix, e) => d = e

\* What may be written as the original of new rows for the documents L.
MayPoint(ix, L, original) ==
    /\ original \in Keys \cup {Null}
    /\ \A d \in L : IsOriginal(d) => original = Null
    /\ original # Null => /\ HasNumber(ix, original) /\ IsOriginal(ix[original].number)
                          /\ \A d \in L : \/ ix[original].number = Original[d]
                                          \/ Kind[ix[original].number] = Kind[d]

\* The row of each listed document, and no other row.
LEMMA TabsAre ==
    ASSUME NEW ix, WellFormed(ix), NEW L \in SUBSET Docs, Apart(ix, L), NEW original
    PROVE  LET jx == IndexTabs(ix, L, original)
           IN  /\ jx = [k \in Keys |-> jx[k]]
               /\ \A d \in L : jx[ScriptKey(ix, d)] = ListedRow(ix[ScriptKey(ix, d)], d, original)
               /\ \A k \in Keys : (\A d \in L : ScriptKey(ix, d) # k) => jx[k] = ix[k]
<1> DEFINE tabs(k) == {c \in L : ScriptKey(ix, c) = k}
           row(k) == IF tabs(k) = {} THEN ix[k]
                     ELSE ListedRow(ix[k], CHOOSE c \in tabs(k) : TRUE, original)
           jx == IndexTabs(ix, L, original)
<1>1. jx = [k \in Keys |-> row(k)] BY DEF IndexTabs
<1>2. ASSUME NEW d \in L
      PROVE  jx[ScriptKey(ix, d)] = ListedRow(ix[ScriptKey(ix, d)], d, original)
  <2> DEFINE k == ScriptKey(ix, d)
  <2>1. k \in Keys BY ScriptKeyIs
  <2>2. tabs(k) = {d} BY DEF Apart
  <2>3. (CHOOSE c \in tabs(k) : TRUE) = d BY <2>2
  <2>4. row(k) = ListedRow(ix[k], d, original) BY <2>2, <2>3
  <2> HIDE DEF row, tabs, jx, k
  <2> QED BY <1>1, <2>1, <2>4 DEF k
<1>3. ASSUME NEW k \in Keys, \A d \in L : ScriptKey(ix, d) # k PROVE jx[k] = ix[k]
  <2>1. tabs(k) = {} BY <1>3
  <2> QED BY <1>1, <2>1
<1>4. jx = [k \in Keys |-> jx[k]] BY <1>1
<1> QED BY <1>2, <1>3, <1>4

\* Listing one document is listing it as the only tab.
LEMMA ListedIsTab ==
    ASSUME NEW ix, WellFormed(ix), NEW d \in Docs, NEW original
    PROVE  IndexListed(ix, d, original) = IndexTabs(ix, {d}, original) /\ Apart(ix, {d})
<1> DEFINE k == ScriptKey(ix, d)
           jx == IndexTabs(ix, {d}, original)
           lx == IndexListed(ix, d, original)
<1>0. {d} \in SUBSET Docs /\ Apart(ix, {d}) BY DEF Apart
<1>1. /\ jx = [j \in Keys |-> jx[j]] /\ jx[k] = ListedRow(ix[k], d, original)
      /\ \A j \in Keys : j # k => jx[j] = ix[j]
  <2>1. /\ jx = [j \in Keys |-> jx[j]]
        /\ \A e \in {d} : jx[ScriptKey(ix, e)] = ListedRow(ix[ScriptKey(ix, e)], e, original)
        /\ \A j \in Keys : (\A e \in {d} : ScriptKey(ix, e) # j) => jx[j] = ix[j]
    BY <1>0, TabsAre
  <2> HIDE DEF jx
  <2> QED BY <2>1
<1>2. k \in Keys BY ScriptKeyIs
<1>3. DOMAIN ix = Keys /\ ix = [j \in Keys |-> ix[j]] BY DEF WellFormed
<1>4. lx = [j \in Keys |-> IF j = k THEN ListedRow(ix[k], d, original) ELSE ix[j]]
  BY <1>2, <1>3 DEF IndexListed
<1> HIDE DEF jx, k, lx
<1>5. lx = jx BY <1>1, <1>4
<1> QED BY <1>0, <1>5 DEF lx, jx

\* What the rows of a listing look like, and that they belong in a well formed index.
ListingShape(ix, jx, L) ==
    /\ WellFormed(jx)
    /\ \A k \in Keys : HasNumber(ix, k) => HasNumber(jx, k) /\ jx[k].number = ix[k].number
    /\ \A d \in L : LET k == ScriptKey(ix, d)
                    IN  /\ k \in Keys /\ jx[k] # Null /\ jx[k].number = d
                        /\ jx[k].facts # NoFacts
                        /\ jx[k].live => d \notin deleted

LEMMA ListingKept ==
    ASSUME NEW ix, WellFormed(ix), NEW L \in SUBSET Docs, Apart(ix, L),
           NEW original, MayPoint(ix, L, original)
    PROVE  ListingShape(ix, IndexTabs(ix, L, original), L)
<1> DEFINE jx == IndexTabs(ix, L, original)
<1>t. \A k \in Keys : /\ k[2] \in Docs /\ ix[k] \in Rows \cup {Null}
                      /\ ix[k] # Null => RowStory(ix[k], k)
  BY KeyCases DEF WellFormed
<1>o. original \in Keys \cup {Null} BY DEF MayPoint
<1>s. /\ jx = [k \in Keys |-> jx[k]]
      /\ \A d \in L : jx[ScriptKey(ix, d)] = ListedRow(ix[ScriptKey(ix, d)], d, original)
      /\ \A k \in Keys : (\A d \in L : ScriptKey(ix, d) # k) => jx[k] = ix[k]
  BY TabsAre
<1> HIDE DEF jx
<1>1. ASSUME NEW d \in L
      PROVE  LET k == ScriptKey(ix, d)
             IN  /\ k \in Keys /\ jx[k] \in Rows /\ jx[k] # Null
                 /\ jx[k].number = d /\ jx[k].facts # NoFacts
                 /\ jx[k].live => d \notin deleted
                 /\ jx[k].correctionOf = IF ix[k] = Null THEN original ELSE ix[k].correctionOf
                 /\ jx[k].refs = IF ix[k] = Null THEN {} ELSE ix[k].refs
                 /\ HasNumber(ix, k) => ix[k].number = d /\ jx[k].facts = ix[k].facts
                 /\ ix[k] = Null => k = Id(d)
                 /\ RowStory(jx[k], k)
  <2> DEFINE k == ScriptKey(ix, d)
  <2>1. /\ k \in Keys /\ ix[k] \in Rows \cup {Null} /\ d \in Docs
        /\ ix[k] = Null => k = Id(d)
        /\ ix[k] # Null => /\ RowStory(ix[k], k)
                           /\ ix[k].number = d \/ (ix[k].number = Null /\ Confusable(k[2], d))
    BY ScriptKeyIs, <1>t
  <2>2. IsOriginal(d) => original = Null BY DEF MayPoint
  <2>3. jx[k] = ListedRow(ix[k], d, original) BY <1>s
  <2> HIDE DEF k
  <2>4. LET new == ListedRow(ix[k], d, original)
        IN  /\ new \in Rows /\ new # Null
            /\ new.number = d /\ new.facts # NoFacts
            /\ new.live => d \notin deleted
            /\ new.correctionOf = IF ix[k] = Null THEN original ELSE ix[k].correctionOf
            /\ new.refs = IF ix[k] = Null THEN {} ELSE ix[k].refs
            /\ ix[k] # Null /\ ix[k].number # Null => new.facts = ix[k].facts
            /\ RowStory(new, k)
    BY <2>1, <2>2, <1>o, ListedRowIs
  <2> QED BY <2>1, <2>3, <2>4 DEF k, HasNumber
<1>2. ASSUME NEW k \in Keys
      PROVE  \/ jx[k] = ix[k]
             \/ \E d \in L : k = ScriptKey(ix, d)
  BY <1>s
<1>3. jx \in [Keys -> Rows \cup {Null}]
  <2>1. \A k \in Keys : jx[k] \in Rows \cup {Null} BY <1>1, <1>2, <1>t
  <2> QED BY <1>s, <2>1
<1>4. Grown(ix, jx) BY <1>1, <1>2 DEF Grown, HasNumber
<1>5. ASSUME NEW k \in Keys, jx[k] # Null PROVE GrownRow(ix, jx, k)
  <2>1. CASE jx[k] = ix[k] BY <2>1, <1>5, <1>t DEF GrownRow
  <2>2. ASSUME NEW d \in L, k = ScriptKey(ix, d), ix[k] = Null PROVE GrownRow(ix, jx, k)
    <3>1. /\ jx[k].correctionOf = original /\ jx[k].refs = {} /\ RowStory(jx[k], k) /\ k = Id(d)
          /\ k[2] = d
      BY <1>1, <2>2, KeyCases
    <3>2. CASE original = Null BY <3>1, <3>2 DEF GrownRow, PointsHome, BundleThere
    <3>3. CASE original # Null
      <4>1. /\ original \in Keys /\ HasNumber(ix, original) /\ IsOriginal(ix[original].number)
            /\ ix[original].number = Original[d] \/ Kind[ix[original].number] = Kind[d]
        BY <3>3, <1>o DEF MayPoint
      <4>2. HasNumber(jx, original) /\ jx[original].number = ix[original].number
        BY <4>1, <1>4 DEF Grown
      <4>3. k # Rdf(k[2]) BY <3>1, KeyCases
      <4>4. PointsHome(jx, k) BY <3>1, <4>1, <4>2, <4>3 DEF PointsHome
      <4> QED BY <3>1, <4>4 DEF GrownRow, BundleThere
    <3> QED BY <3>2, <3>3
  <2>3. ASSUME NEW d \in L, k = ScriptKey(ix, d), ix[k] # Null PROVE GrownRow(ix, jx, k)
    BY <1>1, <2>3 DEF GrownRow
  <2> QED BY <2>1, <2>2, <2>3, <1>2
<1>6. UniqueNumbers(jx)
  <2> SUFFICES ASSUME NEW j \in Keys, NEW k \in Keys, HasNumber(jx, j), HasNumber(jx, k),
                      jx[j].number = jx[k].number
               PROVE  j = k
    BY DEF UniqueNumbers, Held, HasNumber
  <2>1. ASSUME NEW i \in Keys, NEW m \in Keys, HasNumber(jx, m), jx[i].number = jx[m].number,
               NEW d \in L, i = ScriptKey(ix, d), jx[m] = ix[m]
        PROVE  i = m
    <3>1. ix[m] # Null /\ ix[m].number = d /\ ix[m].number # Null BY <2>1, <1>1 DEF HasNumber
    <3> QED BY <2>1, <3>1, NumberedOnce
  <2>2. CASE jx[j] = ix[j] /\ jx[k] = ix[k]
    BY <2>2 DEF WellFormed, UniqueNumbers, Held, HasNumber
  <2>3. CASE jx[j] # ix[j] /\ jx[k] = ix[k] BY <2>1, <2>3, <1>2
  <2>4. CASE jx[j] = ix[j] /\ jx[k] # ix[k] BY <2>1, <2>4, <1>2
  <2>5. CASE jx[j] # ix[j] /\ jx[k] # ix[k] BY <2>5, <1>1, <1>2
  <2> QED BY <2>2, <2>3, <2>4, <2>5
<1>7. WellFormed(jx) BY <1>3, <1>4, <1>5, <1>6, GrownIndex
<1> QED BY <1>1, <1>4, <1>7 DEF ListingShape, Grown, jx

\* Recording a bundle changes the refs of one row.
LEMMA BundleKept ==
    ASSUME NEW ix, WellFormed(ix), NEW k \in Keys, HasNumber(ix, k),
           NEW refs \in SUBSET Keys, \A r \in refs : HasNumber(ix, r)
    PROVE  LET jx == SetBundle(ix, k, refs)
           IN  /\ WellFormed(jx)
               /\ ix[k].facts.from = "listing" => jx[k].refs = refs
               /\ \A j \in Keys :
                     /\ jx[j] = Null <=> ix[j] = Null
                     /\ ix[j] # Null => /\ jx[j].number = ix[j].number
                                        /\ jx[j].facts = ix[j].facts
                                        /\ jx[j].live = ix[j].live
<1> DEFINE jx == SetBundle(ix, k, refs)
<1>t. /\ ix \in [Keys -> Rows \cup {Null}] /\ ix[k] \in Rows
      /\ \A j \in Keys : ix[j] # Null => ix[j] \in Rows /\ RowStory(ix[j], j)
  BY DEF WellFormed, HasNumber
<1>1. CASE ix[k].facts.from # "listing"
  <2>1. jx = ix BY <1>1, <1>t DEF SetBundle
  <2> HIDE DEF jx
  <2>2. WellFormed(jx) BY <2>1
  <2> QED BY <1>1, <2>1, <2>2 DEF jx
<1>2. CASE ix[k].facts.from = "listing"
  <2> DEFINE new == [ix[k] EXCEPT !.refs = refs]
  <2>1. jx = [ix EXCEPT ![k] = new] BY <1>2, <1>t DEF SetBundle
  <2>2. /\ new \in Rows /\ new # Null /\ new.refs = refs
        /\ new.number = ix[k].number /\ new.facts = ix[k].facts /\ new.live = ix[k].live
        /\ new.file = ix[k].file /\ new.correctionOf = ix[k].correctionOf
    BY <1>t, RowsAre, NullAssumption
  <2>4. /\ jx \in [Keys -> Rows \cup {Null}] /\ jx[k] = new
        /\ \A j \in Keys \ {k} : jx[j] = ix[j]
    BY <1>t, <2>1, <2>2
  <2> HIDE DEF new, jx
  <2>3. RowStory(new, k) BY <1>t, <2>2 DEF RowStory, HasNumber
  <2>5. \A j \in Keys : /\ jx[j] # Null <=> ix[j] # Null
                        /\ ix[j] # Null => /\ jx[j].number = ix[j].number
                                           /\ jx[j].facts = ix[j].facts
                                           /\ jx[j].live = ix[j].live
                                           /\ jx[j].correctionOf = ix[j].correctionOf
                                           /\ RowStory(jx[j], j)
    BY <1>t, <2>2, <2>3, <2>4 DEF HasNumber
  <2>6. Grown(ix, jx) BY <2>5 DEF Grown, HasNumber
  <2>7. \A r \in refs : HasNumber(jx, r) BY <2>5 DEF HasNumber
  <2>8. \A j \in Keys : jx[j] # Null => GrownRow(ix, jx, j)
    BY <2>2, <2>4, <2>5, <2>7 DEF GrownRow, BundleThere
  <2>9. UniqueNumbers(jx) BY <2>5 DEF WellFormed, UniqueNumbers, Held
  <2>10. WellFormed(jx) BY <2>4, <2>6, <2>8, <2>9, GrownIndex
  <2> QED BY <2>2, <2>4, <2>5, <2>10 DEF jx
<1> QED BY <1>1, <1>2

\* Corrections are listed in rows of their own.
LEMMA CorrectionsApart ==
    ASSUME NEW ix, WellFormed(ix), NEW o \in Docs, NEW S \in SUBSET Corrections(o)
    PROVE  /\ S \in SUBSET Docs /\ \A c \in S : Original[c] = o /\ c # o /\ ~ IsOriginal(c)
           /\ Apart(ix, S)
<1>1. S \in SUBSET Docs /\ \A c \in S : Original[c] = o /\ c # o /\ ~ IsOriginal(c)
  BY OriginalOf DEF IsOriginal
<1>2. \A c \in S : LET k == ScriptKey(ix, c)
                   IN  /\ ix[k] # Null => ix[k].number = c
                       /\ ix[k] = Null => k = Id(c)
  BY <1>1, ScriptKeyIs DEF Confusable
<1>3. Apart(ix, S) BY <1>1, <1>2, KeyCases DEF Apart
<1> QED BY <1>1, <1>3

\* A row whose listing has been imported.
Imported(jx, d) ==
    \E k \in Keys : /\ jx[k] # Null /\ jx[k].number = d /\ jx[k].facts # NoFacts
                    /\ jx[k].live => d \notin deleted

\* Listing what is listed changes nothing.
LEMMA RelistedIsSame ==
    ASSUME NEW jx, WellFormed(jx), NEW L \in SUBSET Docs, \A d \in L : Imported(jx, d),
           NEW original
    PROVE  IndexTabs(jx, L, original) = jx /\ Apart(jx, L)
<1> DEFINE tx == IndexTabs(jx, L, original)
<1>1. ASSUME NEW d \in L
      PROVE  LET k == ScriptKey(jx, d)
             IN  k \in Keys /\ jx[k].number = d /\ ListedRow(jx[k], d, original) = jx[k]
  <2>1. PICK k \in Keys : /\ jx[k] # Null /\ jx[k].number = d /\ jx[k].facts # NoFacts
                          /\ jx[k].live => d \notin deleted
    BY DEF Imported
  <2>2. k = ScriptKey(jx, d) /\ jx[k] \in Rows
    BY <2>1, NumberedOnce, NullAssumption DEF WellFormed
  <2>3. ListedRow(jx[k], d, original)
          = [jx[k] EXCEPT !.number = d, !.facts = jx[k].facts,
                          !.live = jx[k].live /\ d \notin deleted]
    BY <2>1 DEF ListedRow
  <2>4. (jx[k].live /\ d \notin deleted) = jx[k].live BY <2>1, <2>2, RowsAre
  <2>5. \A r \in Rows : [r EXCEPT !.number = r.number, !.facts = r.facts, !.live = r.live] = r
    BY RowsAre
  <2> QED BY <2>1, <2>2, <2>3, <2>4, <2>5
<1>2. Apart(jx, L) BY <1>1 DEF Apart
<1>3. /\ tx = [k \in Keys |-> tx[k]]
      /\ \A d \in L : tx[ScriptKey(jx, d)] = ListedRow(jx[ScriptKey(jx, d)], d, original)
      /\ \A k \in Keys : (\A d \in L : ScriptKey(jx, d) # k) => tx[k] = jx[k]
  BY <1>2, TabsAre
<1> HIDE DEF tx
<1>4. \A k \in Keys : tx[k] = jx[k] BY <1>1, <1>3
<1>5. jx = [k \in Keys |-> jx[k]] BY DEF WellFormed
<1> QED BY <1>2, <1>3, <1>4, <1>5 DEF tx

\* An expanded row imported: the index is well formed, holds every listed document's row with
\* its facts, number and deletion, and the bundle of a row the listing told; so importing it
\* again changes nothing.
LEMMA GroupImported ==
    ASSUME NEW ix, WellFormed(ix),
           NEW o \in Docs, IsOriginal(o), NEW S \in SUBSET Corrections(o)
    PROVE  LET once == IndexGroup(ix, o, S)
           IN  WellFormed(once) /\ IndexGroup(once, o, S) = once
<1> DEFINE row == ScriptKey(ix, o)
           listed == IndexTabs(ix, {o}, Null)
           tabs == IndexTabs(listed, S, row)
           Bundle(jx) == {k \in Held(jx) : jx[k].number \in {o} \cup S}
           once == SetBundle(tabs, row, Bundle(tabs))
<1>n. o # Null BY NullAssumption
<1>1. IndexListed(ix, o, Null) = listed /\ Apart(ix, {o}) BY ListedIsTab
<1>2. /\ WellFormed(listed) /\ row \in Keys
      /\ listed[row] # Null /\ listed[row].number = o /\ listed[row].facts # NoFacts
      /\ listed[row].live => o \notin deleted
  <2>1. {o} \in SUBSET Docs /\ MayPoint(ix, {o}, Null) BY DEF MayPoint
  <2>2. ListingShape(ix, listed, {o}) BY <2>1, <1>1, ListingKept
  <2> HIDE DEF listed
  <2> QED BY <2>2 DEF ListingShape
<1>s. /\ S \in SUBSET Docs /\ \A c \in S : Original[c] = o /\ c # o /\ ~ IsOriginal(c)
      /\ Apart(listed, S)
  <2> HIDE DEF listed
  <2> QED BY <1>2, CorrectionsApart
<1>3. ListingShape(listed, tabs, S)
  <2> HIDE DEF listed, row
  <2>1. MayPoint(listed, S, row) BY <1>2, <1>s, <1>n DEF MayPoint, HasNumber
  <2> QED BY <1>2, <1>s, <2>1, ListingKept
<1>4. tabs[row] = listed[row]
  <2>1. \A c \in S : ScriptKey(listed, c) # row
    <3>1. \A c \in S : tabs[ScriptKey(listed, c)].number = c
      <4> HIDE DEF tabs
      <4> QED BY <1>3 DEF ListingShape
    <3>2. tabs[row].number = o
      <4> HIDE DEF tabs
      <4> QED BY <1>2, <1>3, <1>n DEF ListingShape, HasNumber
    <3> HIDE DEF tabs, listed, row
    <3> QED BY <3>1, <3>2, <1>s
  <2>2. \A k \in Keys : (\A d \in S : ScriptKey(listed, d) # k) => tabs[k] = listed[k]
    <3> HIDE DEF listed, row
    <3> QED BY <1>2, <1>s, TabsAre
  <2> HIDE DEF tabs, listed, row
  <2> QED BY <1>2, <2>1, <2>2
<1> HIDE DEF tabs, listed, row
<1>5. WellFormed(tabs) /\ \A d \in {o} \cup S : Imported(tabs, d)
  <2>1. Imported(tabs, o) BY <1>2, <1>4 DEF Imported
  <2>2. \A c \in S : Imported(tabs, c) BY <1>3 DEF ListingShape, Imported
  <2> QED BY <2>1, <2>2, <1>3 DEF ListingShape
<1>6. IndexGroup(ix, o, S) = once BY <1>1 DEF IndexGroup, tabs, row
<1>7. /\ Bundle(tabs) \in SUBSET Keys /\ HasNumber(tabs, row)
      /\ \A r \in Bundle(tabs) : HasNumber(tabs, r)
  BY <1>2, <1>4, <1>s, <1>n, NullAssumption DEF Held, HasNumber
<1>8. /\ WellFormed(once)
      /\ tabs[row].facts.from = "listing" => once[row].refs = Bundle(tabs)
      /\ \A j \in Keys : /\ once[j] = Null <=> tabs[j] = Null
                         /\ tabs[j] # Null => /\ once[j].number = tabs[j].number
                                              /\ once[j].facts = tabs[j].facts
                                              /\ once[j].live = tabs[j].live
  <2> HIDE DEF Bundle
  <2> QED BY <1>2, <1>5, <1>7, BundleKept
<1> HIDE DEF once
<1>9. \A d \in {o} \cup S : Imported(once, d) BY <1>5, <1>8 DEF Imported
<1>10. IndexListed(once, o, Null) = once
  <2>1. IndexListed(once, o, Null) = IndexTabs(once, {o}, Null) BY <1>8, ListedIsTab
  <2>2. {o} \in SUBSET Docs /\ \A d \in {o} : Imported(once, d) BY <1>9
  <2> QED BY <1>8, <2>1, <2>2, RelistedIsSame
<1>11. IndexTabs(once, S, row) = once BY <1>8, <1>9, <1>s, RelistedIsSame
<1>12. ScriptKey(once, o) = row
  <2>1. once[row] # Null /\ once[row].number = o BY <1>2, <1>4, <1>8
  <2> QED BY <1>2, <1>8, <1>n, <2>1, NumberedOnce
<1>13. Bundle(once) = Bundle(tabs) BY <1>8 DEF Held
<1>14. SetBundle(once, row, Bundle(once)) = once
  <2>1. CASE once[row].facts.from = "listing"
    <3>1. once[row].refs = Bundle(once) BY <1>2, <1>4, <1>8, <1>13, <2>1
    <3>2. once[row] \in Rows /\ once \in [Keys -> Rows \cup {Null}]
      BY <1>2, <1>4, <1>8 DEF WellFormed
    <3>3. [once[row] EXCEPT !.refs = Bundle(once)] = once[row] BY <3>1, <3>2, RowsAre
    <3> HIDE DEF Bundle
    <3> QED BY <3>2, <3>3 DEF SetBundle
  <2>2. CASE once[row].facts.from # "listing"
    <3>1. once \in [Keys -> Rows \cup {Null}] BY <1>8 DEF WellFormed
    <3> QED BY <2>2, <3>1 DEF SetBundle
  <2> QED BY <2>1, <2>2
<1>15. IndexGroup(once, o, S) = once BY <1>10, <1>11, <1>12, <1>14 DEF IndexGroup
<1> QED BY <1>6, <1>8, <1>15

-----------------------------------------------------------------------------
\* What a detail does to the index.

\* A row with the detail of d, which a row that has one keeps.
DetailedRow(row, d, refs) ==
    IF row.facts.from = "detail" THEN row
    ELSE [row EXCEPT !.facts = Facts("detail", d), !.number = IF @ = Null THEN d ELSE @,
                     !.refs = refs]

LEMMA DetailedRowIs ==
    ASSUME NEW k \in Keys, NEW row \in Rows, row.number \in {Null, k[2]},
           row.number = Null => row.facts = NoFacts,
           row.number # Null => row.facts.of = k[2],
           row.file \in {Null, Original[k[2]]},
           IsOriginal(k[2]) => row.correctionOf = Null, NEW refs \in SUBSET Keys
    PROVE  LET new == DetailedRow(row, k[2], refs)
           IN  /\ new \in Rows /\ new # Null
               /\ new.number = k[2] /\ new.facts.from = "detail"
               /\ new.correctionOf = row.correctionOf
               /\ new.refs = refs \/ (row.number # Null /\ new.refs = row.refs)
               /\ RowStory(new, k)
<1> DEFINE d == k[2]
           new == DetailedRow(row, d, refs)
<1>d. d \in Docs /\ d # Null BY KeyCases, NullAssumption
<1>f. /\ Facts("detail", d) # NoFacts /\ Facts("detail", d).of = d
      /\ Facts("detail", d).from = "detail"
  BY <1>d, FactsOf
<1>r. Facts("detail", d) \in AllFacts BY <1>d DEF AllFacts
<1>1. CASE row.facts.from = "detail"
  <2>1. new = row BY <1>1 DEF DetailedRow
  <2>2. row.facts # NoFacts BY <1>1 DEF NoFacts
  <2> QED BY <2>1, <2>2, <1>1, <1>d, NullAssumption DEF RowStory
<1>2. CASE row.facts.from # "detail"
  <2>1. new = [row EXCEPT !.facts = Facts("detail", d),
                          !.number = IF row.number = Null THEN d ELSE row.number,
                          !.refs = refs]
    BY <1>2 DEF DetailedRow
  <2>2. (IF row.number = Null THEN d ELSE row.number) = d OBVIOUS
  <2>3. new \in Rows BY <2>1, <2>2, <1>d, <1>r, RowsAre
  <2>4. /\ new.number = d /\ new.facts = Facts("detail", d) /\ new.refs = refs
        /\ new.correctionOf = row.correctionOf /\ new.file = row.file
    BY <2>1, <2>2, RowsAre
  <2> QED BY <2>3, <2>4, <1>d, <1>f, NullAssumption DEF RowStory
<1> QED BY <1>1, <1>2

\* Completing one row with a detail.
LEMMA SetDetailIs ==
    ASSUME NEW ix \in [Keys -> Rows \cup {Null}], NEW k \in Keys, NEW d, NEW refs
    PROVE  SetDetail(ix, k, d, refs)
             = [j \in Keys |-> IF j = k /\ ix[j] # Null THEN DetailedRow(ix[j], d, refs) ELSE ix[j]]
<1>1. CASE ix[k] = Null BY <1>1 DEF SetDetail
<1>2. CASE ix[k] # Null /\ ix[k].facts.from = "detail" BY <1>2 DEF SetDetail, DetailedRow
<1>3. CASE ix[k] # Null /\ ix[k].facts.from # "detail"
  <2> DEFINE new == [ix[k] EXCEPT !.facts = Facts("detail", d),
                                  !.number = IF @ = Null THEN d ELSE @, !.refs = refs]
  <2>1. DetailedRow(ix[k], d, refs) = new BY <1>3 DEF DetailedRow
  <2>2. SetDetail(ix, k, d, refs) = [ix EXCEPT ![k] = new]
    <3>1. ix[k] \in Rows BY <1>3
    <3> QED BY <1>3, <3>1, RowsAre DEF SetDetail
  <2> HIDE DEF new
  <2> QED BY <1>3, <2>1, <2>2
<1> QED BY <1>1, <1>2, <1>3

\* The script's row of a document is the row its detail completes.
LEMMA AliasIs ==
    ASSUME NEW ix, WellFormed(ix), NEW d \in Docs
    PROVE  HasAlias(ix, d) <=> ix[Id(d)] # Null
<1>1. ASSUME ix[Id(d)] # Null PROVE ix[Id(d)].number = d BY <1>1, KeyCases, OwnNumber
<1> QED BY <1>1 DEF HasAlias

\* The rows after a detail, key by key: a list row with an alias is dropped, the row kept for
\* each document of the detail is completed, created first if a correction had none, and no
\* other row changes.
DetailShape(ix, o, S) ==
    LET D == {o} \cup S
        T == Target(ix, o)
        refs == {Target(ix, d) : d \in D}
        jx == RecordDetail(ix, o, S)
    IN  /\ jx = [k \in Keys |-> jx[k]]
        /\ T \in Keys /\ T[2] = o /\ ix[T] # Null /\ refs \in SUBSET Keys
        /\ \A k \in Keys :
              jx[k] = IF k[2] \in D /\ HasAlias(ix, k[2]) /\ k = Rdf(k[2]) THEN Null
                      ELSE IF k[2] \in D /\ k = Target(ix, k[2])
                      THEN DetailedRow(IF ix[k] = Null THEN BareRow(k[2], T) ELSE ix[k],
                                       k[2], refs)
                      ELSE ix[k]

LEMMA DetailRows ==
    ASSUME NEW ix, WellFormed(ix), NEW o \in Docs, IsOriginal(o),
           ix[Rdf(o)] # Null, ix[Rdf(o)].number = Null, NEW S \in SUBSET Corrections(o)
    PROVE  DetailShape(ix, o, S)
<1> DEFINE D == {o} \cup S
           T == Target(ix, o)
           refs == {Target(ix, d) : d \in D}
           dropped == DropDuplicates(ix, D)
           told == SetDetail(dropped, T, o, refs)
           added == AddCorrections(told, o, S)
           jx == RecordDetail(ix, o, S)
<1>d. D \subseteq Docs /\ \A c \in S : c \in Docs /\ c # o BY OriginalOf
<1>t. /\ ix \in [Keys -> Rows \cup {Null}]
      /\ \A k \in Keys : ix[k] # Null => ix[k] \in Rows /\ RowStory(ix[k], k)
  BY DEF WellFormed
<1>k. \A d \in Docs : /\ Target(ix, d) \in Keys /\ Target(ix, d)[2] = d
                      /\ HasAlias(ix, d) => Target(ix, d) = Id(d) /\ ix[Id(d)] # Null
                      /\ ~ HasAlias(ix, d) => Target(ix, d) = Rdf(d)
  BY KeyCases, AliasIs DEF Target
<1>0. T \in Keys /\ T[2] = o /\ ix[T] # Null /\ refs \in SUBSET Keys
  BY <1>k, <1>d
<1>1. /\ dropped \in [Keys -> Rows \cup {Null}]
      /\ \A k \in Keys : dropped[k] = IF k[2] \in D /\ HasAlias(ix, k[2]) /\ k = Rdf(k[2])
                                      THEN Null ELSE ix[k]
  <2>1. \A k \in Keys : (\E d \in D : HasAlias(ix, d) /\ k = Rdf(d))
                           <=> k[2] \in D /\ HasAlias(ix, k[2]) /\ k = Rdf(k[2])
    BY <1>d, KeyCases
  <2> QED BY <1>t, <2>1 DEF DropDuplicates
<1>2. dropped[T] = ix[T]
  <2>1. HasAlias(ix, o) => T = Id(o) BY <1>k
  <2> HIDE DEF dropped, T
  <2> QED BY <1>0, <1>1, <2>1, KeyCases
<1>3. /\ DetailedRow(ix[T], o, refs) \in Rows /\ DetailedRow(ix[T], o, refs) # Null
      /\ DetailedRow(ix[T], o, refs).number = o
  <2> HIDE DEF refs, T
  <2>1. ix[T] \in Rows /\ RowStory(ix[T], T) BY <1>0, <1>t
  <2>2. ix[T].number \in {Null, o} BY <1>k DEF T, HasAlias
  <2>3. /\ ix[T].number = Null => ix[T].facts = NoFacts /\ ix[T].file = Null
        /\ ix[T].number # Null => ix[T].facts.of = o
        /\ ix[T].file \in {Null, Original[o]} /\ ix[T].correctionOf = Null
    BY <2>1, <2>2 DEF RowStory
  <2> QED BY <1>0, <2>1, <2>2, <2>3, DetailedRowIs
<1>4. told = [k \in Keys |-> IF k = T THEN DetailedRow(ix[T], o, refs) ELSE dropped[k]]
  <2> HIDE DEF refs, T, dropped
  <2> QED BY <1>0, <1>1, <1>2, SetDetailIs
<1>5. told \in [Keys -> Rows \cup {Null}] BY <1>1, <1>3, <1>4
<1>6. \A d \in Docs : HasAlias(told, d) <=> HasAlias(ix, d)
  <2> HIDE DEF refs, dropped, told, T
  <2> SUFFICES ASSUME NEW d \in Docs PROVE HasAlias(told, d) <=> HasAlias(ix, d)
    OBVIOUS
  <2>1. CASE Id(d) = T
    <3>1. d = o BY <2>1, <1>0, KeyCases
    <3>2. told[Id(d)] # Null /\ told[Id(d)].number = d BY <2>1, <3>1, <1>3, <1>4, KeyCases
    <3>3. ix[Id(d)] # Null BY <2>1, <1>0
    <3> QED BY <3>2, <3>3, AliasIs DEF HasAlias
  <2>2. CASE Id(d) # T
    <3>1. told[Id(d)] = ix[Id(d)] BY <2>2, <1>1, <1>4, KeyCases
    <3> QED BY <3>1 DEF HasAlias
  <2> QED BY <2>1, <2>2
<1>7. Target(told, o) = T /\ told[T] # Null BY <1>0, <1>3, <1>4, <1>6 DEF Target
<1>8. \A k \in Keys : added[k] = IF /\ k[2] \in S /\ k = Rdf(k[2]) /\ ~ HasAlias(ix, k[2])
                                    /\ told[k] = Null
                                 THEN BareRow(k[2], T) ELSE told[k]
  <2> HIDE DEF refs, dropped, told, T
  <2>1. \A k \in Keys : (\E c \in S : k = Rdf(c) /\ ~ HasAlias(told, c))
                           <=> k[2] \in S /\ k = Rdf(k[2]) /\ ~ HasAlias(ix, k[2])
    BY <1>d, <1>6, KeyCases
  <2>2. added = [k \in Keys |->
                   IF \E c \in S : k = Rdf(c) /\ ~ HasAlias(told, c)
                   THEN Insert(told, k, BareRow(k[2], T))[k] ELSE told[k]]
    BY <1>7 DEF AddCorrections
  <2>3. \A k \in Keys : Insert(told, k, BareRow(k[2], T))[k]
                          = IF told[k] = Null THEN BareRow(k[2], T) ELSE told[k]
    BY <1>5 DEF Insert
  <2> QED BY <2>1, <2>2, <2>3
<1>9. added \in [Keys -> Rows \cup {Null}]
  <2> HIDE DEF refs, dropped, told, T
  <2>1. added = [k \in Keys |-> added[k]] BY DEF AddCorrections
  <2>2. \A k \in Keys : BareRow(k[2], T) \in Rows BY <1>0, KeyCases, BareRows
  <2>3. \A k \in Keys : added[k] \in Rows \cup {Null} BY <1>5, <1>8, <2>2
  <2> HIDE DEF added
  <2> QED BY <2>1, <2>3
<1>10. \A k \in Keys : (\E c \in S : k = Target(ix, c)) <=> k[2] \in S /\ k = Target(ix, k[2])
  BY <1>d, <1>k
<1>11. jx = [k \in Keys |-> IF \E c \in S : k = Target(ix, c)
                            THEN SetDetail(added, k, k[2], refs)[k] ELSE added[k]]
  BY DEF RecordDetail
<1> HIDE DEF refs, dropped, told, T, added, jx
<1>12. \A k \in Keys : SetDetail(added, k, k[2], refs)[k]
                         = IF added[k] # Null THEN DetailedRow(added[k], k[2], refs) ELSE added[k]
  <2> SUFFICES ASSUME NEW k \in Keys
               PROVE  SetDetail(added, k, k[2], refs)[k]
                        = IF added[k] # Null THEN DetailedRow(added[k], k[2], refs) ELSE added[k]
    OBVIOUS
  <2>1. SetDetail(added, k, k[2], refs)
          = [j \in Keys |-> IF j = k /\ added[j] # Null
                            THEN DetailedRow(added[j], k[2], refs) ELSE added[j]]
    BY <1>9, SetDetailIs
  <2> QED BY <2>1
<1>13. ASSUME NEW k \in Keys
       PROVE  jx[k] = IF k[2] \in D /\ HasAlias(ix, k[2]) /\ k = Rdf(k[2]) THEN Null
                      ELSE IF k[2] \in D /\ k = Target(ix, k[2])
                      THEN DetailedRow(IF ix[k] = Null THEN BareRow(k[2], T) ELSE ix[k],
                                       k[2], refs)
                      ELSE ix[k]
  <2>d. k[2] \in Docs /\ k[2] # Null /\ Rdf(k[2]) # Id(k[2]) BY KeyCases, NullAssumption
  <2>1. CASE k[2] \in S /\ k = Target(ix, k[2])
    <3>1. k # T /\ k[2] # o BY <2>1, <1>0, <1>d
    <3>2. told[k] = ix[k] BY <3>1, <2>1, <1>1, <1>4, <1>k, <2>d
    <3>3. added[k] = IF ix[k] = Null THEN BareRow(k[2], T) ELSE ix[k]
      BY <3>2, <2>1, <1>8, <1>k, <2>d
    <3>4. added[k] # Null BY <3>3, <1>0, <2>d, BareRows
    <3>5. jx[k] = DetailedRow(added[k], k[2], refs) BY <2>1, <3>4, <1>10, <1>11, <1>12
    <3>6. ~ (HasAlias(ix, k[2]) /\ k = Rdf(k[2])) BY <2>1, <1>k, <2>d
    <3> QED BY <2>1, <3>3, <3>5, <3>6
  <2>2. CASE k = T
    <3>1. k[2] = o /\ o \notin S /\ k = Target(ix, k[2]) BY <2>2, <1>0, <1>d DEF T
    <3>2. added[k] = told[k] BY <3>1, <1>8
    <3>3. jx[k] = told[k] BY <3>1, <3>2, <1>10, <1>11
    <3>4. ~ (HasAlias(ix, k[2]) /\ k = Rdf(k[2])) BY <3>1, <1>k, <2>d
    <3> QED BY <2>2, <3>1, <3>3, <3>4, <1>0, <1>4
  <2>3. CASE k # T /\ ~ (k[2] \in S /\ k = Target(ix, k[2]))
    <3>1. ~ (k[2] \in D /\ k = Target(ix, k[2])) BY <2>3 DEF T
    <3>2. jx[k] = added[k] BY <2>3, <1>10, <1>11
    <3>3. added[k] = told[k] BY <2>3, <2>d, <1>8, <1>k
    <3>4. told[k] = dropped[k] BY <2>3, <1>4
    <3> QED BY <3>1, <3>2, <3>3, <3>4, <1>1
  <2> QED BY <2>1, <2>2, <2>3
<1>14. jx = [k \in Keys |-> jx[k]] BY <1>11
<1> QED BY <1>0, <1>13, <1>14 DEF jx, T, refs, DetailShape

\* A detail of a bare list row conflicts with no other row, and leaves a well formed index if
\* its number is not yet on the row of another document, or on none at all.
LEMMA DetailKept ==
    ASSUME NEW ix, WellFormed(ix), NEW o \in Docs, IsOriginal(o),
           ix[Rdf(o)] # Null, ix[Rdf(o)].number = Null, NEW S \in SUBSET Corrections(o)
    PROVE  LET jx == RecordDetail(ix, o, S)
           IN  /\ ~ Conflicting(ix, {o} \cup S)
               /\ UniqueNumbers(jx) => WellFormed(jx)
               /\ (\A k \in Numbered(ix, o) : k[2] = o) => UniqueNumbers(jx)
<1> DEFINE D == {o} \cup S
           T == Target(ix, o)
           refs == {Target(ix, d) : d \in D}
           jx == RecordDetail(ix, o, S)
           row(k) == IF ix[k] = Null THEN BareRow(k[2], T) ELSE ix[k]
<1>d. /\ D \subseteq Docs /\ o \in D /\ \A d \in D : Original[d] = o
      /\ \A d \in D : IsOriginal(d) <=> d = o
  BY OriginalOf DEF IsOriginal
<1>t. /\ ix \in [Keys -> Rows \cup {Null}]
      /\ \A k \in Keys : ix[k] # Null => ix[k] \in Rows /\ RowStory(ix[k], k)
  BY DEF WellFormed
<1>1. /\ jx = [k \in Keys |-> jx[k]]
      /\ T \in Keys /\ T[2] = o /\ ix[T] # Null /\ refs \in SUBSET Keys
      /\ \A k \in Keys :
            jx[k] = IF k[2] \in D /\ HasAlias(ix, k[2]) /\ k = Rdf(k[2]) THEN Null
                    ELSE IF k[2] \in D /\ k = Target(ix, k[2])
                    THEN DetailedRow(row(k), k[2], refs)
                    ELSE ix[k]
  <2>1. DetailShape(ix, o, S) BY DetailRows
  <2> QED BY <2>1 DEF DetailShape
<1>k. \A d \in Docs : /\ Target(ix, d) \in Keys /\ Target(ix, d)[2] = d
                      /\ HasAlias(ix, d) => /\ Target(ix, d) = Id(d) /\ ix[Id(d)] # Null
                                            /\ ix[Id(d)].number = d
                      /\ ~ HasAlias(ix, d) => Target(ix, d) = Rdf(d) /\ ix[Id(d)] = Null
                      /\ Rdf(d) # Id(d) /\ d # Null
  BY KeyCases, AliasIs, NullAssumption DEF Target, HasAlias
\* Only the original has a list row beside the script's.
<1>a. ASSUME NEW d \in D, HasAlias(ix, d), ix[Rdf(d)] # Null PROVE d = o
  <2>1. d \in Docs /\ Rdf(d) \in Keys /\ Id(d) \in Keys /\ Rdf(d)[2] = d BY <1>d, KeyCases
  <2>2. CASE d # o
    <3>1. ix[Rdf(d)].number = d BY <2>1, <2>2, <1>a, <1>d, OwnNumber
    <3>2. ix[Id(d)] # Null /\ ix[Id(d)].number = d /\ Rdf(d) # Id(d) /\ d # Null
      BY <2>1, <1>a, <1>k
    <3> QED BY <2>1, <3>1, <3>2, <1>a DEF WellFormed, UniqueNumbers, Held
  <2> QED BY <2>2
<1>b. /\ ix[Rdf(o)].facts = NoFacts /\ ix[Rdf(o)].file = Null
      /\ ix[Rdf(o)].correctionOf = Null
  BY <1>t, KeyCases DEF RowStory
\* What is known of the row of a document of the detail before it.
<1>r. ASSUME NEW k \in Keys, k[2] \in D, k = Target(ix, k[2])
      PROVE  /\ row(k) \in Rows /\ row(k).number \in {Null, k[2]}
             /\ row(k).number = Null => row(k).facts = NoFacts
             /\ row(k).number # Null => row(k).facts.of = k[2]
             /\ row(k).file \in {Null, Original[k[2]]}
             /\ IsOriginal(k[2]) => row(k).correctionOf = Null
             /\ ix[k] = Null => row(k).correctionOf = T /\ k[2] # o /\ row(k).number = Null
             /\ ix[k] # Null => row(k) = ix[k]
  <2>1. k[2] \in Docs BY <1>d, <1>r
  <2>2. CASE ix[k] = Null
    <3>1. k[2] # o BY <2>2, <1>1, <1>r
    <3>2. row(k) = BareRow(k[2], T) BY <2>2
    <3> HIDE DEF row, T
    <3>3. /\ BareRow(k[2], T) \in Rows /\ BareRow(k[2], T).number = Null
          /\ BareRow(k[2], T).facts = NoFacts /\ BareRow(k[2], T).file = Null
          /\ BareRow(k[2], T).correctionOf = T
      BY <1>1, <2>1, BareRows
    <3> QED BY <2>2, <3>1, <3>2, <3>3, <1>d, <1>r
  <2>3. CASE ix[k] # Null
    <3>1. row(k) = ix[k] /\ ix[k] \in Rows /\ RowStory(ix[k], k) BY <2>3, <1>t
    <3> HIDE DEF row, T
    <3>2. ix[k].number \in {Null, k[2]}
      <4>1. CASE k = Id(k[2]) BY <4>1, <2>3, OwnNumber
      <4>2. CASE k = Rdf(k[2]) /\ k[2] = o BY <4>2
      <4>3. CASE k = Rdf(k[2]) /\ k[2] # o BY <4>3, <2>1, <2>3, <1>d, <1>r, OwnNumber
      <4> QED BY <4>1, <4>2, <4>3, KeyCases
    <3>3. /\ ix[k].number = Null => /\ ix[k].facts = NoFacts /\ ix[k].file = Null
                                    /\ ix[k].correctionOf = Null
          /\ ix[k].number # Null => /\ ix[k].facts.of = k[2]
                                    /\ ix[k].file \in {Null, Original[k[2]]}
                                    /\ IsOriginal(k[2]) => ix[k].correctionOf = Null
      BY <3>1, <3>2 DEF RowStory
    <3> QED BY <2>3, <3>1, <3>2, <3>3
  <2> QED BY <2>2, <2>3
\* The row of a document of the detail after it.
<1>2. ASSUME NEW k \in Keys, k[2] \in D, k = Target(ix, k[2])
      PROVE  /\ jx[k] \in Rows /\ jx[k] # Null
             /\ jx[k].number = k[2] /\ jx[k].facts.from = "detail"
             /\ jx[k].correctionOf = row(k).correctionOf
             /\ jx[k].refs = refs \/ (ix[k] # Null /\ jx[k].refs = ix[k].refs)
             /\ RowStory(jx[k], k)
  <2>1. k[2] \in Docs /\ ~ (HasAlias(ix, k[2]) /\ k = Rdf(k[2])) BY <1>2, <1>d, <1>k
  <2>2. jx[k] = DetailedRow(row(k), k[2], refs) BY <1>1, <1>2, <2>1
  <2>3. /\ row(k) \in Rows /\ row(k).number \in {Null, k[2]}
        /\ row(k).number = Null => row(k).facts = NoFacts
        /\ row(k).number # Null => row(k).facts.of = k[2]
        /\ row(k).file \in {Null, Original[k[2]]}
        /\ IsOriginal(k[2]) => row(k).correctionOf = Null
        /\ ix[k] = Null => row(k).number = Null
        /\ ix[k] # Null => row(k) = ix[k]
    BY <1>2, <1>r
  <2> HIDE DEF row, jx, refs, T
  <2>4. LET new == DetailedRow(row(k), k[2], refs)
        IN  /\ new \in Rows /\ new # Null
            /\ new.number = k[2] /\ new.facts.from = "detail"
            /\ new.correctionOf = row(k).correctionOf
            /\ new.refs = refs \/ (row(k).number # Null /\ new.refs = row(k).refs)
            /\ RowStory(new, k)
    BY <1>1, <2>3, DetailedRowIs
  <2> QED BY <2>2, <2>3, <2>4
<1>3. \A k \in Keys : ~ (k[2] \in D /\ k = Target(ix, k[2])) =>
         jx[k] = IF k[2] \in D /\ HasAlias(ix, k[2]) /\ k = Rdf(k[2]) THEN Null ELSE ix[k]
  BY <1>1
<1> HIDE DEF jx, refs, row
<1>4. jx \in [Keys -> Rows \cup {Null}]
  <2>1. \A k \in Keys : jx[k] \in Rows \cup {Null} BY <1>2, <1>3, <1>t
  <2> QED BY <1>1, <2>1
\* No numbered row is dropped.
<1>5. ASSUME NEW k \in Keys, HasNumber(ix, k)
      PROVE  ~ (k[2] \in D /\ HasAlias(ix, k[2]) /\ k = Rdf(k[2]))
  BY <1>5, <1>a DEF HasNumber
<1>6. Grown(ix, jx)
  <2> SUFFICES ASSUME NEW k \in Keys, HasNumber(ix, k)
               PROVE  /\ HasNumber(jx, k) /\ jx[k].number = ix[k].number
                      /\ jx[k].correctionOf = ix[k].correctionOf
                      /\ ix[k].facts.from = "detail" => jx[k].facts.from = "detail"
    BY DEF Grown
  <2>1. CASE k[2] \in D /\ k = Target(ix, k[2])
    <3>1. row(k) = ix[k] /\ ix[k].number = k[2] BY <2>1, <1>r DEF HasNumber
    <3> QED BY <2>1, <3>1, <1>2 DEF HasNumber
  <2>2. CASE ~ (k[2] \in D /\ k = Target(ix, k[2])) BY <2>2, <1>3, <1>5 DEF HasNumber
  <2> QED BY <2>1, <2>2
<1>7. HasNumber(jx, T) /\ jx[T].number = o /\ jx[T].facts.from = "detail"
  <2>1. T \in Keys /\ T[2] \in D /\ T = Target(ix, T[2]) BY <1>1, <1>d
  <2> HIDE DEF T
  <2> QED BY <1>1, <1>2, <1>d, <2>1, NullAssumption DEF HasNumber
<1>8. \A r \in refs : HasNumber(jx, r)
  <2> SUFFICES ASSUME NEW d \in D PROVE HasNumber(jx, Target(ix, d)) BY DEF refs
  <2>1. Target(ix, d) \in Keys /\ Target(ix, d)[2] = d /\ d # Null BY <1>d, <1>k
  <2> QED BY <2>1, <1>2 DEF HasNumber
<1>9. ASSUME NEW k \in Keys, jx[k] # Null PROVE GrownRow(ix, jx, k)
  <2>1. CASE k[2] \in D /\ k = Target(ix, k[2])
    <3>1. BundleThere(jx, k) \/ (ix[k] # Null /\ jx[k].refs = ix[k].refs)
      BY <2>1, <1>2, <1>8 DEF BundleThere
    <3>2. CASE ix[k] = Null
      <4>1. jx[k].correctionOf = T BY <2>1, <3>2, <1>2, <1>r
      <4>2. Original[k[2]] = o BY <2>1, <1>d
      <4> HIDE DEF T
      <4>3. PointsHome(jx, k) BY <4>1, <4>2, <1>7 DEF PointsHome
      <4> QED BY <2>1, <3>1, <4>3, <1>2 DEF GrownRow
    <3>3. CASE ix[k] # Null BY <2>1, <3>1, <3>3, <1>2, <1>r DEF GrownRow
    <3> QED BY <3>2, <3>3
  <2>2. CASE ~ (k[2] \in D /\ k = Target(ix, k[2])) BY <2>2, <1>3, <1>9, <1>t DEF GrownRow
  <2> QED BY <2>1, <2>2
<1>10. UniqueNumbers(jx) => WellFormed(jx) BY <1>4, <1>6, <1>9, GrownIndex
\* A row numbered before the detail is the one the detail of its document completes.
<1>11. ASSUME \A k \in Numbered(ix, o) : k[2] = o,
              NEW k \in Keys, ix[k] # Null, ix[k].number \in D
       PROVE  k = Target(ix, ix[k].number)
  <2> DEFINE d == ix[k].number
  <2>1. d \in Docs /\ d # Null BY <1>11, <1>d, <1>k
  <2>2. k[2] = d
    <3>1. CASE d = o BY <3>1, <1>11 DEF Numbered, Held
    <3>2. CASE d # o
      <4>1. ~ IsOriginal(d) BY <3>2, <1>11, <1>d
      <4> QED BY <4>1, <2>1, <1>11, OwnNumber DEF Confusable
    <3> QED BY <3>1, <3>2
  <2>3. CASE k = Id(d) BY <2>1, <2>3, <1>11, <1>k
  <2>4. CASE k = Rdf(d)
    <3>1. CASE HasAlias(ix, d)
      <4>1. d = o BY <2>4, <3>1, <1>11, <1>a
      <4> QED BY <4>1, <2>1, <2>4
    <3>2. CASE ~ HasAlias(ix, d) BY <2>1, <2>4, <3>2, <1>k
    <3> QED BY <3>1, <3>2
  <2> QED BY <2>2, <2>3, <2>4, KeyCases
<1>12. ASSUME \A k \in Numbered(ix, o) : k[2] = o PROVE UniqueNumbers(jx)
  <2> DEFINE done(k) == k[2] \in D /\ k = Target(ix, k[2])
  <2> SUFFICES ASSUME NEW j \in Keys, NEW k \in Keys, HasNumber(jx, j), HasNumber(jx, k),
                      jx[j].number = jx[k].number
               PROVE  j = k
    BY DEF UniqueNumbers, Held, HasNumber
  <2>1. ASSUME NEW i \in Keys, NEW m \in Keys, done(i), ~ done(m), HasNumber(jx, m),
               jx[m].number = jx[i].number
        PROVE  i = m
    <3>1. jx[m] = ix[m] /\ ix[m] # Null BY <2>1, <1>3 DEF HasNumber
    <3>2. ix[m].number = i[2] /\ i[2] \in D /\ i = Target(ix, i[2]) BY <2>1, <3>1, <1>2
    <3> QED BY <3>1, <3>2, <1>11, <1>12
  <2>2. CASE done(j) /\ done(k)
    <3>1. j[2] = k[2] BY <2>2, <1>2
    <3> QED BY <2>2, <3>1
  <2>3. CASE ~ done(j) /\ ~ done(k)
    <3>1. jx[j] = ix[j] /\ jx[k] = ix[k] BY <2>3, <1>3 DEF HasNumber
    <3> QED BY <3>1 DEF WellFormed, UniqueNumbers, Held, HasNumber
  <2> HIDE DEF done
  <2> QED BY <2>1, <2>2, <2>3
<1>13. ~ Conflicting(ix, D)
  <2> SUFFICES ASSUME NEW d \in D, HasAlias(ix, d), ix[Rdf(d)] # Null PROVE Droppable(ix, d)
    BY DEF Conflicting
  <2>1. d = o BY <1>a
  <2> QED BY <2>1, <1>b DEF Droppable, NoFacts
<1> QED BY <1>10, <1>12, <1>13 DEF jx

\* A row whose detail is wanted is the bare one of the captured list.
LEMMA WantedIsBare ==
    ASSUME WellFormed(index), NEW o \in Docs, index[Rdf(o)] # Null, NeedsDetail(Rdf(o))
    PROVE  index[Rdf(o)].number = Null
<1>1. Rdf(o) \in Keys BY KeyCases
<1>2. /\ index[Rdf(o)] \in Rows /\ RowStory(index[Rdf(o)], Rdf(o)) /\ BundleThere(index, Rdf(o))
  BY <1>1 DEF WellFormed
<1>3. CASE index[Rdf(o)].number # Null
  <2>1. index[Rdf(o)].facts # NoFacts BY <1>2, <1>3, FactsOf DEF RowStory
  <2>2. \A r \in index[Rdf(o)].refs : index[r] # Null BY <1>2 DEF BundleThere, HasNumber
  <2> QED BY <2>1, <2>2 DEF NeedsDetail
<1> QED BY <1>3

-----------------------------------------------------------------------------
\* The steps.

\* The captured list adds bare rows of originals that have no row of RDF's.
LEMMA HarListStep ==
    ASSUME WellFormed(index), NEW S \in SUBSET Docs, HarList(S)
    PROVE  WellFormed(index')
<1>t. /\ index \in [Keys -> Rows \cup {Null}]
      /\ \A k \in Keys : index[k] # Null => index[k] \in Rows /\ RowStory(index[k], k)
  BY DEF WellFormed
<1>1. \A k \in Keys : (\E d \in S : k = Rdf(d)) <=> k[2] \in S /\ k = Rdf(k[2])
  BY KeyCases
<1>2. index' = [k \in Keys |-> IF k[2] \in S /\ k = Rdf(k[2]) THEN BareRow(k[2], Null)
                               ELSE index[k]]
  BY <1>1 DEF HarList
<1>3. ASSUME NEW k \in Keys, k[2] \in S, k = Rdf(k[2])
      PROVE  /\ index'[k] \in Rows /\ index'[k] # Null /\ index'[k].number = Null
             /\ index[k] = Null /\ GrownRow(index, index', k)
  <2>1. index[k] = Null /\ IsOriginal(k[2]) BY <1>3 DEF HarList
  <2>2. index'[k] = BareRow(k[2], Null) BY <1>2, <1>3
  <2>3. /\ BareRow(k[2], Null) \in Rows /\ BareRow(k[2], Null) # Null
        /\ BareRow(k[2], Null).number = Null /\ BareRow(k[2], Null).facts = NoFacts
        /\ BareRow(k[2], Null).file = Null /\ BareRow(k[2], Null).correctionOf = Null
        /\ BareRow(k[2], Null).refs = {}
    BY KeyCases, BareRows
  <2> QED BY <1>3, <2>1, <2>2, <2>3 DEF GrownRow, RowStory, PointsHome, BundleThere
<1>4. \A k \in Keys : ~ (k[2] \in S /\ k = Rdf(k[2])) => index'[k] = index[k] BY <1>2
<1>5. index' \in [Keys -> Rows \cup {Null}]
  <2>1. \A k \in Keys : index'[k] \in Rows \cup {Null} BY <1>3, <1>4, <1>t
  <2> QED BY <1>2, <2>1
<1>6. \A k \in Keys : index'[k] # Null => GrownRow(index, index', k)
  BY <1>3, <1>4, <1>t DEF GrownRow
<1>7. \A k \in Keys : HasNumber(index', k) <=> HasNumber(index, k) BY <1>3, <1>4 DEF HasNumber
<1>8. \A k \in Keys : HasNumber(index, k) => index'[k] = index[k] BY <1>3, <1>4 DEF HasNumber
<1>9. Grown(index, index') BY <1>7, <1>8 DEF Grown
<1>10. UniqueNumbers(index')
  BY <1>7, <1>8 DEF WellFormed, UniqueNumbers, Held, HasNumber
<1> QED BY <1>5, <1>6, <1>9, <1>10, GrownIndex

\* A row of RDF's that has its detail is of the document its key names.
LEMMA DetailedIsOwn ==
    ASSUME WellFormed(index), NEW k \in Keys, index[k] # Null, index[k].facts.from = "detail"
    PROVE  index[k].number = k[2]
<1>1. RowStory(index[k], k) BY DEF WellFormed
<1> QED BY <1>1 DEF RowStory, NoFacts

\* A captured download fills rows that a detail or a correction's pointer made numbered.
LEMMA HarDownloadStep ==
    ASSUME WellFormed(index), NEW d \in Docs, NEW S \in SUBSET Docs, HarDownload(d, S)
    PROVE  WellFormed(index')
<1> DEFINE o == Original[d]
           covered == {Rdf(e) : e \in {o} \cup S}
           F == {k \in covered : index[k] # Null /\ index[k].file = Null}
<1>o. /\ o \in Docs /\ IsOriginal(o) /\ S \subseteq Corrections(o) /\ S \subseteq Docs
      /\ \A c \in S : Original[c] = o /\ ~ IsOriginal(c)
  BY OriginalOf DEF HarDownload, IsOriginal, Corrections
<1>1. F \in SUBSET Keys BY <1>o, KeyCases
\* The original's row has its detail: it was asked for, or a captured correction points at it.
<1>2. index[Rdf(o)] # Null => index[Rdf(o)].number = o
  <2>1. Rdf(o) \in Keys /\ Rdf(o)[2] = o /\ Rdf(d) \in Keys /\ Rdf(d)[2] = d BY <1>o, KeyCases
  <2>2. index[Rdf(o)] # Null => index[Rdf(o)].facts.from = "detail"
    <3>1. CASE d = o BY <3>1 DEF HarDownload
    <3>2. CASE d # o
      <4>1. index[Rdf(d)] # Null /\ index[Rdf(d)].correctionOf = Rdf(o)
        BY <3>2 DEF HarDownload, IsOriginal
      <4>2. PointsHome(index, Rdf(d)) /\ Rdf(o) # Null
        BY <2>1, <4>1, NullAssumption DEF WellFormed
      <4> HIDE DEF o
      <4> QED BY <2>1, <4>1, <4>2 DEF PointsHome
    <3> QED BY <3>1, <3>2
  <2> QED BY <2>1, <2>2, DetailedIsOwn
<1>3. ASSUME NEW k \in F PROVE HasNumber(index, k) /\ Original[index[k].number] = o
  <2>1. PICK e \in {o} \cup S : k = Rdf(e) OBVIOUS
  <2>2. k \in Keys /\ k[2] = e /\ e \in Docs /\ e # Null /\ index[k] # Null
    BY <2>1, <1>o, KeyCases, NullAssumption
  <2>3. CASE e = o BY <2>1, <2>2, <2>3, <1>2, <1>o DEF HasNumber, IsOriginal
  <2>4. CASE e \in S
    <3>1. index[k].number = e BY <2>2, <2>4, <1>o, OwnNumber
    <3> QED BY <2>2, <2>4, <3>1, <1>o DEF HasNumber
  <2> QED BY <2>3, <2>4
<1>4. index' = [k \in Keys |-> IF k \in F THEN [index[k] EXCEPT !.file = o] ELSE index[k]]
  BY DEF HarDownload
<1> HIDE DEF F, o
<1> QED BY <1>o, <1>1, <1>3, <1>4, FiledIndex

\* A ZIP fills numbered rows of the documents listed with it.
LEMMA ScriptZipStep ==
    ASSUME WellFormed(index), NEW o \in Docs, NEW S \in SUBSET Docs, ScriptZip(o, S)
    PROVE  WellFormed(index')
<1> DEFINE covered == {k \in Held(index) : index[k].number \in {o} \cup S}
           F == {k \in covered : index[k].file = Null}
<1>o. S \subseteq Docs /\ \A d \in {o} \cup S : Original[d] = o
  BY OriginalOf DEF ScriptZip, IsOriginal
<1>1. F \in SUBSET Keys BY DEF Held
<1>2. ASSUME NEW k \in F PROVE HasNumber(index, k) /\ Original[index[k].number] = o
  <2>1. k \in Keys /\ index[k] # Null /\ index[k].number \in {o} \cup S BY DEF Held
  <2> QED BY <2>1, <1>o, NullAssumption DEF HasNumber
<1>3. index' = [k \in Keys |-> IF k \in F THEN [index[k] EXCEPT !.file = o] ELSE index[k]]
  BY DEF ScriptZip
<1> HIDE DEF F
<1> QED BY <1>1, <1>2, <1>3, FiledIndex

\* The one filed original a listed correction names is a numbered row of an original of its kind.
LEMMA ScriptCorrectionStep ==
    ASSUME WellFormed(index), NEW c \in Docs, ScriptCorrection(c)
    PROVE  WellFormed(index')
<1> DEFINE original == IF Cardinality(FiledOriginals(c)) = 1
                       THEN CHOOSE k \in FiledOriginals(c) : TRUE ELSE Null
<1>1. index' = IndexListed(index, c, original) /\ ~ IsOriginal(c) BY DEF ScriptCorrection
<1>2. MayPoint(index, {c}, original)
  <2>1. CASE Cardinality(FiledOriginals(c)) = 1
    <3>1. FiledOriginals(c) # {} BY <2>1, FS_EmptySet
    <3>2. original \in FiledOriginals(c) BY <2>1, <3>1
    <3>3. /\ original \in Keys /\ index[original] # Null
          /\ Kind[original[2]] = Kind[c]
          /\ index[original].facts # NoFacts /\ IsOriginal(index[original].facts.of)
      BY <3>2 DEF FiledOriginals, Held
    <3> HIDE DEF original
    <3>4. RowStory(index[original], original) BY <3>3 DEF WellFormed
    <3>5. /\ HasNumber(index, original) /\ IsOriginal(index[original].number)
          /\ Kind[index[original].number] = Kind[c]
      BY <3>3, <3>4 DEF RowStory, HasNumber, Confusable
    <3> QED BY <1>1, <3>3, <3>5 DEF MayPoint
  <2>2. CASE Cardinality(FiledOriginals(c)) # 1 BY <2>2 DEF MayPoint
  <2> QED BY <2>1, <2>2
<1> HIDE DEF original
<1>3. IndexListed(index, c, original) = IndexTabs(index, {c}, original) /\ Apart(index, {c})
  BY ListedIsTab
<1>4. {c} \in SUBSET Docs OBVIOUS
<1>5. ListingShape(index, IndexTabs(index, {c}, original), {c})
  BY <1>2, <1>3, <1>4, ListingKept
<1> QED BY <1>1, <1>3, <1>5 DEF ListingShape

-----------------------------------------------------------------------------
\* The theorems.

LEMMA IInvInit == Init => IInv
<1> SUFFICES ASSUME Init PROVE IInv OBVIOUS
<1>1. \A k \in Keys : index[k] = Null BY DEF Init
<1>2. index \in [Keys -> Rows \cup {Null}] BY DEF Init
<1>3. UniqueNumbers(index) BY <1>1 DEF UniqueNumbers, Held
<1> QED BY <1>1, <1>2, <1>3 DEF IInv, WellFormed, Init

LEMMA IInvNext == IInv /\ [Next]_vars => IInv'
<1> SUFFICES ASSUME IInv, [Next]_vars PROVE IInv' OBVIOUS
<1>i. WellFormed(index) /\ deleted \subseteq Docs BY DEF IInv
<1> SUFFICES WellFormed(index') /\ deleted' \subseteq Docs
  BY DEF IInv, WellFormed, RowStory, PointsHome, BundleThere, HasNumber, UniqueNumbers, Held
<1>1. ASSUME NEW S \in SUBSET Docs, HarList(S) PROVE WellFormed(index') /\ deleted' \subseteq Docs
  BY <1>1, <1>i, HarListStep DEF HarList
<1>2. ASSUME NEW o \in Docs, NEW S \in SUBSET Docs, HarDetail(o, S)
      PROVE  WellFormed(index') /\ deleted' \subseteq Docs
  <2>1. /\ IsOriginal(o) /\ S \in SUBSET Corrections(o) /\ index[Rdf(o)] # Null
        /\ NeedsDetail(Rdf(o)) /\ UniqueNumbers(RecordDetail(index, o, S))
        /\ index' = RecordDetail(index, o, S) /\ deleted' = deleted
    BY <1>2 DEF HarDetail
  <2>2. index[Rdf(o)].number = Null BY <2>1, <1>i, WantedIsBare
  <2> QED BY <2>1, <2>2, <1>i, DetailKept
<1>3. ASSUME NEW d \in Docs, NEW S \in SUBSET Docs, HarDownload(d, S)
      PROVE  WellFormed(index') /\ deleted' \subseteq Docs
  BY <1>3, <1>i, HarDownloadStep DEF HarDownload
<1>4. ASSUME NEW o \in Docs, NEW S \in SUBSET Docs, ScriptGroup(o, S)
      PROVE  WellFormed(index') /\ deleted' \subseteq Docs
  BY <1>4, <1>i, GroupImported DEF ScriptGroup
<1>5. ASSUME NEW c \in Docs, ScriptCorrection(c)
      PROVE  WellFormed(index') /\ deleted' \subseteq Docs
  BY <1>5, <1>i, ScriptCorrectionStep DEF ScriptCorrection
<1>6. ASSUME NEW o \in Docs, NEW S \in SUBSET Docs, ScriptZip(o, S)
      PROVE  WellFormed(index') /\ deleted' \subseteq Docs
  BY <1>6, <1>i, ScriptZipStep DEF ScriptZip
<1>7. ASSUME NEW d \in Docs, RdfDeletes(d) PROVE WellFormed(index') /\ deleted' \subseteq Docs
  BY <1>7, <1>i DEF RdfDeletes
<1>8. CASE UNCHANGED vars BY <1>8, <1>i DEF vars
<1> QED BY <1>1, <1>2, <1>3, <1>4, <1>5, <1>6, <1>7, <1>8 DEF Next

\* Every reachable index is well formed, whatever was imported in whatever order.
THEOREM IInvHolds == Spec => []IInv
BY IInvInit, IInvNext, PTL DEF Spec

\* The columns hold what the schema says they may.
THEOREM TypeCorrect == Spec => []TypeOK
<1>1. IInv => TypeOK BY DEF IInv, WellFormed, TypeOK
<1> QED BY <1>1, IInvHolds, PTL

\* Number, facts and file of a row are of one document, the one its key names unless the script
\* took a captured row, its detail unread, for another original listed alike.
THEOREM OneDocumentAlways == Spec => []OneDocumentPerRow
<1>1. ASSUME WellFormed(index), NEW k \in Held(index)
      PROVE  LET d == Of(index, k)
             IN  /\ index[k].facts.of \in {Null, d}
                 /\ index[k].file \in {Null, Original[d]}
                 /\ d # k[2] => /\ k = Rdf(k[2]) /\ Confusable(k[2], d)
                                /\ index[k].facts.from = "listing"
  <2>1. k \in Keys /\ index[k] # Null BY DEF Held
  <2>2. RowStory(index[k], k) BY <2>1, <1>1 DEF WellFormed
  <2> QED BY <2>2 DEF RowStory, Of, NoFacts
<1>2. IInv => OneDocumentPerRow BY <1>1 DEF IInv, OneDocumentPerRow
<1> QED BY <1>2, IInvHolds, PTL

\* A captured detail still wanted can be recorded in every state the imports reach: it never
\* conflicts with a row of the script's, and numbers two rows alike only if the script took the
\* captured row of another original for its document's.
THEOREM DetailNeverRefusedHolds == Spec => []DetailNeverRefused
<1>1. ASSUME WellFormed(index), NEW o \in Docs, NEW S \in SUBSET Corrections(o),
             IsOriginal(o), index[Rdf(o)] # Null, NeedsDetail(Rdf(o))
      PROVE  /\ ~ Conflicting(index, {o} \cup S)
             /\ TakenFor(o) \/ UniqueNumbers(RecordDetail(index, o, S))
  <2>1. index[Rdf(o)].number = Null BY <1>1, WantedIsBare
  <2> QED BY <1>1, <2>1, DetailKept DEF TakenFor
<1>2. IInv => DetailNeverRefused BY <1>1 DEF IInv, DetailNeverRefused
<1> QED BY <1>2, IInvHolds, PTL

\* A correction's row points at a row of an original that no step drops or takes over: the one it
\* corrects when it was captured, that one or the one original of its kind when it was listed.
THEOREM CorrectionsKept == Spec => []CorrectionsKeepTheirOriginal
<1>1. ASSUME WellFormed(index), NEW k \in Held(index), index[k].correctionOf # Null
      PROVE  LET to == index[k].correctionOf
                 d == Of(index, to)
             IN  /\ index[to] # Null /\ index[to].correctionOf = Null
                 /\ index[to].facts # NoFacts
                 /\ \/ d = Original[k[2]]
                    \/ k = Id(k[2]) /\ IsOriginal(d) /\ Kind[d] = Kind[k[2]]
  <2> DEFINE to == index[k].correctionOf
  <2>1. k \in Keys /\ index[k] # Null BY DEF Held
  <2>2. index[k] \in Rows /\ PointsHome(index, k) BY <2>1, <1>1 DEF WellFormed
  <2>3. to \in Keys BY <2>2, <1>1, RowsAre
  <2>4. /\ HasNumber(index, to) /\ IsOriginal(index[to].number)
        /\ \/ index[to].number = Original[k[2]]
           \/ k = Id(k[2]) /\ Kind[index[to].number] = Kind[k[2]]
    BY <2>2, <1>1 DEF PointsHome
  <2> HIDE DEF to
  <2>5. index[to] \in Rows /\ RowStory(index[to], to) BY <2>3, <2>4, <1>1 DEF WellFormed, HasNumber
  <2>6. index[to].correctionOf = Null /\ index[to].facts # NoFacts
    BY <2>4, <2>5, FactsOf DEF RowStory, HasNumber
  <2> QED BY <2>4, <2>6 DEF HasNumber, Of, to
<1>2. IInv => CorrectionsKeepTheirOriginal BY <1>1 DEF IInv, CorrectionsKeepTheirOriginal
<1> QED BY <1>2, IInvHolds, PTL

\* Importing an expanded row twice is importing it once, in every state the imports reach.
THEOREM ReimportIdempotent == Spec => []ReimportAddsNothing
<1>1. IInv => ReimportAddsNothing
  <2> SUFFICES ASSUME IInv, NEW o \in Docs, NEW S \in SUBSET Corrections(o), IsOriginal(o)
               PROVE  LET once == IndexGroup(index, o, S) IN IndexGroup(once, o, S) = once
    BY DEF ReimportAddsNothing
  <2> QED BY GroupImported DEF IInv
<1> QED BY <1>1, IInvHolds, PTL
=============================================================================
