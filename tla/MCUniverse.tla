----------------------------- MODULE MCUniverse -----------------------------
\* Six companies, one of them in both distress statuses, and one more in the seed than the draws;
\* the permutation design from four of the frame's orders.
EXTENDS Universe

MCYear == [k \in Companies |-> IF k < 3 THEN 1 ELSE 2]
MCInStatus == [c \in {"bpcy", "liq"} |-> IF c = "bpcy" THEN {1, 3, 4} ELSE {4, 5}]
MCDistress == <<"bpcy", "liq">>
MCWanted == [g \in {"A", "bpcy", "liq"} |-> IF g = "A" THEN 3 ELSE IF g = "bpcy" THEN 2 ELSE 1]
Entry(hits, report, number, form, pkd) ==
    [hits |-> hits, report |-> report, number |-> number, form |-> form, pkd |-> pkd]
\* One is a person, one has empty reports, one has reports that cannot be read, one is refused for
\* two reasons; behind the unreadable one nobody settles when it is drawn.
MCRegister ==
    [k \in 0..5 |->
        CASE k = 0 -> Entry("person", "sound", "none", "llc", "inside")
          [] k = 1 -> Entry("one", "empty", "same", "llc", "inside")
          [] k = 2 -> Entry("one", "unreadable", "same", "llc", "inside")
          [] k = 5 -> Entry("one", "sound", "none", "other", "outside")
          [] OTHER -> Entry("one", "sound", "same", "llc", "inside")]
MCListed == [s \in {"manual_seed"} |-> {0, 1}]
MCOrders == {<<0, 1, 2, 3, 4, 5>>, <<5, 4, 3, 2, 1, 0>>, <<3, 0, 4, 1, 2, 5>>, <<1, 3, 5, 0, 2, 4>>}
MCGarbled == {<<"A", 3>>}
MCAcquired == [search : {"complete", "rdf_search_incomplete"}, stored : {TRUE}, held : {FALSE}]
=============================================================================
