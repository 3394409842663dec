--------------------------- MODULE MCScriptSearches ---------------------------
\* Two companies, the second drawn first; two empty answers in a row are suspect.
EXTENDS ScriptSearches

MCCompanies == {1, 2}
MCDrawn == [k \in MCCompanies |-> 2 - k]
=============================================================================
