----------------------------- MODULE MCRawStore -----------------------------
\* RawStore with two documents and two concurrent ingestion runs.
EXTENDS RawStore

CONSTANTS c1, c2, w1, w2

MCContent == {c1, c2}
MCWriters == {w1, w2}
=============================================================================
