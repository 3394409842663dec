--------------------------- MODULE MCFilingIndex ---------------------------
\* A statement with a correction, and a second original of the same type and period.
EXTENDS FilingIndex

CONSTANTS statement, correction, other

MCDocs == {statement, correction, other}
MCOriginal == [d \in MCDocs |-> IF d = correction THEN statement ELSE d]
MCKind == [d \in MCDocs |-> "statement"]
=============================================================================
