-------------------------- MODULE MCWaterCollector --------------------------
(* Small instances of WaterCollector for TLC. *)
EXTENDS WaterCollector

Says(v) == [code |-> "own", time |-> "good", fields |-> [f \in Field |-> v]]

\* A source with two records and one without a value, beside a source whose only
\* record has a value that is no number.
TwoSources == [r \in Record |-> IF r = 4 THEN 2 ELSE 1]
Mixed == [r \in Record |-> Says(CASE r = 3 -> "null" [] r = 4 -> "other" [] OTHER -> "number")]

Same == [s \in Source |-> s]

FileRead == [url |-> TRUE, sources |-> TRUE, offsets |-> TRUE, overlap |-> 1]
=============================================================================
