------------------------- MODULE MCIngestConcurrent -------------------------
(* Small instances of IngestConcurrent for TLC. *)
EXTENDS IngestConcurrent, TLC

\* Keys 1, 2 and 3 are "TOC", "cod" and "toc", in the order of jsonb.
MCLower == <<"toc", "cod", "toc">>

\* A device that spells one of its two metrics now this way, now that.
TwoSpellings == {{1, 2}, {2, 3}}

MCTime == 0..2

Interchangeable == Permutations(Session)
=============================================================================
