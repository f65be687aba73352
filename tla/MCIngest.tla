------------------------------ MODULE MCIngest ------------------------------
(* Small instances of Ingest for TLC. *)
EXTENDS Ingest

\* Keys 1 and 2 are "COD" and "cod", key 3 is "ph".
MCLower == <<"cod", "cod", "ph">>

\* One device that may lose a metric, gain one, or send one key in two cases.
MixedShapes == {{}, {1}, {1, 2}}

\* A device whose messages always carry the same metrics.
FixedShape == {{2, 3}}

MCTime == 0..2
=============================================================================
