-------------------------- MODULE MCDecoderService --------------------------
(* Small instances of DecoderService for TLC. *)
EXTENDS DecoderService, TLC

\* Two readings of one device, one of another.
Outputs == [r \in Reading |-> IF r = "r3" THEN "d2" ELSE "d1"]
=============================================================================
