------------------------ MODULE MCTelemetryPipeline ------------------------
(* Small instances of TelemetryPipeline for TLC. *)
EXTENDS TelemetryPipeline

Same == [s \in Source |-> s]
OneSource == [r \in Record |-> 1]
Numbers == [r \in Record |->
              [code |-> "own", time |-> "good", fields |-> [f \in Field |-> "number"]]]

FileRead == [url |-> TRUE, sources |-> TRUE, offsets |-> TRUE, overlap |-> 3]
=============================================================================
