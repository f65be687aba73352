--------------------------- MODULE MCSerialBridge ---------------------------
(* The shortest frame there is and one of five bytes; any other text between markers is invalid. *)
EXTENDS SerialBridge

ShortFrame == {<<"B", "G", "E", "D">>, <<"B", "G", "D", "E", "D">>}

=============================================================================
