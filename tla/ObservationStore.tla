-------------------------- MODULE ObservationStore --------------------------
(***************************************************************************)
(* What the telemetry store promises its readers, with no tables: for each *)
(* topic and source time the last payload accepted, whole and alone, and   *)
(* beside them every message that came without a source time.  Sending an  *)
(* observation again replaces it; nothing else ever changes.               *)
(***************************************************************************)
CONSTANTS Topic, Time, Content, Empty, Id

VARIABLES
  observed,   \* the readings shown for a topic and source time
  unsourced   \* the messages without a source time, by identity

vars == <<observed, unsourced>>

Init ==
  /\ observed = [o \in Topic \X Time |-> Empty]
  /\ unsourced = [i \in {} |-> Empty]

Put(t, s, c) ==
  /\ observed' = [observed EXCEPT ![<<t, s>>] = c]
  /\ UNCHANGED unsourced

Append(i, t, c) ==
  /\ i \notin DOMAIN unsourced
  /\ unsourced' = [j \in DOMAIN unsourced \cup {i} |->
                     IF j = i THEN <<t, c>> ELSE unsourced[j]]
  /\ UNCHANGED observed

Next ==
  \/ \E t \in Topic, s \in Time, c \in Content : Put(t, s, c)
  \/ \E i \in Id, t \in Topic, c \in Content : Append(i, t, c)

Spec == Init /\ [][Next]_vars

=============================================================================
