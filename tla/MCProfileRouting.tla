-------------------------- MODULE MCProfileRouting --------------------------
(* Two profiles of one plant's sensors, and every small way to define them. *)
EXTENDS ProfileRouting

Sensors == [p \in Profile |-> IF p = "cod1" THEN "rs_cod" ELSE "rs_zd_turbidity"]

\* Below zero in the second and the third register; a float in the first two.
Registers == 0 :> 17298 @@ 1 :> -27861 @@ 2 :> -7 @@ 3 :> 46 @@ 4 :> 0 @@ 16 :> 65535 @@ 17 :> 9

Reading(address, function, start, count) ==
  [address |-> address, function |-> function, start |-> start, count |-> count]
Reads == {Reading(1, 3, 0, 1), Reading(1, 3, 0, 2), Reading(2, 3, 0, 3), Reading(1, 4, 1, 3),
          Reading(1, 3, 16, 1), Reading(1, 6, 0, 1)}

\* The message of the decoder's tests: 04 03 00 00 00 02 C4 5E and its answer.
Kept == {<<4, 3, 0, 0, 0, 2, 196, 94, 4, 3, 4, 67, 146, 119, 43, 124, 181>>}

NoAlias == [m \in {} |-> "cod"]
Matching == {Reading(1, 3, 0, 2), Reading(2, 3, 0, 3), Reading(1, Open, Open, Open)}

Defined ==
  [source : {None, "hub"}, target : {None, "hub", "cod1"}, range : {50},
   matches : {{}} \cup {{m} : m \in Matching} \cup {{m \in Matching : m.start # Open}},
   publish : {None, {"temperature"}, {"temperature", "turbidity"}},
   aliases : {NoAlias, [m \in {"temperature"} |-> "turbidity"], [m \in {"temperature"} |-> "cod"]}]

\* A metric that is left alone is not renamed as well; a range no type takes.
Definitions ==
  {d \in Defined : d.publish = {"temperature"} => d.aliases = NoAlias}
    \cup {[d EXCEPT !.range = 7] : d \in {e \in Defined :
            e.source = None /\ e.target = None /\ e.publish = None /\ e.aliases = NoAlias}}

=============================================================================
