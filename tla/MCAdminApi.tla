----------------------------- MODULE MCAdminApi -----------------------------
(* The registry on small instances. *)
EXTENDS AdminApi, TLC

\* The names of the sessions and of the plants do not matter.
Interchangeable == Permutations(Session) \cup Permutations(Plant)

=============================================================================
