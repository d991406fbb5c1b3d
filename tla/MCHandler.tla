----------------------------- MODULE MCHandler -----------------------------
(***************************************************************************)
(* Handler on small instances: one request of each verdict.                *)
(***************************************************************************)
EXTENDS Handler, TLC

Symmetry == Permutations(Containers) \cup Permutations(Reqs)

DataKinds == {"write", "begin", "commit"}

Good == [token |-> "right", route |-> "sql", large |-> FALSE, valid |-> TRUE]

OneOfEach ==
    { Good,
      [Good EXCEPT !.token = "wrong"],
      [Good EXCEPT !.token = "missing"],
      [Good EXCEPT !.route = "health"],
      [Good EXCEPT !.route = "unknown"],
      [Good EXCEPT !.large = TRUE],
      [Good EXCEPT !.valid = FALSE] }

=============================================================================
