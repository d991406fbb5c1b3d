----------------------------- MODULE MCSqliteDb -----------------------------
(***************************************************************************)
(* SqliteDb on small instances.                                            *)
(***************************************************************************)
EXTENDS SqliteDb, TLC

\* Containers are alike, and so are calls.
Symmetry == Permutations(Containers) \cup Permutations(Reqs)

\* Every kind of statement, and the ones that move data.
AllKinds == Kinds
DataKinds == {"write", "begin", "commit"}
TxnKinds == {"write", "begin", "commit", "rollback"}

=============================================================================
