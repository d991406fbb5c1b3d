----------------------------- MODULE Statements -----------------------------
(***************************************************************************)
(* The SQL a client may send, cut down to what db.rs tells apart, and the  *)
(* statement policy that the SQLite authorizer callback enforces on every  *)
(* prepared statement.                                                     *)
(*                                                                         *)
(* A statement is the authorizer action it raises, the pragma it names and *)
(* whether it gives that pragma a value, and what sqlite3_stmt_readonly    *)
(* says of it.  SQLite reports transaction control as read-only, and the   *)
(* read form of journal_mode as well as wal_checkpoint as NOT read-only.   *)
(***************************************************************************)

Stmt(action, readonly) ==
    [action |-> action, pragma |-> "none", value |-> FALSE, readonly |-> readonly]

PragmaStmt(name, value, readonly) ==
    [action |-> "pragma", pragma |-> name, value |-> value, readonly |-> readonly]

\* SAVEPOINT / RELEASE of an outermost savepoint behave as begin / commit.
Statement ==
    [ select          |-> Stmt("select", TRUE),
      write           |-> Stmt("write", FALSE),
      begin           |-> Stmt("transaction", TRUE),
      commit          |-> Stmt("transaction", TRUE),
      rollback        |-> Stmt("transaction", TRUE),
      attach          |-> Stmt("attach", TRUE),
      table_info      |-> PragmaStmt("table_info", TRUE, TRUE),
      wal_checkpoint  |-> PragmaStmt("wal_checkpoint", TRUE, FALSE),
      journal_mode    |-> PragmaStmt("journal_mode", FALSE, FALSE),
      synchronous_off |-> PragmaStmt("synchronous", TRUE, TRUE) ]

Kinds == DOMAIN Statement

-----------------------------------------------------------------------------

\* Pragmas whose argument only selects what to read.
ARG_SAFE_PRAGMAS ==
    {"table_info", "table_xinfo", "table_list", "index_list", "index_info",
     "index_xinfo", "foreign_key_list", "foreign_key_check",
     "integrity_check", "quick_check"}

\* Mutant: every pragma is allowed.
AuthorizeAnyPragma(name, hasValue) == TRUE

AuthorizePragma(name, hasValue) ==
    \/ name = "wal_checkpoint"
    \/ name \in ARG_SAFE_PRAGMAS
    \/ ~hasValue

\* authorize_action: TRUE is Authorization::Allow.
AuthorizeAction(s) ==
    CASE s.action \in {"attach", "detach"} -> FALSE
      [] s.action = "pragma"               -> AuthorizePragma(s.pragma, s.value)
      [] OTHER                             -> TRUE

Authorized(kind) == AuthorizeAction(Statement[kind])

\* What a statement the policy refuses would have done to the connection.
Reconfigures(kind) == kind \in {"attach", "synchronous_off"}

=============================================================================
