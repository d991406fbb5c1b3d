----------------------------- MODULE AtomicExec -----------------------------
(***************************************************************************)
(* What a caller of run_exec is promised: a statement is one step.  It is  *)
(* answered with all of its rows, or with an error and none, and what it   *)
(* reports, and the counters it leaves to the next one, follow from the    *)
(* statement and the counters before it.  Only an error may leave a part   *)
(* of its changes behind, as OR FAIL does.  Nothing is said of how it is   *)
(* stepped, capped or interrupted.                                         *)
(***************************************************************************)
EXTENDS Integers

CONSTANTS MaxRows,     \* RUSTYHIP_MAX_ROWS, 0 when unset
          TimeoutSet,  \* is RUSTYHIP_QUERY_TIMEOUT_MS set?
          Rows,        \* how many rows a statement may yield
          Changed,     \* how many rows it may change
          RowIds       \* rowids an INSERT may assign

ASSUME ExecAssumption ==
    /\ MaxRows \in Nat
    /\ TimeoutSet \in BOOLEAN
    /\ Rows \subseteq Nat
    /\ Changed \subseteq Nat
    /\ RowIds \subseteq Nat

VARIABLES changes,  \* sqlite3_changes of the connection
          lastId,   \* sqlite3_last_insert_rowid
          outcome   \* what the last call returned

execVars == <<changes, lastId, outcome>>

\* What SQLite does for a form of statement: is it read-only, does it set
\* sqlite3_changes, does it assign a rowid, may it yield rows?
Form(readonly, counts, inserts, yields) ==
    [readonly |-> readonly, counts |-> counts, inserts |-> inserts, yields |-> yields]

Forms ==
    [ select       |-> Form(TRUE, FALSE, FALSE, TRUE),
      insert       |-> Form(FALSE, TRUE, TRUE, TRUE),   \* with or without RETURNING
      update       |-> Form(FALSE, TRUE, FALSE, TRUE),
      ddl          |-> Form(FALSE, FALSE, FALSE, FALSE),
      journal_mode |-> Form(FALSE, FALSE, FALSE, TRUE) ]

\* The rowid of a statement that assigns none.
NoRowId == -1

Idle == [form |-> "idle", offers |-> 0, changed |-> 0, rowid |-> NoRowId]

\* What a statement would do if carried out: the rows it offers and changes, and
\* the last rowid it assigns.  An INSERT need not assign one: OR IGNORE and
\* INSERT ... SELECT may add no row, DO UPDATE changes one that is there, and a
\* WITHOUT ROWID table has none.
Stmt ==
    {s \in [form : DOMAIN Forms, offers : Rows, changed : Changed,
            rowid : RowIds \cup {NoRowId}] :
        /\ ~Forms[s.form].yields => s.offers = 0
        /\ ~Forms[s.form].counts => s.changed = 0
        /\ ~Forms[s.form].inserts \/ s.changed = 0 => s.rowid = NoRowId}

\* result is "ok" or why the call failed; of is the statement it was for.
Outcome(result, of, n, rowcount, lastrowid) ==
    [result |-> result, of |-> of, rows |-> n, rowcount |-> rowcount, lastrowid |-> lastrowid]

-----------------------------------------------------------------------------

\* The counters after a statement that was carried out.
CountedBy(s) == IF Forms[s.form].counts THEN s.changed ELSE changes
InsertedBy(s) == IF s.rowid = NoRowId THEN lastId ELSE s.rowid

\* The rowids an error may leave: the one before, or that of any row the
\* statement inserted so far, whether that row is kept or taken back.
LeftBy(s) == IF s.rowid = NoRowId THEN {lastId} ELSE {lastId} \cup RowIds

Complete(s) == MaxRows # 0 => s.offers <= MaxRows

CarriedOut(s, result) ==
    /\ changes' = CountedBy(s)
    /\ lastId' = InsertedBy(s)
    /\ outcome' = result

\* With all of its rows, and the counters unless it only reads.
Answered(s) ==
    /\ Complete(s)
    /\ CarriedOut(s, IF Forms[s.form].readonly
                     THEN Outcome("ok", s, s.offers, 0, 0)
                     ELSE Outcome("ok", s, s.offers, CountedBy(s), InsertedBy(s)))

\* More rows than the cap: carried out, and answered with an error.
Refused(s) ==
    /\ ~Complete(s)
    /\ CarriedOut(s, Outcome("max_rows", s, 0, 0, 0))

\* Failed, or out of time, and taken back but for a rowid it may have used.
Undone(s, why) ==
    /\ why = "timeout" => TimeoutSet
    /\ changes' = IF Forms[s.form].counts THEN 0 ELSE changes
    /\ lastId' \in LeftBy(s)
    /\ outcome' = Outcome(why, s, 0, 0, 0)

\* Carried out, but one of its rows holds a value that cannot be handed on.
Unreadable(s) ==
    /\ s.offers > 0
    /\ CarriedOut(s, Outcome("sql", s, 0, 0, 0))

\* Failed short of its end, and the rows it changed by then are kept and counted.
KeptInPart(s) ==
    /\ changes' \in 0..(s.changed - 1)
    /\ lastId' \in LeftBy(s)
    /\ outcome' = Outcome("sql", s, 0, 0, 0)

\* Never prepared, or never bound.
NotRun ==
    /\ outcome' = Outcome("sql", Idle, 0, 0, 0)
    /\ UNCHANGED <<changes, lastId>>

AtomicInit ==
    /\ changes = 0
    /\ lastId = 0
    /\ outcome = Outcome("none", Idle, 0, 0, 0)

AtomicNext ==
    \/ \E s \in Stmt : \/ Answered(s)
                          \/ Refused(s)
                          \/ \E why \in {"sql", "timeout"} : Undone(s, why)
                          \/ Unreadable(s)
                          \/ KeptInPart(s)
    \/ NotRun

AtomicSpec == AtomicInit /\ [][AtomicNext]_execVars

=============================================================================
