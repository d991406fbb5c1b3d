------------------------------ MODULE RunExec ------------------------------
(***************************************************************************)
(* run_exec and run_exec_with_settings of src/db.rs: one statement after   *)
(* another on the shared connection, fetched row by row under the MAX_ROWS *)
(* cap and the query timeout, and the change counters of the connection,   *)
(* which outlive the statement that set them.                              *)
(***************************************************************************)
EXTENDS AtomicExec

VARIABLES progress,  \* is a progress handler installed?
          running,   \* the statement being stepped, or Idle
          left,      \* rows it has yet to yield
          rows       \* rows materialized so far

vars == <<changes, lastId, progress, running, left, rows, outcome>>

Failed(why) == Outcome(why, running, 0, 0, 0)

Init ==
    /\ AtomicInit
    /\ progress = FALSE
    /\ running = Idle
    /\ left = 0
    /\ rows = 0

-----------------------------------------------------------------------------

\* progress_handler installed, parameters bound, statement prepared.
Start(s) ==
    /\ running = Idle
    /\ progress' = TimeoutSet
    /\ running' = s
    /\ left' = s.offers
    /\ rows' = 0
    /\ UNCHANGED <<changes, lastId, outcome>>

\* run_exec returned: run_exec_with_settings removes the handler.
\* Mutant: it is removed only when the call succeeded.
ReturnKeepingHandler(result) ==
    /\ outcome' = result
    /\ progress' = (progress /\ result.result # "ok")
    /\ running' = Idle
    /\ left' = 0
    /\ rows' = 0
Return(result) ==
    /\ outcome' = result
    /\ progress' = FALSE
    /\ running' = Idle
    /\ left' = 0
    /\ rows' = 0

\* A parameter that cannot be bound, or a statement that cannot be prepared.
StartFails ==
    /\ running = Idle
    /\ Return(Outcome("sql", Idle, 0, 0, 0))
    /\ UNCHANGED <<changes, lastId>>

\* The cap is checked on a row that is already fetched, before it is kept.
\* Mutant: one row too many gets in.
AtCapLate(n) == MaxRows # 0 /\ n > MaxRows
AtCap(n) == MaxRows # 0 /\ n >= MaxRows

FetchRow ==
    /\ running # Idle
    /\ left > 0
    /\ ~AtCap(rows)
    /\ rows' = rows + 1
    /\ left' = left - 1
    /\ UNCHANGED <<changes, lastId, progress, running, outcome>>

\* The counters when the statement is finished or reset: SQLite changes all
\* rows before it yields the first one.
Counted == CountedBy(running)
Inserted == InsertedBy(running)

\* Mutant: the rows up to the cap are answered, and the rest is dropped.
OverCapTruncates ==
    /\ running # Idle
    /\ left > 0
    /\ AtCap(rows)
    /\ changes' = Counted
    /\ lastId' = Inserted
    /\ Return(Outcome("ok", running, rows, 0, 0))

OverCap ==
    /\ running # Idle
    /\ left > 0
    /\ AtCap(rows)
    /\ changes' = Counted
    /\ lastId' = Inserted
    /\ Return(Failed("max_rows"))

\* A column of a fetched row cannot be read: text that is not UTF-8.
ReadColumnFails ==
    /\ running # Idle
    /\ left > 0
    /\ ~AtCap(rows)
    /\ changes' = Counted
    /\ lastId' = Inserted
    /\ Return(Failed("sql"))

\* The deadline passed while the statement was stepped: what it did is undone,
\* and a rowid it had assigned stays.
Interrupt ==
    /\ running # Idle
    /\ progress
    /\ changes' = IF Forms[running.form].counts THEN 0 ELSE changes
    /\ lastId' \in LeftBy(running)
    /\ Return(Failed("timeout"))

\* Any other error of a step that takes the statement back: a constraint, a
\* type, an I/O error.
StepFails ==
    /\ running # Idle
    /\ changes' = IF Forms[running.form].counts THEN 0 ELSE changes
    /\ lastId' \in LeftBy(running)
    /\ Return(Failed("sql"))

\* A constraint under OR FAIL keeps the rows changed before, and counts them.
\* All rows are changed before the first one is yielded.
StepFailsKeepingRows ==
    /\ running # Idle
    /\ rows = 0
    /\ changes' \in 0..(running.changed - 1)
    /\ lastId' \in LeftBy(running)
    /\ Return(Failed("sql"))

\* The counters are the connection's; read-only statements report 0.
\* Mutant: they report the counters as well (the regression of issue #20).
ReportAlways(readonly, counter) == counter
Report(readonly, counter) == IF readonly THEN 0 ELSE counter

Finish ==
    LET readonly == Forms[running.form].readonly IN
    /\ running # Idle
    /\ left = 0
    /\ changes' = Counted
    /\ lastId' = Inserted
    /\ Return(Outcome("ok", running, rows, Report(readonly, Counted),
                      Report(readonly, Inserted)))

Next ==
    \/ \E s \in Stmt : Start(s)
    \/ StartFails
    \/ FetchRow
    \/ OverCap
    \/ ReadColumnFails
    \/ Interrupt
    \/ StepFails
    \/ StepFailsKeepingRows
    \/ Finish

Spec == Init /\ [][Next]_vars

-----------------------------------------------------------------------------
(* Properties.                                                             *)

TypeOK ==
    /\ changes \in Nat
    /\ lastId \in Nat
    /\ progress \in BOOLEAN
    /\ running \in Stmt \cup {Idle}
    /\ left \in Nat
    /\ rows \in Nat

\* A call is answered with every row or with an error, never with a part of
\* the rows; it is refused exactly when there are more rows than the cap, and
\* no more than the cap are ever held.
CapIsExact ==
    /\ MaxRows # 0 => rows <= MaxRows
    /\ outcome.result = "ok" => /\ outcome.rows = outcome.of.offers
                                /\ MaxRows # 0 => outcome.rows <= MaxRows
    /\ outcome.result = "max_rows" => outcome.of.offers > MaxRows /\ MaxRows # 0

\* A SELECT, an INSERT and an UPDATE report the rows they changed themselves,
\* not those of an earlier statement of another client, whatever that one's
\* error left in the counters; a SELECT reports no rowid, and a statement that
\* assigned one reports its own.
CountersAreOwn ==
    outcome.result = "ok" =>
        /\ outcome.of.form \in {"select", "insert", "update"}
              => outcome.rowcount = outcome.of.changed
        /\ outcome.of.form = "select" => outcome.lastrowid = 0
        /\ outcome.of.rowid # NoRowId => outcome.lastrowid = outcome.of.rowid

\* The deadline of a call is gone once the call is: neither the post-write
\* checkpoint nor the next call is interrupted by it.
DeadlineEndsWithCall == running = Idle => ~progress

\* Fetched row by row, capped, interrupted or failed at any of them, a call is
\* one atomic step to its client and to the calls after it, which see of it
\* what the connection's counters keep.
ImplementsAtomicExec == AtomicSpec

\* db.rs:125: rowcount is 0 for DDL.
DdlReportsZero ==
    outcome.result = "ok" /\ outcome.of.form = "ddl" => outcome.rowcount = 0

=============================================================================
