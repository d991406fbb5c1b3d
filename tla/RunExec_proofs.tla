--------------------------- MODULE RunExec_proofs ---------------------------
(***************************************************************************)
(* Theorems about RunExec, for any cap, timeout and statement.             *)
(***************************************************************************)
EXTENDS RunExec, TLAPS

USE ExecAssumption DEF ExecAssumption

\* The rows fetched and the rows left are the rows of the statement, and a
\* row is kept only below the cap; a deadline is one that was configured.
Fetching ==
    /\ rows + left = running.offers
    /\ MaxRows # 0 => rows <= MaxRows
    /\ progress => TimeoutSet

IInv == TypeOK /\ Fetching /\ CapIsExact /\ CountersAreOwn /\ DeadlineEndsWithCall

LEMMA FormNames == DOMAIN Forms = {"select", "insert", "update", "ddl", "journal_mode"}
BY DEF Forms

LEMMA StmtFields ==
    ASSUME NEW s \in Stmt
    PROVE  /\ s # Idle
           /\ s.offers \in Nat
           /\ s.changed \in Nat
           /\ s.rowid \in Nat \cup {NoRowId}
           /\ s.form \in DOMAIN Forms
           /\ ~Forms[s.form].counts => s.changed = 0
           /\ ~Forms[s.form].inserts => s.rowid = NoRowId
<1>1. /\ s \in [form : DOMAIN Forms, offers : Rows, changed : Changed,
               rowid : RowIds \cup {NoRowId}]
      /\ ~Forms[s.form].inserts => s.rowid = NoRowId
      /\ ~Forms[s.form].counts => s.changed = 0
    BY DEF Stmt
<1>2. s.form \in DOMAIN Forms /\ s.offers \in Rows /\ s.changed \in Changed
      /\ s.rowid \in RowIds \cup {NoRowId}
    BY <1>1
<1>3. Idle.form = "idle" /\ "idle" \notin DOMAIN Forms
    BY FormNames DEF Idle
<1> QED BY <1>1, <1>2, <1>3

LEMMA CountersTyped ==
    ASSUME TypeOK, running # Idle
    PROVE  /\ Counted \in Nat
           /\ Inserted \in Nat
           /\ LeftBy(running) \subseteq Nat
BY StmtFields DEF TypeOK, Counted, Inserted, CountedBy, InsertedBy, LeftBy

\* A result of a call that keeps what the properties ask of outcomes.
LEMMA ReturnKeeps ==
    ASSUME NEW res, Return(res), changes' \in Nat, lastId' \in Nat,
           res.result = "ok" =>
              /\ res.rows = res.of.offers
              /\ MaxRows # 0 => res.rows <= MaxRows
              /\ res.of.form \in {"select", "insert", "update"} => res.rowcount = res.of.changed
              /\ res.of.form = "select" => res.lastrowid = 0
              /\ res.of.rowid # NoRowId => res.lastrowid = res.of.rowid,
           res.result = "max_rows" => res.of.offers > MaxRows /\ MaxRows # 0
    PROVE  IInv'
<1>1. Idle.offers = 0
    BY DEF Idle
<1>2. outcome' = res /\ running' = Idle /\ left' = 0 /\ rows' = 0 /\ progress' = FALSE
    BY DEF Return
<1>3. TypeOK'
  <2>1. running' \in (Stmt \cup {Idle})'
      BY <1>2 DEF Stmt, Idle
  <2> QED BY <1>2, <2>1 DEF TypeOK
<1>7. Fetching'
    BY <1>1, <1>2 DEF Fetching
<1>4. CapIsExact'
    BY <1>2 DEF CapIsExact
<1>5. CountersAreOwn'
    BY <1>2 DEF CountersAreOwn
<1>6. DeadlineEndsWithCall'
    BY <1>2 DEF DeadlineEndsWithCall
<1> QED BY <1>3, <1>4, <1>5, <1>6, <1>7 DEF IInv

LEMMA RunStep == IInv /\ [Next]_vars => IInv'
<1> SUFFICES ASSUME IInv, [Next]_vars PROVE IInv'
    OBVIOUS
<1> USE DEF IInv, TypeOK, Fetching, CapIsExact, CountersAreOwn, DeadlineEndsWithCall
<1>1. CASE \E s \in Stmt : Start(s)
  <2>1. PICK s \in Stmt : Start(s)
      BY <1>1
  <2>2. s # Idle /\ s.offers \in Nat
      BY StmtFields
  <2>3. running' = s /\ left' = s.offers /\ rows' = 0 /\ progress' = TimeoutSet
        /\ UNCHANGED <<changes, lastId, outcome>>
      BY <2>1 DEF Start
  <2> QED BY <2>2, <2>3
<1>2. CASE StartFails
  <2> DEFINE res == Outcome("sql", Idle, 0, 0, 0)
  <2>1. res.result = "sql"
      BY DEF Outcome
  <2> QED BY <1>2, <2>1, ReturnKeeps DEF StartFails
<1>3. CASE FetchRow
  <2>1. running.offers \in Nat
      BY <1>3, StmtFields DEF FetchRow
  <2> QED BY <1>3, <2>1 DEF FetchRow, AtCap
<1>4. CASE OverCap
  <2>1. /\ changes' \in Nat /\ lastId' \in Nat
        /\ Return(Failed("max_rows"))
      BY <1>4, CountersTyped DEF OverCap
  <2>2. running.offers > MaxRows /\ MaxRows # 0
    <3>1. running.offers \in Nat
        BY <1>4, StmtFields DEF OverCap
    <3> QED BY <1>4, <3>1 DEF OverCap, AtCap
  <2>3. Failed("max_rows").result = "max_rows" /\ Failed("max_rows").of = running
      BY DEF Failed, Outcome
  <2> QED BY <2>1, <2>2, <2>3, ReturnKeeps
<1>5. CASE Interrupt \/ StepFails \/ StepFailsKeepingRows \/ ReadColumnFails
  <2>1. PICK why \in {"timeout", "sql"} : Return(Failed(why))
      BY <1>5 DEF Interrupt, StepFails, StepFailsKeepingRows, ReadColumnFails
  <2>2. changes' \in Nat /\ lastId' \in Nat
      BY <1>5, CountersTyped DEF Interrupt, StepFails, StepFailsKeepingRows, ReadColumnFails
  <2>3. Failed(why).result = why
      BY DEF Failed, Outcome
  <2> QED BY <2>1, <2>2, <2>3, ReturnKeeps
<1>6. CASE Finish
  <2> DEFINE res == Outcome("ok", running, rows, Report(Forms[running.form].readonly, Counted),
                            Report(Forms[running.form].readonly, Inserted))
  <2>1. /\ running # Idle /\ left = 0
        /\ Return(res)
        /\ changes' \in Nat /\ lastId' \in Nat
      BY <1>6, CountersTyped DEF Finish
  <2>2. running \in Stmt /\ rows = running.offers
      BY <2>1, StmtFields
  <2>3. running.form \in {"select", "insert", "update"} =>
           Report(Forms[running.form].readonly, Counted) = running.changed
      BY <2>2, StmtFields DEF Report, Counted, CountedBy, Forms, Form
  <2>4. /\ res.result = "ok" /\ res.of = running /\ res.rows = rows
        /\ res.rowcount = Report(Forms[running.form].readonly, Counted)
        /\ res.lastrowid = Report(Forms[running.form].readonly, Inserted)
      BY DEF Outcome
  <2>5. /\ running.form = "select" => res.lastrowid = 0
        /\ running.rowid # NoRowId => res.lastrowid = running.rowid
      BY <2>2, <2>4, StmtFields DEF Report, Inserted, InsertedBy, Forms, Form
  <2> QED BY <2>1, <2>2, <2>3, <2>4, <2>5, ReturnKeeps
<1>7. CASE UNCHANGED vars
    BY <1>7 DEF vars
<1> QED BY <1>1, <1>2, <1>3, <1>4, <1>5, <1>6, <1>7 DEF Next

THEOREM RunInvariant == Spec => []IInv
<1>1. Init => IInv
  <2> SUFFICES ASSUME Init PROVE IInv
      OBVIOUS
  <2>1. outcome.result = "none" /\ Idle.offers = 0
      BY DEF Init, AtomicInit, Outcome, Idle
  <2>2. TypeOK
      BY DEF Init, AtomicInit, TypeOK
  <2>3. Fetching
      BY <2>1 DEF Init, Fetching
  <2>4. CapIsExact /\ CountersAreOwn /\ DeadlineEndsWithCall
      BY <2>1 DEF Init, CapIsExact, CountersAreOwn, DeadlineEndsWithCall
  <2> QED BY <2>2, <2>3, <2>4 DEF IInv
<1> QED BY <1>1, RunStep, PTL DEF Spec

\* A result is complete and within RUSTYHIP_MAX_ROWS, or an error (run_exec).
THEOREM CapHolds == Spec => []CapIsExact
<1>1. IInv => CapIsExact
    BY DEF IInv
<1> QED BY <1>1, RunInvariant, PTL

\* A statement reports the rows it changed itself and the rowid it assigned
\* itself, not those of another one (run_exec).
THEOREM CountersHold == Spec => []CountersAreOwn
<1>1. IInv => CountersAreOwn
    BY DEF IInv
<1> QED BY <1>1, RunInvariant, PTL

\* A deadline never outlives its call (run_exec_with_settings).
THEOREM DeadlineHolds == Spec => []DeadlineEndsWithCall
<1>1. IInv => DeadlineEndsWithCall
    BY DEF IInv
<1> QED BY <1>1, RunInvariant, PTL

-----------------------------------------------------------------------------
(* A call is one atomic step.                                              *)

\* The step that returns from a call is the atomic one, and any other step
\* changes nothing that a caller sees.
LEMMA ExecStep ==
    ASSUME IInv, [Next]_vars
    PROVE  AtomicNext \/ UNCHANGED execVars
<1>1. TypeOK /\ Fetching
    BY DEF IInv
<1>2. ASSUME running # Idle
      PROVE  running \in Stmt /\ running.offers \in Nat
    BY <1>1, <1>2, StmtFields DEF TypeOK
<1>3. CASE OverCap
  <2>1. running \in Stmt /\ ~Complete(running)
      BY <1>1, <1>2, <1>3 DEF OverCap, AtCap, Complete, Fetching, TypeOK
  <2>2. CarriedOut(running, Outcome("max_rows", running, 0, 0, 0))
      BY <1>3 DEF OverCap, Return, Failed, Counted, Inserted, CarriedOut
  <2> QED BY <2>1, <2>2 DEF Refused, AtomicNext
<1>4. CASE Finish
  <2>1. running \in Stmt /\ rows = running.offers /\ Complete(running)
      BY <1>1, <1>2, <1>4 DEF Finish, Complete, Fetching, TypeOK
  <2>2. CarriedOut(running, Outcome("ok", running, running.offers,
                                    Report(Forms[running.form].readonly, CountedBy(running)),
                                    Report(Forms[running.form].readonly, InsertedBy(running))))
      BY <1>4, <2>1 DEF Finish, Return, Counted, Inserted, CarriedOut
  <2>3. Answered(running)
      BY <2>1, <2>2 DEF Answered, Report
  <2> QED BY <2>1, <2>3 DEF AtomicNext
<1>5. CASE Interrupt \/ StepFails
  <2>1. PICK why \in {"sql", "timeout"} : Return(Failed(why)) /\ (why = "timeout" => progress)
      BY <1>5 DEF Interrupt, StepFails
  <2>2. running \in Stmt /\ (progress => TimeoutSet)
      BY <1>1, <1>2, <1>5 DEF Interrupt, StepFails, Fetching
  <2>3. Undone(running, why)
      BY <1>5, <2>1, <2>2 DEF Interrupt, StepFails, Return, Failed, Inserted, Undone
  <2> QED BY <2>2, <2>3 DEF AtomicNext
<1>6. CASE StepFailsKeepingRows
  <2>1. running \in Stmt
      BY <1>2, <1>6 DEF StepFailsKeepingRows
  <2>2. KeptInPart(running)
      BY <1>6 DEF StepFailsKeepingRows, Return, Failed, KeptInPart
  <2> QED BY <2>1, <2>2 DEF AtomicNext
<1>7. CASE ReadColumnFails
  <2>1. running \in Stmt /\ running.offers > 0
      BY <1>1, <1>2, <1>7 DEF ReadColumnFails, Fetching, TypeOK
  <2>2. Unreadable(running)
      BY <1>7, <2>1 DEF ReadColumnFails, Return, Failed, Counted, Inserted, CarriedOut, Unreadable
  <2> QED BY <2>1, <2>2 DEF AtomicNext
<1>8. CASE StartFails
    BY <1>8 DEF StartFails, Return, NotRun, AtomicNext
<1>9. CASE FetchRow \/ (\E s \in Stmt : Start(s)) \/ UNCHANGED vars
    BY <1>9 DEF FetchRow, Start, vars, execVars
<1> QED BY <1>3, <1>4, <1>5, <1>6, <1>7, <1>8, <1>9 DEF Next

\* run_exec, for any cap, any timeout and any statements, is atomic to its
\* callers: all of a statement's rows or an error, and counters that follow
\* from the statement and those before it.
THEOREM ExecIsAtomic == Spec => ImplementsAtomicExec
<1>1. Init => AtomicInit
    BY DEF Init
<1>2. IInv /\ [Next]_vars => [AtomicNext]_execVars
    BY ExecStep
<1> QED BY <1>1, <1>2, RunInvariant, PTL DEF Spec, ImplementsAtomicExec, AtomicSpec

=============================================================================
