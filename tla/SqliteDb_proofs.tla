--------------------------- MODULE SqliteDb_proofs ---------------------------
(***************************************************************************)
(* Theorems about SqliteDb, for any containers, calls and configuration.   *)
(***************************************************************************)
EXTENDS SqliteDb, Turbolite_proofs

USE DEF dbVars, callVars

\* Every action leaves one of these storage steps behind it.
StorageStep(c) ==
    \/ UNCHANGED storageVars
    \/ Unmount(c)
    \/ ColdStart(c)
    \/ WarmStart(c)
    \/ \E txn \in Transactions : \/ CommitTxn(c, txn, Syncs(c))
                                \/ FailedCommit(c, txn, Syncs(c))
    \/ ReaderBegin(c)
    \/ ReaderEnd(c)
    \/ \E mode \in Modes, busy \in BOOLEAN : WalCheckpoint(c, mode, Syncs(c), busy)
    \/ FailedCheckpoint(c, Syncs(c))

LEMMA StorageStepTyped ==
    ASSUME StorageTypeOK, NEW c \in Containers, StorageStep(c)
    PROVE  StorageTypeOK'
<1>1. Syncs(c) \in BOOLEAN
    BY DEF Syncs
<1>2. CASE ColdStart(c)
    BY <1>2, MountTyped DEF ColdStart, StorageTypeOK
<1>3. CASE WarmStart(c)
    BY <1>3, MountTyped DEF WarmStart, StorageTypeOK
<1>4. CASE \E txn \in Transactions : \/ CommitTxn(c, txn, Syncs(c))
                                   \/ FailedCommit(c, txn, Syncs(c))
    BY <1>1, <1>4, AppendWalTyped, WriteThroughTyped, FailedCommitTyped DEF CommitTxn
<1>5. CASE \/ \E mode \in Modes, busy \in BOOLEAN : WalCheckpoint(c, mode, Syncs(c), busy)
           \/ FailedCheckpoint(c, Syncs(c))
    BY <1>1, <1>5, CheckpointTyped
<1>6. CASE UNCHANGED storageVars \/ Unmount(c) \/ ReaderBegin(c) \/ ReaderEnd(c)
    BY <1>6, StutterTyped, UnmountTyped, ReaderStepTyped
<1> QED BY <1>2, <1>3, <1>4, <1>5, <1>6 DEF StorageStep

LEMMA Policy ==
    /\ ~Authorized("attach")
    /\ ~Authorized("synchronous_off")
    /\ ~Statement["write"].readonly
<1> QED BY DEF Authorized, Statement, Stmt, PragmaStmt, AuthorizeAction, AuthorizePragma, ARG_SAFE_PRAGMAS

\* What a step of the blocking task of r does to its call.
LEMMA ProceedTyped ==
    ASSUME TypeOK, NEW r \in Reqs, NEW was \in BOOLEAN, NEW now \in BOOLEAN,
           Proceed(r, was, now)
    PROVE  /\ call' = [call EXCEPT ![r] = call'[r]]
           /\ call'[r] \in {"checkpoint", "ok"}
           /\ UNCHANGED <<stmt, at>>
BY DEF Proceed, Answer, TypeOK

LEMMA CommitStorage ==
    ASSUME NEW r \in Reqs, NEW txn \in Transactions, Commit(r, txn)
    PROVE  StorageStep(at[r])
BY DEF Commit, StorageStep

\* The statement of r ran, or failed, on the storage of its container.
LEMMA RunStatementStorage ==
    ASSUME TypeOK, NEW r \in Reqs, RunStatement(r)
    PROVE  StorageStep(at[r])
<1>1. at[r] \in Containers /\ {r} \in Transactions /\ pending[at[r]] \in Transactions
    BY DEF TypeOK, Transactions
<1>2. CASE RunWrite(r)
    BY <1>1, <1>2, CommitStorage DEF RunWrite
<1>3. CASE WriteKeptButFails(r)
  <2>1. UNCHANGED storageVars \/ Commit(r, {r})
      BY <1>3 DEF WriteKeptButFails
  <2> QED BY <1>1, <2>1, CommitStorage DEF StorageStep
<1>4. CASE RunCommit(r)
    BY <1>1, <1>4, CommitStorage DEF RunCommit
<1>5. CASE \E mode \in Modes, busy \in BOOLEAN : RunClientCheckpoint(r, mode, busy)
    BY <1>5 DEF RunClientCheckpoint, StorageStep
<1>6. CASE ClientCheckpointFails(r)
    BY <1>6 DEF ClientCheckpointFails, StorageStep
<1>8. CASE CommitFails(r)
    BY <1>1, <1>8 DEF CommitFails, StorageStep
<1>7. CASE \/ StatementFails(r)
           \/ RunNoWrite(r)
           \/ RunWriteInTxn(r)
           \/ WriteAbortsTxn(r)
           \/ RunBegin(r)
           \/ RunRollback(r)
    BY <1>7 DEF StatementFails, RunNoWrite, RunWriteInTxn, WriteAbortsTxn, RunBegin,
                RunRollback, StorageStep
<1> QED BY <1>2, <1>3, <1>4, <1>5, <1>6, <1>7, <1>8 DEF RunStatement

LEMMA FinishStorage ==
    ASSUME SqliteDbAssumption, NEW r \in Reqs, FinishCheckpoint(r), CheckpointMode # "off"
    PROVE  StorageStep(at[r])
<1>1. CheckpointMode \in Modes
    BY DEF SqliteDbAssumption, Modes
<1> QED BY <1>1 DEF FinishCheckpoint, RunCheckpoint, CheckpointFails, PragmaArg, StorageStep

-----------------------------------------------------------------------------
(* Type correctness.                                                       *)

\* No call waits for a checkpoint when there is none to run.
OffInv == CheckpointMode = "off" => \A r \in Reqs : call[r] # "checkpoint"

LEMMA NextStorage ==
    ASSUME TypeOK, OffInv, Next
    PROVE  \E c \in Containers : StorageStep(c)
<1>1. CASE \E c \in Containers : \/ Open(c)
                                 \/ Crash(c)
                                 \/ AutoCheckpoint(c)
                                 \/ OtherConnection(c)
    BY <1>1 DEF Open, ColdOpen, WarmOpen, Crash, AutoCheckpoint, OtherConnection,
                StorageStep, Modes
<1>2. CASE \E r \in Reqs, c \in Containers, kind \in KindsSent : Submit(r, c, kind)
    BY <1>2 DEF Submit, StorageStep
<1>3. CASE \E r \in Reqs : LockPoisoned(r) \/ Panic(r)
    BY <1>3 DEF LockPoisoned, Panic, StorageStep, TypeOK
<1>4. CASE \E r \in Reqs : RunStatement(r)
    BY <1>4, RunStatementStorage DEF TypeOK
<1>5. CASE \E r \in Reqs : FinishCheckpoint(r)
  <2>1. PICK r \in Reqs : FinishCheckpoint(r)
      BY <1>5
  <2>2. CheckpointMode # "off"
      BY <2>1 DEF OffInv, FinishCheckpoint, RunCheckpoint, CheckpointFails
  <2> QED BY <2>1, <2>2, FinishStorage, SqliteDbAssumption DEF TypeOK
<1> QED BY <1>1, <1>2, <1>3, <1>4, <1>5 DEF Next, Serve

\* The variables of the connection and of the calls, apart from the storage.
ConnTypeOK ==
    /\ inTxn \in [Containers -> BOOLEAN]
    /\ pending \in [Containers -> Transactions]
    /\ conf \in [Containers -> SUBSET Kinds]
    /\ poisoned \in [Containers -> BOOLEAN]
    /\ call \in [Reqs -> CallStates]
    /\ stmt \in [Reqs -> Kinds]
    /\ at \in [Reqs -> Containers]
    /\ commits \in [Reqs -> Transactions]

LEMMA RunStatementTyped ==
    ASSUME ConnTypeOK, OffInv, NEW r \in Reqs, RunStatement(r)
    PROVE  ConnTypeOK' /\ OffInv'
<1> DEFINE c == at[r]
<1>1. /\ c \in Containers
      /\ {r} \in Transactions
      /\ pending[c] \in Transactions
      /\ pending[c] \cup {r} \in Transactions
      /\ conf[c] \in SUBSET Kinds
      /\ stmt[r] \in Kinds
      /\ inTxn[c] \in BOOLEAN
    BY DEF ConnTypeOK, Transactions
<1>2. ASSUME NEW a, Answer(r, a), a \in {"ok", "sql", "checkpoint"},
             a = "checkpoint" => CheckpointMode # "off"
      PROVE  call' \in [Reqs -> CallStates] /\ stmt' = stmt /\ at' = at /\ OffInv'
  <2>1. a \in CallStates
      BY <1>2 DEF CallStates, Answers
  <2> QED BY <1>2, <2>1 DEF Answer, ConnTypeOK, OffInv
<1>3. ASSUME NEW was, NEW now, Proceed(r, was, now)
      PROVE  call' \in [Reqs -> CallStates] /\ stmt' = stmt /\ at' = at /\ OffInv'
    BY <1>2, <1>3 DEF Proceed
<1>4. ASSUME NEW txn \in Transactions, Commit(r, txn)
      PROVE  commits' \in [Reqs -> Transactions]
    BY <1>4 DEF Commit, ConnTypeOK
<1>5. CASE StatementFails(r) \/ ClientCheckpointFails(r)
    BY <1>2, <1>5 DEF StatementFails, ClientCheckpointFails, ConnTypeOK
<1>6. CASE RunNoWrite(r)
  <2>1. conf' \in [Containers -> SUBSET Kinds]
      BY <1>1, <1>6 DEF RunNoWrite, ConnTypeOK
  <2> QED BY <1>3, <1>6, <2>1 DEF RunNoWrite, ConnTypeOK
<1>7. CASE RunWriteInTxn(r)
    BY <1>1, <1>3, <1>7 DEF RunWriteInTxn, ConnTypeOK
<1>8. CASE RunWrite(r)
    BY <1>1, <1>3, <1>4, <1>8 DEF RunWrite, ConnTypeOK
<1>9. CASE WriteKeptButFails(r)
    BY <1>1, <1>2, <1>4, <1>9 DEF WriteKeptButFails, ConnTypeOK
<1>10. CASE WriteAbortsTxn(r)
    BY <1>1, <1>2, <1>10 DEF WriteAbortsTxn, ConnTypeOK, Transactions
<1>15. CASE CommitFails(r)
    BY <1>1, <1>2, <1>15 DEF CommitFails, ConnTypeOK, Transactions
<1>11. CASE RunBegin(r)
    BY <1>1, <1>3, <1>11 DEF RunBegin, ConnTypeOK
<1>12. CASE RunCommit(r)
    BY <1>1, <1>3, <1>4, <1>12 DEF RunCommit, ConnTypeOK, Transactions
<1>13. CASE RunRollback(r)
    BY <1>1, <1>3, <1>13 DEF RunRollback, ConnTypeOK, Transactions
<1>14. CASE \E mode \in Modes, busy \in BOOLEAN : RunClientCheckpoint(r, mode, busy)
    BY <1>3, <1>14 DEF RunClientCheckpoint, ConnTypeOK
<1> QED BY <1>5, <1>6, <1>7, <1>8, <1>9, <1>10, <1>11, <1>12, <1>13, <1>14, <1>15
        DEF RunStatement

LEMMA NextTyped ==
    ASSUME ConnTypeOK, OffInv, Next
    PROVE  ConnTypeOK' /\ OffInv'
<1>1. CASE \E c \in Containers : Open(c)
    BY <1>1 DEF Open, ColdOpen, WarmOpen, Connect, ConnTypeOK, OffInv, Transactions
<1>2. CASE \E c \in Containers : Crash(c)
    BY <1>2 DEF Crash, ConnTypeOK, OffInv, CallStates, Answers
<1>3. CASE \E c \in Containers : AutoCheckpoint(c) \/ OtherConnection(c)
    BY <1>3 DEF AutoCheckpoint, OtherConnection, ConnTypeOK, OffInv
<1>4. CASE \E r \in Reqs, c \in Containers, kind \in KindsSent : Submit(r, c, kind)
    BY <1>4, SqliteDbAssumption DEF Submit, ConnTypeOK, OffInv, CallStates, SqliteDbAssumption
<1>5. CASE \E r \in Reqs : LockPoisoned(r) \/ Panic(r) \/ FinishCheckpoint(r)
    BY <1>5 DEF LockPoisoned, Panic, FinishCheckpoint, RunCheckpoint, CheckpointFails, AnswerOf,
                Answer, ConnTypeOK, OffInv, CallStates, Answers
<1>6. CASE \E r \in Reqs : RunStatement(r)
    BY <1>6, RunStatementTyped
<1> QED BY <1>1, <1>2, <1>3, <1>4, <1>5, <1>6 DEF Next, Serve

\* Every variable keeps its type in every configuration; in particular the
\* prefix a checkpoint uploads, which the code leaves to SQLite, never ends
\* past the database or before its beginning.
THEOREM TypeCorrect == Spec => []TypeOK
<1> DEFINE IInv == TypeOK /\ OffInv
<1>1. Init => IInv
  <2> SUFFICES ASSUME Init PROVE IInv
      OBVIOUS
  <2>1. StorageTypeOK
      BY StorageInitInv DEF Init
  <2>2. "select" \in Kinds
      BY DEF Kinds, Statement
  <2> QED BY <2>1, <2>2 DEF Init, TypeOK, OffInv, CallStates, Transactions
<1>2. IInv /\ [Next]_vars => IInv'
  <2> SUFFICES ASSUME IInv, [Next]_vars PROVE IInv'
      OBVIOUS
  <2>1. CASE Next
    <3>1. StorageTypeOK'
        BY <2>1, NextStorage, StorageStepTyped DEF TypeOK
    <3>2. ConnTypeOK' /\ OffInv'
        BY <2>1, NextTyped DEF TypeOK, ConnTypeOK
    <3> QED BY <3>1, <3>2 DEF TypeOK, ConnTypeOK
  <2>2. CASE UNCHANGED vars
      BY <2>2 DEF TypeOK, StorageTypeOK, OffInv, vars
  <2> QED BY <2>1, <2>2
<1> QED BY <1>1, <1>2, PTL DEF Spec

-----------------------------------------------------------------------------
(* No client statement reconfigures the connection.                        *)

LEMMA ConfStep ==
    ASSUME ConnTypeOK, ConnectionKeepsConf, Next
    PROVE  ConnectionKeepsConf'
<1>1. CASE \E c \in Containers : Open(c)
    BY <1>1 DEF Open, ColdOpen, WarmOpen, Connect, ConnTypeOK, ConnectionKeepsConf
<1>2. CASE \E r \in Reqs : RunNoWrite(r)
  <2>1. PICK r \in Reqs : RunNoWrite(r)
      BY <1>2
  <2>2. ~Reconfigures(stmt[r])
      BY <2>1, Policy DEF RunNoWrite, Runs, Reconfigures
  <2>3. conf' = [conf EXCEPT ![at[r]] = conf[at[r]]]
      BY <2>1, <2>2 DEF RunNoWrite
  <2> QED BY <2>3 DEF ConnTypeOK, ConnectionKeepsConf
<1>3. CASE UNCHANGED conf
    BY <1>3 DEF ConnectionKeepsConf
<1>4. ASSUME NEW r \in Reqs, RunStatement(r), ~RunNoWrite(r)
      PROVE  UNCHANGED conf
    BY <1>4 DEF RunStatement, StatementFails, RunWriteInTxn, RunWrite, WriteKeptButFails,
                WriteAbortsTxn, CommitFails, RunBegin, RunCommit, RunRollback, RunClientCheckpoint,
                ClientCheckpointFails
<1>5. ASSUME NEW r \in Reqs, LockPoisoned(r) \/ Panic(r) \/ FinishCheckpoint(r)
      PROVE  UNCHANGED conf
    BY <1>5 DEF LockPoisoned, Panic, FinishCheckpoint, RunCheckpoint, CheckpointFails
<1>6. ASSUME NEW c \in Containers, \/ Crash(c)
                                   \/ AutoCheckpoint(c)
                                   \/ OtherConnection(c)
                                   \/ \E r \in Reqs, kind \in KindsSent : Submit(r, c, kind)
      PROVE  UNCHANGED conf
    BY <1>6 DEF Crash, AutoCheckpoint, OtherConnection, Submit
<1> QED BY <1>1, <1>2, <1>3, <1>4, <1>5, <1>6 DEF Next, Serve

\* The statement policy suffices: whatever clients send, the connection stays
\* as bootstrap configured it (authorize_action).
THEOREM ConfKept == Spec => []ConnectionKeepsConf
<1>1. Init => ConnectionKeepsConf
    BY DEF Init, ConnectionKeepsConf
<1>2. TypeOK /\ ConnectionKeepsConf /\ [Next]_vars => ConnectionKeepsConf'
    BY ConfStep DEF TypeOK, ConnTypeOK, ConnectionKeepsConf, vars
<1> QED BY <1>1, <1>2, TypeCorrect, PTL DEF Spec

-----------------------------------------------------------------------------
(* Durability of acknowledged writes.                                      *)

\* What a step of the task of r owes: a call that goes on to its checkpoint or
\* is answered 200 has its writes on its connection, the latter in S3 as well.
CallMoves(r) ==
    /\ call[r] \in {"queued", "checkpoint"}
    /\ call' = [call EXCEPT ![r] = call'[r]]
    /\ commits' = [commits EXCEPT ![r] = commits'[r]]
    /\ UNCHANGED <<at, stmt, mounted>>
    /\ call'[r] \in Answers \cup {"checkpoint"}
    /\ call'[r] \in {"checkpoint", "ok"} =>
          mounted[at[r]] /\ commits'[r] \subseteq Contents(db'[at[r]])
    /\ Durable /\ call'[r] = "ok" => commits'[r] \subseteq Contents(store')

\* The hypotheses of a step from a state of the invariant.
StepHyp == Flushing /\ FlushInv /\ TypeOK' /\ Kept

LEMMA ContentsGrow ==
    ASSUME StepHyp
    PROVE  /\ Contents(store) \subseteq Contents(store')
           /\ \A c \in Containers : mounted[c] /\ mounted'[c] =>
                 Contents(db[c]) \subseteq Contents(db'[c])
BY ContentsOfPrefix DEF StepHyp, Kept, Grows, TypeOK, StorageTypeOK, FlushInv

LEMMA CallMovesKeeps ==
    ASSUME StepHyp, NEW r \in Reqs, CallMoves(r)
    PROVE  /\ CallInv'
           /\ Durable /\ AckedDurable => AckedDurable'
           /\ Promised \subseteq Promised'
<1> USE DEF CallMoves
<1>1. \A q \in Reqs : q # r => call'[q] = call[q] /\ commits'[q] = commits[q]
    BY DEF StepHyp, FlushInv, TypeOK
<1>2. CallInv'
    BY <1>1, ContentsGrow DEF CallInv, StepHyp, FlushInv, Answers, TypeOK
<1>3. Durable /\ AckedDurable => AckedDurable'
  <2> SUFFICES ASSUME Durable, AckedDurable, NEW q \in Reqs, call'[q] = "ok"
               PROVE  commits'[q] \subseteq Contents(store')
      BY DEF AckedDurable, Promised
  <2>1. CASE q = r
      BY <2>1
  <2>2. CASE q # r
    <3>1. commits[q] \subseteq Promised
        BY <1>1, <2>2 DEF Promised
    <3> QED BY <1>1, <2>2, <3>1, ContentsGrow DEF AckedDurable
  <2> QED BY <2>1, <2>2
<1>4. Promised \subseteq Promised'
  <2> SUFFICES ASSUME NEW q \in Reqs, call[q] = "ok" PROVE commits[q] \subseteq Promised'
      BY DEF Promised
  <2>1. q # r
      OBVIOUS
  <2> QED BY <1>1, <2>1 DEF Promised
<1> QED BY <1>2, <1>3, <1>4

\* In a durable configuration the storage keeps its invariant.
LEMMA DurableStorage ==
    ASSUME Flushing, FlushInv, NEW c \in Containers, StorageStep(c), mounted[c]
    PROVE  Kept
<1>1. NoOverwrite /\ StorageTypeOK /\ StorageInv /\ Syncs(c) = TRUE
    BY DEF Flushing, FlushInv, TypeOK, Syncs, ConnectionKeepsConf
<1>2. CASE \E mode \in Modes, busy \in BOOLEAN : WalCheckpoint(c, mode, Syncs(c), busy)
  <2>1. PICK mode \in Modes, busy \in BOOLEAN : WalCheckpoint(c, mode, TRUE, busy)
      BY <1>1, <1>2
  <2> QED BY <1>1, <2>1, WalCheckpointKeeps
<1>4. CASE FailedCheckpoint(c, Syncs(c))
  <2>1. FailedCheckpoint(c, TRUE)
      BY <1>1, <1>4
  <2> QED BY <1>1, <2>1, FailedCheckpointKeeps
<1>3. CASE \/ UNCHANGED storageVars
           \/ Unmount(c)
           \/ ColdStart(c)
           \/ WarmStart(c)
           \/ \E txn \in Transactions : \/ CommitTxn(c, txn, Syncs(c))
                                       \/ FailedCommit(c, txn, Syncs(c))
           \/ ReaderBegin(c)
           \/ ReaderEnd(c)
    BY <1>1, <1>3, StutterKeeps, UnmountKeeps, ColdStartKeeps, WarmStartKeeps,
       AppendWalKeeps, WriteThroughKeeps, FailedCommitKeeps, ReaderKeeps DEF CommitTxn
<1> QED BY <1>2, <1>3, <1>4 DEF StorageStep

LEMMA NextKept ==
    ASSUME Flushing, FlushInv, Next
    PROVE  Kept
<1>1. CASE \E c \in Containers : \/ Open(c)
                                 \/ Crash(c)
                                 \/ OtherConnection(c)
  <2>1. PICK c \in Containers : Open(c) \/ Crash(c) \/ OtherConnection(c)
      BY <1>1
  <2>2. NoOverwrite /\ StorageTypeOK /\ StorageInv
      BY DEF Flushing, FlushInv, TypeOK
  <2> QED BY <2>1, <2>2, UnmountKeeps, ColdStartKeeps, WarmStartKeeps, ReaderKeeps
          DEF Open, ColdOpen, WarmOpen, Crash, OtherConnection
<1>2. CASE \E c \in Containers : AutoCheckpoint(c)
    BY <1>2, DurableStorage DEF AutoCheckpoint, StorageStep, Modes
<1>3. CASE \E r \in Reqs, c \in Containers, kind \in KindsSent : Submit(r, c, kind)
    BY <1>3, StutterKeeps DEF Submit, FlushInv, TypeOK
<1>4. CASE \E r \in Reqs : LockPoisoned(r) \/ Panic(r)
    BY <1>4, StutterKeeps DEF LockPoisoned, Panic, FlushInv, TypeOK
<1>5. CASE \E r \in Reqs : RunStatement(r)
  <2>1. PICK r \in Reqs : RunStatement(r)
      BY <1>5
  <2>2. mounted[at[r]] /\ at[r] \in Containers /\ StorageStep(at[r])
      BY <2>1, RunStatementStorage
         DEF FlushInv, TypeOK, RunStatement, StatementFails, RunNoWrite, RunWriteInTxn,
             RunWrite, WriteKeptButFails, WriteAbortsTxn, CommitFails, RunBegin, RunCommit, RunRollback,
             RunClientCheckpoint, ClientCheckpointFails, Runs, MayRun, MayLock
  <2> QED BY <2>2, DurableStorage
<1>6. CASE \E r \in Reqs : FinishCheckpoint(r)
  <2>1. PICK r \in Reqs : FinishCheckpoint(r)
      BY <1>6
  <2>2. mounted[at[r]] /\ at[r] \in Containers
      BY <2>1 DEF FlushInv, TypeOK, CallInv, FinishCheckpoint, RunCheckpoint, CheckpointFails
  <2>3. StorageStep(at[r])
      BY <2>1, FinishStorage, SqliteDbAssumption DEF Flushing
  <2> QED BY <2>2, <2>3, DurableStorage
<1> QED BY <1>1, <1>2, <1>3, <1>4, <1>5, <1>6 DEF Next, Serve

\* One step of a blocking task, statement by statement.
LEMMA RunStatementMoves ==
    ASSUME StepHyp, NEW r \in Reqs, RunStatement(r)
    PROVE  CallMoves(r)
<1> DEFINE c == at[r]
<1>1. /\ c \in Containers
      /\ mounted[c] /\ UNCHANGED mounted
      /\ call[r] = "queued"
      /\ commits[r] = {}
      /\ conf[c] = {}
      /\ pending[c] \in Transactions
      /\ {r} \in Transactions
  <2>1. call[r] = "queued" /\ mounted[c]
      BY DEF RunStatement, StatementFails, RunNoWrite, RunWriteInTxn, RunWrite,
             WriteKeptButFails, WriteAbortsTxn, CommitFails, RunBegin, RunCommit, RunRollback,
             RunClientCheckpoint, ClientCheckpointFails, Runs, MayRun, MayLock
  <2>2. UNCHANGED mounted
      BY DEF RunStatement, StatementFails, RunNoWrite, RunWriteInTxn, RunWrite,
             WriteKeptButFails, WriteAbortsTxn, CommitFails, RunBegin, RunCommit, RunRollback,
             RunClientCheckpoint, ClientCheckpointFails, Commit, CommitTxn, AppendWal,
             WriteThrough, FailedCommit, WalCheckpoint, CheckpointFrames, NothingToCheckpoint,
             Publish, Copy, FailedCheckpoint, RefusedPut, LostReply, storageVars
  <2> QED BY <2>1, <2>2 DEF StepHyp, FlushInv, TypeOK, CallInv, ConnectionKeepsConf,
                            Transactions
<1>2. ASSUME NEW a, Answer(r, a), a \in {"ok", "sql", "checkpoint"}, UNCHANGED commits
      PROVE  CallMoves(r)
  <2>1. commits' = [commits EXCEPT ![r] = commits'[r]] /\ commits'[r] = {}
      BY <1>1, <1>2 DEF StepHyp, FlushInv, TypeOK
  <2>2. call' = [call EXCEPT ![r] = call'[r]] /\ call'[r] = a
      BY <1>2 DEF Answer, StepHyp, FlushInv, TypeOK
  <2> QED BY <1>1, <1>2, <2>1, <2>2 DEF CallMoves, Answers, Answer
<1>3. ASSUME NEW was, NEW now, Proceed(r, was, now), UNCHANGED commits
      PROVE  CallMoves(r)
    BY <1>2, <1>3 DEF Proceed
<1>4. ASSUME NEW txn \in Transactions, Commit(r, txn)
      PROVE  /\ commits' = [commits EXCEPT ![r] = txn]
             /\ commits'[r] = txn
             /\ txn \subseteq Contents(db'[c])
  <2>1. commits' = [commits EXCEPT ![r] = txn] /\ commits'[r] = txn
      BY <1>4 DEF Commit, StepHyp, FlushInv, TypeOK
  <2>2. CASE txn = {}
      BY <2>1, <2>2
  <2>3. CASE txn # {}
    <3>1. CommitTxn(c, txn, Syncs(c)) /\ Syncs(c) \in BOOLEAN
        BY <1>1, <1>4, <2>3 DEF Commit, Syncs
    <3>2. db'[c] = Append(db[c], txn) /\ db[c] \in Seq(Transactions)
      <4>1. StorageTypeOK /\ db[c] \in Seq(Transactions)
          BY <1>1 DEF StepHyp, FlushInv, TypeOK, StorageTypeOK
      <4>2. CASE AppendWal(c, txn)
          BY <1>1, <4>1, <4>2, AppendWalTyped
      <4>3. CASE WriteThrough(c, txn, Syncs(c))
          BY <1>1, <3>1, <4>1, <4>3, WriteThroughTyped
      <4> QED BY <3>1, <4>1, <4>2, <4>3 DEF CommitTxn
    <3>3. Len(db[c]) + 1 \in 1..Len(db'[c]) /\ db'[c][Len(db[c]) + 1] = txn
        BY <3>2
    <3> QED BY <2>1, <3>3 DEF Contents
  <2> QED BY <2>1, <2>2, <2>3
<1>5. CASE RunWrite(r)
  <2>1. Answer(r, "checkpoint")
      BY <1>5, Policy DEF RunWrite, Runs, Proceed, NeedsCheckpoint, StepHyp, Flushing
  <2>2. call' = [call EXCEPT ![r] = call'[r]] /\ call'[r] = "checkpoint"
      BY <2>1 DEF Answer, StepHyp, FlushInv, TypeOK
  <2> QED BY <1>1, <1>4, <1>5, <2>1, <2>2 DEF RunWrite, CallMoves, Answer
<1>6. CASE RunCommit(r)
  <2>1. Answer(r, "checkpoint")
      BY <1>6 DEF RunCommit, Proceed, NeedsCheckpoint, StepHyp, Flushing
  <2>2. call' = [call EXCEPT ![r] = call'[r]] /\ call'[r] = "checkpoint"
      BY <2>1 DEF Answer, StepHyp, FlushInv, TypeOK
  <2> QED BY <1>1, <1>4, <1>6, <2>1, <2>2 DEF RunCommit, CallMoves, Answer
<1>7. CASE WriteKeptButFails(r)
  <2>1. Answer(r, "sql") /\ (UNCHANGED commits \/ Commit(r, {r}))
      BY <1>7 DEF WriteKeptButFails
  <2>2. call' = [call EXCEPT ![r] = call'[r]] /\ call'[r] = "sql"
      BY <2>1 DEF Answer, StepHyp, FlushInv, TypeOK
  <2> QED BY <1>1, <1>2, <1>4, <2>1, <2>2 DEF CallMoves, Answer, Answers
<1>8. CASE \/ StatementFails(r)
           \/ ClientCheckpointFails(r)
           \/ WriteAbortsTxn(r)
           \/ CommitFails(r)
    BY <1>2, <1>8 DEF StatementFails, ClientCheckpointFails, WriteAbortsTxn, CommitFails
<1>9. CASE \/ RunNoWrite(r)
           \/ RunWriteInTxn(r)
           \/ RunBegin(r)
           \/ RunRollback(r)
           \/ \E mode \in Modes, busy \in BOOLEAN : RunClientCheckpoint(r, mode, busy)
    BY <1>3, <1>9 DEF RunNoWrite, RunWriteInTxn, RunBegin, RunRollback, RunClientCheckpoint
<1> QED BY <1>5, <1>6, <1>7, <1>8, <1>9 DEF RunStatement

\* The checkpoint of a call that is answered 200 left all of the connection
\* in S3, save what a reader held back from a PASSIVE one.
LEMMA CheckpointFlushes ==
    ASSUME StepHyp, NEW r \in Reqs, NEW busy \in BOOLEAN, RunCheckpoint(r, busy)
    PROVE  /\ UNCHANGED <<db, mounted>>
           /\ call'[r] = "ok" => IsPrefixOf(Uploaded(at[r])', store')
           /\ Durable /\ call'[r] = "ok" => IsPrefixOf(db[at[r]], store')
<1>1. at[r] \in Containers /\ mounted[at[r]] /\ Syncs(at[r]) = TRUE
    BY DEF StepHyp, FlushInv, TypeOK, CallInv, RunCheckpoint, Flushing, Syncs,
           ConnectionKeepsConf
<1>2. CheckpointMode \in Modes
    BY SqliteDbAssumption DEF StepHyp, Flushing, SqliteDbAssumption, Modes
<1>3. call'[r] = IF busy THEN "checkpoint_error" ELSE "ok"
    BY DEF RunCheckpoint, AnswerOf, Answer, StepHyp, FlushInv, TypeOK
<1>4. UNCHANGED <<db, mounted, at>>
    BY DEF RunCheckpoint, WalCheckpoint, CheckpointFrames, NothingToCheckpoint,
                    storageVars, Publish, Copy, Answer
<1>5. /\ UNCHANGED reader
      /\ IsPrefixOf(Uploaded(at[r]), store')
      /\ ~busy /\ (CheckpointMode # "passive" \/ ~Readers) => IsPrefixOf(db[at[r]], store')
    BY <1>1, <1>2, WalCheckpointKeeps
       DEF RunCheckpoint, PragmaArg, StepHyp, FlushInv, Flushing, TypeOK
<1>6. Uploaded(at[r])' = Uploaded(at[r])
    BY <1>4, <1>5 DEF Uploaded, SafeFrame
<1> QED BY <1>3, <1>4, <1>5, <1>6 DEF Durable

LEMMA ServeMoves ==
    ASSUME StepHyp, NEW r \in Reqs, Serve(r) \/ Panic(r)
    PROVE  CallMoves(r)
<1>1. CASE RunStatement(r)
    BY <1>1, RunStatementMoves
<1>2. CASE LockPoisoned(r) \/ Panic(r) \/ CheckpointFails(r)
    BY <1>2 DEF LockPoisoned, Panic, CheckpointFails, AnswerOf, CallMoves, Answer, Answers, Runs,
                MayRun, MayLock, StepHyp, FlushInv, TypeOK, storageVars,
                FailedCheckpoint, RefusedPut, LostReply
<1>3. CASE \E busy \in BOOLEAN : RunCheckpoint(r, busy)
  <2>1. PICK busy \in BOOLEAN : RunCheckpoint(r, busy)
      BY <1>3
  <2>2. /\ call[r] = "checkpoint"
        /\ call' = [call EXCEPT ![r] = call'[r]]
        /\ call'[r] \in {"ok", "checkpoint_error"}
        /\ UNCHANGED <<at, stmt, commits>>
      BY <2>1 DEF RunCheckpoint, AnswerOf, Answer, StepHyp, FlushInv, TypeOK
  <2>3. commits[r] \subseteq Contents(db[at[r]]) /\ commits' = [commits EXCEPT ![r] = commits'[r]]
      BY <2>2 DEF StepHyp, FlushInv, TypeOK, CallInv
  <2>4. Durable /\ call'[r] = "ok" => Contents(db[at[r]]) \subseteq Contents(store')
    <3>1. /\ Durable /\ call'[r] = "ok" => IsPrefixOf(db[at[r]], store')
          /\ UNCHANGED db
        BY <2>1, CheckpointFlushes
    <3>2. db[at[r]] \in Seq(Transactions) /\ store' \in Seq(Transactions)
        BY DEF StepHyp, FlushInv, TypeOK, StorageTypeOK
    <3> QED BY <3>1, <3>2, ContentsOfPrefix
  <2>5. UNCHANGED <<db, mounted>> /\ mounted[at[r]]
      BY <2>1, <2>2, CheckpointFlushes DEF StepHyp, FlushInv, CallInv
  <2>6. Durable /\ call'[r] = "ok" => commits'[r] \subseteq Contents(store')
      BY <2>2, <2>3, <2>4
  <2> QED BY <2>2, <2>3, <2>5, <2>6 DEF CallMoves, Answers
<1> QED BY <1>1, <1>2, <1>3 DEF Serve, FinishCheckpoint

\* A step outside the blocking tasks answers no call with 200.
LEMMA OtherSteps ==
    ASSUME StepHyp,
           \/ \E c \in Containers : \/ Open(c)
                                   \/ Crash(c)
                                   \/ AutoCheckpoint(c)
                                   \/ OtherConnection(c)
           \/ \E r \in Reqs, c \in Containers, kind \in KindsSent : Submit(r, c, kind)
           \/ UNCHANGED vars
    PROVE  /\ CallInv'
           /\ Durable /\ AckedDurable => AckedDurable'
           /\ Promised' = Promised
<1>1. UNCHANGED commits
    BY DEF Open, ColdOpen, WarmOpen, Connect, Crash, AutoCheckpoint, OtherConnection,
           Submit, vars
<1>2. \A q \in Reqs :
        /\ call'[q] = "ok" <=> call[q] = "ok"
        /\ call'[q] \in {"idle", "queued"} => call[q] \in {"idle", "queued"}
  <2>1. CASE \/ \E c \in Containers : Open(c) \/ AutoCheckpoint(c) \/ OtherConnection(c)
             \/ UNCHANGED vars
      BY <2>1 DEF Open, ColdOpen, WarmOpen, Connect, AutoCheckpoint, OtherConnection, vars
  <2>2. CASE \E c \in Containers : Crash(c)
      BY <2>2 DEF Crash
  <2>3. CASE \E r \in Reqs, c \in Containers, kind \in KindsSent : Submit(r, c, kind)
      BY <2>3 DEF Submit, StepHyp, FlushInv, TypeOK
  <2> QED BY <2>1, <2>2, <2>3
<1>3. Promised' = Promised
    BY <1>1, <1>2 DEF Promised
<1>5. \A q \in Reqs : call'[q] = "checkpoint" =>
        call[q] = "checkpoint" /\ at'[q] = at[q] /\ mounted'[at[q]]
  <2>1. CASE \E c \in Containers : Open(c)
      BY <2>1 DEF Open, ColdOpen, WarmOpen, ColdStart, WarmStart, Mount, Connect, StepHyp,
                  FlushInv, TypeOK, StorageTypeOK, CallInv
  <2>2. CASE \E c \in Containers : Crash(c)
      BY <2>2 DEF Crash, Unmount, StepHyp, FlushInv, TypeOK, StorageTypeOK, CallInv
  <2>3. CASE \/ \E c \in Containers : AutoCheckpoint(c) \/ OtherConnection(c)
             \/ UNCHANGED vars
    <3>1. UNCHANGED <<call, at, mounted>>
        BY <2>3 DEF AutoCheckpoint, WalCheckpoint, CheckpointFrames, NothingToCheckpoint,
                    storageVars, Publish, Copy, OtherConnection,
                    ReaderBegin, ReaderEnd, vars
    <3> QED BY <3>1 DEF StepHyp, FlushInv, CallInv
  <2>4. CASE \E r \in Reqs, c \in Containers, kind \in KindsSent : Submit(r, c, kind)
      BY <2>4 DEF Submit, storageVars, StepHyp, FlushInv, TypeOK, CallInv
  <2> QED BY <2>1, <2>2, <2>3, <2>4
<1>6. CallInv'
    BY <1>1, <1>2, <1>5, ContentsGrow DEF CallInv, StepHyp, FlushInv, TypeOK
<1>7. AckedDurable => AckedDurable'
    BY <1>3, ContentsGrow DEF AckedDurable
<1> QED BY <1>3, <1>6, <1>7

\* The step lemma the theorems below share.
LEMMA FlushStep ==
    ASSUME Flushing, FlushInv, TypeOK', [Next]_vars
    PROVE  /\ FlushInv' /\ Grows
           /\ Durable /\ AckedDurable => AckedDurable'
           /\ Promised \subseteq Promised'
<1>1. Kept
    BY NextKept, StutterKeeps DEF FlushInv, TypeOK, vars, storageVars
<1>2. StepHyp
    BY <1>1 DEF StepHyp
<1>3. ConnectionKeepsConf'
    BY ConfStep DEF FlushInv, TypeOK, ConnTypeOK, ConnectionKeepsConf, vars
<1>4. /\ CallInv'
      /\ Durable /\ AckedDurable => AckedDurable'
      /\ Promised \subseteq Promised'
  <2>1. CASE \E r \in Reqs : Serve(r) \/ Panic(r)
      BY <1>2, <2>1, ServeMoves, CallMovesKeeps
  <2>2. CASE ~ \E r \in Reqs : Serve(r) \/ Panic(r)
      BY <1>2, <2>2, OtherSteps DEF Next
  <2> QED BY <2>1, <2>2
<1> QED BY <1>1, <1>3, <1>4 DEF FlushInv, Kept

LEMMA DurableStep ==
    ASSUME Durable, DurableInv, TypeOK', [Next]_vars
    PROVE  DurableInv' /\ Grows /\ Promised \subseteq Promised'
BY FlushStep DEF Durable, DurableInv

LEMMA FlushInit ==
    ASSUME Init, TypeOK
    PROVE  FlushInv
BY StorageInitInv DEF Init, FlushInv, CallInv, ConnectionKeepsConf

THEOREM FlushInvariant == Flushing => (Spec => []FlushInv)
<1> SUFFICES ASSUME Flushing PROVE Spec => []FlushInv
    OBVIOUS
<1>1. Init /\ TypeOK => FlushInv
    BY FlushInit
<1>2. FlushInv /\ TypeOK' /\ [Next]_vars => FlushInv'
    BY FlushStep
<1> QED BY <1>1, <1>2, TypeCorrect, PTL DEF Spec

THEOREM DurableInvariant == Durable => (Spec => []DurableInv)
<1> SUFFICES ASSUME Durable PROVE Spec => []DurableInv
    OBVIOUS
<1>1. Init => AckedDurable
    BY DEF Init, AckedDurable, Promised
<1>2. Init /\ TypeOK => DurableInv
    BY <1>1, FlushInit DEF DurableInv
<1>3. DurableInv /\ TypeOK' /\ [Next]_vars => DurableInv'
    BY DurableStep
<1> QED BY <1>2, <1>3, TypeCorrect, PTL DEF Spec

\* No acknowledged write is ever missing from S3 (exec_durable, SqliteDb::open).
THEOREM AckedWritesAreDurable == Durable => (Spec => []AckedDurable)
<1>1. DurableInv => AckedDurable
    BY DEF DurableInv
<1> QED BY <1>1, DurableInvariant, PTL

\* No checkpoint drops a transaction from the manifest.
THEOREM ManifestGrows == Durable => (Spec => ManifestOnlyGrows)
<1> SUFFICES ASSUME Durable PROVE Spec => ManifestOnlyGrows
    OBVIOUS
<1>1. DurableInv /\ TypeOK' /\ [Next]_vars => [IsPrefixOf(store, store')]_vars
    BY DurableStep DEF Grows
<1> QED BY <1>1, DurableInvariant, TypeCorrect, PTL DEF Spec, ManifestOnlyGrows

\* A checkpoint starts and stops no container.
LEMMA CheckpointMounts ==
    ASSUME NEW c, NEW mode, NEW syncs, NEW busy,
           WalCheckpoint(c, mode, syncs, busy) \/ FailedCheckpoint(c, syncs)
    PROVE  UNCHANGED mounted
BY DEF WalCheckpoint, CheckpointFrames, NothingToCheckpoint, Publish, Copy, FailedCheckpoint,
       RefusedPut, LostReply, storageVars

\* While a container serves its log only grows, and what is promised meanwhile
\* is promised by itself.
LEMMA ServedStep ==
    ASSUME Durable, SingleWriter, DurableInv, ServesEveryAck, TypeOK', [Next]_vars
    PROVE  ServesEveryAck'
<1> SUFFICES ASSUME NEW c \in Containers, mounted'[c]
             PROVE  Promised' \subseteq Contents(db'[c])
    BY DEF ServesEveryAck
<1>1. FlushInv /\ Kept /\ StepHyp
  <2>1. FlushInv /\ Flushing
      BY DEF DurableInv, Durable
  <2>2. Kept
      BY <2>1, NextKept, StutterKeeps DEF FlushInv, TypeOK, vars, storageVars
  <2> QED BY <2>1, <2>2 DEF StepHyp
<1>2. CASE \E r \in Reqs : Serve(r) \/ Panic(r)
  <2>1. PICK r \in Reqs : CallMoves(r)
      BY <1>1, <1>2, ServeMoves
  <2>2. mounted[c] /\ Promised \subseteq Contents(db'[c])
      BY <1>1, <2>1, ContentsGrow DEF CallMoves, ServesEveryAck
  <2>3. call'[r] = "ok" => commits'[r] \subseteq Contents(db'[c])
    <3>1. at[r] \in Containers /\ \A d \in Containers : mounted[d] => d = c
        BY <1>1, <2>2 DEF FlushInv, TypeOK, StorageInv, SingleInv
    <3> QED BY <2>1, <3>1 DEF CallMoves
  <2>4. \A q \in Reqs : q # r => call'[q] = call[q] /\ commits'[q] = commits[q]
      BY <1>1, <2>1 DEF CallMoves, FlushInv, TypeOK
  <2>5. Promised' \subseteq Promised \cup (IF call'[r] = "ok" THEN commits'[r] ELSE {})
      BY <2>4 DEF Promised
  <2> QED BY <2>2, <2>3, <2>5
<1>3. CASE ~ \E r \in Reqs : Serve(r) \/ Panic(r)
  <2>1. Promised' = Promised
      BY <1>1, <1>3, OtherSteps DEF Next
  <2>2. CASE mounted[c]
      BY <1>1, <2>1, <2>2, ContentsGrow DEF ServesEveryAck
  <2>3. CASE ~mounted[c]
    <3>1. PICK d \in Containers : Open(d)
        BY <1>3, <2>3, CheckpointMounts
           DEF Next, Crash, Unmount, AutoCheckpoint, OtherConnection, ReaderBegin, ReaderEnd,
               Submit, storageVars, vars, StepHyp, FlushInv, TypeOK, StorageTypeOK
    <3>2. db'[c] \in Seq(Transactions) /\ store \in Seq(Transactions) /\ IsPrefixOf(store, db'[c])
        BY <1>1, <2>3, <3>1 DEF Open, ColdOpen, WarmOpen, ColdStart, WarmStart, Mount, IsPrefixOf,
                                FlushInv, TypeOK, StorageTypeOK
    <3>3. Contents(store) \subseteq Contents(db'[c])
        BY <3>2, ContentsOfPrefix
    <3> QED BY <2>1, <3>3 DEF DurableInv, AckedDurable
  <2> QED BY <2>2, <2>3
<1> QED BY <1>2, <1>3

\* With one container at a time, whatever its journal, the one that serves
\* shows every acknowledged write (exec_durable, the deployment template).
THEOREM EveryAckIsServed == Durable /\ SingleWriter => (Spec => []ServesEveryAck)
<1> SUFFICES ASSUME Durable, SingleWriter PROVE Spec => []ServesEveryAck
    OBVIOUS
<1>1. Init => ServesEveryAck
    BY DEF Init, StorageInit, ServesEveryAck
<1>2. DurableInv /\ ServesEveryAck /\ TypeOK' /\ [Next]_vars => ServesEveryAck'
    BY ServedStep
<1> QED BY <1>1, <1>2, DurableInvariant, TypeCorrect, PTL DEF Spec

\* Nothing but its own checkpoint answers a call that waits for one with 200.
LEMMA OnlyItsCheckpoint ==
    ASSUME TypeOK, Next, NEW r \in Reqs, call[r] = "checkpoint", call'[r] = "ok"
    PROVE  \E busy \in BOOLEAN : RunCheckpoint(r, busy)
<1>1. ~ \E c \in Containers : \/ Open(c)
                             \/ Crash(c)
                             \/ AutoCheckpoint(c)
                             \/ OtherConnection(c)
    BY DEF Open, ColdOpen, WarmOpen, Connect, Crash, AutoCheckpoint, OtherConnection
<1>2. ASSUME NEW q \in Reqs, q # r
      PROVE  /\ ~ Serve(q) /\ ~ Panic(q)
             /\ \A c \in Containers, kind \in KindsSent : ~ Submit(q, c, kind)
    BY <1>2 DEF Serve, Panic, Submit, LockPoisoned, RunStatement, StatementFails,
                RunNoWrite, RunWriteInTxn, RunWrite, WriteKeptButFails, WriteAbortsTxn,
                CommitFails, RunBegin, RunCommit, RunRollback, RunClientCheckpoint,
                ClientCheckpointFails, FinishCheckpoint, RunCheckpoint, CheckpointFails,
                Proceed, Answer, TypeOK
<1>3. Serve(r) \/ Panic(r) \/ \E c \in Containers, kind \in KindsSent : Submit(r, c, kind)
    BY <1>1, <1>2 DEF Next
<1>4. ~ Panic(r) /\ ~ CheckpointFails(r) /\ ~ LockPoisoned(r)
    BY DEF Panic, CheckpointFails, AnswerOf, LockPoisoned, MayLock, Answer, TypeOK
<1>5. ~ RunStatement(r) /\ \A c \in Containers, kind \in KindsSent : ~ Submit(r, c, kind)
    BY DEF Submit, RunStatement, StatementFails, RunNoWrite, RunWriteInTxn, RunWrite,
             WriteKeptButFails, WriteAbortsTxn, CommitFails, RunBegin, RunCommit, RunRollback,
           RunClientCheckpoint, ClientCheckpointFails, Runs, MayRun, MayLock
<1> QED BY <1>3, <1>4, <1>5 DEF Serve, FinishCheckpoint

\* The answer to a checkpointed call leaves nothing of its connection behind.
THEOREM AckIsABarrier == Durable => (Spec => AckFlushesAll)
<1> SUFFICES ASSUME Durable PROVE Spec => AckFlushesAll
    OBVIOUS
<1> DEFINE Barrier == \A r \in Reqs : call[r] = "checkpoint" /\ call'[r] = "ok"
                                      => IsPrefixOf(db'[at[r]], store')
<1>1. FlushInv /\ TypeOK' /\ [Next]_vars => [Barrier]_vars
    BY NextKept, OnlyItsCheckpoint, CheckpointFlushes DEF StepHyp, FlushInv, Durable
<1>2. Flushing
    BY DEF Durable
<1> QED BY <1>1, <1>2, FlushInvariant, TypeCorrect, PTL DEF Spec, AckFlushesAll

\* In every checkpoint mode, and whatever readers hold back, it leaves nothing
\* behind that they let the checkpoint copy.
THEOREM AckIsABarrierUpToReaders == Flushing => (Spec => AckFlushesUpToReaders)
<1> SUFFICES ASSUME Flushing PROVE Spec => AckFlushesUpToReaders
    OBVIOUS
<1> DEFINE Barrier == \A r \in Reqs : call[r] = "checkpoint" /\ call'[r] = "ok"
                                      => IsPrefixOf(Uploaded(at[r])', store')
<1>1. FlushInv /\ TypeOK' /\ [Next]_vars => [Barrier]_vars
    BY NextKept, OnlyItsCheckpoint, CheckpointFlushes DEF StepHyp, FlushInv
<1> QED BY <1>1, FlushInvariant, TypeCorrect, PTL DEF Spec, AckFlushesUpToReaders

-----------------------------------------------------------------------------
(* Refinement.                                                             *)

\* SqliteDb implements DurableLog: through crashes, restarts, failed
\* checkpoints, lost replies and interleaved clients it stays an append-only
\* log that holds whatever was acknowledged.
THEOREM Refinement == Durable => (Spec => ImplementsDurableLog)
<1> SUFFICES ASSUME Durable PROVE Spec => ImplementsDurableLog
    OBVIOUS
<1>1. Init => Abstract!Init
    BY DEF Init, StorageInit, Abstract!Init, Promised
<1>2. DurableInv /\ TypeOK' /\ [Next]_vars => [Abstract!Advance]_<<store, Promised>>
  <2> SUFFICES ASSUME DurableInv, TypeOK', [Next]_vars PROVE Abstract!Advance
      OBVIOUS
  <2>1. Abstract!Extends(store, store')
      BY DurableStep DEF Grows, IsPrefixOf, Abstract!Extends
  <2>2. \A i \in 1..Len(store') : store'[i] \subseteq Reqs
      BY DEF TypeOK, StorageTypeOK, Transactions
  <2>3. Promised \subseteq Promised' /\ Promised' \subseteq Abstract!Logged(store')
      BY DurableStep DEF DurableInv, AckedDurable, Contents, Abstract!Logged
  <2> QED BY <2>1, <2>2, <2>3 DEF Abstract!Advance
<1> QED BY <1>1, <1>2, DurableInvariant, TypeCorrect, PTL
        DEF Spec, ImplementsDurableLog, Abstract!Spec

-----------------------------------------------------------------------------
(* The mutex.                                                              *)

\* A call in its checkpoint is on a live container.
MountedInv == \A r \in Reqs : call[r] = "checkpoint" => mounted[at[r]]

LockInv == MountedInv /\ CheckpointUndisturbed

\* Running a statement needs the mutex, and keeps it only in autocommit.
LEMMA RunStatementLocks ==
    ASSUME ConnTypeOK, NEW r \in Reqs, RunStatement(r)
    PROVE  /\ call[r] = "queued" /\ mounted[at[r]] /\ ~ConnLocked(at[r])
           /\ UNCHANGED <<at, mounted>>
           /\ call' = [call EXCEPT ![r] = call'[r]]
           /\ call'[r] = "checkpoint" => ~inTxn'[at[r]]
           /\ inTxn' = [inTxn EXCEPT ![at[r]] = inTxn'[at[r]]]
<1>1. call[r] = "queued" /\ mounted[at[r]] /\ ~ConnLocked(at[r])
    BY DEF RunStatement, StatementFails, RunNoWrite, RunWriteInTxn, RunWrite,
           WriteKeptButFails, WriteAbortsTxn, CommitFails, RunBegin, RunCommit, RunRollback,
           RunClientCheckpoint, ClientCheckpointFails, Runs, MayRun, MayLock
<1>2. UNCHANGED mounted
    BY DEF RunStatement, StatementFails, RunNoWrite, RunWriteInTxn, RunWrite,
           WriteKeptButFails, WriteAbortsTxn, CommitFails, RunBegin, RunCommit, RunRollback,
           RunClientCheckpoint, ClientCheckpointFails, Commit, CommitTxn, AppendWal,
             WriteThrough, FailedCommit, WalCheckpoint, CheckpointFrames, NothingToCheckpoint,
           Publish, Copy, FailedCheckpoint, RefusedPut, LostReply, storageVars
<1>3. CASE StatementFails(r) \/ WriteKeptButFails(r) \/ ClientCheckpointFails(r)
    BY <1>1, <1>2, <1>3 DEF StatementFails, WriteKeptButFails, ClientCheckpointFails, Answer,
                ConnTypeOK
<1>4. CASE RunNoWrite(r) \/ RunWriteInTxn(r) \/ RunWrite(r)
    BY <1>1, <1>2, <1>4 DEF RunNoWrite, RunWriteInTxn, RunWrite, Proceed, NeedsCheckpoint,
                Answer, ConnTypeOK
<1>5. CASE WriteAbortsTxn(r) \/ CommitFails(r) \/ RunBegin(r) \/ RunCommit(r) \/ RunRollback(r)
    BY <1>1, <1>2, <1>5 DEF WriteAbortsTxn, CommitFails, RunBegin, RunCommit, RunRollback, Proceed,
                NeedsCheckpoint, Answer, ConnTypeOK
<1>6. CASE \E mode \in Modes, busy \in BOOLEAN : RunClientCheckpoint(r, mode, busy)
    BY <1>1, <1>2, <1>6 DEF RunClientCheckpoint, Proceed, Answer, ConnTypeOK
<1> QED BY <1>3, <1>4, <1>5, <1>6 DEF RunStatement

\* The mutex held across statement and checkpoint is what keeps SQLite from
\* locking the checkpoint out.
THEOREM CheckpointIsAlone == Spec => []CheckpointUndisturbed
<1>1. Init => LockInv
    BY DEF Init, LockInv, MountedInv, CheckpointUndisturbed
<1>2. TypeOK /\ LockInv /\ [Next]_vars => LockInv'
  <2> SUFFICES ASSUME TypeOK, LockInv, [Next]_vars PROVE LockInv'
      OBVIOUS
  <2> USE DEF LockInv, MountedInv, CheckpointUndisturbed
  <2>1. CASE \E c \in Containers : Open(c)
    <3>1. /\ UNCHANGED <<call, at>>
          /\ \A d \in Containers : mounted[d] => mounted'[d] /\ inTxn'[d] = inTxn[d]
        BY <2>1 DEF Open, ColdOpen, WarmOpen, ColdStart, WarmStart, MayStart, Mount, Connect,
                    TypeOK, StorageTypeOK
    <3> QED BY <3>1 DEF TypeOK
  <2>2. CASE \E c \in Containers : Crash(c)
      BY <2>2 DEF Crash, Unmount, TypeOK, StorageTypeOK
  <2>3. CASE \/ \E c \in Containers : AutoCheckpoint(c) \/ OtherConnection(c)
             \/ UNCHANGED vars
    <3>1. UNCHANGED <<call, at, mounted, inTxn>>
        BY <2>3 DEF AutoCheckpoint, WalCheckpoint, CheckpointFrames, NothingToCheckpoint,
                    storageVars, Publish, Copy, OtherConnection,
                    ReaderBegin, ReaderEnd, vars
    <3> QED BY <3>1
  <2>4. CASE \E r \in Reqs, c \in Containers, kind \in KindsSent : Submit(r, c, kind)
      BY <2>4 DEF Submit, storageVars, TypeOK
  <2>5. CASE \E r \in Reqs : LockPoisoned(r) \/ Panic(r) \/ FinishCheckpoint(r)
      BY <2>5 DEF LockPoisoned, Panic, FinishCheckpoint, RunCheckpoint, CheckpointFails, AnswerOf,
                  WalCheckpoint, CheckpointFrames, NothingToCheckpoint,
                    storageVars, Publish, Copy, FailedCheckpoint, RefusedPut, LostReply,
                  Answer, storageVars, TypeOK
  <2>6. CASE \E r \in Reqs : RunStatement(r)
      BY <2>6, RunStatementLocks DEF ConnLocked, TypeOK, ConnTypeOK
  <2> QED BY <2>1, <2>2, <2>3, <2>4, <2>5, <2>6 DEF Next, Serve
<1>3. LockInv => CheckpointUndisturbed
    BY DEF LockInv
<1> QED BY <1>1, <1>2, <1>3, TypeCorrect, PTL DEF Spec

-----------------------------------------------------------------------------
(* The way of a call.                                                      *)

\* A statement that ran has an answer, or waits for its checkpoint.
LEMMA ProceedAnswers ==
    ASSUME ConnTypeOK, NEW r \in Reqs, NEW was, NEW now, Proceed(r, was, now)
    PROVE  call'[r] \notin {"idle", "queued"}
BY DEF Proceed, Answer, ConnTypeOK

\* The blocking task of a call moves no other call, and never runs it again.
LEMMA ServeFrame ==
    ASSUME TypeOK, NEW r \in Reqs, Serve(r) \/ Panic(r)
    PROVE  /\ call[r] \in {"queued", "checkpoint"}
           /\ call'[r] \notin {"idle", "queued"}
           /\ \A q \in Reqs : q # r => call'[q] = call[q]
           /\ UNCHANGED at
<1>1. ConnTypeOK
    BY DEF TypeOK, ConnTypeOK
<1>2. CASE RunStatement(r)
  <2>1. CASE StatementFails(r) \/ WriteKeptButFails(r) \/ ClientCheckpointFails(r)
             \/ WriteAbortsTxn(r) \/ CommitFails(r)
      BY <1>1, <2>1, RunStatementLocks DEF RunStatement, StatementFails, WriteKeptButFails,
            ClientCheckpointFails, WriteAbortsTxn, CommitFails, Answer, ConnTypeOK
  <2>2. CASE RunNoWrite(r) \/ RunWriteInTxn(r) \/ RunWrite(r) \/ RunBegin(r)
             \/ RunCommit(r) \/ RunRollback(r)
             \/ \E mode \in Modes, busy \in BOOLEAN : RunClientCheckpoint(r, mode, busy)
    <3>1. \E was, now : Proceed(r, was, now)
        BY <2>2 DEF RunNoWrite, RunWriteInTxn, RunWrite, RunBegin, RunCommit, RunRollback,
                    RunClientCheckpoint
    <3>2. call'[r] \notin {"idle", "queued"}
        BY <1>1, <3>1, ProceedAnswers
    <3> QED BY <1>1, <1>2, <3>2, RunStatementLocks DEF ConnTypeOK
  <2> QED BY <1>2, <2>1, <2>2 DEF RunStatement
<1>3. CASE LockPoisoned(r) \/ Panic(r) \/ FinishCheckpoint(r)
    BY <1>3 DEF LockPoisoned, Panic, FinishCheckpoint, RunCheckpoint, CheckpointFails,
                AnswerOf, MayRun, MayLock, Answer, TypeOK
<1> QED BY <1>2, <1>3 DEF Serve

\* What a call committed is settled by the time it is answered.
LEMMA CommitsStay ==
    ASSUME TypeOK, [Next]_vars
    PROVE  \A q \in Reqs : call[q] \notin {"queued", "checkpoint"} => commits'[q] = commits[q]
<1>1. ASSUME NEW r \in Reqs, Serve(r) \/ Panic(r)
      PROVE  \A q \in Reqs : q # r => commits'[q] = commits[q]
  <2>1. CASE RunWrite(r) \/ RunCommit(r) \/ WriteKeptButFails(r)
      BY <2>1 DEF RunWrite, RunCommit, WriteKeptButFails, Commit, TypeOK
  <2>2. CASE ~ (RunWrite(r) \/ RunCommit(r) \/ WriteKeptButFails(r))
    <3>1. UNCHANGED commits
        BY <1>1, <2>2 DEF Serve, Panic, LockPoisoned, RunStatement, StatementFails, RunNoWrite,
              RunWriteInTxn, WriteAbortsTxn, CommitFails, RunBegin, RunRollback,
              RunClientCheckpoint, ClientCheckpointFails, FinishCheckpoint, RunCheckpoint, CheckpointFails
    <3> QED BY <3>1
  <2> QED BY <2>1, <2>2
<1>2. CASE \E r \in Reqs : Serve(r) \/ Panic(r)
    BY <1>1, <1>2, ServeFrame
<1>3. CASE ~ \E r \in Reqs : Serve(r) \/ Panic(r)
  <2>1. UNCHANGED commits
      BY <1>3 DEF Next, Open, ColdOpen, WarmOpen, Connect, Crash, AutoCheckpoint,
            OtherConnection, Submit, vars
  <2> QED BY <2>1
<1> QED BY <1>2, <1>3

\* A call goes from the queue to its answer, by way of a checkpoint or not,
\* and never back.
Onward(r) ==
    /\ call[r] = "queued" => call'[r] # "idle"
    /\ call[r] = "checkpoint" => call'[r] \in {"checkpoint"} \cup Answers
    /\ call[r] \in Answers => call'[r] = call[r] /\ commits'[r] = commits[r]

LEMMA OnwardStep ==
    ASSUME TypeOK, [Next]_vars, NEW r \in Reqs
    PROVE  Onward(r)
<1>1. call[r] \in Answers => commits'[r] = commits[r]
    BY CommitsStay DEF Answers
<1>2. CASE Serve(r) \/ Panic(r)
  <2>1. call[r] \in {"queued", "checkpoint"} /\ call'[r] \notin {"idle", "queued"}
      BY <1>2, ServeFrame
  <2>2. CASE call[r] = "checkpoint"
    <3>1. LockPoisoned(r) \/ RunStatement(r) => FALSE
        BY <2>2 DEF LockPoisoned, RunStatement, StatementFails, RunNoWrite, RunWriteInTxn,
              RunWrite, WriteKeptButFails, WriteAbortsTxn, CommitFails, RunBegin, RunCommit,
              RunRollback, RunClientCheckpoint, ClientCheckpointFails, Runs, MayRun, MayLock
    <3>2. FinishCheckpoint(r) \/ Panic(r)
        BY <1>2, <3>1 DEF Serve
    <3>3. call'[r] \in Answers
        BY <3>2 DEF FinishCheckpoint, RunCheckpoint, CheckpointFails, Panic, AnswerOf, Answer,
                    Answers, TypeOK
    <3> QED BY <2>2, <3>3 DEF Onward, Answers
  <2> QED BY <2>1, <2>2 DEF Onward, Answers
<1>3. CASE \E q \in Reqs : q # r /\ (Serve(q) \/ Panic(q))
  <2>1. call'[r] = call[r]
      BY <1>3, ServeFrame
  <2> QED BY <1>1, <2>1 DEF Onward
<1>4. CASE ~ \E q \in Reqs : Serve(q) \/ Panic(q)
  <2>1. call'[r] = call[r] \/ call[r] = "idle"
                           \/ (call[r] \in {"queued", "checkpoint"} /\ call'[r] = "lost")
      BY <1>4 DEF Next, Open, ColdOpen, WarmOpen, Connect, Crash, AutoCheckpoint,
                  OtherConnection, Submit, callVars, vars, TypeOK
  <2> QED BY <1>1, <2>1 DEF Onward, Answers
<1> QED BY <1>2, <1>3, <1>4

\* Answers are final, a call is served in two steps at most, and no step of
\* others sends it back: with a scheduler that serves it, it is answered.
THEOREM CallsMoveOnward == Spec => [][\A r \in Reqs : Onward(r)]_vars
<1>1. TypeOK /\ [Next]_vars => [\A r \in Reqs : Onward(r)]_vars
    BY OnwardStep
<1> QED BY <1>1, TypeCorrect, PTL DEF Spec

\* Only an opening or a crash changes who is running.
LEMMA ServeMounts ==
    ASSUME NEW r, Serve(r) \/ Panic(r)
    PROVE  UNCHANGED mounted
<1>1. ASSUME NEW txn, Commit(r, txn)
      PROVE  UNCHANGED mounted
    BY <1>1 DEF Commit, CommitTxn, AppendWal, WriteThrough, storageVars
<1>2. CASE RunWrite(r) \/ RunCommit(r) \/ WriteKeptButFails(r)
    BY <1>1, <1>2 DEF RunWrite, RunCommit, WriteKeptButFails, storageVars
<1>3. CASE \/ ClientCheckpointFails(r)
           \/ \E mode \in Modes, busy \in BOOLEAN : RunClientCheckpoint(r, mode, busy)
           \/ FinishCheckpoint(r)
    BY <1>3, CheckpointMounts DEF ClientCheckpointFails, RunClientCheckpoint, FinishCheckpoint,
                                  RunCheckpoint, CheckpointFails, storageVars
<1>4. CASE \/ StatementFails(r) \/ RunNoWrite(r) \/ RunWriteInTxn(r) \/ WriteAbortsTxn(r)
           \/ RunBegin(r) \/ RunRollback(r) \/ LockPoisoned(r) \/ Panic(r)
    BY <1>4 DEF StatementFails, RunNoWrite, RunWriteInTxn, WriteAbortsTxn, RunBegin, RunRollback,
                LockPoisoned, Panic, storageVars
<1>5. CASE CommitFails(r)
    BY <1>5 DEF CommitFails, FailedCommit
<1> QED BY <1>2, <1>3, <1>4, <1>5 DEF Serve, RunStatement

\* Nobody waits for a process that is gone: its calls died with it.
Attended == \A r \in Reqs : call[r] \in {"queued", "checkpoint"} => mounted[at[r]]

LEMMA AttendedStep ==
    ASSUME TypeOK, Attended, [Next]_vars
    PROVE  Attended'
<1>1. ASSUME UNCHANGED mounted, UNCHANGED at,
             \A r \in Reqs : call'[r] \in {"queued", "checkpoint"} =>
                                call[r] \in {"queued", "checkpoint"}
      PROVE  Attended'
    BY <1>1 DEF Attended
<1>2. CASE \E r \in Reqs : Serve(r) \/ Panic(r)
  <2>1. PICK r \in Reqs : Serve(r) \/ Panic(r)
      BY <1>2
  <2>2. UNCHANGED mounted
      BY <2>1, ServeMounts
  <2> QED BY <1>1, <2>1, <2>2, ServeFrame
<1>3. CASE \E c \in Containers : Open(c) \/ Crash(c)
    BY <1>3 DEF Open, ColdOpen, WarmOpen, ColdStart, WarmStart, Mount, Connect, callVars, Crash,
                Unmount, Attended, TypeOK, StorageTypeOK
<1>4. CASE \E c \in Containers : AutoCheckpoint(c) \/ OtherConnection(c)
  <2>1. UNCHANGED <<mounted, call, at>>
      BY <1>4, CheckpointMounts DEF AutoCheckpoint, OtherConnection, ReaderBegin, ReaderEnd,
                                    callVars, storageVars
  <2> QED BY <1>1, <2>1
<1>5. CASE \/ \E r \in Reqs, c \in Containers, kind \in KindsSent : Submit(r, c, kind)
           \/ UNCHANGED vars
    BY <1>5 DEF Submit, Attended, TypeOK, storageVars, vars
<1> QED BY <1>2, <1>3, <1>4, <1>5 DEF Next

\* The process that is to serve a call runs: one that dies takes its calls
\* with it.
THEOREM CallsAreAttended == Spec => []Attended
<1>1. Init => Attended
    BY DEF Init, Attended
<1>2. TypeOK /\ Attended /\ [Next]_vars => Attended'
    BY AttendedStep
<1> QED BY <1>1, <1>2, TypeCorrect, PTL DEF Spec

-----------------------------------------------------------------------------
(* Panics.                                                                 *)

\* Running a statement takes a mutex that is not poisoned, and leaves it so.
LEMMA RunStatementPoison ==
    ASSUME NEW r, RunStatement(r)
    PROVE  ~poisoned[at[r]] /\ UNCHANGED poisoned
BY DEF RunStatement, StatementFails, RunNoWrite, RunWriteInTxn, RunWrite, WriteKeptButFails,
       WriteAbortsTxn, CommitFails, RunBegin, RunCommit, RunRollback, RunClientCheckpoint,
       ClientCheckpointFails, Runs, MayRun

\* Only a panic poisons, and only an opening, of a container that does not
\* run, takes the poison away.
LEMMA PoisonFrame ==
    ASSUME TypeOK, [Next]_vars
    PROVE  /\ \A c \in Containers : poisoned'[c] # poisoned[c] =>
                  \/ poisoned[c] /\ ~mounted[c]
                  \/ \E q \in Reqs : at[q] = c /\ Panic(q)
           /\ (\A q \in Reqs : ~(Serve(q) \/ Panic(q))) =>
                  \A r \in Reqs : call'[r] = "checkpoint" => call[r] = "checkpoint" /\ at'[r] = at[r]
<1>1. CASE \E q \in Reqs : Panic(q)
    BY <1>1 DEF Panic, TypeOK
<1>2. CASE \E q \in Reqs : Serve(q)
  <2>1. PICK q \in Reqs : Serve(q)
      BY <1>2
  <2>2. UNCHANGED poisoned
      BY <2>1, RunStatementPoison DEF Serve, LockPoisoned, FinishCheckpoint, RunCheckpoint,
                                      CheckpointFails
  <2> QED BY <2>1, <2>2
<1>3. CASE \E c \in Containers : Open(c)
    BY <1>3 DEF Open, ColdOpen, WarmOpen, ColdStart, WarmStart, MayStart, Connect, callVars, TypeOK
<1>4. CASE \/ \E c \in Containers : Crash(c) \/ AutoCheckpoint(c) \/ OtherConnection(c)
           \/ \E r \in Reqs, c \in Containers, kind \in KindsSent : Submit(r, c, kind)
           \/ UNCHANGED vars
  <2>1. UNCHANGED poisoned
      BY <1>4 DEF Crash, AutoCheckpoint, OtherConnection, Submit, vars
  <2>2. \A r \in Reqs : call'[r] = "checkpoint" => call[r] = "checkpoint" /\ at'[r] = at[r]
    <3>1. CASE \E c \in Containers : Crash(c)
        BY <3>1 DEF Crash, TypeOK
    <3>2. CASE \E r \in Reqs, c \in Containers, kind \in KindsSent : Submit(r, c, kind)
        BY <3>2 DEF Submit, TypeOK
    <3>3. CASE \/ \E c \in Containers : AutoCheckpoint(c) \/ OtherConnection(c)
               \/ UNCHANGED vars
        BY <3>3 DEF AutoCheckpoint, OtherConnection, callVars, vars
    <3> QED BY <1>4, <3>1, <3>2, <3>3
  <2> QED BY <2>1, <2>2
<1> QED BY <1>1, <1>2, <1>3, <1>4 DEF Next

\* A call whose checkpoint is under way holds a mutex nobody poisoned.
CleanCheckpoint == \A r \in Reqs : call[r] = "checkpoint" => ~poisoned[at[r]]

LEMMA CleanCheckpointStep ==
    ASSUME TypeOK, CheckpointUndisturbed, CleanCheckpoint, [Next]_vars
    PROVE  CleanCheckpoint'
<1> SUFFICES ASSUME NEW r \in Reqs, call'[r] = "checkpoint"
             PROVE  ~poisoned'[at'[r]]
    BY DEF CleanCheckpoint
<1>1. CASE \E q \in Reqs : Panic(q)
  <2>1. PICK q \in Reqs : Panic(q)
      BY <1>1
  <2>2. call'[q] = "internal" /\ q # r
      BY <2>1 DEF Panic, Answer, TypeOK
  <2>3. call[r] = "checkpoint" /\ UNCHANGED at
      BY <2>1, <2>2, ServeFrame
  <2>4. at[q] # at[r]
      BY <2>1, <2>2, <2>3 DEF Panic, MayRun, MayLock, ConnLocked, CheckpointUndisturbed
  <2> QED BY <2>1, <2>3, <2>4 DEF Panic, CleanCheckpoint, TypeOK
<1>2. CASE \E q \in Reqs : Serve(q)
  <2>1. PICK q \in Reqs : Serve(q)
      BY <1>2
  <2>2. UNCHANGED <<at, poisoned>>
      BY <2>1, ServeFrame, RunStatementPoison DEF Serve, LockPoisoned, FinishCheckpoint,
                                      RunCheckpoint, CheckpointFails
  <2>3. CASE q # r
      BY <2>1, <2>2, <2>3, ServeFrame DEF CleanCheckpoint
  <2>4. CASE q = r /\ ~RunStatement(r)
      BY <2>1, <2>4 DEF Serve, LockPoisoned, FinishCheckpoint, RunCheckpoint, CheckpointFails,
                        AnswerOf, Answer, TypeOK
  <2>5. CASE q = r /\ RunStatement(r)
      BY <2>2, <2>5, RunStatementPoison
  <2> QED BY <2>3, <2>4, <2>5
<1>3. CASE \A q \in Reqs : ~(Serve(q) \/ Panic(q))
  <2>1. call[r] = "checkpoint" /\ at'[r] = at[r] /\ at[r] \in Containers
      BY <1>3, PoisonFrame DEF TypeOK
  <2> QED BY <1>3, <2>1, PoisonFrame DEF CleanCheckpoint, TypeOK
<1> QED BY <1>1, <1>2, <1>3

\* A call that waits for a poisoned mutex, or was answered but not with 200.
Doomed(r) ==
    \/ call[r] = "queued" /\ poisoned[at[r]]
    \/ call[r] \in Answers \ {"ok"}

LEMMA DoomedStays ==
    ASSUME TypeOK, Attended, [Next]_vars, NEW r \in Reqs, Doomed(r)
    PROVE  Doomed(r)'
<1>1. CASE call[r] \in Answers \ {"ok"}
    BY <1>1, OnwardStep DEF Onward, Doomed
<1>2. CASE call[r] = "queued" /\ poisoned[at[r]]
  <2>1. CASE Serve(r)
      BY <1>2, <2>1, RunStatementPoison DEF Serve, LockPoisoned, FinishCheckpoint, RunCheckpoint,
                     CheckpointFails, Answer, Answers, Doomed, TypeOK
  <2>2. CASE Panic(r)
      BY <2>2 DEF Panic, Answer, Answers, Doomed, TypeOK
  <2>3. CASE ~Serve(r) /\ ~Panic(r)
    <3>1. at'[r] = at[r] /\ call'[r] \in {"queued", "lost"}
      <4>1. CASE \E q \in Reqs : Serve(q) \/ Panic(q)
          BY <1>2, <2>3, <4>1, ServeFrame
      <4>2. CASE ~ \E q \in Reqs : Serve(q) \/ Panic(q)
          BY <1>2, <4>2 DEF Next, Open, ColdOpen, WarmOpen, Connect, Crash, AutoCheckpoint,
                        OtherConnection, Submit, callVars, vars, TypeOK
      <4> QED BY <4>1, <4>2
    <3>2. poisoned'[at[r]]
      <4>1. mounted[at[r]] /\ at[r] \in Containers
          BY <1>2 DEF Attended, TypeOK
      <4>2. CASE \E q \in Reqs : at[q] = at[r] /\ Panic(q)
          BY <4>1, <4>2 DEF Panic, TypeOK
      <4>3. CASE ~ \E q \in Reqs : at[q] = at[r] /\ Panic(q)
          BY <1>2, <4>1, <4>3, PoisonFrame
      <4> QED BY <4>2, <4>3
    <3> QED BY <3>1, <3>2 DEF Doomed, Answers
  <2> QED BY <2>1, <2>2, <2>3
<1> QED BY <1>1, <1>2 DEF Doomed

\* No call that a poisoned container has, or gets, is ever answered 200: the
\* mutex was not poisoned under a checkpoint, a call that waits for it can
\* only be refused or die, and answers are final.
THEOREM PoisonIsFinal == Spec => PoisonedNeverAcks
<1> SUFFICES ASSUME NEW r \in Reqs
             PROVE  Spec => [](poisoned[at[r]] /\ call[r] \in {"queued", "checkpoint"}
                                 => [](call[r] # "ok"))
    BY DEF PoisonedNeverAcks
<1>1. Init => CleanCheckpoint
    BY DEF Init, CleanCheckpoint
<1>2. TypeOK /\ CheckpointUndisturbed /\ CleanCheckpoint /\ [Next]_vars => CleanCheckpoint'
    BY CleanCheckpointStep
<1>3. CleanCheckpoint /\ poisoned[at[r]] /\ call[r] \in {"queued", "checkpoint"} => Doomed(r)
    BY DEF CleanCheckpoint, Doomed
<1>4. TypeOK /\ Attended /\ Doomed(r) /\ [Next]_vars => Doomed(r)'
    BY DoomedStays
<1>5. Doomed(r) => call[r] # "ok"
    BY DEF Doomed
<1> QED BY <1>1, <1>2, <1>3, <1>4, <1>5, TypeCorrect, CheckpointIsAlone, CallsAreAttended, PTL
        DEF Spec

-----------------------------------------------------------------------------
(* Where rows come from, whatever the configuration.                       *)

\* What a step of one container may do to the logs: S3 gets a prefix of its
\* database, with one more transaction or not; its database becomes what S3
\* holds, or gets one more transaction.
Moved(c, txn) ==
    /\ store' \in {store, Uploaded(c), Append(db[c], txn)}
    /\ db' \in {db, [db EXCEPT ![c] = store], [db EXCEPT ![c] = Append(db[c], txn)]}

\* Nothing is added.
Copied(c) ==
    /\ store' \in {store, Uploaded(c)}
    /\ db' \in {db, [db EXCEPT ![c] = store]}

LEMMA StorageCopies ==
    ASSUME StorageTypeOK, NEW c \in Containers,
           \/ UNCHANGED storageVars
           \/ Unmount(c)
           \/ ColdStart(c)
           \/ WarmStart(c)
           \/ ReaderBegin(c)
           \/ ReaderEnd(c)
           \/ \E mode \in Modes, busy \in BOOLEAN : WalCheckpoint(c, mode, Syncs(c), busy)
           \/ FailedCheckpoint(c, Syncs(c))
    PROVE  Copied(c)
<1>1. CASE WarmStart(c)
    BY <1>1 DEF WarmStart, Mount, StorageTypeOK, Copied
<1>2. CASE ColdStart(c)
    BY <1>2 DEF ColdStart, Mount, Copied
<1>3. CASE \/ FailedCheckpoint(c, Syncs(c))
           \/ \E mode \in Modes, busy \in BOOLEAN : WalCheckpoint(c, mode, Syncs(c), busy)
    BY <1>3 DEF FailedCheckpoint, RefusedPut, LostReply, WalCheckpoint, CheckpointFrames,
                NothingToCheckpoint, Publish, Copy, Put, storageVars, Copied
<1> QED BY <1>1, <1>2, <1>3 DEF Unmount, ReaderBegin, ReaderEnd, storageVars, Copied

LEMMA CommitMoves ==
    ASSUME NEW c \in Containers, NEW txn,
           CommitTxn(c, txn, Syncs(c)) \/ FailedCommit(c, txn, Syncs(c))
    PROVE  Moved(c, txn)
BY DEF CommitTxn, AppendWal, WriteThrough, FailedCommit, Put, Moved

\* How the task of r, on container c, moves rows: not at all, or into the open
\* transaction of the connection, or into a log; from its own statement, or
\* from the transaction that it closes.
ServeRows(r, c) ==
    \/ /\ Copied(c)
       /\ pending' \in {pending, [pending EXCEPT ![c] = {}]}
    \/ /\ UNCHANGED <<store, db>>
       /\ pending' = [pending EXCEPT ![c] = @ \cup {r}]
       /\ call[r] = "queued"
    \/ /\ Moved(c, {r})
       /\ pending' \in {pending, [pending EXCEPT ![c] = {}]}
       /\ call[r] = "queued"
    \/ /\ Moved(c, pending[c])
       /\ pending' = [pending EXCEPT ![c] = {}]

LEMMA ServeMovesRows ==
    ASSUME TypeOK, OffInv, NEW r \in Reqs, Serve(r) \/ Panic(r)
    PROVE  ServeRows(r, at[r])
<1> DEFINE c == at[r]
<1>1. c \in Containers /\ StorageTypeOK /\ pending \in [Containers -> Transactions]
    BY DEF TypeOK
<1>2. ASSUME NEW txn, Commit(r, txn)
      PROVE  Copied(c) \/ Moved(c, txn)
    BY <1>1, <1>2, StorageCopies, CommitMoves DEF Commit
<1>3. CASE RunWrite(r)
    BY <1>2, <1>3 DEF RunWrite, dbVars, ServeRows, Runs, MayRun, MayLock
<1>4. CASE RunCommit(r)
    BY <1>2, <1>4 DEF RunCommit, ServeRows
<1>5. CASE WriteKeptButFails(r)
  <2>1. call[r] = "queued"
      BY <1>5 DEF WriteKeptButFails, Runs, MayRun, MayLock
  <2>2. CASE inTxn[c]
      BY <1>5, <2>1, <2>2 DEF WriteKeptButFails, storageVars, ServeRows
  <2>3. CASE ~inTxn[c]
      BY <1>2, <1>5, <2>1, <2>3 DEF WriteKeptButFails, ServeRows
  <2> QED BY <2>2, <2>3
<1>6. CASE CommitFails(r)
  <2>1. call[r] = "queued" /\ pending' = [pending EXCEPT ![c] = {}]
      BY <1>6 DEF CommitFails, Runs, MayRun, MayLock
  <2>2. FailedCommit(c, pending[c], Syncs(c)) \/ FailedCommit(c, {r}, Syncs(c))
      BY <1>6 DEF CommitFails
  <2> QED BY <1>1, <2>1, <2>2, CommitMoves DEF ServeRows
<1>7. CASE \/ ClientCheckpointFails(r)
           \/ \E mode \in Modes, busy \in BOOLEAN : RunClientCheckpoint(r, mode, busy)
    BY <1>1, <1>7, StorageCopies DEF ClientCheckpointFails, RunClientCheckpoint, dbVars, ServeRows
<1>8. CASE FinishCheckpoint(r)
  <2>1. CheckpointMode \in Modes
      BY <1>8, SqliteDbAssumption
         DEF SqliteDbAssumption, Modes, OffInv, FinishCheckpoint, RunCheckpoint, CheckpointFails
  <2> QED BY <1>1, <1>8, <2>1, StorageCopies
          DEF FinishCheckpoint, RunCheckpoint, CheckpointFails, PragmaArg, dbVars, ServeRows
<1>9. CASE RunWriteInTxn(r)
    BY <1>9 DEF RunWriteInTxn, Runs, MayRun, MayLock, storageVars, ServeRows
<1>10. CASE \/ StatementFails(r) \/ RunNoWrite(r) \/ WriteAbortsTxn(r) \/ RunBegin(r)
            \/ RunRollback(r) \/ LockPoisoned(r) \/ Panic(r)
    BY <1>10 DEF StatementFails, RunNoWrite, WriteAbortsTxn, RunBegin, RunRollback, LockPoisoned,
                 Panic, storageVars, dbVars, Copied, ServeRows
<1> QED BY <1>3, <1>4, <1>5, <1>6, <1>7, <1>8, <1>9, <1>10 DEF Serve, RunStatement

-----------------------------------------------------------------------------
(* No write is applied twice.                                              *)

\* The writes in a log, of S3 or of a container.
Applied == Contents(store) \cup UNION {Contents(db[c]) : c \in Containers}

LEMMA ContentsOfAppend ==
    ASSUME NEW s \in Seq(Transactions), NEW txn \in Transactions
    PROVE  Contents(Append(s, txn)) = Contents(s) \cup txn
<1>1. Len(Append(s, txn)) = Len(s) + 1 /\ Len(s) \in Nat
    BY DEF Transactions
<1>2. \A i \in 1..Len(s) : Append(s, txn)[i] = s[i]
    BY DEF Transactions
<1>3. Append(s, txn)[Len(s) + 1] = txn
    BY DEF Transactions
<1>4. 1..(Len(s) + 1) = (1..Len(s)) \cup {Len(s) + 1}
    BY <1>1
<1> QED BY <1>1, <1>2, <1>3, <1>4 DEF Contents

LEMMA OnceAppend ==
    ASSUME NEW s \in Seq(Transactions), NEW txn \in Transactions, Once(s),
           txn \cap Contents(s) = {}
    PROVE  Once(Append(s, txn))
<1>1. Len(Append(s, txn)) = Len(s) + 1 /\ Len(s) \in Nat
    BY DEF Transactions
<1>2. \A i \in 1..Len(s) : Append(s, txn)[i] = s[i] /\ s[i] \cap txn = {}
    BY DEF Transactions, Contents
<1>3. Append(s, txn)[Len(s) + 1] = txn
    BY DEF Transactions
<1>4. 1..(Len(s) + 1) = (1..Len(s)) \cup {Len(s) + 1}
    BY <1>1
<1> QED BY <1>1, <1>2, <1>3, <1>4 DEF Once

LEMMA OncePrefix ==
    ASSUME NEW s \in Seq(Transactions), NEW t \in Seq(Transactions), IsPrefixOf(s, t), Once(t)
    PROVE  Once(s)
BY DEF IsPrefixOf, Once

LogsOnce == Once(store) /\ \A c \in Containers : Once(db[c])

LEMMA MovedOnce ==
    ASSUME StorageTypeOK, LogsOnce, NEW c \in Containers, NEW txn \in Transactions,
           \/ Copied(c)
           \/ Moved(c, txn) /\ txn \cap Contents(db[c]) = {}
    PROVE  /\ LogsOnce'
           /\ Copied(c) => Applied' \subseteq Applied
           /\ Applied' \subseteq Applied \cup txn
<1>1. /\ store \in Seq(Transactions) /\ db \in [Containers -> Seq(Transactions)]
      /\ Uploaded(c) \in Seq(Transactions) /\ IsPrefixOf(Uploaded(c), db[c])
    BY UploadedPrefix DEF StorageTypeOK, IsPrefixOf
<1>2. Once(Uploaded(c)) /\ Contents(Uploaded(c)) \subseteq Contents(db[c])
    BY <1>1, OncePrefix, ContentsOfPrefix DEF LogsOnce
<1>3. Contents(Append(db[c], txn)) = Contents(db[c]) \cup txn
    BY <1>1, ContentsOfAppend
<1>4. CASE Copied(c)
  <2>1. /\ Once(store')
        /\ Contents(store') \subseteq Contents(store) \cup Contents(db[c])
      BY <1>2, <1>4 DEF Copied, LogsOnce
  <2>2. ASSUME NEW d \in Containers
        PROVE  Once(db'[d]) /\ Contents(db'[d]) \subseteq Contents(store) \cup Contents(db[d])
    <3>1. db'[d] \in {db[d], store}
        BY <1>1, <1>4 DEF Copied
    <3> QED BY <3>1 DEF LogsOnce
  <2> QED BY <2>1, <2>2 DEF LogsOnce, Applied
<1>5. CASE Moved(c, txn) /\ txn \cap Contents(db[c]) = {}
  <2>1. Once(Append(db[c], txn))
      BY <1>1, <1>5, OnceAppend DEF LogsOnce
  <2>2. /\ Once(store')
        /\ Contents(store') \subseteq Contents(store) \cup Contents(db[c]) \cup txn
      BY <1>2, <1>3, <1>5, <2>1 DEF Moved, LogsOnce
  <2>3. ASSUME NEW d \in Containers
        PROVE  /\ Once(db'[d])
               /\ Contents(db'[d]) \subseteq Contents(store) \cup Contents(db[d]) \cup txn
    <3>1. db'[d] \in {db[d], store} \/ (d = c /\ db'[d] = Append(db[c], txn))
        BY <1>1, <1>5 DEF Moved
    <3> QED BY <1>3, <2>1, <3>1 DEF LogsOnce
  <2>4. LogsOnce' /\ Applied' \subseteq Applied \cup txn
      BY <2>2, <2>3 DEF LogsOnce, Applied
  <2>5. Copied(c) => Applied' \subseteq Applied
      BY <1>4
  <2> QED BY <2>4, <2>5
<1> QED BY <1>4, <1>5

\* A transaction's writes are in no log, and in no other transaction; a call
\* that has yet to run wrote nothing.
OnceInv ==
    /\ LogsOnce
    /\ \A c \in Containers : pending[c] \cap Applied = {}
    /\ \A c, d \in Containers : c # d => pending[c] \cap pending[d] = {}
    /\ \A r \in Reqs : call[r] \in {"idle", "queued"} =>
          r \notin Applied /\ \A c \in Containers : r \notin pending[c]

LEMMA OnceStep ==
    ASSUME TypeOK, OffInv, OnceInv, [Next]_vars
    PROVE  OnceInv'
<1>1. StorageTypeOK /\ pending \in [Containers -> Transactions] /\ LogsOnce
    BY DEF TypeOK, OnceInv
<1>2. ASSUME NEW c \in Containers, Copied(c),
             pending' \in {pending, [pending EXCEPT ![c] = {}]},
             \A q \in Reqs : call'[q] \in {"idle", "queued"} => call[q] \in {"idle", "queued"}
      PROVE  OnceInv'
  <2>1. LogsOnce' /\ Applied' \subseteq Applied
    <3>1. {} \in Transactions
        BY DEF Transactions
    <3> QED BY <1>1, <1>2, <3>1, MovedOnce
  <2>2. \A d \in Containers : pending'[d] \subseteq pending[d]
      BY <1>1, <1>2
  <2> QED BY <1>2, <2>1, <2>2 DEF OnceInv
<1>3. CASE \E c \in Containers : Open(c) \/ Crash(c) \/ AutoCheckpoint(c) \/ OtherConnection(c)
  <2>1. PICK c \in Containers : Open(c) \/ Crash(c) \/ AutoCheckpoint(c) \/ OtherConnection(c)
      BY <1>3
  <2>2. Copied(c)
      BY <1>1, <2>1, StorageCopies
         DEF Open, ColdOpen, WarmOpen, Crash, AutoCheckpoint, OtherConnection, Modes
  <2>3. pending' \in {pending, [pending EXCEPT ![c] = {}]}
      BY <2>1 DEF Open, ColdOpen, WarmOpen, Connect, Crash, AutoCheckpoint, OtherConnection, dbVars
  <2>4. \A q \in Reqs : call'[q] \in {"idle", "queued"} => call[q] \in {"idle", "queued"}
      BY <2>1 DEF Open, ColdOpen, WarmOpen, Connect, Crash, AutoCheckpoint, OtherConnection,
                  callVars, TypeOK
  <2> QED BY <1>2, <2>2, <2>3, <2>4
<1>4. CASE \/ \E r \in Reqs, c \in Containers, kind \in KindsSent : Submit(r, c, kind)
           \/ UNCHANGED vars
  <2>1. /\ UNCHANGED <<store, db, pending>>
        /\ \A q \in Reqs : call'[q] \in {"idle", "queued"} => call[q] \in {"idle", "queued"}
      BY <1>4 DEF Submit, vars, storageVars, dbVars, TypeOK
  <2> QED BY <2>1 DEF OnceInv, LogsOnce, Applied
<1>5. CASE \E r \in Reqs : Serve(r) \/ Panic(r)
  <2>1. PICK r \in Reqs : Serve(r) \/ Panic(r)
      BY <1>5
  <2> DEFINE c == at[r]
  <2>2. /\ c \in Containers /\ {r} \in Transactions /\ pending[c] \in Transactions
        /\ call'[r] \notin {"idle", "queued"}
        /\ \A q \in Reqs : q # r => call'[q] = call[q]
      BY <1>1, <2>1, ServeFrame DEF TypeOK, Transactions
  <2>3. ServeRows(r, c)
      BY <2>1, ServeMovesRows
  <2> HIDE DEF c
  <2>4. CASE Copied(c) /\ pending' \in {pending, [pending EXCEPT ![c] = {}]}
      BY <1>2, <2>2, <2>4
  <2>5. CASE /\ UNCHANGED <<store, db>> /\ call[r] = "queued"
             /\ pending' = [pending EXCEPT ![c] = @ \cup {r}]
    <3>1. LogsOnce' /\ Applied' = Applied
        BY <1>1, <2>5 DEF LogsOnce, Applied
    <3>2. r \notin Applied /\ \A d \in Containers : r \notin pending[d]
        BY <2>5 DEF OnceInv
    <3>3. \A d \in Containers : pending'[d] = IF d = c THEN pending[d] \cup {r} ELSE pending[d]
        BY <1>1, <2>2, <2>5
    <3>4. \A d \in Containers : pending'[d] \cap Applied' = {}
        BY <3>1, <3>2, <3>3 DEF OnceInv
    <3>5. \A d, e \in Containers : d # e => pending'[d] \cap pending'[e] = {}
      <4> SUFFICES ASSUME NEW d \in Containers, NEW e \in Containers, d # e
                   PROVE  pending'[d] \cap pending'[e] = {}
          OBVIOUS
      <4>1. pending[d] \cap pending[e] = {} /\ r \notin pending[d] /\ r \notin pending[e]
          BY <3>2 DEF OnceInv
      <4> QED BY <3>3, <4>1
    <3>6. ASSUME NEW q \in Reqs, call'[q] \in {"idle", "queued"}
          PROVE  q \notin Applied' /\ \A d \in Containers : q \notin pending'[d]
      <4>1. q # r /\ call[q] \in {"idle", "queued"}
          BY <2>2, <3>6
      <4>2. q \notin Applied /\ \A d \in Containers : q \notin pending[d]
          BY <4>1 DEF OnceInv
      <4> QED BY <3>1, <3>3, <4>1, <4>2
    <3> QED BY <3>1, <3>4, <3>5, <3>6 DEF OnceInv
  <2>6. CASE /\ Moved(c, {r}) /\ call[r] = "queued"
             /\ pending' \in {pending, [pending EXCEPT ![c] = {}]}
    <3>1. r \notin Applied /\ \A d \in Containers : r \notin pending[d]
        BY <2>6 DEF OnceInv
    <3>2. {r} \cap Contents(db[c]) = {}
        BY <2>2, <3>1 DEF Applied
    <3>3. LogsOnce' /\ Applied' \subseteq Applied \cup {r}
        BY <1>1, <2>2, <2>6, <3>2, MovedOnce
    <3>4. \A d \in Containers : pending'[d] \subseteq pending[d]
        BY <1>1, <2>6
    <3> QED BY <2>2, <3>1, <3>3, <3>4 DEF OnceInv
  <2>7. CASE Moved(c, pending[c]) /\ pending' = [pending EXCEPT ![c] = {}]
    <3>1. pending[c] \cap Contents(db[c]) = {}
        BY <2>2 DEF OnceInv, Applied
    <3>2. LogsOnce' /\ Applied' \subseteq Applied \cup pending[c]
        BY <1>1, <2>2, <2>7, <3>1, MovedOnce
    <3>3. \A d \in Containers : pending'[d] = IF d = c THEN {} ELSE pending[d]
        BY <1>1, <2>2, <2>7
    <3>4. /\ \A d \in Containers : pending'[d] \cap Applied' = {}
          /\ \A d, e \in Containers : d # e => pending'[d] \cap pending'[e] = {}
        BY <2>2, <3>2, <3>3 DEF OnceInv
    <3>5. \A q \in Reqs : call'[q] \in {"idle", "queued"} =>
              q \notin Applied' /\ \A d \in Containers : q \notin pending'[d]
        BY <2>2, <3>2, <3>3 DEF OnceInv
    <3> QED BY <3>2, <3>4, <3>5 DEF OnceInv
  <2> QED BY <2>3, <2>4, <2>5, <2>6, <2>7 DEF ServeRows
<1> QED BY <1>3, <1>4, <1>5 DEF Next

LEMMA OnceInit == Init => OnceInv
BY DEF Init, StorageInit, OnceInv, LogsOnce, Once, Applied, Contents

THEOREM OnceInvariant == Spec => []OnceInv
<1>1. TypeOK /\ OffInv /\ OnceInv /\ [Next]_vars => OnceInv' /\ OffInv'
  <2> SUFFICES ASSUME TypeOK, OffInv, OnceInv, [Next]_vars PROVE OnceInv' /\ OffInv'
      OBVIOUS
  <2>1. OffInv'
      BY NextTyped DEF TypeOK, ConnTypeOK, OffInv, vars
  <2> QED BY <2>1, OnceStep
<1>2. Init => OnceInv /\ OffInv
    BY OnceInit DEF Init, OffInv
<1> QED BY <1>1, <1>2, TypeCorrect, PTL DEF Spec

\* No retry, lost reply, crash or recovery applies a write a second time, and
\* no checkpoint flushes one that is not committed: under any configuration.
THEOREM WritesAreAppliedOnce == Spec => []AppliedOnce
<1>1. OnceInv => AppliedOnce
    BY DEF OnceInv, LogsOnce, Applied, AppliedOnce
<1> QED BY <1>1, OnceInvariant, PTL

=============================================================================
