------------------------------ MODULE SqliteDb ------------------------------
(***************************************************************************)
(* SqliteDb of src/db.rs: one SQLite connection per container, behind a    *)
(* mutex, shared by every /sql call.  exec_durable takes the mutex, runs   *)
(* the statement, and while still holding it runs wal_checkpoint when the  *)
(* statement left the connection in autocommit and either wrote or closed  *)
(* an explicit transaction.  Only then is the call answered.               *)
(*                                                                         *)
(* A call goes idle -> queued (a blocking task waiting for the mutex) ->   *)
(* checkpoint (statement done, mutex held) -> an answer.  A statement that *)
(* needs no checkpoint is run and answered in one step, since nothing else *)
(* can reach the connection in between.                                    *)
(***************************************************************************)
EXTENDS Turbolite, Statements

CONSTANTS CheckpointMode,  \* RUSTYHIP_CHECKPOINT_MODE
          Synchronous,     \* RUSTYHIP_SYNCHRONOUS
          Unwind,          \* does a panic unwind, or abort the process?
          KindsSent        \* the kinds of statement clients send

ASSUME SqliteDbAssumption ==
    /\ CheckpointMode \in Modes \cup {"off"}
    /\ Synchronous \in {"off", "normal", "full", "extra"}
    /\ Unwind \in BOOLEAN
    /\ KindsSent \subseteq Kinds

VARIABLES inTxn,     \* inTxn[c]: not is_autocommit()
          pending,   \* pending[c]: writes of the open transaction
          conf,      \* conf[c]: what client statements changed of the connection
          poisoned,  \* poisoned[c]: a panic unwound while the mutex was held
          call,      \* call[r]: where the call is, and its answer once it has one
          stmt,      \* stmt[r]: the kind of its statement
          at,        \* at[r]: the container that got it
          commits    \* commits[r]: the writes its statement committed

dbVars == <<inTxn, pending, conf, poisoned>>
callVars == <<call, stmt, at, commits>>
vars == <<store, etag, mounted, held, db, synced, reader,
          inTxn, pending, conf, poisoned, call, stmt, at, commits>>

\* ok is Ok(outcome); sql, checkpoint_error and internal are the variants of
\* ExecError; lost is a call whose process died before it answered.
Answers == {"ok", "sql", "checkpoint_error", "internal", "lost"}
CallStates == {"idle", "queued", "checkpoint"} \cup Answers

TypeOK ==
    /\ StorageTypeOK
    /\ inTxn \in [Containers -> BOOLEAN]
    /\ pending \in [Containers -> Transactions]
    /\ conf \in [Containers -> SUBSET Kinds]
    /\ poisoned \in [Containers -> BOOLEAN]
    /\ call \in [Reqs -> CallStates]
    /\ stmt \in [Reqs -> Kinds]
    /\ at \in [Reqs -> Containers]
    /\ commits \in [Reqs -> Transactions]

Init ==
    /\ StorageInit
    /\ inTxn = [c \in Containers |-> FALSE]
    /\ pending = [c \in Containers |-> {}]
    /\ conf = [c \in Containers |-> {}]
    /\ poisoned = [c \in Containers |-> FALSE]
    /\ call = [r \in Reqs |-> "idle"]
    /\ stmt = [r \in Reqs |-> "select"]
    /\ at \in {[r \in Reqs |-> c] : c \in Containers}
    /\ commits = [r \in Reqs |-> {}]

-----------------------------------------------------------------------------
(* The connection and its mutex.                                           *)

\* Mutant: the guard is dropped before the checkpoint.
ConnUnlocked(c) == FALSE

\* The guard taken in exec_durable lives until its checkpoint is over.
ConnLocked(c) == \E r \in Reqs : call[r] = "checkpoint" /\ at[r] = c

\* xSync reaches the VFS: neither bootstrap nor a client turned it off.
Syncs(c) == Synchronous # "off" /\ "synchronous_off" \notin conf[c]

\* The task of r can take the mutex of its container.
MayLock(r) ==
    /\ call[r] = "queued"
    /\ mounted[at[r]]
    /\ ~ConnLocked(at[r])

\* Mutant: a poisoned mutex is entered all the same (into_inner).
MayRunPoisoned(r) == MayLock(r)

MayRun(r) == MayLock(r) /\ ~poisoned[at[r]]

\* Preparing the statement of r asks the authorizer first.
Runs(r, kinds) ==
    /\ MayRun(r)
    /\ stmt[r] \in kinds
    /\ Authorized(stmt[r])

Answer(r, a) ==
    /\ call' = [call EXCEPT ![r] = a]
    /\ UNCHANGED <<stmt, at>>

\* Mutant: the readonly flag alone decides (the regression of issue #17).
NeedsCheckpointIfWrote(autocommit, readonly, wasInTxn) == autocommit /\ ~readonly

NeedsCheckpoint(autocommit, readonly, wasInTxn) ==
    autocommit /\ (~readonly \/ wasInTxn)

\* After the statement ran: flush before the answer, or answer at once.
Proceed(r, wasInTxn, nowInTxn) ==
    Answer(r, IF /\ NeedsCheckpoint(~nowInTxn, Statement[stmt[r]].readonly, wasInTxn)
                 /\ CheckpointMode # "off"
              THEN "checkpoint" ELSE "ok")

\* Commit txn on c on behalf of r.  An attached database bypasses the VFS.
Commit(r, txn) ==
    LET c == at[r] IN
    /\ IF txn = {} \/ "attach" \in conf[c]
       THEN UNCHANGED storageVars
       ELSE CommitTxn(c, txn, Syncs(c))
    /\ commits' = [commits EXCEPT ![r] = txn]

-----------------------------------------------------------------------------
(* The life of a container.                                                *)

Connect(c) ==
    /\ inTxn' = [inTxn EXCEPT ![c] = FALSE]
    /\ pending' = [pending EXCEPT ![c] = {}]
    /\ conf' = [conf EXCEPT ![c] = {}]
    /\ poisoned' = [poisoned EXCEPT ![c] = FALSE]
    /\ UNCHANGED callVars

ColdOpen(c) == ColdStart(c) /\ Connect(c)
WarmOpen(c) == WarmStart(c) /\ Connect(c)

\* The process dies, between any two steps: evicted, timed out or aborted.
Crash(c) ==
    /\ mounted[c]
    /\ Unmount(c)
    /\ call' = [r \in Reqs |-> IF at[r] = c /\ call[r] \in {"queued", "checkpoint"}
                               THEN "lost" ELSE call[r]]
    /\ UNCHANGED <<inTxn, pending, conf, poisoned, stmt, at, commits>>

-----------------------------------------------------------------------------
(* A call.                                                                 *)

\* The handler reached exec_durable, which spawned the blocking task.
Submit(r, c, kind) ==
    /\ call[r] = "idle"
    /\ mounted[c]
    /\ call' = [call EXCEPT ![r] = "queued"]
    /\ stmt' = [stmt EXCEPT ![r] = kind]
    /\ at' = [at EXCEPT ![r] = c]
    /\ UNCHANGED <<storageVars, dbVars, commits>>

\* Mutant: the task waits for a poisoned mutex for ever.
LockPoisonedWaits(r) == FALSE

LockPoisoned(r) ==
    /\ MayLock(r)
    /\ poisoned[at[r]]
    /\ Answer(r, "internal")
    /\ UNCHANGED <<storageVars, dbVars, commits>>

\* Any statement may fail without effect: not authorized, a syntax or schema
\* error, a bad parameter, a SELECT over MAX_ROWS or out of time, BEGIN inside
\* a transaction, COMMIT outside one, wal_checkpoint inside one.
StatementFails(r) ==
    /\ MayRun(r)
    /\ Answer(r, "sql")
    /\ UNCHANGED <<storageVars, dbVars, commits>>

\* Statements that touch no row.  Only the policy keeps a client from those
\* that reconfigure the connection.
RunNoWrite(r) ==
    LET c == at[r] IN
    /\ Runs(r, {"select", "table_info", "journal_mode", "attach", "synchronous_off"})
    /\ conf' = [conf EXCEPT ![c] = IF Reconfigures(stmt[r]) THEN @ \cup {stmt[r]} ELSE @]
    /\ Proceed(r, inTxn[c], inTxn[c])
    /\ UNCHANGED <<storageVars, inTxn, pending, poisoned, commits>>

\* An INSERT, UPDATE, DELETE or DDL statement that succeeds.
RunWriteInTxn(r) ==
    LET c == at[r] IN
    /\ Runs(r, {"write"})
    /\ inTxn[c]
    /\ pending' = [pending EXCEPT ![c] = @ \cup {r}]
    /\ Proceed(r, TRUE, TRUE)
    /\ UNCHANGED <<storageVars, inTxn, conf, poisoned, commits>>

RunWrite(r) ==
    /\ Runs(r, {"write"})
    /\ ~inTxn[at[r]]
    /\ Commit(r, {r})
    /\ Proceed(r, FALSE, FALSE)
    /\ UNCHANGED dbVars

\* A write that keeps its rows and is answered with an error: INSERT ...
\* RETURNING past MAX_ROWS, or with a column that cannot be read (SQLite commits
\* when the statement is reset), or a constraint failure under OR FAIL.  `?` returns before the checkpoint.
WriteKeptButFails(r) ==
    LET c == at[r] IN
    /\ Runs(r, {"write"})
    /\ IF inTxn[c]
       THEN /\ pending' = [pending EXCEPT ![c] = @ \cup {r}]
            /\ UNCHANGED <<storageVars, commits>>
       ELSE /\ Commit(r, {r})
            /\ UNCHANGED pending
    /\ Answer(r, "sql")
    /\ UNCHANGED <<inTxn, conf, poisoned>>

\* A write interrupted by the query timeout, OR ROLLBACK, or a full disk
\* rolls back the whole transaction, whoever's writes it carries.
WriteAbortsTxn(r) ==
    LET c == at[r] IN
    /\ Runs(r, {"write"})
    /\ inTxn[c]
    /\ inTxn' = [inTxn EXCEPT ![c] = FALSE]
    /\ pending' = [pending EXCEPT ![c] = {}]
    /\ Answer(r, "sql")
    /\ UNCHANGED <<storageVars, conf, poisoned, commits>>

\* With a rollback journal a commit can fail in its xSync.  The error rolls
\* the whole transaction back and is a statement error like any other.
\* Mutant: the error is lost, and the rows are reported.
CommitFailsUnnoticed(r) ==
    /\ Runs(r, {"write"})
    /\ ~inTxn[at[r]]
    /\ FailedCommit(at[r], {r}, Syncs(at[r]))
    /\ commits' = [commits EXCEPT ![r] = {r}]
    /\ Proceed(r, FALSE, FALSE)
    /\ UNCHANGED dbVars

CommitFails(r) ==
    LET c == at[r]
        txn == IF stmt[r] = "commit" THEN pending[c] ELSE {r} IN
    /\ Runs(r, {"write", "commit"})
    /\ inTxn[c] <=> stmt[r] = "commit"
    /\ txn # {}
    /\ FailedCommit(c, txn, Syncs(c))
    /\ inTxn' = [inTxn EXCEPT ![c] = FALSE]
    /\ pending' = [pending EXCEPT ![c] = {}]
    /\ Answer(r, "sql")
    /\ UNCHANGED <<conf, poisoned, commits>>

RunBegin(r) ==
    LET c == at[r] IN
    /\ Runs(r, {"begin"})
    /\ ~inTxn[c]
    /\ inTxn' = [inTxn EXCEPT ![c] = TRUE]
    /\ Proceed(r, FALSE, TRUE)
    /\ UNCHANGED <<storageVars, pending, conf, poisoned, commits>>

RunCommit(r) ==
    LET c == at[r] IN
    /\ Runs(r, {"commit"})
    /\ inTxn[c]
    /\ Commit(r, pending[c])
    /\ inTxn' = [inTxn EXCEPT ![c] = FALSE]
    /\ pending' = [pending EXCEPT ![c] = {}]
    /\ Proceed(r, TRUE, FALSE)
    /\ UNCHANGED <<conf, poisoned>>

RunRollback(r) ==
    LET c == at[r] IN
    /\ Runs(r, {"rollback"})
    /\ inTxn[c]
    /\ inTxn' = [inTxn EXCEPT ![c] = FALSE]
    /\ pending' = [pending EXCEPT ![c] = {}]
    /\ Proceed(r, TRUE, FALSE)
    /\ UNCHANGED <<storageVars, conf, poisoned, commits>>

\* A client's own PRAGMA wal_checkpoint.  Its busy column is a result row
\* like any other; an error of it is a statement error.
RunClientCheckpoint(r, mode, busy) ==
    LET c == at[r] IN
    /\ Runs(r, {"wal_checkpoint"})
    /\ ~inTxn[c]
    /\ WalCheckpoint(c, mode, Syncs(c), busy)
    /\ Proceed(r, FALSE, FALSE)
    /\ UNCHANGED <<dbVars, commits>>

ClientCheckpointFails(r) ==
    /\ Runs(r, {"wal_checkpoint"})
    /\ ~inTxn[at[r]]
    /\ FailedCheckpoint(at[r], Syncs(at[r]))
    /\ Answer(r, "sql")
    /\ UNCHANGED <<dbVars, commits>>

-----------------------------------------------------------------------------
(* The checkpoint before the answer, still under the mutex.  SQLite locks  *)
(* a checkpoint out while the connection has a transaction open.           *)

\* CheckpointMode::as_pragma_arg; "off" runs no checkpoint.
\* Mutant: the mode is ignored.
PragmaArgPassive == "passive"
PragmaArg == CheckpointMode

\* What the answer makes of the row, or the error, of PRAGMA wal_checkpoint.
\* Mutants: the busy column is not looked at; an error is only logged; an error
\* is handed on as it is, and not as a variant of ExecError; after an error the
\* call, and not only its checkpoint, is run again.
AnswerIgnoringBusy(stats) == IF stats = "error" THEN "checkpoint_error" ELSE "ok"
AnswerIgnoringErrors(stats) == IF stats = "busy" THEN "checkpoint_error" ELSE "ok"
AnswerAsReported(stats) == IF stats = "done" THEN "ok" ELSE stats
AnswerByRetry(stats) == IF stats = "done" THEN "ok" ELSE "queued"
AnswerOf(stats) == IF stats = "done" THEN "ok" ELSE "checkpoint_error"

RunCheckpoint(r, busy) ==
    LET c == at[r] IN
    /\ call[r] = "checkpoint"
    /\ ~inTxn[c]
    /\ WalCheckpoint(c, PragmaArg, Syncs(c), busy)
    /\ Answer(r, AnswerOf(IF busy THEN "busy" ELSE "done"))
    /\ UNCHANGED <<dbVars, commits>>

CheckpointFails(r) ==
    LET c == at[r] IN
    /\ call[r] = "checkpoint"
    /\ IF inTxn[c] THEN UNCHANGED storageVars ELSE FailedCheckpoint(c, Syncs(c))
    /\ Answer(r, AnswerOf("error"))
    /\ UNCHANGED <<dbVars, commits>>

\* SQLite's own checkpoint, which it runs after a commit that leaves 1000
\* pages in the WAL.  It is passive, and SQLite ignores its outcome.  Here
\* it may happen whenever no transaction is open.  Its failures are left out:
\* CheckpointFails has the same outcomes.
AutoCheckpoint(c) ==
    /\ mounted[c]
    /\ ~inTxn[c]
    /\ synced[c] < SafeFrame(c)
    /\ WalCheckpoint(c, "passive", Syncs(c), FALSE)
    /\ UNCHANGED <<dbVars, callVars>>

\* The blocking task panics with the guard alive.  In an unwinding build the
\* mutex is poisoned; with panic = "abort" the process dies, which is Crash.
Panic(r) ==
    LET c == at[r] IN
    /\ Unwind
    /\ MayRun(r) \/ call[r] = "checkpoint"
    /\ poisoned' = [poisoned EXCEPT ![c] = TRUE]
    /\ Answer(r, "internal")
    /\ UNCHANGED <<storageVars, inTxn, pending, conf, commits>>

-----------------------------------------------------------------------------

RunStatement(r) ==
    \/ StatementFails(r)
    \/ RunNoWrite(r)
    \/ RunWriteInTxn(r)
    \/ RunWrite(r)
    \/ WriteKeptButFails(r)
    \/ WriteAbortsTxn(r)
    \/ CommitFails(r)
    \/ RunBegin(r)
    \/ RunCommit(r)
    \/ RunRollback(r)
    \/ \E mode \in Modes, busy \in BOOLEAN : RunClientCheckpoint(r, mode, busy)
    \/ ClientCheckpointFails(r)

FinishCheckpoint(r) ==
    \/ \E busy \in BOOLEAN : RunCheckpoint(r, busy)
    \/ CheckpointFails(r)

\* The steps of the blocking task of r.
Serve(r) == LockPoisoned(r) \/ RunStatement(r) \/ FinishCheckpoint(r)

Open(c) == ColdOpen(c) \/ WarmOpen(c)

OtherConnection(c) ==
    /\ ReaderBegin(c) \/ ReaderEnd(c)
    /\ UNCHANGED <<dbVars, callVars>>

Next ==
    \/ \E c \in Containers : \/ Open(c)
                             \/ Crash(c)
                             \/ AutoCheckpoint(c)
                             \/ OtherConnection(c)
    \/ \E r \in Reqs : \/ \E c \in Containers, kind \in KindsSent : Submit(r, c, kind)
                       \/ Serve(r)
                       \/ Panic(r)

Spec == Init /\ [][Next]_vars

\* The runtime schedules every blocking task that can run, and std's Mutex is
\* granted to one of the tasks waiting for it whenever it is free.
FairSpec == Spec /\ \A r \in Reqs : WF_vars(Serve(r))

-----------------------------------------------------------------------------
(* Properties.                                                             *)

\* The writes some call was told are committed.
Promised == UNION {commits[r] : r \in {q \in Reqs : call[q] = "ok"}}

\* A write whose call, or whose COMMIT, was answered 200 is in S3: no crash,
\* restart, lost reply, failed checkpoint or other client takes it back.
AckedDurable == Promised \subseteq Contents(store)

\* A container that serves calls shows every write acknowledged so far, by
\* whichever container: what ReservedConcurrentExecutions = 1 is needed for.
ServesEveryAck == \A c \in Containers : mounted[c] => Promised \subseteq Contents(db[c])

Once(log) == \A i, j \in 1..Len(log) : i # j => log[i] \cap log[j] = {}

\* No write is applied twice, whether its call failed in its checkpoint, its
\* reply was lost or its container died and recovered it from a WAL; and what
\* an open transaction wrote is neither committed nor in S3.
AppliedOnce ==
    /\ Once(store)
    /\ \A c \in Containers : mounted[c] =>
          /\ Once(db[c])
          /\ pending[c] \cap (Contents(db[c]) \cup Contents(store)) = {}

\* The checkpoint of a call meets no open transaction and no other checkpoint,
\* so SQLite never locks it out: the reason for keeping the mutex across both.
CheckpointUndisturbed ==
    \A r \in Reqs : call[r] = "checkpoint" =>
        /\ ~inTxn[at[r]]
        /\ \A q \in Reqs : call[q] = "checkpoint" /\ at[q] = at[r] => q = r

\* Nothing a client sends changes the configuration bootstrap chose.
ConnectionKeepsConf == \A c \in Containers : conf[c] = {}

\* The answer to a call that went through its checkpoint is a barrier: all
\* the connection shows by then is in S3, what earlier failed calls left too.
AckFlushesAll ==
    [][\A r \in Reqs : call[r] = "checkpoint" /\ call'[r] = "ok"
                         => IsPrefixOf(db'[at[r]], store')]_vars

\* Where readers hold frames back from a PASSIVE checkpoint, which says
\* nothing of it, the answer is a barrier for all the readers let it copy.
AckFlushesUpToReaders ==
    [][\A r \in Reqs : call[r] = "checkpoint" /\ call'[r] = "ok"
                         => IsPrefixOf(Uploaded(at[r])', store')]_vars

\* No PUT drops a transaction the manifest held: writers never overwrite each
\* other silently.
ManifestOnlyGrows == [][IsPrefixOf(store, store')]_vars

\* After a panic poisoned the mutex, no call the container still has, and none
\* it gets until it is restarted, is ever answered 200, on whichever way it
\* takes to its answer: at once, through its checkpoint or past a crash.
PoisonedNeverAcks ==
    \A r \in Reqs :
        [](poisoned[at[r]] /\ call[r] \in {"queued", "checkpoint"}
             => [](call[r] # "ok"))

\* All of it together: rustyhip is an append-only log of transactions that
\* holds every acknowledged write.  The abstract log is the manifest's, and a
\* promise is an answer 200.
Abstract == INSTANCE DurableLog WITH Writes <- Reqs, log <- store, promised <- Promised

ImplementsDurableLog == Abstract!Spec

\* README.md:246 and db.rs:186 say the checkpoint runs for every call that
\* leaves durable work in the WAL.
DurableWorkIsCheckpointed ==
    [][\A r \in Reqs : call[r] = "queued" /\ commits'[r] # commits[r]
                         => call'[r] = "checkpoint"]_vars

\* Every call handed to exec_durable is answered, or dies with its process.
EveryCallAnswered == \A r \in Reqs : call[r] = "queued" ~> call[r] \in Answers

-----------------------------------------------------------------------------
(* The inductive invariant behind AckedDurable, by parts.  It holds of the *)
(* configurations below; Spec alone allows weaker ones.                    *)

\* Checkpoints run, they reach S3, and no two containers write over each other.
Flushing ==
    /\ CheckpointMode # "off"
    /\ Synchronous # "off"
    /\ NoOverwrite

\* Besides, a checkpoint copies every frame or says that it did not.
Durable == Flushing /\ (CheckpointMode = "passive" => ~Readers)

\* A call committed nothing before its statement ran, and what it committed
\* waits for the checkpoint on the connection it ran on.
CallInv ==
    \A r \in Reqs :
        /\ call[r] \in {"idle", "queued"} => commits[r] = {}
        /\ call[r] = "checkpoint" =>
              mounted[at[r]] /\ commits[r] \subseteq Contents(db[at[r]])

FlushInv ==
    /\ TypeOK
    /\ ConnectionKeepsConf
    /\ StorageInv
    /\ CallInv

DurableInv == FlushInv /\ AckedDurable

=============================================================================
