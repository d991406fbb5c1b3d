# rustyhip in TLA+

rustyhip serves SQL over HTTP from AWS Lambda. One SQLite connection per
container sits on the turbolite VFS, whose pages live in S3. This directory
holds TLA+ specifications of that program, TLC configurations that check them on
small instances, and TLAPS proofs for every value of the constants.

Source references are relative to the repository: `db.rs` is `src/db.rs` of the
crate, and so on.

## 1. The system

| part | state it keeps | operations |
|---|---|---|
| `SqliteDb` (db.rs) | the connection behind an `Arc<Mutex>`: open transaction, pragmas in force, change counters, poison flag | `open_with`, `exec_durable` (and `exec`, which is `exec_durable` without a checkpoint) |
| statement policy (db.rs:271-316) | none; a callback of SQLite | `authorize_action`, `authorize_pragma` |
| `run_exec` (db.rs:334-425) | the progress handler, the rows fetched so far | prepare, step, cap, timeout, report |
| HTTP handler (handler.rs) | none of its own; shares `AppState` | `handle`, `check_auth`, `parse_sql_request`, `sql`, `health` |
| bootstrap (main.rs, state.rs, settings.rs) | knobs, then `AppState` | read the environment, register the VFS, open, serve |
| turbolite, WAL, S3 (external) | WAL in /tmp, etag cell, manifest object | open, commit, checkpoint, xSync, PUT with If-Match |
| deployment (scripts/generate_template.py) | the concurrency limit | `ReservedConcurrentExecutions: 1` |
| JSON/SQL values (db.rs:373-414, 468-492) | the stored rows | parse, `json_to_sql`, `sql_to_json`, the two row formats |
| logging (logging.rs) | the filter of the log | `init_logging`; formatting and redaction |
| benchmarks (examples/bench.rs) | the table `bench`, samples, two result files | seed, measure, summarise |
| load generator, sample project, justfile, CI | nothing the others read | tooling |

How they interact. The environment becomes knobs once, at cold start. The
connection is opened through the VFS, configured by pragmas and then closed to
reconfiguration by the authorizer. Each request is checked by the handler and
handed to `exec_durable`, which spawns a blocking task; the task takes the mutex,
runs the statement, runs `wal_checkpoint` under the same guard when the statement
left durable work behind, and only then answers. The checkpoint makes turbolite
upload pages and PUT the manifest on condition that its ETag has not moved.

What is hard here:

- **crashes**: the process may die between any two of local commit, PUT, reply,
  answer and response; /tmp may or may not survive it;
- **sharing**: clients share one connection, so `BEGIN`, `INSERT` and `COMMIT` of
  a transaction may come from different calls, and the one that closes it owes the
  checkpoint for all of them;
- **partial failure**: a checkpoint may be busy, refused, or published with its
  reply lost, after the local commit;
- **stale state**: the etag cell, a recovered WAL, change counters left by another
  client's statement, a deadline left by an earlier call;
- **ordering**: token, route, size, JSON; pragmas before the authorizer; the log's
  filter before the warnings that it may hide; records before their summary;
- **values**: two integer widths and a double between what a client sends, what a
  column holds and what is read back.

What makes each part correct is stated in section 3. `PROJECT.json` lists the
hazards, each at its line, with the properties that cover it.

## 2. The modules

| module | models | role |
|---|---|---|
| `DurableLog` | no code | the abstract specification: an append-only log of transactions, and the promised writes it always contains |
| `Turbolite` | external storage | WAL, VFS, manifest, ETag, a second connection's snapshots; a library of actions |
| `Statements` | db.rs:271-316 | the kinds of SQL db.rs tells apart, and the policy |
| `SqliteDb` | db.rs:86-268, 318-327 | `exec_durable` over `Turbolite` and `Statements`: the core |
| `Handler` | handler.rs, main.rs | HTTP over `SqliteDb` |
| `AtomicExec` | no code but the forms of statements | the abstract specification of `run_exec`: a statement is one step |
| `RunExec` | db.rs:334-425 | row fetching, cap, deadline, counters, over the state of `AtomicExec` |
| `Bootstrap` | settings.rs, main.rs, logging.rs:51-68, db.rs:146-165 and 427-466, state.rs | the cold start |
| `Wire` | db.rs:380-414, 468-492 | values between a client and a column |
| `Bench` | examples/bench.rs | the benchmark and its files |
| `MCSqliteDb`, `MCHandler`, `MCWire` | | symmetry, and the sets of statements, requests and values for TLC |
| `*_proofs` | | theorems and proofs of the module they are named after |

`Handler` EXTENDS `SqliteDb`, which EXTENDS `Turbolite` and `Statements`;
`Bootstrap` EXTENDS `Statements`. `SqliteDb` and `Handler` INSTANCE `DurableLog`.
`RunExec` EXTENDS `AtomicExec`, whose three variables are what a caller of `run_exec`
sees, and adds those of the statement being stepped.

### SqliteDb and Turbolite

A database is the sequence of transactions committed to it, and a transaction is
the set of calls whose writes it carries. `db[c]` is what the connection of
container `c` shows, `store` what the manifest in S3 makes reachable, `synced[c]`
how much of `db[c]` the container takes for flushed, `held[c]` the ETag it will
send and `etag` the one S3 has. A checkpoint copies the frames up to `SafeFrame`.

A call is `idle`, `queued` (the blocking task waits for the mutex), `checkpoint`
(the statement is done, the mutex held) or has an answer: `ok` for `Ok(outcome)`,
`sql`, `checkpoint_error` and `internal` for the variants of `ExecError`, `lost`
when the process died first. Each kind of statement is one action, from taking
the mutex to either the answer or the state `checkpoint`: nothing else reaches
the connection in between. The checkpoint and the answer are a second action, so
that a crash, a panic, other calls' submissions, readers and other containers
come between the local commit and the PUT. `MayRun` is the mutex; `Runs` adds the
authorizer; `Proceed` is the gate of db.rs:221; `AnswerOf` is db.rs:222-240.

`Crash` may strike anywhere and loses what is queued. `ColdOpen` starts from the
manifest with an empty /tmp, `WarmOpen` recovers the WAL of an earlier process.

`JournalMode` is `wal`, or `rollback` for delete, truncate, persist and memory. With
a rollback journal there are no frames to checkpoint: `wal_checkpoint` returns
(0, -1, -1), which db.rs:320 takes for success (`NothingToCheckpoint`). The commit
calls xSync by itself (`WriteThrough`), and when that fails SQLite takes the
transaction back and the statement fails (`CommitFails`), although S3 may have it
if only the reply was lost (`FailedCommit`).

### Handler

A request is a token, a route and two Booleans for its body. `Verdict` is the
order of the checks. `Refuse` answers at once, `Admit` submits, `Respond` maps
the answer to a status. A 400 comes with one of two codes, so that `400` is a
request that did not parse and `400_sql` a statement that failed; `Code` is the
code in the body. `GiveUp` is a gateway or a client that stops waiting.
`lambda_http::run` gives a process one invocation at a time, which `Idle` states;
`SqliteDb` itself lets calls overlap, since its type allows that and the tests do
it, so its results hold of both.

### RunExec

One statement after another, row by row. A statement is a form (read-only? sets
`sqlite3_changes`? assigns a rowid? yields rows?) with the rows it offers and
changes and the last rowid it assigns, if any. The counters belong to the connection
and survive from call to call: what a statement does not set stays as it was.
`AtomicExec` is the same seen from outside: the result of a statement, and the
counters it leaves, follow from the statement and the counters before it; how many
rows were fetched when the cap, the deadline or an error struck does not matter.
`SqliteDb` has a statement as one step on the strength of that.

### Bootstrap

A raw value of a variable is one of nine words the parsers treat differently.
`ConfigKnobs` is `config_knobs`, `TryPragma` is `try_pragma`, and the steps of
`main()` are actions in program order, each with the failures it can meet.
`InstallAuthorizer` has the policy of `Statements` in force from then on, and
that policy would deny bootstrap's own pragmas (`Denied`). The log's filter comes
first (`InitLogging`): RUST_LOG, then LOG_LEVEL, then info, where a value that does
not parse passes the turn on. `Warn` is `warn!` under that filter.

### Wire

Two columns without a declared type. `Write` parses two parameters, binds them and
stores them; `Select` reads the row in either `rows_format`, under any names, two
alike included; `WriteBack` is a client that saves what it read, as an object
mapper does; `Compute` is a statement that stores what no parameter can carry.
Integer widths, doubles, the rounding of an integer to a double and what
serde_json makes of a long double are CONSTANTS.

### Bench

One action per step of `main()`: `Start`, `Seed`, `CreateRecords`, one `Call` per
sample, `Summarise`, `CreateSummary`, `WriteSummary`. `Stop` ends the process
anywhere, and the buffers of the two files may or may not have reached them.

## 3. What the runs check

Passing runs:

| run | instance | shows |
|---|---|---|
| `deployed` | 2 sandboxes one at a time, 4 calls among write, begin, commit, rollback, empty prefix, truncate | `AckedDurable`, `AppliedOnce`, `ServesEveryAck`, `AckFlushesAll`, `ImplementsDurableLog`, `TypeOK` |
| `two_writers` | 2 containers at once, 3 calls, existing prefix, If-Match honoured | `DurableInv`, `ManifestOnlyGrows`: the limit of one container is not needed for safety then |
| `snapshot_reader` | 1 container at a time, 3 calls, readers, panics that unwind, restart mode, no If-Match | `DurableInv`, `AckFlushesAll` |
| `answers` | 2 containers at once, 2 calls of all ten kinds, passive mode with readers, panics, fairness | `ConnectionKeepsConf`, `CheckpointUndisturbed`, `AckFlushesUpToReaders`, `EveryCallAnswered`, `PoisonedNeverAcks` |
| `rollback_journal` | 2 containers at once, 3 calls among write, begin, commit, rollback, existing prefix, rollback journal | `DurableInv`, `AckFlushesAll`, `ImplementsDurableLog` |
| `http` | 1 container, 3 requests, one of each verdict, token and cap set, panics, fairness | `HttpTypeOK`, `OkIsDurable`, `NoUncheckedWrite`, `RefusalLeavesNoTrace`, `ImplementsHttpLog`, `EveryRequestAnswered` |
| `run_exec` | cap 2, results of 0 to 3 rows, a deadline | `CapIsExact`, `CountersAreOwn`, `DeadlineEndsWithCall`, `ImplementsAtomicExec` |
| `bootstrap` | every choice of at most 2 of 12 variables, 9 words for a knob and 6 for a filter | `BootTypeOK`, `ConfigInForce`, `WeakSetupIsAnnounced` |
| `wire` | integers of 4 bits signed and unsigned, doubles of two bits, 10 parameters, 2 names | `WireTypeOK`, `ReadsItsWrites`, `CopyKeepsValues` |
| `bench` | 2 runs, 3 samples an operation, 2 seed batches, 2 latencies | `BenchTypeOK`, `SummaryHasItsRecords`, `ReadsSeeTheSeed`, `LatenciesAreOrdered` |

In words:

- `AckedDurable`: a write whose call, or whose COMMIT, was answered 200 is in S3;
- `DurableInv`: the inductive invariant of section 4, which contains `AckedDurable`;
- `AppliedOnce`: no write is in S3 or on a connection twice, whether its checkpoint
  failed, its reply was lost or its WAL was recovered; and what an open transaction
  wrote is neither committed nor in S3;
- `ServesEveryAck`: a container that serves shows every write acknowledged so far;
- `AckFlushesAll`: a 200 after a checkpoint is a barrier for what earlier, failed
  calls left in the WAL as well;
- `AckFlushesUpToReaders`: the same where the mode is passive and a reader's snapshot
  holds frames back, for all that the reader lets the checkpoint copy;
- `ManifestOnlyGrows`: no PUT drops a transaction the manifest held;
- `ImplementsDurableLog`, `ImplementsHttpLog`: the whole is an append-only log
  with promises, seen at `exec_durable` and seen over HTTP;
- `CheckpointUndisturbed`: no checkpoint meets an open transaction or another
  call's checkpoint, which is why the mutex is held across both;
- `ConnectionKeepsConf`: no client changes the configuration;
- `PoisonedNeverAcks`: once a panic has poisoned the mutex, no call that the container
  still has, or gets later, is ever answered 200, on whichever way it takes;
- `EveryCallAnswered`: a queued call is answered, or dies with its process;
- `OkIsDurable`, `NoUncheckedWrite`: the same over HTTP, and rows come from requests
  that passed every check and from no other;
- `RefusalLeavesNoTrace`: after VALIDATION, UNAUTHORIZED or NOT_FOUND a retry cannot
  apply a write twice (after SQL, INTERNAL or silence it can);
- `EveryRequestAnswered`: no request stays open for ever;
- `CapIsExact`: no partial result, and a refusal exactly above the cap;
- `CountersAreOwn`: SELECT, INSERT and UPDATE report the rows they changed themselves;
  SELECT reports no rowid, and a statement that assigned one reports its own. What
  DDL reports as its row count, and an INSERT that assigns no rowid as its rowid, is an
  earlier statement's, whoever sent it: see the violation runs;
- `DeadlineEndsWithCall`: no deadline outlives its call;
- `ImplementsAtomicExec`: seen by its callers, `run_exec` is one atomic step: all rows
  or an error, with counters that follow from the statement and those before it. An
  error may leave a part of the changes, which is what OR FAIL promises;
- `ConfigInForce`, `WeakSetupIsAnnounced`: a container that
  serves runs as configured, bad values count as unset, and anonymous access,
  another checkpoint mode and bad values are in the log, unless its filter was set
  to hide warnings; a filter that does not parse hides nothing;
- `ReadsItsWrites`: a client reads the value it wrote, or the double next to an
  integer beyond i64, never one that wrapped;
- `CopyKeepsValues`: writing back what was read changes no value and no type, but for
  blobs, infinities and the last place of a long double, as long as the columns of
  an object differ in name;
- `SummaryHasItsRecords`: the row of an operation in a complete summary counts the
  records that stand beside it, unless a later run has begun to replace them;
- `ReadsSeeTheSeed`, `LatenciesAreOrdered`: no insert comes before a read that is
  measured, and min, p50, p95, p99 and max are in order.

Every property of a passing run is violated by at least one plausible bug of the
code; `PROJECT.json` lists them as mutants, and they stand in the modules next to
the definitions they replace.

### Violation runs

Two runs state what a comment or a doc says, and TLC finds that the code does
otherwise. Neither is a lost acknowledged write of the deployed system.

- `durable_work`: README.md:246 and db.rs:186 say that the checkpoint follows every
  call that leaves durable work in the WAL. A write that keeps its rows and fails, by
  `INSERT ... RETURNING` past the row cap or with a column that cannot be read, or
  under `OR FAIL`, leaves some and returns before the gate.
- `ddl_rowcount`: db.rs:125 says `rowcount` is 0 for DDL. It is that of the last
  INSERT, UPDATE or DELETE on the connection.

Four more comments are looser than the code, as the models show; none has a run of
its own:

- state.rs:19, main.rs:53 and results/benchmarks.md:27 say a checkpoint follows every
  call that is not read-only; a write inside an explicit transaction is answered
  without one (README.md:247 and db.rs:196 say so);
- tests/cas_conflict.rs:3-5 says a silent overwrite is impossible; on an empty prefix
  both first PUTs are unconditional (lines 42-48 say that too), and only the
  concurrency limit prevents it, which is why `NoOverwrite` asks for one or the other;
- db.rs:124 says `rowcount` is 0 for read-form pragmas; `PRAGMA journal_mode` is not
  read-only to SQLite and reports a stale count;
- db.rs:127-129 lets `lastrowid` carry an earlier INSERT's rowid for non-INSERT writes; an
  INSERT that assigns none (OR IGNORE or SELECT without a row, DO UPDATE, WITHOUT ROWID)
  carries it as well, as `InsertedBy` has it.

### Bounds, and why they are enough

A call is made once, so `Reqs` bounds a behaviour: with no call left only crashes,
restarts and readers remain. Runs therefore set `CHECK_DEADLOCK FALSE` where calls
run out, or where `main()` has ended or serves; `run_exec` and `wire` never stop and
are checked for deadlock. Nothing else is bounded in `SqliteDb` and
`Handler`: `etag`, the logs and the restarts follow from the calls. `Bench` is bounded
by `Runs`, `Iterations` and `Seeds`, `Bootstrap` by `MaxSet`.

- Four calls are what a transaction written by two clients and closed by a third
  needs, with a fourth call that meets it open or commits alone; shorter runs miss
  a commit on behalf of others next to an independent write.
- Two containers show every race for the manifest and every restart in another
  sandbox; a third could only repeat what either does, and the proofs are for any
  number.
- Three rows around a cap of two are below, at and above it.
- Two variables of the environment at once show each alone and each interaction, of
  a filter and a knob it hides the warning of, say; the proof is for all twelve.
- Three calls with a rollback journal are a commit that fails after its PUT, one that
  meets the moved manifest from the other container, and one after a restart. The
  run is on an existing prefix, since a container whose commit S3 kept and SQLite
  took back may, on an empty one, write over it.
- In `wire` the parameters are either side of the limits of both integer widths, one
  that is no double, and one value of each other kind. In `bench` three samples are
  what percentiles need to differ, and two runs what files of two runs side by side
  need; the twelve operations are five groups that treat the table alike.

Symmetry of containers and calls is used in safety runs only. `ImplementsDurableLog`
and `ImplementsHttpLog` have no liveness part, so it is sound there too.

### Fairness

`FairSpec` is weak fairness of `Serve(r)` for each call, and nothing else: tokio
runs every blocking task that was spawned, std's mutex is granted to one of its
waiters whenever it is free, and a task that holds it finishes. Whether
*statements* are finite is SQLite's affair; `RUSTYHIP_QUERY_TIMEOUT_MS` bounds
them. Nothing is assumed of opening, crashing, submitting or readers. Weak
fairness is enough as calls are finite in number, so that the mutex is not taken
from a waiter for ever; an endless stream of calls would need the mutex to be
fair, which std does not promise.

`FairHttpSpec` is weak fairness of `Progress(c)` for each container: the runtime of a
process polls the handler of its one invocation until it is done, and runs the
blocking task which that awaits. Nothing is assumed of the gateway, of crashes or
of clients, so that `EveryRequestAnswered` does not lean on anybody giving up.

## 4. What is proved

Everything here is checked by tlapm to the last leaf, for all values of the
constants. The theorems about durability assume `Durable`:

- the mode is truncate, restart or full, or it is passive and nobody holds a
  snapshot;
- `RUSTYHIP_SYNCHRONOUS` is not `off`, which would keep SQLite from calling xSync;
- `NoOverwrite`: one container at a time on a WAL (`AloneOnWal`), or S3 honours
  If-Match and no container ever opened an empty prefix. With a rollback journal one
  container is not enough: a commit that S3 kept and SQLite took back leaves a
  connection behind S3, and only the refused PUT keeps it from writing over that.

`Flushing` is the same without the condition on passive checkpoints and readers.

| module | theorems |
|---|---|
| `SqliteDb_proofs` | in every configuration: `TypeCorrect`, `ConfKept`, `CheckpointIsAlone`, `CallsMoveOnward`, `CallsAreAttended`, `PoisonIsFinal`, `OnceInvariant`, `WritesAreAppliedOnce`; under `Flushing`: `FlushInvariant`, `AckIsABarrierUpToReaders`; under `Durable`: `DurableInvariant`, `AckedWritesAreDurable`, `ManifestGrows`, `AckIsABarrier`, `Refinement`, `EveryAckIsServed` (which needs `SingleWriter` too) |
| `Handler_proofs` | `HandlerIsAClient` (`HttpSpec => Spec`), `StatusInvariant`, `HttpTypeCorrect`, `RowsAreChecked`, `RefusalsAreClean`; under `Durable`: `OkWritesAreDurable`, `OkIsKept`, `HttpRefinement`, and `OkIsServed` with `SingleWriter` |
| `DurableLog_proofs` | `PromisesAreKept` |
| `RunExec_proofs` | `RunInvariant`, `CapHolds`, `CountersHold`, `DeadlineHolds`, `ExecIsAtomic` |
| `Bootstrap_proofs` | `ConfigHolds`, `BootTypeCorrect`, `AnnouncementHolds` |
| `Wire_proofs` | `WireTypeCorrect`, `WritesAreRead`, `CopiesAreKept` |
| `Bench_proofs` | `BenchTypeCorrect`, `ReadsAreOnTheSeed`, `SummariesAreBacked`, `LatenciesInOrder` |
| `Turbolite_proofs` | lemmas: what each storage action keeps |

### Durability

`AckedDurable` is not inductive: a PUT replaces the manifest, and nothing in
`AckedDurable` says that what is uploaded contains what was there. `DurableInv`
adds what the argument needs:

- `EtagInv`: no etag cell is ahead of S3 or, on a seeded prefix, empty, so a PUT
  that S3 accepts comes from a container that has seen the manifest it replaces;
- `SingleInv`: the concurrency limit;
- `UpToDateInv`: a container that runs alone on a WAL, or whose PUT would be accepted, has
  the manifest's log as a prefix of its own, and no reader's snapshot is shorter
  than the manifest. A PUT therefore extends the log. This is the heart of it;
- `SyncedInv`: what a container takes for flushed is in S3, so a checkpoint that
  finds nothing to publish may be answered 200;
- `WrittenThroughInv`: with a rollback journal nothing waits for a checkpoint, so the
  empty one may be answered 200;
- `CallInv`: the writes of a call on its way to the checkpoint are on its
  connection, so the checkpoint it waits for covers them;
- `ConnectionKeepsConf`: `synchronous` is still what bootstrap set.

All of these but `AckedDurable` make up `FlushInv`, which needs no assumption about
readers.

`Turbolite_proofs` shows for each storage action that it keeps `StorageInv` and
only extends `store`. `SqliteDb_proofs` then needs to know of an action only which
storage action it takes and how it moves its call (`RunStatementMoves`,
`CheckpointFlushes`, `ServeMoves`), and composes the two (`DurableStep`).
`Refinement` follows: `store` only grows, promises only grow, and they are in
`store`. `CheckpointIsAlone` has an invariant of its own, the lock's.

`EveryAckIsServed` asks for one container at a time and holds with a rollback journal as
well: a connection that S3 has moved past, by a commit that it took back, can acknowledge
no write any more. Its induction (`ServedStep`) adds to `DurableInv` that while a
container serves its log only grows, and that all promises made meanwhile are its own.

What it comes to for a client is `OkIsKept`: once its response 200 is sent, the write
is in S3 at all later times. `PromisesAreKept` is the same fact about `DurableLog`,
so that the two refinements say what they seem to say.

### No write twice

`AppliedOnce` holds of every configuration, the unsafe ones included, but is not
inductive: it says nothing of the containers that are down and whose WAL may come
back, nor of the calls that have yet to run. `OnceInv` does:

- the transactions of S3 and of each container, running or not, are pairwise disjoint
  (`LogsOnce`);
- no open transaction shares a write with a log or with another transaction;
- a call whose statement has yet to run wrote nothing anywhere.

The proof goes by what a step may do to the logs: copy a prefix from one to another,
which adds no write (`Copied`), or append one transaction (`Moved`). `ServeMovesRows`
shows that whatever the task of a call does is one of four things (`ServeRows`): rows stay, enter the open transaction, enter a log from the statement
itself, or from the transaction it closes.

The last part of `OnceInv` is what `RowsAreChecked` and `RefusalsAreClean` rest on: a
request that was refused is no call, and so it left no row.

### The safety half of liveness

That each call is answered in the end is left to TLC. What the argument for it needs
of the steps is proved: a call that waits is on a process that runs
(`CallsAreAttended`), each step of its own brings it closer, from the queue to the
checkpoint to the answer or from the queue to the answer, no step of another one
sends it back, and an answer is final (`CallsMoveOnward`). What is left is that the
step can be taken and is not put off for ever: ENABLED and fairness.

### Poison

`PoisonIsFinal` is about the whole way of a call, so it needs more than the guard of
the mutex. Nobody is in a checkpoint on a poisoned container (`CleanCheckpoint`): the
task that panics holds the mutex and is answered `internal` by its panic, and by
`CheckpointUndisturbed` nobody else was in a checkpoint. So a
call that a poisoned container has is still waiting, and such a call is `Doomed`: it
waits for a mutex that stays poisoned, since only an opening cleans it and its process
runs (`CallsAreAttended`), or has an answer other than 200, which is final
(`CallsMoveOnward`). `DoomedStays` shows that no step leads out of that.

### The others

`HandlerIsAClient` shows that each step over HTTP is a step of `SqliteDb` or
stutters, which carries all of its theorems over; `StatusInvariant` adds that a
status 200 of an admitted call goes with the answer `ok`, which a call never leaves.

`RunInvariant` counts: rows kept plus rows left are the rows offered while a statement
is fetched, and a deadline is one that was configured and is installed only then.
`ExecIsAtomic` takes the step that returns from a call to the atomic step and every
other one to a stutter; counting makes the rows of `Finish` all the rows there are, and
those of `OverCap` one too many. A statement that kept a part of its rows (`KeptInPart`)
or all of them (`Unreadable`) with an error has atomic steps of its own, as it leaves
other counters behind than one that was undone.

`BootInv` says that pragmas already reached are in force or refused by SQLite, and that
the authorizer is installed only when none is left; `AnnounceInv`, behind
`AnnouncementHolds`, that once the knobs are read the filter lets warnings through if
they were wanted, and what has to be warned of has been. `WireInv` says that the row
stored is what its parameters may be bound as, and that a reply is the row as it is
read; `CopiesAreKept` composes the two conversions.

Of `Bench`, `OnSeed` is `ReadsSeeTheSeed` for every operation before the inserts.
`SummaryHasItsRecords` says nothing of the rows and records that are still on their way
to the files; `BenchInv` does: the rows of this run so far agree, operation by operation,
with its records in the file and in the buffer (`BackedRows`), and an older summary is
left whole until all of the new records are in the file. `LatenciesInOrder` needs no
invariant: `Ascending` lists the samples by `Rank`, their place in a stable sort, which `RanksArePositions` shows to be one to one and onto the
positions; from there `AscendingSorts`, and `PercentilesRise` for the interpolation.

### Model-checked only

`EveryCallAnswered` and `EveryRequestAnswered`, liveness properties under fairness,
are out of this prover's reach; so is nothing else that the passing runs check. The
two properties of the violation runs are false.

## 5. Simplifications

- Two journal modes are left out: `off`, where SQLite promises nothing about a failed
  commit, and a second connection's locks in a rollback-journal mode, which block a
  writer and hold back no frame. The deployment template sets no
  `RUSTYHIP_JOURNAL_MODE`.
- turbolite, SQLite and S3 are external. Page cache, prefetch and garbage
  collection are left out; the manifest's version is a counter; S3 is strongly
  consistent. A recovered WAL that the manifest has moved past is not used: the guard of
  `WarmStart` assumes so, what turbolite makes of one is not in the repository, and no
  property here says anything of that case.
- SQLite's automatic checkpoint may run whenever no transaction is open, and its
  failures are left out: those of a call's own checkpoint have the same outcomes.
- A statement that fails does so without effect, or keeps its rows
  (`WriteKeptButFails`), or undoes the whole transaction (`WriteAbortsTxn`).
- Case of pragma names is abstracted. SAVEPOINT outside a transaction is `begin`.
- With `panic = "abort"` of the release profile a panic is a `Crash`. The constant
  `Unwind` gives the build where it poisons the mutex.
- `RunExec` takes a statement's outcome, if it is carried out, as given from the start:
  the rows it offers and changes and the last rowid it assigns. An error undoes it
  (`StepFails`), keeps the rows before the failing one (`StepFailsKeepingRows`) or all
  of them (`ReadColumnFails`), with the count of those; the rowid it leaves is the one
  before or any of a row it may have inserted (`LeftBy`). Whether kept rows are durable
  is in `SqliteDb` (`WriteKeptButFails`).
- `Wire` takes text as one value, and columns without a declared type: the affinity of
  a typed column is SQLite's, as is what an expression makes of a value. A number that
  exceeds every double is refused by serde_json with the rest of the body.
- `Bench` has integer times and percentiles in hundredths; means and throughput are
  left out, as no property is about them.
- `Bootstrap` has the release profile: `i64::MIN.abs()` wraps and SQLite rejects
  the pragma, where a debug build panics.

## 6. What is not modelled

- The formatter of logging.rs and its redaction of field values: pure formatting of
  one event, without state, whose properties are about the spelling of names.
- The wording of responses, of the log and of benchmarks.md.
- scripts/loadtest_rustyhip.py: a client of `POST /sql` outside the service; what its
  requests can do is in `Handler`, where any client may send anything.
- The sample Django project, the justfile, CI and build files: no state of the system.
- Page cache, prefetch, eviction and garbage collection of turbolite, whose source is
  not in the repository and which db.rs does not see.
- The rest of the deployment template: only its concurrency limit has a behaviour.

What could be added: `AtomicExec` related to the statement steps of `SqliteDb`, with the
timeout and the row cap as the causes of `StatementFails`, `WriteAbortsTxn` and
`WriteKeptButFails`; at present the two are related by the lines they map and by the
comments of those actions. And a theorem that carries the configuration which `Bootstrap`
puts in force over to the constants of `SqliteDb`.
