------------------------------ MODULE Turbolite ------------------------------
(***************************************************************************)
(* The storage under the connection: the SQLite write-ahead log of a       *)
(* container, the turbolite VFS and the manifest object in S3.  None of    *)
(* them is in the repository.  They are modelled from how db.rs, main.rs,  *)
(* tests/cas_conflict.rs and the deployment template use them, as a        *)
(* library of actions that SqliteDb composes.                              *)
(*                                                                         *)
(* A database is the sequence of transactions committed to it, and a       *)
(* transaction is the set of /sql calls whose writes it carries.           *)
(* Checkpointing a WAL copies a prefix of the container's database to S3   *)
(* by one PUT of the manifest, conditional on the ETag read at open.       *)
(***************************************************************************)
EXTENDS Integers, Sequences

CONSTANTS Containers,    \* Lambda sandboxes that may run the program
          Reqs,          \* /sql calls; a write is named by the call that made it
          IfMatch,       \* does S3 honour If-Match on the manifest PUT?
          Seeded,        \* does the prefix hold a manifest before the first open?
          SingleWriter,  \* ReservedConcurrentExecutions = 1
          Readers,       \* may a second connection of the container hold a snapshot?
          JournalMode    \* RUSTYHIP_JOURNAL_MODE: "wal", or "rollback" for
                         \* delete, truncate, persist and memory

ASSUME TurboliteAssumption ==
    /\ {IfMatch, Seeded, SingleWriter, Readers} \subseteq BOOLEAN
    /\ JournalMode \in {"wal", "rollback"}
    /\ JournalMode = "rollback" => ~Readers

VARIABLES store,    \* transactions the S3 manifest makes reachable
          etag,     \* version of the manifest object, 0 when there is none
          mounted,  \* mounted[c]: container c has the database open
          held,     \* held[c]: ETag c will send, 0 when its etag cell is empty
          db,       \* db[c]: transactions visible on c's connection
          synced,   \* synced[c]: how many of them c knows to be in S3
          reader    \* reader[c]: end of the WAL in the other connection's snapshot

storageVars == <<store, etag, mounted, held, db, synced, reader>>

Transactions == SUBSET Reqs
NoReader == -1
Modes == {"truncate", "restart", "full", "passive"}

Contents(log) == UNION {log[i] : i \in 1..Len(log)}

IsPrefixOf(s, t) == /\ Len(s) <= Len(t)
                    /\ \A i \in 1..Len(s) : s[i] = t[i]

StorageTypeOK ==
    /\ store \in Seq(Transactions)
    /\ etag \in Nat
    /\ mounted \in [Containers -> BOOLEAN]
    /\ held \in [Containers -> Nat]
    /\ db \in [Containers -> Seq(Transactions)]
    /\ synced \in [Containers -> Nat]
    /\ reader \in [Containers -> Int]
    /\ \A c \in Containers : reader[c] \in NoReader..Len(db[c])

StorageInit ==
    /\ store = << >>
    /\ etag = IF Seeded THEN 1 ELSE 0
    /\ mounted = [c \in Containers |-> FALSE]
    /\ held = [c \in Containers |-> 0]
    /\ db = [c \in Containers |-> << >>]
    /\ synced = [c \in Containers |-> 0]
    /\ reader = [c \in Containers |-> NoReader]

-----------------------------------------------------------------------------
(* Opening the database.                                                   *)

\* Mutant: the concurrency limit is raised.
MayStartMore(c) == ~mounted[c]

MayStart(c) ==
    /\ ~mounted[c]
    /\ SingleWriter => \A d \in Containers : ~mounted[d]

\* Mutant: the etag cell stays empty when an existing database is opened.
MountWithoutEtag(c, log) ==
    /\ mounted' = [mounted EXCEPT ![c] = TRUE]
    /\ held' = [held EXCEPT ![c] = 0]
    /\ db' = [db EXCEPT ![c] = log]
    /\ synced' = [synced EXCEPT ![c] = Len(store)]
    /\ reader' = [reader EXCEPT ![c] = NoReader]
    /\ UNCHANGED <<store, etag>>

Mount(c, log) ==
    /\ mounted' = [mounted EXCEPT ![c] = TRUE]
    /\ held' = [held EXCEPT ![c] = etag]
    /\ db' = [db EXCEPT ![c] = log]
    /\ synced' = [synced EXCEPT ![c] = Len(store)]
    /\ reader' = [reader EXCEPT ![c] = NoReader]
    /\ UNCHANGED <<store, etag>>

\* A new sandbox has an empty /tmp: the database is what the manifest says.
ColdStart(c) == MayStart(c) /\ Mount(c, store)

\* The sandbox survived its process: SQLite recovers the WAL left in /tmp,
\* which is of use only when nobody moved the manifest past it.
WarmStart(c) ==
    /\ JournalMode = "wal"
    /\ MayStart(c)
    /\ IsPrefixOf(store, db[c])
    /\ Mount(c, db[c])

Unmount(c) ==
    /\ mounted' = [mounted EXCEPT ![c] = FALSE]
    /\ UNCHANGED <<store, etag, held, db, synced, reader>>

-----------------------------------------------------------------------------
(* Checkpointing.                                                          *)

\* Frames past another connection's snapshot cannot be copied.
SafeFrame(c) == IF reader[c] = NoReader THEN Len(db[c]) ELSE reader[c]

\* The first column of the PRAGMA wal_checkpoint row.  PASSIVE never waits,
\* so it never reports busy.  FULL needs every frame copied; RESTART and
\* TRUNCATE also need the WAL to themselves, and a reader that has all of it
\* may or may not be reading from it.
Busy(c, mode, busy) ==
    IF reader[c] = NoReader \/ mode = "passive" THEN ~busy
    ELSE IF SafeFrame(c) < Len(db[c]) THEN busy
    ELSE mode = "full" => ~busy

\* The conditional PUT is accepted.  An empty etag cell sends no condition.
MayPut(c) == \/ ~IfMatch
             \/ held[c] = 0
             \/ held[c] = etag

Uploaded(c) == SubSeq(db[c], 1, SafeFrame(c))

\* The manifest is replaced, and its PUT's reply carries the new ETag.
Put(c, log) ==
    /\ MayPut(c)
    /\ store' = log
    /\ etag' = etag + 1

Acknowledged(c, len) ==
    /\ held' = [held EXCEPT ![c] = etag + 1]
    /\ synced' = [synced EXCEPT ![c] = len]

\* wal_checkpoint copies frames, and xSync publishes them: with
\* synchronous = OFF it is never called, and without new frames there is
\* nothing to publish.
Copy(c) ==
    /\ synced' = [synced EXCEPT ![c] = SafeFrame(c)]
    /\ UNCHANGED <<store, etag, mounted, held, db, reader>>

Publish(c) ==
    /\ Put(c, Uploaded(c))
    /\ Acknowledged(c, SafeFrame(c))
    /\ UNCHANGED <<mounted, db, reader>>

CheckpointFrames(c, mode, syncs, busy) ==
    /\ JournalMode = "wal"
    /\ Busy(c, mode, busy)
    /\ IF syncs /\ SafeFrame(c) > synced[c] THEN Publish(c) ELSE Copy(c)

\* Without a WAL the row is (0, -1, -1), and nothing is done.
NothingToCheckpoint(busy) ==
    /\ JournalMode = "rollback"
    /\ ~busy
    /\ UNCHANGED storageVars

WalCheckpoint(c, mode, syncs, busy) ==
    CheckpointFrames(c, mode, syncs, busy) \/ NothingToCheckpoint(busy)

\* 412 Precondition Failed, or S3 out of reach: the checkpoint reports an error.
RefusedPut(c, syncs) ==
    /\ syncs
    /\ SafeFrame(c) > synced[c]
    /\ UNCHANGED storageVars

\* The PUT took effect and its reply was lost: the container does not know.
LostReply(c, syncs) ==
    /\ syncs
    /\ SafeFrame(c) > synced[c]
    /\ Put(c, Uploaded(c))
    /\ UNCHANGED <<mounted, held, db, synced, reader>>

FailedCheckpoint(c, syncs) ==
    /\ JournalMode = "wal"
    /\ RefusedPut(c, syncs) \/ LostReply(c, syncs)

-----------------------------------------------------------------------------
(* Committing.                                                             *)

\* A committed transaction is appended to the container's WAL.
AppendWal(c, txn) ==
    /\ JournalMode = "wal"
    /\ db' = [db EXCEPT ![c] = Append(@, txn)]
    /\ UNCHANGED <<store, etag, mounted, held, synced, reader>>

\* With a rollback journal the commit calls xSync itself, which publishes it.
WriteThrough(c, txn, syncs) ==
    /\ JournalMode = "rollback"
    /\ db' = [db EXCEPT ![c] = Append(@, txn)]
    /\ IF syncs
       THEN Put(c, Append(db[c], txn)) /\ Acknowledged(c, Len(db[c]) + 1)
       ELSE UNCHANGED <<store, etag, held, synced>>
    /\ UNCHANGED <<mounted, reader>>

\* Mutant: an error of xSync is ignored, and the commit stands.
CommitUnsynced(c, txn, syncs) ==
    \/ AppendWal(c, txn)
    \/ WriteThrough(c, txn, syncs)
    \/ WriteThrough(c, txn, FALSE)

CommitTxn(c, txn, syncs) == AppendWal(c, txn) \/ WriteThrough(c, txn, syncs)

\* That xSync fails, and SQLite takes the transaction back from the
\* connection.  S3 may have it all the same, when only the reply was lost.
FailedCommit(c, txn, syncs) ==
    /\ JournalMode = "rollback"
    /\ syncs
    /\ \/ UNCHANGED <<store, etag>>
       \/ Put(c, Append(db[c], txn))
    /\ UNCHANGED <<mounted, held, db, synced, reader>>

-----------------------------------------------------------------------------
(* A second connection of the same container, as in the tests of db.rs.    *)

ReaderBegin(c) ==
    /\ Readers
    /\ mounted[c]
    /\ reader[c] = NoReader
    /\ reader' = [reader EXCEPT ![c] = Len(db[c])]
    /\ UNCHANGED <<store, etag, mounted, held, db, synced>>

ReaderEnd(c) ==
    /\ mounted[c]
    /\ reader[c] # NoReader
    /\ reader' = [reader EXCEPT ![c] = NoReader]
    /\ UNCHANGED <<store, etag, mounted, held, db, synced>>

-----------------------------------------------------------------------------
(* What relates containers to S3.  NoOverwrite is what it rests on: one    *)
(* container runs at a time, or S3 refuses a stale ETag and no container   *)
(* ever opened a bare prefix.  With a rollback journal only the latter     *)
(* will do: a container whose commit S3 kept and SQLite took back must not *)
(* write over it.                                                          *)

AloneOnWal == SingleWriter /\ JournalMode = "wal"

NoOverwrite == AloneOnWal \/ (IfMatch /\ Seeded)

\* The etag cell is never ahead of S3, nor empty on a prefix with a manifest.
EtagInv ==
    /\ Seeded => etag > 0
    /\ \A c \in Containers : mounted[c] =>
          /\ held[c] <= etag
          /\ Seeded => held[c] > 0

\* ReservedConcurrentExecutions = 1.
SingleInv ==
    SingleWriter => \A c, d \in Containers : mounted[c] /\ mounted[d] => c = d

\* What a container takes for flushed is in S3, and is not past what the
\* other connection lets a checkpoint copy.
SyncedInv ==
    \A c \in Containers : mounted[c] =>
        /\ synced[c] <= Len(store)
        /\ synced[c] <= Len(db[c])
        /\ \A i \in 1..synced[c] : db[c][i] = store[i]
        /\ reader[c] # NoReader => Readers /\ synced[c] <= reader[c]

\* A container whose PUT S3 would accept holds all that S3 holds, and so does
\* one that runs alone on a WAL, which never takes a commit back.
UpToDateInv ==
    \A c \in Containers : mounted[c] /\ (AloneOnWal \/ MayPut(c)) =>
        /\ IsPrefixOf(store, db[c])
        /\ reader[c] # NoReader => Len(store) <= reader[c]

\* With a rollback journal no commit waits for a checkpoint.
WrittenThroughInv ==
    JournalMode = "rollback" => \A c \in Containers : mounted[c] => synced[c] = Len(db[c])

StorageInv == EtagInv /\ SingleInv /\ SyncedInv /\ UpToDateInv /\ WrittenThroughInv

=============================================================================
