--------------------------- MODULE Turbolite_proofs ---------------------------
(***************************************************************************)
(* The storage actions keep StorageInv, and S3 only gains transactions.    *)
(* One lemma for each way the storage can change.                          *)
(***************************************************************************)
EXTENDS Turbolite, TLAPS, SequenceTheorems

\* What S3 and a live container hold is never taken back by a step.
Grows ==
    /\ IsPrefixOf(store, store')
    /\ \A c \in Containers : mounted[c] /\ mounted'[c] => IsPrefixOf(db[c], db'[c])

Kept == StorageTypeOK' /\ StorageInv' /\ Grows

\* A longer log holds what a shorter one does.
LEMMA ContentsOfPrefix ==
    ASSUME NEW s \in Seq(Transactions), NEW t \in Seq(Transactions), IsPrefixOf(s, t)
    PROVE  Contents(s) \subseteq Contents(t)
<1> SUFFICES ASSUME NEW i \in 1..Len(s) PROVE s[i] \subseteq Contents(t)
    BY DEF Contents
<1>1. i \in 1..Len(t) /\ s[i] = t[i]
    BY DEF IsPrefixOf
<1> QED BY <1>1 DEF Contents

\* What a checkpoint of c uploads.
LEMMA UploadedPrefix ==
    ASSUME StorageTypeOK, NEW c \in Containers
    PROVE  /\ SafeFrame(c) \in Nat
           /\ SafeFrame(c) <= Len(db[c])
           /\ Uploaded(c) \in Seq(Transactions)
           /\ Len(Uploaded(c)) = SafeFrame(c)
           /\ \A i \in 1..SafeFrame(c) : Uploaded(c)[i] = db[c][i]
<1>1. db[c] \in Seq(Transactions) /\ reader[c] \in Int /\ reader[c] \in NoReader..Len(db[c])
    BY DEF StorageTypeOK
<1>2. SafeFrame(c) \in Nat /\ SafeFrame(c) <= Len(db[c])
    BY <1>1 DEF SafeFrame, NoReader
<1>3. \A i \in 1..SafeFrame(c) : db[c][i] \in Transactions
    BY <1>1, <1>2
<1> QED BY <1>1, <1>2, <1>3, SubSeqProperties DEF Uploaded

-----------------------------------------------------------------------------
(* Types, which every configuration keeps.                                 *)

LEMMA ReaderTyped ==
    ASSUME StorageTypeOK, NEW c \in Containers, NEW k \in NoReader..Len(db[c]),
           reader' = [reader EXCEPT ![c] = k],
           UNCHANGED <<store, etag, mounted, held, db, synced>>
    PROVE  StorageTypeOK'
<1>1. k \in Int /\ reader' \in [Containers -> Int]
    BY DEF StorageTypeOK, NoReader
<1>2. \A d \in Containers : reader'[d] \in NoReader..Len(db'[d])
    BY DEF StorageTypeOK
<1> QED BY <1>1, <1>2 DEF StorageTypeOK

LEMMA ReaderStepTyped ==
    ASSUME StorageTypeOK, NEW c \in Containers, ReaderBegin(c) \/ ReaderEnd(c)
    PROVE  StorageTypeOK'
<1>1. Len(db[c]) \in NoReader..Len(db[c]) /\ NoReader \in NoReader..Len(db[c])
    BY DEF StorageTypeOK, NoReader
<1> QED BY <1>1, ReaderTyped DEF ReaderBegin, ReaderEnd

LEMMA MountTyped ==
    ASSUME StorageTypeOK, NEW c \in Containers, NEW log \in Seq(Transactions), Mount(c, log)
    PROVE  StorageTypeOK'
<1>1. \A d \in Containers : reader'[d] \in NoReader..Len(db'[d])
    BY DEF StorageTypeOK, Mount, NoReader
<1> QED BY <1>1 DEF StorageTypeOK, Mount, NoReader

LEMMA AppendWalTyped ==
    ASSUME StorageTypeOK, NEW c \in Containers, NEW txn \in Transactions, AppendWal(c, txn)
    PROVE  StorageTypeOK' /\ db'[c] = Append(db[c], txn)
<1>1. db' \in [Containers -> Seq(Transactions)] /\ db'[c] = Append(db[c], txn)
    BY DEF StorageTypeOK, AppendWal
<1>2. \A d \in Containers : Len(db[d]) <= Len(db'[d])
    BY DEF StorageTypeOK, AppendWal
<1>3. \A d \in Containers : reader'[d] \in NoReader..Len(db'[d])
    BY <1>1, <1>2 DEF StorageTypeOK, AppendWal
<1> QED BY <1>1, <1>3 DEF StorageTypeOK, AppendWal

LEMMA UnmountTyped ==
    ASSUME StorageTypeOK, NEW c \in Containers, Unmount(c)
    PROVE  StorageTypeOK'
BY DEF StorageTypeOK, Unmount

LEMMA StutterTyped ==
    ASSUME StorageTypeOK, UNCHANGED storageVars
    PROVE  StorageTypeOK'
BY DEF StorageTypeOK, storageVars

LEMMA PutTyped ==
    ASSUME StorageTypeOK, NEW c \in Containers, NEW log \in Seq(Transactions), NEW n \in Nat,
           Put(c, log), UNCHANGED <<mounted, db, reader>>,
           UNCHANGED <<held, synced>> \/ Acknowledged(c, n)
    PROVE  StorageTypeOK'
<1>1. etag' \in Nat /\ etag + 1 \in Nat /\ store' \in Seq(Transactions)
    BY DEF StorageTypeOK, Put
<1>2. held' \in [Containers -> Nat] /\ synced' \in [Containers -> Nat]
    BY <1>1 DEF StorageTypeOK, Acknowledged
<1> QED BY <1>1, <1>2 DEF StorageTypeOK

LEMMA WriteThroughTyped ==
    ASSUME StorageTypeOK, NEW c \in Containers, NEW txn \in Transactions, NEW syncs \in BOOLEAN,
           WriteThrough(c, txn, syncs)
    PROVE  StorageTypeOK' /\ db'[c] = Append(db[c], txn)
<1>1. db' \in [Containers -> Seq(Transactions)] /\ db'[c] = Append(db[c], txn)
    BY DEF StorageTypeOK, WriteThrough
<1>2. \A d \in Containers : reader'[d] \in NoReader..Len(db'[d])
  <2>1. \A d \in Containers : Len(db[d]) <= Len(db'[d]) /\ reader'[d] = reader[d]
      BY DEF StorageTypeOK, WriteThrough
  <2> QED BY <1>1, <2>1 DEF StorageTypeOK
<1>3. store' \in Seq(Transactions) /\ etag' \in Nat
  <2>1. Append(db[c], txn) \in Seq(Transactions) /\ etag + 1 \in Nat
      BY DEF StorageTypeOK
  <2> QED BY <2>1 DEF StorageTypeOK, WriteThrough, Put
<1>4. held' \in [Containers -> Nat] /\ synced' \in [Containers -> Nat]
  <2>1. Len(db[c]) + 1 \in Nat /\ etag + 1 \in Nat
      BY DEF StorageTypeOK
  <2> QED BY <2>1 DEF StorageTypeOK, WriteThrough, Acknowledged
<1>5. mounted' \in [Containers -> BOOLEAN] /\ reader' \in [Containers -> Int]
    BY DEF StorageTypeOK, WriteThrough
<1> QED BY <1>1, <1>2, <1>3, <1>4, <1>5 DEF StorageTypeOK

LEMMA FailedCommitTyped ==
    ASSUME StorageTypeOK, NEW c \in Containers, NEW txn \in Transactions, NEW syncs \in BOOLEAN,
           FailedCommit(c, txn, syncs)
    PROVE  StorageTypeOK'
<1>1. store' \in Seq(Transactions) /\ etag' \in Nat
  <2>1. Append(db[c], txn) \in Seq(Transactions) /\ etag + 1 \in Nat
      BY DEF StorageTypeOK
  <2> QED BY <2>1 DEF StorageTypeOK, FailedCommit, Put
<1>2. \A d \in Containers : reader'[d] \in NoReader..Len(db'[d])
    BY DEF StorageTypeOK, FailedCommit
<1> QED BY <1>1, <1>2 DEF StorageTypeOK, FailedCommit

LEMMA CheckpointTyped ==
    ASSUME StorageTypeOK, NEW c \in Containers, NEW syncs \in BOOLEAN,
           \/ \E mode \in Modes, busy \in BOOLEAN : WalCheckpoint(c, mode, syncs, busy)
           \/ FailedCheckpoint(c, syncs)
    PROVE  StorageTypeOK'
<1>1. CASE Publish(c)
    BY <1>1, PutTyped, UploadedPrefix DEF Publish
<1>2. CASE Copy(c)
    BY <1>2, UploadedPrefix DEF Copy, StorageTypeOK
<1>3. CASE UNCHANGED storageVars
    BY <1>3, StutterTyped
<1>4. CASE LostReply(c, syncs)
    BY <1>4, PutTyped, UploadedPrefix DEF LostReply
<1> QED BY <1>1, <1>2, <1>3, <1>4
        DEF WalCheckpoint, CheckpointFrames, NothingToCheckpoint, FailedCheckpoint, RefusedPut

-----------------------------------------------------------------------------
(* The invariant, in the configurations that never overwrite.              *)

\* Opening a database, cold or warm, on a log that extends the manifest's.
LEMMA MountKeeps ==
    ASSUME StorageTypeOK, StorageInv, NEW c \in Containers, NEW log \in Seq(Transactions),
           MayStart(c), IsPrefixOf(store, log), Mount(c, log),
           JournalMode = "wal" \/ log = store
    PROVE  Kept
<1>1. StorageTypeOK'
    BY MountTyped
<1> USE DEF Mount, MayStart
<1>2. EtagInv'
    BY DEF StorageInv, EtagInv, StorageTypeOK
<1>3. SingleInv'
    BY DEF StorageInv, SingleInv, StorageTypeOK
<1>4. SyncedInv'
  <2> SUFFICES ASSUME NEW d \in Containers, mounted'[d]
               PROVE  /\ synced'[d] <= Len(store')
                      /\ synced'[d] <= Len(db'[d])
                      /\ \A i \in 1..synced'[d] : db'[d][i] = store'[i]
                      /\ reader'[d] # NoReader => Readers /\ synced'[d] <= reader'[d]
      BY DEF SyncedInv
  <2>1. CASE d = c
      BY <2>1 DEF StorageTypeOK, IsPrefixOf
  <2>2. CASE d # c
      BY <2>2 DEF StorageTypeOK, StorageInv, SyncedInv
  <2> QED BY <2>1, <2>2
<1>5. UpToDateInv'
  <2> SUFFICES ASSUME NEW d \in Containers, mounted'[d], AloneOnWal \/ MayPut(d)'
               PROVE  /\ IsPrefixOf(store, db'[d])
                      /\ reader'[d] # NoReader => Len(store) <= reader'[d]
      BY DEF UpToDateInv
  <2>1. CASE d = c
      BY <2>1 DEF StorageTypeOK
  <2>2. CASE d # c
      BY <2>2 DEF StorageTypeOK, StorageInv, UpToDateInv, MayPut
  <2> QED BY <2>1, <2>2
<1>6. Grows
    BY DEF Grows, IsPrefixOf, StorageTypeOK
<1>7. WrittenThroughInv'
  <2> SUFFICES ASSUME JournalMode = "rollback", NEW d \in Containers, mounted'[d]
               PROVE  synced'[d] = Len(db'[d])
      BY DEF WrittenThroughInv
  <2>1. CASE d = c
      BY <2>1 DEF StorageTypeOK
  <2>2. CASE d # c
      BY <2>2 DEF StorageTypeOK, StorageInv, WrittenThroughInv
  <2> QED BY <2>1, <2>2
<1> QED BY <1>1, <1>2, <1>3, <1>4, <1>5, <1>6, <1>7 DEF Kept, StorageInv

\* No checkpoint ends behind an earlier one.
LEMMA SyncedFrame ==
    ASSUME StorageTypeOK, StorageInv, NEW c \in Containers, mounted[c]
    PROVE  synced[c] <= SafeFrame(c) /\ synced[c] \in Nat /\ SafeFrame(c) \in Nat
BY UploadedPrefix DEF StorageTypeOK, StorageInv, SyncedInv, SafeFrame, NoReader

LEMMA ColdStartKeeps ==
    ASSUME StorageTypeOK, StorageInv, NEW c \in Containers, ColdStart(c)
    PROVE  Kept
BY MountKeeps DEF ColdStart, StorageTypeOK, IsPrefixOf

LEMMA WarmStartKeeps ==
    ASSUME StorageTypeOK, StorageInv, NEW c \in Containers, WarmStart(c)
    PROVE  Kept
BY MountKeeps DEF WarmStart, StorageTypeOK

LEMMA UnmountKeeps ==
    ASSUME StorageTypeOK, StorageInv, NEW c \in Containers, Unmount(c)
    PROVE  Kept
<1>1. StorageTypeOK'
    BY UnmountTyped
<1> USE DEF Unmount, StorageTypeOK
<1>2. EtagInv' /\ SingleInv'
    BY DEF StorageInv, EtagInv, SingleInv
<1>3. SyncedInv'
    BY DEF StorageInv, SyncedInv
<1>4. UpToDateInv'
    BY DEF StorageInv, UpToDateInv, MayPut
<1>5. Grows
    BY DEF Grows, IsPrefixOf
<1>6. WrittenThroughInv'
    BY DEF StorageInv, WrittenThroughInv
<1> QED BY <1>1, <1>2, <1>3, <1>4, <1>5, <1>6 DEF Kept, StorageInv

\* A commit makes the connection's log longer and touches nothing else.
LEMMA AppendWalKeeps ==
    ASSUME StorageTypeOK, StorageInv, NEW c \in Containers, NEW txn \in Transactions,
           AppendWal(c, txn)
    PROVE  Kept /\ db'[c] = Append(db[c], txn)
<1>1. /\ JournalMode = "wal"
      /\ db' = [db EXCEPT ![c] = Append(db[c], txn)]
      /\ UNCHANGED <<store, etag, mounted, held, synced, reader>>
    BY DEF AppendWal
<1>2. StorageTypeOK' /\ db'[c] = Append(db[c], txn)
    BY AppendWalTyped
<1>3. \A d \in Containers : IsPrefixOf(db[d], db'[d])
    BY <1>1 DEF StorageTypeOK, IsPrefixOf
<1>4. EtagInv' /\ SingleInv'
    BY <1>1 DEF StorageInv, EtagInv, SingleInv
<1>5. SyncedInv'
    BY <1>1, <1>2, <1>3 DEF StorageInv, SyncedInv, StorageTypeOK, IsPrefixOf
<1>6. UpToDateInv'
    BY <1>1, <1>2, <1>3 DEF StorageInv, UpToDateInv, StorageTypeOK, IsPrefixOf, MayPut
<1>7. Grows
    BY <1>1, <1>3 DEF Grows, IsPrefixOf, StorageTypeOK
<1>8. WrittenThroughInv'
    BY <1>1 DEF WrittenThroughInv
<1> QED BY <1>2, <1>4, <1>5, <1>6, <1>7, <1>8 DEF Kept, StorageInv

LEMMA ReaderKeeps ==
    ASSUME StorageTypeOK, StorageInv, NEW c \in Containers, ReaderBegin(c) \/ ReaderEnd(c)
    PROVE  Kept
<1>1. /\ UNCHANGED <<store, etag, mounted, held, db, synced>>
      /\ \/ reader' = [reader EXCEPT ![c] = NoReader]
         \/ Readers /\ reader' = [reader EXCEPT ![c] = Len(db[c])]
    BY DEF ReaderBegin, ReaderEnd
<1>2. StorageTypeOK'
    BY ReaderStepTyped
<1>3. EtagInv' /\ SingleInv'
    BY <1>1 DEF StorageInv, EtagInv, SingleInv
<1>4. SyncedInv'
  <2> SUFFICES ASSUME NEW d \in Containers, mounted[d], reader'[d] # NoReader
               PROVE  Readers /\ synced[d] <= reader'[d]
      BY <1>1 DEF StorageInv, SyncedInv
  <2>1. CASE reader'[d] = reader[d]
      BY <2>1 DEF StorageInv, SyncedInv
  <2>2. CASE d = c /\ Readers /\ reader'[d] = Len(db[d])
      BY <2>2 DEF StorageInv, SyncedInv, StorageTypeOK
  <2> QED BY <1>1, <2>1, <2>2 DEF StorageTypeOK
<1>5. UpToDateInv'
    BY <1>1, <1>2 DEF StorageInv, UpToDateInv, StorageTypeOK, IsPrefixOf, MayPut
<1>6. Grows
    BY <1>1 DEF Grows, IsPrefixOf, StorageTypeOK
<1>7. WrittenThroughInv'
    BY <1>1 DEF StorageInv, WrittenThroughInv
<1> QED BY <1>2, <1>3, <1>4, <1>5, <1>6, <1>7 DEF Kept, StorageInv

LEMMA StutterKeeps ==
    ASSUME StorageTypeOK, StorageInv, UNCHANGED storageVars
    PROVE  Kept
<1>1. StorageTypeOK'
    BY StutterTyped
<1> USE DEF storageVars
<1>2. EtagInv' /\ SingleInv' /\ SyncedInv' /\ WrittenThroughInv'
    BY DEF StorageInv, EtagInv, SingleInv, SyncedInv, WrittenThroughInv
<1>3. UpToDateInv'
    BY DEF StorageInv, UpToDateInv, MayPut, IsPrefixOf
<1>4. Grows
    BY DEF Grows, IsPrefixOf, StorageTypeOK
<1> QED BY <1>1, <1>2, <1>3, <1>4 DEF Kept, StorageInv

-----------------------------------------------------------------------------
(* The steps that change S3.                                               *)

\* A PUT that S3 accepts, whether or not its reply arrives.
LEMMA PutKeeps ==
    ASSUME NoOverwrite, StorageTypeOK, StorageInv,
           NEW c \in Containers, mounted[c], JournalMode = "wal",
           Put(c, Uploaded(c)), UNCHANGED <<mounted, db, reader>>,
           UNCHANGED <<held, synced>> \/ Acknowledged(c, SafeFrame(c))
    PROVE  Kept
<1> DEFINE k == SafeFrame(c)
<1> USE DEF Put, Acknowledged
<1>1. /\ k \in Nat
      /\ k <= Len(db[c])
      /\ store' \in Seq(Transactions)
      /\ Len(store') = k
      /\ \A i \in 1..k : store'[i] = db[c][i]
    BY UploadedPrefix DEF StorageInv
<1>2. IsPrefixOf(store, db[c]) /\ Len(store) <= k
  <2>1. IsPrefixOf(store, db[c]) /\ (reader[c] # NoReader => Len(store) <= reader[c])
      BY DEF StorageInv, UpToDateInv, Put
  <2> QED BY <2>1 DEF SafeFrame, IsPrefixOf
<1>3. IsPrefixOf(store, store')
    BY <1>1, <1>2 DEF IsPrefixOf, StorageTypeOK
<1>4. StorageTypeOK'
    BY PutTyped, UploadedPrefix DEF StorageTypeOK
<1>5. EtagInv'
  <2>1. \A d \in Containers : held'[d] = held[d] \/ held'[d] = etag + 1
      BY DEF StorageTypeOK
  <2> QED BY <2>1 DEF StorageInv, EtagInv, StorageTypeOK
<1>6. SingleInv'
    BY DEF StorageInv, SingleInv
<1>7. SyncedInv'
  <2> SUFFICES ASSUME NEW d \in Containers, mounted[d]
               PROVE  /\ synced'[d] <= Len(store')
                      /\ synced'[d] <= Len(db[d])
                      /\ \A i \in 1..synced'[d] : db[d][i] = store'[i]
                      /\ reader[d] # NoReader => Readers /\ synced'[d] <= reader[d]
      BY DEF SyncedInv
  <2>1. CASE synced'[d] = synced[d]
      BY <1>3, <1>4, <2>1 DEF StorageInv, SyncedInv, StorageTypeOK, IsPrefixOf
  <2>2. CASE d = c /\ synced'[d] = k
      BY <1>1, <2>2 DEF StorageInv, SyncedInv, StorageTypeOK, SafeFrame
  <2> QED BY <2>1, <2>2 DEF StorageTypeOK
<1>8. UpToDateInv'
  <2> SUFFICES ASSUME NEW d \in Containers, mounted[d], AloneOnWal \/ MayPut(d)'
               PROVE  /\ IsPrefixOf(store', db[d])
                      /\ reader[d] # NoReader => Len(store') <= reader[d]
      BY DEF UpToDateInv
  <2>1. CASE d = c
      BY <1>1, <2>1 DEF IsPrefixOf, SafeFrame, StorageTypeOK, NoReader
  <2>2. CASE d # c
    <3>1. ~SingleWriter
        BY <2>2 DEF StorageInv, SingleInv
    <3>2. IfMatch /\ Seeded /\ ~AloneOnWal
        BY <3>1 DEF NoOverwrite, AloneOnWal
    <3>3. held'[d] = held[d] /\ held[d] <= etag /\ held[d] > 0 /\ held[d] \in Nat
        BY <2>2, <3>2 DEF StorageInv, EtagInv, StorageTypeOK
    <3> QED BY <3>1, <3>2, <3>3 DEF MayPut, StorageTypeOK
  <2> QED BY <2>1, <2>2
<1>9. Grows
    BY <1>3 DEF Grows, IsPrefixOf, StorageTypeOK
<1> QED BY <1>4, <1>5, <1>6, <1>7, <1>8, <1>9 DEF Kept, StorageInv, WrittenThroughInv

\* With a rollback journal there are no readers, and only a container whose
\* ETag is the latest may put.
LEMMA RollbackJournal ==
    ASSUME NoOverwrite, StorageTypeOK, StorageInv, NEW c \in Containers, mounted[c],
           JournalMode = "rollback"
    PROVE  /\ reader[c] = NoReader /\ ~AloneOnWal
           /\ MayPut(c) <=> held[c] = etag
           /\ held[c] \in Nat /\ etag \in Nat /\ held[c] <= etag
           /\ synced[c] = Len(db[c])
           /\ db[c] \in Seq(Transactions)
           /\ MayPut(c) => IsPrefixOf(store, db[c])
<1>1. ~Readers /\ IfMatch /\ Seeded /\ ~AloneOnWal
    BY TurboliteAssumption DEF TurboliteAssumption, NoOverwrite, AloneOnWal
<1>2. held[c] \in Nat /\ etag \in Nat /\ held[c] <= etag /\ held[c] > 0
    BY <1>1 DEF StorageInv, EtagInv, StorageTypeOK
<1>3. MayPut(c) <=> held[c] = etag
    BY <1>1, <1>2 DEF MayPut
<1> QED BY <1>1, <1>2, <1>3
        DEF StorageInv, SyncedInv, UpToDateInv, WrittenThroughInv, StorageTypeOK

\* A commit that publishes itself.
LEMMA WriteThroughKeeps ==
    ASSUME NoOverwrite, StorageTypeOK, StorageInv, NEW c \in Containers, mounted[c],
           NEW txn \in Transactions, WriteThrough(c, txn, TRUE)
    PROVE  Kept
<1> DEFINE log == Append(db[c], txn)
<1>1. /\ JournalMode = "rollback" /\ MayPut(c)
      /\ store' = log /\ etag' = etag + 1
      /\ db' = [db EXCEPT ![c] = log]
      /\ held' = [held EXCEPT ![c] = etag + 1]
      /\ synced' = [synced EXCEPT ![c] = Len(db[c]) + 1]
      /\ UNCHANGED <<mounted, reader>>
    BY DEF WriteThrough, Put, Acknowledged
<1>2. /\ log \in Seq(Transactions)
      /\ Len(log) = Len(db[c]) + 1
      /\ \A i \in 1..Len(db[c]) : log[i] = db[c][i]
    BY <1>1, RollbackJournal
<1>3. IsPrefixOf(store, log) /\ IsPrefixOf(db[c], log)
    BY <1>1, <1>2, RollbackJournal DEF IsPrefixOf, StorageTypeOK
<1>4. StorageTypeOK'
    BY WriteThroughTyped
<1>5. /\ db'[c] = log /\ synced'[c] = Len(log) /\ held'[c] = etag + 1
      /\ \A d \in Containers : d # c =>
            db'[d] = db[d] /\ synced'[d] = synced[d] /\ held'[d] = held[d]
    BY <1>1, <1>2 DEF StorageTypeOK
<1>6. \A d \in Containers : mounted[d] => reader'[d] = NoReader
    BY <1>1, RollbackJournal
<1>7. EtagInv'
    BY <1>1, <1>5 DEF StorageInv, EtagInv, StorageTypeOK
<1>8. SingleInv'
    BY <1>1 DEF StorageInv, SingleInv
<1>9. SyncedInv'
  <2> SUFFICES ASSUME NEW d \in Containers, mounted[d]
               PROVE  /\ synced'[d] <= Len(store') /\ synced'[d] <= Len(db'[d])
                      /\ \A i \in 1..synced'[d] : db'[d][i] = store'[i]
      BY <1>1, <1>6 DEF SyncedInv
  <2>1. CASE d = c
      BY <1>1, <1>2, <1>5, <2>1
  <2>2. CASE d # c
      BY <1>1, <1>2, <1>3, <1>5, <2>2 DEF StorageInv, SyncedInv, IsPrefixOf, StorageTypeOK
  <2> QED BY <2>1, <2>2
<1>10. UpToDateInv'
  <2> SUFFICES ASSUME NEW d \in Containers, mounted[d], MayPut(d)'
               PROVE  IsPrefixOf(store', db'[d])
      BY <1>1, <1>6, RollbackJournal DEF UpToDateInv
  <2>1. CASE d = c
      BY <1>1, <1>2, <1>5, <2>1 DEF IsPrefixOf
  <2>2. CASE d # c
      BY <1>1, <1>5, <2>2, RollbackJournal DEF MayPut, NoOverwrite, StorageInv, EtagInv
  <2> QED BY <2>1, <2>2
<1>11. WrittenThroughInv'
    BY <1>1, <1>5 DEF StorageInv, WrittenThroughInv
<1>12. Grows
    BY <1>1, <1>3, <1>5 DEF Grows, IsPrefixOf, StorageTypeOK
<1> QED BY <1>4, <1>7, <1>8, <1>9, <1>10, <1>11, <1>12 DEF Kept, StorageInv

\* A commit whose xSync fails: if S3 took it, no container can put before it
\* has opened the database again.
LEMMA FailedCommitKeeps ==
    ASSUME NoOverwrite, StorageTypeOK, StorageInv, NEW c \in Containers, mounted[c],
           NEW txn \in Transactions, FailedCommit(c, txn, TRUE)
    PROVE  Kept
<1>1. JournalMode = "rollback" /\ UNCHANGED <<mounted, held, db, synced, reader>>
    BY DEF FailedCommit
<1>2. CASE UNCHANGED <<store, etag>>
    BY <1>1, <1>2, StutterKeeps DEF storageVars
<1>3. CASE Put(c, Append(db[c], txn))
  <2>1. MayPut(c) /\ store' = Append(db[c], txn) /\ etag' = etag + 1
      BY <1>3 DEF Put
  <2>2. StorageTypeOK'
      BY FailedCommitTyped
  <2>3. IsPrefixOf(store, store')
      BY <1>1, <2>1, RollbackJournal DEF IsPrefixOf, StorageTypeOK
  <2>4. EtagInv' /\ SingleInv' /\ WrittenThroughInv'
      BY <1>1, <2>1 DEF StorageInv, EtagInv, SingleInv, WrittenThroughInv, StorageTypeOK
  <2>5. SyncedInv'
      BY <1>1, <2>3, <2>2 DEF StorageInv, SyncedInv, IsPrefixOf, StorageTypeOK
  <2>6. UpToDateInv'
      BY <1>1, <2>1, RollbackJournal
         DEF UpToDateInv, MayPut, NoOverwrite, StorageInv, EtagInv
  <2>7. Grows
      BY <1>1, <2>3 DEF Grows, IsPrefixOf, StorageTypeOK
  <2> QED BY <2>2, <2>4, <2>5, <2>6, <2>7 DEF Kept, StorageInv
<1> QED BY <1>2, <1>3 DEF FailedCommit

\* A checkpoint that reports no error.  When it is not busy, what no reader
\* holds back is in S3: all of the connection, when its mode waits for readers
\* or there are none.
LEMMA WalCheckpointKeeps ==
    ASSUME NoOverwrite, StorageTypeOK, StorageInv,
           NEW c \in Containers, mounted[c], NEW mode \in Modes, NEW busy \in BOOLEAN,
           WalCheckpoint(c, mode, TRUE, busy)
    PROVE  /\ Kept
           /\ db' = db
           /\ reader' = reader
           /\ IsPrefixOf(Uploaded(c), store')
           /\ ~busy /\ (mode # "passive" \/ ~Readers) => IsPrefixOf(db[c], store')
<1>1. CASE JournalMode = "wal" /\ Publish(c)
  <2>1. Kept /\ db' = db /\ reader' = reader
      BY <1>1, PutKeeps DEF Publish
  <2>2. Len(store') = SafeFrame(c) /\ \A i \in 1..SafeFrame(c) : store'[i] = db[c][i]
      BY <1>1, UploadedPrefix DEF Publish, Put, StorageInv
  <2>3. IsPrefixOf(Uploaded(c), store')
      BY <1>1, UploadedPrefix DEF Publish, Put, IsPrefixOf
  <2>4. ~busy /\ (mode # "passive" \/ ~Readers) => IsPrefixOf(db[c], store')
      BY <1>1, <2>2, UploadedPrefix
         DEF WalCheckpoint, CheckpointFrames, NothingToCheckpoint, Busy, SafeFrame,
             IsPrefixOf, StorageTypeOK, StorageInv, SyncedInv
  <2> QED BY <2>1, <2>3, <2>4
<1>2. CASE JournalMode = "wal" /\ Copy(c) /\ SafeFrame(c) <= synced[c]
  <2>1. SafeFrame(c) = synced[c]
      BY <1>2, SyncedFrame
  <2>2. UNCHANGED storageVars
      BY <1>2, <2>1 DEF Copy, StorageTypeOK, storageVars
  <2>3. Kept
      BY <2>2, StutterKeeps
  <2>4. synced[c] <= Len(store) /\ \A i \in 1..synced[c] : db[c][i] = store[i]
      BY DEF StorageInv, SyncedInv
  <2>5. IsPrefixOf(Uploaded(c), store')
      BY <2>1, <2>2, <2>4, UploadedPrefix DEF IsPrefixOf, storageVars
  <2>6. ~busy /\ (mode # "passive" \/ ~Readers) => IsPrefixOf(db[c], store')
      BY <1>2, <2>1, <2>2, <2>4, UploadedPrefix
         DEF WalCheckpoint, CheckpointFrames, NothingToCheckpoint, Busy, SafeFrame,
             IsPrefixOf, StorageTypeOK, StorageInv, SyncedInv, storageVars
  <2> QED BY <2>2, <2>3, <2>5, <2>6 DEF storageVars
<1>3. CASE NothingToCheckpoint(busy)
  <2>1. UNCHANGED storageVars /\ JournalMode = "rollback"
      BY <1>3 DEF NothingToCheckpoint
  <2>2. Kept
      BY <2>1, StutterKeeps
  <2>3. /\ reader[c] = NoReader
        /\ synced[c] = Len(db[c])
        /\ synced[c] <= Len(store) /\ \A i \in 1..synced[c] : db[c][i] = store[i]
      BY <2>1, RollbackJournal DEF StorageInv, SyncedInv
  <2>4. IsPrefixOf(db[c], store') /\ IsPrefixOf(Uploaded(c), store')
      BY <2>1, <2>3, UploadedPrefix DEF storageVars, IsPrefixOf, SafeFrame
  <2> QED BY <2>1, <2>2, <2>4 DEF storageVars
<1>4. SafeFrame(c) \in Nat /\ synced[c] \in Nat
    BY UploadedPrefix DEF StorageTypeOK
<1> QED BY <1>1, <1>2, <1>3, <1>4 DEF WalCheckpoint, CheckpointFrames

LEMMA FailedCheckpointKeeps ==
    ASSUME NoOverwrite, StorageTypeOK, StorageInv,
           NEW c \in Containers, mounted[c], FailedCheckpoint(c, TRUE)
    PROVE  Kept /\ db' = db
<1>1. CASE RefusedPut(c, TRUE)
    BY <1>1, StutterKeeps DEF RefusedPut, storageVars
<1>2. CASE LostReply(c, TRUE)
    BY <1>2, PutKeeps DEF LostReply, FailedCheckpoint
<1> QED BY <1>1, <1>2 DEF FailedCheckpoint

LEMMA StorageInitInv ==
    ASSUME StorageInit
    PROVE  StorageTypeOK /\ StorageInv
<1>1. StorageTypeOK
    BY DEF StorageInit, StorageTypeOK, NoReader
<1>2. StorageInv
    BY DEF StorageInit, StorageInv, EtagInv, SingleInv, SyncedInv, UpToDateInv,
           WrittenThroughInv
<1> QED BY <1>1, <1>2

=============================================================================
