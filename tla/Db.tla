-------------------------------- MODULE Db ---------------------------------
(***************************************************************************)
(* The DB engine's write path, read path, memtable flush, compaction and  *)
(* snapshots.  The memtable (memtable.cc), the internal-key format        *)
(* (dbformat.cc) and the snapshot list (snapshot.h) come from the source; *)
(* db.cc, the version set and the tables are not among the sources, so    *)
(* the steps that use them are modelled from the specification (4.8-4.10) *)
(* and follow LevelDB's structure, which this engine ports.               *)
(*                                                                         *)
(* Level-0 files are a sequence, newest first; level 1 is the bottom      *)
(* level and holds the output of every compaction.  A table file is the   *)
(* set of its entries, and is probed like a memtable (Table::InternalGet  *)
(* seeks to the lookup key and the saver checks the user key).            *)
(***************************************************************************)
EXTENDS DbFormat, Sequences, FiniteSets, SequencesExt

CONSTANTS
  Keys,                  \* user keys (integers, in comparator order)
  Values,                \* values Put may write
  KeySize, ValueSize,    \* encoded sizes (MemTable::Add)
  WriteBufferSize,       \* options.write_buffer_size
  L0CompactionTrigger,   \* config::kL0_CompactionTrigger
  Clients,               \* client threads calling DB::Write
  MaxSnapshots,          \* how many snapshots clients hold at once (bound)
  MaxCrashes             \* how many times the process may crash (bound)

VARIABLES
  mem,        \* the mutable memtable
  imm,        \* the memtable being flushed
  hasimm,     \* imm != nullptr
  level0,     \* Seq of level-0 files (sets of entries), newest first
  level1,     \* the entries of the bottom level
  last,       \* versions->LastSequence()
  writers,    \* the writer queue: the head is the leader
  pending,    \* the entries of the group the leader inserted with the mutex
              \* released, not yet published by advancing the last sequence
  snaps,      \* SnapshotList::lists
  held,       \* sequence numbers of the snapshots clients hold
  hist,       \* every write inserted so far (the reference history)
  log,        \* the WAL of mem: its records (batches of entries), in order
  synced,     \* how many records of log an fsync has put on stable storage
  immlog,     \* the WAL of imm, deleted once imm is flushed
  manifest,   \* the last sequence recorded by the last LogAndApply
  durable,    \* the writes returned OK to a caller that asked for sync
  crashes     \* crashes so far

vars == <<mem, imm, hasimm, level0, level1, last, writers, pending, snaps, held,
          hist, log, synced, immlog, manifest, durable, crashes>>

\* The variables of the write path that only writes and crashes change.
queue == <<writers, pending, durable>>

MT == INSTANCE MemTable
SL == INSTANCE SnapshotList

NotFound == "notfound"

Init ==
  /\ mem = MT!EmptyMemTable
  /\ imm = MT!EmptyMemTable
  /\ hasimm = FALSE
  /\ level0 = <<>>
  /\ level1 = {}
  /\ last = 0
  /\ writers = <<>>
  /\ pending = <<>>
  /\ snaps = <<>>
  /\ held = {}
  /\ hist = {}
  /\ log = <<>>
  /\ synced = 0
  /\ immlog = <<>>
  /\ manifest = 0
  /\ durable = {}
  /\ crashes = 0

(***************************************************************************)
(* MakeRoomForWrite: keep the memtable while it is within the write       *)
(* buffer; otherwise wait while imm is still being flushed, else rotate   *)
(* mem into imm (and schedule the flush) and start a new log, the old    *)
(* one becoming imm's.  The brief sleep when level 0 has many files only *)
(* delays the writer and is left out.  Returns the memtables and logs    *)
(* after the call, or wait = TRUE while the writer must wait.            *)
(***************************************************************************)
Keep == [wait |-> FALSE, mem |-> mem, imm |-> imm, hasimm |-> hasimm,
         log |-> log, synced |-> synced, immlog |-> immlog]
Rotate == [wait |-> FALSE, mem |-> MT!EmptyMemTable, imm |-> mem, hasimm |-> TRUE,
           log |-> <<>>, synced |-> 0, immlog |-> log]

\* Seeded fault: a full memtable keeps growing while imm is being flushed.
MakeRoomNoWait ==
  IF mem.memoryusage <= WriteBufferSize \/ hasimm THEN Keep ELSE Rotate

MakeRoomForWrite ==
  IF mem.memoryusage <= WriteBufferSize THEN Keep
  ELSE IF hasimm THEN [Keep EXCEPT !.wait = TRUE]
  ELSE Rotate

(***************************************************************************)
(* DB::Write: the caller's Writer joins the queue and waits until it is   *)
(* done or at the head.  A batch holds one Put or Delete.                 *)
(***************************************************************************)
Enqueue(c, k, type, v, sync) ==
  /\ \A i \in DOMAIN writers : writers[i].c # c
  /\ last + Len(writers) < MaxSequence
  /\ writers' = Append(writers, [c |-> c, key |-> k, type |-> type, val |-> v, sync |-> sync])
  /\ UNCHANGED <<mem, imm, hasimm, level0, level1, last, pending, snaps, held, hist,
                 log, synced, immlog, manifest, durable, crashes>>

(***************************************************************************)
(* BuildBatchGroup: the leader's batch and the followers' after it, up to *)
(* the first sync writer behind a leader that does not sync (the size    *)
(* limit is never reached by the model's batches).                        *)
(***************************************************************************)
\* Seeded fault: a sync follower joins a group that is not synced.
BatchGroupAll(ws) == ws

BatchGroup(ws) ==
  LET stop == {i \in 2..Len(ws) : ws[i].sync /\ ~ws[1].sync}
  IN IF stop = {} THEN ws
     ELSE SubSeq(ws, 1, (CHOOSE i \in stop : \A j \in stop : i <= j) - 1)

\* WriteBatchInternal::InsertInto: every entry of the batch, in order.
InsertBatch(m, es) ==
  FoldLeft(LAMBDA acc, e : MT!Add(acc, e.seq, e.type, e.key, e.val), m, es)

(***************************************************************************)
(* The leader, under the mutex: MakeRoomForWrite, then BuildBatchGroup at *)
(* LastSequence + 1.  With the mutex released: the group's batch is one   *)
(* log record, fsynced if the leader asked for sync, then inserted into  *)
(* the memtable.  Publishing is a second step, after the mutex is taken  *)
(* again.                                                                  *)
(***************************************************************************)
Lead ==
  LET room == MakeRoomForWrite
      g    == BatchGroup(writers)
      es   == [i \in 1..Len(g) |-> [key |-> g[i].key, seq |-> last + i,
                                    type |-> g[i].type, val |-> g[i].val]]
  IN /\ writers # <<>>
     /\ pending = <<>>
     /\ ~room.wait
     /\ mem' = InsertBatch(room.mem, es)
     /\ imm' = room.imm
     /\ hasimm' = room.hasimm
     /\ log' = Append(room.log, es)
     /\ synced' = IF g[1].sync THEN Len(room.log) + 1 ELSE room.synced
     /\ immlog' = room.immlog
     /\ pending' = es
     /\ hist' = hist \cup Range(es)
     /\ UNCHANGED <<level0, level1, last, writers, snaps, held, manifest, durable, crashes>>

\* Seeded fault: one writer more than the group is popped and woken.
PublishPopsOneMore ==
  /\ pending # <<>>
  /\ last' = last + Len(pending)
  /\ durable' = durable \cup {pending[i] : i \in {j \in DOMAIN pending : writers[j].sync}}
  /\ writers' = SubSeq(writers, Len(pending) + 2, Len(writers))
  /\ pending' = <<>>
  /\ UNCHANGED <<mem, imm, hasimm, level0, level1, snaps, held, hist,
                 log, synced, immlog, manifest, crashes>>

\* The leader retakes the mutex, sets the last sequence and wakes the
\* group's writers, done.
Publish ==
  /\ pending # <<>>
  /\ last' = last + Len(pending)
  /\ durable' = durable \cup {pending[i] : i \in {j \in DOMAIN pending : writers[j].sync}}
  /\ writers' = SubSeq(writers, Len(pending) + 1, Len(writers))
  /\ pending' = <<>>
  /\ UNCHANGED <<mem, imm, hasimm, level0, level1, snaps, held, hist,
                 log, synced, immlog, manifest, crashes>>

(***************************************************************************)
(* CompactMemTable: the background thread writes imm to a new level-0     *)
(* file (every entry is kept), records it with LogAndApply (which also    *)
(* saves the last sequence) and drops imm; imm's log is then obsolete.    *)
(***************************************************************************)
\* Seeded fault: the new file is placed after the older level-0 files.
FlushImmOldestFirst ==
  /\ hasimm
  /\ level0' = level0 \o <<imm.entries>>
  /\ imm' = MT!EmptyMemTable
  /\ hasimm' = FALSE
  /\ immlog' = <<>>
  /\ manifest' = last
  /\ UNCHANGED <<mem, level1, last, queue, snaps, held, hist, log, synced, crashes>>

FlushImm ==
  /\ hasimm
  /\ level0' = <<imm.entries>> \o level0
  /\ imm' = MT!EmptyMemTable
  /\ hasimm' = FALSE
  /\ immlog' = <<>>
  /\ manifest' = last
  /\ UNCHANGED <<mem, level1, last, queue, snaps, held, hist, log, synced, crashes>>

(***************************************************************************)
(* The sequence compaction protects: the oldest live snapshot, or the     *)
(* last sequence when the snapshot list is empty.                          *)
(***************************************************************************)
SmallestSnapshot ==
  IF SL!SnapshotListEmpty(snaps) THEN last ELSE SL!Oldest(snaps)

(***************************************************************************)
(* DoCompactionWork's drop rule, for an entry e of the inputs S merged    *)
(* into the bottom level: e is dropped when the entry before it for the   *)
(* same user key (the next newer one) has a sequence at or below the      *)
(* smallest snapshot, or when e is a deletion at or below it (the output  *)
(* is the base level for every key).                                       *)
(***************************************************************************)
Drops(e, S, smallest) ==
  \/ \E f \in S : f.key = e.key /\ f.seq > e.seq /\ f.seq <= smallest
  \/ e.type = kTypeDeletion /\ e.seq <= smallest

\* BackgroundCompaction when no imm is pending and level 0 has reached its
\* trigger: all level-0 files and level 1 are merged into level 1.
Compact ==
  /\ ~hasimm
  /\ Len(level0) >= L0CompactionTrigger
  /\ LET S == level1 \cup UNION {level0[i] : i \in DOMAIN level0}
     IN level1' = {e \in S : ~Drops(e, S, SmallestSnapshot)}
  /\ level0' = <<>>
  /\ manifest' = last
  /\ UNCHANGED <<mem, imm, hasimm, last, queue, snaps, held, hist, log, synced, immlog, crashes>>

\* DB::GetSnapshot: snapshots->NewSnapshot(LastSequence()) under the mutex.
GetSnapshot ==
  LET r == SL!NewSnapshot(snaps, last)
  IN /\ Cardinality(held) < MaxSnapshots
     /\ SL!NewSnapshotAssert(snaps, last)
     /\ r.handle \notin held
     /\ snaps' = r.lists
     /\ held' = held \cup {r.handle}
     /\ UNCHANGED <<mem, imm, hasimm, level0, level1, last, queue, hist,
                    log, synced, immlog, manifest, crashes>>

\* DB::ReleaseSnapshot: snapshots->DeleteSnapshot(s) under the mutex.
ReleaseSnapshot(h) ==
  /\ snaps' = SL!DeleteSnapshot(snaps, h)
  /\ held' = held \ {h}
  /\ UNCHANGED <<mem, imm, hasimm, level0, level1, last, queue, hist,
                    log, synced, immlog, manifest, crashes>>

-----------------------------------------------------------------------------
(***************************************************************************)
(* Crash and recovery (spec 4.11).  RecoverLogFile replays a log into a   *)
(* fresh memtable, writing it to a level-0 file whenever it exceeds the   *)
(* write buffer and once more at the end if it is not empty.  Files are   *)
(* added newest first.                                                     *)
(***************************************************************************)
RECURSIVE ReplayLog(_, _, _)
ReplayLog(l, m, files) ==
  IF l = <<>>
  THEN IF m.entries = {} THEN files ELSE <<m.entries>> \o files
  ELSE LET m2 == InsertBatch(m, Head(l))
       IN IF m2.memoryusage > WriteBufferSize
          THEN ReplayLog(Tail(l), MT!EmptyMemTable, <<m2.entries>> \o files)
          ELSE ReplayLog(Tail(l), m2, files)

\* The sequences of the records of the logs.
LoggedSequences(logs) == {e.seq : e \in UNION {Range(FlattenSeq(l)) : l \in logs}}

\* Seeded fault: last-sequence is the largest sequence replayed, 0 if none.
RecoveredSequenceLogsOnly(logs) ==
  LET seqs == {0} \cup LoggedSequences(logs)
  IN CHOOSE s \in seqs : \A t \in seqs : t <= s

\* The largest sequence of the logs, or the manifest's if that is larger.
RecoveredSequence(logs) ==
  LET seqs == {manifest} \cup LoggedSequences(logs)
  IN CHOOSE s \in seqs : \A t \in seqs : t <= s

\* Seeded fault: only the newest log is replayed; imm's log is forgotten.
RecoverLogs(l) == ReplayLog(l, MT!EmptyMemTable, level0)

\* Every log at or after the manifest's log number, oldest first.
RecoverAllLogs(l) == ReplayLog(l, MT!EmptyMemTable, ReplayLog(immlog, MT!EmptyMemTable, level0))

(***************************************************************************)
(* The machine dies at any point and DB::Open recovers.  Of the current   *)
(* log, the records after the last fsync may not have reached the disk:  *)
(* any number of them is lost, the leader's unpublished one included.    *)
(* The older log was closed at rotation and is taken as on disk.          *)
(* Memtables, snapshots and the writer queue go with the process.         *)
(* Recovery replays imm's log, then mem's, into level-0 files, records   *)
(* them with LogAndApply, sets the last sequence and starts with an      *)
(* empty memtable and a new log.                                          *)
(***************************************************************************)
CrashRecover ==
  /\ crashes < MaxCrashes
  /\ \E n \in synced..Len(log) :
       LET kept == SubSeq(log, 1, n)
           lost == UNION {Range(log[i]) : i \in (n + 1)..Len(log)}
           s    == RecoveredSequence({kept, immlog})
       IN /\ level0' = RecoverAllLogs(kept)
          /\ last' = s
          /\ manifest' = s
          /\ hist' = hist \ lost
  /\ mem' = MT!EmptyMemTable
  /\ imm' = MT!EmptyMemTable
  /\ hasimm' = FALSE
  /\ log' = <<>>
  /\ synced' = 0
  /\ immlog' = <<>>
  /\ writers' = <<>>
  /\ pending' = <<>>
  /\ snaps' = <<>>
  /\ held' = {}
  /\ crashes' = crashes + 1
  /\ UNCHANGED <<level1, durable>>

Next ==
  \/ \E c \in Clients, k \in Keys, sync \in BOOLEAN :
       \/ \E v \in Values : Enqueue(c, k, kTypeValue, v, sync)
       \/ Enqueue(c, k, kTypeDeletion, "", sync)
  \/ Lead
  \/ Publish
  \/ FlushImm
  \/ Compact
  \/ GetSnapshot
  \/ \E h \in held : ReleaseSnapshot(h)
  \/ CrashRecover

Spec == Init /\ [][Next]_vars

-----------------------------------------------------------------------------
(***************************************************************************)
(* DB::Get(key) at sequence s: probe mem, then imm, then the level-0      *)
(* files newest first, then level 1 (Version::Get).  The first source    *)
(* that decides (MemTable::Get returns true, or a table's saver matches  *)
(* the user key) gives the answer; a deletion reads as NotFound.          *)
(***************************************************************************)
Sources ==
  <<mem.entries>> \o (IF hasimm THEN <<imm.entries>> ELSE <<>>) \o level0 \o <<level1>>

RECURSIVE Probe(_, _, _)
Probe(srcs, k, s) ==
  IF srcs = <<>> THEN NotFound
  ELSE LET r == MT!Get([entries |-> Head(srcs), memoryusage |-> 0], k, s)
       IN IF r = MT!Miss THEN Probe(Tail(srcs), k, s)
          ELSE IF r = MT!Deleted THEN NotFound
          ELSE r

DBGet(k, s) == Probe(Sources, k, s)

\* What a read at sequence s should return (spec section 8): the newest
\* write to k at or below s, NotFound if that is a deletion or none exists.
Expected(k, s) ==
  LET ws == {w \in hist : w.key = k /\ w.seq <= s}
      w  == CHOOSE w \in ws : \A x \in ws : x.seq <= w.seq
  IN IF ws = {} \/ w.type = kTypeDeletion THEN NotFound ELSE w.val

\* The largest memoryusage a memtable can reach: the buffer plus a group,
\* at most one entry per client.
MaxUsage == WriteBufferSize + Cardinality(Clients) * (MT!VarintLength(KeySize + 8) + KeySize + 8
                                                      + MT!VarintLength(ValueSize) + ValueSize)

-----------------------------------------------------------------------------
(***************************************************************************)
(* Types, and the bound MakeRoomForWrite keeps: a memtable (mem or imm)   *)
(* never exceeds the write buffer by more than the one group written      *)
(* after the check.                                                        *)
(***************************************************************************)
TypeOK ==
  /\ \A m \in {mem, imm} :
       /\ m.entries \subseteq Entry(Keys, Values \cup {""})
       /\ m.memoryusage \in 0..MaxUsage
  /\ hasimm \in BOOLEAN
  /\ \A i \in DOMAIN level0 : level0[i] \subseteq Entry(Keys, Values \cup {""})
  /\ level1 \subseteq Entry(Keys, Values \cup {""})
  /\ last \in 0..MaxSequence
  /\ snaps \in Seq(0..MaxSequence)
  /\ held \subseteq 0..MaxSequence
  /\ {log, immlog} \subseteq Seq(Seq(Entry(Keys, Values \cup {""})))
  /\ synced \in 0..Len(log)
  /\ durable \subseteq Entry(Keys, Values \cup {""})
  /\ manifest \in 0..MaxSequence
  /\ crashes \in 0..MaxCrashes

(***************************************************************************)
(* A read at the last sequence returns the newest published write of     *)
(* every key, whatever rotations, flushes and compactions came before,   *)
(* and while the leader's insert at the next sequence is already in the  *)
(* memtable (MemTable::Get's seek skips it; DB::Get, Version::Get).       *)
(***************************************************************************)
ReadAtLastSequence ==
  \A k \in Keys : DBGet(k, last) = Expected(k, last)

(***************************************************************************)
(* Newer data is probed first: for every user key, each source DB::Get    *)
(* probes holds only entries newer than every entry of that key in the    *)
(* sources probed after it.  This is what lets Get stop at the first      *)
(* source that decides (rotation, CompactMemTable's level-0 order,        *)
(* compaction into the bottom level).                                      *)
(***************************************************************************)
NewerProbedFirst ==
  \A i, j \in DOMAIN Sources : i < j =>
    \A e \in Sources[i], f \in Sources[j] : e.key = f.key => e.seq > f.seq

(***************************************************************************)
(* A write returned OK to a caller that asked for sync survives every     *)
(* crash and stays readable: it was on disk before its caller was woken  *)
(* (spec section 5: WAL fsync happens before the writer is woken), which  *)
(* needs BuildBatchGroup to keep sync writers out of a group that is not  *)
(* synced, the leader to sync before waking the group, and recovery to    *)
(* restore it with a last sequence at or above it.                         *)
(***************************************************************************)
SyncedWritesSurvive ==
  \A w \in durable : w \in hist /\ w.seq <= last

(***************************************************************************)
(* A writer leaves the queue, other than by a crash, only once its batch  *)
(* is written: the writers popped and woken done are the group the leader *)
(* built from the head of the queue, each with its own batch at its own   *)
(* sequence, even though other writers joined the queue while the leader *)
(* wrote with the mutex released (DB::Write's pop loop up to lastwriter). *)
(***************************************************************************)
Left(i) == \A j \in DOMAIN writers' : writers'[j].c # writers[i].c

WokenWritersWritten ==
  [][crashes' = crashes =>
       \A i \in DOMAIN writers :
         Left(i) => \E e \in Range(pending) :
                      /\ e.seq = last + i
                      /\ e.key = writers[i].key
                      /\ e.type = writers[i].type
                      /\ e.val = writers[i].val]_vars

(***************************************************************************)
(* A snapshot reads what the database held when it was taken, for as     *)
(* long as the client holds it (spec section 8, scenario 2: a snapshot   *)
(* taken before a Put still reads the old value).  Compaction keeps       *)
(* older versions only for snapshots in SnapshotList.                      *)
(***************************************************************************)
SnapshotReadStable ==
  \A h \in held, k \in Keys : DBGet(k, h) = Expected(k, h)
=============================================================================
