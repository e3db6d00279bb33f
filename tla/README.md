# TLA+ models of cpp-swiss-army-knife

This directory holds TLA+ models of the repository's code, the TLC
configurations that check them, and `PROJECT.json`. `PROJECT.json` lists
every component, every run, the seeded faults each property must catch, the
source lines each definition models, the findings and the hazards.

## The system

The sources under `src/` contain several unrelated pieces.

* **Storage engine (`src/redisdb/db`).** This is a LevelDB-style LSM engine.
  Of it the repository ships:
  * the write-ahead-log reader (`logreader.cc`);
  * the log writer's class declaration (`logwriter.h`; its body is not among
    the sources);
  * the memtable (`memtable.cc`);
  * the internal-key format and comparators (`dbformat.cc`);
  * the merging iterator (`merger.cc`);
  * the snapshot list (`snapshot.h`);
  * `crc32c.h` (Mask/Unmask);
  * declarations only for the DB, DBIter, Table and TableBuilder (the
    table's build and probe are modelled from them and spec 4.6).

  Writers append a batch to the log (LogWriter::AddRecord) and then insert it
  into the memtable (MemTable::Add). Reads go to the memtable first
  (MemTable::Get with a LookupKey at the read sequence), then to the table
  files. Scans merge child iterators under the internal-key comparator
  (MergingIterator). Snapshots pin a sequence number (SnapshotList). Recovery
  replays the log with LogReader::ReadRecord until it returns false.
* **`src/blockqueue/blockqueue.h`.** A mutex and condition-variable blocking
  queue.
* **`src/http/httpcontext.cc`.** An incremental HTTP request/response parser
  fed from a buffer.
* **`src/websocket/webrequest.h`.** A WebSocket frame decoder state machine.
* **`src/idleconnection/idelconnection.cc`.** An echo server that closes
  idle connections. It keeps a list ordered by last receive time and scans it
  from a timer.
* **`src/procmon/performanceinspector.cc`.** HTTP handlers that expose
  process statistics.
* **`src/redisdb/example/cachetest.cc`.** An LRU-cache test built around a
  hand-written lookup/insert/erase wrapper.

## Inventory of behaviour worth checking

| Component | State | Operations | Hard behaviour |
|---|---|---|---|
| WAL writer | file bytes, `blockoffset` | AddRecord | fragmentation across blocks, padding of block tails shorter than a header |
| WAL reader | buffer, `endofbufferoffset`, `eof`, `lastrecordoffset`, `resyncing`, `initialoffset` | constructor, SkipToInitialBlock, ReadPhysicalRecord, ReadRecord, ReportDrop | crash at any byte, checksum or length damage, read errors, initial offsets inside a record, reassembling fragments, the uint64 arithmetic of ReportDrop |
| MemTable | skip list of internal keys | Add, Get | multi-version lookups at a sequence, deletions hiding older values |
| dbformat | none (pure) | packSequenceAndType, ParseInternalKey, internal-key compare, FindShortestSeparator, FindShortSuccessor | ordering by (user key asc, sequence desc, type desc) at 64-bit width; separators staying between their bounds |
| Table, TableBuilder | data block, written blocks, index, pending index entry, last key | Add, flush, Finish, Abandon, InternalGet | the deferred index entry, a separator that must stay below the next block, a probe that looks in one block only |
| crc32c | none (pure) | Mask, Unmask | 32-bit wrap of the added and subtracted delta; rotation amounts |
| MergingIterator | children, current, direction | Seek, SeekToFirst/Last, Next, Prev | switching direction between forward and backward |
| SnapshotList | circular list | NewSnapshot, Delete, oldest, newest | the list order the compaction reads |
| BlockingQueue | deque, mutex, condition | put, take, size | blocking take, lost wake-ups |
| HttpContext | parse state, request/response | parseRequest, parseResponse | partial input across calls, states that make no progress |
| EchoServer idle connections | connection list ordered by time | onConnection, onMessage, onTimer | list order kept by splice, clock going backwards, the int8 idle limit |
| cachetest | cache, deleted keys | lookup, insert, erase, hitAndMiss | a fixed script: nothing varies between runs |

The properties that make these correct:

* the log returns whole records, in append order, and loses only what a crash
  or damage touched;
* a lookup at sequence *s* returns the newest write at or below *s*;
* after a crash, recovery restores a prefix of the writes, and every
  sequence number stays unique;
* a write acknowledged to a caller that asked for sync survives a crash;
* a merge scan yields keys in comparator order with none skipped or repeated;
* compaction never drops a version that a live snapshot can see;
* a taken element was put, and none is taken twice, in put order, and
  every put element is eventually taken;
* the idle timer closes every connection idle past the limit, and no other;
* an incremental parse does not depend on how the input was split;
* a masked checksum unmasks to itself, and a tag parses back to its
  sequence and type;
* a table answers a lookup with the entry of the user key it holds,
  although it looks in one block only.

## Modules

Each component is a module. Components that only transform a value (the
memtable, the snapshot list, the key algorithms, the HTTP parse loops) are
operators on that value. They are composed in the module that holds the
state (`Db`, `Wal`, the HTTP connection modules). Each `MC*.tla` module
gives the constants for TLC. A seeded fault, an operator whose comment
starts "Seeded fault", sits just before the definition it alters. Its use
is described under "Seeded faults" below.

### Write-ahead log

* `LogFormat` holds the physical layout of a log file. A file is a sequence
  of chunks (physical records). Each chunk has its offset, type and payload
  length, and the logical record and fragment it carries. Payload bytes are
  not modelled. Padding is the gap before the next block.
* `LogWriter` models LogWriter::AddRecord as the recursive operator
  `Fragment`, its do/while loop. The variables are the file's chunks, the
  bytes written, and `blockoffset`. The body of AddRecord is not in `src/`,
  so this part is modelled from spec section 4.4.
* `LogReader` translates `logreader.cc`:
  * each method is an operator on the reader's member state;
  * `ReadPhysicalRecord` and the loop of `ReadRecord` are recursive
    operators;
  * each `case` of the type switch is its own operator (`OnFull`,
    `OnFirst`, `OnMiddle`, `OnLast`, `OnEof`, `OnBad`);
  * the reporter is a count of drops.
* `Wal` composes the writer and the reader:
  * a client writes records;
  * the process crashes, and any byte prefix of the file survives, with at
    most one damage: a corrupted checksummed byte, a corrupted length
    field, or a block whose read fails;
  * recovery opens a reader at an initial offset and calls ReadRecord until
    it returns false, one atomic action per call.

  The reader is single-threaded. The only interleaving that matters, the
  writer against the crash, is the choice of crash point.
* `WalLog` is the abstract log. Records are appended, a crash keeps a
  durable prefix, and replay delivers durable records in increasing order.
  `Wal` refines it. A returned record that is not exactly one written record
  maps to 0, which WalLog never delivers.

### Storage engine

* `DbFormat` holds the value types, the tag (`packSequenceAndType`), the
  internal-key order (user key ascending, tag descending), `LookupKey`, and
  `SeekFirst`, the skip list's seek. The engine models use the tag as the
  integer `seq * 256 + type`. `PackSequenceAndTypeWord` and
  `ParseInternalKey` compute it as the code does, on 64-bit words, and
  `TagOrdered` states what the integer reading assumes of them.
* `MemTable` models `memtable.cc`:
  * `Add` charges `encodedlen` to `memoryusage` (varint lengths included);
  * `Get` seeks to the LookupKey and answers with the entry's value,
    Deleted, or a miss.
* `SnapshotList` models `snapshot.h` as operators on a sequence of
  sequence numbers, oldest first. `NewSnapshot` returns a handle and, as the
  code does, leaves the list unchanged.
* `Db` composes them into the engine: `mem`, `imm`, level-0 files
  (newest first), the bottom level, the last sequence and the snapshots.
  * `Enqueue` is a client's DB::Write joining the writer queue, with or
    without `sync`.
  * `Lead` is the queue head, the leader: MakeRoomForWrite (`Keep` or
    `Rotate`), then `BatchGroup` (BuildBatchGroup) takes the queue's
    prefix up to the first sync writer behind a leader that does not
    sync. With the mutex released, the group is one log record, fsynced
    if the leader asked for sync, and is inserted into the memtable
    (`InsertBatch`).
  * `Publish` is the later advance of the last sequence by the group's
    size. It pops the group's writers and wakes them.
  * `FlushImm` is CompactMemTable.
  * `Compact` merges level 0 into the bottom level, dropping entries under
    the smallest snapshot.
  * `GetSnapshot` and `ReleaseSnapshot` call into SnapshotList.
  * `DBGet` probes mem, imm, the level-0 files and the bottom level in that
    order.
  * `log` and `immlog` are the WALs of mem and imm, as the sequences of
    their records (one batch each). `synced` counts the records of `log`
    an fsync has put on disk. A rotation starts a new log. `FlushImm` deletes imm's
    log and, like `Compact`, saves the last sequence in `manifest`
    (LogAndApply).
  * `CrashRecover` is a machine crash followed by DB::Open. Any tail of
    the current log after its last fsynced record may be lost, the
    leader's unpublished record included. The older log was closed at
    rotation and is taken as on disk. Memtables, snapshots and the writer
    queue are lost with the process.
    Recovery replays imm's log, then mem's, with `ReplayLog`
    (RecoverLogFile): a level-0 file each time the memtable passes the
    write buffer, and one more for what is left. The last sequence is the
    largest of the manifest's and the replayed records'
    (`RecoveredSequence`). A crash inside a flush or compaction is the same
    as one just before it, because LogAndApply is their commit point.

  `db.cc` and the version set are not among the sources. Their steps are
  modelled from spec sections 4.8 to 4.11 and marked `spec_modelled` in the
  map. `Write`, `DBGet`, `CrashRecover` and `ReplayLog` are mapped to the
  contracts `db.h` declares for them.

### Key algorithms

* `Comparator` models `dbformat.cc`:
  * `BytewiseLess` is the bytewise comparator;
  * `FindShortestSeparator` and `FindShortSuccessor` on user keys;
  * the InternalKeyComparator versions, which re-append the largest tag.

  The state is the pair of keys a call receives (start < limit), fixed for a
  behaviour. The invariants check the results against reference
  definitions: the set of keys between the bounds, and every key not below
  the input.
* `Words` gives C++ unsigned integers of a fixed width as their bits
  (shifts, OR, and `+`/`-` wrapping at 2^w), because TLC's integers stop
  at 2^31. It models the language, not the repository.
* `Crc32c` models `crc32c.h`: `Mask` rotates right by 15 and adds
  `kMaskDelta`; `Unmask` subtracts it and rotates right by 17.
* `Table` models TableBuilder and Table::InternalGet (`tablebuilder.h`,
  `table.h`; their bodies are not among the sources, so the steps follow
  spec 4.6 and the contracts in the headers). A data block is the
  sequence of its keys and a handle is the block's number.
  * `input` is the sorted keys the caller will Add (the REQUIRES of Add).
    `added`, `dataBlock`, `blocks`, `index`, `pendingIndexEntry`,
    `lastKey` and `closed` are the builder's Rep.
  * `Add` first writes the previous block's pending index entry as
    InternalFindShortestSeparator(lastKey, key), then appends the key and
    flushes the block if it has reached `BlockEntries` keys.
  * `Flush` is flush(); an empty block is not written.
  * `Finish` flushes, then writes the pending entry as
    InternalFindShortSuccessor(lastKey). `Abandon` stops the builder.
  * `InternalGet` seeks the index to the first separator not below the
    probe and seeks that one block; it never moves on to the next block.
* `MCComparator` checks these algorithms one call per behaviour: a key
  pair for the shortening, or a checksum, or a pair of (sequence, type)
  tags, or one table built with Add, flush and Finish in every order.

### Merging iterator

* `MergingIterator` models `merger.cc`:
  * `NewMergingIterator` picks the empty iterator for no source, the lone
    child itself for one, and a merge for more. `kind` records the choice,
    and `EmptyStep` and `LoneStep` are the first two cases;
  * the children are MemTableIterators (`memtable.cc`), which forward to
    the skip list. They are sorted sequences of keys with disjoint key
    sets, and `ChildSeek` and the other child moves are their methods;
  * `pos`, `current` and `direction` are the members;
  * there is one action per method;
  * `FindSmallest` and `FindLargest` keep the code's tie-break;
  * the Next/Prev repositioning of the other children is its own operator.
* `MergedCursor` is the abstract iterator: a cursor over a sorted key set.
  `MergingIterator` refines it. A history variable `call` records the
  client's last method, so a wrong step cannot pass as another method.

### Blocking queue

* `BlockingQueue` models `blockqueue.h`.
  * Each `put` is one step: it holds the mutex for its whole body (lock,
    push_back, notify_one).
  * `take` has four steps: `Lock`, then `Check` (the `while (queue.empty())`
    test, which either waits, releasing the mutex, or pops the front), then
    `SpuriousWake` and `Reacquire`, the two ways `notEmpty.wait` returns.
  * `notify_one` wakes one waiting consumer, chosen by `\E`, or none.

  The history variables `putlog` and `taken` record every item put and
  taken.

### Idle connections

* `IdleConnection` models `idelconnection.cc`:
  * `Connect` and `Disconnect` are the two branches of onConnection;
  * `Message` is onMessage: restamp, then splice to the back;
  * `Tick` is onTimer, whose loop is the recursive `Walk`: shut down the
    idle, restamp the future ones, stop at the first other one;
  * `Clock` is the wall clock, which may step back by up to `BackStep`;
  * `Int8` is the narrowing of argv[3].

  `IsIdle` is the idle test. All callbacks run on the one event-loop
  thread, so each is one step. The
  "expired" branch of onTimer is not modelled. A connection leaves the list
  in its disconnect callback, before its TcpConnection can die.

### HTTP parser

* `HttpContext` holds the parser's operators: `ProcessRequestLine`,
  `ProcessResponseLine`, and the loops `ParseRequest` and `ParseResponse` as
  recursive operators. A state in which the loop would spin is reported as
  "hung". `HeaderCRLF` and `BlankLine` are the header branch's CRLF search
  and its blank-line case. The byte stream is abstracted to tokens:
  * a line's text is the sequence of its space-separated words;
  * each line ends with a `CRLF` token;
  * each body byte is a `Byte` token.

  A read boundary inside a line's text looks, to the parser, the same as one
  just before its CRLF. The buffer, request and response classes are not in
  `src/`. `findCRLF`, `readableBytes`, `reset` and `getBodySize` are
  modelled from their use and marked `spec_modelled`.
* `HttpRequestConn` and `HttpResponseConn` are a connection. A fixed stream
  arrives in reads of 1 to `MaxFragment` tokens, and the parser runs after
  each. The caller is not among the sources. It is assumed to hand on a
  complete message, reset the context, and resume parsing what is left. A
  failed parse ends the connection.

## Runs

| Run | Config | Checks | Shows |
|---|---|---|---|
| `wal_replay` | `MCWal.cfg` | TypeOK, LastRecordOffsetExact, DamageConfined, TornTailSilent, WalRefinesLog | Replay returns whole written records, in order, at their offsets. It loses only torn records, records in a damaged block, and records before the initial offset. A tear alone is never reported. |
| `wal_spurious_report` | `MCWalSpurious.cfg` | NoSpuriousReport (violated) | A reader opened inside a fragmented record reports corruption on an undamaged log. |
| `db_reads` | `MCDb.cfg` | TypeOK, ReadAtLastSequence, NewerProbedFirst, SyncedWritesSurvive, WokenWritersWritten | A read at the last sequence returns the newest surviving write, even while the leader's group is already in the memtable. This holds through group commit, rotation, the writer's wait for the flush, level-0 files, compaction, and a crash and recovery. Newer data always sits in the source probed first. A write acknowledged with sync survives the crash. A writer leaves the queue only once its own batch has been written at its own sequence, even though other writers join while the leader writes unlocked (WokenWritersWritten). TypeOK includes the memtable-size bound MakeRoomForWrite keeps. |
| `db_snapshot_stability` | `MCDbSnapshot.cfg` | SnapshotReadStable (violated) | A held snapshot reads newer values after a compaction, because it was never added to the list. |
| `format_algorithms` | `MCComparator.cfg` | SeparatorInBounds, InternalSeparatorInBounds, SuccessorIsShortest, MaskRoundTrip, PackedTagOrder, TableGetExact | The separator lies in [start, limit), both bytewise and in internal-key order. The successor is not below its key and is as short as possible. Unmask undoes Mask across the 32-bit wrap, so the log reader's checksum test fails only on damage. Up to kMaxSequenceNumber, a tag parses back and tags order as (sequence, type), as the engine's integer tag assumes. A finished table of up to three keys, with blocks cut anywhere, answers every probe with the first entry of the probe's user key that the added keys hold (TableGetExact). The same-user restriction is needed: a probe between a block's last key and its separator finds nothing, while Seek over all keys would find the next block's first key. |
| `merging_iterator` | `MCMergingIterator.cfg` | ChildrenPositioned, MergingRefinesCursor | Over 0 to 3 sources, the iterator NewMergingIterator returns moves exactly like a cursor over the sorted union, through every change of direction. The children stay where Next and Prev assume they are. |
| `blocking_queue` | `MCBlockingQueue.cfg` | TakenThenQueuedIsPut, EveryPutTaken | The items taken, followed by the queue, are exactly the items put, in put order, despite spurious wake-ups and competing consumers. Every item put is eventually taken (no lost wake-up). |
| `idle_timeout` | `MCIdleConnection.cfg` | ListIsLive, TickShutsAllIdle, IdleConnectionClosed | With a monotonic clock, the list holds each open connection exactly once. Every tick shuts down every idle connection, even though the walk stops early. A connection left idle is eventually closed. |
| `idle_clock_step_back` | `MCIdleConnectionClockBack.cfg` | TickShutsAllIdle (violated) | After the wall clock steps back, the walk stops before an idle connection. |
| `idle_int8_timeout` | `MCIdleConnectionInt8.cfg` | ShutOnlyIdle (violated) | A 130-second timeout wraps to -126 and every connection is shut down at the first tick. |
| `http_request_chunking` | `MCHttpRequest.cfg` | ChunkingIndependent | However a request stream is split into reads, parseRequest hands on the same requests, and fails at the same place, as on the whole stream. |
| `http_response_stall` | `MCHttpResponse.cfg` | ArrivedResponsesParsed (violated) | A complete response followed by bytes of the next one is never handed on. |

### Seeded faults

Every property of a passing run is also checked against a seeded fault in
the code it is about. Each fault is listed under `mutants` in
`PROJECT.json` and TLC must find the property violated. A few of them:

* the writer not waiting for the flush (`MakeRoomNoWait`);
* a LookupKey built with the deletion type;
* a flush that appends the new level-0 file behind the older ones;
* an off-by-one in the separator's increment test;
* a SeekToLast that leaves the direction forward;
* a Next that ends the merge when one child runs out;
* `pop_back` instead of `pop_front`;
* a put that does not notify;
* a disconnect that does not erase the list node;
* an onMessage that restamps without splicing;
* a parser that takes a header line before its CRLF;
* a Publish that pops one writer more than the group it wrote;
* a timer that shuts a connection down without the forced close;
* NewMergingIterator treating one source as none;
* an Unmask that rotates by Mask's amounts;
* a ParseInternalKey that rejects kTypeValue (`<` for `<=`);
* a Finish that drops the last block's index entry (the separator
  off-by-one above also breaks `TableGetExact`);
* a recovery that forgets imm's log;
* a BuildBatchGroup that lets a sync writer join a group that is not
  synced;
* a recovery that takes the last sequence from the replayed records only,
  as spec 4.11 words it. After a recovery that emptied the logs, the next
  one restarts the sequence below the level-0 files.

### Bounds

* **WAL.** Blocks are 16 bytes, the smallest block with room for a header
  and payload.
  * Records of 2 and 12 bytes, up to three of them, produce Full records,
    First/Last and First/Middle/Last fragmentation, tails under 7 bytes
    that need padding, and records starting at a block boundary.
  * The crash point ranges over every byte.
  * The initial offsets are 0, 5, 9 (`BlockSize - 7`, the boundary of
    SkipToInitialBlock's trailer test), 16 and 20.
  * 71,403 states.
* **Db.** Two clients, two keys, one value, four sequence numbers, one
  crash and one held snapshot.
  * Two clients let a follower join the leader's group, and a sync writer
    queue behind a leader that does not sync. The clients are
    interchangeable, so their permutations are a symmetry.
  * One value is enough: a Put against a Delete shows any shadowing.
  * A write buffer of 11 bytes against entries of 11 bytes (a deletion)
    or 12 bytes (a value) rotates the memtable after one Put. A second
    rotation can meet an unflushed `imm` and make the writer wait, and a
    crash can find two logs.
  * A level-0 trigger of 2 makes compaction happen.
  * A crash that loses the unsynced tail, after a flush saved a higher
    last sequence, is where the manifest's sequence matters.
  * `MaxSnapshots` bounds the snapshots held at once. NewSnapshot never
    lists them, so they do not change what compaction keeps in this run.
  * About 1.9 million states, in about a minute. Two crashes take two
    minutes and catch no further fault. Two values, or five sequence
    numbers, go past five minutes. `MCDbSnapshot.cfg` has one client,
    five sequence numbers and a 12-byte buffer, and finds its violation in
    seconds.
* **Comparator.** User keys of up to three bytes over 0xfc..0xff. This
  alphabet is closed under the increment, so there are no artificial
  out-of-alphabet results, and it contains 0xff and bytes one apart. Every
  ordered pair of internal keys is checked (57,630 states).
* **Crc32c and the tag.** Checksums made of two 16-bit halves from ten edge
  values (0, 1, the bits around the rotation points, all ones, and the
  halves of kMaskDelta and of 2^32 - kMaskDelta), plus the three whose
  rotation plus kMaskDelta is 2^32 - 1, 2^32 and 2^32 + 1: 103 checksums.
  Sequences 0, 1, 255, 256, 2^55, kMaxSequenceNumber - 1 and
  kMaxSequenceNumber, paired with each other and with both types: 196
  pairs. Each is one initial state of the `format_algorithms` run.
* **Table.** Up to three keys from the user keys of at most two bytes
  over 0xfc, 0xfd and 0xff, with the oldest tag or MaxTag: 26 keys,
  2,952 sorted inputs. 0xfc below 0xff is shortened to 0xfd; 0xfc below
  0xfd is not. MaxTag is the tag a shortened separator carries, so a
  separator can meet the next block's first key. A block holds at most
  two keys, so blocks are cut by size and by flush(). Each table is
  probed at every internal key of the run (340 probes), including keys
  between the table's keys. The whole run has 138,740 states.
* **MergingIterator.** 0 to 3 sources and four keys in all 354 layouts
  (empty children included), with Seek targets below, between and above the
  keys.
* **BlockingQueue.** Two producers with two items each and two consumers:
  * both consumers can wait at once;
  * a notify can wake one while the other keeps waiting;
  * a spuriously woken consumer can race a notified one for the last item;
  * items of two producers can be queued together.
* **IdleConnection.** Three connections, a one-second timeout and four
  seconds of clock. This is enough for an idle connection to sit behind
  another idle one and behind an active one. No symmetry is declared,
  because the run checks liveness.
* **HTTP.** Every stream of four lines drawn from six kinds, in reads of one
  to three tokens. The lines are:
  * request lines for HTTP/1.1 with a query, HTTP/1.0, and an unsupported
    version;
  * a header;
  * a line without ':';
  * the blank line.

  The response stream is two back-to-back responses with bodies of 0 or 1
  bytes.

### Fairness

`blocking_queue` and `idle_timeout` check liveness.

In `blocking_queue`, each thread's steps (`Put`, `Lock`,
`Check`, `Reacquire`) are weakly fair: a runnable thread eventually runs.
Spurious wake-ups get no fairness, because a program cannot count on them.
Weak fairness is enough for `Reacquire`:
* while items are queued, every competing mutex holder either takes an
  item or goes back to waiting;
* the puts are finite.

In `idle_timeout`, `Tick` is weakly fair, because onTimer is a repeating
one-second timer (`runAfter` with repeat). The `Disconnect` of a connection
the timer shut down is weakly fair, because it gets
`forceCloseWithDelay(3.5)` and closes even if the peer never answers.
Connects, messages and the peer's own closes are the clients' choice and
get no fairness.

The other runs check safety and refinement. Deadlock checking is off where
the system really stops:
* replay ends;
* the engine's sequence numbers and crashes run out;
* the peer's stream has been read.

## Findings

* **Spurious corruption report** (`wal_spurious_report`,
  `logreader.cc:85`).
  * A reader opened at an offset inside a block skips the first record
    that began before the offset, as kBadRecord.
  * The resync branch of ReadRecord then clears `resyncing`, because that
    type is not Middle or Last.
  * The skipped record is whatever fragment began before the offset, a
    First or a Middle one. The fragment after it (a Middle or the Last)
    is then reported as "missing start of fragmented record" (line 133).
    TLC's trace depends on the search order. One trace has one 12-byte
    record written as First@0 and Last@16, with the reader at 5. Another
    has Full@0, then First@9, Middle@16 and Last@32, with the reader at
    20: the Middle is skipped and the Last is reported.

  Spec 4.4 says such records are discarded silently.
* **Snapshots never listed** (`db_snapshot_stability`, `snapshot.h:40`).
  * `NewSnapshot` returns the snapshot without appending it, although its
    comment says it does.
  * Compaction then sees no snapshot and drops the versions a held
    snapshot reads.
* **Idle connections left open after a clock step** (`idle_clock_step_back`,
  `idelconnection.cc:101`).
  * The timer's early `break` assumes the list is in receive-time order.
  * Wall-clock stamps break that order when the clock steps back.
  * The `age < 0` branch restamps in place without moving the node.
* **Idle timeout narrowed to int8_t** (`idle_int8_timeout`,
  `idelconnection.cc:116`). A timeout of 128 seconds or more becomes
  negative, and every connection is closed at the first tick.
* **Response parse stalls** (`http_response_stall`, `httpcontext.cc:98`).
  The body is taken only when the buffer holds exactly the body size, so
  bytes of a following response block the completed one forever.

## Plan and what is left

Done:
* the WAL;
* the memtable, snapshots, write path and compaction rule;
* the key algorithms;
* the merging iterator;
* the blocking queue;
* the idle-connection server;
* the HTTP parser.

Also done: the engine's group commit with sync, its crash and recovery, the iterator's one- and
no-source cases, the idle server's liveness, and crc32c's Mask/Unmask and
the internal-key tag at their real widths, the table builder and
Table::InternalGet.

Next, within the present runs:
1. **Db**: reads at held snapshots once `NewSnapshot` is corrected in a
   variant, and the sticky `bg_error` of a failed log append.
2. **HTTP**: the response side as a passing run, with one response per
   stream.

### Not modelled

* DBIter and DB: only their declarations are present. The parts the
  engine needs are modelled from the spec where they are used.
* Of Table and TableBuilder (declarations only): values, the block,
  handle and footer encodings, compression, block trailers, filters,
  Table::Open, NewIterator (a two-level iterator that, unlike
  InternalGet, moves on to the next block) and ApproximateOffsetOf. In
  `Db` a table file is the set of its entries.
* `crc32c.h` Extend and Value, the checksum itself: only declared. The log
  models treat checksum damage as "mismatch detected", which
  `MaskRoundTrip` justifies for the masking around it.
* `performanceinspector.cc`: formatting of process statistics, pure output. Its
  30-second sleep in a handler, which blocks the loop thread, is listed as
  a hazard.
* `cachetest.cc`: a fixed, single-threaded script with nothing that varies
  between runs. A single run of it decides it: its `lookup` erases every
  entry it hits, so the assertion at line 64 fails. The cache it drives
  (`cache.h`) is not among the sources.
* `BlockingQueue::size()`: it only reads. As written, it locks a
  non-mutable mutex in a const method, so it does not compile if
  instantiated.
* `webrequest.h`: a passive record of a decoded frame. Nothing among the
  sources fills or reads it, so it has no behaviour to check. Its
  uninitialized fields and `setMethod`'s assert are listed as hazards.
