------------------------------ MODULE Bitcask ------------------------------
(***************************************************************************)
(* The storage engine of one node (internal/storage/bitcask.go).           *)
(*                                                                         *)
(* Put and Delete append a record to a buffered writer over an append-only *)
(* file and then update the in-memory index; Get looks the key up, flushes *)
(* the writer and reads the record back at the indexed offset; Compact     *)
(* rewrites the live records into a new file; NewBitcask replays the file. *)
(*                                                                         *)
(* Writers hold bc.mu exclusively and are one action each.  Get holds only *)
(* the read lock while it uses the shared writer and the shared file       *)
(* position, so it is split at every access to them and readers            *)
(* interleave.                                                             *)
(*                                                                         *)
(* Offsets count records, not bytes: a record is the unit of the file, and *)
(* bytes that do not form a whole record are one Garbage element.          *)
(***************************************************************************)
EXTENDS Integers, Sequences, FiniteSets, Index

CONSTANTS
    Values,        \* what a Put stores: a value together with its timestamp
    Readers,       \* goroutines that may be inside Get at the same time
    None,          \* no key, no value
    Err,           \* the error result of a Get
    SyncModes,     \* the settings of Config.SyncWrites to consider
    FaultModes,    \* whether to consider disks that fail, or do not, or both
    MaxRecords     \* bound on the records of file and buffer together

ASSUME BitcaskConstants ==
    /\ None \notin Keys \cup Values
    /\ Err \notin Values \cup {None}
    /\ SyncModes \subseteq BOOLEAN
    /\ FaultModes \subseteq BOOLEAN
    /\ MaxRecords \in Nat

ASSUME KeysFinite == IsFiniteSet(Keys)

VARIABLES
    syncWrite,  \* bc.syncWrite: flush and fsync inside every write
    diskFaults, \* system calls on the data file may fail
    file,      \* data.db as the operating system sees it: a sequence of records
    synced,    \* how many of them have reached stable storage
    buf,       \* records held by the bufio.Writer
    split,     \* part of the first buffered record is already in the file
    index,     \* bc.index
    position,  \* bc.position: the offset the next record is believed to get
    fd,        \* bc.dataFile is open
    werr,      \* the sticky error of the bufio.Writer
    mode,      \* life cycle of the engine
    scan,      \* the offset of rebuildIndex
    cursor,    \* the file position shared by everything that uses bc.dataFile
    rd,        \* the Gets in progress
    mem        \* history: what the successful calls so far have stored

setup == <<syncWrite, diskFaults>>
diskVars == <<file, synced, buf, split, werr>>
vars == <<setup, file, synced, buf, split, index, position, fd, werr, mode, scan,
          cursor, rd, mem>>

\* Bytes that are not a record: readEntry fails on them.
Garbage == [key |-> None, val |-> None, del |-> FALSE]

PutRecord(k, v) == [key |-> k, val |-> v, del |-> FALSE]

Tombstone(k) == [key |-> k, val |-> None, del |-> TRUE]

Record == {Garbage} \cup {PutRecord(k, v) : k \in Keys, v \in Values}
                    \cup {Tombstone(k) : k \in Keys}

\* A position in the file that is not the start of a record.
Misaligned == -1

Idle == [pc |-> "idle", key |-> None, off |-> 0, ret |-> None]

ReaderState ==
    [pc  : {"idle", "flush", "write", "reset", "seek", "read", "done"},
     key : Keys \cup {None},
     off : Nat,
     ret : Values \cup {None, Err}]

TypeOK ==
    /\ syncWrite \in BOOLEAN
    /\ diskFaults \in BOOLEAN
    /\ file \in Seq(Record)
    /\ synced \in Nat
    /\ buf \in Seq(Record)
    /\ split \in BOOLEAN
    /\ index \in IndexType
    /\ position \in Nat
    /\ fd \in BOOLEAN
    /\ werr \in BOOLEAN
    /\ mode \in {"open", "closed", "down", "rebuild", "failed"}
    /\ scan \in Nat
    /\ cursor \in Nat \cup {Misaligned}
    /\ rd \in [Readers -> ReaderState]
    /\ mem \in [Keys -> Values \cup {None}]

(***************************************************************************)
(* A node that starts with an empty data directory.                        *)
(***************************************************************************)
Init ==
    /\ syncWrite \in SyncModes
    /\ diskFaults \in FaultModes
    /\ file = <<>>
    /\ synced = 0
    /\ buf = <<>>
    /\ split = FALSE
    /\ index = NewIndex
    /\ position = 0
    /\ fd = TRUE
    /\ werr = FALSE
    /\ mode = "open"
    /\ scan = 0
    /\ cursor = 0
    /\ rd = [r \in Readers |-> Idle]
    /\ mem = [k \in Keys |-> None]

-----------------------------------------------------------------------------
(***************************************************************************)
(* The buffered writer (bufio.Writer over an O_APPEND file).               *)
(***************************************************************************)

\* The file once everything buffered has been written.
Flushed == file \o buf

\* bufio.Writer.Flush succeeds.
FlushOk ==
    /\ ~werr
    /\ buf = <<>> \/ fd
    /\ file' = Flushed
    /\ buf' = <<>>
    /\ split' = FALSE
    /\ UNCHANGED werr

\* Part of a record at the end of the file.
TornTail(torn) == IF torn THEN <<Garbage>> ELSE <<>>

\* A write system call fails after some of the buffered bytes reached the
\* file.  bufio keeps the error: no later write or flush touches the file.
FlushFails ==
    /\ ~fd \/ diskFaults
    /\ \E n \in 0..Len(buf), torn \in BOOLEAN :
          /\ n > 0 \/ torn => fd
          /\ split /\ n = 0 => torn
          /\ file' = file \o SubSeq(buf, 1, n) \o TornTail(torn)
          /\ buf' = SubSeq(buf, n + 1, Len(buf))
    /\ split' = FALSE
    /\ werr' = TRUE

\* bc.mu.Lock: no Get is in progress and the engine is open.
Exclusive == mode = "open" /\ \A r \in Readers : rd[r].pc = "idle"

-----------------------------------------------------------------------------
(***************************************************************************)
(* writeEntry.                                                             *)
(***************************************************************************)

\* The record is in the writer: buffered; or the buffer filled up on the way
\* and was written out, with none, a part or all of this record behind it.
Buffered(rec) ==
    \/ /\ buf' = Append(buf, rec)
       /\ UNCHANGED <<file, split>>
    \/ /\ fd
       /\ file' = Flushed
       /\ buf' = <<rec>>
       /\ split' \in BOOLEAN
    \/ /\ fd
       /\ file' = Append(Flushed, rec)
       /\ buf' = <<>>
       /\ split' = FALSE

\* The record is in the file and the file is on stable storage.
WrittenThrough(rec) ==
    /\ fd
    /\ file' = Append(Flushed, rec)
    /\ buf' = <<>>
    /\ split' = FALSE
    /\ synced' = Len(Flushed) + 1

\* Mutant: syncWrite flushes the writer but forgets the fsync.
WriteOkNoFsync(rec) ==
    /\ ~werr
    /\ position' = position + 1
    /\ Buffered(rec)
    /\ UNCHANGED <<synced, werr>>

WriteOk(rec) ==
    /\ ~werr
    /\ position' = position + 1
    /\ IF syncWrite THEN WrittenThrough(rec)
                    ELSE Buffered(rec) /\ UNCHANGED synced
    /\ UNCHANGED werr

\* Mutant: position is advanced only once the fsync has succeeded.
WriteFailsKeepsPosition(rec) ==
    \/ werr /\ UNCHANGED <<file, synced, buf, split, position, werr>>
    \/ ~werr /\ FlushFails /\ UNCHANGED <<position, synced>>
    \/ /\ syncWrite /\ diskFaults /\ fd /\ ~werr
       /\ file' = Append(Flushed, rec)
       /\ buf' = <<>>
       /\ split' = FALSE
       /\ UNCHANGED <<synced, position, werr>>

\* writeEntry returns an error: the writer had failed before; it fails now
\* (before or after position is advanced); or only the fsync fails, and the
\* record stays in the file although the caller is told it was not stored.
WriteFails(rec) ==
    \/ werr /\ UNCHANGED <<file, synced, buf, split, position, werr>>
    \/ /\ ~werr /\ FlushFails
       /\ position' \in {position, IF syncWrite THEN position + 1 ELSE position}
       /\ UNCHANGED synced
    \/ /\ syncWrite /\ diskFaults /\ fd /\ ~werr
       /\ file' = Append(Flushed, rec)
       /\ buf' = <<>>
       /\ split' = FALSE
       /\ position' = position + 1
       /\ UNCHANGED <<synced, werr>>

Room == Len(file) + Len(buf) < MaxRecords

Put(k, v) ==
    /\ Exclusive
    /\ Room
    /\ \/ /\ WriteOk(PutRecord(k, v))
          /\ index' = IndexPut(index, k, position)
          /\ mem' = [mem EXCEPT ![k] = v]
       \/ WriteFails(PutRecord(k, v)) /\ UNCHANGED <<index, mem>>
    /\ UNCHANGED <<fd, mode, scan, cursor, rd>>

Delete(k) ==
    /\ Exclusive
    /\ Room
    /\ \/ /\ WriteOk(Tombstone(k))
          /\ index' = IndexDelete(index, k)
          /\ mem' = [mem EXCEPT ![k] = None]
       \/ WriteFails(Tombstone(k)) /\ UNCHANGED <<index, mem>>
    /\ UNCHANGED <<fd, mode, scan, cursor, rd>>

-----------------------------------------------------------------------------
(***************************************************************************)
(* Get, step by step under the read lock.                                  *)
(***************************************************************************)

\* Index lookup.  An absent or deleted key returns an error at once, which
\* changes nothing.
GetLookup(r, k) ==
    /\ mode = "open"
    /\ rd[r].pc = "idle"
    /\ index.entries[k].st = "live"
    /\ rd' = [rd EXCEPT ![r] = [pc |-> "flush", key |-> k,
                                off |-> index.entries[k].off, ret |-> None]]
    /\ UNCHANGED <<diskVars, index, position, fd, mode, scan, cursor, mem>>

\* The tests Flush makes first: a sticky error, an empty buffer.
GetFlush(r) ==
    /\ rd[r].pc = "flush"
    /\ rd' = [rd EXCEPT
                ![r].pc  = IF werr THEN "done" ELSE IF buf = <<>> THEN "seek" ELSE "write",
                ![r].ret = IF werr THEN Err ELSE @]
    /\ UNCHANGED <<diskVars, index, position, fd, mode, scan, cursor, mem>>

\* The write system call of Flush, made whatever other readers have done to
\* the buffer since the tests.  It appends, whatever the file position
\* is, and leaves the file position at the end.  The bytes stay in the
\* buffer until GetReset: a reader that writes them again appends the rest
\* of a split record without its beginning.
GetWrite(r) ==
    /\ rd[r].pc = "write"
    /\ \/ /\ fd
          /\ file' = Flushed
          /\ buf' = IF split /\ buf # <<>> THEN <<Garbage>> \o Tail(buf) ELSE buf
          /\ split' = FALSE
          /\ cursor' = Len(Flushed)
          /\ rd' = [rd EXCEPT ![r].pc = "reset"]
          /\ UNCHANGED werr
       \/ /\ FlushFails
          /\ rd' = [rd EXCEPT ![r].pc = "done", ![r].ret = Err]
          /\ UNCHANGED cursor
    /\ UNCHANGED <<synced, index, position, fd, mode, scan, mem>>

GetReset(r) ==
    /\ rd[r].pc = "reset"
    /\ buf' = <<>>
    /\ rd' = [rd EXCEPT ![r].pc = "seek"]
    /\ UNCHANGED <<file, synced, split, werr, index, position, fd, mode, scan,
                   cursor, mem>>

\* Mutant: the seek is left out.
GetSeekMissing(r) ==
    /\ rd[r].pc = "seek"
    /\ rd' = [rd EXCEPT ![r].pc = "read"]
    /\ UNCHANGED <<diskVars, index, position, fd, mode, scan, cursor, mem>>

GetSeek(r) ==
    /\ rd[r].pc = "seek"
    /\ IF fd
       THEN /\ cursor' = rd[r].off
            /\ rd' = [rd EXCEPT ![r].pc = "read"]
       ELSE /\ rd' = [rd EXCEPT ![r].pc = "done", ![r].ret = Err]
            /\ UNCHANGED cursor
    /\ UNCHANGED <<diskVars, index, position, fd, mode, scan, mem>>

\* readEntry succeeds at this position.
Readable(at) == at \in 0..(Len(file) - 1) /\ file[at + 1] # Garbage

\* readEntry through a fresh bufio.Reader: whatever record starts at the file
\* position is returned, its key is not compared with the one asked for.  The
\* read-ahead moves the file position past the record, by any amount.
GetRead(r) ==
    /\ rd[r].pc = "read"
    /\ IF Readable(cursor)
       THEN /\ rd' = [rd EXCEPT ![r].pc = "done", ![r].ret = file[cursor + 1].val]
            /\ cursor' \in ((cursor + 1)..Len(file)) \cup {Misaligned}
       ELSE /\ rd' = [rd EXCEPT ![r].pc = "done", ![r].ret = Err]
            /\ UNCHANGED cursor
    /\ UNCHANGED <<diskVars, index, position, fd, mode, scan, mem>>

\* The deferred RUnlock.
GetReturn(r) ==
    /\ rd[r].pc = "done"
    /\ rd' = [rd EXCEPT ![r] = Idle]
    /\ UNCHANGED <<diskVars, index, position, fd, mode, scan, cursor, mem>>

-----------------------------------------------------------------------------
(***************************************************************************)
(* Sync, Close and Compact.                                                *)
(***************************************************************************)

\* Mutant: the file is synced while records are still in the buffer.
FlushAndSyncNoFlush == ~werr /\ fd /\ synced' = Len(Flushed)
                       /\ UNCHANGED <<file, buf, split, werr>>

\* Flush, then fsync: both succeed; only the fsync fails; the flush fails; or
\* there is nothing to write and no file to sync.
FlushAndSync ==
    \/ FlushOk /\ fd /\ synced' = Len(Flushed)
    \/ FlushOk /\ fd /\ diskFaults /\ UNCHANGED synced
    \/ ~werr /\ buf # <<>> /\ FlushFails /\ UNCHANGED synced
    \/ (werr \/ (buf = <<>> /\ ~fd)) /\ UNCHANGED diskVars

Sync ==
    /\ Exclusive
    /\ FlushAndSync
    /\ UNCHANGED <<index, position, fd, mode, scan, cursor, rd, mem>>

\* Close refuses every later call before it flushes: what a failed flush
\* leaves in the buffer is unreachable.  Then the process may exit.
Close ==
    /\ Exclusive
    /\ mode' = "closed"
    /\ fd' = FALSE
    /\ FlushAndSync
    /\ UNCHANGED <<index, position, scan, cursor, rd, mem>>

\* The orders in which a Go map iteration may visit the live keys.
CopyOrders ==
    LET live == LiveKeys(index)
        Rng(f) == {f[i] : i \in DOMAIN f}
    IN  {f \in [1..Cardinality(live) -> live] : Rng(f) = live}

\* The file Compact writes: each live record, read back at its offset.
Compacted(order) ==
    [i \in DOMAIN order |->
        PutRecord(order[i], Flushed[index.entries[order[i]].off + 1].val)]

\* Mutants: the old index is kept over the new file; the new offsets are taken
\* one record too early.
CompactedIndexKeepsOffsets(order) == index

CompactedIndexOffByOne(order) ==
    [entries |-> [k \in Keys |->
                     IF k \in LiveKeys(index)
                     THEN [st |-> "live", off |-> (CHOOSE i \in DOMAIN order : order[i] = k) - 2]
                     ELSE NoEntry],
     active  |-> Len(order),
     deleted |-> 0]

\* newIndex: every copied key at its new offset, nothing else.
CompactedIndex(order) ==
    [entries |-> [k \in Keys |->
                     IF k \in LiveKeys(index)
                     THEN [st |-> "live", off |-> (CHOOSE i \in DOMAIN order : order[i] = k) - 1]
                     ELSE NoEntry],
     active  |-> Len(order),
     deleted |-> 0]

\* Every live record can be read back from the flushed file.
CopyReadable ==
    \A k \in LiveKeys(index) :
        /\ fd
        /\ index.entries[k].off < Len(Flushed)
        /\ Flushed[index.entries[k].off + 1] # Garbage

Compact ==
    /\ Exclusive
    /\ ~werr
    /\ buf = <<>> \/ fd
    /\ CopyReadable
    /\ \E order \in CopyOrders :
          /\ file' = Compacted(order)
          /\ index' = CompactedIndex(order)
          /\ position' = Len(order)
          /\ synced' = Len(order)
    /\ buf' = <<>>
    /\ split' = FALSE
    /\ fd' = TRUE
    /\ UNCHANGED <<werr, mode, scan, cursor, rd, mem>>

\* Compact returns an error: the first flush fails; a record cannot be read
\* back or the temporary file cannot be written; or the data file has been
\* closed and then the rename, or the reopening of the renamed file, fails.
CompactFails ==
    /\ Exclusive
    /\ \/ ~werr /\ buf # <<>> /\ FlushFails /\ UNCHANGED <<synced, fd>>
       \/ FlushOk /\ (~CopyReadable \/ diskFaults) /\ UNCHANGED <<synced, fd>>
       \/ FlushOk /\ diskFaults /\ CopyReadable /\ fd' = FALSE /\ UNCHANGED synced
       \/ /\ ~werr /\ (buf = <<>> \/ fd) /\ diskFaults /\ CopyReadable
          /\ \E order \in CopyOrders :
                file' = Compacted(order) /\ synced' = Len(order)
          /\ buf' = <<>>
          /\ split' = FALSE
          /\ fd' = FALSE
          /\ UNCHANGED werr
    /\ UNCHANGED <<index, position, mode, scan, cursor, rd, mem>>

-----------------------------------------------------------------------------
(***************************************************************************)
(* Crash and recovery.                                                     *)
(***************************************************************************)

\* The engine value is garbage: nothing of it is used again.
ProcessEnds ==
    /\ buf' = <<>>
    /\ split' = FALSE
    /\ werr' = FALSE
    /\ index' = NewIndex
    /\ position' = 0
    /\ fd' = FALSE
    /\ scan' = 0
    /\ cursor' = 0
    /\ rd' = [r \in Readers |-> Idle]

\* The process is killed, or exits after Close.  The buffer is gone, the file
\* stays as it is: a split record is in it in part.
Kill ==
    /\ mode \in {"open", "closed", "rebuild"}
    /\ mode' = "down"
    /\ file' = file \o TornTail(split)
    /\ ProcessEnds
    /\ UNCHANGED <<synced, mem>>

\* The machine stops.  Records that were not synced may be lost from the end
\* of the file, and the first one lost may survive in part.
PowerLoss ==
    /\ mode' = "down"
    /\ \E n \in synced..Len(file), torn \in BOOLEAN :
          /\ torn => n < Len(file) \/ split
          /\ file' = SubSeq(file, 1, n) \o TornTail(torn)
          /\ synced' = Len(file')
    /\ ProcessEnds
    /\ UNCHANGED mem

\* Mutant: the engine does not seek to the end of the file it opens.
OpenForgetsPosition ==
    /\ mode \in {"down", "failed"}
    /\ mode' = "rebuild"
    /\ position' = 0
    /\ fd' = TRUE
    /\ cursor' = 0
    /\ UNCHANGED <<diskVars, index, scan, rd, mem>>

\* NewBitcask up to rebuildIndex: a fresh engine value over the file.
Open ==
    /\ mode \in {"down", "failed"}
    /\ mode' = "rebuild"
    /\ position' = Len(file)
    /\ fd' = TRUE
    /\ cursor' = Len(file)
    /\ UNCHANGED <<diskVars, index, scan, rd, mem>>

\* Mutant: replay ignores tombstones.
ReplayIgnoresTombstones(rec) ==
    IF rec.del THEN index ELSE IndexPut(index, rec.key, scan)

\* What rebuildIndex does with one record.
Replay(rec) ==
    IF rec.del THEN IndexDelete(index, rec.key) ELSE IndexPut(index, rec.key, scan)

\* One turn of the loop of rebuildIndex.  Bytes that are not a record make
\* NewBitcask return an error, and the process exits.
RebuildStep ==
    /\ mode = "rebuild"
    /\ scan < Len(file)
    /\ IF file[scan + 1] = Garbage
       THEN mode' = "failed" /\ ProcessEnds
       ELSE /\ index' = Replay(file[scan + 1])
            /\ scan' = scan + 1
            /\ UNCHANGED <<buf, split, werr, mode, fd, position, cursor, rd>>
    /\ UNCHANGED <<file, synced, mem>>

\* What the index finds in a log.
Visible(idx, log) ==
    [k \in Keys |-> IF idx.entries[k].st = "live"
                    THEN log[idx.entries[k].off + 1].val ELSE None]

\* End of file: NewBitcask returns the engine.
RebuildDone ==
    /\ mode = "rebuild"
    /\ scan = Len(file)
    /\ mode' = "open"
    /\ mem' = Visible(index, file)
    /\ scan' = 0
    /\ UNCHANGED <<diskVars, index, position, fd, cursor, rd>>

-----------------------------------------------------------------------------
GetSteps(r) ==
    \/ \E k \in Keys : GetLookup(r, k)
    \/ GetFlush(r)
    \/ GetWrite(r)
    \/ GetReset(r)
    \/ GetSeek(r)
    \/ GetRead(r)
    \/ GetReturn(r)

Step ==
    \/ \E k \in Keys, v \in Values : Put(k, v)
    \/ \E k \in Keys : Delete(k)
    \/ \E r \in Readers : GetSteps(r)
    \/ Sync
    \/ Close
    \/ Compact
    \/ CompactFails
    \/ Kill
    \/ PowerLoss
    \/ Open
    \/ RebuildStep
    \/ RebuildDone

Next == Step /\ UNCHANGED setup

Spec == Init /\ [][Next]_vars

-----------------------------------------------------------------------------
(***************************************************************************)
(* Properties.                                                             *)
(***************************************************************************)

\* The writer and the file are in order.
Healthy == mode = "open" /\ fd /\ ~werr

\* What has been written, in order.  Between the write and the reset of a
\* flush the buffered bytes are in the file already.
Log == file \o (IF \E r \in Readers : rd[r].pc = "reset" THEN <<>> ELSE buf)

\* Get and Compact trust the index blindly: readEntry never compares the key
\* it finds with the one asked for.  So every live entry must point at the
\* record of its own key, holding the last value stored successfully, across
\* overwrites, flushes, failed writes, compaction and replay; and a key with
\* no live entry must be one that was never stored or was deleted last.
IndexPointsHome ==
    Healthy =>
      \A k \in Keys :
        IF index.entries[k].st = "live"
        THEN /\ index.entries[k].off < Len(Log)
             /\ Log[index.entries[k].off + 1] = PutRecord(k, mem[k])
        ELSE mem[k] = None

\* bc.position, which writeEntry advances by its own count and never reads
\* back from the file, is where the next record will land.
PositionExact == Healthy => position = Len(Log)

\* engine.go: "Get retrieves a value by key".  A Get that returns a value
\* returns the last one stored under its key, although it reads through a
\* file position that other calls move; a Get of a live key fails only when
\* the disk did.
GetReturnsLatest ==
    \A r \in Readers :
        rd[r].pc = "done" =>
            rd[r].ret = mem[rd[r].key] \/ (diskFaults /\ rd[r].ret = Err)

\* DeletedCount, which the admin endpoints report, counts the tombstones.
DeletedCountExact == index.deleted = Cardinality(DeadKeys(index))

\* With SyncWrites and a disk that works, a call that returned success survives
\* any crash: the engine that replays the file serves exactly what was stored
\* before.  (A failed fsync may leave an unacknowledged record.)
SyncedWritesSurvive ==
    [][syncWrite /\ ~diskFaults /\ mode = "rebuild" /\ mode' = "open" => mem' = mem]_vars

\* The map a log stands for: the last record of each key decides.
MapOf(log) ==
    [k \in Keys |->
        LET at == {i \in 1..Len(log) : log[i].key = k}
        IN  IF at = {} THEN None
            ELSE log[CHOOSE i \in at : \A j \in at : j <= i].val]

\* What is left of the log if the process ends now.
Reached == IF mode = "open" THEN Log ELSE file

DM == INSTANCE DurableMap WITH
        up    <- mode = "open",
        tip   <- MapOf(Reached),
        cands <- {MapOf(SubSeq(Reached, 1, i)) : i \in synced..Len(Reached)}

\* The engine implements DurableMap: whatever mixture of flushes, failed
\* system calls, compactions and crashes happens, a restart serves the map
\* built by a prefix of the writes, and one no older than the last fsync.
ImplementsDurableMap == DM!DSpec

\* README: "Crash Recovery: Automatic index rebuild from log on restart".
RestartSucceeds == mode # "failed"

=============================================================================
