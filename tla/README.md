# Droidboot: a TLA+ model of its storage stack and its boot flow

Droidboot (the "Android Boot Manager") is a UEFI application.  It mounts a small ext2
partition, reads boot entries from `/meta/db/entries`, shows them in a menu and loads the
kernel and the initrd of the entry the user picks.  If the partition does not mount it
formats it first.  The file system is lwext4; the screen is LittlevGL.

Paths below are relative to `src/`; `L/` stands for `Library/lwext4/`.

## 1. Inventory

| Component | Source | State | Operations | Calls |
|---|---|---|---|---|
| Buffer cache | `L/src/ext4_bcache.c`, `L/include/ext4_bcache.h` | two trees of buffers (by block, by age), dirty list, flags and reference count of each buffer, `ref_blocks`, `lru_ctr` | find_get, alloc, free, drop, invalidate, is_full, cleanup | the device, to flush |
| Block device | `L/src/ext4_blockdev.c` | `bc`, `cache_write_back`, `ph_refctr` | get, get_noread, set, shake, flush (all, one block, one buffer), write_back, direct and byte accesses | buffer cache, `bread`/`bwrite` |
| UEFI device | `Library/AbmLib/abm_fs.c:59-103` | the `BlockIo` protocol pointer | open, bread, bwrite | firmware |
| File I/O | `L/src/ext4.c` | `ext4_file` (position, size) | open, seek, read, write, truncate, close, directories, links | block map, block device, cache |
| Inode block map | `L/src/ext4_fs.c`, `ext4_extent.c` | inode: size, block pointers | lookup, append, truncate | allocator, cache |
| Allocators | `L/src/ext4_balloc.c`, `ext4_ialloc.c` | bitmaps, counters in groups and superblock | alloc, free | cache |
| Mounting | `L/src/ext4.c:109-480`, `ext4_super.c` | tables of devices and mount points | register, mount, umount, cache_write_back | block device, superblock |
| Formatting | `L/src/ext4_mkfs.c` | a cache on its stack | the phases of `ext4_mkfs` | everything below |
| Journal | `L/src/ext4_journal.c`, `ext4_trans.c` | transactions, check-point queue, journal superblock | start, commit, check-point, revoke, recover | cache, through `end_write` |
| Directories | `L/src/ext4_dir.c`, `ext4_dir_idx.c` | blocks of entries, hash tree | find, add, remove, iterate | block map |
| Boot manager | `Library/AbmLib/*.c` | list of entries, number of entries, buffers for the caller | mount_meta, parse_boot_entries, event_handler, accessors | lwext4, LittlevGL |
| LittlevGL | `Library/LVGL` (vendored) | widgets, tasks, input devices | the menu loop | callbacks into the boot manager |
| Heap, C runtime | `Library/MallocLib`, `MicroLibC`, `StrLib` | pool headers | malloc, calloc, realloc, free | UEFI pool |
| gptsync, fsw drivers, EfiLib | `gptsync`, `filesystems`, `EfiLib` (vendored) | none that outlives a call of the boot manager | not called by it | |

There is one thread.  What interleaves is
* nested users of the cache: a caller holds a buffer while it gets, puts, frees or flushes
  others, and any of those may evict, write or drop buffers;
* the loops of the library and the failures of single device accesses inside them;
* power failures, and the hand-over to the loaded kernel, which come between any two device
  accesses and keep nothing but the device;
* the journal's checkpoint, which runs inside whatever call makes the cache write a buffer;
* whatever the installed system does to the partition between two boots.

What has to be right:
* cache: no buffer is freed under a holder, evicted while it is referenced or forgotten while
  it is dirty; what is up to date is valid; flush and unmount leave everything on the device;
  the loops end;
* file I/O: a file is the sequence of bytes that was written to it, wherever its blocks are;
  a write that fails half-way leaves size, block map, bitmap and position consistent;
* journal: after a power failure and recovery the blocks hold the effect of whole transactions,
  none that was committed is undone, and nothing that was freed is written over; no space of
  the log is used again while it is needed; a commit that lacks room gets it;
* mount and format: a good partition is never formatted, a format that returns is complete,
  no access goes through a cache that no longer exists;
* boot manager: what is booted is what was clicked.

The full list of hazards, each at its line, is in `PROJECT.json`.  A hazard that lists no property is
one the checked properties do not catch, with the reason: they leave its situation out, or it lies
below the abstraction.

## 2. Modules

| Module | Models | State and actions |
|---|---|---|
| `BlockStore` | what the cache promises (abstract) | a map of contents and a durable one |
| `Bcache` | `ext4_bcache.c` and the cached part of `ext4_blockdev.c` | the fields of `struct ext4_bcache` and `struct ext4_buf` under their own names; `block` are the callers' descriptors; one action for each call, and one for each turn of the shake, flush and cleanup loops |
| `MCBcache` | instances for TLC | |
| `Bcache_proofs` | proofs: bookkeeping of the cache, write-through and flushing on a good device | |
| `Bcache_store_proofs` | proofs: contents, nothing is lost; `Bcache` implements `BlockStore` | |
| `ByteFile` | what an open file promises (abstract) | a sequence of units, a position, a write in progress |
| `FileIo` | `ext4_fread`, `ext4_fwrite`, `ext4_fseek`, `ext4_ftruncate`, opening | device, bitmap, block map, `ext4_file`, and the local variables of the call in progress; one action for each device access and each turn of the gathering loops |
| `MCFileIo` | instances for TLC | |
| `FileIo_proofs` | proofs: block map, size, bitmap, where writes go; `FileIo` implements `ByteFile` | |
| `Boot` | `test_lvgl`, `mount_meta`, `parse_boot_entries`, `event_handler`, with `ext4_mount` and `ext4_mkfs` | the partition, what of it is in the cache only, slot 0 of `s_mp`, three fields of the block device, where the program is; one action for each phase |
| `MCBoot` | instances for TLC | |
| `Boot_proofs` | proofs: formatting, mounting, the entry that is booted, types | |
| `AtomicStore` | what a journal promises (abstract) | the durable blocks, the ones the program reads, whether a transaction runs |
| `JournalLog` | the blocks of the log, and `jbd_iterate_log` and the three passes of recovery as functions of it | |
| `Journal` | `ext4_journal.c`, `ext4_trans.c` and the callers in `ext4.c` and `ext4_balloc.c` | device (blocks, log, journal superblock, recovery flag), the fields of `struct jbd_journal`, check-point queue, running transaction, block records, dirty buffers, `jbd_trans_end_write` in progress; one action for each device write and each turn of the loops |
| `MCJournal` | instances for TLC | |
| `Journal_proofs` | proofs: the log is never reused too early, no write is missed by the check-point | |
| `Journal_found_proofs` | proofs: what `jbd_iterate_log` reads from a log that is laid out in a row | |
| `Journal_layout_proofs` | proofs: the log is such a row; recovery finds records of its own session only; types | |
| `Journal_atomic_proofs` | proofs: a file system not marked for recovery needs none; `Journal` implements `AtomicStore` | |

`Bcache` implements `BlockStore` (`StoreSpec`), `FileIo` implements `ByteFile` (`FileSpec`),
`Journal` implements `AtomicStore` (`AtomicUpdates`), each with `INSTANCE ... WITH` and a
refinement mapping that is an operator of the detailed module's state.

Definitions called `Bug_X` are `X` with a plausible mistake: a dropped guard, an off-by-one, a
missing reset.  Nothing uses them.  Each property of a passing run is violated when the
`Bug_` form that `PROJECT.json` names replaces the definition.

### Bcache

* `Get` / `ShakeDrop` / `ShakeFail` / `Alloc` / `AllocFail` / `Read` / `ReadFail` are
  `ext4_block_get` and `ext4_block_get_noread`, cut where the device is accessed.
* `Put` is `ext4_block_set`; `Free` has the whole of `ext4_bcache_free`, with the write whose
  result nobody looks at.  `Edit` then `Put` is the way `ext4_fs_put_inode_ref` flags a buffer
  late; `Overwrite` is the way `ext4_trans_set_block_dirty` does at once.
* `FlushLba`, `CacheFlush`, `WriteBackOn`, `WriteBackOff`, `Invalidate`, `Cleanup` are the other
  entry points.  `PowerOff` is possible at any step.
* A device access has an outcome: what it returns, and whether it stored anything.  With
  `ReportsErrors = FALSE` the device is the one of `abm_fs.c`, which returns EOK always.
* Contents are opaque.  `lru_id` is kept as the order it induces, so that the state space is
  finite; its wrap after 2^32 gets is not modelled.  `end_write` is NULL, as it is without a
  journal, so `dont_shake` is never seen set; `Journal` has the other case.

### FileIo

* A *unit* stands for the bytes between two offsets that matter.  With two units in a block
  every alignment of position and length occurs.  A unit that the caller writes carries its
  position, so that data stored at the wrong place is seen.
* Blocks come from anywhere in the bitmap, so that runs are contiguous, broken or descending.
* When `MayFail`, a failing write stores any subset of what it was given.
* The metadata accesses do not fail here.  Direct blocks only, no extents: `mount_meta` formats
  with `F_SET_EXT2`.

### Boot

* The partition is its superblock (`none`, `valid`, or marked `error` while mounted), which of
  the three things `ext4_mkfs` makes it holds in their final version, and the directory of
  entries.  `dirty` is what is in the cache only; `Stored` is an eviction or a flush.
* A dereference of a null or uninitialised pointer (`config.c:144` and `fs_utils.c:29` after a
  failed `ext4_dir_open`, `abm_base.c:131` for an entry that did not parse) ends in
  `Undefined`: the program stops for good or goes on with nothing.
* A directory is the sequence of entries its iterator returns; an entry says whether it parses
  and whether the files it names exist.
* The device does not fail here, and memory does not run out; both are in `Bcache`.

### Journal

* `StartFlag`, `StartSb`, `Stop`, `StopFlag`, `StopSb` are a session (`jbd_journal_start`,
  `jbd_journal_stop`), cut between the two superblocks they write.  `Begin`, `Dirty`, `WriteData`,
  `Free`, `Abort` are what the rest of the library does in a transaction.  `CommitBegin` to
  `Enqueue` are `jbd_journal_commit_trans`: contents, descriptor, revoke block, commit block.
  `Flush` is the cache's write of a buffer, which calls `jbd_trans_end_write` (`EndWrite`,
  `EndWriteOwn`, `Purge`, `Purged`, `WriteSb`).  `MakeRoom` is `jbd_journal_purge_cp_trans` with
  `flush`.  `Recover` to `RecoverPut` are `jbd_recover`.
* Every write to the device is a step, and `Crash` is possible between any two of them, those of a
  recovery included.
* The content of a block is the number of the transaction that wrote it.  One descriptor and one
  revoke block hold all the tags of a transaction.
* Blocks are metadata (logged), file data (written home at once) or free, as the bitmap block
  says; who allocates or frees dirties the bitmap in the same transaction (`ext4_balloc.c`).

`Triggers` are six situations in which the code does not keep its promises.  Five come from what
callers do; `late` comes from the order in which the cache, in write-back mode, flushes buffers.
They were found by checking `Journal` with all of them; each run names those it allows.

| Trigger | What happens | Breaks |
|---|---|---|
| `restart` | `jbd_journal_stop` leaves sequence 0 in the journal superblock (1447), so the next session counts from 1 again and a recovery goes on from its last record into those of an older session | `NoStaleRecords` |
| `unrecovered` | `jbd_journal_start` does not look at `start`: a log that was not recovered is begun anew, and its committed transactions are lost | `AtomicUpdates` |
| `delayed` | `jbd_recover` replays through the cache; in write-back mode the superblock that ends recovery reaches the device before the blocks | `AtomicUpdates`, `FlushIsNoticed` |
| `rollback` | an abort restores the blocks the transaction dirtied, not those it only freed: their buffers, with content that is committed and not home, were dropped | `AtomicUpdates` |
| `forgotten` | a block is dirtied whose earlier content is home while its transaction is not finished, then freed, or the transaction aborted: the block record is dropped, and a later free writes no revoke record for the copy in the log | `AtomicUpdates` |
| `late` | one write completes both the head of the check-point queue and the transaction that becomes head: `jbd_trans_end_write` asks for `first_in_queue` before (2110), so `start` is not moved on, and stays behind log space that is used again; also through the revoke path | `AtomicUpdates` |

Without the six the properties hold, on all the instances below.  `Late(b)`, `LoggedOnly(b)` and
the guards that name a trigger say exactly what is left out.

## 3. Runs

| Run | Question | Instance | Result |
|---|---|---|---|
| `bcache_safety` | is the bookkeeping consistent, is nothing lost in silence, when anything may fail? | 3 blocks (one of the journal), 2 contents, 2 descriptors, capacity 1 | holds |
| `bcache_store` | on a good device: `BlockStore`, write through, flush, every call returns | 2 blocks, 2 descriptors, capacity 1, write-back nested twice | holds |
| `bcache_flush` | does a flush flush all? | failing device | **violated** |
| `bcache_uefi` | is a buffer that is up to date valid, over the UEFI device? | a device that does not report errors | **violated** |
| `file_safety` | is a file a sequence of units; are size, map and bitmap consistent? | 2 units in a block, 4 blocks in the map, 3 on the device | holds |
| `file_errors` | the same when data accesses fail, and every call returns | 3 blocks in the map, 2 on the device | holds |
| `file_sparse` | does a read return the content of a file with holes? | as above, holes | **violated** |
| `file_writeback` | is write-back mode as it was when a call is over? | as above | **violated** |
| `boot_flow` | formatting, mounting, the entry that is loaded | 3 boots, 6 directories | holds |
| `boot_mounted` | does EOK of `ext4_mount` mean mounted? | 1 boot | **violated** |
| `journal_recovery` | is it an atomic store, through power failures? is the log reused safely, does every call return? | bitmap and 1 block, 12 blocks of log, 3 transactions, no trigger | holds |
| `journal_stale` | does recovery find records of its own session only? | 11 blocks of log, 3 transactions, `restart` | **violated** |

The bounds, and why they are enough:
* *Cache.*  Capacity 1 with two descriptors: everything cached can be referenced, so the cache
  must outgrow its capacity, and must shake on the way back.  Three blocks give an order of age
  and a range to invalidate.  `MaxWriteBack` bounds the nesting: 2 where the nesting matters
  (`WriteThrough`), 1 elsewhere.  Contents and descriptors are symmetric in `bcache_safety`;
  no run with a liveness property uses symmetry.
* *Files.*  Two units in a block tell aligned from unaligned, and a head, a run and a tail fit
  in three blocks.  The device has fewer blocks than the map, so that space runs out with every
  prefix of a write appended.  `MaxReq` bounds a request, `MaxWriteBack` the leaks of
  `file_writeback`'s finding (`Fwrite` is not taken when they have used it up).  Positions from
  which a write would not fit the map are not written to.
* *Boot.*  Three boots: a crash in a format, a boot that finds what it left, and one more.  The
  directories of `MCBoot` have sound, broken and dangling entries, and subdirectories before,
  between and after them.

* *Journal.*  A transaction takes 3 to 5 blocks of the log: a log of 12 goes round in the third
  transaction, so that space is reused, and a commit has to make room.  `MaxTxn` bounds the
  transactions, `MaxSequence` the ids a session may start from, that is the sessions.  Larger ones
  (12 blocks of log and 4 transactions, 11 and 4, 10 and 4, 9 and 5) were checked by hand.

`file_errors` leaves SEEK_CUR out: after a write that failed half-way the position may be
behind the size the handle knows, and `fsize - fpos` wraps at `ext4.c:2031` (`Fseek` has it).

### What the violations show

* `bcache_flush`: `ext4_bcache_free` ignores the result of its write (`ext4_bcache.c:299`).  The
  buffer stays dirty, in the cache and off `dirty_list`; `ext4_block_cache_flush` returns EOK
  without it.  `NoSilentLoss` holds: the content is still there, and eviction retries the write.
* `bcache_uefi`: `uefi_dev_bread` and `uefi_dev_bwrite` return EOK always (`abm_fs.c:71-85`), so
  an allocated buffer that was never read is up to date, or one never written is clean.
* `file_sparse`: only the unaligned head of `ext4_fread` knows what a hole is.
* `file_writeback`: `ext4_fwrite` jumps over the call that switches write-back off
  (`ext4.c:1966`) when it cannot append a whole block.
* `boot_mounted`: a mount that fails keeps its slot (`ext4.c:394`); after the format, the second
  `ext4_mount` of `mount_meta` returns EOK and mounts nothing.  `OpenDeviceHasCache` says why this
  is not worse: the device is closed, so every access fails instead of going through `bdev->bc`,
  which points at the stack frame `ext4_mkfs` had.

* `journal_stale`: the comment of `jbd_journal_start` (1285-1289) says that it starts from the id of
  the previous session plus 1 to invalidate stale records.  It does after a recovery; after a
  clean stop the previous id is gone.

### Fairness

`Spec` of `Journal` has weak fairness of the steps of a call that has begun (commit, check-point,
stopping, recovery).  Callers need not call, the cache need not flush, and the power need not fail.

`FairSpec` is weak fairness of the steps the program takes by itself: `Internal` of `Bcache`
and `FileIo` (the call in progress goes on, and a device access returns), `Step` of `Boot`
(everything but the user, the power and the installed system).  There is one thread and no
scheduler, and no step waits for another party, so the program is never prevented from taking
its next step.  The user need not click, so nothing is claimed beyond the menu.

Deadlock is checked except in `Boot`, where a program that has stopped after its last allowed
boot is a legal end, and in `Journal`, where the bounds end a behaviour.

## 4. Proofs

All theorems hold for every value of the constants that satisfies the named assumptions of the
module.

* `Bcache_proofs`.  Type correctness, `LruIffUnreferenced`, `RefctrCountsHolders`,
  `DirtyListFlushable`, `RefBlocksExact`, `HeldStaysCached`, for any number of blocks and
  descriptors, any capacity, with every failure allowed.  None of them is inductive alone.
  `IInv` adds that a buffer that is not cached is as `ext4_buf_alloc` makes it, that a dirty
  buffer and one being edited hold something a caller put there (a dirty buffer without
  `BC_UPTODATE` would sit on the dirty list for ever), and what the descriptor of a call in
  progress holds between two of its steps.  The lemmas say what acquiring and releasing do to the
  number of holders, what `Drop` and `Free` preserve; then there is one lemma for each action.
  On a device that does not fail (`~MayFail`; `bcache_flush` shows that it is needed):
  `WriteThrough` for any nesting of write-back, and `FlushedAll`.  What is inductive is that a dirty
  buffer that nobody references is listed, and that the list is empty when write-back is off and
  no flush is going on.
* `Bcache_store_proofs`.  `UptodateIsValid`, if the device reports its errors (`ReportsErrors`;
  `bcache_uefi` shows that it is needed), and `GrowsOnlyWhenReferenced`.  `NoSilentLoss` whatever
  fails, if the device reports its errors, and, on a device that does not fail, `StoreSpec`: every
  step is a write, a discard, a power failure, a flush, an unmounting or service of `BlockStore`.
  The common part is `Keeps`: a step of service leaves each content as it is and gives the device
  nothing else.  It rests on `UptodateIsValid` (a clean buffer may be dropped) and on temporary
  buffers being the journal's (`TmpIsLog`).
* `Boot_proofs`.  `MkfsComplete`, `OpenDeviceHasCache` and `NeverReformats`, for any directories
  and any number of boots.  `IInv` ties the phase of `ext4_mkfs` to what can be on the partition:
  nothing but groups before the superblock, not everything before the directories are made.
  A power failure freezes one of these states, and the next boot starts from it.
  `LoadsTheClickedEntry` and the types, for any directories: the loop that counts and the loop that
  parses are tied by `Place`, the number of files up to an entry.  It maps the files one to one to
  the places of the list, so what is parsed into a place stays there, and the list is full when
  the menu comes.
* `FileIo_proofs`.  Types, `BlocksAccounted`, `SizeMatchesMap`, `OnlyOwnBlocksWritten`, for any size
  of a block and of the map, any requests, and any failures, if the file is `Regular`: it has no
  holes (`file_sparse` shows what they do), and SEEK_CUR is not combined with failing writes
  (the position it then accepts has no bound, and a write there wraps).  `IInv` follows the loops:
  the blocks gathered so far are consecutive and are those from the position on (`RunAt`), what has
  been appended ends at the block index (`Grown`), and the size that is stored at the end is that
  of the mapped blocks (`AtEnd`).  Multiplication by an unknown block size is kept in a few lemmas
  (`Scale`, `DivIs`, `BlocksIs`), from which the rest is linear.

  `FileIsByteFile`: under the same hypothesis `FileSpec` holds, `FileIo` implements `ByteFile`.  The
  content is a function of device and block map (`Cell`: the unit at a position), and two lemmas
  carry the proof.  What an access reads from consecutive blocks is what the content has at the
  position, if the blocks are those of the map (`ReadFromIs`), and what it stores appears in the
  content there and nowhere else, since no block is in the map twice (`StoredCells`).  `RunAt` says
  that the blocks of a run are those of the map.  Two more conjuncts make the invariant `DInv`: a
  read holds the content between its start and the position (`ReadSoFar`), and a write that gives up
  lacks the space to grow and leaves the size as it was unless it grew the file (`Growth`).  A turn
  of the gathering loops is a stutter; the block an append adds lies beyond all that the file
  contained (`AppendKeeps`).  `ReadsReturnContent` is the same for the result of a read: it states
  `ReadsContent`, which `file_sparse` violates because of the holes, for files without any.

* `Journal_proofs`.  `JournalCopyIntact` in every situation of `Triggers`, and `FlushIsNoticed`
  unless recovery is `"delayed"`, for any blocks, any size of the log, any number of transactions
  and sessions.  For the first, `IInv` looks at the ring from `journal.start` on (`Dist`): the
  transactions of the queue lie one behind the other, then comes what the running one has logged,
  and `journal.last` is behind all of it.  An allocation is refused where it would reach the start
  (`RoomLeft`), and the start moves only over the head (`StartMoves`), which shortens all distances
  alike (`Rebase`).  For the second, `NInv` says for each dirty buffer which transaction it waits
  for (`Noticed`); that depends on the first, because an abort restores buffers from the log.
  `jbd_trans_end_write` takes a block off other transactions than the one the buffer waits for
  (`EndWriteKeeps`), and off its own only when the buffer is written (`EndsOlder`).

* `Journal_found_proofs`.  What `Found`, the loop of `jbd_iterate_log`, returns.  `FoundLaid`: on a
  log that holds a row of whole transactions with ids that follow each other (`Laid`), and then
  something that is not expected there, it returns that row.  The induction over the rounds of the
  loop is one over the least round at which something goes wrong (`WFMin`), because the provers
  cannot use the library's induction rule.
* `Journal_layout_proofs`.  `OnlyOfThisSession` (that is `NoStaleRecords`) and `TypesHold`, under
  the assumption `Mild`: none of `"restart"`, `"unrecovered"`, `"delayed"` and `"late"`, of which
  `journal_stale` and the table of triggers show what they do.  The row `H` that a recovery would
  find is a bound variable of the invariant `LInv(H)`: `LogCommit` appends to it, `WriteSb` drops
  the transactions that are home (`Rest`), and the end of a session or of a recovery empties it
  (`RowKept`).  `CInv` and `FInv` say that the check-point queue is the end of that row, and what
  the ring holds behind it, which is why the reader stops there.

* `Journal_atomic_proofs`.  Two theorems over the row `H`.  `MarkHolds` (`MarkedForRecovery`) under
  `Mild`: a session has set the mark before it starts the log, and takes it away when the
  queue is empty, at which point the row is empty too; outside of a session only recovery changes
  the row (`MInv`).  `StoreIsAtomic` (`AtomicUpdates`, that is `Journal` implements `AtomicStore`)
  under `Careful`: none of the six situations of `Triggers`.  None can be left out of that
  assumption: with any one of them alone TLC finds `AtomicUpdates` violated (11 blocks of log, 4
  transactions, by hand; `restart` by the older records that are replayed).  `MarkedForRecovery` is
  found violated under `restart` only; `Mild` is what its proof needs for the shape of the log.
  `AtomicStore` has no queue and no log, so what has to be known is where the content of a block is:
  - `Last(H, b, t)`: `t` is the last transaction of the row that has logged `b`, and nobody
    revoked `b` since.  After a power failure and recovery `b` holds what `t` wrote, or what is at
    home if there is no such `t` (`RecoveredIs`, from `FoundLaid`).
  - `AInv(H)` relates that to the queue.  What `t` wrote is home, or `t` owes it (`HomeOrOwed`);
    the newest transaction that owes `b` is `t` (`TopIsLast`), so nothing older is written over
    it; only metadata is owed (`OnlyMetadata`), so a block that is reused for file data is not
    written over; a block that is owed has a buffer, or its write is being completed
    (`BufferOrDone`, `EndsRight`); the journal's block record names `t` as long as `t` owes, which
    is what a later free writes a revoke record by (`RecordIsLast`, `FreedIsOwed`).  All of
    these speak of ids of transactions (`Ids`, `Queued`), not of places in the queue, which shift.
  - `Usage` says which blocks can change owner in a transaction: the bitmap is dirtied with them.
  - `RInv(H)`: while recovery replays, the last copy of a block is home and nothing of the block is
    left to replay, or that copy is still to come.  So a second power failure does no harm.

  From these, home is written only of blocks that the row has or that are not in use (`HomeWritten`),
  so each step but `LogCommit` leaves what is durable alone (`DurableSame`), and between
  transactions what callers read is what is durable (`Synced`).  `LogCommit`, the write of the commit
  block, is then `Commit` of the abstract store.

Only model-checked: `WriteBackBalanced` and the other properties of the violated runs, which do not
hold; and what TLAPS 1.4.5 cannot do, the liveness properties (`CallsReturn`, `MenuReached`).
The invariant `DInv` was checked by TLC on the instances of `file_safety` and `file_errors` first.

## 5. Not modelled

* Block and inode allocation, indirect blocks, extents, the layout of directories, extended
  attributes: see the plan.
* Of the journal: errors of the device and of `malloc`, ENOSPC, checksums and the escaping of the
  magic number, several descriptors or revoke blocks in a transaction, transactions that revoke
  and do nothing else.  `jbd_journal_commit_trans` drops a transaction that fails half-way.
* `ext4_umount` and several mount points: the boot manager never unmounts and has one.
* A partition left half made by a power failure in `ext4_mkfs` mounts again if its superblock was
  written.  The model shows that it is then never formatted and that its entries cannot be
  opened; what lwext4 reads from its half-written blocks is abstracted to `Undefined`.
* Text: option parsing (`config.c:26-50`), paths, titles.  Graphics and key input.
* `abm/abm.c` has an `#error` directive and does not build.
* Vendored code: LittlevGL, gptsync, the fsw drivers, EfiLib, the C runtime.

## 6. Plan

What remains, the most important behaviour first.

1. `BlockReuse`: blocks that change owner, from the free to the next allocation, over the
   cache's invalidation (`ext4_bcache.c:199`), and the inode references whose error paths leak
   or release twice (`ext4.c:1053`).
2. `Journal` over a device that fails, and with several descriptors in a transaction.
3. `Mount`: registering, several mount points, unmounting, `ext4_get_mount`; abstract table.
4. `Alloc`: the search over groups of `ext4_balloc.c` and its counters; indirect blocks.
5. `LvTask` (the scheduler loop of `lv_task.c`), `FswCore` (reference counts of dnodes and the
   block cache of `fsw_core.c`), `GptSync` (the choice of partitions), `MallocLib` (sizes).
