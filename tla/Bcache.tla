------------------------------- MODULE Bcache -------------------------------
(***************************************************************************)
(* The lwext4 buffer cache (ext4_bcache.c) under the block device layer    *)
(* (ext4_blockdev.c), on a device that may fail.                           *)
(*                                                                         *)
(* The library is single threaded.  Its callers hold block descriptors     *)
(* (struct ext4_block) that nest: one descriptor is held while others are  *)
(* got and put.  The loops of the code (shake, flush, cleanup) and the     *)
(* read between allocation and return are steps of their own, so that an   *)
(* error or a power failure can come between any two device accesses;      *)
(* everything else is one step per call.                                   *)
(*                                                                         *)
(* Contents are opaque values.  The 32-bit lru_id of a buffer appears only *)
(* as the order it induces, "older" (its wrap-around is not modelled).     *)
(* end_write is NULL throughout: only the journal sets it.  So dont_shake, *)
(* which protects the shake from the callback, is always false on entry.   *)
(***************************************************************************)
EXTENDS Naturals, FiniteSets

CONSTANTS
    Lba,            \* logical blocks reached through the cache (block 0 never is)
    LogLba,         \* those of the journal, got with jbd_block_get[_noread]
    Vals, Junk,     \* contents, and what fresh memory holds
    Descriptors,    \* struct ext4_block variables of the callers
    Cnt,            \* bc->cnt, the capacity (CONFIG_BLOCK_DEV_CACHE_SIZE)
    MaxWriteBack,   \* bound on the depth of nested ext4_cache_write_back
    MayFail,        \* device accesses and ext4_malloc may fail
    ReportsErrors   \* bread and bwrite return the error of the device

ASSUME LbaAssumption == Lba \subseteq Nat \ {0} /\ IsFiniteSet(Lba) /\ LogLba \subseteq Lba
ASSUME ValsAssumption == Vals # {} /\ Junk \notin Vals
ASSUME DescriptorsAssumption == IsFiniteSet(Descriptors)
ASSUME CntAssumption == Cnt \in Nat \ {0} /\ MaxWriteBack \in Nat
ASSUME FailureAssumption == MayFail \in BOOLEAN /\ ReportsErrors \in BOOLEAN

VARIABLES
    disk,              \* the device
    lba_root,          \* cached blocks
    lru_root,          \* cached blocks that nobody references
    older,             \* <<l, m>>: l was last acquired before m (lru_id order)
    dirty_list,        \* buffers ready to be flushed (its order does not matter)
    buf,               \* struct ext4_buf of each cached block
    ref_blocks,        \* bc->ref_blocks
    cache_write_back,  \* bdev->cache_write_back
    block,             \* descriptors: the block held, and an edit not yet flagged
    call,              \* the library call in progress
    ret                \* the outcome of the last step

cache == <<lba_root, lru_root, older, dirty_list, buf, ref_blocks>>
vars == <<disk, lba_root, lru_root, older, dirty_list, buf, ref_blocks,
          cache_write_back, block, call, ret>>

-----------------------------------------------------------------------------
Bufs == [data : Vals \cup {Junk}, uptodate : BOOLEAN, dirty : BOOLEAN,
         flush : BOOLEAN, tmp : BOOLEAN, refctr : Nat]

\* ext4_buf_alloc: malloc'ed data, everything else zero
FreshBuf == [data |-> Junk, uptodate |-> FALSE, dirty |-> FALSE,
             flush |-> FALSE, tmp |-> FALSE, refctr |-> 0]

Blocks == [lb_id : Lba \cup {0}, edit : BOOLEAN]
NoBlock == [lb_id |-> 0, edit |-> FALSE]

Idle == [pc |-> "idle"]
Flushing == [pc |-> "flush"]
Cleaning == [pc |-> "cleanup"]
Calls == {Idle, Flushing, Cleaning}
           \cup [pc : {"shake", "read", "flush_lba"}, d : Descriptors, l : Lba, read : BOOLEAN]

Outcomes == {"none", "busy", "got", "error", "written", "released",
             "invalidated", "flushed", "write_back", "umounted", "power_off"}

Holders(l) == {d \in Descriptors : block[d].lb_id = l}

(* Definitions named Bug_X are X with a plausible mistake.  No other       *)
(* definition uses them: they show which property each mistake breaks.     *)

\* ext4_bcache_set_dirty
SetDirty(b) == [b EXCEPT !.uptodate = TRUE, !.dirty = TRUE]

(* A device write: whether bwrite returns EOK, and whether the block has   *)
(* been written; a write that fails may leave either content.              *)
Writes == {[ok |-> TRUE, stored |-> TRUE]}
            \cup (IF MayFail THEN [ok : {~ReportsErrors}, stored : BOOLEAN] ELSE {})
WriteTo(l, w) == IF w.stored THEN [disk EXCEPT ![l] = buf[l].data] ELSE disk

\* ext4_block_flush_buf does something for this buffer
NeedsWrite(b) == b.dirty /\ b.uptodate

Bug_AfterWrite(b, w) == [b EXCEPT !.dirty = FALSE]

\* ext4_block_flush_buf: a buffer stays dirty if it could not be written.
AfterWrite(b, w) == [b EXCEPT !.dirty = ~w.ok]

Bug_LastHolder(b) == b.refctr <= 1

\* ext4_bcache_free does more than count only for the last holder, ...
LastHolder(b) == b.refctr = 0

Bug_Delayed(b) == NeedsWrite(b) /\ ~b.flush /\ ~b.tmp

\* ... who only lists the buffer, to be written later, ...
Delayed(b) == NeedsWrite(b) /\ cache_write_back > 0 /\ ~b.flush /\ ~b.tmp

\* ... or does not keep it.
NotKept(b) == ~b.uptodate \/ b.tmp

Bug_is_full == Cnt < ref_blocks

\* ext4_bcache_is_full
is_full == Cnt <= ref_blocks

\* ext4_buf_lowest_lru
LowestLru(l) == /\ l \in lru_root
                /\ \A m \in lru_root \ {l} : <<l, m>> \in older
Without(l) == {p \in older : p[1] # l /\ p[2] # l}
Newest(l) == Without(l) \cup ((lba_root \ {l}) \X {l})

Bug_FindGet(l) ==
    /\ lru_root' = lru_root \ {l}
    /\ older' = IF buf[l].refctr = 0 THEN Newest(l) ELSE older
    /\ UNCHANGED dirty_list

(* ext4_bcache_find_get, but for the count: an unreferenced buffer gets a  *)
(* new lru_id and leaves lru_root and the dirty list.  A buffer just       *)
(* allocated is in neither.                                                *)
FindGet(l) ==
    /\ lru_root' = lru_root \ {l}
    /\ older' = IF buf[l].refctr = 0 THEN Newest(l) ELSE older
    /\ dirty_list' = IF buf[l].refctr = 0 THEN dirty_list \ {l} ELSE dirty_list

-----------------------------------------------------------------------------
Init ==
    /\ disk \in [Lba -> Vals]
    /\ lba_root = {} /\ lru_root = {} /\ older = {} /\ dirty_list = {}
    /\ buf = [l \in Lba |-> FreshBuf]
    /\ ref_blocks = 0
    /\ cache_write_back = 0
    /\ block = [d \in Descriptors |-> NoBlock]
    /\ call = Idle
    /\ ret = "none"

Bug_Drop(l) ==
    /\ lba_root' = lba_root \ {l}
    /\ lru_root' = lru_root \ {l}
    /\ older' = Without(l)
    /\ buf' = [buf EXCEPT ![l] = FreshBuf]
    /\ UNCHANGED <<dirty_list, ref_blocks>>

(* ext4_bcache_drop_buf on an unreferenced buffer.                         *)
Drop(l) ==
    /\ lba_root' = lba_root \ {l}
    /\ lru_root' = lru_root \ {l}
    /\ older' = Without(l)
    /\ dirty_list' = dirty_list \ {l}
    /\ buf' = [buf EXCEPT ![l] = FreshBuf]
    /\ ref_blocks' = ref_blocks - 1

(* ext4_bcache_free by descriptor d, whose buffer is b: the last one to    *)
(* put a buffer back delays its write, or writes it; the outcome w of that *)
(* write is looked at by nobody (ext4_bcache.c:299).                       *)
Free(d, b, w) ==
    LET l     == block[d].lb_id
        r     == [b EXCEPT !.refctr = @ - 1]
        last  == LastHolder(r)
        delay == last /\ Delayed(r)
        flush == last /\ NeedsWrite(r) /\ ~Delayed(r)
        f     == IF flush THEN [AfterWrite(r, w) EXCEPT !.flush = FALSE] ELSE r
    IN  /\ disk' = IF flush /\ w.stored THEN [disk EXCEPT ![l] = b.data] ELSE disk
        /\ block' = [block EXCEPT ![d] = NoBlock]
        /\ IF last /\ NotKept(r)
           THEN Drop(l)
           ELSE /\ lru_root' = IF last THEN lru_root \cup {l} ELSE lru_root
                /\ dirty_list' = IF delay THEN dirty_list \cup {l}
                                 ELSE IF flush /\ w.ok THEN dirty_list \ {l}
                                 ELSE dirty_list
                /\ buf' = [buf EXCEPT ![l] = f]
                /\ UNCHANGED <<lba_root, older, ref_blocks>>

Return(r) == call' = Idle /\ ret' = r
Continue(c) == call' = c /\ ret' = "busy"

-----------------------------------------------------------------------------
(* ext4_block_get (read) and ext4_block_get_noread, up to the shake.       *)
Get(d, l, read) ==
    /\ call = Idle
    /\ block[d].lb_id = 0
    /\ Continue([pc |-> "shake", d |-> d, l |-> l, read |-> read])
    /\ UNCHANGED <<disk, cache, cache_write_back, block>>

Shaking == call.pc = "shake" /\ lru_root # {} /\ is_full

\* One turn of the loop of ext4_block_cache_shake, the write having succeeded.
ShakeDrop(w) ==
    /\ Shaking
    /\ w.ok
    /\ \E l \in lru_root :
          /\ LowestLru(l)
          /\ disk' = IF NeedsWrite(buf[l]) THEN WriteTo(l, w) ELSE disk
          /\ Drop(l)
    /\ UNCHANGED <<cache_write_back, block, call, ret>>

Bug_ShakeFail(w) ==
    /\ Shaking
    /\ ~w.ok
    /\ \E l \in lru_root :
          /\ LowestLru(l)
          /\ NeedsWrite(buf[l])
          /\ disk' = WriteTo(l, w)
          /\ Drop(l)
    /\ Return("error")
    /\ UNCHANGED <<cache_write_back, block>>

\* The write failed: the shake stops and the get returns the error.
ShakeFail(w) ==
    /\ Shaking
    /\ ~w.ok
    /\ \E l \in lru_root :
          /\ LowestLru(l)
          /\ NeedsWrite(buf[l])
          /\ disk' = WriteTo(l, w)
    /\ Return("error")
    /\ UNCHANGED <<cache, cache_write_back, block>>

\* jbd_block_get and jbd_block_get_noread flag the buffer they got.
Flagged(b, l, read) ==
    IF l \in LogLba THEN [b EXCEPT !.flush = TRUE, !.tmp = @ \/ read] ELSE b

(* ext4_bcache_alloc: find_get, or a new buffer.  A get that needs the     *)
(* device goes on to read; any other returns here.                         *)
Alloc ==
    /\ call.pc = "shake"
    /\ ~Shaking
    /\ LET l == call.l
           b == [buf[l] EXCEPT !.refctr = @ + 1]
           mustRead == call.read /\ ~b.uptodate
       IN  /\ lba_root' = lba_root \cup {l}
           /\ FindGet(l)
           /\ buf' = [buf EXCEPT ![l] = IF mustRead THEN b ELSE Flagged(b, l, call.read)]
           /\ ref_blocks' = IF l \in lba_root THEN ref_blocks ELSE ref_blocks + 1
           /\ block' = [block EXCEPT ![call.d] = [lb_id |-> l, edit |-> FALSE]]
           /\ IF mustRead THEN Continue([call EXCEPT !.pc = "read"]) ELSE Return("got")
    /\ UNCHANGED <<disk, cache_write_back>>

\* ext4_buf_alloc found no memory: ENOMEM
AllocFail ==
    /\ MayFail
    /\ call.pc = "shake"
    /\ ~Shaking
    /\ call.l \notin lba_root
    /\ Return("error")
    /\ UNCHANGED <<disk, cache, cache_write_back, block>>

(* The read of ext4_block_get.  A device that fails without saying so      *)
(* leaves the memory as it was allocated.                                  *)
Read(v) ==
    /\ call.pc = "read"
    /\ v = disk[call.l] \/ (MayFail /\ ~ReportsErrors /\ v = Junk)
    /\ LET b == [buf[call.l] EXCEPT !.data = v, !.uptodate = TRUE]
       IN  buf' = [buf EXCEPT ![call.l] = Flagged(b, call.l, TRUE)]
    /\ Return("got")
    /\ UNCHANGED <<disk, lba_root, lru_root, older, dirty_list, ref_blocks,
                   cache_write_back, block>>

Bug_ReadFail ==
    /\ MayFail /\ ReportsErrors
    /\ call.pc = "read"
    /\ block' = [block EXCEPT ![call.d] = NoBlock]
    /\ Return("error")
    /\ UNCHANGED <<disk, cache, cache_write_back>>

\* The read failed: ext4_block_get puts the buffer back and returns the error.
ReadFail ==
    /\ MayFail /\ ReportsErrors
    /\ call.pc = "read"
    /\ Free(call.d, buf[call.l], [ok |-> TRUE, stored |-> TRUE])
    /\ Return("error")
    /\ UNCHANGED cache_write_back

-----------------------------------------------------------------------------
(* A holder replaces the content and flags the buffer at once, as callers  *)
(* of the noread variant do (ext4_trans_set_block_dirty, no transaction).  *)
Overwrite(d, v) ==
    /\ call = Idle
    /\ block[d].lb_id # 0
    /\ LET l == block[d].lb_id
       IN  buf' = [buf EXCEPT ![l] = SetDirty([buf[l] EXCEPT !.data = v])]
    /\ Return("written")
    /\ UNCHANGED <<disk, lba_root, lru_root, older, dirty_list, ref_blocks,
                   cache_write_back, block>>

(* A holder modifies a block it has read and flags it only when it puts it *)
(* back, as ext4_fs_put_inode_ref does with ref->dirty.                    *)
Edit(d, v) ==
    /\ call = Idle
    /\ block[d].lb_id # 0
    /\ buf[block[d].lb_id].uptodate
    /\ buf' = [buf EXCEPT ![block[d].lb_id].data = v]
    /\ block' = [block EXCEPT ![d].edit = TRUE]
    /\ Return("written")
    /\ UNCHANGED <<disk, lba_root, lru_root, older, dirty_list, ref_blocks,
                   cache_write_back>>

\* ext4_fs_put_inode_ref / ext4_block_set
Put(d, w) ==
    /\ call = Idle
    /\ block[d].lb_id # 0
    /\ LET b == buf[block[d].lb_id]
       IN  Free(d, IF block[d].edit THEN SetDirty(b) ELSE b, w)
    /\ Return("released")
    /\ UNCHANGED cache_write_back

(* ext4_block_flush_lba gets the buffer, if it is cached, flushes it ...   *)
FlushLba(d, l, w) ==
    /\ call = Idle
    /\ block[d].lb_id = 0
    /\ l \in lba_root
    /\ LET b == [buf[l] EXCEPT !.refctr = @ + 1]
       IN  /\ disk' = IF NeedsWrite(b) THEN WriteTo(l, w) ELSE disk
           /\ buf' = [buf EXCEPT ![l] =
                        IF NeedsWrite(b) THEN AfterWrite(b, w) ELSE b]
    /\ FindGet(l)
    /\ block' = [block EXCEPT ![d] = [lb_id |-> l, edit |-> FALSE]]
    /\ Continue([pc |-> "flush_lba", d |-> d, l |-> l, read |-> FALSE])
    /\ UNCHANGED <<lba_root, ref_blocks, cache_write_back>>

\* ... and puts it back; the result is that of the flush, and not looked at.
FlushLbaPut(w) ==
    /\ call.pc = "flush_lba"
    /\ Free(call.d, buf[call.l], w)
    /\ Return("released")
    /\ UNCHANGED cache_write_back

(* ext4_bcache_invalidate_lba, for the blocks from..to: the loop starts at *)
(* the buffer of the first one, and does nothing when that is not cached.  *)
InvalidatedBy(from, to) ==
    IF from \in lba_root THEN {l \in lba_root : from <= l /\ l <= to} ELSE {}

Bug_Invalidate(from, to) ==
    /\ call = Idle
    /\ from <= to
    /\ \A d \in Descriptors : block[d].edit => block[d].lb_id \notin from..to
    /\ buf' = [l \in Lba |-> IF l \in InvalidatedBy(from, to)
                             THEN [buf[l] EXCEPT !.uptodate = FALSE, !.dirty = FALSE]
                             ELSE buf[l]]
    /\ Return("invalidated")
    /\ UNCHANGED <<disk, lba_root, lru_root, older, dirty_list, ref_blocks,
                   cache_write_back, block>>

Invalidate(from, to) ==
    /\ call = Idle
    /\ from <= to
    /\ \A d \in Descriptors : block[d].edit => block[d].lb_id \notin from..to
    /\ LET S == InvalidatedBy(from, to)
       IN  /\ dirty_list' = dirty_list \ S
           /\ buf' = [l \in Lba |-> IF l \in S
                                    THEN [buf[l] EXCEPT !.uptodate = FALSE, !.dirty = FALSE]
                                    ELSE buf[l]]
    /\ Return("invalidated")
    /\ UNCHANGED <<disk, lba_root, lru_root, older, ref_blocks, cache_write_back, block>>

-----------------------------------------------------------------------------
\* ext4_block_cache_flush
CacheFlush ==
    /\ call = Idle
    /\ Continue(Flushing)
    /\ UNCHANGED <<disk, cache, cache_write_back, block>>

FlushOne(w) ==
    /\ call = Flushing
    /\ w.ok
    /\ \E l \in dirty_list :
          /\ disk' = IF NeedsWrite(buf[l]) THEN WriteTo(l, w) ELSE disk
          /\ dirty_list' = IF NeedsWrite(buf[l]) THEN dirty_list \ {l} ELSE dirty_list
          /\ buf' = IF NeedsWrite(buf[l]) THEN [buf EXCEPT ![l].dirty = FALSE] ELSE buf
    /\ UNCHANGED <<lba_root, lru_root, older, ref_blocks, cache_write_back, block, call, ret>>

FlushFail(w) ==
    /\ call = Flushing
    /\ ~w.ok
    /\ \E l \in dirty_list : NeedsWrite(buf[l]) /\ disk' = WriteTo(l, w)
    /\ Return("error")
    /\ UNCHANGED <<cache, cache_write_back, block>>

Bug_FlushDone ==
    /\ call = Flushing
    /\ Cardinality(dirty_list) <= 1
    /\ Return("flushed")
    /\ UNCHANGED <<disk, cache, cache_write_back, block>>

FlushDone ==
    /\ call = Flushing
    /\ dirty_list = {}
    /\ Return("flushed")
    /\ UNCHANGED <<disk, cache, cache_write_back, block>>

\* ext4_block_cache_write_back(bdev, 1)
WriteBackOn ==
    /\ call = Idle
    /\ cache_write_back < MaxWriteBack
    /\ cache_write_back' = cache_write_back + 1
    /\ Return("write_back")
    /\ UNCHANGED <<disk, cache, block>>

\* ext4_block_cache_write_back(bdev, 0): the outermost one flushes
WriteBackOff ==
    /\ call = Idle
    /\ cache_write_back' = IF cache_write_back > 0 THEN cache_write_back - 1 ELSE 0
    /\ IF cache_write_back > 1 THEN Return("write_back") ELSE Continue(Flushing)
    /\ UNCHANGED <<disk, cache, block>>

(* ext4_bcache_cleanup, called by ext4_umount when nothing is held: every  *)
(* buffer is written if need be, and dropped whether or not that worked.   *)
Cleanup ==
    /\ call = Idle
    /\ \A d \in Descriptors : block[d].lb_id = 0
    /\ Continue(Cleaning)
    /\ UNCHANGED <<disk, cache, cache_write_back, block>>

Bug_CleanupOne(w) ==
    /\ call = Cleaning
    /\ \E l \in lba_root : (\A m \in lba_root : l <= m) /\ Drop(l)
    /\ UNCHANGED <<disk, cache_write_back, block, call, ret>>

CleanupOne(w) ==
    /\ call = Cleaning
    /\ \E l \in lba_root :
          /\ \A m \in lba_root : l <= m
          /\ disk' = IF NeedsWrite(buf[l]) THEN WriteTo(l, w) ELSE disk
          /\ Drop(l)
    /\ UNCHANGED <<cache_write_back, block, call, ret>>

CleanupDone ==
    /\ call = Cleaning
    /\ lba_root = {}
    /\ Return("umounted")
    /\ UNCHANGED <<disk, cache, cache_write_back, block>>

(* The power goes, or control is handed to the loaded kernel, at any point *)
(* between two device accesses; the next boot starts with an empty cache.  *)
PowerOff ==
    /\ lba_root' = {} /\ lru_root' = {} /\ older' = {} /\ dirty_list' = {}
    /\ buf' = [l \in Lba |-> FreshBuf]
    /\ ref_blocks' = 0
    /\ cache_write_back' = 0
    /\ block' = [d \in Descriptors |-> NoBlock]
    /\ Return("power_off")
    /\ UNCHANGED disk

-----------------------------------------------------------------------------
\* The steps of a call in progress ...
Internal ==
    \/ Alloc \/ AllocFail \/ ReadFail \/ FlushDone \/ CleanupDone
    \/ \E v \in Vals \cup {Junk} : Read(v)
    \/ \E w \in Writes : \/ ShakeDrop(w) \/ ShakeFail(w)
                         \/ FlushOne(w) \/ FlushFail(w)
                         \/ CleanupOne(w) \/ FlushLbaPut(w)

\* ... and the calls, and the writes to held blocks between them.
External ==
    \/ \E d \in Descriptors :
          \/ \E l \in Lba, read \in BOOLEAN : Get(d, l, read)
          \/ \E v \in Vals : Overwrite(d, v) \/ Edit(d, v)
          \/ \E w \in Writes : Put(d, w) \/ \E l \in Lba : FlushLba(d, l, w)
    \/ \E from, to \in Lba : Invalidate(from, to)
    \/ CacheFlush \/ WriteBackOn \/ WriteBackOff \/ Cleanup

Next == Internal \/ External \/ PowerOff

Spec == Init /\ [][Next]_vars

\* The one thread of the program goes on, and device accesses return.
FairSpec == Spec /\ WF_vars(Internal)

-----------------------------------------------------------------------------
TypeOK ==
    /\ disk \in [Lba -> Vals]
    /\ lba_root \subseteq Lba /\ lru_root \subseteq lba_root /\ dirty_list \subseteq lba_root
    /\ older \subseteq lba_root \X lba_root
    /\ buf \in [Lba -> Bufs]
    /\ ref_blocks \in Nat
    /\ cache_write_back \in 0..MaxWriteBack
    /\ block \in [Descriptors -> Blocks]
    /\ call \in Calls
    /\ ret \in Outcomes

(* The comment at ext4_bcache.c:114-116: a buffer is in lru_root exactly   *)
(* when it is cached and not referenced.                                   *)
LruIffUnreferenced == lru_root = {l \in lba_root : buf[l].refctr = 0}

(* Reference counts count the descriptors: a buffer is never dropped, and  *)
(* its memory freed, under a caller that still holds it.                   *)
RefctrCountsHolders == \A l \in Lba : buf[l].refctr = Cardinality(Holders(l))

(* What ext4_block_cache_flush relies on to end: a listed buffer is not    *)
(* referenced and is written, hence unlisted, when its turn comes.         *)
DirtyListFlushable == \A l \in dirty_list : l \in lru_root /\ NeedsWrite(buf[l])

(* ref_blocks, which alone decides when the cache is full, is the number   *)
(* of cached buffers.                                                      *)
RefBlocksExact == ref_blocks = Cardinality(lba_root)

(* BC_UPTODATE, "Buffer contains valid data" (include/ext4_bcache.h:153):  *)
(* a buffer that is up to date and has nothing to write holds what the     *)
(* device holds, whatever accesses have failed before.                     *)
UptodateIsValid ==
    \A l \in lba_root :
        buf[l].uptodate /\ ~buf[l].dirty /\ (\A d \in Holders(l) : ~block[d].edit)
            => buf[l].data = disk[l]

(* With write-back off and a device that does not fail, the cache is write *)
(* through (include/ext4.h:226-261): once a call has returned, a block     *)
(* nobody holds has nothing left to write.                                 *)
WriteThrough ==
    ~MayFail /\ call = Idle /\ cache_write_back = 0
        => \A l \in lru_root : ~buf[l].dirty

(* "Flush all dirty buffers to disk" (include/ext4_blockdev.h:248): when   *)
(* ext4_block_cache_flush returns EOK no unreferenced buffer is dirty.     *)
FlushedAll == ret = "flushed" => \A l \in lru_root : ~buf[l].dirty

\* What a get of block l would give its caller
Content(l) == IF buf[l].uptodate THEN buf[l].data ELSE disk[l]

(* No step but a write of its holder, its invalidation and a power failure *)
(* changes what a block contains: not its eviction, not a failed write, no *)
(* error path.  Unmounting on a failing device does, and so does putting   *)
(* back a journal block when its write fails: both drop the buffer.        *)
NoSilentLoss ==
    [][ ret' \notin {"written", "invalidated", "power_off"} /\ ~(MayFail /\ call = Cleaning)
          => \A l \in Lba \ LogLba : Content(l)' = Content(l) ]_vars

(* The cache grows beyond its capacity only when every buffer is in use.   *)
GrowsOnlyWhenReferenced ==
    [][ Cardinality(lba_root') > Cardinality(lba_root) /\ Cardinality(lba_root) >= Cnt
          => \A l \in lba_root : buf[l].refctr > 0 ]_vars

(* A buffer that is referenced stays cached, whoever evicts, invalidates   *)
(* or flushes around it.                                                   *)
HeldStaysCached ==
    [][ \A d \in Descriptors : block[d].lb_id # 0 /\ block[d]' = block[d]
          => block[d].lb_id \in lba_root' ]_vars

(* Every call returns: the shake, the flush and the cleanup loops end.     *)
CallsReturn == call # Idle ~> call = Idle

(* The cache keeps the promises of BlockStore.                             *)
Store == INSTANCE BlockStore WITH
    content <- [l \in Lba |-> Content(l)],
    durable <- disk,
    held    <- {l \in Lba : Holders(l) # {}}
StoreSpec == Store!Spec
=============================================================================
