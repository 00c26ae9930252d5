------------------------- MODULE Bcache_store_proofs -------------------------
(***************************************************************************)
(* What the cache does to contents, from the bookkeeping that              *)
(* Bcache_proofs establishes: no clean buffer is stale, no content is lost *)
(* by anything but a write, an invalidation or a power failure, and the    *)
(* cache outgrows its capacity only when everything in it is in use.       *)
(***************************************************************************)
EXTENDS Bcache_proofs

\* The buffer of block l, if clean, holds what the device holds.
ValidAt(l) ==
    buf[l].uptodate /\ ~buf[l].dirty
    /\ (\A d \in Descriptors : block[d].lb_id = l => ~block[d].edit)
        => buf[l].data = disk[l]

\* UptodateIsValid, stated of every block: buffers not cached are not up to date.
AllValid == \A l \in Lba : ValidAt(l)

LEMMA ValidEquiv ==
    ASSUME IInv
    PROVE  AllValid <=> UptodateIsValid
<1>1. \A l \in Lba : l \notin lba_root => ~buf[l].uptodate
  BY DEF IInv, CacheInv, UncachedIsFresh, FreshBuf
<1>2. lba_root \subseteq Lba
  BY DEF IInv, CacheInv, TypeOK
<1>. QED  BY <1>1, <1>2 DEF AllValid, ValidAt, UptodateIsValid, Holders

\* A device that reports its errors has stored what it says it has.
LEMMA OkIsStored ==
    ASSUME ReportsErrors, NEW w \in Writes, w.ok
    PROVE  w.stored
<1>1. CASE w = [ok |-> TRUE, stored |-> TRUE]
  BY <1>1
<1>2. CASE w \in [ok : {~ReportsErrors}, stored : BOOLEAN]
  BY <1>2
<1>. QED  BY <1>1, <1>2 DEF Writes

\* The device and the buffers of the blocks other than l stay as they are.
OthersKept(l) ==
    \A m \in Lba \ {l} : disk'[m] = disk[m] /\ buf'[m] = buf[m]

LEMMA OthersStayValid ==
    ASSUME AllValid, NEW l, OthersKept(l),
           \A m \in Lba \ {l} : \A d \in Descriptors :
               block[d].lb_id = m /\ block[d].edit => block'[d] = block[d]
    PROVE  \A m \in Lba \ {l} : ValidAt(m)'
BY DEF AllValid, ValidAt, OthersKept

\* ext4_bcache_drop_buf: the others keep their contents, and l has none.
LEMMA DropContent ==
    ASSUME TypeOK, NEW l \in Lba, Drop(l),
           disk' = disk \/ \E v : disk' = [disk EXCEPT ![l] = v]
    PROVE  OthersKept(l) /\ ~buf'[l].uptodate
BY DEF TypeOK, Drop, FreshBuf, OthersKept

\* ext4_bcache_free, with the record b the last holder has made of the buffer.
LEMMA FreeContent ==
    ASSUME CacheInv, ReportsErrors, AllValid,
           NEW d \in Descriptors, NEW l \in Lba, block[d].lb_id = l,
           NEW b \in Bufs, b.refctr = buf[l].refctr,
           b.dirty \/ (b = buf[l] /\ ~block[d].edit),
           NEW w \in Writes, Free(d, b, w)
    PROVE  AllValid'
<1>. USE DEF CacheInv
<1>. DEFINE r == [b EXCEPT !.refctr = @ - 1]
            flush == LastHolder(r) /\ NeedsWrite(r) /\ ~Delayed(r)
            f == IF flush THEN [AfterWrite(r, w) EXCEPT !.flush = FALSE] ELSE r
<1>1. /\ block' = [block EXCEPT ![d] = NoBlock]
      /\ disk' = IF flush /\ w.stored THEN [disk EXCEPT ![l] = b.data] ELSE disk
      /\ buf' = [buf EXCEPT ![l] = FreshBuf] \/ buf' = [buf EXCEPT ![l] = f]
  BY DEF Free, Drop
<1>2. OthersKept(l)
  <2>. HIDE DEF f, flush
  <2>. QED  BY <1>1 DEF OthersKept, TypeOK
<1>3. \A m \in Lba \ {l} : ValidAt(m)'
  BY <1>1, <1>2, OthersStayValid DEF TypeOK
<1>4. r \in Bufs /\ r.uptodate = b.uptodate /\ r.dirty = b.dirty /\ r.data = b.data
  <2>1. buf[l].refctr # 0
    BY HeldIsCached
  <2>. QED  BY <2>1 DEF Bufs
<1>5. ValidAt(l)'
  <2>1. CASE buf' = [buf EXCEPT ![l] = FreshBuf]
    BY <2>1 DEF ValidAt, FreshBuf, TypeOK
  <2>2. CASE buf' = [buf EXCEPT ![l] = f] /\ flush
    <3>1. AfterWrite(r, w) \in Bufs /\ AfterWrite(r, w).dirty = ~w.ok
          /\ AfterWrite(r, w).data = b.data
      BY <1>4 DEF AfterWrite, Bufs
    <3>2. f = [AfterWrite(r, w) EXCEPT !.flush = FALSE]
      BY <2>2
    <3>3. f.data = b.data /\ (~f.dirty => w.ok)
      BY <3>1, <3>2 DEF Bufs
    <3>4. w.ok => disk' = [disk EXCEPT ![l] = b.data]
      BY <1>1, <2>2, OkIsStored
    <3>. HIDE DEF f
    <3>. QED  BY <2>2, <3>3, <3>4 DEF ValidAt, TypeOK
  <2>3. CASE buf' = [buf EXCEPT ![l] = f] /\ ~flush
    <3>1. f = r /\ disk' = disk
      BY <1>1, <2>3
    <3>2. CASE b.dirty
      BY <1>4, <2>3, <3>1, <3>2 DEF ValidAt, TypeOK
    <3>3. CASE ~b.dirty
      <4>1. b = buf[l] /\ ~block[d].edit
        BY <3>3
      <4>2. \A e \in Descriptors : e # d => block'[e] = block[e]
        BY <1>1 DEF TypeOK
      <4>3. buf'[l].uptodate = buf[l].uptodate /\ buf'[l].dirty = buf[l].dirty
            /\ buf'[l].data = buf[l].data
        BY <1>4, <2>3, <3>1, <4>1 DEF TypeOK
      <4>. HIDE DEF f, r, flush
      <4>. QED  BY <3>1, <4>1, <4>2, <4>3 DEF ValidAt, AllValid
    <3>. QED  BY <3>2, <3>3
  <2>. QED  BY <1>1, <2>1, <2>2, <2>3
<1>. QED  BY <1>3, <1>5 DEF AllValid

\* The device and the buffers as they are, and no edit flagged: nothing changes.
LEMMA SameIsValid ==
    ASSUME AllValid, UNCHANGED <<disk, buf>>,
           \A d \in Descriptors : block[d].edit => block'[d] = block[d]
    PROVE  AllValid'
BY DEF AllValid, ValidAt

\* What a caller that holds no block gets does not change who edits what.
LEMMA AcquireKeepsEdits ==
    ASSUME CacheInv, NEW d \in Descriptors, block[d].lb_id = 0,
           NEW l, block' = [block EXCEPT ![d] = [lb_id |-> l, edit |-> FALSE]]
    PROVE  \A e \in Descriptors : block[e].edit => block'[e] = block[e]
BY DEF CacheInv, TypeOK, EditIsWritten

\* A write of a buffer that has to be written leaves the others alone.
LEMMA WriteContent ==
    ASSUME TypeOK, NEW l \in Lba, NEW w
    PROVE  /\ WriteTo(l, w) = disk \/ WriteTo(l, w) = [disk EXCEPT ![l] = buf[l].data]
           /\ w.stored => WriteTo(l, w)[l] = buf[l].data
           /\ \A m \in Lba \ {l} : WriteTo(l, w)[m] = disk[m]
BY DEF WriteTo, TypeOK

(* A drop of an unreferenced buffer, written if it had to be: by the shake *)
(* and by the cleanup.                                                     *)
LEMMA DropKeepsValid ==
    ASSUME CacheInv, AllValid, NEW l \in Lba, Drop(l), NEW w,
           disk' = IF NeedsWrite(buf[l]) THEN WriteTo(l, w) ELSE disk,
           UNCHANGED block
    PROVE  AllValid'
<1>1. TypeOK
  BY DEF CacheInv
<1>2. disk' = disk \/ \E v : disk' = [disk EXCEPT ![l] = v]
  BY <1>1, WriteContent
<1>3. OthersKept(l) /\ ~buf'[l].uptodate
  BY <1>1, <1>2, DropContent
<1>4. \A m \in Lba \ {l} : ValidAt(m)'
  BY <1>3, OthersStayValid
<1>. QED  BY <1>3, <1>4 DEF AllValid, ValidAt

-----------------------------------------------------------------------------
(* The step: on a device that reports its errors no action makes a clean   *)
(* buffer differ from the device.                                          *)
THEOREM NextValid ==
    ASSUME ReportsErrors, IInv, AllValid, [Next]_vars
    PROVE  AllValid'
<1>. USE DEF IInv
<1>0. CacheInv /\ TypeOK /\ call \in Calls
  BY DEF CacheInv, TypeOK
<1>1. ASSUME NEW w \in Writes, ShakeDrop(w)
      PROVE  AllValid'
  <2>. PICK l \in lru_root : /\ disk' = IF NeedsWrite(buf[l]) THEN WriteTo(l, w) ELSE disk
                             /\ Drop(l)
    BY <1>1 DEF ShakeDrop
  <2>1. l \in Lba
    BY <1>0 DEF TypeOK
  <2>. QED  BY <1>0, <1>1, <2>1, DropKeepsValid DEF ShakeDrop
<1>2. ASSUME NEW w \in Writes, CleanupOne(w)
      PROVE  AllValid'
  <2>. PICK l \in lba_root : /\ disk' = IF NeedsWrite(buf[l]) THEN WriteTo(l, w) ELSE disk
                             /\ Drop(l)
    BY <1>2 DEF CleanupOne
  <2>1. l \in Lba
    BY <1>0 DEF TypeOK
  <2>. QED  BY <1>0, <1>2, <2>1, DropKeepsValid DEF CleanupOne
<1>3. ASSUME NEW w \in Writes, ShakeFail(w) \/ FlushFail(w)
      PROVE  AllValid'
  <2>. PICK l \in Lba : NeedsWrite(buf[l]) /\ disk' = WriteTo(l, w)
    BY <1>0, <1>3 DEF ShakeFail, FlushFail, TypeOK
  <2>1. UNCHANGED <<buf, block>>
    BY <1>3 DEF ShakeFail, FlushFail, cache
  <2>2. OthersKept(l)
    <3>1. \A m \in Lba \ {l} : WriteTo(l, w)[m] = disk[m]
      BY <1>0, WriteContent
    <3>. QED  BY <2>1, <3>1 DEF OthersKept
  <2>3. \A m \in Lba \ {l} : ValidAt(m)'
    BY <2>1, <2>2, OthersStayValid
  <2>4. buf'[l].dirty
    BY <2>1 DEF NeedsWrite
  <2>. QED  BY <2>3, <2>4 DEF AllValid, ValidAt
<1>4. ASSUME Alloc
      PROVE  AllValid'
  <2>. DEFINE l == call.l
              d == call.d
              b == [buf[l] EXCEPT !.refctr = @ + 1]
              c == IF call.read /\ ~b.uptodate THEN b ELSE Flagged(b, l, call.read)
  <2>1. d \in Descriptors /\ l \in Lba /\ block[d].lb_id = 0
    BY <1>0, <1>4, CallFields DEF Alloc, CallHolds
  <2>2. b \in Bufs /\ b.data = buf[l].data /\ b.uptodate = buf[l].uptodate
        /\ b.dirty = buf[l].dirty
    BY <1>0, <2>1 DEF TypeOK, Bufs
  <2>3. c.data = buf[l].data /\ c.uptodate = buf[l].uptodate /\ c.dirty = buf[l].dirty
    <3>. HIDE DEF b, l, d
    <3>. QED  BY <2>2 DEF Flagged, Bufs
  <2>4. /\ buf' = [buf EXCEPT ![l] = c] /\ disk' = disk
        /\ block' = [block EXCEPT ![d] = [lb_id |-> l, edit |-> FALSE]]
    BY <1>4 DEF Alloc
  <2>5. \A e \in Descriptors : block[e].edit => block'[e] = block[e]
    BY <1>0, <2>1, <2>4, AcquireKeepsEdits
  <2>. HIDE DEF c, l, d
  <2>. QED  BY <1>0, <2>1, <2>3, <2>4, <2>5 DEF AllValid, ValidAt, TypeOK
<1>5. ASSUME NEW v \in Vals \cup {Junk}, Read(v)
      PROVE  AllValid'
  <2>. DEFINE l == call.l
              b == [buf[l] EXCEPT !.data = v, !.uptodate = TRUE]
              c == Flagged(b, l, TRUE)
  <2>1. l \in Lba /\ v = disk[l]
    BY <1>0, <1>5, CallFields DEF Read
  <2>2. b \in Bufs /\ b.data = v
    <3>1. buf[l] \in Bufs
      BY <1>0, <2>1 DEF TypeOK
    <3>. HIDE DEF l
    <3>. QED  BY <3>1 DEF Bufs
  <2>3. c.data = v
    <3>. HIDE DEF b, l
    <3>. QED  BY <2>2 DEF Flagged, Bufs
  <2>4. buf' = [buf EXCEPT ![l] = c] /\ UNCHANGED <<disk, block>>
    BY <1>5 DEF Read
  <2>. HIDE DEF c, l
  <2>. QED  BY <1>0, <2>1, <2>3, <2>4 DEF AllValid, ValidAt, TypeOK
<1>6. ASSUME ReadFail
      PROVE  AllValid'
  <2>. DEFINE w == [ok |-> TRUE, stored |-> TRUE]
  <2>1. w \in Writes
    BY DEF Writes
  <2>2. call.d \in Descriptors /\ call.l \in Lba
        /\ block[call.d] = [lb_id |-> call.l, edit |-> FALSE]
    BY <1>0, <1>6, CallFields DEF ReadFail, CallHolds
  <2>3. buf[call.l] \in Bufs /\ Free(call.d, buf[call.l], w)
    BY <1>0, <1>6, <2>2 DEF ReadFail, TypeOK
  <2>. HIDE DEF w
  <2>. QED  BY <1>0, <2>1, <2>2, <2>3, FreeContent
<1>7. ASSUME NEW d \in Descriptors, NEW v \in Vals, Overwrite(d, v)
      PROVE  AllValid'
  <2>. DEFINE l == block[d].lb_id
              b == SetDirty([buf[l] EXCEPT !.data = v])
  <2>1. l \in Lba
    BY <1>0, <1>7 DEF Overwrite, TypeOK, Blocks
  <2>2. b.dirty
    BY <1>0, <2>1 DEF SetDirty, TypeOK, Bufs
  <2>3. buf' = [buf EXCEPT ![l] = b] /\ UNCHANGED <<disk, block>>
    BY <1>7 DEF Overwrite
  <2>. HIDE DEF b
  <2>. QED  BY <1>0, <2>1, <2>2, <2>3 DEF AllValid, ValidAt, TypeOK
<1>8. ASSUME NEW d \in Descriptors, NEW v \in Vals, Edit(d, v)
      PROVE  AllValid'
  <2>1. block'[d].edit /\ block'[d].lb_id = block[d].lb_id
    BY <1>0, <1>8 DEF Edit, TypeOK, Blocks
  <2>2. block[d].lb_id \in Lba
    BY <1>0, <1>8 DEF Edit, TypeOK, Blocks
  <2>3. \A m \in Lba : m # block[d].lb_id => buf'[m] = buf[m]
    BY <1>0, <1>8, <2>2 DEF Edit, TypeOK
  <2>4. \A e \in Descriptors : e # d => block'[e] = block[e]
    BY <1>0, <1>8 DEF Edit, TypeOK
  <2>5. disk' = disk
    BY <1>8 DEF Edit
  <2>6. ASSUME NEW m \in Lba, m # block[d].lb_id
        PROVE  ValidAt(m)'
    BY <2>1, <2>3, <2>4, <2>5, <2>6 DEF AllValid, ValidAt
  <2>7. ASSUME NEW m \in Lba, m = block[d].lb_id
        PROVE  ValidAt(m)'
    BY <2>1, <2>7 DEF ValidAt
  <2>. QED  BY <2>6, <2>7 DEF AllValid
<1>9. ASSUME NEW d \in Descriptors, NEW w \in Writes, Put(d, w)
      PROVE  AllValid'
  <2>. DEFINE l == block[d].lb_id
              b == IF block[d].edit THEN SetDirty(buf[l]) ELSE buf[l]
  <2>1. l \in Lba /\ buf[l] \in Bufs
    BY <1>0, <1>9 DEF Put, TypeOK, Blocks
  <2>2. b \in Bufs /\ b.refctr = buf[l].refctr
        /\ (b.dirty \/ (b = buf[l] /\ ~block[d].edit))
    BY <2>1 DEF SetDirty, Bufs
  <2>3. Free(d, b, w)
    BY <1>9 DEF Put
  <2>. HIDE DEF b
  <2>. QED  BY <1>0, <2>1, <2>2, <2>3, FreeContent
<1>10. ASSUME NEW d \in Descriptors, NEW l \in Lba, NEW w \in Writes, FlushLba(d, l, w)
       PROVE  AllValid'
  <2>. DEFINE b == [buf[l] EXCEPT !.refctr = @ + 1]
              c == IF NeedsWrite(b) THEN AfterWrite(b, w) ELSE b
  <2>1. b \in Bufs /\ b.data = buf[l].data /\ b.uptodate = buf[l].uptodate
        /\ b.dirty = buf[l].dirty
    BY <1>0 DEF TypeOK, Bufs
  <2>2. /\ c.data = buf[l].data /\ c.uptodate = buf[l].uptodate
        /\ c.dirty = IF NeedsWrite(b) THEN ~w.ok ELSE buf[l].dirty
    <3>. HIDE DEF b
    <3>. QED  BY <2>1 DEF AfterWrite, Bufs
  <2>3. /\ buf' = [buf EXCEPT ![l] = c]
        /\ disk' = IF NeedsWrite(b) THEN WriteTo(l, w) ELSE disk
        /\ block' = [block EXCEPT ![d] = [lb_id |-> l, edit |-> FALSE]]
        /\ block[d].lb_id = 0
    BY <1>10 DEF FlushLba
  <2>4. \A e \in Descriptors : block[e].edit => block'[e] = block[e]
    BY <1>0, <2>3, AcquireKeepsEdits
  <2>. HIDE DEF b, c
  <2>5. OthersKept(l)
    <3>1. \A m \in Lba \ {l} : WriteTo(l, w)[m] = disk[m]
      BY <1>0, WriteContent
    <3>. QED  BY <1>0, <2>3, <3>1 DEF OthersKept, TypeOK
  <2>6. \A m \in Lba \ {l} : ValidAt(m)'
    BY <2>4, <2>5, OthersStayValid
  <2>7. CASE NeedsWrite(b)
    <3>1. w.ok => disk'[l] = buf[l].data
      BY <1>0, <2>3, <2>7, OkIsStored, WriteContent
    <3>. QED  BY <1>0, <2>2, <2>3, <2>6, <2>7, <3>1 DEF AllValid, ValidAt, TypeOK
  <2>8. CASE ~NeedsWrite(b)
    <3>1. ValidAt(l)'
      BY <1>0, <2>2, <2>3, <2>4, <2>8 DEF AllValid, ValidAt, TypeOK
    <3>. QED  BY <2>6, <3>1 DEF AllValid
  <2>. QED  BY <2>7, <2>8
<1>11. ASSUME NEW w \in Writes, FlushLbaPut(w)
       PROVE  AllValid'
  <2>1. call.d \in Descriptors /\ call.l \in Lba
        /\ block[call.d] = [lb_id |-> call.l, edit |-> FALSE]
    BY <1>0, <1>11, CallFields DEF FlushLbaPut, CallHolds
  <2>2. buf[call.l] \in Bufs /\ Free(call.d, buf[call.l], w)
    BY <1>0, <1>11, <2>1 DEF FlushLbaPut, TypeOK
  <2>. QED  BY <1>0, <2>1, <2>2, FreeContent
<1>12. ASSUME NEW from \in Lba, NEW to \in Lba, Invalidate(from, to)
       PROVE  AllValid'
  <2>. DEFINE S == InvalidatedBy(from, to)
  <2>1. /\ \A m \in Lba : m \in S => buf'[m] = [buf[m] EXCEPT !.uptodate = FALSE, !.dirty = FALSE]
        /\ \A m \in Lba : m \notin S => buf'[m] = buf[m]
        /\ UNCHANGED <<disk, block>>
    BY <1>12 DEF Invalidate
  <2>. HIDE DEF S
  <2>2. \A m \in Lba : m \in S => ~buf'[m].uptodate
    BY <1>0, <2>1 DEF TypeOK, Bufs
  <2>. QED  BY <2>1, <2>2 DEF AllValid, ValidAt
<1>13. ASSUME NEW w \in Writes, FlushOne(w)
       PROVE  AllValid'
  <2>. PICK l \in dirty_list :
            /\ disk' = IF NeedsWrite(buf[l]) THEN WriteTo(l, w) ELSE disk
            /\ buf' = IF NeedsWrite(buf[l]) THEN [buf EXCEPT ![l].dirty = FALSE] ELSE buf
    BY <1>13 DEF FlushOne
  <2>1. l \in Lba /\ NeedsWrite(buf[l]) /\ block' = block /\ w.stored
    BY <1>0, <1>13, OkIsStored DEF FlushOne, CacheInv, DirtyListFlushable, TypeOK
  <2>2. OthersKept(l)
    <3>1. \A m \in Lba \ {l} : WriteTo(l, w)[m] = disk[m]
      BY <1>0, <2>1, WriteContent
    <3>. QED  BY <1>0, <2>1, <3>1 DEF OthersKept, TypeOK
  <2>3. \A m \in Lba \ {l} : ValidAt(m)'
    BY <2>1, <2>2, OthersStayValid
  <2>4. buf'[l].data = disk'[l]
    BY <1>0, <2>1, WriteContent DEF TypeOK, Bufs
  <2>. QED  BY <2>3, <2>4 DEF AllValid, ValidAt
<1>14. ASSUME PowerOff
       PROVE  AllValid'
  BY <1>14 DEF PowerOff, FreshBuf, AllValid, ValidAt
<1>15. ASSUME UNCHANGED <<disk, buf, block>>
       PROVE  AllValid'
  BY <1>15, SameIsValid
<1>. QED
  BY <1>1, <1>2, <1>3, <1>4, <1>5, <1>6, <1>7, <1>8, <1>9, <1>10, <1>11, <1>12, <1>13, <1>14, <1>15
     DEF Next, Internal, External, vars, cache, Get, AllocFail, FlushDone, CleanupDone,
         CacheFlush, WriteBackOn, WriteBackOff, Cleanup

(* UptodateIsValid (BC_UPTODATE, "Buffer contains valid data", of          *)
(* include/ext4_bcache.h:153) on a device whose errors are reported, even  *)
(* if it fails: an up-to-date clean buffer is never stale.                 *)
THEOREM UptodateValid ==
    ASSUME ReportsErrors
    PROVE  Spec => []UptodateIsValid
<1>1. Init => AllValid
  BY DEF Init, AllValid, ValidAt, FreshBuf
<1>2. IInv /\ AllValid => UptodateIsValid
  BY ValidEquiv
<1>3. IInv /\ AllValid /\ [Next]_vars => AllValid'
  BY NextValid
<1>. QED  BY <1>1, <1>2, <1>3, Invariance, PTL DEF Spec

-----------------------------------------------------------------------------
LEMMA FreeNeverGrows ==
    ASSUME NEW d, NEW b, NEW w, Free(d, b, w)
    PROVE  lba_root' \subseteq lba_root
BY DEF Free, Drop

\* Only ext4_bcache_alloc, after the shake, adds a buffer.
LEMMA OnlyAllocGrows ==
    ASSUME [Next]_vars, ~Alloc
    PROVE  lba_root' \subseteq lba_root
<1>1. ASSUME ReadFail \/ \E w \in Writes : FlushLbaPut(w) \/ \E d \in Descriptors : Put(d, w)
      PROVE  lba_root' \subseteq lba_root
  BY <1>1, FreeNeverGrows DEF ReadFail, FlushLbaPut, Put
<1>2. ASSUME NEW w \in Writes, ShakeDrop(w) \/ CleanupOne(w)
      PROVE  lba_root' \subseteq lba_root
  BY <1>2 DEF ShakeDrop, CleanupOne, Drop
<1>. QED
  BY <1>1, <1>2
     DEF Next, Internal, External, vars, cache, Get, ShakeFail, AllocFail, Read, FlushLba,
         FlushOne, FlushFail, FlushDone, CleanupDone, Overwrite, Edit, Invalidate,
         CacheFlush, WriteBackOn, WriteBackOff, Cleanup, PowerOff

(* GrowsOnlyWhenReferenced: ext4_bcache_alloc takes the cache beyond its   *)
(* capacity only when ext4_block_cache_shake had nothing left to evict.    *)
THEOREM NoUnneededGrowth == Spec => GrowsOnlyWhenReferenced
<1>. DEFINE Grows == Cardinality(lba_root') > Cardinality(lba_root)
                     /\ Cardinality(lba_root) >= Cnt
            A == Grows => \A l \in lba_root : buf[l].refctr > 0
<1>1. IInv /\ [Next]_vars => [A]_vars
  <2>. SUFFICES ASSUME IInv, [Next]_vars, Grows, NEW l \in lba_root
       PROVE  buf[l].refctr > 0
    OBVIOUS
  <2>1. /\ TypeOK /\ LruIffUnreferenced /\ RefBlocksExact
        /\ IsFiniteSet(lba_root) /\ Cardinality(lba_root) \in Nat
    BY FiniteLba DEF IInv, CacheInv
  <2>2. CASE ~Alloc
    <3>1. Cardinality(lba_root') <= Cardinality(lba_root) /\ Cardinality(lba_root') \in Nat
      BY <2>1, <2>2, OnlyAllocGrows, FS_Subset, FS_CardinalityType
    <3>. QED  BY <2>1, <3>1
  <2>3. CASE Alloc
    <3>1. is_full
      BY <2>1 DEF is_full, RefBlocksExact
    <3>2. lru_root = {}
      BY <2>3, <3>1 DEF Alloc, Shaking
    <3>3. l \in Lba /\ buf[l].refctr \in Nat
      BY <2>1 DEF TypeOK, Bufs
    <3>. QED  BY <2>1, <3>2, <3>3 DEF LruIffUnreferenced
  <2>. QED  BY <2>2, <2>3
<1>. QED  BY <1>1, Invariance, PTL DEF Spec, GrowsOnlyWhenReferenced

-----------------------------------------------------------------------------
(***************************************************************************)
(* Bcache implements BlockStore.  The heart of it is Keeps: a step that is *)
(* neither a write nor an invalidation nor a power failure leaves the      *)
(* content of every block as it is, and the device gets, for each block,   *)
(* what it had or that content.  On a device that fails the same holds of  *)
(* the contents, but for the blocks of the journal: NoSilentLoss.          *)
(***************************************************************************)

\* Only jbd_block_get makes temporary buffers.
TmpIsLog == \A l \in Lba : buf[l].tmp => l \in LogLba

KeptAt(l) ==
    /\ Content(l)' = Content(l)
    /\ disk'[l] \in {disk[l], Content(l)}

\* The blocks for which a step must keep the content, on the device there is
Watched == IF MayFail THEN Lba \ LogLba ELSE Lba
Keeps == \A l \in Watched : KeptAt(l)

LEMMA StoredIfGood ==
    ASSUME ~MayFail, NEW w \in Writes
    PROVE  w.ok /\ w.stored
BY DEF Writes

LEMMA SameKept ==
    ASSUME UNCHANGED <<disk, buf>>
    PROVE  \A l \in Lba : KeptAt(l)
BY DEF KeptAt, Content

\* The device and the content of the blocks other than l stay as they are.
LEMMA OthersKeptAt ==
    ASSUME NEW l, OthersKept(l)
    PROVE  \A m \in Lba \ {l} : KeptAt(m)
BY DEF OthersKept, KeptAt, Content

\* An eviction: what is dropped has been written or is on the device already.
LEMMA DropKeeps ==
    ASSUME CacheInv, AllValid, NEW l \in Lba, l \in lru_root, Drop(l), NEW w, w.stored,
           disk' = IF NeedsWrite(buf[l]) THEN WriteTo(l, w) ELSE disk
    PROVE  \A m \in Lba : KeptAt(m)
<1>1. TypeOK
  BY DEF CacheInv
<1>2. disk' = disk \/ \E v : disk' = [disk EXCEPT ![l] = v]
  BY <1>1, WriteContent
<1>3. OthersKept(l) /\ ~buf'[l].uptodate
  BY <1>1, <1>2, DropContent
<1>4. KeptAt(l)
  <2>1. CASE NeedsWrite(buf[l])
    <3>1. disk'[l] = buf[l].data
      BY <1>1, <2>1, WriteContent
    <3>. QED  BY <1>3, <2>1, <3>1 DEF KeptAt, Content, NeedsWrite
  <2>2. CASE ~NeedsWrite(buf[l])
    <3>1. \A d \in Descriptors : block[d].lb_id # l
      BY HeldIsCached
    <3>2. ValidAt(l)
      BY DEF AllValid
    <3>3. buf[l].uptodate => buf[l].data = disk[l]
      BY <2>2, <3>1, <3>2 DEF ValidAt, NeedsWrite
    <3>. QED  BY <1>3, <2>2, <3>3 DEF KeptAt, Content
  <2>. QED  BY <2>1, <2>2
<1>. QED  BY <1>3, <1>4, OthersKeptAt

\* A buffer is written, or not, and stays: the shake that fails, the flushes.
LEMMA WriteKeeps ==
    ASSUME TypeOK, NEW l \in Lba, NEW w,
           disk' = WriteTo(l, w), NeedsWrite(buf[l]),
           \A m \in Lba : buf'[m].uptodate = buf[m].uptodate /\ buf'[m].data = buf[m].data
    PROVE  \A m \in Lba : KeptAt(m)
<1>1. disk' = disk \/ disk' = [disk EXCEPT ![l] = buf[l].data]
  BY WriteContent
<1>2. \A m \in Lba \ {l} : disk'[m] = disk[m]
  BY <1>1 DEF TypeOK
<1>3. buf[l].uptodate
  BY DEF NeedsWrite
<1>4. disk'[l] \in {disk[l], buf[l].data}
  BY <1>1 DEF TypeOK
<1>. QED  BY <1>2, <1>3, <1>4 DEF KeptAt, Content

\* With one reference left there is one holder.
LEMMA OnlyHolder ==
    ASSUME CacheInv, NEW d \in Descriptors, NEW l \in Lba, block[d].lb_id = l,
           buf[l].refctr - 1 = 0
    PROVE  \A e \in Descriptors : block[e].lb_id = l => e = d
<1>1. IsFiniteSet(Holders(l)) /\ Cardinality(Holders(l)) \in Nat
  BY FiniteLba DEF CacheInv
<1>2. Cardinality(Holders(l)) = 1
  BY <1>1 DEF CacheInv, RefctrCountsHolders
<1>3. PICK x : Holders(l) = {x}
  BY <1>1, <1>2, FS_Singleton
<1>. QED  BY <1>3 DEF Holders

(* ext4_bcache_free, with the record b the last holder has made of the     *)
(* buffer.  Only a buffer of the journal is dropped with its write failed. *)
LEMMA FreeKeeps ==
    ASSUME CacheInv, AllValid, TmpIsLog,
           NEW d \in Descriptors, NEW l \in Lba, block[d].lb_id = l,
           NEW b \in Bufs, b.refctr = buf[l].refctr,
           b.uptodate = buf[l].uptodate, b.data = buf[l].data, b.tmp = buf[l].tmp,
           b.dirty \/ (b = buf[l] /\ ~block[d].edit),
           NEW w \in Writes, Free(d, b, w), w.ok => w.stored
    PROVE  Keeps
<1>. USE DEF CacheInv
<1>. DEFINE r == [b EXCEPT !.refctr = @ - 1]
            flush == LastHolder(r) /\ NeedsWrite(r) /\ ~Delayed(r)
            f == IF flush THEN [AfterWrite(r, w) EXCEPT !.flush = FALSE] ELSE r
<1>1. /\ block' = [block EXCEPT ![d] = NoBlock]
      /\ disk' = IF flush /\ w.stored THEN [disk EXCEPT ![l] = b.data] ELSE disk
      /\ \/ buf' = [buf EXCEPT ![l] = FreshBuf] /\ LastHolder(r) /\ NotKept(r)
         \/ buf' = [buf EXCEPT ![l] = f]
  BY DEF Free, Drop
<1>2. OthersKept(l)
  <2>. HIDE DEF f, flush
  <2>. QED  BY <1>1 DEF OthersKept, TypeOK
<1>3. \A m \in Lba \ {l} : KeptAt(m)
  BY <1>2, OthersKeptAt
<1>4. r \in Bufs /\ r.uptodate = b.uptodate /\ r.dirty = b.dirty /\ r.data = b.data /\ r.tmp = b.tmp
  <2>1. buf[l].refctr # 0
    BY HeldIsCached
  <2>. QED  BY <2>1 DEF Bufs
<1>5. f.uptodate = b.uptodate /\ f.data = b.data
  <2>1. CASE flush
    <3>1. AfterWrite(r, w) \in Bufs /\ AfterWrite(r, w).uptodate = b.uptodate
          /\ AfterWrite(r, w).data = b.data
      BY <1>4 DEF AfterWrite, Bufs, Writes
    <3>2. f = [AfterWrite(r, w) EXCEPT !.flush = FALSE]
      BY <2>1
    <3>. QED  BY <3>1, <3>2 DEF Bufs
  <2>2. CASE ~flush
    BY <1>4, <2>2
  <2>. QED  BY <2>1, <2>2
<1>6. flush => b.uptodate
  BY <1>4 DEF NeedsWrite
<1>7. disk'[l] \in {disk[l], Content(l)}
  <2>. HIDE DEF f, flush
  <2>. QED  BY <1>1, <1>6 DEF TypeOK, Content
<1>8. CASE buf' = [buf EXCEPT ![l] = f]
  <2>1. buf'[l] = f
    BY <1>8 DEF TypeOK
  <2>2. ~b.uptodate => disk'[l] = disk[l]
    BY <1>1, <1>6
  <2>. HIDE DEF f, flush
  <2>3. KeptAt(l)
    BY <1>5, <1>7, <2>1, <2>2 DEF KeptAt, Content
  <2>. QED  BY <1>3, <2>3 DEF Keeps, Watched
<1>9. CASE buf' = [buf EXCEPT ![l] = FreshBuf] /\ LastHolder(r) /\ NotKept(r)
  <2>1. ~buf'[l].uptodate
    BY <1>9 DEF TypeOK, FreshBuf
  <2>2. CASE ~b.uptodate
    <3>1. disk' = disk
      BY <1>1, <1>6, <2>2
    <3>2. KeptAt(l)
      BY <2>1, <2>2, <3>1 DEF KeptAt, Content
    <3>. QED  BY <1>3, <3>2 DEF Keeps, Watched
  <2>3. CASE b.uptodate /\ MayFail
    <3>1. l \in LogLba
      BY <1>4, <1>9, <2>3 DEF NotKept, TmpIsLog
    <3>. QED  BY <1>3, <2>3, <3>1 DEF Keeps, Watched
  <2>4. CASE b.uptodate /\ ~MayFail
    <3>1. w.stored /\ r.tmp /\ ~Delayed(r)
      BY <1>4, <1>9, <2>4, StoredIfGood DEF NotKept, Delayed
    <3>2. CASE b.dirty
      <4>1. disk' = [disk EXCEPT ![l] = b.data]
        BY <1>1, <1>4, <1>9, <2>4, <3>1, <3>2 DEF NeedsWrite
      <4>2. disk'[l] = Content(l)
        BY <2>4, <4>1 DEF TypeOK, Content
      <4>3. KeptAt(l)
        BY <2>1, <4>2 DEF KeptAt, Content
      <4>. QED  BY <1>3, <4>3 DEF Keeps, Watched
    <3>3. CASE ~b.dirty
      <4>1. disk' = disk
        BY <1>1, <1>4, <3>3 DEF NeedsWrite
      <4>2. \A e \in Descriptors : block[e].lb_id = l => e = d
        <5>1. buf[l].refctr - 1 = 0
          BY <1>9 DEF LastHolder, Bufs
        <5>. QED  BY <5>1, OnlyHolder
      <4>3. buf[l].data = disk[l]
        BY <2>4, <3>3, <4>2 DEF AllValid, ValidAt
      <4>4. KeptAt(l)
        BY <2>1, <2>4, <4>1, <4>3 DEF KeptAt, Content
      <4>. QED  BY <1>3, <4>4 DEF Keeps, Watched
    <3>. QED  BY <3>2, <3>3
  <2>. QED  BY <2>2, <2>3, <2>4
<1>. QED  BY <1>1, <1>8, <1>9

-----------------------------------------------------------------------------
LEMMA FreeTmp ==
    ASSUME TypeOK, TmpIsLog, NEW d \in Descriptors, NEW l \in Lba, block[d].lb_id = l,
           NEW b \in Bufs, b.tmp = buf[l].tmp, NEW w, Free(d, b, w)
    PROVE  TmpIsLog'
<1>. DEFINE r == [b EXCEPT !.refctr = @ - 1]
            f == IF LastHolder(r) /\ NeedsWrite(r) /\ ~Delayed(r)
                   THEN [AfterWrite(r, w) EXCEPT !.flush = FALSE] ELSE r
<1>1. buf' = [buf EXCEPT ![l] = FreshBuf] \/ buf' = [buf EXCEPT ![l] = f]
  BY DEF Free, Drop
<1>2. f.tmp = b.tmp
  BY DEF AfterWrite, Bufs
<1>. HIDE DEF f
<1>3. \A m \in Lba : buf'[m].tmp => buf[m].tmp
  BY <1>1, <1>2 DEF TypeOK, FreshBuf
<1>. QED  BY <1>3 DEF TmpIsLog

LEMMA NextTmp ==
    ASSUME IInv, TmpIsLog, [Next]_vars
    PROVE  TmpIsLog'
<1>0. CacheInv /\ TypeOK /\ call \in Calls
  BY DEF IInv, CacheInv, TypeOK
<1>1. ASSUME NEW l, Drop(l)
      PROVE  TmpIsLog'
  BY <1>0, <1>1 DEF Drop, TypeOK, FreshBuf, TmpIsLog
<1>2. ASSUME NEW w \in Writes, ShakeDrop(w) \/ CleanupOne(w)
      PROVE  TmpIsLog'
  BY <1>1, <1>2 DEF ShakeDrop, CleanupOne
<1>3. ASSUME NEW b \in Bufs, NEW l \in Lba, NEW read, b.tmp => l \in LogLba
      PROVE  Flagged(b, l, read).tmp => l \in LogLba
  BY <1>3 DEF Flagged, Bufs
<1>4. CASE Alloc
  <2>. DEFINE l == call.l
              b == [buf[l] EXCEPT !.refctr = @ + 1]
              c == Flagged(b, l, call.read)
  <2>1. l \in Lba
    BY <1>0, <1>4, CallFields DEF Alloc
  <2>2. b \in Bufs /\ b.tmp = buf[l].tmp
    BY <1>0, <2>1 DEF TypeOK, Bufs
  <2>3. buf' = [buf EXCEPT ![l] = b] \/ buf' = [buf EXCEPT ![l] = c]
    BY <1>4 DEF Alloc
  <2>. HIDE DEF l, b
  <2>4. c.tmp => l \in LogLba
    BY <1>3, <2>1, <2>2 DEF TmpIsLog
  <2>. HIDE DEF c
  <2>. QED  BY <1>0, <2>1, <2>2, <2>3, <2>4 DEF TmpIsLog, TypeOK
<1>5. ASSUME NEW v \in Vals \cup {Junk}, Read(v)
      PROVE  TmpIsLog'
  <2>. DEFINE l == call.l
              b == [buf[l] EXCEPT !.data = v, !.uptodate = TRUE]
              c == Flagged(b, l, TRUE)
  <2>1. l \in Lba
    BY <1>0, <1>5, CallFields DEF Read
  <2>2. b \in Bufs /\ b.tmp = buf[l].tmp
    <3>1. buf[l] \in Bufs
      BY <1>0, <2>1 DEF TypeOK
    <3>. HIDE DEF l
    <3>. QED  BY <3>1 DEF Bufs
  <2>3. buf' = [buf EXCEPT ![l] = c]
    BY <1>5 DEF Read
  <2>. HIDE DEF l, b
  <2>4. c.tmp => l \in LogLba
    BY <1>3, <2>1, <2>2 DEF TmpIsLog
  <2>. HIDE DEF c
  <2>. QED  BY <1>0, <2>1, <2>3, <2>4 DEF TmpIsLog, TypeOK
<1>6. CASE ReadFail \/ \E w \in Writes : FlushLbaPut(w)
  <2>1. PICK w : Free(call.d, buf[call.l], w)
    BY <1>6 DEF ReadFail, FlushLbaPut
  <2>2. /\ call.d \in Descriptors /\ call.l \in Lba /\ block[call.d].lb_id = call.l
        /\ buf[call.l] \in Bufs
    BY <1>0, <1>6, CallFields DEF ReadFail, FlushLbaPut, IInv, CallHolds, TypeOK
  <2>. QED  BY <1>0, <2>1, <2>2, FreeTmp
<1>7. ASSUME NEW d \in Descriptors, NEW w \in Writes, Put(d, w)
      PROVE  TmpIsLog'
  <2>. DEFINE l == block[d].lb_id
              b == IF block[d].edit THEN SetDirty(buf[l]) ELSE buf[l]
  <2>1. l \in Lba /\ buf[l] \in Bufs /\ Free(d, b, w)
    BY <1>0, <1>7 DEF Put, TypeOK, Blocks
  <2>2. b \in Bufs /\ b.tmp = buf[l].tmp
    <3>. HIDE DEF l
    <3>. QED  BY <2>1 DEF SetDirty, Bufs
  <2>. HIDE DEF b
  <2>. QED  BY <1>0, <2>1, <2>2, FreeTmp
<1>8. ASSUME NEW d \in Descriptors, NEW v \in Vals, Overwrite(d, v) \/ Edit(d, v)
      PROVE  TmpIsLog'
  <2>1. block[d].lb_id \in Lba
    BY <1>0, <1>8 DEF Overwrite, Edit, TypeOK, Blocks
  <2>2. \A m \in Lba : buf'[m].tmp = buf[m].tmp
    <3>1. CASE Overwrite(d, v)
      BY <1>0, <2>1, <3>1 DEF Overwrite, TypeOK, SetDirty, Bufs
    <3>2. CASE Edit(d, v)
      BY <1>0, <2>1, <3>2 DEF Edit, TypeOK, Bufs
    <3>. QED  BY <1>8, <3>1, <3>2
  <2>. QED  BY <2>2 DEF TmpIsLog
<1>9. ASSUME NEW d \in Descriptors, NEW l \in Lba, NEW w \in Writes, FlushLba(d, l, w)
      PROVE  TmpIsLog'
  <2>. DEFINE b == [buf[l] EXCEPT !.refctr = @ + 1]
              f == IF NeedsWrite(b) THEN AfterWrite(b, w) ELSE b
  <2>1. buf' = [buf EXCEPT ![l] = f]
    BY <1>9 DEF FlushLba
  <2>2. f.tmp = buf[l].tmp
    BY <1>0 DEF AfterWrite, TypeOK, Bufs
  <2>. HIDE DEF f
  <2>. QED  BY <1>0, <2>1, <2>2 DEF TmpIsLog, TypeOK
<1>10. ASSUME NEW from \in Lba, NEW to \in Lba, Invalidate(from, to)
       PROVE  TmpIsLog'
  <2>1. \A m \in Lba : buf'[m] = buf[m]
                       \/ buf'[m] = [buf[m] EXCEPT !.uptodate = FALSE, !.dirty = FALSE]
    BY <1>10 DEF Invalidate
  <2>2. ASSUME NEW m \in Lba
        PROVE  buf'[m].tmp = buf[m].tmp
    <3>1. buf[m] \in Bufs
      BY <1>0 DEF TypeOK
    <3>2. [buf[m] EXCEPT !.uptodate = FALSE, !.dirty = FALSE].tmp = buf[m].tmp
      BY <3>1 DEF Bufs
    <3>. QED  BY <2>1, <3>2
  <2>. QED  BY <2>2 DEF TmpIsLog
<1>11. ASSUME NEW w \in Writes, FlushOne(w)
       PROVE  TmpIsLog'
  <2>1. PICK l \in dirty_list : buf' = buf \/ buf' = [buf EXCEPT ![l].dirty = FALSE]
    BY <1>11 DEF FlushOne
  <2>2. \A m \in Lba : buf'[m].tmp = buf[m].tmp
    BY <1>0, <2>1 DEF TypeOK, Bufs
  <2>. QED  BY <2>2 DEF TmpIsLog
<1>12. CASE PowerOff
  BY <1>12 DEF PowerOff, FreshBuf, TmpIsLog
<1>13. CASE UNCHANGED buf
  BY <1>13 DEF TmpIsLog
<1>. QED
  BY <1>2, <1>4, <1>5, <1>6, <1>7, <1>8, <1>9, <1>10, <1>11, <1>12, <1>13
     DEF Next, Internal, External, vars, cache, Get, ShakeFail, AllocFail, FlushFail, FlushDone,
         CleanupDone, CacheFlush, WriteBackOn, WriteBackOff, Cleanup

-----------------------------------------------------------------------------
(* The step: what is not a write, an invalidation or a power failure keeps *)
(* every content, whatever fails.                                          *)
THEOREM NextKeeps ==
    ASSUME ReportsErrors, IInv, AllValid, TmpIsLog, [Next]_vars,
           ret' \notin {"written", "invalidated", "power_off"} \/ UNCHANGED vars,
           ~(MayFail /\ call = Cleaning)
    PROVE  Keeps
<1>0. CacheInv /\ TypeOK /\ call \in Calls
  BY DEF IInv, CacheInv, TypeOK
<1>1. ASSUME \A l \in Lba : KeptAt(l)
      PROVE  Keeps
  BY <1>1 DEF Keeps, Watched
<1>2. ASSUME NEW w \in Writes, ShakeDrop(w)
      PROVE  Keeps
  <2>1. PICK l \in lru_root : /\ disk' = IF NeedsWrite(buf[l]) THEN WriteTo(l, w) ELSE disk
                              /\ Drop(l)
    BY <1>2 DEF ShakeDrop
  <2>2. l \in Lba /\ w.stored
    BY <1>0, <1>2, OkIsStored DEF TypeOK, ShakeDrop
  <2>. QED  BY <1>0, <1>1, <2>1, <2>2, DropKeeps
<1>3. ASSUME NEW w \in Writes, CleanupOne(w)
      PROVE  Keeps
  <2>1. PICK l \in lba_root : /\ disk' = IF NeedsWrite(buf[l]) THEN WriteTo(l, w) ELSE disk
                              /\ Drop(l)
    BY <1>3 DEF CleanupOne
  <2>2. l \in Lba /\ w.stored
    BY <1>0, <1>3, StoredIfGood DEF TypeOK, CleanupOne
  <2>3. l \in lru_root
    <3>1. Holders(l) = {}
      BY <1>3, <2>2, LbaAssumption DEF CleanupOne, IInv, CallHolds, NoBlock, Holders
    <3>. QED  BY <1>0, <2>2, <3>1, FS_EmptySet DEF CacheInv, RefctrCountsHolders, LruIffUnreferenced
  <2>. QED  BY <1>0, <1>1, <2>1, <2>2, <2>3, DropKeeps
<1>4. ASSUME NEW w \in Writes, ShakeFail(w) \/ FlushFail(w)
      PROVE  Keeps
  <2>1. PICK l \in Lba : NeedsWrite(buf[l]) /\ disk' = WriteTo(l, w)
    BY <1>0, <1>4 DEF ShakeFail, FlushFail, TypeOK
  <2>2. buf' = buf
    BY <1>4 DEF ShakeFail, FlushFail, cache
  <2>. QED  BY <1>0, <1>1, <2>1, <2>2, WriteKeeps
<1>5. ASSUME NEW w \in Writes, FlushOne(w)
      PROVE  Keeps
  <2>1. PICK l \in dirty_list :
           /\ disk' = IF NeedsWrite(buf[l]) THEN WriteTo(l, w) ELSE disk
           /\ buf' = IF NeedsWrite(buf[l]) THEN [buf EXCEPT ![l].dirty = FALSE] ELSE buf
    BY <1>5 DEF FlushOne
  <2>2. l \in Lba
    BY <1>0 DEF TypeOK
  <2>3. CASE NeedsWrite(buf[l])
    <3>1. \A m \in Lba : buf'[m].uptodate = buf[m].uptodate /\ buf'[m].data = buf[m].data
      BY <1>0, <2>1, <2>3 DEF TypeOK, Bufs
    <3>. QED  BY <1>0, <1>1, <2>1, <2>2, <2>3, <3>1, WriteKeeps
  <2>4. CASE ~NeedsWrite(buf[l])
    BY <1>1, <2>1, <2>4, SameKept
  <2>. QED  BY <2>3, <2>4
<1>6. ASSUME NEW d \in Descriptors, NEW l \in Lba, NEW w \in Writes, FlushLba(d, l, w)
      PROVE  Keeps
  <2>. DEFINE b == [buf[l] EXCEPT !.refctr = @ + 1]
              f == IF NeedsWrite(b) THEN AfterWrite(b, w) ELSE b
  <2>1. /\ disk' = IF NeedsWrite(b) THEN WriteTo(l, w) ELSE disk
        /\ buf' = [buf EXCEPT ![l] = f]
    BY <1>6 DEF FlushLba
  <2>2. buf[l] \in Bufs
    BY <1>0 DEF TypeOK
  <2>3. /\ f.uptodate = buf[l].uptodate /\ f.data = buf[l].data
        /\ NeedsWrite(b) = NeedsWrite(buf[l])
    BY <2>2 DEF AfterWrite, NeedsWrite, Bufs
  <2>. HIDE DEF f, b
  <2>4. \A m \in Lba : buf'[m].uptodate = buf[m].uptodate /\ buf'[m].data = buf[m].data
    BY <1>0, <2>1, <2>3 DEF TypeOK
  <2>5. CASE NeedsWrite(buf[l])
    BY <1>0, <1>1, <2>1, <2>3, <2>4, <2>5, WriteKeeps
  <2>6. CASE ~NeedsWrite(buf[l])
    <3>1. \A m \in Lba : KeptAt(m)
      BY <2>1, <2>3, <2>4, <2>6 DEF KeptAt, Content
    <3>. QED  BY <1>1, <3>1
  <2>. QED  BY <2>5, <2>6
<1>7. CASE Alloc
  <2>. DEFINE l == call.l
              b == [buf[l] EXCEPT !.refctr = @ + 1]
              c == Flagged(b, l, call.read)
  <2>1. l \in Lba
    BY <1>0, <1>7, CallFields DEF Alloc
  <2>2. b \in Bufs /\ b.uptodate = buf[l].uptodate /\ b.data = buf[l].data
    BY <1>0, <2>1 DEF TypeOK, Bufs
  <2>3. buf' = [buf EXCEPT ![l] = b] \/ buf' = [buf EXCEPT ![l] = c]
    BY <1>7 DEF Alloc
  <2>4. disk' = disk
    BY <1>7 DEF Alloc
  <2>. HIDE DEF l, b
  <2>5. c.uptodate = buf[l].uptodate /\ c.data = buf[l].data
    BY <2>2 DEF Flagged, Bufs
  <2>. HIDE DEF c
  <2>6. \A m \in Lba : KeptAt(m)
    BY <1>0, <2>2, <2>3, <2>4, <2>5 DEF KeptAt, Content, TypeOK
  <2>. QED  BY <1>1, <2>6
<1>8. ASSUME NEW v \in Vals \cup {Junk}, Read(v)
      PROVE  Keeps
  <2>. DEFINE l == call.l
              b == [buf[l] EXCEPT !.data = v, !.uptodate = TRUE]
              c == Flagged(b, l, TRUE)
  <2>1. l \in Lba /\ v = disk[l] /\ ~buf[l].uptodate
    BY <1>0, <1>8, CallFields DEF Read, IInv, CallHolds
  <2>2. b \in Bufs /\ b.uptodate /\ b.data = v
    <3>1. buf[l] \in Bufs
      BY <1>0, <2>1 DEF TypeOK
    <3>. HIDE DEF l
    <3>. QED  BY <3>1 DEF Bufs
  <2>3. buf' = [buf EXCEPT ![l] = c] /\ disk' = disk
    BY <1>8 DEF Read
  <2>. HIDE DEF l, b
  <2>4. c.uptodate /\ c.data = v
    BY <2>2 DEF Flagged, Bufs
  <2>. HIDE DEF c
  <2>5. \A m \in Lba : KeptAt(m)
    BY <1>0, <2>1, <2>3, <2>4 DEF KeptAt, Content, TypeOK
  <2>. QED  BY <1>1, <2>5
<1>9. CASE ReadFail \/ \E w \in Writes : FlushLbaPut(w)
  <2>1. PICK w \in Writes : Free(call.d, buf[call.l], w)
    BY <1>9 DEF ReadFail, FlushLbaPut, Writes
  <2>2. /\ call.d \in Descriptors /\ call.l \in Lba /\ block[call.d].lb_id = call.l
        /\ ~block[call.d].edit /\ buf[call.l] \in Bufs
    BY <1>0, <1>9, CallFields DEF ReadFail, FlushLbaPut, IInv, CallHolds, TypeOK
  <2>3. w.ok => w.stored
    BY OkIsStored
  <2>. QED  BY <1>0, <2>1, <2>2, <2>3, FreeKeeps
<1>10. ASSUME NEW d \in Descriptors, NEW w \in Writes, Put(d, w)
       PROVE  Keeps
  <2>. DEFINE l == block[d].lb_id
              b == IF block[d].edit THEN SetDirty(buf[l]) ELSE buf[l]
  <2>1. l \in Lba /\ buf[l] \in Bufs /\ Free(d, b, w)
    BY <1>0, <1>10 DEF Put, TypeOK, Blocks
  <2>2. block[d].edit => buf[l].uptodate
    BY <1>0 DEF CacheInv, EditIsWritten, Written
  <2>3. /\ b \in Bufs /\ b.refctr = buf[l].refctr /\ b.uptodate = buf[l].uptodate
        /\ b.data = buf[l].data /\ b.tmp = buf[l].tmp
        /\ b.dirty \/ (b = buf[l] /\ ~block[d].edit)
    <3>1. CASE block[d].edit
      <4>. HIDE DEF l
      <4>. QED  BY <2>1, <2>2, <3>1 DEF SetDirty, Bufs
    <3>2. CASE ~block[d].edit
      BY <2>1, <3>2
    <3>. QED  BY <3>1, <3>2
  <2>4. w.ok => w.stored
    BY OkIsStored
  <2>. HIDE DEF b
  <2>. QED  BY <1>0, <2>1, <2>3, <2>4, FreeKeeps
<1>11. CASE UNCHANGED <<disk, buf>>
  BY <1>1, <1>11, SameKept
<1>12. CASE PowerOff \/ (\E from, to \in Lba : Invalidate(from, to))
            \/ (\E d \in Descriptors, v \in Vals : Overwrite(d, v) \/ Edit(d, v))
  <2>1. ret' \in {"written", "invalidated", "power_off"}
    BY <1>12 DEF PowerOff, Invalidate, Overwrite, Edit, Return
  <2>. QED  BY <1>11, <2>1 DEF vars
<1>. QED
  BY <1>2, <1>3, <1>4, <1>5, <1>6, <1>7, <1>8, <1>9, <1>10, <1>11, <1>12
     DEF Next, Internal, External, vars, cache, Get, AllocFail, FlushDone, CleanupDone,
         CacheFlush, WriteBackOn, WriteBackOff, Cleanup

LEMMA StoreInvariance ==
    ASSUME ReportsErrors
    PROVE  Spec => [](AllValid /\ TmpIsLog)
<1>1. Init => AllValid /\ TmpIsLog
  BY DEF Init, AllValid, ValidAt, TmpIsLog, FreshBuf
<1>2. IInv /\ AllValid /\ TmpIsLog /\ [Next]_vars => AllValid' /\ TmpIsLog'
  BY NextValid, NextTmp
<1>. QED  BY <1>1, <1>2, Invariance, PTL DEF Spec

(* NoSilentLoss, whatever fails, on a device that reports its errors: an   *)
(* eviction, a failed write, a get that fails and a flush do not change    *)
(* what a block contains.                                                  *)
THEOREM NothingLost ==
    ASSUME ReportsErrors
    PROVE  Spec => NoSilentLoss
<1>. DEFINE A == ret' \notin {"written", "invalidated", "power_off"} /\ ~(MayFail /\ call = Cleaning)
                   => \A l \in Lba \ LogLba : Content(l)' = Content(l)
<1>1. IInv /\ AllValid /\ TmpIsLog /\ [Next]_vars => [A]_vars
  BY NextKeeps DEF Keeps, Watched, KeptAt
<1>2. Spec => [][A]_vars
  BY <1>1, StoreInvariance, Invariance, PTL DEF Spec
<1>. QED  BY <1>2 DEF NoSilentLoss

-----------------------------------------------------------------------------
(* The refinement.  Every step is one of BlockStore: a write, a discard, a *)
(* power failure, a flush, an unmounting, or service.                      *)

content == [l \in Lba |-> Content(l)]
held == {l \in Lba : Holders(l) # {}}

LEMMA ServesStep ==
    ASSUME \A l \in Lba : KeptAt(l), ret' \in {"busy", "got", "error", "released", "write_back"}
    PROVE  Store!Serve
<1>1. content' = content
  BY DEF KeptAt, content
<1>2. Store!Persists
  BY DEF Store!Persists, KeptAt
<1>. QED  BY <1>1, <1>2 DEF Store!Serve, content, held

LEMMA WritesStep ==
    ASSUME CacheInv, NEW d \in Descriptors, NEW v \in Vals, Overwrite(d, v) \/ Edit(d, v)
    PROVE  \E l \in Lba, x \in Vals : Store!Write(l, x)
<1>. DEFINE l == block[d].lb_id
<1>1. l \in Lba /\ d \in Holders(l) /\ TypeOK
  BY DEF CacheInv, TypeOK, Blocks, Overwrite, Edit, Holders
<1>2. buf[l] \in Bufs
  BY <1>1 DEF TypeOK
<1>3. /\ disk' = disk /\ ret' = "written"
      /\ \A m \in Lba \ {l} : buf'[m] = buf[m]
      /\ buf'[l].uptodate /\ buf'[l].data = v
  <2>1. CASE Overwrite(d, v)
    <3>1. buf' = [buf EXCEPT ![l] = SetDirty([buf[l] EXCEPT !.data = v])] /\ disk' = disk /\ ret' = "written"
      BY <2>1 DEF Overwrite, Return
    <3>. HIDE DEF l
    <3>. QED  BY <1>1, <1>2, <3>1 DEF TypeOK, SetDirty, Bufs
  <2>2. CASE Edit(d, v)
    <3>1. buf' = [buf EXCEPT ![l].data = v] /\ buf[l].uptodate /\ disk' = disk /\ ret' = "written"
      BY <2>2 DEF Edit, Return
    <3>. HIDE DEF l
    <3>. QED  BY <1>1, <1>2, <3>1 DEF TypeOK, Bufs
  <2>. QED  BY <2>1, <2>2
<1>4. \A e \in Descriptors : block'[e].lb_id = block[e].lb_id
  BY <1>1 DEF Overwrite, Edit, TypeOK, Blocks
<1>5. held' = held
  BY <1>4 DEF held, Holders
<1>6. content' = [content EXCEPT ![l] = v]
  <2>. HIDE DEF l
  <2>. QED  BY <1>1, <1>3 DEF content, Content
<1>7. Store!Write(l, v)
  BY <1>1, <1>3, <1>5, <1>6 DEF Store!Write, content, held
<1>. QED  BY <1>1, <1>7

LEMMA DiscardsStep ==
    ASSUME TypeOK, NEW from \in Lba, NEW to \in Lba, Invalidate(from, to)
    PROVE  \E S \in SUBSET Lba : Store!Discard(S)
<1>. DEFINE S == InvalidatedBy(from, to)
<1>1. S \subseteq Lba
  BY DEF InvalidatedBy, TypeOK
<1>2. /\ \A m \in Lba : m \in S => buf'[m] = [buf[m] EXCEPT !.uptodate = FALSE, !.dirty = FALSE]
      /\ \A m \in Lba : m \notin S => buf'[m] = buf[m]
      /\ UNCHANGED <<disk, block>> /\ ret' = "invalidated"
  BY DEF Invalidate, Return
<1>. HIDE DEF S
<1>3. ASSUME NEW m \in S
      PROVE  ~buf'[m].uptodate
  <2>1. buf[m] \in Bufs /\ m \in Lba
    BY <1>1 DEF TypeOK
  <2>2. ~[buf[m] EXCEPT !.uptodate = FALSE, !.dirty = FALSE].uptodate
    BY <2>1 DEF Bufs
  <2>. QED  BY <1>2, <2>1, <2>2
<1>4. content' = [l \in Lba |-> IF l \in S THEN disk[l] ELSE content[l]]
  BY <1>1, <1>2, <1>3 DEF content, Content
<1>5. held' = held
  BY <1>2 DEF held, Holders
<1>6. Store!Discard(S)
  BY <1>2, <1>4, <1>5 DEF Store!Discard, content, held
<1>. QED  BY <1>1, <1>6

LEMMA PowerOffStep ==
    ASSUME TypeOK, PowerOff
    PROVE  Store!PowerOff
<1>1. /\ disk' = disk /\ disk \in [Lba -> Vals] /\ ret' = "power_off"
      /\ \A l \in Lba : ~buf'[l].uptodate
  BY DEF TypeOK, PowerOff, Return, FreshBuf
<1>3. content' = disk'
  <2>1. \A l \in Lba : Content(l)' = disk'[l]
    BY <1>1 DEF Content
  <2>2. content' = [l \in Lba |-> disk'[l]]
    BY <2>1 DEF content
  <2>. QED  BY <1>1, <2>2
<1>2. held' = {}
  BY LbaAssumption DEF PowerOff, held, Holders, NoBlock
<1>. QED  BY <1>1, <1>2, <1>3 DEF Store!PowerOff, content, held

\* A block that is not held and not dirty has its content on the device.
LEMMA CleanIsDurable ==
    ASSUME IInv, AllValid, NEW l \in Lba, Holders(l) = {}, l \in lru_root => ~buf[l].dirty
    PROVE  disk[l] = Content(l)
<1>1. CacheInv
  BY DEF IInv
<1>2. CASE l \in lba_root
  <2>1. l \in lru_root
    BY <1>1, <1>2, FS_EmptySet DEF CacheInv, RefctrCountsHolders, LruIffUnreferenced
  <2>2. ValidAt(l)
    BY DEF AllValid
  <2>. QED  BY <2>1, <2>2 DEF ValidAt, Holders, Content
<1>3. CASE l \notin lba_root
  BY <1>1, <1>3 DEF CacheInv, UncachedIsFresh, FreshBuf, Content
<1>. QED  BY <1>2, <1>3

LEMMA FlushesStep ==
    ASSUME IInv, AllValid, FlushInv, FlushDone
    PROVE  Store!Flush
<1>1. ret' = "flushed" /\ UNCHANGED <<disk, buf, block>> /\ dirty_list = {}
  BY DEF FlushDone, Return, cache
<1>2. \A l \in Lba \ held : disk[l] = Content(l)
  BY <1>1, CleanIsDurable DEF held, FlushInv, DirtyIsListed
<1>3. content' = content /\ held' = held
  BY <1>1 DEF content, Content, held, Holders
<1>. QED  BY <1>1, <1>2, <1>3 DEF Store!Flush, content, held

LEMMA UmountsStep ==
    ASSUME IInv, AllValid, CleanupDone
    PROVE  Store!Umount
<1>1. ret' = "umounted" /\ UNCHANGED <<disk, buf, block>> /\ lba_root = {}
  BY DEF CleanupDone, Return, cache
<1>2. CacheInv /\ TypeOK
  BY DEF IInv, CacheInv
<1>3. held = {}
  <2>1. ASSUME NEW l \in Lba PROVE Holders(l) = {}
    <3>1. Cardinality(Holders(l)) = 0
      BY <1>1, <1>2 DEF CacheInv, RefctrCountsHolders, UncachedIsFresh, FreshBuf
    <3>. QED  BY <1>2, <3>1, FiniteLba, FS_EmptySet
  <2>. QED  BY <2>1 DEF held
<1>4. disk = content
  <2>1. \A l \in Lba : disk[l] = Content(l)
    BY <1>1, <1>2, <1>3, CleanIsDurable DEF held, CacheInv, TypeOK
  <2>. QED  BY <1>2, <2>1 DEF content, TypeOK
<1>5. content' = content /\ held' = held
  BY <1>1 DEF content, Content, held, Holders
<1>. QED  BY <1>1, <1>3, <1>4, <1>5 DEF Store!Umount, content, held

LEMMA NextStore ==
    ASSUME ~MayFail, ReportsErrors, IInv, AllValid, TmpIsLog, FlushInv, [Next]_vars
    PROVE  [Store!Next]_(Store!vars)
<1>0. CacheInv /\ TypeOK
  BY DEF IInv, CacheInv
<1>1. CASE UNCHANGED vars
  BY <1>1 DEF vars, Store!vars, Content, Holders
<1>2. CASE PowerOff
  BY <1>0, <1>2, PowerOffStep DEF Store!Next
<1>3. ASSUME NEW from \in Lba, NEW to \in Lba, Invalidate(from, to)
      PROVE  Store!Next
  BY <1>0, <1>3, DiscardsStep DEF Store!Next
<1>4. ASSUME NEW d \in Descriptors, NEW v \in Vals, Overwrite(d, v) \/ Edit(d, v)
      PROVE  Store!Next
  BY <1>0, <1>4, WritesStep DEF Store!Next
<1>5. CASE FlushDone
  BY <1>5, FlushesStep DEF Store!Next
<1>6. CASE CleanupDone
  BY <1>6, UmountsStep DEF Store!Next
<1>7. ASSUME ret' \in {"busy", "got", "error", "released", "write_back"}
      PROVE  Store!Next
  <2>1. Keeps
    BY <1>7, NextKeeps
  <2>2. Store!Serve
    BY <1>7, <2>1, ServesStep DEF Keeps, Watched
  <2>. QED  BY <2>2 DEF Store!Next
<1>8. ASSUME NEW w \in Writes, ShakeDrop(w) \/ FlushOne(w) \/ CleanupOne(w)
      PROVE  ret' = "busy"
  <2>1. call # Idle /\ ret' = ret
    BY <1>8, CallsDiffer DEF ShakeDrop, Shaking, FlushOne, CleanupOne
  <2>. QED  BY <2>1 DEF FlushInv, BusyUntilReturn
<1>9. CASE \/ Alloc \/ AllocFail \/ ReadFail \/ CacheFlush \/ WriteBackOn \/ WriteBackOff \/ Cleanup
           \/ \E v \in Vals \cup {Junk} : Read(v)
           \/ \E w \in Writes : ShakeFail(w) \/ FlushFail(w) \/ FlushLbaPut(w)
           \/ \E d \in Descriptors, w \in Writes : Put(d, w) \/ \E l \in Lba : FlushLba(d, l, w)
           \/ \E d \in Descriptors, l \in Lba, read \in BOOLEAN : Get(d, l, read)
  <2>1. ret' \in {"busy", "got", "error", "released", "write_back"}
    BY <1>9 DEF Alloc, AllocFail, ReadFail, CacheFlush, WriteBackOn, WriteBackOff, Cleanup, Read,
         ShakeFail, FlushFail, FlushLbaPut, Put, FlushLba, Get, Return, Continue
  <2>. QED  BY <1>7, <2>1
<1>. QED
  BY <1>1, <1>2, <1>3, <1>4, <1>5, <1>6, <1>7, <1>8, <1>9 DEF Next, Internal, External

(* On a device that does not fail, the cache implements BlockStore:        *)
(* whatever is evicted, delayed, flushed or dropped, the file system above *)
(* sees a map of contents, and a flush and an unmounting make it durable.  *)
THEOREM ImplementsBlockStore ==
    ASSUME ~MayFail, ReportsErrors
    PROVE  Spec => StoreSpec
<1>1. Init => Store!Init
  <2>1. \A l \in Lba : l # 0
    BY LbaAssumption
  <2>2. ASSUME Init PROVE Store!Init
    <3>1. held = {}
      BY <2>1, <2>2 DEF Init, held, Holders, NoBlock
    <3>2. content = disk /\ disk \in [Lba -> Vals]
      <4>1. \A l \in Lba : Content(l) = disk[l]
        BY <2>2 DEF Init, Content, FreshBuf
      <4>. QED  BY <2>2, <4>1 DEF Init, content
    <3>. QED  BY <2>2, <3>1, <3>2 DEF Init, Store!Init, content, held
  <2>. QED  BY <2>2
<1>2. IInv /\ AllValid /\ TmpIsLog /\ FlushInv /\ [Next]_vars => [Store!Next]_(Store!vars)
  BY NextStore
<1>3. Spec => []FlushInv
  BY FlushInvariance
<1>4. Spec => Store!Spec
  BY <1>1, <1>2, <1>3, StoreInvariance, Invariance, PTL DEF Spec, Store!Spec
<1>. QED  BY <1>4 DEF StoreSpec
=============================================================================
