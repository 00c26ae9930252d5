---------------------------- MODULE Bcache_proofs ----------------------------
(***************************************************************************)
(* Proofs that the safety invariants of Bcache hold for every set of       *)
(* blocks, every capacity, any number of descriptors and every failure.    *)
(***************************************************************************)
EXTENDS Bcache, FiniteSetTheorems, TLAPS

UncachedIsFresh == \A l \in Lba \ lba_root : buf[l] = FreshBuf
\* A buffer that is, or will be, flagged holds what a caller put there.
Written(b) == b.uptodate /\ b.data \in Vals
DirtyIsWritten == \A l \in Lba : buf[l].dirty => Written(buf[l])
EditIsWritten ==
    \A d \in Descriptors : block[d].edit => block[d].lb_id # 0 /\ Written(buf[block[d].lb_id])

\* What the descriptor of a call in progress holds.
CallHolds ==
    /\ call.pc = "shake" => block[call.d].lb_id = 0
    /\ call.pc \in {"read", "flush_lba"} => block[call.d] = [lb_id |-> call.l, edit |-> FALSE]
    /\ call.pc = "read" => ~buf[call.l].uptodate
    /\ call = Cleaning => \A d \in Descriptors : block[d] = NoBlock

\* The inductive invariant, but for the call in progress.
CacheInv ==
    /\ TypeOK
    /\ LruIffUnreferenced
    /\ RefctrCountsHolders
    /\ DirtyListFlushable
    /\ RefBlocksExact
    /\ UncachedIsFresh
    /\ DirtyIsWritten
    /\ EditIsWritten

IInv == CacheInv /\ CallHolds

-----------------------------------------------------------------------------
LEMMA FiniteLba ==
    ASSUME TypeOK
    PROVE  /\ IsFiniteSet(lba_root) /\ Cardinality(lba_root) \in Nat
           /\ \A l \in Lba : IsFiniteSet(Holders(l)) /\ Cardinality(Holders(l)) \in Nat
<1>1. IsFiniteSet(lba_root)
  BY LbaAssumption, FS_Subset DEF TypeOK
<1>2. \A l \in Lba : IsFiniteSet(Holders(l))
  BY DescriptorsAssumption, FS_Subset DEF Holders
<1>. QED  BY <1>1, <1>2, FS_CardinalityType

LEMMA HoldersAcquire ==
    ASSUME TypeOK, NEW d \in Descriptors, NEW l \in Lba, block[d].lb_id = 0,
           block' = [block EXCEPT ![d] = [lb_id |-> l, edit |-> FALSE]]
    PROVE  \A m \in Lba : Cardinality(Holders(m)') =
                IF m = l THEN Cardinality(Holders(m)) + 1 ELSE Cardinality(Holders(m))
<1>. SUFFICES ASSUME NEW m \in Lba
     PROVE  Cardinality(Holders(m)') =
                IF m = l THEN Cardinality(Holders(m)) + 1 ELSE Cardinality(Holders(m))
  OBVIOUS
<1>0. IsFiniteSet(Holders(m))
  BY FiniteLba
<1>1. CASE m = l
  <2>1. Holders(m)' = Holders(m) \cup {d} /\ d \notin Holders(m)
    BY <1>1, LbaAssumption DEF Holders, TypeOK, Blocks
  <2>. QED  BY <2>1, <1>0, <1>1, FS_AddElement
<1>2. CASE m # l
  <2>1. Holders(m)' = Holders(m)
    BY <1>2, LbaAssumption DEF Holders, TypeOK, Blocks
  <2>. QED  BY <2>1, <1>2
<1>. QED  BY <1>1, <1>2

LEMMA HoldersRelease ==
    ASSUME TypeOK, NEW d \in Descriptors, NEW l \in Lba, block[d].lb_id = l,
           block' = [block EXCEPT ![d] = NoBlock]
    PROVE  /\ Cardinality(Holders(l)) \in Nat \ {0}
           /\ \A m \in Lba : Cardinality(Holders(m)') =
                IF m = l THEN Cardinality(Holders(m)) - 1 ELSE Cardinality(Holders(m))
<1>0. \A m \in Lba : IsFiniteSet(Holders(m)) /\ Cardinality(Holders(m)) \in Nat
  BY FiniteLba
<1>1. d \in Holders(l)
  BY DEF Holders
<1>2. Cardinality(Holders(l)) # 0
  BY <1>0, <1>1, FS_EmptySet
<1>3. Holders(l)' = Holders(l) \ {d}
  BY LbaAssumption DEF Holders, TypeOK, Blocks, NoBlock
<1>4. Cardinality(Holders(l)') = Cardinality(Holders(l)) - 1
  BY <1>0, <1>1, <1>3, FS_RemoveElement
<1>5. \A m \in Lba : m # l => Holders(m)' = Holders(m)
  BY LbaAssumption DEF Holders, TypeOK, Blocks, NoBlock
<1>. QED  BY <1>0, <1>2, <1>4, <1>5

\* A drop keeps ref_blocks exact.
LEMMA DropCounts ==
    ASSUME TypeOK, RefBlocksExact, NEW l \in lba_root, Drop(l)
    PROVE  ref_blocks' \in Nat /\ RefBlocksExact'
<1>1. Cardinality(lba_root \ {l}) = Cardinality(lba_root) - 1
  BY FiniteLba, FS_RemoveElement
<1>2. Cardinality(lba_root) # 0
  BY FiniteLba, FS_EmptySet
<1>. QED  BY <1>1, <1>2, FiniteLba DEF RefBlocksExact, Drop

-----------------------------------------------------------------------------
(* Dropping an unreferenced buffer, whatever its dirty flag, keeps the     *)
(* invariant: this is what the shake and the cleanup do.                   *)
LEMMA DropUnreferenced ==
    ASSUME CacheInv, NEW l \in lba_root, buf[l].refctr = 0, Drop(l),
           UNCHANGED <<cache_write_back, block>>,
           disk' \in [Lba -> Vals], call' \in Calls, ret' \in Outcomes
    PROVE  CacheInv'
<1>. USE DEF CacheInv
<1>0. l \in Lba /\ Cardinality(Holders(l)) = 0 /\ Holders(l) = {}
  BY FiniteLba, FS_EmptySet DEF TypeOK, RefctrCountsHolders
<1>1. ref_blocks' \in Nat /\ RefBlocksExact'
  BY DropCounts
<1>2. TypeOK'
  BY <1>1 DEF TypeOK, Drop, Without, FreshBuf, Bufs
<1>3. LruIffUnreferenced'
  BY DEF LruIffUnreferenced, Drop, TypeOK
<1>4. RefctrCountsHolders'
  <2>1. \A m \in Lba : Holders(m)' = Holders(m)
    BY DEF Holders
  <2>. QED  BY <1>0, <2>1 DEF RefctrCountsHolders, Drop, TypeOK, FreshBuf
<1>5. DirtyListFlushable'
  BY DEF DirtyListFlushable, Drop, TypeOK, NeedsWrite
<1>6. UncachedIsFresh'
  BY DEF UncachedIsFresh, Drop, TypeOK
<1>7. DirtyIsWritten'
  BY DEF DirtyIsWritten, Drop, TypeOK, FreshBuf, Written
<1>8. EditIsWritten'
  BY <1>0 DEF EditIsWritten, Drop, TypeOK, Holders, Blocks
<1>. QED  BY <1>1, <1>2, <1>3, <1>4, <1>5, <1>6, <1>7, <1>8

(* Putting a buffer back, as b, keeps the invariant, whether or not a      *)
(* write is due and succeeds.                                              *)
LEMMA FreeKeepsInv ==
    ASSUME CacheInv, NEW d \in Descriptors, NEW l \in Lba, block[d].lb_id = l,
           NEW b \in Bufs, b.refctr = buf[l].refctr, b.dirty => Written(b),
           buf[l].uptodate => b.uptodate /\ b.data = buf[l].data,
           NEW w \in Writes, Free(d, b, w),
           UNCHANGED cache_write_back, call' \in Calls, ret' \in Outcomes
    PROVE  CacheInv'
<1>. USE DEF CacheInv
<1>. DEFINE r == [b EXCEPT !.refctr = @ - 1]
            flush == LastHolder(r) /\ NeedsWrite(r) /\ ~Delayed(r)
            f == IF flush THEN [AfterWrite(r, w) EXCEPT !.flush = FALSE] ELSE r
<1>1. /\ block' = [block EXCEPT ![d] = NoBlock]
      /\ block' \in [Descriptors -> Blocks]
      /\ disk' = IF flush /\ w.stored THEN [disk EXCEPT ![l] = b.data] ELSE disk
  BY LbaAssumption DEF Free, TypeOK, Blocks, NoBlock
<1>2. /\ buf[l].refctr \in Nat \ {0}
      /\ r \in Bufs /\ r.refctr = b.refctr - 1 /\ r.uptodate = b.uptodate
      /\ r.dirty = b.dirty /\ r.data = b.data /\ r.tmp = b.tmp /\ r.flush = b.flush
      /\ l \in lba_root /\ l \notin lru_root /\ l \notin dirty_list
  <2>1. buf[l].refctr \in Nat \ {0}
    BY HoldersRelease, <1>1 DEF RefctrCountsHolders
  <2>2. l \in lba_root
    BY <2>1 DEF UncachedIsFresh, FreshBuf
  <2>3. l \notin lru_root /\ l \notin dirty_list
    BY <2>1 DEF LruIffUnreferenced, DirtyListFlushable
  <2>. QED  BY <2>1, <2>2, <2>3 DEF Bufs
<1>3. /\ f \in Bufs /\ f.refctr = r.refctr /\ f.uptodate = b.uptodate
      /\ f.data = b.data
      /\ (f.dirty => b.dirty)
      /\ (LastHolder(r) /\ Delayed(r) => f = r)
      /\ (LastHolder(r) /\ f.dirty /\ ~Delayed(r) => ~w.ok)
  <2>2. CASE flush
    <3>1. f = [AfterWrite(r, w) EXCEPT !.flush = FALSE]
      BY <2>2
    <3>2. AfterWrite(r, w) = [r EXCEPT !.dirty = ~w.ok]
      BY DEF AfterWrite
    <3>3. AfterWrite(r, w) \in Bufs
      BY <1>2, <3>2 DEF Bufs
    <3>4. f \in Bufs /\ f.refctr = r.refctr /\ f.uptodate = b.uptodate /\ f.data = b.data
      BY <1>2, <3>1, <3>2, <3>3 DEF Bufs
    <3>5. f.dirty => ~w.ok
      BY <1>2, <3>1, <3>2, <3>3 DEF Bufs
    <3>6. b.dirty /\ LastHolder(r) /\ ~Delayed(r)
      BY <1>2, <2>2 DEF NeedsWrite
    <3>. HIDE DEF f, r
    <3>. QED  BY <3>4, <3>5, <3>6
  <2>3. CASE ~flush
    <3>1. f = r
      BY <2>3
    <3>2. r.dirty => NeedsWrite(r)
      BY <1>2 DEF NeedsWrite, Written
    <3>. QED  BY <1>2, <2>3, <3>1, <3>2
  <2>. QED  BY <2>2, <2>3
<1>4. disk' \in [Lba -> Vals]
  <2>1. flush => b.data \in Vals
    BY <1>2 DEF NeedsWrite, Written
  <2>. QED  BY <1>1, <2>1 DEF TypeOK
<1>5. /\ r.refctr = Cardinality(Holders(l)')
      /\ \A m \in Lba : m # l => Cardinality(Holders(m)') = Cardinality(Holders(m))
  <2>. HIDE DEF r
  <2>1. \A m \in Lba : Cardinality(Holders(m)') =
                IF m = l THEN Cardinality(Holders(m)) - 1 ELSE Cardinality(Holders(m))
    BY HoldersRelease, <1>1
  <2>2. r.refctr = Cardinality(Holders(l)) - 1
    BY <1>2 DEF RefctrCountsHolders
  <2>. QED  BY <2>1, <2>2
<1>6. CASE LastHolder(r) /\ NotKept(r)
  <2>1. Drop(l) /\ r.refctr = 0
    BY <1>6 DEF Free, LastHolder
  <2>2. ref_blocks' \in Nat /\ RefBlocksExact'
    BY <1>2, <2>1, DropCounts
  <2>3. TypeOK'
    BY <1>1, <1>4, <2>1, <2>2 DEF TypeOK, Drop, Without, FreshBuf, Bufs
  <2>4. LruIffUnreferenced'
    BY <2>1 DEF LruIffUnreferenced, Drop, TypeOK
  <2>5. RefctrCountsHolders'
    BY <1>5, <2>1 DEF RefctrCountsHolders, Drop, TypeOK, FreshBuf
  <2>6. DirtyListFlushable'
    BY <2>1 DEF DirtyListFlushable, Drop, TypeOK, NeedsWrite
  <2>7. UncachedIsFresh' /\ DirtyIsWritten'
    BY <2>1 DEF UncachedIsFresh, DirtyIsWritten, Drop, TypeOK, FreshBuf, Written
  <2>8. EditIsWritten'
    <3>0. IsFiniteSet(Holders(l)')
      BY DescriptorsAssumption, FS_Subset DEF Holders
    <3>1. Holders(l)' = {}
      BY <3>0, <1>5, <2>1, FS_EmptySet
    <3>2. \A e \in Descriptors : block'[e].lb_id # l
      BY <3>1 DEF Holders
    <3>. QED  BY <1>1, <2>1, <3>2 DEF EditIsWritten, Drop, TypeOK, Blocks, NoBlock, Written
  <2>. QED  BY <2>2, <2>3, <2>4, <2>5, <2>6, <2>7, <2>8
<1>7. CASE ~(LastHolder(r) /\ NotKept(r))
  <2>. HIDE DEF f
  <2>. DEFINE last == LastHolder(r)
              delay == last /\ Delayed(r)
  <2>1. /\ lru_root' = IF last THEN lru_root \cup {l} ELSE lru_root
        /\ dirty_list' = IF delay THEN dirty_list \cup {l}
                         ELSE IF flush /\ w.ok THEN dirty_list \ {l} ELSE dirty_list
        /\ buf' = [buf EXCEPT ![l] = f]
        /\ UNCHANGED <<lba_root, older, ref_blocks>>
    BY <1>7 DEF Free, f
  <2>. HIDE DEF flush, r
  <2>2. last <=> f.refctr = 0
    BY <1>3 DEF LastHolder
  <2>3. TypeOK'
    BY <1>1, <1>2, <1>3, <1>4, <2>1 DEF TypeOK
  <2>4. LruIffUnreferenced'
    BY <1>2, <2>1, <2>2 DEF LruIffUnreferenced, TypeOK
  <2>5. RefctrCountsHolders'
    BY <1>3, <1>5, <2>1 DEF RefctrCountsHolders, TypeOK
  <2>6. DirtyListFlushable'
    <3>1. delay => NeedsWrite(f)
      BY <1>3 DEF Delayed
    <3>. QED  BY <1>2, <2>1, <3>1 DEF DirtyListFlushable, TypeOK, NeedsWrite
  <2>7. RefBlocksExact'
    BY <2>1 DEF RefBlocksExact
  <2>8. UncachedIsFresh'
    BY <1>2, <2>1 DEF UncachedIsFresh, TypeOK
  <2>9. DirtyIsWritten'
    BY <1>2, <1>3, <2>1 DEF DirtyIsWritten, TypeOK, Written
  <2>10. EditIsWritten'
    BY <1>1, <1>3, <2>1 DEF EditIsWritten, TypeOK, Written, Blocks, NoBlock
  <2>. QED  BY <2>3, <2>4, <2>5, <2>6, <2>7, <2>8, <2>9, <2>10
<1>. QED  BY <1>6, <1>7

(* Getting a buffer, which becomes b, keeps the invariant, whether it was  *)
(* held already, cached or neither.                                        *)
LEMMA AcquireKeepsInv ==
    ASSUME CacheInv, NEW d \in Descriptors, NEW l \in Lba, block[d].lb_id = 0,
           NEW b \in Bufs, b.refctr = buf[l].refctr + 1, b.dirty => Written(b),
           buf[l].uptodate => b.uptodate /\ b.data = buf[l].data,
           FindGet(l), buf' = [buf EXCEPT ![l] = b], lba_root' = lba_root \cup {l},
           ref_blocks' = IF l \in lba_root THEN ref_blocks ELSE ref_blocks + 1,
           block' = [block EXCEPT ![d] = [lb_id |-> l, edit |-> FALSE]],
           UNCHANGED cache_write_back,
           disk' \in [Lba -> Vals], call' \in Calls, ret' \in Outcomes
    PROVE  CacheInv'
<1>. USE DEF CacheInv
<1>1. ref_blocks' \in Nat /\ RefBlocksExact'
  <2>1. IsFiniteSet(lba_root) /\ ref_blocks \in Nat /\ ref_blocks = Cardinality(lba_root)
    BY FiniteLba DEF RefBlocksExact, TypeOK
  <2>2. Cardinality(lba_root \cup {l}) =
            IF l \in lba_root THEN Cardinality(lba_root) ELSE Cardinality(lba_root) + 1
    BY <2>1, FS_AddElement
  <2>. QED  BY <2>1, <2>2 DEF RefBlocksExact
<1>2. lru_root' = lru_root \ {l} /\ l \notin dirty_list'
  <2>1. buf[l].refctr # 0 => l \notin dirty_list
    BY DEF LruIffUnreferenced, DirtyListFlushable
  <2>. QED  BY <2>1 DEF FindGet
<1>3. dirty_list' \subseteq dirty_list \ {l}
  BY <1>2 DEF FindGet
<1>4. TypeOK'
  <2>1. block' \in [Descriptors -> Blocks]
    BY DEF TypeOK, Blocks
  <2>2. older' \subseteq lba_root' \X lba_root'
    BY DEF TypeOK, FindGet, Newest, Without
  <2>. QED  BY <1>1, <1>2, <1>3, <2>1, <2>2 DEF TypeOK
<1>5. LruIffUnreferenced'
  BY <1>2 DEF LruIffUnreferenced, TypeOK, Bufs
<1>6. RefctrCountsHolders'
  <2>1. \A m \in Lba : Cardinality(Holders(m)') =
                IF m = l THEN Cardinality(Holders(m)) + 1 ELSE Cardinality(Holders(m))
    BY HoldersAcquire
  <2>. QED  BY <2>1 DEF RefctrCountsHolders, TypeOK
<1>7. DirtyListFlushable'
  BY <1>2, <1>3 DEF DirtyListFlushable, TypeOK, NeedsWrite
<1>8. UncachedIsFresh'
  BY DEF UncachedIsFresh, TypeOK
<1>9. DirtyIsWritten'
  BY DEF DirtyIsWritten, TypeOK, Written
<1>10. EditIsWritten'
  BY DEF EditIsWritten, TypeOK, Written, Blocks
<1>. QED  BY <1>1, <1>4, <1>5, <1>6, <1>7, <1>8, <1>9, <1>10

\* Nothing in the invariant depends on the device, or on the call.
LEMMA CacheUnchanged ==
    ASSUME CacheInv, UNCHANGED <<cache, block>>, cache_write_back' \in 0..MaxWriteBack,
           disk' \in [Lba -> Vals], call' \in Calls, ret' \in Outcomes
    PROVE  CacheInv'
<1>1. \A l : Holders(l)' = Holders(l)
  BY DEF Holders
<1>. QED
  BY <1>1 DEF CacheInv, TypeOK, LruIffUnreferenced, RefctrCountsHolders, DirtyListFlushable,
       RefBlocksExact, UncachedIsFresh, DirtyIsWritten, EditIsWritten, cache

\* The device stays well typed when a dirty buffer is written to it.
LEMMA WriteTyped ==
    ASSUME CacheInv, NEW l \in Lba, NEW w, NeedsWrite(buf[l])
    PROVE  WriteTo(l, w) \in [Lba -> Vals]
BY DEF CacheInv, TypeOK, DirtyIsWritten, NeedsWrite, WriteTo, Written

\* What a descriptor holds is cached, and neither evictable nor listed.
LEMMA HeldIsCached ==
    ASSUME CacheInv, NEW d \in Descriptors, block[d].lb_id \in Lba
    PROVE  /\ block[d].lb_id \in lba_root
           /\ block[d].lb_id \notin lru_root /\ block[d].lb_id \notin dirty_list
           /\ buf[block[d].lb_id].refctr # 0
<1>. DEFINE l == block[d].lb_id
<1>1. d \in Holders(l)
  BY DEF Holders
<1>2. Cardinality(Holders(l)) # 0
  BY <1>1, FiniteLba, FS_EmptySet DEF CacheInv
<1>. QED
  BY <1>2 DEF CacheInv, RefctrCountsHolders, LruIffUnreferenced, DirtyListFlushable,
       UncachedIsFresh, FreshBuf

\* A held buffer may be given any content, if its holders agree to it.
LEMMA RefilledKeepsInv ==
    ASSUME CacheInv, NEW l \in Lba, l \in lba_root, l \notin lru_root, l \notin dirty_list,
           NEW b \in Bufs, b.refctr = buf[l].refctr, b.dirty => Written(b),
           buf' = [buf EXCEPT ![l] = b], block' \in [Descriptors -> Blocks],
           \A d \in Descriptors :
               /\ block'[d].lb_id = block[d].lb_id
               /\ block'[d].edit => \/ block[d].lb_id = l /\ Written(b)
                                    \/ block[d].lb_id # l /\ block[d].edit,
           UNCHANGED <<disk, lba_root, lru_root, older, dirty_list, ref_blocks,
                       cache_write_back>>,
           call' \in Calls, ret' \in Outcomes
    PROVE  CacheInv'
<1>. USE DEF CacheInv
<1>1. TypeOK'
  BY DEF TypeOK
<1>2. LruIffUnreferenced' /\ RefBlocksExact'
  BY DEF LruIffUnreferenced, RefBlocksExact, TypeOK
<1>3. RefctrCountsHolders'
  <2>1. \A m : Holders(m)' = Holders(m)
    BY DEF Holders
  <2>. QED  BY <2>1 DEF RefctrCountsHolders, TypeOK
<1>4. DirtyListFlushable'
  BY DEF DirtyListFlushable, TypeOK, NeedsWrite
<1>5. UncachedIsFresh' /\ DirtyIsWritten'
  BY DEF UncachedIsFresh, DirtyIsWritten, TypeOK, Written
<1>6. EditIsWritten'
  BY LbaAssumption DEF EditIsWritten, TypeOK, Blocks, Written
<1>. QED  BY <1>1, <1>2, <1>3, <1>4, <1>5, <1>6

\* The fields of a call that has a descriptor.
LEMMA CallFields ==
    ASSUME call \in Calls, call.pc \in {"shake", "read", "flush_lba"}
    PROVE  /\ call \in [pc : {"shake", "read", "flush_lba"}, d : Descriptors, l : Lba, read : BOOLEAN]
           /\ call.d \in Descriptors /\ call.l \in Lba
BY DEF Calls, Idle, Flushing, Cleaning

LEMMA CallsTyped ==
    /\ Idle \in Calls /\ Flushing \in Calls /\ Cleaning \in Calls
    /\ Idle.pc = "idle" /\ Flushing.pc = "flush" /\ Cleaning.pc = "cleanup"
    /\ Idle # Cleaning /\ Flushing # Cleaning
BY DEF Calls, Idle, Flushing, Cleaning

-----------------------------------------------------------------------------
THEOREM InitInv == Init => IInv
<1>. SUFFICES ASSUME Init PROVE IInv
  OBVIOUS
<1>1. TypeOK
  BY CallsTyped, CntAssumption DEF Init, TypeOK, Bufs, FreshBuf, Blocks, NoBlock, Outcomes
<1>2. RefctrCountsHolders
  <2>1. \A l \in Lba : Holders(l) = {}
    BY LbaAssumption DEF Init, Holders, NoBlock
  <2>. QED  BY <2>1, FS_EmptySet DEF Init, RefctrCountsHolders, FreshBuf
<1>3. RefBlocksExact
  BY FS_EmptySet DEF Init, RefBlocksExact
<1>4. LruIffUnreferenced /\ DirtyListFlushable /\ UncachedIsFresh /\ DirtyIsWritten
  BY DEF Init, LruIffUnreferenced, DirtyListFlushable, UncachedIsFresh, DirtyIsWritten, FreshBuf
<1>5. EditIsWritten
  BY DEF Init, EditIsWritten, NoBlock
<1>6. CallHolds
  BY CallsTyped DEF Init, CallHolds
<1>. QED  BY <1>1, <1>2, <1>3, <1>4, <1>5, <1>6 DEF IInv, CacheInv

THEOREM NextInv == IInv /\ [Next]_vars => IInv'
<1>. SUFFICES ASSUME IInv, [Next]_vars PROVE IInv'
  OBVIOUS
<1>. USE DEF IInv
<1>0. TypeOK /\ call \in Calls /\ disk \in [Lba -> Vals] /\ cache_write_back \in 0..MaxWriteBack
      /\ ret \in Outcomes
  BY DEF CacheInv, TypeOK
<1>1. ASSUME NEW d \in Descriptors, NEW l \in Lba, NEW read \in BOOLEAN, Get(d, l, read)
      PROVE  IInv'
  <2>1. call' \in Calls /\ ret' \in Outcomes
    BY <1>1 DEF Get, Continue, Calls, Outcomes
  <2>2. CacheInv'
    BY <1>0, <1>1, <2>1, CacheUnchanged DEF Get
  <2>3. CallHolds'
    BY <1>1, CallsTyped DEF Get, Continue, CallHolds, Cleaning
  <2>. QED  BY <2>2, <2>3
<1>2. ASSUME NEW w \in Writes, ShakeDrop(w)
      PROVE  IInv'
  <2>. PICK l \in lru_root : /\ disk' = IF NeedsWrite(buf[l]) THEN WriteTo(l, w) ELSE disk
                             /\ Drop(l)
    BY <1>2 DEF ShakeDrop
  <2>1. l \in lba_root /\ buf[l].refctr = 0 /\ l \in Lba
    BY <1>0 DEF CacheInv, LruIffUnreferenced, TypeOK
  <2>2. disk' \in [Lba -> Vals]
    BY <1>0, <2>1, WriteTyped
  <2>3. CacheInv'
    BY <1>0, <1>2, <2>1, <2>2, DropUnreferenced DEF ShakeDrop
  <2>4. CallHolds'
    BY <1>2, CallsTyped DEF ShakeDrop, Shaking, CallHolds
  <2>. QED  BY <2>3, <2>4
<1>3. ASSUME NEW w \in Writes, ShakeFail(w)
      PROVE  IInv'
  <2>1. disk' \in [Lba -> Vals]
    BY <1>0, <1>3, WriteTyped DEF ShakeFail, TypeOK
  <2>2. CacheInv'
    BY <1>0, <1>3, <2>1, CallsTyped, CacheUnchanged DEF ShakeFail, Return, Outcomes
  <2>3. CallHolds'
    BY <1>3, CallsTyped DEF ShakeFail, Return, CallHolds
  <2>. QED  BY <2>2, <2>3
<1>4. CASE Alloc
  <2>. DEFINE l == call.l
              mustRead == call.read /\ ~buf[l].uptodate
              b0 == [buf[l] EXCEPT !.refctr = @ + 1]
              b == IF mustRead THEN b0 ELSE Flagged(b0, l, call.read)
  <2>1. l \in Lba /\ call.d \in Descriptors /\ block[call.d].lb_id = 0
        /\ call \in [pc : {"shake", "read", "flush_lba"}, d : Descriptors, l : Lba, read : BOOLEAN]
    BY <1>0, <1>4, CallFields DEF Alloc, CallHolds
  <2>2. /\ b0 \in Bufs /\ b0.refctr = buf[l].refctr + 1 /\ b0.dirty = buf[l].dirty
        /\ b0.uptodate = buf[l].uptodate /\ b0.data = buf[l].data
    BY <1>0, <2>1 DEF TypeOK, Bufs
  <2>3. /\ b \in Bufs /\ b.refctr = b0.refctr /\ b.dirty = b0.dirty
        /\ b.uptodate = b0.uptodate /\ b.data = b0.data
    <3>1. CASE mustRead
      BY <3>1, <2>2
    <3>2. CASE ~mustRead
      BY <3>2, <2>1, <2>2 DEF Flagged, Bufs
    <3>. QED  BY <3>1, <3>2
  <2>4. b.dirty => Written(b)
    BY <2>1, <2>2, <2>3 DEF CacheInv, DirtyIsWritten, Written
  <2>5. call' \in Calls /\ ret' \in Outcomes
    BY <1>4, <2>1, CallsTyped DEF Alloc, Return, Continue, Calls, Outcomes
  <2>6. /\ FindGet(l) /\ buf' = [buf EXCEPT ![l] = b] /\ lba_root' = lba_root \cup {l}
        /\ ref_blocks' = IF l \in lba_root THEN ref_blocks ELSE ref_blocks + 1
        /\ block' = [block EXCEPT ![call.d] = [lb_id |-> l, edit |-> FALSE]]
        /\ UNCHANGED <<disk, cache_write_back>>
    BY <1>4 DEF Alloc
  <2>7. CacheInv'
    <3>. HIDE DEF l, b, b0
    <3>. QED  BY <1>0, <2>1, <2>2, <2>3, <2>4, <2>5, <2>6, AcquireKeepsInv
  <2>8. CallHolds'
    <3>1. CASE mustRead
      <4>1. call' = [call EXCEPT !.pc = "read"]
        BY <1>4, <3>1 DEF Alloc, Continue
      <4>2. call'.pc = "read" /\ call'.d = call.d /\ call'.l = l /\ call' # Cleaning
        BY <2>1, <4>1 DEF Cleaning
      <4>3. block'[call.d] = [lb_id |-> l, edit |-> FALSE] /\ ~buf'[l].uptodate
        BY <1>0, <2>1, <2>2, <2>3, <2>6, <3>1 DEF TypeOK
      <4>. QED  BY <4>2, <4>3 DEF CallHolds
    <3>2. CASE ~mustRead
      BY <1>4, <3>2, CallsTyped DEF Alloc, Return, CallHolds
    <3>. QED  BY <3>1, <3>2
  <2>. QED  BY <2>7, <2>8
<1>5. CASE AllocFail
  <2>1. CacheInv'
    BY <1>0, <1>5, CallsTyped, CacheUnchanged DEF AllocFail, Return, Outcomes
  <2>. QED  BY <1>5, <2>1, CallsTyped DEF AllocFail, Return, CallHolds
<1>6. ASSUME NEW v \in Vals \cup {Junk}, Read(v)
      PROVE  IInv'
  <2>. DEFINE l == call.l
              b0 == [buf[l] EXCEPT !.data = v, !.uptodate = TRUE]
              b == Flagged(b0, l, TRUE)
  <2>1. l \in Lba /\ call.d \in Descriptors /\ ~buf[l].uptodate /\ ~buf[l].dirty
        /\ block[call.d] = [lb_id |-> l, edit |-> FALSE]
    BY <1>0, <1>6, CallFields DEF Read, CallHolds, CacheInv, DirtyIsWritten, Written
  <2>2. /\ b0 \in Bufs /\ b0.refctr = buf[l].refctr /\ ~b0.dirty /\ b0.uptodate
    BY <1>0, <2>1 DEF TypeOK, Bufs
  <2>3. /\ b \in Bufs /\ b.refctr = buf[l].refctr /\ ~b.dirty /\ b.uptodate
    BY <2>2 DEF Flagged, Bufs
  <2>4. /\ buf' = [buf EXCEPT ![l] = b]
        /\ UNCHANGED <<disk, lba_root, lru_root, older, dirty_list, ref_blocks,
                       cache_write_back, block>>
        /\ call' = Idle /\ ret' = "got"
    BY <1>6 DEF Read, Return
  <2>5. ~(\E d \in Descriptors : block[d].edit /\ block[d].lb_id = l)
    BY <2>1 DEF CacheInv, EditIsWritten, Written
  <2>. HIDE DEF l, b
  <2>6. l \in lba_root /\ l \notin lru_root /\ l \notin dirty_list
    BY <1>0, <2>1, HeldIsCached
  <2>7. CacheInv'
    <3>1. block' \in [Descriptors -> Blocks]
      BY <1>0, <2>4 DEF TypeOK
    <3>. QED  BY <1>0, <2>1, <2>3, <2>4, <2>5, <2>6, <3>1, RefilledKeepsInv, CallsTyped DEF Outcomes
  <2>8. CallHolds'
    BY <2>4, CallsTyped DEF CallHolds
  <2>. QED  BY <2>7, <2>8
<1>7. CASE ReadFail
  <2>1. call.l \in Lba /\ call.d \in Descriptors /\ block[call.d].lb_id = call.l
    BY <1>0, <1>7, CallFields DEF ReadFail, CallHolds
  <2>2. [ok |-> TRUE, stored |-> TRUE] \in Writes
    BY DEF Writes
  <2>3. buf[call.l] \in Bufs /\ (buf[call.l].dirty => Written(buf[call.l]))
    BY <1>0, <2>1 DEF CacheInv, TypeOK, DirtyIsWritten
  <2>4. CacheInv'
    BY <1>0, <1>7, <2>1, <2>2, <2>3, CallsTyped, FreeKeepsInv DEF ReadFail, Return, Outcomes
  <2>. QED  BY <1>7, <2>4, CallsTyped DEF ReadFail, Return, CallHolds
<1>8. ASSUME NEW d \in Descriptors, NEW v \in Vals, Overwrite(d, v)
      PROVE  IInv'
  <2>. DEFINE l == block[d].lb_id
              b == SetDirty([buf[l] EXCEPT !.data = v])
  <2>1. l \in Lba
    BY <1>0, <1>8 DEF Overwrite, TypeOK, Blocks
  <2>2. b \in Bufs /\ b.refctr = buf[l].refctr /\ Written(b)
    BY <1>0, <2>1 DEF TypeOK, SetDirty, Bufs, Written
  <2>3. /\ buf' = [buf EXCEPT ![l] = b]
        /\ UNCHANGED <<disk, lba_root, lru_root, older, dirty_list, ref_blocks,
                       cache_write_back, block>>
        /\ call' = Idle /\ ret' = "written"
    BY <1>8 DEF Overwrite, Return
  <2>4. l \in lba_root /\ l \notin lru_root /\ l \notin dirty_list
    BY <1>0, <2>1, HeldIsCached
  <2>5. CacheInv'
    <3>1. block' \in [Descriptors -> Blocks] /\ EditIsWritten
      BY <1>0, <2>3 DEF CacheInv, TypeOK
    <3>. HIDE DEF l, b
    <3>. QED  BY <1>0, <2>1, <2>2, <2>3, <2>4, <3>1, RefilledKeepsInv, CallsTyped DEF Outcomes
  <2>6. CallHolds'
    BY <2>3, CallsTyped DEF CallHolds
  <2>. QED  BY <2>5, <2>6
<1>9. ASSUME NEW d \in Descriptors, NEW v \in Vals, Edit(d, v)
      PROVE  IInv'
  <2>. DEFINE l == block[d].lb_id
              b == [buf[l] EXCEPT !.data = v]
  <2>1. l \in Lba /\ buf[l].uptodate
    BY <1>0, <1>9 DEF Edit, TypeOK, Blocks
  <2>2. b \in Bufs /\ b.refctr = buf[l].refctr /\ Written(b)
    BY <1>0, <2>1 DEF TypeOK, Bufs, Written
  <2>3. /\ buf' = [buf EXCEPT ![l] = b]
        /\ block' = [block EXCEPT ![d].edit = TRUE]
        /\ UNCHANGED <<disk, lba_root, lru_root, older, dirty_list, ref_blocks,
                       cache_write_back>>
        /\ call' = Idle /\ ret' = "written"
    BY <1>0, <1>9, <2>1 DEF Edit, Return, TypeOK
  <2>4. l \in lba_root /\ l \notin lru_root /\ l \notin dirty_list
    BY <1>0, <2>1, HeldIsCached
  <2>5. /\ block' \in [Descriptors -> Blocks]
        /\ \A e \in Descriptors : block'[e].lb_id = block[e].lb_id
        /\ \A e \in Descriptors : e # d => block'[e] = block[e]
    BY <1>0, <2>3 DEF TypeOK, Blocks
  <2>6. CacheInv'
    <3>1. block[d].lb_id = l
      OBVIOUS
    <3>. HIDE DEF l, b
    <3>2. \A e \in Descriptors :
             /\ block'[e].lb_id = block[e].lb_id
             /\ block'[e].edit => \/ block[e].lb_id = l /\ Written(b)
                                  \/ block[e].lb_id # l /\ block[e].edit
      BY <2>2, <2>5, <3>1
    <3>3. b.dirty => Written(b)
      BY <2>2
    <3>4. call' \in Calls /\ ret' \in Outcomes
      BY <2>3, CallsTyped DEF Outcomes
    <3>. QED  BY <2>1, <2>2, <2>3, <2>4, <2>5, <3>2, <3>3, <3>4, RefilledKeepsInv
  <2>7. CallHolds'
    BY <2>3, CallsTyped DEF CallHolds
  <2>. QED  BY <2>6, <2>7
<1>10. ASSUME NEW d \in Descriptors, NEW w \in Writes, Put(d, w)
       PROVE  IInv'
  <2>. DEFINE l == block[d].lb_id
              b == IF block[d].edit THEN SetDirty(buf[l]) ELSE buf[l]
  <2>1. l \in Lba
    BY <1>0, <1>10 DEF Put, TypeOK, Blocks
  <2>2. block[d].edit => Written(buf[l])
    BY <2>1 DEF CacheInv, EditIsWritten
  <2>3. buf[l].dirty => Written(buf[l])
    BY <2>1 DEF CacheInv, DirtyIsWritten
  <2>4. /\ b \in Bufs /\ b.refctr = buf[l].refctr /\ (b.dirty => Written(b))
        /\ (buf[l].uptodate => b.uptodate /\ b.data = buf[l].data)
    BY <1>0, <2>1, <2>2, <2>3 DEF TypeOK, SetDirty, Bufs, Written
  <2>5. Free(d, b, w) /\ UNCHANGED cache_write_back /\ call' = Idle /\ ret' = "released"
    BY <1>10 DEF Put, Return
  <2>6. CacheInv'
    <3>1. block[d].lb_id = l
      OBVIOUS
    <3>. HIDE DEF l, b
    <3>. QED  BY <1>0, <2>1, <2>4, <2>5, <3>1, FreeKeepsInv, CallsTyped DEF Outcomes
  <2>. QED  BY <2>5, <2>6, CallsTyped DEF CallHolds
<1>11. ASSUME NEW d \in Descriptors, NEW l \in Lba, NEW w \in Writes, FlushLba(d, l, w)
       PROVE  IInv'
  <2>. DEFINE b0 == [buf[l] EXCEPT !.refctr = @ + 1]
              b == IF NeedsWrite(b0) THEN AfterWrite(b0, w) ELSE b0
  <2>1. block[d].lb_id = 0 /\ l \in lba_root
    BY <1>11 DEF FlushLba
  <2>2. /\ b0 \in Bufs /\ b0.refctr = buf[l].refctr + 1 /\ b0.dirty = buf[l].dirty
        /\ b0.uptodate = buf[l].uptodate /\ b0.data = buf[l].data
    BY <1>0 DEF TypeOK, Bufs
  <2>3. /\ b \in Bufs /\ b.refctr = b0.refctr /\ (b.dirty => b0.dirty)
        /\ b.uptodate = b0.uptodate /\ b.data = b0.data
    <3>1. CASE NeedsWrite(b0)
      BY <2>2, <3>1 DEF AfterWrite, Bufs, NeedsWrite
    <3>2. CASE ~NeedsWrite(b0)
      BY <2>2, <3>2
    <3>. QED  BY <3>1, <3>2
  <2>4. b.dirty => Written(b)
    BY <2>2, <2>3 DEF CacheInv, DirtyIsWritten, Written
  <2>5. disk' \in [Lba -> Vals]
    <3>1. NeedsWrite(b0) => NeedsWrite(buf[l])
      BY <2>2 DEF NeedsWrite
    <3>. QED  BY <1>0, <1>11, <3>1, WriteTyped DEF FlushLba
  <2>6. /\ FindGet(l) /\ buf' = [buf EXCEPT ![l] = b] /\ lba_root' = lba_root \cup {l}
        /\ ref_blocks' = IF l \in lba_root THEN ref_blocks ELSE ref_blocks + 1
        /\ block' = [block EXCEPT ![d] = [lb_id |-> l, edit |-> FALSE]]
        /\ UNCHANGED cache_write_back
        /\ call' = [pc |-> "flush_lba", d |-> d, l |-> l, read |-> FALSE] /\ ret' = "busy"
    BY <1>11, <2>1 DEF FlushLba, Continue
  <2>7. call' \in Calls /\ ret' \in Outcomes
    BY <2>6 DEF Calls, Outcomes
  <2>8. CacheInv'
    <3>. HIDE DEF b, b0
    <3>. QED  BY <2>1, <2>2, <2>3, <2>4, <2>5, <2>6, <2>7, AcquireKeepsInv
  <2>9. CallHolds'
    BY <1>0, <2>6, CallsTyped DEF CallHolds, Cleaning, TypeOK
  <2>. QED  BY <2>8, <2>9
<1>12. ASSUME NEW w \in Writes, FlushLbaPut(w)
       PROVE  IInv'
  <2>1. call.l \in Lba /\ call.d \in Descriptors /\ block[call.d].lb_id = call.l
    BY <1>0, <1>12, CallFields DEF FlushLbaPut, CallHolds
  <2>2. buf[call.l] \in Bufs /\ (buf[call.l].dirty => Written(buf[call.l]))
    BY <1>0, <2>1 DEF CacheInv, TypeOK, DirtyIsWritten
  <2>3. CacheInv'
    BY <1>0, <1>12, <2>1, <2>2, CallsTyped, FreeKeepsInv DEF FlushLbaPut, Return, Outcomes
  <2>. QED  BY <1>12, <2>3, CallsTyped DEF FlushLbaPut, Return, CallHolds
<1>13. ASSUME NEW from \in Lba, NEW to \in Lba, Invalidate(from, to)
       PROVE  IInv'
  <2>. DEFINE S == InvalidatedBy(from, to)
  <2>1. /\ dirty_list' = dirty_list \ S
        /\ buf' = [m \in Lba |-> IF m \in S
                       THEN [buf[m] EXCEPT !.uptodate = FALSE, !.dirty = FALSE] ELSE buf[m]]
        /\ UNCHANGED <<disk, lba_root, lru_root, older, ref_blocks, cache_write_back, block>>
        /\ call' = Idle /\ ret' = "invalidated"
    BY <1>13 DEF Invalidate, Return
  <2>2. \A d \in Descriptors : block[d].edit => block[d].lb_id \notin S
    <3>1. \A l \in S : l \in Nat /\ from <= l /\ l <= to
      BY <1>0, LbaAssumption DEF InvalidatedBy, TypeOK
    <3>2. from \in Nat /\ to \in Nat
      BY LbaAssumption
    <3>3. S \subseteq from..to
      BY <3>1, <3>2
    <3>. QED  BY <1>13, <3>3 DEF Invalidate
  <2>3. S \subseteq lba_root
    BY DEF InvalidatedBy
  <2>. HIDE DEF S
  <2>4. buf' \in [Lba -> Bufs] /\ \A m \in Lba :
           /\ buf'[m].refctr = buf[m].refctr
           /\ m \in S => ~buf'[m].dirty
           /\ m \notin S => buf'[m] = buf[m]
    BY <1>0, <2>1 DEF TypeOK, Bufs
  <2>5. TypeOK'
    BY <1>0, <2>1, <2>4, CallsTyped DEF TypeOK, Outcomes
  <2>6. LruIffUnreferenced' /\ RefBlocksExact'
    BY <1>0, <2>1, <2>4 DEF CacheInv, LruIffUnreferenced, RefBlocksExact, TypeOK
  <2>7. RefctrCountsHolders'
    <3>1. \A m : Holders(m)' = Holders(m)
      BY <2>1 DEF Holders
    <3>. QED  BY <2>4, <3>1 DEF CacheInv, RefctrCountsHolders
  <2>8. DirtyListFlushable'
    BY <1>0, <2>1, <2>4 DEF CacheInv, DirtyListFlushable, TypeOK, NeedsWrite
  <2>9. UncachedIsFresh' /\ DirtyIsWritten'
    BY <1>0, <2>1, <2>3, <2>4 DEF CacheInv, UncachedIsFresh, DirtyIsWritten, Written, TypeOK
  <2>10. EditIsWritten'
    BY <1>0, <2>1, <2>2, <2>4 DEF CacheInv, EditIsWritten, Written, TypeOK, Blocks
  <2>11. CallHolds'
    BY <2>1, CallsTyped DEF CallHolds
  <2>. QED  BY <2>5, <2>6, <2>7, <2>8, <2>9, <2>10, <2>11 DEF CacheInv
<1>14. CASE CacheFlush
  BY <1>0, <1>14, CallsTyped, CacheUnchanged DEF CacheFlush, Continue, Outcomes, CallHolds
<1>15. ASSUME NEW w \in Writes, FlushOne(w)
       PROVE  IInv'
  <2>. PICK l \in dirty_list :
          /\ disk' = IF NeedsWrite(buf[l]) THEN WriteTo(l, w) ELSE disk
          /\ dirty_list' = IF NeedsWrite(buf[l]) THEN dirty_list \ {l} ELSE dirty_list
          /\ buf' = IF NeedsWrite(buf[l]) THEN [buf EXCEPT ![l].dirty = FALSE] ELSE buf
    BY <1>15 DEF FlushOne
  <2>1. l \in Lba /\ l \in lba_root /\ NeedsWrite(buf[l])
    BY <1>0 DEF CacheInv, TypeOK, DirtyListFlushable
  <2>2. /\ disk' \in [Lba -> Vals]
        /\ dirty_list' = dirty_list \ {l}
        /\ buf' = [buf EXCEPT ![l].dirty = FALSE]
        /\ UNCHANGED <<lba_root, lru_root, older, ref_blocks, cache_write_back, block, call, ret>>
    BY <1>15, <2>1, WriteTyped DEF FlushOne
  <2>3. buf' \in [Lba -> Bufs] /\ ~buf'[l].dirty /\ \A m \in Lba :
           /\ buf'[m].refctr = buf[m].refctr
           /\ buf'[m].uptodate = buf[m].uptodate /\ buf'[m].data = buf[m].data
           /\ m # l => buf'[m] = buf[m]
    <3>. DEFINE b == [buf[l] EXCEPT !.dirty = FALSE]
    <3>1. /\ b \in Bufs /\ ~b.dirty /\ b.refctr = buf[l].refctr
          /\ b.uptodate = buf[l].uptodate /\ b.data = buf[l].data
      BY <1>0, <2>1 DEF TypeOK, Bufs
    <3>2. buf' = [buf EXCEPT ![l] = b]
      BY <1>0, <2>1, <2>2 DEF TypeOK
    <3>. HIDE DEF b
    <3>. QED  BY <1>0, <2>1, <3>1, <3>2 DEF TypeOK
  <2>4. TypeOK'
    BY <1>0, <2>2, <2>3 DEF TypeOK
  <2>5. LruIffUnreferenced' /\ RefBlocksExact'
    BY <1>0, <2>2, <2>3 DEF CacheInv, LruIffUnreferenced, RefBlocksExact, TypeOK
  <2>6. RefctrCountsHolders'
    <3>1. \A m : Holders(m)' = Holders(m)
      BY <2>2 DEF Holders
    <3>. QED  BY <2>3, <3>1 DEF CacheInv, RefctrCountsHolders
  <2>7. DirtyListFlushable'
    BY <1>0, <2>2, <2>3 DEF CacheInv, DirtyListFlushable, TypeOK, NeedsWrite
  <2>8. UncachedIsFresh' /\ DirtyIsWritten'
    BY <1>0, <2>1, <2>2, <2>3 DEF CacheInv, UncachedIsFresh, DirtyIsWritten, Written, TypeOK
  <2>9. EditIsWritten'
    BY <1>0, <2>2, <2>3 DEF CacheInv, EditIsWritten, Written, TypeOK, Blocks
  <2>10. CallHolds'
    BY <1>0, <1>15, <2>2, <2>3, CallsTyped DEF FlushOne, CallHolds
  <2>. QED  BY <2>4, <2>5, <2>6, <2>7, <2>8, <2>9, <2>10 DEF CacheInv
<1>16. ASSUME NEW w \in Writes, FlushFail(w)
       PROVE  IInv'
  <2>1. disk' \in [Lba -> Vals]
    BY <1>0, <1>16, WriteTyped DEF FlushFail, TypeOK
  <2>2. CacheInv'
    BY <1>0, <1>16, <2>1, CallsTyped, CacheUnchanged DEF FlushFail, Return, Outcomes
  <2>. QED  BY <1>16, <2>2, CallsTyped DEF FlushFail, Return, CallHolds
<1>17. CASE FlushDone
  BY <1>0, <1>17, CallsTyped, CacheUnchanged DEF FlushDone, Return, Outcomes, CallHolds
<1>18. CASE WriteBackOn
  BY <1>0, <1>18, CallsTyped, CacheUnchanged, CntAssumption
     DEF WriteBackOn, Return, Outcomes, CallHolds
<1>19. CASE WriteBackOff
  <2>1. cache_write_back' \in 0..MaxWriteBack
    BY <1>0, <1>19, CntAssumption DEF WriteBackOff
  <2>2. call' \in {Idle, Flushing} /\ ret' \in Outcomes
    BY <1>19 DEF WriteBackOff, Return, Continue, Outcomes
  <2>3. CacheInv'
    BY <1>0, <1>19, <2>1, <2>2, CallsTyped, CacheUnchanged DEF WriteBackOff
  <2>. QED  BY <2>2, <2>3, CallsTyped DEF CallHolds
<1>20. CASE Cleanup
  <2>1. CacheInv'
    BY <1>0, <1>20, CallsTyped, CacheUnchanged DEF Cleanup, Continue, Outcomes
  <2>2. \A d \in Descriptors : block[d] = NoBlock
    BY <1>0, <1>20 DEF Cleanup, CacheInv, EditIsWritten, TypeOK, Blocks, NoBlock
  <2>3. CallHolds'
    BY <1>20, <2>2, CallsTyped DEF Cleanup, Continue, CallHolds
  <2>. QED  BY <2>1, <2>3
<1>21. ASSUME NEW w \in Writes, CleanupOne(w)
       PROVE  IInv'
  <2>. PICK l \in lba_root : /\ disk' = IF NeedsWrite(buf[l]) THEN WriteTo(l, w) ELSE disk
                             /\ Drop(l)
    BY <1>21 DEF CleanupOne
  <2>1. l \in Lba /\ disk' \in [Lba -> Vals]
    BY <1>0, WriteTyped DEF TypeOK
  <2>2. buf[l].refctr = 0
    <3>1. Holders(l) = {}
      BY <1>21, <2>1, LbaAssumption DEF CleanupOne, CallHolds, Holders, NoBlock
    <3>. QED  BY <2>1, <3>1, FS_EmptySet DEF CacheInv, RefctrCountsHolders
  <2>3. CacheInv'
    BY <1>0, <1>21, <2>1, <2>2, DropUnreferenced DEF CleanupOne
  <2>4. CallHolds'
    BY <1>21, CallsTyped DEF CleanupOne, CallHolds
  <2>. QED  BY <2>3, <2>4
<1>22. CASE CleanupDone
  BY <1>0, <1>22, CallsTyped, CacheUnchanged DEF CleanupDone, Return, Outcomes, CallHolds
<1>23. CASE PowerOff
  <2>1. TypeOK'
    BY <1>0, <1>23, CallsTyped, CntAssumption
       DEF PowerOff, Return, TypeOK, Bufs, FreshBuf, Blocks, NoBlock, Outcomes
  <2>2. RefctrCountsHolders'
    <3>1. \A l \in Lba : Holders(l)' = {}
      BY <1>23, LbaAssumption DEF PowerOff, Holders, NoBlock
    <3>. QED  BY <1>23, <3>1, FS_EmptySet DEF PowerOff, RefctrCountsHolders, FreshBuf
  <2>3. RefBlocksExact'
    BY <1>23, FS_EmptySet DEF PowerOff, RefBlocksExact
  <2>4. LruIffUnreferenced' /\ DirtyListFlushable' /\ UncachedIsFresh' /\ DirtyIsWritten'
    BY <1>23 DEF PowerOff, LruIffUnreferenced, DirtyListFlushable, UncachedIsFresh,
         DirtyIsWritten, FreshBuf
  <2>5. EditIsWritten'
    BY <1>23 DEF PowerOff, EditIsWritten, NoBlock
  <2>6. CallHolds'
    BY <1>23, CallsTyped DEF PowerOff, Return, CallHolds
  <2>. QED  BY <2>1, <2>2, <2>3, <2>4, <2>5, <2>6 DEF CacheInv
<1>24. CASE UNCHANGED vars
  <2>1. CacheInv'
    BY <1>0, <1>24, CacheUnchanged DEF vars, cache
  <2>. QED  BY <1>24, <2>1 DEF vars, CallHolds
<1>. QED
  BY <1>1, <1>2, <1>3, <1>4, <1>5, <1>6, <1>7, <1>8, <1>9, <1>10, <1>11, <1>12, <1>13, <1>14,
     <1>15, <1>16, <1>17, <1>18, <1>19, <1>20, <1>21, <1>22, <1>23, <1>24
     DEF Next, Internal, External

-----------------------------------------------------------------------------
THEOREM Invariance == Spec => []IInv
<1>1. Init => IInv
  BY InitInv
<1>2. IInv /\ [Next]_vars => IInv'
  BY NextInv
<1>. QED  BY <1>1, <1>2, PTL DEF Spec

(* Every variable has its type, in every reachable state of every          *)
(* instance: the types of ext4_bcache.h, the counters never going negative.*)
THEOREM TypeCorrect == Spec => []TypeOK
<1>1. IInv => TypeOK
  BY DEF IInv, CacheInv
<1>. QED  BY <1>1, Invariance, PTL

(* lru_root holds exactly the unreferenced buffers (ext4_bcache.c:114).    *)
THEOREM LruExact == Spec => []LruIffUnreferenced
<1>1. IInv => LruIffUnreferenced
  BY DEF IInv, CacheInv
<1>. QED  BY <1>1, Invariance, PTL

(* refctr is the number of descriptors that hold the buffer, on every path *)
(* through get, put, flush, failed read and unmount.                       *)
THEOREM RefctrExact == Spec => []RefctrCountsHolders
<1>1. IInv => RefctrCountsHolders
  BY DEF IInv, CacheInv
<1>. QED  BY <1>1, Invariance, PTL

(* ext4_block_cache_flush unlists a buffer at every turn of its loop.      *)
THEOREM FlushProgresses == Spec => []DirtyListFlushable
<1>1. IInv => DirtyListFlushable
  BY DEF IInv, CacheInv
<1>. QED  BY <1>1, Invariance, PTL

(* ref_blocks counts the cached buffers.                                   *)
THEOREM RefBlocksCounts == Spec => []RefBlocksExact
<1>1. IInv => RefBlocksExact
  BY DEF IInv, CacheInv
<1>. QED  BY <1>1, Invariance, PTL

(* A buffer that a descriptor holds is not dropped under it.               *)
THEOREM HeldNeverDropped == Spec => HeldStaysCached
<1>1. IInv' => \A d \in Descriptors : block'[d].lb_id # 0 => block'[d].lb_id \in lba_root'
  <2>. SUFFICES ASSUME IInv', NEW d \in Descriptors, block'[d].lb_id # 0
       PROVE  block'[d].lb_id \in lba_root'
    OBVIOUS
  <2>1. block'[d].lb_id \in Lba /\ IsFiniteSet(Holders(block[d].lb_id)')
    BY DescriptorsAssumption, FS_Subset DEF IInv, CacheInv, TypeOK, Blocks, Holders
  <2>2. d \in Holders(block[d].lb_id)'
    BY DEF Holders
  <2>3. Cardinality(Holders(block[d].lb_id)') # 0
    BY <2>1, <2>2, FS_EmptySet
  <2>. QED  BY <2>1, <2>3 DEF IInv, CacheInv, RefctrCountsHolders, UncachedIsFresh, FreshBuf
<1>2. IInv' => [ \A d \in Descriptors : block[d].lb_id # 0 /\ block[d]' = block[d]
                   => block[d].lb_id \in lba_root' ]_vars
  BY <1>1
<1>. QED  BY <1>2, Invariance, PTL DEF HeldStaysCached

-----------------------------------------------------------------------------
(***************************************************************************)
(* When is everything written?  On a device that does not fail: whenever   *)
(* write-back is off, and after every flush.  Neither is inductive.  What  *)
(* is: a dirty buffer that nobody references is on dirty_list, and outside *)
(* of write-back mode the list is empty except while it is flushed.        *)
(***************************************************************************)

DirtyIsListed == \A l \in lru_root : buf[l].dirty => l \in dirty_list
EmptyUnlessDelayed == cache_write_back = 0 /\ call # Flushing => dirty_list = {}
BusyUntilReturn == call # Idle => ret = "busy"
FlushedIsEmpty == ret = "flushed" => dirty_list = {}

FlushInv == DirtyIsListed /\ EmptyUnlessDelayed /\ BusyUntilReturn /\ FlushedIsEmpty

-----------------------------------------------------------------------------
LEMMA WritesSucceed ==
    ASSUME ~MayFail, NEW w \in Writes
    PROVE  w.ok
BY DEF Writes

LEMMA CallsDiffer ==
    /\ \A p, d, l, r : [pc |-> p, d |-> d, l |-> l, read |-> r].pc = p
    /\ Idle.pc = "idle" /\ Flushing.pc = "flush" /\ Cleaning.pc = "cleanup"
BY DEF Idle, Flushing, Cleaning

(* ext4_bcache_free: in write-back mode the last holder lists a dirty      *)
(* buffer, and otherwise writes it, or drops it.                           *)
LEMMA FreeListsDirty ==
    ASSUME ~MayFail, CacheInv, DirtyIsListed, cache_write_back = 0 => dirty_list = {},
           NEW d \in Descriptors, block[d].lb_id \in Lba,
           NEW b \in Bufs, b.refctr = buf[block[d].lb_id].refctr, b.dirty => Written(b),
           NEW w \in Writes, Free(d, b, w)
    PROVE  DirtyIsListed' /\ (cache_write_back = 0 => dirty_list' = {})
<1>. DEFINE l == block[d].lb_id
            r == [b EXCEPT !.refctr = @ - 1]
            last == LastHolder(r)
            delay == last /\ Delayed(r)
            flush == last /\ NeedsWrite(r) /\ ~Delayed(r)
            f == IF flush THEN [AfterWrite(r, w) EXCEPT !.flush = FALSE] ELSE r
<1>1. TypeOK /\ l \in Lba /\ l \notin lru_root /\ buf[l].refctr # 0 /\ w.ok
  BY HeldIsCached, WritesSucceed DEF CacheInv
<1>2. r \in Bufs /\ r.uptodate = b.uptodate /\ r.dirty = b.dirty
  BY <1>1 DEF Bufs
<1>3. CASE last /\ NotKept(r)
  <2>1. Drop(l)
    BY <1>3 DEF Free
  <2>. QED  BY <1>1, <2>1 DEF Drop, DirtyIsListed, TypeOK, FreshBuf
<1>4. CASE ~(last /\ NotKept(r))
  <2>1. /\ lru_root' = IF last THEN lru_root \cup {l} ELSE lru_root
        /\ dirty_list' = IF delay THEN dirty_list \cup {l}
                         ELSE IF flush /\ w.ok THEN dirty_list \ {l}
                         ELSE dirty_list
        /\ buf' = [buf EXCEPT ![l] = f]
    BY <1>4 DEF Free
  <2>2. cache_write_back = 0 => ~delay
    BY DEF Delayed
  <2>3. flush => ~f.dirty
    <3>1. AfterWrite(r, w) \in Bufs /\ AfterWrite(r, w).dirty = FALSE
      BY <1>1, <1>2 DEF AfterWrite, Bufs
    <3>. QED  BY <3>1 DEF Bufs
  <2>4. last => delay \/ flush \/ ~f.dirty
    BY <1>2 DEF NeedsWrite, Written
  <2>5. \A m \in Lba : m # l => buf'[m] = buf[m]
    BY <1>1, <2>1 DEF TypeOK
  <2>6. buf'[l] = f
    BY <1>1, <2>1 DEF TypeOK
  <2>7. lru_root \subseteq Lba
    BY <1>1 DEF TypeOK
  <2>8. DirtyIsListed'
    <3>. HIDE DEF f, flush, delay, last, r
    <3>. QED  BY <1>1, <2>1, <2>3, <2>4, <2>5, <2>6, <2>7 DEF DirtyIsListed
  <2>9. cache_write_back = 0 => dirty_list' = {}
    <3>. HIDE DEF f, flush, delay, last, r
    <3>. QED  BY <2>1, <2>2
  <2>. QED  BY <2>8, <2>9
<1>. QED  BY <1>3, <1>4

\* Neither the list nor the buffers that nobody references change.
LEMMA NothingListed ==
    ASSUME CacheInv, DirtyIsListed, UNCHANGED <<lru_root, dirty_list>>,
           \A l \in lru_root : buf'[l] = buf[l]
    PROVE  DirtyIsListed'
BY DEF DirtyIsListed

(* A buffer is found: if nobody referenced it, it leaves both.             *)
LEMMA FoundLeavesBoth ==
    ASSUME CacheInv, DirtyIsListed, NEW l \in Lba, FindGet(l),
           \A m \in Lba \ {l} : buf'[m] = buf[m]
    PROVE  DirtyIsListed' /\ dirty_list' \subseteq dirty_list
<1>1. lru_root \subseteq Lba /\ lru_root' = lru_root \ {l}
  BY DEF CacheInv, TypeOK, FindGet
<1>2. dirty_list' \subseteq dirty_list /\ \A m \in Lba : m # l /\ m \in dirty_list => m \in dirty_list'
  BY DEF FindGet
<1>. QED  BY <1>1, <1>2 DEF DirtyIsListed

LEMMA DropLeavesBoth ==
    ASSUME CacheInv, DirtyIsListed, NEW l \in Lba, Drop(l)
    PROVE  DirtyIsListed' /\ dirty_list' \subseteq dirty_list
BY DEF CacheInv, TypeOK, Drop, DirtyIsListed

-----------------------------------------------------------------------------
LEMMA NextFlushInv ==
    ASSUME ~MayFail, IInv, FlushInv, [Next]_vars
    PROVE  FlushInv'
<1>. USE DEF FlushInv
<1>0. CacheInv /\ TypeOK /\ call \in Calls /\ lru_root \subseteq Lba
  BY DEF IInv, CacheInv, TypeOK
<1>1. ASSUME NEW w \in Writes, ShakeDrop(w) \/ CleanupOne(w)
      PROVE  FlushInv'
  <2>1. PICK l \in Lba : Drop(l)
    BY <1>0, <1>1 DEF ShakeDrop, CleanupOne, TypeOK
  <2>2. UNCHANGED <<cache_write_back, call, ret>> /\ call # Flushing /\ call # Idle
    BY <1>1, CallsDiffer DEF ShakeDrop, CleanupOne, Shaking
  <2>. QED
    BY <1>0, <2>1, <2>2, DropLeavesBoth
       DEF EmptyUnlessDelayed, BusyUntilReturn, FlushedIsEmpty
<1>2. ASSUME NEW w \in Writes, ShakeFail(w) \/ FlushFail(w)
      PROVE  FlushInv'
  BY <1>2, WritesSucceed DEF ShakeFail, FlushFail
<1>3. ASSUME Alloc
      PROVE  FlushInv'
  <2>1. call.l \in Lba /\ call.pc = "shake" /\ call # Flushing
    BY <1>0, <1>3, CallFields, CallsDiffer DEF Alloc
  <2>2. FindGet(call.l) /\ \A m \in Lba \ {call.l} : buf'[m] = buf[m]
    BY <1>0, <1>3, <2>1 DEF Alloc, TypeOK
  <2>3. DirtyIsListed' /\ dirty_list' \subseteq dirty_list
    BY <1>0, <2>1, <2>2, FoundLeavesBoth
  <2>4. cache_write_back' = cache_write_back /\ ret' \in {"busy", "got"}
        /\ (call' # Idle => ret' = "busy")
    BY <1>3 DEF Alloc, Return, Continue
  <2>. QED
    BY <2>1, <2>3, <2>4 DEF EmptyUnlessDelayed, BusyUntilReturn, FlushedIsEmpty
<1>4. ASSUME NEW v \in Vals \cup {Junk}, Read(v)
      PROVE  FlushInv'
  <2>1. call.l \in Lba /\ call.d \in Descriptors /\ block[call.d].lb_id = call.l
        /\ call # Flushing
    BY <1>0, <1>4, CallFields, CallsDiffer DEF Read, IInv, CallHolds
  <2>2. call.l \notin lru_root
    BY <1>0, <2>1, HeldIsCached
  <2>3. \A l \in lru_root : buf'[l] = buf[l]
    BY <1>0, <1>4, <2>2 DEF Read, TypeOK
  <2>4. UNCHANGED <<lru_root, dirty_list, cache_write_back>> /\ call' = Idle /\ ret' = "got"
    BY <1>4 DEF Read, Return
  <2>5. DirtyIsListed'
    BY <1>0, <2>3, <2>4, NothingListed
  <2>. QED
    BY <2>1, <2>4, <2>5 DEF EmptyUnlessDelayed, BusyUntilReturn, FlushedIsEmpty
<1>5. ASSUME NEW d \in Descriptors, NEW v \in Vals, Overwrite(d, v) \/ Edit(d, v)
      PROVE  FlushInv'
  <2>1. block[d].lb_id \in Lba /\ call = Idle
    BY <1>0, <1>5 DEF Overwrite, Edit, TypeOK, Blocks
  <2>2. block[d].lb_id \notin lru_root
    BY <1>0, <2>1, HeldIsCached
  <2>3. \A l \in lru_root : buf'[l] = buf[l]
    BY <1>0, <1>5, <2>1, <2>2 DEF Overwrite, Edit, TypeOK
  <2>4. UNCHANGED <<lru_root, dirty_list, cache_write_back>> /\ call' = Idle /\ ret' = "written"
    BY <1>5 DEF Overwrite, Edit, Return
  <2>5. DirtyIsListed'
    BY <1>0, <2>3, <2>4, NothingListed
  <2>. QED
    BY <2>1, <2>4, <2>5, CallsDiffer DEF EmptyUnlessDelayed, BusyUntilReturn, FlushedIsEmpty
<1>6. ASSUME NEW d \in Descriptors, NEW w \in Writes, Put(d, w)
      PROVE  FlushInv'
  <2>. DEFINE b == IF block[d].edit THEN SetDirty(buf[block[d].lb_id]) ELSE buf[block[d].lb_id]
  <2>1. block[d].lb_id \in Lba /\ buf[block[d].lb_id] \in Bufs /\ call # Flushing
    BY <1>0, <1>6, CallsDiffer DEF Put, TypeOK, Blocks
  <2>2. b \in Bufs /\ b.refctr = buf[block[d].lb_id].refctr
    BY <2>1 DEF SetDirty, Bufs
  <2>3. b.dirty => Written(b)
    BY <1>0, <2>1 DEF CacheInv, DirtyIsWritten, EditIsWritten, SetDirty, Written, Bufs
  <2>4. Free(d, b, w) /\ cache_write_back' = cache_write_back /\ call' = Idle /\ ret' = "released"
    BY <1>6 DEF Put, Return
  <2>5. DirtyIsListed' /\ (cache_write_back = 0 => dirty_list' = {})
    <3>. HIDE DEF b
    <3>. QED
      BY <1>0, <2>1, <2>2, <2>3, <2>4, FreeListsDirty DEF EmptyUnlessDelayed
  <2>. QED
    BY <2>4, <2>5 DEF EmptyUnlessDelayed, BusyUntilReturn, FlushedIsEmpty
<1>7. ASSUME NEW w \in Writes, FlushLbaPut(w)
      PROVE  FlushInv'
  <2>1. call.d \in Descriptors /\ block[call.d].lb_id = call.l /\ call.l \in Lba
        /\ buf[call.l] \in Bufs /\ call # Flushing
    BY <1>0, <1>7, CallFields, CallsDiffer DEF FlushLbaPut, IInv, CallHolds, TypeOK
  <2>2. Free(call.d, buf[call.l], w) /\ cache_write_back' = cache_write_back
        /\ call' = Idle /\ ret' = "released"
    BY <1>7 DEF FlushLbaPut, Return
  <2>3. buf[call.l].dirty => Written(buf[call.l])
    BY <1>0, <2>1 DEF CacheInv, DirtyIsWritten
  <2>4. DirtyIsListed' /\ (cache_write_back = 0 => dirty_list' = {})
    BY <1>0, <2>1, <2>2, <2>3, FreeListsDirty DEF EmptyUnlessDelayed
  <2>. QED
    BY <2>2, <2>4 DEF EmptyUnlessDelayed, BusyUntilReturn, FlushedIsEmpty
<1>8. ASSUME NEW d \in Descriptors, NEW l \in Lba, NEW w \in Writes, FlushLba(d, l, w)
      PROVE  FlushInv'
  <2>1. FindGet(l) /\ \A m \in Lba \ {l} : buf'[m] = buf[m]
    BY <1>0, <1>8 DEF FlushLba, TypeOK
  <2>2. DirtyIsListed' /\ dirty_list' \subseteq dirty_list
    BY <1>0, <2>1, FoundLeavesBoth
  <2>3. call # Flushing /\ cache_write_back' = cache_write_back /\ ret' = "busy"
    BY <1>8, CallsDiffer DEF FlushLba, Continue
  <2>. QED
    BY <2>2, <2>3 DEF EmptyUnlessDelayed, BusyUntilReturn, FlushedIsEmpty
<1>9. ASSUME NEW from \in Lba, NEW to \in Lba, Invalidate(from, to)
      PROVE  FlushInv'
  <2>. DEFINE S == InvalidatedBy(from, to)
  <2>1. /\ dirty_list' = dirty_list \ S
        /\ \A m \in Lba : m \in S => buf'[m] = [buf[m] EXCEPT !.uptodate = FALSE, !.dirty = FALSE]
        /\ \A m \in Lba : m \notin S => buf'[m] = buf[m]
        /\ UNCHANGED <<lru_root, cache_write_back>> /\ call = Idle /\ call' = Idle
        /\ ret' = "invalidated"
    BY <1>9 DEF Invalidate, Return
  <2>. HIDE DEF S
  <2>2. \A m \in Lba : m \in S => ~buf'[m].dirty
    BY <1>0, <2>1 DEF TypeOK, Bufs
  <2>3. DirtyIsListed'
    BY <1>0, <2>1, <2>2 DEF DirtyIsListed
  <2>. QED
    BY <2>1, <2>3, CallsDiffer DEF EmptyUnlessDelayed, BusyUntilReturn, FlushedIsEmpty
<1>10. ASSUME NEW w \in Writes, FlushOne(w)
       PROVE  FlushInv'
  <2>1. PICK l \in dirty_list :
            /\ dirty_list' = IF NeedsWrite(buf[l]) THEN dirty_list \ {l} ELSE dirty_list
            /\ buf' = IF NeedsWrite(buf[l]) THEN [buf EXCEPT ![l].dirty = FALSE] ELSE buf
    BY <1>10 DEF FlushOne
  <2>2. call = Flushing /\ UNCHANGED <<lru_root, cache_write_back, call, ret>>
    BY <1>10 DEF FlushOne
  <2>3. DirtyIsListed'
    BY <1>0, <2>1, <2>2 DEF DirtyIsListed, TypeOK, Bufs
  <2>. QED
    BY <2>1, <2>2, <2>3, CallsDiffer DEF EmptyUnlessDelayed, BusyUntilReturn, FlushedIsEmpty
<1>11. ASSUME FlushDone \/ CacheFlush \/ WriteBackOn \/ WriteBackOff
       PROVE  FlushInv'
  <2>1. UNCHANGED cache /\ DirtyIsListed'
    BY <1>0, <1>11, NothingListed
       DEF FlushDone, CacheFlush, WriteBackOn, WriteBackOff, cache
  <2>2. cache_write_back \in Nat
    BY <1>0, CntAssumption DEF TypeOK
  <2>. QED
    BY <1>11, <2>1, <2>2, CallsDiffer
       DEF FlushDone, CacheFlush, WriteBackOn, WriteBackOff, Return, Continue, cache,
           EmptyUnlessDelayed, BusyUntilReturn, FlushedIsEmpty
<1>12. ASSUME \/ \E d \in Descriptors, l \in Lba, read \in BOOLEAN : Get(d, l, read)
              \/ Cleanup \/ CleanupDone
       PROVE  FlushInv'
  <2>1. UNCHANGED <<cache, cache_write_back>> /\ DirtyIsListed' /\ call # Flushing
        /\ (call' # Idle => ret' = "busy") /\ ret' # "flushed"
    BY <1>0, <1>12, NothingListed, CallsDiffer
       DEF Get, Cleanup, CleanupDone, cache, Return, Continue
  <2>. QED
    BY <2>1 DEF cache, EmptyUnlessDelayed, BusyUntilReturn, FlushedIsEmpty
<1>13. ASSUME AllocFail \/ ReadFail
       PROVE  FlushInv'
  BY <1>13 DEF AllocFail, ReadFail
<1>14. ASSUME PowerOff
       PROVE  FlushInv'
  BY <1>14 DEF PowerOff, Return, DirtyIsListed, EmptyUnlessDelayed, BusyUntilReturn, FlushedIsEmpty
<1>15. ASSUME UNCHANGED vars
       PROVE  FlushInv'
  BY <1>15 DEF vars, DirtyIsListed, EmptyUnlessDelayed, BusyUntilReturn, FlushedIsEmpty
<1>. QED
  BY <1>1, <1>2, <1>3, <1>4, <1>5, <1>6, <1>7, <1>8, <1>9, <1>10, <1>11, <1>12, <1>13, <1>14, <1>15
     DEF Next, Internal, External

LEMMA FlushInvariance ==
    ASSUME ~MayFail
    PROVE  Spec => []FlushInv
<1>1. Init => FlushInv
  BY DEF Init, FlushInv, DirtyIsListed, EmptyUnlessDelayed, BusyUntilReturn, FlushedIsEmpty
<1>2. IInv /\ FlushInv /\ [Next]_vars => FlushInv'
  BY NextFlushInv
<1>. QED  BY <1>1, <1>2, Invariance, PTL DEF Spec

(* WriteThrough: with write-back off, and no call in progress, nothing is  *)
(* left to write (ext4_bcache_free, ext4_block_cache_write_back).          *)
THEOREM WritesThrough == Spec => []WriteThrough
<1>1. CASE MayFail
  <2>1. WriteThrough
    BY <1>1 DEF WriteThrough
  <2>. QED  BY <2>1, PTL
<1>2. CASE ~MayFail
  <2>1. FlushInv => WriteThrough
    BY CallsDiffer DEF FlushInv, DirtyIsListed, EmptyUnlessDelayed, WriteThrough
  <2>. QED  BY <1>2, <2>1, FlushInvariance, PTL
<1>. QED  BY <1>1, <1>2

(* FlushedAll on a device that does not fail: ext4_block_cache_flush flushes *)
(* "all dirty buffers".  On one that fails it does not (bcache_flush).     *)
THEOREM FlushFlushesAll ==
    ASSUME ~MayFail
    PROVE  Spec => []FlushedAll
<1>1. FlushInv => FlushedAll
  BY DEF FlushInv, DirtyIsListed, FlushedIsEmpty, FlushedAll
<1>. QED  BY <1>1, FlushInvariance, PTL
=============================================================================
