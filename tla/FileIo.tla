------------------------------- MODULE FileIo -------------------------------
(***************************************************************************)
(* Reading, writing, seeking and truncating an open file: ext4_fread,      *)
(* ext4_fwrite, ext4_fseek and ext4_ftruncate of ext4.c, over the block    *)
(* map of an inode without extents (what mount_meta formats), direct       *)
(* blocks only.  File data goes straight to the device, past the cache.    *)
(*                                                                         *)
(* A unit stands for the bytes between two offsets that matter; a block    *)
(* has BlockSize of them.  Each device access and each turn of the loops   *)
(* that gather blocks into runs is a step.  Metadata accesses succeed (the *)
(* failures of the cache are Bcache's); allocation fails when no block is  *)
(* free, and data accesses when MayFail.                                   *)
(***************************************************************************)
EXTENDS Integers, Sequences, FiniteSets

CONSTANTS
    BlockSize,     \* units in a block
    Phys,          \* data blocks of the file system; block 0 is not one
    MaxBlocks,     \* entries of the block map, bounds the size of the file
    MaxReq,        \* bound on the length of a read or a write
    MaxWriteBack,  \* bound on cache_write_back
    Vals,          \* the caller writes <<v, p>> at position p
    Stale,         \* the device holds <<Stale, a>> at address a to begin with
    Zero,          \* a unit of a hole
    MayFail,       \* data accesses may fail
    Origins,       \* of fseek: a subset of {"SET", "CUR", "END"}
    Sparse         \* the file may have holes when it is opened

ASSUME SizesAssumption == /\ BlockSize \in Nat \ {0} /\ MaxBlocks \in Nat \ {0}
                          /\ MaxReq \in Nat \ {0} /\ MaxWriteBack \in Nat \ {0}
ASSUME PhysAssumption == Phys \subseteq Nat \ {0} /\ IsFiniteSet(Phys)
ASSUME FlagsAssumption == MayFail \in BOOLEAN /\ Sparse \in BOOLEAN

VARIABLES
    disk,              \* the units of each block
    free,              \* blocks free in the bitmap
    blk,               \* the inode's block map, 0 where there is no block
    isize,             \* the inode's size
    file,              \* ext4_file: fpos, and fsize as of the last operation
    cache_write_back,  \* bdev->cache_write_back
    call,              \* the operation in progress
    result             \* what the read that has just returned gave its caller

vars == <<disk, free, blk, isize, file, cache_write_back, call, result>>

-----------------------------------------------------------------------------
MaxSize == BlockSize * MaxBlocks
Units == ((Vals \cup {Stale}) \X Nat) \cup {Zero}
Offsets == 0..BlockSize - 1
Map == [0..MaxBlocks - 1 -> {0} \cup Phys]

(* Definitions named Bug_X are X with a plausible mistake.  No other       *)
(* definition uses them: they show which property each mistake breaks.     *)

Idle == [op |-> "none"]
Calls == [op : {"fread", "fwrite"}, pc : {"head", "gather", "direct", "tail", "fsize"},
          from : Nat, n : Nat, size : Nat, idx : Nat, fblk : {0} \cup Phys,
          start : {0} \cup Phys, count : Nat, v : Vals \cup {Stale}, data : Seq(Units), rr : BOOLEAN]

In(op, pc) == call.op = op /\ call.pc = pc

Blocks(size) == (size + BlockSize - 1) \div BlockSize

\* ext4_fs_get_inode_dblk_idx, and ..._init_..., which creates nothing here
Dblk(i) == IF isize = 0 \/ i >= MaxBlocks THEN 0 ELSE blk[i]

\* n units from offset u of block b on
ReadFrom(b, u, n) ==
    [k \in 1..n |-> disk[b + (u + k - 1) \div BlockSize][(u + k - 1) % BlockSize]]

\* The device after the units in K of the data left are stored from there on.
Stored(b, u, K) ==
    [c \in DOMAIN disk |-> [o \in Offsets |->
        LET k == (c - b) * BlockSize + o - u
        IN  IF k \in K THEN <<call.v, file.fpos + k>> ELSE disk[c][o]]]

Unaligned == file.fpos % BlockSize
Bug_HeadLen == BlockSize - Unaligned
HeadLen == IF call.size > BlockSize - Unaligned THEN BlockSize - Unaligned ELSE call.size
IblockLast == (call.from + call.n) \div BlockSize

Start(op, size, v) ==
    [op |-> op, pc |-> IF Unaligned # 0 THEN "head" ELSE "gather", from |-> file.fpos,
     n |-> size, size |-> size, idx |-> file.fpos \div BlockSize, fblk |-> 0,
     start |-> 0, count |-> 0, v |-> v, data |-> <<>>, rr |-> FALSE]

Moved(c, n) == [c EXCEPT !.size = @ - n]
Advanced(n) == [file EXCEPT !.fpos = @ + n]

\* There is a whole block to move, and a block to look up for it.
Gathering(op) == In(op, "gather") /\ call.size >= BlockSize /\ call.idx < IblockLast
RunReady(op) == \/ In(op, "direct")
                \/ In(op, "gather") /\ call.size >= BlockSize /\ call.idx >= IblockLast
RunsDone(op) == In(op, "gather") /\ call.size < BlockSize

Bug_Gathered(fblk, idx) ==
    LET s == IF call.start = 0 THEN fblk ELSE call.start
        more == s + call.count = fblk
    IN  [call EXCEPT !.idx = idx + 1, !.fblk = fblk, !.start = s,
                     !.count = @ + 1,
                     !.pc = IF more THEN "gather" ELSE "direct"]

(* One turn of the inner loop of fread and fwrite: block fblk extends the  *)
(* run or, if it does not follow on from it, ends it and is kept back.     *)
Gathered(fblk, idx) ==
    LET s == IF call.start = 0 THEN fblk ELSE call.start
        more == s + call.count = fblk
    IN  [call EXCEPT !.idx = idx + 1, !.fblk = fblk, !.start = s,
                     !.count = IF more THEN @ + 1 ELSE @,
                     !.pc = IF more THEN "gather" ELSE "direct"]

Bug_NextRun == [Moved(call, call.count * BlockSize) EXCEPT
                   !.pc = "gather", !.start = call.fblk, !.count = 0]

\* The run has been moved; the block kept back begins the next one.
NextRun == [Moved(call, call.count * BlockSize) EXCEPT
               !.pc = "gather", !.start = call.fblk, !.count = 1]

-----------------------------------------------------------------------------
Init ==
    /\ isize \in 0..MaxSize
    /\ blk \in Map
    /\ \A i, j \in 0..MaxBlocks - 1 : blk[i] = blk[j] /\ blk[i] # 0 => i = j
    /\ \A i \in 0..MaxBlocks - 1 : blk[i] # 0 => i < Blocks(isize)
    /\ ~Sparse => \A i \in 0..Blocks(isize) - 1 : blk[i] # 0
    /\ free = Phys \ {blk[i] : i \in 0..MaxBlocks - 1}
    /\ disk = [b \in {0} \cup Phys |-> [o \in Offsets |-> <<Stale, b * BlockSize + o>>]]
    /\ file = [fpos |-> 0, fsize |-> isize]
    /\ cache_write_back = 0
    /\ call = Idle
    /\ result = <<>>

\* ext4_fopen2 of the same file, at its start or (O_APPEND) at its end
Fopen(append) ==
    /\ call = Idle
    /\ file' = [fpos |-> IF append THEN isize ELSE 0, fsize |-> isize]
    /\ result' = <<>>
    /\ UNCHANGED <<disk, free, blk, isize, cache_write_back, call>>

(* ext4_fseek.  In 64 bits fsize - fpos wraps when the position is beyond  *)
(* the size the handle knows, and then bounds nothing.                     *)
Fseek(origin, off) ==
    /\ call = Idle
    /\ \/ origin = "SET" /\ off >= 0 /\ off <= file.fsize /\ file' = [file EXCEPT !.fpos = off]
       \/ /\ origin = "END" /\ off >= 0 /\ off <= file.fsize
          /\ file' = [file EXCEPT !.fpos = file.fsize - off]
       \/ /\ origin = "CUR"
          /\ off < 0 => -off <= file.fpos
          /\ off > 0 => file.fpos > file.fsize \/ off <= file.fsize - file.fpos
          /\ file.fpos + off <= MaxSize
          /\ file' = [file EXCEPT !.fpos = @ + off]
    /\ result' = <<>>
    /\ UNCHANGED <<disk, free, blk, isize, cache_write_back, call>>

\* ext4_fs_truncate_inode: the blocks from the n-th on go back to the bitmap.
Cut(n) ==
    /\ blk' = [i \in DOMAIN blk |-> IF n <= i THEN 0 ELSE blk[i]]
    /\ free' = free \cup ({blk[i] : i \in n..MaxBlocks - 1} \ {0})

Bug_Ftruncate(size) ==
    /\ call = Idle
    /\ \/ /\ size < isize
          /\ Cut(size \div BlockSize)
          /\ isize' = size
          /\ file' = [fpos |-> IF file.fpos > size THEN size ELSE file.fpos, fsize |-> size]
       \/ /\ size >= isize
          /\ file' = [file EXCEPT !.fsize = isize]
          /\ UNCHANGED <<blk, free, isize>>
    /\ result' = <<>>
    /\ UNCHANGED <<disk, cache_write_back, call>>

\* ext4_ftruncate cuts the file short, or finds that it is no longer than that.
Ftruncate(size) ==
    /\ call = Idle
    /\ \/ /\ size < isize
          /\ Cut(Blocks(size))
          /\ isize' = size
          /\ file' = [fpos |-> IF file.fpos > size THEN size ELSE file.fpos, fsize |-> size]
       \/ /\ size >= isize
          /\ file' = [file EXCEPT !.fsize = isize]
          /\ UNCHANGED <<blk, free, isize>>
    /\ result' = <<>>
    /\ UNCHANGED <<disk, cache_write_back, call>>

\* ext4_fopen2 with O_TRUNC
FopenTrunc ==
    /\ call = Idle
    /\ Cut(0)
    /\ isize' = 0
    /\ file' = [fpos |-> 0, fsize |-> 0]
    /\ result' = <<>>
    /\ UNCHANGED <<disk, cache_write_back, call>>

-----------------------------------------------------------------------------
(* ext4_fread up to its first access.  A position past the end (see Fseek) *)
(* makes fsize - fpos wrap, and then the request is not cut short.         *)
Fread(n) ==
    /\ call = Idle
    /\ file' = [file EXCEPT !.fsize = isize]
    /\ call' = Start("fread", IF file.fpos <= isize /\ isize - file.fpos < n
                              THEN isize - file.fpos ELSE n, Stale)
    /\ result' = <<>>
    /\ UNCHANGED <<disk, free, blk, isize, cache_write_back>>

\* The unaligned head; a hole reads as zeros.
ReadHead ==
    /\ In("fread", "head")
    /\ LET fblock == Dblk(call.idx)
           data == IF fblock = 0 THEN [k \in 1..HeadLen |-> Zero]
                   ELSE ReadFrom(fblock, Unaligned, HeadLen)
       IN  call' = [Moved(call, HeadLen) EXCEPT !.pc = "gather", !.idx = @ + 1,
                                                !.data = @ \o data]
    /\ file' = Advanced(HeadLen)
    /\ UNCHANGED <<disk, free, blk, isize, cache_write_back, result>>

ReadGather ==
    /\ Gathering("fread")
    /\ call' = Gathered(Dblk(call.idx), call.idx)
    /\ UNCHANGED <<disk, free, blk, isize, file, cache_write_back, result>>

ReadRun ==
    /\ RunReady("fread")
    /\ LET len == call.count * BlockSize
       IN  /\ call' = [NextRun EXCEPT !.data = @ \o ReadFrom(call.start, 0, len)]
           /\ file' = Advanced(len)
    /\ UNCHANGED <<disk, free, blk, isize, cache_write_back, result>>

\* What is left of the last block, and the return.
ReadTail ==
    /\ RunsDone("fread")
    /\ result' = call.data \o ReadFrom(Dblk(call.idx), 0, call.size)
    /\ file' = Advanced(call.size)
    /\ call' = Idle
    /\ UNCHANGED <<disk, free, blk, isize, cache_write_back>>

ReadFail ==
    /\ MayFail
    /\ \/ In("fread", "head") \/ RunReady("fread")
       \/ RunsDone("fread") /\ call.size > 0
    /\ call' = Idle
    /\ UNCHANGED <<disk, free, blk, isize, file, cache_write_back, result>>

-----------------------------------------------------------------------------
\* ext4_fwrite up to its first access; with no unaligned head the write-back
\* mode starts at once.
Fwrite(v, n) ==
    /\ call = Idle
    /\ file.fpos + n <= MaxSize
    /\ cache_write_back < MaxWriteBack
    /\ file' = [file EXCEPT !.fsize = isize]
    /\ call' = Start("fwrite", n, v)
    /\ cache_write_back' = cache_write_back + (IF Unaligned = 0 THEN 1 ELSE 0)
    /\ result' = <<>>
    /\ UNCHANGED <<disk, free, blk, isize>>

WriteHead ==
    /\ In("fwrite", "head")
    /\ disk' = Stored(Dblk(call.idx), Unaligned, 0..HeadLen - 1)
    /\ call' = [Moved(call, HeadLen) EXCEPT !.pc = "gather", !.idx = @ + 1]
    /\ file' = Advanced(HeadLen)
    /\ cache_write_back' = cache_write_back + 1
    /\ UNCHANGED <<free, blk, isize, result>>

\* A block of the file as it was when the write began ...
WriteGather ==
    /\ Gathering("fwrite")
    /\ call.idx < Blocks(file.fsize)
    /\ call' = Gathered(Dblk(call.idx), call.idx)
    /\ UNCHANGED <<disk, free, blk, isize, file, cache_write_back, result>>

Bug_AppendDblk(b) ==
    /\ free' = free \ {b}
    /\ blk' = [blk EXCEPT ![Blocks(file.fsize)] = b]
    /\ isize' = (Blocks(isize) + 1) * BlockSize

\* ext4_fs_append_inode_dblk: block b goes after the last one.
AppendDblk(b) ==
    /\ free' = free \ {b}
    /\ blk' = [blk EXCEPT ![Blocks(isize)] = b]
    /\ isize' = (Blocks(isize) + 1) * BlockSize

\* ... or a new one.
WriteAppend ==
    /\ Gathering("fwrite")
    /\ call.idx >= Blocks(file.fsize)
    /\ \E b \in free : AppendDblk(b) /\ call' = Gathered(b, Blocks(isize))
    /\ UNCHANGED <<disk, file, cache_write_back, result>>

\* No block is free: what has been gathered is still written.
AppendFail ==
    /\ Gathering("fwrite")
    /\ call.idx >= Blocks(file.fsize)
    /\ free = {}
    /\ call' = [call EXCEPT !.pc = "direct", !.rr = TRUE]
    /\ UNCHANGED <<disk, free, blk, isize, file, cache_write_back, result>>

(* The run goes to the device.  After a failed append control goes         *)
(* straight to out_fsize.                                                  *)
WriteRun ==
    /\ RunReady("fwrite")
    /\ LET len == call.count * BlockSize
       IN  /\ disk' = Stored(call.start, 0, 0..len - 1)
           /\ file' = Advanced(len)
    /\ call' = IF call.rr THEN [NextRun EXCEPT !.pc = "fsize"] ELSE NextRun
    /\ UNCHANGED <<free, blk, isize, cache_write_back, result>>

WriteRunsDone ==
    /\ RunsDone("fwrite")
    /\ call' = [call EXCEPT !.pc = "tail"]
    /\ cache_write_back' = cache_write_back - 1
    /\ UNCHANGED <<disk, free, blk, isize, file, result>>

\* The part of a block that is left: of a mapped one, or of a new one.
WriteTail ==
    /\ In("fwrite", "tail") /\ call.size > 0
    /\ \/ /\ call.idx < Blocks(file.fsize)
          /\ disk' = Stored(Dblk(call.idx), 0, 0..call.size - 1)
          /\ UNCHANGED <<free, blk, isize>>
       \/ /\ call.idx >= Blocks(file.fsize)
          /\ \E b \in free : AppendDblk(b) /\ disk' = Stored(b, 0, 0..call.size - 1)
    /\ call' = [Moved(call, call.size) EXCEPT !.pc = "fsize"]
    /\ file' = Advanced(call.size)
    /\ UNCHANGED <<cache_write_back, result>>

TailFail ==
    /\ In("fwrite", "tail") /\ call.size > 0
    /\ call.idx >= Blocks(file.fsize)
    /\ free = {}
    /\ call' = [call EXCEPT !.pc = "fsize"]
    /\ UNCHANGED <<disk, free, blk, isize, file, cache_write_back, result>>

Bug_OutFsize ==
    /\ In("fwrite", "fsize") \/ (In("fwrite", "tail") /\ call.size = 0)
    /\ file' = [file EXCEPT !.fsize = file.fpos]
    /\ isize' = file.fpos
    /\ call' = Idle
    /\ UNCHANGED <<disk, free, blk, cache_write_back, result>>

\* out_fsize, and the return: whatever happened, the result is EOK.
OutFsize ==
    /\ In("fwrite", "fsize") \/ (In("fwrite", "tail") /\ call.size = 0)
    /\ IF file.fpos > file.fsize
       THEN file' = [file EXCEPT !.fsize = file.fpos] /\ isize' = file.fpos
       ELSE UNCHANGED <<file, isize>>
    /\ call' = Idle
    /\ UNCHANGED <<disk, free, blk, cache_write_back, result>>

(* A data write failed, some of it stored: the size is left as the appends *)
(* have made it, and the write-back mode ends if it had begun.             *)
WriteFail ==
    /\ MayFail
    /\ \/ /\ In("fwrite", "head")
          /\ \E K \in SUBSET (0..HeadLen - 1) : disk' = Stored(Dblk(call.idx), Unaligned, K)
          /\ UNCHANGED <<free, blk, isize, cache_write_back>>
       \/ /\ RunReady("fwrite") /\ call.count > 0
          /\ \E K \in SUBSET (0..call.count * BlockSize - 1) : disk' = Stored(call.start, 0, K)
          /\ cache_write_back' = cache_write_back - 1
          /\ UNCHANGED <<free, blk, isize>>
       \/ /\ In("fwrite", "tail") /\ call.size > 0 /\ call.idx < Blocks(file.fsize)
          /\ \E K \in SUBSET (0..call.size - 1) : disk' = Stored(Dblk(call.idx), 0, K)
          /\ UNCHANGED <<free, blk, isize, cache_write_back>>
       \/ /\ In("fwrite", "tail") /\ call.size > 0 /\ call.idx >= Blocks(file.fsize)
          /\ \E b \in free, K \in SUBSET (0..call.size - 1) :
                AppendDblk(b) /\ disk' = Stored(b, 0, K)
          /\ UNCHANGED cache_write_back
    /\ call' = Idle
    /\ UNCHANGED <<file, result>>

-----------------------------------------------------------------------------
Internal ==
    \/ ReadHead \/ ReadGather \/ ReadRun \/ ReadTail \/ ReadFail
    \/ WriteHead \/ WriteGather \/ WriteAppend \/ AppendFail \/ WriteRun \/ WriteRunsDone
    \/ WriteTail \/ TailFail \/ OutFsize \/ WriteFail

External ==
    \/ \E append \in BOOLEAN : Fopen(append)
    \/ FopenTrunc
    \/ \E origin \in Origins, off \in -MaxSize..MaxSize : Fseek(origin, off)
    \/ \E size \in 0..MaxSize : Ftruncate(size)
    \/ \E n \in 1..MaxReq : Fread(n) \/ \E v \in Vals : Fwrite(v, n)

Next == Internal \/ External

Spec == Init /\ [][Next]_vars
FairSpec == Spec /\ WF_vars(Internal)

-----------------------------------------------------------------------------
TypeOK ==
    /\ disk \in [{0} \cup Phys -> [Offsets -> Units]]
    /\ free \subseteq Phys
    /\ blk \in Map
    /\ isize \in 0..MaxSize
    /\ file \in [fpos : 0..MaxSize, fsize : 0..MaxSize]
    /\ cache_write_back \in 0..MaxWriteBack
    /\ call \in Calls \cup {Idle}
    /\ result \in Seq(Units)

(* The bitmap and the block map agree: no block is in the file twice, or   *)
(* in it and free, and none is lost, whatever append or write has failed.  *)
BlocksAccounted ==
    /\ \A i, j \in DOMAIN blk : blk[i] = blk[j] /\ blk[i] # 0 => i = j
    /\ free = Phys \ {blk[i] : i \in DOMAIN blk}

(* The blocks below the size are mapped and the others are not: a write or *)
(* a truncation makes neither a hole nor a block that nothing will free.   *)
SizeMatchesMap == \A i \in DOMAIN blk : blk[i] # 0 <=> i < Blocks(isize)

(* File data is written past the cache, so nothing but the block map keeps *)
(* it off the boot block, the metadata and the other files.                *)
OnlyOwnBlocksWritten ==
    [][ \A b \in DOMAIN disk : disk'[b] # disk[b] => b # 0 /\ \E i \in DOMAIN blk : blk'[i] = b ]_vars

(* Every read and write ends: each turn of the loops makes progress.       *)
CallsReturn == call # Idle ~> call = Idle

(* ext4.h:258-261 and :229-233: the functions that use write-back mode     *)
(* internally leave it as they found it, or "data is flushed to physical   *)
(* drive" no longer holds of the calls that follow.                        *)
WriteBackBalanced == call = Idle => cache_write_back = 0

Content(size) ==
    [i \in 1..size |-> LET b == Dblk((i - 1) \div BlockSize)
                       IN  IF b = 0 THEN Zero ELSE disk[b][(i - 1) % BlockSize]]

(* A read that succeeds returns what the file contains, holes read as the  *)
(* zeros of the head's case ("Do we get an unwritten range?", ext4.c:1742). *)
ReadsContent ==
    [][ call # Idle /\ call' = Idle /\ result' # result
          => result' = SubSeq(Content(isize), call.from + 1, call.from + call.n) ]_vars

(* The file keeps the promises of ByteFile, its blocks wherever they are:  *)
(* reads and writes across block boundaries, unaligned, growing, short of  *)
(* space or interrupted by errors.                                         *)
Writing == call.op = "fwrite"
Size == IF ~Writing THEN isize ELSE IF file.fpos > file.fsize THEN file.fpos ELSE file.fsize
Contents == Content(Size)
Position == IF call.op = "fread" THEN call.from ELSE file.fpos
Todo == IF Writing THEN [k \in 1..call.size |-> <<call.v, file.fpos + k - 1>>] ELSE <<>>
ByteFile == INSTANCE ByteFile WITH
    content <- Contents, writing <- Writing, pos <- Position, todo <- Todo
FileSpec == ByteFile!Spec
=============================================================================
