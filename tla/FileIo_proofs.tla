----------------------------- MODULE FileIo_proofs -----------------------------
(***************************************************************************)
(* What FileIo promises of the block map and of the device, for any block  *)
(* size, any number of blocks and any requests, and whatever fails.        *)
(*                                                                         *)
(* The invariants are not inductive.  That an appended block goes where    *)
(* the map has none, and that a run is written to the blocks that were     *)
(* gathered for it, depends on how far the loop has come: the index        *)
(* ext4_fwrite looks up is as many blocks beyond its position as it has    *)
(* gathered (RunAt), and the size it has given the inode is that of the    *)
(* blocks up to the index (Grown).                                         *)
(*                                                                         *)
(* The second part proves that the file is a sequence of units wherever    *)
(* its blocks are (FileIsByteFile): what a run of blocks is read or        *)
(* written at is where the content has it (ReadFromIs, StoredCells), and   *)
(* so each step of FileIo is one of ByteFile or changes nothing in it.     *)
(***************************************************************************)
EXTENDS FileIo, SequenceTheorems, TLAPS

\* The file has no holes, and the position is not moved past the end by an
\* ext4_fseek that takes its bounds from a handle a failed write left behind.
Regular == ~Sparse /\ ("CUR" \in Origins => ~MayFail)

\* The run begins at block p of the file, where the position is.
RunAt(p) ==
    /\ p \in Nat /\ file.fpos = p * BlockSize
    /\ call.count * BlockSize <= call.size
    /\ call.start = 0 <=> call.count = 0
    /\ \A c \in 0..call.count - 1 : blk[p + c] = call.start + c

HeadInv == call.pc = "head" =>
    /\ call.idx * BlockSize < file.fpos /\ file.fpos < (call.idx + 1) * BlockSize
    /\ call.count = 0 /\ call.start = 0 /\ file.fpos <= isize

GatherInv == call.pc = "gather" /\ call.size >= BlockSize => RunAt(call.idx - call.count)

\* The block that ended the run is kept back, unless there is none.
DirectInv == call.pc = "direct" =>
    IF call.rr THEN RunAt(call.idx - call.count)
    ELSE /\ RunAt(call.idx - call.count - 1) /\ call.count > 0
         /\ (call.count + 1) * BlockSize <= call.size
         /\ call.fblk # 0 /\ call.fblk = blk[call.idx - 1]

TailInv ==
    /\ call.pc \in {"gather", "tail"} /\ 0 < call.size /\ call.size < BlockSize
        => file.fpos = call.idx * BlockSize
    /\ call.pc = "tail" => call.size < BlockSize

\* The size that out_fsize would store is that of the mapped blocks.
AtEnd == file.fsize <= isize /\ (file.fpos > file.fsize => Blocks(file.fpos) = Blocks(isize))

Grown == IF call.idx <= Blocks(file.fsize) THEN isize = file.fsize ELSE isize = call.idx * BlockSize

ReadInv == call.op = "fread" =>
    /\ call.pc \in {"head", "gather", "direct"} /\ ~call.rr
    /\ file.fsize = isize /\ file.fpos + call.size <= isize

WriteInv == call.op = "fwrite" =>
    /\ file.fpos + call.size <= MaxSize
    /\ call.pc # "fsize" => Grown
    /\ call.rr => call.pc \in {"direct", "fsize"}
    /\ call.pc \in {"gather", "direct"} => cache_write_back >= 1
    /\ call.pc = "head" => cache_write_back < MaxWriteBack
    /\ (call.pc \in {"gather", "tail"} /\ call.size = 0) \/ call.pc = "fsize" => AtEnd

CallInv ==
    /\ call.from + call.n = file.fpos + call.size /\ call.size \in Nat
    /\ HeadInv /\ GatherInv /\ DirectInv /\ TailInv /\ ReadInv /\ WriteInv

IdleInv ==
    /\ file.fpos <= isize /\ file.fsize <= isize
    /\ "CUR" \in Origins => file.fpos <= file.fsize

IInv ==
    /\ TypeOK /\ BlocksAccounted /\ SizeMatchesMap
    /\ IF call = Idle THEN IdleInv ELSE CallInv

-----------------------------------------------------------------------------
(* Arithmetic with a block size that is not known.                         *)
LEMMA Scale ==
    ASSUME NEW a \in Int, NEW b \in Int
    PROVE  /\ a * BlockSize \in Int /\ (a + 1) * BlockSize = a * BlockSize + BlockSize
           /\ a <= b => a * BlockSize <= b * BlockSize
           /\ a < b <=> a * BlockSize < b * BlockSize
           /\ a < b => a * BlockSize + BlockSize <= b * BlockSize
           /\ (b - a) * BlockSize = b * BlockSize - a * BlockSize
           /\ (a + b) * BlockSize = b * BlockSize + a * BlockSize
<1>1. BlockSize \in Nat /\ BlockSize > 0
  BY SizesAssumption
<1>2. ASSUME NEW d \in Nat
      PROVE  d * BlockSize >= 0 /\ (d > 0 => d * BlockSize >= BlockSize)
  BY <1>1
<1>3. CASE a <= b
  <2>1. (b - a) * BlockSize >= 0 /\ (b - a > 0 => (b - a) * BlockSize >= BlockSize)
    BY <1>2, <1>3
  <2>. QED  BY <1>1, <1>3, <2>1
<1>4. CASE b < a
  <2>1. (a - b) * BlockSize >= BlockSize
    BY <1>2, <1>4
  <2>. QED  BY <1>1, <1>4, <2>1
<1>. QED  BY <1>3, <1>4

LEMMA ScaleLess ==
    ASSUME NEW a \in Int, NEW b \in Int, a * BlockSize < b * BlockSize
    PROVE  a < b
BY Scale

LEMMA ScaleLeq ==
    ASSUME NEW a \in Int, NEW b \in Int, a <= b
    PROVE  a * BlockSize <= b * BlockSize
BY Scale

LEMMA DivMod ==
    ASSUME NEW a \in Nat
    PROVE  /\ a \div BlockSize \in Nat /\ a % BlockSize \in 0..BlockSize - 1
           /\ a = (a \div BlockSize) * BlockSize + (a % BlockSize)
BY SizesAssumption

LEMMA DivIs ==
    ASSUME NEW a \in Nat, NEW k \in Int,
           k * BlockSize <= a, a < k * BlockSize + BlockSize
    PROVE  a \div BlockSize = k /\ a % BlockSize = a - k * BlockSize
<1>. DEFINE q == a \div BlockSize
<1>1. q \in Nat /\ BlockSize \in Nat /\ q * BlockSize <= a /\ a < q * BlockSize + BlockSize
      /\ a % BlockSize = a - q * BlockSize
  BY DivMod, SizesAssumption
<1>. HIDE DEF q
<1>2. /\ q < k => q * BlockSize + BlockSize <= k * BlockSize
      /\ k < q => k * BlockSize + BlockSize <= q * BlockSize
  BY <1>1, Scale
<1>3. k * BlockSize \in Int /\ q * BlockSize \in Int
  BY <1>1
<1>4. q = k
  BY <1>1, <1>2, <1>3
<1>. QED  BY <1>1, <1>4 DEF q

LEMMA BlocksOf ==
    ASSUME NEW s \in Nat
    PROVE  /\ Blocks(s) \in Nat
           /\ s <= Blocks(s) * BlockSize /\ Blocks(s) * BlockSize < s + BlockSize
<1>1. BlockSize \in Nat /\ BlockSize > 0 /\ s + BlockSize - 1 \in Nat
  BY SizesAssumption
<1>. QED  BY <1>1, DivMod DEF Blocks

LEMMA BlocksIs ==
    ASSUME NEW s \in Nat, NEW k \in Int, s <= k * BlockSize, k * BlockSize < s + BlockSize
    PROVE  Blocks(s) = k
<1>1. BlockSize \in Nat /\ BlockSize > 0 /\ s + BlockSize - 1 \in Nat /\ k * BlockSize \in Int
  BY SizesAssumption
<1>2. k * BlockSize <= s + BlockSize - 1 /\ s + BlockSize - 1 < k * BlockSize + BlockSize
  BY <1>1
<1>. QED  BY <1>1, <1>2, DivIs DEF Blocks

-----------------------------------------------------------------------------
(* The block map.                                                          *)
MapOK ==
    /\ free \subseteq Phys /\ blk \in Map /\ isize \in 0..MaxSize
    /\ BlocksAccounted /\ SizeMatchesMap

LEMMA SizeFacts ==
    ASSUME NEW s \in 0..MaxSize
    PROVE  s \in Nat /\ Blocks(s) \in 0..MaxBlocks
<1>1. MaxBlocks \in Nat /\ BlockSize \in Nat /\ MaxSize = MaxBlocks * BlockSize /\ MaxSize \in Nat
  BY SizesAssumption DEF MaxSize
<1>2. s \in Nat /\ Blocks(s) \in Nat /\ Blocks(s) * BlockSize < s + BlockSize
  BY <1>1, BlocksOf
<1>. DEFINE b == Blocks(s)
            x == b * BlockSize
            m == MaxBlocks * BlockSize
<1>. HIDE DEF b
<1>3. ~(MaxBlocks < b)
  <2>1. MaxBlocks < b => m + BlockSize <= x
    <3>1. b \in Int /\ MaxBlocks \in Int
      BY <1>1, <1>2 DEF b
    <3>. QED  BY <3>1, Scale, Zenon DEF x, m
  <2>2. x \in Int /\ m \in Int /\ s <= m /\ x < s + BlockSize
    BY <1>1, <1>2 DEF b
  <2>. HIDE DEF x, m
  <2>. QED  BY <1>1, <1>2, <2>1, <2>2
<1>. USE DEF b
<1>. QED  BY <1>1, <1>2, <1>3

LEMMA MapFacts ==
    ASSUME MapOK
    PROVE  /\ DOMAIN blk = 0..MaxBlocks - 1 /\ Blocks(isize) \in 0..MaxBlocks
           /\ \A i \in 0..MaxBlocks - 1 :
                /\ blk[i] \in {0} \cup Phys /\ Dblk(i) = blk[i]
                /\ blk[i] # 0 <=> i < Blocks(isize)
<1>1. DOMAIN blk = 0..MaxBlocks - 1 /\ Blocks(isize) \in 0..MaxBlocks /\ MaxBlocks \in Nat
  BY SizeFacts, SizesAssumption DEF MapOK, Map
<1>2. ASSUME NEW i \in 0..MaxBlocks - 1
      PROVE  blk[i] \in {0} \cup Phys /\ (blk[i] # 0 <=> i < Blocks(isize))
  BY <1>1 DEF MapOK, Map, SizeMatchesMap
<1>3. isize = 0 => Blocks(isize) = 0
  BY BlocksIs, SizesAssumption
<1>4. ASSUME NEW i \in 0..MaxBlocks - 1 PROVE Dblk(i) = blk[i]
  BY <1>1, <1>2, <1>3 DEF Dblk
<1>. QED  BY <1>1, <1>2, <1>4

\* A block that is appended goes where there was none, and is no other block of the file.
LEMMA AppendOK ==
    ASSUME MapOK, NEW b \in free, AppendDblk(b), Blocks(isize) < MaxBlocks
    PROVE  /\ MapOK' /\ isize' = (Blocks(isize) + 1) * BlockSize
           /\ b \in Phys /\ b # 0 /\ blk'[Blocks(isize)] = b
           /\ \A i \in 0..MaxBlocks - 1 : i # Blocks(isize) => blk'[i] = blk[i]
<1>. DEFINE m == Blocks(isize)
<1>1. /\ m \in Nat /\ m < MaxBlocks /\ MaxBlocks \in Nat /\ DOMAIN blk = 0..MaxBlocks - 1
      /\ b \in Phys /\ b # 0 /\ blk[m] = 0 /\ BlockSize \in Nat /\ BlockSize > 0
  BY MapFacts, SizesAssumption, PhysAssumption DEF MapOK
<1>2. /\ free' = free \ {b} /\ blk' = [blk EXCEPT ![m] = b] /\ isize' = (m + 1) * BlockSize
  BY DEF AppendDblk
<1>. HIDE DEF m
<1>3. /\ blk'[m] = b /\ DOMAIN blk' = DOMAIN blk
      /\ \A i \in DOMAIN blk : i # m => blk'[i] = blk[i]
  BY <1>1, <1>2
<1>4. blk' \in Map /\ free' \subseteq Phys
  BY <1>1, <1>2 DEF MapOK, Map
<1>5. isize' \in 0..MaxSize /\ Blocks(isize') = m + 1
  <2>1. (m + 1) * BlockSize <= MaxBlocks * BlockSize /\ (m + 1) * BlockSize \in Nat
    BY <1>1, Scale
  <2>. QED  BY <1>1, <1>2, <2>1, BlocksIs DEF MaxSize
<1>6. \A i \in DOMAIN blk : blk[i] # b
  BY DEF MapOK, BlocksAccounted
<1>7. \A i, j \in DOMAIN blk' : blk'[i] = blk'[j] /\ blk'[i] # 0 => i = j
  BY <1>3, <1>6 DEF MapOK, BlocksAccounted
<1>8. free' = Phys \ {blk'[i] : i \in DOMAIN blk'}
  <2>1. free = Phys \ {blk[i] : i \in DOMAIN blk}
    BY DEF MapOK, BlocksAccounted
  <2>2. ASSUME NEW c \in Phys
        PROVE  (\E i \in DOMAIN blk' : blk'[i] = c) <=> c = b \/ \E i \in DOMAIN blk : blk[i] = c
    <3>1. c # 0
      BY PhysAssumption
    <3>. QED  BY <1>1, <1>3, <3>1
  <2>. QED  BY <1>2, <2>1, <2>2
<1>9. SizeMatchesMap'
  <2>1. ASSUME NEW i \in DOMAIN blk PROVE blk'[i] # 0 <=> i < m + 1
    BY <1>1, <1>3, MapFacts DEF m
  <2>. QED  BY <1>3, <1>5, <2>1 DEF SizeMatchesMap
<1>. QED
  BY <1>1, <1>2, <1>3, <1>4, <1>5, <1>7, <1>8, <1>9 DEF MapOK, BlocksAccounted, m

\* What is cut off the end goes back to the bitmap.
LEMMA CutOK ==
    ASSUME MapOK, NEW s \in 0..MaxSize, s <= isize, Cut(Blocks(s)), isize' = s
    PROVE  MapOK'
<1>. DEFINE n == Blocks(s)
<1>1. /\ n \in 0..MaxBlocks /\ MaxBlocks \in Nat /\ DOMAIN blk = 0..MaxBlocks - 1
  BY MapFacts, SizesAssumption, SizeFacts
<1>2. /\ blk' = [i \in DOMAIN blk |-> IF n <= i THEN 0 ELSE blk[i]]
      /\ free' = free \cup ({blk[i] : i \in n..MaxBlocks - 1} \ {0})
  BY DEF Cut
<1>3. n <= Blocks(isize)
  <2>1. s \in Nat /\ isize \in Nat
    BY SizeFacts DEF MapOK
  <2>2. /\ Blocks(isize) \in Nat /\ n \in Nat
        /\ isize <= Blocks(isize) * BlockSize /\ n * BlockSize < s + BlockSize
    BY <2>1, BlocksOf
  <2>. HIDE DEF n
  <2>3. Blocks(isize) < n => Blocks(isize) * BlockSize + BlockSize <= n * BlockSize
    BY <2>2, Scale
  <2>4. n * BlockSize \in Int /\ Blocks(isize) * BlockSize \in Int /\ BlockSize \in Nat
    BY <2>2, SizesAssumption
  <2>. QED  BY <2>1, <2>2, <2>3, <2>4
<1>. HIDE DEF n
<1>4. /\ blk' \in Map /\ DOMAIN blk' = DOMAIN blk
      /\ \A i \in DOMAIN blk : blk'[i] = IF n <= i THEN 0 ELSE blk[i]
  BY <1>1, <1>2 DEF MapOK, Map
<1>5. \A i \in n..MaxBlocks - 1 : blk[i] \in {0} \cup Phys
  BY <1>1, MapFacts
<1>6. free' \subseteq Phys
  BY <1>2, <1>5 DEF MapOK
<1>7. \A i, j \in DOMAIN blk' : blk'[i] = blk'[j] /\ blk'[i] # 0 => i = j
  BY <1>4 DEF MapOK, BlocksAccounted
<1>8. free' = Phys \ {blk'[i] : i \in DOMAIN blk'}
  <2>1. free = Phys \ {blk[i] : i \in DOMAIN blk}
    BY DEF MapOK, BlocksAccounted
  <2>2. \A i, j \in DOMAIN blk : blk[i] = blk[j] /\ blk[i] # 0 => i = j
    BY DEF MapOK, BlocksAccounted
  <2>3. ASSUME NEW c \in Phys
        PROVE  c \in free' <=> ~\E i \in DOMAIN blk' : blk'[i] = c
    <3>1. c # 0
      BY PhysAssumption
    <3>2. (\E i \in DOMAIN blk' : blk'[i] = c) <=> \E i \in DOMAIN blk : i < n /\ blk[i] = c
      BY <1>1, <1>4, <3>1
    <3>3. c \in free' <=> c \in free \/ \E i \in n..MaxBlocks - 1 : blk[i] = c
      BY <1>2, <3>1
    <3>4. \A i \in n..MaxBlocks - 1 : i \in DOMAIN blk /\ ~(i < n)
      BY <1>1
    <3>5. \A i \in DOMAIN blk : ~(i < n) => i \in n..MaxBlocks - 1
      BY <1>1
    <3>6. c \in free <=> ~\E i \in DOMAIN blk : blk[i] = c
      BY <2>1
    <3>. QED  BY <2>2, <3>1, <3>2, <3>3, <3>4, <3>5, <3>6
  <2>. QED  BY <1>6, <2>3
<1>9. SizeMatchesMap'
  <2>1. ASSUME NEW i \in DOMAIN blk PROVE blk'[i] # 0 <=> i < n
    BY <1>1, <1>3, <1>4, MapFacts
  <2>. QED  BY <1>4, <2>1 DEF SizeMatchesMap, n
<1>. QED
  BY <1>4, <1>6, <1>7, <1>8, <1>9 DEF MapOK, BlocksAccounted

-----------------------------------------------------------------------------
(* The steps of a caller.                                                  *)
Files == [fpos : 0..MaxSize, fsize : 0..MaxSize]
Disks == [{0} \cup Phys -> [Offsets -> Units]]

LEMMA Constants ==
    /\ BlockSize \in Nat /\ BlockSize > 0 /\ MaxBlocks \in Nat /\ MaxSize \in Nat
    /\ MaxSize = MaxBlocks * BlockSize /\ MaxWriteBack \in Nat
BY SizesAssumption DEF MaxSize

LEMMA Parts ==
    ASSUME IInv
    PROVE  /\ MapOK /\ disk \in Disks /\ file \in Files /\ cache_write_back \in 0..MaxWriteBack
           /\ call \in Calls \cup {Idle} /\ result \in Seq(Units)
           /\ file.fpos \in Nat /\ file.fsize \in Nat /\ isize \in Nat
           /\ file.fpos <= MaxSize /\ file.fsize <= MaxSize /\ isize <= MaxSize
BY Constants DEF IInv, TypeOK, MapOK, Files, Disks

LEMMA Whole ==
    ASSUME MapOK', disk' \in Disks, file' \in Files, cache_write_back' \in 0..MaxWriteBack,
           result' \in Seq(Units),
           \/ call' = Idle /\ IdleInv'
           \/ call' \in Calls /\ call' # Idle /\ CallInv'
    PROVE  IInv'
BY DEF IInv, TypeOK, MapOK, Files, Disks

LEMMA NoResult == <<>> \in Seq(Units)
OBVIOUS

LEMMA FopenStep ==
    ASSUME IInv, NEW append \in BOOLEAN, Fopen(append)
    PROVE  IInv'
<1>1. file' = [fpos |-> IF append THEN isize ELSE 0, fsize |-> isize]
      /\ call' = Idle /\ result' = <<>> /\ UNCHANGED <<disk, free, blk, isize, cache_write_back>>
  BY DEF Fopen
<1>2. file' \in Files /\ IdleInv'
  BY <1>1, Parts, Constants DEF Files, IdleInv
<1>3. MapOK'
  BY <1>1, Parts DEF MapOK, BlocksAccounted, SizeMatchesMap, Blocks
<1>. QED  BY <1>1, <1>2, <1>3, Parts, NoResult, Whole

LEMMA FseekStep ==
    ASSUME IInv, NEW origin \in Origins, NEW off \in Int, Fseek(origin, off), Regular
    PROVE  IInv'
<1>1. /\ call = Idle /\ call' = Idle /\ result' = <<>>
      /\ UNCHANGED <<disk, free, blk, isize, cache_write_back>>
  BY DEF Fseek
<1>2. /\ IdleInv /\ file \in Files /\ file.fpos \in Nat /\ file.fsize \in Nat /\ isize \in Nat
      /\ file.fsize <= MaxSize /\ file.fpos <= MaxSize
  BY <1>1, Parts DEF IInv
<1>5. ASSUME NEW p \in 0..MaxSize, file' = [file EXCEPT !.fpos = p],
             p <= isize, "CUR" \in Origins => p <= file.fsize
      PROVE  file' \in Files /\ IdleInv'
  <2>1. file' \in Files /\ file'.fpos = p /\ file'.fsize = file.fsize
    BY <1>2, <1>5 DEF Files
  <2>. QED  BY <1>1, <1>2, <1>5, <2>1 DEF IdleInv
<1>3. file' \in Files /\ IdleInv'
  <2>1. CASE origin = "SET" /\ off >= 0 /\ off <= file.fsize /\ file' = [file EXCEPT !.fpos = off]
    <3>1. off \in 0..MaxSize /\ off <= isize
      BY <1>2, <2>1, Constants DEF IdleInv
    <3>. QED  BY <1>5, <2>1, <3>1
  <2>2. CASE origin = "END" /\ off >= 0 /\ off <= file.fsize
             /\ file' = [file EXCEPT !.fpos = file.fsize - off]
    <3>1. file.fsize - off \in 0..MaxSize /\ file.fsize - off <= isize /\ file.fsize - off <= file.fsize
      BY <1>2, <2>2, Constants DEF IdleInv
    <3>. QED  BY <1>5, <2>2, <3>1
  <2>3. CASE /\ origin = "CUR"
             /\ off < 0 => -off <= file.fpos
             /\ off > 0 => file.fpos > file.fsize \/ off <= file.fsize - file.fpos
             /\ file.fpos + off <= MaxSize
             /\ file' = [file EXCEPT !.fpos = @ + off]
    <3>1. "CUR" \in Origins /\ file' = [file EXCEPT !.fpos = file.fpos + off]
      BY <2>3
    <3>2. /\ file.fpos + off \in 0..MaxSize /\ file.fpos + off <= isize
          /\ file.fpos + off <= file.fsize
      BY <1>2, <2>3, <3>1, Constants DEF IdleInv
    <3>. QED  BY <1>5, <3>1, <3>2
  <2>. QED  BY <2>1, <2>2, <2>3, Zenon DEF Fseek
<1>4. MapOK'
  BY <1>1, Parts DEF MapOK, BlocksAccounted, SizeMatchesMap, Blocks
<1>. QED  BY <1>1, <1>3, <1>4, Parts, NoResult, Whole

LEMMA FtruncateStep ==
    ASSUME IInv, NEW size \in 0..MaxSize, Ftruncate(size)
    PROVE  IInv'
<1>1. call = Idle /\ call' = Idle /\ result' = <<>> /\ UNCHANGED <<disk, cache_write_back>>
  BY DEF Ftruncate
<1>2. IdleInv /\ MapOK /\ file \in Files /\ file.fpos \in Nat /\ isize \in 0..MaxSize
  BY <1>1, Parts DEF IInv, MapOK
<1>3. MapOK' /\ file' \in Files /\ IdleInv'
  <2>1. CASE /\ size < isize /\ Cut(Blocks(size)) /\ isize' = size
             /\ file' = [fpos |-> IF file.fpos > size THEN size ELSE file.fpos, fsize |-> size]
    <3>1. MapOK'
      BY <1>2, <2>1, CutOK, Constants
    <3>. QED  BY <1>2, <2>1, <3>1, Constants DEF Files, IdleInv
  <2>2. CASE /\ size >= isize /\ file' = [file EXCEPT !.fsize = isize]
             /\ UNCHANGED <<blk, free, isize>>
    <3>1. MapOK'
      BY <1>2, <2>2 DEF MapOK, BlocksAccounted, SizeMatchesMap, Blocks
    <3>. QED  BY <1>2, <2>2, <3>1, Constants DEF Files, IdleInv
  <2>. QED  BY <2>1, <2>2, Zenon DEF Ftruncate
<1>. QED  BY <1>1, <1>3, Parts, NoResult, Whole

LEMMA FopenTruncStep ==
    ASSUME IInv, FopenTrunc
    PROVE  IInv'
<1>1. /\ call' = Idle /\ result' = <<>> /\ UNCHANGED <<disk, cache_write_back>>
      /\ Cut(0) /\ isize' = 0 /\ file' = [fpos |-> 0, fsize |-> 0]
  BY DEF FopenTrunc
<1>2. Blocks(0) = 0
  BY BlocksIs, Constants
<1>3. MapOK'
  BY <1>1, <1>2, Parts, CutOK, Constants
<1>4. file' \in Files /\ IdleInv'
  BY <1>1, Constants DEF Files, IdleInv
<1>. QED  BY <1>1, <1>3, <1>4, Parts, NoResult, Whole

LEMMA StartOK ==
    ASSUME IInv, call = Idle, NEW op \in {"fread", "fwrite"}, NEW size \in Nat,
           NEW v \in Vals \cup {Stale},
           call' = Start(op, size, v), file' = [file EXCEPT !.fsize = isize],
           UNCHANGED <<disk, free, blk, isize>>
    PROVE  /\ MapOK' /\ disk' \in Disks /\ file' \in Files
           /\ file'.fpos = file.fpos /\ file'.fsize = isize /\ file.fpos <= isize
           /\ call' \in Calls /\ call' # Idle
           /\ call'.op = op /\ call'.size = size /\ ~call'.rr
           /\ call'.pc = IF Unaligned # 0 THEN "head" ELSE "gather"
           /\ call'.idx \in Nat /\ call'.idx <= Blocks(isize)
           /\ call'.from + call'.n = file'.fpos + size
           /\ HeadInv' /\ GatherInv' /\ DirectInv' /\ TailInv'
<1>. DEFINE q == file.fpos \div BlockSize
            u == file.fpos % BlockSize
<1>1. /\ file \in Files /\ file.fpos \in Nat /\ isize \in Nat /\ IdleInv /\ isize \in 0..MaxSize
  BY Parts DEF IInv, MapOK
<1>2. q \in Nat /\ u \in 0..BlockSize - 1 /\ file.fpos = q * BlockSize + u
  BY <1>1, DivMod
<1>3. /\ call'.op = op /\ call'.size = size /\ call'.rr = FALSE /\ call'.from = file.fpos
      /\ call'.n = size /\ call'.idx = q /\ call'.count = 0 /\ call'.start = 0
      /\ call'.pc = IF u # 0 THEN "head" ELSE "gather"
  BY DEF Start, Unaligned
<1>4. file' \in Files /\ file'.fpos = file.fpos /\ file'.fsize = isize /\ file.fpos <= isize
  BY <1>1 DEF Files, IdleInv
<1>5. call' \in Calls /\ call' # Idle
  <2>1. call' \in Calls
    BY <1>1, <1>2 DEF Start, Calls, Unaligned
  <2>. QED  BY <1>3, <2>1 DEF Idle
<1>. HIDE DEF q, u
<1>6. q <= Blocks(isize)
  <2>1. Blocks(isize) \in Nat /\ isize <= Blocks(isize) * BlockSize
    BY <1>1, BlocksOf
  <2>2. q * BlockSize <= isize
    BY <1>1, <1>2, <1>4, Constants
  <2>3. Blocks(isize) < q => Blocks(isize) * BlockSize < q * BlockSize
    BY <1>2, <2>1, Scale
  <2>. QED  BY <1>1, <1>2, <2>1, <2>2, <2>3, Constants
<1>7. MapOK'
  BY Parts DEF MapOK, BlocksAccounted, SizeMatchesMap, Blocks
<1>8. (q + 1) * BlockSize = q * BlockSize + BlockSize
  BY <1>2, Constants
<1>9. HeadInv' /\ GatherInv' /\ DirectInv' /\ TailInv'
  <2>1. HeadInv'
    BY <1>2, <1>3, <1>4, <1>8, Constants DEF HeadInv
  <2>2. GatherInv'
    BY <1>2, <1>3, <1>4, Constants DEF GatherInv, RunAt
  <2>3. DirectInv' /\ TailInv'
    BY <1>2, <1>3, <1>4, Constants DEF DirectInv, TailInv
  <2>. QED  BY <2>1, <2>2, <2>3
<1>10. call'.pc = IF Unaligned # 0 THEN "head" ELSE "gather"
  BY <1>3 DEF Unaligned, u
<1>. QED
  BY <1>1, <1>2, <1>3, <1>4, <1>5, <1>6, <1>7, <1>9, <1>10, Parts

LEMMA FreadStep ==
    ASSUME IInv, NEW n \in 1..MaxReq, Fread(n)
    PROVE  IInv'
<1>. DEFINE size == IF file.fpos <= isize /\ isize - file.fpos < n THEN isize - file.fpos ELSE n
<1>1. /\ call = Idle /\ call' = Start("fread", size, Stale) /\ result' = <<>>
      /\ file' = [file EXCEPT !.fsize = isize] /\ UNCHANGED <<disk, free, blk, isize, cache_write_back>>
  BY DEF Fread
<1>2. IdleInv /\ file.fpos \in Nat /\ isize \in Nat
  BY <1>1, Parts DEF IInv
<1>3. size \in Nat /\ file.fpos + size <= isize
  BY <1>2, SizesAssumption DEF IdleInv
<1>. HIDE DEF size
<1>4. /\ MapOK' /\ disk' \in Disks /\ file' \in Files
      /\ file'.fpos = file.fpos /\ file'.fsize = isize
      /\ call' \in Calls /\ call' # Idle
      /\ call'.op = "fread" /\ call'.size = size /\ ~call'.rr
      /\ call'.pc \in {"head", "gather"}
      /\ call'.from + call'.n = file'.fpos + size
      /\ HeadInv' /\ GatherInv' /\ DirectInv' /\ TailInv'
  BY <1>1, <1>3, StartOK, Zenon
<1>5. CallInv'
  BY <1>1, <1>3, <1>4 DEF CallInv, ReadInv, WriteInv
<1>. QED  BY <1>1, <1>4, <1>5, Parts, NoResult, Whole

LEMMA FwriteStep ==
    ASSUME IInv, NEW n \in 1..MaxReq, NEW v \in Vals, Fwrite(v, n)
    PROVE  IInv'
<1>1. /\ call = Idle /\ call' = Start("fwrite", n, v) /\ result' = <<>>
      /\ file' = [file EXCEPT !.fsize = isize] /\ UNCHANGED <<disk, free, blk, isize>>
      /\ file.fpos + n <= MaxSize /\ cache_write_back < MaxWriteBack
      /\ cache_write_back' = cache_write_back + (IF Unaligned = 0 THEN 1 ELSE 0)
  BY DEF Fwrite
<1>2. n \in Nat /\ n > 0
  BY SizesAssumption
<1>3. /\ MapOK' /\ disk' \in Disks /\ file' \in Files
      /\ file'.fpos = file.fpos /\ file'.fsize = isize
      /\ call' \in Calls /\ call' # Idle
      /\ call'.op = "fwrite" /\ call'.size = n /\ ~call'.rr
      /\ call'.pc = IF Unaligned # 0 THEN "head" ELSE "gather"
      /\ call'.idx \in Nat /\ call'.idx <= Blocks(isize)
      /\ call'.from + call'.n = file'.fpos + n
      /\ HeadInv' /\ GatherInv' /\ DirectInv' /\ TailInv'
  BY <1>1, <1>2, StartOK, Zenon
<1>4. /\ cache_write_back' \in 0..MaxWriteBack
      /\ call'.pc = "gather" => cache_write_back' >= 1
      /\ call'.pc = "head" => cache_write_back' < MaxWriteBack
  <2>1. cache_write_back \in 0..MaxWriteBack /\ MaxWriteBack \in Nat
    BY Parts, Constants
  <2>. QED  BY <1>1, <1>3, <2>1
<1>5. Grown'
  BY <1>1, <1>3 DEF Grown, Blocks
<1>6. WriteInv'
  BY <1>1, <1>2, <1>3, <1>4, <1>5 DEF WriteInv
<1>7. CallInv'
  BY <1>2, <1>3, <1>6 DEF CallInv, ReadInv
<1>. QED  BY <1>1, <1>3, <1>4, <1>7, NoResult, Whole

-----------------------------------------------------------------------------
(* The device.                                                             *)
Own == \A c \in DOMAIN disk : disk'[c] # disk[c] => c # 0 /\ \E i \in DOMAIN blk : blk'[i] = c

LEMMA InCall ==
    ASSUME IInv, call.op \in {"fread", "fwrite"}
    PROVE  /\ call \in Calls /\ call # Idle /\ CallInv
           /\ call.pc \in {"head", "gather", "direct", "tail", "fsize"} /\ call.size \in Nat
           /\ call.idx \in Nat /\ call.count \in Nat /\ call.start \in Nat
           /\ call.start \in {0} \cup Phys /\ call.fblk \in {0} \cup Phys
           /\ call.from \in Nat /\ call.n \in Nat /\ call.v \in Vals \cup {Stale}
           /\ call.data \in Seq(Units) /\ call.rr \in BOOLEAN
<1>1. call \in Calls /\ call # Idle
  BY Parts DEF Idle
<1>2. CallInv
  BY <1>1 DEF IInv
<1>3. /\ call.pc \in {"head", "gather", "direct", "tail", "fsize"} /\ call.size \in Nat
      /\ call.idx \in Nat /\ call.count \in Nat
      /\ call.start \in {0} \cup Phys /\ call.fblk \in {0} \cup Phys
      /\ call.from \in Nat /\ call.n \in Nat /\ call.v \in Vals \cup {Stale}
      /\ call.data \in Seq(Units) /\ call.rr \in BOOLEAN
  BY <1>1 DEF Calls
<1>4. call.start \in Nat
  <2>1. {0} \cup Phys \subseteq Nat
    BY PhysAssumption
  <2>. QED  BY <1>3, <2>1, Zenon
<1>. QED  BY <1>1, <1>2, <1>3, <1>4

LEMMA StoredOK ==
    ASSUME disk \in Disks, file.fpos \in Nat, call.v \in Vals \cup {Stale},
           NEW b \in Nat, NEW u \in Nat, NEW K \in SUBSET Nat, disk' = Stored(b, u, K)
    PROVE  /\ disk' \in Disks
           /\ \A c \in DOMAIN disk : disk'[c] # disk[c]
                 => c \in Nat /\ \E o \in Offsets : (c - b) * BlockSize + o - u \in K
<1>1. DOMAIN disk = {0} \cup Phys /\ {0} \cup Phys \subseteq Nat
  BY PhysAssumption DEF Disks
<1>2. \A k \in K : <<call.v, file.fpos + k>> \in Units
  BY DEF Units
<1>3. \A c \in DOMAIN disk : disk[c] \in [Offsets -> Units]
  BY DEF Disks
<1>4. \A c \in DOMAIN disk :
         disk'[c] = [o \in Offsets |-> IF (c - b) * BlockSize + o - u \in K
                                       THEN <<call.v, file.fpos + ((c - b) * BlockSize + o - u)>>
                                       ELSE disk[c][o]]
  BY DEF Stored
<1>5. ASSUME NEW c \in DOMAIN disk
      PROVE  disk'[c] \in [Offsets -> Units]
  <2>1. \A o \in Offsets : disk[c][o] \in Units
    BY <1>3
  <2>2. ASSUME NEW o \in Offsets
        PROVE  (IF (c - b) * BlockSize + o - u \in K
                THEN <<call.v, file.fpos + ((c - b) * BlockSize + o - u)>>
                ELSE disk[c][o]) \in Units
    <3>. DEFINE k == (c - b) * BlockSize + o - u
    <3>1. k \in K => <<call.v, file.fpos + k>> \in Units
      BY <1>2
    <3>. HIDE DEF k
    <3>2. (IF k \in K THEN <<call.v, file.fpos + k>> ELSE disk[c][o]) \in Units
      BY <2>1, <3>1
    <3>. QED  BY <3>2 DEF k
  <2>. QED  BY <1>4, <2>2
<1>6. disk' \in Disks
  BY <1>1, <1>5 DEF Stored, Disks
<1>7. ASSUME NEW c \in DOMAIN disk, ~\E o \in Offsets : (c - b) * BlockSize + o - u \in K
      PROVE  disk'[c] = disk[c]
  BY <1>3, <1>4, <1>7
<1>. QED  BY <1>1, <1>6, <1>7

\* n blocks are n * BlockSize units.
LEMMA Within ==
    ASSUME NEW d \in Int, NEW n \in Nat, NEW o \in Offsets,
           0 <= d * BlockSize + o, d * BlockSize + o < n * BlockSize
    PROVE  d \in 0..n - 1
<1>1. o \in Nat /\ o < BlockSize /\ BlockSize \in Nat /\ d * BlockSize \in Int /\ n * BlockSize \in Int
  BY Constants DEF Offsets
<1>2. d * BlockSize < n * BlockSize
  BY <1>1
<1>3. d < n
  BY <1>2, Scale
<1>4. (-1) * BlockSize < d * BlockSize
  BY <1>1
<1>5. -1 < d
  BY <1>4, Scale
<1>. QED  BY <1>3, <1>5

LEMMA ReadFromOK ==
    ASSUME disk \in Disks, NEW b \in Nat, NEW u \in Nat, NEW n \in Nat,
           \A d \in Nat : d * BlockSize < u + n => b + d \in {0} \cup Phys
    PROVE  ReadFrom(b, u, n) \in Seq(Units)
<1>1. ASSUME NEW k \in 1..n
      PROVE  disk[b + (u + k - 1) \div BlockSize][(u + k - 1) % BlockSize] \in Units
  <2>. DEFINE a == u + k - 1
              d == a \div BlockSize
              r == a % BlockSize
  <2>1. a \in Nat /\ a < u + n
    OBVIOUS
  <2>2. d \in Nat /\ r \in Offsets /\ a = d * BlockSize + r
    BY <2>1, DivMod DEF Offsets
  <2>. HIDE DEF d, r
  <2>3. d * BlockSize \in Int /\ r \in Nat
    BY <2>2, Constants DEF Offsets
  <2>4. d * BlockSize < u + n
    BY <2>1, <2>2, <2>3
  <2>5. b + d \in {0} \cup Phys
    BY <2>2, <2>4
  <2>6. disk[b + d][r] \in Units
    BY <2>2, <2>5 DEF Disks
  <2>. QED  BY <2>6 DEF d, r
<1>. QED  BY <1>1 DEF ReadFrom

(* What the unaligned head leaves to the loops                             *)
LEMMA HeadFacts ==
    ASSUME IInv, call.op \in {"fread", "fwrite"}, call.pc = "head"
    PROVE  /\ Unaligned \in Nat /\ HeadLen \in Nat /\ HeadLen <= call.size
           /\ Unaligned + HeadLen <= BlockSize
           /\ call.idx * BlockSize + Unaligned = file.fpos
           /\ HeadLen < call.size => Unaligned + HeadLen = BlockSize
           /\ call.idx < Blocks(isize) /\ call.idx \in 0..MaxBlocks - 1
           /\ blk[call.idx] \in Phys /\ Dblk(call.idx) = blk[call.idx] /\ blk[call.idx] # 0
<1>1. /\ call.idx \in Nat /\ call.size \in Nat /\ file.fpos \in Nat /\ file.fpos <= isize
      /\ call.idx * BlockSize < file.fpos /\ file.fpos < (call.idx + 1) * BlockSize
      /\ isize \in Nat /\ MapOK
  BY InCall, Parts DEF CallInv, HeadInv
<1>2. Unaligned = file.fpos - call.idx * BlockSize /\ Unaligned \in 0..BlockSize - 1
  <2>1. (call.idx + 1) * BlockSize = call.idx * BlockSize + BlockSize /\ call.idx * BlockSize \in Int
    BY <1>1, Constants
  <2>2. call.idx * BlockSize <= file.fpos /\ file.fpos < call.idx * BlockSize + BlockSize
    BY <1>1, <2>1
  <2>3. file.fpos % BlockSize = file.fpos - call.idx * BlockSize
    BY <1>1, <2>2, DivIs
  <2>. QED  BY <1>1, <2>3, DivMod DEF Unaligned
<1>3. /\ HeadLen \in Nat /\ HeadLen <= call.size /\ Unaligned + HeadLen <= BlockSize
      /\ HeadLen < call.size => Unaligned + HeadLen = BlockSize
  BY <1>1, <1>2, Constants DEF HeadLen
<1>4. call.idx < Blocks(isize)
  <2>1. Blocks(isize) \in Nat /\ isize <= Blocks(isize) * BlockSize
    BY <1>1, BlocksOf
  <2>2. call.idx * BlockSize \in Int /\ Blocks(isize) * BlockSize \in Int
    BY <1>1, <2>1, Constants
  <2>. DEFINE m == Blocks(isize)
  <2>. HIDE DEF m
  <2>3. call.idx * BlockSize < m * BlockSize
    BY <1>1, <2>1, <2>2 DEF m
  <2>4. call.idx < m
    <3>1. call.idx \in Int /\ m \in Int
      BY <1>1, <2>1 DEF m
    <3>. QED  BY <2>3, <3>1, ScaleLess, Zenon
  <2>. QED  BY <2>4 DEF m
<1>5. call.idx \in 0..MaxBlocks - 1
  BY <1>1, <1>4, MapFacts, Constants
<1>6. blk[call.idx] # 0 /\ blk[call.idx] \in Phys /\ Dblk(call.idx) = blk[call.idx]
  BY <1>1, <1>4, <1>5, MapFacts
<1>7. call.idx * BlockSize \in Int
  BY <1>1, Constants
<1>. QED  BY <1>1, <1>2, <1>3, <1>4, <1>5, <1>6, <1>7

LEMMA HeadOwn ==
    ASSUME IInv, call.op = "fwrite", call.pc = "head", UNCHANGED blk,
           NEW K \in SUBSET (0..HeadLen - 1), disk' = Stored(Dblk(call.idx), Unaligned, K)
    PROVE  disk' \in Disks /\ Own
<1>. DEFINE b == Dblk(call.idx)
            u == Unaligned
            h == HeadLen
<1>1. /\ u \in Nat /\ h \in Nat /\ u + h <= BlockSize /\ b \in Nat /\ b # 0
      /\ call.idx \in DOMAIN blk /\ b = blk[call.idx] /\ K \in SUBSET Nat
      /\ \A k \in K : 0 <= k /\ k < h
  <2>1. /\ u \in Nat /\ h \in Nat /\ u + h <= BlockSize /\ b \in Phys /\ b # 0
        /\ call.idx \in 0..MaxBlocks - 1 /\ b = blk[call.idx]
    BY HeadFacts
  <2>2. K \in SUBSET Nat /\ \A k \in K : 0 <= k /\ k < h
    BY <2>1
  <2>3. DOMAIN blk = 0..MaxBlocks - 1 /\ b \in Nat
    BY <2>1, PhysAssumption, MapFacts, Parts
  <2>. QED  BY <2>1, <2>2, <2>3
<1>2. /\ disk \in Disks /\ file.fpos \in Nat /\ call.v \in Vals \cup {Stale}
  BY InCall, Parts
<1>. HIDE DEF b, u, h
<1>3. /\ disk' \in Disks
      /\ \A c \in DOMAIN disk : disk'[c] # disk[c]
            => c \in Nat /\ \E o \in Offsets : (c - b) * BlockSize + o - u \in K
  <2>1. disk' = Stored(b, u, K)
    BY DEF b, u
  <2>. QED  BY <1>1, <1>2, <2>1, StoredOK
<1>4. ASSUME NEW c \in Nat, NEW o \in Offsets, (c - b) * BlockSize + o - u \in K
      PROVE  c = b
  <2>1. /\ c - b \in Int /\ (c - b) * BlockSize \in Int /\ o \in Nat /\ 1 * BlockSize = BlockSize
        /\ BlockSize \in Nat /\ 1 \in Nat
    BY <1>1, Constants DEF Offsets
  <2>2. 0 <= (c - b) * BlockSize + o - u /\ (c - b) * BlockSize + o - u < h
    BY <1>1, <1>4, Zenon
  <2>3. 0 <= (c - b) * BlockSize + o /\ (c - b) * BlockSize + o < 1 * BlockSize
    BY <1>1, <2>1, <2>2
  <2>4. c - b \in 0..1 - 1
    BY <2>1, <2>3, Within, Zenon
  <2>. QED  BY <1>1, <2>4
<1>. QED  BY <1>1, <1>3, <1>4 DEF Own

\* The updates of the local variables after the head.
LEMMA CallStarts ==
    ASSUME NEW c \in Calls, NEW size \in Nat, NEW idx \in Nat, NEW data \in Seq(Units)
    PROVE  [c EXCEPT !.size = size, !.pc = "gather", !.idx = idx, !.data = data] \in Calls
<1>. DEFINE d == [c EXCEPT !.size = size, !.pc = "gather"]
<1>1. d \in Calls
  BY DEF Calls
<1>2. [d EXCEPT !.idx = idx, !.data = data] \in Calls
  <2>. HIDE DEF d
  <2>. QED  BY <1>1 DEF Calls
<1>3. [d EXCEPT !.idx = idx, !.data = data]
        = [c EXCEPT !.size = size, !.pc = "gather", !.idx = idx, !.data = data]
  BY DEF Calls
<1>. QED  BY <1>2, <1>3

LEMMA AfterHead ==
    ASSUME IInv, call.op \in {"fread", "fwrite"}, call.pc = "head",
           NEW data \in Seq(Units),
           call' = [Moved(call, HeadLen) EXCEPT !.pc = "gather", !.idx = @ + 1, !.data = data],
           file' = Advanced(HeadLen), UNCHANGED <<free, blk, isize>>, file.fpos + call.size <= MaxSize
    PROVE  /\ MapOK' /\ file' \in Files /\ call' \in Calls /\ call' # Idle
           /\ file'.fpos = file.fpos + HeadLen /\ file'.fsize = file.fsize
           /\ call'.op = call.op /\ call'.pc = "gather" /\ call'.idx = call.idx + 1
           /\ call'.rr = call.rr /\ call'.size = call.size - HeadLen /\ call'.size \in Nat
           /\ call'.from + call'.n = file'.fpos + call'.size
           /\ HeadInv' /\ GatherInv' /\ DirectInv' /\ TailInv'
           /\ file'.fpos <= (call.idx + 1) * BlockSize
<1>. DEFINE h == HeadLen
            i == call.idx
            u == Unaligned
<1>1. /\ h \in Nat /\ u \in Nat /\ h <= call.size /\ u + h <= BlockSize /\ i * BlockSize + u = file.fpos
      /\ h < call.size => u + h = BlockSize
  BY HeadFacts
<1>2. /\ call \in Calls /\ call.size \in Nat /\ i \in Nat /\ call.from \in Nat /\ call.n \in Nat
      /\ call.count = 0 /\ call.start = 0 /\ call.from + call.n = file.fpos + call.size
      /\ file \in Files /\ file.fpos \in Nat
  BY InCall, Parts DEF CallInv, HeadInv
<1>. HIDE DEF h, i, u
<1>14. h \in Nat /\ h <= call.size
  BY <1>1
<1>3. call' = [call EXCEPT !.size = @ - h, !.pc = "gather", !.idx = @ + 1, !.data = data]
  BY <1>2 DEF Moved, Calls, h
<1>4. /\ call'.op = call.op /\ call'.pc = "gather" /\ call'.idx = i + 1 /\ call'.rr = call.rr
      /\ call'.size = call.size - h /\ call'.from = call.from /\ call'.n = call.n
      /\ call'.count = 0 /\ call'.start = 0
  BY <1>2, <1>3 DEF Calls, i
<1>5. call' \in Calls /\ call' # Idle
  <2>1. call.size - h \in Nat /\ call.idx + 1 \in Nat
    <3>1. call.size \in Nat /\ call.idx \in Nat
      BY <1>2 DEF i
    <3>. QED  BY <1>14, <3>1
  <2>2. call' \in Calls
    <3>. DEFINE size == call.size - h
                idx == call.idx + 1
    <3>1. call' = [call EXCEPT !.size = size, !.pc = "gather", !.idx = idx, !.data = data]
      BY <1>3
    <3>2. call \in Calls /\ size \in Nat /\ idx \in Nat
      BY <1>2, <2>1
    <3>. HIDE DEF size, idx
    <3>3. [call EXCEPT !.size = size, !.pc = "gather", !.idx = idx, !.data = data] \in Calls
      BY <3>2, CallStarts, Zenon
    <3>. QED  BY <3>1, <3>3, Zenon
  <2>. QED  BY <1>4, <2>2 DEF Idle
<1>6. file' \in Files /\ file'.fpos = file.fpos + h /\ file'.fsize = file.fsize
  <2>0. MaxSize \in Nat
    BY Constants
  <2>1. file.fpos + h \in 0..MaxSize
    BY <1>14, <1>2, <2>0
  <2>. QED  BY <1>2, <2>1 DEF Advanced, Files, h
<1>7. (i + 1) * BlockSize = i * BlockSize + BlockSize /\ i * BlockSize \in Int
  BY <1>2, Constants
<1>8. file'.fpos <= (i + 1) * BlockSize /\ (h < call.size => file'.fpos = (i + 1) * BlockSize)
  BY <1>1, <1>6, <1>7, Constants
<1>9. call'.size > 0 => h < call.size
  BY <1>1, <1>2, <1>4
<1>10. GatherInv'
  <2>1. ASSUME call'.size >= BlockSize
        PROVE  RunAt(call.idx - call.count)'
    <3>1. call'.size > 0
      BY <1>2, <1>4, <1>14, <2>1, Constants
    <3>2. file'.fpos = (i + 1) * BlockSize
      BY <1>8, <1>9, <3>1
    <3>3. call'.idx - call'.count = i + 1 /\ i + 1 \in Nat
      BY <1>2, <1>4
    <3>4. call'.count * BlockSize <= call'.size
      <4>1. 0 * BlockSize = 0 /\ BlockSize \in Nat
        BY Constants
      <4>2. call'.count * BlockSize = 0 /\ call'.size \in Nat
        BY <1>2, <1>4, <1>14, <4>1
      <4>. QED  BY <4>2
    <3>5. \A c \in 0..call'.count - 1 : FALSE
      BY <1>4
    <3>. QED  BY <1>4, <3>2, <3>3, <3>4, <3>5 DEF RunAt
  <2>. QED  BY <2>1, Zenon DEF GatherInv
<1>11. HeadInv' /\ DirectInv' /\ TailInv'
  BY <1>4, <1>8, <1>9 DEF HeadInv, DirectInv, TailInv
<1>12. MapOK'
  BY Parts DEF MapOK, BlocksAccounted, SizeMatchesMap, Blocks
<1>13. call'.size \in Nat /\ call'.from + call'.n = file'.fpos + call'.size
  <2>1. call'.size \in Nat
    BY <1>2, <1>4, <1>14
  <2>2. /\ call.size \in Nat /\ file.fpos \in Nat /\ call.from + call.n = file.fpos + call.size
        /\ call'.size = call.size - h /\ file'.fpos = file.fpos + h
        /\ call'.from = call.from /\ call'.n = call.n
    BY <1>2, <1>4, <1>6
  <2>. QED  BY <1>14, <2>1, <2>2
<1>. QED
  BY <1>4, <1>5, <1>6, <1>8, <1>10, <1>11, <1>12, <1>13 DEF h, i

LEMMA ReadHeadStep ==
    ASSUME IInv, ReadHead
    PROVE  IInv'
<1>. DEFINE data == IF Dblk(call.idx) = 0 THEN [k \in 1..HeadLen |-> Zero]
                    ELSE ReadFrom(Dblk(call.idx), Unaligned, HeadLen)
<1>1. /\ call.op = "fread" /\ call.pc = "head" /\ file' = Advanced(HeadLen)
      /\ UNCHANGED <<disk, free, blk, isize, cache_write_back, result>>
      /\ call' = [Moved(call, HeadLen) EXCEPT !.pc = "gather", !.idx = @ + 1, !.data = @ \o data]
  BY DEF ReadHead, In
<1>2. /\ call \in Calls /\ CallInv /\ call.data \in Seq(Units) /\ call.size \in Nat /\ file.fpos \in Nat
      /\ isize \in Nat /\ isize <= MaxSize /\ disk \in Disks
  BY <1>1, InCall, Parts
<1>3. ~call.rr /\ file.fsize = isize /\ file.fpos + call.size <= isize
  BY <1>1, <1>2 DEF CallInv, ReadInv
<1>4. data \in Seq(Units)
  <2>1. /\ Dblk(call.idx) \in Phys /\ Dblk(call.idx) # 0 /\ Dblk(call.idx) \in Nat
        /\ Unaligned \in Nat /\ HeadLen \in Nat /\ Unaligned + HeadLen <= BlockSize
    BY <1>1, HeadFacts, PhysAssumption
  <2>2. ASSUME NEW d \in Nat, d * BlockSize < Unaligned + HeadLen
        PROVE  d = 0
    <3>1. d * BlockSize \in Int /\ 1 * BlockSize = BlockSize /\ d * BlockSize < 1 * BlockSize
      BY <2>1, <2>2, Constants
    <3>. QED  BY <3>1, ScaleLess
  <2>3. \A d \in Nat : d * BlockSize < Unaligned + HeadLen => Dblk(call.idx) + d \in {0} \cup Phys
    BY <2>1, <2>2
  <2>4. ReadFrom(Dblk(call.idx), Unaligned, HeadLen) \in Seq(Units)
    BY <1>2, <2>1, <2>3, ReadFromOK
  <2>. QED  BY <2>1, <2>4
<1>5. call.data \o data \in Seq(Units)
  BY <1>2, <1>4
<1>6. call' = [Moved(call, HeadLen) EXCEPT !.pc = "gather", !.idx = @ + 1, !.data = call.data \o data]
  BY <1>1, <1>2 DEF Moved, Calls
<1>. HIDE DEF data
<1>7. file.fpos + call.size <= MaxSize
  BY <1>2, <1>3, Constants
<1>8. /\ MapOK' /\ file' \in Files /\ call' \in Calls /\ call' # Idle
      /\ file'.fpos = file.fpos + HeadLen /\ file'.fsize = file.fsize
      /\ call'.op = "fread" /\ call'.pc = "gather" /\ ~call'.rr
      /\ call'.size \in Nat /\ call'.size = call.size - HeadLen
      /\ call'.from + call'.n = file'.fpos + call'.size
      /\ HeadInv' /\ GatherInv' /\ DirectInv' /\ TailInv'
  BY <1>1, <1>3, <1>5, <1>6, <1>7, AfterHead, Zenon
<1>9. HeadLen \in Nat
  BY <1>1, HeadFacts
<1>10. file'.fpos + call'.size <= isize
  BY <1>2, <1>3, <1>8, <1>9
<1>11. CallInv'
  BY <1>1, <1>3, <1>8, <1>10 DEF CallInv, ReadInv, WriteInv
<1>. QED  BY <1>1, <1>8, <1>11, Parts, Whole

LEMMA WriteHeadStep ==
    ASSUME IInv, WriteHead
    PROVE  IInv' /\ Own
<1>1. /\ call.op = "fwrite" /\ call.pc = "head" /\ file' = Advanced(HeadLen)
      /\ UNCHANGED <<free, blk, isize, result>> /\ cache_write_back' = cache_write_back + 1
      /\ disk' = Stored(Dblk(call.idx), Unaligned, 0..HeadLen - 1)
      /\ call' = [Moved(call, HeadLen) EXCEPT !.pc = "gather", !.idx = @ + 1]
  BY DEF WriteHead, In
<1>2. /\ call \in Calls /\ CallInv /\ call.data \in Seq(Units) /\ call.size \in Nat /\ file.fpos \in Nat
      /\ isize \in Nat /\ isize <= MaxSize /\ disk \in Disks /\ call.idx \in Nat
      /\ call.v \in Vals \cup {Stale} /\ file.fsize \in Nat
  BY <1>1, InCall, Parts
<1>3. /\ ~call.rr /\ file.fpos + call.size <= MaxSize /\ Grown /\ cache_write_back < MaxWriteBack
      /\ call.idx * BlockSize < file.fpos /\ file.fpos <= isize
  BY <1>1, <1>2 DEF CallInv, WriteInv, HeadInv
<1>4. /\ Unaligned \in Nat /\ HeadLen \in Nat /\ Unaligned + HeadLen <= BlockSize
      /\ blk[call.idx] \in Phys /\ Dblk(call.idx) = blk[call.idx] /\ blk[call.idx] # 0
      /\ call.idx < Blocks(isize) /\ call.idx \in 0..MaxBlocks - 1 /\ Blocks(isize) \in Nat
      /\ HeadLen <= call.size
  BY <1>1, <1>2, HeadFacts, BlocksOf
<1>5. call' = [Moved(call, HeadLen) EXCEPT !.pc = "gather", !.idx = @ + 1, !.data = call.data]
  BY <1>1, <1>2 DEF Moved, Calls
<1>6. /\ MapOK' /\ file' \in Files /\ call' \in Calls /\ call' # Idle
      /\ file'.fpos = file.fpos + HeadLen /\ file'.fsize = file.fsize
      /\ call'.op = "fwrite" /\ call'.pc = "gather" /\ ~call'.rr /\ call'.idx = call.idx + 1
      /\ call'.size \in Nat /\ call'.size = call.size - HeadLen
      /\ call'.from + call'.n = file'.fpos + call'.size
      /\ HeadInv' /\ GatherInv' /\ DirectInv' /\ TailInv'
      /\ file'.fpos <= (call.idx + 1) * BlockSize
  BY <1>1, <1>2, <1>3, <1>5, AfterHead, Zenon
<1>7. disk' \in Disks /\ Own
  BY <1>1, <1>2, <1>4, HeadOwn
<1>8. isize = file.fsize
  <2>1. call.idx * BlockSize \in Int /\ call.idx * BlockSize < isize
    BY <1>2, <1>3, Constants
  <2>. QED  BY <1>3, <2>1 DEF Grown
<1>9. Grown'
  BY <1>1, <1>2, <1>4, <1>6, <1>8 DEF Grown, Blocks
<1>10. AtEnd'
  <2>. DEFINE e == (call.idx + 1) * BlockSize
  <2>1. e = call.idx * BlockSize + BlockSize /\ call.idx * BlockSize \in Int /\ e \in Int
        /\ call.idx + 1 \in Int
    BY <1>2, Constants
  <2>2. e < file.fpos + BlockSize /\ file'.fpos \in Nat /\ file.fpos <= file'.fpos /\ file'.fpos <= e
    <3>1. file'.fpos \in Nat /\ file.fpos <= file'.fpos /\ file'.fpos <= e
      <4>1. file'.fpos <= e
        BY <1>6
      <4>2. file'.fpos = file.fpos + HeadLen /\ HeadLen \in Nat
        BY <1>4, <1>6
      <4>. QED  BY <1>2, <4>1, <4>2
    <3>. DEFINE x == call.idx * BlockSize
    <3>2. e = x + BlockSize /\ x \in Int /\ x < file.fpos
      BY <1>3, <2>1
    <3>. HIDE DEF e, x
    <3>3. e < file.fpos + BlockSize
      BY <1>2, <3>2, Constants
    <3>. QED  BY <3>1, <3>3
  <2>3. ASSUME NEW s \in Nat, file.fpos <= s, s <= e
        PROVE  Blocks(s) = call.idx + 1
    <3>. HIDE DEF e
    <3>1. e < s + BlockSize
      <4>1. e \in Int /\ file.fpos \in Nat /\ BlockSize \in Nat /\ e < file.fpos + BlockSize
        BY <1>2, <2>1, <2>2, Constants
      <4>. QED  BY <2>3, <4>1
    <3>. QED  BY <2>1, <2>3, <3>1, BlocksIs DEF e
  <2>. HIDE DEF e
  <2>4. Blocks(file'.fpos) = call.idx + 1
    BY <2>2, <2>3
  <2>5. file'.fpos > file'.fsize => isize <= e
    BY <1>2, <1>6, <1>8, <2>1, <2>2
  <2>6. file'.fpos > file'.fsize => Blocks(isize) = call.idx + 1
    BY <1>2, <1>3, <2>3, <2>5
  <2>7. Blocks(isize)' = Blocks(isize) /\ Blocks(file.fpos)' = Blocks(file'.fpos)
    BY <1>1 DEF Blocks
  <2>8. file'.fsize <= isize'
    BY <1>1, <1>2, <1>6, <1>8
  <2>. QED  BY <2>4, <2>6, <2>7, <2>8 DEF AtEnd
<1>11. cache_write_back' \in 0..MaxWriteBack /\ cache_write_back' >= 1
  BY <1>1, <1>3, Parts, Constants
<1>12. file'.fpos + call'.size <= MaxSize
  <2>1. file'.fpos = file.fpos + HeadLen /\ call'.size = call.size - HeadLen
    BY <1>6
  <2>2. /\ file.fpos \in Nat /\ call.size \in Nat /\ HeadLen \in Nat /\ MaxSize \in Nat
        /\ file.fpos + call.size <= MaxSize
    BY <1>2, <1>3, <1>4, Constants
  <2>. QED  BY <2>1, <2>2
<1>13. CallInv'
  BY <1>6, <1>9, <1>10, <1>11, <1>12 DEF CallInv, ReadInv, WriteInv
<1>. QED  BY <1>1, <1>6, <1>7, <1>11, <1>13, Parts, Whole

-----------------------------------------------------------------------------
(* Gathering a run                                                         *)
LEMMA LastBlock ==
    ASSUME IInv, call.op \in {"fread", "fwrite"}
    PROVE  /\ IblockLast \in Nat /\ file.fpos + call.size <= MaxSize
           /\ IblockLast * BlockSize <= file.fpos + call.size
           /\ file.fpos + call.size < (IblockLast + 1) * BlockSize
           /\ IblockLast <= MaxBlocks
<1>. DEFINE s == file.fpos + call.size
            q == s \div BlockSize
<1>1. /\ call.size \in Nat /\ file.fpos \in Nat /\ isize \in Nat /\ isize <= MaxSize /\ CallInv
      /\ MaxSize \in Nat
  BY InCall, Parts, Constants
<1>2. s \in Nat /\ s <= MaxSize
  BY <1>1 DEF CallInv, ReadInv, WriteInv
<1>3. IblockLast = q
  BY <1>1 DEF CallInv, IblockLast
<1>4. q \in Nat /\ s = q * BlockSize + (s % BlockSize) /\ s % BlockSize \in 0..BlockSize - 1
  BY <1>2, DivMod
<1>. HIDE DEF s, q
<1>5. q * BlockSize \in Int /\ (q + 1) * BlockSize = q * BlockSize + BlockSize
  BY <1>4, Constants
<1>6. q * BlockSize <= s /\ s < (q + 1) * BlockSize
  BY <1>2, <1>4, <1>5, Constants
<1>7. ~(MaxBlocks < q)
  <2>1. MaxBlocks < q => MaxBlocks * BlockSize < q * BlockSize
    BY <1>4, Scale, Constants
  <2>. QED  BY <1>2, <1>5, <1>6, <2>1, Constants
<1>8. q <= MaxBlocks
  BY <1>4, <1>7, Constants
<1>. QED  BY <1>2, <1>3, <1>4, <1>6, <1>8 DEF s

LEMMA GatherFacts ==
    ASSUME IInv, call.op \in {"fread", "fwrite"}, Gathering(call.op)
    PROVE  /\ RunAt(call.idx - call.count) /\ (call.count + 1) * BlockSize <= call.size
           /\ (call.idx + 1) * BlockSize <= file.fpos + call.size
           /\ call.idx \in 0..MaxBlocks - 1 /\ ~call.rr /\ call.size >= BlockSize
<1>. DEFINE p == call.idx - call.count
            i == call.idx
            k == call.count
<1>1. /\ call.pc = "gather" /\ call.size >= BlockSize /\ i < IblockLast /\ CallInv
      /\ i \in Nat /\ k \in Nat /\ call.size \in Nat /\ file.fpos \in Nat
  BY InCall, Parts DEF Gathering, In
<1>2. RunAt(p) /\ ~call.rr
  BY <1>1 DEF CallInv, GatherInv, ReadInv, WriteInv
<1>3. p \in Nat /\ file.fpos = p * BlockSize /\ p + k = i
  BY <1>1, <1>2 DEF RunAt
<1>4. (i + 1) * BlockSize <= file.fpos + call.size
  <2>1. /\ IblockLast \in Nat /\ IblockLast * BlockSize <= file.fpos + call.size
        /\ i + 1 \in Int /\ i + 1 <= IblockLast
    BY <1>1, LastBlock
  <2>2. (i + 1) * BlockSize <= IblockLast * BlockSize
    <3>1. IblockLast \in Int
      BY <2>1
    <3>. QED  BY <2>1, <3>1, ScaleLeq, Zenon
  <2>3. (i + 1) * BlockSize \in Int /\ IblockLast * BlockSize \in Int
    BY <2>1, Constants
  <2>. QED  BY <1>1, <2>1, <2>2, <2>3
<1>5. i \in 0..MaxBlocks - 1
  BY <1>1, LastBlock, Constants
<1>. HIDE DEF p, i, k
<1>6. (k + 1) * BlockSize <= call.size
  <2>1. (i + 1) * BlockSize = p * BlockSize + (k + 1) * BlockSize
    BY <1>1, <1>3, Constants
  <2>2. p * BlockSize \in Int /\ (k + 1) * BlockSize \in Int
    BY <1>1, <1>3, Constants
  <2>. QED  BY <1>1, <1>3, <1>4, <2>1, <2>2
<1>. QED  BY <1>1, <1>2, <1>4, <1>5, <1>6 DEF p, i, k

\* A block either extends the run or is kept back, and the run ends.
\* The updates of the local variables of a call that gather a run.
LEMMA CallGathers ==
    ASSUME NEW c \in Calls, NEW idx \in Nat, NEW f \in {0} \cup Phys, NEW start \in {0} \cup Phys,
           NEW count \in Nat, NEW pc \in {"gather", "direct"}
    PROVE  [c EXCEPT !.idx = idx, !.fblk = f, !.start = start, !.count = count, !.pc = pc] \in Calls
<1>. DEFINE d == [c EXCEPT !.idx = idx, !.fblk = f, !.start = start]
<1>1. d \in Calls
  BY DEF Calls
<1>2. [d EXCEPT !.count = count, !.pc = pc] \in Calls
  <2>. HIDE DEF d
  <2>. QED  BY <1>1 DEF Calls
<1>3. [d EXCEPT !.count = count, !.pc = pc]
        = [c EXCEPT !.idx = idx, !.fblk = f, !.start = start, !.count = count, !.pc = pc]
  BY DEF Calls
<1>. QED  BY <1>2, <1>3

LEMMA GatheredOK ==
    ASSUME IInv, call.op \in {"fread", "fwrite"}, Gathering(call.op),
           NEW f \in Phys, call' = Gathered(f, call.idx), file' = file, blk' \in Map,
           blk'[call.idx] = f,
           \A i \in 0..MaxBlocks - 1 : i # call.idx => blk'[i] = blk[i]
    PROVE  /\ call' \in Calls /\ call' # Idle /\ ~call'.rr
           /\ call'.op = call.op /\ call'.pc \in {"gather", "direct"}
           /\ call'.idx = call.idx + 1 /\ call'.size = call.size /\ call'.size \in Nat
           /\ call'.size >= BlockSize
           /\ call'.from + call'.n = file'.fpos + call'.size
           /\ HeadInv' /\ GatherInv' /\ DirectInv' /\ TailInv'
<1>. DEFINE p == call.idx - call.count
            k == call.count
            s == IF call.start = 0 THEN f ELSE call.start
            more == s + k = f
<1>1. /\ call \in Calls /\ CallInv /\ call.size \in Nat /\ call.idx \in Nat /\ k \in Nat
      /\ call.start \in Nat /\ call.start \in {0} \cup Phys /\ file.fpos \in Nat
      /\ call.from + call.n = file.fpos + call.size /\ f \in Nat /\ f # 0
  BY InCall, Parts, PhysAssumption DEF CallInv
<1>2. /\ RunAt(p) /\ (k + 1) * BlockSize <= call.size /\ call.idx \in 0..MaxBlocks - 1
      /\ ~call.rr /\ call.size >= BlockSize /\ call.pc = "gather"
  BY GatherFacts DEF Gathering, In
<1>3. /\ p \in Nat /\ p + k = call.idx /\ file.fpos = p * BlockSize /\ (call.start = 0 <=> k = 0)
      /\ k * BlockSize <= call.size /\ \A c \in 0..k - 1 : blk[p + c] = call.start + c
  BY <1>1, <1>2 DEF RunAt
<1>4. s \in Phys /\ s \in Nat /\ s # 0 /\ more \in BOOLEAN
  BY <1>1, PhysAssumption
<1>5. call' = [call EXCEPT !.idx = call.idx + 1, !.fblk = f, !.start = s,
                           !.count = IF more THEN @ + 1 ELSE @,
                           !.pc = IF more THEN "gather" ELSE "direct"]
  BY DEF Gathered
<1>. HIDE DEF s, more
<1>6. /\ call'.op = call.op /\ call'.pc = (IF more THEN "gather" ELSE "direct")
      /\ call'.idx = call.idx + 1 /\ call'.rr = call.rr /\ call'.size = call.size
      /\ call'.from = call.from /\ call'.n = call.n /\ call'.start = s /\ call'.fblk = f
      /\ call'.count = (IF more THEN k + 1 ELSE k)
  BY <1>1, <1>5 DEF Calls
<1>7. call' \in Calls /\ call' # Idle
  <2>1. call' \in Calls
    <3>. DEFINE c == call
                idx == call.idx + 1
                count == IF more THEN call.count + 1 ELSE call.count
                pc == IF more THEN "gather" ELSE "direct"
    <3>1. idx \in Nat /\ count \in Nat /\ pc \in {"gather", "direct"}
      BY <1>1
    <3>2. c \in Calls /\ f \in {0} \cup Phys /\ s \in {0} \cup Phys
      BY <1>1, <1>4
    <3>3. call' = [c EXCEPT !.idx = idx, !.fblk = f, !.start = s, !.count = count, !.pc = pc]
      BY <1>5
    <3>. HIDE DEF c, idx, count, pc
    <3>4. [c EXCEPT !.idx = idx, !.fblk = f, !.start = s, !.count = count, !.pc = pc] \in Calls
      BY <3>1, <3>2, CallGathers, Zenon
    <3>. QED  BY <3>3, <3>4, Zenon
  <2>. QED  BY <1>6, <2>1 DEF Idle
<1>. HIDE DEF p
<1>8. \A c \in 0..k - 1 : blk'[p + c] = s + c
  <2>1. ASSUME NEW c \in 0..k - 1 PROVE p + c \in 0..MaxBlocks - 1 /\ p + c # call.idx
    BY <1>1, <1>2, <1>3, Constants
  <2>2. k > 0 => s = call.start
    BY <1>1, <1>3 DEF s
  <2>. QED  BY <1>1, <1>3, <2>1, <2>2
<1>9. blk'[p + k] = f
  BY <1>3
<1>10. GatherInv'
  <2>1. ASSUME more
        PROVE  RunAt(call.idx - call.count)'
    <3>1. call'.idx - call'.count = p /\ call'.count = k + 1
      BY <1>1, <1>3, <1>6, <2>1
    <3>2. \A c \in 0..(k + 1) - 1 : blk'[p + c] = s + c
      <4>1. f = s + k
        BY <2>1 DEF more
      <4>2. \A c \in 0..(k + 1) - 1 : c \in 0..k - 1 \/ c = k
        BY <1>1
      <4>. QED  BY <1>8, <1>9, <4>1, <4>2
    <3>3. call'.start # 0 /\ k + 1 # 0
      BY <1>1, <1>4, <1>6
    <3>. HIDE DEF k
    <3>. QED  BY <1>2, <1>3, <1>6, <3>1, <3>2, <3>3 DEF RunAt
  <2>. QED  BY <1>6, <2>1 DEF GatherInv
<1>11. DirectInv'
  <2>1. ASSUME ~more
        PROVE  /\ RunAt(call.idx - call.count - 1)' /\ call'.count > 0
               /\ (call'.count + 1) * BlockSize <= call'.size
               /\ call'.fblk # 0 /\ call'.fblk = blk'[call'.idx - 1]
    <3>1. call'.idx - call'.count - 1 = p /\ call'.count = k /\ call'.idx - 1 = p + k
      BY <1>1, <1>3, <1>6, <2>1
    <3>2. k # 0
      <4>1. k = 0 => s + k = f
        BY <1>1, <1>3 DEF s
      <4>. QED  BY <2>1, <4>1 DEF more
    <3>3. k > 0
      BY <1>1, <3>2
    <3>4. call'.start # 0
      BY <1>4, <1>6
    <3>. HIDE DEF k
    <3>. QED  BY <1>1, <1>2, <1>3, <1>6, <1>8, <1>9, <3>1, <3>2, <3>3, <3>4 DEF RunAt
  <2>. QED  BY <1>2, <1>6, <2>1 DEF DirectInv
<1>12. HeadInv' /\ TailInv'
  BY <1>1, <1>2, <1>6, Constants DEF HeadInv, TailInv
<1>. QED
  BY <1>1, <1>2, <1>6, <1>7, <1>10, <1>11, <1>12

LEMMA MapUnchanged ==
    ASSUME MapOK, UNCHANGED <<free, blk, isize>>
    PROVE  MapOK'
BY DEF MapOK, BlocksAccounted, SizeMatchesMap, Blocks

\* A whole block that the request covers is mapped if it begins below the size.
LEMMA MappedBelow ==
    ASSUME MapOK, NEW i \in 0..MaxBlocks - 1, i < Blocks(isize)
    PROVE  Dblk(i) = blk[i] /\ blk[i] \in Phys /\ blk[i] # 0
BY MapFacts

LEMMA BelowSize ==
    ASSUME NEW i \in Nat, NEW s \in Nat, i * BlockSize < s
    PROVE  i < Blocks(s)
<1>. DEFINE m == Blocks(s)
<1>1. m \in Nat /\ s <= m * BlockSize
  BY BlocksOf
<1>. HIDE DEF m
<1>2. i * BlockSize \in Int /\ m * BlockSize \in Int /\ i \in Int /\ m \in Int
  BY <1>1, Constants
<1>3. i * BlockSize < m * BlockSize
  BY <1>1, <1>2
<1>4. i < m
  BY <1>2, <1>3, ScaleLess, Zenon
<1>. QED  BY <1>4 DEF m

LEMMA ReadGatherStep ==
    ASSUME IInv, ReadGather
    PROVE  IInv'
<1>1. /\ call.op = "fread" /\ Gathering(call.op) /\ call' = Gathered(Dblk(call.idx), call.idx)
      /\ UNCHANGED <<disk, free, blk, isize, file, cache_write_back, result>>
  BY DEF ReadGather, Gathering, In
<1>2. /\ MapOK /\ CallInv /\ call.idx \in Nat /\ isize \in Nat /\ file.fpos \in Nat /\ call.size \in Nat
  BY <1>1, InCall, Parts
<1>3. /\ file.fsize = isize /\ file.fpos + call.size <= isize
  BY <1>1, <1>2 DEF CallInv, ReadInv
<1>4. (call.idx + 1) * BlockSize <= file.fpos + call.size /\ call.idx \in 0..MaxBlocks - 1
  BY <1>1, GatherFacts
<1>5. call.idx * BlockSize < isize
  <2>1. /\ (call.idx + 1) * BlockSize = call.idx * BlockSize + BlockSize
        /\ call.idx * BlockSize \in Int
    BY <1>2, Constants
  <2>. QED  BY <1>2, <1>3, <1>4, <2>1, Constants
<1>6. Dblk(call.idx) = blk[call.idx] /\ blk[call.idx] \in Phys
  BY <1>2, <1>4, <1>5, BelowSize, MappedBelow
<1>7. blk' \in Map
  BY <1>1, <1>2 DEF MapOK
<1>8. /\ call' \in Calls /\ call' # Idle /\ ~call'.rr
      /\ call'.op = "fread" /\ call'.pc \in {"gather", "direct"}
      /\ call'.size = call.size /\ call'.size \in Nat
      /\ call'.from + call'.n = file'.fpos + call'.size
      /\ HeadInv' /\ GatherInv' /\ DirectInv' /\ TailInv'
  BY <1>1, <1>6, <1>7, GatheredOK
<1>9. CallInv'
  BY <1>1, <1>3, <1>8 DEF CallInv, ReadInv, WriteInv
<1>. QED  BY <1>1, <1>2, <1>8, <1>9, Parts, MapUnchanged, Whole

\* What a step that gathers in ext4_fwrite owes beyond GatheredOK
LEMMA WriteGatheredInv ==
    ASSUME IInv, call.op = "fwrite", Gathering(call.op), UNCHANGED <<file, cache_write_back>>,
           ~call'.rr, call'.op = "fwrite", call'.pc \in {"gather", "direct"},
           call'.size = call.size, Grown'
    PROVE  WriteInv'
<1>1. /\ CallInv /\ call.size >= BlockSize /\ call.pc = "gather" /\ call.size \in Nat
  BY InCall DEF Gathering, In
<1>2. cache_write_back >= 1 /\ file.fpos + call.size <= MaxSize /\ call'.size # 0
  BY <1>1, Constants DEF CallInv, WriteInv
<1>. QED  BY <1>2 DEF WriteInv

LEMMA WriteGatherStep ==
    ASSUME IInv, WriteGather
    PROVE  IInv'
<1>1. /\ call.op = "fwrite" /\ Gathering(call.op) /\ call' = Gathered(Dblk(call.idx), call.idx)
      /\ call.idx < Blocks(file.fsize)
      /\ UNCHANGED <<disk, free, blk, isize, file, cache_write_back, result>>
  BY DEF WriteGather, Gathering, In
<1>2. /\ MapOK /\ CallInv /\ call.idx \in Nat /\ Blocks(file.fsize) \in Nat
      /\ call.idx \in 0..MaxBlocks - 1
  BY <1>1, InCall, Parts, GatherFacts, BlocksOf
<1>3. isize = file.fsize
  BY <1>1, <1>2 DEF CallInv, WriteInv, Grown, Gathering, In
<1>4. Dblk(call.idx) = blk[call.idx] /\ blk[call.idx] \in Phys
  BY <1>1, <1>2, <1>3, MappedBelow
<1>5. blk' \in Map
  BY <1>1, <1>2 DEF MapOK
<1>6. /\ call' \in Calls /\ call' # Idle /\ ~call'.rr /\ call'.idx = call.idx + 1
      /\ call'.op = "fwrite" /\ call'.pc \in {"gather", "direct"}
      /\ call'.size = call.size /\ call'.size \in Nat
      /\ call'.from + call'.n = file'.fpos + call'.size
      /\ HeadInv' /\ GatherInv' /\ DirectInv' /\ TailInv'
  BY <1>1, <1>4, <1>5, GatheredOK
<1>7. Grown'
  BY <1>1, <1>2, <1>3, <1>6 DEF Grown, Blocks
<1>8. CallInv'
  BY <1>1, <1>6, <1>7, WriteGatheredInv DEF CallInv, ReadInv
<1>. QED  BY <1>1, <1>2, <1>6, <1>8, Parts, MapUnchanged, Whole

\* A block is appended where the loop is.
LEMMA AppendsAtIdx ==
    ASSUME Grown, call.idx \in Nat, file.fsize \in Nat, isize \in Nat, call.idx >= Blocks(file.fsize)
    PROVE  Blocks(isize) = call.idx
<1>1. CASE call.idx <= Blocks(file.fsize)
  BY <1>1, BlocksOf DEF Grown
<1>2. CASE ~(call.idx <= Blocks(file.fsize))
  <2>1. isize = call.idx * BlockSize
    BY <1>2 DEF Grown
  <2>2. isize <= call.idx * BlockSize /\ call.idx * BlockSize < isize + BlockSize
    BY <2>1, Constants
  <2>. QED  BY <2>2, BlocksIs
<1>. QED  BY <1>1, <1>2

LEMMA WriteAppendStep ==
    ASSUME IInv, WriteAppend
    PROVE  IInv'
<1>1. PICK b \in free : AppendDblk(b) /\ call' = Gathered(b, Blocks(isize))
  BY DEF WriteAppend
<1>2. /\ call.op = "fwrite" /\ Gathering(call.op) /\ call.idx >= Blocks(file.fsize)
      /\ UNCHANGED <<disk, file, cache_write_back, result>>
  BY DEF WriteAppend, Gathering, In
<1>3. /\ MapOK /\ CallInv /\ call.idx \in Nat /\ Blocks(file.fsize) \in Nat
      /\ call.idx \in 0..MaxBlocks - 1 /\ file.fsize \in Nat /\ isize \in Nat /\ MaxBlocks \in Nat
  BY <1>2, InCall, Parts, GatherFacts, BlocksOf, Constants
<1>4. Blocks(isize) = call.idx
  BY <1>2, <1>3, AppendsAtIdx DEF CallInv, WriteInv, Gathering, In
<1>5. /\ MapOK' /\ isize' = (call.idx + 1) * BlockSize /\ b \in Phys /\ blk'[call.idx] = b
      /\ \A i \in 0..MaxBlocks - 1 : i # call.idx => blk'[i] = blk[i]
  <2>1. Blocks(isize) < MaxBlocks
    BY <1>3, <1>4
  <2>. QED  BY <1>1, <1>3, <1>4, <2>1, AppendOK
<1>6. blk' \in Map
  BY <1>5 DEF MapOK
<1>7. /\ call' \in Calls /\ call' # Idle /\ ~call'.rr /\ call'.idx = call.idx + 1
      /\ call'.op = "fwrite" /\ call'.pc \in {"gather", "direct"}
      /\ call'.size = call.size /\ call'.size \in Nat
      /\ call'.from + call'.n = file'.fpos + call'.size
      /\ HeadInv' /\ GatherInv' /\ DirectInv' /\ TailInv'
  <2>1. call' = Gathered(b, call.idx) /\ file' = file
    BY <1>1, <1>2, <1>4
  <2>. QED  BY <1>2, <1>5, <1>6, <2>1, GatheredOK
<1>8. Grown'
  <2>1. ~(call.idx + 1 <= Blocks(file.fsize))
    BY <1>2, <1>3
  <2>. QED  BY <1>2, <1>5, <1>7, <2>1 DEF Grown, Blocks
<1>9. CallInv'
  BY <1>2, <1>7, <1>8, WriteGatheredInv DEF CallInv, ReadInv
<1>. QED  BY <1>2, <1>5, <1>7, <1>9, Parts, Whole

LEMMA AppendFailStep ==
    ASSUME IInv, AppendFail
    PROVE  IInv'
<1>1. /\ call.op = "fwrite" /\ Gathering(call.op) /\ call' = [call EXCEPT !.pc = "direct", !.rr = TRUE]
      /\ UNCHANGED <<disk, free, blk, isize, file, cache_write_back, result>>
  BY DEF AppendFail, Gathering, In
<1>2. call \in Calls /\ CallInv /\ MapOK /\ call.pc = "gather"
  BY <1>1, InCall, Parts DEF Gathering, In
<1>3. /\ call' \in Calls /\ call'.op = "fwrite" /\ call'.pc = "direct" /\ call'.rr = TRUE
      /\ call'.idx = call.idx /\ call'.count = call.count /\ call'.start = call.start
      /\ call'.size = call.size /\ call'.from = call.from /\ call'.n = call.n
  BY <1>1, <1>2 DEF Calls
<1>4. RunAt(call.idx - call.count)
  BY <1>1, GatherFacts
<1>5. HeadInv' /\ GatherInv' /\ DirectInv' /\ TailInv'
  BY <1>1, <1>3, <1>4 DEF HeadInv, GatherInv, DirectInv, TailInv, RunAt
<1>6. WriteInv'
  BY <1>1, <1>2, <1>3 DEF CallInv, WriteInv, Grown, Blocks
<1>7. CallInv' /\ call' # Idle
  BY <1>1, <1>2, <1>3, <1>5, <1>6 DEF CallInv, ReadInv, Idle
<1>. QED  BY <1>1, <1>2, <1>3, <1>7, Parts, MapUnchanged, Whole

-----------------------------------------------------------------------------
(* Moving a run                                                            *)
LEMMA RunHere ==
    ASSUME IInv, call.op \in {"fread", "fwrite"}, RunReady(call.op)
    PROVE  \E p \in Nat :
             /\ RunAt(p) /\ p + call.count <= MaxBlocks
             /\ \/ /\ call.pc = "gather" /\ ~call.rr /\ call.idx = p + call.count
                   /\ call.size - call.count * BlockSize < BlockSize
                \/ call.pc = "direct" /\ call.rr /\ call.idx = p + call.count
                \/ /\ call.pc = "direct" /\ ~call.rr /\ call.idx = p + call.count + 1
                   /\ (call.count + 1) * BlockSize <= call.size
                   /\ call.fblk # 0 /\ call.fblk = blk[p + call.count] /\ call.count > 0
<1>. DEFINE i == call.idx
            k == call.count
<1>1. /\ CallInv /\ call.size \in Nat /\ i \in Nat /\ k \in Nat /\ file.fpos \in Nat
      /\ call.rr \in BOOLEAN
  BY InCall, Parts
<1>2. ASSUME NEW p \in Nat, RunAt(p) PROVE p + k <= MaxBlocks
  <2>1. file.fpos = p * BlockSize /\ k * BlockSize <= call.size
    BY <1>2 DEF RunAt
  <2>2. /\ p * BlockSize \in Int /\ k * BlockSize \in Int /\ MaxBlocks * BlockSize \in Int
        /\ (p + k) * BlockSize = p * BlockSize + k * BlockSize /\ p + k \in Int /\ MaxBlocks \in Int
    BY <1>1, Constants
  <2>3. file.fpos + call.size <= MaxBlocks * BlockSize
    BY LastBlock, Constants
  <2>4. (p + k) * BlockSize <= MaxBlocks * BlockSize
    BY <1>1, <2>1, <2>2, <2>3
  <2>5. MaxBlocks < p + k => MaxBlocks * BlockSize < (p + k) * BlockSize
    BY <2>2, Scale
  <2>. QED  BY <2>2, <2>4, <2>5
<1>3. CASE call.pc = "gather"
  <2>1. call.size >= BlockSize /\ i >= IblockLast
    BY <1>3 DEF RunReady, In
  <2>2. RunAt(i - k) /\ ~call.rr
    BY <1>1, <1>3, <2>1 DEF CallInv, GatherInv, ReadInv, WriteInv
  <2>3. i - k \in Nat /\ file.fpos = (i - k) * BlockSize /\ i = (i - k) + k
    BY <1>1, <2>2 DEF RunAt
  <2>4. call.size - k * BlockSize < BlockSize
    <3>1. /\ IblockLast \in Nat /\ file.fpos + call.size < (IblockLast + 1) * BlockSize
          /\ (IblockLast + 1) * BlockSize = IblockLast * BlockSize + BlockSize
          /\ IblockLast * BlockSize \in Int
      BY LastBlock, Constants
    <3>2. IblockLast * BlockSize <= i * BlockSize
      <4>1. IblockLast \in Int /\ i \in Int /\ IblockLast <= i
        BY <1>1, <2>1, <3>1
      <4>. QED  BY <4>1, ScaleLeq, Zenon
    <3>3. i * BlockSize = (i - k) * BlockSize + k * BlockSize /\ i * BlockSize \in Int
          /\ (i - k) * BlockSize \in Int /\ k * BlockSize \in Int
      BY <1>1, Constants
    <3>4. file.fpos + call.size < i * BlockSize + BlockSize
      BY <1>1, <3>1, <3>2, <3>3, Constants
    <3>. QED  BY <1>1, <2>3, <3>3, <3>4, Constants
  <2>5. (i - k) + k <= MaxBlocks
    BY <1>2, <2>2, <2>3
  <2>. USE <2>3
  <2>. WITNESS i - k \in Nat
  <2>. QED  BY <1>3, <2>2, <2>3, <2>4, <2>5
<1>4. CASE call.pc = "direct" /\ call.rr
  <2>1. RunAt(i - k)
    BY <1>1, <1>4 DEF CallInv, DirectInv
  <2>2. i - k \in Nat /\ i = (i - k) + k
    BY <1>1, <2>1 DEF RunAt
  <2>3. (i - k) + k <= MaxBlocks
    BY <1>2, <2>1, <2>2
  <2>. USE <2>2
  <2>. WITNESS i - k \in Nat
  <2>. QED  BY <1>4, <2>1, <2>2, <2>3
<1>5. CASE call.pc = "direct" /\ ~call.rr
  <2>1. /\ RunAt(i - k - 1) /\ (k + 1) * BlockSize <= call.size
        /\ call.fblk # 0 /\ call.fblk = blk[i - 1] /\ k > 0
    BY <1>1, <1>5 DEF CallInv, DirectInv
  <2>2. i - k - 1 \in Nat /\ i = (i - k - 1) + k + 1 /\ i - 1 = (i - k - 1) + k
    BY <1>1, <2>1 DEF RunAt
  <2>3. (i - k - 1) + k <= MaxBlocks
    BY <1>2, <2>1, <2>2
  <2>. USE <2>2
  <2>. WITNESS i - k - 1 \in Nat
  <2>. QED  BY <1>5, <2>1, <2>2, <2>3
<1>. QED  BY <1>1, <1>3, <1>4, <1>5 DEF RunReady, In

\* What a write that goes no further finds at its end
LEMMA GrownEnd ==
    ASSUME Grown, call.idx \in Nat, file.fsize \in Nat, isize \in Nat
    PROVE  /\ file.fsize <= isize
           /\ call.idx * BlockSize > file.fsize => Blocks(isize) = call.idx
<1>. DEFINE m == Blocks(file.fsize)
            e == call.idx * BlockSize
<1>1. m \in Nat /\ file.fsize <= m * BlockSize /\ m * BlockSize < file.fsize + BlockSize
      /\ e \in Nat /\ m * BlockSize \in Int
  BY BlocksOf, Constants
<1>2. CASE call.idx <= m
  <2>1. isize = file.fsize
    BY <1>2 DEF Grown
  <2>2. e > file.fsize => Blocks(isize) = call.idx
    <3>1. e <= m * BlockSize
      BY <1>1, <1>2, ScaleLeq
    <3>2. e > file.fsize => e < file.fsize + BlockSize
      <4>. DEFINE x == m * BlockSize
      <4>1. e <= x /\ x < file.fsize + BlockSize /\ x \in Int /\ e \in Int
        BY <1>1, <3>1
      <4>. HIDE DEF e, x
      <4>. QED  BY <4>1, Constants
    <3>3. e > file.fsize => isize <= call.idx * BlockSize /\ call.idx * BlockSize < isize + BlockSize
      <4>1. e \in Nat
        BY <1>1
      <4>2. e > file.fsize => isize <= e /\ e < isize + BlockSize
        <5>. HIDE DEF e
        <5>. QED  BY <2>1, <3>2, <4>1
      <4>. QED  BY <4>2
    <3>. QED  BY <3>3, BlocksIs
  <2>. QED  BY <2>1, <2>2
<1>3. CASE ~(call.idx <= m)
  <2>1. isize = e
    BY <1>3 DEF Grown
  <2>2. m * BlockSize <= e
    <3>1. m \in Int /\ call.idx \in Int /\ m <= call.idx
      BY <1>1, <1>3
    <3>. QED  BY <3>1, ScaleLeq, Zenon
  <2>3. isize <= e /\ e < isize + BlockSize
    BY <1>1, <2>1, Constants
  <2>4. Blocks(isize) = call.idx
    BY <2>3, BlocksIs
  <2>5. file.fsize <= isize
    <3>. HIDE DEF m, e
    <3>. QED  BY <1>1, <2>1, <2>2
  <2>. QED  BY <2>4, <2>5
<1>. QED  BY <1>2, <1>3

LEMMA CallUpdate ==
    ASSUME NEW c \in Calls, NEW size \in Nat, NEW start \in {0} \cup Phys, NEW data \in Seq(Units),
           NEW pc \in {"head", "gather", "direct", "tail", "fsize"}
    PROVE  [c EXCEPT !.size = size, !.start = start, !.count = 1, !.pc = pc, !.data = data] \in Calls
<1>1. [c EXCEPT !.size = size, !.start = start, !.count = 1] \in Calls
  BY DEF Calls
<1>. DEFINE d == [c EXCEPT !.size = size, !.start = start, !.count = 1]
<1>2. [d EXCEPT !.pc = pc, !.data = data] \in Calls
  <2>. HIDE DEF d
  <2>. QED  BY <1>1 DEF Calls, d
<1>3. [d EXCEPT !.pc = pc, !.data = data]
        = [c EXCEPT !.size = size, !.start = start, !.count = 1, !.pc = pc, !.data = data]
  BY DEF Calls
<1>. QED  BY <1>2, <1>3

\* The run is moved; the block kept back begins the next one.
LEMMA RunMoved ==
    ASSUME IInv, call.op \in {"fread", "fwrite"}, RunReady(call.op),
           NEW data \in Seq(Units),
           call' = [NextRun EXCEPT !.pc = IF call.rr THEN "fsize" ELSE "gather", !.data = data],
           file' = Advanced(call.count * BlockSize), UNCHANGED <<free, blk, isize>>
    PROVE  /\ file' \in Files /\ call' \in Calls /\ call' # Idle
           /\ file'.fpos = file.fpos + call.count * BlockSize /\ file'.fsize = file.fsize
           /\ call'.op = call.op /\ call'.rr = call.rr /\ call'.idx = call.idx
           /\ call'.pc = IF call.rr THEN "fsize" ELSE "gather"
           /\ call'.size \in Nat /\ file'.fpos + call'.size = file.fpos + call.size
           /\ call'.from + call'.n = file'.fpos + call'.size
           /\ HeadInv' /\ GatherInv' /\ DirectInv' /\ TailInv'
           /\ call'.size = 0 \/ call'.pc = "fsize" => file'.fpos = call.idx * BlockSize
<1>. DEFINE k == call.count
            len == call.count * BlockSize
            pc == IF call.rr THEN "fsize" ELSE "gather"
<1>1. /\ call \in Calls /\ CallInv /\ call.size \in Nat /\ call.idx \in Nat /\ k \in Nat /\ file.fpos \in Nat
      /\ call.fblk \in {0} \cup Phys /\ call.rr \in BOOLEAN /\ file \in Files
      /\ call.from + call.n = file.fpos + call.size
  BY InCall, Parts DEF CallInv
<1>2. PICK p \in Nat :
        /\ RunAt(p) /\ p + k <= MaxBlocks
        /\ \/ /\ call.pc = "gather" /\ ~call.rr /\ call.idx = p + k
              /\ call.size - len < BlockSize
           \/ call.pc = "direct" /\ call.rr /\ call.idx = p + k
           \/ /\ call.pc = "direct" /\ ~call.rr /\ call.idx = p + k + 1
              /\ (k + 1) * BlockSize <= call.size
              /\ call.fblk # 0 /\ call.fblk = blk[p + k] /\ k > 0
  BY RunHere
<1>3. len \in Nat /\ len <= call.size /\ file.fpos = p * BlockSize
      /\ file.fpos + len = (p + k) * BlockSize
  <2>1. len <= call.size /\ file.fpos = p * BlockSize
    BY <1>2 DEF RunAt
  <2>2. len \in Nat /\ (p + k) * BlockSize = p * BlockSize + len
    <3>1. p \in Nat /\ k \in Nat /\ BlockSize \in Nat
      BY <1>1, Constants
    <3>. QED  BY <3>1
  <2>. QED  BY <2>1, <2>2
<1>4. call' = [call EXCEPT !.size = call.size - len, !.start = call.fblk, !.count = 1, !.pc = pc,
                           !.data = data]
  BY <1>1 DEF NextRun, Moved, Calls
<1>. HIDE DEF len, pc
<1>5. /\ call'.op = call.op /\ call'.pc = pc /\ call'.idx = call.idx /\ call'.rr = call.rr
      /\ call'.size = call.size - len /\ call'.from = call.from /\ call'.n = call.n
      /\ call'.count = 1 /\ call'.start = call.fblk
  BY <1>1, <1>4 DEF Calls
<1>6. call' \in Calls /\ call' # Idle
  <2>1. call.size - len \in Nat
    BY <1>1, <1>3
  <2>2. pc \in {"head", "gather", "direct", "tail", "fsize"}
    BY DEF pc
  <2>3. call' \in Calls
    <3>. DEFINE size == call.size - len
                fblk == call.fblk
    <3>1. call \in Calls /\ size \in Nat /\ fblk \in {0} \cup Phys
      BY <1>1, <2>1
    <3>2. call' = [call EXCEPT !.size = size, !.start = fblk, !.count = 1, !.pc = pc, !.data = data]
      BY <1>4
    <3>. HIDE DEF size, fblk
    <3>3. [call EXCEPT !.size = size, !.start = fblk, !.count = 1, !.pc = pc, !.data = data] \in Calls
      BY <2>2, <3>1, CallUpdate
    <3>. QED  BY <3>2, <3>3
  <2>. QED  BY <1>5, <2>3 DEF Idle
<1>7. file' \in Files /\ file'.fpos = file.fpos + len /\ file'.fsize = file.fsize
  <2>1. file.fpos + call.size <= MaxSize /\ MaxSize \in Nat
    BY LastBlock, Constants
  <2>2. file.fpos + len \in 0..MaxSize
    BY <1>1, <1>3, <2>1
  <2>. QED  BY <1>1, <2>2 DEF Advanced, Files, len
<1>8. call'.size \in Nat /\ file'.fpos + call'.size = file.fpos + call.size
  BY <1>1, <1>3, <1>5, <1>7
<1>9. file'.fpos = (p + k) * BlockSize
  BY <1>3, <1>7
<1>10. CASE call.pc = "direct" /\ ~call.rr
  <2>1. /\ call.idx = p + k + 1 /\ (k + 1) * BlockSize <= call.size /\ k > 0
        /\ call.fblk # 0 /\ call.fblk = blk[p + k] /\ pc = "gather"
    BY <1>2, <1>10 DEF pc
  <2>2. call'.size >= BlockSize /\ 1 * BlockSize = BlockSize
    <3>1. (k + 1) * BlockSize = len + BlockSize
      BY <1>1, Constants DEF len
    <3>2. len + BlockSize <= call.size /\ call'.size = call.size - len
      BY <1>5, <2>1, <3>1
    <3>3. len \in Nat /\ call.size \in Nat /\ BlockSize \in Nat
      BY <1>1, <1>3, Constants
    <3>. QED  BY <3>2, <3>3
  <2>3. RunAt(call.idx - call.count)'
    <3>1. call'.idx - call'.count = p + k /\ p + k \in Nat
      BY <1>1, <1>5, <2>1
    <3>2. call'.count * BlockSize <= call'.size
      BY <1>5, <2>2
    <3>3. \A c \in 0..call'.count - 1 : blk'[p + k + c] = call'.start + c
      <4>1. \A c \in 0..call'.count - 1 : c = 0
        BY <1>5
      <4>2. blk'[p + k + 0] = call'.start + 0
        BY <1>1, <1>5, <2>1, PhysAssumption
      <4>. QED  BY <4>1, <4>2
    <3>4. call'.start # 0 /\ call'.count # 0
      BY <1>5, <2>1
    <3>. HIDE DEF k
    <3>. QED  BY <1>9, <3>1, <3>2, <3>3, <3>4 DEF RunAt
  <2>4. HeadInv' /\ GatherInv' /\ DirectInv' /\ TailInv'
    BY <1>5, <1>8, <2>1, <2>2, <2>3, Constants DEF HeadInv, GatherInv, DirectInv, TailInv
  <2>5. call'.size # 0 /\ call'.pc # "fsize"
    BY <1>5, <2>1, <2>2, Constants
  <2>. QED  BY <1>1, <1>5, <1>6, <1>7, <1>8, <2>4, <2>5 DEF len, pc
<1>11. CASE call.pc = "gather" \/ call.rr
  <2>1. /\ call.idx = p + k
        /\ pc = "gather" => call.size - len < BlockSize
    BY <1>2, <1>11 DEF pc
  <2>2. pc = "gather" => call'.size < BlockSize
    BY <1>5, <2>1
  <2>3. HeadInv' /\ GatherInv' /\ DirectInv' /\ TailInv'
    <3>1. pc \in {"gather", "fsize"}
      BY DEF pc
    <3>2. ~(call'.pc = "gather" /\ call'.size >= BlockSize)
      BY <1>5, <1>8, <2>2, Constants
    <3>. QED  BY <1>5, <1>9, <2>1, <3>1, <3>2 DEF HeadInv, GatherInv, DirectInv, TailInv
  <2>4. file'.fpos = call.idx * BlockSize
    BY <1>9, <2>1
  <2>. QED  BY <1>1, <1>5, <1>6, <1>7, <1>8, <2>3, <2>4 DEF len, pc
<1>. QED  BY <1>2, <1>10, <1>11

LEMMA RunOwn ==
    ASSUME IInv, call.op \in {"fread", "fwrite"}, RunReady(call.op), UNCHANGED blk,
           NEW K \in SUBSET (0..call.count * BlockSize - 1), disk' = Stored(call.start, 0, K)
    PROVE  disk' \in Disks /\ Own
<1>. DEFINE b == call.start
            k == call.count
<1>1. /\ disk \in Disks /\ file.fpos \in Nat /\ call.v \in Vals \cup {Stale} /\ b \in Nat /\ k \in Nat
      /\ DOMAIN blk = 0..MaxBlocks - 1 /\ MaxBlocks \in Nat
  BY InCall, Parts, MapFacts, Constants
<1>2. PICK p \in Nat : RunAt(p) /\ p + k <= MaxBlocks
  BY RunHere
<1>3. (b = 0 <=> k = 0) /\ \A c \in 0..k - 1 : blk[p + c] = b + c
  BY <1>2 DEF RunAt
<1>. HIDE DEF b, k
<1>4. k * BlockSize \in Nat /\ K \in SUBSET Nat /\ \A x \in K : x \in Nat /\ x < k * BlockSize
  <2>1. k * BlockSize \in Nat
    BY <1>1, Constants
  <2>2. K \subseteq 0..k * BlockSize - 1
    BY DEF k
  <2>. QED  BY <2>1, <2>2
<1>5. /\ disk' \in Disks
      /\ \A c \in DOMAIN disk : disk'[c] # disk[c]
            => c \in Nat /\ \E o \in Offsets : (c - b) * BlockSize + o - 0 \in K
  <2>1. disk' = Stored(b, 0, K)
    BY DEF b
  <2>. QED  BY <1>1, <1>4, <2>1, StoredOK
<1>6. ASSUME NEW c \in Nat, NEW o \in Offsets, (c - b) * BlockSize + o - 0 \in K
      PROVE  c # 0 /\ \E i \in DOMAIN blk : blk[i] = c
  <2>1. c - b \in Int /\ (c - b) * BlockSize \in Int /\ o \in Nat
    BY <1>1, Constants DEF Offsets
  <2>2. /\ 0 <= (c - b) * BlockSize + o - 0 /\ (c - b) * BlockSize + o - 0 < k * BlockSize
    <3>1. \A x \in K : 0 <= x /\ x < k * BlockSize
      BY <1>4
    <3>. QED  BY <1>6, <3>1, Zenon
  <2>3. 0 <= (c - b) * BlockSize + o /\ (c - b) * BlockSize + o < k * BlockSize
    BY <2>1, <2>2
  <2>4. c - b \in 0..k - 1
    BY <1>1, <2>1, <2>3, Within, Zenon
  <2>5. /\ k # 0 /\ b # 0 /\ p + (c - b) \in 0..MaxBlocks - 1
    BY <1>1, <1>2, <1>3, <2>1, <2>4
  <2>6. blk[p + (c - b)] = b + (c - b)
    BY <1>3, <2>4
  <2>7. b + (c - b) = c /\ c # 0
    BY <1>1, <2>1, <2>4, <2>5
  <2>. QED  BY <1>1, <2>5, <2>6, <2>7
<1>. QED  BY <1>1, <1>5, <1>6 DEF Own

LEMMA WriteRunStep ==
    ASSUME IInv, WriteRun
    PROVE  IInv' /\ Own
<1>1. /\ call.op = "fwrite" /\ RunReady(call.op)
      /\ disk' = Stored(call.start, 0, 0..call.count * BlockSize - 1)
      /\ file' = Advanced(call.count * BlockSize)
      /\ call' = (IF call.rr THEN [NextRun EXCEPT !.pc = "fsize"] ELSE NextRun)
      /\ UNCHANGED <<free, blk, isize, cache_write_back, result>>
  BY DEF WriteRun, RunReady, In
<1>2. /\ MapOK /\ CallInv /\ call \in Calls /\ call.data \in Seq(Units) /\ call.rr \in BOOLEAN
      /\ call.pc # "fsize" /\ call.idx \in Nat /\ file.fsize \in Nat /\ isize \in Nat
      /\ file.fpos \in Nat /\ call.pc \in {"gather", "direct"}
  BY <1>1, InCall, Parts DEF RunReady, In
<1>3. call' = [NextRun EXCEPT !.pc = IF call.rr THEN "fsize" ELSE "gather", !.data = call.data]
  <2>1. CASE call.rr
    BY <1>1, <1>2, <2>1 DEF NextRun, Moved, Calls
  <2>2. CASE ~call.rr
    BY <1>1, <1>2, <2>2 DEF NextRun, Moved, Calls
  <2>. QED  BY <2>1, <2>2
<1>4. /\ file' \in Files /\ call' \in Calls /\ call' # Idle
      /\ file'.fsize = file.fsize
      /\ call'.op = "fwrite" /\ call'.rr = call.rr /\ call'.idx = call.idx
      /\ call'.pc = (IF call.rr THEN "fsize" ELSE "gather")
      /\ call'.size \in Nat /\ file'.fpos + call'.size = file.fpos + call.size
      /\ call'.from + call'.n = file'.fpos + call'.size
      /\ HeadInv' /\ GatherInv' /\ DirectInv' /\ TailInv'
      /\ call'.size = 0 \/ call'.pc = "fsize" => file'.fpos = call.idx * BlockSize
  BY <1>1, <1>2, <1>3, RunMoved
<1>5. disk' \in Disks /\ Own
  BY <1>1, RunOwn
<1>6. Grown /\ file.fpos + call.size <= MaxSize /\ cache_write_back >= 1
  BY <1>1, <1>2 DEF CallInv, WriteInv
<1>7. Grown'
  BY <1>1, <1>4, <1>6 DEF Grown, Blocks
<1>8. call'.size = 0 \/ call'.pc = "fsize" => AtEnd'
  <2>1. ASSUME file'.fpos = call.idx * BlockSize
        PROVE  AtEnd'
    <3>1. /\ file.fsize <= isize
          /\ call.idx * BlockSize > file.fsize => Blocks(isize) = call.idx
      BY <1>2, <1>6, GrownEnd
    <3>2. call.idx * BlockSize \in Nat /\ Blocks(call.idx * BlockSize) = call.idx
      <4>1. /\ call.idx * BlockSize \in Nat
            /\ call.idx * BlockSize < call.idx * BlockSize + BlockSize
        BY <1>2, Constants
      <4>. QED  BY <1>2, <4>1, BlocksIs
    <3>3. Blocks(isize)' = Blocks(isize) /\ Blocks(file.fpos)' = Blocks(call.idx * BlockSize)
      BY <1>1, <2>1 DEF Blocks
    <3>. QED  BY <1>1, <1>4, <2>1, <3>1, <3>2, <3>3 DEF AtEnd
  <2>. QED  BY <1>4, <2>1
<1>9. WriteInv'
  BY <1>1, <1>4, <1>6, <1>7, <1>8 DEF WriteInv
<1>10. CallInv'
  BY <1>4, <1>9 DEF CallInv, ReadInv
<1>. QED  BY <1>1, <1>2, <1>4, <1>5, <1>10, Parts, MapUnchanged, Whole

LEMMA ReadRunStep ==
    ASSUME IInv, ReadRun
    PROVE  IInv'
<1>. DEFINE len == call.count * BlockSize
            read == ReadFrom(call.start, 0, len)
<1>1. /\ call.op = "fread" /\ RunReady(call.op) /\ file' = Advanced(len)
      /\ call' = [NextRun EXCEPT !.data = @ \o read]
      /\ UNCHANGED <<disk, free, blk, isize, cache_write_back, result>>
  BY DEF ReadRun, RunReady, In
<1>2. /\ MapOK /\ CallInv /\ call \in Calls /\ call.data \in Seq(Units) /\ disk \in Disks
      /\ call.start \in Nat /\ call.count \in Nat /\ len \in Nat /\ MaxBlocks \in Nat
  <2>1. /\ MapOK /\ CallInv /\ call \in Calls /\ call.data \in Seq(Units) /\ disk \in Disks
        /\ call.start \in Nat /\ call.count \in Nat /\ MaxBlocks \in Nat
    BY <1>1, InCall, Parts, Constants, Zenon
  <2>2. len \in Nat
    BY <2>1, Constants
  <2>. QED  BY <2>1, <2>2
<1>3. ~call.rr /\ file.fsize = isize /\ file.fpos + call.size <= isize
  BY <1>1, <1>2 DEF CallInv, ReadInv
<1>4. read \in Seq(Units)
  <2>1. PICK p \in Nat : RunAt(p) /\ p + call.count <= MaxBlocks
    BY <1>1, RunHere
  <2>2. ASSUME NEW d \in Nat, d * BlockSize < 0 + len
        PROVE  call.start + d \in {0} \cup Phys
    <3>1. d * BlockSize < call.count * BlockSize /\ d \in Int /\ call.count \in Int
      BY <1>2, <2>2, Constants
    <3>2. d < call.count
      BY <3>1, ScaleLess, Zenon
    <3>3. blk[p + d] = call.start + d /\ p + d \in 0..MaxBlocks - 1
      BY <1>2, <2>1, <3>2 DEF RunAt
    <3>. QED  BY <1>2, <3>3, MapFacts
  <2>. HIDE DEF len
  <2>. QED  BY <1>2, <2>2, ReadFromOK
<1>5. call.data \o read \in Seq(Units)
  BY <1>2, <1>4
<1>6. call' = [NextRun EXCEPT !.pc = IF call.rr THEN "fsize" ELSE "gather", !.data = call.data \o read]
  <2>. HIDE DEF len, read
  <2>. QED  BY <1>1, <1>2, <1>3 DEF NextRun, Moved, Calls
<1>. HIDE DEF read
<1>7. /\ file' \in Files /\ call' \in Calls /\ call' # Idle
      /\ file'.fsize = file.fsize
      /\ call'.op = "fread" /\ call'.rr = call.rr /\ call'.pc = (IF call.rr THEN "fsize" ELSE "gather")
      /\ call'.size \in Nat /\ file'.fpos + call'.size = file.fpos + call.size
      /\ call'.from + call'.n = file'.fpos + call'.size
      /\ HeadInv' /\ GatherInv' /\ DirectInv' /\ TailInv'
  BY <1>1, <1>5, <1>6, RunMoved
<1>8. CallInv'
  BY <1>1, <1>3, <1>7 DEF CallInv, ReadInv, WriteInv
<1>. QED  BY <1>1, <1>2, <1>7, <1>8, Parts, MapUnchanged, Whole

LEMMA WriteRunsDoneStep ==
    ASSUME IInv, WriteRunsDone
    PROVE  IInv'
<1>1. /\ call.op = "fwrite" /\ call.pc = "gather" /\ call.size < BlockSize
      /\ call' = [call EXCEPT !.pc = "tail"] /\ cache_write_back' = cache_write_back - 1
      /\ UNCHANGED <<disk, free, blk, isize, file, result>>
  BY DEF WriteRunsDone, RunsDone, In
<1>2. call \in Calls /\ CallInv /\ MapOK
  BY <1>1, InCall, Parts
<1>3. /\ call' \in Calls /\ call'.op = "fwrite" /\ call'.pc = "tail" /\ call'.rr = call.rr
      /\ call'.idx = call.idx /\ call'.size = call.size
      /\ call'.from = call.from /\ call'.n = call.n
  BY <1>1, <1>2 DEF Calls
<1>4. HeadInv' /\ GatherInv' /\ DirectInv' /\ TailInv'
  BY <1>1, <1>2, <1>3 DEF CallInv, HeadInv, GatherInv, DirectInv, TailInv
<1>5. Grown' = Grown /\ AtEnd' = AtEnd
  BY <1>1, <1>3 DEF Grown, AtEnd, Blocks
<1>6. cache_write_back >= 1 /\ ~call.rr
  BY <1>1, <1>2 DEF CallInv, WriteInv
<1>7. WriteInv'
  BY <1>1, <1>2, <1>3, <1>5, <1>6 DEF CallInv, WriteInv
<1>8. CallInv' /\ call' # Idle
  BY <1>1, <1>2, <1>3, <1>4, <1>7 DEF CallInv, ReadInv, Idle
<1>9. cache_write_back' \in 0..MaxWriteBack
  BY <1>1, <1>6, Parts, Constants
<1>. QED  BY <1>1, <1>2, <1>3, <1>8, <1>9, Parts, MapUnchanged, Whole

-----------------------------------------------------------------------------
(* The tail                                                                *)
LEMMA BelowBlocks ==
    ASSUME NEW i \in Nat, NEW s \in Nat, i < Blocks(s)
    PROVE  i * BlockSize < s
<1>. DEFINE m == Blocks(s)
            x == i * BlockSize
            y == m * BlockSize
<1>1. m \in Nat /\ y < s + BlockSize /\ BlockSize \in Nat /\ x \in Int /\ y \in Int
  BY BlocksOf, Constants
<1>2. x + BlockSize <= y
  <2>1. i \in Int /\ m \in Int /\ i < m
    BY <1>1
  <2>. HIDE DEF m
  <2>. QED  BY <2>1, Scale
<1>. HIDE DEF x, y
<1>3. x < s
  BY <1>1, <1>2
<1>. QED  BY <1>3 DEF x

LEMMA TailFacts ==
    ASSUME IInv, call.op = "fwrite", call.pc = "tail", call.size > 0
    PROVE  /\ CallInv /\ MapOK /\ call \in Calls /\ Grown
           /\ call.idx \in 0..MaxBlocks - 1 /\ call.idx \in Nat /\ call.size \in Nat
           /\ file.fpos = call.idx * BlockSize /\ file.fpos \in Nat
           /\ call.size < BlockSize /\ file.fpos + call.size <= MaxSize
           /\ file.fsize \in Nat /\ isize \in Nat
           /\ Blocks(file.fpos + call.size) = call.idx + 1
<1>1. /\ CallInv /\ MapOK /\ call \in Calls /\ call.idx \in Nat /\ call.size \in Nat /\ file.fpos \in Nat
      /\ file.fsize \in Nat /\ isize \in Nat
  BY InCall, Parts
<1>2. /\ Grown /\ file.fpos = call.idx * BlockSize /\ call.size < BlockSize
      /\ file.fpos + call.size <= MaxSize
  BY <1>1 DEF CallInv, WriteInv, TailInv
<1>3. call.idx < MaxBlocks
  <2>1. call.idx * BlockSize < MaxBlocks * BlockSize /\ call.idx \in Int /\ MaxBlocks \in Int
    BY <1>1, <1>2, Constants
  <2>. QED  BY <2>1, ScaleLess, Zenon
<1>4. Blocks(file.fpos + call.size) = call.idx + 1
  <2>. DEFINE x == (call.idx + 1) * BlockSize
  <2>1. x = file.fpos + BlockSize /\ BlockSize \in Nat
    BY <1>1, <1>2, Constants
  <2>2. file.fpos + call.size <= x /\ x < file.fpos + call.size + BlockSize
    BY <1>1, <1>2, <2>1
  <2>. QED  BY <1>1, <2>2, BlocksIs
<1>. QED  BY <1>1, <1>2, <1>3, <1>4, Constants

LEMMA TailOwn ==
    ASSUME IInv, call.op = "fwrite", call.pc = "tail", call.size > 0,
           NEW b \in Nat, b # 0, \E i \in DOMAIN blk : blk'[i] = b,
           NEW K \in SUBSET (0..call.size - 1), disk' = Stored(b, 0, K)
    PROVE  disk' \in Disks /\ Own
<1>1. /\ disk \in Disks /\ file.fpos \in Nat /\ call.v \in Vals \cup {Stale} /\ call.size \in Nat
      /\ call.size < BlockSize /\ BlockSize \in Nat
  BY InCall, Parts, TailFacts, Constants
<1>2. K \in SUBSET Nat /\ \A k \in K : 0 <= k /\ k < call.size
  BY <1>1
<1>3. /\ disk' \in Disks
      /\ \A c \in DOMAIN disk : disk'[c] # disk[c]
            => c \in Nat /\ \E o \in Offsets : (c - b) * BlockSize + o - 0 \in K
  BY <1>1, <1>2, StoredOK
<1>4. ASSUME NEW c \in Nat, NEW o \in Offsets, (c - b) * BlockSize + o - 0 \in K
      PROVE  c = b
  <2>1. /\ c - b \in Int /\ (c - b) * BlockSize \in Int /\ o \in Nat /\ 1 * BlockSize = BlockSize
        /\ 1 \in Nat
    BY <1>1 DEF Offsets
  <2>2. 0 <= (c - b) * BlockSize + o - 0 /\ (c - b) * BlockSize + o - 0 < call.size
    BY <1>2, <1>4, Zenon
  <2>3. 0 <= (c - b) * BlockSize + o /\ (c - b) * BlockSize + o < 1 * BlockSize
    BY <1>1, <2>1, <2>2
  <2>4. c - b \in 0..1 - 1
    BY <2>1, <2>3, Within, Zenon
  <2>. QED  BY <2>4
<1>. QED  BY <1>3, <1>4 DEF Own

LEMMA CallEnds ==
    ASSUME NEW c \in Calls
    PROVE  [c EXCEPT !.size = 0, !.pc = "fsize"] \in Calls
BY DEF Calls

\* The tail has been written, and the size is that of the blocks.
LEMMA AfterTail ==
    ASSUME IInv, call.op = "fwrite", call.pc = "tail", call.size > 0,
           call' = [Moved(call, call.size) EXCEPT !.pc = "fsize"], file' = Advanced(call.size),
           isize' \in Nat, file.fsize <= isize',
           file.fpos + call.size > file.fsize => Blocks(isize') = call.idx + 1
    PROVE  call' \in Calls /\ call' # Idle /\ CallInv' /\ file' \in Files
<1>1. /\ CallInv /\ call \in Calls /\ call.size \in Nat /\ file.fpos \in Nat
      /\ file.fpos + call.size <= MaxSize /\ Blocks(file.fpos + call.size) = call.idx + 1
      /\ file \in Files /\ call.from + call.n = file.fpos + call.size /\ MaxSize \in Nat
      /\ ~call.rr /\ call.from \in Nat /\ call.n \in Nat
  BY TailFacts, InCall, Parts, Constants DEF CallInv, WriteInv
<1>2. call' = [call EXCEPT !.size = 0, !.pc = "fsize"]
  <2>1. call.size - call.size = 0
    BY <1>1
  <2>. QED  BY <1>1, <2>1 DEF Moved, Calls
<1>3. /\ call' \in Calls /\ call'.op = "fwrite" /\ call'.pc = "fsize" /\ call'.size = 0
      /\ call'.from = call.from /\ call'.n = call.n
  <2>1. call \in Calls
    BY <1>1
  <2>2. call' \in Calls
    BY <1>2, <2>1, CallEnds
  <2>. QED  BY <1>2, <2>1, <2>2 DEF Calls
<1>4. file' \in Files /\ file'.fpos = file.fpos + call.size /\ file'.fsize = file.fsize
  <2>1. file.fpos + call.size \in 0..MaxSize
    BY <1>1
  <2>. QED  BY <1>1, <2>1 DEF Advanced, Files
<1>5. AtEnd'
  <2>1. Blocks(isize)' = Blocks(isize') /\ Blocks(file.fpos)' = Blocks(file.fpos + call.size)
    BY <1>4 DEF Blocks
  <2>. QED  BY <1>1, <1>4, <2>1 DEF AtEnd
<1>6. HeadInv' /\ GatherInv' /\ DirectInv' /\ TailInv'
  BY <1>3 DEF HeadInv, GatherInv, DirectInv, TailInv
<1>7. WriteInv'
  BY <1>1, <1>3, <1>4, <1>5 DEF WriteInv
<1>8. CallInv'
  BY <1>1, <1>3, <1>4, <1>6, <1>7 DEF CallInv, ReadInv
<1>. QED  BY <1>3, <1>4, <1>8 DEF Idle

LEMMA TailMapped ==
    ASSUME IInv, call.op = "fwrite", call.pc = "tail", call.size > 0,
           call.idx < Blocks(file.fsize)
    PROVE  /\ isize = file.fsize /\ Dblk(call.idx) = blk[call.idx]
           /\ blk[call.idx] \in Phys /\ blk[call.idx] # 0 /\ call.idx \in DOMAIN blk
           /\ file.fpos < isize
           /\ file.fpos + call.size > file.fsize => Blocks(isize) = call.idx + 1
<1>1. /\ MapOK /\ Grown /\ call.idx \in 0..MaxBlocks - 1 /\ call.idx \in Nat /\ file.fsize \in Nat
      /\ file.fpos = call.idx * BlockSize /\ call.size < BlockSize /\ call.size \in Nat
      /\ file.fpos \in Nat /\ BlockSize \in Nat
  BY TailFacts, Constants
<1>2. isize = file.fsize
  BY <1>1, BlocksOf DEF Grown
<1>3. /\ Dblk(call.idx) = blk[call.idx] /\ blk[call.idx] \in Phys /\ blk[call.idx] # 0
      /\ call.idx \in DOMAIN blk
  BY <1>1, <1>2, MappedBelow, MapFacts
<1>4. file.fpos < isize
  BY <1>1, <1>2, BelowBlocks
<1>5. file.fpos + call.size > file.fsize => Blocks(isize) = call.idx + 1
  <2>. DEFINE x == (call.idx + 1) * BlockSize
  <2>1. x = file.fpos + BlockSize
    BY <1>1
  <2>2. file.fpos + call.size > file.fsize => isize <= x /\ x < isize + BlockSize
    <3>. HIDE DEF x
    <3>. QED  BY <1>1, <1>2, <1>4, <2>1
  <2>. QED  BY <1>1, <1>2, <2>2, BlocksIs
<1>. QED  BY <1>2, <1>3, <1>4, <1>5

LEMMA TailAppends ==
    ASSUME IInv, call.op = "fwrite", call.pc = "tail", call.size > 0,
           call.idx >= Blocks(file.fsize), NEW b \in free, AppendDblk(b)
    PROVE  /\ MapOK' /\ b \in Phys /\ b # 0 /\ blk'[call.idx] = b /\ call.idx \in DOMAIN blk
           /\ isize' \in Nat /\ file.fsize <= isize' /\ file.fpos <= isize'
           /\ Blocks(isize') = call.idx + 1
<1>1. /\ MapOK /\ Grown /\ call.idx \in 0..MaxBlocks - 1 /\ call.idx \in Nat /\ file.fsize \in Nat
      /\ file.fpos = call.idx * BlockSize /\ isize \in Nat /\ MaxBlocks \in Nat /\ BlockSize \in Nat
      /\ BlockSize > 0
  BY TailFacts, Constants
<1>2. Blocks(isize) = call.idx
  BY <1>1, AppendsAtIdx
<1>3. /\ MapOK' /\ isize' = (call.idx + 1) * BlockSize /\ b \in Phys /\ b # 0
      /\ blk'[call.idx] = b
  BY <1>1, <1>2, AppendOK
<1>4. isize' = file.fpos + BlockSize /\ file.fpos \in Nat
  <2>1. (call.idx + 1) * BlockSize = call.idx * BlockSize + BlockSize /\ call.idx * BlockSize \in Nat
    BY <1>1
  <2>. QED  BY <1>1, <1>3, <2>1
<1>5. file.fsize <= file.fpos
  <2>1. /\ Blocks(file.fsize) \in Nat /\ file.fsize <= Blocks(file.fsize) * BlockSize
    BY <1>1, BlocksOf
  <2>2. Blocks(file.fsize) * BlockSize <= call.idx * BlockSize
    <3>1. Blocks(file.fsize) \in Int /\ call.idx \in Int /\ Blocks(file.fsize) <= call.idx
      BY <1>1, <2>1
    <3>. QED  BY <3>1, ScaleLeq, Zenon
  <2>3. Blocks(file.fsize) * BlockSize \in Int
    BY <1>1, <2>1
  <2>. QED  BY <1>1, <1>4, <2>1, <2>2, <2>3
<1>6. Blocks(isize') = call.idx + 1
  <2>1. isize' <= (call.idx + 1) * BlockSize /\ (call.idx + 1) * BlockSize < isize' + BlockSize
        /\ isize' \in Nat
    BY <1>1, <1>3, <1>4
  <2>. QED  BY <1>1, <2>1, BlocksIs
<1>7. call.idx \in DOMAIN blk
  BY <1>1, MapFacts
<1>8. isize' \in Nat /\ file.fsize <= isize' /\ file.fpos <= isize'
  BY <1>1, <1>4, <1>5
<1>. QED  BY <1>3, <1>6, <1>7, <1>8

LEMMA WriteTailStep ==
    ASSUME IInv, WriteTail
    PROVE  IInv' /\ Own
<1>1. /\ call.op = "fwrite" /\ call.pc = "tail" /\ call.size > 0
      /\ call' = [Moved(call, call.size) EXCEPT !.pc = "fsize"] /\ file' = Advanced(call.size)
      /\ UNCHANGED <<cache_write_back, result>>
  BY DEF WriteTail, In
<1>2. 0..call.size - 1 \in SUBSET (0..call.size - 1) /\ call.idx \in Nat
  BY <1>1, TailFacts
<1>3. CASE /\ call.idx < Blocks(file.fsize)
           /\ disk' = Stored(Dblk(call.idx), 0, 0..call.size - 1) /\ UNCHANGED <<free, blk, isize>>
  <2>1. /\ isize = file.fsize /\ Dblk(call.idx) = blk[call.idx] /\ isize \in Nat
        /\ blk[call.idx] \in Nat /\ blk[call.idx] # 0 /\ call.idx \in DOMAIN blk
        /\ file.fpos + call.size > file.fsize => Blocks(isize) = call.idx + 1
    BY <1>1, <1>3, TailMapped, PhysAssumption, Parts
  <2>2. disk' \in Disks /\ Own
    BY <1>1, <1>2, <1>3, <2>1, TailOwn
  <2>3. /\ call' \in Calls /\ call' # Idle /\ CallInv' /\ file' \in Files
    BY <1>1, <1>3, <2>1, AfterTail
  <2>. QED  BY <1>1, <1>3, <2>2, <2>3, Parts, MapUnchanged, Whole
<1>4. CASE /\ call.idx >= Blocks(file.fsize)
           /\ \E b \in free : AppendDblk(b) /\ disk' = Stored(b, 0, 0..call.size - 1)
  <2>1. PICK b \in free : AppendDblk(b) /\ disk' = Stored(b, 0, 0..call.size - 1)
    BY <1>4
  <2>2. /\ MapOK' /\ b \in Nat /\ b # 0 /\ blk'[call.idx] = b /\ call.idx \in DOMAIN blk
        /\ isize' \in Nat /\ file.fsize <= isize' /\ Blocks(isize') = call.idx + 1
    BY <1>1, <1>4, <2>1, TailAppends, PhysAssumption
  <2>3. disk' \in Disks /\ Own
    BY <1>1, <1>2, <2>1, <2>2, TailOwn
  <2>4. /\ call' \in Calls /\ call' # Idle /\ CallInv' /\ file' \in Files
    BY <1>1, <2>2, AfterTail
  <2>. QED  BY <1>1, <2>2, <2>3, <2>4, Parts, Whole
<1>. QED  BY <1>3, <1>4 DEF WriteTail

LEMMA TailFailStep ==
    ASSUME IInv, TailFail
    PROVE  IInv'
<1>1. /\ call.op = "fwrite" /\ call.pc = "tail" /\ call.size > 0
      /\ call' = [call EXCEPT !.pc = "fsize"]
      /\ UNCHANGED <<disk, free, blk, isize, file, cache_write_back, result>>
  BY DEF TailFail, In
<1>2. /\ CallInv /\ MapOK /\ call \in Calls /\ Grown /\ call.idx \in Nat /\ call.size \in Nat
      /\ file.fpos = call.idx * BlockSize /\ file.fsize \in Nat /\ isize \in Nat
  BY <1>1, TailFacts
<1>3. /\ call' \in Calls /\ call'.op = "fwrite" /\ call'.pc = "fsize" /\ call'.size = call.size
      /\ call'.from = call.from /\ call'.n = call.n /\ call'.rr = call.rr
  BY <1>1, <1>2 DEF Calls
<1>4. AtEnd'
  <2>1. /\ file.fsize <= isize
        /\ file.fpos > file.fsize => Blocks(isize) = call.idx
    BY <1>2, GrownEnd
  <2>2. Blocks(file.fpos) = call.idx
    BY <1>2, BlocksIs, Constants
  <2>3. Blocks(isize)' = Blocks(isize) /\ Blocks(file.fpos)' = Blocks(file.fpos)
    BY <1>1 DEF Blocks
  <2>. QED  BY <1>1, <2>1, <2>2, <2>3 DEF AtEnd
<1>5. HeadInv' /\ GatherInv' /\ DirectInv' /\ TailInv'
  BY <1>3 DEF HeadInv, GatherInv, DirectInv, TailInv
<1>6. WriteInv'
  BY <1>1, <1>2, <1>3, <1>4 DEF CallInv, WriteInv
<1>7. CallInv' /\ call' # Idle
  BY <1>1, <1>2, <1>3, <1>5, <1>6 DEF CallInv, ReadInv, Idle
<1>. QED  BY <1>1, <1>2, <1>3, <1>7, Parts, MapUnchanged, Whole

LEMMA ReadTailStep ==
    ASSUME IInv, ReadTail
    PROVE  IInv'
<1>. DEFINE read == ReadFrom(Dblk(call.idx), 0, call.size)
<1>1. /\ call.op = "fread" /\ call.pc = "gather" /\ call.size < BlockSize
      /\ result' = call.data \o read /\ file' = Advanced(call.size) /\ call' = Idle
      /\ UNCHANGED <<disk, free, blk, isize, cache_write_back>>
  BY DEF ReadTail, RunsDone, In
<1>2. /\ CallInv /\ MapOK /\ call.data \in Seq(Units) /\ call.size \in Nat /\ call.idx \in Nat
      /\ disk \in Disks /\ file \in Files /\ file.fpos \in Nat /\ isize \in Nat /\ isize <= MaxSize
      /\ MaxSize \in Nat /\ MaxBlocks \in Nat
  BY <1>1, InCall, Parts, Constants
<1>3. /\ file.fsize = isize /\ file.fpos + call.size <= isize
      /\ call.size > 0 => file.fpos = call.idx * BlockSize
  BY <1>1, <1>2 DEF CallInv, ReadInv, TailInv
<1>4. Dblk(call.idx) \in {0} \cup Phys /\ Dblk(call.idx) \in Nat
  <2>1. CASE call.idx >= MaxBlocks
    BY <2>1 DEF Dblk
  <2>2. CASE ~(call.idx >= MaxBlocks)
    <3>1. call.idx \in 0..MaxBlocks - 1
      BY <1>2, <2>2
    <3>2. Dblk(call.idx) \in {0} \cup Phys
      BY <1>2, <3>1, MapFacts
    <3>3. {0} \cup Phys \subseteq Nat
      BY PhysAssumption
    <3>. QED  BY <3>2, <3>3, Zenon
  <2>. QED  BY <2>1, <2>2
<1>5. \A d \in Nat : d * BlockSize < 0 + call.size => d = 0
  <2>. SUFFICES ASSUME NEW d \in Nat, d * BlockSize < 0 + call.size PROVE d = 0
    OBVIOUS
  <2>1. d * BlockSize < 1 * BlockSize /\ d \in Int /\ 1 \in Int
    BY <1>1, <1>2, Constants
  <2>2. d < 1
    BY <2>1, ScaleLess, Zenon
  <2>. QED  BY <2>2
<1>6. read \in Seq(Units)
  <2>1. \A d \in Nat : d * BlockSize < 0 + call.size => Dblk(call.idx) + d \in {0} \cup Phys
    BY <1>4, <1>5
  <2>. QED  BY <1>2, <1>4, <2>1, ReadFromOK
<1>. HIDE DEF read
<1>7. result' \in Seq(Units)
  BY <1>1, <1>2, <1>6
<1>8. file' \in Files /\ IdleInv'
  <2>1. file.fpos + call.size \in 0..MaxSize
    BY <1>2, <1>3
  <2>2. file' \in Files /\ file'.fpos = file.fpos + call.size /\ file'.fsize = file.fsize
    BY <1>1, <1>2, <2>1 DEF Advanced, Files
  <2>. QED  BY <1>1, <1>2, <1>3, <2>2 DEF IdleInv
<1>. QED  BY <1>1, <1>2, <1>7, <1>8, Parts, MapUnchanged, Whole

-----------------------------------------------------------------------------
(* The ends of a call                                                      *)
LEMMA OutFsizeStep ==
    ASSUME IInv, OutFsize
    PROVE  IInv'
<1>1. /\ call.op = "fwrite" /\ (call.pc = "fsize" \/ (call.pc = "tail" /\ call.size = 0))
      /\ call' = Idle /\ UNCHANGED <<disk, free, blk, cache_write_back, result>>
  BY DEF OutFsize, In
<1>2. /\ CallInv /\ MapOK /\ file \in Files /\ file.fpos \in Nat /\ file.fsize \in Nat /\ isize \in Nat
      /\ file.fpos <= MaxSize /\ MaxSize \in Nat
  BY <1>1, InCall, Parts, Constants
<1>3. AtEnd
  BY <1>1, <1>2 DEF CallInv, WriteInv
<1>4. CASE file.fpos > file.fsize /\ file' = [file EXCEPT !.fsize = file.fpos] /\ isize' = file.fpos
  <2>1. Blocks(isize') = Blocks(isize) /\ isize' \in 0..MaxSize
    BY <1>2, <1>3, <1>4 DEF AtEnd
  <2>2. MapOK'
    BY <1>1, <1>2, <2>1 DEF MapOK, BlocksAccounted, SizeMatchesMap, Blocks
  <2>3. file' \in Files /\ IdleInv'
    BY <1>2, <1>4 DEF Files, IdleInv
  <2>. QED  BY <1>1, <2>2, <2>3, Parts, Whole
<1>5. CASE ~(file.fpos > file.fsize) /\ UNCHANGED <<file, isize>>
  <2>1. IdleInv'
    BY <1>2, <1>3, <1>5 DEF AtEnd, IdleInv
  <2>. QED  BY <1>1, <1>2, <1>5, <2>1, Parts, MapUnchanged, Whole
<1>. QED  BY <1>4, <1>5 DEF OutFsize

LEMMA ReadFailStep ==
    ASSUME IInv, ReadFail, Regular
    PROVE  IInv'
<1>1. /\ call.op = "fread" /\ call' = Idle /\ MayFail
      /\ UNCHANGED <<disk, free, blk, isize, file, cache_write_back, result>>
  BY DEF ReadFail, RunReady, RunsDone, In
<1>2. CallInv /\ MapOK /\ file.fpos \in Nat /\ isize \in Nat /\ call.size \in Nat
  BY <1>1, InCall, Parts
<1>3. IdleInv'
  BY <1>1, <1>2 DEF CallInv, ReadInv, IdleInv, Regular
<1>. QED  BY <1>1, <1>2, <1>3, Parts, MapUnchanged, Whole

\* What a failed write has read or written lies below the size.
LEMMA GrownPos ==
    ASSUME Grown, call.idx \in Nat, file.fsize \in Nat, isize \in Nat, NEW q \in Nat, q < call.idx
    PROVE  q * BlockSize <= isize
<1>1. CASE call.idx <= Blocks(file.fsize)
  <2>1. isize = file.fsize /\ Blocks(file.fsize) \in Nat
    BY <1>1, BlocksOf DEF Grown
  <2>2. q < Blocks(file.fsize)
    BY <1>1, <2>1
  <2>3. q * BlockSize < file.fsize /\ q * BlockSize \in Int
    BY <2>2, BelowBlocks, Constants
  <2>. QED  BY <2>1, <2>3
<1>2. CASE ~(call.idx <= Blocks(file.fsize))
  <2>1. isize = call.idx * BlockSize
    BY <1>2 DEF Grown
  <2>2. q \in Int /\ call.idx \in Int /\ q <= call.idx
    OBVIOUS
  <2>. QED  BY <2>1, <2>2, ScaleLeq, Zenon
<1>. QED  BY <1>1, <1>2

LEMMA FailedAt ==
    ASSUME IInv, Regular, MayFail, MapOK', disk' \in Disks, call' = Idle, UNCHANGED <<file, result>>,
           cache_write_back' \in 0..MaxWriteBack, file.fpos <= isize', file.fsize <= isize'
    PROVE  IInv'
<1>1. IdleInv'
  BY DEF IdleInv, Regular
<1>. QED  BY <1>1, Parts, Whole

LEMMA WriteFailStep ==
    ASSUME IInv, WriteFail, Regular
    PROVE  IInv' /\ Own
<1>1. MayFail /\ call' = Idle /\ UNCHANGED <<file, result>>
  BY DEF WriteFail
<1>2. CASE /\ In("fwrite", "head")
           /\ \E K \in SUBSET (0..HeadLen - 1) : disk' = Stored(Dblk(call.idx), Unaligned, K)
           /\ UNCHANGED <<free, blk, isize, cache_write_back>>
  <2>1. call.op = "fwrite" /\ call.pc = "head"
    BY <1>2 DEF In
  <2>2. /\ CallInv /\ MapOK /\ call.idx \in Nat /\ file.fsize \in Nat /\ isize \in Nat
        /\ cache_write_back \in 0..MaxWriteBack
    BY <2>1, InCall, Parts
  <2>3. disk' \in Disks /\ Own
    BY <1>2, <2>1, HeadOwn
  <2>4. Grown /\ file.fpos <= isize
    BY <2>1, <2>2 DEF CallInv, WriteInv, HeadInv
  <2>5. file.fsize <= isize
    BY <2>2, <2>4, GrownEnd
  <2>6. MapOK'
    BY <1>2, <2>2, MapUnchanged
  <2>. QED  BY <1>1, <1>2, <2>2, <2>3, <2>4, <2>5, <2>6, FailedAt
<1>3. CASE /\ RunReady("fwrite") /\ call.count > 0
           /\ \E K \in SUBSET (0..call.count * BlockSize - 1) : disk' = Stored(call.start, 0, K)
           /\ cache_write_back' = cache_write_back - 1
           /\ UNCHANGED <<free, blk, isize>>
  <2>1. call.op = "fwrite" /\ RunReady(call.op) /\ call.pc \in {"gather", "direct"}
    BY <1>3 DEF RunReady, In
  <2>2. /\ CallInv /\ MapOK /\ call.idx \in Nat /\ file.fsize \in Nat /\ isize \in Nat
        /\ cache_write_back \in 0..MaxWriteBack /\ MaxWriteBack \in Nat /\ call.count \in Nat
    BY <2>1, InCall, Parts, Constants
  <2>3. disk' \in Disks /\ Own
    BY <1>3, <2>1, RunOwn
  <2>4. Grown /\ cache_write_back >= 1
    BY <2>1, <2>2 DEF CallInv, WriteInv
  <2>5. file.fsize <= isize
    BY <2>2, <2>4, GrownEnd
  <2>6. file.fpos <= isize
    <3>1. PICK p \in Nat : RunAt(p) /\ (call.idx = p + call.count \/ call.idx = p + call.count + 1)
      BY <2>1, RunHere
    <3>2. p < call.idx /\ file.fpos = p * BlockSize
      BY <1>3, <2>2, <3>1 DEF RunAt
    <3>. QED  BY <2>2, <2>4, <3>2, GrownPos
  <2>7. MapOK' /\ cache_write_back' \in 0..MaxWriteBack
    BY <1>3, <2>2, <2>4, MapUnchanged
  <2>. QED  BY <1>1, <1>3, <2>3, <2>5, <2>6, <2>7, FailedAt
<1>4. CASE /\ In("fwrite", "tail") /\ call.size > 0 /\ call.idx < Blocks(file.fsize)
           /\ \E K \in SUBSET (0..call.size - 1) : disk' = Stored(Dblk(call.idx), 0, K)
           /\ UNCHANGED <<free, blk, isize, cache_write_back>>
  <2>1. call.op = "fwrite" /\ call.pc = "tail"
    BY <1>4 DEF In
  <2>2. /\ MapOK /\ file.fpos \in Nat /\ isize \in Nat /\ cache_write_back \in 0..MaxWriteBack
    BY <2>1, Parts
  <2>3. /\ isize = file.fsize /\ Dblk(call.idx) = blk[call.idx] /\ blk[call.idx] \in Nat
        /\ blk[call.idx] # 0 /\ call.idx \in DOMAIN blk /\ file.fpos < isize
    BY <1>4, <2>1, TailMapped, PhysAssumption
  <2>4. disk' \in Disks /\ Own
    BY <1>4, <2>1, <2>3, TailOwn
  <2>5. MapOK' /\ file.fpos <= isize /\ file.fsize <= isize
    BY <1>4, <2>2, <2>3, MapUnchanged
  <2>. QED  BY <1>1, <1>4, <2>2, <2>4, <2>5, FailedAt
<1>5. CASE /\ In("fwrite", "tail") /\ call.size > 0 /\ call.idx >= Blocks(file.fsize)
           /\ \E b \in free, K \in SUBSET (0..call.size - 1) : AppendDblk(b) /\ disk' = Stored(b, 0, K)
           /\ UNCHANGED cache_write_back
  <2>1. call.op = "fwrite" /\ call.pc = "tail"
    BY <1>5 DEF In
  <2>2. PICK b \in free, K \in SUBSET (0..call.size - 1) : AppendDblk(b) /\ disk' = Stored(b, 0, K)
    BY <1>5
  <2>3. /\ MapOK' /\ b \in Nat /\ b # 0 /\ blk'[call.idx] = b /\ call.idx \in DOMAIN blk
        /\ file.fsize <= isize' /\ file.fpos <= isize'
    BY <1>5, <2>1, <2>2, TailAppends, PhysAssumption
  <2>4. disk' \in Disks /\ Own
    BY <1>5, <2>1, <2>2, <2>3, TailOwn
  <2>. QED  BY <1>1, <1>5, <2>3, <2>4, FailedAt, Parts
<1>. QED  BY <1>2, <1>3, <1>4, <1>5 DEF WriteFail

-----------------------------------------------------------------------------
LEMMA NextIInv == IInv /\ Regular /\ [Next]_vars => IInv' /\ Own
<1>. SUFFICES ASSUME IInv, Regular, [Next]_vars PROVE IInv' /\ Own
  OBVIOUS
<1>1. CASE ReadHead \/ ReadGather \/ ReadRun \/ ReadTail \/ ReadFail
  <2>1. IInv'
    BY <1>1, ReadHeadStep, ReadGatherStep, ReadRunStep, ReadTailStep, ReadFailStep
  <2>2. disk' = disk
    BY <1>1 DEF ReadHead, ReadGather, ReadRun, ReadTail, ReadFail
  <2>. QED  BY <2>1, <2>2 DEF Own
<1>2. CASE WriteGather \/ WriteAppend \/ AppendFail \/ WriteRunsDone \/ TailFail \/ OutFsize
  <2>1. IInv'
    BY <1>2, WriteGatherStep, WriteAppendStep, AppendFailStep, WriteRunsDoneStep, TailFailStep,
       OutFsizeStep
  <2>2. disk' = disk
    BY <1>2 DEF WriteGather, WriteAppend, AppendFail, WriteRunsDone, TailFail, OutFsize
  <2>. QED  BY <2>1, <2>2 DEF Own
<1>3. CASE WriteHead \/ WriteRun \/ WriteTail \/ WriteFail
  BY <1>3, WriteHeadStep, WriteRunStep, WriteTailStep, WriteFailStep
<1>4. CASE External
  <2>1. CASE \E append \in BOOLEAN : Fopen(append)
    BY <2>1, FopenStep DEF Fopen, Own
  <2>2. CASE FopenTrunc
    BY <2>2, FopenTruncStep DEF FopenTrunc, Own
  <2>3. CASE \E origin \in Origins, off \in -MaxSize..MaxSize : Fseek(origin, off)
    <3>1. PICK origin \in Origins, off \in -MaxSize..MaxSize : Fseek(origin, off)
      BY <2>3
    <3>2. off \in Int
      BY Constants
    <3>. QED  BY <3>1, <3>2, FseekStep DEF Fseek, Own
  <2>4. CASE \E size \in 0..MaxSize : Ftruncate(size)
    BY <2>4, FtruncateStep DEF Ftruncate, Own
  <2>5. CASE \E n \in 1..MaxReq : Fread(n)
    BY <2>5, FreadStep DEF Fread, Own
  <2>6. CASE \E n \in 1..MaxReq : \E v \in Vals : Fwrite(v, n)
    BY <2>6, FwriteStep DEF Fwrite, Own
  <2>. QED  BY <1>4, <2>1, <2>2, <2>3, <2>4, <2>5, <2>6 DEF External
<1>5. CASE UNCHANGED vars
  <2>1. UNCHANGED <<disk, free, blk, isize, file, cache_write_back, call, result>>
    BY <1>5 DEF vars
  <2>2. TypeOK' /\ BlocksAccounted' /\ SizeMatchesMap'
    BY <2>1 DEF IInv, TypeOK, BlocksAccounted, SizeMatchesMap, Blocks
  <2>3. CallInv' = CallInv /\ IdleInv' = IdleInv
    BY <2>1 DEF CallInv, HeadInv, GatherInv, DirectInv, RunAt, TailInv, ReadInv, WriteInv, Grown,
                AtEnd, Blocks, IdleInv
  <2>. QED  BY <2>1, <2>2, <2>3 DEF IInv, Own
<1>. QED  BY <1>1, <1>2, <1>3, <1>4, <1>5 DEF Next, Internal

LEMMA InitIInv == Init /\ Regular => IInv
<1>. SUFFICES ASSUME Init, Regular PROVE IInv
  OBVIOUS
<1>1. /\ isize \in 0..MaxSize /\ blk \in Map /\ DOMAIN blk = 0..MaxBlocks - 1
      /\ free = Phys \ {blk[i] : i \in 0..MaxBlocks - 1}
      /\ \A i, j \in 0..MaxBlocks - 1 : blk[i] = blk[j] /\ blk[i] # 0 => i = j
      /\ file = [fpos |-> 0, fsize |-> isize] /\ cache_write_back = 0 /\ call = Idle /\ result = <<>>
  BY DEF Init, Map
<1>2. \A i \in 0..MaxBlocks - 1 : blk[i] # 0 <=> i < Blocks(isize)
  <2>1. \A i \in 0..MaxBlocks - 1 : blk[i] # 0 => i < Blocks(isize)
    BY DEF Init
  <2>2. \A i \in 0..Blocks(isize) - 1 : blk[i] # 0
    BY DEF Init, Regular
  <2>3. Blocks(isize) \in Nat /\ MaxBlocks \in Nat
    BY <1>1, SizeFacts, Constants
  <2>. QED  BY <2>1, <2>2, <2>3
<1>3. BlocksAccounted /\ SizeMatchesMap /\ free \subseteq Phys
  BY <1>1, <1>2 DEF BlocksAccounted, SizeMatchesMap
<1>4. disk \in [{0} \cup Phys -> [Offsets -> Units]]
  <2>1. disk = [b \in {0} \cup Phys |-> [o \in Offsets |-> <<Stale, b * BlockSize + o>>]]
    BY DEF Init
  <2>2. ASSUME NEW b \in {0} \cup Phys, NEW o \in Offsets
        PROVE  <<Stale, b * BlockSize + o>> \in Units
    <3>1. b \in Nat
      BY PhysAssumption
    <3>2. b * BlockSize \in Nat /\ o \in Nat
      BY <3>1, Constants DEF Offsets
    <3>3. b * BlockSize + o \in Nat
      BY <3>2
    <3>. QED  BY <3>3 DEF Units
  <2>. QED  BY <2>1, <2>2
<1>5. TypeOK
  BY <1>1, <1>3, <1>4, Constants, NoResult DEF TypeOK
<1>6. IdleInv
  BY <1>1, Constants DEF IdleInv
<1>. QED  BY <1>1, <1>3, <1>5, <1>6 DEF IInv

LEMMA Invariance == ASSUME Regular PROVE Spec => []IInv
<1>1. Init => IInv
  BY InitIInv
<1>2. IInv /\ [Next]_vars => IInv'
  BY NextIInv
<1>. QED  BY <1>1, <1>2, PTL DEF Spec

(* The types of the variables: the blocks that ext4_fread and ext4_fwrite  *)
(* address are blocks of the device, positions and sizes stay within the   *)
(* map, and the write-back mode is never ended more often than begun.      *)
THEOREM TypeCorrect == ASSUME Regular PROVE Spec => []TypeOK
<1>1. IInv => TypeOK
  BY DEF IInv
<1>. QED  BY <1>1, Invariance, PTL

(* No block is in the file twice, or in it and free, and none is lost,     *)
(* whichever append, data access or write has failed.                      *)
THEOREM NoBlockLost == ASSUME Regular PROVE Spec => []BlocksAccounted
<1>1. IInv => BlocksAccounted
  BY DEF IInv
<1>. QED  BY <1>1, Invariance, PTL

(* ext4_fwrite and ext4_ftruncate leave neither holes nor blocks beyond    *)
(* the size, also when they stop half way.                                 *)
THEOREM SizeAndMapAgree == ASSUME Regular PROVE Spec => []SizeMatchesMap
<1>1. IInv => SizeMatchesMap
  BY DEF IInv
<1>. QED  BY <1>1, Invariance, PTL

(* Data of the file is written to blocks of the file only.                 *)
THEOREM WritesStayInTheFile == ASSUME Regular PROVE Spec => OnlyOwnBlocksWritten
<1>1. IInv /\ [Next]_vars
        => [\A b \in DOMAIN disk : disk'[b] # disk[b] => b # 0 /\ \E i \in DOMAIN blk : blk'[i] = b]_vars
  BY NextIInv DEF Own
<1>. QED  BY <1>1, Invariance, PTL DEF Spec, OnlyOwnBlocksWritten

-----------------------------------------------------------------------------
(* What the file contains, of any device d and block map m.                *)

\* The unit at position q
Cell(d, m, q) == LET b == m[q \div BlockSize]
                 IN  IF b = 0 THEN Zero ELSE d[b][q % BlockSize]

FileText(d, m, s) == [i \in 1..s |-> Cell(d, m, i - 1)]

LEMMA SeqLen ==
    ASSUME NEW S, NEW f \in Seq(S), NEW s \in Nat, DOMAIN f = 1..s
    PROVE  Len(f) = s
<1>. DEFINE n == Len(f)
<1>1. n \in Nat /\ 1..n = 1..s
  BY LenProperties
<1>. HIDE DEF n
<1>2. \A k : k \in 1..n <=> k \in 1..s
  BY <1>1, Zenon
<1>3. n > 0 => n \in 1..n
  BY <1>1
<1>4. s > 0 => s \in 1..s
  OBVIOUS
<1>5. n <= s /\ s <= n
  BY <1>1, <1>2, <1>3, <1>4
<1>. QED  BY <1>1, <1>5 DEF n

LEMMA TextLen ==
    ASSUME NEW d, NEW m, NEW s \in Nat
    PROVE  /\ FileText(d, m, s) \in Seq({Cell(d, m, i - 1) : i \in 1..s})
           /\ Len(FileText(d, m, s)) = s
           /\ \A i \in 1..s : FileText(d, m, s)[i] = Cell(d, m, i - 1)
<1>. DEFINE C(i) == Cell(d, m, i - 1)
            f == [i \in 1..s |-> C(i)]
            S == {C(i) : i \in 1..s}
<1>1. FileText(d, m, s) = f
  BY DEF FileText
<1>. HIDE DEF C
<1>2. \A i \in 1..s : C(i) \in S
  OBVIOUS
<1>. HIDE DEF S
<1>3. f \in [1..s -> S]
  BY <1>2
<1>4. f \in Seq(S) /\ DOMAIN f = 1..s
  BY <1>3
<1>5. Len(f) = s
  BY <1>4, SeqLen
<1>. QED  BY <1>1, <1>4, <1>5 DEF S, C

LEMMA TextSame ==
    ASSUME NEW d, NEW m, NEW e, NEW n, NEW s \in Nat,
           \A q \in 0..s - 1 : Cell(d, m, q) = Cell(e, n, q)
    PROVE  FileText(d, m, s) = FileText(e, n, s)
<1>1. \A i \in 1..s : i - 1 \in 0..s - 1
  OBVIOUS
<1>. QED  BY <1>1 DEF FileText

\* A position is that of a unit in a block.
LEMMA Place ==
    ASSUME NEW q \in Nat, q < MaxSize
    PROVE  \E i \in 0..MaxBlocks - 1 : \E o \in Offsets : q = i * BlockSize + o
<1>. DEFINE i == q \div BlockSize
            o == q % BlockSize
<1>1. i \in Nat /\ o \in Offsets /\ q = i * BlockSize + o
  BY DivMod DEF Offsets
<1>. HIDE DEF i, o
<1>2. i * BlockSize \in Int /\ o \in Nat /\ MaxBlocks * BlockSize = MaxSize /\ MaxBlocks \in Nat
      /\ i \in Int
  BY <1>1, Constants DEF Offsets
<1>3. i * BlockSize < MaxBlocks * BlockSize
  BY <1>1, <1>2, Constants
<1>4. i < MaxBlocks
  BY <1>2, <1>3, ScaleLess
<1>. QED  BY <1>1, <1>2, <1>4

LEMMA CellAt ==
    ASSUME NEW i \in Nat, NEW o \in Offsets
    PROVE  \A d, m : Cell(d, m, i * BlockSize + o) = IF m[i] = 0 THEN Zero ELSE d[m[i]][o]
<1>. DEFINE q == i * BlockSize + o
<1>1. o \in Nat /\ o < BlockSize /\ i * BlockSize \in Nat /\ BlockSize \in Nat
  BY Constants DEF Offsets
<1>2. q \in Nat /\ i * BlockSize <= q /\ q < i * BlockSize + BlockSize
  BY <1>1
<1>3. q - i * BlockSize = o
  BY <1>1
<1>. HIDE DEF q
<1>4. q \div BlockSize = i /\ q % BlockSize = o
  BY <1>2, <1>3, DivIs
<1>5. \A d, m : Cell(d, m, q) = IF m[i] = 0 THEN Zero ELSE d[m[i]][o]
  BY <1>4 DEF Cell
<1>. QED  BY <1>5 DEF q

\* The block of a position below s is one of the blocks that s takes.
LEMMA BlockBelow ==
    ASSUME NEW s \in Nat, NEW i \in Nat, NEW o \in Offsets, i * BlockSize + o < s
    PROVE  i < Blocks(s)
<1>1. i * BlockSize \in Nat /\ o \in Nat
  BY Constants DEF Offsets
<1>2. i * BlockSize < s
  BY <1>1
<1>. QED  BY <1>2, BelowSize

-----------------------------------------------------------------------------
(* The content of the state.                                               *)
LEMMA NoBlocks == Blocks(0) = 0
<1>1. 0 <= 0 * BlockSize /\ 0 * BlockSize < 0 + BlockSize
  BY Constants
<1>. QED  BY <1>1, BlocksIs

LEMMA ContentIs ==
    ASSUME NEW s \in 0..MaxSize
    PROVE  /\ MapOK => Content(s) = FileText(disk, blk, s)
           /\ MapOK' => Content(s)' = FileText(disk', blk', s)
<1>1. ASSUME NEW i \in 1..s
      PROVE  (i - 1) \div BlockSize \in 0..MaxBlocks - 1
  <2>1. i - 1 \in Nat /\ i - 1 < MaxSize
    BY Constants
  <2>2. PICK j \in 0..MaxBlocks - 1, o \in Offsets : i - 1 = j * BlockSize + o
    BY <2>1, Place
  <2>3. j * BlockSize \in Nat /\ o \in Nat /\ o < BlockSize /\ BlockSize \in Nat /\ j \in Int
    BY Constants DEF Offsets
  <2>4. j * BlockSize <= i - 1 /\ i - 1 < j * BlockSize + BlockSize
    BY <2>2, <2>3
  <2>. QED  BY <2>1, <2>3, <2>4, DivIs
<1>2. ASSUME MapOK
      PROVE  Content(s) = FileText(disk, blk, s)
  <2>1. \A j \in 0..MaxBlocks - 1 : Dblk(j) = blk[j]
    BY <1>2, MapFacts
  <2>. QED  BY <1>1, <2>1 DEF Content, FileText, Cell
<1>3. ASSUME MapOK'
      PROVE  Content(s)' = FileText(disk', blk', s)
  <2>1. ASSUME NEW j \in 0..MaxBlocks - 1
        PROVE  Dblk(j)' = blk'[j]
    <3>1. j \in DOMAIN blk' /\ MaxBlocks \in Nat /\ j < MaxBlocks /\ j \in Nat
      BY <1>3, Constants DEF MapOK, Map
    <3>2. blk'[j] # 0 <=> j < Blocks(isize')
      BY <1>3, <3>1 DEF MapOK, SizeMatchesMap, Blocks
    <3>3. isize' = 0 => blk'[j] = 0
      BY <3>1, <3>2, NoBlocks
    <3>. QED  BY <3>1, <3>3 DEF Dblk
  <2>. QED  BY <1>1, <2>1 DEF Content, FileText, Cell
<1>. QED  BY <1>2, <1>3

-----------------------------------------------------------------------------
(* Storing data.                                                           *)

\* The units of K, counted from the position, are stored where the file has them:
\* in blocks b, b + 1, ... of the device, which are the p-th and n - 1 following ones.
StoredAt(b, u, K, p, n) ==
    /\ disk' = Stored(b, u, K)
    /\ file.fpos = p * BlockSize + u
    /\ p + n <= MaxBlocks
    /\ n # 0 => b # 0
    /\ \A c \in 0..n - 1 : blk'[p + c] = b + c
    /\ \A k \in K : u + k < n * BlockSize

LEMMA StoredCells ==
    ASSUME disk \in Disks, MapOK', NEW b \in Nat, NEW u \in Nat, NEW K \in SUBSET Nat,
           NEW p \in Nat, NEW n \in Nat, StoredAt(b, u, K, p, n), NEW q \in Nat, q < MaxSize
    PROVE  Cell(disk', blk', q) = IF q - file.fpos \in K THEN <<call.v, q>> ELSE Cell(disk, blk', q)
<1>. disk' = Stored(b, u, K) /\ file.fpos = p * BlockSize + u /\ p + n <= MaxBlocks
     /\ (n # 0 => b # 0) /\ (\A c \in 0..n - 1 : blk'[p + c] = b + c)
     /\ \A k \in K : u + k < n * BlockSize
  BY DEF StoredAt
<1>1. PICK i \in 0..MaxBlocks - 1, o \in Offsets : q = i * BlockSize + o
  BY Place
<1>2. /\ i \in Nat /\ i \in Int /\ p \in Int /\ i * BlockSize \in Int /\ p * BlockSize \in Int
      /\ o \in Nat /\ o \in Int /\ MaxBlocks \in Nat
      /\ (i - p) * BlockSize = i * BlockSize - p * BlockSize
  <2>1. i \in Nat /\ i \in Int /\ p \in Int /\ o \in Nat /\ o \in Int /\ MaxBlocks \in Nat
    BY Constants DEF Offsets
  <2>. QED  BY <2>1, Constants, Scale
<1>3. q - file.fpos = (i - p) * BlockSize + o - u /\ (i - p) * BlockSize \in Int
  BY <1>1, <1>2
<1>4. /\ Cell(disk', blk', q) = (IF blk'[i] = 0 THEN Zero ELSE disk'[blk'[i]][o])
      /\ Cell(disk, blk', q) = (IF blk'[i] = 0 THEN Zero ELSE disk[blk'[i]][o])
  <2>1. /\ Cell(disk', blk', i * BlockSize + o) = (IF blk'[i] = 0 THEN Zero ELSE disk'[blk'[i]][o])
        /\ Cell(disk, blk', i * BlockSize + o) = (IF blk'[i] = 0 THEN Zero ELSE disk[blk'[i]][o])
    <3>1. \A d, m : Cell(d, m, i * BlockSize + o) = IF m[i] = 0 THEN Zero ELSE d[m[i]][o]
      BY <1>1, <1>2, CellAt
    <3>. QED  BY <3>1
  <2>. QED  BY <1>1, <2>1
<1>5. ASSUME NEW d \in Int, d * BlockSize + o - u \in K
      PROVE  d \in 0..n - 1
  <2>. DEFINE x == d * BlockSize
              y == n * BlockSize
  <2>1. x \in Int /\ y \in Int
    BY Constants
  <2>2. x + o - u \in Nat /\ u + (x + o - u) < y
    <3>. HIDE DEF y
    <3>1. \A k \in K : k \in Nat /\ u + k < y
      BY DEF y
    <3>2. x + o - u \in K
      BY <1>5
    <3>. QED  BY <3>1, <3>2
  <2>. HIDE DEF x, y
  <2>3. 0 <= x + o /\ x + o < y
    BY <1>2, <2>1, <2>2
  <2>4. 0 <= d * BlockSize + o /\ d * BlockSize + o < n * BlockSize
    BY <2>3 DEF x, y
  <2>. QED  BY <2>4, Within, Zenon
<1>6. q - file.fpos \in K => i - p \in 0..n - 1 /\ blk'[i] = b + (i - p) /\ blk'[i] # 0
  <2>. SUFFICES ASSUME q - file.fpos \in K
                PROVE  i - p \in 0..n - 1 /\ blk'[i] = b + (i - p) /\ blk'[i] # 0
    OBVIOUS
  <2>1. i - p \in Int /\ (i - p) * BlockSize + o - u \in K
    BY <1>2, <1>3
  <2>2. i - p \in 0..n - 1
    BY <1>5, <2>1
  <2>3. blk'[p + (i - p)] = b + (i - p)
    BY <2>2, Zenon
  <2>4. p + (i - p) = i
    BY <1>2
  <2>. QED  BY <1>2, <2>2, <2>3, <2>4
<1>7. CASE blk'[i] = 0
  BY <1>4, <1>6, <1>7
<1>8. CASE blk'[i] # 0
  <2>. DEFINE c == blk'[i]
  <2>1. c \in Phys /\ c \in Nat /\ c \in Int /\ b \in Int
    <3>1. blk' \in [0..MaxBlocks - 1 -> {0} \cup Phys]
      BY DEF MapOK, Map
    <3>2. c \in {0} \cup Phys
      BY <3>1
    <3>. HIDE DEF c
    <3>3. c # 0
      BY <1>8 DEF c
    <3>. QED  BY <3>2, <3>3, PhysAssumption
  <2>2. disk'[c] = [a \in Offsets |-> IF (c - b) * BlockSize + a - u \in K
                                       THEN <<call.v, file.fpos + ((c - b) * BlockSize + a - u)>>
                                       ELSE disk[c][a]]
    <3>1. c \in DOMAIN disk
      BY <2>1 DEF Disks
    <3>. HIDE DEF c
    <3>. QED  BY <3>1 DEF Stored
  <2>3. disk'[c][o] = IF (c - b) * BlockSize + o - u \in K
                      THEN <<call.v, file.fpos + ((c - b) * BlockSize + o - u)>>
                      ELSE disk[c][o]
    <3>. HIDE DEF c
    <3>. QED  BY <2>2
  <2>4. CASE c - b = i - p
    <3>1. (c - b) * BlockSize + o - u = q - file.fpos
      BY <1>3, <2>4
    <3>2. file.fpos + (q - file.fpos) = q /\ file.fpos \in Int
      BY <1>2
    <3>. HIDE DEF c
    <3>3. disk'[c][o] = IF q - file.fpos \in K THEN <<call.v, q>> ELSE disk[c][o]
      BY <2>3, <3>1, <3>2, Zenon
    <3>. QED  BY <1>4, <1>8, <3>3 DEF c
  <2>5. CASE c - b # i - p
    <3>1. q - file.fpos \notin K
      BY <1>2, <1>6, <2>1, <2>5
    <3>2. ~((c - b) * BlockSize + o - u \in K)
      <4>. SUFFICES ASSUME (c - b) * BlockSize + o - u \in K PROVE FALSE
        OBVIOUS
      <4>1. c - b \in Int
        BY <2>1
      <4>2. c - b \in 0..n - 1
        <5>. HIDE DEF c
        <5>. QED  BY <1>5, <4>1
      <4>3. blk'[p + (c - b)] = b + (c - b) /\ b + (c - b) = c /\ p + (c - b) \in 0..MaxBlocks - 1
        <5>1. blk'[p + (c - b)] = b + (c - b)
          BY <4>2, Zenon
        <5>. HIDE DEF c
        <5>2. b + (c - b) = c /\ p + (c - b) \in 0..MaxBlocks - 1
          BY <1>2, <2>1, <4>2
        <5>. QED  BY <5>1, <5>2
      <4>4. blk'[p + (c - b)] = blk'[i] /\ blk'[p + (c - b)] # 0
        BY <1>8, <4>3
      <4>5. \A j, k \in 0..MaxBlocks - 1 : blk'[j] = blk'[k] /\ blk'[j] # 0 => j = k
        BY DEF MapOK, BlocksAccounted, Map
      <4>6. p + (c - b) = i
        <5>. HIDE DEF c
        <5>. QED  BY <4>3, <4>4, <4>5
      <4>. QED  BY <1>2, <2>1, <2>5, <4>6
    <3>. QED  BY <1>4, <1>8, <2>3, <3>1, <3>2
  <2>. QED  BY <2>4, <2>5
<1>. QED  BY <1>7, <1>8

-----------------------------------------------------------------------------
(* The data of a write.                                                    *)
Data(v, p, n) == [k \in 1..n |-> <<v, p + k - 1>>]

LEMMA DataIs ==
    ASSUME NEW v, NEW p \in Nat, NEW n \in Nat
    PROVE  /\ Data(v, p, n) \in Seq({v} \X Nat) /\ Len(Data(v, p, n)) = n
           /\ \A k \in 1..n : Data(v, p, n)[k] = <<v, p + k - 1>>
<1>1. \A k \in 1..n : <<v, p + k - 1>> \in {v} \X Nat
  OBVIOUS
<1>2. Data(v, p, n) \in [1..n -> {v} \X Nat]
  BY <1>1 DEF Data
<1>3. Data(v, p, n) \in Seq({v} \X Nat) /\ DOMAIN Data(v, p, n) = 1..n
  BY <1>2
<1>4. Len(Data(v, p, n)) = n
  BY <1>2, <1>3, SeqLen
<1>. QED  BY <1>3, <1>4 DEF Data

\* What is left of it after k units, and these
LEMMA DataParts ==
    ASSUME NEW v, NEW p \in Nat, NEW n \in Nat, NEW k \in 0..n
    PROVE  /\ SubSeq(Data(v, p, n), k + 1, n) = Data(v, p + k, n - k)
           /\ SubSeq(Data(v, p, n), 1, k) = Data(v, p, k)
<1>. DEFINE D == Data(v, p, n)
<1>1. D \in Seq({v} \X Nat) /\ Len(D) = n /\ \A j \in 1..n : D[j] = <<v, p + j - 1>>
  BY DataIs
<1>. HIDE DEF D
<1>2. SubSeq(D, k + 1, n) = [j \in 1..n - k |-> <<v, p + k + j - 1>>]
  <2>1. SubSeq(D, k + 1, n) = [j \in 1..(n - (k + 1) + 1) |-> D[(k + 1) + j - 1]]
    <3>. DEFINE l == k + 1
    <3>1. l \in Nat
      OBVIOUS
    <3>. HIDE DEF l
    <3>2. SubSeq(D, l, n) = [j \in 1..(n - l + 1) |-> D[l + j - 1]]
      BY <1>1, <3>1
    <3>. QED  BY <3>2 DEF l
  <2>2. n - (k + 1) + 1 = n - k
    OBVIOUS
  <2>3. ASSUME NEW j \in 1..n - k
        PROVE  D[(k + 1) + j - 1] = <<v, p + k + j - 1>>
    <3>1. (k + 1) + j - 1 \in 1..n /\ p + ((k + 1) + j - 1) - 1 = p + k + j - 1
      OBVIOUS
    <3>. QED  BY <1>1, <3>1
  <2>. QED  BY <2>1, <2>2, <2>3
<1>3. SubSeq(D, 1, k) = [j \in 1..k |-> <<v, p + j - 1>>]
  <2>1. SubSeq(D, 1, k) = [j \in 1..(k - 1 + 1) |-> D[1 + j - 1]]
    BY <1>1
  <2>2. k - 1 + 1 = k
    OBVIOUS
  <2>3. ASSUME NEW j \in 1..k
        PROVE  D[1 + j - 1] = <<v, p + j - 1>>
    <3>1. 1 + j - 1 = j /\ j \in 1..n
      OBVIOUS
    <3>. QED  BY <1>1, <3>1
  <2>. QED  BY <2>1, <2>2, <2>3
<1>. QED  BY <1>1, <1>2, <1>3 DEF D, Data

LEMMA Spliced ==
    ASSUME NEW d, NEW m, NEW e, NEW l, NEW s \in Nat, NEW r \in Nat, NEW p \in Nat, NEW k \in Nat,
           NEW v, p <= s, r = IF s < p + k THEN p + k ELSE s,
           \A q \in 0..r - 1 : Cell(e, l, q) = IF p <= q /\ q < p + k THEN <<v, q>> ELSE Cell(d, m, q)
    PROVE  FileText(e, l, r) = ByteFile!Splice(FileText(d, m, s), p, Data(v, p, k))
<1>. DEFINE c == FileText(d, m, s)
            D == Data(v, p, k)
<1>1. Len(c) = s /\ (\A i \in 1..s : c[i] = Cell(d, m, i - 1))
  BY TextLen
<1>2. Len(D) = k /\ (\A j \in 1..k : D[j] = <<v, p + j - 1>>)
  BY DataIs
<1>. HIDE DEF c, D
<1>3. ByteFile!Splice(c, p, D)
        = [i \in 1..r |-> IF p < i /\ i <= p + k THEN D[i - p] ELSE c[i]]
  BY <1>1, <1>2 DEF ByteFile!Splice
<1>4. ASSUME NEW i \in 1..r
      PROVE  Cell(e, l, i - 1) = IF p < i /\ i <= p + k THEN D[i - p] ELSE c[i]
  <2>1. i - 1 \in 0..r - 1 /\ (p <= i - 1 <=> p < i) /\ (i - 1 < p + k <=> i <= p + k)
    OBVIOUS
  <2>2. Cell(e, l, i - 1) = IF p < i /\ i <= p + k THEN <<v, i - 1>> ELSE Cell(d, m, i - 1)
    BY <2>1
  <2>3. CASE p < i /\ i <= p + k
    <3>1. i - p \in 1..k /\ p + (i - p) - 1 = i - 1
      BY <2>3
    <3>2. D[i - p] = <<v, i - 1>>
      BY <1>2, <3>1
    <3>. QED  BY <2>2, <2>3, <3>2
  <2>4. CASE ~(p < i /\ i <= p + k)
    <3>1. i \in 1..s
      BY <2>4
    <3>. QED  BY <1>1, <2>2, <2>4, <3>1
  <2>. QED  BY <2>3, <2>4
<1>5. FileText(e, l, r) = [i \in 1..r |-> IF p < i /\ i <= p + k THEN D[i - p] ELSE c[i]]
  BY <1>4 DEF FileText
<1>. QED  BY <1>3, <1>5 DEF c, D

-----------------------------------------------------------------------------
(* The state as one of ByteFile.                                           *)
StepsAsFile == [ByteFile!Next]_(ByteFile!vars)

LEMMA ContentsAre ==
    ASSUME IInv
    PROVE  Size \in 0..MaxSize /\ Contents = FileText(disk, blk, Size) /\ Len(Contents) = Size
<1>1. Size \in 0..MaxSize /\ MapOK
  BY Parts DEF Size
<1>2. Contents = FileText(disk, blk, Size)
  BY <1>1, ContentIs DEF Contents
<1>3. Size \in Nat
  BY <1>1, Constants
<1>4. Len(FileText(disk, blk, Size)) = Size
  BY <1>3, TextLen
<1>. QED  BY <1>1, <1>2, <1>4

LEMMA ContentsWillBe ==
    ASSUME MapOK', NEW s \in 0..MaxSize, Size' = s
    PROVE  Contents' = FileText(disk', blk', s) /\ Len(Contents') = s
<1>1. Contents' = Content(s)'
  BY DEF Contents, Content
<1>2. Content(s)' = FileText(disk', blk', s)
  BY ContentIs
<1>3. s \in Nat
  BY Constants
<1>4. Len(FileText(disk', blk', s)) = s
  BY <1>3, TextLen
<1>. QED  BY <1>1, <1>2, <1>4

LEMMA NextParts ==
    ASSUME IInv'
    PROVE  MapOK' /\ disk' \in Disks /\ file' \in Files /\ Size' \in 0..MaxSize
<1>1. MapOK' /\ disk' \in Disks /\ file' \in Files /\ isize' \in 0..MaxSize
  BY DEF IInv, TypeOK, MapOK, Disks, Files
<1>2. file'.fpos \in 0..MaxSize /\ file'.fsize \in 0..MaxSize
  BY <1>1 DEF Files
<1>. QED  BY <1>1, <1>2 DEF Size

LEMMA TodoIs ==
    ASSUME IInv, call.op = "fwrite"
    PROVE  /\ Todo = Data(call.v, file.fpos, call.size) /\ Len(Todo) = call.size /\ Writing
           /\ Position = file.fpos /\ file.fpos <= Size
           /\ Size = IF file.fpos > file.fsize THEN file.fpos ELSE file.fsize
           /\ call.size \in Nat /\ file.fpos \in Nat /\ file.fsize \in Nat
           /\ \A k \in 1..call.size : Todo[k] = <<call.v, file.fpos + k - 1>>
<1>1. call.size \in Nat /\ file.fpos \in Nat /\ file.fsize \in Nat
  BY InCall, Parts
<1>2. Todo = Data(call.v, file.fpos, call.size)
  BY DEF Todo, Writing, Data
<1>3. /\ Len(Data(call.v, file.fpos, call.size)) = call.size
      /\ \A k \in 1..call.size :
            Data(call.v, file.fpos, call.size)[k] = <<call.v, file.fpos + k - 1>>
  BY <1>1, DataIs
<1>4. /\ Size = IF file.fpos > file.fsize THEN file.fpos ELSE file.fsize
      /\ Writing /\ Position = file.fpos
  BY DEF Writing, Position, Size
<1>. QED  BY <1>1, <1>2, <1>3, <1>4

\* A step of a write that changes nothing in the file
LEMMA WriteGoesOn ==
    ASSUME IInv, MapOK', call.op = "fwrite", call'.op = "fwrite", call'.v = call.v,
           call'.size = call.size, UNCHANGED <<file, result>>,
           \A q \in 0..Size - 1 : Cell(disk', blk', q) = Cell(disk, blk, q)
    PROVE  StepsAsFile
<1>1. Size \in 0..MaxSize /\ Contents = FileText(disk, blk, Size)
  BY ContentsAre
<1>2. Size' = Size
  BY DEF Size, Writing
<1>3. Contents' = FileText(disk', blk', Size)
  BY <1>1, <1>2, ContentsWillBe
<1>4. Contents' = Contents
  BY <1>1, <1>3, TextSame, Constants
<1>5. Writing' = Writing /\ Position' = Position /\ Todo' = Todo /\ result' = result
  BY DEF Writing, Position, Todo
<1>. QED  BY <1>4, <1>5 DEF StepsAsFile, ByteFile!vars

\* A step that stores k units of the data
LEMMA StoreIs ==
    ASSUME IInv, MapOK', call.op = "fwrite", call'.op = "fwrite", call'.v = call.v,
           result' = result, NEW k \in Nat, k <= call.size, call'.size = call.size - k,
           file'.fpos = file.fpos + k, file'.fsize = file.fsize, file.fpos + k <= MaxSize,
           NEW r \in Nat, r = (IF Size < file.fpos + k THEN file.fpos + k ELSE Size),
           \A q \in 0..r - 1 : Cell(disk', blk', q) = IF file.fpos <= q /\ q < file.fpos + k
                                                      THEN <<call.v, q>> ELSE Cell(disk, blk, q)
    PROVE  StepsAsFile
<1>. DEFINE p == file.fpos
            v == call.v
            n == call.size
<1>1. /\ Todo = Data(v, p, n) /\ Len(Todo) = n /\ Writing /\ Position = p /\ p <= Size
      /\ Size = (IF p > file.fsize THEN p ELSE file.fsize)
      /\ n \in Nat /\ p \in Nat /\ file.fsize \in Nat
  BY TodoIs
<1>2. Size \in 0..MaxSize /\ Size \in Nat /\ Contents = FileText(disk, blk, Size) /\ MaxSize \in Nat
  BY ContentsAre, Constants
<1>3. Size' = r /\ r \in 0..MaxSize
  <2>1. Size' = IF p + k > file.fsize THEN p + k ELSE file.fsize
    BY DEF Size, Writing
  <2>. HIDE DEF p
  <2>2. r = IF Size < p + k THEN p + k ELSE Size
    BY DEF p
  <2>3. p + k <= MaxSize
    BY DEF p
  <2>. QED  BY <1>1, <1>2, <2>1, <2>2, <2>3
<1>4. Contents' = FileText(disk', blk', r)
  BY <1>3, ContentsWillBe
<1>5. Todo' = Data(v, p + k, n - k) /\ Writing' /\ Position' = p + k
  BY DEF Todo, Data, Writing, Position
<1>0. \A q \in 0..r - 1 : Cell(disk', blk', q) = IF p <= q /\ q < p + k
                                                THEN <<v, q>> ELSE Cell(disk, blk, q)
  OBVIOUS
<1>. HIDE DEF n, p, v
<1>6. k \in 0..n
  BY <1>1 DEF n
<1>7. /\ SubSeq(Todo, k + 1, Len(Todo)) = Data(v, p + k, n - k)
      /\ SubSeq(Todo, 1, k) = Data(v, p, k)
  <2>1. \A j \in 0..n : /\ SubSeq(Data(v, p, n), j + 1, n) = Data(v, p + j, n - j)
                        /\ SubSeq(Data(v, p, n), 1, j) = Data(v, p, j)
    <3>1. n \in Nat /\ p \in Nat
      BY <1>1
    <3>. QED  BY <3>1, DataParts
  <2>2. /\ SubSeq(Data(v, p, n), k + 1, n) = Data(v, p + k, n - k)
        /\ SubSeq(Data(v, p, n), 1, k) = Data(v, p, k)
    BY <1>6, <2>1, Zenon
  <2>3. Todo = Data(v, p, n) /\ Len(Todo) = n
    BY <1>1
  <2>. QED  BY <2>2, <2>3, Zenon
<1>8. FileText(disk', blk', r) = ByteFile!Splice(FileText(disk, blk, Size), p, Data(v, p, k))
  <2>1. r = IF Size < p + k THEN p + k ELSE Size
    BY DEF p
  <2>. QED  BY <1>0, <1>1, <1>2, <2>1, Spliced
<1>9. ByteFile!Store(k)
  BY <1>1, <1>2, <1>4, <1>5, <1>7, <1>8 DEF ByteFile!Store
<1>10. CASE k > 0
  <2>1. k \in 1..Len(Todo)
    BY <1>1, <1>6, <1>10
  <2>. QED  BY <1>9, <2>1 DEF StepsAsFile, ByteFile!Next
<1>11. CASE k = 0
  <2>1. r = Size /\ Position' = Position /\ Todo' = Todo
    <3>1. p + k = p /\ n - k = n
      BY <1>1, <1>11
    <3>2. r = IF Size < p + k THEN p + k ELSE Size
      BY DEF p
    <3>. QED  BY <1>1, <1>2, <1>5, <3>1, <3>2
  <2>2. \A q \in 0..Size - 1 : Cell(disk', blk', q) = Cell(disk, blk, q)
    BY <1>0, <1>1, <1>2, <1>11, <2>1
  <2>3. Contents' = Contents
    BY <1>2, <1>4, <2>1, <2>2, TextSame
  <2>. QED  BY <1>1, <1>5, <2>1, <2>3 DEF StepsAsFile, ByteFile!vars
<1>. QED  BY <1>10, <1>11

\* A write that fails
LEMMA WriteErrorIs ==
    ASSUME IInv, IInv', MayFail, call.op = "fwrite", call' = Idle, UNCHANGED <<file, result>>,
           \A q \in 0..Size - 1 :
              \/ Cell(disk', blk', q) = Cell(disk, blk, q)
              \/ /\ file.fpos <= q /\ q < file.fpos + call.size
                 /\ Cell(disk', blk', q) = <<call.v, q>>
    PROVE  StepsAsFile
<1>1. /\ Len(Todo) = call.size /\ Writing /\ Position = file.fpos
      /\ Size = (IF file.fpos > file.fsize THEN file.fpos ELSE file.fsize)
      /\ call.size \in Nat /\ file.fpos \in Nat /\ file.fsize \in Nat
      /\ \A k \in 1..call.size : Todo[k] = <<call.v, file.fpos + k - 1>>
  BY TodoIs
<1>2. /\ Size \in Nat /\ Contents = FileText(disk, blk, Size) /\ Len(Contents) = Size
      /\ MapOK' /\ Size' \in 0..MaxSize /\ Size' \in Nat
  BY ContentsAre, NextParts, Constants
<1>3. ~Writing' /\ Todo' = <<>> /\ Position' = file.fpos /\ Size' = isize'
  BY DEF Idle, Writing, Todo, Position, Size
<1>4. Size <= Size'
  BY <1>1, <1>3 DEF IInv, IdleInv
<1>5. PICK s \in 0..MaxSize : Size' = s
  BY <1>2
<1>6. Contents' = FileText(disk', blk', s) /\ Len(Contents') = s
  BY <1>2, <1>5, ContentsWillBe
<1>7. ASSUME NEW i \in 1..Size
      PROVE  \/ Contents'[i] = Contents[i]
             \/ /\ Position < i /\ i <= Position + Len(Todo)
                /\ Contents'[i] = Todo[i - Position]
  <2>1. i \in 1..s /\ i - 1 \in 0..Size - 1 /\ s \in Nat
    BY <1>2, <1>4, <1>5
  <2>2. Contents'[i] = Cell(disk', blk', i - 1) /\ Contents[i] = Cell(disk, blk, i - 1)
    BY <1>2, <1>6, <2>1, TextLen
  <2>3. ASSUME file.fpos <= i - 1, i - 1 < file.fpos + call.size
        PROVE  Position < i /\ i <= Position + Len(Todo) /\ Todo[i - Position] = <<call.v, i - 1>>
    <3>1. i - file.fpos \in 1..call.size /\ file.fpos + (i - file.fpos) - 1 = i - 1
      BY <1>1, <2>1, <2>3
    <3>2. Todo[i - file.fpos] = <<call.v, i - 1>>
      BY <1>1, <3>1
    <3>. QED  BY <1>1, <2>1, <2>3, <3>2
  <2>. QED  BY <2>1, <2>2, <2>3
<1>8. ByteFile!WriteError
  BY <1>1, <1>2, <1>3, <1>4, <1>5, <1>6, <1>7 DEF ByteFile!WriteError
<1>. QED  BY <1>8 DEF StepsAsFile, ByteFile!Next

\* The return of a write
LEMMA WrittenIs ==
    ASSUME IInv, IInv', call.op = "fwrite", call' = Idle, UNCHANGED <<disk, blk, result>>,
           isize' = Size, file'.fpos = file.fpos,
           call.size = 0 \/ file.fpos + call.size > Size
    PROVE  StepsAsFile
<1>1. /\ Len(Todo) = call.size /\ Writing /\ Position = file.fpos /\ call.size \in Nat
      /\ Todo = Data(call.v, file.fpos, call.size) /\ file.fpos \in Nat
  BY TodoIs
<1>2. Size \in 0..MaxSize /\ Contents = FileText(disk, blk, Size) /\ Len(Contents) = Size
  BY ContentsAre
<1>3. ~Writing' /\ Todo' = <<>> /\ Position' = file.fpos /\ Size' = Size
  BY DEF Idle, Writing, Todo, Position, Size
<1>4. Contents' = Contents
  BY <1>2, <1>3, NextParts, ContentsWillBe
<1>5. Todo = <<>> \/ Position + Len(Todo) > Len(Contents)
  <2>1. call.size = 0 => Todo = <<>>
    BY <1>1, DataIs, EmptySeq
  <2>. QED  BY <1>1, <1>2, <2>1
<1>6. ByteFile!Written
  BY <1>1, <1>3, <1>4, <1>5 DEF ByteFile!Written
<1>. QED  BY <1>6 DEF StepsAsFile, ByteFile!Next

-----------------------------------------------------------------------------
(* The steps of a caller in ByteFile.                                      *)
LEMMA IdleIs ==
    ASSUME IInv, call = Idle
    PROVE  /\ ~Writing /\ Position = file.fpos /\ Todo = <<>> /\ Size = isize
           /\ file.fpos <= isize /\ isize \in 0..MaxSize /\ isize \in Nat /\ file.fpos \in Nat
           /\ Contents = FileText(disk, blk, isize) /\ Len(Contents) = isize
<1>1. ~Writing /\ Position = file.fpos /\ Todo = <<>> /\ Size = isize
  BY DEF Idle, Writing, Position, Todo, Size
<1>2. file.fpos <= isize /\ isize \in Nat /\ file.fpos \in Nat
  BY Parts DEF IInv, IdleInv
<1>. QED  BY <1>1, <1>2, ContentsAre

\* Opening, seeking, and the beginning of a read
LEMMA SeekIs ==
    ASSUME IInv, IInv', call = Idle, call'.op # "fwrite", result' = <<>>,
           UNCHANGED <<disk, blk, isize>>, Position' <= isize
    PROVE  StepsAsFile
<1>1. /\ ~Writing /\ Position = file.fpos /\ Todo = <<>> /\ Size = isize
      /\ Contents = FileText(disk, blk, isize) /\ Len(Contents) = isize /\ isize \in 0..MaxSize
  BY IdleIs
<1>2. ~Writing' /\ Writing' = Writing /\ Todo' = <<>> /\ Size' = isize
  BY <1>1 DEF Writing, Todo, Size
<1>3. Contents' = Contents
  BY <1>1, <1>2, NextParts, ContentsWillBe
<1>4. ByteFile!Seek
  BY <1>1, <1>2, <1>3 DEF ByteFile!Seek
<1>. QED  BY <1>4 DEF StepsAsFile, ByteFile!Next

LEMMA TruncateIs ==
    ASSUME IInv, IInv', call = Idle, call' = Idle, result' = <<>>, disk' = disk,
           NEW n \in 0..MaxSize, n <= isize, isize' = n, Cut(Blocks(n)),
           file'.fpos = IF file.fpos > n THEN n ELSE file.fpos
    PROVE  StepsAsFile
<1>1. /\ ~Writing /\ Position = file.fpos /\ Todo = <<>> /\ isize \in Nat
      /\ Contents = FileText(disk, blk, isize) /\ Len(Contents) = isize /\ n \in Nat
  BY IdleIs, Constants
<1>2. Writing' = Writing /\ Position' = file'.fpos /\ Todo' = <<>> /\ Size' = n
  BY DEF Idle, Writing, Position, Todo, Size
<1>3. Contents' = FileText(disk, blk', n)
  BY <1>2, NextParts, ContentsWillBe
<1>4. ASSUME NEW q \in 0..n - 1
      PROVE  Cell(disk, blk', q) = Cell(disk, blk, q)
  <2>1. q \in Nat /\ q < n /\ q < MaxSize
    BY <1>1, Constants
  <2>2. PICK i \in 0..MaxBlocks - 1, o \in Offsets : q = i * BlockSize + o
    BY <2>1, Place
  <2>3. i \in Nat /\ i < Blocks(n) /\ Blocks(n) \in Nat
    BY <1>1, <2>1, <2>2, BlockBelow, BlocksOf
  <2>4. blk'[i] = blk[i]
    <3>1. i \in DOMAIN blk /\ ~(Blocks(n) <= i)
      BY <2>2, <2>3, Parts, MapFacts
    <3>. QED  BY <3>1 DEF Cut
  <2>5. \A d, m : Cell(d, m, i * BlockSize + o) = IF m[i] = 0 THEN Zero ELSE d[m[i]][o]
    <3>1. i \in Nat /\ o \in Offsets
      BY <2>2, <2>3
    <3>. QED  BY <3>1, CellAt
  <2>. QED  BY <2>2, <2>4, <2>5
<1>5. Contents' = FileText(disk, blk, n)
  BY <1>1, <1>3, <1>4, TextSame
<1>6. FileText(disk, blk, n) = SubSeq(Contents, 1, n)
  <2>. DEFINE c == FileText(disk, blk, isize)
              S == {Cell(disk, blk, i - 1) : i \in 1..isize}
  <2>1. c \in Seq(S) /\ Len(c) = isize /\ \A i \in 1..isize : c[i] = Cell(disk, blk, i - 1)
    BY <1>1, TextLen
  <2>. HIDE DEF c, S
  <2>2. SubSeq(c, 1, n) = [i \in 1..(n - 1 + 1) |-> c[1 + i - 1]]
    BY <1>1, <2>1
  <2>3. ASSUME NEW i \in 1..n
        PROVE  c[1 + i - 1] = Cell(disk, blk, i - 1)
    <3>1. 1 + i - 1 = i /\ i \in 1..isize
      BY <1>1
    <3>. QED  BY <2>1, <3>1
  <2>4. n - 1 + 1 = n
    BY <1>1
  <2>5. SubSeq(c, 1, n) = [i \in 1..n |-> Cell(disk, blk, i - 1)]
    BY <2>2, <2>3, <2>4
  <2>. QED  BY <1>1, <2>5 DEF FileText, c
<1>7. ByteFile!Truncate(n)
  BY <1>1, <1>2, <1>5, <1>6 DEF ByteFile!Truncate
<1>8. n \in 0..Len(Contents)
  BY <1>1
<1>. QED  BY <1>7, <1>8 DEF StepsAsFile, ByteFile!Next

LEMMA WriteIs ==
    ASSUME IInv, IInv', NEW n \in 1..MaxReq, NEW v \in Vals, Fwrite(v, n)
    PROVE  StepsAsFile
<1>1. /\ call = Idle /\ call' = Start("fwrite", n, v) /\ file' = [file EXCEPT !.fsize = isize]
      /\ result' = <<>> /\ UNCHANGED <<disk, blk, isize>> /\ n \in Nat /\ n > 0
  BY SizesAssumption DEF Fwrite
<1>2. /\ ~Writing /\ Position = file.fpos /\ Todo = <<>> /\ file.fpos <= isize
      /\ isize \in 0..MaxSize /\ isize \in Nat /\ file.fpos \in Nat
      /\ Contents = FileText(disk, blk, isize) /\ file \in Files
  BY <1>1, IdleIs, Parts
<1>3. call'.op = "fwrite" /\ call'.size = n /\ call'.v = v
  BY <1>1 DEF Start
<1>4. file'.fpos = file.fpos /\ file'.fsize = isize
  BY <1>1, <1>2 DEF Files
<1>5. Writing' /\ Position' = file.fpos /\ Todo' = Data(v, file.fpos, n)
  BY <1>3, <1>4 DEF Writing, Position, Todo, Data
<1>6. Size' = isize
  BY <1>2, <1>3, <1>4 DEF Writing, Size
<1>7. Contents' = Contents
  BY <1>1, <1>2, <1>6, NextParts, ContentsWillBe
<1>8. Todo' # <<>>
  <2>1. Len(Todo') = n
    BY <1>1, <1>2, <1>5, DataIs
  <2>. QED  BY <1>1, <2>1
<1>9. ByteFile!Write
  BY <1>1, <1>2, <1>5, <1>7, <1>8 DEF ByteFile!Write
<1>. QED  BY <1>9 DEF StepsAsFile, ByteFile!Next

LEMMA CallersStepAsFile ==
    ASSUME IInv, IInv', External
    PROVE  StepsAsFile
<1>1. ASSUME NEW append \in BOOLEAN, Fopen(append)
      PROVE  StepsAsFile
  <2>1. call = Idle /\ call' = Idle /\ result' = <<>> /\ UNCHANGED <<disk, blk, isize>>
    BY <1>1 DEF Fopen
  <2>2. Position' <= isize /\ call'.op # "fwrite"
    BY <2>1 DEF Position, Idle, IInv, IdleInv
  <2>. QED  BY <2>1, <2>2, SeekIs
<1>2. ASSUME NEW origin \in Origins, NEW off \in -MaxSize..MaxSize, Fseek(origin, off)
      PROVE  StepsAsFile
  <2>1. call = Idle /\ call' = Idle /\ result' = <<>> /\ UNCHANGED <<disk, blk, isize>>
    BY <1>2 DEF Fseek
  <2>2. Position' <= isize /\ call'.op # "fwrite"
    BY <2>1 DEF Position, Idle, IInv, IdleInv
  <2>. QED  BY <2>1, <2>2, SeekIs
<1>3. ASSUME NEW size \in 0..MaxSize, Ftruncate(size)
      PROVE  StepsAsFile
  <2>1. call = Idle /\ call' = Idle /\ result' = <<>> /\ disk' = disk /\ file \in Files
    BY <1>3, Parts DEF Ftruncate
  <2>2. CASE size < isize
    <3>1. /\ Cut(Blocks(size)) /\ isize' = size /\ size <= isize
          /\ file' = [fpos |-> IF file.fpos > size THEN size ELSE file.fpos, fsize |-> size]
      BY <1>3, <2>2, Parts, Constants DEF Ftruncate
    <3>2. file'.fpos = IF file.fpos > size THEN size ELSE file.fpos
      BY <3>1
    <3>. QED  BY <2>1, <3>1, <3>2, TruncateIs
  <2>3. CASE ~(size < isize)
    <3>1. UNCHANGED <<blk, isize>>
      BY <1>3, <2>3 DEF Ftruncate
    <3>2. Position' <= isize /\ call'.op # "fwrite"
      BY <2>1, <3>1 DEF Position, Idle, IInv, IdleInv
    <3>. QED  BY <2>1, <3>1, <3>2, SeekIs
  <2>. QED  BY <2>2, <2>3
<1>4. CASE FopenTrunc
  <2>1. /\ call = Idle /\ call' = Idle /\ result' = <<>> /\ disk' = disk /\ isize' = 0 /\ Cut(0)
        /\ file' = [fpos |-> 0, fsize |-> 0]
    BY <1>4 DEF FopenTrunc
  <2>2. 0 \in 0..MaxSize /\ 0 <= isize /\ Cut(Blocks(0)) /\ file.fpos \in Nat
    BY <2>1, NoBlocks, Parts, Constants
  <2>3. file'.fpos = IF file.fpos > 0 THEN 0 ELSE file.fpos
    BY <2>1, <2>2
  <2>. QED  BY <2>1, <2>2, <2>3, TruncateIs
<1>5. ASSUME NEW n \in 1..MaxReq, Fread(n)
      PROVE  StepsAsFile
  <2>1. /\ call = Idle /\ result' = <<>> /\ UNCHANGED <<disk, blk, isize>>
        /\ call'.op = "fread" /\ call'.from = file.fpos
    BY <1>5 DEF Fread, Start
  <2>2. Position' <= isize /\ call'.op # "fwrite"
    BY <2>1, IdleIs DEF Position
  <2>. QED  BY <2>1, <2>2, SeekIs
<1>6. ASSUME NEW n \in 1..MaxReq, NEW v \in Vals, Fwrite(v, n)
      PROVE  StepsAsFile
  BY <1>6, WriteIs
<1>. QED  BY <1>1, <1>2, <1>3, <1>4, <1>5, <1>6 DEF External

-----------------------------------------------------------------------------
(* Reading.                                                                *)

\* The n units from position f on
Part(d, m, f, n) == [k \in 1..n |-> Cell(d, m, f + k - 1)]

LEMMA PartIs ==
    ASSUME NEW d, NEW m, NEW f \in Nat, NEW n \in Nat
    PROVE  /\ \E S : Part(d, m, f, n) \in Seq(S)
           /\ Len(Part(d, m, f, n)) = n
           /\ \A k \in 1..n : Part(d, m, f, n)[k] = Cell(d, m, f + k - 1)
<1>. DEFINE C(k) == Cell(d, m, f + k - 1)
            c == [k \in 1..n |-> C(k)]
            S == {C(k) : k \in 1..n}
<1>1. Part(d, m, f, n) = c
  BY DEF Part
<1>. HIDE DEF C
<1>2. \A k \in 1..n : C(k) \in S
  OBVIOUS
<1>. HIDE DEF S
<1>3. c \in [1..n -> S]
  BY <1>2
<1>4. c \in Seq(S) /\ DOMAIN c = 1..n
  BY <1>3
<1>5. Len(c) = n
  BY <1>4, SeqLen
<1>. QED  BY <1>1, <1>4, <1>5 DEF C

LEMMA PartJoins ==
    ASSUME NEW f \in Nat, NEW a \in Nat, NEW g \in Nat, NEW b \in Nat, g = f + a
    PROVE  \A d, m : Part(d, m, f, a) \o Part(d, m, g, b) = Part(d, m, f, a + b)
<1>. TAKE d, m
<1>. DEFINE x == Part(d, m, f, a)
            y == Part(d, m, g, b)
<1>1. (\E S : x \in Seq(S)) /\ Len(x) = a /\ \A k \in 1..a : x[k] = Cell(d, m, f + k - 1)
  BY PartIs
<1>2. (\E S : y \in Seq(S)) /\ Len(y) = b /\ \A k \in 1..b : y[k] = Cell(d, m, g + k - 1)
  BY PartIs
<1>. HIDE DEF x, y
<1>3. PICK X : x \in Seq(X)
  BY <1>1
<1>4. PICK Y : y \in Seq(Y)
  BY <1>2
<1>7. x \in Seq(X \cup Y) /\ y \in Seq(X \cup Y)
  BY <1>3, <1>4
<1>8. /\ x \o y \in Seq(X \cup Y) /\ Len(x \o y) = a + b
      /\ \A k \in 1..(a + b) : (x \o y)[k] = IF k <= a THEN x[k] ELSE y[k - a]
  BY <1>1, <1>2, <1>7, ConcatProperties
<1>9. x \o y = [k \in 1..(a + b) |-> (x \o y)[k]]
  <2>. DEFINE z == x \o y
  <2>. HIDE DEF z
  <2>1. z \in Seq(X \cup Y) /\ Len(z) = a + b
    BY <1>8 DEF z
  <2>2. z = [k \in 1..(a + b) |-> z[k]]
    BY <2>1
  <2>. QED  BY <2>2 DEF z
<1>5. ASSUME NEW k \in 1..(a + b)
      PROVE  (x \o y)[k] = Cell(d, m, f + k - 1)
  <2>1. CASE k <= a
    BY <1>1, <1>8, <2>1
  <2>2. CASE ~(k <= a)
    <3>1. k - a \in 1..b /\ g + (k - a) - 1 = f + k - 1
      BY <2>2
    <3>2. y[k - a] = Cell(d, m, g + (k - a) - 1)
      BY <1>2, <3>1
    <3>. QED  BY <1>8, <2>2, <3>1, <3>2
  <2>. QED  BY <2>1, <2>2
<1>6. x \o y = [k \in 1..(a + b) |-> Cell(d, m, f + k - 1)]
  BY <1>5, <1>9
<1>. QED  BY <1>6 DEF Part, x, y

LEMMA PartOfText ==
    ASSUME NEW d, NEW m, NEW s \in Nat, NEW f \in Nat, NEW n \in Nat, f + n <= s
    PROVE  SubSeq(FileText(d, m, s), f + 1, f + n) = Part(d, m, f, n)
<1>. DEFINE c == FileText(d, m, s)
            S == {Cell(d, m, i - 1) : i \in 1..s}
            g == f + 1
            h == f + n
<1>1. c \in Seq(S) /\ Len(c) = s /\ \A i \in 1..s : c[i] = Cell(d, m, i - 1)
  BY TextLen
<1>2. g \in Nat /\ h \in Nat /\ h - g + 1 = n
  OBVIOUS
<1>. HIDE DEF c, S, g, h
<1>3. SubSeq(c, g, h) = [k \in 1..(h - g + 1) |-> c[g + k - 1]]
  BY <1>1, <1>2
<1>4. ASSUME NEW k \in 1..n
      PROVE  c[g + k - 1] = Cell(d, m, f + k - 1)
  <2>1. g + k - 1 = f + k /\ f + k \in 1..s
    BY DEF g
  <2>2. c[f + k] = Cell(d, m, f + k - 1)
    BY <1>1, <2>1
  <2>. QED  BY <2>1, <2>2
<1>5. SubSeq(c, g, h) = [k \in 1..n |-> Cell(d, m, f + k - 1)]
  BY <1>2, <1>3, <1>4
<1>. QED  BY <1>5 DEF c, g, h, Part

\* What an access reads is what the file contains there.
LEMMA ReadFromIs ==
    ASSUME MapOK, NEW b \in Nat, NEW u \in Nat, NEW n \in Nat, NEW p \in Nat, NEW f \in Nat,
           n > 0 => f = p * BlockSize + u,
           \A c \in Nat : c * BlockSize < u + n => blk[p + c] = b + c /\ b + c # 0
    PROVE  ReadFrom(b, u, n) = Part(disk, blk, f, n)
<1>1. ASSUME NEW k \in 1..n
      PROVE  disk[b + (u + k - 1) \div BlockSize][(u + k - 1) % BlockSize]
                = Cell(disk, blk, f + k - 1)
  <2>. DEFINE a == u + k - 1
              c == a \div BlockSize
              r == a % BlockSize
  <2>1. a \in Nat /\ a < u + n /\ f = p * BlockSize + u
    OBVIOUS
  <2>2. c \in Nat /\ r \in Offsets /\ a = c * BlockSize + r
    BY <2>1, DivMod DEF Offsets
  <2>3. p * BlockSize \in Int /\ f + k - 1 = p * BlockSize + a
    BY <2>1, Constants
  <2>. HIDE DEF a, c, r
  <2>4. c * BlockSize \in Int /\ r \in Nat /\ (p + c) * BlockSize = c * BlockSize + p * BlockSize
    <3>1. p \in Int /\ c \in Int /\ r \in Nat
      BY <2>2 DEF Offsets
    <3>. QED  BY <3>1, Scale
  <2>5. c * BlockSize < u + n
    BY <2>1, <2>2, <2>4
  <2>6. blk[p + c] = b + c /\ b + c # 0
    BY <2>2, <2>5
  <2>7. f + k - 1 = (p + c) * BlockSize + r
    BY <2>2, <2>3, <2>4
  <2>8. Cell(disk, blk, (p + c) * BlockSize + r)
          = IF blk[p + c] = 0 THEN Zero ELSE disk[blk[p + c]][r]
    <3>. DEFINE i == p + c
    <3>1. i \in Nat
      BY <2>2
    <3>. HIDE DEF i
    <3>2. \A d, m : Cell(d, m, i * BlockSize + r) = IF m[i] = 0 THEN Zero ELSE d[m[i]][r]
      BY <2>2, <3>1, CellAt
    <3>. QED  BY <3>2 DEF i
  <2>9. Cell(disk, blk, f + k - 1) = disk[b + c][r]
    BY <2>6, <2>7, <2>8
  <2>. QED  BY <2>9 DEF a, c, r
<1>. QED  BY <1>1 DEF ReadFrom, Part

-----------------------------------------------------------------------------
(* What is known of a call in progress.                                    *)

\* A read has got what the file contains up to the position.
ReadSoFar == call.op = "fread" =>
    /\ call.from <= file.fpos
    /\ call.data = Part(disk, blk, call.from, file.fpos - call.from)
    /\ call.n = 0 => call.from = isize

\* A write that gives up lacks the space to grow, and the file it leaves has
\* grown only by what was written.
Growth == call.op = "fwrite" =>
    /\ call.rr \/ (call.pc = "fsize" /\ call.size > 0) => file.fpos + call.size > file.fsize
    /\ (call.pc \in {"gather", "tail"} /\ call.size = 0) \/ call.pc = "fsize"
          => (file.fpos <= file.fsize => isize = file.fsize)

DInv == IInv /\ ReadSoFar /\ Growth

LEMMA ReadFacts ==
    ASSUME DInv, call.op = "fread"
    PROVE  /\ IInv /\ call \in Calls /\ CallInv /\ MapOK /\ disk \in Disks /\ call.size \in Nat
           /\ call.from \in Nat /\ call.n \in Nat /\ file.fpos \in Nat /\ call.from <= file.fpos
           /\ call.from + call.n = file.fpos + call.size /\ file.fpos + call.size <= isize
           /\ isize \in 0..MaxSize /\ isize \in Nat /\ call.idx \in Nat /\ file \in Files
           /\ call.data = Part(disk, blk, call.from, file.fpos - call.from)
           /\ call.n = 0 => call.from = isize
<1>1. IInv /\ call \in Calls /\ CallInv /\ call.size \in Nat /\ call.from \in Nat /\ call.n \in Nat
      /\ call.idx \in Nat
  BY InCall DEF DInv
<1>2. MapOK /\ disk \in Disks /\ file.fpos \in Nat /\ isize \in 0..MaxSize /\ isize \in Nat
      /\ file \in Files
  BY <1>1, Parts DEF MapOK
<1>3. call.from + call.n = file.fpos + call.size /\ file.fpos + call.size <= isize
  BY <1>1 DEF CallInv, ReadInv
<1>. QED  BY <1>1, <1>2, <1>3 DEF DInv, ReadSoFar

\* What has been read so far, and what comes after it
LEMMA ReadJoins ==
    ASSUME DInv, call.op = "fread", NEW n \in Nat
    PROVE  call.data \o Part(disk, blk, file.fpos, n)
              = Part(disk, blk, call.from, (file.fpos + n) - call.from)
<1>1. /\ call.from \in Nat /\ file.fpos \in Nat /\ call.from <= file.fpos
      /\ call.data = Part(disk, blk, call.from, file.fpos - call.from)
  BY ReadFacts
<1>. DEFINE f == call.from
            g == file.fpos
            a == file.fpos - call.from
<1>2. /\ f \in Nat /\ a \in Nat /\ g \in Nat /\ n \in Nat /\ g = f + a /\ a + n = (g + n) - f
      /\ call.data = Part(disk, blk, f, a)
  BY <1>1
<1>. HIDE DEF f, g, a
<1>3. \A x, y, z, w \in Nat : z = x + y =>
         \A d, m : Part(d, m, x, y) \o Part(d, m, z, w) = Part(d, m, x, y + w)
  BY PartJoins, Zenon
<1>4. \A z, w \in Nat : z = f + a =>
         \A d, m : Part(d, m, f, a) \o Part(d, m, z, w) = Part(d, m, f, a + w)
  BY <1>2, <1>3, Zenon
<1>5. \A d, m : Part(d, m, f, a) \o Part(d, m, g, n) = Part(d, m, f, a + n)
  BY <1>2, <1>4, Zenon
<1>6. call.data \o Part(disk, blk, g, n) = Part(disk, blk, f, (g + n) - f)
  BY <1>2, <1>5
<1>. QED  BY <1>6 DEF f, g

\* The common part of the steps of a read
LEMMA ReadGoesOn ==
    ASSUME DInv, call.op = "fread", call'.op = "fread", UNCHANGED <<disk, blk, isize, result>>,
           call'.from = call.from, call'.n = call.n, NEW n \in Nat,
           file'.fpos = file.fpos + n,
           call'.data = Part(disk, blk, call.from, (file.fpos + n) - call.from)
    PROVE  ReadSoFar' /\ Growth' /\ StepsAsFile
<1>1. /\ call.from \in Nat /\ file.fpos \in Nat /\ call.from <= file.fpos
      /\ call.n = 0 => call.from = isize
  BY ReadFacts
<1>2. ReadSoFar'
  <2>1. disk' = disk /\ blk' = blk /\ isize' = isize
    OBVIOUS
  <2>2. call'.from <= file'.fpos /\ (call'.n = 0 => call'.from = isize')
    BY <1>1, <2>1
  <2>3. call'.data = Part(disk', blk', call'.from, file'.fpos - call'.from)
    BY <2>1
  <2>. QED  BY <2>2, <2>3 DEF ReadSoFar, Part, Cell
<1>3. Growth'
  BY DEF Growth
<1>4. Contents' = Contents
  BY DEF Contents, Content, Dblk, Size, Writing
<1>5. Writing' = Writing /\ Position' = Position /\ Todo' = Todo
  BY DEF Writing, Position, Todo
<1>. QED  BY <1>2, <1>3, <1>4, <1>5 DEF StepsAsFile, ByteFile!vars

LEMMA ReadHeadAsFile ==
    ASSUME DInv, ReadHead
    PROVE  ReadSoFar' /\ Growth' /\ StepsAsFile
<1>1. call.op = "fread" /\ call.pc = "head" /\ UNCHANGED <<disk, blk, isize, result>>
      /\ file' = Advanced(HeadLen)
  BY DEF ReadHead, In
<1>2. IInv /\ call \in Calls /\ file \in Files /\ file.fpos \in Nat /\ MapOK
  BY <1>1, ReadFacts
<1>3. /\ Unaligned \in Nat /\ HeadLen \in Nat /\ Unaligned + HeadLen <= BlockSize
      /\ call.idx * BlockSize + Unaligned = file.fpos /\ call.idx \in 0..MaxBlocks - 1
      /\ blk[call.idx] \in Phys /\ Dblk(call.idx) = blk[call.idx] /\ blk[call.idx] # 0
  BY <1>1, <1>2, HeadFacts
<1>4. ReadFrom(blk[call.idx], Unaligned, HeadLen) = Part(disk, blk, file.fpos, HeadLen)
  <2>. DEFINE b == blk[call.idx]
              u == Unaligned
              n == HeadLen
              p == call.idx
  <2>1. b \in Nat /\ u \in Nat /\ n \in Nat /\ p \in Nat /\ b # 0 /\ u + n <= BlockSize
        /\ blk[p] = b /\ file.fpos = p * BlockSize + u
    <3>1. p \in Nat /\ b \in Nat
      <4>1. p \in Nat
        BY <1>1, <1>2, InCall
      <4>2. b \in Phys
        BY <1>3
      <4>. HIDE DEF b
      <4>3. b \in Nat
        BY <4>2, PhysAssumption
      <4>. QED  BY <4>1, <4>3
    <3>2. file.fpos = p * BlockSize + u
      BY <1>3
    <3>. HIDE DEF p
    <3>. QED  BY <1>3, <3>1, <3>2 DEF p
  <2>. HIDE DEF b, u, n, p
  <2>2. ASSUME NEW c \in Nat, c * BlockSize < u + n
        PROVE  blk[p + c] = b + c /\ b + c # 0
    <3>1. c = 0
      <4>1. c > 0 => c * BlockSize >= BlockSize
        BY Constants, Scale
      <4>2. c * BlockSize \in Nat /\ BlockSize \in Nat
        BY Constants
      <4>. QED  BY <2>1, <2>2, <4>1, <4>2
    <3>. QED  BY <2>1, <3>1
  <2>3. ReadFrom(b, u, n) = Part(disk, blk, file.fpos, n)
    BY <1>2, <2>1, <2>2, ReadFromIs
  <2>. QED  BY <2>3 DEF b, u, n
<1>5. /\ call'.op = "fread" /\ call'.from = call.from /\ call'.n = call.n
      /\ call'.data = call.data \o Part(disk, blk, file.fpos, HeadLen)
  BY <1>1, <1>2, <1>3, <1>4 DEF ReadHead, Moved, Calls
<1>6. file'.fpos = file.fpos + HeadLen
  BY <1>1, <1>2 DEF Advanced, Files
<1>7. call'.data = Part(disk, blk, call.from, (file.fpos + HeadLen) - call.from)
  BY <1>1, <1>3, <1>5, ReadJoins
<1>. QED  BY <1>1, <1>3, <1>5, <1>6, <1>7, ReadGoesOn

LEMMA ReadGatherAsFile ==
    ASSUME DInv, ReadGather
    PROVE  ReadSoFar' /\ Growth' /\ StepsAsFile
<1>1. call.op = "fread" /\ UNCHANGED <<disk, blk, isize, file, result>>
  BY DEF ReadGather, Gathering, In
<1>2. /\ call \in Calls /\ file.fpos \in Nat
      /\ call.data = Part(disk, blk, call.from, file.fpos - call.from)
  BY <1>1, ReadFacts
<1>3. call'.op = "fread" /\ call'.from = call.from /\ call'.n = call.n /\ call'.data = call.data
  BY <1>1, <1>2 DEF ReadGather, Gathered, Calls
<1>4. file'.fpos = file.fpos + 0 /\ file.fpos = file.fpos + 0
  BY <1>1, <1>2
<1>. QED  BY <1>1, <1>2, <1>3, <1>4, ReadGoesOn

LEMMA ReadRunAsFile ==
    ASSUME DInv, ReadRun
    PROVE  ReadSoFar' /\ Growth' /\ StepsAsFile
<1>. DEFINE len == call.count * BlockSize
<1>1. call.op = "fread" /\ RunReady(call.op) /\ UNCHANGED <<disk, blk, isize, result>>
      /\ file' = Advanced(len)
      /\ call' = [NextRun EXCEPT !.data = @ \o ReadFrom(call.start, 0, len)]
  BY DEF ReadRun, RunReady, In
<1>2. IInv /\ call \in Calls /\ file \in Files /\ file.fpos \in Nat /\ MapOK
      /\ call.count \in Nat /\ call.start \in Nat /\ len \in Nat
  <2>1. IInv /\ call \in Calls /\ file \in Files /\ file.fpos \in Nat /\ MapOK
    BY <1>1, ReadFacts
  <2>2. call.count \in Nat /\ call.start \in Nat
    BY <1>1, <2>1, InCall
  <2>. QED  BY <2>1, <2>2, Constants
<1>3. ReadFrom(call.start, 0, len) = Part(disk, blk, file.fpos, len)
  <2>. DEFINE b == call.start
              k == call.count
  <2>1. PICK p \in Nat : RunAt(p)
    BY <1>1, <1>2, RunHere
  <2>2. p \in Nat /\ b \in Nat /\ k \in Nat /\ len = k * BlockSize /\ file.fpos = p * BlockSize
        /\ (b = 0 <=> k = 0) /\ \A c \in 0..k - 1 : blk[p + c] = b + c
    BY <1>2, <2>1 DEF RunAt
  <2>. HIDE DEF b, k, len
  <2>3. ASSUME NEW c \in Nat, c * BlockSize < 0 + len
        PROVE  blk[p + c] = b + c /\ b + c # 0
    <3>1. c * BlockSize < k * BlockSize
      BY <1>2, <2>2, <2>3
    <3>2. c < k
      BY <2>2, <3>1, ScaleLess
    <3>. QED  BY <2>2, <3>2
  <2>4. 0 \in Nat /\ file.fpos = p * BlockSize + 0
    BY <1>2, <2>2
  <2>5. ReadFrom(b, 0, len) = Part(disk, blk, file.fpos, len)
    BY <1>2, <2>2, <2>3, <2>4, ReadFromIs
  <2>. QED  BY <2>5 DEF b
<1>. HIDE DEF len
<1>4. /\ call'.op = "fread" /\ call'.from = call.from /\ call'.n = call.n
      /\ call'.data = call.data \o Part(disk, blk, file.fpos, len)
  BY <1>1, <1>2, <1>3 DEF NextRun, Moved, Calls
<1>5. file'.fpos = file.fpos + len
  BY <1>1, <1>2 DEF Advanced, Files
<1>6. call'.data = Part(disk, blk, call.from, (file.fpos + len) - call.from)
  BY <1>1, <1>2, <1>4, ReadJoins
<1>. QED  BY <1>1, <1>2, <1>4, <1>5, <1>6, ReadGoesOn

\* The last access reads from the block at the index, if it reads anything.
LEMMA TailRead ==
    ASSUME DInv, ReadTail
    PROVE  result' = Part(disk, blk, call.from, call.n)
<1>1. call.op = "fread" /\ call.pc = "gather" /\ call.size < BlockSize
      /\ result' = call.data \o ReadFrom(Dblk(call.idx), 0, call.size)
  BY DEF ReadTail, RunsDone, In
<1>2. /\ IInv /\ CallInv /\ MapOK /\ call.size \in Nat /\ call.idx \in Nat /\ file.fpos \in Nat
      /\ call.from \in Nat /\ call.n \in Nat /\ isize \in Nat
      /\ call.from + call.n = file.fpos + call.size /\ file.fpos + call.size <= isize
  BY <1>1, ReadFacts
<1>. DEFINE b == Dblk(call.idx)
            n == call.size
            p == call.idx
<1>3. b \in Nat
  <2>1. DOMAIN blk = 0..MaxBlocks - 1 /\ \A i \in 0..MaxBlocks - 1 : blk[i] \in {0} \cup Phys
    BY <1>2, MapFacts
  <2>2. b = 0 \/ (call.idx \in 0..MaxBlocks - 1 /\ b = blk[call.idx])
    BY <1>2, Constants DEF Dblk
  <2>3. b \in {0} \cup Phys
    BY <2>1, <2>2
  <2>. HIDE DEF b
  <2>. QED  BY <2>3, PhysAssumption
<1>4. n > 0 => /\ file.fpos = p * BlockSize + 0 /\ blk[p] = b /\ b # 0
  <2>. SUFFICES ASSUME n > 0 PROVE file.fpos = p * BlockSize + 0 /\ blk[p] = b /\ b # 0
    OBVIOUS
  <2>1. file.fpos = p * BlockSize
    BY <1>1, <1>2 DEF CallInv, TailInv
  <2>2. p * BlockSize < isize
    BY <1>2, <2>1
  <2>3. p < Blocks(isize) /\ Blocks(isize) \in 0..MaxBlocks
    BY <1>2, <2>2, BelowSize, MapFacts
  <2>4. p \in 0..MaxBlocks - 1
    BY <1>2, <2>3, Constants
  <2>5. blk[p] = b /\ b # 0
    BY <1>2, <2>3, <2>4, MappedBelow
  <2>. QED  BY <1>2, <2>1, <2>5
<1>5. ReadFrom(b, 0, n) = Part(disk, blk, file.fpos, n)
  <2>1. n \in Nat /\ p \in Nat /\ 0 \in Nat /\ n < BlockSize
    BY <1>1, <1>2
  <2>. HIDE DEF b, n, p
  <2>2. ASSUME NEW c \in Nat, c * BlockSize < 0 + n
        PROVE  blk[p + c] = b + c /\ b + c # 0
    <3>1. c > 0 => c * BlockSize >= BlockSize
      BY Constants, Scale
    <3>2. c * BlockSize \in Nat /\ BlockSize \in Nat
      BY Constants
    <3>3. c = 0 /\ n > 0
      BY <2>1, <2>2, <3>1, <3>2
    <3>. QED  BY <1>3, <1>4, <2>1, <3>3
  <2>3. \A c \in Nat : c * BlockSize < 0 + n => blk[p + c] = b + c /\ b + c # 0
    BY <2>2
  <2>4. CASE n > 0
    <3>1. file.fpos = p * BlockSize + 0
      BY <1>4, <2>4
    <3>. QED  BY <1>2, <1>3, <2>1, <2>3, <3>1, ReadFromIs
  <2>5. CASE ~(n > 0)
    <3>1. n = 0
      BY <2>1, <2>5
    <3>. QED  BY <3>1 DEF ReadFrom, Part
  <2>. QED  BY <2>4, <2>5
<1>6. result' = Part(disk, blk, call.from, (file.fpos + call.size) - call.from)
  BY <1>1, <1>2, <1>5, ReadJoins
<1>7. (file.fpos + call.size) - call.from = call.n
  BY <1>2
<1>. QED  BY <1>6, <1>7

LEMMA ReadTailAsFile ==
    ASSUME DInv, ReadTail
    PROVE  /\ result' = SubSeq(Content(isize), call.from + 1, call.from + call.n)
           /\ StepsAsFile
<1>1. call.op = "fread" /\ call' = Idle /\ UNCHANGED <<disk, blk, isize>>
      /\ file' = Advanced(call.size)
  BY DEF ReadTail, RunsDone, In
<1>2. /\ IInv /\ MapOK /\ call.size \in Nat /\ file.fpos \in Nat /\ file \in Files
      /\ call.from \in Nat /\ call.n \in Nat /\ isize \in Nat /\ isize \in 0..MaxSize
      /\ call.from + call.n = file.fpos + call.size /\ call.from + call.n <= isize
      /\ call.n = 0 => call.from = isize
  BY <1>1, ReadFacts
<1>3. ~Writing /\ Position = call.from /\ Todo = <<>> /\ Size = isize
  BY <1>1 DEF Writing, Position, Todo, Size
<1>4. ~Writing' /\ Writing' = Writing /\ Todo' = <<>> /\ Size' = isize /\ Position' = file'.fpos
  BY <1>1, <1>3 DEF Idle, Writing, Position, Todo, Size
<1>5. Contents = Content(isize) /\ Contents = FileText(disk, blk, isize) /\ Len(Contents) = isize
  BY <1>2, <1>3, ContentsAre DEF Contents
<1>6. Contents' = Contents
  BY <1>1, <1>3, <1>4 DEF Contents, Content, Dblk
<1>7. result' = SubSeq(Contents, call.from + 1, call.from + call.n)
  <2>1. SubSeq(FileText(disk, blk, isize), call.from + 1, call.from + call.n)
           = Part(disk, blk, call.from, call.n)
    <3>1. \A x, y, z \in Nat : y + z <= x =>
             \A d, m : SubSeq(FileText(d, m, x), y + 1, y + z) = Part(d, m, y, z)
      BY PartOfText, Zenon
    <3>. DEFINE x == isize
                y == call.from
                z == call.n
    <3>2. x \in Nat /\ y \in Nat /\ z \in Nat /\ y + z <= x
      BY <1>2
    <3>. HIDE DEF x, y, z
    <3>3. \A d, m : SubSeq(FileText(d, m, x), y + 1, y + z) = Part(d, m, y, z)
      BY <3>1, <3>2, Zenon
    <3>4. SubSeq(FileText(disk, blk, x), y + 1, y + z) = Part(disk, blk, y, z)
      BY <3>3
    <3>. QED  BY <3>4 DEF x, y, z
  <2>. QED  BY <1>5, <2>1, TailRead
<1>8. Position' = call.from + call.n
  BY <1>1, <1>2, <1>4 DEF Advanced, Files
<1>9. PICK n \in 1..isize + 1 : call.from + call.n = IF isize < call.from + n THEN isize
                                                                       ELSE call.from + n
  <2>1. CASE call.n = 0
    <3>1. 1 \in 1..isize + 1 /\ isize < call.from + 1 /\ call.from + call.n = isize
      BY <1>2, <2>1
    <3>. QED  BY <3>1
  <2>2. CASE call.n # 0
    <3>1. call.n \in 1..isize + 1 /\ ~(isize < call.from + call.n)
      BY <1>2, <2>2
    <3>. QED  BY <3>1
  <2>. QED  BY <2>1, <2>2
<1>10. ByteFile!Read(n)
  <2>. DEFINE last == IF Len(Contents) < Position + n THEN Len(Contents) ELSE Position + n
  <2>1. last = call.from + call.n
    BY <1>3, <1>5, <1>9
  <2>2. result' = SubSeq(Contents, Position + 1, last) /\ Position' = last
    BY <1>3, <1>7, <1>8, <2>1
  <2>3. ~Writing /\ Position <= Len(Contents) /\ UNCHANGED <<Contents, Writing, Todo>>
    BY <1>2, <1>3, <1>4, <1>5, <1>6
  <2>. QED  BY <2>2, <2>3 DEF ByteFile!Read
<1>11. StepsAsFile
  <2>1. n \in 1..Len(Contents) + 1
    BY <1>5, <1>9
  <2>. QED  BY <1>10, <2>1 DEF StepsAsFile, ByteFile!Next
<1>. QED  BY <1>5, <1>7, <1>11

LEMMA ReadFailAsFile ==
    ASSUME DInv, ReadFail
    PROVE  StepsAsFile
<1>1. call.op = "fread" /\ call' = Idle /\ MayFail /\ UNCHANGED <<disk, blk, isize, file, result>>
  BY DEF ReadFail, RunReady, RunsDone, In
<1>2. /\ IInv /\ MapOK /\ call.size \in Nat /\ file.fpos \in Nat /\ call.from \in Nat
      /\ isize \in Nat /\ file.fpos + call.size <= isize /\ call.from <= file.fpos
  BY <1>1, ReadFacts
<1>3. ~Writing /\ Position = call.from /\ Todo = <<>> /\ Size = isize
  BY <1>1 DEF Writing, Position, Todo, Size
<1>4. ~Writing' /\ Writing' = Writing /\ Todo' = <<>> /\ Size' = isize /\ Position' = file.fpos
  BY <1>1, <1>3 DEF Idle, Writing, Position, Todo, Size
<1>5. Len(Contents) = isize
  BY <1>2, <1>3, ContentsAre
<1>6. Contents' = Contents
  BY <1>1, <1>3, <1>4 DEF Contents, Content, Dblk
<1>7. Position' >= Position /\ Position' <= Len(Contents)
  BY <1>2, <1>3, <1>4, <1>5
<1>8. ByteFile!ReadError
  BY <1>1, <1>3, <1>4, <1>6, <1>7 DEF ByteFile!ReadError
<1>. QED  BY <1>8 DEF StepsAsFile, ByteFile!Next

-----------------------------------------------------------------------------
(* Writing.                                                                *)
LEMMA WriteFacts ==
    ASSUME IInv, call.op = "fwrite"
    PROVE  /\ call \in Calls /\ CallInv /\ MapOK /\ disk \in Disks /\ file \in Files
           /\ call.size \in Nat /\ call.idx \in Nat /\ call.count \in Nat /\ call.start \in Nat
           /\ call.rr \in BOOLEAN /\ file.fpos \in Nat /\ file.fsize \in Nat
           /\ isize \in 0..MaxSize /\ isize \in Nat /\ MaxSize \in Nat
           /\ file.fpos + call.size <= MaxSize /\ (call.pc # "fsize" => Grown)
           /\ call.rr => call.pc \in {"direct", "fsize"}
           /\ Size = IF file.fpos > file.fsize THEN file.fpos ELSE file.fsize
           /\ Size \in 0..MaxSize /\ Size \in Nat
<1>1. /\ call \in Calls /\ CallInv /\ call.size \in Nat /\ call.idx \in Nat
      /\ call.count \in Nat /\ call.start \in Nat /\ call.rr \in BOOLEAN
  BY InCall
<1>2. /\ MapOK /\ disk \in Disks /\ file \in Files /\ file.fpos \in Nat /\ file.fsize \in Nat
      /\ isize \in 0..MaxSize /\ isize \in Nat /\ MaxSize \in Nat
  BY Parts, Constants DEF MapOK
<1>3. /\ file.fpos + call.size <= MaxSize /\ (call.pc # "fsize" => Grown)
      /\ call.rr => call.pc \in {"direct", "fsize"}
  BY <1>1 DEF CallInv, WriteInv
<1>4. /\ Size = IF file.fpos > file.fsize THEN file.fpos ELSE file.fsize
      /\ Size \in 0..MaxSize
  BY TodoIs, ContentsAre
<1>5. Size \in Nat
  BY <1>2, <1>4
<1>. QED  BY <1>1, <1>2, <1>3, <1>4, <1>5

\* The first k units of the data are stored; whatever else is in the file stays.
LEMMA StoresData ==
    ASSUME IInv, MapOK', call.op = "fwrite", call'.op = "fwrite", call'.v = call.v,
           result' = result, NEW k \in Nat, k <= call.size, call'.size = call.size - k,
           file'.fpos = file.fpos + k, file'.fsize = file.fsize,
           NEW b \in Nat, NEW u \in Nat, NEW p \in Nat, NEW n \in Nat,
           StoredAt(b, u, 0..k - 1, p, n),
           \A q \in 0..Size - 1 : Cell(disk, blk', q) = Cell(disk, blk, q)
    PROVE  StepsAsFile
<1>. DEFINE K == 0..k - 1
            r == IF Size < file.fpos + k THEN file.fpos + k ELSE Size
<1>1. /\ disk \in Disks /\ file.fpos \in Nat /\ Size \in Nat /\ Size \in 0..MaxSize /\ MaxSize \in Nat
      /\ call.size \in Nat /\ file.fpos + call.size <= MaxSize /\ file.fpos <= Size
  BY WriteFacts, TodoIs
<1>2. r \in Nat /\ r <= MaxSize /\ file.fpos + k <= MaxSize
  BY <1>1
<1>3. K \in SUBSET Nat /\ StoredAt(b, u, K, p, n)
  OBVIOUS
<1>4. ASSUME NEW q \in 0..r - 1
      PROVE  Cell(disk', blk', q) = IF file.fpos <= q /\ q < file.fpos + k
                                    THEN <<call.v, q>> ELSE Cell(disk, blk, q)
  <2>1. q \in Nat /\ q < MaxSize
    BY <1>1, <1>2
  <2>2. Cell(disk', blk', q) = IF q - file.fpos \in K THEN <<call.v, q>> ELSE Cell(disk, blk', q)
    <3>. HIDE DEF K
    <3>. QED  BY <1>1, <1>3, <2>1, StoredCells
  <2>3. q - file.fpos \in K <=> file.fpos <= q /\ q < file.fpos + k
    <3>. DEFINE a == file.fpos
    <3>1. a \in Nat
      BY <1>1
    <3>. HIDE DEF a
    <3>2. q - a \in K <=> a <= q /\ q < a + k
      BY <2>1, <3>1
    <3>. QED  BY <3>2 DEF a
  <2>4. CASE file.fpos <= q /\ q < file.fpos + k
    BY <2>2, <2>3, <2>4
  <2>5. CASE ~(file.fpos <= q /\ q < file.fpos + k)
    <3>1. q \in 0..Size - 1
      BY <1>1, <2>1, <2>5
    <3>. QED  BY <2>2, <2>3, <2>5, <3>1
  <2>. QED  BY <2>4, <2>5
<1>. HIDE DEF K
<1>5. r = IF Size < file.fpos + k THEN file.fpos + k ELSE Size
  OBVIOUS
<1>. HIDE DEF r
<1>. QED  BY <1>2, <1>4, <1>5, StoreIs

\* Some of it goes there, and the write fails.
LEMMA StoresSome ==
    ASSUME IInv, IInv', MayFail, call.op = "fwrite", call' = Idle, UNCHANGED <<file, result>>,
           NEW b \in Nat, NEW u \in Nat, NEW p \in Nat, NEW n \in Nat,
           NEW k \in Nat, k <= call.size, NEW K \in SUBSET (0..k - 1), StoredAt(b, u, K, p, n),
           \A q \in 0..Size - 1 : Cell(disk, blk', q) = Cell(disk, blk, q)
    PROVE  StepsAsFile
<1>1. /\ disk \in Disks /\ file.fpos \in Nat /\ Size \in Nat /\ Size \in 0..MaxSize /\ MaxSize \in Nat
      /\ call.size \in Nat /\ MapOK'
  BY WriteFacts, NextParts
<1>3. K \in SUBSET Nat
  OBVIOUS
<1>4. ASSUME NEW q \in 0..Size - 1
      PROVE  \/ Cell(disk', blk', q) = Cell(disk, blk, q)
             \/ /\ file.fpos <= q /\ q < file.fpos + call.size
                /\ Cell(disk', blk', q) = <<call.v, q>>
  <2>1. q \in Nat /\ q < MaxSize
    BY <1>1
  <2>2. Cell(disk', blk', q) = IF q - file.fpos \in K THEN <<call.v, q>> ELSE Cell(disk, blk', q)
    BY <1>1, <1>3, <2>1, StoredCells
  <2>3. q - file.fpos \in K => file.fpos <= q /\ q < file.fpos + call.size
    <3>. DEFINE a == file.fpos
                s == call.size
    <3>1. a \in Nat /\ s \in Nat /\ k <= s
      BY <1>1
    <3>. HIDE DEF a, s
    <3>2. q - a \in K => a <= q /\ q < a + s
      BY <2>1, <3>1
    <3>. QED  BY <3>2 DEF a, s
  <2>. QED  BY <2>2, <2>3
<1>. QED  BY <1>4, WriteErrorIs

\* Where the write is, a block appended to the file holds none of the content.
LEMMA AppendKeeps ==
    ASSUME IInv, call.op = "fwrite", call.idx >= Blocks(file.fsize),
           file.fpos <= call.idx * BlockSize,
           \A i \in 0..MaxBlocks - 1 : i # call.idx => blk'[i] = blk[i]
    PROVE  \A q \in 0..Size - 1 : Cell(disk, blk', q) = Cell(disk, blk, q)
<1>1. /\ call.idx \in Nat /\ file.fpos \in Nat /\ file.fsize \in Nat /\ Size \in 0..MaxSize
      /\ MaxSize \in Nat /\ Size = IF file.fpos > file.fsize THEN file.fpos ELSE file.fsize
  BY WriteFacts
<1>2. TAKE q \in 0..Size - 1
<1>3. q \in Nat /\ q < MaxSize /\ (q < file.fpos \/ q < file.fsize)
  BY <1>1
<1>4. PICK i \in 0..MaxBlocks - 1, o \in Offsets : q = i * BlockSize + o
  BY <1>3, Place
<1>5. i \in Nat /\ o \in Nat /\ i * BlockSize \in Nat
  BY <1>4, Constants DEF Offsets
<1>6. i < call.idx
  <2>1. CASE q < file.fpos
    <3>1. i * BlockSize < call.idx * BlockSize
      <4>1. call.idx * BlockSize \in Nat
        BY <1>1, Constants
      <4>. QED  BY <1>1, <1>4, <1>5, <2>1, <4>1
    <3>. QED  BY <1>1, <1>5, <3>1, ScaleLess
  <2>2. CASE q < file.fsize
    <3>1. i < Blocks(file.fsize) /\ Blocks(file.fsize) \in Nat
      BY <1>1, <1>4, <1>5, <2>2, BlockBelow, BlocksOf
    <3>. QED  BY <1>1, <1>5, <3>1
  <2>. QED  BY <1>3, <2>1, <2>2
<1>7. blk'[i] = blk[i]
  BY <1>1, <1>4, <1>5, <1>6
<1>8. \A d, m : Cell(d, m, i * BlockSize + o) = IF m[i] = 0 THEN Zero ELSE d[m[i]][o]
  BY <1>4, <1>5, CellAt
<1>. QED  BY <1>4, <1>7, <1>8

\* A write has no part in ReadSoFar, nor has what follows a call.
LEMMA NotReading ==
    ASSUME call'.op # "fread"
    PROVE  ReadSoFar'
BY DEF ReadSoFar

LEMMA NotWriting ==
    ASSUME call' = Idle
    PROVE  ReadSoFar' /\ Growth'
<1>1. call'.op = "none"
  BY DEF Idle
<1>. QED  BY <1>1 DEF ReadSoFar, Growth

LEMMA HeadAt ==
    ASSUME IInv, call.op = "fwrite", call.pc = "head", UNCHANGED blk,
           NEW K, K \subseteq 0..HeadLen - 1, disk' = Stored(Dblk(call.idx), Unaligned, K)
    PROVE  \E b, u, p \in Nat : StoredAt(b, u, K, p, 1)
<1>1. /\ Unaligned \in Nat /\ HeadLen \in Nat /\ Unaligned + HeadLen <= BlockSize
      /\ call.idx * BlockSize + Unaligned = file.fpos /\ call.idx \in 0..MaxBlocks - 1
      /\ blk[call.idx] \in Phys /\ Dblk(call.idx) = blk[call.idx] /\ blk[call.idx] # 0
  BY HeadFacts
<1>. DEFINE b == blk[call.idx]
            u == Unaligned
            p == call.idx
<1>2. p \in Nat /\ p + 1 <= MaxBlocks /\ p \in Int
  BY <1>1, WriteFacts, Constants
<1>3. b \in Nat /\ b # 0 /\ blk'[p] = b /\ disk' = Stored(b, u, K)
  <2>1. b \in Phys /\ b # 0 /\ blk'[p] = b /\ disk' = Stored(b, u, K)
    BY <1>1
  <2>. HIDE DEF b
  <2>. QED  BY <2>1, PhysAssumption
<1>4. u \in Nat /\ HeadLen \in Nat /\ u + HeadLen <= BlockSize /\ file.fpos = p * BlockSize + u
  BY <1>1
<1>. HIDE DEF b, u, p
<1>5. \A c \in 0..1 - 1 : blk'[p + c] = b + c
  <2>1. \A c \in 0..1 - 1 : p + c = p /\ b + c = b
    BY <1>2, <1>3
  <2>. QED  BY <1>3, <2>1
<1>6. \A k \in K : u + k < 1 * BlockSize
  <2>1. 1 * BlockSize = BlockSize /\ BlockSize \in Nat
    BY Constants
  <2>2. \A k \in K : k \in Nat /\ k < HeadLen
    BY <1>4
  <2>. QED  BY <1>4, <2>1, <2>2
<1>7. StoredAt(b, u, K, p, 1)
  BY <1>2, <1>3, <1>4, <1>5, <1>6 DEF StoredAt
<1>. QED  BY <1>2, <1>3, <1>4, <1>7

LEMMA WriteHeadAsFile ==
    ASSUME DInv, IInv', WriteHead
    PROVE  ReadSoFar' /\ Growth' /\ StepsAsFile
<1>1. /\ IInv /\ call.op = "fwrite" /\ call.pc = "head" /\ UNCHANGED <<free, blk, isize, result>>
      /\ disk' = Stored(Dblk(call.idx), Unaligned, 0..HeadLen - 1)
      /\ call' = [Moved(call, HeadLen) EXCEPT !.pc = "gather", !.idx = @ + 1]
      /\ file' = Advanced(HeadLen)
  BY DEF DInv, WriteHead, In
<1>2. /\ call \in Calls /\ CallInv /\ file \in Files /\ file.fpos \in Nat /\ call.size \in Nat
      /\ file.fsize \in Nat /\ isize \in Nat /\ call.idx \in Nat /\ Grown /\ ~call.rr /\ MapOK'
  BY <1>1, WriteFacts, NextParts
<1>3. HeadLen \in Nat /\ HeadLen <= call.size
  BY <1>1, HeadFacts
<1>4. /\ call'.op = "fwrite" /\ call'.v = call.v /\ call'.size = call.size - HeadLen
      /\ call'.pc = "gather" /\ call'.rr = call.rr
  BY <1>1, <1>2, <1>3 DEF Moved, Calls
<1>5. file'.fpos = file.fpos + HeadLen /\ file'.fsize = file.fsize
  BY <1>1, <1>2 DEF Advanced, Files
<1>6. StepsAsFile
  <2>. DEFINE k == HeadLen
  <2>1. \E b, u, p \in Nat : StoredAt(b, u, 0..k - 1, p, 1)
    BY <1>1, HeadAt
  <2>2. k \in Nat /\ k <= call.size /\ call'.size = call.size - k /\ file'.fpos = file.fpos + k
    BY <1>3, <1>4, <1>5
  <2>. HIDE DEF k
  <2>3. PICK b \in Nat, u \in Nat, p \in Nat : StoredAt(b, u, 0..k - 1, p, 1)
    BY <2>1
  <2>4. 1 \in Nat /\ result' = result /\ \A q \in 0..Size - 1 : Cell(disk, blk', q) = Cell(disk, blk, q)
    BY <1>1
  <2>. QED  BY <1>1, <1>2, <1>4, <1>5, <2>2, <2>3, <2>4, StoresData
<1>7. Growth'
  <2>1. isize = file.fsize
    <3>1. file.fpos <= isize /\ call.idx * BlockSize < file.fpos
      BY <1>1, <1>2 DEF CallInv, HeadInv
    <3>2. isize = file.fsize \/ isize = call.idx * BlockSize
      BY <1>2 DEF Grown
    <3>. QED  BY <1>2, <3>1, <3>2
  <2>. QED  BY <1>1, <1>2, <1>4, <1>5, <2>1 DEF Growth
<1>. QED  BY <1>4, <1>6, <1>7, NotReading

LEMMA WriteGatherAsFile ==
    ASSUME DInv, IInv', WriteGather
    PROVE  ReadSoFar' /\ Growth' /\ StepsAsFile
<1>1. /\ IInv /\ call.op = "fwrite" /\ UNCHANGED <<disk, blk, isize, file, result>>
      /\ Gathering(call.op) /\ call' = Gathered(Dblk(call.idx), call.idx)
  BY DEF DInv, WriteGather, Gathering, In
<1>2. call \in Calls /\ ~call.rr /\ call.size >= BlockSize /\ call.size \in Nat /\ MapOK'
  BY <1>1, WriteFacts, GatherFacts, NextParts
<1>3. /\ call'.op = "fwrite" /\ call'.v = call.v /\ call'.size = call.size
      /\ call'.pc \in {"gather", "direct"} /\ call'.rr = call.rr
  BY <1>1, <1>2 DEF Gathered, Calls
<1>4. Growth'
  BY <1>2, <1>3, Constants DEF Growth
<1>5. StepsAsFile
  BY <1>1, <1>2, <1>3, WriteGoesOn
<1>. QED  BY <1>3, <1>4, <1>5, NotReading

\* Where a block is gathered
LEMMA GatherAt ==
    ASSUME IInv, call.op = "fwrite", Gathering(call.op)
    PROVE  /\ call.idx \in Nat /\ call.idx \in 0..MaxBlocks - 1 /\ file.fpos <= call.idx * BlockSize
           /\ (call.idx + 1) * BlockSize <= file.fpos + call.size
<1>1. /\ RunAt(call.idx - call.count) /\ (call.idx + 1) * BlockSize <= file.fpos + call.size
      /\ call.idx \in 0..MaxBlocks - 1
  BY GatherFacts
<1>2. call.idx \in Nat /\ call.count \in Nat
  BY WriteFacts
<1>3. file.fpos = (call.idx - call.count) * BlockSize
  BY <1>1 DEF RunAt
<1>4. (call.idx - call.count) * BlockSize <= call.idx * BlockSize
  <2>1. call.idx - call.count \in Int /\ call.idx \in Int /\ call.idx - call.count <= call.idx
    BY <1>2
  <2>. QED  BY <2>1, ScaleLeq
<1>. QED  BY <1>1, <1>2, <1>3, <1>4

LEMMA WriteAppendAsFile ==
    ASSUME DInv, IInv', WriteAppend
    PROVE  ReadSoFar' /\ Growth' /\ StepsAsFile
<1>1. /\ IInv /\ call.op = "fwrite" /\ UNCHANGED <<disk, file, result>> /\ Gathering(call.op)
      /\ call.pc = "gather" /\ call.idx >= Blocks(file.fsize)
  BY DEF DInv, WriteAppend, Gathering, In
<1>2. PICK b \in free : AppendDblk(b) /\ call' = Gathered(b, Blocks(isize))
  BY DEF WriteAppend
<1>3. /\ call \in Calls /\ ~call.rr /\ call.size >= BlockSize /\ call.size \in Nat /\ MapOK' /\ MapOK
      /\ Grown /\ file.fsize \in Nat /\ isize \in Nat /\ MaxBlocks \in Nat
  BY <1>1, WriteFacts, GatherFacts, NextParts, Constants
<1>4. call.idx \in Nat /\ call.idx \in 0..MaxBlocks - 1 /\ file.fpos <= call.idx * BlockSize
  BY <1>1, GatherAt
<1>5. Blocks(isize) = call.idx
  BY <1>1, <1>3, <1>4, AppendsAtIdx
<1>6. /\ call'.op = "fwrite" /\ call'.v = call.v /\ call'.size = call.size
      /\ call'.pc \in {"gather", "direct"} /\ call'.rr = call.rr
  BY <1>1, <1>2, <1>3 DEF Gathered, Calls
<1>7. Growth'
  BY <1>3, <1>6, Constants DEF Growth
<1>8. \A i \in 0..MaxBlocks - 1 : i # call.idx => blk'[i] = blk[i]
  <2>1. Blocks(isize) < MaxBlocks
    BY <1>3, <1>4, <1>5
  <2>. QED  BY <1>2, <1>3, <1>5, <2>1, AppendOK
<1>9. \A q \in 0..Size - 1 : Cell(disk, blk', q) = Cell(disk, blk, q)
  BY <1>1, <1>4, <1>8, AppendKeeps
<1>10. StepsAsFile
  BY <1>1, <1>3, <1>6, <1>9, WriteGoesOn
<1>. QED  BY <1>6, <1>7, <1>10, NotReading

LEMMA AppendFailAsFile ==
    ASSUME DInv, IInv', AppendFail
    PROVE  ReadSoFar' /\ Growth' /\ StepsAsFile
<1>1. /\ IInv /\ call.op = "fwrite" /\ UNCHANGED <<disk, blk, isize, file, result>>
      /\ Gathering(call.op) /\ call.idx >= Blocks(file.fsize)
      /\ call' = [call EXCEPT !.pc = "direct", !.rr = TRUE]
  BY DEF DInv, AppendFail, Gathering, In
<1>2. call \in Calls /\ call.size \in Nat /\ file.fpos \in Nat /\ file.fsize \in Nat /\ MapOK'
  BY <1>1, WriteFacts, NextParts
<1>3. /\ call'.op = "fwrite" /\ call'.v = call.v /\ call'.size = call.size /\ call'.pc = "direct"
  BY <1>1, <1>2 DEF Calls
<1>4. file.fpos + call.size > file.fsize
  <2>1. call.idx \in Nat /\ call.idx \in Int /\ (call.idx + 1) * BlockSize <= file.fpos + call.size
    BY <1>1, GatherAt
  <2>2. Blocks(file.fsize) \in Nat /\ Blocks(file.fsize) \in Int
        /\ file.fsize <= Blocks(file.fsize) * BlockSize
    BY <1>2, BlocksOf
  <2>3. Blocks(file.fsize) * BlockSize <= call.idx * BlockSize
    BY <1>1, <2>1, <2>2, ScaleLeq
  <2>4. (call.idx + 1) * BlockSize = call.idx * BlockSize + BlockSize
    BY <2>1, Scale
  <2>5. call.idx * BlockSize \in Int /\ Blocks(file.fsize) * BlockSize \in Int
        /\ BlockSize \in Nat /\ BlockSize > 0
    BY <2>1, <2>2, Constants
  <2>. QED  BY <1>2, <2>1, <2>2, <2>3, <2>4, <2>5
<1>5. Growth'
  BY <1>1, <1>3, <1>4 DEF Growth
<1>6. StepsAsFile
  BY <1>1, <1>2, <1>3, WriteGoesOn
<1>. QED  BY <1>3, <1>5, <1>6, NotReading

LEMMA RunStored ==
    ASSUME IInv, call.op = "fwrite", RunReady(call.op), UNCHANGED blk,
           NEW K, K \subseteq 0..call.count * BlockSize - 1, disk' = Stored(call.start, 0, K)
    PROVE  \E p \in Nat : StoredAt(call.start, 0, K, p, call.count)
<1>. DEFINE b == call.start
            n == call.count
            y == call.count * BlockSize
<1>1. b \in Nat /\ n \in Nat /\ file.fpos \in Nat /\ disk' = Stored(b, 0, K)
  BY WriteFacts
<1>2. PICK p \in Nat : RunAt(p) /\ p + call.count <= MaxBlocks
  BY RunHere
<1>3. /\ p \in Nat /\ p + n <= MaxBlocks /\ file.fpos = p * BlockSize /\ (b = 0 <=> n = 0)
      /\ \A c \in 0..n - 1 : blk[p + c] = b + c
  BY <1>2 DEF RunAt
<1>4. \A k \in K : 0 + k < n * BlockSize
  <2>1. y \in Nat
    BY <1>1, Constants
  <2>. HIDE DEF y
  <2>2. \A k \in K : 0 + k < y
    <3>1. K \subseteq 0..y - 1
      BY DEF y
    <3>. QED  BY <2>1, <3>1
  <2>. QED  BY <2>2 DEF y
<1>. HIDE DEF b, n
<1>5. \A c \in 0..n - 1 : blk'[p + c] = b + c
  BY <1>3
<1>6. file.fpos = p * BlockSize + 0 /\ (n # 0 => b # 0)
  BY <1>1, <1>3
<1>7. StoredAt(b, 0, K, p, n)
  BY <1>1, <1>3, <1>4, <1>5, <1>6 DEF StoredAt
<1>. QED  BY <1>3, <1>7 DEF b, n

LEMMA WriteRunAsFile ==
    ASSUME DInv, IInv', WriteRun
    PROVE  ReadSoFar' /\ Growth' /\ StepsAsFile
<1>1. /\ IInv /\ call.op = "fwrite" /\ RunReady(call.op) /\ Growth
      /\ disk' = Stored(call.start, 0, 0..call.count * BlockSize - 1)
      /\ file' = Advanced(call.count * BlockSize)
      /\ call' = (IF call.rr THEN [NextRun EXCEPT !.pc = "fsize"] ELSE NextRun)
      /\ UNCHANGED <<free, blk, isize, result>>
  BY DEF DInv, WriteRun, RunReady, In
<1>2. /\ call \in Calls /\ CallInv /\ call.data \in Seq(Units) /\ call.rr \in BOOLEAN
      /\ call.idx \in Nat /\ file.fsize \in Nat /\ isize \in Nat /\ file.fpos \in Nat
      /\ call.size \in Nat /\ call.start \in Nat /\ call.count \in Nat /\ MapOK'
  BY <1>1, WriteFacts, InCall, NextParts
<1>3. call.pc \in {"gather", "direct"} /\ Grown
  <2>1. call.pc \in {"gather", "direct"}
    BY <1>1 DEF RunReady, In
  <2>. QED  BY <1>1, <2>1, WriteFacts
<1>4. call' = [NextRun EXCEPT !.pc = IF call.rr THEN "fsize" ELSE "gather", !.data = call.data]
  <2>1. CASE call.rr
    BY <1>1, <1>2, <2>1 DEF NextRun, Moved, Calls
  <2>2. CASE ~call.rr
    BY <1>1, <1>2, <2>2 DEF NextRun, Moved, Calls
  <2>. QED  BY <2>1, <2>2
<1>5. /\ file'.fpos = file.fpos + call.count * BlockSize /\ file'.fsize = file.fsize
      /\ call'.op = call.op /\ call'.rr = call.rr
      /\ call'.pc = (IF call.rr THEN "fsize" ELSE "gather")
      /\ call'.size \in Nat /\ file'.fpos + call'.size = file.fpos + call.size
      /\ call'.size = 0 \/ call'.pc = "fsize" => file'.fpos = call.idx * BlockSize
  BY <1>1, <1>2, <1>4, RunMoved
<1>6. call'.v = call.v
  BY <1>2, <1>4 DEF NextRun, Moved, Calls
<1>7. StepsAsFile
  <2>. DEFINE k == call.count * BlockSize
              b == call.start
              n == call.count
  <2>1. k \in Nat
    BY <1>2, Constants
  <2>2. \E p \in Nat : StoredAt(b, 0, 0..k - 1, p, n)
    BY <1>1, RunStored
  <2>3. /\ file'.fpos = file.fpos + k /\ k \in Int /\ call'.size \in Nat
        /\ file'.fpos + call'.size = file.fpos + call.size
    BY <1>5, <2>1
  <2>. HIDE DEF k
  <2>4. k <= call.size /\ call'.size = call.size - k
    <3>1. file.fpos \in Int /\ call.size \in Int /\ call'.size \in Int
      BY <1>2, <2>3
    <3>2. (file.fpos + k) + call'.size = file.fpos + call.size
      BY <2>3, Zenon
    <3>. DEFINE a == file.fpos
                s == call.size
                z == call'.size
    <3>3. a \in Int /\ s \in Int /\ z \in Nat /\ k \in Nat /\ (a + k) + z = a + s
      BY <2>1, <2>3, <3>1, <3>2
    <3>. HIDE DEF a, s, z
    <3>4. k <= s /\ z = s - k
      BY <3>3
    <3>. QED  BY <3>4 DEF s, z
  <2>5. b \in Nat /\ n \in Nat /\ 0 \in Nat
    BY <1>2
  <2>. HIDE DEF b, n
  <2>6. PICK p \in Nat : StoredAt(b, 0, 0..k - 1, p, n)
    BY <2>2
  <2>7. result' = result /\ \A q \in 0..Size - 1 : Cell(disk, blk', q) = Cell(disk, blk, q)
    BY <1>1
  <2>. QED  BY <1>1, <1>2, <1>5, <1>6, <2>1, <2>3, <2>4, <2>5, <2>6, <2>7, StoresData
<1>8. Growth'
  <2>1. call'.rr \/ (call'.pc = "fsize" /\ call'.size > 0) => file'.fpos + call'.size > file'.fsize
    <3>1. call'.rr \/ call'.pc = "fsize" => call.rr
      BY <1>2, <1>5
    <3>. QED  BY <1>1, <1>5, <3>1 DEF Growth
  <2>2. ASSUME file'.fpos = call.idx * BlockSize, file'.fpos <= file'.fsize
        PROVE  isize' = file'.fsize
    <3>1. CASE call.idx <= Blocks(file.fsize)
      BY <1>1, <1>3, <1>5, <3>1 DEF Grown
    <3>2. CASE ~(call.idx <= Blocks(file.fsize))
      <4>1. Blocks(file.fsize) \in Nat /\ file.fsize <= Blocks(file.fsize) * BlockSize
        BY <1>2, BlocksOf
      <4>. DEFINE m == Blocks(file.fsize)
                  x == m * BlockSize
                  z == call.idx * BlockSize
      <4>2. m \in Int /\ call.idx \in Int /\ m < call.idx
        BY <1>2, <3>2, <4>1
      <4>. HIDE DEF m
      <4>3. x < z /\ x \in Int /\ z \in Int
        BY <4>2, Scale, Constants
      <4>4. file.fsize <= x /\ z <= file.fsize
        BY <1>5, <2>2, <4>1 DEF m
      <4>. HIDE DEF x, z
      <4>. QED  BY <1>2, <4>3, <4>4
    <3>. QED  BY <3>1, <3>2
  <2>. QED  BY <1>5, <2>1, <2>2 DEF Growth
<1>. QED  BY <1>1, <1>5, <1>7, <1>8, NotReading

LEMMA WriteRunsDoneAsFile ==
    ASSUME DInv, IInv', WriteRunsDone
    PROVE  ReadSoFar' /\ Growth' /\ StepsAsFile
<1>1. /\ IInv /\ call.op = "fwrite" /\ call.pc = "gather" /\ Growth
      /\ call' = [call EXCEPT !.pc = "tail"] /\ UNCHANGED <<disk, blk, isize, file, result>>
  BY DEF DInv, WriteRunsDone, RunsDone, In
<1>2. call \in Calls /\ MapOK'
  BY <1>1, WriteFacts, NextParts
<1>3. /\ call'.op = "fwrite" /\ call'.v = call.v /\ call'.size = call.size /\ call'.pc = "tail"
      /\ call'.rr = call.rr
  BY <1>1, <1>2 DEF Calls
<1>4. Growth'
  BY <1>1, <1>3 DEF Growth
<1>5. StepsAsFile
  BY <1>1, <1>2, <1>3, WriteGoesOn
<1>. QED  BY <1>3, <1>4, <1>5, NotReading

\* The block of the tail, whether the file had it or it is new
LEMMA TailAt ==
    ASSUME IInv, call.op = "fwrite", call.pc = "tail", call.size > 0,
           NEW b \in Nat, b # 0, blk'[call.idx] = b,
           NEW K, K \subseteq 0..call.size - 1, disk' = Stored(b, 0, K)
    PROVE  StoredAt(b, 0, K, call.idx, 1)
<1>. DEFINE p == call.idx
            s == call.size
<1>1. /\ p \in 0..MaxBlocks - 1 /\ p \in Nat /\ s \in Nat /\ file.fpos \in Nat
      /\ file.fpos = p * BlockSize /\ s < BlockSize
  BY TailFacts
<1>2. blk'[p] = b /\ K \subseteq 0..s - 1
  OBVIOUS
<1>. HIDE DEF p, s
<1>3. \A c \in 0..1 - 1 : blk'[p + c] = b + c
  <2>1. \A c \in 0..1 - 1 : p + c = p /\ b + c = b
    BY <1>1
  <2>. QED  BY <1>2, <2>1
<1>4. \A k \in K : 0 + k < 1 * BlockSize
  <2>1. 1 * BlockSize = BlockSize /\ BlockSize \in Nat
    BY Constants
  <2>2. \A k \in K : k \in Nat /\ k < s
    BY <1>1, <1>2
  <2>. QED  BY <1>1, <2>1, <2>2
<1>5. file.fpos = p * BlockSize + 0 /\ p + 1 <= MaxBlocks
  BY <1>1, Constants
<1>6. StoredAt(b, 0, K, p, 1)
  BY <1>3, <1>4, <1>5 DEF StoredAt
<1>. QED  BY <1>6 DEF p

\* A tail past the blocks the file had is past what it contained.
LEMMA TailBeyond ==
    ASSUME IInv, call.op = "fwrite", call.pc = "tail", call.size > 0,
           call.idx >= Blocks(file.fsize)
    PROVE  file.fpos >= file.fsize /\ (file.fpos <= file.fsize => isize = file.fsize)
<1>1. /\ Grown /\ call.idx \in Nat /\ file.fpos = call.idx * BlockSize /\ file.fpos \in Nat
      /\ file.fsize \in Nat
  BY TailFacts
<1>2. Blocks(file.fsize) \in Nat /\ file.fsize <= Blocks(file.fsize) * BlockSize
  BY <1>1, BlocksOf
<1>3. Blocks(file.fsize) * BlockSize <= call.idx * BlockSize
  <2>1. Blocks(file.fsize) \in Int /\ call.idx \in Int /\ Blocks(file.fsize) <= call.idx
    BY <1>1, <1>2
  <2>. QED  BY <2>1, ScaleLeq
<1>. DEFINE x == Blocks(file.fsize) * BlockSize
<1>4. x \in Int /\ x <= file.fpos /\ file.fsize <= x
  BY <1>1, <1>2, <1>3, Constants
<1>. HIDE DEF x
<1>5. file.fpos >= file.fsize
  BY <1>1, <1>4
<1>6. ASSUME file.fpos <= file.fsize
      PROVE  isize = file.fsize
  <2>1. file.fsize = call.idx * BlockSize
    BY <1>1, <1>5, <1>6
  <2>2. Blocks(file.fsize) = call.idx
    BY <1>1, <2>1, BlocksIs, Constants
  <2>. QED  BY <1>1, <2>2 DEF Grown
<1>. QED  BY <1>5, <1>6

LEMMA TailNew ==
    ASSUME IInv, call.op = "fwrite", call.pc = "tail", call.size > 0,
           call.idx >= Blocks(file.fsize), NEW b \in free, AppendDblk(b)
    PROVE  \A i \in 0..MaxBlocks - 1 : i # call.idx => blk'[i] = blk[i]
<1>1. /\ Grown /\ call.idx \in Nat /\ file.fsize \in Nat /\ isize \in Nat /\ MapOK
  BY TailFacts
<1>2. Blocks(isize) = call.idx
  BY <1>1, AppendsAtIdx
<1>3. blk' = [blk EXCEPT ![call.idx] = b] /\ DOMAIN blk = 0..MaxBlocks - 1
  BY <1>1, <1>2, MapFacts DEF AppendDblk
<1>. QED  BY <1>3

LEMMA WriteTailAsFile ==
    ASSUME DInv, IInv', WriteTail
    PROVE  ReadSoFar' /\ Growth' /\ StepsAsFile
<1>1. /\ IInv /\ call.op = "fwrite" /\ call.pc = "tail" /\ call.size > 0
      /\ call' = [Moved(call, call.size) EXCEPT !.pc = "fsize"] /\ file' = Advanced(call.size)
      /\ result' = result
  BY DEF DInv, WriteTail, In
<1>2. /\ call \in Calls /\ file \in Files /\ file.fpos \in Nat /\ call.size \in Nat /\ ~call.rr
      /\ file.fsize \in Nat /\ isize \in Nat /\ call.idx \in Nat /\ MapOK'
      /\ file.fpos = call.idx * BlockSize
  <2>1. file.fpos = call.idx * BlockSize
    BY <1>1, TailFacts
  <2>. QED  BY <1>1, <2>1, WriteFacts, NextParts
<1>3. /\ call'.op = "fwrite" /\ call'.v = call.v /\ call'.size = 0 /\ call'.pc = "fsize"
      /\ call'.rr = call.rr /\ call'.size = call.size - call.size
  BY <1>1, <1>2 DEF Moved, Calls
<1>4. file'.fpos = file.fpos + call.size /\ file'.fsize = file.fsize
  BY <1>1, <1>2 DEF Advanced, Files
<1>5. ASSUME NEW b \in Nat, b # 0, blk'[call.idx] = b, disk' = Stored(b, 0, 0..call.size - 1),
             \A q \in 0..Size - 1 : Cell(disk, blk', q) = Cell(disk, blk, q)
      PROVE  StepsAsFile
  <2>. DEFINE k == call.size
              p == call.idx
  <2>1. StoredAt(b, 0, 0..k - 1, p, 1)
    <3>. DEFINE K == 0..k - 1
    <3>1. K \subseteq 0..call.size - 1 /\ disk' = Stored(b, 0, K)
      BY <1>5
    <3>. HIDE DEF K
    <3>2. StoredAt(b, 0, K, call.idx, 1)
      BY <1>1, <1>5, <3>1, TailAt
    <3>. QED  BY <3>2 DEF K
  <2>2. /\ k \in Nat /\ p \in Nat /\ 0 \in Nat /\ 1 \in Nat /\ k <= call.size
        /\ call'.size = call.size - k /\ file'.fpos = file.fpos + k
    BY <1>2, <1>3, <1>4
  <2>. HIDE DEF k, p
  <2>. QED  BY <1>1, <1>2, <1>3, <1>4, <1>5, <2>1, <2>2, StoresData
<1>6. CASE /\ call.idx < Blocks(file.fsize)
           /\ disk' = Stored(Dblk(call.idx), 0, 0..call.size - 1) /\ UNCHANGED <<free, blk, isize>>
  <2>1. isize = file.fsize /\ Dblk(call.idx) = blk[call.idx] /\ blk[call.idx] \in Phys
        /\ blk[call.idx] # 0
    BY <1>1, <1>6, TailMapped
  <2>2. PICK b \in Nat : b = blk[call.idx]
    BY <2>1, PhysAssumption
  <2>3. StepsAsFile
    BY <1>5, <1>6, <2>1, <2>2
  <2>4. Growth'
    BY <1>2, <1>3, <1>4, <1>6, <2>1 DEF Growth
  <2>. QED  BY <1>3, <2>3, <2>4, NotReading
<1>7. CASE /\ call.idx >= Blocks(file.fsize)
           /\ \E b \in free : AppendDblk(b) /\ disk' = Stored(b, 0, 0..call.size - 1)
  <2>1. PICK b \in free : AppendDblk(b) /\ disk' = Stored(b, 0, 0..call.size - 1)
    BY <1>7
  <2>2. b \in Nat /\ b # 0 /\ blk'[call.idx] = b
    BY <1>1, <1>7, <2>1, TailAppends, PhysAssumption
  <2>3. \A i \in 0..MaxBlocks - 1 : i # call.idx => blk'[i] = blk[i]
    BY <1>1, <1>7, <2>1, TailNew
  <2>4. file.fpos <= call.idx * BlockSize
    BY <1>2
  <2>5. \A q \in 0..Size - 1 : Cell(disk, blk', q) = Cell(disk, blk, q)
    BY <1>1, <1>7, <2>3, <2>4, AppendKeeps
  <2>6. StepsAsFile
    BY <1>5, <2>1, <2>2, <2>5
  <2>7. Growth'
    <3>1. file.fpos >= file.fsize
      BY <1>1, <1>7, TailBeyond
    <3>. QED  BY <1>1, <1>2, <1>3, <1>4, <3>1 DEF Growth
  <2>. QED  BY <1>3, <2>6, <2>7, NotReading
<1>. QED  BY <1>6, <1>7 DEF WriteTail

LEMMA TailFailAsFile ==
    ASSUME DInv, IInv', TailFail
    PROVE  ReadSoFar' /\ Growth' /\ StepsAsFile
<1>1. /\ IInv /\ call.op = "fwrite" /\ call.pc = "tail" /\ call.size > 0
      /\ call' = [call EXCEPT !.pc = "fsize"] /\ UNCHANGED <<disk, blk, isize, file, result>>
      /\ call.idx >= Blocks(file.fsize)
  BY DEF DInv, TailFail, In
<1>2. /\ call \in Calls /\ MapOK' /\ call.size \in Nat /\ file.fpos \in Nat /\ file.fsize \in Nat
  BY <1>1, WriteFacts, NextParts
<1>3. call'.op = "fwrite" /\ call'.v = call.v /\ call'.size = call.size /\ call'.pc = "fsize"
  BY <1>1, <1>2 DEF Calls
<1>4. Growth'
  BY <1>1, <1>2, <1>3, TailBeyond DEF Growth
<1>5. StepsAsFile
  BY <1>1, <1>2, <1>3, WriteGoesOn
<1>. QED  BY <1>3, <1>4, <1>5, NotReading

LEMMA OutFsizeAsFile ==
    ASSUME DInv, IInv', OutFsize
    PROVE  StepsAsFile
<1>1. /\ IInv /\ call.op = "fwrite" /\ (call.pc = "fsize" \/ (call.pc = "tail" /\ call.size = 0))
      /\ call' = Idle /\ UNCHANGED <<disk, blk, result>> /\ Growth
  BY DEF DInv, OutFsize, In
<1>2. /\ file \in Files /\ file.fpos \in Nat /\ file.fsize \in Nat /\ call.size \in Nat
      /\ Size = IF file.fpos > file.fsize THEN file.fpos ELSE file.fsize
  BY <1>1, WriteFacts
<1>3. isize' = Size /\ file'.fpos = file.fpos
  <2>1. CASE file.fpos > file.fsize
    BY <1>2, <2>1 DEF OutFsize, Files
  <2>2. CASE ~(file.fpos > file.fsize)
    <3>1. isize = file.fsize
      BY <1>1, <1>2, <2>2 DEF Growth
    <3>. QED  BY <1>2, <2>2, <3>1 DEF OutFsize
  <2>. QED  BY <2>1, <2>2
<1>4. call.size = 0 \/ file.fpos + call.size > Size
  <2>1. call.pc = "fsize" /\ call.size > 0 => file.fpos + call.size > file.fsize
    BY <1>1 DEF Growth
  <2>. QED  BY <1>1, <1>2, <2>1
<1>. QED  BY <1>1, <1>3, <1>4, WrittenIs

LEMMA WriteFailAsFile ==
    ASSUME DInv, IInv', WriteFail
    PROVE  StepsAsFile
<1>1. IInv /\ MayFail /\ call' = Idle /\ UNCHANGED <<file, result>>
  BY DEF DInv, WriteFail
<1>2. CASE /\ In("fwrite", "head")
           /\ \E K \in SUBSET (0..HeadLen - 1) : disk' = Stored(Dblk(call.idx), Unaligned, K)
           /\ UNCHANGED <<free, blk, isize, cache_write_back>>
  <2>1. call.op = "fwrite" /\ call.pc = "head"
    BY <1>2 DEF In
  <2>2. PICK K \in SUBSET (0..HeadLen - 1) : disk' = Stored(Dblk(call.idx), Unaligned, K)
    BY <1>2
  <2>3. PICK b \in Nat, u \in Nat, p \in Nat : StoredAt(b, u, K, p, 1)
    BY <1>1, <1>2, <2>1, <2>2, HeadAt
  <2>. DEFINE k == HeadLen
  <2>4. k \in Nat /\ k <= call.size /\ K \in SUBSET (0..k - 1) /\ 1 \in Nat
    BY <1>1, <2>1, HeadFacts
  <2>5. \A q \in 0..Size - 1 : Cell(disk, blk', q) = Cell(disk, blk, q)
    BY <1>2
  <2>. HIDE DEF k
  <2>. QED  BY <1>1, <2>1, <2>3, <2>4, <2>5, StoresSome
<1>3. CASE /\ RunReady("fwrite") /\ call.count > 0
           /\ \E K \in SUBSET (0..call.count * BlockSize - 1) : disk' = Stored(call.start, 0, K)
           /\ cache_write_back' = cache_write_back - 1
           /\ UNCHANGED <<free, blk, isize>>
  <2>1. call.op = "fwrite" /\ RunReady(call.op)
    BY <1>3 DEF RunReady, In
  <2>2. PICK K \in SUBSET (0..call.count * BlockSize - 1) : disk' = Stored(call.start, 0, K)
    BY <1>3
  <2>. DEFINE k == call.count * BlockSize
              b == call.start
              n == call.count
  <2>3. PICK p \in Nat : StoredAt(b, 0, K, p, n)
    BY <1>1, <1>3, <2>1, <2>2, RunStored
  <2>4. n \in Nat /\ b \in Nat /\ 0 \in Nat
    BY <1>1, <2>1, WriteFacts
  <2>5. k \in Nat /\ K \in SUBSET (0..k - 1)
    BY <2>4, Constants
  <2>6. k <= call.size
    <3>1. PICK j \in Nat : RunAt(j)
      BY <1>1, <2>1, RunHere
    <3>. QED  BY <3>1 DEF RunAt
  <2>7. \A q \in 0..Size - 1 : Cell(disk, blk', q) = Cell(disk, blk, q)
    BY <1>3
  <2>. HIDE DEF k, b, n
  <2>. QED  BY <1>1, <2>1, <2>3, <2>4, <2>5, <2>6, <2>7, StoresSome
<1>4. ASSUME call.op = "fwrite", call.pc = "tail", call.size > 0,
             NEW b \in Nat, b # 0, blk'[call.idx] = b,
             NEW K \in SUBSET (0..call.size - 1), disk' = Stored(b, 0, K),
             \A q \in 0..Size - 1 : Cell(disk, blk', q) = Cell(disk, blk, q)
      PROVE  StepsAsFile
  <2>. DEFINE k == call.size
              p == call.idx
  <2>1. StoredAt(b, 0, K, p, 1)
    BY <1>1, <1>4, TailAt
  <2>2. /\ k \in Nat /\ p \in Nat /\ 0 \in Nat /\ 1 \in Nat /\ k <= call.size
        /\ K \in SUBSET (0..k - 1)
    BY <1>1, <1>4, WriteFacts
  <2>. HIDE DEF k, p
  <2>. QED  BY <1>1, <1>4, <2>1, <2>2, StoresSome
<1>5. CASE /\ In("fwrite", "tail") /\ call.size > 0 /\ call.idx < Blocks(file.fsize)
           /\ \E K \in SUBSET (0..call.size - 1) : disk' = Stored(Dblk(call.idx), 0, K)
           /\ UNCHANGED <<free, blk, isize, cache_write_back>>
  <2>1. call.op = "fwrite" /\ call.pc = "tail"
    BY <1>5 DEF In
  <2>2. Dblk(call.idx) = blk[call.idx] /\ blk[call.idx] \in Phys /\ blk[call.idx] # 0
    BY <1>1, <1>5, <2>1, TailMapped
  <2>3. PICK b \in Nat : b = blk[call.idx]
    BY <2>2, PhysAssumption
  <2>4. PICK K \in SUBSET (0..call.size - 1) : disk' = Stored(b, 0, K)
    BY <1>5, <2>2, <2>3
  <2>. QED  BY <1>4, <1>5, <2>1, <2>2, <2>3, <2>4
<1>6. CASE /\ In("fwrite", "tail") /\ call.size > 0 /\ call.idx >= Blocks(file.fsize)
           /\ \E b \in free, K \in SUBSET (0..call.size - 1) : AppendDblk(b) /\ disk' = Stored(b, 0, K)
           /\ UNCHANGED cache_write_back
  <2>1. call.op = "fwrite" /\ call.pc = "tail"
    BY <1>6 DEF In
  <2>2. PICK b \in free, K \in SUBSET (0..call.size - 1) : AppendDblk(b) /\ disk' = Stored(b, 0, K)
    BY <1>6
  <2>3. b \in Nat /\ b # 0 /\ blk'[call.idx] = b
    BY <1>1, <1>6, <2>1, <2>2, TailAppends, PhysAssumption
  <2>4. \A i \in 0..MaxBlocks - 1 : i # call.idx => blk'[i] = blk[i]
    BY <1>1, <1>6, <2>1, <2>2, TailNew
  <2>5. file.fpos <= call.idx * BlockSize
    <3>1. file.fpos = call.idx * BlockSize /\ file.fpos \in Nat
      BY <1>1, <1>6, <2>1, TailFacts
    <3>. QED  BY <3>1
  <2>6. \A q \in 0..Size - 1 : Cell(disk, blk', q) = Cell(disk, blk, q)
    BY <1>1, <1>6, <2>1, <2>4, <2>5, AppendKeeps
  <2>. QED  BY <1>4, <1>6, <2>1, <2>2, <2>3, <2>6
<1>. QED  BY <1>2, <1>3, <1>5, <1>6 DEF WriteFail

-----------------------------------------------------------------------------
(* The invariant is inductive, and every step is one of ByteFile's.        *)
LEMMA CallersStepDInv ==
    ASSUME DInv, External
    PROVE  ReadSoFar' /\ Growth'
<1>1. ASSUME call' = Idle
      PROVE  ReadSoFar' /\ Growth'
  BY <1>1, NotWriting
<1>2. ASSUME NEW n \in 1..MaxReq, Fread(n)
      PROVE  ReadSoFar' /\ Growth'
  <2>1. /\ call = Idle /\ file' = [file EXCEPT !.fsize = isize] /\ isize' = isize /\ IInv
        /\ call' = Start("fread", IF file.fpos <= isize /\ isize - file.fpos < n
                                  THEN isize - file.fpos ELSE n, Stale)
    BY <1>2 DEF Fread, DInv
  <2>2. file \in Files /\ file.fpos \in Nat /\ isize \in Nat /\ n \in Nat /\ n > 0
        /\ file.fpos <= isize
    BY <2>1, Parts, IdleIs, SizesAssumption
  <2>3. /\ call'.op = "fread" /\ call'.from = file.fpos /\ call'.data = <<>>
        /\ call'.n = IF file.fpos <= isize /\ isize - file.fpos < n THEN isize - file.fpos ELSE n
    BY <2>1 DEF Start
  <2>4. file'.fpos = file.fpos
    BY <2>1, <2>2 DEF Files
  <2>5. \A d, m, f : Part(d, m, f, 0) = <<>>
    <3>1. ASSUME NEW d, NEW m, NEW f
          PROVE  Part(d, m, f, 0) = <<>>
      <4>1. 1..0 = {}
        OBVIOUS
      <4>. QED  BY <4>1 DEF Part
    <3>. QED  BY <3>1
  <2>6. call'.data = Part(disk', blk', call'.from, file'.fpos - call'.from)
    <3>1. file'.fpos - call'.from = 0
      BY <2>2, <2>3, <2>4
    <3>. QED  BY <2>3, <2>5, <3>1
  <2>7. ReadSoFar'
    <3>1. call'.from <= file'.fpos /\ (call'.n = 0 => call'.from = isize')
      BY <2>1, <2>2, <2>3, <2>4
    <3>. QED  BY <2>6, <3>1 DEF ReadSoFar, Part, Cell
  <2>. QED  BY <2>3, <2>7 DEF Growth
<1>3. ASSUME NEW n \in 1..MaxReq, NEW v \in Vals, Fwrite(v, n)
      PROVE  ReadSoFar' /\ Growth'
  <2>1. call' = Start("fwrite", n, v) /\ n > 0
    BY <1>3, SizesAssumption DEF Fwrite
  <2>2. call'.op = "fwrite" /\ call'.pc \in {"head", "gather"} /\ call'.size > 0 /\ ~call'.rr
    BY <2>1 DEF Start
  <2>3. Growth'
    BY <2>2 DEF Growth
  <2>. QED  BY <2>2, <2>3, NotReading
<1>. QED  BY <1>1, <1>2, <1>3 DEF External, Fopen, FopenTrunc, Fseek, Ftruncate

\* What a read that ends returns
ReadsIt == call # Idle /\ call' = Idle /\ result' # result
              => result' = SubSeq(Content(isize), call.from + 1, call.from + call.n)

LEMMA NextDInv == DInv /\ Regular /\ [Next]_vars => DInv' /\ StepsAsFile /\ ReadsIt
<1>. SUFFICES ASSUME DInv, Regular, [Next]_vars
              PROVE  DInv' /\ StepsAsFile /\ ReadsIt
  OBVIOUS
<1>1. IInv /\ IInv'
  BY NextIInv DEF DInv
<1>2. CASE ReadHead \/ ReadGather \/ ReadRun
  <2>1. ReadSoFar' /\ Growth' /\ StepsAsFile
    BY <1>2, ReadHeadAsFile, ReadGatherAsFile, ReadRunAsFile
  <2>2. result' = result
    BY <1>2 DEF ReadHead, ReadGather, ReadRun
  <2>. QED  BY <1>1, <2>1, <2>2 DEF DInv, ReadsIt
<1>3. CASE ReadTail
  <2>1. ReadSoFar' /\ Growth'
    BY <1>3, NotWriting DEF ReadTail
  <2>. QED  BY <1>1, <1>3, <2>1, ReadTailAsFile DEF DInv, ReadsIt
<1>4. CASE ReadFail \/ OutFsize \/ WriteFail
  <2>1. call' = Idle /\ result' = result
    BY <1>4 DEF ReadFail, OutFsize, WriteFail
  <2>2. ReadSoFar' /\ Growth'
    BY <2>1, NotWriting
  <2>3. StepsAsFile
    BY <1>1, <1>4, ReadFailAsFile, OutFsizeAsFile, WriteFailAsFile
  <2>. QED  BY <1>1, <2>1, <2>2, <2>3 DEF DInv, ReadsIt
<1>5. CASE \/ WriteHead \/ WriteGather \/ WriteAppend \/ AppendFail \/ WriteRun
           \/ WriteRunsDone \/ WriteTail \/ TailFail
  <2>1. ReadSoFar' /\ Growth' /\ StepsAsFile
    BY <1>1, <1>5, WriteHeadAsFile, WriteGatherAsFile, WriteAppendAsFile, AppendFailAsFile,
       WriteRunAsFile, WriteRunsDoneAsFile, WriteTailAsFile, TailFailAsFile
  <2>2. result' = result
    BY <1>5 DEF WriteHead, WriteGather, WriteAppend, AppendFail, WriteRun, WriteRunsDone,
                WriteTail, TailFail
  <2>. QED  BY <1>1, <2>1, <2>2 DEF DInv, ReadsIt
<1>6. CASE External
  <2>1. call = Idle
    BY <1>6 DEF External, Fopen, FopenTrunc, Fseek, Ftruncate, Fread, Fwrite
  <2>. QED  BY <1>1, <1>6, <2>1, CallersStepDInv, CallersStepAsFile DEF DInv, ReadsIt
<1>7. CASE UNCHANGED vars
  <2>1. UNCHANGED <<disk, free, blk, isize, file, cache_write_back, call, result>>
    BY <1>7 DEF vars
  <2>2. ReadSoFar' = ReadSoFar /\ Growth' = Growth
    BY <2>1 DEF ReadSoFar, Growth, Part, Cell
  <2>3. Contents' = Contents /\ Writing' = Writing /\ Position' = Position /\ Todo' = Todo
    BY <2>1 DEF Contents, Content, Dblk, Size, Writing, Position, Todo
  <2>4. StepsAsFile
    BY <2>1, <2>3 DEF StepsAsFile, ByteFile!vars
  <2>. QED  BY <1>1, <2>1, <2>2, <2>4 DEF DInv, ReadsIt
<1>. QED  BY <1>2, <1>3, <1>4, <1>5, <1>6, <1>7 DEF Next, Internal

LEMMA InitDInv == Init /\ Regular => DInv /\ ByteFile!Init
<1>. SUFFICES ASSUME Init, Regular PROVE DInv /\ ByteFile!Init
  OBVIOUS
<1>1. call.op = "none" /\ result = <<>> /\ file.fpos = 0
  BY DEF Init, Idle
<1>2. DInv
  BY <1>1, InitIInv DEF DInv, ReadSoFar, Growth
<1>. QED  BY <1>1, <1>2 DEF ByteFile!Init, Position, Writing, Todo

(* Whatever blocks hold it, the file is what ext4_fread and ext4_fwrite    *)
(* promise together: reads return what was written, writes store their     *)
(* data at the position and nowhere else, and a call that fails or finds   *)
(* no space leaves the rest of the file as it was.                         *)
THEOREM FileIsByteFile == ASSUME Regular PROVE Spec => FileSpec
<1>1. Init => DInv /\ ByteFile!Init
  BY InitDInv
<1>2. DInv /\ [Next]_vars => DInv' /\ [ByteFile!Next]_(ByteFile!vars)
  BY NextDInv DEF StepsAsFile
<1>. QED  BY <1>1, <1>2, PTL DEF Spec, FileSpec, ByteFile!Spec

(* A read that ext4_fread reports as done returned what the file contains  *)
(* from where it began, for as many units as it counts, whatever runs of   *)
(* blocks it was put together from.                                        *)
THEOREM ReadsReturnContent == ASSUME Regular PROVE Spec => ReadsContent
<1>1. Init => DInv
  BY InitDInv
<1>2. DInv /\ [Next]_vars => DInv' /\ [ReadsIt]_vars
  BY NextDInv
<1>3. ReadsContent <=> [][ReadsIt]_vars
  BY PTL DEF ReadsContent, ReadsIt
<1>. QED  BY <1>1, <1>2, <1>3, PTL DEF Spec
=============================================================================
