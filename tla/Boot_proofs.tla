----------------------------- MODULE Boot_proofs -----------------------------
(***************************************************************************)
(* What Boot promises of the partition and of the block device, for any    *)
(* directories and any number of boots.                                    *)
(*                                                                         *)
(* NeverReformats is not inductive: that ext4_mkfs writes over no complete *)
(* file system depends on which phase of it a partition may be in.  Until  *)
(* the superblock is written, and as far as alloc_inodes, only the groups  *)
(* can be on the device (OnlyGroups); a crash freezes the partition in     *)
(* such a state, and if it has a superblock it is not formatted again.     *)
(***************************************************************************)
EXTENDS Boot, FiniteSetTheorems, SequenceTheorems, TLAPS

Pcs == {"off", "mount", "mkfs", "bgroups", "sblocks", "fs_init", "init_bgs", "alloc_inodes",
        "create_dirs", "fs_fini", "cache_fini", "remount", "write_back", "ls", "count",
        "parse", "menu", "done", "stuck"}

Typed ==
    /\ part \in [sb : {"none", "valid", "error"}, read_only : BOOLEAN,
                 made : SUBSET Structures, dir : Dirs \cup {NoDir}]
    /\ dirty \subseteq Structures
    /\ mp \in [mounted : BOOLEAN, ready : BOOLEAN]
    /\ bdev \in [ph_refctr : Int, bc : {"null", "mkfs", "mp", "freed"}, cache_write_back : Int]
    /\ pc \in Pcs

\* No superblock, no more than groups.
Unformatted == part.sb = "none" => part.made \subseteq {"bgroups"}

\* ext4_mkfs starts on a partition that has no superblock, and writes it once.
BeforeSuperblock == pc \in {"mkfs", "bgroups", "sblocks"} => part.sb = "none"
AfterSuperblock == pc \in {"fs_init", "init_bgs", "alloc_inodes", "create_dirs", "fs_fini",
                           "cache_fini", "remount"} => part.sb # "none" /\ ~part.read_only

OnlyGroups ==
    pc \in {"mkfs", "bgroups", "sblocks", "fs_init", "init_bgs", "alloc_inodes"}
        => part.made \cup dirty \subseteq {"bgroups"}
NoDirsYet == pc = "create_dirs" => part.made \cup dirty \subseteq {"bgroups", "inodes"}

\* Nothing is lost between the cache and the device.
Accounted == pc \in {"fs_fini", "cache_fini", "remount"} => part.made \cup dirty = Structures
MarkedClean == pc \in {"cache_fini", "remount"} => part.sb = "valid"
OnlyMkfsIsDirty == ~InMkfs => dirty = {}

\* Who has the device open, and whose cache it uses
Opened == bdev.ph_refctr = IF InMkfs \/ mp.ready THEN 1 ELSE 0
Bound == /\ InMkfs => bdev.bc = "mkfs" /\ ~mp.ready
         /\ mp.ready => bdev.bc = "mp"
         /\ pc \in {"off", "mount", "mkfs"} => ~mp.ready

IInv ==
    /\ Typed /\ Unformatted /\ BeforeSuperblock /\ AfterSuperblock /\ OnlyGroups
    /\ NoDirsYet /\ Accounted /\ MarkedClean /\ OnlyMkfsIsDirty /\ Opened /\ Bound

-----------------------------------------------------------------------------
LEMMA InitInv == Init => IInv
<1> SUFFICES ASSUME Init PROVE IInv
  OBVIOUS
<1>1. /\ part \in [sb : {"none", "valid", "error"}, read_only : BOOLEAN,
                   made : SUBSET Structures, dir : Dirs \cup {NoDir}]
      /\ Unformatted
  <2>1. CASE part = Blank
    BY <2>1, SMT DEF Blank, Unformatted
  <2>2. CASE part \in [sb : {"valid", "error"}, read_only : BOOLEAN,
                      made : {Structures}, dir : Dirs \cup {NoDir}]
    BY <2>2, SMT DEF Unformatted
  <2> QED
    BY <2>1, <2>2, Zenon DEF Init
<1>2. /\ dirty = {}
      /\ mp = [mounted |-> FALSE, ready |-> FALSE]
      /\ bdev = [ph_refctr |-> 0, bc |-> "null", cache_write_back |-> 0]
      /\ pc = "off"
  BY Zenon DEF Init
<1> QED
  BY <1>1, <1>2, SMT
     DEF IInv, Typed, Pcs, BeforeSuperblock, AfterSuperblock, OnlyGroups, NoDirsYet, Accounted,
         MarkedClean, OnlyMkfsIsDirty, InMkfs, Opened, Bound

(* The steps that leave the library alone only move the program on.        *)
LEMMA ProgramStep ==
  ASSUME IInv, UNCHANGED library,
         \/ pc' = pc
         \/ pc' \in {"ls", "count", "parse", "menu", "done", "stuck"} /\ ~InMkfs
         \/ pc = "off" /\ pc' = "mount"
         \/ pc = "remount" /\ pc' = "write_back"
  PROVE  IInv'
  BY SMT DEF IInv, library, Typed, Pcs, Unformatted, BeforeSuperblock, AfterSuperblock,
             OnlyGroups, NoDirsYet, Accounted, MarkedClean, OnlyMkfsIsDirty, InMkfs, Opened, Bound

(* The two updates of several fields, a field at a time.                    *)
LEMMA SuperblockWritten ==
  ASSUME NEW S, NEW M, NEW T,
         NEW r \in [sb : S, read_only : BOOLEAN, made : M, dir : T], NEW x \in S, NEW y \in T,
         NEW new, new = [r EXCEPT !.sb = x, !.read_only = FALSE, !.dir = y]
  PROVE  /\ new \in [sb : S, read_only : BOOLEAN, made : M, dir : T]
         /\ new.sb = x /\ new.read_only = FALSE /\ new.made = r.made
<1>1. new \in [sb : S, read_only : BOOLEAN, made : M, dir : T]
  OBVIOUS
<1>2. new.sb = x
  OBVIOUS
<1>3. new.read_only = FALSE
  OBVIOUS
<1>4. new.made = r.made
  OBVIOUS
<1> QED
  BY <1>1, <1>2, <1>3, <1>4

LEMMA DeviceOpened ==
  ASSUME NEW C, NEW b \in [ph_refctr : Int, bc : C, cache_write_back : Int], NEW n \in Int, NEW x \in C,
         NEW new, new = [b EXCEPT !.ph_refctr = n, !.bc = x]
  PROVE  /\ new \in [ph_refctr : Int, bc : C, cache_write_back : Int]
         /\ new.ph_refctr = n /\ new.bc = x
<1>1. new \in [ph_refctr : Int, bc : C, cache_write_back : Int]
  OBVIOUS
<1>2. new.ph_refctr = n
  OBVIOUS
<1>3. new.bc = x
  OBVIOUS
<1> QED
  BY <1>1, <1>2, <1>3

LEMMA NextInv == IInv /\ [Next]_vars => IInv'
<1> SUFFICES ASSUME IInv, [Next]_vars PROVE IInv'
  OBVIOUS
<1> USE DEF IInv, Typed, Pcs, Structures, Unformatted, BeforeSuperblock, AfterSuperblock,
            OnlyGroups, NoDirsYet, Accounted, MarkedClean, OnlyMkfsIsDirty, InMkfs, Opened, Bound
<1>1. CASE Mount
  <2>1. /\ part' \in [sb : {"none", "valid", "error"}, read_only : BOOLEAN,
                      made : SUBSET Structures, dir : Dirs \cup {NoDir}]
        /\ part'.made = part.made
        /\ part'.sb = "none" <=> part.sb = "none"
        /\ pc' = "mkfs" => part.sb = "none"
    BY <1>1, SMT DEF Mount, Accepted, Marked, MountFails
  <2>2. /\ mp' \in [mounted : BOOLEAN, ready : BOOLEAN]
        /\ bdev' \in [ph_refctr : Int, bc : {"null", "mkfs", "mp", "freed"},
                      cache_write_back : Int]
        /\ bdev'.ph_refctr = IF mp'.ready THEN 1 ELSE 0
        /\ mp'.ready => bdev'.bc = "mp"
        /\ pc' = "mkfs" => ~mp'.ready
    <3>1. ~mp.ready /\ bdev.ph_refctr = 0
      BY <1>1, SMT DEF Mount
    <3>2. CASE /\ mp' = [mounted |-> TRUE, ready |-> TRUE]
               /\ bdev' = [bdev EXCEPT !.ph_refctr = @ + 1, !.bc = "mp"]
               /\ pc' = "write_back"
      <4>0. /\ bdev \in [ph_refctr : Int, bc : {"null", "mkfs", "mp", "freed"},
                         cache_write_back : Int]
            /\ "mp" \in {"null", "mkfs", "mp", "freed"}
            /\ bdev.ph_refctr + 1 \in Int
        BY SMT
      <4>1. /\ bdev' \in [ph_refctr : Int, bc : {"null", "mkfs", "mp", "freed"},
                          cache_write_back : Int]
            /\ bdev'.ph_refctr = bdev.ph_refctr + 1 /\ bdev'.bc = "mp"
        BY <3>2, <4>0, DeviceOpened, Zenon
      <4>2. bdev'.ph_refctr = 1
        BY <3>1, <4>1, SMT
      <4>3. mp' \in [mounted : BOOLEAN, ready : BOOLEAN] /\ mp'.ready
        BY <3>2, Zenon
      <4> QED
        BY <3>2, <4>1, <4>2, <4>3, Zenon
    <3>3. CASE MountFails /\ pc' = "mkfs"
      <4>1. mp' \in [mounted : BOOLEAN, ready : BOOLEAN] /\ ~mp'.ready
        BY <3>3, SMT DEF MountFails
      <4> QED
        BY <3>1, <3>3, <4>1, Zenon DEF MountFails
    <3> QED
      BY <1>1, <3>2, <3>3, Zenon DEF Mount
  <2>3. pc' \in {"write_back", "mkfs"} /\ dirty' = dirty /\ dirty = {}
    BY <1>1, SMT DEF Mount
  <2> QED
    BY <2>1, <2>2, <2>3, SMT
<1>2. CASE Mkfs
  BY <1>2, SMT DEF Mkfs
<1>3. CASE WriteBgroups
  BY <1>3, SMT DEF WriteBgroups, Dirtied
<1>4. CASE WriteSblocks
  <2>1. part' = [part EXCEPT !.sb = "valid", !.read_only = FALSE, !.dir = NoDir]
    BY <1>4, Zenon DEF WriteSblocks
  <2>2. part \in [sb : {"none", "valid", "error"}, read_only : BOOLEAN,
                  made : SUBSET Structures, dir : Dirs \cup {NoDir}]
    OBVIOUS
  <2>3. NoDir \in Dirs \cup {NoDir} /\ "valid" \in {"none", "valid", "error"}
    OBVIOUS
  <2>4. /\ part' \in [sb : {"none", "valid", "error"}, read_only : BOOLEAN,
                      made : SUBSET Structures, dir : Dirs \cup {NoDir}]
        /\ part'.sb = "valid" /\ part'.read_only = FALSE /\ part'.made = part.made
    BY <2>1, <2>2, <2>3, SuperblockWritten, Zenon
  <2> QED
    BY <1>4, <2>4, SMT DEF WriteSblocks
<1>5. CASE FsInit
  BY <1>5, SMT DEF FsInit, Marked
<1>6. CASE InitBgs
  BY <1>6, SMT DEF InitBgs, Dirtied
<1>7. CASE AllocInodes
  BY <1>7, SMT DEF AllocInodes, Dirtied
<1>8. CASE CreateDirs
  BY <1>8, SMT DEF CreateDirs, Dirtied
<1>9. CASE FsFini
  BY <1>9, SMT DEF FsFini, Marked
<1>10. ASSUME NEW s \in Structures, Stored(s) PROVE IInv'
  BY <1>10, SMT DEF Stored
<1>11. CASE MkfsDone
  BY <1>11, SMT DEF MkfsDone
<1>12. CASE WriteBackOn
  BY <1>12, SMT DEF WriteBackOn
<1>13. CASE Remount \/ Ls \/ CountEntries \/ ParseEntry \/ ShowMenu
  BY <1>13, ProgramStep, Zenon
     DEF Remount, Ls, CountEntries, ParseEntry, ShowMenu, library, Undefined
<1>14. CASE PowerOn
  BY <1>14, SMT DEF PowerOn, library
<1>15. CASE PowerOff
  BY <1>15, SMT DEF PowerOff, Off
<1>16. CASE Install
  BY <1>16, SMT DEF Install
<1>17. ASSUME NEW index \in 0..num_of_boot_entries, Click(index) PROVE IInv'
  BY <1>17, SMT DEF Click, Load, Undefined, library
<1>18. CASE UNCHANGED vars
  BY <1>18, SMT DEF vars
<1> QED
  BY <1>1, <1>2, <1>3, <1>4, <1>5, <1>6, <1>7, <1>8, <1>9, <1>10, <1>11, <1>12, <1>13,
     <1>14, <1>15, <1>16, <1>17, <1>18, Zenon DEF Next, Step

(* The phases of a partition and the state of the block device, over any   *)
(* sequence of boots and power failures.                                   *)
THEOREM Invariance == Spec => []IInv
  BY InitInv, NextInv, PTL DEF Spec

(* After a format everything is on the device and it is marked clean.      *)
THEOREM FormatCompletes == Spec => []MkfsComplete
<1>1. IInv => MkfsComplete
  BY SMT DEF IInv, MkfsComplete, Accounted, MarkedClean, OnlyMkfsIsDirty, InMkfs
<1> QED
  BY <1>1, Invariance, PTL

(* No access goes through the pointer to the cache of ext4_mkfs.           *)
THEOREM NoFreedCache == Spec => []OpenDeviceHasCache
<1>1. IInv => OpenDeviceHasCache
  BY SMT DEF IInv, OpenDeviceHasCache, Opened, Bound, InMkfs
<1> QED
  BY <1>1, Invariance, PTL

Keeps ==
    part.sb # "none" /\ part.made = Structures
      => part'.sb # "none" /\ part'.made = Structures
         /\ (part'.dir # part.dir => pc = "off")

(* A complete file system is never formatted, whenever the power fails.    *)
THEOREM CompleteIsKept == Spec => NeverReformats
<1>1. IInv /\ [Next]_vars => [Keeps]_vars
  <2> SUFFICES ASSUME IInv, Next PROVE Keeps
    BY DEF Keeps
  <2> USE DEF IInv, Typed, Structures, BeforeSuperblock, OnlyGroups, NoDirsYet, Keeps
  <2>1. CASE Mount
    BY <2>1, SMT DEF Mount, Accepted, Marked, MountFails
  <2>2. CASE WriteBgroups \/ InitBgs \/ AllocInodes \/ CreateDirs
    BY <2>2, SMT DEF WriteBgroups, InitBgs, AllocInodes, CreateDirs, Dirtied
  <2>3. CASE WriteSblocks \/ FsInit \/ FsFini
    BY <2>3, SMT DEF WriteSblocks, FsInit, FsFini, Marked
  <2>4. ASSUME NEW s \in Structures, Stored(s) PROVE Keeps
    BY <2>4, SMT DEF Stored
  <2>5. CASE Install
    BY <2>5, SMT DEF Install
  <2>6. CASE Mkfs \/ MkfsDone \/ Remount \/ WriteBackOn \/ Ls \/ CountEntries \/ ParseEntry
             \/ ShowMenu \/ PowerOn \/ PowerOff
    BY <2>6, Zenon DEF Mkfs, MkfsDone, Remount, WriteBackOn, Ls, CountEntries, ParseEntry,
                     ShowMenu, PowerOn, PowerOff, library
  <2>7. ASSUME NEW index \in 0..num_of_boot_entries, Click(index) PROVE Keeps
    BY <2>7, Zenon DEF Click, library
  <2> QED
    BY <2>1, <2>2, <2>3, <2>4, <2>5, <2>6, <2>7, Zenon DEF Next, Step
<1> QED
  BY <1>1, Invariance, PTL DEF Spec, NeverReformats, Keeps

-----------------------------------------------------------------------------
(***************************************************************************)
(* What is booted is what was clicked, for any directories: the traversal  *)
(* of the directory that counts the entries and the one that parses them   *)
(* agree, and the place of an entry in the list is that of its button.     *)
(* Also the types of the variables, which rest on the same facts.          *)
(***************************************************************************)

Entries == STRING \cup {Uninit}
Early == pc \notin {"parse", "menu", "done", "stuck"}

Counted == Len(entry_list) = Cardinality(Files)
FilledSoFar == \A i \in Files : i <= de => entry_list[Place(i)] = Parsed(Found[i])

EntryInv ==
    /\ entry_list \in Seq(Entries)
    /\ de \in 0..Len(Found)
    /\ clicked \in -1..Len(entry_list)
    /\ boots \in 0..MaxBoots
    /\ Early => entry_list = <<>> /\ de = 0 /\ clicked = -1
    /\ pc \in {"parse", "menu", "done"} => Counted /\ FilledSoFar
    /\ pc \in {"menu", "done"} => de = Len(Found)
    /\ LoadsTheClickedEntry

WritesBack ==
    bdev.cache_write_back =
        IF InMkfs \/ pc \in {"ls", "count", "parse", "menu", "done", "stuck"} THEN 1 ELSE 0

-----------------------------------------------------------------------------
LEMMA FoundTyped ==
    ASSUME Typed
    PROVE  /\ Found \in Seq(DirEntries) /\ Len(Found) \in Nat /\ DOMAIN Found = 1..Len(Found)
           /\ \A i \in DOMAIN Found : Found[i] \in DirEntries
<1>1. Found \in Seq(DirEntries)
  <2>1. CASE DirOpens
    <3>1. part.dir \in Dirs
      BY <2>1, SMT DEF Typed, DirOpens
    <3>. QED  BY <2>1, <3>1, DirsAssumption, Zenon DEF Found
  <2>2. CASE ~DirOpens
    BY <2>2, EmptySeq, Zenon DEF Found
  <2>. QED  BY <2>1, <2>2
<1>. HIDE DEF Found
<1>2. Len(Found) \in Nat /\ DOMAIN Found = 1..Len(Found)
  BY <1>1, LenProperties, Zenon
<1>3. \A i \in DOMAIN Found : Found[i] \in DirEntries
  BY <1>1, <1>2, ElementOfSeq
<1>. QED  BY <1>1, <1>2, <1>3

LEMMA NextFoundLength ==
    ASSUME Typed'
    PROVE  Len(Found)' \in Nat
<1>1. Found' \in Seq(DirEntries)
  <2>1. CASE DirOpens'
    <3>1. part'.dir \in Dirs
      BY <2>1, SMT DEF Typed, DirOpens
    <3>. QED  BY <2>1, <3>1, DirsAssumption, Zenon DEF Found
  <2>2. CASE ~DirOpens'
    BY <2>2, EmptySeq, Zenon DEF Found
  <2>. QED  BY <2>1, <2>2
<1>. HIDE DEF Found
<1>. QED  BY <1>1, LenProperties, Zenon

\* The places of the entries are 1, 2, ... in the order of the directory.
LEMMA Places ==
    ASSUME Typed
    PROVE  /\ IsFiniteSet(Files) /\ Cardinality(Files) \in Nat
           /\ \A i \in Files : Place(i) \in 1..Cardinality(Files)
           /\ \A i, j \in Files : i # j => Place(i) # Place(j)
<1>. DEFINE Upto(i) == {j \in Files : j <= i}
<1>1. Files \subseteq 1..Len(Found) /\ Len(Found) \in Nat
  BY FoundTyped DEF Files
<1>. HIDE DEF Found
<1>2. IsFiniteSet(Files)
  <2>1. IsFiniteSet(1..Len(Found))
    BY <1>1, FS_Interval
  <2>. QED  BY <1>1, <2>1, FS_Subset, Zenon
<1>3. ASSUME NEW i \in Files
      PROVE  /\ IsFiniteSet(Upto(i)) /\ Place(i) = Cardinality(Upto(i))
             /\ Place(i) \in 1..Cardinality(Files)
  <2>1. i \in Nat /\ i \in Upto(i) /\ Upto(i) \subseteq Files
    BY <1>1, <1>3
  <2>2. IsFiniteSet(Upto(i)) /\ Cardinality(Upto(i)) <= Cardinality(Files)
    BY <1>2, <2>1, FS_Subset
  <2>3. Cardinality(Upto(i)) \in Nat /\ Cardinality(Files) \in Nat
    BY <1>2, <2>2, FS_CardinalityType
  <2>4. Cardinality(Upto(i)) # 0
    BY <2>1, <2>2, FS_EmptySet
  <2>. QED  BY <2>2, <2>3, <2>4 DEF Place
<1>4. ASSUME NEW i \in Files, NEW j \in Files, i < j
      PROVE  Place(i) # Place(j)
  <2>1. i \in Nat /\ j \in Nat
    BY <1>1
  <2>2. Upto(i) \subseteq Upto(j) /\ j \in Upto(j) /\ j \notin Upto(i)
    <3>1. \A k \in Files : k \in Nat
      BY <1>1
    <3>2. \A k \in Files : k <= i => k <= j
      BY <2>1, <3>1, <1>4
    <3>3. j <= j /\ ~(j <= i)
      BY <2>1, <1>4
    <3>. HIDE DEF Files
    <3>. QED  BY <3>2, <3>3, Zenon
  <2>3. Cardinality(Upto(i)) # Cardinality(Upto(j))
    BY <1>3, <2>2, FS_Subset
  <2>. QED  BY <1>3, <2>3
<1>5. \A i, j \in Files : i # j => i < j \/ j < i
  BY <1>1
<1>. QED  BY <1>2, <1>3, <1>4, <1>5, FS_CardinalityType

LEMMA FoundUnchanged ==
    ASSUME UNCHANGED <<part, bdev>>
    PROVE  /\ Found' = Found /\ Files' = Files
           /\ \A i : Place(i)' = Place(i)
<1>1. Found' = Found
  BY DEF Found, DirOpens
<1>2. Files' = Files
  BY <1>1 DEF Files
<1>. QED  BY <1>1, <1>2 DEF Place

LEMMA EntryUpdate ==
    ASSUME NEW s \in Seq(Entries), NEW k \in 1..Len(s), NEW e \in Entries
    PROVE  /\ [s EXCEPT ![k] = e] \in Seq(Entries)
           /\ Len([s EXCEPT ![k] = e]) = Len(s)
           /\ [s EXCEPT ![k] = e][k] = e
           /\ \A i \in 1..Len(s) : i # k => [s EXCEPT ![k] = e][i] = s[i]
BY ExceptSeq, LenProperties

LEMMA AllUninit ==
    ASSUME NEW n \in Nat
    PROVE  /\ [i \in 1..n |-> Uninit] \in Seq(Entries)
           /\ Len([i \in 1..n |-> Uninit]) = n
<1>1. [i \in 1..n |-> Uninit] \in Seq(Entries)
  BY IsASeq DEF Entries
<1>. QED  BY <1>1, LenProperties

-----------------------------------------------------------------------------
(* The library's steps come before there is a list.                        *)
LEMMA EarlyStep ==
    ASSUME Typed, Typed', EntryInv, UNCHANGED <<entry_list, de, clicked>>, Early,
           boots' \in 0..MaxBoots, pc' \notin {"parse", "menu", "done"}
    PROVE  EntryInv'
<1>1. Len(Found)' \in Nat
  BY NextFoundLength
<1>2. entry_list' = <<>> /\ de' = 0 /\ clicked' = -1 /\ Len(entry_list') = 0
  BY DEF EntryInv
<1>3. LoadsTheClickedEntry'
  BY DEF LoadsTheClickedEntry
<1>4. entry_list' \in Seq(Entries)
  BY DEF EntryInv
<1>. QED  BY <1>1, <1>2, <1>3, <1>4 DEF EntryInv

LEMMA NextEntryInv == IInv /\ IInv' /\ EntryInv /\ [Next]_vars => EntryInv'
<1>. SUFFICES ASSUME IInv, IInv', EntryInv, [Next]_vars PROVE EntryInv'
  OBVIOUS
<1>0. Typed /\ Typed'
  BY DEF IInv
<1>1. CASE \/ Mount \/ Mkfs \/ WriteBgroups \/ WriteSblocks \/ FsInit \/ InitBgs \/ AllocInodes
           \/ CreateDirs \/ FsFini \/ (\E s \in Structures : Stored(s)) \/ MkfsDone \/ Remount
           \/ WriteBackOn \/ Ls
  <2>1. /\ UNCHANGED <<entry_list, de, clicked, boots>>
        /\ Early /\ pc' \notin {"parse", "menu", "done"}
    BY <1>1, Zenon
       DEF Mount, MountFails, Mkfs, WriteBgroups, WriteSblocks, FsInit, InitBgs, AllocInodes, CreateDirs,
           Dirtied, FsFini, Stored, InMkfs, MkfsDone, Remount, WriteBackOn, Ls, Undefined,
           program, Early
  <2>. QED  BY <1>0, <2>1, EarlyStep DEF EntryInv
<1>2. CASE PowerOn
  <2>1. /\ UNCHANGED <<entry_list, de, clicked>> /\ boots' \in 0..MaxBoots
        /\ Early /\ pc' \notin {"parse", "menu", "done"}
    BY <1>2, BootsAssumption DEF PowerOn, EntryInv, Early
  <2>. QED  BY <1>0, <2>1, EarlyStep
<1>3. CASE PowerOff
  <2>1. Len(Found)' \in Nat
    BY <1>0, NextFoundLength
  <2>2. /\ entry_list' = <<>> /\ de' = 0 /\ clicked' = -1 /\ boots' = boots /\ pc' = "off"
    BY <1>3 DEF PowerOff, Off
  <2>3. LoadsTheClickedEntry'
    BY <2>2 DEF LoadsTheClickedEntry
  <2>. QED  BY <2>1, <2>2, <2>3, EmptySeq DEF EntryInv
<1>4. CASE Install
  <2>1. /\ UNCHANGED <<entry_list, de, clicked, boots>>
        /\ Early /\ pc' \notin {"parse", "menu", "done"}
    BY <1>4 DEF Install, program, Early
  <2>. QED  BY <1>0, <2>1, EarlyStep DEF EntryInv
<1>5. CASE CountEntries
  <2>1. /\ entry_list' = [i \in 1..Cardinality(Files) |-> Uninit]
        /\ UNCHANGED <<part, bdev, de, out, clicked, boots>>
        /\ Early /\ pc' \in {"parse", "stuck"}
    BY <1>5 DEF CountEntries, library, Undefined, Early
  <2>2. Cardinality(Files) \in Nat
    BY <1>0, Places
  <2>3. entry_list' \in Seq(Entries) /\ Len(entry_list') = Cardinality(Files)
    BY <2>1, <2>2, AllUninit
  <2>4. Found' = Found /\ Files' = Files
    BY <2>1, FoundUnchanged
  <2>5. de' = 0 /\ clicked' = -1 /\ de \in 0..Len(Found) /\ boots \in 0..MaxBoots
    BY <2>1 DEF EntryInv
  <2>6. FilledSoFar'
    <3>1. Files \subseteq 1..Len(Found) /\ Len(Found) \in Nat
      BY <1>0, FoundTyped DEF Files
    <3>2. \A i \in Files' : ~(i <= de')
      BY <2>4, <2>5, <3>1
    <3>. QED  BY <3>2 DEF FilledSoFar
  <2>7. LoadsTheClickedEntry'
    BY <2>1 DEF LoadsTheClickedEntry
  <2>. QED
    BY <2>1, <2>2, <2>3, <2>4, <2>5, <2>6, <2>7 DEF EntryInv, Early, Counted
<1>6. CASE ParseEntry
  <2>1. /\ pc = "parse" /\ de < Len(Found) /\ de' = de + 1
        /\ UNCHANGED <<part, bdev, pc, out, clicked, boots>>
    BY <1>6 DEF ParseEntry, library
  <2>2. /\ entry_list \in Seq(Entries) /\ de \in 0..Len(Found) /\ Counted /\ FilledSoFar
        /\ clicked \in -1..Len(entry_list) /\ boots \in 0..MaxBoots
    BY <2>1 DEF EntryInv
  <2>3. /\ Found' = Found /\ Files' = Files /\ \A i : Place(i)' = Place(i)
    BY <2>1, FoundUnchanged
  <2>4. /\ Files \subseteq 1..Len(Found) /\ Len(Found) \in Nat
        /\ \A i \in Files : Found[i] \in DirEntries
    BY <1>0, FoundTyped DEF Files
  <2>5. /\ entry_list' \in Seq(Entries) /\ Len(entry_list') = Len(entry_list) /\ FilledSoFar'
    <3>1. CASE de + 1 \in Files
      <4>. DEFINE k == Place(de + 1)
                  e == Parsed(Found[de + 1])
      <4>1. k \in 1..Len(entry_list)
        BY <1>0, <2>2, <3>1, Places DEF Counted
      <4>2. e \in Entries
        BY <2>4, <3>1 DEF Parsed, Entries, DirEntries
      <4>3. entry_list' = [entry_list EXCEPT ![k] = e]
        BY <1>6, <3>1 DEF ParseEntry
      <4>4. /\ entry_list' \in Seq(Entries) /\ Len(entry_list') = Len(entry_list)
            /\ entry_list'[k] = e
            /\ \A i \in 1..Len(entry_list) : i # k => entry_list'[i] = entry_list[i]
        <5>. HIDE DEF k, e
        <5>. QED  BY <2>2, <4>1, <4>2, <4>3, EntryUpdate
      <4>5. ASSUME NEW i \in Files, i <= de + 1
            PROVE  entry_list'[Place(i)] = Parsed(Found[i])
        <5>1. CASE i = de + 1
          BY <4>4, <5>1
        <5>2. CASE i # de + 1
          <6>1. i <= de
            BY <2>2, <2>4, <4>5, <5>2
          <6>2. Place(i) # k /\ Place(i) \in 1..Len(entry_list)
            BY <1>0, <2>2, <3>1, <5>2, Places DEF Counted
          <6>. QED  BY <2>2, <4>4, <6>1, <6>2 DEF FilledSoFar
        <5>. QED  BY <5>1, <5>2
      <4>6. FilledSoFar'
        BY <2>1, <2>3, <4>5 DEF FilledSoFar, Parsed
      <4>. QED  BY <4>4, <4>6
    <3>2. CASE de + 1 \notin Files
      <4>1. entry_list' = entry_list
        BY <1>6, <3>2 DEF ParseEntry
      <4>2. \A i \in Files : i <= de + 1 => i <= de
        BY <2>2, <2>4, <3>2
      <4>. QED  BY <2>1, <2>2, <2>3, <4>1, <4>2 DEF FilledSoFar, Parsed
    <3>. QED  BY <3>1, <3>2
  <2>6. LoadsTheClickedEntry' /\ ~Early'
    BY <2>1 DEF LoadsTheClickedEntry, Early
  <2>7. de' \in 0..Len(Found')
    BY <2>1, <2>2, <2>3, <2>4
  <2>. QED
    BY <2>1, <2>2, <2>3, <2>5, <2>6, <2>7 DEF EntryInv, Counted
<1>7. CASE ShowMenu
  <2>1. /\ pc = "parse" /\ pc' = "menu" /\ de = Len(Found)
        /\ UNCHANGED <<part, bdev, entry_list, de, out, clicked, boots>>
    BY <1>7 DEF ShowMenu, library, program
  <2>2. /\ Found' = Found /\ Files' = Files /\ \A i : Place(i)' = Place(i)
    BY <2>1, FoundUnchanged
  <2>3. Counted' /\ FilledSoFar'
    BY <2>1, <2>2 DEF EntryInv, Counted, FilledSoFar, Parsed
  <2>4. LoadsTheClickedEntry' /\ ~Early'
    BY <2>1 DEF LoadsTheClickedEntry, Early
  <2>. QED  BY <2>1, <2>2, <2>3, <2>4 DEF EntryInv
<1>8. ASSUME NEW index \in 0..num_of_boot_entries, Click(index)
      PROVE  EntryInv'
  <2>1. /\ pc = "menu" /\ pc' \in {"done", "stuck"} /\ clicked' = index
        /\ UNCHANGED <<part, bdev, entry_list, de, boots>>
    BY <1>8 DEF Click, Load, Undefined, library
  <2>2. /\ entry_list \in Seq(Entries) /\ Len(entry_list) \in Nat /\ de = Len(Found)
        /\ Counted /\ FilledSoFar /\ de \in 0..Len(Found) /\ boots \in 0..MaxBoots
    BY <2>1, LenProperties DEF EntryInv
  <2>3. /\ Found' = Found /\ Files' = Files /\ \A i : Place(i)' = Place(i)
    BY <2>1, FoundUnchanged
  <2>4. Counted' /\ FilledSoFar' /\ ~Early'
    BY <2>1, <2>2, <2>3 DEF Counted, FilledSoFar, Parsed, Early
  <2>5. LoadsTheClickedEntry'
    <3>1. CASE index = num_of_boot_entries
      BY <1>8, <2>1, <3>1 DEF Click, LoadsTheClickedEntry, num_of_boot_entries
    <3>2. CASE index # num_of_boot_entries
      <4>1. Load(index)
        BY <1>8, <3>2 DEF Click
      <4>2. ASSUME NEW i \in Files, Place(i) = index + 1, Found[i].parses, Found[i].loads
            PROVE  out' = Found[i].name
        <5>1. i \in DOMAIN Found /\ i <= de
          BY <1>0, <2>2, FoundTyped DEF Files
        <5>2. entry_list[index + 1] = Found[i].name
          BY <2>2, <4>2, <5>1 DEF FilledSoFar, Parsed
        <5>. QED  BY <4>1, <4>2, <5>1, <5>2 DEF Load
      <4>. QED
        BY <2>1, <2>3, <3>2, <4>2 DEF LoadsTheClickedEntry, num_of_boot_entries
    <3>. QED  BY <3>1, <3>2
  <2>. QED
    BY <2>1, <2>2, <2>3, <2>4, <2>5 DEF EntryInv, num_of_boot_entries
<1>9. CASE UNCHANGED vars
  <2>1. UNCHANGED <<part, bdev, pc, entry_list, de, out, clicked, boots>>
    BY <1>9 DEF vars
  <2>2. /\ Found' = Found /\ Files' = Files /\ \A i : Place(i)' = Place(i)
    BY <2>1, FoundUnchanged
  <2>. QED
    BY <2>1, <2>2
       DEF EntryInv, Early, Counted, FilledSoFar, Parsed, LoadsTheClickedEntry,
           num_of_boot_entries
<1>. QED
  BY <1>1, <1>2, <1>3, <1>4, <1>5, <1>6, <1>7, <1>8, <1>9, Zenon DEF Next, Step

LEMMA NextWritesBack == IInv /\ WritesBack /\ [Next]_vars => WritesBack'
<1>. SUFFICES ASSUME IInv, WritesBack, [Next]_vars PROVE WritesBack'
  OBVIOUS
<1>. USE DEF WritesBack, InMkfs
<1>0. bdev \in [ph_refctr : Int, bc : {"null", "mkfs", "mp", "freed"}, cache_write_back : Int]
  BY DEF IInv, Typed
<1>1. CASE Mount
  <2>1. /\ pc = "mount" /\ pc' \in {"write_back", "mkfs"}
        /\ bdev' = bdev \/ bdev' = [bdev EXCEPT !.ph_refctr = @ + 1, !.bc = "mp"]
    BY <1>1 DEF Mount, MountFails
  <2>2. bdev'.cache_write_back = bdev.cache_write_back
    BY <1>0, <2>1
  <2>. QED  BY <2>1, <2>2
<1>2. CASE Mkfs \/ MkfsDone \/ WriteBackOn
  BY <1>0, <1>2 DEF Mkfs, MkfsDone, WriteBackOn
<1>3. CASE \/ WriteBgroups \/ WriteSblocks \/ FsInit \/ InitBgs \/ AllocInodes
           \/ CreateDirs \/ FsFini \/ (\E s \in Structures : Stored(s))
  BY <1>3 DEF WriteBgroups, WriteSblocks, FsInit, InitBgs, AllocInodes, CreateDirs,
              Dirtied, FsFini, Stored
<1>4. CASE \/ Remount \/ Ls \/ CountEntries \/ ParseEntry \/ ShowMenu \/ PowerOn \/ Install
           \/ \E index \in 0..num_of_boot_entries : Click(index)
  BY <1>4 DEF Remount, Ls, CountEntries, ParseEntry, ShowMenu, PowerOn, Install, Click, Load,
              Undefined, library, program
<1>5. CASE PowerOff
  BY <1>5 DEF PowerOff, Off
<1>6. CASE UNCHANGED vars
  BY <1>6 DEF vars
<1>. QED
  BY <1>1, <1>2, <1>3, <1>4, <1>5, <1>6, Zenon DEF Next, Step

LEMMA EntryInvariance == Spec => [](EntryInv /\ WritesBack)
<1>1. Init => EntryInv /\ WritesBack
  <2>. SUFFICES ASSUME Init PROVE EntryInv /\ WritesBack
    OBVIOUS
  <2>1. Typed /\ ~DirOpens
    BY InitInv DEF IInv, DirOpens, Init
  <2>2. Found = <<>> /\ Len(Found) = 0
    BY <2>1 DEF Found
  <2>3. entry_list = <<>> /\ de = 0 /\ clicked = -1 /\ boots = 0 /\ pc = "off"
        /\ bdev.cache_write_back = 0
    BY DEF Init
  <2>. QED
    BY <2>2, <2>3, BootsAssumption, EmptySeq
       DEF EntryInv, WritesBack, InMkfs, LoadsTheClickedEntry
<1>2. IInv /\ IInv' /\ EntryInv /\ WritesBack /\ [Next]_vars => EntryInv' /\ WritesBack'
  BY NextEntryInv, NextWritesBack
<1>. QED  BY <1>1, <1>2, Invariance, PTL DEF Spec

(* Whatever is in the directory, the buffers the caller gets are those of  *)
(* the entry whose button was clicked.                                     *)
THEOREM ClickLoadsEntry == Spec => []LoadsTheClickedEntry
<1>1. EntryInv => LoadsTheClickedEntry
  BY DEF EntryInv
<1>. QED  BY <1>1, EntryInvariance, PTL

(* The types of the variables: the array of entries is never written past  *)
(* its end, the device is opened once, write-back mode is entered once.    *)
THEOREM TypeCorrect == Spec => []TypeOK
<1>1. IInv /\ EntryInv /\ WritesBack => TypeOK
  <2>. SUFFICES ASSUME IInv, EntryInv, WritesBack PROVE TypeOK
    OBVIOUS
  <2>1. bdev \in [ph_refctr : 0..1, bc : {"null", "mkfs", "mp", "freed"}, cache_write_back : 0..1]
    BY DEF IInv, Typed, Opened, WritesBack
  <2>2. \A i \in DOMAIN entry_list : entry_list[i] \in STRING \cup {Uninit}
    BY ElementOfSeq, LenProperties DEF EntryInv, Entries
  <2>. QED
    BY <2>1, <2>2 DEF IInv, Typed, EntryInv, TypeOK, num_of_boot_entries
<1>. QED  BY <1>1, Invariance, EntryInvariance, PTL
=============================================================================
