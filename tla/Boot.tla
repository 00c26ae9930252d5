-------------------------------- MODULE Boot --------------------------------
(***************************************************************************)
(* The boot manager's main program (test_lvgl of AbmLib): mount_meta, which *)
(* formats a partition that does not mount, the parsing of the boot        *)
(* entries, the menu, and the buffers handed to the caller, together with  *)
(* the part of lwext4 that mounts and formats (ext4_mount, ext4_mkfs).     *)
(* Power may fail between any two device accesses; only the partition      *)
(* survives.  One device and one mount point, as in the program; memory    *)
(* does not run out, and the device does not fail.                         *)
(*                                                                         *)
(* A dereference of a null or an uninitialised pointer ends in Undefined:  *)
(* the program may stop for good or carry on with nothing.                 *)
(***************************************************************************)
EXTENDS Integers, Sequences, FiniteSets

CONSTANTS
    Dirs,      \* what the directory of boot entries may contain
    NoDir,     \* there is no such directory
    Nothing,   \* a null pointer, or nothing loaded
    Uninit,    \* memory that was never written
    MaxBoots   \* bound on the number of times the power comes on

(* A directory is a sequence of entries [name, type, parses, loads]: it     *)
(* parses if no option is missing from the file, and loads if the kernel   *)
(* and the initrd that it names exist.                                     *)
DirEntries == [name : STRING, type : {"file", "dir"}, parses : BOOLEAN, loads : BOOLEAN]

ASSUME DirsAssumption == Dirs \subseteq Seq(DirEntries) /\ NoDir \notin Dirs
ASSUME BootsAssumption == MaxBoots \in Nat \ {0}

VARIABLES
    part,         \* the partition: superblock, finished structures, boot entries
    dirty,        \* structures whose latest version is in the cache only
    mp,           \* s_mp[0]: mounted, and whether its file system was initialised
    bdev,         \* ph_refctr, bc and cache_write_back of the block device
    pc,           \* where the program is
    entry_list,   \* the entry that the fields of each element are from
    de,           \* directory entries parse_boot_entries has gone through
    out,          \* buf_k1, buf_rd and cmdline: the entry they are from
    clicked,      \* the button that was clicked
    boots

vars == <<part, dirty, mp, bdev, pc, entry_list, de, out, clicked, boots>>
library == <<part, dirty, mp, bdev>>
program == <<entry_list, de, out, clicked, boots>>

-----------------------------------------------------------------------------
(* What ext4_mkfs makes besides the superblock: group descriptors and      *)
(* bitmaps, the reserved inodes, the root directory.  part.made has those  *)
(* of which the partition holds the final version.                         *)
Structures == {"bgroups", "inodes", "dirs"}
Blank == [sb |-> "none", read_only |-> FALSE, made |-> {}, dir |-> NoDir]

\* The statics of a program that has just been loaded
Off ==
    /\ dirty' = {}
    /\ mp' = [mounted |-> FALSE, ready |-> FALSE]
    /\ bdev' = [ph_refctr |-> 0, bc |-> "null", cache_write_back |-> 0]
    /\ entry_list' = <<>> /\ de' = 0
    /\ out' = Nothing /\ clicked' = -1

Init ==
    /\ part \in {Blank} \cup [sb : {"valid", "error"}, read_only : BOOLEAN,
                              made : {Structures}, dir : Dirs \cup {NoDir}]
    /\ dirty = {}
    /\ mp = [mounted |-> FALSE, ready |-> FALSE]
    /\ bdev = [ph_refctr |-> 0, bc |-> "null", cache_write_back |-> 0]
    /\ pc = "off"
    /\ entry_list = <<>> /\ de = 0
    /\ out = Nothing /\ clicked = -1
    /\ boots = 0

PowerOn ==
    /\ pc = "off" /\ boots < MaxBoots
    /\ pc' = "mount" /\ boots' = boots + 1
    /\ UNCHANGED <<library, entry_list, de, out, clicked>>

\* Also the end of what the caller does with the buffers.
PowerOff ==
    /\ pc # "off"
    /\ pc' = "off"
    /\ Off
    /\ UNCHANGED <<part, boots>>

\* Between two boots the system that was booted keeps the entries up to date.
Install ==
    /\ pc = "off" /\ part.sb # "none" /\ part.made = Structures
    /\ \E d \in Dirs : part' = [part EXCEPT !.dir = d]
    /\ UNCHANGED <<dirty, mp, bdev, pc, program>>

-----------------------------------------------------------------------------
(* Definitions named Bug_X are X with a plausible mistake.  No other       *)
(* definition uses them: they show which property each mistake breaks.     *)

\* ext4_sb_check and ext4_fs_check_features; a dirty superblock is accepted.
Bug_Accepted == part.sb = "valid"
Accepted == part.sb # "none"

\* ext4_fs_init marks the superblock until ext4_fs_fini.
Marked(state) == IF part.read_only THEN part ELSE [part EXCEPT !.sb = state]

Bug_MountFails ==
    /\ mp' = [mounted |-> TRUE, ready |-> FALSE]
    /\ bdev' = [bdev EXCEPT !.ph_refctr = @ + 1]
    /\ UNCHANGED part

\* The slot is taken before the superblock is looked at, and stays taken.
MountFails ==
    /\ mp' = [mounted |-> TRUE, ready |-> FALSE]
    /\ UNCHANGED <<part, bdev>>

\* ext4_mount("ext4_fs", "/meta/", false) of a program that has mounted nothing
Mount ==
    /\ pc = "mount"
    /\ \/ /\ Accepted
          /\ mp' = [mounted |-> TRUE, ready |-> TRUE]
          /\ bdev' = [bdev EXCEPT !.ph_refctr = @ + 1, !.bc = "mp"]
          /\ part' = Marked("error")
          /\ pc' = "write_back"
       \/ ~Accepted /\ MountFails /\ pc' = "mkfs"
    /\ UNCHANGED <<dirty, program>>

Mkfs ==
    /\ pc = "mkfs"
    /\ bdev' = [ph_refctr |-> bdev.ph_refctr + 1, bc |-> "mkfs",
                cache_write_back |-> bdev.cache_write_back + 1]
    /\ pc' = "bgroups"
    /\ UNCHANGED <<part, dirty, mp, program>>

Dirtied(S) ==
    /\ dirty' = dirty \cup S
    /\ part' = [part EXCEPT !.made = @ \ S]
    /\ UNCHANGED <<mp, bdev, program>>

WriteBgroups == pc = "bgroups" /\ Dirtied({"bgroups"}) /\ pc' = "sblocks"

\* The superblock goes to the device at once, past the cache.
WriteSblocks ==
    /\ pc = "sblocks"
    /\ part' = [part EXCEPT !.sb = "valid", !.read_only = FALSE, !.dir = NoDir]
    /\ pc' = "fs_init"
    /\ UNCHANGED <<dirty, mp, bdev, program>>

FsInit ==
    /\ pc = "fs_init"
    /\ part' = Marked("error")
    /\ pc' = "init_bgs"
    /\ UNCHANGED <<dirty, mp, bdev, program>>

InitBgs == pc = "init_bgs" /\ Dirtied({"bgroups"}) /\ pc' = "alloc_inodes"
AllocInodes == pc = "alloc_inodes" /\ Dirtied({"bgroups", "inodes"}) /\ pc' = "create_dirs"
CreateDirs == pc = "create_dirs" /\ Dirtied(Structures) /\ pc' = "fs_fini"

FsFini ==
    /\ pc = "fs_fini"
    /\ part' = Marked("valid")
    /\ pc' = "cache_fini"
    /\ UNCHANGED <<dirty, mp, bdev, program>>

InMkfs == pc \in {"bgroups", "sblocks", "fs_init", "init_bgs", "alloc_inodes", "create_dirs",
                  "fs_fini", "cache_fini"}

\* The last block of a structure is written: the cache was full, or is flushed.
Stored(s) ==
    /\ InMkfs /\ s \in dirty
    /\ dirty' = dirty \ {s}
    /\ part' = [part EXCEPT !.made = @ \cup {s}]
    /\ UNCHANGED <<mp, bdev, pc, program>>

Bug_MkfsDone ==
    /\ pc = "cache_fini"
    /\ dirty' = {}
    /\ bdev' = [ph_refctr |-> bdev.ph_refctr - 1, bc |-> "freed",
                cache_write_back |-> bdev.cache_write_back - 1]
    /\ pc' = "remount"
    /\ UNCHANGED <<part, mp, program>>

\* The cache, a local variable, is gone; bdev->bc still points at it.
\* ext4_mkfs_read_info, which follows, leaves everything as it found it.
MkfsDone ==
    /\ pc = "cache_fini" /\ dirty = {}
    /\ bdev' = [ph_refctr |-> bdev.ph_refctr - 1, bc |-> "freed",
                cache_write_back |-> bdev.cache_write_back - 1]
    /\ pc' = "remount"
    /\ UNCHANGED <<part, dirty, mp, program>>

\* The second ext4_mount finds the mount point's name in a slot that is taken.
Remount ==
    /\ pc = "remount"
    /\ pc' = "write_back"
    /\ UNCHANGED <<library, program>>

WriteBackOn ==
    /\ pc = "write_back"
    /\ bdev' = [bdev EXCEPT !.cache_write_back = @ + 1]
    /\ pc' = "ls"
    /\ UNCHANGED <<part, dirty, mp, program>>

-----------------------------------------------------------------------------
(* ext4_dir_open of /meta/db/entries.  It fails with EIO when the device   *)
(* is not open; its caller does not look, and ext4_dir_entry_next goes     *)
(* through the null pointer it left.                                       *)
DirOpens == bdev.ph_refctr > 0 /\ part.made = Structures /\ part.dir # NoDir
Found == IF DirOpens THEN part.dir ELSE <<>>
Undefined(next) == pc' \in {next, "stuck"}

\* The entries that are shown, and the place among them of the i-th one
Files == {i \in DOMAIN Found : Found[i].type = "file"}
Place(i) == Cardinality({j \in Files : j <= i})

Ls ==
    /\ pc = "ls"
    /\ IF DirOpens THEN pc' = "count" ELSE Undefined("count")
    /\ UNCHANGED <<library, program>>

\* dir_count_entries, and an array of that many entries
CountEntries ==
    /\ pc = "count"
    /\ entry_list' = [i \in 1..Cardinality(Files) |-> Uninit]
    /\ IF DirOpens THEN pc' = "parse" ELSE Undefined("parse")
    /\ UNCHANGED <<library, de, out, clicked, boots>>

\* parse_boot_entry_file gives up at the first option it does not find, and
\* leaves the fields from there on as malloc returned them.
Parsed(e) == IF e.parses THEN e.name ELSE Uninit

Bug_ParseEntry ==
    /\ pc = "parse" /\ de < Len(Found)
    /\ de + 1 \in Files
    /\ entry_list' = [entry_list EXCEPT ![Place(de + 1)] = Parsed(Found[de + 1])]
    /\ de' = de + 1
    /\ UNCHANGED <<library, pc, out, clicked, boots>>

ParseEntry ==
    /\ pc = "parse" /\ de < Len(Found)
    /\ IF de + 1 \in Files
       THEN entry_list' = [entry_list EXCEPT ![Place(de + 1)] = Parsed(Found[de + 1])]
       ELSE UNCHANGED entry_list
    /\ de' = de + 1
    /\ UNCHANGED <<library, pc, out, clicked, boots>>

\* One button for each entry, and the last one is "Extras".
ShowMenu ==
    /\ pc = "parse" /\ de = Len(Found)
    /\ pc' = "menu"
    /\ UNCHANGED <<library, program>>

num_of_boot_entries == Len(entry_list)

(* event_handler for an entry: it never looks at entry->error, and not at  *)
(* what opening the two files returned.                                    *)
Load(index) ==
    LET name == entry_list[index + 1]
    IN  IF \E i \in DOMAIN Found : Found[i].name = name /\ Found[i].loads
        THEN out' = name /\ pc' = "done"
        ELSE out' = Uninit /\ Undefined("done")

Bug_Click(index) ==
    /\ pc = "menu"
    /\ clicked' = index
    /\ IF index = 1 \/ index = num_of_boot_entries THEN out' = Nothing /\ pc' = "done" ELSE Load(index)
    /\ UNCHANGED <<library, entry_list, de, boots>>

(* event_handler.  For index 1 the buffers are cleared, and then loaded    *)
(* like those of any other entry: the second test is not an else.          *)
Click(index) ==
    /\ pc = "menu"
    /\ clicked' = index
    /\ IF index = num_of_boot_entries THEN out' = Nothing /\ pc' = "done" ELSE Load(index)
    /\ UNCHANGED <<library, entry_list, de, boots>>

-----------------------------------------------------------------------------
Step ==
    \/ Mount \/ Mkfs \/ WriteBgroups \/ WriteSblocks \/ FsInit \/ InitBgs \/ AllocInodes
    \/ CreateDirs \/ FsFini \/ (\E s \in Structures : Stored(s)) \/ MkfsDone \/ Remount
    \/ WriteBackOn \/ Ls \/ CountEntries \/ ParseEntry \/ ShowMenu

Next ==
    \/ Step
    \/ PowerOn \/ PowerOff \/ Install
    \/ \E index \in 0..num_of_boot_entries : Click(index)

Spec == Init /\ [][Next]_vars
FairSpec == Spec /\ WF_vars(Step)

-----------------------------------------------------------------------------
TypeOK ==
    /\ part \in [sb : {"none", "valid", "error"}, read_only : BOOLEAN,
                 made : SUBSET Structures, dir : Dirs \cup {NoDir}]
    /\ dirty \subseteq Structures
    /\ mp \in [mounted : BOOLEAN, ready : BOOLEAN]
    /\ bdev \in [ph_refctr : 0..1, bc : {"null", "mkfs", "mp", "freed"}, cache_write_back : 0..1]
    /\ \A i \in DOMAIN entry_list : entry_list[i] \in STRING \cup {Uninit}
    /\ de \in 0..Len(Found)
    /\ clicked \in -1..num_of_boot_entries
    /\ boots \in 0..MaxBoots

(* However often the power fails, and while whatever is on the partition   *)
(* says it was not unmounted, mount_meta never formats a file system that  *)
(* is complete: the entries stay until the user's system changes them.     *)
NeverReformats ==
    [][ part.sb # "none" /\ part.made = Structures
          => part'.sb # "none" /\ part'.made = Structures
             /\ (part'.dir # part.dir => pc = "off") ]_vars

(* When ext4_mkfs returns EOK everything it made is on the device, in its  *)
(* final version, and the superblock says that it was unmounted cleanly    *)
(* ("Unmounted cleanly", include/ext4_types.h:199).                        *)
MkfsComplete == pc = "remount" => part.made = Structures /\ part.sb = "valid" /\ dirty = {}

(* bdev->bc outlives the cache of ext4_mkfs that it points at.  What keeps *)
(* every later access off that memory is that the device is then closed.   *)
OpenDeviceHasCache == bdev.ph_refctr > 0 => bdev.bc = IF InMkfs THEN "mkfs" ELSE "mp"

(* The caller gets the kernel, the initrd and the command line of the      *)
(* entry that was clicked, by its place in the directory, or for the last  *)
(* button nothing; entries that are broken are a matter of their own.      *)
LoadsTheClickedEntry ==
    pc = "done" =>
        IF clicked = num_of_boot_entries THEN out = Nothing
        ELSE \A i \in Files : Place(i) = clicked + 1 /\ Found[i].parses /\ Found[i].loads
                                => out = Found[i].name

(* With a directory of entries on the partition every boot gets to the     *)
(* menu, unless the power fails.                                           *)
MenuReached == pc = "mount" /\ part.sb # "none" /\ part.made = Structures /\ part.dir # NoDir
                 ~> pc \in {"menu", "off"}

(* ext4_mount, "Mount a block device with EXT4 partition to the mount      *)
(* point" (include/ext4.h:132), returned EOK: the mount point is mounted.  *)
MountedIsReady == pc = "write_back" => mp.ready
=============================================================================
