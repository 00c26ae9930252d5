----------------------------- MODULE BlockStore -----------------------------
(***************************************************************************)
(* What the lwext4 block cache promises to the file system above it when   *)
(* the device does not fail (include/ext4_blockdev.h, include/ext4.h): a   *)
(* map from blocks to contents of which a second map, the durable one, is  *)
(* what a power failure leaves.  Cache, eviction, reference counts, dirty  *)
(* list and write-back counter are not mentioned: Bcache implements them.  *)
(*                                                                         *)
(* ret is the outcome of the last step the caller can see; the promises    *)
(* are attached to it.                                                     *)
(***************************************************************************)
CONSTANTS Lba, Vals

VARIABLES content, durable, held, ret
vars == <<content, durable, held, ret>>

Outcomes == {"none", "busy", "got", "error", "written", "released",
             "invalidated", "flushed", "write_back", "umounted", "power_off"}

Init == /\ content \in [Lba -> Vals]
        /\ durable = content
        /\ held = {}
        /\ ret = "none"

\* Some blocks, and no others, have been made durable by the step.
Persists == \A l \in Lba : durable'[l] \in {durable[l], content[l]}

\* The only ways for the content of a block to change: its holder writes it ...
Write(l, v) == /\ l \in held
               /\ content' = [content EXCEPT ![l] = v]
               /\ ret' = "written"
               /\ UNCHANGED <<durable, held>>

\* ... or it is freed, and what had not reached the device is forgotten ...
Discard(S) == /\ content' = [l \in Lba |-> IF l \in S THEN durable[l] ELSE content[l]]
              /\ ret' = "invalidated"
              /\ UNCHANGED <<durable, held>>

\* ... or the power goes.
PowerOff == /\ content' = durable
            /\ held' = {}
            /\ ret' = "power_off"
            /\ UNCHANGED durable

\* Getting, putting back, evicting, delaying: invisible but for durability.
Serve == /\ UNCHANGED content
         /\ Persists
         /\ held' \subseteq Lba
         /\ ret' \in {"busy", "got", "error", "released", "write_back"}

\* A flush returns only when every block nobody holds is durable.
Flush == /\ ret' = "flushed"
         /\ \A l \in Lba \ held : durable[l] = content[l]
         /\ UNCHANGED <<content, durable, held>>

\* Unmounting loses nothing.
Umount == /\ ret' = "umounted"
          /\ durable = content
          /\ held = {}
          /\ UNCHANGED <<content, durable, held>>

Next == \/ \E l \in Lba, v \in Vals : Write(l, v)
        \/ \E S \in SUBSET Lba : Discard(S)
        \/ PowerOff
        \/ Serve
        \/ Flush
        \/ Umount

Spec == Init /\ [][Next]_vars
=============================================================================
