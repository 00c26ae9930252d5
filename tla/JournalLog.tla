----------------------------- MODULE JournalLog -----------------------------
(***************************************************************************)
(* The log on the device and how recovery reads it: jbd_iterate_log and    *)
(* what it calls in ext4_journal.c, as functions of the log and the        *)
(* journal superblock.  Block 0 of the journal file is the superblock, the *)
(* log is the ring of blocks 1..LogSize (first = 1, maxlen = LogSize + 1). *)
(* The tags of a descriptor are the map lba they encode from blocks to     *)
(* positions of the log, 0 for none; checksums and escaping are left out.  *)
(***************************************************************************)
EXTENDS Integers, Sequences, FiniteSets, FiniteSetsExt, TLC

CONSTANTS
    Blocks,    \* home blocks
    LogSize    \* blocks of the log

ASSUME LogSizeAssumption == LogSize \in Nat \ {0}

Positions == 1..LogSize
Tags == [Blocks -> 0..LogSize]
NoTags == [b \in Blocks |-> 0]

\* wrap(): n blocks after position p
Ring(p, n) == IF p + n > LogSize THEN p + n - LogSize ELSE p + n

Data(v) == [type |-> "data", val |-> v]
Descriptor(id, lba) == [type |-> "descriptor", seq |-> id, lba |-> lba]
Revoke(id, S) == [type |-> "revoke", seq |-> id, blocks |-> S]
Commit(id) == [type |-> "commit", seq |-> id]

Records == [type : {"data"}, val : Nat]
             \cup [type : {"descriptor"}, seq : Nat, lba : Tags]
             \cup [type : {"revoke"}, seq : Nat, blocks : SUBSET Blocks]
             \cup [type : {"commit"}, seq : Nat]

Tagged(lba) == {b \in Blocks : lba[b] # 0}

-----------------------------------------------------------------------------
(* Reading the log: the block to be read and the transaction id expected   *)
(* there (this_block, this_trans_id), what has been met of the transaction *)
(* that is being read, the transactions found, and log_end.                *)

Committed == [id : Nat, lba : Tags, revoked : SUBSET Blocks]
Readers == [pos : 0..LogSize, id : Nat, lba : Tags, revoked : SUBSET Blocks,
            found : Seq(Committed), over : BOOLEAN]

Reading(sb) == [pos |-> sb.start, id |-> sb.sequence, lba |-> NoTags, revoked |-> {},
                found |-> <<>>, over |-> sb.start = 0]

\* The block has the magic number of the journal and the expected transaction id.
Expected(r, id) == r.type # "data" /\ r.seq = id

\* What a block of the log tells the reader.
Read(s, r) ==
    CASE r.type = "descriptor" -> [s EXCEPT !.lba = r.lba]
      [] r.type = "revoke" -> [s EXCEPT !.revoked = @ \cup r.blocks]
      [] r.type = "commit" ->
           [s EXCEPT !.found = Append(@, [id |-> s.id, lba |-> s.lba, revoked |-> s.revoked]),
                     !.id = @ + 1, !.lba = NoTags, !.revoked = {}]

\* Blocks to go past: a descriptor is followed by what it tags.
Length(r) == IF r.type = "descriptor" THEN 1 + Cardinality(Tagged(r.lba)) ELSE 1

\* One round of the loop: it ends at the first block that is not expected, or
\* where it began.
ReadOn(log, start, s) ==
    LET r == log[s.pos]
        next == Ring(s.pos, Length(r))
    IN  IF s.over \/ ~Expected(r, s.id) THEN [s EXCEPT !.over = TRUE]
        ELSE [Read(s, r) EXCEPT !.pos = next, !.over = (next = start)]

\* jbd_iterate_log: the committed transactions from the start of the log.
Found(log, sb) ==
    LET on == [s \in Readers |-> ReadOn(log, sb.start, s)]
        read[n \in 0..LogSize] == IF n = 0 THEN Reading(sb) ELSE on[read[n - 1]]
    IN  read[LogSize].found

\* jbd_recover: last_trans_id
LastTransId(log, sb) ==
    LET n == Len(Found(log, sb)) IN IF n > 0 THEN sb.sequence + n - 1 ELSE sb.sequence

\* jbd_replay_block_tags: the transactions whose copy of b is replayed, those
\* later than every one that revokes b.
Replays(found, b) ==
    {i \in DOMAIN found : /\ found[i].lba[b] # 0
                          /\ \A j \in DOMAIN found :
                               b \in found[j].revoked => found[j].id < found[i].id}

\* What the blocks of S hold once the log has been replayed.
Recovered(home, log, sb, S) ==
    LET after[found \in Seq(Committed)] ==
          [b \in S |-> LET R == Replays(found, b)
                       IN  IF R = {} THEN home[b] ELSE log[found[Max(R)].lba[b]].val]
    IN  after[Found(log, sb)]
=============================================================================
