------------------------------ MODULE Journal -------------------------------
(***************************************************************************)
(* The lwext4 journal: sessions (jbd_journal_start, jbd_journal_stop),     *)
(* transactions (ext4_trans_start, jbd_trans_set_block_dirty,              *)
(* jbd_trans_try_revoke_block, ext4_trans_stop, ext4_trans_abort), the     *)
(* checkpoint driven by the block cache (jbd_trans_end_write), and         *)
(* recovery (jbd_recover), of ext4_journal.c.                              *)
(*                                                                         *)
(* Every write to the device is a step, and the power may go between any   *)
(* two.  The device does not fail otherwise.  The content of a block is    *)
(* the number of the transaction that wrote it, so no two are alike.       *)
(*                                                                         *)
(* Write-through is the case of write-back in which a buffer is flushed    *)
(* right after the commit releases it.  One descriptor and one revoke      *)
(* block hold all the tags of a transaction.  Whoever allocates or frees a *)
(* block dirties its bitmap in the same transaction (ext4_balloc.c), so no *)
(* transaction consists of revokes only.                                   *)
(***************************************************************************)
EXTENDS JournalLog

CONSTANTS
    Bitmap,      \* the block with the bitmap of the others
    None,        \* no content
    MaxTxn,      \* bound on the transactions of a behaviour
    MaxSequence, \* bound on the transaction ids a session may start from
    Triggers     \* the situations, of those below, that may come up

(* In each of these situations the code breaks one of the properties:      *)
(* "restart"     a session begins after one that ended with a clean stop;  *)
(* "unrecovered" a session begins on a log that has not been recovered;    *)
(* "delayed"     recovery runs while write-back is enabled;                *)
(* "rollback"    a transaction is aborted that freed a block with content  *)
(*               that is committed but not yet home;                       *)
(* "forgotten"   a transaction frees a block it has dirtied, or is aborted *)
(*               after it has dirtied one, of which an unfinished          *)
(*               transaction has logged, and already written home, an      *)
(*               earlier content: the block record is gone;                *)
(* "late"        the write of one buffer completes both the head of the    *)
(*               checkpoint queue and the transaction that becomes head,   *)
(*               or a block is freed that two transactions have to write;  *)
(*               in write-back mode the order in which the cache flushes   *)
(*               the buffers decides it.                                   *)
AllTriggers == {"restart", "unrecovered", "delayed", "rollback", "forgotten", "late"}

ASSUME BitmapAssumption == Bitmap \in Blocks /\ IsFiniteSet(Blocks) /\ None \notin Nat
ASSUME SpaceAssumption == LogSize > Cardinality(Blocks) + 3
ASSUME BoundsAssumption == /\ MaxTxn \in Nat /\ MaxSequence \in Nat
                           /\ Triggers \subseteq AllTriggers

VARIABLES
    home,      \* on the device: the blocks at their home,
    log,       \* the log,
    jsb,       \* the journal superblock: start and sequence,
    recover,   \* EXT4_FINCOM_RECOVER in the superblock of the file system
    pc,        \* what the library is at
    journal,   \* struct jbd_journal: start, last, trans_id, alloc_trans_id
    cp_queue,  \* committed transactions that are not home
    trans,     \* the running transaction: curr_trans
    rec,       \* the id of the transaction a block record belongs to, or 0
    buf,       \* the content of the block's dirty buffer in the cache, or None
    ending,    \* the jbd_trans_end_write that is in progress
    sb_write,  \* where that is with the journal superblock
    todo,      \* what recovery has yet to replay
    use,       \* what each block is used for, as the bitmap in the cache says
    saved,     \* the same as of the last commit
    txn,       \* number of the last transaction begun
    since      \* number of the first transaction of the session

disk == <<home, log, jsb, recover>>
session == <<journal, cp_queue, rec, ending, sb_write>>
ghost == <<saved, txn, since>>
vars == <<disk, pc, session, trans, buf, todo, use, ghost>>

-----------------------------------------------------------------------------
(* Definitions named Bug_X are X with a plausible mistake.  No other       *)
(* definition uses them: they show which property each mistake breaks.     *)

Uses == {"free", "meta", "data"}
Committing == {"alloc", "data", "revoke", "commit", "revoked"}
Active == {"idle", "run", "stopping"} \cup Committing
PCs == {"off", "starting", "stopped", "replay", "put"} \cup Active

Transactions == [id : Nat, n : Nat, start : 0..LogSize, len : 0..LogSize,
                 lba : Tags, bufs : SUBSET Blocks, revoke : SUBSET Blocks]
NoTrans == [id |-> 0, n |-> 0, start |-> 0, len |-> 0,
            lba |-> NoTags, bufs |-> {}, revoke |-> {}]
NotEnding == [id |-> 0, block |-> Bitmap, first |-> FALSE]

\* Transactions on the checkpoint queue that still have a jbd_buf of b: the
\* dirty_buf_queue of its block record, without that of the running one.
Pending(b) == {i \in DOMAIN cp_queue : b \in cp_queue[i].bufs}

\* TAILQ_LAST of it
Newest(b) == CHOOSE i \in Pending(b) : \A j \in Pending(b) : j <= i
NewestId(b) == IF Pending(b) = {} THEN 0 ELSE cp_queue[Newest(b)].id

Quiet == sb_write = "no" /\ ending = NotEnding

\* The buffer is referenced by a jbd_buf of the running transaction.
Referenced(b) == b \in trans.bufs

InUse(u) == {b \in Blocks : u[b] # "free"}
View(b) == IF buf[b] # None THEN buf[b] ELSE home[b]

-----------------------------------------------------------------------------
(* Sessions.                                                               *)

Init == /\ home = [b \in Blocks |-> 0]
        /\ log = [p \in Positions |-> Data(0)]
        /\ jsb = [start |-> 0, sequence |-> 1]      \* create_journal_inode
        /\ recover = FALSE
        /\ pc = "off"
        /\ journal = [start |-> 0, last |-> 0, trans_id |-> 0, alloc_trans_id |-> 0]
        /\ cp_queue = <<>> /\ trans = NoTrans
        /\ rec = [b \in Blocks |-> 0] /\ buf = [b \in Blocks |-> None]
        /\ ending = NotEnding /\ sb_write = "no" /\ todo = {}
        /\ use = [b \in Blocks |-> IF b = Bitmap THEN "meta" ELSE "free"]
        /\ saved = use /\ txn = 0 /\ since = 0

\* jbd_journal_start: the file system is marked as one to be recovered ...
StartFlag ==
    /\ pc = "off" /\ jsb.sequence \in 0..MaxSequence - 1
    /\ jsb.start = 0 \/ "unrecovered" \in Triggers
    /\ jsb.sequence # 0 \/ "restart" \in Triggers
    /\ recover' = TRUE
    /\ pc' = "starting"
    /\ UNCHANGED <<home, log, jsb, session, trans, buf, todo, use, ghost>>

Bug_StartSb ==
    /\ pc = "starting"
    /\ journal' = [start |-> 1, last |-> 1,
                   trans_id |-> jsb.sequence, alloc_trans_id |-> jsb.sequence]
    /\ jsb' = [start |-> 1, sequence |-> jsb.sequence]
    /\ pc' = "idle" /\ since' = txn + 1
    /\ UNCHANGED <<home, log, recover, cp_queue, rec, ending, sb_write,
                   trans, buf, todo, use, saved, txn>>

\* ... and the log starts again, with a transaction id it has not seen.
StartSb ==
    /\ pc = "starting"
    /\ journal' = [start |-> 1, last |-> 1,
                   trans_id |-> jsb.sequence + 1, alloc_trans_id |-> jsb.sequence + 1]
    /\ jsb' = [start |-> 1, sequence |-> jsb.sequence + 1]
    /\ pc' = "idle" /\ since' = txn + 1
    /\ UNCHANGED <<home, log, recover, cp_queue, rec, ending, sb_write,
                   trans, buf, todo, use, saved, txn>>

\* jbd_journal_stop: everything is written home (MakeRoom), ...
Stop ==
    /\ pc = "idle" /\ Quiet
    /\ pc' = "stopping"
    /\ UNCHANGED <<disk, session, trans, buf, todo, use, ghost>>

Bug_StopFlag ==
    /\ pc = "stopping" /\ Quiet
    /\ recover' = FALSE
    /\ pc' = "stopped"
    /\ UNCHANGED <<home, log, jsb, session, trans, buf, todo, use, ghost>>

\* ... then the file system is no longer to be recovered, ...
StopFlag ==
    /\ pc = "stopping" /\ Quiet /\ cp_queue = <<>>
    /\ recover' = FALSE
    /\ pc' = "stopped"
    /\ UNCHANGED <<home, log, jsb, session, trans, buf, todo, use, ghost>>

\* ... and the log is empty.
StopSb ==
    /\ pc = "stopped"
    /\ jsb' = [start |-> 0, sequence |-> 0]
    /\ pc' = "off"
    /\ UNCHANGED <<home, log, recover, session, trans, buf, todo, use, ghost>>

-----------------------------------------------------------------------------
(* Transactions.                                                           *)

\* ext4_trans_start: jbd_journal_new_trans.  Its id will be alloc_trans_id.
Begin ==
    /\ pc = "idle" /\ Quiet /\ txn < MaxTxn
    /\ trans' = [NoTrans EXCEPT !.id = journal.alloc_trans_id, !.n = txn + 1]
    /\ txn' = txn + 1
    /\ pc' = "run"
    /\ UNCHANGED <<disk, session, buf, todo, use, saved, since>>

\* jbd_trans_set_block_dirty: a jbd_buf for each block that has none in this
\* transaction; the block record is now this transaction's, and the block is no
\* longer revoked by it.
SetDirty(S) ==
    /\ trans' = [trans EXCEPT !.bufs = @ \cup S, !.revoke = @ \ S]
    /\ rec' = [b \in Blocks |-> IF b \in S THEN trans.id ELSE rec[b]]
    /\ buf' = [b \in Blocks |-> IF b \in S THEN trans.n ELSE buf[b]]

\* Metadata is changed, in a block that has it or is allocated for it.  A block
\* the transaction has dirtied and freed is not allocated again by it.
Dirty(b) ==
    /\ pc = "run" /\ Quiet
    /\ use[b] # "data" /\ b \notin trans.bufs
    /\ SetDirty(IF use[b] = "free" THEN {b, Bitmap} ELSE {b})
    /\ use' = [use EXCEPT ![b] = "meta"]
    /\ UNCHANGED <<disk, pc, journal, cp_queue, ending, sb_write, todo, ghost>>

\* A block is allocated for file data, which goes straight to the device.  No
\* call frees blocks and then allocates any for data in the same transaction.
WriteData(b) ==
    /\ pc = "run" /\ Quiet
    /\ use[b] = "free" /\ saved[b] = "free"
    /\ home' = [home EXCEPT ![b] = trans.n]
    /\ SetDirty({Bitmap})
    /\ use' = [use EXCEPT ![b] = "data"]
    /\ UNCHANGED <<log, jsb, recover, pc, journal, cp_queue, ending, sb_write, todo, ghost>>

Bug_MustRevoke(b) == rec[b] # 0 /\ Pending(b) # {}

\* jbd_trans_try_revoke_block
MustRevoke(b) == rec[b] # 0 /\ (rec[b] = trans.id => Pending(b) # {})

\* An unfinished transaction has logged b, which is home since.
LoggedOnly(b) == Pending(b) = {} /\ \E i \in DOMAIN cp_queue : cp_queue[i].lba[b] # 0

\* ext4_balloc_free_block: bitmap, revoke record, and the buffer is invalidated.
Free(b) ==
    /\ pc = "run" /\ Quiet
    /\ b # Bitmap /\ use[b] # "free"
    /\ b \in trans.bufs /\ LoggedOnly(b) => "forgotten" \in Triggers
    /\ Cardinality(Pending(b)) > 1 => "late" \in Triggers
    /\ trans' = [trans EXCEPT !.bufs = @ \cup {Bitmap},
                              !.revoke = IF MustRevoke(b) THEN @ \cup {b} ELSE @]
    /\ rec' = [rec EXCEPT ![Bitmap] = trans.id]
    /\ buf' = [buf EXCEPT ![Bitmap] = trans.n, ![b] = None]
    /\ use' = [use EXCEPT ![b] = "free"]
    /\ UNCHANGED <<disk, pc, journal, cp_queue, ending, sb_write, todo, ghost>>

\* jbd_trans_finish_callback on abort: the content comes back from the log.
Restored(b) == IF Pending(b) = {} THEN None ELSE log[cp_queue[Newest(b)].lba[b]].val

\* ext4_trans_abort: jbd_journal_free_trans(abort), which discards what the
\* transaction has done to its buffers.
Abort ==
    /\ pc = "run" /\ Quiet
    /\ \A b \in trans.revoke \ trans.bufs : Pending(b) # {} => "rollback" \in Triggers
    /\ \A b \in trans.bufs : LoggedOnly(b) => "forgotten" \in Triggers
    /\ buf' = [b \in Blocks |-> IF b \in trans.bufs THEN Restored(b) ELSE buf[b]]
    /\ rec' = [b \in Blocks |-> IF b \in trans.bufs THEN NewestId(b) ELSE rec[b]]
    /\ trans' = NoTrans
    /\ use' = saved
    /\ pc' = "idle"
    /\ UNCHANGED <<disk, journal, cp_queue, ending, sb_write, todo, ghost>>

-----------------------------------------------------------------------------
(* ext4_trans_stop: jbd_journal_commit_trans.                              *)

\* jbd_journal_alloc_block finds room without writing anything home.
Room == Ring(journal.last, 1) # journal.start
Allocated == [journal EXCEPT !.last = Ring(@, 1)]

\* jbd_journal_prepare drops the buffers that have been invalidated; older
\* contents of these blocks become the newest again.  Nothing may be left.
CommitBegin ==
    /\ pc = "run" /\ Quiet
    /\ LET dropped == {b \in trans.bufs : buf[b] = None}
       IN  /\ rec' = [b \in Blocks |-> IF b \in dropped THEN NewestId(b) ELSE rec[b]]
           /\ IF trans.bufs \ dropped = {}
                THEN trans' = NoTrans /\ pc' = "idle"
                ELSE trans' = [trans EXCEPT !.bufs = @ \ dropped] /\ pc' = "alloc"
    /\ UNCHANGED <<disk, journal, cp_queue, ending, sb_write, buf, todo, use, ghost>>

\* The block for the descriptor, which is written last ...
AllocDescriptor ==
    /\ pc = "alloc" /\ Quiet /\ Room
    /\ trans' = [trans EXCEPT !.start = journal.last, !.len = 1]
    /\ journal' = Allocated
    /\ pc' = "data"
    /\ UNCHANGED <<disk, cp_queue, rec, ending, sb_write, buf, todo, use, ghost>>

Unlogged == {b \in trans.bufs : trans.lba[b] = 0}

\* ... after the contents of the buffers, ...
LogData(b) ==
    /\ pc = "data" /\ Quiet /\ Room /\ b \in Unlogged
    /\ log' = [log EXCEPT ![journal.last] = Data(buf[b])]
    /\ trans' = [trans EXCEPT !.lba[b] = journal.last, !.len = @ + 1]
    /\ journal' = Allocated
    /\ UNCHANGED <<home, jsb, recover, pc, cp_queue, rec, ending, sb_write, buf, todo, use, ghost>>

LogDescriptor ==
    /\ pc = "data" /\ Quiet /\ Unlogged = {}
    /\ log' = [log EXCEPT ![trans.start] = Descriptor(trans.id, trans.lba)]
    /\ pc' = IF trans.revoke = {} THEN "commit" ELSE "revoke"
    /\ UNCHANGED <<home, jsb, recover, session, trans, buf, todo, use, ghost>>

\* ... jbd_journal_prepare_revoke ...
LogRevoke ==
    /\ pc = "revoke" /\ Quiet /\ Room
    /\ log' = [log EXCEPT ![journal.last] = Revoke(trans.id, trans.revoke)]
    /\ trans' = [trans EXCEPT !.len = @ + 1]
    /\ journal' = Allocated
    /\ pc' = "commit"
    /\ UNCHANGED <<home, jsb, recover, cp_queue, rec, ending, sb_write, buf, todo, use, ghost>>

\* ... and jbd_trans_write_commit_block, with which all of it is durable.
LogCommit ==
    /\ pc = "commit" /\ Quiet /\ Room
    /\ log' = [log EXCEPT ![journal.last] = Commit(trans.id)]
    /\ trans' = [trans EXCEPT !.len = @ + 1]
    /\ journal' = [Allocated EXCEPT !.alloc_trans_id = @ + 1]
    /\ saved' = use
    /\ pc' = "revoked"
    /\ UNCHANGED <<home, jsb, recover, cp_queue, rec, ending, sb_write, buf, todo, use, txn, since>>

-----------------------------------------------------------------------------
(* The checkpoint: jbd_trans_end_write for the jbd_buf of b in the         *)
(* transaction with this id, called with the buffer or without.            *)

Without(t, b) == [t EXCEPT !.bufs = @ \ {b}]

\* If the block record belongs to the transaction, older contents of the block
\* need not be written any more; this may complete the head of the queue.
EndWrite(id, b) ==
    LET older == IF rec[b] = id THEN {i \in Pending(b) : cp_queue[i].id # id} ELSE {}
        queue == [i \in DOMAIN cp_queue |-> IF i \in older THEN Without(cp_queue[i], b)
                                            ELSE cp_queue[i]]
    IN  /\ cp_queue' = queue
        /\ sb_write' = IF 1 \in older /\ queue[1].bufs = {} THEN "purge" ELSE "no"
        /\ ending' = [id |-> id, block |-> b, first |-> cp_queue # <<>> /\ cp_queue[1].id = id]

\* The transaction's own jbd_buf is done.  If it was the first in the queue
\* when it was called, and is complete, the start of the log moves.
EndWritten(queue) == ending.first /\ queue[1].bufs = {}

EndWriteOwn ==
    /\ sb_write = "no" /\ ending # NotEnding
    /\ LET queue == [i \in DOMAIN cp_queue |->
                        IF cp_queue[i].id = ending.id THEN Without(cp_queue[i], ending.block)
                        ELSE cp_queue[i]]
       IN  /\ cp_queue' = queue
           /\ sb_write' = IF EndWritten(queue) THEN "purge" ELSE "no"
    /\ ending' = NotEnding
    /\ UNCHANGED <<disk, pc, journal, rec, trans, buf, todo, use, ghost>>

\* The log begins after the head of the queue, which jbd_journal_free_trans
\* frees with the block records it has.
DropHead ==
    /\ journal' = [journal EXCEPT !.start = Ring(cp_queue[1].start, cp_queue[1].len),
                                  !.trans_id = cp_queue[1].id + 1]
    /\ cp_queue' = Tail(cp_queue)
    /\ rec' = [b \in Blocks |-> IF rec[b] = cp_queue[1].id THEN 0 ELSE rec[b]]

Bug_HeadWritten == cp_queue # <<>>

HeadWritten == cp_queue # <<>> /\ cp_queue[1].bufs = {}

\* jbd_journal_purge_cp_trans(false, false): up to the first one that is not home ...
Purge ==
    /\ sb_write = "purge" /\ HeadWritten
    /\ DropHead
    /\ UNCHANGED <<disk, pc, ending, sb_write, trans, buf, todo, use, ghost>>

\* ... where the log now starts.
Purged ==
    /\ sb_write = "purge" /\ ~HeadWritten
    /\ journal' = IF cp_queue = <<>> THEN journal
                  ELSE [journal EXCEPT !.start = cp_queue[1].start, !.trans_id = cp_queue[1].id]
    /\ sb_write' = "write"
    /\ UNCHANGED <<disk, pc, cp_queue, rec, ending, trans, buf, todo, use, ghost>>

\* jbd_journal_write_sb and jbd_write_sb
WriteSb ==
    /\ sb_write = "write"
    /\ jsb' = [start |-> journal.start, sequence |-> journal.trans_id]
    /\ sb_write' = "no"
    /\ UNCHANGED <<home, log, recover, pc, journal, cp_queue, rec, ending, trans, buf,
                   todo, use, ghost>>

\* The write of b completes the head, and with it the transaction b belongs to.
Late(b) == /\ Pending(b) # {} /\ rec[b] # cp_queue[1].id
           /\ \A i \in DOMAIN cp_queue :
                cp_queue[i].id <= rec[b] => cp_queue[i].bufs \subseteq {b}

Bug_Flush(b) ==
    /\ pc \in {"off", "idle", "run", "alloc", "data", "revoke", "commit"} /\ Quiet
    /\ ~Referenced(b)
    /\ home' = [home EXCEPT ![b] = buf[b]]
    /\ buf' = [buf EXCEPT ![b] = None]
    /\ IF rec[b] = 0 THEN UNCHANGED <<cp_queue, sb_write, ending>> ELSE EndWrite(rec[b], b)
    /\ UNCHANGED <<log, jsb, recover, pc, journal, rec, trans, todo, use, ghost>>

\* ext4_block_flush_buf, of a buffer the cache may flush: at the end of a
\* commit, when write-back is disabled or the cache is flushed, and when any
\* block is got while the cache is full.
Flush(b) ==
    /\ pc \in {"off", "idle", "run", "alloc", "data", "revoke", "commit"} /\ Quiet
    /\ buf[b] # None /\ ~Referenced(b)
    /\ Late(b) => "late" \in Triggers
    /\ home' = [home EXCEPT ![b] = buf[b]]
    /\ buf' = [buf EXCEPT ![b] = None]
    /\ IF rec[b] = 0 THEN UNCHANGED <<cp_queue, sb_write, ending>> ELSE EndWrite(rec[b], b)
    /\ UNCHANGED <<log, jsb, recover, pc, journal, rec, trans, todo, use, ghost>>

\* A block is to be allocated in the log, or the session to be ended.
Cramped == \/ pc = "stopping"
           \/ ~Room /\ (pc \in {"alloc", "revoke", "commit"} \/ (pc = "data" /\ Unlogged # {}))

Bug_FlushHead(b) ==
    /\ rec[b] = cp_queue[1].id
    /\ home' = [home EXCEPT ![b] = buf[b]]
    /\ buf' = [buf EXCEPT ![b] = None]
    /\ EndWrite(cp_queue[1].id, b)
    /\ UNCHANGED <<journal, rec>>

\* jbd_journal_flush_trans, one buffer of it: what the cache has, if the block
\* record is the transaction's, else what the log has.
FlushHead(b) ==
    LET t == cp_queue[1]
        mine == buf[b] # None /\ rec[b] = t.id
    IN  /\ home' = [home EXCEPT ![b] = IF mine THEN buf[b] ELSE log[t.lba[b]].val]
        /\ buf' = IF mine THEN [buf EXCEPT ![b] = None] ELSE buf
        /\ EndWrite(t.id, b)
        /\ UNCHANGED <<journal, rec>>

\* jbd_journal_purge_cp_trans(true, .), which only notes a head that is home.
MakeRoom ==
    /\ Cramped /\ Quiet /\ cp_queue # <<>>
    /\ IF HeadWritten THEN DropHead /\ UNCHANGED <<home, buf, ending, sb_write>>
                      ELSE \E b \in cp_queue[1].bufs : FlushHead(b)
    /\ UNCHANGED <<log, jsb, recover, pc, trans, todo, use, ghost>>

\* After the commit block the contents it revokes need not be written any more.
CompleteRevoked(b) ==
    /\ pc = "revoked" /\ Quiet
    /\ b \in trans.revoke /\ Pending(b) # {}
    /\ EndWrite(NewestId(b), b)
    /\ UNCHANGED <<disk, pc, journal, rec, trans, buf, todo, use, ghost>>

Bug_Enqueue ==
    /\ pc = "revoked" /\ Quiet
    /\ \A b \in trans.revoke : Pending(b) = {}
    /\ cp_queue' = Append(cp_queue, [trans EXCEPT !.revoke = {}])
    /\ journal' = IF cp_queue = <<>>
                    THEN [journal EXCEPT !.start = trans.start, !.trans_id = trans.id,
                                         !.last = trans.start]
                    ELSE [journal EXCEPT !.last = trans.start]
    /\ sb_write' = IF cp_queue = <<>> THEN "write" ELSE sb_write
    /\ trans' = NoTrans
    /\ pc' = "idle"
    /\ UNCHANGED <<disk, rec, ending, buf, todo, use, ghost>>

\* The transaction joins the checkpoint queue, the log starts with it if it is
\* alone, and its buffers are released (jbd_journal_cp_trans).
Enqueue ==
    /\ pc = "revoked" /\ Quiet
    /\ \A b \in trans.revoke : Pending(b) = {}
    /\ cp_queue' = Append(cp_queue, [trans EXCEPT !.revoke = {}])
    /\ IF cp_queue = <<>>
         THEN /\ journal' = [journal EXCEPT !.start = trans.start, !.trans_id = trans.id]
              /\ sb_write' = "write"
         ELSE UNCHANGED <<journal, sb_write>>
    /\ trans' = NoTrans
    /\ pc' = "idle"
    /\ UNCHANGED <<disk, rec, ending, buf, todo, use, ghost>>

-----------------------------------------------------------------------------
(* Power failure, and recovery: ext4_recover, jbd_recover.                 *)

Crash ==
    /\ pc # "off" \/ \E b \in Blocks : buf[b] # None
    /\ pc' = "off"
    /\ journal' = [start |-> 0, last |-> 0, trans_id |-> 0, alloc_trans_id |-> 0]
    /\ cp_queue' = <<>> /\ trans' = NoTrans
    /\ rec' = [b \in Blocks |-> 0] /\ buf' = [b \in Blocks |-> None]
    /\ ending' = NotEnding /\ sb_write' = "no" /\ todo' = {}
    /\ use' = saved
    /\ UNCHANGED <<disk, ghost>>

\* The scan and the revoke pass only read; they find what is to be replayed.
Recover ==
    /\ pc = "off" /\ jsb.start # 0
    /\ todo' = LET found == Found(log, jsb)
               IN  {r \in (DOMAIN found) \X Blocks : r[1] \in Replays(found, r[2])}
    /\ pc' = "replay"
    /\ UNCHANGED <<disk, session, trans, buf, use, ghost>>

\* jbd_replay_block_tags, in the order of the log
Replay(r) ==
    /\ pc = "replay" /\ r \in todo /\ \A s \in todo : r[1] <= s[1]
    /\ LET v == log[Found(log, jsb)[r[1]].lba[r[2]]].val
       IN  IF "delayed" \in Triggers
             THEN buf' = [buf EXCEPT ![r[2]] = v] /\ UNCHANGED home
             ELSE home' = [home EXCEPT ![r[2]] = v] /\ UNCHANGED buf
    /\ todo' = todo \ {r}
    /\ UNCHANGED <<log, jsb, recover, pc, session, trans, use, ghost>>

RecoverFlag ==
    /\ pc = "replay" /\ todo = {}
    /\ recover' = FALSE
    /\ pc' = "put"
    /\ UNCHANGED <<home, log, jsb, session, trans, buf, todo, use, ghost>>

\* jbd_put_fs writes the journal superblock.
RecoverPut ==
    /\ pc = "put"
    /\ jsb' = [start |-> 0, sequence |-> LastTransId(log, jsb)]
    /\ pc' = "off"
    /\ UNCHANGED <<home, log, recover, session, trans, buf, todo, use, ghost>>

-----------------------------------------------------------------------------
SessionStep == StartFlag \/ StartSb \/ Stop \/ StopFlag \/ StopSb
CallerStep == Begin \/ Abort \/ CommitBegin
              \/ \E b \in Blocks : Dirty(b) \/ WriteData(b) \/ Free(b)
CommitStep == AllocDescriptor \/ LogDescriptor \/ LogRevoke \/ LogCommit \/ Enqueue
              \/ \E b \in Blocks : LogData(b) \/ CompleteRevoked(b)
CheckpointStep == EndWriteOwn \/ Purge \/ Purged \/ WriteSb \/ MakeRoom
RecoverStep == (\E r \in todo : Replay(r)) \/ RecoverFlag \/ RecoverPut

Next == \/ SessionStep
        \/ CallerStep
        \/ CommitStep
        \/ CheckpointStep
        \/ \E b \in Blocks : Flush(b)
        \/ Crash
        \/ Recover
        \/ RecoverStep

\* A call of the library goes on until it returns; nothing else is fair.
Fairness == WF_vars(StartSb \/ StopFlag \/ StopSb \/ CommitStep \/ CheckpointStep \/ RecoverStep)

Spec == Init /\ [][Next]_vars /\ Fairness

-----------------------------------------------------------------------------
(* Properties.                                                             *)

\* Types of the variables.
TypeOK ==
    /\ home \in [Blocks -> Nat] /\ log \in [Positions -> Records]
    /\ jsb \in [start : 0..LogSize, sequence : Nat] /\ recover \in BOOLEAN
    /\ pc \in PCs
    /\ journal \in [start : 0..LogSize, last : 0..LogSize, trans_id : Nat, alloc_trans_id : Nat]
    /\ cp_queue \in Seq(Transactions) /\ trans \in Transactions
    /\ rec \in [Blocks -> Nat] /\ buf \in [Blocks -> Nat \cup {None}]
    /\ ending \in [id : Nat, block : Blocks, first : BOOLEAN]
    /\ sb_write \in {"no", "purge", "write"}
    /\ todo \subseteq (Nat \X Blocks)
    /\ use \in [Blocks -> Uses] /\ saved \in [Blocks -> Uses]
    /\ txn \in Nat /\ since \in Nat

\* What a transaction on the checkpoint queue has yet to write home is still in
\* the log, where flushing the transaction and rolling back a later one read
\* it: the log is never reused too early (jbd_journal_alloc_block).
JournalCopyIntact ==
    \A i \in DOMAIN cp_queue : \A b \in cp_queue[i].bufs :
        log[cp_queue[i].lba[b]] = Data(cp_queue[i].n)

\* A dirty buffer nobody holds has the newest content that is committed, and its
\* write is one the checkpoint waits for: "If the content reach the disk, notify
\* us so that we may do a checkpoint" (jbd_trans_set_block_dirty).
FlushIsNoticed ==
    pc \in Active /\ Quiet =>
        \A b \in Blocks \ trans.bufs : buf[b] # None =>
            /\ Pending(b) # {} /\ rec[b] = NewestId(b)
            /\ buf[b] = cp_queue[Newest(b)].n

\* A file system that is not marked for recovery needs none: jbd_journal_start,
\* jbd_journal_stop and jbd_recover change the mark and the log in two writes.
\* The exception is a recovery that was interrupted between its two writes and
\* is repeated: it replays the log of a file system that is no longer marked.
Unneeded == \/ recover
            \/ Recovered(home, log, jsb, InUse(saved)) = [b \in InUse(saved) |-> home[b]]
MarkedForRecovery == [][Unneeded => Unneeded' \/ pc = "replay"]_vars

\* Recovery finds records of this session only: "To invalidate any stale records
\* we need to start from the checkpoint transaction ID of the previous
\* journalling session plus 1" (jbd_journal_start).
NoStaleRecords ==
    jsb.start # 0 =>
        \A i \in DOMAIN Found(log, jsb) :
            LET lba == Found(log, jsb)[i].lba
            IN  \A b \in Tagged(lba) : log[lba[b]].val >= since

\* What the blocks in use hold after a power failure and recovery, and what the
\* callers read: only whole transactions, none undone once it is committed, and
\* no file data overwritten by the replay of a block that has been freed.
Durable == Recovered(home, log, jsb, InUse(saved))
Visible == IF pc \in Active THEN [b \in InUse(use) |-> View(b)] ELSE Durable
Open == pc \in {"run", "alloc", "data", "revoke", "commit"}
Store == INSTANCE AtomicStore WITH store <- Durable, work <- Visible, open <- Open
AtomicUpdates == Store!Spec

\* Every call returns: a commit that lacks room in the log gets it, stopping and
\* recovery come to an end.
CallsReturn == pc \notin {"off", "idle", "run"} ~> pc \in {"off", "idle", "run"}
=============================================================================
