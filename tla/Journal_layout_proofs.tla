------------------------ MODULE Journal_layout_proofs ------------------------
(***************************************************************************)
(* What the log holds in every state of the journal, and so what recovery  *)
(* would find in it, also after a power failure between any two writes:    *)
(* a row H of whole transactions from the start in the superblock on, the  *)
(* last of which are the checkpoint queue.  The types of the variables     *)
(* (TypeOK) and NoStaleRecords follow.                                     *)
(*                                                                         *)
(* H is not a variable of Journal: the invariant says that there is one.   *)
(* It supposes that no session is restarted after a clean stop, that       *)
(* recovery comes before one is started and runs without write-back, and   *)
(* that no write completes two transactions (which the flush order of the  *)
(* cache decides), for otherwise records of an earlier session are found   *)
(* or the superblock is not moved.                                         *)
(***************************************************************************)
EXTENDS Journal_found_proofs

\* None of the situations comes up that the start of the log does not survive.
Mild == \A x \in {"restart", "unrecovered", "delayed", "late"} : x \notin Triggers

-----------------------------------------------------------------------------
(* The checkpoint: the head of the queue has something to write, or its    *)
(* removal is under way.                                                   *)

HeadOpen == sb_write # "purge" /\ cp_queue # <<>> => cp_queue[1].bufs # {}

\* The jbd_trans_end_write in progress is for the head and will see it complete,
\* or leaves something to write at or before the transaction it is for.
EndsLater ==
    ending # NotEnding =>
        IF ending.first THEN cp_queue # <<>> /\ cp_queue[1].id = ending.id /\ sb_write = "no"
        ELSE \E i \in 1..Len(cp_queue) :
                cp_queue[i].id <= ending.id /\ ~(cp_queue[i].bufs \subseteq {ending.block})

\* A block that is freed has at most one transaction that has yet to write it.
RevokeOne == \A b \in trans.revoke : \A i, j \in Pending(b) : i = j

\* A transaction that is committed has dirtied something.
SomeBufs == pc = "alloc" \/ Building => trans.bufs # {}

CInv == /\ HeadOpen /\ EndsLater /\ RevokeOne /\ SomeBufs
        /\ sb_write \in {"no", "purge", "write"}

\* Thinning the queue keeps the ids and leaves less to be written.
LEMMA ThinnedPending ==
    ASSUME cp_queue \in Seq(Transactions), ThinnedQueue(cp_queue, cp_queue')
    PROVE  /\ cp_queue' \in Seq(Transactions) /\ Len(cp_queue') = Len(cp_queue)
           /\ \A b : Pending(b)' \subseteq Pending(b)
           /\ \A i \in 1..Len(cp_queue) :
                /\ cp_queue[i] \in Transactions /\ cp_queue'[i] \in Transactions
                /\ cp_queue'[i].id = cp_queue[i].id /\ cp_queue'[i].n = cp_queue[i].n
                /\ cp_queue'[i].start = cp_queue[i].start /\ cp_queue'[i].len = cp_queue[i].len
                /\ cp_queue'[i].lba = cp_queue[i].lba
                /\ cp_queue'[i].bufs \subseteq cp_queue[i].bufs
           /\ DOMAIN cp_queue = 1..Len(cp_queue) /\ DOMAIN cp_queue' = 1..Len(cp_queue)
           /\ cp_queue # <<>> => 1 \in 1..Len(cp_queue)
           /\ cp_queue' # <<>> <=> cp_queue # <<>>
<1>1. cp_queue' \in Seq(Transactions) /\ Len(cp_queue') = Len(cp_queue)
  BY DEF ThinnedQueue
<1>2. /\ DOMAIN cp_queue = 1..Len(cp_queue) /\ DOMAIN cp_queue' = 1..Len(cp_queue)
      /\ Len(cp_queue) \in Nat
  BY <1>1, LenProperties
<1>3. \A i \in 1..Len(cp_queue) :
        /\ cp_queue[i] \in Transactions /\ cp_queue'[i] \in Transactions
        /\ cp_queue'[i].id = cp_queue[i].id /\ cp_queue'[i].n = cp_queue[i].n
        /\ cp_queue'[i].start = cp_queue[i].start /\ cp_queue'[i].len = cp_queue[i].len
        /\ cp_queue'[i].lba = cp_queue[i].lba
        /\ cp_queue'[i].bufs \subseteq cp_queue[i].bufs
  BY ElementOfSeq, ThinnedTrans DEF ThinnedQueue
<1>4. \A b : Pending(b)' \subseteq Pending(b)
  BY <1>2, <1>3 DEF Pending
<1>5. /\ cp_queue # <<>> => 1 \in 1..Len(cp_queue)
      /\ cp_queue' # <<>> <=> cp_queue # <<>>
  BY <1>1, <1>2, EmptySeq
<1> QED BY <1>1, <1>2, <1>3, <1>4, <1>5

\* The queue, and with it the revoked blocks, stay as they are or get less.
LEMMA RevokeKept ==
    ASSUME RevokeOne, \A b : Pending(b)' \subseteq Pending(b), trans'.revoke \subseteq trans.revoke
    PROVE  RevokeOne'
BY DEF RevokeOne

LEMMA RevokeThinned ==
    ASSUME cp_queue \in Seq(Transactions), RevokeOne, ThinnedQueue(cp_queue, cp_queue'),
           trans'.revoke = trans.revoke
    PROVE  RevokeOne'
<1>1. \A b : Pending(b)' \subseteq Pending(b)
  BY ThinnedPending
<1> QED BY <1>1, RevokeKept

\* jbd_trans_end_write completes the head only if it then moves the start.
LEMMA EndWriteChecks ==
    ASSUME IInv, CInv, Quiet, NEW id \in Nat, NEW b \in Blocks, EndWrite(id, b),
           \/ cp_queue # <<>> /\ cp_queue[1].id = id
           \/ \E i \in 1..Len(cp_queue) :
                cp_queue[i].id <= id /\ ~(cp_queue[i].bufs \subseteq {b})
    PROVE  HeadOpen' /\ EndsLater' /\ sb_write' \in {"no", "purge", "write"}
<1> DEFINE older == IF rec[b] = id THEN {i \in Pending(b) : cp_queue[i].id # id} ELSE {}
           queue == [i \in DOMAIN cp_queue |-> IF i \in older THEN Without(cp_queue[i], b)
                                               ELSE cp_queue[i]]
<1>1. /\ cp_queue' = queue
      /\ sb_write' = IF 1 \in older /\ queue[1].bufs = {} THEN "purge" ELSE "no"
      /\ ending' = [id |-> id, block |-> b, first |-> cp_queue # <<>> /\ cp_queue[1].id = id]
  BY DEF EndWrite
<1>2. /\ cp_queue \in Seq(Transactions) /\ ThinnedQueue(cp_queue, cp_queue')
  BY EndWriteThins DEF IInv, Typed
<1>3. /\ Len(cp_queue') = Len(cp_queue) /\ DOMAIN cp_queue = 1..Len(cp_queue)
      /\ \A i \in 1..Len(cp_queue) : /\ cp_queue[i] \in Transactions
                                     /\ cp_queue'[i].id = cp_queue[i].id
      /\ cp_queue # <<>> => 1 \in 1..Len(cp_queue)
      /\ cp_queue' # <<>> <=> cp_queue # <<>>
  BY <1>2, ThinnedPending
<1>4. sb_write' \in {"no", "purge", "write"}
  BY <1>1
<1>5. HeadOpen'
  <2> SUFFICES ASSUME sb_write' # "purge", cp_queue # <<>> PROVE cp_queue'[1].bufs # {}
    BY <1>3 DEF HeadOpen
  <2>1. cp_queue[1].bufs # {}
    BY DEF CInv, HeadOpen, Quiet
  <2>2. CASE 1 \in older
    <3> HIDE DEF queue, older
    <3> QED BY <1>1, <2>2
  <2>3. CASE 1 \notin older
    BY <1>1, <1>3, <2>1, <2>3
  <2> QED BY <2>2, <2>3
<1>6. EndsLater'
  <2>1. ending'.id = id /\ ending'.block = b
        /\ ending'.first = (cp_queue # <<>> /\ cp_queue[1].id = id)
    BY <1>1
  <2>2. CASE cp_queue # <<>> /\ cp_queue[1].id = id
    <3>1. 1 \notin older
      BY <2>2
    <3>2. sb_write' = "no" /\ cp_queue' # <<>> /\ cp_queue'[1].id = id
      BY <1>1, <1>3, <2>2, <3>1
    <3> QED BY <2>1, <2>2, <3>2 DEF EndsLater
  <2>3. CASE ~(cp_queue # <<>> /\ cp_queue[1].id = id)
    <3>1. PICK i \in 1..Len(cp_queue) : cp_queue[i].id <= id /\ ~(cp_queue[i].bufs \subseteq {b})
      BY <2>3
    <3>2. cp_queue'[i] = cp_queue[i] \/ cp_queue'[i] = Without(cp_queue[i], b)
      BY <1>1, <1>3
    <3>3. ~(cp_queue'[i].bufs \subseteq {b})
      <4>1. Without(cp_queue[i], b).bufs = cp_queue[i].bufs \ {b}
        BY <1>3 DEF Without, Transactions
      <4> QED BY <3>1, <3>2, <4>1
    <3>4. cp_queue'[i].id <= id
      BY <1>3, <3>1
    <3>5. ~ending'.first
      BY <2>1, <2>3
    <3> HIDE DEF queue, older
    <3> QED BY <1>3, <2>1, <3>3, <3>4, <3>5 DEF EndsLater
  <2> QED BY <2>2, <2>3
<1> QED BY <1>4, <1>5, <1>6

\* The own jbd_buf of the transaction is done.
LEMMA EndWriteOwnChecks ==
    ASSUME IInv, NInv, CInv, EndWriteOwn
    PROVE  CInv'
<1> DEFINE e == ending
           queue == [i \in DOMAIN cp_queue |->
                       IF cp_queue[i].id = e.id THEN Without(cp_queue[i], e.block)
                       ELSE cp_queue[i]]
<1>1. /\ cp_queue' = queue /\ ending' = NotEnding /\ e # NotEnding /\ sb_write = "no"
      /\ sb_write' = IF EndWritten(queue) THEN "purge" ELSE "no"
      /\ UNCHANGED <<trans, pc>>
  BY DEF EndWriteOwn
<1>2. cp_queue \in Seq(Transactions) /\ Len(cp_queue) \in Nat
  BY LenProperties DEF IInv, Typed
<1>3. ThinnedQueue(cp_queue, cp_queue')
  <2>1. \A i \in DOMAIN cp_queue : Thinned(cp_queue[i], queue[i])
    BY DEF Thinned
  <2>2. queue = [i \in DOMAIN cp_queue |-> queue[i]]
    OBVIOUS
  <2>3. cp_queue' = queue
    BY <1>1
  <2> HIDE DEF queue
  <2> QED BY <1>2, <2>1, <2>2, <2>3, ThinnedMap
<1>4. /\ DOMAIN cp_queue = 1..Len(cp_queue)
      /\ \A i \in 1..Len(cp_queue) : cp_queue[i] \in Transactions
      /\ cp_queue # <<>> => 1 \in 1..Len(cp_queue)
      /\ cp_queue' # <<>> <=> cp_queue # <<>>
  BY <1>2, <1>3, ThinnedPending
<1>5. RevokeOne' /\ SomeBufs' /\ EndsLater' /\ sb_write' \in {"no", "purge", "write"}
  <2> HIDE DEF queue
  <2>1. RevokeOne'
    BY <1>1, <1>2, <1>3, RevokeThinned DEF CInv
  <2> QED BY <1>1, <2>1 DEF CInv, SomeBufs, EndsLater, Building
<1>6. HeadOpen'
  <2> SUFFICES ASSUME sb_write' # "purge", cp_queue # <<>> PROVE queue[1].bufs # {}
    BY <1>1, <1>4 DEF HeadOpen
  <2>1. 1 \in 1..Len(cp_queue) /\ cp_queue[1].bufs # {} /\ cp_queue[1] \in Transactions
    BY <1>1, <1>4 DEF CInv, HeadOpen
  <2>2. CASE e.first
    <3>1. ~EndWritten(queue)
      <4> HIDE DEF queue
      <4> QED BY <1>1
    <3> HIDE DEF queue
    <3> QED BY <2>2, <3>1 DEF EndWritten
  <2>3. CASE cp_queue[1].id # e.id
    BY <1>4, <2>1, <2>3
  <2>4. CASE ~e.first /\ cp_queue[1].id = e.id
    <3>1. PICK i \in 1..Len(cp_queue) :
            cp_queue[i].id <= e.id /\ ~(cp_queue[i].bufs \subseteq {e.block})
      BY <1>1, <2>4 DEF CInv, EndsLater
    <3>2. i = 1
      <4> SUFFICES ASSUME i # 1 PROVE FALSE
        OBVIOUS
      <4>1. cp_queue[1].id < cp_queue[i].id
        BY <1>2, <2>1 DEF NInv, IdsOrdered
      <4>2. cp_queue[1].id \in Nat /\ cp_queue[i].id \in Nat
        BY <1>4, <2>1, TransNat
      <4> QED BY <2>4, <3>1, <4>1, <4>2
    <3>3. queue[1] = Without(cp_queue[1], e.block)
      BY <1>4, <2>1, <2>4
    <3>4. Without(cp_queue[1], e.block).bufs = cp_queue[1].bufs \ {e.block}
      BY <2>1 DEF Without, Transactions
    <3> QED BY <3>1, <3>2, <3>3, <3>4
  <2> QED BY <2>2, <2>3, <2>4
<1> QED BY <1>5, <1>6 DEF CInv

LEMMA PurgeChecks ==
    ASSUME IInv, CInv, Purge
    PROVE  CInv'
<1>1. /\ cp_queue \in Seq(Transactions) /\ cp_queue # <<>> /\ cp_queue[1].bufs = {}
      /\ UNCHANGED <<trans, pc, ending, sb_write>> /\ sb_write = "purge"
  BY DEF IInv, Typed, Purge, HeadWritten
<1>2. DOMAIN cp_queue = 1..Len(cp_queue) /\ Len(cp_queue) \in Nat /\ Len(cp_queue) > 0
  BY <1>1, EmptySeq, LenProperties
<1>3. /\ Len(cp_queue') = Len(cp_queue) - 1 /\ cp_queue' \in Seq(Transactions)
      /\ \A i \in 1..Len(cp_queue') : cp_queue'[i] = cp_queue[i + 1]
  BY <1>1, HeadTailProperties DEF Purge, DropHead
<1>4. DOMAIN cp_queue' = 1..Len(cp_queue')
  BY <1>3, LenProperties
<1>5. HeadOpen' /\ SomeBufs'
  BY <1>1 DEF HeadOpen, CInv, SomeBufs, Building
<1>6. EndsLater'
  <2> SUFFICES ASSUME ending # NotEnding
               PROVE  /\ ~ending.first
                      /\ \E i \in 1..Len(cp_queue') :
                           /\ cp_queue'[i].id <= ending.id
                           /\ ~(cp_queue'[i].bufs \subseteq {ending.block})
    BY <1>1 DEF EndsLater
  <2>1. /\ ~ending.first
        /\ \E i \in 1..Len(cp_queue) :
             cp_queue[i].id <= ending.id /\ ~(cp_queue[i].bufs \subseteq {ending.block})
    BY <1>1 DEF CInv, EndsLater
  <2>2. PICK i \in 1..Len(cp_queue) :
          cp_queue[i].id <= ending.id /\ ~(cp_queue[i].bufs \subseteq {ending.block})
    BY <2>1
  <2>3. i # 1
    BY <1>1, <2>2
  <2>4. i - 1 \in 1..Len(cp_queue') /\ cp_queue'[i - 1] = cp_queue[i]
    BY <1>2, <1>3, <2>3
  <2> QED BY <2>1, <2>2, <2>4
<1>7. RevokeOne'
  <2> SUFFICES ASSUME NEW b \in trans.revoke, NEW i \in Pending(b)', NEW j \in Pending(b)'
               PROVE  i = j
    BY <1>1 DEF RevokeOne
  <2>1. \A k \in Pending(b)' : k \in Nat /\ k + 1 \in Pending(b)
    BY <1>2, <1>3, <1>4 DEF Pending
  <2>2. i + 1 = j + 1 /\ i \in Nat /\ j \in Nat
    BY <2>1 DEF CInv, RevokeOne
  <2> QED BY <2>2
<1> QED BY <1>1, <1>5, <1>6, <1>7 DEF CInv

LEMMA CheckpointsCheck ==
    ASSUME IInv, NInv, CInv, CheckpointStep
    PROVE  CInv'
<1>1. cp_queue \in Seq(Transactions)
  BY DEF IInv, Typed
<1>2. CASE Purged
  <2>1. /\ UNCHANGED <<cp_queue, ending, trans, pc>> /\ sb_write = "purge" /\ sb_write' = "write"
        /\ cp_queue # <<>> => cp_queue[1].bufs # {}
    BY <1>2 DEF Purged, HeadWritten
  <2>2. HeadOpen' /\ EndsLater' /\ SomeBufs'
    BY <2>1 DEF CInv, HeadOpen, EndsLater, SomeBufs, Building
  <2>3. RevokeOne'
    BY <2>1 DEF CInv, RevokeOne, Pending
  <2> QED BY <2>1, <2>2, <2>3 DEF CInv
<1>3. CASE WriteSb
  <2>1. UNCHANGED <<cp_queue, ending, trans, pc>> /\ sb_write = "write" /\ sb_write' = "no"
    BY <1>3 DEF WriteSb
  <2>2. HeadOpen' /\ EndsLater' /\ SomeBufs'
    BY <2>1 DEF CInv, HeadOpen, EndsLater, SomeBufs, Building
  <2>3. RevokeOne'
    BY <2>1 DEF CInv, RevokeOne, Pending
  <2> QED BY <2>1, <2>2, <2>3 DEF CInv
<1>4. CASE MakeRoom
  <2>1. UNCHANGED <<pc, trans>> /\ cp_queue # <<>> /\ Quiet
    BY <1>4 DEF MakeRoom
  <2>2. ~HeadWritten
    BY <2>1 DEF CInv, HeadOpen, HeadWritten, Quiet
  <2>3. PICK b \in cp_queue[1].bufs : FlushHead(b)
    BY <1>4, <2>2 DEF MakeRoom
  <2>4. b \in Blocks /\ cp_queue[1].id \in Nat
    <3>1. 1 \in 1..Len(cp_queue)
      BY <1>1, <2>1, EmptySeq, LenProperties
    <3>2. cp_queue[1] \in Transactions
      BY <1>1, <3>1, ElementOfSeq
    <3> QED BY <2>3, <3>2, TransNat DEF Transactions
  <2>5. EndWrite(cp_queue[1].id, b)
    BY <2>3 DEF FlushHead
  <2>6. HeadOpen' /\ EndsLater' /\ sb_write' \in {"no", "purge", "write"}
    BY <2>1, <2>4, <2>5, EndWriteChecks
  <2>7. RevokeOne'
    BY <1>1, <2>1, <2>4, <2>5, EndWriteThins, RevokeThinned DEF CInv
  <2>8. SomeBufs'
    BY <2>1 DEF CInv, SomeBufs, Building
  <2> QED BY <2>6, <2>7, <2>8 DEF CInv
<1> QED BY <1>2, <1>3, <1>4, EndWriteOwnChecks, PurgeChecks DEF CheckpointStep

\* The write of a buffer does not complete two transactions, unless it is "late".
LEMMA FlushChecks ==
    ASSUME Mild, IInv, NInv, CInv, NEW b \in Blocks, Flush(b),
           rec \in [Blocks -> Nat]
    PROVE  CInv'
<1>1. /\ cp_queue \in Seq(Transactions) /\ UNCHANGED <<trans, pc>> /\ Quiet
      /\ buf[b] # None /\ b \notin trans.bufs /\ ~Late(b)
  BY DEF IInv, Typed, Flush, Referenced, Mild
<1>2. SomeBufs'
  BY <1>1 DEF CInv, SomeBufs, Building
<1>3. CASE rec[b] = 0
  <2>1. UNCHANGED <<cp_queue, sb_write, ending>>
    BY <1>3 DEF Flush
  <2>2. HeadOpen' /\ EndsLater'
    BY <2>1 DEF CInv, HeadOpen, EndsLater
  <2>3. RevokeOne'
    BY <1>1, <2>1 DEF CInv, RevokeOne, Pending
  <2> QED BY <1>2, <2>1, <2>2, <2>3 DEF CInv
<1>4. CASE rec[b] # 0
  <2>1. EndWrite(rec[b], b) /\ rec[b] \in Nat
    BY <1>4 DEF Flush
  <2>2. PICK i \in 1..Len(cp_queue) : IsNewest(b, i) /\ rec[b] = cp_queue[i].id
    BY <1>1 DEF NInv, Noticed
  <2>3. cp_queue # <<>> /\ Pending(b) # {}
    BY <2>2 DEF IsNewest, Pending
  <2>4. \/ cp_queue # <<>> /\ cp_queue[1].id = rec[b]
        \/ \E j \in 1..Len(cp_queue) :
             cp_queue[j].id <= rec[b] /\ ~(cp_queue[j].bufs \subseteq {b})
    <3>1. DOMAIN cp_queue = 1..Len(cp_queue)
      BY <1>1, LenProperties
    <3> QED BY <1>1, <2>3, <3>1 DEF Late
  <2>5. HeadOpen' /\ EndsLater' /\ sb_write' \in {"no", "purge", "write"}
    BY <1>1, <2>1, <2>4, EndWriteChecks
  <2>6. RevokeOne'
    BY <1>1, <2>1, EndWriteThins, RevokeThinned DEF CInv
  <2> QED BY <1>2, <2>5, <2>6 DEF CInv
<1> QED BY <1>3, <1>4

\* Neither the checkpoint nor what it waits for is concerned.
LEMMA NotChecked ==
    ASSUME CInv, UNCHANGED <<cp_queue, ending, sb_write>>, RevokeOne', SomeBufs'
    PROVE  CInv'
BY DEF CInv, HeadOpen, EndsLater

LEMMA SetDirtyChecks ==
    ASSUME trans \in Transactions, NEW S \in SUBSET Blocks, SetDirty(S), RevokeOne, cp_queue' = cp_queue
    PROVE  RevokeOne'
<1>1. trans'.revoke \subseteq trans.revoke
  BY DEF SetDirty, Transactions
<1> QED BY <1>1 DEF RevokeOne, Pending

LEMMA CallersCheck ==
    ASSUME Mild, IInv, NInv, CInv, CallerStep
    PROVE  CInv'
<1>1. /\ trans \in Transactions /\ Bitmap \in Blocks /\ cp_queue \in Seq(Transactions)
      /\ RevokeOne
  BY BitmapAssumption DEF IInv, Typed, CInv
<1>2. UNCHANGED <<cp_queue, ending, sb_write>>
  BY DEF CallerStep, Begin, Abort, CommitBegin, Dirty, WriteData, Free, session
<1>3. CASE Begin \/ Abort
  <2>1. trans'.revoke = {} /\ pc' \in {"run", "idle"}
    <3>1. CASE Begin
      BY <3>1 DEF Begin, NoTrans
    <3>2. CASE Abort
      BY <3>2 DEF Abort, NoTrans
    <3> QED BY <1>3, <3>1, <3>2
  <2> QED BY <1>2, <2>1, NotChecked DEF RevokeOne, SomeBufs, Building
<1>4. CASE CommitBegin
  <2> DEFINE dropped == {b \in trans.bufs : buf[b] = None}
  <2>1. \/ trans.bufs \ dropped = {} /\ trans' = NoTrans /\ pc' = "idle"
        \/ trans.bufs \ dropped # {} /\ trans' = [trans EXCEPT !.bufs = @ \ dropped] /\ pc' = "alloc"
    BY <1>4 DEF CommitBegin
  <2> HIDE DEF dropped
  <2>2. CASE trans' = NoTrans /\ pc' = "idle"
    BY <1>2, <2>2, NotChecked DEF RevokeOne, SomeBufs, Building, NoTrans
  <2>3. CASE trans.bufs \ dropped # {} /\ trans' = [trans EXCEPT !.bufs = @ \ dropped]
    <3>1. trans'.revoke = trans.revoke /\ trans'.bufs # {}
      BY <1>1, <2>3 DEF Transactions
    <3>2. RevokeOne' /\ SomeBufs'
      BY <1>1, <1>2, <3>1 DEF RevokeOne, SomeBufs, Pending
    <3> QED BY <1>2, <3>2, NotChecked
  <2> QED BY <2>1, <2>2, <2>3
<1>5. ASSUME NEW b \in Blocks, Dirty(b) \/ WriteData(b)
      PROVE  CInv'
  <2>1. PICK S \in SUBSET Blocks : SetDirty(S)
    BY <1>1, <1>5 DEF Dirty, WriteData
  <2>2. pc' = "run"
    BY <1>5 DEF Dirty, WriteData
  <2>3. RevokeOne' /\ SomeBufs'
    BY <1>1, <1>2, <2>1, <2>2, SetDirtyChecks DEF SomeBufs, Building
  <2> QED BY <1>2, <2>3, NotChecked
<1>6. ASSUME NEW b \in Blocks, Free(b)
      PROVE  CInv'
  <2>1. /\ trans' = [trans EXCEPT !.bufs = @ \cup {Bitmap},
                                  !.revoke = IF MustRevoke(b) THEN @ \cup {b} ELSE @]
        /\ pc' = "run" /\ ~(Cardinality(Pending(b)) > 1)
    BY <1>6 DEF Free, Mild
  <2>2. trans'.revoke \subseteq trans.revoke \cup {b}
    BY <1>1, <2>1 DEF Transactions
  <2>3. \A i, j \in Pending(b) : i = j
    <3> SUFFICES ASSUME NEW i \in Pending(b), NEW j \in Pending(b), i # j PROVE FALSE
      OBVIOUS
    <3>1. Pending(b) \subseteq 1..Len(cp_queue) /\ IsFiniteSet(1..Len(cp_queue))
      <4>1. DOMAIN cp_queue = 1..Len(cp_queue) /\ Len(cp_queue) \in Int
        BY <1>1, LenProperties
      <4> QED BY <4>1, FS_Interval DEF Pending
    <3>2. IsFiniteSet(Pending(b)) /\ {i, j} \subseteq Pending(b)
      BY <3>1, FS_Subset
    <3>3. Cardinality({i, j}) <= Cardinality(Pending(b)) /\ Cardinality(Pending(b)) \in Nat
      BY <3>2, FS_Subset, FS_CardinalityType
    <3>4. Cardinality({i, j}) = 2
      <4>1. IsFiniteSet({j}) /\ Cardinality({j}) = 1
        BY FS_Singleton
      <4>2. Cardinality({j} \cup {i}) = Cardinality({j}) + 1
        BY <4>1, FS_AddElement
      <4>3. {j} \cup {i} = {i, j}
        OBVIOUS
      <4> QED BY <4>1, <4>2, <4>3
    <3> QED BY <2>1, <3>3, <3>4
  <2>4. \A c : Pending(c)' = Pending(c)
    BY <1>2 DEF Pending
  <2>5. RevokeOne' /\ SomeBufs'
    BY <1>1, <2>1, <2>2, <2>3, <2>4 DEF RevokeOne, SomeBufs, Building
  <2> QED BY <1>2, <2>5, NotChecked
<1> QED BY <1>3, <1>4, <1>5, <1>6 DEF CallerStep

LEMMA EnqueueChecks ==
    ASSUME IInv, CInv, Enqueue
    PROVE  CInv'
<1> DEFINE t == [trans EXCEPT !.revoke = {}]
           n == Len(cp_queue)
<1>1. /\ cp_queue \in Seq(Transactions) /\ trans \in Transactions /\ n \in Nat
  BY LenProperties DEF IInv, Typed
<1>2. /\ cp_queue' = Append(cp_queue, t) /\ trans' = NoTrans /\ pc' = "idle" /\ pc = "revoked"
      /\ ending' = ending /\ ending = NotEnding /\ sb_write = "no"
      /\ sb_write' \in {"no", "write"}
  BY DEF Enqueue, Quiet
<1>3. t \in Transactions /\ t.bufs = trans.bufs /\ t.bufs # {}
  BY <1>1, <1>2 DEF Transactions, CInv, SomeBufs, Building
<1> HIDE DEF t
<1>4. /\ cp_queue' \in Seq(Transactions) /\ Len(cp_queue') = n + 1
      /\ \A i \in 1..n : cp_queue'[i] = cp_queue[i]
      /\ cp_queue'[n + 1] = t
  BY <1>1, <1>2, <1>3, AppendProperties, LenProperties
<1>5. HeadOpen'
  <2>1. CASE n = 0
    BY <1>3, <1>4, <2>1 DEF HeadOpen
  <2>2. CASE n # 0
    <3>1. cp_queue # <<>> /\ cp_queue'[1] = cp_queue[1]
      BY <1>1, <1>4, <2>2
    <3> QED BY <1>2, <3>1 DEF HeadOpen, CInv
  <2> QED BY <2>1, <2>2
<1>6. EndsLater' /\ SomeBufs' /\ RevokeOne'
  BY <1>2 DEF EndsLater, SomeBufs, Building, RevokeOne, NoTrans
<1> QED BY <1>2, <1>5, <1>6 DEF CInv

LEMMA CommitsCheck ==
    ASSUME IInv, NInv, CInv, CommitStep
    PROVE  CInv'
<1>1. cp_queue \in Seq(Transactions) /\ trans \in Transactions
  BY DEF IInv, Typed
<1>2. CASE AllocDescriptor \/ LogDescriptor \/ LogRevoke \/ LogCommit \/ \E b \in Blocks : LogData(b)
  <2>1. UNCHANGED <<cp_queue, ending, sb_write>>
        /\ pc \in {"alloc", "data", "revoke", "commit", "revoked"}
    BY <1>2 DEF AllocDescriptor, LogDescriptor, LogRevoke, LogCommit, LogData, session
  <2>2. trans'.bufs = trans.bufs /\ trans'.revoke = trans.revoke
    BY <1>1, <1>2 DEF AllocDescriptor, LogDescriptor, LogRevoke, LogCommit, LogData, Transactions
  <2>3. RevokeOne' /\ SomeBufs'
    BY <2>1, <2>2 DEF CInv, RevokeOne, SomeBufs, Building, Pending
  <2> QED BY <2>1, <2>3, NotChecked
<1>3. ASSUME NEW b \in Blocks, CompleteRevoked(b)
      PROVE  CInv'
  <2>1. /\ EndWrite(NewestId(b), b) /\ UNCHANGED <<trans, pc>> /\ Quiet
        /\ b \in trans.revoke /\ Pending(b) # {}
    BY <1>3 DEF CompleteRevoked
  <2>2. IsNewest(b, Newest(b)) /\ Pending(b) \subseteq 1..Len(cp_queue)
    BY <1>1, <2>1, NewestIs
  <2> DEFINE k == Newest(b)
  <2>3. k \in 1..Len(cp_queue) /\ k \in Pending(b) /\ NewestId(b) = cp_queue[k].id
    BY <2>1, <2>2 DEF IsNewest, NewestId
  <2> HIDE DEF k
  <2>4. \A i \in Pending(b) : i = k
    BY <2>1, <2>3 DEF CInv, RevokeOne
  <2>5. /\ cp_queue[k] \in Transactions /\ cp_queue[1] \in Transactions /\ 1 \in 1..Len(cp_queue)
        /\ cp_queue[1].id \in Nat /\ cp_queue[k].id \in Nat /\ cp_queue # <<>>
    <3>1. 1 \in 1..Len(cp_queue) /\ Len(cp_queue) \in Nat
      BY <1>1, <2>3, LenProperties
    <3>2. cp_queue # <<>>
      BY <2>3, EmptySeq
    <3> QED BY <1>1, <2>3, <3>1, <3>2, ElementOfSeq, TransNat
  <2>6. \/ cp_queue # <<>> /\ cp_queue[1].id = cp_queue[k].id
        \/ \E i \in 1..Len(cp_queue) :
             cp_queue[i].id <= cp_queue[k].id /\ ~(cp_queue[i].bufs \subseteq {b})
    <3> SUFFICES ASSUME cp_queue[1].id # cp_queue[k].id
                 PROVE  cp_queue[1].id <= cp_queue[k].id /\ ~(cp_queue[1].bufs \subseteq {b})
      BY <2>5
    <3>1. 1 \notin Pending(b)
      BY <2>4
    <3>2. cp_queue[1].bufs # {} /\ b \notin cp_queue[1].bufs
      <4>1. DOMAIN cp_queue = 1..Len(cp_queue)
        BY <1>1, LenProperties
      <4> QED BY <2>1, <2>5, <3>1, <4>1 DEF CInv, HeadOpen, Quiet, Pending
    <3>3. cp_queue[1].id < cp_queue[k].id
      <4>1. 1 < k
        BY <1>1, <2>3
      <4> QED BY <2>3, <2>5, <4>1 DEF NInv, IdsOrdered
    <3> QED BY <2>5, <3>2, <3>3
  <2>7. HeadOpen' /\ EndsLater' /\ sb_write' \in {"no", "purge", "write"}
    <3>1. b \in Blocks
      BY <1>3
    <3> QED BY <2>1, <2>3, <2>5, <2>6, <3>1, EndWriteChecks
  <2>8. RevokeOne'
    BY <1>1, <2>1, EndWriteThins, RevokeThinned DEF CInv
  <2>9. SomeBufs'
    BY <2>1 DEF CInv, SomeBufs, Building
  <2> QED BY <2>7, <2>8, <2>9 DEF CInv
<1> QED BY <1>2, <1>3, EnqueueChecks DEF CommitStep

LEMMA OthersCheck ==
    ASSUME CInv, SessionStep \/ Crash \/ Recover \/ RecoverStep
    PROVE  CInv'
<1>1. CASE Crash
  <2>1. /\ cp_queue' = <<>> /\ trans' = NoTrans /\ ending' = NotEnding /\ sb_write' = "no"
        /\ pc' = "off"
    BY <1>1 DEF Crash
  <2>2. trans'.revoke = {}
    BY <2>1 DEF NoTrans
  <2> QED BY <2>1, <2>2 DEF CInv, HeadOpen, EndsLater, RevokeOne, SomeBufs, Building
<1>2. CASE ~Crash
  <2>1. /\ UNCHANGED <<cp_queue, ending, sb_write, trans>>
        /\ pc' \in {"starting", "idle", "stopping", "stopped", "off", "replay", "put"}
    <3>1. CASE SessionStep
      BY <3>1 DEF SessionStep, StartFlag, StartSb, Stop, StopFlag, StopSb, session
    <3>2. CASE Recover \/ RecoverFlag \/ RecoverPut
      BY <3>2 DEF Recover, RecoverFlag, RecoverPut, session
    <3>3. ASSUME NEW r \in todo, Replay(r)
          PROVE  /\ UNCHANGED <<cp_queue, ending, sb_write, trans>>
                 /\ pc' = "replay"
      BY <3>3 DEF Replay, session
    <3> QED BY <1>2, <3>1, <3>2, <3>3 DEF RecoverStep
  <2>2. RevokeOne' /\ SomeBufs'
    BY <2>1 DEF CInv, RevokeOne, Pending, SomeBufs, Building
  <2> QED BY <2>1, <2>2, NotChecked
<1> QED BY <1>1, <1>2

LEMMA CInvKept ==
    ASSUME Mild, IInv, NInv, CInv, rec \in [Blocks -> Nat], [Next]_vars
    PROVE  CInv'
<1>1. CASE UNCHANGED vars
  <2>1. UNCHANGED <<cp_queue, ending, sb_write, trans, pc>>
    BY <1>1 DEF vars, session
  <2>2. RevokeOne' /\ SomeBufs'
    BY <2>1 DEF CInv, RevokeOne, Pending, SomeBufs, Building
  <2> QED BY <2>1, <2>2, NotChecked
<1>2. CASE Next
  BY <1>2, CallersCheck, CommitsCheck, CheckpointsCheck, FlushChecks, OthersCheck DEF Next
<1> QED BY <1>1, <1>2

-----------------------------------------------------------------------------
(* The running transaction: what of it is in the log.                      *)

K(t) == Cardinality(Tagged(t.lba))

Formed ==
    /\ pc = "data" => trans.len = 1 + K(trans)
    /\ Building => Tagged(trans.lba) \subseteq trans.bufs
    /\ pc \in {"revoke", "commit"} => log[trans.start] = Descriptor(trans.id, trans.lba)
    /\ pc = "revoke" => trans.revoke # {} /\ trans.len = 1 + K(trans)
    /\ pc = "commit" =>
         IF trans.revoke = {} THEN trans.len = 1 + K(trans)
         ELSE /\ trans.len = 2 + K(trans)
              /\ log[Ring(trans.start, K(trans) + 1)] = Revoke(trans.id, trans.revoke)

\* It is one of the session.
Numbered == (Running => trans.n >= since) /\ since <= txn + 1

FInv == Formed /\ Numbered

\* The next block of the log is the one behind the running transaction.
LEMMA LastIs ==
    ASSUME IInv, Building
    PROVE  /\ trans \in Transactions /\ trans.start \in Positions /\ trans.len \in Nat
           /\ journal.start \in Positions /\ journal.last \in Positions
           /\ Dist(journal.start, trans.start) + trans.len < LogSize
           /\ Ring(trans.start, trans.len) = journal.last /\ trans.start # journal.last
           /\ K(trans) \in Nat /\ DOMAIN log = Positions
<1>1. /\ trans \in Transactions /\ journal.start \in Positions /\ journal.last \in Positions
      /\ trans.lba \in Tags /\ DOMAIN log = Positions
  BY DEF IInv, Typed, Building, Active, Committing, Transactions
<1>2. /\ trans.start \in Positions /\ trans.len > 0
      /\ Dist(journal.start, trans.start) + trans.len = Dist(journal.start, journal.last)
  BY DEF IInv, TransInRing
<1>3. trans.len \in Nat
  BY <1>1, TransNat
<1>4. /\ Dist(journal.start, trans.start) \in Nat
      /\ Dist(journal.start, journal.last) \in Nat /\ Dist(journal.start, journal.last) < LogSize
  BY <1>1, <1>2, DistRange
<1>5. trans.start # journal.last
  BY <1>2, <1>3, <1>4
<1>6. Dist(journal.start, trans.start) + trans.len < LogSize
  BY <1>2, <1>4
<1>7. /\ Ring(trans.start, trans.len) \in Positions
      /\ Dist(journal.start, Ring(trans.start, trans.len)) = Dist(journal.start, journal.last)
  BY <1>1, <1>2, <1>3, <1>6, DistRing
<1>8. Ring(trans.start, trans.len) = journal.last
  BY <1>1, <1>7, DistRange
<1>9. K(trans) \in Nat
  BY <1>1, TagsCounted DEF K
<1> QED BY <1>1, <1>2, <1>3, <1>5, <1>6, <1>8, <1>9

LEMMA LogDataForms ==
    ASSUME IInv, FInv, NEW b \in Blocks, LogData(b)
    PROVE  Formed'
<1>1. /\ pc = "data" /\ pc' = "data" /\ Building
      /\ trans' = [trans EXCEPT !.lba[b] = journal.last, !.len = @ + 1]
      /\ b \in trans.bufs /\ trans.lba[b] = 0
  BY DEF LogData, Building, Unlogged
<1>2. /\ trans \in Transactions /\ trans.lba \in Tags /\ journal.last # 0
      /\ K(trans) \in Nat /\ trans.len = 1 + K(trans)
  BY <1>1, LastIs DEF Transactions, Positions, FInv, Formed
<1>3. /\ trans'.lba = [trans.lba EXCEPT ![b] = journal.last] /\ trans'.len = trans.len + 1
      /\ trans'.bufs = trans.bufs
  BY <1>1, <1>2 DEF Transactions
<1>4. Tagged(trans'.lba) = Tagged(trans.lba) \cup {b} /\ b \notin Tagged(trans.lba)
  BY <1>1, <1>2, <1>3 DEF Tagged, Tags
<1>5. K(trans') = K(trans) + 1
  <2>1. IsFiniteSet(Tagged(trans.lba))
    BY <1>2, TagsCounted
  <2> QED BY <1>4, <2>1, FS_AddElement DEF K
<1>6. Tagged(trans'.lba) \subseteq trans'.bufs
  BY <1>1, <1>3, <1>4 DEF FInv, Formed
<1>7. trans'.len = 1 + K(trans')
  <2> DEFINE k == K(trans)
             k2 == K(trans')
  <2>1. k \in Nat /\ trans.len = 1 + k /\ trans'.len = trans.len + 1 /\ k2 = k + 1
    BY <1>2, <1>3, <1>5
  <2> HIDE DEF k, k2
  <2>2. trans'.len = 1 + k2
    BY <2>1
  <2> QED BY <2>2 DEF k2
<1> QED BY <1>1, <1>6, <1>7 DEF Formed, K

LEMMA CommitsForm ==
    ASSUME IInv, FInv, CommitStep
    PROVE  Formed'
<1>1. trans \in Transactions
  BY DEF IInv, Typed
<1>2. CASE AllocDescriptor
  <2>1. /\ pc' = "data" /\ trans' = [trans EXCEPT !.start = journal.last, !.len = 1]
        /\ trans.lba = NoTags
    BY <1>2 DEF AllocDescriptor, IInv, TransInRing
  <2>2. trans'.lba = NoTags /\ trans'.len = 1
    BY <1>1, <2>1 DEF Transactions
  <2>3. Tagged(trans'.lba) = {}
    BY <2>2 DEF Tagged, NoTags
  <2>4. K(trans') = 0
    BY <2>3, FS_EmptySet DEF K
  <2>5. trans'.len = 1 + K(trans')
    BY <2>2, <2>4
  <2> QED BY <2>1, <2>3, <2>5 DEF Formed, K
<1>3. CASE LogDescriptor
  <2>1. /\ pc = "data" /\ Building /\ trans' = trans
        /\ log' = [log EXCEPT ![trans.start] = Descriptor(trans.id, trans.lba)]
        /\ pc' = IF trans.revoke = {} THEN "commit" ELSE "revoke"
    BY <1>3 DEF LogDescriptor, Building
  <2>2. log'[trans.start] = Descriptor(trans.id, trans.lba)
    BY <2>1, LastIs
  <2>3. trans.len = 1 + K(trans) /\ Tagged(trans.lba) \subseteq trans.bufs
    BY <2>1 DEF FInv, Formed
  <2> QED BY <2>1, <2>2, <2>3 DEF Formed, K
<1>4. CASE LogRevoke
  <2>1. /\ pc = "revoke" /\ Building /\ pc' = "commit"
        /\ log' = [log EXCEPT ![journal.last] = Revoke(trans.id, trans.revoke)]
        /\ trans' = [trans EXCEPT !.len = @ + 1]
    BY <1>4 DEF LogRevoke, Building
  <2>2. /\ trans.len = 1 + K(trans) /\ trans.revoke # {} /\ K(trans) \in Nat
        /\ log[trans.start] = Descriptor(trans.id, trans.lba)
        /\ Tagged(trans.lba) \subseteq trans.bufs
    BY <2>1, LastIs DEF FInv, Formed
  <2>3. /\ trans'.len = trans.len + 1 /\ trans'.lba = trans.lba /\ trans'.revoke = trans.revoke
        /\ trans'.id = trans.id /\ trans'.start = trans.start /\ trans'.bufs = trans.bufs
        /\ trans.len \in Nat
    BY <1>1, <2>1, LastIs DEF Transactions
  <2> DEFINE k == K(trans)
  <2>4. K(trans') = k
    BY <2>3 DEF K
  <2>5. trans'.len = 2 + k /\ k + 1 = trans.len
    <3> HIDE DEF k
    <3>1. k \in Nat /\ trans.len = 1 + k
      BY <2>2 DEF k
    <3> QED BY <2>3, <3>1
  <2>6. log'[Ring(trans.start, k + 1)] = Revoke(trans.id, trans.revoke)
    <3> HIDE DEF k
    <3> QED BY <2>1, <2>5, LastIs
  <2>7. log'[trans.start] = Descriptor(trans.id, trans.lba)
    BY <2>1, <2>2, LastIs
  <2>8. trans'.len = 2 + K(trans') /\ log'[Ring(trans'.start, K(trans') + 1)] = Revoke(trans'.id, trans'.revoke)
    <3> HIDE DEF k
    <3> QED BY <2>3, <2>4, <2>5, <2>6
  <2> QED BY <2>1, <2>2, <2>3, <2>7, <2>8 DEF Formed, K
<1>5. CASE LogCommit
  <2>1. pc = "commit" /\ Building /\ pc' = "revoked" /\ trans' = [trans EXCEPT !.len = @ + 1]
    BY <1>5 DEF LogCommit, Building
  <2>2. trans'.lba = trans.lba /\ trans'.bufs = trans.bufs
    BY <1>1, <2>1 DEF Transactions
  <2> QED BY <2>1, <2>2 DEF FInv, Formed
<1>6. CASE Enqueue
  <2>1. pc' = "idle"
    BY <1>6 DEF Enqueue
  <2> QED BY <2>1 DEF Formed, Building
<1>7. ASSUME NEW b \in Blocks, CompleteRevoked(b)
      PROVE  Formed'
  <2>1. UNCHANGED <<pc, trans, log>>
    BY <1>7 DEF CompleteRevoked, disk
  <2> QED BY <2>1 DEF FInv, Formed, Building, K
<1> QED BY <1>2, <1>3, <1>4, <1>5, <1>6, <1>7, LogDataForms DEF CommitStep

LEMMA FInvKept ==
    ASSUME IInv, FInv, since \in Nat, [Next]_vars
    PROVE  FInv'
<1>1. trans \in Transactions /\ trans.n \in Nat /\ txn \in Nat
  BY DEF IInv, Typed, Transactions
<1>2. CASE CommitStep
  <2>1. Formed'
    BY <1>2, CommitsForm
  <2>2. /\ txn' = txn /\ since' = since /\ Running
        /\ trans'.n = trans.n \/ ~Running'
    <3>1. CASE AllocDescriptor \/ LogDescriptor \/ LogRevoke \/ LogCommit \/ Enqueue
      BY <1>1, <3>1 DEF AllocDescriptor, LogDescriptor, LogRevoke, LogCommit, Enqueue, ghost,
                        Running, Building, Transactions
    <3>2. ASSUME NEW b \in Blocks, LogData(b) \/ CompleteRevoked(b)
          PROVE  txn' = txn /\ since' = since /\ trans'.n = trans.n /\ Running
      BY <1>1, <3>2 DEF LogData, CompleteRevoked, ghost, Running, Building, Transactions
    <3> QED BY <1>2, <3>1, <3>2 DEF CommitStep
  <2> QED BY <2>1, <2>2 DEF FInv, Numbered
<1>3. CASE CallerStep
  <2>1. pc' \in {"run", "alloc", "idle"}
    BY <1>3 DEF CallerStep, Begin, Abort, CommitBegin, Dirty, WriteData, Free
  <2>2. Formed'
    BY <2>1 DEF Formed, Building
  <2>3. CASE Begin
    <3>1. txn' = txn + 1 /\ since' = since /\ trans'.n = txn + 1
      BY <2>3 DEF Begin, NoTrans
    <3> QED BY <1>1, <2>2, <3>1 DEF FInv, Numbered
  <2>4. CASE ~Begin
    <3>1. pc = "run" /\ Running
      BY <1>3, <2>4 DEF CallerStep, Abort, CommitBegin, Dirty, WriteData, Free, Running
    <3>2. /\ txn' = txn /\ since' = since
          /\ trans'.n = trans.n \/ ~Running'
      <4>1. CASE Abort
        BY <4>1 DEF Abort, ghost, Running, Building
      <4>2. CASE CommitBegin
        BY <1>1, <4>2 DEF CommitBegin, ghost, Running, Building, Transactions
      <4>3. ASSUME NEW b \in Blocks, Dirty(b) \/ WriteData(b) \/ Free(b)
            PROVE  txn' = txn /\ since' = since /\ trans'.n = trans.n
        BY <1>1, <4>3 DEF Dirty, WriteData, Free, SetDirty, ghost, Transactions
      <4> QED BY <1>3, <2>4, <4>1, <4>2, <4>3 DEF CallerStep
    <3> QED BY <2>2, <3>1, <3>2 DEF FInv, Numbered
  <2> QED BY <2>3, <2>4
<1>4. CASE \/ UNCHANGED vars \/ CheckpointStep \/ \E b \in Blocks : Flush(b)
  <2>1. UNCHANGED <<log, trans, pc, txn, since>>
    BY <1>4 DEF vars, disk, ghost, CheckpointStep, EndWriteOwn, Purge, Purged, WriteSb, MakeRoom, Flush
  <2> QED BY <2>1 DEF FInv, Formed, Numbered, Running, Building, K
<1>5. CASE SessionStep \/ Crash \/ Recover \/ RecoverStep
  <2>1. /\ pc' \in {"starting", "idle", "stopping", "stopped", "off", "replay", "put"}
        /\ txn' = txn /\ since' \in {since, txn + 1}
    <3>1. CASE SessionStep
      BY <3>1 DEF SessionStep, StartFlag, StartSb, Stop, StopFlag, StopSb, ghost
    <3>2. CASE Crash \/ Recover \/ RecoverFlag \/ RecoverPut
      BY <3>2 DEF Crash, Recover, RecoverFlag, RecoverPut, ghost
    <3>3. ASSUME NEW r \in todo, Replay(r)
          PROVE  pc' = "replay" /\ txn' = txn /\ since' = since
      BY <3>3 DEF Replay, ghost
    <3> QED BY <1>5, <3>1, <3>2, <3>3 DEF RecoverStep
  <2>2. ~Running' /\ ~Building' /\ pc' \notin {"data", "revoke", "commit"}
    BY <2>1 DEF Running, Building
  <2> QED BY <1>1, <2>1, <2>2 DEF FInv, Formed, Numbered
<1> QED BY <1>2, <1>3, <1>4, <1>5 DEF Next

-----------------------------------------------------------------------------
(* A row of whole transactions in the log.                                 *)

\* A write behind a transaction leaves it alone.
LEMMA WrittenKept ==
    ASSUME NEW t \in Transactions, NEW s \in Positions, NEW l, DOMAIN l = Positions,
           Written(t, s, l), NEW p \in Positions, Dist(s, t.start) + t.len <= Dist(s, p), NEW r
    PROVE  Written(t, s, [l EXCEPT ![p] = r])
<1> DEFINE k == Cardinality(Tagged(t.lba))
           l2 == [l EXCEPT ![p] = r]
           x == Dist(s, t.start)
<1>1. /\ t.start \in Positions /\ t.lba \in Tags /\ t.len \in Nat /\ k \in Nat
      /\ x \in Nat /\ Dist(s, p) \in Nat /\ x + t.len < LogSize
  BY TransNat, TagsCounted, DistRange DEF Written, Transactions
<1>2. t.len >= k + 2 /\ (t.revoke # {} => t.len = k + 3)
  <2> HIDE DEF k
  <2>1. t.len = k + 2 \/ (t.revoke # {} /\ t.len = k + 3)
    BY DEF Written, k
  <2>2. t.revoke # {} => t.len = k + 3
    BY DEF Written, k
  <2> QED BY <1>1, <2>1, <2>2
<1>3. \A n \in Nat : n < t.len => Ring(t.start, n) \in Positions /\ Ring(t.start, n) # p
  <2> SUFFICES ASSUME NEW n \in Nat, n < t.len
               PROVE  Ring(t.start, n) \in Positions /\ Ring(t.start, n) # p
    OBVIOUS
  <2>1. x + n < LogSize /\ x + n < Dist(s, p)
    <3> HIDE DEF x
    <3> QED BY <1>1, LogSizeAssumption DEF x
  <2>2. Ring(t.start, n) \in Positions /\ Dist(s, Ring(t.start, n)) = x + n
    BY <1>1, <2>1, DistRing
  <2>3. Dist(s, Ring(t.start, n)) # Dist(s, p)
    <3> HIDE DEF x
    <3> QED BY <1>1, <2>1, <2>2
  <2> QED BY <2>2, <2>3
<1>4. \A n \in Nat : n < t.len => l2[Ring(t.start, n)] = l[Ring(t.start, n)]
  BY <1>3
<1>5. l2[t.start] = l[t.start]
  <2>1. x # Dist(s, p)
    <3> HIDE DEF x, k
    <3>1. x < Dist(s, p)
      BY <1>1, <1>2 DEF x
    <3> QED BY <1>1, <3>1
  <2> QED BY <2>1
<1>6. \A b \in Tagged(t.lba) : Logged(t, b, s, l2)
  <2> SUFFICES ASSUME NEW b \in Tagged(t.lba) PROVE Logged(t, b, s, l2)
    OBVIOUS
  <2>1. Logged(t, b, s, l)
    BY DEF Written
  <2>2. t.lba[b] \in Positions /\ Dist(s, t.lba[b]) < x + t.len
    BY <2>1 DEF Logged
  <2>3. Dist(s, t.lba[b]) \in Nat
    BY <2>2, DistRange
  <2>4. Dist(s, t.lba[b]) # Dist(s, p)
    <3> HIDE DEF x
    <3> QED BY <1>1, <2>2, <2>3 DEF x
  <2>5. t.lba[b] # p
    BY <2>4
  <2> QED BY <2>1, <2>2, <2>5 DEF Logged
<1>7. IF t.revoke = {}
        THEN t.len = k + 2 /\ l2[Ring(t.start, k + 1)] = Commit(t.id)
        ELSE /\ t.len = k + 3 /\ l2[Ring(t.start, k + 1)] = Revoke(t.id, t.revoke)
             /\ l2[Ring(t.start, k + 2)] = Commit(t.id)
  <2>1. IF t.revoke = {}
          THEN t.len = k + 2 /\ l[Ring(t.start, k + 1)] = Commit(t.id)
          ELSE /\ t.len = k + 3 /\ l[Ring(t.start, k + 1)] = Revoke(t.id, t.revoke)
               /\ l[Ring(t.start, k + 2)] = Commit(t.id)
    BY DEF Written
  <2> HIDE DEF l2, k
  <2>2. l2[Ring(t.start, k + 1)] = l[Ring(t.start, k + 1)]
    <3>1. k + 1 \in Nat /\ k + 1 < t.len
      BY <1>1, <1>2
    <3> QED BY <1>4, <3>1
  <2>3. t.revoke # {} => l2[Ring(t.start, k + 2)] = l[Ring(t.start, k + 2)]
    <3>1. t.revoke # {} => k + 2 \in Nat /\ k + 2 < t.len
      BY <1>1, <1>2
    <3> QED BY <1>4, <3>1
  <2> QED BY <2>1, <2>2, <2>3
<1>8. t.start \in Positions /\ x + t.len < LogSize /\ l2[t.start] = Descriptor(t.id, t.lba)
  BY <1>1, <1>5 DEF Written
<1> HIDE DEF l2
<1>9. Written(t, s, l2)
  BY <1>6, <1>7, <1>8 DEF Written
<1> QED BY <1>9 DEF l2

\* A later start of the log, at or before a transaction, does not change it either.
LEMMA WrittenRebase ==
    ASSUME NEW t \in Transactions, NEW s \in Positions, NEW q \in Positions, NEW l,
           Written(t, s, l), Dist(s, q) <= Dist(s, t.start)
    PROVE  Written(t, q, l)
<1>1. t.start \in Positions /\ Dist(s, t.start) + t.len < LogSize /\ t.len \in Nat
  BY TransNat DEF Written
<1>2. \A b \in Tagged(t.lba) : Logged(t, b, q, l)
  BY <1>1, LoggedRebase DEF Written
<1>3. Dist(q, t.start) = Dist(s, t.start) - Dist(s, q)
  BY <1>1, Rebase
<1>4. Dist(s, t.start) \in Nat /\ Dist(s, q) \in Nat
  BY <1>1, DistRange
<1>5. Dist(q, t.start) + t.len < LogSize
  BY <1>1, <1>3, <1>4, LogSizeAssumption
<1> QED BY <1>1, <1>2, <1>5 DEF Written

\* The ends of the transactions come one behind the other.
LEMMA EndsGrow ==
    ASSUME NEW l, NEW sb \in SuperBlocks, NEW H, Laid(H, l, sb)
    PROVE  \A m \in 0..Len(H) : \A i \in 0..m :
             Dist(sb.start, EndOf(H, i, sb.start)) <= Dist(sb.start, EndOf(H, m, sb.start))
<1> DEFINE D(m) == Dist(sb.start, EndOf(H, m, sb.start))
           S == {m \in 0..Len(H) : \A i \in 0..m : D(i) <= D(m)}
<1>1. Len(H) \in Nat /\ H \in Seq(Transactions) /\ sb.start \in Positions
  BY LenProperties DEF Laid
<1>2. \A m \in 0..Len(H) : D(m) \in Nat
  BY <1>1, EndOfRange, DistRange
<1>3. \A m \in 0..Len(H) - 1 : D(m) <= D(m + 1)
  <2> SUFFICES ASSUME NEW m \in 0..Len(H) - 1 PROVE D(m) <= D(m + 1)
    OBVIOUS
  <2>1. m + 1 \in 1..Len(H) /\ m + 1 \in 0..Len(H) /\ m \in 0..Len(H) /\ m + 1 > 0
    BY <1>1
  <2>2. D(m + 1) = Dist(sb.start, H[m + 1].start) + H[m + 1].len
    BY <2>1, EndOfRange
  <2>3. H[m + 1].start = EndOf(H, m, sb.start)
    <3>1. (m + 1) - 1 = m
      OBVIOUS
    <3>2. H[m + 1].start = EndOf(H, (m + 1) - 1, sb.start)
      BY <2>1 DEF Laid
    <3> QED BY <3>1, <3>2
  <2>4. H[m + 1].len \in Nat
    BY <1>1, <2>1, ElementOfSeq, TransNat
  <2>5. D(m + 1) = D(m) + H[m + 1].len /\ D(m) \in Nat
    BY <1>2, <2>1, <2>2, <2>3
  <2> HIDE DEF D
  <2> QED BY <2>4, <2>5
<1> HIDE DEF D
<1>4. 0 \in S
  BY <1>1, <1>2
<1>5. ASSUME NEW m \in 0..Len(H) - 1, m \in S
      PROVE  m + 1 \in S
  <2>1. m + 1 \in 0..Len(H) /\ m \in 0..Len(H) /\ D(m) \in Nat /\ D(m + 1) \in Nat
    BY <1>1, <1>2
  <2>2. ASSUME NEW i \in 0..m + 1
        PROVE  D(i) <= D(m + 1)
    <3>1. CASE i = m + 1
      BY <2>1, <3>1
    <3>2. CASE i # m + 1
      <4>1. i \in 0..m /\ i \in 0..Len(H)
        BY <1>1, <3>2
      <4>2. D(i) <= D(m) /\ D(m) <= D(m + 1) /\ D(i) \in Nat
        BY <1>2, <1>3, <1>5, <4>1
      <4> QED BY <2>1, <4>2
    <3> QED BY <3>1, <3>2
  <2> QED BY <2>1, <2>2
<1>6. 0..Len(H) \subseteq S
  <2> HIDE DEF S
  <2> QED BY <1>1, <1>4, <1>5, UpTo
<1> QED BY <1>6 DEF D

LEMMA LaidFacts ==
    ASSUME NEW l, NEW sb \in SuperBlocks, NEW H, Laid(H, l, sb), NEW i \in 1..Len(H)
    PROVE  /\ H[i] \in Transactions /\ Written(H[i], sb.start, l) /\ sb.start \in Positions
           /\ H[i].id = sb.sequence + i - 1 /\ H[i].start = EndOf(H, i - 1, sb.start)
           /\ Dist(sb.start, H[i].start) + H[i].len
                <= Dist(sb.start, EndOf(H, Len(H), sb.start))
<1>1. H \in Seq(Transactions) /\ Len(H) \in Nat /\ H[i] \in Transactions
  BY LenProperties, ElementOfSeq DEF Laid
<1>2. i \in 0..Len(H) /\ i > 0 /\ Len(H) \in 0..Len(H)
  BY <1>1
<1>3. Dist(sb.start, EndOf(H, i, sb.start)) = Dist(sb.start, H[i].start) + H[i].len
  BY <1>2, EndOfRange
<1>4. Dist(sb.start, EndOf(H, i, sb.start)) <= Dist(sb.start, EndOf(H, Len(H), sb.start))
  BY <1>2, EndsGrow
<1> QED BY <1>1, <1>3, <1>4 DEF Laid

\* A write behind the last of them leaves them alone.
LEMMA LaidKept ==
    ASSUME NEW l, DOMAIN l = Positions, NEW sb \in SuperBlocks, NEW H, Laid(H, l, sb),
           NEW p \in Positions, NEW r,
           Dist(sb.start, EndOf(H, Len(H), sb.start)) <= Dist(sb.start, p)
    PROVE  Laid(H, [l EXCEPT ![p] = r], sb)
<1> SUFFICES ASSUME NEW i \in 1..Len(H)
             PROVE  Written(H[i], sb.start, [l EXCEPT ![p] = r])
  BY DEF Laid
<1> DEFINE x == Dist(sb.start, H[i].start)
           e == Dist(sb.start, EndOf(H, Len(H), sb.start))
<1>1. /\ H[i] \in Transactions /\ Written(H[i], sb.start, l) /\ sb.start \in Positions
      /\ x + H[i].len <= e
  BY LaidFacts
<1>2. x \in Nat /\ e \in Nat /\ H[i].len \in Nat /\ Dist(sb.start, p) \in Nat
  <2>1. H \in Seq(Transactions) /\ Len(H) \in Nat /\ Len(H) \in 0..Len(H)
    BY LenProperties DEF Laid
  <2>2. EndOf(H, Len(H), sb.start) \in Positions
    BY <2>1, EndOfRange
  <2>3. H[i].start \in Positions
    BY <1>1 DEF Written
  <2> QED BY <1>1, <2>2, <2>3, DistRange, TransNat
<1>3. x + H[i].len <= Dist(sb.start, p)
  <2> HIDE DEF x
  <2>1. e <= Dist(sb.start, p)
    OBVIOUS
  <2> HIDE DEF e
  <2> QED BY <1>1, <1>2, <2>1
<1> QED BY <1>1, <1>3, WrittenKept

\* Another transaction behind the last
LEMMA LaidAppend ==
    ASSUME NEW l, NEW sb \in SuperBlocks, NEW H, Laid(H, l, sb), NEW t \in Transactions,
           Written(t, sb.start, l), t.id = sb.sequence + Len(H),
           t.start = EndOf(H, Len(H), sb.start)
    PROVE  /\ Laid(Append(H, t), l, sb) /\ Len(Append(H, t)) = Len(H) + 1
           /\ \A i \in 1..Len(H) : Append(H, t)[i] = H[i]
           /\ Append(H, t)[Len(H) + 1] = t
<1> DEFINE G == Append(H, t)
           s == sb.start
<1>1. H \in Seq(Transactions) /\ Len(H) \in Nat /\ s \in Positions /\ sb.sequence \in Nat
  BY LenProperties DEF Laid, SuperBlocks
<1>2. /\ G \in Seq(Transactions) /\ Len(G) = Len(H) + 1
      /\ \A i \in 1..Len(H) : G[i] = H[i]
      /\ G[Len(H) + 1] = t
  BY <1>1, AppendProperties
<1> HIDE DEF G
<1>3. \A m \in 0..Len(H) : EndOf(G, m, s) = EndOf(H, m, s)
  BY <1>1, <1>2 DEF EndOf
<1>4. ASSUME NEW i \in 1..Len(G)
      PROVE  Written(G[i], s, l) /\ G[i].id = sb.sequence + i - 1 /\ G[i].start = EndOf(G, i - 1, s)
  <2>1. CASE i \in 1..Len(H)
    <3>1. i - 1 \in 0..Len(H) /\ G[i] = H[i]
      BY <1>1, <1>2, <2>1
    <3>2. EndOf(G, i - 1, s) = EndOf(H, i - 1, s)
      BY <1>3, <3>1
    <3> QED BY <2>1, <3>1, <3>2 DEF Laid
  <2>2. CASE i = Len(H) + 1
    <3>1. i - 1 = Len(H) /\ i - 1 \in 0..Len(H) /\ sb.sequence + i - 1 = sb.sequence + Len(H)
      BY <1>1, <2>2
    <3>2. EndOf(G, i - 1, s) = EndOf(H, Len(H), s)
      BY <1>3, <3>1
    <3> QED BY <1>2, <2>2, <3>1, <3>2
  <2> QED BY <1>1, <1>2, <2>1, <2>2
<1> QED BY <1>1, <1>2, <1>4 DEF Laid, G

\* The row without its first d, from where these end
Rest(H, d) == SubSeq(H, d + 1, Len(H))

LEMMA RestIs ==
    ASSUME NEW H \in Seq(Transactions), NEW d \in 0..Len(H)
    PROVE  /\ Rest(H, d) \in Seq(Transactions) /\ Len(Rest(H, d)) \in Nat
           /\ Len(Rest(H, d)) + d = Len(H)
           /\ \A i \in 1..Len(Rest(H, d)) : Rest(H, d)[i] = H[i + d]
<1> DEFINE G == Rest(H, d)
<1>1. d + 1 \in Int /\ Len(H) \in Int /\ Len(H) \in Nat /\ d \in Nat
  BY LenProperties
<1>2. \A i \in d + 1..Len(H) : H[i] \in Transactions
  BY <1>1, ElementOfSeq
<1>3. /\ G \in Seq(Transactions)
      /\ Len(G) = IF d + 1 <= Len(H) THEN Len(H) - (d + 1) + 1 ELSE 0
      /\ \A i \in 1..Len(H) - (d + 1) + 1 : G[i] = H[d + 1 + i - 1]
  BY <1>1, <1>2, SubSeqProperties DEF Rest
<1> HIDE DEF G
<1>4. Len(H) - (d + 1) + 1 = Len(G) /\ Len(G) \in Nat /\ Len(G) + d = Len(H)
  BY <1>1, <1>3
<1>5. ASSUME NEW i \in 1..Len(G)
      PROVE  G[i] = H[i + d]
  <2>1. d + 1 + i - 1 = i + d
    BY <1>1
  <2> QED BY <1>3, <1>4, <2>1
<1> QED BY <1>3, <1>4, <1>5 DEF G

\* Its transactions end where they did.
LEMMA RestEnds ==
    ASSUME NEW H \in Seq(Transactions), NEW d \in 0..Len(H), NEW s
    PROVE  \A m \in 0..Len(Rest(H, d)) :
             EndOf(Rest(H, d), m, EndOf(H, d, s)) = EndOf(H, m + d, s)
<1> DEFINE G == Rest(H, d)
           q == EndOf(H, d, s)
<1>1. /\ Len(G) \in Nat /\ Len(G) + d = Len(H) /\ d \in Nat
      /\ \A i \in 1..Len(G) : G[i] = H[i + d]
  BY RestIs, LenProperties
<1> HIDE DEF G
<1>2. ASSUME NEW m \in 0..Len(G)
      PROVE  EndOf(G, m, q) = EndOf(H, m + d, s)
  <2>1. CASE m = 0
    <3>1. m + d = d
      BY <1>1, <2>1
    <3> QED BY <2>1, <3>1 DEF EndOf
  <2>2. CASE m # 0
    <3>1. m \in 1..Len(G) /\ m + d # 0
      BY <1>1, <2>2
    <3> QED BY <1>1, <2>2, <3>1 DEF EndOf
  <2> QED BY <2>1, <2>2
<1> QED BY <1>2 DEF G

LEMMA LaidRest ==
    ASSUME NEW l, NEW sb \in SuperBlocks, NEW H, Laid(H, l, sb), NEW d \in 0..Len(H),
           NEW sb2 \in SuperBlocks,
           sb2.start = EndOf(H, d, sb.start), sb2.sequence = sb.sequence + d
    PROVE  Laid(Rest(H, d), l, sb2)
<1> DEFINE G == Rest(H, d)
           s == sb.start
           q == sb2.start
<1>1. H \in Seq(Transactions) /\ Len(H) \in Nat /\ s \in Positions /\ sb.sequence \in Nat
      /\ d \in Nat
  BY LenProperties DEF Laid, SuperBlocks
<1>2. /\ G \in Seq(Transactions) /\ Len(G) \in Nat /\ Len(G) + d = Len(H)
      /\ \A i \in 1..Len(G) : G[i] = H[i + d]
      /\ \A m \in 0..Len(G) : EndOf(G, m, q) = EndOf(H, m + d, s)
  <2>1. \A m \in 0..Len(Rest(H, d)) :
          EndOf(Rest(H, d), m, EndOf(H, d, s)) = EndOf(H, m + d, s)
    BY <1>1, RestEnds
  <2> QED BY <1>1, <2>1, RestIs
<1> HIDE DEF G
<1>3. q \in Positions
  BY EndOfRange
<1>4. ASSUME NEW i \in 1..Len(G)
      PROVE  Written(G[i], q, l) /\ G[i].id = sb2.sequence + i - 1 /\ G[i].start = EndOf(G, i - 1, q)
  <2> DEFINE j == i + d
  <2>1. /\ j \in 1..Len(H) /\ G[i] = H[j] /\ i - 1 \in 0..Len(G) /\ (i - 1) + d = j - 1
        /\ d \in 0..j - 1 /\ j - 1 \in 0..Len(H) /\ sb.sequence + j - 1 = sb2.sequence + i - 1
    <3>1. G[i] = H[j]
      BY <1>2
    <3>2. sb.sequence + j - 1 = sb2.sequence + i - 1
      BY <1>1, <1>2
    <3> QED BY <1>1, <1>2, <3>1, <3>2
  <2> HIDE DEF j
  <2>2. /\ H[j] \in Transactions /\ Written(H[j], s, l)
        /\ H[j].id = sb.sequence + j - 1 /\ H[j].start = EndOf(H, j - 1, s)
    BY <2>1, LaidFacts
  <2>3. Dist(s, q) <= Dist(s, H[j].start)
    BY <2>1, <2>2, EndsGrow
  <2>4. Written(H[j], q, l)
    BY <1>1, <1>3, <2>2, <2>3, WrittenRebase
  <2>5. EndOf(G, i - 1, q) = EndOf(H, j - 1, s)
    BY <1>2, <2>1
  <2> QED BY <2>1, <2>2, <2>4, <2>5
<1> QED BY <1>2, <1>3, <1>4 DEF Laid, G

-----------------------------------------------------------------------------
(* The row H that the log holds, in every state.                           *)

\* On the device: the superblock says where the row starts, and no commit block
\* in the log passes for the one that would come next.
DiskInv(H) ==
    IF jsb.start = 0
      THEN H = <<>> /\ (jsb.sequence # 0 => CommitsBelow(log, jsb.sequence + 1))
      ELSE /\ Laid(H, log, jsb) /\ CommitsBelow(log, jsb.sequence + Len(H))
           /\ \A i \in 1..Len(H) : H[i].n >= since

\* How many of them the session is done with but the superblock is not.
Behind(H) == Len(H) - Len(cp_queue) - (IF pc = "revoked" THEN 1 ELSE 0)

SameAs(q, h) ==
    q.id = h.id /\ q.n = h.n /\ q.start = h.start /\ q.len = h.len /\ q.lba = h.lba

\* In a session: the last of the row are the checkpoint queue, and the one that
\* is about to join it.
SessionInv(H) ==
    pc \in Active =>
        /\ jsb.start # 0 /\ jsb.sequence > 0
        /\ Behind(H) \in Nat /\ (sb_write = "no" => Behind(H) = 0)
        /\ \A i \in 1..Len(cp_queue) : SameAs(cp_queue[i], H[i + Behind(H)])
        /\ pc = "revoked" => Len(H) > 0 /\ H[Len(H)] = trans
        /\ journal.trans_id = jsb.sequence + Behind(H)
        /\ journal.alloc_trans_id = jsb.sequence + Len(H)
        /\ journal.start = EndOf(H, Behind(H), jsb.start)
        /\ (IF pc \in {"data", "revoke", "commit"} THEN trans.start ELSE journal.last)
             = EndOf(H, Len(H), jsb.start)
        /\ Running /\ pc # "revoked" => trans.id = journal.alloc_trans_id

\* Outside of one
RecoverInv(H) ==
    /\ pc = "starting" => jsb.start = 0 /\ jsb.sequence # 0
    /\ pc \in {"replay", "put"} => jsb.start # 0
    /\ pc = "replay" => \A r \in todo : r[1] \in 1..Len(H) /\ H[r[1]].lba[r[2]] # 0

LInv(H) == DiskInv(H) /\ SessionInv(H) /\ RecoverInv(H)

\* While nothing is being written, the session and the superblock agree on the start.
LEMMA QuietStart ==
    ASSUME NEW H, LInv(H), pc \in Active, Quiet, jsb \in SuperBlocks
    PROVE  /\ Behind(H) = 0 /\ Laid(H, log, jsb) /\ journal.start = jsb.start
           /\ jsb.start \in Positions /\ H \in Seq(Transactions) /\ Len(H) \in Nat
<1>1. Behind(H) = 0 /\ Laid(H, log, jsb) /\ journal.start = EndOf(H, 0, jsb.start)
  BY DEF LInv, SessionInv, DiskInv, Quiet
<1> QED BY <1>1, LenProperties DEF EndOf, Laid

\* Writes of buffers are done.
LEMMA WritesKeepRow ==
    ASSUME NEW H, LInv(H), cp_queue \in Seq(Transactions), ThinnedQueue(cp_queue, cp_queue'),
           UNCHANGED <<log, jsb, journal, since, pc, trans, todo>>,
           pc \in Active /\ sb_write' = "no" => Behind(H) = 0
    PROVE  LInv(H)'
<1>1. /\ Len(cp_queue') = Len(cp_queue)
      /\ \A i \in 1..Len(cp_queue) :
           \A h : SameAs(cp_queue[i], h) => SameAs(cp_queue'[i], h)
  BY ThinnedPending DEF SameAs
<1>2. Behind(H)' = Behind(H) /\ Running' = Running
  BY <1>1 DEF Behind, Running, Building
<1>3. DiskInv(H)' /\ RecoverInv(H)'
  BY DEF LInv, DiskInv, RecoverInv
<1>4. SessionInv(H)'
  BY <1>1, <1>2 DEF LInv, SessionInv
<1> QED BY <1>3, <1>4 DEF LInv

\* The caller changes its blocks, or the session is to be ended.
LEMMA IdleKeepsRow ==
    ASSUME NEW H, LInv(H), UNCHANGED <<log, jsb, journal, since, cp_queue, sb_write>>,
           pc \in Active \ {"data", "revoke", "commit", "revoked"},
           pc' \in Active \ {"data", "revoke", "commit", "revoked"},
           Running' => trans'.id = journal.alloc_trans_id
    PROVE  LInv(H)'
<1>1. Behind(H)' = Behind(H)
  BY DEF Behind
<1>2. DiskInv(H)'
  BY DEF LInv, DiskInv
<1>3. RecoverInv(H)'
  BY DEF RecoverInv, Active, Committing
<1>4. SessionInv(H)'
  BY <1>1 DEF LInv, SessionInv
<1> QED BY <1>2, <1>3, <1>4 DEF LInv

\* Without a session the log is left as it is.
LEMMA OutsideKeepsRow ==
    ASSUME NEW H, LInv(H), UNCHANGED <<log, jsb, since>>, pc' \notin Active, RecoverInv(H)'
    PROVE  LInv(H)'
BY DEF LInv, DiskInv, SessionInv

LEMMA CallersKeepRow ==
    ASSUME IInv, NEW H, LInv(H), CallerStep
    PROVE  LInv(H)'
<1>1. /\ trans \in Transactions
      /\ journal.alloc_trans_id = jsb.sequence + Len(H) /\ pc \in {"idle", "run"}
  BY DEF IInv, Typed, CallerStep, Begin, Abort, CommitBegin, Dirty, WriteData, Free,
         LInv, SessionInv, Active
<1>2. UNCHANGED <<log, jsb, journal, since, cp_queue, sb_write>>
  BY DEF CallerStep, Begin, Abort, CommitBegin, Dirty, WriteData, Free, session, disk, ghost
<1>3. pc = "run" => trans.id = journal.alloc_trans_id
  BY DEF LInv, SessionInv, Active, Running
<1>4. pc' \in {"idle", "run", "alloc"} /\ (Running' => trans'.id = journal.alloc_trans_id)
  <2>1. CASE Begin
    BY <2>1 DEF Begin, NoTrans
  <2>2. CASE Abort
    BY <2>2 DEF Abort, Running, Building
  <2>3. CASE CommitBegin
    BY <1>1, <1>3, <2>3 DEF CommitBegin, Running, Building, Transactions
  <2>4. ASSUME NEW b \in Blocks, Dirty(b) \/ WriteData(b) \/ Free(b)
        PROVE  pc' = "run" /\ trans'.id = journal.alloc_trans_id
    BY <1>1, <1>3, <2>4 DEF Dirty, WriteData, Free, SetDirty, Transactions
  <2> QED BY <2>1, <2>2, <2>3, <2>4 DEF CallerStep
<1>5. /\ pc \in Active \ {"data", "revoke", "commit", "revoked"}
      /\ pc' \in Active \ {"data", "revoke", "commit", "revoked"}
  BY <1>1, <1>4 DEF Active, Committing
<1> QED BY <1>2, <1>4, <1>5, IdleKeepsRow

LEMMA FlushKeepsRow ==
    ASSUME IInv, NEW H, LInv(H), NEW b \in Blocks, Flush(b)
    PROVE  LInv(H)'
<1>1. /\ cp_queue \in Seq(Transactions) /\ Quiet
      /\ UNCHANGED <<log, jsb, journal, since, pc, trans, todo>>
      /\ cp_queue' = cp_queue \/ EndWrite(rec[b], b)
  BY DEF IInv, Typed, Flush, ghost
<1>2. ThinnedQueue(cp_queue, cp_queue')
  BY <1>1, SameThins, EndWriteThins
<1>3. pc \in Active => Behind(H) = 0
  BY <1>1 DEF LInv, SessionInv, Quiet
<1> QED BY <1>1, <1>2, <1>3, WritesKeepRow

-----------------------------------------------------------------------------
(* The commit.                                                             *)

\* Blocks of the log are allocated and written for the running transaction.
LEMMA CommitKeepsRow ==
    ASSUME IInv, log \in [Positions -> Records], jsb \in SuperBlocks,
           NEW H, LInv(H), Quiet, UNCHANGED <<jsb, since, cp_queue, sb_write>>,
           pc \in {"alloc", "data", "revoke", "commit"}, pc' \in {"data", "revoke", "commit"},
           journal'.start = journal.start, journal'.trans_id = journal.trans_id,
           journal'.alloc_trans_id = journal.alloc_trans_id,
           trans'.id = trans.id,
           trans'.start = IF pc = "alloc" THEN journal.last ELSE trans.start,
           \/ log' = log
           \/ \E p \in {trans'.start, journal.last} : \E r :
                pc # "alloc" /\ r.type # "commit" /\ log' = [log EXCEPT ![p] = r]
    PROVE  LInv(H)'
<1>1. pc \in Active /\ pc' \in Active /\ pc # "revoked" /\ pc' # "revoked" /\ Running /\ Running'
      /\ pc' \notin {"starting", "replay", "put"}
  BY DEF Active, Committing, Running, Building
<1>2. /\ Behind(H) = 0 /\ Laid(H, log, jsb) /\ journal.start = jsb.start
      /\ jsb.start \in Positions /\ Len(H) \in Nat
  BY <1>1, QuietStart
<1>3. Behind(H)' = Behind(H)
  BY <1>1 DEF Behind
<1>4. /\ jsb.start # 0 /\ jsb.sequence > 0
      /\ \A i \in 1..Len(cp_queue) : SameAs(cp_queue[i], H[i + Behind(H)])
      /\ journal.trans_id = jsb.sequence + Behind(H)
      /\ journal.alloc_trans_id = jsb.sequence + Len(H)
      /\ journal.start = EndOf(H, Behind(H), jsb.start)
      /\ trans'.start = EndOf(H, Len(H), jsb.start)
      /\ trans.id = journal.alloc_trans_id
  BY <1>1 DEF LInv, SessionInv
<1>5. SessionInv(H)'
  BY <1>1, <1>2, <1>3, <1>4 DEF SessionInv
<1>6. RecoverInv(H)'
  BY <1>1 DEF RecoverInv
<1>7. DiskInv(H)'
  <2>1. CASE log' = log
    BY <2>1 DEF LInv, DiskInv
  <2>2. ASSUME NEW p \in {trans'.start, journal.last}, NEW r,
               pc # "alloc", r.type # "commit", log' = [log EXCEPT ![p] = r]
        PROVE  DiskInv(H)'
    <3> DEFINE s == jsb.start
               e == EndOf(H, Len(H), s)
    <3>1. e = trans.start /\ Building
      BY <1>4, <2>2 DEF Building
    <3>2. /\ trans.start \in Positions /\ journal.last \in Positions /\ trans.len \in Nat
          /\ Dist(s, trans.start) + trans.len = Dist(s, journal.last)
      BY <1>2, <3>1, LastIs DEF IInv, TransInRing
    <3>3. Dist(s, trans.start) \in Nat /\ Dist(s, journal.last) \in Nat
      BY <1>2, <3>2, DistRange
    <3>4. p \in Positions /\ Dist(s, e) <= Dist(s, p)
      <4>1. p = trans.start \/ p = journal.last
        BY <2>2
      <4>2. Dist(s, trans.start) <= Dist(s, trans.start) /\ Dist(s, trans.start) <= Dist(s, journal.last)
        <5> HIDE DEF s
        <5> QED BY <3>2, <3>3
      <4> QED BY <3>1, <3>2, <4>1, <4>2
    <3>5. Laid(H, log', jsb)
      BY <1>2, <2>2, <3>4, LaidKept
    <3>6. CommitsBelow(log', jsb.sequence + Len(H))
      <4>1. CommitsBelow(log, jsb.sequence + Len(H))
        BY <1>4 DEF LInv, DiskInv
      <4> QED BY <2>2, <3>4, <4>1 DEF CommitsBelow
    <3> QED BY <1>4, <3>5, <3>6 DEF LInv, DiskInv
  <2> QED BY <2>1, <2>2
<1> QED BY <1>5, <1>6, <1>7 DEF LInv

LEMMA WritesKeepCommits ==
    ASSUME IInv, log \in [Positions -> Records], jsb \in SuperBlocks, NEW H, LInv(H),
           \/ AllocDescriptor \/ LogDescriptor \/ LogRevoke
           \/ \E b \in Blocks : LogData(b)
    PROVE  LInv(H)'
<1>1. trans \in Transactions
      /\ journal \in [start : 0..LogSize, last : 0..LogSize, trans_id : Nat, alloc_trans_id : Nat]
  BY DEF IInv, Typed
<1>2. CASE AllocDescriptor
  <2>1. /\ Quiet /\ UNCHANGED <<jsb, since, cp_queue, sb_write, log>>
        /\ pc = "alloc" /\ pc' = "data"
        /\ journal' = Allocated /\ trans' = [trans EXCEPT !.start = journal.last, !.len = 1]
    BY <1>2 DEF AllocDescriptor, disk, ghost
  <2>2. /\ journal'.start = journal.start /\ journal'.trans_id = journal.trans_id
        /\ journal'.alloc_trans_id = journal.alloc_trans_id
        /\ trans'.id = trans.id /\ trans'.start = journal.last
    BY <1>1, <2>1 DEF Allocated, Transactions
  <2> QED BY <2>1, <2>2, CommitKeepsRow
<1>3. CASE LogDescriptor
  <2> DEFINE r == Descriptor(trans.id, trans.lba)
  <2>1. /\ Quiet /\ UNCHANGED <<jsb, since, cp_queue, sb_write, journal, trans>>
        /\ pc = "data" /\ pc' \in {"commit", "revoke"}
        /\ log' = [log EXCEPT ![trans.start] = r]
    BY <1>3 DEF LogDescriptor, session, ghost
  <2>2. r.type # "commit"
    BY DEF Descriptor
  <2>3. trans'.start = trans.start /\ trans.start \in {trans'.start, journal.last} /\ pc # "alloc"
    BY <2>1
  <2> HIDE DEF r
  <2>4. \E p \in {trans'.start, journal.last} : \E x :
          pc # "alloc" /\ x.type # "commit" /\ log' = [log EXCEPT ![p] = x]
    BY <2>1, <2>2, <2>3
  <2> QED BY <2>1, <2>4, CommitKeepsRow
<1>4. CASE LogRevoke
  <2> DEFINE r == Revoke(trans.id, trans.revoke)
  <2>1. /\ Quiet /\ UNCHANGED <<jsb, since, cp_queue, sb_write>>
        /\ pc = "revoke" /\ pc' = "commit"
        /\ log' = [log EXCEPT ![journal.last] = r]
        /\ journal' = Allocated /\ trans' = [trans EXCEPT !.len = @ + 1]
    BY <1>4 DEF LogRevoke, ghost
  <2>2. r.type # "commit"
    BY DEF Revoke
  <2>3. /\ journal'.start = journal.start /\ journal'.trans_id = journal.trans_id
        /\ journal'.alloc_trans_id = journal.alloc_trans_id
        /\ trans'.id = trans.id /\ trans'.start = trans.start
    BY <1>1, <2>1 DEF Allocated, Transactions
  <2> HIDE DEF r
  <2>4. \E p \in {trans'.start, journal.last} : \E x :
          pc # "alloc" /\ x.type # "commit" /\ log' = [log EXCEPT ![p] = x]
    BY <2>1, <2>2, <2>3
  <2> QED BY <2>1, <2>3, <2>4, CommitKeepsRow
<1>5. ASSUME NEW b \in Blocks, LogData(b)
      PROVE  LInv(H)'
  <2> DEFINE r == Data(buf[b])
  <2>1. /\ Quiet /\ UNCHANGED <<jsb, since, cp_queue, sb_write>>
        /\ pc = "data" /\ pc' = "data"
        /\ log' = [log EXCEPT ![journal.last] = r]
        /\ journal' = Allocated
        /\ trans' = [trans EXCEPT !.lba[b] = journal.last, !.len = @ + 1]
    BY <1>5 DEF LogData, ghost
  <2>2. r.type # "commit"
    BY DEF Data
  <2>3. /\ journal'.start = journal.start /\ journal'.trans_id = journal.trans_id
        /\ journal'.alloc_trans_id = journal.alloc_trans_id
        /\ trans'.id = trans.id /\ trans'.start = trans.start
    BY <1>1, <2>1 DEF Allocated, Transactions
  <2> HIDE DEF r
  <2>4. \E p \in {trans'.start, journal.last} : \E x :
          pc # "alloc" /\ x.type # "commit" /\ log' = [log EXCEPT ![p] = x]
    BY <2>1, <2>2, <2>3
  <2> QED BY <2>1, <2>3, <2>4, CommitKeepsRow
<1> QED BY <1>2, <1>3, <1>4, <1>5

\* What the commit block completes.
LEMMA CommitWrites ==
    ASSUME IInv, FInv, log \in [Positions -> Records], jsb \in SuperBlocks,
           NEW H, LInv(H), LogCommit
    PROVE  /\ trans' \in Transactions /\ Written(trans', jsb.start, log')
           /\ trans'.id = jsb.sequence + Len(H) /\ trans'.start = EndOf(H, Len(H), jsb.start)
           /\ journal'.last = Ring(trans'.start, trans'.len)
           /\ trans'.n = trans.n /\ trans'.lba = trans.lba /\ trans'.revoke = trans.revoke
           /\ trans'.bufs = trans.bufs
<1> DEFINE s == jsb.start
           t == trans'
           k == K(trans)
<1>1. /\ pc = "commit" /\ Quiet /\ Room /\ pc \in Active /\ Building
      /\ log' = [log EXCEPT ![journal.last] = Commit(trans.id)]
      /\ t = [trans EXCEPT !.len = @ + 1]
      /\ journal' = [Allocated EXCEPT !.alloc_trans_id = @ + 1]
      /\ pc' = "revoked" /\ UNCHANGED <<cp_queue, rec, buf, txn>>
  BY DEF LogCommit, Building, Active, Committing
<1>2. /\ trans \in Transactions /\ trans.start \in Positions /\ trans.len \in Nat
      /\ journal.start \in Positions /\ journal.last \in Positions
      /\ Ring(trans.start, trans.len) = journal.last /\ trans.start # journal.last
      /\ k \in Nat /\ DOMAIN log = Positions
  BY <1>1, LastIs
<1>3. journal.start = s /\ s \in Positions
  BY <1>1, QuietStart
<1>4. /\ t.id = trans.id /\ t.start = trans.start /\ t.len = trans.len + 1 /\ t.n = trans.n
      /\ t.lba = trans.lba /\ t.revoke = trans.revoke /\ t.bufs = trans.bufs
      /\ trans.lba \in Tags /\ t = [trans EXCEPT !.lba = trans.lba, !.len = @ + 1]
  BY <1>1, <1>2 DEF Transactions
<1>5. /\ journal'.start = journal.start /\ journal'.last = Ring(journal.last, 1)
  <2>1. journal \in [start : 0..LogSize, last : 0..LogSize, trans_id : Nat, alloc_trans_id : Nat]
    BY DEF IInv, Typed
  <2> QED BY <1>1, <2>1 DEF Allocated
<1>6. /\ t \in Transactions /\ journal'.last \in Positions
      /\ Dist(s, t.start) + t.len = Dist(s, journal'.last)
      /\ \A b \in t.bufs : t.lba[b] # 0 => Logged(t, b, s, log')
  <2>1. Building'
    BY <1>1 DEF Building
  <2> QED BY <1>1, <1>3, <1>4, <1>5, <2>1, LogGrows
<1>7. /\ Dist(s, journal'.last) \in Nat /\ Dist(s, journal'.last) < LogSize /\ t.len \in Nat
      /\ Dist(s, t.start) \in Nat /\ t.start \in Positions
  BY <1>2, <1>3, <1>4, <1>6, DistRange, TransNat
<1>8. journal'.last = Ring(t.start, t.len) /\ Dist(s, t.start) + t.len < LogSize
  <2>1. Dist(s, t.start) + t.len < LogSize
    BY <1>6, <1>7
  <2>2. Ring(t.start, t.len) \in Positions /\ Dist(s, Ring(t.start, t.len)) = Dist(s, journal'.last)
    BY <1>3, <1>6, <1>7, <2>1, DistRing
  <2> QED BY <1>3, <1>6, <2>1, <2>2, DistRange
<1>9. log'[t.start] = Descriptor(t.id, t.lba)
  <2>1. log[trans.start] = Descriptor(trans.id, trans.lba)
    BY <1>1 DEF FInv, Formed
  <2> QED BY <1>1, <1>2, <1>4, <2>1
<1>10. \A b \in Tagged(t.lba) : Logged(t, b, s, log')
  <2>1. Tagged(t.lba) \subseteq t.bufs
    BY <1>1, <1>4 DEF FInv, Formed
  <2> QED BY <1>6, <2>1 DEF Tagged
<1>11. IF t.revoke = {}
         THEN t.len = k + 2 /\ log'[Ring(t.start, k + 1)] = Commit(t.id)
         ELSE /\ t.len = k + 3 /\ log'[Ring(t.start, k + 1)] = Revoke(t.id, t.revoke)
              /\ log'[Ring(t.start, k + 2)] = Commit(t.id)
  <2>1. log'[Ring(trans.start, trans.len)] = Commit(t.id)
    BY <1>1, <1>2, <1>4
  <2>2. CASE t.revoke = {}
    <3>1. trans.len = 1 + k
      BY <1>1, <1>4, <2>2 DEF FInv, Formed
    <3> HIDE DEF k
    <3>2. t.len = k + 2 /\ trans.len = k + 1
      BY <1>2, <1>4, <3>1
    <3> QED BY <2>1, <2>2, <1>4, <3>2
  <2>3. CASE t.revoke # {}
    <3>1. trans.len = 2 + k /\ log[Ring(trans.start, k + 1)] = Revoke(trans.id, trans.revoke)
      BY <1>1, <1>4, <2>3 DEF FInv, Formed
    <3> HIDE DEF k
    <3>2. t.len = k + 3 /\ trans.len = k + 2 /\ k + 1 \in Nat /\ k + 1 < trans.len
      BY <1>2, <1>4, <3>1
    <3>3. Ring(trans.start, k + 1) # journal.last /\ Ring(trans.start, k + 1) \in Positions
      <4> DEFINE x == Dist(s, trans.start)
      <4>1. x \in Nat /\ x + t.len < LogSize /\ t.len = trans.len + 1
        BY <1>4, <1>7, <1>8
      <4> HIDE DEF x
      <4>2. x + (k + 1) < LogSize /\ x + (k + 1) < x + trans.len /\ x + trans.len < LogSize
        BY <1>2, <3>2, <4>1, LogSizeAssumption
      <4>3. /\ Ring(trans.start, k + 1) \in Positions
            /\ Dist(s, Ring(trans.start, k + 1)) = x + (k + 1)
            /\ Dist(s, Ring(trans.start, trans.len)) = x + trans.len
        BY <1>2, <1>3, <3>2, <4>2, DistRing DEF x
      <4>4. x + (k + 1) # x + trans.len
        BY <1>2, <3>2, <4>1
      <4>5. Dist(s, Ring(trans.start, k + 1)) # Dist(s, Ring(trans.start, trans.len))
        BY <4>3, <4>4
      <4>6. Ring(trans.start, k + 1) # Ring(trans.start, trans.len)
        BY <4>5
      <4> QED BY <1>2, <4>3, <4>6
    <3>4. log'[Ring(t.start, k + 1)] = Revoke(t.id, t.revoke)
      BY <1>1, <1>2, <1>4, <3>1, <3>3
    <3> QED BY <2>1, <2>3, <1>4, <3>2, <3>4
  <2> QED BY <2>2, <2>3
<1>12. Written(t, s, log')
  <2>1. Cardinality(Tagged(t.lba)) = k
    BY <1>4 DEF K
  <2> HIDE DEF k
  <2> QED BY <1>7, <1>8, <1>9, <1>10, <1>11, <2>1 DEF Written
<1>13. trans.id = jsb.sequence + Len(H) /\ trans.start = EndOf(H, Len(H), s)
  BY <1>1 DEF LInv, SessionInv, Running, Building
<1> QED BY <1>4, <1>6, <1>8, <1>12, <1>13

\* With the commit block the transaction is the last of the row.
LEMMA LogCommitAddsRow ==
    ASSUME IInv, FInv, log \in [Positions -> Records], jsb \in SuperBlocks, since \in Nat,
           NEW H, LInv(H), LogCommit, NEW G, G = Append(H, trans')
    PROVE  LInv(G)'
<1> DEFINE s == jsb.start
           t == trans'
<1>1. /\ pc = "commit" /\ pc' = "revoked" /\ Quiet /\ Room /\ pc \in Active /\ pc' \in Active
      /\ Building /\ Running /\ Running'
      /\ log' = [log EXCEPT ![journal.last] = Commit(trans.id)]
      /\ journal' = [Allocated EXCEPT !.alloc_trans_id = @ + 1]
      /\ UNCHANGED <<jsb, since, cp_queue, sb_write>>
  BY DEF LogCommit, Building, Running, Active, Committing
<1>2. /\ t \in Transactions /\ Written(t, s, log')
      /\ t.id = jsb.sequence + Len(H) /\ t.start = EndOf(H, Len(H), s)
      /\ journal'.last = Ring(t.start, t.len) /\ t.n = trans.n
  BY CommitWrites
<1>3. /\ Behind(H) = 0 /\ Laid(H, log, jsb) /\ journal.start = s /\ s \in Positions /\ Len(H) \in Nat
  BY <1>1, QuietStart
<1>4. /\ s # 0 /\ jsb.sequence > 0
      /\ \A i \in 1..Len(cp_queue) : SameAs(cp_queue[i], H[i + Behind(H)])
      /\ journal.trans_id = jsb.sequence + Behind(H)
      /\ journal.alloc_trans_id = jsb.sequence + Len(H)
      /\ journal.start = EndOf(H, Behind(H), s)
      /\ trans.start = EndOf(H, Len(H), s) /\ trans.id = journal.alloc_trans_id
  BY <1>1 DEF LInv, SessionInv
<1>5. Laid(H, log', jsb)
  <2>1. /\ journal.last \in Positions /\ DOMAIN log = Positions
        /\ trans.start \in Positions /\ trans.len \in Nat
        /\ Dist(s, trans.start) + trans.len = Dist(s, journal.last)
    BY <1>1, <1>3, LastIs DEF IInv, TransInRing
  <2>2. Dist(s, trans.start) \in Nat /\ Dist(s, journal.last) \in Nat
    BY <1>3, <2>1, DistRange
  <2>3. Dist(s, EndOf(H, Len(H), s)) <= Dist(s, journal.last)
    <3> HIDE DEF s
    <3> QED BY <1>4, <2>1, <2>2
  <2> QED BY <1>1, <1>3, <2>1, <2>3, LaidKept
<1>6. /\ Laid(G, log', jsb) /\ Len(G) = Len(H) + 1
      /\ \A i \in 1..Len(H) : G[i] = H[i]
      /\ G[Len(H) + 1] = t
  BY <1>2, <1>5, LaidAppend
<1>7. CommitsBelow(log', jsb.sequence + Len(G))
  <2>1. CommitsBelow(log, jsb.sequence + Len(H))
    BY <1>4 DEF LInv, DiskInv
  <2>2. jsb.sequence \in Nat
    BY DEF SuperBlocks
  <2> SUFFICES ASSUME NEW p \in Positions, log'[p].type = "commit"
               PROVE  log'[p].seq < jsb.sequence + Len(G)
    BY DEF CommitsBelow
  <2>3. CASE p = journal.last
    <3>1. log'[p] = Commit(trans.id) /\ trans.id = jsb.sequence + Len(H)
      BY <1>1, <1>4, <2>3
    <3>2. log'[p].seq = jsb.sequence + Len(H)
      BY <3>1 DEF Commit
    <3> QED BY <1>3, <1>6, <2>2, <3>2
  <2>4. CASE p # journal.last
    <3>1. log'[p] = log[p] /\ log[p] \in Records
      BY <1>1, <2>4
    <3>2. log[p].seq < jsb.sequence + Len(H) /\ log[p].seq \in Nat
      <4>1. log[p].type = "commit"
        BY <3>1
      <4> QED BY <2>1, <3>1, <4>1 DEF CommitsBelow, Records
    <3> QED BY <1>3, <1>6, <2>2, <3>1, <3>2
  <2> QED BY <2>3, <2>4
<1>8. \A i \in 1..Len(G) : G[i].n >= since
  <2>1. \A i \in 1..Len(H) : H[i].n >= since
    BY <1>4 DEF LInv, DiskInv
  <2>2. t.n >= since
    BY <1>1, <1>2 DEF FInv, Numbered
  <2> HIDE DEF t
  <2> QED BY <1>3, <1>6, <2>1, <2>2
<1>9. DiskInv(G)'
  BY <1>1, <1>4, <1>6, <1>7, <1>8 DEF DiskInv
<1>10. RecoverInv(G)'
  BY <1>1 DEF RecoverInv
<1>11. Behind(G)' = 0
  <2>1. Len(H) - Len(cp_queue) - 0 = 0 /\ Len(cp_queue) \in Nat
    BY <1>1, <1>3, LenProperties DEF Behind, IInv, Typed
  <2> QED BY <1>1, <1>3, <1>6, <2>1 DEF Behind
<1>12. journal'.start = journal.start /\ journal'.trans_id = journal.trans_id
       /\ journal'.alloc_trans_id = journal.alloc_trans_id + 1
  <2>1. journal \in [start : 0..LogSize, last : 0..LogSize, trans_id : Nat, alloc_trans_id : Nat]
    BY DEF IInv, Typed
  <2> QED BY <1>1, <2>1 DEF Allocated
<1>13. \A i \in 1..Len(cp_queue) : SameAs(cp_queue[i], G[i])
  <2> SUFFICES ASSUME NEW i \in 1..Len(cp_queue) PROVE SameAs(cp_queue[i], G[i])
    OBVIOUS
  <2>1. i + Behind(H) = i /\ i \in 1..Len(H)
    <3>1. Len(H) - Len(cp_queue) - 0 = 0 /\ Len(cp_queue) \in Nat
      BY <1>1, <1>3, LenProperties DEF Behind, IInv, Typed
    <3> QED BY <1>3, <3>1
  <2> QED BY <1>4, <1>6, <2>1
<1>14. EndOf(G, 0, s) = s /\ EndOf(G, Len(G), s) = Ring(t.start, t.len)
  BY <1>3, <1>6 DEF EndOf
<1>15. SessionInv(G)'
  <2>1. journal'.trans_id = jsb.sequence + Behind(G)'
    BY <1>3, <1>4, <1>11, <1>12
  <2>2. journal'.alloc_trans_id = jsb.sequence + Len(G)
    <3> DEFINE n == Len(H)
               q == jsb.sequence
    <3>1. q \in Nat /\ n \in Nat /\ journal'.alloc_trans_id = (q + n) + 1 /\ Len(G) = n + 1
      BY <1>3, <1>4, <1>6, <1>12 DEF SuperBlocks
    <3> HIDE DEF n, q
    <3>2. journal'.alloc_trans_id = q + Len(G)
      BY <3>1
    <3> QED BY <3>2 DEF q
  <2>3. Len(G) > 0 /\ G[Len(G)] = t
    BY <1>3, <1>6
  <2>4. \A i \in 1..Len(cp_queue) : SameAs(cp_queue[i], G[i + Behind(G)'])
    <3>1. \A i \in 1..Len(cp_queue) : i + Behind(G)' = i
      BY <1>11
    <3> QED BY <1>13, <3>1
  <2>5. journal'.start = EndOf(G, Behind(G)', s) /\ journal'.last = EndOf(G, Len(G), s)
    BY <1>2, <1>3, <1>11, <1>12, <1>14
  <2>6. /\ jsb'.start # 0 /\ jsb'.sequence > 0 /\ Behind(G)' \in Nat
        /\ jsb' = jsb /\ cp_queue' = cp_queue /\ pc' = "revoked"
    BY <1>1, <1>4, <1>11
  <2> QED BY <1>11, <2>1, <2>2, <2>3, <2>4, <2>5, <2>6 DEF SessionInv
<1> QED BY <1>9, <1>10, <1>15 DEF LInv

\* It leaves the running transaction for the checkpoint queue.
LEMMA EnqueueKeepsRow ==
    ASSUME IInv, jsb \in SuperBlocks, NEW H, LInv(H), Enqueue
    PROVE  LInv(H)'
<1> DEFINE s == jsb.start
           u == [trans EXCEPT !.revoke = {}]
<1>1. /\ pc = "revoked" /\ pc' = "idle" /\ Quiet /\ pc \in Active /\ pc' \in Active
      /\ cp_queue' = Append(cp_queue, u)
      /\ IF cp_queue = <<>>
           THEN journal' = [journal EXCEPT !.start = trans.start, !.trans_id = trans.id]
           ELSE journal' = journal
      /\ UNCHANGED <<log, jsb, since>>
  BY DEF Enqueue, Active, Committing, disk, ghost
<1>2. /\ Behind(H) = 0 /\ Laid(H, log, jsb) /\ journal.start = s /\ s \in Positions /\ Len(H) \in Nat
  BY <1>1, QuietStart
<1>3. /\ s # 0 /\ jsb.sequence > 0
      /\ \A i \in 1..Len(cp_queue) : SameAs(cp_queue[i], H[i + Behind(H)])
      /\ Len(H) > 0 /\ H[Len(H)] = trans
      /\ journal.trans_id = jsb.sequence + Behind(H)
      /\ journal.alloc_trans_id = jsb.sequence + Len(H)
      /\ journal.start = EndOf(H, Behind(H), s)
      /\ journal.last = EndOf(H, Len(H), s)
  BY <1>1 DEF LInv, SessionInv
<1>4. /\ cp_queue \in Seq(Transactions) /\ Len(cp_queue) \in Nat /\ trans \in Transactions
      /\ journal \in [start : 0..LogSize, last : 0..LogSize, trans_id : Nat, alloc_trans_id : Nat]
  BY LenProperties DEF IInv, Typed
<1>5. u \in Transactions /\ SameAs(u, trans)
  BY <1>4 DEF Transactions, SameAs
<1> HIDE DEF u
<1>6. /\ Len(cp_queue') = Len(cp_queue) + 1
      /\ \A i \in 1..Len(cp_queue) : cp_queue'[i] = cp_queue[i]
      /\ cp_queue'[Len(cp_queue) + 1] = u
  BY <1>1, <1>4, <1>5, AppendProperties
<1>7. Len(H) = Len(cp_queue) + 1
  BY <1>1, <1>2, <1>4 DEF Behind
<1>8. Behind(H)' = 0
  BY <1>1, <1>4, <1>6, <1>7 DEF Behind
<1>9. \A i \in 1..Len(cp_queue') : SameAs(cp_queue'[i], H[i + Behind(H)'])
  <2> SUFFICES ASSUME NEW i \in 1..Len(cp_queue') PROVE SameAs(cp_queue'[i], H[i])
    BY <1>4, <1>6, <1>8
  <2>1. CASE i \in 1..Len(cp_queue)
    <3>1. i + Behind(H) = i
      BY <1>2
    <3> QED BY <1>3, <1>6, <2>1, <3>1
  <2>2. CASE i = Len(cp_queue) + 1
    BY <1>3, <1>5, <1>6, <1>7, <2>2
  <2> QED BY <1>4, <1>6, <2>1, <2>2
<1>10. /\ journal'.start = s /\ journal'.last = journal.last
       /\ journal'.trans_id = jsb.sequence /\ journal'.alloc_trans_id = journal.alloc_trans_id
  <2>0. jsb.sequence \in Nat
    BY DEF SuperBlocks
  <2>1. CASE cp_queue = <<>>
    <3>1. Len(cp_queue) = 0 /\ Len(H) = 1 /\ 1 \in 1..Len(H)
      BY <1>7, <2>1
    <3>2. H[1].id = jsb.sequence + 1 - 1 /\ H[1].start = EndOf(H, 1 - 1, s) /\ H[1] = trans
      BY <1>2, <1>3, <3>1 DEF Laid
    <3>3. trans.id = jsb.sequence /\ trans.start = s
      BY <2>0, <3>2 DEF EndOf
    <3>4. journal' = [journal EXCEPT !.start = s, !.trans_id = jsb.sequence]
      BY <1>1, <2>1, <3>3
    <3> QED BY <1>4, <3>4
  <2>2. CASE cp_queue # <<>>
    <3>1. jsb.sequence + Behind(H) = jsb.sequence
      BY <1>2, <2>0
    <3> QED BY <1>1, <1>2, <1>3, <2>2, <3>1
  <2> QED BY <2>1, <2>2
<1>11. DiskInv(H)'
  BY <1>1 DEF LInv, DiskInv
<1>12. RecoverInv(H)'
  BY <1>1 DEF RecoverInv
<1>13. SessionInv(H)'
  <2>1. journal'.start = EndOf(H, Behind(H)', s)
    BY <1>8, <1>10 DEF EndOf
  <2>2. journal'.last = EndOf(H, Len(H), s)
    BY <1>3, <1>10
  <2>3. journal'.trans_id = jsb.sequence + Behind(H)'
    BY <1>8, <1>10 DEF SuperBlocks
  <2>4. /\ jsb' = jsb /\ pc' = "idle" /\ Behind(H)' \in Nat
        /\ ~Running'
    BY <1>1, <1>8 DEF Running, Building
  <2> QED BY <1>3, <1>8, <1>9, <1>10, <2>1, <2>2, <2>3, <2>4 DEF SessionInv
<1> QED BY <1>11, <1>12, <1>13 DEF LInv

-----------------------------------------------------------------------------
(* The checkpoint.                                                         *)

\* The start of the log moves behind the head of the queue.
LEMMA PurgeKeepsRow ==
    ASSUME IInv, jsb \in SuperBlocks, NEW H, LInv(H), Purge
    PROVE  LInv(H)'
<1> DEFINE s == jsb.start
           h == cp_queue[1]
           d == Behind(H)
<1>1. /\ sb_write = "purge" /\ sb_write' = "purge" /\ cp_queue # <<>>
      /\ journal' = [journal EXCEPT !.start = Ring(h.start, h.len), !.trans_id = h.id + 1]
      /\ cp_queue' = Tail(cp_queue)
      /\ UNCHANGED <<log, jsb, recover, since, pc, trans, todo>>
  BY DEF Purge, DropHead, HeadWritten, disk, ghost
<1>2. /\ cp_queue \in Seq(Transactions) /\ Len(cp_queue) \in Nat
      /\ journal \in [start : 0..LogSize, last : 0..LogSize, trans_id : Nat, alloc_trans_id : Nat]
      /\ pc \notin Active => Len(cp_queue) = 0
  BY LenProperties DEF IInv, Typed
<1>3. /\ Len(cp_queue') = Len(cp_queue) - 1 /\ Len(cp_queue) > 0
      /\ \A i \in 1..Len(cp_queue') : cp_queue'[i] = cp_queue[i + 1]
  BY <1>1, <1>2, HeadTailProperties, EmptySeq
<1>4. pc \in Active /\ pc' \in Active /\ Running' = Running
  BY <1>1, <1>2, <1>3 DEF Running, Building
<1>5. /\ s # 0 /\ jsb.sequence > 0 /\ d \in Nat
      /\ \A i \in 1..Len(cp_queue) : SameAs(cp_queue[i], H[i + d])
      /\ pc = "revoked" => Len(H) > 0 /\ H[Len(H)] = trans
      /\ journal.alloc_trans_id = jsb.sequence + Len(H)
      /\ (IF pc \in {"data", "revoke", "commit"} THEN trans.start ELSE journal.last)
           = EndOf(H, Len(H), s)
      /\ Running /\ pc # "revoked" => trans.id = journal.alloc_trans_id
  BY <1>4 DEF LInv, SessionInv
<1>6. Laid(H, log, jsb) /\ Len(H) \in Nat /\ jsb.sequence \in Nat
  BY <1>5, LenProperties DEF LInv, DiskInv, Laid, SuperBlocks
<1>7. Len(H) = Len(cp_queue) + d + (IF pc = "revoked" THEN 1 ELSE 0)
  BY <1>2, <1>6 DEF Behind
<1>8. Behind(H)' = d + 1
  <2>1. Behind(H)' = Len(H) - (Len(cp_queue) - 1) - (IF pc = "revoked" THEN 1 ELSE 0)
    BY <1>1, <1>3 DEF Behind
  <2> HIDE DEF d
  <2> QED BY <1>2, <1>5, <1>6, <1>7, <2>1
<1> HIDE DEF d
<1>9. d + 1 \in 1..Len(H) /\ 1 + d = d + 1 /\ d + 1 \in Nat
  BY <1>2, <1>3, <1>5, <1>6, <1>7
<1>10. h.id = jsb.sequence + d /\ EndOf(H, d + 1, s) = Ring(h.start, h.len)
  <2>1. SameAs(h, H[d + 1]) /\ 1 \in 1..Len(cp_queue)
    <3>1. 1 \in 1..Len(cp_queue)
      BY <1>2, <1>3
    <3> QED BY <1>5, <1>9, <3>1
  <2>2. H[d + 1].id = jsb.sequence + (d + 1) - 1
    BY <1>6, <1>9 DEF Laid
  <2>3. d + 1 # 0
    BY <1>5
  <2> QED BY <1>5, <1>6, <2>1, <2>2, <2>3 DEF SameAs, EndOf
<1>11. /\ journal'.start = EndOf(H, d + 1, s) /\ journal'.trans_id = jsb.sequence + (d + 1)
       /\ journal'.last = journal.last /\ journal'.alloc_trans_id = journal.alloc_trans_id
  <2> HIDE DEF h
  <2>1. h.id + 1 = jsb.sequence + (d + 1)
    BY <1>5, <1>6, <1>10
  <2>2. journal' = [journal EXCEPT !.start = EndOf(H, d + 1, s), !.trans_id = jsb.sequence + (d + 1)]
    BY <1>1, <1>10, <2>1
  <2> QED BY <1>2, <2>2
<1>12. \A i \in 1..Len(cp_queue') : SameAs(cp_queue'[i], H[i + Behind(H)'])
  <2> SUFFICES ASSUME NEW i \in 1..Len(cp_queue') PROVE SameAs(cp_queue'[i], H[i + (d + 1)])
    BY <1>8
  <2>1. i + 1 \in 1..Len(cp_queue) /\ (i + 1) + d = i + (d + 1) /\ cp_queue'[i] = cp_queue[i + 1]
    BY <1>2, <1>3, <1>5
  <2> QED BY <1>5, <2>1
<1>13. DiskInv(H)'
  BY <1>1 DEF LInv, DiskInv
<1>14. RecoverInv(H)'
  BY <1>1 DEF LInv, RecoverInv
<1>15. SessionInv(H)'
  <2>1. Behind(H)' \in Nat /\ journal'.start = EndOf(H, Behind(H)', s)
        /\ journal'.trans_id = jsb.sequence + Behind(H)'
    BY <1>8, <1>9, <1>11
  <2> QED BY <1>1, <1>4, <1>5, <1>11, <1>12, <2>1 DEF SessionInv
<1> QED BY <1>13, <1>14, <1>15 DEF LInv

\* It is where the head of the queue starts, or at the end of the last one.
LEMMA PurgedKeepsRow ==
    ASSUME IInv, jsb \in SuperBlocks, NEW H, LInv(H), Purged
    PROVE  LInv(H)'
<1> DEFINE s == jsb.start
           d == Behind(H)
<1>1. /\ sb_write = "purge" /\ sb_write' = "write"
      /\ IF cp_queue = <<>> THEN journal' = journal
         ELSE journal' = [journal EXCEPT !.start = cp_queue[1].start, !.trans_id = cp_queue[1].id]
      /\ UNCHANGED <<log, jsb, since, pc, cp_queue, trans, todo>>
  BY DEF Purged, disk, ghost
<1>2. /\ cp_queue \in Seq(Transactions) /\ Len(cp_queue) \in Nat
      /\ journal \in [start : 0..LogSize, last : 0..LogSize, trans_id : Nat, alloc_trans_id : Nat]
      /\ pc \notin Active => Len(cp_queue) = 0
  BY LenProperties DEF IInv, Typed
<1>3. Behind(H)' = d /\ Running' = Running
  BY <1>1 DEF Behind, Running, Building
<1>4. pc \in Active /\ cp_queue # <<>> => journal' = journal
  <2> SUFFICES ASSUME pc \in Active, cp_queue # <<>> PROVE journal' = journal
    OBVIOUS
  <2>1. /\ d \in Nat /\ jsb.start # 0
        /\ \A i \in 1..Len(cp_queue) : SameAs(cp_queue[i], H[i + d])
        /\ journal.trans_id = jsb.sequence + d /\ journal.start = EndOf(H, d, s)
    BY DEF LInv, SessionInv
  <2>2. Laid(H, log, jsb) /\ Len(H) \in Nat /\ jsb.sequence \in Nat
    BY <2>1, LenProperties DEF LInv, DiskInv, Laid, SuperBlocks
  <2>3. Len(H) = Len(cp_queue) + d + (IF pc = "revoked" THEN 1 ELSE 0)
    BY <1>2, <2>2 DEF Behind
  <2> HIDE DEF d
  <2>4. 1 \in 1..Len(cp_queue) /\ d + 1 \in 1..Len(H) /\ 1 + d = d + 1 /\ d + 1 - 1 = d
    <3>1. Len(cp_queue) > 0
      BY <1>2, EmptySeq
    <3> QED BY <1>2, <2>1, <2>2, <2>3, <3>1
  <2>5. SameAs(cp_queue[1], H[d + 1])
    BY <2>1, <2>4
  <2>6. H[d + 1].id = jsb.sequence + d /\ H[d + 1].start = EndOf(H, d, s)
    <3> DEFINE j == d + 1
    <3>1. j \in 1..Len(H) /\ j - 1 = d /\ jsb.sequence + j - 1 = jsb.sequence + d
      BY <2>1, <2>2, <2>4
    <3> HIDE DEF j
    <3>2. H[j].id = jsb.sequence + j - 1 /\ H[j].start = EndOf(H, j - 1, s)
      BY <2>2, <3>1 DEF Laid
    <3> QED BY <3>1, <3>2 DEF j
  <2>7. cp_queue[1].id = journal.trans_id /\ cp_queue[1].start = journal.start
    BY <2>1, <2>2, <2>4, <2>5, <2>6 DEF SameAs
  <2> QED BY <1>1, <1>2, <2>7
<1>5. pc \in Active => journal' = journal
  BY <1>1, <1>4
<1>6. DiskInv(H)' /\ RecoverInv(H)'
  BY <1>1 DEF LInv, DiskInv, RecoverInv
<1>7. SessionInv(H)'
  BY <1>1, <1>3, <1>5 DEF LInv, SessionInv
<1> QED BY <1>6, <1>7 DEF LInv

\* With the superblock the row starts at the first one that is not home.
LEMMA WriteSbDropsRow ==
    ASSUME IInv, log \in [Positions -> Records], jsb \in SuperBlocks, NEW H, LInv(H),
           WriteSb, pc \in Active, NEW G, G = Rest(H, Behind(H))
    PROVE  LInv(G)'
<1> DEFINE s == jsb.start
           d == Behind(H)
           n == Len(H)
           q == jsb.sequence
<1>1. /\ sb_write = "write" /\ sb_write' = "no"
      /\ jsb' = [start |-> journal.start, sequence |-> journal.trans_id]
      /\ UNCHANGED <<log, since, pc, cp_queue, trans, todo, journal>>
  BY DEF WriteSb, ghost
<1>2. /\ cp_queue \in Seq(Transactions) /\ Len(cp_queue) \in Nat
      /\ journal \in [start : 0..LogSize, last : 0..LogSize, trans_id : Nat, alloc_trans_id : Nat]
      /\ journal.start \in Positions
  BY LenProperties DEF IInv, Typed
<1>3. /\ s # 0 /\ q > 0 /\ d \in Nat
      /\ \A i \in 1..Len(cp_queue) : SameAs(cp_queue[i], H[i + d])
      /\ pc = "revoked" => Len(H) > 0 /\ H[Len(H)] = trans
      /\ journal.trans_id = q + d
      /\ journal.alloc_trans_id = q + Len(H)
      /\ journal.start = EndOf(H, d, s)
      /\ (IF pc \in {"data", "revoke", "commit"} THEN trans.start ELSE journal.last)
           = EndOf(H, Len(H), s)
      /\ Running /\ pc # "revoked" => trans.id = journal.alloc_trans_id
  BY DEF LInv, SessionInv
<1>4. /\ Laid(H, log, jsb) /\ CommitsBelow(log, q + Len(H)) /\ \A i \in 1..Len(H) : H[i].n >= since
      /\ n \in Nat /\ q \in Nat
  BY <1>3, LenProperties DEF LInv, DiskInv, Laid, SuperBlocks
<1>5. n = Len(cp_queue) + d + (IF pc = "revoked" THEN 1 ELSE 0)
  BY <1>2, <1>4 DEF Behind
<1> HIDE DEF d
<1>6. d \in 0..Len(H)
  BY <1>2, <1>3, <1>4, <1>5
<1>7. jsb' \in SuperBlocks /\ jsb'.start = EndOf(H, d, s) /\ jsb'.sequence = q + d
      /\ jsb'.start \in Positions
  BY <1>1, <1>2, <1>3 DEF SuperBlocks
<1>8. /\ Laid(G, log, jsb') /\ Len(G) + d = Len(H)
      /\ \A i \in 1..Len(G) : G[i] = H[i + d]
      /\ \A m \in 0..Len(G) : EndOf(G, m, jsb'.start) = EndOf(H, m + d, s)
  <2>1. G = Rest(H, d)
    BY DEF d
  <2>2. H \in Seq(Transactions)
    BY <1>4 DEF Laid
  <2>3. Laid(G, log, jsb')
    BY <1>4, <1>6, <1>7, <2>1, LaidRest
  <2>4. Len(G) + d = Len(H) /\ \A i \in 1..Len(G) : G[i] = H[i + d]
    BY <1>6, <2>1, <2>2, RestIs
  <2>5. \A m \in 0..Len(G) : EndOf(G, m, jsb'.start) = EndOf(H, m + d, s)
    <3>1. \A m \in 0..Len(Rest(H, d)) :
            EndOf(Rest(H, d), m, EndOf(H, d, s)) = EndOf(H, m + d, s)
      BY <1>6, <2>2, RestEnds
    <3> QED BY <1>7, <2>1, <3>1
  <2> QED BY <2>3, <2>4, <2>5
<1>9. Len(G) \in Nat /\ jsb'.sequence + Len(G) = q + n
  <2>1. Len(G) \in Nat
    BY <1>8, LenProperties DEF Laid
  <2>2. Len(G) + d = n /\ jsb'.sequence = q + d /\ d \in Nat /\ q \in Nat
    BY <1>3, <1>4, <1>7, <1>8
  <2> DEFINE k == Len(G)
             z == jsb'.sequence
  <2>3. z + k = q + n
    <3> HIDE DEF k, z, n, q
    <3> QED BY <1>4, <2>1, <2>2 DEF k, z
  <2> QED BY <2>1, <2>3
<1>10. DiskInv(G)'
  <2>1. CommitsBelow(log, jsb'.sequence + Len(G))
    BY <1>4, <1>9
  <2>2. \A i \in 1..Len(G) : G[i].n >= since
    <3> SUFFICES ASSUME NEW i \in 1..Len(G) PROVE G[i].n >= since
      OBVIOUS
    <3>1. G[i] = H[i + d] /\ i + d \in 1..Len(H)
      BY <1>3, <1>4, <1>6, <1>8, <1>9
    <3> QED BY <1>4, <3>1
  <2>3. jsb'.start # 0
    BY <1>7 DEF Positions
  <2> QED BY <1>1, <1>8, <2>1, <2>2, <2>3 DEF DiskInv
<1>11. RecoverInv(G)'
  BY <1>1 DEF RecoverInv, Active, Committing
<1>12. Behind(G)' = 0
  <2>1. Len(G) - Len(cp_queue) - (IF pc = "revoked" THEN 1 ELSE 0) = 0
    BY <1>2, <1>3, <1>4, <1>5, <1>8, <1>9
  <2> QED BY <1>1, <2>1 DEF Behind
<1>13. \A i \in 1..Len(cp_queue) : SameAs(cp_queue[i], G[i + Behind(G)'])
  <2> SUFFICES ASSUME NEW i \in 1..Len(cp_queue) PROVE SameAs(cp_queue[i], G[i])
    BY <1>12
  <2>1. i \in 1..Len(G)
    BY <1>2, <1>3, <1>4, <1>5, <1>8, <1>9
  <2> QED BY <1>3, <1>8, <2>1
<1>14. EndOf(G, Behind(G)', jsb'.start) = journal.start
  BY <1>7, <1>12, <1>3 DEF EndOf
<1>15. EndOf(G, Len(G), jsb'.start) = EndOf(H, Len(H), s)
  <2>1. Len(G) \in 0..Len(G)
    BY <1>9
  <2> QED BY <1>8, <2>1
<1>16. pc = "revoked" => Len(G) > 0 /\ G[Len(G)] = trans
  <2> SUFFICES ASSUME pc = "revoked" PROVE Len(G) > 0 /\ G[Len(G)] = trans
    OBVIOUS
  <2> DEFINE k == Len(G)
  <2>1. Len(H) = Len(cp_queue) + d + 1 /\ k + d = Len(H) /\ k \in Nat
    BY <1>5, <1>8, <1>9
  <2>2. k \in 1..k /\ k > 0
    <3> HIDE DEF k
    <3> QED BY <1>2, <1>3, <2>1
  <2>3. G[k] = H[k + d]
    BY <1>8, <2>2
  <2>4. G[k] = H[Len(H)]
    <3> HIDE DEF k
    <3> QED BY <2>1, <2>3
  <2> QED BY <1>3, <2>2, <2>4
<1>17. SessionInv(G)'
  <2>1. jsb'.sequence > 0 /\ jsb'.sequence \in Nat /\ jsb'.start # 0
    BY <1>3, <1>4, <1>7 DEF Positions
  <2>2. journal.trans_id = jsb'.sequence + Behind(G)'
    BY <1>3, <1>7, <1>12, <2>1
  <2>3. journal.alloc_trans_id = jsb'.sequence + Len(G)
    BY <1>3, <1>9
  <2>4. Running' = Running /\ Behind(G)' \in Nat
    BY <1>1, <1>12 DEF Running, Building
  <2>5. /\ journal' = journal /\ cp_queue' = cp_queue /\ trans' = trans /\ pc' = pc
    BY <1>1
  <2> QED BY <1>3, <1>12, <1>13, <1>14, <1>15, <1>16, <2>1, <2>2, <2>3, <2>4, <2>5 DEF SessionInv
<1> QED BY <1>10, <1>11, <1>17 DEF LInv

\* The journal superblock is written only in a session.
NoWrite == pc \notin Active => sb_write = "no"

LEMMA EndWriteNoWrite ==
    ASSUME Len(cp_queue) = 0, cp_queue \in Seq(Transactions), NEW id, NEW b, EndWrite(id, b)
    PROVE  sb_write' = "no"
<1>1. Pending(b) = {}
  <2>1. DOMAIN cp_queue = {}
    BY LenProperties
  <2> QED BY <2>1 DEF Pending
<1> QED BY <1>1 DEF EndWrite

LEMMA NoWriteKept ==
    ASSUME IInv, CInv, NoWrite, [Next]_vars
    PROVE  NoWrite'
<1>1. /\ cp_queue \in Seq(Transactions)
      /\ pc \notin Active => Len(cp_queue) = 0 /\ cp_queue = <<>>
  BY EmptySeq DEF IInv, Typed
<1> SUFFICES ASSUME pc' \notin Active PROVE sb_write' = "no"
  BY DEF NoWrite
<1>2. CASE UNCHANGED vars
  BY <1>2 DEF vars, session, NoWrite
<1>3. CASE SessionStep
  BY <1>3 DEF SessionStep, StartFlag, StartSb, Stop, StopFlag, StopSb, session, NoWrite, Active,
              Committing, Quiet
<1>4. CASE CallerStep
  BY <1>4 DEF CallerStep, Begin, Abort, CommitBegin, Dirty, WriteData, Free, Active, Committing
<1>5. CASE CommitStep
  <2>1. pc \in Active /\ pc' \in Active
    <3>1. CASE AllocDescriptor \/ LogDescriptor \/ LogRevoke \/ LogCommit \/ Enqueue
      BY <3>1 DEF AllocDescriptor, LogDescriptor, LogRevoke, LogCommit, Enqueue, Active, Committing
    <3>2. ASSUME NEW b \in Blocks, LogData(b) \/ CompleteRevoked(b)
          PROVE  pc \in Active /\ pc' \in Active
      BY <3>2 DEF LogData, CompleteRevoked, Active, Committing
    <3> QED BY <1>5, <3>1, <3>2 DEF CommitStep
  <2> QED BY <2>1
<1>6. CASE CheckpointStep
  <2>1. pc' = pc /\ pc \notin Active /\ sb_write = "no" /\ Len(cp_queue) = 0 /\ cp_queue = <<>>
    BY <1>1, <1>6 DEF CheckpointStep, EndWriteOwn, Purge, Purged, WriteSb, MakeRoom, NoWrite
  <2>2. EndWriteOwn
    BY <1>6, <2>1 DEF CheckpointStep, Purge, Purged, WriteSb, MakeRoom
  <2>3. ~ending.first
    BY <2>1, <2>2 DEF EndWriteOwn, CInv, EndsLater
  <2> QED BY <2>2, <2>3 DEF EndWriteOwn, EndWritten
<1>7. ASSUME NEW b \in Blocks, Flush(b)
      PROVE  sb_write' = "no"
  <2>1. pc' = pc /\ Quiet
    BY <1>7 DEF Flush
  <2>2. sb_write' = sb_write \/ EndWrite(rec[b], b)
    BY <1>7 DEF Flush
  <2> QED BY <1>1, <2>1, <2>2, EndWriteNoWrite DEF Quiet
<1>8. CASE Crash
  BY <1>8 DEF Crash
<1>9. CASE Recover \/ RecoverFlag \/ RecoverPut
  BY <1>9 DEF Recover, RecoverFlag, RecoverPut, session, NoWrite, Active, Committing
<1>10. ASSUME NEW r \in todo, Replay(r)
       PROVE  sb_write' = "no"
  BY <1>10 DEF Replay, session, NoWrite, Active, Committing
<1> QED BY <1>2, <1>3, <1>4, <1>5, <1>6, <1>7, <1>8, <1>9, <1>10 DEF Next, RecoverStep

LEMMA CommitsKeepRow ==
    ASSUME IInv, log \in [Positions -> Records], jsb \in SuperBlocks, NEW H, LInv(H),
           CommitStep, ~LogCommit
    PROVE  LInv(H)'
<1>1. ASSUME NEW b \in Blocks, CompleteRevoked(b)
      PROVE  LInv(H)'
  <2>1. /\ cp_queue \in Seq(Transactions) /\ Quiet /\ pc = "revoked" /\ pc \in Active
        /\ UNCHANGED <<log, jsb, journal, since, pc, trans, todo>>
        /\ EndWrite(NewestId(b), b)
    BY <1>1 DEF IInv, Typed, CompleteRevoked, disk, ghost, Active, Committing
  <2>2. ThinnedQueue(cp_queue, cp_queue')
    BY <2>1, EndWriteThins
  <2>3. Behind(H) = 0
    BY <2>1 DEF LInv, SessionInv, Quiet
  <2> QED BY <2>1, <2>2, <2>3, WritesKeepRow
<1> QED BY <1>1, EnqueueKeepsRow, WritesKeepCommits DEF CommitStep

LEMMA CheckpointsKeepRow ==
    ASSUME IInv, CInv, NoWrite, log \in [Positions -> Records], jsb \in SuperBlocks,
           NEW H, LInv(H), CheckpointStep
    PROVE  LInv(H)' \/ (WriteSb /\ pc \in Active /\ \E G : G = Rest(H, Behind(H)) /\ LInv(G)')
<1>1. cp_queue \in Seq(Transactions) /\ (pc \notin Active => cp_queue = <<>>)
  BY EmptySeq DEF IInv, Typed
<1>2. CASE EndWriteOwn
  <2> DEFINE queue == [i \in DOMAIN cp_queue |->
                         IF cp_queue[i].id = ending.id THEN Without(cp_queue[i], ending.block)
                         ELSE cp_queue[i]]
  <2>1. /\ sb_write = "no" /\ cp_queue' = queue
        /\ UNCHANGED <<log, jsb, journal, since, pc, trans, todo>>
    BY <1>2 DEF EndWriteOwn, disk, ghost
  <2>2. \A i \in DOMAIN cp_queue : Thinned(cp_queue[i], queue[i])
    BY DEF Thinned
  <2>3. queue = [i \in DOMAIN cp_queue |-> queue[i]]
    OBVIOUS
  <2> HIDE DEF queue
  <2>4. ThinnedQueue(cp_queue, cp_queue')
    BY <1>1, <2>1, <2>2, <2>3, ThinnedMap
  <2>5. pc \in Active => Behind(H) = 0
    BY <2>1 DEF LInv, SessionInv
  <2> QED BY <1>1, <2>1, <2>4, <2>5, WritesKeepRow
<1>3. CASE MakeRoom
  <2>1. /\ Quiet /\ cp_queue # <<>> /\ pc \in Active
        /\ UNCHANGED <<log, jsb, pc, trans, todo, since>>
    BY <1>1, <1>3 DEF MakeRoom, ghost
  <2>2. ~HeadWritten
    BY <2>1 DEF CInv, HeadOpen, HeadWritten, Quiet
  <2>3. PICK b \in cp_queue[1].bufs : FlushHead(b)
    BY <1>3, <2>2 DEF MakeRoom
  <2>4. 1 \in 1..Len(cp_queue)
    <3>1. Len(cp_queue) \in Nat /\ Len(cp_queue) # 0
      BY <1>1, <2>1, EmptySeq, LenProperties
    <3> QED BY <3>1
  <2>5. cp_queue[1] \in Transactions
    BY <1>1, <2>4, ElementOfSeq
  <2>6. b \in Blocks
    BY <2>3, <2>5 DEF Transactions
  <2>7. EndWrite(cp_queue[1].id, b) /\ UNCHANGED journal
    BY <2>3 DEF FlushHead
  <2>8. ThinnedQueue(cp_queue, cp_queue')
    BY <1>1, <2>6, <2>7, EndWriteThins
  <2>9. Behind(H) = 0
    BY <2>1 DEF LInv, SessionInv, Quiet
  <2> QED BY <1>1, <2>1, <2>7, <2>8, <2>9, WritesKeepRow
<1>4. CASE WriteSb
  <2>1. pc \in Active
    BY <1>4 DEF WriteSb, NoWrite
  <2>2. PICK G : G = Rest(H, Behind(H))
    OBVIOUS
  <2>3. LInv(G)'
    BY <1>4, <2>1, <2>2, WriteSbDropsRow
  <2> QED BY <1>4, <2>1, <2>2, <2>3
<1> QED BY <1>2, <1>3, <1>4, PurgeKeepsRow, PurgedKeepsRow DEF CheckpointStep

-----------------------------------------------------------------------------
(* Sessions and recovery.                                                  *)

\* The session begins with an empty row, behind every commit block in the log.
LEMMA StartSbKeepsRow ==
    ASSUME IInv, jsb \in SuperBlocks, NEW H, LInv(H), StartSb
    PROVE  LInv(H)'
<1>1. /\ pc = "starting" /\ pc' = "idle"
      /\ journal' = [start |-> 1, last |-> 1,
                     trans_id |-> jsb.sequence + 1, alloc_trans_id |-> jsb.sequence + 1]
      /\ jsb' = [start |-> 1, sequence |-> jsb.sequence + 1]
      /\ UNCHANGED <<log, cp_queue>>
  BY DEF StartSb
<1>2. H = <<>> /\ CommitsBelow(log, jsb.sequence + 1) /\ jsb.sequence \in Nat
  BY <1>1 DEF LInv, RecoverInv, DiskInv, SuperBlocks
<1>3. H \in Seq(Transactions) /\ Len(H) = 0 /\ Len(cp_queue) = 0
  BY <1>1, <1>2, EmptySeq DEF IInv, Typed, Active, Committing
<1>4. 1 \in Positions
  BY LogSizeAssumption DEF Positions
<1>5. Laid(H, log, jsb')
  BY <1>1, <1>3, <1>4 DEF Laid
<1>6. jsb'.sequence + Len(H) = jsb.sequence + 1 /\ jsb'.start = 1
      /\ jsb'.sequence = jsb.sequence + 1 /\ jsb.sequence + 1 \in Nat /\ jsb.sequence + 1 > 0
  BY <1>1, <1>2, <1>3
<1>7. DiskInv(H)'
  BY <1>1, <1>2, <1>3, <1>5, <1>6 DEF DiskInv
<1>8. RecoverInv(H)'
  BY <1>1 DEF RecoverInv
<1>9. Behind(H)' = 0
  BY <1>1, <1>3 DEF Behind
<1>10. SessionInv(H)'
  <2>1. EndOf(H, Behind(H)', 1) = 1 /\ EndOf(H, Len(H), 1) = 1
    BY <1>3, <1>9 DEF EndOf
  <2>2. ~Running'
    BY <1>1 DEF Running, Building
  <2>3. jsb'.sequence + Behind(H)' = jsb.sequence + 1
    BY <1>6, <1>9
  <2>4. Behind(H)' \in Nat /\ \A i \in 1..Len(cp_queue') : SameAs(cp_queue'[i], H[i + Behind(H)'])
    BY <1>1, <1>3, <1>9
  <2>5. /\ journal'.start = 1 /\ journal'.last = 1
        /\ journal'.trans_id = jsb.sequence + 1 /\ journal'.alloc_trans_id = jsb.sequence + 1
    BY <1>1
  <2> QED BY <1>1, <1>6, <1>9, <2>1, <2>2, <2>3, <2>4, <2>5 DEF SessionInv
<1> QED BY <1>7, <1>8, <1>10 DEF LInv

LEMMA SessionsKeepRow ==
    ASSUME Mild, IInv, jsb \in SuperBlocks, NEW H, LInv(H), SessionStep
    PROVE  LInv(H)' \/ (StopSb /\ LInv(<<>>)')
<1>1. CASE StartFlag
  <2>1. pc' = "starting" /\ UNCHANGED <<log, jsb, since>> /\ jsb.start = 0 /\ jsb.sequence # 0
    BY <1>1 DEF StartFlag, Mild, ghost
  <2>2. pc' \notin Active /\ RecoverInv(H)'
    BY <2>1 DEF RecoverInv, Active, Committing
  <2> QED BY <2>1, <2>2, OutsideKeepsRow
<1>2. CASE Stop
  <2>1. UNCHANGED <<log, jsb, journal, since, cp_queue, sb_write>> /\ pc = "idle" /\ pc' = "stopping"
    BY <1>2 DEF Stop, disk, session, ghost
  <2>2. /\ pc \in Active \ {"data", "revoke", "commit", "revoked"}
        /\ pc' \in Active \ {"data", "revoke", "commit", "revoked"} /\ ~Running'
    BY <2>1 DEF Active, Committing, Running, Building
  <2> QED BY <2>1, <2>2, IdleKeepsRow
<1>3. CASE StopFlag
  <2>1. pc' = "stopped" /\ UNCHANGED <<log, jsb, since>>
    BY <1>3 DEF StopFlag, ghost
  <2>2. pc' \notin Active /\ RecoverInv(H)'
    BY <2>1 DEF RecoverInv, Active, Committing
  <2> QED BY <2>1, <2>2, OutsideKeepsRow
<1>4. CASE StopSb
  <2>1. pc' = "off" /\ jsb' = [start |-> 0, sequence |-> 0]
    BY <1>4 DEF StopSb
  <2>2. pc' \notin Active /\ RecoverInv(<<>>)'
    BY <2>1 DEF RecoverInv, Active, Committing
  <2>3. DiskInv(<<>>)' /\ SessionInv(<<>>)'
    BY <2>1, <2>2 DEF DiskInv, SessionInv
  <2> QED BY <1>4, <2>2, <2>3 DEF LInv
<1> QED BY <1>1, <1>2, <1>3, <1>4, StartSbKeepsRow DEF SessionStep

\* Recovery finds the row, and the transaction ids go on behind it.
LEMMA RecoveryKeepsRow ==
    ASSUME log \in [Positions -> Records], jsb \in SuperBlocks, NEW H, LInv(H),
           Crash \/ Recover \/ RecoverStep
    PROVE  LInv(H)' \/ (RecoverPut /\ LInv(<<>>)')
<1>1. CASE Crash
  <2>1. pc' = "off" /\ UNCHANGED <<log, jsb, since>>
    BY <1>1 DEF Crash, disk, ghost
  <2>2. pc' \notin Active /\ RecoverInv(H)'
    BY <2>1 DEF RecoverInv, Active, Committing
  <2> QED BY <2>1, <2>2, OutsideKeepsRow
<1>2. jsb.start # 0 =>
        /\ H \in Seq(Transactions) /\ Len(H) \in Nat
        /\ Found(log, jsb) = Entries(H, Len(H)) /\ DOMAIN Found(log, jsb) = 1..Len(H)
        /\ Len(Found(log, jsb)) = Len(H) /\ CommitsBelow(log, jsb.sequence + Len(H))
  <2> SUFFICES ASSUME jsb.start # 0
               PROVE  /\ H \in Seq(Transactions) /\ Len(H) \in Nat
                      /\ Found(log, jsb) = Entries(H, Len(H)) /\ DOMAIN Found(log, jsb) = 1..Len(H)
                      /\ Len(Found(log, jsb)) = Len(H) /\ CommitsBelow(log, jsb.sequence + Len(H))
    OBVIOUS
  <2>1. Laid(H, log, jsb) /\ CommitsBelow(log, jsb.sequence + Len(H))
    BY DEF LInv, DiskInv
  <2>2. H \in Seq(Transactions) /\ Len(H) \in Nat
    BY <2>1, LenProperties DEF Laid
  <2>3. Found(log, jsb) = Entries(H, Len(H))
    BY <2>1, FoundLaid
  <2>4. DOMAIN Found(log, jsb) = 1..Len(H)
    BY <2>3 DEF Entries
  <2>5. Found(log, jsb) \in Seq(Committed)
    BY FoundType
  <2>6. Len(Found(log, jsb)) = Len(H)
    <3>1. Len(Found(log, jsb)) \in Nat /\ DOMAIN Found(log, jsb) = 1..Len(Found(log, jsb))
      BY <2>5, LenProperties
    <3> DEFINE n == Len(Found(log, jsb))
               m == Len(H)
    <3>2. n \in Nat /\ m \in Nat /\ 1..n = 1..m
      BY <2>2, <2>4, <3>1
    <3> HIDE DEF n, m
    <3>3. n = m
      BY <3>2
    <3> QED BY <3>3 DEF n, m
  <2> QED BY <2>1, <2>2, <2>3, <2>4, <2>6
<1>3. CASE Recover
  <2>1. /\ pc' = "replay" /\ UNCHANGED <<log, jsb, since>> /\ jsb.start # 0
        /\ todo' = {r \in (DOMAIN Found(log, jsb)) \X Blocks :
                      r[1] \in Replays(Found(log, jsb), r[2])}
    BY <1>3 DEF Recover, disk, ghost
  <2>2. ASSUME NEW r \in todo'
        PROVE  r[1] \in 1..Len(H) /\ H[r[1]].lba[r[2]] # 0
    <3>1. r[1] \in 1..Len(H) /\ Found(log, jsb)[r[1]].lba[r[2]] # 0
      BY <1>2, <2>1 DEF Replays
    <3>2. Found(log, jsb)[r[1]] = Entry(H[r[1]])
      BY <1>2, <2>1, <3>1 DEF Entries
    <3> QED BY <3>1, <3>2 DEF Entry
  <2>3. pc' \notin Active /\ RecoverInv(H)'
    BY <2>1, <2>2 DEF RecoverInv, Active, Committing
  <2> QED BY <2>1, <2>3, OutsideKeepsRow
<1>4. ASSUME NEW r \in todo, Replay(r)
      PROVE  LInv(H)'
  <2>1. pc = "replay" /\ pc' = "replay" /\ UNCHANGED <<log, jsb, since>> /\ todo' = todo \ {r}
    BY <1>4 DEF Replay, ghost
  <2>2. pc' \notin Active /\ RecoverInv(H)'
    BY <2>1 DEF LInv, RecoverInv, Active, Committing
  <2> QED BY <2>1, <2>2, OutsideKeepsRow
<1>5. CASE RecoverFlag
  <2>1. pc = "replay" /\ pc' = "put" /\ UNCHANGED <<log, jsb, since>>
    BY <1>5 DEF RecoverFlag, ghost
  <2>2. pc' \notin Active /\ RecoverInv(H)'
    BY <2>1 DEF LInv, RecoverInv, Active, Committing
  <2> QED BY <2>1, <2>2, OutsideKeepsRow
<1>6. CASE RecoverPut
  <2> DEFINE id == LastTransId(log, jsb)
  <2>1. /\ pc = "put" /\ pc' = "off" /\ jsb' = [start |-> 0, sequence |-> id]
        /\ UNCHANGED <<log, since>> /\ jsb.start # 0 /\ jsb.sequence \in Nat
    BY <1>6 DEF RecoverPut, LInv, RecoverInv, SuperBlocks, ghost
  <2>2. id \in Nat /\ jsb.sequence + Len(H) <= id + 1
    <3> DEFINE n == Len(Found(log, jsb))
    <3>1. n \in Nat /\ Len(H) = n
      BY <1>2, <2>1
    <3>2. id = IF n > 0 THEN jsb.sequence + n - 1 ELSE jsb.sequence
      BY DEF LastTransId
    <3> HIDE DEF n, id
    <3> QED BY <2>1, <3>1, <3>2
  <2> HIDE DEF id
  <2>3. CommitsBelow(log, id + 1)
    <3> SUFFICES ASSUME NEW p \in Positions, log[p].type = "commit"
                 PROVE  log[p].seq < id + 1
      BY DEF CommitsBelow
    <3>1. log[p].seq < jsb.sequence + Len(H)
      BY <1>2, <2>1 DEF CommitsBelow
    <3>2. log[p] \in Records
      OBVIOUS
    <3>3. log[p].seq \in Nat
      BY <3>2 DEF Records
    <3> QED BY <1>2, <2>1, <2>2, <3>1, <3>3
  <2>4. DiskInv(<<>>)' /\ RecoverInv(<<>>)' /\ SessionInv(<<>>)'
    BY <2>1, <2>3 DEF DiskInv, RecoverInv, SessionInv, Active, Committing
  <2> QED BY <1>6, <2>4 DEF LInv
<1> QED BY <1>1, <1>3, <1>4, <1>5, <1>6 DEF RecoverStep

\* The log holds a row before the first step, and after every step: the same, or
\* one more, or without the first ones, or none.
LEMMA RowKept ==
    ASSUME Mild, IInv, CInv, FInv, NoWrite, log \in [Positions -> Records], jsb \in SuperBlocks,
           since \in Nat, NEW H, LInv(H), [Next]_vars
    PROVE  \E G : /\ LInv(G)'
                  /\ \/ G = H /\ ~LogCommit
                     \/ G = Append(H, trans') /\ LogCommit
                     \/ G = Rest(H, Behind(H)) /\ WriteSb /\ pc \in Active
                     \/ G = <<>> /\ (StopSb \/ RecoverPut)
<1>1. CASE UNCHANGED vars
  <2>1. Behind(H)' = Behind(H) /\ Running' = Running
    BY <1>1 DEF vars, session, Behind, Running, Building
  <2>2. LInv(H)'
    BY <1>1, <2>1 DEF vars, session, disk, ghost, LInv, DiskInv, SessionInv, RecoverInv
  <2>3. ~LogCommit
    BY <1>1 DEF vars, LogCommit
  <2> QED BY <2>2, <2>3
<1>2. CASE LogCommit
  <2>1. PICK G : G = Append(H, trans')
    OBVIOUS
  <2>2. LInv(G)'
    BY <1>2, <2>1, LogCommitAddsRow
  <2> QED BY <1>2, <2>1, <2>2
<1>3. CASE ~LogCommit /\ (SessionStep \/ Crash \/ Recover \/ RecoverStep)
  BY <1>3, SessionsKeepRow, RecoveryKeepsRow
<1>4. CASE CallerStep
  <2>1. ~LogCommit
    BY <1>4 DEF CallerStep, Begin, Abort, CommitBegin, Dirty, WriteData, Free, LogCommit
  <2> QED BY <1>4, <2>1, CallersKeepRow
<1>5. CASE CommitStep /\ ~LogCommit
  BY <1>5, CommitsKeepRow
<1>6. CASE CheckpointStep /\ ~LogCommit
  <2>1. LInv(H)' \/ (WriteSb /\ pc \in Active /\ \E G : G = Rest(H, Behind(H)) /\ LInv(G)')
    BY <1>6, CheckpointsKeepRow
  <2> QED BY <1>6, <2>1
<1>7. ASSUME NEW b \in Blocks, Flush(b), ~LogCommit
      PROVE  LInv(H)'
  BY <1>7, FlushKeepsRow
<1> QED BY <1>1, <1>2, <1>3, <1>4, <1>5, <1>6, <1>7 DEF Next

-----------------------------------------------------------------------------
(* Types of the variables.                                                 *)

\* Those that the invariants above do not already give
OwnTypes ==
    /\ home \in [Blocks -> Nat] /\ log \in [Positions -> Records]
    /\ jsb \in SuperBlocks /\ recover \in BOOLEAN
    /\ rec \in [Blocks -> Nat] /\ buf \in [Blocks -> Nat \cup {None}]
    /\ ending \in [id : Nat, block : Blocks, first : BOOLEAN]
    /\ todo \subseteq (Nat \X Blocks)
    /\ use \in [Blocks -> Uses] /\ saved \in [Blocks -> Uses] /\ since \in Nat

LEMMA NewestType ==
    ASSUME IInv, NEW b \in Blocks
    PROVE  NewestId(b) \in Nat /\ Restored(b) \in Nat \cup {None}
<1>1. cp_queue \in Seq(Transactions)
  BY DEF IInv, Typed
<1>2. CASE Pending(b) = {}
  BY <1>2 DEF NewestId, Restored
<1>3. CASE Pending(b) # {}
  <2> DEFINE i == Newest(b)
             t == cp_queue[i]
  <2>1. i \in 1..Len(cp_queue) /\ b \in t.bufs
    BY <1>1, <1>3, NewestIs DEF IsNewest, Pending
  <2>2. t \in Transactions
    BY <1>1, <2>1, ElementOfSeq
  <2>3. Logged(t, b, journal.start, log)
    BY <2>1 DEF IInv, QueueInRing, InRing
  <2>4. log[t.lba[b]] = Data(t.n) /\ t.id \in Nat /\ t.n \in Nat
    BY <2>2, <2>3 DEF Logged, Transactions
  <2>5. log[t.lba[b]].val = t.n
    BY <2>4 DEF Data
  <2>6. NewestId(b) = t.id /\ Restored(b) = log[t.lba[b]].val
    BY <1>3 DEF NewestId, Restored
  <2> HIDE DEF t
  <2> QED BY <2>4, <2>5, <2>6
<1> QED BY <1>2, <1>3

LEMMA EndWriteTypes ==
    ASSUME NEW id \in Nat, NEW b \in Blocks, EndWrite(id, b)
    PROVE  ending' \in [id : Nat, block : Blocks, first : BOOLEAN]
<1> DEFINE first == cp_queue # <<>> /\ cp_queue[1].id = id
<1>1. ending' = [id |-> id, block |-> b, first |-> first]
  BY DEF EndWrite
<1>2. first \in BOOLEAN
  OBVIOUS
<1> HIDE DEF first
<1> QED BY <1>1, <1>2

LEMMA NothingEnding == NotEnding \in [id : Nat, block : Blocks, first : BOOLEAN]
BY BitmapAssumption DEF NotEnding

LEMMA SessionTypes ==
    ASSUME IInv, OwnTypes, SessionStep
    PROVE  OwnTypes'
<1>1. txn \in Nat /\ jsb.sequence \in Nat
  BY DEF IInv, Typed, OwnTypes, SuperBlocks
<1>2. 1 \in 0..LogSize /\ 0 \in 0..LogSize
  BY LogSizeAssumption
<1>3. CASE StartFlag \/ Stop \/ StopFlag
  BY <1>3 DEF StartFlag, Stop, StopFlag, OwnTypes, session, disk, ghost
<1>5. CASE StopSb
  BY <1>2, <1>5 DEF StopSb, OwnTypes, SuperBlocks, session, ghost
<1>4. CASE StartSb
  BY <1>1, <1>2, <1>4 DEF StartSb, OwnTypes, SuperBlocks
<1> QED BY <1>3, <1>4, <1>5 DEF SessionStep

LEMMA SetDirtyTypes ==
    ASSUME IInv, OwnTypes, NEW S \in SUBSET Blocks, SetDirty(S)
    PROVE  rec' \in [Blocks -> Nat] /\ buf' \in [Blocks -> Nat \cup {None}]
<1>1. trans.id \in Nat /\ trans.n \in Nat
  BY DEF IInv, Typed, Transactions
<1> QED BY <1>1 DEF SetDirty, OwnTypes

LEMMA CallersTypes ==
    ASSUME IInv, OwnTypes, CallerStep
    PROVE  OwnTypes'
<1>1. trans.id \in Nat /\ trans.n \in Nat /\ Bitmap \in Blocks
  BY BitmapAssumption DEF IInv, Typed, Transactions
<1>2. CASE Begin
  BY <1>2 DEF Begin, OwnTypes, session, disk, ghost
<1>3. CASE Abort
  <2>1. buf' \in [Blocks -> Nat \cup {None}]
    BY <1>3, NewestType DEF Abort, OwnTypes
  <2>2. rec' \in [Blocks -> Nat]
    BY <1>3, NewestType DEF Abort, OwnTypes
  <2> QED BY <1>3, <2>1, <2>2 DEF Abort, OwnTypes, disk, ghost
<1>4. CASE CommitBegin
  <2>1. rec' \in [Blocks -> Nat]
    BY <1>4, NewestType DEF CommitBegin, OwnTypes
  <2> QED BY <1>4, <2>1 DEF CommitBegin, OwnTypes, disk, ghost
<1>5. ASSUME NEW b \in Blocks, Dirty(b)
      PROVE  OwnTypes'
  <2>1. PICK S \in SUBSET Blocks : SetDirty(S)
    BY <1>1, <1>5 DEF Dirty
  <2>2. rec' \in [Blocks -> Nat] /\ buf' \in [Blocks -> Nat \cup {None}]
    BY <2>1, SetDirtyTypes
  <2>3. use' \in [Blocks -> Uses]
    BY <1>5 DEF Dirty, OwnTypes, Uses
  <2> QED BY <1>5, <2>2, <2>3 DEF Dirty, OwnTypes, disk, ghost
<1>6. ASSUME NEW b \in Blocks, WriteData(b)
      PROVE  OwnTypes'
  <2>1. SetDirty({Bitmap}) /\ {Bitmap} \in SUBSET Blocks
    BY <1>1, <1>6 DEF WriteData
  <2>2. rec' \in [Blocks -> Nat] /\ buf' \in [Blocks -> Nat \cup {None}]
    BY <2>1, SetDirtyTypes
  <2>3. use' \in [Blocks -> Uses] /\ home' \in [Blocks -> Nat]
    BY <1>1, <1>6 DEF WriteData, OwnTypes, Uses
  <2> QED BY <1>6, <2>2, <2>3 DEF WriteData, OwnTypes, disk, ghost
<1>7. ASSUME NEW b \in Blocks, Free(b)
      PROVE  OwnTypes'
  <2>1. rec' \in [Blocks -> Nat] /\ buf' \in [Blocks -> Nat \cup {None}]
    BY <1>1, <1>7 DEF Free, OwnTypes
  <2>2. use' \in [Blocks -> Uses]
    BY <1>7 DEF Free, OwnTypes, Uses
  <2> QED BY <1>7, <2>1, <2>2 DEF Free, OwnTypes, disk, ghost
<1> QED BY <1>2, <1>3, <1>4, <1>5, <1>6, <1>7 DEF CallerStep

\* A block of the log is written.
LEMMA LogTypes ==
    ASSUME OwnTypes, NEW p \in Positions, NEW r \in Records, log' = [log EXCEPT ![p] = r]
    PROVE  log' \in [Positions -> Records]
BY DEF OwnTypes

LEMMA CommitsTypes ==
    ASSUME IInv, OwnTypes, CommitStep
    PROVE  OwnTypes'
<1>1. trans \in Transactions /\ trans.id \in Nat /\ trans.n \in Nat /\ trans.lba \in Tags
      /\ trans.revoke \in SUBSET Blocks
  BY DEF IInv, Typed, Transactions
<1>2. Building => journal.last \in Positions /\ trans.start \in Positions
  BY LastIs
<1>3. CASE AllocDescriptor
  BY <1>3 DEF AllocDescriptor, OwnTypes, disk, ghost
<1>4. CASE LogDescriptor
  <2>1. Descriptor(trans.id, trans.lba) \in Records
    BY <1>1 DEF Descriptor, Records
  <2>2. trans.start \in Positions /\ log' = [log EXCEPT ![trans.start] = Descriptor(trans.id, trans.lba)]
    BY <1>2, <1>4 DEF LogDescriptor, Building
  <2>3. log' \in [Positions -> Records]
    BY <2>1, <2>2, LogTypes
  <2> QED BY <1>4, <2>3 DEF LogDescriptor, OwnTypes, session, ghost
<1>5. CASE LogRevoke
  <2>1. Revoke(trans.id, trans.revoke) \in Records
    BY <1>1 DEF Revoke, Records
  <2>2. journal.last \in Positions /\ log' = [log EXCEPT ![journal.last] = Revoke(trans.id, trans.revoke)]
    BY <1>2, <1>5 DEF LogRevoke, Building
  <2>3. log' \in [Positions -> Records]
    BY <2>1, <2>2, LogTypes
  <2> QED BY <1>5, <2>3 DEF LogRevoke, OwnTypes, ghost
<1>6. CASE LogCommit
  <2>1. Commit(trans.id) \in Records
    BY <1>1 DEF Commit, Records
  <2>2. journal.last \in Positions /\ log' = [log EXCEPT ![journal.last] = Commit(trans.id)]
    BY <1>2, <1>6 DEF LogCommit, Building
  <2>3. log' \in [Positions -> Records]
    BY <2>1, <2>2, LogTypes
  <2> QED BY <1>6, <2>3 DEF LogCommit, OwnTypes
<1>7. CASE Enqueue
  BY <1>7 DEF Enqueue, OwnTypes, disk, ghost
<1>8. ASSUME NEW b \in Blocks, LogData(b)
      PROVE  OwnTypes'
  <2>1. b \in trans.bufs /\ pc = "data" /\ Building /\ Running
    BY <1>8 DEF LogData, Unlogged, Building, Running
  <2>2. buf[b] = trans.n
    BY <2>1 DEF IInv, BufsOwned
  <2>3. Data(buf[b]) \in Records
    BY <1>1, <2>2 DEF Data, Records
  <2>4. journal.last \in Positions /\ log' = [log EXCEPT ![journal.last] = Data(buf[b])]
    BY <1>2, <1>8, <2>1 DEF LogData
  <2>5. log' \in [Positions -> Records]
    BY <2>3, <2>4, LogTypes
  <2> QED BY <1>8, <2>5 DEF LogData, OwnTypes, ghost
<1>9. ASSUME NEW b \in Blocks, CompleteRevoked(b)
      PROVE  OwnTypes'
  <2>1. ending' \in [id : Nat, block : Blocks, first : BOOLEAN]
    BY <1>9, NewestType, EndWriteTypes DEF CompleteRevoked
  <2> QED BY <1>9, <2>1 DEF CompleteRevoked, OwnTypes, disk, ghost
<1> QED BY <1>3, <1>4, <1>5, <1>6, <1>7, <1>8, <1>9 DEF CommitStep

LEMMA CheckpointTypes ==
    ASSUME IInv, OwnTypes, CheckpointStep
    PROVE  OwnTypes'
<1>1. /\ cp_queue \in Seq(Transactions)
      /\ journal \in [start : 0..LogSize, last : 0..LogSize, trans_id : Nat, alloc_trans_id : Nat]
  BY DEF IInv, Typed
<1>2. CASE EndWriteOwn
  BY <1>2, NothingEnding DEF EndWriteOwn, OwnTypes, disk, ghost
<1>3. CASE Purge
  BY <1>3 DEF Purge, DropHead, OwnTypes, disk, ghost
<1>4. CASE Purged
  BY <1>4 DEF Purged, OwnTypes, disk, ghost
<1>5. CASE WriteSb
  BY <1>1, <1>5 DEF WriteSb, OwnTypes, SuperBlocks, ghost
<1>6. CASE MakeRoom
  <2>1. UNCHANGED <<log, jsb, recover, todo, use, saved, since>>
    BY <1>6 DEF MakeRoom, ghost
  <2>2. CASE HeadWritten
    BY <1>6, <2>1, <2>2 DEF MakeRoom, DropHead, OwnTypes
  <2>3. CASE ~HeadWritten
    <3>1. PICK b \in cp_queue[1].bufs : FlushHead(b)
      BY <1>6, <2>3 DEF MakeRoom
    <3> DEFINE t == cp_queue[1]
               mine == buf[b] # None /\ rec[b] = t.id
    <3>2. 1 \in 1..Len(cp_queue)
      <4>1. cp_queue # <<>>
        BY <1>6 DEF MakeRoom
      <4>2. Len(cp_queue) \in Nat /\ Len(cp_queue) # 0
        BY <1>1, <4>1, EmptySeq, LenProperties
      <4> QED BY <4>2
    <3>3. t \in Transactions
      BY <1>1, <3>2, ElementOfSeq
    <3>4. b \in Blocks /\ t.id \in Nat /\ t.n \in Nat
      BY <3>1, <3>3 DEF Transactions
    <3>5. Logged(t, b, journal.start, log)
      BY <3>1, <3>2 DEF IInv, QueueInRing, InRing
    <3>6. log[t.lba[b]].val \in Nat
      <4>1. log[t.lba[b]] = Data(t.n)
        BY <3>5 DEF Logged
      <4>2. log[t.lba[b]].val = t.n
        BY <4>1 DEF Data
      <4> HIDE DEF t
      <4> QED BY <3>4, <4>2
    <3>7. /\ home' = [home EXCEPT ![b] = IF mine THEN buf[b] ELSE log[t.lba[b]].val]
          /\ buf' = IF mine THEN [buf EXCEPT ![b] = None] ELSE buf
          /\ EndWrite(t.id, b) /\ rec' = rec
      BY <3>1 DEF FlushHead
    <3>8. home' \in [Blocks -> Nat]
      <4>1. mine => buf[b] \in Nat
        BY <3>4 DEF OwnTypes
      <4> HIDE DEF mine, t
      <4>2. (IF mine THEN buf[b] ELSE log[t.lba[b]].val) \in Nat
        BY <3>6, <4>1
      <4> QED BY <3>4, <3>7, <4>2 DEF OwnTypes
    <3>9. buf' \in [Blocks -> Nat \cup {None}]
      <4> HIDE DEF mine
      <4> QED BY <3>4, <3>7 DEF OwnTypes
    <3>10. ending' \in [id : Nat, block : Blocks, first : BOOLEAN]
      <4> HIDE DEF t
      <4> QED BY <3>4, <3>7, EndWriteTypes
    <3> QED BY <2>1, <3>7, <3>8, <3>9, <3>10 DEF OwnTypes
  <2> QED BY <2>2, <2>3
<1> QED BY <1>2, <1>3, <1>4, <1>5, <1>6 DEF CheckpointStep

LEMMA FlushTypes ==
    ASSUME OwnTypes, NEW b \in Blocks, Flush(b)
    PROVE  OwnTypes'
<1>1. home' \in [Blocks -> Nat] /\ buf' \in [Blocks -> Nat \cup {None}]
  BY DEF Flush, OwnTypes
<1>2. ending' \in [id : Nat, block : Blocks, first : BOOLEAN]
  <2>1. CASE rec[b] = 0
    BY <2>1 DEF Flush, OwnTypes
  <2>2. CASE rec[b] # 0
    <3>1. rec[b] \in Nat /\ EndWrite(rec[b], b)
      BY <2>2 DEF Flush, OwnTypes
    <3> QED BY <3>1, EndWriteTypes
  <2> QED BY <2>1, <2>2
<1> QED BY <1>1, <1>2 DEF Flush, OwnTypes, ghost

\* Recovery writes what the row holds.
LEMMA RecoveryTypes ==
    ASSUME Mild, OwnTypes, NEW H, LInv(H), Crash \/ Recover \/ RecoverStep
    PROVE  OwnTypes'
<1>1. log \in [Positions -> Records] /\ jsb \in SuperBlocks
  BY DEF OwnTypes
<1>2. CASE Crash
  <2>1. rec' \in [Blocks -> Nat] /\ buf' \in [Blocks -> Nat \cup {None}]
    BY <1>2 DEF Crash
  <2>2. UNCHANGED <<home, log, jsb, recover, saved, since>>
        /\ ending' = NotEnding /\ todo' = {} /\ use' = saved
    BY <1>2 DEF Crash, disk, ghost
  <2> QED BY <2>1, <2>2, NothingEnding DEF OwnTypes
<1>3. Found(log, jsb) \in Seq(Committed)
  BY <1>1, FoundType
<1>4. CASE Recover
  <2>1. DOMAIN Found(log, jsb) \subseteq Nat
    BY <1>3, LenProperties
  <2>2. todo' \subseteq (Nat \X Blocks)
    BY <1>4, <2>1 DEF Recover
  <2> QED BY <1>4, <2>2 DEF Recover, OwnTypes, disk, session, ghost
<1>5. ASSUME NEW r \in todo, Replay(r)
      PROVE  OwnTypes'
  <2> DEFINE v == log[Found(log, jsb)[r[1]].lba[r[2]]].val
             t == H[r[1]]
  <2>1. /\ pc = "replay" /\ home' = [home EXCEPT ![r[2]] = v] /\ todo' = todo \ {r}
        /\ UNCHANGED <<log, jsb, recover, rec, buf, ending, use, saved, since>>
    BY <1>5 DEF Replay, Mild, session, ghost
  <2>2. r[2] \in Blocks /\ r[1] \in 1..Len(H) /\ t.lba[r[2]] # 0 /\ jsb.start # 0
    BY <2>1 DEF OwnTypes, LInv, RecoverInv
  <2>3. Laid(H, log, jsb) /\ CommitsBelow(log, jsb.sequence + Len(H))
    BY <2>2 DEF LInv, DiskInv
  <2>4. t \in Transactions /\ Written(t, jsb.start, log)
    BY <1>1, <2>2, <2>3, LaidFacts
  <2>5. Found(log, jsb) = Entries(H, Len(H))
    BY <1>1, <2>3, FoundLaid
  <2>6. Found(log, jsb)[r[1]].lba = t.lba
    BY <2>2, <2>5 DEF Entries, Entry
  <2>7. log[t.lba[r[2]]] = Data(t.n) /\ t.n \in Nat
    BY <2>2, <2>4 DEF Written, Logged, Tagged, Transactions
  <2>8. v \in Nat
    <3>1. log[t.lba[r[2]]].val = t.n
      BY <2>7 DEF Data
    <3> HIDE DEF t
    <3> QED BY <2>6, <2>7, <3>1
  <2> HIDE DEF v
  <2> QED BY <2>1, <2>2, <2>8 DEF OwnTypes
<1>6. CASE RecoverFlag
  BY <1>6 DEF RecoverFlag, OwnTypes, session, ghost
<1>7. CASE RecoverPut
  <2>1. LastTransId(log, jsb) \in Nat
    <3> DEFINE n == Len(Found(log, jsb))
    <3>1. n \in Nat /\ jsb.sequence \in Nat
      BY <1>1, <1>3, LenProperties DEF SuperBlocks
    <3>2. LastTransId(log, jsb) = IF n > 0 THEN jsb.sequence + n - 1 ELSE jsb.sequence
      BY DEF LastTransId
    <3> HIDE DEF n
    <3> QED BY <3>1, <3>2
  <2>2. jsb' \in SuperBlocks
    BY <1>7, <2>1, LogSizeAssumption DEF RecoverPut, SuperBlocks
  <2> QED BY <1>7, <2>2 DEF RecoverPut, OwnTypes, session, ghost
<1> QED BY <1>2, <1>4, <1>5, <1>6, <1>7 DEF RecoverStep

LEMMA OwnTypesKept ==
    ASSUME Mild, IInv, OwnTypes, NEW H, LInv(H), [Next]_vars
    PROVE  OwnTypes'
<1>1. CASE UNCHANGED vars
  BY <1>1 DEF vars, disk, session, ghost, OwnTypes
<1>2. CASE Next
  BY <1>2, SessionTypes, CallersTypes, CommitsTypes, CheckpointTypes, FlushTypes, RecoveryTypes
     DEF Next
<1> QED BY <1>1, <1>2

-----------------------------------------------------------------------------
(* All of it together.                                                     *)

Layout == IInv /\ NInv /\ CInv /\ FInv /\ NoWrite /\ OwnTypes /\ \E H : LInv(H)

LEMMA LayoutInit ==
    ASSUME Init
    PROVE  Layout
<1>1. /\ cp_queue = <<>> /\ Len(cp_queue) = 0 /\ trans = NoTrans /\ pc = "off" /\ sb_write = "no"
      /\ buf = [b \in Blocks |-> None] /\ ending = NotEnding /\ jsb = [start |-> 0, sequence |-> 1]
      /\ log = [p \in Positions |-> Data(0)] /\ txn = 0 /\ since = 0
      /\ rec = [b \in Blocks |-> 0] /\ home = [b \in Blocks |-> 0] /\ recover = FALSE /\ todo = {}
      /\ use = [b \in Blocks |-> IF b = Bitmap THEN "meta" ELSE "free"] /\ saved = use
  BY EmptySeq DEF Init
<1>2. pc \notin Active /\ ~Running /\ ~Building
  BY <1>1 DEF Active, Committing, Running, Building
<1>3. IInv
  BY InitHolds
<1>4. NInv
  BY <1>1, <1>2 DEF NInv, IdsOrdered, Noticed, RevokedGone, EndsOlder, NoneRunning, NoTrans
<1>5. CInv
  BY <1>1, <1>2 DEF CInv, HeadOpen, EndsLater, RevokeOne, SomeBufs, NoTrans
<1>6. FInv /\ NoWrite
  BY <1>1, <1>2 DEF FInv, Formed, Numbered, NoWrite, Building, Running
<1>7. OwnTypes
  <2>1. home \in [Blocks -> Nat] /\ rec \in [Blocks -> Nat] /\ buf \in [Blocks -> Nat \cup {None}]
    BY <1>1
  <2>2. log \in [Positions -> Records]
    BY <1>1 DEF Data, Records
  <2>3. jsb \in SuperBlocks /\ since \in Nat /\ todo \subseteq (Nat \X Blocks)
    BY <1>1, LogSizeAssumption DEF SuperBlocks
  <2>4. use \in [Blocks -> Uses] /\ saved \in [Blocks -> Uses] /\ recover \in BOOLEAN
    BY <1>1 DEF Uses
  <2> QED BY <1>1, <2>1, <2>2, <2>3, <2>4, NothingEnding DEF OwnTypes
<1>8. LInv(<<>>)
  <2>1. CommitsBelow(log, 2)
    BY <1>1 DEF CommitsBelow, Data
  <2>2. DiskInv(<<>>)
    BY <1>1, <2>1 DEF DiskInv
  <2> QED BY <1>1, <1>2, <2>2 DEF LInv, SessionInv, RecoverInv
<1> QED BY <1>3, <1>4, <1>5, <1>6, <1>7, <1>8 DEF Layout

LEMMA LayoutKept ==
    ASSUME Mild, Layout, [Next]_vars
    PROVE  Layout'
<1>1. PICK H : LInv(H)
  BY DEF Layout
<1>2. /\ IInv /\ NInv /\ CInv /\ FInv /\ NoWrite /\ OwnTypes
      /\ log \in [Positions -> Records] /\ jsb \in SuperBlocks /\ since \in Nat
      /\ rec \in [Blocks -> Nat] /\ "delayed" \notin Triggers
  BY DEF Layout, OwnTypes, Mild
<1>3. IInv' /\ NInv'
  BY <1>2, IInvKept, NInvKept
<1>4. CInv'
  BY <1>2, CInvKept
<1>5. FInv' /\ NoWrite'
  BY <1>2, FInvKept, NoWriteKept
<1>6. OwnTypes'
  BY <1>1, <1>2, OwnTypesKept
<1>7. PICK G : LInv(G)'
  BY <1>1, <1>2, RowKept
<1> QED BY <1>3, <1>4, <1>5, <1>6, <1>7 DEF Layout

\* In every state the variables have their types: the content of every block and
\* buffer is that of a transaction, also after any number of power failures and
\* recoveries (jbd_replay_block_tags only copies blocks that hold contents).
THEOREM TypesHold ==
    ASSUME Mild
    PROVE  Spec => []TypeOK
<1>1. Init => Layout
  BY LayoutInit
<1>2. Layout /\ [Next]_vars => Layout'
  BY LayoutKept
<1>3. Layout => TypeOK
  <2> SUFFICES ASSUME Layout PROVE TypeOK
    OBVIOUS
  <2>1. OwnTypes /\ Typed /\ sb_write \in {"no", "purge", "write"}
    BY DEF Layout, IInv, CInv
  <2> QED BY <2>1 DEF OwnTypes, Typed, TypeOK, SuperBlocks
<1> QED BY <1>1, <1>2, <1>3, PTL DEF Spec

\* Recovery never takes what an earlier session has left in the log for its own:
\* every content it finds was written in the session whose start the superblock
\* gives ("To invalidate any stale records ...", jbd_journal_start).
THEOREM OnlyOfThisSession ==
    ASSUME Mild
    PROVE  Spec => []NoStaleRecords
<1>1. Init => Layout
  BY LayoutInit
<1>2. Layout /\ [Next]_vars => Layout'
  BY LayoutKept
<1>3. Layout => NoStaleRecords
  <2> SUFFICES ASSUME Layout, jsb.start # 0, NEW i \in DOMAIN Found(log, jsb),
                      NEW b \in Tagged(Found(log, jsb)[i].lba)
               PROVE  log[Found(log, jsb)[i].lba[b]].val >= since
    BY DEF NoStaleRecords
  <2>1. PICK H : LInv(H)
    BY DEF Layout
  <2>2. /\ Laid(H, log, jsb) /\ CommitsBelow(log, jsb.sequence + Len(H))
        /\ \A k \in 1..Len(H) : H[k].n >= since
        /\ log \in [Positions -> Records] /\ jsb \in SuperBlocks
    BY <2>1 DEF LInv, DiskInv, Layout, OwnTypes
  <2>3. Found(log, jsb) = Entries(H, Len(H))
    BY <2>2, FoundLaid
  <2>4. i \in 1..Len(H) /\ Found(log, jsb)[i].lba = H[i].lba
    BY <2>3 DEF Entries, Entry
  <2>5. Written(H[i], jsb.start, log)
    BY <2>2, <2>4, LaidFacts
  <2>6. log[H[i].lba[b]] = Data(H[i].n)
    BY <2>4, <2>5 DEF Written, Logged
  <2>7. log[H[i].lba[b]].val = H[i].n
    BY <2>6 DEF Data
  <2> QED BY <2>2, <2>4, <2>7
<1> QED BY <1>1, <1>2, <1>3, PTL DEF Spec
=============================================================================
