---------------------------- MODULE Journal_proofs ----------------------------
(***************************************************************************)
(* The log is never reused too early, for any size of the log, any blocks, *)
(* any number of transactions and sessions, and in every situation of      *)
(* Triggers: JournalCopyIntact.                                            *)
(*                                                                         *)
(* The invariant looks at the ring from journal.start on.  Seen from there *)
(* the transactions of the checkpoint queue lie one behind the other, then *)
(* comes what the running one has logged, and journal.last is behind all   *)
(* of it.  An allocation writes where journal.last is, and the start moves *)
(* only over the head of the queue.                                        *)
(***************************************************************************)
EXTENDS Journal, SequenceTheorems, FiniteSetTheorems, WellFoundedInduction, TLAPS

\* How far position p of the log is behind position s.
Dist(s, p) == IF p >= s THEN p - s ELSE p - s + LogSize

Building == pc \in {"data", "revoke", "commit", "revoked"}
Running == pc \in {"run", "alloc"} \/ Building

\* Where the space of the committed transactions ends
End == IF Building THEN Dist(journal.start, trans.start)
                   ELSE Dist(journal.start, journal.last)

\* The log l, which starts at s, has the content of b that t has logged, in t's
\* part of the ring.
Logged(t, b, s, l) ==
    /\ t.lba[b] \in Positions
    /\ Dist(s, t.start) < Dist(s, t.lba[b])
    /\ Dist(s, t.lba[b]) < Dist(s, t.start) + t.len
    /\ l[t.lba[b]] = Data(t.n)

InRing(t, s, end, l) ==
    /\ t.start \in Positions
    /\ Dist(s, t.start) + t.len <= end
    /\ \A b \in t.bufs : Logged(t, b, s, l)

Ordered(queue, s) ==
    \A i, j \in 1..Len(queue) :
        i < j => Dist(s, queue[i].start) + queue[i].len <= Dist(s, queue[j].start)

QueueInRing ==
    /\ \A i \in 1..Len(cp_queue) : InRing(cp_queue[i], journal.start, End, log)
    /\ Ordered(cp_queue, journal.start)

IdsGrow ==
    /\ \A i \in 1..Len(cp_queue) : cp_queue[i].id < journal.alloc_trans_id
    /\ Running => /\ \A i \in 1..Len(cp_queue) : cp_queue[i].id < trans.id
                  /\ trans.id <= journal.alloc_trans_id
    /\ pc = "revoked" => trans.id < journal.alloc_trans_id

\* The buffers of the running transaction are its own.
BufsOwned ==
    Running => \A b \in trans.bufs :
        /\ rec[b] = trans.id
        /\ buf[b] = trans.n \/ (pc = "run" /\ buf[b] = None)

TransInRing ==
    /\ Building => /\ trans.start \in Positions /\ trans.len > 0
                   /\ Dist(journal.start, trans.start) + trans.len
                        = Dist(journal.start, journal.last)
                   /\ \A b \in trans.bufs :
                        trans.lba[b] # 0 => Logged(trans, b, journal.start, log)
    /\ (Building /\ pc # "data") => Unlogged = {}
    /\ pc \in {"run", "alloc"} => trans.lba = NoTags

Typed ==
    /\ DOMAIN log = Positions /\ DOMAIN buf = Blocks /\ DOMAIN rec = Blocks
    /\ pc \in PCs /\ txn \in Nat
    /\ journal \in [start : 0..LogSize, last : 0..LogSize, trans_id : Nat, alloc_trans_id : Nat]
    /\ cp_queue \in Seq(Transactions) /\ trans \in Transactions
    /\ pc \in Active => journal.start \in Positions /\ journal.last \in Positions
    /\ pc \notin Active => Len(cp_queue) = 0
    /\ pc = "starting" => jsb.sequence \in Nat

IInv == Typed /\ QueueInRing /\ TransInRing /\ IdsGrow /\ BufsOwned

-----------------------------------------------------------------------------
(* The ring.                                                               *)

\* Distances are less than the size of the log, and different positions are
\* not equally far.
LEMMA DistRange ==
    ASSUME NEW s \in Positions, NEW p \in Positions
    PROVE  /\ Dist(s, p) \in Nat /\ Dist(s, p) < LogSize
           /\ \A q \in Positions : Dist(s, p) = Dist(s, q) => p = q
BY LogSizeAssumption DEF Positions, Dist

\* Going on in the ring adds to the distance, as long as it does not go round.
LEMMA DistRing ==
    ASSUME NEW s \in Positions, NEW p \in Positions, NEW n \in Nat, Dist(s, p) + n < LogSize
    PROVE  Ring(p, n) \in Positions /\ Dist(s, Ring(p, n)) = Dist(s, p) + n
BY LogSizeAssumption DEF Positions, Dist, Ring

\* The log is full when its last block is next to its first.
LEMMA RoomLeft ==
    ASSUME NEW s \in Positions, NEW p \in Positions, Ring(p, 1) # s
    PROVE  Dist(s, p) + 1 < LogSize
BY LogSizeAssumption DEF Positions, Dist, Ring

\* What lies behind the new start of the log is nearer by as much as the start moves.
LEMMA Rebase ==
    ASSUME NEW s \in Positions, NEW q \in Positions, NEW p \in Positions,
           Dist(s, q) <= Dist(s, p)
    PROVE  Dist(q, p) = Dist(s, p) - Dist(s, q)
BY LogSizeAssumption DEF Positions, Dist

-----------------------------------------------------------------------------
(* A transaction in the ring.                                              *)

LEMMA TransNat ==
    ASSUME NEW t \in Transactions
    PROVE  t.len \in Nat /\ t.id \in Nat
BY LogSizeAssumption DEF Transactions

\* A write behind the end of the committed transactions leaves them alone.
LEMMA WriteBehind ==
    ASSUME NEW t \in Transactions, NEW s \in Positions, NEW end \in Nat, NEW l,
           DOMAIN l = Positions, InRing(t, s, end, l),
           NEW p \in Positions, end <= Dist(s, p), NEW r
    PROVE  InRing(t, s, end, [l EXCEPT ![p] = r])
<1> SUFFICES ASSUME NEW b \in t.bufs
             PROVE  Logged(t, b, s, [l EXCEPT ![p] = r])
  BY DEF InRing
<1>1. Logged(t, b, s, l) /\ t.start \in Positions /\ Dist(s, t.start) + t.len <= end
  BY DEF InRing
<1>2. t.lba[b] \in Positions /\ Dist(s, t.lba[b]) < Dist(s, t.start) + t.len
  BY <1>1 DEF Logged
<1>3. t.len \in Nat
  BY LogSizeAssumption DEF Transactions
<1>4. Dist(s, t.start) \in Nat /\ Dist(s, t.lba[b]) \in Nat /\ Dist(s, p) \in Nat
  BY <1>1, <1>2, DistRange
<1>5. Dist(s, t.lba[b]) # Dist(s, p)
  BY <1>1, <1>2, <1>3, <1>4
<1>6. t.lba[b] # p
  BY <1>5
<1> QED BY <1>1, <1>2, <1>6 DEF Logged

\* A transaction stays where it is when the log starts later, at or before it.
LEMMA LoggedRebase ==
    ASSUME NEW t \in Transactions, NEW s \in Positions, NEW q \in Positions, NEW l, NEW b,
           t.start \in Positions, Dist(s, q) <= Dist(s, t.start), Logged(t, b, s, l)
    PROVE  Logged(t, b, q, l)
<1>1. t.lba[b] \in Positions /\ Dist(s, t.start) < Dist(s, t.lba[b])
  BY DEF Logged
<1>2. /\ Dist(s, t.start) \in Nat /\ Dist(s, t.lba[b]) \in Nat /\ Dist(s, q) \in Nat
  BY <1>1, DistRange
<1>3. t.len \in Nat
  BY LogSizeAssumption DEF Transactions
<1>4. Dist(q, t.start) = Dist(s, t.start) - Dist(s, q)
  BY Rebase
<1>5. Dist(q, t.lba[b]) = Dist(s, t.lba[b]) - Dist(s, q)
  BY <1>1, <1>2, Rebase
<1> HIDE DEF Dist
<1> QED BY <1>1, <1>2, <1>3, <1>4, <1>5 DEF Logged

LEMMA InRingRebase ==
    ASSUME NEW t \in Transactions, NEW s \in Positions, NEW q \in Positions, NEW l,
           NEW end \in Nat, Dist(s, q) <= Dist(s, t.start), InRing(t, s, end, l)
    PROVE  InRing(t, q, end - Dist(s, q), l)
<1>1. t.start \in Positions /\ Dist(s, t.start) + t.len <= end
  BY DEF InRing
<1>2. \A b \in t.bufs : Logged(t, b, q, l)
  BY <1>1, LoggedRebase DEF InRing
<1>3. Dist(q, t.start) = Dist(s, t.start) - Dist(s, q)
  BY <1>1, Rebase
<1>4. Dist(s, t.start) \in Nat /\ Dist(s, q) \in Nat /\ t.len \in Nat
  BY <1>1, DistRange, LogSizeAssumption DEF Transactions
<1>5. Dist(q, t.start) + t.len <= end - Dist(s, q)
  BY <1>1, <1>3, <1>4
<1> QED BY <1>1, <1>2, <1>5 DEF InRing

\* What has to be written home gets less.
Thinned(t, u) == u = t \/ \E b : u = Without(t, b)

LEMMA ThinnedTrans ==
    ASSUME NEW t \in Transactions, NEW u, Thinned(t, u)
    PROVE  /\ u \in Transactions
           /\ u.id = t.id /\ u.n = t.n /\ u.start = t.start /\ u.len = t.len
           /\ u.lba = t.lba /\ u.bufs \subseteq t.bufs
BY DEF Thinned, Without, Transactions

LEMMA ThinnedInRing ==
    ASSUME NEW t \in Transactions, NEW u, Thinned(t, u),
           NEW s, NEW end, NEW l, InRing(t, s, end, l)
    PROVE  InRing(u, s, end, l)
BY ThinnedTrans DEF InRing, Logged

ThinnedQueue(queue, queue2) ==
    /\ queue2 \in Seq(Transactions) /\ Len(queue2) = Len(queue)
    /\ \A i \in 1..Len(queue) : Thinned(queue[i], queue2[i])

\* A function on the indices of the queue that thins its elements is such a queue.
LEMMA ThinnedMap ==
    ASSUME NEW queue \in Seq(Transactions), NEW F,
           F = [i \in DOMAIN queue |-> F[i]],
           \A i \in DOMAIN queue : Thinned(queue[i], F[i])
    PROVE  ThinnedQueue(queue, F)
<1>1. DOMAIN queue = 1..Len(queue) /\ Len(queue) \in Nat
  BY LenProperties
<1>2. \A i \in 1..Len(queue) : queue[i] \in Transactions
  BY ElementOfSeq
<1>3. \A i \in 1..Len(queue) : F[i] \in Transactions
  BY <1>1, <1>2, ThinnedTrans
<1>4. F \in [1..Len(queue) -> Transactions]
  BY <1>1, <1>3
<1>5. F \in Seq(Transactions)
  BY <1>1, <1>4, IsASeq
<1>6. Len(F) = Len(queue)
  BY <1>1, <1>4, <1>5, LenProperties
<1> QED BY <1>1, <1>5, <1>6 DEF ThinnedQueue

\* jbd_trans_end_write only takes blocks off the lists of what is to be written.
LEMMA EndWriteThins ==
    ASSUME cp_queue \in Seq(Transactions), NEW id, NEW b \in Blocks, EndWrite(id, b)
    PROVE  ThinnedQueue(cp_queue, cp_queue')
<1> DEFINE older == IF rec[b] = id THEN {i \in Pending(b) : cp_queue[i].id # id} ELSE {}
           F == [i \in DOMAIN cp_queue |-> IF i \in older THEN Without(cp_queue[i], b)
                                           ELSE cp_queue[i]]
<1>1. cp_queue' = F
  BY DEF EndWrite
<1>2. \A i \in DOMAIN cp_queue : Thinned(cp_queue[i], F[i])
  BY DEF Thinned
<1>3. F = [i \in DOMAIN cp_queue |-> F[i]]
  OBVIOUS
<1> HIDE DEF F
<1> QED BY <1>1, <1>2, <1>3, ThinnedMap

LEMMA SameThins ==
    ASSUME cp_queue \in Seq(Transactions), cp_queue' = cp_queue
    PROVE  ThinnedQueue(cp_queue, cp_queue')
BY DEF ThinnedQueue, Thinned

-----------------------------------------------------------------------------
(* The steps.                                                              *)

\* Where the committed transactions end
LEMMA EndRange ==
    ASSUME IInv, pc \in Active
    PROVE  /\ End \in Nat /\ End < LogSize /\ End <= Dist(journal.start, journal.last)
           /\ Building => End < Dist(journal.start, journal.last)
<1>1. journal.start \in Positions /\ journal.last \in Positions
  BY DEF IInv, Typed
<1>2. Dist(journal.start, journal.last) \in Nat /\ Dist(journal.start, journal.last) < LogSize
  BY <1>1, DistRange
<1>3. CASE ~Building
  BY <1>2, <1>3 DEF End
<1>4. CASE Building
  <2>1. trans.start \in Positions /\ trans.len > 0 /\ trans.len \in Nat
    BY <1>4, LogSizeAssumption DEF IInv, TransInRing, Typed, Transactions
  <2>2. Dist(journal.start, trans.start) \in Nat
    BY <1>1, <2>1, DistRange
  <2>3. Dist(journal.start, trans.start) + trans.len = Dist(journal.start, journal.last)
    BY <1>4 DEF IInv, TransInRing
  <2> QED BY <1>2, <1>4, <2>1, <2>2, <2>3, LogSizeAssumption DEF End
<1> QED BY <1>3, <1>4

\* The queue stays in the ring when it is at most thinned and the ring is as it was.
LEMMA QueueKept ==
    ASSUME IInv, ThinnedQueue(cp_queue, cp_queue'),
           journal'.start = journal.start, log' = log, End' = End
    PROVE  QueueInRing'
<1>1. cp_queue \in Seq(Transactions) /\ QueueInRing
  BY DEF IInv, Typed
<1>2. \A i \in 1..Len(cp_queue) : cp_queue[i] \in Transactions
  BY <1>1, ElementOfSeq
<1>3. Len(cp_queue') = Len(cp_queue)
  BY DEF ThinnedQueue
<1>4. \A i \in 1..Len(cp_queue) :
        cp_queue'[i].start = cp_queue[i].start /\ cp_queue'[i].len = cp_queue[i].len
  BY <1>2, ThinnedTrans DEF ThinnedQueue
<1>5. \A i \in 1..Len(cp_queue) : InRing(cp_queue'[i], journal.start, End, log)
  BY <1>1, <1>2, ThinnedInRing DEF ThinnedQueue, QueueInRing
<1>6. Ordered(cp_queue', journal.start)
  BY <1>1, <1>3, <1>4 DEF QueueInRing, Ordered
<1> QED BY <1>3, <1>5, <1>6 DEF QueueInRing

\* Nothing has happened but that the writes of some buffers are done.
LEMMA WritesDone ==
    ASSUME IInv, ThinnedQueue(cp_queue, cp_queue'),
           UNCHANGED <<journal, log, pc, trans, txn>>,
           DOMAIN buf' = Blocks, DOMAIN rec' = Blocks,
           Running => \A b \in trans.bufs : rec'[b] = rec[b] /\ buf'[b] = buf[b],
           pc = "starting" => jsb'.sequence \in Nat
    PROVE  IInv'
<1>1. Building' = Building /\ Running' = Running /\ End' = End /\ Unlogged' = Unlogged
  BY DEF Building, Running, End, Unlogged
<1>2. QueueInRing'
  BY <1>1, QueueKept
<1>3. Typed'
  BY DEF IInv, Typed, ThinnedQueue
<1>4. TransInRing'
  BY <1>1 DEF IInv, TransInRing
<1>5. IdsGrow'
  <2>1. cp_queue \in Seq(Transactions)
    BY DEF IInv, Typed
  <2>2. Len(cp_queue') = Len(cp_queue)
        /\ \A i \in 1..Len(cp_queue) : cp_queue'[i].id = cp_queue[i].id
    BY <2>1, ElementOfSeq, ThinnedTrans DEF ThinnedQueue
  <2> QED BY <1>1, <2>2 DEF IInv, IdsGrow
<1>6. BufsOwned'
  BY <1>1 DEF IInv, BufsOwned
<1> QED BY <1>2, <1>3, <1>4, <1>5, <1>6 DEF IInv

\* The log starts later, behind the first k of the queue, which are forgotten.
LEMMA StartMoves ==
    ASSUME IInv, pc \in Active, NEW q \in Positions, NEW k \in Nat,
           cp_queue' \in Seq(Transactions), Len(cp_queue') = Len(cp_queue) - k,
           \A i \in 1..Len(cp_queue') : cp_queue'[i] = cp_queue[i + k],
           Dist(journal.start, q) <= End,
           \A i \in 1..Len(cp_queue') :
               Dist(journal.start, q) <= Dist(journal.start, cp_queue[i + k].start),
           journal' \in [start : 0..LogSize, last : 0..LogSize,
                         trans_id : Nat, alloc_trans_id : Nat],
           journal'.start = q, journal'.last = journal.last,
           journal'.alloc_trans_id = journal.alloc_trans_id,
           UNCHANGED <<log, pc, trans, txn>>,
           DOMAIN buf' = Blocks, DOMAIN rec' = Blocks,
           Running => \A b \in trans.bufs : rec'[b] = rec[b] /\ buf'[b] = buf[b]
    PROVE  IInv'
<1> DEFINE s == journal.start
           last == journal.last
<1>1. /\ s \in Positions /\ last \in Positions /\ cp_queue \in Seq(Transactions)
      /\ trans \in Transactions
  BY DEF IInv, Typed
<1>2. Building' = Building /\ Running' = Running /\ Unlogged' = Unlogged
  BY DEF Building, Running, Unlogged
<1>3. Len(cp_queue) \in Nat /\ Len(cp_queue') \in Nat
      /\ \A i \in 1..Len(cp_queue') : i + k \in 1..Len(cp_queue)
  BY <1>1, LenProperties
<1>4. End \in Nat /\ End <= Dist(s, last)
  BY EndRange
<1>5. Dist(s, q) \in Nat /\ Dist(s, last) \in Nat
  BY <1>1, DistRange
<1>6. Dist(q, last) = Dist(s, last) - Dist(s, q)
  BY <1>1, <1>4, <1>5, Rebase
<1>7. Building => /\ trans.start \in Positions /\ trans.len > 0
                  /\ Dist(s, trans.start) + trans.len = Dist(s, last)
                  /\ \A b \in trans.bufs : trans.lba[b] # 0 => Logged(trans, b, s, log)
                  /\ Dist(s, trans.start) = End
  BY DEF IInv, TransInRing, End
<1>8. Building => Dist(q, trans.start) = Dist(s, trans.start) - Dist(s, q)
  BY <1>1, <1>7, Rebase
<1>9. End' = End - Dist(s, q)
  BY <1>2, <1>6, <1>8 DEF End
<1>10. ASSUME NEW i \in 1..Len(cp_queue')
       PROVE  InRing(cp_queue'[i], q, End', log')
  <2>1. i + k \in 1..Len(cp_queue)
    BY <1>3
  <2>2. cp_queue[i + k] \in Transactions
    BY <1>1, <2>1, ElementOfSeq
  <2>3. InRing(cp_queue[i + k], s, End, log)
    BY <2>1 DEF IInv, QueueInRing
  <2>4. Dist(s, q) <= Dist(s, cp_queue[i + k].start)
    OBVIOUS
  <2>5. InRing(cp_queue[i + k], q, End - Dist(s, q), log)
    BY <1>1, <1>4, <2>2, <2>3, <2>4, InRingRebase
  <2> QED BY <1>9, <2>5
<1>11. Ordered(cp_queue', q)
  <2> SUFFICES ASSUME NEW i \in 1..Len(cp_queue'), NEW j \in 1..Len(cp_queue'), i < j
               PROVE  Dist(q, cp_queue'[i].start) + cp_queue'[i].len
                        <= Dist(q, cp_queue'[j].start)
    BY DEF Ordered
  <2>1. i + k \in 1..Len(cp_queue) /\ j + k \in 1..Len(cp_queue) /\ i + k < j + k
    BY <1>3
  <2>2. Dist(s, cp_queue[i + k].start) + cp_queue[i + k].len <= Dist(s, cp_queue[j + k].start)
    BY <2>1 DEF IInv, QueueInRing, Ordered
  <2>3. cp_queue[i + k].start \in Positions /\ cp_queue[j + k].start \in Positions
    BY <2>1 DEF IInv, QueueInRing, InRing
  <2>4. cp_queue[i + k].len \in Nat
    <3>1. cp_queue[i + k] \in Transactions
      BY <1>1, <2>1, ElementOfSeq
    <3> QED BY <3>1, TransNat
  <2>5. /\ Dist(q, cp_queue[i + k].start) = Dist(s, cp_queue[i + k].start) - Dist(s, q)
        /\ Dist(q, cp_queue[j + k].start) = Dist(s, cp_queue[j + k].start) - Dist(s, q)
    <3>1. /\ Dist(s, q) <= Dist(s, cp_queue[i + k].start)
          /\ Dist(s, q) <= Dist(s, cp_queue[j + k].start)
      OBVIOUS
    <3> QED BY <1>1, <2>3, <3>1, Rebase
  <2>6. Dist(s, cp_queue[i + k].start) \in Nat /\ Dist(s, cp_queue[j + k].start) \in Nat
    BY <1>1, <2>3, DistRange
  <2>7. Dist(q, cp_queue[i + k].start) + cp_queue[i + k].len <= Dist(q, cp_queue[j + k].start)
    <3> DEFINE x == Dist(s, cp_queue[i + k].start)
               y == Dist(s, cp_queue[j + k].start)
               n == cp_queue[i + k].len
               d == Dist(s, q)
    <3>1. x \in Nat /\ y \in Nat /\ n \in Nat /\ d \in Nat /\ x + n <= y
      BY <1>5, <2>2, <2>4, <2>6
    <3>2. Dist(q, cp_queue[i + k].start) = x - d /\ Dist(q, cp_queue[j + k].start) = y - d
      BY <2>5
    <3> HIDE DEF x, y, n, d
    <3>3. (x - d) + n <= y - d
      BY <3>1
    <3> QED BY <3>2, <3>3 DEF n
  <2> QED BY <2>7
<1>12. QueueInRing'
  BY <1>10, <1>11 DEF QueueInRing
<1>13. TransInRing'
  <2>1. Building => Dist(q, trans.start) + trans.len = Dist(q, last)
    <3> SUFFICES ASSUME Building PROVE Dist(q, trans.start) + trans.len = Dist(q, last)
      OBVIOUS
    <3>1. Dist(s, trans.start) \in Nat /\ trans.len \in Nat
      BY <1>1, <1>7, DistRange, TransNat
    <3> HIDE DEF s, last
    <3> QED BY <1>5, <1>6, <1>7, <1>8, <3>1
  <2>2. Building => \A b \in trans.bufs : trans.lba[b] # 0 => Logged(trans, b, q, log)
    BY <1>1, <1>7, LoggedRebase
  <2> QED BY <1>2, <1>7, <2>1, <2>2 DEF IInv, TransInRing
<1>14. Typed'
  <2>1. journal'.start \in Positions /\ journal'.last \in Positions /\ pc' \in Active
    BY <1>1
  <2>2. pc' # "starting"
    BY DEF Active, Committing
  <2> QED BY <2>1, <2>2 DEF IInv, Typed
<1>15. IdsGrow'
  BY <1>2, <1>3 DEF IInv, IdsGrow
<1>16. BufsOwned'
  BY <1>2 DEF IInv, BufsOwned
<1> QED BY <1>12, <1>13, <1>14, <1>15, <1>16 DEF IInv

\* An allocation does not reach the start of the log.
LEMMA AllocAhead ==
    ASSUME IInv, pc \in Active, Room
    PROVE  /\ Ring(journal.last, 1) \in Positions
           /\ Dist(journal.start, Ring(journal.last, 1)) = Dist(journal.start, journal.last) + 1
           /\ Dist(journal.start, Ring(journal.last, 1)) < LogSize
<1>1. journal.start \in Positions /\ journal.last \in Positions
  BY DEF IInv, Typed
<1>2. Dist(journal.start, journal.last) + 1 < LogSize
  BY <1>1, RoomLeft DEF Room
<1> QED BY <1>1, <1>2, DistRing

\* A block is allocated and written for the running transaction.
LEMMA LogGrows ==
    ASSUME IInv, Building, Room, NEW r, NEW L \in Tags,
           log' = [log EXCEPT ![journal.last] = r],
           trans' = [trans EXCEPT !.lba = L, !.len = @ + 1],
           journal'.start = journal.start, journal'.last = Ring(journal.last, 1),
           cp_queue' = cp_queue, Building',
           \A b \in trans.bufs :
               L[b] # 0 => \/ L[b] = trans.lba[b]
                           \/ L[b] = journal.last /\ r = Data(trans.n)
    PROVE  /\ QueueInRing' /\ trans' \in Transactions /\ DOMAIN log' = Positions
           /\ journal'.last \in Positions
           /\ trans'.start \in Positions /\ trans'.len > 0
           /\ Dist(journal'.start, trans'.start) + trans'.len
                 = Dist(journal'.start, journal'.last)
           /\ \A b \in trans'.bufs :
                 trans'.lba[b] # 0 => Logged(trans', b, journal'.start, log')
<1> DEFINE s == journal.start
           last == journal.last
<1>1. /\ s \in Positions /\ last \in Positions /\ cp_queue \in Seq(Transactions)
      /\ trans \in Transactions /\ DOMAIN log = Positions /\ pc \in Active
  BY DEF IInv, Typed, Building, Active, Committing
<1>2. /\ trans.start \in Positions /\ trans.len > 0
      /\ Dist(s, trans.start) + trans.len = Dist(s, last)
      /\ \A b \in trans.bufs : trans.lba[b] # 0 => Logged(trans, b, s, log)
  BY DEF IInv, TransInRing
<1>3. /\ Dist(s, trans.start) \in Nat /\ Dist(s, last) \in Nat /\ trans.len \in Nat
  BY <1>1, <1>2, DistRange, TransNat
<1>4. /\ Ring(last, 1) \in Positions /\ Dist(s, Ring(last, 1)) = Dist(s, last) + 1
      /\ Dist(s, Ring(last, 1)) < LogSize
  BY <1>1, AllocAhead
<1>5. trans'.start = trans.start /\ trans'.bufs = trans.bufs /\ trans'.n = trans.n
      /\ trans'.lba = L /\ trans'.len = trans.len + 1
  BY <1>1 DEF Transactions
<1>6. trans.len + 1 \in 0..LogSize
  <2> HIDE DEF s, last
  <2> QED BY <1>2, <1>3, <1>4, LogSizeAssumption
<1>7. trans' \in Transactions
  BY <1>1, <1>6 DEF Transactions
<1>8. DOMAIN log' = Positions
  BY <1>1
<1>9. Dist(s, trans.start) + (trans.len + 1) = Dist(s, Ring(last, 1))
  <2> HIDE DEF s, last
  <2> QED BY <1>2, <1>3, <1>4
<1>10. ASSUME NEW b \in trans.bufs, L[b] # 0
       PROVE  Logged(trans', b, s, log')
  <2>1. CASE L[b] = trans.lba[b]
    <3>1. Logged(trans, b, s, log)
      BY <1>2, <1>10, <2>1
    <3>2. trans.lba[b] \in Positions /\ Dist(s, trans.lba[b]) < Dist(s, last)
      BY <1>2, <3>1 DEF Logged
    <3>3. Dist(s, trans.lba[b]) \in Nat
      BY <1>1, <3>2, DistRange
    <3>4. trans.lba[b] # last
      BY <1>3, <3>2, <3>3
    <3>5. log'[trans.lba[b]] = log[trans.lba[b]]
      BY <1>1, <3>2, <3>4
    <3>6. Dist(s, trans.lba[b]) < Dist(s, trans.start) + (trans.len + 1)
      BY <1>2, <1>3, <3>2, <3>3
    <3> QED BY <1>5, <2>1, <3>1, <3>5, <3>6 DEF Logged
  <2>2. CASE L[b] = last /\ r = Data(trans.n)
    <3>1. log'[last] = Data(trans.n)
      BY <1>1, <2>2
    <3>2. Dist(s, trans.start) < Dist(s, last)
          /\ Dist(s, last) < Dist(s, trans.start) + (trans.len + 1)
      BY <1>2, <1>3
    <3> QED BY <1>1, <1>5, <2>2, <3>1, <3>2 DEF Logged
  <2> QED BY <1>10, <2>1, <2>2
<1>11. End \in Nat /\ End <= Dist(s, last) /\ End' = End
  BY <1>1, <1>5, EndRange DEF End
<1>12. \A i \in 1..Len(cp_queue) : InRing(cp_queue[i], s, End, log')
  <2> SUFFICES ASSUME NEW i \in 1..Len(cp_queue)
               PROVE  InRing(cp_queue[i], s, End, log')
    OBVIOUS
  <2>1. cp_queue[i] \in Transactions /\ InRing(cp_queue[i], s, End, log)
    BY <1>1, ElementOfSeq DEF IInv, QueueInRing
  <2> QED BY <1>1, <1>11, <2>1, WriteBehind
<1>13. QueueInRing'
  BY <1>11, <1>12 DEF IInv, QueueInRing
<1>14. trans'.start \in Positions /\ trans'.len > 0 /\ journal'.last \in Positions
  BY <1>2, <1>3, <1>4, <1>5
<1>15. Dist(journal'.start, trans'.start) + trans'.len = Dist(journal'.start, journal'.last)
  BY <1>5, <1>9
<1>16. \A b \in trans'.bufs : trans'.lba[b] # 0 => Logged(trans', b, journal'.start, log')
  BY <1>5, <1>10
<1> QED BY <1>7, <1>8, <1>13, <1>14, <1>15, <1>16

\* Without a session there is nothing in the ring.
LEMMA Outside ==
    ASSUME Typed', pc' \notin Active
    PROVE  IInv'
<1>1. ~Building' /\ ~Running' /\ pc' \notin {"run", "alloc", "revoked"}
  BY DEF Building, Running, Active, Committing
<1>2. Len(cp_queue') = 0
  BY DEF Typed
<1> QED BY <1>1, <1>2 DEF IInv, QueueInRing, Ordered, TransInRing, IdsGrow, BufsOwned

\* Before the first allocation of a commit, and after the transaction has joined
\* the queue, the ring is as the queue and the log leave it.
LEMMA NotBuilding ==
    ASSUME IInv, ~Building, ~Building', UNCHANGED <<log, journal, cp_queue>>
    PROVE  QueueInRing'
<1>1. End' = End
  BY DEF End
<1>2. cp_queue \in Seq(Transactions)
  BY DEF IInv, Typed
<1> QED BY <1>1, <1>2, SameThins, QueueKept

LEMMA InitHolds == Init => IInv
<1> SUFFICES ASSUME Init PROVE IInv
  OBVIOUS
<1>1. NoTrans \in Transactions
  BY LogSizeAssumption DEF NoTrans, Transactions, Tags, NoTags
<1>2. cp_queue \in Seq(Transactions) /\ Len(cp_queue) = 0
  BY DEF Init
<1>3. pc \in PCs /\ pc \notin Active /\ ~Building /\ ~Running
      /\ pc \notin {"run", "alloc", "revoked", "starting"}
  BY DEF Init, PCs, Active, Committing, Building, Running
<1>4. journal \in [start : 0..LogSize, last : 0..LogSize, trans_id : Nat, alloc_trans_id : Nat]
  BY LogSizeAssumption DEF Init
<1>5. Typed
  BY <1>1, <1>2, <1>3, <1>4 DEF Init, Typed
<1> QED BY <1>2, <1>3, <1>5
        DEF IInv, QueueInRing, Ordered, TransInRing, IdsGrow, BufsOwned

LEMMA SessionSteps ==
    ASSUME IInv, SessionStep
    PROVE  IInv'
<1>1. /\ Typed /\ IInv /\ cp_queue \in Seq(Transactions) /\ QueueInRing
  BY DEF IInv, Typed
<1>2. CASE StartFlag
  <2>1. pc' \in PCs /\ pc' \notin Active /\ pc \notin Active
    BY <1>2 DEF StartFlag, PCs, Active, Committing
  <2>2. jsb'.sequence \in Nat
    BY <1>2, BoundsAssumption DEF StartFlag
  <2>3. Typed'
    BY <1>1, <1>2, <2>1, <2>2 DEF StartFlag, session, ghost, Typed
  <2> QED BY <2>1, <2>3, Outside
<1>3. CASE StartSb
  <2>1. /\ pc' = "idle" /\ pc' \in PCs /\ pc \notin Active /\ ~Building' /\ ~Running'
        /\ pc = "starting"
    BY <1>3 DEF StartSb, PCs, Active, Committing, Building, Running
  <2>2. Len(cp_queue') = 0 /\ cp_queue' = cp_queue
    BY <1>1, <1>3, <2>1 DEF StartSb, Typed
  <2>3. journal'.start = 1 /\ journal'.last = 1 /\ 1 \in Positions
        /\ journal' \in [start : 0..LogSize, last : 0..LogSize,
                         trans_id : Nat, alloc_trans_id : Nat]
    BY <1>1, <1>3, <2>1, LogSizeAssumption DEF StartSb, Positions, Typed
  <2>4. Typed'
    BY <1>1, <1>3, <2>1, <2>2, <2>3 DEF StartSb, Typed
  <2>5. QueueInRing' /\ IdsGrow'
    BY <2>1, <2>2 DEF QueueInRing, Ordered, IdsGrow
  <2>6. TransInRing' /\ BufsOwned'
    BY <2>1 DEF TransInRing, BufsOwned
  <2> QED BY <2>4, <2>5, <2>6 DEF IInv
<1>4. CASE Stop
  <2>1. /\ pc' = "stopping" /\ pc' \in PCs /\ pc \in Active /\ pc' \in Active
        /\ ~Building /\ ~Building' /\ ~Running'
    BY <1>4 DEF Stop, PCs, Active, Committing, Building, Running
  <2>2. UNCHANGED <<log, journal, cp_queue, trans, buf, rec, jsb, txn>>
    BY <1>4 DEF Stop, disk, session, ghost
  <2>3. Typed'
    BY <1>1, <2>1, <2>2 DEF Typed
  <2>4. QueueInRing'
    BY <2>1, <2>2, NotBuilding
  <2>5. IdsGrow' /\ TransInRing' /\ BufsOwned'
    BY <2>1, <2>2 DEF IInv, IdsGrow, TransInRing, BufsOwned
  <2> QED BY <2>3, <2>4, <2>5 DEF IInv
<1>5. CASE StopFlag
  <2>1. /\ pc' = "stopped" /\ pc' \in PCs /\ pc' \notin Active /\ Len(cp_queue) = 0
    BY <1>5 DEF StopFlag, PCs, Active, Committing
  <2>2. Typed'
    BY <1>1, <1>5, <2>1 DEF StopFlag, session, ghost, Typed
  <2> QED BY <2>1, <2>2, Outside
<1>6. CASE StopSb
  <2>1. pc' = "off" /\ pc' \in PCs /\ pc' \notin Active /\ pc \notin Active
    BY <1>6 DEF StopSb, PCs, Active, Committing
  <2>2. Typed'
    BY <1>1, <1>6, <2>1 DEF StopSb, session, ghost, Typed
  <2> QED BY <2>1, <2>2, Outside
<1> QED BY <1>2, <1>3, <1>4, <1>5, <1>6 DEF SessionStep

LEMMA RecoverSteps ==
    ASSUME IInv, Crash \/ Recover \/ RecoverStep
    PROVE  IInv'
<1>1. Typed
  BY DEF IInv
<1>2. CASE Crash
  <2>1. pc' \in PCs /\ pc' \notin Active /\ pc' # "starting"
    BY <1>2 DEF Crash, PCs, Active, Committing
  <2>2. NoTrans \in Transactions
    BY LogSizeAssumption DEF NoTrans, Transactions, Tags, NoTags
  <2>3. cp_queue' \in Seq(Transactions) /\ Len(cp_queue') = 0
    BY <1>2 DEF Crash
  <2>4. journal' \in [start : 0..LogSize, last : 0..LogSize, trans_id : Nat, alloc_trans_id : Nat]
    BY <1>2, LogSizeAssumption DEF Crash
  <2>5. Typed'
    BY <1>1, <1>2, <2>1, <2>2, <2>3, <2>4 DEF Crash, disk, ghost, Typed
  <2> QED BY <2>1, <2>5, Outside
<1>3. CASE Recover
  <2>1. pc' \in PCs /\ pc' \notin Active /\ pc' # "starting" /\ pc \notin Active
    BY <1>3 DEF Recover, PCs, Active, Committing
  <2>2. UNCHANGED <<log, journal, cp_queue, trans, buf, rec, txn>>
    BY <1>3 DEF Recover, disk, session, ghost
  <2>3. Typed'
    BY <1>1, <2>1, <2>2 DEF Typed
  <2> QED BY <2>1, <2>3, Outside
<1>4. ASSUME NEW r \in todo, Replay(r)
      PROVE  IInv'
  <2>1. pc \notin Active /\ pc # "starting" /\ pc' = pc
    BY <1>4 DEF Replay, Active, Committing
  <2>2. UNCHANGED <<log, journal, cp_queue, trans, rec, txn>>
    BY <1>4 DEF Replay, session, ghost
  <2>3. DOMAIN buf' = DOMAIN buf
    BY <1>4 DEF Replay
  <2>4. Typed'
    BY <1>1, <2>1, <2>2, <2>3 DEF Typed
  <2> QED BY <2>1, <2>4, Outside
<1>5. CASE RecoverFlag \/ RecoverPut
  <2>1. pc' \in PCs /\ pc' \notin Active /\ pc' # "starting" /\ pc \notin Active
    BY <1>5 DEF RecoverFlag, RecoverPut, PCs, Active, Committing
  <2>2. UNCHANGED <<log, journal, cp_queue, trans, buf, rec, txn>>
    BY <1>5 DEF RecoverFlag, RecoverPut, session, ghost
  <2>3. Typed'
    BY <1>1, <2>1, <2>2 DEF Typed
  <2> QED BY <2>1, <2>3, Outside
<1> QED BY <1>2, <1>3, <1>4, <1>5 DEF RecoverStep

\* While the caller changes its blocks, the ring is left alone.
LEMMA RunStep ==
    ASSUME IInv, pc = "run", pc' \in {"run", "alloc", "idle"},
           UNCHANGED <<log, journal, cp_queue, txn>>,
           trans' \in Transactions, trans'.id = trans.id, trans'.lba = trans.lba,
           DOMAIN buf' = Blocks, DOMAIN rec' = Blocks,
           \A b \in trans'.bufs :
               /\ rec'[b] = trans'.id
               /\ buf'[b] = trans'.n \/ (pc' = "run" /\ buf'[b] = None)
    PROVE  IInv'
<1>1. /\ ~Building /\ ~Building' /\ Running /\ pc \in Active /\ pc' \in Active /\ pc' \in PCs
      /\ pc' # "starting" /\ pc' # "revoked"
  BY DEF Building, Running, Active, Committing, PCs
<1>2. QueueInRing'
  BY <1>1, NotBuilding
<1>3. Typed'
  BY <1>1 DEF IInv, Typed
<1>4. TransInRing'
  BY <1>1 DEF IInv, TransInRing
<1>5. IdsGrow' /\ BufsOwned'
  BY <1>1 DEF IInv, IdsGrow, BufsOwned
<1> QED BY <1>2, <1>3, <1>4, <1>5 DEF IInv

\* The transaction is over without having been logged.
LEMMA RunEnds ==
    ASSUME IInv, pc = "run", pc' = "idle", trans' = NoTrans,
           UNCHANGED <<log, journal, cp_queue, txn>>,
           DOMAIN buf' = Blocks, DOMAIN rec' = Blocks
    PROVE  IInv'
<1>1. /\ ~Building /\ ~Building' /\ ~Running' /\ pc \in Active /\ pc' \in Active
      /\ pc' \in PCs /\ pc' # "starting" /\ pc' # "revoked" /\ pc' \notin {"run", "alloc"}
  BY DEF Building, Running, Active, PCs
<1>2. QueueInRing'
  BY <1>1, NotBuilding
<1>3. trans' \in Transactions
  BY LogSizeAssumption DEF NoTrans, Transactions, Tags, NoTags
<1>4. Typed'
  BY <1>1, <1>3 DEF IInv, Typed
<1>5. TransInRing' /\ IdsGrow' /\ BufsOwned'
  BY <1>1 DEF IInv, TransInRing, IdsGrow, BufsOwned
<1> QED BY <1>2, <1>4, <1>5 DEF IInv

LEMMA DirtyStep ==
    ASSUME IInv, pc = "run", pc' = pc, NEW S \in SUBSET Blocks, SetDirty(S),
           UNCHANGED <<log, journal, cp_queue, txn>>
    PROVE  IInv'
<1>1. /\ Typed /\ trans \in Transactions /\ Running
      /\ \A b \in trans.bufs : rec[b] = trans.id /\ (buf[b] = trans.n \/ buf[b] = None)
  BY DEF IInv, Typed, Running, BufsOwned
<1>2. trans' = [trans EXCEPT !.bufs = @ \cup S, !.revoke = @ \ S]
  BY DEF SetDirty
<1>3. /\ trans' \in Transactions /\ trans'.id = trans.id /\ trans'.lba = trans.lba
      /\ trans'.n = trans.n /\ trans'.bufs = trans.bufs \cup S /\ trans'.bufs \subseteq Blocks
  BY <1>1, <1>2 DEF Transactions
<1>4. /\ rec' = [b \in Blocks |-> IF b \in S THEN trans.id ELSE rec[b]]
      /\ buf' = [b \in Blocks |-> IF b \in S THEN trans.n ELSE buf[b]]
  BY DEF SetDirty
<1>5. \A b \in trans'.bufs :
        /\ rec'[b] = trans'.id
        /\ buf'[b] = trans'.n \/ (pc' = "run" /\ buf'[b] = None)
  BY <1>1, <1>3, <1>4
<1> QED BY <1>3, <1>4, <1>5, RunStep

LEMMA CallerSteps ==
    ASSUME IInv, CallerStep
    PROVE  IInv'
<1>1. /\ Typed /\ trans \in Transactions /\ DOMAIN buf = Blocks /\ DOMAIN rec = Blocks
      /\ txn \in Nat /\ Bitmap \in Blocks /\ None \notin Nat
  BY BitmapAssumption DEF IInv, Typed
<1>2. CASE Begin
  <2>1. /\ pc = "idle" /\ pc' = "run" /\ pc' \in PCs /\ pc \in Active /\ pc' \in Active
        /\ ~Building /\ ~Building'
    BY <1>2 DEF Begin, PCs, Active, Building
  <2>2. UNCHANGED <<log, journal, cp_queue, buf, rec, jsb>>
    BY <1>2 DEF Begin, disk, session
  <2>3. QueueInRing'
    BY <2>1, <2>2, NotBuilding
  <2>4. /\ NoTrans \in Transactions /\ journal.alloc_trans_id \in Nat /\ txn + 1 \in Nat
    BY <1>1, LogSizeAssumption DEF NoTrans, Transactions, Tags, NoTags, IInv, Typed
  <2>5. trans' = [NoTrans EXCEPT !.id = journal.alloc_trans_id, !.n = txn + 1]
        /\ txn' = txn + 1
    BY <1>2 DEF Begin
  <2>6. trans' \in Transactions
    BY <2>4, <2>5 DEF Transactions
  <2>7. trans'.id = journal.alloc_trans_id /\ trans'.bufs = {} /\ trans'.lba = NoTags
    BY <2>5 DEF NoTrans
  <2>8. Typed'
    BY <2>1, <2>2, <2>4, <2>5, <2>6 DEF IInv, Typed
  <2>9. IdsGrow'
    BY <2>1, <2>2, <2>4, <2>7 DEF IInv, IdsGrow
  <2>10. TransInRing' /\ BufsOwned'
    BY <2>1, <2>7 DEF TransInRing, BufsOwned
  <2> QED BY <2>3, <2>8, <2>9, <2>10 DEF IInv
<1>3. CASE Abort
  <2>1. /\ pc = "run" /\ pc' = "idle" /\ trans' = NoTrans
        /\ UNCHANGED <<log, journal, cp_queue, txn>>
    BY <1>3 DEF Abort, disk, ghost
  <2>2. DOMAIN buf' = Blocks /\ DOMAIN rec' = Blocks
    BY <1>3 DEF Abort
  <2> QED BY <2>1, <2>2, RunEnds
<1>4. CASE CommitBegin
  <2> DEFINE dropped == {b \in trans.bufs : buf[b] = None}
  <2>1. /\ pc = "run" /\ UNCHANGED <<log, journal, cp_queue, txn, buf>>
        /\ rec' = [b \in Blocks |-> IF b \in dropped THEN NewestId(b) ELSE rec[b]]
        /\ \/ trans' = NoTrans /\ pc' = "idle"
           \/ trans' = [trans EXCEPT !.bufs = @ \ dropped] /\ pc' = "alloc"
    BY <1>4 DEF CommitBegin, disk, ghost
  <2>2. CASE trans' = NoTrans /\ pc' = "idle"
    BY <1>1, <2>1, <2>2, RunEnds
  <2>3. CASE trans' = [trans EXCEPT !.bufs = @ \ dropped] /\ pc' = "alloc"
    <3>1. /\ trans' \in Transactions /\ trans'.id = trans.id /\ trans'.lba = trans.lba
          /\ trans'.n = trans.n /\ trans'.bufs = trans.bufs \ dropped
          /\ trans.bufs \subseteq Blocks
      BY <1>1, <2>3 DEF Transactions
    <3>2. \A b \in trans.bufs : rec[b] = trans.id /\ (buf[b] = trans.n \/ buf[b] = None)
      BY <2>1 DEF IInv, BufsOwned, Running
    <3>3. \A b \in trans'.bufs : rec'[b] = trans'.id /\ buf'[b] = trans'.n
      BY <2>1, <3>1, <3>2
    <3> HIDE DEF dropped
    <3> QED BY <1>1, <2>1, <2>3, <3>1, <3>3, RunStep
  <2> QED BY <2>1, <2>2, <2>3
<1>5. ASSUME NEW b \in Blocks, Dirty(b)
      PROVE  IInv'
  <2>1. pc = "run" /\ pc' = pc /\ UNCHANGED <<log, journal, cp_queue, txn>>
    BY <1>5 DEF Dirty, disk, ghost
  <2>2. PICK S \in SUBSET Blocks : SetDirty(S)
    BY <1>1, <1>5 DEF Dirty
  <2> QED BY <2>1, <2>2, DirtyStep
<1>6. ASSUME NEW b \in Blocks, WriteData(b)
      PROVE  IInv'
  <2>1. pc = "run" /\ pc' = pc /\ UNCHANGED <<log, journal, cp_queue, txn>>
    BY <1>6 DEF WriteData, ghost
  <2>2. SetDirty({Bitmap}) /\ {Bitmap} \in SUBSET Blocks
    BY <1>1, <1>6 DEF WriteData
  <2> QED BY <2>1, <2>2, DirtyStep
<1>7. ASSUME NEW b \in Blocks, Free(b)
      PROVE  IInv'
  <2>1. pc = "run" /\ pc' = pc /\ UNCHANGED <<log, journal, cp_queue, txn>>
    BY <1>7 DEF Free, disk, ghost
  <2>2. /\ trans' = [trans EXCEPT !.bufs = @ \cup {Bitmap},
                                  !.revoke = IF MustRevoke(b) THEN @ \cup {b} ELSE @]
        /\ rec' = [rec EXCEPT ![Bitmap] = trans.id]
        /\ buf' = [buf EXCEPT ![Bitmap] = trans.n, ![b] = None]
        /\ b # Bitmap
    BY <1>7 DEF Free
  <2>3. /\ trans' \in Transactions /\ trans'.id = trans.id /\ trans'.lba = trans.lba
        /\ trans'.n = trans.n /\ trans'.bufs = trans.bufs \cup {Bitmap}
        /\ trans.bufs \subseteq Blocks
    BY <1>1, <2>2 DEF Transactions
  <2>4. \A c \in trans.bufs : rec[c] = trans.id /\ (buf[c] = trans.n \/ buf[c] = None)
    BY <2>1 DEF IInv, BufsOwned, Running
  <2>5. \A c \in trans'.bufs :
          rec'[c] = trans'.id /\ (buf'[c] = trans'.n \/ (pc' = "run" /\ buf'[c] = None))
    BY <1>1, <2>1, <2>2, <2>3, <2>4
  <2>6. DOMAIN buf' = Blocks /\ DOMAIN rec' = Blocks
    BY <1>1, <2>2
  <2> QED BY <2>1, <2>3, <2>5, <2>6, RunStep
<1> QED BY <1>2, <1>3, <1>4, <1>5, <1>6, <1>7 DEF CallerStep

\* A block of the log is written behind the others, and tags as many as before.
LEMMA BlockLogged ==
    ASSUME IInv, pc \in {"revoke", "commit"}, pc' \in {"commit", "revoked"}, Room, NEW r,
           log' = [log EXCEPT ![journal.last] = r], trans' = [trans EXCEPT !.len = @ + 1],
           journal' \in [start : 0..LogSize, last : 0..LogSize,
                         trans_id : Nat, alloc_trans_id : Nat],
           journal'.start = journal.start, journal'.last = Ring(journal.last, 1),
           journal'.alloc_trans_id >= journal.alloc_trans_id,
           pc' = "revoked" => journal'.alloc_trans_id > journal.alloc_trans_id,
           UNCHANGED <<cp_queue, rec, buf, txn>>
    PROVE  IInv'
<1>1. /\ Typed /\ trans \in Transactions /\ cp_queue \in Seq(Transactions)
      /\ journal.alloc_trans_id \in Nat /\ journal'.alloc_trans_id \in Nat
  BY DEF IInv, Typed
<1>2. /\ Building /\ Building' /\ Running /\ Running' /\ pc' \in Active /\ pc' \in PCs
      /\ pc \in Active /\ pc' # "starting" /\ pc' \notin {"run", "alloc", "data"} /\ pc # "data"
  BY DEF Building, Running, Active, Committing, PCs
<1>3. trans.lba \in Tags /\ trans' = [trans EXCEPT !.lba = trans.lba, !.len = @ + 1]
  BY <1>1 DEF Transactions
<1>4. /\ QueueInRing' /\ trans' \in Transactions /\ DOMAIN log' = Positions
      /\ journal'.last \in Positions
      /\ trans'.start \in Positions /\ trans'.len > 0
      /\ Dist(journal'.start, trans'.start) + trans'.len = Dist(journal'.start, journal'.last)
      /\ \A b \in trans'.bufs :
           trans'.lba[b] # 0 => Logged(trans', b, journal'.start, log')
  BY <1>2, <1>3, LogGrows
<1>5. /\ trans'.id = trans.id /\ trans'.n = trans.n /\ trans'.bufs = trans.bufs
      /\ trans'.lba = trans.lba
  BY <1>1 DEF Transactions
<1>6. TransInRing'
  <2>1. Unlogged' = Unlogged
    BY <1>5 DEF Unlogged
  <2> QED BY <1>2, <1>4, <2>1 DEF IInv, TransInRing
<1>7. Typed'
  BY <1>1, <1>2, <1>4 DEF Typed
<1>8. IdsGrow'
  <2>1. /\ \A i \in 1..Len(cp_queue) : cp_queue[i].id \in Nat
        /\ trans.id \in Nat
    <3>1. \A i \in 1..Len(cp_queue) : cp_queue[i] \in Transactions
      BY <1>1, ElementOfSeq
    <3> QED BY <1>1, <3>1, TransNat
  <2>2. /\ \A i \in 1..Len(cp_queue) : cp_queue[i].id < journal.alloc_trans_id
        /\ \A i \in 1..Len(cp_queue) : cp_queue[i].id < trans.id
        /\ trans.id <= journal.alloc_trans_id
    BY <1>2 DEF IInv, IdsGrow
  <2>3. /\ \A i \in 1..Len(cp_queue) : cp_queue[i].id < journal'.alloc_trans_id
        /\ trans.id <= journal'.alloc_trans_id
        /\ pc' = "revoked" => trans.id < journal'.alloc_trans_id
    BY <1>1, <2>1, <2>2
  <2> QED BY <1>5, <2>2, <2>3 DEF IdsGrow
<1>9. BufsOwned'
  BY <1>2, <1>5 DEF IInv, BufsOwned
<1> QED BY <1>4, <1>6, <1>7, <1>8, <1>9 DEF IInv

LEMMA AllocDescriptorStep ==
    ASSUME IInv, AllocDescriptor
    PROVE  IInv'
<1> DEFINE s == journal.start
           last == journal.last
<1>1. /\ Typed /\ trans \in Transactions /\ s \in Positions /\ last \in Positions
      /\ cp_queue \in Seq(Transactions) /\ pc \in Active
      /\ journal \in [start : 0..LogSize, last : 0..LogSize, trans_id : Nat, alloc_trans_id : Nat]
  BY DEF IInv, Typed, AllocDescriptor, Active, Committing
<1>2. /\ pc = "alloc" /\ pc' = "data" /\ ~Building /\ Building' /\ Running /\ Running'
      /\ pc' \in Active /\ pc' \in PCs
  BY DEF AllocDescriptor, Building, Running, Active, Committing, PCs
<1>3. UNCHANGED <<log, cp_queue, buf, rec, txn>>
  BY DEF AllocDescriptor, disk, ghost
<1>4. /\ Ring(last, 1) \in Positions /\ Dist(s, Ring(last, 1)) = Dist(s, last) + 1
      /\ Dist(s, Ring(last, 1)) < LogSize
  BY <1>1, AllocAhead DEF AllocDescriptor
<1>5. /\ journal' = [journal EXCEPT !.last = Ring(last, 1)]
      /\ trans' = [trans EXCEPT !.start = last, !.len = 1]
  BY DEF AllocDescriptor, Allocated
<1>6. /\ journal' \in [start : 0..LogSize, last : 0..LogSize, trans_id : Nat, alloc_trans_id : Nat]
      /\ journal'.start = s /\ journal'.last = Ring(last, 1)
      /\ journal'.alloc_trans_id = journal.alloc_trans_id
  BY <1>1, <1>4, <1>5 DEF Positions
<1>7. /\ trans' \in Transactions /\ trans'.start = last /\ trans'.len = 1
      /\ trans'.id = trans.id /\ trans'.n = trans.n /\ trans'.bufs = trans.bufs
      /\ trans'.lba = trans.lba
  <2>1. last \in 0..LogSize /\ 1 \in 0..LogSize
    BY <1>1, LogSizeAssumption DEF Positions
  <2> HIDE DEF last
  <2> QED BY <1>1, <1>5, <2>1 DEF Transactions
<1>8. QueueInRing'
  <2>1. End' = End
    BY <1>2, <1>6, <1>7 DEF End
  <2> QED BY <1>1, <1>3, <1>6, <2>1, SameThins, QueueKept
<1>9. TransInRing'
  <2>1. trans.lba = NoTags /\ trans.bufs \subseteq Blocks
    BY <1>1, <1>2 DEF IInv, TransInRing, Transactions
  <2>2. \A b \in trans'.bufs : trans'.lba[b] = 0
    BY <1>7, <2>1 DEF NoTags
  <2> QED BY <1>1, <1>2, <1>4, <1>6, <1>7, <2>2 DEF TransInRing
<1>10. Typed'
  BY <1>1, <1>2, <1>3, <1>4, <1>6, <1>7 DEF Typed
<1>11. IdsGrow'
  BY <1>2, <1>3, <1>6, <1>7 DEF IInv, IdsGrow
<1>12. BufsOwned'
  BY <1>2, <1>3, <1>7 DEF IInv, BufsOwned
<1> QED BY <1>8, <1>9, <1>10, <1>11, <1>12 DEF IInv

LEMMA LogDataStep ==
    ASSUME IInv, NEW b \in Blocks, LogData(b)
    PROVE  IInv'
<1> DEFINE L == [trans.lba EXCEPT ![b] = journal.last]
<1>1. /\ Typed /\ trans \in Transactions /\ trans.lba \in Tags /\ journal.last \in Positions
      /\ journal \in [start : 0..LogSize, last : 0..LogSize, trans_id : Nat, alloc_trans_id : Nat]
      /\ trans.bufs \subseteq Blocks
  BY DEF IInv, Typed, LogData, Active, Committing, Transactions
<1>2. /\ pc = "data" /\ pc' = "data" /\ Building /\ Building' /\ Running /\ Running'
      /\ pc' \in Active /\ pc' \in PCs /\ Room
  BY DEF LogData, Building, Running, Active, Committing, PCs
<1>3. UNCHANGED <<cp_queue, buf, rec, txn>> /\ b \in trans.bufs
  BY DEF LogData, Unlogged, ghost
<1>4. /\ log' = [log EXCEPT ![journal.last] = Data(trans.n)]
      /\ trans' = [trans EXCEPT !.lba = L, !.len = @ + 1]
      /\ journal' = [journal EXCEPT !.last = Ring(journal.last, 1)]
  <2>1. buf[b] = trans.n
    BY <1>2, <1>3 DEF IInv, BufsOwned
  <2> QED BY <2>1 DEF LogData, Allocated
<1>5. L \in Tags
  BY <1>1 DEF Tags, Positions
<1>6. /\ journal'.start = journal.start /\ journal'.last = Ring(journal.last, 1)
      /\ journal'.alloc_trans_id = journal.alloc_trans_id
  BY <1>1, <1>4
<1>7. \A c \in trans.bufs : L[c] = trans.lba[c] \/ L[c] = journal.last
  BY <1>1 DEF Tags
<1>8. /\ trans'.id = trans.id /\ trans'.n = trans.n /\ trans'.bufs = trans.bufs
  BY <1>1, <1>4 DEF Transactions
<1> HIDE DEF L
<1>9. /\ QueueInRing' /\ trans' \in Transactions /\ DOMAIN log' = Positions
      /\ journal'.last \in Positions
      /\ trans'.start \in Positions /\ trans'.len > 0
      /\ Dist(journal'.start, trans'.start) + trans'.len = Dist(journal'.start, journal'.last)
      /\ \A c \in trans'.bufs :
           trans'.lba[c] # 0 => Logged(trans', c, journal'.start, log')
  BY <1>2, <1>3, <1>4, <1>5, <1>6, <1>7, LogGrows
<1>10. journal' \in [start : 0..LogSize, last : 0..LogSize, trans_id : Nat, alloc_trans_id : Nat]
  BY <1>1, <1>4, <1>6, <1>9 DEF Positions
<1>11. Typed'
  BY <1>1, <1>2, <1>3, <1>6, <1>9, <1>10 DEF Typed
<1>12. TransInRing'
  BY <1>2, <1>9 DEF TransInRing
<1>13. IdsGrow'
  BY <1>2, <1>3, <1>6, <1>8 DEF IInv, IdsGrow
<1>14. BufsOwned'
  BY <1>2, <1>3, <1>8 DEF IInv, BufsOwned
<1> QED BY <1>9, <1>11, <1>12, <1>13, <1>14 DEF IInv

\* The descriptor is written where the running transaction starts: behind the
\* committed ones, and before what the transaction has logged.
LEMMA LogDescriptorStep ==
    ASSUME IInv, LogDescriptor
    PROVE  IInv'
<1> DEFINE s == journal.start
           r == Descriptor(trans.id, trans.lba)
<1>1. /\ Typed /\ trans \in Transactions /\ s \in Positions /\ DOMAIN log = Positions
      /\ cp_queue \in Seq(Transactions)
  BY DEF IInv, Typed, LogDescriptor, Active, Committing
<1>2. /\ pc = "data" /\ pc' \in {"commit", "revoke"} /\ Building /\ Building' /\ Running
      /\ Running' /\ pc \in Active /\ pc' \in Active /\ pc' \in PCs /\ Unlogged = {}
  BY DEF LogDescriptor, Building, Running, Active, Committing, PCs
<1>3. UNCHANGED <<cp_queue, journal, trans, buf, rec, txn>>
      /\ log' = [log EXCEPT ![trans.start] = r]
  BY DEF LogDescriptor, session, ghost
<1>4. /\ trans.start \in Positions /\ trans.len > 0
      /\ Dist(s, trans.start) + trans.len = Dist(s, journal.last)
      /\ \A b \in trans.bufs : trans.lba[b] # 0 => Logged(trans, b, s, log)
  BY <1>2 DEF IInv, TransInRing
<1>5. End \in Nat /\ End = Dist(s, trans.start) /\ End' = End
  BY <1>2, <1>3, EndRange DEF End
<1>6. \A i \in 1..Len(cp_queue) : InRing(cp_queue[i], s, End, log')
  <2> SUFFICES ASSUME NEW i \in 1..Len(cp_queue)
               PROVE  InRing(cp_queue[i], s, End, log')
    OBVIOUS
  <2>1. cp_queue[i] \in Transactions /\ InRing(cp_queue[i], s, End, log)
    BY <1>1, ElementOfSeq DEF IInv, QueueInRing
  <2>2. End <= Dist(s, trans.start)
    BY <1>5
  <2> HIDE DEF r
  <2> QED BY <1>1, <1>3, <1>4, <1>5, <2>1, <2>2, WriteBehind
<1>7. QueueInRing'
  BY <1>3, <1>5, <1>6 DEF IInv, QueueInRing
<1>8. \A b \in trans.bufs : trans.lba[b] # 0 => Logged(trans, b, s, log')
  <2> SUFFICES ASSUME NEW b \in trans.bufs, trans.lba[b] # 0
               PROVE  Logged(trans, b, s, log')
    OBVIOUS
  <2>1. Logged(trans, b, s, log)
    BY <1>4
  <2>2. trans.lba[b] \in Positions /\ Dist(s, trans.start) < Dist(s, trans.lba[b])
    BY <2>1 DEF Logged
  <2>3. trans.lba[b] # trans.start
    BY <1>5, <2>2
  <2>4. log'[trans.lba[b]] = log[trans.lba[b]]
    BY <1>1, <1>3, <2>2, <2>3
  <2> QED BY <2>1, <2>4 DEF Logged
<1>9. TransInRing'
  <2>1. Unlogged' = Unlogged
    BY <1>3 DEF Unlogged
  <2> QED BY <1>2, <1>3, <1>4, <1>8, <2>1 DEF TransInRing
<1>10. Typed'
  BY <1>1, <1>2, <1>3 DEF Typed
<1>11. IdsGrow' /\ BufsOwned'
  BY <1>2, <1>3 DEF IInv, IdsGrow, BufsOwned
<1> QED BY <1>7, <1>9, <1>10, <1>11 DEF IInv

LEMMA EnqueueStep ==
    ASSUME IInv, Enqueue
    PROVE  IInv'
<1> DEFINE s == journal.start
           last == journal.last
           t == [trans EXCEPT !.revoke = {}]
<1>1. /\ Typed /\ trans \in Transactions /\ s \in Positions /\ last \in Positions
      /\ cp_queue \in Seq(Transactions)
      /\ journal \in [start : 0..LogSize, last : 0..LogSize, trans_id : Nat, alloc_trans_id : Nat]
  BY DEF IInv, Typed, Enqueue, Active, Committing
<1>2. /\ pc = "revoked" /\ pc' = "idle" /\ Building /\ ~Building' /\ Running /\ ~Running'
      /\ pc \in Active /\ pc' \in Active /\ pc' \in PCs
  BY DEF Enqueue, Building, Running, Active, Committing, PCs
<1>3. /\ UNCHANGED <<log, buf, rec, txn>> /\ cp_queue' = Append(cp_queue, t)
      /\ trans' = NoTrans
      /\ IF cp_queue = <<>>
           THEN journal' = [journal EXCEPT !.start = trans.start, !.trans_id = trans.id]
           ELSE journal' = journal
  BY DEF Enqueue, disk, ghost
<1>4. /\ t \in Transactions /\ t.id = trans.id /\ t.start = trans.start /\ t.len = trans.len
      /\ t.n = trans.n /\ t.lba = trans.lba /\ t.bufs = trans.bufs
  BY <1>1 DEF Transactions
<1>5. /\ trans.start \in Positions /\ trans.len > 0
      /\ Dist(s, trans.start) + trans.len = Dist(s, last)
      /\ \A b \in trans.bufs : Logged(trans, b, s, log)
  <2>1. \A b \in trans.bufs : trans.lba[b] # 0
    BY <1>2 DEF IInv, TransInRing, Unlogged
  <2> QED BY <1>2, <2>1 DEF IInv, TransInRing
<1>6. InRing(t, s, Dist(s, last), log)
  <2>1. \A b \in t.bufs : Logged(t, b, s, log)
    BY <1>4, <1>5 DEF Logged
  <2>2. Dist(s, t.start) + t.len <= Dist(s, last)
    BY <1>1, <1>4, <1>5, DistRange
  <2> QED BY <1>4, <1>5, <2>1, <2>2 DEF InRing
<1> HIDE DEF t
<1>7. /\ cp_queue' \in Seq(Transactions) /\ Len(cp_queue') = Len(cp_queue) + 1
      /\ Len(cp_queue) \in Nat
      /\ \A i \in 1..Len(cp_queue) : cp_queue'[i] = cp_queue[i]
      /\ cp_queue'[Len(cp_queue) + 1] = t
  BY <1>1, <1>3, <1>4, AppendProperties, LenProperties
<1>8. NoTrans \in Transactions /\ pc' # "starting"
  BY <1>2, LogSizeAssumption DEF NoTrans, Transactions, Tags, NoTags
<1>9. /\ journal' \in [start : 0..LogSize, last : 0..LogSize, trans_id : Nat, alloc_trans_id : Nat]
      /\ journal'.start \in Positions /\ journal'.last = last
      /\ journal'.alloc_trans_id = journal.alloc_trans_id
  <2>1. trans.id \in Nat /\ trans.start \in 0..LogSize
    BY <1>1 DEF Transactions
  <2>2. CASE cp_queue = <<>>
    BY <1>1, <1>3, <1>5, <2>1, <2>2
  <2>3. CASE cp_queue # <<>>
    BY <1>1, <1>3, <2>3
  <2> QED BY <2>2, <2>3
<1>10. Typed'
  BY <1>1, <1>2, <1>3, <1>7, <1>8, <1>9 DEF Typed
<1>11. IdsGrow'
  <2>1. /\ \A i \in 1..Len(cp_queue) : cp_queue[i].id < journal.alloc_trans_id
        /\ trans.id < journal.alloc_trans_id
    BY <1>2 DEF IInv, IdsGrow
  <2>2. \A i \in 1..Len(cp_queue') : cp_queue'[i].id < journal.alloc_trans_id
    BY <1>4, <1>7, <2>1
  <2> QED BY <1>2, <1>9, <2>2 DEF IdsGrow
<1>12. TransInRing' /\ BufsOwned'
  BY <1>2 DEF TransInRing, BufsOwned
<1>13. QueueInRing'
  <2>1. End' = Dist(journal'.start, last)
    BY <1>2, <1>9 DEF End
  <2>2. CASE cp_queue = <<>>
    <3>1. journal'.start = trans.start /\ Len(cp_queue) = 0
      BY <1>1, <1>3, <2>2
    <3>2. Dist(s, trans.start) <= Dist(s, last) /\ Dist(s, last) \in Nat
      <4>1. Dist(s, trans.start) \in Nat /\ Dist(s, last) \in Nat /\ trans.len \in Nat
        BY <1>1, <1>5, DistRange, TransNat
      <4> HIDE DEF s, last
      <4> QED BY <1>5, <4>1
    <3>3. Dist(trans.start, last) = Dist(s, last) - Dist(s, trans.start)
      BY <1>1, <1>5, <3>2, Rebase
    <3>4. Dist(s, trans.start) <= Dist(s, t.start)
      BY <1>1, <1>4, <1>5, DistRange
    <3>5. InRing(t, trans.start, Dist(trans.start, last), log)
      BY <1>1, <1>4, <1>5, <1>6, <3>2, <3>3, <3>4, InRingRebase
    <3>6. Len(cp_queue') = 1 /\ cp_queue'[1] = t
      BY <1>7, <3>1
    <3> QED BY <1>3, <2>1, <3>1, <3>5, <3>6 DEF QueueInRing, Ordered
  <2>3. CASE cp_queue # <<>>
    <3>1. journal'.start = s /\ End = Dist(s, trans.start) /\ log' = log
      BY <1>2, <1>3, <2>3 DEF End
    <3>2. \A i \in 1..Len(cp_queue) : InRing(cp_queue[i], s, Dist(s, trans.start), log)
      BY <3>1 DEF IInv, QueueInRing
    <3>3. \A i \in 1..Len(cp_queue) : InRing(cp_queue[i], s, Dist(s, last), log)
      <4> SUFFICES ASSUME NEW i \in 1..Len(cp_queue)
                   PROVE  InRing(cp_queue[i], s, Dist(s, last), log)
        OBVIOUS
      <4>1. InRing(cp_queue[i], s, Dist(s, trans.start), log)
        BY <3>2
      <4>2. cp_queue[i].start \in Positions /\ cp_queue[i] \in Transactions
            /\ Dist(s, cp_queue[i].start) + cp_queue[i].len <= Dist(s, trans.start)
        BY <1>1, <4>1, ElementOfSeq DEF InRing
      <4>3. Dist(s, cp_queue[i].start) + cp_queue[i].len <= Dist(s, last)
        <5> DEFINE x == Dist(s, cp_queue[i].start)
                   n == cp_queue[i].len
                   y == Dist(s, trans.start)
                   z == Dist(s, last)
        <5>1. x \in Nat /\ n \in Nat /\ y \in Nat /\ z \in Nat /\ trans.len \in Nat
          BY <1>1, <1>5, <4>2, DistRange, TransNat
        <5>2. x + n <= y /\ y + trans.len = z
          BY <1>5, <4>2
        <5> HIDE DEF x, n, y, z
        <5>3. x + n <= z
          BY <5>1, <5>2
        <5> QED BY <5>3 DEF x, n, z
      <4> QED BY <4>1, <4>3 DEF InRing
    <3>4. \A i \in 1..Len(cp_queue') : InRing(cp_queue'[i], s, Dist(s, last), log)
      BY <1>6, <1>7, <3>3
    <3>5. Ordered(cp_queue', s)
      <4> SUFFICES ASSUME NEW i \in 1..Len(cp_queue'), NEW j \in 1..Len(cp_queue'), i < j
                   PROVE  Dist(s, cp_queue'[i].start) + cp_queue'[i].len
                            <= Dist(s, cp_queue'[j].start)
        BY DEF Ordered
      <4>1. i \in 1..Len(cp_queue) /\ (j \in 1..Len(cp_queue) \/ j = Len(cp_queue) + 1)
        BY <1>7
      <4>2. CASE j \in 1..Len(cp_queue)
        BY <1>7, <4>1, <4>2 DEF IInv, QueueInRing, Ordered
      <4>3. CASE j = Len(cp_queue) + 1
        <5>1. cp_queue'[j].start = trans.start /\ cp_queue'[i] = cp_queue[i]
          BY <1>4, <1>7, <4>1, <4>3
        <5> QED BY <3>2, <4>1, <5>1 DEF InRing
      <4> QED BY <4>1, <4>2, <4>3
    <3> QED BY <2>1, <3>1, <3>4, <3>5 DEF QueueInRing
  <2> QED BY <2>2, <2>3
<1> QED BY <1>10, <1>11, <1>12, <1>13 DEF IInv

LEMMA CommitSteps ==
    ASSUME IInv, CommitStep
    PROVE  IInv'
<1>1. /\ Typed /\ cp_queue \in Seq(Transactions) /\ trans \in Transactions
      /\ journal \in [start : 0..LogSize, last : 0..LogSize, trans_id : Nat, alloc_trans_id : Nat]
  BY DEF IInv, Typed
<1>2. CASE LogRevoke
  <2>1. /\ pc = "revoke" /\ pc' = "commit" /\ Room
        /\ log' = [log EXCEPT ![journal.last] = Revoke(trans.id, trans.revoke)]
        /\ trans' = [trans EXCEPT !.len = @ + 1]
        /\ journal' = [journal EXCEPT !.last = Ring(journal.last, 1)]
        /\ UNCHANGED <<cp_queue, rec, buf, txn>>
    BY <1>2 DEF LogRevoke, Allocated, ghost
  <2>2. Ring(journal.last, 1) \in 0..LogSize
    BY <1>1, <2>1, AllocAhead DEF Active, Committing, Positions
  <2>3. /\ journal' \in [start : 0..LogSize, last : 0..LogSize, trans_id : Nat, alloc_trans_id : Nat]
        /\ journal'.start = journal.start /\ journal'.last = Ring(journal.last, 1)
        /\ journal'.alloc_trans_id = journal.alloc_trans_id
    BY <1>1, <2>1, <2>2
  <2>4. journal'.alloc_trans_id >= journal.alloc_trans_id
    BY <1>1, <2>3
  <2> QED BY <2>1, <2>3, <2>4, BlockLogged
<1>3. CASE LogCommit
  <2>1. /\ pc = "commit" /\ pc' = "revoked" /\ Room
        /\ log' = [log EXCEPT ![journal.last] = Commit(trans.id)]
        /\ trans' = [trans EXCEPT !.len = @ + 1]
        /\ journal' = [Allocated EXCEPT !.alloc_trans_id = @ + 1]
        /\ UNCHANGED <<cp_queue, rec, buf, txn>>
    BY <1>3 DEF LogCommit
  <2>2. Ring(journal.last, 1) \in 0..LogSize
    BY <1>1, <2>1, AllocAhead DEF Active, Committing, Positions
  <2>3. /\ Allocated \in [start : 0..LogSize, last : 0..LogSize,
                         trans_id : Nat, alloc_trans_id : Nat]
        /\ Allocated.start = journal.start /\ Allocated.last = Ring(journal.last, 1)
        /\ Allocated.alloc_trans_id = journal.alloc_trans_id
    BY <1>1, <2>2 DEF Allocated
  <2>4. /\ journal' \in [start : 0..LogSize, last : 0..LogSize, trans_id : Nat, alloc_trans_id : Nat]
        /\ journal'.start = journal.start /\ journal'.last = Ring(journal.last, 1)
        /\ journal'.alloc_trans_id = journal.alloc_trans_id + 1
    BY <1>1, <2>1, <2>3
  <2>5. journal'.alloc_trans_id > journal.alloc_trans_id
    BY <1>1, <2>4
  <2>6. journal'.alloc_trans_id >= journal.alloc_trans_id
    BY <1>1, <2>4
  <2> QED BY <2>1, <2>4, <2>5, <2>6, BlockLogged
<1>4. ASSUME NEW b \in Blocks, CompleteRevoked(b)
      PROVE  IInv'
  <2>1. UNCHANGED <<journal, log, pc, trans, txn, buf, rec>> /\ pc # "starting"
    BY <1>4 DEF CompleteRevoked, disk, ghost
  <2>2. ThinnedQueue(cp_queue, cp_queue')
    BY <1>1, <1>4, EndWriteThins DEF CompleteRevoked
  <2>3. DOMAIN buf' = Blocks /\ DOMAIN rec' = Blocks
    BY <1>1, <2>1 DEF Typed
  <2> QED BY <2>1, <2>2, <2>3, WritesDone
<1> QED BY <1>2, <1>3, <1>4, AllocDescriptorStep, LogDescriptorStep, EnqueueStep, LogDataStep
        DEF CommitStep

\* The record of a block that the running transaction has dirtied is not the
\* head's, which is an earlier transaction.
LEMMA HeadOlder ==
    ASSUME IInv, cp_queue # <<>>, Running, NEW b \in trans.bufs
    PROVE  rec[b] # cp_queue[1].id
<1>1. cp_queue \in Seq(Transactions) /\ trans \in Transactions
  BY DEF IInv, Typed
<1>2. 1 \in 1..Len(cp_queue)
  BY <1>1, EmptySeq, LenProperties
<1>3. cp_queue[1].id \in Nat /\ trans.id \in Nat
  BY <1>1, <1>2, ElementOfSeq, TransNat
<1>4. cp_queue[1].id < trans.id /\ rec[b] = trans.id
  BY <1>2 DEF IInv, IdsGrow, BufsOwned
<1> QED BY <1>3, <1>4

LEMMA DropHeadStep ==
    ASSUME IInv, HeadWritten, DropHead, UNCHANGED <<log, pc, trans, txn, buf>>
    PROVE  IInv'
<1> DEFINE s == journal.start
           h == cp_queue[1]
           q == Ring(h.start, h.len)
<1>1. cp_queue \in Seq(Transactions) /\ cp_queue # <<>>
      /\ DOMAIN buf' = Blocks /\ DOMAIN rec' = Blocks
      /\ journal \in [start : 0..LogSize, last : 0..LogSize, trans_id : Nat, alloc_trans_id : Nat]
  BY DEF IInv, Typed, HeadWritten, DropHead
<1>2. 1 \in 1..Len(cp_queue) /\ Len(cp_queue) \in Nat /\ Len(cp_queue) > 0
  BY <1>1, EmptySeq, LenProperties
<1>3. pc \in Active
  BY <1>2 DEF IInv, Typed
<1>4. s \in Positions
  BY <1>3 DEF IInv, Typed
<1>5. h \in Transactions /\ h.len \in Nat /\ h.id \in Nat
  BY <1>1, <1>2, ElementOfSeq, TransNat
<1>6. h.start \in Positions /\ Dist(s, h.start) + h.len <= End
  BY <1>2 DEF IInv, QueueInRing, InRing
<1>7. Dist(s, h.start) \in Nat /\ End \in Nat /\ End < LogSize
  BY <1>3, <1>4, <1>6, DistRange, EndRange
<1>8. q \in Positions /\ Dist(s, q) = Dist(s, h.start) + h.len
  <2>1. Dist(s, h.start) + h.len < LogSize
    <3> HIDE DEF s, h
    <3> QED BY <1>5, <1>6, <1>7, LogSizeAssumption
  <2> QED BY <1>4, <1>5, <1>6, <2>1, DistRing
<1>9. /\ cp_queue' \in Seq(Transactions) /\ Len(cp_queue') = Len(cp_queue) - 1
      /\ \A i \in 1..Len(cp_queue') : cp_queue'[i] = cp_queue[i + 1]
  BY <1>1, HeadTailProperties DEF DropHead
<1>10. \A i \in 1..Len(cp_queue') : Dist(s, q) <= Dist(s, cp_queue[i + 1].start)
  <2> SUFFICES ASSUME NEW i \in 1..Len(cp_queue')
               PROVE  Dist(s, q) <= Dist(s, cp_queue[i + 1].start)
    OBVIOUS
  <2>1. i + 1 \in 1..Len(cp_queue) /\ 1 < i + 1
    BY <1>2, <1>9
  <2>2. Dist(s, h.start) + h.len <= Dist(s, cp_queue[i + 1].start)
    BY <1>2, <2>1 DEF IInv, QueueInRing, Ordered
  <2> QED BY <1>8, <2>2
<1>11. journal' = [journal EXCEPT !.start = q, !.trans_id = h.id + 1]
  BY DEF DropHead
<1>12. h.id + 1 \in Nat /\ q \in 0..LogSize
  BY <1>5, <1>8 DEF Positions
<1> HIDE DEF q, h
<1>13. /\ journal' \in [start : 0..LogSize, last : 0..LogSize, trans_id : Nat, alloc_trans_id : Nat]
       /\ journal'.start = q /\ journal'.last = journal.last
       /\ journal'.alloc_trans_id = journal.alloc_trans_id
  BY <1>1, <1>11, <1>12
<1>14. Running => \A b \in trans.bufs : rec'[b] = rec[b] /\ buf'[b] = buf[b]
  <2>1. trans.bufs \subseteq Blocks
    BY DEF IInv, Typed, Transactions
  <2> QED BY <1>1, <2>1, HeadOlder DEF DropHead
<1>15. Dist(s, q) <= End
  BY <1>6, <1>8 DEF h
<1> QED BY <1>1, <1>3, <1>8, <1>9, <1>10, <1>13, <1>14, <1>15, StartMoves

LEMMA CheckpointSteps ==
    ASSUME IInv, CheckpointStep
    PROVE  IInv'
<1>1. /\ Typed /\ cp_queue \in Seq(Transactions)
      /\ DOMAIN buf = Blocks /\ DOMAIN rec = Blocks
      /\ journal \in [start : 0..LogSize, last : 0..LogSize, trans_id : Nat, alloc_trans_id : Nat]
  BY DEF IInv, Typed
<1>2. CASE EndWriteOwn
  <2> DEFINE F == [i \in DOMAIN cp_queue |->
                     IF cp_queue[i].id = ending.id THEN Without(cp_queue[i], ending.block)
                     ELSE cp_queue[i]]
  <2>1. cp_queue' = F /\ UNCHANGED <<journal, log, pc, trans, txn, buf, rec, jsb>>
    BY <1>2 DEF EndWriteOwn, disk, ghost
  <2>2. \A i \in DOMAIN cp_queue : Thinned(cp_queue[i], F[i])
    BY DEF Thinned
  <2>3. F = [i \in DOMAIN cp_queue |-> F[i]]
    OBVIOUS
  <2> HIDE DEF F
  <2>4. ThinnedQueue(cp_queue, cp_queue')
    BY <1>1, <2>1, <2>2, <2>3, ThinnedMap
  <2> QED BY <1>1, <2>1, <2>4, WritesDone DEF Typed
<1>3. CASE Purge
  <2>1. HeadWritten /\ DropHead /\ UNCHANGED <<log, pc, trans, txn, buf>>
    BY <1>3 DEF Purge, disk, ghost
  <2> QED BY <2>1, DropHeadStep
<1>4. CASE Purged
  <2>1. UNCHANGED <<log, pc, trans, txn, buf, rec, jsb, cp_queue>>
    BY <1>4 DEF Purged, disk, ghost
  <2>2. CASE cp_queue = <<>>
    <3>1. journal' = journal
      BY <1>4, <2>2 DEF Purged
    <3> QED BY <1>1, <2>1, <3>1, SameThins, WritesDone DEF Typed
  <2>3. CASE cp_queue # <<>>
    <3> DEFINE s == journal.start
               h == cp_queue[1]
    <3>1. journal' = [journal EXCEPT !.start = h.start, !.trans_id = h.id]
      BY <1>4, <2>3 DEF Purged
    <3>2. 1 \in 1..Len(cp_queue) /\ Len(cp_queue) \in Nat
      BY <1>1, <2>3, EmptySeq, LenProperties
    <3>3. pc \in Active
      BY <3>2 DEF IInv, Typed
    <3>4. s \in Positions
      BY <3>3 DEF IInv, Typed
    <3>5. h.start \in Positions /\ Dist(s, h.start) + h.len <= End
      BY <3>2 DEF IInv, QueueInRing, InRing
    <3>6. h.len \in Nat /\ h.id \in Nat
      BY <1>1, <3>2, ElementOfSeq, TransNat
    <3>7. Dist(s, h.start) \in Nat /\ End \in Nat
      BY <3>3, <3>4, <3>5, DistRange, EndRange
    <3>8. Dist(s, h.start) <= End
      <4> HIDE DEF s, h
      <4> QED BY <3>5, <3>6, <3>7
    <3>9. \A i \in 1..Len(cp_queue) : Dist(s, h.start) <= Dist(s, cp_queue[i].start)
      <4> SUFFICES ASSUME NEW i \in 1..Len(cp_queue)
                   PROVE  Dist(s, h.start) <= Dist(s, cp_queue[i].start)
        OBVIOUS
      <4>1. CASE i = 1
        BY <3>7, <4>1
      <4>2. CASE i # 1
        <5>1. Dist(s, h.start) + h.len <= Dist(s, cp_queue[i].start)
          BY <3>2, <4>2 DEF IInv, QueueInRing, Ordered
        <5>2. cp_queue[i].start \in Positions
          BY DEF IInv, QueueInRing, InRing
        <5>3. Dist(s, cp_queue[i].start) \in Nat
          BY <3>4, <5>2, DistRange
        <5> HIDE DEF s, h
        <5> QED BY <3>6, <3>7, <5>1, <5>3
      <4> QED BY <4>1, <4>2
    <3>10. h.start \in 0..LogSize
      BY <3>5 DEF Positions
    <3> HIDE DEF h
    <3>11. /\ journal' \in [start : 0..LogSize, last : 0..LogSize,
                             trans_id : Nat, alloc_trans_id : Nat]
           /\ journal'.start = h.start /\ journal'.last = journal.last
           /\ journal'.alloc_trans_id = journal.alloc_trans_id
      BY <1>1, <3>1, <3>6, <3>10
    <3>12. /\ cp_queue' \in Seq(Transactions) /\ Len(cp_queue') = Len(cp_queue) - 0
           /\ \A i \in 1..Len(cp_queue') : cp_queue'[i] = cp_queue[i + 0]
           /\ \A i \in 1..Len(cp_queue') :
                 Dist(s, h.start) <= Dist(s, cp_queue[i + 0].start)
      BY <1>1, <2>1, <3>2, <3>9
    <3> QED BY <1>1, <2>1, <3>3, <3>5, <3>8, <3>11, <3>12, StartMoves
  <2> QED BY <2>2, <2>3
<1>5. CASE WriteSb
  <2>1. UNCHANGED <<log, pc, trans, txn, buf, rec, journal, cp_queue>>
        /\ jsb' = [start |-> journal.start, sequence |-> journal.trans_id]
    BY <1>5 DEF WriteSb, ghost
  <2>2. jsb'.sequence \in Nat
    BY <1>1, <2>1
  <2> QED BY <1>1, <2>1, <2>2, SameThins, WritesDone
<1>6. CASE MakeRoom
  <2>1. UNCHANGED <<log, pc, trans, txn, jsb>> /\ cp_queue # <<>> /\ pc # "starting"
    BY <1>6 DEF MakeRoom, Cramped, ghost
  <2>2. CASE HeadWritten
    BY <1>6, <2>1, <2>2, DropHeadStep DEF MakeRoom
  <2>3. CASE ~HeadWritten
    <3>1. PICK b \in cp_queue[1].bufs : FlushHead(b)
      BY <1>6, <2>3 DEF MakeRoom
    <3>2. b \in Blocks
      <4>1. 1 \in 1..Len(cp_queue)
        BY <1>1, <2>1, EmptySeq, LenProperties
      <4>2. cp_queue[1] \in Transactions
        BY <1>1, <4>1, ElementOfSeq
      <4> QED BY <3>1, <4>2 DEF Transactions
    <3>3. EndWrite(cp_queue[1].id, b) /\ UNCHANGED <<journal, rec>>
      BY <3>1 DEF FlushHead
    <3>4. \/ buf' = buf
          \/ rec[b] = cp_queue[1].id /\ buf' = [buf EXCEPT ![b] = None]
      BY <3>1 DEF FlushHead
    <3>5. ThinnedQueue(cp_queue, cp_queue')
      BY <1>1, <3>2, <3>3, EndWriteThins
    <3>6. DOMAIN buf' = Blocks
      BY <1>1, <3>4
    <3>7. Running => \A c \in trans.bufs : buf'[c] = buf[c]
      <4>1. trans.bufs \subseteq Blocks
        BY DEF IInv, Typed, Transactions
      <4> QED BY <1>1, <2>1, <3>4, <4>1, HeadOlder
    <3> QED BY <1>1, <2>1, <3>3, <3>5, <3>6, <3>7, WritesDone
  <2> QED BY <2>2, <2>3
<1> QED BY <1>2, <1>3, <1>4, <1>5, <1>6 DEF CheckpointStep

LEMMA FlushStep ==
    ASSUME IInv, NEW b \in Blocks, Flush(b)
    PROVE  IInv'
<1>1. /\ Typed /\ cp_queue \in Seq(Transactions)
      /\ DOMAIN buf = Blocks /\ DOMAIN rec = Blocks
  BY DEF IInv, Typed
<1>2. /\ UNCHANGED <<log, jsb, pc, journal, rec, trans, txn>> /\ pc # "starting"
      /\ b \notin trans.bufs /\ buf' = [buf EXCEPT ![b] = None]
      /\ cp_queue' = cp_queue \/ EndWrite(rec[b], b)
  BY DEF Flush, Referenced, ghost
<1>3. ThinnedQueue(cp_queue, cp_queue')
  BY <1>1, <1>2, SameThins, EndWriteThins
<1>4. DOMAIN buf' = Blocks /\ \A c \in trans.bufs : buf'[c] = buf[c]
  <2>1. trans.bufs \subseteq Blocks
    BY DEF IInv, Typed, Transactions
  <2> QED BY <1>1, <1>2, <2>1
<1> QED BY <1>1, <1>2, <1>3, <1>4, WritesDone

-----------------------------------------------------------------------------
\* The invariant is kept by every step.
LEMMA IInvKept == IInv /\ [Next]_vars => IInv'
<1> SUFFICES ASSUME IInv, [Next]_vars PROVE IInv'
  OBVIOUS
<1>1. CASE UNCHANGED vars
  <2>1. UNCHANGED <<log, journal, cp_queue, trans, buf, rec, txn, pc, jsb>>
    BY <1>1 DEF vars, disk, session, ghost
  <2>2. cp_queue \in Seq(Transactions) /\ DOMAIN buf = Blocks /\ DOMAIN rec = Blocks
        /\ (pc = "starting" => jsb.sequence \in Nat)
    BY DEF IInv, Typed
  <2> QED BY <2>1, <2>2, SameThins, WritesDone
<1>2. CASE Next
  BY <1>2, SessionSteps, CallerSteps, CommitSteps, CheckpointSteps, FlushStep, RecoverSteps
     DEF Next
<1> QED BY <1>1, <1>2

\* What a transaction on the checkpoint queue has yet to write home is still in
\* the log (jbd_journal_alloc_block never gives out one of its blocks), whatever
\* the size of the log and whichever situations of Triggers come up.
THEOREM CopyIntact == Spec => []JournalCopyIntact
<1>1. IInv => JournalCopyIntact
  <2> SUFFICES ASSUME IInv, NEW i \in DOMAIN cp_queue, NEW b \in cp_queue[i].bufs
               PROVE  log[cp_queue[i].lba[b]] = Data(cp_queue[i].n)
    BY DEF JournalCopyIntact
  <2>1. i \in 1..Len(cp_queue)
    BY LenProperties DEF IInv, Typed
  <2>2. Logged(cp_queue[i], b, journal.start, log)
    BY <2>1 DEF IInv, QueueInRing, InRing
  <2> QED BY <2>2 DEF Logged
<1> QED BY <1>1, InitHolds, IInvKept, PTL DEF Spec

-----------------------------------------------------------------------------
(* The checkpoint waits for the dirty buffers: FlushIsNoticed, unless       *)
(* recovery leaves its buffers in the cache ("delayed").                    *)

\* Later in the queue is later in the session.
IdsOrdered ==
    \A i, j \in 1..Len(cp_queue) : i < j => cp_queue[i].id < cp_queue[j].id

\* The i-th in the queue is the last that has yet to write b.
IsNewest(b, i) == i \in Pending(b) /\ \A j \in Pending(b) : j <= i

\* A dirty buffer nobody holds has the content of the last that has to write it.
Noticed ==
    \A b \in Blocks \ trans.bufs :
        buf[b] # None => \E i \in 1..Len(cp_queue) :
            IsNewest(b, i) /\ rec[b] = cp_queue[i].id /\ buf[b] = cp_queue[i].n

\* A block that is revoked has no buffer.
RevokedGone == \A b \in trans.revoke \ trans.bufs : buf[b] = None

\* What jbd_trans_end_write takes off the queue is not what a dirty buffer waits for.
EndsOlder ==
    ending # NotEnding =>
        /\ ending.block \in Blocks
        /\ \/ ending.block \in trans.bufs \/ buf[ending.block] = None
           \/ rec[ending.block] # ending.id

NoneRunning == ~Running => trans.bufs = {} /\ trans.revoke = {}

NInv == IdsOrdered /\ Noticed /\ RevokedGone /\ EndsOlder /\ NoneRunning

\* A set of indices that is not empty has a largest one.
LEMMA LargestIndex ==
    ASSUME NEW n \in Nat, NEW S \in SUBSET (1..n), S # {}
    PROVE  \E m \in S : \A j \in S : j <= m
<1> DEFINE After == {j + 1 .. n : j \in S}
           R == StrictSubsetOrdering(1..n)
<1>1. After # {}
  OBVIOUS
<1>2. After \subseteq SUBSET (1..n)
  <2> SUFFICES ASSUME NEW j \in S PROVE j + 1 .. n \subseteq 1..n
    OBVIOUS
  <2> QED OBVIOUS
<1>3. IsWellFoundedOn(R, SUBSET (1..n))
  <2>1. IsFiniteSet(1..n)
    BY FS_Interval
  <2> QED BY <2>1, FS_FiniteSubsetsOfFinite, FS_StrictSubsetOrderingWellFounded
<1>4. PICK x \in After : \A y \in After : <<y, x>> \notin R
  <2> HIDE DEF After, R
  <2> QED BY <1>1, <1>2, <1>3, WFMin
<1>5. PICK m \in S : x = m + 1 .. n
  OBVIOUS
<1>6. ASSUME NEW j \in S
      PROVE  j <= m
  <2> SUFFICES ASSUME m < j PROVE FALSE
    OBVIOUS
  <2>1. j + 1 .. n \subseteq m + 1 .. n
    OBVIOUS
  <2>2. j \in m + 1 .. n /\ j \notin j + 1 .. n
    OBVIOUS
  <2>3. <<j + 1 .. n, m + 1 .. n>> \in R
    BY <1>2, <1>5, <2>1, <2>2 DEF StrictSubsetOrdering
  <2>4. j + 1 .. n \in After
    OBVIOUS
  <2> QED BY <1>4, <1>5, <2>3, <2>4
<1> QED BY <1>6

\* Newest is what its name says.
LEMMA NewestIs ==
    ASSUME cp_queue \in Seq(Transactions), NEW b
    PROVE  /\ Pending(b) \subseteq 1..Len(cp_queue)
           /\ \A i : IsNewest(b, i) => Newest(b) = i /\ Pending(b) # {}
           /\ Pending(b) # {} => IsNewest(b, Newest(b))
<1>1. Pending(b) \subseteq 1..Len(cp_queue) /\ Len(cp_queue) \in Nat
  BY LenProperties DEF Pending
<1>2. ASSUME NEW i, IsNewest(b, i)
      PROVE  Newest(b) = i /\ Pending(b) # {}
  <2>1. i \in Pending(b) /\ \A j \in Pending(b) : j <= i
    BY <1>2 DEF IsNewest
  <2>2. \A k \in Pending(b) : (\A j \in Pending(b) : j <= k) => k = i
    BY <1>1, <2>1
  <2> QED BY <2>1, <2>2 DEF Newest
<1>3. ASSUME Pending(b) # {}
      PROVE  IsNewest(b, Newest(b))
  <2>1. \E m \in Pending(b) : \A j \in Pending(b) : j <= m
    BY <1>1, <1>3, LargestIndex
  <2> QED BY <2>1 DEF Newest, IsNewest
<1> QED BY <1>1, <1>2, <1>3

\* Buffers nobody holds are still waited for when the queue is thinned, as long
\* as what each of them waits for is not taken off.
LEMMA NoticedThinned ==
    ASSUME IInv, Noticed, ThinnedQueue(cp_queue, cp_queue'), trans'.bufs = trans.bufs,
           \A b \in Blocks \ trans.bufs : buf'[b] # None =>
               /\ buf'[b] = buf[b] /\ rec'[b] = rec[b]
               /\ \A i \in 1..Len(cp_queue) :
                    (b \in cp_queue[i].bufs /\ rec[b] = cp_queue[i].id)
                      => b \in cp_queue'[i].bufs
    PROVE  Noticed'
<1> SUFFICES ASSUME NEW b \in Blocks \ trans.bufs, buf'[b] # None
             PROVE  \E i \in 1..Len(cp_queue') :
                      IsNewest(b, i)' /\ rec'[b] = cp_queue'[i].id /\ buf'[b] = cp_queue'[i].n
  BY DEF Noticed
<1>1. cp_queue \in Seq(Transactions) /\ cp_queue' \in Seq(Transactions)
      /\ Len(cp_queue') = Len(cp_queue)
  BY DEF IInv, Typed, ThinnedQueue
<1>2. DOMAIN cp_queue = 1..Len(cp_queue) /\ DOMAIN cp_queue' = 1..Len(cp_queue)
  BY <1>1, LenProperties
<1>3. \A j \in 1..Len(cp_queue) :
        /\ cp_queue'[j].id = cp_queue[j].id /\ cp_queue'[j].n = cp_queue[j].n
        /\ cp_queue'[j].bufs \subseteq cp_queue[j].bufs
  BY <1>1, ElementOfSeq, ThinnedTrans DEF ThinnedQueue
<1>4. buf'[b] = buf[b] /\ rec'[b] = rec[b]
  OBVIOUS
<1>5. PICK i \in 1..Len(cp_queue) :
        IsNewest(b, i) /\ rec[b] = cp_queue[i].id /\ buf[b] = cp_queue[i].n
  BY <1>4 DEF Noticed
<1>6. b \in cp_queue[i].bufs /\ \A j \in Pending(b) : j <= i
  BY <1>5 DEF IsNewest, Pending
<1>7. b \in cp_queue'[i].bufs
  BY <1>5, <1>6
<1>8. Pending(b)' \subseteq Pending(b) /\ i \in Pending(b)'
  BY <1>2, <1>3, <1>7 DEF Pending
<1>9. IsNewest(b, i)'
  BY <1>6, <1>8 DEF IsNewest
<1> QED BY <1>1, <1>3, <1>4, <1>5, <1>9

\* jbd_trans_end_write keeps for a buffer what it waits for, until the own jbd_buf.
LEMMA EndWriteKeeps ==
    ASSUME cp_queue \in Seq(Transactions), NEW id, NEW b \in Blocks, EndWrite(id, b),
           NEW c, NEW i \in 1..Len(cp_queue), c \in cp_queue[i].bufs, rec[c] = cp_queue[i].id
    PROVE  c \in cp_queue'[i].bufs
<1>1. i \in DOMAIN cp_queue /\ cp_queue[i] \in Transactions
  BY LenProperties, ElementOfSeq
<1>2. \/ cp_queue'[i] = cp_queue[i]
      \/ /\ cp_queue'[i] = Without(cp_queue[i], b)
         /\ rec[b] = id /\ cp_queue[i].id # id
  BY <1>1 DEF EndWrite
<1>3. CASE cp_queue'[i] = cp_queue[i]
  BY <1>3
<1>4. CASE cp_queue'[i] = Without(cp_queue[i], b) /\ rec[b] = id /\ cp_queue[i].id # id
  <2>1. c # b
    BY <1>4
  <2>2. cp_queue'[i].bufs = cp_queue[i].bufs \ {b}
    BY <1>1, <1>4 DEF Without, Transactions
  <2> QED BY <2>1, <2>2
<1> QED BY <1>2, <1>3, <1>4

LEMMA OrderKept ==
    ASSUME IInv, IdsOrdered, ThinnedQueue(cp_queue, cp_queue')
    PROVE  IdsOrdered'
<1>1. cp_queue \in Seq(Transactions) /\ Len(cp_queue') = Len(cp_queue)
  BY DEF IInv, Typed, ThinnedQueue
<1>2. \A j \in 1..Len(cp_queue) : cp_queue'[j].id = cp_queue[j].id
  BY <1>1, ElementOfSeq, ThinnedTrans DEF ThinnedQueue
<1> QED BY <1>1, <1>2 DEF IdsOrdered

\* Steps that concern neither the buffers nor the queue.
LEMMA NotConcerned ==
    ASSUME NInv, UNCHANGED <<cp_queue, ending, buf, rec>>,
           trans'.bufs = trans.bufs, trans'.revoke = trans.revoke, Running => Running'
    PROVE  NInv'
<1>1. IdsOrdered' /\ RevokedGone' /\ EndsOlder' /\ NoneRunning'
  BY DEF NInv, IdsOrdered, RevokedGone, EndsOlder, NoneRunning
<1>2. Noticed'
  BY DEF NInv, Noticed, IsNewest, Pending
<1> QED BY <1>1, <1>2 DEF NInv

\* A write has been done, and is reported to the transaction id.
LEMMA WriteReported ==
    ASSUME IInv, NInv, NEW b \in Blocks, NEW id, EndWrite(id, b), UNCHANGED <<trans, rec, pc>>,
           buf' = buf \/ buf' = [buf EXCEPT ![b] = None],
           b \in trans.bufs \/ buf'[b] = None \/ rec[b] # id
    PROVE  NInv'
<1>1. /\ cp_queue \in Seq(Transactions) /\ DOMAIN buf = Blocks /\ trans.revoke \subseteq Blocks
  BY DEF IInv, Typed, Transactions
<1>2. ThinnedQueue(cp_queue, cp_queue')
  BY <1>1, EndWriteThins
<1>3. \A c \in Blocks : buf'[c] = buf[c] \/ buf'[c] = None
  BY <1>1
<1>4. Noticed'
  <2>1. ASSUME NEW c \in Blocks \ trans.bufs, buf'[c] # None
        PROVE  /\ buf'[c] = buf[c] /\ rec'[c] = rec[c]
               /\ \A i \in 1..Len(cp_queue) :
                    (c \in cp_queue[i].bufs /\ rec[c] = cp_queue[i].id)
                      => c \in cp_queue'[i].bufs
    BY <1>1, <1>3, <2>1, EndWriteKeeps
  <2> QED BY <1>2, <2>1, NoticedThinned DEF NInv
<1>5. IdsOrdered'
  BY <1>2, OrderKept DEF NInv
<1>6. RevokedGone'
  BY <1>1, <1>3 DEF NInv, RevokedGone
<1>7. EndsOlder'
  <2>1. ending'.block = b /\ ending'.id = id
    BY DEF EndWrite
  <2> QED BY <2>1 DEF EndsOlder
<1>8. NoneRunning'
  BY DEF NInv, NoneRunning, Running, Building
<1> QED BY <1>4, <1>5, <1>6, <1>7, <1>8 DEF NInv

LEMMA EndWriteOwnNotices ==
    ASSUME IInv, NInv, EndWriteOwn
    PROVE  NInv'
<1> DEFINE F == [i \in DOMAIN cp_queue |->
                   IF cp_queue[i].id = ending.id THEN Without(cp_queue[i], ending.block)
                   ELSE cp_queue[i]]
<1>1. cp_queue \in Seq(Transactions) /\ DOMAIN cp_queue = 1..Len(cp_queue)
  BY LenProperties DEF IInv, Typed
<1>2. /\ cp_queue' = F /\ UNCHANGED <<pc, trans, buf, rec>> /\ ending # NotEnding
      /\ ending' = NotEnding
  BY DEF EndWriteOwn
<1>3. ThinnedQueue(cp_queue, cp_queue')
  <2>1. \A i \in DOMAIN cp_queue : Thinned(cp_queue[i], F[i])
    BY DEF Thinned
  <2>2. F = [i \in DOMAIN cp_queue |-> F[i]]
    OBVIOUS
  <2> HIDE DEF F
  <2> QED BY <1>1, <1>2, <2>1, <2>2, ThinnedMap
<1>4. ASSUME NEW c \in Blocks \ trans.bufs, buf[c] # None, NEW i \in 1..Len(cp_queue),
             c \in cp_queue[i].bufs, rec[c] = cp_queue[i].id
      PROVE  c \in cp_queue'[i].bufs
  <2>1. cp_queue[i] \in Transactions
    BY <1>1, ElementOfSeq
  <2>2. CASE cp_queue[i].id # ending.id
    BY <1>1, <1>2, <1>4, <2>2
  <2>3. CASE cp_queue[i].id = ending.id
    <3>1. c # ending.block
      BY <1>2, <1>4, <2>3 DEF NInv, EndsOlder
    <3>2. cp_queue'[i].bufs = cp_queue[i].bufs \ {ending.block}
      BY <1>1, <1>2, <2>1, <2>3 DEF Without, Transactions
    <3> QED BY <1>4, <3>1, <3>2
  <2> QED BY <2>2, <2>3
<1>5. Noticed'
  BY <1>2, <1>3, <1>4, NoticedThinned DEF NInv
<1>6. IdsOrdered'
  BY <1>3, OrderKept DEF NInv
<1>7. RevokedGone' /\ EndsOlder' /\ NoneRunning'
  BY <1>2 DEF NInv, RevokedGone, EndsOlder, NoneRunning, Running, Building
<1> QED BY <1>5, <1>6, <1>7 DEF NInv

\* No dirty buffer waits for a head that is all written, and its block records go.
LEMMA DropHeadNotices ==
    ASSUME IInv, NInv, HeadWritten, DropHead, UNCHANGED <<pc, trans, buf, ending>>
    PROVE  NInv'
<1>1. cp_queue \in Seq(Transactions) /\ cp_queue # <<>> /\ cp_queue[1].bufs = {}
  BY DEF IInv, Typed, HeadWritten
<1>2. DOMAIN cp_queue = 1..Len(cp_queue) /\ Len(cp_queue) \in Nat /\ Len(cp_queue) > 0
  BY <1>1, EmptySeq, LenProperties
<1>3. /\ Len(cp_queue') = Len(cp_queue) - 1 /\ cp_queue' \in Seq(Transactions)
      /\ \A i \in 1..Len(cp_queue') : cp_queue'[i] = cp_queue[i + 1]
  BY <1>1, HeadTailProperties DEF DropHead
<1>4. DOMAIN cp_queue' = 1..Len(cp_queue')
  BY <1>3, LenProperties
<1>5. ASSUME NEW b \in Blocks \ trans.bufs, buf[b] # None
      PROVE  /\ rec'[b] = rec[b]
             /\ \E i \in 1..Len(cp_queue') :
                  IsNewest(b, i)' /\ rec[b] = cp_queue'[i].id /\ buf[b] = cp_queue'[i].n
  <2>1. PICK i \in 1..Len(cp_queue) :
          IsNewest(b, i) /\ rec[b] = cp_queue[i].id /\ buf[b] = cp_queue[i].n
    BY <1>5 DEF NInv, Noticed
  <2>2. b \in cp_queue[i].bufs /\ i # 1 /\ \A j \in Pending(b) : j <= i
    BY <1>1, <2>1 DEF IsNewest, Pending
  <2>3. i - 1 \in 1..Len(cp_queue') /\ cp_queue'[i - 1] = cp_queue[i]
    BY <1>2, <1>3, <2>1, <2>2
  <2>4. cp_queue[i].id # cp_queue[1].id
    <3>1. cp_queue[1].id < cp_queue[i].id
      BY <1>2, <2>1, <2>2 DEF NInv, IdsOrdered
    <3>2. cp_queue[1].id \in Nat /\ cp_queue[i].id \in Nat
      <4>1. cp_queue[1] \in Transactions /\ cp_queue[i] \in Transactions
        BY <1>1, <1>2, ElementOfSeq
      <4> QED BY <4>1, TransNat
    <3> QED BY <3>1, <3>2
  <2>5. rec'[b] = rec[b]
    BY <2>1, <2>4 DEF DropHead
  <2>6. IsNewest(b, i - 1)'
    <3>1. i - 1 \in Pending(b)'
      BY <1>4, <2>2, <2>3 DEF Pending
    <3>2. ASSUME NEW j \in Pending(b)'
          PROVE  j <= i - 1
      <4>1. j \in 1..Len(cp_queue') /\ b \in cp_queue'[j].bufs
        BY <1>4 DEF Pending
      <4>2. j + 1 \in 1..Len(cp_queue) /\ b \in cp_queue[j + 1].bufs
        BY <1>2, <1>3, <4>1
      <4>3. j + 1 \in Pending(b)
        BY <1>2, <4>2 DEF Pending
      <4> QED BY <2>1, <2>2, <4>1, <4>3
    <3> QED BY <3>1, <3>2 DEF IsNewest
  <2> QED BY <2>1, <2>3, <2>5, <2>6
<1>6. Noticed'
  BY <1>5 DEF Noticed
<1>7. IdsOrdered'
  <2> SUFFICES ASSUME NEW i \in 1..Len(cp_queue'), NEW j \in 1..Len(cp_queue'), i < j
               PROVE  cp_queue'[i].id < cp_queue'[j].id
    BY DEF IdsOrdered
  <2>1. i + 1 \in 1..Len(cp_queue) /\ j + 1 \in 1..Len(cp_queue) /\ i + 1 < j + 1
    BY <1>2, <1>3
  <2> QED BY <1>3, <2>1 DEF NInv, IdsOrdered
<1>8. EndsOlder'
  BY <1>5 DEF NInv, EndsOlder
<1>9. RevokedGone' /\ NoneRunning'
  BY DEF NInv, RevokedGone, NoneRunning, Running, Building
<1> QED BY <1>6, <1>7, <1>8, <1>9 DEF NInv

\* The caller changes buffers of the running transaction, and drops others.
LEMMA CallerNotices ==
    ASSUME NInv, UNCHANGED <<cp_queue, ending>>, ending = NotEnding,
           \A b \in Blocks \ trans'.bufs :
               buf'[b] # None => b \notin trans.bufs /\ buf'[b] = buf[b] /\ rec'[b] = rec[b],
           \A b \in trans'.revoke \ trans'.bufs : buf'[b] = None,
           Running' \/ trans' = NoTrans
    PROVE  NInv'
<1>1. IdsOrdered' /\ RevokedGone' /\ EndsOlder' /\ NoneRunning'
  BY DEF NInv, IdsOrdered, RevokedGone, EndsOlder, NoneRunning, NoTrans
<1>2. Noticed'
  BY DEF NInv, Noticed, IsNewest, Pending
<1> QED BY <1>1, <1>2 DEF NInv

LEMMA SetDirtyNotices ==
    ASSUME IInv, NInv, NEW S \in SUBSET Blocks, SetDirty(S), UNCHANGED <<cp_queue, ending>>,
           ending = NotEnding, Running'
    PROVE  NInv'
<1>1. trans \in Transactions /\ trans.revoke \subseteq Blocks
  BY DEF IInv, Typed, Transactions
<1>2. trans'.bufs = trans.bufs \cup S /\ trans'.revoke = trans.revoke \ S
  BY <1>1 DEF SetDirty, Transactions
<1>3. /\ rec' = [b \in Blocks |-> IF b \in S THEN trans.id ELSE rec[b]]
      /\ buf' = [b \in Blocks |-> IF b \in S THEN trans.n ELSE buf[b]]
  BY DEF SetDirty
<1>4. \A b \in Blocks \ trans'.bufs :
        b \notin trans.bufs /\ buf'[b] = buf[b] /\ rec'[b] = rec[b]
  BY <1>2, <1>3
<1>5. \A b \in trans'.revoke \ trans'.bufs : buf'[b] = None
  BY <1>1, <1>2, <1>3 DEF NInv, RevokedGone
<1> QED BY <1>4, <1>5, CallerNotices

\* An abort restores what the newest transaction on the queue has logged.
LEMMA AbortNotices ==
    ASSUME IInv, NInv, Abort
    PROVE  NInv'
<1>1. /\ cp_queue \in Seq(Transactions) /\ trans' = NoTrans /\ trans'.bufs = {}
      /\ UNCHANGED <<cp_queue, ending>> /\ pc = "run"
      /\ buf' = [b \in Blocks |-> IF b \in trans.bufs THEN Restored(b) ELSE buf[b]]
      /\ rec' = [b \in Blocks |-> IF b \in trans.bufs THEN NewestId(b) ELSE rec[b]]
      /\ ending = NotEnding
  BY DEF IInv, Typed, Abort, NoTrans, Quiet
<1>2. DOMAIN cp_queue = 1..Len(cp_queue)
  BY <1>1, LenProperties
<1>3. ASSUME NEW b \in trans.bufs, b \in Blocks, Restored(b) # None
      PROVE  \E i \in 1..Len(cp_queue) :
               IsNewest(b, i) /\ NewestId(b) = cp_queue[i].id /\ Restored(b) = cp_queue[i].n
  <2>1. Pending(b) # {}
    BY <1>3 DEF Restored
  <2>2. IsNewest(b, Newest(b)) /\ Newest(b) \in 1..Len(cp_queue)
    BY <1>1, <2>1, NewestIs DEF IsNewest
  <2>3. b \in cp_queue[Newest(b)].bufs
    BY <2>2 DEF IsNewest, Pending
  <2>4. Logged(cp_queue[Newest(b)], b, journal.start, log)
    BY <2>2, <2>3 DEF IInv, QueueInRing, InRing
  <2>5. Restored(b) = cp_queue[Newest(b)].n
    BY <2>1, <2>4 DEF Restored, Logged, Data
  <2>6. NewestId(b) = cp_queue[Newest(b)].id
    BY <2>1 DEF NewestId
  <2> QED BY <2>2, <2>5, <2>6
<1>4. ASSUME NEW b \in Blocks, buf'[b] # None
      PROVE  \E i \in 1..Len(cp_queue) :
               IsNewest(b, i) /\ rec'[b] = cp_queue[i].id /\ buf'[b] = cp_queue[i].n
  <2>1. CASE b \in trans.bufs
    BY <1>1, <1>3, <1>4, <2>1
  <2>2. CASE b \notin trans.bufs
    BY <1>1, <1>4, <2>2 DEF NInv, Noticed
  <2> QED BY <2>1, <2>2
<1>5. Noticed'
  BY <1>1, <1>4 DEF Noticed, IsNewest, Pending
<1>6. IdsOrdered' /\ RevokedGone' /\ EndsOlder' /\ NoneRunning'
  BY <1>1 DEF NInv, IdsOrdered, RevokedGone, EndsOlder, NoneRunning, NoTrans
<1> QED BY <1>5, <1>6 DEF NInv

LEMMA CallersNotice ==
    ASSUME IInv, NInv, CallerStep
    PROVE  NInv'
<1>1. /\ trans \in Transactions /\ trans.bufs \subseteq Blocks /\ trans.revoke \subseteq Blocks
      /\ DOMAIN buf = Blocks /\ DOMAIN rec = Blocks /\ Bitmap \in Blocks
  BY BitmapAssumption DEF IInv, Typed, Transactions
<1>2. CASE Begin
  <2>1. /\ UNCHANGED <<cp_queue, ending, buf, rec>> /\ Running' /\ ending = NotEnding
        /\ trans.bufs = {} /\ trans.revoke = {}
    BY <1>2 DEF Begin, session, Quiet, Running, Building, NInv, NoneRunning
  <2>2. trans'.bufs = {} /\ trans'.revoke = {}
    BY <1>2 DEF Begin, NoTrans
  <2> QED BY <2>1, <2>2, NotConcerned
<1>3. CASE CommitBegin
  <2> DEFINE dropped == {b \in trans.bufs : buf[b] = None}
  <2>1. /\ UNCHANGED <<cp_queue, ending, buf>> /\ ending = NotEnding
        /\ rec' = [b \in Blocks |-> IF b \in dropped THEN NewestId(b) ELSE rec[b]]
        /\ \/ trans' = NoTrans /\ trans.bufs \ dropped = {}
           \/ trans' = [trans EXCEPT !.bufs = @ \ dropped] /\ pc' = "alloc"
    BY <1>3 DEF CommitBegin, Quiet
  <2>2. /\ trans'.bufs = trans.bufs \ dropped /\ trans'.revoke \subseteq trans.revoke
    BY <1>1, <2>1 DEF NoTrans, Transactions
  <2>3. Running' \/ trans' = NoTrans
    BY <2>1 DEF Running
  <2>4. \A b \in Blocks \ trans'.bufs :
          buf'[b] # None => b \notin trans.bufs /\ buf'[b] = buf[b] /\ rec'[b] = rec[b]
    BY <2>1, <2>2
  <2>5. \A b \in trans'.revoke \ trans'.bufs : buf'[b] = None
    BY <2>1, <2>2 DEF NInv, RevokedGone
  <2> QED BY <2>1, <2>3, <2>4, <2>5, CallerNotices
<1>4. ASSUME NEW b \in Blocks, Dirty(b) \/ WriteData(b)
      PROVE  NInv'
  <2>1. /\ UNCHANGED <<cp_queue, ending>> /\ ending = NotEnding /\ Running'
    BY <1>4 DEF Dirty, WriteData, Quiet, Running
  <2>2. PICK S \in SUBSET Blocks : SetDirty(S)
    BY <1>1, <1>4 DEF Dirty, WriteData
  <2> QED BY <2>1, <2>2, SetDirtyNotices
<1>5. ASSUME NEW b \in Blocks, Free(b)
      PROVE  NInv'
  <2>1. /\ UNCHANGED <<cp_queue, ending>> /\ ending = NotEnding /\ Running'
    BY <1>5 DEF Free, Quiet, Running
  <2>2. /\ trans' = [trans EXCEPT !.bufs = @ \cup {Bitmap},
                                  !.revoke = IF MustRevoke(b) THEN @ \cup {b} ELSE @]
        /\ rec' = [rec EXCEPT ![Bitmap] = trans.id]
        /\ buf' = [buf EXCEPT ![Bitmap] = trans.n, ![b] = None]
        /\ b # Bitmap
    BY <1>5 DEF Free
  <2>3. trans'.bufs = trans.bufs \cup {Bitmap} /\ trans'.revoke \subseteq trans.revoke \cup {b}
    BY <1>1, <2>2 DEF Transactions
  <2>4. \A c \in Blocks \ trans'.bufs :
          buf'[c] # None => c \notin trans.bufs /\ buf'[c] = buf[c] /\ rec'[c] = rec[c]
    BY <1>1, <2>2, <2>3
  <2>5. \A c \in trans'.revoke \ trans'.bufs : buf'[c] = None
    BY <1>1, <2>2, <2>3 DEF NInv, RevokedGone
  <2> QED BY <2>1, <2>4, <2>5, CallerNotices
<1> QED BY <1>2, <1>3, <1>4, <1>5, AbortNotices DEF CallerStep

\* What the transaction has dirtied waits for it from now on.
LEMMA EnqueueNotices ==
    ASSUME IInv, NInv, Enqueue
    PROVE  NInv'
<1> DEFINE t == [trans EXCEPT !.revoke = {}]
           n == Len(cp_queue)
<1>1. /\ cp_queue \in Seq(Transactions) /\ trans \in Transactions /\ n \in Nat
      /\ DOMAIN cp_queue = 1..n
  BY LenProperties DEF IInv, Typed
<1>2. /\ UNCHANGED <<buf, rec, ending>> /\ cp_queue' = Append(cp_queue, t)
      /\ trans' = NoTrans /\ pc = "revoked" /\ ending = NotEnding /\ Running
  BY DEF Enqueue, Quiet, Running, Building
<1>3. /\ t \in Transactions /\ t.id = trans.id /\ t.n = trans.n /\ t.bufs = trans.bufs
  BY <1>1 DEF Transactions
<1> HIDE DEF t
<1>4. /\ cp_queue' \in Seq(Transactions) /\ Len(cp_queue') = n + 1
      /\ \A i \in 1..n : cp_queue'[i] = cp_queue[i]
      /\ cp_queue'[n + 1] = t
  BY <1>1, <1>2, <1>3, AppendProperties, LenProperties
<1>5. DOMAIN cp_queue' = 1..n + 1
  BY <1>4, LenProperties
<1>6. ASSUME NEW b \in Blocks, buf[b] # None
      PROVE  \E i \in 1..Len(cp_queue') :
               IsNewest(b, i)' /\ rec[b] = cp_queue'[i].id /\ buf[b] = cp_queue'[i].n
  <2>1. CASE b \in trans.bufs
    <3>1. rec[b] = trans.id /\ buf[b] = trans.n
      BY <1>2, <2>1 DEF IInv, BufsOwned
    <3>2. n + 1 \in Pending(b)'
      BY <1>1, <1>3, <1>4, <1>5, <2>1 DEF Pending
    <3>3. \A j \in Pending(b)' : j <= n + 1
      BY <1>1, <1>5 DEF Pending
    <3> QED BY <1>1, <1>3, <1>4, <3>1, <3>2, <3>3 DEF IsNewest
  <2>2. CASE b \notin trans.bufs
    <3>1. PICK i \in 1..n :
            IsNewest(b, i) /\ rec[b] = cp_queue[i].id /\ buf[b] = cp_queue[i].n
      BY <1>6, <2>2 DEF NInv, Noticed
    <3>2. Pending(b)' = Pending(b)
      BY <1>1, <1>3, <1>4, <1>5, <2>2 DEF Pending
    <3>3. IsNewest(b, i)'
      BY <3>1, <3>2 DEF IsNewest
    <3> QED BY <1>1, <1>4, <3>1, <3>3
  <2> QED BY <2>1, <2>2
<1>7. Noticed'
  BY <1>2, <1>6 DEF Noticed
<1>8. IdsOrdered'
  <2> SUFFICES ASSUME NEW i \in 1..n + 1, NEW j \in 1..n + 1, i < j
               PROVE  cp_queue'[i].id < cp_queue'[j].id
    BY <1>4 DEF IdsOrdered
  <2>1. CASE j \in 1..n
    BY <1>1, <1>4, <2>1 DEF NInv, IdsOrdered
  <2>2. CASE j = n + 1
    <3>1. i \in 1..n
      BY <1>1, <2>2
    <3> QED BY <1>2, <1>3, <1>4, <2>2, <3>1 DEF IInv, IdsGrow
  <2> QED BY <1>1, <2>1, <2>2
<1>9. RevokedGone' /\ EndsOlder' /\ NoneRunning'
  BY <1>2 DEF NInv, RevokedGone, EndsOlder, NoneRunning, NoTrans
<1> QED BY <1>7, <1>8, <1>9 DEF NInv

LEMMA CommitsNotice ==
    ASSUME IInv, NInv, CommitStep
    PROVE  NInv'
<1>1. cp_queue \in Seq(Transactions) /\ trans \in Transactions
  BY DEF IInv, Typed
<1>2. CASE AllocDescriptor \/ LogDescriptor \/ LogRevoke \/ LogCommit
  <2>1. UNCHANGED <<cp_queue, ending, buf, rec>> /\ Running'
    BY <1>2 DEF AllocDescriptor, LogDescriptor, LogRevoke, LogCommit, session, Running, Building
  <2>2. trans'.bufs = trans.bufs /\ trans'.revoke = trans.revoke
    BY <1>1, <1>2 DEF AllocDescriptor, LogDescriptor, LogRevoke, LogCommit, Transactions
  <2> QED BY <2>1, <2>2, NotConcerned
<1>3. ASSUME NEW b \in Blocks, LogData(b)
      PROVE  NInv'
  <2>1. UNCHANGED <<cp_queue, ending, buf, rec>> /\ Running'
    BY <1>3 DEF LogData, Running, Building
  <2>2. trans'.bufs = trans.bufs /\ trans'.revoke = trans.revoke
    BY <1>1, <1>3 DEF LogData, Transactions
  <2> QED BY <2>1, <2>2, NotConcerned
<1>4. ASSUME NEW b \in Blocks, CompleteRevoked(b)
      PROVE  NInv'
  <2>1. EndWrite(NewestId(b), b) /\ UNCHANGED <<trans, rec, pc>> /\ buf' = buf
    BY <1>4 DEF CompleteRevoked
  <2>2. b \in trans.bufs \/ buf'[b] = None
    BY <1>4, <2>1 DEF CompleteRevoked, NInv, RevokedGone
  <2> QED BY <2>1, <2>2, WriteReported
<1> QED BY <1>2, <1>3, <1>4, EnqueueNotices DEF CommitStep

LEMMA CheckpointsNotice ==
    ASSUME IInv, NInv, CheckpointStep
    PROVE  NInv'
<1>1. cp_queue \in Seq(Transactions) /\ DOMAIN buf = Blocks
  BY DEF IInv, Typed
<1>2. CASE Purge
  BY <1>2, DropHeadNotices DEF Purge
<1>3. CASE Purged \/ WriteSb
  <2>1. UNCHANGED <<cp_queue, ending, buf, rec, trans, pc>>
    BY <1>3 DEF Purged, WriteSb
  <2>2. Running => Running'
    BY <2>1 DEF Running, Building
  <2> QED BY <2>1, <2>2, NotConcerned
<1>4. CASE MakeRoom
  <2>1. UNCHANGED <<pc, trans>> /\ cp_queue # <<>>
    BY <1>4 DEF MakeRoom
  <2>2. CASE HeadWritten
    BY <1>4, <2>2, DropHeadNotices DEF MakeRoom
  <2>3. CASE ~HeadWritten
    <3>1. PICK b \in cp_queue[1].bufs : FlushHead(b)
      BY <1>4, <2>3 DEF MakeRoom
    <3>2. b \in Blocks
      <4>1. 1 \in 1..Len(cp_queue)
        BY <1>1, <2>1, EmptySeq, LenProperties
      <4>2. cp_queue[1] \in Transactions
        BY <1>1, <4>1, ElementOfSeq
      <4> QED BY <3>1, <4>2 DEF Transactions
    <3>3. EndWrite(cp_queue[1].id, b) /\ rec' = rec
      BY <3>1 DEF FlushHead
    <3>4. /\ buf' = buf \/ buf' = [buf EXCEPT ![b] = None]
          /\ buf'[b] = None \/ rec[b] # cp_queue[1].id
      BY <1>1, <3>1, <3>2 DEF FlushHead
    <3> QED BY <2>1, <3>2, <3>3, <3>4, WriteReported
  <2> QED BY <2>2, <2>3
<1> QED BY <1>2, <1>3, <1>4, EndWriteOwnNotices DEF CheckpointStep

LEMMA FlushNotices ==
    ASSUME IInv, NInv, NEW b \in Blocks, Flush(b)
    PROVE  NInv'
<1>1. /\ cp_queue \in Seq(Transactions) /\ DOMAIN buf = Blocks /\ trans.revoke \subseteq Blocks
  BY DEF IInv, Typed, Transactions
<1>2. UNCHANGED <<trans, rec, pc>> /\ buf' = [buf EXCEPT ![b] = None] /\ buf'[b] = None
  BY <1>1 DEF Flush
<1>3. CASE EndWrite(rec[b], b)
  BY <1>2, <1>3, WriteReported
<1>4. CASE UNCHANGED <<cp_queue, ending>>
  <2>1. ThinnedQueue(cp_queue, cp_queue') /\ cp_queue' = cp_queue
    BY <1>1, <1>4, SameThins
  <2>2. \A c \in Blocks : buf'[c] # None => buf'[c] = buf[c]
    BY <1>1, <1>2
  <2>3. Noticed'
    BY <1>2, <2>1, <2>2, NoticedThinned DEF NInv
  <2>4. IdsOrdered'
    BY <2>1, OrderKept DEF NInv
  <2>5. EndsOlder'
    BY <1>1, <1>2, <1>4 DEF NInv, EndsOlder
  <2>6. RevokedGone'
    BY <1>1, <1>2 DEF NInv, RevokedGone
  <2>7. NoneRunning'
    BY <1>2 DEF NInv, NoneRunning, Running, Building
  <2> QED BY <2>3, <2>4, <2>5, <2>6, <2>7 DEF NInv
<1> QED BY <1>3, <1>4 DEF Flush

LEMMA OthersNotice ==
    ASSUME "delayed" \notin Triggers, NInv, SessionStep \/ Crash \/ Recover \/ RecoverStep
    PROVE  NInv'
<1>1. CASE Crash
  <2>1. /\ cp_queue' = <<>> /\ trans' = NoTrans /\ ending' = NotEnding
        /\ buf' = [b \in Blocks |-> None]
    BY <1>1 DEF Crash
  <2>2. Len(cp_queue') = 0
    BY <2>1
  <2> QED BY <2>1, <2>2
          DEF NInv, IdsOrdered, Noticed, RevokedGone, EndsOlder, NoneRunning, NoTrans
<1>2. CASE SessionStep
  <2>1. UNCHANGED <<cp_queue, ending, buf, rec, trans>> /\ ~Running
    BY <1>2 DEF SessionStep, StartFlag, StartSb, Stop, StopFlag, StopSb, session, Running, Building
  <2> QED BY <2>1, NotConcerned
<1>3. CASE Recover \/ RecoverFlag \/ RecoverPut
  <2>1. UNCHANGED <<cp_queue, ending, buf, rec, trans>> /\ ~Running
    BY <1>3 DEF Recover, RecoverFlag, RecoverPut, session, Running, Building
  <2> QED BY <2>1, NotConcerned
<1>4. ASSUME NEW r \in todo, Replay(r)
      PROVE  NInv'
  <2>1. UNCHANGED <<cp_queue, ending, buf, rec, trans>> /\ ~Running
    BY <1>4 DEF Replay, session, Running, Building
  <2> QED BY <2>1, NotConcerned
<1> QED BY <1>1, <1>2, <1>3, <1>4 DEF RecoverStep

LEMMA NInvKept ==
    ASSUME "delayed" \notin Triggers, IInv, NInv, [Next]_vars
    PROVE  NInv'
<1>1. CASE UNCHANGED vars
  <2>1. UNCHANGED <<cp_queue, ending, buf, rec, trans, pc>>
    BY <1>1 DEF vars, session
  <2>2. Running => Running'
    BY <2>1 DEF Running, Building
  <2> QED BY <2>1, <2>2, NotConcerned
<1>2. CASE Next
  BY <1>2, CallersNotice, CommitsNotice, CheckpointsNotice, FlushNotices, OthersNotice DEF Next
<1> QED BY <1>1, <1>2

\* No dirty buffer is forgotten by the checkpoint: its content is the newest that
\* is committed, and jbd_trans_end_write will find the transaction it belongs to,
\* unless recovery leaves what it replays in the cache.
THEOREM WritesNoticed ==
    ASSUME "delayed" \notin Triggers
    PROVE  Spec => []FlushIsNoticed
<1>1. Init => NInv
  <2> SUFFICES ASSUME Init PROVE NInv
    OBVIOUS
  <2>1. Len(cp_queue) = 0
    BY DEF Init
  <2>2. trans = NoTrans /\ buf = [b \in Blocks |-> None] /\ ending = NotEnding
    BY DEF Init
  <2> QED BY <2>1, <2>2
          DEF NInv, IdsOrdered, Noticed, RevokedGone, EndsOlder, NoneRunning, NoTrans
<1>2. IInv /\ NInv /\ [Next]_vars => NInv'
  BY NInvKept
<1>3. IInv /\ NInv => FlushIsNoticed
  <2> SUFFICES ASSUME IInv, NInv, NEW b \in Blocks \ trans.bufs, buf[b] # None
               PROVE  /\ Pending(b) # {} /\ rec[b] = NewestId(b)
                      /\ buf[b] = cp_queue[Newest(b)].n
    BY DEF FlushIsNoticed
  <2>1. PICK i \in 1..Len(cp_queue) :
          IsNewest(b, i) /\ rec[b] = cp_queue[i].id /\ buf[b] = cp_queue[i].n
    BY DEF NInv, Noticed
  <2>2. Newest(b) = i /\ Pending(b) # {}
    BY <2>1, NewestIs DEF IInv, Typed
  <2> QED BY <2>1, <2>2 DEF NewestId
<1> QED BY <1>1, <1>2, <1>3, InitHolds, IInvKept, PTL DEF Spec
=============================================================================
