------------------------ MODULE Journal_atomic_proofs -------------------------
(***************************************************************************)
(* The journal is an atomic store (AtomicStore), and a file system that is *)
(* not marked for recovery needs none, through power failures between any  *)
(* two writes, outside the situations of Triggers.                         *)
(*                                                                         *)
(* What a block holds after recovery is what the last transaction of the   *)
(* row H (Journal_layout_proofs) has logged of it, if none revokes it      *)
(* later, and else what is at home.  The invariant relates that to what    *)
(* the checkpoint queue has yet to write, by the ids of transactions,      *)
(* which stay when the head of the queue is dropped.                       *)
(***************************************************************************)
EXTENDS Journal_layout_proofs

-----------------------------------------------------------------------------
(* What recovery replays of the row.                                       *)

\* The i-th has logged b, and neither it nor a later one revokes b.
Live(H, b, i) == /\ i \in 1..Len(H) /\ H[i].lba[b] # 0
                 /\ \A j \in i..Len(H) : b \notin H[j].revoke

\* Transaction t is the last of these.
Last(H, b, t) ==
    \E i \in 1..Len(H) : /\ t = H[i] /\ Live(H, b, i)
                         /\ \A j \in 1..Len(H) : j > i => H[j].lba[b] = 0

LEMMA LastUnique ==
    ASSUME NEW H \in Seq(Transactions), NEW b, NEW t, NEW u, Last(H, b, t), Last(H, b, u)
    PROVE  t = u
<1>1. Len(H) \in Nat
  BY LenProperties
<1>2. PICK i \in 1..Len(H) : /\ t = H[i] /\ Live(H, b, i)
                             /\ \A j \in 1..Len(H) : j > i => H[j].lba[b] = 0
  BY DEF Last
<1>3. PICK k \in 1..Len(H) : /\ u = H[k] /\ Live(H, b, k)
                             /\ \A j \in 1..Len(H) : j > k => H[j].lba[b] = 0
  BY DEF Last
<1>4. H[i].lba[b] # 0 /\ H[k].lba[b] # 0
  BY <1>2, <1>3 DEF Live
<1>5. i = k
  BY <1>1, <1>2, <1>3, <1>4
<1> QED BY <1>2, <1>3, <1>5

LEMMA LastIn ==
    ASSUME NEW H \in Seq(Transactions), NEW b, NEW t, Last(H, b, t)
    PROVE  /\ t \in Transactions /\ t.lba[b] # 0 /\ b \notin t.revoke
           /\ \E i \in 1..Len(H) : t = H[i]
<1>1. PICK i \in 1..Len(H) : t = H[i] /\ Live(H, b, i)
  BY DEF Last
<1>2. i \in i..Len(H) /\ H[i] \in Transactions
  BY ElementOfSeq, LenProperties
<1> QED BY <1>1, <1>2 DEF Live

LEMMA LastNone ==
    ASSUME NEW b, NEW t
    PROVE  ~Last(<<>>, b, t)
<1>1. Len(<<>>) = 0
  BY EmptySeq
<1> QED BY <1>1 DEF Last

\* Of the copies that are replayed the last is the content after recovery.
LEMMA LastIsLive ==
    ASSUME NEW H \in Seq(Transactions), NEW b, NEW i, Live(H, b, i)
    PROVE  \E m \in 1..Len(H) : /\ Last(H, b, H[m]) /\ Live(H, b, m)
                                /\ \A j : Live(H, b, j) => j <= m
<1> DEFINE S == {k \in 1..Len(H) : Live(H, b, k)}
<1>1. Len(H) \in Nat /\ S # {}
  BY LenProperties DEF Live
<1>2. PICK m \in S : \A j \in S : j <= m
  BY <1>1, LargestIndex
<1>3. ASSUME NEW j \in 1..Len(H), j > m
      PROVE  H[j].lba[b] = 0
  <2>1. ~Live(H, b, j)
    BY <1>1, <1>2, <1>3
  <2>2. \A k \in j..Len(H) : b \notin H[k].revoke
    BY <1>1, <1>2, <1>3 DEF Live
  <2> QED BY <2>1, <2>2 DEF Live
<1>4. \A j : Live(H, b, j) => j <= m
  BY <1>2 DEF Live
<1> QED BY <1>2, <1>3, <1>4 DEF Last

LEMMA LastIsUtmost ==
    ASSUME NEW H \in Seq(Transactions), NEW b, NEW t, Last(H, b, t)
    PROVE  \E m \in 1..Len(H) : t = H[m] /\ Live(H, b, m) /\ \A j : Live(H, b, j) => j <= m
<1>1. Len(H) \in Nat
  BY LenProperties
<1>2. PICK m \in 1..Len(H) : /\ t = H[m] /\ Live(H, b, m)
                             /\ \A j \in 1..Len(H) : j > m => H[j].lba[b] = 0
  BY DEF Last
<1>3. \A j : Live(H, b, j) => j <= m
  BY <1>1, <1>2 DEF Live
<1> QED BY <1>2, <1>3

\* A transaction is committed.
LEMMA LastAppend ==
    ASSUME NEW H \in Seq(Transactions), NEW x \in Transactions, NEW b, NEW t
    PROVE  Last(Append(H, x), b, t) <=>
             b \notin x.revoke /\ IF x.lba[b] # 0 THEN t = x ELSE Last(H, b, t)
<1> DEFINE G == Append(H, x)
           n == Len(H)
<1>1. /\ n \in Nat /\ Len(G) = n + 1 /\ G[n + 1] = x
      /\ \A i \in 1..n : G[i] = H[i]
  BY AppendProperties, LenProperties
<1> HIDE DEF G
<1>2. ASSUME Last(G, b, t)
      PROVE  b \notin x.revoke /\ IF x.lba[b] # 0 THEN t = x ELSE Last(H, b, t)
  <2>1. PICK i \in 1..Len(G) : /\ t = G[i] /\ Live(G, b, i)
                               /\ \A j \in 1..Len(G) : j > i => G[j].lba[b] = 0
    BY <1>2 DEF Last
  <2>2. n + 1 \in i..Len(G) /\ n + 1 \in 1..Len(G)
    BY <1>1
  <2>3. b \notin x.revoke
    BY <1>1, <2>1, <2>2 DEF Live
  <2>4. CASE i = n + 1
    BY <1>1, <2>1, <2>3, <2>4 DEF Live
  <2>5. CASE i # n + 1
    <3>1. i \in 1..n /\ x.lba[b] = 0 /\ t = H[i] /\ H[i].lba[b] # 0
      BY <1>1, <2>1, <2>2, <2>5 DEF Live
    <3>2. \A j \in i..n : b \notin H[j].revoke
      BY <1>1, <2>1, <3>1 DEF Live
    <3>3. \A j \in 1..n : j > i => H[j].lba[b] = 0
      BY <1>1, <2>1
    <3>4. Last(H, b, t)
      BY <3>1, <3>2, <3>3 DEF Last, Live
    <3> QED BY <2>3, <3>1, <3>4
  <2> QED BY <2>4, <2>5
<1>3. ASSUME b \notin x.revoke, x.lba[b] # 0, t = x
      PROVE  Last(G, b, t)
  <2>1. n + 1 \in 1..Len(G) /\ \A j \in n + 1..Len(G) : j = n + 1
    BY <1>1
  <2>2. Live(G, b, n + 1)
    BY <1>1, <1>3, <2>1 DEF Live
  <2>3. \A j \in 1..Len(G) : ~(j > n + 1)
    BY <1>1
  <2> QED BY <1>1, <1>3, <2>1, <2>2, <2>3 DEF Last
<1>4. ASSUME b \notin x.revoke, x.lba[b] = 0, Last(H, b, t)
      PROVE  Last(G, b, t)
  <2>1. PICK i \in 1..n : /\ t = H[i] /\ Live(H, b, i)
                          /\ \A j \in 1..n : j > i => H[j].lba[b] = 0
    BY <1>4 DEF Last
  <2>2. /\ i \in 1..Len(G) /\ G[i] = H[i]
        /\ \A j \in 1..Len(G) : j \in 1..n \/ j = n + 1
    BY <1>1
  <2>3. \A j \in 1..Len(G) : j > i => G[j].lba[b] = 0
    BY <1>1, <1>4, <2>1, <2>2
  <2>4. \A j \in i..Len(G) : b \notin G[j].revoke
    <3> SUFFICES ASSUME NEW j \in i..Len(G) PROVE b \notin G[j].revoke
      OBVIOUS
    <3>1. j \in i..n \/ j = n + 1
      BY <1>1
    <3> QED BY <1>1, <1>4, <2>1, <3>1 DEF Live
  <2> QED BY <2>1, <2>2, <2>3, <2>4 DEF Last, Live
<1> QED BY <1>2, <1>3, <1>4 DEF G

\* The superblock moves over the first d.
LEMMA LastRest ==
    ASSUME NEW H \in Seq(Transactions), NEW d \in 0..Len(H), NEW b, NEW t
    PROVE  /\ Last(Rest(H, d), b, t) => Last(H, b, t)
           /\ Last(H, b, t) => Last(Rest(H, d), b, t) \/ \E i \in 1..d : t = H[i]
<1> DEFINE G == Rest(H, d)
           n == Len(G)
<1>1. /\ n \in Nat /\ n + d = Len(H) /\ Len(H) \in Nat /\ d \in Nat
      /\ \A i \in 1..n : G[i] = H[i + d]
  BY RestIs, LenProperties
<1> HIDE DEF G
<1>2. ASSUME Last(G, b, t)
      PROVE  Last(H, b, t)
  <2>1. PICK i \in 1..n : /\ t = G[i] /\ Live(G, b, i)
                          /\ \A j \in 1..n : j > i => G[j].lba[b] = 0
    BY <1>2 DEF Last
  <2>2. i + d \in 1..Len(H) /\ t = H[i + d] /\ H[i + d].lba[b] # 0
    BY <1>1, <2>1 DEF Live
  <2>3. ASSUME NEW j \in 1..Len(H), j > d
        PROVE  j - d \in 1..n /\ G[j - d] = H[j]
    <3>1. j - d \in 1..n /\ (j - d) + d = j
      BY <1>1, <2>3
    <3> QED BY <1>1, <3>1
  <2>4. \A j \in 1..Len(H) : j > i + d => H[j].lba[b] = 0
    <3> SUFFICES ASSUME NEW j \in 1..Len(H), j > i + d PROVE H[j].lba[b] = 0
      OBVIOUS
    <3>1. j > d /\ j - d > i
      BY <1>1
    <3> QED BY <2>1, <2>3, <3>1
  <2>5. \A j \in i + d..Len(H) : b \notin H[j].revoke
    <3> SUFFICES ASSUME NEW j \in i + d..Len(H) PROVE b \notin H[j].revoke
      OBVIOUS
    <3>1. j > d /\ j - d \in i..n /\ j \in 1..Len(H)
      BY <1>1
    <3> QED BY <2>1, <2>3, <3>1 DEF Live
  <2> QED BY <2>2, <2>4, <2>5 DEF Last, Live
<1>3. ASSUME Last(H, b, t), ~\E i \in 1..d : t = H[i]
      PROVE  Last(G, b, t)
  <2>1. PICK k \in 1..Len(H) : /\ t = H[k] /\ Live(H, b, k)
                               /\ \A j \in 1..Len(H) : j > k => H[j].lba[b] = 0
    BY <1>3 DEF Last
  <2> DEFINE i == k - d
  <2>2. i \in 1..n /\ i + d = k
    BY <1>1, <1>3, <2>1
  <2> HIDE DEF i
  <2>3. t = G[i] /\ G[i].lba[b] # 0
    BY <1>1, <2>1, <2>2 DEF Live
  <2>4. \A j \in 1..n : j > i => G[j].lba[b] = 0
    <3> SUFFICES ASSUME NEW j \in 1..n, j > i PROVE G[j].lba[b] = 0
      OBVIOUS
    <3>1. j + d \in 1..Len(H) /\ j + d > k
      BY <1>1, <2>2
    <3> QED BY <1>1, <2>1, <3>1
  <2>5. \A j \in i..n : b \notin G[j].revoke
    <3> SUFFICES ASSUME NEW j \in i..n PROVE b \notin G[j].revoke
      OBVIOUS
    <3>1. j + d \in k..Len(H) /\ j \in 1..n
      BY <1>1, <2>2
    <3> QED BY <1>1, <2>1, <3>1 DEF Live
  <2> QED BY <2>2, <2>3, <2>4, <2>5 DEF Last, Live
<1> QED BY <1>2, <1>3 DEF G

-----------------------------------------------------------------------------
(* What the blocks hold after recovery.                                    *)

\* The log l with the superblock sb holds H and no more.
RowOf(H, l, sb) == IF sb.start = 0 THEN H = <<>>
                   ELSE Laid(H, l, sb) /\ CommitsBelow(l, sb.sequence + Len(H))

\* What jbd_iterate_log finds, taken apart
LEMMA FoundRow ==
    ASSUME NEW l \in [Positions -> Records], NEW sb \in SuperBlocks, NEW H, RowOf(H, l, sb)
    PROVE  /\ H \in Seq(Transactions) /\ Len(H) \in Nat /\ sb.sequence \in Nat
           /\ Found(l, sb) \in Seq(Committed) /\ DOMAIN Found(l, sb) = 1..Len(H)
           /\ \A i \in 1..Len(H) : /\ Found(l, sb)[i].lba = H[i].lba
                                   /\ Found(l, sb)[i].revoked = H[i].revoke
                                   /\ Found(l, sb)[i].id = sb.sequence + i - 1
                                   /\ H[i].id = sb.sequence + i - 1
                                   /\ H[i] \in Transactions
                                   /\ \A b \in Tagged(H[i].lba) :
                                        l[H[i].lba[b]] = Data(H[i].n)
<1>1. Found(l, sb) \in Seq(Committed) /\ sb.sequence \in Nat
  BY FoundType DEF SuperBlocks
<1>2. CASE sb.start = 0
  <2>1. H = <<>> /\ Found(l, sb) = <<>>
    BY <1>2, FoundNone DEF RowOf
  <2>2. H \in Seq(Transactions) /\ Len(H) = 0 /\ DOMAIN H = 1..0
    BY <2>1, EmptySeq
  <2> QED BY <1>1, <2>1, <2>2
<1>3. CASE sb.start # 0
  <2>1. Laid(H, l, sb) /\ CommitsBelow(l, sb.sequence + Len(H))
    BY <1>3 DEF RowOf
  <2>2. Found(l, sb) = Entries(H, Len(H))
    BY <2>1, FoundLaid
  <2>3. H \in Seq(Transactions) /\ Len(H) \in Nat
    BY <2>1, LenProperties DEF Laid
  <2>4. ASSUME NEW i \in 1..Len(H)
        PROVE  /\ Found(l, sb)[i].lba = H[i].lba
               /\ Found(l, sb)[i].revoked = H[i].revoke
               /\ Found(l, sb)[i].id = sb.sequence + i - 1
               /\ H[i].id = sb.sequence + i - 1
               /\ H[i] \in Transactions
               /\ \A b \in Tagged(H[i].lba) : l[H[i].lba[b]] = Data(H[i].n)
    <3>1. H[i] \in Transactions /\ H[i].id = sb.sequence + i - 1 /\ Written(H[i], sb.start, l)
      BY <2>1, LaidFacts
    <3>2. Found(l, sb)[i] = Entry(H[i])
      BY <2>2 DEF Entries
    <3>3. /\ Entry(H[i]).lba = H[i].lba /\ Entry(H[i]).revoked = H[i].revoke
          /\ Entry(H[i]).id = H[i].id
      BY DEF Entry
    <3>4. \A b \in Tagged(H[i].lba) : l[H[i].lba[b]] = Data(H[i].n)
      BY <3>1 DEF Written, Logged
    <3> QED BY <3>1, <3>2, <3>3, <3>4
  <2>5. DOMAIN Found(l, sb) = 1..Len(H)
    BY <2>2 DEF Entries
  <2> QED BY <1>1, <2>3, <2>4, <2>5
<1> QED BY <1>2, <1>3

LEMMA ReplaysRow ==
    ASSUME NEW l \in [Positions -> Records], NEW sb \in SuperBlocks, NEW H, RowOf(H, l, sb), NEW b
    PROVE  \A i : i \in Replays(Found(l, sb), b) <=> Live(H, b, i)
<1> DEFINE F == Found(l, sb)
           q == sb.sequence
<1>1. /\ Len(H) \in Nat /\ q \in Nat /\ DOMAIN F = 1..Len(H)
      /\ \A i \in 1..Len(H) : /\ F[i].lba = H[i].lba /\ F[i].revoked = H[i].revoke
                              /\ F[i].id = q + i - 1
  BY FoundRow
<1> HIDE DEF F, q
<1>2. \A i, j \in 1..Len(H) : F[j].id < F[i].id <=> j < i
  BY <1>1
<1>3. ASSUME NEW i \in 1..Len(H)
      PROVE  (\A j \in 1..Len(H) : b \in F[j].revoked => F[j].id < F[i].id)
               <=> \A j \in i..Len(H) : b \notin H[j].revoke
  <2>1. \A j \in 1..Len(H) : j < i \/ j \in i..Len(H)
    BY <1>1
  <2>2. \A j \in i..Len(H) : j \in 1..Len(H) /\ ~(j < i)
    BY <1>1
  <2> QED BY <1>1, <1>2, <2>1, <2>2
<1>4. \A i \in 1..Len(H) : F[i].lba[b] # 0 <=> H[i].lba[b] # 0
  BY <1>1
<1> QED BY <1>1, <1>3, <1>4 DEF Replays, Live, F

LEMMA MaxIs ==
    ASSUME NEW X, NEW m \in X, \A y \in X : m >= y, \A x \in X : (\A y \in X : x >= y) => x = m
    PROVE  Max(X) = m
<1>1. Max(X) \in X /\ \A y \in X : Max(X) >= y
  BY DEF Max
<1> QED BY <1>1

RecoveredBlock(h, l, F, b) ==
    IF Replays(F, b) = {} THEN h[b] ELSE l[F[Max(Replays(F, b))].lba[b]].val

LEMMA RecoveredAt ==
    ASSUME NEW h, NEW l \in [Positions -> Records], NEW sb \in SuperBlocks, NEW S
    PROVE  Recovered(h, l, sb, S) = [b \in S |-> RecoveredBlock(h, l, Found(l, sb), b)]
<1>1. Found(l, sb) \in Seq(Committed)
  BY FoundType
<1> QED BY <1>1 DEF Recovered, RecoveredBlock

\* The content of a block after recovery: what the last transaction logged, or
\* what is at home.
LEMMA RecoveredIs ==
    ASSUME NEW h, NEW l \in [Positions -> Records], NEW sb \in SuperBlocks,
           NEW H, RowOf(H, l, sb), NEW S \in SUBSET Blocks, NEW b \in S
    PROVE  /\ \A t : Last(H, b, t) => Recovered(h, l, sb, S)[b] = t.n
           /\ (\A t : ~Last(H, b, t)) => Recovered(h, l, sb, S)[b] = h[b]
<1> DEFINE F == Found(l, sb)
           v == Recovered(h, l, sb, S)[b]
<1>1. /\ H \in Seq(Transactions) /\ Len(H) \in Nat
      /\ \A i \in 1..Len(H) : /\ F[i].lba = H[i].lba
                              /\ \A c \in Tagged(H[i].lba) : l[H[i].lba[c]] = Data(H[i].n)
  BY FoundRow
<1>2. v = IF Replays(F, b) = {} THEN h[b] ELSE l[F[Max(Replays(F, b))].lba[b]].val
  <2>1. v = RecoveredBlock(h, l, F, b)
    BY RecoveredAt DEF v, F
  <2> QED BY <2>1 DEF RecoveredBlock
<1>3. \A i : i \in Replays(F, b) <=> Live(H, b, i)
  BY ReplaysRow
<1> HIDE DEF F, v
<1>4. ASSUME NEW t, Last(H, b, t)
      PROVE  v = t.n
  <2>1. PICK m \in 1..Len(H) : t = H[m] /\ Live(H, b, m) /\ \A j : Live(H, b, j) => j <= m
    BY <1>1, <1>4, LastIsUtmost
  <2>2. m \in Replays(F, b) /\ \A j \in Replays(F, b) : j <= m /\ j \in Int
    BY <1>1, <1>3, <2>1 DEF Live
  <2>3. Max(Replays(F, b)) = m
    <3>1. \A y \in Replays(F, b) : m >= y
      BY <2>2
    <3>2. \A x \in Replays(F, b) : (\A y \in Replays(F, b) : x >= y) => x = m
      BY <2>2
    <3> QED BY <2>2, <3>1, <3>2, MaxIs
  <2>4. v = l[F[m].lba[b]].val
    BY <1>2, <2>2, <2>3
  <2>5. F[m].lba[b] = H[m].lba[b] /\ b \in Tagged(H[m].lba)
    <3>1. H[m] \in Transactions
      BY <1>1, <2>1, ElementOfSeq
    <3>2. H[m].lba[b] # 0
      BY <2>1 DEF Live
    <3> QED BY <1>1, <3>2 DEF Tagged
  <2>6. l[H[m].lba[b]] = Data(H[m].n)
    BY <1>1, <2>5
  <2>7. Data(H[m].n).val = H[m].n
    BY DEF Data
  <2> QED BY <2>1, <2>4, <2>5, <2>6, <2>7
<1>5. ASSUME \A t : ~Last(H, b, t)
      PROVE  v = h[b]
  <2>1. \A i : ~Live(H, b, i)
    BY <1>1, <1>5, LastIsLive
  <2> QED BY <1>2, <1>3, <2>1
<1> QED BY <1>4, <1>5 DEF v

\* A step that leaves what is logged of every block in use, and else its home,
\* changes nothing that counts after a power failure.
LEMMA DurableKept ==
    ASSUME OwnTypes, OwnTypes', NEW H, DiskInv(H), NEW G, DiskInv(G)', saved' = saved,
           \A b \in InUse(saved) :
              \/ \E t : Last(H, b, t) /\ Last(G, b, t)
              \/ \E t : Last(H, b, t) /\ (\A u : ~Last(G, b, u)) /\ home'[b] = t.n
              \/ (\A t : ~Last(H, b, t)) /\ (\A t : ~Last(G, b, t)) /\ home'[b] = home[b]
    PROVE  Durable' = Durable
<1> DEFINE S == InUse(saved)
<1>1. /\ S \in SUBSET Blocks /\ RowOf(H, log, jsb) /\ RowOf(G, log', jsb')
      /\ log \in [Positions -> Records] /\ log' \in [Positions -> Records]
      /\ jsb \in SuperBlocks /\ jsb' \in SuperBlocks
  BY DEF InUse, OwnTypes, DiskInv, RowOf
<1>2. \A b \in S : Durable'[b] = Durable[b]
  <2> SUFFICES ASSUME NEW b \in S PROVE Recovered(home', log', jsb', S)[b] = Recovered(home, log, jsb, S)[b]
    BY DEF Durable, InUse
  <2> DEFINE v == Recovered(home, log, jsb, S)[b]
             w == Recovered(home', log', jsb', S)[b]
  <2>1. (\A t : Last(H, b, t) => v = t.n) /\ ((\A t : ~Last(H, b, t)) => v = home[b])
    BY <1>1, RecoveredIs
  <2>2. (\A t : Last(G, b, t) => w = t.n) /\ ((\A t : ~Last(G, b, t)) => w = home'[b])
    BY <1>1, RecoveredIs
  <2> HIDE DEF v, w
  <2>3. v = w
    BY <2>1, <2>2
  <2> QED BY <2>3 DEF v, w
<1>3. /\ Durable = [b \in S |-> RecoveredBlock(home, log, Found(log, jsb), b)]
      /\ Durable' = [b \in S |-> RecoveredBlock(home', log', Found(log', jsb'), b)]
  <2>1. Durable = Recovered(home, log, jsb, S) /\ Durable' = Recovered(home', log', jsb', S)
    BY DEF Durable, InUse
  <2>2. Recovered(home, log, jsb, S) = [b \in S |-> RecoveredBlock(home, log, Found(log, jsb), b)]
    BY <1>1, RecoveredAt
  <2>3. Recovered(home', log', jsb', S)
          = [b \in S |-> RecoveredBlock(home', log', Found(log', jsb'), b)]
    BY <1>1, RecoveredAt
  <2> QED BY <2>1, <2>2, <2>3
<1>4. \A b \in S : RecoveredBlock(home, log, Found(log, jsb), b)
                    = RecoveredBlock(home', log', Found(log', jsb'), b)
  BY <1>2, <1>3
<1> QED BY <1>3, <1>4

-----------------------------------------------------------------------------
(* The mark for recovery.                                                  *)

\* What is known of the log and the queue
Base(H) == IInv /\ NInv /\ CInv /\ FInv /\ NoWrite /\ OwnTypes /\ LInv(H)

\* How the row changes in a step
NewRow(H, G) ==
    \/ G = H /\ ~LogCommit
    \/ G = Append(H, trans') /\ LogCommit
    \/ G = Rest(H, Behind(H)) /\ WriteSb /\ pc \in Active
    \/ G = <<>> /\ (StopSb \/ RecoverPut)

LEMMA RowGoesOn ==
    ASSUME Mild, NEW H, Base(H), [Next]_vars
    PROVE  \E G : Base(G)' /\ NewRow(H, G)
<1>1. log \in [Positions -> Records] /\ jsb \in SuperBlocks /\ since \in Nat
      /\ rec \in [Blocks -> Nat] /\ "delayed" \notin Triggers
  BY DEF Base, OwnTypes, Mild
<1>2. PICK G : LInv(G)' /\ NewRow(H, G)
  BY <1>1, RowKept DEF Base, NewRow
<1>3. IInv' /\ NInv' /\ CInv' /\ FInv' /\ NoWrite' /\ OwnTypes'
  BY <1>1, IInvKept, NInvKept, CInvKept, FInvKept, NoWriteKept, OwnTypesKept DEF Base
<1> QED BY <1>2, <1>3 DEF Base

\* Outside of a session nothing is being completed, and there are no queue and no buffers.
LEMMA NoSession ==
    ASSUME NEW H, Base(H), pc \notin Active
    PROVE  /\ ending = NotEnding /\ cp_queue = <<>> /\ Len(cp_queue) = 0 /\ sb_write = "no"
           /\ trans.bufs = {} /\ trans.revoke = {} /\ \A b \in Blocks : buf[b] = None
<1>1. cp_queue \in Seq(Transactions) /\ Len(cp_queue) = 0 /\ sb_write = "no"
  BY DEF Base, IInv, Typed, NoWrite
<1>2. cp_queue = <<>> /\ ending = NotEnding
  BY <1>1, EmptySeq DEF Base, CInv, EndsLater
<1>3. trans.bufs = {} /\ trans.revoke = {}
  BY DEF Base, NInv, NoneRunning, Running, Building, Active, Committing
<1>4. \A b \in Blocks : buf[b] = None
  BY <1>1, <1>3 DEF Base, NInv, Noticed
<1> QED BY <1>1, <1>2, <1>3, <1>4

\* The checkpoint goes on, and buffers are flushed, only in a session.
LEMMA WritesInSession ==
    ASSUME NEW H, Base(H), CheckpointStep \/ \E b \in Blocks : Flush(b)
    PROVE  pc \in Active
<1> SUFFICES ASSUME pc \notin Active PROVE FALSE
  OBVIOUS
<1>1. ending = NotEnding /\ sb_write = "no" /\ \A b \in Blocks : buf[b] = None
  BY NoSession
<1>2. ~Cramped
  BY DEF Cramped, Active, Committing
<1> QED BY <1>1, <1>2 DEF CheckpointStep, EndWriteOwn, Purge, Purged, WriteSb, MakeRoom, Flush

\* The row of a session that has not begun, or has come to its end, is empty.
LEMMA RowIsEmpty ==
    ASSUME NEW H, Base(H), pc = "starting" \/ StopFlag
    PROVE  H = <<>>
<1>1. CASE pc = "starting"
  BY <1>1 DEF Base, LInv, RecoverInv, DiskInv
<1>2. CASE StopFlag
  <2>1. pc = "stopping" /\ Quiet /\ cp_queue = <<>>
    BY <1>2 DEF StopFlag
  <2>2. Behind(H) = 0 /\ H \in Seq(Transactions) /\ Len(H) \in Nat
    BY <2>1, QuietStart DEF Base, OwnTypes, Active
  <2>3. Len(H) = 0
    BY <2>1, <2>2 DEF Behind
  <2> QED BY <2>2, <2>3, EmptySeq
<1> QED BY <1>1, <1>2

\* A session has marked the file system, and ends when nothing is left in the log.
MInv(H) == /\ pc \in Active \cup {"starting"} => recover
           /\ pc = "stopped" => H = <<>>

LEMMA MInvKept ==
    ASSUME NEW H, Base(H), MInv(H), [Next]_vars, NEW G, NewRow(H, G)
    PROVE  MInv(G)'
<1>1. CASE StopFlag
  <2>1. G = H /\ pc' = "stopped"
    BY <1>1 DEF NewRow, StopFlag, LogCommit, WriteSb, StopSb, RecoverPut, Quiet
  <2> QED BY <1>1, <2>1, RowIsEmpty DEF MInv, Active, Committing
<1>2. CASE UNCHANGED vars
  <2>1. G = H
    BY <1>2 DEF NewRow, LogCommit, WriteSb, StopSb, RecoverPut, vars, session
  <2> QED BY <1>2, <2>1 DEF MInv, vars, disk
<1>3. CASE StartFlag \/ StartSb \/ StopSb \/ Crash \/ Recover \/ RecoverStep
  BY <1>3 DEF StartFlag, StartSb, StopSb, Crash, Recover, RecoverStep, Replay, RecoverFlag,
              RecoverPut, disk, MInv, Active, Committing
<1>4. CASE Stop \/ CallerStep \/ CommitStep \/ \E b \in Blocks : Flush(b)
  <2>1. recover' = recover /\ pc \in Active /\ pc' \in Active
    <3>1. CASE Stop \/ CallerStep
      <4>1. recover' = recover /\ pc \in {"idle", "run"} /\ pc' \in {"idle", "run", "alloc", "stopping"}
        BY <3>1 DEF Stop, CallerStep, Begin, Abort, CommitBegin, Dirty, WriteData, Free, disk
      <4> QED BY <4>1 DEF Active, Committing
    <3>2. CASE CommitStep
      <4>1. recover' = recover /\ pc \in Committing /\ pc' \in Committing \cup {"idle"}
        BY <3>2 DEF CommitStep, AllocDescriptor, LogData, LogDescriptor, LogRevoke, LogCommit,
                    CompleteRevoked, Enqueue, disk, Committing
      <4> QED BY <4>1 DEF Active
    <3>3. ASSUME NEW b \in Blocks, Flush(b)
          PROVE  recover' = recover /\ pc \in Active /\ pc' \in Active
      BY <3>3, WritesInSession DEF Flush
    <3> QED BY <1>4, <3>1, <3>2, <3>3
  <2> QED BY <2>1 DEF MInv, Active, Committing
<1>5. CASE CheckpointStep
  <2>1. recover' = recover /\ pc' = pc
    BY <1>5 DEF CheckpointStep, EndWriteOwn, Purge, Purged, WriteSb, MakeRoom, FlushHead, disk
  <2> QED BY <1>5, <2>1, WritesInSession DEF MInv, Active, Committing
<1> QED BY <1>1, <1>2, <1>3, <1>4, <1>5 DEF Next, SessionStep

Marks == \E H : Base(H) /\ MInv(H)

LEMMA MarksInit ==
    ASSUME Init
    PROVE  Marks
<1>1. Layout /\ jsb.start = 0 /\ pc = "off"
  BY LayoutInit DEF Init
<1>2. LInv(<<>>)
  BY <1>1 DEF Layout, LInv, DiskInv
<1>3. MInv(<<>>)
  BY <1>1 DEF MInv, Active, Committing
<1> QED BY <1>1, <1>2, <1>3 DEF Marks, Base, Layout

LEMMA MarksKept ==
    ASSUME Mild, Marks, [Next]_vars
    PROVE  Marks'
<1>1. PICK H : Base(H) /\ MInv(H)
  BY DEF Marks
<1>2. PICK G : Base(G)' /\ NewRow(H, G)
  BY <1>1, RowGoesOn
<1>3. MInv(G)'
  BY <1>1, <1>2, MInvKept
<1> QED BY <1>2, <1>3 DEF Marks

\* jbd_journal_start marks the file system before it starts the log, jbd_journal_stop
\* takes the mark away when the log has nothing that is not home, and only then
\* ends the log; jbd_recover replays the log before it does either.
LEMMA MarkKept ==
    ASSUME Mild, Marks, [Next]_vars, Unneeded
    PROVE  Unneeded' \/ pc = "replay"
<1> SUFFICES ASSUME ~recover', pc # "replay"
             PROVE  Recovered(home, log, jsb, InUse(saved))' = [b \in InUse(saved)' |-> home'[b]]
  BY DEF Unneeded
<1>1. PICK H : Base(H) /\ MInv(H)
  BY DEF Marks
<1>2. PICK G : Base(G)' /\ NewRow(H, G)
  BY <1>1, RowGoesOn
<1>3. ASSUME G = <<>>
      PROVE  Recovered(home, log, jsb, InUse(saved))' = [b \in InUse(saved)' |-> home'[b]]
  <2> DEFINE S == InUse(saved)'
             R == Recovered(home', log', jsb', S)
  <2>1. log' \in [Positions -> Records] /\ jsb' \in SuperBlocks /\ RowOf(<<>>, log', jsb')
    BY <1>2, <1>3 DEF Base, OwnTypes, LInv, DiskInv, RowOf
  <2>2. S \in SUBSET Blocks
    BY DEF InUse
  <2> HIDE DEF S
  <2>3. \A b \in S : R[b] = home'[b]
    BY <2>1, <2>2, RecoveredIs, LastNone
  <2>4. R = [b \in S |-> R[b]]
    <3> DEFINE D(b) == RecoveredBlock(home', log', Found(log', jsb'), b)
    <3>1. R = [b \in S |-> D(b)]
      BY <2>1, RecoveredAt
    <3> HIDE DEF D, R
    <3> QED BY <3>1
  <2> HIDE DEF R
  <2>5. R = [b \in S |-> home'[b]]
    BY <2>3, <2>4
  <2> QED BY <2>5 DEF R, S
<1>4. CASE StopFlag
  <2>1. H = <<>>
    BY <1>1, <1>4, RowIsEmpty
  <2>2. G = <<>>
    BY <1>2, <1>4, <2>1 DEF NewRow, StopFlag, LogCommit, WriteSb, Quiet
  <2> QED BY <1>3, <2>2
<1>5. CASE StopSb \/ RecoverPut
  <2>1. StopSb => H = <<>>
    BY <1>1 DEF StopSb, MInv
  <2>2. CASE jsb'.start = 0
    BY <1>2, <1>3, <2>2 DEF Base, LInv, DiskInv
  <2> QED BY <1>5, <2>2 DEF StopSb, RecoverPut
<1>6. CASE UNCHANGED <<home, log, jsb, recover, saved>>
  BY <1>6 DEF Unneeded
<1>7. StopFlag \/ StopSb \/ RecoverPut \/ UNCHANGED <<home, log, jsb, recover, saved>>
  <2>1. CASE SessionStep \/ Crash \/ Recover \/ RecoverStep
    <3>1. pc = "starting" => recover
      BY <1>1 DEF MInv
    <3>2. CASE SessionStep
      BY <3>1, <3>2 DEF SessionStep, StartFlag, StartSb, Stop, disk, ghost
    <3>3. CASE Crash \/ Recover
      BY <3>3 DEF Crash, Recover, disk, ghost
    <3>4. CASE RecoverStep
      BY <3>4 DEF RecoverStep, Replay, RecoverFlag
    <3> QED BY <2>1, <3>2, <3>3, <3>4
  <2>2. CASE CallerStep \/ CommitStep
    <3>1. recover' = recover /\ pc \in Active
      BY <2>2 DEF CallerStep, Begin, Abort, CommitBegin, Dirty, WriteData, Free, CommitStep,
                  AllocDescriptor, LogData, LogDescriptor, LogRevoke, LogCommit, CompleteRevoked,
                  Enqueue, disk, Active, Committing
    <3> QED BY <1>1, <3>1 DEF MInv
  <2>3. CASE CheckpointStep \/ \E b \in Blocks : Flush(b)
    <3>1. recover' = recover
      BY <2>3 DEF CheckpointStep, EndWriteOwn, Purge, Purged, WriteSb, MakeRoom, Flush, disk
    <3> QED BY <1>1, <2>3, <3>1, WritesInSession DEF MInv
  <2>4. CASE UNCHANGED vars
    BY <2>4 DEF vars, disk, ghost
  <2> QED BY <2>1, <2>2, <2>3, <2>4 DEF Next
<1> QED BY <1>4, <1>5, <1>6, <1>7

\* A file system that is not marked for recovery needs none, through power failures
\* between any two writes of jbd_journal_start, jbd_journal_stop and jbd_recover,
\* unless recovery itself is repeated.
THEOREM MarkHolds ==
    ASSUME Mild
    PROVE  Spec => MarkedForRecovery
<1>1. Init => Marks
  BY MarksInit
<1>2. Marks /\ [Next]_vars => Marks'
  BY MarksKept
<1>3. Marks /\ [Next]_vars => [Unneeded => Unneeded' \/ pc = "replay"]_vars
  BY MarkKept
<1> QED BY <1>1, <1>2, <1>3, PTL DEF Spec, MarkedForRecovery

-----------------------------------------------------------------------------
(* What the blocks are used for, and their buffers.                        *)

Usage ==
    \* Until it commits the running transaction may use blocks differently.
    /\ use # saved => Open /\ Bitmap \in trans.bufs
    /\ use[Bitmap] = "meta" /\ saved[Bitmap] = "meta"
    /\ \A b \in Blocks : use[b] = "meta" /\ saved[b] # "meta" => b \in trans.bufs
    /\ \A b \in Blocks : use[b] = "data" => saved[b] # "meta"
    \* What it revokes it has freed.
    /\ \A b \in trans.revoke : use[b] # "meta" /\ Bitmap \in trans.bufs
    \* Only metadata has buffers, and only in a session.
    /\ \A b \in Blocks : use[b] # "meta" \/ pc \notin Active => buf[b] = None
    /\ \A b \in trans.bufs : use[b] = "meta" => buf[b] = trans.n

\* Nothing is used in another way.
LEMMA UsageSame ==
    ASSUME Usage, UNCHANGED <<use, saved>>,
           trans'.bufs = trans.bufs, trans'.revoke = trans.revoke, trans'.n = trans.n,
           Open => Open' \/ use = saved,
           trans.bufs \subseteq Blocks,
           \A b \in Blocks : buf'[b] = buf[b] \/ (buf'[b] = None /\ b \notin trans.bufs),
           pc' \notin Active => pc \notin Active \/ \A b \in Blocks : buf[b] = None
    PROVE  Usage'
<1>1. use' # saved' => Open' /\ Bitmap \in trans'.bufs
  BY DEF Usage
<1>2. \A b \in Blocks : use'[b] # "meta" \/ pc' \notin Active => buf'[b] = None
  BY DEF Usage
<1>3. \A b \in trans'.bufs : use'[b] = "meta" => buf'[b] = trans'.n
  BY DEF Usage
<1> QED BY <1>1, <1>2, <1>3 DEF Usage

LEMMA UsageOfCallers ==
    ASSUME IInv, NInv, OwnTypes, Usage, CallerStep,
           pc = "run" => \A b \in Blocks : saved[b] # "meta" => Pending(b) = {}
    PROVE  Usage'
<1>1. /\ DOMAIN buf = Blocks /\ DOMAIN use = Blocks /\ DOMAIN saved = Blocks /\ Bitmap \in Blocks
      /\ trans \in Transactions /\ trans.bufs \subseteq Blocks /\ trans.revoke \subseteq Blocks
      /\ trans.n # None
  BY BitmapAssumption DEF IInv, Typed, OwnTypes, Transactions
<1>2. pc = "run" => pc \in Active /\ Open
  BY DEF Active, Open
<1>3. CASE Begin
  <2>1. /\ use' = use /\ saved' = saved /\ buf' = buf /\ pc = "idle" /\ pc' = "run"
        /\ trans'.bufs = {} /\ trans'.revoke = {}
    BY <1>3 DEF Begin, NoTrans
  <2>2. use = saved
    BY <2>1 DEF Usage, Open
  <2> QED BY <2>1, <2>2 DEF Usage, Active
<1>4. ASSUME NEW b \in Blocks, Dirty(b)
      PROVE  Usage'
  <2> DEFINE S == IF use[b] = "free" THEN {b, Bitmap} ELSE {b}
  <2>1. /\ pc = "run" /\ pc' = "run" /\ use[b] # "data" /\ saved' = saved
        /\ use' = [use EXCEPT ![b] = "meta"] /\ SetDirty(S) /\ S \subseteq Blocks
    BY <1>1, <1>4 DEF Dirty, ghost
  <2>2. /\ trans'.bufs = trans.bufs \cup S /\ trans'.revoke = trans.revoke \ S
        /\ trans'.n = trans.n
        /\ \A c \in Blocks : buf'[c] = IF c \in S THEN trans.n ELSE buf[c]
    BY <1>1, <2>1 DEF SetDirty, Transactions
  <2>3. b \in S /\ \A c \in S : use'[c] = "meta"
    BY <1>1, <2>1 DEF Usage
  <2>4. use' # saved' => Bitmap \in trans'.bufs
    <3>1. CASE use[b] = "free"
      <4>1. Bitmap \in S
        BY <3>1
      <4> HIDE DEF S
      <4> QED BY <2>2, <4>1
    <3>2. CASE use[b] = "meta"
      <4>1. use' = use
        <5>1. use \in [Blocks -> Uses] /\ use' \in [Blocks -> Uses]
          BY <2>1 DEF OwnTypes, Uses
        <5>2. \A c \in Blocks : use'[c] = use[c]
          BY <2>1, <3>2, <5>1
        <5> QED BY <5>1, <5>2
      <4> QED BY <2>1, <2>2, <4>1 DEF Usage
    <3>3. use[b] \in Uses
      BY DEF OwnTypes
    <3>4. use[b] = "free" \/ use[b] = "meta"
      BY <2>1, <3>3 DEF Uses
    <3> QED BY <3>1, <3>2, <3>4
  <2>5. \A c \in Blocks : c # b => use'[c] = use[c]
    BY <1>1, <2>1
  <2>6. Open' /\ pc' \in Active
    BY <2>1 DEF Open, Active
  <2> HIDE DEF S
  <2>7. \A c \in Blocks : use'[c] = "meta" /\ saved'[c] # "meta" => c \in trans'.bufs
    BY <2>1, <2>2, <2>3, <2>5 DEF Usage
  <2>8. \A c \in Blocks : use'[c] = "data" => saved'[c] # "meta"
    BY <2>1, <2>3, <2>5 DEF Usage
  <2>9. \A c \in trans'.revoke : use'[c] # "meta" /\ Bitmap \in trans'.bufs
    BY <1>1, <2>2, <2>3, <2>5 DEF Usage
  <2>10. \A c \in Blocks : use'[c] # "meta" => buf'[c] = None
    BY <2>2, <2>3, <2>5 DEF Usage
  <2>11. \A c \in trans'.bufs : use'[c] = "meta" => buf'[c] = trans'.n
    BY <1>1, <2>1, <2>2, <2>3, <2>5 DEF Usage
  <2>12. use'[Bitmap] = "meta" /\ saved'[Bitmap] = "meta"
    BY <1>1, <2>1 DEF Usage
  <2> QED BY <2>4, <2>6, <2>7, <2>8, <2>9, <2>10, <2>11, <2>12 DEF Usage
<1>5. ASSUME NEW b \in Blocks, WriteData(b)
      PROVE  Usage'
  <2>1. /\ pc = "run" /\ pc' = "run" /\ use[b] = "free" /\ saved[b] = "free" /\ saved' = saved
        /\ use' = [use EXCEPT ![b] = "data"] /\ SetDirty({Bitmap})
    BY <1>5 DEF WriteData, ghost
  <2>2. /\ trans'.bufs = trans.bufs \cup {Bitmap} /\ trans'.revoke = trans.revoke \ {Bitmap}
        /\ trans'.n = trans.n
        /\ \A c \in Blocks : buf'[c] = IF c = Bitmap THEN trans.n ELSE buf[c]
    BY <1>1, <2>1 DEF SetDirty, Transactions
  <2>3. b # Bitmap /\ Open' /\ pc' \in Active
    BY <2>1 DEF Usage, Open, Active
  <2>4. use'[b] = "data" /\ \A c \in Blocks : c # b => use'[c] = use[c]
    BY <1>1, <2>1
  <2> QED BY <1>1, <2>1, <2>2, <2>3, <2>4 DEF Usage
<1>6. ASSUME NEW b \in Blocks, Free(b)
      PROVE  Usage'
  <2>1. /\ pc = "run" /\ pc' = "run" /\ b # Bitmap /\ saved' = saved
        /\ use' = [use EXCEPT ![b] = "free"]
        /\ trans' = [trans EXCEPT !.bufs = @ \cup {Bitmap},
                                  !.revoke = IF MustRevoke(b) THEN @ \cup {b} ELSE @]
        /\ buf' = [buf EXCEPT ![Bitmap] = trans.n, ![b] = None]
    BY <1>6 DEF Free, ghost
  <2>2. /\ trans'.bufs = trans.bufs \cup {Bitmap} /\ trans'.revoke \subseteq trans.revoke \cup {b}
        /\ trans'.n = trans.n
        /\ \A c \in Blocks : buf'[c] = IF c = b THEN None
                                       ELSE IF c = Bitmap THEN trans.n ELSE buf[c]
    BY <1>1, <2>1 DEF Transactions
  <2>3. Open' /\ pc' \in Active
    BY <2>1 DEF Open, Active
  <2>4. use'[b] = "free" /\ \A c \in Blocks : c # b => use'[c] = use[c]
    BY <1>1, <2>1
  <2> QED BY <1>1, <2>1, <2>2, <2>3, <2>4 DEF Usage
<1>7. CASE Abort
  <2>1. /\ pc = "run" /\ pc' = "idle" /\ use' = saved /\ saved' = saved /\ trans' = NoTrans
        /\ \A b \in Blocks : buf'[b] = IF b \in trans.bufs THEN Restored(b) ELSE buf[b]
    BY <1>7 DEF Abort, ghost
  <2>2. \A b \in Blocks : saved[b] # "meta" => buf'[b] = None
    <3> SUFFICES ASSUME NEW b \in Blocks, saved[b] # "meta" PROVE buf'[b] = None
      OBVIOUS
    <3>1. Pending(b) = {}
      BY <2>1
    <3>2. b \notin trans.bufs => use[b] # "meta"
      BY DEF Usage
    <3> QED BY <2>1, <3>1, <3>2 DEF Usage, Restored
  <2>3. trans'.bufs = {} /\ trans'.revoke = {} /\ pc' \in Active
    BY <2>1 DEF NoTrans, Active
  <2> QED BY <2>1, <2>2, <2>3 DEF Usage
<1>8. CASE CommitBegin
  <2> DEFINE dropped == {b \in trans.bufs : buf[b] = None}
  <2>1. /\ pc = "run" /\ use' = use /\ saved' = saved /\ buf' = buf
        /\ IF trans.bufs \ dropped = {}
             THEN trans' = NoTrans /\ pc' = "idle"
             ELSE trans' = [trans EXCEPT !.bufs = @ \ dropped] /\ pc' = "alloc"
    BY <1>8 DEF CommitBegin, ghost
  <2>2. \A b \in trans.bufs : use[b] = "meta" => b \notin dropped
    BY <1>1 DEF Usage
  <2>3. pc' \in Active /\ pc \in Active
    BY <2>1 DEF Active, Committing
  <2>4. CASE trans.bufs \ dropped = {}
    <3>1. Bitmap \notin trans.bufs
      BY <2>2, <2>4 DEF Usage
    <3>2. use = saved /\ trans.revoke = {}
      BY <3>1 DEF Usage
    <3>3. trans'.bufs = {} /\ trans'.revoke = {}
      BY <2>1, <2>4 DEF NoTrans
    <3> QED BY <2>1, <2>3, <3>2, <3>3 DEF Usage
  <2>5. CASE trans.bufs \ dropped # {}
    <3>1. /\ trans'.bufs = trans.bufs \ dropped /\ trans'.revoke = trans.revoke
          /\ trans'.n = trans.n /\ pc' = "alloc"
      BY <1>1, <2>1, <2>5 DEF Transactions
    <3>2. Open'
      BY <3>1 DEF Open
    <3> HIDE DEF dropped
    <3> QED BY <2>1, <2>2, <2>3, <3>1, <3>2 DEF Usage
  <2> QED BY <2>4, <2>5
<1> QED BY <1>3, <1>4, <1>5, <1>6, <1>7, <1>8 DEF CallerStep

LEMMA UsageOfCommits ==
    ASSUME IInv, OwnTypes, Usage, CommitStep
    PROVE  Usage'
<1>1. /\ trans \in Transactions /\ Quiet /\ pc \in Committing /\ pc' \in Active
      /\ trans.bufs \subseteq Blocks
  BY DEF Transactions, IInv, Typed, CommitStep, AllocDescriptor, LogData, LogDescriptor, LogRevoke, LogCommit,
         Enqueue, CompleteRevoked, Committing, Active
<1>2. CASE LogCommit
  <2>1. /\ use' = use /\ saved' = use /\ buf' = buf
        /\ trans' = [trans EXCEPT !.len = @ + 1]
    BY <1>2 DEF LogCommit
  <2>2. trans'.bufs = trans.bufs /\ trans'.revoke = trans.revoke /\ trans'.n = trans.n
    BY <1>1, <2>1 DEF Transactions
  <2> QED BY <1>1, <2>1, <2>2 DEF Usage, Active
<1>3. CASE Enqueue
  <2>1. /\ pc = "revoked" /\ use' = use /\ saved' = saved /\ buf' = buf
        /\ trans'.bufs = {} /\ trans'.revoke = {}
    BY <1>3 DEF Enqueue, ghost, NoTrans
  <2>2. use = saved
    BY <2>1 DEF Usage, Open
  <2> QED BY <1>1, <2>1, <2>2 DEF Usage, Active
<1>4. CASE CommitStep /\ ~LogCommit /\ ~Enqueue
  <2>1. /\ use' = use /\ saved' = saved /\ buf' = buf
        /\ trans'.bufs = trans.bufs /\ trans'.revoke = trans.revoke /\ trans'.n = trans.n
        /\ Open => Open'
    <3>1. CASE AllocDescriptor
      BY <1>1, <3>1 DEF AllocDescriptor, Open, Transactions, ghost
    <3>2. CASE LogDescriptor
      BY <1>1, <3>2 DEF LogDescriptor, Open, Transactions, ghost
    <3>3. CASE LogRevoke
      BY <1>1, <3>3 DEF LogRevoke, Open, Transactions, ghost
    <3>4. ASSUME NEW b \in Blocks, LogData(b)
          PROVE  /\ use' = use /\ saved' = saved /\ buf' = buf
                 /\ trans'.bufs = trans.bufs /\ trans'.revoke = trans.revoke
                 /\ trans'.n = trans.n /\ (Open => Open')
      BY <1>1, <3>4 DEF LogData, Open, Transactions, ghost
    <3>5. ASSUME NEW b \in Blocks, CompleteRevoked(b)
          PROVE  /\ use' = use /\ saved' = saved /\ buf' = buf
                 /\ trans'.bufs = trans.bufs /\ trans'.revoke = trans.revoke
                 /\ trans'.n = trans.n /\ (Open => Open')
      BY <3>5 DEF CompleteRevoked, Open, ghost
    <3> QED BY <1>4, <3>1, <3>2, <3>3, <3>4, <3>5 DEF CommitStep
  <2> QED BY <1>1, <2>1, UsageSame
<1> QED BY <1>2, <1>3, <1>4

\* A buffer of the running transaction is not flushed.
LEMMA HeadNotOwn ==
    ASSUME IInv, NInv, cp_queue # <<>>, NEW b \in Blocks, rec[b] = cp_queue[1].id
    PROVE  b \notin trans.bufs
<1>1. cp_queue \in Seq(Transactions)
  BY DEF IInv, Typed
<1>2. 1 \in 1..Len(cp_queue) /\ cp_queue[1].id \in Nat /\ trans.id \in Nat
  <2>1. 1 \in 1..Len(cp_queue)
    BY <1>1, EmptySeq, LenProperties
  <2>2. cp_queue[1] \in Transactions
    BY <1>1, <2>1, ElementOfSeq
  <2> QED BY <2>1, <2>2 DEF IInv, Typed, Transactions
<1>3. Running => cp_queue[1].id < trans.id
  BY <1>2 DEF IInv, IdsGrow
<1> QED BY <1>2, <1>3 DEF IInv, BufsOwned, NInv, NoneRunning

LEMMA UsageOfOthers ==
    ASSUME IInv, NInv, OwnTypes, Usage, "delayed" \notin Triggers,
           \/ SessionStep \/ CheckpointStep \/ Crash \/ Recover \/ RecoverStep
           \/ \E b \in Blocks : Flush(b)
    PROVE  Usage'
<1>1. DOMAIN buf = Blocks /\ trans.bufs \subseteq Blocks
  BY DEF IInv, Typed, Transactions
<1>2. CASE SessionStep
  <2>1. UNCHANGED <<use, saved, trans, buf>> /\ ~Open
    BY <1>2 DEF SessionStep, StartFlag, StartSb, Stop, StopFlag, StopSb, ghost, Open
  <2>2. pc' \notin Active => pc \notin Active \/ \A b \in Blocks : buf[b] = None
    <3>1. CASE StopFlag
      <4>1. cp_queue = <<>> /\ pc = "stopping"
        BY <3>1 DEF StopFlag
      <4>2. Len(cp_queue) = 0 /\ trans.bufs = {}
        BY <4>1, EmptySeq DEF NInv, NoneRunning, Running, Building
      <4> QED BY <4>2 DEF NInv, Noticed
    <3>2. CASE ~StopFlag
      BY <1>2, <3>2 DEF SessionStep, StartFlag, StartSb, Stop, StopSb, Active, Committing
    <3> QED BY <3>1, <3>2
  <2> QED BY <1>1, <2>1, <2>2, UsageSame
<1>3. CASE CheckpointStep
  <2>1. CASE MakeRoom
    <3>1. UNCHANGED <<use, saved, trans, pc>>
      BY <2>1 DEF MakeRoom, ghost
    <3>2. \A b \in Blocks : buf'[b] = buf[b] \/ (buf'[b] = None /\ b \notin trans.bufs)
      <4>1. CASE buf' = buf
        BY <4>1
      <4>2. CASE buf' # buf
        <5>1. PICK b \in cp_queue[1].bufs : FlushHead(b) /\ cp_queue # <<>>
          BY <2>1, <4>2 DEF MakeRoom
        <5>2. rec[b] = cp_queue[1].id /\ buf' = [buf EXCEPT ![b] = None]
          BY <4>2, <5>1 DEF FlushHead
        <5>3. b \in Blocks => b \notin trans.bufs
          BY <5>1, <5>2, HeadNotOwn
        <5> QED BY <1>1, <5>2, <5>3
      <4> QED BY <4>1, <4>2
    <3> QED BY <1>1, <3>1, <3>2, UsageSame DEF Open
  <2>2. CASE EndWriteOwn \/ Purge \/ Purged \/ WriteSb
    <3>1. UNCHANGED <<use, saved, trans, pc, buf>>
      BY <2>2 DEF EndWriteOwn, Purge, Purged, WriteSb, ghost
    <3> QED BY <1>1, <3>1, UsageSame DEF Open
  <2> QED BY <1>3, <2>1, <2>2 DEF CheckpointStep
<1>4. CASE Crash
  <2>1. /\ use' = saved /\ saved' = saved /\ trans'.bufs = {} /\ trans'.revoke = {}
        /\ \A b \in Blocks : buf'[b] = None
    BY <1>4 DEF Crash, NoTrans, ghost
  <2> QED BY <2>1 DEF Usage
<1>5. CASE Recover \/ RecoverStep
  <2>1. UNCHANGED <<use, saved, trans, buf>> /\ pc \notin Active /\ ~Open
    BY <1>5 DEF Recover, RecoverStep, Replay, RecoverFlag, RecoverPut, ghost, Active, Committing,
                Open
  <2> QED BY <1>1, <2>1, UsageSame
<1>6. ASSUME NEW b \in Blocks, Flush(b)
      PROVE  Usage'
  <2>1. /\ UNCHANGED <<use, saved, trans, pc>> /\ b \notin trans.bufs
        /\ buf' = [buf EXCEPT ![b] = None]
    BY <1>6 DEF Flush, ghost, Referenced
  <2> QED BY <1>1, <2>1, UsageSame DEF Open
<1> QED BY <1>2, <1>3, <1>4, <1>5, <1>6

-----------------------------------------------------------------------------
(* The checkpoint queue by the ids of its transactions.                    *)

Queued == {cp_queue[i].id : i \in 1..Len(cp_queue)}

\* Those that have yet to write b
Ids(b) == {cp_queue[i].id : i \in Pending(b)}

\* The last of them
Top(b, q) == q \in Ids(b) /\ \A p \in Ids(b) : p <= q

LEMMA IdsAre ==
    ASSUME cp_queue \in Seq(Transactions), NEW b
    PROVE  /\ \A i \in 1..Len(cp_queue) : i \in Pending(b) <=> b \in cp_queue[i].bufs
           /\ Pending(b) \subseteq 1..Len(cp_queue)
           /\ Ids(b) \subseteq Queued /\ Queued \subseteq Nat
           /\ Ids(b) = {} <=> Pending(b) = {}
<1>1. DOMAIN cp_queue = 1..Len(cp_queue)
  BY LenProperties
<1>2. \A i \in 1..Len(cp_queue) : cp_queue[i] \in Transactions
  BY ElementOfSeq
<1>3. Pending(b) \subseteq 1..Len(cp_queue)
        /\ \A i \in 1..Len(cp_queue) : i \in Pending(b) <=> b \in cp_queue[i].bufs
  BY <1>1 DEF Pending
<1>4. Queued \subseteq Nat
  BY <1>2 DEF Queued, Transactions
<1>5. Ids(b) \subseteq Queued
  BY <1>3 DEF Queued, Ids
<1> QED BY <1>3, <1>4, <1>5 DEF Ids

LEMMA IdsOrder ==
    ASSUME IInv, NInv, NEW i \in 1..Len(cp_queue), NEW j \in 1..Len(cp_queue)
    PROVE  /\ cp_queue[i].id = cp_queue[j].id => i = j
           /\ cp_queue[i].id <= cp_queue[j].id <=> i <= j
<1>1. cp_queue \in Seq(Transactions) /\ Len(cp_queue) \in Nat
  BY LenProperties DEF IInv, Typed
<1>2. cp_queue[i].id \in Nat /\ cp_queue[j].id \in Nat
  <2>1. cp_queue[i] \in Transactions /\ cp_queue[j] \in Transactions
    BY <1>1, ElementOfSeq
  <2> QED BY <2>1 DEF Transactions
<1>3. /\ i < j => cp_queue[i].id < cp_queue[j].id
      /\ j < i => cp_queue[j].id < cp_queue[i].id
  BY DEF NInv, IdsOrdered
<1> QED BY <1>1, <1>2, <1>3

\* IsNewest, Newest and NewestId in terms of the ids
LEMMA TopIs ==
    ASSUME IInv, NInv, NEW b
    PROVE  /\ \A i \in 1..Len(cp_queue) : IsNewest(b, i) => Top(b, cp_queue[i].id)
           /\ Ids(b) # {} => Top(b, NewestId(b)) /\ Newest(b) \in 1..Len(cp_queue)
                             /\ NewestId(b) = cp_queue[Newest(b)].id
           /\ Ids(b) = {} => NewestId(b) = 0
<1>1. cp_queue \in Seq(Transactions)
  BY DEF IInv, Typed
<1>2. Pending(b) \subseteq 1..Len(cp_queue) /\ (Ids(b) = {} <=> Pending(b) = {})
  BY <1>1, IdsAre
<1>3. ASSUME NEW i \in 1..Len(cp_queue), IsNewest(b, i)
      PROVE  Top(b, cp_queue[i].id)
  <2>1. i \in Pending(b) /\ \A j \in Pending(b) : j <= i
    BY <1>3 DEF IsNewest
  <2>2. \A j \in Pending(b) : cp_queue[j].id <= cp_queue[i].id
    BY <1>2, <2>1, IdsOrder
  <2> QED BY <2>1, <2>2 DEF Top, Ids
<1>4. ASSUME Ids(b) # {}
      PROVE  Top(b, NewestId(b)) /\ Newest(b) \in 1..Len(cp_queue)
             /\ NewestId(b) = cp_queue[Newest(b)].id
  <2>1. Pending(b) # {} /\ IsNewest(b, Newest(b))
    BY <1>1, <1>2, <1>4, NewestIs
  <2>2. Newest(b) \in 1..Len(cp_queue)
    BY <1>2, <2>1 DEF IsNewest
  <2> QED BY <1>3, <2>1, <2>2 DEF NewestId
<1>5. Ids(b) = {} => NewestId(b) = 0
  BY <1>2 DEF NewestId
<1> QED BY <1>3, <1>4, <1>5

LEMMA IdsSame ==
    ASSUME cp_queue' = cp_queue
    PROVE  Queued' = Queued /\ \A b : Ids(b)' = Ids(b) /\ \A q : Top(b, q)' <=> Top(b, q)
<1>1. \A b : Ids(b)' = Ids(b)
  BY DEF Ids, Pending
<1> QED BY <1>1 DEF Queued, Top

\* The queue is thinned.
LEMMA IdsThinned ==
    ASSUME cp_queue \in Seq(Transactions), ThinnedQueue(cp_queue, cp_queue'), NEW b
    PROVE  /\ Queued' = Queued /\ Ids(b)' \subseteq Ids(b)
           /\ \A i \in 1..Len(cp_queue) : /\ cp_queue'[i].id = cp_queue[i].id
                                          /\ b \in cp_queue'[i].bufs <=> i \in Pending(b)'
           /\ Pending(b)' \subseteq 1..Len(cp_queue)
<1>1. /\ cp_queue' \in Seq(Transactions) /\ Len(cp_queue') = Len(cp_queue)
      /\ Pending(b)' \subseteq Pending(b)
      /\ \A i \in 1..Len(cp_queue) : cp_queue'[i].id = cp_queue[i].id
      /\ DOMAIN cp_queue = 1..Len(cp_queue) /\ DOMAIN cp_queue' = 1..Len(cp_queue)
  BY ThinnedPending
<1>2. Queued' = Queued
  BY <1>1 DEF Queued
<1>3. Pending(b)' \subseteq 1..Len(cp_queue)
        /\ \A i \in 1..Len(cp_queue) : b \in cp_queue'[i].bufs <=> i \in Pending(b)'
  BY <1>1 DEF Pending
<1>4. Ids(b)' = {cp_queue'[i].id : i \in Pending(b)'}
  BY DEF Ids
<1>5. Ids(b)' \subseteq Ids(b)
  BY <1>1, <1>3, <1>4 DEF Ids
<1> QED BY <1>1, <1>2, <1>3, <1>5

LEMMA EndWriteIds ==
    ASSUME IInv, NEW id, NEW b \in Blocks, EndWrite(id, b)
    PROVE  /\ Queued' = Queued /\ \A c : c # b => Ids(c)' = Ids(c)
           /\ Ids(b)' = IF rec[b] = id THEN Ids(b) \cap {id} ELSE Ids(b)
           /\ ending'.id = id /\ ending'.block = b
<1> DEFINE older == IF rec[b] = id THEN {i \in Pending(b) : cp_queue[i].id # id} ELSE {}
<1>1. /\ cp_queue \in Seq(Transactions) /\ DOMAIN cp_queue = 1..Len(cp_queue)
      /\ \A i \in 1..Len(cp_queue) : cp_queue[i] \in Transactions
  BY LenProperties, ElementOfSeq DEF IInv, Typed
<1>2. ThinnedQueue(cp_queue, cp_queue')
  BY <1>1, EndWriteThins
<1>3. \A i \in 1..Len(cp_queue) :
        cp_queue'[i].bufs = IF i \in older THEN cp_queue[i].bufs \ {b} ELSE cp_queue[i].bufs
  <2> SUFFICES ASSUME NEW i \in 1..Len(cp_queue)
               PROVE  cp_queue'[i].bufs = IF i \in older THEN cp_queue[i].bufs \ {b}
                                          ELSE cp_queue[i].bufs
    OBVIOUS
  <2>1. cp_queue'[i] = IF i \in older THEN Without(cp_queue[i], b) ELSE cp_queue[i]
    BY <1>1 DEF EndWrite
  <2>2. Without(cp_queue[i], b).bufs = cp_queue[i].bufs \ {b}
    BY <1>1 DEF Without, Transactions
  <2> HIDE DEF older
  <2> QED BY <2>1, <2>2
<1>4. \A c : \A i \in 1..Len(cp_queue) :
        /\ i \in Pending(c)' <=> c \in cp_queue'[i].bufs
        /\ cp_queue'[i].id = cp_queue[i].id
  BY <1>1, <1>2, IdsThinned
<1>5. \A c : Pending(c)' \subseteq 1..Len(cp_queue) /\ Queued' = Queued
  BY <1>1, <1>2, IdsThinned
<1>6. \A c : /\ Pending(c) \subseteq 1..Len(cp_queue)
             /\ \A i \in 1..Len(cp_queue) : i \in Pending(c) <=> c \in cp_queue[i].bufs
  BY <1>1, IdsAre
<1>7. ASSUME NEW c
      PROVE  Ids(c)' = {cp_queue[i].id : i \in Pending(c)'}
  BY <1>4, <1>5 DEF Ids
<1>8. ASSUME NEW c, c # b
      PROVE  Ids(c)' = Ids(c)
  <2>1. \A i \in 1..Len(cp_queue) : c \in cp_queue'[i].bufs <=> c \in cp_queue[i].bufs
    BY <1>3, <1>8
  <2>2. Pending(c)' = Pending(c)
    <3>1. \A i \in 1..Len(cp_queue) : i \in Pending(c)' <=> i \in Pending(c)
      BY <1>4, <1>6, <2>1
    <3>2. Pending(c)' \subseteq 1..Len(cp_queue) /\ Pending(c) \subseteq 1..Len(cp_queue)
      BY <1>5, <1>6
    <3> QED BY <3>1, <3>2
  <2> QED BY <1>7, <2>2 DEF Ids
<1>9. Pending(b)' = Pending(b) \ older
  <2>1. \A i \in 1..Len(cp_queue) : b \in cp_queue'[i].bufs <=> (b \in cp_queue[i].bufs /\ i \notin older)
    BY <1>3
  <2>2. \A i \in 1..Len(cp_queue) : i \in Pending(b)' <=> (i \in Pending(b) /\ i \notin older)
    BY <1>4, <1>6, <2>1
  <2> HIDE DEF older
  <2> QED BY <1>5, <1>6, <2>2
<1>10. Ids(b)' = IF rec[b] = id THEN Ids(b) \cap {id} ELSE Ids(b)
  BY <1>7, <1>9 DEF Ids
<1>11. ending'.id = id /\ ending'.block = b
  BY DEF EndWrite
<1> QED BY <1>5, <1>8, <1>10, <1>11

LEMMA EndWriteOwnIds ==
    ASSUME IInv, EndWriteOwn, NEW e, e = ending.block
    PROVE  /\ Queued' = Queued /\ \A c : c # e => Ids(c)' = Ids(c)
           /\ Ids(e)' = Ids(e) \ {ending.id}
<1> DEFINE own == {i \in 1..Len(cp_queue) : cp_queue[i].id = ending.id}
<1>1. /\ cp_queue \in Seq(Transactions) /\ DOMAIN cp_queue = 1..Len(cp_queue)
      /\ \A i \in 1..Len(cp_queue) : cp_queue[i] \in Transactions
  BY LenProperties, ElementOfSeq DEF IInv, Typed
<1>2. cp_queue' = [i \in DOMAIN cp_queue |->
                     IF cp_queue[i].id = ending.id THEN Without(cp_queue[i], ending.block)
                     ELSE cp_queue[i]]
  BY DEF EndWriteOwn
<1>3. /\ Len(cp_queue') = Len(cp_queue) /\ DOMAIN cp_queue' = 1..Len(cp_queue)
      /\ \A i \in 1..Len(cp_queue) :
           /\ cp_queue'[i].id = cp_queue[i].id
           /\ cp_queue'[i].bufs = IF i \in own THEN cp_queue[i].bufs \ {e} ELSE cp_queue[i].bufs
  <2>1. ThinnedQueue(cp_queue, cp_queue')
    <3> DEFINE F == [i \in DOMAIN cp_queue |->
                       IF cp_queue[i].id = ending.id THEN Without(cp_queue[i], ending.block)
                       ELSE cp_queue[i]]
    <3>1. \A i \in DOMAIN cp_queue : Thinned(cp_queue[i], F[i])
      BY DEF Thinned
    <3>2. F = [i \in DOMAIN cp_queue |-> F[i]] /\ cp_queue' = F
      BY <1>2
    <3> HIDE DEF F
    <3> QED BY <1>1, <3>1, <3>2, ThinnedMap
  <2>2. /\ Len(cp_queue') = Len(cp_queue) /\ DOMAIN cp_queue' = 1..Len(cp_queue)
        /\ \A i \in 1..Len(cp_queue) : cp_queue'[i].id = cp_queue[i].id
    BY <1>1, <2>1, ThinnedPending
  <2>3. ASSUME NEW i \in 1..Len(cp_queue)
        PROVE  cp_queue'[i].bufs = IF i \in own THEN cp_queue[i].bufs \ {e} ELSE cp_queue[i].bufs
    <3>1. cp_queue'[i] = IF i \in own THEN Without(cp_queue[i], e) ELSE cp_queue[i]
      BY <1>1, <1>2
    <3>2. Without(cp_queue[i], e).bufs = cp_queue[i].bufs \ {e}
      BY <1>1 DEF Without, Transactions
    <3> HIDE DEF own
    <3> QED BY <3>1, <3>2
  <2> QED BY <2>2, <2>3
<1>4. \A c : Pending(c)' = {i \in 1..Len(cp_queue) : c \in cp_queue'[i].bufs}
  BY <1>3 DEF Pending
<1>5. \A c : Pending(c) = {i \in 1..Len(cp_queue) : c \in cp_queue[i].bufs}
  BY <1>1 DEF Pending
<1>6. \A c : Ids(c)' = {cp_queue[i].id : i \in Pending(c)'}
  BY <1>3, <1>4 DEF Ids
<1>7. ASSUME NEW c, c # e
      PROVE  Ids(c)' = Ids(c)
  <2>1. Pending(c)' = Pending(c)
    BY <1>3, <1>4, <1>5, <1>7
  <2> QED BY <1>6, <2>1 DEF Ids
<1>8. Pending(e)' = Pending(e) \ own
  <2>1. \A i \in 1..Len(cp_queue) : e \in cp_queue'[i].bufs <=> (e \in cp_queue[i].bufs /\ i \notin own)
    <3> HIDE DEF own
    <3> QED BY <1>3
  <2>2. /\ Pending(e)' = {i \in 1..Len(cp_queue) : e \in cp_queue'[i].bufs}
        /\ Pending(e) = {i \in 1..Len(cp_queue) : e \in cp_queue[i].bufs}
    BY <1>4, <1>5
  <2> HIDE DEF own
  <2> QED BY <2>1, <2>2
<1>9. Ids(e)' = Ids(e) \ {ending.id}
  BY <1>5, <1>6, <1>8 DEF Ids
<1>10. Queued' = Queued
  BY <1>3 DEF Queued
<1> QED BY <1>7, <1>9, <1>10

\* The head that is dropped has nothing to write.
LEMMA DropHeadIds ==
    ASSUME IInv, NInv, HeadWritten, DropHead
    PROVE  /\ \A c : Ids(c)' = Ids(c) /\ Queued' = Queued \ {cp_queue[1].id}
<1>1. /\ cp_queue \in Seq(Transactions) /\ cp_queue # <<>> /\ cp_queue[1].bufs = {}
      /\ cp_queue' = Tail(cp_queue)
  BY DEF IInv, Typed, HeadWritten, DropHead
<1>2. /\ Len(cp_queue) \in Nat /\ Len(cp_queue) > 0 /\ 1 \in 1..Len(cp_queue)
      /\ cp_queue' \in Seq(Transactions) /\ Len(cp_queue') = Len(cp_queue) - 1
      /\ \A i \in 1..Len(cp_queue') : cp_queue'[i] = cp_queue[i + 1]
  BY <1>1, HeadTailProperties, LenProperties, EmptySeq
<1>3. /\ DOMAIN cp_queue = 1..Len(cp_queue) /\ DOMAIN cp_queue' = 1..Len(cp_queue')
  BY <1>1, <1>2, LenProperties
<1> DEFINE n == Len(cp_queue)
           m == Len(cp_queue')
<1>4. \A j \in 1..n : j = 1 \/ \E i \in 1..m : j = i + 1
  <2> SUFFICES ASSUME NEW j \in 1..n, j # 1 PROVE j - 1 \in 1..m /\ j = (j - 1) + 1
    OBVIOUS
  <2> QED BY <1>2
<1>5. \A i \in 1..m : i + 1 \in 1..n /\ i + 1 # 1
  BY <1>2
<1>6. ASSUME NEW c
      PROVE  Ids(c)' = Ids(c)
  <2>1. Ids(c)' = {cp_queue'[i].id : i \in {k \in 1..m : c \in cp_queue'[k].bufs}}
    BY <1>3 DEF Ids, Pending
  <2>2. Ids(c) = {cp_queue[i].id : i \in {k \in 1..n : c \in cp_queue[k].bufs}}
    BY <1>3 DEF Ids, Pending
  <2>3. Ids(c)' \subseteq Ids(c)
    BY <1>2, <1>5, <2>1, <2>2
  <2>4. Ids(c) \subseteq Ids(c)'
    <3> SUFFICES ASSUME NEW j \in 1..n, c \in cp_queue[j].bufs
                 PROVE  cp_queue[j].id \in Ids(c)'
      BY <2>2
    <3>1. PICK i \in 1..m : j = i + 1
      BY <1>1, <1>4
    <3>2. cp_queue'[i] = cp_queue[j]
      BY <1>2, <3>1
    <3> QED BY <2>1, <3>2
  <2> QED BY <2>3, <2>4
<1>7. Queued' = Queued \ {cp_queue[1].id}
  <2>1. Queued' = {cp_queue'[i].id : i \in 1..m} /\ Queued = {cp_queue[i].id : i \in 1..n}
    BY DEF Queued
  <2>2. \A i \in 1..m : cp_queue'[i].id \in Queued /\ cp_queue'[i].id # cp_queue[1].id
    <3> SUFFICES ASSUME NEW i \in 1..m
                 PROVE  cp_queue'[i].id \in Queued /\ cp_queue'[i].id # cp_queue[1].id
      OBVIOUS
    <3>1. cp_queue'[i] = cp_queue[i + 1] /\ i + 1 \in 1..n /\ i + 1 # 1
      BY <1>2, <1>5
    <3>2. cp_queue[i + 1].id # cp_queue[1].id
      BY <1>2, <3>1, IdsOrder
    <3> QED BY <2>1, <3>1, <3>2
  <2>3. \A j \in 1..n : cp_queue[j].id = cp_queue[1].id \/ cp_queue[j].id \in Queued'
    <3> SUFFICES ASSUME NEW j \in 1..n, j # 1 PROVE cp_queue[j].id \in Queued'
      OBVIOUS
    <3>1. PICK i \in 1..m : j = i + 1
      BY <1>4
    <3>2. cp_queue'[i] = cp_queue[j]
      BY <1>2, <3>1
    <3> QED BY <2>1, <3>2
  <2> QED BY <2>1, <2>2, <2>3
<1> QED BY <1>6, <1>7

\* The committed transaction joins the queue.
LEMMA EnqueueIds ==
    ASSUME IInv, Enqueue
    PROVE  /\ Queued' = Queued \cup {trans.id}
           /\ \A c : Ids(c)' = IF c \in trans.bufs THEN Ids(c) \cup {trans.id} ELSE Ids(c)
<1> DEFINE t == [trans EXCEPT !.revoke = {}]
           n == Len(cp_queue)
<1>1. /\ cp_queue \in Seq(Transactions) /\ trans \in Transactions
      /\ cp_queue' = Append(cp_queue, t)
  BY DEF IInv, Typed, Enqueue
<1>2. t \in Transactions /\ t.id = trans.id /\ t.bufs = trans.bufs
  BY <1>1 DEF Transactions
<1> HIDE DEF t
<1>3. /\ n \in Nat /\ cp_queue' \in Seq(Transactions) /\ Len(cp_queue') = n + 1
      /\ cp_queue'[n + 1] = t /\ \A i \in 1..n : cp_queue'[i] = cp_queue[i]
  BY <1>1, <1>2, AppendProperties, LenProperties
<1>4. DOMAIN cp_queue = 1..n /\ DOMAIN cp_queue' = 1..n + 1
  BY <1>1, <1>3, LenProperties
<1> HIDE DEF n
<1>5. \A i \in 1..n + 1 : i \in 1..n \/ i = n + 1
  BY <1>3
<1>6. \A i \in 1..n : i \in 1..n + 1
  BY <1>3
<1>7. n + 1 \in 1..n + 1
  BY <1>3
<1>8. ASSUME NEW c
      PROVE  Ids(c)' = IF c \in trans.bufs THEN Ids(c) \cup {trans.id} ELSE Ids(c)
  <2>1. Ids(c)' = {cp_queue'[i].id : i \in {k \in 1..n + 1 : c \in cp_queue'[k].bufs}}
    BY <1>4 DEF Ids, Pending
  <2>2. Ids(c) = {cp_queue[i].id : i \in {k \in 1..n : c \in cp_queue[k].bufs}}
    BY <1>4 DEF Ids, Pending
  <2>3. \A q : q \in Ids(c) => q \in Ids(c)'
    BY <1>3, <1>6, <2>1, <2>2
  <2>4. c \in trans.bufs => trans.id \in Ids(c)'
    BY <1>2, <1>3, <1>7, <2>1
  <2>5. \A q : q \in Ids(c)' => q \in Ids(c) \/ (c \in trans.bufs /\ q = trans.id)
    BY <1>2, <1>3, <1>5, <2>1, <2>2
  <2> QED BY <2>3, <2>4, <2>5
<1>9. Queued' = Queued \cup {trans.id}
  <2>1. Queued' = {cp_queue'[i].id : i \in 1..n + 1} /\ Queued = {cp_queue[i].id : i \in 1..n}
    BY <1>3 DEF Queued, n
  <2> QED BY <1>2, <1>3, <1>5, <1>6, <1>7, <2>1
<1> QED BY <1>8, <1>9

-----------------------------------------------------------------------------
(* What the home blocks, the buffers and the queue have of the row.        *)

\* The last content that is committed is home, or has yet to be written, or is
\* that of the transaction that is about to join the queue.
HomeOrOwed(H) ==
    pc \in Active => \A b \in Blocks : \A t : Last(H, b, t) =>
        home[b] = t.n \/ t.id \in Ids(b) \/ (pc = "revoked" /\ t = trans)

\* The last in the queue that has yet to write b has the last content that is
\* committed, but for what the transaction about to join it has changed.
TopIsLast(H) ==
    \A b \in Blocks : \A q : Top(b, q) =>
        \/ \E t : Last(H, b, t) /\ t.id = q
        \/ pc = "revoked" /\ (b \in trans.bufs \/ b \in trans.revoke)

\* Recovery replays nothing over file data and free blocks, nor over what the
\* running transaction has freed and will not revoke.
OnlyMetadata(H) ==
    \A b \in Blocks : saved[b] # "meta" \/ (use[b] # "meta" /\ b \notin trans.revoke)
        => \A t : ~Last(H, b, t)

\* A block without a buffer has nothing to write, or its write is being completed,
\* or it has been freed.
BufferOrDone ==
    \A b \in Blocks : b \notin trans.revoke /\ buf[b] = None =>
        \A q \in Ids(b) : ending # NotEnding /\ ending.block = b /\ ending.id = q

\* The write that is being completed is home, and no other is older.
EndsRight(H) ==
    ending # NotEnding =>
        /\ \A t : Last(H, ending.block, t) /\ t.id = ending.id => home[ending.block] = t.n
        /\ Top(ending.block, ending.id) =>
             \/ Ids(ending.block) = {ending.id}
             \/ pc = "revoked" /\ ending.block \in trans.revoke
        /\ pc = "run" => ending.block \notin trans.bufs

\* The block record knows who logged the last content, until it is in the queue
\* no more.
RecordIsLast(H) ==
    \A b \in Blocks : \A t : Last(H, b, t) /\ t.id \in Queued => rec[b] = t.id \/ b \in trans.bufs

\* A block that was dirtied and freed still has its earlier content to write.
FreedIsOwed(H) ==
    pc = "run" => \A b \in trans.bufs : buf[b] = None =>
        \A t : Last(H, b, t) /\ t.id \in Queued => t.id \in Ids(b)

AInv(H) == /\ HomeOrOwed(H) /\ TopIsLast(H) /\ OnlyMetadata(H) /\ BufferOrDone
           /\ EndsRight(H) /\ RecordIsLast(H) /\ FreedIsOwed(H)

\* All that is known of a state
Known(H) == Base(H) /\ Usage

\* A transaction of the row in the queue
LEMMA RowIds ==
    ASSUME NEW H, Known(H), pc \in Active, NEW b, NEW t, Last(H, b, t)
    PROVE  /\ H \in Seq(Transactions) /\ t \in Transactions /\ t.id > 0 /\ t.lba[b] # 0
           /\ b \notin t.revoke
           /\ Quiet => t.id \in Queued \/ (pc = "revoked" /\ t = trans)
           /\ \A k \in 1..Len(cp_queue) :
                cp_queue[k].id = t.id => cp_queue[k].n = t.n /\ cp_queue[k].lba = t.lba
<1> DEFINE d == Behind(H)
           n == Len(H)
           m == Len(cp_queue)
           q == jsb.sequence
<1>1. /\ cp_queue \in Seq(Transactions) /\ m \in Nat /\ jsb \in SuperBlocks
      /\ jsb.start # 0 /\ q > 0 /\ d \in Nat /\ (Quiet => d = 0)
      /\ \A k \in 1..m : SameAs(cp_queue[k], H[k + d])
      /\ pc = "revoked" => H[n] = trans
  BY LenProperties DEF Known, Base, IInv, Typed, OwnTypes, LInv, SessionInv, Quiet
<1>2. Laid(H, log, jsb) /\ q \in Nat
  BY <1>1 DEF Known, Base, LInv, DiskInv, SuperBlocks
<1>3. H \in Seq(Transactions) /\ n \in Nat
  BY <1>2, LenProperties DEF Laid
<1>4. n = m + d + (IF pc = "revoked" THEN 1 ELSE 0)
  BY <1>1, <1>3 DEF Behind
<1>5. t \in Transactions /\ t.lba[b] # 0 /\ b \notin t.revoke
  BY <1>3, LastIn
<1>6. PICK i \in 1..n : t = H[i]
  BY DEF Last
<1>7. \A k \in 1..n : H[k].id = q + k - 1
  BY <1>1, <1>2, LaidFacts
<1> HIDE DEF d, n, m, q
<1>8. t.id > 0
  BY <1>1, <1>2, <1>6, <1>7 DEF n
<1>9. ASSUME Quiet
      PROVE  t.id \in Queued \/ (pc = "revoked" /\ t = trans)
  <2>1. d = 0
    BY <1>1, <1>9
  <2>2. CASE i \in 1..m
    <3>1. SameAs(cp_queue[i], H[i + d]) /\ i + d = i
      BY <1>1, <2>1, <2>2
    <3>2. cp_queue[i].id = t.id
      BY <1>6, <3>1 DEF SameAs
    <3> QED BY <2>2, <3>2 DEF Queued, m
  <2>3. CASE i \notin 1..m
    <3>1. pc = "revoked" /\ i = n
      BY <1>1, <1>3, <1>4, <1>6, <2>1, <2>3
    <3> QED BY <1>1, <1>6, <3>1
  <2> QED BY <2>2, <2>3
<1>10. ASSUME NEW k \in 1..m, cp_queue[k].id = t.id
       PROVE  cp_queue[k].n = t.n /\ cp_queue[k].lba = t.lba
  <2>1. k + d \in 1..n
    BY <1>1, <1>3, <1>4, <1>10
  <2>2. SameAs(cp_queue[k], H[k + d])
    BY <1>1, <1>10
  <2>3. H[k + d].id = q + (k + d) - 1 /\ H[i].id = q + i - 1
    BY <1>6, <1>7, <2>1
  <2>4. H[k + d].id = H[i].id
    BY <1>6, <1>10, <2>2 DEF SameAs
  <2>5. k + d = i
    BY <1>1, <1>2, <1>3, <1>6, <2>1, <2>3, <2>4
  <2> QED BY <1>6, <2>2, <2>5 DEF SameAs
<1> QED BY <1>3, <1>5, <1>8, <1>9, <1>10 DEF m

LEMMA OutsideQuiet ==
    ASSUME NEW H, Known(H), pc \notin Active
    PROVE  /\ ending = NotEnding /\ cp_queue = <<>> /\ Queued = {} /\ \A b : Ids(b) = {}
           /\ use = saved
<1>1. cp_queue \in Seq(Transactions) /\ cp_queue = <<>> /\ Len(cp_queue) = 0 /\ ending = NotEnding
  BY NoSession DEF Known, Base, IInv, Typed
<1>2. Queued = {} /\ \A b : Ids(b) \subseteq Queued
  BY <1>1, IdsAre DEF Queued
<1>3. use = saved
  BY DEF Known, Base, Usage, Active, Committing, Open
<1> QED BY <1>1, <1>2, <1>3

\* What is yet to be written, while no transaction is about to join the queue
LEMMA OwedIsLast ==
    ASSUME NEW H, Known(H), AInv(H), pc # "revoked", NEW b \in Blocks, Ids(b) # {}
    PROVE  \E t : Last(H, b, t) /\ t.id = NewestId(b) /\ t.id \in Ids(b)
<1>1. Top(b, NewestId(b))
  BY TopIs DEF Known, Base
<1> QED BY <1>1 DEF AInv, TopIsLast, Top

\* Only metadata has anything to write.
LEMMA OwedIsMetadata ==
    ASSUME NEW H, Known(H), AInv(H), pc # "revoked", NEW b \in Blocks, saved[b] # "meta"
    PROVE  Ids(b) = {}
BY OwedIsLast DEF AInv, OnlyMetadata

-----------------------------------------------------------------------------
(* The callers.                                                            *)

\* The queue is as it is, and what is home of metadata.
LEMMA OwedSame ==
    ASSUME NEW H, Known(H), AInv(H), UNCHANGED <<cp_queue, ending>>, ending = NotEnding,
           pc \in Active, pc # "revoked", pc' # "revoked",
           \A b \in Blocks : home'[b] = home[b] \/ saved[b] # "meta"
    PROVE  HomeOrOwed(H)' /\ TopIsLast(H)' /\ EndsRight(H)'
<1>1. \A b : Ids(b)' = Ids(b) /\ \A q : Top(b, q)' <=> Top(b, q)
  BY IdsSame
<1>2. ASSUME NEW b \in Blocks, NEW t, Last(H, b, t)
      PROVE  home'[b] = t.n \/ t.id \in Ids(b)'
  <2>1. home[b] = t.n \/ t.id \in Ids(b)
    BY <1>2 DEF AInv, HomeOrOwed
  <2>2. home'[b] = home[b]
    BY <1>2 DEF AInv, OnlyMetadata
  <2> QED BY <1>1, <2>1, <2>2
<1>3. HomeOrOwed(H)'
  BY <1>2 DEF HomeOrOwed, Last, Live
<1>4. TopIsLast(H)'
  BY <1>1 DEF AInv, TopIsLast, Last, Live
<1>5. EndsRight(H)'
  BY DEF EndsRight
<1> QED BY <1>3, <1>4, <1>5

\* In the transaction a caller runs nothing is being completed.
LEMMA NothingOwed ==
    ASSUME NEW H, AInv(H), ending = NotEnding, NEW b \in Blocks, b \notin trans.revoke, buf[b] = None
    PROVE  Ids(b) = {}
BY DEF AInv, BufferOrDone

\* Blocks are dirtied.
LEMMA SetDirtyOwes ==
    ASSUME NEW H, Known(H), AInv(H), NEW S \in SUBSET Blocks, SetDirty(S),
           pc = "run", pc' = pc, UNCHANGED <<cp_queue, ending, saved>>, ending = NotEnding,
           \A b \in Blocks : home'[b] = home[b] \/ saved[b] # "meta",
           \A b \in Blocks : saved[b] = "meta" /\ use'[b] # "meta" => use[b] # "meta" /\ b \notin S
    PROVE  AInv(H)'
<1>1. HomeOrOwed(H)' /\ TopIsLast(H)' /\ EndsRight(H)'
  BY OwedSame DEF Active
<1>2. /\ trans \in Transactions /\ trans.n \in Nat /\ trans.n # None
      /\ trans'.bufs = trans.bufs \cup S /\ trans'.revoke = trans.revoke \ S
  BY BitmapAssumption DEF Known, Base, IInv, Typed, Transactions, SetDirty
<1>3. /\ \A b \in Blocks : b \notin S => rec'[b] = rec[b] /\ buf'[b] = buf[b]
      /\ \A b \in S : buf'[b] = trans.n
  BY DEF SetDirty
<1>4. Queued' = Queued /\ \A b : Ids(b)' = Ids(b)
  BY IdsSame
<1>5. OnlyMetadata(H)'
  <2> SUFFICES ASSUME NEW b \in Blocks, NEW t, Last(H, b, t),
                      saved[b] # "meta" \/ (use'[b] # "meta" /\ b \notin trans'.revoke)
               PROVE  FALSE
    BY DEF OnlyMetadata, Last, Live
  <2>1. saved[b] = "meta"
    BY DEF AInv, OnlyMetadata
  <2>2. use[b] # "meta" /\ b \notin trans.revoke
    BY <1>2, <2>1
  <2> QED BY <2>2 DEF AInv, OnlyMetadata
<1>6. BufferOrDone'
  <2> SUFFICES ASSUME NEW b \in Blocks, b \notin trans'.revoke, buf'[b] = None
               PROVE  Ids(b)' = {}
    BY DEF BufferOrDone
  <2>1. b \notin S /\ buf[b] = None /\ b \notin trans.revoke
    BY <1>2, <1>3
  <2> QED BY <1>4, <2>1, NothingOwed
<1>7. RecordIsLast(H)'
  <2> SUFFICES ASSUME NEW b \in Blocks, NEW t, Last(H, b, t), t.id \in Queued', b \notin trans'.bufs
               PROVE  rec'[b] = t.id
    BY DEF RecordIsLast, Last, Live
  <2> QED BY <1>2, <1>3, <1>4 DEF AInv, RecordIsLast
<1>8. FreedIsOwed(H)'
  <2> SUFFICES ASSUME NEW b \in trans'.bufs, buf'[b] = None, NEW t, Last(H, b, t), t.id \in Queued'
               PROVE  t.id \in Ids(b)'
    BY DEF FreedIsOwed, Last, Live
  <2>1. b \in Blocks
    BY <1>2 DEF Transactions
  <2>2. b \in trans.bufs /\ buf[b] = None
    BY <1>2, <1>3, <2>1
  <2> QED BY <1>4, <2>2 DEF AInv, FreedIsOwed
<1> QED BY <1>1, <1>5, <1>6, <1>7, <1>8 DEF AInv

LEMMA DirtyOwes ==
    ASSUME NEW H, Known(H), AInv(H), NEW b \in Blocks, Dirty(b) \/ WriteData(b)
    PROVE  AInv(H)'
<1>1. use[Bitmap] = "meta" /\ Bitmap \in Blocks /\ use \in [Blocks -> Uses]
  BY BitmapAssumption DEF Known, Base, Usage, OwnTypes
<1>2. pc = "run" /\ pc' = pc /\ UNCHANGED <<cp_queue, ending, saved>> /\ ending = NotEnding
  BY DEF Dirty, WriteData, Quiet, ghost
<1>3. CASE Dirty(b)
  <2>1. PICK S \in {{b}, {b, Bitmap}} : SetDirty(S)
    BY <1>3 DEF Dirty
  <2>2. S \in SUBSET Blocks
    BY <1>1
  <2>3. home' = home /\ use' = [use EXCEPT ![b] = "meta"]
    BY <1>3 DEF Dirty, disk
  <2>4. \A c \in Blocks : use'[c] # "meta" => use[c] # "meta" /\ c \notin S
    BY <1>1, <2>3
  <2> QED BY <1>2, <2>1, <2>2, <2>3, <2>4, SetDirtyOwes
<1>4. CASE WriteData(b)
  <2>1. SetDirty({Bitmap}) /\ {Bitmap} \in SUBSET Blocks /\ use' = [use EXCEPT ![b] = "data"]
        /\ saved[b] = "free" /\ home' = [home EXCEPT ![b] = trans.n]
    BY <1>1, <1>4 DEF WriteData
  <2>2. \A c \in Blocks : saved[c] = "meta" /\ use'[c] # "meta" => use[c] # "meta" /\ c \notin {Bitmap}
    BY <1>1, <2>1
  <2>3. \A c \in Blocks : home'[c] = home[c] \/ saved[c] # "meta"
    BY <2>1
  <2> QED BY <1>2, <2>1, <2>2, <2>3, SetDirtyOwes
<1> QED BY <1>3, <1>4

\* Of a block that the running transaction need not revoke, or has dirtied,
\* nothing is logged that recovery could replay, unless it is still to be written.
LEMMA NothingLogged ==
    ASSUME "forgotten" \notin Triggers, NEW H, Known(H), AInv(H), pc = "run", Quiet,
           NEW b \in Blocks, b \in trans.bufs => ~LoggedOnly(b), NEW t, Last(H, b, t)
    PROVE  /\ MustRevoke(b)
           /\ b \in trans.bufs => t.id = NewestId(b) /\ t.id \in Ids(b)
<1>1. cp_queue \in Seq(Transactions) /\ DOMAIN cp_queue = 1..Len(cp_queue) /\ trans.id \in Nat
      /\ Running
  BY LenProperties DEF Known, Base, IInv, Typed, Transactions, Running
<1>2. t.id \in Queued /\ t.id > 0 /\ t.lba[b] # 0 /\ t \in Transactions
  BY RowIds DEF Active
<1>3. PICK k \in 1..Len(cp_queue) : cp_queue[k].id = t.id
  BY <1>2 DEF Queued
<1>4. cp_queue[k].lba[b] # 0 /\ t.id < trans.id /\ t.id \in Nat
  <2>1. cp_queue[k].lba = t.lba
    BY <1>3, RowIds DEF Active
  <2>2. t.id \in Nat
    BY <1>2 DEF Transactions
  <2> QED BY <1>1, <1>2, <1>3, <2>1, <2>2 DEF Known, Base, IInv, IdsGrow
<1>5. CASE b \in trans.bufs
  <2>1. rec[b] = trans.id
    BY <1>1, <1>5 DEF Known, Base, IInv, BufsOwned
  <2>2. Pending(b) # {}
    BY <1>1, <1>4, <1>5 DEF LoggedOnly
  <2>3. Ids(b) # {}
    BY <1>1, <2>2, IdsAre
  <2>4. PICK u : Last(H, b, u) /\ u.id = NewestId(b) /\ u.id \in Ids(b)
    BY <2>3, OwedIsLast
  <2>5. u = t
    BY <2>4, LastUnique, RowIds DEF Active
  <2> QED BY <1>1, <1>2, <1>4, <2>1, <2>2, <2>4, <2>5 DEF MustRevoke
<1>6. CASE b \notin trans.bufs
  <2>1. rec[b] = t.id
    BY <1>2, <1>6 DEF AInv, RecordIsLast
  <2> QED BY <1>1, <1>2, <1>4, <1>6, <2>1 DEF MustRevoke
<1> QED BY <1>5, <1>6

LEMMA FreeOwes ==
    ASSUME "forgotten" \notin Triggers, NEW H, Known(H), AInv(H), NEW b \in Blocks, Free(b)
    PROVE  AInv(H)'
<1>1. /\ pc = "run" /\ pc' = pc /\ Quiet /\ UNCHANGED <<home, cp_queue, ending, saved>>
      /\ ending = NotEnding /\ b # Bitmap
      /\ trans'.bufs = trans.bufs \cup {Bitmap}
      /\ trans'.revoke = IF MustRevoke(b) THEN trans.revoke \cup {b} ELSE trans.revoke
      /\ b \in trans.bufs => ~LoggedOnly(b)
  <2>1. trans \in Transactions
    BY DEF Known, Base, IInv, Typed
  <2> QED BY <2>1 DEF Free, Quiet, disk, ghost, Transactions
<1>2. /\ DOMAIN rec = Blocks /\ DOMAIN buf = Blocks /\ use \in [Blocks -> Uses]
      /\ trans.n # None /\ Bitmap \in Blocks /\ trans.bufs \subseteq Blocks
  BY BitmapAssumption DEF Known, Base, IInv, Typed, Transactions, OwnTypes
<1>3. /\ \A c \in Blocks : c # Bitmap => rec'[c] = rec[c]
      /\ buf'[Bitmap] = trans.n
      /\ \A c \in Blocks : c # Bitmap /\ c # b => buf'[c] = buf[c]
      /\ \A c \in Blocks : c # b => use'[c] = use[c]
  BY <1>1, <1>2 DEF Free
<1>4. Queued' = Queued /\ \A c : Ids(c)' = Ids(c)
  BY <1>1, IdsSame
<1>5. HomeOrOwed(H)' /\ TopIsLast(H)' /\ EndsRight(H)'
  BY <1>1, OwedSame DEF Active
<1>6. ASSUME NEW t, Last(H, b, t)
      PROVE  b \in trans'.revoke /\ (b \in trans.bufs => t.id \in Ids(b))
  BY <1>1, <1>6, NothingLogged
<1>7. OnlyMetadata(H)'
  <2> SUFFICES ASSUME NEW c \in Blocks, NEW t, Last(H, c, t),
                      saved[c] # "meta" \/ (use'[c] # "meta" /\ c \notin trans'.revoke)
               PROVE  FALSE
    BY <1>1 DEF OnlyMetadata, Last, Live
  <2>1. saved[c] = "meta"
    BY DEF AInv, OnlyMetadata
  <2>2. c # b
    BY <1>6, <2>1
  <2>3. use[c] # "meta" /\ c \notin trans.revoke
    BY <1>1, <1>3, <2>1, <2>2
  <2> QED BY <2>3 DEF AInv, OnlyMetadata
<1>8. BufferOrDone'
  <2> SUFFICES ASSUME NEW c \in Blocks, c \notin trans'.revoke, buf'[c] = None
               PROVE  Ids(c)' = {}
    BY DEF BufferOrDone
  <2>1. c # Bitmap /\ c \notin trans.revoke
    BY <1>1, <1>2, <1>3
  <2>2. CASE c = b
    BY <1>1, <1>4, <1>6, <2>2, OwedIsLast
  <2>3. CASE c # b
    BY <1>1, <1>3, <1>4, <2>1, <2>3, NothingOwed
  <2> QED BY <2>2, <2>3
<1>9. RecordIsLast(H)'
  <2> SUFFICES ASSUME NEW c \in Blocks, NEW t, Last(H, c, t), t.id \in Queued', c \notin trans'.bufs
               PROVE  rec'[c] = t.id
    BY DEF RecordIsLast, Last, Live
  <2> QED BY <1>1, <1>3, <1>4 DEF AInv, RecordIsLast
<1>10. FreedIsOwed(H)'
  <2> SUFFICES ASSUME NEW c \in trans'.bufs, buf'[c] = None, NEW t, Last(H, c, t), t.id \in Queued'
               PROVE  t.id \in Ids(c)'
    BY DEF FreedIsOwed, Last, Live
  <2>1. c \in trans.bufs /\ c # Bitmap /\ c \in Blocks
    BY <1>1, <1>2, <1>3
  <2>2. CASE c = b
    BY <1>4, <1>6, <2>1, <2>2
  <2>3. CASE c # b
    BY <1>1, <1>3, <1>4, <2>1, <2>3 DEF AInv, FreedIsOwed
  <2> QED BY <2>2, <2>3
<1> QED BY <1>5, <1>7, <1>8, <1>9, <1>10 DEF AInv

\* A transaction is not, or not yet, to be logged: the block records of the
\* buffers it gives up are those of the newest that has yet to write them.
LEMMA GivenUpOwes ==
    ASSUME NEW H, Known(H), AInv(H), pc = "run", pc' \in {"idle", "alloc"},
           UNCHANGED <<home, cp_queue, ending, saved>>, ending = NotEnding,
           trans'.bufs \subseteq trans.bufs, trans'.revoke \subseteq trans.revoke,
           \A b \in Blocks : rec'[b] = IF b \in trans.bufs \ trans'.bufs THEN NewestId(b) ELSE rec[b],
           \A b \in trans.bufs \ trans'.bufs : \A t :
               Last(H, b, t) /\ t.id \in Queued => Ids(b) # {},
           \A b \in Blocks : saved[b] = "meta" /\ use'[b] # "meta" /\ b \notin trans'.revoke
               => use[b] # "meta" /\ b \notin trans.revoke,
           \A b \in Blocks : b \notin trans'.revoke /\ buf'[b] = None => Ids(b) = {}
    PROVE  AInv(H)'
<1>1. HomeOrOwed(H)' /\ TopIsLast(H)' /\ EndsRight(H)'
  BY OwedSame DEF Active
<1>2. Queued' = Queued /\ \A c : Ids(c)' = Ids(c)
  BY IdsSame
<1>3. OnlyMetadata(H)'
  <2> SUFFICES ASSUME NEW b \in Blocks, NEW t, Last(H, b, t),
                      saved[b] # "meta" \/ (use'[b] # "meta" /\ b \notin trans'.revoke)
               PROVE  FALSE
    BY DEF OnlyMetadata, Last, Live
  <2>1. saved[b] = "meta"
    BY DEF AInv, OnlyMetadata
  <2>2. use[b] # "meta" /\ b \notin trans.revoke
    BY <2>1
  <2> QED BY <2>2 DEF AInv, OnlyMetadata
<1>4. BufferOrDone'
  BY <1>2 DEF BufferOrDone
<1>5. RecordIsLast(H)'
  <2> SUFFICES ASSUME NEW b \in Blocks, NEW t, Last(H, b, t), t.id \in Queued, b \notin trans'.bufs
               PROVE  rec'[b] = t.id
    BY <1>2 DEF RecordIsLast, Last, Live
  <2>1. CASE b \in trans.bufs
    <3>1. Ids(b) # {}
      BY <2>1
    <3>2. PICK u : Last(H, b, u) /\ u.id = NewestId(b)
      BY <3>1, OwedIsLast
    <3>3. u = t
      BY <3>2, LastUnique, RowIds DEF Active
    <3> QED BY <2>1, <3>2, <3>3
  <2>2. CASE b \notin trans.bufs
    BY <2>2 DEF AInv, RecordIsLast
  <2> QED BY <2>1, <2>2
<1>6. FreedIsOwed(H)'
  BY DEF FreedIsOwed
<1> QED BY <1>1, <1>3, <1>4, <1>5, <1>6 DEF AInv

LEMMA AbortOwes ==
    ASSUME "forgotten" \notin Triggers, "rollback" \notin Triggers,
           NEW H, Known(H), AInv(H), Abort
    PROVE  AInv(H)'
<1>1. /\ pc = "run" /\ pc' = "idle" /\ Quiet /\ UNCHANGED <<home, cp_queue, ending, saved>>
      /\ ending = NotEnding /\ trans'.bufs = {} /\ trans'.revoke = {} /\ use' = saved
  BY DEF Abort, Quiet, disk, ghost, NoTrans
<1>2. \A b : Ids(b) = {} <=> Pending(b) = {}
  BY IdsAre DEF Known, Base, IInv, Typed
<1>3. \A b \in Blocks : rec'[b] = IF b \in trans.bufs \ trans'.bufs THEN NewestId(b) ELSE rec[b]
  BY <1>1 DEF Abort
<1>4. ASSUME NEW b \in trans.bufs \ trans'.bufs, NEW t, Last(H, b, t), t.id \in Queued
      PROVE  Ids(b) # {}
  <2>1. b \in Blocks /\ ~LoggedOnly(b)
    BY DEF Abort, Known, Base, IInv, Typed, Transactions
  <2> QED BY <1>1, <1>4, <2>1, NothingLogged
<1>5. ASSUME NEW b \in Blocks, buf'[b] = None
      PROVE  Ids(b) = {}
  <2>1. CASE b \in trans.bufs
    <3>1. Restored(b) = None
      BY <1>5, <2>1 DEF Abort
    <3> SUFFICES ASSUME Ids(b) # {} PROVE FALSE
      OBVIOUS
    <3>2. Pending(b) # {}
      BY <1>2
    <3> DEFINE i == Newest(b)
    <3>3. i \in 1..Len(cp_queue) /\ b \in cp_queue[i].bufs
      BY <3>2, NewestIs DEF Known, Base, IInv, Typed, IsNewest, Pending
    <3>4. log[cp_queue[i].lba[b]] = Data(cp_queue[i].n)
      BY <3>3 DEF Known, Base, IInv, QueueInRing, InRing, Logged
    <3>5. cp_queue[i] \in Transactions
      BY <3>3, ElementOfSeq DEF Known, Base, IInv, Typed
    <3>6. Restored(b) = cp_queue[i].n
      BY <3>2, <3>4 DEF Restored, Data
    <3> QED BY <3>1, <3>5, <3>6, BitmapAssumption DEF Transactions
  <2>2. CASE b \notin trans.bufs
    <3>1. buf[b] = None
      BY <1>5, <2>2 DEF Abort
    <3>2. CASE b \in trans.revoke
      BY <1>2, <2>2, <3>2 DEF Abort
    <3>3. CASE b \notin trans.revoke
      BY <1>1, <3>1, <3>3, NothingOwed
    <3> QED BY <3>2, <3>3
  <2> QED BY <2>1, <2>2
<1> QED BY <1>1, <1>3, <1>4, <1>5, GivenUpOwes

LEMMA CommitBeginOwes ==
    ASSUME NEW H, Known(H), AInv(H), CommitBegin
    PROVE  AInv(H)'
<1> DEFINE dropped == {b \in trans.bufs : buf[b] = None}
<1>1. /\ pc = "run" /\ pc' \in {"idle", "alloc"} /\ ending = NotEnding
      /\ UNCHANGED <<home, cp_queue, ending, saved, use, buf>>
      /\ \A b \in Blocks : rec'[b] = IF b \in dropped THEN NewestId(b) ELSE rec[b]
      /\ IF trans.bufs \ dropped = {}
           THEN trans' = NoTrans
           ELSE trans' = [trans EXCEPT !.bufs = @ \ dropped]
  BY DEF CommitBegin, Quiet, disk, ghost
<1>2. trans \in Transactions /\ trans.bufs \subseteq Blocks /\ trans.n # None
  BY BitmapAssumption DEF Known, Base, IInv, Typed, Transactions
<1>3. trans'.bufs = trans.bufs \ dropped
  <2>1. CASE trans.bufs \ dropped = {}
    BY <1>1, <2>1 DEF NoTrans
  <2>2. CASE trans.bufs \ dropped # {}
    <3> HIDE DEF dropped
    <3> QED BY <1>1, <1>2, <2>2 DEF Transactions
  <2> QED BY <2>1, <2>2
<1>4. trans'.revoke = trans.revoke
  <2>1. CASE trans.bufs \ dropped = {}
    <3>1. Bitmap \notin trans.bufs
      BY <1>2, <2>1 DEF Known, Base, Usage
    <3>2. trans.revoke = {}
      BY <3>1 DEF Known, Base, Usage
    <3> QED BY <1>1, <2>1, <3>2 DEF NoTrans
  <2>2. CASE trans.bufs \ dropped # {}
    <3> HIDE DEF dropped
    <3> QED BY <1>1, <1>2, <2>2 DEF Transactions
  <2> QED BY <2>1, <2>2
<1>5. trans.bufs \ trans'.bufs = dropped
  BY <1>3
<1>6. \A b \in trans.bufs \ trans'.bufs : \A t : Last(H, b, t) /\ t.id \in Queued => Ids(b) # {}
  BY <1>1, <1>5 DEF AInv, FreedIsOwed
<1>7. \A b \in Blocks : b \notin trans'.revoke /\ buf'[b] = None => Ids(b) = {}
  BY <1>1, <1>4, NothingOwed
<1>8. \A b \in Blocks : rec'[b] = IF b \in trans.bufs \ trans'.bufs THEN NewestId(b) ELSE rec[b]
  BY <1>1, <1>5
<1> HIDE DEF dropped
<1> QED BY <1>1, <1>3, <1>4, <1>6, <1>7, <1>8, GivenUpOwes

LEMMA CallersOwe ==
    ASSUME "forgotten" \notin Triggers, "rollback" \notin Triggers,
           NEW H, Known(H), AInv(H), CallerStep
    PROVE  AInv(H)'
<1>1. CASE Begin
  <2>1. /\ pc = "idle" /\ pc' = "run" /\ UNCHANGED <<home, cp_queue, ending, saved, use, buf, rec>>
        /\ ending = NotEnding /\ trans'.bufs = {} /\ trans'.revoke = {}
    BY <1>1 DEF Begin, Quiet, disk, session, NoTrans
  <2>2. trans.bufs = {} /\ trans.revoke = {}
    BY <2>1 DEF Known, Base, NInv, NoneRunning, Running, Building
  <2>3. HomeOrOwed(H)' /\ TopIsLast(H)' /\ EndsRight(H)'
    BY <2>1, OwedSame DEF Active
  <2>4. Queued' = Queued /\ \A c : Ids(c)' = Ids(c)
    BY <2>1, IdsSame
  <2>5. OnlyMetadata(H)'
    BY <2>1, <2>2 DEF AInv, OnlyMetadata, Last, Live
  <2>6. BufferOrDone'
    BY <2>1, <2>2, <2>4 DEF AInv, BufferOrDone
  <2>7. RecordIsLast(H)'
    BY <2>1, <2>2, <2>4 DEF AInv, RecordIsLast, Last, Live
  <2>8. FreedIsOwed(H)'
    BY <2>1 DEF FreedIsOwed
  <2> QED BY <2>3, <2>5, <2>6, <2>7, <2>8 DEF AInv
<1> QED BY <1>1, AbortOwes, CommitBeginOwes, DirtyOwes, FreeOwes DEF CallerStep

-----------------------------------------------------------------------------
(* The commit.                                                             *)

\* What is written to the log, or to its superblock, concerns none of this.
LEMMA Unconcerned ==
    ASSUME NEW H, AInv(H), UNCHANGED <<home, cp_queue, ending, rec, buf, use, saved>>,
           trans'.bufs = trans.bufs, trans'.revoke = trans.revoke,
           \/ pc' = pc /\ trans' = trans
           \/ pc # "revoked" /\ pc' \notin {"revoked", "run"} /\ pc \in Active
    PROVE  AInv(H)'
<1>1. Queued' = Queued /\ \A b : Ids(b)' = Ids(b) /\ \A q : Top(b, q)' <=> Top(b, q)
  BY IdsSame
<1>2. HomeOrOwed(H)'
  BY <1>1 DEF AInv, HomeOrOwed, Last, Live
<1>3. TopIsLast(H)'
  BY <1>1 DEF AInv, TopIsLast, Last, Live
<1>4. OnlyMetadata(H)'
  BY DEF AInv, OnlyMetadata, Last, Live
<1>5. BufferOrDone'
  BY <1>1 DEF AInv, BufferOrDone
<1>6. EndsRight(H)'
  <2> SUFFICES ASSUME ending # NotEnding
               PROVE  EndsRight(H)'
    BY DEF EndsRight
  <2> DEFINE e == ending.block
  <2>1. \A t : Last(H, e, t)' <=> Last(H, e, t)
    BY DEF Last, Live
  <2>2. /\ \A t : Last(H, e, t) /\ t.id = ending.id => home[e] = t.n
        /\ Top(e, ending.id) => Ids(e) = {ending.id} \/ (pc = "revoked" /\ e \in trans.revoke)
        /\ pc = "run" => e \notin trans.bufs
    BY DEF AInv, EndsRight
  <2>3. \A q : Top(e, q)' <=> Top(e, q)
    BY <1>1
  <2>4. Ids(e)' = Ids(e)
    BY <1>1
  <2> QED BY <2>1, <2>2, <2>3, <2>4 DEF EndsRight
<1>7. RecordIsLast(H)'
  BY <1>1 DEF AInv, RecordIsLast, Last, Live
<1>8. FreedIsOwed(H)'
  BY <1>1 DEF AInv, FreedIsOwed, Last, Live
<1> QED BY <1>2, <1>3, <1>4, <1>5, <1>6, <1>7, <1>8 DEF AInv

\* What the transaction that is about to be committed, or has been, has logged,
\* and what it revokes
LEMMA LoggedAre ==
    ASSUME NEW H, Known(H), pc \in {"commit", "revoked"}
    PROVE  /\ \A b \in Blocks : trans.lba[b] # 0 <=> b \in trans.bufs
           /\ \A b \in trans.bufs : /\ buf[b] = trans.n /\ buf[b] # None /\ rec[b] = trans.id
                                    /\ use[b] = "meta" /\ b \notin trans.revoke /\ b \in Blocks
           /\ trans \in Transactions /\ trans.id \in Nat
<1>1. /\ Unlogged = {} /\ Running /\ Building /\ Tagged(trans.lba) \subseteq trans.bufs
      /\ trans \in Transactions
  BY DEF Known, Base, IInv, Typed, TransInRing, FInv, Formed, Running, Building
<1>2. trans.n # None /\ trans.bufs \subseteq Blocks /\ trans.id \in Nat
  BY <1>1, BitmapAssumption DEF Transactions
<1>3. \A b \in Blocks : trans.lba[b] # 0 <=> b \in trans.bufs
  BY <1>1, <1>2 DEF Unlogged, Tagged
<1>4. \A b \in trans.bufs : buf[b] = trans.n /\ rec[b] = trans.id
  BY <1>1 DEF Known, Base, IInv, BufsOwned
<1>5. \A b \in trans.bufs : use[b] = "meta"
  BY <1>2, <1>4 DEF Known, Base, Usage
<1>6. \A b \in trans.bufs : b \notin trans.revoke
  BY <1>5 DEF Known, Base, Usage
<1> QED BY <1>1, <1>2, <1>3, <1>4, <1>5, <1>6

\* The commit block makes what the transaction has dirtied the last of the row,
\* and takes out what it revokes.
LEMMA LogCommitOwes ==
    ASSUME NEW H, Known(H), AInv(H), LogCommit, NEW G, G = Append(H, trans')
    PROVE  AInv(G)'
<1>1. /\ pc = "commit" /\ pc' = "revoked" /\ UNCHANGED <<home, cp_queue, rec, ending, buf, use>>
      /\ saved' = use /\ Quiet /\ ending = NotEnding /\ pc \in Active
  BY DEF LogCommit, Quiet, Active, Committing
<1>2. H \in Seq(Transactions)
  BY <1>1, QuietStart DEF Known, Base, OwnTypes
<1>3. /\ trans' \in Transactions /\ trans'.lba = trans.lba /\ trans'.revoke = trans.revoke
      /\ trans'.bufs = trans.bufs
  BY CommitWrites DEF Known, Base, OwnTypes
<1>4. \A b \in Blocks : \A t :
        Last(G, b, t) <=> b \notin trans.revoke /\ IF b \in trans.bufs THEN t = trans' ELSE Last(H, b, t)
  BY <1>1, <1>2, <1>3, LastAppend, LoggedAre
<1>5. Queued' = Queued /\ \A b : Ids(b)' = Ids(b) /\ \A q : Top(b, q)' <=> Top(b, q)
  BY <1>1, IdsSame
<1>6. HomeOrOwed(G)'
  <2> SUFFICES ASSUME NEW b \in Blocks, NEW t, Last(G, b, t)
               PROVE  home'[b] = t.n \/ t.id \in Ids(b)' \/ t = trans'
    BY <1>1 DEF HomeOrOwed, Last, Live
  <2> QED BY <1>1, <1>4, <1>5 DEF AInv, HomeOrOwed
<1>7. TopIsLast(G)'
  <2> SUFFICES ASSUME NEW b \in Blocks, NEW q, Top(b, q),
                      b \notin trans.bufs, b \notin trans.revoke
               PROVE  \E t : Last(G, b, t) /\ t.id = q
    BY <1>1, <1>3, <1>5 DEF TopIsLast, Last, Live
  <2> QED BY <1>1, <1>4 DEF AInv, TopIsLast
<1>8. OnlyMetadata(G)'
  <2> SUFFICES ASSUME NEW b \in Blocks, use[b] # "meta", NEW t, Last(G, b, t)
               PROVE  FALSE
    BY <1>1 DEF OnlyMetadata, Last, Live
  <2>1. b \notin trans.revoke /\ b \notin trans.bufs
    BY <1>1, <1>4, LoggedAre
  <2> QED BY <1>4, <2>1 DEF AInv, OnlyMetadata
<1>9. BufferOrDone'
  BY <1>1, <1>3, <1>5 DEF AInv, BufferOrDone
<1>10. EndsRight(G)'
  BY <1>1 DEF EndsRight
<1>11. RecordIsLast(G)'
  <2> SUFFICES ASSUME NEW b \in Blocks, NEW t, Last(G, b, t), t.id \in Queued, b \notin trans.bufs
               PROVE  rec[b] = t.id
    BY <1>1, <1>3, <1>5 DEF RecordIsLast, Last, Live
  <2> QED BY <1>4 DEF AInv, RecordIsLast
<1>12. FreedIsOwed(G)'
  BY <1>1 DEF FreedIsOwed
<1> QED BY <1>6, <1>7, <1>8, <1>9, <1>10, <1>11, <1>12 DEF AInv

\* What the transaction about to join the queue has logged is the last that is
\* committed, and there is none of what it revokes.
LEMMA JoiningIsLast ==
    ASSUME NEW H, Known(H), pc = "revoked", NEW b \in Blocks
    PROVE  /\ b \in trans.bufs => Last(H, b, trans)
           /\ b \in trans.revoke => \A t : ~Last(H, b, t)
           /\ \A t : Last(H, b, t) /\ t.id = trans.id => t = trans
<1> DEFINE n == Len(H)
<1>1. jsb \in SuperBlocks /\ Laid(H, log, jsb) /\ n > 0 /\ H[n] = trans
  BY DEF Known, Base, OwnTypes, LInv, SessionInv, DiskInv, Active, Committing
<1>2. H \in Seq(Transactions) /\ n \in Nat
  BY <1>1, LenProperties DEF Laid
<1>3. \A k \in 1..n : H[k].id = jsb.sequence + k - 1
  BY <1>1, LaidFacts
<1>4. jsb.sequence \in Nat
  BY <1>1 DEF SuperBlocks
<1>5. ASSUME b \in trans.bufs
      PROVE  Last(H, b, trans)
  <2>1. trans.lba[b] # 0 /\ b \notin trans.revoke
    BY <1>5, LoggedAre
  <2>2. Live(H, b, n)
    BY <1>1, <1>2, <2>1 DEF Live
  <2> QED BY <1>1, <1>2, <2>2 DEF Last
<1>6. ASSUME b \in trans.revoke, NEW t, Last(H, b, t)
      PROVE  FALSE
  <2>1. PICK i \in 1..n : Live(H, b, i)
    BY <1>6 DEF Last
  <2>2. n \in i..n
    BY <1>2, <2>1
  <2> QED BY <1>1, <1>6, <2>1, <2>2 DEF Live
<1>7. ASSUME NEW t, Last(H, b, t), t.id = trans.id
      PROVE  t = trans
  <2>1. PICK i \in 1..n : t = H[i]
    BY <1>7 DEF Last
  <2>2. H[i].id = jsb.sequence + i - 1 /\ H[n].id = jsb.sequence + n - 1
    BY <1>1, <1>2, <1>3
  <2>3. i = n
    BY <1>1, <1>2, <1>4, <1>7, <2>1, <2>2
  <2> QED BY <1>1, <2>1, <2>3
<1> QED BY <1>5, <1>6, <1>7

LEMMA EnqueueOwes ==
    ASSUME NEW H, Known(H), AInv(H), Enqueue
    PROVE  AInv(H)'
<1>1. /\ pc = "revoked" /\ pc' = "idle" /\ UNCHANGED <<home, rec, ending, buf, use, saved>>
      /\ ending = NotEnding /\ trans'.bufs = {} /\ trans'.revoke = {}
      /\ pc \in Active /\ Running
  BY DEF Enqueue, Quiet, disk, ghost, NoTrans, Active, Committing, Running, Building
<1>2. /\ Queued' = Queued \cup {trans.id}
      /\ \A c : Ids(c)' = IF c \in trans.bufs THEN Ids(c) \cup {trans.id} ELSE Ids(c)
  BY EnqueueIds DEF Known, Base
<1>3. \A b \in trans.revoke : Ids(b) = {}
  BY IdsAre DEF Known, Base, IInv, Typed, Enqueue
<1>4. \A b \in trans.bufs : b \in Blocks /\ b \notin trans.revoke /\ buf[b] # None /\ rec[b] = trans.id
  BY <1>1, LoggedAre
<1>5. trans.id \in Nat /\ Queued \subseteq Nat /\ \A q \in Queued : q < trans.id
  <2>1. Queued \subseteq Nat /\ trans.id \in Nat
    BY <1>1, IdsAre, LoggedAre DEF Known, Base, IInv, Typed
  <2> QED BY <1>1, <2>1 DEF Known, Base, IInv, IdsGrow, Queued
<1>6. HomeOrOwed(H)'
  <2> SUFFICES ASSUME NEW b \in Blocks, NEW t, Last(H, b, t)
               PROVE  home[b] = t.n \/ t.id \in Ids(b)'
    BY <1>1 DEF HomeOrOwed, Last, Live
  <2>1. home[b] = t.n \/ t.id \in Ids(b) \/ t = trans
    BY <1>1 DEF AInv, HomeOrOwed
  <2>2. CASE t = trans
    <3>1. b \in trans.bufs
      BY <1>1, <2>2, LoggedAre, RowIds
    <3> QED BY <1>2, <2>2, <3>1
  <2> QED BY <1>2, <2>1, <2>2
<1>7. TopIsLast(H)'
  <2> SUFFICES ASSUME NEW b \in Blocks, NEW q \in Ids(b)', \A p \in Ids(b)' : p <= q
               PROVE  \E t : Last(H, b, t) /\ t.id = q
    BY DEF TopIsLast, Top, Last, Live
  <2>1. CASE b \in trans.bufs
    <3>1. trans.id <= q /\ (q \in Queued \/ q = trans.id)
      BY <1>2, <2>1, IdsAre DEF Known, Base, IInv, Typed
    <3>2. q = trans.id
      <4> SUFFICES ASSUME q \in Queued PROVE FALSE
        BY <3>1
      <4>1. q < trans.id /\ q \in Nat /\ trans.id \in Nat
        BY <1>5
      <4> QED BY <3>1, <4>1
    <3> QED BY <1>1, <2>1, <3>2, JoiningIsLast
  <2>2. CASE b \notin trans.bufs
    <3>1. Top(b, q) /\ b \notin trans.revoke
      BY <1>2, <1>3, <2>2 DEF Top
    <3> QED BY <2>2, <3>1 DEF AInv, TopIsLast
  <2> QED BY <2>1, <2>2
<1>8. OnlyMetadata(H)'
  <2>1. use = saved
    BY <1>1 DEF Known, Base, Usage, Open
  <2> QED BY <1>1, <2>1 DEF AInv, OnlyMetadata, Last, Live
<1>9. BufferOrDone'
  <2> SUFFICES ASSUME NEW b \in Blocks, buf[b] = None
               PROVE  Ids(b)' = {}
    BY <1>1 DEF BufferOrDone
  <2>1. Ids(b)' = Ids(b)
    BY <1>2, <1>4
  <2> QED BY <1>1, <1>3, <2>1, NothingOwed
<1>10. EndsRight(H)'
  BY <1>1 DEF EndsRight
<1>11. RecordIsLast(H)'
  <2> SUFFICES ASSUME NEW b \in Blocks, NEW t, Last(H, b, t), t.id \in Queued \/ t.id = trans.id
               PROVE  rec[b] = t.id
    BY <1>1, <1>2 DEF RecordIsLast, Last, Live
  <2>1. CASE b \in trans.bufs
    <3>1. Last(H, b, trans)
      BY <1>1, <2>1, JoiningIsLast
    <3>2. t = trans
      BY <1>1, <3>1, LastUnique, RowIds
    <3> QED BY <1>4, <2>1, <3>2
  <2>2. CASE b \notin trans.bufs
    <3>1. t.id # trans.id
      BY <1>1, <2>2, JoiningIsLast, LoggedAre, RowIds
    <3> QED BY <2>2, <3>1 DEF AInv, RecordIsLast
  <2> QED BY <2>1, <2>2
<1>12. FreedIsOwed(H)'
  BY <1>1 DEF FreedIsOwed
<1> QED BY <1>6, <1>7, <1>8, <1>9, <1>10, <1>11, <1>12 DEF AInv

\* The write of a revoked block is called off.
LEMMA RevokedOwes ==
    ASSUME NEW H, Known(H), AInv(H), NEW b \in Blocks, CompleteRevoked(b)
    PROVE  AInv(H)'
<1>1. /\ pc = "revoked" /\ pc' = pc /\ UNCHANGED <<home, rec, buf, use, saved, trans>>
      /\ ending = NotEnding /\ b \in trans.revoke
  BY DEF CompleteRevoked, Quiet, disk, ghost
<1>2. /\ Queued' = Queued /\ \A c : c # b => Ids(c)' = Ids(c)
      /\ ending'.block = b
  BY EndWriteIds DEF Known, Base, CompleteRevoked
<1>3. \A t : ~Last(H, b, t)
  BY <1>1, JoiningIsLast
<1>4. HomeOrOwed(H)'
  <2> SUFFICES ASSUME NEW c \in Blocks, NEW t, Last(H, c, t)
               PROVE  home[c] = t.n \/ t.id \in Ids(c)' \/ t = trans
    BY <1>1 DEF HomeOrOwed, Last, Live
  <2> QED BY <1>1, <1>2, <1>3 DEF AInv, HomeOrOwed, Active, Committing
<1>5. TopIsLast(H)'
  <2> SUFFICES ASSUME NEW c \in Blocks, NEW q \in Ids(c)', \A p \in Ids(c)' : p <= q,
                      c \notin trans.bufs, c \notin trans.revoke
               PROVE  \E t : Last(H, c, t) /\ t.id = q
    BY <1>1 DEF TopIsLast, Top, Last, Live
  <2>1. Top(c, q)
    BY <1>1, <1>2 DEF Top
  <2> QED BY <2>1 DEF AInv, TopIsLast
<1>6. OnlyMetadata(H)'
  BY <1>1 DEF AInv, OnlyMetadata, Last, Live
<1>7. BufferOrDone'
  <2> SUFFICES ASSUME NEW c \in Blocks, c \notin trans.revoke, buf[c] = None
               PROVE  Ids(c)' = {}
    BY <1>1 DEF BufferOrDone
  <2> QED BY <1>1, <1>2, NothingOwed
<1>8. EndsRight(H)'
  <2>1. /\ \A t : ~Last(H, ending'.block, t) /\ ending'.block \in trans'.revoke
        /\ pc' = "revoked" /\ pc' # "run"
    BY <1>1, <1>2, <1>3
  <2> QED BY <2>1 DEF EndsRight, Last, Live
<1>9. RecordIsLast(H)'
  BY <1>1, <1>2 DEF AInv, RecordIsLast, Last, Live
<1>10. FreedIsOwed(H)'
  BY <1>1 DEF FreedIsOwed
<1> QED BY <1>4, <1>5, <1>6, <1>7, <1>8, <1>9, <1>10 DEF AInv

LEMMA WritesAreUnconcerned ==
    ASSUME NEW H, Known(H), AInv(H), CommitStep, ~LogCommit, ~Enqueue,
           \A b \in Blocks : ~CompleteRevoked(b)
    PROVE  AInv(H)'
<1>1. /\ UNCHANGED <<home, cp_queue, ending, rec, buf, use, saved>>
      /\ pc \in {"alloc", "data", "revoke"} /\ pc' \in {"data", "revoke", "commit"}
  BY DEF CommitStep, AllocDescriptor, LogDescriptor, LogRevoke, LogData, disk, session, ghost
<1>2. trans'.bufs = trans.bufs /\ trans'.revoke = trans.revoke
  <2> USE DEF Known, Base, IInv, Typed, Transactions
  <2>1. CASE AllocDescriptor
    BY <2>1 DEF AllocDescriptor
  <2>2. CASE LogDescriptor \/ LogRevoke
    BY <2>2 DEF LogDescriptor, LogRevoke
  <2>3. ASSUME NEW b \in Blocks, LogData(b)
        PROVE  trans'.bufs = trans.bufs /\ trans'.revoke = trans.revoke
    BY <2>3 DEF LogData
  <2> QED BY <2>1, <2>2, <2>3 DEF CommitStep
<1> QED BY <1>1, <1>2, Unconcerned DEF Active, Committing

LEMMA CommitsOwe ==
    ASSUME NEW H, Known(H), AInv(H), CommitStep, ~LogCommit
    PROVE  AInv(H)'
BY EnqueueOwes, RevokedOwes, WritesAreUnconcerned

-----------------------------------------------------------------------------
(* The checkpoint.                                                         *)

\* The content of b that the transaction id has logged is written home, and
\* jbd_trans_end_write is called for it.
LEMMA WrittenOwes ==
    ASSUME NEW H, Known(H), AInv(H), Quiet, pc \in Active, pc # "revoked", pc' = pc,
           NEW b \in Blocks, NEW id \in Ids(b), id # 0, EndWrite(id, b),
           UNCHANGED <<rec, use, saved, trans>>,
           NEW v, home' = [home EXCEPT ![b] = v],
           buf' = buf \/ buf' = [buf EXCEPT ![b] = None],
           \A t : Last(H, b, t) /\ t.id = id => v = t.n,
           rec[b] = id => NewestId(b) = id,
           NewestId(b) = id => Ids(b) = {id} \/ rec[b] = id,
           buf'[b] = None => rec[b] = id \/ b \in trans.revoke,
           pc = "run" => b \notin trans.bufs
    PROVE  AInv(H)'
<1>1. /\ Queued' = Queued /\ \A c : c # b => Ids(c)' = Ids(c)
      /\ Ids(b)' = IF rec[b] = id THEN Ids(b) \cap {id} ELSE Ids(b)
      /\ ending'.id = id /\ ending'.block = b
  BY EndWriteIds DEF Known, Base
<1>2. /\ home \in [Blocks -> Nat] /\ home'[b] = v /\ \A c \in Blocks : c # b => home'[c] = home[c]
      /\ DOMAIN buf = Blocks /\ \A c \in Blocks : c # b => buf'[c] = buf[c]
  BY DEF Known, Base, OwnTypes, IInv, Typed
<1>3. ending = NotEnding /\ NotEnding.id = 0 /\ ending' # NotEnding
  BY <1>1 DEF Quiet, NotEnding
<1>4. PICK u : Last(H, b, u) /\ u.id = NewestId(b) /\ u.id \in Ids(b)
  BY OwedIsLast
<1>5. \A t : Last(H, b, t) => t = u
  BY <1>4, LastUnique, RowIds
<1>6. rec[b] = id => u.id = id /\ Ids(b)' = {id}
  BY <1>1, <1>4
<1>7. HomeOrOwed(H)'
  <2> SUFFICES ASSUME NEW c \in Blocks, NEW t, Last(H, c, t)
               PROVE  home'[c] = t.n \/ t.id \in Ids(c)'
    BY DEF HomeOrOwed, Last, Live
  <2>1. CASE c # b
    BY <1>1, <1>2, <2>1 DEF AInv, HomeOrOwed
  <2>2. CASE c = b
    BY <1>1, <1>2, <1>4, <1>5, <1>6, <2>2
  <2> QED BY <2>1, <2>2
<1>8. TopIsLast(H)'
  <2> SUFFICES ASSUME NEW c \in Blocks, NEW q \in Ids(c)', \A p \in Ids(c)' : p <= q
               PROVE  \E t : Last(H, c, t) /\ t.id = q
    BY DEF TopIsLast, Top, Last, Live
  <2>1. CASE c = b /\ rec[b] = id
    BY <1>4, <1>6, <2>1
  <2>2. CASE c # b \/ rec[b] # id
    <3>1. Top(c, q)
      BY <1>1, <2>2 DEF Top
    <3> QED BY <3>1 DEF AInv, TopIsLast
  <2> QED BY <2>1, <2>2
<1>9. OnlyMetadata(H)'
  BY DEF AInv, OnlyMetadata, Last, Live
<1>10. BufferOrDone'
  <2> SUFFICES ASSUME NEW c \in Blocks, c \notin trans.revoke, buf'[c] = None, NEW q \in Ids(c)'
               PROVE  ending'.block = c /\ ending'.id = q
    BY <1>3 DEF BufferOrDone
  <2>1. CASE c = b
    BY <1>1, <1>6, <2>1
  <2>2. CASE c # b
    BY <1>1, <1>2, <1>3, <2>2, NothingOwed
  <2> QED BY <2>1, <2>2
<1>11. EndsRight(H)'
  <2>1. ASSUME NEW t, Last(H, b, t), t.id = id
        PROVE  home'[b] = t.n
    BY <1>2, <2>1
  <2>2. ASSUME \A p \in Ids(b)' : p <= id
        PROVE  Ids(b)' = {id}
    <3>1. CASE rec[b] = id
      BY <1>6, <3>1
    <3>2. CASE rec[b] # id
      <4>1. Top(b, id)
        BY <1>1, <2>2, <3>2 DEF Top
      <4>2. PICK t : Last(H, b, t) /\ t.id = id
        BY <4>1 DEF AInv, TopIsLast
      <4>3. NewestId(b) = id
        BY <1>4, <1>5, <4>2
      <4> QED BY <1>1, <3>2, <4>3
    <3> QED BY <3>1, <3>2
  <2> DEFINE e == ending'.block
  <2>3. e = b /\ ending'.id = id
    BY <1>1
  <2>4. /\ \A t : Last(H, e, t) /\ t.id = ending'.id => home'[e] = t.n
        /\ (ending'.id \in Ids(b)' /\ \A p \in Ids(b)' : p <= ending'.id) => Ids(b)' = {ending'.id}
        /\ pc = "run" => e \notin trans.bufs
    BY <2>1, <2>2, <2>3
  <2> QED BY <2>3, <2>4 DEF EndsRight, Top, Last, Live
<1>12. RecordIsLast(H)'
  BY <1>1 DEF AInv, RecordIsLast, Last, Live
<1>13. FreedIsOwed(H)'
  <2> SUFFICES ASSUME pc = "run", NEW c \in trans.bufs, buf'[c] = None,
                      NEW t, Last(H, c, t), t.id \in Queued
               PROVE  t.id \in Ids(c)'
    BY <1>1 DEF FreedIsOwed, Last, Live
  <2>1. c # b /\ c \in Blocks
    BY DEF Known, Base, IInv, Typed, Transactions
  <2> QED BY <1>1, <1>2, <2>1 DEF AInv, FreedIsOwed
<1> QED BY <1>7, <1>8, <1>9, <1>10, <1>11, <1>12, <1>13 DEF AInv

LEMMA FlushOwes ==
    ASSUME NEW H, Known(H), AInv(H), NEW b \in Blocks, Flush(b)
    PROVE  AInv(H)'
<1>1. /\ Quiet /\ pc # "revoked" /\ pc' = pc /\ buf[b] # None /\ b \notin trans.bufs
      /\ UNCHANGED <<rec, use, saved, trans>> /\ home' = [home EXCEPT ![b] = buf[b]]
      /\ buf' = [buf EXCEPT ![b] = None]
  BY DEF Flush, Referenced, ghost
<1>2. pc \in Active
  BY <1>1 DEF Known, Base, Usage
<1>3. PICK i \in 1..Len(cp_queue) : /\ IsNewest(b, i) /\ rec[b] = cp_queue[i].id
                                   /\ buf[b] = cp_queue[i].n
  BY <1>1 DEF Known, Base, NInv, Noticed
<1>4. rec[b] \in Ids(b) /\ NewestId(b) = rec[b]
  <2>1. Top(b, rec[b])
    BY <1>3, TopIs DEF Known, Base
  <2>2. Newest(b) = i /\ Pending(b) # {}
    BY <1>3, NewestIs DEF Known, Base, IInv, Typed
  <2> QED BY <1>3, <2>1, <2>2 DEF Top, NewestId
<1>5. PICK u : Last(H, b, u) /\ u.id = rec[b]
  BY <1>1, <1>4, OwedIsLast
<1>6. rec[b] # 0
  BY <1>2, <1>5, RowIds DEF Transactions
<1>7. EndWrite(rec[b], b)
  BY <1>6 DEF Flush
<1>8. \A t : Last(H, b, t) /\ t.id = rec[b] => buf[b] = t.n
  BY <1>2, <1>3, RowIds
<1> QED BY <1>1, <1>2, <1>4, <1>6, <1>7, <1>8, WrittenOwes

LEMMA FlushHeadOwes ==
    ASSUME NEW H, Known(H), AInv(H), MakeRoom, ~HeadWritten
    PROVE  AInv(H)'
<1>1. PICK b \in cp_queue[1].bufs : FlushHead(b)
  BY DEF MakeRoom
<1> DEFINE h == cp_queue[1]
<1>2. /\ Quiet /\ cp_queue # <<>> /\ pc \in {"stopping", "alloc", "data", "revoke", "commit"}
      /\ pc' = pc /\ UNCHANGED <<rec, use, saved, trans>> /\ pc \in Active
  BY <1>1 DEF MakeRoom, Cramped, FlushHead, ghost, Active, Committing
<1>3. /\ cp_queue \in Seq(Transactions) /\ 1 \in 1..Len(cp_queue) /\ h \in Transactions
  <2>1. cp_queue \in Seq(Transactions)
    BY DEF Known, Base, IInv, Typed
  <2>2. 1 \in 1..Len(cp_queue)
    BY <1>2, <2>1, EmptySeq, LenProperties
  <2> QED BY <2>1, <2>2, ElementOfSeq
<1>4. b \in Blocks /\ h.id \in Nat
  BY <1>1, <1>3 DEF Transactions
<1>5. h.id \in Ids(b)
  BY <1>1, <1>3, IdsAre DEF Ids
<1>6. PICK u : Last(H, b, u) /\ u.id = NewestId(b) /\ u.id \in Ids(b) /\ u.id \in Queued
  BY <1>2, <1>3, <1>4, <1>5, OwedIsLast, IdsAre
<1>7. \A q \in Queued : h.id <= q
  BY <1>3, IdsOrder DEF Known, Base, Queued
<1>8. rec[b] = h.id => NewestId(b) = h.id
  <2> SUFFICES ASSUME rec[b] = h.id PROVE NewestId(b) = h.id
    OBVIOUS
  <2>1. b \notin trans.bufs
    BY <1>2, <1>4, HeadNotOwn DEF Known, Base
  <2> QED BY <1>4, <1>6, <2>1 DEF AInv, RecordIsLast
<1>9. NewestId(b) = h.id => Ids(b) = {h.id}
  <2> SUFFICES ASSUME NewestId(b) = h.id, NEW q \in Ids(b)
               PROVE  q = h.id
    BY <1>5
  <2>1. Top(b, h.id) /\ q \in Queued /\ q \in Nat
    BY <1>3, <1>5, TopIs, IdsAre DEF Known, Base
  <2> QED BY <1>4, <1>7, <2>1 DEF Top
<1>10. h.id # 0
  <2> DEFINE d == Behind(H)
  <2>1. /\ jsb \in SuperBlocks /\ jsb.sequence > 0 /\ SameAs(h, H[1 + d]) /\ Laid(H, log, jsb)
        /\ d = 0
    BY <1>2, <1>3, QuietStart DEF Known, Base, OwnTypes, LInv, SessionInv
  <2>2. H \in Seq(Transactions) /\ Len(H) \in Nat /\ 1 \in 1..Len(H)
    <3>1. H \in Seq(Transactions) /\ Len(H) \in Nat /\ Len(cp_queue) \in Nat
      BY <1>3, <2>1, LenProperties DEF Laid
    <3> QED BY <1>2, <1>3, <2>1, <3>1 DEF Behind
  <2>3. H[1].id = jsb.sequence + 1 - 1
    BY <2>1, <2>2, LaidFacts
  <2>4. jsb.sequence \in Nat
    BY <2>1 DEF SuperBlocks
  <2> QED BY <2>1, <2>3, <2>4 DEF SameAs
<1> DEFINE mine == buf[b] # None /\ rec[b] = h.id
           v == IF mine THEN buf[b] ELSE log[h.lba[b]].val
<1>11. /\ home' = [home EXCEPT ![b] = v] /\ EndWrite(h.id, b)
       /\ buf' = IF mine THEN [buf EXCEPT ![b] = None] ELSE buf
  BY <1>1 DEF FlushHead
<1>12. v = h.n
  <2>1. CASE mine
    <3>1. b \notin trans.bufs
      BY <1>2, <1>4, <2>1, HeadNotOwn DEF Known, Base
    <3>2. PICK i \in 1..Len(cp_queue) : h.id = cp_queue[i].id /\ buf[b] = cp_queue[i].n
      BY <1>4, <2>1, <3>1 DEF Known, Base, NInv, Noticed
    <3>3. i = 1
      BY <1>3, <3>2, IdsOrder DEF Known, Base
    <3> QED BY <2>1, <3>2, <3>3
  <2>2. CASE ~mine
    <3>1. log[h.lba[b]] = Data(h.n)
      BY <1>1, <1>3 DEF Known, Base, IInv, QueueInRing, InRing, Logged
    <3> QED BY <2>2, <3>1 DEF Data
  <2> QED BY <2>1, <2>2
<1>13. \A t : Last(H, b, t) /\ t.id = h.id => v = t.n
  BY <1>2, <1>3, <1>12, RowIds
<1>14. buf'[b] = None => rec[b] = h.id \/ b \in trans.revoke
  <2>1. CASE mine
    BY <2>1
  <2>2. CASE ~mine
    BY <1>2, <1>4, <1>5, <1>11, <2>2, NothingOwed DEF Quiet
  <2> QED BY <2>1, <2>2
<1>15. buf' = buf \/ buf' = [buf EXCEPT ![b] = None]
  BY <1>11
<1> HIDE DEF v, mine, h
<1> QED BY <1>2, <1>4, <1>5, <1>8, <1>9, <1>10, <1>11, <1>13, <1>14, <1>15, WrittenOwes

\* The own jbd_buf of the transaction is done: what it wrote is home.
LEMMA EndWriteOwnOwes ==
    ASSUME NEW H, Known(H), AInv(H), EndWriteOwn, NEW e, e = ending.block, NEW q, q = ending.id
    PROVE  AInv(H)'
<1>1. /\ UNCHANGED <<home, pc, rec, trans, buf, use, saved>> /\ ending' = NotEnding
      /\ ending # NotEnding
  BY DEF EndWriteOwn, disk, ghost
<1>2. Queued' = Queued /\ (\A c : c # e => Ids(c)' = Ids(c)) /\ Ids(e)' = Ids(e) \ {q}
  BY EndWriteOwnIds DEF Known, Base
<1>3. /\ \A t : Last(H, e, t) /\ t.id = q => home[e] = t.n
      /\ Top(e, q) => Ids(e) = {q} \/ (pc = "revoked" /\ e \in trans.revoke)
      /\ pc = "run" => e \notin trans.bufs
  BY <1>1 DEF AInv, EndsRight
<1>4. HomeOrOwed(H)'
  <2> SUFFICES ASSUME pc \in Active, NEW b \in Blocks, NEW t, Last(H, b, t)
               PROVE  home[b] = t.n \/ t.id \in Ids(b)' \/ (pc = "revoked" /\ t = trans)
    BY <1>1 DEF HomeOrOwed, Last, Live
  <2>1. home[b] = t.n \/ t.id \in Ids(b) \/ (pc = "revoked" /\ t = trans)
    BY DEF AInv, HomeOrOwed
  <2> QED BY <1>2, <1>3, <2>1
<1>5. TopIsLast(H)'
  <2> SUFFICES ASSUME NEW b \in Blocks, NEW p \in Ids(b)', \A r \in Ids(b)' : r <= p,
                      ~(pc = "revoked" /\ (b \in trans.bufs \/ b \in trans.revoke))
               PROVE  \E t : Last(H, b, t) /\ t.id = p
    BY <1>1 DEF TopIsLast, Top, Last, Live
  <2>1. Top(b, p)
    <3>1. CASE b # e
      BY <1>2, <3>1 DEF Top
    <3>2. CASE b = e
      <4> SUFFICES ASSUME NEW r \in Ids(e), ~(r <= p)
                   PROVE  FALSE
        BY <1>2, <3>2 DEF Top
      <4>1. r = q /\ p \in Ids(e) /\ p # q
        BY <1>2, <3>2
      <4>2. Ids(e) \subseteq Nat
        BY IdsAre DEF Known, Base, IInv, Typed
      <4>3. \A s \in Ids(e) : s <= q
        <5> SUFFICES ASSUME NEW s \in Ids(e), s # q PROVE s <= q
          BY <4>1, <4>2
        <5>1. s <= p
          BY <1>2, <3>2
        <5> QED BY <4>1, <4>2, <5>1
      <4>4. Top(e, q)
        BY <4>1, <4>3 DEF Top
      <4> QED BY <1>3, <3>2, <4>1, <4>4
    <3> QED BY <3>1, <3>2
  <2> QED BY <2>1 DEF AInv, TopIsLast
<1>6. OnlyMetadata(H)'
  BY <1>1 DEF AInv, OnlyMetadata, Last, Live
<1>7. BufferOrDone'
  <2> SUFFICES ASSUME NEW b \in Blocks, b \notin trans.revoke, buf[b] = None
               PROVE  Ids(b)' = {}
    BY <1>1 DEF BufferOrDone
  <2> QED BY <1>2 DEF AInv, BufferOrDone
<1>8. EndsRight(H)'
  BY <1>1 DEF EndsRight
<1>9. RecordIsLast(H)'
  BY <1>1, <1>2 DEF AInv, RecordIsLast, Last, Live
<1>10. FreedIsOwed(H)'
  <2> SUFFICES ASSUME pc = "run", NEW b \in trans.bufs, buf[b] = None,
                      NEW t, Last(H, b, t), t.id \in Queued
               PROVE  t.id \in Ids(b)'
    BY <1>1, <1>2 DEF FreedIsOwed, Last, Live
  <2> QED BY <1>2, <1>3 DEF AInv, FreedIsOwed
<1> QED BY <1>4, <1>5, <1>6, <1>7, <1>8, <1>9, <1>10 DEF AInv

\* The block records of a head that is home are forgotten.
LEMMA DropHeadOwes ==
    ASSUME NEW H, Known(H), AInv(H), HeadWritten, DropHead,
           UNCHANGED <<home, pc, trans, buf, ending, use, saved>>
    PROVE  AInv(H)'
<1> DEFINE h == cp_queue[1].id
<1>1. (\A c : Ids(c)' = Ids(c)) /\ Queued' = Queued \ {h}
  BY DropHeadIds DEF Known, Base
<1>2. \A c : \A q : Top(c, q)' <=> Top(c, q)
  BY <1>1 DEF Top
<1>3. HomeOrOwed(H)'
  BY <1>1 DEF AInv, HomeOrOwed, Last, Live
<1>4. TopIsLast(H)'
  BY <1>2 DEF AInv, TopIsLast, Last, Live
<1>5. OnlyMetadata(H)'
  BY DEF AInv, OnlyMetadata, Last, Live
<1>6. BufferOrDone'
  BY <1>1 DEF AInv, BufferOrDone
<1>7. EndsRight(H)'
  <2> SUFFICES ASSUME ending # NotEnding
               PROVE  EndsRight(H)'
    BY DEF EndsRight
  <2> DEFINE e == ending.block
  <2>1. \A t : Last(H, e, t)' <=> Last(H, e, t)
    BY DEF Last, Live
  <2>2. /\ \A t : Last(H, e, t) /\ t.id = ending.id => home[e] = t.n
        /\ Top(e, ending.id) => Ids(e) = {ending.id} \/ (pc = "revoked" /\ e \in trans.revoke)
        /\ pc = "run" => e \notin trans.bufs
    BY DEF AInv, EndsRight
  <2>3. Ids(e)' = Ids(e) /\ \A q : Top(e, q)' <=> Top(e, q)
    BY <1>1, <1>2
  <2> QED BY <2>1, <2>2, <2>3 DEF EndsRight
<1>8. RecordIsLast(H)'
  <2> SUFFICES ASSUME NEW b \in Blocks, NEW t, Last(H, b, t), t.id \in Queued \ {h},
                      b \notin trans.bufs
               PROVE  rec'[b] = t.id
    BY <1>1 DEF RecordIsLast, Last, Live
  <2>1. rec[b] = t.id
    BY DEF AInv, RecordIsLast
  <2> QED BY <2>1 DEF DropHead
<1>9. FreedIsOwed(H)'
  BY <1>1 DEF AInv, FreedIsOwed, Last, Live
<1> QED BY <1>3, <1>4, <1>5, <1>6, <1>7, <1>8, <1>9 DEF AInv

\* The session is done with what the superblock moves over: it is home.
LEMMA DoneWith ==
    ASSUME NEW H, Known(H), AInv(H), pc \in Active
    PROVE  /\ H \in Seq(Transactions) /\ Behind(H) \in 0..Len(H)
           /\ \A b : \A t : Last(H, b, t) =>
                \/ Last(Rest(H, Behind(H)), b, t)
                \/ /\ t.id \notin Queued /\ \A u : ~Last(Rest(H, Behind(H)), b, u)
                   /\ b \in Blocks => home[b] = t.n
<1> DEFINE d == Behind(H)
           n == Len(H)
           m == Len(cp_queue)
           G == Rest(H, d)
<1>1. /\ cp_queue \in Seq(Transactions) /\ m \in Nat /\ jsb \in SuperBlocks /\ jsb.sequence \in Nat
      /\ jsb.start # 0 /\ d \in Nat /\ \A k \in 1..m : SameAs(cp_queue[k], H[k + d])
      /\ pc = "revoked" => H[n] = trans
  BY LenProperties DEF Known, Base, IInv, Typed, OwnTypes, LInv, SessionInv, SuperBlocks
<1>2. Laid(H, log, jsb)
  BY <1>1 DEF Known, Base, LInv, DiskInv
<1>3. H \in Seq(Transactions) /\ n \in Nat
  BY <1>2, LenProperties DEF Laid
<1>4. n = m + d + (IF pc = "revoked" THEN 1 ELSE 0)
  BY <1>1, <1>3 DEF Behind
<1>5. \A k \in 1..n : H[k].id = jsb.sequence + k - 1
  BY <1>1, <1>2, LaidFacts
<1> HIDE DEF d, n, m
<1>6. d \in 0..n
  BY <1>1, <1>3, <1>4
<1>7. ASSUME NEW b, NEW t, Last(H, b, t), ~Last(G, b, t)
      PROVE  /\ t.id \notin Queued /\ \A u : ~Last(G, b, u)
             /\ b \in Blocks => home[b] = t.n
  <2>1. PICK i \in 1..d : t = H[i]
    BY <1>3, <1>6, <1>7, LastRest DEF n
  <2>2. i \in 1..n /\ t.id = jsb.sequence + i - 1
    <3>1. i \in 1..n
      BY <1>3, <1>6, <2>1
    <3> QED BY <1>5, <2>1, <3>1
  <2>3. t.id \notin Queued
    <3> SUFFICES ASSUME NEW k \in 1..m, cp_queue[k].id = t.id
                 PROVE  FALSE
      BY DEF Queued, m
    <3>1. k + d \in 1..n /\ H[k + d].id = t.id
      BY <1>1, <1>3, <1>4 DEF SameAs
    <3>2. H[k + d].id = jsb.sequence + (k + d) - 1
      BY <1>5, <3>1
    <3> QED BY <1>1, <2>1, <2>2, <3>1, <3>2
  <2>4. ASSUME NEW u, Last(G, b, u)
        PROVE  FALSE
    BY <1>3, <1>6, <1>7, <2>4, LastRest, LastUnique DEF n
  <2>5. ~(pc = "revoked" /\ t = trans)
    <3> SUFFICES ASSUME pc = "revoked", t = H[n] PROVE FALSE
      BY <1>1
    <3>1. n \in 1..n /\ i < n
      BY <1>1, <1>3, <1>4, <2>1
    <3>2. t.id = jsb.sequence + n - 1
      BY <1>5, <3>1
    <3> QED BY <1>1, <1>3, <2>2, <3>1, <3>2
  <2>6. b \in Blocks => home[b] = t.n
    <3> SUFFICES ASSUME b \in Blocks PROVE home[b] = t.n
      OBVIOUS
    <3>1. t.id \notin Ids(b)
      BY <1>1, <2>3, IdsAre
    <3> QED BY <1>7, <2>5, <3>1 DEF AInv, HomeOrOwed
  <2> QED BY <2>3, <2>4, <2>6
<1> QED BY <1>3, <1>6, <1>7 DEF d, n

LEMMA WriteSbOwes ==
    ASSUME NEW H, Known(H), AInv(H), WriteSb, pc \in Active, NEW G, G = Rest(H, Behind(H))
    PROVE  AInv(G)'
<1>1. UNCHANGED <<home, cp_queue, pc, rec, ending, trans, buf, use, saved>>
  BY DEF WriteSb, ghost
<1>2. Queued' = Queued /\ \A b : Ids(b)' = Ids(b) /\ \A q : Top(b, q)' <=> Top(b, q)
  BY <1>1, IdsSame
<1>3. \A b, t : Last(G, b, t) => Last(H, b, t)
  BY DoneWith, LastRest
<1>4. \A b, t : Last(H, b, t) /\ t.id \in Queued => Last(G, b, t)
  BY DoneWith
<1>5. HomeOrOwed(G)'
  <2> SUFFICES ASSUME NEW b \in Blocks, NEW t, Last(G, b, t)
               PROVE  home[b] = t.n \/ t.id \in Ids(b) \/ (pc = "revoked" /\ t = trans)
    BY <1>1, <1>2 DEF HomeOrOwed, Last, Live
  <2> QED BY <1>3 DEF AInv, HomeOrOwed
<1>6. TopIsLast(G)'
  <2> SUFFICES ASSUME NEW b \in Blocks, NEW q, Top(b, q),
                      ~(pc = "revoked" /\ (b \in trans.bufs \/ b \in trans.revoke))
               PROVE  \E t : Last(G, b, t) /\ t.id = q
    BY <1>1, <1>2 DEF TopIsLast, Last, Live
  <2>1. PICK t : Last(H, b, t) /\ t.id = q
    BY DEF AInv, TopIsLast
  <2>2. q \in Queued
    BY IdsAre DEF Known, Base, IInv, Typed, Top
  <2> QED BY <1>4, <2>1, <2>2
<1>7. OnlyMetadata(G)'
  <2> SUFFICES ASSUME NEW b \in Blocks, NEW t, Last(G, b, t),
                      saved[b] # "meta" \/ (use[b] # "meta" /\ b \notin trans.revoke)
               PROVE  FALSE
    BY <1>1 DEF OnlyMetadata, Last, Live
  <2> QED BY <1>3 DEF AInv, OnlyMetadata
<1>8. BufferOrDone'
  BY <1>1, <1>2 DEF AInv, BufferOrDone
<1>9. EndsRight(G)'
  <2> SUFFICES ASSUME ending # NotEnding
               PROVE  EndsRight(G)'
    BY <1>1 DEF EndsRight
  <2> DEFINE e == ending.block
  <2>1. /\ \A t : Last(G, e, t) /\ t.id = ending.id => home[e] = t.n
        /\ Top(e, ending.id) => Ids(e) = {ending.id} \/ (pc = "revoked" /\ e \in trans.revoke)
        /\ pc = "run" => e \notin trans.bufs
    BY <1>3 DEF AInv, EndsRight
  <2>2. Ids(e)' = Ids(e) /\ \A q : Top(e, q)' <=> Top(e, q)
    BY <1>1, <1>2
  <2> QED BY <1>1, <2>1, <2>2 DEF EndsRight, Last, Live
<1>10. RecordIsLast(G)'
  <2> SUFFICES ASSUME NEW b \in Blocks, NEW t, Last(G, b, t), t.id \in Queued, b \notin trans.bufs
               PROVE  rec[b] = t.id
    BY <1>1, <1>2 DEF RecordIsLast, Last, Live
  <2> QED BY <1>3 DEF AInv, RecordIsLast
<1>11. FreedIsOwed(G)'
  <2> SUFFICES ASSUME pc = "run", NEW b \in trans.bufs, buf[b] = None,
                      NEW t, Last(G, b, t), t.id \in Queued
               PROVE  t.id \in Ids(b)
    BY <1>1, <1>2 DEF FreedIsOwed, Last, Live
  <2> QED BY <1>3 DEF AInv, FreedIsOwed
<1> QED BY <1>5, <1>6, <1>7, <1>8, <1>9, <1>10, <1>11 DEF AInv

-----------------------------------------------------------------------------
(* Sessions and recovery.                                                  *)

\* There is no session, or it starts with an empty row.
LEMMA OutsideOwes ==
    ASSUME NEW H, AInv(H), NEW G, G = H \/ G = <<>>, pc' \notin Active \/ G = <<>>, pc' # "run",
           cp_queue' = <<>>, ending' = NotEnding, use' = saved', saved' = saved
    PROVE  AInv(G)'
<1>1. \A b : Ids(b)' = {}
  BY DEF Ids, Pending
<1>2. Queued' = {}
  BY DEF Queued
<1>3. \A b, t : G = <<>> => ~Last(G, b, t)
  BY LastNone
<1>4. HomeOrOwed(G)'
  BY <1>3 DEF HomeOrOwed, Last, Live
<1>5. TopIsLast(G)'
  BY <1>1 DEF TopIsLast, Top
<1>6. OnlyMetadata(G)'
  <2> SUFFICES ASSUME NEW b \in Blocks, saved[b] # "meta", NEW t, Last(G, b, t)
               PROVE  FALSE
    BY DEF OnlyMetadata, Last, Live
  <2> QED BY <1>3 DEF AInv, OnlyMetadata
<1>7. BufferOrDone'
  BY <1>1 DEF BufferOrDone
<1>8. EndsRight(G)'
  BY DEF EndsRight
<1>9. RecordIsLast(G)'
  BY <1>2 DEF RecordIsLast
<1>10. FreedIsOwed(G)'
  BY DEF FreedIsOwed
<1> QED BY <1>4, <1>5, <1>6, <1>7, <1>8, <1>9, <1>10 DEF AInv

LEMMA OthersOwe ==
    ASSUME NEW H, Known(H), AInv(H), SessionStep \/ Crash \/ Recover \/ RecoverStep, ~Stop
    PROVE  /\ AInv(H)'
           /\ StopSb \/ RecoverPut => AInv(<<>>)'
<1>1. cp_queue \in Seq(Transactions)
  BY DEF Known, Base, IInv, Typed
<1>2. saved' = saved /\ pc' # "run"
  BY DEF SessionStep, StartFlag, StartSb, StopFlag, StopSb, Crash, Recover, RecoverStep, Replay,
         RecoverFlag, RecoverPut, ghost
<1>3. cp_queue' = <<>> /\ ending' = NotEnding /\ use' = saved
  <2>1. CASE pc \notin Active
    <3>1. ending = NotEnding /\ cp_queue = <<>> /\ use = saved
      BY <1>1, <2>1, OutsideQuiet, EmptySeq
    <3> QED BY <2>1, <3>1 DEF SessionStep, StartFlag, StartSb, StopFlag, StopSb, Crash, Recover,
                              RecoverStep, Replay, RecoverFlag, RecoverPut, session, Active
  <2>2. CASE StopFlag
    <3>1. use = saved
      BY <2>2 DEF StopFlag, Known, Base, Usage, Open
    <3> QED BY <2>2, <3>1 DEF StopFlag, session, Quiet
  <2>3. CASE Crash
    BY <2>3 DEF Crash
  <2>4. pc \notin Active \/ StopFlag \/ Crash
    BY DEF SessionStep, StartFlag, StartSb, StopSb, Recover, RecoverStep, Replay, RecoverFlag,
           RecoverPut, Active, Committing
  <2> QED BY <2>1, <2>2, <2>3, <2>4
<1>4. pc' \notin Active \/ (StartSb /\ H = <<>>)
  <2>1. StartSb => H = <<>>
    BY RowIsEmpty DEF StartSb, Known
  <2> QED BY <2>1 DEF SessionStep, StartFlag, StopFlag, StopSb, Crash, Recover, RecoverStep,
                      Replay, RecoverFlag, RecoverPut, Active, Committing
<1>5. AInv(H)'
  BY <1>2, <1>3, <1>4, OutsideOwes
<1>6. AInv(<<>>)'
  BY <1>2, <1>3, OutsideOwes
<1> QED BY <1>5, <1>6

-----------------------------------------------------------------------------
(* All of it together.                                                     *)

LEMMA CheckpointsOwe ==
    ASSUME NEW H, Known(H), AInv(H), CheckpointStep, ~WriteSb
    PROVE  AInv(H)'
<1>1. CASE EndWriteOwn
  BY <1>1, EndWriteOwnOwes
<1>2. CASE Purge
  BY <1>2, DropHeadOwes DEF Purge, disk, ghost
<1>3. CASE Purged
  BY <1>3, Unconcerned DEF Purged, disk, ghost
<1>4. CASE MakeRoom
  <2>1. CASE HeadWritten
    <3>1. DropHead /\ UNCHANGED <<home, pc, trans, buf, ending, use, saved>>
      BY <1>4, <2>1 DEF MakeRoom, ghost
    <3> QED BY <2>1, <3>1, DropHeadOwes
  <2>2. CASE ~HeadWritten
    BY <1>4, <2>2, FlushHeadOwes
  <2> QED BY <2>1, <2>2
<1> QED BY <1>1, <1>2, <1>3, <1>4 DEF CheckpointStep

\* None of the situations of Triggers comes up.
Careful == Triggers = {}

LEMMA KnownKept ==
    ASSUME Careful, NEW H, Known(H), AInv(H), [Next]_vars, NEW G, Base(G)'
    PROVE  Known(G)'
<1>1. Mild /\ "delayed" \notin Triggers
  BY DEF Careful, Mild
<1>2. pc = "run" => \A b \in Blocks : saved[b] # "meta" => Pending(b) = {}
  BY OwedIsMetadata, IdsAre DEF Known, Base, IInv, Typed
<1>3. CASE UNCHANGED vars
  <2>1. trans.bufs \subseteq Blocks
    BY DEF Known, Base, IInv, Typed, Transactions
  <2>2. Usage'
    BY <1>3, <2>1, UsageSame DEF vars, Known, Base, ghost, Open
  <2> QED BY <2>2 DEF Known, Base
<1>4. CASE Next
  BY <1>1, <1>2, <1>4, UsageOfCallers, UsageOfCommits, UsageOfOthers DEF Known, Base, Next
<1> QED BY <1>3, <1>4

LEMMA AInvKept ==
    ASSUME Careful, NEW H, Known(H), AInv(H), [Next]_vars, NEW G, NewRow(H, G)
    PROVE  AInv(G)'
<1>1. "forgotten" \notin Triggers /\ "rollback" \notin Triggers
  BY DEF Careful
<1>2. CASE G = Append(H, trans') /\ LogCommit
  BY <1>2, LogCommitOwes
<1>3. CASE G = Rest(H, Behind(H)) /\ WriteSb /\ pc \in Active
  BY <1>3, WriteSbOwes
<1>4. CASE G = <<>> /\ (StopSb \/ RecoverPut)
  <2>1. (SessionStep \/ RecoverStep) /\ ~Stop
    BY <1>4 DEF SessionStep, RecoverStep, Stop, StopSb, RecoverPut
  <2> QED BY <1>4, <2>1, OthersOwe
<1>5. CASE G = H /\ ~LogCommit
  <2>1. CASE UNCHANGED vars
    BY <1>5, <2>1, Unconcerned DEF vars, session, disk, ghost
  <2>2. CASE Stop
    <3>1. /\ UNCHANGED <<home, cp_queue, ending, rec, buf, use, saved, trans>>
          /\ pc = "idle" /\ pc' = "stopping"
      BY <2>2 DEF Stop, disk, session, ghost
    <3> QED BY <1>5, <3>1, Unconcerned DEF Active
  <2>3. CASE ~Stop /\ (SessionStep \/ Crash \/ Recover \/ RecoverStep)
    BY <1>5, <2>3, OthersOwe
  <2>4. CASE CallerStep
    BY <1>1, <1>5, <2>4, CallersOwe
  <2>5. CASE CommitStep
    BY <1>5, <2>5, CommitsOwe
  <2>6. CASE WriteSb
    <3>1. UNCHANGED <<home, cp_queue, ending, rec, buf, use, saved, trans, pc>>
      BY <2>6 DEF WriteSb, ghost
    <3> QED BY <1>5, <3>1, Unconcerned
  <2>7. CASE CheckpointStep /\ ~WriteSb
    BY <1>5, <2>7, CheckpointsOwe
  <2>8. CASE \E b \in Blocks : Flush(b)
    BY <1>5, <2>8, FlushOwes
  <2> QED BY <2>1, <2>2, <2>3, <2>4, <2>5, <2>6, <2>7, <2>8 DEF Next
<1> QED BY <1>2, <1>3, <1>4, <1>5 DEF NewRow

-----------------------------------------------------------------------------
(* Recovery.                                                               *)

\* The i-th of the row is the last that recovery replays of b.
Utmost(H, b, i) == Live(H, b, i) /\ \A j : Live(H, b, j) => j <= i

RInv(H) ==
    \* What is replayed is what is live; the last of a block has yet to be
    \* replayed, or is home and nothing of the block remains to be replayed.
    /\ pc = "replay" =>
         /\ \A r \in todo : Live(H, r[2], r[1])
         /\ \A b \in Blocks : \A i : Utmost(H, b, i) =>
              <<i, b>> \in todo \/ (home[b] = H[i].n /\ \A j : <<j, b>> \notin todo)
    /\ pc = "put" => \A b \in Blocks : \A t : Last(H, b, t) => home[b] = t.n

LEMMA RecoverLists ==
    ASSUME NEW H, Known(H), Recover
    PROVE  RInv(H)'
<1>1. /\ log \in [Positions -> Records] /\ jsb \in SuperBlocks /\ RowOf(H, log, jsb)
      /\ pc' = "replay" /\ UNCHANGED <<home, log, jsb>>
  BY DEF Recover, Known, Base, OwnTypes, LInv, DiskInv, RowOf, disk
<1> DEFINE F == Found(log, jsb)
<1>2. todo' = {r \in (DOMAIN F) \X Blocks : r[1] \in Replays(F, r[2])}
  BY DEF Recover
<1>3. DOMAIN F = 1..Len(H) /\ \A b : \A i : i \in Replays(F, b) <=> Live(H, b, i)
  BY <1>1, FoundRow, ReplaysRow
<1> HIDE DEF F
<1>4. \A r \in todo' : Live(H, r[2], r[1])
  BY <1>2, <1>3
<1>5. ASSUME NEW b \in Blocks, NEW i, Utmost(H, b, i)
      PROVE  <<i, b>> \in todo'
  <2>1. i \in DOMAIN F /\ i \in Replays(F, b)
    BY <1>3, <1>5 DEF Utmost, Live
  <2> QED BY <1>2, <2>1
<1> QED BY <1>1, <1>4, <1>5 DEF RInv, Active, Committing, Utmost, Live

LEMMA ReplayGoesOn ==
    ASSUME Careful, NEW H, Known(H), RInv(H), NEW r \in todo, Replay(r)
    PROVE  RInv(H)'
<1>1. /\ log \in [Positions -> Records] /\ jsb \in SuperBlocks /\ RowOf(H, log, jsb)
      /\ todo \subseteq Nat \X Blocks /\ home \in [Blocks -> Nat]
  BY DEF Known, Base, OwnTypes, LInv, DiskInv, RowOf
<1>2. /\ pc = "replay" /\ pc' = pc /\ todo' = todo \ {r} /\ \A s \in todo : r[1] <= s[1]
      /\ home' = [home EXCEPT ![r[2]] = log[Found(log, jsb)[r[1]].lba[r[2]]].val]
  BY DEF Replay, Careful
<1>3. PICK k \in Nat, c \in Blocks : r = <<k, c>>
  BY <1>1
<1>4. Live(H, c, k) /\ r[1] = k /\ r[2] = c
  BY <1>2, <1>3 DEF RInv
<1>5. home' = [home EXCEPT ![c] = H[k].n]
  <2>1. k \in 1..Len(H) /\ H[k].lba[c] # 0
    BY <1>4 DEF Live
  <2>2. Found(log, jsb)[k].lba = H[k].lba
        /\ \A b \in Tagged(H[k].lba) : log[H[k].lba[b]] = Data(H[k].n)
    BY <1>1, <2>1, FoundRow
  <2>3. c \in Tagged(H[k].lba)
    BY <2>1 DEF Tagged
  <2>4. log[H[k].lba[c]] = Data(H[k].n)
    BY <2>2, <2>3
  <2>5. log[H[k].lba[c]].val = H[k].n
    BY <2>4 DEF Data
  <2> QED BY <1>2, <1>4, <2>2, <2>5
<1>6. \A s \in todo' : Live(H, s[2], s[1])
  BY <1>2 DEF RInv
<1>7. ASSUME NEW b \in Blocks, NEW i, Utmost(H, b, i), <<i, b>> \notin todo'
      PROVE  home'[b] = H[i].n /\ \A j : <<j, b>> \notin todo'
  <2>1. CASE r = <<i, b>>
    <3>1. b = c /\ i = k
      BY <1>3, <2>1
    <3>2. home'[b] = H[i].n
      BY <1>1, <1>5, <3>1
    <3>3. ASSUME NEW j, <<j, b>> \in todo'
          PROVE  FALSE
      <4>1. <<j, b>> \in todo /\ j # i
        BY <1>2, <2>1, <3>3
      <4>2. Live(H, b, j)
        BY <1>2, <4>1 DEF RInv
      <4>3. j \in Nat /\ i \in Nat /\ i <= j
        BY <1>1, <1>2, <1>4, <3>1, <4>1
      <4>4. j <= i
        BY <1>7, <4>2 DEF Utmost
      <4> QED BY <4>1, <4>3, <4>4
    <3> QED BY <3>2, <3>3
  <2>2. CASE r # <<i, b>>
    <3>1. <<i, b>> \notin todo
      BY <1>2, <1>7, <2>2
    <3>2. home[b] = H[i].n /\ \A j : <<j, b>> \notin todo
      BY <1>2, <1>7, <3>1 DEF RInv
    <3>3. b # c
      BY <1>3, <3>2
    <3> QED BY <1>1, <1>2, <1>5, <3>2, <3>3
  <2> QED BY <2>1, <2>2
<1> QED BY <1>2, <1>6, <1>7 DEF RInv, Active, Committing, Utmost, Live

LEMMA RInvKept ==
    ASSUME Careful, NEW H, Known(H), RInv(H), [Next]_vars, NEW G, NewRow(H, G)
    PROVE  RInv(G)'
<1>1. CASE \E r \in todo : Replay(r)
  <2>1. G = H
    BY <1>1 DEF NewRow, Replay, LogCommit, WriteSb, StopSb, RecoverPut, Active, Committing
  <2> QED BY <1>1, <2>1, ReplayGoesOn
<1>2. CASE Recover
  <2>1. G = H
    BY <1>2 DEF NewRow, Recover, LogCommit, WriteSb, StopSb, RecoverPut, Active, Committing
  <2> QED BY <1>2, <2>1, RecoverLists
<1>3. CASE RecoverFlag
  <2>1. G = H /\ pc = "replay" /\ pc' = "put" /\ todo = {} /\ home' = home
    BY <1>3 DEF NewRow, RecoverFlag, LogCommit, WriteSb, StopSb, RecoverPut, Active, Committing
  <2>2. H \in Seq(Transactions)
    BY FoundRow DEF Known, Base, OwnTypes, LInv, DiskInv, RowOf
  <2>3. ASSUME NEW b \in Blocks, NEW t, Last(H, b, t)
        PROVE  home[b] = t.n
    <3>1. PICK i \in 1..Len(H) : t = H[i] /\ Live(H, b, i) /\ \A j : Live(H, b, j) => j <= i
      BY <2>2, <2>3, LastIsUtmost
    <3> QED BY <2>1, <3>1 DEF RInv, Utmost
  <2> QED BY <2>1, <2>3 DEF RInv, Active, Committing, Last, Live
<1>4. CASE UNCHANGED vars
  <2>1. G = H
    BY <1>4 DEF NewRow, LogCommit, WriteSb, StopSb, RecoverPut, vars, session
  <2> QED BY <1>4, <2>1 DEF RInv, vars, disk, Last, Live, Utmost
<1>5. CASE pc' \notin {"replay", "put"}
  BY <1>5 DEF RInv
<1>6. CASE SessionStep \/ Crash \/ RecoverPut
  BY <1>5, <1>6 DEF SessionStep, StartFlag, StartSb, Stop, StopFlag, StopSb, Crash, RecoverPut
<1>7. CASE CallerStep \/ CommitStep
  BY <1>5, <1>7 DEF CallerStep, Begin, Abort, CommitBegin, Dirty, WriteData, Free, CommitStep,
                    AllocDescriptor, LogData, LogDescriptor, LogRevoke, LogCommit, CompleteRevoked,
                    Enqueue
<1>8. CASE CheckpointStep \/ \E b \in Blocks : Flush(b)
  <2>1. pc' = pc
    BY <1>8 DEF CheckpointStep, EndWriteOwn, Purge, Purged, WriteSb, MakeRoom, FlushHead, Flush
  <2>2. pc \in Active
    BY <1>8, WritesInSession DEF Known
  <2> QED BY <1>5, <2>1, <2>2 DEF Active, Committing
<1> QED BY <1>1, <1>2, <1>3, <1>4, <1>6, <1>7, <1>8 DEF Next, RecoverStep

-----------------------------------------------------------------------------
(* What the blocks hold after a power failure, and what the callers read.  *)

\* Home is written only of blocks the row has, or that are not in use yet.
LEMMA HomeWritten ==
    ASSUME Careful, NEW H, Known(H), AInv(H), RInv(H), [Next]_vars, NEW b \in InUse(saved)
    PROVE  home'[b] = home[b] \/ \E t : Last(H, b, t)
<1>1. b \in Blocks /\ home \in [Blocks -> Nat]
  BY DEF InUse, Known, Base, OwnTypes
<1>2. ASSUME NEW c \in Blocks, WriteData(c)
      PROVE  home'[b] = home[b]
  <2>1. b # c
    BY <1>2 DEF WriteData, InUse
  <2> QED BY <1>1, <1>2, <2>1 DEF WriteData
<1>3. ASSUME NEW c \in Blocks, Flush(c)
      PROVE  home'[b] = home[b] \/ \E t : Last(H, b, t)
  <2>1. CASE b # c
    BY <1>1, <1>3, <2>1 DEF Flush
  <2>2. CASE b = c
    <3>1. PICK i \in 1..Len(cp_queue) : IsNewest(b, i)
      BY <1>1, <1>3, <2>2 DEF Flush, Referenced, Known, Base, NInv, Noticed
    <3>2. Ids(b) # {} /\ pc # "revoked"
      BY <1>3, <3>1, TopIs DEF Flush, Known, Base, Top
    <3> QED BY <1>1, <3>2, OwedIsLast
  <2> QED BY <2>1, <2>2
<1>4. CASE MakeRoom
  <2>1. CASE home' = home
    BY <2>1
  <2>2. CASE home' # home
    <3>1. PICK c \in cp_queue[1].bufs : FlushHead(c) /\ cp_queue # <<>> /\ pc # "revoked"
      BY <1>4, <2>2 DEF MakeRoom, Cramped
    <3>2. CASE b # c
      BY <1>1, <3>1, <3>2 DEF FlushHead
    <3>3. CASE b = c
      <4>1. cp_queue \in Seq(Transactions)
        BY DEF Known, Base, IInv, Typed
      <4>2. 1 \in 1..Len(cp_queue)
        BY <3>1, <4>1, EmptySeq, LenProperties
      <4>3. Ids(b) # {}
        BY <3>1, <3>3, <4>1, <4>2, IdsAre
      <4> QED BY <1>1, <3>1, <4>3, OwedIsLast
    <3> QED BY <3>2, <3>3
  <2> QED BY <2>1, <2>2
<1>5. ASSUME NEW r \in todo, Replay(r)
      PROVE  home'[b] = home[b] \/ \E t : Last(H, b, t)
  <2>1. CASE r[2] # b
    BY <1>1, <1>5, <2>1 DEF Replay, Careful
  <2>2. CASE r[2] = b
    <3>1. Live(H, b, r[1])
      BY <1>5, <2>2 DEF Replay, RInv
    <3>2. H \in Seq(Transactions)
      BY FoundRow DEF Known, Base, OwnTypes, LInv, DiskInv, RowOf
    <3> QED BY <3>1, <3>2, LastIsLive
  <2> QED BY <2>1, <2>2
<1>6. \/ home' = home \/ MakeRoom \/ \E r \in todo : Replay(r)
      \/ \E c \in Blocks : WriteData(c) \/ Flush(c)
  <2>1. CASE SessionStep \/ Crash \/ Recover \/ RecoverStep
    BY <2>1 DEF SessionStep, StartFlag, StartSb, Stop, StopFlag, StopSb, Crash, Recover, RecoverStep,
                RecoverFlag, RecoverPut, disk
  <2>2. CASE CallerStep
    BY <2>2 DEF CallerStep, Begin, Abort, CommitBegin, Dirty, Free, disk
  <2>3. CASE CommitStep
    BY <2>3 DEF CommitStep, AllocDescriptor, LogData, LogDescriptor, LogRevoke, LogCommit,
                CompleteRevoked, Enqueue, disk
  <2>4. CASE CheckpointStep
    BY <2>4 DEF CheckpointStep, EndWriteOwn, Purge, Purged, WriteSb, disk
  <2>5. CASE UNCHANGED vars
    BY <2>5 DEF vars, disk
  <2> QED BY <2>1, <2>2, <2>3, <2>4, <2>5 DEF Next
<1> QED BY <1>2, <1>3, <1>4, <1>5, <1>6

\* The log says what it did of every block in use, or its home does.
LEMMA DurableSame ==
    ASSUME Careful, NEW H, Known(H), AInv(H), RInv(H), MInv(H), [Next]_vars, ~LogCommit,
           NEW G, NewRow(H, G), Base(G)'
    PROVE  Durable' = Durable
<1>1. saved' = saved
  <2>1. CASE SessionStep \/ Crash \/ Recover \/ RecoverStep
    BY <2>1 DEF SessionStep, StartFlag, StartSb, Stop, StopFlag, StopSb, Crash, Recover, RecoverStep,
                Replay, RecoverFlag, RecoverPut, ghost
  <2>2. CASE CallerStep
    BY <2>2 DEF CallerStep, Begin, Abort, CommitBegin, Dirty, WriteData, Free, ghost
  <2>3. CASE CommitStep
    BY <2>3 DEF CommitStep, AllocDescriptor, LogData, LogDescriptor, LogRevoke,
                CompleteRevoked, Enqueue, ghost
  <2>4. CASE CheckpointStep \/ \E b \in Blocks : Flush(b)
    BY <2>4 DEF CheckpointStep, EndWriteOwn, Purge, Purged, WriteSb, MakeRoom, Flush, ghost
  <2>5. CASE UNCHANGED vars
    BY <2>5 DEF vars, ghost
  <2> QED BY <2>1, <2>2, <2>3, <2>4, <2>5 DEF Next
<1>2. OwnTypes /\ OwnTypes' /\ DiskInv(H) /\ DiskInv(G)'
  BY DEF Known, Base, LInv
<1>3. ASSUME NEW b \in InUse(saved)
      PROVE  \/ \E t : Last(H, b, t) /\ Last(G, b, t)
             \/ \E t : Last(H, b, t) /\ (\A u : ~Last(G, b, u)) /\ home'[b] = t.n
             \/ (\A t : ~Last(H, b, t)) /\ (\A t : ~Last(G, b, t)) /\ home'[b] = home[b]
  <2>1. b \in Blocks
    BY DEF InUse
  <2>2. CASE G = H
    BY <2>2, HomeWritten
  <2>3. CASE G = Rest(H, Behind(H)) /\ WriteSb /\ pc \in Active
    <3>1. home' = home
      BY <2>3 DEF WriteSb
    <3>2. \A t : Last(G, b, t) => Last(H, b, t)
      BY <2>3, DoneWith, LastRest
    <3>3. \A t : Last(H, b, t) => Last(G, b, t) \/ ((\A u : ~Last(G, b, u)) /\ home[b] = t.n)
      BY <2>1, <2>3, DoneWith
    <3> QED BY <3>1, <3>2, <3>3
  <2>4. CASE G = <<>> /\ (StopSb \/ RecoverPut)
    <3>1. home' = home /\ \A t : ~Last(G, b, t)
      BY <2>4, LastNone DEF StopSb, RecoverPut
    <3>2. CASE StopSb
      <4>1. H = <<>>
        BY <3>2 DEF StopSb, MInv
      <4> QED BY <3>1, <4>1, LastNone
    <3>3. CASE RecoverPut
      <4>1. \A t : Last(H, b, t) => home[b] = t.n
        BY <2>1, <3>3 DEF RecoverPut, RInv
      <4> QED BY <3>1, <4>1
    <3> QED BY <2>4, <3>2, <3>3
  <2> QED BY <2>2, <2>3, <2>4 DEF NewRow
<1> QED BY <1>1, <1>2, <1>3, DurableKept

\* Between transactions the callers read what would be there after a power failure.
Synced == ~Open => Visible = Durable

LEMMA SyncedHolds ==
    ASSUME NEW H, Known(H), AInv(H)
    PROVE  Synced
<1> SUFFICES ASSUME ~Open, pc \in Active
             PROVE  [b \in InUse(use) |-> View(b)] = Durable
  BY DEF Synced, Visible
<1>1. /\ use = saved /\ use \in [Blocks -> Uses] /\ InUse(saved) \in SUBSET Blocks
      /\ pc # "revoked" => trans.bufs = {} /\ trans.revoke = {}
  BY DEF Known, Base, Usage, OwnTypes, InUse, NInv, NoneRunning, Running, Building, Open, Active, Committing
<1>2. log \in [Positions -> Records] /\ jsb \in SuperBlocks /\ RowOf(H, log, jsb)
  BY DEF Known, Base, OwnTypes, LInv, DiskInv, RowOf
<1>3. Durable = [b \in InUse(saved) |-> Durable[b]]
  <2> DEFINE D(b) == RecoveredBlock(home, log, Found(log, jsb), b)
  <2>1. Durable = [b \in InUse(saved) |-> D(b)]
    BY <1>2, RecoveredAt DEF Durable
  <2> HIDE DEF D
  <2> QED BY <2>1
<1>4. ASSUME NEW b \in InUse(saved)
      PROVE  View(b) = Durable[b]
  <2>1. b \in Blocks
    BY DEF InUse
  <2>2. /\ \A t : Last(H, b, t) => Durable[b] = t.n
        /\ (\A t : ~Last(H, b, t)) => Durable[b] = home[b]
    BY <1>1, <1>2, RecoveredIs DEF Durable
  <2>3. CASE b \in trans.bufs
    <3>1. pc = "revoked"
      BY <1>1, <2>3
    <3>2. Last(H, b, trans) /\ buf[b] = trans.n /\ buf[b] # None
      BY <2>1, <2>3, <3>1, LoggedAre, JoiningIsLast
    <3> QED BY <2>2, <3>2 DEF View
  <2>4. CASE b \notin trans.bufs /\ buf[b] # None
    <3>1. PICK i \in 1..Len(cp_queue) : IsNewest(b, i) /\ buf[b] = cp_queue[i].n
      BY <2>1, <2>4 DEF Known, Base, NInv, Noticed
    <3>2. Top(b, cp_queue[i].id)
      BY <3>1, TopIs DEF Known, Base
    <3>3. b \notin trans.revoke
      BY <2>4 DEF Known, Base, NInv, RevokedGone
    <3>4. PICK t : Last(H, b, t) /\ t.id = cp_queue[i].id
      BY <2>1, <2>4, <3>2, <3>3 DEF AInv, TopIsLast
    <3>5. cp_queue[i].n = t.n
      BY <3>4, RowIds
    <3> QED BY <2>2, <2>4, <3>1, <3>4, <3>5 DEF View
  <2>5. CASE b \notin trans.bufs /\ buf[b] = None
    <3>1. ASSUME NEW t, Last(H, b, t)
          PROVE  home[b] = t.n
      <4>1. home[b] = t.n \/ t.id \in Ids(b) \/ (pc = "revoked" /\ t = trans)
        BY <2>1, <3>1 DEF AInv, HomeOrOwed
      <4>2. ~(pc = "revoked" /\ t = trans)
        BY <2>1, <2>5, <3>1, LoggedAre, RowIds
      <4>3. b \notin trans.revoke
        BY <1>1, <2>1, <3>1, JoiningIsLast
      <4>4. ASSUME t.id \in Ids(b)
            PROVE  home[b] = t.n
        <5>1. ending # NotEnding /\ ending.block = b /\ ending.id = t.id
          BY <2>1, <2>5, <4>3, <4>4 DEF AInv, BufferOrDone
        <5> QED BY <3>1, <5>1 DEF AInv, EndsRight
      <4> QED BY <4>1, <4>2, <4>4
    <3> QED BY <2>2, <2>5, <3>1 DEF View
  <2> QED BY <2>3, <2>4, <2>5
<1> QED BY <1>1, <1>3, <1>4

-----------------------------------------------------------------------------
(* The theorems.                                                           *)

\* All of the invariant
Rows == \E H : Known(H) /\ AInv(H) /\ RInv(H) /\ MInv(H)

LEMMA RowsInit ==
    ASSUME Init
    PROVE  Rows
<1>1. Layout
  BY LayoutInit
<1>2. jsb.start = 0 /\ pc = "off"
  BY DEF Init
<1>3. LInv(<<>>)
  BY <1>1, <1>2 DEF Layout, LInv, DiskInv
<1>4. Usage
  BY BitmapAssumption DEF Init, Usage, Open, NoTrans, Active, Committing
<1>5. Known(<<>>)
  BY <1>1, <1>3, <1>4 DEF Known, Base, Layout
<1>6. Queued = {} /\ \A b : Ids(b) = {}
  BY <1>2, <1>5, OutsideQuiet DEF Active, Committing
<1>7. \A b, t : ~Last(<<>>, b, t)
  BY LastNone
<1>8. AInv(<<>>)
  BY <1>6, <1>7 DEF Init, AInv, HomeOrOwed, TopIsLast, Top, OnlyMetadata, BufferOrDone, EndsRight,
                    RecordIsLast, FreedIsOwed
<1>9. RInv(<<>>) /\ MInv(<<>>)
  BY <1>2 DEF RInv, MInv, Active, Committing
<1> QED BY <1>5, <1>8, <1>9 DEF Rows

LEMMA RowsKept ==
    ASSUME Careful, Rows, [Next]_vars
    PROVE  Rows'
<1>1. PICK H : Known(H) /\ AInv(H) /\ RInv(H) /\ MInv(H)
  BY DEF Rows
<1>2. PICK G : Base(G)' /\ NewRow(H, G)
  BY <1>1, RowGoesOn DEF Known, Careful, Mild
<1>3. Known(G)' /\ AInv(G)' /\ RInv(G)' /\ MInv(G)'
  BY <1>1, <1>2, KnownKept, AInvKept, RInvKept, MInvKept DEF Known
<1> QED BY <1>3 DEF Rows

\* A step of the journal is one of the atomic store, or changes nothing there.
LEMMA StepIsAtomic ==
    ASSUME Careful, Rows, Rows', Synced, Synced', [Next]_vars
    PROVE  [Store!Next]_(Store!vars)
<1>1. PICK H : Known(H) /\ AInv(H) /\ RInv(H) /\ MInv(H)
  BY DEF Rows
<1>2. PICK G : Base(G)' /\ NewRow(H, G)
  BY <1>1, RowGoesOn DEF Known, Careful, Mild
<1>3. CASE LogCommit
  <2>1. Open /\ ~Open'
    BY <1>3 DEF LogCommit, Open
  <2>2. Visible' = Visible
    BY <1>3 DEF LogCommit, Visible, InUse, View, Active, Committing
  <2>3. Durable' = Visible
    BY <2>1, <2>2 DEF Synced
  <2> QED BY <2>1, <2>2, <2>3 DEF Store!Next, Store!Commit
<1>4. CASE ~LogCommit
  <2>1. Durable' = Durable
    BY <1>1, <1>2, <1>4, DurableSame
  <2>2. CASE Open /\ Open'
    BY <2>1, <2>2 DEF Store!Next, Store!Update
  <2>3. CASE Open /\ ~Open'
    BY <2>1, <2>3 DEF Store!Next, Store!Rollback, Synced
  <2>4. CASE ~Open /\ ~Open'
    <3>1. Visible' = Visible
      BY <2>1, <2>4 DEF Synced
    <3>2. Open' = Open
      BY <2>4 DEF Open
    <3> QED BY <2>1, <3>1, <3>2 DEF Store!vars
  <2>5. CASE ~Open /\ Open'
    <3>1. Begin
      <4>1. pc \notin {"run", "alloc", "data", "revoke", "commit"} /\ pc' # pc
            /\ pc' \in {"run", "alloc", "data", "revoke", "commit"}
        BY <2>5 DEF Open
      <4>2. ~SessionStep /\ ~Crash /\ ~Recover /\ ~RecoverStep
        BY <4>1 DEF SessionStep, StartFlag, StartSb, Stop, StopFlag, StopSb, Crash, Recover,
                    RecoverStep, Replay, RecoverFlag, RecoverPut
      <4>3. ~CommitStep
        BY <4>1 DEF CommitStep, AllocDescriptor, LogData, LogDescriptor, LogRevoke, LogCommit,
                    CompleteRevoked, Enqueue
      <4>4. ~CheckpointStep /\ \A b \in Blocks : ~Flush(b)
        BY <4>1 DEF CheckpointStep, EndWriteOwn, Purge, Purged, WriteSb, MakeRoom, Flush
      <4>5. CallerStep => Begin
        BY <4>1 DEF CallerStep, Abort, CommitBegin, Dirty, WriteData, Free
      <4> QED BY <4>1, <4>2, <4>3, <4>4, <4>5 DEF Next, vars
    <3>2. Visible' = Visible
      BY <3>1 DEF Begin, disk, Visible, InUse, View, Active
    <3> QED BY <2>1, <2>5, <3>2 DEF Store!Next, Store!Begin
  <2> QED BY <2>2, <2>3, <2>4, <2>5
<1> QED BY <1>3, <1>4

\* The journal is an atomic store: what the blocks in use hold after a power failure
\* and recovery changes only when a transaction commits, to all of what its callers
\* read, and an abort takes all of it back (ext4_trans_start, ext4_trans_stop,
\* ext4_trans_abort), with power failures between any two writes.
THEOREM StoreIsAtomic ==
    ASSUME Careful
    PROVE  Spec => AtomicUpdates
<1>1. Init => Rows
  BY RowsInit
<1>2. Rows /\ [Next]_vars => Rows'
  BY RowsKept
<1>3. Rows => Synced
  BY SyncedHolds DEF Rows
<1>4. Init => Store!Init
  BY DEF Init, Store!Init, Visible, Open, Active, Committing
<1>5. Rows /\ Rows' /\ Synced /\ Synced' /\ [Next]_vars => [Store!Next]_(Store!vars)
  BY StepIsAtomic
<1> QED BY <1>1, <1>2, <1>3, <1>4, <1>5, PTL DEF Spec, AtomicUpdates, Store!Spec
=============================================================================
