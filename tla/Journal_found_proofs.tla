------------------------ MODULE Journal_found_proofs ------------------------
(***************************************************************************)
(* What recovery finds in the log (Found of JournalLog), for any log and   *)
(* any number of transactions in it: if the log holds a row of whole       *)
(* transactions one behind the other, and nowhere a commit block with the  *)
(* id that would come next, it finds these and nothing else, whatever      *)
(* the rest of the log has in it.                                          *)
(*                                                                         *)
(* The reader is a recursive function.  That it exists, and what it does,  *)
(* goes by induction on the blocks it has read.                            *)
(***************************************************************************)
EXTENDS Journal_proofs

-----------------------------------------------------------------------------
(* Induction, over sets of numbers.                                        *)

LEMMA Induction ==
    ASSUME NEW S, 0 \in S, \A n \in Nat : n \in S => n + 1 \in S
    PROVE  Nat \subseteq S
<1> SUFFICES ASSUME NEW n0 \in Nat, n0 \notin S PROVE FALSE
  OBVIOUS
<1> DEFINE T == {k \in 1..n0 + 1 : n0 + 1 - k \notin S}
<1>1. T \in SUBSET (1..n0 + 1) /\ T # {} /\ n0 + 1 \in Nat
  OBVIOUS
<1>2. PICK m \in T : \A j \in T : j <= m
  <2> HIDE DEF T
  <2> QED BY <1>1, LargestIndex
<1>3. m \in 1..n0 + 1 /\ n0 + 1 - m \in Nat /\ n0 + 1 - m \notin S
  OBVIOUS
<1>4. m # n0 + 1
  BY <1>3
<1>5. m + 1 \in 1..n0 + 1 /\ m + 1 \notin T
  BY <1>2, <1>3, <1>4
<1>6. n0 - m \in Nat /\ n0 - m \in S
  BY <1>3, <1>5
<1>7. n0 - m + 1 \in S
  BY <1>6
<1> QED BY <1>3, <1>7

LEMMA UpTo ==
    ASSUME NEW N \in Nat, NEW S, 0 \in S, \A n \in 0..N - 1 : n \in S => n + 1 \in S
    PROVE  0..N \subseteq S
<1> DEFINE T == {n \in Nat : n <= N => n \in S}
<1>1. 0 \in T
  OBVIOUS
<1>2. \A n \in Nat : n \in T => n + 1 \in T
  OBVIOUS
<1>3. Nat \subseteq T
  <2> HIDE DEF T
  <2> QED BY <1>1, <1>2, Induction
<1> QED BY <1>3

-----------------------------------------------------------------------------
(* The reader.                                                             *)

On(l, sb) == [s \in Readers |-> ReadOn(l, sb.start, s)]

\* f is what the reader is at after each of the first n blocks.
Reads(f, l, sb, n) ==
    f = [k \in 0..n |-> IF k = 0 THEN Reading(sb) ELSE On(l, sb)[f[k - 1]]]

LEMMA ReaderExists ==
    ASSUME NEW l, NEW sb
    PROVE  \A n \in Nat : \E f : Reads(f, l, sb, n)
<1> DEFINE S == {n \in Nat : \E f : Reads(f, l, sb, n)}
<1>1. 0 \in S
  <2> DEFINE f == [k \in 0..0 |-> Reading(sb)]
  <2>1. f = [k \in 0..0 |-> IF k = 0 THEN Reading(sb) ELSE On(l, sb)[f[k - 1]]]
    OBVIOUS
  <2>2. Reads(f, l, sb, 0)
    BY <2>1 DEF Reads
  <2> QED BY <2>2
<1>2. ASSUME NEW n \in Nat, n \in S
      PROVE  n + 1 \in S
  <2>1. PICK f : Reads(f, l, sb, n)
    BY <1>2
  <2> DEFINE on == On(l, sb)
             g == [k \in 0..n + 1 |-> IF k <= n THEN f[k] ELSE on[f[n]]]
  <2>2. f = [k \in 0..n |-> IF k = 0 THEN Reading(sb) ELSE on[f[k - 1]]]
    BY <2>1 DEF Reads
  <2> HIDE DEF on
  <2>3. \A k \in 0..n + 1 : g[k] = IF k = 0 THEN Reading(sb) ELSE on[g[k - 1]]
    <3> SUFFICES ASSUME NEW k \in 0..n + 1
                 PROVE  g[k] = IF k = 0 THEN Reading(sb) ELSE on[g[k - 1]]
      OBVIOUS
    <3>1. CASE k = 0
      BY <2>2, <3>1
    <3>2. CASE k # 0 /\ k <= n
      <4>1. g[k] = f[k] /\ g[k - 1] = f[k - 1] /\ k \in 0..n
        BY <3>2
      <4> HIDE DEF g
      <4> QED BY <2>2, <3>2, <4>1
    <3>3. CASE k = n + 1
      <4>1. g[k] = on[f[n]] /\ g[k - 1] = f[n]
        BY <3>3
      <4> HIDE DEF g
      <4> QED BY <3>3, <4>1
    <3> QED BY <3>1, <3>2, <3>3
  <2>4. g = [k \in 0..n + 1 |-> g[k]]
    OBVIOUS
  <2> HIDE DEF g
  <2>5. g = [k \in 0..n + 1 |-> IF k = 0 THEN Reading(sb) ELSE on[g[k - 1]]]
    BY <2>3, <2>4
  <2>6. Reads(g, l, sb, n + 1)
    BY <2>5 DEF Reads, on
  <2> QED BY <2>6
<1>3. Nat \subseteq S
  <2> HIDE DEF S
  <2> QED BY <1>1, <1>2, Induction
<1> QED BY <1>3

\* What the reader has found when it has read as many blocks as there are.
LEMMA FoundIs ==
    ASSUME NEW l, NEW sb
    PROVE  \E f : Reads(f, l, sb, LogSize) /\ Found(l, sb) = f[LogSize].found
<1> DEFINE read == CHOOSE f : f = [n \in 0..LogSize |->
                      IF n = 0 THEN Reading(sb) ELSE On(l, sb)[f[n - 1]]]
<1>1. \E f : f = [n \in 0..LogSize |-> IF n = 0 THEN Reading(sb) ELSE On(l, sb)[f[n - 1]]]
  <2>1. LogSize \in Nat
    BY LogSizeAssumption
  <2>2. \E f : Reads(f, l, sb, LogSize)
    BY <2>1, ReaderExists
  <2> QED BY <2>2 DEF Reads
<1>2. read = [n \in 0..LogSize |-> IF n = 0 THEN Reading(sb) ELSE On(l, sb)[read[n - 1]]]
  BY <1>1
<1>3. Found(l, sb) = read[LogSize].found
  BY DEF Found, On
<1> QED BY <1>2, <1>3 DEF Reads

\* How many blocks a descriptor tags
LEMMA TagsCounted ==
    ASSUME NEW lba \in Tags
    PROVE  /\ IsFiniteSet(Tagged(lba)) /\ Cardinality(Tagged(lba)) \in Nat
           /\ Cardinality(Tagged(lba)) + 3 < LogSize
<1>1. IsFiniteSet(Blocks) /\ Tagged(lba) \in SUBSET Blocks
  BY BitmapAssumption DEF Tagged
<1>2. IsFiniteSet(Tagged(lba)) /\ Cardinality(Tagged(lba)) <= Cardinality(Blocks)
  BY <1>1, FS_Subset
<1>3. Cardinality(Tagged(lba)) \in Nat /\ Cardinality(Blocks) \in Nat
  BY <1>1, <1>2, FS_CardinalityType
<1> QED BY <1>2, <1>3, SpaceAssumption, LogSizeAssumption

LEMMA RingRange ==
    ASSUME NEW p \in Positions, NEW n \in Nat, n < LogSize
    PROVE  Ring(p, n) \in Positions
BY LogSizeAssumption DEF Positions, Ring

LEMMA RingSum ==
    ASSUME NEW p \in Positions, NEW m \in Nat, NEW n \in Nat, m + n < LogSize
    PROVE  Ring(Ring(p, m), n) = Ring(p, m + n)
BY LogSizeAssumption DEF Positions, Ring

\* The reader stays in the log.
OnTrack(s) == s \in Readers /\ (~s.over => s.pos \in Positions)

LEMMA ReadOnType ==
    ASSUME NEW l \in [Positions -> Records], NEW start, NEW s, OnTrack(s)
    PROVE  OnTrack(ReadOn(l, start, s))
<1> DEFINE r == l[s.pos]
           next == Ring(s.pos, Length(r))
<1>1. s \in Readers
  BY DEF OnTrack
<1>2. CASE s.over \/ ~Expected(r, s.id)
  <2>1. ReadOn(l, start, s) = [s EXCEPT !.over = TRUE]
    BY <1>2 DEF ReadOn
  <2> QED BY <1>1, <2>1 DEF OnTrack, Readers
<1>3. CASE ~s.over /\ Expected(r, s.id)
  <2>1. ReadOn(l, start, s) = [Read(s, r) EXCEPT !.pos = next, !.over = (next = start)]
    BY <1>3 DEF ReadOn
  <2>2. s.pos \in Positions /\ r \in Records /\ r.type # "data"
    BY <1>3 DEF OnTrack, Expected
  <2>3. Length(r) \in Nat /\ Length(r) < LogSize
    <3>1. CASE r.type = "descriptor"
      <4>1. r.lba \in Tags
        BY <2>2, <3>1 DEF Records
      <4> QED BY <3>1, <4>1, TagsCounted, LogSizeAssumption DEF Length
    <3>2. CASE r.type # "descriptor"
      BY <3>2, TagsCounted, SpaceAssumption, LogSizeAssumption, BitmapAssumption, FS_CardinalityType DEF Length
    <3> QED BY <3>1, <3>2
  <2>4. next \in Positions /\ next \in 0..LogSize
    BY <2>2, <2>3, RingRange DEF Positions
  <2>5. NoTags \in Tags
    BY LogSizeAssumption DEF NoTags, Tags
  <2>6. Read(s, r) \in Readers
    <3>1. CASE r.type = "descriptor"
      <4>1. Read(s, r) = [s EXCEPT !.lba = r.lba] /\ r.lba \in Tags
        BY <2>2, <3>1 DEF Read, Records
      <4> QED BY <1>1, <4>1 DEF Readers
    <3>2. CASE r.type = "revoke"
      <4>1. Read(s, r) = [s EXCEPT !.revoked = @ \cup r.blocks] /\ r.blocks \subseteq Blocks
        BY <2>2, <3>2 DEF Read, Records
      <4> QED BY <1>1, <4>1 DEF Readers
    <3>3. CASE r.type = "commit"
      <4> DEFINE e == [id |-> s.id, lba |-> s.lba, revoked |-> s.revoked]
                 found == Append(s.found, e)
      <4>1. Read(s, r) = [s EXCEPT !.found = found, !.id = @ + 1, !.lba = NoTags, !.revoked = {}]
        BY <2>2, <3>3 DEF Read
      <4>2. e \in Committed /\ s.found \in Seq(Committed) /\ s.id + 1 \in Nat
        BY <1>1 DEF Readers, Committed
      <4>3. found \in Seq(Committed)
        BY <4>2, AppendProperties
      <4> HIDE DEF found
      <4> QED BY <1>1, <2>5, <4>1, <4>2, <4>3 DEF Readers
    <3> QED BY <2>2, <3>1, <3>2, <3>3 DEF Records
  <2> HIDE DEF next
  <2> DEFINE x == Read(s, r)
  <2>7. ReadOn(l, start, s) = [x EXCEPT !.pos = next, !.over = (next = start)]
    BY <2>1
  <2>8. x \in Readers
    BY <2>6
  <2> HIDE DEF x
  <2>9. ReadOn(l, start, s) \in Readers /\ ReadOn(l, start, s).pos = next
    BY <2>4, <2>7, <2>8 DEF Readers
  <2> QED BY <2>4, <2>9 DEF OnTrack
<1> QED BY <1>2, <1>3

SuperBlocks == [start : 0..LogSize, sequence : Nat]

\* It does so from the first block to the last.
LEMMA ReadsType ==
    ASSUME NEW l \in [Positions -> Records], NEW sb \in SuperBlocks,
           NEW N \in Nat, NEW f, Reads(f, l, sb, N)
    PROVE  /\ f[0] = Reading(sb)
           /\ \A k \in 0..N : OnTrack(f[k])
           /\ \A k \in 0..N - 1 : f[k + 1] = ReadOn(l, sb.start, f[k])
<1> DEFINE S == {k \in 0..N : OnTrack(f[k])}
<1>1. \A k \in 0..N : f[k] = IF k = 0 THEN Reading(sb) ELSE On(l, sb)[f[k - 1]]
  BY DEF Reads
<1>2. f[0] = Reading(sb)
  BY <1>1
<1>3. \A k \in 0..N - 1 : f[k + 1] = On(l, sb)[f[k]]
  BY <1>1
<1>4. 0 \in S
  <2>1. sb.start \in 0..LogSize /\ sb.sequence \in Nat
    BY DEF SuperBlocks
  <2>2. NoTags \in Tags /\ <<>> \in Seq(Committed)
    BY LogSizeAssumption, EmptySeq DEF NoTags, Tags
  <2>3. Reading(sb) \in Readers
    BY <2>1, <2>2 DEF Reading, Readers
  <2>4. ~Reading(sb).over => Reading(sb).pos \in Positions
    <3>1. Reading(sb).over = (sb.start = 0) /\ Reading(sb).pos = sb.start
      BY DEF Reading
    <3>2. sb.start # 0 => sb.start \in Positions
      BY <2>1, LogSizeAssumption DEF Positions
    <3> QED BY <3>1, <3>2
  <2>5. OnTrack(f[0])
    BY <1>2, <2>3, <2>4 DEF OnTrack
  <2> QED BY <2>5
<1>5. ASSUME NEW k \in 0..N - 1, OnTrack(f[k])
      PROVE  f[k + 1] = ReadOn(l, sb.start, f[k]) /\ OnTrack(f[k + 1])
  <2>1. f[k + 1] = ReadOn(l, sb.start, f[k])
    BY <1>3, <1>5 DEF On, OnTrack
  <2> QED BY <1>5, <2>1, ReadOnType
<1>6. 0..N \subseteq S
  <2>1. \A k \in 0..N - 1 : k \in S => k + 1 \in S
    BY <1>5
  <2> HIDE DEF S
  <2> QED BY <1>4, <2>1, UpTo
<1> QED BY <1>2, <1>5, <1>6

\* What recovery finds are transactions, whatever is in the log.
LEMMA FoundType ==
    ASSUME NEW l \in [Positions -> Records], NEW sb \in SuperBlocks
    PROVE  Found(l, sb) \in Seq(Committed)
<1>1. PICK f : Reads(f, l, sb, LogSize) /\ Found(l, sb) = f[LogSize].found
  BY FoundIs
<1>2. LogSize \in Nat /\ LogSize \in 0..LogSize
  BY LogSizeAssumption
<1>3. OnTrack(f[LogSize])
  BY <1>1, <1>2, ReadsType
<1> QED BY <1>1, <1>3 DEF OnTrack, Readers

\* The log has no commit block with this id or a later one.
CommitsBelow(l, id) == \A p \in Positions : l[p].type = "commit" => l[p].seq < id

\* Without the commit block of the transaction it expects the reader finds no more.
LEMMA NoMore ==
    ASSUME NEW l \in [Positions -> Records], NEW sb \in SuperBlocks,
           NEW N \in Nat, NEW f, Reads(f, l, sb, N),
           NEW m \in 0..N, CommitsBelow(l, f[m].id)
    PROVE  f[N].found = f[m].found
<1> DEFINE S == {k \in Nat : m + k <= N => f[m + k].id = f[m].id /\ f[m + k].found = f[m].found}
<1>1. 0 \in S
  OBVIOUS
<1>2. ASSUME NEW k \in Nat, k \in S, m + k + 1 <= N
      PROVE  f[m + k + 1].id = f[m].id /\ f[m + k + 1].found = f[m].found
  <2> DEFINE s == f[m + k]
             r == l[s.pos]
             next == Ring(s.pos, Length(r))
  <2>1. s.id = f[m].id /\ s.found = f[m].found
    BY <1>2
  <2>2. m + k \in 0..N - 1 /\ m + k \in 0..N
    BY <1>2
  <2>3. f[m + k + 1] = ReadOn(l, sb.start, s) /\ OnTrack(s)
    BY <2>2, ReadsType
  <2> HIDE DEF s
  <2>4. CASE s.over \/ ~Expected(r, s.id)
    <3>1. ReadOn(l, sb.start, s) = [s EXCEPT !.over = TRUE]
      BY <2>4 DEF ReadOn
    <3> QED BY <2>1, <2>3, <3>1 DEF OnTrack, Readers
  <2>5. CASE ~s.over /\ Expected(r, s.id)
    <3>1. ReadOn(l, sb.start, s) = [Read(s, r) EXCEPT !.pos = next, !.over = (next = sb.start)]
      BY <2>5 DEF ReadOn
    <3>2. s.pos \in Positions /\ s \in Readers /\ r \in Records /\ r.type # "data"
      BY <2>3, <2>5 DEF OnTrack, Expected
    <3>3. r.type # "commit"
      <4> SUFFICES ASSUME r.type = "commit" PROVE FALSE
        OBVIOUS
      <4>1. r.seq < f[m].id /\ r.seq = f[m].id
        BY <2>1, <2>5, <3>2 DEF CommitsBelow, Expected
      <4>2. f[m].id \in Nat
        BY <2>1, <3>2 DEF Readers
      <4> QED BY <4>1, <4>2
    <3>4. \/ Read(s, r) = [s EXCEPT !.lba = r.lba]
          \/ Read(s, r) = [s EXCEPT !.revoked = @ \cup r.blocks]
      <4>1. CASE r.type = "descriptor"
        BY <4>1 DEF Read
      <4>2. CASE r.type = "revoke"
        BY <4>2 DEF Read
      <4> QED BY <3>2, <3>3, <4>1, <4>2 DEF Records
    <3> HIDE DEF next
    <3> QED BY <2>1, <2>3, <3>1, <3>2, <3>4 DEF Readers
  <2> QED BY <2>4, <2>5
<1>3. Nat \subseteq S
  <2>1. \A k \in Nat : k \in S => k + 1 \in S
    BY <1>2
  <2> HIDE DEF S
  <2> QED BY <1>1, <2>1, Induction
<1>4. N - m \in Nat /\ m + (N - m) = N
  OBVIOUS
<1> QED BY <1>3, <1>4

-----------------------------------------------------------------------------
(* Whole transactions.                                                     *)

Entry(t) == [id |-> t.id, lba |-> t.lba, revoked |-> t.revoke]

\* All of t is in the log l, which starts at s, and does not fill it: the
\* descriptor, the blocks it tags, the block with what it revokes, if it
\* revokes any, and the commit block.
Written(t, s, l) ==
    LET k == Cardinality(Tagged(t.lba))
    IN  /\ t.start \in Positions /\ Dist(s, t.start) + t.len < LogSize
        /\ l[t.start] = Descriptor(t.id, t.lba)
        /\ \A b \in Tagged(t.lba) : Logged(t, b, s, l)
        /\ IF t.revoke = {}
             THEN t.len = k + 2 /\ l[Ring(t.start, k + 1)] = Commit(t.id)
             ELSE /\ t.len = k + 3 /\ l[Ring(t.start, k + 1)] = Revoke(t.id, t.revoke)
                  /\ l[Ring(t.start, k + 2)] = Commit(t.id)

At(pos, id, lba, revoked, found) ==
    [pos |-> pos, id |-> id, lba |-> lba, revoked |-> revoked, found |-> found, over |-> FALSE]

\* Further along the ring is not where the log starts.
LEMMA NotBack ==
    ASSUME NEW s \in Positions, NEW p \in Positions, NEW n \in Nat, n > 0,
           Dist(s, p) + n < LogSize
    PROVE  Ring(p, n) # s /\ Ring(p, n) \in Positions
BY LogSizeAssumption DEF Positions, Dist, Ring

LEMMA ReadsDescriptor ==
    ASSUME NEW l, NEW start \in Positions, NEW p \in Positions, NEW id, NEW lba \in Tags, NEW E,
           Dist(start, p) + Cardinality(Tagged(lba)) + 1 < LogSize,
           l[p] = Descriptor(id, lba)
    PROVE  ReadOn(l, start, At(p, id, NoTags, {}, E))
             = At(Ring(p, Cardinality(Tagged(lba)) + 1), id, lba, {}, E)
<1> DEFINE k == Cardinality(Tagged(lba))
           s == At(p, id, NoTags, {}, E)
           r == l[p]
<1>1. k \in Nat /\ Dist(start, p) \in Nat
  BY TagsCounted, DistRange
<1>2. Ring(p, k + 1) # start
  <2> HIDE DEF k
  <2>1. k + 1 \in Nat /\ k + 1 > 0 /\ Dist(start, p) + (k + 1) < LogSize
    BY <1>1 DEF k
  <2> QED BY <2>1, NotBack
<1>3. r.type = "descriptor" /\ r.seq = id /\ r.lba = lba
  BY DEF Descriptor
<1>4. s.pos = p /\ s.id = id /\ ~s.over /\ Expected(r, s.id)
  BY <1>3 DEF At, Expected
<1>5. Length(r) = 1 + k /\ 1 + k = k + 1
  BY <1>1, <1>3 DEF Length
<1>6. Read(s, r) = At(p, id, lba, {}, E)
  <2>1. Read(s, r) = [s EXCEPT !.lba = lba]
    BY <1>3 DEF Read
  <2> QED BY <2>1 DEF At
<1>7. ReadOn(l, start, s) = [At(p, id, lba, {}, E) EXCEPT !.pos = Ring(p, k + 1), !.over = FALSE]
  BY <1>2, <1>4, <1>5, <1>6 DEF ReadOn
<1> HIDE DEF k
<1> QED BY <1>7 DEF At, k

LEMMA ReadsRevoke ==
    ASSUME NEW l, NEW start \in Positions, NEW p \in Positions, NEW id, NEW lba, NEW E, NEW R,
           Dist(start, p) + 1 < LogSize, l[p] = Revoke(id, R)
    PROVE  ReadOn(l, start, At(p, id, lba, {}, E)) = At(Ring(p, 1), id, lba, R, E)
<1> DEFINE s == At(p, id, lba, {}, E)
           r == l[p]
<1>1. r.type = "revoke" /\ r.seq = id /\ r.blocks = R
  BY DEF Revoke
<1>2. s.pos = p /\ s.id = id /\ ~s.over /\ Expected(r, s.id)
  BY <1>1 DEF At, Expected
<1>3. Length(r) = 1 /\ Ring(p, 1) # start
  BY <1>1, NotBack DEF Length
<1>4. Read(s, r) = At(p, id, lba, R, E)
  <2>1. Read(s, r) = [s EXCEPT !.revoked = @ \cup R]
    BY <1>1 DEF Read
  <2> QED BY <2>1 DEF At
<1>5. ReadOn(l, start, s) = [At(p, id, lba, R, E) EXCEPT !.pos = Ring(p, 1), !.over = FALSE]
  BY <1>2, <1>3, <1>4 DEF ReadOn
<1> QED BY <1>5 DEF At

LEMMA ReadsCommit ==
    ASSUME NEW l, NEW start \in Positions, NEW p \in Positions, NEW id, NEW lba, NEW E, NEW R,
           Dist(start, p) + 1 < LogSize, l[p] = Commit(id)
    PROVE  ReadOn(l, start, At(p, id, lba, R, E))
             = At(Ring(p, 1), id + 1, NoTags, {}, Append(E, [id |-> id, lba |-> lba, revoked |-> R]))
<1> DEFINE s == At(p, id, lba, R, E)
           r == l[p]
           found == Append(E, [id |-> id, lba |-> lba, revoked |-> R])
<1>1. r.type = "commit" /\ r.seq = id
  BY DEF Commit
<1>2. s.pos = p /\ s.id = id /\ ~s.over /\ Expected(r, s.id)
  BY <1>1 DEF At, Expected
<1>3. Length(r) = 1 /\ Ring(p, 1) # start
  BY <1>1, NotBack DEF Length
<1>4. Read(s, r) = At(p, id + 1, NoTags, {}, found)
  <2>1. s.lba = lba /\ s.revoked = R /\ s.found = E
    BY DEF At
  <2>2. Read(s, r) = [s EXCEPT !.found = found, !.id = @ + 1, !.lba = NoTags, !.revoked = {}]
    BY <1>1, <1>2, <2>1 DEF Read
  <2> HIDE DEF found
  <2> QED BY <2>2 DEF At
<1> HIDE DEF found
<1>5. ReadOn(l, start, s)
        = [At(p, id + 1, NoTags, {}, found) EXCEPT !.pos = Ring(p, 1), !.over = FALSE]
  BY <1>2, <1>3, <1>4 DEF ReadOn
<1> QED BY <1>5 DEF At, found

\* The reader goes over a whole transaction, and has it.
LEMMA ReadsTransaction ==
    ASSUME NEW l \in [Positions -> Records], NEW sb \in SuperBlocks, sb.start \in Positions,
           NEW f, Reads(f, l, sb, LogSize),
           NEW t \in Transactions, Written(t, sb.start, l), NEW E,
           NEW m \in 0..LogSize, m <= Dist(sb.start, t.start),
           f[m] = At(t.start, t.id, NoTags, {}, E)
    PROVE  \E n \in 0..LogSize :
             /\ n <= Dist(sb.start, t.start) + t.len
             /\ f[n] = At(Ring(t.start, t.len), t.id + 1, NoTags, {}, Append(E, Entry(t)))
<1> DEFINE k == Cardinality(Tagged(t.lba))
           s == sb.start
           x == Dist(s, t.start)
<1>1. /\ t.start \in Positions /\ t.lba \in Tags /\ t.len \in Nat
      /\ k \in Nat /\ x \in Nat /\ x + t.len < LogSize /\ l[t.start] = Descriptor(t.id, t.lba)
      /\ LogSize \in Nat
  BY TransNat, TagsCounted, DistRange, LogSizeAssumption DEF Written, Transactions
<1>2. /\ IF t.revoke = {}
           THEN t.len = k + 2 /\ l[Ring(t.start, k + 1)] = Commit(t.id)
           ELSE /\ t.len = k + 3 /\ l[Ring(t.start, k + 1)] = Revoke(t.id, t.revoke)
                /\ l[Ring(t.start, k + 2)] = Commit(t.id)
      /\ t.len = k + 2 \/ t.len = k + 3
  BY DEF Written
<1>3. \A i \in 0..LogSize - 1 : f[i + 1] = ReadOn(l, s, f[i])
  BY <1>1, ReadsType
<1>4. x + k + 1 < LogSize /\ m + 1 \in 0..LogSize /\ m \in 0..LogSize - 1 /\ LogSize \in Nat
  <2> HIDE DEF x, k
  <2> QED BY <1>1, <1>2, LogSizeAssumption DEF x
<1>5. f[m + 1] = At(Ring(t.start, k + 1), t.id, t.lba, {}, E)
  BY <1>1, <1>3, <1>4, ReadsDescriptor
<1>6. /\ Ring(t.start, k + 1) \in Positions /\ Dist(s, Ring(t.start, k + 1)) = x + (k + 1)
  <2> HIDE DEF k
  <2>1. k + 1 \in Nat /\ Dist(s, t.start) + (k + 1) < LogSize
    BY <1>1, <1>4 DEF x
  <2> QED BY <1>1, <2>1, DistRing
<1>7. CASE t.revoke = {}
  <2> DEFINE p == Ring(t.start, k + 1)
  <2>1. t.len = k + 2 /\ l[p] = Commit(t.id)
    BY <1>2, <1>7
  <2>2. /\ m + 1 \in 0..LogSize - 1 /\ m + 2 \in 0..LogSize /\ m + 2 <= x + t.len
        /\ x + (k + 1) + 1 < LogSize
    <3> HIDE DEF x, k
    <3> QED BY <1>1, <1>4, <2>1 DEF x
  <2>3. Ring(p, 1) = Ring(t.start, t.len)
    <3> HIDE DEF k, x
    <3>1. k + 1 \in Nat /\ (k + 1) + 1 < LogSize /\ (k + 1) + 1 = t.len
      BY <1>1, <2>1 DEF x
    <3>2. Ring(Ring(t.start, k + 1), 1) = Ring(t.start, (k + 1) + 1)
      BY <1>1, <3>1, RingSum
    <3> QED BY <3>1, <3>2
  <2>4. ReadOn(l, s, At(p, t.id, t.lba, t.revoke, E))
          = At(Ring(t.start, t.len), t.id + 1, NoTags, {}, Append(E, Entry(t)))
    <3> HIDE DEF x, k, p
    <3>1. Dist(s, p) + 1 < LogSize /\ p \in Positions
      BY <1>6, <2>2 DEF p
    <3> QED BY <2>1, <2>3, <3>1, ReadsCommit DEF Entry
  <2>5. f[m + 2] = ReadOn(l, s, f[m + 1])
    <3>1. f[m + 1 + 1] = ReadOn(l, s, f[m + 1])
      BY <1>3, <2>2
    <3> QED BY <3>1
  <2> QED BY <1>5, <1>7, <2>2, <2>4, <2>5
<1>8. CASE t.revoke # {}
  <2> DEFINE p == Ring(t.start, k + 1)
             q == Ring(t.start, k + 2)
  <2>1. t.len = k + 3 /\ l[p] = Revoke(t.id, t.revoke) /\ l[q] = Commit(t.id)
    BY <1>2, <1>8
  <2>2. /\ m + 1 \in 0..LogSize - 1 /\ m + 2 \in 0..LogSize - 1 /\ m + 3 \in 0..LogSize
        /\ m + 3 <= x + t.len /\ x + (k + 1) + 1 < LogSize /\ x + (k + 2) + 1 < LogSize
    <3> HIDE DEF x, k
    <3> QED BY <1>1, <1>4, <2>1 DEF x
  <2>3. Ring(p, 1) = q /\ Ring(q, 1) = Ring(t.start, t.len)
    <3> HIDE DEF k, x
    <3>1. /\ k + 1 \in Nat /\ (k + 1) + 1 < LogSize /\ (k + 1) + 1 = k + 2
          /\ k + 2 \in Nat /\ (k + 2) + 1 < LogSize /\ (k + 2) + 1 = t.len
      BY <1>1, <2>1 DEF x
    <3>2. Ring(Ring(t.start, k + 1), 1) = Ring(t.start, (k + 1) + 1)
      BY <1>1, <3>1, RingSum
    <3>3. Ring(Ring(t.start, k + 2), 1) = Ring(t.start, (k + 2) + 1)
      BY <1>1, <3>1, RingSum
    <3> QED BY <3>1, <3>2, <3>3
  <2>4. q \in Positions /\ Dist(s, q) = x + (k + 2)
    <3> HIDE DEF k
    <3>1. k + 2 \in Nat /\ Dist(s, t.start) + (k + 2) < LogSize
      BY <1>1, <2>1 DEF x
    <3> QED BY <1>1, <3>1, DistRing
  <2>5. ReadOn(l, s, At(p, t.id, t.lba, {}, E)) = At(q, t.id, t.lba, t.revoke, E)
    <3> HIDE DEF x, k, q
    <3>1. Dist(s, p) + 1 < LogSize
      BY <1>6, <2>2
    <3> QED BY <1>6, <2>1, <2>3, <3>1, ReadsRevoke
  <2>6. ReadOn(l, s, At(q, t.id, t.lba, t.revoke, E))
          = At(Ring(t.start, t.len), t.id + 1, NoTags, {}, Append(E, Entry(t)))
    <3> HIDE DEF x, k, q
    <3>1. Dist(s, q) + 1 < LogSize
      BY <2>2, <2>4
    <3> QED BY <2>1, <2>3, <2>4, <3>1, ReadsCommit DEF Entry
  <2>7. f[m + 2] = ReadOn(l, s, f[m + 1]) /\ f[m + 3] = ReadOn(l, s, f[m + 2])
    <3>1. f[m + 1 + 1] = ReadOn(l, s, f[m + 1]) /\ f[m + 2 + 1] = ReadOn(l, s, f[m + 2])
      BY <1>3, <2>2
    <3> QED BY <3>1
  <2> QED BY <1>5, <2>2, <2>5, <2>6, <2>7
<1> QED BY <1>7, <1>8

\* Where the first m transactions of H end, in a log that starts at s
EndOf(H, m, s) == IF m = 0 THEN s ELSE Ring(H[m].start, H[m].len)

\* The transactions of H are in the log l, from its start on one behind the other.
Laid(H, l, sb) ==
    /\ H \in Seq(Transactions) /\ sb.start \in Positions
    /\ \A i \in 1..Len(H) : /\ Written(H[i], sb.start, l)
                            /\ H[i].id = sb.sequence + i - 1
                            /\ H[i].start = EndOf(H, i - 1, sb.start)

Entries(H, m) == [i \in 1..m |-> Entry(H[i])]

LEMMA EntriesAppend ==
    ASSUME NEW H, NEW m \in Nat
    PROVE  Append(Entries(H, m), Entry(H[m + 1])) = Entries(H, m + 1)
<1> DEFINE C == {Entry(H[i]) : i \in 1..m + 1}
<1>1. Entries(H, m) \in [1..m -> C] /\ Entry(H[m + 1]) \in C /\ Entries(H, m + 1) \in [1..m + 1 -> C]
  BY DEF Entries
<1>2. /\ Entries(H, m) \in Seq(C) /\ Len(Entries(H, m)) = m
      /\ Entries(H, m + 1) \in Seq(C) /\ Len(Entries(H, m + 1)) = m + 1
  <2> HIDE DEF C
  <2> QED BY <1>1, IsASeq, LenProperties
<1> DEFINE A == Append(Entries(H, m), Entry(H[m + 1]))
<1>3. /\ A \in Seq(C) /\ Len(A) = m + 1 /\ A[m + 1] = Entry(H[m + 1])
      /\ \A i \in 1..m : A[i] = Entries(H, m)[i]
  <2> HIDE DEF C
  <2> QED BY <1>1, <1>2, AppendProperties
<1>4. \A i \in 1..m + 1 : A[i] = Entries(H, m + 1)[i]
  <2>1. \A i \in 1..m : A[i] = Entry(H[i]) /\ Entries(H, m + 1)[i] = Entry(H[i])
    BY <1>3 DEF Entries
  <2>2. Entries(H, m + 1)[m + 1] = Entry(H[m + 1])
    BY DEF Entries
  <2> HIDE DEF A
  <2> QED BY <1>3, <2>1, <2>2
<1> HIDE DEF A, C
<1> QED BY <1>2, <1>3, <1>4, SeqEqual DEF A

LEMMA EndOfRange ==
    ASSUME NEW l, NEW sb \in SuperBlocks, NEW H, Laid(H, l, sb), NEW m \in 0..Len(H)
    PROVE  /\ EndOf(H, m, sb.start) \in Positions
           /\ m = 0 => Dist(sb.start, EndOf(H, m, sb.start)) = 0
           /\ m > 0 => Dist(sb.start, EndOf(H, m, sb.start))
                         = Dist(sb.start, H[m].start) + H[m].len
<1>1. sb.start \in Positions /\ H \in Seq(Transactions) /\ Len(H) \in Nat
  BY LenProperties DEF Laid
<1>2. CASE m = 0
  BY <1>1, <1>2 DEF EndOf, Dist, Positions
<1>3. CASE m > 0
  <2>1. /\ m \in 1..Len(H) /\ H[m] \in Transactions
    BY <1>1, <1>3, ElementOfSeq
  <2>2. H[m].start \in Positions /\ H[m].len \in Nat
        /\ Dist(sb.start, H[m].start) + H[m].len < LogSize
    BY <2>1, TransNat DEF Laid, Written
  <2> QED BY <1>1, <1>3, <2>2, DistRing DEF EndOf
<1> QED BY <1>1, <1>2, <1>3

\* What recovery finds is what has been written, and all of it.
THEOREM FoundLaid ==
    ASSUME NEW l \in [Positions -> Records], NEW sb \in SuperBlocks, NEW H,
           Laid(H, l, sb), CommitsBelow(l, sb.sequence + Len(H))
    PROVE  Found(l, sb) = Entries(H, Len(H))
<1> DEFINE s == sb.start
           e(m) == EndOf(H, m, s)
<1>1. PICK f : Reads(f, l, sb, LogSize) /\ Found(l, sb) = f[LogSize].found
  BY FoundIs
<1>2. /\ s \in Positions /\ H \in Seq(Transactions) /\ Len(H) \in Nat /\ LogSize \in Nat
      /\ sb.sequence \in Nat
  BY LenProperties, LogSizeAssumption DEF Laid, SuperBlocks
<1> DEFINE Reached(m, n) == /\ n <= Dist(s, e(m))
                            /\ f[n] = At(e(m), sb.sequence + m, NoTags, {}, Entries(H, m))
           S == {m \in 0..Len(H) : \E n \in 0..LogSize : Reached(m, n)}
<1>3. 0 \in S
  <2>1. f[0] = Reading(sb) /\ s # 0
    BY <1>1, <1>2, ReadsType DEF Positions
  <2>2. e(0) = s /\ sb.sequence + 0 = sb.sequence /\ Dist(s, e(0)) = 0
    <3>1. 0 \in 0..Len(H)
      BY <1>2
    <3>2. Dist(s, e(0)) = 0
      BY <3>1, EndOfRange
    <3>3. e(0) = s /\ sb.sequence + 0 = sb.sequence
      BY <1>2 DEF EndOf
    <3> QED BY <3>2, <3>3
  <2>3. Entries(H, 0) = <<>>
    <3>1. Entries(H, 0) \in [1..0 -> {}]
      BY DEF Entries
    <3>2. Entries(H, 0) \in Seq({}) /\ Len(Entries(H, 0)) = 0
      BY <3>1, IsASeq, LenProperties
    <3> QED BY <3>2, EmptySeq
  <2>4. Reading(sb) = At(s, sb.sequence, NoTags, {}, <<>>)
    BY <2>1 DEF Reading, At
  <2>5. Reached(0, 0)
    <3> HIDE DEF s, e
    <3> QED BY <2>1, <2>2, <2>3, <2>4
  <2> QED BY <1>2, <2>5
<1>4. ASSUME NEW m \in 0..Len(H) - 1, m \in S
      PROVE  m + 1 \in S
  <2> DEFINE t == H[m + 1]
  <2>1. PICK n \in 0..LogSize : Reached(m, n)
    BY <1>4
  <2>2. /\ m + 1 \in 1..Len(H) /\ t \in Transactions /\ Written(t, s, l)
        /\ t.id = sb.sequence + (m + 1) - 1 /\ t.start = EndOf(H, (m + 1) - 1, s)
    BY <1>2, ElementOfSeq DEF Laid
  <2>3. t.id = sb.sequence + m /\ t.id + 1 = sb.sequence + (m + 1) /\ t.start = e(m)
    <3>1. (m + 1) - 1 = m /\ sb.sequence + (m + 1) - 1 = sb.sequence + m
      BY <1>2
    <3>2. t.id = sb.sequence + m /\ t.start = e(m)
      BY <2>2, <3>1
    <3> HIDE DEF t
    <3> QED BY <1>2, <3>2
  <2>4. \E k \in 0..LogSize :
          /\ k <= Dist(s, t.start) + t.len
          /\ f[k] = At(Ring(t.start, t.len), t.id + 1, NoTags, {}, Append(Entries(H, m), Entry(t)))
    <3> DEFINE E == Entries(H, m)
    <3>1. n <= Dist(s, t.start) /\ f[n] = At(t.start, t.id, NoTags, {}, E)
      BY <2>1, <2>3
    <3>2. sb.start \in Positions /\ t \in Transactions /\ Written(t, sb.start, l)
      BY <1>2, <2>2
    <3> HIDE DEF t, e, E, S, Reached
    <3>3. \E k \in 0..LogSize :
            /\ k <= Dist(sb.start, t.start) + t.len
            /\ f[k] = At(Ring(t.start, t.len), t.id + 1, NoTags, {}, Append(E, Entry(t)))
      BY <1>1, <3>1, <3>2, ReadsTransaction
    <3> QED BY <3>3 DEF E
  <2>5. e(m + 1) = Ring(t.start, t.len) /\ Dist(s, e(m + 1)) = Dist(s, t.start) + t.len
    <3>1. m + 1 \in 0..Len(H) /\ m + 1 > 0 /\ m + 1 # 0
      BY <1>2
    <3> QED BY <3>1, EndOfRange DEF EndOf
  <2>6. Append(Entries(H, m), Entry(t)) = Entries(H, m + 1)
    <3>1. m \in Nat
      BY <1>2
    <3> QED BY <3>1, EntriesAppend
  <2>7. PICK k \in 0..LogSize : Reached(m + 1, k)
    <3> HIDE DEF t, e, s
    <3> QED BY <2>3, <2>4, <2>5, <2>6
  <2> QED BY <1>2, <2>7
<1>5. Len(H) \in S
  <2>1. 0..Len(H) \subseteq S
    <3> HIDE DEF S
    <3> QED BY <1>2, <1>3, <1>4, UpTo
  <2> HIDE DEF S
  <2> QED BY <1>2, <2>1
<1>6. PICK n \in 0..LogSize : f[n] = At(e(Len(H)), sb.sequence + Len(H), NoTags, {}, Entries(H, Len(H)))
  BY <1>5
<1>7. f[n].id = sb.sequence + Len(H) /\ f[n].found = Entries(H, Len(H))
  <2> HIDE DEF e
  <2> QED BY <1>6 DEF At
<1>8. f[LogSize].found = f[n].found
  BY <1>1, <1>2, <1>7, NoMore
<1> QED BY <1>1, <1>7, <1>8

\* A superblock that gives no start stands for an empty log.
LEMMA FoundNone ==
    ASSUME NEW l \in [Positions -> Records], NEW sb \in SuperBlocks, sb.start = 0
    PROVE  Found(l, sb) = <<>>
<1>1. PICK f : Reads(f, l, sb, LogSize) /\ Found(l, sb) = f[LogSize].found
  BY FoundIs
<1>2. LogSize \in Nat
  BY LogSizeAssumption
<1> DEFINE S == {k \in 0..LogSize : f[k].over /\ f[k].found = <<>>}
<1>3. 0 \in S
  <2>1. f[0] = Reading(sb)
    BY <1>1, <1>2, ReadsType
  <2>2. f[0].over = (sb.start = 0) /\ f[0].found = <<>>
    BY <2>1 DEF Reading
  <2>3. f[0].over = TRUE
    BY <2>2
  <2>4. 0 \in 0..LogSize
    BY <1>2
  <2> QED BY <2>2, <2>3, <2>4
<1>4. ASSUME NEW k \in 0..LogSize - 1, f[k].over, f[k].found = <<>>
      PROVE  f[k + 1].over /\ f[k + 1].found = <<>>
  <2>1. f[k + 1] = ReadOn(l, sb.start, f[k]) /\ OnTrack(f[k])
    <3>1. k \in 0..LogSize
      BY <1>2
    <3> QED BY <1>1, <1>2, <3>1, ReadsType
  <2>2. f[k + 1] = [f[k] EXCEPT !.over = TRUE]
    BY <1>4, <2>1 DEF ReadOn
  <2> QED BY <1>4, <2>1, <2>2 DEF OnTrack, Readers
<1>5. 0..LogSize \subseteq S
  <2>1. \A k \in 0..LogSize - 1 : k \in S => k + 1 \in S
    BY <1>2, <1>4
  <2> HIDE DEF S
  <2> QED BY <1>2, <1>3, <2>1, UpTo
<1> QED BY <1>1, <1>2, <1>5
=============================================================================
