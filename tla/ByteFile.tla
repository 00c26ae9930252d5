------------------------------ MODULE ByteFile ------------------------------
(***************************************************************************)
(* What an open file promises, whatever blocks it is made of: a sequence   *)
(* of units and a position.  A read returns what is there; a write stores  *)
(* its data piece by piece at the position, growing the file.              *)
(***************************************************************************)
EXTENDS Naturals, Sequences

CONSTANT MayFail    \* device accesses may fail

VARIABLES
    content,    \* the units of the file
    pos,        \* the position
    writing,    \* a write is in progress ...
    todo,       \* ... and has this yet to store
    result      \* what the read that has just returned gave its caller

vars == <<content, pos, writing, todo, result>>

Splice(c, p, d) ==
    [i \in 1..(IF Len(c) < p + Len(d) THEN p + Len(d) ELSE Len(c)) |->
        IF p < i /\ i <= p + Len(d) THEN d[i - p] ELSE c[i]]

Init == pos = 0 /\ ~writing /\ todo = <<>> /\ result = <<>>

(* A read that succeeds returns at most n units: fewer, only at the end.   *)
Read(n) ==
    /\ ~writing /\ pos <= Len(content)
    /\ LET last == IF Len(content) < pos + n THEN Len(content) ELSE pos + n
       IN  result' = SubSeq(content, pos + 1, last) /\ pos' = last
    /\ UNCHANGED <<content, writing, todo>>

ReadError ==
    /\ MayFail /\ ~writing
    /\ pos' >= pos /\ pos' <= Len(content)
    /\ UNCHANGED <<content, writing, todo, result>>

Write ==
    /\ ~writing /\ writing' /\ todo' # <<>>
    /\ result' = <<>>
    /\ UNCHANGED <<content, pos>>

Store(k) ==
    /\ writing
    /\ content' = Splice(content, pos, SubSeq(todo, 1, k))
    /\ pos' = pos + k
    /\ todo' = SubSeq(todo, k + 1, Len(todo))
    /\ UNCHANGED <<writing, result>>

(* A write ends when it has stored everything, or when it has to grow the  *)
(* file and there is no space left.                                        *)
Written ==
    /\ writing /\ ~writing'
    /\ todo = <<>> \/ pos + Len(todo) > Len(content)
    /\ todo' = <<>>
    /\ UNCHANGED <<content, pos, result>>

(* The device failed: of the data left to store any part may be there, and *)
(* the file may have grown by units that nobody stored.                    *)
WriteError ==
    /\ MayFail
    /\ writing /\ ~writing'
    /\ todo' = <<>>
    /\ Len(content') >= Len(content)
    /\ \A i \in 1..Len(content) :
          \/ content'[i] = content[i]
          \/ pos < i /\ i <= pos + Len(todo) /\ content'[i] = todo[i - pos]
    /\ UNCHANGED <<pos, result>>

\* Also the start of a read, which has no result yet.
Seek ==
    /\ ~writing
    /\ pos' <= Len(content)
    /\ result' = <<>>
    /\ UNCHANGED <<content, writing, todo>>

Truncate(n) ==
    /\ ~writing
    /\ content' = SubSeq(content, 1, n)
    /\ pos' = IF pos > n THEN n ELSE pos
    /\ result' = <<>>
    /\ UNCHANGED <<writing, todo>>

Next ==
    \/ \E n \in 1..Len(content) + 1 : Read(n)
    \/ ReadError \/ Write \/ Written \/ WriteError \/ Seek
    \/ \E k \in 1..Len(todo) : Store(k)
    \/ \E n \in 0..Len(content) : Truncate(n)

Spec == Init /\ [][Next]_vars
=============================================================================
