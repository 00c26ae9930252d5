---------------------------- MODULE AtomicStore -----------------------------
(***************************************************************************)
(* What a journal promises to the file system above it: the blocks change  *)
(* only by whole transactions, whatever happens in between.  store is what *)
(* the blocks in use hold after a power failure and the recovery that      *)
(* follows it, work what the program that uses them reads, and open tells  *)
(* whether a transaction is running.  The log, its superblock, the         *)
(* checkpoint and the replay are not mentioned: Journal implements it.     *)
(***************************************************************************)
VARIABLES store, work, open
vars == <<store, work, open>>

Init == work = store /\ open = FALSE

Begin == ~open /\ open' /\ UNCHANGED <<store, work>>

\* The running transaction changes what its program reads and nothing else.
Update == open /\ open' /\ UNCHANGED store

\* A commit makes all of that durable in one step.
Commit == open /\ ~open' /\ store' = work /\ UNCHANGED work

\* An abort, or a power failure, takes all of it back.
Rollback == open /\ ~open' /\ work' = store /\ UNCHANGED store

Next == Begin \/ Update \/ Commit \/ Rollback

Spec == Init /\ [][Next]_vars
=============================================================================
