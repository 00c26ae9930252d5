----------------------------- MODULE MCJournal ------------------------------
(***************************************************************************)
(* Journal on a few blocks and a small log, for TLC.                       *)
(***************************************************************************)
EXTENDS Journal

CONSTANTS bitmap, a

MCBlocks == {bitmap, a}
NoTriggers == {}
OnlyRestart == {"restart"}
=============================================================================
