------------------------------ MODULE MCFileIo ------------------------------
(***************************************************************************)
(* FileIo on a handful of blocks, small enough for TLC.                    *)
(***************************************************************************)
EXTENDS FileIo

MCPhys == 1..3
MCPhys2 == 1..2
AllOrigins == {"SET", "CUR", "END"}
FromEnds == {"SET", "END"}
=============================================================================
