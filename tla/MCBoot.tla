------------------------------- MODULE MCBoot -------------------------------
(***************************************************************************)
(* Boot with small directories: sound entries, one that does not parse,    *)
(* one whose kernel is missing, and subdirectories between them.           *)
(***************************************************************************)
EXTENDS Boot

File(n) == [name |-> n, type |-> "file", parses |-> TRUE, loads |-> TRUE]
Dot == [name |-> ".", type |-> "dir", parses |-> FALSE, loads |-> FALSE]
Broken == [name |-> "broken", type |-> "file", parses |-> FALSE, loads |-> TRUE]
Gone == [name |-> "gone", type |-> "file", parses |-> TRUE, loads |-> FALSE]

MCDirs == {<<Dot>>, <<Dot, File("a")>>, <<Dot, File("a"), File("b")>>,
           <<File("b"), Dot, File("a")>>, <<Dot, Broken, File("a"), File("b")>>,
           <<Dot, Gone, File("c"), File("a")>>}
=============================================================================
