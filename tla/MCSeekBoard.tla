---------------------------- MODULE MCSeekBoard ----------------------------
(***************************************************************************)
(* The board on its own: four people, three seeks each.                    *)
(***************************************************************************)
EXTENDS SeekBoard, Integers

MCOwners == {"ada", "ben", "cat", "dan"}
MCSeeks == MCOwners \X (1..3)
MCOwnerOf == [s \in MCSeeks |-> s[1]]
=============================================================================
