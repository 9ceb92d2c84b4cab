------------------------------ MODULE MCFsData ------------------------------
(* A small instance of FsData: one file of mkfs, of every length that a     *)
(* direct block and one indirect block make interesting.                    *)
EXTENDS FsData

MCImages == {<<0>>, <<5>>}
=============================================================================
