--------------------------- MODULE MCStorageLabels ---------------------------
(***************************************************************************)
(* A small instance of StorageLabels: two files and two labels, so that    *)
(* two uploads may be of the same content under different labels.          *)
(***************************************************************************)
EXTENDS StorageLabels, TLC

CONSTANTS c1, c2, l1, l2
MCContents == {c1, c2}
MCLabels == {l1, l2}
=============================================================================
