---------------------------- MODULE MCFileBroker ----------------------------
(* A directory with room for three files, two values of different length,   *)
(* and limits the calls reach: the grant's are lower than the directory's. *)
EXTENDS FileBroker, TLC

CONSTANTS i1, i2, i3

SizeOf(v) == IF v = "short" THEN 1 ELSE 2

LimitsOf ==
  [dir  |-> [operations |-> 2, file |-> 2, read |-> 2, write |-> 2],
   file |-> [operations |-> 2, file |-> 1, read |-> 1, write |-> 1]]

Files == Permutations(Inode)
=============================================================================
