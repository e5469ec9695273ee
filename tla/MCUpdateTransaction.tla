------------------------ MODULE MCUpdateTransaction ------------------------
(***************************************************************************)
(* Constants for model checking UpdateTransaction.  Handles, inodes and    *)
(* member names are interchangeable: no definition names one of them.      *)
(***************************************************************************)
EXTENDS UpdateTransaction, TLC

Symmetry == Permutations(Handle) \cup Permutations(Inode) \cup Permutations(Member)

\* What a leaked temporary stores is never read again.
View == <<dest, [i \in Inode |-> IF i \in leaked THEN Partial ELSE data[i]],
          temps, pc, txn, outcome, leaked>>
=============================================================================
