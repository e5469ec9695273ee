-------------------------- MODULE MCArchiveTables --------------------------
(***************************************************************************)
(* Constants for model checking ArchiveTables.  Most probes begin at the   *)
(* last slot, so that they collide and wrap around.  m1 stands for a path  *)
(* with a backslash and m2 for the same path with a forward slash.         *)
(***************************************************************************)
EXTENDS ArchiveTables, TLC

CONSTANTS m1, m2, m3

MCName == {m1, m2, m3} \cup Reserved

MCStart == [n \in MCName |-> IF n \in {Listfile, m3} THEN 0 ELSE Slots - 1]

MCReadKey == [n \in MCName |-> n]

MCFileKey == [n \in MCName |-> IF n = m2 THEN m1 ELSE n]

MCBlock == 0..3

MCSymmetry == Permutations(Value)
=============================================================================
