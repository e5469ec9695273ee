---------------------------- MODULE ArchiveBody ----------------------------
(***************************************************************************)
(* The members of an archive as a caller sees them: a map from names to    *)
(* data that starts empty, is filled by a writer and changed by edits of   *)
(* one member at a time.  ArchiveTables implements it with a hash table    *)
(* and a block table; UpdateTransaction takes its edits from the same      *)
(* definitions.                                                            *)
(***************************************************************************)
EXTENDS ArchiveEdits

VARIABLE body

Init == body = [m \in Member |-> Absent]

Next == body' \in Added(body) \cup Edited(body)

Spec == Init /\ [][Next]_body
=============================================================================
