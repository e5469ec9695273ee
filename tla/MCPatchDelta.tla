---------------------------- MODULE MCPatchDelta ----------------------------
(***************************************************************************)
(* Contents with long runs of zeros around a changed middle: that is where *)
(* a packed difference beats a copy.  The longest heads are longer than a  *)
(* move can say.                                                           *)
(***************************************************************************)
EXTENDS PatchDelta

Run(n) == [i \in 1..n |-> 0]

\* Few cells of it are equal to their neighbours.
Stripes == [i \in 1..16 |-> 7 - (i % 3)] \o <<2>>

MCContent ==
    {Run(n) \o middle \o Run(k) :
        n \in {0, 3, 32, 33}, k \in {0, 2, 13},
        middle \in {<<>>, <<2>>, <<1, 2>>, <<5, 6, 2>>, Stripes}}

MCInput == [before : MCContent, after : MCContent]
=============================================================================
