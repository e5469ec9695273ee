-------------------------- MODULE MCArchiveWriter --------------------------
(***************************************************************************)
(* Instances of ArchiveWriter for TLC: sectors of two bytes, members of up *)
(* to two sectors in every storage form.                                   *)
(***************************************************************************)
EXTENDS ArchiveWriter

Form(size, single, packed, crc, prefix) ==
    [size |-> size, single |-> single, packed |-> packed, crc |-> crc, prefix |-> prefix]

\* A packed single unit of one sector, packed sectors with checksums, and
\* a patch member of raw sectors; the generated members have the other forms.
MCRequest ==
    {Form(2, TRUE, TRUE, FALSE, 0),
     Form(3, FALSE, TRUE, TRUE, 0),
     Form(3, FALSE, FALSE, FALSE, 1)}

\* An empty member that is to be packed.
MCEmpty == {Form(0, FALSE, TRUE, FALSE, 0)}

\* A member beyond the limit whose packed data need not be.
MCLarge == {Form(13, FALSE, TRUE, FALSE, 0)}
=============================================================================
