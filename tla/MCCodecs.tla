------------------------------ MODULE MCCodecs ------------------------------
(***************************************************************************)
(* The codec calls of one sector, for TLC: either the whole chain of       *)
(* SectorCodec, or the adaptive Huffman codec byte by byte.  A call has    *)
(* its buffers and trees to itself, so the two never overlap.              *)
(***************************************************************************)
EXTENDS Huffman, SectorCodec

CodecInit == Init /\ SectorInit

CodecNext ==
    \/ /\ sector = NoSector
       /\ Next
       /\ UNCHANGED svars
    \/ /\ input = <<>> /\ coding = "open"
       /\ SectorNext
       /\ UNCHANGED vars

CodecSpec == CodecInit /\ [][CodecNext]_<<vars, svars>>
=============================================================================
