--------------------------- MODULE MCServerBuffer ---------------------------
(***************************************************************************)
(* The input and the output buffer of a connection for TLC: they are alike, *)
(* so that permuting them changes nothing.                                 *)
(***************************************************************************)
EXTENDS ServerBuffer, TLC

BufferSymmetry == Permutations(Buffers)
=============================================================================
