------------------------------ MODULE MCBuffer ------------------------------
(* Buffer for TLC: two kinds of bytes, one of them the zero of resize(), in  *)
(* chunks of up to four, which fill the empty vector and the second buffer.  *)
EXTENDS Buffer

MCByte == {0, 1}

MCChunks == UNION {[1..n -> MCByte] : n \in 0..4}
=============================================================================
