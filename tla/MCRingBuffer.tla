---------------------------- MODULE MCRingBuffer ----------------------------
(* Every chunk of up to max_len + 1 bytes over two values. *)
EXTENDS RingBuffer

MCByte == {0, 1}
MCChunks == UNION {[1..n -> MCByte] : n \in 0..(max_len + 1)}
MCWants == 0..(max_len + 1)
=============================================================================
