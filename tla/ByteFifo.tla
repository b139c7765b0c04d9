------------------------------ MODULE ByteFifo ------------------------------
(***************************************************************************)
(* What the users of rb.c rely on: a bounded first-in first-out queue of   *)
(* bytes.  A write takes as many of the offered bytes as fit, a read, a    *)
(* skip or a peek reaches as many of the wanted bytes as there are, always *)
(* the oldest ones and in order.                                           *)
(***************************************************************************)
EXTENDS Integers, Sequences

CONSTANTS
    Capacity,  \* max_len
    Byte,      \* byte values
    Chunks,    \* the sequences of bytes a caller offers to a write
    Wants      \* the lengths a caller asks for

VARIABLES
    queue,     \* bytes written and not yet read
    got,       \* bytes the last call handed to its caller
    ret        \* its return value

fifoVars == <<queue, got, ret>>

FifoInit == queue = <<>> /\ got = <<>> /\ ret = 0

Smaller(m, n) == IF m <= n THEN m ELSE n

Put(chunk) ==
    /\ ret' = Smaller(Len(chunk), Capacity - Len(queue))
    /\ queue' = queue \o SubSeq(chunk, 1, ret')
    /\ got' = <<>>

Take(n) ==
    /\ ret' = Smaller(n, Len(queue))
    /\ queue' = SubSeq(queue, ret' + 1, Len(queue))
    /\ got' = SubSeq(queue, 1, ret')

Drop(n) ==
    /\ ret' = Smaller(n, Len(queue))
    /\ queue' = SubSeq(queue, ret' + 1, Len(queue))
    /\ got' = <<>>

Look(n) ==
    /\ ret' = Smaller(n, Len(queue))
    /\ got' = SubSeq(queue, 1, ret')
    /\ UNCHANGED queue

FifoNext == \/ \E chunk \in Chunks : Put(chunk)
            \/ \E n \in Wants : Take(n) \/ Drop(n) \/ Look(n)

FifoSpec == FifoInit /\ [][FifoNext]_fifoVars
=============================================================================
