----------------------------- MODULE RingBuffer -----------------------------
(***************************************************************************)
(* The ring buffer of src/rb.c, through which every byte received from a   *)
(* peer, a relay server or an application passes.  One action is one call; *)
(* its byte-by-byte loop is given by what it leaves behind.  All fields    *)
(* are uint16_t; the sums in the code are computed as int and are reduced  *)
(* modulo max_len before they are stored.                                  *)
(***************************************************************************)
EXTENDS Integers, Sequences

CONSTANTS max_len, Byte, Chunks, Wants

ASSUME RingAssumption ==
    /\ max_len \in 1..65535
    /\ Chunks \subseteq Seq(Byte)
    /\ Wants \subseteq Nat
    /\ 0 \in Byte

VARIABLES data, read, data_len,  \* the fields of ring_buffer_t
          got, ret               \* what the last call handed back

ringVars == <<data, read, data_len, got, ret>>

Cells == 0..(max_len - 1)

\* ring_buffer_init over zeroed backing memory.
ring_buffer_init ==
    /\ data = [p \in Cells |-> 0]
    /\ read = 0 /\ data_len = 0
    /\ got = <<>> /\ ret = 0

ring_buffer_length == data_len
ring_buffer_space == max_len - data_len

AtMost(m, n) == IF m <= n THEN m ELSE n

\* Moving a cursor forward, with wrap-around.
Forward(p, k) == (p + k) % max_len

\* The k bytes of memory d from cursor r on, and memory d after the first k
\* bytes of a chunk have been stored from cursor w on.
Bytes(d, r, k) == [i \in 1..k |-> d[Forward(r, i - 1)]]

After(w, p) == (p - w) % max_len
Stored(d, w, chunk, k) ==
    [p \in Cells |-> IF After(w, p) < k THEN chunk[After(w, p) + 1] ELSE d[p]]

\* Mutant: the space left is not looked at.
WriteOverruns(chunk) ==
    /\ ret' = AtMost(Len(chunk), max_len)
    /\ data' = Stored(data, Forward(read, data_len), chunk, ret')
    /\ data_len' = AtMost(data_len + ret', max_len)
    /\ got' = <<>>
    /\ UNCHANGED read

\* Stops as soon as the buffer is full.
ring_buffer_write(chunk) ==
    /\ ret' = AtMost(Len(chunk), ring_buffer_space)
    /\ data' = Stored(data, Forward(read, data_len), chunk, ret')
    /\ data_len' = data_len + ret'
    /\ got' = <<>>
    /\ UNCHANGED read

\* Mutant: the read cursor is not wrapped.
ConsumeUnwrapped(n) ==
    /\ ret' = AtMost(n, data_len)
    /\ data_len' = data_len - ret'
    /\ read' = read + ret'
    /\ UNCHANGED data

\* What ring_buffer_read and ring_buffer_skip have in common.
Consume(n) ==
    /\ ret' = AtMost(n, data_len)
    /\ data_len' = data_len - ret'
    /\ read' = Forward(read, ret')
    /\ UNCHANGED data

ring_buffer_read(n) == Consume(n) /\ got' = Bytes(data, read, ret')

ring_buffer_skip(n) == Consume(n) /\ got' = <<>>

ring_buffer_peek(n) ==
    /\ ret' = AtMost(n, data_len)
    /\ got' = Bytes(data, read, ret')
    /\ UNCHANGED <<data, read, data_len>>

Next == \/ \E chunk \in Chunks : ring_buffer_write(chunk)
        \/ \E n \in Wants : \/ ring_buffer_read(n)
                            \/ ring_buffer_skip(n)
                            \/ ring_buffer_peek(n)

Spec == ring_buffer_init /\ [][Next]_ringVars

-----------------------------------------------------------------------------
(* Properties. *)

\* The cursor stays inside the backing memory and the length inside the
\* buffer, whatever is read, skipped or written.
RingTypeOK ==
    /\ data \in [Cells -> Byte]
    /\ read \in Cells
    /\ data_len \in 0..max_len
    /\ got \in Seq(Byte)
    /\ ret \in 0..max_len

Fifo == INSTANCE ByteFifo WITH Capacity <- max_len, queue <- Bytes(data, read, data_len)

\* The ring buffer is a bounded first-in first-out queue of bytes: no
\* interleaving of calls, wrap-around or full buffer loses, duplicates or
\* reorders a byte that was accepted.
ImplementsFifo == Fifo!FifoSpec
=============================================================================
