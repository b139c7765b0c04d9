-------------------------- MODULE RingBufferProofs --------------------------
(***************************************************************************)
(* The ring buffer implements the byte queue, for every size up to the     *)
(* uint16_t limit and every alphabet.  The argument: modulo max_len, a     *)
(* cursor that is at most one turn off wraps by adding or subtracting      *)
(* max_len once, so the bytes a call copies are at known cells, and two    *)
(* sequences are equal when their lengths and elements are.                *)
(***************************************************************************)
EXTENDS RingBuffer, SequenceTheorems, TLAPS

LEMMA MaxLen == max_len \in Nat /\ max_len >= 1 /\ max_len <= 65535
  BY RingAssumption DEF RingAssumption

LEMMA Arguments == /\ \A chunk \in Chunks : chunk \in Seq(Byte)
                   /\ \A n \in Wants : n \in Nat
  BY RingAssumption DEF RingAssumption

(* Remainders within one turn. *)

LEMMA ModSame == ASSUME NEW m \in Nat, NEW x \in Int, 0 <= x, x < m
                 PROVE  x % m = x
  BY SMT

LEMMA ModOver == ASSUME NEW m \in Nat, NEW x \in Int, m <= x, x < m + m
                 PROVE  x % m = x - m
  <1>1. m > 0 /\ x = m * (x \div m) + (x % m) /\ x % m \in 0..(m - 1)
        /\ x \div m \in Int
    BY SMT
  <1>2. ASSUME NEW q \in Int, NEW r \in 0..(m - 1), x = m * q + r
        PROVE  q = 1
    <2>1. CASE q >= 2
      <3>1. m * q >= m + m
        BY <2>1, SMT
      <3> QED BY <3>1, <1>2, SMT
    <2>2. CASE q <= 0
      <3>1. m * q <= 0
        BY <2>2, SMT
      <3> QED BY <3>1, <1>2, SMT
    <2> QED BY <2>1, <2>2, SMT
  <1>3. x \div m = 1
    BY <1>1, <1>2
  <1> QED BY <1>1, <1>3, SMT

LEMMA ModUnder == ASSUME NEW m \in Nat, NEW x \in Int, -m <= x, x < 0
                  PROVE  x % m = x + m
  <1>1. m > 0 /\ x = m * (x \div m) + (x % m) /\ x % m \in 0..(m - 1)
        /\ x \div m \in Int
    BY SMT
  <1>2. ASSUME NEW q \in Int, NEW r \in 0..(m - 1), x = m * q + r
        PROVE  q = -1
    <2>1. CASE q >= 0
      <3>1. m * q >= 0
        BY <2>1, SMT
      <3> QED BY <3>1, <1>2, SMT
    <2>2. CASE q <= -2
      <3>1. m * q <= -(m + m)
        BY <2>2, SMT
      <3> QED BY <3>1, <1>2, SMT
    <2> QED BY <2>1, <2>2, SMT
  <1>3. x \div m = -1
    BY <1>1, <1>2
  <1> QED BY <1>1, <1>3, SMT

\* A cursor moved forward by at most one turn.
LEMMA ForwardCell ==
    ASSUME NEW p \in Cells, NEW k \in 0..max_len
    PROVE  /\ Forward(p, k) \in Cells
           /\ Forward(p, k) = IF p + k < max_len THEN p + k ELSE p + k - max_len
  <1>1. max_len \in Nat /\ p \in Int /\ k \in Int /\ 0 <= p + k
        /\ p + k < max_len + max_len
    BY RingAssumption DEF RingAssumption, Cells
  <1>2. CASE p + k < max_len
    BY <1>1, <1>2, ModSame DEF Forward, Cells
  <1>3. CASE max_len <= p + k
    <2> DEFINE x == p + k
    <2>0. x \in Int /\ max_len <= x /\ x < max_len + max_len
      BY <1>1, <1>3
    <2> HIDE DEF x
    <2>1. x % max_len = x - max_len
      BY <1>1, <2>0, ModOver
    <2>2. Forward(p, k) = x % max_len
      BY Zenon DEF Forward, x
    <2>3. Forward(p, k) = x - max_len
      BY <2>1, <2>2
    <2>4. x = p + k
      BY DEF x
    <2> QED BY <1>1, <1>3, <2>3, <2>4, MaxLen DEF Cells
  <1> QED BY <1>1, <1>2, <1>3

\* Moving a cursor forward twice is moving it forward once.
LEMMA ForwardTwice ==
    ASSUME NEW p \in Cells, NEW j \in 0..max_len, NEW k \in 0..max_len,
           j + k <= max_len
    PROVE  Forward(Forward(p, j), k) = Forward(p, j + k)
  <1> DEFINE q == Forward(p, j)
  <1>1. q \in Cells /\ q = IF p + j < max_len THEN p + j ELSE p + j - max_len
    BY ForwardCell
  <1> HIDE DEF q
  <1>2. Forward(q, k) = IF q + k < max_len THEN q + k ELSE q + k - max_len
    BY <1>1, ForwardCell
  <1>3. j + k \in 0..max_len
    BY MaxLen
  <1>4. Forward(p, j + k)
          = IF p + (j + k) < max_len THEN p + (j + k) ELSE p + (j + k) - max_len
    BY <1>3, ForwardCell
  <1>5. Forward(q, k) = Forward(p, j + k)
    BY <1>1, <1>2, <1>4, MaxLen DEF Cells
  <1> QED BY <1>5 DEF q

\* How far after cursor w a cell comes.
LEMMA AfterCell ==
    ASSUME NEW w \in Cells, NEW p \in Cells
    PROVE  /\ After(w, p) \in Cells
           /\ After(w, p) = IF p >= w THEN p - w ELSE p - w + max_len
  <1>2. max_len \in Nat /\ p - w \in Int /\ -max_len <= p - w /\ p - w < max_len
    BY MaxLen DEF Cells
  <1>3. CASE p >= w
    <2>1. 0 <= p - w
      BY <1>3 DEF Cells
    <2>2. (p - w) % max_len = p - w
      BY <1>2, <2>1, ModSame
    <2>3. After(w, p) = p - w
      BY <2>2 DEF After
    <2> QED BY <1>2, <1>3, <2>1, <2>3 DEF Cells
  <1>4. CASE ~(p >= w)
    <2>1. p - w < 0
      BY <1>4 DEF Cells
    <2>2. (p - w) % max_len = p - w + max_len
      BY <1>2, <2>1, ModUnder
    <2>3. After(w, p) = p - w + max_len
      BY <2>2 DEF After
    <2> QED BY <1>2, <1>4, <2>1, <2>3 DEF Cells
  <1> QED BY <1>3, <1>4

\* The cell j steps after the read cursor, seen from the write cursor.
LEMMA AfterWrite ==
    ASSUME NEW r \in Cells, NEW n \in 0..max_len, NEW j \in Cells
    PROVE  After(Forward(r, n), Forward(r, j))
             = IF j >= n THEN j - n ELSE j - n + max_len
  <1> DEFINE w == Forward(r, n)
             c == Forward(r, j)
  <1>1. w \in Cells /\ w = IF r + n < max_len THEN r + n ELSE r + n - max_len
    BY ForwardCell
  <1>2. j \in 0..max_len
    BY MaxLen DEF Cells
  <1>3. c \in Cells /\ c = IF r + j < max_len THEN r + j ELSE r + j - max_len
    BY <1>2, ForwardCell
  <1> HIDE DEF w, c
  <1>4. After(w, c) = IF c >= w THEN c - w ELSE c - w + max_len
    BY <1>1, <1>3, AfterCell
  <1>5. After(w, c) = IF j >= n THEN j - n ELSE j - n + max_len
    BY <1>1, <1>3, <1>4, MaxLen DEF Cells
  <1> QED BY <1>5 DEF w, c

-----------------------------------------------------------------------------
(* What the calls leave in memory. *)

\* Two sequences with the same length and elements are equal.
LEMMA SameSeq ==
    ASSUME NEW S, NEW a \in Seq(S), NEW b \in Seq(S), Len(a) = Len(b),
           \A i \in 1..Len(a) : a[i] = b[i]
    PROVE  a = b
  OBVIOUS

LEMMA AtMostBound ==
    ASSUME NEW a \in Nat, NEW n \in 0..max_len
    PROVE  AtMost(a, n) \in 0..max_len /\ AtMost(a, n) <= a /\ AtMost(a, n) <= n
  BY MaxLen DEF AtMost

LEMMA BytesSeq ==
    ASSUME NEW d \in [Cells -> Byte], NEW r \in Cells, NEW k \in 0..max_len
    PROVE  /\ Bytes(d, r, k) \in Seq(Byte)
           /\ Len(Bytes(d, r, k)) = k
           /\ \A i \in 1..k : Bytes(d, r, k)[i] = d[Forward(r, i - 1)]
           /\ \A i \in 1..k : Forward(r, i - 1) \in Cells
  <1>1. k \in Nat
    BY MaxLen
  <1>2. ASSUME NEW i \in 1..k PROVE Forward(r, i - 1) \in Cells
    <2>1. i - 1 \in 0..max_len
      BY MaxLen
    <2> QED BY <2>1, ForwardCell
  <1>3. \A i \in 1..k : d[Forward(r, i - 1)] \in Byte
    BY <1>2
  <1>4. Bytes(d, r, k) = [i \in 1..k |-> d[Forward(r, i - 1)]]
    BY DEF Bytes
  <1> QED BY <1>1, <1>2, <1>3, <1>4

LEMMA StoredMemory ==
    ASSUME NEW d \in [Cells -> Byte], NEW w \in Cells, NEW chunk \in Seq(Byte),
           NEW k \in Nat, k <= Len(chunk)
    PROVE  /\ Stored(d, w, chunk, k) \in [Cells -> Byte]
           /\ \A p \in Cells : Stored(d, w, chunk, k)[p]
                = IF After(w, p) < k THEN chunk[After(w, p) + 1] ELSE d[p]
  <1>1. ASSUME NEW p \in Cells, After(w, p) < k PROVE chunk[After(w, p) + 1] \in Byte
    <2> DEFINE a == After(w, p)
    <2>1. a \in Nat /\ a < k
      BY <1>1, AfterCell DEF Cells
    <2> HIDE DEF a
    <2>2. a + 1 \in 1..Len(chunk)
      BY <2>1
    <2>3. chunk[a + 1] \in Byte
      BY <2>2
    <2> QED BY <2>3 DEF a
  <1> QED BY <1>1 DEF Stored

\* A write appends the bytes it accepts and keeps the others.
LEMMA StoredBytes ==
    ASSUME NEW d \in [Cells -> Byte], NEW r \in Cells, NEW n \in 0..max_len,
           NEW chunk \in Seq(Byte), NEW k \in 0..max_len,
           k <= Len(chunk), n + k <= max_len
    PROVE  Bytes(Stored(d, Forward(r, n), chunk, k), r, n + k)
             = Bytes(d, r, n) \o SubSeq(chunk, 1, k)
  <1> DEFINE w == Forward(r, n)
             e == Stored(d, w, chunk, k)
             old == Bytes(d, r, n)
             add == SubSeq(chunk, 1, k)
             new == Bytes(e, r, n + k)
  <1>1. w \in Cells
    BY ForwardCell
  <1>2. k \in Nat /\ n \in Nat /\ n + k \in 0..max_len
    BY MaxLen
  <1>3. e \in [Cells -> Byte] /\ \A p \in Cells :
          e[p] = IF After(w, p) < k THEN chunk[After(w, p) + 1] ELSE d[p]
    BY <1>1, <1>2, StoredMemory
  <1>4. old \in Seq(Byte) /\ Len(old) = n
        /\ \A i \in 1..n : old[i] = d[Forward(r, i - 1)]
    BY BytesSeq
  <1> HIDE DEF e
  <1>5. /\ new \in Seq(Byte) /\ Len(new) = n + k
        /\ \A i \in 1..(n + k) : new[i] = e[Forward(r, i - 1)]
        /\ \A i \in 1..(n + k) : Forward(r, i - 1) \in Cells
    BY <1>2, <1>3, BytesSeq
  <1>6. add \in Seq(Byte) /\ Len(add) = k /\ \A i \in 1..k : add[i] = chunk[i]
    BY <1>2
  <1> HIDE DEF old, add, new
  <1>7. ASSUME NEW i \in 1..(n + k)
        PROVE  new[i] = IF i <= n THEN old[i] ELSE add[i - n]
    <2> DEFINE c == Forward(r, i - 1)
               a == After(w, c)
    <2>1. i - 1 \in Cells
      BY <1>2, MaxLen DEF Cells
    <2>2. a = IF i - 1 >= n THEN i - 1 - n ELSE i - 1 - n + max_len
      BY <2>1, AfterWrite
    <2>3. new[i] = IF a < k THEN chunk[a + 1] ELSE d[c]
      BY <1>3, <1>5
    <2>4. CASE i <= n
      <3>1. i \in 1..n
        BY <2>4, <1>2
      <3>2. old[i] = d[c]
        BY <3>1, <1>4
      <3> HIDE DEF a, c
      <3>3. ~(a < k)
        BY <2>2, <2>4, <1>2, MaxLen
      <3> QED BY <2>3, <2>4, <3>2, <3>3
    <2>5. CASE ~(i <= n)
      <3> HIDE DEF a, c
      <3>1. i - n \in 1..k /\ a < k /\ a + 1 = i - n
        BY <2>2, <2>5, <1>2, MaxLen
      <3>2. add[i - n] = chunk[i - n]
        BY <3>1, <1>6
      <3> QED BY <2>3, <2>5, <3>1, <3>2
    <2> QED BY <2>4, <2>5
  <1>8. old \o add \in Seq(Byte) /\ Len(old \o add) = n + k
        /\ \A i \in 1..(n + k) :
             (old \o add)[i] = IF i <= n THEN old[i] ELSE add[i - n]
    <2>1. old \in Seq(Byte) /\ add \in Seq(Byte) /\ Len(old) = n /\ Len(add) = k
      BY <1>4, <1>6
    <2>2. /\ old \o add \in Seq(Byte)
          /\ Len(old \o add) = Len(old) + Len(add)
          /\ \A i \in 1..(Len(old) + Len(add)) : (old \o add)[i] =
                IF i <= Len(old) THEN old[i] ELSE add[i - Len(old)]
      BY <2>1, ConcatProperties
    <2> QED BY <2>1, <2>2
  <1>9. new = old \o add
    BY <1>5, <1>7, <1>8, SameSeq
  <1> QED BY <1>9 DEF new, old, add, e, w

\* A read hands out the front of the queue and leaves the rest.
LEMMA SplitBytes ==
    ASSUME NEW d \in [Cells -> Byte], NEW r \in Cells, NEW n \in 0..max_len,
           NEW k \in 0..max_len, k <= n
    PROVE  /\ Bytes(d, r, k) = SubSeq(Bytes(d, r, n), 1, k)
           /\ Bytes(d, Forward(r, k), n - k) = SubSeq(Bytes(d, r, n), k + 1, n)
  <1> DEFINE old == Bytes(d, r, n)
             front == Bytes(d, r, k)
             q == Forward(r, k)
             rest == Bytes(d, q, n - k)
  <1>1. n \in Nat /\ k \in Nat /\ n - k \in Nat /\ n - k \in 0..max_len
    BY MaxLen
  <1>2. q \in Cells
    BY ForwardCell
  <1>3. old \in Seq(Byte) /\ Len(old) = n
        /\ \A i \in 1..n : old[i] = d[Forward(r, i - 1)]
    BY BytesSeq
  <1>4. front \in Seq(Byte) /\ Len(front) = k
        /\ \A i \in 1..k : front[i] = d[Forward(r, i - 1)]
    BY BytesSeq
  <1>5. rest \in Seq(Byte) /\ Len(rest) = n - k
        /\ \A i \in 1..(n - k) : rest[i] = d[Forward(q, i - 1)]
    BY <1>1, <1>2, BytesSeq
  <1>6. ASSUME NEW i \in 1..(n - k) PROVE rest[i] = old[k + i]
    <2>1. i - 1 \in 0..max_len /\ k + (i - 1) <= max_len /\ k + i \in 1..n
          /\ (k + i) - 1 = k + (i - 1)
      BY <1>1, MaxLen
    <2>2. Forward(q, i - 1) = Forward(r, k + (i - 1))
      BY <2>1, ForwardTwice
    <2>3. old[k + i] = d[Forward(r, (k + i) - 1)]
      BY <1>3, <2>1
    <2>4. rest[i] = d[Forward(q, i - 1)]
      BY <1>5
    <2> QED BY <2>1, <2>2, <2>3, <2>4
  <1> HIDE DEF old, front, rest, q
  <1>7. front = SubSeq(old, 1, k)
    <2> DEFINE sub == SubSeq(old, 1, k)
    <2>1. sub \in Seq(Byte) /\ Len(sub) = k /\ \A i \in 1..k : sub[i] = old[i]
      BY <1>1, <1>3
    <2> HIDE DEF sub
    <2>2. \A i \in 1..k : old[i] = front[i]
      BY <1>1, <1>3, <1>4
    <2>3. front = sub
      BY <1>4, <2>1, <2>2, SameSeq
    <2> QED BY <2>3 DEF sub
  <1>8. rest = SubSeq(old, k + 1, n)
    <2> DEFINE sub == SubSeq(old, k + 1, n)
    <2>1. sub \in Seq(Byte) /\ Len(sub) = n - k
          /\ \A i \in 1..(n - k) : sub[i] = old[k + i]
      BY <1>1, <1>3
    <2> HIDE DEF sub
    <2>2. rest = sub
      BY <1>5, <1>6, <2>1, SameSeq
    <2> QED BY <2>2 DEF sub
  <1> QED BY <1>7, <1>8 DEF old, front, rest, q
-----------------------------------------------------------------------------
(* The theorems. *)

\* Every call keeps the cursor in the backing memory and the length within
\* the buffer.
THEOREM RingType == Spec => []RingTypeOK
  <1>1. ring_buffer_init => RingTypeOK
    BY MaxLen, RingAssumption DEF RingAssumption, ring_buffer_init, RingTypeOK, Cells
  <1>2. RingTypeOK /\ [Next]_ringVars => RingTypeOK'
    <2> SUFFICES ASSUME RingTypeOK, [Next]_ringVars PROVE RingTypeOK'
      OBVIOUS
    <2>0. data \in [Cells -> Byte] /\ read \in Cells /\ data_len \in 0..max_len
      BY DEF RingTypeOK
    <2>1. ASSUME NEW chunk \in Chunks, ring_buffer_write(chunk) PROVE RingTypeOK'
      <3> DEFINE k == AtMost(Len(chunk), max_len - data_len)
                 w == Forward(read, data_len)
      <3>1. chunk \in Seq(Byte) /\ Len(chunk) \in Nat
        BY Arguments
      <3>2. max_len - data_len \in 0..max_len
        BY <2>0, MaxLen
      <3>3. k \in 0..max_len /\ k <= Len(chunk) /\ k <= max_len - data_len
        BY <3>1, <3>2, AtMostBound
      <3>4. w \in Cells
        BY <2>0, ForwardCell
      <3>5. ret' = k /\ data' = Stored(data, w, chunk, k)
            /\ data_len' = data_len + k /\ read' = read /\ got' = <<>>
        BY <2>1 DEF ring_buffer_write, ring_buffer_space
      <3> HIDE DEF k, w
      <3>6. k \in Nat /\ data_len + k \in 0..max_len
        BY <2>0, <3>3, MaxLen
      <3>7. Stored(data, w, chunk, k) \in [Cells -> Byte]
        BY <2>0, <3>1, <3>3, <3>4, <3>6, StoredMemory
      <3> QED BY <2>0, <3>3, <3>5, <3>6, <3>7 DEF RingTypeOK
    <2>2. ASSUME NEW n \in Wants PROVE AtMost(n, data_len) \in 0..max_len
                                       /\ AtMost(n, data_len) <= data_len
      BY <2>0, Arguments, AtMostBound
    <2>3. ASSUME NEW n \in Wants, Consume(n)
          PROVE  data' \in [Cells -> Byte] /\ read' \in Cells
                 /\ data_len' \in 0..max_len /\ ret' \in 0..max_len
      <3> DEFINE k == AtMost(n, data_len)
      <3>1. k \in 0..max_len /\ k <= data_len
        BY <2>2
      <3>2. ret' = k /\ data_len' = data_len - k /\ read' = Forward(read, k)
            /\ data' = data
        BY <2>3 DEF Consume
      <3> HIDE DEF k
      <3>3. data_len - k \in 0..max_len
        BY <2>0, <3>1, MaxLen
      <3>4. Forward(read, k) \in Cells
        BY <2>0, <3>1, ForwardCell
      <3> QED BY <2>0, <3>1, <3>2, <3>3, <3>4
    <2>4. ASSUME NEW n \in Wants PROVE Bytes(data, read, AtMost(n, data_len)) \in Seq(Byte)
      BY <2>0, <2>2, BytesSeq
    <2>5. ASSUME NEW n \in Wants, ring_buffer_read(n) PROVE RingTypeOK'
      <3>1. Consume(n) /\ got' = Bytes(data, read, AtMost(n, data_len))
        BY <2>5 DEF ring_buffer_read, Consume
      <3> QED BY <2>3, <2>4, <3>1 DEF RingTypeOK
    <2>6. ASSUME NEW n \in Wants, ring_buffer_skip(n) PROVE RingTypeOK'
      BY <2>3, <2>6 DEF ring_buffer_skip, RingTypeOK
    <2>7. ASSUME NEW n \in Wants, ring_buffer_peek(n) PROVE RingTypeOK'
      <3>1. ret' = AtMost(n, data_len) /\ got' = Bytes(data, read, AtMost(n, data_len))
            /\ data' = data /\ read' = read /\ data_len' = data_len
        BY <2>7 DEF ring_buffer_peek
      <3> QED BY <2>0, <2>2, <2>4, <3>1 DEF RingTypeOK
    <2>8. CASE UNCHANGED ringVars
      BY <2>8 DEF ringVars, RingTypeOK
    <2> QED BY <2>1, <2>5, <2>6, <2>7, <2>8 DEF Next
  <1> QED BY <1>1, <1>2, PTL DEF Spec

\* Every call of the ring buffer is a call of the byte queue: rb.c keeps
\* every accepted byte, in order, until it is read or skipped.
THEOREM RingImplementsFifo == Spec => ImplementsFifo
  <1>1. ring_buffer_init => Fifo!FifoInit
    BY DEF ring_buffer_init, Fifo!FifoInit, Bytes
  <1>2. RingTypeOK /\ [Next]_ringVars => [Fifo!FifoNext]_(Fifo!fifoVars)
    <2> SUFFICES ASSUME RingTypeOK, [Next]_ringVars
                 PROVE  [Fifo!FifoNext]_(Fifo!fifoVars)
      OBVIOUS
    <2> DEFINE old == Bytes(data, read, data_len)
               new == Bytes(data, read, data_len)'
    <2>0. data \in [Cells -> Byte] /\ read \in Cells /\ data_len \in 0..max_len
      BY DEF RingTypeOK
    <2>1. Len(old) = data_len
      BY <2>0, BytesSeq
    <2>2. new = Bytes(data', read', data_len')
      BY DEF Bytes, Forward
    <2>3. ASSUME NEW chunk \in Chunks, ring_buffer_write(chunk) PROVE Fifo!FifoNext
      <3> DEFINE k == AtMost(Len(chunk), max_len - data_len)
                 w == Forward(read, data_len)
      <3>1. chunk \in Seq(Byte) /\ Len(chunk) \in Nat
        BY Arguments
      <3>2. max_len - data_len \in 0..max_len
        BY <2>0, MaxLen
      <3>3. k \in 0..max_len /\ k <= Len(chunk) /\ k <= max_len - data_len
        BY <3>1, <3>2, AtMostBound
      <3>4. ret' = k /\ data' = Stored(data, w, chunk, k)
            /\ data_len' = data_len + k /\ read' = read /\ got' = <<>>
        BY <2>3 DEF ring_buffer_write, ring_buffer_space
      <3> HIDE DEF k
      <3>5. data_len + k <= max_len
        BY <2>0, <3>3, MaxLen
      <3>6. Bytes(Stored(data, w, chunk, k), read, data_len + k)
              = old \o SubSeq(chunk, 1, k)
        BY <2>0, <3>1, <3>3, <3>5, StoredBytes
      <3>7. new = old \o SubSeq(chunk, 1, ret')
        BY <2>2, <3>4, <3>6
      <3>8. ret' = AtMost(Len(chunk), max_len - Len(old))
        BY <2>1, <3>4 DEF k
      <3> HIDE DEF old, new
      <3>9. Fifo!Put(chunk)
        BY <3>4, <3>7, <3>8 DEF Fifo!Put, Fifo!Smaller, AtMost, old, new
      <3> QED BY <3>9 DEF Fifo!FifoNext
    <2>4. ASSUME NEW n \in Wants
          PROVE  LET k == AtMost(n, data_len) IN
                   /\ k = AtMost(n, Len(old))
                   /\ Bytes(data, read, k) = SubSeq(old, 1, k)
                   /\ Bytes(data, Forward(read, k), data_len - k)
                        = SubSeq(old, k + 1, Len(old))
      <3> DEFINE k == AtMost(n, data_len)
      <3>1. k \in 0..max_len /\ k <= data_len
        BY <2>0, Arguments, AtMostBound
      <3> HIDE DEF k
      <3>2. Bytes(data, read, k) = SubSeq(old, 1, k)
            /\ Bytes(data, Forward(read, k), data_len - k) = SubSeq(old, k + 1, data_len)
        BY <2>0, <3>1, SplitBytes
      <3> QED BY <2>1, <3>2 DEF k
    <2>5. ASSUME NEW n \in Wants, Consume(n)
          PROVE  /\ ret' = AtMost(n, Len(old))
                 /\ new = SubSeq(old, ret' + 1, Len(old))
                 /\ Bytes(data, read, ret') = SubSeq(old, 1, ret')
      <3>1. ret' = AtMost(n, data_len) /\ data_len' = data_len - ret'
            /\ read' = Forward(read, ret') /\ data' = data
        BY <2>5 DEF Consume
      <3>2. new = Bytes(data, Forward(read, ret'), data_len - ret')
        BY <2>2, <3>1
      <3> QED BY <2>4, <3>1, <3>2
    <2>6. ASSUME NEW n \in Wants, ring_buffer_read(n) PROVE Fifo!FifoNext
      <3>1. Consume(n) /\ got' = Bytes(data, read, ret')
        BY <2>6 DEF ring_buffer_read
      <3>2. Fifo!Take(n)
        BY <2>5, <3>1 DEF Fifo!Take, Fifo!Smaller, AtMost
      <3> QED BY <3>2 DEF Fifo!FifoNext
    <2>7. ASSUME NEW n \in Wants, ring_buffer_skip(n) PROVE Fifo!FifoNext
      <3>1. Consume(n) /\ got' = <<>>
        BY <2>7 DEF ring_buffer_skip
      <3>2. Fifo!Drop(n)
        BY <2>5, <3>1 DEF Fifo!Drop, Fifo!Smaller, AtMost
      <3> QED BY <3>2 DEF Fifo!FifoNext
    <2>8. ASSUME NEW n \in Wants, ring_buffer_peek(n) PROVE Fifo!FifoNext
      <3>1. ret' = AtMost(n, data_len) /\ got' = Bytes(data, read, ret')
            /\ data' = data /\ read' = read /\ data_len' = data_len
        BY <2>8 DEF ring_buffer_peek
      <3>2. new = old
        BY <2>2, <3>1
      <3>3. ret' = AtMost(n, Len(old)) /\ got' = SubSeq(old, 1, ret')
        BY <2>4, <3>1
      <3>4. Fifo!Look(n)
        BY <3>2, <3>3 DEF Fifo!Look, Fifo!Smaller, AtMost
      <3> QED BY <3>4 DEF Fifo!FifoNext
    <2>9. CASE UNCHANGED ringVars
      <3>1. new = old /\ got' = got /\ ret' = ret
        BY <2>2, <2>9 DEF ringVars
      <3> QED BY <3>1 DEF Fifo!fifoVars
    <2> QED BY <2>3, <2>6, <2>7, <2>8, <2>9 DEF Next
  <1> QED BY <1>1, <1>2, RingType, PTL DEF Spec, ImplementsFifo, Fifo!FifoSpec
=============================================================================
