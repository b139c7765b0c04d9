------------------------- MODULE SecureChannelProofs ------------------------
(***************************************************************************)
(* Proofs about the message channel, for all frame sizes, buffer sizes and *)
(* widths of the nonce's limbs, and whatever stray bytes are taken for.    *)
(***************************************************************************)
EXTENDS SecureChannel, SequenceTheorems, TLAPS

Byte == Nat \X Nat
Nonces == (0..(Limb - 1)) \X (0..(Limb - 1))

\* The bytes on their way, those the receiving core has read first.
stream == rx \o net

\* Of what is on its way, and of the closed connection.
StreamType ==
    /\ ChannelTypeOK
    /\ rx \in Seq(Byte) /\ net \in Seq(Byte)

\* Every byte on its way is a byte of a message whose sending was reported as
\* successful, and the bytes are in the order of the messages.
BytesSent ==
    \A i \in 1..Len(stream) :
        /\ stream[i][1] \in Accepted
        /\ stream[i][2] \in 1..FrameLength(sent[stream[i][1]].size)

BytesInOrder ==
    \A i, j \in 1..Len(stream) : i < j =>
        \/ stream[i][1] < stream[j][1]
        \/ stream[i][1] = stream[j][1] /\ stream[i][2] < stream[j][2]

\* The bytes of the messages delivered are gone.
DeliveredAreGone ==
    \A i \in 1..Len(stream), j \in DOMAIN delivered : delivered[j] < stream[i][1]

OrderInv == StreamType /\ BytesSent /\ BytesInOrder /\ DeliveredAreGone

\* The number of a nonce in the order in which they are used.
Number(nonce) == nonce[1] * Limb + nonce[2]

\* The numbers of the messages that went out increase; nonce_out is beyond
\* them until all nonces have been used.
NonceInv ==
    /\ \A j, k \in Messages : j < k /\ j \in Accepted =>
         Number(sent[j].nonce) < Number(sent[k].nonce)
    /\ \A k \in Messages : sent[k].wrote > 0 => k \in Accepted
    /\ Len(sent) <= MaxMsgs
    /\ Len(sent) < Limb * Limb =>
         /\ Number(nonce_out) <= Len(sent)
         /\ \A j \in Accepted : Number(sent[j].nonce) < Number(nonce_out)

\* The messages delivered have the numbers from 0 on.
DeliveredInv ==
    \A i \in DOMAIN delivered :
        /\ delivered[i] \in Accepted
        /\ Number(sent[delivered[i]].nonce) = i - 1
        /\ i <= delivered[i]

NextNumber ==
    pc # "closed" /\ Len(delivered) < Limb * Limb =>
        Number(nonce_in) = Len(delivered)

SequenceInv == OrderInv /\ NonceInv /\ DeliveredInv /\ NextNumber

NoneTruncated == \A k \in Messages : ~Truncated(k)

\* A byte is followed by the rest of its frame.
FramesComplete ==
    \A i \in 1..Len(stream) :
        LET k == stream[i][1]
            p == stream[i][2]
        IN  \A q \in p..FrameLength(sent[k].size) :
              i + q - p <= Len(stream) /\ stream[i + q - p] = <<k, q>>

\* The last byte of a frame is followed by the first of the frame that was
\* encrypted next.
FramesLinked ==
    \A i \in 1..(Len(stream) - 1) :
        LET k == stream[i][1]
            n == stream[i + 1][1]
        IN  stream[i][2] = FrameLength(sent[k].size) =>
              /\ stream[i + 1][2] = 1
              /\ sent[n].nonce = update_nonce(sent[k].nonce)

\* The reader is where its state says it is, in the frame it has the nonce of.
ReaderAtHead ==
    /\ ts = "WAIT_PAYLOAD" => Len(stream) > 0
    /\ Len(stream) > 0 =>
         LET k == stream[1][1]
         IN  /\ sent[k].nonce = nonce_in
             /\ ts = "WAIT_FRAME_LEN" => stream[1][2] = 1
             /\ ts = "WAIT_PAYLOAD" => /\ stream[1][2] = 3
                                       /\ expect = sent[k].size

\* The sender has the nonce after that of the last frame.
SenderAtTail ==
    nonce_out = IF Len(stream) = 0 THEN nonce_in
                ELSE update_nonce(sent[stream[Len(stream)][1]].nonce)

InStep ==
    pc # "closed" /\ NoneTruncated =>
        FramesComplete /\ FramesLinked /\ ReaderAtHead /\ SenderAtTail
-----------------------------------------------------------------------------
(* What the actions do to the stream. *)

\* Cutting a sequence in two.
LEMMA Cut ==
    ASSUME NEW S, NEW t \in Seq(S), NEW n \in 1..Len(t),
           NEW a, NEW b, a = SubSeq(t, 1, n), b = SubSeq(t, n + 1, Len(t))
    PROVE  /\ a \in Seq(S) /\ Len(a) = n
           /\ b \in Seq(S) /\ Len(b) = Len(t) - n
           /\ t = a \o b
  <1>1. t = a \o b
    OBVIOUS
  <1> QED BY <1>1

\* Two sequences in one.
LEMMA Joined ==
    ASSUME NEW S, NEW r \in Seq(S), NEW b \in Seq(S)
    PROVE  r \o b \in Seq(S) /\ Len(r \o b) = Len(r) + Len(b)
  OBVIOUS

\* What moves from the front of one sequence to the end of the one before it
\* leaves their concatenation alone.
LEMMA Regrouped ==
    ASSUME NEW S, NEW r \in Seq(S), NEW t \in Seq(S), NEW a \in Seq(S), NEW b \in Seq(S),
           t = a \o b
    PROVE  (r \o a) \o b = r \o t
  <1>1. (r \o a) \o b = r \o (a \o b)
    OBVIOUS
  <1> QED BY <1>1

\* Dropping the front of the first of two sequences.
LEMMA Dropped ==
    ASSUME NEW r \in Seq(Byte), NEW t \in Seq(Byte), NEW n \in 0..Len(r),
           NEW b, b = SubSeq(r, n + 1, Len(r))
    PROVE  /\ b \in Seq(Byte) /\ Len(b) = Len(r) - n
           /\ Len(b \o t) = Len(r \o t) - n
           /\ \A i \in 1..(Len(r \o t) - n) : (b \o t)[i] = (r \o t)[i + n]
  OBVIOUS

\* The first n bytes of the stream are gone.
Shift(n) ==
    /\ n \in 0..Len(stream)
    /\ Len(stream') = Len(stream) - n
    /\ \A i \in 1..Len(stream') : stream'[i] = stream[i + n]

\* w bytes of the frame of the next message are at its end.
Grown(w) ==
    /\ w \in Nat
    /\ Len(stream') = Len(stream) + w
    /\ \A i \in 1..Len(stream) : stream'[i] = stream[i]
    /\ \A i \in 1..w : stream'[Len(stream) + i] = <<Len(sent) + 1, i>>

\* The stream is a sequence, what has been read first.
LEMMA StreamParts ==
    ASSUME rx \in Seq(Byte), net \in Seq(Byte)
    PROVE  /\ stream \in Seq(Byte) /\ Len(stream) \in Nat
           /\ Len(stream) = Len(rx) + Len(net)
           /\ \A i \in 1..Len(rx) : stream[i] = rx[i]
           /\ \A i \in 1..Len(stream) : stream[i] \in Byte
  BY DEF stream

\* Reading moves bytes within the stream.
LEMMA StreamFed ==
    ASSUME rx \in Seq(Byte), net \in Seq(Byte), NEW n \in 1..Len(net),
           rx' = rx \o SubSeq(net, 1, n), net' = SubSeq(net, n + 1, Len(net))
    PROVE  /\ rx' \in Seq(Byte) /\ Len(rx') = Len(rx) + n
           /\ net' \in Seq(Byte) /\ Len(net') = Len(net) - n
           /\ Shift(0)
  <1> DEFINE a == SubSeq(net, 1, n)
             b == SubSeq(net, n + 1, Len(net))
  <1>1. /\ a \in Seq(Byte) /\ Len(a) = n
        /\ b \in Seq(Byte) /\ Len(b) = Len(net) - n
        /\ net = a \o b
    BY Cut
  <1>2. rx' = rx \o a /\ net' = b
    OBVIOUS
  <1> HIDE DEF a, b
  <1>3. (rx \o a) \o b = rx \o net
    BY <1>1, Regrouped
  <1>4. stream' = stream
    BY <1>2, <1>3 DEF stream
  <1>5. Shift(0)
    BY <1>4, StreamParts DEF Shift
  <1>6. rx' \in Seq(Byte) /\ Len(rx') = Len(rx) + n
    BY <1>1, <1>2
  <1> QED BY <1>1, <1>2, <1>5, <1>6

\* Processing takes bytes from its front.
LEMMA StreamRead ==
    ASSUME rx \in Seq(Byte), net \in Seq(Byte), NEW n \in 0..Len(rx),
           rx' = SubSeq(rx, n + 1, Len(rx)), net' = net
    PROVE  /\ rx' \in Seq(Byte) /\ Len(rx') = Len(rx) - n
           /\ Shift(n)
  <1>1. /\ rx' \in Seq(Byte) /\ Len(rx') = Len(rx) - n
        /\ Len(rx' \o net) = Len(rx \o net) - n
        /\ \A i \in 1..(Len(rx \o net) - n) : (rx' \o net)[i] = (rx \o net)[i + n]
    <2>1. \A b : b = SubSeq(rx, n + 1, Len(rx)) =>
            /\ b \in Seq(Byte) /\ Len(b) = Len(rx) - n
            /\ Len(b \o net) = Len(rx \o net) - n
            /\ \A i \in 1..(Len(rx \o net) - n) : (b \o net)[i] = (rx \o net)[i + n]
      BY Dropped, Zenon
    <2> QED BY <2>1
  <1>2. /\ Len(stream') = Len(stream) - n
        /\ \A i \in 1..(Len(stream) - n) : stream'[i] = stream[i + n]
    BY <1>1 DEF stream
  <1>3. n \in 0..Len(stream)
    BY StreamParts
  <1> QED BY <1>1, <1>2, <1>3 DEF Shift

\* An action that leaves the buffers alone leaves the stream alone.
LEMMA StreamUnchanged ==
    ASSUME rx \in Seq(Byte), net \in Seq(Byte), rx' = rx, net' = net
    PROVE  Shift(0)
  <1>1. stream' = stream
    BY DEF stream
  <1> QED BY <1>1, StreamParts DEF Shift

\* Closing empties the stream.
LEMMA StreamClosed ==
    ASSUME rx \in Seq(Byte), net \in Seq(Byte), rx' = <<>>, net' = <<>>
    PROVE  stream' = <<>> /\ Shift(Len(stream)) /\ rx' \in Seq(Byte) /\ net' \in Seq(Byte)
  <1>1. stream' = <<>>
    BY DEF stream
  <1>2. Shift(Len(stream))
    BY <1>1, StreamParts DEF Shift
  <1> QED BY <1>1, <1>2

\* What the type invariant says of the parts of the state.
Calls == [size : Sizes, nonce : Nonces, wrote : Int, ret : {0, 1}]

LEMMA TypeParts ==
    ASSUME StreamType
    PROVE  /\ rx \in Seq(Byte) /\ net \in Seq(Byte)
           /\ Len(rx) \in Nat /\ Len(net) \in Nat
           /\ Len(rx) <= RxLen /\ Len(net) <= OsBuffer
           /\ sent \in Seq(Calls) /\ Len(sent) \in Nat
           /\ \A k \in Messages : sent[k] \in Calls
  <1>1. /\ rx \in Seq(Byte) /\ net \in Seq(Byte)
        /\ Len(rx) <= RxLen /\ Len(net) <= OsBuffer
        /\ sent \in Seq(Calls)
    BY DEF StreamType, ChannelTypeOK, Calls, Nonces
  <1>2. Len(rx) \in Nat /\ Len(net) \in Nat
    BY <1>1
  <1>3. Len(sent) \in Nat /\ \A k \in Messages : sent[k] \in Calls
    BY <1>1 DEF Messages
  <1> QED BY <1>1, <1>2, <1>3

LEMMA LengthLimit == MaxLength \in Nat /\ MaxLength > 0
  BY DEF MaxLength

\* The fields of a call.
LEMMA CallParts ==
    ASSUME NEW c \in Calls
    PROVE  /\ c.size \in Sizes /\ c.size \in 1..MaxLength /\ c.nonce \in Nonces
           /\ c.wrote \in Int /\ c.ret \in {0, 1}
  <1>1. c.size \in Sizes /\ c.nonce \in Nonces /\ c.wrote \in Int /\ c.ret \in {0, 1}
    BY DEF Calls
  <1> QED BY <1>1, ChannelAssumption DEF ChannelAssumption

\* What a write puts on its way.
LEMMA WrittenBytes ==
    ASSUME NEW size \in Sizes, net \in Seq(Byte), Len(net) <= OsBuffer
    PROVE  /\ Written(size) \in Int /\ Written(size) <= FrameLength(size)
           /\ write_to_socket(size) \in {0, 1}
           /\ write_to_socket(size) = 0 => /\ Written(size) \in 1..FrameLength(size)
                                           /\ Len(net) + Written(size) <= OsBuffer
           /\ write_to_socket(size) # 0 => Written(size) = -1
  <1>1. size \in Nat /\ size > 0
    BY ChannelAssumption, LengthLimit DEF ChannelAssumption
  <1>2. OsBuffer \in Nat
    BY ChannelAssumption DEF ChannelAssumption
  <1>3. Len(net) \in Nat
    OBVIOUS
  <1>4. CASE OsBuffer = Len(net)
    <2>1. Written(size) = -1
      BY <1>2, <1>3, <1>4 DEF Written
    <2> QED BY <1>1, <2>1 DEF write_to_socket, FrameLength
  <1>5. CASE OsBuffer # Len(net)
    <2>1. Written(size) = Least(OsBuffer - Len(net), size + 2)
      BY <1>1, <1>2, <1>3, <1>5 DEF Written, FrameLength
    <2>2. Written(size) \in 1..(size + 2) /\ Len(net) + Written(size) <= OsBuffer
      BY <1>1, <1>2, <1>3, <1>5, <2>1 DEF Least
    <2> QED BY <1>1, <2>2 DEF write_to_socket, FrameLength
  <1> QED BY <1>4, <1>5

\* The start of a frame.
LEMMA FrameStart ==
    ASSUME NEW k \in Nat, NEW size \in Nat, NEW w \in 1..FrameLength(size)
    PROVE  /\ SubSeq(Frame(k, size), 1, w) \in Seq(Byte)
           /\ Len(SubSeq(Frame(k, size), 1, w)) = w
           /\ \A i \in 1..w : SubSeq(Frame(k, size), 1, w)[i] = <<k, i>>
  <1> DEFINE f == Frame(k, size)
  <1>1. /\ f \in Seq(Byte) /\ Len(f) = FrameLength(size)
        /\ \A i \in 1..FrameLength(size) : f[i] = <<k, i>>
    BY DEF Frame, FrameLength, Byte
  <1> HIDE DEF f
  <1>2. /\ SubSeq(f, 1, w) \in Seq(Byte) /\ Len(SubSeq(f, 1, w)) = w
        /\ \A i \in 1..w : SubSeq(f, 1, w)[i] = f[i]
    BY <1>1 DEF FrameLength
  <1>3. \A i \in 1..w : SubSeq(f, 1, w)[i] = <<k, i>>
    BY <1>1, <1>2 DEF FrameLength
  <1> QED BY <1>2, <1>3 DEF f

\* Sending puts bytes at the end of the stream.
LEMMA StreamSent ==
    ASSUME StreamType, NEW size \in Sizes, wish_core_send_message(size)
    PROVE  /\ rx' \in Seq(Byte) /\ net' \in Seq(Byte)
           /\ Len(net') <= OsBuffer
           /\ Grown(IF write_to_socket(size) = 0 THEN Written(size) ELSE 0)
  <1>1. /\ rx \in Seq(Byte) /\ net \in Seq(Byte) /\ Len(net) <= OsBuffer
        /\ Len(net) \in Nat /\ Len(sent) \in Nat /\ size \in Nat
    <2>1. size \in Nat
      BY ChannelAssumption, LengthLimit DEF ChannelAssumption
    <2> QED BY <2>1, TypeParts
  <1>2. /\ rx' = rx
        /\ net' = net \o SubSeq(Frame(Len(sent) + 1, size), 1, Written(size))
    BY DEF wish_core_send_message
  <1>3. /\ stream \in Seq(Byte) /\ Len(stream) \in Nat
    BY <1>1, StreamParts
  <1> DEFINE k == Len(sent) + 1
             w == Written(size)
             b == SubSeq(Frame(k, size), 1, w)
  <1>4. CASE write_to_socket(size) = 0
    <2>1. w \in 1..FrameLength(size) /\ Len(net) + w <= OsBuffer
      BY <1>1, <1>4, WrittenBytes
    <2>2. b \in Seq(Byte) /\ Len(b) = w /\ \A i \in 1..w : b[i] = <<k, i>>
      BY <1>1, <2>1, FrameStart
    <2>3. net' = net \o b
      BY <1>2
    <2>4. w \in Nat
      BY <2>1, <1>1 DEF FrameLength
    <2> HIDE DEF b, w
    <2>5. net' \in Seq(Byte) /\ Len(net') = Len(net) + w
      <3>1. b \in Seq(Byte) /\ Len(b) = w
        BY <2>2
      <3> QED BY <1>1, <2>3, <3>1, Joined
    <2>6. stream' = stream \o b
      <3>1. (rx \o net) \o b = rx \o net'
        BY <1>1, <2>2, <2>3, <2>5, Regrouped
      <3> QED BY <1>2, <3>1 DEF stream
    <2>7. /\ Len(stream') = Len(stream) + w
          /\ \A i \in 1..Len(stream) : stream'[i] = stream[i]
          /\ \A i \in 1..w : stream'[Len(stream) + i] = b[i]
      <3> DEFINE c == stream
                 d == stream'
      <3>1. c \in Seq(Byte) /\ d = c \o b
        BY <1>3, <2>6
      <3> HIDE DEF c, d
      <3>2. /\ Len(d) = Len(c) + w
            /\ \A i \in 1..Len(c) : d[i] = c[i]
            /\ \A i \in 1..w : d[Len(c) + i] = b[i]
        BY <3>1, <2>2
      <3> QED BY <3>2 DEF c, d
    <2>8. Grown(w)
      BY <2>2, <2>4, <2>7 DEF Grown, k
    <2> QED BY <1>1, <1>2, <1>4, <2>1, <2>5, <2>8 DEF w
  <1>5. CASE write_to_socket(size) # 0
    <2>1. w = -1
      BY <1>1, <1>5, WrittenBytes
    <2>2. b = <<>>
      <3> DEFINE f == Frame(k, size)
      <3>1. f \in Seq(Byte)
        BY <1>1 DEF Frame, FrameLength, Byte
      <3> HIDE DEF f
      <3>2. SubSeq(f, 1, -1) = <<>>
        BY <3>1
      <3> QED BY <2>1, <3>2 DEF f
    <2>3. net' = net
      <3>1. net \o <<>> = net
        BY <1>1
      <3> QED BY <1>2, <2>2, <3>1
    <2>4. stream' = stream
      BY <1>2, <2>3 DEF stream
    <2>5. Grown(0)
      BY <1>3, <2>4 DEF Grown
    <2> QED BY <1>1, <1>2, <1>5, <2>3, <2>5
  <1> QED BY <1>4, <1>5
-----------------------------------------------------------------------------
(* The nonces. *)

\* The next limb, without and with carry.
LEMMA LimbNext ==
    ASSUME NEW x \in 0..(Limb - 1)
    PROVE  (x + 1) % Limb = IF x = Limb - 1 THEN 0 ELSE x + 1
  <1>1. Limb \in Nat /\ Limb > 0
    BY ChannelAssumption DEF ChannelAssumption
  <1>2. CASE x = Limb - 1
    <2>1. Limb % Limb = 0
      BY <1>1, SMT
    <2>2. x + 1 = Limb
      BY <1>1, <1>2
    <2> QED BY <1>2, <2>1, <2>2
  <1>3. CASE x # Limb - 1
    <2>1. x + 1 \in Nat /\ x + 1 < Limb
      BY <1>1, <1>3
    <2>2. (x + 1) % Limb = x + 1
      BY <1>1, <2>1, SMT
    <2> QED BY <1>3, <2>2
  <1> QED BY <1>2, <1>3

\* What update_nonce does.
LEMMA NonceNext ==
    ASSUME NEW nonce \in Nonces
    PROVE  /\ update_nonce(nonce) \in Nonces
           /\ nonce[2] # Limb - 1 => update_nonce(nonce) = <<nonce[1], nonce[2] + 1>>
           /\ nonce[2] = Limb - 1 /\ nonce[1] # Limb - 1 =>
                update_nonce(nonce) = <<nonce[1] + 1, 0>>
  <1>1. Limb \in Nat /\ Limb > 0
    BY ChannelAssumption DEF ChannelAssumption
  <1>2. nonce[1] \in 0..(Limb - 1) /\ nonce[2] \in 0..(Limb - 1)
    BY DEF Nonces
  <1> DEFINE low == (nonce[2] + 1) % Limb
             high == (nonce[1] + 1) % Limb
  <1>3. /\ low = IF nonce[2] = Limb - 1 THEN 0 ELSE nonce[2] + 1
        /\ high = IF nonce[1] = Limb - 1 THEN 0 ELSE nonce[1] + 1
    BY <1>2, LimbNext
  <1>4. update_nonce(nonce) = <<IF low = 0 THEN high ELSE nonce[1], low>>
    BY DEF update_nonce
  <1> HIDE DEF low, high
  <1>5. low \in 0..(Limb - 1) /\ high \in 0..(Limb - 1)
    BY <1>1, <1>2, <1>3
  <1>6. update_nonce(nonce) \in Nonces
    BY <1>2, <1>4, <1>5 DEF Nonces
  <1>7. ASSUME nonce[2] # Limb - 1
        PROVE  update_nonce(nonce) = <<nonce[1], nonce[2] + 1>>
    BY <1>1, <1>2, <1>3, <1>4, <1>7
  <1>8. ASSUME nonce[2] = Limb - 1, nonce[1] # Limb - 1
        PROVE  update_nonce(nonce) = <<nonce[1] + 1, 0>>
    BY <1>1, <1>2, <1>3, <1>4, <1>8
  <1> QED BY <1>6, <1>7, <1>8
-----------------------------------------------------------------------------
(* The types. *)

\* What a call of wish_core_send_message adds.
LEMMA SentAppended ==
    ASSUME StreamType, NEW size \in Sizes, wish_core_send_message(size)
    PROVE  /\ sent' \in Seq(Calls)
           /\ Len(sent') = Len(sent) + 1
           /\ \A k \in Messages : sent'[k] = sent[k]
           /\ sent'[Len(sent) + 1] =
                [size |-> size, nonce |-> nonce_out,
                 wrote |-> Written(size), ret |-> write_to_socket(size)]
           /\ Messages' = Messages \cup {Len(sent) + 1}
           /\ Accepted' = Accepted \cup
                {k \in {Len(sent) + 1} : write_to_socket(size) = 0}
  <1> DEFINE c == [size |-> size, nonce |-> nonce_out,
                   wrote |-> Written(size), ret |-> write_to_socket(size)]
             n == Len(sent) + 1
  <1>1. /\ sent \in Seq(Calls) /\ Len(sent) \in Nat
        /\ net \in Seq(Byte) /\ Len(net) <= OsBuffer
    BY TypeParts
  <1>2. nonce_out \in Nonces
    BY DEF StreamType, ChannelTypeOK, Nonces
  <1>3. c \in Calls /\ c.ret = write_to_socket(size)
    BY <1>1, <1>2, WrittenBytes DEF Calls
  <1>4. sent' = Append(sent, c)
    BY DEF wish_core_send_message
  <1> HIDE DEF c
  <1>5. /\ sent' \in Seq(Calls) /\ Len(sent') = n
        /\ \A k \in 1..Len(sent) : sent'[k] = sent[k]
        /\ sent'[n] = c
    BY <1>1, <1>3, <1>4
  <1>6. Messages' = Messages \cup {n}
    BY <1>1, <1>5 DEF Messages
  <1>7. Accepted' = Accepted \cup {k \in {n} : write_to_socket(size) = 0}
    <2>1. Accepted' = {k \in Messages' : sent'[k].ret = 0}
      BY DEF Accepted
    <2>2. \A k \in Messages : sent'[k] = sent[k]
      BY <1>5 DEF Messages
    <2>3. ~(n \in Messages)
      BY <1>1 DEF Messages
    <2> QED BY <1>3, <1>5, <1>6, <2>1, <2>2, <2>3 DEF Accepted
  <1> QED BY <1>5, <1>6, <1>7 DEF c, Messages

\* Closing leaves a well-typed state.
LEMMA CloseType ==
    ASSUME StreamType, Close, UNCHANGED sender
    PROVE  StreamType'
  <1>1. /\ sent' = sent /\ nonce_out' = nonce_out /\ closing' = closing
        /\ delivered' = delivered /\ Messages' = Messages
        /\ net' = <<>> /\ rx' = <<>> /\ ts' = "WAIT_FRAME_LEN" /\ expect' = 0
        /\ nonce_in' = <<0, 0>> /\ pc' = "closed"
    BY DEF Close, sender, Messages
  <1>2. Len(net') = 0 /\ Len(rx') = 0 /\ rx' \in Seq(Byte) /\ net' \in Seq(Byte)
    BY <1>1
  <1>3. 0 <= OsBuffer /\ 0 <= RxLen /\ 0 \in 0..(Limb - 1) /\ 0 \in 0..MaxLength
    BY LengthLimit, ChannelAssumption DEF ChannelAssumption
  <1> QED BY <1>1, <1>2, <1>3 DEF StreamType, ChannelTypeOK

\* The length that the frame reader takes from the buffer.
LEMMA LengthType ==
    ASSUME StreamType, BytesSent, Len(rx) >= 2
    PROVE  LengthsRead(rx[1], rx[2]) \subseteq 0..MaxLength
  <1>1. rx \in Seq(Byte) /\ net \in Seq(Byte) /\ Len(rx) \in Nat
    BY TypeParts
  <1>2. 1 \in 1..Len(stream) /\ stream[1] = rx[1]
    BY <1>1, StreamParts
  <1>3. rx[1][1] \in Messages
    BY <1>2 DEF BytesSent, Accepted
  <1>4. sent[rx[1][1]].size \in 1..MaxLength
    BY <1>3, TypeParts, CallParts
  <1>5. StrayLengths \subseteq 0..MaxLength
    BY ChannelAssumption DEF ChannelAssumption
  <1> QED BY <1>4, <1>5, LengthLimit DEF LengthsRead

\* Reading from the socket.
LEMMA FeedStream ==
    ASSUME StreamType, wish_core_feed
    PROVE  /\ Shift(0) /\ UNCHANGED sender
           /\ UNCHANGED <<ts, expect, nonce_in, delivered>>
           /\ pc' = "process" /\ Len(net') <= Len(net) /\ Len(rx') <= RxLen
           /\ rx' \in Seq(Byte) /\ net' \in Seq(Byte)
  <1>1. PICK n \in 1..Least(Len(net), RxLen - Len(rx)) :
          rx' = rx \o SubSeq(net, 1, n) /\ net' = SubSeq(net, n + 1, Len(net))
    BY DEF wish_core_feed
  <1>2. /\ rx \in Seq(Byte) /\ net \in Seq(Byte)
        /\ Len(rx) \in Nat /\ Len(net) \in Nat /\ RxLen \in Nat
    BY TypeParts, ChannelAssumption DEF ChannelAssumption
  <1>3. n \in 1..Len(net) /\ Len(rx) + n <= RxLen
    BY <1>2 DEF Least
  <1>4. /\ rx' \in Seq(Byte) /\ Len(rx') = Len(rx) + n
        /\ net' \in Seq(Byte) /\ Len(net') = Len(net) - n /\ Shift(0)
    BY <1>1, <1>2, <1>3, StreamFed
  <1>5. Len(net') <= Len(net) /\ Len(rx') <= RxLen
    BY <1>2, <1>3, <1>4
  <1> QED BY <1>4, <1>5 DEF wish_core_feed

\* Taking the length from the buffer.
LEMMA LengthStream ==
    ASSUME StreamType, WaitFrameLen, Len(rx) >= 2
    PROVE  /\ Shift(2) /\ UNCHANGED sender /\ UNCHANGED <<net, nonce_in, delivered>>
           /\ expect' \in LengthsRead(rx[1], rx[2]) /\ ts' = "WAIT_PAYLOAD"
           /\ pc' \in {"process", "idle"}
           /\ rx' \in Seq(Byte) /\ Len(rx') <= RxLen
  <1>1. /\ rx \in Seq(Byte) /\ net \in Seq(Byte) /\ Len(rx) \in Nat
        /\ Len(rx) <= RxLen /\ RxLen \in Nat
    BY TypeParts, ChannelAssumption DEF ChannelAssumption
  <1>2. /\ rx' = SubSeq(rx, 2 + 1, Len(rx)) /\ net' = net
        /\ UNCHANGED sender /\ UNCHANGED <<net, nonce_in, delivered>>
        /\ expect' \in LengthsRead(rx[1], rx[2]) /\ ts' = "WAIT_PAYLOAD"
        /\ pc' \in {"process", "idle"}
    BY DEF WaitFrameLen, Again
  <1>3. 2 \in 0..Len(rx)
    BY <1>1
  <1>4. rx' \in Seq(Byte) /\ Len(rx') = Len(rx) - 2 /\ Shift(2)
    BY <1>1, <1>2, <1>3, StreamRead
  <1>5. Len(rx') <= RxLen
    BY <1>1, <1>4
  <1> QED BY <1>2, <1>4, <1>5

\* Delivering a message.
LEMMA DeliverStream ==
    ASSUME StreamType, NEW k \in Messages, DeliverPayload(k)
    PROVE  /\ expect \in Nat /\ expect <= Len(rx) /\ Shift(expect)
           /\ UNCHANGED sender /\ UNCHANGED <<net, expect>>
           /\ delivered' = Append(delivered, k) /\ nonce_in' = update_nonce(nonce_in)
           /\ sent[k].nonce = nonce_in /\ sent[k].size = expect
           /\ \A i \in 1..expect : stream[i] = <<k, i + 2>>
           /\ ts = "WAIT_PAYLOAD" /\ ts' = "WAIT_FRAME_LEN"
           /\ pc = "process" /\ pc' \in {"process", "idle"}
           /\ rx' \in Seq(Byte) /\ Len(rx') <= RxLen
  <1>1. /\ rx \in Seq(Byte) /\ net \in Seq(Byte) /\ Len(rx) \in Nat
        /\ Len(rx) <= RxLen /\ RxLen \in Nat /\ expect \in Nat
    BY TypeParts, LengthLimit, ChannelAssumption
       DEF ChannelAssumption, StreamType, ChannelTypeOK
  <1>2. /\ rx' = SubSeq(rx, expect + 1, Len(rx)) /\ net' = net /\ Len(rx) >= expect
        /\ UNCHANGED sender /\ UNCHANGED <<net, expect>>
        /\ delivered' = Append(delivered, k) /\ nonce_in' = update_nonce(nonce_in)
        /\ sent[k].nonce = nonce_in /\ SubSeq(rx, 1, expect) = Payload(k)
        /\ ts = "WAIT_PAYLOAD" /\ ts' = "WAIT_FRAME_LEN"
        /\ pc = "process" /\ pc' \in {"process", "idle"}
    BY DEF DeliverPayload, Decrypts, Again
  <1>3. expect \in 0..Len(rx)
    BY <1>1, <1>2
  <1>4. rx' \in Seq(Byte) /\ Len(rx') = Len(rx) - expect /\ Shift(expect)
    BY <1>1, <1>2, <1>3, StreamRead
  <1>5. Len(rx') <= RxLen
    BY <1>1, <1>3, <1>4
  <1>6. sent[k].size \in Nat
    BY TypeParts, CallParts, LengthLimit
  <1> DEFINE a == SubSeq(rx, 1, expect)
             p == Payload(k)
  <1>7. Len(a) = expect /\ \A i \in 1..expect : a[i] = rx[i]
    BY <1>1, <1>3
  <1>8. Len(p) = sent[k].size /\ \A i \in 1..sent[k].size : p[i] = <<k, i + 2>>
    BY <1>6 DEF Payload
  <1>9. a = p
    BY <1>2
  <1> HIDE DEF a, p
  <1>10. sent[k].size = expect /\ \A i \in 1..expect : rx[i] = <<k, i + 2>>
    BY <1>7, <1>8, <1>9
  <1>11. \A i \in 1..expect : stream[i] = <<k, i + 2>>
    <2>1. \A i \in 1..Len(rx) : stream[i] = rx[i]
      BY <1>1, StreamParts
    <2>2. ASSUME NEW i \in 1..expect PROVE i \in 1..Len(rx)
      BY <1>1, <1>3
    <2> QED BY <1>10, <2>1, <2>2
  <1> QED BY <1>1, <1>2, <1>3, <1>4, <1>5, <1>10, <1>11

\* Every step keeps the types.
LEMMA TypeStep ==
    ASSUME StreamType, BytesSent, [Next]_vars
    PROVE  StreamType'
  <1>1. ASSUME NEW size \in Sizes, wish_core_send_message(size)
        PROVE  StreamType'
    <2>1. /\ rx' \in Seq(Byte) /\ net' \in Seq(Byte) /\ Len(net') <= OsBuffer
          /\ sent' \in Seq(Calls) /\ Messages \subseteq Messages'
      BY <1>1, StreamSent, SentAppended
    <2>2. nonce_out' \in Nonces
      BY <1>1, NonceNext DEF wish_core_send_message, StreamType, ChannelTypeOK, Nonces
    <2>3. delivered' \in Seq(Messages')
      BY <1>1, <2>1 DEF wish_core_send_message, StreamType, ChannelTypeOK
    <2>4. sent' \in Seq([size : Sizes, nonce : (0..(Limb - 1)) \X (0..(Limb - 1)),
                         wrote : Int, ret : {0, 1}])
      BY <2>1 DEF Calls, Nonces
    <2> QED BY <1>1, <2>1, <2>2, <2>3, <2>4
        DEF wish_core_send_message, StreamType, ChannelTypeOK, Nonces
  <1>2. CASE wish_close_connection
    BY <1>2 DEF wish_close_connection, StreamType, ChannelTypeOK, Messages
  <1>3. CASE wish_core_feed
    <2>1. Len(net') <= OsBuffer
      BY <1>3, FeedStream, TypeParts, ChannelAssumption DEF ChannelAssumption
    <2> QED BY <1>3, <2>1, FeedStream DEF StreamType, ChannelTypeOK, sender, Messages
  <1>4. CASE IoEof
    BY <1>4, CloseType DEF IoEof
  <1>5. CASE WaitFrameLen
    <2>1. CASE Len(rx) >= 2
      <3>1. expect' \in 0..MaxLength
        BY <1>5, <2>1, LengthStream, LengthType
      <3> QED BY <1>5, <2>1, <3>1, LengthStream
          DEF StreamType, ChannelTypeOK, sender, Messages
    <2>2. CASE ~(Len(rx) >= 2)
      BY <1>5, <2>2 DEF WaitFrameLen, Again, StreamType, ChannelTypeOK, sender, Messages
    <2> QED BY <2>1, <2>2
  <1>6. ASSUME NEW k \in Messages, DeliverPayload(k)
        PROVE  StreamType'
    <2>1. delivered' \in Seq(Messages)
      <3>1. delivered \in Seq(Messages)
        BY DEF StreamType, ChannelTypeOK
      <3> QED BY <1>6, <3>1, DeliverStream
    <2>2. nonce_in' \in Nonces
      BY <1>6, NonceNext, DeliverStream DEF StreamType, ChannelTypeOK, Nonces
    <2> QED BY <1>6, <2>1, <2>2, DeliverStream
        DEF StreamType, ChannelTypeOK, sender, Messages, Nonces
  <1>7. CASE RejectPayload
    BY <1>7, CloseType DEF RejectPayload
  <1>8. CASE PayloadIncomplete
    BY <1>8 DEF PayloadIncomplete, Again, StreamType, ChannelTypeOK, sender, Messages
  <1>9. CASE PingTimeout
    BY <1>9, CloseType DEF PingTimeout
  <1>10. CASE NoMemory
    <2>1. CASE Close
      BY <1>10, <2>1, CloseType DEF NoMemory
    <2>2. CASE ~Close
      BY <1>10, <2>2 DEF NoMemory, Again, StreamType, ChannelTypeOK, sender, Messages
    <2> QED BY <2>1, <2>2
  <1>11. CASE UNCHANGED vars
    BY <1>11 DEF vars, StreamType, ChannelTypeOK, Messages
  <1> QED BY <1>1, <1>2, <1>3, <1>4, <1>5, <1>6, <1>7, <1>8, <1>9, <1>10, <1>11
      DEF Next, Receive
-----------------------------------------------------------------------------
(* The bytes on their way. *)

\* Bytes that leave the front of the stream.
LEMMA OrderShift ==
    ASSUME Len(stream) \in Nat, NEW n \in Nat, Shift(n), sent' = sent,
           BytesSent, BytesInOrder
    PROVE  BytesSent' /\ BytesInOrder'
  <1>1. Accepted' = Accepted
    BY DEF Accepted, Messages
  <1>2. ASSUME NEW i \in 1..Len(stream')
        PROVE  i + n \in 1..Len(stream) /\ stream'[i] = stream[i + n]
    BY DEF Shift
  <1>3. BytesSent'
    BY <1>1, <1>2 DEF BytesSent, FrameLength
  <1>4. BytesInOrder'
    <2>1. ASSUME NEW i \in 1..Len(stream'), NEW j \in 1..Len(stream'), i < j
          PROVE  \/ stream'[i][1] < stream'[j][1]
                 \/ stream'[i][1] = stream'[j][1] /\ stream'[i][2] < stream'[j][2]
      <3>1. i + n < j + n
        BY <2>1
      <3> QED BY <1>2, <3>1 DEF BytesInOrder
    <2> QED BY <2>1 DEF BytesInOrder
  <1> QED BY <1>3, <1>4

\* Bytes that leave the front do not bring those of delivered messages back.
LEMMA GoneShift ==
    ASSUME Len(stream) \in Nat, NEW n \in Nat, Shift(n), delivered' = delivered,
           DeliveredAreGone
    PROVE  DeliveredAreGone'
  <1>1. ASSUME NEW i \in 1..Len(stream')
        PROVE  i + n \in 1..Len(stream) /\ stream'[i] = stream[i + n]
    BY DEF Shift
  <1> QED BY <1>1 DEF DeliveredAreGone

\* A message delivered was reported as sent, is beyond those delivered
\* before, and none of its bytes is left.
LEMMA DeliverOrder ==
    ASSUME OrderInv, NEW k \in Messages, DeliverPayload(k)
    PROVE  /\ k \in Accepted
           /\ \A j \in DOMAIN delivered : delivered[j] < k
           /\ \A i \in 1..Len(stream') : k < stream'[i][1]
  <1>1. /\ expect \in Nat /\ expect <= Len(rx) /\ Shift(expect)
        /\ sent[k].size = expect /\ \A i \in 1..expect : stream[i] = <<k, i + 2>>
    BY DeliverStream DEF OrderInv
  <1>2. expect >= 1
    BY <1>1, TypeParts, CallParts DEF OrderInv
  <1>3. Len(stream) \in Nat /\ expect \in 1..Len(stream)
    BY <1>1, <1>2, TypeParts, StreamParts DEF OrderInv
  <1>4. 1 \in 1..Len(stream) /\ stream[1][1] = k
    BY <1>1, <1>2, <1>3
  <1>5. k \in Accepted /\ \A j \in DOMAIN delivered : delivered[j] < k
    BY <1>4 DEF OrderInv, BytesSent, DeliveredAreGone
  <1>6. ASSUME NEW i \in 1..Len(stream')
        PROVE  k < stream'[i][1]
    <2>1. i + expect \in 1..Len(stream) /\ stream'[i] = stream[i + expect]
      BY <1>1, <1>3 DEF Shift
    <2>2. stream[expect] = <<k, expect + 2>> /\ expect < i + expect
      BY <1>1, <1>2, <1>3
    <2>3. \/ k < stream[i + expect][1]
          \/ k = stream[i + expect][1] /\ expect + 2 < stream[i + expect][2]
      BY <1>3, <2>1, <2>2 DEF OrderInv, BytesInOrder
    <2>4. stream[i + expect][2] \in 1..FrameLength(sent[stream[i + expect][1]].size)
      BY <2>1 DEF OrderInv, BytesSent
    <2> QED BY <1>1, <2>1, <2>3, <2>4 DEF FrameLength
  <1> QED BY <1>5, <1>6

\* Every step keeps the order of the bytes.
LEMMA OrderStep ==
    ASSUME OrderInv, [Next]_vars
    PROVE  OrderInv'
  <1> USE DEF OrderInv
  <1>0. StreamType'
    BY TypeStep
  <1>s. /\ rx \in Seq(Byte) /\ net \in Seq(Byte) /\ Len(sent) \in Nat
        /\ Len(stream) \in Nat
    BY TypeParts, StreamParts
  <1>1. ASSUME NEW n \in Nat, Shift(n), UNCHANGED sender, UNCHANGED delivered
        PROVE  OrderInv'
    BY <1>0, <1>s, <1>1, OrderShift, GoneShift DEF sender
  <1>2. ASSUME UNCHANGED <<sender, rx, net, delivered>>
        PROVE  OrderInv'
    BY <1>1, <1>2, <1>s, StreamUnchanged DEF sender
  <1>3. ASSUME Close, UNCHANGED sender
        PROVE  OrderInv'
    BY <1>1, <1>3, <1>s, StreamClosed DEF Close
  <1>4. ASSUME NEW size \in Sizes, wish_core_send_message(size)
        PROVE  OrderInv'
    <2> DEFINE N == Len(sent) + 1
               w == IF write_to_socket(size) = 0 THEN Written(size) ELSE 0
    <2>1. Grown(w)
      BY <1>4, StreamSent
    <2>2. /\ w \in 0..FrameLength(size) /\ FrameLength(size) \in Nat
          /\ w > 0 => write_to_socket(size) = 0
      BY WrittenBytes, <1>s, ChannelAssumption, LengthLimit
         DEF ChannelAssumption, FrameLength, StreamType, ChannelTypeOK
    <2>3. /\ \A k \in Messages : sent'[k] = sent[k]
          /\ sent'[N].size = size
          /\ Accepted' = Accepted \cup {k \in {N} : write_to_socket(size) = 0}
      <3> DEFINE c == [size |-> size, nonce |-> nonce_out,
                       wrote |-> Written(size), ret |-> write_to_socket(size)]
      <3>1. /\ \A k \in Messages : sent'[k] = sent[k]
            /\ sent'[N] = c
            /\ Accepted' = Accepted \cup {k \in {N} : write_to_socket(size) = 0}
        BY <1>4, SentAppended
      <3>2. c.size = size
        OBVIOUS
      <3> HIDE DEF c
      <3> QED BY <3>1, <3>2
    <2>4. delivered' = delivered
      BY <1>4 DEF wish_core_send_message
    <2>5. \A i \in DOMAIN delivered : delivered[i] < N
      BY <1>s DEF StreamType, ChannelTypeOK, Messages
    <2>6. \A k \in Accepted : k \in Messages /\ k < N
      BY <1>s DEF Accepted, Messages
    <2> HIDE DEF w
    <2>7. ASSUME NEW i \in 1..Len(stream')
          PROVE  \/ i \in 1..Len(stream) /\ stream'[i] = stream[i]
                 \/ /\ i - Len(stream) \in 1..w
                    /\ stream'[i] = <<N, i - Len(stream)>>
      <3>1. CASE i <= Len(stream)
        BY <1>s, <2>1, <3>1 DEF Grown
      <3>2. CASE i > Len(stream)
        <4>1. i - Len(stream) \in 1..w /\ i = Len(stream) + (i - Len(stream))
          BY <1>s, <2>1, <3>2 DEF Grown
        <4> QED BY <2>1, <4>1 DEF Grown
      <3> QED BY <1>s, <3>1, <3>2
    <2>8. BytesSent'
      <3>1. ASSUME NEW i \in 1..Len(stream')
            PROVE  /\ stream'[i][1] \in Accepted'
                   /\ stream'[i][2] \in 1..FrameLength(sent'[stream'[i][1]].size)
        <4>1. CASE i \in 1..Len(stream) /\ stream'[i] = stream[i]
          BY <2>3, <2>6, <4>1 DEF BytesSent
        <4>2. CASE i - Len(stream) \in 1..w /\ stream'[i] = <<N, i - Len(stream)>>
          <5>1. w > 0
            BY <2>2, <4>2, <1>s
          <5>2. N \in Accepted'
            BY <2>2, <2>3, <5>1
          <5>3. i - Len(stream) \in 1..FrameLength(size)
            BY <2>2, <4>2
          <5> QED BY <2>3, <4>2, <5>2, <5>3
        <4> QED BY <2>7, <4>1, <4>2
      <3> QED BY <3>1 DEF BytesSent, FrameLength
    <2>9. BytesInOrder'
      <3>1. ASSUME NEW i \in 1..Len(stream'), NEW j \in 1..Len(stream'), i < j
            PROVE  \/ stream'[i][1] < stream'[j][1]
                   \/ stream'[i][1] = stream'[j][1] /\ stream'[i][2] < stream'[j][2]
        <4>1. CASE i \in 1..Len(stream) /\ stream'[i] = stream[i]
          <5>1. CASE j \in 1..Len(stream) /\ stream'[j] = stream[j]
            BY <3>1, <4>1, <5>1 DEF BytesInOrder
          <5>2. CASE j - Len(stream) \in 1..w /\ stream'[j] = <<N, j - Len(stream)>>
            <6>1. stream[i][1] < N
              BY <2>6, <4>1 DEF BytesSent
            <6> QED BY <4>1, <5>2, <6>1
          <5> QED BY <2>7, <5>1, <5>2
        <4>2. CASE i - Len(stream) \in 1..w /\ stream'[i] = <<N, i - Len(stream)>>
          <5>1. j - Len(stream) \in 1..w /\ stream'[j] = <<N, j - Len(stream)>>
            BY <1>s, <2>7, <3>1, <4>2
          <5> QED BY <1>s, <3>1, <4>2, <5>1
        <4> QED BY <2>7, <4>1, <4>2
      <3> QED BY <3>1 DEF BytesInOrder
    <2>10. DeliveredAreGone'
      <3>1. ASSUME NEW i \in 1..Len(stream'), NEW j \in DOMAIN delivered
            PROVE  delivered[j] < stream'[i][1]
        BY <2>5, <2>7 DEF DeliveredAreGone
      <3> QED BY <2>4, <3>1 DEF DeliveredAreGone
    <2> QED BY <1>0, <2>8, <2>9, <2>10
  <1>5. CASE wish_close_connection
    <2>1. sent' = sent /\ rx' = rx /\ net' = net /\ delivered' = delivered
      BY <1>5 DEF wish_close_connection
    <2>2. Shift(0)
      BY <1>s, <2>1, StreamUnchanged
    <2> QED BY <1>0, <1>s, <2>1, <2>2, OrderShift, GoneShift
  <1>6. CASE wish_core_feed
    BY <1>1, <1>6, FeedStream
  <1>7. CASE IoEof
    BY <1>3, <1>7 DEF IoEof
  <1>8. CASE WaitFrameLen
    <2>1. CASE Len(rx) >= 2
      BY <1>1, <1>8, <2>1, LengthStream
    <2>2. CASE ~(Len(rx) >= 2)
      BY <1>2, <1>8, <2>2 DEF WaitFrameLen
    <2> QED BY <2>1, <2>2
  <1>9. ASSUME NEW k \in Messages, DeliverPayload(k)
        PROVE  OrderInv'
    <2>1. /\ expect \in Nat /\ Shift(expect) /\ sent' = sent
          /\ delivered' = Append(delivered, k)
      BY <1>9, DeliverStream DEF sender
    <2>2. BytesSent' /\ BytesInOrder'
      BY <1>s, <2>1, OrderShift
    <2>3. \A j \in DOMAIN delivered' : delivered'[j] <= k
      <3>1. \A j \in DOMAIN delivered : delivered[j] < k
        BY <1>9, DeliverOrder
      <3>2. delivered \in Seq(Messages) /\ k \in Nat
        BY DEF StreamType, ChannelTypeOK, Messages
      <3> QED BY <2>1, <3>1, <3>2 DEF Messages
    <2>4. \A i \in 1..Len(stream') : k < stream'[i][1]
      BY <1>9, DeliverOrder
    <2>5. \A i \in 1..Len(stream') : stream'[i][1] \in Nat
      BY <2>2 DEF BytesSent, Accepted, Messages
    <2>6. \A j \in DOMAIN delivered' : delivered'[j] \in Nat
      <3>1. delivered \in Seq(Messages)
        BY DEF StreamType, ChannelTypeOK
      <3>2. delivered' \in Seq(Messages)
        BY <1>9, <2>1, <3>1
      <3>3. ASSUME NEW j \in DOMAIN delivered'
            PROVE  delivered'[j] \in Messages
        BY <3>2
      <3>4. Messages \subseteq Nat
        BY DEF Messages
      <3> QED BY <3>3, <3>4
    <2>7. DeliveredAreGone'
      BY <2>3, <2>4, <2>5, <2>6 DEF DeliveredAreGone, Messages
    <2> QED BY <1>0, <2>2, <2>7
  <1>10. CASE RejectPayload
    BY <1>3, <1>10 DEF RejectPayload
  <1>11. CASE PayloadIncomplete
    BY <1>2, <1>11 DEF PayloadIncomplete
  <1>12. CASE PingTimeout
    BY <1>3, <1>12 DEF PingTimeout
  <1>13. CASE NoMemory
    <2>1. CASE Close
      BY <1>3, <1>13, <2>1 DEF NoMemory
    <2>2. CASE ~Close
      BY <1>2, <1>13, <2>2 DEF NoMemory
    <2> QED BY <2>1, <2>2
  <1>14. CASE UNCHANGED vars
    BY <1>2, <1>14 DEF vars, sender
  <1> QED BY <1>4, <1>5, <1>6, <1>7, <1>8, <1>9, <1>10, <1>11, <1>12, <1>13, <1>14
      DEF Next, Receive
-----------------------------------------------------------------------------
(* The numbers of the nonces. *)

\* The numbers are natural numbers.
LEMMA NumberNat ==
    ASSUME NEW nonce \in Nonces
    PROVE  Number(nonce) \in Nat
  <1>1. Limb \in Nat /\ nonce[1] \in Nat /\ nonce[2] \in Nat
    BY ChannelAssumption DEF ChannelAssumption, Nonces
  <1>2. nonce[1] * Limb \in Nat
    BY <1>1
  <1> QED BY <1>1, <1>2 DEF Number

\* The next nonce has the next number, except after the last.
LEMMA NumberNext ==
    ASSUME NEW nonce \in Nonces, Number(nonce) + 1 < Limb * Limb
    PROVE  /\ update_nonce(nonce) \in Nonces
           /\ Number(update_nonce(nonce)) = Number(nonce) + 1
  <1> DEFINE h == nonce[1]
             l == nonce[2]
  <1>1. Limb \in Nat /\ Limb > 0 /\ h \in 0..(Limb - 1) /\ l \in 0..(Limb - 1)
    BY ChannelAssumption DEF ChannelAssumption, Nonces
  <1>2. Number(nonce) = h * Limb + l
    BY DEF Number
  <1>3. /\ update_nonce(nonce) \in Nonces
        /\ l # Limb - 1 => update_nonce(nonce) = <<h, l + 1>>
        /\ l = Limb - 1 /\ h # Limb - 1 => update_nonce(nonce) = <<h + 1, 0>>
    BY NonceNext
  <1> HIDE DEF h, l
  <1>4. CASE l # Limb - 1
    <2>1. Number(update_nonce(nonce)) = h * Limb + (l + 1)
      BY <1>3, <1>4 DEF Number
    <2>2. h * Limb \in Nat
      BY <1>1
    <2> QED BY <1>1, <1>2, <1>3, <2>1, <2>2
  <1>5. CASE l = Limb - 1
    <2>1. (h + 1) * Limb = h * Limb + Limb
      BY <1>1
    <2>2. h # Limb - 1
      <3>1. ASSUME h = Limb - 1 PROVE FALSE
        <4>1. h + 1 = Limb
          BY <1>1, <3>1
        <4>2. Limb * Limb = h * Limb + Limb
          BY <2>1, <4>1
        <4>3. h * Limb \in Nat
          BY <1>1
        <4> QED BY <1>1, <1>2, <1>5, <4>2, <4>3
      <3> QED BY <3>1
    <2>3. Number(update_nonce(nonce)) = (h + 1) * Limb + 0
      BY <1>3, <1>5, <2>2 DEF Number
    <2>4. h * Limb \in Nat
      BY <1>1
    <2> QED BY <1>1, <1>2, <1>3, <1>5, <2>1, <2>3, <2>4
  <1> QED BY <1>4, <1>5

\* Every step keeps the order of the nonces.
LEMMA NonceStep ==
    ASSUME StreamType, NonceInv, MaxMsgs <= Limb * Limb, [Next]_vars
    PROVE  NonceInv'
  <1>0. /\ Limb * Limb \in Nat /\ MaxMsgs \in Nat /\ Len(sent) \in Nat
        /\ nonce_out \in Nonces
    BY TypeParts, ChannelAssumption DEF ChannelAssumption, StreamType, ChannelTypeOK, Nonces
  <1>1. ASSUME sent' = sent, nonce_out' = nonce_out
        PROVE  NonceInv'
    BY <1>1 DEF NonceInv, Messages, Accepted
  <1>2. ASSUME NEW size \in Sizes, wish_core_send_message(size)
        PROVE  NonceInv'
    <2> DEFINE N == Len(sent) + 1
               c == [size |-> size, nonce |-> nonce_out,
                     wrote |-> Written(size), ret |-> write_to_socket(size)]
    <2>1. /\ Len(sent') = N
          /\ \A k \in Messages : sent'[k] = sent[k]
          /\ sent'[N] = c
          /\ Messages' = Messages \cup {N}
          /\ Accepted' = Accepted \cup {k \in {N} : write_to_socket(size) = 0}
      BY <1>2, SentAppended
    <2>2. c.nonce = nonce_out /\ c.wrote = Written(size)
      OBVIOUS
    <2> HIDE DEF c
    <2>3. /\ \A k \in Messages : k < N
          /\ Accepted \subseteq Messages
          /\ N \in Nat
      BY <1>0 DEF Messages, Accepted
    <2>4. Len(sent) < MaxMsgs
      BY <1>2 DEF wish_core_send_message
    <2>5. /\ Number(nonce_out) \in Nat /\ Number(nonce_out) <= Len(sent)
          /\ \A j \in Accepted : Number(sent[j].nonce) < Number(nonce_out)
      BY <1>0, <2>4, NumberNat DEF NonceInv
    <2>6. ASSUME NEW j \in Messages', NEW k \in Messages', j < k, j \in Accepted'
          PROVE  Number(sent'[j].nonce) < Number(sent'[k].nonce)
      <3>1. k \in Nat /\ j \in Nat
        BY <1>0, <2>1 DEF Messages
      <3>2. j \in Messages /\ j \in Accepted
        BY <2>1, <2>3, <2>6, <3>1
      <3>3. CASE k = N
        BY <2>1, <2>2, <2>5, <3>2, <3>3
      <3>4. CASE k # N
        BY <2>1, <2>6, <3>2, <3>4 DEF NonceInv
      <3> QED BY <3>3, <3>4
    <2>7. ASSUME NEW k \in Messages', sent'[k].wrote > 0
          PROVE  k \in Accepted'
      <3>1. CASE k = N
        <4>1. Written(size) > 0
          BY <2>1, <2>2, <2>7, <3>1
        <4>2. write_to_socket(size) = 0
          BY <4>1, TypeParts, WrittenBytes
        <4> QED BY <2>1, <3>1, <4>2
      <3>2. CASE k # N
        BY <2>1, <2>7, <3>2 DEF NonceInv
      <3> QED BY <3>1, <3>2
    <2>8. Len(sent') <= MaxMsgs
      BY <1>0, <2>1, <2>4
    <2>9. ASSUME N < Limb * Limb
          PROVE  /\ Number(nonce_out') <= N
                 /\ \A j \in Accepted' : Number(sent'[j].nonce) < Number(nonce_out')
      <3>1. CASE write_to_socket(size) = 0
        <4>1. nonce_out' = update_nonce(nonce_out)
          BY <1>2, <3>1 DEF wish_core_send_message
        <4>2. Number(nonce_out) + 1 < Limb * Limb
          BY <1>0, <2>5, <2>9
        <4>3. Number(nonce_out') = Number(nonce_out) + 1
          BY <1>0, <4>1, <4>2, NumberNext
        <4>4. ASSUME NEW j \in Accepted'
              PROVE  Number(sent'[j].nonce) <= Number(nonce_out)
          <5>1. CASE j = N
            BY <2>1, <2>2, <2>5, <5>1
          <5>2. CASE j # N
            <6>1. j \in Accepted /\ sent'[j] = sent[j]
              BY <2>1, <2>3, <5>2
            <6>2. Number(sent[j].nonce) \in Nat
              BY <2>3, <6>1, TypeParts, CallParts, NumberNat
            <6> QED BY <2>5, <6>1, <6>2
          <5> QED BY <5>1, <5>2
        <4>5. ASSUME NEW j \in Accepted'
              PROVE  Number(sent'[j].nonce) \in Nat
          <5>1. sent'[j].nonce \in Nonces
            BY <1>0, <2>1, <2>2, <2>3, TypeParts, CallParts
          <5> QED BY <5>1, NumberNat
        <4> QED BY <1>0, <2>5, <4>3, <4>4, <4>5
      <3>2. CASE write_to_socket(size) # 0
        <4>1. nonce_out' = nonce_out
          BY <1>2, <3>2 DEF wish_core_send_message
        <4>2. Accepted' = Accepted
          BY <2>1, <3>2
        <4> QED BY <1>0, <2>1, <2>3, <2>5, <4>1, <4>2
      <3> QED BY <3>1, <3>2
    <2> QED BY <2>1, <2>6, <2>7, <2>8, <2>9 DEF NonceInv
  <1>3. CASE wish_close_connection
    BY <1>1, <1>3 DEF wish_close_connection
  <1>4. ASSUME UNCHANGED sender
        PROVE  NonceInv'
    BY <1>1, <1>4 DEF sender
  <1>5. CASE Receive
    BY <1>4, <1>5 DEF Receive, wish_core_feed, IoEof, WaitFrameLen, DeliverPayload,
                      RejectPayload, PayloadIncomplete, PingTimeout
  <1>6. CASE NoMemory
    BY <1>4, <1>6 DEF NoMemory
  <1>7. CASE UNCHANGED vars
    BY <1>1, <1>7 DEF vars
  <1> QED BY <1>2, <1>3, <1>5, <1>6, <1>7 DEF Next
-----------------------------------------------------------------------------
(* What is delivered. *)

\* Every step keeps the numbers of the messages delivered.
LEMMA DeliveredStep ==
    ASSUME SequenceInv, MaxMsgs <= Limb * Limb, [Next]_vars
    PROVE  DeliveredInv' /\ NextNumber'
  <1> USE DEF SequenceInv
  <1>0. /\ Limb * Limb \in Nat /\ MaxMsgs \in Nat /\ Len(sent) \in Nat
        /\ nonce_in \in Nonces
        /\ delivered \in Seq(Messages) /\ Len(delivered) \in Nat
        /\ Accepted \subseteq Messages /\ Messages \subseteq Nat
    BY TypeParts, ChannelAssumption
       DEF ChannelAssumption, OrderInv, StreamType, ChannelTypeOK, Nonces, Accepted, Messages
  <1>1. ASSUME \A k \in Messages : sent'[k] = sent[k], Accepted \subseteq Accepted',
               delivered' = delivered
        PROVE  DeliveredInv'
    <2>1. \A i \in DOMAIN delivered : delivered[i] \in Messages
      BY <1>0
    <2> QED BY <1>1, <2>1 DEF DeliveredInv, Number
  <1>2. ASSUME sent' = sent, delivered' = delivered
        PROVE  DeliveredInv'
    BY <1>1, <1>2 DEF Accepted, Messages
  <1>3. ASSUME pc' \in {pc, "closed"} \/ pc # "closed", delivered' = delivered,
               pc' # "closed" => nonce_in' = nonce_in
        PROVE  NextNumber'
    BY <1>3 DEF NextNumber, Number
  <1>4. ASSUME Close, UNCHANGED sender
        PROVE  DeliveredInv' /\ NextNumber'
    BY <1>2, <1>4 DEF Close, sender, NextNumber
  <1>5. ASSUME NEW size \in Sizes, wish_core_send_message(size)
        PROVE  DeliveredInv' /\ NextNumber'
    <2>1. /\ \A k \in Messages : sent'[k] = sent[k]
          /\ Accepted \subseteq Accepted'
      BY <1>5, SentAppended DEF OrderInv
    <2>2. delivered' = delivered /\ nonce_in' = nonce_in /\ pc' = pc
      BY <1>5 DEF wish_core_send_message
    <2> QED BY <1>1, <1>3, <2>1, <2>2
  <1>6. CASE wish_close_connection
    BY <1>2, <1>3, <1>6 DEF wish_close_connection
  <1>7. CASE wish_core_feed
    BY <1>2, <1>3, <1>7 DEF wish_core_feed, sender
  <1>8. CASE IoEof
    BY <1>4, <1>8 DEF IoEof
  <1>9. CASE WaitFrameLen
    BY <1>2, <1>3, <1>9 DEF WaitFrameLen, sender
  <1>10. ASSUME NEW k \in Messages, DeliverPayload(k)
         PROVE  DeliveredInv' /\ NextNumber'
    <2> DEFINE L == Len(delivered)
    <2>1. /\ sent' = sent /\ delivered' = Append(delivered, k)
          /\ nonce_in' = update_nonce(nonce_in) /\ sent[k].nonce = nonce_in
          /\ pc = "process"
      BY <1>10, DeliverStream DEF OrderInv, sender
    <2>2. k \in Accepted /\ \A j \in DOMAIN delivered : delivered[j] < k
      BY <1>10, DeliverOrder
    <2>3. L < k
      <3>1. CASE L = 0
        BY <3>1 DEF Messages
      <3>2. CASE L # 0
        <4>1. L \in DOMAIN delivered
          BY <1>0, <3>2
        <4>2. L <= delivered[L] /\ delivered[L] \in Nat
          BY <1>0, <4>1 DEF DeliveredInv
        <4> QED BY <1>0, <2>2, <4>1, <4>2
      <3> QED BY <3>1, <3>2
    <2>4. L < Limb * Limb
      BY <1>0, <2>3 DEF NonceInv, Messages
    <2>5. Number(nonce_in) = L
      BY <2>1, <2>4 DEF NextNumber
    <2>6. Accepted' = Accepted
      BY <2>1 DEF Accepted, Messages
    <2>7. /\ DOMAIN delivered' = 1..(L + 1)
          /\ \A i \in 1..L : delivered'[i] = delivered[i]
          /\ delivered'[L + 1] = k /\ Len(delivered') = L + 1
      BY <1>0, <2>1
    <2>8. ASSUME NEW i \in DOMAIN delivered'
          PROVE  /\ delivered'[i] \in Accepted
                 /\ Number(sent[delivered'[i]].nonce) = i - 1
                 /\ i <= delivered'[i]
      <3>1. CASE i = L + 1
        BY <1>0, <2>1, <2>2, <2>3, <2>5, <2>7, <3>1
      <3>2. CASE i # L + 1
        <4>1. i \in DOMAIN delivered /\ delivered'[i] = delivered[i]
          BY <1>0, <2>7, <3>2
        <4> QED BY <4>1 DEF DeliveredInv
      <3> QED BY <3>1, <3>2
    <2>9. DeliveredInv'
      BY <2>1, <2>6, <2>8 DEF DeliveredInv, Number
    <2>10. ASSUME L + 1 < Limb * Limb
           PROVE  Number(nonce_in') = L + 1
      BY <1>0, <2>1, <2>5, <2>10, NumberNext
    <2>11. NextNumber'
      BY <2>7, <2>10 DEF NextNumber, Number
    <2> QED BY <2>9, <2>11
  <1>11. CASE RejectPayload
    BY <1>4, <1>11 DEF RejectPayload
  <1>12. CASE PayloadIncomplete
    BY <1>2, <1>3, <1>12 DEF PayloadIncomplete, sender
  <1>13. CASE PingTimeout
    BY <1>4, <1>13 DEF PingTimeout
  <1>14. CASE NoMemory
    <2>1. CASE Close
      BY <1>4, <1>14, <2>1 DEF NoMemory
    <2>2. CASE ~Close
      BY <1>2, <1>3, <1>14, <2>2 DEF NoMemory, sender
    <2> QED BY <2>1, <2>2
  <1>15. CASE UNCHANGED vars
    BY <1>2, <1>3, <1>15 DEF vars
  <1> QED BY <1>5, <1>6, <1>7, <1>8, <1>9, <1>10, <1>11, <1>12, <1>13, <1>14, <1>15
      DEF Next, Receive

\* The invariant holds at first.
LEMMA SequenceInit ==
    ASSUME wish_connection_init
    PROVE  SequenceInv
  <1>1. Limb \in Nat /\ Limb > 0 /\ MaxMsgs \in Nat /\ OsBuffer \in Nat /\ RxLen \in Nat
    BY ChannelAssumption DEF ChannelAssumption
  <1>2. /\ sent = <<>> /\ nonce_out = <<0, 0>> /\ closing = FALSE
        /\ net = <<>> /\ rx = <<>> /\ ts = "WAIT_FRAME_LEN" /\ expect = 0
        /\ nonce_in = <<0, 0>> /\ delivered = <<>> /\ pc = "idle"
    BY DEF wish_connection_init
  <1>3. /\ Len(sent) = 0 /\ Len(net) = 0 /\ Len(rx) = 0 /\ Len(delivered) = 0
        /\ DOMAIN delivered = {} /\ Messages = {} /\ Accepted = {}
        /\ rx \in Seq(Byte) /\ net \in Seq(Byte) /\ delivered \in Seq(Messages)
        /\ sent \in Seq(Calls)
    BY <1>2 DEF Messages, Accepted
  <1>4. <<0, 0>> \in Nonces /\ 0 \in 0..MaxLength
    BY <1>1, LengthLimit DEF Nonces
  <1>5. StreamType
    <2>1. /\ sent \in Seq([size : Sizes, nonce : (0..(Limb - 1)) \X (0..(Limb - 1)),
                            wrote : Int, ret : {0, 1}])
          /\ Len(net) <= OsBuffer /\ Len(rx) <= RxLen
      BY <1>1, <1>2, <1>3, ChannelAssumption DEF ChannelAssumption
    <2>2. /\ nonce_out \in (0..(Limb - 1)) \X (0..(Limb - 1))
          /\ nonce_in \in (0..(Limb - 1)) \X (0..(Limb - 1))
      BY <1>2, <1>4 DEF Nonces
    <2> QED BY <1>2, <1>3, <1>4, <2>1, <2>2 DEF StreamType, ChannelTypeOK
  <1>6. Len(stream) = 0
    BY <1>3, StreamParts
  <1>7. OrderInv
    BY <1>3, <1>5, <1>6 DEF OrderInv, BytesSent, BytesInOrder, DeliveredAreGone
  <1>8. Number(<<0, 0>>) = 0
    BY <1>1 DEF Number
  <1>9. NonceInv /\ DeliveredInv /\ NextNumber
    BY <1>1, <1>2, <1>3, <1>8 DEF NonceInv, DeliveredInv, NextNumber
  <1> QED BY <1>7, <1>9 DEF SequenceInv

\* The buffers keep within their limits and the frame reader within its
\* states, whatever the network and the memory do.
THEOREM ChannelType == Spec => []ChannelTypeOK
  <1>1. wish_connection_init => OrderInv
    BY SequenceInit DEF SequenceInv
  <1>2. OrderInv /\ [Next]_vars => OrderInv'
    BY OrderStep
  <1>3. OrderInv => ChannelTypeOK
    BY DEF OrderInv, StreamType
  <1> QED BY <1>1, <1>2, <1>3, PTL DEF Spec

\* The strengthening of the two properties about the order of messages.
THEOREM ChannelSequence == MaxMsgs <= Limb * Limb => (Spec => []SequenceInv)
  <1> SUFFICES ASSUME MaxMsgs <= Limb * Limb
               PROVE  Spec => []SequenceInv
    OBVIOUS
  <1>1. wish_connection_init => SequenceInv
    BY SequenceInit
  <1>2. SequenceInv /\ [Next]_vars => SequenceInv'
    BY OrderStep, NonceStep, DeliveredStep DEF SequenceInv, OrderInv
  <1> QED BY <1>1, <1>2, PTL DEF Spec

\* Messages whose nonces have the same number are the same.
LEMMA SameNumber ==
    ASSUME StreamType, NonceInv, NEW j \in Accepted, NEW k \in Accepted,
           Number(sent[j].nonce) = Number(sent[k].nonce)
    PROVE  j = k
  <1>1. j \in Messages /\ k \in Messages /\ j \in Nat /\ k \in Nat
    BY DEF Accepted, Messages
  <1>2. Number(sent[j].nonce) \in Nat
    BY <1>1, TypeParts, CallParts, NumberNat
  <1> QED BY <1>1, <1>2 DEF NonceInv

\* As long as the nonces last, the messages delivered are a prefix of those
\* whose sending was reported as successful.
THEOREM DeliveredSafety == MaxMsgs <= Limb * Limb => (Spec => []DeliveredInOrder)
  <1>1. SequenceInv => DeliveredInOrder
    <2> SUFFICES ASSUME SequenceInv, NEW i \in DOMAIN delivered
                 PROVE  /\ delivered[i] \in Accepted
                        /\ {delivered[j] : j \in 1..(i - 1)}
                             = {k \in Accepted : k < delivered[i]}
      BY DEF DeliveredInOrder
    <2>1. /\ StreamType /\ NonceInv /\ DeliveredInv
          /\ DOMAIN delivered = 1..Len(delivered) /\ Len(delivered) \in Nat
          /\ Accepted \subseteq Messages /\ Messages \subseteq Nat
      <3>1. StreamType /\ NonceInv /\ DeliveredInv
        BY DEF SequenceInv, OrderInv
      <3>2. delivered \in Seq(Messages)
        BY <3>1 DEF StreamType, ChannelTypeOK
      <3>3. DOMAIN delivered = 1..Len(delivered) /\ Len(delivered) \in Nat
        BY <3>2
      <3>4. Accepted \subseteq Messages /\ Messages \subseteq Nat
        BY DEF Accepted, Messages
      <3> QED BY <3>1, <3>3, <3>4
    <2>2. \A j \in DOMAIN delivered :
            delivered[j] \in Accepted /\ Number(sent[delivered[j]].nonce) = j - 1
      BY <2>1 DEF DeliveredInv
    <2>3. ASSUME NEW j \in 1..(i - 1)
          PROVE  delivered[j] \in {k \in Accepted : k < delivered[i]}
      <3>1. j \in DOMAIN delivered /\ j - 1 < i - 1
        BY <2>1
      <3>2. /\ delivered[j] \in Accepted /\ delivered[i] \in Accepted
            /\ Number(sent[delivered[j]].nonce) = j - 1
            /\ Number(sent[delivered[i]].nonce) = i - 1
        BY <2>2, <3>1
      <3>3. delivered[j] \in Nat /\ delivered[i] \in Nat
        BY <2>1, <3>2
      <3>4. ~(delivered[i] < delivered[j])
        <4>1. ASSUME delivered[i] < delivered[j]
              PROVE  i - 1 < j - 1
          BY <2>1, <3>2, <4>1 DEF NonceInv
        <4> QED BY <2>1, <3>1, <4>1
      <3>5. delivered[i] # delivered[j]
        BY <2>1, <3>1, <3>2
      <3> QED BY <3>2, <3>3, <3>4, <3>5
    <2>4. ASSUME NEW k \in Accepted, k < delivered[i]
          PROVE  \E j \in 1..(i - 1) : k = delivered[j]
      <3> DEFINE j == Number(sent[k].nonce) + 1
      <3>1. /\ Number(sent[k].nonce) < i - 1 /\ delivered[i] \in Accepted
        BY <2>1, <2>2, <2>4 DEF NonceInv
      <3>2. Number(sent[k].nonce) \in Nat
        BY <2>1, TypeParts, CallParts, NumberNat
      <3>3. j \in 1..(i - 1) /\ j \in DOMAIN delivered
        BY <2>1, <3>1, <3>2
      <3>4. /\ delivered[j] \in Accepted
            /\ Number(sent[delivered[j]].nonce) = Number(sent[k].nonce)
        BY <2>2, <3>2, <3>3
      <3>5. k = delivered[j]
        BY <2>1, <3>4, SameNumber
      <3> QED BY <3>3, <3>5
    <2> QED BY <2>2, <2>3, <2>4
  <1> QED BY <1>1, ChannelSequence, PTL

\* As long as they last, no nonce encrypts two frames of which anything went
\* out.
THEOREM NonceSafety == MaxMsgs <= Limb * Limb => (Spec => []NonceNeverReused)
  <1>1. SequenceInv => NonceNeverReused
    <2> SUFFICES ASSUME SequenceInv, NEW j \in Messages, NEW k \in Messages,
                        j # k, sent[j].wrote > 0, sent[k].wrote > 0,
                        sent[j].nonce = sent[k].nonce
                 PROVE  FALSE
      BY DEF NonceNeverReused
    <2>1. StreamType /\ NonceInv
      BY DEF SequenceInv, OrderInv
    <2>2. j \in Accepted /\ k \in Accepted
      BY <2>1 DEF NonceInv
    <2> QED BY <2>1, <2>2, SameNumber
  <1> QED BY <1>1, ChannelSequence, PTL
-----------------------------------------------------------------------------
(* The reader is in step with the frames. *)

\* Bytes that leave the front leave the frames that follow alone.
LEMMA FramesShift ==
    ASSUME Len(stream) \in Nat, NEW n \in Nat, Shift(n), BytesSent,
           \A k \in Messages : sent'[k] = sent[k],
           FramesComplete, FramesLinked
    PROVE  FramesComplete' /\ FramesLinked'
  <1>1. ASSUME NEW i \in 1..Len(stream')
        PROVE  /\ i + n \in 1..Len(stream) /\ stream'[i] = stream[i + n]
               /\ sent'[stream[i + n][1]] = sent[stream[i + n][1]]
    BY DEF Shift, BytesSent, Accepted
  <1>2. Len(stream') = Len(stream) - n /\ Len(stream') \in Nat
    BY DEF Shift
  <1>3. FramesComplete'
    <2>1. ASSUME NEW i \in 1..Len(stream'),
                 NEW q \in stream'[i][2]..FrameLength(sent'[stream'[i][1]].size)
          PROVE  /\ i + q - stream'[i][2] <= Len(stream')
                 /\ stream'[i + q - stream'[i][2]] = <<stream'[i][1], q>>
      <3> DEFINE p == stream'[i][2]
                 k == stream'[i][1]
      <3>1. /\ i + n \in 1..Len(stream) /\ stream[i + n][1] = k /\ stream[i + n][2] = p
            /\ sent'[k] = sent[k]
        BY <1>1
      <3>2. p \in Nat /\ q \in Nat /\ p <= q
        <4>1. p \in 1..FrameLength(sent[k].size)
          BY <3>1 DEF BytesSent
        <4> QED BY <4>1
      <3>3. /\ (i + n) + q - p <= Len(stream)
            /\ stream[(i + n) + q - p] = <<k, q>>
        BY <3>1 DEF FramesComplete
      <3> HIDE DEF p, k
      <3>4. /\ i + q - p \in 1..Len(stream')
            /\ (i + q - p) + n = (i + n) + q - p
        BY <1>2, <3>2, <3>3
      <3>5. stream'[i + q - p] = <<k, q>>
        BY <1>1, <3>3, <3>4
      <3> QED BY <3>4, <3>5 DEF p, k
    <2> QED BY <2>1 DEF FramesComplete, FrameLength
  <1>4. FramesLinked'
    <2>1. ASSUME NEW i \in 1..(Len(stream') - 1)
          PROVE  /\ stream'[i] = stream[i + n] /\ stream'[i + 1] = stream[(i + n) + 1]
                 /\ i + n \in 1..(Len(stream) - 1)
                 /\ sent'[stream[i + n][1]] = sent[stream[i + n][1]]
                 /\ sent'[stream[(i + n) + 1][1]] = sent[stream[(i + n) + 1][1]]
      <3>1. i \in 1..Len(stream') /\ i + 1 \in 1..Len(stream')
        BY <1>2
      <3>2. (i + 1) + n = (i + n) + 1 /\ i + n \in 1..(Len(stream) - 1)
        BY <1>2
      <3> QED BY <1>1, <3>1, <3>2
    <2>2. ASSUME NEW i \in 1..(Len(stream') - 1),
                 stream'[i][2] = FrameLength(sent'[stream'[i][1]].size)
          PROVE  /\ stream'[i + 1][2] = 1
                 /\ sent'[stream'[i + 1][1]].nonce
                      = update_nonce(sent'[stream'[i][1]].nonce)
      <3> DEFINE m == i + n
      <3>1. /\ stream'[i] = stream[m] /\ stream'[i + 1] = stream[m + 1]
            /\ m \in 1..(Len(stream) - 1)
            /\ sent'[stream[m][1]] = sent[stream[m][1]]
            /\ sent'[stream[m + 1][1]] = sent[stream[m + 1][1]]
        BY <2>1
      <3> HIDE DEF m
      <3>2. stream[m][2] = FrameLength(sent[stream[m][1]].size)
        BY <2>2, <3>1
      <3>3. /\ stream[m + 1][2] = 1
            /\ sent[stream[m + 1][1]].nonce = update_nonce(sent[stream[m][1]].nonce)
        BY <3>1, <3>2 DEF FramesLinked
      <3> QED BY <3>1, <3>3
    <2> QED BY <2>2 DEF FramesLinked, FrameLength, update_nonce
  <1> QED BY <1>3, <1>4

\* Nothing but the place of the bytes between the two buffers changes.
LEMMA InStepSame ==
    ASSUME Len(stream) \in Nat, BytesSent, Shift(0),
           \A k \in Messages : sent'[k] = sent[k],
           UNCHANGED <<nonce_out, ts, expect, nonce_in>>,
           FramesComplete, FramesLinked, ReaderAtHead, SenderAtTail
    PROVE  FramesComplete' /\ FramesLinked' /\ ReaderAtHead' /\ SenderAtTail'
  <1>1. FramesComplete' /\ FramesLinked'
    BY FramesShift
  <1>2. Len(stream') = Len(stream) /\ \A i \in 1..Len(stream) : stream'[i] = stream[i]
    BY DEF Shift
  <1>3. ASSUME Len(stream) > 0
        PROVE  /\ stream'[1] = stream[1] /\ stream'[Len(stream')] = stream[Len(stream)]
               /\ sent'[stream[1][1]] = sent[stream[1][1]]
               /\ sent'[stream[Len(stream)][1]] = sent[stream[Len(stream)][1]]
    BY <1>2, <1>3 DEF BytesSent, Accepted
  <1>4. ReaderAtHead'
    BY <1>2, <1>3 DEF ReaderAtHead
  <1>5. SenderAtTail'
    BY <1>2, <1>3 DEF SenderAtTail, update_nonce
  <1> QED BY <1>1, <1>4, <1>5

\* A write that is not cut short puts a whole frame behind the others.
LEMMA InStepSend ==
    ASSUME OrderInv, NEW size \in Sizes, wish_core_send_message(size),
           Written(size) = FrameLength(size),
           FramesComplete, FramesLinked, ReaderAtHead, SenderAtTail
    PROVE  FramesComplete' /\ FramesLinked' /\ ReaderAtHead' /\ SenderAtTail'
  <1> DEFINE N == Len(sent) + 1
             L == Len(stream)
             w == FrameLength(size)
             c == [size |-> size, nonce |-> nonce_out,
                   wrote |-> Written(size), ret |-> write_to_socket(size)]
  <1>1. /\ L \in Nat /\ N \in Nat /\ w \in Nat /\ w >= 3
        /\ BytesSent /\ StreamType
    BY TypeParts, StreamParts, ChannelAssumption, LengthLimit
       DEF OrderInv, ChannelAssumption, FrameLength
  <1>2. write_to_socket(size) = 0
    BY <1>1 DEF write_to_socket
  <1>3. /\ \A k \in Messages : sent'[k] = sent[k]
        /\ sent'[N] = c
    BY <1>1, SentAppended
  <1>4. c.size = size /\ c.nonce = nonce_out
    OBVIOUS
  <1>5. /\ nonce_out' = update_nonce(nonce_out)
        /\ ts' = ts /\ expect' = expect /\ nonce_in' = nonce_in
    BY <1>2 DEF wish_core_send_message
  <1>6. Grown(Written(size))
    BY <1>1, <1>2, StreamSent
  <1> HIDE DEF w, c
  <1>7. /\ Len(stream') = L + w
        /\ \A i \in 1..L : stream'[i] = stream[i]
        /\ \A i \in 1..w : stream'[L + i] = <<N, i>>
    BY <1>6 DEF Grown, w
  <1>8. \A i \in 1..L : /\ stream[i][1] \in Messages
                        /\ sent'[stream[i][1]] = sent[stream[i][1]]
                        /\ stream[i][2] \in Nat
    BY <1>1, <1>3 DEF BytesSent, Accepted
  <1>9. FrameLength(sent'[N].size) = w
    BY <1>3, <1>4 DEF w
  <1> HIDE DEF L, N
  <1>10. ASSUME NEW i \in 1..Len(stream')
         PROVE  \/ i \in 1..L
                \/ i - L \in 1..w /\ i = L + (i - L) /\ stream'[i] = <<N, i - L>>
    <2>1. CASE i <= L
      BY <1>1, <2>1
    <2>2. CASE i > L
      <3>1. i - L \in 1..w /\ i = L + (i - L)
        BY <1>1, <1>7, <2>2
      <3> QED BY <1>7, <3>1
    <2> QED BY <1>1, <2>1, <2>2
  <1>11. FramesComplete'
    <2>1. ASSUME NEW i \in 1..Len(stream'),
                 NEW q \in stream'[i][2]..FrameLength(sent'[stream'[i][1]].size)
          PROVE  /\ i + q - stream'[i][2] <= Len(stream')
                 /\ stream'[i + q - stream'[i][2]] = <<stream'[i][1], q>>
      <3>1. CASE i \in 1..L
        <4> DEFINE p == stream[i][2]
                   k == stream[i][1]
        <4>1. stream'[i] = stream[i] /\ sent'[k] = sent[k] /\ p \in Nat
          BY <1>7, <1>8, <3>1
        <4>2. q \in p..FrameLength(sent[k].size)
          BY <4>1
        <4>3. i + q - p <= L /\ stream[i + q - p] = <<k, q>>
          BY <3>1, <4>2 DEF FramesComplete, L
        <4>4. q \in Int /\ p <= q
          BY <4>2
        <4> HIDE DEF p, k
        <4>5. i + q - p \in 1..L
          BY <3>1, <1>1, <4>1, <4>3, <4>4
        <4>6. stream'[i + q - p] = <<k, q>> /\ i + q - p <= Len(stream')
          BY <1>1, <1>7, <4>3, <4>5
        <4> QED BY <4>1, <4>6 DEF p, k
      <3>2. CASE i - L \in 1..w /\ i = L + (i - L) /\ stream'[i] = <<N, i - L>>
        <4>1. stream'[i][1] = N /\ stream'[i][2] = i - L
          BY <3>2
        <4>2. q \in (i - L)..w
          BY <1>9, <4>1
        <4>3. i + q - (i - L) = L + q /\ q \in 1..w
          BY <1>1, <3>2, <4>2
        <4> QED BY <1>1, <1>7, <4>1, <4>3
      <3> QED BY <1>10, <3>1, <3>2
    <2> QED BY <2>1 DEF FramesComplete, FrameLength
  <1>12. FramesLinked'
    <2>1. ASSUME NEW i \in 1..(Len(stream') - 1),
                 stream'[i][2] = FrameLength(sent'[stream'[i][1]].size)
          PROVE  /\ stream'[i + 1][2] = 1
                 /\ sent'[stream'[i + 1][1]].nonce
                      = update_nonce(sent'[stream'[i][1]].nonce)
      <3>0. i \in 1..Len(stream') /\ i + 1 \in 1..Len(stream')
        BY <1>1, <1>7
      <3>1. CASE i \in 1..L /\ i # L
        <4>1. i + 1 \in 1..L /\ i \in 1..(L - 1)
          BY <1>1, <3>1
        <4>2. /\ stream'[i] = stream[i] /\ stream'[i + 1] = stream[i + 1]
              /\ sent'[stream[i][1]] = sent[stream[i][1]]
              /\ sent'[stream[i + 1][1]] = sent[stream[i + 1][1]]
          BY <1>7, <1>8, <3>1, <4>1
        <4> QED BY <2>1, <4>1, <4>2 DEF FramesLinked, L
      <3>2. CASE i = L
        <4>1. 1 \in 1..w /\ i \in 1..L
          BY <1>1, <3>2
        <4>2. stream'[L + 1] = <<N, 1>>
          BY <1>7, <4>1
        <4>3. stream'[i] = stream[i] /\ sent'[stream[i][1]] = sent[stream[i][1]]
          BY <1>7, <1>8, <4>1
        <4>4. nonce_out = update_nonce(sent[stream[L][1]].nonce)
          BY <3>2, <4>1 DEF SenderAtTail, L
        <4>5. sent'[N].nonce = nonce_out
          BY <1>3, <1>4
        <4> QED BY <3>2, <4>2, <4>3, <4>4, <4>5
      <3>3. CASE i - L \in 1..w /\ i = L + (i - L) /\ stream'[i] = <<N, i - L>>
        <4>1. i - L = w
          BY <1>9, <2>1, <3>3
        <4> QED BY <1>1, <1>7, <4>1, <3>3
      <3> QED BY <1>10, <3>0, <3>1, <3>2, <3>3
    <2> QED BY <2>1 DEF FramesLinked, FrameLength, update_nonce
  <1>13. ReaderAtHead'
    <2>1. CASE L = 0
      <3>1. 1 \in 1..w /\ Len(stream') > 0
        BY <1>1, <1>7, <2>1
      <3>2. stream'[1] = <<N, 1>>
        BY <1>7, <2>1, <3>1
      <3>3. nonce_out = nonce_in /\ ts # "WAIT_PAYLOAD"
        BY <2>1 DEF SenderAtTail, ReaderAtHead, L
      <3> QED BY <1>3, <1>4, <1>5, <3>1, <3>2, <3>3 DEF ReaderAtHead
    <2>2. CASE L > 0
      <3>1. 1 \in 1..L
        BY <1>1, <2>2
      <3>2. stream'[1] = stream[1] /\ sent'[stream[1][1]] = sent[stream[1][1]]
        BY <1>7, <1>8, <3>1
      <3>3. Len(stream') > 0
        BY <1>1, <1>7, <2>2
      <3> QED BY <1>5, <2>2, <3>2, <3>3 DEF ReaderAtHead, L
    <2> QED BY <1>1, <2>1, <2>2
  <1>14. SenderAtTail'
    <2>1. w \in 1..w /\ Len(stream') # 0 /\ Len(stream') = L + w
      BY <1>1, <1>7
    <2>2. stream'[Len(stream')] = <<N, w>>
      BY <1>7, <2>1
    <2>3. sent'[N].nonce = nonce_out
      BY <1>3, <1>4
    <2>4. sent'[stream'[Len(stream')][1]].nonce = nonce_out
      BY <2>2, <2>3
    <2> DEFINE last == sent'[stream'[Len(stream')][1]].nonce
    <2>5. SenderAtTail' <=>
            nonce_out' = IF Len(stream') = 0 THEN nonce_in' ELSE update_nonce(last)
      BY DEF SenderAtTail, update_nonce
    <2> HIDE DEF last
    <2> QED BY <1>5, <2>1, <2>4, <2>5 DEF last
  <1> QED BY <1>11, <1>12, <1>13, <1>14

\* Closing apart, every step keeps the reader in step with the frames, as long
\* as no write is cut short.
LEMMA InStepStep ==
    ASSUME OrderInv, InStep, [Next]_vars
    PROVE  InStep'
  <1> SUFFICES ASSUME pc' # "closed", NoneTruncated'
               PROVE  FramesComplete' /\ FramesLinked' /\ ReaderAtHead' /\ SenderAtTail'
    BY DEF InStep
  <1> DEFINE Goal == FramesComplete' /\ FramesLinked' /\ ReaderAtHead' /\ SenderAtTail'
             L == Len(stream)
  <1>0. /\ rx \in Seq(Byte) /\ net \in Seq(Byte) /\ L \in Nat /\ Len(rx) \in Nat
        /\ StreamType /\ BytesSent
        /\ \A i \in 1..Len(rx) : stream[i] = rx[i]
        /\ L = Len(rx) + Len(net) /\ Len(net) \in Nat
    BY TypeParts, StreamParts DEF OrderInv
  <1>s. \A i \in 1..L : /\ stream[i][1] \in Messages
                        /\ sent[stream[i][1]].size \in Nat
                        /\ sent[stream[i][1]].size >= 1
    BY <1>0, TypeParts, CallParts, LengthLimit DEF BytesSent, Accepted
  <1>a. ASSUME sent' = sent, pc # "closed"
        PROVE  FramesComplete /\ FramesLinked /\ ReaderAtHead /\ SenderAtTail
    <2>1. NoneTruncated
      BY <1>a DEF NoneTruncated, Truncated, Messages, FrameLength
    <2> QED BY <1>a, <2>1 DEF InStep
  <1>b. ASSUME pc # "closed", UNCHANGED sender, Shift(0),
               UNCHANGED <<ts, expect, nonce_in>>
        PROVE  Goal
    BY <1>0, <1>a, <1>b, InStepSame DEF sender
  <1>c. ASSUME pc # "closed", UNCHANGED <<sender, rx, net, ts, expect, nonce_in>>
        PROVE  Goal
    BY <1>0, <1>b, <1>c, StreamUnchanged
  <1>d. ~Close
    BY DEF Close
  <1>1. ASSUME NEW size \in Sizes, wish_core_send_message(size), pc # "closed"
        PROVE  Goal
    <2> DEFINE N == Len(sent) + 1
               c == [size |-> size, nonce |-> nonce_out,
                     wrote |-> Written(size), ret |-> write_to_socket(size)]
    <2>1. /\ \A k \in Messages : sent'[k] = sent[k]
          /\ sent'[N] = c
          /\ Messages' = Messages \cup {N}
      BY <1>0, <1>1, SentAppended
    <2>2. /\ c.size = size /\ c.wrote = Written(size)
          /\ c.ret = write_to_socket(size)
      OBVIOUS
    <2> HIDE DEF c
    <2>3. NoneTruncated
      BY <2>1 DEF NoneTruncated, Truncated, FrameLength
    <2>4. FramesComplete /\ FramesLinked /\ ReaderAtHead /\ SenderAtTail
      BY <1>1, <2>3 DEF InStep
    <2>5. ~(write_to_socket(size) = 0 /\ Written(size) < FrameLength(size))
      BY <2>1, <2>2 DEF NoneTruncated, Truncated, FrameLength
    <2>6. CASE write_to_socket(size) = 0
      <3>1. Written(size) = FrameLength(size)
        <4>1. Written(size) \in Int /\ Written(size) <= FrameLength(size)
          BY <1>0, TypeParts, WrittenBytes
        <4>2. FrameLength(size) \in Int
          BY ChannelAssumption, LengthLimit DEF ChannelAssumption, FrameLength
        <4> QED BY <2>5, <2>6, <4>1, <4>2
      <3> QED BY <1>1, <2>4, <3>1, InStepSend
    <2>7. CASE write_to_socket(size) # 0
      <3>1. Grown(0)
        BY <1>0, <1>1, <2>7, StreamSent
      <3>2. Shift(0)
        BY <1>0, <3>1 DEF Grown, Shift
      <3>3. UNCHANGED <<nonce_out, ts, expect, nonce_in>>
        BY <1>1, <2>7 DEF wish_core_send_message
      <3> QED BY <1>0, <2>1, <2>4, <3>2, <3>3, InStepSame
    <2> QED BY <2>6, <2>7
  <1>2. CASE wish_close_connection /\ pc # "closed"
    <2>1. Shift(0)
      BY <1>0, <1>2, StreamUnchanged DEF wish_close_connection
    <2>2. /\ sent' = sent /\ UNCHANGED <<nonce_out, ts, expect, nonce_in>>
      BY <1>2 DEF wish_close_connection
    <2> QED BY <1>0, <1>2, <1>a, <2>1, <2>2, InStepSame
  <1>3. CASE wish_core_feed
    <2>1. pc # "closed"
      BY <1>3 DEF wish_core_feed
    <2> QED BY <1>0, <1>3, <1>b, <2>1, FeedStream
  <1>4. CASE IoEof
    BY <1>4, <1>d DEF IoEof
  <1>5. CASE WaitFrameLen
    <2>0. pc # "closed" /\ ts = "WAIT_FRAME_LEN"
      BY <1>5 DEF WaitFrameLen
    <2>1. CASE Len(rx) >= 2
      <3> DEFINE k == stream[1][1]
      <3>1. /\ Shift(2) /\ sent' = sent /\ nonce_out' = nonce_out
            /\ nonce_in' = nonce_in /\ ts' = "WAIT_PAYLOAD"
            /\ expect' \in LengthsRead(rx[1], rx[2])
        BY <1>0, <1>5, <2>1, LengthStream DEF sender
      <3>2. FramesComplete /\ FramesLinked /\ ReaderAtHead /\ SenderAtTail
        BY <1>a, <2>0, <3>1
      <3>3. L >= 2 /\ 1 \in 1..L /\ rx[1] = stream[1] /\ rx[2] = stream[2]
        BY <1>0, <2>1
      <3>4. k \in Messages /\ sent[k].size \in Nat /\ sent[k].size >= 1
        BY <1>s, <3>3
      <3>5. sent[k].nonce = nonce_in /\ stream[1][2] = 1
        BY <2>0, <3>2, <3>3 DEF ReaderAtHead
      <3>6. /\ 2 \in 1..FrameLength(sent[k].size)
            /\ 3 \in 1..FrameLength(sent[k].size)
        BY <3>4 DEF FrameLength
      <3>7. \A q \in 1..FrameLength(sent[k].size) :
              1 + q - 1 <= L /\ stream[1 + q - 1] = <<k, q>>
        BY <3>2, <3>3, <3>5 DEF FramesComplete
      <3>8. stream[2] = <<k, 2>> /\ stream[3] = <<k, 3>> /\ 3 <= L
        BY <3>6, <3>7
      <3>9. expect' = sent[k].size
        BY <3>1, <3>3, <3>5, <3>8 DEF LengthsRead
      <3> HIDE DEF k
      <3>10. /\ Len(stream') = L - 2 /\ Len(stream') > 0
             /\ stream'[1] = stream[3]
             /\ stream'[Len(stream')] = stream[L]
        <4>1. /\ Len(stream') = L - 2
              /\ \A i \in 1..Len(stream') : stream'[i] = stream[i + 2]
          BY <3>1 DEF Shift
        <4>2. 1 \in 1..Len(stream') /\ Len(stream') \in 1..Len(stream')
          BY <1>0, <3>8, <4>1
        <4>3. 1 + 2 = 3 /\ Len(stream') + 2 = L
          BY <1>0, <4>1
        <4> QED BY <4>1, <4>2, <4>3
      <3>11. ReaderAtHead'
        BY <3>1, <3>5, <3>8, <3>9, <3>10 DEF ReaderAtHead
      <3>12. SenderAtTail'
        BY <1>0, <3>1, <3>2, <3>8, <3>10 DEF SenderAtTail, update_nonce
      <3>13. FramesComplete' /\ FramesLinked'
        BY <1>0, <3>1, <3>2, FramesShift
      <3> QED BY <3>11, <3>12, <3>13
    <2>2. CASE ~(Len(rx) >= 2)
      BY <1>5, <1>c, <2>0, <2>2 DEF WaitFrameLen
    <2> QED BY <2>1, <2>2
  <1>6. ASSUME NEW k \in Messages, DeliverPayload(k)
        PROVE  Goal
    <2>1. /\ expect \in Nat /\ Shift(expect) /\ sent' = sent /\ nonce_out' = nonce_out
          /\ nonce_in' = update_nonce(nonce_in) /\ sent[k].nonce = nonce_in
          /\ sent[k].size = expect /\ expect <= Len(rx)
          /\ \A i \in 1..expect : stream[i] = <<k, i + 2>>
          /\ ts' = "WAIT_FRAME_LEN" /\ pc # "closed"
      BY <1>0, <1>6, DeliverStream DEF sender
    <2>2. FramesComplete /\ FramesLinked /\ ReaderAtHead /\ SenderAtTail
      BY <1>a, <2>1
    <2>3. expect >= 1
      BY <1>0, <2>1, TypeParts, CallParts
    <2>4. expect \in 1..L /\ stream[expect] = <<k, expect + 2>>
      BY <1>0, <2>1, <2>3
    <2>5. expect + 2 = FrameLength(sent[k].size)
      BY <2>1 DEF FrameLength
    <2>6. FramesComplete' /\ FramesLinked'
      BY <1>0, <2>1, <2>2, FramesShift
    <2>7. ReaderAtHead'
      <3>1. CASE Len(stream') > 0
        <4>1. /\ expect \in 1..(L - 1) /\ stream'[1] = stream[expect + 1]
          BY <1>0, <2>1, <2>4, <3>1 DEF Shift
        <4>2. /\ stream[expect][1] = k /\ stream[expect][2] = FrameLength(sent[k].size)
          BY <2>4, <2>5
        <4>3. /\ stream[expect + 1][2] = 1
              /\ sent[stream[expect + 1][1]].nonce = update_nonce(sent[k].nonce)
          BY <2>2, <4>1, <4>2 DEF FramesLinked
        <4> QED BY <2>1, <4>1, <4>3 DEF ReaderAtHead
      <3>2. CASE ~(Len(stream') > 0)
        BY <2>1, <3>2 DEF ReaderAtHead
      <3> QED BY <3>1, <3>2
    <2>8. SenderAtTail'
      <3>1. nonce_out = update_nonce(sent[stream[L][1]].nonce)
        BY <2>2, <2>4, <1>0 DEF SenderAtTail
      <3>2. CASE Len(stream') = 0
        <4>1. L = expect
          BY <1>0, <2>1, <2>4, <3>2 DEF Shift
        <4> QED BY <2>1, <2>4, <3>1, <3>2, <4>1 DEF SenderAtTail
      <3>3. CASE Len(stream') # 0
        <4>1. stream'[Len(stream')] = stream[L]
          BY <1>0, <2>1, <2>4, <3>3 DEF Shift
        <4> QED BY <2>1, <3>1, <3>3, <4>1 DEF SenderAtTail, update_nonce
      <3> QED BY <3>2, <3>3
    <2> QED BY <2>6, <2>7, <2>8
  <1>7. CASE RejectPayload
    BY <1>7, <1>d DEF RejectPayload
  <1>8. CASE PayloadIncomplete
    BY <1>8, <1>c DEF PayloadIncomplete
  <1>9. CASE PingTimeout
    BY <1>9, <1>d DEF PingTimeout
  <1>10. CASE NoMemory
    BY <1>10, <1>c, <1>d DEF NoMemory
  <1>11. CASE UNCHANGED vars
    BY <1>11, <1>c DEF vars, sender
  <1> QED BY <1>1, <1>2, <1>3, <1>4, <1>5, <1>6, <1>7, <1>8, <1>9, <1>10, <1>11
      DEF Next, Receive

\* What is rejected is not a whole frame under the next nonce.
LEMMA RejectTruncated ==
    ASSUME OrderInv, InStep, RejectPayload
    PROVE  \E k \in Messages : Truncated(k)
  <1> SUFFICES ASSUME NoneTruncated PROVE FALSE
    BY DEF NoneTruncated
  <1> DEFINE k == stream[1][1]
  <1>1. /\ FramesComplete /\ ReaderAtHead /\ BytesSent /\ StreamType
        /\ ts = "WAIT_PAYLOAD" /\ Len(rx) >= expect
        /\ \A j \in Messages : ~Decrypts(j, SubSeq(rx, 1, expect))
    BY DEF RejectPayload, InStep, OrderInv
  <1>2. /\ rx \in Seq(Byte) /\ net \in Seq(Byte) /\ Len(rx) \in Nat /\ Len(stream) \in Nat
        /\ \A i \in 1..Len(rx) : stream[i] = rx[i]
    BY <1>1, TypeParts, StreamParts
  <1>3. /\ Len(stream) > 0 /\ sent[k].nonce = nonce_in /\ stream[1][2] = 3
        /\ expect = sent[k].size
    BY <1>1 DEF ReaderAtHead
  <1>4. 1 \in 1..Len(stream) /\ k \in Messages
    <2>1. 1 \in 1..Len(stream)
      BY <1>2, <1>3
    <2> QED BY <1>1, <2>1 DEF BytesSent, Accepted
  <1>5. expect \in Nat
    BY <1>1, <1>3, <1>4, TypeParts, CallParts, LengthLimit
  <1>6. \A q \in 3..FrameLength(sent[k].size) : stream[1 + q - 3] = <<k, q>>
    BY <1>1, <1>3, <1>4 DEF FramesComplete
  <1>7. \A i \in 1..expect : rx[i] = <<k, i + 2>>
    <2>1. ASSUME NEW i \in 1..expect PROVE rx[i] = <<k, i + 2>>
      <3>1. i + 2 \in 3..FrameLength(sent[k].size) /\ 1 + (i + 2) - 3 = i
        BY <1>3, <1>5 DEF FrameLength
      <3>2. i \in 1..Len(rx)
        BY <1>1, <1>2, <1>5
      <3> QED BY <1>2, <1>6, <3>1, <3>2
    <2> QED BY <2>1
  <1> DEFINE a == SubSeq(rx, 1, expect)
  <1> HIDE DEF k
  <1>8. a = [i \in 1..expect |-> <<k, i + 2>>]
    <2>1. a \in Seq(Byte) /\ Len(a) = expect /\ \A i \in 1..expect : a[i] = rx[i]
      BY <1>1, <1>2, <1>5
    <2>2. a = [i \in 1..expect |-> a[i]]
      BY <2>1
    <2> HIDE DEF a
    <2> QED BY <1>7, <2>1, <2>2
  <1>9. a = Payload(k)
    BY <1>3, <1>8 DEF Payload
  <1> QED BY <1>1, <1>3, <1>4, <1>9 DEF Decrypts

\* A frame is only ever rejected after a write that was cut short: frames that
\* failed to be written leave the two nonces in step.
THEOREM TruncationSafety == Spec => OnlyTruncationIsRejected
  <1>1. wish_connection_init => OrderInv /\ InStep
    <2> SUFFICES ASSUME wish_connection_init PROVE OrderInv /\ InStep
      OBVIOUS
    <2>1. OrderInv
      BY SequenceInit DEF SequenceInv
    <2>2. Len(stream) = 0 /\ ts = "WAIT_FRAME_LEN" /\ nonce_out = nonce_in
      BY StreamParts DEF wish_connection_init
    <2> QED BY <2>1, <2>2
        DEF InStep, FramesComplete, FramesLinked, ReaderAtHead, SenderAtTail
  <1>2. OrderInv /\ InStep /\ [Next]_vars => (OrderInv /\ InStep)'
    BY OrderStep, InStepStep
  <1>3. OrderInv /\ InStep /\ [Next]_vars =>
          [RejectPayload => \E k \in Messages : Truncated(k)]_vars
    BY RejectTruncated
  <1> QED BY <1>1, <1>2, <1>3, PTL DEF Spec, OnlyTruncationIsRejected
=============================================================================
