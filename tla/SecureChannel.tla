---------------------------- MODULE SecureChannel ---------------------------
(***************************************************************************)
(* One direction of a running Wish connection: wish_core_send_message on   *)
(* one core, the byte stream between the two kernels, and the receive      *)
(* buffer, the frame reader and wish_core_decrypt on the other core.       *)
(*                                                                         *)
(* A byte is the pair <<message, position in its frame>>: positions 1 and  *)
(* 2 are the big-endian length, the others cipher text and tag.  Deciding  *)
(* authenticity is AES-GCM's business: a payload decrypts exactly when it  *)
(* is the payload of one frame, complete and in order, and both sides use  *)
(* the same nonce.  A length read from bytes that are not the two length   *)
(* bytes of one frame can be anything.                                     *)
(*                                                                         *)
(* The receive buffer is the queue that ByteFifo specifies and that        *)
(* RingBuffer is shown to implement.                                       *)
(***************************************************************************)
EXTENDS Integers, Sequences, SequencesExt

CONSTANTS
    Sizes,        \* payload lengths, authentication tag included
    OsBuffer,     \* bytes the two kernels hold between write() and read()
    RxLen,        \* RX_RINGBUF_LEN
    Limb,         \* 2^32: the nonce is two 32 bit limbs
    StrayLengths, \* lengths that stray bytes may be taken for
    MaxMsgs       \* bound: messages sent

\* A length is two bytes.
MaxLength == 65535

ASSUME ChannelAssumption ==
    /\ Sizes \subseteq 1..MaxLength
    /\ StrayLengths \subseteq 0..MaxLength
    /\ OsBuffer \in Nat \ {0}
    /\ RxLen \in Nat /\ RxLen >= 2
    /\ Limb \in Nat \ {0}
    /\ MaxMsgs \in Nat

VARIABLES
    sent,       \* calls of wish_core_send_message so far
    nonce_out,  \* low part of aes_gcm_iv_out, most significant limb first
    closing,    \* the sending core has closed its socket
    net,        \* bytes between the two cores
    rx,         \* rx_ringbuf
    ts,         \* curr_transport_state
    expect,     \* expect_bytes
    nonce_in,   \* low part of aes_gcm_iv_in
    delivered,  \* messages given to wish_core_process_message
    pc          \* "idle", in wish_core_process_data, or connection "closed"

vars == <<sent, nonce_out, closing, net, rx, ts, expect, nonce_in, delivered, pc>>
sender == <<sent, nonce_out, closing>>

Messages == 1..Len(sent)
FrameLength(size) == 2 + size
Frame(k, size) == [i \in 1..FrameLength(size) |-> <<k, i>>]
Payload(k) == [i \in 1..sent[k].size |-> <<k, i + 2>>]
Least(m, n) == IF m <= n THEN m ELSE n

\* Mutant: the carry into the high limb is lost.
UpdateNonceNoCarry(nonce) == <<nonce[1], (nonce[2] + 1) % Limb>>

update_nonce(nonce) ==
    LET low == (nonce[2] + 1) % Limb
    IN  <<IF low = 0 THEN (nonce[1] + 1) % Limb ELSE nonce[1], low>>

wish_connection_init ==
    /\ sent = <<>> /\ nonce_out = <<0, 0>> /\ closing = FALSE
    /\ net = <<>> /\ rx = <<>>
    /\ ts = "WAIT_FRAME_LEN" /\ expect = 0
    /\ nonce_in = <<0, 0>> /\ delivered = <<>> /\ pc = "idle"

-----------------------------------------------------------------------------
(* The sending core. *)

\* A write() to a non-blocking socket takes what there is room for, and
\* fails when there is none.  (-1 is the system call's own result.)
Written(size) ==
    LET room == OsBuffer - Len(net)
    IN  IF room = 0 THEN -1 ELSE Least(room, FrameLength(size))

\* write_to_socket reports a failure for a negative result only.
write_to_socket(size) == IF Written(size) < 0 THEN 1 ELSE 0

\* Mutant: the nonce is updated whether or not the frame was sent.
SendAlwaysUpdatesNonce(size) ==
    /\ ~closing /\ Len(sent) < MaxMsgs
    /\ sent' = Append(sent, [size |-> size, nonce |-> nonce_out,
                             wrote |-> Written(size), ret |-> write_to_socket(size)])
    /\ net' = net \o SubSeq(Frame(Len(sent) + 1, size), 1, Written(size))
    /\ nonce_out' = update_nonce(nonce_out)
    /\ UNCHANGED <<closing, rx, ts, expect, nonce_in, delivered, pc>>

\* Encrypt under the next nonce, write, and use the nonce up unless the
\* write failed.
wish_core_send_message(size) ==
    /\ ~closing /\ Len(sent) < MaxMsgs
    /\ sent' = Append(sent, [size |-> size, nonce |-> nonce_out,
                             wrote |-> Written(size), ret |-> write_to_socket(size)])
    /\ net' = net \o SubSeq(Frame(Len(sent) + 1, size), 1, Written(size))
    /\ nonce_out' = IF write_to_socket(size) = 0 THEN update_nonce(nonce_out)
                                                 ELSE nonce_out
    /\ UNCHANGED <<closing, rx, ts, expect, nonce_in, delivered, pc>>

\* The sending core closes the connection; what it wrote still arrives.
wish_close_connection ==
    /\ ~closing
    /\ closing' = TRUE
    /\ UNCHANGED <<sent, nonce_out, net, rx, ts, expect, nonce_in, delivered, pc>>

-----------------------------------------------------------------------------
(* The receiving core. *)

\* Close on the receiving side: the slot is cleared, unread bytes are lost.
Close ==
    /\ pc' = "closed"
    /\ net' = <<>> /\ rx' = <<>>
    /\ ts' = "WAIT_FRAME_LEN" /\ expect' = 0
    /\ nonce_in' = <<0, 0>>
    /\ UNCHANGED delivered

\* Mutant: the room in the ring buffer is not looked at.
FeedRegardless ==
    /\ pc = "idle"
    /\ \E n \in 1..Len(net) :
         /\ rx' = rx \o SubSeq(net, 1, n)
         /\ net' = SubSeq(net, n + 1, Len(net))
    /\ pc' = "process"
    /\ UNCHANGED sender /\ UNCHANGED <<ts, expect, nonce_in, delivered>>

\* The socket is readable: read at most what the ring buffer has room for.
\* With a full buffer the loop goes on to the next connection.
wish_core_feed ==
    /\ pc = "idle"
    /\ \E n \in 1..Least(Len(net), RxLen - Len(rx)) :
         /\ rx' = rx \o SubSeq(net, 1, n)
         /\ net' = SubSeq(net, n + 1, Len(net))
    /\ pc' = "process"
    /\ UNCHANGED sender /\ UNCHANGED <<ts, expect, nonce_in, delivered>>

\* read() returns 0 once the peer has closed and its bytes are read.
IoEof ==
    /\ pc = "idle" /\ closing /\ net = <<>> /\ Len(rx) < RxLen
    /\ Close
    /\ UNCHANGED sender

Again(more) == pc' = IF more THEN "process" ELSE "idle"

\* What the two bytes at the front of the buffer mean as a length.
LengthsRead(b1, b2) ==
    IF b1[1] = b2[1] /\ b1[2] = 1 /\ b2[2] = 2 THEN {sent[b1[1]].size}
                                               ELSE StrayLengths

WaitFrameLen ==
    /\ pc = "process" /\ ts = "WAIT_FRAME_LEN"
    /\ IF Len(rx) >= 2
         THEN /\ expect' \in LengthsRead(rx[1], rx[2])
              /\ rx' = SubSeq(rx, 3, Len(rx))
              /\ ts' = "WAIT_PAYLOAD"
              /\ Again(Len(rx') >= expect')
         ELSE Again(FALSE) /\ UNCHANGED <<rx, ts, expect>>
    /\ UNCHANGED sender /\ UNCHANGED <<net, nonce_in, delivered>>

\* Mutant: the authentication tag of a frame is not looked at.
DecryptsAnything(k, payload) == payload # <<>> /\ payload[1][1] = k

\* wish_core_decrypt succeeds on message k.
Decrypts(k, payload) == payload = Payload(k) /\ sent[k].nonce = nonce_in

\* Mutant: the frames that are already there are not looked at.
DeliverOne(k) ==
    /\ pc = "process" /\ ts = "WAIT_PAYLOAD" /\ Len(rx) >= expect
    /\ Decrypts(k, SubSeq(rx, 1, expect))
    /\ delivered' = Append(delivered, k)
    /\ nonce_in' = update_nonce(nonce_in)
    /\ rx' = SubSeq(rx, expect + 1, Len(rx))
    /\ ts' = "WAIT_FRAME_LEN"
    /\ Again(FALSE)
    /\ UNCHANGED sender /\ UNCHANGED <<net, expect>>

\* The payload is complete and authentic: hand the message on.
DeliverPayload(k) ==
    /\ pc = "process" /\ ts = "WAIT_PAYLOAD" /\ Len(rx) >= expect
    /\ Decrypts(k, SubSeq(rx, 1, expect))
    /\ delivered' = Append(delivered, k)
    /\ nonce_in' = update_nonce(nonce_in)
    /\ rx' = SubSeq(rx, expect + 1, Len(rx))
    /\ ts' = "WAIT_FRAME_LEN"
    /\ Again(Len(rx') >= 2)
    /\ UNCHANGED sender /\ UNCHANGED <<net, expect>>

\* The payload is complete and does not decrypt: the connection is closed.
RejectPayload ==
    /\ pc = "process" /\ ts = "WAIT_PAYLOAD" /\ Len(rx) >= expect
    /\ \A k \in Messages : ~Decrypts(k, SubSeq(rx, 1, expect))
    /\ Close
    /\ UNCHANGED sender

\* There is no memory for the payload: it stays in the buffer until the
\* next bytes arrive.  Once it has been copied, a failed allocation of the
\* plain text closes the connection.
NoMemory ==
    /\ pc = "process" /\ ts = "WAIT_PAYLOAD" /\ Len(rx) >= expect
    /\ \/ /\ Again(FALSE)
          /\ UNCHANGED <<net, rx, ts, expect, nonce_in, delivered>>
       \/ Close
    /\ UNCHANGED sender

\* New bytes arrived, but not enough of them.
PayloadIncomplete ==
    /\ pc = "process" /\ ts = "WAIT_PAYLOAD" /\ Len(rx) < expect
    /\ Again(FALSE)
    /\ UNCHANGED sender /\ UNCHANGED <<net, rx, ts, expect, nonce_in, delivered>>

\* check_connection_liveliness: a full buffer takes no input, so neither
\* the time stamp of the last input nor the ping moves on.
PingTimeout ==
    /\ pc = "idle" /\ Len(rx) = RxLen
    /\ Close
    /\ UNCHANGED sender

Receive == \/ wish_core_feed \/ IoEof \/ WaitFrameLen
           \/ \E k \in Messages : DeliverPayload(k)
           \/ RejectPayload \/ PayloadIncomplete \/ PingTimeout

\* A closed receiver ends the behaviour; the sender's socket is reset.
Next == \/ /\ pc # "closed"
           /\ \/ \E size \in Sizes : wish_core_send_message(size)
              \/ wish_close_connection
        \/ Receive \/ NoMemory

\* The main loop of the receiving core keeps running: a readable socket is
\* read, what was read is processed in the same iteration, and the
\* liveliness check runs every second.
Spec == wish_connection_init /\ [][Next]_vars /\ WF_vars(Receive)

-----------------------------------------------------------------------------
(* Properties. *)

\* The buffers keep within their limits and the state machine of the frame
\* reader within its states.
ChannelTypeOK ==
    /\ sent \in Seq([size : Sizes, nonce : (0..(Limb - 1)) \X (0..(Limb - 1)),
                     wrote : Int, ret : {0, 1}])
    /\ nonce_out \in (0..(Limb - 1)) \X (0..(Limb - 1))
    /\ nonce_in \in (0..(Limb - 1)) \X (0..(Limb - 1))
    /\ closing \in BOOLEAN
    /\ Len(net) <= OsBuffer
    /\ Len(rx) <= RxLen
    /\ ts \in {"WAIT_FRAME_LEN", "WAIT_PAYLOAD"}
    /\ expect \in 0..MaxLength
    /\ delivered \in Seq(Messages)
    /\ pc \in {"idle", "process", "closed"}

Accepted == {k \in Messages : sent[k].ret = 0}

\* The messages delivered are a prefix of the messages whose sending was
\* reported as successful: however the stream is cut into reads, whatever
\* writes failed or were cut short in between, no message is skipped,
\* repeated or swapped.
DeliveredInOrder ==
    \A i \in DOMAIN delivered :
        /\ delivered[i] \in Accepted
        /\ {delivered[j] : j \in 1..(i - 1)} = {k \in Accepted : k < delivered[i]}

\* No two frames of which anything went out were encrypted under the same
\* nonce, the carry of the 32 bit limb and failed writes included.
NonceNeverReused ==
    \A j, k \in Messages :
        j # k /\ sent[j].wrote > 0 /\ sent[k].wrote > 0 =>
            sent[j].nonce # sent[k].nonce

Truncated(k) == sent[k].ret = 0 /\ sent[k].wrote < FrameLength(sent[k].size)

\* A frame is only ever rejected after a write that was cut short: frames
\* that failed to be written leave the two nonces in step.
OnlyTruncationIsRejected ==
    [][RejectPayload => \E k \in Messages : Truncated(k)]_vars

\* There was no memory for the payload in the buffer.
OutOfMemory == pc = "idle" /\ ts = "WAIT_PAYLOAD" /\ Len(rx) >= expect

\* A message whose frame, like every one before it, was written in full is
\* delivered, unless the receiving side closes the connection or is out of
\* memory; also when the frame never fits into the receive buffer and
\* reading has stalled.
EventuallyDeliveredOrClosed ==
    \A k \in 1..MaxMsgs :
        (k \in Messages /\ sent[k].ret = 0 /\ \A j \in 1..k : ~Truncated(j))
            ~> (k \in Range(delivered) \/ pc = "closed" \/ OutOfMemory)
=============================================================================
