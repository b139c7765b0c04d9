----------------------------- MODULE Liveliness -----------------------------
(***************************************************************************)
(* The clock of the core and what check_connection_liveliness does with    *)
(* it: pings, the ping timeout and the set-up timeout, with their time     *)
(* stamps.  ConnectionPool has the same handler for all slots at once and  *)
(* leaves the time open; here one slot is followed, with the time exact    *)
(* (the checks of different slots do not interact).                        *)
(*                                                                         *)
(* The peer and the network are external: as long as the peer is alive, a  *)
(* ping that was written is answered at most MaxDelay ticks later.  The    *)
(* core's 32-bit clock counts seconds and does not wrap in this model.     *)
(***************************************************************************)
EXTENDS Integers

CONSTANTS PING_INTERVAL, PING_TIMEOUT, CONNECTION_SETUP_TIMEOUT,
          MaxDelay,  \* an answer to a ping takes at most this long
          MaxTime    \* bound: core_time stops here

ASSUME LivelinessAssumption ==
    /\ PING_INTERVAL \in Nat /\ PING_TIMEOUT \in Nat
    /\ CONNECTION_SETUP_TIMEOUT \in Nat
    /\ MaxDelay \in Nat /\ MaxTime \in Nat
    /\ PING_INTERVAL < PING_TIMEOUT   \* "must be larger than PING_INTERVAL"

\* The answer can arrive before the ping timeout: with the repository's
\* values, PING_INTERVAL 10 and PING_TIMEOUT 40, MaxDelay may be 29.
ASSUME AnswerInTime == PING_INTERVAL + 1 + MaxDelay <= PING_TIMEOUT

VARIABLES
    core_time, context_state, latest_input_timestamp, ping_sent_timestamp,
    peer,     \* "alive" or "dead"
    answers,  \* the latest times at which answers under way will arrive
    written,  \* history: was the ping of this silence written, "yes" or "no"?
    killed    \* history: the timeout that closed the connection, or "no"

vars == <<core_time, context_state, latest_input_timestamp,
          ping_sent_timestamp, peer, answers, written, killed>>

Init ==
    /\ core_time = 0 /\ context_state = "FREE"
    /\ latest_input_timestamp = 0 /\ ping_sent_timestamp = 0
    /\ peer = "dead" /\ answers = {} /\ written = "yes" /\ killed = "no"

\* wish_connection_init; a peer may turn out not to exist.
wish_connection_init ==
    /\ context_state = "FREE"
    /\ context_state' = "IN_MAKING"
    /\ latest_input_timestamp' = core_time
    /\ peer' \in {"alive", "dead"}
    /\ answers' = {} /\ written' = "yes" /\ killed' = "no"
    /\ UNCHANGED <<core_time, ping_sent_timestamp>>

\* Bytes from the peer, whatever they are, stamp the connection.
Input ==
    /\ context_state # "FREE" /\ peer = "alive"
    /\ latest_input_timestamp' = core_time
    /\ written' = "yes"
    /\ UNCHANGED <<core_time, ping_sent_timestamp, peer, killed>>

wish_core_feed == Input /\ UNCHANGED <<context_state, answers>>

\* The bytes complete the handshake; the event is processed before the
\* next tick.
HandshakeDone ==
    /\ context_state = "IN_MAKING"
    /\ Input
    /\ context_state' = "CONNECTED"
    /\ UNCHANGED answers

\* A pong is an input like any other (wish_core_process_message).
Pong ==
    /\ Input
    /\ \E d \in answers : answers' = answers \ {d}
    /\ UNCHANGED context_state

PeerDies ==
    /\ context_state # "FREE" /\ peer = "alive"
    /\ peer' = "dead" /\ answers' = {}
    /\ UNCHANGED <<core_time, context_state, latest_input_timestamp,
                   ping_sent_timestamp, written, killed>>

\* Mutant: the slot is not wiped when it is freed.
CloseWithoutWipe == context_state' = "FREE" /\ answers' = {}
                    /\ UNCHANGED <<latest_input_timestamp, ping_sent_timestamp>>

\* wish_close_connection and the memset of TCP_DISCONNECTED.
wish_close_connection ==
    /\ context_state' = "FREE" /\ answers' = {}
    /\ latest_input_timestamp' = 0 /\ ping_sent_timestamp' = 0

\* Closed for any other reason (end of file, an RPC, a protocol error).
Closed ==
    /\ context_state # "FREE"
    /\ wish_close_connection
    /\ UNCHANGED <<core_time, peer, written, killed>>

-----------------------------------------------------------------------------
(* One tick: wish_time_report_periodic and check_connection_liveliness. *)

Silent(now, timeout) == now > latest_input_timestamp + timeout

\* Mutant: off by one, a second early.
PingsEarly(now) == /\ now >= latest_input_timestamp + PING_INTERVAL
                   /\ ping_sent_timestamp <= latest_input_timestamp

PingDue(now) == /\ Silent(now, PING_INTERVAL)
                /\ ping_sent_timestamp <= latest_input_timestamp

\* Mutant: the ping is not stamped.
PingNotStamped(now) == ping_sent_timestamp

PingStamp(now) == IF PingDue(now) THEN now ELSE ping_sent_timestamp

\* Mutant: off by one, a second early.
TimedOutEarly(now) == /\ now >= latest_input_timestamp + PING_TIMEOUT
                      /\ PingStamp(now) > latest_input_timestamp

\* The second test of CONNECTED, after the first may have pinged.
PingTimedOut(now) == /\ Silent(now, PING_TIMEOUT)
                     /\ PingStamp(now) > latest_input_timestamp

\* The ping is stamped whether or not wish_core_send_message wrote it.
CheckConnected(now) ==
    /\ context_state = "CONNECTED"
    /\ IF PingTimedOut(now)
         THEN wish_close_connection /\ killed' = "ping" /\ UNCHANGED written
         ELSE /\ ping_sent_timestamp' = PingStamp(now)
              /\ \/ PingDue(now) /\ written' = "no" /\ UNCHANGED answers
                 \/ /\ written' = IF PingDue(now) THEN "yes" ELSE written
                    /\ answers' = IF PingDue(now) /\ peer = "alive"
                                    THEN answers \cup {now + MaxDelay} ELSE answers
              /\ UNCHANGED <<context_state, latest_input_timestamp, killed>>
    /\ UNCHANGED peer

CheckInMaking(now) ==
    /\ context_state = "IN_MAKING"
    /\ IF Silent(now, CONNECTION_SETUP_TIMEOUT)
         THEN wish_close_connection /\ killed' = "setup"
         ELSE UNCHANGED <<context_state, latest_input_timestamp,
                          ping_sent_timestamp, answers, killed>>
    /\ UNCHANGED <<peer, written>>

check_connection_liveliness(now) ==
    \/ CheckConnected(now)
    \/ CheckInMaking(now)
    \/ /\ context_state = "FREE"
       /\ UNCHANGED <<context_state, latest_input_timestamp,
                      ping_sent_timestamp, peer, answers, written, killed>>

wish_time_report_periodic ==
    /\ core_time < MaxTime
    /\ \A d \in answers : core_time < d   \* external: answers are in time
    /\ core_time' = core_time + 1
    /\ check_connection_liveliness(core_time + 1)

Next == \/ wish_connection_init \/ wish_core_feed \/ HandshakeDone \/ Pong
        \/ PeerDies \/ Closed \/ wish_time_report_periodic

Spec == Init /\ [][Next]_vars

-----------------------------------------------------------------------------
(* Properties. *)

\* Types; time stamps lie in the past, and those of a free slot are zero,
\* so that a new connection starts without an old ping.
LivelinessTypeOK ==
    /\ core_time \in 0..MaxTime
    /\ context_state \in {"FREE", "IN_MAKING", "CONNECTED"}
    /\ latest_input_timestamp \in 0..core_time
    /\ ping_sent_timestamp \in 0..core_time
    /\ context_state = "FREE" =>
         latest_input_timestamp = 0 /\ ping_sent_timestamp = 0
    /\ peer \in {"alive", "dead"}
    /\ answers \subseteq core_time..(core_time + MaxDelay)
    /\ written \in {"yes", "no"}
    /\ killed \in {"no", "setup", "ping"}

\* No connection stays silent beyond its timeout, however the input and
\* the pings fall: not one being made, and not a connected one even if
\* none of its pings could be written.
SilenceBounded ==
    /\ context_state = "CONNECTED" =>
         core_time <= latest_input_timestamp + PING_TIMEOUT
    /\ context_state = "IN_MAKING" =>
         core_time <= latest_input_timestamp + CONNECTION_SETUP_TIMEOUT

\* A silent connection is pinged exactly once per silence, in the second
\* after PING_INTERVAL has passed.
PingedOnTime ==
    context_state = "CONNECTED" =>
      IF core_time > latest_input_timestamp + PING_INTERVAL
        THEN ping_sent_timestamp = latest_input_timestamp + PING_INTERVAL + 1
        ELSE ping_sent_timestamp <= latest_input_timestamp

\* The ping timeout never kills a connection whose peer is alive and got
\* the ping of this silence.
HealthyStaysUp == killed = "ping" => peer = "dead" \/ written = "no"
=============================================================================
