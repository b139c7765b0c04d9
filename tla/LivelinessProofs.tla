-------------------------- MODULE LivelinessProofs --------------------------
(***************************************************************************)
(* The timing properties of Liveliness for all intervals, timeouts and     *)
(* delays that satisfy its assumptions, and for every length of run.       *)
(***************************************************************************)
EXTENDS Liveliness, TLAPS

\* What makes HealthyStaysUp inductive: while a ping that a live peer got is
\* unanswered, its answer is under way and will be in time.
AnswerUnderWay ==
    /\ context_state = "CONNECTED" /\ peer = "alive" /\ written = "yes"
    /\ ping_sent_timestamp > latest_input_timestamp
    => \E d \in answers : d <= latest_input_timestamp + PING_INTERVAL + 1 + MaxDelay

\* A connection being made has not been pinged, and one in use has not been
\* killed.
NoPingInMaking == /\ context_state = "IN_MAKING" => ping_sent_timestamp = 0
                  /\ context_state # "FREE" => killed = "no"

IInv == /\ LivelinessTypeOK /\ SilenceBounded /\ PingedOnTime
        /\ HealthyStaysUp /\ AnswerUnderWay /\ NoPingInMaking

\* A tick of a connected slot: the ping comes exactly one second after
\* PING_INTERVAL, and the timeout is not reached while an answer is due.
LEMMA TickConnected ==
    ASSUME IInv, wish_time_report_periodic, context_state = "CONNECTED"
    PROVE  IInv'
<1> DEFINE now == core_time + 1
<1>0. /\ core_time \in Nat /\ core_time < MaxTime /\ core_time' = now
      /\ latest_input_timestamp \in 0..core_time
      /\ ping_sent_timestamp \in 0..core_time
      /\ \A d \in answers : core_time < d
      /\ answers \subseteq core_time..(core_time + MaxDelay)
      /\ CheckConnected(now)
  BY LivelinessAssumption DEF IInv, LivelinessTypeOK, wish_time_report_periodic,
       check_connection_liveliness, CheckInMaking
<1>1. CASE PingTimedOut(now)
  <2>1. /\ wish_close_connection /\ killed' = "ping" /\ UNCHANGED <<written, peer>>
    BY <1>0, <1>1 DEF CheckConnected
  <2>2. /\ now > latest_input_timestamp + PING_TIMEOUT
        /\ ping_sent_timestamp > latest_input_timestamp
    BY <1>0, <1>1, LivelinessAssumption
       DEF IInv, SilenceBounded, PingedOnTime, PingTimedOut, PingStamp, PingDue, Silent
  <2>3. peer = "dead" \/ written = "no"
    BY <1>0, <2>2, LivelinessAssumption, AnswerInTime
       DEF IInv, LivelinessTypeOK, AnswerUnderWay
  <2> QED
    BY <1>0, <2>1, <2>3, LivelinessAssumption
       DEF IInv, LivelinessTypeOK, SilenceBounded, PingedOnTime, HealthyStaysUp,
           AnswerUnderWay, NoPingInMaking, wish_close_connection
<1>2. CASE ~PingTimedOut(now)
  <2>1. /\ ping_sent_timestamp' = PingStamp(now)
        /\ \/ PingDue(now) /\ written' = "no" /\ UNCHANGED answers
           \/ /\ written' = IF PingDue(now) THEN "yes" ELSE written
              /\ answers' = IF PingDue(now) /\ peer = "alive"
                              THEN answers \cup {now + MaxDelay} ELSE answers
        /\ UNCHANGED <<context_state, latest_input_timestamp, killed, peer>>
    BY <1>0, <1>2 DEF CheckConnected
  <2>2. SilenceBounded' /\ PingedOnTime' /\ NoPingInMaking'
    BY <1>0, <1>2, <2>1, LivelinessAssumption
       DEF IInv, SilenceBounded, PingedOnTime, NoPingInMaking, PingTimedOut,
           PingStamp, PingDue, Silent
  <2>3. written' \in {"yes", "no"} /\ answers' \subseteq now..(now + MaxDelay)
    <3>1. written' \in {"yes", "no"}
      BY <2>1 DEF IInv, LivelinessTypeOK
    <3>2. answers' \subseteq answers \cup {now + MaxDelay}
      BY <2>1, Zenon
    <3>3. \A d \in answers \cup {now + MaxDelay} : d \in now..(now + MaxDelay)
      BY <1>0, LivelinessAssumption
    <3> QED BY <3>1, <3>2, <3>3
  <2>4. LivelinessTypeOK'
    BY <1>0, <2>1, <2>3, LivelinessAssumption
       DEF IInv, LivelinessTypeOK, PingStamp
  <2>5. CASE PingDue(now)
    <3>1. now = latest_input_timestamp + PING_INTERVAL + 1
      BY <1>0, <2>5, LivelinessAssumption
         DEF IInv, PingedOnTime, PingDue, Silent
    <3>2. written' = "no" \/ (peer = "alive" => now + MaxDelay \in answers')
      BY <2>1, <2>5
    <3>3. AnswerUnderWay'
      BY <1>0, <2>1, <3>1, <3>2, LivelinessAssumption DEF AnswerUnderWay
    <3> QED
      BY <2>1, <2>2, <2>4, <3>3 DEF IInv, HealthyStaysUp, NoPingInMaking
  <2>6. CASE ~PingDue(now)
    <3>1. UNCHANGED <<answers, ping_sent_timestamp, latest_input_timestamp>>
          /\ written' = written
      BY <2>1, <2>6 DEF PingStamp
    <3>2. AnswerUnderWay'
      BY <2>1, <3>1, Zenon DEF IInv, AnswerUnderWay
    <3> QED
      BY <2>1, <2>2, <2>4, <3>2 DEF IInv, HealthyStaysUp, NoPingInMaking
  <2> QED BY <2>5, <2>6
<1> QED BY <1>1, <1>2

\* A tick of a slot that is free or being made.
LEMMA TickOther ==
    ASSUME IInv, wish_time_report_periodic, context_state # "CONNECTED"
    PROVE  IInv'
<1>0. /\ core_time \in Nat /\ core_time < MaxTime /\ core_time' = core_time + 1
      /\ latest_input_timestamp \in 0..core_time
      /\ ping_sent_timestamp \in 0..core_time
      /\ \A d \in answers : core_time < d
      /\ answers \subseteq core_time..(core_time + MaxDelay)
      /\ \/ CheckInMaking(core_time + 1)
         \/ /\ context_state = "FREE"
            /\ UNCHANGED <<context_state, latest_input_timestamp,
                           ping_sent_timestamp, peer, answers, written, killed>>
  BY LivelinessAssumption DEF IInv, LivelinessTypeOK, wish_time_report_periodic,
       check_connection_liveliness, CheckConnected
<1>1. \A d \in answers : d \in (core_time + 1)..(core_time + 1 + MaxDelay)
  BY <1>0, LivelinessAssumption
<1>2. answers' \subseteq answers
  BY <1>0 DEF CheckInMaking, wish_close_connection
<1>3. answers' \subseteq core_time'..(core_time' + MaxDelay)
  BY <1>0, <1>1, <1>2
<1>4. CASE CheckInMaking(core_time + 1)
  <2>1. CASE Silent(core_time + 1, CONNECTION_SETUP_TIMEOUT)
    BY <1>0, <1>3, <1>4, <2>1, LivelinessAssumption
       DEF IInv, LivelinessTypeOK, SilenceBounded, PingedOnTime, HealthyStaysUp,
           AnswerUnderWay, NoPingInMaking, CheckInMaking, wish_close_connection
  <2>2. CASE ~Silent(core_time + 1, CONNECTION_SETUP_TIMEOUT)
    BY <1>0, <1>3, <1>4, <2>2, LivelinessAssumption
       DEF IInv, LivelinessTypeOK, SilenceBounded, PingedOnTime, HealthyStaysUp,
           AnswerUnderWay, NoPingInMaking, CheckInMaking, Silent
  <2> QED BY <2>1, <2>2
<1>5. CASE context_state = "FREE" /\ ~CheckInMaking(core_time + 1)
  BY <1>0, <1>3, <1>5, LivelinessAssumption
     DEF IInv, LivelinessTypeOK, SilenceBounded, PingedOnTime, HealthyStaysUp,
         AnswerUnderWay, NoPingInMaking
<1> QED BY <1>0, <1>4, <1>5

\* IInv is inductive: one step per action.
LEMMA LivelinessInductive == IInv /\ [Next]_vars => IInv'
<1> SUFFICES ASSUME IInv, [Next]_vars PROVE IInv' OBVIOUS
<1> USE LivelinessAssumption
    DEF IInv, LivelinessTypeOK, SilenceBounded, PingedOnTime, HealthyStaysUp,
        AnswerUnderWay, NoPingInMaking
<1>1. CASE wish_connection_init BY <1>1 DEF wish_connection_init
<1>2. CASE wish_core_feed BY <1>2 DEF wish_core_feed, Input
<1>3. CASE HandshakeDone BY <1>3 DEF HandshakeDone, Input
<1>4. CASE Pong BY <1>4 DEF Pong, Input
<1>5. CASE PeerDies BY <1>5 DEF PeerDies
<1>6. CASE Closed BY <1>6 DEF Closed, wish_close_connection
<1>7. CASE wish_time_report_periodic
  BY <1>7, TickConnected, TickOther
<1>8. CASE UNCHANGED vars BY <1>8 DEF vars
<1> QED BY <1>1, <1>2, <1>3, <1>4, <1>5, <1>6, <1>7, <1>8 DEF Next

\* The initial state satisfies IInv.
LEMMA LivelinessInit == Init => IInv
BY LivelinessAssumption
   DEF Init, IInv, LivelinessTypeOK, SilenceBounded, PingedOnTime,
       HealthyStaysUp, AnswerUnderWay, NoPingInMaking

\* The time stamps are never ahead of the clock, for all intervals.
THEOREM LivelinessType == Spec => []LivelinessTypeOK
<1>1. IInv => LivelinessTypeOK BY DEF IInv
<1> QED BY <1>1, LivelinessInit, LivelinessInductive, PTL DEF Spec

\* For all intervals and timeouts with PING_INTERVAL < PING_TIMEOUT, every
\* silent connection is closed in time by check_connection_liveliness.
THEOREM LivelinessTiming == Spec => []SilenceBounded
<1>1. IInv => SilenceBounded BY DEF IInv
<1> QED BY <1>1, LivelinessInit, LivelinessInductive, PTL DEF Spec

\* Before that it is pinged, exactly once and on time.
THEOREM LivelinessPinged == Spec => []PingedOnTime
<1>1. IInv => PingedOnTime BY DEF IInv
<1> QED BY <1>1, LivelinessInit, LivelinessInductive, PTL DEF Spec

\* check_connection_liveliness never closes a connection whose peer is alive
\* and was sent the ping, as long as an answer takes no longer than
\* PING_TIMEOUT - PING_INTERVAL - 1 seconds.
THEOREM LivelinessHealthy == Spec => []HealthyStaysUp
<1>1. IInv => HealthyStaysUp BY DEF IInv
<1> QED BY <1>1, LivelinessInit, LivelinessInductive, PTL DEF Spec
=============================================================================
