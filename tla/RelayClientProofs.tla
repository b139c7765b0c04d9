-------------------------- MODULE RelayClientProofs -------------------------
(***************************************************************************)
(* Proofs about the relay client, for all timeouts, any length of the      *)
(* session id, any number of resolvers and all failures of DNS and         *)
(* connect().                                                              *)
(*                                                                         *)
(* Two conditions limit the environment as the run relay does: connect()   *)
(* is never done at once, and identity.create finds the relay idle.  What  *)
(* it finds otherwise is among the observations of the README.             *)
(***************************************************************************)
EXTENDS RelayClient, TLAPS

Conditions == /\ "ok" \notin ConnectResults
              /\ CreateStates \subseteq {"ABSENT", "INITIAL", "WAIT_RECONNECT"}

\* The send pointer is set by every attempt that gets as far as CONNECTING,
\* and it is never unset.
SendInv == curr_state \in Connected => send

\* While a time stamp set by a disconnect stands, it is as old as the wait.
StampInv == curr_state = "WAIT_RECONNECT" /\ stamped => age = waited

Good == /\ RelayTypeOK /\ RelayInv /\ RelayFaultFree /\ NothingToCleanUp
        /\ SendInv /\ StampInv

LEMMA Zeroes ==
    /\ 0 \in 0..AgeCap /\ 0 \in 0..MaxResolvers
    /\ 0 \in 0..(RELAY_SESSION_ID_LEN - 1)
BY RelayAssumption DEF RelayAssumption

\* Ages stay within the bound.
LEMMA OlderType ==
    ASSUME NEW n \in 0..AgeCap
    PROVE  Older(n) \in 0..AgeCap
BY RelayAssumption DEF RelayAssumption, Older

\* An opening without an open socket ends in an attempt or in another wait.
LEMMA PortOpened ==
    ASSUME Conditions, port_relay_client_open, sockfd # "open",
           send \in BOOLEAN
    PROVE  /\ fault' = fault /\ send' \in BOOLEAN
           /\ \/ /\ curr_state' = "CONNECTING" /\ sockfd' = "open"
                 /\ send' = TRUE
              \/ /\ curr_state' = "WAIT_RECONNECT"
                 /\ sockfd' \in {"none", "failed"}
<1>1. PICK result \in ConnectResults :
          /\ sockfd' = CASE result = "nosocket" -> "none"
                         [] result = "error"    -> "failed"
                         [] OTHER               -> "open"
          /\ curr_state' = IF result \in {"error", "nosocket"}
                             THEN "WAIT_RECONNECT" ELSE "CONNECTING"
          /\ send' = (send \/ result = "inprogress")
  BY DEF port_relay_client_open
<1>2. result \in {"inprogress", "error", "nosocket"}
  BY RelayAssumption DEF RelayAssumption, Conditions
<1>3. fault' = fault
  BY DEF port_relay_client_open
<1>4. CASE result = "inprogress"
  BY <1>1, <1>3, <1>4
<1>5. CASE result \in {"error", "nosocket"}
  BY <1>1, <1>3, <1>5
<1> QED
  BY <1>2, <1>4, <1>5

\* What an opening leads to.
Reopened ==
    /\ fault' = {} /\ send' \in BOOLEAN
    /\ rx' = 0 /\ uid' \in {"none", "local", "other"}
    /\ waited' = 0 /\ stamped' = FALSE
    /\ \/ /\ curr_state' = "RESOLVING" /\ resolver' = 1
          /\ sockfd' = sockfd
       \/ /\ curr_state' = "WAIT_RECONNECT" /\ resolver' = 0
          /\ sockfd' \in {sockfd, "none", "failed"}
       \/ /\ curr_state' = "CONNECTING" /\ resolver' = 0
          /\ sockfd' = "open" /\ send' = TRUE

LEMMA OpenedRelay ==
    ASSUME Conditions, Good, curr_state \in {"INITIAL", "WAIT_RECONNECT"},
           NEW who \in {"local", "other"}, wish_relay_client_open(who)
    PROVE  Reopened
<1>1. /\ resolver = 0 /\ sockfd # "open" /\ fault = {} /\ send \in BOOLEAN
  BY DEF Good, RelayInv, NothingToCleanUp, RelayFaultFree, RelayTypeOK
<1>2. rx' = 0 /\ uid' = who /\ waited' = 0 /\ stamped' = FALSE
  BY DEF wish_relay_client_open
<1>3. CASE named /\ resolver < MaxResolvers /\ curr_state' = "RESOLVING"
           /\ resolver' = resolver + 1 /\ UNCHANGED <<sockfd, send, fault>>
  BY <1>1, <1>2, <1>3 DEF Reopened
<1>4. CASE curr_state' = "WAIT_RECONNECT"
           /\ UNCHANGED <<resolver, sockfd, send, fault>>
  BY <1>1, <1>2, <1>4 DEF Reopened
<1>5. CASE port_relay_client_open /\ UNCHANGED resolver
  <2>1. /\ fault' = fault /\ send' \in BOOLEAN
        /\ \/ /\ curr_state' = "CONNECTING" /\ sockfd' = "open"
              /\ send' = TRUE
           \/ /\ curr_state' = "WAIT_RECONNECT"
              /\ sockfd' \in {"none", "failed"}
    BY <1>1, <1>5, PortOpened
  <2> QED
    BY <1>1, <1>2, <1>5, <2>1 DEF Reopened
<1> QED
  BY <1>3, <1>4, <1>5 DEF wish_relay_client_open

\* An opening is fine wherever there is nothing to clean up.
LEMMA ReopenedGood ==
    ASSUME Good, Reopened, curr_state \in {"INITIAL", "WAIT_RECONNECT"},
           age' \in 0..AgeCap, named' \in BOOLEAN, ids' \in BOOLEAN,
           local' \in BOOLEAN, local' => ids'
    PROVE  Good'
<1>1. sockfd # "open" /\ sockfd \in {"open", "failed", "closed", "none"}
  BY DEF Good, NothingToCleanUp, RelayTypeOK
<1>2. RelayTypeOK'
  <2>1. resolver' \in 0..MaxResolvers /\ rx' \in 0..(RELAY_SESSION_ID_LEN - 1)
        /\ waited' \in 0..AgeCap
    BY RelayAssumption DEF RelayAssumption, Reopened
  <2>2. curr_state' \in RelayStates /\ sockfd' \in {"open", "failed", "closed",
                                                   "none"}
    BY <1>1 DEF Reopened, RelayStates
  <2>3. stamped' \in BOOLEAN /\ send' \in BOOLEAN /\ fault' = {}
        /\ uid' \in {"none", "local", "other"}
    BY DEF Reopened
  <2> QED
    BY <2>1, <2>2, <2>3 DEF RelayTypeOK
<1>3. RelayInv' /\ NothingToCleanUp' /\ SendInv'
  BY <1>1 DEF Reopened, RelayInv, NothingToCleanUp, SendInv, Connected
<1>4. RelayFaultFree' /\ StampInv'
  BY DEF Reopened, RelayFaultFree, StampInv
<1> QED
  BY <1>2, <1>3, <1>4 DEF Good

\* A disconnect with its clean-up.
LEMMA ClosedGood ==
    ASSUME Good, wish_relay_client_close, rx' = rx, send' = send,
           fault' = fault, named' \in BOOLEAN, ids' \in BOOLEAN,
           local' \in BOOLEAN, local' => ids',
           uid' \in {"none", "local", "other"}
    PROVE  Good'
<1>1. /\ curr_state' = "WAIT_RECONNECT" /\ waited' = 0 /\ age' = 0
      /\ stamped' = TRUE
  BY DEF wish_relay_client_close, relay_ctrl_disconnect_cb
<1>2. resolver' = 0
  BY DEF wish_relay_client_close, CleanUp, Good, RelayInv, RelayTypeOK
<1>3. sockfd' # "open" /\ sockfd' \in {"failed", "closed", "none"}
  BY DEF wish_relay_client_close, CleanUp, Good, RelayTypeOK, RelayStates,
     NothingToCleanUp, Connected
<1>4. RelayTypeOK'
  BY <1>1, <1>2, <1>3, RelayAssumption
     DEF RelayAssumption, Good, RelayTypeOK, RelayStates
<1>5. RelayInv' /\ NothingToCleanUp' /\ SendInv' /\ StampInv'
  BY <1>1, <1>2, <1>3
     DEF RelayInv, NothingToCleanUp, SendInv, StampInv, Connected
<1>6. RelayFaultFree'
  BY DEF Good, RelayFaultFree
<1> QED
  BY <1>4, <1>5, <1>6 DEF Good

\* Time passes and nothing else.
LEMMA AgedGood ==
    ASSUME Good, Aged,
           UNCHANGED <<sockfd, send, resolver, rx, config, uid, fault>>,
           \/ curr_state' = curr_state
           \/ curr_state = "WAIT_RECONNECT" /\ curr_state' = "INITIAL"
    PROVE  Good'
<1>1. age' \in 0..AgeCap /\ waited' \in 0..AgeCap
  BY OlderType DEF Aged, Good, RelayTypeOK
<1>2. RelayTypeOK'
  BY <1>1 DEF Aged, Good, RelayTypeOK, RelayStates, config
<1>3. RelayInv' /\ NothingToCleanUp' /\ SendInv' /\ RelayFaultFree'
  BY DEF Good, RelayInv, NothingToCleanUp, SendInv, RelayFaultFree, Connected
<1>4. StampInv'
  BY DEF Good, StampInv, Aged
<1> QED
  BY <1>2, <1>3, <1>4 DEF Good
-----------------------------------------------------------------------------
LEMMA RelayInit == wish_core_relay_client_init => Good
<1> SUFFICES ASSUME wish_core_relay_client_init PROVE Good
  OBVIOUS
<1>1. RelayTypeOK
  BY Zeroes DEF wish_core_relay_client_init, RelayTypeOK, RelayStates
<1>2. RelayInv /\ RelayFaultFree /\ NothingToCleanUp /\ SendInv /\ StampInv
  BY DEF wish_core_relay_client_init, RelayInv, RelayFaultFree,
     NothingToCleanUp, SendInv, StampInv, Connected
<1> QED
  BY <1>1, <1>2 DEF Good

\* The periodic function, state by state.
LEMMA PeriodicStep ==
    ASSUME Conditions, Good, wish_core_relay_periodic
    PROVE  Good'
<1>0. RelayTypeOK
  BY DEF Good
<1>1. CASE PeriodicConnecting \/ PeriodicWait
  <2>1. UNCHANGED <<send, rx, config, uid, fault>>
    BY <1>1 DEF PeriodicConnecting, PeriodicWait
  <2>2. CASE wish_relay_client_close
    BY <1>0, <2>1, <2>2, ClosedGood DEF config, RelayTypeOK
  <2>3. CASE Aged /\ UNCHANGED <<curr_state, sockfd, resolver>>
    BY <2>1, <2>3, AgedGood
  <2> QED
    BY <1>1, <2>2, <2>3 DEF PeriodicConnecting, PeriodicWait
<1>2. CASE PeriodicInitial
  <2>1. /\ curr_state = "INITIAL" /\ age' = Older(age)
        /\ UNCHANGED config
    BY <1>2 DEF PeriodicInitial
  <2>2. age' \in 0..AgeCap
    BY <1>0, <2>1, OlderType DEF RelayTypeOK
  <2>3. CASE ids
    <3>1. PICK first \in {"local", "other"} : wish_relay_client_open(first)
      BY <1>2, <2>3 DEF PeriodicInitial
    <3>2. Reopened
      BY <2>1, <3>1, OpenedRelay
    <3> QED
      BY <1>0, <2>1, <2>2, <3>2, ReopenedGood DEF config, RelayTypeOK
  <2>4. CASE ~ids
    <3>1. UNCHANGED <<curr_state, waited, stamped, sockfd, send, resolver,
                      rx, uid, fault>>
      BY <1>2, <2>4 DEF PeriodicInitial
    <3> QED
      BY <2>1, <2>2, <3>1
         DEF Good, RelayTypeOK, RelayInv, RelayFaultFree, NothingToCleanUp,
             SendInv, StampInv, config, Connected
  <2> QED
    BY <2>3, <2>4
<1>3. CASE PeriodicWaitReconnect
  BY <1>3, AgedGood DEF PeriodicWaitReconnect
<1>4. CASE PeriodicOther
  BY <1>4, AgedGood DEF PeriodicOther
<1> QED
  BY <1>1, <1>2, <1>3, <1>4 DEF wish_core_relay_periodic

\* The answers of the resolver, which exists in RESOLVING only.
LEMMA DnsStep ==
    ASSUME Conditions, Good, Dns
    PROVE  Good'
<1>1. /\ resolver > 0 /\ resolver' = resolver - 1
      /\ UNCHANGED <<age, rx, config, uid>>
  BY DEF Dns, DnsAddress, DnsEmpty, port_dns_resolver_signal_error
<1>2. /\ curr_state = "RESOLVING" /\ resolver' = 0 /\ sockfd # "open"
      /\ fault = {} /\ send \in BOOLEAN
      /\ sockfd \in {"open", "failed", "closed", "none"}
  BY <1>1 DEF Good, RelayInv, NothingToCleanUp, RelayTypeOK, RelayFaultFree
<1>3. /\ age' \in 0..AgeCap /\ rx' \in 0..(RELAY_SESSION_ID_LEN - 1)
      /\ named' \in BOOLEAN /\ ids' \in BOOLEAN /\ local' \in BOOLEAN
      /\ (local' => ids') /\ uid' \in {"none", "local", "other"}
      /\ resolver' \in 0..MaxResolvers
  BY <1>1, <1>2, RelayAssumption DEF RelayAssumption, Good, RelayTypeOK, config
<1>4. CASE DnsAddress
  <2>1. waited' = 0 /\ stamped' = FALSE /\ port_relay_client_open
    BY <1>4 DEF DnsAddress
  <2>2. /\ fault' = fault /\ send' \in BOOLEAN
        /\ \/ /\ curr_state' = "CONNECTING" /\ sockfd' = "open"
              /\ send' = TRUE
           \/ /\ curr_state' = "WAIT_RECONNECT"
              /\ sockfd' \in {"none", "failed"}
    BY <1>2, <2>1, PortOpened
  <2>3. RelayTypeOK'
    <3>1. /\ curr_state' \in RelayStates /\ fault' = {}
          /\ waited' \in 0..AgeCap /\ stamped' \in BOOLEAN
          /\ sockfd' \in {"open", "failed", "closed", "none"}
      BY <1>2, <2>1, <2>2, Zeroes DEF RelayStates
    <3> QED
      BY <1>3, <2>2, <3>1 DEF RelayTypeOK
  <2>4. RelayInv' /\ NothingToCleanUp' /\ SendInv'
    BY <1>2, <2>2 DEF RelayInv, NothingToCleanUp, SendInv, Connected
  <2>5. RelayFaultFree' /\ StampInv'
    BY <1>2, <2>1, <2>2 DEF RelayFaultFree, StampInv
  <2> QED
    BY <2>3, <2>4, <2>5 DEF Good
<1>5. CASE DnsEmpty
  <2>1. UNCHANGED <<curr_state, waited, stamped, sockfd, send, fault>>
    BY <1>5 DEF DnsEmpty
  <2> QED
    BY <1>2, <1>3, <2>1
       DEF Good, RelayTypeOK, RelayInv, RelayFaultFree, NothingToCleanUp,
           SendInv, StampInv, Connected
<1>6. CASE port_dns_resolver_signal_error
  <2>1. /\ curr_state' = "WAIT_RECONNECT" /\ waited' = 0 /\ stamped' = FALSE
        /\ UNCHANGED <<sockfd, send, fault>>
    BY <1>2, <1>6 DEF port_dns_resolver_signal_error
  <2>2. RelayTypeOK'
    <3>1. /\ curr_state' \in RelayStates /\ fault' = {}
          /\ waited' \in 0..AgeCap /\ stamped' \in BOOLEAN
          /\ sockfd' \in {"open", "failed", "closed", "none"}
          /\ send' \in BOOLEAN
      BY <1>2, <2>1, Zeroes DEF RelayStates
    <3> QED
      BY <1>3, <3>1 DEF RelayTypeOK
  <2> QED
    BY <1>2, <2>1, <2>2
       DEF Good, RelayInv, RelayFaultFree, NothingToCleanUp, SendInv,
           StampInv, Connected
<1> QED
  BY <1>4, <1>5, <1>6 DEF Dns

\* The main loop's part: what arrives on the socket.
LEMMA SocketStep ==
    ASSUME Good, ConnectUp \/ ConnectFails \/ RelayEof \/ RelayByte
    PROVE  Good'
<1>0. RelayTypeOK /\ RelayInv /\ SendInv /\ RelayFaultFree
  BY DEF Good
<1>1. CASE ConnectUp
  <2>1. /\ curr_state = "CONNECTING" /\ sockfd = "open"
        /\ curr_state' = "READ_SESSION_ID" /\ age' = 0
        /\ UNCHANGED <<waited, stamped, sockfd, send, resolver, rx, config,
                       uid>>
    BY <1>1 DEF ConnectUp
  <2>2. send = TRUE /\ fault' = fault
    BY <1>0, <1>1, <2>1 DEF ConnectUp, SendInv, Connected, RelayTypeOK
  <2>3. RelayTypeOK'
    BY <1>0, <2>1, <2>2, RelayAssumption
       DEF RelayAssumption, RelayTypeOK, RelayStates, config
  <2> QED
    BY <1>0, <2>1, <2>2, <2>3
       DEF Good, RelayInv, RelayFaultFree, NothingToCleanUp, SendInv,
           StampInv, Connected
<1>2. CASE ConnectFails \/ RelayEof
  <2>1. /\ curr_state \in Connected /\ sockfd' = "none"
        /\ curr_state' = "WAIT_RECONNECT" /\ waited' = 0 /\ stamped' = TRUE
        /\ age' = 0
        /\ UNCHANGED <<send, resolver, rx, config, uid, fault>>
    BY <1>2 DEF ConnectFails, RelayEof, Readable, Connected,
       relay_ctrl_disconnect_cb
  <2>2. resolver = 0
    BY <1>0, <2>1 DEF RelayInv, RelayTypeOK, Connected
  <2>3. RelayTypeOK'
    BY <1>0, <2>1, <2>2, RelayAssumption
       DEF RelayAssumption, RelayTypeOK, RelayStates, config
  <2> QED
    BY <1>0, <2>1, <2>2, <2>3
       DEF Good, RelayInv, RelayFaultFree, NothingToCleanUp, SendInv,
           StampInv, Connected
<1>3. CASE RelayByte
  <2>1. /\ curr_state \in {"READ_SESSION_ID", "WAIT"} /\ sockfd = "open"
        /\ age' = 0
        /\ UNCHANGED <<waited, stamped, sockfd, send, resolver, config, uid,
                       fault>>
    BY <1>3 DEF RelayByte, SessionIdByte, WaitByte, Readable
  <2>2. /\ curr_state' \in {"READ_SESSION_ID", "WAIT"}
        /\ rx' \in 0..(RELAY_SESSION_ID_LEN - 1)
        /\ curr_state' = "WAIT" => rx' = 0
    <3>1. rx \in 0..(RELAY_SESSION_ID_LEN - 1)
          /\ RELAY_SESSION_ID_LEN \in Nat \ {0}
      BY <1>0, RelayAssumption DEF RelayTypeOK, RelayAssumption
    <3>2. CASE SessionIdByte
      BY <3>1, <3>2 DEF SessionIdByte
    <3>3. CASE WaitByte
      BY <1>0, <3>1, <3>3 DEF WaitByte, RelayInv
    <3> QED
      BY <1>3, <3>2, <3>3 DEF RelayByte
  <2>3. RelayTypeOK'
    BY <1>0, <2>1, <2>2, RelayAssumption
       DEF RelayAssumption, RelayTypeOK, RelayStates, config
  <2> QED
    BY <1>0, <2>1, <2>2, <2>3
       DEF Good, RelayInv, RelayFaultFree, NothingToCleanUp, SendInv,
           StampInv, Connected
<1> QED
  BY <1>1, <1>2, <1>3

\* The RPC handlers.
LEMMA HandlerStep ==
    ASSUME Conditions, Good,
           \/ wish_relay_client_add \/ wish_api_relay_remove
           \/ wish_api_identity_remove \/ wish_api_identity_create \/ Refresh
    PROVE  Good'
<1>0. RelayTypeOK /\ RelayInv /\ RelayFaultFree
  BY DEF Good
<1>1. CASE wish_relay_client_add
  <2>1. resolver = 0
    BY <1>0, <1>1 DEF wish_relay_client_add, RelayInv, RelayTypeOK
  <2>2. RelayTypeOK'
    <3>1. /\ curr_state' = "INITIAL" /\ age' \in 0..AgeCap
          /\ named' \in BOOLEAN /\ waited' = 0 /\ stamped' \in BOOLEAN
          /\ sockfd' = "none" /\ send' \in BOOLEAN /\ rx' = 0
          /\ uid' = "none"
          /\ UNCHANGED <<resolver, ids, local, fault>>
      BY <1>1 DEF wish_relay_client_add
    <3> QED
      BY <1>0, <3>1, Zeroes DEF RelayTypeOK, RelayStates
  <2> QED
    BY <1>0, <1>1, <2>1, <2>2
       DEF wish_relay_client_add, Good, RelayInv, RelayFaultFree,
           NothingToCleanUp, SendInv, StampInv, Connected
<1>2. CASE wish_api_relay_remove
  <2>1. /\ curr_state' = "ABSENT"
        /\ UNCHANGED <<age, waited, stamped, send, rx, config, uid, fault>>
    BY <1>2 DEF wish_api_relay_remove
  <2>2. resolver' = 0
    BY <1>0, <1>2 DEF wish_api_relay_remove, CleanUp, RelayInv, RelayTypeOK
  <2>3. sockfd' # "open" /\ sockfd' \in {"failed", "closed", "none"}
    BY <1>2 DEF wish_api_relay_remove, CleanUp, Good, RelayTypeOK,
       RelayStates, NothingToCleanUp, Connected
  <2>4. RelayTypeOK'
    BY <1>0, <2>1, <2>2, <2>3, RelayAssumption
       DEF RelayAssumption, RelayTypeOK, RelayStates, config
  <2> QED
    BY <1>0, <2>1, <2>2, <2>3, <2>4
       DEF Good, RelayInv, RelayFaultFree, NothingToCleanUp, SendInv,
           StampInv, Connected
<1>3. CASE wish_api_identity_remove
  <2>1. /\ UNCHANGED <<named, send, rx, fault>>
        /\ ids' \in BOOLEAN /\ (local' => ids')
        /\ local' \in BOOLEAN /\ uid' \in {"none", "local", "other"}
    BY <1>0, <1>3 DEF wish_api_identity_remove, wish_core_update_identities,
       RelayTypeOK
  <2>2. CASE wish_relay_client_close
    BY <1>0, <2>1, <2>2, ClosedGood DEF RelayTypeOK
  <2>3. CASE UNCHANGED <<curr_state, age, waited, stamped, sockfd, resolver>>
    <3>1. RelayTypeOK'
      BY <1>0, <2>1, <2>3 DEF RelayTypeOK
    <3> QED
      BY <2>1, <2>3, <3>1
         DEF Good, RelayInv, RelayFaultFree, NothingToCleanUp, SendInv,
             StampInv, Connected
  <2> QED
    BY <1>3, <2>2, <2>3 DEF wish_api_identity_remove
<1>4. CASE wish_api_identity_create
  <2>1. /\ curr_state \in {"ABSENT", "INITIAL", "WAIT_RECONNECT"}
        /\ local' \in BOOLEAN /\ ids' = TRUE /\ UNCHANGED <<named, age>>
    BY <1>4 DEF wish_api_identity_create, Conditions
  <2>2. CASE curr_state = "ABSENT"
    <3>1. UNCHANGED <<curr_state, waited, stamped, sockfd, send, resolver, rx,
                      uid, fault>>
      BY <1>4, <2>2 DEF wish_api_identity_create
    <3>2. RelayTypeOK'
      BY <1>0, <2>1, <3>1 DEF RelayTypeOK
    <3> QED
      BY <2>1, <3>1, <3>2
         DEF Good, RelayInv, RelayFaultFree, NothingToCleanUp, SendInv,
             StampInv, Connected
  <2>3. CASE curr_state # "ABSENT"
    <3>1. PICK who \in {"local", "other"} : wish_relay_client_open(who)
      BY <1>4, <2>3 DEF wish_api_identity_create
    <3>2. Reopened
      BY <2>1, <2>3, <3>1, OpenedRelay
    <3> QED
      BY <1>0, <2>1, <2>3, <3>2, ReopenedGood DEF RelayTypeOK
  <2> QED
    BY <2>2, <2>3
<1>5. CASE Refresh
  <2>1. /\ UNCHANGED <<curr_state, named, age, waited, stamped, sockfd, send,
                       resolver, rx, uid, fault, local>>
        /\ ids' \in BOOLEAN /\ (local' => ids')
    BY <1>5 DEF Refresh, wish_core_update_identities
  <2>2. RelayTypeOK'
    BY <1>0, <2>1 DEF RelayTypeOK
  <2> QED
    BY <2>1, <2>2
       DEF Good, RelayInv, RelayFaultFree, NothingToCleanUp, SendInv,
           StampInv, Connected
<1> QED
  BY <1>1, <1>2, <1>3, <1>4, <1>5

LEMMA RelayStep == Conditions /\ Good /\ [Next]_vars => Good'
<1> SUFFICES ASSUME Conditions, Good, [Next]_vars PROVE Good'
  OBVIOUS
<1>1. CASE Next
  BY <1>1, PeriodicStep, DnsStep, SocketStep, HandlerStep DEF Next
<1>2. CASE UNCHANGED vars
  BY <1>2 DEF vars, config, Good, RelayTypeOK, RelayInv, RelayFaultFree,
     NothingToCleanUp, SendInv, StampInv, Connected
<1> QED
  BY <1>1, <1>2

LEMMA RelayGood == Conditions => (Spec => []Good)
<1> SUFFICES ASSUME Conditions PROVE Spec => []Good
  OBVIOUS
<1>1. Good /\ [Next]_vars => Good'
  BY RelayStep
<1> QED
  BY <1>1, RelayInit, PTL DEF Spec

\* Every field keeps its type; the receive buffer never holds a whole session
\* id, whatever its length.
THEOREM RelayType == Conditions => (Spec => []RelayTypeOK)
BY RelayGood, PTL DEF Good

\* The state of the relay says which of socket and resolver exist, when it is
\* removed, closed, reopened, or its identity goes, in any state and order.
THEOREM RelaySafety == Conditions => (Spec => []RelayInv)
BY RelayGood, PTL DEF Good

\* No socket is open when an attempt begins, nor when the relay waits.
THEOREM RelayCleanUp == Conditions => (Spec => []NothingToCleanUp)
BY RelayGood, PTL DEF Good

\* The abort() of a resolver whose relay has moved on, the call through the
\* unset send pointer and the loss of an open socket are out of reach.
THEOREM RelayFaults == Conditions => (Spec => []RelayFaultFree)
BY RelayGood, PTL DEF Good

\* The full reconnect time passes after a disconnect, a failed connect or a
\* timeout, for any values of the three timeouts.
THEOREM RelayWaits == Conditions => (Spec => DisconnectWaits)
<1> SUFFICES ASSUME Conditions PROVE Spec => DisconnectWaits
  OBVIOUS
<1>1. Good /\ [Next]_vars =>
          [Retry /\ stamped => waited' > RELAY_CLIENT_RECONNECT_TIMEOUT]_vars
  <2> SUFFICES ASSUME Good, Next, Retry, stamped
               PROVE  waited' > RELAY_CLIENT_RECONNECT_TIMEOUT
    OBVIOUS
  <2>1. curr_state = "WAIT_RECONNECT" /\ curr_state' = "INITIAL"
        /\ age = waited
    BY DEF Retry, Good, StampInv
  <2>2. PeriodicWaitReconnect
    BY <2>1 DEF Next, wish_relay_client_add, wish_api_relay_remove,
       wish_api_identity_remove, wish_api_identity_create, Refresh,
       wish_core_relay_periodic, PeriodicConnecting, PeriodicInitial,
       PeriodicWait, PeriodicOther, Dns, DnsAddress, DnsEmpty,
       port_dns_resolver_signal_error, ConnectUp, ConnectFails, RelayEof,
       RelayByte, SessionIdByte, WaitByte, Readable, wish_relay_client_close,
       relay_ctrl_disconnect_cb, wish_relay_client_open,
       port_relay_client_open
  <2> QED
    BY <2>1, <2>2 DEF PeriodicWaitReconnect, Aged, Elapsed
<1>2. Spec => []Good
  BY RelayGood
<1> QED
  BY <1>1, <1>2, PTL DEF Spec, DisconnectWaits
=============================================================================
