----------------------------- MODULE RelayClient ----------------------------
(***************************************************************************)
(* The control connection to one relay server: wish_relay_client.c, its    *)
(* Unix half port/unix/relay_client.c, the relay part of the main loop and *)
(* the RPC handlers relay.add, relay.remove, identity.create and           *)
(* identity.remove.  The relays of relay_db do not interact.               *)
(*                                                                         *)
(* Only differences of times are compared, so the model keeps age, the     *)
(* seconds since last_input_timestamp, up to AgeCap.  What the server      *)
(* sends is one byte per step, as the main loop reads it.                  *)
(***************************************************************************)
EXTENDS Integers

CONSTANTS
    RELAY_SERVER_TIMEOUT, RELAY_CLIENT_RECONNECT_TIMEOUT,
    RELAY_CLIENT_CONNECT_TIMEOUT, RELAY_SESSION_ID_LEN,
    AgeCap,          \* bound: ages beyond it are not told apart
    ConnectResults,  \* what socket() and connect() may return
    DnsOutcomes,     \* how resolving the server's name may end
    MaxResolvers,    \* bound: resolvers that exist at once for this relay
    CreateStates     \* the states in which identity.create finds the relay

ASSUME RelayAssumption ==
    /\ RELAY_SERVER_TIMEOUT \in Nat /\ RELAY_CLIENT_RECONNECT_TIMEOUT \in Nat
    /\ RELAY_CLIENT_CONNECT_TIMEOUT \in Nat
    /\ RELAY_SESSION_ID_LEN \in Nat \ {0}
    /\ AgeCap \in Nat
    /\ AgeCap > RELAY_SERVER_TIMEOUT /\ AgeCap > RELAY_CLIENT_RECONNECT_TIMEOUT
    /\ AgeCap > RELAY_CLIENT_CONNECT_TIMEOUT
    /\ ConnectResults \subseteq {"inprogress", "error", "ok", "nosocket"}
    /\ DnsOutcomes \subseteq {"address", "empty", "error", "nomem"}
    /\ MaxResolvers \in Nat \ {0}

VARIABLES
    curr_state,  \* curr_state, or ABSENT when the relay is not in relay_db
    named,       \* is host a name, rather than an address?
    age,         \* core_time - last_input_timestamp
    waited,      \* history: seconds spent in this WAIT_RECONNECT
    stamped,     \* history: was last_input_timestamp set on entering it?
    sockfd,      \* "open", "failed" (open, but connect() failed at once),
                 \* "closed" (the number is kept), or "none" (0, -1)
    send,        \* is the send function pointer set?
    resolver,    \* number of resolvers for this relay in resolver_list
    rx,          \* bytes in rx_ringbuf
    ids,         \* loaded_num_ids > 0
    local,       \* is there an identity with a private key in the database?
    uid,         \* whose uid the relay has: that of the "local" identity, of
                 \* some "other" one, contact or removed, or "none" yet
    fault        \* faults committed so far

\* What most steps leave alone.
config == <<named, ids, local>>

vars == <<curr_state, named, age, waited, stamped, sockfd, send, resolver,
          rx, ids, local, uid, fault>>

RelayStates == {"ABSENT", "INITIAL", "RESOLVING", "CONNECTING",
                "READ_SESSION_ID", "WAIT", "WAIT_RECONNECT"}
Connected == {"CONNECTING", "READ_SESSION_ID", "WAIT"}

Older(n) == IF n < AgeCap THEN n + 1 ELSE AgeCap

\* wish_core_relay_client_init at start-up: last_input_timestamp and the
\* core's clock are both zero.
wish_core_relay_client_init ==
    /\ curr_state = "INITIAL" /\ age = 0 /\ waited = 0 /\ stamped = TRUE
    /\ sockfd = "none" /\ send = FALSE /\ resolver = 0 /\ rx = 0
    /\ ids \in BOOLEAN /\ local \in BOOLEAN /\ (local => ids)
    /\ named \in BOOLEAN /\ uid = "none" /\ fault = {}

\* relay.add: a zeroed relay, whatever the core's clock shows by now.
wish_relay_client_add ==
    /\ curr_state = "ABSENT"
    /\ curr_state' = "INITIAL" /\ age' \in 0..AgeCap /\ named' \in BOOLEAN
    /\ waited' = 0 /\ stamped' = TRUE
    /\ sockfd' = "none" /\ send' = FALSE /\ rx' = 0 /\ uid' = "none"
    /\ UNCHANGED <<resolver, ids, local, fault>>

-----------------------------------------------------------------------------
(* Opening and closing. *)

\* A new socket replaces the old number.  The time stamp stays as it is.
port_relay_client_open ==
    /\ fault' = IF sockfd = "open" THEN fault \cup {"fd_leak"} ELSE fault
    /\ \E result \in ConnectResults :
         /\ sockfd' = CASE result = "nosocket" -> "none"
                        [] result = "error"    -> "failed"
                        [] OTHER               -> "open"
         /\ curr_state' = IF result \in {"error", "nosocket"}
                            THEN "WAIT_RECONNECT" ELSE "CONNECTING"
         /\ send' = (send \/ result = "inprogress")

\* A name is resolved first.
wish_relay_client_open(who) ==
    /\ rx' = 0 /\ uid' = who
    /\ waited' = 0 /\ stamped' = FALSE
    /\ \/ /\ named /\ resolver < MaxResolvers
          /\ curr_state' = "RESOLVING" /\ resolver' = resolver + 1
          /\ UNCHANGED <<sockfd, send, fault>>
       \/ /\ named /\ "nomem" \in DnsOutcomes
          /\ curr_state' = "WAIT_RECONNECT"
          /\ UNCHANGED <<resolver, sockfd, send, fault>>
       \/ ~named /\ port_relay_client_open /\ UNCHANGED resolver

\* Mutant: the resolver is not cancelled.
CloseKeepsResolver ==
    /\ UNCHANGED resolver
    /\ sockfd' = IF curr_state \in Connected THEN "closed" ELSE sockfd

\* Mutant: the socket is left open.
CleanUpWithoutClose ==
    /\ resolver' = IF curr_state = "RESOLVING" THEN 0 ELSE resolver
    /\ UNCHANGED sockfd

\* What wish_relay_client_close cleans up in each state, before
\* relay_ctrl_disconnect_cb.
CleanUp ==
    /\ resolver' = IF curr_state = "RESOLVING" THEN 0 ELSE resolver
    /\ sockfd' = IF curr_state \in Connected THEN "closed" ELSE sockfd

\* Mutant: the start of the wait is not recorded.
DisconnectWithoutTimestamp ==
    /\ curr_state' = "WAIT_RECONNECT" /\ waited' = 0 /\ stamped' = TRUE
    /\ age' = Older(age)

\* relay_ctrl_disconnect_cb and relay_ctrl_connect_fail_cb.
relay_ctrl_disconnect_cb ==
    /\ curr_state' = "WAIT_RECONNECT" /\ waited' = 0 /\ stamped' = TRUE
    /\ age' = 0

wish_relay_client_close ==
    /\ CleanUp
    /\ relay_ctrl_disconnect_cb

\* wish_core_update_identities reads the list of identities again.  Other
\* identities come and go without it: contacts are saved and removed by
\* friend requests.
wish_core_update_identities ==
    ids' \in BOOLEAN /\ (local' => ids')

\* identity.update and identity.permissions.
Refresh ==
    /\ UNCHANGED local
    /\ wish_core_update_identities
    /\ UNCHANGED <<curr_state, named, age, waited, stamped, sockfd, send,
                   resolver, rx, uid, fault>>

\* identity.remove closes the relay if it has the uid given, in whatever
\* state it is; the local identity, or another one.
wish_api_identity_remove ==
    /\ \E who \in {"local", "other"}, same \in BOOLEAN :
         /\ who = "local" => local /\ same
         /\ local' = (local /\ who # "local")
         /\ uid' = IF uid = who THEN "other" ELSE uid
         /\ IF curr_state # "ABSENT" /\ uid = who /\ same
              THEN wish_relay_client_close
              ELSE UNCHANGED <<curr_state, age, waited, stamped, sockfd,
                               resolver>>
    /\ wish_core_update_identities
    /\ UNCHANGED <<named, send, rx, fault>>

\* identity.create, refused while there is a local identity, opens the relay
\* whatever state it is in.  Saving the identity fails in a database full of
\* others, and nobody looks.
wish_api_identity_create ==
    /\ ~local /\ curr_state \in CreateStates
    /\ local' \in BOOLEAN /\ ids' = TRUE
    /\ IF curr_state = "ABSENT"
         THEN UNCHANGED <<curr_state, waited, stamped, sockfd, send,
                          resolver, rx, uid, fault>>
         ELSE wish_relay_client_open(IF local' THEN "local" ELSE "other")
    /\ UNCHANGED <<named, age>>

\* relay.remove: close and free.
wish_api_relay_remove ==
    /\ curr_state # "ABSENT"
    /\ CleanUp
    /\ curr_state' = "ABSENT"
    /\ UNCHANGED <<age, waited, stamped, send, rx, config, uid, fault>>

-----------------------------------------------------------------------------
(* wish_core_relay_periodic, once a second, by state. *)

Elapsed(timeout) == Older(age) > timeout
Aged == age' = Older(age) /\ waited' = Older(waited) /\ UNCHANGED stamped

\* Mutant: a connection attempt has no timeout.
ConnectingForever ==
    /\ curr_state = "CONNECTING"
    /\ Aged
    /\ UNCHANGED <<curr_state, sockfd, resolver, send, rx, config, uid, fault>>

PeriodicConnecting ==
    /\ curr_state = "CONNECTING"
    /\ IF Elapsed(RELAY_CLIENT_CONNECT_TIMEOUT)
         THEN wish_relay_client_close
         ELSE Aged /\ UNCHANGED <<curr_state, sockfd, resolver>>
    /\ UNCHANGED <<send, rx, config, uid, fault>>

\* The first identity of the list, which may be a contact.
PeriodicInitial ==
    /\ curr_state = "INITIAL"
    /\ age' = Older(age)
    /\ IF ids
         THEN \E first \in {"local", "other"} :
                /\ first = "local" => local
                /\ wish_relay_client_open(first)
         ELSE UNCHANGED <<curr_state, waited, stamped, sockfd, send, resolver,
                          rx, uid, fault>>
    /\ UNCHANGED config

PeriodicWaitReconnect ==
    /\ curr_state = "WAIT_RECONNECT"
    /\ curr_state' = IF Elapsed(RELAY_CLIENT_RECONNECT_TIMEOUT)
                       THEN "INITIAL" ELSE curr_state
    /\ Aged
    /\ UNCHANGED <<sockfd, send, resolver, rx, config, uid, fault>>

\* The bytes of WAIT are consumed as they arrive: nothing is left for the
\* call of wish_relay_client_periodic here.
PeriodicWait ==
    /\ curr_state = "WAIT" /\ rx = 0
    /\ IF Elapsed(RELAY_SERVER_TIMEOUT)
         THEN wish_relay_client_close
         ELSE Aged /\ UNCHANGED <<curr_state, sockfd, resolver>>
    /\ UNCHANGED <<send, rx, config, uid, fault>>

\* RESOLVING and READ_SESSION_ID have no timeout here.
PeriodicOther ==
    /\ curr_state \in {"ABSENT", "RESOLVING", "READ_SESSION_ID"}
    /\ Aged
    /\ UNCHANGED <<curr_state, sockfd, send, resolver, rx, config, uid, fault>>

wish_core_relay_periodic ==
    \/ PeriodicConnecting \/ PeriodicInitial \/ PeriodicWaitReconnect
    \/ PeriodicWait \/ PeriodicOther

-----------------------------------------------------------------------------
(* port_dns_poll_resolvers, for the resolver of this relay. *)

DnsAddress ==
    /\ resolver > 0 /\ "address" \in DnsOutcomes
    /\ resolver' = resolver - 1
    /\ waited' = 0 /\ stamped' = FALSE
    /\ port_relay_client_open
    /\ UNCHANGED <<age, rx, config, uid>>

\* An answer without an address record changes no state.
DnsEmpty ==
    /\ resolver > 0 /\ "empty" \in DnsOutcomes
    /\ resolver' = resolver - 1
    /\ UNCHANGED <<curr_state, age, waited, stamped, sockfd, send, rx, config,
                   uid, fault>>

\* Timeout or error: abort() unless the relay is RESOLVING.
port_dns_resolver_signal_error ==
    /\ resolver > 0 /\ "error" \in DnsOutcomes
    /\ resolver' = resolver - 1
    /\ waited' = 0 /\ stamped' = FALSE
    /\ IF curr_state = "RESOLVING"
         THEN curr_state' = "WAIT_RECONNECT" /\ UNCHANGED fault
         ELSE fault' = fault \cup {"abort"} /\ UNCHANGED curr_state
    /\ UNCHANGED <<age, sockfd, send, rx, config, uid>>

-----------------------------------------------------------------------------
(* The relay part of the main loop. *)

\* connect() has succeeded: relay_ctrl_connected_cb, and the preamble is
\* sent through the function pointer (WISH_RELAY_CLIENT_OPEN is left again
\* in the same call).
ConnectUp ==
    /\ curr_state = "CONNECTING" /\ sockfd = "open"
    /\ curr_state' = "READ_SESSION_ID" /\ age' = 0
    /\ fault' = IF send THEN fault ELSE fault \cup {"null_call"}
    /\ UNCHANGED <<waited, stamped, sockfd, send, resolver, rx, config, uid>>

ConnectFails ==
    /\ curr_state = "CONNECTING" /\ sockfd = "open"
    /\ sockfd' = "none"
    /\ relay_ctrl_disconnect_cb
    /\ UNCHANGED <<send, resolver, rx, config, uid, fault>>

Readable == curr_state \in {"READ_SESSION_ID", "WAIT"} /\ sockfd = "open"

\* read() returns 0 or -1.
RelayEof ==
    /\ Readable
    /\ sockfd' = "none"
    /\ relay_ctrl_disconnect_cb
    /\ UNCHANGED <<send, resolver, rx, config, uid, fault>>

\* Mutant: the session id is not taken out of the buffer.
SessionIdLeftInBuffer ==
    /\ Readable /\ curr_state = "READ_SESSION_ID"
    /\ age' = 0
    /\ rx' = rx + 1
    /\ curr_state' = IF rx + 1 < RELAY_SESSION_ID_LEN
                       THEN curr_state ELSE "WAIT"
    /\ UNCHANGED <<waited, stamped, sockfd, send, resolver, config, uid, fault>>

\* A byte of the session id; the last one completes the set-up, and
\* wish_connections_check runs (see ConnectionPool).
SessionIdByte ==
    /\ Readable /\ curr_state = "READ_SESSION_ID"
    /\ age' = 0
    /\ IF rx + 1 >= RELAY_SESSION_ID_LEN
         THEN rx' = rx + 1 - RELAY_SESSION_ID_LEN /\ curr_state' = "WAIT"
         ELSE rx' = rx + 1 /\ UNCHANGED curr_state
    /\ UNCHANGED <<waited, stamped, sockfd, send, resolver, config, uid, fault>>

\* A keep-alive, a byte that means nothing, or the announcement of a peer,
\* for which a connection is opened (RelaySession in ConnectionPool).
WaitByte ==
    /\ Readable /\ curr_state = "WAIT"
    /\ age' = 0
    /\ UNCHANGED <<curr_state, waited, stamped, sockfd, send, resolver, rx,
                   config, uid, fault>>

Dns == DnsAddress \/ DnsEmpty \/ port_dns_resolver_signal_error
RelayByte == SessionIdByte \/ WaitByte

Next == \/ wish_relay_client_add
        \/ wish_api_relay_remove
        \/ wish_api_identity_remove
        \/ wish_api_identity_create
        \/ Refresh
        \/ wish_core_relay_periodic
        \/ Dns
        \/ ConnectUp \/ ConnectFails \/ RelayEof \/ RelayByte

Spec == wish_core_relay_client_init /\ [][Next]_vars

\* The main loop runs: the timer ticks, and a resolver answers or times out.
FairSpec == Spec /\ WF_vars(wish_core_relay_periodic) /\ WF_vars(Dns)

\* In addition, an attempt may hang, but of attempts made again and again
\* some get a socket or a resolver, some get as far as CONNECTING and of
\* those some are accepted; and a server that stays connected sends its
\* session id.
Started == PeriodicInitial /\ curr_state' \in {"RESOLVING", "CONNECTING"}
Attempt == (PeriodicInitial \/ DnsAddress) /\ curr_state' = "CONNECTING"

ServedSpec == /\ FairSpec
              /\ SF_vars(Started) /\ SF_vars(Attempt)
              /\ []<><<Attempt>>_vars => []<><<ConnectUp>>_vars
              /\ WF_vars(SessionIdByte)

-----------------------------------------------------------------------------
(* Properties. *)

\* Every field keeps its type; in particular the receive buffer never holds
\* as much as a whole session id.
RelayTypeOK ==
    /\ curr_state \in RelayStates /\ named \in BOOLEAN
    /\ age \in 0..AgeCap /\ waited \in 0..AgeCap
    /\ sockfd \in {"open", "failed", "closed", "none"}
    /\ stamped \in BOOLEAN /\ send \in BOOLEAN
    /\ resolver \in 0..MaxResolvers
    /\ ids \in BOOLEAN /\ local \in BOOLEAN /\ (local => ids)
    /\ uid \in {"none", "local", "other"}
    /\ rx \in 0..(RELAY_SESSION_ID_LEN - 1)
    /\ fault \subseteq {"fd_leak", "abort", "null_call"}

\* The state says what the main loop may touch: a socket that select() is
\* given is open, at most one resolver exists and only while RESOLVING, and
\* a byte that arrives in WAIT is consumed at once.
RelayInv ==
    /\ curr_state \in Connected => sockfd = "open"
    /\ resolver <= 1
    /\ resolver > 0 => curr_state = "RESOLVING"
    /\ curr_state = "WAIT" => rx = 0

\* Neither the abort() of a resolver whose relay has moved on nor a call
\* through the unset send pointer is reached, and no open socket is
\* forgotten by an opening (but that of a connect() that failed at once).
RelayFaultFree == fault = {}

\* There is nothing to clean up in WAIT_RECONNECT, nor in what comes after
\* it up to the new socket: no socket is open.  (A connect() that fails at
\* once leaves one: it is "failed" here.)
NothingToCleanUp ==
    curr_state \in {"INITIAL", "RESOLVING", "WAIT_RECONNECT", "ABSENT"}
        => sockfd # "open"

Retry == curr_state = "WAIT_RECONNECT" /\ curr_state' = "INITIAL"

\* After a disconnect, a failed connect or a timeout the full reconnect
\* time passes before the retry.
DisconnectWaits ==
    [][Retry /\ stamped => waited' > RELAY_CLIENT_RECONNECT_TIMEOUT]_vars

\* Whatever failures came before, once the server stops breaking the
\* connection and the identities stay, the relay gets back to WAIT, where
\* peers are relayed, again and again, as long as it is configured and
\* there is an identity.  The one state it does not leave is RESOLVING
\* after an answer without an address record.
RelayRecovers ==
    /\ <>[](curr_state # "ABSENT" /\ ids)
    /\ <>[][/\ ~RelayEof /\ ~ConnectFails
            /\ ~wish_api_identity_remove /\ ~wish_api_identity_create]_vars
    => \/ []<>(curr_state = "WAIT")
       \/ <>[](curr_state = "RESOLVING" /\ resolver = 0)
=============================================================================
