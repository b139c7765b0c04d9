--------------------------- MODULE ConnectionPool ---------------------------
(***************************************************************************)
(* The connection pool of the Wish core, driven by the select() loop of    *)
(* the Unix port: every slot of core->connection_pool, the event queue,    *)
(* the single-shot timers, the DNS resolvers and the sockets behind them.  *)
(*                                                                         *)
(* Sources: src/wish_connection.c, src/wish_event.c,                       *)
(* src/wish_connection_mgr.c, src/wish_time.c, port/unix/app.c,            *)
(* port/unix/event.c, port/unix/port_dns.c.                                *)
(*                                                                         *)
(* The core is single threaded, so the model has one program counter, pc,  *)
(* which walks through the phases of one iteration of the main loop:       *)
(*                                                                         *)
(*   dns -> select -> pre -> io (<-> frames) -> accept -> events           *)
(*       -> periodic (-> dial -> live -> timers) -> dns                    *)
(*                                                                         *)
(* "pre" stands for the local discovery, relay and application handlers    *)
(* the loop runs between select() and the Wish sockets.  Frame contents    *)
(* are abstracted to the outcome the handler gives them; the clock to      *)
(* whether a timeout has passed (see Liveliness for the clock itself).     *)
(***************************************************************************)
EXTENDS Integers, Sequences, FiniteSets, SequencesExt

CONSTANTS
    PoolSize,        \* WISH_CONTEXT_POOL_SZ
    Rels,            \* <<luid, ruid>> pairs, one model value each
    Hosts,           \* remote host ids (rhid)
    SmallerHosts,    \* those for which memcmp(rhid, local_rhid) < 0
    NoRel,           \* the null luid and ruid
    NoHost,          \* the null rhid
    WldHosts,        \* the hosts local discovery has found
    ConnectResults,  \* what connect() may return
    AllocFails,      \* whether the DHM set-up may run out of memory
    EarlyCloses,     \* the kinds of frame that may close a connection whose
                     \* event is queued, or leave one of a lost contact:
                     \* "trailing", "decline", "manage"
    MaxCalls,        \* bound: handlers run in the "pre" phase per iteration
    MaxTransports,   \* bound: transports dialled per contact
    MaxTimers        \* bound: pending parallel-connection checks

ASSUME PoolAssumption ==
    /\ PoolSize \in Nat \ {0}
    /\ SmallerHosts \subseteq Hosts
    /\ WldHosts \subseteq Hosts
    /\ NoRel \notin Rels
    /\ NoHost \notin Hosts
    /\ ConnectResults \subseteq {"inprogress", "error", "ok"}
    /\ AllocFails \in BOOLEAN
    /\ EarlyCloses \subseteq {"trailing", "decline", "manage"}
    /\ MaxCalls \in Nat
    /\ MaxTransports \in Nat
    /\ MaxTimers \in Nat

VARIABLES
    conn,       \* the pool: slot -> connection record
    contacts,   \* the relations whose remote identity is in the database
    resolvers,  \* slots a DNS resolver of resolver_list points to
    events,     \* WISH_EVENT_NEW_CORE_CONNECTION queue, as slots
    timers,     \* wish_close_parallel_connections timeouts, as slots
    pc, cursor, \* where the main loop is
    readable, writable, \* descriptors select() flagged in this iteration
    calls,      \* handlers already run in this "pre" phase
    dial,       \* transports wish_connections_check has still to dial
    fault       \* resource faults committed so far

vars == <<conn, contacts, resolvers, events, timers, pc, cursor, readable,
          writable, calls, dial, fault>>

Slots == 1..PoolSize
Fds   == 1..PoolSize

(***************************************************************************)
(* A slot: context_state, curr_transport_state (WAIT_PAYLOAD is folded     *)
(* into WAIT_FRAME_LEN), curr_protocol_state, the identities,              *)
(* friend_req_connection, outgoing, via_relay, the descriptor behind       *)
(* send_arg (0 when it is NULL), what the kernel knows of that socket, and *)
(* the server_dhm_ctx pointer.                                             *)
(***************************************************************************)
ContextStates   == {"FREE", "IN_MAKING", "CONNECTED"}
TransportStates == {"INITIAL", "WAIT_FRAME_LEN", "SERVER_WAIT_INITIAL",
                    "CONNECTING", "RESOLVING"}
ProtocolStates  == {"INITIAL", "DH", "SEND_CLIENT_HASH", "HANDSHAKE",
                    "RUNNING", "SERVER_DH", "VERIFY_CLIENT_HASH",
                    "SEND_HANDSHAKE", "READ_REPLY"}

wish_context ==
    [st : ContextStates, ts : TransportStates, ps : ProtocolStates,
     rel : Rels \cup {NoRel}, host : Hosts \cup {NoHost},
     fr : BOOLEAN, out : BOOLEAN, via : BOOLEAN,
     fd : Fds \cup {0}, net : {"none", "pending", "up", "failed"},
     dhm : {"null", "live", "freed"}]

\* memset(connection, 0) followed by the two explicit state assignments.
FreeSlot ==
    [st |-> "FREE", ts |-> "WAIT_FRAME_LEN", ps |-> "INITIAL",
     rel |-> NoRel, host |-> NoHost, fr |-> FALSE, out |-> FALSE,
     via |-> FALSE, fd |-> 0, net |-> "none", dhm |-> "null"]

FaultKinds == {"fd_leak", "dhm_leak", "double_free", "null_deref", "abort"}
Phases == {"dns", "select", "pre", "io", "frames", "accept", "events",
           "periodic", "dial", "recheck", "live", "timers", "halt"}

\* Every variable keeps its type: a slot is FREE, IN_MAKING or CONNECTED
\* between any two steps, never left CLOSING by wish_close_connection.
TypeOK ==
    /\ conn \in [Slots -> wish_context]
    /\ contacts \subseteq Rels
    /\ resolvers \subseteq Slots
    /\ events \in Seq(Slots)
    /\ timers \in Seq(Slots)
    /\ pc \in Phases
    /\ cursor \in 1..(PoolSize + 1)
    /\ readable \subseteq Fds
    /\ writable \subseteq Fds
    /\ calls \in 0..MaxCalls
    /\ dial \in [Rels -> 0..MaxTransports]
    /\ fault \subseteq FaultKinds

NoDial == [r \in Rels |-> 0]

wish_connections_init ==
    /\ conn = [s \in Slots |-> [FreeSlot EXCEPT !.ts = "INITIAL"]]
    /\ contacts \in SUBSET Rels
    /\ resolvers = {} /\ events = <<>> /\ timers = <<>>
    /\ pc = "dns" /\ cursor = 1 /\ readable = {} /\ writable = {}
    /\ calls = 0 /\ dial = NoDial /\ fault = {}

-----------------------------------------------------------------------------
(* Slots, sockets, and the clean-up every close runs. *)

InUse(s) == conn[s].st # "FREE"
FreeSlots == {s \in Slots : ~InUse(s)}
FreeFds == Fds \ {conn[s].fd : s \in Slots}

\* The slot wish_connection_init takes, and what it makes of it.
Vacant(s) == s \in FreeSlots /\ \A t \in FreeSlots : s <= t

wish_connection_init(r, isFriendReq, isRelayed) ==
    [FreeSlot EXCEPT !.st = "IN_MAKING", !.ts = "INITIAL", !.rel = r,
                     !.fr = isFriendReq, !.via = isRelayed]

\* A friend request connection does not count as being connected.
wish_core_is_connected_luid_ruid(r) ==
    \E s \in Slots : InUse(s) /\ ~conn[s].fr /\ conn[s].rel = r

\* What TCP_DISCONNECTED does to the DHM context before the memset: the
\* context is freed only in PROTO_SERVER_STATE_DH, and lost otherwise.
TcpDisconnectedFaults(c) ==
    (IF c.ps = "SERVER_DH" /\ c.dhm = "freed" THEN {"double_free"} ELSE {})
        \cup (IF c.ps # "SERVER_DH" /\ c.dhm = "live" THEN {"dhm_leak"} ELSE {})

\* A connection that is RESOLVING has its resolver cancelled and its
\* socket left alone; any other has its socket closed.
CloseFaults(c) ==
    TcpDisconnectedFaults(c)
        \cup (IF c.ts = "RESOLVING" /\ c.fd # 0 THEN {"fd_leak"} ELSE {})

CancelledBy(D) == {s \in D : conn[s].ts = "RESOLVING"}

\* Mutants: the TCP_DISCONNECTED signal, or the cancelling of the resolver,
\* is forgotten.
CloseWithoutCleanUp(D) ==
    /\ conn' = [s \in Slots |-> IF s \in D THEN [conn[s] EXCEPT !.st = "CLOSING"]
                                          ELSE conn[s]]
    /\ resolvers' = resolvers \ CancelledBy(D)
    /\ UNCHANGED fault

CloseWithoutCancel(D) ==
    /\ conn' = [s \in Slots |-> IF s \in D THEN FreeSlot ELSE conn[s]]
    /\ fault' = fault \cup UNION {CloseFaults(conn[s]) : s \in D}
    /\ UNCHANGED resolvers

\* wish_close_connection on every slot of D.
wish_close_connection(D) ==
    /\ conn' = [s \in Slots |-> IF s \in D THEN FreeSlot ELSE conn[s]]
    /\ resolvers' = resolvers \ CancelledBy(D)
    /\ fault' = fault \cup UNION {CloseFaults(conn[s]) : s \in D}

\* TCP_DISCONNECTED signalled by the port itself, which has already closed
\* and released the socket.
TcpDisconnected(s) ==
    /\ conn' = [conn EXCEPT ![s] = FreeSlot]
    /\ fault' = fault \cup TcpDisconnectedFaults(conn[s])

\* TCP_CONNECTED (send the client hello) or, for a session the relay asked
\* us to open, TCP_RELAY_SESSION_CONNECTED (send the session id).
TcpConnected(c) ==
    IF c.via THEN [c EXCEPT !.ts = "SERVER_WAIT_INITIAL"]
             ELSE [c EXCEPT !.out = TRUE, !.ts = "WAIT_FRAME_LEN", !.ps = "DH"]

\* socket() gives an unused descriptor f; connect() answers result.
wish_open_connection(c, f, result) ==
    IF result = "ok" THEN TcpConnected([c EXCEPT !.fd = f, !.net = "up"])
    ELSE IF result = "inprogress"
           THEN [c EXCEPT !.fd = f, !.net = "pending", !.ts = "CONNECTING"]
    ELSE [c EXCEPT !.fd = f, !.net = "failed"]

OpenByAddress(s, c) ==
    /\ \E f \in FreeFds, result \in ConnectResults :
         conn' = [conn EXCEPT ![s] = wish_open_connection(c, f, result)]
    /\ UNCHANGED <<resolvers, fault>>

\* A resolver is started, or cannot be and the slot is released again.
wish_open_connection_dns(s, c) ==
    /\ \/ /\ conn' = [conn EXCEPT ![s] = [c EXCEPT !.ts = "RESOLVING"]]
          /\ resolvers' = resolvers \cup {s}
       \/ /\ conn' = [conn EXCEPT ![s] = FreeSlot]
          /\ UNCHANGED resolvers
    /\ UNCHANGED fault

\* The transport parses as neither: the new connection is closed.
NotOpened(s) ==
    /\ conn' = [conn EXCEPT ![s] = FreeSlot]
    /\ UNCHANGED <<resolvers, fault>>

-----------------------------------------------------------------------------
(* dns: port_dns_poll_resolvers, at the top of the loop. *)

\* Mutant: the resolver is not deleted once it has answered.
DnsResolvedKept(s) ==
    /\ pc = "dns" /\ s \in resolvers
    /\ \E f \in FreeFds, result \in ConnectResults :
         conn' = [conn EXCEPT ![s] = wish_open_connection(@, f, result)]
    /\ UNCHANGED <<contacts, resolvers, events, timers, pc, cursor, readable,
                   writable, calls, dial, fault>>

DnsResolved(s) ==
    /\ pc = "dns" /\ s \in resolvers
    /\ \E f \in FreeFds, result \in ConnectResults :
         conn' = [conn EXCEPT ![s] = wish_open_connection(@, f, result)]
    /\ resolvers' = resolvers \ {s}
    /\ UNCHANGED <<contacts, events, timers, pc, cursor, readable, writable,
                   calls, dial, fault>>

\* An answer without an address record: the resolver goes, nothing else.
DnsNoAddress(s) ==
    /\ pc = "dns" /\ s \in resolvers
    /\ resolvers' = resolvers \ {s}
    /\ UNCHANGED <<conn, contacts, events, timers, pc, cursor, readable,
                   writable, calls, dial, fault>>

\* Timeout or error code.  The code aborts unless the slot is IN_MAKING.
port_dns_resolver_signal_error(s) ==
    /\ pc = "dns" /\ s \in resolvers
    /\ resolvers' = resolvers \ {s}
    /\ IF conn[s].st = "IN_MAKING"
         THEN TcpDisconnected(s) /\ UNCHANGED pc
         ELSE fault' = fault \cup {"abort"} /\ pc' = "halt" /\ UNCHANGED conn
    /\ UNCHANGED <<contacts, events, timers, cursor, readable, writable,
                   calls, dial>>

DnsDone ==
    /\ pc = "dns"
    /\ pc' = "select"
    /\ UNCHANGED <<conn, contacts, resolvers, events, timers, cursor,
                   readable, writable, calls, dial, fault>>

-----------------------------------------------------------------------------
(* select: the descriptor sets, the kernel's answer. *)

Watched == {s \in Slots : InUse(s) /\ conn[s].ts # "RESOLVING"}

\* The loop dereferences send_arg of every watched slot.
SelectNull ==
    /\ pc = "select"
    /\ \E s \in Watched : conn[s].fd = 0
    /\ fault' = fault \cup {"null_deref"} /\ pc' = "halt"
    /\ UNCHANGED <<conn, contacts, resolvers, events, timers, cursor,
                   readable, writable, calls, dial>>

Connecting == {s \in Watched : conn[s].ts = "CONNECTING"}

\* Some pending connects have finished by now; a connecting socket is
\* writable once its connect has finished.
Select ==
    /\ pc = "select"
    /\ \A s \in Watched : conn[s].fd # 0
    /\ \E ok \in SUBSET Connecting : \E failed \in SUBSET (Connecting \ ok) :
         /\ conn' = [s \in Slots |->
                       IF s \in ok THEN [conn[s] EXCEPT !.net = "up"]
                       ELSE IF s \in failed
                              THEN [conn[s] EXCEPT !.net = "failed"]
                       ELSE conn[s]]
         /\ writable' = {conn[s].fd : s \in ok \cup failed}
    /\ \E R \in SUBSET (Watched \ Connecting) :
         readable' = {conn[s].fd : s \in R}
    /\ pc' = "pre" /\ calls' = 0
    /\ UNCHANGED <<contacts, resolvers, events, timers, cursor, dial, fault>>

-----------------------------------------------------------------------------
(* pre: local discovery, relay control and application handlers. *)

Handler ==
    /\ pc = "pre" /\ calls < MaxCalls
    /\ calls' = calls + 1
    /\ UNCHANGED <<events, timers, cursor, readable, writable>>

\* A local discovery broadcast by host h of contact r: dial it unless a
\* connection to that very host exists.  A connection whose handshake is
\* not over has no host id yet.
wish_ldiscover_feed(r, h) ==
    /\ Handler
    /\ r \in contacts
    /\ \A t \in Slots : InUse(t) /\ ~conn[t].fr => <<conn[t].rel, conn[t].host>> # <<r, h>>
    /\ \E s \in Slots : Vacant(s)
         /\ OpenByAddress(s, wish_connection_init(r, FALSE, FALSE))
    /\ UNCHANGED <<contacts, pc, dial>>

\* identity.friendRequest: a friend request connection, and the requestee
\* is saved as a contact unless its transport does not parse.
wish_api_identity_friend_request(r) ==
    /\ Handler
    /\ \E s \in Slots :
         /\ Vacant(s)
         /\ LET c == wish_connection_init(r, TRUE, FALSE) IN
              \/ OpenByAddress(s, c) /\ contacts' = contacts \cup {r}
              \/ wish_open_connection_dns(s, c) /\ contacts' = contacts \cup {r}
              \/ NotOpened(s) /\ UNCHANGED contacts
    /\ UNCHANGED <<pc, dial>>

\* wld.friendRequest saves the contact first, and uses the connection it
\* asks for without looking whether there was one left.
wish_api_wld_friend_request(r, h) ==
    /\ Handler
    /\ contacts' = contacts \cup {r}
    /\ \/ /\ \E s \in Slots : Vacant(s)
              /\ OpenByAddress(s, [wish_connection_init(r, TRUE, FALSE)
                                    EXCEPT !.host = h])
          /\ UNCHANGED pc
       \/ /\ FreeSlots = {}
          /\ fault' = fault \cup {"null_deref"} /\ pc' = "halt"
          /\ UNCHANGED <<conn, resolvers>>
    /\ UNCHANGED dial

\* The relay server announces a peer: dial back for it.
RelaySession ==
    /\ Handler
    /\ \E s \in Slots :
         /\ Vacant(s)
         /\ LET c == wish_connection_init(NoRel, FALSE, TRUE) IN
              OpenByAddress(s, c) \/ wish_open_connection_dns(s, c)
    /\ UNCHANGED <<contacts, pc, dial>>

\* connections.disconnect takes a pool index, in use or not.
wish_api_connections_disconnect(s) ==
    /\ Handler
    /\ wish_close_connection({s})
    /\ UNCHANGED <<contacts, pc, dial>>

wish_connections_close_all ==
    /\ Handler
    /\ wish_close_connection({s \in Slots : InUse(s)})
    /\ UNCHANGED <<contacts, pc, dial>>

\* Mutant: only the connections that are up are closed.
RemoveClosesConnectedOnly(r) ==
    /\ contacts' = contacts \ {r}
    /\ wish_close_connection({s \in Slots : conn[s].st = "CONNECTED"
                                             /\ conn[s].rel = r})

\* The contact leaves the database and all its connections are closed.
wish_identity_remove(r) ==
    /\ contacts' = contacts \ {r}
    /\ wish_close_connection({s \in Slots : InUse(s) /\ conn[s].rel = r})

\* The first slot in the pool with the identities of a friend request is
\* taken to be the connection that brought it.
FirstOf(r) ==
    LET Of == {s \in Slots : InUse(s) /\ conn[s].rel = r}
    IN  {s \in Of : \A t \in Of : s <= t}

\* identity.friendRequestAccept saves the contact, friendRequestDecline
\* does not; both close the connection, if there still is one.  Accepting
\* ends early when the certificate for the answer cannot be built.  (Which
\* requests there are to answer is left open.)
wish_api_identity_friend_request_accept(r) ==
    /\ contacts' = contacts \cup {r}
    /\ \E D \in {FirstOf(r), {}} : wish_close_connection(D)

wish_api_identity_friend_request_decline(r) ==
    /\ UNCHANGED contacts
    /\ wish_close_connection(FirstOf(r))

Management(r) == \/ wish_identity_remove(r)
                 \/ wish_api_identity_friend_request_accept(r)
                 \/ wish_api_identity_friend_request_decline(r)

LocalManagement(r) == Handler /\ Management(r) /\ UNCHANGED <<pc, dial>>

\* The contacts wish_connections_check may dial, each on all of its
\* transports: those not connected and not flagged.
Dialling ==
    {d \in [Rels -> 0..MaxTransports] :
       \A r \in Rels : d[r] > 0 =>
         r \in contacts /\ ~wish_core_is_connected_luid_ruid(r)}

\* connections.checkConnections runs it from a handler.
wish_api_connections_check_connections ==
    /\ Handler
    /\ dial' \in Dialling
    /\ pc' = "recheck"
    /\ UNCHANGED <<conn, contacts, resolvers, fault>>

HandlersDone ==
    /\ pc = "pre"
    /\ pc' = "io" /\ cursor' = 1
    /\ UNCHANGED <<conn, contacts, resolvers, events, timers, readable,
                   writable, calls, dial, fault>>

-----------------------------------------------------------------------------
(* io: one pass over the slots, in pool order. *)

AtSlot(s) == pc = "io" /\ cursor = s
NextSlot == pc' = "io" /\ cursor' = cursor + 1

Flagged(s, set) == s \in Watched /\ conn[s].fd \in set

IoNothing(s) ==
    /\ AtSlot(s)
    /\ ~Flagged(s, readable) /\ ~Flagged(s, writable)
    /\ NextSlot
    /\ UNCHANGED <<conn, contacts, resolvers, events, timers, readable,
                   writable, calls, dial, fault>>

\* read() returned bytes: feed them and process what is complete.
wish_core_feed(s) ==
    /\ AtSlot(s)
    /\ Flagged(s, readable) /\ conn[s].net = "up"
    /\ pc' = "frames"
    /\ UNCHANGED <<conn, contacts, resolvers, events, timers, cursor,
                   readable, writable, calls, dial, fault>>

\* read() returned 0 or -1.
IoEof(s) ==
    /\ AtSlot(s)
    /\ Flagged(s, readable)
    /\ TcpDisconnected(s)
    /\ NextSlot
    /\ UNCHANGED <<contacts, resolvers, events, timers, readable, writable,
                   calls, dial>>

\* Writable and SO_ERROR = 0, which is also what a connect in progress has.
IoConnected(s) ==
    /\ AtSlot(s)
    /\ Flagged(s, writable) /\ ~Flagged(s, readable)
    /\ conn[s].net # "failed" \/ conn[s].ts # "CONNECTING"
    /\ IF conn[s].ts = "CONNECTING"
         THEN conn' = [conn EXCEPT ![s] = TcpConnected(@)]
              /\ NextSlot /\ UNCHANGED fault
         ELSE fault' = fault \cup {"abort"} /\ pc' = "halt"
              /\ UNCHANGED <<conn, cursor>>
    /\ UNCHANGED <<contacts, resolvers, events, timers, readable, writable,
                   calls, dial>>

\* Writable and SO_ERROR # 0: connect_fail_cb.
connect_fail_cb(s) ==
    /\ AtSlot(s)
    /\ Flagged(s, writable) /\ ~Flagged(s, readable)
    /\ conn[s].net = "failed" /\ conn[s].ts = "CONNECTING"
    /\ TcpDisconnected(s)
    /\ NextSlot
    /\ UNCHANGED <<contacts, resolvers, events, timers, readable, writable,
                   calls, dial>>

IoDone ==
    /\ pc = "io" /\ cursor = PoolSize + 1
    /\ pc' = "accept"
    /\ UNCHANGED <<conn, contacts, resolvers, events, timers, cursor,
                   readable, writable, calls, dial, fault>>

-----------------------------------------------------------------------------
(* frames: wish_core_process_data on the slot at the cursor. *)

Processing(s) == pc = "frames" /\ cursor = s

\* The buffer holds another complete frame, or it does not.
MoreOrNext == \/ pc' = "frames" /\ UNCHANGED cursor
              \/ NextSlot

FrameUnchanged == UNCHANGED <<contacts, timers, readable, writable, calls,
                              dial>>

\* Nothing more to process at this time.
NoMoreFrames(s) ==
    /\ Processing(s)
    /\ NextSlot
    /\ UNCHANGED <<conn, resolvers, events, fault>> /\ FrameUnchanged

\* The frame is refused (bad hello, failed decryption or verification,
\* missing key, ban): the connection is closed.
RejectFrame(s) ==
    /\ Processing(s)
    /\ conn[s].ps # "INITIAL" \/ conn[s].ts = "SERVER_WAIT_INITIAL"
    /\ "trailing" \in EarlyCloses \/ ~Contains(events, s)
    /\ wish_close_connection({s})
    /\ NextSlot
    /\ UNCHANGED events /\ FrameUnchanged

\* Mutant: the identities of a normal connection are not looked up.
ServerHelloFromAnyone(s, r, isFriendReq) ==
    /\ Processing(s)
    /\ conn[s].ts = "SERVER_WAIT_INITIAL"
    /\ conn' = [conn EXCEPT ![s] = [@ EXCEPT !.rel = r, !.fr = isFriendReq,
                  !.dhm = "live", !.ts = "WAIT_FRAME_LEN", !.ps = "SERVER_DH"]]
    /\ NextSlot
    /\ UNCHANGED <<resolvers, events, fault>> /\ FrameUnchanged

\* The 67 byte client hello, accepted.  A normal connection must come from
\* a contact; the loop does not look for more data after it.
ServerHello(s, r, isFriendReq) ==
    /\ Processing(s)
    /\ conn[s].ts = "SERVER_WAIT_INITIAL"
    /\ isFriendReq \/ r \in contacts
    /\ conn' = [conn EXCEPT ![s] = [@ EXCEPT !.rel = r, !.fr = isFriendReq,
                  !.dhm = "live", !.ts = "WAIT_FRAME_LEN", !.ps = "SERVER_DH"]]
    /\ NextSlot
    /\ UNCHANGED <<resolvers, events, fault>> /\ FrameUnchanged

\* The hello was good but the DHM context cannot be set up after it has
\* been allocated.
ServerHelloDhmError(s) ==
    /\ AllocFails
    /\ Processing(s)
    /\ conn[s].ts = "SERVER_WAIT_INITIAL"
    /\ conn' = [conn EXCEPT ![s] = FreeSlot]
    /\ fault' = fault \cup TcpDisconnectedFaults([conn[s] EXCEPT !.dhm = "live"])
    /\ NextSlot
    /\ UNCHANGED <<resolvers, events>> /\ FrameUnchanged

\* The order of the key exchange and signature frames, both roles.  The
\* server's handshake message may fail to be sent; the next frame tries
\* again.
HandshakeOrder ==
    {<<"DH", "SEND_CLIENT_HASH">>, <<"SEND_CLIENT_HASH", "HANDSHAKE">>,
     <<"SERVER_DH", "VERIFY_CLIENT_HASH">>,
     <<"VERIFY_CLIENT_HASH", "READ_REPLY">>,
     <<"VERIFY_CLIENT_HASH", "SEND_HANDSHAKE">>,
     <<"SEND_HANDSHAKE", "READ_REPLY">>, <<"SEND_HANDSHAKE", "SEND_HANDSHAKE">>}

\* Mutant: the server's DHM context is not freed once the secret is known.
AdvanceKeepsDhm(c, next) == [c EXCEPT !.ps = next]

Advance(c, next) ==
    [c EXCEPT !.ps = next, !.dhm = IF c.ps = "SERVER_DH" THEN "null" ELSE @]

Handshake(s) ==
    /\ Processing(s)
    /\ \E next \in ProtocolStates :
         /\ <<conn[s].ps, next>> \in HandshakeOrder
         /\ conn' = [conn EXCEPT ![s] = Advance(@, next)]
    /\ MoreOrNext
    /\ UNCHANGED <<resolvers, events, fault>> /\ FrameUnchanged

\* Mutant: the pointer is not set to NULL after the free.
ServerNoPrivkeyDangling(s) ==
    /\ Processing(s)
    /\ conn[s].ps = "SERVER_DH"
    /\ conn' = [conn EXCEPT ![s] = FreeSlot]
    /\ fault' = fault \cup TcpDisconnectedFaults([conn[s] EXCEPT !.dhm = "freed"])
    /\ NextSlot
    /\ UNCHANGED <<resolvers, events>> /\ FrameUnchanged

\* The server has freed its DHM context when it finds that it cannot load
\* the private key it needs next.
ServerNoPrivkey(s) ==
    /\ Processing(s)
    /\ conn[s].ps = "SERVER_DH"
    /\ conn' = [conn EXCEPT ![s] = FreeSlot]
    /\ fault' = fault \cup TcpDisconnectedFaults([conn[s] EXCEPT !.dhm = "null"])
    /\ NextSlot
    /\ UNCHANGED <<resolvers, events>> /\ FrameUnchanged

\* Mutant: the event is queued for friend request connections too.
HandshakeAnnouncesAll(s, h) ==
    /\ Processing(s)
    /\ \/ conn[s].ps = "HANDSHAKE"
       \/ conn[s].ps = "READ_REPLY" /\ h # NoHost
    /\ conn' = [conn EXCEPT ![s] = [@ EXCEPT !.ps = "RUNNING", !.host = h]]
    /\ events' = Append(events, s)
    /\ MoreOrNext
    /\ UNCHANGED <<resolvers, fault>> /\ FrameUnchanged

\* The last handshake frame: the host id is learnt; a normal connection
\* queues NEW_CORE_CONNECTION, an outgoing friend request is CONNECTED at
\* once, an incoming one stays IN_MAKING.
Finished(c, h) ==
    [c EXCEPT !.ps = "RUNNING", !.host = h,
              !.st = IF c.fr /\ c.ps = "HANDSHAKE" THEN "CONNECTED" ELSE @]

HandshakeDone(s, h) ==
    /\ Processing(s)
    /\ \/ conn[s].ps = "HANDSHAKE"
       \/ conn[s].ps = "READ_REPLY" /\ h # NoHost
    /\ conn' = [conn EXCEPT ![s] = Finished(@, h)]
    /\ events' = IF conn[s].fr THEN events ELSE Append(events, s)
    /\ MoreOrNext
    /\ UNCHANGED <<resolvers, fault>> /\ FrameUnchanged

\* A message on a running connection that closes nothing, or a handshake
\* reply without a host id, which is dropped.
Message(s) ==
    /\ Processing(s)
    /\ conn[s].ps \in {"RUNNING", "READ_REPLY"}
    /\ MoreOrNext
    /\ UNCHANGED <<conn, resolvers, events, fault>> /\ FrameUnchanged

\* The peer accepts our friend request (friend_req_callback), or a contact
\* sends one (core_friend_req): the connection is closed.
FriendReqAccepted(s) ==
    /\ Processing(s)
    /\ conn[s].ps = "RUNNING" /\ conn[s].fr /\ conn[s].rel \in contacts
    /\ wish_close_connection({s})
    /\ NextSlot
    /\ UNCHANGED events /\ FrameUnchanged

\* The peer declines our friend request: the identity is removed, named by
\* a pointer into the connection.  Closing that connection clears the uid
\* with which wish_identity_remove goes on comparing the later slots.
FriendReqDeclined(s) ==
    /\ Processing(s)
    /\ conn[s].ps = "RUNNING" /\ conn[s].fr /\ conn[s].out
    /\ \/ "decline" \in EarlyCloses
       \/ \A t \in Slots \ {s} : InUse(t) => conn[t].rel # conn[s].rel
    /\ contacts' = contacts \ {conn[s].rel}
    /\ wish_close_connection({t \in Slots : InUse(t) /\
         conn[t].rel = IF t <= s THEN conn[s].rel ELSE NoRel})
    /\ NextSlot
    /\ UNCHANGED <<events, timers, readable, writable, calls, dial>>

\* A contact that owns this core manages its contacts and friend requests
\* through the core-to-core RPC server.
RemoteManagement(s, r) ==
    /\ Processing(s)
    /\ conn[s].ps = "RUNNING" /\ ~conn[s].fr
    /\ \/ "manage" \in EarlyCloses
       \/ \A i \in 1..Len(events) : conn[events[i]].rel # r
    /\ Management(r)
    /\ IF conn'[s].st = "FREE" THEN NextSlot ELSE MoreOrNext
    /\ UNCHANGED <<events, timers, readable, writable, calls, dial>>

\* A friend request from a stranger replaces an older connection with the
\* same identities: the first other one of the pool.
core_friend_req(s) ==
    /\ Processing(s)
    /\ conn[s].ps = "RUNNING" /\ conn[s].fr /\ ~conn[s].out
    /\ conn[s].rel \notin contacts
    /\ LET others == {t \in Slots \ {s} : InUse(t) /\ conn[t].rel = conn[s].rel}
       IN  wish_close_connection({t \in others : \A u \in others : t <= u})
    /\ MoreOrNext
    /\ UNCHANGED events /\ FrameUnchanged

-----------------------------------------------------------------------------
(* accept: at most one incoming connection per iteration. *)

Accept ==
    /\ pc = "accept"
    /\ \E s \in Slots, f \in FreeFds :
         /\ Vacant(s)
         /\ conn' = [conn EXCEPT ![s] =
              [wish_connection_init(NoRel, FALSE, FALSE) EXCEPT
                 !.ts = "SERVER_WAIT_INITIAL", !.fd = f, !.net = "up"]]
    /\ pc' = "events"
    /\ UNCHANGED <<contacts, resolvers, events, timers, cursor, readable,
                   writable, calls, dial, fault>>

\* Nobody connects, or the pool is full and the socket is closed again.
AcceptNone ==
    /\ pc = "accept"
    /\ pc' = "events"
    /\ UNCHANGED <<conn, contacts, resolvers, events, timers, cursor,
                   readable, writable, calls, dial, fault>>

-----------------------------------------------------------------------------
(* events: drain the queue. *)

wish_message_processor_task ==
    /\ pc = "events" /\ events # <<>>
    /\ LET s == Head(events) IN
         /\ conn' = [conn EXCEPT ![s].st = "CONNECTED"]
         /\ timers' = IF conn[s].host \in SmallerHosts \cup {NoHost}
                        THEN Append(timers, s) ELSE timers
    /\ events' = Tail(events)
    /\ UNCHANGED <<contacts, resolvers, pc, cursor, readable, writable,
                   calls, dial, fault>>

EventsDone ==
    /\ pc = "events" /\ events = <<>>
    /\ pc' = "periodic" /\ readable' = {} /\ writable' = {}
    /\ UNCHANGED <<conn, contacts, resolvers, events, timers, cursor, calls,
                   dial, fault>>

-----------------------------------------------------------------------------
(* periodic: wish_time_report_periodic, once a second. *)

\* Less than a second has passed.
NoTick ==
    /\ pc = "periodic" /\ Len(timers) <= MaxTimers
    /\ pc' = "dns"
    /\ UNCHANGED <<conn, contacts, resolvers, events, timers, cursor,
                   readable, writable, calls, dial, fault>>

\* Every minute; in any other second nothing is dialled.
wish_connections_check ==
    /\ pc = "periodic"
    /\ dial' \in Dialling
    /\ pc' = "dial"
    /\ UNCHANGED <<conn, contacts, resolvers, events, timers, cursor,
                   readable, writable, calls, fault>>

wish_connections_connect_transport(r) ==
    /\ pc \in {"dial", "recheck"} /\ dial[r] > 0
    /\ dial' = [dial EXCEPT ![r] = @ - 1]
    /\ \/ \E s \in Slots :
            /\ Vacant(s)
            /\ LET c == wish_connection_init(r, FALSE, FALSE) IN
                 \/ OpenByAddress(s, c)
                 \/ wish_open_connection_dns(s, c)
                 \/ NotOpened(s)
       \/ FreeSlots = {} /\ UNCHANGED <<conn, resolvers, fault>>
    /\ UNCHANGED <<contacts, events, timers, pc, cursor, readable, writable,
                   calls>>

DialDone ==
    /\ pc \in {"dial", "recheck"} /\ dial = NoDial
    /\ pc' = IF pc = "dial" THEN "live" ELSE "pre"
    /\ UNCHANGED <<conn, contacts, resolvers, events, timers, cursor,
                   readable, writable, calls, dial, fault>>

\* The interval timer, first in time_db: D are the slots whose timeout has
\* passed.
check_connection_liveliness(D) ==
    /\ pc = "live"
    /\ \A s \in D : InUse(s)
    /\ wish_close_connection(D)
    /\ pc' = "timers"
    /\ UNCHANGED <<contacts, events, timers, cursor, readable, writable,
                   calls, dial>>

\* Mutant: the connection itself is not skipped.
ParallelWithItself(s) ==
    {t \in Slots : /\ conn[t].st = "CONNECTED"
                   /\ conn[t].rel = conn[s].rel
                   /\ conn[t].host = conn[s].host}

ParallelTo(s) ==
    {t \in Slots \ {s} : /\ conn[t].st = "CONNECTED"
                         /\ conn[t].rel = conn[s].rel
                         /\ conn[t].host = conn[s].host}

\* The single-shot timers follow, in the order they were set.
wish_close_parallel_connections ==
    /\ pc = "timers" /\ timers # <<>>
    /\ LET s == Head(timers) IN
         wish_close_connection(IF conn[s].st = "CONNECTED"
                                 THEN ParallelTo(s) ELSE {})
    /\ timers' = Tail(timers)
    /\ UNCHANGED <<contacts, events, pc, cursor, readable, writable, calls,
                   dial>>

TimersDone ==
    /\ pc = "timers" /\ timers = <<>>
    /\ pc' = "dns"
    /\ UNCHANGED <<conn, contacts, resolvers, events, timers, cursor,
                   readable, writable, calls, dial, fault>>

-----------------------------------------------------------------------------
DnsPhase == \/ \E s \in Slots : \/ DnsResolved(s)
                                \/ DnsNoAddress(s)
                                \/ port_dns_resolver_signal_error(s)
            \/ DnsDone

PrePhase == \/ \E r \in Rels : \/ \E h \in Hosts : wish_ldiscover_feed(r, h)
                               \/ wish_api_identity_friend_request(r)
                               \/ \E h \in WldHosts :
                                    wish_api_wld_friend_request(r, h)
                               \/ LocalManagement(r)
            \/ wish_api_connections_check_connections
            \/ \E s \in Slots : wish_api_connections_disconnect(s)
            \/ RelaySession
            \/ wish_connections_close_all
            \/ HandlersDone

IoPhase == \/ \E s \in Slots : \/ IoNothing(s)
                               \/ wish_core_feed(s)
                               \/ IoEof(s)
                               \/ IoConnected(s)
                               \/ connect_fail_cb(s)
           \/ IoDone

FramePhase == \E s \in Slots :
    \/ NoMoreFrames(s)
    \/ RejectFrame(s)
    \/ \E r \in Rels, b \in BOOLEAN : ServerHello(s, r, b)
    \/ ServerHelloDhmError(s)
    \/ Handshake(s)
    \/ ServerNoPrivkey(s)
    \/ \E h \in Hosts \cup {NoHost} : HandshakeDone(s, h)
    \/ Message(s)
    \/ FriendReqAccepted(s)
    \/ FriendReqDeclined(s)
    \/ \E r \in Rels : RemoteManagement(s, r)
    \/ core_friend_req(s)

PeriodicPhase == \/ NoTick
                 \/ wish_connections_check
                 \/ \E r \in Rels : wish_connections_connect_transport(r)
                 \/ DialDone
                 \/ \E D \in SUBSET Slots : check_connection_liveliness(D)
                 \/ wish_close_parallel_connections
                 \/ TimersDone

Next == \/ DnsPhase
        \/ SelectNull \/ Select
        \/ PrePhase \/ IoPhase \/ FramePhase
        \/ Accept \/ AcceptNone
        \/ wish_message_processor_task \/ EventsDone
        \/ PeriodicPhase

Spec == wish_connections_init /\ [][Next]_vars

-----------------------------------------------------------------------------
(* Properties. *)

\* A connection that is CONNECTED ("actions may be performed with it") has
\* finished its handshake, knows whom it talks to and owns a socket: the
\* NEW_CORE_CONNECTION event and the friend request path only promote slots
\* that are still the connection that earned it.
ConnectedIsHandshaken ==
    \A s \in Slots : conn[s].st = "CONNECTED" =>
        conn[s].ps = "RUNNING" /\ conn[s].rel \in Rels /\ conn[s].fd # 0

\* The main loop never reaches one of its fatal paths: the dereference of
\* a NULL send_arg, abort() in the resolver, abort() on a writable socket
\* whose slot is not CONNECTING.
NeverHalts == fault \cap {"null_deref", "abort"} = {}

\* Closing a connection, in whatever state the close finds it, releases
\* its socket and its DHM context.
NoLeak == fault \cap {"fd_leak", "dhm_leak"} = {}

\* The DHM context is never released twice: once by the handshake and
\* again by TCP_DISCONNECTED.
NoDoubleFree == "double_free" \notin fault

\* A resolver of resolver_list always points to a slot that is still the
\* IN_MAKING connection it resolves for, with no socket yet.  The slot may
\* have been closed and reused between the query and its answer.
ResolverOwner ==
    \A s \in resolvers :
        conn[s].st = "IN_MAKING" /\ conn[s].ts = "RESOLVING" /\ conn[s].fd = 0

\* A connection that is not a friend request and has identities has those
\* of a contact, at every moment: a contact that is removed takes its
\* connections with it, those still being resolved or shaken hands with
\* included.
OnlyContacts ==
    \A s \in Slots : InUse(s) /\ ~conn[s].fr /\ conn[s].rel \in Rels =>
        conn[s].rel \in contacts

\* What every slot satisfies, given the contacts.
SlotInv(c, known) ==
    /\ c.st # "FREE" /\ c.ts # "RESOLVING" => c.fd # 0
    /\ c.st = "FREE" => c.ts \in {"INITIAL", "WAIT_FRAME_LEN"}
    /\ c.ps # "INITIAL" =>
         c.st # "FREE" /\ c.ts = "WAIT_FRAME_LEN" /\ c.rel # NoRel
    /\ c.st = "CONNECTED" => c.ps = "RUNNING"
    /\ c.st # "FREE" /\ c.rel = NoRel => c.via \/ c.ts = "SERVER_WAIT_INITIAL"
    /\ c.st # "FREE" /\ ~c.fr /\ c.rel # NoRel => c.rel \in known

\* What a queued event relies on: its slot is still the connection that
\* finished the handshake.
EventInv(c, known) ==
    c.st # "FREE" /\ c.ps = "RUNNING" /\ ~c.fr /\ c.rel \in known

\* Events live from the I/O pass that queues them to the drain after it,
\* and the pass does not come back to their slots.
EventsInv ==
    /\ pc \notin {"io", "frames", "accept", "events", "halt"} => events = <<>>
    /\ \A i \in 1..Len(events) :
         /\ EventInv(conn[events[i]], contacts)
         /\ pc = "io" => events[i] < cursor
         /\ pc = "frames" => events[i] <= cursor

DialInv ==
    \A r \in Rels : dial[r] > 0 => pc \in {"dial", "recheck"} /\ r \in contacts

\* The pool is consistent between any two steps of the main loop: every
\* slot the loop selects on has a socket, the protocol runs only on framed
\* slots with identities, events and resolvers point to the connections
\* they were made for, and only contacts are dialled.
PoolInv ==
    /\ \A s \in Slots : SlotInv(conn[s], contacts)
    /\ ResolverOwner
    /\ EventsInv
    /\ DialInv

\* The parallel-connection checks of one tick, however many and on
\* whichever slots they have ended up, leave one CONNECTED connection
\* wherever there was one.
ParallelCheckKeepsOne ==
    [][pc = "timers" => \A s \in Slots : conn[s].st = "CONNECTED" =>
          \E t \in Slots : /\ conn'[t].st = "CONNECTED"
                           /\ conn'[t].rel = conn[s].rel
                           /\ conn'[t].host = conn[s].host]_vars
=============================================================================
