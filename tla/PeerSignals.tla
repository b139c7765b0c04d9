---------------------------- MODULE PeerSignals ----------------------------
(***************************************************************************)
(* How the services of one core learn about the services of other cores.   *)
(*                                                                         *)
(* When a connection is announced the core sends a "peers" request; the    *)
(* remote core answers with one message per registered service and keeps   *)
(* the request open: services that become ready or go away are broadcast   *)
(* on it.  The core remembers the services of a connection in its list     *)
(* connection->apps and passes each message on to its own services of the  *)
(* same protocol.  When a connection is lost it says so to its services,   *)
(* unless another connection with the same user is up.                     *)
(*                                                                         *)
(* AppServices is the application side of this core.  The remote cores run *)
(* the same code; what they do of it here is the answering side.  A wire   *)
(* is the direction of a connection towards this core: messages arrive in  *)
(* order and those under way are lost with the connection.  One identity   *)
(* of each side is followed: a peer is a host and a service on it.         *)
(***************************************************************************)
EXTENDS AppServices, Sequences

CONSTANTS Conns,           \* slots of the connection pool
          Hosts, NoHost,   \* the remote cores (rhid)
          userOf,          \* whose core a host is (ruid)
          Services,        \* the services on the remote cores (rsid)
          servicesAt,      \* those a host may run
          protocolAt,      \* their protocol
          Parallel,        \* may a user be connected more than once?
          MaxWire          \* bound on the messages under way

ASSUME PeerSignalsAssumption ==
    /\ NoHost \notin Hosts
    /\ IsFiniteSet(Services)
    /\ servicesAt \in [Hosts -> SUBSET Services]
    /\ protocolAt \in [Services -> Protocols]
    /\ Parallel \in BOOLEAN
    /\ MaxWire \in Nat

VARIABLES
    connection,    \* the host a slot is CONNECTED with; NoHost if FREE
    asked,         \* slots whose peers request is on its way
    subscribed,    \* slots whose peers request is open at the remote core
    wire,          \* answers and broadcasts under way to this core
    known,         \* connection->apps
    offered,       \* the service registry of each remote core
    announced,     \* ghost: its services that have said "ready"
    remote_peers,  \* what the service in each slot of AppServices believes
                   \*   to be online on other hosts
    revived        \* ghost: peers said to be online although they were not
                   \*   registered on their host any more

peerVars == <<connection, asked, subscribed, wire, known, remote_peers,
              revived>>
remoteVars == <<offered, announced>>
vars == <<appVars, peerVars, remoteVars>>

Peers == Hosts \X Services
Message == [service : Services, online : BOOLEAN]

PeersTypeOK ==
    /\ ServicesTypeOK
    /\ connection \in [Conns -> Hosts \cup {NoHost}]
    /\ asked \subseteq Conns /\ subscribed \subseteq Conns
    /\ wire \in [Conns -> Seq(Message)]
    /\ known \in [Conns -> SUBSET Services]
    /\ offered \in [Hosts -> SUBSET Services]
    /\ announced \in [Hosts -> SUBSET Services]
    /\ remote_peers \in [Slots -> SUBSET Peers]
    /\ revived \subseteq Peers

Init ==
    /\ ServicesInit
    /\ connection = [c \in Conns |-> NoHost]
    /\ asked = {} /\ subscribed = {}
    /\ wire = [c \in Conns |-> <<>>]
    /\ known = [c \in Conns |-> {}]
    /\ offered = [h \in Hosts |-> {}]
    /\ announced = [h \in Hosts |-> {}]
    /\ remote_peers = [i \in Slots |-> {}]
    /\ revived = {}
-----------------------------------------------------------------------------
Connected(c) == connection[c] # NoHost

\* The identities compared in the test for another connection: luid and ruid
\* of both, not rhid.
SameUser(c, d) == userOf[connection[c]] = userOf[connection[d]]

OtherConnectionFound(c) ==
    \E d \in Conns \ {c} : Connected(d) /\ SameUser(c, d)

\* The services of this core a peer message of protocol p is passed on to.
PeerAudience(p) == {w \in RegisteredWsids : protocolOf[w] = p}

\* Everything the connections in cs have told this core about.
PeersKnown(cs) ==
    {<<connection[c], s>> : c \in cs, s \in Services} \cap
    {p \in Peers : \E c \in cs : connection[c] = p[1] /\ p[2] \in known[c]}
-----------------------------------------------------------------------------
(* The remote core: its registry and the peers request (wish_core_rpc.c).   *)

\* wish_send_peer_update: broadcast on every open peers request.
Broadcast(h, m) ==
    LET open == {c \in subscribed : connection[c] = h}
    IN /\ \A c \in open : Len(wire[c]) < MaxWire
       /\ wire' = [c \in Conns |-> IF c \in open THEN Append(wire[c], m)
                                   ELSE wire[c]]

RemoteLogin(h, s) ==
    /\ s \in servicesAt[h] \ offered[h]
    /\ offered' = [offered EXCEPT ![h] = @ \cup {s}]
    /\ UNCHANGED <<appVars, peerVars, announced>>

RemoteReady(h, s) ==
    /\ s \in offered[h]      \* once or again
    /\ announced' = [announced EXCEPT ![h] = @ \cup {s}]
    /\ Broadcast(h, [service |-> s, online |-> TRUE])
    /\ UNCHANGED <<appVars, offered, connection, asked, subscribed, known,
                   remote_peers, revived>>

RemoteGone(h, s) ==
    /\ s \in offered[h]
    /\ Broadcast(h, [service |-> s, online |-> FALSE])
    /\ offered' = [offered EXCEPT ![h] = @ \ {s}]
    /\ announced' = [announced EXCEPT ![h] = @ \ {s}]
    /\ revived' = revived \ {<<h, s>>}
    /\ UNCHANGED <<appVars, connection, asked, subscribed, known,
                   remote_peers>>

\* The answers to a peers request: one message per registered service,
\* whether it is ready or not, in some order.
Answer(h) ==
    LET orders == {q \in [1 .. Cardinality(offered[h]) -> offered[h]] :
                      \A s \in offered[h] : \E n \in DOMAIN q : q[n] = s}
    IN {[n \in 1 .. Cardinality(offered[h]) |->
            [service |-> q[n], online |-> TRUE]] : q \in orders}

\* peers_op_handler
PeersOp(c) ==
    /\ c \in asked
    /\ asked' = asked \ {c}
    /\ subscribed' = subscribed \cup {c}
    /\ \E answer \in Answer(connection[c]) :
           wire' = [wire EXCEPT ![c] = @ \o answer]
    /\ UNCHANGED <<appVars, remoteVars, connection, known, remote_peers,
                   revived>>
-----------------------------------------------------------------------------
(* This core.                                                               *)

\* WISH_EVENT_NEW_CORE_CONNECTION: the connection counts as CONNECTED and
\* the peers request is sent.  This core opens no second connection with a
\* user (wish_core_is_connected_luid_ruid); with Parallel, remote hosts do.
Connect(c, h) ==
    /\ ~Connected(c)
    /\ \/ Parallel
       \/ \A d \in Conns : Connected(d) => userOf[connection[d]] # userOf[h]
    /\ connection' = [connection EXCEPT ![c] = h]
    /\ asked' = asked \cup {c}
    /\ UNCHANGED <<appVars, remoteVars, subscribed, wire, known,
                   remote_peers, revived>>

\* wish_core_add_remote_service, for online and offline messages alike.
Remember(c, m) == [known EXCEPT ![c] = @ \cup {m.service}]

\* Mutant of PassOn: offline messages are not passed on.
PassOn_OnlineOnly(c, m) ==
    [i \in Slots |->
        IF i \in ReachedBy(PeerAudience(protocolAt[m.service])) /\ m.online
        THEN remote_peers[i] \cup {<<connection[c], m.service>>}
        ELSE remote_peers[i]]

\* The pictures after the message was sent to the services of its protocol.
PassOn(c, m) ==
    LET peer == <<connection[c], m.service>>
    IN [i \in Slots |->
           IF i \notin ReachedBy(PeerAudience(protocolAt[m.service]))
           THEN remote_peers[i]
           ELSE IF m.online THEN remote_peers[i] \cup {peer}
                ELSE remote_peers[i] \ {peer}]

\* peers_callback, for the next message that arrives.
PeersCallback(c) ==
    /\ wire[c] # <<>>
    /\ wire' = [wire EXCEPT ![c] = Tail(@)]
    /\ known' = Remember(c, Head(wire[c]))
    /\ remote_peers' = PassOn(c, Head(wire[c]))
    /\ UNCHANGED <<appVars, remoteVars, connection, asked, subscribed,
                   revived>>

\* Mutant of OfflineSignals: the test is turned round.
OfflineSignals_Inverted(c) == OtherConnectionFound(c)

\* Is wish_send_online_offline_signal_to_apps(false) called?
OfflineSignals(c) == ~OtherConnectionFound(c)

\* TCP_DISCONNECTED on an announced connection: the offline signals go to
\* every registered service, whatever its protocol; the peers request ends
\* at both cores; the list of services is freed.
Disconnect(c) ==
    /\ Connected(c)
    /\ IF OfflineSignals(c)
       THEN /\ remote_peers' =
                   [i \in Slots |->
                       IF i \in ReachedBy(RegisteredWsids)
                       THEN remote_peers[i] \ PeersKnown({c})
                       ELSE remote_peers[i]]
            /\ revived' = revived \ PeersKnown({c})
       ELSE UNCHANGED <<remote_peers, revived>>
    /\ connection' = [connection EXCEPT ![c] = NoHost]
    /\ asked' = asked \ {c}
    /\ subscribed' = subscribed \ {c}
    /\ wire' = [wire EXCEPT ![c] = <<>>]
    /\ known' = [known EXCEPT ![c] = {}]
    /\ UNCHANGED <<appVars, remoteVars>>

\* Mutant of ReadyAnnounces: services known from before are not announced.
ReadyAnnounces_Nothing == {}

\* What wish_core_handle_app_to_core announces when a service is ready.
ReadyAnnounces == PeersKnown({c \in Conns : Connected(c)})

\* The rest of the frame { ready: true }: the services every connection has
\* told about are announced as online to all registered services.
Ready(i) ==
    /\ AppReady(i)
    /\ remote_peers' = [j \in Slots |->
                           IF j \in ReachedBy(RegisteredWsids)
                           THEN remote_peers[j] \cup ReadyAnnounces
                           ELSE remote_peers[j]]
    /\ revived' = revived \cup {p \in ReadyAnnounces :
                                   p[2] \notin offered[p[1]]}
    /\ UNCHANGED <<remoteVars, connection, asked, subscribed, wire, known>>

\* The service in slot i goes away with its picture.
Gone(i) ==
    /\ AppGone(i)
    /\ remote_peers' = [remote_peers EXCEPT ![i] = {}]
    /\ UNCHANGED <<remoteVars, connection, asked, subscribed, wire, known,
                   revived>>

AppStep ==
    \/ Accept /\ UNCHANGED <<peerVars, remoteVars>>
    \/ \E i \in Slots, w \in Wsids :
           Login(i, w) /\ UNCHANGED <<peerVars, remoteVars>>
    \/ \E i \in Slots : Ready(i)
    \/ \E i \in Slots : Request(i) /\ UNCHANGED <<peerVars, remoteVars>>
    \/ \E i \in Slots : Gone(i)

ConnectionStep ==
    \E c \in Conns :
        \/ \E h \in Hosts : Connect(c, h)
        \/ PeersOp(c)
        \/ PeersCallback(c)
        \/ Disconnect(c)

RemoteStep ==
    \E h \in Hosts, s \in Services :
        RemoteLogin(h, s) \/ RemoteReady(h, s) \/ RemoteGone(h, s)

Next == AppStep \/ ConnectionStep \/ RemoteStep

Spec == Init /\ [][Next]_vars
-----------------------------------------------------------------------------
(* What the services may rely on.                                           *)

\* A peer that a service takes to be online is on a host that is connected:
\* "Connection to the peer's remote wish core is broken.  In that case the
\* local core must send the offline message" (wish_core_rpc.c).  It relates
\* the pictures of all services to the lists of all connections.
OnlineIsConnected ==
    \A i \in Slots : \A p \in remote_peers[i] :
        \E c \in Conns : connection[c] = p[1] /\ p[2] \in known[c]

\* A service that is ready and a remote service that is ready.
Matching(i, h, s) == /\ i \in ready /\ Registered(apps[i])
                     /\ s \in announced[h]
                     /\ protocolOf[apps[i]] = protocolAt[s]

\* Nothing is under way on c in either direction.
Quiet(c) == Connected(c) /\ c \notin asked /\ wire[c] = <<>>

\* Once nothing is under way, every ready service knows every ready service
\* of its protocol on a connected host, in whatever order the connection, the
\* two logins and the two readies happened.
NothingMissed ==
    \A c \in Conns, i \in Slots, s \in Services :
        (Quiet(c) /\ Matching(i, connection[c], s))
            => <<connection[c], s>> \in remote_peers[i]

\* Once nothing is under way, a service takes a peer of its protocol to be
\* online only if it is registered there; the exception is a peer that was
\* announced anew, to all services, after it had gone (Ready reads a list
\* from which nothing is removed).
NoGhostPeers ==
    \A c \in Conns, i \in Slots, s \in Services :
        (/\ Quiet(c) /\ <<connection[c], s>> \in remote_peers[i]
         /\ protocolOf[apps[i]] = protocolAt[s])
            => \/ s \in offered[connection[c]]
               \/ <<connection[c], s>> \in revived
=============================================================================
