------------------------- MODULE PeerSignalsProofs -------------------------
(***************************************************************************)
(* What the services of a core may rely on, proved for every number of     *)
(* slots, entries, services, hosts and connections.                        *)
(*                                                                         *)
(* The type and the open requests need no condition.  What services know   *)
(* about each other needs that no service is logged in twice               *)
(* (~DuplicateLogins), and what they know about other cores that no user   *)
(* is connected more than once (~Parallel); with either the properties     *)
(* fail.                                                                   *)
(***************************************************************************)
EXTENDS PeerSignals, TLAPS, FiniteSetTheorems

\* How the state of a connection hangs together: a slot that is FREE has
\* nothing, one that waits for the answer to "peers" has heard nothing yet.
Shape ==
    /\ \A c \in Conns :
           /\ ~Connected(c) => /\ wire[c] = <<>> /\ known[c] = {}
                               /\ c \notin asked /\ c \notin subscribed
           /\ c \in asked => /\ wire[c] = <<>> /\ known[c] = {}
                             /\ c \notin subscribed
           /\ Connected(c) => c \in asked \cup subscribed
    /\ \A h \in Hosts : announced[h] \subseteq offered[h]

TypeInv == PeersTypeOK /\ Shape

\* The answer to a peers request is a sequence of messages, each about a
\* registered service as online, and every registered service is in it.
LEMMA AnswerLemma ==
    ASSUME PeersTypeOK, NEW h \in Hosts, NEW a \in Answer(h)
    PROVE  /\ a \in Seq(Message)
           /\ \A n \in DOMAIN a : a[n].service \in offered[h] /\ a[n].online
           /\ \A s \in offered[h] : \E n \in DOMAIN a : a[n].service = s
<1> DEFINE k == Cardinality(offered[h])
<1>1. offered[h] \in SUBSET Services
  BY DEF PeersTypeOK
<1>2. IsFiniteSet(offered[h])
  BY <1>1, FS_Subset, PeerSignalsAssumption
<1>3. k \in Nat
  BY <1>2, FS_CardinalityType
<1>4. PICK q \in [1 .. k -> offered[h]] :
         /\ \A s \in offered[h] : \E n \in DOMAIN q : q[n] = s
         /\ a = [n \in 1 .. k |-> [service |-> q[n], online |-> TRUE]]
  BY DEF Answer
<1>5. a \in [1 .. k -> Message]
  BY <1>1, <1>4 DEF Message
<1>6. a \in Seq(Message)
  BY <1>3, <1>5
<1> QED
  BY <1>4, <1>6

\* Types and the shape of connections are kept by the steps of services.
LEMMA TypeAppStep ==
    ASSUME TypeInv, AppStep
    PROVE  TypeInv'
<1> USE AppServicesAssumption, PeerSignalsAssumption
<1> USE DEF TypeInv, PeersTypeOK, ServicesTypeOK, Shape, Connected
<1>1. CASE Accept /\ UNCHANGED <<peerVars, remoteVars>>
  BY <1>1 DEF Accept, peerVars, remoteVars
<1>2. CASE \E i \in Slots, w \in Wsids :
              Login(i, w) /\ UNCHANGED <<peerVars, remoteVars>>
  <2> PICK i \in Slots, w \in Wsids :
           Login(i, w) /\ UNCHANGED <<peerVars, remoteVars>>
    BY <1>2
  <2>1. /\ registry' \in [Entries -> Wsids \cup {NoWsid}]
        /\ \A e, f \in Entries :
               (registry'[e] = registry'[f] /\ registry'[e] # NoWsid)
                   => e = f
    <3>1. CASE UNCHANGED registry
      BY <3>1
    <3>2. CASE ~UNCHANGED registry
      <4>1. PICK e \in Entries : registry' = [registry EXCEPT ![e] = w]
        BY <3>2 DEF Login, RegisterAdd
      <4>2. \A f \in Entries : registry[f] # w
        BY <3>2 DEF Login, RegisterAdd, Registered
      <4> QED
        BY <4>1, <4>2
    <3> QED
      BY <3>1, <3>2
  <2>2. /\ apps' \in [Slots -> Wsids \cup {NoWsid}]
        /\ \A j \in Slots : app_states'[j] = "INITIAL" => apps'[j] = NoWsid
    BY DEF Login
  <2> QED
    BY <2>1, <2>2 DEF Login, peerVars, remoteVars
<1>3. CASE \E i \in Slots : Ready(i)
  <2> PICK i \in Slots : Ready(i)
    BY <1>3
  <2>1. local_peers' \in [Slots -> SUBSET Wsids]
    BY DEF Ready, AppReady, LocalAudience, RegisteredWsids, Registered
  <2>2. ReadyAnnounces \subseteq Peers
    BY DEF ReadyAnnounces, PeersKnown
  <2>3. /\ remote_peers' \in [Slots -> SUBSET Peers]
        /\ revived' \subseteq Peers
    BY <2>2 DEF Ready
  <2>4. ready' \subseteq Slots
    BY DEF Ready, AppReady
  <2> QED
    BY <2>1, <2>3, <2>4 DEF Ready, AppReady, remoteVars
<1>4. CASE \E i \in Slots : Request(i) /\ UNCHANGED <<peerVars, remoteVars>>
  BY <1>4 DEF Request, peerVars, remoteVars
<1>5. CASE \E i \in Slots : Gone(i)
  <2> PICK i \in Slots : Gone(i)
    BY <1>5
  <2>1. local_peers' \in [Slots -> SUBSET Wsids]
    BY DEF Gone, AppGone, OfflineLocals
  <2>2. /\ registry' \in [Entries -> Wsids \cup {NoWsid}]
        /\ requests' \subseteq [context : Entries, sender : Wsids]
        /\ \A e, f \in Entries :
               (registry'[e] = registry'[f] /\ registry'[e] # NoWsid)
                   => e = f
    BY DEF Gone, AppGone, CleanupRequests
  <2>3. remote_peers' \in [Slots -> SUBSET Peers]
    BY DEF Gone
  <2>4. /\ ready' \subseteq Slots
        /\ apps' \in [Slots -> Wsids \cup {NoWsid}]
        /\ app_states' \in [Slots -> {"INITIAL", "CONNECTED"}]
        /\ \A j \in Slots : app_states'[j] = "INITIAL" => apps'[j] = NoWsid
    BY DEF Gone, AppGone, Vacated
  <2> QED
    BY <2>1, <2>2, <2>3, <2>4 DEF Gone, remoteVars
<1> QED
  BY <1>1, <1>2, <1>3, <1>4, <1>5 DEF AppStep

\* ... by the steps of remote cores ...
LEMMA TypeRemoteStep ==
    ASSUME TypeInv, RemoteStep
    PROVE  TypeInv'
<1> USE AppServicesAssumption, PeerSignalsAssumption
<1> USE DEF TypeInv, PeersTypeOK, Shape, Connected
<1> PICK h \in Hosts, s \in Services :
         RemoteLogin(h, s) \/ RemoteReady(h, s) \/ RemoteGone(h, s)
  BY DEF RemoteStep
<1>1. ServicesTypeOK'
  BY DEF ServicesTypeOK, RemoteLogin, RemoteReady, RemoteGone, appVars,
         Registered
<1>2. ASSUME NEW m \in Message, Broadcast(h, m), UNCHANGED connection,
             UNCHANGED subscribed
      PROVE  /\ wire' \in [Conns -> Seq(Message)]
             /\ \A c \in Conns : c \notin subscribed => wire'[c] = wire[c]
  BY <1>2 DEF Broadcast
<1>3. /\ [service |-> s, online |-> TRUE] \in Message
      /\ [service |-> s, online |-> FALSE] \in Message
  BY DEF Message
<1>4. CASE RemoteLogin(h, s)
  BY <1>1, <1>4 DEF RemoteLogin, peerVars
<1>5. CASE RemoteReady(h, s)
  BY <1>1, <1>2, <1>3, <1>5 DEF RemoteReady
<1>6. CASE RemoteGone(h, s)
  BY <1>1, <1>2, <1>3, <1>6 DEF RemoteGone
<1> QED
  BY <1>4, <1>5, <1>6

\* ... and by those of connections.
LEMMA TypeConnectionStep ==
    ASSUME TypeInv, ConnectionStep
    PROVE  TypeInv'
<1> USE AppServicesAssumption, PeerSignalsAssumption
<1> USE DEF TypeInv, PeersTypeOK, Shape, Connected
<1> PICK c \in Conns : \/ \E h \in Hosts : Connect(c, h)
                       \/ PeersOp(c)
                       \/ PeersCallback(c)
                       \/ Disconnect(c)
  BY DEF ConnectionStep
<1>1. ServicesTypeOK'
  BY DEF ServicesTypeOK, Connect, PeersOp, PeersCallback, Disconnect,
         appVars
<1>2. CASE \E h \in Hosts : Connect(c, h)
  BY <1>1, <1>2 DEF Connect, remoteVars
<1>3. CASE PeersOp(c)
  <2>1. connection[c] \in Hosts
    BY <1>3 DEF PeersOp
  <2>2. PICK a \in Answer(connection[c]) :
           wire' = [wire EXCEPT ![c] = @ \o a]
    BY <1>3 DEF PeersOp
  <2>3. wire' \in [Conns -> Seq(Message)]
    BY <2>1, <2>2, AnswerLemma
  <2> QED
    BY <1>1, <1>3, <2>1, <2>2, <2>3 DEF PeersOp, remoteVars
<1>4. CASE PeersCallback(c)
  <2> DEFINE m == Head(wire[c])
  <2>1. connection[c] \in Hosts
    BY <1>4 DEF PeersCallback
  <2>2. m \in Message /\ Tail(wire[c]) \in Seq(Message)
    BY <1>4 DEF PeersCallback
  <2>3. known' \in [Conns -> SUBSET Services]
    BY <1>4, <2>2 DEF PeersCallback, Remember, Message
  <2>4. remote_peers' \in [Slots -> SUBSET Peers]
    <3> DEFINE peer == <<connection[c], m.service>>
    <3>1. peer \in Peers
      BY <2>1, <2>2 DEF Message, Peers
    <3> QED
      BY <1>4, <3>1 DEF PeersCallback, PassOn
  <2>5. wire' \in [Conns -> Seq(Message)]
    BY <1>4, <2>2 DEF PeersCallback
  <2> QED
    BY <1>1, <1>4, <2>1, <2>3, <2>4, <2>5
    DEF PeersCallback, Remember, remoteVars
<1>5. CASE Disconnect(c)
  <2>1. remote_peers' \in [Slots -> SUBSET Peers] /\ revived' \subseteq Peers
    <3>1. CASE OfflineSignals(c)
      <4> DEFINE gone == PeersKnown({c})
      <4>1. /\ remote_peers' = [i \in Slots |->
                  IF i \in ReachedBy(RegisteredWsids)
                  THEN remote_peers[i] \ gone ELSE remote_peers[i]]
            /\ revived' = revived \ gone
        BY <1>5, <3>1 DEF Disconnect
      <4> HIDE DEF gone
      <4> QED
        BY <4>1
    <3>2. CASE ~OfflineSignals(c)
      BY <1>5, <3>2 DEF Disconnect
    <3> QED
      BY <3>1, <3>2
  <2>2. connection' \in [Conns -> Hosts \cup {NoHost}]
    BY <1>5 DEF Disconnect
  <2>3. wire' \in [Conns -> Seq(Message)]
    BY <1>5 DEF Disconnect
  <2>4. known' \in [Conns -> SUBSET Services]
    BY <1>5 DEF Disconnect
  <2> QED
    BY <1>1, <1>5, <2>1, <2>2, <2>3, <2>4 DEF Disconnect, remoteVars
<1> QED
  BY <1>2, <1>3, <1>4, <1>5

\* The inductive invariant behind it ...
LEMMA TypeInvariant == Spec => []TypeInv
<1>1. Init => TypeInv
  BY AppServicesAssumption, PeerSignalsAssumption
  DEF Init, ServicesInit, TypeInv, PeersTypeOK, ServicesTypeOK, Shape,
      Connected
<1>2. TypeInv /\ [Next]_vars => TypeInv'
  <2> SUFFICES ASSUME TypeInv, [Next]_vars PROVE TypeInv'
    OBVIOUS
  <2>1. CASE Next
    BY <2>1, TypeAppStep, TypeRemoteStep, TypeConnectionStep DEF Next
  <2>2. CASE UNCHANGED vars
    BY <2>2 DEF vars, appVars, peerVars, remoteVars, TypeInv, PeersTypeOK,
                ServicesTypeOK, Shape, Connected
  <2> QED
    BY <2>1, <2>2
<1> QED
  BY <1>1, <1>2, PTL DEF Spec

\* The state of services and connections has its type, whatever services,
\* remote cores and the network do.
THEOREM PeersType == Spec => []PeersTypeOK
<1>1. TypeInv => PeersTypeOK
  BY DEF TypeInv
<1> QED
  BY <1>1, TypeInvariant, PTL
-----------------------------------------------------------------------------
(* Requests of services.                                                    *)

\* Entries are taken only when free and freed only with their requests.
LEMMA RequestsStep ==
    ASSUME PeersTypeOK, RequestsHaveApps, [Next]_vars
    PROVE  RequestsHaveApps'
<1> USE AppServicesAssumption
<1> USE DEF PeersTypeOK, ServicesTypeOK, RequestsHaveApps
<1>1. CASE AppStep
  <2>1. CASE Accept
    BY <2>1 DEF Accept
  <2>2. CASE \E i \in Slots, w \in Wsids : Login(i, w)
    BY <2>2 DEF Login, RegisterAdd
  <2>3. CASE \E i \in Slots : Ready(i)
    BY <2>3 DEF Ready, AppReady
  <2>4. CASE \E i \in Slots : Request(i)
    BY <2>4 DEF Request
  <2>5. CASE \E i \in Slots : Gone(i)
    BY <2>5 DEF Gone, AppGone, CleanupRequests
  <2> QED
    BY <1>1, <2>1, <2>2, <2>3, <2>4, <2>5 DEF AppStep
<1>2. CASE ConnectionStep
  BY <1>2 DEF ConnectionStep, Connect, PeersOp, PeersCallback, Disconnect,
              appVars
<1>3. CASE RemoteStep
  BY <1>3 DEF RemoteStep, RemoteLogin, RemoteReady, RemoteGone, appVars
<1>4. CASE UNCHANGED vars
  BY <1>4 DEF vars, appVars
<1> QED
  BY <1>1, <1>2, <1>3, <1>4 DEF Next

\* No request of a service outlives its registration: what the core sends on
\* it never reaches a service that took over the entry.
THEOREM RequestsSafety == Spec => []RequestsHaveApps
<1>1. Init => RequestsHaveApps
  BY DEF Init, ServicesInit, RequestsHaveApps
<1>2. PeersTypeOK /\ RequestsHaveApps /\ [Next]_vars => RequestsHaveApps'
  BY RequestsStep
<1> QED
  BY <1>1, <1>2, PeersType, PTL DEF Spec
-----------------------------------------------------------------------------
(* Services of this core.                                                   *)

\* No wsid is in two slots; whoever has said or heard anything is registered
\* (and so reached by what the core sends); a service only hears about others
\* of its protocol.
OneLogin ==
    \A i, j \in Slots : (apps[i] = apps[j] /\ apps[i] # NoWsid) => i = j

Live(i) == i \in ready \/ local_peers[i] # {} \/ remote_peers[i] # {}

LiveRegistered == \A i \in Slots : Live(i) => Registered(apps[i])

LocalMatch ==
    \A i \in Slots : \A w \in local_peers[i] :
        w # apps[i] /\ SameProtocol(w, apps[i])

ServiceInv == /\ TypeInv
              /\ OneLogin
              /\ LiveRegistered
              /\ LocalMatch
              /\ LocalPeersExact

\* With one login per wsid, a message for ws reaches exactly their slots.
LEMMA ReachedLemma ==
    ASSUME ServicesTypeOK, OneLogin, NEW ws \in SUBSET Wsids,
           NEW i \in Slots
    PROVE  i \in ReachedBy(ws) <=> apps[i] \in ws
<1> USE AppServicesAssumption
<1>1. ASSUME apps[i] \in ws PROVE i \in ReachedBy(ws)
  <2>1. Reaches(apps[i], i)
    BY <1>1 DEF Reaches, OneLogin, Slots, ServicesTypeOK
  <2> QED
    BY <1>1, <2>1 DEF ReachedBy
<1> QED
  BY <1>1 DEF ReachedBy, Reaches

\* A login registers at most its own wsid.
LEMMA LoginLemma ==
    ASSUME ServicesTypeOK, NEW i \in Slots, NEW w \in Wsids, Login(i, w),
           NEW v \in Wsids
    PROVE  /\ Registered(v) => Registered(v)'
           /\ Registered(v)' => Registered(v) \/ v = w
<1> USE AppServicesAssumption DEF ServicesTypeOK
<1>1. CASE UNCHANGED registry
  BY <1>1 DEF Registered
<1>2. CASE ~UNCHANGED registry
  <2>1. PICK e \in Entries : /\ registry[e] = NoWsid
                             /\ registry' = [registry EXCEPT ![e] = w]
    BY <1>2 DEF Login, RegisterAdd
  <2> QED
    BY <2>1 DEF Registered
<1> QED
  BY <1>1, <1>2

\* What a service that is ready hears and what is said about it.
LEMMA ReadyLemma ==
    ASSUME ServicesTypeOK, OneLogin, NEW i \in Slots, AppReady(i),
           NEW j \in Slots, NEW v
    PROVE  v \in local_peers'[j] <=>
             \/ v \in local_peers[j]
             \/ /\ Registered(apps[i])
                /\ \/ i = j /\ v \in LocalAudience(apps[i])
                   \/ apps[j] \in LocalAudience(apps[i]) /\ v = apps[i]
<1> USE AppServicesAssumption
<1>1. CASE Registered(apps[i])
  <2> DEFINE w == apps[i]
             heard == IF j \in ReachedBy({w}) THEN LocalAudience(w) ELSE {}
             said == IF j \in ReachedBy(LocalAudience(w)) THEN {w} ELSE {}
  <2>1. local_peers'[j] = local_peers[j] \cup heard \cup said
    BY <1>1 DEF AppReady
  <2>2. w \in Wsids /\ LocalAudience(w) \in SUBSET Wsids
    BY <1>1 DEF Registered, ServicesTypeOK, LocalAudience, RegisteredWsids
  <2>3. j \in ReachedBy({w}) <=> i = j
    BY <2>2, ReachedLemma DEF OneLogin
  <2>4. j \in ReachedBy(LocalAudience(w)) <=> apps[j] \in LocalAudience(w)
    BY <2>2, ReachedLemma
  <2> QED
    BY <1>1, <2>1, <2>3, <2>4
<1>2. CASE ~Registered(apps[i])
  BY <1>2 DEF AppReady
<1> QED
  BY <1>1, <1>2

\* A service that goes is not registered any more; every other one is.
LEMMA GoneRegistry ==
    ASSUME ServicesTypeOK, NEW i \in Slots, AppGone(i), NEW v \in Wsids
    PROVE  Registered(v)' <=> Registered(v) /\ v # apps[i]
<1> USE AppServicesAssumption DEF ServicesTypeOK
<1>1. CASE Registered(apps[i])
  <2>1. PICK e \in Entries : /\ registry[e] = apps[i]
                             /\ registry' = [registry EXCEPT ![e] = NoWsid]
    BY <1>1 DEF AppGone
  <2>2. apps[i] # NoWsid
    BY <1>1 DEF Registered
  <2> QED
    BY <2>1, <2>2 DEF Registered
<1>2. CASE ~Registered(apps[i])
  BY <1>2 DEF AppGone, Registered
<1> QED
  BY <1>1, <1>2

\* What the others believe after a service has gone.
LEMMA GonePictures ==
    ASSUME ServicesTypeOK, OneLogin, NEW i \in Slots, AppGone(i),
           NEW j \in Slots, NEW v
    PROVE  v \in local_peers'[j] <=>
             /\ i # j /\ v \in local_peers[j]
             /\ ~(/\ v = apps[i] /\ Registered(apps[i])
                  /\ apps[j] \in LocalAudience(apps[i]))
<1>1. local_peers' = OfflineLocals(i)
  BY DEF AppGone
<1>2. LocalAudience(apps[i]) \in SUBSET Wsids
  BY DEF LocalAudience, RegisteredWsids
<1>3. j \in ReachedBy(LocalAudience(apps[i]))
          <=> apps[j] \in LocalAudience(apps[i])
  BY <1>2, ReachedLemma
<1> QED
  BY <1>1, <1>3 DEF OfflineLocals

\* The four ways a service acts keep what services know about each other ...
LEMMA ServiceAppStep ==
    ASSUME ~DuplicateLogins, ServiceInv, AppStep
    PROVE  OneLogin' /\ LiveRegistered' /\ LocalMatch' /\ LocalPeersExact'
<1> USE AppServicesAssumption
<1>t. ServicesTypeOK /\ ServicesTypeOK'
  BY TypeAppStep DEF ServiceInv, TypeInv, PeersTypeOK
<1> USE DEF ServiceInv, OneLogin, LiveRegistered, Live, LocalMatch,
            LocalPeersExact
<1>1. CASE Accept /\ UNCHANGED <<peerVars, remoteVars>>
  BY <1>1 DEF Accept, peerVars, Registered, RegisteredWsids
<1>2. CASE \E i \in Slots, w \in Wsids :
              Login(i, w) /\ UNCHANGED <<peerVars, remoteVars>>
  <2> PICK i \in Slots, w \in Wsids :
           Login(i, w) /\ UNCHANGED <<peerVars, remoteVars>>
    BY <1>2
  <2>1. \A v \in Wsids : Registered(v) => Registered(v)'
    BY <1>t, LoginLemma
  <2>2. /\ apps' = [apps EXCEPT ![i] = w]
        /\ apps[i] \in {NoWsid, w}
        /\ \A j \in Slots \ {i} : apps[j] # w
        /\ UNCHANGED <<ready, local_peers, remote_peers>>
    BY DEF Login, peerVars
  <2>3. OneLogin'
    BY <1>t, <2>2 DEF ServicesTypeOK
  <2>4. \A j \in Slots : Live(j) => apps'[j] = apps[j]
    BY <1>t, <2>2 DEF ServicesTypeOK, Registered
  <2>5. LiveRegistered'
    BY <1>t, <2>1, <2>2, <2>4 DEF ServicesTypeOK, Registered
  <2>6. LocalMatch'
    BY <2>2, <2>4 DEF SameProtocol
  <2>7. LocalPeersExact'
    <3>1. \A j \in Slots : local_peers'[j] \subseteq RegisteredWsids'
      BY <2>1, <2>2 DEF RegisteredWsids
    <3>2. \A j \in ready' : j \in Slots /\ apps'[j] = apps[j]
                            /\ Registered(apps[j])
      BY <1>t, <2>2, <2>4 DEF ServicesTypeOK
    <3> QED
      BY <2>2, <3>1, <3>2 DEF SameProtocol
  <2> QED
    BY <2>3, <2>5, <2>6, <2>7
<1>3. CASE \E i \in Slots : Ready(i)
  <2> PICK i \in Slots : Ready(i)
    BY <1>3
  <2>1. /\ AppReady(i)
        /\ UNCHANGED <<apps, registry>>
        /\ ready' = IF Registered(apps[i]) THEN ready \cup {i} ELSE ready
    BY DEF Ready, AppReady
  <2>2. \A j \in Slots : \A v :
           v \in local_peers'[j] <=>
             \/ v \in local_peers[j]
             \/ /\ Registered(apps[i])
                /\ \/ i = j /\ v \in LocalAudience(apps[i])
                   \/ apps[j] \in LocalAudience(apps[i]) /\ v = apps[i]
    BY <1>t, <2>1, ReadyLemma
  <2>3. \A v : Registered(v)' <=> Registered(v)
    BY <2>1 DEF Registered
  <2>4. RegisteredWsids' = RegisteredWsids
    BY <2>3 DEF RegisteredWsids
  <2>5. \A j \in Slots : remote_peers'[j] # {} =>
           remote_peers[j] # {} \/ apps[j] \in RegisteredWsids
    <3>1. RegisteredWsids \in SUBSET Wsids
      BY DEF RegisteredWsids
    <3>2. \A j \in Slots : j \in ReachedBy(RegisteredWsids)
                              <=> apps[j] \in RegisteredWsids
      BY <1>t, <3>1, ReachedLemma
    <3>3. \A j \in Slots : remote_peers'[j] =
             IF j \in ReachedBy(RegisteredWsids)
             THEN remote_peers[j] \cup ReadyAnnounces ELSE remote_peers[j]
      BY DEF Ready
    <3> QED
      BY <3>2, <3>3
  <2>6. LiveRegistered'
    BY <2>1, <2>2, <2>3, <2>5 DEF LocalAudience, RegisteredWsids
  <2>7. LocalMatch'
    BY <2>1, <2>2 DEF LocalAudience, SameProtocol
  <2>8. LocalPeersExact'
    <3>1. \A j \in Slots : local_peers'[j] \subseteq RegisteredWsids'
      BY <1>t, <2>2, <2>4 DEF LocalAudience, RegisteredWsids,
                              ServicesTypeOK, Registered
    <3>2. ASSUME NEW j \in ready', NEW k \in ready',
                 apps'[j] # apps'[k],
                 Registered(apps[j]), Registered(apps[k]),
                 SameProtocol(apps'[j], apps'[k])
          PROVE  apps'[k] \in local_peers'[j]
      <4>1. j \in Slots /\ k \in Slots /\ apps[j] # apps[k]
            /\ SameProtocol(apps[j], apps[k])
        BY <1>t, <2>1, <3>2 DEF ServicesTypeOK, SameProtocol
      <4>2. CASE j \in ready /\ k \in ready
        BY <2>1, <2>2, <3>2, <4>1, <4>2
      <4>3. CASE j = i /\ Registered(apps[i])
        <5>1. apps[k] \in LocalAudience(apps[i])
          BY <1>t, <3>2, <4>1, <4>3
          DEF LocalAudience, RegisteredWsids, SameProtocol, ServicesTypeOK,
              Registered
        <5> QED
          BY <2>1, <2>2, <4>1, <4>3, <5>1
      <4>4. CASE k = i /\ Registered(apps[i])
        <5>1. apps[j] \in LocalAudience(apps[i])
          BY <1>t, <3>2, <4>1, <4>4
          DEF LocalAudience, RegisteredWsids, SameProtocol, ServicesTypeOK,
              Registered
        <5> QED
          BY <2>1, <2>2, <4>1, <4>4, <5>1
      <4> QED
        BY <2>1, <4>2, <4>3, <4>4
    <3> QED
      BY <2>1, <2>3, <3>1, <3>2
  <2> QED
    BY <2>1, <2>6, <2>7, <2>8
<1>4. CASE \E i \in Slots : Request(i) /\ UNCHANGED <<peerVars, remoteVars>>
  BY <1>4 DEF Request, peerVars, Registered, RegisteredWsids
<1>5. CASE \E i \in Slots : Gone(i)
  <2> PICK i \in Slots : Gone(i)
    BY <1>5
  <2>1. /\ AppGone(i)
        /\ apps' = [apps EXCEPT ![i] = NoWsid]
        /\ ready' = ready \ {i}
        /\ remote_peers' = [remote_peers EXCEPT ![i] = {}]
    BY DEF Gone, AppGone, Vacated
  <2>2. \A v \in Wsids : Registered(v)' <=> Registered(v) /\ v # apps[i]
    BY <1>t, <2>1, GoneRegistry
  <2>3. \A j \in Slots : \A v :
           v \in local_peers'[j] <=>
             /\ i # j /\ v \in local_peers[j]
             /\ ~(/\ v = apps[i] /\ Registered(apps[i])
                  /\ apps[j] \in LocalAudience(apps[i]))
    BY <1>t, <2>1, GonePictures
  <2>4. OneLogin'
    BY <1>t, <2>1 DEF ServicesTypeOK
  <2>5. \A j \in Slots : j # i => apps'[j] = apps[j]
    BY <1>t, <2>1 DEF ServicesTypeOK
  <2>6. \A j \in Slots : (j # i /\ Registered(apps[j]))
                            => Registered(apps[j])'
    <3> SUFFICES ASSUME NEW j \in Slots, j # i, Registered(apps[j])
                 PROVE  Registered(apps[j])'
      OBVIOUS
    <3>1. apps[j] \in Wsids /\ apps[j] # apps[i]
      BY <1>t DEF ServicesTypeOK, Registered
    <3>2. Registered(apps[j]) = \E e \in Entries : registry[e] = apps[j]
      BY <1>t, <3>1 DEF Registered
    <3>3. apps'[j] = apps[j]
      BY <2>5
    <3> QED
      BY <2>2, <3>1, <3>3 DEF Registered
  <2>7. LiveRegistered'
    <3>1. \A j \in Slots : Live(j)' => j # i /\ Live(j)
      <4> SUFFICES ASSUME NEW j \in Slots, Live(j)'
                   PROVE  j # i /\ Live(j)
        OBVIOUS
      <4>1. CASE j \in ready'
        BY <2>1, <4>1
      <4>2. CASE local_peers'[j] # {}
        <5> PICK v : v \in local_peers'[j]
          BY <4>2
        <5> QED
          BY <2>3
      <4>3. CASE remote_peers'[j] # {}
        <5>1. remote_peers \in [Slots -> SUBSET Peers]
          BY DEF TypeInv, PeersTypeOK
        <5> QED
          BY <2>1, <4>3, <5>1
      <4> QED
        BY <4>1, <4>2, <4>3
    <3> QED
      BY <2>6, <3>1
  <2>8. LocalMatch'
    BY <2>3, <2>5 DEF SameProtocol
  <2>9. LocalPeersExact'
    <3>1. ASSUME NEW j \in Slots, NEW v \in local_peers'[j]
          PROVE  v \in RegisteredWsids'
      <4>1. j # i /\ v \in local_peers[j] /\ v \in Wsids /\ Registered(v)
        BY <1>t, <2>3, <3>1 DEF RegisteredWsids
      <4>2. apps[j] \in RegisteredWsids /\ v # apps[j]
            /\ SameProtocol(v, apps[j])
        BY <1>t, <4>1 DEF RegisteredWsids, ServicesTypeOK, Registered
      <4>3. v # apps[i]
        BY <2>3, <3>1, <4>1, <4>2
        DEF LocalAudience, SameProtocol
      <4> QED
        BY <2>2, <4>1, <4>3 DEF RegisteredWsids
    <3>2. ASSUME NEW j \in ready', NEW k \in ready',
                 apps'[j] # apps'[k],
                 SameProtocol(apps'[j], apps'[k])
          PROVE  apps'[k] \in local_peers'[j]
      <4>1. /\ j \in Slots /\ k \in Slots /\ j # i /\ k # i
            /\ j \in ready /\ k \in ready
        BY <1>t, <2>1, <3>2 DEF ServicesTypeOK
      <4>2. Registered(apps[j]) /\ Registered(apps[k])
        BY <4>1
      <4>3. apps[k] \in local_peers[j]
        BY <2>5, <3>2, <4>1, <4>2 DEF SameProtocol
      <4>4. apps[k] # apps[i]
        BY <1>t, <4>1, <4>2 DEF Registered
      <4> QED
        BY <2>3, <2>5, <4>1, <4>3, <4>4
    <3> QED
      BY <3>1, <3>2
  <2> QED
    BY <2>4, <2>7, <2>8, <2>9
<1> QED
  BY <1>1, <1>2, <1>3, <1>4, <1>5 DEF AppStep

\* ... and so does everything else: only services that are reached, and so
\* registered, hear anything.
LEMMA ServiceOtherStep ==
    ASSUME ServiceInv, ConnectionStep \/ RemoteStep \/ UNCHANGED vars
    PROVE  OneLogin' /\ LiveRegistered' /\ LocalMatch' /\ LocalPeersExact'
<1> USE AppServicesAssumption
<1>1. UNCHANGED appVars
  BY DEF ConnectionStep, Connect, PeersOp, PeersCallback, Disconnect,
         RemoteStep, RemoteLogin, RemoteReady, RemoteGone, vars
<1>2. \A j \in Slots : remote_peers'[j] # {} =>
         remote_peers[j] # {} \/ apps[j] \in RegisteredWsids
  <2>1. \A p : \A j \in Slots : j \in ReachedBy(PeerAudience(p))
                                   => apps[j] \in RegisteredWsids
    BY DEF ReachedBy, Reaches, PeerAudience
  <2>2. CASE UNCHANGED remote_peers
    BY <2>2
  <2>3. ASSUME NEW c \in Conns, PeersCallback(c)
        PROVE  \A j \in Slots : remote_peers'[j] # {} =>
                  remote_peers[j] # {} \/ apps[j] \in RegisteredWsids
    BY <2>1, <2>3 DEF PeersCallback, PassOn
  <2>4. ASSUME NEW c \in Conns, Disconnect(c)
        PROVE  \A j \in Slots : remote_peers'[j] # {} =>
                  remote_peers[j] # {}
    BY <2>4 DEF Disconnect
  <2> QED
    BY <2>2, <2>3, <2>4
    DEF ConnectionStep, Connect, PeersOp, RemoteStep, RemoteLogin,
        RemoteReady, RemoteGone, vars, peerVars
<1>3. \A v : Registered(v)' <=> Registered(v)
  BY <1>1 DEF appVars, Registered
<1>4. RegisteredWsids' = RegisteredWsids
  BY <1>3 DEF RegisteredWsids
<1>5. LiveRegistered'
  BY <1>1, <1>2, <1>3 DEF ServiceInv, LiveRegistered, Live, appVars,
                          RegisteredWsids
<1> QED
  BY <1>1, <1>3, <1>4, <1>5
  DEF ServiceInv, OneLogin, LocalMatch, LocalPeersExact, SameProtocol,
      appVars

\* The invariant of the services, for every behaviour without double logins.
LEMMA ServiceInvariant == ~DuplicateLogins => (Spec => []ServiceInv)
<1> SUFFICES ASSUME ~DuplicateLogins PROVE Spec => []ServiceInv
  OBVIOUS
<1>1. Init /\ TypeInv => ServiceInv
  BY DEF Init, ServicesInit, ServiceInv, OneLogin, LiveRegistered, Live,
         LocalMatch, LocalPeersExact
<1>2. ServiceInv /\ TypeInv' /\ [Next]_vars => ServiceInv'
  BY ServiceAppStep, ServiceOtherStep DEF ServiceInv, Next
<1> QED
  BY <1>1, <1>2, TypeInvariant, PTL DEF Spec

\* As long as no service is logged in twice, services know exactly the
\* services of their own core: nobody who has gone, everybody who is ready.
THEOREM LocalSafety == ~DuplicateLogins => (Spec => []LocalPeersExact)
<1>1. ServiceInv => LocalPeersExact
  BY DEF ServiceInv
<1> QED
  BY <1>1, ServiceInvariant, PTL
-----------------------------------------------------------------------------
(* Services of other cores.                                                 *)

OnePerUser ==
    \A c, d \in Conns :
        (Connected(c) /\ Connected(d) /\ SameUser(c, d)) => c = d

\* The last that the messages in q say about s is that it is online (on), or
\* that it is not; all that they say about s is that.
LastSays(q, s, on) ==
    \E n \in DOMAIN q :
        /\ q[n].service = s
        /\ \A m \in DOMAIN q :
               (m >= n /\ q[m].service = s) => q[m].online = on

Only(q, s, on) == \A n \in DOMAIN q : q[n].service = s => q[n].online = on

\* Every ready service that matches s takes it to be online, or no service
\* of its protocol does.
Told(c, s) ==
    \A i \in Slots : Matching(i, connection[c], s)
                        => <<connection[c], s>> \in remote_peers[i]

Untold(c, s) ==
    \A i \in Slots : <<connection[c], s>> \in remote_peers[i]
                        => protocolOf[apps[i]] # protocolAt[s]

\* A service that is ready on a connected host is known, or will be when the
\* messages under way have arrived.
Knows(c, s) ==
    \/ c \in asked
    \/ LastSays(wire[c], s, TRUE)
    \/ s \in known[c] /\ Told(c, s) /\ Only(wire[c], s, TRUE)

WillKnow ==
    \A c \in Conns, s \in Services :
        (Connected(c) /\ s \in announced[connection[c]]) => Knows(c, s)

\* A service that has gone is not known any more, or will not be.
Forgets(c, s) ==
    \/ LastSays(wire[c], s, FALSE)
    \/ Untold(c, s) /\ Only(wire[c], s, FALSE)

WillForget ==
    \A c \in Conns, s \in Services :
        (/\ Connected(c)
         /\ s \notin offered[connection[c]]
         /\ <<connection[c], s>> \notin revived) => Forgets(c, s)

PeerInv == /\ ServiceInv
           /\ OnePerUser
           /\ OnlineIsConnected
           /\ WillKnow
           /\ WillForget

\* Messages leave at the front ...
LEMMA TailLemma ==
    ASSUME NEW q \in Seq(Message), q # <<>>, NEW s, NEW on
    PROVE  /\ Only(q, s, on) =>
                 /\ Only(Tail(q), s, on)
                 /\ Head(q).service = s => Head(q).online = on
           /\ LastSays(q, s, on) =>
                 \/ LastSays(Tail(q), s, on)
                 \/ /\ Head(q).service = s /\ Head(q).online = on
                    /\ Only(Tail(q), s, on)
<1>1. /\ Len(q) \in Nat \ {0} /\ DOMAIN q = 1 .. Len(q)
      /\ Head(q) = q[1]
      /\ DOMAIN Tail(q) = 1 .. (Len(q) - 1)
      /\ \A n \in DOMAIN Tail(q) : Tail(q)[n] = q[n + 1]
  OBVIOUS
<1>2. ASSUME Only(q, s, on)
      PROVE  /\ Only(Tail(q), s, on)
             /\ Head(q).service = s => Head(q).online = on
  BY <1>1, <1>2 DEF Only
<1>3. ASSUME LastSays(q, s, on), ~LastSays(Tail(q), s, on)
      PROVE  /\ Head(q).service = s /\ Head(q).online = on
             /\ Only(Tail(q), s, on)
  <2>1. PICK n \in 1 .. Len(q) :
           /\ q[n].service = s
           /\ \A m \in 1 .. Len(q) :
                 (m >= n /\ q[m].service = s) => q[m].online = on
    BY <1>1, <1>3 DEF LastSays
  <2>2. CASE n = 1
    BY <1>1, <2>1, <2>2 DEF Only
  <2>3. CASE n # 1
    <3>1. n - 1 \in DOMAIN Tail(q) /\ Tail(q)[n - 1] = q[n]
      BY <1>1, <2>3
    <3>2. \A m \in DOMAIN Tail(q) :
             (m >= n - 1 /\ Tail(q)[m].service = s) => Tail(q)[m].online = on
      BY <1>1, <2>1, <2>3
    <3> QED
      BY <1>3, <2>1, <3>1, <3>2 DEF LastSays
  <2> QED
    BY <2>2, <2>3
<1> QED
  BY <1>2, <1>3

\* ... and join at the end.
LEMMA AppendLemma ==
    ASSUME NEW q \in Seq(Message), NEW m \in Message, NEW s, NEW on
    PROVE  /\ m.service = s /\ m.online = on => LastSays(Append(q, m), s, on)
           /\ m.service # s =>
                 /\ Only(q, s, on) => Only(Append(q, m), s, on)
                 /\ LastSays(q, s, on) => LastSays(Append(q, m), s, on)
<1> DEFINE r == Append(q, m)
<1>1. /\ Len(q) \in Nat /\ DOMAIN q = 1 .. Len(q)
      /\ DOMAIN r = 1 .. (Len(q) + 1)
      /\ r[Len(q) + 1] = m
      /\ \A n \in DOMAIN q : r[n] = q[n]
  OBVIOUS
<1> HIDE DEF r
<1>2. ASSUME m.service = s, m.online = on PROVE LastSays(r, s, on)
  <2>1. Len(q) + 1 \in DOMAIN r
    BY <1>1
  <2>2. \A n \in DOMAIN r : n >= Len(q) + 1 => r[n] = m
    BY <1>1
  <2> QED
    BY <1>1, <1>2, <2>1, <2>2 DEF LastSays
<1>3. ASSUME m.service # s, Only(q, s, on) PROVE Only(r, s, on)
  BY <1>1, <1>3 DEF Only
<1>4. ASSUME m.service # s, LastSays(q, s, on) PROVE LastSays(r, s, on)
  <2>1. PICK n \in DOMAIN q :
           /\ q[n].service = s
           /\ \A k \in DOMAIN q :
                 (k >= n /\ q[k].service = s) => q[k].online = on
    BY <1>4 DEF LastSays
  <2>2. n \in DOMAIN r /\ r[n].service = s
    BY <1>1, <2>1
  <2>3. ASSUME NEW k \in DOMAIN r, k >= n, r[k].service = s
        PROVE  r[k].online = on
    BY <1>1, <1>4, <2>1, <2>3
  <2> QED
    BY <2>2, <2>3 DEF LastSays
<1> QED
  BY <1>2, <1>3, <1>4 DEF r

\* A peer is in PeersKnown(cs) if a connection in cs has told about it.
LEMMA KnownLemma ==
    ASSUME PeersTypeOK, NEW cs \in SUBSET Conns, NEW h \in Hosts,
           NEW s \in Services
    PROVE  <<h, s>> \in PeersKnown(cs)
              <=> \E c \in cs : connection[c] = h /\ s \in known[c]
<1>1. <<h, s>> \in Peers
  BY DEF Peers
<1>2. <<h, s>>[1] = h /\ <<h, s>>[2] = s
  OBVIOUS
<1> QED
  BY <1>1, <1>2 DEF PeersKnown, PeersTypeOK

\* What the steps that send peer messages do to the pictures.
LEMMA PassOnLemma ==
    ASSUME ServiceInv, NEW c \in Conns, PeersCallback(c), NEW j \in Slots,
           NEW p
    PROVE  LET m == Head(wire[c])
               peer == <<connection[c], m.service>>
               hears == apps[j] \in PeerAudience(protocolAt[m.service])
           IN p \in remote_peers'[j] <=>
                 \/ p \in remote_peers[j] /\ ~(hears /\ ~m.online /\ p = peer)
                 \/ hears /\ m.online /\ p = peer
<1> DEFINE m == Head(wire[c])
           peer == <<connection[c], m.service>>
           ws == PeerAudience(protocolAt[m.service])
<1>1. ws \in SUBSET Wsids
  BY DEF PeerAudience, RegisteredWsids
<1>2. j \in ReachedBy(ws) <=> apps[j] \in ws
  BY <1>1, ReachedLemma DEF ServiceInv, TypeInv, PeersTypeOK
<1>3. remote_peers'[j] =
         IF j \notin ReachedBy(ws) THEN remote_peers[j]
         ELSE IF m.online THEN remote_peers[j] \cup {peer}
              ELSE remote_peers[j] \ {peer}
  BY DEF PeersCallback, PassOn
<1> HIDE DEF m, peer, ws
<1>4. p \in remote_peers'[j] <=>
         \/ /\ p \in remote_peers[j]
            /\ ~(apps[j] \in ws /\ ~m.online /\ p = peer)
         \/ apps[j] \in ws /\ m.online /\ p = peer
  BY <1>2, <1>3
<1> QED
  BY <1>4 DEF m, peer, ws

LEMMA DisconnectLemma ==
    ASSUME ServiceInv, OnePerUser, NEW c \in Conns, Disconnect(c),
           NEW j \in Slots, NEW p
    PROVE  p \in remote_peers'[j] <=>
              p \in remote_peers[j] /\ p \notin PeersKnown({c})
<1> DEFINE gone == PeersKnown({c})
<1>1. OfflineSignals(c)
  BY DEF OfflineSignals, OtherConnectionFound, OnePerUser, Disconnect
<1>2. RegisteredWsids \in SUBSET Wsids
  BY DEF RegisteredWsids
<1>3. j \in ReachedBy(RegisteredWsids) <=> apps[j] \in RegisteredWsids
  BY <1>2, ReachedLemma DEF ServiceInv, TypeInv, PeersTypeOK
<1>4. remote_peers'[j] = IF j \in ReachedBy(RegisteredWsids)
                         THEN remote_peers[j] \ gone ELSE remote_peers[j]
  BY <1>1 DEF Disconnect
<1>5. remote_peers[j] # {} => apps[j] \in RegisteredWsids
  BY DEF ServiceInv, LiveRegistered, Live, RegisteredWsids, TypeInv,
         PeersTypeOK, ServicesTypeOK, Registered
<1> HIDE DEF gone
<1>6. p \in remote_peers'[j] <=> p \in remote_peers[j] /\ p \notin gone
  BY <1>3, <1>4, <1>5
<1> QED
  BY <1>6 DEF gone

LEMMA ReadyPeersLemma ==
    ASSUME ServiceInv, NEW i \in Slots, Ready(i), NEW j \in Slots, NEW p
    PROVE  p \in remote_peers'[j] <=>
              \/ p \in remote_peers[j]
              \/ apps[j] \in RegisteredWsids /\ p \in ReadyAnnounces
<1> DEFINE all == ReadyAnnounces
<1>1. RegisteredWsids \in SUBSET Wsids
  BY DEF RegisteredWsids
<1>2. j \in ReachedBy(RegisteredWsids) <=> apps[j] \in RegisteredWsids
  BY <1>1, ReachedLemma DEF ServiceInv, TypeInv, PeersTypeOK
<1>3. remote_peers'[j] = IF j \in ReachedBy(RegisteredWsids)
                         THEN remote_peers[j] \cup all ELSE remote_peers[j]
  BY DEF Ready
<1> HIDE DEF all
<1>4. p \in remote_peers'[j] <=>
         p \in remote_peers[j] \/ (apps[j] \in RegisteredWsids /\ p \in all)
  BY <1>2, <1>3
<1> QED
  BY <1>4 DEF all

\* One connection per user stays so, and who is taken to be online stays on
\* the list of a connection.
LEMMA OnlineStep ==
    ASSUME ~Parallel, ServiceInv, OnePerUser, OnlineIsConnected, [Next]_vars
    PROVE  OnePerUser' /\ OnlineIsConnected'
<1> USE PeerSignalsAssumption
<1>t. PeersTypeOK /\ Shape
  BY DEF ServiceInv, TypeInv
<1>1. CASE AppStep
  <2>1. UNCHANGED <<connection, known>>
    BY <1>1 DEF AppStep, peerVars, Ready, Gone
  <2>2. \A i \in Slots : \A p \in remote_peers'[i] :
           p \in remote_peers[i] \/ p \in ReadyAnnounces
    <3>1. ASSUME NEW i \in Slots, Ready(i)
          PROVE  \A j \in Slots : \A p \in remote_peers'[j] :
                    p \in remote_peers[j] \/ p \in ReadyAnnounces
      BY <3>1, ReadyPeersLemma
    <3>2. ASSUME NEW i \in Slots, Gone(i)
          PROVE  \A j \in Slots : \A p \in remote_peers'[j] :
                    p \in remote_peers[j]
      BY <1>t, <3>2 DEF Gone, PeersTypeOK
    <3>3. (\E i \in Slots : Ready(i) \/ Gone(i)) \/ UNCHANGED remote_peers
      BY <1>1 DEF AppStep, peerVars
    <3> QED
      BY <3>1, <3>2, <3>3
  <2>3. \A p \in ReadyAnnounces :
           \E c \in Conns : connection[c] = p[1] /\ p[2] \in known[c]
    BY DEF ReadyAnnounces, PeersKnown
  <2>4. \A i \in Slots : \A p \in remote_peers'[i] :
           \E c \in Conns : connection[c] = p[1] /\ p[2] \in known[c]
    BY <2>2, <2>3 DEF OnlineIsConnected
  <2> QED
    BY <2>1, <2>4 DEF OnePerUser, OnlineIsConnected, Connected, SameUser
<1>2. CASE ConnectionStep
  <2> PICK c \in Conns : \/ \E h \in Hosts : Connect(c, h)
                         \/ PeersOp(c)
                         \/ PeersCallback(c)
                         \/ Disconnect(c)
    BY <1>2 DEF ConnectionStep
  <2>1. CASE \E h \in Hosts : Connect(c, h)
    <3> PICK h \in Hosts : Connect(c, h)
      BY <2>1
    <3>1. /\ connection' = [connection EXCEPT ![c] = h]
          /\ connection[c] = NoHost
          /\ UNCHANGED <<known, remote_peers>>
          /\ \A d \in Conns : Connected(d)
                                 => userOf[connection[d]] # userOf[h]
      BY DEF Connect, Connected
    <3>2. OnePerUser'
      BY <1>t, <3>1 DEF OnePerUser, Connected, SameUser, PeersTypeOK
    <3>3. OnlineIsConnected'
      <4> SUFFICES ASSUME NEW i \in Slots, NEW p \in remote_peers[i]
                   PROVE  \E d \in Conns : /\ connection'[d] = p[1]
                                           /\ p[2] \in known[d]
        BY <3>1 DEF OnlineIsConnected
      <4>1. PICK d \in Conns : connection[d] = p[1] /\ p[2] \in known[d]
        BY DEF OnlineIsConnected
      <4>2. p[1] \in Hosts
        BY <1>t DEF PeersTypeOK, Peers
      <4>3. d # c
        BY <3>1, <4>1, <4>2
      <4> QED
        BY <1>t, <3>1, <4>1, <4>3 DEF PeersTypeOK
    <3> QED
      BY <3>2, <3>3
  <2>2. CASE PeersOp(c)
    BY <2>2 DEF PeersOp, OnePerUser, OnlineIsConnected, Connected, SameUser
  <2>3. CASE PeersCallback(c)
    <3> DEFINE m == Head(wire[c])
               peer == <<connection[c], m.service>>
    <3>1. UNCHANGED connection
          /\ known' = [known EXCEPT ![c] = @ \cup {m.service}]
      BY <2>3 DEF PeersCallback, Remember
    <3>2. \A i \in Slots : \A p \in remote_peers'[i] :
             p \in remote_peers[i] \/ p = peer
      BY <2>3, PassOnLemma
    <3>3. \A d \in Conns : known[d] \subseteq known'[d]
      BY <1>t, <3>1 DEF PeersTypeOK
    <3>4. m.service \in known'[c]
      BY <1>t, <3>1 DEF PeersTypeOK
    <3>5. peer[1] = connection[c] /\ peer[2] = m.service
      OBVIOUS
    <3> HIDE DEF peer, m
    <3>6. OnlineIsConnected'
      BY <3>1, <3>2, <3>3, <3>4, <3>5 DEF OnlineIsConnected
    <3> QED
      BY <3>1, <3>6 DEF OnePerUser, Connected, SameUser
  <2>4. CASE Disconnect(c)
    <3>1. /\ connection' = [connection EXCEPT ![c] = NoHost]
          /\ known' = [known EXCEPT ![c] = {}]
      BY <2>4 DEF Disconnect
    <3>2. OnePerUser'
      BY <1>t, <3>1 DEF OnePerUser, Connected, SameUser, PeersTypeOK
    <3>3. OnlineIsConnected'
      <4> SUFFICES ASSUME NEW i \in Slots, NEW p \in remote_peers'[i]
                   PROVE  \E d \in Conns : /\ connection'[d] = p[1]
                                           /\ p[2] \in known'[d]
        BY DEF OnlineIsConnected
      <4>1. p \in remote_peers[i] /\ p \notin PeersKnown({c})
        BY <2>4, DisconnectLemma
      <4>2. PICK d \in Conns : connection[d] = p[1] /\ p[2] \in known[d]
        BY <4>1 DEF OnlineIsConnected
      <4>3. /\ p[1] \in Hosts /\ p[2] \in Services
            /\ p = <<p[1], p[2]>>
        BY <1>t, <4>1 DEF PeersTypeOK, Peers
      <4>4. d # c
        BY <1>t, <4>1, <4>2, <4>3, KnownLemma
      <4> QED
        BY <1>t, <3>1, <4>2, <4>4 DEF PeersTypeOK
    <3> QED
      BY <3>2, <3>3
  <2> QED
    BY <2>1, <2>2, <2>3, <2>4
<1>3. CASE RemoteStep
  BY <1>3 DEF RemoteStep, RemoteLogin, RemoteReady, RemoteGone, peerVars,
              OnePerUser, OnlineIsConnected, Connected, SameUser
<1>4. CASE UNCHANGED vars
  BY <1>4 DEF vars, peerVars, OnePerUser, OnlineIsConnected, Connected,
              SameUser
<1> QED
  BY <1>1, <1>2, <1>3, <1>4 DEF Next

\* Services learn what there is to know and forget what has gone, whatever
\* the services of this core do ...
LEMMA PeerAppStep ==
    ASSUME PeerInv, AppStep
    PROVE  WillKnow' /\ WillForget'
<1> USE AppServicesAssumption, PeerSignalsAssumption
<1>t. PeersTypeOK /\ Shape /\ ServicesTypeOK
  BY DEF PeerInv, ServiceInv, TypeInv, PeersTypeOK
<1>1. UNCHANGED <<connection, asked, wire, known, offered, announced>>
  BY DEF AppStep, peerVars, remoteVars, Ready, Gone
<1>2. ASSUME NEW i \in Slots, Live(i)
      PROVE  /\ Registered(apps[i])
             /\ apps'[i] = apps[i] \/ remote_peers'[i] = {}
             /\ apps'[i] = apps[i] \/ i \notin ready'
  <2>1. Registered(apps[i])
    BY <1>2 DEF PeerInv, ServiceInv, LiveRegistered
  <2>2. ASSUME NEW j \in Slots, NEW w \in Wsids, Login(j, w)
        PROVE  apps'[i] = apps[i]
    BY <1>t, <2>1, <2>2 DEF Login, Registered, ServicesTypeOK
  <2>3. ASSUME NEW j \in Slots, Gone(j)
        PROVE  \/ apps'[i] = apps[i]
               \/ remote_peers'[i] = {} /\ i \notin ready'
    BY <1>t, <2>3 DEF Gone, AppGone, Vacated, ServicesTypeOK, PeersTypeOK
  <2> QED
    BY <2>1, <2>2, <2>3 DEF AppStep, Accept, Ready, AppReady, Request
<1>3. CASE \E i \in Slots : Ready(i)
  <2> PICK i \in Slots : Ready(i)
    BY <1>3
  <2>1. UNCHANGED <<apps, registry>>
        /\ revived' = revived \cup {p \in ReadyAnnounces :
                                       p[2] \notin offered[p[1]]}
    BY DEF Ready, AppReady
  <2>2. \A v : Registered(v)' <=> Registered(v)
    BY <2>1 DEF Registered
  <2>3. \A j \in Slots : \A p :
           p \in remote_peers'[j] <=>
              \/ p \in remote_peers[j]
              \/ apps[j] \in RegisteredWsids /\ p \in ReadyAnnounces
    BY ReadyPeersLemma DEF PeerInv
  <2>4. ASSUME NEW c \in Conns, NEW s \in Services, Connected(c)
        PROVE  <<connection[c], s>> \in ReadyAnnounces
                  <=> \E d \in Conns : /\ connection[d] = connection[c]
                                       /\ s \in known[d]
    <3>1. connection[c] \in Hosts
      BY <1>t, <2>4 DEF PeersTypeOK, Connected
    <3>2. {d \in Conns : Connected(d)} \in SUBSET Conns
      OBVIOUS
    <3> QED
      BY <1>t, <3>1, <3>2, KnownLemma DEF ReadyAnnounces, Connected
  <2>5. ASSUME NEW c \in Conns, NEW s \in Services, Connected(c),
               s \in known[c]
        PROVE  Told(c, s)'
    <3> SUFFICES ASSUME NEW j \in Slots, Matching(j, connection[c], s)'
                 PROVE  <<connection[c], s>> \in remote_peers'[j]
      BY <1>1 DEF Told
    <3>1. Registered(apps[j])
      BY <2>1, <2>2 DEF Matching
    <3>2. apps[j] \in RegisteredWsids
      BY <1>t, <3>1 DEF RegisteredWsids, ServicesTypeOK, Registered
    <3> QED
      BY <2>3, <2>4, <2>5, <3>2
  <2>6. WillKnow'
    BY <1>1, <2>5 DEF PeerInv, WillKnow, Knows, Connected
  <2>7. ASSUME NEW c \in Conns, NEW s \in Services, Connected(c),
               s \notin offered[connection[c]],
               <<connection[c], s>> \notin revived'
        PROVE  Forgets(c, s)'
    <3>1. <<connection[c], s>> \notin ReadyAnnounces
      BY <2>1, <2>7
    <3>2. \A j \in Slots : <<connection[c], s>> \in remote_peers'[j]
                              <=> <<connection[c], s>> \in remote_peers[j]
      BY <2>3, <3>1
    <3>3. Forgets(c, s)
      BY <2>1, <2>7 DEF PeerInv, WillForget
    <3> QED
      BY <1>1, <2>1, <3>2, <3>3 DEF Forgets, Untold
  <2>8. WillForget'
    BY <1>1, <2>7 DEF WillForget, Connected
  <2> QED
    BY <2>6, <2>8
<1>4. CASE ~\E i \in Slots : Ready(i)
  <2>1. /\ revived' = revived
        /\ \A j \in Slots : remote_peers'[j] = remote_peers[j]
                            \/ (remote_peers'[j] = {} /\ j \notin ready')
        /\ ready' \subseteq ready
    BY <1>t, <1>4 DEF AppStep, Gone, AppGone, Accept, Login, Request,
                      peerVars, PeersTypeOK, ServicesTypeOK
  <2>2. \A c \in Conns, s \in Services : Told(c, s) => Told(c, s)'
    <3> SUFFICES ASSUME NEW c \in Conns, NEW s \in Services, Told(c, s),
                        NEW j \in Slots, Matching(j, connection[c], s)'
                 PROVE  <<connection[c], s>> \in remote_peers'[j]
      BY <1>1 DEF Told
    <3>1. j \in ready' /\ j \in ready
      BY <2>1 DEF Matching
    <3>2. Registered(apps[j]) /\ apps'[j] = apps[j]
      BY <1>2, <3>1 DEF Live
    <3>3. Matching(j, connection[c], s)
      BY <1>1, <3>1, <3>2 DEF Matching
    <3> QED
      BY <2>1, <3>1, <3>3 DEF Told
  <2>3. \A c \in Conns, s \in Services : Untold(c, s) => Untold(c, s)'
    <3> SUFFICES ASSUME NEW c \in Conns, NEW s \in Services, Untold(c, s),
                        NEW j \in Slots,
                        <<connection[c], s>> \in remote_peers'[j]
                 PROVE  protocolOf[apps'[j]] # protocolAt[s]
      BY <1>1 DEF Untold
    <3>1. <<connection[c], s>> \in remote_peers[j]
      BY <2>1
    <3>2. apps'[j] = apps[j]
      BY <1>2, <3>1 DEF Live
    <3> QED
      BY <3>1, <3>2 DEF Untold
  <2>4. WillKnow'
    BY <1>1, <2>2 DEF PeerInv, WillKnow, Knows, Connected
  <2>5. WillForget'
    BY <1>1, <2>1, <2>3 DEF PeerInv, WillForget, Forgets, Connected
  <2> QED
    BY <2>4, <2>5
<1> QED
  BY <1>3, <1>4

\* ... whatever remote cores do ...
LEMMA PeerRemoteStep ==
    ASSUME PeerInv, RemoteStep
    PROVE  WillKnow' /\ WillForget'
<1> USE PeerSignalsAssumption
<1>t. PeersTypeOK /\ Shape
  BY DEF PeerInv, ServiceInv, TypeInv
<1> PICK h \in Hosts, t \in Services :
         RemoteLogin(h, t) \/ RemoteReady(h, t) \/ RemoteGone(h, t)
  BY DEF RemoteStep
<1>1. UNCHANGED <<appVars, connection, asked, subscribed, known,
                  remote_peers>>
  BY DEF RemoteLogin, RemoteReady, RemoteGone, peerVars
<1>2. ASSUME NEW c \in Conns, NEW s \in Services,
             announced'[connection[c]] = announced[connection[c]]
             \/ (connection[c] = h /\ s # t
                 /\ \A r \in Services : r # t =>
                       (r \in announced'[h] <=> r \in announced[h])),
             Told(c, s)
      PROVE  Told(c, s)'
  BY <1>1, <1>2 DEF Told, Matching, Registered, appVars
<1>3. ASSUME NEW c \in Conns, NEW s \in Services, Untold(c, s)
      PROVE  Untold(c, s)'
  BY <1>1, <1>3 DEF Untold, appVars
<1>4. ASSUME NEW m \in Message, Broadcast(h, m), m.service = t
      PROVE  \A c \in Conns :
                /\ c \in subscribed /\ connection[c] = h
                      => LastSays(wire'[c], t, m.online)
                /\ ~(c \in subscribed /\ connection[c] = h)
                      => wire'[c] = wire[c]
                /\ \A s \in Services, on \in BOOLEAN : s # t =>
                      /\ LastSays(wire[c], s, on) => LastSays(wire'[c], s, on)
                      /\ Only(wire[c], s, on) => Only(wire'[c], s, on)
  <2> SUFFICES ASSUME NEW c \in Conns
               PROVE
                /\ c \in subscribed /\ connection[c] = h
                      => LastSays(wire'[c], t, m.online)
                /\ ~(c \in subscribed /\ connection[c] = h)
                      => wire'[c] = wire[c]
                /\ \A s \in Services, on \in BOOLEAN : s # t =>
                      /\ LastSays(wire[c], s, on) => LastSays(wire'[c], s, on)
                      /\ Only(wire[c], s, on) => Only(wire'[c], s, on)
    OBVIOUS
  <2>1. wire'[c] = IF c \in subscribed /\ connection[c] = h
                   THEN Append(wire[c], m) ELSE wire[c]
    BY <1>4 DEF Broadcast
  <2>2. wire[c] \in Seq(Message)
    BY <1>t DEF PeersTypeOK
  <2>3. CASE c \in subscribed /\ connection[c] = h
    BY <1>4, <2>1, <2>2, <2>3, AppendLemma
  <2>4. CASE ~(c \in subscribed /\ connection[c] = h)
    BY <2>1, <2>4
  <2> QED
    BY <2>3, <2>4
<1>5. CASE RemoteLogin(h, t)
  <2>1. /\ UNCHANGED <<announced, wire, revived>>
        /\ \A g \in Hosts : offered[g] \subseteq offered'[g]
    BY <1>t, <1>5 DEF RemoteLogin, peerVars, PeersTypeOK
  <2>2. WillKnow'
    BY <1>1, <1>2, <2>1 DEF PeerInv, WillKnow, Knows, Connected
  <2>3. WillForget'
    <3> SUFFICES ASSUME NEW c \in Conns, NEW s \in Services, Connected(c),
                        s \notin offered'[connection[c]],
                        <<connection[c], s>> \notin revived
                 PROVE  Forgets(c, s)'
      BY <1>1, <2>1 DEF WillForget, Connected
    <3>1. connection[c] \in Hosts
      BY <1>t DEF PeersTypeOK, Connected
    <3>2. Forgets(c, s)
      BY <2>1, <3>1 DEF PeerInv, WillForget
    <3> QED
      BY <1>3, <2>1, <3>2 DEF Forgets
  <2> QED
    BY <2>2, <2>3
<1>6. CASE RemoteReady(h, t)
  <2> DEFINE m == [service |-> t, online |-> TRUE]
  <2>1. m \in Message /\ m.service = t /\ m.online = TRUE
    BY DEF Message
  <2>2. /\ Broadcast(h, m)
        /\ UNCHANGED <<offered, revived>>
        /\ announced' = [announced EXCEPT ![h] = @ \cup {t}]
        /\ t \in offered[h]
    BY <1>6 DEF RemoteReady
  <2> HIDE DEF m
  <2>3. WillKnow'
    <3> SUFFICES ASSUME NEW c \in Conns, NEW s \in Services, Connected(c),
                        s \in announced'[connection[c]]
                 PROVE  Knows(c, s)'
      BY <1>1 DEF WillKnow, Connected
    <3>1. connection[c] \in Hosts
      BY <1>t DEF PeersTypeOK, Connected
    <3>2. CASE connection[c] = h /\ s = t
      BY <1>t, <1>1, <1>4, <2>1, <2>2, <3>2 DEF Shape, Knows
    <3>3. CASE ~(connection[c] = h /\ s = t)
      <4>1. s \in announced[connection[c]]
        BY <1>t, <2>2, <3>1, <3>3 DEF PeersTypeOK
      <4>2. Knows(c, s)
        BY <4>1 DEF PeerInv, WillKnow
      <4>3. Told(c, s) => Told(c, s)'
        BY <1>t, <1>2, <2>2, <3>1, <3>3 DEF PeersTypeOK
      <4>4. /\ LastSays(wire[c], s, TRUE) => LastSays(wire'[c], s, TRUE)
            /\ Only(wire[c], s, TRUE) => Only(wire'[c], s, TRUE)
        BY <1>4, <2>1, <2>2, <3>3
      <4> QED
        BY <1>1, <4>2, <4>3, <4>4 DEF Knows
    <3> QED
      BY <3>2, <3>3
  <2>4. WillForget'
    <3> SUFFICES ASSUME NEW c \in Conns, NEW s \in Services, Connected(c),
                        s \notin offered[connection[c]],
                        <<connection[c], s>> \notin revived
                 PROVE  Forgets(c, s)'
      BY <1>1, <2>2 DEF WillForget, Connected
    <3>1. Forgets(c, s)
      BY DEF PeerInv, WillForget
    <3>2. ~(connection[c] = h /\ s = t)
      BY <2>2
    <3>3. /\ LastSays(wire[c], s, FALSE) => LastSays(wire'[c], s, FALSE)
          /\ Only(wire[c], s, FALSE) => Only(wire'[c], s, FALSE)
      BY <1>4, <2>1, <2>2, <3>2
    <3> QED
      BY <1>3, <3>1, <3>3 DEF Forgets
  <2> QED
    BY <2>3, <2>4
<1>7. CASE RemoteGone(h, t)
  <2> DEFINE m == [service |-> t, online |-> FALSE]
  <2>1. m \in Message /\ m.service = t /\ m.online = FALSE
    BY DEF Message
  <2>2. /\ Broadcast(h, m)
        /\ offered' = [offered EXCEPT ![h] = @ \ {t}]
        /\ announced' = [announced EXCEPT ![h] = @ \ {t}]
        /\ revived' = revived \ {<<h, t>>}
    BY <1>7 DEF RemoteGone
  <2> HIDE DEF m
  <2>3. WillKnow'
    <3> SUFFICES ASSUME NEW c \in Conns, NEW s \in Services, Connected(c),
                        s \in announced'[connection[c]]
                 PROVE  Knows(c, s)'
      BY <1>1 DEF WillKnow, Connected
    <3>1. connection[c] \in Hosts
      BY <1>t DEF PeersTypeOK, Connected
    <3>2. ~(connection[c] = h /\ s = t) /\ s \in announced[connection[c]]
      BY <1>t, <2>2, <3>1 DEF PeersTypeOK
    <3>3. Knows(c, s)
      BY <3>2 DEF PeerInv, WillKnow
    <3>4. Told(c, s) => Told(c, s)'
      BY <1>t, <1>2, <2>2, <3>1, <3>2 DEF PeersTypeOK
    <3>5. /\ LastSays(wire[c], s, TRUE) => LastSays(wire'[c], s, TRUE)
          /\ Only(wire[c], s, TRUE) => Only(wire'[c], s, TRUE)
      BY <1>4, <2>1, <2>2, <3>2
    <3> QED
      BY <1>1, <3>3, <3>4, <3>5 DEF Knows
  <2>4. WillForget'
    <3> SUFFICES ASSUME NEW c \in Conns, NEW s \in Services, Connected(c),
                        s \notin offered'[connection[c]],
                        <<connection[c], s>> \notin revived'
                 PROVE  Forgets(c, s)'
      BY <1>1 DEF WillForget, Connected
    <3>1. connection[c] \in Hosts
      BY <1>t DEF PeersTypeOK, Connected
    <3>2. CASE connection[c] = h /\ s = t
      <4>1. CASE c \in subscribed
        BY <1>4, <2>1, <2>2, <3>2, <4>1 DEF Forgets
      <4>2. CASE c \notin subscribed
        <5>1. wire[c] = <<>> /\ known[c] = {} /\ wire'[c] = wire[c]
          BY <1>t, <1>4, <2>1, <2>2, <4>2 DEF Shape
        <5>2. \A i \in Slots : <<h, t>> \notin remote_peers[i]
          <6> SUFFICES ASSUME NEW i \in Slots, <<h, t>> \in remote_peers[i]
                       PROVE  FALSE
            OBVIOUS
          <6>1. PICK d \in Conns : connection[d] = h /\ t \in known[d]
            BY DEF PeerInv, OnlineIsConnected
          <6>2. d = c
            BY <3>1, <3>2, <6>1 DEF PeerInv, OnePerUser, Connected, SameUser
          <6> QED
            BY <5>1, <6>1, <6>2
        <5>3. Untold(c, s)'
          BY <1>1, <3>2, <5>2 DEF Untold
        <5>4. Only(wire'[c], s, FALSE)
          BY <5>1 DEF Only
        <5> QED
          BY <5>3, <5>4 DEF Forgets
      <4> QED
        BY <4>1, <4>2
    <3>3. CASE ~(connection[c] = h /\ s = t)
      <4>1. /\ s \notin offered[connection[c]]
            /\ <<connection[c], s>> \notin revived
        BY <1>t, <2>2, <3>1, <3>3 DEF PeersTypeOK
      <4>2. Forgets(c, s)
        BY <4>1 DEF PeerInv, WillForget
      <4>3. /\ LastSays(wire[c], s, FALSE) => LastSays(wire'[c], s, FALSE)
            /\ Only(wire[c], s, FALSE) => Only(wire'[c], s, FALSE)
        BY <1>4, <2>1, <2>2, <3>3
      <4> QED
        BY <1>3, <4>2, <4>3 DEF Forgets
    <3> QED
      BY <3>2, <3>3
  <2> QED
    BY <2>3, <2>4
<1> QED
  BY <1>5, <1>6, <1>7

\* ... and whatever connections do.
LEMMA PeerConnectionStep ==
    ASSUME ~Parallel, PeerInv, ConnectionStep
    PROVE  WillKnow' /\ WillForget'
<1> USE PeerSignalsAssumption
<1>t. PeersTypeOK /\ Shape
  BY DEF PeerInv, ServiceInv, TypeInv
<1> PICK c \in Conns : \/ \E h \in Hosts : Connect(c, h)
                       \/ PeersOp(c)
                       \/ PeersCallback(c)
                       \/ Disconnect(c)
  BY DEF ConnectionStep
<1>1. /\ UNCHANGED <<appVars, offered, announced>>
      /\ \A d \in Conns : d # c =>
            /\ connection'[d] = connection[d]
            /\ d \in asked' <=> d \in asked
            /\ wire'[d] = wire[d]
            /\ known'[d] = known[d]
  BY <1>t DEF Connect, PeersOp, PeersCallback, Disconnect, remoteVars,
              Remember, PeersTypeOK
<1>2. ASSUME NEW d \in Conns, d # c, Connected(d), NEW s \in Services
      PROVE  /\ \A i \in Slots : <<connection[d], s>> \in remote_peers'[i]
                   <=> <<connection[d], s>> \in remote_peers[i]
             /\ <<connection[d], s>> \in revived'
                   <=> <<connection[d], s>> \in revived
  <2>1. Connected(c) => connection[c] # connection[d]
    BY <1>2 DEF PeerInv, OnePerUser, SameUser
  <2>2. CASE (\E h \in Hosts : Connect(c, h)) \/ PeersOp(c)
    BY <2>2 DEF Connect, PeersOp
  <2>3. CASE PeersCallback(c)
    <3>1. Connected(c)
      BY <1>t, <2>3 DEF PeersCallback, Shape
    <3>2. <<connection[d], s>> # <<connection[c], Head(wire[c]).service>>
      BY <2>1, <3>1
    <3> QED
      BY <2>3, <3>2, PassOnLemma DEF PeerInv, PeersCallback
  <2>4. CASE Disconnect(c)
    <3>1. Connected(c) /\ connection[d] \in Hosts
      BY <1>t, <1>2, <2>4 DEF Disconnect, PeersTypeOK, Connected
    <3>2. <<connection[d], s>> \notin PeersKnown({c})
      BY <1>t, <2>1, <3>1, KnownLemma
    <3>3. revived' = revived \ PeersKnown({c}) \/ revived' = revived
      BY <2>4 DEF Disconnect
    <3> QED
      BY <2>4, <3>2, <3>3, DisconnectLemma DEF PeerInv
  <2> QED
    BY <2>2, <2>3, <2>4
<1>3. ASSUME NEW d \in Conns, d # c, Connected(d), NEW s \in Services
      PROVE  /\ Knows(d, s) => Knows(d, s)'
             /\ Forgets(d, s) => Forgets(d, s)'
  <2>1. Told(d, s) => Told(d, s)'
    BY <1>1, <1>2, <1>3 DEF Told, Matching, Registered, appVars
  <2>2. Untold(d, s) => Untold(d, s)'
    BY <1>1, <1>2, <1>3 DEF Untold, appVars
  <2> QED
    BY <1>1, <1>3, <2>1, <2>2 DEF Knows, Forgets
<1>4. ASSUME Connected(c)', NEW s \in Services,
             s \in announced[connection'[c]]
      PROVE  Knows(c, s)'
  <2>1. CASE \E h \in Hosts : Connect(c, h)
    BY <2>1 DEF Connect, Knows
  <2>2. CASE PeersOp(c)
    <3>1. connection' = connection /\ connection[c] \in Hosts
      BY <1>t, <2>2 DEF PeersOp, Shape, Connected, PeersTypeOK
    <3>2. PICK a \in Answer(connection[c]) :
             wire' = [wire EXCEPT ![c] = @ \o a]
      BY <2>2 DEF PeersOp
    <3>3. a \in Seq(Message)
      BY <1>t, <3>1, AnswerLemma
    <3>4. wire'[c] = a
      BY <1>t, <2>2, <3>2, <3>3 DEF PeersOp, Shape, PeersTypeOK
    <3>5. s \in offered[connection[c]]
      BY <1>t, <1>4, <3>1 DEF Shape
    <3>6. LastSays(a, s, TRUE)
      <4>1. \A n \in DOMAIN a : a[n].online = TRUE
        BY <1>t, <3>1, <3>3, AnswerLemma DEF Message
      <4>2. \E n \in DOMAIN a : a[n].service = s
        BY <1>t, <3>1, <3>5, AnswerLemma
      <4> QED
        BY <4>1, <4>2 DEF LastSays
    <3> QED
      BY <3>4, <3>6 DEF Knows
  <2>3. CASE PeersCallback(c)
    <3> DEFINE m == Head(wire[c])
               h == connection[c]
    <3>1. /\ wire[c] \in Seq(Message) /\ wire[c] # <<>>
          /\ wire'[c] = Tail(wire[c])
          /\ known'[c] = known[c] \cup {m.service}
          /\ UNCHANGED <<connection, asked>>
      BY <1>t, <2>3 DEF PeersCallback, Remember, PeersTypeOK
    <3>2. c \notin asked
      BY <1>t, <3>1 DEF Shape
    <3>0. \A on \in BOOLEAN :
             /\ Only(wire[c], s, on) =>
                   /\ Only(wire'[c], s, on)
                   /\ m.service = s => m.online = on
             /\ LastSays(wire[c], s, on) =>
                   \/ LastSays(wire'[c], s, on)
                   \/ /\ m.service = s /\ m.online = on
                      /\ Only(wire'[c], s, on)
      BY <3>1, TailLemma
    <3>3. Knows(c, s)
      BY <1>4, <3>1 DEF PeerInv, WillKnow, Connected
    <3>4. CASE LastSays(wire'[c], s, TRUE)
      BY <3>4 DEF Knows
    <3>5. CASE ~LastSays(wire'[c], s, TRUE)
      <4>1. Only(wire'[c], s, TRUE)
        BY <3>1, <3>2, <3>3, <3>5, <3>0 DEF Knows
      <4>2. s \in known'[c]
        BY <3>1, <3>2, <3>3, <3>5, <3>0 DEF Knows
      <4>3. \/ m.service = s /\ m.online = TRUE
            \/ Told(c, s) /\ m.service # s
        BY <3>1, <3>2, <3>3, <3>5, <3>0 DEF Knows
      <4>4. Told(c, s)'
        <5> SUFFICES ASSUME NEW i \in Slots, Matching(i, h, s)
                     PROVE  <<h, s>> \in remote_peers'[i]
          BY <1>1, <3>1 DEF Told, Matching, Registered, appVars
        <5>1. apps[i] \in PeerAudience(protocolAt[s])
          BY <1>t DEF Matching, PeerAudience, RegisteredWsids, PeersTypeOK,
                      ServicesTypeOK, Registered
        <5>2. CASE m.service = s /\ m.online = TRUE
          BY <2>3, <5>1, <5>2, PassOnLemma DEF PeerInv
        <5>3. CASE Told(c, s) /\ m.service # s
          <6>1. <<h, s>> \in remote_peers[i]
            BY <5>3 DEF Told
          <6>2. <<h, s>> # <<connection[c], m.service>>
            BY <5>3
          <6> QED
            BY <2>3, <6>1, <6>2, PassOnLemma DEF PeerInv
        <5> QED
          BY <4>3, <5>2, <5>3
      <4> QED
        BY <4>1, <4>2, <4>4 DEF Knows
    <3> QED
      BY <3>4, <3>5
  <2>4. CASE Disconnect(c)
    BY <1>t, <1>4, <2>4 DEF Disconnect, Connected, PeersTypeOK
  <2> QED
    BY <2>1, <2>2, <2>3, <2>4
<1>5. ASSUME Connected(c)', NEW s \in Services,
             s \notin offered[connection'[c]],
             <<connection'[c], s>> \notin revived'
      PROVE  Forgets(c, s)'
  <2>1. CASE \E h \in Hosts : Connect(c, h)
    <3> PICK h \in Hosts : Connect(c, h)
      BY <2>1
    <3>1. /\ connection'[c] = h /\ wire'[c] = <<>>
          /\ UNCHANGED remote_peers
          /\ \A d \in Conns : Connected(d)
                                 => userOf[connection[d]] # userOf[h]
      BY <1>t DEF Connect, PeersTypeOK, Shape
    <3>2. \A i \in Slots : <<h, s>> \notin remote_peers[i]
      <4> SUFFICES ASSUME NEW i \in Slots, <<h, s>> \in remote_peers[i]
                   PROVE  FALSE
        OBVIOUS
      <4>1. PICK d \in Conns : connection[d] = h
        BY DEF PeerInv, OnlineIsConnected
      <4> QED
        BY <3>1, <4>1 DEF Connected
    <3>3. Untold(c, s)'
      BY <3>1, <3>2 DEF Untold
    <3>4. Only(wire'[c], s, FALSE)
      BY <3>1 DEF Only
    <3> QED
      BY <3>3, <3>4 DEF Forgets
  <2>2. CASE PeersOp(c)
    <3>1. /\ connection' = connection /\ connection[c] \in Hosts
          /\ UNCHANGED <<appVars, remote_peers, revived>>
      BY <1>t, <2>2 DEF PeersOp, Shape, Connected, PeersTypeOK
    <3>2. PICK a \in Answer(connection[c]) :
             wire' = [wire EXCEPT ![c] = @ \o a]
      BY <2>2 DEF PeersOp
    <3>3. a \in Seq(Message)
      BY <1>t, <3>1, AnswerLemma
    <3>0. wire[c] = <<>> /\ wire'[c] = <<>> \o a
      BY <1>t, <2>2, <3>2 DEF PeersOp, Shape, PeersTypeOK
    <3>4. wire[c] = <<>> /\ wire'[c] = a
      BY <3>0, <3>3
    <3>5. Only(a, s, FALSE)
      <4>1. \A n \in DOMAIN a : a[n].service \in offered[connection[c]]
        BY <1>t, <3>1, <3>2, AnswerLemma
      <4> QED
        BY <1>5, <3>1, <4>1 DEF Only
    <3>6. Forgets(c, s)
      BY <1>5, <3>1 DEF PeerInv, WillForget, Connected
    <3>7. Untold(c, s)
      BY <3>4, <3>6 DEF Forgets, LastSays
    <3>8. Untold(c, s)'
      BY <3>1, <3>7 DEF Untold, appVars
    <3> QED
      BY <3>4, <3>5, <3>8 DEF Forgets
  <2>3. CASE PeersCallback(c)
    <3> DEFINE m == Head(wire[c])
               h == connection[c]
    <3>1. /\ wire[c] \in Seq(Message) /\ wire[c] # <<>>
          /\ wire'[c] = Tail(wire[c])
          /\ UNCHANGED <<connection, revived, appVars>>
      BY <1>t, <2>3 DEF PeersCallback, PeersTypeOK
    <3>0. \A on \in BOOLEAN :
             /\ Only(wire[c], s, on) =>
                   /\ Only(wire'[c], s, on)
                   /\ m.service = s => m.online = on
             /\ LastSays(wire[c], s, on) =>
                   \/ LastSays(wire'[c], s, on)
                   \/ /\ m.service = s /\ m.online = on
                      /\ Only(wire'[c], s, on)
      BY <3>1, TailLemma
    <3>2. Forgets(c, s)
      BY <1>5, <3>1 DEF PeerInv, WillForget, Connected
    <3>3. CASE LastSays(wire'[c], s, FALSE)
      BY <3>3 DEF Forgets
    <3>4. CASE ~LastSays(wire'[c], s, FALSE)
      <4>1. Only(wire'[c], s, FALSE)
        BY <3>1, <3>2, <3>4, <3>0 DEF Forgets
      <4>2. \/ m.service = s /\ m.online = FALSE
            \/ Untold(c, s) /\ m.service # s
        BY <3>1, <3>2, <3>4, <3>0 DEF Forgets
      <4>3. Untold(c, s)'
        <5> SUFFICES ASSUME NEW i \in Slots, <<h, s>> \in remote_peers'[i]
                     PROVE  protocolOf[apps[i]] # protocolAt[s]
          BY <3>1 DEF Untold, appVars
        <5>1. CASE m.service = s /\ m.online = FALSE
          <6>1. <<h, s>> \in remote_peers[i]
                /\ apps[i] \notin PeerAudience(protocolAt[s])
            BY <2>3, <5>1, PassOnLemma DEF PeerInv
          <6>2. Registered(apps[i])
            BY <6>1 DEF PeerInv, ServiceInv, LiveRegistered, Live
          <6> QED
            BY <1>t, <6>1, <6>2
            DEF PeerAudience, RegisteredWsids, PeersTypeOK, ServicesTypeOK,
                Registered
        <5>2. CASE Untold(c, s) /\ m.service # s
          <6>1. <<h, s>> # <<connection[c], m.service>>
            BY <5>2
          <6>2. <<h, s>> \in remote_peers[i]
            BY <2>3, <6>1, PassOnLemma DEF PeerInv
          <6> QED
            BY <5>2, <6>2 DEF Untold
        <5> QED
          BY <4>2, <5>1, <5>2
      <4> QED
        BY <4>1, <4>3 DEF Forgets
    <3> QED
      BY <3>3, <3>4
  <2>4. CASE Disconnect(c)
    BY <1>t, <1>5, <2>4 DEF Disconnect, Connected, PeersTypeOK
  <2> QED
    BY <2>1, <2>2, <2>3, <2>4
<1>6. WillKnow'
  <2> SUFFICES ASSUME NEW d \in Conns, NEW s \in Services, Connected(d)',
                      s \in announced[connection'[d]]
               PROVE  Knows(d, s)'
    BY <1>1 DEF WillKnow
  <2>1. CASE d = c
    BY <1>4, <2>1
  <2>2. CASE d # c
    <3>1. Connected(d) /\ connection'[d] = connection[d]
      BY <1>1, <2>2 DEF Connected
    <3> QED
      BY <1>3, <2>2, <3>1 DEF PeerInv, WillKnow
  <2> QED
    BY <2>1, <2>2
<1>7. WillForget'
  <2> SUFFICES ASSUME NEW d \in Conns, NEW s \in Services, Connected(d)',
                      s \notin offered[connection'[d]],
                      <<connection'[d], s>> \notin revived'
               PROVE  Forgets(d, s)'
    BY <1>1 DEF WillForget
  <2>1. CASE d = c
    BY <1>5, <2>1
  <2>2. CASE d # c
    <3>1. Connected(d) /\ connection'[d] = connection[d]
      BY <1>1, <2>2 DEF Connected
    <3>2. <<connection[d], s>> \notin revived
      BY <1>2, <2>2, <3>1
    <3> QED
      BY <1>1, <1>3, <2>2, <3>1, <3>2 DEF PeerInv, WillForget
  <2> QED
    BY <2>1, <2>2
<1> QED
  BY <1>6, <1>7

\* The invariant of the peers.
LEMMA PeerInvariant ==
    (~DuplicateLogins /\ ~Parallel) => (Spec => []PeerInv)
<1> SUFFICES ASSUME ~DuplicateLogins, ~Parallel PROVE Spec => []PeerInv
  OBVIOUS
<1>1. Init /\ ServiceInv => PeerInv
  BY DEF Init, PeerInv, OnePerUser, OnlineIsConnected, WillKnow, WillForget,
         Connected
<1>2. PeerInv /\ ServiceInv' /\ [Next]_vars => PeerInv'
  <2> SUFFICES ASSUME PeerInv, ServiceInv', [Next]_vars
               PROVE  WillKnow' /\ WillForget'
    BY OnlineStep DEF PeerInv
  <2>1. CASE UNCHANGED vars
    BY <2>1 DEF vars, appVars, peerVars, remoteVars, PeerInv, WillKnow,
                WillForget, Knows, Forgets, Told, Untold, Matching,
                Registered, Connected
  <2> QED
    BY <2>1, PeerAppStep, PeerConnectionStep, PeerRemoteStep DEF Next
<1>3. Spec => []ServiceInv
  BY ServiceInvariant
<1> QED
  BY <1>1, <1>2, <1>3, PTL DEF Spec

\* As long as no user is connected twice and no service logged in twice,
\* whoever a service takes to be online is on a host that is connected.
THEOREM OnlineSafety ==
    (~DuplicateLogins /\ ~Parallel) => (Spec => []OnlineIsConnected)
<1>1. PeerInv => OnlineIsConnected
  BY DEF PeerInv
<1> QED
  BY <1>1, PeerInvariant, PTL

\* Under the same condition no ready service is ever missed by a matching
\* ready service, in whatever order they and the connection came up.
THEOREM NothingMissedSafety ==
    (~DuplicateLogins /\ ~Parallel) => (Spec => []NothingMissed)
<1>1. PeerInv => NothingMissed
  <2> SUFFICES ASSUME PeerInv, NEW c \in Conns, NEW i \in Slots,
                      NEW s \in Services, Quiet(c),
                      Matching(i, connection[c], s)
               PROVE  <<connection[c], s>> \in remote_peers[i]
    BY DEF NothingMissed
  <2>1. Knows(c, s) /\ c \notin asked
    BY DEF PeerInv, WillKnow, Quiet, Matching
  <2>2. ~LastSays(wire[c], s, TRUE)
    BY DEF LastSays, Quiet
  <2> QED
    BY <2>1, <2>2 DEF Knows, Told
<1> QED
  BY <1>1, PeerInvariant, PTL

\* Under the same condition no service that has gone is taken to be online
\* once the messages under way have arrived, unless it was announced anew by
\* a service that became ready.
THEOREM NoGhostSafety ==
    (~DuplicateLogins /\ ~Parallel) => (Spec => []NoGhostPeers)
<1>1. PeerInv => NoGhostPeers
  <2> SUFFICES ASSUME PeerInv, NEW c \in Conns, NEW i \in Slots,
                      NEW s \in Services, Quiet(c),
                      <<connection[c], s>> \in remote_peers[i],
                      protocolOf[apps[i]] = protocolAt[s],
                      s \notin offered[connection[c]],
                      <<connection[c], s>> \notin revived
               PROVE  FALSE
    BY DEF NoGhostPeers
  <2>1. Forgets(c, s)
    BY DEF PeerInv, WillForget, Quiet
  <2>2. ~LastSays(wire[c], s, FALSE)
    BY DEF LastSays, Quiet
  <2> QED
    BY <2>1, <2>2 DEF Forgets, Untold
<1> QED
  BY <1>1, PeerInvariant, PTL
=============================================================================
