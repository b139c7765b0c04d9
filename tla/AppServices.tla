---------------------------- MODULE AppServices ----------------------------
(***************************************************************************)
(* The services of one core: the slots of the application server, the      *)
(* service registry, the requests services have open at the core, and what *)
(* a service is told about the other services of its own core.             *)
(*                                                                         *)
(* A service is a process connected to a slot.  It logs in with its wsid,  *)
(* says that it is ready, sends requests and goes away.  The core answers  *)
(* a wsid, not a slot: send_core_to_app_via_tcp writes to the first slot   *)
(* that carries it.  A service follows the signals it is sent: its picture *)
(* of its peers (local_peers) is the external part of this module.         *)
(*                                                                         *)
(* At least one local identity exists (without one no local signal is      *)
(* sent), and a service names at most one protocol, the only one the core  *)
(* looks at (protocols[0]).                                                *)
(***************************************************************************)
EXTENDS Integers, FiniteSets

CONSTANTS NUM_APP_CONNECTIONS, WISH_MAX_SERVICES,
          Wsids, NoWsid,
          Protocols,
          protocolOf,      \* the first protocol of each local service
          DuplicateLogins  \* may a service log in twice at the same time?

ASSUME AppServicesAssumption ==
    /\ NUM_APP_CONNECTIONS \in Nat /\ WISH_MAX_SERVICES \in Nat
    /\ NoWsid \notin Wsids
    /\ protocolOf \in [Wsids -> Protocols]
    /\ DuplicateLogins \in BOOLEAN

Slots == 1 .. NUM_APP_CONNECTIONS
Entries == 1 .. WISH_MAX_SERVICES

VARIABLES
    app_states,    \* app_states[i]: is the slot in use?
    apps,          \* apps[i]: the wsid of the login, NoWsid (all zeroes)
                   \*   until app_login_complete[i]
    registry,      \* service_registry: the wsid in each entry
    requests,      \* app_api->requests that stay open: the entry each one
                   \*   points to (context) and, a ghost, who sent it
    ready,         \* ghost: the slots whose service has sent "ready" since
                   \*   it was registered
    local_peers    \* what the service in each slot believes to be online

appVars == <<app_states, apps, registry, requests, ready, local_peers>>

ServicesTypeOK ==
    /\ app_states \in [Slots -> {"INITIAL", "CONNECTED"}]
    /\ apps \in [Slots -> Wsids \cup {NoWsid}]
    /\ registry \in [Entries -> Wsids \cup {NoWsid}]
    /\ requests \subseteq [context : Entries, sender : Wsids]
    /\ ready \subseteq Slots
    /\ local_peers \in [Slots -> SUBSET Wsids]
    \* a vacant slot has no login, and no wsid is registered twice
    /\ \A i \in Slots : app_states[i] = "INITIAL" => apps[i] = NoWsid
    /\ \A e, f \in Entries :
           (registry[e] = registry[f] /\ registry[e] # NoWsid) => e = f

ServicesInit ==
    /\ app_states = [i \in Slots |-> "INITIAL"]
    /\ apps = [i \in Slots |-> NoWsid]
    /\ registry = [e \in Entries |-> NoWsid]
    /\ requests = {}
    /\ ready = {}
    /\ local_peers = [i \in Slots |-> {}]
-----------------------------------------------------------------------------
\* wish_service_get_entry finds w.
Registered(w) == w # NoWsid /\ \E e \in Entries : registry[e] = w

RegisteredWsids == {w \in Wsids : Registered(w)}

SameProtocol(v, w) == protocolOf[v] = protocolOf[w]

\* send_core_to_app(wsid w) is written to slot i.
Reaches(w, i) == /\ apps[i] = w
                 /\ \A j \in Slots : apps[j] = w => i <= j

\* What a message for the services in ws does to the pictures: the slots it
\* reaches apply f, the others keep what they have.
ReachedBy(ws) == {i \in Slots : \E w \in ws : Reaches(w, i)}

\* The local services that are told about w: those of its protocol, but
\* never w itself.
LocalAudience(w) == {v \in RegisteredWsids \ {w} : SameProtocol(v, w)}
-----------------------------------------------------------------------------
\* accept() on the server's socket: the first vacant slot is taken; without
\* one the new descriptor is closed again.
Accept ==
    \E i \in Slots :
        /\ app_states[i] = "INITIAL"
        /\ \A j \in Slots : app_states[j] = "INITIAL" => i <= j
        /\ app_states' = [app_states EXCEPT ![i] = "CONNECTED"]
        /\ UNCHANGED <<apps, registry, requests, ready, local_peers>>

\* wish_service_register_add: nothing happens when the wsid is registered
\* already, or when no entry is free.
RegisterAdd(w) ==
    IF ~Registered(w) /\ \E e \in Entries : registry[e] = NoWsid
    THEN \E e \in Entries :
             /\ registry[e] = NoWsid
             /\ \A f \in Entries : registry[f] = NoWsid => e <= f
             /\ registry' = [registry EXCEPT ![e] = w]
    ELSE UNCHANGED registry

\* A frame with a "wsid": the first one is the login of the slot, a later
\* one has to carry the same wsid.  The signal "ready" that answers it is
\* sent in every case.
Login(i, w) ==
    /\ app_states[i] = "CONNECTED"
    /\ apps[i] \in {NoWsid, w}
    /\ DuplicateLogins \/ \A j \in Slots \ {i} : apps[j] # w
    /\ apps' = [apps EXCEPT ![i] = w]
    /\ RegisterAdd(w)
    /\ UNCHANGED <<app_states, requests, ready, local_peers>>

\* The frame { ready: true }: each registered service of the same protocol
\* is told about w, and w about each of them.  The part about services of
\* other cores, which does not depend on a login, is PeerSignals!Ready.
AppReady(i) ==
    LET w == apps[i]
        told == [j \in Slots |->
                    (IF j \in ReachedBy({w}) THEN LocalAudience(w) ELSE {})
                    \cup
                    (IF j \in ReachedBy(LocalAudience(w)) THEN {w} ELSE {})]
    IN /\ app_states[i] = "CONNECTED"
       /\ ready' = IF Registered(w) THEN ready \cup {i} ELSE ready
       /\ local_peers' = IF Registered(w)
                         THEN [j \in Slots |-> local_peers[j] \cup told[j]]
                         ELSE local_peers
       /\ UNCHANGED <<app_states, apps, registry, requests>>

\* A request that stays open (signals): its context is the registry entry.
\* A request from a wsid that is not registered is denied.
Request(i) ==
    \E e \in Entries :
        /\ apps[i] # NoWsid /\ registry[e] = apps[i]
        /\ requests' = requests \cup {[context |-> e, sender |-> apps[i]]}
        /\ UNCHANGED <<app_states, apps, registry, ready, local_peers>>

\* Mutant of CleanupRequests: the requests of a service that has gone stay.
CleanupRequests_Forgotten(e) == requests' = requests

\* wish_core_app_rpc_cleanup_requests
CleanupRequests(e) == requests' = {r \in requests : r.context # e}

\* Mutant of OfflineLocals: other services are not told.
OfflineLocals_Untold(i) == [local_peers EXCEPT ![i] = {}]

\* The pictures after the offline signals of register_remove; the service in
\* slot i is gone with its picture.
OfflineLocals(i) ==
    [j \in Slots |-> IF j = i THEN {}
                     ELSE IF Registered(apps[i])
                             /\ j \in ReachedBy(LocalAudience(apps[i]))
                          THEN local_peers[j] \ {apps[i]}
                          ELSE local_peers[j]]

\* Mutant of Vacated: app_login_complete is not reset.
Vacated_LoggedIn(i) == apps

\* The logins after the slot was cleared.
Vacated(i) == [apps EXCEPT ![i] = NoWsid]

\* read() returns 0 or an error: app_connection_cleanup, which begins with
\* wish_service_register_remove.  The pointer to the entry is what the open
\* requests are compared with after the entry was cleared.
AppGone(i) ==
    /\ app_states[i] = "CONNECTED"
    /\ local_peers' = OfflineLocals(i)
    /\ IF Registered(apps[i])
       THEN \E e \in Entries :
                /\ registry[e] = apps[i]
                /\ registry' = [registry EXCEPT ![e] = NoWsid]
                /\ CleanupRequests(e)
       ELSE UNCHANGED <<registry, requests>>
    /\ app_states' = [app_states EXCEPT ![i] = "INITIAL"]
    /\ apps' = Vacated(i)
    /\ ready' = ready \ {i}
-----------------------------------------------------------------------------
(* The correctness of the application side.                                *)

\* An open request belongs to the service that holds the entry it points to:
\* signals and answers of the core (wish_core_app_rpc_send reads the wsid in
\* the entry) never go to a service that has taken over the entry of another
\* one.
RequestsHaveApps == \A r \in requests : registry[r.context] = r.sender

\* What a service believes about the services of its own core: whoever it
\* takes to be online is registered, and two registered services of the same
\* protocol that both said "ready" know each other.
LocalPeersExact ==
    /\ \A i \in Slots : local_peers[i] \subseteq RegisteredWsids
    /\ \A i, j \in ready :
           (/\ apps[i] # apps[j]
            /\ Registered(apps[i]) /\ Registered(apps[j])
            /\ SameProtocol(apps[i], apps[j]))
               => apps[j] \in local_peers[i]
=============================================================================
