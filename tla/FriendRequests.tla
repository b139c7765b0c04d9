--------------------------- MODULE FriendRequests ---------------------------
(***************************************************************************)
(* Friend requests between cores.                                          *)
(*                                                                         *)
(* To ask for friendship a core opens a friend request connection and      *)
(* saves the other identity as a contact at once, flagged unconfirmed and  *)
(* connect: false.  The core that is asked stores the request until its    *)
(* user accepts or declines; the answer goes back on the connection, if    *)
(* there still is one.  When the connection goes first, connect: false is  *)
(* removed and the requester dials the contact like any other: the normal  *)
(* connection that comes up once both know each other is the answer.       *)
(*                                                                         *)
(* All cores run the same code and may ask each other.  One identity per   *)
(* core is followed.  A connection has an end in a slot of either pool;    *)
(* inbox[x][s] is what was sent to the end in slot s of core x, in order.  *)
(* A TCP connection brings the client's hello with it, and the frames of   *)
(* the handshake up to the client's last one count as one step.            *)
(***************************************************************************)
EXTENDS Integers, FiniteSets, Sequences

CONSTANTS Cores, NoCore,
          WISH_CONTEXT_POOL_SZ,
          Ids, NoId,  \* the ids of RPC requests; every core counts from one
          Asks,       \* who may ask whom for friendship
          MaxCalls    \* bound on the requests and removals by users

ASSUME FriendRequestsAssumption ==
    /\ NoCore \notin Cores
    /\ WISH_CONTEXT_POOL_SZ \in Nat
    /\ NoId \notin Ids
    /\ Asks \subseteq {p \in Cores \X Cores : p[1] # p[2]}
    /\ MaxCalls \in Nat

Slots == 1 .. WISH_CONTEXT_POOL_SZ

VARIABLES
    conn,         \* conn[x][s]: slot s of the connection pool of core x
    inbox,        \* inbox[x][s]: the messages under way to that end
    contacts,     \* contacts[x]: the identities core x has saved
    unconfirmed,  \* those with meta { unconfirmedFriendRequest: true }
    undialled,    \* those with meta { connect: false }
    requests,     \* requests[x]: relationship_req_db
    agreed,       \* ghost: <<x, y>> when the user of x has asked y for
                  \*   friendship or accepted that of y
    unreached,    \* ghost: <<x, y>> when a friend request connection of x to
                  \*   y was closed before its TCP connection was up
    calls         \* the requests and removals so far

vars == <<conn, inbox, contacts, unconfirmed, undialled, requests, agreed,
          unreached, calls>>

\* ts: FREE, OPENING (resolving or connecting), MAKING (handshake), RUNNING.
\* far is the slot of the other end, 0 when there is none (any more); id is
\* the id of the friend request that was sent on it and awaits its answer.
Connection == [ts : {"FREE", "OPENING", "MAKING", "RUNNING"},
               peer : Cores \cup {NoCore}, friend : BOOLEAN,
               outgoing : BOOLEAN, far : Slots \cup {0}, id : Ids \cup {NoId}]

\* An end of a connection that has sent no friend request.
End(ts, peer, friend, outgoing, far) ==
    [ts |-> ts, peer |-> peer, friend |-> friend, outgoing |-> outgoing,
     far |-> far, id |-> NoId]

Free == End("FREE", NoCore, FALSE, FALSE, 0)

Message == [op : {"handshake", "friendRequest", "accept", "decline"},
            id : Ids \cup {NoId}]

FriendTypeOK ==
    /\ conn \in [Cores -> [Slots -> Connection]]
    /\ inbox \in [Cores -> [Slots -> Seq(Message)]]
    /\ contacts \in [Cores -> SUBSET Cores]
    /\ unconfirmed \in [Cores -> SUBSET Cores]
    /\ undialled \in [Cores -> SUBSET Cores]
    /\ requests \in [Cores -> SUBSET [peer : Cores, ctx : Slots, id : Ids]]
    /\ agreed \subseteq Cores \X Cores
    /\ unreached \subseteq Cores \X Cores
    /\ calls \in 0 .. MaxCalls
    \* flags belong to contacts, and a pair has one stored request at most
    /\ \A x \in Cores : unconfirmed[x] \cup undialled[x] \subseteq contacts[x]
    /\ \A x \in Cores : \A q, r \in requests[x] : q.peer = r.peer => q = r
    \* the ends of a connection name each other
    /\ \A x \in Cores, s \in Slots :
           LET c == conn[x][s]
           IN /\ (c.ts = "FREE") = (c = Free)
              /\ c.far # 0 => /\ conn[c.peer][c.far].peer = x
                              /\ conn[c.peer][c.far].far = s

Init ==
    /\ conn = [x \in Cores |-> [s \in Slots |-> Free]]
    /\ inbox = [x \in Cores |-> [s \in Slots |-> <<>>]]
    /\ contacts = [x \in Cores |-> {}]
    /\ unconfirmed = [x \in Cores |-> {}]
    /\ undialled = [x \in Cores |-> {}]
    /\ requests = [x \in Cores |-> {}]
    /\ agreed = {} /\ unreached = {} /\ calls = 0
-----------------------------------------------------------------------------
InUse(x, s) == conn[x][s].ts # "FREE"

\* The slots of x with a connection of the pair <<x, y>>, of either kind.
WithPeer(x, y) == {s \in Slots : InUse(x, s) /\ conn[x][s].peer = y}

FirstOf(S) == {s \in S : \A t \in S : s <= t}

\* wish_connection_init takes the first vacant slot.
Vacant(x) == FirstOf({s \in Slots : ~InUse(x, s)})

\* wish_core_is_connected_luid_ruid
IsConnected(x, y) == \E s \in WithPeer(x, y) : ~conn[x][s].friend

\* The other ends of the slots S of x.
FarEnds(x, S) == {<<conn[x][s].peer, conn[x][s].far>> : s \in S}

\* The end c when its other end is gone.
Cut(c) == [c EXCEPT !.far = 0]

\* The pools after x has closed the slots S.
Closed(x, S) ==
    [z \in Cores |-> [t \in Slots |->
        IF z = x /\ t \in S THEN Free
        ELSE IF <<z, t>> \in FarEnds(x, S) THEN Cut(conn[z][t])
        ELSE conn[z][t]]]

Emptied(x, S, ib) == [ib EXCEPT ![x] = [s \in Slots |->
                          IF s \in S THEN <<>> ELSE ib[x][s]]]

\* The friend request connections among S that x has opened to a contact
\* that has not answered yet, and the contacts.
Unanswered(x, S) == {s \in S : /\ conn[x][s].friend
                               /\ conn[x][s].peer \in unconfirmed[x]}

\* Mutant of DiallableAgain: connect: false stays.
DiallableAgain_Never(x, S) == {}

\* TCP_DISCONNECTED: the contacts that lose their flag connect: false.  The
\* field outgoing is set when the TCP connection has come up.
DiallableAgain(x, S) ==
    {conn[x][s].peer : s \in {t \in Unanswered(x, S) : conn[x][t].outgoing}}

\* What a close of the slots S of x does to the flags of the contacts kept.
CloseFlags(x, S, kept) ==
    /\ undialled' = [undialled EXCEPT ![x] =
                        (@ \cap kept) \ DiallableAgain(x, S)]
    /\ unreached' =
           (unreached
              \cup {<<x, conn[x][s].peer>> :
                       s \in {t \in Unanswered(x, S) :
                                 conn[x][t].ts = "OPENING"}})
           \ {<<x, y>> : y \in DiallableAgain(x, S) \cup (Cores \ kept)}

Close(x, S) ==
    /\ conn' = Closed(x, S)
    /\ CloseFlags(x, S, contacts[x])

\* x sends m on slot s.  A slot that is not running has no keys yet: the
\* message is lost.
Sent(x, s, m) ==
    LET c == conn[x][s]
    IN IF c.ts = "RUNNING" /\ c.far # 0
       THEN [inbox EXCEPT ![c.peer][c.far] = Append(@, m)]
       ELSE inbox
-----------------------------------------------------------------------------
(* Opening connections.                                                     *)

Opened(x, s, y, isFriend) ==
    conn' = [conn EXCEPT ![x][s] =
                End("OPENING", y, isFriend, FALSE, 0)]

\* identity.friendRequest and wld.friendRequest: a contact that exists
\* already keeps its flags.
FriendRequest(x, y) ==
    /\ <<x, y>> \in Asks
    /\ \E s \in Vacant(x) : Opened(x, s, y, TRUE)
    /\ contacts' = [contacts EXCEPT ![x] = @ \cup {y}]
    /\ IF y \in contacts[x] THEN UNCHANGED <<unconfirmed, undialled>>
       ELSE /\ unconfirmed' = [unconfirmed EXCEPT ![x] = @ \cup {y}]
            /\ undialled' = [undialled EXCEPT ![x] = @ \cup {y}]
    /\ agreed' = agreed \cup {<<x, y>>}
    /\ UNCHANGED <<inbox, requests, unreached>>

\* wish_connections_check, for one contact.
Dial(x, y) ==
    /\ y \in contacts[x] \ undialled[x]
    /\ ~IsConnected(x, y)
    /\ \E s \in Vacant(x) : Opened(x, s, y, FALSE)
    /\ UNCHANGED <<inbox, contacts, unconfirmed, undialled, requests, agreed,
                   unreached>>

\* Mutant of Welcome: everyone is let in.
Welcome_All(x, s) == TRUE

\* What the server checks in the hello of a client: it knows the client, or
\* the client asks for a friend request connection (wish_core_check_wsid).
Welcome(x, s) == \/ conn[x][s].friend
                 \/ x \in contacts[conn[x][s].peer]

\* TCP_CONNECTED at the client, and the end of the server, unless the server
\* closes the new connection at once.
TcpConnected(x, s) ==
    LET y == conn[x][s].peer
        made(far) == End("MAKING", y, conn[x][s].friend, TRUE, far)
    IN /\ conn[x][s].ts = "OPENING"
       /\ \/ /\ Welcome(x, s)
             /\ \E t \in Vacant(y) :
                    conn' = [conn EXCEPT
                        ![x][s] = made(t),
                        ![y][t] = End("MAKING", x, conn[x][s].friend, FALSE,
                                      s)]
          \/ /\ ~Welcome(x, s) \/ Vacant(y) = {}
             /\ conn' = [conn EXCEPT ![x][s] = made(0)]
       /\ UNCHANGED <<inbox, contacts, unconfirmed, undialled, requests,
                      agreed, unreached>>

\* WISH_EVENT_NEW_CORE_CONNECTION at x, for a connection with y.
Confirm(x, y) == unconfirmed' = [unconfirmed EXCEPT ![x] = @ \ {y}]

\* PROTO_STATE_WISH_HANDSHAKE: the client has the server's handshake and
\* answers it.  On a friend request connection the request follows; a normal
\* one is announced.
ClientRunning(x, s) ==
    LET c == conn[x][s]
        shake == [op |-> "handshake", id |-> NoId]
    IN /\ c.ts = "MAKING" /\ c.outgoing /\ c.far # 0
       /\ \/ /\ ~c.friend
             /\ conn' = [conn EXCEPT ![x][s].ts = "RUNNING"]
             /\ inbox' = [inbox EXCEPT ![c.peer][c.far] = Append(@, shake)]
             /\ Confirm(x, c.peer)
          \/ /\ c.friend
             /\ \E i \in Ids \ {conn[x][t].id : t \in Slots} :
                    /\ conn' = [conn EXCEPT ![x][s].ts = "RUNNING",
                                            ![x][s].id = i]
                    /\ inbox' = [inbox EXCEPT ![c.peer][c.far] =
                           @ \o <<shake, [op |-> "friendRequest", id |-> i]>>]
             /\ UNCHANGED unconfirmed
       /\ UNCHANGED <<contacts, undialled, requests, agreed, unreached>>
-----------------------------------------------------------------------------
(* Messages.                                                                *)

Received(x, s, op) == inbox[x][s] # <<>> /\ Head(inbox[x][s]).op = op

Taken(x, s) == [inbox EXCEPT ![x][s] = Tail(@)]

\* PROTO_SERVER_STATE_WISH_REPLY_HANDSHAKE: the server has the client's
\* handshake; a normal connection is announced, and its contact is dialled
\* again.
ServerRunning(x, s) ==
    LET y == conn[x][s].peer
    IN /\ Received(x, s, "handshake")
       /\ conn' = [conn EXCEPT ![x][s].ts = "RUNNING"]
       /\ inbox' = Taken(x, s)
       /\ IF conn[x][s].friend
          THEN UNCHANGED <<unconfirmed, undialled, unreached>>
          ELSE /\ Confirm(x, y)
               /\ undialled' = [undialled EXCEPT ![x] = @ \ {y}]
               /\ unreached' = unreached \ {<<x, y>>}
       /\ UNCHANGED <<contacts, requests, agreed>>

\* core_friend_req from somebody who is a contact: accepted without asking.
FriendExists(x, s) ==
    LET m == Head(inbox[x][s])
    IN /\ Received(x, s, "friendRequest")
       /\ conn[x][s].peer \in contacts[x]
       /\ inbox' = Emptied(x, {s},
                           Sent(x, s, [op |-> "accept", id |-> m.id]))
       /\ Close(x, {s})
       /\ UNCHANGED <<contacts, unconfirmed, requests, agreed>>

\* Mutant of Replaced: the older request of the pair stays.
Replaced_Not(x, y) == requests[x]

\* The requests that are left when a new one of y comes in.
Replaced(x, y) == {r \in requests[x] : r.peer # y}

\* core_friend_req from a stranger: the request is stored with a copy of its
\* RPC request, in place of an older one of the pair, and the first other
\* connection of the pair is closed.
StoreRequest(x, s) ==
    LET y == conn[x][s].peer
        others == FirstOf(WithPeer(x, y) \ {s})
    IN /\ Received(x, s, "friendRequest")
       /\ y \notin contacts[x]
       /\ requests' = [requests EXCEPT ![x] = Replaced(x, y) \cup
              {[peer |-> y, ctx |-> s, id |-> Head(inbox[x][s]).id]}]
       /\ inbox' = Emptied(x, others, Taken(x, s))
       /\ Close(x, others)
       /\ UNCHANGED <<contacts, unconfirmed, agreed>>

\* An answer that comes in on s belongs to the request sent on s.
Answers(x, s) == /\ conn[x][s].id # NoId
                 /\ Head(inbox[x][s]).id = conn[x][s].id

\* friend_req_callback, accepted.
Accepted(x, s) ==
    LET y == conn[x][s].peer
    IN /\ Received(x, s, "accept") /\ Answers(x, s)
       /\ y \in contacts[x]
       /\ inbox' = Emptied(x, {s}, inbox)
       /\ conn' = Closed(x, {s})
       /\ unconfirmed' = [unconfirmed EXCEPT ![x] = @ \ {y}]
       /\ undialled' = [undialled EXCEPT ![x] = @ \ {y}]
       /\ unreached' = unreached \ {<<x, y>>}
       /\ UNCHANGED <<contacts, requests, agreed>>

\* friend_req_callback, declined: wish_identity_remove gets a pointer into
\* the very connection.  Once that is cleared the slots after it compare with
\* a uid of zeroes and stay open.
Declined(x, s) ==
    LET y == conn[x][s].peer
        S == {t \in WithPeer(x, y) : t <= s}
    IN /\ Received(x, s, "decline") /\ Answers(x, s)
       /\ contacts' = [contacts EXCEPT ![x] = @ \ {y}]
       /\ unconfirmed' = [unconfirmed EXCEPT ![x] = @ \ {y}]
       /\ inbox' = Emptied(x, S, inbox)
       /\ conn' = Closed(x, S)
       /\ CloseFlags(x, S, contacts[x] \ {y})
       /\ UNCHANGED <<requests, agreed>>

\* An answer that no request waits for, or to a contact that is gone.
Ignored(x, s) ==
    /\ \/ Received(x, s, "accept") /\ conn[x][s].peer \notin contacts[x]
       \/ /\ Received(x, s, "accept") \/ Received(x, s, "decline")
          /\ ~Answers(x, s)
    /\ inbox' = Taken(x, s)
    /\ conn' = IF Answers(x, s) THEN [conn EXCEPT ![x][s].id = NoId] ELSE conn
    /\ UNCHANGED <<contacts, unconfirmed, undialled, requests, agreed,
                   unreached>>
-----------------------------------------------------------------------------
(* The user answers.                                                        *)

\* What both answers do: the request is taken from the list, and the answer
\* is sent by the stored RPC request, on whatever is in its slot by now; the
\* first connection of the pair, taken for the one that brought the request,
\* is closed.  Without a connection of the pair nothing is sent.
Answer(x, r, op) ==
    LET found == FirstOf(WithPeer(x, r.peer))
        m == [op |-> op, id |-> r.id]
    IN /\ requests' = [requests EXCEPT ![x] = @ \ {r}]
       /\ inbox' = IF found = {} THEN inbox
                   ELSE Emptied(x, found, Sent(x, r.ctx, m))
       /\ Close(x, found)

\* identity.friendRequestAccept; a contact that exists keeps its flags.
AcceptRequest(x, r) ==
    /\ r \in requests[x]
    /\ Answer(x, r, "accept")
    /\ contacts' = [contacts EXCEPT ![x] = @ \cup {r.peer}]
    /\ agreed' = agreed \cup {<<x, r.peer>>}
    /\ UNCHANGED unconfirmed

\* identity.friendRequestDecline
DeclineRequest(x, r) ==
    /\ r \in requests[x]
    /\ Answer(x, r, "decline")
    /\ UNCHANGED <<contacts, unconfirmed, agreed>>

\* identity.remove, for a contact.
RemoveContact(x, y) ==
    LET S == WithPeer(x, y)
    IN /\ y \in contacts[x]
       /\ contacts' = [contacts EXCEPT ![x] = @ \ {y}]
       /\ unconfirmed' = [unconfirmed EXCEPT ![x] = @ \ {y}]
       /\ inbox' = Emptied(x, S, inbox)
       /\ conn' = Closed(x, S)
       /\ CloseFlags(x, S, contacts[x] \ {y})
       /\ UNCHANGED <<requests, agreed>>

\* Any other end of a connection: a failed or refused connect(), a name that
\* is not resolved, a timeout, end of file, connections.disconnect.
Disconnect(x, s) ==
    /\ InUse(x, s)
    /\ inbox' = Emptied(x, {s}, inbox)
    /\ Close(x, {s})
    /\ UNCHANGED <<contacts, unconfirmed, requests, agreed>>
-----------------------------------------------------------------------------
Receive(x, s) ==
    \/ ServerRunning(x, s)
    \/ FriendExists(x, s)
    \/ StoreRequest(x, s)
    \/ Accepted(x, s)
    \/ Declined(x, s)
    \/ Ignored(x, s)

UserStep(x) ==
    \/ /\ calls < MaxCalls
       /\ calls' = calls + 1
       /\ \E y \in Cores : FriendRequest(x, y) \/ RemoveContact(x, y)
    \/ /\ UNCHANGED calls
       /\ \E r \in requests[x] : AcceptRequest(x, r) \/ DeclineRequest(x, r)

NetworkStep(x) ==
    \/ \E y \in Cores : Dial(x, y)
    \/ \E s \in Slots :
           \/ TcpConnected(x, s)
           \/ ClientRunning(x, s)
           \/ Receive(x, s)
           \/ Disconnect(x, s)

Next == \E x \in Cores :
    UserStep(x) \/ (NetworkStep(x) /\ UNCHANGED calls)

Spec == Init /\ [][Next]_vars
-----------------------------------------------------------------------------
(* Properties.                                                              *)

\* A contact that is not flagged as unconfirmed is one whose user has agreed,
\* by asking or by accepting, and so has our own.  The flag is taken away by
\* answers and by normal connections, on both sides in any order.
Consent ==
    \A x, y \in Cores :
        y \in contacts[x] \ unconfirmed[x]
            => <<x, y>> \in agreed /\ <<y, x>> \in agreed

FriendConnection(x, y) ==
    \E s \in WithPeer(x, y) : conn[x][s].friend

\* "When the friend request connection is closed, if the friend request is
\* still not answered, remove the connect: false flag" (wish_api_identity.c):
\* a contact that has not answered is dialled, or its request is under way.
WaitingIsAsked ==
    \A x \in Cores : \A y \in unconfirmed[x] \cap undialled[x] :
        FriendConnection(x, y)

\* The same with the exception the code makes: the flag stays when the
\* connection was closed before its TCP connection was up.
WaitingIsAskedOrUnreached ==
    \A x \in Cores : \A y \in unconfirmed[x] \cap undialled[x] :
        FriendConnection(x, y) \/ <<x, y>> \in unreached
-----------------------------------------------------------------------------
(* Liveness.                                                                *)

\* The other end is gone: end of file or the ping timeout.
Lost(x, s) == /\ conn[x][s].far = 0 /\ conn[x][s].ts \in {"MAKING", "RUNNING"}
              /\ Disconnect(x, s)

\* A connection is closed that could have gone on.
Failure == \E x \in Cores, s \in Slots :
               /\ conn'[x][s] = Free
               /\ Disconnect(x, s) /\ ~Lost(x, s)

\* Contacts are dialled every minute, the main loop reads what arrives and
\* notices what is closed.  Connections may fail any number of times, but not
\* for ever.
FairSpec ==
    /\ Spec
    /\ <>[][~Failure]_vars
    /\ \A x \in Cores :
           WF_vars(UNCHANGED calls /\ \E y \in Cores : Dial(x, y))
    /\ \A x \in Cores, s \in Slots :
           WF_vars(/\ UNCHANGED calls
                   /\ \/ TcpConnected(x, s)
                      \/ ClientRunning(x, s)
                      \/ Receive(x, s)
                      \/ Lost(x, s))

\* Neither dials the other, and for one of them that will stay so.
Stuck(x, y) == /\ y \in undialled[x] /\ x \in undialled[y]
               /\ <<x, y>> \in unreached \/ <<y, x>> \in unreached

\* A request that the other side has agreed to is confirmed in the end,
\* whether the answer arrives or is lost with its connection, unless both
\* are kept from dialling, one of them for good.
AgreedIsConfirmed ==
    \A p \in Asks :
        LET x == p[1]
            y == p[2]
        IN (y \in unconfirmed[x] /\ x \in contacts[y])
               ~> \/ y \notin unconfirmed[x] \/ x \notin contacts[y]
                  \/ Stuck(x, y)
=============================================================================
