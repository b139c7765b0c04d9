------------------------ MODULE FriendRequestsProofs ------------------------
(***************************************************************************)
(* Proofs about friend requests, for any number of cores, slots, RPC ids   *)
(* and calls.                                                              *)
(*                                                                         *)
(* TypeInv is the inductive part that all theorems rest on: the two ends   *)
(* of a connection name each other and one of them is the client, a slot   *)
(* with messages is a live end, and flags and stored requests belong to    *)
(* whom they should.  FriendTypeOK follows from it.                        *)
(***************************************************************************)
EXTENDS FriendRequests, TLAPS

Live(x, s) == conn[x][s].ts \in {"MAKING", "RUNNING"}

\* What a slot satisfies: it is cleared or belongs to another core, and its
\* far end is the other end of the same connection.
EndInv(x, s) ==
    /\ conn[x][s].ts = "FREE" => conn[x][s] = Free
    /\ InUse(x, s) => conn[x][s].peer \in Cores /\ conn[x][s].peer # x
    /\ conn[x][s].far # 0 =>
           LET y == conn[x][s].peer
               t == conn[x][s].far
           IN /\ Live(x, s)
              /\ conn[y][t].peer = x /\ conn[y][t].far = s
              /\ conn[y][t].outgoing <=> ~conn[x][s].outgoing

ConnInv == /\ conn \in [Cores -> [Slots -> Connection]]
           /\ \A x \in Cores, s \in Slots : EndInv(x, s)

InboxType == [Cores -> [Slots -> Seq(Message)]]

\* The messages under way to an end, in the inboxes ib.
MessagesIn(ib, x, s) == {ib[x][s][n] : n \in 1 .. Len(ib[x][s])}

MessageInv(x, s, m) ==
    /\ Live(x, s)
    /\ m.op \in {"handshake", "friendRequest"} => ~conn[x][s].outgoing
    /\ m.op # "handshake" => m.id \in Ids

InboxInv == /\ inbox \in InboxType
            /\ \A x \in Cores, s \in Slots : \A m \in MessagesIn(inbox, x, s) :
                   MessageInv(x, s, m)

ContactsInv ==
    /\ contacts \in [Cores -> SUBSET Cores]
    /\ unconfirmed \in [Cores -> SUBSET Cores]
    /\ undialled \in [Cores -> SUBSET Cores]
    /\ \A x \in Cores : /\ x \notin contacts[x]
                        /\ unconfirmed[x] \subseteq contacts[x]
                        /\ undialled[x] \subseteq contacts[x]

RequestsInv ==
    /\ requests \in [Cores -> SUBSET [peer : Cores, ctx : Slots, id : Ids]]
    /\ \A x \in Cores : \A r \in requests[x] : r.peer # x
    /\ \A x \in Cores : \A q, r \in requests[x] : q.peer = r.peer => q = r

GhostsType == /\ agreed \subseteq Cores \X Cores
              /\ unreached \subseteq Cores \X Cores
              /\ calls \in 0 .. MaxCalls

TypeInv == ConnInv /\ InboxInv /\ ContactsInv /\ RequestsInv /\ GhostsType
-----------------------------------------------------------------------------
(* Pools.                                                                   *)

\* Opening a vacant slot keeps the pools well-formed.
LEMMA OpenedConn ==
    ASSUME ConnInv, NEW x \in Cores, NEW s \in Vacant(x), NEW y \in Cores,
           x # y, NEW f \in BOOLEAN, Opened(x, s, y, f)
    PROVE  /\ ConnInv'
           /\ s \in Slots /\ ~InUse(x, s)
           /\ conn'[x][s] = End("OPENING", y, f, FALSE, 0)
           /\ \A z \in Cores, t \in Slots :
                  ~(z = x /\ t = s) => conn'[z][t] = conn[z][t]
<1>0. FriendRequestsAssumption
  BY FriendRequestsAssumption
<1>1. s \in Slots /\ conn[x][s].ts = "FREE"
  BY DEF Vacant, FirstOf, InUse
<1>2. conn[x][s] = Free
  BY <1>1 DEF ConnInv, EndInv
<1> DEFINE c == End("OPENING", y, f, FALSE, 0)
<1>4. c \in Connection
  BY DEF End, Connection
<1>5. conn'[x][s] = c /\ \A z \in Cores, t \in Slots :
          ~(z = x /\ t = s) => conn'[z][t] = conn[z][t]
  BY <1>1 DEF Opened, ConnInv
<1>6. conn' \in [Cores -> [Slots -> Connection]]
  BY <1>1, <1>4 DEF Opened, ConnInv
<1>7. \A z \in Cores, t \in Slots : EndInv(z, t)'
  <2> SUFFICES ASSUME NEW z \in Cores, NEW t \in Slots
               PROVE  EndInv(z, t)'
    OBVIOUS
  <2>1. CASE z = x /\ t = s
    BY <1>5, <2>1 DEF EndInv, InUse, End
  <2>2. CASE ~(z = x /\ t = s)
    <3>1. conn'[z][t] = conn[z][t]
      BY <1>5, <2>2
    <3>2. EndInv(z, t)
      BY DEF ConnInv
    <3>3. ASSUME conn[z][t].far # 0
          PROVE  LET p == conn[z][t].peer
                     q == conn[z][t].far
                 IN p \in Cores /\ q \in Slots /\ conn'[p][q] = conn[p][q]
      <4>1. conn[z][t].peer \in Cores
        BY <3>2, <3>3 DEF EndInv, Live, InUse
      <4>2. conn[z][t].far \in Slots
        BY <3>3 DEF ConnInv, Connection
      <4>3. conn[conn[z][t].peer][conn[z][t].far].far = t
        BY <3>2, <3>3 DEF EndInv
      <4>4. t # 0
        BY <1>0 DEF Slots, FriendRequestsAssumption
      <4>5. ~(conn[z][t].peer = x /\ conn[z][t].far = s)
        BY <1>2, <4>3, <4>4 DEF Free, End
      <4> QED
        BY <1>5, <4>1, <4>2, <4>5
    <3> QED
      BY <3>1, <3>2, <3>3 DEF EndInv, InUse, Live
  <2> QED
    BY <2>1, <2>2
<1> QED
  BY <1>1, <1>5, <1>6, <1>7 DEF ConnInv, InUse

\* An end that stays as it is, but for the loss of its other end.
Same(x, s) ==
    /\ conn'[x][s].ts = conn[x][s].ts
    /\ conn'[x][s].peer = conn[x][s].peer
    /\ conn'[x][s].friend = conn[x][s].friend
    /\ conn'[x][s].outgoing = conn[x][s].outgoing
    /\ conn'[x][s].id = conn[x][s].id
    /\ conn'[x][s].far \in {0, conn[x][s].far}

\* Closing slots keeps the pools well-formed: both ends of a closed
\* connection know.
LEMMA ClosedConn ==
    ASSUME ConnInv, NEW x \in Cores, NEW S \in SUBSET Slots,
           conn' = Closed(x, S)
    PROVE  /\ ConnInv'
           /\ \A t \in S : conn'[x][t] = Free
           /\ \A z \in Cores, t \in Slots :
                  ~(z = x /\ t \in S) => Same(z, t)
<1>0. FriendRequestsAssumption
  BY FriendRequestsAssumption
<1>1. \A z \in Cores, t \in Slots :
          /\ z = x /\ t \in S => conn'[z][t] = Free
          /\ ~(z = x /\ t \in S) =>
                conn'[z][t] = IF <<z, t>> \in FarEnds(x, S) THEN Cut(conn[z][t])
                              ELSE conn[z][t]
  BY DEF Closed
<1>2. Free \in Connection
  BY DEF Free, End, Connection
<1>3. \A c \in Connection :
          /\ Cut(c) \in Connection /\ Cut(c).far = 0
          /\ Cut(c).ts = c.ts /\ Cut(c).peer = c.peer
          /\ Cut(c).friend = c.friend /\ Cut(c).outgoing = c.outgoing
          /\ Cut(c).id = c.id
  BY DEF Connection, Cut
<1>4. \A z \in Cores, t \in Slots : conn[z][t] \in Connection
  BY DEF ConnInv
<1>5. \A z \in Cores, t \in Slots : conn'[z][t] \in Connection
  BY <1>1, <1>2, <1>3, <1>4
<1>6. conn' \in [Cores -> [Slots -> Connection]]
  <2>1. conn' = [z \in Cores |-> [t \in Slots |-> conn'[z][t]]]
    BY DEF Closed
  <2> QED
    BY <1>5, <2>1
<1>7. \A z \in Cores, t \in Slots : ~(z = x /\ t \in S) => Same(z, t)
  <2> SUFFICES ASSUME NEW z \in Cores, NEW t \in Slots, ~(z = x /\ t \in S)
               PROVE  Same(z, t)
    OBVIOUS
  <2>1. conn[z][t] \in Connection
    BY <1>4
  <2>2. conn'[z][t] = Cut(conn[z][t]) \/ conn'[z][t] = conn[z][t]
    BY <1>1
  <2> QED
    BY <1>3, <2>1, <2>2 DEF Same
<1>8. \A z \in Cores, t \in Slots : EndInv(z, t)'
  <2> SUFFICES ASSUME NEW z \in Cores, NEW t \in Slots
               PROVE  EndInv(z, t)'
    OBVIOUS
  <2>1. CASE z = x /\ t \in S
    <3>1. Free.ts = "FREE" /\ Free.far = 0
      BY DEF Free, End
    <3> QED
      BY <1>1, <2>1, <3>1 DEF EndInv, InUse
  <2>2. CASE ~(z = x /\ t \in S)
    <3>1. EndInv(z, t)
      BY DEF ConnInv
    <3>2. conn[z][t].ts = "FREE" => conn'[z][t] = Free
      <4>1. ASSUME conn[z][t].ts = "FREE"
            PROVE  <<z, t>> \notin FarEnds(x, S)
        <5>1. SUFFICES ASSUME NEW s \in S, conn[x][s].peer = z,
                              conn[x][s].far = t
                       PROVE  FALSE
          BY DEF FarEnds
        <5>2. t # 0
          BY <1>0 DEF Slots, FriendRequestsAssumption
        <5>3. conn[z][t].far = s
          BY <5>1, <5>2 DEF ConnInv, EndInv
        <5>4. s # 0
          BY <1>0 DEF Slots, FriendRequestsAssumption
        <5> QED
          BY <3>1, <4>1, <5>3, <5>4 DEF EndInv, Free, End
      <4> QED
        BY <1>1, <2>2, <3>1, <4>1 DEF EndInv
    <3>3. ASSUME conn'[z][t].far # 0
          PROVE  /\ Live(z, t)
                 /\ LET p == conn[z][t].peer
                        q == conn[z][t].far
                    IN /\ conn'[p][q].peer = z /\ conn'[p][q].far = t
                       /\ conn'[p][q].outgoing <=> ~conn[z][t].outgoing
      <4> DEFINE p == conn[z][t].peer
                 q == conn[z][t].far
      <4>1. conn[z][t].far # 0 /\ conn'[z][t] = conn[z][t]
            /\ <<z, t>> \notin FarEnds(x, S)
        <5>1. <<z, t>> \notin FarEnds(x, S)
          BY <1>1, <1>3, <1>4, <2>2, <3>3
        <5> QED
          BY <5>1, <1>1, <2>2, <3>3
      <4>2. /\ Live(z, t) /\ p \in Cores /\ q \in Slots
            /\ conn[p][q].peer = z /\ conn[p][q].far = t
            /\ conn[p][q].outgoing <=> ~conn[z][t].outgoing
        <5>1. p \in Cores
          BY <3>1, <4>1 DEF EndInv, InUse, Live
        <5>2. q \in Slots
          BY <1>4, <4>1 DEF Connection
        <5> QED
          BY <3>1, <4>1, <5>1, <5>2 DEF EndInv
      <4>3. ~(p = x /\ q \in S)
        BY <4>1, <4>2 DEF FarEnds
      <4>4. <<p, q>> \notin FarEnds(x, S)
        <5>1. SUFFICES ASSUME NEW s \in S, conn[x][s].peer = p,
                              conn[x][s].far = q
                       PROVE  FALSE
          BY DEF FarEnds
        <5>2. q # 0
          BY <4>1
        <5>3. conn[p][q].peer = x /\ conn[p][q].far = s
          BY <5>1, <5>2 DEF ConnInv, EndInv
        <5> QED
          BY <2>2, <4>2, <5>3
      <4>5. conn'[p][q] = conn[p][q]
        BY <1>1, <4>2, <4>3, <4>4
      <4> QED
        BY <4>2, <4>5
    <3>4. Same(z, t)
      BY <1>7, <2>2
    <3>5. InUse(z, t)' => conn'[z][t].peer \in Cores /\ conn'[z][t].peer # z
      BY <3>1, <3>4 DEF EndInv, InUse, Same
    <3>6. conn'[z][t].ts = "FREE" => conn'[z][t] = Free
      BY <3>2, <3>4 DEF Same
    <3>7. conn'[z][t].far # 0 => /\ conn'[z][t].far = conn[z][t].far
                                /\ conn'[z][t].peer = conn[z][t].peer
                                /\ conn'[z][t].ts = conn[z][t].ts
                                /\ conn'[z][t].outgoing = conn[z][t].outgoing
      BY <3>4 DEF Same
    <3> QED
      BY <3>3, <3>5, <3>6, <3>7 DEF EndInv, Live
  <2> QED
    BY <2>1, <2>2
<1> QED
  BY <1>1, <1>6, <1>7, <1>8 DEF ConnInv

\* A step of the protocol keeps the peer, the far end and the role.
LEMMA UpdatedConn ==
    ASSUME ConnInv, NEW x \in Cores, NEW s \in Slots, NEW c \in Connection,
           Live(x, s), c.ts \in {"MAKING", "RUNNING"},
           c.peer = conn[x][s].peer, c.far = conn[x][s].far,
           c.outgoing = conn[x][s].outgoing,
           conn' = [conn EXCEPT ![x][s] = c]
    PROVE  /\ ConnInv'
           /\ conn'[x][s] = c
           /\ \A z \in Cores, t \in Slots :
                  ~(z = x /\ t = s) => conn'[z][t] = conn[z][t]
<1>1. conn'[x][s] = c /\ \A z \in Cores, t \in Slots :
          ~(z = x /\ t = s) => conn'[z][t] = conn[z][t]
  BY DEF ConnInv
<1>2. conn' \in [Cores -> [Slots -> Connection]]
  BY DEF ConnInv
<1>3. \A z \in Cores, t \in Slots :
          /\ conn'[z][t].peer = conn[z][t].peer
          /\ conn'[z][t].far = conn[z][t].far
          /\ conn'[z][t].outgoing = conn[z][t].outgoing
          /\ Live(z, t)' <=> Live(z, t)
          /\ InUse(z, t)' <=> InUse(z, t)
  BY <1>1 DEF Live, InUse
<1>4. \A z \in Cores, t \in Slots : EndInv(z, t)'
  <2> SUFFICES ASSUME NEW z \in Cores, NEW t \in Slots
               PROVE  EndInv(z, t)'
    OBVIOUS
  <2>1. EndInv(z, t)
    BY DEF ConnInv
  <2>2. conn'[z][t].ts = "FREE" => conn'[z][t] = Free
    BY <1>1, <2>1 DEF EndInv
  <2>3. conn[z][t].far # 0 =>
            conn[z][t].peer \in Cores /\ conn[z][t].far \in Slots
    BY <2>1 DEF EndInv, Live, InUse, ConnInv, Connection
  <2>4. InUse(z, t)' => conn'[z][t].peer \in Cores /\ conn'[z][t].peer # z
    BY <1>3, <2>1 DEF EndInv
  <2>5. ASSUME conn'[z][t].far # 0
        PROVE  LET y == conn'[z][t].peer
                   f == conn'[z][t].far
               IN /\ Live(z, t)'
                  /\ conn'[y][f].peer = z /\ conn'[y][f].far = t
                  /\ conn'[y][f].outgoing <=> ~conn'[z][t].outgoing
    <3>1. conn'[z][t].peer = conn[z][t].peer /\ conn'[z][t].far = conn[z][t].far
          /\ conn'[z][t].outgoing = conn[z][t].outgoing
      BY <1>3
    <3>2. conn[z][t].far # 0
      BY <2>5, <3>1
    <3>3. /\ conn[conn[z][t].peer][conn[z][t].far].peer = z
          /\ conn[conn[z][t].peer][conn[z][t].far].far = t
          /\ conn[conn[z][t].peer][conn[z][t].far].outgoing
                 <=> ~conn[z][t].outgoing
          /\ Live(z, t)
      BY <2>1, <3>2 DEF EndInv
    <3>4. LET y == conn[z][t].peer
              f == conn[z][t].far
          IN /\ conn'[y][f].peer = conn[y][f].peer
             /\ conn'[y][f].far = conn[y][f].far
             /\ conn'[y][f].outgoing = conn[y][f].outgoing
      BY <1>3, <2>3, <3>2
    <3>5. Live(z, t)'
      BY <1>3, <3>3
    <3> QED
      BY <3>1, <3>3, <3>4, <3>5
  <2> QED
    BY <2>2, <2>4, <2>5 DEF EndInv
<1> QED
  BY <1>1, <1>2, <1>4 DEF ConnInv
-----------------------------------------------------------------------------
(* Messages.                                                                *)

\* Emptying slots takes their messages away and no others.
LEMMA EmptiedMessages ==
    ASSUME NEW ib \in InboxType, NEW x \in Cores, NEW S \in SUBSET Slots
    PROVE  /\ Emptied(x, S, ib) \in InboxType
           /\ \A z \in Cores, t \in Slots :
                  MessagesIn(Emptied(x, S, ib), z, t) =
                      IF z = x /\ t \in S THEN {} ELSE MessagesIn(ib, z, t)
<1>1. Emptied(x, S, ib) \in InboxType
  BY DEF Emptied, InboxType
<1>2. \A z \in Cores, t \in Slots :
          Emptied(x, S, ib)[z][t] =
              IF z = x /\ t \in S THEN <<>> ELSE ib[z][t]
  BY DEF Emptied, InboxType
<1> QED
  BY <1>1, <1>2 DEF MessagesIn

\* Appending to the messages of one end.
LEMMA AppendedMessages ==
    ASSUME NEW ib \in InboxType, NEW x \in Cores, NEW s \in Slots,
           NEW m \in Message, NEW jb, jb[x][s] = Append(ib[x][s], m),
           \A z \in Cores, t \in Slots :
               ~(z = x /\ t = s) => jb[z][t] = ib[z][t]
    PROVE  \A z \in Cores, t \in Slots :
               MessagesIn(jb, z, t) =
                   MessagesIn(ib, z, t)
                       \cup (IF z = x /\ t = s THEN {m} ELSE {})
<1>2. ib[x][s] \in Seq(Message) /\ Append(ib[x][s], m) \in Seq(Message)
  BY DEF InboxType
<1>4. MessagesIn(jb, x, s) = MessagesIn(ib, x, s) \cup {m}
  <2>1. /\ Len(jb[x][s]) = Len(ib[x][s]) + 1
        /\ jb[x][s][Len(ib[x][s]) + 1] = m
        /\ \A n \in 1 .. Len(ib[x][s]) : jb[x][s][n] = ib[x][s][n]
    BY <1>2
  <2>2. Len(ib[x][s]) \in Nat
    BY <1>2
  <2>3. \A n \in 1 .. Len(jb[x][s]) :
            n \in 1 .. Len(ib[x][s]) \/ n = Len(ib[x][s]) + 1
    BY <2>1, <2>2
  <2>4. \A n \in 1 .. Len(ib[x][s]) : n \in 1 .. Len(jb[x][s])
    BY <2>1, <2>2
  <2>5. Len(ib[x][s]) + 1 \in 1 .. Len(jb[x][s])
    BY <2>1, <2>2
  <2>6. ASSUME NEW k \in MessagesIn(jb, x, s)
        PROVE  k \in MessagesIn(ib, x, s) \cup {m}
    <3> PICK n \in 1 .. Len(jb[x][s]) : k = jb[x][s][n]
      BY <2>6 DEF MessagesIn
    <3> QED
      BY <2>1, <2>3 DEF MessagesIn
  <2>7. ASSUME NEW k \in MessagesIn(ib, x, s) \cup {m}
        PROVE  k \in MessagesIn(jb, x, s)
    BY <2>1, <2>4, <2>5 DEF MessagesIn
  <2> QED
    BY <2>6, <2>7
<1> SUFFICES ASSUME NEW z \in Cores, NEW t \in Slots
             PROVE  MessagesIn(jb, z, t) =
                        MessagesIn(ib, z, t)
                            \cup (IF z = x /\ t = s THEN {m} ELSE {})
  OBVIOUS
<1>5. CASE z = x /\ t = s
  BY <1>4, <1>5
<1>6. CASE ~(z = x /\ t = s)
  <2>1. jb[z][t] = ib[z][t]
    BY <1>6
  <2>2. MessagesIn(jb, z, t) = MessagesIn(ib, z, t)
    BY <2>1 DEF MessagesIn
  <2> QED
    BY <1>6, <2>2
<1> QED
  BY <1>5, <1>6

\* Taking the first message of an end.
LEMMA TakenMessages ==
    ASSUME inbox \in InboxType, NEW x \in Cores, NEW s \in Slots, NEW op,
           Received(x, s, op)
    PROVE  /\ Head(inbox[x][s]) \in MessagesIn(inbox, x, s)
           /\ Head(inbox[x][s]) \in Message
           /\ Head(inbox[x][s]).op = op
           /\ Taken(x, s) \in InboxType
           /\ \A z \in Cores, t \in Slots :
                  MessagesIn(Taken(x, s), z, t) \subseteq
                      MessagesIn(inbox, z, t)
<1>1. inbox[x][s] \in Seq(Message) /\ inbox[x][s] # <<>>
  BY DEF InboxType, Received
<1>2. Tail(inbox[x][s]) \in Seq(Message)
  BY <1>1
<1>3. Taken(x, s)[x][s] = Tail(inbox[x][s])
      /\ \A z \in Cores, t \in Slots :
             ~(z = x /\ t = s) => Taken(x, s)[z][t] = inbox[z][t]
  BY DEF InboxType, Taken
<1>4. Taken(x, s) \in InboxType
  BY <1>2 DEF InboxType, Taken
<1>5. Head(inbox[x][s]) = inbox[x][s][1] /\ 1 \in 1 .. Len(inbox[x][s])
  BY <1>1
<1>6. MessagesIn(Taken(x, s), x, s) \subseteq MessagesIn(inbox, x, s)
  <2>1. \A n \in 1 .. Len(Tail(inbox[x][s])) :
            /\ n + 1 \in 1 .. Len(inbox[x][s])
            /\ Tail(inbox[x][s])[n] = inbox[x][s][n + 1]
    BY <1>1
  <2> QED
    BY <1>3, <2>1 DEF MessagesIn
<1>7. inbox[x][s][1] \in Message
  BY <1>1, <1>5
<1>8. \A z \in Cores, t \in Slots :
          MessagesIn(Taken(x, s), z, t) \subseteq MessagesIn(inbox, z, t)
  <2> SUFFICES ASSUME NEW z \in Cores, NEW t \in Slots
               PROVE  MessagesIn(Taken(x, s), z, t)
                          \subseteq MessagesIn(inbox, z, t)
    OBVIOUS
  <2>1. CASE z = x /\ t = s
    BY <1>6, <2>1
  <2>2. CASE ~(z = x /\ t = s)
    BY <1>3, <2>2 DEF MessagesIn
  <2> QED
    BY <2>1, <2>2
<1>9. Head(inbox[x][s]) \in MessagesIn(inbox, x, s)
  BY <1>5 DEF MessagesIn
<1> QED
  BY <1>4, <1>5, <1>7, <1>8, <1>9 DEF Received

\* A message that is sent arrives at the far end, or nowhere.
LEMMA SentMessages ==
    ASSUME ConnInv, inbox \in InboxType, NEW x \in Cores, NEW s \in Slots,
           NEW m \in Message
    PROVE  /\ Sent(x, s, m) \in InboxType
           /\ \A z \in Cores, t \in Slots :
                  \A k \in MessagesIn(Sent(x, s, m), z, t) :
                      \/ k \in MessagesIn(inbox, z, t)
                      \/ /\ k = m /\ conn[x][s].far # 0
                         /\ z = conn[x][s].peer /\ t = conn[x][s].far
<1>1. CASE conn[x][s].ts = "RUNNING" /\ conn[x][s].far # 0
  <2>1. conn[x][s].peer \in Cores /\ conn[x][s].far \in Slots
    BY <1>1 DEF ConnInv, EndInv, Connection, InUse
  <2>2. Sent(x, s, m) = [inbox EXCEPT ![conn[x][s].peer][conn[x][s].far] =
                                          Append(@, m)]
    BY <1>1 DEF Sent
  <2> DEFINE y == conn[x][s].peer
             f == conn[x][s].far
  <2>3. /\ Sent(x, s, m) \in InboxType
        /\ \A z \in Cores, t \in Slots :
               MessagesIn(Sent(x, s, m), z, t) =
                   MessagesIn(inbox, z, t)
                       \cup (IF z = y /\ t = f THEN {m} ELSE {})
    <3>1. y \in Cores /\ f \in Slots
      BY <2>1
    <3>2. Sent(x, s, m) = [inbox EXCEPT ![y][f] = Append(@, m)]
      BY <2>2
    <3> HIDE DEF y, f
    <3> DEFINE jb == Sent(x, s, m)
    <3>3. Append(inbox[y][f], m) \in Seq(Message)
      BY <3>1 DEF InboxType
    <3>4. /\ jb \in InboxType
          /\ jb[y][f] = Append(inbox[y][f], m)
          /\ \A z \in Cores, t \in Slots :
                 ~(z = y /\ t = f) => jb[z][t] = inbox[z][t]
      BY <3>1, <3>2, <3>3 DEF InboxType
    <3> HIDE DEF jb
    <3>5. \A z \in Cores, t \in Slots :
              MessagesIn(jb, z, t) =
                  MessagesIn(inbox, z, t)
                      \cup (IF z = y /\ t = f THEN {m} ELSE {})
      BY <3>1, <3>4, AppendedMessages
    <3> QED
      BY <3>4, <3>5 DEF jb
  <2> QED
    BY <1>1, <2>3
<1>2. CASE ~(conn[x][s].ts = "RUNNING" /\ conn[x][s].far # 0)
  BY <1>2 DEF Sent
<1> QED
  BY <1>1, <1>2
-----------------------------------------------------------------------------
(* Closing.                                                                 *)

\* Both ends of a connection are live, and of different cores.
LEMMA FarEnd ==
    ASSUME ConnInv, NEW x \in Cores, NEW s \in Slots, conn[x][s].far # 0
    PROVE  LET y == conn[x][s].peer
               t == conn[x][s].far
           IN /\ y \in Cores /\ y # x /\ t \in Slots
              /\ Live(x, s) /\ Live(y, t)
              /\ conn[y][t].peer = x /\ conn[y][t].far = s
              /\ conn[y][t].outgoing <=> ~conn[x][s].outgoing
<1>0. s # 0
  BY FriendRequestsAssumption DEF Slots, FriendRequestsAssumption
<1>1. EndInv(x, s) /\ conn[x][s] \in Connection
  BY DEF ConnInv
<1> DEFINE y == conn[x][s].peer
           t == conn[x][s].far
<1>2. /\ Live(x, s) /\ conn[y][t].peer = x /\ conn[y][t].far = s
      /\ conn[y][t].outgoing <=> ~conn[x][s].outgoing
  BY <1>1 DEF EndInv
<1>3. y \in Cores /\ y # x /\ t \in Slots
  BY <1>1, <1>2 DEF EndInv, Live, InUse, Connection
<1>4. EndInv(y, t)
  BY <1>3 DEF ConnInv
<1>5. Live(y, t)
  BY <1>0, <1>2, <1>4 DEF EndInv
<1> QED
  BY <1>2, <1>3, <1>5

\* What a close does, whatever was sent before it.
LEMMA CloseStep ==
    ASSUME ConnInv, NEW x \in Cores, NEW S \in SUBSET Slots,
           NEW ib \in InboxType, conn' = Closed(x, S),
           inbox' = Emptied(x, S, ib),
           \A z \in Cores, t \in Slots : \A k \in MessagesIn(ib, z, t) :
               MessageInv(z, t, k)
    PROVE  /\ ConnInv' /\ InboxInv'
           /\ \A t \in S : conn'[x][t] = Free
           /\ \A z \in Cores, t \in Slots :
                  ~(z = x /\ t \in S) => Same(z, t)
           /\ \A z \in Cores, t \in Slots : \A k \in MessagesIn(inbox', z, t) :
                  k \in MessagesIn(ib, z, t) /\ Same(z, t)
<1>1. /\ ConnInv'
      /\ \A t \in S : conn'[x][t] = Free
      /\ \A z \in Cores, t \in Slots : ~(z = x /\ t \in S) => Same(z, t)
  BY ClosedConn
<1>2. /\ inbox' \in InboxType
      /\ \A z \in Cores, t \in Slots :
             MessagesIn(inbox', z, t) =
                 IF z = x /\ t \in S THEN {} ELSE MessagesIn(ib, z, t)
  BY EmptiedMessages
<1>3. \A z \in Cores, t \in Slots : \A k \in MessagesIn(inbox', z, t) :
          k \in MessagesIn(ib, z, t) /\ Same(z, t)
  BY <1>1, <1>2
<1>4. \A z \in Cores, t \in Slots : \A k \in MessagesIn(inbox', z, t) :
          MessageInv(z, t, k)'
  BY <1>3 DEF MessageInv, Same, Live
<1> QED
  BY <1>1, <1>2, <1>3, <1>4 DEF InboxInv
-----------------------------------------------------------------------------
(* The client's side of the protocol.                                       *)

\* A TCP connection that comes up makes one end or two.
LEMMA TcpConn ==
    ASSUME ConnInv, NEW x \in Cores, NEW s \in Slots, TcpConnected(x, s)
    PROVE  /\ ConnInv'
           /\ conn[x][s].ts = "OPENING" /\ conn[x][s].peer \in Cores
           /\ conn[x][s].peer # x
           /\ conn'[x][s].ts = "MAKING"
           /\ conn'[x][s].peer = conn[x][s].peer
           /\ conn'[x][s].friend = conn[x][s].friend
           /\ conn'[x][s].outgoing
           /\ conn'[x][s].far # 0 => Welcome(x, s)
           /\ \A z \in Cores, q \in Slots : ~(z = x /\ q = s) =>
                  \/ conn'[z][q] = conn[z][q]
                  \/ /\ ~InUse(z, q) /\ z = conn[x][s].peer
                     /\ conn'[z][q] = End("MAKING", x, conn[x][s].friend,
                                          FALSE, s)
<1>0. FriendRequestsAssumption
  BY FriendRequestsAssumption
<1> DEFINE y == conn[x][s].peer
           f == conn[x][s].friend
           made(far) == End("MAKING", y, f, TRUE, far)
           server == End("MAKING", x, f, FALSE, s)
<1>1. /\ conn[x][s].ts = "OPENING" /\ conn[x][s] \in Connection
      /\ EndInv(x, s) /\ y \in Cores /\ y # x /\ f \in BOOLEAN
  BY DEF TcpConnected, ConnInv, EndInv, InUse, Connection
<1>2. s # 0 /\ \A t \in Slots : t # 0
  BY <1>0 DEF Slots, FriendRequestsAssumption
<1>3. \A z \in Cores, q \in Slots :
          conn[z][q].far # 0 =>
              LET p == conn[z][q].peer
                  g == conn[z][q].far
              IN /\ p \in Cores /\ p # z /\ g \in Slots
                 /\ Live(z, q) /\ Live(p, g)
                 /\ conn[p][g].peer = z /\ conn[p][g].far = q
                 /\ conn[p][g].outgoing <=> ~conn[z][q].outgoing
  BY FarEnd
<1>4. CASE \E t \in Vacant(y) :
               /\ Welcome(x, s)
               /\ conn' = [conn EXCEPT ![x][s] = made(t), ![y][t] = server]
  <2>1. PICK t \in Vacant(y) :
               /\ Welcome(x, s)
               /\ conn' = [conn EXCEPT ![x][s] = made(t), ![y][t] = server]
    BY <1>4
  <2>2. t \in Slots /\ ~InUse(y, t)
    BY DEF Vacant, FirstOf
  <2>3. made(t) \in Connection /\ server \in Connection
    BY <1>1, <2>2 DEF End, Connection
  <2> HIDE DEF y, f, made, server
  <2>4. conn' \in [Cores -> [Slots -> Connection]]
    BY <1>1, <2>1, <2>2, <2>3 DEF ConnInv
  <2>5. /\ conn'[x][s] = made(t) /\ conn'[y][t] = server
        /\ \A z \in Cores, q \in Slots :
               ~(z = x /\ q = s) /\ ~(z = y /\ q = t) =>
                   conn'[z][q] = conn[z][q]
    BY <1>1, <2>1, <2>2 DEF ConnInv
  <2>6. /\ made(t).ts = "MAKING" /\ made(t).peer = y /\ made(t).friend = f
        /\ made(t).outgoing = TRUE /\ made(t).far = t
        /\ server.ts = "MAKING" /\ server.peer = x /\ server.friend = f
        /\ server.outgoing = FALSE /\ server.far = s
    BY DEF made, server, End
  <2>7. \A z \in Cores, q \in Slots : EndInv(z, q)'
    <3> SUFFICES ASSUME NEW z \in Cores, NEW q \in Slots
                 PROVE  EndInv(z, q)'
      OBVIOUS
    <3>1. CASE z = x /\ q = s
      BY <1>1, <2>2, <2>5, <2>6, <3>1 DEF EndInv, Live, InUse
    <3>2. CASE z = y /\ q = t
      BY <1>1, <2>2, <2>5, <2>6, <3>2 DEF EndInv, Live, InUse
    <3>3. CASE ~(z = x /\ q = s) /\ ~(z = y /\ q = t)
      <4>1. conn'[z][q] = conn[z][q] /\ EndInv(z, q)
        BY <2>5, <3>3 DEF ConnInv
      <4>2. ASSUME conn[z][q].far # 0
            PROVE  LET p == conn[z][q].peer
                       g == conn[z][q].far
                   IN conn'[p][g] = conn[p][g]
        <5>1. LET p == conn[z][q].peer
                  g == conn[z][q].far
              IN p \in Cores /\ g \in Slots /\ Live(p, g)
          BY <1>3, <4>2
        <5> QED
          BY <5>1, <1>1, <2>2, <2>5 DEF Live, InUse
      <4> QED
        BY <4>1, <4>2 DEF EndInv, Live, InUse
    <3> QED
      BY <3>1, <3>2, <3>3
  <2>8. ConnInv'
    BY <2>4, <2>7 DEF ConnInv
  <2>9. conn'[x][s].peer = conn[x][s].peer /\ conn'[x][s].friend = conn[x][s].friend
    BY <2>5, <2>6 DEF y, f
  <2>10. \A z \in Cores, q \in Slots : ~(z = x /\ q = s) =>
             \/ conn'[z][q] = conn[z][q]
             \/ /\ ~InUse(z, q) /\ z = conn[x][s].peer
                /\ conn'[z][q] = End("MAKING", x, conn[x][s].friend, FALSE, s)
    BY <2>2, <2>5 DEF y, f, server
  <2> QED
    BY <1>1, <2>1, <2>5, <2>6, <2>8, <2>9, <2>10 DEF y
<1>5. CASE conn' = [conn EXCEPT ![x][s] = made(0)]
  <2>1. made(0) \in Connection
    BY <1>1 DEF End, Connection
  <2>2. /\ made(0).ts = "MAKING" /\ made(0).peer = y /\ made(0).friend = f
        /\ made(0).outgoing = TRUE /\ made(0).far = 0
    BY DEF End
  <2> HIDE DEF y, f, made
  <2>3. conn' \in [Cores -> [Slots -> Connection]]
    BY <1>5, <2>1 DEF ConnInv
  <2>4. /\ conn'[x][s] = made(0)
        /\ \A z \in Cores, q \in Slots :
               ~(z = x /\ q = s) => conn'[z][q] = conn[z][q]
    BY <1>5 DEF ConnInv
  <2>5. \A z \in Cores, q \in Slots : EndInv(z, q)'
    <3> SUFFICES ASSUME NEW z \in Cores, NEW q \in Slots
                 PROVE  EndInv(z, q)'
      OBVIOUS
    <3>1. CASE z = x /\ q = s
      BY <1>1, <2>2, <2>4, <3>1 DEF EndInv, Live, InUse
    <3>2. CASE ~(z = x /\ q = s)
      <4>1. conn'[z][q] = conn[z][q] /\ EndInv(z, q)
        BY <2>4, <3>2 DEF ConnInv
      <4>2. ASSUME conn[z][q].far # 0
            PROVE  LET p == conn[z][q].peer
                       g == conn[z][q].far
                   IN conn'[p][g] = conn[p][g]
        <5>1. LET p == conn[z][q].peer
                  g == conn[z][q].far
              IN p \in Cores /\ g \in Slots /\ Live(p, g)
          BY <1>3, <4>2
        <5> QED
          BY <5>1, <1>1, <2>4 DEF Live
      <4> QED
        BY <4>1, <4>2 DEF EndInv, Live, InUse
    <3> QED
      BY <3>1, <3>2
  <2>6. ConnInv'
    BY <2>3, <2>5 DEF ConnInv
  <2>7. conn'[x][s].peer = conn[x][s].peer /\ conn'[x][s].friend = conn[x][s].friend
    BY <2>2, <2>4 DEF y, f
  <2> QED
    BY <1>1, <2>2, <2>4, <2>6, <2>7 DEF y
<1> QED
  BY <1>4, <1>5 DEF TcpConnected

\* An end whose connection goes on.
Kept(x, s) ==
    /\ conn'[x][s].peer = conn[x][s].peer
    /\ conn'[x][s].friend = conn[x][s].friend
    /\ conn'[x][s].outgoing = conn[x][s].outgoing
    /\ conn'[x][s].far = conn[x][s].far
    /\ conn'[x][s].ts # conn[x][s].ts => Live(x, s) /\ Live(x, s)'

\* The client's last frame of the handshake, and its friend request.
LEMMA ClientStep ==
    ASSUME ConnInv, InboxInv, NEW x \in Cores, NEW s \in Slots,
           ClientRunning(x, s)
    PROVE  /\ ConnInv' /\ InboxInv'
           /\ Live(x, s) /\ conn[x][s].outgoing /\ conn[x][s].far # 0
           /\ \A z \in Cores, q \in Slots :
                  /\ Kept(z, q)
                  /\ \A k \in MessagesIn(inbox', z, q) :
                         \/ k \in MessagesIn(inbox, z, q)
                         \/ k.op \in {"handshake", "friendRequest"}
<1>1. /\ Live(x, s) /\ conn[x][s].outgoing /\ conn[x][s].far # 0
      /\ conn[x][s] \in Connection
  <2>1. conn[x][s] \in Connection
    BY DEF ConnInv
  <2> QED
    BY <2>1 DEF ClientRunning, Live
<1>2. PICK y \in Cores, f \in Slots :
          /\ y = conn[x][s].peer /\ f = conn[x][s].far
          /\ y # x /\ Live(y, f) /\ ~conn[y][f].outgoing
  BY <1>1, FarEnd
<1> DEFINE shake == [op |-> "handshake", id |-> NoId]
           request(i) == [op |-> "friendRequest", id |-> i]
<1>3. shake \in Message
  BY DEF Message
<1>8. \A i \in Ids : request(i) \in Message
  BY DEF Message
<1>9. y \in Cores /\ f \in Slots
  OBVIOUS
<1>4. shake.op = "handshake" /\ \A i \in Ids :
          request(i).op = "friendRequest" /\ request(i).id = i
  OBVIOUS
<1>5. inbox \in InboxType
  BY DEF InboxInv
<1>6. CASE conn[x][s].friend
  <2>1. PICK i \in Ids :
            /\ conn' = [conn EXCEPT ![x][s].ts = "RUNNING", ![x][s].id = i]
            /\ inbox' = [inbox EXCEPT ![y][f] = @ \o <<shake, request(i)>>]
    BY <1>2, <1>6 DEF ClientRunning
  <2> DEFINE c == [conn[x][s] EXCEPT !.ts = "RUNNING", !.id = i]
             ib == [inbox EXCEPT ![y][f] = Append(@, shake)]
  <2>2. /\ c \in Connection /\ c.ts = "RUNNING" /\ c.peer = conn[x][s].peer
        /\ c.far = conn[x][s].far /\ c.outgoing = conn[x][s].outgoing
        /\ c.friend = conn[x][s].friend
    BY <1>1 DEF Connection
  <2>3. conn' = [conn EXCEPT ![x][s] = c]
    BY <2>1 DEF ConnInv
  <2> HIDE DEF c
  <2>4. /\ ConnInv' /\ conn'[x][s] = c
        /\ \A z \in Cores, q \in Slots :
               ~(z = x /\ q = s) => conn'[z][q] = conn[z][q]
    BY <1>1, <2>2, <2>3, UpdatedConn
  <2> HIDE DEF shake, request
  <2>5. /\ inbox[y][f] \in Seq(Message)
        /\ Append(inbox[y][f], shake) \in Seq(Message)
        /\ Append(Append(inbox[y][f], shake), request(i)) \in Seq(Message)
        /\ inbox[y][f] \o <<shake, request(i)>>
               = Append(Append(inbox[y][f], shake), request(i))
    BY <1>3, <1>5, <1>8, <1>9 DEF InboxType
  <2>6. /\ ib \in InboxType
        /\ ib[y][f] = Append(inbox[y][f], shake)
        /\ \A z \in Cores, q \in Slots :
               ~(z = y /\ q = f) => ib[z][q] = inbox[z][q]
    BY <1>2, <1>5, <2>5 DEF InboxType
  <2> HIDE DEF ib
  <2>7. /\ inbox' \in InboxType
        /\ inbox'[y][f] = Append(ib[y][f], request(i))
        /\ \A z \in Cores, q \in Slots :
               ~(z = y /\ q = f) => inbox'[z][q] = ib[z][q]
    BY <1>5, <1>9, <2>1, <2>5, <2>6 DEF InboxType
  <2>8. \A z \in Cores, q \in Slots :
            MessagesIn(ib, z, q) =
                MessagesIn(inbox, z, q)
                    \cup (IF z = y /\ q = f THEN {shake} ELSE {})
    BY <1>3, <1>5, <1>9, <2>6, AppendedMessages
  <2>9. \A z \in Cores, q \in Slots :
            MessagesIn(inbox', z, q) =
                MessagesIn(ib, z, q)
                    \cup (IF z = y /\ q = f THEN {request(i)} ELSE {})
    <3>1. request(i) \in Message /\ ib \in InboxType
      BY <1>8, <2>6
    <3> QED
      BY <1>9, <2>7, <3>1, AppendedMessages
  <2>10. \A z \in Cores, q \in Slots :
             Kept(z, q)
    BY <1>1, <2>2, <2>4 DEF Live, Kept
  <2>11. \A z \in Cores, q \in Slots : \A k \in MessagesIn(inbox', z, q) :
             \/ k \in MessagesIn(inbox, z, q)
             \/ z = y /\ q = f /\ k \in {shake, request(i)}
    BY <2>8, <2>9
  <2>12. InboxInv'
    <3>1. \A z \in Cores, q \in Slots : \A k \in MessagesIn(inbox, z, q) :
              MessageInv(z, q, k)'
      BY <2>10 DEF InboxInv, MessageInv, Kept, Live
    <3>2. MessageInv(y, f, shake)' /\ MessageInv(y, f, request(i))'
      BY <1>2, <1>4, <2>10 DEF MessageInv, Kept, Live
    <3> QED
      BY <2>7, <2>11, <3>1, <3>2 DEF InboxInv
  <2> QED
    BY <1>1, <1>4, <2>4, <2>10, <2>11, <2>12
<1>7. CASE ~conn[x][s].friend
  <2>1. /\ conn' = [conn EXCEPT ![x][s].ts = "RUNNING"]
        /\ inbox' = [inbox EXCEPT ![y][f] = Append(@, shake)]
    BY <1>2, <1>7 DEF ClientRunning
  <2> DEFINE c == [conn[x][s] EXCEPT !.ts = "RUNNING"]
  <2>2. /\ c \in Connection /\ c.ts = "RUNNING" /\ c.peer = conn[x][s].peer
        /\ c.far = conn[x][s].far /\ c.outgoing = conn[x][s].outgoing
        /\ c.friend = conn[x][s].friend
    BY <1>1 DEF Connection
  <2>3. conn' = [conn EXCEPT ![x][s] = c]
    BY <2>1 DEF ConnInv
  <2> HIDE DEF c
  <2>4. /\ ConnInv' /\ conn'[x][s] = c
        /\ \A z \in Cores, q \in Slots :
               ~(z = x /\ q = s) => conn'[z][q] = conn[z][q]
    BY <1>1, <2>2, <2>3, UpdatedConn
  <2> HIDE DEF shake, request
  <2>5. Append(inbox[y][f], shake) \in Seq(Message)
    BY <1>3, <1>5, <1>8, <1>9 DEF InboxType
  <2>6. /\ inbox' \in InboxType
        /\ inbox'[y][f] = Append(inbox[y][f], shake)
        /\ \A z \in Cores, q \in Slots :
               ~(z = y /\ q = f) => inbox'[z][q] = inbox[z][q]
    BY <1>2, <1>5, <2>1, <2>5 DEF InboxType
  <2>8. \A z \in Cores, q \in Slots :
            MessagesIn(inbox', z, q) =
                MessagesIn(inbox, z, q)
                    \cup (IF z = y /\ q = f THEN {shake} ELSE {})
    BY <1>3, <1>5, <1>9, <2>6, AppendedMessages
  <2>10. \A z \in Cores, q \in Slots :
             Kept(z, q)
    BY <1>1, <2>2, <2>4 DEF Live, Kept
  <2>11. \A z \in Cores, q \in Slots : \A k \in MessagesIn(inbox', z, q) :
             \/ k \in MessagesIn(inbox, z, q)
             \/ z = y /\ q = f /\ k = shake
    BY <2>8
  <2>12. InboxInv'
    <3>1. \A z \in Cores, q \in Slots : \A k \in MessagesIn(inbox, z, q) :
              MessageInv(z, q, k)'
      BY <2>10 DEF InboxInv, MessageInv, Kept, Live
    <3>2. MessageInv(y, f, shake)'
      BY <1>2, <1>4, <2>10 DEF MessageInv, Kept, Live
    <3> QED
      BY <2>6, <2>11, <3>1, <3>2 DEF InboxInv
  <2> QED
    BY <1>1, <1>4, <2>4, <2>10, <2>11, <2>12
<1> QED
  BY <1>6, <1>7
-----------------------------------------------------------------------------
(* Messages that are taken.                                                 *)

\* A message is taken and its end stays.
LEMMA TakeStep ==
    ASSUME ConnInv, InboxInv, NEW x \in Cores, NEW s \in Slots, NEW op,
           Received(x, s, op), inbox' = Taken(x, s),
           NEW c \in Connection, c.ts \in {"MAKING", "RUNNING"},
           c.peer = conn[x][s].peer, c.friend = conn[x][s].friend,
           c.outgoing = conn[x][s].outgoing, c.far = conn[x][s].far,
           conn' = [conn EXCEPT ![x][s] = c]
    PROVE  /\ ConnInv' /\ InboxInv'
           /\ MessageInv(x, s, Head(inbox[x][s]))
           /\ \A z \in Cores, q \in Slots :
                  /\ Kept(z, q)
                  /\ MessagesIn(inbox', z, q) \subseteq MessagesIn(inbox, z, q)
<1>1. /\ Head(inbox[x][s]) \in MessagesIn(inbox, x, s)
      /\ inbox' \in InboxType
      /\ \A z \in Cores, q \in Slots :
             MessagesIn(inbox', z, q) \subseteq MessagesIn(inbox, z, q)
  BY TakenMessages DEF InboxInv
<1>2. MessageInv(x, s, Head(inbox[x][s]))
  BY <1>1 DEF InboxInv
<1>3. /\ ConnInv' /\ conn'[x][s] = c
      /\ \A z \in Cores, q \in Slots :
             ~(z = x /\ q = s) => conn'[z][q] = conn[z][q]
  BY <1>2, UpdatedConn DEF MessageInv
<1>4. \A z \in Cores, q \in Slots : Kept(z, q)
  BY <1>2, <1>3 DEF MessageInv, Live, Kept
<1>5. \A z \in Cores, q \in Slots : \A k \in MessagesIn(inbox, z, q) :
          MessageInv(z, q, k)'
  BY <1>4 DEF InboxInv, MessageInv, Kept, Live
<1>6. InboxInv'
  BY <1>1, <1>5 DEF InboxInv
<1> QED
  BY <1>1, <1>2, <1>3, <1>4, <1>6

\* The server's side of the handshake.
LEMMA ServerStep ==
    ASSUME ConnInv, InboxInv, NEW x \in Cores, NEW s \in Slots,
           ServerRunning(x, s)
    PROVE  /\ ConnInv' /\ InboxInv'
           /\ Live(x, s) /\ ~conn[x][s].outgoing
           /\ \A z \in Cores, q \in Slots :
                  /\ Kept(z, q)
                  /\ MessagesIn(inbox', z, q) \subseteq MessagesIn(inbox, z, q)
<1>1. conn[x][s] \in Connection
  BY DEF ConnInv
<1> DEFINE c == [conn[x][s] EXCEPT !.ts = "RUNNING"]
<1>2. /\ c \in Connection /\ c.ts = "RUNNING" /\ c.peer = conn[x][s].peer
      /\ c.far = conn[x][s].far /\ c.outgoing = conn[x][s].outgoing
      /\ c.friend = conn[x][s].friend
  BY <1>1 DEF Connection
<1>3. conn' = [conn EXCEPT ![x][s] = c]
  BY DEF ServerRunning, ConnInv
<1> HIDE DEF c
<1>4. Received(x, s, "handshake") /\ inbox' = Taken(x, s)
  BY DEF ServerRunning
<1>5. /\ ConnInv' /\ InboxInv'
      /\ MessageInv(x, s, Head(inbox[x][s]))
      /\ \A z \in Cores, q \in Slots :
             /\ Kept(z, q)
             /\ MessagesIn(inbox', z, q) \subseteq MessagesIn(inbox, z, q)
  BY <1>2, <1>3, <1>4, TakeStep
<1>6. Live(x, s) /\ ~conn[x][s].outgoing
  BY <1>4, <1>5 DEF MessageInv, Received
<1> QED
  BY <1>5, <1>6

\* An answer that is ignored.
LEMMA IgnoredStep ==
    ASSUME ConnInv, InboxInv, NEW x \in Cores, NEW s \in Slots, Ignored(x, s)
    PROVE  /\ ConnInv' /\ InboxInv'
           /\ \A z \in Cores, q \in Slots :
                  /\ Kept(z, q)
                  /\ MessagesIn(inbox', z, q) \subseteq MessagesIn(inbox, z, q)
<1>1. conn[x][s] \in Connection
  BY DEF ConnInv
<1> DEFINE c == [conn[x][s] EXCEPT !.id = NoId]
           d == conn[x][s]
<1>2. /\ c \in Connection /\ c.ts = conn[x][s].ts /\ c.peer = conn[x][s].peer
      /\ c.far = conn[x][s].far /\ c.outgoing = conn[x][s].outgoing
      /\ c.friend = conn[x][s].friend
  BY <1>1 DEF Connection
<1>3. conn' = [conn EXCEPT ![x][s] = c] \/ conn' = [conn EXCEPT ![x][s] = d]
  BY DEF Ignored, ConnInv
<1> HIDE DEF c
<1>4. PICK op \in {"accept", "decline"} : Received(x, s, op)
  BY DEF Ignored
<1>5. inbox' = Taken(x, s)
  BY DEF Ignored
<1>6. Live(x, s)
  <2>1. Head(inbox[x][s]) \in MessagesIn(inbox, x, s)
    BY <1>4, TakenMessages DEF InboxInv
  <2> QED
    BY <2>1 DEF InboxInv, MessageInv
<1>7. conn[x][s].ts \in {"MAKING", "RUNNING"}
  BY <1>6 DEF Live
<1> QED
  BY <1>1, <1>2, <1>3, <1>4, <1>5, <1>7, TakeStep

\* An answer is sent before its connection is closed.
LEMMA AnswerStep ==
    ASSUME ConnInv, InboxInv, NEW x \in Cores, NEW S \in SUBSET Slots,
           NEW q \in Slots, NEW m \in Message, m.op \in {"accept", "decline"},
           m.id \in Ids, conn' = Closed(x, S),
           inbox' = Emptied(x, S, Sent(x, q, m))
    PROVE  /\ ConnInv' /\ InboxInv'
           /\ \A t \in S : conn'[x][t] = Free
           /\ \A z \in Cores, t \in Slots :
                  ~(z = x /\ t \in S) => Same(z, t)
           /\ \A z \in Cores, t \in Slots : \A k \in MessagesIn(inbox', z, t) :
                  /\ Same(z, t)
                  /\ \/ k \in MessagesIn(inbox, z, t)
                     \/ k = m /\ conn[z][t].peer = x /\ z = conn[x][q].peer
<1>1. /\ Sent(x, q, m) \in InboxType
      /\ \A z \in Cores, t \in Slots : \A k \in MessagesIn(Sent(x, q, m), z, t) :
             \/ k \in MessagesIn(inbox, z, t)
             \/ /\ k = m /\ conn[x][q].far # 0
                /\ z = conn[x][q].peer /\ t = conn[x][q].far
  BY SentMessages DEF InboxInv
<1>2. conn[x][q].far # 0 =>
          /\ Live(conn[x][q].peer, conn[x][q].far)
          /\ conn[conn[x][q].peer][conn[x][q].far].peer = x
  BY FarEnd
<1>3. \A z \in Cores, t \in Slots : \A k \in MessagesIn(Sent(x, q, m), z, t) :
          MessageInv(z, t, k)
  <2> SUFFICES ASSUME NEW z \in Cores, NEW t \in Slots,
                      NEW k \in MessagesIn(Sent(x, q, m), z, t)
               PROVE  MessageInv(z, t, k)
    OBVIOUS
  <2>1. CASE k \in MessagesIn(inbox, z, t)
    BY <2>1 DEF InboxInv
  <2>2. CASE /\ k = m /\ conn[x][q].far # 0
             /\ z = conn[x][q].peer /\ t = conn[x][q].far
    BY <1>2, <2>2 DEF MessageInv
  <2> QED
    BY <1>1, <2>1, <2>2
<1> DEFINE ib == Sent(x, q, m)
<1>4. ib \in InboxType /\ inbox' = Emptied(x, S, ib)
      /\ \A z \in Cores, t \in Slots : \A k \in MessagesIn(ib, z, t) :
             MessageInv(z, t, k)
  BY <1>1, <1>3
<1>5. \A z \in Cores, t \in Slots : \A k \in MessagesIn(ib, z, t) :
          \/ k \in MessagesIn(inbox, z, t)
          \/ k = m /\ conn[z][t].peer = x /\ z = conn[x][q].peer
  BY <1>1, <1>2
<1> HIDE DEF ib
<1>6. /\ ConnInv' /\ InboxInv'
      /\ \A t \in S : conn'[x][t] = Free
      /\ \A z \in Cores, t \in Slots : ~(z = x /\ t \in S) => Same(z, t)
      /\ \A z \in Cores, t \in Slots : \A k \in MessagesIn(inbox', z, t) :
             k \in MessagesIn(ib, z, t) /\ Same(z, t)
  BY <1>4, CloseStep
<1> QED
  BY <1>5, <1>6
-----------------------------------------------------------------------------
(* Closing, action by action.                                               *)

\* The slots S of x are cleared, and the other ends know.
ClosedBy(x, S) ==
    /\ \A t \in S : conn'[x][t] = Free
    /\ \A z \in Cores, t \in Slots : ~(z = x /\ t \in S) => Same(z, t)

\* Messages are left only at ends that stay.
NoNewMessages ==
    \A z \in Cores, t \in Slots : \A k \in MessagesIn(inbox', z, t) :
        k \in MessagesIn(inbox, z, t) /\ Same(z, t)

\* Every message is an old one, at an end that stays, or the message m to y
\* on a connection with x.
OneNewMessage(m, x, y) ==
    \A z \in Cores, t \in Slots : \A k \in MessagesIn(inbox', z, t) :
        /\ Same(z, t)
        /\ \/ k \in MessagesIn(inbox, z, t)
           \/ k = m /\ conn[z][t].peer = x /\ z = y

\* A close without a word.
LEMMA QuietClose ==
    ASSUME ConnInv, InboxInv, NEW x \in Cores, NEW S \in SUBSET Slots,
           conn' = Closed(x, S), inbox' = Emptied(x, S, inbox)
    PROVE  ConnInv' /\ InboxInv' /\ ClosedBy(x, S) /\ NoNewMessages
<1>1. inbox \in InboxType
      /\ \A z \in Cores, t \in Slots : \A k \in MessagesIn(inbox, z, t) :
             MessageInv(z, t, k)
  BY DEF InboxInv
<1> QED
  BY <1>1, CloseStep DEF ClosedBy, NoNewMessages

\* A stored request closes the first other connection of the pair.
LEMMA StoreStep ==
    ASSUME ConnInv, InboxInv, NEW x \in Cores, NEW s \in Slots,
           StoreRequest(x, s)
    PROVE  /\ ConnInv' /\ InboxInv' /\ NoNewMessages
           /\ ClosedBy(x, FirstOf(WithPeer(x, conn[x][s].peer) \ {s}))
           /\ FirstOf(WithPeer(x, conn[x][s].peer) \ {s}) \in SUBSET Slots
           /\ Live(x, s) /\ ~conn[x][s].outgoing
           /\ Head(inbox[x][s]).id \in Ids
<1> DEFINE S == FirstOf(WithPeer(x, conn[x][s].peer) \ {s})
           ib == Taken(x, s)
<1>1. S \in SUBSET Slots
  BY DEF FirstOf, WithPeer
<1>2. Received(x, s, "friendRequest")
  BY DEF StoreRequest
<1>3. /\ Head(inbox[x][s]) \in MessagesIn(inbox, x, s)
      /\ ib \in InboxType
      /\ \A z \in Cores, t \in Slots :
             MessagesIn(ib, z, t) \subseteq MessagesIn(inbox, z, t)
  BY <1>2, TakenMessages DEF InboxInv
<1>4. \A z \in Cores, t \in Slots : \A k \in MessagesIn(ib, z, t) :
          MessageInv(z, t, k)
  BY <1>3 DEF InboxInv
<1>5. conn' = Closed(x, S) /\ inbox' = Emptied(x, S, ib)
  BY DEF StoreRequest, Close
<1>6. Live(x, s) /\ ~conn[x][s].outgoing /\ Head(inbox[x][s]).id \in Ids
  BY <1>2, <1>3 DEF InboxInv, MessageInv, Received
<1> HIDE DEF S, ib
<1>7. /\ ConnInv' /\ InboxInv'
      /\ \A t \in S : conn'[x][t] = Free
      /\ \A z \in Cores, t \in Slots : ~(z = x /\ t \in S) => Same(z, t)
      /\ \A z \in Cores, t \in Slots : \A k \in MessagesIn(inbox', z, t) :
             k \in MessagesIn(ib, z, t) /\ Same(z, t)
  BY <1>1, <1>3, <1>4, <1>5, CloseStep
<1>8. ClosedBy(x, S)
  BY <1>7 DEF ClosedBy
<1>9. NoNewMessages
  BY <1>3, <1>7 DEF NoNewMessages
<1> QED
  BY <1>1, <1>6, <1>7, <1>8, <1>9 DEF S

\* A request that is accepted at once is answered before the close.
LEMMA ExistsStep ==
    ASSUME ConnInv, InboxInv, NEW x \in Cores, NEW s \in Slots,
           FriendExists(x, s)
    PROVE  /\ ConnInv' /\ InboxInv' /\ ClosedBy(x, {s})
           /\ OneNewMessage([op |-> "accept", id |-> Head(inbox[x][s]).id], x,
                            conn[x][s].peer)
<1> DEFINE m == [op |-> "accept", id |-> Head(inbox[x][s]).id]
<1>1. Received(x, s, "friendRequest")
  BY DEF FriendExists
<1>2. Head(inbox[x][s]) \in MessagesIn(inbox, x, s)
  BY <1>1, TakenMessages DEF InboxInv
<1>3. Head(inbox[x][s]).id \in Ids
  BY <1>1, <1>2 DEF InboxInv, MessageInv, Received
<1>4. m \in Message /\ m.op = "accept" /\ m.id \in Ids
  BY <1>3 DEF Message
<1>5. conn' = Closed(x, {s}) /\ inbox' = Emptied(x, {s}, Sent(x, s, m))
  BY DEF FriendExists, Close
<1> HIDE DEF m
<1>6. {s} \in SUBSET Slots
  OBVIOUS
<1>7. /\ ConnInv' /\ InboxInv'
      /\ \A t \in {s} : conn'[x][t] = Free
      /\ \A z \in Cores, t \in Slots : ~(z = x /\ t \in {s}) => Same(z, t)
      /\ \A z \in Cores, t \in Slots : \A k \in MessagesIn(inbox', z, t) :
             /\ Same(z, t)
             /\ \/ k \in MessagesIn(inbox, z, t)
                \/ k = m /\ conn[z][t].peer = x /\ z = conn[x][s].peer
  BY <1>4, <1>5, <1>6, AnswerStep
<1>8. ClosedBy(x, {s}) /\ OneNewMessage(m, x, conn[x][s].peer)
  BY <1>7 DEF ClosedBy, OneNewMessage
<1> QED
  BY <1>7, <1>8 DEF m

\* The user's answer goes to the peer of the stored slot, and the first
\* connection of the pair is closed.
LEMMA UserStepAnswer ==
    ASSUME ConnInv, InboxInv, RequestsInv, NEW x \in Cores,
           NEW r \in requests[x], NEW op \in {"accept", "decline"},
           Answer(x, r, op)
    PROVE  /\ ConnInv' /\ InboxInv'
           /\ FirstOf(WithPeer(x, r.peer)) \in SUBSET Slots
           /\ ClosedBy(x, FirstOf(WithPeer(x, r.peer)))
           /\ OneNewMessage([op |-> op, id |-> r.id], x,
                            conn[x][r.ctx].peer)
<1> DEFINE m == [op |-> op, id |-> r.id]
           S == FirstOf(WithPeer(x, r.peer))
           q == r.ctx
<1>1. q \in Slots /\ r.id \in Ids
  BY DEF RequestsInv
<1>2. m \in Message /\ m.op \in {"accept", "decline"} /\ m.id \in Ids
  BY <1>1 DEF Message
<1>3. S \in SUBSET Slots
  BY DEF FirstOf, WithPeer
<1>4. conn' = Closed(x, S)
  BY DEF Answer, Close
<1>5. CASE S = {}
  <2>1. inbox' = inbox
    BY <1>5 DEF Answer
  <2>2. inbox \in InboxType /\ Emptied(x, S, inbox) = inbox
    BY <1>5 DEF InboxInv, InboxType, Emptied
  <2>3. ConnInv' /\ InboxInv' /\ ClosedBy(x, S) /\ NoNewMessages
    BY <1>3, <1>4, <2>1, <2>2, QuietClose
  <2> QED
    BY <1>3, <2>3 DEF NoNewMessages, OneNewMessage
<1>6. CASE S # {}
  <2>1. inbox' = Emptied(x, S, Sent(x, q, m))
    BY <1>6 DEF Answer
  <2> HIDE DEF m, S, q
  <2>2. /\ ConnInv' /\ InboxInv'
        /\ \A t \in S : conn'[x][t] = Free
        /\ \A z \in Cores, t \in Slots : ~(z = x /\ t \in S) => Same(z, t)
        /\ \A z \in Cores, t \in Slots : \A k \in MessagesIn(inbox', z, t) :
               /\ Same(z, t)
               /\ \/ k \in MessagesIn(inbox, z, t)
                  \/ k = m /\ conn[z][t].peer = x /\ z = conn[x][q].peer
    BY <1>1, <1>2, <1>3, <1>4, <2>1, AnswerStep
  <2>3. ClosedBy(x, S) /\ OneNewMessage(m, x, conn[x][q].peer)
    BY <2>2 DEF ClosedBy, OneNewMessage
  <2> QED
    BY <1>3, <2>2, <2>3 DEF m, S, q
<1> QED
  BY <1>5, <1>6
-----------------------------------------------------------------------------
(* Type correctness.                                                        *)

\* The flags after a close.
LEMMA ClosedFlags ==
    ASSUME ConnInv, ContactsInv, GhostsType, NEW x \in Cores,
           NEW S \in SUBSET Slots, NEW kept, CloseFlags(x, S, kept)
    PROVE  /\ undialled' \in [Cores -> SUBSET Cores]
           /\ undialled'[x] \subseteq undialled[x] \cap kept
           /\ \A z \in Cores \ {x} : undialled'[z] = undialled[z]
           /\ unreached' \subseteq Cores \X Cores
<1>1. \A t \in Slots : conn[x][t].ts = "OPENING" => conn[x][t].peer \in Cores
  BY DEF ConnInv, EndInv, InUse
<1>2. unreached' \subseteq Cores \X Cores
  BY <1>1 DEF CloseFlags, Unanswered, GhostsType
<1>3. /\ undialled' \in [Cores -> SUBSET Cores]
      /\ undialled'[x] \subseteq undialled[x] \cap kept
      /\ \A z \in Cores \ {x} : undialled'[z] = undialled[z]
  BY DEF CloseFlags, ContactsInv
<1> QED
  BY <1>2, <1>3

\* Opening keeps everything about types.
LEMMA OpeningType ==
    ASSUME TypeInv, NEW x \in Cores, NEW y \in Cores, x # y,
           NEW f \in BOOLEAN, \E s \in Vacant(x) : Opened(x, s, y, f),
           inbox' = inbox
    PROVE  ConnInv' /\ InboxInv'
<1>1. PICK s \in Vacant(x) : Opened(x, s, y, f)
  OBVIOUS
<1>0. ConnInv
  BY DEF TypeInv
<1>2. /\ ConnInv' /\ s \in Slots /\ ~InUse(x, s)
      /\ \A z \in Cores, t \in Slots :
             ~(z = x /\ t = s) => conn'[z][t] = conn[z][t]
  BY <1>0, <1>1, OpenedConn, ZenonT(30)
<1>3. \A z \in Cores, t \in Slots : Live(z, t) =>
          Live(z, t)' /\ conn'[z][t].outgoing = conn[z][t].outgoing
  BY <1>2 DEF Live, InUse
<1>4. \A z \in Cores, t \in Slots : \A k \in MessagesIn(inbox, z, t) :
          MessageInv(z, t, k)'
  BY <1>3 DEF TypeInv, InboxInv, MessageInv
<1>5. InboxInv'
  BY <1>4 DEF TypeInv, InboxInv
<1> QED
  BY <1>2, <1>5

\* So does a TCP connection that comes up.
LEMMA TcpType ==
    ASSUME TypeInv, NEW x \in Cores, NEW s \in Slots, TcpConnected(x, s)
    PROVE  ConnInv' /\ InboxInv'
<1>1. /\ ConnInv'
      /\ conn[x][s].ts = "OPENING"
      /\ \A z \in Cores, q \in Slots : ~(z = x /\ q = s) =>
             conn'[z][q] = conn[z][q] \/ ~InUse(z, q)
  BY TcpConn DEF TypeInv
<1>2. \A z \in Cores, t \in Slots : Live(z, t) =>
          Live(z, t)' /\ conn'[z][t].outgoing = conn[z][t].outgoing
  BY <1>1 DEF Live, InUse
<1>3. inbox' = inbox
  BY DEF TcpConnected
<1>4. \A z \in Cores, t \in Slots : \A k \in MessagesIn(inbox, z, t) :
          MessageInv(z, t, k)'
  BY <1>2 DEF TypeInv, InboxInv, MessageInv
<1>5. InboxInv'
  BY <1>3, <1>4 DEF TypeInv, InboxInv
<1> QED
  BY <1>1, <1>5

\* The pools and the inboxes stay well-formed.
LEMMA PoolStep ==
    ASSUME TypeInv, Next
    PROVE  ConnInv' /\ InboxInv'
<1>0. ConnInv /\ InboxInv /\ ContactsInv /\ RequestsInv
  BY DEF TypeInv
<1>1. PICK x \in Cores : UserStep(x) \/ NetworkStep(x)
  BY DEF Next
<1>2. ASSUME NEW y \in Cores, FriendRequest(x, y)
      PROVE  ConnInv' /\ InboxInv'
  <2>1. x # y
    BY <1>2, FriendRequestsAssumption
       DEF FriendRequest, FriendRequestsAssumption
  <2> QED
    BY <1>2, <2>1, OpeningType DEF FriendRequest
<1>3. ASSUME NEW y \in Cores, Dial(x, y)
      PROVE  ConnInv' /\ InboxInv'
  <2>1. x # y
    BY <1>0, <1>3 DEF Dial, ContactsInv
  <2> QED
    BY <1>3, <2>1, OpeningType DEF Dial
<1>4. ASSUME NEW y \in Cores, RemoveContact(x, y)
      PROVE  ConnInv' /\ InboxInv'
  <2>1. WithPeer(x, y) \in SUBSET Slots
    BY DEF WithPeer
  <2> QED
    BY <1>0, <1>4, <2>1, QuietClose DEF RemoveContact
<1>5. ASSUME NEW r \in requests[x], AcceptRequest(x, r) \/ DeclineRequest(x, r)
      PROVE  ConnInv' /\ InboxInv'
  <2>1. CASE AcceptRequest(x, r)
    BY <1>0, <2>1, UserStepAnswer DEF AcceptRequest
  <2>2. CASE DeclineRequest(x, r)
    BY <1>0, <2>2, UserStepAnswer DEF DeclineRequest
  <2> QED
    BY <1>5, <2>1, <2>2
<1>6. ASSUME NEW s \in Slots, TcpConnected(x, s)
      PROVE  ConnInv' /\ InboxInv'
  BY <1>6, TcpType
<1>7. ASSUME NEW s \in Slots, ClientRunning(x, s)
      PROVE  ConnInv' /\ InboxInv'
  BY <1>0, <1>7, ClientStep
<1>8. ASSUME NEW s \in Slots, ServerRunning(x, s)
      PROVE  ConnInv' /\ InboxInv'
  BY <1>0, <1>8, ServerStep
<1>9. ASSUME NEW s \in Slots, FriendExists(x, s)
      PROVE  ConnInv' /\ InboxInv'
  BY <1>0, <1>9, ExistsStep
<1>10. ASSUME NEW s \in Slots, StoreRequest(x, s)
       PROVE  ConnInv' /\ InboxInv'
  BY <1>0, <1>10, StoreStep
<1>11. ASSUME NEW s \in Slots, Accepted(x, s) \/ Disconnect(x, s)
       PROVE  ConnInv' /\ InboxInv'
  <2>1. {s} \in SUBSET Slots
    OBVIOUS
  <2>2. conn' = Closed(x, {s}) /\ inbox' = Emptied(x, {s}, inbox)
    BY <1>11 DEF Accepted, Disconnect, Close
  <2> QED
    BY <1>0, <2>1, <2>2, QuietClose
<1>12. ASSUME NEW s \in Slots, Declined(x, s)
       PROVE  ConnInv' /\ InboxInv'
  <2> DEFINE S == {t \in WithPeer(x, conn[x][s].peer) : t <= s}
  <2>1. S \in SUBSET Slots
    BY DEF WithPeer
  <2>2. conn' = Closed(x, S) /\ inbox' = Emptied(x, S, inbox)
    BY <1>12 DEF Declined
  <2> HIDE DEF S
  <2> QED
    BY <1>0, <2>1, <2>2, QuietClose
<1>13. ASSUME NEW s \in Slots, Ignored(x, s)
       PROVE  ConnInv' /\ InboxInv'
  BY <1>0, <1>13, IgnoredStep
<1>14. CASE UserStep(x)
  BY <1>2, <1>4, <1>5, <1>14 DEF UserStep
<1>15. CASE NetworkStep(x)
  BY <1>3, <1>6, <1>7, <1>8, <1>9, <1>10, <1>11, <1>12, <1>13, <1>15
     DEF NetworkStep, Receive
<1> QED
  BY <1>1, <1>14, <1>15

\* Contacts and their flags.
LEMMA ContactsStep ==
    ASSUME TypeInv, Next
    PROVE  ContactsInv'
<1>0. ConnInv /\ ContactsInv /\ RequestsInv /\ GhostsType
  BY DEF TypeInv
<1>1. PICK x \in Cores : UserStep(x) \/ NetworkStep(x)
  BY DEF Next
<1>f. ASSUME NEW S \in SUBSET Slots, NEW kept, CloseFlags(x, S, kept)
      PROVE  /\ undialled' \in [Cores -> SUBSET Cores]
             /\ undialled'[x] \subseteq undialled[x] \cap kept
             /\ \A z \in Cores \ {x} : undialled'[z] = undialled[z]
  BY <1>0, <1>f, ClosedFlags
<1>2. ASSUME NEW y \in Cores, FriendRequest(x, y)
      PROVE  ContactsInv'
  <2>1. x # y
    BY <1>2, FriendRequestsAssumption
       DEF FriendRequest, FriendRequestsAssumption
  <2> QED
    BY <1>0, <1>2, <2>1 DEF FriendRequest, ContactsInv
<1>3. ASSUME UNCHANGED <<contacts, unconfirmed, undialled>>
      PROVE  ContactsInv'
  BY <1>0, <1>3 DEF ContactsInv
<1>4. ASSUME NEW y \in Cores, RemoveContact(x, y)
      PROVE  ContactsInv'
  <2>1. WithPeer(x, y) \in SUBSET Slots
    BY DEF WithPeer
  <2>2. CloseFlags(x, WithPeer(x, y), contacts[x] \ {y})
    BY <1>4 DEF RemoveContact
  <2>3. /\ undialled' \in [Cores -> SUBSET Cores]
        /\ undialled'[x] \subseteq undialled[x] \cap (contacts[x] \ {y})
        /\ \A z \in Cores \ {x} : undialled'[z] = undialled[z]
    BY <1>f, <2>1, <2>2
  <2> QED
    BY <1>0, <1>4, <2>3 DEF RemoveContact, ContactsInv
<1>5. ASSUME NEW r \in requests[x], AcceptRequest(x, r) \/ DeclineRequest(x, r)
      PROVE  ContactsInv'
  <2>1. FirstOf(WithPeer(x, r.peer)) \in SUBSET Slots
    BY DEF FirstOf, WithPeer
  <2>2. CloseFlags(x, FirstOf(WithPeer(x, r.peer)), contacts[x])
    BY <1>5 DEF AcceptRequest, DeclineRequest, Answer, Close
  <2>3. /\ undialled' \in [Cores -> SUBSET Cores]
        /\ undialled'[x] \subseteq undialled[x] \cap contacts[x]
        /\ \A z \in Cores \ {x} : undialled'[z] = undialled[z]
    BY <1>f, <2>1, <2>2
  <2>4. r.peer \in Cores /\ r.peer # x
    BY <1>0 DEF RequestsInv
  <2>5. unconfirmed' = unconfirmed
        /\ (contacts' = [contacts EXCEPT ![x] = @ \cup {r.peer}]
              \/ contacts' = contacts)
    BY <1>5 DEF AcceptRequest, DeclineRequest
  <2> QED
    BY <1>0, <2>3, <2>4, <2>5 DEF ContactsInv
<1>6. ASSUME NEW s \in Slots, TcpConnected(x, s)
      PROVE  ContactsInv'
  BY <1>3, <1>6 DEF TcpConnected
<1>7. ASSUME NEW s \in Slots, ClientRunning(x, s)
      PROVE  ContactsInv'
  <2>1. /\ \/ unconfirmed' = unconfirmed
           \/ unconfirmed' = [unconfirmed EXCEPT ![x] =
                                  @ \ {conn[x][s].peer}]
        /\ UNCHANGED <<contacts, undialled>>
    BY <1>7 DEF ClientRunning, Confirm
  <2> QED
    BY <1>0, <2>1 DEF ContactsInv
<1>8. ASSUME NEW s \in Slots, ServerRunning(x, s)
      PROVE  ContactsInv'
  BY <1>0, <1>8 DEF ServerRunning, Confirm, ContactsInv
<1>9. ASSUME NEW S \in SUBSET Slots, CloseFlags(x, S, contacts[x]),
             UNCHANGED <<contacts, unconfirmed>>
      PROVE  ContactsInv'
  <2>1. /\ undialled' \in [Cores -> SUBSET Cores]
        /\ undialled'[x] \subseteq undialled[x] \cap contacts[x]
        /\ \A z \in Cores \ {x} : undialled'[z] = undialled[z]
    BY <1>f, <1>9
  <2> QED
    BY <1>0, <1>9, <2>1 DEF ContactsInv
<1>10. ASSUME NEW s \in Slots, StoreRequest(x, s)
       PROVE  ContactsInv'
  <2>1. FirstOf(WithPeer(x, conn[x][s].peer) \ {s}) \in SUBSET Slots
    BY DEF FirstOf, WithPeer
  <2> QED
    BY <1>9, <1>10, <2>1 DEF StoreRequest, Close
<1>11. ASSUME NEW s \in Slots, FriendExists(x, s) \/ Disconnect(x, s)
       PROVE  ContactsInv'
  <2>1. {s} \in SUBSET Slots
    OBVIOUS
  <2> QED
    BY <1>9, <1>11, <2>1 DEF FriendExists, Disconnect, Close
<1>12. ASSUME NEW s \in Slots, Accepted(x, s)
       PROVE  ContactsInv'
  BY <1>0, <1>12 DEF Accepted, ContactsInv
<1>13. ASSUME NEW s \in Slots, Declined(x, s)
       PROVE  ContactsInv'
  <2> DEFINE y == conn[x][s].peer
             S == {t \in WithPeer(x, y) : t <= s}
  <2>1. S \in SUBSET Slots
    BY DEF WithPeer
  <2>2. /\ CloseFlags(x, S, contacts[x] \ {y})
        /\ contacts' = [contacts EXCEPT ![x] = @ \ {y}]
        /\ unconfirmed' = [unconfirmed EXCEPT ![x] = @ \ {y}]
    BY <1>13 DEF Declined
  <2> HIDE DEF S, y
  <2>3. /\ undialled' \in [Cores -> SUBSET Cores]
        /\ undialled'[x] \subseteq undialled[x] \cap (contacts[x] \ {y})
        /\ \A z \in Cores \ {x} : undialled'[z] = undialled[z]
    BY <1>f, <2>1, <2>2
  <2> QED
    BY <1>0, <2>2, <2>3 DEF ContactsInv
<1>14. ASSUME NEW s \in Slots, Ignored(x, s)
       PROVE  ContactsInv'
  BY <1>3, <1>14 DEF Ignored
<1>15. ASSUME NEW y \in Cores, Dial(x, y)
       PROVE  ContactsInv'
  BY <1>3, <1>15 DEF Dial
<1>16. CASE UserStep(x)
  BY <1>2, <1>4, <1>5, <1>16 DEF UserStep
<1>17. CASE NetworkStep(x)
  BY <1>6, <1>7, <1>8, <1>10, <1>11, <1>12, <1>13, <1>14, <1>15, <1>17
     DEF NetworkStep, Receive
<1> QED
  BY <1>1, <1>16, <1>17

\* The stored requests.
LEMMA RequestsStep ==
    ASSUME TypeInv, Next
    PROVE  RequestsInv'
<1>0. ConnInv /\ InboxInv /\ RequestsInv
  BY DEF TypeInv
<1>1. PICK x \in Cores : UserStep(x) \/ NetworkStep(x)
  BY DEF Next
<1>2. ASSUME UNCHANGED requests
      PROVE  RequestsInv'
  BY <1>0, <1>2 DEF RequestsInv
<1>3. ASSUME NEW r \in requests[x], AcceptRequest(x, r) \/ DeclineRequest(x, r)
      PROVE  RequestsInv'
  <2>1. requests' = [requests EXCEPT ![x] = @ \ {r}]
    BY <1>3 DEF AcceptRequest, DeclineRequest, Answer
  <2> QED
    BY <1>0, <2>1 DEF RequestsInv
<1>4. ASSUME NEW s \in Slots, StoreRequest(x, s)
      PROVE  RequestsInv'
  <2> DEFINE y == conn[x][s].peer
             r == [peer |-> y, ctx |-> s, id |-> Head(inbox[x][s]).id]
  <2>1. Live(x, s) /\ Head(inbox[x][s]).id \in Ids
    BY <1>0, <1>4, StoreStep
  <2>2. y \in Cores /\ y # x
    BY <1>0, <2>1 DEF ConnInv, EndInv, InUse, Live
  <2>3. requests' = [requests EXCEPT ![x] = {q \in @ : q.peer # y} \cup {r}]
    BY <1>4 DEF StoreRequest, Replaced
  <2>4. r \in [peer : Cores, ctx : Slots, id : Ids] /\ r.peer = y
    BY <2>1, <2>2
  <2> HIDE DEF y, r
  <2>5. requests' \in [Cores -> SUBSET [peer : Cores, ctx : Slots, id : Ids]]
    BY <1>0, <2>3, <2>4 DEF RequestsInv
  <2>6. /\ requests'[x] = {q \in requests[x] : q.peer # y} \cup {r}
        /\ \A z \in Cores \ {x} : requests'[z] = requests[z]
    BY <1>0, <2>3 DEF RequestsInv
  <2> QED
    BY <1>0, <2>2, <2>4, <2>5, <2>6 DEF RequestsInv
<1>5. CASE UserStep(x)
  <2>1. ASSUME NEW y \in Cores, FriendRequest(x, y) \/ RemoveContact(x, y)
        PROVE  RequestsInv'
    BY <1>2, <2>1 DEF FriendRequest, RemoveContact
  <2> QED
    BY <1>3, <1>5, <2>1 DEF UserStep
<1>6. CASE NetworkStep(x)
  <2>1. ASSUME NEW y \in Cores, Dial(x, y)
        PROVE  RequestsInv'
    BY <1>2, <2>1 DEF Dial
  <2>2. ASSUME NEW s \in Slots,
               \/ TcpConnected(x, s) \/ ClientRunning(x, s)
               \/ ServerRunning(x, s) \/ FriendExists(x, s)
               \/ Accepted(x, s) \/ Declined(x, s) \/ Ignored(x, s)
               \/ Disconnect(x, s)
        PROVE  RequestsInv'
    BY <1>2, <2>2 DEF TcpConnected, ClientRunning, ServerRunning, FriendExists,
           Accepted, Declined, Ignored, Disconnect
  <2> QED
    BY <1>4, <1>6, <2>1, <2>2 DEF NetworkStep, Receive
<1> QED
  BY <1>1, <1>5, <1>6

\* The ghost variables and the bound.
LEMMA GhostsStep ==
    ASSUME TypeInv, Next
    PROVE  GhostsType'
<1>0. ConnInv /\ InboxInv /\ ContactsInv /\ RequestsInv /\ GhostsType
  BY DEF TypeInv
<1>1. PICK x \in Cores : UserStep(x) \/ (NetworkStep(x) /\ UNCHANGED calls)
  BY DEF Next
<1>c. calls' \in 0 .. MaxCalls
  BY <1>0, <1>1, FriendRequestsAssumption
     DEF UserStep, GhostsType, FriendRequestsAssumption
<1>f. ASSUME NEW S \in SUBSET Slots, NEW kept, CloseFlags(x, S, kept)
      PROVE  unreached' \subseteq Cores \X Cores
  BY <1>0, <1>f, ClosedFlags
<1>2. ASSUME NEW y \in Cores, FriendRequest(x, y)
      PROVE  agreed' \cup unreached' \subseteq Cores \X Cores
  BY <1>0, <1>2 DEF FriendRequest, GhostsType
<1>3. ASSUME UNCHANGED agreed,
             \/ UNCHANGED unreached
             \/ \E y : unreached' = unreached \ {<<x, y>>}
      PROVE  agreed' \cup unreached' \subseteq Cores \X Cores
  BY <1>0, <1>3 DEF GhostsType
<1>4. ASSUME UNCHANGED agreed, NEW S \in SUBSET Slots, NEW kept,
             CloseFlags(x, S, kept)
      PROVE  agreed' \cup unreached' \subseteq Cores \X Cores
  BY <1>0, <1>4, <1>f DEF GhostsType
<1>5. ASSUME NEW y \in Cores, RemoveContact(x, y)
      PROVE  agreed' \cup unreached' \subseteq Cores \X Cores
  <2>1. WithPeer(x, y) \in SUBSET Slots
    BY DEF WithPeer
  <2> QED
    BY <1>4, <1>5, <2>1 DEF RemoveContact
<1>6. ASSUME NEW r \in requests[x], AcceptRequest(x, r) \/ DeclineRequest(x, r)
      PROVE  agreed' \cup unreached' \subseteq Cores \X Cores
  <2>1. FirstOf(WithPeer(x, r.peer)) \in SUBSET Slots
    BY DEF FirstOf, WithPeer
  <2>2. CloseFlags(x, FirstOf(WithPeer(x, r.peer)), contacts[x])
    BY <1>6 DEF AcceptRequest, DeclineRequest, Answer, Close
  <2>3. r.peer \in Cores
    BY <1>0 DEF RequestsInv
  <2>4. agreed' \subseteq agreed \cup {<<x, r.peer>>}
    BY <1>6 DEF AcceptRequest, DeclineRequest
  <2> QED
    BY <1>0, <1>f, <2>1, <2>2, <2>3, <2>4 DEF GhostsType
<1>7. ASSUME NEW s \in Slots,
             \/ TcpConnected(x, s) \/ ClientRunning(x, s)
             \/ ServerRunning(x, s) \/ Accepted(x, s) \/ Ignored(x, s)
      PROVE  agreed' \cup unreached' \subseteq Cores \X Cores
  BY <1>3, <1>7 DEF TcpConnected, ClientRunning, ServerRunning, Accepted,
         Ignored
<1>8. ASSUME NEW s \in Slots, FriendExists(x, s) \/ Disconnect(x, s)
      PROVE  agreed' \cup unreached' \subseteq Cores \X Cores
  <2>1. {s} \in SUBSET Slots
    OBVIOUS
  <2> QED
    BY <1>4, <1>8, <2>1 DEF FriendExists, Disconnect, Close
<1>9. ASSUME NEW s \in Slots, StoreRequest(x, s)
      PROVE  agreed' \cup unreached' \subseteq Cores \X Cores
  <2>1. FirstOf(WithPeer(x, conn[x][s].peer) \ {s}) \in SUBSET Slots
    BY DEF FirstOf, WithPeer
  <2> QED
    BY <1>4, <1>9, <2>1 DEF StoreRequest, Close
<1>10. ASSUME NEW s \in Slots, Declined(x, s)
       PROVE  agreed' \cup unreached' \subseteq Cores \X Cores
  <2> DEFINE S == {t \in WithPeer(x, conn[x][s].peer) : t <= s}
  <2>1. S \in SUBSET Slots
    BY DEF WithPeer
  <2>2. UNCHANGED agreed /\ CloseFlags(x, S, contacts[x] \ {conn[x][s].peer})
    BY <1>10 DEF Declined
  <2> HIDE DEF S
  <2> QED
    BY <1>4, <2>1, <2>2
<1>11. ASSUME NEW y \in Cores, Dial(x, y)
       PROVE  agreed' \cup unreached' \subseteq Cores \X Cores
  BY <1>3, <1>11 DEF Dial
<1>12. CASE UserStep(x)
  BY <1>2, <1>5, <1>6, <1>c, <1>12 DEF UserStep, GhostsType
<1>13. CASE NetworkStep(x)
  BY <1>7, <1>8, <1>9, <1>10, <1>11, <1>c, <1>13
     DEF NetworkStep, Receive, GhostsType
<1> QED
  BY <1>1, <1>12, <1>13

\* Initially every slot is cleared and nothing is saved.
LEMMA TypeInit == Init => TypeInv
<1> SUFFICES ASSUME Init PROVE TypeInv
  OBVIOUS
<1>1. Free \in Connection /\ Free.ts = "FREE" /\ Free.far = 0
  BY DEF Free, End, Connection
<1>2. \A x \in Cores, s \in Slots : conn[x][s] = Free /\ inbox[x][s] = <<>>
  BY DEF Init
<1>3. ConnInv
  <2>1. conn \in [Cores -> [Slots -> Connection]]
    BY <1>1 DEF Init
  <2> QED
    BY <1>1, <1>2, <2>1 DEF ConnInv, EndInv, InUse
<1>4. InboxInv
  <2>1. inbox \in InboxType
    BY DEF Init, InboxType
  <2>2. \A x \in Cores, s \in Slots : MessagesIn(inbox, x, s) = {}
    BY <1>2 DEF MessagesIn
  <2> QED
    BY <2>1, <2>2 DEF InboxInv
<1>5. ContactsInv /\ RequestsInv
  BY DEF Init, ContactsInv, RequestsInv
<1>6. GhostsType
  BY FriendRequestsAssumption DEF Init, GhostsType, FriendRequestsAssumption
<1> QED
  BY <1>3, <1>4, <1>5, <1>6 DEF TypeInv

LEMMA TypeStep == TypeInv /\ [Next]_vars => TypeInv'
<1> SUFFICES ASSUME TypeInv, [Next]_vars PROVE TypeInv'
  OBVIOUS
<1>1. CASE Next
  BY <1>1, PoolStep, ContactsStep, RequestsStep, GhostsStep DEF TypeInv
<1>2. CASE UNCHANGED vars
  <2>1. ConnInv'
    BY <1>2 DEF vars, TypeInv, ConnInv, EndInv, InUse, Live
  <2>2. InboxInv'
    BY <1>2 DEF vars, TypeInv, InboxInv, MessageInv, MessagesIn, Live
  <2>3. ContactsInv' /\ RequestsInv' /\ GhostsType'
    BY <1>2 DEF vars, TypeInv, ContactsInv, RequestsInv, GhostsType
  <2> QED
    BY <2>1, <2>2, <2>3 DEF TypeInv
<1> QED
  BY <1>1, <1>2

\* The well-formedness of the pools, the inboxes and the lists holds always.
THEOREM TypeSafety == Spec => []TypeInv
BY TypeInit, TypeStep, PTL DEF Spec

\* The type invariant of the runs: flags belong to contacts, a pair has one
\* stored request, and the ends of a connection name each other, with any
\* number of cores and slots.
THEOREM FriendType == Spec => []FriendTypeOK
<1>1. TypeInv => FriendTypeOK
  <2> SUFFICES ASSUME TypeInv PROVE FriendTypeOK
    OBVIOUS
  <2>1. /\ conn \in [Cores -> [Slots -> Connection]]
        /\ inbox \in [Cores -> [Slots -> Seq(Message)]]
    BY DEF TypeInv, ConnInv, InboxInv, InboxType
  <2>2. Free.ts = "FREE"
    BY DEF Free, End
  <2>3. \A x \in Cores, s \in Slots :
            /\ (conn[x][s].ts = "FREE") = (conn[x][s] = Free)
            /\ conn[x][s].far # 0 =>
                   /\ conn[conn[x][s].peer][conn[x][s].far].peer = x
                   /\ conn[conn[x][s].peer][conn[x][s].far].far = s
    BY <2>2 DEF TypeInv, ConnInv, EndInv
  <2>4. /\ \A x \in Cores : unconfirmed[x] \cup undialled[x] \subseteq contacts[x]
        /\ \A x \in Cores : \A q, r \in requests[x] : q.peer = r.peer => q = r
    BY DEF TypeInv, ContactsInv, RequestsInv
  <2> QED
    BY <2>1, <2>3, <2>4 DEF FriendTypeOK, TypeInv, ContactsInv, RequestsInv,
       GhostsType
<1> QED
  BY <1>1, TypeSafety, PTL
-----------------------------------------------------------------------------
(* Who waits for an answer is asked.                                        *)

\* An end on which a friend request has been or will be sent to y.
AsksOn(x, s, y) ==
    /\ conn[x][s].ts = "OPENING" \/ (Live(x, s) /\ conn[x][s].outgoing)
    /\ conn[x][s].peer = y /\ conn[x][s].friend

\* A contact that waits and is not dialled has such an end, or the exception
\* applies.  An end of the server of a friend request connection will not do:
\* it can go without a trace in the flags.
WaitingInv ==
    \A x \in Cores : \A y \in unconfirmed[x] \cap undialled[x] :
        (\E s \in Slots : AsksOn(x, s, y)) \/ <<x, y>> \in unreached

\* A step that closes nothing and takes no end away.
LEMMA WaitingStays ==
    ASSUME TypeInv, WaitingInv, ContactsInv',
           \A x \in Cores : \A y \in unconfirmed'[x] \cap undialled'[x] :
               /\ y \in unconfirmed[x] \cap undialled[x]
               /\ <<x, y>> \in unreached => <<x, y>> \in unreached',
           \A x \in Cores, s \in Slots, y \in Cores :
               AsksOn(x, s, y) => AsksOn(x, s, y)'
    PROVE  WaitingInv'
BY DEF WaitingInv, ContactsInv

\* What a close does to the contacts whose flags stay.
LEMMA WaitingClosed ==
    ASSUME TypeInv, WaitingInv, ContactsInv', NEW x \in Cores,
           NEW S \in SUBSET Slots, ClosedBy(x, S), NEW kept,
           CloseFlags(x, S, kept),
           \A z \in Cores : unconfirmed'[z] \subseteq unconfirmed[z]
    PROVE  WaitingInv'
<1> SUFFICES ASSUME NEW z \in Cores,
                    NEW y \in unconfirmed'[z] \cap undialled'[z]
             PROVE  \/ \E s \in Slots : AsksOn(z, s, y)'
                    \/ <<z, y>> \in unreached'
  BY DEF WaitingInv
<1>0. ContactsInv /\ ConnInv
  BY DEF TypeInv
<1>1. y \in Cores /\ y \in unconfirmed[z]
  BY DEF ContactsInv
<1>2. CASE z # x
  <2>1. y \in undialled[z]
    BY <1>0, <1>2 DEF CloseFlags, ContactsInv
  <2>2. <<z, y>> \in unreached => <<z, y>> \in unreached'
    BY <1>2 DEF CloseFlags
  <2>3. \A s \in Slots : AsksOn(z, s, y) => AsksOn(z, s, y)'
    BY <1>2 DEF ClosedBy, Same, AsksOn, Live
  <2> QED
    BY <1>1, <2>1, <2>2, <2>3 DEF WaitingInv
<1>3. CASE z = x
  <2>1. /\ y \in undialled[x] /\ y \in kept
        /\ y \notin DiallableAgain(x, S)
    BY <1>0, <1>3 DEF CloseFlags, ContactsInv
  <2>2. <<x, y>> \in unreached => <<x, y>> \in unreached'
    BY <2>1 DEF CloseFlags
  <2>3. ASSUME NEW s \in Slots, AsksOn(x, s, y)
        PROVE  AsksOn(x, s, y)' \/ <<x, y>> \in unreached'
    <3>1. CASE s \notin S
      BY <2>3, <3>1 DEF ClosedBy, Same, AsksOn, Live
    <3>2. CASE s \in S
      <4>1. s \in Unanswered(x, S)
        BY <1>1, <1>3, <2>3, <3>2 DEF Unanswered, AsksOn
      <4>2. ~conn[x][s].outgoing
        BY <2>1, <2>3, <4>1 DEF DiallableAgain, AsksOn
      <4>3. conn[x][s].ts = "OPENING" /\ conn[x][s].peer = y
        BY <2>3, <4>2 DEF AsksOn
      <4> QED
        BY <2>1, <4>1, <4>3 DEF CloseFlags
    <3> QED
      BY <3>1, <3>2
  <2> QED
    BY <1>1, <1>3, <2>1, <2>2, <2>3 DEF WaitingInv
<1> QED
  BY <1>2, <1>3

LEMMA WaitingStep ==
    ASSUME TypeInv, TypeInv', WaitingInv, Next
    PROVE  WaitingInv'
<1>0. ConnInv /\ InboxInv /\ ContactsInv /\ ContactsInv' /\ RequestsInv
  BY DEF TypeInv
<1>1. PICK x \in Cores : UserStep(x) \/ NetworkStep(x)
  BY DEF Next
<1>2. ASSUME NEW y \in Cores, FriendRequest(x, y)
      PROVE  WaitingInv'
  <2>1. x # y
    BY <1>2, FriendRequestsAssumption
       DEF FriendRequest, FriendRequestsAssumption
  <2>2. PICK s \in Vacant(x) : Opened(x, s, y, TRUE)
    BY <1>2 DEF FriendRequest
  <2>3. /\ s \in Slots /\ ~InUse(x, s)
        /\ conn'[x][s] = End("OPENING", y, TRUE, FALSE, 0)
        /\ \A z \in Cores, t \in Slots :
               ~(z = x /\ t = s) => conn'[z][t] = conn[z][t]
    BY <1>0, <2>1, <2>2, OpenedConn
  <2>4. AsksOn(x, s, y)'
    BY <2>3 DEF AsksOn, End
  <2>5. \A z \in Cores, t \in Slots, w \in Cores :
            AsksOn(z, t, w) => AsksOn(z, t, w)'
    BY <2>3 DEF AsksOn, Live, InUse
  <2>6. unreached' = unreached
    BY <1>2 DEF FriendRequest
  <2>7. \A z \in Cores : \A w \in unconfirmed'[z] \cap undialled'[z] :
            \/ w \in unconfirmed[z] \cap undialled[z]
            \/ z = x /\ w = y
    BY <1>0, <1>2 DEF FriendRequest, ContactsInv
  <2>8. \A z \in Cores : \A w \in unconfirmed'[z] : w \in Cores
    BY <1>0 DEF ContactsInv
  <2> QED
    BY <2>3, <2>4, <2>5, <2>6, <2>7, <2>8 DEF WaitingInv
<1>3. ASSUME NEW y \in Cores, Dial(x, y)
      PROVE  WaitingInv'
  <2>1. x # y
    BY <1>0, <1>3 DEF Dial, ContactsInv
  <2>2. PICK s \in Vacant(x) : Opened(x, s, y, FALSE)
    BY <1>3 DEF Dial
  <2>3. /\ s \in Slots /\ ~InUse(x, s)
        /\ \A z \in Cores, t \in Slots :
               ~(z = x /\ t = s) => conn'[z][t] = conn[z][t]
    BY <1>0, <2>1, <2>2, OpenedConn
  <2>4. \A z \in Cores, t \in Slots, w \in Cores :
            AsksOn(z, t, w) => AsksOn(z, t, w)'
    BY <2>3 DEF AsksOn, Live, InUse
  <2> QED
    BY <1>0, <1>3, <2>4, WaitingStays DEF Dial
<1>4. ASSUME NEW y \in Cores, RemoveContact(x, y)
      PROVE  WaitingInv'
  <2> DEFINE S == WithPeer(x, y)
  <2>1. S \in SUBSET Slots
    BY DEF WithPeer
  <2>2. conn' = Closed(x, S) /\ inbox' = Emptied(x, S, inbox)
        /\ CloseFlags(x, S, contacts[x] \ {y})
    BY <1>4 DEF RemoveContact
  <2>3. \A z \in Cores : unconfirmed'[z] \subseteq unconfirmed[z]
    BY <1>0, <1>4 DEF RemoveContact, ContactsInv
  <2> HIDE DEF S
  <2>4. ClosedBy(x, S)
    BY <1>0, <2>1, <2>2, QuietClose
  <2> QED
    BY <1>0, <2>1, <2>2, <2>3, <2>4, WaitingClosed
<1>5. ASSUME NEW r \in requests[x], AcceptRequest(x, r) \/ DeclineRequest(x, r)
      PROVE  WaitingInv'
  <2> DEFINE S == FirstOf(WithPeer(x, r.peer))
  <2>1. PICK op \in {"accept", "decline"} : Answer(x, r, op)
    BY <1>5 DEF AcceptRequest, DeclineRequest
  <2>2. S \in SUBSET Slots /\ ClosedBy(x, S)
    BY <1>0, <2>1, UserStepAnswer
  <2>3. CloseFlags(x, S, contacts[x])
    BY <2>1 DEF Answer, Close
  <2>4. unconfirmed' = unconfirmed
    BY <1>5 DEF AcceptRequest, DeclineRequest
  <2> HIDE DEF S
  <2> QED
    BY <1>0, <2>2, <2>3, <2>4, WaitingClosed
<1>6. ASSUME NEW s \in Slots, TcpConnected(x, s)
      PROVE  WaitingInv'
  <2>1. /\ conn[x][s].ts = "OPENING" /\ conn'[x][s].ts = "MAKING"
        /\ conn'[x][s].peer = conn[x][s].peer
        /\ conn'[x][s].friend = conn[x][s].friend
        /\ conn'[x][s].outgoing
        /\ \A z \in Cores, q \in Slots : ~(z = x /\ q = s) =>
               conn'[z][q] = conn[z][q] \/ ~InUse(z, q)
    BY <1>0, <1>6, TcpConn
  <2>2. \A z \in Cores, t \in Slots, w \in Cores :
            AsksOn(z, t, w) => AsksOn(z, t, w)'
    BY <2>1 DEF AsksOn, Live, InUse
  <2> QED
    BY <1>0, <1>6, <2>2, WaitingStays DEF TcpConnected
<1>7. ASSUME \A z \in Cores, q \in Slots : Kept(z, q)
      PROVE  \A z \in Cores, t \in Slots, w \in Cores :
                 AsksOn(z, t, w) => AsksOn(z, t, w)'
  BY <1>7 DEF AsksOn, Live, Kept
<1>8. ASSUME NEW s \in Slots, ClientRunning(x, s)
      PROVE  WaitingInv'
  <2>1. \A z \in Cores, q \in Slots : Kept(z, q)
    BY <1>0, <1>8, ClientStep
  <2>2. /\ \/ unconfirmed' = unconfirmed
           \/ unconfirmed' = [unconfirmed EXCEPT ![x] =
                                  @ \ {conn[x][s].peer}]
        /\ UNCHANGED <<undialled, unreached>>
    BY <1>8 DEF ClientRunning, Confirm
  <2>3. \A z \in Cores : unconfirmed'[z] \subseteq unconfirmed[z]
    BY <1>0, <2>2 DEF ContactsInv
  <2> QED
    BY <1>0, <1>7, <2>1, <2>2, <2>3, WaitingStays
<1>9. ASSUME NEW s \in Slots, ServerRunning(x, s)
      PROVE  WaitingInv'
  <2>1. \A z \in Cores, q \in Slots : Kept(z, q)
    BY <1>0, <1>9, ServerStep
  <2>2. CASE conn[x][s].friend
    <3>1. UNCHANGED <<unconfirmed, undialled, unreached>>
      BY <1>9, <2>2 DEF ServerRunning
    <3> QED
      BY <1>0, <1>7, <2>1, <3>1, WaitingStays
  <2>3. CASE ~conn[x][s].friend
    <3> DEFINE y == conn[x][s].peer
    <3>1. /\ unconfirmed' = [unconfirmed EXCEPT ![x] = @ \ {y}]
          /\ undialled' = [undialled EXCEPT ![x] = @ \ {y}]
          /\ unreached' = unreached \ {<<x, y>>}
      BY <1>9, <2>3 DEF ServerRunning, Confirm
    <3> HIDE DEF y
    <3>2. \A z \in Cores : \A w \in unconfirmed'[z] \cap undialled'[z] :
              /\ w \in unconfirmed[z] \cap undialled[z]
              /\ <<z, w>> \in unreached => <<z, w>> \in unreached'
      BY <1>0, <3>1 DEF ContactsInv
    <3> QED
      BY <1>0, <1>7, <2>1, <3>2, WaitingStays
  <2> QED
    BY <2>2, <2>3
<1>10. ASSUME NEW s \in Slots, StoreRequest(x, s)
       PROVE  WaitingInv'
  <2> DEFINE S == FirstOf(WithPeer(x, conn[x][s].peer) \ {s})
  <2>1. S \in SUBSET Slots /\ ClosedBy(x, S)
    BY <1>0, <1>10, StoreStep
  <2>2. CloseFlags(x, S, contacts[x]) /\ unconfirmed' = unconfirmed
    BY <1>10 DEF StoreRequest, Close
  <2> HIDE DEF S
  <2> QED
    BY <1>0, <2>1, <2>2, WaitingClosed
<1>11. ASSUME NEW s \in Slots, FriendExists(x, s)
       PROVE  WaitingInv'
  <2>1. ClosedBy(x, {s}) /\ {s} \in SUBSET Slots
    BY <1>0, <1>11, ExistsStep
  <2>2. CloseFlags(x, {s}, contacts[x]) /\ unconfirmed' = unconfirmed
    BY <1>11 DEF FriendExists, Close
  <2> QED
    BY <1>0, <2>1, <2>2, WaitingClosed
<1>12. ASSUME NEW s \in Slots, Disconnect(x, s)
       PROVE  WaitingInv'
  <2>1. {s} \in SUBSET Slots
    OBVIOUS
  <2>2. conn' = Closed(x, {s}) /\ inbox' = Emptied(x, {s}, inbox)
        /\ CloseFlags(x, {s}, contacts[x]) /\ unconfirmed' = unconfirmed
    BY <1>12 DEF Disconnect, Close
  <2>3. ClosedBy(x, {s})
    BY <1>0, <2>1, <2>2, QuietClose
  <2> QED
    BY <1>0, <2>1, <2>2, <2>3, WaitingClosed
<1>13. ASSUME NEW s \in Slots, Accepted(x, s)
       PROVE  WaitingInv'
  <2> DEFINE y == conn[x][s].peer
  <2>1. {s} \in SUBSET Slots
    OBVIOUS
  <2>2. /\ conn' = Closed(x, {s}) /\ inbox' = Emptied(x, {s}, inbox)
        /\ unconfirmed' = [unconfirmed EXCEPT ![x] = @ \ {y}]
        /\ undialled' = [undialled EXCEPT ![x] = @ \ {y}]
        /\ unreached' = unreached \ {<<x, y>>}
    BY <1>13 DEF Accepted
  <2>3. ClosedBy(x, {s})
    BY <1>0, <2>1, <2>2, QuietClose
  <2>4. \A z \in Cores, t \in Slots, w \in Cores :
            AsksOn(z, t, w) => AsksOn(z, t, w)' \/ (z = x /\ w = y)
    BY <2>3 DEF ClosedBy, Same, AsksOn, Live
  <2> HIDE DEF y
  <2>5. \A z \in Cores : \A w \in unconfirmed'[z] \cap undialled'[z] :
            /\ w \in unconfirmed[z] \cap undialled[z]
            /\ ~(z = x /\ w = y) /\ w \in Cores
            /\ <<z, w>> \in unreached => <<z, w>> \in unreached'
    BY <1>0, <2>2 DEF ContactsInv
  <2> QED
    BY <2>4, <2>5 DEF WaitingInv
<1>14. ASSUME NEW s \in Slots, Declined(x, s)
       PROVE  WaitingInv'
  <2> DEFINE y == conn[x][s].peer
             S == {t \in WithPeer(x, y) : t <= s}
  <2>1. S \in SUBSET Slots
    BY DEF WithPeer
  <2>2. /\ conn' = Closed(x, S) /\ inbox' = Emptied(x, S, inbox)
        /\ CloseFlags(x, S, contacts[x] \ {y})
        /\ unconfirmed' = [unconfirmed EXCEPT ![x] = @ \ {y}]
    BY <1>14 DEF Declined
  <2> HIDE DEF S, y
  <2>3. ClosedBy(x, S)
    BY <1>0, <2>1, <2>2, QuietClose
  <2>4. \A z \in Cores : unconfirmed'[z] \subseteq unconfirmed[z]
    BY <1>0, <2>2 DEF ContactsInv
  <2> QED
    BY <1>0, <2>1, <2>2, <2>3, <2>4, WaitingClosed
<1>15. ASSUME NEW s \in Slots, Ignored(x, s)
       PROVE  WaitingInv'
  <2>1. \A z \in Cores, q \in Slots : Kept(z, q)
    BY <1>0, <1>15, IgnoredStep
  <2> QED
    BY <1>0, <1>7, <1>15, <2>1, WaitingStays DEF Ignored
<1>16. CASE UserStep(x)
  BY <1>2, <1>4, <1>5, <1>16 DEF UserStep
<1>17. CASE NetworkStep(x)
  BY <1>3, <1>6, <1>8, <1>9, <1>10, <1>11, <1>12, <1>13, <1>14, <1>15, <1>17
     DEF NetworkStep, Receive
<1> QED
  BY <1>1, <1>16, <1>17

\* A contact that waits for an answer and is not dialled has a friend request
\* connection, or its connection was closed before TCP was up, whoever asks
\* whom, on any number of cores.
THEOREM WaitingSafety == Spec => []WaitingIsAskedOrUnreached
<1>1. Init => WaitingInv
  BY DEF Init, WaitingInv
<1>2. TypeInv /\ TypeInv' /\ WaitingInv /\ [Next]_vars => WaitingInv'
  <2>1. ASSUME WaitingInv, UNCHANGED vars
        PROVE  WaitingInv'
    BY <2>1 DEF vars, WaitingInv, AsksOn, Live
  <2> QED
    BY <2>1, WaitingStep
<1>3. WaitingInv => WaitingIsAskedOrUnreached
  BY DEF WaitingInv, WaitingIsAskedOrUnreached, AsksOn, Live, FriendConnection,
     WithPeer, InUse
<1>4. Spec => []WaitingInv
  BY <1>1, <1>2, TypeSafety, PTL DEF Spec
<1> QED
  BY <1>3, <1>4, PTL
-----------------------------------------------------------------------------
(* Consent.                                                                 *)

\* No third core: the answer to a request that is sent by a stored slot then
\* reaches the core that asked or nobody.
TwoCores == \A x, y, z \in Cores : x = y \/ y = z \/ x = z

\* The client's end of a normal connection that the server has let in.
LetIn(x, s) == /\ ~conn[x][s].friend
               /\ conn[x][s].outgoing /\ conn[x][s].far # 0

\* A client asks whom its user has agreed to; a server talks to a client whose
\* user has agreed; a normal connection is one of two contacts.
EndConsent(x, s) ==
    LET y == conn[x][s].peer
    IN /\ conn[x][s].ts = "OPENING" => <<x, y>> \in agreed
       /\ Live(x, s) /\ conn[x][s].outgoing => <<x, y>> \in agreed
       /\ Live(x, s) /\ ~conn[x][s].outgoing => <<y, x>> \in agreed
       /\ Live(x, s) /\ LetIn(x, s) => <<y, x>> \in agreed

MessageConsent(x, s, m) ==
    m.op = "accept" => <<conn[x][s].peer, x>> \in agreed

ContactConsent(x, y) ==
    /\ y \in contacts[x] => <<x, y>> \in agreed
    /\ y \in contacts[x] \ unconfirmed[x] => <<y, x>> \in agreed

\* Whatever may take a flag away carries the agreement of the other side.
ConsentInv ==
    /\ \A x, y \in Cores : ContactConsent(x, y)
    /\ \A x \in Cores : \A r \in requests[x] : <<r.peer, x>> \in agreed
    /\ \A x \in Cores, s \in Slots : EndConsent(x, s)
    /\ \A x \in Cores, s \in Slots : \A m \in MessagesIn(inbox, x, s) :
           MessageConsent(x, s, m)

\* An end that stays carries its agreement on.
LEMMA SameConsent ==
    ASSUME NEW x \in Cores, NEW s \in Slots, Same(x, s) \/ Kept(x, s),
           EndConsent(x, s), agreed \subseteq agreed'
    PROVE  EndConsent(x, s)'
BY DEF Same, Kept, EndConsent, LetIn, Live

\* A close keeps the agreements, whatever was sent to an agreed core.
LEMMA ClosedConsent ==
    ASSUME ConsentInv, NEW x \in Cores, NEW S \in SUBSET Slots, NEW m, NEW y,
           ClosedBy(x, S), agreed \subseteq agreed',
           NoNewMessages \/ (/\ OneNewMessage(m, x, y)
                             /\ m.op = "accept" => <<x, y>> \in agreed')
    PROVE  /\ \A z \in Cores, s \in Slots : EndConsent(z, s)'
           /\ \A z \in Cores, s \in Slots : \A k \in MessagesIn(inbox', z, s) :
                  MessageConsent(z, s, k)'
<1>1. \A z \in Cores, s \in Slots : EndConsent(z, s)'
  <2> SUFFICES ASSUME NEW z \in Cores, NEW s \in Slots
               PROVE  EndConsent(z, s)'
    OBVIOUS
  <2>1. EndConsent(z, s)
    BY DEF ConsentInv
  <2>2. CASE z = x /\ s \in S
    <3>1. Free.ts = "FREE"
      BY DEF Free, End
    <3>2. conn'[z][s].ts = "FREE"
      BY <2>2, <3>1 DEF ClosedBy
    <3> QED
      BY <3>2 DEF EndConsent, LetIn, Live
  <2>3. CASE ~(z = x /\ s \in S)
    BY <2>1, <2>3, SameConsent DEF ClosedBy
  <2> QED
    BY <2>2, <2>3
<1>2. ASSUME NEW z \in Cores, NEW s \in Slots,
             NEW k \in MessagesIn(inbox', z, s)
      PROVE  MessageConsent(z, s, k)'
  <2>1. CASE k \in MessagesIn(inbox, z, s) /\ Same(z, s)
    BY <2>1 DEF ConsentInv, MessageConsent, Same
  <2>2. CASE /\ Same(z, s) /\ k = m /\ conn[z][s].peer = x /\ z = y
             /\ m.op = "accept" => <<x, y>> \in agreed'
    BY <2>2 DEF MessageConsent, Same
  <2> QED
    BY <1>2, <2>1, <2>2 DEF NoNewMessages, OneNewMessage
<1> QED
  BY <1>1, <1>2

\* So does a step of a connection that goes on.
LEMMA KeptConsent ==
    ASSUME ConsentInv, agreed \subseteq agreed',
           \A z \in Cores, s \in Slots :
               /\ Kept(z, s)
               /\ \A k \in MessagesIn(inbox', z, s) :
                      \/ k \in MessagesIn(inbox, z, s)
                      \/ k.op \in {"handshake", "friendRequest"}
    PROVE  /\ \A z \in Cores, s \in Slots : EndConsent(z, s)'
           /\ \A z \in Cores, s \in Slots : \A k \in MessagesIn(inbox', z, s) :
                  MessageConsent(z, s, k)'
<1>1. \A z \in Cores, s \in Slots : EndConsent(z, s)'
  BY SameConsent DEF ConsentInv
<1>2. ASSUME NEW z \in Cores, NEW s \in Slots,
             NEW k \in MessagesIn(inbox', z, s)
      PROVE  MessageConsent(z, s, k)'
  <2>1. Kept(z, s)
    OBVIOUS
  <2>2. CASE k \in MessagesIn(inbox, z, s)
    BY <2>1, <2>2 DEF ConsentInv, MessageConsent, Kept
  <2>3. CASE k.op \in {"handshake", "friendRequest"}
    BY <2>3 DEF MessageConsent
  <2> QED
    BY <1>2, <2>2, <2>3
<1> QED
  BY <1>1, <1>2

\* Opening a connection to somebody the user has agreed to.
LEMMA OpenedConsent ==
    ASSUME ConnInv, InboxInv, ConsentInv, NEW x \in Cores, NEW y \in Cores,
           x # y, inbox' = inbox,
           \E s \in Vacant(x) : Opened(x, s, y, TRUE) \/ Opened(x, s, y, FALSE),
           agreed \subseteq agreed', <<x, y>> \in agreed'
    PROVE  /\ \A z \in Cores, s \in Slots : EndConsent(z, s)'
           /\ \A z \in Cores, s \in Slots : \A k \in MessagesIn(inbox', z, s) :
                  MessageConsent(z, s, k)'
<1>1. PICK s \in Vacant(x) : Opened(x, s, y, TRUE) \/ Opened(x, s, y, FALSE)
  OBVIOUS
<1>2. /\ s \in Slots /\ ~InUse(x, s)
      /\ conn'[x][s].ts = "OPENING" /\ conn'[x][s].peer = y
      /\ \A z \in Cores, t \in Slots :
             ~(z = x /\ t = s) => conn'[z][t] = conn[z][t]
  <2>1. CASE Opened(x, s, y, TRUE)
    <3>1. /\ s \in Slots /\ ~InUse(x, s)
          /\ conn'[x][s] = End("OPENING", y, TRUE, FALSE, 0)
          /\ \A z \in Cores, t \in Slots :
                 ~(z = x /\ t = s) => conn'[z][t] = conn[z][t]
      BY <2>1, OpenedConn
    <3> QED
      BY <3>1 DEF End
  <2>2. CASE Opened(x, s, y, FALSE)
    <3>1. /\ s \in Slots /\ ~InUse(x, s)
          /\ conn'[x][s] = End("OPENING", y, FALSE, FALSE, 0)
          /\ \A z \in Cores, t \in Slots :
                 ~(z = x /\ t = s) => conn'[z][t] = conn[z][t]
      BY <2>2, OpenedConn
    <3> QED
      BY <3>1 DEF End
  <2> QED
    BY <1>1, <2>1, <2>2
<1>3. EndConsent(x, s)'
  BY <1>2 DEF EndConsent, LetIn, Live
<1>4. \A z \in Cores, t \in Slots : ~(z = x /\ t = s) => EndConsent(z, t)'
  BY <1>2 DEF ConsentInv, EndConsent, LetIn, Live
<1>5. \A z \in Cores, t \in Slots : \A k \in MessagesIn(inbox, z, t) :
          MessageConsent(z, t, k)'
  BY <1>2 DEF ConsentInv, InboxInv, MessageInv, MessageConsent, Live, InUse
<1> QED
  BY <1>3, <1>4, <1>5

LEMMA ConsentStep ==
    ASSUME TwoCores, TypeInv, TypeInv', ConsentInv, Next
    PROVE  ConsentInv'
<1>0. ConnInv /\ InboxInv /\ ContactsInv /\ ContactsInv' /\ RequestsInv
  BY DEF TypeInv
<1>1. PICK x \in Cores : UserStep(x) \/ NetworkStep(x)
  BY DEF Next
<1> DEFINE Ends == \A z \in Cores, s \in Slots : EndConsent(z, s)
           Messages == \A z \in Cores, s \in Slots :
                           \A k \in MessagesIn(inbox, z, s) :
                               MessageConsent(z, s, k)
           Requests == \A z \in Cores : \A r \in requests[z] :
                           <<r.peer, z>> \in agreed
           Contacts == \A z, y \in Cores : ContactConsent(z, y)
<1>a. Contacts /\ Requests /\ Ends /\ Messages
  BY DEF ConsentInv
<1>b. ASSUME Contacts', Requests', Ends', Messages'
      PROVE  ConsentInv'
  BY <1>b DEF ConsentInv
<1>c. ASSUME UNCHANGED <<contacts, unconfirmed>>, agreed \subseteq agreed'
      PROVE  Contacts'
  BY <1>a, <1>c DEF ContactConsent
<1>r. ASSUME UNCHANGED requests, agreed \subseteq agreed'
      PROVE  Requests'
  BY <1>a, <1>r
\* The flag of y goes, with the agreement of y.
<1>u. ASSUME NEW y, <<y, x>> \in agreed, UNCHANGED <<contacts, agreed>>,
             unconfirmed' = [unconfirmed EXCEPT ![x] = @ \ {y}]
      PROVE  Contacts'
  BY <1>0, <1>a, <1>u DEF ContactConsent, ContactsInv
\* The contact y goes.
<1>g. ASSUME NEW y, UNCHANGED agreed,
             contacts' = [contacts EXCEPT ![x] = @ \ {y}],
             unconfirmed' = [unconfirmed EXCEPT ![x] = @ \ {y}]
      PROVE  Contacts'
  BY <1>0, <1>a, <1>g DEF ContactConsent, ContactsInv
<1>2. ASSUME NEW y \in Cores, FriendRequest(x, y)
      PROVE  ConsentInv'
  <2>1. x # y
    BY <1>2, FriendRequestsAssumption
       DEF FriendRequest, FriendRequestsAssumption
  <2>2. agreed \subseteq agreed' /\ <<x, y>> \in agreed' /\ inbox' = inbox
        /\ requests' = requests
        /\ \E s \in Vacant(x) : Opened(x, s, y, TRUE)
    BY <1>2 DEF FriendRequest
  <2>3. Ends' /\ Messages'
    BY <1>0, <2>1, <2>2, OpenedConsent
  <2>4. Contacts'
    <3>1. \A z \in Cores : \A w \in contacts'[z] :
              w \in contacts[z] \/ (z = x /\ w = y)
      BY <1>0, <1>2 DEF FriendRequest, ContactsInv
    <3>2. \A z \in Cores : \A w \in contacts'[z] \ unconfirmed'[z] :
              w \in contacts[z] \ unconfirmed[z]
      BY <1>0, <1>2 DEF FriendRequest, ContactsInv
    <3> QED
      BY <1>a, <2>2, <3>1, <3>2 DEF ContactConsent
  <2> QED
    BY <1>b, <1>r, <2>2, <2>3, <2>4
<1>3. ASSUME NEW y \in Cores, Dial(x, y)
      PROVE  ConsentInv'
  <2>1. x # y
    BY <1>0, <1>3 DEF Dial, ContactsInv
  <2>2. <<x, y>> \in agreed
    BY <1>3, <1>a DEF Dial, ContactConsent
  <2>3. /\ UNCHANGED <<contacts, unconfirmed, requests, agreed>>
        /\ inbox' = inbox
        /\ \E s \in Vacant(x) : Opened(x, s, y, FALSE)
    BY <1>3 DEF Dial
  <2>4. Ends' /\ Messages'
    BY <1>0, <2>1, <2>2, <2>3, OpenedConsent
  <2> QED
    BY <1>b, <1>c, <1>r, <2>3, <2>4
<1>4. ASSUME NEW y \in Cores, RemoveContact(x, y)
      PROVE  ConsentInv'
  <2>1. WithPeer(x, y) \in SUBSET Slots
    BY DEF WithPeer
  <2>2. ClosedBy(x, WithPeer(x, y)) /\ NoNewMessages
    BY <1>0, <1>4, <2>1, QuietClose DEF RemoveContact
  <2>3. UNCHANGED <<requests, agreed>>
    BY <1>4 DEF RemoveContact
  <2>4. Ends' /\ Messages'
    BY <2>1, <2>2, <2>3, ClosedConsent
  <2>5. Contacts'
    BY <1>4, <1>g DEF RemoveContact
  <2> QED
    BY <1>b, <1>r, <2>3, <2>4, <2>5
<1>5. ASSUME NEW r \in requests[x], AcceptRequest(x, r)
      PROVE  ConsentInv'
  <2> DEFINE S == FirstOf(WithPeer(x, r.peer))
             m == [op |-> "accept", id |-> r.id]
             y == conn[x][r.ctx].peer
  <2>1. S \in SUBSET Slots /\ ClosedBy(x, S) /\ OneNewMessage(m, x, y)
    BY <1>0, <1>5, UserStepAnswer DEF AcceptRequest
  <2>2. /\ agreed' = agreed \cup {<<x, r.peer>>}
        /\ contacts' = [contacts EXCEPT ![x] = @ \cup {r.peer}]
        /\ unconfirmed' = unconfirmed
        /\ requests' = [requests EXCEPT ![x] = @ \ {r}]
    BY <1>5 DEF AcceptRequest, Answer
  <2>3. r.peer \in Cores /\ r.peer # x /\ <<r.peer, x>> \in agreed
    BY <1>0, <1>a DEF RequestsInv
  \* With two cores the peer of any slot of x is the one who has asked.
  <2>4. InUse(x, r.ctx) => y = r.peer
    BY <1>0, <2>3 DEF TwoCores, RequestsInv, ConnInv, EndInv
  <2>7. Contacts'
    <3>1. \A z \in Cores : \A w \in contacts'[z] :
              w \in contacts[z] \/ (z = x /\ w = r.peer)
      BY <1>0, <2>2 DEF ContactsInv
    <3>2. agreed \subseteq agreed' /\ <<x, r.peer>> \in agreed'
      BY <2>2
    <3> QED
      BY <1>a, <2>2, <2>3, <3>1, <3>2 DEF ContactConsent
  <2> HIDE DEF S, m
  <2>5. CASE InUse(x, r.ctx)
    <3>1. <<x, y>> \in agreed'
      BY <2>2, <2>4, <2>5
    <3> QED
      <4>1. Ends' /\ Messages'
        <5>1. agreed \subseteq agreed'
          BY <2>2
        <5> QED
          BY <2>1, <3>1, <5>1, ClosedConsent
      <4>2. Contacts'
        BY <2>7
      <4>3. Requests'
        BY <1>0, <1>a, <2>2 DEF RequestsInv
      <4> QED
        BY <1>b, <4>1, <4>2, <4>3
  <2>6. CASE ~InUse(x, r.ctx)
    <3>1. y = NoCore
      <4>1. conn[x][r.ctx] = Free
        BY <1>0, <2>6 DEF RequestsInv, ConnInv, EndInv, InUse
      <4> QED
        BY <4>1 DEF Free, End
    <3>2. NoNewMessages
      BY <2>1, <3>1, FriendRequestsAssumption
         DEF OneNewMessage, NoNewMessages, FriendRequestsAssumption
    <3>3. agreed \subseteq agreed'
      BY <2>2
    <3>4. Ends' /\ Messages'
      BY <2>1, <3>2, <3>3, ClosedConsent
    <3>5. Contacts'
      BY <2>7
    <3>6. Requests'
      BY <1>0, <1>a, <2>2 DEF RequestsInv
    <3> QED
      BY <1>b, <3>4, <3>5, <3>6
  <2> QED
    BY <2>5, <2>6
<1>6. ASSUME NEW r \in requests[x], DeclineRequest(x, r)
      PROVE  ConsentInv'
  <2> DEFINE S == FirstOf(WithPeer(x, r.peer))
             m == [op |-> "decline", id |-> r.id]
             y == conn[x][r.ctx].peer
  <2>1. S \in SUBSET Slots /\ ClosedBy(x, S) /\ OneNewMessage(m, x, y)
    BY <1>0, <1>6, UserStepAnswer DEF DeclineRequest
  <2>2. /\ UNCHANGED <<agreed, contacts, unconfirmed>>
        /\ requests' = [requests EXCEPT ![x] = @ \ {r}]
    BY <1>6 DEF DeclineRequest, Answer
  <2>3. m.op # "accept"
    OBVIOUS
  <2> HIDE DEF S, m, y
  <2>4. Ends' /\ Messages'
    BY <2>1, <2>2, <2>3, ClosedConsent
  <2>5. Requests'
    BY <1>0, <1>a, <2>2 DEF RequestsInv
  <2> QED
    BY <1>b, <1>c, <2>2, <2>4, <2>5
<1>7. ASSUME NEW s \in Slots, TcpConnected(x, s)
      PROVE  ConsentInv'
  <2> DEFINE y == conn[x][s].peer
  <2>1. /\ conn[x][s].ts = "OPENING" /\ conn[x][s].peer \in Cores
        /\ conn'[x][s].ts = "MAKING"
        /\ conn'[x][s].peer = conn[x][s].peer
        /\ conn'[x][s].friend = conn[x][s].friend
        /\ conn'[x][s].outgoing
        /\ conn'[x][s].far # 0 => Welcome(x, s)
        /\ \A z \in Cores, q \in Slots : ~(z = x /\ q = s) =>
               \/ conn'[z][q] = conn[z][q]
               \/ /\ ~InUse(z, q) /\ z = conn[x][s].peer
                  /\ conn'[z][q] = End("MAKING", x, conn[x][s].friend,
                                       FALSE, s)
    BY <1>0, <1>7, TcpConn
  <2>2. UNCHANGED <<inbox, contacts, unconfirmed, requests, agreed>>
    BY <1>7 DEF TcpConnected
  <2>3. <<x, y>> \in agreed
    BY <1>a, <2>1 DEF EndConsent
  <2>4. EndConsent(x, s)'
    <3>1. conn'[x][s].far # 0 /\ ~conn'[x][s].friend => <<y, x>> \in agreed
      BY <1>a, <2>1 DEF Welcome, ContactConsent
    <3> QED
      BY <2>1, <2>2, <2>3, <3>1 DEF EndConsent, LetIn, Live
  <2>5. ASSUME NEW z \in Cores, NEW q \in Slots, ~(z = x /\ q = s)
        PROVE  EndConsent(z, q)'
    <3>1. CASE conn'[z][q] = conn[z][q]
      BY <1>a, <2>2, <3>1 DEF EndConsent, LetIn, Live
    <3>2. CASE z = y /\ conn'[z][q] = End("MAKING", x, conn[x][s].friend,
                                          FALSE, s)
      <4>1. /\ conn'[z][q].ts = "MAKING" /\ conn'[z][q].peer = x
            /\ conn'[z][q].outgoing = FALSE
        BY <3>2 DEF End
      <4> QED
        BY <2>2, <2>3, <3>2, <4>1 DEF EndConsent, LetIn, Live
    <3> QED
      BY <2>1, <2>5, <3>1, <3>2
  <2>6. Messages'
    <3>1. \A z \in Cores, q \in Slots : \A k \in MessagesIn(inbox, z, q) :
              InUse(z, q) /\ MessageConsent(z, q, k)
      BY <1>0, <1>a DEF InboxInv, MessageInv, Live, InUse
    <3> QED
      BY <2>1, <2>2, <3>1 DEF MessageConsent
  <2> QED
    BY <1>b, <1>c, <1>r, <2>2, <2>4, <2>5, <2>6
<1>8. ASSUME NEW s \in Slots, ClientRunning(x, s)
      PROVE  ConsentInv'
  <2>1. /\ Live(x, s) /\ conn[x][s].outgoing /\ conn[x][s].far # 0
        /\ \A z \in Cores, q \in Slots :
               /\ Kept(z, q)
               /\ \A k \in MessagesIn(inbox', z, q) :
                      \/ k \in MessagesIn(inbox, z, q)
                      \/ k.op \in {"handshake", "friendRequest"}
    BY <1>0, <1>8, ClientStep
  <2>2. UNCHANGED <<contacts, requests, agreed>>
    BY <1>8 DEF ClientRunning
  <2>3. Ends' /\ Messages'
    BY <2>1, <2>2, KeptConsent
  <2>4. Contacts'
    <3>1. CASE conn[x][s].friend
      <4>1. unconfirmed' = unconfirmed
        BY <1>8, <3>1 DEF ClientRunning
      <4> QED
        BY <1>c, <2>2, <4>1
    <3>2. CASE ~conn[x][s].friend
      <4>1. unconfirmed' = [unconfirmed EXCEPT ![x] = @ \ {conn[x][s].peer}]
        BY <1>8, <3>2 DEF ClientRunning, Confirm
      <4>2. <<conn[x][s].peer, x>> \in agreed
        BY <1>a, <2>1, <3>2 DEF EndConsent, LetIn
      <4> QED
        BY <1>u, <2>2, <4>1, <4>2
    <3> QED
      BY <3>1, <3>2
  <2> QED
    BY <1>b, <1>r, <2>2, <2>3, <2>4
<1>9. ASSUME NEW s \in Slots, ServerRunning(x, s)
      PROVE  ConsentInv'
  <2>1. /\ Live(x, s) /\ ~conn[x][s].outgoing
        /\ \A z \in Cores, q \in Slots :
               /\ Kept(z, q)
               /\ MessagesIn(inbox', z, q) \subseteq MessagesIn(inbox, z, q)
    BY <1>0, <1>9, ServerStep
  <2>2. UNCHANGED <<contacts, requests, agreed>>
    BY <1>9 DEF ServerRunning
  <2>3. Ends' /\ Messages'
    BY <2>1, <2>2, KeptConsent
  <2>4. Contacts'
    <3>1. CASE conn[x][s].friend
      <4>1. unconfirmed' = unconfirmed
        BY <1>9, <3>1 DEF ServerRunning
      <4> QED
        BY <1>c, <2>2, <4>1
    <3>2. CASE ~conn[x][s].friend
      <4>1. unconfirmed' = [unconfirmed EXCEPT ![x] = @ \ {conn[x][s].peer}]
        BY <1>9, <3>2 DEF ServerRunning, Confirm
      <4>2. <<conn[x][s].peer, x>> \in agreed
        BY <1>a, <2>1 DEF EndConsent
      <4> QED
        BY <1>u, <2>2, <4>1, <4>2
    <3> QED
      BY <3>1, <3>2
  <2> QED
    BY <1>b, <1>r, <2>2, <2>3, <2>4
<1>10. ASSUME NEW s \in Slots, FriendExists(x, s)
       PROVE  ConsentInv'
  <2> DEFINE m == [op |-> "accept", id |-> Head(inbox[x][s]).id]
             y == conn[x][s].peer
  <2>1. ClosedBy(x, {s}) /\ OneNewMessage(m, x, y) /\ {s} \in SUBSET Slots
    BY <1>0, <1>10, ExistsStep
  <2>2. UNCHANGED <<contacts, unconfirmed, requests, agreed>>
    BY <1>10 DEF FriendExists
  <2>3. <<x, y>> \in agreed
    BY <1>0, <1>a, <1>10 DEF FriendExists, ContactConsent, ContactsInv
  <2> HIDE DEF m, y
  <2>4. Ends' /\ Messages'
    BY <2>1, <2>2, <2>3, ClosedConsent
  <2> QED
    BY <1>b, <1>c, <1>r, <2>2, <2>4
<1>11. ASSUME NEW s \in Slots, StoreRequest(x, s)
       PROVE  ConsentInv'
  <2> DEFINE S == FirstOf(WithPeer(x, conn[x][s].peer) \ {s})
             y == conn[x][s].peer
             r == [peer |-> y, ctx |-> s, id |-> Head(inbox[x][s]).id]
  <2>1. /\ NoNewMessages /\ ClosedBy(x, S) /\ S \in SUBSET Slots
        /\ Live(x, s) /\ ~conn[x][s].outgoing
    BY <1>0, <1>11, StoreStep
  <2>2. /\ UNCHANGED <<contacts, unconfirmed, agreed>>
        /\ requests' = [requests EXCEPT ![x] =
                            {q \in @ : q.peer # y} \cup {r}]
    BY <1>11 DEF StoreRequest, Replaced
  <2>3. r.peer = y /\ <<y, x>> \in agreed
    BY <1>a, <2>1 DEF EndConsent
  <2> HIDE DEF S, y, r
  <2>4. Ends' /\ Messages'
    BY <2>1, <2>2, ClosedConsent
  <2>5. Requests'
    <3>1. \A z \in Cores : \A q \in requests'[z] :
              q \in requests[z] \/ (z = x /\ q = r)
      BY <1>0, <2>2 DEF RequestsInv
    <3> QED
      BY <1>a, <2>2, <2>3, <3>1
  <2> QED
    BY <1>b, <1>c, <2>2, <2>4, <2>5
<1>12. ASSUME NEW s \in Slots, Accepted(x, s)
       PROVE  ConsentInv'
  <2> DEFINE y == conn[x][s].peer
  <2>1. {s} \in SUBSET Slots
    OBVIOUS
  <2>2. /\ conn' = Closed(x, {s}) /\ inbox' = Emptied(x, {s}, inbox)
        /\ unconfirmed' = [unconfirmed EXCEPT ![x] = @ \ {y}]
        /\ UNCHANGED <<contacts, requests, agreed>>
        /\ Received(x, s, "accept")
    BY <1>12 DEF Accepted
  <2>3. ClosedBy(x, {s}) /\ NoNewMessages
    BY <1>0, <2>1, <2>2, QuietClose
  <2>4. <<y, x>> \in agreed
    <3>1. Head(inbox[x][s]) \in MessagesIn(inbox, x, s)
      BY <1>0, <2>2, TakenMessages DEF InboxInv
    <3> QED
      BY <1>a, <2>2, <3>1 DEF MessageConsent, Received
  <2>5. Ends' /\ Messages'
    BY <2>1, <2>2, <2>3, ClosedConsent
  <2>6. Contacts'
    BY <1>u, <2>2, <2>4
  <2> QED
    BY <1>b, <1>r, <2>2, <2>5, <2>6
<1>13. ASSUME NEW s \in Slots, Declined(x, s)
       PROVE  ConsentInv'
  <2> DEFINE y == conn[x][s].peer
             S == {t \in WithPeer(x, y) : t <= s}
  <2>1. S \in SUBSET Slots
    BY DEF WithPeer
  <2>2. /\ conn' = Closed(x, S) /\ inbox' = Emptied(x, S, inbox)
        /\ contacts' = [contacts EXCEPT ![x] = @ \ {y}]
        /\ unconfirmed' = [unconfirmed EXCEPT ![x] = @ \ {y}]
        /\ UNCHANGED <<requests, agreed>>
    BY <1>13 DEF Declined
  <2> HIDE DEF S
  <2>3. ClosedBy(x, S) /\ NoNewMessages
    BY <1>0, <2>1, <2>2, QuietClose
  <2>4. Ends' /\ Messages'
    BY <2>1, <2>2, <2>3, ClosedConsent
  <2>5. Contacts'
    BY <1>g, <2>2
  <2> QED
    BY <1>b, <1>r, <2>2, <2>4, <2>5
<1>14. ASSUME NEW s \in Slots, Ignored(x, s)
       PROVE  ConsentInv'
  <2>1. \A z \in Cores, q \in Slots :
            /\ Kept(z, q)
            /\ MessagesIn(inbox', z, q) \subseteq MessagesIn(inbox, z, q)
    BY <1>0, <1>14, IgnoredStep
  <2>2. UNCHANGED <<contacts, unconfirmed, requests, agreed>>
    BY <1>14 DEF Ignored
  <2>3. Ends' /\ Messages'
    BY <2>1, <2>2, KeptConsent
  <2> QED
    BY <1>b, <1>c, <1>r, <2>2, <2>3
<1>15. ASSUME NEW s \in Slots, Disconnect(x, s)
       PROVE  ConsentInv'
  <2>1. {s} \in SUBSET Slots
    OBVIOUS
  <2>2. /\ conn' = Closed(x, {s}) /\ inbox' = Emptied(x, {s}, inbox)
        /\ UNCHANGED <<contacts, unconfirmed, requests, agreed>>
    BY <1>15 DEF Disconnect, Close
  <2>3. ClosedBy(x, {s}) /\ NoNewMessages
    BY <1>0, <2>1, <2>2, QuietClose
  <2>4. Ends' /\ Messages'
    BY <2>1, <2>2, <2>3, ClosedConsent
  <2> QED
    BY <1>b, <1>c, <1>r, <2>2, <2>4
<1> HIDE DEF Ends, Messages, Requests, Contacts
<1>16. CASE UserStep(x)
  BY <1>2, <1>4, <1>5, <1>6, <1>16 DEF UserStep
<1>17. CASE NetworkStep(x)
  BY <1>3, <1>7, <1>8, <1>9, <1>10, <1>11, <1>12, <1>13, <1>14, <1>15, <1>17
     DEF NetworkStep, Receive
<1> QED
  BY <1>1, <1>16, <1>17

\* A contact that is not flagged as unconfirmed has agreed, between two cores
\* with any number of slots, RPC ids and calls.
THEOREM ConsentSafety == TwoCores => (Spec => []Consent)
<1> SUFFICES ASSUME TwoCores PROVE Spec => []Consent
  OBVIOUS
<1>1. Init => ConsentInv
  <2> SUFFICES ASSUME Init PROVE ConsentInv
    OBVIOUS
  <2>1. \A x \in Cores, s \in Slots : conn[x][s] = Free /\ inbox[x][s] = <<>>
    BY DEF Init
  <2>2. Free.ts = "FREE"
    BY DEF Free, End
  <2> QED
    BY <2>1, <2>2
       DEF Init, ConsentInv, ContactConsent, EndConsent, LetIn, Live, MessagesIn
<1>2. TypeInv /\ TypeInv' /\ ConsentInv /\ [Next]_vars => ConsentInv'
  <2>1. ASSUME ConsentInv, UNCHANGED vars
        PROVE  ConsentInv'
    BY <2>1 DEF vars, ConsentInv, ContactConsent, EndConsent, MessageConsent,
       LetIn, MessagesIn, Live
  <2> QED
    BY <2>1, ConsentStep
<1>3. ConsentInv => Consent
  BY DEF ConsentInv, ContactConsent, Consent
<1>4. Spec => []ConsentInv
  BY <1>1, <1>2, TypeSafety, PTL DEF Spec
<1> QED
  BY <1>3, <1>4, PTL
=============================================================================
