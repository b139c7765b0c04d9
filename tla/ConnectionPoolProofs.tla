------------------------ MODULE ConnectionPoolProofs ------------------------
(***************************************************************************)
(* Proofs about ConnectionPool, for every pool size and every set of       *)
(* relations and hosts.  Three inductive invariants: TypeOK /\ PoolInv, as *)
(* long as no frame comes at an unfortunate moment (EarlyCloses = {}), and *)
(* the weaker BasicInv, which holds whatever frames come and whenever;     *)
(* FaultInv, which rests on it, bears on the variable fault.               *)
(***************************************************************************)
EXTENDS ConnectionPool, TLAPS

IInv == TypeOK /\ PoolInv

-----------------------------------------------------------------------------
(* Connection records. *)

\* The slot TCP_DISCONNECTED leaves behind is well formed, whoever the
\* contacts are.
LEMMA FreeSlotInv ==
    ASSUME NEW known
    PROVE  FreeSlot \in wish_context /\ SlotInv(FreeSlot, known)
  BY DEF FreeSlot, wish_context, SlotInv, ContextStates, TransportStates,
         ProtocolStates, Fds

\* A contact gained breaks no slot.
LEMMA SlotInvMonotone ==
    ASSUME NEW c \in wish_context, NEW known, NEW more, known \subseteq more,
           SlotInv(c, known)
    PROVE  SlotInv(c, more)
  BY DEF SlotInv, wish_context

\* wish_connection_init gives a fresh record.
LEMMA FreshRecord ==
    ASSUME NEW r \in Rels \cup {NoRel}, NEW fr \in BOOLEAN, NEW via \in BOOLEAN
    PROVE  LET c == wish_connection_init(r, fr, via) IN
           /\ c \in wish_context
           /\ c.st = "IN_MAKING" /\ c.ts = "INITIAL" /\ c.ps = "INITIAL"
           /\ c.rel = r /\ (fr => c.fr) /\ (via => c.via) /\ c.fd = 0
  BY DEF wish_connection_init, FreeSlot, wish_context, ContextStates,
         TransportStates, ProtocolStates, Fds

\* The record of a friend request connection.
LEMMA FriendReqRecord ==
    ASSUME NEW r \in Rels
    PROVE  LET c == wish_connection_init(r, TRUE, FALSE) IN
           /\ c \in wish_context
           /\ c.st = "IN_MAKING" /\ c.ts = "INITIAL" /\ c.ps = "INITIAL"
           /\ c.rel = r /\ c.fr /\ c.fd = 0
  BY DEF wish_connection_init, FreeSlot, wish_context, ContextStates,
         TransportStates, ProtocolStates, Fds

\* wish_open_connection on a fresh or resolved record, whatever connect()
\* answers.
LEMMA OpenedRecord ==
    ASSUME NEW c \in wish_context, NEW f \in Fds, NEW result \in ConnectResults,
           NEW known,
           c.st = "IN_MAKING", c.ts \in {"INITIAL", "RESOLVING"},
           c.ps = "INITIAL", c.rel = NoRel => c.via,
           ~c.fr /\ c.rel # NoRel => c.rel \in known
    PROVE  /\ wish_open_connection(c, f, result) \in wish_context
           /\ SlotInv(wish_open_connection(c, f, result), known)
  <1> result \in {"inprogress", "error", "ok"}
    BY PoolAssumption DEF PoolAssumption
  <1> f # 0 /\ f \in Fds \cup {0}
    BY DEF Fds
  <1>1. CASE result = "inprogress"
    BY <1>1 DEF wish_open_connection, wish_context, SlotInv, TransportStates
  <1>2. CASE result = "error"
    BY <1>2 DEF wish_open_connection, wish_context, SlotInv
  <1>3. CASE result = "ok"
    BY <1>3 DEF wish_open_connection, TcpConnected, wish_context, SlotInv,
                TransportStates, ProtocolStates
  <1> QED BY <1>1, <1>2, <1>3

\* A key exchange or signature frame advances a record that is in the
\* middle of its handshake.
LEMMA HandshakeRecord ==
    ASSUME NEW c \in wish_context, NEW next \in ProtocolStates, NEW known,
           <<c.ps, next>> \in HandshakeOrder, SlotInv(c, known)
    PROVE  /\ Advance(c, next) \in wish_context
           /\ SlotInv(Advance(c, next), known)
           /\ c.ps \notin {"INITIAL", "RUNNING"}
           /\ c.ts = "WAIT_FRAME_LEN"
  <1>1. c.ps \notin {"INITIAL", "RUNNING"} /\ next \notin {"INITIAL", "RUNNING"}
    BY DEF HandshakeOrder
  <1>2. Advance(c, next) \in wish_context
    BY DEF Advance, wish_context
  <1>3. SlotInv(Advance(c, next), known) /\ c.ts = "WAIT_FRAME_LEN"
    BY <1>1 DEF Advance, wish_context, SlotInv
  <1> QED BY <1>1, <1>2, <1>3

-----------------------------------------------------------------------------
(* Pools. *)

\* One slot replaced by a good record, with no contact lost.
LEMMA OneSlot ==
    ASSUME TypeOK, \A t \in Slots : SlotInv(conn[t], contacts),
           NEW s \in Slots, NEW c \in wish_context,
           conn' = [conn EXCEPT ![s] = c],
           contacts \subseteq contacts', SlotInv(c, contacts')
    PROVE  /\ conn' \in [Slots -> wish_context]
           /\ \A t \in Slots : SlotInv(conn'[t], contacts')
           /\ conn'[s] = c
           /\ \A t \in Slots : t # s => conn'[t] = conn[t]
  <1>1. conn \in [Slots -> wish_context]
    BY DEF TypeOK
  <1>2. /\ conn' \in [Slots -> wish_context]
        /\ conn'[s] = c
        /\ \A t \in Slots : t # s => conn'[t] = conn[t]
    BY <1>1
  <1>3. ASSUME NEW t \in Slots PROVE SlotInv(conn'[t], contacts')
    <2>1. CASE t = s
      BY <2>1, <1>2
    <2>2. CASE t # s
      <3>1. conn[t] \in wish_context
        BY <1>1
      <3>2. SlotInv(conn[t], contacts')
        BY <3>1, SlotInvMonotone
      <3> QED BY <2>2, <1>2, <3>2
    <2> QED BY <2>1, <2>2
  <1> QED BY <1>2, <1>3

\* The slots of D closed, with no contact lost but those whose connections
\* are all in D.
LEMMA ClosedSlots ==
    ASSUME TypeOK, PoolInv, NEW D \in SUBSET Slots, wish_close_connection(D),
           contacts' \subseteq Rels,
           \A t \in Slots \ D : SlotInv(conn[t], contacts')
    PROVE  /\ conn' \in [Slots -> wish_context]
           /\ \A t \in Slots : SlotInv(conn'[t], contacts')
           /\ \A t \in Slots \ D : conn'[t] = conn[t]
           /\ resolvers' \subseteq Slots
           /\ ResolverOwner'
           /\ fault' \subseteq FaultKinds
  <1>1. conn \in [Slots -> wish_context] /\ resolvers \subseteq Slots
        /\ fault \subseteq FaultKinds
    BY DEF TypeOK
  <1>2. conn' = [t \in Slots |-> IF t \in D THEN FreeSlot ELSE conn[t]]
    BY DEF wish_close_connection
  <1>3. conn' \in [Slots -> wish_context]
    BY <1>1, <1>2, FreeSlotInv
  <1>4. \A t \in Slots \ D : conn'[t] = conn[t]
    BY <1>2
  <1>5. \A t \in D : conn'[t] = FreeSlot
    BY <1>2
  <1>6. \A t \in Slots : SlotInv(conn'[t], contacts')
    <2>1. SlotInv(FreeSlot, contacts')
      BY FreeSlotInv
    <2> QED BY <2>1, <1>4, <1>5
  <1>7. resolvers' = resolvers \ CancelledBy(D)
    BY DEF wish_close_connection
  <1>8. ResolverOwner'
    <2> SUFFICES ASSUME NEW t \in resolvers'
                 PROVE  /\ conn'[t].st = "IN_MAKING"
                        /\ conn'[t].ts = "RESOLVING" /\ conn'[t].fd = 0
      BY DEF ResolverOwner
    <2>1. t \in resolvers /\ t \notin CancelledBy(D) /\ t \in Slots
      BY <1>7, <1>1
    <2>2. conn[t].st = "IN_MAKING" /\ conn[t].ts = "RESOLVING" /\ conn[t].fd = 0
      BY <2>1 DEF PoolInv, ResolverOwner
    <2>3. t \notin D
      BY <2>1, <2>2 DEF CancelledBy
    <2> QED BY <2>1, <2>2, <2>3, <1>4
  <1>9. fault' \subseteq FaultKinds
    <2>1. \A c \in wish_context : CloseFaults(c) \subseteq FaultKinds
      BY DEF CloseFaults, TcpDisconnectedFaults, FaultKinds
    <2>2. \A t \in D : CloseFaults(conn[t]) \subseteq FaultKinds
      BY <2>1, <1>1
    <2>3. UNION {CloseFaults(conn[t]) : t \in D} \subseteq FaultKinds
      BY <2>2
    <2> QED BY <2>3, <1>1 DEF wish_close_connection
  <1> QED BY <1>1, <1>3, <1>4, <1>6, <1>7, <1>8, <1>9

\* TCP_DISCONNECTED from the port on a slot no resolver points to.
LEMMA DisconnectedSlot ==
    ASSUME TypeOK, PoolInv, NEW s \in Slots, TcpDisconnected(s),
           UNCHANGED contacts
    PROVE  /\ conn' \in [Slots -> wish_context]
           /\ \A t \in Slots : SlotInv(conn'[t], contacts')
           /\ \A t \in Slots : t # s => conn'[t] = conn[t]
           /\ fault' \subseteq FaultKinds
  <1>1. FreeSlot \in wish_context /\ SlotInv(FreeSlot, contacts')
    BY FreeSlotInv
  <1>2. conn' = [conn EXCEPT ![s] = FreeSlot]
    BY DEF TcpDisconnected
  <1>3. fault' \subseteq FaultKinds
    BY DEF TcpDisconnected, TcpDisconnectedFaults, FaultKinds, TypeOK
  <1> QED BY <1>1, <1>2, <1>3, OneSlot DEF PoolInv

\* A vacant slot filled by any of the ways of opening a connection.
LEMMA OpenedSlot ==
    ASSUME TypeOK, PoolInv, NEW s \in Slots, Vacant(s), NEW c \in wish_context,
           contacts \subseteq contacts',
           c.st = "IN_MAKING", c.ts = "INITIAL", c.ps = "INITIAL", c.fd = 0,
           c.rel = NoRel => c.via, ~c.fr /\ c.rel # NoRel => c.rel \in contacts',
           OpenByAddress(s, c) \/ wish_open_connection_dns(s, c) \/ NotOpened(s)
    PROVE  /\ conn' \in [Slots -> wish_context]
           /\ \A t \in Slots : SlotInv(conn'[t], contacts')
           /\ \A t \in Slots : t # s => conn'[t] = conn[t]
           /\ resolvers' \subseteq Slots
           /\ ResolverOwner'
           /\ fault' = fault
  <1>1. s \notin resolvers
    BY DEF Vacant, FreeSlots, InUse, PoolInv, ResolverOwner
  <1>2. \A t \in Slots : SlotInv(conn[t], contacts)
    BY DEF PoolInv
  <1>3. resolvers \subseteq Slots
    BY DEF TypeOK
  <1>4. \A t \in resolvers : /\ conn[t].st = "IN_MAKING"
                             /\ conn[t].ts = "RESOLVING" /\ conn[t].fd = 0
    BY DEF PoolInv, ResolverOwner
  <1>5. CASE OpenByAddress(s, c)
    <2>1. PICK f \in FreeFds, result \in ConnectResults :
            conn' = [conn EXCEPT ![s] = wish_open_connection(c, f, result)]
      BY <1>5 DEF OpenByAddress
    <2> DEFINE d == wish_open_connection(c, f, result)
    <2>2. d \in wish_context /\ SlotInv(d, contacts')
      <3>1. f \in Fds
        BY DEF FreeFds
      <3>2. c.ts \in {"INITIAL", "RESOLVING"}
        OBVIOUS
      <3> QED BY <3>1, <3>2, OpenedRecord
    <2> HIDE DEF d
    <2>3. conn' = [conn EXCEPT ![s] = d]
      BY <2>1 DEF d
    <2>4. resolvers' = resolvers /\ fault' = fault
      BY <1>5 DEF OpenByAddress
    <2>5. /\ conn' \in [Slots -> wish_context]
          /\ \A t \in Slots : SlotInv(conn'[t], contacts')
          /\ \A t \in Slots : t # s => conn'[t] = conn[t]
      BY <2>2, <2>3, <1>2, OneSlot
    <2>6. ResolverOwner'
      BY <2>4, <2>5, <1>1, <1>3, <1>4 DEF ResolverOwner
    <2> QED BY <2>4, <2>5, <2>6, <1>3
  <1>6. CASE conn' = [conn EXCEPT ![s] = FreeSlot] /\ UNCHANGED <<resolvers, fault>>
    <2>1. FreeSlot \in wish_context /\ SlotInv(FreeSlot, contacts')
      BY FreeSlotInv
    <2>2. /\ conn' \in [Slots -> wish_context]
          /\ \A t \in Slots : SlotInv(conn'[t], contacts')
          /\ \A t \in Slots : t # s => conn'[t] = conn[t]
      BY <2>1, <1>6, <1>2, OneSlot
    <2>3. ResolverOwner'
      BY <2>2, <1>6, <1>1, <1>3, <1>4 DEF ResolverOwner
    <2> QED BY <1>6, <2>2, <2>3, <1>3
  <1>7. CASE /\ conn' = [conn EXCEPT ![s] = [c EXCEPT !.ts = "RESOLVING"]]
             /\ resolvers' = resolvers \cup {s}
             /\ fault' = fault
    <2> DEFINE d == [c EXCEPT !.ts = "RESOLVING"]
    <2>1. /\ d \in wish_context /\ d.st = "IN_MAKING" /\ d.ts = "RESOLVING"
          /\ d.fd = 0
      BY DEF wish_context, TransportStates
    <2>2. SlotInv(d, contacts')
      BY DEF SlotInv, wish_context
    <2> HIDE DEF d
    <2>3. conn' = [conn EXCEPT ![s] = d]
      BY <1>7 DEF d
    <2>4. /\ conn' \in [Slots -> wish_context]
          /\ \A t \in Slots : SlotInv(conn'[t], contacts')
          /\ conn'[s] = d
          /\ \A t \in Slots : t # s => conn'[t] = conn[t]
      BY <2>1, <2>2, <2>3, <1>2, OneSlot
    <2>5. ResolverOwner'
      BY <2>1, <2>4, <1>7, <1>3, <1>4 DEF ResolverOwner
    <2> QED BY <1>7, <2>4, <2>5, <1>3
  <1> QED BY <1>5, <1>6, <1>7 DEF wish_open_connection_dns, NotOpened

-----------------------------------------------------------------------------
(* Phases without events. *)

\* An empty queue satisfies the invariant of the queue.
LEMMA NoEvents == ASSUME events' = <<>> PROVE EventsInv'
  BY DEF EventsInv

\* The dns phase.
LEMMA DnsStep == ASSUME IInv, DnsPhase PROVE IInv'
  <1> USE DEF IInv
  <1>0. /\ pc = "dns" /\ events = <<>> /\ events' = events /\ contacts' = contacts
        /\ dial' = dial
    BY DEF DnsPhase, DnsResolved, DnsNoAddress, port_dns_resolver_signal_error,
           DnsDone, PoolInv, EventsInv
  <1>1. EventsInv'
    BY <1>0, NoEvents
  <1>2. DialInv'
    BY <1>0 DEF DialInv, PoolInv
  <1>3. ASSUME NEW s \in Slots, DnsResolved(s) PROVE IInv'
    <2>1. conn[s] \in wish_context /\ SlotInv(conn[s], contacts)
      BY DEF TypeOK, PoolInv
    <2>2. conn[s].st = "IN_MAKING" /\ conn[s].ts = "RESOLVING"
      BY <1>3 DEF DnsResolved, PoolInv, ResolverOwner
    <2>3. PICK f \in FreeFds, result \in ConnectResults :
            conn' = [conn EXCEPT ![s] = wish_open_connection(conn[s], f, result)]
      BY <1>3 DEF DnsResolved
    <2> DEFINE d == wish_open_connection(conn[s], f, result)
    <2>4. d \in wish_context /\ SlotInv(d, contacts')
      <3>1. f \in Fds /\ contacts' = contacts
        BY <1>0 DEF FreeFds
      <3>2. /\ conn[s].ps = "INITIAL" /\ (conn[s].rel = NoRel => conn[s].via)
            /\ (~conn[s].fr /\ conn[s].rel # NoRel => conn[s].rel \in contacts)
        BY <2>1, <2>2 DEF SlotInv
      <3>3. conn[s].ts \in {"INITIAL", "RESOLVING"}
        BY <2>2
      <3> QED BY <3>1, <3>2, <3>3, <2>1, <2>2, OpenedRecord
    <2> HIDE DEF d
    <2>5. conn' = [conn EXCEPT ![s] = d]
      BY <2>3 DEF d
    <2>6. /\ conn' \in [Slots -> wish_context]
          /\ \A t \in Slots : SlotInv(conn'[t], contacts')
          /\ \A t \in Slots : t # s => conn'[t] = conn[t]
      BY <2>4, <2>5, <1>0, OneSlot DEF PoolInv
    <2>7. resolvers' = resolvers \ {s} /\ resolvers \subseteq Slots
      BY <1>3 DEF DnsResolved, TypeOK
    <2>8. ResolverOwner'
      BY <2>6, <2>7 DEF PoolInv, ResolverOwner
    <2>9. TypeOK'
      BY <1>3, <2>6, <2>7 DEF DnsResolved, TypeOK
    <2> QED BY <2>6, <2>8, <2>9, <1>1, <1>2 DEF PoolInv
  <1>4. ASSUME NEW s \in Slots, DnsNoAddress(s) PROVE IInv'
    <2>1. TypeOK'
      BY <1>4 DEF DnsNoAddress, TypeOK
    <2>2. ResolverOwner' /\ \A t \in Slots : SlotInv(conn'[t], contacts')
      BY <1>4 DEF DnsNoAddress, PoolInv, ResolverOwner
    <2> QED BY <2>1, <2>2, <1>1, <1>2 DEF PoolInv
  <1>5. ASSUME NEW s \in Slots, port_dns_resolver_signal_error(s) PROVE IInv'
    <2>1. conn[s].st = "IN_MAKING" /\ s \in resolvers
      BY <1>5 DEF port_dns_resolver_signal_error, PoolInv, ResolverOwner
    <2>2. TcpDisconnected(s) /\ pc' = pc /\ resolvers' = resolvers \ {s}
      BY <1>5, <2>1 DEF port_dns_resolver_signal_error
    <2>3. /\ conn' \in [Slots -> wish_context]
          /\ \A t \in Slots : SlotInv(conn'[t], contacts')
          /\ \A t \in Slots : t # s => conn'[t] = conn[t]
          /\ fault' \subseteq FaultKinds
      BY <2>2, <1>0, DisconnectedSlot
    <2>4. TypeOK'
      BY <1>5, <2>2, <2>3 DEF port_dns_resolver_signal_error, TypeOK
    <2>5. ResolverOwner'
      BY <2>2, <2>3 DEF TypeOK, PoolInv, ResolverOwner
    <2> QED BY <2>3, <2>4, <2>5, <1>1, <1>2 DEF PoolInv
  <1>6. CASE DnsDone
    <2>1. TypeOK'
      BY <1>6 DEF DnsDone, TypeOK, Phases
    <2>2. ResolverOwner' /\ \A t \in Slots : SlotInv(conn'[t], contacts')
      BY <1>6 DEF DnsDone, PoolInv, ResolverOwner
    <2> QED BY <2>1, <2>2, <1>1, <1>2 DEF PoolInv
  <1> QED BY <1>3, <1>4, <1>5, <1>6 DEF DnsPhase

\* The select phase: SelectNull is never enabled, and the kernel's news
\* touch nothing the invariant looks at.
LEMMA SelectStep == ASSUME IInv, SelectNull \/ Select PROVE IInv'
  <1> USE DEF IInv
  <1>1. ~SelectNull
    BY DEF SelectNull, Watched, InUse, PoolInv, SlotInv
  <1>2. Select
    BY <1>1
  <1>3. /\ pc = "select" /\ pc' = "pre" /\ events = <<>> /\ events' = events
        /\ contacts' = contacts /\ dial' = dial /\ resolvers' = resolvers
    BY <1>2 DEF Select, PoolInv, EventsInv
  <1>4. PICK ok \in SUBSET Connecting : \E failed \in SUBSET (Connecting \ ok) :
          conn' = [s \in Slots |->
                       IF s \in ok THEN [conn[s] EXCEPT !.net = "up"]
                       ELSE IF s \in failed
                              THEN [conn[s] EXCEPT !.net = "failed"]
                       ELSE conn[s]]
          /\ writable' = {conn[s].fd : s \in ok \cup failed}
    BY <1>2 DEF Select
  <1>5. PICK failed \in SUBSET (Connecting \ ok) :
          conn' = [s \in Slots |->
                       IF s \in ok THEN [conn[s] EXCEPT !.net = "up"]
                       ELSE IF s \in failed
                              THEN [conn[s] EXCEPT !.net = "failed"]
                       ELSE conn[s]]
          /\ writable' = {conn[s].fd : s \in ok \cup failed}
    BY <1>4
  <1>6. conn \in [Slots -> wish_context]
    BY DEF TypeOK
  <1>7. ASSUME NEW s \in Slots
        PROVE  /\ conn'[s] \in wish_context
               /\ SlotInv(conn'[s], contacts)
               /\ conn'[s].st = conn[s].st /\ conn'[s].ts = conn[s].ts
               /\ conn'[s].fd = conn[s].fd
    <2> DEFINE c == conn[s]
    <2>1. c \in wish_context /\ SlotInv(c, contacts)
      BY <1>6 DEF PoolInv
    <2>2. conn'[s] \in {c, [c EXCEPT !.net = "up"], [c EXCEPT !.net = "failed"]}
      BY <1>5
    <2> HIDE DEF c
    <2>3. CASE conn'[s] = c
      BY <2>1, <2>3 DEF c
    <2>4. CASE conn'[s] = [c EXCEPT !.net = "up"]
      <3>1. /\ conn'[s] \in wish_context /\ SlotInv(conn'[s], contacts)
            /\ conn'[s].st = c.st /\ conn'[s].ts = c.ts /\ conn'[s].fd = c.fd
        BY <2>1, <2>4 DEF wish_context, SlotInv
      <3> QED BY <3>1 DEF c
    <2>5. CASE conn'[s] = [c EXCEPT !.net = "failed"]
      <3>1. /\ conn'[s] \in wish_context /\ SlotInv(conn'[s], contacts)
            /\ conn'[s].st = c.st /\ conn'[s].ts = c.ts /\ conn'[s].fd = c.fd
        BY <2>1, <2>5 DEF wish_context, SlotInv
      <3> QED BY <3>1 DEF c
    <2> QED BY <2>2, <2>3, <2>4, <2>5
  <1>8. conn' \in [Slots -> wish_context]
    BY <1>5, <1>7
  <1>9. writable' \subseteq Fds /\ readable' \subseteq Fds
    <2>1. ASSUME NEW s \in Watched PROVE conn[s].fd \in Fds
      <3>1. conn[s].fd # 0 /\ s \in Slots
        BY <1>2, <2>1 DEF Select, Watched
      <3>2. conn[s].fd \in Fds \cup {0}
        BY <1>6, <3>1 DEF wish_context
      <3> QED BY <3>1, <3>2
    <2>2. \A s \in ok \cup failed : s \in Watched
      BY DEF Connecting
    <2>3. writable' \subseteq Fds
      BY <1>5, <2>1, <2>2
    <2>4. PICK R \in SUBSET (Watched \ Connecting) :
            readable' = {conn[s].fd : s \in R}
      BY <1>2 DEF Select
    <2> QED BY <2>1, <2>3, <2>4
  <1>10. TypeOK'
    <2>1. calls' \in 0..MaxCalls
      BY <1>2, PoolAssumption DEF Select, PoolAssumption
    <2>2. timers' = timers /\ cursor' = cursor /\ fault' = fault
      BY <1>2 DEF Select
    <2> QED BY <1>3, <1>8, <1>9, <2>1, <2>2 DEF TypeOK, Phases
  <1>11. ResolverOwner'
    BY <1>3, <1>7 DEF PoolInv, ResolverOwner, TypeOK
  <1>12. EventsInv'
    BY <1>3, NoEvents
  <1>13. DialInv'
    BY <1>3 DEF DialInv, PoolInv
  <1> QED BY <1>3, <1>7, <1>10, <1>11, <1>12, <1>13 DEF PoolInv

\* A handler of the pre phase keeps the type of what it does not own.
LEMMA HandlerRest ==
    ASSUME IInv, Handler
    PROVE  /\ pc = "pre" /\ events' = <<>> /\ EventsInv'
           /\ calls' \in 0..MaxCalls
           /\ timers' \in Seq(Slots) /\ cursor' \in 1..(PoolSize + 1)
           /\ readable' \subseteq Fds /\ writable' \subseteq Fds
           /\ \A r \in Rels : ~(dial[r] > 0)
  <1>1. pc = "pre" /\ events' = events
    BY DEF Handler
  <1>2. events' = <<>>
    BY <1>1 DEF IInv, PoolInv, EventsInv
  <1>3. calls' \in 0..MaxCalls
    BY PoolAssumption DEF PoolAssumption, Handler, IInv, TypeOK
  <1>4. /\ timers' \in Seq(Slots) /\ cursor' \in 1..(PoolSize + 1)
        /\ readable' \subseteq Fds /\ writable' \subseteq Fds
    BY DEF Handler, IInv, TypeOK
  <1>5. \A r \in Rels : ~(dial[r] > 0)
    BY <1>1 DEF IInv, PoolInv, DialInv
  <1> QED BY <1>1, <1>2, <1>3, <1>4, <1>5, NoEvents

\* The end of every handler that stays in the pre phase.
LEMMA HandlerQED ==
    ASSUME IInv, Handler, UNCHANGED <<pc, dial>>, contacts' \subseteq Rels,
           conn' \in [Slots -> wish_context],
           \A t \in Slots : SlotInv(conn'[t], contacts'),
           resolvers' \subseteq Slots, ResolverOwner', fault' \subseteq FaultKinds
    PROVE  IInv'
  <1>1. TypeOK'
    <2>1. events' \in Seq(Slots)
      BY HandlerRest
    <2>2. pc' \in Phases /\ dial' \in [Rels -> 0..MaxTransports]
      BY DEF IInv, TypeOK
    <2> QED BY <2>1, <2>2, HandlerRest DEF TypeOK
  <1>2. DialInv'
    BY HandlerRest DEF DialInv
  <1>3. EventsInv'
    BY HandlerRest
  <1> QED BY <1>1, <1>2, <1>3 DEF IInv, PoolInv

\* A handler that opens a connection.
LEMMA HandlerOpens ==
    ASSUME IInv, Handler, UNCHANGED <<pc, dial>>,
           contacts \subseteq contacts', contacts' \subseteq Rels,
           NEW s \in Slots, Vacant(s), NEW c \in wish_context,
           c.st = "IN_MAKING", c.ts = "INITIAL", c.ps = "INITIAL", c.fd = 0,
           c.rel = NoRel => c.via, ~c.fr /\ c.rel # NoRel => c.rel \in contacts',
           OpenByAddress(s, c) \/ wish_open_connection_dns(s, c) \/ NotOpened(s)
    PROVE  IInv'
  <1>1. TypeOK /\ PoolInv
    BY DEF IInv
  <1>2. /\ conn' \in [Slots -> wish_context]
        /\ \A t \in Slots : SlotInv(conn'[t], contacts')
        /\ resolvers' \subseteq Slots /\ ResolverOwner' /\ fault' = fault
    BY <1>1, OpenedSlot
  <1>3. fault' \subseteq FaultKinds
    BY <1>1, <1>2 DEF TypeOK
  <1> QED BY <1>2, <1>3, HandlerQED

\* A handler that closes connections and forgets no other's contact.
LEMMA HandlerCloses ==
    ASSUME IInv, Handler, UNCHANGED <<pc, dial>>, contacts' \subseteq Rels,
           NEW D \in SUBSET Slots, wish_close_connection(D),
           \A t \in Slots \ D : SlotInv(conn[t], contacts')
    PROVE  IInv'
  <1>1. TypeOK /\ PoolInv
    BY DEF IInv
  <1>2. /\ conn' \in [Slots -> wish_context]
        /\ \A t \in Slots : SlotInv(conn'[t], contacts')
        /\ resolvers' \subseteq Slots /\ ResolverOwner' /\ fault' \subseteq FaultKinds
    BY <1>1, ClosedSlots
  <1> QED BY <1>2, HandlerQED

\* Removing a contact, accepting or declining a friend request closes
\* connections of that contact only, and all of them when the contact goes.
LEMMA ManagedSlots ==
    ASSUME TypeOK, PoolInv, NEW r \in Rels, Management(r)
    PROVE  \E D \in SUBSET Slots :
             /\ wish_close_connection(D) /\ contacts' \subseteq Rels
             /\ \A t \in Slots \ D : SlotInv(conn[t], contacts')
             /\ \A t \in D : conn[t].rel = r
             /\ contacts \ {r} \subseteq contacts'
  <1>0. /\ contacts \subseteq Rels /\ conn \in [Slots -> wish_context]
        /\ \A t \in Slots : SlotInv(conn[t], contacts)
    BY DEF TypeOK, PoolInv
  <1>1. CASE wish_identity_remove(r)
    <2> DEFINE D == {s \in Slots : InUse(s) /\ conn[s].rel = r}
    <2>1. /\ wish_close_connection(D) /\ contacts' = contacts \ {r}
          /\ D \in SUBSET Slots /\ \A t \in D : conn[t].rel = r
      BY <1>1 DEF wish_identity_remove
    <2>2. \A t \in Slots \ D : SlotInv(conn[t], contacts')
      BY <1>0, <2>1 DEF SlotInv, InUse
    <2> HIDE DEF D
    <2> QED BY <1>0, <2>1, <2>2
  <1>2. CASE \/ wish_api_identity_friend_request_accept(r)
             \/ wish_api_identity_friend_request_decline(r)
    <2>0. PICK D \in {FirstOf(r), {}} :
             /\ wish_close_connection(D)
             /\ contacts' = contacts \cup {r} \/ contacts' = contacts
      BY <1>2 DEF wish_api_identity_friend_request_accept,
                  wish_api_identity_friend_request_decline
    <2>1. /\ wish_close_connection(D)
          /\ contacts' = contacts \cup {r} \/ contacts' = contacts
      BY <2>0
    <2>2. D \in SUBSET Slots /\ \A t \in D : conn[t].rel = r
      BY DEF FirstOf
    <2>3. \A t \in Slots : SlotInv(conn[t], contacts')
      BY <1>0, <2>1, SlotInvMonotone
    <2> QED BY <1>0, <2>1, <2>2, <2>3
  <1> QED BY <1>1, <1>2 DEF Management

\* The pre phase: every handler.
LEMMA PreStep == ASSUME IInv, PrePhase PROVE IInv'
  <1>0. /\ contacts \subseteq Rels /\ conn \in [Slots -> wish_context]
        /\ \A t \in Slots : SlotInv(conn[t], contacts)
        /\ FALSE \in BOOLEAN /\ TRUE \in BOOLEAN
        /\ NoRel \in Rels \cup {NoRel} /\ NoRel \notin Rels
    BY PoolAssumption DEF IInv, TypeOK, PoolInv, PoolAssumption
  <1>1. ASSUME NEW r \in Rels, NEW h \in Hosts, wish_ldiscover_feed(r, h)
        PROVE  IInv'
    <2> DEFINE c == wish_connection_init(r, FALSE, FALSE)
    <2>1. PICK s \in Slots : Vacant(s) /\ OpenByAddress(s, c)
      BY <1>1 DEF wish_ldiscover_feed
    <2>2. /\ Handler /\ UNCHANGED <<pc, dial>> /\ contacts' = contacts
          /\ r \in contacts
      BY <1>1 DEF wish_ldiscover_feed
    <2>3. /\ c \in wish_context
          /\ c.st = "IN_MAKING" /\ c.ts = "INITIAL" /\ c.ps = "INITIAL"
          /\ c.rel = r /\ c.fd = 0
      BY <1>0, FreshRecord
    <2> HIDE DEF c
    <2>4. (c.rel = NoRel => c.via)
          /\ (~c.fr /\ c.rel # NoRel => c.rel \in contacts')
      BY <2>2, <2>3, <1>0
    <2> QED BY <1>0, <2>1, <2>2, <2>3, <2>4, HandlerOpens
  <1>2. ASSUME NEW r \in Rels, wish_api_identity_friend_request(r) PROVE IInv'
    <2> DEFINE c == wish_connection_init(r, TRUE, FALSE)
    <2>1. PICK s \in Slots :
            /\ Vacant(s)
            /\ OpenByAddress(s, c) \/ wish_open_connection_dns(s, c) \/ NotOpened(s)
            /\ contacts' \in {contacts \cup {r}, contacts}
      BY <1>2 DEF wish_api_identity_friend_request
    <2>2. Handler /\ UNCHANGED <<pc, dial>>
      BY <1>2 DEF wish_api_identity_friend_request
    <2>3. /\ c \in wish_context
          /\ c.st = "IN_MAKING" /\ c.ts = "INITIAL" /\ c.ps = "INITIAL"
          /\ c.rel = r /\ c.fr /\ c.fd = 0
      BY FriendReqRecord
    <2> HIDE DEF c
    <2>4. (c.rel = NoRel => c.via)
          /\ (~c.fr /\ c.rel # NoRel => c.rel \in contacts')
          /\ contacts \subseteq contacts' /\ contacts' \subseteq Rels
      BY <2>1, <2>3, <1>0
    <2> QED BY <2>1, <2>2, <2>3, <2>4, HandlerOpens
  <1>3. ASSUME NEW r \in Rels, NEW h \in WldHosts, wish_api_wld_friend_request(r, h)
        PROVE  IInv'
    <2>1. Handler /\ dial' = dial /\ contacts' = contacts \cup {r}
      BY <1>3 DEF wish_api_wld_friend_request
    <2>2. contacts \subseteq contacts' /\ contacts' \subseteq Rels
      BY <2>1, <1>0
    <2>3. ASSUME NEW s \in Slots, Vacant(s), UNCHANGED pc,
                 OpenByAddress(s, [wish_connection_init(r, TRUE, FALSE)
                                     EXCEPT !.host = h])
          PROVE  IInv'
      <3> DEFINE b == wish_connection_init(r, TRUE, FALSE)
                 c == [b EXCEPT !.host = h]
      <3>1. /\ b \in wish_context
            /\ b.st = "IN_MAKING" /\ b.ts = "INITIAL" /\ b.ps = "INITIAL"
            /\ b.rel = r /\ b.fr /\ b.fd = 0
        BY FriendReqRecord
      <3> HIDE DEF b
      <3>2. h \in Hosts \cup {NoHost}
        BY PoolAssumption DEF PoolAssumption
      <3>3. /\ c \in wish_context
            /\ c.st = "IN_MAKING" /\ c.ts = "INITIAL" /\ c.ps = "INITIAL"
            /\ c.rel = r /\ c.fr /\ c.fd = 0
        BY <3>1, <3>2 DEF wish_context
      <3>4. OpenByAddress(s, c)
        BY <2>3 DEF b
      <3> HIDE DEF c
      <3>5. (c.rel = NoRel => c.via)
            /\ (~c.fr /\ c.rel # NoRel => c.rel \in contacts')
        BY <3>3, <1>0
      <3> QED BY <2>1, <2>2, <2>3, <3>3, <3>4, <3>5, HandlerOpens
    <2>4. CASE /\ fault' = fault \cup {"null_deref"} /\ pc' = "halt"
               /\ UNCHANGED <<conn, resolvers>>
      <3>1. \A t \in Slots : SlotInv(conn'[t], contacts')
        BY <1>0, <2>2, <2>4, SlotInvMonotone
      <3>2. ResolverOwner'
        BY <2>4 DEF IInv, PoolInv, ResolverOwner
      <3>3. DialInv'
        BY <2>1, HandlerRest DEF DialInv
      <3>4. TypeOK'
        <4>1. events' \in Seq(Slots)
          BY <2>1, HandlerRest
        <4>2. /\ pc' \in Phases /\ dial' \in [Rels -> 0..MaxTransports]
              /\ fault' \subseteq FaultKinds /\ resolvers' \subseteq Slots
              /\ conn' \in [Slots -> wish_context]
          BY <2>1, <2>4 DEF IInv, TypeOK, Phases, FaultKinds
        <4> QED BY <4>1, <4>2, <2>1, <2>2, HandlerRest DEF TypeOK
      <3> QED BY <2>1, <3>1, <3>2, <3>3, <3>4, HandlerRest DEF IInv, PoolInv
    <2> QED BY <1>3, <2>3, <2>4 DEF wish_api_wld_friend_request
  <1>4. CASE RelaySession
    <2> DEFINE c == wish_connection_init(NoRel, FALSE, TRUE)
    <2>1. PICK s \in Slots : /\ Vacant(s)
                             /\ OpenByAddress(s, c) \/ wish_open_connection_dns(s, c)
      BY <1>4 DEF RelaySession
    <2>2. Handler /\ UNCHANGED <<pc, dial>> /\ contacts' = contacts
      BY <1>4 DEF RelaySession
    <2>3. /\ c \in wish_context
          /\ c.st = "IN_MAKING" /\ c.ts = "INITIAL" /\ c.ps = "INITIAL"
          /\ c.rel = NoRel /\ c.via /\ c.fd = 0
      BY <1>0, FreshRecord
    <2> HIDE DEF c
    <2>4. (c.rel = NoRel => c.via)
          /\ (~c.fr /\ c.rel # NoRel => c.rel \in contacts')
      BY <2>3
    <2> QED BY <1>0, <2>1, <2>2, <2>3, <2>4, HandlerOpens
  <1>5. ASSUME NEW s \in Slots, wish_api_connections_disconnect(s) PROVE IInv'
    <2>1. /\ Handler /\ UNCHANGED <<pc, dial>> /\ contacts' = contacts
          /\ wish_close_connection({s}) /\ {s} \in SUBSET Slots
      BY <1>5 DEF wish_api_connections_disconnect
    <2> QED BY <1>0, <2>1, HandlerCloses
  <1>6. CASE wish_connections_close_all
    <2> DEFINE D == {s \in Slots : InUse(s)}
    <2>1. /\ Handler /\ UNCHANGED <<pc, dial>> /\ contacts' = contacts
          /\ wish_close_connection(D) /\ D \in SUBSET Slots
      BY <1>6 DEF wish_connections_close_all
    <2> HIDE DEF D
    <2> QED BY <1>0, <2>1, HandlerCloses
  <1>7. ASSUME NEW r \in Rels, LocalManagement(r) PROVE IInv'
    <2>1. Handler /\ UNCHANGED <<pc, dial>> /\ Management(r)
      BY <1>7 DEF LocalManagement
    <2>2. PICK D \in SUBSET Slots :
            /\ wish_close_connection(D) /\ contacts' \subseteq Rels
            /\ \A t \in Slots \ D : SlotInv(conn[t], contacts')
      BY <1>0, <2>1, ManagedSlots DEF IInv
    <2> QED BY <2>1, <2>2, HandlerCloses
  <1>8. CASE wish_api_connections_check_connections
    <2>1. /\ Handler /\ pc' = "recheck" /\ dial' \in Dialling
          /\ UNCHANGED <<conn, contacts, resolvers, fault>>
      BY <1>8 DEF wish_api_connections_check_connections
    <2>2. DialInv'
      BY <2>1 DEF DialInv, Dialling
    <2>3. TypeOK'
      <3>1. events' \in Seq(Slots)
        BY <2>1, HandlerRest
      <3>2. /\ pc' \in Phases /\ dial' \in [Rels -> 0..MaxTransports]
            /\ fault' \subseteq FaultKinds /\ resolvers' \subseteq Slots
            /\ conn' \in [Slots -> wish_context] /\ contacts' \subseteq Rels
        BY <2>1 DEF IInv, TypeOK, Phases, Dialling
      <3> QED BY <3>1, <3>2, <2>1, HandlerRest DEF TypeOK
    <2>4. ResolverOwner' /\ \A t \in Slots : SlotInv(conn'[t], contacts')
      BY <2>1 DEF IInv, PoolInv, ResolverOwner
    <2> QED BY <2>1, <2>2, <2>3, <2>4, HandlerRest DEF IInv, PoolInv
  <1>9. CASE HandlersDone
    <2>1. /\ pc = "pre" /\ pc' = "io" /\ cursor' = 1
          /\ UNCHANGED <<conn, contacts, resolvers, events, timers, readable,
                         writable, calls, dial, fault>>
      BY <1>9 DEF HandlersDone
    <2>2. TypeOK'
      BY <2>1, PoolAssumption DEF IInv, TypeOK, Phases, PoolAssumption
    <2>3. events' = <<>>
      BY <2>1 DEF IInv, PoolInv, EventsInv
    <2>4. ResolverOwner' /\ \A t \in Slots : SlotInv(conn'[t], contacts')
      BY <2>1 DEF IInv, PoolInv, ResolverOwner
    <2>5. DialInv'
      BY <2>1 DEF IInv, PoolInv, DialInv
    <2> QED BY <2>2, <2>3, <2>4, <2>5, NoEvents DEF IInv, PoolInv
  <1> QED BY <1>1, <1>2, <1>3, <1>4, <1>5, <1>6, <1>7, <1>8, <1>9 DEF PrePhase

-----------------------------------------------------------------------------
(* The I/O pass: events stay behind the cursor. *)

\* A step of the pass that closes or changes no slot with a queued event.
LEMMA EventsKept ==
    ASSUME IInv, events' = events, pc \in {"io", "frames"},
           \/ pc' = "io" /\ cursor' = cursor + 1
           \/ pc' = "frames" /\ cursor' = cursor,
           \A i \in 1..Len(events) :
              EventInv(conn[events[i]], contacts)
                => EventInv(conn'[events[i]], contacts')
    PROVE  EventsInv'
  <1>1. events \in Seq(Slots) /\ cursor \in 1..(PoolSize + 1)
    BY DEF IInv, TypeOK
  <1>2. \A i \in 1..Len(events) : events[i] \in Int /\ cursor \in Int
    BY <1>1, PoolAssumption DEF PoolAssumption, Slots
  <1>3. \A i \in 1..Len(events) :
          /\ EventInv(conn[events[i]], contacts)
          /\ pc = "io" => events[i] < cursor
          /\ pc = "frames" => events[i] <= cursor
    BY DEF IInv, PoolInv, EventsInv
  <1>4. \A i \in 1..Len(events') :
          /\ EventInv(conn'[events'[i]], contacts')
          /\ pc' = "io" => events'[i] < cursor'
          /\ pc' = "frames" => events'[i] <= cursor'
    BY <1>2, <1>3
  <1>5. pc' \in {"io", "frames"}
    OBVIOUS
  <1> QED BY <1>4, <1>5 DEF EventsInv

\* What a step of the pass at slot s must establish, the queue aside.
LEMMA PassQED ==
    ASSUME IInv, pc \in {"io", "frames"}, cursor \in Slots,
           \/ pc' = "io" /\ cursor' = cursor + 1
           \/ pc' = "frames" /\ cursor' = cursor,
           UNCHANGED <<timers, readable, writable, calls, dial>>,
           contacts' \subseteq Rels, conn' \in [Slots -> wish_context],
           \A t \in Slots : SlotInv(conn'[t], contacts'),
           resolvers' \subseteq Slots, ResolverOwner', fault' \subseteq FaultKinds,
           events' \in Seq(Slots), EventsInv'
    PROVE  IInv'
  <1>1. cursor' \in 1..(PoolSize + 1) /\ pc' \in Phases
    BY PoolAssumption DEF PoolAssumption, Slots, Phases
  <1>2. TypeOK'
    BY <1>1 DEF IInv, TypeOK
  <1>3. DialInv'
    BY DEF IInv, PoolInv, DialInv
  <1> QED BY <1>2, <1>3 DEF IInv, PoolInv

\* A step of the pass that closes the slots of D, for none of which an
\* event is queued.
LEMMA PassClosesMany ==
    ASSUME IInv, pc \in {"io", "frames"}, cursor \in Slots,
           \/ pc' = "io" /\ cursor' = cursor + 1
           \/ pc' = "frames" /\ cursor' = cursor,
           UNCHANGED <<timers, readable, writable, calls, dial>>,
           events' = events, contacts' \subseteq Rels,
           NEW D \in SUBSET Slots, wish_close_connection(D),
           \A t \in Slots \ D : SlotInv(conn[t], contacts'),
           \A i \in 1..Len(events) :
              events[i] \notin D /\ conn[events[i]].rel \in contacts'
    PROVE  IInv'
  <1>1. TypeOK /\ PoolInv /\ events \in Seq(Slots)
    BY DEF IInv, TypeOK
  <1>2. /\ conn' \in [Slots -> wish_context]
        /\ \A t \in Slots : SlotInv(conn'[t], contacts')
        /\ \A t \in Slots \ D : conn'[t] = conn[t]
        /\ resolvers' \subseteq Slots /\ ResolverOwner' /\ fault' \subseteq FaultKinds
    BY <1>1, ClosedSlots
  <1>3. \A i \in 1..Len(events) : events[i] \in Slots
    BY <1>1
  <1>4. \A i \in 1..Len(events) :
          EventInv(conn[events[i]], contacts)
            => EventInv(conn'[events[i]], contacts')
    BY <1>2, <1>3 DEF EventInv
  <1>5. EventsInv'
    BY <1>4, EventsKept
  <1> QED BY <1>1, <1>2, <1>5, PassQED

\* A step of the pass at slot s that closes s while no event is queued
\* for it.
LEMMA PassCloses ==
    ASSUME IInv, pc \in {"io", "frames"}, NEW s \in Slots, cursor = s,
           pc' = "io" /\ cursor' = cursor + 1,
           UNCHANGED <<contacts, timers, readable, writable, calls, dial>>,
           events' = events, \A i \in 1..Len(events) : events[i] # s,
           \/ wish_close_connection({s})
           \/ /\ conn' = [conn EXCEPT ![s] = FreeSlot]
              /\ fault' \subseteq FaultKinds
              /\ resolvers' = resolvers /\ s \notin resolvers
    PROVE  IInv'
  <1>1. TypeOK /\ PoolInv /\ contacts' = contacts /\ contacts' \subseteq Rels
    BY DEF IInv, TypeOK
  <1>2. /\ conn' \in [Slots -> wish_context]
        /\ \A t \in Slots : SlotInv(conn'[t], contacts')
        /\ \A t \in Slots : t # s => conn'[t] = conn[t]
        /\ resolvers' \subseteq Slots /\ ResolverOwner' /\ fault' \subseteq FaultKinds
    <2>1. CASE wish_close_connection({s})
      <3>1. {s} \in SUBSET Slots /\ \A t \in Slots \ {s} : SlotInv(conn[t], contacts')
        BY <1>1 DEF PoolInv
      <3> QED BY <2>1, <3>1, <1>1, ClosedSlots
    <2>2. CASE /\ conn' = [conn EXCEPT ![s] = FreeSlot]
               /\ fault' \subseteq FaultKinds
               /\ resolvers' = resolvers /\ s \notin resolvers
      <3>1. FreeSlot \in wish_context /\ SlotInv(FreeSlot, contacts')
        BY FreeSlotInv
      <3>2. /\ conn' \in [Slots -> wish_context]
            /\ \A t \in Slots : SlotInv(conn'[t], contacts')
            /\ \A t \in Slots : t # s => conn'[t] = conn[t]
        BY <2>2, <3>1, <1>1, OneSlot DEF PoolInv
      <3>3. ResolverOwner'
        BY <2>2, <3>2, <1>1 DEF PoolInv, TypeOK, ResolverOwner
      <3> QED BY <2>2, <3>2, <3>3, <1>1 DEF TypeOK
    <2> QED BY <2>1, <2>2
  <1>3. events' \in Seq(Slots)
    BY <1>1 DEF TypeOK
  <1>4. \A i \in 1..Len(events) : events[i] \in Slots
    BY <1>1 DEF TypeOK
  <1>5. EventsInv'
    BY <1>1, <1>2, <1>4, EventsKept
  <1> QED BY <1>1, <1>2, <1>3, <1>5, PassQED

\* TCP_CONNECTED and TCP_RELAY_SESSION_CONNECTED on a connecting record.
LEMMA ConnectedRecord ==
    ASSUME NEW c \in wish_context, NEW known, SlotInv(c, known),
           c.st # "FREE", c.ts = "CONNECTING"
    PROVE  TcpConnected(c) \in wish_context /\ SlotInv(TcpConnected(c), known)
  <1>1. CASE c.via
    BY <1>1 DEF TcpConnected, wish_context, SlotInv, TransportStates
  <1>2. CASE ~c.via
    BY <1>2 DEF TcpConnected, wish_context, SlotInv, TransportStates,
                ProtocolStates
  <1> QED BY <1>1, <1>2

\* A step of the pass that changes only slot s, to a good record, while no
\* event is queued for it.
LEMMA PassUpdates ==
    ASSUME IInv, pc \in {"io", "frames"}, NEW s \in Slots, cursor = s,
           \/ pc' = "io" /\ cursor' = cursor + 1
           \/ pc' = "frames" /\ cursor' = cursor,
           UNCHANGED <<contacts, timers, readable, writable, calls, dial,
                       events, resolvers, fault>>,
           NEW c \in wish_context, conn' = [conn EXCEPT ![s] = c],
           SlotInv(c, contacts), s \notin resolvers,
           ~EventInv(conn[s], contacts)
    PROVE  IInv'
  <1>1. TypeOK /\ PoolInv /\ contacts' = contacts
    BY DEF IInv
  <1>2. /\ conn' \in [Slots -> wish_context]
        /\ \A t \in Slots : SlotInv(conn'[t], contacts')
        /\ \A t \in Slots : t # s => conn'[t] = conn[t]
    BY <1>1, OneSlot DEF PoolInv
  <1>3. ResolverOwner' /\ resolvers' \subseteq Slots
    BY <1>1, <1>2 DEF PoolInv, TypeOK, ResolverOwner
  <1>4. /\ events' \in Seq(Slots) /\ fault' \subseteq FaultKinds
        /\ contacts' \subseteq Rels
    BY <1>1 DEF TypeOK
  <1>5. \A i \in 1..Len(events) : events[i] \in Slots
    BY <1>1 DEF TypeOK
  <1>6. EventsInv'
    BY <1>1, <1>2, <1>5, EventsKept
  <1> QED BY <1>2, <1>3, <1>4, <1>6, PassQED

\* A step of the pass that changes no slot at all.
LEMMA PassIdles ==
    ASSUME IInv, pc \in {"io", "frames"}, cursor \in Slots,
           \/ pc' = "io" /\ cursor' = cursor + 1
           \/ pc' = "frames" /\ cursor' = cursor,
           UNCHANGED <<conn, contacts, timers, readable, writable, calls, dial,
                       events, resolvers, fault>>
    PROVE  IInv'
  <1>1. EventsInv'
    BY EventsKept
  <1>2. /\ conn' \in [Slots -> wish_context]
        /\ \A t \in Slots : SlotInv(conn'[t], contacts')
        /\ resolvers' \subseteq Slots /\ ResolverOwner'
        /\ events' \in Seq(Slots) /\ fault' \subseteq FaultKinds
        /\ contacts' \subseteq Rels
    BY DEF IInv, PoolInv, TypeOK, ResolverOwner
  <1> QED BY <1>1, <1>2, PassQED

\* While the cursor of the pass is at slot s, no event is queued for s.
LEMMA CursorHasNoEvent ==
    ASSUME IInv, pc = "io", NEW s \in Slots, cursor = s
    PROVE  \A i \in 1..Len(events) : events[i] # s
  <1>1. events \in Seq(Slots)
    BY DEF IInv, TypeOK
  <1>2. \A i \in 1..Len(events) : events[i] \in Int /\ events[i] < cursor
    BY <1>1, PoolAssumption DEF PoolAssumption, Slots, IInv, PoolInv, EventsInv
  <1> QED BY <1>2 DEF Slots

\* The io phase.
LEMMA IoStep == ASSUME IInv, IoPhase PROVE IInv'
  <1>1. ASSUME NEW s \in Slots, IoNothing(s) PROVE IInv'
    BY <1>1, PassIdles DEF IoNothing, AtSlot, NextSlot
  <1>2. ASSUME NEW s \in Slots, wish_core_feed(s) PROVE IInv'
    BY <1>2, PassIdles DEF wish_core_feed, AtSlot
  <1>3. ASSUME NEW s \in Slots, IoEof(s) \/ connect_fail_cb(s) PROVE IInv'
    <2>1. /\ pc = "io" /\ cursor = s /\ pc' = "io" /\ cursor' = cursor + 1
          /\ UNCHANGED <<contacts, timers, readable, writable, calls, dial>>
          /\ events' = events /\ resolvers' = resolvers
          /\ s \in Watched /\ TcpDisconnected(s)
      BY <1>3 DEF IoEof, connect_fail_cb, AtSlot, NextSlot, Flagged
    <2>2. s \notin resolvers
      BY <2>1 DEF Watched, IInv, PoolInv, ResolverOwner
    <2>3. conn' = [conn EXCEPT ![s] = FreeSlot] /\ fault' \subseteq FaultKinds
      BY <2>1 DEF TcpDisconnected, TcpDisconnectedFaults, FaultKinds, IInv, TypeOK
    <2>4. \A i \in 1..Len(events) : events[i] # s
      BY <2>1, CursorHasNoEvent
    <2>5. pc \in {"io", "frames"}
      BY <2>1
    <2> QED BY <2>1, <2>2, <2>3, <2>4, <2>5, PassCloses
  <1>4. ASSUME NEW s \in Slots, IoConnected(s) PROVE IInv'
    <2>1. /\ pc = "io" /\ cursor = s /\ s \in Watched
          /\ UNCHANGED <<contacts, timers, readable, writable, calls, dial,
                         events, resolvers>>
      BY <1>4 DEF IoConnected, AtSlot, Flagged
    <2>2. conn[s] \in wish_context /\ SlotInv(conn[s], contacts)
          /\ conn[s].st # "FREE"
      BY <2>1 DEF IInv, TypeOK, PoolInv, Watched, InUse
    <2>3. CASE conn[s].ts = "CONNECTING"
      <3> DEFINE c == TcpConnected(conn[s])
      <3>1. c \in wish_context /\ SlotInv(c, contacts)
        BY <2>2, <2>3, ConnectedRecord
      <3>2. /\ conn' = [conn EXCEPT ![s] = c] /\ fault' = fault
            /\ pc' = "io" /\ cursor' = cursor + 1
        BY <1>4, <2>3 DEF IoConnected, NextSlot
      <3> HIDE DEF c
      <3>3. s \notin resolvers
        BY <2>3 DEF IInv, PoolInv, ResolverOwner
      <3>4. ~EventInv(conn[s], contacts)
        BY <2>2, <2>3 DEF SlotInv, EventInv
      <3>5. pc \in {"io", "frames"}
        BY <2>1
      <3> QED BY <2>1, <3>1, <3>2, <3>3, <3>4, <3>5, PassUpdates
    <2>4. CASE conn[s].ts # "CONNECTING"
      <3>1. /\ fault' = fault \cup {"abort"} /\ pc' = "halt"
            /\ UNCHANGED <<conn, cursor>>
        BY <1>4, <2>4 DEF IoConnected
      <3>2. TypeOK'
        BY <2>1, <3>1 DEF IInv, TypeOK, Phases, FaultKinds
      <3>3. ResolverOwner' /\ \A t \in Slots : SlotInv(conn'[t], contacts')
        BY <2>1, <3>1 DEF IInv, PoolInv, ResolverOwner
      <3>4. EventsInv'
        BY <2>1, <3>1 DEF IInv, PoolInv, EventsInv
      <3>5. DialInv'
        BY <2>1, <3>1 DEF IInv, PoolInv, DialInv
      <3> QED BY <3>2, <3>3, <3>4, <3>5 DEF IInv, PoolInv
    <2> QED BY <2>3, <2>4
  <1>5. CASE IoDone
    <2>1. /\ pc = "io" /\ pc' = "accept"
          /\ UNCHANGED <<conn, contacts, resolvers, events, timers, cursor,
                         readable, writable, calls, dial, fault>>
      BY <1>5 DEF IoDone
    <2>2. TypeOK'
      BY <2>1 DEF IInv, TypeOK, Phases
    <2>3. ResolverOwner' /\ \A t \in Slots : SlotInv(conn'[t], contacts')
      BY <2>1 DEF IInv, PoolInv, ResolverOwner
    <2>4. EventsInv'
      BY <2>1 DEF IInv, PoolInv, EventsInv
    <2>5. DialInv'
      BY <2>1 DEF IInv, PoolInv, DialInv
    <2> QED BY <2>2, <2>3, <2>4, <2>5 DEF IInv, PoolInv
  <1> QED BY <1>1, <1>2, <1>3, <1>4, <1>5 DEF IoPhase

-----------------------------------------------------------------------------
(* wish_core_process_data. *)

\* What HandshakeDone writes into the slot is a good record, and one a
\* queued event may rely on when it is not a friend request.
LEMMA FinishedRecord ==
    ASSUME NEW c \in wish_context, NEW h \in Hosts \cup {NoHost}, NEW known,
           SlotInv(c, known), c.ps \in {"HANDSHAKE", "READ_REPLY"}
    PROVE  /\ Finished(c, h) \in wish_context
           /\ SlotInv(Finished(c, h), known)
           /\ ~c.fr => EventInv(Finished(c, h), known)
  <1> DEFINE d == Finished(c, h)
  <1>1. d \in wish_context
    BY DEF Finished, wish_context, ProtocolStates, ContextStates
  <1>2. /\ d.ps = "RUNNING" /\ d.ts = c.ts /\ d.rel = c.rel /\ d.fd = c.fd
        /\ d.via = c.via /\ d.fr = c.fr
        /\ d.st = c.st \/ d.st = "CONNECTED"
    BY DEF Finished, wish_context
  <1> HIDE DEF d
  <1>3. SlotInv(d, known)
    BY <1>1, <1>2 DEF SlotInv, wish_context
  <1>4. ~c.fr => EventInv(d, known)
    BY <1>2 DEF SlotInv, EventInv
  <1> QED BY <1>1, <1>3, <1>4 DEF d

\* The record the hello of a client leaves.
LEMMA HelloRecord ==
    ASSUME NEW c \in wish_context, NEW r \in Rels, NEW fr \in BOOLEAN, NEW known,
           SlotInv(c, known), c.ts = "SERVER_WAIT_INITIAL", fr \/ r \in known
    PROVE  LET d == [c EXCEPT !.rel = r, !.fr = fr, !.dhm = "live",
                              !.ts = "WAIT_FRAME_LEN", !.ps = "SERVER_DH"] IN
           d \in wish_context /\ SlotInv(d, known)
  <1> r # NoRel
    BY PoolAssumption DEF PoolAssumption
  <1> QED BY DEF wish_context, SlotInv, TransportStates, ProtocolStates

\* The frames phase: no frame closes a connection whose event is queued.
LEMMA FrameStep == ASSUME IInv, FramePhase, EarlyCloses = {} PROVE IInv'
  <1>0. TypeOK /\ PoolInv /\ \A i \in 1..Len(events) : events[i] \in Slots
    BY DEF IInv, TypeOK
  <1> DEFINE Same == UNCHANGED <<contacts, timers, readable, writable, calls, dial>>
             More == \/ pc' = "io" /\ cursor' = cursor + 1
                     \/ pc' = "frames" /\ cursor' = cursor
  <1>1. ASSUME NEW s \in Slots, NoMoreFrames(s) \/ Message(s) PROVE IInv'
    <2>1. pc = "frames" /\ cursor \in Slots /\ Same /\ More
          /\ UNCHANGED <<conn, resolvers, events, fault>>
      BY <1>1 DEF NoMoreFrames, Message, Processing, NextSlot, MoreOrNext,
                  FrameUnchanged
    <2> QED BY <2>1, PassIdles
  <1>2. ASSUME NEW s \in Slots, RejectFrame(s) \/ FriendReqAccepted(s) PROVE IInv'
    <2>1. /\ pc = "frames" /\ cursor = s /\ Same /\ events' = events
          /\ pc' = "io" /\ cursor' = cursor + 1 /\ wish_close_connection({s})
      BY <1>2 DEF RejectFrame, FriendReqAccepted, Processing, NextSlot,
                  FrameUnchanged
    <2>2. \A i \in 1..Len(events) : events[i] # s
      <3>1. CASE RejectFrame(s)
        BY <3>1 DEF RejectFrame, Contains
      <3>2. CASE FriendReqAccepted(s)
        BY <3>2, <1>0 DEF FriendReqAccepted, PoolInv, EventsInv, EventInv
      <3> QED BY <1>2, <3>1, <3>2
    <2> QED BY <2>1, <2>2, PassCloses
  <1>3. ASSUME NEW s \in Slots, NEW r \in Rels, NEW fr \in BOOLEAN,
               ServerHello(s, r, fr)
        PROVE  IInv'
    <2>1. /\ pc = "frames" /\ cursor = s /\ Same /\ More
          /\ UNCHANGED <<resolvers, events, fault>>
          /\ conn[s].ts = "SERVER_WAIT_INITIAL" /\ (fr \/ r \in contacts)
      BY <1>3 DEF ServerHello, Processing, NextSlot, FrameUnchanged
    <2>2. conn[s] \in wish_context /\ SlotInv(conn[s], contacts)
      BY <1>0 DEF TypeOK, PoolInv
    <2> DEFINE d == [conn[s] EXCEPT !.rel = r, !.fr = fr, !.dhm = "live",
                              !.ts = "WAIT_FRAME_LEN", !.ps = "SERVER_DH"]
    <2>3. d \in wish_context /\ SlotInv(d, contacts)
      BY <2>1, <2>2, HelloRecord
    <2>4. conn' = [conn EXCEPT ![s] = d]
      BY <1>3 DEF ServerHello
    <2> HIDE DEF d
    <2>5. s \notin resolvers /\ ~EventInv(conn[s], contacts)
      BY <1>0, <2>1, <2>2 DEF PoolInv, ResolverOwner, SlotInv, EventInv
    <2> QED BY <2>1, <2>3, <2>4, <2>5, PassUpdates
  <1>4. ASSUME NEW s \in Slots, ServerHelloDhmError(s) \/ ServerNoPrivkey(s)
        PROVE  IInv'
    <2>1. /\ pc = "frames" /\ cursor = s /\ Same /\ events' = events
          /\ pc' = "io" /\ cursor' = cursor + 1 /\ resolvers' = resolvers
          /\ conn' = [conn EXCEPT ![s] = FreeSlot]
          /\ conn[s].ts = "SERVER_WAIT_INITIAL" \/ conn[s].ps = "SERVER_DH"
      BY <1>4 DEF ServerHelloDhmError, ServerNoPrivkey, Processing, NextSlot,
                  FrameUnchanged
    <2>2. SlotInv(conn[s], contacts)
      BY <1>0 DEF PoolInv
    <2>3. s \notin resolvers /\ ~EventInv(conn[s], contacts)
      BY <1>0, <2>1, <2>2 DEF PoolInv, ResolverOwner, SlotInv, EventInv
    <2>4. \A i \in 1..Len(events) : events[i] # s
      BY <1>0, <2>3 DEF PoolInv, EventsInv
    <2>5. fault' \subseteq FaultKinds
      BY <1>0, <1>4 DEF ServerHelloDhmError, ServerNoPrivkey,
                        TcpDisconnectedFaults, FaultKinds, TypeOK
    <2> QED BY <2>1, <2>3, <2>4, <2>5, PassCloses
  <1>5. ASSUME NEW s \in Slots, Handshake(s) PROVE IInv'
    <2>1. PICK next \in ProtocolStates :
            /\ <<conn[s].ps, next>> \in HandshakeOrder
            /\ conn' = [conn EXCEPT ![s] = Advance(conn[s], next)]
      BY <1>5 DEF Handshake
    <2>2. /\ pc = "frames" /\ cursor = s /\ Same /\ More
          /\ UNCHANGED <<resolvers, events, fault>>
      BY <1>5 DEF Handshake, Processing, MoreOrNext, NextSlot, FrameUnchanged
    <2>3. conn[s] \in wish_context /\ SlotInv(conn[s], contacts)
      BY <1>0 DEF TypeOK, PoolInv
    <2> DEFINE d == Advance(conn[s], next)
    <2>4. /\ d \in wish_context /\ SlotInv(d, contacts)
          /\ conn[s].ps # "RUNNING" /\ conn[s].ts = "WAIT_FRAME_LEN"
      BY <2>1, <2>3, HandshakeRecord
    <2>5. conn' = [conn EXCEPT ![s] = d]
      BY <2>1
    <2> HIDE DEF d
    <2>6. s \notin resolvers /\ ~EventInv(conn[s], contacts)
      BY <1>0, <2>4 DEF PoolInv, ResolverOwner, EventInv
    <2> QED BY <2>2, <2>4, <2>5, <2>6, PassUpdates
  <1>6. ASSUME NEW s \in Slots, NEW h \in Hosts \cup {NoHost}, HandshakeDone(s, h)
        PROVE  IInv'
    <2>1. /\ pc = "frames" /\ cursor = s /\ Same /\ More
          /\ UNCHANGED <<resolvers, fault>>
          /\ conn[s].ps \in {"HANDSHAKE", "READ_REPLY"}
          /\ events' = IF conn[s].fr THEN events ELSE Append(events, s)
      BY <1>6 DEF HandshakeDone, Processing, MoreOrNext, NextSlot, FrameUnchanged
    <2>2. conn[s] \in wish_context /\ SlotInv(conn[s], contacts)
      BY <1>0 DEF TypeOK, PoolInv
    <2> DEFINE d == Finished(conn[s], h)
    <2>3. /\ d \in wish_context /\ SlotInv(d, contacts)
          /\ ~conn[s].fr => EventInv(d, contacts)
      BY <2>1, <2>2, FinishedRecord
    <2>4. conn' = [conn EXCEPT ![s] = d]
      BY <1>6 DEF HandshakeDone
    <2> HIDE DEF d
    <2>5. s \notin resolvers /\ ~EventInv(conn[s], contacts)
      BY <1>0, <2>1, <2>2 DEF PoolInv, ResolverOwner, SlotInv, EventInv
    <2>6. CASE conn[s].fr
      <3>1. events' = events
        BY <2>1, <2>6
      <3> QED BY <2>1, <3>1, <2>3, <2>4, <2>5, PassUpdates
    <2>7. CASE ~conn[s].fr
      <3>1. /\ conn' \in [Slots -> wish_context]
            /\ \A t \in Slots : SlotInv(conn'[t], contacts')
            /\ conn'[s] = d
            /\ \A t \in Slots : t # s => conn'[t] = conn[t]
        BY <2>1, <2>3, <2>4, <1>0, OneSlot DEF PoolInv
      <3>2. /\ ResolverOwner' /\ resolvers' \subseteq Slots
            /\ fault' \subseteq FaultKinds /\ contacts' \subseteq Rels
        BY <2>1, <2>5, <3>1, <1>0 DEF PoolInv, TypeOK, ResolverOwner
      <3>3. events' = Append(events, s) /\ events \in Seq(Slots)
        BY <2>1, <2>7, <1>0 DEF TypeOK
      <3>4. /\ events' \in Seq(Slots) /\ Len(events') = Len(events) + 1
            /\ events'[Len(events) + 1] = s
            /\ \A i \in 1..Len(events) : events'[i] = events[i]
        BY <3>3
      <3>5. \A i \in 1..Len(events) :
              /\ EventInv(conn[events[i]], contacts) /\ events[i] <= cursor
              /\ events[i] # s
        BY <1>0, <2>1, <2>5 DEF PoolInv, EventsInv
      <3>6. Len(events) \in Nat /\ s \in Int
            /\ \A i \in 1..Len(events) : events[i] \in Int
        BY <3>3, <1>0, PoolAssumption DEF PoolAssumption, Slots
      <3>7. ASSUME NEW i \in 1..Len(events')
            PROVE  EventInv(conn'[events'[i]], contacts') /\ events'[i] <= s
        <4>1. CASE i = Len(events) + 1
          BY <4>1, <3>1, <3>4, <3>6, <2>1, <2>3, <2>7
        <4>2. CASE i \in 1..Len(events)
          BY <4>2, <3>1, <3>4, <3>5, <3>6, <1>0, <2>1
        <4> QED BY <4>1, <4>2, <3>4, <3>6
      <3>8. EventsInv'
        <4>1. CASE pc' = "io" /\ cursor' = cursor + 1
          <5>1. \A i \in 1..Len(events') : events'[i] \in Int
            BY <3>4, <1>0, PoolAssumption DEF PoolAssumption, Slots
          <5>2. \A i \in 1..Len(events') : events'[i] < cursor'
            BY <3>7, <5>1, <4>1, <2>1, <3>6
          <5> QED BY <3>7, <5>2, <4>1 DEF EventsInv
        <4>2. CASE pc' = "frames" /\ cursor' = cursor
          BY <3>7, <4>2, <2>1 DEF EventsInv
        <4> QED BY <4>1, <4>2, <2>1
      <3> QED BY <2>1, <3>1, <3>2, <3>4, <3>8, PassQED
    <2> QED BY <2>6, <2>7
  <1>7. ASSUME NEW s \in Slots, core_friend_req(s) PROVE IInv'
    <2> DEFINE others == {t \in Slots \ {s} : InUse(t) /\ conn[t].rel = conn[s].rel}
               D == {t \in others : \A u \in others : t <= u}
    <2>1. /\ pc = "frames" /\ cursor = s /\ Same /\ More /\ events' = events
          /\ conn[s].rel \notin contacts /\ wish_close_connection(D)
      BY <1>7 DEF core_friend_req, Processing, MoreOrNext, NextSlot, FrameUnchanged
    <2>2. D \in SUBSET Slots /\ \A t \in D : conn[t].rel = conn[s].rel
      OBVIOUS
    <2> HIDE DEF D
    <2>3. /\ contacts' = contacts /\ contacts' \subseteq Rels
          /\ \A t \in Slots \ D : SlotInv(conn[t], contacts')
      BY <2>1, <1>0 DEF TypeOK, PoolInv
    <2>4. /\ conn' \in [Slots -> wish_context]
          /\ \A t \in Slots : SlotInv(conn'[t], contacts')
          /\ \A t \in Slots \ D : conn'[t] = conn[t]
          /\ resolvers' \subseteq Slots /\ ResolverOwner' /\ fault' \subseteq FaultKinds
      BY <1>0, <2>1, <2>2, <2>3, ClosedSlots
    <2>5. \A i \in 1..Len(events) : EventInv(conn[events[i]], contacts) =>
            EventInv(conn'[events[i]], contacts)
      <3>1. \A t \in D : ~EventInv(conn[t], contacts)
        BY <2>1, <2>2 DEF EventInv
      <3> QED BY <3>1, <2>4, <1>0
    <2>6. EventsInv'
      BY <2>1, <2>3, <2>5, EventsKept
    <2>7. events' \in Seq(Slots)
      BY <2>1, <1>0 DEF TypeOK
    <2> QED BY <2>1, <2>3, <2>4, <2>6, <2>7, PassQED
  <1>8. ASSUME NEW s \in Slots, FriendReqDeclined(s) PROVE IInv'
    <2> DEFINE r == conn[s].rel
               D == {t \in Slots : InUse(t) /\
                       conn[t].rel = IF t <= s THEN conn[s].rel ELSE NoRel}
    <2>1. /\ pc = "frames" /\ cursor = s /\ events' = events
          /\ pc' = "io" /\ cursor' = cursor + 1
          /\ UNCHANGED <<timers, readable, writable, calls, dial>>
          /\ contacts' = contacts \ {r} /\ wish_close_connection(D)
          /\ \A t \in Slots \ {s} : InUse(t) => conn[t].rel # r
          /\ conn[s].ps = "RUNNING" /\ conn[s].fr
      BY <1>8 DEF FriendReqDeclined, Processing, NextSlot
    <2>2. SlotInv(conn[s], contacts) /\ contacts \subseteq Rels
      BY <1>0 DEF PoolInv, TypeOK
    <2>3. s \in D /\ D \in SUBSET Slots
      <3>1. InUse(s) /\ s <= s
        BY <2>1, <2>2, PoolAssumption DEF SlotInv, InUse, PoolAssumption, Slots
      <3> QED BY <3>1
    <2>4. \A t \in D : t = s \/ conn[t].rel = NoRel
      BY <2>1
    <2> HIDE DEF D
    <2>5. \A t \in Slots \ D : SlotInv(conn[t], contacts')
      <3>1. ASSUME NEW t \in Slots \ D PROVE SlotInv(conn[t], contacts')
        <4>1. SlotInv(conn[t], contacts) /\ (InUse(t) => conn[t].rel # r)
          BY <1>0, <2>1, <2>3 DEF PoolInv
        <4> QED BY <4>1, <2>1 DEF SlotInv, InUse
      <3> QED BY <3>1
    <2>6. ASSUME NEW i \in 1..Len(events)
          PROVE  events[i] \notin D /\ conn[events[i]].rel \in contacts'
      <3>1. EventInv(conn[events[i]], contacts) /\ events[i] \in Slots
        BY <1>0 DEF PoolInv, EventsInv
      <3>2. /\ events[i] # s /\ InUse(events[i])
            /\ conn[events[i]].rel \in contacts
            /\ conn[events[i]].rel # NoRel
        BY <3>1, <2>1, <2>2, PoolAssumption DEF EventInv, InUse, PoolAssumption
      <3> QED BY <3>1, <3>2, <2>1, <2>4
    <2>7. contacts' \subseteq Rels
      BY <2>1, <2>2
    <2> QED BY <2>1, <2>3, <2>5, <2>6, <2>7, PassClosesMany
  <1>9. ASSUME NEW s \in Slots, NEW r \in Rels, RemoteManagement(s, r) PROVE IInv'
    <2>1. /\ pc = "frames" /\ cursor = s /\ events' = events /\ More
          /\ UNCHANGED <<timers, readable, writable, calls, dial>>
          /\ \A i \in 1..Len(events) : conn[events[i]].rel # r
          /\ Management(r)
      BY <1>9 DEF RemoteManagement, Processing, NextSlot, MoreOrNext
    <2>2. PICK D \in SUBSET Slots :
            /\ wish_close_connection(D) /\ contacts' \subseteq Rels
            /\ \A t \in Slots \ D : SlotInv(conn[t], contacts')
            /\ \A t \in D : conn[t].rel = r
            /\ contacts \ {r} \subseteq contacts'
      BY <1>0, <2>1, ManagedSlots
    <2>3. ASSUME NEW i \in 1..Len(events)
          PROVE  events[i] \notin D /\ conn[events[i]].rel \in contacts'
      <3>1. EventInv(conn[events[i]], contacts)
        BY <1>0 DEF PoolInv, EventsInv
      <3> QED BY <3>1, <2>1, <2>2 DEF EventInv
    <2> QED BY <2>1, <2>2, <2>3, PassClosesMany
  <1> QED BY <1>1, <1>2, <1>3, <1>4, <1>5, <1>6, <1>7, <1>8, <1>9 DEF FramePhase

-----------------------------------------------------------------------------
(* The rest of the loop. *)

\* The accept phase fills a vacant slot, which no event is queued for.
LEMMA AcceptStep == ASSUME IInv, Accept \/ AcceptNone PROVE IInv'
  <1>0. TypeOK /\ PoolInv /\ \A i \in 1..Len(events) : events[i] \in Slots
    BY DEF IInv, TypeOK
  <1>1. /\ pc = "accept" /\ pc' = "events"
        /\ UNCHANGED <<contacts, resolvers, events, timers, cursor, readable,
                       writable, calls, dial, fault>>
    BY DEF Accept, AcceptNone
  <1>2. DialInv'
    BY <1>0, <1>1 DEF PoolInv, DialInv
  <1>3. CASE AcceptNone
    <2>1. conn' = conn
      BY <1>3 DEF AcceptNone
    <2>2. TypeOK'
      BY <1>0, <1>1, <2>1 DEF TypeOK, Phases
    <2>3. ResolverOwner' /\ \A t \in Slots : SlotInv(conn'[t], contacts')
      BY <1>0, <1>1, <2>1 DEF PoolInv, ResolverOwner
    <2>4. EventsInv'
      BY <1>0, <1>1, <2>1 DEF PoolInv, EventsInv
    <2> QED BY <1>2, <2>2, <2>3, <2>4 DEF IInv, PoolInv
  <1>4. CASE Accept
    <2> DEFINE b == wish_connection_init(NoRel, FALSE, FALSE)
    <2>1. PICK s \in Slots, f \in FreeFds :
            /\ Vacant(s)
            /\ conn' = [conn EXCEPT ![s] = [b EXCEPT
                 !.ts = "SERVER_WAIT_INITIAL", !.fd = f, !.net = "up"]]
      BY <1>4 DEF Accept
    <2>2. /\ b \in wish_context
          /\ b.st = "IN_MAKING" /\ b.ps = "INITIAL" /\ b.rel = NoRel
      BY FreshRecord
    <2> HIDE DEF b
    <2> DEFINE c == [b EXCEPT !.ts = "SERVER_WAIT_INITIAL", !.fd = f, !.net = "up"]
    <2>3. f \in Fds \cup {0} /\ f # 0
      BY DEF FreeFds, Fds
    <2>4. c \in wish_context /\ SlotInv(c, contacts)
      BY <2>2, <2>3 DEF wish_context, SlotInv, TransportStates
    <2>5. conn' = [conn EXCEPT ![s] = c]
      BY <2>1
    <2> HIDE DEF c
    <2>6. /\ conn' \in [Slots -> wish_context]
          /\ \A t \in Slots : SlotInv(conn'[t], contacts')
          /\ \A t \in Slots : t # s => conn'[t] = conn[t]
      BY <1>0, <1>1, <2>4, <2>5, OneSlot DEF PoolInv
    <2>7. conn[s].st = "FREE"
      BY <2>1 DEF Vacant, FreeSlots, InUse
    <2>8. ResolverOwner'
      BY <1>0, <1>1, <2>6, <2>7 DEF PoolInv, TypeOK, ResolverOwner
    <2>9. \A i \in 1..Len(events) : /\ EventInv(conn[events[i]], contacts)
                                     /\ events[i] # s
      BY <1>0, <2>7 DEF PoolInv, EventsInv, EventInv
    <2>10. EventsInv'
      BY <1>0, <1>1, <2>6, <2>9 DEF EventsInv
    <2>11. TypeOK'
      BY <1>0, <1>1, <2>6 DEF TypeOK, Phases
    <2> QED BY <1>2, <2>6, <2>8, <2>10, <2>11 DEF IInv, PoolInv
  <1> QED BY <1>3, <1>4

\* The events phase: the slot of an event has earned its promotion.
LEMMA EventStep ==
    ASSUME IInv, wish_message_processor_task \/ EventsDone PROVE IInv'
  <1>0. TypeOK /\ PoolInv
    BY DEF IInv
  <1>1. CASE wish_message_processor_task
    <2> DEFINE s == Head(events)
               c == [conn[s] EXCEPT !.st = "CONNECTED"]
    <2>1. /\ pc = "events" /\ events # <<>> /\ events' = Tail(events)
          /\ UNCHANGED <<contacts, resolvers, pc, cursor, readable, writable,
                         calls, dial, fault>>
      BY <1>1 DEF wish_message_processor_task
    <2>2. /\ events \in Seq(Slots) /\ Len(events) \in Nat /\ Len(events) > 0
          /\ s \in Slots /\ s = events[1]
      BY <1>0, <2>1 DEF TypeOK
    <2>3. /\ events' \in Seq(Slots) /\ Len(events') = Len(events) - 1
          /\ \A i \in 1..Len(events') : events'[i] = events[i + 1]
                                         /\ i + 1 \in 1..Len(events)
      BY <2>1, <2>2
    <2>4. \A i \in 1..Len(events) :
            EventInv(conn[events[i]], contacts) /\ events[i] \in Slots
      BY <1>0, <2>2 DEF PoolInv, EventsInv
    <2>5. /\ conn[s] \in wish_context /\ SlotInv(conn[s], contacts)
          /\ EventInv(conn[s], contacts)
      BY <1>0, <2>2, <2>4 DEF TypeOK, PoolInv
    <2>6. conn' = [conn EXCEPT ![s] = c]
      BY <1>1 DEF wish_message_processor_task
    <2>7. timers' \in Seq(Slots)
      BY <1>1, <1>0, <2>2 DEF wish_message_processor_task, TypeOK
    <2> HIDE DEF s
    <2>8. c \in wish_context /\ SlotInv(c, contacts) /\ EventInv(c, contacts)
      BY <2>5 DEF wish_context, ContextStates, SlotInv, EventInv
    <2> HIDE DEF c
    <2>9. /\ conn' \in [Slots -> wish_context]
          /\ \A t \in Slots : SlotInv(conn'[t], contacts')
          /\ conn'[s] = c
          /\ \A t \in Slots : t # s => conn'[t] = conn[t]
      BY <1>0, <2>1, <2>2, <2>6, <2>8, OneSlot DEF PoolInv
    <2>10. ResolverOwner'
      <3>1. s \notin resolvers
        BY <1>0, <2>5 DEF PoolInv, ResolverOwner, SlotInv, EventInv
      <3> QED BY <3>1, <1>0, <2>1, <2>9 DEF PoolInv, TypeOK, ResolverOwner
    <2>11. \A i \in 1..Len(events') : EventInv(conn'[events'[i]], contacts')
      BY <2>1, <2>3, <2>4, <2>8, <2>9
    <2>12. EventsInv'
      BY <2>1, <2>11 DEF EventsInv
    <2>13. TypeOK'
      BY <1>0, <2>1, <2>3, <2>7, <2>9 DEF TypeOK
    <2>14. DialInv'
      BY <1>0, <2>1 DEF PoolInv, DialInv
    <2> QED BY <2>9, <2>10, <2>12, <2>13, <2>14 DEF IInv, PoolInv
  <1>2. CASE EventsDone
    <2>1. /\ pc = "events" /\ pc' = "periodic" /\ events' = <<>>
          /\ readable' = {} /\ writable' = {}
          /\ UNCHANGED <<conn, contacts, resolvers, events, timers, cursor,
                         calls, dial, fault>>
      BY <1>2 DEF EventsDone
    <2>2. TypeOK'
      BY <1>0, <2>1 DEF TypeOK, Phases
    <2>3. ResolverOwner' /\ \A t \in Slots : SlotInv(conn'[t], contacts')
      BY <1>0, <2>1 DEF PoolInv, ResolverOwner
    <2>4. DialInv'
      BY <1>0, <2>1 DEF PoolInv, DialInv
    <2> QED BY <2>1, <2>2, <2>3, <2>4, NoEvents DEF IInv, PoolInv
  <1> QED BY <1>1, <1>2

\* The periodic phase.
LEMMA PeriodicStep == ASSUME IInv, PeriodicPhase PROVE IInv'
  <1>0. TypeOK /\ PoolInv
    BY DEF IInv
  <1>1. events = <<>> /\ events' = events /\ contacts' = contacts
        /\ UNCHANGED <<cursor, readable, writable, calls>>
    BY <1>0 DEF PeriodicPhase, NoTick, wish_connections_check,
                wish_connections_connect_transport, DialDone,
                check_connection_liveliness, wish_close_parallel_connections,
                TimersDone, PoolInv, EventsInv
  <1>2. EventsInv'
    BY <1>1, NoEvents
  <1>3. CASE NoTick \/ DialDone \/ TimersDone
    <2>1. /\ UNCHANGED <<conn, resolvers, timers, dial, fault>>
          /\ pc' \in {"dns", "live", "pre"}
          /\ pc \notin {"dial", "recheck"} \/ dial = NoDial
      BY <1>3 DEF NoTick, DialDone, TimersDone
    <2>2. TypeOK'
      BY <1>0, <1>1, <2>1 DEF TypeOK, Phases
    <2>3. ResolverOwner' /\ \A t \in Slots : SlotInv(conn'[t], contacts')
      BY <1>0, <1>1, <2>1 DEF PoolInv, ResolverOwner
    <2>4. DialInv'
      BY <1>0, <2>1 DEF PoolInv, DialInv, NoDial
    <2> QED BY <1>2, <2>2, <2>3, <2>4 DEF IInv, PoolInv
  <1>4. CASE wish_connections_check
    <2>1. /\ UNCHANGED <<conn, resolvers, timers, fault>>
          /\ pc' = "dial" /\ dial' \in Dialling
      BY <1>4 DEF wish_connections_check
    <2>2. TypeOK'
      BY <1>0, <1>1, <2>1 DEF TypeOK, Phases, Dialling
    <2>3. ResolverOwner' /\ \A t \in Slots : SlotInv(conn'[t], contacts')
      BY <1>0, <1>1, <2>1 DEF PoolInv, ResolverOwner
    <2>4. DialInv'
      BY <1>1, <2>1 DEF DialInv, Dialling
    <2> QED BY <1>2, <2>2, <2>3, <2>4 DEF IInv, PoolInv
  <1>5. ASSUME NEW r \in Rels, wish_connections_connect_transport(r) PROVE IInv'
    <2> DEFINE c == wish_connection_init(r, FALSE, FALSE)
    <2>1. /\ dial[r] > 0 /\ dial' = [dial EXCEPT ![r] = @ - 1]
          /\ UNCHANGED <<pc, timers>>
      BY <1>5 DEF wish_connections_connect_transport
    <2>2. r \in contacts
      BY <1>0, <2>1 DEF PoolInv, DialInv
    <2>3. dial' \in [Rels -> 0..MaxTransports] /\ DialInv'
      <3>1. dial \in [Rels -> 0..MaxTransports]
        BY <1>0 DEF TypeOK
      <3>2. dial' \in [Rels -> 0..MaxTransports]
        BY <2>1, <3>1, PoolAssumption DEF PoolAssumption
      <3>3. \A q \in Rels : dial'[q] > 0 => dial[q] > 0
        BY <2>1, <3>1, PoolAssumption DEF PoolAssumption
      <3> QED BY <3>2, <3>3, <1>0, <1>1, <2>1 DEF PoolInv, DialInv
    <2>4. /\ conn' \in [Slots -> wish_context]
          /\ \A t \in Slots : SlotInv(conn'[t], contacts')
          /\ resolvers' \subseteq Slots /\ ResolverOwner' /\ fault' = fault
      <3>1. CASE UNCHANGED <<conn, resolvers, fault>>
        BY <3>1, <1>0, <1>1 DEF PoolInv, TypeOK, ResolverOwner
      <3>2. ASSUME NEW s \in Slots, Vacant(s),
                   OpenByAddress(s, c) \/ wish_open_connection_dns(s, c)
                     \/ NotOpened(s)
            PROVE  <2>4!:
        <4>1. /\ c \in wish_context
              /\ c.st = "IN_MAKING" /\ c.ts = "INITIAL" /\ c.ps = "INITIAL"
              /\ c.rel = r /\ c.fd = 0
          BY FreshRecord
        <4> HIDE DEF c
        <4>2. (c.rel = NoRel => c.via)
              /\ (~c.fr /\ c.rel # NoRel => c.rel \in contacts')
          BY <4>1, <2>2, <1>0, <1>1, PoolAssumption DEF PoolAssumption, TypeOK
        <4>3. contacts \subseteq contacts'
          BY <1>1
        <4> QED BY <1>0, <3>2, <4>1, <4>2, <4>3, OpenedSlot
      <3> QED BY <1>5, <3>1, <3>2 DEF wish_connections_connect_transport
    <2>5. TypeOK'
      BY <1>0, <1>1, <2>1, <2>3, <2>4 DEF TypeOK
    <2> QED BY <1>2, <2>3, <2>4, <2>5 DEF IInv, PoolInv
  <1>6. ASSUME NEW D \in SUBSET Slots, wish_close_connection(D), dial' = dial,
               pc \in {"live", "timers"}, pc' = "timers", timers' \in Seq(Slots)
        PROVE  IInv'
    <2>1. contacts' \subseteq Rels /\ \A t \in Slots \ D : SlotInv(conn[t], contacts')
      BY <1>0, <1>1 DEF TypeOK, PoolInv
    <2>2. /\ conn' \in [Slots -> wish_context]
          /\ \A t \in Slots : SlotInv(conn'[t], contacts')
          /\ resolvers' \subseteq Slots /\ ResolverOwner'
          /\ fault' \subseteq FaultKinds
      BY <1>0, <1>6, <2>1, ClosedSlots
    <2>3. TypeOK'
      BY <1>0, <1>1, <1>6, <2>1, <2>2 DEF TypeOK, Phases
    <2>4. DialInv'
      BY <1>0, <1>6 DEF PoolInv, DialInv
    <2> QED BY <1>2, <2>2, <2>3, <2>4 DEF IInv, PoolInv
  <1>7. ASSUME NEW D \in SUBSET Slots, check_connection_liveliness(D) PROVE IInv'
    BY <1>0, <1>6, <1>7 DEF check_connection_liveliness, TypeOK
  <1>8. CASE wish_close_parallel_connections
    <2> DEFINE s == Head(timers)
               D == IF conn[s].st = "CONNECTED" THEN ParallelTo(s) ELSE {}
    <2>1. /\ pc = "timers" /\ pc' = "timers" /\ dial' = dial
          /\ wish_close_connection(D)
      BY <1>8 DEF wish_close_parallel_connections
    <2>2. timers' \in Seq(Slots)
      BY <1>0, <1>8 DEF wish_close_parallel_connections, TypeOK
    <2>3. D \in SUBSET Slots
      BY DEF ParallelTo
    <2> HIDE DEF D
    <2> QED BY <1>6, <2>1, <2>2, <2>3
  <1> QED BY <1>3, <1>4, <1>5, <1>7, <1>8 DEF PeriodicPhase

-----------------------------------------------------------------------------
(* Theorems. *)

\* The pool as wish_connections_init leaves it satisfies the invariant.
LEMMA InitInv == wish_connections_init => IInv
  <1> SUFFICES ASSUME wish_connections_init PROVE IInv
    OBVIOUS
  <1> DEFINE c == [FreeSlot EXCEPT !.ts = "INITIAL"]
  <1>1. c \in wish_context /\ \A known : SlotInv(c, known)
    BY DEF FreeSlot, wish_context, SlotInv, ContextStates, TransportStates,
           ProtocolStates, Fds
  <1>2. conn = [s \in Slots |-> c]
    BY DEF wish_connections_init
  <1> HIDE DEF c
  <1>3. TypeOK
    <2>1. conn \in [Slots -> wish_context]
      BY <1>1, <1>2
    <2>2. dial \in [Rels -> 0..MaxTransports]
      BY PoolAssumption DEF PoolAssumption, wish_connections_init, NoDial
    <2>3. cursor \in 1..(PoolSize + 1) /\ calls \in 0..MaxCalls
      BY PoolAssumption DEF PoolAssumption, wish_connections_init
    <2> QED BY <2>1, <2>2, <2>3 DEF wish_connections_init, TypeOK, Phases
  <1>4. \A s \in Slots : SlotInv(conn[s], contacts)
    BY <1>1, <1>2
  <1>5. ResolverOwner /\ EventsInv
    BY DEF wish_connections_init, ResolverOwner, EventsInv
  <1>6. DialInv
    BY DEF wish_connections_init, DialInv, NoDial
  <1> QED BY <1>3, <1>4, <1>5, <1>6 DEF IInv, PoolInv

\* As long as no frame comes at an unfortunate moment (one that is rejected
\* in the read that ended its handshake, a decline or a request of an owner
\* that concerns a contact with another connection or a queued event), the
\* main loop keeps the pool well typed and consistent.
THEOREM PoolSafety == EarlyCloses = {} => (Spec => [](TypeOK /\ PoolInv))
  <1> SUFFICES ASSUME EarlyCloses = {} PROVE Spec => [](TypeOK /\ PoolInv)
    OBVIOUS
  <1>1. IInv /\ [Next]_vars => IInv'
    <2> SUFFICES ASSUME IInv, [Next]_vars PROVE IInv'
      OBVIOUS
    <2>1. CASE Next
      BY <2>1, DnsStep, SelectStep, PreStep, IoStep, FrameStep, AcceptStep,
         EventStep, PeriodicStep DEF Next
    <2>2. CASE UNCHANGED vars
      BY <2>2 DEF vars, IInv, TypeOK, PoolInv, ResolverOwner, EventsInv, DialInv
    <2> QED BY <2>1, <2>2
  <1>2. IInv => TypeOK /\ PoolInv
    BY DEF IInv
  <1> QED BY InitInv, <1>1, <1>2, PTL DEF Spec

\* Under the same condition a CONNECTED connection has always finished its
\* handshake, has identities and has a socket.
THEOREM ConnectedSafety == EarlyCloses = {} => (Spec => []ConnectedIsHandshaken)
  <1>1. TypeOK /\ PoolInv => ConnectedIsHandshaken
    BY DEF TypeOK, PoolInv, SlotInv, ConnectedIsHandshaken, wish_context
  <1> QED BY <1>1, PoolSafety, PTL

\* Every connection that is not a friend request is with a contact.
THEOREM ContactSafety == EarlyCloses = {} => (Spec => []OnlyContacts)
  <1>1. TypeOK /\ PoolInv => OnlyContacts
    BY PoolAssumption DEF PoolAssumption, TypeOK, PoolInv, SlotInv, OnlyContacts,
                          InUse
  <1> QED BY <1>1, PoolSafety, PTL
-----------------------------------------------------------------------------
(* What holds whatever frames come and whenever. *)

\* The protocol runs only on a slot that reads frames.
Framed(c) == c.ps # "INITIAL" => c.ts = "WAIT_FRAME_LEN"

\* The slots, the resolvers and the queue.  A slot in the queue is never
\* one that is being resolved, whatever became of its connection.
SlotsOK ==
    /\ conn \in [Slots -> wish_context]
    /\ resolvers \subseteq Slots
    /\ fault \subseteq FaultKinds
    /\ events \in Seq(Slots)
    /\ \A s \in Slots : Framed(conn[s])
    /\ ResolverOwner
    /\ \A i \in 1..Len(events) : conn[events[i]].ts # "RESOLVING"

\* The rest of the state, and when the queue is empty.
LoopOK ==
    /\ contacts \subseteq Rels
    /\ timers \in Seq(Slots)
    /\ pc \in Phases
    /\ cursor \in 1..(PoolSize + 1)
    /\ readable \subseteq Fds
    /\ writable \subseteq Fds
    /\ calls \in 0..MaxCalls
    /\ dial \in [Rels -> 0..MaxTransports]
    /\ pc \notin {"io", "frames", "accept", "events", "halt"} => events = <<>>

BasicInv == SlotsOK /\ LoopOK

\* A step that changes neither slots, resolvers, queue nor faults.
LEMMA SlotsSame ==
    ASSUME SlotsOK, UNCHANGED <<conn, resolvers, events, fault>>
    PROVE  SlotsOK'
  BY DEF SlotsOK, ResolverOwner

\* A fault committed, or a resolver dropped, with the slots as they were.
LEMMA SlotsKept ==
    ASSUME SlotsOK, UNCHANGED <<conn, events>>, resolvers' \subseteq resolvers,
           fault' \subseteq FaultKinds
    PROVE  SlotsOK'
  BY DEF SlotsOK, ResolverOwner

\* One slot replaced by a record that is not being resolved; the queue may
\* gain that slot or lose its head.
LEMMA SlotSet ==
    ASSUME SlotsOK, NEW s \in Slots, NEW d \in wish_context,
           conn' = [conn EXCEPT ![s] = d],
           Framed(d), d.ts # "RESOLVING",
           resolvers' \subseteq resolvers, s \notin resolvers',
           fault' \subseteq FaultKinds,
           events' \in Seq(Slots),
           \A i \in 1..Len(events') :
               events'[i] = s \/ conn[events'[i]].ts # "RESOLVING"
    PROVE  SlotsOK'
  <1>1. conn \in [Slots -> wish_context]
    BY DEF SlotsOK
  <1>2. /\ conn' \in [Slots -> wish_context]
        /\ conn'[s] = d
        /\ \A t \in Slots : t # s => conn'[t] = conn[t]
    BY <1>1
  <1>3. \A t \in Slots : Framed(conn'[t])
    <2>1. \A t \in Slots : Framed(conn[t])
      BY DEF SlotsOK
    <2> QED BY <1>2, <2>1
  <1>4. ResolverOwner'
    <2>1. ASSUME NEW t \in resolvers'
          PROVE  /\ conn'[t].st = "IN_MAKING"
                 /\ conn'[t].ts = "RESOLVING" /\ conn'[t].fd = 0
      <3>1. t \in resolvers /\ t \in Slots /\ t # s
        BY <2>1 DEF SlotsOK
      <3> QED BY <3>1, <1>2 DEF SlotsOK, ResolverOwner
    <2> QED BY <2>1 DEF ResolverOwner
  <1>5. ASSUME NEW i \in 1..Len(events') PROVE conn'[events'[i]].ts # "RESOLVING"
    <2>1. events'[i] \in Slots
      OBVIOUS
    <2> QED BY <2>1, <1>2
  <1>6. resolvers' \subseteq Slots
    BY DEF SlotsOK
  <1> QED BY <1>2, <1>3, <1>4, <1>5, <1>6 DEF SlotsOK

\* The same with the queue as it was.
LEMMA SlotReplaced ==
    ASSUME SlotsOK, NEW s \in Slots, NEW d \in wish_context,
           conn' = [conn EXCEPT ![s] = d],
           Framed(d), d.ts # "RESOLVING",
           resolvers' \subseteq resolvers, s \notin resolvers',
           fault' \subseteq FaultKinds, events' = events
    PROVE  SlotsOK'
  <1>1. /\ events' \in Seq(Slots)
        /\ \A i \in 1..Len(events') :
               events'[i] = s \/ conn[events'[i]].ts # "RESOLVING"
    BY DEF SlotsOK
  <1> QED BY <1>1, SlotSet

\* Any good record will do while the queue is empty, and no resolver points
\* to its slot.
LEMMA SlotResolved ==
    ASSUME SlotsOK, NEW s \in Slots, NEW d \in wish_context,
           conn' = [conn EXCEPT ![s] = d], Framed(d),
           resolvers' \subseteq resolvers, s \notin resolvers',
           fault' \subseteq FaultKinds, events = <<>>, events' = events
    PROVE  SlotsOK'
  <1>1. /\ conn' \in [Slots -> wish_context]
        /\ conn'[s] = d
        /\ \A t \in Slots : t # s => conn'[t] = conn[t]
    BY DEF SlotsOK
  <1>2. \A t \in Slots : Framed(conn'[t])
    BY <1>1 DEF SlotsOK
  <1>3. ASSUME NEW t \in resolvers'
        PROVE  /\ conn'[t].st = "IN_MAKING"
               /\ conn'[t].ts = "RESOLVING" /\ conn'[t].fd = 0
    BY <1>1 DEF SlotsOK, ResolverOwner
  <1>4. ResolverOwner'
    BY <1>3 DEF ResolverOwner
  <1>5. resolvers' \subseteq Slots /\ events' \in Seq(Slots) /\ Len(events') = 0
    BY DEF SlotsOK
  <1> QED BY <1>1, <1>2, <1>4, <1>5 DEF SlotsOK

\* A slot that is not being resolved has no resolver.
LEMMA NoResolver ==
    ASSUME SlotsOK, NEW s \in Slots,
           conn[s].ts # "RESOLVING" \/ conn[s].st # "IN_MAKING"
    PROVE  s \notin resolvers
  BY DEF SlotsOK, ResolverOwner

\* A freed slot reads the next frame of nobody.
LEMMA FreeFramed == FreeSlot \in wish_context /\ Framed(FreeSlot)
                    /\ FreeSlot.ts # "RESOLVING"
  BY FreeSlotInv DEF FreeSlot, Framed

\* The faults of a TCP_DISCONNECTED are fault kinds.
LEMMA DisconnectFaults ==
    ASSUME NEW c, fault \subseteq FaultKinds
    PROVE  fault \cup TcpDisconnectedFaults(c) \subseteq FaultKinds
  BY DEF TcpDisconnectedFaults, FaultKinds

\* A slot freed by TCP_DISCONNECTED; resolvers' does not hold it.
LEMMA SlotGone ==
    ASSUME SlotsOK, NEW s \in Slots, NEW c,
           conn' = [conn EXCEPT ![s] = FreeSlot],
           fault' = fault \cup TcpDisconnectedFaults(c),
           resolvers' \subseteq resolvers, s \notin resolvers', events' = events
    PROVE  SlotsOK'
  <1>1. fault' \subseteq FaultKinds
    BY DisconnectFaults DEF SlotsOK
  <1> QED BY <1>1, FreeFramed, SlotReplaced

\* wish_close_connection on any set of slots.
LEMMA SlotsClosed ==
    ASSUME SlotsOK, NEW D \in SUBSET Slots, wish_close_connection(D),
           events' = events
    PROVE  SlotsOK'
  <1>1. /\ conn \in [Slots -> wish_context] /\ resolvers \subseteq Slots
        /\ fault \subseteq FaultKinds
    BY DEF SlotsOK
  <1>2. conn' = [t \in Slots |-> IF t \in D THEN FreeSlot ELSE conn[t]]
    BY DEF wish_close_connection
  <1>3. conn' \in [Slots -> wish_context]
    BY <1>1, <1>2, FreeSlotInv
  <1>4. /\ \A t \in Slots \ D : conn'[t] = conn[t]
        /\ \A t \in D : conn'[t] = FreeSlot
    BY <1>2
  <1>5. \A t \in Slots : Framed(conn'[t])
    BY <1>4, FreeFramed DEF SlotsOK
  <1>6. resolvers' = resolvers \ CancelledBy(D)
    BY DEF wish_close_connection
  <1>7. ResolverOwner'
    <2>1. ASSUME NEW t \in resolvers'
          PROVE  /\ conn'[t].st = "IN_MAKING"
                 /\ conn'[t].ts = "RESOLVING" /\ conn'[t].fd = 0
      <3>1. t \in resolvers /\ t \notin CancelledBy(D) /\ t \in Slots
        BY <1>6, <1>1
      <3>2. conn[t].st = "IN_MAKING" /\ conn[t].ts = "RESOLVING" /\ conn[t].fd = 0
        BY <3>1 DEF SlotsOK, ResolverOwner
      <3>3. t \notin D
        BY <3>1, <3>2 DEF CancelledBy
      <3> QED BY <3>1, <3>2, <3>3, <1>4
    <2> QED BY <2>1 DEF ResolverOwner
  <1>8. fault' \subseteq FaultKinds
    <2>1. \A c \in wish_context : CloseFaults(c) \subseteq FaultKinds
      BY DEF CloseFaults, TcpDisconnectedFaults, FaultKinds
    <2>2. \A t \in D : CloseFaults(conn[t]) \subseteq FaultKinds
      BY <2>1, <1>1
    <2>3. UNION {CloseFaults(conn[t]) : t \in D} \subseteq FaultKinds
      BY <2>2
    <2> QED BY <2>3, <1>1 DEF wish_close_connection
  <1>9. ASSUME NEW i \in 1..Len(events) PROVE conn'[events[i]].ts # "RESOLVING"
    <2>1. events[i] \in Slots /\ conn[events[i]].ts # "RESOLVING"
      BY DEF SlotsOK
    <2> QED BY <2>1, <1>4, FreeFramed
  <1> QED BY <1>1, <1>3, <1>5, <1>6, <1>7, <1>8, <1>9 DEF SlotsOK

\* wish_open_connection on a record whose handshake has not begun.
LEMMA OpenedFramed ==
    ASSUME NEW c \in wish_context, NEW f \in Fds, NEW result \in ConnectResults,
           c.ts \in {"INITIAL", "RESOLVING"}, c.ps = "INITIAL"
    PROVE  LET d == wish_open_connection(c, f, result) IN
           d \in wish_context /\ Framed(d) /\ (d.ts = "RESOLVING" => c.ts = "RESOLVING")
  <1> result \in {"inprogress", "error", "ok"}
    BY PoolAssumption DEF PoolAssumption
  <1> f \in Fds \cup {0}
    OBVIOUS
  <1>1. CASE result = "inprogress"
    BY <1>1 DEF wish_open_connection, wish_context, Framed, TransportStates
  <1>2. CASE result = "error"
    BY <1>2 DEF wish_open_connection, wish_context, Framed
  <1>3. CASE result = "ok"
    BY <1>3 DEF wish_open_connection, TcpConnected, wish_context, Framed,
                TransportStates, ProtocolStates
  <1> QED BY <1>1, <1>2, <1>3

\* A vacant slot filled by any of the ways of opening a connection, when
\* the queue is empty.
LEMMA SlotOpened ==
    ASSUME SlotsOK, NEW s \in Slots, Vacant(s), NEW c \in wish_context,
           c.st = "IN_MAKING", c.ts = "INITIAL", c.ps = "INITIAL", c.fd = 0,
           OpenByAddress(s, c) \/ wish_open_connection_dns(s, c) \/ NotOpened(s),
           events = <<>>, events' = events
    PROVE  SlotsOK'
  <1>1. s \notin resolvers
    BY NoResolver DEF Vacant, FreeSlots, InUse
  <1>2. CASE OpenByAddress(s, c)
    <2>1. PICK f \in FreeFds, result \in ConnectResults :
            conn' = [conn EXCEPT ![s] = wish_open_connection(c, f, result)]
      BY <1>2 DEF OpenByAddress
    <2> DEFINE d == wish_open_connection(c, f, result)
    <2>2. d \in wish_context /\ Framed(d) /\ d.ts # "RESOLVING"
      <3>1. f \in Fds /\ c.ts \in {"INITIAL", "RESOLVING"} /\ c.ts # "RESOLVING"
        BY DEF FreeFds
      <3> QED BY <3>1, OpenedFramed
    <2>3. conn' = [conn EXCEPT ![s] = d]
      BY <2>1
    <2>4. resolvers' = resolvers /\ fault' = fault /\ fault \subseteq FaultKinds
      BY <1>2 DEF OpenByAddress, SlotsOK
    <2> HIDE DEF d
    <2> QED BY <1>1, <2>2, <2>3, <2>4, SlotReplaced
  <1>3. CASE conn' = [conn EXCEPT ![s] = FreeSlot] /\ UNCHANGED <<resolvers, fault>>
    <2>1. fault' \subseteq FaultKinds
      BY <1>3 DEF SlotsOK
    <2> QED BY <1>1, <1>3, <2>1, FreeFramed, SlotReplaced
  <1>4. CASE /\ conn' = [conn EXCEPT ![s] = [c EXCEPT !.ts = "RESOLVING"]]
             /\ resolvers' = resolvers \cup {s}
             /\ fault' = fault
    <2> DEFINE d == [c EXCEPT !.ts = "RESOLVING"]
    <2>1. /\ d \in wish_context /\ d.st = "IN_MAKING" /\ d.ts = "RESOLVING"
          /\ d.fd = 0 /\ Framed(d)
      BY DEF wish_context, TransportStates, Framed
    <2>2. conn' = [conn EXCEPT ![s] = d]
      BY <1>4
    <2> HIDE DEF d
    <2>3. /\ conn' \in [Slots -> wish_context]
          /\ conn'[s] = d
          /\ \A t \in Slots : t # s => conn'[t] = conn[t]
      BY <2>1, <2>2 DEF SlotsOK
    <2>4. \A t \in Slots : Framed(conn'[t])
      BY <2>1, <2>3 DEF SlotsOK
    <2>5. resolvers' \subseteq Slots
      BY <1>4 DEF SlotsOK
    <2>6. ResolverOwner'
      <3>1. ASSUME NEW t \in resolvers'
            PROVE  /\ conn'[t].st = "IN_MAKING"
                   /\ conn'[t].ts = "RESOLVING" /\ conn'[t].fd = 0
        BY <1>4, <2>1, <2>3 DEF SlotsOK, ResolverOwner
      <3> QED BY <3>1 DEF ResolverOwner
    <2>7. events' \in Seq(Slots) /\ Len(events') = 0 /\ fault' \subseteq FaultKinds
      BY <1>4 DEF SlotsOK
    <2> QED BY <2>3, <2>4, <2>5, <2>6, <2>7 DEF SlotsOK
  <1> QED BY <1>2, <1>3, <1>4 DEF wish_open_connection_dns, NotOpened

-----------------------------------------------------------------------------
(* The phases of the main loop. *)

\* The dns phase.
LEMMA BasicDns == ASSUME BasicInv, DnsPhase PROVE BasicInv'
  <1> USE DEF BasicInv
  <1>1. LoopOK' /\ events' = events
    <2>1. /\ pc = "dns" /\ pc' \in {"dns", "select", "halt"} /\ events = <<>>
          /\ UNCHANGED <<contacts, events, timers, cursor, readable, writable,
                         calls, dial>>
      BY DEF DnsPhase, DnsResolved, DnsNoAddress, port_dns_resolver_signal_error,
             DnsDone, LoopOK
    <2> QED BY <2>1 DEF LoopOK, Phases
  <1>2. ASSUME NEW s \in Slots, DnsResolved(s) PROVE SlotsOK'
    <2>1. conn[s] \in wish_context /\ conn[s].ts = "RESOLVING"
      BY <1>2 DEF DnsResolved, SlotsOK, ResolverOwner
    <2>2. conn[s].ps = "INITIAL"
      BY <2>1 DEF SlotsOK, Framed
    <2>3. PICK f \in FreeFds, result \in ConnectResults :
            conn' = [conn EXCEPT ![s] = wish_open_connection(conn[s], f, result)]
      BY <1>2 DEF DnsResolved
    <2> DEFINE d == wish_open_connection(conn[s], f, result)
    <2>4. d \in wish_context /\ Framed(d)
      <3>1. f \in Fds /\ conn[s].ts \in {"INITIAL", "RESOLVING"}
        BY <2>1 DEF FreeFds
      <3> QED BY <3>1, <2>1, <2>2, OpenedFramed
    <2>5. conn' = [conn EXCEPT ![s] = d]
      BY <2>3
    <2>6. /\ resolvers' \subseteq resolvers /\ s \notin resolvers'
          /\ fault' \subseteq FaultKinds
      BY <1>2 DEF DnsResolved, SlotsOK
    <2> HIDE DEF d
    <2>7. events = <<>> /\ events' = events
      BY <1>1, <1>2 DEF DnsResolved, LoopOK
    <2> QED BY <2>4, <2>5, <2>6, <2>7, SlotResolved
  <1>3. ASSUME NEW s \in Slots, DnsNoAddress(s) PROVE SlotsOK'
    <2>1. /\ UNCHANGED <<conn, events>> /\ resolvers' \subseteq resolvers
          /\ fault' \subseteq FaultKinds
      BY <1>3 DEF DnsNoAddress, SlotsOK
    <2> QED BY <2>1, SlotsKept
  <1>4. ASSUME NEW s \in Slots, port_dns_resolver_signal_error(s) PROVE SlotsOK'
    <2>1. conn[s].st = "IN_MAKING"
      BY <1>4 DEF port_dns_resolver_signal_error, SlotsOK, ResolverOwner
    <2>2. /\ conn' = [conn EXCEPT ![s] = FreeSlot]
          /\ fault' = fault \cup TcpDisconnectedFaults(conn[s])
          /\ resolvers' = resolvers \ {s}
      BY <1>4, <2>1 DEF port_dns_resolver_signal_error, TcpDisconnected
    <2> QED BY <1>1, <2>2, SlotGone
  <1>5. CASE DnsDone
    BY <1>1, <1>5, SlotsSame DEF DnsDone
  <1> QED BY <1>1, <1>2, <1>3, <1>4, <1>5 DEF DnsPhase

\* The select phase: whether or not some send_arg is NULL.
LEMMA BasicSelect == ASSUME BasicInv, SelectNull \/ Select PROVE BasicInv'
  <1> USE DEF BasicInv
  <1>0. conn \in [Slots -> wish_context]
    BY DEF SlotsOK
  <1>1. CASE SelectNull
    <2>1. /\ UNCHANGED <<conn, events>> /\ resolvers' \subseteq resolvers
          /\ fault' \subseteq FaultKinds
      BY <1>1 DEF SelectNull, SlotsOK, FaultKinds
    <2>2. LoopOK'
      BY <1>1 DEF SelectNull, LoopOK, Phases
    <2> QED BY <2>1, <2>2, SlotsKept
  <1>2. CASE Select
    <2>1. PICK ok \in SUBSET Connecting : \E failed \in SUBSET (Connecting \ ok) :
            conn' = [s \in Slots |->
                       IF s \in ok THEN [conn[s] EXCEPT !.net = "up"]
                       ELSE IF s \in failed
                              THEN [conn[s] EXCEPT !.net = "failed"]
                       ELSE conn[s]]
            /\ writable' = {conn[s].fd : s \in ok \cup failed}
      BY <1>2 DEF Select
    <2>2. PICK failed \in SUBSET (Connecting \ ok) :
            conn' = [s \in Slots |->
                       IF s \in ok THEN [conn[s] EXCEPT !.net = "up"]
                       ELSE IF s \in failed
                              THEN [conn[s] EXCEPT !.net = "failed"]
                       ELSE conn[s]]
            /\ writable' = {conn[s].fd : s \in ok \cup failed}
      BY <2>1
    <2>3. /\ events = <<>> /\ pc' = "pre" /\ calls' = 0
          /\ UNCHANGED <<contacts, resolvers, events, timers, cursor, dial, fault>>
      BY <1>2 DEF Select, LoopOK
    <2>4. ASSUME NEW s \in Slots
          PROVE  /\ conn'[s] \in wish_context
                 /\ conn'[s].st = conn[s].st /\ conn'[s].ts = conn[s].ts
                 /\ conn'[s].fd = conn[s].fd /\ conn'[s].ps = conn[s].ps
      <3> DEFINE c == conn[s]
      <3>1. c \in wish_context
        BY <1>0
      <3>2. conn'[s] \in {c, [c EXCEPT !.net = "up"], [c EXCEPT !.net = "failed"]}
        BY <2>2
      <3>3. ASSUME NEW d \in {c, [c EXCEPT !.net = "up"], [c EXCEPT !.net = "failed"]}
            PROVE  /\ d \in wish_context
                   /\ d.st = c.st /\ d.ts = c.ts /\ d.fd = c.fd /\ d.ps = c.ps
        <4> HIDE DEF c
        <4>1. CASE d = c
          BY <3>1, <4>1
        <4>2. CASE d = [c EXCEPT !.net = "up"]
          BY <3>1, <4>2 DEF wish_context
        <4>3. CASE d = [c EXCEPT !.net = "failed"]
          BY <3>1, <4>3 DEF wish_context
        <4> QED BY <3>3, <4>1, <4>2, <4>3
      <3> QED BY <3>2, <3>3
    <2>5. conn' \in [Slots -> wish_context]
      BY <2>2, <2>4
    <2>6. \A s \in Slots : Framed(conn'[s])
      BY <2>4 DEF SlotsOK, Framed
    <2>7. ResolverOwner'
      BY <2>3, <2>4 DEF SlotsOK, ResolverOwner
    <2>8. SlotsOK'
      BY <2>3, <2>5, <2>6, <2>7 DEF SlotsOK
    <2>9. writable' \subseteq Fds /\ readable' \subseteq Fds
      <3>1. ASSUME NEW s \in Watched PROVE conn[s].fd \in Fds
        <4>1. conn[s].fd # 0 /\ s \in Slots
          BY <1>2, <3>1 DEF Select, Watched
        <4>2. conn[s].fd \in Fds \cup {0}
          BY <1>0, <4>1 DEF wish_context
        <4> QED BY <4>1, <4>2
      <3>2. \A s \in ok \cup failed : s \in Watched
        BY DEF Connecting
      <3>3. writable' \subseteq Fds
        BY <2>2, <3>1, <3>2
      <3>4. PICK R \in SUBSET (Watched \ Connecting) :
              readable' = {conn[s].fd : s \in R}
        BY <1>2 DEF Select
      <3> QED BY <3>1, <3>3, <3>4
    <2>10. calls' \in 0..MaxCalls
      BY <2>3, PoolAssumption DEF PoolAssumption
    <2> QED BY <2>3, <2>8, <2>9, <2>10 DEF LoopOK, Phases
  <1> QED BY <1>1, <1>2

\* Whatever an owner of identities asks for closes connections.
LEMMA ManagementCloses ==
    ASSUME NEW r \in Rels, Management(r), contacts \subseteq Rels
    PROVE  /\ contacts' \subseteq Rels
           /\ \E D \in SUBSET Slots : wish_close_connection(D)
  <1>1. FirstOf(r) \in SUBSET Slots /\ {} \in SUBSET Slots
    BY DEF FirstOf
  <1>2. {s \in Slots : InUse(s) /\ conn[s].rel = r} \in SUBSET Slots
    OBVIOUS
  <1> QED BY <1>1, <1>2
          DEF Management, wish_identity_remove,
              wish_api_identity_friend_request_accept,
              wish_api_identity_friend_request_decline

\* The pre phase: local discovery and the handlers.
LEMMA BasicPre == ASSUME BasicInv, PrePhase PROVE BasicInv'
  <1> USE DEF BasicInv
  <1>1. /\ pc = "pre" /\ pc' \in {"pre", "halt", "recheck", "io"}
        /\ events = <<>> /\ events' = events
        /\ UNCHANGED <<timers, readable, writable>>
    BY DEF PrePhase, Handler, wish_ldiscover_feed, LocalManagement,
           wish_api_identity_friend_request, wish_api_wld_friend_request,
           wish_api_connections_check_connections,
           wish_api_connections_disconnect, RelaySession,
           wish_connections_close_all, HandlersDone, LoopOK
  <1>2. ASSUME Handler, UNCHANGED dial, contacts' \subseteq Rels PROVE LoopOK'
    BY <1>1, <1>2, PoolAssumption DEF PoolAssumption, Handler, LoopOK, Phases
  <1>3. ASSUME NEW r \in Rels, NEW h \in Hosts, wish_ldiscover_feed(r, h)
        PROVE BasicInv'
    <2> DEFINE c == wish_connection_init(r, FALSE, FALSE)
    <2>1. /\ c \in wish_context /\ c.st = "IN_MAKING" /\ c.ts = "INITIAL"
          /\ c.ps = "INITIAL" /\ c.fd = 0
      BY FreshRecord
    <2>2. PICK s \in Slots : Vacant(s) /\ OpenByAddress(s, c)
      BY <1>3 DEF wish_ldiscover_feed
    <2>3. Handler /\ UNCHANGED dial /\ contacts' \subseteq Rels
      BY <1>3 DEF wish_ldiscover_feed, LoopOK
    <2> HIDE DEF c
    <2> QED BY <1>1, <1>2, <2>1, <2>2, <2>3, SlotOpened
  <1>4. ASSUME NEW r \in Rels, wish_api_identity_friend_request(r)
        PROVE BasicInv'
    <2> DEFINE c == wish_connection_init(r, TRUE, FALSE)
    <2>1. /\ c \in wish_context /\ c.st = "IN_MAKING" /\ c.ts = "INITIAL"
          /\ c.ps = "INITIAL" /\ c.fd = 0
      BY FriendReqRecord
    <2>2. PICK s \in Slots : /\ Vacant(s)
                             /\ \/ OpenByAddress(s, c)
                                \/ wish_open_connection_dns(s, c)
                                \/ NotOpened(s)
      BY <1>4 DEF wish_api_identity_friend_request
    <2>3. Handler /\ UNCHANGED dial /\ contacts' \subseteq Rels
      BY <1>4 DEF wish_api_identity_friend_request, LoopOK
    <2> HIDE DEF c
    <2> QED BY <1>1, <1>2, <2>1, <2>2, <2>3, SlotOpened
  <1>5. ASSUME NEW r \in Rels, NEW h \in WldHosts,
               wish_api_wld_friend_request(r, h)
        PROVE BasicInv'
    <2> DEFINE b == wish_connection_init(r, TRUE, FALSE)
               c == [b EXCEPT !.host = h]
    <2>1. LoopOK'
      BY <1>2, <1>5 DEF wish_api_wld_friend_request, LoopOK
    <2>2. CASE \E s \in Slots : Vacant(s) /\ OpenByAddress(s, c)
      <3>1. PICK s \in Slots : Vacant(s) /\ OpenByAddress(s, c)
        BY <2>2
      <3>2. /\ b \in wish_context /\ b.st = "IN_MAKING" /\ b.ts = "INITIAL"
            /\ b.ps = "INITIAL" /\ b.fd = 0
        BY FriendReqRecord
      <3>3. h \in Hosts
        BY PoolAssumption DEF PoolAssumption
      <3> HIDE DEF b
      <3>4. /\ c \in wish_context /\ c.st = "IN_MAKING" /\ c.ts = "INITIAL"
            /\ c.ps = "INITIAL" /\ c.fd = 0
        BY <3>2, <3>3 DEF wish_context
      <3> HIDE DEF c
      <3> QED BY <1>1, <2>1, <3>1, <3>4, SlotOpened
    <2>3. CASE UNCHANGED <<conn, resolvers>> /\ fault' = fault \cup {"null_deref"}
      <3>1. fault' \subseteq FaultKinds /\ resolvers' \subseteq resolvers
        BY <2>3 DEF SlotsOK, FaultKinds
      <3> QED BY <1>1, <2>1, <2>3, <3>1, SlotsKept
    <2> QED BY <1>5, <2>2, <2>3 DEF wish_api_wld_friend_request
  <1>6. ASSUME NEW r \in Rels, LocalManagement(r) PROVE BasicInv'
    <2>1. /\ Handler /\ Management(r) /\ UNCHANGED dial
          /\ contacts \subseteq Rels
      BY <1>6 DEF LocalManagement, LoopOK
    <2> QED BY <1>1, <1>2, <2>1, ManagementCloses, SlotsClosed
  <1>7. CASE wish_api_connections_check_connections
    <2>1. LoopOK'
      BY <1>1, <1>7, PoolAssumption
         DEF PoolAssumption, wish_api_connections_check_connections, Handler,
             Dialling, LoopOK, Phases
    <2> QED BY <1>1, <1>7, <2>1, SlotsSame
            DEF wish_api_connections_check_connections
  <1>8. ASSUME NEW s \in Slots, wish_api_connections_disconnect(s)
        PROVE BasicInv'
    <2>1. /\ Handler /\ UNCHANGED dial /\ contacts' \subseteq Rels
          /\ wish_close_connection({s}) /\ {s} \in SUBSET Slots
      BY <1>8 DEF wish_api_connections_disconnect, LoopOK
    <2> QED BY <1>1, <1>2, <2>1, SlotsClosed
  <1>9. CASE RelaySession
    <2> DEFINE c == wish_connection_init(NoRel, FALSE, TRUE)
    <2>1. /\ c \in wish_context /\ c.st = "IN_MAKING" /\ c.ts = "INITIAL"
          /\ c.ps = "INITIAL" /\ c.fd = 0
      BY FreshRecord
    <2>2. PICK s \in Slots : /\ Vacant(s)
                             /\ \/ OpenByAddress(s, c)
                                \/ wish_open_connection_dns(s, c)
      BY <1>9 DEF RelaySession
    <2>3. Handler /\ UNCHANGED dial /\ contacts' \subseteq Rels
      BY <1>9 DEF RelaySession, LoopOK
    <2> HIDE DEF c
    <2> QED BY <1>1, <1>2, <2>1, <2>2, <2>3, SlotOpened
  <1>10. CASE wish_connections_close_all
    <2> DEFINE D == {s \in Slots : InUse(s)}
    <2>1. /\ Handler /\ UNCHANGED dial /\ contacts' \subseteq Rels
          /\ wish_close_connection(D) /\ D \in SUBSET Slots
      BY <1>10 DEF wish_connections_close_all, LoopOK
    <2> HIDE DEF D
    <2> QED BY <1>1, <1>2, <2>1, SlotsClosed
  <1>11. CASE HandlersDone
    <2>1. LoopOK'
      BY <1>1, <1>11, PoolAssumption
         DEF PoolAssumption, HandlersDone, LoopOK, Phases
    <2> QED BY <1>1, <1>11, <2>1, SlotsSame DEF HandlersDone
  <1> QED BY <1>3, <1>4, <1>5, <1>6, <1>7, <1>8, <1>9, <1>10, <1>11 DEF PrePhase

\* The pass goes on to the next slot, or stays within the phase.
LEMMA PassLoop ==
    ASSUME LoopOK, NEW s \in Slots, cursor = s,
           \/ pc' \in {"io", "frames", "halt"} /\ UNCHANGED cursor
           \/ NextSlot,
           contacts' \subseteq Rels,
           UNCHANGED <<timers, readable, writable, calls, dial>>
    PROVE  LoopOK'
  <1>1. cursor' \in 1..(PoolSize + 1)
    BY PoolAssumption DEF PoolAssumption, NextSlot, LoopOK, Slots
  <1>2. pc' \in {"io", "frames", "halt"}
    BY DEF NextSlot
  <1> QED BY <1>1, <1>2 DEF LoopOK, Phases

\* The io phase.
LEMMA BasicIo == ASSUME BasicInv, IoPhase PROVE BasicInv'
  <1> USE DEF BasicInv
  <1>0. /\ contacts' \subseteq Rels /\ events' = events
        /\ UNCHANGED <<timers, readable, writable, calls, dial>>
    BY DEF IoPhase, IoNothing, wish_core_feed, IoEof, IoConnected,
           connect_fail_cb, IoDone, LoopOK
  <1>1. ASSUME NEW s \in Slots, IoNothing(s) \/ wish_core_feed(s) PROVE BasicInv'
    <2>1. LoopOK'
      BY <1>0, <1>1, PassLoop DEF IoNothing, wish_core_feed, AtSlot
    <2> QED BY <1>1, <2>1, SlotsSame DEF IoNothing, wish_core_feed
  <1>2. ASSUME NEW s \in Slots, IoEof(s) \/ connect_fail_cb(s) PROVE BasicInv'
    <2>1. LoopOK'
      BY <1>0, <1>2, PassLoop DEF IoEof, connect_fail_cb, AtSlot
    <2>2. s \notin resolvers'
      BY <1>2, NoResolver DEF IoEof, connect_fail_cb, Flagged, Watched
    <2>3. /\ conn' = [conn EXCEPT ![s] = FreeSlot]
          /\ fault' = fault \cup TcpDisconnectedFaults(conn[s])
          /\ resolvers' = resolvers
      BY <1>2 DEF IoEof, connect_fail_cb, TcpDisconnected
    <2> QED BY <1>0, <2>1, <2>2, <2>3, SlotGone
  <1>3. ASSUME NEW s \in Slots, IoConnected(s) PROVE BasicInv'
    <2>1. LoopOK'
      BY <1>0, <1>3, PassLoop DEF IoConnected, AtSlot
    <2>2. CASE conn[s].ts = "CONNECTING"
      <3> DEFINE d == TcpConnected(conn[s])
      <3>1. conn' = [conn EXCEPT ![s] = d] /\ fault' = fault
            /\ resolvers' = resolvers
        BY <1>3, <2>2 DEF IoConnected
      <3>2. conn[s] \in wish_context /\ conn[s].ps = "INITIAL"
        BY <2>2 DEF SlotsOK, Framed
      <3>3. d \in wish_context /\ Framed(d) /\ d.ts # "RESOLVING"
        BY <3>2 DEF TcpConnected, wish_context, Framed, TransportStates,
                    ProtocolStates
      <3>4. s \notin resolvers' /\ fault' \subseteq FaultKinds
        BY <2>2, <3>1, NoResolver DEF SlotsOK
      <3> HIDE DEF d
      <3> QED BY <1>0, <2>1, <3>1, <3>3, <3>4, SlotReplaced
    <2>3. CASE conn[s].ts # "CONNECTING"
      <3>1. /\ UNCHANGED conn /\ resolvers' \subseteq resolvers
            /\ fault' \subseteq FaultKinds
        BY <1>3, <2>3 DEF IoConnected, SlotsOK, FaultKinds
      <3> QED BY <1>0, <2>1, <3>1, SlotsKept
    <2> QED BY <2>2, <2>3
  <1>4. CASE IoDone
    <2>1. LoopOK'
      BY <1>0, <1>4 DEF IoDone, LoopOK, Phases
    <2> QED BY <1>4, <2>1, SlotsSame DEF IoDone
  <1> QED BY <1>1, <1>2, <1>3, <1>4 DEF IoPhase

\* The frames phase: wish_core_process_data on the slot at the cursor.
LEMMA BasicFrames == ASSUME BasicInv, FramePhase PROVE BasicInv'
  <1> USE DEF BasicInv
  <1> SUFFICES ASSUME NEW s \in Slots,
                      \/ NoMoreFrames(s)
                      \/ RejectFrame(s)
                      \/ \E r \in Rels, b \in BOOLEAN : ServerHello(s, r, b)
                      \/ ServerHelloDhmError(s)
                      \/ Handshake(s)
                      \/ ServerNoPrivkey(s)
                      \/ \E h \in Hosts \cup {NoHost} : HandshakeDone(s, h)
                      \/ Message(s)
                      \/ FriendReqAccepted(s)
                      \/ FriendReqDeclined(s)
                      \/ \E r \in Rels : RemoteManagement(s, r)
                      \/ core_friend_req(s)
               PROVE  BasicInv'
    BY DEF FramePhase
  <1>0. /\ conn[s] \in wish_context /\ Framed(conn[s])
        /\ fault \subseteq FaultKinds /\ contacts \subseteq Rels
    BY DEF SlotsOK, LoopOK
  <1>1. ASSUME Processing(s), MoreOrNext \/ NextSlot, contacts' \subseteq Rels,
               UNCHANGED <<timers, readable, writable, calls, dial>>
        PROVE  LoopOK'
    BY <1>1, PassLoop DEF Processing, MoreOrNext
  <1>2. ASSUME Processing(s), MoreOrNext \/ NextSlot, FrameUnchanged
        PROVE  LoopOK'
    BY <1>0, <1>1, <1>2 DEF FrameUnchanged
  <1>3. CASE NoMoreFrames(s) \/ Message(s)
    BY <1>2, <1>3, SlotsSame DEF NoMoreFrames, Message
  <1>4. CASE RejectFrame(s)
    <2>1. {s} \in SUBSET Slots
      OBVIOUS
    <2> QED BY <1>2, <1>4, <2>1, SlotsClosed DEF RejectFrame
  <1>5. ASSUME NEW r \in Rels, NEW b \in BOOLEAN, ServerHello(s, r, b)
        PROVE  BasicInv'
    <2> DEFINE d == [conn[s] EXCEPT !.rel = r, !.fr = b, !.dhm = "live",
                                    !.ts = "WAIT_FRAME_LEN", !.ps = "SERVER_DH"]
    <2>1. d \in wish_context /\ Framed(d) /\ d.ts # "RESOLVING"
      BY <1>0 DEF wish_context, Framed, TransportStates, ProtocolStates
    <2>2. /\ conn' = [conn EXCEPT ![s] = d] /\ fault' = fault
          /\ resolvers' = resolvers /\ events' = events
      BY <1>5 DEF ServerHello
    <2>3. s \notin resolvers'
      BY <1>5, <2>2, NoResolver DEF ServerHello
    <2>4. LoopOK'
      BY <1>2, <1>5 DEF ServerHello
    <2> HIDE DEF d
    <2> QED BY <1>0, <2>1, <2>2, <2>3, <2>4, SlotReplaced
  <1>6. CASE ServerHelloDhmError(s)
    <2>1. s \notin resolvers /\ LoopOK'
      BY <1>2, <1>6, NoResolver DEF ServerHelloDhmError
    <2> DEFINE c == [conn[s] EXCEPT !.dhm = "live"]
    <2>2. /\ conn' = [conn EXCEPT ![s] = FreeSlot]
          /\ fault' = fault \cup TcpDisconnectedFaults(c)
          /\ resolvers' = resolvers /\ events' = events
      BY <1>6 DEF ServerHelloDhmError
    <2> HIDE DEF c
    <2> QED BY <2>1, <2>2, SlotGone
  <1>7. ASSUME conn[s].ps # "INITIAL" PROVE s \notin resolvers
    BY <1>0, <1>7, NoResolver DEF Framed
  <1>8. CASE Handshake(s)
    <2>1. PICK next \in ProtocolStates :
            /\ <<conn[s].ps, next>> \in HandshakeOrder
            /\ conn' = [conn EXCEPT ![s] = Advance(conn[s], next)]
      BY <1>8 DEF Handshake
    <2> DEFINE d == Advance(conn[s], next)
    <2>2. conn[s].ps # "INITIAL"
      BY <2>1 DEF HandshakeOrder
    <2>3. d \in wish_context /\ Framed(d) /\ d.ts # "RESOLVING"
      BY <1>0, <2>2 DEF Advance, wish_context, Framed
    <2>4. /\ conn' = [conn EXCEPT ![s] = d] /\ fault' = fault
          /\ resolvers' = resolvers /\ events' = events /\ LoopOK'
      BY <1>2, <1>8, <2>1 DEF Handshake
    <2> HIDE DEF d
    <2> QED BY <1>0, <1>7, <2>2, <2>3, <2>4, SlotReplaced
  <1>9. CASE ServerNoPrivkey(s)
    <2>1. s \notin resolvers /\ LoopOK'
      BY <1>2, <1>7, <1>9 DEF ServerNoPrivkey
    <2> DEFINE c == [conn[s] EXCEPT !.dhm = "null"]
    <2>2. /\ conn' = [conn EXCEPT ![s] = FreeSlot]
          /\ fault' = fault \cup TcpDisconnectedFaults(c)
          /\ resolvers' = resolvers /\ events' = events
      BY <1>9 DEF ServerNoPrivkey
    <2> HIDE DEF c
    <2> QED BY <2>1, <2>2, SlotGone
  <1>10. ASSUME NEW h \in Hosts \cup {NoHost}, HandshakeDone(s, h)
         PROVE  BasicInv'
    <2> DEFINE d == Finished(conn[s], h)
    <2>1. conn[s].ps # "INITIAL"
      BY <1>10 DEF HandshakeDone
    <2>2. d \in wish_context /\ Framed(d) /\ d.ts # "RESOLVING"
      BY <1>0, <2>1 DEF Finished, wish_context, Framed, ContextStates,
                        ProtocolStates
    <2>3. /\ conn' = [conn EXCEPT ![s] = d] /\ fault' = fault
          /\ resolvers' = resolvers /\ LoopOK'
          /\ events' = events \/ events' = Append(events, s)
      BY <1>2, <1>10 DEF HandshakeDone
    <2>4. /\ events' \in Seq(Slots)
          /\ \A i \in 1..Len(events') :
                 events'[i] = s \/ conn[events'[i]].ts # "RESOLVING"
      <3>1. CASE events' = events
        BY <3>1 DEF SlotsOK
      <3>2. CASE events' = Append(events, s)
        BY <3>2 DEF SlotsOK
      <3> QED BY <2>3, <3>1, <3>2
    <2> HIDE DEF d
    <2> QED BY <1>0, <1>7, <2>1, <2>2, <2>3, <2>4, SlotSet
  <1>11. CASE FriendReqAccepted(s)
    <2>1. {s} \in SUBSET Slots
      OBVIOUS
    <2> QED BY <1>2, <1>11, <2>1, SlotsClosed DEF FriendReqAccepted
  <1>12. CASE FriendReqDeclined(s)
    <2>1. PICK D \in SUBSET Slots : wish_close_connection(D)
      BY <1>12 DEF FriendReqDeclined
    <2>2. LoopOK' /\ events' = events
      BY <1>0, <1>1, <1>12 DEF FriendReqDeclined
    <2> QED BY <2>1, <2>2, SlotsClosed
  <1>13. ASSUME NEW r \in Rels, RemoteManagement(s, r) PROVE BasicInv'
    <2>1. /\ contacts' \subseteq Rels
          /\ \E D \in SUBSET Slots : wish_close_connection(D)
      BY <1>0, <1>13, ManagementCloses DEF RemoteManagement
    <2>2. LoopOK' /\ events' = events
      BY <1>1, <1>13, <2>1 DEF RemoteManagement
    <2> QED BY <2>1, <2>2, SlotsClosed
  <1>14. CASE core_friend_req(s)
    <2>1. PICK D \in SUBSET Slots : wish_close_connection(D)
      BY <1>14 DEF core_friend_req
    <2>2. LoopOK' /\ events' = events
      BY <1>2, <1>14 DEF core_friend_req
    <2> QED BY <2>1, <2>2, SlotsClosed
  <1> QED BY <1>3, <1>4, <1>5, <1>6, <1>8, <1>9, <1>10, <1>11, <1>12, <1>13,
             <1>14

\* A connection comes in, and the queue is drained.
LEMMA BasicAccept ==
    ASSUME BasicInv,
           Accept \/ AcceptNone \/ wish_message_processor_task \/ EventsDone
    PROVE  BasicInv'
  <1> USE DEF BasicInv
  <1>1. CASE Accept
    <2> DEFINE b == wish_connection_init(NoRel, FALSE, FALSE)
    <2>1. PICK s \in Slots, f \in FreeFds :
            /\ Vacant(s)
            /\ conn' = [conn EXCEPT ![s] = [b EXCEPT
                 !.ts = "SERVER_WAIT_INITIAL", !.fd = f, !.net = "up"]]
      BY <1>1 DEF Accept
    <2>2. b \in wish_context /\ b.ps = "INITIAL"
      BY FreshRecord
    <2> HIDE DEF b
    <2> DEFINE d == [b EXCEPT !.ts = "SERVER_WAIT_INITIAL", !.fd = f, !.net = "up"]
    <2>3. d \in wish_context /\ Framed(d) /\ d.ts # "RESOLVING"
      BY <2>2 DEF wish_context, Framed, TransportStates, FreeFds
    <2>4. conn' = [conn EXCEPT ![s] = d]
      BY <2>1
    <2>5. /\ resolvers' = resolvers /\ events' = events
          /\ fault' \subseteq FaultKinds
      BY <1>1 DEF Accept, SlotsOK
    <2>6. s \notin resolvers
      BY <2>1, NoResolver DEF Vacant, FreeSlots, InUse
    <2>7. LoopOK'
      BY <1>1 DEF Accept, LoopOK, Phases
    <2> HIDE DEF d
    <2> QED BY <2>3, <2>4, <2>5, <2>6, <2>7, SlotReplaced
  <1>2. CASE AcceptNone \/ EventsDone
    <2>1. LoopOK'
      BY <1>2 DEF AcceptNone, EventsDone, LoopOK, Phases
    <2> QED BY <1>2, <2>1, SlotsSame DEF AcceptNone, EventsDone
  <1>3. CASE wish_message_processor_task
    <2> DEFINE s == Head(events)
               d == [conn[s] EXCEPT !.st = "CONNECTED"]
    <2>1. /\ events # <<>> /\ events \in Seq(Slots) /\ pc = "events"
          /\ events' = Tail(events) /\ conn' = [conn EXCEPT ![s] = d]
          /\ UNCHANGED <<contacts, resolvers, pc, cursor, readable, writable,
                         calls, dial, fault>>
      BY <1>3 DEF wish_message_processor_task, SlotsOK
    <2>2. s \in Slots /\ conn[s].ts # "RESOLVING"
      BY <2>1 DEF SlotsOK
    <2>3. conn[s] \in wish_context /\ Framed(conn[s])
      BY <2>2 DEF SlotsOK
    <2>4. d \in wish_context /\ Framed(d) /\ d.ts # "RESOLVING"
      BY <2>2, <2>3 DEF wish_context, Framed, ContextStates
    <2>5. /\ events' \in Seq(Slots)
          /\ \A i \in 1..Len(events') : conn[events'[i]].ts # "RESOLVING"
      BY <2>1 DEF SlotsOK
    <2>6. s \notin resolvers' /\ resolvers' = resolvers /\ fault' \subseteq FaultKinds
      BY <2>1, <2>2, NoResolver DEF SlotsOK
    <2>7. timers' \in Seq(Slots)
      BY <1>3, <2>2 DEF wish_message_processor_task, LoopOK
    <2>8. LoopOK'
      BY <2>1, <2>7 DEF LoopOK
    <2> HIDE DEF s, d
    <2> QED BY <2>1, <2>2, <2>4, <2>5, <2>6, <2>8, SlotSet
  <1> QED BY <1>1, <1>2, <1>3

\* The timers of the loop.
LEMMA BasicPeriodic == ASSUME BasicInv, PeriodicPhase PROVE BasicInv'
  <1> USE DEF BasicInv
  <1>1. CASE NoTick \/ wish_connections_check \/ DialDone \/ TimersDone
    <2>1. LoopOK'
      BY <1>1 DEF NoTick, wish_connections_check, DialDone, TimersDone, Dialling,
                  LoopOK, Phases
    <2> QED BY <1>1, <2>1, SlotsSame
            DEF NoTick, wish_connections_check, DialDone, TimersDone
  <1>2. ASSUME NEW r \in Rels, wish_connections_connect_transport(r)
        PROVE  BasicInv'
    <2> DEFINE c == wish_connection_init(r, FALSE, FALSE)
    <2>1. /\ c \in wish_context /\ c.st = "IN_MAKING" /\ c.ts = "INITIAL"
          /\ c.ps = "INITIAL" /\ c.fd = 0
      BY FreshRecord
    <2>2. dial' \in [Rels -> 0..MaxTransports]
      <3>1. /\ dial \in [Rels -> 0..MaxTransports] /\ dial[r] > 0
            /\ dial' = [dial EXCEPT ![r] = dial[r] - 1] /\ MaxTransports \in Nat
        BY <1>2, PoolAssumption
           DEF PoolAssumption, wish_connections_connect_transport, LoopOK
      <3>2. dial[r] - 1 \in 0..MaxTransports
        BY <3>1
      <3> QED BY <3>1, <3>2
    <2>3. LoopOK' /\ events = <<>> /\ events' = events
      BY <1>2, <2>2 DEF wish_connections_connect_transport, LoopOK
    <2>4. \/ UNCHANGED <<conn, resolvers, fault>>
          \/ \E s \in Slots : /\ Vacant(s)
                              /\ \/ OpenByAddress(s, c)
                                 \/ wish_open_connection_dns(s, c)
                                 \/ NotOpened(s)
      BY <1>2 DEF wish_connections_connect_transport
    <2> HIDE DEF c
    <2> QED BY <2>1, <2>3, <2>4, SlotOpened, SlotsSame
  <1>3. ASSUME NEW D \in SUBSET Slots, check_connection_liveliness(D)
        PROVE  BasicInv'
    <2>1. LoopOK'
      BY <1>3 DEF check_connection_liveliness, LoopOK, Phases
    <2> QED BY <1>3, <2>1, SlotsClosed DEF check_connection_liveliness
  <1>4. CASE wish_close_parallel_connections
    <2>1. PICK D \in SUBSET Slots : wish_close_connection(D)
      BY <1>4 DEF wish_close_parallel_connections, ParallelTo
    <2>2. LoopOK' /\ events' = events
      BY <1>4 DEF wish_close_parallel_connections, LoopOK
    <2> QED BY <2>1, <2>2, SlotsClosed
  <1> QED BY <1>1, <1>2, <1>3, <1>4 DEF PeriodicPhase

\* The pool as wish_connections_init leaves it.
LEMMA BasicInit == wish_connections_init => BasicInv
  <1> SUFFICES ASSUME wish_connections_init PROVE BasicInv
    OBVIOUS
  <1> DEFINE c == [FreeSlot EXCEPT !.ts = "INITIAL"]
  <1>1. c \in wish_context /\ Framed(c)
    BY DEF FreeSlot, wish_context, Framed, ContextStates, TransportStates,
           ProtocolStates, Fds
  <1>2. conn = [s \in Slots |-> c]
    BY DEF wish_connections_init
  <1> HIDE DEF c
  <1>3. SlotsOK
    BY <1>1, <1>2 DEF wish_connections_init, SlotsOK, ResolverOwner
  <1>4. LoopOK
    BY PoolAssumption
       DEF PoolAssumption, wish_connections_init, NoDial, LoopOK, Phases
  <1> QED BY <1>3, <1>4 DEF BasicInv

\* No frame and no failure, at whatever moment, takes the main loop out of
\* BasicInv.
THEOREM PoolBasics == Spec => []BasicInv
  <1>1. BasicInv /\ [Next]_vars => BasicInv'
    <2> SUFFICES ASSUME BasicInv, [Next]_vars PROVE BasicInv'
      OBVIOUS
    <2>1. CASE Next
      BY <2>1, BasicDns, BasicSelect, BasicPre, BasicIo, BasicFrames, BasicAccept,
         BasicPeriodic DEF Next
    <2>2. CASE UNCHANGED vars
      <3>1. LoopOK'
        BY <2>2 DEF vars, BasicInv, LoopOK
      <3> QED BY <2>2, <3>1, SlotsSame DEF vars, BasicInv
    <2> QED BY <2>1, <2>2
  <1> QED BY BasicInit, <1>1, PTL DEF Spec

\* BasicInv says of every variable at least its type.
LEMMA BasicTypes == BasicInv => TypeOK
  BY DEF BasicInv, SlotsOK, LoopOK, TypeOK

\* The variables keep their types, whatever frames come and whatever fails:
\* between any two steps a slot is FREE, IN_MAKING or CONNECTED, and the
\* queues and the cursor stay within the pool.
THEOREM PoolType == Spec => []TypeOK
  <1> QED BY BasicTypes, PoolBasics, PTL

\* A resolver never outlives or changes its connection, whatever frames come
\* and whatever fails, so the abort() of port_dns_resolver_signal_error is
\* not reached.
THEOREM ResolverSafety == Spec => []ResolverOwner
  <1>1. BasicInv => ResolverOwner
    BY DEF BasicInv, SlotsOK
  <1> QED BY <1>1, PoolBasics, PTL

\* One timer of the tick: the connection whose timer it is survives it, and
\* the connections it closes are those with the same two ends as that one.
LEMMA ParallelCheck ==
    ASSUME BasicInv, wish_close_parallel_connections,
           NEW s \in Slots, conn[s].st = "CONNECTED"
    PROVE  \E t \in Slots : /\ conn'[t].st = "CONNECTED"
                            /\ conn'[t].rel = conn[s].rel
                            /\ conn'[t].host = conn[s].host
  <1> DEFINE h == Head(timers)
             D == IF conn[h].st = "CONNECTED" THEN ParallelTo(h) ELSE {}
  <1>1. h \in Slots
    BY DEF wish_close_parallel_connections, BasicInv, LoopOK
  <1>2. \A t \in Slots \ D : conn'[t] = conn[t]
    BY DEF wish_close_parallel_connections, wish_close_connection
  <1>3. CASE s \in D
    <2>1. /\ h \notin D /\ conn[h].st = "CONNECTED"
          /\ conn[h].rel = conn[s].rel /\ conn[h].host = conn[s].host
      BY <1>3 DEF ParallelTo
    <2> HIDE DEF h, D
    <2> QED BY <1>1, <1>2, <2>1
  <1>4. CASE s \notin D
    <2> HIDE DEF h, D
    <2> QED BY <1>2, <1>4
  <1> QED BY <1>3, <1>4

\* The timers of one tick, one after the other and on whichever slots they
\* have ended up, leave a CONNECTED connection wherever there was one,
\* whatever frames have come before.
THEOREM ParallelSafety == Spec => ParallelCheckKeepsOne
  <1> DEFINE Kept == pc = "timers" => \A s \in Slots : conn[s].st = "CONNECTED" =>
                        \E t \in Slots : /\ conn'[t].st = "CONNECTED"
                                         /\ conn'[t].rel = conn[s].rel
                                         /\ conn'[t].host = conn[s].host
  <1>1. BasicInv /\ [Next]_vars => [Kept]_vars
    <2> SUFFICES ASSUME BasicInv, Next, pc = "timers",
                        NEW s \in Slots, conn[s].st = "CONNECTED"
                 PROVE  \E t \in Slots : /\ conn'[t].st = "CONNECTED"
                                         /\ conn'[t].rel = conn[s].rel
                                         /\ conn'[t].host = conn[s].host
      OBVIOUS
    <2>1. PeriodicPhase
      <3>1. ~(DnsPhase \/ SelectNull \/ Select)
        BY DEF DnsPhase, DnsResolved, DnsNoAddress, port_dns_resolver_signal_error,
               DnsDone, SelectNull, Select
      <3>2. ~PrePhase
        BY DEF PrePhase, Handler, wish_ldiscover_feed, LocalManagement,
               wish_api_identity_friend_request, wish_api_wld_friend_request,
               wish_api_connections_check_connections,
               wish_api_connections_disconnect, RelaySession,
               wish_connections_close_all, HandlersDone
      <3>3. ~IoPhase
        BY DEF IoPhase, IoNothing, wish_core_feed, IoEof, IoConnected,
               connect_fail_cb, IoDone, AtSlot
      <3>4. ~FramePhase
        BY DEF FramePhase, Processing, NoMoreFrames, RejectFrame, ServerHello,
               ServerHelloDhmError, Handshake, ServerNoPrivkey, HandshakeDone,
               Message, FriendReqAccepted, FriendReqDeclined, RemoteManagement,
               core_friend_req
      <3>5. ~(Accept \/ AcceptNone \/ wish_message_processor_task \/ EventsDone)
        BY DEF Accept, AcceptNone, wish_message_processor_task, EventsDone
      <3> QED BY <3>1, <3>2, <3>3, <3>4, <3>5 DEF Next
    <2>2. wish_close_parallel_connections \/ TimersDone
      BY <2>1 DEF PeriodicPhase, NoTick, wish_connections_check, DialDone,
                  wish_connections_connect_transport, check_connection_liveliness
    <2>3. CASE TimersDone
      BY <2>3 DEF TimersDone
    <2> QED BY <2>2, <2>3, ParallelCheck
  <1>2. Spec => [][Kept]_vars
    BY PoolBasics, <1>1, PTL DEF Spec
  <1> QED BY <1>2 DEF ParallelCheckKeepsOne

-----------------------------------------------------------------------------
(* The faults: the main loop commits none of those that are added to the *)
(* variable fault.                                                       *)

\* What a slot owns: a DHM context that is not freed and that the next close
\* finds in the state in which it releases it, and no socket while it is
\* resolving, unless a connect() has failed at once.
Owned(c) == /\ c.dhm # "freed"
            /\ c.dhm = "live" => c.ps = "SERVER_DH"
            /\ "error" \notin ConnectResults /\ c.ts = "RESOLVING" => c.fd = 0

\* Memory for DHM contexts lasts, and no connect() fails at once.
Lasting == ~AllocFails /\ "error" \notin ConnectResults

FaultInv == /\ \A s \in Slots : Owned(conn[s])
            /\ NoDoubleFree
            /\ Lasting => NoLeak

\* The slots a close leaves behind own nothing.
LEMMA FreeSlotOwned == Owned(FreeSlot)
  BY DEF Owned, FreeSlot

\* TCP_DISCONNECTED does no harm to a slot that owns what it should.
LEMMA NoDisconnectFaults ==
    ASSUME NEW c, Owned(c)
    PROVE  TcpDisconnectedFaults(c) = {}
  BY DEF Owned, TcpDisconnectedFaults

\* Nor does a close, but the leak after a connect() that failed at once.
LEMMA OwnedCloseFaults ==
    ASSUME NEW c, Owned(c)
    PROVE  /\ "double_free" \notin CloseFaults(c)
           /\ Lasting => CloseFaults(c) = {}
  <1>1. TcpDisconnectedFaults(c) = {}
    BY NoDisconnectFaults
  <1>2. Lasting => ~(c.ts = "RESOLVING" /\ c.fd # 0)
    BY DEF Lasting, Owned
  <1> QED BY <1>1, <1>2 DEF CloseFaults

\* Any set of slots may be closed.
LEMMA FaultsClosed ==
    ASSUME TypeOK, FaultInv, NEW D \in SUBSET Slots, wish_close_connection(D)
    PROVE  FaultInv'
  <1>1. conn' = [s \in Slots |-> IF s \in D THEN FreeSlot ELSE conn[s]]
    BY DEF wish_close_connection
  <1>2. \A s \in Slots : Owned(conn[s])'
    BY <1>1, FreeSlotOwned DEF FaultInv, Owned
  <1> DEFINE new == UNION {CloseFaults(conn[s]) : s \in D}
  <1>3. fault' = fault \cup new
    BY DEF wish_close_connection
  <1>4. \A s \in D : /\ "double_free" \notin CloseFaults(conn[s])
                     /\ Lasting => CloseFaults(conn[s]) = {}
    BY OwnedCloseFaults DEF FaultInv
  <1>5. "double_free" \notin new /\ (Lasting => new = {})
    BY <1>4
  <1> HIDE DEF new
  <1> QED BY <1>2, <1>3, <1>5 DEF FaultInv, NoDoubleFree, NoLeak, Lasting

\* So may a slot whose socket the port has closed itself.
LEMMA FaultsDisconnected ==
    ASSUME TypeOK, FaultInv, NEW s \in Slots, TcpDisconnected(s)
    PROVE  FaultInv'
  <1>1. conn' = [conn EXCEPT ![s] = FreeSlot]
    BY DEF TcpDisconnected
  <1>2. \A t \in Slots : Owned(conn[t])'
    BY <1>1, FreeSlotOwned DEF FaultInv, Owned, TypeOK
  <1>3. fault' = fault
    BY NoDisconnectFaults DEF TcpDisconnected, FaultInv
  <1> QED BY <1>2, <1>3 DEF FaultInv, NoDoubleFree, NoLeak, Lasting

\* One slot is replaced by a record that owns what it should.
LEMMA FaultsUpdated ==
    ASSUME TypeOK, FaultInv, NEW s \in Slots, NEW d, Owned(d),
           conn' = [conn EXCEPT ![s] = d], fault' = fault
    PROVE  FaultInv'
  <1>1. \A t \in Slots : Owned(conn[t])'
    BY DEF FaultInv, Owned, TypeOK
  <1> QED BY <1>1 DEF FaultInv, NoDoubleFree, NoLeak, Lasting

\* Nothing happens to the slots.
LEMMA FaultsIdle ==
    ASSUME FaultInv, conn' = conn,
           fault' \subseteq fault \cup {"null_deref", "abort"}
    PROVE  FaultInv'
  BY DEF FaultInv, Owned, NoDoubleFree, NoLeak, Lasting

\* A record that connect() is called for.
LEMMA OpenedOwned ==
    ASSUME NEW c \in wish_context, NEW f \in Fds, NEW result \in ConnectResults,
           c.dhm = "null"
    PROVE  Owned(wish_open_connection(c, f, result))
  <1>1. result \in {"inprogress", "error", "ok"}
    BY PoolAssumption DEF PoolAssumption
  <1>2. CASE result = "inprogress"
    BY <1>2 DEF wish_open_connection, Owned, wish_context
  <1>3. CASE result = "error"
    BY <1>3 DEF wish_open_connection, Owned, wish_context
  <1>4. CASE result = "ok"
    BY <1>4 DEF wish_open_connection, TcpConnected, Owned, wish_context
  <1> QED BY <1>1, <1>2, <1>3, <1>4

\* A vacant slot is taken, by address or by name, or released again.
LEMMA FaultsOpened ==
    ASSUME TypeOK, FaultInv, NEW s \in Slots, NEW c \in wish_context,
           c.dhm = "null", c.fd = 0,
           \/ OpenByAddress(s, c)
           \/ wish_open_connection_dns(s, c)
           \/ NotOpened(s)
    PROVE  FaultInv'
  <1>1. CASE OpenByAddress(s, c)
    <2>1. PICK f \in FreeFds, result \in ConnectResults :
             conn' = [conn EXCEPT ![s] = wish_open_connection(c, f, result)]
      BY <1>1 DEF OpenByAddress
    <2>2. Owned(wish_open_connection(c, f, result))
      BY OpenedOwned DEF FreeFds
    <2>3. fault' = fault
      BY <1>1 DEF OpenByAddress
    <2> QED BY <2>1, <2>2, <2>3, FaultsUpdated
  <1>2. CASE conn' = [conn EXCEPT ![s] = [c EXCEPT !.ts = "RESOLVING"]]
             /\ fault' = fault
    <2>1. Owned([c EXCEPT !.ts = "RESOLVING"])
      BY DEF Owned, wish_context
    <2> QED BY <1>2, <2>1, FaultsUpdated
  <1>3. CASE conn' = [conn EXCEPT ![s] = FreeSlot] /\ fault' = fault
    BY <1>3, FreeSlotOwned, FaultsUpdated
  <1> QED BY <1>1, <1>2, <1>3 DEF wish_open_connection_dns, NotOpened

\* wish_connection_init gives a record that owns nothing.
LEMMA FreshOwned ==
    ASSUME NEW r \in Rels \cup {NoRel}, NEW fr \in BOOLEAN, NEW via \in BOOLEAN
    PROVE  LET c == wish_connection_init(r, fr, via)
           IN c \in wish_context /\ c.dhm = "null" /\ c.fd = 0
  <1>1. wish_connection_init(r, fr, via).dhm = "null"
    BY DEF wish_connection_init, FreeSlot
  <1> QED BY <1>1, FreshRecord
-----------------------------------------------------------------------------
(* The phases of the main loop. *)

\* A resolver's slot has no DHM context; a resolver without its slot would
\* be the abort().
LEMMA FaultsDns == ASSUME BasicInv, FaultInv, DnsPhase PROVE FaultInv'
  <1>0. TypeOK /\ ResolverOwner /\ \A t \in Slots : Framed(conn[t])
    BY BasicTypes DEF BasicInv, SlotsOK
  <1>1. ASSUME NEW s \in Slots, DnsResolved(s) PROVE FaultInv'
    <2>1. conn[s] \in wish_context /\ Framed(conn[s])
      BY <1>0 DEF TypeOK
    <2>2. conn[s].ts = "RESOLVING" /\ Owned(conn[s])
      BY <1>0, <1>1 DEF DnsResolved, ResolverOwner, FaultInv
    <2>3. conn[s].dhm = "null"
      BY <2>1, <2>2 DEF Framed, Owned, wish_context
    <2>4. PICK f \in FreeFds, result \in ConnectResults :
             conn' = [conn EXCEPT ![s] = wish_open_connection(conn[s], f, result)]
      BY <1>1 DEF DnsResolved
    <2>5. Owned(wish_open_connection(conn[s], f, result))
      BY <2>1, <2>3, OpenedOwned DEF FreeFds
    <2>6. fault' = fault
      BY <1>1 DEF DnsResolved
    <2> QED BY <1>0, <2>4, <2>5, <2>6, FaultsUpdated
  <1>2. ASSUME NEW s \in Slots, DnsNoAddress(s) PROVE FaultInv'
    BY <1>2, FaultsIdle DEF DnsNoAddress
  <1>3. ASSUME NEW s \in Slots, port_dns_resolver_signal_error(s) PROVE FaultInv'
    BY <1>0, <1>3, FaultsIdle, FaultsDisconnected
       DEF port_dns_resolver_signal_error
  <1>4. CASE DnsDone
    BY <1>4, FaultsIdle DEF DnsDone
  <1> QED BY <1>1, <1>2, <1>3, <1>4 DEF DnsPhase

\* The kernel's answers change nothing a slot owns.
LEMMA FaultsSelect ==
    ASSUME BasicInv, FaultInv, SelectNull \/ Select
    PROVE  FaultInv'
  <1>0. TypeOK
    BY BasicTypes
  <1>1. CASE SelectNull
    BY <1>1, FaultsIdle DEF SelectNull
  <1>2. CASE Select
    <2>1. ASSUME NEW s \in Slots
          PROVE \/ conn'[s] = conn[s]
                \/ \E n \in {"up", "failed"} : conn'[s] = [conn[s] EXCEPT !.net = n]
      BY <1>2 DEF Select
    <2>2. ASSUME NEW s \in Slots PROVE Owned(conn[s])'
      <3>1. conn[s] \in wish_context /\ Owned(conn[s])
        BY <1>0 DEF TypeOK, FaultInv
      <3>2. \/ conn'[s] = conn[s]
            \/ \E n \in {"up", "failed"} : conn'[s] = [conn[s] EXCEPT !.net = n]
        BY <2>1
      <3>3. /\ conn'[s].dhm = conn[s].dhm /\ conn'[s].ps = conn[s].ps
            /\ conn'[s].ts = conn[s].ts /\ conn'[s].fd = conn[s].fd
        BY <3>1, <3>2 DEF wish_context
      <3> QED BY <3>1, <3>3 DEF Owned
    <2>3. fault' = fault
      BY <1>2 DEF Select
    <2> QED BY <2>2, <2>3 DEF FaultInv, NoDoubleFree, NoLeak, Lasting
  <1> QED BY <1>1, <1>2

\* What an owner of identities does closes connections and opens none.
LEMMA FaultsManaged ==
    ASSUME TypeOK, FaultInv, NEW r \in Rels, Management(r)
    PROVE  FaultInv'
  <1>1. \E D \in SUBSET Slots : wish_close_connection(D)
    <2>1. FirstOf(r) \in SUBSET Slots /\ {} \in SUBSET Slots
      BY DEF FirstOf
    <2>2. {s \in Slots : InUse(s) /\ conn[s].rel = r} \in SUBSET Slots
      OBVIOUS
    <2> QED BY <2>1, <2>2
            DEF Management, wish_identity_remove,
                wish_api_identity_friend_request_accept,
                wish_api_identity_friend_request_decline
  <1> QED BY <1>1, FaultsClosed

\* The handlers.
LEMMA FaultsPre == ASSUME BasicInv, FaultInv, PrePhase PROVE FaultInv'
  <1>0. TypeOK
    BY BasicTypes
  <1>1. ASSUME NEW r \in Rels, NEW h \in Hosts, wish_ldiscover_feed(r, h)
        PROVE FaultInv'
    <2>1. PICK s \in Slots : OpenByAddress(s, wish_connection_init(r, FALSE, FALSE))
      BY <1>1 DEF wish_ldiscover_feed
    <2> QED BY <1>0, <2>1, FreshOwned, FaultsOpened
  <1>2. ASSUME NEW r \in Rels, wish_api_identity_friend_request(r)
        PROVE FaultInv'
    <2> DEFINE c == wish_connection_init(r, TRUE, FALSE)
    <2>1. c \in wish_context /\ c.dhm = "null" /\ c.fd = 0
      BY FreshOwned
    <2>2. PICK s \in Slots : \/ OpenByAddress(s, c)
                             \/ wish_open_connection_dns(s, c)
                             \/ NotOpened(s)
      BY <1>2 DEF wish_api_identity_friend_request
    <2> HIDE DEF c
    <2> QED BY <1>0, <2>1, <2>2, FaultsOpened
  <1>3. ASSUME NEW r \in Rels, NEW h \in WldHosts,
               wish_api_wld_friend_request(r, h)
        PROVE FaultInv'
    <2> DEFINE c == [wish_connection_init(r, TRUE, FALSE) EXCEPT !.host = h]
    <2>1. c \in wish_context /\ c.dhm = "null" /\ c.fd = 0
      <3>1. wish_connection_init(r, TRUE, FALSE) \in wish_context
        BY FreshOwned
      <3>2. h \in Hosts
        BY PoolAssumption DEF PoolAssumption
      <3> QED BY <3>1, <3>2, FreshOwned DEF wish_context
    <2>2. CASE \E s \in Slots : OpenByAddress(s, c)
      <3> HIDE DEF c
      <3> QED BY <1>0, <2>1, <2>2, FaultsOpened
    <2>3. CASE conn' = conn /\ fault' = fault \cup {"null_deref"}
      BY <2>3, FaultsIdle
    <2> QED BY <1>3, <2>2, <2>3 DEF wish_api_wld_friend_request
  <1>4. ASSUME NEW r \in Rels, LocalManagement(r) PROVE FaultInv'
    BY <1>0, <1>4, FaultsManaged DEF LocalManagement
  <1>5. CASE wish_api_connections_check_connections
    BY <1>5, FaultsIdle DEF wish_api_connections_check_connections
  <1>6. ASSUME NEW s \in Slots, wish_api_connections_disconnect(s)
        PROVE FaultInv'
    BY <1>0, <1>6, FaultsClosed DEF wish_api_connections_disconnect
  <1>7. CASE RelaySession
    <2> DEFINE c == wish_connection_init(NoRel, FALSE, TRUE)
    <2>1. c \in wish_context /\ c.dhm = "null" /\ c.fd = 0
      BY FreshOwned
    <2>2. PICK s \in Slots : OpenByAddress(s, c) \/ wish_open_connection_dns(s, c)
      BY <1>7 DEF RelaySession
    <2> HIDE DEF c
    <2> QED BY <1>0, <2>1, <2>2, FaultsOpened
  <1>8. CASE wish_connections_close_all
    BY <1>0, <1>8, FaultsClosed DEF wish_connections_close_all
  <1>9. CASE HandlersDone
    BY <1>9, FaultsIdle DEF HandlersDone
  <1> QED BY <1>1, <1>2, <1>3, <1>4, <1>5, <1>6, <1>7, <1>8, <1>9 DEF PrePhase

\* The pass over the sockets: a slot whose connect() ends is not yet in its
\* handshake.
LEMMA FaultsIo == ASSUME BasicInv, FaultInv, IoPhase PROVE FaultInv'
  <1>0. TypeOK /\ ResolverOwner /\ \A t \in Slots : Framed(conn[t])
    BY BasicTypes DEF BasicInv, SlotsOK
  <1>1. ASSUME NEW s \in Slots, IoNothing(s) PROVE FaultInv'
    BY <1>1, FaultsIdle DEF IoNothing
  <1>2. ASSUME NEW s \in Slots, wish_core_feed(s) PROVE FaultInv'
    BY <1>2, FaultsIdle DEF wish_core_feed
  <1>3. ASSUME NEW s \in Slots, IoEof(s) PROVE FaultInv'
    BY <1>0, <1>3, FaultsDisconnected DEF IoEof
  <1>4. ASSUME NEW s \in Slots, IoConnected(s) PROVE FaultInv'
    <2>1. CASE conn[s].ts = "CONNECTING"
      <3>1. conn' = [conn EXCEPT ![s] = TcpConnected(conn[s])] /\ fault' = fault
        BY <1>4, <2>1 DEF IoConnected
      <3>2. conn[s] \in wish_context /\ Framed(conn[s])
        BY <1>0 DEF TypeOK
      <3>3. conn[s].dhm = "null"
        BY <2>1, <3>2 DEF Framed, FaultInv, Owned, wish_context
      <3>4. Owned(TcpConnected(conn[s]))
        BY <3>2, <3>3 DEF TcpConnected, Owned, wish_context
      <3> QED BY <1>0, <3>1, <3>4, FaultsUpdated
    <2>2. CASE conn[s].ts # "CONNECTING"
      BY <1>4, <2>2, FaultsIdle DEF IoConnected
    <2> QED BY <2>1, <2>2
  <1>5. ASSUME NEW s \in Slots, connect_fail_cb(s) PROVE FaultInv'
    BY <1>0, <1>5, FaultsDisconnected DEF connect_fail_cb
  <1>6. CASE IoDone
    BY <1>6, FaultsIdle DEF IoDone
  <1> QED BY <1>1, <1>2, <1>3, <1>4, <1>5, <1>6 DEF IoPhase
\* The frames: of the slot at the cursor, and those that close others.  Only
\* here does a DHM context come and go.
LEMMA FaultsFrames == ASSUME BasicInv, FaultInv, FramePhase PROVE FaultInv'
  <1>0. TypeOK /\ ResolverOwner /\ \A t \in Slots : Framed(conn[t])
    BY BasicTypes DEF BasicInv, SlotsOK
  <1> SUFFICES ASSUME NEW s \in Slots,
                      \/ NoMoreFrames(s)
                      \/ RejectFrame(s)
                      \/ \E r \in Rels, b \in BOOLEAN : ServerHello(s, r, b)
                      \/ ServerHelloDhmError(s)
                      \/ Handshake(s)
                      \/ ServerNoPrivkey(s)
                      \/ \E h \in Hosts \cup {NoHost} : HandshakeDone(s, h)
                      \/ Message(s)
                      \/ FriendReqAccepted(s)
                      \/ FriendReqDeclined(s)
                      \/ \E r \in Rels : RemoteManagement(s, r)
                      \/ core_friend_req(s)
               PROVE FaultInv'
    BY DEF FramePhase
  <1>c. /\ conn[s] \in wish_context /\ Framed(conn[s])
        /\ Owned(conn[s])
    BY <1>0 DEF TypeOK, FaultInv
  <1>1. CASE NoMoreFrames(s) \/ Message(s)
    BY <1>1, FaultsIdle DEF NoMoreFrames, Message
  <1>2. CASE RejectFrame(s)
    BY <1>0, <1>2, FaultsClosed DEF RejectFrame
  <1>3. ASSUME NEW r \in Rels, NEW b \in BOOLEAN, ServerHello(s, r, b)
        PROVE FaultInv'
    <2> DEFINE d == [conn[s] EXCEPT !.rel = r, !.fr = b, !.dhm = "live",
                                    !.ts = "WAIT_FRAME_LEN", !.ps = "SERVER_DH"]
    <2>1. Owned(d)
      BY <1>c DEF Owned, wish_context
    <2>2. conn' = [conn EXCEPT ![s] = d] /\ fault' = fault
      BY <1>3 DEF ServerHello
    <2> HIDE DEF d
    <2> QED BY <1>0, <2>1, <2>2, FaultsUpdated
  <1>4. CASE ServerHelloDhmError(s)
    \* Nothing is claimed of a context that could not be set up but that it
    \* is not freed twice.
    <2>1. /\ AllocFails /\ conn' = [conn EXCEPT ![s] = FreeSlot]
          /\ fault' = fault \cup
                 TcpDisconnectedFaults([conn[s] EXCEPT !.dhm = "live"])
      BY <1>4 DEF ServerHelloDhmError
    <2>2. \A t \in Slots : Owned(conn[t])'
      BY <1>0, <2>1, FreeSlotOwned DEF FaultInv, Owned, TypeOK
    <2>3. "double_free" \notin
              TcpDisconnectedFaults([conn[s] EXCEPT !.dhm = "live"])
      BY <1>c DEF TcpDisconnectedFaults, wish_context
    <2> QED BY <2>1, <2>2, <2>3 DEF FaultInv, NoDoubleFree, Lasting
  <1>5. CASE Handshake(s)
    <2>1. PICK next \in ProtocolStates :
             /\ <<conn[s].ps, next>> \in HandshakeOrder
             /\ conn' = [conn EXCEPT ![s] = Advance(conn[s], next)]
      BY <1>5 DEF Handshake
    <2>2. Owned(Advance(conn[s], next))
      BY <1>c, <2>1 DEF Advance, Owned, wish_context, HandshakeOrder
    <2>3. fault' = fault
      BY <1>5 DEF Handshake
    <2> QED BY <1>0, <2>1, <2>2, <2>3, FaultsUpdated
  <1>6. CASE ServerNoPrivkey(s)
    <2>1. TcpDisconnectedFaults([conn[s] EXCEPT !.dhm = "null"]) = {}
      BY <1>c DEF TcpDisconnectedFaults, wish_context
    <2>2. conn' = [conn EXCEPT ![s] = FreeSlot] /\ fault' = fault
      BY <1>6, <2>1 DEF ServerNoPrivkey
    <2> QED BY <1>0, <2>2, FreeSlotOwned, FaultsUpdated
  <1>7. ASSUME NEW h \in Hosts \cup {NoHost}, HandshakeDone(s, h)
        PROVE FaultInv'
    <2>1. conn' = [conn EXCEPT ![s] = Finished(conn[s], h)] /\ fault' = fault
      BY <1>7 DEF HandshakeDone
    <2>2. conn[s].dhm # "live"
      BY <1>7, <1>c DEF HandshakeDone, Owned
    <2>3. Owned(Finished(conn[s], h))
      BY <1>c, <2>2 DEF Finished, Owned, wish_context
    <2> QED BY <1>0, <2>1, <2>3, FaultsUpdated
  <1>8. CASE FriendReqAccepted(s)
    BY <1>0, <1>8, FaultsClosed DEF FriendReqAccepted
  <1>9. CASE FriendReqDeclined(s)
    BY <1>0, <1>9, FaultsClosed DEF FriendReqDeclined
  <1>10. ASSUME NEW r \in Rels, RemoteManagement(s, r) PROVE FaultInv'
    BY <1>0, <1>10, FaultsManaged DEF RemoteManagement
  <1>11. CASE core_friend_req(s)
    BY <1>0, <1>11, FaultsClosed DEF core_friend_req
  <1> QED BY <1>1, <1>2, <1>3, <1>4, <1>5, <1>6, <1>7, <1>8, <1>9, <1>10, <1>11

\* A connection that comes in, and the events.
LEMMA FaultsAccept ==
    ASSUME BasicInv, FaultInv,
           Accept \/ AcceptNone \/ wish_message_processor_task \/ EventsDone
    PROVE  FaultInv'
  <1>0. TypeOK
    BY BasicTypes
  <1>1. CASE Accept
    <2>1. PICK s \in Slots, f \in FreeFds :
             conn' = [conn EXCEPT ![s] =
                [wish_connection_init(NoRel, FALSE, FALSE) EXCEPT
                    !.ts = "SERVER_WAIT_INITIAL", !.fd = f, !.net = "up"]]
      BY <1>1 DEF Accept
    <2> DEFINE d == [wish_connection_init(NoRel, FALSE, FALSE) EXCEPT
                        !.ts = "SERVER_WAIT_INITIAL", !.fd = f, !.net = "up"]
    <2>2. Owned(d)
      BY DEF Owned, wish_connection_init, FreeSlot
    <2>3. fault' = fault
      BY <1>1 DEF Accept
    <2> HIDE DEF d
    <2>4. conn' = [conn EXCEPT ![s] = d]
      BY <2>1 DEF d
    <2> QED BY <1>0, <2>2, <2>3, <2>4, FaultsUpdated
  <1>2. CASE AcceptNone \/ EventsDone
    BY <1>2, FaultsIdle DEF AcceptNone, EventsDone
  <1>3. CASE wish_message_processor_task
    <2> DEFINE s == Head(events)
               d == [conn[s] EXCEPT !.st = "CONNECTED"]
    <2>1. s \in Slots
      BY <1>0, <1>3 DEF wish_message_processor_task, TypeOK
    <2>2. conn[s] \in wish_context /\ Owned(conn[s])
      BY <1>0, <2>1 DEF TypeOK, FaultInv
    <2>3. Owned(d)
      BY <2>2 DEF Owned, wish_context
    <2>4. conn' = [conn EXCEPT ![s] = d] /\ fault' = fault
      BY <1>3 DEF wish_message_processor_task
    <2> HIDE DEF s, d
    <2> QED BY <1>0, <2>1, <2>3, <2>4, FaultsUpdated
  <1> QED BY <1>1, <1>2, <1>3

\* The timers.
LEMMA FaultsPeriodic == ASSUME BasicInv, FaultInv, PeriodicPhase PROVE FaultInv'
  <1>0. TypeOK
    BY BasicTypes
  <1>1. CASE NoTick \/ wish_connections_check \/ DialDone \/ TimersDone
    BY <1>1, FaultsIdle
       DEF NoTick, wish_connections_check, DialDone, TimersDone
  <1>2. ASSUME NEW r \in Rels, wish_connections_connect_transport(r)
        PROVE FaultInv'
    <2> DEFINE c == wish_connection_init(r, FALSE, FALSE)
    <2>1. c \in wish_context /\ c.dhm = "null" /\ c.fd = 0
      BY FreshOwned
    <2>2. \/ conn' = conn /\ fault' = fault
          \/ \E s \in Slots : \/ OpenByAddress(s, c)
                              \/ wish_open_connection_dns(s, c)
                              \/ NotOpened(s)
      BY <1>2 DEF wish_connections_connect_transport
    <2> HIDE DEF c
    <2> QED BY <1>0, <2>1, <2>2, FaultsIdle, FaultsOpened
  <1>3. ASSUME NEW D \in SUBSET Slots, check_connection_liveliness(D)
        PROVE FaultInv'
    BY <1>0, <1>3, FaultsClosed DEF check_connection_liveliness
  <1>4. CASE wish_close_parallel_connections
    <2>1. PICK D \in SUBSET Slots : wish_close_connection(D)
      BY <1>4 DEF wish_close_parallel_connections, ParallelTo
    <2> QED BY <1>0, <2>1, FaultsClosed
  <1> QED BY <1>1, <1>2, <1>3, <1>4 DEF PeriodicPhase

\* Every slot owns what it should, in every reachable state, whatever frames
\* come.
LEMMA FaultInvariant == Spec => []FaultInv
  <1>1. wish_connections_init => FaultInv
    BY DEF wish_connections_init, FaultInv, Owned, FreeSlot, NoDoubleFree,
           NoLeak, Lasting
  <1>2. BasicInv /\ FaultInv /\ [Next]_vars => FaultInv'
    <2> SUFFICES ASSUME BasicInv, FaultInv, [Next]_vars PROVE FaultInv'
      OBVIOUS
    <2>1. CASE Next
      BY <2>1, FaultsDns, FaultsSelect, FaultsPre, FaultsIo, FaultsFrames,
         FaultsAccept, FaultsPeriodic DEF Next
    <2>2. CASE UNCHANGED vars
      BY <2>2, FaultsIdle DEF vars
    <2> QED BY <2>1, <2>2
  <1> QED BY <1>1, <1>2, PoolBasics, PTL DEF Spec

\* No close releases a DHM context that the handshake has released, whatever
\* frames come and whatever fails.
THEOREM DoubleFreeSafety == Spec => []NoDoubleFree
  <1>1. FaultInv => NoDoubleFree
    BY DEF FaultInv
  <1> QED BY <1>1, FaultInvariant, PTL

\* As long as memory for DHM contexts lasts and no connect() fails at once,
\* every close, in whatever state it finds the connection, releases its
\* socket and its DHM context, whatever frames come.
THEOREM LeakSafety == Lasting => (Spec => []NoLeak)
  <1> SUFFICES ASSUME Lasting PROVE Spec => []NoLeak
    OBVIOUS
  <1>1. FaultInv => NoLeak
    BY DEF FaultInv
  <1> QED BY <1>1, FaultInvariant, PTL
-----------------------------------------------------------------------------
(* The fatal paths. *)

\* connect() is always in progress first, and wld.friendRequest is not used.
InProgress == ConnectResults \subseteq {"inprogress"} /\ WldHosts = {}

\* No two slots have the same descriptor.
FdInv == \A s, t \in Slots : (conn[s].fd # 0 /\ conn[s].fd = conn[t].fd) => s = t

\* The pass of this iteration has still to come to slot s.
Due(s) == \/ pc \in {"pre", "recheck"}
          \/ pc = "io" /\ s >= cursor
          \/ pc = "frames" /\ s > cursor

\* The phases in which no descriptor is flagged.
Quiet == {"dns", "select", "periodic", "dial", "live", "timers"}

\* What the pass will find writable is connecting, although descriptors that
\* select() flagged may have been closed and opened anew since.
WritableInv ==
    /\ pc \in Quiet => writable = {}
    /\ \A s \in Slots : Due(s) /\ Flagged(s, writable) => conn[s].ts = "CONNECTING"

HaltInv == NeverHalts /\ FdInv /\ WritableInv

\* The slots the pass has still to come to stay as they are, are cleared, or
\* begin to connect.
Harmless ==
    \A t \in Slots : Due(t)' => \/ conn'[t] = conn[t] /\ Due(t)
                                \/ conn'[t].st = "FREE"
                                \/ conn'[t].ts \in {"CONNECTING", "RESOLVING"}

\* A step that does no more keeps the invariant.
LEMMA HaltKept ==
    ASSUME HaltInv, NeverHalts', FdInv', Harmless, writable' \in {writable, {}},
           pc' \in Quiet => pc \in Quiet \/ writable' = {}
    PROVE  HaltInv'
  <1>1. ASSUME NEW s \in Slots, Due(s)', Flagged(s, writable)'
        PROVE conn'[s].ts = "CONNECTING"
    BY <1>1 DEF Harmless, HaltInv, WritableInv, Flagged, Watched, InUse
  <1>2. pc' \in Quiet => writable' = {}
    BY DEF HaltInv, WritableInv
  <1> QED BY <1>1, <1>2 DEF HaltInv, WritableInv

\* Descriptors stay apart when some are closed.
LEMMA FdsKept ==
    ASSUME FdInv, \A t \in Slots : conn'[t].fd \in {conn[t].fd, 0}
    PROVE  FdInv'
  BY DEF FdInv

\* So they do when an unused one is opened.
LEMMA FdsTaken ==
    ASSUME FdInv, NEW s \in Slots, NEW f \in FreeFds, conn'[s].fd = f,
           \A t \in Slots : t # s => conn'[t] = conn[t]
    PROVE  FdInv'
  BY DEF FdInv, FreeFds, Fds

\* No close is fatal.
LEMMA CloseNotFatal ==
    ASSUME NEW c
    PROVE  CloseFaults(c) \cap {"null_deref", "abort"} = {}
  BY DEF CloseFaults, TcpDisconnectedFaults

\* It leaves slots that are not in use.
LEMMA HaltClosed ==
    ASSUME HaltInv, NEW D \in SUBSET Slots, wish_close_connection(D)
    PROVE  /\ NeverHalts' /\ FdInv'
           /\ \A t \in Slots : conn'[t] = conn[t] \/ conn'[t].st = "FREE"
  <1>1. conn' = [s \in Slots |-> IF s \in D THEN FreeSlot ELSE conn[s]]
    BY DEF wish_close_connection
  <1>2. FreeSlot.fd = 0 /\ FreeSlot.st = "FREE"
    BY DEF FreeSlot
  <1>3. FdInv'
    BY <1>1, <1>2, FdsKept DEF HaltInv
  <1>4. (UNION {CloseFaults(conn[s]) : s \in D}) \cap {"null_deref", "abort"} = {}
    BY CloseNotFatal
  <1>5. NeverHalts'
    BY <1>4 DEF HaltInv, NeverHalts, wish_close_connection
  <1> QED BY <1>1, <1>2, <1>3, <1>5

\* A slot that keeps its descriptor or loses it.
LEMMA FdsLost ==
    ASSUME FdInv, NEW s \in Slots, conn'[s].fd \in {conn[s].fd, 0},
           \A t \in Slots : t # s => conn'[t] = conn[t]
    PROVE  FdInv'
  <1>1. \A t \in Slots : conn'[t].fd \in {conn[t].fd, 0}
    OBVIOUS
  <1> QED BY <1>1, FdsKept

\* The port's own close leaves a slot that is not in use.
LEMMA HaltDisconnected ==
    ASSUME TypeOK, HaltInv, NEW s \in Slots, TcpDisconnected(s)
    PROVE  /\ NeverHalts' /\ FdInv'
           /\ \A t \in Slots : conn'[t] = conn[t] \/ conn'[t].st = "FREE"
  <1>1. FreeSlot.fd = 0 /\ FreeSlot.st = "FREE"
    BY DEF FreeSlot
  <1>2. conn'[s] = FreeSlot /\ \A t \in Slots : t # s => conn'[t] = conn[t]
    BY DEF TcpDisconnected, TypeOK
  <1>3. NeverHalts'
    BY DEF HaltInv, NeverHalts, TcpDisconnected, TcpDisconnectedFaults
  <1>4. FdInv'
    BY <1>1, <1>2, FdsLost DEF HaltInv
  <1> QED BY <1>1, <1>2, <1>3, <1>4

\* A record that connect() is called for has a descriptor of its own.
LEMMA HaltConnecting ==
    ASSUME TypeOK, HaltInv, InProgress, NEW s \in Slots, NEW c \in wish_context,
           NEW f \in FreeFds, NEW result \in ConnectResults,
           conn' = [conn EXCEPT ![s] = wish_open_connection(c, f, result)]
    PROVE  /\ FdInv' /\ conn'[s].ts = "CONNECTING"
           /\ \A t \in Slots : t # s => conn'[t] = conn[t]
  <1>1. result = "inprogress"
    BY DEF InProgress
  <1>2. /\ wish_open_connection(c, f, result).fd = f
        /\ wish_open_connection(c, f, result).ts = "CONNECTING"
    BY <1>1 DEF wish_open_connection, wish_context
  <1>3. /\ conn'[s] = wish_open_connection(c, f, result)
        /\ \A t \in Slots : t # s => conn'[t] = conn[t]
    BY DEF TypeOK
  <1> QED BY <1>2, <1>3, FdsTaken DEF HaltInv

\* A vacant slot begins to connect or to resolve, or is released.
LEMMA HaltOpened ==
    ASSUME TypeOK, HaltInv, InProgress, NEW s \in Slots, NEW c \in wish_context,
           c.fd = 0,
           \/ OpenByAddress(s, c)
           \/ wish_open_connection_dns(s, c)
           \/ NotOpened(s)
    PROVE  /\ NeverHalts' /\ FdInv'
           /\ \A t \in Slots : \/ conn'[t] = conn[t]
                               \/ conn'[t].st = "FREE"
                               \/ conn'[t].ts \in {"CONNECTING", "RESOLVING"}
  <1>1. NeverHalts'
    BY DEF HaltInv, NeverHalts, OpenByAddress, wish_open_connection_dns,
           NotOpened
  <1>2. CASE OpenByAddress(s, c)
    <2>1. PICK f \in FreeFds, result \in ConnectResults :
             conn' = [conn EXCEPT ![s] = wish_open_connection(c, f, result)]
      BY <1>2 DEF OpenByAddress
    <2>2. /\ FdInv' /\ conn'[s].ts = "CONNECTING"
          /\ \A t \in Slots : t # s => conn'[t] = conn[t]
      BY <2>1, HaltConnecting
    <2> QED BY <1>1, <2>2
  <1>3. CASE conn' = [conn EXCEPT ![s] = [c EXCEPT !.ts = "RESOLVING"]]
    <2>1. /\ conn'[s].fd = 0 /\ conn'[s].ts = "RESOLVING"
          /\ \A t \in Slots : t # s => conn'[t] = conn[t]
      BY <1>3 DEF wish_context, TypeOK
    <2> QED BY <1>1, <2>1, FdsLost DEF HaltInv
  <1>4. CASE conn' = [conn EXCEPT ![s] = FreeSlot]
    <2>1. /\ conn'[s].fd = 0 /\ conn'[s].st = "FREE"
          /\ \A t \in Slots : t # s => conn'[t] = conn[t]
      BY <1>4 DEF FreeSlot, TypeOK
    <2> QED BY <1>1, <2>1, FdsLost DEF HaltInv
  <1> QED BY <1>2, <1>3, <1>4 DEF wish_open_connection_dns, NotOpened

\* The resolvers: their slots are IN_MAKING, so that none of them aborts.
LEMMA HaltDns ==
    ASSUME IInv, HaltInv, InProgress, DnsPhase
    PROVE  HaltInv'
  <1>0. TypeOK /\ PoolInv
    BY DEF IInv
  <1>1. ASSUME NEW s \in Slots, DnsResolved(s) PROVE HaltInv'
    <2>1. PICK f \in FreeFds, result \in ConnectResults :
             conn' = [conn EXCEPT ![s] = wish_open_connection(conn[s], f, result)]
      BY <1>1 DEF DnsResolved
    <2>2. conn[s] \in wish_context
      BY <1>0 DEF TypeOK
    <2>3. FdInv'
      BY <1>0, <2>1, <2>2, HaltConnecting
    <2>4. NeverHalts' /\ Harmless
      BY <1>1 DEF DnsResolved, HaltInv, NeverHalts, Harmless, Due
    <2> QED BY <1>1, <2>3, <2>4, HaltKept DEF DnsResolved, Quiet
  <1>2. ASSUME NEW s \in Slots, DnsNoAddress(s) PROVE HaltInv'
    <2>1. NeverHalts' /\ Harmless /\ FdInv'
      BY <1>2 DEF DnsNoAddress, HaltInv, NeverHalts, Harmless, Due, FdInv
    <2> QED BY <1>2, <2>1, HaltKept DEF DnsNoAddress, Quiet
  <1>3. ASSUME NEW s \in Slots, port_dns_resolver_signal_error(s) PROVE HaltInv'
    <2>1. conn[s].st = "IN_MAKING"
      BY <1>0, <1>3 DEF port_dns_resolver_signal_error, PoolInv, ResolverOwner
    <2>2. TcpDisconnected(s) /\ pc' = pc /\ pc = "dns" /\ writable' = writable
      BY <1>3, <2>1 DEF port_dns_resolver_signal_error
    <2>3. Harmless
      BY <2>2 DEF Harmless, Due
    <2> QED BY <1>0, <2>2, <2>3, HaltDisconnected, HaltKept DEF Quiet
  <1>4. CASE DnsDone
    <2>1. NeverHalts' /\ Harmless /\ FdInv'
      BY <1>4 DEF DnsDone, HaltInv, NeverHalts, Harmless, Due, FdInv
    <2> QED BY <1>4, <2>1, HaltKept DEF DnsDone, Quiet
  <1> QED BY <1>1, <1>2, <1>3, <1>4 DEF DnsPhase

\* Every slot that is watched has a descriptor; those that are flagged as
\* writable are connecting, and their descriptors are theirs alone.
LEMMA HaltSelect ==
    ASSUME IInv, HaltInv, SelectNull \/ Select
    PROVE  HaltInv'
  <1>0. TypeOK /\ PoolInv
    BY DEF IInv
  <1>1. ~SelectNull
    BY <1>0 DEF SelectNull, PoolInv, SlotInv, Watched, InUse
  <1>2. /\ Select /\ pc' = "pre" /\ fault' = fault
        /\ \A s \in Watched : conn[s].fd # 0
    BY <1>1 DEF Select
  <1>3. ASSUME NEW s \in Slots
        PROVE /\ conn'[s].st = conn[s].st /\ conn'[s].ts = conn[s].ts
              /\ conn'[s].fd = conn[s].fd
    <2>1. conn[s] \in wish_context
      BY <1>0 DEF TypeOK
    <2>2. \/ conn'[s] = conn[s]
          \/ \E n \in {"up", "failed"} : conn'[s] = [conn[s] EXCEPT !.net = n]
      BY <1>2 DEF Select
    <2> QED BY <2>1, <2>2 DEF wish_context
  <1>4. \A f \in writable' : \E s \in Connecting : conn[s].fd = f
    BY <1>2 DEF Select
  <1>5. FdInv'
    BY <1>3 DEF HaltInv, FdInv
  <1>6. ASSUME NEW s \in Slots, Flagged(s, writable)'
        PROVE conn'[s].ts = "CONNECTING"
    <2>1. s \in Watched /\ conn[s].fd \in writable'
      BY <1>3, <1>6 DEF Flagged, Watched, InUse
    <2>2. PICK t \in Connecting : conn[t].fd = conn[s].fd
      BY <1>4, <2>1
    <2>3. t = s
      BY <1>2, <2>1, <2>2 DEF Connecting, Watched, HaltInv, FdInv
    <2> QED BY <1>3, <2>2, <2>3 DEF Connecting
  <1> QED BY <1>2, <1>5, <1>6 DEF HaltInv, NeverHalts, WritableInv, Quiet

\* A step that lets no slot become due and changes those it touches to slots
\* that are not in use, or that connect or resolve.
LEMMA HaltStep ==
    ASSUME HaltInv, NeverHalts', FdInv', writable' = writable,
           \A t \in Slots : Due(t)' => Due(t),
           pc' \in Quiet => pc \in Quiet,
           \A t \in Slots : \/ conn'[t] = conn[t]
                            \/ conn'[t].st = "FREE"
                            \/ conn'[t].ts \in {"CONNECTING", "RESOLVING"}
    PROVE  HaltInv'
  <1>1. Harmless
    BY DEF Harmless
  <1> QED BY <1>1, HaltKept

\* A step that touches no slot.
LEMMA HaltIdle ==
    ASSUME HaltInv, conn' = conn, fault' = fault, writable' = writable,
           \A t \in Slots : Due(t)' => Due(t),
           pc' \in Quiet => pc \in Quiet
    PROVE  HaltInv'
  <1>1. NeverHalts' /\ FdInv'
    BY DEF HaltInv, NeverHalts, FdInv
  <1> QED BY <1>1, HaltStep

\* What an owner of identities does closes connections.
LEMMA HaltManaged ==
    ASSUME HaltInv, NEW r \in Rels, Management(r)
    PROVE  /\ NeverHalts' /\ FdInv'
           /\ \A t \in Slots : conn'[t] = conn[t] \/ conn'[t].st = "FREE"
  <1>1. \E D \in SUBSET Slots : wish_close_connection(D)
    <2>1. FirstOf(r) \in SUBSET Slots /\ {} \in SUBSET Slots
      BY DEF FirstOf
    <2>2. {s \in Slots : InUse(s) /\ conn[s].rel = r} \in SUBSET Slots
      OBVIOUS
    <2> QED BY <2>1, <2>2
            DEF Management, wish_identity_remove,
                wish_api_identity_friend_request_accept,
                wish_api_identity_friend_request_decline
  <1> QED BY <1>1, HaltClosed

\* The handlers: the pass has still to come to every slot, and what they open
\* is connecting or has no socket yet.
LEMMA HaltPre ==
    ASSUME IInv, HaltInv, InProgress, PrePhase
    PROVE  HaltInv'
  <1>0. TypeOK
    BY DEF IInv
  <1> DEFINE Same == /\ pc = "pre" /\ pc' = "pre" /\ writable' = writable
                     /\ (\A t \in Slots : Due(t)' => Due(t))
  <1>s. ASSUME Handler, pc' = pc PROVE Same
    BY <1>s DEF Handler, Due
  <1>p. "pre" \notin Quiet
    BY DEF Quiet
  <1> HIDE DEF Same
  <1>o. ASSUME Same, NEW s \in Slots, NEW c \in wish_context, c.fd = 0,
               \/ OpenByAddress(s, c)
               \/ wish_open_connection_dns(s, c)
               \/ NotOpened(s)
        PROVE HaltInv'
    <2>1. /\ NeverHalts' /\ FdInv'
          /\ \A t \in Slots : \/ conn'[t] = conn[t]
                              \/ conn'[t].st = "FREE"
                              \/ conn'[t].ts \in {"CONNECTING", "RESOLVING"}
      BY <1>0, <1>o, HaltOpened
    <2> QED BY <1>o, <1>p, <2>1, HaltStep DEF Same
  <1>d. ASSUME Same, NEW D \in SUBSET Slots, wish_close_connection(D)
        PROVE HaltInv'
    BY <1>d, <1>p, HaltClosed, HaltStep DEF Same
  <1>1. ASSUME NEW r \in Rels, NEW h \in Hosts, wish_ldiscover_feed(r, h)
        PROVE HaltInv'
    <2>1. PICK s \in Slots : OpenByAddress(s, wish_connection_init(r, FALSE, FALSE))
      BY <1>1 DEF wish_ldiscover_feed
    <2>2. Same
      BY <1>1, <1>s DEF wish_ldiscover_feed
    <2> QED BY <2>1, <2>2, <1>o, FreshOwned
  <1>2. ASSUME NEW r \in Rels, wish_api_identity_friend_request(r)
        PROVE HaltInv'
    <2> DEFINE c == wish_connection_init(r, TRUE, FALSE)
    <2>1. c \in wish_context /\ c.fd = 0
      BY FreshOwned
    <2>2. PICK s \in Slots : \/ OpenByAddress(s, c)
                             \/ wish_open_connection_dns(s, c)
                             \/ NotOpened(s)
      BY <1>2 DEF wish_api_identity_friend_request
    <2>3. Same
      BY <1>2, <1>s DEF wish_api_identity_friend_request
    <2> HIDE DEF c
    <2> QED BY <2>1, <2>2, <2>3, <1>o
  <1>3. ASSUME NEW r \in Rels, LocalManagement(r) PROVE HaltInv'
    <2>1. Same
      BY <1>3, <1>s DEF LocalManagement
    <2> QED BY <1>3, <2>1, <1>p, HaltManaged, HaltStep DEF LocalManagement, Same
  <1>4. CASE wish_api_connections_check_connections
    <2>1. /\ conn' = conn /\ fault' = fault /\ writable' = writable
          /\ pc = "pre" /\ pc' = "recheck"
      BY <1>4 DEF wish_api_connections_check_connections, Handler
    <2> QED BY <2>1, HaltIdle DEF Due, Quiet
  <1>5. ASSUME NEW s \in Slots, wish_api_connections_disconnect(s)
        PROVE HaltInv'
    BY <1>5, <1>s, <1>d DEF wish_api_connections_disconnect
  <1>6. CASE RelaySession
    <2> DEFINE c == wish_connection_init(NoRel, FALSE, TRUE)
    <2>1. c \in wish_context /\ c.fd = 0
      BY FreshOwned
    <2>2. PICK s \in Slots : OpenByAddress(s, c) \/ wish_open_connection_dns(s, c)
      BY <1>6 DEF RelaySession
    <2>3. Same
      BY <1>6, <1>s DEF RelaySession
    <2> HIDE DEF c
    <2> QED BY <2>1, <2>2, <2>3, <1>o
  <1>7. CASE wish_connections_close_all
    <2>1. Same
      BY <1>7, <1>s DEF wish_connections_close_all
    <2>2. PICK D \in SUBSET Slots : wish_close_connection(D)
      BY <1>7 DEF wish_connections_close_all
    <2> QED BY <2>1, <2>2, <1>d
  <1>8. CASE HandlersDone
    <2>1. /\ conn' = conn /\ fault' = fault /\ writable' = writable
          /\ pc = "pre" /\ pc' = "io"
      BY <1>8 DEF HandlersDone
    <2> QED BY <2>1, HaltIdle DEF Due, Quiet
  <1>9. WldHosts = {}
    BY DEF InProgress
  <1> QED BY <1>1, <1>2, <1>3, <1>4, <1>5, <1>6, <1>7, <1>8, <1>9 DEF PrePhase

\* The pass over the sockets: a slot that is found writable is CONNECTING, so
\* that it does not abort, and is then behind the cursor.
LEMMA HaltIo == ASSUME IInv, HaltInv, IoPhase PROVE HaltInv'
  <1>0. TypeOK
    BY DEF IInv
  <1>c. cursor \in Int /\ Slots \subseteq Int
    BY <1>0 DEF TypeOK, Slots
  <1>n. ASSUME pc = "io", pc' = "io", cursor' = cursor + 1
        PROVE /\ \A t \in Slots : Due(t)' => Due(t) /\ t # cursor
              /\ pc' \notin Quiet
    BY <1>n, <1>c DEF Due, Quiet
  <1>t. ASSUME NEW s \in Slots, TcpDisconnected(s), pc = "io", NextSlot,
               writable' = writable
        PROVE HaltInv'
    BY <1>t, <1>0, <1>n, HaltDisconnected, HaltStep DEF NextSlot
  <1>1. ASSUME NEW s \in Slots, IoNothing(s) PROVE HaltInv'
    BY <1>1, <1>n, HaltIdle DEF IoNothing, AtSlot, NextSlot
  <1>2. ASSUME NEW s \in Slots, wish_core_feed(s) PROVE HaltInv'
    <2>1. /\ \A t \in Slots : Due(t)' => Due(t)
          /\ pc' \notin Quiet
      BY <1>2, <1>c DEF wish_core_feed, AtSlot, Due, Quiet
    <2> QED BY <1>2, <2>1, HaltIdle DEF wish_core_feed
  <1>3. ASSUME NEW s \in Slots, IoEof(s) \/ connect_fail_cb(s) PROVE HaltInv'
    BY <1>3, <1>t DEF IoEof, connect_fail_cb, AtSlot
  <1>4. ASSUME NEW s \in Slots, IoConnected(s) PROVE HaltInv'
    <2>1. pc = "io" /\ cursor = s /\ Flagged(s, writable)
      BY <1>4 DEF IoConnected, AtSlot
    <2>2. conn[s].ts = "CONNECTING"
      BY <2>1, <1>c DEF HaltInv, WritableInv, Due
    <2>3. /\ conn' = [conn EXCEPT ![s] = TcpConnected(conn[s])]
          /\ fault' = fault /\ writable' = writable /\ NextSlot
      BY <1>4, <2>2 DEF IoConnected
    <2>4. conn[s] \in wish_context
      BY <1>0 DEF TypeOK
    <2>5. TcpConnected(conn[s]).fd = conn[s].fd
      BY <2>4 DEF TcpConnected, wish_context
    <2>6. /\ conn'[s].fd = conn[s].fd
          /\ \A t \in Slots : t # s => conn'[t] = conn[t]
      BY <1>0, <2>3, <2>5 DEF TypeOK
    <2>7. FdInv' /\ NeverHalts'
      BY <2>3, <2>6, FdsLost DEF HaltInv, NeverHalts
    <2>8. Harmless
      BY <1>n, <2>1, <2>3, <2>6 DEF Harmless, NextSlot
    <2> QED BY <1>n, <2>1, <2>3, <2>7, <2>8, HaltKept DEF NextSlot
  <1>5. CASE IoDone
    <2>1. /\ \A t \in Slots : ~Due(t)'
          /\ pc' \notin Quiet
      BY <1>5 DEF IoDone, Due, Quiet
    <2> QED BY <1>5, <2>1, HaltIdle DEF IoDone
  <1> QED BY <1>1, <1>2, <1>3, <1>4, <1>5 DEF IoPhase

\* The descriptor of a slot with record c is kept or lost.
Keeps(c, d) == d.fd \in {c.fd, 0}

\* A frame that puts such a d into the slot it came to.
LEMMA HaltReplaced ==
    ASSUME TypeOK, HaltInv, NEW s \in Slots, NEW d, Keeps(conn[s], d),
           conn' = [conn EXCEPT ![s] = d],
           fault' = fault \/ \E c : fault' = fault \cup TcpDisconnectedFaults(c)
    PROVE  /\ NeverHalts' /\ FdInv'
           /\ \A t \in Slots : t # s => conn'[t] = conn[t]
  <1>1. conn'[s] = d /\ \A t \in Slots : t # s => conn'[t] = conn[t]
    BY DEF TypeOK
  <1>2. conn'[s].fd \in {conn[s].fd, 0}
    BY <1>1 DEF Keeps
  <1>3. FdInv'
    BY <1>1, <1>2, FdsLost DEF HaltInv
  <1>4. NeverHalts'
    BY DEF HaltInv, NeverHalts, TcpDisconnectedFaults
  <1> QED BY <1>1, <1>3, <1>4

\* The frames change the slot at the cursor, to which the pass does not come
\* back, and close others.
LEMMA HaltFrames == ASSUME IInv, HaltInv, FramePhase PROVE HaltInv'
  <1>0. TypeOK
    BY DEF IInv
  <1>c. cursor \in Int /\ Slots \subseteq Int
    BY <1>0 DEF TypeOK, Slots
  <1> SUFFICES ASSUME NEW s \in Slots,
                      \/ NoMoreFrames(s)
                      \/ RejectFrame(s)
                      \/ \E r \in Rels, b \in BOOLEAN : ServerHello(s, r, b)
                      \/ ServerHelloDhmError(s)
                      \/ Handshake(s)
                      \/ ServerNoPrivkey(s)
                      \/ \E h \in Hosts \cup {NoHost} : HandshakeDone(s, h)
                      \/ Message(s)
                      \/ FriendReqAccepted(s)
                      \/ FriendReqDeclined(s)
                      \/ \E r \in Rels : RemoteManagement(s, r)
                      \/ core_friend_req(s)
               PROVE HaltInv'
    BY DEF FramePhase
  <1>1. Processing(s) /\ writable' = writable /\ (MoreOrNext \/ NextSlot)
    BY DEF NoMoreFrames, RejectFrame, ServerHello, ServerHelloDhmError,
           Handshake, ServerNoPrivkey, HandshakeDone, Message,
           FriendReqAccepted, FriendReqDeclined, RemoteManagement,
           core_friend_req, FrameUnchanged
  <1>2. /\ \A t \in Slots : Due(t)' => Due(t) /\ t # s
        /\ pc' \notin Quiet
    BY <1>1, <1>c DEF Processing, MoreOrNext, NextSlot, Due, Quiet
  <1>k. conn[s] \in wish_context
    BY <1>0 DEF TypeOK
  <1>f. FreeSlot.fd = 0
    BY DEF FreeSlot
  <1>q. SUFFICES /\ NeverHalts' /\ FdInv'
                 /\ \A t \in Slots : \/ t = s
                                     \/ conn'[t] = conn[t]
                                     \/ conn'[t].st = "FREE"
    <2>1. Harmless
      BY <1>2, <1>q DEF Harmless
    <2> QED BY <1>1, <1>2, <1>q, <2>1, HaltKept
  <1>3. CASE NoMoreFrames(s) \/ Message(s)
    <2>1. conn' = conn /\ fault' = fault
      BY <1>3 DEF NoMoreFrames, Message
    <2> QED BY <2>1 DEF HaltInv, NeverHalts, FdInv
  <1>4. CASE \E r \in Rels, b \in BOOLEAN : ServerHello(s, r, b)
    <2>1. PICK r \in Rels, b \in BOOLEAN : ServerHello(s, r, b)
      BY <1>4
    <2> DEFINE d == [conn[s] EXCEPT !.rel = r, !.fr = b, !.dhm = "live",
                                    !.ts = "WAIT_FRAME_LEN", !.ps = "SERVER_DH"]
    <2>2. conn' = [conn EXCEPT ![s] = d] /\ fault' = fault
      BY <2>1 DEF ServerHello
    <2>3. Keeps(conn[s], d)
      BY <1>k DEF Keeps, wish_context
    <2> HIDE DEF d
    <2> QED BY <1>0, <2>2, <2>3, HaltReplaced
  <1>5. CASE ServerHelloDhmError(s) \/ ServerNoPrivkey(s)
    <2> DEFINE d == FreeSlot
    <2>1. conn' = [conn EXCEPT ![s] = d]
      BY <1>5 DEF ServerHelloDhmError, ServerNoPrivkey
    <2>2. Keeps(conn[s], d)
      BY <1>f DEF Keeps
    <2>3. \E c : fault' = fault \cup TcpDisconnectedFaults(c)
      BY <1>5 DEF ServerHelloDhmError, ServerNoPrivkey
    <2> HIDE DEF d
    <2> QED BY <1>0, <2>1, <2>2, <2>3, HaltReplaced
  <1>6. CASE Handshake(s)
    <2>1. PICK next \in ProtocolStates :
             conn' = [conn EXCEPT ![s] = Advance(conn[s], next)]
      BY <1>6 DEF Handshake
    <2> DEFINE d == Advance(conn[s], next)
    <2>2. conn' = [conn EXCEPT ![s] = d] /\ fault' = fault
      BY <1>6, <2>1 DEF Handshake
    <2>3. Keeps(conn[s], d)
      BY <1>k DEF Keeps, Advance, wish_context
    <2> HIDE DEF d
    <2> QED BY <1>0, <2>2, <2>3, HaltReplaced
  <1>7. CASE \E h \in Hosts \cup {NoHost} : HandshakeDone(s, h)
    <2>1. PICK h \in Hosts \cup {NoHost} : HandshakeDone(s, h)
      BY <1>7
    <2> DEFINE d == Finished(conn[s], h)
    <2>2. conn' = [conn EXCEPT ![s] = d] /\ fault' = fault
      BY <2>1 DEF HandshakeDone
    <2>3. Keeps(conn[s], d)
      BY <1>k DEF Keeps, Finished, wish_context
    <2> HIDE DEF d
    <2> QED BY <1>0, <2>2, <2>3, HaltReplaced
  <1>8. CASE \/ RejectFrame(s) \/ FriendReqAccepted(s)
             \/ FriendReqDeclined(s) \/ core_friend_req(s)
    <2>1. PICK D \in SUBSET Slots : wish_close_connection(D)
      BY <1>8 DEF RejectFrame, FriendReqAccepted, FriendReqDeclined,
                  core_friend_req
    <2> QED BY <2>1, HaltClosed
  <1>9. CASE \E r \in Rels : RemoteManagement(s, r)
    BY <1>9, HaltManaged DEF RemoteManagement
  <1> QED BY <1>3, <1>4, <1>5, <1>6, <1>7, <1>8, <1>9

\* A connection that comes in has a descriptor of its own; with the events
\* the loop forgets what select() has flagged.
LEMMA HaltAccept ==
    ASSUME IInv, HaltInv,
           Accept \/ AcceptNone \/ wish_message_processor_task \/ EventsDone
    PROVE  HaltInv'
  <1>0. TypeOK
    BY DEF IInv
  <1>1. /\ pc \in {"accept", "events"} /\ pc' \in {"events", "periodic"} \cup {pc}
        /\ writable' \in {writable, {}} /\ (pc' = "periodic" => writable' = {})
    BY DEF Accept, AcceptNone, wish_message_processor_task, EventsDone
  <1>2. pc' \in Quiet => writable' = {}
    BY <1>1 DEF Quiet
  <1>3. Harmless
    BY <1>1 DEF Harmless, Due
  <1>q. SUFFICES NeverHalts' /\ FdInv'
    BY <1>1, <1>2, <1>3, <1>q, HaltKept
  <1>4. fault' = fault
    BY DEF Accept, AcceptNone, wish_message_processor_task, EventsDone
  <1>5. FdInv'
    <2>1. CASE Accept
      <3> DEFINE d(f) == [wish_connection_init(NoRel, FALSE, FALSE) EXCEPT
                             !.ts = "SERVER_WAIT_INITIAL", !.fd = f, !.net = "up"]
      <3>1. PICK s \in Slots, f \in FreeFds : conn' = [conn EXCEPT ![s] = d(f)]
        BY <2>1 DEF Accept
      <3>2. d(f).fd = f
        BY DEF wish_connection_init, FreeSlot
      <3> HIDE DEF d
      <3>3. conn'[s] = d(f) /\ \A t \in Slots : t # s => conn'[t] = conn[t]
        BY <1>0, <3>1 DEF TypeOK
      <3>4. conn'[s].fd = f
        BY <3>2, <3>3
      <3> QED BY <3>3, <3>4, FdsTaken DEF HaltInv
    <2>2. CASE AcceptNone \/ EventsDone
      BY <2>2 DEF AcceptNone, EventsDone, HaltInv, FdInv
    <2>3. CASE wish_message_processor_task
      <3> DEFINE s == Head(events)
                 d == [conn[s] EXCEPT !.st = "CONNECTED"]
      <3>1. s \in Slots
        BY <1>0, <2>3 DEF wish_message_processor_task, TypeOK
      <3>2. d.fd = conn[s].fd
        BY <1>0, <3>1 DEF TypeOK, wish_context
      <3>4. Keeps(conn[s], d)
        BY <3>2 DEF Keeps
      <3>3. conn' = [conn EXCEPT ![s] = d]
        BY <2>3 DEF wish_message_processor_task
      <3> HIDE DEF s, d
      <3> QED BY <1>0, <1>4, <3>1, <3>3, <3>4, HaltReplaced
    <2> QED BY <2>1, <2>2, <2>3
  <1> QED BY <1>4, <1>5 DEF HaltInv, NeverHalts

\* The timers: nothing is flagged, or, when a handler has asked for the check
\* of the contacts, the pass has still to come to every slot.
LEMMA HaltPeriodic ==
    ASSUME IInv, HaltInv, InProgress, PeriodicPhase
    PROVE  HaltInv'
  <1>0. TypeOK
    BY DEF IInv
  <1>1. /\ pc \in {"periodic", "dial", "recheck", "live", "timers"}
        /\ IF pc = "recheck" THEN pc' \in {"recheck", "pre"}
             ELSE pc' \in {"dns", "dial", "live", "timers"} \cup {pc}
        /\ writable' = writable
    BY DEF PeriodicPhase, NoTick, wish_connections_check,
           wish_connections_connect_transport, DialDone,
           check_connection_liveliness, wish_close_parallel_connections,
           TimersDone
  <1>2. (\A t \in Slots : Due(t)' => Due(t)) /\ (pc' \in Quiet => pc \in Quiet)
    BY <1>1 DEF Due, Quiet
  <1>3. CASE NoTick \/ wish_connections_check \/ DialDone \/ TimersDone
    <2>1. conn' = conn /\ fault' = fault
      BY <1>3 DEF NoTick, wish_connections_check, DialDone, TimersDone
    <2> QED BY <1>1, <1>2, <2>1, HaltIdle
  <1>4. ASSUME NEW r \in Rels, wish_connections_connect_transport(r)
        PROVE HaltInv'
    <2> DEFINE c == wish_connection_init(r, FALSE, FALSE)
    <2>1. c \in wish_context /\ c.fd = 0
      BY FreshOwned
    <2>2. \/ conn' = conn /\ fault' = fault
          \/ \E s \in Slots : \/ OpenByAddress(s, c)
                              \/ wish_open_connection_dns(s, c)
                              \/ NotOpened(s)
      BY <1>4 DEF wish_connections_connect_transport
    <2> HIDE DEF c
    <2>3. CASE conn' = conn /\ fault' = fault
      BY <1>1, <1>2, <2>3, HaltIdle
    <2>4. ASSUME NEW s \in Slots, \/ OpenByAddress(s, c)
                                  \/ wish_open_connection_dns(s, c)
                                  \/ NotOpened(s)
          PROVE HaltInv'
      BY <1>0, <1>1, <1>2, <2>1, <2>4, HaltOpened, HaltStep
    <2> QED BY <2>2, <2>3, <2>4
  <1>5. ASSUME NEW D \in SUBSET Slots, check_connection_liveliness(D)
        PROVE HaltInv'
    BY <1>1, <1>2, <1>5, HaltClosed, HaltStep DEF check_connection_liveliness
  <1>6. CASE wish_close_parallel_connections
    <2>1. PICK D \in SUBSET Slots : wish_close_connection(D)
      BY <1>6 DEF wish_close_parallel_connections, ParallelTo
    <2> QED BY <1>1, <1>2, <2>1, HaltClosed, HaltStep
  <1> QED BY <1>3, <1>4, <1>5, <1>6 DEF PeriodicPhase

\* The invariant holds in every reachable state.
LEMMA HaltInvariant ==
    EarlyCloses = {} /\ InProgress => (Spec => []HaltInv)
  <1> SUFFICES ASSUME EarlyCloses = {}, InProgress PROVE Spec => []HaltInv
    OBVIOUS
  <1>1. wish_connections_init => HaltInv
    BY DEF wish_connections_init, HaltInv, FdInv, WritableInv, Flagged, Due,
           FreeSlot, NeverHalts
  <1>2. IInv /\ HaltInv /\ [Next]_vars => HaltInv'
    <2> SUFFICES ASSUME IInv, HaltInv, [Next]_vars PROVE HaltInv'
      OBVIOUS
    <2>1. CASE Next
      BY <2>1, HaltDns, HaltSelect, HaltPre, HaltIo, HaltFrames, HaltAccept,
         HaltPeriodic DEF Next
    <2>2. CASE UNCHANGED vars
      <3>1. \A t \in Slots : Due(t)' => Due(t)
        BY <2>2 DEF vars, Due
      <3> QED BY <2>2, <3>1, HaltIdle DEF vars
    <2> QED BY <2>1, <2>2
  <1>3. TypeOK /\ PoolInv => IInv
    BY DEF IInv
  <1> QED BY <1>1, <1>2, <1>3, PoolSafety, PTL DEF Spec

\* As long as the invariant of the pool holds, no connect() ends at once and
\* wld.friendRequest is not used, the main loop does not dereference a NULL
\* send_arg and does not abort(): neither in the resolver nor on a writable
\* socket, although the pass acts on what select() flagged before the handlers
\* ran and descriptors have been closed and opened anew since.
THEOREM HaltSafety == EarlyCloses = {} /\ InProgress => (Spec => []NeverHalts)
  <1> SUFFICES ASSUME EarlyCloses = {}, InProgress PROVE Spec => []NeverHalts
    OBVIOUS
  <1>1. HaltInv => NeverHalts
    BY DEF HaltInv
  <1> QED BY <1>1, HaltInvariant, PTL
=============================================================================
