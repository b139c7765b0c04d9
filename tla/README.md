# A TLA+ model of the Wish core (wish-c99)

The Wish core keeps encrypted connections between *identities* on different
hosts and carries RPC messages over them. One process, the core, runs a
single-threaded `select()` loop (`src/port/unix/app.c`); everything it knows
is in one `wish_core_t`. This directory models the parts of it that carry
state from one iteration of that loop to another, checks them with TLC, and
proves the main invariants with TLAPS.

Contents: [inventory](#inventory) · [modules](#modules-and-the-code) ·
[runs](#the-runs) · [bounds](#bounds) · [fairness](#fairness) ·
[proofs](#the-proofs) · [observations](#observations-without-a-run) · [not
modelled](#not-modelled) · [plan](#plan)

## Inventory

| Part | State | Operations | Interacts with |
|---|---|---|---|
| Connection pool (`wish_connection.c`, `wish_connection_mgr.c`, `app.c`) | `connection_pool[]`: context, transport and protocol state, identities, host id, socket, DHM context | open by address, open by name, accept, feed, process frames, close, dial all contacts | everything else |
| Event queue (`event.c`, `wish_event.c`) | queue of `NEW_CORE_CONNECTION` events, each naming a slot | enqueue at the end of a handshake, drain after the I/O pass | pool, timers |
| Core clock and timers (`wish_time.c`) | `core_time`, single-shot timers naming a slot | tick, liveliness check, parallel-connection check | pool |
| DNS resolvers (`port_dns.c`) | `resolver_list`, each entry naming a slot or a relay | start, poll, answer, error, cancel | pool, relay client |
| Message channel (`wish_connection.c`) | nonces, receive ring buffer, frame reader state | send a message, read, frame, decrypt | ring buffer |
| Ring buffer (`rb.c`) | `rb_start`, `rb_end`, `rb_data_len`, the array | write, read, skip, peek | channel, relay client |
| Relay client (`wish_relay_client.c`, `relay_client.c`, `wish_api_relay.c`) | per relay: state, socket, `last_input_timestamp`, receive buffer | open, close, feed, periodic, `relay.add`, `relay.remove` | pool (a session announced by the server is dialled), DNS |
| Handshake (`wish_connection.c`) | protocol state, DHM context, host id | hello, DH, hashes, handshake messages | pool |
| Friend requests (`wish_core_rpc.c`, `wish_api_identity.c`) | `relationship_req_db`, flags of a contact | request, receive, accept, decline, and the answers on the requester's side | pool, identity database |
| Identity database (`wish_identity.c`, `wish_fs.c`) | file of BSON records, private keys | save, update (write new file, remove, rename), remove | pool, relay client |
| Local discovery (`wish_local_discovery.c`) | table of hosts seen | feed, advertise, clean up | pool, friend requests |
| Core RPC and peers (`wish_core_rpc.c`, `wish_dispatcher.c`) | RPC contexts per connection, open `peers` requests, `connection->apps` | `peers` with its answers and broadcasts, `send`, `friendRequest`, management by an owner | pool, services |
| Services (`wish_service_registry.c`, `app_server.c`, `service_ipc.c`, `wish_core_app_rpc.c`) | slots of the application server, logins, registry entries, open requests | accept, login, ready, request, go away; online and offline signals | core RPC |
| Access control, configuration, BSON | little or none | | |

What makes each part correct, in a sentence:

* Pool: a slot's three state fields, socket, resolver and events belong to the
  same connection at every step; nothing is leaked, freed twice or used after
  it was cleared; only contacts are connected outside friend requests.
* Channel: what is delivered is a prefix of what was sent, and no nonce
  repeats.
* Ring buffer: it is a bounded queue.
* Relay client: the state says what exists, and a relay that failed comes
  back.
* Clock: a silent connection is pinged once and closed in time, a live one is
  not.
* Friend requests: nobody is confirmed who has not agreed, no request is
  forgotten, and what both have agreed to is confirmed in the end.
* Identity database: it is the list of identities, whatever crashes.
* Services and peers: a service knows those of its protocol that are online,
  all of them and no others.

What is hard to test here:

* **Slots are named by pointer and reused.** A queued event, a timer, a
  resolver and a `uid` argument all point into the pool. Between the moment
  the pointer is stored and the moment it is used the connection may be closed
  and the slot may belong to another one.
* **The state at a close is open.** A connection may be closed while it is
  resolving, connecting, in any of nine protocol states, or with its event
  queued, by the user, the peer, a timeout, a removed identity or a parallel
  connection; each close has to release exactly what that state owns.
* **The flags of `select()` are used late.** Handlers run between `select()`
  and the pass over the sockets; they close and open descriptors.
* **A rewrite of the identity database may be interrupted** between any two
  system calls, and what it leaves behind meets the next one.
* **Two cores never see the same state.** A friend request, its answer and the
  connection they use are stored at both ends and change in any order; a
  signal that a service is online crosses one that it has gone, or the
  connection goes while either is under way.
* **Every system call may fail half way**: short writes, an immediate
  `connect()` error, no memory for the DHM context, a name without an address.
* **Boundaries**: the carry of the 64-bit nonce, a ring buffer exactly full, a
  frame larger than the buffer, `>` against `<=` on time stamps that are
  equal.
* **Progress**: a relay that has failed has to come back; a silent connection
  has to be detected; a complete frame has to be handled without further
  input.

The correctness properties per part are listed with the [runs](#the-runs); the
places where each hazard bites, with file and line, are in `PROJECT.json`.

## Modules and the code

### ConnectionPool

The pool, the event queue, the timers and the resolvers, driven by the main
loop. `conn[s]` is slot `s` of `connection_pool`: `st` is `context_state`,
`ts` `curr_transport_state` (with `WAIT_PAYLOAD` folded into
`WAIT_FRAME_LEN`), `ps` `curr_protocol_state`, `rel` the pair (luid, ruid),
`host` the rhid, `fd` the descriptor behind `send_arg` (0 for NULL), `net`
what the kernel knows of that socket, `dhm` the `server_dhm_ctx` pointer. The
program counter `pc` names the phase of the loop:

    dns -> select -> pre -> io (<-> frames) -> accept -> events
        -> periodic (-> dial -> live -> timers) -> dns

| Phase | Actions | Code |
|---|---|---|
| dns | `DnsResolved`, `DnsNoAddress`, `port_dns_resolver_signal_error` | `port_dns_poll_resolvers` |
| select | `Select`, `SelectNull` | the fd sets of `main` |
| pre | `wish_ldiscover_feed`, `wish_api_identity_friend_request`, `wish_api_wld_friend_request`, `LocalManagement` (identity removal, accepting and declining friend requests), `wish_api_connections_disconnect`, `wish_api_connections_check_connections`, `wish_connections_close_all`, `RelaySession` | local discovery, relay and application handlers |
| io | `IoConnected`, `connect_fail_cb`, `wish_core_feed`, `IoEof` | the pass over the pool |
| frames | `ServerHello`, `Handshake`, `HandshakeDone`, `RejectFrame`, `Message`, `core_friend_req`, `FriendReqAccepted`, `FriendReqDeclined`, `RemoteManagement`, ... | `wish_core_process_data`, `wish_core_handle_payload` and the core-to-core RPC |
| accept, events | `Accept`, `wish_message_processor_task` | `accept()`, the event queue |
| dial, live, timers | `wish_connections_check`, `wish_connections_connect_transport`, `check_connection_liveliness`, `wish_close_parallel_connections` | `wish_time_report_periodic` |

Every close goes through `wish_close_connection(D)`, which does for the slots
`D` what the port's function and `TCP_DISCONNECTED` do: cancel a resolver,
close the socket, release the DHM context, clear the slot. What it fails to
release is added to `fault`, as are the fatal paths (`abort()`, a NULL
`send_arg`); the properties are about `fault` staying empty. Frame contents
are reduced to the outcome the handler gives them, and the clock to whether a
timeout has passed. Descriptors are numbers and are reused at once; a
descriptor that was leaked may be reused too, which only adds behaviours.

`EarlyCloses` names three ways in which a frame can close a connection that
something still refers to: a rejected frame that *trails* the last frame of a
handshake in the same read, a *declined* friend request when the contact has
further connections, and a remote owner that *manages* (removes or answers) a
contact whose connection is queued as new. With `EarlyCloses = {}` these three
inputs do not occur; with all of them nothing is excluded.

### SecureChannel, RingBuffer, ByteFifo

`SecureChannel` is one direction of a running connection:
`wish_core_send_message` on one core, the kernels' buffers, and
`wish_core_feed`, `wish_core_process_data` and `wish_core_decrypt` on the
other. A byte is the pair (message, position), so that lost framing is
visible. The cipher is external: a payload decrypts exactly when it is one
complete frame and the nonces agree. Nonces are two limbs base `Limb`, so that
the carry happens.

`ByteFifo` is the abstract bounded queue. `RingBuffer` is `rb.c`, with
cursors, wrap-around, overlong writes refused, short reads and peeks;
`ImplementsFifo` is the refinement with the mapping from the cells between the
cursors to the queue. `SecureChannel` uses the queue.

### RelayClient

One entry of `relay_db`: `curr_state`, the age of `last_input_timestamp` (only
differences are compared, so ages above `AgeCap` are one), the socket, the
resolvers, the receive buffer. Actions: `wish_core_relay_periodic` split by
state, the answers of DNS, the main loop's part (`ConnectUp`, `ConnectFails`,
`RelayEof`, `RelayByte`), `relay.add`, `relay.remove`, `identity.create`,
`identity.remove` and the handlers that reload the list of identities
(`Refresh`). `uid` says whose id the relay was opened with, since
`identity.remove` closes the relays of that id only; `local` is whether an
identity with a private key exists, the guard of `identity.create`, and `ids`
the cached `loaded_num_ids > 0`. `CreateStates` are the relay states in which
`identity.create` is called: those in which the relay is idle (the others are
under [observations](#observations-without-a-run)). `waited` and `stamped` are
history: how long this `WAIT_RECONNECT` has lasted and whether it set the time
stamp. A socket is `"failed"` when it is open but `connect()` failed at once
on it, a path on which the code keeps it.

### Liveliness

One slot with exact time stamps: input, pings, the ping timeout and the set-up
timeout of `check_connection_liveliness`. `ConnectionPool` has the same
function with the time left open.

### IdentityDb, IdentityMap

`IdentityMap` is the promise: a list of identities changed by one save, update
or removal at a time. `IdentityDb` is `wish_identity.c` on two files. A file
is a sequence of cells and a document takes as many as its length, so that
offsets, left-over tails and scans that begin in the middle of a document are
visible. A save appends; a removal or an update copies document by document
(`CopyDocument`), removes the first file (`wish_fs_remove`) and renames the
second (`wish_fs_rename`); `Crash` may come between any two of these system
calls, each of which is taken as atomic and durable. In the refinement the
contents are those of the first file, and in the gap between `remove()` and
`rename()` those of the second, so that a rewrite takes effect at `remove()`.
The history variable `damaged` is set by the three events after which the
promise is off: a crash in the gap, a rewrite over a longer second file that
an interrupted rewrite has left, and a document longer than `peek_len`.
Documents are saved at readable lengths, since without meta data they are;
updates may write longer ones.

### AppServices, PeerSignals

`AppServices` is what one core does for its services: the slots of the
application server (`app_states`, `apps`), the service registry, the requests
that services keep open at the core, and what each service is told about the
others.

| Action | Code |
|---|---|
| `Accept`, `AppGone` | the application server's part of the main loop, `app_connection_cleanup`, `wish_service_register_remove`, `wish_core_app_rpc_cleanup_requests` |
| `Login` | `wish_core_handle_app_to_core` with a wsid, `wish_service_register_add` |
| `AppReady` | the same with `ready: true` |
| `Request` | `wish_core_app_rpc_handle_req` for a request that stays open |

A service is written to by its wsid, which goes to the first slot that carries
it (`Reaches`). The picture a service has of its peers, `local_peers`, is what
it makes of the signals it is sent.

`PeerSignals` EXTENDS it with the connections of the core and the cores behind
them. `Connect` is the event that announces a connection and sends the `peers`
request, `PeersOp` its handler at the other core, which answers with one
message per service and keeps the request open; `RemoteReady` and `RemoteGone`
broadcast on open requests; `PeersCallback` adds the service to
`connection->apps` (`known`) and passes the message on to the services of its
protocol; `Disconnect` is `TCP_DISCONNECTED` with its test for another
connection; `Ready` announces everything in `known` anew. `wire` is what is
under way to this core, in order, and is lost with the connection. `revived`
is a ghost: peers said to be online by such an announcement although they had
gone.

Two constants name what the environment may do. `DuplicateLogins`: a service
is logged in twice at the same time. `Parallel`: a user is connected more than
once, through two hosts or by a remote core that dials although it is
connected.

### FriendRequests

Any number of cores that all run the code, with `conn[x]` the pool of core
`x`, its `contacts` with the flags `unconfirmed` and `undialled` (`connect:
false`), its stored `requests`, and `inbox`, what is under way to each end of
a connection. A connection has two ends; `far` is the slot of the other one
and becomes 0 when that is closed.

| Action | Code |
|---|---|
| `FriendRequest` | `identity.friendRequest`, `wld.friendRequest` |
| `Dial` | `wish_connections_check` for one contact |
| `TcpConnected` | `TCP_CONNECTED`, `accept()` and `wish_core_check_wsid` in the hello |
| `ClientRunning`, `ServerRunning` | the last two frames of the handshake and the event that announces the connection |
| `FriendExists`, `StoreRequest` | `core_friend_req` |
| `Accepted`, `Declined`, `Ignored` | `friend_req_callback`, and answers that nothing waits for |
| `AcceptRequest`, `DeclineRequest` | `identity.friendRequestAccept`, `identity.friendRequestDecline` |
| `RemoveContact` | `identity.remove` for a contact |
| `Disconnect` | every other close |

A stored request keeps a copy of the RPC request, that is a slot (`ctx`) and
an RPC id; by the time of the answer the slot may be another connection's, and
since every core counts its RPC ids from one, another request may have the
same id. `Answer` does what the code does: it sends through the stored slot,
whatever is in it, and closes the first connection of the pair. `Close` is the
part of `TCP_DISCONNECTED` that takes `connect: false` away. `agreed` and
`unreached` are ghosts.

## The runs

Passing runs:

| Run | What it shows |
|---|---|
| `pool_safety` | Two slots, two hosts, the whole loop, `EarlyCloses = {}`, `connect()` always in progress first and memory for DHM. `PoolInv` (slots, resolvers and events are consistent at every step), `ConnectedIsHandshaken`, `NeverHalts`, `NoLeak`, `OnlyContacts`, and that a tick's parallel-connection checks leave one connection (`ParallelCheckKeepsOne`). |
| `pool_failures` | Everything switched on, also the behaviours for which some of the above fail. Nothing is freed twice (`NoDoubleFree`) and a resolver keeps its owner (`ResolverOwner`). |
| `channel` | Frames smaller and larger than the receive buffer, every way to cut the stream into reads, failed and short writes, failing allocations: buffers within limits, what is delivered is a prefix of what was reported as sent (`DeliveredInOrder`), no nonce is used twice (`NonceNeverReused`), a frame is rejected only after a truncated one (`OnlyTruncationIsRejected`), and a frame written in full is delivered or the connection is closed (`EventuallyDeliveredOrClosed`). |
| `ring_buffer` | Every sequence of calls on a ring of four cells is one of the bounded queue (`ImplementsFifo`). |
| `relay` | All DNS and connect failures: the state says which of socket and resolver exist (`RelayInv`), no `abort()`, NULL call or overwritten socket (`RelayFaultFree`), nothing to clean up in `WAIT_RECONNECT` (`NothingToCleanUp`), the full wait after a disconnect (`DisconnectWaits`), and recovery (`RelayRecovers`). |
| `identity_db` | Crashes at any point, documents of any length: the files implement the list (`ImplementsMap`) and uids are unique (`UniqueUids`) until one of the three events above; a rewrite keeps all other readable identities, in order, even afterwards (`RewriteKeepsOthers`). |
| `liveliness` | A silent connection is pinged exactly once and on time (`PingedOnTime`), closed within its timeout even if no ping could be written (`SilenceBounded`), and not closed while a live peer's answer is due (`HealthyStaysUp`). |
| `peers` | Two services here, two hosts with one each, connections and services coming and going: an open request belongs to the service that holds its registry entry (`RequestsHaveApps`), services know exactly the services of their own core (`LocalPeersExact`), a peer is taken to be online only while its host is connected (`OnlineIsConnected`), once nothing is under way none is missed (`NothingMissed`) and none is a ghost but those announced anew (`NoGhostPeers`). |
| `friends` | Two cores that ask each other, answer, remove, dial and lose connections in any order: a contact that is not flagged as unconfirmed has agreed, on both sides (`Consent`), and one that waits is asked or dialled, unless it could not be reached (`WaitingIsAskedOrUnreached`). |
| `friends_live` | What both have agreed to is confirmed in the end, whether the answer arrives or is lost (`AgreedIsConfirmed`). |

Runs that end in a counterexample, each stating what a comment in the code
says; the findings in `PROJECT.json` quote the comments:

| Run | What happens |
|---|---|
| `peer_offline` | `peers` with two hosts of one user. The test for another connection compares the luid and ruid, the comment says rhid too: when one host goes its services stay online for ours (`wish_connection.c:599`). |
| `friend_stranded` | `friends` without the exception. `connect: false` is taken away only from a connection with `outgoing` set, which a friend request has when TCP is up: if it fails before, the contact is never dialled (`wish_connection.c:622`). |

Every property of a passing run has a mutant: a definition next to the one it
stands for, marked `Mutant`, with a plausible mistake, under which TLC finds
the property violated.

## Bounds

* Pool: two slots are enough for a slot to be closed and reused while another
  keeps its state, for a parallel connection and for a full pool; the proofs
  cover every size. One pair of identities, contact or stranger, and two
  hosts, one on each side of the comparison with our own id; two pairs with
  two handlers per iteration gave the same result in three minutes (13 million
  states). `MaxCalls`, the handlers per iteration, is 3 in `pool_safety`: a
  handler can close a connection, another one open a new one in its slot or on
  its descriptor, a third act on it, before the I/O pass. `MaxTransports`, the
  transports dialled per contact, and `MaxTimers`, the pending parallel
  checks, are 1; `pool_failures` has no pending checks, which close
  connections like any other handler.
* `Rels` stands for pairs (luid, ruid). Where the code compares one of the two
  only (`wish_identity_remove`), a removal is that of one pair; removing a
  local identity is several of them.
* Peers: two slots of the application server, two registry entries, two
  connections, two hosts; both services here and the one on the first host
  share a protocol, the one on the second host has another, so that a signal
  has somebody to reach and somebody to spare. `MaxWire` = 2 messages under
  way per connection: an online and an offline message, or an answer and a
  broadcast. The proofs have no bound.
* Friends: two cores with two slots each, so that a request and a normal
  connection exist side by side and a slot is reused while its request is
  stored; two RPC ids; three requests or removals by users (`MaxCalls`): ask,
  be removed, ask again. Four gave the same result (2.1 million states).
  `friends` uses the symmetry of cores and ids, which no definition tells
  apart; `friends_live` two calls and no symmetry, which is unsound for
  liveness. The proofs cover any number of slots, ids and calls.
* Channel: up to 4 messages of 1 to 6 bytes, a receive buffer of 4, limbs of
  base 2: a frame that never fits, several frames in one read, one frame in
  many reads and the carry all occur.
* Ring: 4 cells, chunks and reads of 0 to 5 bytes over two byte values.
* Relay: timeouts 2, 4 and 5 instead of 10, 30 and 45 seconds, in the same
  order, and a session id of 2 bytes instead of 10; ages up to `AgeCap` = 6;
  two resolvers (`MaxResolvers`).
* Identity database: three uids for a database of two, documents of one to
  three cells of which three are too long, two crashes (an interrupted
  rewrite, and one more after it), saving up to `MaxCells`, which only a
  damaged database reaches.
* Liveliness: intervals 2, 6, 5, answers up to 3 late, 16 ticks; the proofs
  cover all values.

## Fairness

* `SecureChannel`: weak fairness of the receiver as a whole. The main loop
  reads a readable socket in every iteration, processes what it read in the
  same iteration and runs the liveliness check every second.
* `RelayClient`: weak fairness of the periodic function and of the resolver,
  which answers or times out. `RelayRecovers` in addition assumes an
  environment that lets some of infinitely many attempts get a resolver or a
  socket, some of those an address and some of those a connection, and a
  server that, once connected, sends its session id. Without that assumption
  it is false, as it should be, and that a server which never sends it is not
  detected is listed under the observations.
* `FriendRequests`, `FairSpec`: weak fairness of dialling per core
  (`wish_connections_check` runs every minute and opens a connection to every
  contact that is not connected) and of each slot's part in the main loop: a
  TCP connection comes up or is refused, the handshake goes on, what has
  arrived is read, an end whose other end has gone is closed by end of file or
  the ping timeout. Nothing is assumed of the users, who may never answer.
  Connections fail only finitely often (`<>[][~Failure]_vars`): with failures
  for ever nothing is ever confirmed. The exception in `AgreedIsConfirmed`,
  `Stuck`, is the case of `friend_stranded`.
* `ConnectionPool`, `Liveliness`, `RingBuffer`, `IdentityDb` and `PeerSignals`
  state safety only.

## The proofs

`ConnectionPoolProofs`, for every pool size, set of contacts and hosts, every
outcome of `connect()` and with failing allocations, in three parts.

*Whatever frames come and whenever*, `BasicInv` is inductive: the types, a
resolver's slot is resolving and has no other resolver, the protocol runs only
on a slot that reads frames (`Framed`), and a slot in the event queue is not
resolving, whatever has become of its connection, so that the event that marks
it `CONNECTED` leaves no resolver behind. Theorems: `PoolType`,
`ResolverSafety`, and `ParallelSafety`, that the parallel-connection checks of
a tick leave one connection.

*Under `EarlyCloses = {}`*, `TypeOK /\ PoolInv` is inductive.
`ConnectedIsHandshaken` alone is not: an event promotes its slot whatever it
holds, so the invariant has to say what a queued event relies on (`EventInv`),
that events only exist between the I/O pass that queues them and the drain,
and that the pass never comes back to a slot with a queued event (`EventsInv`:
`events[i] < cursor`). `SlotInv` relates the three state fields of a slot, its
socket and the contacts. There is one lemma per phase of the loop, with a step
per action; they rest on lemmas about closing a set of slots (`ClosedSlots`),
opening one (`OpenedSlot`) and updating one (`OneSlot`). Theorems:
`PoolSafety`, `ConnectedSafety`, `ContactSafety`. The condition is needed:
with the other values of `EarlyCloses` TLC finds counterexamples.

*The faults.* `FaultInv`, on top of `BasicInv`, says what a slot owns: its DHM
context is not freed and lives in `SERVER_DH` only, which is where a close
releases it, and a slot that is resolving has no socket. From it
`DoubleFreeSafety` (whatever fails) and `LeakSafety` (under `Lasting`: the DHM
set-up does not run out of memory and no `connect()` fails at once; each of
the two leaks otherwise), both whatever frames come. `HaltSafety` proves
`NeverHalts` under `EarlyCloses = {}` and `InProgress`: every `connect()` is
in progress first and `wld.friendRequest` is not used; with either left out
TLC finds `NeverHalts` violated. Its invariant has to cope with a pass that
acts on what `select()` flagged before the handlers ran: `WritableInv` says
that what the pass will still find writable is `CONNECTING`, although the
descriptor may belong to another connection by now; that needs `FdInv`, no two
slots with the same descriptor, and which slots the pass has still to come to
(`Due`).

`SecureChannelProofs`: all safety properties of `channel`, for all frame and
buffer sizes and limb widths. `OrderInv` is about the bytes on their way,
receive buffer and sockets as one stream: they were written, the messages are
in order and so are the bytes of each, and those of the messages delivered are
gone. `NonceInv` numbers the nonces: the numbers of the messages that went out
increase, also across the carry. The receiver counts too: the messages
delivered have the numbers from 0 on (`DeliveredInv`), and as long as it is
open the nonce it expects has the number of messages delivered (`NextNumber`).
Theorems: `ChannelType`; `DeliveredSafety` and `NonceSafety` for `MaxMsgs <=
Limb * Limb`, that is until all 2^64 nonces have been used, after which they
repeat. `TruncationSafety` has no such bound: `InStep` says that without a
truncated frame the stream is a sequence of complete frames under consecutive
nonces, the reader at the head of one and the sender at the end of the last.

`IdentityDbProofs`: all properties of `identity_db`, for all user ids, lengths
and bounds, in damaged databases too where the property says so. A file is a
sequence of documents of which the first may be cut off in front (`Whole`):
that is what `write()` at a document boundary makes of a file, and it keeps
both offsets of a rewrite inside their files (`IdentityDbType`). What a scan
finds is computed by a recursion along the file. That it has a solution and
that every solution is the same trail of offsets (`OffsetsRun`, `RunUnique`,
`TrailUnique`) is proved by induction, stated for a set of numbers
(`SetInduction`), which the library's well-foundedness of `<` gives. From this
follows what a scan of a file with one more document finds (`CleanAppend`).
`MapInv`, until the database is damaged: the file that holds the contents can
be read to its end and has one entry of a uid, and during a rewrite what has
been written holds what the job makes of what has been read (`Copied`,
`Rewritten`). `RemoveStep` is the heart of `MapRefinement`: at `remove()` the
loop has read everything, the second file has nothing behind what was written
and can be read to its end, so that the list changes by one removal or update.
`UniqueSafety` comes with it. `RewriteSafety` cannot use `MapInv`, since the
database may be damaged; `KeepInv` follows the entries of other uids alone,
and `ScanShort` says that a scan finds them although anything may lie behind
them.

`RingBufferProofs`: `RingType` (cursors in range, with 16-bit arithmetic, for
every capacity from 1 to 65535) and `RingImplementsFifo`: every call maps to
the queue's operation. The arithmetic of the wrap-around is in a few lemmas
about `%` and about stepping forward in the ring (`ForwardCell`,
`ForwardTwice`, `SplitBytes`, `StoredBytes`).

`LivelinessProofs`: `LivelinessType`, `LivelinessTiming` (`SilenceBounded`),
`LivelinessPinged` and `LivelinessHealthy`, for all intervals with
`PING_INTERVAL < PING_TIMEOUT` and answers that take at most `PING_TIMEOUT -
PING_INTERVAL - 1` seconds. The strengthening is `AnswerUnderWay`: while a
ping that a live peer got is unanswered, an answer is due before the timeout.

`RelayClientProofs`: all safety properties of `relay`, for all timeouts,
session id lengths and numbers of resolvers, under `Conditions`: `connect()`
is not done at once and `identity.create` finds the relay idle. The properties
are inductive together with `SendInv` (a relay that has got as far as
`CONNECTING` has its `send` pointer) and, for `DisconnectWaits`, `StampInv`
(while a time stamp set by a disconnect stands, it is as old as the wait).

`PeerSignalsProofs`: `PeersType` and `RequestsSafety` without a condition;
`LocalSafety` under `~DuplicateLogins`; `OnlineSafety`, `NothingMissedSafety`
and `NoGhostSafety` under `~DuplicateLogins` and `~Parallel`. `NothingMissed`
and `NoGhostPeers` speak of connections with nothing under way, and are not
inductive: `PeerInv` says what is going to happen. `WillKnow`: a ready service
on a connected host is about to be asked for, or the last message about it
under way says online, or it is known, every matching service has been told,
and no message says otherwise. `WillForget` is its counterpart for a service
that has gone. The lemmas about `LastSays` and `Only` say how a message
appended or taken changes them; there is one step per action.

`FriendRequestsProofs`: `FriendType` for any number of cores, resting on
`TypeInv`: the two ends of a connection name each other, one of them is the
client, messages are only under way to live ends. `WaitingSafety` needs a
sharper witness than the property: the friend request connection has to be the
client's end, since the server's can go without a trace in the flags
(`WaitingInv`). `ConsentSafety` rests on `ConsentInv`: everything that may
take a flag away (a stored request, an answer under way, a normal connection
that was let in) carries the agreement of the other side. It is proved for two
cores (`TwoCores`), with any number of slots, ids and calls: with three it
fails, since an answer through a reused slot can reach the third.

Only model-checked: the liveness properties `EventuallyDeliveredOrClosed`,
`RelayRecovers` and `AgreedIsConfirmed`, since liveness under fairness is out
of the prover's reach, as is `ENABLED`. Every other property of a passing run
is the subject of a theorem, some under the conditions named above; without
these they are checked by the runs, or known to fail (see the observations).

## Observations without a run

Seen while modelling; the model has the behaviour, or the line is given.

* The last frame of a handshake queues an event; a further frame in the same
  read that is rejected clears the slot, and the event marks the free slot
  `CONNECTED` (`wish_event.c:61`). `EarlyCloses` contains `"trailing"` for it.
* `friend_req_callback` passes `connection->ruid` to `wish_identity_remove`,
  which closes that very connection and goes on comparing with the cleared id:
  later slots with the removed contact stay open (`wish_core_rpc.c:699`;
  `"decline"`, and `Declined` of `FriendRequests`). A comment there asks
  whether the contact should be looked at first.
* A descriptor flagged by `select()` is closed and reopened by handlers before
  the I/O pass: the new connection is taken as connected while `connect()` is
  in progress (`app.c:1019`). The model has it, no property forbids it. If the
  new `connect()` was done at once the slot is not `CONNECTING` and the loop
  aborts, which is why `HaltSafety` excludes that.
* A parallel-connection timer is not cancelled by a close and may run for
  another connection in the slot (`wish_event.c:74`); `ParallelCheckKeepsOne`
  holds anyway.
* After a resolved name, a `connect()` that fails at once leaves the slot
  `RESOLVING` with an open socket; the close then leaks it (`app.c:245`).
* The DHM context is leaked when the server's hello fails after the set-up
  began.
* `wld.friendRequest` uses a NULL connection when the pool is full
  (`wish_api_wld.c:267`).
* An immediate `connect()` error in `relay_client.c:164` leaves the socket
  open, and the next attempt overwrites its number. An immediate success
  leaves the `send` pointer unset; `relay` does not include that outcome.
* A short `write()` is reported as success (`app.c:83`, with a FIXME); what
  follows is `OnlyTruncationIsRejected`.
* `port_dns.c:165` and an immediate failure in `relay_client.c` enter
  `WAIT_RECONNECT` without setting the time stamp, so the wait may be over at
  once; after a disconnect it is not (`DisconnectWaits`).
* `identity.create` opens every relay, in whatever state
  (`wish_api_identity.c:435`). One that is connected forgets its open socket;
  one that is resolving for a contact, after the local identity was removed,
  gets two resolvers, of which the first connects and the second, failing,
  calls `abort()` (`port_dns.c:169`). With `"RESOLVING"` in `CreateStates` TLC
  finds both `RelayInv` and `RelayFaultFree` violated.
* A document longer than `peek_len` = `sizeof(wish_identity_t) + 100` bytes,
  which `identity.update` writes without complaint up to 1 KiB of meta data
  (`wish_identity.c:56`), ends every scan: it and all later identities are
  invisible, and the next rewrite drops them.
* The write of zero bytes meant to truncate the second file does nothing
  (`wish_identity.c:778`): after an interrupted rewrite the next, shorter one
  leaves the tail of the old file behind it, and a removed identity may be
  back. `damaged` marks it.
* A crash between `remove()` and `rename()` leaves no identity database
  (`wish_identity.c:847`).
* In `READ_SESSION_ID` no timeout is checked (`wish_relay_client.c:88`).
* After a DNS answer without an address record a relay stays `RESOLVING`
  (`wish_relay_client.c:86`); `RelayRecovers` names this as the exception.
* `relay.remove` frees a relay to which `connection->relay` of a connection
  being opened may still point (`wish_api_relay.c:142`, read at
  `wish_connection.c:518`).
* A service that logs in twice (`app_server.c:308` does not look at other
  slots) is unregistered when the first of its sockets goes, and its signals
  go to one slot only: with `DuplicateLogins` TLC finds `LocalPeersExact`,
  `OnlineIsConnected`, `NothingMissed` and `NoGhostPeers` violated.
  `RequestsHaveApps` is proved all the same.
* With `Parallel` the last three fail: `peer_offline` is the shortest way.
* A full registry does not keep a service from getting its `ready` answer
  (`wish_service_registry.c`); it is then invisible to all others.
* Nothing is ever removed from `connection->apps` (`wish_core_rpc.c:231`), so
  that a service that becomes ready causes services that have gone to be
  announced again, to all services whatever their protocol; the comment at
  `wish_core_rpc.c:1170` says "with matching protocol".
* `connections.apps` hands an application's request to a callback
  (`wish_api_connections.c:101`); when the application goes first, its
  requests are freed.
* An answer to a friend request is sent through the stored copy of the RPC
  request (`wish_api_identity.c:1586`), whose slot may have been reused, and
  closes the first connection of the pair, which may be a healthy one
  (`wish_api_identity.c:1467`). With three cores the answer to one request may
  reach the sender of another, who takes it for its own: TLC finds `Consent`
  violated.
* A stranger's friend request closes only the first other connection of the
  pair (`wish_core_rpc.c:612`); the code says "TODO: Connections might not
  close".
* `connect: false` survives a crash: `wish_core_init` does not look at it.

## Not modelled

* **Access control lists** (`wish_acl.c`): a pure lookup without state of its
  own.
* **BSON** is a vendored library; configuration, utilities and the ports to
  other systems are start-up I/O or platform glue.
* The RPC handlers that only read and format documents (identities, hosts,
  directory). Those that change connections, contacts or relays are actions of
  the modules above.
* The RPC library (`deps/wish-rpc-c99`) is an empty submodule: requests, ids
  and their contexts are modelled from how `src/src` uses them.
* Ciphers, hashes, signatures and certificates are external; so is the
  network.
* Of the handshake, the contents of the messages and the agreement of the two
  sides on them; of local discovery, the table of hosts; of the application
  server, the splitting of the stream into frames, which is that of
  `SecureChannel` without cipher.
* A failing `malloc()` outside the DHM set-up (the list of remote services,
  RPC requests).
* In `ConnectionPool` any stored friend request may be answered at any time;
  which ones are stored is in `FriendRequests`.

## Plan

What is left, in order:

1. **WishHandshake**: both ends with message contents; agreement on identities
   and on who is client; abstract specification of mutual agreement.
2. **ParallelConnections**: two cores dialling each other; one connection per
   pair survives, eventually. `PeerSignals` could then be composed with it in
   place of the constant `Parallel`.
3. Composition of `RelayClient` and `ConnectionPool` for `connection->relay`.
4. **LocalDiscovery**: the table at its limit, ageing.
5. Access control lists as a pure function.

Theorems to come: `HaltSafety` without `EarlyCloses = {}`; `Consent` for more
than two cores under a condition on slots that are reused; the properties of
the modules above.
