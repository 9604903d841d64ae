# A TLA+ model of ChatterTerminal

ChatterTerminal is a chat system for the terminal: a Python/asyncio server (WebSocket
messages and signalling on 8765, a TCP relay for file chunks on 8766, a UDP relay for
audio on 8767, SQLite below) and a curses client with its own SQLite database. This
directory specifies the parts of it whose correctness depends on the order of events,
checks them with TLC on small instances and proves the central invariants with TLAPS.
Paths below are relative to `src/`.

## 1. Inventory

| Component | State | Operations | Interacts with | What makes it correct |
|---|---|---|---|---|
| WebSocket handler, presence (`server/ws_server.py`) | locals of one coroutine per connection (`username`, the packet at hand) | login, logout, the branches of `handle`, sync, status broadcast, `finally` | router, queue, call manager, rooms, files | every packet ends up written or queued, never both or for the wrong user; every handler ends |
| Router (`server/router.py`) | name → websocket | register, unregister, get | handlers, calls, rooms, TCP server | a name leads to the user's live connection |
| Offline queue (`server/offline.py`, `server/db/messages.py`) | `offline_queue` rows | enqueue (`INSERT OR IGNORE`), flush (`SELECT`), clear (`DELETE`) | handlers, TCP server | what was acknowledged as queued is synced, in order |
| Process (`server/main.py`) | none of its own | start, clean-up loop, kill and restart | all of the server | memory may go, rows may not |
| Call manager (`server/call_manager.py`, `server/db/calls.py`) | `_sessions`, `call_sessions` rows | invite, accept, decline, end, relay | handlers, router | one end per call, heard by the other party, recorded |
| UDP relay (`server/udp_relay.py`) | parties per session, session per address | datagram received, start, stop | clients | audio goes to the other party and nowhere else |
| File transfer (`server/tcp_server.py`, `server/files.py`, `server/db/files.py`) | `files`, `chunks` rows, chunk files, one coroutine per TCP connection | register, upload, download, clean-up | router, queue, clients | "complete" means complete; both sides agree who speaks next |
| Rate limiter (`server/rate_limiter.py`) | token bucket per user or address | allow, reset | handlers | no more than the rate, whatever the number of connections and the spacing of the calls |
| Rooms (`server/rooms.py`) | `rooms`, `room_members` rows | create, join, leave, fan-out | handlers, router, queue | a message told delivered has a copy for every member |
| Accounts and sessions (`server/auth.py`, `server/db/users.py`) | `users`, `sessions` rows | register, login, token login | handlers | one account per name, served by its owner only |
| Client application (`client/app.py`) | pending calls, file offers, current chat | the login, the UI loop (one command at a time), the packet dispatcher | all client handlers | two coroutines over the same handlers agree |
| Connection (`client/connection/`) | send queue, connected flag, back-off | connect loop, sender task, send | application | a reconnected client is a working client |
| Call handler (`client/handlers/call.py`, `client/db/calls.py`) | active session, ephemeral key, call key, stream, history rows | invite, accept, decline, end, four incoming packets | application, audio stream | audio runs exactly during a call, both ends with one key |
| Jitter buffer (`client/audio/jitter_buffer.py`) | frames, head, first-packet flag | push, pop, reset | audio stream | frames play in order, once, none is skipped while held |
| Audio stream (`client/audio/stream.py`, `client/audio/engine.py`) | port and devices, muted flag, receive queue, tasks | start, stop, set_muted, feed, receive loop | call handler, engine, jitter buffer | the microphone is on for a call only; what is received is played in order |
| File handler (`client/handlers/file.py`, `client/db/files.py`) | active transfers, `files` rows | send, resume, receive, cancel | connection, TCP server | a retry neither loses nor repeats a chunk |
| Message handler (`client/handlers/message.py`, `client/db/messages.py`) | `messages` rows | send, edit, delete, read, reports | connection | what the history says of a message is true; what arrives is saved |
| Authentication of the client (`client/handlers/auth.py`) | the answer and its event | register, login, token login | connection | a login ends, answered or not |
| Room handler (`client/handlers/room.py`, `client/db/rooms.py`) | `rooms` rows, pending requests by `req_id` | create, join, leave, send, with a timeout | connection, application | an answer ends the request it belongs to; the rows follow the server's |
| Contacts, cryptography, codecs, NAT, screens, schema, configuration | – | pure computations or I/O | – | not modelled, see 9 |

Hard behaviours: handlers of different connections interleave at every `await`, so what
was looked up before a send, a query or a broadcast may be stale after it; a connection
may go away at any of these points, and a send on it raises in the middle of a
handler; the process may be killed between two database statements; a user may be on
two connections, or come back before the old handler has noticed that he left; in the
client, typed commands and incoming packets run in two coroutines; chunks are retried
over new connections while the handler of the old one is still at work. `PROJECT.json`
lists these hazards at their lines with the properties that cover them.

## 2. Modules

| Module | Of | Built on |
|---|---|---|
| `Mailbox` | what the server promises about accepted packets, without connections or handlers | – |
| `ServerDelivery` | WebSocket handler, presence, router, offline queue, restart | instantiates `Mailbox` |
| `ServerDeliveryProofs` | type correctness, five safety properties, the refinement of `Mailbox` | `ServerDelivery` |
| `TokenBucket` | what a rate limiter promises: credit that grows with time | – |
| `RateLimiter` | `server/rate_limiter.py`, under any sequence of calls (proofs in `AccessProofs`) | instantiates `TokenBucket` |
| `Access`, `AccessProofs` | registration, logins, tokens and logout over several connections, every frame counted | extends `RateLimiter` |
| `Rooms`, `RoomsProofs` | rooms of the server with the room handlers of the clients | – |
| `JitterBuffer` | `client/audio/jitter_buffer.py` (proofs in `AudioStreamProofs`) | – |
| `AudioStream`, `AudioStreamProofs` | the streams of a client's calls, their devices and their receiving side | extends `JitterBuffer` |
| `UdpRelay`, `UdpRelayProofs` | the datagram protocol of `server/udp_relay.py` | – |
| `CallSignaling`, `CallSignalingProofs` | call manager and its rows, composed with the call handlers of the clients | – |
| `FileTransfer`, `FileTransferProofs` | uploader, upload handlers, storage, clean-up, downloads | – |
| `ClientSession`, `ClientSessionProofs` | one client: connection and sender, login, dispatcher, message handler and rows | – |
| `MC*` | constants for TLC | the module of that name |

### ServerDelivery

`h[c]` is the coroutine `handle` of connection `c` with its locals; `pc` names the
`await` it is suspended at. `router`, `queue` and `sock` are the router's dictionary, the
rows of each user in `created_at` order and the state of the connection. A step is the
code between two awaits that may suspend. `Next` has two halves. `Input`: a client
connects, closes, logs in, logs out, asks for a sync, submits a packet. `Resume`: what
the event loop goes on with: `Flush`, `Sync`, `Clear` (the three awaits of
`_flush_offline`), `SendReturns` and `SendRaises` (the two ends of the send to the
recipient), `Enqueue`, `Ack`, the broadcast one peer at a time, and `Raise`, `RaiseLate`,
`Closed`, `Finish` for the ways into the `finally` block. Packets are values with a kind:
`message` (falls back to the queue, acknowledged with the outcome), `edit` (edit and
delete: the send is not guarded), `notice` (the `FILE_` packets), `hint` (READ: dropped
when the recipient is offline).

External: `ws.send` of websockets 12. On an open connection the frame is written at
once and the call returns later, or raises if the connection closes meanwhile; on a
closed one nothing is written and it raises. What a broadcast sends is a set, as the
order of the peers makes no difference to what follows. Rows of one second are read in
the order they were inserted (SQLite's rowid), and a `since` in a SYNC_REQUEST is any
suffix of the rows.

`Mailbox` is the abstract specification: each packet moves from new to stored or
written, from stored to written, and is lost only by the clear that deletes rows it did not
read or by the key clash of `INSERT OR IGNORE`; `delivered` is told only of what is written,
`queued` only of what the queue was given. `ImplementsMailbox` is the refinement, with
the place of a packet computed from the wires, the queue and the rows a handler holds.

### CallSignaling

The server's `session` (in memory, `gone` once popped) and `row` (SQLite), a handler per
connection that changes the session, then writes the row, then forwards (`Begin`,
`Manager*`, `WriteRow`, `Forward`); at each client the fields of `CallHandler`, its stream
objects, its history rows, and two coroutines: `ui` runs the commands of
`App._call_command`, `rx` the dispatcher. Each is suspended at a database statement
(`Save`, `Close`) or while a stream starts or stops (`Started`, `Stopped`), and the other
may run then. Keys are values: which two key pairs were combined, with which session
as salt. `read` is how far a client has got in `said`, all that was written to it. A client
whose connection is lost does not log in again (the application does not), so it is
gone for the call.

### FileTransfer

One file. `up` holds the locals of `_upload_chunks`, `srv[c]` the handler of its connection
`c` at the server, `net[c]` the chunk and the replies on the way. `Break` loses a connection
for the client, with or without its last chunk having arrived, while the handler goes
on with what it has. `rows` and `disk` are the chunk rows and files, written in two
steps; `Crash` may cut the file that is being written. `RemoveData` and `RemoveRows` are
`delete_file_data`. A download takes the rows there are, reads a data file per frame,
and the recipient counts frames. FILE_INIT travels over the WebSocket connection and
may be lost with it; the uploader may be closed at any time and resume.

### ClientSession

One client process and what the rest of the system does to it. `q` is `_send_q`, which
lives through reconnections; `link` the connection with the frames under way in both
directions and the server's handler of it; `net`, `ui` and the sender are the client's
three coroutines. `net` reads and dispatches one packet at a time (`Dispatch`), of a sync
one inner packet at a time, and is suspended at its database statement (`Apply`) and in
the callback of a new message (`Receipt`). `ui` waits for the login's answer (`Authenticate`,
`GiveUp`), for the prompt after it (`Unlock`, `Ready`: the handlers exist from there on),
and between the send and the statement of what the user types (`Submit`, `SubmitChange`,
`Store`). A row is the set of its flags. `Break` loses the connection with any tail of the
frames under way, in both directions. The server side is what `handle` answers this user,
one frame at a time; its own interleavings are in `ServerDelivery`, and here a new
connection is opened only after the last handler has ended. The peer sends, edits,
deletes and reads through the server; an edit or a receipt to a connection that has
just broken is lost, a message is queued. Histories (`submitted`, `taken`, `peer`,
`receipts`, `synced`) record what happened for the properties and for the bounds.

### RateLimiter, TokenBucket, Access

A bucket of `RateLimiter` is refilled only when its key asks (`Refilled`), and forgotten when a
connection of the key ends or the process does (`Drop`). Time is counted in ticks and tokens in
parts, so that the arithmetic is that of the code without its rounding. `TokenBucket` is the
limiter one would specify: the credit of a key grows at every tick. `RefillsContinuously` is the
refinement, with the credit a call would find now.

`Access` adds the handlers: a frame is first charged to the name of the connection or to its
address (`RateKey`), then `Lookup`, `CreateUser`, `CreateSession`, `Validate`, `Delete` are the
statements of `auth.py` and `db/users.py`, and `Answer` is `_on_auth_success`. A person stands for his
password; the row of a name holds who registered it. What a password verifies and a token opens
is compared, not computed. A token is presented by the person it was told to. After a kill the
rows are there, the handlers and buckets are not.

### Rooms

`h[u]` is the handler of a user's connection (the `ROOM_` branches of `handle`, `_flush_offline` and
the fan-out of `route_room_message`, one member per step, with the fall-back to the queue when a
send raises), `ui[u]` the coroutine that runs his commands and waits for answers, `net[u]` the one
that takes packets from the connection. `req_id` is the number of the command. `Timeout` may
happen when the connection is gone, and at any time for the users in `Slow`. `sealed` is the set
of members a text is encrypted for. `Exit` is the uncaught timeout of `create`, which ends the
program. The handler stays in the router until it ends, so that a fan-out may meet a connection
that is down.

### AudioStream

The life of each stream of one client (`Start`, `Opened`, the three ways in which `start` fails,
`StopEarly`, `Stop`, `Stopped`), what it has open, and the receiving side of the one the handler
holds: `Arrive` (`feed` or a datagram), `Take` (one frame pushed), `Play` and `Drained` (the inner
loop of `_recv_loop`, during which no other coroutine runs: `Free`). `mode` is the relay, which
keeps the order of the frames, or UDP, which does not. `CallSignaling` has when a call starts and
ends its stream; here any order is allowed. `stray` records the streams that the handler let go of
without stopping them.

### JitterBuffer, UdpRelay

Line by line the two classes: `Push`, `Pop`, `PopNothing`, `Reset` with `Anchor`, `TooLate`
and `Advance`; `RegisterFirst`, `RegisterSecond`, `Forward`, `Discard`, `Restart`. Each is
one atomic step, as neither class awaits.

## 3. Runs

| Run | Instance | Shows |
|---|---|---|
| `delivery` | 2 users, 3 connections (Bob on two), 2 messages; 1.6 M states | written exactly once when told delivered; order kept in a sync; only to the recipient; no route to an ended handler |
| `delivery_live` | 2 connections, 2 edits of one message and a receipt, sync request, 1 kill; 270 k states | the server implements `Mailbox`; handlers return to their loop, those of closed connections end |
| `access` | 2 persons, 3 connections, 2 names, a bucket of one token, 1 kill; 1.4 M states | who is served under a name registered it; sessions have their owner; the limiter keeps its rate and implements `TokenBucket` |
| `rooms` | 3 users, 2 rooms, 1 message, a client that comes back, 1 kill; 409 k states | delivered means a copy for every member; the client's rooms follow; outcomes are those of the command; nobody present is sealed out; commands end |
| `udp` | 4 addresses, 2 sessions; 500 states | the tables agree, no echo, parties stay |
| `call` | 1 call, both users may lose their connection; 25 k states | ended once, nothing after the farewell, recorded, a hang-up takes effect |
| `call_crossed` | 2 calls, each user calling the other; 1.9 M states | a client left in a call is in one the server knows; both ends have one key |
| `call_hangup` | 1 call | violated: an acceptance that crosses the hang-up starts audio that nothing stops |
| `audio` | 2 streams, a buffer and a queue of 2 frames, frames 0..5; 3.5 M states | frames are played in order and none held is skipped; the microphone is on for a call only; a full buffer has a frame that came too late, over the relay never |
| `files` | 2 chunks, 2 upload connections, 1 download, clean-up, 1 kill; 1.0 M states | sent, announced and received mean complete; rows have data; an upload ends |
| `client` | 2 connections, 2 logins, 1 message and 1 edit each way; 331 k states | what is marked delivered or read is; receipts are for saved messages; the login's wait ends; the send queue drains; what reaches a logged-in client is saved |
| `client_synced` | the same | violated: a sync dispatched before the handlers exist is dropped |

Why the bounds suffice. Every race of `ServerDelivery` needs a sender and at most two
connections of one recipient (old and new), and two packets (one before and one after
the racing step, or two whose order is compared). A clash in the queue needs two edits,
an account switch one connection (it is in the proofs and in `Access`). A window of
two frames and six numbers give the jitter buffer a full buffer, a skip, a late frame, one beyond
the late limit and a duplicate; two streams a start, a stop or a failure of one while the other is
there, and a queue of two frames is full at the third. Two names and two persons make a clash of registrations and a
connection that changes its name; three connections a
token told to an earlier one, used and logged out while a login is under way; `Rate = 1` and
`MaxClock = 2` with a `Ttl` of one tick refusals, refills that are cut off and an expired token. In a room
one author, one who joins and leaves with late answers and one whose connection breaks are the
three parts of every race of a fan-out. Two sessions and four addresses make two calls and a third party of each. Crossed
calls are the smallest case in which one client has two calls at once. Two chunks make
a first, a last and a missing one; two connections a retry with the old handler alive,
whether by the loop or by a resume; with three connections and no download the same
properties hold too. The code's three attempts are two here (`MaxAttempts`), as many as
there are connections. A client needs a first connection and one without a login, a
login and a second attempt (after a refusal or at the prompt), and one message
of each side with something that happens to it later.

Bounds: `MaxCrash` (kills), `Logins` (who logs in where, each once), `Syncing`, each packet
submitted once (`recvd`); `Leaving` (who may lose a connection), each session begun once
(`begun`); `MaxConn`, `Download`, `Expires`; `MaxLink` (connections), `MaxLogin`, `Changed` and
`PeerChanged` (edits and deletions of each side), each message sent once; `MaxClock`, `MaxToken`, `Sends` (what the client of a connection
sends); `Founded`, `Does` and `MaxCommand` (who commands what, how often), `Slow` and `Breaks` (whose
answers are late, whose connection is lost), `MaxRun`; `Streams`, `SeqNo`.
`CHECK_DEADLOCK FALSE` in every run but `udp`:
when the bounded inputs are used up, an idle system has nothing left to do.

Symmetry is used in `delivery` only, a run without liveness: Bob's two connections have the
same logins, the two messages the same kind and recipient.

## 4. Fairness

`ServerDelivery`: weak fairness of `Resume(c)` for each connection, none of `Input` or
`Crash`. asyncio runs every ready coroutine; a database statement returns; a `ws.send`
returns or raises, because the keepalive of websockets (ping every 20 s) closes a peer
that does not read. `CallSignaling`: weak fairness of the server's steps, of incoming packets and of
suspended coroutines; no user need ever type a command, no connection need be lost.
`FileTransfer`: weak fairness of the uploader's steps and of each handler; connections
need not break, a break is noticed by the client, the clean-up need not run.
`ClientSession`: weak fairness of `Connect` (the loop retries after its back-off), of the steps of
`net`, the sender and the server's handler, of the timeout of the login's wait (`wait_for`)
and of a statement under way (`Store`); the user and the peer need do nothing, the network
need not fail. `SendQueueDrains` leaves out a client that has used up its connections and
stays without one. `Rooms`: for each user weak fairness of his handler (`Serve`), of the
command under way with its five-second timer (`Resume`), and of the reader (`Read`); no command
need be given, no connection need break, no answer be late. `Access`, `AudioStream` and `UdpRelay`
state safety only.

## 5. Disagreements between code and documents

Two runs end in a counterexample against a sentence of the repository: queued messages that are
synced to a client that drops them (`README.md:68`, run `client_synced`), and the ended call whose
audio runs (`client/handlers/call.py:272`, run `call_hangup`). `PROJECT.json` quotes each.

The models contain further behaviours a reader should know of, for which there is no run.

- Server. A message queued for a user while a login flushes his queue is deleted unread by the
  clear that follows (`README.md:68` against `server/ws_server.py:32`–`35`; `shadowed` and `overrun` in
  `ServerDelivery` record it). The `finally` of an old connection unregisters the name of a user
  who is back on a new one (`server/router.py:1` against `server/ws_server.py:409`). The limiter is
  said to be per connection (`README.md:324`) and is per name or address; it is reset when any
  connection of a user ends (`ws_server.py:410`).
- UDP relay. An address that took part in an earlier session is neither registered for a
  later one nor discarded (`server/udp_relay.py:130`): its datagrams are forwarded to the first
  party there.
- Calls. With two calls at once the one ephemeral key of a client (`client/handlers/call.py:161`)
  may be combined with the answer to the other call; the ends then have different keys until one
  hangs up, which is why `KeysAgree` asks that both clients have the call as their active one.
  `update_call` and `end_call` of concurrent handlers may commit in either order, so that the row
  of a call that is over may say `active`, though it does have its end time (`EndIsRecorded`).
- Audio. A datagram that comes after its turn but within the late limit stays in the jitter
  buffer behind the head, and a full buffer may then return nothing, as it does not advance
  backwards (`client/audio/jitter_buffer.py:125`); `StallEnds` says that nothing else holds it up, and
  `RelayKeepsNoLate` that over the relay nothing does. A stream begins unmuted even when its
  handler is muted or in push-to-talk, whose documentation says the microphone "stays muted by
  default" (`client/handlers/call.py:321`): `MuteFollows` only speaks of what was set since. A full
  receive queue drops the frame that arrives, where the comment says the oldest
  (`client/audio/stream.py:51`). An `OSError` of a device is not cleaned up after
  (`client/audio/stream.py:162`), and a stream that is overwritten, or stopped while it starts, goes on:
  the exceptions of `MicHasOwner`.
- Files. A file that expires during its upload leaves client and server waiting for each other
  (`UploadEnds` leaves this case out); an upload handler between two chunks when the clean-up
  comes makes the directory again and adds a row (`server/files.py:75`), which no later clean-up
  finds.
- Client. A client that reconnects is not logged in again, and what it sends is answered
  UNAUTHORIZED (`client/app.py:122`). A delivery report that is handled before the row is saved, and
  an edit that arrives live ahead of the sync with its message, update nothing. A room whose
  creation is not answered in five seconds ends the program (`client/app.py:724`), and one whose join
  is given up is joined all the same. Outside the models: `/quit` ends the UI loop, but `App.run`
  gathers it with the connect loop (`client/app.py:112`), which goes on.

## 6. Proofs

All proofs are by an inductive invariant: `Init => IInv`, `IInv /\ [Next]_vars => IInv'` with
one lemma or step per action, `IInv => P`.

- `ServerDeliveryProofs`, for any sets of users, connections and packets, any kinds and
  keys, any number of crashes and logins: `TypeCorrect`, `PacketsReachTheirOwner`
  (`WrittenToOwner`), `NothingReadIsDeletedUnwritten` (`ReadRowsWritten`),
  `EndedHandlersAreUnrouted` (`NoRouteToEndedHandler`). The invariant `SafeInv` adds
  to the properties: the locals are those of the program point (`LocalsOK`), who is
  registered or is about to be written to was an owner of the connection (`OwnersOK`), and
  each user's rows, and the rows a handler has read, are addressed to it (`RowsOK`): a packet is
  written by `Sync` from a snapshot taken earlier and by `RecvPacket` through a look-up, so neither
  property is inductive without them. Then `DeliveredMeansOnce` (`DeliveredOnce`), from where a
  packet can be (`PlacesInv`): one a handler is still at work on is the last its connection
  submitted, and nowhere else; one that was told delivered, or will be, was written once and is
  kept neither in the queue nor in a snapshot. `SyncKeepsOrder` (`SyncedInOrder`), from `OrderInv`:
  the rows of a user, and every snapshot of them, are in the order in which each connection's
  packets were taken. And `ServerKeepsMailbox`, the refinement of `Mailbox`: the initial states
  map to its initial state and each step to one of its steps or a stutter, a clear and a handler that
  ends with rows in its locals to `Lose` or nothing, depending on where else the rows are.
  Assumptions: the null values are not members, equal keys have equal recipients
  (`NullAssumption`, `PktAssumption`, `BoundAssumption`).
- `AccessProofs`, for any keys, capacity, refill and length of time, first on the limiter by itself:
  `LimiterTypeCorrect`, `LimiterKeepsRate`, and `LimiterIsBucket`, the refinement of `TokenBucket`.
  The rate is not inductive as it stands: the invariant bounds the requests admitted since each
  earlier one by what the bucket must then still hold. Then, for any connections, persons, names and
  bounds: `AccessUsesLimiter`, that the handlers make only calls which `RateLimiter` allows, so that
  `AccessKeepsRate` follows; `AccessTypeCorrect`, `ServedUsersAreOwners` and
  `SessionsBelongToOwners`. The invariant adds to the two that a handler past the check of the
  password, or with a token to validate, acts for the owner (`LocalsOK`).
- `AudioStreamProofs`, for any window of at least one frame and any numbers, first on the buffer
  alone: `JitterTypeCorrect`, `HeadStaysPastPlayed`, `FramesPlayedInOrder` and `HeldFramesArePlayed`,
  from the invariant that the head is past the frame played last, unless nothing was played since
  the reset. `AudioUsesJitterBuffer` carries them over to a call, for any number of streams and
  sizes of the queue: `AudioTypeCorrect`, `MicrophoneHasOwner`, `MutingReachesStream`,
  `FullBufferHoldsLate` and `RelayedAreNotLate`. The invariant adds that a stream with something
  open was let go of or is held, and that over the relay the queue is in increasing order and
  ahead of everything pushed.
- `UdpRelayProofs`, for any addresses and sessions: `UdpTypeCorrect`, `RelayTablesAgree`,
  `NobodyHearsThemselves`, `CallPartiesStay`, from `TablesAgree`: an address is bound to a
  session exactly if it is one of its two parties.

- `FileTransferProofs`, for any set of chunks, connections, downloads and bounds:
  `TransferTypeCorrect`, `ReturnedUploadsAreStored` (`SentIsStored`), `StoredRowsHaveData`
  (`RowHasData`) and `CompleteDownloadsAreWhole` (`ReceivedIsComplete`).
  What the uploader concludes rests on what is under way, so `FtInv` adds what a line on the wire
  says of the store (`Promises`), that only the uploader's connection is alive (`LiveIsCurrent`) and
  at most one chunk is between the two sides (`OneAtATime`), so that an acknowledgement is of the
  chunk awaited; that the count of chunks sent is the number of those known to be stored
  (`CountIsTrue`: the code compares numbers where it means sets); that the table has a chunk once
  (`RowsDistinct`) and the frames of a download are of distinct rows (`FramesDistinct`), which makes
  its count of frames a count of chunks.
- `CallSignalingProofs`, for any users, any sessions between them, also crossed ones:
  `CallTypeCorrect`, `CallsEndOnce` (`FarewellIsLast`), `EndedCallsAreRecorded` (`EndIsRecorded`),
  `CallPartiesShareKey` (`KeysAgree`) and `ActiveCallsAreListed` (`ActiveIsListed`). `CallInv`
  adds who can say anything of a session (`Roles`); that its invitation is made once, and before
  it nothing is known of it (`InviteOnce`); what the handlers and clients may have of it at each
  stage of the manager's session (`Stages`), and that what a handler is about to write was not
  written before (`SaidOnce`); that the callee cannot know of it before its row is there
  (`RowFirst`); and that whoever popped the session has written the end or is about to
  (`EndIsWritten`). The last two theorems have an invariant each, proved from `CallInv`. `KeyInv`:
  the key pair a client holds is the one of its active call; only a caller is told of an
  acceptance; and the key of a stream, there from its start, is the call's at the callee, and at
  the caller while the call is the active one. `ListInv`, while all connections live: an
  invitation is at one place, in the packets, the incoming calls or the coroutine that saves it;
  who has declined or hung up is invited no more; of a session that is over its client is about to
  hear, or is itself hanging up; and nothing follows a farewell that was taken. So when nothing is
  under way, a client's active call is at the server.
- `RoomsProofs`, for any users, rooms, messages and commands: `RoomsTypeCorrect`, `OutcomesAreTrue`
  (`OutcomeTrue`), `NobodyLeftOut` (`LockedOnlyNewcomers`), `DeliveredIsAll` (`DeliveredMeansAll`),
  `RowsAreMemberships` (`RowsFollow`).
  Each has an invariant of its own about what is under way between the two sides. `Newest`: while a
  command waits, its frame is the last its client wrote, and an answer with its number is of its
  kind and has come after all of them, so a late answer to an earlier command is never taken.
  `Granted`: an answer that says yes is of a statement that was committed. `Once`: a text is with
  its author, on the wire, with the handler, or acknowledged. `Delivery`: during a fan-out a member
  of the audience has his copy or is still to be served, and a clear deletes only what a flush has
  sent. `Sealing`: the list an author waits for is the one last made for his text. `Pipeline`:
  of the changes to a row of a client that are under way, in the handler, on the wire or at
  the client, the last agrees with the server's members.
- `ClientSessionProofs`, for any messages of either side, edits and numbers of connections and
  logins: `ClientTypeCorrect`, `MarksAreTrue` (`MarkedIsTrue`) and `ReceiptsFollowSaves`
  (`ReceiptsAreForSaved`). A row is marked when a packet is applied and a receipt counts when the
  server takes it, both long after the cause, so `CsInv` says of every packet under way what was
  the case when it was sent. `Arriving`: in the server's queue, on the wire, in a sync and at hand,
  a message is the peer's and a report is of a message that was accepted, or read. `Leaving` and
  `AtHand`: a receipt in the send queue, on the wire or about to be made is for a message already
  saved. `SavedFirst`: no row exists that was not made by saving its message, so an update
  never makes one. Assumption: no message is of both sides (`SessionAssumption`).

The type invariants, and the auxiliary invariants `HeadPastPlayed`, `NoEcho`, `ReadRowsWritten` and
`MuteFollows`, are proved for all values of the constants; some of them have no run. Only
model-checked: all liveness, which is out of the prover's reach, like ENABLED.

## 7. Mutants

A definition preceded by "Mutant of" is a variant of the operator after it with a
plausible bug (a lost guard, a missing reset, a swapped order). No run uses it; put in
place of the operator, TLC finds the property named in `PROJECT.json` violated. They show that each
property says something about the code.

## 8. Plan

Written, in this order: delivery (the core of the system), jitter buffer, UDP relay,
calls, file transfer, the client's session, the limiter and access, rooms, the audio stream. Every
safety invariant and action property a run checks is proved; what could follow
are the parts of §9 that keep state.

## 9. Not modelled

Cryptography, codecs and STUN: computations and I/O of libraries; where a property depends on
keys they are values (`CallSignaling`, `Rooms`). Of the audio devices only which are open; the
capture and send side of `AudioStream` (callback, send queue, encryption, sequence numbers) has no
part in the properties. Screens, key bindings and notices. Contacts and their verification, which
only the display depends on. Schema and configuration. The sending of CALL_RELAY frames. The
registry of WebSocket relay pairs in `server/udp_relay.py`, which nothing uses. FILE_CANCEL, which
is sent without a recipient and changes only a row of the sender's. TYPING, KEY_REQUEST and PING,
which reply or forward and may fail like the replies that are modelled; TYPING, edits and
deletions with a `room_id`, which go through the fan-out of `Rooms` without its test of the
membership. In
`ServerDelivery`, the limiter's refusals and passwords: a login succeeds for any user (`Access` has
both). In `ClientSession`, contacts and their keys, rooms, files and calls (packets of other
handlers), `mark_read` of `/dm`, what a registration saves, decryption; choosing another account at
the prompt is a login like the first. In `Rooms`, names and last messages, which are displayed
only, the history queries, and logins, which are part of `Start`.
