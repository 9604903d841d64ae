--------------------------- MODULE ServerDelivery ---------------------------
(***************************************************************************)
(* The WebSocket server of ChatterTerminal: the coroutine `handle` of      *)
(* server/ws_server.py, one per connection, with the router, the offline   *)
(* queue and the presence broadcast it calls.                              *)
(*                                                                         *)
(* All handlers run on one asyncio loop, so a step is what a handler does  *)
(* between two awaits that may suspend it: the code up to and including    *)
(* the write of a ws.send, one SQLite statement, or the raise of a send    *)
(* whose connection went away.  Between two steps every other handler may  *)
(* run, a client may connect or vanish, and the process may be killed.     *)
(*                                                                         *)
(* ws.send (websockets 12, external): on an open connection the frame is   *)
(* written at once and the call returns later, or raises if the connection *)
(* closes while it waits; on a closed one nothing is written and it raises.*)
(***************************************************************************)
EXTENDS Integers, Sequences, FiniteSets, Functions

CONSTANTS
  User, Conn, Pkt,  \* usernames, connections, packets that clients may submit
  NoUser, NoConn, NoPkt,
  Kind,             \* Kind[p]: how `handle` treats the type of p
  To,               \* To[p]: the "to" field of p
  Key,              \* Key[p]: the offline_queue.id under which p would be stored
  MaxCrash,         \* bound: process kills
  Logins,           \* bound: Logins[c], the users that log in on c, each once
  Syncing           \* bound: the connections whose client sends SYNC_REQUEST

ASSUME NullAssumption == NoUser \notin User /\ NoConn \notin Conn /\ NoPkt \notin Pkt
ASSUME PktAssumption ==
  /\ Kind \in [Pkt -> {"message", "edit", "notice", "hint"}]
  /\ To \in [Pkt -> User]
  /\ \A p, q \in Pkt : Key[p] = Key[q] => To[p] = To[q]
ASSUME BoundAssumption == MaxCrash \in Nat /\ Logins \in [Conn -> SUBSET User]
                          /\ Syncing \subseteq Conn

VARIABLES
  sock,      \* sock[c]: "unused" before the client connects, then open, then closed
  h,         \* h[c]: the locals of the handler of c
  router,    \* router._connections
  queue,     \* queue[u]: the offline_queue rows of u in created_at order
  crashes,   \* process kills so far
  wire,      \* history: the packets written to c, in order
  recvd,     \* history: the packets the handler of c took from c, in order
  told,      \* history: the status the DELIVERY for p was written with
  owners,    \* history: the users that were registered with c
  overrun,   \* history: rows a clear deleted that its flush had not read
  shadowed   \* history: packets INSERT OR IGNORE ignored

vars == <<sock, h, router, queue, crashes, wire, recvd, told, owners, overrun, shadowed>>
history == <<recvd, told, owners, overrun, shadowed>>

Step == {"recv", "sending", "enqueue", "ack", "flush", "sync", "clear",
         "announce", "online", "raise", "offline", "done"}
Status == {"none", "delivered", "queued", "edited"}
Locals == [pc : Step, user : User \cup {NoUser},   \* `username`
           who : User \cup {NoUser},               \* result["username"] while authenticating
           cur : Pkt \cup {NoPkt},                 \* `pkt`
           tgt : Conn \cup {NoConn},               \* `target_ws`
           stat : Status, snap : Seq(Pkt),         \* `status`, `queued`
           todo : SUBSET (User \X Conn)]           \* what _broadcast_status has left to send

At(s, u) == [pc |-> s, user |-> u, who |-> NoUser, cur |-> NoPkt, tgt |-> NoConn,
             stat |-> "none", snap |-> <<>>, todo |-> {}]
Open(c) == sock[c] = "open"
Pc(c, s) == sock[c] # "unused" /\ h[c].pc = s
\* Whose rows this handler flushes: the user logging in, else its own user.
Box(c) == IF h[c].who # NoUser THEN h[c].who ELSE h[c].user
\* list(router._connections.items()) without the user the status is about.
Others(u) == {<<v, router[v]>> : v \in {x \in User \ {u} : router[x] # NoConn}}

Init == /\ sock = [c \in Conn |-> "unused"]
        /\ h = [c \in Conn |-> At("recv", NoUser)]
        /\ router = [u \in User |-> NoConn]
        /\ queue = [u \in User |-> <<>>]
        /\ crashes = 0
        /\ wire = [c \in Conn |-> <<>>] /\ recvd = [c \in Conn |-> <<>>]
        /\ told = [p \in Pkt |-> "none"] /\ owners = [c \in Conn |-> {}]
        /\ overrun = {} /\ shadowed = {}

-----------------------------------------------------------------------------
\* The clients and the network.

Connect(c) == /\ sock[c] = "unused"
              /\ sock' = [sock EXCEPT ![c] = "open"]
              /\ UNCHANGED <<h, router, queue, crashes, wire, history>>

\* The connection closes: by the client, by its death, by a keepalive timeout.
Drop(c) == /\ Open(c)
           /\ sock' = [sock EXCEPT ![c] = "closed"]
           /\ UNCHANGED <<h, router, queue, crashes, wire, history>>

\* Mutant of Crash: the offline queue is kept in memory.
CrashLosesQueue ==
  /\ crashes < MaxCrash /\ crashes' = crashes + 1
  /\ sock' = [c \in Conn |-> IF Open(c) THEN "closed" ELSE sock[c]]
  /\ h' = [c \in Conn |-> IF sock[c] = "unused" THEN h[c] ELSE At("done", NoUser)]
  /\ router' = [u \in User |-> NoConn]
  /\ queue' = [u \in User |-> <<>>]
  /\ UNCHANGED <<wire, history>>

\* The process is killed and started again: SQLite survives, memory does not.
Crash == /\ crashes < MaxCrash
         /\ crashes' = crashes + 1
         /\ sock' = [c \in Conn |-> IF Open(c) THEN "closed" ELSE sock[c]]
         /\ h' = [c \in Conn |-> IF sock[c] = "unused" THEN h[c] ELSE At("done", NoUser)]
         /\ router' = [u \in User |-> NoConn]
         /\ UNCHANGED <<queue, wire, history>>

-----------------------------------------------------------------------------
\* The end of a handler: the `finally` of `handle`, then websockets closes c.

\* Mutant of Finish: `finally` broadcasts but does not unregister.
FinishRegistered(c) ==
  LET u == h[c].user IN
  /\ h' = [h EXCEPT ![c] = IF u = NoUser THEN At("done", NoUser)
                           ELSE [At("offline", u) EXCEPT !.todo = Others(u)]]
  /\ sock' = IF u = NoUser THEN [sock EXCEPT ![c] = "closed"] ELSE sock
  /\ UNCHANGED <<router, queue, crashes, wire, history>>

\* Unregister the current user by name, then start telling the others.
Finish(c) ==
  LET u == h[c].user IN
  /\ IF u = NoUser
       THEN /\ h' = [h EXCEPT ![c] = At("done", NoUser)]
            /\ sock' = [sock EXCEPT ![c] = "closed"]
            /\ UNCHANGED router
       ELSE /\ h' = [h EXCEPT ![c] = [At("offline", u) EXCEPT !.todo = Others(u)]]
            /\ router' = [router EXCEPT ![u] = NoConn]
            /\ UNCHANGED sock
  /\ UNCHANGED <<queue, crashes, wire, history>>

\* A send on a closed connection raises out of the loop.
Raise(c) == Pc(c, "raise") /\ Finish(c)

\* A send that had written its frame raises, its connection closed meanwhile:
\* the AUTH_RESPONSE (next step "flush") or the SYNC_RESPONSE (next step "clear").
RaiseLate(c) == /\ \/ Pc(c, "flush") /\ h[c].who # NoUser
                   \/ Pc(c, "clear") /\ (h[c].who = NoUser \/ h[c].snap # <<>>)
                /\ ~Open(c)
                /\ Finish(c)

\* `async for raw in ws` ends because the connection closed.  A failed reply to
\* the handler's own client that changes nothing else (PONG, ERROR) ends here too.
Closed(c) == Pc(c, "recv") /\ ~Open(c) /\ Finish(c)

\* AUTH_LOGOUT breaks the loop.
Logout(c) == Pc(c, "recv") /\ Open(c) /\ Finish(c)

-----------------------------------------------------------------------------
\* Presence: _broadcast_status, one send after the other.

\* Mutant of SendStatus: a send that fails is tried again.
SendStatusRetries(c) ==
  /\ Pc(c, "online") \/ Pc(c, "offline")
  /\ \E t \in h[c].todo :
       h' = [h EXCEPT ![c].todo = IF Open(t[2]) THEN @ \ {t} ELSE @]
  /\ UNCHANGED <<sock, router, queue, crashes, wire, history>>

\* A send that fails unregisters the addressee, whatever it is registered with now.
SendStatus(c) ==
  /\ Pc(c, "online") \/ Pc(c, "offline")
  /\ \E t \in h[c].todo :
       /\ h' = [h EXCEPT ![c].todo = @ \ {t}]
       /\ router' = IF Open(t[2]) THEN router ELSE [router EXCEPT ![t[1]] = NoConn]
  /\ UNCHANGED <<sock, queue, crashes, wire, history>>

\* _on_auth_success returns and `username` is set.
LoggedIn(c) == /\ Pc(c, "online") /\ h[c].todo = {}
               /\ h' = [h EXCEPT ![c] = At("recv", h[c].who)]
               /\ UNCHANGED <<sock, router, queue, crashes, wire, history>>

Done(c) == /\ Pc(c, "offline") /\ h[c].todo = {}
           /\ h' = [h EXCEPT ![c] = At("done", h[c].user)]
           /\ sock' = [sock EXCEPT ![c] = "closed"]
           /\ UNCHANGED <<router, queue, crashes, wire, history>>

-----------------------------------------------------------------------------
\* Authentication and synchronisation.

\* A login, token login or registration of u succeeded: register, AUTH_RESPONSE.
RecvAuth(c, u) ==
  /\ Pc(c, "recv") /\ u \in Logins[c] \ owners[c]
  /\ router' = [router EXCEPT ![u] = c]
  /\ h' = [h EXCEPT ![c] = [At(IF Open(c) THEN "flush" ELSE "raise", h[c].user)
                              EXCEPT !.who = u]]
  /\ owners' = [owners EXCEPT ![c] = @ \cup {u}]
  /\ UNCHANGED <<sock, queue, crashes, wire, recvd, told, overrun, shadowed>>

RecvSyncRequest(c) ==
  /\ Pc(c, "recv") /\ h[c].user # NoUser /\ c \in Syncing
  /\ h' = [h EXCEPT ![c] = At("flush", h[c].user)]
  /\ UNCHANGED <<sock, router, queue, crashes, wire, history>>

\* Mutant of Flush: the SELECT has no WHERE to_user.
FlushAnybody(c) ==
  /\ Pc(c, "flush")
  /\ \E u \in User :
       h' = [h EXCEPT ![c].snap = queue[u],
                      ![c].pc = IF queue[u] = <<>> THEN "clear" ELSE "sync"]
  /\ UNCHANGED <<sock, router, queue, crashes, wire, history>>

\* offline.flush: all rows after a login, those after `since` for a SYNC_REQUEST.
Flush(c) ==
  LET rows == queue[Box(c)]
      login == h[c].who # NoUser
  IN /\ Pc(c, "flush")
     /\ \E first \in 1..(Len(rows) + 1) :
          LET read == SubSeq(rows, first, Len(rows)) IN
          /\ login => first = 1
          /\ h' = [h EXCEPT ![c].snap = read,
                            ![c].pc = IF login /\ read = <<>> THEN "clear" ELSE "sync"]
     /\ UNCHANGED <<sock, router, queue, crashes, wire, history>>

\* The SYNC_RESPONSE with what flush read.
Sync(c) ==
  /\ Pc(c, "sync")
  /\ wire' = IF Open(c) THEN [wire EXCEPT ![c] = @ \o h[c].snap] ELSE wire
  /\ h' = [h EXCEPT ![c].pc = IF Open(c) THEN "clear" ELSE "raise"]
  /\ UNCHANGED <<sock, router, queue, crashes, history>>

\* offline.clear deletes every row of the user.
Clear(c) ==
  LET u == Box(c) IN
  /\ Pc(c, "clear")
  /\ queue' = [queue EXCEPT ![u] = <<>>]
  /\ overrun' = overrun \cup (Range(queue[u]) \ Range(h[c].snap))
  /\ h' = [h EXCEPT ![c] = IF h[c].who = NoUser THEN At("recv", u)
                           ELSE [At("announce", h[c].user) EXCEPT !.who = u]]
  /\ UNCHANGED <<sock, router, crashes, wire, recvd, told, owners, shadowed>>

Announce(c) ==
  /\ Pc(c, "announce")
  /\ h' = [h EXCEPT ![c].pc = "online", ![c].todo = Others(h[c].who)]
  /\ UNCHANGED <<sock, router, queue, crashes, wire, history>>

-----------------------------------------------------------------------------
\* Packets for another user.

\* What follows a successful send or a finished enqueue.
Answer(c, status) ==
  h' = [h EXCEPT ![c] =
         CASE Kind[@.cur] = "message" -> [@ EXCEPT !.pc = "ack", !.stat = status]
           [] Kind[@.cur] = "edit" -> [@ EXCEPT !.pc = "ack", !.stat = "edited"]
           [] OTHER -> At("recv", @.user)]

\* Look the recipient up and, if it is registered, start the send.
RecvPacket(c, p) ==
  LET t == router[To[p]]
      to(s) == [h[c] EXCEPT !.pc = s, !.cur = p, !.tgt = t]
  IN /\ Pc(c, "recv") /\ h[c].user # NoUser
     /\ \A d \in Conn : p \notin Range(recvd[d])
     /\ recvd' = [recvd EXCEPT ![c] = Append(@, p)]
     /\ h' = [h EXCEPT ![c] = CASE t # NoConn -> to("sending")
                                [] t = NoConn /\ Kind[p] = "hint" -> @
                                [] OTHER -> to("enqueue")]
     /\ wire' = IF t # NoConn /\ Open(t) THEN [wire EXCEPT ![t] = Append(@, p)] ELSE wire
     /\ UNCHANGED <<sock, router, queue, crashes, told, owners, overrun, shadowed>>

SendReturns(c) == /\ Pc(c, "sending") /\ h[c].cur \in Range(wire[h[c].tgt])
                  /\ Answer(c, "delivered")
                  /\ UNCHANGED <<sock, router, queue, crashes, wire, history>>

\* MESSAGE and the FILE_ packets fall back to the queue, READ and TYPING give
\* up, MESSAGE_EDIT and MESSAGE_DELETE do not catch it.
SendRaises(c) ==
  /\ Pc(c, "sending") /\ ~Open(h[c].tgt)
  /\ h' = [h EXCEPT ![c] = CASE Kind[@.cur] = "edit" -> [@ EXCEPT !.pc = "raise"]
                             [] Kind[@.cur] = "hint" -> At("recv", @.user)
                             [] OTHER -> [@ EXCEPT !.pc = "enqueue"]]
  /\ UNCHANGED <<sock, router, queue, crashes, wire, history>>

\* Mutants of Enqueue: the status is the one of a send; the newest row comes first.
EnqueueTellsDelivered(c) ==
  /\ Pc(c, "enqueue")
  /\ queue' = [queue EXCEPT ![To[h[c].cur]] = Append(@, h[c].cur)]
  /\ Answer(c, "delivered")
  /\ UNCHANGED <<sock, router, crashes, wire, history>>
EnqueueNewestFirst(c) ==
  /\ Pc(c, "enqueue")
  /\ queue' = [queue EXCEPT ![To[h[c].cur]] = <<h[c].cur>> \o @]
  /\ Answer(c, "queued")
  /\ UNCHANGED <<sock, router, crashes, wire, history>>

\* INSERT OR IGNORE on the primary key.
Enqueue(c) ==
  LET p == h[c].cur
      clash == \E r \in Range(queue[To[p]]) : Key[r] = Key[p]
  IN /\ Pc(c, "enqueue")
     /\ queue' = IF clash THEN queue ELSE [queue EXCEPT ![To[p]] = Append(@, p)]
     /\ shadowed' = IF clash THEN shadowed \cup {p} ELSE shadowed
     /\ Answer(c, "queued")
     /\ UNCHANGED <<sock, router, crashes, wire, recvd, told, owners, overrun>>

\* The DELIVERY to the sender.
Ack(c) ==
  /\ Pc(c, "ack")
  /\ told' = IF Open(c) THEN [told EXCEPT ![h[c].cur] = h[c].stat] ELSE told
  /\ h' = [h EXCEPT ![c] = IF Open(c) THEN At("recv", @.user) ELSE At("raise", @.user)]
  /\ UNCHANGED <<sock, router, queue, crashes, wire, recvd, owners, overrun, shadowed>>

-----------------------------------------------------------------------------
\* What the event loop always gets round to, and what clients may do.
Resume(c) == \/ Raise(c) \/ RaiseLate(c) \/ Closed(c)
             \/ SendStatus(c) \/ LoggedIn(c) \/ Done(c)
             \/ Flush(c) \/ Sync(c) \/ Clear(c) \/ Announce(c)
             \/ SendReturns(c) \/ SendRaises(c) \/ Enqueue(c) \/ Ack(c)

Input(c) == \/ Connect(c) \/ Drop(c) \/ Logout(c) \/ RecvSyncRequest(c)
            \/ \E u \in User : RecvAuth(c, u)
            \/ \E p \in Pkt : RecvPacket(c, p)

Next == Crash \/ \E c \in Conn : Resume(c) \/ Input(c)

\* asyncio runs every ready handler, and every send returns or raises: the
\* keepalive of websockets closes a peer that stops reading.
Fairness == \A c \in Conn : WF_vars(Resume(c))

Spec == Init /\ [][Next]_vars /\ Fairness

-----------------------------------------------------------------------------
\* Properties.

TypeOK ==
  /\ sock \in [Conn -> {"unused", "open", "closed"}]
  /\ h \in [Conn -> Locals]
  /\ router \in [User -> Conn \cup {NoConn}]
  /\ queue \in [User -> Seq(Pkt)]
  /\ crashes \in 0..MaxCrash
  /\ wire \in [Conn -> Seq(Pkt)] /\ recvd \in [Conn -> Seq(Pkt)]
  /\ told \in [Pkt -> Status]
  /\ owners \in [Conn -> SUBSET User]
  /\ overrun \in SUBSET Pkt /\ shadowed \in SUBSET Pkt

\* A packet reaches only connections its recipient logged in on: neither the
\* name-keyed router, nor a look-up made before an await, nor a flush crosses users.
WrittenToOwner ==
  \A c \in Conn : \A p \in Range(wire[c]) : To[p] \in owners[c]

\* When a handler is about to delete a user's rows, all it read of them has been
\* written to its connection: a failed or interrupted SYNC_RESPONSE deletes nothing.
ReadRowsWritten ==
  \A c \in Conn : Pc(c, "clear") => Range(h[c].snap) \subseteq Range(wire[c])

\* A sender that reads "delivered" for a message can rely on it having been
\* written exactly once: it is not in the queue, so no later sync repeats it.
DeliveredOnce ==
  \A p \in Pkt : told[p] = "delivered" =>
    /\ p \notin Range(queue[To[p]])
    /\ \E c \in Conn : \E i \in DOMAIN wire[c] :
         /\ wire[c][i] = p
         /\ \A d \in Conn : \A j \in DOMAIN wire[d] :
              wire[d][j] = p => d = c /\ j = i

\* A SYNC_RESPONSE never reverses two packets that one connection sent to the
\* user: README's "synced in order on reconnect" among the queued packets.
SyncedInOrder ==
  \A c, d \in Conn : \A i, j \in DOMAIN h[d].snap : \A m, n \in DOMAIN recvd[c] :
    /\ i < j
    /\ h[d].snap[i] = recvd[c][m] /\ h[d].snap[j] = recvd[c][n]
    => m < n

\* Once a handler has finished, its last user is not routed to its connection.
NoRouteToEndedHandler ==
  \A c \in Conn : Pc(c, "done") /\ h[c].user # NoUser => router[h[c].user] # c

\* Where a packet is, for the abstract specification.  A row that another
\* handler has read and not yet sent still counts as stored.
Written(p) == \E c \in Conn : p \in Range(wire[c])
Stored(p) == \/ p \in Range(queue[To[p]])
             \/ \E c \in Conn : Pc(c, "sync") /\ p \in Range(h[c].snap)
PlaceOf(p) == CASE Written(p) -> "written"
                [] ~Written(p) /\ Stored(p) -> "stored"
                [] ~Written(p) /\ ~Stored(p) /\ p \in overrun \cup shadowed -> "lost"
                [] OTHER -> "new"
Box_ == INSTANCE Mailbox WITH place <- [p \in Pkt |-> PlaceOf(p)],
                              Status <- Status \ {"none"}

\* The server implements Mailbox: acknowledgements are never early, nothing
\* written or stored is forgotten but by a clear that overran its flush, and
\* only the key clash of the queue refuses a packet.
ImplementsMailbox == Box_!MailboxSpec

\* Every handler that is in the middle of something gets back to its loop while its
\* connection is open, or is cleaned up: no set of sends, database calls and broadcasts
\* waits for itself, and no closed connection is left behind.
HandlersReturn == \A c \in Conn :
  (sock[c] # "unused") ~> (Pc(c, "recv") /\ Open(c)) \/ Pc(c, "done")
=============================================================================
