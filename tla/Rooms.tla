------------------------------- MODULE Rooms --------------------------------
(***************************************************************************)
(* Rooms: the tables and the fan-out of server/rooms.py, the ROOM_         *)
(* branches of handle (server/ws_server.py), RoomHandler                   *)
(* (client/handlers/room.py), the client's rooms table and what App        *)
(* (client/app.py) does with both.  Per user there are the handler of the  *)
(* connection and, at the client, the coroutine that runs his commands     *)
(* (`ui`) and the one that reads the connection (`net`); each is suspended *)
(* at every statement, send and wait, and the others run meanwhile.        *)
(*                                                                         *)
(* A client logs in once.  After a break it connects again but not as the  *)
(* user, and what it sends is refused: here its connection stays down, and *)
(* Start runs the program again.  WSClient's queue is part of the wire.    *)
(***************************************************************************)
EXTENDS Integers, Sequences, FiniteSets

CONSTANTS
  User, Room,
  Message,    \* what may be written to a room
  NoRoom, NoMessage,
  Author,     \* who writes it
  Founded,    \* the members of the rooms that are there at the start
  Knows,      \* whose public keys a user has; nobody's without an unlocked key of his own
  Does,       \* bound: the commands a user gives, with the rooms they name
  MaxCommand, \* bound: how many, in all runs of his client
  Slow,       \* bound: whose requests may be answered too late over a connection that is up
  Breaks,     \* bound: whose connection breaks
  MaxRun,     \* bound: runs of a client
  MaxCrash    \* bound: kills and restarts of the server

Kinds == {"create", "join", "leave", "post"}

ASSUME RoomsAssumption ==
  /\ NoRoom \notin Room /\ NoMessage \notin Message
  /\ Founded \in [Room -> SUBSET User]
  /\ Author \in [Message -> User] /\ Knows \in [User -> SUBSET User]
  /\ Does \in [User -> SUBSET (Kinds \X (Room \cup {NoRoom}))]
  /\ MaxCommand \in [User -> Nat] /\ Slow \subseteq User /\ Breaks \subseteq User
  /\ MaxRun \in [User -> Nat \ {0}] /\ MaxCrash \in Nat

VARIABLES
  rooms,    \* the server's rows: rooms,
  members,  \* room_members,
  queue,    \*   and offline_queue, as the messages kept for a user
  link,     \* a user's connection and what is under way on it
  h,        \* its handler; the user is routed until it ends
  crashes,  \* kills so far
  ui,       \* the command under way at a client
  net,      \* its reader: the change to its rooms that it is about to make
  rows,     \* the client's rooms table
  runs,     \* runs of the client
  commands, \* commands so far, and the req_id of the last one
  posted,   \* the messages written
  sealed,   \* the `payloads` of a message, {} when it went out as plain text
  audience, \* history: the members a message was sent to, those of them left out below
  listed,   \* history: the members its author was told of before he sealed it
  acked,    \* history: the messages whose author was told "delivered"
  got,      \* history: the messages a client has shown
  gone,     \* history: copies that ended with a connection or a clear
  granted,  \* history: the requests the server has fulfilled
  told      \* history: those a client took to be fulfilled

srvVars == <<rooms, members, queue, h, crashes, audience, listed, acked, granted>>
cliVars == <<ui, net, rows, runs, commands, posted, sealed, got, told>>
rmVars == <<srvVars, cliVars, link, gone>>

Ask(type, req, r, m) == [type |-> type, req |-> req, room |-> r, msg |-> m]
Info(req, ok, r, left) == [type |-> "info", req |-> req, ok |-> ok, room |-> r, left |-> left]
List(req, us) == [type |-> "list", req |-> req, members |-> us]
Texts(ms) == [type |-> "texts", msgs |-> ms]  \* a ROOM_MESSAGE, or a SYNC_RESPONSE
Plain(type) == [type |-> type]                \* ERROR and DELIVERY

Idle == [pc |-> "idle", kind |-> "none", room |-> NoRoom, msg |-> NoMessage, result |-> {}]
Recv == [pc |-> "recv", room |-> NoRoom, msg |-> NoMessage, todo |-> {}, at |-> {}, out |-> {}]
Quiet == [do |-> "none", room |-> NoRoom]
Up == [up |-> TRUE, in |-> <<>>, out |-> <<>>]
Down == [Up EXCEPT !.up = FALSE]

\* Everyone has logged in, and some rooms have been created and joined.
RmInit ==
  /\ rooms = {r \in Room : Founded[r] # {}} /\ members = Founded /\ queue = [u \in User |-> {}]
  /\ link = [u \in User |-> Up] /\ h = [u \in User |-> Recv] /\ crashes = 0
  /\ ui = [u \in User |-> Idle] /\ net = [u \in User |-> Quiet]
  /\ rows = [u \in User |-> {r \in Room : u \in Founded[r]}]
  /\ runs = [u \in User |-> 1] /\ commands = [u \in User |-> 0]
  /\ posted = {} /\ sealed = [m \in Message |-> {}]
  /\ audience = [m \in Message |-> {}] /\ listed = [m \in Message |-> {}] /\ acked = {}
  /\ got = [u \in User |-> {}] /\ gone = [u \in User |-> {}]
  /\ granted = {} /\ told = {}

-----------------------------------------------------------------------------
\* Connections.

\* The copies in a sequence of packets.
Copies(s) == UNION {s[i].msgs : i \in {j \in DOMAIN s : s[j].type = "texts"}}

\* The program is started again, after it ended or its connection was lost, and logs in:
\* router.register, then the flush.  What had arrived is not looked at any more.
Start(u) ==
  /\ ui[u].pc \in {"off", "idle"} /\ ~link[u].up /\ net[u] = Quiet /\ h[u].pc = "ended"
  /\ runs[u] < MaxRun[u] /\ runs' = [runs EXCEPT ![u] = @ + 1]
  /\ ui' = [ui EXCEPT ![u] = Idle]
  /\ link' = [link EXCEPT ![u] = Up]
  /\ gone' = [gone EXCEPT ![u] = @ \cup Copies(link[u].in)]
  /\ h' = [h EXCEPT ![u].pc = "read"]
  /\ UNCHANGED <<rooms, members, queue, crashes, audience, listed, acked, granted, net, rows,
                 commands, posted, sealed, got, told>>

\* The connection is lost; of what is under way either way a first part arrives.
Break(u) ==
  /\ u \in Breaks /\ link[u].up
  /\ \E i \in 0..Len(link[u].in), o \in 0..Len(link[u].out) :
       /\ link' = [link EXCEPT ![u] = [up |-> FALSE, in |-> SubSeq(@.in, 1, i),
                                       out |-> SubSeq(@.out, 1, o)]]
       /\ gone' = [gone EXCEPT ![u] = @ \cup Copies(SubSeq(link[u].in, i + 1, Len(link[u].in)))]
  /\ UNCHANGED <<srvVars, cliVars>>

-----------------------------------------------------------------------------
\* The server.  A send raises when the connection is down.

Send(u, p) == link' = [link EXCEPT ![u].in = Append(@, p)]
Go(u, pc) == h' = [h EXCEPT ![u].pc = pc]

\* _flush_offline: the rows are read, sent and cleared.
FlushRead(u) ==
  /\ h[u].pc = "read"
  /\ h' = [h EXCEPT ![u].pc = IF queue[u] = {} THEN "clear" ELSE "flush", ![u].todo = queue[u]]
  /\ UNCHANGED <<rooms, members, queue, crashes, audience, listed, acked, granted, link, gone,
                 cliVars>>
FlushSend(u) ==
  /\ h[u].pc = "flush"
  /\ IF link[u].up THEN Send(u, Texts(h[u].todo)) /\ Go(u, "clear")
                   ELSE h' = [h EXCEPT ![u] = [Recv EXCEPT !.pc = "end"]] /\ UNCHANGED link
  /\ UNCHANGED <<rooms, members, queue, crashes, audience, listed, acked, granted, gone, cliVars>>
FlushClear(u) ==
  /\ h[u].pc = "clear"
  /\ queue' = [queue EXCEPT ![u] = {}]
  /\ gone' = [gone EXCEPT ![u] = @ \cup (queue[u] \ h[u].todo)]
  /\ h' = [h EXCEPT ![u] = Recv]
  /\ UNCHANGED <<rooms, members, crashes, audience, listed, acked, granted, link, cliVars>>

\* The next frame of the connection.
Takes(u, type) == /\ h[u].pc = "recv" /\ link[u].out # <<>> /\ Head(link[u].out).type = type
                  /\ link' = [link EXCEPT ![u].out = Tail(@)]
Frame(u) == Head(link[u].out)
Answers(u, p) == h' = [h EXCEPT ![u].pc = "answer", ![u].out = {p}]
Grants(u, p) == granted' = granted \cup {<<u, p.req>>}

\* Mutant of ServeCreate: the member is committed, the room is not.
ServeCreateHalf(u) ==
  /\ Takes(u, "create")
  /\ \E r \in Room \ rooms :
       /\ members' = [members EXCEPT ![r] = {u}]
       /\ Answers(u, Info(Frame(u).req, TRUE, r, FALSE))
  /\ Grants(u, Frame(u))
  /\ UNCHANGED <<rooms, queue, crashes, audience, listed, acked, gone, cliVars>>

\* ROOM_CREATE: create_room commits the room and its first member together.
ServeCreate(u) ==
  /\ Takes(u, "create")
  /\ \E r \in Room \ rooms :
       /\ rooms' = rooms \cup {r} /\ members' = [members EXCEPT ![r] = {u}]
       /\ Answers(u, Info(Frame(u).req, TRUE, r, FALSE))
  /\ Grants(u, Frame(u))
  /\ UNCHANGED <<queue, crashes, audience, listed, acked, gone, cliVars>>

\* ROOM_JOIN: room_exists.
ServeJoin(u) ==
  /\ Takes(u, "join")
  /\ LET p == Frame(u) IN
     IF p.room \in rooms
       THEN h' = [h EXCEPT ![u].pc = "insert", ![u].out = {Info(p.req, TRUE, p.room, FALSE)}]
       ELSE Answers(u, Info(p.req, FALSE, p.room, FALSE))
  /\ UNCHANGED <<rooms, members, queue, crashes, audience, listed, acked, granted, gone, cliVars>>

\* join_room's INSERT OR IGNORE.
Insert(u) ==
  /\ h[u].pc = "insert"
  /\ \E p \in h[u].out : /\ members' = [members EXCEPT ![p.room] = @ \cup {u}]
                         /\ Grants(u, p)
  /\ Go(u, "answer")
  /\ UNCHANGED <<rooms, queue, crashes, audience, listed, acked, link, gone, cliVars>>

\* ROOM_LEAVE
ServeLeave(u) ==
  /\ Takes(u, "leave")
  /\ LET p == Frame(u) IN /\ members' = [members EXCEPT ![p.room] = @ \ {u}]
                          /\ Answers(u, Info(0, TRUE, p.room, TRUE))
  /\ UNCHANGED <<rooms, queue, crashes, audience, listed, acked, granted, gone, cliVars>>

\* Mutant of Present: only the members that are connected are listed.
PresentOnline(r) == {v \in members[r] : h[v].pc # "ended"}
\* get_members
Present(r) == members[r]

\* ROOM_MEMBERS
ServeMembers(u) ==
  /\ Takes(u, "members")
  /\ LET p == Frame(u) IN /\ Answers(u, List(p.req, Present(p.room)))
                          /\ listed' = [listed EXCEPT ![p.msg] = members[p.room]]
  /\ UNCHANGED <<rooms, members, queue, crashes, audience, acked, granted, gone, cliVars>>

\* ROOM_MESSAGE: who is not a member is refused.
ServePost(u) ==
  /\ Takes(u, "post")
  /\ LET p == Frame(u) IN
     IF u \in members[p.room]
       THEN h' = [h EXCEPT ![u].pc = "route", ![u].room = p.room, ![u].msg = p.msg]
       ELSE Answers(u, Plain("error"))
  /\ UNCHANGED <<rooms, members, queue, crashes, audience, listed, acked, granted, gone, cliVars>>

\* route_room_message reads the members once, for the whole fan-out.
Route(u) ==
  /\ h[u].pc = "route"
  /\ LET to == members[h[u].room] \ {u} IN
     /\ h' = [h EXCEPT ![u].pc = "fanout", ![u].todo = to]
     /\ audience' = [audience EXCEPT ![h[u].msg] = to]
  /\ UNCHANGED <<rooms, members, queue, crashes, listed, acked, granted, link, gone, cliVars>>

\* Mutant of Hand: the packet is given up when the send raises.
HandOnce(u, v) ==
  LET served == h[v].pc # "ended"
  IN IF served THEN /\ h' = [h EXCEPT ![u].todo = @ \ {v}]
                    /\ IF link[v].up THEN Send(v, Texts({h[u].msg})) ELSE UNCHANGED link
     ELSE /\ h' = [h EXCEPT ![u].pc = "enqueue", ![u].todo = @ \ {v}, ![u].at = {v}]
          /\ UNCHANGED link

\* One member: over the connection if there is one and it takes the packet.
Hand(u, v) ==
  LET sent == h[v].pc # "ended" /\ link[v].up
  IN IF sent THEN h' = [h EXCEPT ![u].todo = @ \ {v}] /\ Send(v, Texts({h[u].msg}))
     ELSE /\ h' = [h EXCEPT ![u].pc = "enqueue", ![u].todo = @ \ {v}, ![u].at = {v}]
          /\ UNCHANGED link

FanOut(u) ==
  /\ h[u].pc = "fanout"
  /\ \E v \in h[u].todo : Hand(u, v)
  /\ UNCHANGED <<rooms, members, queue, crashes, audience, listed, acked, granted, gone, cliVars>>

\* offline.enqueue: INSERT OR IGNORE.
Enqueue(u) ==
  /\ h[u].pc = "enqueue"
  /\ queue' = [v \in User |-> IF v \in h[u].at THEN queue[v] \cup {h[u].msg} ELSE queue[v]]
  /\ h' = [h EXCEPT ![u].pc = "fanout", ![u].at = {}]
  /\ UNCHANGED <<rooms, members, crashes, audience, listed, acked, granted, link, gone, cliVars>>

\* The author is told "delivered", however the copies went.
Delivered(u) ==
  /\ h[u].pc = "fanout" /\ h[u].todo = {}
  /\ IF link[u].up THEN /\ Send(u, Plain("delivery")) /\ acked' = acked \cup {h[u].msg}
                        /\ h' = [h EXCEPT ![u] = Recv]
                   ELSE h' = [h EXCEPT ![u] = [Recv EXCEPT !.pc = "end"]] /\ UNCHANGED <<link, acked>>
  /\ UNCHANGED <<rooms, members, queue, crashes, audience, listed, granted, gone, cliVars>>

Answer(u) ==
  /\ h[u].pc = "answer"
  /\ IF link[u].up THEN (\E p \in h[u].out : Send(u, p)) /\ h' = [h EXCEPT ![u] = Recv]
                   ELSE h' = [h EXCEPT ![u] = [Recv EXCEPT !.pc = "end"]] /\ UNCHANGED link
  /\ UNCHANGED <<rooms, members, queue, crashes, audience, listed, acked, granted, gone, cliVars>>

\* The handler's finally block: router.unregister.
End(u) ==
  /\ h[u].pc = "end" \/ (h[u].pc = "recv" /\ ~link[u].up /\ link[u].out = <<>>)
  /\ h' = [h EXCEPT ![u] = [Recv EXCEPT !.pc = "ended"]]
  /\ link' = [link EXCEPT ![u].out = <<>>]
  /\ UNCHANGED <<rooms, members, queue, crashes, audience, listed, acked, granted, gone, cliVars>>

\* The server is killed and started again.
Crash ==
  /\ crashes < MaxCrash /\ crashes' = crashes + 1
  /\ h' = [u \in User |-> [Recv EXCEPT !.pc = "ended"]]
  /\ link' = [u \in User |-> [Down EXCEPT !.in = link[u].in]]
  /\ UNCHANGED <<rooms, members, queue, audience, listed, acked, granted, gone, cliVars>>

-----------------------------------------------------------------------------
\* The client: commands.

Gives(u, kind, r) ==
  /\ ui[u].pc = "idle" /\ <<kind, r>> \in Does[u] /\ commands[u] < MaxCommand[u]
  /\ commands' = [commands EXCEPT ![u] = @ + 1]
Writes(u, p) == link' = IF link[u].up THEN [link EXCEPT ![u].out = Append(@, p)] ELSE link
Waits(u, kind, r, m) ==
  ui' = [ui EXCEPT ![u] = [pc |-> "wait", kind |-> kind, room |-> r, msg |-> m, result |-> {}]]
Rests(u) == ui' = [ui EXCEPT ![u] = Idle]

Create(u) ==
  /\ Gives(u, "create", NoRoom)
  /\ Writes(u, Ask("create", commands'[u], NoRoom, NoMessage)) /\ Waits(u, "create", NoRoom, NoMessage)
  /\ UNCHANGED <<srvVars, net, rows, runs, posted, sealed, got, told, gone>>
Join(u, r) ==
  /\ Gives(u, "join", r)
  /\ Writes(u, Ask("join", commands'[u], r, NoMessage)) /\ Waits(u, "join", r, NoMessage)
  /\ UNCHANGED <<srvVars, net, rows, runs, posted, sealed, got, told, gone>>

\* Not answered to; the row is deleted at once, and again when ROOM_INFO arrives.
Leave(u, r) ==
  /\ Gives(u, "leave", r)
  /\ Writes(u, Ask("leave", 0, r, NoMessage))
  /\ ui' = [ui EXCEPT ![u] = [Idle EXCEPT !.pc = "drop", !.room = r]]
  /\ UNCHANGED <<srvVars, net, rows, runs, posted, sealed, got, told, gone>>

\* send_message asks for the members first if it can seal the text.
Post(u, m, r) ==
  /\ Gives(u, "post", r) /\ Author[m] = u /\ m \notin posted /\ posted' = posted \cup {m}
  /\ IF Knows[u] = {}
       THEN Writes(u, Ask("post", 0, r, m)) /\ UNCHANGED ui
       ELSE Writes(u, Ask("members", commands'[u], r, m)) /\ Waits(u, "post", r, m)
  /\ UNCHANGED <<srvVars, net, rows, runs, sealed, got, told, gone>>

\* The text goes out, for the members whose keys are known if there are any.
Transmit(u, list) ==
  /\ Writes(u, Ask("post", 0, ui[u].room, ui[u].msg))
  /\ sealed' = [sealed EXCEPT ![ui[u].msg] = (list \ {u}) \cap Knows[u]]
  /\ Rests(u)

\* The answer has come.
Conclude(u) ==
  /\ ui[u].pc = "wait"
  /\ \E p \in ui[u].result :
       \/ /\ ui[u].kind = "post" /\ Transmit(u, p.members) /\ UNCHANGED told
       \/ /\ ui[u].kind \in {"create", "join"} /\ UNCHANGED <<link, sealed>>
          /\ told' = IF p.ok THEN told \cup {<<u, commands[u]>>} ELSE told
          /\ IF ui[u].kind = "create"
               THEN ui' = [ui EXCEPT ![u] = [Idle EXCEPT !.pc = "save", !.room = p.room]]
               ELSE Rests(u)
  /\ UNCHANGED <<srvVars, net, rows, runs, commands, posted, got, gone>>

\* The program ends, and its connection.
Exit(u) == /\ ui' = [ui EXCEPT ![u] = [Idle EXCEPT !.pc = "off"]]
           /\ net' = [net EXCEPT ![u] = Quiet]
           /\ link' = [link EXCEPT ![u] = [Down EXCEPT !.out = link[u].out]]
           /\ gone' = [gone EXCEPT ![u] = @ \cup Copies(link[u].in)]

\* Mutant of Timeout: join waits for its answer.
TimeoutNotJoin(u) ==
  /\ u \in Slow \/ ~link[u].up
  /\ ui[u].pc = "wait" /\ ui[u].result = {}
  /\ \/ ui[u].kind = "create" /\ Exit(u) /\ UNCHANGED sealed
     \/ ui[u].kind = "post" /\ Transmit(u, {}) /\ UNCHANGED <<net, gone>>
  /\ UNCHANGED <<srvVars, rows, runs, commands, posted, got, told>>

\* No answer in five seconds: create raises, which nothing catches, and the program
\* ends; join has failed; a text goes out as it is.
Timeout(u) ==
  /\ u \in Slow \/ ~link[u].up
  /\ ui[u].pc = "wait" /\ ui[u].result = {}
  /\ \/ ui[u].kind = "create" /\ Exit(u) /\ UNCHANGED sealed
     \/ ui[u].kind = "join" /\ Rests(u) /\ UNCHANGED <<net, link, sealed, gone>>
     \/ ui[u].kind = "post" /\ Transmit(u, {}) /\ UNCHANGED <<net, gone>>
  /\ UNCHANGED <<srvVars, rows, runs, commands, posted, got, told>>

\* save_room after a create, delete_room after a leave.
Keep(u) ==
  /\ \/ ui[u].pc = "save" /\ rows' = [rows EXCEPT ![u] = @ \cup {ui[u].room}]
     \/ ui[u].pc = "drop" /\ rows' = [rows EXCEPT ![u] = @ \ {ui[u].room}]
  /\ Rests(u)
  /\ UNCHANGED <<srvVars, net, runs, commands, posted, sealed, got, told, link, gone>>

-----------------------------------------------------------------------------
\* The client: what arrives, one packet after the other.

\* Mutant of Resolves: an answer is taken for the one that is waited for.
ResolvesAny(u, p) == p.type \in {"info", "list"}
\* _resolve_pending: req_id is that of the request under way.
Resolves(u, p) == p.type \in {"info", "list"} /\ p.req = commands[u]

\* Mutant of Stores: a ROOM_INFO with `left` changes nothing, leave has deleted the row.
StoresOnce(p) == IF p.type = "info" /\ p.ok /\ ~p.left THEN [do |-> "save", room |-> p.room]
                                                      ELSE Quiet
\* What a packet changes in the rooms table.
Stores(p) == IF p.type = "info" /\ p.ok
               THEN [do |-> IF p.left THEN "delete" ELSE "save", room |-> p.room]
               ELSE Quiet

\* _on_server_message up to its first statement.
Receive(u) ==
  /\ ui[u].pc # "off" /\ net[u] = Quiet /\ link[u].in # <<>>
  /\ LET p == Head(link[u].in) IN
     /\ ui' = IF ui[u].pc = "wait" /\ Resolves(u, p) THEN [ui EXCEPT ![u].result = {p}] ELSE ui
     /\ net' = [net EXCEPT ![u] = Stores(p)]
     /\ got' = [got EXCEPT ![u] = @ \cup Copies(<<p>>)]
  /\ link' = [link EXCEPT ![u].in = Tail(@)]
  /\ UNCHANGED <<srvVars, rows, runs, commands, posted, sealed, told, gone>>
Store(u) ==
  /\ net[u].do # "none"
  /\ rows' = [rows EXCEPT ![u] = IF net[u].do = "save" THEN @ \cup {net[u].room}
                                                        ELSE @ \ {net[u].room}]
  /\ net' = [net EXCEPT ![u] = Quiet]
  /\ UNCHANGED <<srvVars, ui, runs, commands, posted, sealed, got, told, link, gone>>

-----------------------------------------------------------------------------
Serve(u) == \/ FlushRead(u) \/ FlushSend(u) \/ FlushClear(u)
            \/ ServeCreate(u) \/ ServeJoin(u) \/ Insert(u) \/ ServeLeave(u) \/ ServeMembers(u)
            \/ ServePost(u) \/ Route(u) \/ FanOut(u) \/ Enqueue(u) \/ Delivered(u)
            \/ Answer(u) \/ End(u)
Command(u) == \/ Create(u) \/ \E r \in Room : Join(u, r) \/ Leave(u, r)
              \/ \E m \in Message, r \in Room : Post(u, m, r)

Resume(u) == Conclude(u) \/ Timeout(u) \/ Keep(u)
Read(u) == Receive(u) \/ Store(u)

RmNext == \/ Crash
          \/ \E u \in User : \/ Start(u) \/ Break(u) \/ Command(u)
                            \/ Serve(u) \/ Resume(u) \/ Read(u)

\* The event loops get round to every coroutine that can run, and timers expire.
RmSpec == /\ RmInit /\ [][RmNext]_rmVars
          /\ \A u \in User : WF_rmVars(Serve(u)) /\ WF_rmVars(Resume(u)) /\ WF_rmVars(Read(u))

-----------------------------------------------------------------------------
\* Properties.

Sent == [type : {"info"}, req : Nat, ok : BOOLEAN, room : Room, left : BOOLEAN]
          \cup [type : {"list"}, req : Nat, members : SUBSET User]
          \cup [type : {"texts"}, msgs : SUBSET Message] \cup [type : {"error", "delivery"}]

\* The tables, the handlers and the packets under way; only a waiting command has a
\* result, and only a fan-out has members to go.
RmTypeOK ==
  /\ rooms \subseteq Room /\ members \in [Room -> SUBSET User]
  /\ \A r \in Room \ rooms : members[r] = {}
  /\ queue \in [User -> SUBSET Message] /\ rows \in [User -> SUBSET Room]
  /\ \A u \in User :
       /\ \A i \in DOMAIN link[u].in : link[u].in[i] \in Sent
       /\ h[u].pc \in {"fanout", "enqueue"} \/ h[u].at = {}
       /\ h[u].out \subseteq Sent /\ (h[u].out # {}) = (h[u].pc \in {"insert", "answer"})
       /\ ui[u].result \subseteq Sent /\ (ui[u].result # {} => ui[u].pc = "wait")
       /\ net[u].do \in {"none", "save", "delete"}
       /\ commands[u] \in 0..MaxCommand[u] /\ runs[u] \in 0..MaxRun[u]

\* Once an author is told that his message is delivered, every member it was sent to
\* has shown it, or there is a copy on the way or kept for him, or it ended with his
\* connection or was cleared with the queue he was sent: whatever breaks during the
\* fan-out, and whoever joins or leaves.
DeliveredMeansAll == \A m \in acked : \A v \in audience[m] :
  m \in queue[v] \cup got[v] \cup gone[v] \cup Copies(link[v].in)

Still(u) == /\ ui[u].pc = "idle" /\ net[u] = Quiet /\ h[u].pc = "recv"
            /\ link[u].up /\ link[u].in = <<>> /\ link[u].out = <<>>

\* When nothing is under way, a client whose connection was never lost lists the rooms
\* its user is a member of: also when a join was given up before its answer came, and
\* whatever was commanded before it did.
RowsFollow == \A u \in User : Still(u) /\ runs[u] = 1 /\ crashes = 0 =>
  rows[u] = {r \in Room : u \in members[r]}

\* A client says that it created or joined a room only if the server did that for this
\* very command, although answers arrive after their commands were given up.
OutcomeTrue == told \subseteq granted

\* A member to whom a text is sealed off was not among those the author was told of when
\* he wrote it, or has not given him a key: nobody who was there is left out.
LockedOnlyNewcomers == \A u \in User : \A m \in got[u] :
  sealed[m] # {} /\ u \notin sealed[m] => u \notin listed[m] \cap Knows[Author[m]]

\* Every command ends, with its outcome, its timeout, or the end of the program.
CommandEnds == \A u \in User : (ui[u].pc \notin {"idle", "off"}) ~> (ui[u].pc \in {"idle", "off"})
=============================================================================
