--------------------------- MODULE ClientSession ---------------------------
(***************************************************************************)
(* One running client: WSClient (client/connection/ws_client.py) with its  *)
(* connect loop and sender task, the login and the packet dispatcher of    *)
(* App (client/app.py), AuthHandler and MessageHandler (client/handlers/)  *)
(* and the messages table.  Three coroutines share it: `net` reads and     *)
(* dispatches, the sender empties the queue, `ui` logs in and runs what    *)
(* the user types; each is suspended at a database statement, a wait or a  *)
(* prompt, and the others run meanwhile.                                   *)
(*                                                                         *)
(* Of the server there is what handle does for this user, and of everyone  *)
(* else one peer; ServerDelivery has the server in full.  A connection is  *)
(* opened after the handler of the last one has ended.                     *)
(***************************************************************************)
EXTENDS Integers, Sequences

CONSTANTS
  Mine,      \* messages the user may write to the peer
  Theirs,    \* messages the peer may write to the user
  Changed,   \* bound: what the user does to messages, as <<"edit" or "delete", message>>
  PeerChanged, \* bound: what the peer does to messages
  MaxLink,   \* bound: connections the client opens
  MaxLogin   \* bound: logins, typed or with the saved token

ASSUME SessionAssumption ==
  /\ Mine \cap Theirs = {}
  /\ Changed \subseteq {"edit", "delete"} \X (Mine \cup Theirs)
  /\ PeerChanged \subseteq {"edit", "delete"} \X (Mine \cup Theirs)
  /\ MaxLink \in Nat /\ MaxLogin \in Nat

VARIABLES
  q,         \* _send_q
  link,      \* the connection: frames under way, what is left of it, its handler
  links,     \* connections opened so far
  net,       \* connect: where it is, and the packets it is applying
  ui,        \* _ui_loop: where it is, the message it is at, the kind of credentials
  reply,     \* _result of AuthHandler, "none" while its event is cleared
  handlers,  \* whether _do_auth has created msg_h
  rows,      \* rows[m]: the messages row of m as the set of its flags, {} without one
  queue,     \* the server's offline_queue rows for the user
  logins,    \* logins so far
  submitted, \* history: the messages, edits and deletions handed to send
  taken,     \* history: those the server accepted
  peer,      \* history: what the peer did, as <<what, message>>
  receipts,  \* history: the READ receipts the server took
  synced     \* history: the messages in the SYNC_RESPONSEs the client took

csVars == <<q, link, links, net, ui, reply, handlers, rows, queue, logins,
            submitted, taken, peer, receipts, synced>>
server == <<queue, taken, peer, receipts>>
client == <<links, net, ui, reply, handlers, rows, logins, submitted, synced>>

Message == Mine \cup Theirs
Flag == {"saved", "delivered", "read", "edit", "delete"}
Packet == [type : {"message", "edit", "delete", "delivery", "read"}, id : Message]
Login == [type |-> "login"]
Answer(ok) == [type |-> "auth", ok |-> ok]
Sync(s) == [type |-> "sync", list |-> s]
Error == [type |-> "error"]
Edited == [type |-> "edited"]  \* a DELIVERY that handle_delivery does not act on
Of(type, m) == [type |-> type, id |-> m]

NoLink == [up |-> FALSE, in |-> <<>>, out |-> <<>>, user |-> FALSE, pc |-> "recv"]

CsInit == /\ q = <<>> /\ link = NoLink /\ links = 0
          /\ net = [pc |-> "wait", todo |-> <<>>]
          /\ \E cred \in {"token", "password"} : ui = [pc |-> "start", cur |-> {}, cred |-> cred]
          /\ reply = "none" /\ handlers = FALSE
          /\ rows = [m \in Message |-> {}]
          /\ queue = <<>> /\ logins = 0
          /\ submitted = {} /\ taken = {} /\ peer = {} /\ receipts = {} /\ synced = {}

-----------------------------------------------------------------------------
\* WSClient: the connect loop and the sender task, which lives as long as a connection.

Connected == net.pc # "wait"

Connect == /\ net.pc = "wait" /\ links < MaxLink
           /\ ~link.user /\ link.out = <<>>
           /\ link' = [NoLink EXCEPT !.up = TRUE] /\ links' = links + 1
           /\ net' = [net EXCEPT !.pc = "read"]
           /\ UNCHANGED <<q, ui, reply, handlers, rows, logins, submitted, synced, server>>

\* The frames that have arrived are read before the loop sees the end of the stream.
Disconnect == /\ net.pc = "read" /\ ~link.up /\ link.in = <<>>
              /\ net' = [net EXCEPT !.pc = "wait"]
              /\ UNCHANGED <<q, link, links, ui, reply, handlers, rows, logins, submitted,
                             synced, server>>

\* Mutant of Sender: the task is started with the first connection only.
SenderOnce ==
  /\ Connected /\ q # <<>> /\ links = 1
  /\ q' = Tail(q)
  /\ link' = IF link.up THEN [link EXCEPT !.out = Append(@, Head(q))] ELSE link
  /\ UNCHANGED <<client, server>>

\* A send on a connection that is gone raises, and the packet is dropped.
Sender == /\ Connected /\ q # <<>>
          /\ q' = Tail(q)
          /\ link' = IF link.up THEN [link EXCEPT !.out = Append(@, Head(q))] ELSE link
          /\ UNCHANGED <<client, server>>

\* The connection is lost; of what is under way either way a first part arrives.
Break == /\ link.up
         /\ \E i \in 0..Len(link.in), o \in 0..Len(link.out) :
              link' = [link EXCEPT !.up = FALSE, !.in = SubSeq(@, 1, i),
                                   !.out = SubSeq(@, 1, o)]
         /\ UNCHANGED <<q, client, server>>

-----------------------------------------------------------------------------
\* App: the login.

\* _do_auth sends the credentials and waits: at the start, when the saved token was
\* refused, or when the user asks for another account at the password prompt.
Authenticate ==
  /\ \/ ui.pc = "start" /\ Connected /\ ui' = [ui EXCEPT !.pc = "auth"]
     \/ /\ ui.cred = "token" /\ ((ui.pc = "auth" /\ reply = "fail") \/ ui.pc = "unlock")
        /\ ui' = [ui EXCEPT !.pc = "auth", !.cred = "password"]
  /\ logins < MaxLogin /\ logins' = logins + 1
  /\ q' = Append(q, Login) /\ reply' = "none"
  /\ UNCHANGED <<link, links, net, handlers, rows, submitted, synced, server>>

\* The answer is stored and, for a saved account, the password asked for.
Unlock == /\ ui.pc = "auth" /\ reply = "ok"
          /\ ui' = [ui EXCEPT !.pc = "unlock"]
          /\ UNCHANGED <<q, link, links, net, reply, handlers, rows, logins, submitted,
                         synced, server>>
Ready == /\ ui.pc = "unlock"
         /\ ui' = [ui EXCEPT !.pc = "idle"] /\ handlers' = TRUE
         /\ UNCHANGED <<q, link, links, net, reply, rows, logins, submitted, synced, server>>

\* Mutant of GiveUp: the wait for the answer has no timeout.
GiveUpRefused ==
  /\ ui.pc = "auth" /\ reply = "fail" /\ ui.cred = "password"
  /\ ui' = [ui EXCEPT !.pc = "idle"]
  /\ UNCHANGED <<q, link, links, net, reply, handlers, rows, logins, submitted, synced, server>>

\* The password was refused, or no answer came in ten seconds.
GiveUp ==
  /\ ui.pc = "auth"
  /\ reply = "none" \/ (reply = "fail" /\ ui.cred = "password")
  /\ ui' = [ui EXCEPT !.pc = "idle"]
  /\ UNCHANGED <<q, link, links, net, reply, handlers, rows, logins, submitted, synced, server>>

-----------------------------------------------------------------------------
\* App and MessageHandler: what the user types in the chat with the peer.

\* A packet of the user is handed to the connection.
Enqueue(p) == q' = Append(q, p) /\ submitted' = submitted \cup {p}

Submit(m) == /\ ui.pc = "idle" /\ handlers /\ Of("message", m) \notin submitted
             /\ Enqueue(Of("message", m))
             /\ ui' = [ui EXCEPT !.pc = "saved", !.cur = {m}]
             /\ UNCHANGED <<link, links, net, reply, handlers, rows, logins, synced, server>>

\* An edit or a deletion of a message the user sees.
SubmitChange(kind, m) ==
  /\ ui.pc = "idle" /\ handlers /\ kind \notin rows[m] /\ "saved" \in rows[m]
  /\ Enqueue(Of(kind, m))
  /\ ui' = [ui EXCEPT !.pc = kind, !.cur = {m}]
  /\ UNCHANGED <<link, links, net, reply, handlers, rows, logins, synced, server>>

\* An UPDATE of the row of m, if there is one.
Mark(m, flag) == rows' = [rows EXCEPT ![m] = IF @ = {} THEN {} ELSE @ \cup {flag}]
\* save: INSERT OR IGNORE.
Save(m, flags) == rows' = [rows EXCEPT ![m] = IF @ = {} THEN flags ELSE @]

\* Mutant of Store: a message counts as delivered when it is sent.
StoreDelivered ==
         /\ ui.pc \in {"saved", "edit", "delete"}
         /\ \A m \in ui.cur : IF ui.pc = "saved" THEN Save(m, {"saved", "delivered"})
                                                 ELSE Mark(m, ui.pc)
         /\ ui' = [ui EXCEPT !.pc = "idle", !.cur = {}]
         /\ UNCHANGED <<q, link, links, net, reply, handlers, logins, submitted, synced, server>>

\* The statement after the send.
Store == /\ ui.pc \in {"saved", "edit", "delete"}
         /\ \A m \in ui.cur : IF ui.pc = "saved" THEN Save(m, {"saved"}) ELSE Mark(m, ui.pc)
         /\ ui' = [ui EXCEPT !.pc = "idle", !.cur = {}]
         /\ UNCHANGED <<q, link, links, net, reply, handlers, logins, submitted, synced, server>>

-----------------------------------------------------------------------------
\* App._on_server_message.

Messages(list) == {list[i].id : i \in {j \in DOMAIN list : list[j].type = "message"}}
\* Mutant of Work: the packets in a sync are not unpacked.
WorkLive(p) == IF handlers /\ p.type \in {"message", "edit", "delete", "delivery", "read"}
                 THEN <<p>> ELSE <<>>
\* What a packet gives the message handler to do; nothing before it exists.
Work(p) == IF ~handlers THEN <<>>
           ELSE IF p.type = "sync" THEN p.list
           ELSE IF p.type \in {"message", "edit", "delete", "delivery", "read"} THEN <<p>>
           ELSE <<>>

Dispatch ==
  /\ net.pc = "read" /\ link.in # <<>>
  /\ LET p == Head(link.in) IN
     /\ reply' = IF p.type # "auth" THEN reply ELSE IF p.ok THEN "ok" ELSE "fail"
     /\ net' = [pc |-> IF Work(p) = <<>> THEN "read" ELSE "apply", todo |-> Work(p)]
     /\ synced' = IF p.type = "sync" THEN synced \cup Messages(p.list) ELSE synced
  /\ link' = [link EXCEPT !.in = Tail(@)]
  /\ UNCHANGED <<q, links, ui, handlers, rows, logins, submitted, server>>

\* Mutant of Done: the packets stay where the next ones are put.
DoneKeeps == net' = [net EXCEPT !.pc = IF Len(net.todo) > 1 THEN "apply" ELSE "read"]
\* The packet at hand is done with.
Done == net' = [pc |-> IF Len(net.todo) > 1 THEN "apply" ELSE "read", todo |-> Tail(net.todo)]

\* Mutant of Apply: the callback for a message is called before it is saved.
ApplyUnsaved ==
  /\ net.pc = "apply"
  /\ LET p == Head(net.todo) IN
     \/ /\ p.type = "message"
        /\ net' = [net EXCEPT !.pc = "receipt"] /\ UNCHANGED rows
     \/ /\ p.type # "message"
        /\ Mark(p.id, IF p.type = "delivery" THEN "delivered" ELSE p.type) /\ Done
  /\ UNCHANGED <<q, link, links, ui, reply, handlers, logins, submitted, synced, server>>

\* The statement for the packet at hand.
Apply ==
  /\ net.pc = "apply"
  /\ LET p == Head(net.todo) IN
     \/ /\ p.type = "message"
        /\ Save(p.id, {"saved", "delivered"}) /\ net' = [net EXCEPT !.pc = "receipt"]
     \/ /\ p.type # "message"
        /\ Mark(p.id, IF p.type = "delivery" THEN "delivered" ELSE p.type) /\ Done
  /\ UNCHANGED <<q, link, links, ui, reply, handlers, logins, submitted, synced, server>>

\* _on_new_message: with the peer's chat open all its messages are read, and a
\* receipt is sent for this one.
Receipt ==
  /\ net.pc = "receipt" /\ Done
  /\ \/ /\ q' = Append(q, Of("read", Head(net.todo).id))
        /\ rows' = [m \in Message |-> IF m \in Theirs /\ rows[m] # {} THEN rows[m] \cup {"read"}
                                                                      ELSE rows[m]]
     \/ UNCHANGED <<q, rows>>
  /\ UNCHANGED <<link, links, ui, reply, handlers, logins, submitted, synced, server>>

-----------------------------------------------------------------------------
\* The server: the handler of the connection, one frame or the flush at a time.

\* The frame is answered; without a connection the answer raises and the handler ends.
Respond(p) == link' = IF link.up THEN [link EXCEPT !.in = Append(@, p), !.out = Tail(@)]
                                 ELSE [link EXCEPT !.out = <<>>, !.user = FALSE]
Serves(type) == link.pc = "recv" /\ link.out # <<>> /\ Head(link.out).type = type

RefuseLogin == /\ Serves("login") /\ Respond(Answer(FALSE))
               /\ UNCHANGED <<q, client, server>>
\* _on_auth_success up to the answer; the user's packets reach it from now on.
AcceptLogin == /\ Serves("login")
               /\ link' = IF link.up THEN [link EXCEPT !.in = Append(@, Answer(TRUE)),
                                             !.out = Tail(@), !.user = TRUE, !.pc = "flush"]
                                     ELSE [link EXCEPT !.out = <<>>, !.user = FALSE]
               /\ UNCHANGED <<q, client, server>>
\* _flush_offline; what may come between its statements is in ServerDelivery.
Flush == /\ link.pc = "flush"
         /\ \/ queue = <<>> /\ link' = [link EXCEPT !.pc = "recv"] /\ UNCHANGED queue
            \/ /\ queue # <<>> /\ link.up /\ queue' = <<>>
               /\ link' = [link EXCEPT !.in = Append(@, Sync(queue)), !.pc = "recv"]
            \/ /\ queue # <<>> /\ ~link.up /\ UNCHANGED queue
               /\ link' = [link EXCEPT !.out = <<>>, !.user = FALSE, !.pc = "recv"]
         /\ UNCHANGED <<q, client, taken, peer, receipts>>

Unauthorized == /\ ~link.user /\ \E type \in {"message", "edit", "delete", "read"} : Serves(type)
                /\ Respond(Error)
                /\ UNCHANGED <<q, client, server>>
ServeMessage == /\ link.user /\ Serves("message")
                /\ taken' = taken \cup {Head(link.out)}
                /\ Respond(Of("delivery", Head(link.out).id))
                /\ UNCHANGED <<q, client, queue, peer, receipts>>
ServeChange == /\ link.user /\ (Serves("edit") \/ Serves("delete"))
               /\ taken' = taken \cup {Head(link.out)}
               /\ Respond(Edited)
               /\ UNCHANGED <<q, client, queue, peer, receipts>>
ServeRead == /\ link.user /\ Serves("read")
             /\ receipts' = receipts \cup {Head(link.out).id}
             /\ link' = [link EXCEPT !.out = Tail(@)]
             /\ UNCHANGED <<q, client, queue, taken, peer>>
EndHandler == /\ link.user /\ link.pc = "recv" /\ ~link.up /\ link.out = <<>>
              /\ link' = [link EXCEPT !.user = FALSE]
              /\ UNCHANGED <<q, client, server>>

-----------------------------------------------------------------------------
\* The peer, through its own handler at the server.

Reachable == link.up /\ link.user
Deliver(p) == link' = [link EXCEPT !.in = Append(@, p)] /\ UNCHANGED queue
Keep(p) == queue' = Append(queue, p) /\ UNCHANGED link

PeerSends(m) == /\ <<"message", m>> \notin peer
                /\ peer' = peer \cup {<<"message", m>>}
                /\ IF Reachable THEN Deliver(Of("message", m)) ELSE Keep(Of("message", m))
                /\ UNCHANGED <<q, client, taken, receipts>>

\* An edit or a deletion; on a connection found broken the send raises and it is lost.
PeerChanges(kind, m) ==
  /\ <<"message", m>> \in peer /\ <<kind, m>> \notin peer
  /\ peer' = peer \cup {<<kind, m>>}
  /\ \/ Reachable /\ Deliver(Of(kind, m))
     \/ ~link.user /\ Keep(Of(kind, m))
     \/ ~link.up /\ links > 0 /\ UNCHANGED <<link, queue>>
  /\ UNCHANGED <<q, client, taken, receipts>>

PeerReads(m) == /\ Of("message", m) \in taken /\ <<"read", m>> \notin peer
                /\ peer' = peer \cup {<<"read", m>>}
                /\ IF Reachable THEN Deliver(Of("read", m)) ELSE UNCHANGED <<link, queue>>
                /\ UNCHANGED <<q, client, taken, receipts>>

-----------------------------------------------------------------------------
Net == Disconnect \/ Dispatch \/ Apply \/ Receipt
Server == \/ RefuseLogin \/ AcceptLogin \/ Flush \/ Unauthorized
          \/ ServeMessage \/ ServeChange \/ ServeRead \/ EndHandler
User == \/ Authenticate \/ Unlock \/ Ready
        \/ (\E m \in Mine : Submit(m)) \/ \E c \in Changed : SubmitChange(c[1], c[2])
Peer == \/ (\E m \in Theirs : PeerSends(m)) \/ \E c \in PeerChanged : PeerChanges(c[1], c[2])
        \/ \E m \in Mine : PeerReads(m)

CsNext == Connect \/ Net \/ Sender \/ Break \/ GiveUp \/ Store \/ User \/ Server \/ Peer

\* Coroutines that can go on do; the user, the peer and the network owe nothing.
CsSpec == /\ CsInit /\ [][CsNext]_csVars
          /\ WF_csVars(Connect) /\ WF_csVars(Net) /\ WF_csVars(Sender)
          /\ WF_csVars(GiveUp) /\ WF_csVars(Store) /\ WF_csVars(Server)

-----------------------------------------------------------------------------
Frame == Packet \cup {Login, Error, Edited} \cup {Answer(ok) : ok \in BOOLEAN}
IsSync(p) == p.type = "sync" /\ \A i \in DOMAIN p.list : p.list[i] \in Packet

\* The types; a handler with a user has a connection, or has yet to notice its end.
CsTypeOK ==
  /\ \A i \in DOMAIN q : q[i] \in Packet \cup {Login}
  /\ link.up \in BOOLEAN /\ link.user \in BOOLEAN /\ link.pc \in {"recv", "flush"}
  /\ \A i \in DOMAIN link.in : link.in[i] \in Frame \/ IsSync(link.in[i])
  /\ \A i \in DOMAIN link.out : link.out[i] \in Packet \cup {Login}
  /\ net.pc \in {"wait", "read", "apply", "receipt"}
  /\ net.todo # <<>> <=> net.pc \in {"apply", "receipt"}
  /\ \A i \in DOMAIN net.todo : net.todo[i] \in Packet
  /\ ui.pc \in {"start", "auth", "unlock", "idle", "saved", "edit", "delete"}
  /\ ui.cur # {} <=> ui.pc \in {"saved", "edit", "delete"}
  /\ reply \in {"none", "ok", "fail"} /\ handlers \in BOOLEAN
  /\ rows \in [Message -> SUBSET Flag]

\* What the history shows of the user's own message is true: one marked delivered or
\* read was accepted by the server, one marked read was read by the peer.
MarkedIsTrue ==
  \A m \in Mine : /\ {"delivered", "read"} \cap rows[m] # {} => Of("message", m) \in taken
                  /\ "read" \in rows[m] => <<"read", m>> \in peer

\* A message whose sender gets a receipt is in the history of the reader.
ReceiptsAreForSaved == \A m \in receipts : "saved" \in rows[m]

\* A login that gets no answer, lost with its connection or not, is given up.
LoginWaitEnds ==
  ui.pc = "auth" /\ reply = "none" ~> ui.pc # "auth" \/ reply # "none"

\* What the client's handlers hand to the connection does not stay with it: the queue is
\* emptied again and again, over new connections too, unless there are none.
SendQueueDrains == []<>(q = <<>>) \/ <>[](net.pc = "wait")

\* A message on its way to a client that is logged in, live or in a sync, is saved
\* unless the connection is lost.
Coming(m) == \E i \in DOMAIN link.in :
               \/ link.in[i] = Of("message", m)
               \/ link.in[i].type = "sync" /\ m \in Messages(link.in[i].list)
LiveIsSaved == \A m \in Theirs : handlers /\ Coming(m) ~> "saved" \in rows[m] \/ ~link.up

\* README.md: "messages queued server-side and synced in order on reconnect": what a
\* sync brought is in the history when the client reads on.
\* (Violated: a sync that is dispatched before the login is finished is dropped.)
SyncedIsSaved == net.pc = "read" => \A m \in synced : "saved" \in rows[m]
=============================================================================
