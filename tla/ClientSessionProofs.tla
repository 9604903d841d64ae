------------------------- MODULE ClientSessionProofs -------------------------
(***************************************************************************)
(* For any messages, edits and numbers of connections and logins: what the *)
(* history shows of a message is true, and whoever gets a receipt can rely *)
(* on the message having been saved.                                       *)
(*                                                                         *)
(* Neither is inductive, as a row is changed when a packet is applied and  *)
(* a receipt counts when the server takes it, both long after the cause.   *)
(* The invariant says of every packet under way what was the case when it  *)
(* was sent: Arriving of those to the client, in the queue of the server,  *)
(* on the wire, in a sync and at hand, Leaving of those it sends.          *)
(***************************************************************************)
EXTENDS ClientSession, Functions, SequenceTheorems, TLAPS

\* What a client may send, and what may come to it.
Sent == Packet \cup {Login}
Arrived == Frame \cup {Sync(s) : s \in Seq(Packet)}

LinkRecord == [up : BOOLEAN, in : Seq(Arrived), out : Seq(Sent), user : BOOLEAN,
               pc : {"recv", "flush"}]
NetRecord == [pc : {"wait", "read", "apply", "receipt"}, todo : Seq(Packet)]
UiRecord == [pc : {"start", "auth", "unlock", "idle", "saved", "edit", "delete"},
             cur : SUBSET Message, cred : {"token", "password"}]

Records == /\ q \in Seq(Sent) /\ link \in LinkRecord /\ net \in NetRecord /\ ui \in UiRecord
           /\ queue \in Seq(Packet) /\ reply \in {"none", "ok", "fail"} /\ handlers \in BOOLEAN
           /\ rows \in [Message -> SUBSET Flag] /\ receipts \subseteq Message

\* What the two coroutines of the client have in hand.
AtWork == /\ net.todo # <<>> <=> net.pc \in {"apply", "receipt"}
          /\ ui.cur # {} <=> ui.pc \in {"saved", "edit", "delete"}
          /\ ui.pc \in {"saved", "edit", "delete"} => \E m \in Message : ui.cur = {m}

\* A message is from the peer, a report of a message that the server accepted, or that
\* the peer read.
Incoming(p) ==
  /\ p.type = "message" => p.id \in Theirs
  /\ p.type \in {"delivery", "read"} => Of("message", p.id) \in taken
  /\ p.type = "read" => <<"read", p.id>> \in peer
FrameTrue(f) == IF f.type = "sync" THEN \A p \in Range(f.list) : Incoming(p) ELSE Incoming(f)
Arriving == /\ \A p \in Range(queue) \cup Range(net.todo) : Incoming(p)
            /\ \A f \in Range(link.in) : FrameTrue(f)

\* A receipt is written after the message it is for.
Leaving == \A p \in Range(q) \cup Range(link.out) : p.type = "read" => "saved" \in rows[p.id]
AtHand == net.pc = "receipt" => /\ Head(net.todo).type = "message"
                                /\ "saved" \in rows[Head(net.todo).id]

\* A row is made by saving a message, whatever else is updated.
SavedFirst == \A m \in Message : rows[m] # {} => "saved" \in rows[m]

CsInv == /\ Records /\ AtWork /\ Arriving /\ Leaving /\ AtHand /\ SavedFirst
         /\ MarkedIsTrue /\ ReceiptsAreForSaved

-----------------------------------------------------------------------------
\* Sequences of packets and frames.

LEMMA RangeOfNone == Range(<<>>) = {}
BY DEF Range

LEMMA RangeOfAppend ==
  ASSUME NEW S, NEW s \in Seq(S), NEW e \in S
  PROVE  Append(s, e) \in Seq(S) /\ Range(Append(s, e)) = Range(s) \cup {e} /\ Append(s, e) # <<>>
<1>1. /\ Append(s, e) \in Seq(S) /\ Len(Append(s, e)) = Len(s) + 1
      /\ \A i \in 1..Len(s) : Append(s, e)[i] = s[i]
      /\ Append(s, e)[Len(s) + 1] = e
  BY AppendProperties
<1>2. Range(Append(s, e)) = Range(s) \cup {e}
  BY <1>1 DEF Range
<1>3. Append(s, e) # <<>>
  BY AppendProperties
<1> QED  BY <1>1, <1>2, <1>3

LEMMA RangeOfTail ==
  ASSUME NEW S, NEW s \in Seq(S), s # <<>>
  PROVE  /\ Head(s) \in S /\ Head(s) \in Range(s)
         /\ Tail(s) \in Seq(S) /\ Range(Tail(s)) \subseteq Range(s)
         /\ Len(s) > 1 <=> Tail(s) # <<>>
<1>1. /\ Head(s) \in S /\ Tail(s) \in Seq(S) /\ Len(Tail(s)) = Len(s) - 1 /\ Len(s) > 0
      /\ Head(s) = s[1] /\ \A i \in 1..Len(Tail(s)) : Tail(s)[i] = s[i + 1]
  BY HeadTailProperties, EmptySeq
<1>2. Range(Tail(s)) \subseteq Range(s) /\ Head(s) \in Range(s)
  BY <1>1 DEF Range
<1>3. Len(s) > 1 <=> Tail(s) # <<>>
  <2>1. Len(Tail(s)) = 0 <=> Tail(s) = <<>>
    BY <1>1, EmptySeq
  <2> QED  BY <1>1, <2>1
<1> QED  BY <1>1, <1>2, <1>3

LEMMA RangeOfPart ==
  ASSUME NEW S, NEW s \in Seq(S), NEW i \in 0..Len(s)
  PROVE  SubSeq(s, 1, i) \in Seq(S) /\ Range(SubSeq(s, 1, i)) \subseteq Range(s)
<1>1. /\ SubSeq(s, 1, i) \in Seq(S) /\ Len(SubSeq(s, 1, i)) = i
      /\ \A j \in 1..i : SubSeq(s, 1, i)[j] = s[j]
  BY SubSeqProperties
<1> QED  BY <1>1 DEF Range

LEMMA RangeType ==
  ASSUME NEW S, NEW s \in Seq(S)
  PROVE  Range(s) \subseteq S
BY DEF Range

LEMMA NoneIsSeq == ASSUME NEW S PROVE <<>> \in Seq(S)
BY EmptySeq

-----------------------------------------------------------------------------
\* Packets and frames.

LEMMA PacketType ==
  ASSUME NEW p \in Packet
  PROVE  /\ p.type \in {"message", "edit", "delete", "delivery", "read"} /\ p.id \in Message
         /\ p.type # "sync" /\ p.type # "auth" /\ p.type # "login" /\ p \in Frame /\ p \in Arrived
         /\ FrameTrue(p) <=> Incoming(p)
<1>1. p.type \in {"message", "edit", "delete", "delivery", "read"} /\ p.id \in Message
  BY DEF Packet
<1> QED  BY <1>1 DEF Frame, Arrived, FrameTrue

LEMMA OfType ==
  ASSUME NEW type \in {"message", "edit", "delete", "delivery", "read"}, NEW m \in Message
  PROVE  Of(type, m) \in Packet /\ Of(type, m).type = type /\ Of(type, m).id = m
BY DEF Of, Packet

LEMMA SentType ==
  ASSUME NEW p \in Sent, p.type # "login"
  PROVE  p \in Packet
BY DEF Sent, Login

LEMMA ArrivedType ==
  ASSUME NEW f \in Arrived
  PROVE  /\ f.type = "sync" => f.list \in Seq(Packet)
         /\ f.type \in {"message", "edit", "delete", "delivery", "read"} => f \in Packet
         /\ f.type = "auth" => f.ok \in BOOLEAN
         /\ f \in Frame \/ IsSync(f)
<1>1. CASE f \in Frame
  BY <1>1, PacketType DEF Frame, Login, Error, Edited, Answer
<1>2. CASE f \in {Sync(s) : s \in Seq(Packet)}
  <2>1. PICK s \in Seq(Packet) : f = Sync(s)
    BY <1>2
  <2>2. f.type = "sync" /\ f.list = s
    BY <2>1 DEF Sync
  <2> QED  BY <2>2 DEF IsSync
<1> QED  BY <1>1, <1>2 DEF Arrived

\* What the server answers says nothing that needs to be true.
LEMMA AnswerType ==
  /\ \A ok \in BOOLEAN : Answer(ok) \in Arrived /\ FrameTrue(Answer(ok))'
  /\ Error \in Arrived /\ FrameTrue(Error)'
  /\ Edited \in Arrived /\ FrameTrue(Edited)'
BY DEF Answer, Error, Edited, Arrived, Frame, FrameTrue, Incoming

LEMMA SyncType ==
  ASSUME NEW s \in Seq(Packet), \A p \in Range(s) : Incoming(p)'
  PROVE  Sync(s) \in Arrived /\ FrameTrue(Sync(s))'
BY DEF Sync, Arrived, FrameTrue

\* What was true when a packet was sent stays true.
LEMMA IncomingStays ==
  ASSUME taken \subseteq taken', peer \subseteq peer'
  PROVE  /\ \A p : Incoming(p) => Incoming(p)'
         /\ \A f : FrameTrue(f) => FrameTrue(f)'
BY DEF Incoming, FrameTrue

-----------------------------------------------------------------------------
\* The parts of a state that a step keeps.

LEMMA InitInv == CsInit => CsInv
<1> SUFFICES ASSUME CsInit PROVE CsInv
  OBVIOUS
<1>1. q = <<>> /\ queue = <<>> /\ link = NoLink /\ net = [pc |-> "wait", todo |-> <<>>]
  BY DEF CsInit
<1>2. link.in = <<>> /\ link.out = <<>> /\ net.todo = <<>> /\ net.pc = "wait"
  BY <1>1 DEF NoLink
<1>3. \A m \in Message : rows[m] = {}
  BY DEF CsInit
<1>4. PICK cred \in {"token", "password"} : ui = [pc |-> "start", cur |-> {}, cred |-> cred]
  BY DEF CsInit
<1>5. Records
  <2>1. link \in LinkRecord
    BY <1>1, NoneIsSeq DEF NoLink, LinkRecord
  <2>2. q \in Seq(Sent) /\ queue \in Seq(Packet) /\ net \in NetRecord
    BY <1>1, NoneIsSeq DEF NetRecord
  <2>3. ui \in UiRecord
    BY <1>4 DEF UiRecord
  <2> QED  BY <2>1, <2>2, <2>3 DEF CsInit, Records
<1>6. AtWork /\ AtHand
  BY <1>2, <1>4 DEF AtWork, AtHand
<1>7. Arriving /\ Leaving
  BY <1>1, <1>2, RangeOfNone DEF Arriving, Leaving
<1>8. SavedFirst /\ MarkedIsTrue /\ ReceiptsAreForSaved
  BY <1>3 DEF CsInit, SavedFirst, MarkedIsTrue, ReceiptsAreForSaved, Message
<1> QED  BY <1>5, <1>6, <1>7, <1>8 DEF CsInv

\* The server, the peer and the network leave the client alone.
LEMMA OutsideInv ==
  ASSUME CsInv, UNCHANGED <<q, net, ui, reply, handlers, rows>>,
         link' \in LinkRecord, queue' \in Seq(Packet), taken \subseteq taken', peer \subseteq peer',
         \A f \in Range(link'.in) : f \in Range(link.in) \/ FrameTrue(f)',
         \A p \in Range(queue') : p \in Range(queue) \/ Incoming(p)',
         Range(link'.out) \subseteq Range(link.out),
         \A m \in receipts' : m \in receipts \/ (m \in Message /\ "saved" \in rows[m])
  PROVE  CsInv'
<1>1. Records' /\ AtWork' /\ AtHand' /\ SavedFirst'
  BY DEF CsInv, Records, AtWork, AtHand, SavedFirst
<1>2. Arriving'
  <2>1. \A p \in Range(queue') : Incoming(p)'
    BY IncomingStays DEF CsInv, Arriving
  <2>2. \A p \in Range(net.todo') : Incoming(p)'
    BY IncomingStays DEF CsInv, Arriving
  <2>3. \A f \in Range(link'.in) : FrameTrue(f)'
    BY IncomingStays DEF CsInv, Arriving
  <2> QED  BY <2>1, <2>2, <2>3 DEF Arriving
<1>3. Leaving' /\ ReceiptsAreForSaved'
  BY DEF CsInv, Leaving, ReceiptsAreForSaved
<1>4. MarkedIsTrue'
  BY DEF CsInv, MarkedIsTrue
<1> QED  BY <1>1, <1>2, <1>3, <1>4 DEF CsInv

\* The client leaves the server alone, and nothing comes to it.
LEMMA ClientInv ==
  ASSUME CsInv, UNCHANGED server, Records', AtWork', AtHand', SavedFirst', MarkedIsTrue',
         \A m \in Message : rows[m] \subseteq rows'[m],
         Range(link'.in) \subseteq Range(link.in),
         \A p \in Range(net'.todo) : Incoming(p),
         \A p \in Range(q') \cup Range(link'.out) :
           \/ p \in Range(q) \cup Range(link.out)
           \/ p.type = "read" => "saved" \in rows'[p.id]
  PROVE  CsInv'
<1>1. receipts' = receipts /\ queue' = queue /\ taken' = taken /\ peer' = peer
  BY DEF server
<1>2. Arriving'
  <2>1. \A p \in Range(queue') : Incoming(p)'
    BY <1>1, IncomingStays DEF CsInv, Arriving
  <2>2. \A p \in Range(net'.todo) : Incoming(p)'
    BY <1>1, IncomingStays
  <2>3. \A f \in Range(link'.in) : FrameTrue(f)'
    BY <1>1, IncomingStays DEF CsInv, Arriving
  <2> QED  BY <2>1, <2>2, <2>3 DEF Arriving
<1>3. ASSUME NEW p \in Range(q) \cup Range(link.out), p.type = "read"
      PROVE  "saved" \in rows'[p.id]
  <2>1. Range(q) \subseteq Sent /\ Range(link.out) \subseteq Sent
    BY RangeType DEF CsInv, Records, LinkRecord
  <2>2. p.id \in Message
    BY <1>3, <2>1, SentType, PacketType
  <2>3. "saved" \in rows[p.id]
    BY <1>3 DEF CsInv, Leaving
  <2> QED  BY <2>2, <2>3
<1>4. Leaving'
  BY <1>3 DEF Leaving
<1>5. ReceiptsAreForSaved'
  <2> SUFFICES ASSUME NEW m \in receipts PROVE "saved" \in rows'[m]
    BY <1>1 DEF ReceiptsAreForSaved
  <2>1. m \in Message /\ "saved" \in rows[m]
    BY DEF CsInv, Records, ReceiptsAreForSaved
  <2> QED  BY <2>1
<1> QED  BY <1>2, <1>4, <1>5 DEF CsInv

-----------------------------------------------------------------------------
\* The connection.

LEMMA LinkFields ==
  ASSUME CsInv
  PROVE  /\ link \in LinkRecord /\ link.in \in Seq(Arrived) /\ link.out \in Seq(Sent)
         /\ link.up \in BOOLEAN /\ link.user \in BOOLEAN /\ link.pc \in {"recv", "flush"}
         /\ queue \in Seq(Packet) /\ q \in Seq(Sent)
         /\ net \in NetRecord /\ net.todo \in Seq(Packet)
         /\ net.pc \in {"wait", "read", "apply", "receipt"}
         /\ rows \in [Message -> SUBSET Flag]
BY DEF CsInv, Records, LinkRecord, NetRecord

\* A link is made of its fields.
LEMMA LinkOf ==
  ASSUME NEW u \in BOOLEAN, NEW i \in Seq(Arrived), NEW o \in Seq(Sent), NEW v \in BOOLEAN,
         NEW p \in {"recv", "flush"}
  PROVE  [up |-> u, in |-> i, out |-> o, user |-> v, pc |-> p] \in LinkRecord
BY DEF LinkRecord

\* The two ends of a send to the client: a frame is added, or the handler ends.
LEMMA Added ==
  ASSUME CsInv, NEW f \in Arrived, NEW o \in Seq(Sent), NEW v \in BOOLEAN,
         NEW p \in {"recv", "flush"},
         link' = [link EXCEPT !.in = Append(@, f), !.out = o, !.user = v, !.pc = p]
  PROVE  /\ link' \in LinkRecord /\ Range(link'.in) = Range(link.in) \cup {f}
         /\ link'.out = o
<1>1. Append(link.in, f) \in Seq(Arrived) /\ Range(Append(link.in, f)) = Range(link.in) \cup {f}
  BY LinkFields, RangeOfAppend
<1>2. link' = [up |-> link.up, in |-> Append(link.in, f), out |-> o, user |-> v, pc |-> p]
  BY LinkFields DEF LinkRecord
<1>3. link' \in LinkRecord
  BY <1>1, <1>2, LinkFields DEF LinkRecord
<1> QED  BY <1>1, <1>2, <1>3

LEMMA Ended ==
  ASSUME CsInv, NEW p \in {"recv", "flush"},
         link' = [link EXCEPT !.out = <<>>, !.user = FALSE, !.pc = p]
  PROVE  link' \in LinkRecord /\ link'.in = link.in /\ link'.out = <<>>
<1>1. link' = [up |-> link.up, in |-> link.in, out |-> <<>>, user |-> FALSE, pc |-> p]
  BY LinkFields DEF LinkRecord
<1>2. link' \in LinkRecord
  BY <1>1, LinkFields, NoneIsSeq DEF LinkRecord
<1> QED  BY <1>1, <1>2

LEMMA Responds ==
  ASSUME CsInv, link.out # <<>>, NEW f \in Arrived, Respond(f)
  PROVE  /\ link' \in LinkRecord /\ Range(link'.in) \subseteq Range(link.in) \cup {f}
         /\ Range(link'.out) \subseteq Range(link.out)
<1>1. Tail(link.out) \in Seq(Sent) /\ Range(Tail(link.out)) \subseteq Range(link.out)
  BY LinkFields, RangeOfTail
<1>2. CASE link.up
  <2>1. link' = [link EXCEPT !.in = Append(@, f), !.out = Tail(link.out), !.user = link.user,
                             !.pc = link.pc]
    BY <1>2, LinkFields DEF Respond, LinkRecord
  <2> QED  BY <1>1, <2>1, LinkFields, Added
<1>3. CASE ~link.up
  <2>1. link' = [link EXCEPT !.out = <<>>, !.user = FALSE, !.pc = link.pc]
    BY <1>3, LinkFields DEF Respond, LinkRecord
  <2> QED  BY <2>1, LinkFields, Ended, RangeOfNone
<1> QED  BY <1>2, <1>3

LEMMA Delivers ==
  ASSUME CsInv, NEW f \in Arrived, Deliver(f)
  PROVE  /\ link' \in LinkRecord /\ Range(link'.in) = Range(link.in) \cup {f}
         /\ link'.out = link.out /\ queue' = queue
<1>1. link'.in = Append(link.in, f) /\ link'.out = link.out /\ queue' = queue
  BY LinkFields DEF Deliver, LinkRecord
<1>2. link' = [up |-> link.up, in |-> Append(link.in, f), out |-> link.out, user |-> link.user,
               pc |-> link.pc]
  BY LinkFields DEF Deliver, LinkRecord
<1>3. Append(link.in, f) \in Seq(Arrived) /\ Range(Append(link.in, f)) = Range(link.in) \cup {f}
  BY LinkFields, RangeOfAppend
<1> QED  BY <1>1, <1>2, <1>3, LinkFields, LinkOf

LEMMA Keeps ==
  ASSUME CsInv, NEW p \in Packet, Keep(p)
  PROVE  /\ link' = link /\ queue' \in Seq(Packet) /\ Range(queue') = Range(queue) \cup {p}
BY LinkFields, RangeOfAppend DEF Keep

LEMMA BreakInv == ASSUME CsInv, Break PROVE CsInv'
<1>1. PICK i \in 0..Len(link.in), o \in 0..Len(link.out) :
        link' = [link EXCEPT !.up = FALSE, !.in = SubSeq(@, 1, i), !.out = SubSeq(@, 1, o)]
  BY DEF Break
<1>2. /\ SubSeq(link.in, 1, i) \in Seq(Arrived) /\ Range(SubSeq(link.in, 1, i)) \subseteq Range(link.in)
      /\ SubSeq(link.out, 1, o) \in Seq(Sent) /\ Range(SubSeq(link.out, 1, o)) \subseteq Range(link.out)
  BY LinkFields, RangeOfPart
<1>3. link'.in = SubSeq(link.in, 1, i) /\ link'.out = SubSeq(link.out, 1, o)
  BY <1>1, LinkFields DEF LinkRecord
<1>4. link' = [up |-> FALSE, in |-> SubSeq(link.in, 1, i), out |-> SubSeq(link.out, 1, o),
               user |-> link.user, pc |-> link.pc]
  BY <1>1, LinkFields DEF LinkRecord
<1>5. link' \in LinkRecord
  BY <1>2, <1>4, LinkFields, LinkOf
<1>6. Range(link'.in) \subseteq Range(link.in) /\ Range(link'.out) \subseteq Range(link.out)
  BY <1>2, <1>3
<1>7. UNCHANGED <<q, net, ui, reply, handlers, rows, queue, taken, peer, receipts>>
  BY DEF Break, client, server
<1> QED  BY <1>5, <1>6, <1>7, LinkFields, OutsideInv

-----------------------------------------------------------------------------
\* The server and the peer.

\* The frame a handler serves.
LEMMA FirstFrame ==
  ASSUME CsInv, NEW type \in {"message", "edit", "delete", "read"}, Serves(type)
  PROVE  /\ link.out # <<>> /\ Head(link.out) \in Packet /\ Head(link.out).id \in Message
         /\ Head(link.out).type = type /\ Head(link.out) \in Range(link.out)
<1>1. link.out # <<>> /\ Head(link.out).type = type
  BY DEF Serves
<1>2. Head(link.out) \in Sent /\ Head(link.out) \in Range(link.out)
  BY <1>1, LinkFields, RangeOfTail
<1> QED  BY <1>1, <1>2, SentType, PacketType

\* An answer that says nothing of a packet.
LEMMA RespondInv ==
  ASSUME CsInv, link.out # <<>>, NEW f \in Arrived, FrameTrue(f)', Respond(f),
         UNCHANGED <<q, net, ui, reply, handlers, rows, queue, peer, receipts>>,
         taken \subseteq taken'
  PROVE  CsInv'
<1>1. /\ link' \in LinkRecord /\ Range(link'.in) \subseteq Range(link.in) \cup {f}
      /\ Range(link'.out) \subseteq Range(link.out)
  BY Responds
<1> QED  BY <1>1, LinkFields, OutsideInv

LEMMA RefuseLoginInv == ASSUME CsInv, RefuseLogin PROVE CsInv'
<1>1. Answer(FALSE) \in Arrived /\ FrameTrue(Answer(FALSE))'
  BY AnswerType
<1>2. link.out # <<>> /\ Respond(Answer(FALSE))
  BY DEF RefuseLogin, Serves
<1>3. UNCHANGED <<q, net, ui, reply, handlers, rows, queue, taken, peer, receipts>>
  BY DEF RefuseLogin, client, server
<1> QED  BY <1>1, <1>2, <1>3, RespondInv

LEMMA AcceptLoginInv == ASSUME CsInv, AcceptLogin PROVE CsInv'
<1>1. Answer(TRUE) \in Arrived /\ FrameTrue(Answer(TRUE))'
  BY AnswerType
<1>2. link.out # <<>>
  BY DEF AcceptLogin, Serves
<1>3. UNCHANGED <<q, net, ui, reply, handlers, rows, queue, taken, peer, receipts>>
  BY DEF AcceptLogin, client, server
<1>4. Tail(link.out) \in Seq(Sent) /\ Range(Tail(link.out)) \subseteq Range(link.out)
  BY <1>2, LinkFields, RangeOfTail
<1>5. /\ link' \in LinkRecord /\ Range(link'.in) \subseteq Range(link.in) \cup {Answer(TRUE)}
      /\ Range(link'.out) \subseteq Range(link.out)
  <2>1. CASE link.up
    <3>1. link' = [link EXCEPT !.in = Append(@, Answer(TRUE)), !.out = Tail(link.out),
                               !.user = TRUE, !.pc = "flush"]
      BY <2>1 DEF AcceptLogin
    <3> QED  BY <1>1, <1>4, <3>1, Added
  <2>2. CASE ~link.up
    <3>1. link' = [link EXCEPT !.out = <<>>, !.user = FALSE, !.pc = link.pc]
      BY <2>2, LinkFields DEF AcceptLogin, LinkRecord
    <3> QED  BY <3>1, LinkFields, Ended, RangeOfNone
  <2> QED  BY <2>1, <2>2
<1> QED  BY <1>1, <1>3, <1>5, LinkFields, OutsideInv

LEMMA UnauthorizedInv == ASSUME CsInv, Unauthorized PROVE CsInv'
<1>1. link.out # <<>> /\ Respond(Error)
  BY DEF Unauthorized, Serves
<1>2. UNCHANGED <<q, net, ui, reply, handlers, rows, queue, taken, peer, receipts>>
  BY DEF Unauthorized, client, server
<1> QED  BY <1>1, <1>2, AnswerType, RespondInv

LEMMA FlushInv == ASSUME CsInv, Flush PROVE CsInv'
<1>1. UNCHANGED <<q, net, ui, reply, handlers, rows, taken, peer, receipts>>
  BY DEF Flush, client
<1>2. CASE queue = <<>> /\ link' = [link EXCEPT !.pc = "recv"] /\ UNCHANGED queue
  <2>1. link' \in LinkRecord /\ link'.in = link.in /\ link'.out = link.out
    BY <1>2, LinkFields DEF LinkRecord
  <2> QED  BY <1>1, <1>2, <2>1, LinkFields, OutsideInv
<1>3. CASE /\ queue # <<>> /\ link.up /\ queue' = <<>>
           /\ link' = [link EXCEPT !.in = Append(@, Sync(queue)), !.pc = "recv"]
  <2>1. PICK s \in Seq(Packet) : s = queue
    BY LinkFields
  <2>2. \A p \in Range(s) : Incoming(p)'
    BY <1>1, <2>1, IncomingStays DEF CsInv, Arriving
  <2>3. Sync(s) \in Arrived /\ FrameTrue(Sync(s))'
    BY <2>2, SyncType
  <2>4. link' = [link EXCEPT !.in = Append(@, Sync(s)), !.out = link.out, !.user = link.user,
                             !.pc = "recv"]
    BY <1>3, <2>1, LinkFields DEF LinkRecord
  <2>5. link' \in LinkRecord /\ Range(link'.in) = Range(link.in) \cup {Sync(s)} /\ link'.out = link.out
    BY <2>3, <2>4, LinkFields, Added
  <2>6. queue' \in Seq(Packet) /\ Range(queue') = {}
    BY <1>3, NoneIsSeq, RangeOfNone
  <2> QED  BY <1>1, <2>3, <2>5, <2>6, OutsideInv
<1>4. CASE /\ queue # <<>> /\ ~link.up /\ UNCHANGED queue
           /\ link' = [link EXCEPT !.out = <<>>, !.user = FALSE, !.pc = "recv"]
  <2>1. link' \in LinkRecord /\ link'.in = link.in /\ link'.out = <<>>
    BY <1>4, Ended
  <2> QED  BY <1>1, <1>4, <2>1, LinkFields, RangeOfNone, OutsideInv
<1> QED  BY <1>2, <1>3, <1>4 DEF Flush

\* A DELIVERY is sent for a message that is in the server's hands.
LEMMA ServeMessageInv == ASSUME CsInv, ServeMessage PROVE CsInv'
<1>1. Serves("message") /\ taken' = taken \cup {Head(link.out)}
  BY DEF ServeMessage
<1>2. PICK m \in Message : m = Head(link.out).id
  BY <1>1, FirstFrame
<1>3. link.out # <<>> /\ Head(link.out) = Of("message", m)
  <2>1. Head(link.out) \in Packet /\ Head(link.out).type = "message" /\ link.out # <<>>
    BY <1>1, FirstFrame
  <2> QED  BY <1>2, <2>1 DEF Packet, Of
<1>4. Of("delivery", m) \in Arrived /\ FrameTrue(Of("delivery", m))'
  <2>1. Of("delivery", m) \in Packet /\ Of("delivery", m).type = "delivery" /\ Of("delivery", m).id = m
    BY OfType
  <2>2. Of("message", m) \in taken'
    BY <1>1, <1>3
  <2> QED  BY <2>1, <2>2, PacketType DEF FrameTrue, Incoming
<1>5. Respond(Of("delivery", m))
  BY <1>2 DEF ServeMessage
<1>6. UNCHANGED <<q, net, ui, reply, handlers, rows, queue, peer, receipts>>
  BY DEF ServeMessage, client
<1> QED  BY <1>1, <1>3, <1>4, <1>5, <1>6, RespondInv

LEMMA ServeChangeInv == ASSUME CsInv, ServeChange PROVE CsInv'
<1>1. link.out # <<>> /\ Respond(Edited) /\ taken \subseteq taken'
  BY DEF ServeChange, Serves
<1>2. UNCHANGED <<q, net, ui, reply, handlers, rows, queue, peer, receipts>>
  BY DEF ServeChange, client
<1> QED  BY <1>1, <1>2, AnswerType, RespondInv

\* The message of a receipt is saved since before the receipt was written.
LEMMA ServeReadInv == ASSUME CsInv, ServeRead PROVE CsInv'
<1>1. Serves("read") /\ receipts' = receipts \cup {Head(link.out).id}
  BY DEF ServeRead
<1>2. /\ link.out # <<>> /\ Head(link.out).id \in Message
      /\ Head(link.out).type = "read" /\ Head(link.out) \in Range(link.out)
  BY <1>1, FirstFrame
<1>3. "saved" \in rows[Head(link.out).id]
  BY <1>2 DEF CsInv, Leaving
<1>4. Tail(link.out) \in Seq(Sent) /\ Range(Tail(link.out)) \subseteq Range(link.out)
  BY <1>2, LinkFields, RangeOfTail
<1>5. link' \in LinkRecord /\ link'.in = link.in /\ link'.out = Tail(link.out)
  BY <1>4, LinkFields DEF ServeRead, LinkRecord
<1>6. UNCHANGED <<q, net, ui, reply, handlers, rows, queue, taken, peer>>
  BY DEF ServeRead, client
<1> QED  BY <1>1, <1>2, <1>3, <1>4, <1>5, <1>6, LinkFields, OutsideInv

LEMMA EndHandlerInv == ASSUME CsInv, EndHandler PROVE CsInv'
<1>1. link' \in LinkRecord /\ link'.in = link.in /\ link'.out = link.out
  BY LinkFields DEF EndHandler, LinkRecord
<1>2. UNCHANGED <<q, net, ui, reply, handlers, rows, queue, taken, peer, receipts>>
  BY DEF EndHandler, client, server
<1> QED  BY <1>1, <1>2, LinkFields, OutsideInv

\* A packet of the peer's is delivered, kept or lost.
LEMMA PeerInv ==
  ASSUME CsInv, NEW p \in Packet, Incoming(p)',
         UNCHANGED <<q, client, taken, receipts>>, peer \subseteq peer',
         Deliver(p) \/ Keep(p) \/ UNCHANGED <<link, queue>>
  PROVE  CsInv'
<1>1. UNCHANGED <<q, net, ui, reply, handlers, rows, taken, receipts>>
  BY DEF client
<1>2. CASE Deliver(p)
  <2>1. p \in Arrived /\ FrameTrue(p)'
    BY PacketType DEF FrameTrue
  <2>2. /\ link' \in LinkRecord /\ Range(link'.in) = Range(link.in) \cup {p}
        /\ link'.out = link.out /\ queue' = queue
    BY <1>2, <2>1, Delivers
  <2> QED  BY <1>1, <2>1, <2>2, LinkFields, OutsideInv
<1>3. CASE Keep(p)
  <2>1. link' = link /\ queue' \in Seq(Packet) /\ Range(queue') = Range(queue) \cup {p}
    BY <1>3, Keeps
  <2> QED  BY <1>1, <2>1, LinkFields, OutsideInv
<1>4. CASE UNCHANGED <<link, queue>>
  BY <1>1, <1>4, LinkFields, OutsideInv
<1> QED  BY <1>2, <1>3, <1>4

LEMMA PeerSendsInv == ASSUME CsInv, NEW m \in Theirs, PeerSends(m) PROVE CsInv'
<1>1. Of("message", m) \in Packet /\ Of("message", m).type = "message" /\ Of("message", m).id = m
  BY OfType DEF Message
<1>2. Incoming(Of("message", m))'
  BY <1>1 DEF Incoming
<1> QED  BY <1>1, <1>2, PeerInv DEF PeerSends

LEMMA PeerChangesInv ==
  ASSUME CsInv, NEW kind \in {"edit", "delete"}, NEW m \in Message, PeerChanges(kind, m)
  PROVE  CsInv'
<1>1. Of(kind, m) \in Packet /\ Of(kind, m).type = kind
  BY OfType
<1>2. Incoming(Of(kind, m))'
  BY <1>1 DEF Incoming
<1> QED  BY <1>1, <1>2, PeerInv DEF PeerChanges

LEMMA PeerReadsInv == ASSUME CsInv, NEW m \in Mine, PeerReads(m) PROVE CsInv'
<1>1. Of("read", m) \in Packet /\ Of("read", m).type = "read" /\ Of("read", m).id = m
  BY OfType DEF Message
<1>2. Incoming(Of("read", m))'
  BY <1>1 DEF Incoming, PeerReads
<1> QED  BY <1>1, <1>2, PeerInv DEF PeerReads

-----------------------------------------------------------------------------
\* The client.

\* A step that leaves the messages alone.
LEMMA NoRowsInv ==
  ASSUME CsInv, UNCHANGED <<rows, server>>, q' \in Seq(Sent), link' \in LinkRecord,
         net' \in NetRecord, ui' \in UiRecord, reply' \in {"none", "ok", "fail"},
         handlers' \in BOOLEAN, AtWork',
         net'.pc = "receipt" => net' = net,
         Range(link'.in) \subseteq Range(link.in),
         \A p \in Range(net'.todo) : Incoming(p),
         \A p \in Range(q') \cup Range(link'.out) :
           p \in Range(q) \cup Range(link.out) \/ p.type # "read"
  PROVE  CsInv'
<1>1. Records'
  BY LinkFields DEF server, CsInv, Records
<1>2. AtHand' /\ SavedFirst' /\ MarkedIsTrue'
  BY DEF server, CsInv, AtHand, SavedFirst, MarkedIsTrue
<1> QED  BY <1>1, <1>2, ClientInv

\* What is at hand is true.
LEMMA TodoTrue == CsInv => \A p \in Range(net.todo) : Incoming(p)
BY DEF CsInv, Arriving

LEMMA OtherFields ==
  ASSUME CsInv
  PROVE  ui \in UiRecord /\ reply \in {"none", "ok", "fail"} /\ handlers \in BOOLEAN /\ AtWork
BY DEF CsInv, Records

LEMMA ConnectInv == ASSUME CsInv, Connect PROVE CsInv'
<1>1. link' \in LinkRecord /\ link'.in = <<>> /\ link'.out = <<>>
  BY NoneIsSeq DEF Connect, NoLink, LinkRecord
<1>2. net' \in NetRecord /\ net'.todo = net.todo /\ net'.pc = "read" /\ net.pc = "wait"
  BY LinkFields DEF Connect, NetRecord
<1>3. UNCHANGED <<q, ui, reply, handlers, rows, server>>
  BY DEF Connect
<1>4. AtWork'
  BY <1>2, <1>3, OtherFields DEF AtWork
<1> QED  BY <1>1, <1>2, <1>3, <1>4, LinkFields, OtherFields, TodoTrue, RangeOfNone, NoRowsInv

LEMMA DisconnectInv == ASSUME CsInv, Disconnect PROVE CsInv'
<1>1. net' \in NetRecord /\ net'.todo = net.todo /\ net'.pc = "wait" /\ net.pc = "read"
  BY LinkFields DEF Disconnect, NetRecord
<1>2. UNCHANGED <<q, link, ui, reply, handlers, rows, server>>
  BY DEF Disconnect
<1>3. AtWork'
  BY <1>1, <1>2, OtherFields DEF AtWork
<1> QED  BY <1>1, <1>2, <1>3, LinkFields, OtherFields, TodoTrue, NoRowsInv

\* The sender moves a packet from the queue to the connection, or drops it.
LEMMA SenderInv == ASSUME CsInv, Sender PROVE CsInv'
<1>1. UNCHANGED <<net, ui, reply, handlers, rows, server>>
  BY DEF Sender, client
<1>2. /\ Head(q) \in Sent /\ Head(q) \in Range(q) /\ Tail(q) \in Seq(Sent)
      /\ Range(Tail(q)) \subseteq Range(q) /\ q' = Tail(q)
  BY LinkFields, RangeOfTail DEF Sender
<1>3. /\ link' \in LinkRecord /\ link'.in = link.in
      /\ Range(link'.out) \subseteq Range(link.out) \cup {Head(q)}
  <2>1. CASE link.up
    <3>1. /\ Append(link.out, Head(q)) \in Seq(Sent)
          /\ Range(Append(link.out, Head(q))) = Range(link.out) \cup {Head(q)}
      BY <1>2, LinkFields, RangeOfAppend
    <3>2. link' = [link EXCEPT !.out = Append(@, Head(q))]
      BY <2>1 DEF Sender
    <3>3. link'.in = link.in /\ link'.out = Append(link.out, Head(q))
      BY <3>2, LinkFields DEF LinkRecord
    <3>4. link' \in LinkRecord
      BY <3>1, <3>2, LinkFields DEF LinkRecord
    <3> QED  BY <3>1, <3>3, <3>4
  <2>2. CASE ~link.up
    BY <2>2, LinkFields DEF Sender
  <2> QED  BY <2>1, <2>2
<1>4. AtWork'
  BY <1>1, OtherFields DEF AtWork
<1> QED  BY <1>1, <1>2, <1>3, <1>4, LinkFields, OtherFields, TodoTrue, NoRowsInv

\* The steps of the login move the UI on.
LEMMA UiInv ==
  ASSUME CsInv, UNCHANGED <<link, net, rows, server>>,
         NEW pc \in {"auth", "unlock", "idle"}, NEW cred \in {"token", "password"},
         ui.pc \in {"start", "auth", "unlock"}, ui' = [ui EXCEPT !.pc = pc, !.cred = cred],
         q' = q \/ q' = Append(q, Login),
         reply' \in {"none", "ok", "fail"}, handlers' \in BOOLEAN
  PROVE  CsInv'
<1>1. ui' \in UiRecord /\ ui'.cur = ui.cur /\ ui'.pc = pc
  BY OtherFields DEF UiRecord
<1>2. AtWork'
  BY <1>1, OtherFields DEF AtWork
<1>3. q' \in Seq(Sent) /\ Range(q') \subseteq Range(q) \cup {Login} /\ Login.type # "read"
  <2>1. Login \in Sent
    BY DEF Sent
  <2>2. Append(q, Login) \in Seq(Sent) /\ Range(Append(q, Login)) = Range(q) \cup {Login}
    BY <2>1, LinkFields, RangeOfAppend
  <2>3. Login.type # "read"
    BY DEF Login
  <2> QED  BY <2>2, <2>3, LinkFields
<1> QED  BY <1>1, <1>2, <1>3, LinkFields, TodoTrue, NoRowsInv

LEMMA LoginInv ==
  ASSUME CsInv, Authenticate \/ Unlock \/ Ready \/ GiveUp
  PROVE  CsInv'
<1>1. UNCHANGED <<link, net, rows, server>>
  BY DEF Authenticate, Unlock, Ready, GiveUp
<1>2. ui \in UiRecord /\ ui.cred \in {"token", "password"}
  BY OtherFields DEF UiRecord
<1>3. \E pc \in {"auth", "unlock", "idle"}, cred \in {"token", "password"} :
        ui.pc \in {"start", "auth", "unlock"} /\ ui' = [ui EXCEPT !.pc = pc, !.cred = cred]
  <2>1. CASE Authenticate
    <3>1. ui.pc \in {"start", "auth", "unlock"}
      BY <2>1 DEF Authenticate
    <3>2. \/ ui' = [ui EXCEPT !.pc = "auth"]
          \/ ui' = [ui EXCEPT !.pc = "auth", !.cred = "password"]
      BY <2>1 DEF Authenticate
    <3>3. \/ ui' = [ui EXCEPT !.pc = "auth", !.cred = ui.cred]
          \/ ui' = [ui EXCEPT !.pc = "auth", !.cred = "password"]
      BY <1>2, <3>2 DEF UiRecord
    <3> QED  BY <1>2, <3>1, <3>3
  <2>2. CASE Unlock \/ Ready \/ GiveUp
    <3>1. /\ ui.pc \in {"start", "auth", "unlock"}
          /\ \E pc \in {"unlock", "idle"} : ui' = [ui EXCEPT !.pc = pc]
      BY <2>2 DEF Unlock, Ready, GiveUp
    <3>2. PICK pc \in {"unlock", "idle"} : ui' = [ui EXCEPT !.pc = pc]
      BY <3>1
    <3>3. ui' = [ui EXCEPT !.pc = pc, !.cred = ui.cred]
      BY <1>2, <3>2 DEF UiRecord
    <3> QED  BY <1>2, <3>1, <3>3
  <2> QED  BY <2>1, <2>2
<1>4. q' = q \/ q' = Append(q, Login)
  BY DEF Authenticate, Unlock, Ready, GiveUp
<1>5. reply' \in {"none", "ok", "fail"} /\ handlers' \in BOOLEAN
  BY OtherFields DEF Authenticate, Unlock, Ready, GiveUp
<1>6. PICK pc \in {"auth", "unlock", "idle"}, cred \in {"token", "password"} :
        ui.pc \in {"start", "auth", "unlock"} /\ ui' = [ui EXCEPT !.pc = pc, !.cred = cred]
  BY <1>3
<1> QED  BY <1>1, <1>4, <1>5, <1>6, UiInv

\* What the user types is handed to the connection, and is no receipt.
LEMMA TypedInv ==
  ASSUME CsInv, NEW p \in Packet, p.type # "read", Enqueue(p), ui.pc = "idle",
         NEW pc \in {"saved", "edit", "delete"}, NEW m \in Message,
         ui' = [ui EXCEPT !.pc = pc, !.cur = {m}],
         UNCHANGED <<link, net, reply, handlers, rows, server>>
  PROVE  CsInv'
<1>1. ui' \in UiRecord /\ ui'.cur = {m} /\ ui'.pc = pc
  BY OtherFields DEF UiRecord
<1>2. AtWork'
  BY <1>1, OtherFields DEF AtWork
<1>3. q' \in Seq(Sent) /\ Range(q') = Range(q) \cup {p}
  <2>1. p \in Sent
    BY DEF Sent
  <2> QED  BY <2>1, LinkFields, RangeOfAppend DEF Enqueue
<1> QED  BY <1>1, <1>2, <1>3, LinkFields, OtherFields, TodoTrue, NoRowsInv

LEMMA SubmitInv == ASSUME CsInv, NEW m \in Mine, Submit(m) PROVE CsInv'
<1>1. m \in Message
  BY DEF Message
<1>2. Of("message", m) \in Packet /\ Of("message", m).type = "message"
  BY <1>1, OfType
<1>3. UNCHANGED <<link, net, reply, handlers, rows, server>>
  BY DEF Submit
<1> QED  BY <1>1, <1>2, <1>3, TypedInv DEF Submit

LEMMA SubmitChangeInv ==
  ASSUME CsInv, NEW kind \in {"edit", "delete"}, NEW m \in Message, SubmitChange(kind, m)
  PROVE  CsInv'
<1>1. Of(kind, m) \in Packet /\ Of(kind, m).type = kind
  BY OfType
<1>2. UNCHANGED <<link, net, reply, handlers, rows, server>>
  BY DEF SubmitChange
<1> QED  BY <1>1, <1>2, TypedInv DEF SubmitChange

-----------------------------------------------------------------------------
\* The messages table.

\* A flag that m may be given.
LEMMA RowsInv ==
  ASSUME CsInv, NEW m \in Message, NEW F \in SUBSET Flag,
         rows' = [rows EXCEPT ![m] = F], rows[m] \subseteq F,
         F # {} => "saved" \in F,
         m \in Mine /\ {"delivered", "read"} \cap F # {} => Of("message", m) \in taken,
         m \in Mine /\ "read" \in F => <<"read", m>> \in peer,
         UNCHANGED <<taken, peer>>
  PROVE  /\ rows' \in [Message -> SUBSET Flag] /\ rows'[m] = F
         /\ \A n \in Message : rows[n] \subseteq rows'[n]
         /\ SavedFirst' /\ MarkedIsTrue'
<1>1. rows \in [Message -> SUBSET Flag]
  BY LinkFields
<1>2. \A n \in Message : rows'[n] = IF n = m THEN F ELSE rows[n]
  BY <1>1
<1>3. rows' \in [Message -> SUBSET Flag]
  BY <1>1
<1>4. SavedFirst'
  BY <1>2 DEF CsInv, SavedFirst
<1>5. MarkedIsTrue'
  <2> SUFFICES ASSUME NEW n \in Mine
               PROVE  /\ {"delivered", "read"} \cap rows'[n] # {} => Of("message", n) \in taken
                      /\ "read" \in rows'[n] => <<"read", n>> \in peer
    BY DEF MarkedIsTrue
  <2>1. n \in Message
    BY DEF Message
  <2>2. CASE n = m
    BY <1>2, <2>1, <2>2
  <2>3. CASE n # m
    <3>1. rows'[n] = rows[n]
      BY <1>2, <2>1, <2>3
    <3> QED  BY <3>1 DEF CsInv, MarkedIsTrue
  <2> QED  BY <2>2, <2>3
<1> QED  BY <1>1, <1>2, <1>3, <1>4, <1>5

\* An UPDATE with a flag that tells the truth.
LEMMA MarkKeeps ==
  ASSUME CsInv, NEW m \in Message, NEW flag \in Flag \ {"saved"}, Mark(m, flag),
         m \in Mine /\ flag \in {"delivered", "read"} => Of("message", m) \in taken,
         m \in Mine /\ flag = "read" => <<"read", m>> \in peer,
         UNCHANGED <<taken, peer>>
  PROVE  /\ rows' \in [Message -> SUBSET Flag]
         /\ \A n \in Message : rows[n] \subseteq rows'[n]
         /\ SavedFirst' /\ MarkedIsTrue'
<1> DEFINE F == IF rows[m] = {} THEN {} ELSE rows[m] \cup {flag}
<1>1. rows[m] \in SUBSET Flag
  BY LinkFields
<1>2. rows' = [rows EXCEPT ![m] = F]
  BY DEF Mark
<1>3. PICK G \in SUBSET Flag : G = F
  BY <1>1
<1>4. rows[m] \subseteq G /\ (G # {} => "saved" \in G)
  BY <1>3 DEF CsInv, SavedFirst
<1>5. /\ m \in Mine /\ {"delivered", "read"} \cap G # {} => Of("message", m) \in taken
      /\ m \in Mine /\ "read" \in G => <<"read", m>> \in peer
  BY <1>3 DEF CsInv, MarkedIsTrue
<1>6. rows' = [rows EXCEPT ![m] = G]
  BY <1>2, <1>3
<1> QED  BY <1>4, <1>5, <1>6, RowsInv

\* An INSERT OR IGNORE: of the user's own messages nothing is said but that they are saved.
LEMMA SaveKeeps ==
  ASSUME CsInv, NEW m \in Message, NEW flags \in SUBSET Flag, Save(m, flags), "saved" \in flags,
         "read" \notin flags, m \in Mine => "delivered" \notin flags,
         UNCHANGED <<taken, peer>>
  PROVE  /\ rows' \in [Message -> SUBSET Flag] /\ "saved" \in rows'[m]
         /\ \A n \in Message : rows[n] \subseteq rows'[n]
         /\ SavedFirst' /\ MarkedIsTrue'
<1> DEFINE F == IF rows[m] = {} THEN flags ELSE rows[m]
<1>1. rows[m] \in SUBSET Flag
  BY LinkFields
<1>2. rows' = [rows EXCEPT ![m] = F]
  BY DEF Save
<1>3. PICK G \in SUBSET Flag : G = F
  BY <1>1
<1>4. rows[m] \subseteq G /\ "saved" \in G
  BY <1>3 DEF CsInv, SavedFirst
<1>5. /\ m \in Mine /\ {"delivered", "read"} \cap G # {} => Of("message", m) \in taken
      /\ m \in Mine /\ "read" \in G => <<"read", m>> \in peer
  BY <1>3 DEF CsInv, MarkedIsTrue
<1>6. rows' = [rows EXCEPT ![m] = G]
  BY <1>2, <1>3
<1>7. rows'[m] = G
  BY <1>4, <1>5, <1>6, RowsInv
<1> QED  BY <1>4, <1>5, <1>6, <1>7, RowsInv

LEMMA StoreInv == ASSUME CsInv, Store PROVE CsInv'
<1>1. ui.pc \in {"saved", "edit", "delete"} /\ ui \in UiRecord
  BY OtherFields DEF Store
<1>2. PICK m \in Message : ui.cur = {m}
  BY <1>1, OtherFields DEF AtWork
<1>3. UNCHANGED <<q, link, net, reply, handlers, server>>
  BY DEF Store
<1>4. UNCHANGED <<taken, peer, receipts, queue>>
  BY <1>3 DEF server
<1>5. IF ui.pc = "saved" THEN Save(m, {"saved"}) ELSE Mark(m, ui.pc)
  BY <1>2 DEF Store
<1>6. /\ rows' \in [Message -> SUBSET Flag]
      /\ \A n \in Message : rows[n] \subseteq rows'[n]
      /\ SavedFirst' /\ MarkedIsTrue'
  <2>1. CASE ui.pc = "saved"
    <3>1. Save(m, {"saved"}) /\ {"saved"} \in SUBSET Flag
      BY <1>5, <2>1 DEF Flag
    <3> QED  BY <1>4, <3>1, SaveKeeps
  <2>2. CASE ui.pc \in {"edit", "delete"}
    <3>1. PICK flag \in {"edit", "delete"} : flag = ui.pc
      BY <2>2
    <3>2. Mark(m, flag) /\ flag \in Flag \ {"saved"} /\ flag \notin {"delivered", "read"}
      BY <1>5, <3>1 DEF Flag
    <3> QED  BY <1>4, <3>2, MarkKeeps
  <2> QED  BY <1>1, <2>1, <2>2
<1>7. ui' \in UiRecord /\ ui'.cur = {} /\ ui'.pc = "idle"
  BY <1>1 DEF Store, UiRecord
<1>8. Records'
  BY <1>3, <1>4, <1>6, <1>7, LinkFields, OtherFields DEF CsInv, Records
<1>9. AtWork'
  BY <1>3, <1>7, OtherFields DEF AtWork
<1>10. AtHand'
  <2> SUFFICES ASSUME net.pc = "receipt"
               PROVE  Head(net.todo).type = "message" /\ "saved" \in rows'[Head(net.todo).id]
    BY <1>3 DEF AtHand
  <2>1. net.todo # <<>>
    BY OtherFields DEF AtWork
  <2>2. Head(net.todo).id \in Message
    BY <2>1, LinkFields, RangeOfTail, PacketType
  <2>3. Head(net.todo).type = "message" /\ "saved" \in rows[Head(net.todo).id]
    BY DEF CsInv, AtHand
  <2> QED  BY <1>6, <2>2, <2>3
<1> QED  BY <1>3, <1>6, <1>8, <1>9, <1>10, TodoTrue, ClientInv

-----------------------------------------------------------------------------
\* The packets that come.

\* A frame that is read gives the packets it brings, or nothing.
LEMMA WorkTrue ==
  ASSUME CsInv, NEW f \in Arrived, FrameTrue(f)
  PROVE  Work(f) \in Seq(Packet) /\ \A p \in Range(Work(f)) : Incoming(p)
<1>1. CASE f.type = "sync"
  <2>1. f.list \in Seq(Packet) /\ \A p \in Range(f.list) : Incoming(p)
    BY <1>1, ArrivedType DEF FrameTrue
  <2> QED  BY <1>1, <2>1, NoneIsSeq, RangeOfNone DEF Work
<1>2. CASE f.type \in {"message", "edit", "delete", "delivery", "read"}
  <2>1. f \in Packet /\ Incoming(f)
    BY <1>2, ArrivedType DEF FrameTrue
  <2>2. <<f>> \in Seq(Packet) /\ Range(<<f>>) = {f}
    BY <2>1, NoneIsSeq DEF Range
  <2> QED  BY <1>2, <2>1, <2>2, NoneIsSeq, RangeOfNone DEF Work
<1>3. CASE f.type \notin {"sync", "message", "edit", "delete", "delivery", "read"}
  BY <1>3, NoneIsSeq, RangeOfNone DEF Work
<1> QED  BY <1>1, <1>2, <1>3

LEMMA DispatchInv == ASSUME CsInv, Dispatch PROVE CsInv'
<1>1. net.pc = "read" /\ link.in # <<>> /\ net.todo = <<>>
  BY OtherFields DEF Dispatch, AtWork
<1>2. PICK f \in Arrived : f = Head(link.in) /\ f \in Range(link.in)
  BY <1>1, LinkFields, RangeOfTail
<1>3. FrameTrue(f)
  BY <1>2 DEF CsInv, Arriving
<1>4. PICK w \in Seq(Packet) : w = Work(f) /\ \A p \in Range(w) : Incoming(p)
  BY <1>3, WorkTrue
<1>5. net' = [pc |-> IF w = <<>> THEN "read" ELSE "apply", todo |-> w]
  BY <1>2, <1>4 DEF Dispatch
<1>6. /\ net' \in NetRecord /\ net'.todo = w /\ net'.pc \in {"read", "apply"}
      /\ w # <<>> <=> net'.pc = "apply"
  BY <1>5 DEF NetRecord
<1>7. Tail(link.in) \in Seq(Arrived) /\ Range(Tail(link.in)) \subseteq Range(link.in)
  BY <1>1, LinkFields, RangeOfTail
<1>8. link' \in LinkRecord /\ link'.in = Tail(link.in) /\ link'.out = link.out
  BY <1>7, LinkFields DEF Dispatch, LinkRecord
<1>9. UNCHANGED <<q, ui, handlers, rows, server>> /\ reply' \in {"none", "ok", "fail"}
  BY OtherFields DEF Dispatch
<1>10. AtWork'
  BY <1>6, <1>9, OtherFields DEF AtWork
<1> QED  BY <1>4, <1>6, <1>7, <1>8, <1>9, <1>10, LinkFields, OtherFields, NoRowsInv

\* The packet that is applied.
LEMMA FirstPacket ==
  ASSUME CsInv, net.pc \in {"apply", "receipt"}
  PROVE  /\ net.todo # <<>> /\ Head(net.todo) \in Packet /\ Head(net.todo).id \in Message
         /\ Incoming(Head(net.todo))
<1>1. net.todo # <<>>
  BY OtherFields DEF AtWork
<1>2. Head(net.todo) \in Packet /\ Head(net.todo) \in Range(net.todo)
  BY <1>1, LinkFields, RangeOfTail
<1> QED  BY <1>1, <1>2, TodoTrue, PacketType

LEMMA DoneMoves ==
  ASSUME CsInv, net.pc \in {"apply", "receipt"}, Done
  PROVE  /\ net' \in NetRecord /\ net'.pc \in {"apply", "read"}
         /\ net'.todo # <<>> <=> net'.pc = "apply"
         /\ \A p \in Range(net'.todo) : Incoming(p)
<1>1. net.todo # <<>>
  BY FirstPacket
<1>2. /\ Tail(net.todo) \in Seq(Packet) /\ Range(Tail(net.todo)) \subseteq Range(net.todo)
      /\ Len(net.todo) > 1 <=> Tail(net.todo) # <<>>
  BY <1>1, LinkFields, RangeOfTail
<1>3. net' = [pc |-> IF Tail(net.todo) # <<>> THEN "apply" ELSE "read", todo |-> Tail(net.todo)]
  BY <1>2 DEF Done
<1>4. net' \in NetRecord /\ net'.todo = Tail(net.todo) /\ net'.pc \in {"apply", "read"}
  BY <1>2, <1>3 DEF NetRecord
<1>5. net'.todo # <<>> <=> net'.pc = "apply"
  BY <1>3
<1>6. \A p \in Range(net'.todo) : Incoming(p)
  BY <1>2, <1>4, TodoTrue
<1> QED  BY <1>4, <1>5, <1>6

LEMMA ApplyInv == ASSUME CsInv, Apply PROVE CsInv'
<1>1. net.pc = "apply"
  BY DEF Apply
<1>2. PICK p \in Packet : p = Head(net.todo)
  BY <1>1, FirstPacket
<1>3. /\ p.id \in Message /\ Incoming(p)
      /\ p.type \in {"message", "edit", "delete", "delivery", "read"} /\ net.todo # <<>>
  BY <1>1, <1>2, FirstPacket, PacketType
<1>4. UNCHANGED <<q, link, ui, reply, handlers, server>>
  BY DEF Apply
<1>5. UNCHANGED <<taken, peer, receipts, queue>>
  BY <1>4 DEF server
<1>6. CASE p.type = "message"
  <2>1. Save(p.id, {"saved", "delivered"}) /\ net' = [net EXCEPT !.pc = "receipt"]
    BY <1>2, <1>6 DEF Apply
  <2>2. p.id \in Theirs /\ p.id \notin Mine
    BY <1>3, <1>6, SessionAssumption DEF Incoming
  <2>3. /\ rows' \in [Message -> SUBSET Flag] /\ "saved" \in rows'[p.id]
        /\ \A n \in Message : rows[n] \subseteq rows'[n]
        /\ SavedFirst' /\ MarkedIsTrue'
    <3>1. {"saved", "delivered"} \in SUBSET Flag
      BY DEF Flag
    <3> QED  BY <1>3, <1>5, <2>1, <2>2, <3>1, SaveKeeps
  <2>4. net' \in NetRecord /\ net'.todo = net.todo /\ net'.pc = "receipt"
    BY <2>1, LinkFields DEF NetRecord
  <2>5. Records'
    BY <1>4, <1>5, <2>3, <2>4, LinkFields, OtherFields DEF CsInv, Records
  <2>6. AtWork' /\ AtHand'
    BY <1>2, <1>3, <1>4, <1>6, <2>3, <2>4, OtherFields DEF AtWork, AtHand
  <2> QED  BY <1>4, <2>3, <2>4, <2>5, <2>6, TodoTrue, ClientInv
<1>7. CASE p.type # "message"
  <2>1. Mark(p.id, IF p.type = "delivery" THEN "delivered" ELSE p.type) /\ Done
    BY <1>2, <1>7 DEF Apply
  <2>2. PICK flag \in Flag \ {"saved"} : flag = IF p.type = "delivery" THEN "delivered" ELSE p.type
    BY <1>3, <1>7 DEF Flag
  <2>3. /\ p.id \in Mine /\ flag \in {"delivered", "read"} => Of("message", p.id) \in taken
        /\ p.id \in Mine /\ flag = "read" => <<"read", p.id>> \in peer
    BY <1>3, <1>7, <2>2 DEF Incoming
  <2>4. /\ rows' \in [Message -> SUBSET Flag]
        /\ \A n \in Message : rows[n] \subseteq rows'[n]
        /\ SavedFirst' /\ MarkedIsTrue'
    <3>1. Mark(p.id, flag)
      BY <2>1, <2>2
    <3> QED  BY <1>3, <1>5, <2>3, <3>1, MarkKeeps
  <2>5. /\ net' \in NetRecord /\ net'.pc \in {"apply", "read"}
        /\ net'.todo # <<>> <=> net'.pc = "apply"
        /\ \A k \in Range(net'.todo) : Incoming(k)
    BY <1>1, <2>1, DoneMoves
  <2>6. Records'
    BY <1>4, <1>5, <2>4, <2>5, LinkFields, OtherFields DEF CsInv, Records
  <2>7. AtWork' /\ AtHand'
    BY <1>4, <2>5, OtherFields DEF AtWork, AtHand
  <2> QED  BY <1>4, <2>4, <2>5, <2>6, <2>7, ClientInv
<1> QED  BY <1>6, <1>7

\* The receipt goes out for the message at hand, which is saved; with the chat open every
\* message of the peer's is read.
LEMMA ReceiptInv == ASSUME CsInv, Receipt PROVE CsInv'
<1>1. net.pc = "receipt" /\ Done
  BY DEF Receipt
<1>2. PICK m \in Message : m = Head(net.todo).id
  BY <1>1, FirstPacket
<1>3. "saved" \in rows[m]
  BY <1>1, <1>2 DEF CsInv, AtHand
<1>4. UNCHANGED <<link, ui, reply, handlers, server>>
  BY DEF Receipt
<1>5. UNCHANGED <<taken, peer, receipts, queue>>
  BY <1>4 DEF server
<1>6. /\ net' \in NetRecord /\ net'.pc \in {"apply", "read"}
      /\ net'.todo # <<>> <=> net'.pc = "apply"
      /\ \A k \in Range(net'.todo) : Incoming(k)
  BY <1>1, DoneMoves
<1>7. AtWork' /\ AtHand'
  BY <1>4, <1>6, OtherFields DEF AtWork, AtHand
<1>8. Of("read", m) \in Packet /\ Of("read", m).id = m
  BY OfType
<1>9. /\ q' \in Seq(Sent)
      /\ \A p \in Range(q') : p \in Range(q) \/ p = Of("read", m)
  <2>1. Of("read", m) \in Sent
    BY <1>8 DEF Sent
  <2>2. /\ Append(q, Of("read", m)) \in Seq(Sent)
        /\ Range(Append(q, Of("read", m))) = Range(q) \cup {Of("read", m)}
    BY <2>1, LinkFields, RangeOfAppend
  <2>3. q' = Append(q, Of("read", m)) \/ q' = q
    BY <1>2 DEF Receipt
  <2> QED  BY <2>2, <2>3, LinkFields
<1>10. /\ rows' \in [Message -> SUBSET Flag]
       /\ \A n \in Message : rows[n] \subseteq rows'[n]
       /\ \A n \in Mine : rows'[n] = rows[n]
       /\ SavedFirst'
  <2>1. CASE rows' = [n \in Message |-> IF n \in Theirs /\ rows[n] # {} THEN rows[n] \cup {"read"}
                                                                      ELSE rows[n]]
    <3>1. \A n \in Message : rows[n] \in SUBSET Flag
      BY LinkFields
    <3>2. \A n \in Message : rows'[n] = rows[n] \/ (rows[n] # {} /\ rows'[n] = rows[n] \cup {"read"})
      BY <2>1
    <3>3. \A n \in Message : rows'[n] \in SUBSET Flag
      BY <3>1, <3>2 DEF Flag
    <3>4. rows' \in [Message -> SUBSET Flag]
      BY <2>1, <3>3
    <3>5. \A n \in Mine : n \in Message /\ n \notin Theirs
      BY SessionAssumption DEF Message
    <3>6. \A n \in Mine : rows'[n] = rows[n]
      BY <2>1, <3>5
    <3>7. SavedFirst'
      BY <3>2 DEF CsInv, SavedFirst
    <3> QED  BY <3>2, <3>4, <3>6, <3>7
  <2>2. CASE rows' = rows
    BY <2>2, LinkFields DEF CsInv, SavedFirst
  <2> QED  BY <2>1, <2>2 DEF Receipt
<1>11. MarkedIsTrue'
  BY <1>5, <1>10 DEF CsInv, MarkedIsTrue
<1>12. Records'
  BY <1>4, <1>5, <1>6, <1>9, <1>10, LinkFields, OtherFields DEF CsInv, Records
<1>13. "saved" \in rows'[m]
  BY <1>3, <1>10
<1>14. \A p \in Range(q') \cup Range(link'.out) :
         \/ p \in Range(q) \cup Range(link.out)
         \/ p.type = "read" => "saved" \in rows'[p.id]
  BY <1>4, <1>8, <1>9, <1>13
<1> QED  BY <1>4, <1>6, <1>7, <1>10, <1>11, <1>12, <1>14, ClientInv

-----------------------------------------------------------------------------
LEMMA NextInv == CsInv /\ [CsNext]_csVars => CsInv'
<1> SUFFICES ASSUME CsInv, [CsNext]_csVars PROVE CsInv'
  OBVIOUS
<1>1. CASE Net
  BY <1>1, DisconnectInv, DispatchInv, ApplyInv, ReceiptInv DEF Net
<1>2. CASE Connect \/ Sender \/ Break \/ GiveUp \/ Store
  BY <1>2, ConnectInv, SenderInv, BreakInv, LoginInv, StoreInv
<1>3. CASE User
  <2>1. ASSUME NEW c \in Changed, SubmitChange(c[1], c[2]) PROVE CsInv'
    <3>1. c[1] \in {"edit", "delete"} /\ c[2] \in Message
      BY SessionAssumption DEF Message
    <3> QED  BY <2>1, <3>1, SubmitChangeInv
  <2> QED  BY <1>3, <2>1, LoginInv, SubmitInv DEF User
<1>4. CASE Server
  BY <1>4, RefuseLoginInv, AcceptLoginInv, FlushInv, UnauthorizedInv, ServeMessageInv,
     ServeChangeInv, ServeReadInv, EndHandlerInv DEF Server
<1>5. CASE Peer
  <2>1. ASSUME NEW c \in PeerChanged, PeerChanges(c[1], c[2]) PROVE CsInv'
    <3>1. c[1] \in {"edit", "delete"} /\ c[2] \in Message
      BY SessionAssumption DEF Message
    <3> QED  BY <2>1, <3>1, PeerChangesInv
  <2> QED  BY <1>5, <2>1, PeerSendsInv, PeerReadsInv DEF Peer
<1>6. CASE UNCHANGED csVars
  BY <1>6, LinkFields, OutsideInv DEF csVars
<1> QED  BY <1>1, <1>2, <1>3, <1>4, <1>5, <1>6 DEF CsNext

LEMMA InvHolds == CsSpec => []CsInv
BY InitInv, NextInv, PTL DEF CsSpec

\* The send queue, the connection, the coroutines, the rows and what waits at the server keep
\* their types: whatever comes and goes, a packet is applied by one coroutine at a time.
THEOREM ClientTypeCorrect == CsSpec => []CsTypeOK
<1>1. CsInv => CsTypeOK
  <2> SUFFICES ASSUME CsInv PROVE CsTypeOK
    OBVIOUS
  <2>1. \A i \in DOMAIN q : q[i] \in Packet \cup {Login}
    BY LinkFields DEF Sent
  <2>2. \A i \in DOMAIN link.out : link.out[i] \in Packet \cup {Login}
    BY LinkFields DEF Sent
  <2>3. \A i \in DOMAIN link.in : link.in[i] \in Frame \/ IsSync(link.in[i])
    BY LinkFields, ArrivedType
  <2>4. \A i \in DOMAIN net.todo : net.todo[i] \in Packet
    BY LinkFields
  <2>5. ui.pc \in {"start", "auth", "unlock", "idle", "saved", "edit", "delete"}
    BY OtherFields DEF UiRecord
  <2> QED  BY <2>1, <2>2, <2>3, <2>4, <2>5, LinkFields, OtherFields DEF CsTypeOK, AtWork
<1> QED  BY <1>1, InvHolds, PTL

\* handle_delivery, handle_read and the UPDATEs behind them: of the user's own messages only
\* those the server accepted are shown delivered, and only those the peer read are shown
\* read, over lost connections, refused logins and syncs.
THEOREM MarksAreTrue == CsSpec => []MarkedIsTrue
<1>1. CsInv => MarkedIsTrue
  BY DEF CsInv
<1> QED  BY <1>1, InvHolds, PTL

\* _on_new_message: a receipt that the server takes is for a message in the reader's history,
\* as the callback runs after the INSERT, however long the receipt waits in _send_q.
THEOREM ReceiptsFollowSaves == CsSpec => []ReceiptsAreForSaved
<1>1. CsInv => ReceiptsAreForSaved
  BY DEF CsInv
<1> QED  BY <1>1, InvHolds, PTL
=============================================================================
