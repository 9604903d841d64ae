------------------------------ MODULE RoomsProofs ------------------------------
(***************************************************************************)
(* For every number of users, rooms, messages, commands, breaks, runs and  *)
(* kills: the tables keep their types, a client's outcome is the server's, *)
(* "delivered" is said of every copy, a text is sealed off from nobody who *)
(* was there, and a client whose connection held lists the right rooms.    *)
(*                                                                         *)
(* None of these is inductive.  Each is proved from an invariant of its    *)
(* own about what is under way between the two sides: Newest pairs a       *)
(* waiting command with its one frame or answer, Once finds a text in one  *)
(* place at a time, and Pipeline says that of the changes under way to a   *)
(* row of a client the last one decides.                                   *)
(***************************************************************************)
EXTENDS Rooms, Functions, SequenceTheorems, TLAPS

-----------------------------------------------------------------------------
\* Types.

Request == [type : {"create", "join", "leave", "members", "post"}, req : Nat,
            room : Room \cup {NoRoom}, msg : Message \cup {NoMessage}]
Connection == [up : BOOLEAN, in : Seq(Sent), out : Seq(Request)]
Handler ==
  [pc : {"read", "flush", "clear", "recv", "insert", "route", "fanout", "enqueue", "answer",
         "end", "ended"},
   room : Room \cup {NoRoom}, msg : Message \cup {NoMessage},
   todo : SUBSET (User \cup Message), at : SUBSET User, out : SUBSET Sent]
Coroutine ==
  [pc : {"idle", "wait", "save", "drop", "off"}, kind : Kinds \cup {"none"},
   room : Room \cup {NoRoom}, msg : Message \cup {NoMessage}, result : SUBSET Sent]
Change == [do : {"none", "save", "delete"}, room : Room \cup {NoRoom}]

Records ==
  /\ rooms \subseteq Room /\ members \in [Room -> SUBSET User]
  /\ queue \in [User -> SUBSET Message] /\ rows \in [User -> SUBSET Room]
  /\ link \in [User -> Connection] /\ h \in [User -> Handler]
  /\ ui \in [User -> Coroutine] /\ net \in [User -> Change]
  /\ crashes \in Nat /\ runs \in [User -> Nat] /\ commands \in [User -> Nat]
  /\ posted \subseteq Message /\ sealed \in [Message -> SUBSET User]
  /\ audience \in [Message -> SUBSET User] /\ listed \in [Message -> SUBSET User]
  /\ acked \subseteq Message
  /\ got \in [User -> SUBSET Message] /\ gone \in [User -> SUBSET Message]

\* A text that is on its way to the room: Author[m] = u.
Writing(u, m) == m \in posted /\ Author[m] = u

\* What a handler holds at each of its statements.
HandlerOK(u) ==
  /\ h[u].pc \in {"flush", "clear"} => h[u].todo \subseteq Message
  /\ h[u].pc \in {"fanout", "enqueue"} => h[u].todo \subseteq User \ {u} /\ h[u].at \subseteq User \ {u}
  /\ h[u].pc = "enqueue" \/ h[u].at = {}
  /\ h[u].pc \in {"route", "fanout", "enqueue"} => Writing(u, h[u].msg) /\ h[u].room \in Room
  /\ h[u].pc \in {"insert", "answer"} => h[u].out # {}
  /\ h[u].out # {} => h[u].pc \in {"insert", "answer"}
  /\ \A p, q \in h[u].out : p = q
  /\ \A p \in h[u].out : p.type # "texts"
  /\ h[u].pc = "insert" => \A p \in h[u].out : p.type = "info" /\ p.ok /\ ~p.left /\ p.room \in rooms

\* What a command of a client is about.
CommandOK(u) ==
  /\ ui[u].pc = "wait" => commands[u] > 0 /\ ui[u].kind \in {"create", "join", "post"}
  /\ ui[u].pc = "wait" /\ ui[u].kind = "post" => Writing(u, ui[u].msg) /\ ui[u].room \in Room
  /\ ui[u].pc \in {"save", "drop"} => ui[u].room \in Room
  /\ ui[u].result # {} => ui[u].pc = "wait"
  /\ \A p, q \in ui[u].result : p = q
  /\ net[u].do # "none" => net[u].room \in Room
  /\ net[u].do = "none" => net[u] = Quiet
  /\ commands[u] \in 0..MaxCommand[u] /\ runs[u] \in 1..MaxRun[u]

\* A frame carries the number of its command, if it is to be answered.
FrameOK(u, p) ==
  /\ p.req <= commands[u]
  /\ p.type \in {"create", "join", "members"} => p.req > 0
  /\ p.type \in {"leave", "post"} => p.req = 0
  /\ p.type \in {"members", "post"} => Writing(u, p.msg)
  /\ p.type # "create" => p.room \in Room

Typed ==
  /\ Records
  /\ \A r \in Room \ rooms : members[r] = {}
  /\ \A u \in User : HandlerOK(u) /\ CommandOK(u)
  /\ \A u \in User : \A p \in Range(link[u].out) : FrameOK(u, p)

-----------------------------------------------------------------------------
\* Answers.

\* The answers of a handler that will be sent, and those that may be taken.
Answering(u) == IF h[u].pc = "answer" THEN h[u].out ELSE {}
Answered(u) == Range(link[u].in) \cup ui[u].result
Known(u) == Answering(u) \cup Answered(u)
IsAnswer(p) == p.type \in {"info", "list"}

\* The frame of a command.
Wanted(u) == IF ui[u].kind = "post" THEN "members" ELSE ui[u].kind

\* While a command waits, its frame is the last its client wrote, and an answer with
\* its number is of its kind and comes after everything that client wrote.
NewestOf(u) ==
  /\ \A p \in h[u].out \cup Answered(u) : IsAnswer(p) => p.req <= commands[u]
  /\ ui[u].pc = "wait" =>
       /\ \A i \in DOMAIN link[u].out : link[u].out[i].req = commands[u] =>
            /\ i = Len(link[u].out) /\ link[u].out[i].type = Wanted(u)
            /\ Wanted(u) = "members" => link[u].out[i].msg = ui[u].msg
       /\ \A p \in h[u].out \cup Answered(u) : IsAnswer(p) /\ p.req = commands[u] =>
            /\ link[u].out = <<>>
            /\ p.type = "list" <=> ui[u].kind = "post"
       /\ \A p \in ui[u].result : IsAnswer(p) /\ p.req = commands[u]
Newest == \A u \in User : NewestOf(u)

\* A positive answer is one the server has committed.
GrantedOf(u) == \A p \in Known(u) :
  p.type = "info" /\ p.ok /\ p.req # 0 => <<u, p.req>> \in granted
Granted == (\A u \in User : GrantedOf(u)) /\ OutcomeTrue

-----------------------------------------------------------------------------
\* The fan-out.

\* Where a text is before it is delivered: its author asks for the members, or it is on
\* the wire, or its handler passes it on.
Asking(m) == LET c == ui[Author[m]] IN c.pc = "wait" /\ c.kind = "post" /\ c.msg = m
OnWire(m) == \E p \in Range(link[Author[m]].out) : p.type = "post" /\ p.msg = m
Passed(m) == LET c == h[Author[m]] IN c.pc \in {"route", "fanout", "enqueue"} /\ c.msg = m

\* No two frames of a wire carry the same text.
SingleOn(s, m) ==
  \A i, j \in DOMAIN s : s[i].type = "post" /\ s[j].type = "post" /\ s[i].msg = m /\ s[j].msg = m
                           => i = j

OnceOf(m) ==
  /\ Asking(m) => ~OnWire(m) /\ ~Passed(m)
  /\ OnWire(m) => ~Passed(m)
  /\ m \in acked => ~Asking(m) /\ ~OnWire(m) /\ ~Passed(m)
  /\ SingleOn(link[Author[m]].out, m)
Once == acked \subseteq posted /\ \A m \in Message : OnceOf(m)

\* There is, or was, a copy of m for v.
Held(v, m) == m \in queue[v] \cup got[v] \cup gone[v] \cup Copies(link[v].in)

\* During the fan-out a member of the audience is served or still to be served, and the
\* queue is cleared only of what was sent.
FanningOut(u) ==
  /\ h[u].pc \in {"fanout", "enqueue"} =>
       \A v \in audience[h[u].msg] : v \in h[u].todo \cup h[u].at \/ Held(v, h[u].msg)
  /\ h[u].pc = "clear" => h[u].todo \subseteq got[u] \cup gone[u] \cup Copies(link[u].in)
Delivery == (\A u \in User : FanningOut(u)) /\ DeliveredMeansAll

-----------------------------------------------------------------------------
\* Sealing.

\* Nobody is sent his own text.
NotOwn == \A u \in User :
  /\ \A m \in queue[u] \cup got[u] \cup Copies(link[u].in) : Author[m] # u
  /\ h[u].pc \in {"flush", "clear"} => \A m \in h[u].todo : Author[m] # u

\* The list that an author waits for is the one last made for this text, and after it is
\* sealed no other is made.
SealedOf(m) == sealed[m] # {} =>
  /\ m \in posted
  /\ sealed[m] = (listed[m] \ {Author[m]}) \cap Knows[Author[m]]
  /\ \A p \in Range(link[Author[m]].out) : p.type = "members" => p.msg # m
ListOf(u) == ui[u].pc = "wait" /\ ui[u].kind = "post" =>
  \A p \in Known(u) :
    p.type = "list" /\ p.req = commands[u] => p.members = listed[ui[u].msg]
Sealing == NotOwn /\ (\A u \in User : ListOf(u)) /\ (\A m \in Message : SealedOf(m))

-----------------------------------------------------------------------------
\* The rows of a client.

\* Its connection was never lost, and the server never killed.
Steady(u) == link[u].up /\ runs[u] = 1 /\ crashes = 0

\* A packet that changes the row of r.
Touches(p, r) == p.type = "info" /\ p.ok /\ p.room = r
InTouches(u, r) == \E p \in Range(link[u].in) : Touches(p, r)
HandlerTouches(u, r) == \E p \in Answering(u) : Touches(p, r)
LeaveOnWire(u, r) == \E p \in Range(link[u].out) : p.type = "leave" /\ p.room = r

\* The last change under way agrees with the server, and so does the row if there is none.
PipelineOf(u, r) ==
  /\ \A p \in Answering(u) : Touches(p, r) => (p.left <=> u \notin members[r])
  /\ ~HandlerTouches(u, r) =>
       \A i \in DOMAIN link[u].in :
         /\ Touches(link[u].in[i], r)
         /\ \A j \in DOMAIN link[u].in : j > i => ~Touches(link[u].in[j], r)
         => (link[u].in[i].left <=> u \notin members[r])
  /\ ~HandlerTouches(u, r) /\ ~InTouches(u, r) =>
       /\ net[u].do # "none" /\ net[u].room = r => (net[u].do = "delete" <=> u \notin members[r])
       /\ ~(net[u].do # "none" /\ net[u].room = r) /\ ~LeaveOnWire(u, r) =>
            (r \in rows[u] <=> u \in members[r])

\* What the client writes to the table after a command, besides: leave's frame is the last
\* on the wire, and a room that was created is not left.
OwnChange(u) ==
  /\ ui[u].pc = "drop" =>
       \/ /\ link[u].out # <<>>
          /\ LET p == link[u].out[Len(link[u].out)] IN p.type = "leave" /\ p.room = ui[u].room
       \/ link[u].out = <<>> /\ h[u].pc # "insert" /\ u \notin members[ui[u].room]
PipelineFor(u) == Steady(u) =>
  /\ h[u].pc \notin {"read", "flush", "clear", "end", "ended"}
  /\ \A r \in Room : PipelineOf(u, r)
  /\ OwnChange(u)

CreatedOf(u) ==
  /\ ui[u].pc = "wait" /\ ui[u].kind = "create" =>
       \A p \in Known(u) :
         IsAnswer(p) /\ p.req = commands[u] => u \in members[p.room]
  /\ ui[u].pc = "save" => u \in members[ui[u].room] /\ link[u].out = <<>>
Pipeline == \A u \in User : PipelineFor(u) /\ CreatedOf(u)

-----------------------------------------------------------------------------
\* Sequences of packets and frames.

LEMMA RangeType ==
  ASSUME NEW S, NEW s \in Seq(S), NEW p \in Range(s)
  PROVE  p \in S
BY DEF Range

LEMMA InRange ==
  ASSUME NEW S, NEW s \in Seq(S), NEW p
  PROVE  p \in Range(s) <=> \E i \in 1..Len(s) : p = s[i]
BY DEF Range

LEMMA RangeOfNone == Range(<<>>) = {}
BY DEF Range

LEMMA RangeOfAppend ==
  ASSUME NEW S, NEW s \in Seq(S), NEW e \in S
  PROVE  /\ Append(s, e) \in Seq(S) /\ Range(Append(s, e)) = Range(s) \cup {e}
         /\ Len(Append(s, e)) = Len(s) + 1 /\ Append(s, e) # <<>>
         /\ Append(s, e)[Len(s) + 1] = e
         /\ \A i \in DOMAIN s : Append(s, e)[i] = s[i]
<1>1. /\ Append(s, e) \in Seq(S) /\ Len(Append(s, e)) = Len(s) + 1
      /\ \A i \in 1..Len(s) : Append(s, e)[i] = s[i]
      /\ Append(s, e)[Len(s) + 1] = e
  BY AppendProperties
<1>2. Range(Append(s, e)) = Range(s) \cup {e}
  BY <1>1 DEF Range
<1> QED  BY <1>1, <1>2

LEMMA RangeOfTail ==
  ASSUME NEW S, NEW s \in Seq(S), s # <<>>
  PROVE  /\ Head(s) \in S /\ Tail(s) \in Seq(S) /\ Len(Tail(s)) = Len(s) - 1 /\ Len(s) > 0
         /\ Head(s) = s[1] /\ \A i \in DOMAIN Tail(s) : i + 1 \in DOMAIN s /\ Tail(s)[i] = s[i + 1]
         /\ Range(s) = {Head(s)} \cup Range(Tail(s))
<1>1. /\ Head(s) \in S /\ Tail(s) \in Seq(S) /\ Len(Tail(s)) = Len(s) - 1 /\ Len(s) > 0
      /\ Head(s) = s[1] /\ \A i \in 1..Len(Tail(s)) : Tail(s)[i] = s[i + 1]
  BY HeadTailProperties, EmptySeq
<1>2. Range(Tail(s)) \subseteq Range(s) /\ Head(s) \in Range(s)
  BY <1>1 DEF Range
<1>3. ASSUME NEW p \in Range(s)
      PROVE  p = Head(s) \/ p \in Range(Tail(s))
  <2>1. PICK i \in 1..Len(s) : p = s[i]
    BY InRange
  <2>2. i # 1 => i - 1 \in 1..Len(Tail(s)) /\ p = Tail(s)[i - 1]
    BY <1>1, <2>1
  <2>3. i # 1 => p \in Range(Tail(s))
    BY <1>1, <2>2, InRange
  <2> QED  BY <1>1, <2>1, <2>3
<1> QED  BY <1>1, <1>2, <1>3

LEMMA RangeOfParts ==
  ASSUME NEW S, NEW s \in Seq(S), NEW i \in 0..Len(s)
  PROVE  /\ SubSeq(s, 1, i) \in Seq(S) /\ SubSeq(s, i + 1, Len(s)) \in Seq(S)
         /\ Len(SubSeq(s, 1, i)) = i
         /\ \A j \in DOMAIN SubSeq(s, 1, i) : j \in DOMAIN s /\ SubSeq(s, 1, i)[j] = s[j]
         /\ Range(s) = Range(SubSeq(s, 1, i)) \cup Range(SubSeq(s, i + 1, Len(s)))
<1> DEFINE l == SubSeq(s, 1, i)
           r == SubSeq(s, i + 1, Len(s))
<1>1. /\ l \in Seq(S) /\ Len(l) = i /\ \A j \in 1..i : l[j] = s[j]
  BY SubSeqProperties
<1>2. /\ r \in Seq(S) /\ Len(r) = Len(s) - i /\ \A j \in 1..Len(r) : r[j] = s[i + j]
  BY SubSeqProperties
<1>3. Range(l) \subseteq Range(s) /\ Range(r) \subseteq Range(s)
  BY <1>1, <1>2 DEF Range
<1>4. ASSUME NEW p \in Range(s)
      PROVE  p \in Range(l) \cup Range(r)
  <2>1. PICK j \in 1..Len(s) : p = s[j]
    BY InRange
  <2>2. j <= i => j \in 1..Len(l) /\ p = l[j]
    BY <1>1, <2>1
  <2>3. j > i => j - i \in 1..Len(r) /\ p = r[j - i]
    BY <1>2, <2>1
  <2>4. j <= i => p \in Range(l)
    BY <1>1, <2>2, InRange
  <2>5. j > i => p \in Range(r)
    BY <1>2, <2>3, InRange
  <2> QED  BY <2>1, <2>4, <2>5
<1>5. \A j \in DOMAIN l : j \in DOMAIN s /\ l[j] = s[j]
  BY <1>1
<1> QED  BY <1>1, <1>2, <1>3, <1>4, <1>5

\* What copies are among packets.
LEMMA CopiesIn ==
  ASSUME NEW s \in Seq(Sent), NEW m
  PROVE  m \in Copies(s) <=> \E p \in Range(s) : p.type = "texts" /\ m \in p.msgs
<1>1. m \in Copies(s) <=> \E i \in DOMAIN s : s[i].type = "texts" /\ m \in s[i].msgs
  BY DEF Copies
<1> QED  BY <1>1, InRange

LEMMA SentFields ==
  ASSUME NEW p \in Sent
  PROVE  /\ p.type = "info" => /\ p.req \in Nat /\ p.ok \in BOOLEAN /\ p.room \in Room
                               /\ p.left \in BOOLEAN
         /\ p.type = "list" => p.req \in Nat /\ p.members \subseteq User
         /\ p.type = "texts" => p.msgs \subseteq Message
         /\ p.type \in {"info", "list", "texts", "error", "delivery"}
BY DEF Sent

LEMMA CopiesOfNone == Copies(<<>>) = {}
BY DEF Copies

LEMMA CopiesOfAppend ==
  ASSUME NEW s \in Seq(Sent), NEW p \in Sent
  PROVE  /\ p.type = "texts" => Copies(Append(s, p)) = Copies(s) \cup p.msgs
         /\ p.type # "texts" => Copies(Append(s, p)) = Copies(s)
<1>1. \A m : m \in Copies(Append(s, p)) <=> m \in Copies(s) \/ (p.type = "texts" /\ m \in p.msgs)
  <2> TAKE m
  <2>1. /\ Append(s, p) \in Seq(Sent) /\ Range(Append(s, p)) = Range(s) \cup {p}
    BY RangeOfAppend
  <2>2. m \in Copies(Append(s, p)) <=> \E q \in Range(Append(s, p)) : q.type = "texts" /\ m \in q.msgs
    BY <2>1, CopiesIn
  <2>3. m \in Copies(s) <=> \E q \in Range(s) : q.type = "texts" /\ m \in q.msgs
    BY CopiesIn
  <2> QED  BY <2>1, <2>2, <2>3
<1> QED  BY <1>1

LEMMA CopiesOfTail ==
  ASSUME NEW s \in Seq(Sent), s # <<>>
  PROVE  Copies(s) = Copies(<<Head(s)>>) \cup Copies(Tail(s))
<1>1. <<Head(s)>> \in Seq(Sent) /\ Range(<<Head(s)>>) = {Head(s)}
  BY RangeOfTail DEF Range
<1>2. \A m : m \in Copies(s) <=> m \in Copies(<<Head(s)>>) \/ m \in Copies(Tail(s))
  <2> TAKE m
  <2>1. Tail(s) \in Seq(Sent) /\ Range(s) = {Head(s)} \cup Range(Tail(s))
    BY RangeOfTail
  <2>2. m \in Copies(s) <=> \E q \in Range(s) : q.type = "texts" /\ m \in q.msgs
    BY CopiesIn
  <2>3. m \in Copies(Tail(s)) <=> \E q \in Range(Tail(s)) : q.type = "texts" /\ m \in q.msgs
    BY <2>1, CopiesIn
  <2>4. m \in Copies(<<Head(s)>>) <=>
          \E q \in Range(<<Head(s)>>) : q.type = "texts" /\ m \in q.msgs
    BY <1>1, CopiesIn
  <2> QED  BY <1>1, <2>1, <2>2, <2>3, <2>4
<1> QED  BY <1>2

LEMMA CopiesOfParts ==
  ASSUME NEW s \in Seq(Sent), NEW i \in 0..Len(s)
  PROVE  Copies(s) = Copies(SubSeq(s, 1, i)) \cup Copies(SubSeq(s, i + 1, Len(s)))
<1>1. \A m : m \in Copies(s) <=>
        m \in Copies(SubSeq(s, 1, i)) \/ m \in Copies(SubSeq(s, i + 1, Len(s)))
  <2> TAKE m
  <2> DEFINE l == SubSeq(s, 1, i)
             r == SubSeq(s, i + 1, Len(s))
  <2>1. l \in Seq(Sent) /\ r \in Seq(Sent) /\ Range(s) = Range(l) \cup Range(r)
    BY RangeOfParts
  <2>2. m \in Copies(s) <=> \E q \in Range(s) : q.type = "texts" /\ m \in q.msgs
    BY CopiesIn
  <2>3. m \in Copies(l) <=> \E q \in Range(l) : q.type = "texts" /\ m \in q.msgs
    BY <2>1, CopiesIn
  <2>4. m \in Copies(r) <=> \E q \in Range(r) : q.type = "texts" /\ m \in q.msgs
    BY <2>1, CopiesIn
  <2> HIDE DEF l, r
  <2>5. m \in Copies(s) <=> m \in Copies(l) \/ m \in Copies(r)
    BY <2>1, <2>2, <2>3, <2>4
  <2> QED  BY <2>5 DEF l, r
<1> QED  BY <1>1

LEMMA CopiesType ==
  ASSUME NEW s \in Seq(Sent)
  PROVE  Copies(s) \subseteq Message
BY CopiesIn, SentFields, RangeType

-----------------------------------------------------------------------------
\* Packets, frames and the changes of a connection.

LEMMA Packets ==
  /\ \A n \in Nat, r \in Room : \A ok, left \in BOOLEAN : Info(n, ok, r, left) \in Sent
  /\ \A n \in Nat : \A us \in SUBSET User : List(n, us) \in Sent
  /\ \A ms \in SUBSET Message : Texts(ms) \in Sent
  /\ Plain("error") \in Sent /\ Plain("delivery") \in Sent
<1>1. \A n \in Nat, r \in Room : \A ok, left \in BOOLEAN : Info(n, ok, r, left) \in Sent
  BY DEF Info, Sent
<1>2. \A n \in Nat : \A us \in SUBSET User : List(n, us) \in Sent
  BY DEF List, Sent
<1>3. \A ms \in SUBSET Message : Texts(ms) \in Sent
  BY DEF Texts, Sent
<1>4. Plain("error") \in Sent /\ Plain("delivery") \in Sent
  BY DEF Plain, Sent
<1> QED  BY <1>1, <1>2, <1>3, <1>4

LEMMA Constants ==
  /\ Recv \in Handler /\ Idle \in Coroutine /\ Quiet \in Change
  /\ Up \in Connection /\ Down \in Connection
  /\ Up.up /\ Up.in = <<>> /\ Up.out = <<>> /\ ~Down.up /\ Down.in = <<>> /\ Down.out = <<>>
<1>1. Recv \in Handler
  BY DEF Recv, Handler
<1>2. Idle \in Coroutine
  BY DEF Idle, Coroutine
<1>3. Quiet \in Change
  BY DEF Quiet, Change
<1>4. <<>> \in Seq(Sent) /\ <<>> \in Seq(Request)
  BY EmptySeq
<1>5. Up \in Connection /\ Up.up /\ Up.in = <<>> /\ Up.out = <<>>
  BY <1>4 DEF Up, Connection
<1>6. Down \in Connection /\ ~Down.up /\ Down.in = <<>> /\ Down.out = <<>>
  BY <1>5 DEF Down, Connection
<1> QED  BY <1>1, <1>2, <1>3, <1>5, <1>6

\* The fields of the records of a user.
LEMMA Fields ==
  ASSUME Records, NEW u \in User
  PROVE  /\ link[u] \in Connection /\ h[u] \in Handler /\ ui[u] \in Coroutine /\ net[u] \in Change
         /\ link[u].in \in Seq(Sent) /\ link[u].out \in Seq(Request) /\ link[u].up \in BOOLEAN
         /\ h[u].out \subseteq Sent /\ ui[u].result \subseteq Sent
         /\ commands[u] \in Nat /\ runs[u] \in Nat
BY DEF Records, Connection, Handler, Coroutine, Change

\* One packet more.
LEMMA SendStep ==
  ASSUME Records, NEW u \in User, NEW p \in Sent, Send(u, p)
  PROVE  /\ link' \in [User -> Connection] /\ \A v \in User \ {u} : link'[v] = link[v]
         /\ link'[u].up = link[u].up /\ link'[u].out = link[u].out
         /\ link'[u].in = Append(link[u].in, p)
<1> DEFINE n == [link[u] EXCEPT !.in = Append(link[u].in, p)]
<1>1. Append(link[u].in, p) \in Seq(Sent)
  BY Fields, RangeOfAppend
<1>2. link[u] \in Connection
  BY Fields
<1>3. /\ n \in Connection /\ n.up = link[u].up /\ n.out = link[u].out
      /\ n.in = Append(link[u].in, p)
  BY <1>1, <1>2 DEF Connection
<1>4. link' = [link EXCEPT ![u] = n]
  BY DEF Send
<1>5. link'[u] = n /\ link \in [User -> Connection]
  BY <1>4 DEF Records
<1> HIDE DEF n
<1>6. link' \in [User -> Connection] /\ \A v \in User \ {u} : link'[v] = link[v]
  BY <1>3, <1>4, <1>5
<1> QED  BY <1>3, <1>5, <1>6

\* One frame less.
LEMMA TakesStep ==
  ASSUME Records, NEW u \in User, NEW type, Takes(u, type)
  PROVE  /\ link' \in [User -> Connection] /\ \A v \in User \ {u} : link'[v] = link[v]
         /\ link'[u].up = link[u].up /\ link'[u].in = link[u].in
         /\ link[u].out # <<>> /\ link'[u].out = Tail(link[u].out)
         /\ h[u].pc = "recv" /\ Frame(u) \in Request /\ Frame(u).type = type
         /\ Frame(u) = link[u].out[1] /\ 1 \in DOMAIN link[u].out
         /\ Range(link[u].out) = {Frame(u)} \cup Range(link'[u].out)
<1> DEFINE n == [link[u] EXCEPT !.out = Tail(link[u].out)]
<1>1. /\ link[u].out # <<>> /\ link[u].out \in Seq(Request)
      /\ h[u].pc = "recv" /\ Frame(u).type = type
  BY Fields DEF Takes, Frame
<1>2. /\ Tail(link[u].out) \in Seq(Request) /\ Frame(u) \in Request /\ Len(link[u].out) > 0
      /\ Frame(u) = link[u].out[1] /\ Range(link[u].out) = {Frame(u)} \cup Range(Tail(link[u].out))
  BY <1>1, RangeOfTail DEF Frame
<1>3. link[u] \in Connection
  BY Fields
<1>4. /\ n \in Connection /\ n.up = link[u].up /\ n.in = link[u].in
      /\ n.out = Tail(link[u].out)
  BY <1>2, <1>3 DEF Connection
<1>5. link' = [link EXCEPT ![u] = n]
  BY DEF Takes
<1>6. link'[u] = n /\ link \in [User -> Connection]
  BY <1>5 DEF Records
<1> HIDE DEF n
<1>7. link' \in [User -> Connection] /\ \A v \in User \ {u} : link'[v] = link[v]
  BY <1>4, <1>5, <1>6
<1>8. 1 \in DOMAIN link[u].out
  BY <1>1, <1>2
<1> QED  BY <1>1, <1>2, <1>4, <1>6, <1>7, <1>8

\* A client writes a frame, or what it writes is lost.
LEMMA WritesStep ==
  ASSUME Records, NEW u \in User, NEW p \in Request, Writes(u, p)
  PROVE  /\ link' \in [User -> Connection] /\ \A v \in User \ {u} : link'[v] = link[v]
         /\ link'[u].up = link[u].up /\ link'[u].in = link[u].in
         /\ link'[u].out \in {link[u].out, Append(link[u].out, p)}
         /\ link[u].up => link'[u].out = Append(link[u].out, p)
         /\ Range(link'[u].out) \subseteq Range(link[u].out) \cup {p}
<1> DEFINE n == [link[u] EXCEPT !.out = Append(link[u].out, p)]
<1>1. /\ Append(link[u].out, p) \in Seq(Request)
      /\ Range(Append(link[u].out, p)) = Range(link[u].out) \cup {p}
  BY Fields, RangeOfAppend
<1>2. link[u] \in Connection
  BY Fields
<1>3. /\ n \in Connection /\ n.up = link[u].up /\ n.in = link[u].in
      /\ n.out = Append(link[u].out, p)
  BY <1>1, <1>2 DEF Connection
<1>4. link \in [User -> Connection]
  BY DEF Records
<1>5. CASE link[u].up
  <2>1. link' = [link EXCEPT ![u] = n]
    BY <1>5 DEF Writes
  <2>2. link'[u] = n
    BY <1>4, <2>1
  <2> HIDE DEF n
  <2>3. link' \in [User -> Connection] /\ \A v \in User \ {u} : link'[v] = link[v]
    BY <1>3, <1>4, <2>1
  <2> QED  BY <1>1, <1>3, <2>2, <2>3
<1>6. CASE ~link[u].up
  BY <1>4, <1>6 DEF Writes
<1> QED  BY <1>5, <1>6

-----------------------------------------------------------------------------
\* Types are kept.

LEMMA GoStep ==
  ASSUME Records, NEW u \in User,
         NEW pc \in {"read", "flush", "clear", "recv", "insert", "route", "fanout", "enqueue",
                     "answer", "end", "ended"}, Go(u, pc)
  PROVE  /\ h' \in [User -> Handler] /\ \A v \in User \ {u} : h'[v] = h[v]
         /\ h'[u].pc = pc /\ h'[u].room = h[u].room /\ h'[u].msg = h[u].msg
         /\ h'[u].todo = h[u].todo /\ h'[u].at = h[u].at /\ h'[u].out = h[u].out
<1>1. h \in [User -> Handler] /\ h[u] \in Handler
  BY Fields DEF Records
<1> DEFINE n == [h[u] EXCEPT !.pc = pc]
<1>2. /\ n \in Handler /\ n.pc = pc /\ n.room = h[u].room /\ n.msg = h[u].msg
      /\ n.todo = h[u].todo /\ n.at = h[u].at /\ n.out = h[u].out
  BY <1>1 DEF Handler
<1>3. h' = [h EXCEPT ![u] = n]
  BY <1>1 DEF Go
<1> HIDE DEF n
<1> QED  BY <1>1, <1>2, <1>3

LEMMA AnswersStep ==
  ASSUME Records, NEW u \in User, NEW p \in Sent, Answers(u, p)
  PROVE  /\ h' \in [User -> Handler] /\ \A v \in User \ {u} : h'[v] = h[v]
         /\ h'[u].pc = "answer" /\ h'[u].room = h[u].room /\ h'[u].msg = h[u].msg
         /\ h'[u].todo = h[u].todo /\ h'[u].at = h[u].at /\ h'[u].out = {p}
<1>1. h \in [User -> Handler] /\ h[u] \in Handler
  BY Fields DEF Records
<1> DEFINE n == [h[u] EXCEPT !.pc = "answer", !.out = {p}]
<1>2. /\ n \in Handler /\ n.pc = "answer" /\ n.room = h[u].room /\ n.msg = h[u].msg
      /\ n.todo = h[u].todo /\ n.at = h[u].at /\ n.out = {p}
  BY <1>1 DEF Handler
<1>3. h' = [h EXCEPT ![u] = n]
  BY <1>1 DEF Answers
<1> HIDE DEF n
<1> QED  BY <1>1, <1>2, <1>3

\* The handler waits for a frame again, or ends.
LEMMA DoneStep ==
  ASSUME Records, NEW u \in User,
         NEW pc \in {"recv", "end", "ended"}, h' = [h EXCEPT ![u] = [Recv EXCEPT !.pc = pc]]
  PROVE  /\ h' \in [User -> Handler] /\ \A v \in User \ {u} : h'[v] = h[v]
         /\ h'[u].pc = pc /\ h'[u].todo = {} /\ h'[u].at = {} /\ h'[u].out = {}
<1> DEFINE n == [Recv EXCEPT !.pc = pc]
<1>1. h \in [User -> Handler] /\ Recv \in Handler
  BY Constants DEF Records
<1>2. /\ n \in Handler /\ n.pc = pc /\ n.todo = {} /\ n.at = {} /\ n.out = {}
  BY <1>1 DEF Recv, Handler
<1> HIDE DEF n
<1> QED  BY <1>1, <1>2 DEF n

LEMMA RecvStep ==
  ASSUME Records, NEW u \in User, h' = [h EXCEPT ![u] = Recv]
  PROVE  /\ h' \in [User -> Handler] /\ \A v \in User \ {u} : h'[v] = h[v]
         /\ h'[u].pc = "recv" /\ h'[u].todo = {} /\ h'[u].at = {} /\ h'[u].out = {}
<1>1. h \in [User -> Handler] /\ Recv \in Handler
  BY Constants DEF Records
<1>2. h'[u] = Recv
  BY <1>1
<1> QED  BY <1>1, <1>2 DEF Recv

LEMMA FlushReadStep ==
  ASSUME Records, NEW u \in User, FlushRead(u)
  PROVE  /\ h' \in [User -> Handler] /\ \A v \in User \ {u} : h'[v] = h[v]
         /\ h'[u].pc \in {"clear", "flush"} /\ h'[u].room = h[u].room /\ h'[u].msg = h[u].msg
         /\ h'[u].todo = queue[u] /\ h'[u].at = h[u].at /\ h'[u].out = h[u].out
         /\ h'[u].pc = "clear" => queue[u] = {}
<1>1. h \in [User -> Handler] /\ h[u] \in Handler /\ queue[u] \subseteq Message
  BY Fields DEF Records
<1> DEFINE pc == IF queue[u] = {} THEN "clear" ELSE "flush"
           n == [h[u] EXCEPT !.pc = pc, !.todo = queue[u]]
<1>2. pc \in {"clear", "flush"} /\ (pc = "clear" => queue[u] = {})
  OBVIOUS
<1>3. h' = [h EXCEPT ![u] = n]
  BY <1>1 DEF FlushRead
<1> HIDE DEF pc
<1>4. /\ n \in Handler /\ n.pc = pc /\ n.room = h[u].room /\ n.msg = h[u].msg
      /\ n.todo = queue[u] /\ n.at = h[u].at /\ n.out = h[u].out
  BY <1>1, <1>2 DEF Handler
<1> HIDE DEF n
<1> QED  BY <1>1, <1>2, <1>3, <1>4

LEMMA ServeJoinStep ==
  ASSUME Typed, NEW u \in User, ServeJoin(u)
  PROVE  /\ h' \in [User -> Handler] /\ \A v \in User \ {u} : h'[v] = h[v]
         /\ h'[u].at = h[u].at /\ Frame(u).room \in Room
         /\ \/ /\ h'[u].pc = "insert" /\ Frame(u).room \in rooms
               /\ h'[u].out = {Info(Frame(u).req, TRUE, Frame(u).room, FALSE)}
            \/ /\ h'[u].pc = "answer"
               /\ h'[u].out = {Info(Frame(u).req, FALSE, Frame(u).room, FALSE)}
<1> DEFINE p == Frame(u)
<1>0. Records /\ Takes(u, "join")
  BY DEF ServeJoin, Typed
<1>1. h \in [User -> Handler] /\ h[u] \in Handler
  BY <1>0, Fields DEF Records
<1>2. p \in Request /\ p.type = "join" /\ p \in Range(link[u].out)
  BY <1>0, TakesStep
<1>3. p.req \in Nat /\ p.room \in Room
  BY <1>2 DEF Request, Typed, FrameOK
<1>4. CASE p.room \in rooms
  <2> DEFINE q == Info(p.req, TRUE, p.room, FALSE)
             n == [h[u] EXCEPT !.pc = "insert", !.out = {q}]
  <2>1. q \in Sent
    BY <1>3, Packets
  <2>2. h' = [h EXCEPT ![u] = n]
    BY <1>1, <1>4 DEF ServeJoin
  <2> HIDE DEF q
  <2>3. n \in Handler /\ n.pc = "insert" /\ n.out = {q} /\ n.at = h[u].at
    BY <1>1, <2>1 DEF Handler
  <2> HIDE DEF n
  <2>4. /\ h' \in [User -> Handler] /\ \A v \in User \ {u} : h'[v] = h[v]
        /\ h'[u].at = h[u].at /\ h'[u].pc = "insert" /\ h'[u].out = {q}
    BY <1>1, <2>2, <2>3
  <2> QED  BY <1>3, <1>4, <2>4 DEF q
<1>5. CASE p.room \notin rooms
  <2>1. Info(p.req, FALSE, p.room, FALSE) \in Sent
    BY <1>3, Packets
  <2>2. Answers(u, Info(p.req, FALSE, p.room, FALSE))
    BY <1>5 DEF ServeJoin
  <2> QED  BY <1>0, <1>3, <2>1, <2>2, AnswersStep
<1> QED  BY <1>4, <1>5

LEMMA ServePostStep ==
  ASSUME Typed, NEW u \in User, ServePost(u)
  PROVE  /\ h' \in [User -> Handler] /\ \A v \in User \ {u} : h'[v] = h[v]
         /\ h'[u].at = h[u].at /\ Frame(u).room \in Room /\ Writing(u, Frame(u).msg)
         /\ Frame(u).msg \in Message
         /\ \/ /\ h'[u].pc = "route" /\ h'[u].room = Frame(u).room /\ h'[u].msg = Frame(u).msg
               /\ h'[u].out = h[u].out
            \/ h'[u].pc = "answer" /\ h'[u].out = {Plain("error")}
<1> DEFINE p == Frame(u)
<1>0. Records /\ Takes(u, "post")
  BY DEF ServePost, Typed
<1>1. h \in [User -> Handler] /\ h[u] \in Handler /\ posted \subseteq Message
  BY <1>0, Fields DEF Records
<1>2. p \in Request /\ p.type = "post" /\ p \in Range(link[u].out)
  BY <1>0, TakesStep
<1>3. Writing(u, p.msg) /\ p.room \in Room
  BY <1>2 DEF Typed, FrameOK
<1>4. p.msg \in Message
  BY <1>1, <1>3 DEF Writing
<1>5. CASE u \in members[p.room]
  <2> DEFINE n == [h[u] EXCEPT !.pc = "route", !.room = p.room, !.msg = p.msg]
  <2>1. h' = [h EXCEPT ![u] = n]
    BY <1>1, <1>5 DEF ServePost
  <2>2. /\ n \in Handler /\ n.pc = "route" /\ n.room = p.room /\ n.msg = p.msg
        /\ n.at = h[u].at /\ n.out = h[u].out
    BY <1>1, <1>3, <1>4 DEF Handler
  <2> HIDE DEF n
  <2>3. /\ h' \in [User -> Handler] /\ \A v \in User \ {u} : h'[v] = h[v]
        /\ h'[u] = n
    BY <1>1, <2>1, <2>2
  <2> QED  BY <1>3, <1>4, <2>2, <2>3
<1>6. CASE u \notin members[p.room]
  <2>1. Answers(u, Plain("error"))
    BY <1>6 DEF ServePost
  <2> QED  BY <1>0, <1>3, <1>4, <2>1, Packets, AnswersStep
<1> QED  BY <1>5, <1>6

LEMMA RouteStep ==
  ASSUME Typed, NEW u \in User, Route(u)
  PROVE  /\ h' \in [User -> Handler] /\ \A v \in User \ {u} : h'[v] = h[v]
         /\ h'[u].pc = "fanout" /\ h'[u].room = h[u].room /\ h'[u].msg = h[u].msg
         /\ h'[u].todo = members[h[u].room] \ {u} /\ h'[u].at = h[u].at /\ h'[u].out = h[u].out
         /\ h[u].room \in Room /\ members[h[u].room] \subseteq User
         /\ h[u].msg \in Message /\ Writing(u, h[u].msg)
         /\ audience' = [audience EXCEPT ![h[u].msg] = members[h[u].room] \ {u}]
<1>0. Records /\ h[u].pc = "route"
  BY DEF Route, Typed
<1>1. h \in [User -> Handler] /\ h[u] \in Handler /\ members \in [Room -> SUBSET User]
      /\ posted \subseteq Message
  BY <1>0, Fields DEF Records
<1>2. Writing(u, h[u].msg) /\ h[u].room \in Room
  BY <1>0 DEF Typed, HandlerOK
<1> DEFINE to == members[h[u].room] \ {u}
           n == [h[u] EXCEPT !.pc = "fanout", !.todo = to]
<1>3. to \subseteq User /\ members[h[u].room] \subseteq User
  BY <1>1, <1>2
<1>4. h' = [h EXCEPT ![u] = n] /\ audience' = [audience EXCEPT ![h[u].msg] = to]
  BY <1>1 DEF Route
<1> HIDE DEF to
<1>5. /\ n \in Handler /\ n.pc = "fanout" /\ n.room = h[u].room /\ n.msg = h[u].msg
      /\ n.todo = to /\ n.at = h[u].at /\ n.out = h[u].out
  BY <1>1, <1>3 DEF Handler
<1> HIDE DEF n
<1>6. h' \in [User -> Handler] /\ (\A v \in User \ {u} : h'[v] = h[v]) /\ h'[u] = n
  BY <1>1, <1>4, <1>5
<1>7. h[u].msg \in Message
  BY <1>1, <1>2 DEF Writing
<1> QED  BY <1>2, <1>3, <1>4, <1>5, <1>6, <1>7 DEF to

\* One member is served, over his connection or by the queue.
LEMMA HandStep ==
  ASSUME Typed, NEW u \in User, h[u].pc = "fanout", NEW v \in h[u].todo, Hand(u, v)
  PROVE  /\ h' \in [User -> Handler] /\ \A w \in User \ {u} : h'[w] = h[w]
         /\ h'[u].room = h[u].room /\ h'[u].msg = h[u].msg /\ h'[u].out = h[u].out
         /\ h'[u].todo = h[u].todo \ {v} /\ v \in User \ {u}
         /\ h[u].msg \in Message /\ Writing(u, h[u].msg)
         /\ \/ /\ Send(v, Texts({h[u].msg})) /\ Texts({h[u].msg}) \in Sent
               /\ h'[u].pc = "fanout" /\ h'[u].at = h[u].at
            \/ UNCHANGED link /\ h'[u].pc = "enqueue" /\ h'[u].at = {v}
<1>0. Records
  BY DEF Typed
<1>1. h \in [User -> Handler] /\ h[u] \in Handler /\ posted \subseteq Message
  BY <1>0, Fields DEF Records
<1>2. v \in User \ {u} /\ Writing(u, h[u].msg)
  BY DEF Typed, HandlerOK
<1>3. h[u].msg \in Message
  BY <1>1, <1>2 DEF Writing
<1>4. CASE h[v].pc # "ended" /\ link[v].up
  <2> DEFINE n == [h[u] EXCEPT !.todo = h[u].todo \ {v}]
  <2>1. h' = [h EXCEPT ![u] = n] /\ Send(v, Texts({h[u].msg}))
    BY <1>1, <1>4 DEF Hand
  <2>2. /\ n \in Handler /\ n.pc = h[u].pc /\ n.room = h[u].room /\ n.msg = h[u].msg
        /\ n.todo = h[u].todo \ {v} /\ n.at = h[u].at /\ n.out = h[u].out
    BY <1>1 DEF Handler
  <2> HIDE DEF n
  <2>3. h' \in [User -> Handler] /\ (\A w \in User \ {u} : h'[w] = h[w]) /\ h'[u] = n
    BY <1>1, <2>1, <2>2
  <2> QED  BY <1>2, <1>3, <2>1, <2>2, <2>3, Packets
<1>5. CASE ~(h[v].pc # "ended" /\ link[v].up)
  <2> DEFINE n == [h[u] EXCEPT !.pc = "enqueue", !.todo = h[u].todo \ {v}, !.at = {v}]
  <2>1. h' = [h EXCEPT ![u] = n] /\ UNCHANGED link
    BY <1>1, <1>5 DEF Hand
  <2>2. /\ n \in Handler /\ n.pc = "enqueue" /\ n.room = h[u].room /\ n.msg = h[u].msg
        /\ n.todo = h[u].todo \ {v} /\ n.at = {v} /\ n.out = h[u].out
    BY <1>1, <1>2 DEF Handler
  <2> HIDE DEF n
  <2>3. h' \in [User -> Handler] /\ (\A w \in User \ {u} : h'[w] = h[w]) /\ h'[u] = n
    BY <1>1, <2>1, <2>2
  <2> QED  BY <1>2, <1>3, <2>1, <2>2, <2>3
<1> QED  BY <1>4, <1>5

LEMMA EnqueueStep ==
  ASSUME Typed, NEW u \in User, Enqueue(u)
  PROVE  /\ h' \in [User -> Handler] /\ \A v \in User \ {u} : h'[v] = h[v]
         /\ h'[u].pc = "fanout" /\ h'[u].room = h[u].room /\ h'[u].msg = h[u].msg
         /\ h'[u].todo = h[u].todo /\ h'[u].at = {} /\ h'[u].out = h[u].out
         /\ h[u].msg \in Message /\ Writing(u, h[u].msg) /\ h[u].at \subseteq User \ {u}
         /\ queue' \in [User -> SUBSET Message]
         /\ \A v \in h[u].at : queue'[v] = queue[v] \cup {h[u].msg}
         /\ \A v \in User \ h[u].at : queue'[v] = queue[v]
<1>0. Records /\ h[u].pc = "enqueue"
  BY DEF Enqueue, Typed
<1>1. h \in [User -> Handler] /\ h[u] \in Handler /\ posted \subseteq Message
      /\ queue \in [User -> SUBSET Message]
  BY <1>0, Fields DEF Records
<1>2. Writing(u, h[u].msg) /\ h[u].at \subseteq User \ {u}
  BY <1>0 DEF Typed, HandlerOK
<1>3. h[u].msg \in Message
  BY <1>1, <1>2 DEF Writing
<1> DEFINE n == [h[u] EXCEPT !.pc = "fanout", !.at = {}]
<1>4. h' = [h EXCEPT ![u] = n]
  BY <1>1 DEF Enqueue
<1>5. /\ n \in Handler /\ n.pc = "fanout" /\ n.room = h[u].room /\ n.msg = h[u].msg
      /\ n.todo = h[u].todo /\ n.at = {} /\ n.out = h[u].out
  BY <1>1 DEF Handler
<1> HIDE DEF n
<1>6. h' \in [User -> Handler] /\ (\A v \in User \ {u} : h'[v] = h[v]) /\ h'[u] = n
  BY <1>1, <1>4, <1>5
<1>7. queue' = [v \in User |-> IF v \in h[u].at THEN queue[v] \cup {h[u].msg} ELSE queue[v]]
  BY DEF Enqueue
<1>8. /\ queue' \in [User -> SUBSET Message]
      /\ \A v \in h[u].at : queue'[v] = queue[v] \cup {h[u].msg}
      /\ \A v \in User \ h[u].at : queue'[v] = queue[v]
  BY <1>1, <1>2, <1>3, <1>7
<1> QED  BY <1>2, <1>3, <1>5, <1>6, <1>8

LEMMA EndStep ==
  ASSUME Records, NEW u \in User, End(u)
  PROVE  /\ h' \in [User -> Handler] /\ \A v \in User \ {u} : h'[v] = h[v]
         /\ h'[u].pc = "ended" /\ h'[u].todo = {} /\ h'[u].at = {} /\ h'[u].out = {}
         /\ link' \in [User -> Connection] /\ \A v \in User \ {u} : link'[v] = link[v]
         /\ link'[u].up = link[u].up /\ link'[u].in = link[u].in /\ link'[u].out = <<>>
<1>1. h' = [h EXCEPT ![u] = [Recv EXCEPT !.pc = "ended"]]
  BY DEF End
<1>2. link \in [User -> Connection] /\ link[u] \in Connection /\ <<>> \in Seq(Request)
  BY Fields, EmptySeq DEF Records
<1> DEFINE n == [link[u] EXCEPT !.out = <<>>]
<1>3. n \in Connection /\ n.up = link[u].up /\ n.in = link[u].in /\ n.out = <<>>
  BY <1>2 DEF Connection
<1>4. link' = [link EXCEPT ![u] = n]
  BY <1>2 DEF End
<1> HIDE DEF n
<1>5. link' \in [User -> Connection] /\ (\A v \in User \ {u} : link'[v] = link[v]) /\ link'[u] = n
  BY <1>2, <1>3, <1>4
<1> QED  BY <1>1, <1>3, <1>5, DoneStep

LEMMA CrashStep ==
  ASSUME Records, Crash
  PROVE  /\ h' \in [User -> Handler] /\ link' \in [User -> Connection]
         /\ \A u \in User : /\ h'[u].pc = "ended" /\ h'[u].todo = {} /\ h'[u].at = {}
                            /\ h'[u].out = {}
                            /\ ~link'[u].up /\ link'[u].in = link[u].in /\ link'[u].out = <<>>
<1> DEFINE n == [Recv EXCEPT !.pc = "ended"]
           d(u) == [Down EXCEPT !.in = link[u].in]
<1>1. Recv \in Handler /\ Down \in Connection /\ ~Down.up /\ Down.out = <<>>
  BY Constants
<1>2. n \in Handler /\ n.pc = "ended" /\ n.todo = {} /\ n.at = {} /\ n.out = {}
  BY <1>1 DEF Recv, Handler
<1>3. ASSUME NEW u \in User
      PROVE  d(u) \in Connection /\ ~d(u).up /\ d(u).in = link[u].in /\ d(u).out = <<>>
  BY <1>1, Fields DEF Connection
<1>4. h' = [u \in User |-> n] /\ link' = [u \in User |-> d(u)]
  BY DEF Crash
<1> HIDE DEF n, d
<1> QED  BY <1>2, <1>3, <1>4

\* The program is started again.
LEMMA StartStep ==
  ASSUME Records, NEW u \in User, Start(u)
  PROVE  /\ h' \in [User -> Handler] /\ \A v \in User \ {u} : h'[v] = h[v]
         /\ h'[u].pc = "read" /\ h'[u].room = h[u].room /\ h'[u].msg = h[u].msg
         /\ h'[u].todo = h[u].todo /\ h'[u].at = h[u].at /\ h'[u].out = h[u].out
         /\ link' \in [User -> Connection] /\ \A v \in User \ {u} : link'[v] = link[v]
         /\ link'[u].up /\ link'[u].in = <<>> /\ link'[u].out = <<>>
         /\ ui' \in [User -> Coroutine] /\ (\A v \in User \ {u} : ui'[v] = ui[v]) /\ ui'[u] = Idle
<1>1. Go(u, "read")
  BY DEF Start, Go
<1>2. link' = [link EXCEPT ![u] = Up] /\ ui' = [ui EXCEPT ![u] = Idle]
      /\ link \in [User -> Connection] /\ ui \in [User -> Coroutine]
  BY DEF Start, Records
<1>3. link'[u] = Up /\ ui'[u] = Idle
  BY <1>2
<1> QED  BY <1>1, <1>2, <1>3, Constants, GoStep

\* The connection is lost, and a part of what was under way.
LEMMA BreakStep ==
  ASSUME Records, NEW u \in User, Break(u)
  PROVE  \E i \in 0..Len(link[u].in), o \in 0..Len(link[u].out) :
           /\ link' \in [User -> Connection] /\ \A v \in User \ {u} : link'[v] = link[v]
           /\ ~link'[u].up /\ link'[u].in = SubSeq(link[u].in, 1, i)
           /\ link'[u].out = SubSeq(link[u].out, 1, o)
           /\ gone' = [gone EXCEPT ![u] = @ \cup Copies(SubSeq(link[u].in, i + 1, Len(link[u].in)))]
<1>1. link \in [User -> Connection] /\ link[u] \in Connection
      /\ link[u].in \in Seq(Sent) /\ link[u].out \in Seq(Request)
  BY Fields DEF Records
<1>2. PICK i \in 0..Len(link[u].in), o \in 0..Len(link[u].out) :
        /\ link' = [link EXCEPT ![u] = [up |-> FALSE, in |-> SubSeq(link[u].in, 1, i),
                                        out |-> SubSeq(link[u].out, 1, o)]]
        /\ gone' = [gone EXCEPT ![u] = @ \cup Copies(SubSeq(link[u].in, i + 1, Len(link[u].in)))]
  BY DEF Break
<1> DEFINE n == [up |-> FALSE, in |-> SubSeq(link[u].in, 1, i), out |-> SubSeq(link[u].out, 1, o)]
<1>3. SubSeq(link[u].in, 1, i) \in Seq(Sent) /\ SubSeq(link[u].out, 1, o) \in Seq(Request)
  BY <1>1, RangeOfParts
<1>4. /\ n \in Connection /\ ~n.up /\ n.in = SubSeq(link[u].in, 1, i)
      /\ n.out = SubSeq(link[u].out, 1, o)
  BY <1>3 DEF Connection
<1>5. link' = [link EXCEPT ![u] = n]
  BY <1>2
<1> HIDE DEF n
<1>6. link' \in [User -> Connection] /\ (\A v \in User \ {u} : link'[v] = link[v]) /\ link'[u] = n
  BY <1>1, <1>4, <1>5
<1> QED  BY <1>2, <1>4, <1>6

\* Either the packet goes out and the handler goes on, or it ends.
LEMMA FlushSendStep ==
  ASSUME Typed, NEW u \in User, FlushSend(u)
  PROVE  /\ h' \in [User -> Handler] /\ \A v \in User \ {u} : h'[v] = h[v]
         /\ h'[u].at = {} /\ h'[u].out = {}
         /\ \/ /\ Send(u, Texts(h[u].todo)) /\ Texts(h[u].todo) \in Sent
               /\ h'[u].pc = "clear" /\ h'[u].todo = h[u].todo
            \/ UNCHANGED link /\ ~link[u].up /\ h'[u].pc = "end"
<1>1. Records /\ h[u].pc = "flush"
  BY DEF Typed, FlushSend
<1>2. h[u].todo \subseteq Message /\ h[u].at = {} /\ h[u].out = {}
  BY <1>1 DEF Typed, HandlerOK
<1>3. CASE link[u].up
  <2>1. Send(u, Texts(h[u].todo)) /\ Go(u, "clear")
    BY <1>3 DEF FlushSend
  <2> QED  BY <1>1, <1>2, <2>1, GoStep, Packets
<1>4. CASE ~link[u].up
  <2>1. h' = [h EXCEPT ![u] = [Recv EXCEPT !.pc = "end"]] /\ UNCHANGED link
    BY <1>4 DEF FlushSend
  <2> QED  BY <1>1, <1>4, <2>1, DoneStep
<1> QED  BY <1>3, <1>4

LEMMA DeliveredStep ==
  ASSUME Typed, NEW u \in User, Delivered(u)
  PROVE  /\ h' \in [User -> Handler] /\ \A v \in User \ {u} : h'[v] = h[v]
         /\ h'[u].todo = {} /\ h'[u].at = {} /\ h'[u].out = {}
         /\ h[u].msg \in Message /\ Writing(u, h[u].msg)
         /\ \/ /\ Send(u, Plain("delivery")) /\ Plain("delivery") \in Sent /\ h'[u].pc = "recv"
               /\ acked' = acked \cup {h[u].msg}
            \/ UNCHANGED <<link, acked>> /\ ~link[u].up /\ h'[u].pc = "end"
<1>1. Records /\ h[u].pc = "fanout" /\ posted \subseteq Message
  BY DEF Typed, Delivered, Records
<1>2. Writing(u, h[u].msg) /\ h[u].msg \in Message
  BY <1>1 DEF Typed, HandlerOK, Writing
<1>3. CASE link[u].up
  <2>1. /\ Send(u, Plain("delivery")) /\ acked' = acked \cup {h[u].msg}
        /\ h' = [h EXCEPT ![u] = Recv]
    BY <1>3 DEF Delivered
  <2> QED  BY <1>1, <1>2, <2>1, RecvStep, Packets
<1>4. CASE ~link[u].up
  <2>1. h' = [h EXCEPT ![u] = [Recv EXCEPT !.pc = "end"]] /\ UNCHANGED <<link, acked>>
    BY <1>4 DEF Delivered
  <2> QED  BY <1>1, <1>2, <1>4, <2>1, DoneStep
<1> QED  BY <1>3, <1>4

LEMMA AnswerStep ==
  ASSUME Typed, NEW u \in User, Answer(u)
  PROVE  /\ h' \in [User -> Handler] /\ \A v \in User \ {u} : h'[v] = h[v]
         /\ h'[u].todo = {} /\ h'[u].at = {} /\ h'[u].out = {}
         /\ \/ \E p \in Sent : h[u].out = {p} /\ Send(u, p) /\ h'[u].pc = "recv"
            \/ UNCHANGED link /\ ~link[u].up /\ h'[u].pc = "end"
<1>1. Records /\ h[u].pc = "answer" /\ h[u].out \subseteq Sent
  BY Fields DEF Typed, Answer
<1>2. \A p, q \in h[u].out : p = q
  BY DEF Typed, HandlerOK
<1>3. CASE link[u].up
  <2>1. PICK p \in h[u].out : Send(u, p)
    BY <1>3 DEF Answer
  <2>2. h[u].out = {p} /\ p \in Sent
    BY <1>1, <1>2, <2>1
  <2>3. h' = [h EXCEPT ![u] = Recv]
    BY <1>3 DEF Answer
  <2> QED  BY <1>1, <2>1, <2>2, <2>3, RecvStep
<1>4. CASE ~link[u].up
  <2>1. h' = [h EXCEPT ![u] = [Recv EXCEPT !.pc = "end"]] /\ UNCHANGED link
    BY <1>4 DEF Answer
  <2> QED  BY <1>1, <1>4, <2>1, DoneStep
<1> QED  BY <1>3, <1>4

\* The commands of a client.
LEMMA RestsStep ==
  ASSUME Records, NEW u \in User, Rests(u)
  PROVE  /\ ui' \in [User -> Coroutine] /\ \A v \in User \ {u} : ui'[v] = ui[v]
         /\ ui'[u].pc = "idle" /\ ui'[u].result = {}
<1>1. ui \in [User -> Coroutine] /\ Idle \in Coroutine /\ ui' = [ui EXCEPT ![u] = Idle]
  BY Constants DEF Records, Rests
<1>2. ui'[u] = Idle
  BY <1>1
<1> QED  BY <1>1, <1>2 DEF Idle

LEMMA WaitsStep ==
  ASSUME Records, NEW u \in User, NEW kind \in Kinds, NEW r \in Room \cup {NoRoom},
         NEW m \in Message \cup {NoMessage}, Waits(u, kind, r, m)
  PROVE  /\ ui' \in [User -> Coroutine] /\ \A v \in User \ {u} : ui'[v] = ui[v]
         /\ ui'[u].pc = "wait" /\ ui'[u].kind = kind /\ ui'[u].room = r /\ ui'[u].msg = m
         /\ ui'[u].result = {}
<1> DEFINE n == [pc |-> "wait", kind |-> kind, room |-> r, msg |-> m, result |-> {}]
<1>1. /\ n \in Coroutine /\ n.pc = "wait" /\ n.kind = kind /\ n.room = r /\ n.msg = m
      /\ n.result = {}
  BY DEF Coroutine
<1>2. ui' = [ui EXCEPT ![u] = n] /\ ui \in [User -> Coroutine]
  BY DEF Waits, Records
<1> HIDE DEF n
<1>3. ui' \in [User -> Coroutine] /\ (\A v \in User \ {u} : ui'[v] = ui[v]) /\ ui'[u] = n
  BY <1>1, <1>2
<1> QED  BY <1>1, <1>3

\* A command ends, but for what it changes in the table of rooms.
LEMMA TurnStep ==
  ASSUME Records, NEW u \in User, NEW pc \in {"save", "drop"}, NEW r \in Room \cup {NoRoom},
         ui' = [ui EXCEPT ![u] = [Idle EXCEPT !.pc = pc, !.room = r]]
  PROVE  /\ ui' \in [User -> Coroutine] /\ \A v \in User \ {u} : ui'[v] = ui[v]
         /\ ui'[u].pc = pc /\ ui'[u].room = r /\ ui'[u].result = {}
<1> DEFINE n == [Idle EXCEPT !.pc = pc, !.room = r]
<1>1. ui \in [User -> Coroutine] /\ Idle \in Coroutine
  BY Constants DEF Records
<1>2. n \in Coroutine /\ n.pc = pc /\ n.room = r /\ n.result = {}
  BY <1>1 DEF Coroutine, Idle
<1>3. ui' = [ui EXCEPT ![u] = n]
  OBVIOUS
<1> HIDE DEF n
<1>4. ui' \in [User -> Coroutine] /\ (\A v \in User \ {u} : ui'[v] = ui[v]) /\ ui'[u] = n
  BY <1>1, <1>2, <1>3
<1> QED  BY <1>2, <1>4

LEMMA ExitStep ==
  ASSUME Records, NEW u \in User, Exit(u)
  PROVE  /\ ui' \in [User -> Coroutine] /\ \A v \in User \ {u} : ui'[v] = ui[v]
         /\ ui'[u].pc = "off" /\ ui'[u].result = {}
         /\ net' = [net EXCEPT ![u] = Quiet]
         /\ link' \in [User -> Connection] /\ \A v \in User \ {u} : link'[v] = link[v]
         /\ ~link'[u].up /\ link'[u].in = <<>> /\ link'[u].out = link[u].out
         /\ gone' = [gone EXCEPT ![u] = @ \cup Copies(link[u].in)]
<1> DEFINE n == [Idle EXCEPT !.pc = "off"]
           d == [Down EXCEPT !.out = link[u].out]
<1>1. /\ ui \in [User -> Coroutine] /\ Idle \in Coroutine /\ link \in [User -> Connection]
      /\ Down \in Connection /\ ~Down.up /\ Down.in = <<>> /\ link[u].out \in Seq(Request)
  BY Fields, Constants DEF Records
<1>2. n \in Coroutine /\ n.pc = "off" /\ n.result = {}
  BY <1>1 DEF Coroutine, Idle
<1>3. d \in Connection /\ ~d.up /\ d.in = <<>> /\ d.out = link[u].out
  BY <1>1 DEF Connection
<1>4. /\ ui' = [ui EXCEPT ![u] = n] /\ link' = [link EXCEPT ![u] = d]
      /\ net' = [net EXCEPT ![u] = Quiet]
      /\ gone' = [gone EXCEPT ![u] = @ \cup Copies(link[u].in)]
  BY DEF Exit
<1> HIDE DEF n, d
<1>5. ui' \in [User -> Coroutine] /\ (\A v \in User \ {u} : ui'[v] = ui[v]) /\ ui'[u] = n
  BY <1>1, <1>2, <1>4
<1>6. link' \in [User -> Connection] /\ (\A v \in User \ {u} : link'[v] = link[v]) /\ link'[u] = d
  BY <1>1, <1>3, <1>4
<1> QED  BY <1>2, <1>3, <1>4, <1>5, <1>6

\* The next packet is taken.
LEMMA ReceiveStep ==
  ASSUME Records, NEW u \in User, Receive(u)
  PROVE  LET p == Head(link[u].in) IN
         /\ p \in Sent /\ link[u].in # <<>> /\ net[u] = Quiet
         /\ p = link[u].in[1] /\ Range(link[u].in) = {p} \cup Range(link'[u].in)
         /\ link' \in [User -> Connection] /\ \A v \in User \ {u} : link'[v] = link[v]
         /\ link'[u].up = link[u].up /\ link'[u].out = link[u].out
         /\ link'[u].in = Tail(link[u].in)
         /\ net' \in [User -> Change] /\ (\A v \in User \ {u} : net'[v] = net[v])
         /\ net'[u] = Stores(p) /\ Stores(p) \in Change
         /\ ui' \in [User -> Coroutine] /\ \A v \in User \ {u} : ui'[v] = ui[v]
         /\ ui'[u].pc = ui[u].pc /\ ui'[u].kind = ui[u].kind /\ ui'[u].room = ui[u].room
         /\ ui'[u].msg = ui[u].msg
         /\ \/ ui'[u].result = ui[u].result
            \/ ui[u].pc = "wait" /\ Resolves(u, p) /\ ui'[u].result = {p}
         /\ got' = [got EXCEPT ![u] = @ \cup Copies(<<p>>)]
<1> DEFINE p == Head(link[u].in)
<1>1. /\ link[u].in # <<>> /\ net[u] = Quiet /\ link[u].in \in Seq(Sent)
      /\ link \in [User -> Connection] /\ link[u] \in Connection
      /\ net \in [User -> Change] /\ ui \in [User -> Coroutine] /\ ui[u] \in Coroutine
  BY Fields DEF Receive, Records
<1>2. /\ p \in Sent /\ Tail(link[u].in) \in Seq(Sent) /\ p = link[u].in[1]
      /\ Range(link[u].in) = {p} \cup Range(Tail(link[u].in))
  BY <1>1, RangeOfTail
<1> DEFINE d == [link[u] EXCEPT !.in = Tail(link[u].in)]
<1>3. d \in Connection /\ d.up = link[u].up /\ d.out = link[u].out /\ d.in = Tail(link[u].in)
  BY <1>1, <1>2 DEF Connection
<1>4. link' = [link EXCEPT ![u] = d]
  BY <1>1 DEF Receive
<1> HIDE DEF d
<1>5. link' \in [User -> Connection] /\ (\A v \in User \ {u} : link'[v] = link[v]) /\ link'[u] = d
  BY <1>1, <1>3, <1>4
<1>6. Stores(p) \in Change
  <2>1. p.type = "info" => p.room \in Room
    BY <1>2, SentFields
  <2>2. CASE p.type = "info" /\ p.ok
    <3>1. Stores(p) = [do |-> IF p.left THEN "delete" ELSE "save", room |-> p.room]
      BY <2>2 DEF Stores
    <3>2. (IF p.left THEN "delete" ELSE "save") \in {"none", "save", "delete"}
      OBVIOUS
    <3> QED  BY <2>1, <2>2, <3>1, <3>2 DEF Change
  <2>3. CASE ~(p.type = "info" /\ p.ok)
    BY <2>3, Constants DEF Stores
  <2> QED  BY <2>2, <2>3
<1>7. net' = [net EXCEPT ![u] = Stores(p)] /\ got' = [got EXCEPT ![u] = @ \cup Copies(<<p>>)]
  BY DEF Receive
<1>8. net' \in [User -> Change] /\ (\A v \in User \ {u} : net'[v] = net[v]) /\ net'[u] = Stores(p)
  BY <1>1, <1>6, <1>7
<1>9. /\ ui' \in [User -> Coroutine] /\ \A v \in User \ {u} : ui'[v] = ui[v]
      /\ ui'[u].pc = ui[u].pc /\ ui'[u].kind = ui[u].kind /\ ui'[u].room = ui[u].room
      /\ ui'[u].msg = ui[u].msg
      /\ \/ ui'[u].result = ui[u].result
         \/ ui[u].pc = "wait" /\ Resolves(u, p) /\ ui'[u].result = {p}
  <2>1. CASE ui[u].pc = "wait" /\ Resolves(u, p)
    <3> DEFINE n == [ui[u] EXCEPT !.result = {p}]
    <3>1. /\ n \in Coroutine /\ n.pc = ui[u].pc /\ n.kind = ui[u].kind /\ n.room = ui[u].room
          /\ n.msg = ui[u].msg /\ n.result = {p}
      BY <1>1, <1>2 DEF Coroutine
    <3>2. ui' = [ui EXCEPT ![u] = n]
      BY <1>1, <2>1 DEF Receive
    <3> HIDE DEF n
    <3>3. ui' \in [User -> Coroutine] /\ (\A v \in User \ {u} : ui'[v] = ui[v]) /\ ui'[u] = n
      BY <1>1, <3>1, <3>2
    <3> QED  BY <2>1, <3>1, <3>3
  <2>2. CASE ~(ui[u].pc = "wait" /\ Resolves(u, p))
    <3>1. ui' = ui
      BY <2>2 DEF Receive
    <3> QED  BY <1>1, <3>1
  <2> QED  BY <2>1, <2>2
<1> QED  BY <1>1, <1>2, <1>3, <1>5, <1>6, <1>7, <1>8, <1>9

\* What a step of a handler keeps, and what is left to show of it.
LEMMA ServerTyped ==
  ASSUME Typed, NEW u \in User, UNCHANGED cliVars,
         rooms \subseteq rooms', rooms' \subseteq Room, members' \in [Room -> SUBSET User],
         \A r \in Room \ rooms' : members'[r] = {},
         queue' \in [User -> SUBSET Message], gone' \in [User -> SUBSET Message],
         link' \in [User -> Connection], h' \in [User -> Handler], crashes' \in Nat,
         audience' \in [Message -> SUBSET User], listed' \in [Message -> SUBSET User],
         acked' \subseteq Message,
         \A v \in User \ {u} : h'[v] = h[v], HandlerOK(u)',
         \A v \in User : Range(link'[v].out) \subseteq Range(link[v].out)
  PROVE  Typed'
<1>1. Records'
  BY DEF Typed, Records, cliVars
<1>2. ASSUME NEW v \in User, v # u PROVE HandlerOK(v)'
  BY <1>2 DEF Typed, HandlerOK, Writing, cliVars
<1>3. ASSUME NEW v \in User PROVE CommandOK(v)'
  BY <1>3 DEF Typed, CommandOK, Writing, cliVars
<1>4. ASSUME NEW v \in User, NEW p \in Range(link'[v].out) PROVE FrameOK(v, p)'
  BY <1>4 DEF Typed, FrameOK, Writing, cliVars
<1> QED  BY <1>1, <1>2, <1>3, <1>4 DEF Typed

LEMMA ClientTyped ==
  ASSUME Typed, NEW u \in User, UNCHANGED srvVars,
         link' \in [User -> Connection], ui' \in [User -> Coroutine], net' \in [User -> Change],
         rows' \in [User -> SUBSET Room], runs' \in [User -> Nat], commands' \in [User -> Nat],
         posted' \subseteq Message, posted \subseteq posted', sealed' \in [Message -> SUBSET User],
         got' \in [User -> SUBSET Message], gone' \in [User -> SUBSET Message],
         \A v \in User \ {u} : ui'[v] = ui[v] /\ net'[v] = net[v],
         \A v \in User \ {u} : runs'[v] = runs[v] /\ commands'[v] = commands[v],
         CommandOK(u)', commands[u] <= commands'[u],
         \A v \in User \ {u} : link'[v].out = link[v].out,
         \A p \in Range(link'[u].out) : p \in Range(link[u].out) \/ FrameOK(u, p)'
  PROVE  Typed'
<1>0. UNCHANGED <<rooms, members, queue, h, crashes, audience, listed, acked, granted>>
  BY DEF srvVars
<1>1. Records'
  BY <1>0 DEF Typed, Records
<1>2. ASSUME NEW v \in User PROVE HandlerOK(v)'
  BY <1>0, <1>2 DEF Typed, HandlerOK, Writing
<1>3. ASSUME NEW v \in User, v # u PROVE CommandOK(v)'
  BY <1>3 DEF Typed, CommandOK, Writing
<1>4. ASSUME NEW v \in User, NEW p \in Range(link'[v].out) PROVE FrameOK(v, p)'
  <2>1. ASSUME p \in Range(link[v].out) PROVE FrameOK(v, p)'
    <3>1. FrameOK(v, p)
      BY <1>4, <2>1 DEF Typed
    <3>2. p \in Request
      BY <1>4, <2>1, Fields, RangeType DEF Typed
    <3>3. commands[v] \in Nat /\ commands'[v] \in Nat
      BY <1>4 DEF Typed, Records
    <3>4. commands[v] <= commands'[v]
      BY <1>4, <3>3
    <3>5. p.req \in Nat
      BY <3>2 DEF Request
    <3> QED  BY <3>1, <3>3, <3>4, <3>5 DEF FrameOK, Writing
  <2>2. p \in Range(link[v].out) \/ FrameOK(v, p)'
    BY <1>4
  <2> QED  BY <2>1, <2>2
<1> QED  BY <1>0, <1>1, <1>2, <1>3, <1>4 DEF Typed

LEMMA RmInitTyped == RmInit => Typed
<1> SUFFICES ASSUME RmInit PROVE Typed
  OBVIOUS
<1>1. Records
  BY RoomsAssumption, Constants DEF RmInit, Records
<1>2. ASSUME NEW u \in User PROVE HandlerOK(u)
  BY <1>2 DEF RmInit, HandlerOK, Recv
<1>3. ASSUME NEW u \in User PROVE CommandOK(u)
  BY <1>3, RoomsAssumption DEF RmInit, CommandOK, Idle, Quiet
<1>4. ASSUME NEW u \in User PROVE Range(link[u].out) = {}
  BY <1>4, Constants, RangeOfNone DEF RmInit
<1>5. \A r \in Room \ rooms : members[r] = {}
  BY DEF RmInit
<1> QED  BY <1>1, <1>2, <1>3, <1>4, <1>5 DEF Typed

LEMMA FlushTyped ==
  ASSUME Typed, NEW u \in User, FlushRead(u) \/ FlushSend(u) \/ FlushClear(u)
  PROVE  Typed'
<1>1. Records /\ (\A r \in Room \ rooms : members[r] = {}) /\ HandlerOK(u)
  BY DEF Typed
<1>2. CASE FlushRead(u)
  <2>1. UNCHANGED <<rooms, members, queue, crashes, audience, listed, acked, granted, link, gone,
                    cliVars>> /\ h[u].pc = "read"
    BY <1>2 DEF FlushRead
  <2>2. HandlerOK(u)'
    <3>1. h[u].at = {} /\ h[u].out = {} /\ queue[u] \subseteq Message
      BY <1>1, <2>1 DEF HandlerOK, Records
    <3>2. /\ h'[u].pc \in {"clear", "flush"} /\ h'[u].todo = queue[u]
          /\ h'[u].at = {} /\ h'[u].out = {}
      BY <1>1, <1>2, <3>1, FlushReadStep
    <3> QED  BY <3>1, <3>2 DEF HandlerOK
  <2> QED  BY <1>1, <1>2, <2>1, <2>2, FlushReadStep, ServerTyped DEF Records
<1>3. CASE FlushSend(u)
  <2>1. UNCHANGED <<rooms, members, queue, crashes, audience, listed, acked, granted, gone, cliVars>>
    BY <1>3 DEF FlushSend
  <2>2. HandlerOK(u)'
    BY <1>1, <1>3, <2>1, FlushSendStep DEF HandlerOK, FlushSend
  <2>3. link' \in [User -> Connection] /\ \A v \in User : link'[v].out = link[v].out
    BY <1>1, <1>3, FlushSendStep, SendStep DEF Records
  <2> QED  BY <1>1, <1>3, <2>1, <2>2, <2>3, FlushSendStep, ServerTyped DEF Records
<1>4. CASE FlushClear(u)
  <2>1. UNCHANGED <<rooms, members, crashes, audience, listed, acked, granted, link, cliVars>>
    BY <1>4 DEF FlushClear
  <2>2. h' = [h EXCEPT ![u] = Recv] /\ queue' = [queue EXCEPT ![u] = {}]
        /\ gone' = [gone EXCEPT ![u] = @ \cup (queue[u] \ h[u].todo)]
    BY <1>4 DEF FlushClear
  <2>3. HandlerOK(u)'
    BY <1>1, <2>2, RecvStep DEF HandlerOK
  <2>4. queue' \in [User -> SUBSET Message] /\ gone' \in [User -> SUBSET Message]
    BY <1>1, <2>2 DEF Records
  <2> QED  BY <1>1, <2>1, <2>2, <2>3, <2>4, RecvStep, ServerTyped DEF Records
<1> QED  BY <1>2, <1>3, <1>4

\* The frames of a step of a handler that takes one.
LEMMA TakesLess ==
  ASSUME Records, NEW u \in User, NEW type, Takes(u, type)
  PROVE  /\ link' \in [User -> Connection]
         /\ \A v \in User : Range(link'[v].out) \subseteq Range(link[v].out)
BY TakesStep

\* An answer is prepared.
LEMMA AnswersOK ==
  ASSUME Typed, NEW u \in User, NEW type, Takes(u, type), NEW p \in Sent, p.type # "texts",
         Answers(u, p)
  PROVE  HandlerOK(u)'
<1>1. Records /\ HandlerOK(u)
  BY DEF Typed
<1>2. h'[u].pc = "answer" /\ h'[u].out = {p} /\ h'[u].at = h[u].at
  BY <1>1, AnswersStep
<1>3. h[u].at = {}
  BY <1>1 DEF HandlerOK, Takes
<1> QED  BY <1>2, <1>3 DEF HandlerOK

LEMMA RoomTyped ==
  ASSUME Typed, NEW u \in User,
         ServeCreate(u) \/ ServeJoin(u) \/ Insert(u) \/ ServeLeave(u) \/ ServeMembers(u)
  PROVE  Typed'
<1>1. Records /\ (\A r \in Room \ rooms : members[r] = {}) /\ HandlerOK(u)
      /\ rooms \subseteq Room /\ members \in [Room -> SUBSET User]
  BY DEF Typed, Records
<1>2. CASE ServeCreate(u)
  <2>1. PICK r \in Room \ rooms :
          /\ rooms' = rooms \cup {r} /\ members' = [members EXCEPT ![r] = {u}]
          /\ Answers(u, Info(Frame(u).req, TRUE, r, FALSE))
    BY <1>2 DEF ServeCreate
  <2>2. UNCHANGED <<queue, crashes, audience, listed, acked, gone, cliVars>> /\ Takes(u, "create")
    BY <1>2 DEF ServeCreate
  <2>3. Info(Frame(u).req, TRUE, r, FALSE) \in Sent
    BY <1>1, <2>2, TakesStep, Packets DEF Request
  <2>4. HandlerOK(u)'
    BY <2>1, <2>2, <2>3, AnswersOK DEF Info
  <2>5. members' \in [Room -> SUBSET User] /\ \A q \in Room \ rooms' : members'[q] = {}
    BY <1>1, <2>1
  <2> QED  BY <1>1, <2>1, <2>2, <2>3, <2>4, <2>5, AnswersStep, TakesLess, ServerTyped DEF Records
<1>3. CASE ServeJoin(u)
  <2>1. UNCHANGED <<rooms, members, queue, crashes, audience, listed, acked, granted, gone, cliVars>>
        /\ Takes(u, "join")
    BY <1>3 DEF ServeJoin
  <2>2. HandlerOK(u)'
    <3> DEFINE p == Frame(u)
               a == Info(p.req, TRUE, p.room, FALSE)
    <3>1. h[u].at = {}
      BY <1>1, <2>1 DEF HandlerOK, Takes
    <3>2. h'[u].at = {}
      BY <1>3, <3>1, ServeJoinStep
    <3>3. a.type = "info" /\ a.ok /\ ~a.left /\ a.room = p.room
      BY DEF Info
    <3>4. CASE h'[u].pc = "insert"
      <4>1. h'[u].out = {a} /\ p.room \in rooms'
        BY <1>3, <2>1, <3>4, ServeJoinStep
      <4> HIDE DEF a, p
      <4> QED  BY <3>2, <3>3, <3>4, <4>1 DEF HandlerOK
    <3>5. CASE h'[u].pc = "answer"
      <4> DEFINE b == Info(p.req, FALSE, p.room, FALSE)
      <4>1. h'[u].out = {b} /\ b.type = "info"
        BY <1>3, <3>5, ServeJoinStep DEF Info
      <4> HIDE DEF b
      <4> QED  BY <3>2, <3>5, <4>1 DEF HandlerOK
    <3> QED  BY <1>3, <3>4, <3>5, ServeJoinStep
  <2> QED  BY <1>1, <1>3, <2>1, <2>2, ServeJoinStep, TakesLess, ServerTyped DEF Records
<1>4. CASE Insert(u)
  <2>1. PICK p \in h[u].out : members' = [members EXCEPT ![p.room] = @ \cup {u}]
    BY <1>4 DEF Insert
  <2>2. UNCHANGED <<rooms, queue, crashes, audience, listed, acked, link, gone, cliVars>>
        /\ Go(u, "answer") /\ h[u].pc = "insert"
    BY <1>4 DEF Insert
  <2>3. p.room \in rooms
    BY <1>1, <2>1, <2>2 DEF HandlerOK
  <2>4. members' \in [Room -> SUBSET User] /\ \A q \in Room \ rooms' : members'[q] = {}
    BY <1>1, <2>1, <2>2, <2>3
  <2>5. HandlerOK(u)'
    BY <1>1, <2>2, GoStep DEF HandlerOK
  <2> QED  BY <1>1, <2>2, <2>4, <2>5, GoStep, ServerTyped DEF Records
<1>5. CASE ServeLeave(u)
  <2>1. UNCHANGED <<rooms, queue, crashes, audience, listed, acked, granted, gone, cliVars>>
        /\ Takes(u, "leave") /\ members' = [members EXCEPT ![Frame(u).room] = @ \ {u}]
        /\ Answers(u, Info(0, TRUE, Frame(u).room, TRUE))
    BY <1>5 DEF ServeLeave
  <2>2. Frame(u).room \in Room
    BY <1>1, <2>1, TakesStep DEF Typed, FrameOK
  <2>3. Info(0, TRUE, Frame(u).room, TRUE) \in Sent
    BY <2>2, Packets
  <2>4. members' \in [Room -> SUBSET User] /\ \A q \in Room \ rooms' : members'[q] = {}
    BY <1>1, <2>1, <2>2
  <2>5. HandlerOK(u)'
    BY <2>1, <2>3, AnswersOK DEF Info
  <2> QED  BY <1>1, <2>1, <2>3, <2>4, <2>5, AnswersStep, TakesLess, ServerTyped DEF Records
<1>6. CASE ServeMembers(u)
  <2>1. UNCHANGED <<rooms, members, queue, crashes, audience, acked, granted, gone, cliVars>>
        /\ Takes(u, "members") /\ listed' = [listed EXCEPT ![Frame(u).msg] = members[Frame(u).room]]
        /\ Answers(u, List(Frame(u).req, Present(Frame(u).room)))
    BY <1>6 DEF ServeMembers
  <2>2. Frame(u).room \in Room /\ Frame(u).req \in Nat
    BY <1>1, <2>1, TakesStep DEF Typed, FrameOK, Request
  <2>3. members[Frame(u).room] \subseteq User
    BY <1>1, <2>2
  <2>4. List(Frame(u).req, Present(Frame(u).room)) \in Sent
    BY <2>2, <2>3, Packets DEF Present
  <2>5. listed' \in [Message -> SUBSET User]
    BY <1>1, <2>1, <2>3 DEF Records
  <2>6. HandlerOK(u)'
    BY <2>1, <2>4, AnswersOK DEF List
  <2> QED  BY <1>1, <2>1, <2>4, <2>5, <2>6, AnswersStep, TakesLess, ServerTyped DEF Records
<1> QED  BY <1>2, <1>3, <1>4, <1>5, <1>6

LEMMA FanTyped ==
  ASSUME Typed, NEW u \in User,
         ServePost(u) \/ Route(u) \/ FanOut(u) \/ Enqueue(u) \/ Delivered(u) \/ Answer(u) \/ End(u)
  PROVE  Typed'
<1>1. Records /\ (\A r \in Room \ rooms : members[r] = {}) /\ HandlerOK(u)
      /\ rooms \subseteq Room /\ members \in [Room -> SUBSET User]
      /\ link \in [User -> Connection]
  BY DEF Typed, Records
<1>2. CASE ServePost(u)
  <2>1. UNCHANGED <<rooms, members, queue, crashes, audience, listed, acked, granted, gone, cliVars>>
        /\ Takes(u, "post")
    BY <1>2 DEF ServePost
  <2>2. HandlerOK(u)'
    <3>1. h[u].at = {} /\ h[u].out = {}
      BY <1>1, <2>1 DEF HandlerOK, Takes
    <3>2. h'[u].at = {} /\ UNCHANGED posted
      BY <1>2, <2>1, <3>1, ServePostStep DEF cliVars
    <3>3. CASE h'[u].pc = "route"
      <4>1. h'[u].out = {} /\ Writing(u, h'[u].msg) /\ h'[u].room \in Room
        BY <1>2, <3>1, <3>3, ServePostStep
      <4> QED  BY <3>2, <3>3, <4>1 DEF HandlerOK, Writing
    <3>4. CASE h'[u].pc = "answer"
      <4>1. h'[u].out = {Plain("error")}
        BY <1>2, <3>4, ServePostStep
      <4> QED  BY <3>2, <3>4, <4>1 DEF HandlerOK, Plain
    <3> QED  BY <1>2, <3>3, <3>4, ServePostStep
  <2> QED  BY <1>1, <1>2, <2>1, <2>2, ServePostStep, TakesLess, ServerTyped DEF Records
<1>3. CASE Route(u)
  <2>1. UNCHANGED <<rooms, members, queue, crashes, listed, acked, granted, link, gone, cliVars>>
        /\ h[u].pc = "route"
    BY <1>3 DEF Route
  <2>2. h[u].at = {} /\ h[u].out = {} /\ UNCHANGED posted
    BY <1>1, <2>1 DEF HandlerOK, cliVars
  <2>3. /\ h'[u].pc = "fanout" /\ h'[u].at = {} /\ h'[u].out = {} /\ Writing(u, h'[u].msg)
        /\ h'[u].room \in Room /\ h'[u].todo \subseteq User \ {u}
    BY <1>3, <2>2, RouteStep
  <2>4. HandlerOK(u)'
    BY <2>2, <2>3 DEF HandlerOK, Writing
  <2>5. audience' \in [Message -> SUBSET User]
    BY <1>1, <1>3, RouteStep DEF Records
  <2> QED  BY <1>1, <1>3, <2>1, <2>4, <2>5, RouteStep, ServerTyped DEF Records
<1>4. CASE FanOut(u)
  <2>1. UNCHANGED <<rooms, members, queue, crashes, audience, listed, acked, granted, gone, cliVars>>
        /\ h[u].pc = "fanout"
    BY <1>4 DEF FanOut
  <2>2. PICK v \in h[u].todo : Hand(u, v)
    BY <1>4 DEF FanOut
  <2>3. h[u].out = {} /\ UNCHANGED posted /\ h[u].room \in Room
        /\ h[u].todo \subseteq User \ {u} /\ h[u].at = {}
    BY <1>1, <2>1 DEF HandlerOK, cliVars
  <2>4. HandlerOK(u)'
    <3>1. /\ h'[u].out = {} /\ Writing(u, h'[u].msg) /\ h'[u].room \in Room
          /\ h'[u].todo \subseteq User \ {u} /\ h'[u].at \subseteq User \ {u}
          /\ h'[u].pc = "enqueue" \/ (h'[u].pc = "fanout" /\ h'[u].at = {})
      BY <2>1, <2>2, <2>3, HandStep
    <3> QED  BY <2>3, <3>1 DEF HandlerOK, Writing
  <2>5. link' \in [User -> Connection] /\ \A w \in User : link'[w].out = link[w].out
    <3>1. (v \in User /\ Texts({h[u].msg}) \in Sent /\ Send(v, Texts({h[u].msg}))) \/ UNCHANGED link
      BY <2>1, <2>2, HandStep
    <3> QED  BY <1>1, <3>1, SendStep
  <2> QED  BY <1>1, <2>1, <2>2, <2>4, <2>5, HandStep, ServerTyped DEF Records
<1>5. CASE Enqueue(u)
  <2>1. UNCHANGED <<rooms, members, crashes, audience, listed, acked, granted, link, gone, cliVars>>
        /\ h[u].pc = "enqueue"
    BY <1>5 DEF Enqueue
  <2>2. h[u].out = {} /\ UNCHANGED posted /\ h[u].room \in Room /\ h[u].todo \subseteq User \ {u}
    BY <1>1, <2>1 DEF HandlerOK, cliVars
  <2>3. HandlerOK(u)'
    <3>1. /\ h'[u].out = {} /\ Writing(u, h'[u].msg) /\ h'[u].room \in Room
          /\ h'[u].todo \subseteq User \ {u} /\ h'[u].at = {} /\ h'[u].pc = "fanout"
      BY <1>5, <2>2, EnqueueStep
    <3> QED  BY <2>2, <3>1 DEF HandlerOK, Writing
  <2> QED  BY <1>1, <1>5, <2>1, <2>3, EnqueueStep, ServerTyped DEF Records
<1>6. CASE Delivered(u)
  <2>1. UNCHANGED <<rooms, members, queue, crashes, audience, listed, granted, gone, cliVars>>
    BY <1>6 DEF Delivered
  <2>2. HandlerOK(u)'
    BY <1>6, DeliveredStep DEF HandlerOK
  <2>3. link' \in [User -> Connection] /\ \A w \in User : link'[w].out = link[w].out
    BY <1>1, <1>6, DeliveredStep, SendStep
  <2>4. acked' \subseteq Message
    BY <1>1, <1>6, DeliveredStep DEF Records
  <2> QED  BY <1>1, <1>6, <2>1, <2>2, <2>3, <2>4, DeliveredStep, ServerTyped DEF Records
<1>7. CASE Answer(u)
  <2>1. UNCHANGED <<rooms, members, queue, crashes, audience, listed, acked, granted, gone, cliVars>>
    BY <1>7 DEF Answer
  <2>2. HandlerOK(u)'
    BY <1>7, AnswerStep DEF HandlerOK
  <2>3. link' \in [User -> Connection] /\ \A w \in User : link'[w].out = link[w].out
    BY <1>1, <1>7, AnswerStep, SendStep
  <2> QED  BY <1>1, <1>7, <2>1, <2>2, <2>3, AnswerStep, ServerTyped DEF Records
<1>8. CASE End(u)
  <2>1. UNCHANGED <<rooms, members, queue, crashes, audience, listed, acked, granted, gone, cliVars>>
    BY <1>8 DEF End
  <2>2. HandlerOK(u)'
    BY <1>1, <1>8, EndStep DEF HandlerOK
  <2>3. link' \in [User -> Connection] /\ \A w \in User : Range(link'[w].out) \subseteq Range(link[w].out)
    BY <1>1, <1>8, EndStep, RangeOfNone
  <2> QED  BY <1>1, <1>8, <2>1, <2>2, <2>3, EndStep, ServerTyped DEF Records
<1> QED  BY <1>2, <1>3, <1>4, <1>5, <1>6, <1>7, <1>8

LEMMA CrashTyped ==
  ASSUME Typed, Crash
  PROVE  Typed'
<1>1. Records
  BY DEF Typed
<1>2. UNCHANGED <<rooms, members, queue, audience, listed, acked, granted, gone, cliVars>>
      /\ crashes' = crashes + 1
  BY DEF Crash
<1>3. Records'
  BY <1>1, <1>2, CrashStep DEF Records, cliVars
<1>4. ASSUME NEW v \in User PROVE HandlerOK(v)'
  BY <1>1, <1>4, CrashStep DEF HandlerOK
<1>5. ASSUME NEW v \in User PROVE CommandOK(v)'
  BY <1>2, <1>5 DEF Typed, CommandOK, Writing, cliVars
<1>6. ASSUME NEW v \in User PROVE Range(link'[v].out) = {}
  BY <1>1, <1>6, CrashStep, RangeOfNone
<1>7. \A r \in Room \ rooms' : members'[r] = {}
  BY <1>2 DEF Typed
<1> QED  BY <1>3, <1>4, <1>5, <1>6, <1>7 DEF Typed

LEMMA StartTyped ==
  ASSUME Typed, NEW u \in User, Start(u)
  PROVE  Typed'
<1>1. Records /\ HandlerOK(u) /\ CommandOK(u) /\ commands \in [User -> Nat]
      /\ gone \in [User -> SUBSET Message] /\ runs \in [User -> Nat]
  BY DEF Typed, Records
<1>2. /\ UNCHANGED <<rooms, members, queue, crashes, audience, listed, acked, granted, net, rows,
                     commands, posted, sealed, got, told>>
      /\ h[u].pc = "ended" /\ runs[u] < MaxRun[u] /\ runs' = [runs EXCEPT ![u] = @ + 1]
      /\ gone' = [gone EXCEPT ![u] = @ \cup Copies(link[u].in)]
  BY DEF Start
<1>3. Copies(link[u].in) \subseteq Message
  BY <1>1, Fields, CopiesType
<1>4. gone' \in [User -> SUBSET Message] /\ runs' \in [User -> Nat]
  BY <1>1, <1>2, <1>3
<1>5. Records'
  BY <1>1, <1>2, <1>4, StartStep DEF Records
<1>6. ASSUME NEW v \in User PROVE HandlerOK(v)'
  <2>1. CASE v = u
    <3>1. h[u].at = {} /\ h[u].out = {}
      BY <1>1, <1>2 DEF HandlerOK
    <3>2. h'[u].pc = "read" /\ h'[u].at = {} /\ h'[u].out = {}
      BY <1>1, <3>1, StartStep
    <3> QED  BY <2>1, <3>2 DEF HandlerOK
  <2>2. CASE v # u
    <3>1. h'[v] = h[v]
      BY <1>1, <2>2, StartStep
    <3> QED  BY <1>2, <3>1 DEF Typed, HandlerOK, Writing
  <2> QED  BY <2>1, <2>2
<1>7. ASSUME NEW v \in User PROVE CommandOK(v)'
  <2>1. CASE v = u
    <3>1. ui'[u].pc = "idle" /\ ui'[u].result = {}
      BY <1>1, StartStep DEF Idle
    <3>2. runs'[u] = runs[u] + 1 /\ runs[u] \in Nat /\ MaxRun[u] \in Nat
      BY <1>1, <1>2, RoomsAssumption
    <3>3. runs'[u] \in 1..MaxRun[u]
      BY <1>2, <3>2
    <3> QED  BY <1>1, <1>2, <2>1, <3>1, <3>3 DEF CommandOK
  <2>2. CASE v # u
    <3>1. ui'[v] = ui[v] /\ runs'[v] = runs[v]
      BY <1>1, <1>2, <2>2, StartStep
    <3> QED  BY <1>2, <3>1 DEF Typed, CommandOK, Writing
  <2> QED  BY <2>1, <2>2
<1>8. ASSUME NEW v \in User, NEW p \in Range(link'[v].out) PROVE FrameOK(v, p)'
  <2>1. v # u /\ p \in Range(link[v].out)
    BY <1>1, <1>8, StartStep, RangeOfNone
  <2> QED  BY <1>2, <2>1 DEF Typed, FrameOK, Writing
<1> QED  BY <1>2, <1>5, <1>6, <1>7, <1>8 DEF Typed

LEMMA BreakTyped ==
  ASSUME Typed, NEW u \in User, Break(u)
  PROVE  Typed'
<1>1. Records /\ CommandOK(u)
  BY DEF Typed
<1>2. UNCHANGED srvVars /\ UNCHANGED cliVars
  BY DEF Break
<1>3. PICK i \in 0..Len(link[u].in), o \in 0..Len(link[u].out) :
        /\ link' \in [User -> Connection] /\ \A v \in User \ {u} : link'[v] = link[v]
        /\ link'[u].out = SubSeq(link[u].out, 1, o)
        /\ gone' = [gone EXCEPT ![u] = @ \cup Copies(SubSeq(link[u].in, i + 1, Len(link[u].in)))]
  BY <1>1, BreakStep
<1>4. Range(link'[u].out) \subseteq Range(link[u].out)
  BY <1>1, <1>3, Fields, RangeOfParts
<1>5. Copies(SubSeq(link[u].in, i + 1, Len(link[u].in))) \subseteq Message
  BY <1>1, Fields, RangeOfParts, CopiesType
<1>6. gone' \in [User -> SUBSET Message]
  BY <1>1, <1>3, <1>5 DEF Records
<1>7. UNCHANGED <<ui, net, rows, runs, commands, posted, sealed, got>>
  BY <1>2 DEF cliVars
<1>8. CommandOK(u)'
  BY <1>1, <1>7 DEF CommandOK, Writing
<1>9. commands[u] <= commands'[u]
  BY <1>1, <1>7, Fields
<1> QED  BY <1>1, <1>2, <1>3, <1>4, <1>6, <1>7, <1>8, <1>9, ClientTyped DEF Records

LEMMA GivesStep ==
  ASSUME Records, NEW u \in User, NEW kind, NEW r, Gives(u, kind, r)
  PROVE  /\ commands' \in [User -> Nat] /\ \A v \in User \ {u} : commands'[v] = commands[v]
         /\ commands'[u] = commands[u] + 1 /\ commands[u] \in Nat
         /\ commands'[u] \in 0..MaxCommand[u] /\ ui[u].pc = "idle"
<1>1. /\ commands \in [User -> Nat] /\ commands' = [commands EXCEPT ![u] = @ + 1]
      /\ commands[u] < MaxCommand[u] /\ ui[u].pc = "idle"
  BY DEF Gives, Records
<1>2. MaxCommand[u] \in Nat
  BY RoomsAssumption
<1> QED  BY <1>1, <1>2

\* What a command writes and awaits.
LEMMA CommandTyped ==
  ASSUME Typed, NEW u \in User, NEW kind, NEW r, Gives(u, kind, r), UNCHANGED srvVars,
         UNCHANGED <<net, rows, runs, sealed, got, told, gone>>,
         posted \subseteq posted', posted' \subseteq Message,
         NEW p \in Request, Writes(u, p), FrameOK(u, p)',
         ui' \in [User -> Coroutine], \A v \in User \ {u} : ui'[v] = ui[v],
         ui'[u].pc = "wait" => ui'[u].kind \in {"create", "join", "post"},
         ui'[u].pc = "wait" /\ ui'[u].kind = "post" => ui'[u].msg \in posted' /\ Author[ui'[u].msg] = u,
         ui'[u].pc = "wait" /\ ui'[u].kind = "post" => ui'[u].room \in Room,
         ui'[u].pc \in {"save", "drop"} => ui'[u].room \in Room,
         ui'[u].result = {}
  PROVE  Typed'
<1>1. Records /\ CommandOK(u)
  BY DEF Typed
<1>2. /\ commands' \in [User -> Nat] /\ (\A v \in User \ {u} : commands'[v] = commands[v])
      /\ commands'[u] > 0 /\ commands'[u] \in 0..MaxCommand[u] /\ commands[u] <= commands'[u]
  BY <1>1, GivesStep
<1>3. CommandOK(u)'
  <2>1. /\ net'[u].do # "none" => net'[u].room \in Room
        /\ net'[u].do = "none" => net'[u] = Quiet
        /\ runs'[u] \in 1..MaxRun[u]
    BY <1>1 DEF CommandOK
  <2> QED  BY <1>2, <2>1 DEF CommandOK, Writing
<1>4. /\ link' \in [User -> Connection] /\ \A v \in User \ {u} : link'[v].out = link[v].out
      /\ \A q \in Range(link'[u].out) : q \in Range(link[u].out) \/ FrameOK(u, q)'
  BY <1>1, WritesStep
<1> QED  BY <1>1, <1>2, <1>3, <1>4, ClientTyped DEF Records

LEMMA AskType ==
  ASSUME NEW type \in {"create", "join", "leave", "members", "post"}, NEW n \in Nat,
         NEW r \in Room \cup {NoRoom}, NEW m \in Message \cup {NoMessage}
  PROVE  /\ Ask(type, n, r, m) \in Request /\ Ask(type, n, r, m).type = type
         /\ Ask(type, n, r, m).req = n /\ Ask(type, n, r, m).room = r /\ Ask(type, n, r, m).msg = m
BY DEF Ask, Request

LEMMA CommandsTyped ==
  ASSUME Typed, NEW u \in User, Command(u)
  PROVE  Typed'
<1>1. Records /\ posted \subseteq Message
  BY DEF Typed, Records
<1>2. CASE Create(u)
  <2>0. PICK n \in Nat : n = commands'[u]
    BY <1>1, <1>2, GivesStep DEF Create
  <2> DEFINE p == Ask("create", n, NoRoom, NoMessage)
  <2>1. /\ Gives(u, "create", NoRoom) /\ Writes(u, p) /\ Waits(u, "create", NoRoom, NoMessage)
        /\ UNCHANGED <<srvVars, net, rows, runs, posted, sealed, got, told, gone>>
    BY <1>2, <2>0 DEF Create
  <2>2. n > 0
    BY <1>1, <2>0, <2>1, GivesStep
  <2>3. p \in Request /\ p.type = "create" /\ p.req = n
    BY AskType
  <2>4. FrameOK(u, p)'
    BY <2>0, <2>2, <2>3 DEF FrameOK
  <2>5. /\ ui' \in [User -> Coroutine] /\ \A v \in User \ {u} : ui'[v] = ui[v]
        /\ ui'[u].pc = "wait" /\ ui'[u].kind = "create" /\ ui'[u].result = {}
    BY <1>1, <2>1, WaitsStep DEF Kinds
  <2> HIDE DEF p
  <2> QED  BY <1>1, <2>1, <2>3, <2>4, <2>5, CommandTyped
<1>3. ASSUME NEW r \in Room, Join(u, r) PROVE Typed'
  <2>0. PICK n \in Nat : n = commands'[u]
    BY <1>1, <1>3, GivesStep DEF Join
  <2> DEFINE p == Ask("join", n, r, NoMessage)
  <2>1. /\ Gives(u, "join", r) /\ Writes(u, p) /\ Waits(u, "join", r, NoMessage)
        /\ UNCHANGED <<srvVars, net, rows, runs, posted, sealed, got, told, gone>>
    BY <1>3, <2>0 DEF Join
  <2>2. n > 0
    BY <1>1, <2>0, <2>1, GivesStep
  <2>3. p \in Request /\ p.type = "join" /\ p.req = n /\ p.room = r
    BY AskType
  <2>4. FrameOK(u, p)'
    BY <2>0, <2>2, <2>3 DEF FrameOK
  <2>5. /\ ui' \in [User -> Coroutine] /\ \A v \in User \ {u} : ui'[v] = ui[v]
        /\ ui'[u].pc = "wait" /\ ui'[u].kind = "join" /\ ui'[u].result = {}
    BY <1>1, <2>1, WaitsStep DEF Kinds
  <2> HIDE DEF p
  <2> QED  BY <1>1, <2>1, <2>3, <2>4, <2>5, CommandTyped
<1>4. ASSUME NEW r \in Room, Leave(u, r) PROVE Typed'
  <2> DEFINE p == Ask("leave", 0, r, NoMessage)
  <2>1. /\ Gives(u, "leave", r) /\ Writes(u, p)
        /\ ui' = [ui EXCEPT ![u] = [Idle EXCEPT !.pc = "drop", !.room = r]]
        /\ UNCHANGED <<srvVars, net, rows, runs, posted, sealed, got, told, gone>>
    BY <1>4 DEF Leave
  <2>2. commands'[u] \in Nat
    BY <1>1, <2>1, GivesStep
  <2>3. p \in Request /\ p.type = "leave" /\ p.req = 0 /\ p.room = r
    BY AskType
  <2>4. FrameOK(u, p)'
    BY <2>2, <2>3 DEF FrameOK
  <2>5. /\ ui' \in [User -> Coroutine] /\ \A v \in User \ {u} : ui'[v] = ui[v]
        /\ ui'[u].pc = "drop" /\ ui'[u].room = r /\ ui'[u].result = {}
    BY <1>1, <2>1, TurnStep
  <2> HIDE DEF p
  <2> QED  BY <1>1, <2>1, <2>3, <2>4, <2>5, CommandTyped
<1>5. ASSUME NEW m \in Message, NEW r \in Room, Post(u, m, r) PROVE Typed'
  <2>1. /\ Gives(u, "post", r) /\ Author[m] = u /\ m \notin posted /\ posted' = posted \cup {m}
        /\ UNCHANGED <<srvVars, net, rows, runs, sealed, got, told, gone>>
    BY <1>5 DEF Post
  <2>2. commands'[u] \in Nat /\ commands'[u] > 0
    BY <1>1, <2>1, GivesStep
  <2>3. Writing(u, m)' /\ posted' \subseteq Message
    BY <1>1, <2>1 DEF Writing
  <2>4. CASE Knows[u] = {}
    <3> DEFINE p == Ask("post", 0, r, m)
    <3>1. Writes(u, p) /\ UNCHANGED ui
      BY <1>5, <2>4 DEF Post
    <3>2. p \in Request /\ p.type = "post" /\ p.req = 0 /\ p.room = r /\ p.msg = m
      BY AskType
    <3>3. FrameOK(u, p)'
      BY <2>2, <2>3, <3>2 DEF FrameOK
    <3>4. ui \in [User -> Coroutine] /\ ui[u].pc = "idle" /\ ui[u].result = {}
      BY <1>1, <2>1, GivesStep DEF Typed, CommandOK, Records
    <3> HIDE DEF p
    <3> QED  BY <1>1, <2>1, <2>3, <3>1, <3>2, <3>3, <3>4, CommandTyped
  <2>5. CASE Knows[u] # {}
    <3>0. PICK n \in Nat : n = commands'[u]
      BY <2>2
    <3> DEFINE p == Ask("members", n, r, m)
    <3>1. Writes(u, p) /\ Waits(u, "post", r, m)
      BY <1>5, <2>5, <3>0 DEF Post
    <3>2. p \in Request /\ p.type = "members" /\ p.req = n /\ p.room = r /\ p.msg = m
      BY AskType
    <3>3. FrameOK(u, p)'
      BY <2>2, <2>3, <3>0, <3>2 DEF FrameOK
    <3>4. /\ ui' \in [User -> Coroutine] /\ \A v \in User \ {u} : ui'[v] = ui[v]
          /\ ui'[u].pc = "wait" /\ ui'[u].kind = "post" /\ ui'[u].room = r /\ ui'[u].msg = m
          /\ ui'[u].result = {}
      BY <1>1, <3>1, WaitsStep DEF Kinds
    <3> HIDE DEF p
    <3> QED  BY <1>1, <2>1, <2>3, <3>1, <3>2, <3>3, <3>4, CommandTyped
  <2> QED  BY <2>4, <2>5
<1> QED  BY <1>2, <1>3, <1>4, <1>5 DEF Command

\* The text that is waited for goes out.
LEMMA TransmitStep ==
  ASSUME Typed, NEW u \in User, ui[u].pc = "wait", ui[u].kind = "post", NEW list,
         Transmit(u, list)
  PROVE  LET p == Ask("post", 0, ui[u].room, ui[u].msg)
             m == ui[u].msg
         IN
         /\ p \in Request /\ p.type = "post" /\ p.req = 0 /\ p.room = ui[u].room /\ p.msg = m
         /\ Writes(u, p) /\ FrameOK(u, p) /\ m \in Message /\ Author[m] = u /\ m \in posted
         /\ ui' \in [User -> Coroutine] /\ \A v \in User \ {u} : ui'[v] = ui[v]
         /\ ui'[u].pc = "idle" /\ ui'[u].result = {}
         /\ sealed' = [sealed EXCEPT ![m] = (list \ {u}) \cap Knows[u]]
         /\ sealed' \in [Message -> SUBSET User]
<1> DEFINE p == Ask("post", 0, ui[u].room, ui[u].msg)
<1>1. Records /\ CommandOK(u) /\ posted \subseteq Message /\ sealed \in [Message -> SUBSET User]
  BY DEF Typed, Records
<1>2. Writing(u, ui[u].msg) /\ ui[u].room \in Room /\ commands[u] \in Nat
  BY <1>1, Fields DEF CommandOK
<1>3. ui[u].msg \in Message /\ Author[ui[u].msg] = u /\ ui[u].msg \in posted
  BY <1>1, <1>2 DEF Writing
<1>4. p \in Request /\ p.type = "post" /\ p.req = 0 /\ p.room = ui[u].room /\ p.msg = ui[u].msg
  BY <1>2, <1>3, AskType
<1>5. FrameOK(u, p)
  BY <1>2, <1>4 DEF FrameOK
<1>6. Writes(u, p) /\ Rests(u) /\ sealed' = [sealed EXCEPT ![ui[u].msg] = (list \ {u}) \cap Knows[u]]
  BY DEF Transmit
<1>7. (list \ {u}) \cap Knows[u] \subseteq User
  BY RoomsAssumption
<1>8. sealed' \in [Message -> SUBSET User]
  BY <1>1, <1>3, <1>6, <1>7
<1> HIDE DEF p
<1>9. /\ ui' \in [User -> Coroutine] /\ \A v \in User \ {u} : ui'[v] = ui[v]
      /\ ui'[u].pc = "idle" /\ ui'[u].result = {}
  BY <1>1, <1>6, RestsStep
<1> QED  BY <1>3, <1>4, <1>5, <1>6, <1>8, <1>9 DEF p

\* A command that got its answer: the text goes out, or join reports the outcome, or
\* create does and is about to save the room.
LEMMA ConcludeStep ==
  ASSUME Typed, Newest, NEW u \in User, Conclude(u)
  PROVE  /\ ui[u].pc = "wait"
         /\ UNCHANGED <<srvVars, net, rows, runs, commands, posted, got, gone>>
         /\ \E p \in ui[u].result :
              /\ p \in Sent /\ IsAnswer(p) /\ p.req = commands[u] /\ link[u].out = <<>>
              /\ \/ /\ ui[u].kind = "post" /\ Transmit(u, p.members) /\ UNCHANGED told
                    /\ p.type = "list"
                 \/ /\ ui[u].kind \in {"create", "join"} /\ UNCHANGED <<link, sealed>>
                    /\ told' = IF p.ok THEN told \cup {<<u, commands[u]>>} ELSE told
                    /\ p.type = "info" /\ p.room \in Room
                    /\ ui' \in [User -> Coroutine] /\ \A v \in User \ {u} : ui'[v] = ui[v]
                    /\ ui'[u].result = {}
                    /\ \/ ui'[u].pc = "save" /\ ui'[u].room = p.room /\ ui[u].kind = "create"
                       \/ ui'[u].pc = "idle"
<1>1. Records /\ NewestOf(u)
  BY DEF Typed, Newest
<1>2. ui[u].pc = "wait" /\ UNCHANGED <<srvVars, net, rows, runs, commands, posted, got, gone>>
  BY DEF Conclude
<1>3. PICK p \in ui[u].result :
        \/ /\ ui[u].kind = "post" /\ Transmit(u, p.members) /\ UNCHANGED told
        \/ /\ ui[u].kind \in {"create", "join"} /\ UNCHANGED <<link, sealed>>
           /\ told' = IF p.ok THEN told \cup {<<u, commands[u]>>} ELSE told
           /\ IF ui[u].kind = "create"
                THEN ui' = [ui EXCEPT ![u] = [Idle EXCEPT !.pc = "save", !.room = p.room]]
                ELSE Rests(u)
  BY DEF Conclude
<1>4. p \in Sent /\ IsAnswer(p) /\ p.req = commands[u]
  BY <1>1, <1>2, <1>3, Fields DEF NewestOf
<1>5. link[u].out = <<>> /\ (p.type = "list" <=> ui[u].kind = "post")
  BY <1>1, <1>2, <1>3, <1>4 DEF NewestOf, Answered
<1>6. CASE ui[u].kind = "post"
  BY <1>2, <1>3, <1>4, <1>5, <1>6
<1>7. CASE ui[u].kind # "post"
  <2>1. p.type = "info" /\ p.room \in Room
    BY <1>4, <1>5, <1>7, SentFields DEF IsAnswer
  <2>2. ui[u].kind \in {"create", "join"} /\ UNCHANGED <<link, sealed>>
        /\ told' = IF p.ok THEN told \cup {<<u, commands[u]>>} ELSE told
    BY <1>3, <1>7
  <2>3. CASE ui[u].kind = "create"
    <3>1. ui' = [ui EXCEPT ![u] = [Idle EXCEPT !.pc = "save", !.room = p.room]]
      BY <1>3, <2>3
    <3>2. /\ ui' \in [User -> Coroutine] /\ \A v \in User \ {u} : ui'[v] = ui[v]
          /\ ui'[u].pc = "save" /\ ui'[u].room = p.room /\ ui'[u].result = {}
      BY <1>1, <2>1, <3>1, TurnStep
    <3> QED  BY <1>2, <1>3, <1>4, <1>5, <2>1, <2>2, <2>3, <3>2
  <2>4. CASE ui[u].kind # "create"
    <3>1. Rests(u)
      BY <1>3, <1>7, <2>4
    <3>2. /\ ui' \in [User -> Coroutine] /\ \A v \in User \ {u} : ui'[v] = ui[v]
          /\ ui'[u].pc = "idle" /\ ui'[u].result = {}
      BY <1>1, <3>1, RestsStep
    <3> QED  BY <1>2, <1>3, <1>4, <1>5, <2>1, <2>2, <3>2
  <2> QED  BY <2>3, <2>4
<1> QED  BY <1>6, <1>7

LEMMA TransmitTyped ==
  ASSUME Typed, NEW u \in User, ui[u].pc = "wait", ui[u].kind = "post", NEW list,
         Transmit(u, list), UNCHANGED <<srvVars, net, rows, runs, commands, posted, got, gone>>
  PROVE  Typed'
<1>1. Records /\ CommandOK(u)
  BY DEF Typed
<1>0. PICK p \in Request : Writes(u, p) /\ FrameOK(u, p)
  BY TransmitStep
<1>2. /\ ui' \in [User -> Coroutine] /\ \A v \in User \ {u} : ui'[v] = ui[v]
      /\ ui'[u].pc = "idle" /\ ui'[u].result = {} /\ sealed' \in [Message -> SUBSET User]
  BY TransmitStep
<1>3. CommandOK(u)'
  BY <1>1, <1>2 DEF CommandOK
<1>4. FrameOK(u, p)'
  BY <1>0 DEF FrameOK, Writing
<1>5. /\ link' \in [User -> Connection] /\ \A v \in User \ {u} : link'[v].out = link[v].out
      /\ \A q \in Range(link'[u].out) : q \in Range(link[u].out) \/ FrameOK(u, q)'
  BY <1>0, <1>1, <1>4, WritesStep
<1>6. commands[u] <= commands'[u]
  BY <1>1, Fields
<1> QED  BY <1>1, <1>2, <1>3, <1>5, <1>6, ClientTyped DEF Records

LEMMA ResumeTyped ==
  ASSUME Typed, Newest, NEW u \in User, Resume(u)
  PROVE  Typed'
<1>1. Records /\ CommandOK(u) /\ link \in [User -> Connection]
  BY DEF Typed, Records
<1>2. commands[u] <= commands[u]
  BY <1>1, Fields
<1>3. CASE Conclude(u)
  <2>1. /\ ui[u].pc = "wait"
        /\ UNCHANGED <<srvVars, net, rows, runs, commands, posted, got, gone>>
    BY <1>3, ConcludeStep
  <2>2. CASE ui[u].kind = "post"
    <3>1. PICK p \in ui[u].result : Transmit(u, p.members)
      BY <1>3, <2>2 DEF Conclude
    <3> QED  BY <2>1, <2>2, <3>1, TransmitTyped
  <2>3. CASE ui[u].kind # "post"
    <3>1. /\ UNCHANGED <<link, sealed>>
          /\ ui' \in [User -> Coroutine] /\ \A v \in User \ {u} : ui'[v] = ui[v]
          /\ ui'[u].result = {} /\ ui'[u].pc \in {"save", "idle"}
          /\ ui'[u].pc = "save" => ui'[u].room \in Room
      BY <1>3, <2>3, ConcludeStep
    <3>2. CommandOK(u)'
      BY <1>1, <2>1, <3>1 DEF CommandOK
    <3> QED  BY <1>1, <1>2, <2>1, <3>1, <3>2, ClientTyped DEF Records
  <2> QED  BY <2>2, <2>3
<1>4. CASE Timeout(u)
  <2>1. ui[u].pc = "wait" /\ UNCHANGED <<srvVars, rows, runs, commands, posted, got, told>>
    BY <1>4 DEF Timeout
  <2>2. CASE ui[u].kind = "create"
    <3>1. Exit(u) /\ UNCHANGED sealed
      BY <1>4, <2>2 DEF Timeout
    <3>2. Copies(link[u].in) \subseteq Message
      BY <1>1, Fields, CopiesType
    <3>3. /\ net' \in [User -> Change] /\ net'[u] = Quiet /\ \A v \in User \ {u} : net'[v] = net[v]
          /\ gone' \in [User -> SUBSET Message]
      <4>1. net \in [User -> Change] /\ gone \in [User -> SUBSET Message] /\ Quiet \in Change
        BY <1>1, Constants DEF Records
      <4>2. /\ net' = [net EXCEPT ![u] = Quiet]
            /\ gone' = [gone EXCEPT ![u] = @ \cup Copies(link[u].in)]
        BY <3>1 DEF Exit
      <4> QED  BY <3>2, <4>1, <4>2
    <3>4. ui'[u].pc = "off" /\ ui'[u].result = {}
      BY <1>1, <3>1, ExitStep
    <3>5. CommandOK(u)'
      BY <1>1, <2>1, <3>3, <3>4 DEF CommandOK, Quiet
    <3> QED  BY <1>1, <1>2, <2>1, <3>1, <3>3, <3>5, ExitStep, ClientTyped DEF Records
  <2>3. CASE ui[u].kind = "join"
    <3>1. Rests(u) /\ UNCHANGED <<net, link, sealed, gone>>
      BY <1>4, <2>3 DEF Timeout
    <3>2. /\ ui' \in [User -> Coroutine] /\ \A v \in User \ {u} : ui'[v] = ui[v]
          /\ ui'[u].pc = "idle" /\ ui'[u].result = {}
      BY <1>1, <3>1, RestsStep
    <3>3. CommandOK(u)'
      BY <1>1, <2>1, <3>1, <3>2 DEF CommandOK
    <3> QED  BY <1>1, <1>2, <2>1, <3>1, <3>2, <3>3, ClientTyped DEF Records
  <2>4. CASE ui[u].kind = "post"
    <3>1. Transmit(u, {}) /\ UNCHANGED <<net, gone>>
      BY <1>4, <2>4 DEF Timeout
    <3> QED  BY <2>1, <2>4, <3>1, TransmitTyped
  <2> QED  BY <1>4, <2>2, <2>3, <2>4 DEF Timeout
<1>5. CASE Keep(u)
  <2>1. /\ Rests(u)
        /\ UNCHANGED <<srvVars, net, runs, commands, posted, sealed, got, told, link, gone>>
        /\ ui[u].pc \in {"save", "drop"}
    BY <1>5 DEF Keep
  <2>2. ui[u].room \in Room
    BY <1>1, <2>1 DEF CommandOK
  <2>3. rows' \in [User -> SUBSET Room]
    BY <1>1, <1>5, <2>2 DEF Keep, Records
  <2>4. /\ ui' \in [User -> Coroutine] /\ \A v \in User \ {u} : ui'[v] = ui[v]
        /\ ui'[u].pc = "idle" /\ ui'[u].result = {}
    BY <1>1, <2>1, RestsStep
  <2>5. CommandOK(u)'
    BY <1>1, <2>1, <2>4 DEF CommandOK
  <2> QED  BY <1>1, <1>2, <2>1, <2>3, <2>4, <2>5, ClientTyped DEF Records
<1> QED  BY <1>3, <1>4, <1>5 DEF Resume

LEMMA ReadTyped ==
  ASSUME Typed, NEW u \in User, Read(u)
  PROVE  Typed'
<1>1. Records /\ CommandOK(u) /\ link \in [User -> Connection]
  BY DEF Typed, Records
<1>2. commands[u] <= commands[u]
  BY <1>1, Fields
<1>3. CASE Receive(u)
  <2> DEFINE p == Head(link[u].in)
  <2>1. UNCHANGED <<srvVars, rows, runs, commands, posted, sealed, told, gone>>
    BY <1>3 DEF Receive
  <2>2. /\ p \in Sent
        /\ link' \in [User -> Connection] /\ \A v \in User : link'[v].out = link[v].out
        /\ net' \in [User -> Change] /\ \A v \in User \ {u} : net'[v] = net[v]
        /\ ui' \in [User -> Coroutine] /\ \A v \in User \ {u} : ui'[v] = ui[v]
        /\ got' = [got EXCEPT ![u] = @ \cup Copies(<<p>>)]
    BY <1>1, <1>3, ReceiveStep
  <2>3. got' \in [User -> SUBSET Message]
    <3>1. <<p>> \in Seq(Sent)
      BY <2>2
    <3>2. Copies(<<p>>) \subseteq Message
      BY <3>1, CopiesType
    <3> QED  BY <1>1, <2>2, <3>2 DEF Records
  <2>4. CommandOK(u)'
    <3>1. /\ ui'[u].pc = ui[u].pc /\ ui'[u].kind = ui[u].kind /\ ui'[u].room = ui[u].room
          /\ ui'[u].msg = ui[u].msg /\ net'[u] = Stores(p)
          /\ \/ ui'[u].result = ui[u].result
             \/ ui[u].pc = "wait" /\ ui'[u].result = {p}
      BY <1>1, <1>3, ReceiveStep
    <3>2. (ui'[u].result # {} => ui'[u].pc = "wait") /\ \A a, b \in ui'[u].result : a = b
      BY <1>1, <3>1 DEF CommandOK
    <3>3. Stores(p).do # "none" => Stores(p).room \in Room
      BY <2>2, SentFields DEF Stores, Quiet
    <3>4. Stores(p).do = "none" => Stores(p) = Quiet
      BY DEF Stores, Quiet
    <3> HIDE DEF p
    <3>5. /\ net'[u].do # "none" => net'[u].room \in Room
          /\ net'[u].do = "none" => net'[u] = Quiet
      BY <3>1, <3>3, <3>4
    <3>6. /\ ui'[u].pc = "wait" => commands'[u] > 0 /\ ui'[u].kind \in {"create", "join", "post"}
          /\ ui'[u].pc = "wait" /\ ui'[u].kind = "post" => Writing(u, ui'[u].msg) /\ ui'[u].room \in Room
          /\ ui'[u].pc \in {"save", "drop"} => ui'[u].room \in Room
          /\ commands'[u] \in 0..MaxCommand[u] /\ runs'[u] \in 1..MaxRun[u]
      BY <1>1, <2>1, <3>1 DEF CommandOK
    <3> QED  BY <2>1, <3>2, <3>5, <3>6 DEF CommandOK, Writing
  <2> QED  BY <1>1, <1>2, <2>1, <2>2, <2>3, <2>4, ClientTyped DEF Records
<1>4. CASE Store(u)
  <2>1. /\ UNCHANGED <<srvVars, ui, runs, commands, posted, sealed, got, told, link, gone>>
        /\ net[u].do # "none" /\ net' = [net EXCEPT ![u] = Quiet]
    BY <1>4 DEF Store
  <2>2. net[u].room \in Room
    BY <1>1, <2>1 DEF CommandOK
  <2>3. rows' \in [User -> SUBSET Room]
    <3>1. rows \in [User -> SUBSET Room]
      BY <1>1 DEF Records
    <3>2. CASE net[u].do = "save"
      <4>1. rows' = [rows EXCEPT ![u] = @ \cup {net[u].room}]
        BY <1>4, <3>2 DEF Store
      <4> QED  BY <2>2, <3>1, <4>1
    <3>3. CASE net[u].do # "save"
      <4>1. rows' = [rows EXCEPT ![u] = @ \ {net[u].room}]
        BY <1>4, <3>3 DEF Store
      <4> QED  BY <2>2, <3>1, <4>1
    <3> QED  BY <3>2, <3>3
  <2>4. net' \in [User -> Change] /\ net'[u] = Quiet /\ \A v \in User \ {u} : net'[v] = net[v]
    BY <1>1, <2>1, Constants DEF Records
  <2>5. CommandOK(u)'
    BY <1>1, <2>1, <2>4 DEF CommandOK, Quiet, Writing
  <2> QED  BY <1>1, <1>2, <2>1, <2>3, <2>4, <2>5, ClientTyped DEF Records
<1> QED  BY <1>3, <1>4 DEF Read

LEMMA TypedStep ==
  ASSUME Typed, Newest, [RmNext]_rmVars
  PROVE  Typed'
<1>1. CASE UNCHANGED rmVars
  <2>1. UNCHANGED <<rooms, members, queue, h, crashes, audience, listed, acked, ui, net, rows, runs,
                    commands, posted, sealed, got, link, gone>>
    BY <1>1 DEF rmVars, srvVars, cliVars
  <2>2. Records'
    BY <2>1 DEF Typed, Records
  <2>3. \A u \in User : HandlerOK(u)' /\ CommandOK(u)'
    BY <2>1 DEF Typed, HandlerOK, CommandOK, Writing
  <2>4. \A u \in User : \A p \in Range(link'[u].out) : FrameOK(u, p)'
    BY <2>1 DEF Typed, FrameOK, Writing
  <2>5. \A r \in Room \ rooms' : members'[r] = {}
    BY <2>1 DEF Typed
  <2> QED  BY <2>1, <2>2, <2>3, <2>4, <2>5 DEF Typed
<1>2. ASSUME NEW u \in User, Serve(u) PROVE Typed'
  BY <1>2, FlushTyped, RoomTyped, FanTyped DEF Serve
<1>3. CASE RmNext
  BY <1>2, <1>3, CrashTyped, StartTyped, BreakTyped, CommandsTyped, ResumeTyped, ReadTyped DEF RmNext
<1> QED  BY <1>1, <1>3

-----------------------------------------------------------------------------
\* A waiting command has one frame or one answer.

\* Answers only move on, and frames are lost from the end.
LEMMA NewestKept ==
  ASSUME Typed, NEW u \in User, NewestOf(u), commands'[u] = commands[u],
         ui'[u].pc = ui[u].pc, ui'[u].kind = ui[u].kind, ui'[u].msg = ui[u].msg,
         \A p \in (h[u].out \cup Answered(u))' : IsAnswer(p) => p \in h[u].out \cup Answered(u),
         ui[u].pc = "wait" => \A p \in ui'[u].result : IsAnswer(p) /\ p.req = commands[u],
         \A i \in DOMAIN link'[u].out :
           /\ i \in DOMAIN link[u].out /\ link'[u].out[i] = link[u].out[i]
           /\ i = Len(link[u].out) => i = Len(link'[u].out),
         link[u].out = <<>> => link'[u].out = <<>>
  PROVE  NewestOf(u)'
<1>1. Wanted(u)' = Wanted(u)
  BY DEF Wanted
<1>2. \A p \in (h[u].out \cup Answered(u))' : IsAnswer(p) => p.req <= commands'[u]
  BY DEF NewestOf
<1>3. ASSUME ui[u].pc = "wait", NEW i \in DOMAIN link'[u].out, link'[u].out[i].req = commands'[u]
      PROVE  /\ i = Len(link'[u].out) /\ link'[u].out[i].type = Wanted(u)
             /\ Wanted(u) = "members" => link'[u].out[i].msg = ui'[u].msg
  BY <1>3 DEF NewestOf
<1>4. ASSUME ui[u].pc = "wait", NEW p \in (h[u].out \cup Answered(u))', IsAnswer(p),
             p.req = commands'[u]
      PROVE  link'[u].out = <<>> /\ (p.type = "list" <=> ui'[u].kind = "post")
  BY <1>4 DEF NewestOf
<1> QED  BY <1>1, <1>2, <1>3, <1>4 DEF NewestOf

\* A frame is answered.
LEMMA NewestTaken ==
  ASSUME Typed, NEW u \in User, NewestOf(u), UNCHANGED cliVars, NEW type, Takes(u, type),
         \A p \in h'[u].out : p.type = "info" \/ p.type = "list" =>
           \/ p.req = 0
           \/ p.req = Frame(u).req /\ (p.type = "list" <=> type = "members")
  PROVE  NewestOf(u)'
<1> DEFINE s == link[u].out
           f == Frame(u)
<1>1. Records /\ CommandOK(u) /\ HandlerOK(u) /\ UNCHANGED <<ui, commands>> /\ commands[u] \in Nat
  BY Fields DEF Typed, cliVars
<1>2. /\ h[u].pc = "recv" /\ link'[u].in = link[u].in /\ s # <<>> /\ link'[u].out = Tail(s)
      /\ f \in Request /\ f.type = type /\ f = s[1] /\ 1 \in DOMAIN s
      /\ f \in Range(s) /\ s \in Seq(Request)
  BY <1>1, TakesStep, Fields
<1>3. h[u].out = {} /\ Answered(u)' = Answered(u)
  BY <1>1, <1>2 DEF HandlerOK, Answered
<1>4. /\ Len(Tail(s)) = Len(s) - 1 /\ Len(s) > 0 /\ Len(s) \in Nat /\ Tail(s) \in Seq(Request)
      /\ \A i \in DOMAIN Tail(s) : i + 1 \in DOMAIN s /\ Tail(s)[i] = s[i + 1]
  BY <1>2, RangeOfTail
<1>5. f.req <= commands[u] /\ f.req \in Nat
  BY <1>2 DEF Typed, FrameOK, Request
<1>6. \A p \in (h[u].out \cup Answered(u))' : IsAnswer(p) => p.req <= commands'[u]
  BY <1>1, <1>3, <1>5 DEF NewestOf, IsAnswer
<1>7. ASSUME ui[u].pc = "wait", NEW i \in DOMAIN Tail(s), Tail(s)[i].req = commands[u]
      PROVE  /\ i = Len(Tail(s)) /\ Tail(s)[i].type = Wanted(u)
             /\ Wanted(u) = "members" => Tail(s)[i].msg = ui[u].msg
  <2>1. i + 1 \in DOMAIN s /\ Tail(s)[i] = s[i + 1] /\ i \in Nat
    BY <1>4, <1>7
  <2>2. i + 1 = Len(s) /\ s[i + 1].type = Wanted(u) /\ (Wanted(u) = "members" => s[i + 1].msg = ui[u].msg)
    BY <1>7, <2>1 DEF NewestOf
  <2> QED  BY <1>4, <2>1, <2>2
<1>8. ASSUME ui[u].pc = "wait", NEW p \in (h[u].out \cup Answered(u))', IsAnswer(p),
             p.req = commands[u]
      PROVE  link'[u].out = <<>> /\ (p.type = "list" <=> ui[u].kind = "post")
  <2>1. p \notin Answered(u)
    BY <1>2, <1>8 DEF NewestOf
  <2>2. p \in h'[u].out /\ p.req # 0
    BY <1>1, <1>3, <1>8, <2>1 DEF CommandOK
  <2>3. f.req = commands[u] /\ (p.type = "list" <=> type = "members")
    BY <1>8, <2>2 DEF IsAnswer
  <2>4. 1 = Len(s) /\ f.type = Wanted(u)
    BY <1>2, <1>8, <2>3 DEF NewestOf
  <2>5. Tail(s) = <<>>
    BY <1>4, <2>4, EmptySeq
  <2>6. type = "members" <=> ui[u].kind = "post"
    BY <1>1, <1>2, <1>8, <2>4 DEF Wanted, CommandOK
  <2> QED  BY <1>2, <2>3, <2>5, <2>6
<1>9. ui[u].pc = "wait" => \A p \in ui[u].result : IsAnswer(p) /\ p.req = commands[u]
  BY DEF NewestOf
<1> QED  BY <1>1, <1>2, <1>6, <1>7, <1>8, <1>9 DEF NewestOf, Wanted

\* A command is given.
LEMMA NewestGiven ==
  ASSUME Typed, NEW u \in User, NewestOf(u), UNCHANGED h, NEW kind, NEW r, Gives(u, kind, r),
         NEW p \in Request, Writes(u, p), ui'[u].result = {},
         ui'[u].pc = "wait" => /\ p.type = Wanted(u)'
                               /\ Wanted(u)' = "members" => p.msg = ui'[u].msg
  PROVE  NewestOf(u)'
<1> DEFINE s == link[u].out
<1>1. Records /\ s \in Seq(Request) /\ link[u].in \in Seq(Sent) /\ h[u].out \subseteq Sent
      /\ ui[u].result \subseteq Sent
  BY Fields DEF Typed
<1>2. commands'[u] = commands[u] + 1 /\ commands[u] \in Nat
  BY <1>1, GivesStep
<1>3. link'[u].in = link[u].in /\ link'[u].out \in {s, Append(s, p)}
  BY <1>1, WritesStep
<1>4. ASSUME NEW q \in (h[u].out \cup Answered(u))', IsAnswer(q)
      PROVE  q.req < commands'[u]
  <2>1. q \in h[u].out \cup Answered(u)
    BY <1>3, <1>4 DEF Answered
  <2>2. q \in Sent
    BY <1>1, <2>1, RangeType DEF Answered
  <2>3. q.req \in Nat
    BY <1>4, <2>2, SentFields DEF IsAnswer
  <2>4. q.req <= commands[u]
    BY <1>4, <2>1 DEF NewestOf
  <2> QED  BY <1>2, <2>3, <2>4
<1>5. ASSUME NEW q \in (h[u].out \cup Answered(u))', IsAnswer(q)
      PROVE  q.req <= commands'[u] /\ q.req # commands'[u]
  <2>1. q \in Sent
    BY <1>1, <1>3, <1>5, RangeType DEF Answered
  <2>2. q.req \in Nat
    BY <1>5, <2>1, SentFields DEF IsAnswer
  <2> QED  BY <1>2, <1>4, <1>5, <2>2
<1>6. ASSUME NEW i \in DOMAIN s PROVE s[i].req # commands'[u]
  <2>1. s[i] \in Range(s) /\ s[i] \in Request
    BY <1>1 DEF Range
  <2>2. s[i].req <= commands[u] /\ s[i].req \in Nat
    BY <2>1 DEF Typed, FrameOK, Request
  <2> QED  BY <1>2, <2>2
<1>7. ASSUME NEW i \in DOMAIN link'[u].out, link'[u].out[i].req = commands'[u]
      PROVE  i = Len(link'[u].out) /\ link'[u].out[i] = p
  <2>1. link'[u].out = Append(s, p)
    BY <1>3, <1>6, <1>7
  <2>2. /\ Len(Append(s, p)) = Len(s) + 1 /\ Append(s, p) \in Seq(Request)
        /\ Append(s, p)[Len(s) + 1] = p /\ \A j \in DOMAIN s : Append(s, p)[j] = s[j]
    BY <1>1, RangeOfAppend
  <2>3. i \in 1..Len(s) + 1 /\ Len(s) \in Nat /\ DOMAIN s = 1..Len(s)
    BY <1>1, <1>7, <2>1, <2>2
  <2>4. i \notin DOMAIN s
    BY <1>6, <1>7, <2>1, <2>2
  <2>5. i = Len(s) + 1
    BY <2>3, <2>4
  <2> QED  BY <2>1, <2>2, <2>5
<1>8. ui'[u].pc = "wait" =>
        \A i \in DOMAIN link'[u].out : link'[u].out[i].req = commands'[u] =>
          /\ i = Len(link'[u].out) /\ link'[u].out[i].type = Wanted(u)'
          /\ Wanted(u)' = "members" => link'[u].out[i].msg = ui'[u].msg
  BY <1>7
<1> QED  BY <1>5, <1>8 DEF NewestOf

\* No command waits.
LEMMA NewestResting ==
  ASSUME Typed, NEW u \in User, NewestOf(u), commands'[u] = commands[u],
         ui'[u].pc # "wait",
         \A p \in (h[u].out \cup Answered(u))' : IsAnswer(p) => p \in h[u].out \cup Answered(u)
  PROVE  NewestOf(u)'
BY DEF NewestOf

LEMMA NewestSame ==
  ASSUME NEW v \in User, NewestOf(v), link'[v] = link[v], h'[v] = h[v], ui'[v] = ui[v],
         commands'[v] = commands[v]
  PROVE  NewestOf(v)'
BY DEF NewestOf, Answered, Wanted

\* A packet arrives at a client, the frames and answers being what they were.
LEMMA NewestSent ==
  ASSUME Typed, Newest, NEW u \in User, NEW p \in Sent, Send(u, p), UNCHANGED cliVars,
         IsAnswer(p) => p \in h[u].out, h'[u].out \subseteq h[u].out
  PROVE  NewestOf(u)'
<1>1. Records /\ NewestOf(u) /\ UNCHANGED <<ui, commands>>
  BY DEF Typed, Newest, cliVars
<1>2. link'[u].out = link[u].out /\ Range(link'[u].in) = Range(link[u].in) \cup {p}
  <2>1. link'[u].out = link[u].out /\ link'[u].in = Append(link[u].in, p)
    BY <1>1, SendStep
  <2>2. link[u].in \in Seq(Sent)
    BY <1>1, Fields
  <2> QED  BY <2>1, <2>2, RangeOfAppend
<1>3. \A q \in (h[u].out \cup Answered(u))' : IsAnswer(q) => q \in h[u].out \cup Answered(u)
  BY <1>1, <1>2 DEF Answered
<1>4. ui[u].pc = "wait" => \A q \in ui'[u].result : IsAnswer(q) /\ q.req = commands[u]
  BY <1>1 DEF NewestOf
<1>5. /\ \A i \in DOMAIN link'[u].out :
           /\ i \in DOMAIN link[u].out /\ link'[u].out[i] = link[u].out[i]
           /\ i = Len(link[u].out) => i = Len(link'[u].out)
      /\ link[u].out = <<>> => link'[u].out = <<>>
  BY <1>2
<1>6. commands'[u] = commands[u] /\ ui'[u].pc = ui[u].pc /\ ui'[u].kind = ui[u].kind
      /\ ui'[u].msg = ui[u].msg
  BY <1>1
<1> QED  BY <1>1, <1>3, <1>4, <1>5, <1>6, NewestKept

\* The handler changes, but has no answer that it did not have.
LEMMA NewestHandled ==
  ASSUME Typed, Newest, NEW u \in User, UNCHANGED cliVars, link'[u] = link[u],
         h'[u].out \subseteq h[u].out
  PROVE  NewestOf(u)'
<1>1. NewestOf(u) /\ UNCHANGED <<ui, commands>>
  BY DEF Newest, cliVars
<1>2. \A q \in (h[u].out \cup Answered(u))' : IsAnswer(q) => q \in h[u].out \cup Answered(u)
  BY <1>1 DEF Answered
<1>3. ui[u].pc = "wait" => \A q \in ui'[u].result : IsAnswer(q) /\ q.req = commands[u]
  BY <1>1 DEF NewestOf
<1>4. /\ \A i \in DOMAIN link'[u].out :
           /\ i \in DOMAIN link[u].out /\ link'[u].out[i] = link[u].out[i]
           /\ i = Len(link[u].out) => i = Len(link'[u].out)
      /\ link[u].out = <<>> => link'[u].out = <<>>
      /\ commands'[u] = commands[u] /\ ui'[u].pc = ui[u].pc /\ ui'[u].kind = ui[u].kind
      /\ ui'[u].msg = ui[u].msg
  BY <1>1
<1> QED  BY <1>1, <1>2, <1>3, <1>4, NewestKept

LEMMA ServeNewest ==
  ASSUME Typed, Newest, NEW u \in User, Serve(u)
  PROVE  Newest'
<1>1. Records /\ HandlerOK(u) /\ NewestOf(u)
  BY DEF Typed, Newest
<1>2. SUFFICES ASSUME NEW v \in User PROVE NewestOf(v)'
  BY DEF Newest
<1>3. UNCHANGED cliVars /\ UNCHANGED <<ui, commands>>
  BY DEF Serve, FlushRead, FlushSend, FlushClear, ServeCreate, ServeJoin, Insert, ServeLeave,
     ServeMembers, ServePost, Route, FanOut, Enqueue, Delivered, Answer, End, cliVars
<1>4. ASSUME v # u, link'[v] = link[v], h'[v] = h[v] PROVE NewestOf(v)'
  BY <1>3, <1>4, NewestSame DEF Newest
<1>5. CASE FlushRead(u)
  <2>1. link' = link /\ h'[u].out = h[u].out /\ \A w \in User \ {u} : h'[w] = h[w]
    BY <1>1, <1>5, FlushReadStep DEF FlushRead
  <2> QED  BY <1>3, <1>4, <2>1, NewestHandled
<1>6. CASE FlushSend(u)
  <2>1. h'[u].out = {} /\ \A w \in User \ {u} : h'[w] = h[w]
    BY <1>6, FlushSendStep
  <2>2. CASE UNCHANGED link
    BY <1>3, <1>4, <2>1, <2>2, NewestHandled
  <2>3. CASE ~UNCHANGED link
    <3>1. PICK p \in Sent : Send(u, p) /\ p.type = "texts"
      BY <1>6, <2>3, FlushSendStep DEF Texts
    <3>2. \A w \in User \ {u} : link'[w] = link[w]
      BY <1>1, <3>1, SendStep
    <3> QED  BY <1>3, <1>4, <2>1, <3>1, <3>2, NewestSent DEF IsAnswer
  <2> QED  BY <2>2, <2>3
<1>7. CASE FlushClear(u)
  <2>1. link' = link /\ h'[u].out = {} /\ \A w \in User \ {u} : h'[w] = h[w]
    BY <1>1, <1>7, RecvStep DEF FlushClear
  <2> QED  BY <1>3, <1>4, <2>1, NewestHandled
<1>8. CASE ServeCreate(u)
  <2>1. PICK r \in Room : Answers(u, Info(Frame(u).req, TRUE, r, FALSE))
    BY <1>8 DEF ServeCreate
  <2>2. Takes(u, "create")
    BY <1>8 DEF ServeCreate
  <2>3. Info(Frame(u).req, TRUE, r, FALSE) \in Sent
    BY <1>1, <2>2, TakesStep, Packets DEF Request
  <2>4. h'[u].out = {Info(Frame(u).req, TRUE, r, FALSE)} /\ \A w \in User \ {u} : h'[w] = h[w]
    BY <1>1, <2>1, <2>3, AnswersStep
  <2>5. NewestOf(u)'
    BY <1>1, <1>3, <2>2, <2>4, NewestTaken DEF Info
  <2> QED  BY <1>1, <1>4, <2>2, <2>4, <2>5, TakesStep
<1>9. CASE ServeJoin(u)
  <2>1. Takes(u, "join")
    BY <1>9 DEF ServeJoin
  <2>2. \A w \in User \ {u} : h'[w] = h[w]
    BY <1>9, ServeJoinStep
  <2>3. \A p \in h'[u].out : p.type = "info" /\ p.req = Frame(u).req
    BY <1>9, ServeJoinStep DEF Info
  <2>4. NewestOf(u)'
    BY <1>1, <1>3, <2>1, <2>3, NewestTaken
  <2> QED  BY <1>1, <1>4, <2>1, <2>2, <2>4, TakesStep
<1>10. CASE Insert(u)
  <2>1. link' = link /\ h'[u].out = h[u].out /\ \A w \in User \ {u} : h'[w] = h[w]
    BY <1>1, <1>10, GoStep DEF Insert
  <2> QED  BY <1>3, <1>4, <2>1, NewestHandled
<1>11. CASE ServeLeave(u)
  <2> DEFINE q == Info(0, TRUE, Frame(u).room, TRUE)
  <2>1. Takes(u, "leave") /\ Answers(u, q)
    BY <1>11 DEF ServeLeave
  <2>2. Frame(u).room \in Room
    BY <1>1, <2>1, TakesStep DEF Typed, FrameOK
  <2>3. q \in Sent /\ q.req = 0
    BY <2>2, Packets DEF Info
  <2>4. h'[u].out = {q} /\ \A w \in User \ {u} : h'[w] = h[w]
    BY <1>1, <2>1, <2>3, AnswersStep
  <2>5. NewestOf(u)'
    BY <1>1, <1>3, <2>1, <2>3, <2>4, NewestTaken
  <2> QED  BY <1>1, <1>4, <2>1, <2>4, <2>5, TakesStep
<1>12. CASE ServeMembers(u)
  <2> DEFINE q == List(Frame(u).req, Present(Frame(u).room))
  <2>1. Takes(u, "members") /\ Answers(u, q)
    BY <1>12 DEF ServeMembers
  <2>2. Frame(u).room \in Room /\ Frame(u).req \in Nat
    BY <1>1, <2>1, TakesStep DEF Typed, FrameOK, Request
  <2>3. q \in Sent /\ q.req = Frame(u).req /\ q.type = "list"
    BY <1>1, <2>2, Packets DEF Records, Present, List
  <2>4. h'[u].out = {q} /\ \A w \in User \ {u} : h'[w] = h[w]
    BY <1>1, <2>1, <2>3, AnswersStep
  <2>5. NewestOf(u)'
    BY <1>1, <1>3, <2>1, <2>3, <2>4, NewestTaken
  <2> QED  BY <1>1, <1>4, <2>1, <2>4, <2>5, TakesStep
<1>13. CASE ServePost(u)
  <2>1. Takes(u, "post") /\ h[u].out = {}
    BY <1>1, <1>13 DEF ServePost, Takes, HandlerOK
  <2>2. \A w \in User \ {u} : h'[w] = h[w]
    BY <1>13, ServePostStep
  <2>3. \A p \in h'[u].out : p.type = "error"
    BY <1>13, <2>1, ServePostStep DEF Plain
  <2>4. NewestOf(u)'
    BY <1>1, <1>3, <2>1, <2>3, NewestTaken
  <2> QED  BY <1>1, <1>4, <2>1, <2>2, <2>4, TakesStep
<1>14. CASE Route(u)
  <2>1. link' = link /\ h'[u].out = h[u].out /\ \A w \in User \ {u} : h'[w] = h[w]
    BY <1>14, RouteStep DEF Route
  <2> QED  BY <1>3, <1>4, <2>1, NewestHandled
<1>15. CASE FanOut(u)
  <2>1. PICK w \in h[u].todo : Hand(u, w)
    BY <1>15 DEF FanOut
  <2>2. h'[u].out = h[u].out /\ w \in User \ {u} /\ \A x \in User \ {u} : h'[x] = h[x]
    BY <1>15, <2>1, HandStep DEF FanOut
  <2>3. CASE UNCHANGED link
    BY <1>3, <1>4, <2>2, <2>3, NewestHandled
  <2>4. CASE ~UNCHANGED link
    <3>1. PICK p \in Sent : Send(w, p) /\ p.type = "texts"
      BY <1>15, <2>1, <2>4, HandStep DEF FanOut, Texts
    <3>2. \A x \in User \ {w} : link'[x] = link[x]
      BY <1>1, <2>2, <3>1, SendStep
    <3>3. CASE v = w
      <4>1. h'[w].out = h[w].out
        BY <2>2
      <4> QED  BY <1>3, <2>2, <3>1, <3>3, <4>1, NewestSent DEF IsAnswer
    <3>4. CASE v # w
      BY <1>3, <1>4, <2>2, <3>2, <3>4, NewestHandled
    <3> QED  BY <3>3, <3>4
  <2> QED  BY <2>3, <2>4
<1>16. CASE Enqueue(u)
  <2>1. link' = link /\ h'[u].out = h[u].out /\ \A w \in User \ {u} : h'[w] = h[w]
    BY <1>16, EnqueueStep DEF Enqueue
  <2> QED  BY <1>3, <1>4, <2>1, NewestHandled
<1>17. CASE Delivered(u)
  <2>1. h'[u].out = {} /\ \A w \in User \ {u} : h'[w] = h[w]
    BY <1>17, DeliveredStep
  <2>2. CASE UNCHANGED link
    BY <1>3, <1>4, <2>1, <2>2, NewestHandled
  <2>3. CASE ~UNCHANGED link
    <3>1. PICK p \in Sent : Send(u, p) /\ p.type = "delivery"
      BY <1>17, <2>3, DeliveredStep DEF Plain
    <3>2. \A w \in User \ {u} : link'[w] = link[w]
      BY <1>1, <3>1, SendStep
    <3> QED  BY <1>3, <1>4, <2>1, <3>1, <3>2, NewestSent DEF IsAnswer
  <2> QED  BY <2>2, <2>3
<1>18. CASE Answer(u)
  <2>1. h'[u].out = {} /\ \A w \in User \ {u} : h'[w] = h[w]
    BY <1>18, AnswerStep
  <2>2. CASE UNCHANGED link
    BY <1>3, <1>4, <2>1, <2>2, NewestHandled
  <2>3. CASE ~UNCHANGED link
    <3>1. PICK p \in Sent : Send(u, p) /\ p \in h[u].out
      BY <1>18, <2>3, AnswerStep
    <3>2. \A w \in User \ {u} : link'[w] = link[w]
      BY <1>1, <3>1, SendStep
    <3> QED  BY <1>3, <1>4, <2>1, <3>1, <3>2, NewestSent
  <2> QED  BY <2>2, <2>3
<1>19. CASE End(u)
  <2>1. /\ h'[u].out = {} /\ \A w \in User \ {u} : h'[w] = h[w] /\ link'[w] = link[w]
        /\ link'[u].in = link[u].in /\ link'[u].out = <<>>
    BY <1>1, <1>19, EndStep
  <2>2. \A q \in (h[u].out \cup Answered(u))' : IsAnswer(q) => q \in h[u].out \cup Answered(u)
    BY <1>3, <2>1 DEF Answered
  <2>3. ui[u].pc = "wait" => \A q \in ui'[u].result : IsAnswer(q) /\ q.req = commands[u]
    BY <1>1, <1>3 DEF NewestOf
  <2>4. commands'[u] = commands[u] /\ ui'[u].pc = ui[u].pc /\ ui'[u].kind = ui[u].kind
        /\ ui'[u].msg = ui[u].msg
    BY <1>3
  <2>5. DOMAIN link'[u].out = {}
    BY <2>1
  <2>6. NewestOf(u)'
    BY <1>1, <2>1, <2>2, <2>3, <2>4, <2>5, NewestKept
  <2> QED  BY <1>4, <2>1, <2>6
<1> QED
  BY <1>5, <1>6, <1>7, <1>8, <1>9, <1>10, <1>11, <1>12, <1>13, <1>14, <1>15, <1>16, <1>17, <1>18,
     <1>19 DEF Serve

LEMMA CrashNewest ==
  ASSUME Typed, Newest, Crash
  PROVE  Newest'
<1> SUFFICES ASSUME NEW u \in User PROVE NewestOf(u)'
  BY DEF Newest
<1>1. Records /\ NewestOf(u) /\ UNCHANGED <<ui, commands>>
  BY DEF Typed, Newest, Crash, cliVars
<1>2. h'[u].out = {} /\ link'[u].in = link[u].in /\ link'[u].out = <<>>
  BY <1>1, CrashStep
<1>3. \A q \in (h[u].out \cup Answered(u))' : IsAnswer(q) => q \in h[u].out \cup Answered(u)
  BY <1>1, <1>2 DEF Answered
<1>4. ui[u].pc = "wait" => \A q \in ui'[u].result : IsAnswer(q) /\ q.req = commands[u]
  BY <1>1 DEF NewestOf
<1>5. DOMAIN link'[u].out = {}
  BY <1>2
<1>6. commands'[u] = commands[u] /\ ui'[u].pc = ui[u].pc /\ ui'[u].kind = ui[u].kind
      /\ ui'[u].msg = ui[u].msg
  BY <1>1
<1> QED  BY <1>1, <1>2, <1>3, <1>4, <1>5, <1>6, NewestKept

LEMMA ConnectionNewest ==
  ASSUME Typed, Newest, NEW u \in User, Start(u) \/ Break(u)
  PROVE  Newest'
<1>1. Records /\ NewestOf(u)
  BY DEF Typed, Newest
<1>2. SUFFICES ASSUME NEW v \in User PROVE NewestOf(v)'
  BY DEF Newest
<1>3. CASE Start(u)
  <2>0. UNCHANGED commands
    BY <1>3 DEF Start
  <2>1. /\ h'[u].out = h[u].out /\ link'[u].in = <<>> /\ ui'[u] = Idle
        /\ \A w \in User \ {u} : h'[w] = h[w] /\ link'[w] = link[w] /\ ui'[w] = ui[w]
    BY <1>1, <1>3, StartStep
  <2>2. (Answered(u))' = {}
    BY <2>1, RangeOfNone DEF Answered, Idle
  <2>3. ui'[u].pc # "wait"
    BY <2>1 DEF Idle
  <2>4. NewestOf(u)'
    BY <1>1, <2>0, <2>1, <2>2, <2>3, NewestResting
  <2> QED  BY <2>0, <2>1, <2>4, NewestSame DEF Newest
<1>4. CASE Break(u)
  <2>1. UNCHANGED <<h, ui, commands>>
    BY <1>4 DEF Break, srvVars, cliVars
  <2>2. PICK i \in 0..Len(link[u].in), o \in 0..Len(link[u].out) :
          /\ \A w \in User \ {u} : link'[w] = link[w]
          /\ link'[u].in = SubSeq(link[u].in, 1, i) /\ link'[u].out = SubSeq(link[u].out, 1, o)
    BY <1>1, <1>4, BreakStep
  <2>3. link[u].in \in Seq(Sent) /\ link[u].out \in Seq(Request)
    BY <1>1, Fields
  <2>4. Range(link'[u].in) \subseteq Range(link[u].in)
    BY <2>2, <2>3, RangeOfParts
  <2>5. /\ link'[u].out \in Seq(Request) /\ Len(link'[u].out) = o
        /\ \A j \in DOMAIN link'[u].out : j \in DOMAIN link[u].out /\ link'[u].out[j] = link[u].out[j]
    BY <2>2, <2>3, RangeOfParts
  <2>6. /\ \A j \in DOMAIN link'[u].out :
             /\ j \in DOMAIN link[u].out /\ link'[u].out[j] = link[u].out[j]
             /\ j = Len(link[u].out) => j = Len(link'[u].out)
        /\ link[u].out = <<>> => link'[u].out = <<>>
    BY <2>2, <2>3, <2>5, EmptySeq
  <2>7. \A q \in (h[u].out \cup Answered(u))' : IsAnswer(q) => q \in h[u].out \cup Answered(u)
    BY <2>1, <2>4 DEF Answered
  <2>8. ui[u].pc = "wait" => \A q \in ui'[u].result : IsAnswer(q) /\ q.req = commands[u]
    BY <1>1, <2>1 DEF NewestOf
  <2>9. commands'[u] = commands[u] /\ ui'[u].pc = ui[u].pc /\ ui'[u].kind = ui[u].kind
        /\ ui'[u].msg = ui[u].msg
    BY <2>1
  <2>10. NewestOf(u)'
    BY <1>1, <2>6, <2>7, <2>8, <2>9, NewestKept
  <2> QED  BY <2>1, <2>2, <2>10, NewestSame DEF Newest
<1> QED  BY <1>3, <1>4

LEMMA CommandNewest ==
  ASSUME Typed, Newest, NEW u \in User, Command(u)
  PROVE  Newest'
<1>1. Records /\ NewestOf(u) /\ CommandOK(u)
  BY DEF Typed, Newest
<1>2. ASSUME NEW kind, NEW r, Gives(u, kind, r), NEW p \in Request, Writes(u, p), UNCHANGED h,
             \A w \in User \ {u} : ui'[w] = ui[w], NewestOf(u)'
      PROVE  Newest'
  <2>1. \A w \in User \ {u} : link'[w] = link[w] /\ commands'[w] = commands[w]
    BY <1>1, <1>2, GivesStep, WritesStep
  <2> QED  BY <1>2, <2>1, NewestSame DEF Newest
<1>3. CASE Create(u)
  <2>1. Gives(u, "create", NoRoom) /\ Waits(u, "create", NoRoom, NoMessage) /\ UNCHANGED h
    BY <1>3 DEF Create, srvVars
  <2>2. PICK n \in Nat : n = commands'[u]
    BY <1>1, <2>1, GivesStep
  <2>3. PICK p \in Request : Writes(u, p) /\ p.type = "create"
    BY <1>3, <2>2, AskType DEF Create
  <2>4. /\ \A w \in User \ {u} : ui'[w] = ui[w]
        /\ ui'[u].kind = "create" /\ ui'[u].result = {}
    BY <1>1, <2>1, WaitsStep DEF Kinds
  <2>5. NewestOf(u)'
    BY <1>1, <2>1, <2>3, <2>4, NewestGiven DEF Wanted
  <2> QED  BY <1>2, <2>1, <2>3, <2>4, <2>5
<1>4. ASSUME NEW r \in Room, Join(u, r) PROVE Newest'
  <2>1. Gives(u, "join", r) /\ Waits(u, "join", r, NoMessage) /\ UNCHANGED h
    BY <1>4 DEF Join, srvVars
  <2>2. PICK n \in Nat : n = commands'[u]
    BY <1>1, <2>1, GivesStep
  <2>3. PICK p \in Request : Writes(u, p) /\ p.type = "join"
    BY <1>4, <2>2, AskType DEF Join
  <2>4. /\ \A w \in User \ {u} : ui'[w] = ui[w]
        /\ ui'[u].kind = "join" /\ ui'[u].result = {}
    BY <1>1, <2>1, WaitsStep DEF Kinds
  <2>5. NewestOf(u)'
    BY <1>1, <2>1, <2>3, <2>4, NewestGiven DEF Wanted
  <2> QED  BY <1>2, <2>1, <2>3, <2>4, <2>5
<1>5. ASSUME NEW r \in Room, Leave(u, r) PROVE Newest'
  <2>1. Gives(u, "leave", r) /\ UNCHANGED h
        /\ ui' = [ui EXCEPT ![u] = [Idle EXCEPT !.pc = "drop", !.room = r]]
    BY <1>5 DEF Leave, srvVars
  <2>2. PICK p \in Request : Writes(u, p)
    BY <1>5, AskType DEF Leave
  <2>3. /\ \A w \in User \ {u} : ui'[w] = ui[w]
        /\ ui'[u].pc = "drop" /\ ui'[u].result = {}
    BY <1>1, <2>1, TurnStep
  <2>4. NewestOf(u)'
    BY <1>1, <2>1, <2>2, <2>3, NewestGiven
  <2> QED  BY <1>2, <2>1, <2>2, <2>3, <2>4
<1>6. ASSUME NEW m \in Message, NEW r \in Room, Post(u, m, r) PROVE Newest'
  <2>1. Gives(u, "post", r) /\ UNCHANGED h
    BY <1>6 DEF Post, srvVars
  <2>2. CASE Knows[u] = {}
    <3>1. UNCHANGED ui
      BY <1>6, <2>2 DEF Post
    <3>2. PICK p \in Request : Writes(u, p)
      BY <1>6, <2>2, AskType DEF Post
    <3>3. ui[u].pc = "idle" /\ ui[u].result = {}
      BY <1>1, <2>1, GivesStep DEF CommandOK
    <3>4. NewestOf(u)'
      BY <1>1, <2>1, <3>1, <3>2, <3>3, NewestGiven
    <3> QED  BY <1>2, <2>1, <3>1, <3>2, <3>4
  <2>3. CASE Knows[u] # {}
    <3>1. Waits(u, "post", r, m)
      BY <1>6, <2>3 DEF Post
    <3>2. PICK n \in Nat : n = commands'[u]
      BY <1>1, <2>1, GivesStep
    <3>3. PICK p \in Request : Writes(u, p) /\ p.type = "members" /\ p.msg = m
      BY <1>6, <2>3, <3>2, AskType DEF Post
    <3>4. /\ \A w \in User \ {u} : ui'[w] = ui[w]
          /\ ui'[u].kind = "post" /\ ui'[u].msg = m /\ ui'[u].result = {}
      BY <1>1, <3>1, WaitsStep DEF Kinds
    <3>5. NewestOf(u)'
      BY <1>1, <2>1, <3>3, <3>4, NewestGiven DEF Wanted
    <3> QED  BY <1>2, <2>1, <3>3, <3>4, <3>5
  <2> QED  BY <2>2, <2>3
<1> QED  BY <1>3, <1>4, <1>5, <1>6 DEF Command

\* No command waits any more at a client, whatever it wrote.
LEMMA NewestEnded ==
  ASSUME Typed, Newest, NEW u \in User, UNCHANGED <<h, commands>>,
         \A w \in User \ {u} : link'[w] = link[w] /\ ui'[w] = ui[w],
         ui'[u].pc # "wait", ui'[u].result = {}, Range(link'[u].in) \subseteq Range(link[u].in)
  PROVE  Newest'
<1>1. NewestOf(u)
  BY DEF Newest
<1>2. \A q \in (h[u].out \cup Answered(u))' : IsAnswer(q) => q \in h[u].out \cup Answered(u)
  BY DEF Answered
<1>3. NewestOf(u)'
  BY <1>1, <1>2, NewestResting
<1> QED  BY <1>3, NewestSame DEF Newest

LEMMA ResumeNewest ==
  ASSUME Typed, Newest, NEW u \in User, Resume(u)
  PROVE  Newest'
<1>1. Records /\ NewestOf(u) /\ CommandOK(u)
  BY DEF Typed, Newest
<1>2. UNCHANGED <<h, commands>>
  BY DEF Resume, Conclude, Timeout, Keep, srvVars
<1>3. ASSUME ui[u].pc = "wait", ui[u].kind = "post", NEW list, Transmit(u, list) PROVE Newest'
  <2>1. PICK p \in Request : Writes(u, p)
    BY <1>3, TransmitStep
  <2>2. link'[u].in = link[u].in /\ \A w \in User \ {u} : link'[w] = link[w]
    BY <1>1, <2>1, WritesStep
  <2>3. ui'[u].pc = "idle" /\ ui'[u].result = {} /\ \A w \in User \ {u} : ui'[w] = ui[w]
    BY <1>3, TransmitStep
  <2> QED  BY <1>2, <2>2, <2>3, NewestEnded
<1>4. CASE Conclude(u)
  <2>1. CASE ui[u].kind = "post"
    <3>1. ui[u].pc = "wait" /\ \E p \in ui[u].result : Transmit(u, p.members)
      BY <1>4, <2>1 DEF Conclude
    <3> QED  BY <1>3, <2>1, <3>1
  <2>2. CASE ui[u].kind # "post"
    <3>1. /\ UNCHANGED link /\ \A v \in User \ {u} : ui'[v] = ui[v]
          /\ ui'[u].result = {} /\ ui'[u].pc \in {"save", "idle"}
      BY <1>4, <2>2, ConcludeStep
    <3> QED  BY <1>2, <3>1, NewestEnded
  <2> QED  BY <2>1, <2>2
<1>5. CASE Timeout(u)
  <2>1. CASE ui[u].kind = "create"
    <3>1. Exit(u)
      BY <1>5, <2>1 DEF Timeout
    <3>2. /\ \A v \in User \ {u} : ui'[v] = ui[v] /\ link'[v] = link[v]
          /\ ui'[u].pc = "off" /\ ui'[u].result = {} /\ Range(link'[u].in) = {}
      BY <1>1, <3>1, ExitStep, RangeOfNone
    <3> QED  BY <1>2, <3>2, NewestEnded
  <2>2. CASE ui[u].kind = "join"
    <3>1. Rests(u) /\ UNCHANGED link
      BY <1>5, <2>2 DEF Timeout
    <3>2. /\ \A v \in User \ {u} : ui'[v] = ui[v]
          /\ ui'[u].pc = "idle" /\ ui'[u].result = {}
      BY <1>1, <3>1, RestsStep
    <3> QED  BY <1>2, <3>1, <3>2, NewestEnded
  <2>3. CASE ui[u].kind = "post"
    <3>1. ui[u].pc = "wait" /\ Transmit(u, {})
      BY <1>5, <2>3 DEF Timeout
    <3> QED  BY <1>3, <2>3, <3>1
  <2> QED  BY <1>5, <2>1, <2>2, <2>3 DEF Timeout
<1>6. CASE Keep(u)
  <2>1. Rests(u) /\ UNCHANGED link
    BY <1>6 DEF Keep
  <2>2. /\ \A v \in User \ {u} : ui'[v] = ui[v]
        /\ ui'[u].pc = "idle" /\ ui'[u].result = {}
    BY <1>1, <2>1, RestsStep
  <2> QED  BY <1>2, <2>1, <2>2, NewestEnded
<1> QED  BY <1>4, <1>5, <1>6 DEF Resume

LEMMA ReadNewest ==
  ASSUME Typed, Newest, NEW u \in User, Read(u)
  PROVE  Newest'
<1>1. Records /\ NewestOf(u)
  BY DEF Typed, Newest
<1>2. UNCHANGED <<h, commands>>
  BY DEF Read, Receive, Store, srvVars
<1>3. CASE Receive(u)
  <2> DEFINE p == Head(link[u].in)
  <2>1. /\ Range(link[u].in) = {p} \cup Range(link'[u].in) /\ link'[u].out = link[u].out
        /\ \A w \in User \ {u} : link'[w] = link[w] /\ ui'[w] = ui[w]
        /\ ui'[u].pc = ui[u].pc /\ ui'[u].kind = ui[u].kind /\ ui'[u].msg = ui[u].msg
        /\ \/ ui'[u].result = ui[u].result
           \/ ui[u].pc = "wait" /\ Resolves(u, p) /\ ui'[u].result = {p}
    BY <1>1, <1>3, ReceiveStep
  <2>2. \A q \in (h[u].out \cup Answered(u))' : IsAnswer(q) => q \in h[u].out \cup Answered(u)
    BY <1>2, <2>1 DEF Answered
  <2>3. ui[u].pc = "wait" => \A q \in ui'[u].result : IsAnswer(q) /\ q.req = commands[u]
    BY <1>1, <2>1 DEF NewestOf, Resolves, IsAnswer
  <2>4. /\ \A i \in DOMAIN link'[u].out :
             /\ i \in DOMAIN link[u].out /\ link'[u].out[i] = link[u].out[i]
             /\ i = Len(link[u].out) => i = Len(link'[u].out)
        /\ link[u].out = <<>> => link'[u].out = <<>>
        /\ commands'[u] = commands[u]
    BY <1>2, <2>1
  <2> HIDE DEF p
  <2>5. NewestOf(u)'
    BY <1>1, <2>1, <2>2, <2>3, <2>4, NewestKept
  <2> QED  BY <1>2, <2>1, <2>5, NewestSame DEF Newest
<1>4. CASE Store(u)
  BY <1>2, <1>4, NewestSame DEF Newest, Store
<1> QED  BY <1>3, <1>4 DEF Read

LEMMA RmInitNewest == RmInit => Newest
<1> SUFFICES ASSUME RmInit, NEW u \in User PROVE NewestOf(u)
  BY DEF Newest
<1>1. h[u].out = {} /\ ui[u].result = {} /\ ui[u].pc = "idle" /\ Range(link[u].in) = {}
  BY Constants, RangeOfNone DEF RmInit, Recv, Idle
<1> QED  BY <1>1 DEF NewestOf, Answered

LEMMA NewestStep ==
  ASSUME Typed, Newest, [RmNext]_rmVars
  PROVE  Newest'
<1>1. CASE UNCHANGED rmVars
  BY <1>1, NewestSame DEF Newest, rmVars, srvVars, cliVars
<1>2. CASE RmNext
  BY <1>2, CrashNewest, ConnectionNewest, CommandNewest, ServeNewest, ResumeNewest, ReadNewest
     DEF RmNext
<1> QED  BY <1>1, <1>2

\* The invariant that all further ones rest on.
LEMMA TypedHolds == RmSpec => [](Typed /\ Newest)
<1>1. RmInit => Typed /\ Newest
  BY RmInitTyped, RmInitNewest
<1>2. Typed /\ Newest /\ [RmNext]_rmVars => (Typed /\ Newest)'
  BY TypedStep, NewestStep
<1> QED  BY <1>1, <1>2, PTL DEF RmSpec

\* The tables, the handlers and the packets under way keep their types: rooms.py never
\* lists a member of a room it does not have, and only a handler that inserts or answers
\* (ws_server.py) and a command that waits (RoomHandler._pending) have a result.
THEOREM RoomsTypeCorrect == RmSpec => []RmTypeOK
<1>1. Typed => RmTypeOK
  <2> SUFFICES ASSUME Typed PROVE RmTypeOK
    OBVIOUS
  <2>1. Records
    BY DEF Typed
  <2>2. ASSUME NEW u \in User, NEW i \in DOMAIN link[u].in PROVE link[u].in[i] \in Sent
    BY <2>1, <2>2, Fields
  <2>3. ASSUME NEW u \in User
        PROVE  /\ h[u].pc \in {"fanout", "enqueue"} \/ h[u].at = {}
               /\ (h[u].out # {}) = (h[u].pc \in {"insert", "answer"})
               /\ ui[u].result # {} => ui[u].pc = "wait"
               /\ commands[u] \in 0..MaxCommand[u] /\ runs[u] \in 0..MaxRun[u]
    BY <2>3 DEF Typed, HandlerOK, CommandOK
  <2>4. ASSUME NEW u \in User
        PROVE  /\ h[u].out \subseteq Sent /\ ui[u].result \subseteq Sent
               /\ net[u].do \in {"none", "save", "delete"}
    BY <2>1, <2>4, Fields DEF Change
  <2> QED  BY <2>1, <2>2, <2>3, <2>4 DEF Typed, Records, RmTypeOK
<1> QED  BY <1>1, TypedHolds, PTL

-----------------------------------------------------------------------------
\* Answers are made by five statements of a handler, and then only move on.

Made(u, p) ==
  \/ /\ ServeCreate(u) /\ p.type = "info" /\ p.req = Frame(u).req
     /\ u \in members'[p.room] /\ p.room \in Room
  \/ ServeJoin(u) /\ p.type = "info" /\ ~p.ok /\ p.req = Frame(u).req
  \/ Insert(u) /\ p \in h[u].out
  \/ ServeLeave(u) /\ p.type = "info" /\ p.req = 0
  \/ ServeMembers(u) /\ p.type = "list" /\ p.req = Frame(u).req /\ p.members = members[Frame(u).room]

LEMMA KnownSame ==
  ASSUME NEW v \in User, link'[v] = link[v], h'[v] = h[v], ui'[v] = ui[v]
  PROVE  Known(v)' = Known(v)
BY DEF Known, Answering, Answered

LEMMA KnownSent ==
  ASSUME Records, NEW u \in User, NEW p \in Sent, Send(u, p), UNCHANGED ui,
         Answering(u)' \subseteq Answering(u)
  PROVE  Known(u)' \subseteq Known(u) \cup {p}
<1>1. link'[u].in = Append(link[u].in, p) /\ link[u].in \in Seq(Sent)
  BY SendStep, Fields
<1>2. Range(link'[u].in) = Range(link[u].in) \cup {p}
  BY <1>1, RangeOfAppend
<1> QED  BY <1>2 DEF Known, Answered

LEMMA ServeAnswers ==
  ASSUME Typed, NEW u \in User, Serve(u), NEW v \in User, NEW p \in Known(v)', IsAnswer(p)
  PROVE  p \in Known(v) \/ (v = u /\ Made(u, p))
<1>1. Records /\ HandlerOK(u)
  BY DEF Typed
<1>2. UNCHANGED <<ui, commands>>
  BY DEF Serve, FlushRead, FlushSend, FlushClear, ServeCreate, ServeJoin, Insert, ServeLeave,
     ServeMembers, ServePost, Route, FanOut, Enqueue, Delivered, Answer, End, cliVars
<1>3. ASSUME v # u, link'[v] = link[v], h'[v] = h[v] PROVE p \in Known(v)
  BY <1>2, <1>3, KnownSame
<1>4. ASSUME NEW type, Takes(u, type), v = u, p \notin h'[u].out PROVE p \in Known(v)
  <2>1. link'[u].in = link[u].in
    BY <1>1, <1>4, TakesStep
  <2> QED  BY <1>2, <1>4, <2>1 DEF Known, Answering, Answered
<1>5. ASSUME h'[u].out = {}, link'[u].in = link[u].in, v = u PROVE p \in Known(v)
  BY <1>2, <1>5 DEF Known, Answering, Answered
<1>6. CASE FlushRead(u) \/ FlushClear(u) \/ Route(u) \/ Enqueue(u)
  <2>1. link' = link /\ (\A w \in User \ {u} : h'[w] = h[w]) /\ h'[u].pc # "answer"
    BY <1>1, <1>6, FlushReadStep, RecvStep, RouteStep, EnqueueStep
       DEF FlushRead, FlushClear, Route, Enqueue
  <2> QED  BY <1>2, <1>3, <2>1 DEF Known, Answering, Answered
<1>7. CASE FlushSend(u) \/ Delivered(u)
  <2>1. h'[u].out = {} /\ \A w \in User \ {u} : h'[w] = h[w]
    BY <1>7, FlushSendStep, DeliveredStep
  <2>2. CASE UNCHANGED link
    <3>1. v = u => p \in Known(v)
      BY <1>5, <2>1, <2>2
    <3> QED  BY <1>3, <2>1, <2>2, <3>1
  <2>3. CASE ~UNCHANGED link
    <3>1. PICK q \in Sent : Send(u, q) /\ ~IsAnswer(q)
      BY <1>7, <2>3, FlushSendStep, DeliveredStep DEF Texts, Plain, IsAnswer
    <3>2. \A w \in User \ {u} : link'[w] = link[w]
      BY <1>1, <3>1, SendStep
    <3>3. Answering(u)' = {}
      BY <2>1 DEF Answering
    <3>4. Known(u)' \subseteq Known(u) \cup {q}
      BY <1>1, <1>2, <3>1, <3>3, KnownSent
    <3>5. v = u => p \in Known(v)
      BY <3>1, <3>3, <3>4
    <3> QED  BY <1>3, <2>1, <3>2, <3>5
  <2> QED  BY <2>2, <2>3
<1>8. CASE ServeCreate(u)
  <2>1. PICK r \in Room \ rooms : /\ Answers(u, Info(Frame(u).req, TRUE, r, FALSE))
                                  /\ members' = [members EXCEPT ![r] = {u}]
    BY <1>8 DEF ServeCreate
  <2>2. Takes(u, "create")
    BY <1>8 DEF ServeCreate
  <2>3. Info(Frame(u).req, TRUE, r, FALSE) \in Sent
    BY <1>1, <2>2, TakesStep, Packets DEF Request
  <2>4. h'[u].out = {Info(Frame(u).req, TRUE, r, FALSE)} /\ \A w \in User \ {u} : h'[w] = h[w]
    BY <1>1, <2>1, <2>3, AnswersStep
  <2>5. u \in members'[r]
    BY <1>1, <2>1 DEF Records
  <2>6. p \in h'[u].out => Made(u, p)
    BY <1>8, <2>4, <2>5 DEF Made, Info
  <2>7. ASSUME v = u PROVE p \in Known(v) \/ Made(u, p)
    BY <1>4, <2>2, <2>6, <2>7
  <2>8. ASSUME v # u PROVE p \in Known(v)
    BY <1>1, <1>3, <2>2, <2>4, <2>8, TakesStep
  <2> QED  BY <2>7, <2>8
<1>9. CASE ServeJoin(u)
  <2>1. Takes(u, "join")
    BY <1>9 DEF ServeJoin
  <2>2. \A w \in User \ {u} : h'[w] = h[w]
    BY <1>9, ServeJoinStep
  <2>3. h'[u].pc = "insert" \/ h'[u].out = {Info(Frame(u).req, FALSE, Frame(u).room, FALSE)}
    BY <1>9, ServeJoinStep
  <2>4. ASSUME v = u PROVE p \in Known(v) \/ Made(u, p)
    <3>1. link'[u].in = link[u].in
      BY <1>1, <2>1, TakesStep
    <3>2. p \in Answered(u) \/ p \in Answering(u)'
      BY <1>2, <2>4, <3>1 DEF Known, Answered
    <3>3. p \in Answering(u)' => p = Info(Frame(u).req, FALSE, Frame(u).room, FALSE)
      BY <2>3 DEF Answering
    <3> QED  BY <1>9, <2>4, <3>2, <3>3 DEF Known, Made, Info
  <2> QED  BY <1>1, <1>3, <2>1, <2>2, <2>4, TakesStep
<1>10. CASE Insert(u)
  <2>1. link' = link /\ h'[u].out = h[u].out /\ \A w \in User \ {u} : h'[w] = h[w]
    BY <1>1, <1>10, GoStep DEF Insert
  <2>2. Known(u)' \subseteq Known(u) \cup h[u].out
    BY <1>2, <2>1 DEF Known, Answering, Answered
  <2> QED  BY <1>3, <1>10, <2>1, <2>2 DEF Made
<1>11. CASE ServeLeave(u)
  <2> DEFINE q == Info(0, TRUE, Frame(u).room, TRUE)
  <2>1. Takes(u, "leave") /\ Answers(u, q)
    BY <1>11 DEF ServeLeave
  <2>2. Frame(u).room \in Room
    BY <1>1, <2>1, TakesStep DEF Typed, FrameOK
  <2>3. q \in Sent /\ q.req = 0 /\ q.type = "info"
    BY <2>2, Packets DEF Info
  <2>4. h'[u].out = {q} /\ \A w \in User \ {u} : h'[w] = h[w]
    BY <1>1, <2>1, <2>3, AnswersStep
  <2>5. p \in h'[u].out => Made(u, p)
    BY <1>11, <2>3, <2>4 DEF Made
  <2>6. ASSUME v = u PROVE p \in Known(v) \/ Made(u, p)
    BY <1>4, <2>1, <2>5, <2>6
  <2>7. ASSUME v # u PROVE p \in Known(v)
    BY <1>1, <1>3, <2>1, <2>4, <2>7, TakesStep
  <2> QED  BY <2>6, <2>7
<1>12. CASE ServeMembers(u)
  <2> DEFINE q == List(Frame(u).req, Present(Frame(u).room))
  <2>1. Takes(u, "members") /\ Answers(u, q)
    BY <1>12 DEF ServeMembers
  <2>2. Frame(u).room \in Room /\ Frame(u).req \in Nat
    BY <1>1, <2>1, TakesStep DEF Typed, FrameOK, Request
  <2>3. q \in Sent
    BY <1>1, <2>2, Packets DEF Records, Present
  <2>4. q.req = Frame(u).req /\ q.type = "list" /\ q.members = members[Frame(u).room]
    BY DEF List, Present
  <2>5. h'[u].out = {q} /\ \A w \in User \ {u} : h'[w] = h[w]
    BY <1>1, <2>1, <2>3, AnswersStep
  <2>6. p \in h'[u].out => Made(u, p)
    BY <1>12, <2>4, <2>5 DEF Made
  <2>7. ASSUME v = u PROVE p \in Known(v) \/ Made(u, p)
    BY <1>4, <2>1, <2>6, <2>7
  <2>8. ASSUME v # u PROVE p \in Known(v)
    BY <1>1, <1>3, <2>1, <2>5, <2>8, TakesStep
  <2> QED  BY <2>7, <2>8
<1>13. CASE ServePost(u)
  <2>1. Takes(u, "post") /\ h[u].out = {}
    BY <1>1, <1>13 DEF ServePost, Takes, HandlerOK
  <2>2. \A w \in User \ {u} : h'[w] = h[w]
    BY <1>13, ServePostStep
  <2>3. \A q \in h'[u].out : ~IsAnswer(q)
    BY <1>13, <2>1, ServePostStep DEF Plain, IsAnswer
  <2> QED  BY <1>1, <1>3, <1>4, <2>1, <2>2, <2>3, TakesStep
<1>14. CASE FanOut(u)
  <2>1. PICK w \in h[u].todo : Hand(u, w)
    BY <1>14 DEF FanOut
  <2>2. h[u].pc = "fanout"
    BY <1>14 DEF FanOut
  <2>3. /\ h'[u].pc # "answer" /\ w \in User \ {u} /\ \A x \in User \ {u} : h'[x] = h[x]
    BY <2>1, <2>2, HandStep
  <2>4. CASE UNCHANGED link
    BY <1>2, <1>3, <2>3, <2>4 DEF Known, Answering, Answered
  <2>5. CASE ~UNCHANGED link
    <3>1. PICK q \in Sent : Send(w, q) /\ ~IsAnswer(q)
      BY <2>1, <2>2, <2>5, HandStep DEF Texts, IsAnswer
    <3>2. \A x \in User \ {w} : link'[x] = link[x]
      BY <1>1, <2>3, <3>1, SendStep
    <3>3. CASE v = w
      <4>1. Answering(w)' = Answering(w)
        BY <2>3 DEF Answering
      <4>2. Known(w)' \subseteq Known(w) \cup {q}
        BY <1>1, <1>2, <2>3, <3>1, <4>1, KnownSent
      <4> QED  BY <3>1, <3>3, <4>2
    <3>4. CASE v # w
      BY <1>2, <1>3, <2>3, <3>2, <3>4 DEF Known, Answering, Answered
    <3> QED  BY <3>3, <3>4
  <2> QED  BY <2>4, <2>5
<1>15. CASE Answer(u)
  <2>1. h[u].pc = "answer" /\ h'[u].out = {} /\ \A w \in User \ {u} : h'[w] = h[w]
    BY <1>15, AnswerStep DEF Answer
  <2>2. CASE UNCHANGED link
    BY <1>3, <1>5, <2>1, <2>2
  <2>3. CASE ~UNCHANGED link
    <3>1. PICK q \in Sent : Send(u, q) /\ q \in h[u].out
      BY <1>15, <2>3, AnswerStep
    <3>2. \A w \in User \ {u} : link'[w] = link[w]
      BY <1>1, <3>1, SendStep
    <3>3. Answering(u)' = {} /\ q \in Known(u)
      BY <2>1, <3>1 DEF Answering, Known
    <3>4. Known(u)' \subseteq Known(u) \cup {q}
      BY <1>1, <1>2, <3>1, <3>3, KnownSent
    <3>5. v = u => p \in Known(v)
      BY <3>1, <3>3, <3>4
    <3> QED  BY <1>3, <2>1, <3>2, <3>5
  <2> QED  BY <2>2, <2>3
<1>16. CASE End(u)
  <2>1. /\ h'[u].out = {} /\ \A w \in User \ {u} : h'[w] = h[w] /\ link'[w] = link[w]
        /\ link'[u].in = link[u].in
    BY <1>1, <1>16, EndStep
  <2> QED  BY <1>3, <1>5, <2>1
<1> QED
  BY <1>6, <1>7, <1>8, <1>9, <1>10, <1>11, <1>12, <1>13, <1>14, <1>15, <1>16 DEF Serve

LEMMA AnswersMove ==
  ASSUME Typed, Newest, [RmNext]_rmVars, NEW v \in User, NEW p \in Known(v)', IsAnswer(p)
  PROVE  p \in Known(v) \/ Made(v, p)
<1>1. Records
  BY DEF Typed
<1>2. ASSUME link'[v] = link[v], h'[v] = h[v], ui'[v] = ui[v] PROVE p \in Known(v)
  BY <1>2, KnownSame
<1>3. CASE UNCHANGED rmVars
  BY <1>2, <1>3 DEF rmVars, srvVars, cliVars
<1>4. CASE Crash
  <2>1. h'[v].out = {} /\ link'[v].in = link[v].in /\ UNCHANGED ui
    BY <1>1, <1>4, CrashStep DEF Crash, cliVars
  <2> QED  BY <2>1 DEF Known, Answering, Answered
<1>5. ASSUME NEW u \in User, Serve(u) PROVE p \in Known(v) \/ Made(v, p)
  BY <1>5, ServeAnswers
<1>6. ASSUME NEW u \in User, UNCHANGED h, ui'[u].result = {} \/ UNCHANGED ui,
             \A w \in User \ {u} : link'[w] = link[w] /\ ui'[w] = ui[w],
             Range(link'[u].in) \subseteq Range(link[u].in)
      PROVE  p \in Known(v)
  BY <1>2, <1>6 DEF Known, Answering, Answered
<1>7. ASSUME NEW u \in User, Start(u) PROVE p \in Known(v)
  <2>1. /\ \A w \in User \ {u} : h'[w] = h[w] /\ link'[w] = link[w] /\ ui'[w] = ui[w]
        /\ link'[u].in = <<>> /\ h'[u].pc = "read" /\ ui'[u] = Idle
    BY <1>1, <1>7, StartStep
  <2>2. Known(u)' = {}
    BY <2>1, RangeOfNone DEF Known, Answering, Answered, Idle
  <2> QED  BY <1>2, <2>1, <2>2
<1>8. ASSUME NEW u \in User, Break(u) PROVE p \in Known(v)
  <2>1. UNCHANGED <<h, ui>>
    BY <1>8 DEF Break, srvVars, cliVars
  <2>2. PICK i \in 0..Len(link[u].in) :
          /\ \A w \in User \ {u} : link'[w] = link[w]
          /\ link'[u].in = SubSeq(link[u].in, 1, i)
    BY <1>1, <1>8, BreakStep
  <2>3. link[u].in \in Seq(Sent)
    BY <1>1, Fields
  <2>4. Range(link'[u].in) \subseteq Range(link[u].in)
    BY <2>2, <2>3, RangeOfParts
  <2> QED  BY <1>6, <2>1, <2>2, <2>4
<1>9. ASSUME NEW u \in User, Command(u) PROVE p \in Known(v)
  <2>1. UNCHANGED h /\ \E kind, r : Gives(u, kind, r)
    BY <1>9 DEF Command, Create, Join, Leave, Post, srvVars
  <2>2. PICK n \in Nat : n = commands'[u]
    BY <1>1, <2>1, GivesStep
  <2>3. PICK q \in Request : Writes(u, q)
    BY <1>9, <2>2, AskType DEF Command, Create, Join, Leave, Post
  <2>4. link'[u].in = link[u].in /\ \A w \in User \ {u} : link'[w] = link[w]
    BY <1>1, <2>3, WritesStep
  <2>5. (ui'[u].result = {} \/ UNCHANGED ui) /\ \A w \in User \ {u} : ui'[w] = ui[w]
    <3>1. CASE Create(u)
      <4>1. Waits(u, "create", NoRoom, NoMessage)
        BY <3>1 DEF Create
      <4> QED  BY <1>1, <4>1, WaitsStep DEF Kinds
    <3>2. ASSUME NEW r \in Room, Join(u, r)
          PROVE ui'[u].result = {} /\ \A w \in User \ {u} : ui'[w] = ui[w]
      <4>1. Waits(u, "join", r, NoMessage)
        BY <3>2 DEF Join
      <4> QED  BY <1>1, <4>1, WaitsStep DEF Kinds
    <3>3. ASSUME NEW r \in Room, Leave(u, r)
          PROVE ui'[u].result = {} /\ \A w \in User \ {u} : ui'[w] = ui[w]
      <4>1. ui' = [ui EXCEPT ![u] = [Idle EXCEPT !.pc = "drop", !.room = r]]
        BY <3>3 DEF Leave
      <4> QED  BY <1>1, <4>1, TurnStep
    <3>4. ASSUME NEW m \in Message, NEW r \in Room, Post(u, m, r)
          PROVE  (ui'[u].result = {} \/ UNCHANGED ui) /\ \A w \in User \ {u} : ui'[w] = ui[w]
      <4>1. UNCHANGED ui \/ Waits(u, "post", r, m)
        BY <3>4 DEF Post
      <4> QED  BY <1>1, <4>1, WaitsStep DEF Kinds
    <3> QED  BY <1>9, <3>1, <3>2, <3>3, <3>4 DEF Command
  <2> QED  BY <1>6, <2>1, <2>4, <2>5
<1>10. ASSUME NEW u \in User, Resume(u) PROVE p \in Known(v)
  <2>1. UNCHANGED h
    BY <1>10 DEF Resume, Conclude, Timeout, Keep, srvVars
  <2>2. ASSUME ui[u].pc = "wait", ui[u].kind = "post", NEW list, Transmit(u, list)
        PROVE  p \in Known(v)
    <3>1. PICK q \in Request : Writes(u, q)
      BY <2>2, TransmitStep
    <3>2. link'[u].in = link[u].in /\ \A w \in User \ {u} : link'[w] = link[w]
      BY <1>1, <3>1, WritesStep
    <3>3. ui'[u].result = {} /\ \A w \in User \ {u} : ui'[w] = ui[w]
      BY <2>2, TransmitStep
    <3> QED  BY <1>6, <2>1, <3>2, <3>3
  <2>3. CASE Conclude(u)
    <3>1. CASE ui[u].kind = "post"
      <4>1. ui[u].pc = "wait" /\ \E q \in ui[u].result : Transmit(u, q.members)
        BY <2>3, <3>1 DEF Conclude
      <4> QED  BY <2>2, <3>1, <4>1
    <3>2. CASE ui[u].kind # "post"
      <4>1. UNCHANGED link /\ ui'[u].result = {} /\ \A w \in User \ {u} : ui'[w] = ui[w]
        BY <2>3, <3>2, ConcludeStep
      <4> QED  BY <1>6, <2>1, <4>1
    <3> QED  BY <3>1, <3>2
  <2>4. CASE Timeout(u)
    <3>1. CASE Exit(u)
      <4>1. /\ \A w \in User \ {u} : ui'[w] = ui[w] /\ link'[w] = link[w]
            /\ ui'[u].result = {} /\ Range(link'[u].in) = {}
        BY <1>1, <3>1, ExitStep, RangeOfNone
      <4> QED  BY <1>6, <2>1, <4>1
    <3>2. CASE Rests(u) /\ UNCHANGED link
      <4>1. ui'[u].result = {} /\ \A w \in User \ {u} : ui'[w] = ui[w]
        BY <1>1, <3>2, RestsStep
      <4> QED  BY <1>6, <2>1, <3>2, <4>1
    <3>3. CASE ui[u].pc = "wait" /\ ui[u].kind = "post" /\ Transmit(u, {})
      BY <2>2, <3>3
    <3> QED  BY <2>4, <3>1, <3>2, <3>3 DEF Timeout
  <2>5. CASE Keep(u)
    <3>1. Rests(u) /\ UNCHANGED link
      BY <2>5 DEF Keep
    <3>2. ui'[u].result = {} /\ \A w \in User \ {u} : ui'[w] = ui[w]
      BY <1>1, <3>1, RestsStep
    <3> QED  BY <1>6, <2>1, <3>1, <3>2
  <2> QED  BY <1>10, <2>3, <2>4, <2>5 DEF Resume
<1>11. ASSUME NEW u \in User, Read(u) PROVE p \in Known(v)
  <2>1. UNCHANGED h
    BY <1>11 DEF Read, Receive, Store, srvVars
  <2>2. CASE Receive(u)
    <3> DEFINE q == Head(link[u].in)
    <3>1. /\ Range(link[u].in) = {q} \cup Range(link'[u].in)
          /\ \A w \in User \ {u} : link'[w] = link[w] /\ ui'[w] = ui[w]
          /\ ui'[u].result = ui[u].result \/ ui'[u].result = {q}
      BY <1>1, <2>2, ReceiveStep
    <3> HIDE DEF q
    <3>2. Known(u)' \subseteq Known(u)
      BY <2>1, <3>1 DEF Known, Answering, Answered
    <3> QED  BY <1>2, <2>1, <3>1, <3>2
  <2>3. CASE Store(u)
    BY <1>2, <2>3 DEF Store, srvVars
  <2> QED  BY <1>11, <2>2, <2>3 DEF Read
<1> QED  BY <1>3, <1>4, <1>5, <1>7, <1>8, <1>9, <1>10, <1>11 DEF RmNext

-----------------------------------------------------------------------------
\* What any step does to the frames on a wire, and to a command.

\* A frame that is written is that of a new command, or of the text that was waited for.
Written(u, p) ==
  \/ p.type \in {"create", "join"} /\ ui'[u].pc = "wait"
  \/ p.type = "leave" /\ ui'[u].pc = "drop" /\ ui'[u].room = p.room
  \/ p.type = "members" /\ ui'[u].pc = "wait" /\ p.msg \notin posted
  \/ /\ p.type = "post" /\ ui'[u].pc = "idle"
     /\ \/ p.msg \notin posted
        \/ ui[u].pc = "wait" /\ ui[u].kind = "post" /\ p.msg = ui[u].msg

OutMoves(u) ==
  \/ link'[u].out = link[u].out
  \/ Serve(u) /\ \E type : Takes(u, type)
  \/ ~link'[u].up /\ \E o \in 0..Len(link[u].out) : link'[u].out = SubSeq(link[u].out, 1, o)
  \/ (~link'[u].up \/ Start(u) \/ End(u)) /\ link'[u].out = <<>>
  \/ \E p \in Request : link'[u].out = Append(link[u].out, p) /\ Written(u, p)

CommandMoves(u) ==
  \/ ui'[u].pc # "wait"
  \/ /\ ui[u].pc = "wait" /\ ui'[u].kind = ui[u].kind /\ ui'[u].room = ui[u].room
     /\ ui'[u].msg = ui[u].msg /\ commands'[u] = commands[u]
  \/ /\ commands'[u] = commands[u] + 1 /\ ui'[u].result = {}
     /\ ui'[u].kind = "post" => ui'[u].msg \notin posted

LEMMA ServeMoves ==
  ASSUME Typed, NEW u \in User, Serve(u), NEW v \in User
  PROVE  OutMoves(v)
<1>1. Records
  BY DEF Typed
<1>2. CASE UNCHANGED link
  BY <1>2 DEF OutMoves
<1>3. ASSUME NEW w \in User, NEW p \in Sent, Send(w, p) PROVE OutMoves(v)
  BY <1>1, <1>3, SendStep DEF OutMoves
<1>4. ASSUME NEW type, Takes(u, type) PROVE OutMoves(v)
  BY <1>1, <1>4, TakesStep DEF OutMoves
<1>5. CASE End(u)
  BY <1>1, <1>5, EndStep DEF OutMoves
<1>6. CASE FlushSend(u) \/ Delivered(u) \/ Answer(u)
  BY <1>2, <1>3, <1>6, FlushSendStep, DeliveredStep, AnswerStep
<1>7. CASE FanOut(u)
  <2>1. PICK w \in h[u].todo : Hand(u, w)
    BY <1>7 DEF FanOut
  <2>2. h[u].pc = "fanout"
    BY <1>7 DEF FanOut
  <2>3. w \in User /\ (UNCHANGED link \/ (Texts({h[u].msg}) \in Sent /\ Send(w, Texts({h[u].msg}))))
    BY <2>1, <2>2, HandStep
  <2> QED  BY <1>2, <1>3, <2>3
<1> QED
  BY <1>2, <1>4, <1>5, <1>6, <1>7
  DEF Serve, FlushRead, FlushClear, ServeCreate, ServeJoin, Insert, ServeLeave, ServeMembers,
      ServePost, Route, Enqueue

\* A frame is written or lost.
LEMMA WrittenMoves ==
  ASSUME Records, NEW u \in User, NEW p \in Request, Writes(u, p), Written(u, p), NEW v \in User
  PROVE  OutMoves(v)
BY WritesStep DEF OutMoves

LEMMA CommandOutMoves ==
  ASSUME Typed, NEW u \in User, Command(u), NEW v \in User
  PROVE  OutMoves(v) /\ CommandMoves(v)
<1>1. Records /\ CommandOK(u)
  BY DEF Typed
<1>2. ASSUME v # u, \A w \in User \ {u} : ui'[w] = ui[w] /\ commands'[w] = commands[w]
      PROVE  CommandMoves(v)
  BY <1>2 DEF CommandMoves
<1>3. CASE Create(u)
  <2>1. Gives(u, "create", NoRoom) /\ Waits(u, "create", NoRoom, NoMessage)
    BY <1>3 DEF Create
  <2>2. PICK n \in Nat : n = commands'[u]
    BY <1>1, <2>1, GivesStep
  <2>3. PICK p \in Request : Writes(u, p) /\ p.type = "create"
    BY <1>3, <2>2, AskType DEF Create
  <2>4. OutMoves(v)
    <3>1. ui'[u].pc = "wait"
      BY <1>1, <2>1, WaitsStep DEF Kinds
    <3> QED  BY <1>1, <2>3, <3>1, WrittenMoves DEF Written
  <2>5. ui'[u].kind = "create" /\ ui'[u].result = {} /\ \A w \in User \ {u} : ui'[w] = ui[w]
    BY <1>1, <2>1, WaitsStep DEF Kinds
  <2>6. commands'[u] = commands[u] + 1 /\ \A w \in User \ {u} : commands'[w] = commands[w]
    BY <1>1, <2>1, GivesStep
  <2> QED  BY <1>2, <2>4, <2>5, <2>6 DEF CommandMoves
<1>4. ASSUME NEW r \in Room, Join(u, r) PROVE OutMoves(v) /\ CommandMoves(v)
  <2>1. Gives(u, "join", r) /\ Waits(u, "join", r, NoMessage)
    BY <1>4 DEF Join
  <2>2. PICK n \in Nat : n = commands'[u]
    BY <1>1, <2>1, GivesStep
  <2>3. PICK p \in Request : Writes(u, p) /\ p.type = "join"
    BY <1>4, <2>2, AskType DEF Join
  <2>4. OutMoves(v)
    <3>1. ui'[u].pc = "wait"
      BY <1>1, <2>1, WaitsStep DEF Kinds
    <3> QED  BY <1>1, <2>3, <3>1, WrittenMoves DEF Written
  <2>5. ui'[u].kind = "join" /\ ui'[u].result = {} /\ \A w \in User \ {u} : ui'[w] = ui[w]
    BY <1>1, <2>1, WaitsStep DEF Kinds
  <2>6. commands'[u] = commands[u] + 1 /\ \A w \in User \ {u} : commands'[w] = commands[w]
    BY <1>1, <2>1, GivesStep
  <2> QED  BY <1>2, <2>4, <2>5, <2>6 DEF CommandMoves
<1>5. ASSUME NEW r \in Room, Leave(u, r) PROVE OutMoves(v) /\ CommandMoves(v)
  <2>1. Gives(u, "leave", r) /\ ui' = [ui EXCEPT ![u] = [Idle EXCEPT !.pc = "drop", !.room = r]]
    BY <1>5 DEF Leave
  <2>2. PICK p \in Request : Writes(u, p) /\ p.type = "leave" /\ p.room = r
    BY <1>5, AskType DEF Leave
  <2>3. ui'[u].pc = "drop" /\ ui'[u].room = r /\ \A w \in User \ {u} : ui'[w] = ui[w]
    BY <1>1, <2>1, TurnStep
  <2>4. OutMoves(v)
    BY <1>1, <2>2, <2>3, WrittenMoves DEF Written
  <2>5. \A w \in User \ {u} : commands'[w] = commands[w]
    BY <1>1, <2>1, GivesStep
  <2> QED  BY <1>2, <2>3, <2>4, <2>5 DEF CommandMoves
<1>6. ASSUME NEW m \in Message, NEW r \in Room, Post(u, m, r)
      PROVE  OutMoves(v) /\ CommandMoves(v)
  <2>1. Gives(u, "post", r) /\ m \notin posted
    BY <1>6 DEF Post
  <2>2. commands'[u] = commands[u] + 1 /\ \A w \in User \ {u} : commands'[w] = commands[w]
    BY <1>1, <2>1, GivesStep
  <2>3. ui[u].pc = "idle"
    BY <1>1, <2>1, GivesStep
  <2>4. CASE Knows[u] = {}
    <3>1. UNCHANGED ui
      BY <1>6, <2>4 DEF Post
    <3>2. PICK p \in Request : Writes(u, p) /\ p.type = "post" /\ p.msg = m
      BY <1>6, <2>4, AskType DEF Post
    <3>3. OutMoves(v)
      BY <1>1, <2>1, <2>3, <3>1, <3>2, WrittenMoves DEF Written
    <3> QED  BY <1>2, <2>2, <2>3, <3>1, <3>3 DEF CommandMoves
  <2>5. CASE Knows[u] # {}
    <3>1. Waits(u, "post", r, m)
      BY <1>6, <2>5 DEF Post
    <3>2. PICK n \in Nat : n = commands'[u]
      BY <1>1, <2>1, GivesStep
    <3>3. PICK p \in Request : Writes(u, p) /\ p.type = "members" /\ p.msg = m
      BY <1>6, <2>5, <3>2, AskType DEF Post
    <3>4. /\ ui'[u].pc = "wait" /\ ui'[u].msg = m /\ ui'[u].result = {}
          /\ \A w \in User \ {u} : ui'[w] = ui[w]
      BY <1>1, <3>1, WaitsStep DEF Kinds
    <3>5. OutMoves(v)
      BY <1>1, <2>1, <3>3, <3>4, WrittenMoves DEF Written
    <3> QED  BY <1>2, <2>1, <2>2, <3>4, <3>5 DEF CommandMoves
  <2> QED  BY <2>4, <2>5
<1> QED  BY <1>3, <1>4, <1>5, <1>6 DEF Command

LEMMA ResumeMoves ==
  ASSUME Typed, Newest, NEW u \in User, Resume(u), NEW v \in User
  PROVE  OutMoves(v) /\ CommandMoves(v)
<1>1. Records
  BY DEF Typed
<1>2. UNCHANGED commands
  BY DEF Resume, Conclude, Timeout, Keep
<1>3. ASSUME ui'[u].pc # "wait", \A w \in User \ {u} : ui'[w] = ui[w]
      PROVE  CommandMoves(v)
  BY <1>2, <1>3 DEF CommandMoves
<1>4. ASSUME \A w \in User : link'[w].out = link[w].out PROVE OutMoves(v)
  BY <1>4 DEF OutMoves
<1>5. ASSUME ui[u].pc = "wait", ui[u].kind = "post", NEW list, Transmit(u, list)
      PROVE  OutMoves(v) /\ CommandMoves(v)
  <2>1. ui'[u].pc = "idle" /\ \A w \in User \ {u} : ui'[w] = ui[w]
    BY <1>5, TransmitStep
  <2>2. PICK p \in Request : Writes(u, p) /\ p.type = "post" /\ p.msg = ui[u].msg
    BY <1>5, TransmitStep
  <2>3. Written(u, p)
    BY <1>5, <2>1, <2>2 DEF Written
  <2> QED  BY <1>1, <1>3, <2>1, <2>2, <2>3, WrittenMoves
<1>6. CASE Conclude(u)
  <2>1. CASE ui[u].kind = "post"
    <3>1. ui[u].pc = "wait" /\ \E p \in ui[u].result : Transmit(u, p.members)
      BY <1>6, <2>1 DEF Conclude
    <3> QED  BY <1>5, <2>1, <3>1
  <2>2. CASE ui[u].kind # "post"
    <3>1. UNCHANGED link /\ ui'[u].pc \in {"save", "idle"} /\ \A w \in User \ {u} : ui'[w] = ui[w]
      BY <1>6, <2>2, ConcludeStep
    <3> QED  BY <1>3, <1>4, <3>1
  <2> QED  BY <2>1, <2>2
<1>7. CASE Timeout(u)
  <2>1. CASE Exit(u)
    <3>1. /\ \A w \in User \ {u} : ui'[w] = ui[w] /\ link'[w] = link[w]
          /\ ui'[u].pc = "off" /\ link'[u].out = link[u].out
      BY <1>1, <2>1, ExitStep
    <3> QED  BY <1>3, <1>4, <3>1
  <2>2. CASE Rests(u) /\ UNCHANGED link
    BY <1>1, <1>3, <1>4, <2>2, RestsStep
  <2>3. CASE ui[u].pc = "wait" /\ ui[u].kind = "post" /\ Transmit(u, {})
    BY <1>5, <2>3
  <2> QED  BY <1>7, <2>1, <2>2, <2>3 DEF Timeout
<1>8. CASE Keep(u)
  <2>1. Rests(u) /\ UNCHANGED link
    BY <1>8 DEF Keep
  <2> QED  BY <1>1, <1>3, <1>4, <2>1, RestsStep
<1> QED  BY <1>6, <1>7, <1>8 DEF Resume

LEMMA Moves ==
  ASSUME Typed, Newest, [RmNext]_rmVars, NEW v \in User
  PROVE  OutMoves(v) /\ CommandMoves(v)
<1>1. Records
  BY DEF Typed
<1>2. ASSUME UNCHANGED <<ui, commands>> PROVE CommandMoves(v)
  BY <1>2 DEF CommandMoves
<1>3. CASE UNCHANGED rmVars
  BY <1>2, <1>3 DEF rmVars, srvVars, cliVars, OutMoves
<1>4. CASE Crash
  BY <1>1, <1>2, <1>4, CrashStep DEF Crash, cliVars, OutMoves
<1>5. ASSUME NEW u \in User, Start(u) PROVE OutMoves(v) /\ CommandMoves(v)
  <2>1. UNCHANGED commands
    BY <1>5 DEF Start
  <2>2. /\ \A w \in User \ {u} : link'[w] = link[w] /\ ui'[w] = ui[w]
        /\ link'[u].out = <<>> /\ ui'[u] = Idle
    BY <1>1, <1>5, StartStep
  <2>3. ui'[u].pc = "idle"
    BY <2>2 DEF Idle
  <2>4. OutMoves(v)
    BY <1>5, <2>2 DEF OutMoves
  <2>5. CommandMoves(v)
    BY <2>1, <2>2, <2>3 DEF CommandMoves
  <2> QED  BY <2>4, <2>5
<1>6. ASSUME NEW u \in User, Break(u) PROVE OutMoves(v) /\ CommandMoves(v)
  <2>1. UNCHANGED <<ui, commands>>
    BY <1>6 DEF Break, cliVars
  <2>2. PICK o \in 0..Len(link[u].out) :
          /\ ~link'[u].up /\ \A w \in User \ {u} : link'[w] = link[w]
          /\ link'[u].out = SubSeq(link[u].out, 1, o)
    BY <1>1, <1>6, BreakStep
  <2>3. OutMoves(v)
    BY <2>2 DEF OutMoves
  <2> QED  BY <1>2, <2>1, <2>3
<1>7. ASSUME NEW u \in User, Serve(u) PROVE OutMoves(v) /\ CommandMoves(v)
  <2>1. UNCHANGED <<ui, commands>>
    BY <1>7 DEF Serve, FlushRead, FlushSend, FlushClear, ServeCreate, ServeJoin, Insert,
       ServeLeave, ServeMembers, ServePost, Route, FanOut, Enqueue, Delivered, Answer, End, cliVars
  <2> QED  BY <1>2, <1>7, <2>1, ServeMoves
<1>8. ASSUME NEW u \in User, Read(u) PROVE OutMoves(v) /\ CommandMoves(v)
  <2>1. CASE Receive(u)
    <3>1. UNCHANGED commands
      BY <2>1 DEF Receive
    <3>2. /\ \A w \in User \ {u} : link'[w] = link[w] /\ ui'[w] = ui[w]
          /\ link'[u].out = link[u].out
          /\ ui'[u].pc = ui[u].pc /\ ui'[u].kind = ui[u].kind /\ ui'[u].room = ui[u].room
          /\ ui'[u].msg = ui[u].msg
      BY <1>1, <2>1, ReceiveStep
    <3> QED  BY <3>1, <3>2 DEF OutMoves, CommandMoves
  <2>2. CASE Store(u)
    BY <1>2, <2>2 DEF Store, OutMoves
  <2> QED  BY <1>8, <2>1, <2>2 DEF Read
<1> QED
  BY <1>3, <1>4, <1>5, <1>6, <1>7, <1>8, CommandOutMoves, ResumeMoves DEF RmNext

-----------------------------------------------------------------------------
\* Outcomes.

LEMMA GrantedGrows ==
  ASSUME [RmNext]_rmVars
  PROVE  granted \subseteq granted'
<1>1. ASSUME NEW u \in User, NEW p, Grants(u, p) PROVE granted \subseteq granted'
  BY <1>1 DEF Grants
<1>2. ASSUME NEW u \in User, Serve(u) PROVE granted \subseteq granted'
  BY <1>1, <1>2 DEF Serve, FlushRead, FlushSend, FlushClear, ServeCreate, ServeJoin, Insert,
     ServeLeave, ServeMembers, ServePost, Route, FanOut, Enqueue, Delivered, Answer, End
<1>3. ASSUME NEW u \in User,
             Start(u) \/ Break(u) \/ Command(u) \/ Resume(u) \/ Read(u)
      PROVE  UNCHANGED granted
  BY <1>3 DEF Start, Break, Command, Create, Join, Leave, Post, Resume, Conclude, Timeout, Keep,
     Read, Receive, Store, srvVars
<1>4. CASE Crash \/ UNCHANGED rmVars
  BY <1>4 DEF Crash, rmVars, srvVars
<1> QED  BY <1>2, <1>3, <1>4 DEF RmNext

\* Only the end of a command that waited for this answer tells its outcome.
LEMMA ToldStep ==
  ASSUME Typed, Newest, [RmNext]_rmVars
  PROVE  \/ told' = told
         \/ \E u \in User : \E p \in ui[u].result :
              /\ ui[u].pc = "wait" /\ p.type = "info" /\ p.req = commands[u]
              /\ told' \subseteq told \cup (IF p.ok THEN {<<u, commands[u]>>} ELSE {})
<1>1. ASSUME NEW u \in User, Conclude(u)
      PROVE  \/ told' = told
             \/ \E p \in ui[u].result :
                  /\ ui[u].pc = "wait" /\ p.type = "info" /\ p.req = commands[u]
                  /\ told' \subseteq told \cup (IF p.ok THEN {<<u, commands[u]>>} ELSE {})
  BY <1>1, ConcludeStep
<1>2. ASSUME NEW u \in User,
             Start(u) \/ Break(u) \/ Command(u) \/ Serve(u) \/ Timeout(u) \/ Keep(u) \/ Read(u)
      PROVE  told' = told
  BY <1>2 DEF Start, Break, Command, Create, Join, Leave, Post, Timeout, Keep, Read, Receive, Store,
     Serve, FlushRead, FlushSend, FlushClear, ServeCreate, ServeJoin, Insert, ServeLeave,
     ServeMembers, ServePost, Route, FanOut, Enqueue, Delivered, Answer, End, cliVars
<1>3. CASE Crash \/ UNCHANGED rmVars
  BY <1>3 DEF Crash, rmVars, cliVars
<1> QED  BY <1>1, <1>2, <1>3 DEF RmNext, Resume

LEMMA GrantedStep ==
  ASSUME Typed, Newest, Granted, [RmNext]_rmVars
  PROVE  Granted'
<1>1. granted \subseteq granted'
  BY GrantedGrows
<1>2. ASSUME NEW v \in User, NEW p \in Known(v)', p.type = "info", p.ok, p.req # 0
      PROVE  <<v, p.req>> \in granted'
  <2>1. p \in Known(v) \/ Made(v, p)
    BY <1>2, AnswersMove DEF IsAnswer
  <2>2. CASE p \in Known(v)
    BY <1>1, <1>2, <2>2 DEF Granted, GrantedOf
  <2>3. CASE Made(v, p)
    <3>1. CASE ServeCreate(v) /\ p.req = Frame(v).req
      BY <3>1 DEF ServeCreate, Grants
    <3>2. CASE Insert(v) /\ p \in h[v].out
      <4>1. PICK q \in h[v].out : Grants(v, q)
        BY <3>2 DEF Insert
      <4>2. q = p
        BY <3>2, <4>1 DEF Typed, HandlerOK
      <4> QED  BY <4>1, <4>2 DEF Grants
    <3> QED  BY <1>2, <2>3, <3>1, <3>2 DEF Made
  <2> QED  BY <2>1, <2>2, <2>3
<1>3. told' \subseteq granted'
  <2>1. ASSUME NEW u \in User, NEW p \in ui[u].result, ui[u].pc = "wait", p.type = "info",
               p.req = commands[u], p.ok
        PROVE  <<u, commands[u]>> \in granted
    <3>1. p.req # 0
      BY <2>1 DEF Typed, CommandOK
    <3>2. p \in Known(u)
      BY <2>1 DEF Known, Answered
    <3> QED  BY <2>1, <3>1, <3>2 DEF Granted, GrantedOf
  <2> QED  BY <1>1, <2>1, ToldStep DEF Granted, OutcomeTrue
<1> QED  BY <1>2, <1>3 DEF Granted, GrantedOf, OutcomeTrue

\* A client says that it created or joined a room (RoomHandler.create, join) only if
\* rooms.py committed that for this very command, although an answer may arrive after its
\* command was given up, and another after it was given: req_id keeps them apart.
THEOREM OutcomesAreTrue == RmSpec => []OutcomeTrue
<1>1. RmInit => Granted
  <2> SUFFICES ASSUME RmInit PROVE Granted
    OBVIOUS
  <2>1. \A u \in User : Known(u) = {}
    BY Constants, RangeOfNone DEF RmInit, Known, Answering, Answered, Recv, Idle
  <2> QED  BY <2>1 DEF RmInit, Granted, GrantedOf, OutcomeTrue
<1>2. (Typed /\ Newest) /\ Granted /\ [RmNext]_rmVars => Granted'
  BY GrantedStep
<1>3. Granted => OutcomeTrue
  BY DEF Granted
<1> QED  BY <1>1, <1>2, <1>3, TypedHolds, PTL DEF RmSpec

-----------------------------------------------------------------------------
\* Sealing.

LEMMA FramesMove ==
  ASSUME Typed, NEW u \in User, OutMoves(u), NEW p \in Range(link'[u].out)
  PROVE  p \in Range(link[u].out) \/ (p \in Request /\ Written(u, p))
<1>1. Records /\ link[u].out \in Seq(Request)
  BY Fields DEF Typed
<1>2. ASSUME NEW type, Takes(u, type) PROVE Range(link'[u].out) \subseteq Range(link[u].out)
  BY <1>1, <1>2, TakesLess
<1>3. ASSUME NEW o \in 0..Len(link[u].out), link'[u].out = SubSeq(link[u].out, 1, o)
      PROVE  Range(link'[u].out) \subseteq Range(link[u].out)
  BY <1>1, <1>3, RangeOfParts
<1>4. ASSUME NEW q \in Request, link'[u].out = Append(link[u].out, q), Written(u, q)
      PROVE  Range(link'[u].out) = Range(link[u].out) \cup {q}
  BY <1>1, <1>4, RangeOfAppend
<1>5. CASE \E q \in Request : link'[u].out = Append(link[u].out, q) /\ Written(u, q)
  BY <1>4, <1>5
<1>6. CASE link'[u].out = <<>>
  BY <1>6, RangeOfNone
<1> QED  BY <1>2, <1>3, <1>5, <1>6 DEF OutMoves

LEMMA PostedGrows ==
  ASSUME [RmNext]_rmVars
  PROVE  posted \subseteq posted'
<1>1. ASSUME NEW u \in User, Command(u) PROVE posted \subseteq posted'
  BY <1>1 DEF Command, Create, Join, Leave, Post
<1>2. ASSUME NEW u \in User, Start(u) \/ Break(u) \/ Serve(u) \/ Resume(u) \/ Read(u)
      PROVE  posted' = posted
  BY <1>2 DEF Start, Break, Resume, Conclude, Timeout, Keep, Read, Receive, Store,
     Serve, FlushRead, FlushSend, FlushClear, ServeCreate, ServeJoin, Insert, ServeLeave,
     ServeMembers, ServePost, Route, FanOut, Enqueue, Delivered, Answer, End, cliVars
<1>3. CASE Crash \/ UNCHANGED rmVars
  BY <1>3 DEF Crash, rmVars, cliVars
<1> QED  BY <1>1, <1>2, <1>3 DEF RmNext

\* A list is made for the message that its frame names.
LEMMA ListedStep ==
  ASSUME Typed, [RmNext]_rmVars, NEW m \in Message
  PROVE  \/ listed'[m] = listed[m]
         \/ /\ Takes(Author[m], "members") /\ Frame(Author[m]).msg = m
            /\ listed'[m] = members[Frame(Author[m]).room]
<1>1. ASSUME NEW u \in User, ServeMembers(u)
      PROVE  \/ listed'[m] = listed[m]
             \/ /\ Takes(Author[m], "members") /\ Frame(Author[m]).msg = m
                /\ listed'[m] = members[Frame(Author[m]).room]
  <2>1. Takes(u, "members") /\ listed' = [listed EXCEPT ![Frame(u).msg] = members[Frame(u).room]]
        /\ listed \in [Message -> SUBSET User]
    BY <1>1 DEF ServeMembers, Typed, Records
  <2>2. Writing(u, Frame(u).msg)
    BY <2>1, TakesStep DEF Typed, FrameOK
  <2>3. CASE Frame(u).msg = m
    BY <2>1, <2>2, <2>3 DEF Writing
  <2>4. CASE Frame(u).msg # m
    BY <2>1, <2>4
  <2> QED  BY <2>3, <2>4
<1>2. ASSUME NEW u \in User,
             Start(u) \/ Break(u) \/ Command(u) \/ Resume(u) \/ Read(u) \/ (Serve(u) /\ ~ServeMembers(u))
      PROVE  listed' = listed
  BY <1>2 DEF Start, Break, Command, Create, Join, Leave, Post, Resume, Conclude, Timeout, Keep,
     Read, Receive, Store,
     Serve, FlushRead, FlushSend, FlushClear, ServeCreate, ServeJoin, Insert, ServeLeave,
     ServePost, Route, FanOut, Enqueue, Delivered, Answer, End, srvVars
<1>3. CASE Crash \/ UNCHANGED rmVars
  BY <1>3 DEF Crash, rmVars, srvVars
<1>4. ASSUME NEW u \in User, ~ServeMembers(u), Serve(u) PROVE listed' = listed
  BY <1>2, <1>4
<1> QED  BY <1>1, <1>2, <1>3, <1>4 DEF RmNext

\* A text is sealed when its author stops waiting, for whom the list names if there is one.
LEMMA SealedStep ==
  ASSUME Typed, Newest, [RmNext]_rmVars, NEW m \in Message, sealed'[m] # sealed[m], sealed'[m] # {}
  PROVE  LET u == Author[m] IN
         /\ ui[u].pc = "wait" /\ ui[u].kind = "post" /\ ui[u].msg = m /\ u \in User
         /\ m \in posted /\ link[u].out = <<>>
         /\ \E p \in ui[u].result : /\ p.type = "list" /\ p.req = commands[u]
                                    /\ sealed'[m] = (p.members \ {u}) \cap Knows[u]
<1>1. sealed \in [Message -> SUBSET User]
  BY DEF Typed, Records
<1>2. ASSUME NEW u \in User, ui[u].pc = "wait", ui[u].kind = "post", NEW list, Transmit(u, list)
      PROVE  /\ ui[u].msg = m /\ u = Author[m] /\ m \in posted
             /\ sealed'[m] = (list \ {u}) \cap Knows[u]
  <2>1. /\ sealed' = [sealed EXCEPT ![ui[u].msg] = (list \ {u}) \cap Knows[u]]
        /\ ui[u].msg \in Message /\ Author[ui[u].msg] = u /\ ui[u].msg \in posted
    BY <1>2, TransmitStep
  <2>2. ui[u].msg = m
    BY <1>1, <2>1
  <2> QED  BY <1>1, <2>1, <2>2
<1>3. ASSUME NEW u \in User, Conclude(u)
      PROVE  /\ ui[u].pc = "wait" /\ ui[u].kind = "post" /\ ui[u].msg = m /\ u = Author[m]
             /\ m \in posted /\ link[u].out = <<>>
             /\ \E p \in ui[u].result : /\ p.type = "list" /\ p.req = commands[u]
                                        /\ sealed'[m] = (p.members \ {u}) \cap Knows[u]
  <2>1. PICK p \in ui[u].result :
          /\ ui[u].pc = "wait" /\ p.req = commands[u] /\ link[u].out = <<>>
          /\ \/ ui[u].kind = "post" /\ Transmit(u, p.members) /\ p.type = "list"
             \/ UNCHANGED sealed
    BY <1>3, ConcludeStep
  <2>2. ui[u].kind = "post" /\ Transmit(u, p.members) /\ p.type = "list"
    BY <2>1
  <2> QED  BY <1>2, <2>1, <2>2
<1>4. ASSUME NEW u \in User PROVE ~Timeout(u)
  <2> SUFFICES ASSUME Timeout(u) PROVE FALSE
    OBVIOUS
  <2>1. ui[u].pc = "wait" /\ (UNCHANGED sealed \/ (ui[u].kind = "post" /\ Transmit(u, {})))
    BY DEF Timeout
  <2>2. sealed'[m] = ({} \ {u}) \cap Knows[u]
    BY <1>2, <2>1
  <2> QED  BY <2>2
<1>5. ASSUME NEW u \in User,
             Start(u) \/ Break(u) \/ Command(u) \/ Serve(u) \/ Keep(u) \/ Read(u)
      PROVE  FALSE
  BY <1>5 DEF Start, Break, Command, Create, Join, Leave, Post, Keep, Read, Receive, Store,
     Serve, FlushRead, FlushSend, FlushClear, ServeCreate, ServeJoin, Insert, ServeLeave,
     ServeMembers, ServePost, Route, FanOut, Enqueue, Delivered, Answer, End, cliVars
<1>6. ~Crash /\ ~UNCHANGED rmVars
  BY DEF Crash, rmVars, cliVars
<1> QED  BY <1>3, <1>4, <1>5, <1>6 DEF RmNext, Resume

\* The list for which an author waits.
LEMMA ListKept ==
  ASSUME Typed, Newest, Sealing, [RmNext]_rmVars, NEW u \in User
  PROVE  ListOf(u)'
<1> SUFFICES ASSUME ui'[u].pc = "wait", ui'[u].kind = "post", NEW p \in Known(u)',
                    p.type = "list", p.req = commands'[u]
             PROVE  p.members = listed'[ui'[u].msg]
  BY DEF ListOf
<1>1. Records /\ commands[u] \in Nat /\ Typed'
  BY Fields, TypedStep DEF Typed
<1>2. IsAnswer(p) /\ (p \in Known(u) \/ Made(u, p))
  BY AnswersMove DEF IsAnswer
<1>3. p \in Known(u) => p.req <= commands[u]
  BY <1>2 DEF Newest, NewestOf, Known, Answering
<1>4. Made(u, p) => Serve(u)
  BY DEF Made, Serve
<1>5. Serve(u) => UNCHANGED commands
  BY DEF Serve, FlushRead, FlushSend, FlushClear, ServeCreate, ServeJoin, Insert, ServeLeave,
     ServeMembers, ServePost, Route, FanOut, Enqueue, Delivered, Answer, End, cliVars
<1>6. /\ ui[u].pc = "wait" /\ ui'[u].kind = ui[u].kind /\ ui'[u].msg = ui[u].msg
      /\ commands'[u] = commands[u]
  <2>1. commands'[u] # commands[u] + 1
    BY <1>1, <1>2, <1>3, <1>4, <1>5
  <2> QED  BY <2>1, Moves DEF CommandMoves
<1>7. ui[u].msg \in Message /\ Author[ui[u].msg] = u
  BY <1>1, <1>6 DEF Typed, CommandOK, Writing, Records
<1>8. CASE p \in Known(u)
  <2>1. link[u].out = <<>>
    BY <1>2, <1>6, <1>8 DEF Newest, NewestOf, Known, Answering
  <2>2. ~Takes(u, "members")
    BY <2>1 DEF Takes
  <2>3. listed'[ui[u].msg] = listed[ui[u].msg]
    BY <1>7, <2>2, ListedStep
  <2>4. p.members = listed[ui[u].msg]
    BY <1>6, <1>8 DEF Sealing, ListOf
  <2> QED  BY <1>6, <2>3, <2>4
<1>9. CASE Made(u, p)
  <2>1. ServeMembers(u) \/ (Insert(u) /\ p \in h[u].out)
    BY <1>9 DEF Made
  <2>2. ~(Insert(u) /\ p \in h[u].out)
    BY DEF Typed, HandlerOK, Insert
  <2>3. /\ Takes(u, "members") /\ p.req = Frame(u).req /\ p.members = members[Frame(u).room]
        /\ listed' = [listed EXCEPT ![Frame(u).msg] = members[Frame(u).room]]
    BY <1>9, <2>1, <2>2 DEF Made, ServeMembers, ServeCreate, ServeJoin, ServeLeave, Insert, Takes
  <2>4. Frame(u) = link[u].out[1] /\ 1 \in DOMAIN link[u].out
    BY <1>1, <2>3, TakesStep
  <2>5. Frame(u).msg = ui[u].msg
    BY <1>6, <2>3, <2>4 DEF Newest, NewestOf, Wanted
  <2> QED  BY <1>1, <1>6, <1>7, <2>3, <2>5 DEF Records
<1> QED  BY <1>2, <1>8, <1>9

LEMMA SealedKept ==
  ASSUME Typed, Newest, Sealing, [RmNext]_rmVars, NEW m \in Message
  PROVE  SealedOf(m)'
<1> DEFINE u == Author[m]
<1> SUFFICES ASSUME sealed'[m] # {}
             PROVE  /\ m \in posted'
                    /\ sealed'[m] = (listed'[m] \ {u}) \cap Knows[u]
                    /\ \A p \in Range(link'[u].out) : p.type = "members" => p.msg # m
  BY DEF SealedOf
<1>1. u \in User
  BY RoomsAssumption
<1>2. posted \subseteq posted' /\ OutMoves(u)
  BY <1>1, PostedGrows, Moves
<1> HIDE DEF u
<1>3. ASSUME m \in posted, \A p \in Range(link[u].out) : p.type = "members" => p.msg # m
      PROVE  \A p \in Range(link'[u].out) : p.type = "members" => p.msg # m
  BY <1>1, <1>2, <1>3, FramesMove DEF Written
<1>4. CASE sealed'[m] = sealed[m]
  <2>1. /\ m \in posted /\ sealed[m] = (listed[m] \ {u}) \cap Knows[u]
        /\ \A p \in Range(link[u].out) : p.type = "members" => p.msg # m
    BY <1>4 DEF Sealing, SealedOf, u
  <2>2. listed'[m] = listed[m]
    <3>1. ~(Takes(u, "members") /\ Frame(u).msg = m)
      BY <1>1, <2>1, TakesStep DEF Typed
    <3> QED  BY <3>1, ListedStep DEF u
  <2> QED  BY <1>2, <1>3, <1>4, <2>1, <2>2
<1>5. CASE sealed'[m] # sealed[m]
  <2>1. /\ ui[u].pc = "wait" /\ ui[u].kind = "post" /\ ui[u].msg = m
        /\ m \in posted /\ link[u].out = <<>>
    BY <1>5, SealedStep DEF u
  <2>2. PICK p \in ui[u].result : /\ p.type = "list" /\ p.req = commands[u]
                                  /\ sealed'[m] = (p.members \ {u}) \cap Knows[u]
    BY <1>5, SealedStep DEF u
  <2>3. p.members = listed[m]
    BY <1>1, <2>1, <2>2 DEF Sealing, ListOf, Known, Answered
  <2>4. ~Takes(u, "members")
    BY <2>1 DEF Takes
  <2>5. listed'[m] = listed[m]
    BY <2>4, ListedStep DEF u
  <2>6. Range(link[u].out) = {}
    BY <2>1, RangeOfNone
  <2> QED  BY <1>2, <1>3, <2>1, <2>2, <2>3, <2>5, <2>6
<1> QED  BY <1>4, <1>5

-----------------------------------------------------------------------------
\* Where the copies of a text come from, and where they go.

\* The copies for a user that are no longer kept for him, and what his queue was read as.
Left(v) == got[v] \cup gone[v] \cup Copies(link[v].in)
Flushing(v) == IF h[v].pc \in {"flush", "clear"} THEN h[v].todo ELSE {}

\* A new copy is of somebody else's text, no copy is lost but by a clear, and that leaves
\* what was not sent before.
CopiesMove(v) ==
  /\ \A m \in queue'[v] \cup got'[v] \cup Copies(link'[v].in) :
       m \in queue[v] \cup got[v] \cup Copies(link[v].in) \cup Flushing(v) \/ Author[m] # v
  /\ Left(v) \subseteq Left(v)'
  /\ \/ queue[v] \subseteq queue'[v]
     \/ h[v].pc = "clear" /\ queue[v] \ h[v].todo \subseteq Left(v)'

LEMMA CopiesSame ==
  ASSUME NEW v, link'[v].in = link[v].in, queue'[v] = queue[v], got'[v] = got[v],
         gone'[v] = gone[v]
  PROVE  CopiesMove(v)
BY DEF CopiesMove, Left

LEMMA CopiesSent ==
  ASSUME Records, NEW u \in User, NEW p \in Sent, Send(u, p), UNCHANGED <<queue, got, gone>>,
         p.type = "texts" => \A m \in p.msgs : m \in Flushing(u) \/ Author[m] # u,
         NEW v \in User
  PROVE  CopiesMove(v)
<1>1. CASE v # u
  BY <1>1, SendStep, CopiesSame
<1>2. CASE v = u
  <2>1. link[u].in \in Seq(Sent) /\ link'[u].in = Append(link[u].in, p)
    BY SendStep, Fields
  <2>2. \/ p.type = "texts" /\ Copies(link'[u].in) = Copies(link[u].in) \cup p.msgs
        \/ Copies(link'[u].in) = Copies(link[u].in)
    BY <2>1, CopiesOfAppend
  <2> QED  BY <1>2, <2>2 DEF CopiesMove, Left
<1> QED  BY <1>1, <1>2

\* The packets that arrived are left unread, from one on.
LEMMA CopiesEnded ==
  ASSUME Records, NEW u \in User, NEW s \in Seq(Sent), UNCHANGED <<queue, got>>,
         Copies(link[u].in) = Copies(link'[u].in) \cup Copies(s),
         gone' = [gone EXCEPT ![u] = @ \cup Copies(s)],
         \A w \in User \ {u} : link'[w] = link[w],
         NEW v \in User
  PROVE  CopiesMove(v)
<1>1. gone \in [User -> SUBSET Message]
  BY DEF Records
<1>2. CASE v # u
  BY <1>1, <1>2, CopiesSame
<1>3. CASE v = u
  <2>1. gone'[u] = gone[u] \cup Copies(s)
    BY <1>1
  <2> QED  BY <1>3, <2>1 DEF CopiesMove, Left
<1> QED  BY <1>2, <1>3

LEMMA ServeCopies ==
  ASSUME Typed, NEW u \in User, Serve(u), NEW v \in User
  PROVE  CopiesMove(v)
<1>1. Records
  BY DEF Typed
<1>2. ASSUME UNCHANGED <<queue, got, gone>>, \A w \in User : link'[w].in = link[w].in
      PROVE  CopiesMove(v)
  BY <1>2, CopiesSame
<1>3. ASSUME NEW type, Takes(u, type), UNCHANGED <<queue, gone, cliVars>> PROVE CopiesMove(v)
  <2>1. \A w \in User : link'[w].in = link[w].in
    BY <1>1, <1>3, TakesStep
  <2> QED  BY <1>2, <1>3, <2>1 DEF cliVars
<1>4. CASE ServeCreate(u) \/ ServeJoin(u) \/ ServeLeave(u) \/ ServeMembers(u) \/ ServePost(u)
  BY <1>3, <1>4 DEF ServeCreate, ServeJoin, ServeLeave, ServeMembers, ServePost
<1>5. CASE FlushRead(u) \/ Insert(u) \/ Route(u)
  BY <1>2, <1>5 DEF FlushRead, Insert, Route, cliVars
<1>6. CASE FlushSend(u)
  <2>1. h[u].pc = "flush" /\ UNCHANGED <<queue, got, gone>>
    BY <1>6 DEF FlushSend, cliVars
  <2>2. CASE UNCHANGED link
    BY <1>2, <2>1, <2>2
  <2>3. CASE Send(u, Texts(h[u].todo)) /\ Texts(h[u].todo) \in Sent
    <3>1. Texts(h[u].todo).msgs = h[u].todo
      BY DEF Texts
    <3> QED  BY <1>1, <2>1, <2>3, <3>1, CopiesSent DEF Flushing
  <2> QED  BY <1>6, <2>2, <2>3, FlushSendStep
<1>7. CASE FlushClear(u)
  <2>1. /\ queue' = [queue EXCEPT ![u] = {}]
        /\ gone' = [gone EXCEPT ![u] = @ \cup (queue[u] \ h[u].todo)]
        /\ h[u].pc = "clear" /\ UNCHANGED <<link, got>>
    BY <1>7 DEF FlushClear, cliVars
  <2>2. queue \in [User -> SUBSET Message] /\ gone \in [User -> SUBSET Message]
    BY <1>1 DEF Records
  <2>3. CASE v # u
    BY <2>1, <2>2, <2>3, CopiesSame
  <2>4. CASE v = u
    <3>1. queue'[u] = {} /\ gone'[u] = gone[u] \cup (queue[u] \ h[u].todo)
      BY <2>1, <2>2
    <3> QED  BY <2>1, <2>4, <3>1 DEF CopiesMove, Left
  <2> QED  BY <2>3, <2>4
<1>8. CASE FanOut(u)
  <2>1. PICK w \in h[u].todo : Hand(u, w)
    BY <1>8 DEF FanOut
  <2>2. h[u].pc = "fanout" /\ UNCHANGED <<queue, got, gone>>
    BY <1>8 DEF FanOut, cliVars
  <2>3. w \in User /\ w # u /\ Writing(u, h[u].msg)
    BY <2>1, <2>2, HandStep
  <2>4. CASE UNCHANGED link
    BY <1>2, <2>2, <2>4
  <2>5. CASE Send(w, Texts({h[u].msg})) /\ Texts({h[u].msg}) \in Sent
    <3>1. Texts({h[u].msg}).msgs = {h[u].msg}
      BY DEF Texts
    <3> QED  BY <1>1, <2>2, <2>3, <2>5, <3>1, CopiesSent DEF Writing
  <2> QED  BY <2>1, <2>2, <2>4, <2>5, HandStep
<1>9. CASE Enqueue(u)
  <2>1. UNCHANGED <<link, got, gone>>
    BY <1>9 DEF Enqueue, cliVars
  <2>2. /\ queue'[v] = queue[v] \/ (v # u /\ queue'[v] = queue[v] \cup {h[u].msg})
        /\ Author[h[u].msg] = u
    BY <1>9, EnqueueStep DEF Writing
  <2> QED  BY <2>1, <2>2 DEF CopiesMove, Left
<1>10. CASE Delivered(u)
  <2>1. UNCHANGED <<queue, got, gone>>
    BY <1>10 DEF Delivered, cliVars
  <2>2. CASE UNCHANGED link
    BY <1>2, <2>1, <2>2
  <2>3. CASE Send(u, Plain("delivery")) /\ Plain("delivery") \in Sent
    BY <1>1, <2>1, <2>3, CopiesSent DEF Plain
  <2> QED  BY <1>10, <2>2, <2>3, DeliveredStep
<1>11. CASE Answer(u)
  <2>1. UNCHANGED <<queue, got, gone>>
    BY <1>11 DEF Answer, cliVars
  <2>2. CASE UNCHANGED link
    BY <1>2, <2>1, <2>2
  <2>3. ASSUME NEW p \in Sent, h[u].out = {p}, Send(u, p) PROVE CopiesMove(v)
    <3>1. p.type # "texts"
      BY <2>3 DEF Typed, HandlerOK
    <3> QED  BY <1>1, <2>1, <2>3, <3>1, CopiesSent
  <2> QED  BY <1>11, <2>2, <2>3, AnswerStep
<1>12. CASE End(u)
  <2>1. UNCHANGED <<queue, got, gone>>
    BY <1>12 DEF End, cliVars
  <2>2. \A w \in User : link'[w].in = link[w].in
    BY <1>1, <1>12, EndStep
  <2> QED  BY <1>2, <2>1, <2>2
<1> QED
  BY <1>4, <1>5, <1>6, <1>7, <1>8, <1>9, <1>10, <1>11, <1>12 DEF Serve

\* A step of a handler is on its own record.
LEMMA ServeOwn ==
  ASSUME Records, NEW u \in User, Serve(u)
  PROVE  \A v \in User \ {u} : h'[v] = h[v]
BY DEF Records, Serve, FlushRead, FlushSend, FlushClear, ServeCreate, ServeJoin, Insert, ServeLeave,
   ServeMembers, ServePost, Route, FanOut, Hand, Enqueue, Delivered, Answer, End, Answers, Go

LEMMA CommandWrites ==
  ASSUME Typed, NEW u \in User, Command(u)
  PROVE  \E p \in Request : Writes(u, p)
<1>1. Records
  BY DEF Typed
<1>2. CASE Create(u)
  <2>1. PICK n \in Nat : n = commands'[u]
    BY <1>1, <1>2, GivesStep DEF Create
  <2> QED  BY <1>2, <2>1, AskType DEF Create
<1>3. ASSUME NEW r \in Room, Join(u, r) PROVE \E p \in Request : Writes(u, p)
  <2>1. PICK n \in Nat : n = commands'[u]
    BY <1>1, <1>3, GivesStep DEF Join
  <2> QED  BY <1>3, <2>1, AskType DEF Join
<1>4. ASSUME NEW r \in Room, Leave(u, r) PROVE \E p \in Request : Writes(u, p)
  BY <1>4, AskType DEF Leave
<1>5. ASSUME NEW m \in Message, NEW r \in Room, Post(u, m, r)
      PROVE  \E p \in Request : Writes(u, p)
  <2>1. PICK n \in Nat : n = commands'[u]
    BY <1>1, <1>5, GivesStep DEF Post
  <2>2. CASE Knows[u] = {}
    BY <1>5, <2>2, AskType DEF Post
  <2>3. CASE Knows[u] # {}
    BY <1>5, <2>1, <2>3, AskType DEF Post
  <2> QED  BY <2>2, <2>3
<1> QED  BY <1>2, <1>3, <1>4, <1>5 DEF Command

\* Whose step it was.
LEMMA HandlerMoves ==
  ASSUME Typed, [RmNext]_rmVars, NEW v \in User
  PROVE  h'[v] = h[v] \/ Serve(v) \/ ((Start(v) \/ Crash) /\ h'[v].pc \in {"read", "ended"})
<1>1. Records
  BY DEF Typed
<1>2. ASSUME NEW u \in User, Serve(u), v # u PROVE h'[v] = h[v]
  BY <1>1, <1>2, ServeOwn
<1>3. CASE Crash
  BY <1>1, <1>3, CrashStep
<1>4. ASSUME NEW u \in User, Start(u) PROVE h'[v] = h[v] \/ (Start(v) /\ h'[v].pc = "read")
  BY <1>1, <1>4, StartStep
<1>5. ASSUME NEW u \in User, Break(u) \/ Command(u) \/ Resume(u) \/ Read(u) PROVE UNCHANGED h
  BY <1>5 DEF Break, Command, Create, Join, Leave, Post, Resume, Conclude, Timeout, Keep, Read,
     Receive, Store, srvVars
<1>6. CASE UNCHANGED rmVars
  BY <1>6 DEF rmVars, srvVars
<1> QED  BY <1>2, <1>3, <1>4, <1>5, <1>6 DEF RmNext

\* Which statement a handler comes to.
LEMMA ServeComesTo ==
  ASSUME Typed, NEW v \in User, Serve(v)
  PROVE  /\ h'[v].pc = "flush" => FlushRead(v)
         /\ h'[v].pc = "clear" => FlushRead(v) \/ FlushSend(v)
         /\ h'[v].pc = "route" => ServePost(v)
         /\ h'[v].pc \in {"fanout", "enqueue"} => Route(v) \/ FanOut(v) \/ Enqueue(v)
         /\ h'[v].pc = "insert" => ServeJoin(v)
         /\ h'[v].pc = "answer" =>
              \/ ServeCreate(v) \/ ServeJoin(v) \/ Insert(v) \/ ServeLeave(v) \/ ServeMembers(v)
              \/ ServePost(v)
         /\ h'[v].pc = "end" => FlushSend(v) \/ Delivered(v) \/ Answer(v)
         /\ h'[v].pc \notin {"read"}
         /\ h'[v].pc = "ended" => End(v)
<1>1. Records
  BY DEF Typed
<1>2. ASSUME NEW p, Answers(v, p) PROVE h'[v].pc = "answer"
  BY <1>1, <1>2 DEF Answers, Records
<1>3. CASE ServeCreate(v) \/ ServeLeave(v) \/ ServeMembers(v)
  <2>1. h'[v].pc = "answer"
    BY <1>2, <1>3 DEF ServeCreate, ServeLeave, ServeMembers
  <2> QED  BY <1>3, <2>1
<1>4. CASE ServeJoin(v)
  <2>1. h'[v].pc \in {"insert", "answer"}
    BY <1>4, ServeJoinStep
  <2> QED  BY <1>4, <2>1
<1>5. CASE ServePost(v)
  <2>1. h'[v].pc \in {"route", "answer"}
    BY <1>5, ServePostStep
  <2> QED  BY <1>5, <2>1
<1>6. CASE Route(v) \/ Enqueue(v) \/ FanOut(v)
  <2>1. Route(v) \/ Enqueue(v) => h'[v].pc = "fanout"
    BY RouteStep, EnqueueStep
  <2>2. FanOut(v) => h'[v].pc \in {"fanout", "enqueue"}
    <3> SUFFICES ASSUME FanOut(v) PROVE h'[v].pc \in {"fanout", "enqueue"}
      OBVIOUS
    <3>1. PICK w \in h[v].todo : Hand(v, w)
      BY DEF FanOut
    <3>2. h[v].pc = "fanout"
      BY DEF FanOut
    <3> QED  BY <3>1, <3>2, HandStep
  <2> QED  BY <1>6, <2>1, <2>2
<1>7. CASE Insert(v)
  <2>1. h'[v].pc = "answer"
    BY <1>1, <1>7, GoStep DEF Insert
  <2> QED  BY <1>7, <2>1
<1>8. CASE Delivered(v) \/ Answer(v)
  <2>1. h'[v].pc \in {"recv", "end"}
    BY <1>8, DeliveredStep, AnswerStep
  <2> QED  BY <1>8, <2>1
<1>9. CASE FlushRead(v) \/ FlushSend(v)
  <2>1. FlushRead(v) => h'[v].pc \in {"flush", "clear"}
    BY <1>1, FlushReadStep
  <2>2. FlushSend(v) => h'[v].pc \in {"clear", "end"}
    BY FlushSendStep
  <2> QED  BY <1>9, <2>1, <2>2
<1>10. CASE FlushClear(v)
  <2>1. h'[v].pc = "recv"
    BY <1>1, <1>10, RecvStep DEF FlushClear
  <2> QED  BY <1>10, <2>1
<1>11. CASE End(v)
  <2>1. h'[v].pc = "ended"
    BY <1>1, <1>11, EndStep
  <2> QED  BY <1>11, <2>1
<1> QED
  BY <1>3, <1>4, <1>5, <1>6, <1>7, <1>8, <1>9, <1>10, <1>11 DEF Serve

\* What the flush of a queue is about to send, or has sent.
LEMMA FlushesWhat ==
  ASSUME Typed, [RmNext]_rmVars, NEW v \in User, h'[v].pc \in {"flush", "clear"}
  PROVE  \/ FlushRead(v) /\ h'[v].todo = queue[v] /\ (h'[v].pc = "clear" => queue[v] = {})
         \/ FlushSend(v) /\ h'[v].pc = "clear" /\ h'[v].todo = h[v].todo
            /\ Send(v, Texts(h[v].todo)) /\ Texts(h[v].todo) \in Sent
         \/ h'[v] = h[v]
<1>1. Records
  BY DEF Typed
<1>2. h'[v] = h[v] \/ FlushRead(v) \/ FlushSend(v)
  BY HandlerMoves, ServeComesTo
<1>3. CASE FlushRead(v)
  BY <1>1, <1>3, FlushReadStep
<1>4. CASE FlushSend(v)
  BY <1>4, FlushSendStep
<1> QED  BY <1>2, <1>3, <1>4

LEMMA AllCopiesMove ==
  ASSUME Typed, Newest, [RmNext]_rmVars, NEW v \in User
  PROVE  CopiesMove(v)
<1>1. Records
  BY DEF Typed
<1>2. ASSUME UNCHANGED <<queue, got, gone>>, \A w \in User : link'[w].in = link[w].in
      PROVE  CopiesMove(v)
  BY <1>2, CopiesSame
<1>3. CASE UNCHANGED rmVars
  BY <1>2, <1>3 DEF rmVars, srvVars, cliVars
<1>4. CASE Crash
  <2>1. \A w \in User : link'[w].in = link[w].in
    BY <1>1, <1>4, CrashStep
  <2> QED  BY <1>2, <1>4, <2>1 DEF Crash, cliVars
<1>5. ASSUME NEW u \in User, Start(u) PROVE CopiesMove(v)
  <2>1. UNCHANGED <<queue, got>> /\ gone' = [gone EXCEPT ![u] = @ \cup Copies(link[u].in)]
    BY <1>5 DEF Start
  <2>2. link'[u].in = <<>> /\ \A w \in User \ {u} : link'[w] = link[w]
    BY <1>1, <1>5, StartStep
  <2>3. link[u].in \in Seq(Sent) /\ Copies(link'[u].in) = {}
    BY <1>1, <2>2, Fields, CopiesOfNone
  <2>4. Copies(link[u].in) = Copies(link'[u].in) \cup Copies(link[u].in)
    BY <2>3
  <2> QED  BY <1>1, <2>1, <2>2, <2>3, <2>4, CopiesEnded
<1>6. ASSUME NEW u \in User, Break(u) PROVE CopiesMove(v)
  <2>1. UNCHANGED <<queue, got>>
    BY <1>6 DEF Break, srvVars, cliVars
  <2>2. PICK i \in 0..Len(link[u].in) :
          /\ \A w \in User \ {u} : link'[w] = link[w]
          /\ link'[u].in = SubSeq(link[u].in, 1, i)
          /\ gone' = [gone EXCEPT ![u] = @ \cup Copies(SubSeq(link[u].in, i + 1, Len(link[u].in)))]
    BY <1>1, <1>6, BreakStep
  <2>3. PICK s : s = SubSeq(link[u].in, i + 1, Len(link[u].in))
    OBVIOUS
  <2>4. s \in Seq(Sent) /\ Copies(link[u].in) = Copies(link'[u].in) \cup Copies(s)
    <3>1. link[u].in \in Seq(Sent)
      BY <1>1, Fields
    <3> QED  BY <2>2, <2>3, <3>1, RangeOfParts, CopiesOfParts
  <2>5. gone' = [gone EXCEPT ![u] = @ \cup Copies(s)]
    BY <2>2, <2>3
  <2> QED  BY <1>1, <2>1, <2>2, <2>4, <2>5, CopiesEnded
<1>7. ASSUME NEW u \in User, Command(u) PROVE CopiesMove(v)
  <2>1. UNCHANGED <<queue, got, gone>>
    BY <1>7 DEF Command, Create, Join, Leave, Post, srvVars
  <2>2. \A w \in User : link'[w].in = link[w].in
    BY <1>1, <1>7, CommandWrites, WritesStep
  <2> QED  BY <1>2, <2>1, <2>2
<1>8. ASSUME NEW u \in User, ui[u].pc = "wait", ui[u].kind = "post", NEW list, Transmit(u, list)
      PROVE  \A w \in User : link'[w].in = link[w].in
  <2>1. PICK p \in Request : Writes(u, p)
    BY <1>8, TransmitStep
  <2> QED  BY <1>1, <2>1, WritesStep
<1>9. ASSUME NEW u \in User, Conclude(u) PROVE CopiesMove(v)
  <2>1. UNCHANGED <<queue, got, gone>>
    BY <1>9 DEF Conclude, srvVars
  <2>2. ui[u].pc = "wait" /\ (UNCHANGED link \/ (ui[u].kind = "post" /\ \E list : Transmit(u, list)))
    BY <1>9 DEF Conclude
  <2> QED  BY <1>2, <1>8, <2>1, <2>2
<1>10. ASSUME NEW u \in User, Timeout(u) PROVE CopiesMove(v)
  <2>1. UNCHANGED <<queue, got>>
    BY <1>10 DEF Timeout, srvVars
  <2>2. CASE Exit(u)
    <3>1. /\ gone' = [gone EXCEPT ![u] = @ \cup Copies(link[u].in)]
          /\ link'[u].in = <<>> /\ \A w \in User \ {u} : link'[w] = link[w]
      BY <1>1, <2>2, ExitStep
    <3>2. link[u].in \in Seq(Sent) /\ Copies(link'[u].in) = {}
      BY <1>1, <3>1, Fields, CopiesOfNone
    <3>3. Copies(link[u].in) = Copies(link'[u].in) \cup Copies(link[u].in)
      BY <3>2
    <3> QED  BY <1>1, <2>1, <3>1, <3>2, <3>3, CopiesEnded
  <2>3. CASE UNCHANGED <<link, gone>>
    BY <1>2, <2>1, <2>3
  <2>4. CASE ui[u].pc = "wait" /\ ui[u].kind = "post" /\ Transmit(u, {}) /\ UNCHANGED gone
    BY <1>2, <1>8, <2>1, <2>4
  <2> QED  BY <1>10, <2>2, <2>3, <2>4 DEF Timeout
<1>11. ASSUME NEW u \in User, Keep(u) \/ Store(u) PROVE CopiesMove(v)
  BY <1>2, <1>11 DEF Keep, Store, srvVars
<1>12. ASSUME NEW u \in User, Receive(u) PROVE CopiesMove(v)
  <2>1. UNCHANGED <<queue, gone>>
    BY <1>12 DEF Receive, srvVars
  <2>2. /\ link[u].in # <<>> /\ link'[u].in = Tail(link[u].in)
        /\ \A w \in User \ {u} : link'[w] = link[w]
        /\ got' = [got EXCEPT ![u] = @ \cup Copies(<<Head(link[u].in)>>)]
    BY <1>1, <1>12, ReceiveStep
  <2>3. got \in [User -> SUBSET Message] /\ link[u].in \in Seq(Sent)
    BY <1>1, Fields DEF Records
  <2>4. CASE v # u
    BY <2>1, <2>2, <2>3, <2>4, CopiesSame
  <2>5. CASE v = u
    <3>1. got'[u] = got[u] \cup Copies(<<Head(link[u].in)>>)
      BY <2>2, <2>3
    <3>2. Copies(link[u].in) = Copies(<<Head(link[u].in)>>) \cup Copies(link'[u].in)
      BY <2>2, <2>3, CopiesOfTail
    <3> QED  BY <2>1, <2>5, <3>1, <3>2 DEF CopiesMove, Left
  <2> QED  BY <2>4, <2>5
<1> QED
  BY <1>3, <1>4, <1>5, <1>6, <1>7, <1>9, <1>10, <1>11, <1>12, ServeCopies DEF RmNext, Resume, Read

LEMMA SealingStep ==
  ASSUME Typed, Newest, Sealing, [RmNext]_rmVars
  PROVE  Sealing'
<1>1. Typed' /\ Records
  BY TypedStep DEF Typed
<1>2. ASSUME NEW u \in User
      PROVE  \A m \in queue[u] \cup got[u] \cup Copies(link[u].in) \cup Flushing(u) : Author[m] # u
  BY DEF Sealing, NotOwn, Flushing
<1>3. ASSUME NEW u \in User
      PROVE  \A m \in queue'[u] \cup got'[u] \cup Copies(link'[u].in) : Author[m] # u
  BY <1>2, AllCopiesMove DEF CopiesMove
<1>4. ASSUME NEW u \in User, h'[u].pc \in {"flush", "clear"}
      PROVE  \A m \in h'[u].todo : Author[m] # u
  <2>1. h'[u].todo = queue[u] \/ (h'[u].todo = h[u].todo /\ h[u].pc \in {"flush", "clear"})
    <3>1. CASE h'[u] = h[u]
      BY <1>4, <3>1
    <3>2. CASE FlushSend(u) /\ h'[u].todo = h[u].todo
      BY <3>2 DEF FlushSend
    <3> QED  BY <1>4, <3>1, <3>2, FlushesWhat
  <2> QED  BY <1>2, <2>1 DEF Flushing
<1> QED  BY <1>3, <1>4, ListKept, SealedKept DEF Sealing, NotOwn

\* A member to whom a text is sealed off was not among those that ROOM_MEMBERS told its
\* author of when he wrote it (send_message), or has given him no key: the list that an
\* author waits for is the last one made for this text.
THEOREM NobodyLeftOut == RmSpec => []LockedOnlyNewcomers
<1>1. RmInit => Sealing
  <2> SUFFICES ASSUME RmInit PROVE Sealing
    OBVIOUS
  <2>1. NotOwn
    BY Constants, CopiesOfNone DEF RmInit, NotOwn, Recv
  <2>2. \A u \in User : ListOf(u)
    BY DEF RmInit, ListOf, Idle
  <2>3. \A m \in Message : SealedOf(m)
    BY DEF RmInit, SealedOf
  <2> QED  BY <2>1, <2>2, <2>3 DEF Sealing
<1>2. (Typed /\ Newest) /\ Sealing /\ [RmNext]_rmVars => Sealing'
  BY SealingStep
<1>3. (Typed /\ Newest) /\ Sealing => LockedOnlyNewcomers
  <2> SUFFICES ASSUME Typed, Sealing, NEW u \in User, NEW m \in got[u],
                      sealed[m] # {}, u \notin sealed[m]
               PROVE  u \notin listed[m] \cap Knows[Author[m]]
    BY DEF LockedOnlyNewcomers
  <2>1. m \in Message
    BY DEF Typed, Records
  <2>2. sealed[m] = (listed[m] \ {Author[m]}) \cap Knows[Author[m]]
    BY <2>1 DEF Sealing, SealedOf
  <2>3. Author[m] # u
    BY DEF Sealing, NotOwn
  <2> QED  BY <2>2, <2>3
<1> QED  BY <1>1, <1>2, <1>3, TypedHolds, PTL DEF RmSpec

-----------------------------------------------------------------------------
\* The fan-out.

\* A handler comes to a text by its frame, which is taken from the wire.
LEMMA PassedStep ==
  ASSUME Typed, [RmNext]_rmVars, NEW m \in Message, Passed(m)'
  PROVE  LET u == Author[m] IN
         Passed(m) \/ (ServePost(u) /\ Frame(u).msg = m /\ h'[u].pc = "route")
<1> DEFINE u == Author[m]
<1>1. u \in User
  BY RoomsAssumption
<1>2. h'[u].pc \in {"route", "fanout", "enqueue"} /\ h'[u].msg = m
  BY DEF Passed
<1> HIDE DEF u
<1>3. CASE h'[u] = h[u]
  BY <1>2, <1>3 DEF Passed, u
<1>4. CASE Serve(u)
  <2>1. CASE ServePost(u)
    BY <1>1, <1>2, <2>1, ServePostStep DEF ServePost, Takes, u
  <2>2. CASE Route(u)
    BY <1>1, <1>2, <2>2, RouteStep DEF Route, Passed, u
  <2>3. CASE FanOut(u)
    <3>1. PICK v \in h[u].todo : Hand(u, v)
      BY <2>3 DEF FanOut
    <3>2. h[u].pc = "fanout"
      BY <2>3 DEF FanOut
    <3>3. h'[u].msg = h[u].msg
      BY <1>1, <3>1, <3>2, HandStep
    <3> QED  BY <1>2, <3>2, <3>3 DEF Passed, u
  <2>4. CASE Enqueue(u)
    BY <1>1, <1>2, <2>4, EnqueueStep DEF Enqueue, Passed, u
  <2> QED  BY <1>1, <1>2, <1>4, <2>1, <2>2, <2>3, <2>4, ServeComesTo
<1> QED  BY <1>1, <1>2, <1>3, <1>4, HandlerMoves

\* An author is told of a text when its fan-out is over.
LEMMA AckedStep ==
  ASSUME Typed, [RmNext]_rmVars, NEW m \in acked', m \notin acked
  PROVE  LET u == Author[m] IN
         /\ u \in User /\ m \in Message /\ Delivered(u) /\ h[u].msg = m /\ h[u].pc = "fanout"
         /\ h[u].todo = {} /\ h'[u].pc = "recv" /\ m \in posted
<1>1. ASSUME NEW u \in User, Delivered(u)
      PROVE  /\ Author[m] = u /\ m \in Message /\ h[u].msg = m /\ h[u].pc = "fanout"
             /\ h[u].todo = {} /\ h'[u].pc = "recv" /\ m \in posted
  <2>1. h[u].pc = "fanout" /\ h[u].todo = {}
    BY <1>1 DEF Delivered
  <2>2. /\ h[u].msg \in Message /\ Writing(u, h[u].msg)
        /\ (h'[u].pc = "recv" /\ acked' = acked \cup {h[u].msg}) \/ UNCHANGED acked
    BY <1>1, DeliveredStep
  <2> QED  BY <2>1, <2>2 DEF Writing
<1>2. ASSUME NEW u \in User,
             Start(u) \/ Break(u) \/ Command(u) \/ Resume(u) \/ Read(u)
      PROVE  acked' = acked
  BY <1>2 DEF Start, Break, Command, Create, Join, Leave, Post, Resume, Conclude, Timeout, Keep,
     Read, Receive, Store, srvVars
<1>3. ASSUME NEW u \in User, Serve(u), ~Delivered(u) PROVE acked' = acked
  BY <1>3 DEF Serve, FlushRead, FlushSend, FlushClear, ServeCreate, ServeJoin, Insert, ServeLeave,
     ServeMembers, ServePost, Route, FanOut, Enqueue, Answer, End
<1>4. CASE Crash \/ UNCHANGED rmVars
  BY <1>4 DEF Crash, rmVars, srvVars
<1>5. PICK u \in User : Delivered(u)
  BY <1>2, <1>3, <1>4 DEF RmNext
<1> QED  BY <1>1, <1>5

\* Its members are read once.
LEMMA AudienceStep ==
  ASSUME Typed, [RmNext]_rmVars, NEW m \in Message
  PROVE  LET u == Author[m] IN audience'[m] = audience[m] \/ (Route(u) /\ h[u].msg = m)
<1>1. ASSUME NEW u \in User, Route(u)
      PROVE  audience'[m] = audience[m] \/ (u = Author[m] /\ h[u].msg = m)
  <2>1. /\ audience' = [audience EXCEPT ![h[u].msg] = members[h[u].room] \ {u}]
        /\ Author[h[u].msg] = u
    BY <1>1, RouteStep DEF Writing
  <2> QED  BY <2>1 DEF Typed, Records
<1>2. ASSUME NEW u \in User,
             Start(u) \/ Break(u) \/ Command(u) \/ Resume(u) \/ Read(u)
      PROVE  audience' = audience
  BY <1>2 DEF Start, Break, Command, Create, Join, Leave, Post, Resume, Conclude, Timeout, Keep,
     Read, Receive, Store, srvVars
<1>3. ASSUME NEW u \in User, Serve(u), ~Route(u) PROVE audience' = audience
  BY <1>3 DEF Serve, FlushRead, FlushSend, FlushClear, ServeCreate, ServeJoin, Insert, ServeLeave,
     ServeMembers, ServePost, FanOut, Enqueue, Delivered, Answer, End
<1>4. CASE Crash \/ UNCHANGED rmVars
  BY <1>4 DEF Crash, rmVars, srvVars
<1> QED  BY <1>1, <1>2, <1>3, <1>4 DEF RmNext

LEMMA SingleKept ==
  ASSUME Typed, NEW u \in User, OutMoves(u), NEW m, SingleOn(link[u].out, m),
         \A p \in Request : p.type = "post" /\ p.msg = m /\ Written(u, p) =>
           \A i \in DOMAIN link[u].out : ~(link[u].out[i].type = "post" /\ link[u].out[i].msg = m)
  PROVE  SingleOn(link'[u].out, m)
<1>1. Records /\ link[u].out \in Seq(Request)
  BY Fields DEF Typed
<1>2. ASSUME NEW type, Takes(u, type) PROVE SingleOn(link'[u].out, m)
  <2>1. link'[u].out = Tail(link[u].out) /\ link[u].out # <<>>
    BY <1>1, <1>2, TakesStep
  <2>2. \A i \in DOMAIN link'[u].out : i + 1 \in DOMAIN link[u].out /\ link'[u].out[i] = link[u].out[i + 1]
    BY <1>1, <2>1, RangeOfTail
  <2>3. DOMAIN link'[u].out \subseteq Int
    BY <1>1, <2>1, RangeOfTail
  <2> QED  BY <2>2, <2>3 DEF SingleOn
<1>3. ASSUME NEW o \in 0..Len(link[u].out), link'[u].out = SubSeq(link[u].out, 1, o)
      PROVE  SingleOn(link'[u].out, m)
  BY <1>1, <1>3, RangeOfParts DEF SingleOn
<1>4. CASE link'[u].out = <<>>
  BY <1>4 DEF SingleOn
<1>5. ASSUME NEW p \in Request, link'[u].out = Append(link[u].out, p), Written(u, p)
      PROVE  SingleOn(link'[u].out, m)
  <2>1. /\ \A i \in DOMAIN link[u].out : link'[u].out[i] = link[u].out[i]
        /\ link'[u].out[Len(link[u].out) + 1] = p
        /\ DOMAIN link'[u].out = DOMAIN link[u].out \cup {Len(link[u].out) + 1}
    BY <1>1, <1>5, RangeOfAppend
  <2> QED  BY <1>5, <2>1 DEF SingleOn
<1> QED  BY <1>2, <1>3, <1>4, <1>5 DEF OutMoves

LEMMA OnceStep ==
  ASSUME Typed, Newest, Once, [RmNext]_rmVars
  PROVE  Once'
<1>1. Typed' /\ Records /\ posted \subseteq posted'
  BY TypedStep, PostedGrows DEF Typed
<1>2. acked' \subseteq posted'
  BY <1>1, AckedStep DEF Once
<1>3. ASSUME NEW m \in Message PROVE OnceOf(m)'
  <2> DEFINE u == Author[m]
  <2>1. u \in User /\ OnceOf(m)
    BY RoomsAssumption DEF Once
  <2> HIDE DEF u
  <2>2. OutMoves(u) /\ CommandMoves(u)
    BY <2>1, Moves
  <2>3. Asking(m) \/ OnWire(m) \/ Passed(m) => m \in posted
    BY <2>1 DEF Asking, OnWire, Passed, Typed, CommandOK, HandlerOK, FrameOK, Writing, u
  <2>4. Asking(m)' => Asking(m) \/ m \notin posted
    BY <2>2 DEF Asking, CommandMoves, u
  <2>5. OnWire(m)' => OnWire(m) \/ ((m \notin posted \/ Asking(m)) /\ ~Asking(m)')
    <3> SUFFICES ASSUME NEW p \in Range(link'[u].out), p.type = "post", p.msg = m
                 PROVE  OnWire(m) \/ ((m \notin posted \/ Asking(m)) /\ ~Asking(m)')
      BY DEF OnWire, u
    <3>1. p \in Range(link[u].out) \/ Written(u, p)
      BY <2>1, <2>2, FramesMove
    <3> QED  BY <3>1 DEF Written, OnWire, Asking, u
  <2>6. Passed(m)' => Passed(m) \/ (OnWire(m) /\ ~OnWire(m)')
    <3> SUFFICES ASSUME ServePost(u), Frame(u).msg = m
                 PROVE  OnWire(m) /\ ~OnWire(m)'
      BY PassedStep DEF u
    <3>1. Takes(u, "post")
      BY DEF ServePost
    <3>2. /\ Frame(u) = link[u].out[1] /\ 1 \in DOMAIN link[u].out /\ Frame(u).type = "post"
          /\ Frame(u) \in Range(link[u].out) /\ link'[u].out = Tail(link[u].out)
          /\ link[u].out \in Seq(Request) /\ link[u].out # <<>>
      BY <1>1, <2>1, <3>1, TakesStep, Fields
    <3>3. /\ Tail(link[u].out) \in Seq(Request)
          /\ \A i \in DOMAIN Tail(link[u].out) :
               i + 1 \in DOMAIN link[u].out /\ Tail(link[u].out)[i] = link[u].out[i + 1]
      BY <3>2, RangeOfTail
    <3>4. ASSUME NEW i \in DOMAIN Tail(link[u].out),
                 Tail(link[u].out)[i].type = "post", Tail(link[u].out)[i].msg = m
          PROVE  FALSE
      <4>1. i + 1 = 1
        BY <2>1, <3>2, <3>3, <3>4 DEF OnceOf, SingleOn, u
      <4>2. i \in 1..Len(Tail(link[u].out))
        BY <3>3, <3>4
      <4> QED  BY <4>1, <4>2
    <3>5. ~OnWire(m)'
      <4>1. ASSUME NEW p \in Range(link'[u].out) PROVE ~(p.type = "post" /\ p.msg = m)
        <5>1. PICK i \in DOMAIN Tail(link[u].out) : p = Tail(link[u].out)[i]
          BY <3>2, <4>1 DEF Range
        <5> QED  BY <3>4, <5>1
      <4> QED  BY <4>1 DEF OnWire, u
    <3>6. OnWire(m)
      BY <3>2 DEF OnWire, u
    <3> QED  BY <3>5, <3>6
  <2>7. SingleOn(link'[u].out, m)
    <3>1. ASSUME NEW p \in Request, p.type = "post", p.msg = m, Written(u, p)
          PROVE  ~OnWire(m)
      BY <2>1, <2>3, <3>1 DEF Written, Asking, OnceOf, u
    <3>2. ASSUME NEW p \in Request, p.type = "post", p.msg = m, Written(u, p),
                 NEW i \in DOMAIN link[u].out, link[u].out[i].type = "post", link[u].out[i].msg = m
          PROVE  FALSE
      <4>1. link[u].out[i] \in Range(link[u].out)
        BY <3>2 DEF Range
      <4> QED  BY <3>1, <3>2, <4>1 DEF OnWire, u
    <3>3. SingleOn(link[u].out, m)
      BY <2>1 DEF OnceOf, u
    <3> QED  BY <2>1, <2>2, <3>2, <3>3, SingleKept
  <2>8. m \in acked' => m \in acked \/ (Passed(m) /\ ~Passed(m)')
    BY AckedStep DEF Passed, u
  <2>9. m \in acked => m \in posted
    BY DEF Once
  <2>10. SingleOn(link[Author[m]].out, m)'
    BY <2>7 DEF u
  <2>11. /\ Asking(m) => ~OnWire(m) /\ ~Passed(m)
         /\ OnWire(m) => ~Passed(m)
         /\ m \in acked => ~Asking(m) /\ ~OnWire(m) /\ ~Passed(m)
    BY <2>1 DEF OnceOf
  <2>12. /\ Asking(m)' => ~OnWire(m)' /\ ~Passed(m)'
         /\ OnWire(m)' => ~Passed(m)'
         /\ m \in acked' => ~Asking(m)' /\ ~OnWire(m)' /\ ~Passed(m)'
    BY <2>3, <2>4, <2>5, <2>6, <2>8, <2>9, <2>11
  <2> QED  BY <2>10, <2>12 DEF OnceOf
<1> QED  BY <1>2, <1>3 DEF Once

\* A copy stays, wherever it goes.
LEMMA HeldKept ==
  ASSUME Typed, Newest, Delivery, [RmNext]_rmVars, NEW v \in User, NEW m, Held(v, m)
  PROVE  Held(v, m)'
<1>1. CopiesMove(v)
  BY AllCopiesMove
<1>2. h[v].pc = "clear" => h[v].todo \subseteq Left(v)
  BY DEF Delivery, FanningOut, Left
<1>3. m \in queue[v] \/ m \in Left(v)
  BY DEF Held, Left
<1>4. m \in queue'[v] \/ m \in Left(v)'
  BY <1>1, <1>2, <1>3 DEF CopiesMove
<1> QED  BY <1>4 DEF Held, Left

LEMMA ClearedStep ==
  ASSUME Typed, Newest, Delivery, [RmNext]_rmVars, NEW u \in User, h'[u].pc = "clear"
  PROVE  h'[u].todo \subseteq Left(u)'
<1>1. Records
  BY DEF Typed
<1>2. CASE h'[u] = h[u]
  <2>1. h[u].todo \subseteq Left(u)
    BY <1>2 DEF Delivery, FanningOut, Left
  <2> QED  BY <1>2, <2>1, AllCopiesMove DEF CopiesMove
<1>3. CASE h'[u].todo = queue[u] /\ queue[u] = {}
  BY <1>3
<1>4. CASE h'[u].todo = h[u].todo /\ Send(u, Texts(h[u].todo)) /\ Texts(h[u].todo) \in Sent
  <2>1. link'[u].in = Append(link[u].in, Texts(h[u].todo)) /\ link[u].in \in Seq(Sent)
    BY <1>1, <1>4, SendStep, Fields
  <2>2. Texts(h[u].todo).type = "texts" /\ Texts(h[u].todo).msgs = h[u].todo
    BY DEF Texts
  <2>3. Copies(link'[u].in) = Copies(link[u].in) \cup h[u].todo
    BY <1>4, <2>1, <2>2, CopiesOfAppend
  <2> QED  BY <1>4, <2>3 DEF Left
<1> QED  BY <1>2, <1>3, <1>4, FlushesWhat

LEMMA FanningStep ==
  ASSUME Typed, Newest, Delivery, [RmNext]_rmVars, NEW u \in User,
         h'[u].pc \in {"fanout", "enqueue"}, NEW m, m = h'[u].msg, NEW v \in audience'[m]
  PROVE  v \in h'[u].todo \cup h'[u].at \/ Held(v, m)'
<1>1. Records /\ HandlerOK(u) /\ Typed'
  BY TypedStep DEF Typed
<1>2. m \in Message /\ Author[m] = u /\ v \in User
  <2>1. Records' /\ HandlerOK(u)'
    BY <1>1 DEF Typed
  <2> QED  BY <2>1 DEF HandlerOK, Writing, Records
<1>3. ASSUME m = h[u].msg, h[u].pc \in {"fanout", "enqueue"}
      PROVE  v \in h[u].todo \cup h[u].at \/ Held(v, m)'
  <2>1. ~Route(u)
    BY <1>3 DEF Route
  <2>2. audience'[m] = audience[m]
    BY <1>2, <1>3, <2>1, AudienceStep
  <2>3. v \in h[u].todo \cup h[u].at \/ Held(v, m)
    BY <1>3, <2>2 DEF Delivery, FanningOut
  <2> QED  BY <1>2, <2>3, HeldKept
<1>4. CASE h'[u] = h[u]
  BY <1>3, <1>4
<1>5. CASE Route(u)
  BY <1>1, <1>2, <1>5, RouteStep DEF Records
<1>6. CASE FanOut(u)
  <2>1. PICK w \in h[u].todo : Hand(u, w)
    BY <1>6 DEF FanOut
  <2>2. h[u].pc = "fanout" /\ h[u].at = {}
    BY <1>1, <1>6 DEF FanOut, HandlerOK
  <2>3. m = h[u].msg /\ h'[u].todo = h[u].todo \ {w} /\ w \in User
    BY <2>1, <2>2, HandStep
  <2>4. v \in h[u].todo \/ Held(v, m)'
    BY <1>3, <2>2, <2>3
  <2>5. CASE v # w
    BY <2>3, <2>4, <2>5
  <2>6. CASE v = w /\ Send(w, Texts({m})) /\ Texts({m}) \in Sent
    <3>1. link'[w].in = Append(link[w].in, Texts({m})) /\ link[w].in \in Seq(Sent)
      BY <1>1, <2>3, <2>6, SendStep, Fields
    <3>2. Texts({m}).type = "texts" /\ Texts({m}).msgs = {m}
      BY DEF Texts
    <3>3. m \in Copies(link'[w].in)
      BY <2>6, <3>1, <3>2, CopiesOfAppend
    <3> QED  BY <2>3, <2>6, <3>3 DEF Held
  <2>7. CASE v = w /\ h'[u].at = {w}
    BY <2>7
  <2> QED  BY <2>1, <2>2, <2>5, <2>6, <2>7, HandStep
<1>7. CASE Enqueue(u)
  <2>1. /\ m = h[u].msg /\ h'[u].todo = h[u].todo /\ h[u].pc = "enqueue"
        /\ \A w \in h[u].at : queue'[w] = queue[w] \cup {m}
    BY <1>7, EnqueueStep DEF Enqueue
  <2>2. v \in h[u].todo \cup h[u].at \/ Held(v, m)'
    BY <1>3, <2>1
  <2>3. v \in h[u].at => m \in queue'[v]
    BY <2>1
  <2>4. v \in h[u].at => Held(v, m)'
    BY <2>3 DEF Held
  <2> QED  BY <2>1, <2>2, <2>4
<1>8. h'[u] = h[u] \/ Route(u) \/ FanOut(u) \/ Enqueue(u)
  <2>1. h'[u].pc \notin {"read", "ended"}
    OBVIOUS
  <2> QED  BY <2>1, HandlerMoves, ServeComesTo
<1> QED  BY <1>4, <1>5, <1>6, <1>7, <1>8

LEMMA DeliveryStep ==
  ASSUME Typed, Newest, Once, Delivery, [RmNext]_rmVars
  PROVE  Delivery'
<1>1. Records
  BY DEF Typed
<1>2. ASSUME NEW u \in User PROVE FanningOut(u)'
  <2>1. h'[u].pc = "clear" => h'[u].todo \subseteq Left(u)'
    BY ClearedStep
  <2>2. PICK m : m = h'[u].msg
    OBVIOUS
  <2>3. h'[u].pc \in {"fanout", "enqueue"} =>
          \A v \in audience'[m] : v \in h'[u].todo \cup h'[u].at \/ Held(v, m)'
    BY <2>2, FanningStep
  <2> QED  BY <2>1, <2>2, <2>3 DEF FanningOut, Left, Held
<1>3. ASSUME NEW m \in acked', NEW v \in audience'[m] PROVE Held(v, m)'
  <2> DEFINE u == Author[m]
  <2>1. m \in Message
    BY <1>1, AckedStep DEF Records
  <2>2. u \in User /\ (audience'[m] = audience[m] \/ (Route(u) /\ h[u].msg = m))
    BY <2>1, AudienceStep, RoomsAssumption
  <2>3. ~(Route(u) /\ h[u].msg = m)
    <3> SUFFICES ASSUME Route(u), h[u].msg = m PROVE FALSE
      OBVIOUS
    <3>1. Passed(m) /\ h[u].pc = "route"
      BY DEF Route, Passed
    <3>2. m \notin acked
      BY <2>1, <3>1 DEF Once, OnceOf
    <3> QED  BY <3>1, <3>2, AckedStep
  <2> HIDE DEF u
  <2>4. v \in audience[m] /\ v \in User
    BY <1>1, <2>1, <2>2, <2>3 DEF Records
  <2>5. CASE m \in acked
    <3>1. Held(v, m)
      BY <2>4, <2>5 DEF Delivery, DeliveredMeansAll, Held
    <3> QED  BY <2>4, <3>1, HeldKept
  <2>6. CASE m \notin acked
    <3>1. h[u].msg = m /\ h[u].pc = "fanout" /\ h[u].todo = {} /\ u \in User
      BY <2>6, AckedStep DEF u
    <3>2. h[u].at = {}
      BY <3>1 DEF Typed, HandlerOK
    <3>3. Held(v, m)
      BY <2>4, <3>1, <3>2 DEF Delivery, FanningOut
    <3> QED  BY <2>4, <3>3, HeldKept
  <2> QED  BY <2>5, <2>6
<1>4. DeliveredMeansAll'
  BY <1>3 DEF DeliveredMeansAll, Held
<1> QED  BY <1>2, <1>4 DEF Delivery

\* Once router.route_room_message is over and the author told "delivered", there is or was
\* a copy of his text for every member it was sent to: whoever joins or leaves, whatever
\* breaks or is flushed meanwhile, and however the server is killed.
THEOREM DeliveredIsAll == RmSpec => []DeliveredMeansAll
<1>1. RmInit => Once /\ Delivery
  <2> SUFFICES ASSUME RmInit PROVE Once /\ Delivery
    OBVIOUS
  <2>1. \A u \in User : h[u].pc = "recv" /\ ui[u].pc = "idle" /\ link[u].out = <<>>
    BY Constants DEF RmInit, Recv, Idle
  <2>2. ASSUME NEW m \in Message PROVE OnceOf(m)
    <3>1. Author[m] \in User
      BY RoomsAssumption
    <3>2. ~Asking(m) /\ ~Passed(m)
      BY <2>1, <3>1 DEF Asking, Passed
    <3>3. ~OnWire(m)
      BY <2>1, <3>1, RangeOfNone DEF OnWire
    <3>4. SingleOn(link[Author[m]].out, m)
      BY <2>1, <3>1 DEF SingleOn
    <3> QED  BY <3>2, <3>3, <3>4 DEF OnceOf
  <2>3. acked = {}
    BY DEF RmInit
  <2> QED  BY <2>1, <2>2, <2>3 DEF Once, Delivery, FanningOut, DeliveredMeansAll
<1>2. (Typed /\ Newest) /\ (Once /\ Delivery) /\ [RmNext]_rmVars => (Once /\ Delivery)'
  BY OnceStep, DeliveryStep
<1>3. Once /\ Delivery => DeliveredMeansAll
  BY DEF Delivery
<1> QED  BY <1>1, <1>2, <1>3, TypedHolds, PTL DEF RmSpec

-----------------------------------------------------------------------------
\* The rows of a client: what a step does to one room of them.

LEMMA SteadyStep ==
  ASSUME Typed, [RmNext]_rmVars, NEW u \in User, Steady(u)'
  PROVE  Steady(u) /\ ~Start(u) /\ ~Break(u) /\ ~Crash
<1>1. Records /\ CommandOK(u) /\ crashes \in Nat /\ runs[u] \in Nat
  BY Fields DEF Typed, Records
<1>2. ~Crash
  BY <1>1, CrashStep DEF Steady
<1>3. ~Break(u)
  BY <1>1, BreakStep DEF Steady
<1>4. crashes' = crashes
  <2>1. ASSUME NEW v \in User, Start(v) \/ Break(v) \/ Command(v) \/ Resume(v) \/ Read(v)
        PROVE  crashes' = crashes
    BY <2>1 DEF Start, Break, Command, Create, Join, Leave, Post, Resume, Conclude, Timeout, Keep,
       Read, Receive, Store, srvVars
  <2>2. ASSUME NEW v \in User, Serve(v) PROVE crashes' = crashes
    BY <2>2 DEF Serve, FlushRead, FlushSend, FlushClear, ServeCreate, ServeJoin, Insert, ServeLeave,
       ServeMembers, ServePost, Route, FanOut, Enqueue, Delivered, Answer, End
  <2>3. CASE UNCHANGED rmVars
    BY <2>3 DEF rmVars, srvVars
  <2> QED  BY <1>2, <2>1, <2>2, <2>3 DEF RmNext
<1>5. runs'[u] = runs[u] \/ (Start(u) /\ runs'[u] = runs[u] + 1)
  <2>1. ASSUME NEW v \in User, Start(v)
        PROVE  runs'[u] = runs[u] \/ (Start(u) /\ runs'[u] = runs[u] + 1)
    BY <1>1, <2>1 DEF Start, Records
  <2>2. ASSUME NEW v \in User, Break(v) \/ Command(v) \/ Serve(v) \/ Resume(v) \/ Read(v)
        PROVE  runs' = runs
    BY <2>2 DEF Break, Command, Create, Join, Leave, Post, Resume, Conclude, Timeout,
     Keep, Read, Receive, Store, Serve, FlushRead, FlushSend, FlushClear, ServeCreate, ServeJoin,
     Insert, ServeLeave, ServeMembers, ServePost, Route, FanOut, Enqueue, Delivered, Answer, End,
     cliVars
  <2>3. CASE UNCHANGED rmVars
    BY <2>3 DEF rmVars, cliVars
  <2> QED  BY <1>2, <2>1, <2>2, <2>3 DEF RmNext
<1>6. ~Start(u) /\ runs'[u] = runs[u]
  <2>1. runs[u] >= 1
    BY <1>1 DEF CommandOK
  <2>2. runs'[u] = 1
    BY DEF Steady
  <2>3. ~(runs'[u] = runs[u] + 1)
    BY <1>1, <2>1, <2>2
  <2>4. ~Start(u)
    <3> SUFFICES ASSUME Start(u) PROVE runs'[u] = runs[u] + 1
      BY <2>3
    <3> QED  BY <1>1 DEF Start, Records
  <2> QED  BY <1>5, <2>3, <2>4
<1>7. link[u].up
  <2>1. ASSUME NEW v \in User, Start(v), v # u PROVE link'[u] = link[u]
    BY <1>1, <2>1, StartStep
  <2>2. ASSUME NEW v \in User, Break(v), v # u PROVE link'[u] = link[u]
    BY <1>1, <2>2, BreakStep
  <2>3. ASSUME NEW v \in User, Command(v) PROVE link'[u].up = link[u].up
    BY <1>1, <2>3, CommandWrites, WritesStep
  <2>4. ASSUME NEW v \in User, Serve(v) PROVE link'[u].up = link[u].up
    <3>1. ASSUME NEW w \in User, NEW p \in Sent, Send(w, p) PROVE link'[u].up = link[u].up
      BY <1>1, <3>1, SendStep
    <3>2. ASSUME NEW type, Takes(v, type) PROVE link'[u].up = link[u].up
      BY <1>1, <3>2, TakesStep
    <3>3. CASE FanOut(v)
      <4>1. PICK w \in h[v].todo : Hand(v, w)
        BY <3>3 DEF FanOut
      <4>2. h[v].pc = "fanout"
        BY <3>3 DEF FanOut
      <4> QED  BY <3>1, <4>1, <4>2, HandStep
    <3>4. CASE FlushSend(v) \/ Delivered(v) \/ Answer(v)
      BY <3>1, <3>4, FlushSendStep, DeliveredStep, AnswerStep
    <3>5. CASE End(v)
      BY <1>1, <3>5, EndStep
    <3> QED
      BY <2>4, <3>2, <3>3, <3>4, <3>5
      DEF Serve, FlushRead, FlushClear, ServeCreate, ServeJoin, Insert, ServeLeave, ServeMembers,
          ServePost, Route, Enqueue
  <2>5. ASSUME NEW v \in User, ui[v].pc = "wait", ui[v].kind = "post", NEW list, Transmit(v, list)
        PROVE  link'[u].up = link[u].up
    <3>1. PICK p \in Request : Writes(v, p)
      BY <2>5, TransmitStep
    <3> QED  BY <1>1, <3>1, WritesStep
  <2>6. ASSUME NEW v \in User, Resume(v) PROVE link'[u].up => link[u].up
    <3>1. CASE Exit(v)
      BY <1>1, <3>1, ExitStep
    <3> QED  BY <2>5, <2>6, <3>1 DEF Resume, Conclude, Timeout, Keep
  <2>7. ASSUME NEW v \in User, Read(v) PROVE link'[u].up = link[u].up
    BY <1>1, <2>7, ReceiveStep DEF Read, Store
  <2>8. link'[u].up
    BY DEF Steady
  <2>9. CASE UNCHANGED rmVars
    BY <2>8, <2>9 DEF rmVars
  <2> QED
    BY <1>2, <1>3, <1>6, <2>1, <2>2, <2>3, <2>4, <2>6, <2>7, <2>8, <2>9 DEF RmNext
<1> QED  BY <1>2, <1>3, <1>4, <1>6, <1>7 DEF Steady

\* Only a user's own handler changes what he is a member of.
LEMMA MembersStep ==
  ASSUME Typed, [RmNext]_rmVars, NEW u \in User, ~ServeCreate(u), ~Insert(u), ~ServeLeave(u),
         NEW r \in Room
  PROVE  u \in members'[r] <=> u \in members[r]
<1>1. members \in [Room -> SUBSET User] /\ Records
  BY DEF Typed, Records
<1>2. ASSUME NEW v \in User, ServeCreate(v), v # u PROVE u \in members'[r] <=> u \in members[r]
  <2>1. PICK q \in Room \ rooms : members' = [members EXCEPT ![q] = {v}]
    BY <1>2 DEF ServeCreate
  <2>2. members[q] = {}
    BY <2>1 DEF Typed
  <2> QED  BY <1>1, <1>2, <2>1, <2>2
<1>3. ASSUME NEW v \in User, Insert(v), v # u PROVE u \in members'[r] <=> u \in members[r]
  <2>1. PICK p \in h[v].out : members' = [members EXCEPT ![p.room] = @ \cup {v}]
    BY <1>3 DEF Insert
  <2> QED  BY <1>1, <1>3, <2>1
<1>4. ASSUME NEW v \in User, ServeLeave(v), v # u PROVE u \in members'[r] <=> u \in members[r]
  <2>1. members' = [members EXCEPT ![Frame(v).room] = @ \ {v}]
    BY <1>4 DEF ServeLeave
  <2> QED  BY <1>1, <1>4, <2>1
<1>5. ASSUME NEW v \in User,
             Start(v) \/ Break(v) \/ Command(v) \/ Resume(v) \/ Read(v)
      PROVE  members' = members
  BY <1>5 DEF Start, Break, Command, Create, Join, Leave, Post, Resume, Conclude, Timeout, Keep,
     Read, Receive, Store, srvVars
<1>6. ASSUME NEW v \in User, Serve(v), ~ServeCreate(v), ~Insert(v), ~ServeLeave(v)
      PROVE  members' = members
  BY <1>6 DEF Serve, FlushRead, FlushSend, FlushClear, ServeJoin, ServeMembers, ServePost, Route,
     FanOut, Enqueue, Delivered, Answer, End
<1>7. CASE Crash \/ UNCHANGED rmVars
  BY <1>7 DEF Crash, rmVars, srvVars
<1>8. ASSUME NEW v \in User, Serve(v) PROVE u \in members'[r] <=> u \in members[r]
  BY <1>2, <1>3, <1>4, <1>6, <1>8
<1> QED  BY <1>5, <1>7, <1>8 DEF RmNext

\* Nothing is done to the row, and what is sent besides does not touch it.
LEMMA PipelineKept ==
  ASSUME Typed, NEW u \in User, NEW r \in Room, PipelineOf(u, r),
         \/ link'[u].in = link[u].in
         \/ \E p \in Sent : link'[u].in = Append(link[u].in, p) /\ ~Touches(p, r),
         \A p : Touches(p, r) => (p \in Answering(u)' <=> p \in Answering(u)),
         net'[u] = net[u], r \in rows'[u] <=> r \in rows[u], u \in members'[r] <=> u \in members[r],
         LeaveOnWire(u, r) => LeaveOnWire(u, r)'
  PROVE  PipelineOf(u, r)'
<1>1. link[u].in \in Seq(Sent)
  BY Fields DEF Typed
<1>2. HandlerTouches(u, r)' <=> HandlerTouches(u, r)
  BY DEF HandlerTouches
<1>3. InTouches(u, r)' <=> InTouches(u, r)
  <2>1. CASE link'[u].in = link[u].in
    BY <2>1 DEF InTouches
  <2>2. ASSUME NEW p \in Sent, link'[u].in = Append(link[u].in, p), ~Touches(p, r)
        PROVE  InTouches(u, r)' <=> InTouches(u, r)
    <3>1. Range(link'[u].in) = Range(link[u].in) \cup {p}
      BY <1>1, <2>2, RangeOfAppend
    <3> QED  BY <2>2, <3>1 DEF InTouches
  <2> QED  BY <2>1, <2>2
<1>4. \A p \in Answering(u)' : Touches(p, r) => (p.left <=> u \notin members'[r])
  BY DEF PipelineOf
<1>5. ASSUME ~HandlerTouches(u, r), NEW i \in DOMAIN link'[u].in, Touches(link'[u].in[i], r),
             \A j \in DOMAIN link'[u].in : j > i => ~Touches(link'[u].in[j], r)
      PROVE  link'[u].in[i].left <=> u \notin members'[r]
  <2>1. CASE link'[u].in = link[u].in
    BY <1>5, <2>1 DEF PipelineOf
  <2>2. ASSUME NEW p \in Sent, link'[u].in = Append(link[u].in, p), ~Touches(p, r)
        PROVE  link'[u].in[i].left <=> u \notin members'[r]
    <3>1. /\ \A j \in DOMAIN link[u].in : j \in DOMAIN link'[u].in /\ link'[u].in[j] = link[u].in[j]
          /\ i \in DOMAIN link[u].in
      BY <1>1, <1>5, <2>2, RangeOfAppend
    <3> QED  BY <1>5, <3>1 DEF PipelineOf
  <2> QED  BY <2>1, <2>2
<1>6. ASSUME ~HandlerTouches(u, r), ~InTouches(u, r)
      PROVE  /\ net'[u].do # "none" /\ net'[u].room = r =>
                  (net'[u].do = "delete" <=> u \notin members'[r])
             /\ ~(net'[u].do # "none" /\ net'[u].room = r) /\ ~LeaveOnWire(u, r)' =>
                  (r \in rows'[u] <=> u \in members'[r])
  BY <1>6 DEF PipelineOf
<1> QED  BY <1>2, <1>3, <1>4, <1>5, <1>6 DEF PipelineOf

\* The handler has just done the change that it answers.
LEMMA PipelineMade ==
  ASSUME NEW u, NEW r, NEW q, Answering(u)' = {q}, Touches(q, r), q.left <=> u \notin members'[r]
  PROVE  PipelineOf(u, r)'
BY DEF PipelineOf, HandlerTouches

\* A frame is taken that does not leave the room.
LEMMA PipelineTaken ==
  ASSUME Typed, NEW u \in User, NEW r \in Room, PipelineOf(u, r), NEW type, Takes(u, type),
         UNCHANGED cliVars, type = "leave" => Frame(u).room # r,
         u \in members'[r] <=> u \in members[r],
         \A p \in Answering(u)' : ~Touches(p, r)
  PROVE  PipelineOf(u, r)'
<1>1. /\ link'[u].in = link[u].in /\ Frame(u).type = type /\ h[u].pc = "recv"
      /\ Range(link[u].out) = {Frame(u)} \cup Range(link'[u].out)
  BY TakesStep DEF Typed
<1>2. Answering(u) = {}
  BY <1>1 DEF Answering
<1>3. LeaveOnWire(u, r) => LeaveOnWire(u, r)'
  BY <1>1 DEF LeaveOnWire
<1>4. net'[u] = net[u] /\ rows'[u] = rows[u]
  BY DEF cliVars
<1> QED  BY <1>1, <1>2, <1>3, <1>4, PipelineKept

LEMMA AnswerPipeline ==
  ASSUME Typed, NEW u \in User, NEW r \in Room, PipelineOf(u, r), link[u].up, Answer(u)
  PROVE  PipelineOf(u, r)'
<1>1. link[u].in \in Seq(Sent) /\ Records
  BY Fields DEF Typed
<1>2. PICK p \in Sent : h[u].out = {p} /\ Send(u, p) /\ h'[u].pc = "recv"
  BY AnswerStep
<1>3. /\ h[u].pc = "answer" /\ UNCHANGED <<members, net, rows>>
  BY DEF Answer, cliVars
<1>4. Answering(u) = {p} /\ Answering(u)' = {}
  BY <1>2, <1>3 DEF Answering
<1>5. link'[u].in = Append(link[u].in, p) /\ link'[u].out = link[u].out
  BY <1>1, <1>2, SendStep
<1>6. CASE ~Touches(p, r)
  <2>1. LeaveOnWire(u, r)' <=> LeaveOnWire(u, r)
    BY <1>5 DEF LeaveOnWire
  <2>2. \A q : Touches(q, r) => (q \in Answering(u)' <=> q \in Answering(u))
    BY <1>4, <1>6
  <2> QED  BY <1>3, <1>5, <1>6, <2>1, <2>2, PipelineKept
<1>7. CASE Touches(p, r)
  <2>1. /\ Len(link'[u].in) = Len(link[u].in) + 1 /\ link'[u].in[Len(link[u].in) + 1] = p
        /\ DOMAIN link'[u].in = 1..(Len(link[u].in) + 1) /\ Len(link[u].in) \in Nat
        /\ p \in Range(link'[u].in)
    BY <1>1, <1>5, RangeOfAppend
  <2>2. InTouches(u, r)'
    BY <1>7, <2>1 DEF InTouches
  <2>3. p.left <=> u \notin members'[r]
    BY <1>3, <1>4, <1>7 DEF PipelineOf
  <2>4. ASSUME NEW i \in DOMAIN link'[u].in, Touches(link'[u].in[i], r),
               \A j \in DOMAIN link'[u].in : j > i => ~Touches(link'[u].in[j], r)
        PROVE  link'[u].in[i].left <=> u \notin members'[r]
    <3>1. ~(Len(link[u].in) + 1 > i)
      BY <1>7, <2>1, <2>4
    <3>2. i = Len(link[u].in) + 1
      BY <2>1, <2>4, <3>1
    <3> QED  BY <2>1, <2>3, <3>2
  <2> QED  BY <1>4, <2>2, <2>4 DEF PipelineOf
<1> QED  BY <1>6, <1>7

LEMMA ServePipeline ==
  ASSUME Typed, NEW u \in User, NEW r \in Room, PipelineFor(u), Steady(u), Serve(u)
  PROVE  PipelineOf(u, r)'
<1>1. /\ Records /\ h[u].pc \notin {"read", "flush", "clear", "end", "ended"} /\ link[u].up
      /\ PipelineOf(u, r)
  BY DEF Typed, PipelineFor, Steady
<1>2. members \in [Room -> SUBSET User] /\ HandlerOK(u)
  BY <1>1 DEF Records, Typed
<1>3. CASE ServeCreate(u)
  <2>1. PICK q \in Room \ rooms :
          /\ members' = [members EXCEPT ![q] = {u}]
          /\ Answers(u, Info(Frame(u).req, TRUE, q, FALSE))
    BY <1>3 DEF ServeCreate
  <2>2. Takes(u, "create") /\ UNCHANGED cliVars
    BY <1>3 DEF ServeCreate
  <2>3. PICK a : a = Info(Frame(u).req, TRUE, q, FALSE)
    OBVIOUS
  <2>4. a \in Sent /\ a.type = "info" /\ a.ok /\ a.room = q /\ ~a.left
    BY <1>1, <2>1, <2>2, <2>3, TakesStep, Packets DEF Request, Info
  <2>5. Answering(u)' = {a}
    BY <1>1, <2>1, <2>3, <2>4, AnswersStep DEF Answering
  <2>6. CASE r = q
    BY <1>2, <2>1, <2>4, <2>5, <2>6, PipelineMade DEF Touches
  <2>7. CASE r # q
    <3>1. u \in members'[r] <=> u \in members[r]
      BY <1>2, <2>1, <2>7
    <3>2. \A p \in Answering(u)' : ~Touches(p, r)
      BY <2>4, <2>5, <2>7 DEF Touches
    <3> QED  BY <1>1, <2>2, <3>1, <3>2, PipelineTaken
  <2> QED  BY <2>6, <2>7
<1>4. CASE ServeJoin(u)
  <2>1. Takes(u, "join") /\ UNCHANGED cliVars /\ UNCHANGED members
    BY <1>4 DEF ServeJoin
  <2>2. PICK a : a = Info(Frame(u).req, FALSE, Frame(u).room, FALSE)
    OBVIOUS
  <2>3. ~a.ok
    BY <2>2 DEF Info
  <2>4. Answering(u)' \subseteq {a}
    BY <1>4, <2>2, ServeJoinStep DEF Answering
  <2> QED  BY <1>1, <2>1, <2>3, <2>4, PipelineTaken DEF Touches
<1>5. CASE Insert(u)
  <2>1. PICK p \in h[u].out : members' = [members EXCEPT ![p.room] = @ \cup {u}]
    BY <1>5 DEF Insert
  <2>2. Go(u, "answer") /\ h[u].pc = "insert" /\ UNCHANGED link /\ UNCHANGED cliVars
    BY <1>5 DEF Insert
  <2>3. p.type = "info" /\ p.ok /\ ~p.left /\ h[u].out = {p}
    BY <1>2, <2>1, <2>2 DEF HandlerOK
  <2>4. Answering(u)' = {p} /\ Answering(u) = {}
    BY <1>1, <2>2, <2>3, GoStep DEF Answering
  <2>5. CASE p.room = r
    BY <1>2, <2>1, <2>3, <2>4, <2>5, PipelineMade DEF Touches
  <2>6. CASE p.room # r
    <3>1. u \in members'[r] <=> u \in members[r]
      BY <1>2, <2>1, <2>6
    <3>2. \A q : Touches(q, r) => (q \in Answering(u)' <=> q \in Answering(u))
      BY <2>4, <2>6 DEF Touches
    <3> QED  BY <1>1, <2>2, <3>1, <3>2, PipelineKept DEF cliVars, LeaveOnWire
  <2> QED  BY <2>5, <2>6
<1>6. CASE ServeLeave(u)
  <2>1. /\ members' = [members EXCEPT ![Frame(u).room] = @ \ {u}]
        /\ Answers(u, Info(0, TRUE, Frame(u).room, TRUE))
        /\ Takes(u, "leave") /\ UNCHANGED cliVars
    BY <1>6 DEF ServeLeave
  <2>2. PICK a : a = Info(0, TRUE, Frame(u).room, TRUE)
    OBVIOUS
  <2>3. Frame(u).room \in Room
    BY <1>1, <2>1, TakesStep DEF Typed, FrameOK
  <2>4. a \in Sent /\ a.type = "info" /\ a.ok /\ a.room = Frame(u).room /\ a.left
    BY <2>2, <2>3, Packets DEF Info
  <2>5. Answering(u)' = {a}
    BY <1>1, <2>1, <2>2, <2>4, AnswersStep DEF Answering
  <2>6. CASE r = Frame(u).room
    BY <1>2, <2>1, <2>4, <2>5, <2>6, PipelineMade DEF Touches
  <2>7. CASE r # Frame(u).room
    <3>1. u \in members'[r] <=> u \in members[r]
      BY <1>2, <2>1, <2>7
    <3>2. \A p \in Answering(u)' : ~Touches(p, r)
      BY <2>4, <2>5, <2>7 DEF Touches
    <3> QED  BY <1>1, <2>1, <2>7, <3>1, <3>2, PipelineTaken
  <2> QED  BY <2>6, <2>7
<1>7. CASE ServeMembers(u)
  <2>1. /\ Takes(u, "members") /\ UNCHANGED cliVars /\ UNCHANGED members
        /\ Answers(u, List(Frame(u).req, Present(Frame(u).room)))
    BY <1>7 DEF ServeMembers
  <2>2. PICK a : a = List(Frame(u).req, Present(Frame(u).room))
    OBVIOUS
  <2>3. a.type = "list"
    BY <2>2 DEF List
  <2>4. Answering(u)' \subseteq {a}
    BY <1>1, <2>1, <2>2 DEF Answering, Answers, Records
  <2> QED  BY <1>1, <2>1, <2>3, <2>4, PipelineTaken DEF Touches
<1>8. CASE ServePost(u)
  <2>1. Takes(u, "post") /\ UNCHANGED cliVars /\ UNCHANGED members
    BY <1>8 DEF ServePost
  <2>2. PICK a : a = Plain("error")
    OBVIOUS
  <2>3. a.type = "error"
    BY <2>2 DEF Plain
  <2>4. Answering(u)' \subseteq {a}
    BY <1>8, <2>2, ServePostStep DEF Answering
  <2> QED  BY <1>1, <2>1, <2>3, <2>4, PipelineTaken DEF Touches
<1>9. CASE Route(u) \/ Enqueue(u)
  <2>1. UNCHANGED <<members, link, cliVars>> /\ h[u].pc # "answer"
    BY <1>9 DEF Route, Enqueue
  <2>2. h'[u].pc = "fanout"
    BY <1>9, RouteStep, EnqueueStep
  <2>3. Answering(u) = {} /\ Answering(u)' = {}
    BY <2>1, <2>2 DEF Answering
  <2> QED  BY <1>1, <2>1, <2>3, PipelineKept DEF cliVars, LeaveOnWire
<1>10. CASE FanOut(u)
  <2>1. PICK w \in h[u].todo : Hand(u, w)
    BY <1>10 DEF FanOut
  <2>2. h[u].pc = "fanout" /\ UNCHANGED members /\ UNCHANGED cliVars
    BY <1>10 DEF FanOut
  <2>3. h'[u].pc # "answer" /\ w # u /\ w \in User
    BY <2>1, <2>2, HandStep
  <2>4. link'[u] = link[u]
    <3>1. \/ Send(w, Texts({h[u].msg})) /\ Texts({h[u].msg}) \in Sent
          \/ UNCHANGED link
      BY <1>1, <2>1, <2>2, HandStep
    <3>2. CASE Send(w, Texts({h[u].msg})) /\ Texts({h[u].msg}) \in Sent
      BY <1>1, <2>3, <3>2, SendStep
    <3> QED  BY <3>1, <3>2
  <2>5. Answering(u) = {} /\ Answering(u)' = {}
    BY <2>2, <2>3 DEF Answering
  <2> QED  BY <1>1, <2>2, <2>4, <2>5, PipelineKept DEF cliVars, LeaveOnWire
<1>11. CASE Delivered(u)
  <2>1. UNCHANGED <<members, cliVars>> /\ h[u].pc = "fanout"
    BY <1>11 DEF Delivered
  <2>2. Send(u, Plain("delivery")) /\ Plain("delivery") \in Sent /\ h'[u].pc = "recv"
    BY <1>1, <1>11, DeliveredStep
  <2>3. link'[u].in = Append(link[u].in, Plain("delivery")) /\ link'[u].out = link[u].out
    BY <1>1, <2>2, SendStep
  <2>4. ~Touches(Plain("delivery"), r)
    BY DEF Plain, Touches
  <2>5. Answering(u) = {} /\ Answering(u)' = {}
    BY <2>1, <2>2 DEF Answering
  <2> QED  BY <1>1, <2>1, <2>2, <2>3, <2>4, <2>5, PipelineKept DEF cliVars, LeaveOnWire
<1>12. CASE Answer(u)
  BY <1>1, <1>12, AnswerPipeline
<1>13. ~FlushRead(u) /\ ~FlushSend(u) /\ ~FlushClear(u) /\ ~End(u)
  BY <1>1 DEF FlushRead, FlushSend, FlushClear, End
<1> QED
  BY <1>3, <1>4, <1>5, <1>6, <1>7, <1>8, <1>9, <1>10, <1>11, <1>12, <1>13 DEF Serve

\* What other users do.
LEMMA OthersPipeline ==
  ASSUME Typed, [RmNext]_rmVars, NEW u \in User, NEW r \in Room, PipelineOf(u, r),
         NEW v \in User \ {u},
         Start(v) \/ Break(v) \/ Command(v) \/ Serve(v) \/ Resume(v) \/ Read(v)
  PROVE  PipelineOf(u, r)'
<1>1. Records
  BY DEF Typed
<1>2. ASSUME link'[u].out = link[u].out, h'[u] = h[u], net'[u] = net[u], rows'[u] = rows[u],
             u \in members'[r] <=> u \in members[r],
             \/ link'[u].in = link[u].in
             \/ \E p \in Sent : link'[u].in = Append(link[u].in, p) /\ ~Touches(p, r)
      PROVE  PipelineOf(u, r)'
  BY <1>2, PipelineKept DEF Answering, LeaveOnWire
<1>3. rows \in [User -> SUBSET Room] /\ net \in [User -> Change]
  BY <1>1 DEF Records
<1>4. CASE Start(v)
  <2>1. link'[u] = link[u] /\ h'[u] = h[u]
    BY <1>1, <1>4, StartStep
  <2> QED  BY <1>2, <1>4, <2>1 DEF Start
<1>5. CASE Break(v)
  <2>1. link'[u] = link[u]
    BY <1>1, <1>5, BreakStep
  <2> QED  BY <1>2, <1>5, <2>1 DEF Break, srvVars, cliVars
<1>6. CASE Command(v)
  <2>1. link'[u] = link[u]
    BY <1>1, <1>6, CommandWrites, WritesStep
  <2> QED  BY <1>2, <1>6, <2>1 DEF Command, Create, Join, Leave, Post, srvVars
<1>7. CASE Serve(v)
  <2>1. h'[u] = h[u] /\ h[u] \in Handler
    BY <1>1, <1>7, ServeOwn, Fields
  <2>2. ASSUME NEW q, Answers(u, q) PROVE h'[u].pc = "answer"
    BY <1>1, <2>2 DEF Answers, Records
  <2>3. ~ServeCreate(u) /\ ~ServeLeave(u)
    BY <2>1, <2>2 DEF ServeCreate, ServeLeave, Takes
  <2>4. ~Insert(u)
    <3> SUFFICES ASSUME Insert(u) PROVE FALSE
      OBVIOUS
    <3>1. h[u].pc = "insert" /\ h'[u].pc = "answer"
      BY <1>1, GoStep DEF Insert
    <3> QED  BY <2>1, <3>1
  <2>5. u \in members'[r] <=> u \in members[r]
    BY <2>3, <2>4, MembersStep
  <2>6. UNCHANGED <<net, rows>>
    BY <1>7 DEF Serve, FlushRead, FlushSend, FlushClear, ServeCreate, ServeJoin, Insert,
       ServeLeave, ServeMembers, ServePost, Route, FanOut, Enqueue, Delivered, Answer, End, cliVars
  <2>7. CASE link'[u] = link[u]
    BY <1>2, <2>1, <2>5, <2>6, <2>7
  <2>8. CASE FanOut(v)
    <3>1. PICK w \in h[v].todo : Hand(v, w)
      BY <2>8 DEF FanOut
    <3>2. h[v].pc = "fanout"
      BY <2>8 DEF FanOut
    <3>3. PICK p : p = Texts({h[v].msg})
      OBVIOUS
    <3>4. w \in User /\ ((p \in Sent /\ Send(w, p)) \/ UNCHANGED link)
      BY <3>1, <3>2, <3>3, HandStep
    <3>5. p.type = "texts"
      BY <3>3 DEF Texts
    <3>6. CASE w = u /\ p \in Sent /\ Send(w, p)
      <4>1. link'[u].in = Append(link[u].in, p) /\ link'[u].out = link[u].out
        BY <1>1, <3>6, SendStep
      <4>2. ~Touches(p, r)
        BY <3>5 DEF Touches
      <4> QED  BY <1>2, <2>1, <2>5, <2>6, <3>6, <4>1, <4>2
    <3>7. CASE w # u \/ UNCHANGED link
      <4>1. link'[u] = link[u]
        BY <1>1, <3>4, <3>7, SendStep
      <4> QED  BY <2>7, <4>1
    <3> QED  BY <3>4, <3>6, <3>7
  <2>9. ~FanOut(v) => link'[u] = link[u]
    <3>1. ASSUME NEW p \in Sent, Send(v, p) PROVE link'[u] = link[u]
      BY <1>1, <3>1, SendStep
    <3>2. ASSUME NEW type, Takes(v, type) PROVE link'[u] = link[u]
      BY <1>1, <3>2, TakesStep
    <3>3. CASE FlushSend(v) \/ Delivered(v) \/ Answer(v)
      BY <3>1, <3>3, FlushSendStep, DeliveredStep, AnswerStep
    <3>4. CASE End(v)
      BY <1>1, <3>4, EndStep
    <3> QED
      BY <1>7, <3>2, <3>3, <3>4
      DEF Serve, FlushRead, FlushClear, ServeCreate, ServeJoin, Insert, ServeLeave, ServeMembers,
          ServePost, Route, Enqueue
  <2> QED  BY <2>7, <2>8, <2>9
<1>8. CASE Resume(v)
  <2>1. UNCHANGED <<members, h>>
    BY <1>8 DEF Resume, Conclude, Timeout, Keep, srvVars
  <2>2. rows'[u] = rows[u] /\ net'[u] = net[u]
    BY <1>3, <1>8 DEF Resume, Conclude, Timeout, Keep, Exit
  <2>3. ASSUME ui[v].pc = "wait", ui[v].kind = "post", NEW list, Transmit(v, list)
        PROVE  link'[u] = link[u]
    <3>1. PICK p \in Request : Writes(v, p)
      BY <2>3, TransmitStep
    <3> QED  BY <1>1, <3>1, WritesStep
  <2>4. Exit(v) => link'[u] = link[u]
    BY <1>1, ExitStep
  <2>5. link'[u] = link[u]
    BY <1>8, <2>3, <2>4 DEF Resume, Conclude, Timeout, Keep
  <2> QED  BY <1>2, <2>1, <2>2, <2>5
<1>9. CASE Read(v)
  <2>1. UNCHANGED <<members, h>>
    BY <1>9 DEF Read, Receive, Store, srvVars
  <2>2. link'[u] = link[u] /\ net'[u] = net[u]
    <3>1. Receive(v) => link'[u] = link[u] /\ net'[u] = net[u]
      BY <1>1, ReceiveStep
    <3>2. Store(v) => link'[u] = link[u] /\ net'[u] = net[u]
      BY <1>3 DEF Store
    <3> QED  BY <1>9, <3>1, <3>2 DEF Read
  <2>3. rows'[u] = rows[u]
    BY <1>3, <1>9 DEF Read, Receive, Store
  <2> QED  BY <1>2, <2>1, <2>2, <2>3
<1> QED  BY <1>4, <1>5, <1>6, <1>7, <1>8, <1>9

\* What arrives is turned into the change that is about to be made, and that is made.
LEMMA ReadPipeline ==
  ASSUME Typed, NEW u \in User, NEW r \in Room, PipelineOf(u, r), Read(u)
  PROVE  PipelineOf(u, r)'
<1>1. Records /\ link[u].in \in Seq(Sent) /\ UNCHANGED <<members, h>>
  BY Fields DEF Typed, Read, Receive, Store, srvVars
<1>2. /\ HandlerTouches(u, r)' <=> HandlerTouches(u, r)
      /\ Answering(u)' = Answering(u)
  BY <1>1 DEF HandlerTouches, Answering
<1>3. \A p \in Answering(u)' : Touches(p, r) => (p.left <=> u \notin members'[r])
  BY <1>1, <1>2 DEF PipelineOf
<1>4. CASE Receive(u)
  <2>1. PICK p : p = Head(link[u].in)
    OBVIOUS
  <2>2. /\ p \in Sent /\ link[u].in # <<>> /\ net[u] = Quiet /\ p = link[u].in[1]
        /\ Range(link[u].in) = {p} \cup Range(link'[u].in) /\ link'[u].in = Tail(link[u].in)
        /\ link'[u].out = link[u].out /\ net'[u] = Stores(p)
    BY <1>1, <1>4, <2>1, ReceiveStep
  <2>3. UNCHANGED rows
    BY <1>4 DEF Receive
  <2>4. /\ \A i \in DOMAIN link'[u].in : i + 1 \in DOMAIN link[u].in /\ link'[u].in[i] = link[u].in[i + 1]
        /\ DOMAIN link[u].in = 1..Len(link[u].in) /\ Len(link[u].in) \in Nat /\ Len(link[u].in) > 0
        /\ DOMAIN link'[u].in = 1..(Len(link[u].in) - 1)
    BY <1>1, <2>2, RangeOfTail
  <2>5. ASSUME ~HandlerTouches(u, r), NEW i \in DOMAIN link'[u].in, Touches(link'[u].in[i], r),
               \A j \in DOMAIN link'[u].in : j > i => ~Touches(link'[u].in[j], r)
        PROVE  link'[u].in[i].left <=> u \notin members'[r]
    <3>1. i + 1 \in DOMAIN link[u].in /\ link'[u].in[i] = link[u].in[i + 1]
      BY <2>4, <2>5
    <3>2. ASSUME NEW j \in DOMAIN link[u].in, j > i + 1 PROVE ~Touches(link[u].in[j], r)
      <4>1. j - 1 \in DOMAIN link'[u].in /\ j - 1 > i /\ (j - 1) + 1 = j
        BY <2>4, <2>5, <3>2
      <4>2. link'[u].in[j - 1] = link[u].in[j]
        BY <2>4, <4>1
      <4> QED  BY <2>5, <4>1, <4>2
    <3> QED  BY <1>1, <2>5, <3>1, <3>2 DEF PipelineOf
  <2>6. ASSUME ~HandlerTouches(u, r), ~InTouches(u, r)'
        PROVE  /\ net'[u].do # "none" /\ net'[u].room = r =>
                    (net'[u].do = "delete" <=> u \notin members'[r])
               /\ ~(net'[u].do # "none" /\ net'[u].room = r) /\ ~LeaveOnWire(u, r)' =>
                    (r \in rows'[u] <=> u \in members'[r])
    <3>1. CASE Touches(p, r)
      <4>1. ASSUME NEW j \in DOMAIN link[u].in, j > 1 PROVE ~Touches(link[u].in[j], r)
        <5>1. j - 1 \in DOMAIN link'[u].in /\ (j - 1) + 1 = j
          BY <2>4, <4>1
        <5>2. link'[u].in[j - 1] = link[u].in[j]
          BY <2>4, <5>1
        <5>3. link'[u].in[j - 1] \in Range(link'[u].in)
          BY <5>1 DEF Range
        <5> QED  BY <2>6, <5>2, <5>3 DEF InTouches
      <4>2. 1 \in DOMAIN link[u].in
        BY <2>4
      <4>3. p.left <=> u \notin members[r]
        BY <2>2, <2>6, <3>1, <4>1, <4>2 DEF PipelineOf
      <4>4. net'[u].room = r /\ net'[u].do = IF p.left THEN "delete" ELSE "save"
        BY <2>2, <3>1 DEF Stores, Touches
      <4> QED  BY <1>1, <4>3, <4>4
    <3>2. CASE ~Touches(p, r)
      <4>1. ~InTouches(u, r)
        BY <2>2, <2>6, <3>2 DEF InTouches
      <4>2. net[u].do = "none"
        BY <2>2 DEF Quiet
      <4>3. ~LeaveOnWire(u, r) => (r \in rows[u] <=> u \in members[r])
        BY <2>6, <4>1, <4>2 DEF PipelineOf
      <4>4. ~(net'[u].do # "none" /\ net'[u].room = r)
        BY <2>2, <3>2 DEF Stores, Touches, Quiet
      <4> QED  BY <1>1, <2>2, <2>3, <4>3, <4>4 DEF LeaveOnWire
    <3> QED  BY <3>1, <3>2
  <2> QED  BY <1>2, <1>3, <2>5, <2>6 DEF PipelineOf
<1>5. CASE Store(u)
  <2>1. /\ net[u].do # "none" /\ UNCHANGED link /\ net' = [net EXCEPT ![u] = Quiet]
        /\ rows' = [rows EXCEPT ![u] = IF net[u].do = "save" THEN @ \cup {net[u].room}
                                                             ELSE @ \ {net[u].room}]
    BY <1>5 DEF Store
  <2>2. /\ net'[u].do = "none" /\ net[u].do \in {"save", "delete"}
        /\ rows'[u] = IF net[u].do = "save" THEN rows[u] \cup {net[u].room}
                                            ELSE rows[u] \ {net[u].room}
    BY <1>1, <2>1 DEF Records, Change, Quiet
  <2>3. ASSUME ~HandlerTouches(u, r), ~InTouches(u, r), ~LeaveOnWire(u, r)
        PROVE  r \in rows'[u] <=> u \in members[r]
    BY <2>1, <2>2, <2>3 DEF PipelineOf
  <2>4. /\ InTouches(u, r)' <=> InTouches(u, r)
        /\ LeaveOnWire(u, r)' <=> LeaveOnWire(u, r)
    BY <2>1 DEF InTouches, LeaveOnWire
  <2> QED  BY <1>1, <1>2, <1>3, <2>1, <2>2, <2>3, <2>4 DEF PipelineOf
<1> QED  BY <1>4, <1>5 DEF Read

\* A frame is written.
LEMMA WritesPipeline ==
  ASSUME Typed, NEW u \in User, NEW r \in Room, PipelineOf(u, r),
         NEW p \in Request, Writes(u, p), UNCHANGED <<h, members, net, rows>>
  PROVE  PipelineOf(u, r)'
<1>1. /\ link'[u].in = link[u].in /\ link[u].out \in Seq(Request)
      /\ link'[u].out \in {link[u].out, Append(link[u].out, p)}
  BY WritesStep, Fields DEF Typed
<1>2. Range(link[u].out) \subseteq Range(link'[u].out)
  <2>1. Range(Append(link[u].out, p)) = Range(link[u].out) \cup {p}
    BY <1>1, RangeOfAppend
  <2> QED  BY <1>1, <2>1
<1>3. LeaveOnWire(u, r) => LeaveOnWire(u, r)'
  BY <1>2 DEF LeaveOnWire
<1> QED  BY <1>1, <1>3, PipelineKept DEF Answering

LEMMA CommandPipeline ==
  ASSUME Typed, NEW u \in User, NEW r \in Room, PipelineOf(u, r), Command(u)
  PROVE  PipelineOf(u, r)'
<1>1. UNCHANGED <<h, members, net, rows>>
  BY DEF Command, Create, Join, Leave, Post, srvVars
<1> QED  BY <1>1, CommandWrites, WritesPipeline

LEMMA ResumePipeline ==
  ASSUME Typed, NEW u \in User, NEW r \in Room, PipelineOf(u, r), OwnChange(u), CreatedOf(u),
         Resume(u), link'[u].up
  PROVE  PipelineOf(u, r)'
<1>1. Records /\ UNCHANGED <<h, members>>
  BY DEF Typed, Resume, Conclude, Timeout, Keep, srvVars
<1>2. ASSUME UNCHANGED <<link, net, rows>> PROVE PipelineOf(u, r)'
  BY <1>1, <1>2, PipelineKept DEF Answering, LeaveOnWire
<1>3. ASSUME ui[u].pc = "wait", ui[u].kind = "post", NEW list, Transmit(u, list),
             UNCHANGED <<net, rows>>
      PROVE  PipelineOf(u, r)'
  <2>1. PICK p \in Request : Writes(u, p)
    BY <1>3, TransmitStep
  <2> QED  BY <1>1, <1>3, <2>1, WritesPipeline
<1>4. ~Exit(u)
  BY <1>1, ExitStep
<1>5. CASE Conclude(u) \/ Timeout(u)
  BY <1>2, <1>3, <1>4, <1>5 DEF Conclude, Timeout
<1>6. CASE Keep(u)
  <2>1. UNCHANGED <<net, link>>
    BY <1>6 DEF Keep
  <2>2. CASE r \in rows'[u] <=> r \in rows[u]
    BY <1>1, <2>1, <2>2, PipelineKept DEF Answering, LeaveOnWire
  <2>3. ASSUME ~(r \in rows'[u] <=> r \in rows[u])
        PROVE  LeaveOnWire(u, r) \/ (r \in rows'[u] <=> u \in members[r])
    <3>1. CASE ui[u].pc = "save"
      <4>1. rows' = [rows EXCEPT ![u] = @ \cup {ui[u].room}]
        BY <1>6, <3>1 DEF Keep
      <4>2. rows'[u] = rows[u] \cup {ui[u].room}
        BY <1>1, <4>1 DEF Records
      <4>3. r = ui[u].room
        BY <2>3, <4>2
      <4> QED  BY <3>1, <4>2, <4>3 DEF CreatedOf
    <3>2. CASE ui[u].pc = "drop"
      <4>1. rows' = [rows EXCEPT ![u] = @ \ {ui[u].room}]
        BY <1>6, <3>2 DEF Keep
      <4>2. rows'[u] = rows[u] \ {ui[u].room}
        BY <1>1, <4>1 DEF Records
      <4>3. r = ui[u].room
        BY <2>3, <4>2
      <4>4. CASE u \notin members[ui[u].room]
        BY <4>2, <4>3, <4>4
      <4>5. CASE /\ link[u].out # <<>>
                 /\ link[u].out[Len(link[u].out)].type = "leave"
                 /\ link[u].out[Len(link[u].out)].room = ui[u].room
        <5>1. link[u].out \in Seq(Request)
          BY <1>1, Fields
        <5>2. link[u].out[Len(link[u].out)] \in Range(link[u].out)
          BY <4>5, <5>1 DEF Range
        <5> QED  BY <4>3, <4>5, <5>2 DEF LeaveOnWire
      <4> QED  BY <3>2, <4>4, <4>5 DEF OwnChange
    <3> QED  BY <1>6, <3>1, <3>2 DEF Keep
  <2>4. /\ Answering(u)' = Answering(u) /\ (HandlerTouches(u, r)' <=> HandlerTouches(u, r))
        /\ InTouches(u, r)' <=> InTouches(u, r)
        /\ LeaveOnWire(u, r)' <=> LeaveOnWire(u, r)
    BY <1>1, <2>1 DEF Answering, HandlerTouches, InTouches, LeaveOnWire
  <2>5. CASE ~(r \in rows'[u] <=> r \in rows[u])
    <3>1. \A p \in Answering(u)' : Touches(p, r) => (p.left <=> u \notin members'[r])
      BY <1>1, <2>4 DEF PipelineOf
    <3>2. ASSUME ~HandlerTouches(u, r)
          PROVE  \A i \in DOMAIN link'[u].in :
                   /\ Touches(link'[u].in[i], r)
                   /\ \A j \in DOMAIN link'[u].in : j > i => ~Touches(link'[u].in[j], r)
                   => (link'[u].in[i].left <=> u \notin members'[r])
      BY <1>1, <2>1, <3>2 DEF PipelineOf
    <3>3. ASSUME ~HandlerTouches(u, r), ~InTouches(u, r)
          PROVE  /\ net'[u].do # "none" /\ net'[u].room = r =>
                      (net'[u].do = "delete" <=> u \notin members'[r])
                 /\ ~(net'[u].do # "none" /\ net'[u].room = r) /\ ~LeaveOnWire(u, r) =>
                      (r \in rows'[u] <=> u \in members'[r])
      BY <1>1, <2>1, <2>3, <2>5, <3>3 DEF PipelineOf
    <3> QED  BY <2>4, <3>1, <3>2, <3>3 DEF PipelineOf
  <2> QED  BY <2>2, <2>5
<1> QED  BY <1>5, <1>6 DEF Resume

-----------------------------------------------------------------------------
\* What a client does to its table besides.

\* How a command comes to its own change of the table.
LEMMA TurnMoves ==
  ASSUME Typed, Newest, [RmNext]_rmVars, NEW u \in User, ui'[u].pc \in {"save", "drop"}
  PROVE  \/ ui'[u].pc = ui[u].pc /\ ui'[u].room = ui[u].room
         \/ ui'[u].pc = "drop" /\ Leave(u, ui'[u].room)
         \/ /\ ui'[u].pc = "save" /\ Conclude(u) /\ ui[u].pc = "wait" /\ ui[u].kind = "create"
            /\ UNCHANGED <<link, members>>
            /\ \E p \in ui[u].result :
                 IsAnswer(p) /\ p.req = commands[u] /\ ui'[u].room = p.room /\ link[u].out = <<>>
<1>1. Records
  BY DEF Typed
<1>2. ASSUME ui'[u] = ui[u] PROVE ui'[u].pc = ui[u].pc /\ ui'[u].room = ui[u].room
  BY <1>2
<1>3. ASSUME NEW v \in User, v # u, Start(v) \/ Command(v) \/ Resume(v) \/ Read(v) PROVE ui'[u] = ui[u]
  <2>1. Start(v) => ui'[u] = ui[u]
    BY <1>1, <1>3, StartStep
  <2>2. Receive(v) => ui'[u] = ui[u]
    BY <1>1, <1>3, ReceiveStep
  <2>3. Command(v) => ui'[u] = ui[u]
    BY <1>1, <1>3 DEF Command, Create, Join, Leave, Post, Waits, Records
  <2>4. Resume(v) => ui'[u] = ui[u]
    BY <1>1, <1>3 DEF Resume, Conclude, Timeout, Keep, Transmit, Exit, Rests, Records
  <2>5. Store(v) => ui'[u] = ui[u]
    BY DEF Store
  <2> QED  BY <1>3, <2>1, <2>2, <2>3, <2>4, <2>5 DEF Read
<1>4. ~Start(u)
  <2>1. Idle.pc = "idle"
    BY DEF Idle
  <2> QED  BY <1>1, <2>1, StartStep
<1>5. ASSUME NEW v \in User, Break(v) \/ Serve(v) PROVE ui' = ui
  BY <1>5 DEF Break, Serve, FlushRead, FlushSend, FlushClear, ServeCreate, ServeJoin, Insert,
     ServeLeave, ServeMembers, ServePost, Route, FanOut, Enqueue, Delivered, Answer, End, cliVars
<1>6. CASE Crash \/ UNCHANGED rmVars
  BY <1>6 DEF Crash, rmVars, cliVars
<1>7. CASE Command(u)
  <2>1. ~Create(u)
    BY <1>1, WaitsStep DEF Create, Kinds
  <2>2. ASSUME NEW r \in Room PROVE ~Join(u, r)
    BY <1>1, WaitsStep DEF Join, Kinds
  <2>3. ASSUME NEW m \in Message, NEW r \in Room, Post(u, m, r) PROVE ui'[u] = ui[u]
    <3>1. CASE Knows[u] = {}
      BY <2>3, <3>1 DEF Post
    <3>2. CASE Knows[u] # {}
      <4>1. Waits(u, "post", r, m)
        BY <2>3, <3>2 DEF Post
      <4> QED  BY <1>1, <4>1, WaitsStep DEF Kinds
    <3> QED  BY <3>1, <3>2
  <2>4. ASSUME NEW r \in Room, Leave(u, r) PROVE ui'[u].pc = "drop" /\ ui'[u].room = r
    <3>1. ui' = [ui EXCEPT ![u] = [Idle EXCEPT !.pc = "drop", !.room = r]]
      BY <2>4 DEF Leave
    <3> QED  BY <1>1, <3>1, TurnStep
  <2> QED  BY <1>7, <2>1, <2>2, <2>3, <2>4 DEF Command
<1>8. ~Keep(u) /\ ~Timeout(u)
  <2>1. ~Rests(u)
    BY <1>1, RestsStep
  <2>2. ~Exit(u)
    BY <1>1, ExitStep
  <2> QED  BY <2>1, <2>2 DEF Keep, Timeout, Transmit
<1>9. CASE Conclude(u)
  <2>1. PICK p \in ui[u].result :
          /\ IsAnswer(p) /\ p.req = commands[u] /\ link[u].out = <<>> /\ ui[u].pc = "wait"
          /\ \/ ui[u].kind = "post" /\ Transmit(u, p.members)
             \/ /\ UNCHANGED link
                /\ \/ ui'[u].pc = "save" /\ ui'[u].room = p.room /\ ui[u].kind = "create"
                   \/ ui'[u].pc = "idle"
    BY <1>9, ConcludeStep
  <2>2. ~Transmit(u, p.members)
    BY <1>1, RestsStep DEF Transmit
  <2>3. UNCHANGED members
    BY <1>9 DEF Conclude, srvVars
  <2> QED  BY <1>9, <2>1, <2>2, <2>3
<1>10. CASE Read(u)
  <2>1. Receive(u) => ui'[u].pc = ui[u].pc /\ ui'[u].room = ui[u].room
    BY <1>1, ReceiveStep
  <2> QED  BY <1>10, <2>1 DEF Read, Store
<1> QED
  BY <1>2, <1>3, <1>4, <1>5, <1>6, <1>7, <1>8, <1>9, <1>10 DEF RmNext, Resume

\* The frame of a leave is taken by ROOM_LEAVE.
LEMMA LeaveServed ==
  ASSUME Typed, NEW u \in User, Serve(u), ~End(u), Takes(u, "leave")
  PROVE  ServeLeave(u)
<1>1. Records /\ link[u].out \in Seq(Request) /\ link[u].out # <<>> /\ h[u].pc = "recv"
      /\ link'[u].out = Tail(link[u].out)
  BY Fields, TakesStep DEF Typed
<1>2. link'[u].out # link[u].out
  <2>1. Len(link'[u].out) = Len(link[u].out) - 1 /\ Len(link[u].out) \in Nat
    BY <1>1, RangeOfTail
  <2> QED  BY <2>1
<1>3. ~Takes(u, "create") /\ ~Takes(u, "join") /\ ~Takes(u, "members") /\ ~Takes(u, "post")
  BY DEF Takes
<1> QED
  BY <1>1, <1>3 DEF Serve, FlushRead, FlushSend, FlushClear, ServeCreate, ServeJoin, Insert,
     ServeMembers, ServePost, Route, FanOut, Enqueue, Delivered, Answer

LEMMA MemberStays ==
  ASSUME Typed, [RmNext]_rmVars, NEW u \in User, ~ServeLeave(u), NEW r \in Room, u \in members[r]
  PROVE  u \in members'[r]
<1>1. members \in [Room -> SUBSET User] /\ \A q \in Room \ rooms : members[q] = {}
  BY DEF Typed, Records
<1>2. CASE ServeCreate(u)
  <2>1. PICK q \in Room \ rooms : members' = [members EXCEPT ![q] = {u}]
    BY <1>2 DEF ServeCreate
  <2> QED  BY <1>1, <2>1
<1>3. CASE Insert(u)
  <2>1. PICK p \in h[u].out : members' = [members EXCEPT ![p.room] = @ \cup {u}]
    BY <1>3 DEF Insert
  <2> QED  BY <1>1, <2>1
<1> QED  BY <1>2, <1>3, MembersStep

\* Taking the head of a sequence leaves nothing or the same last element.
LEMMA LastOfTail ==
  ASSUME NEW S, NEW s \in Seq(S), s # <<>>
  PROVE  \/ Tail(s) = <<>> /\ s[Len(s)] = s[1]
         \/ Tail(s) # <<>> /\ Tail(s)[Len(Tail(s))] = s[Len(s)]
<1>1. /\ Tail(s) \in Seq(S) /\ Len(s) \in Nat /\ Len(s) > 0 /\ Len(Tail(s)) = Len(s) - 1
      /\ \A i \in DOMAIN Tail(s) : Tail(s)[i] = s[i + 1]
  BY RangeOfTail
<1>2. DOMAIN Tail(s) = 1..(Len(s) - 1)
  BY <1>1
<1>3. ASSUME NEW t \in Seq(S) PROVE t = <<>> <=> Len(t) = 0
  BY EmptySeq
<1>4. Tail(s) = <<>> <=> Len(Tail(s)) = 0
  BY <1>1, <1>3
<1>5. CASE Len(s) = 1
  BY <1>1, <1>4, <1>5
<1>6. CASE Len(s) # 1
  <2>1. Len(s) - 1 \in 1..(Len(s) - 1) /\ (Len(s) - 1) + 1 = Len(s)
    BY <1>1, <1>6
  <2>2. Tail(s)[Len(s) - 1] = s[Len(s)]
    BY <1>1, <1>2, <2>1
  <2>3. Len(Tail(s)) # 0
    BY <1>1, <1>6
  <2> QED  BY <1>1, <1>4, <2>2, <2>3
<1> QED  BY <1>5, <1>6

LEMMA OwnChangeStep ==
  ASSUME Typed, Newest, [RmNext]_rmVars, NEW u \in User, PipelineFor(u), Steady(u), Steady(u)'
  PROVE  OwnChange(u)'
<1> SUFFICES ASSUME ui'[u].pc = "drop", NEW r, r = ui'[u].room
             PROVE  \/ /\ link'[u].out # <<>>
                       /\ LET p == link'[u].out[Len(link'[u].out)]
                          IN  p.type = "leave" /\ p.room = r
                    \/ link'[u].out = <<>> /\ h'[u].pc # "insert" /\ u \notin members'[r]
  BY DEF OwnChange
<1>1. /\ Records /\ link[u].out \in Seq(Request) /\ Typed' /\ link[u].up /\ link'[u].up
      /\ ~Start(u) /\ OwnChange(u) /\ h[u].pc \notin {"end", "ended"}
  BY Fields, TypedStep, SteadyStep DEF Typed, PipelineFor, Steady
<1>2. ~End(u)
  BY <1>1 DEF End
<1>3. r \in Room
  <2>1. CommandOK(u)'
    BY <1>1 DEF Typed
  <2> QED  BY <2>1 DEF CommandOK
<1>4. ASSUME NEW p \in Request, link'[u].out = Append(link[u].out, p), p.type = "leave", p.room = r
      PROVE  /\ link'[u].out # <<>> /\ link'[u].out[Len(link'[u].out)].type = "leave"
             /\ link'[u].out[Len(link'[u].out)].room = r
  BY <1>1, <1>4, RangeOfAppend
<1>5. CASE Leave(u, r)
  <2>1. PICK p \in Request : Writes(u, p) /\ p.type = "leave" /\ p.room = r
    BY <1>3, <1>5, AskType DEF Leave
  <2>2. link'[u].out = Append(link[u].out, p)
    BY <1>1, <2>1, WritesStep
  <2> QED  BY <1>4, <2>1, <2>2
<1>6. CASE ui[u].pc = "drop" /\ r = ui[u].room
  <2>1. \/ /\ link[u].out # <<>> /\ link[u].out[Len(link[u].out)].type = "leave"
           /\ link[u].out[Len(link[u].out)].room = r
        \/ link[u].out = <<>> /\ h[u].pc # "insert" /\ u \notin members[r]
    BY <1>1, <1>6 DEF OwnChange
  <2>2. CASE link'[u].out = link[u].out
    <3>1. CASE link[u].out # <<>>
      BY <2>1, <2>2, <3>1
    <3>2. CASE link[u].out = <<>>
      <4>1. ~ServeCreate(u) /\ ~ServeLeave(u) /\ ~ServeJoin(u)
        BY <3>2 DEF ServeCreate, ServeLeave, ServeJoin, Takes
      <4>2. ~Insert(u)
        BY <2>1, <3>2 DEF Insert
      <4>3. u \notin members'[r]
        BY <1>3, <2>1, <3>2, <4>1, <4>2, MembersStep
      <4>4. h'[u].pc # "insert"
        BY <2>1, <3>2, <4>1, HandlerMoves, ServeComesTo
      <4> QED  BY <2>2, <3>2, <4>3, <4>4
    <3> QED  BY <3>1, <3>2
  <2>3. ASSUME NEW type, Takes(u, type), Serve(u)
        PROVE  \/ /\ link'[u].out # <<>> /\ link'[u].out[Len(link'[u].out)].type = "leave"
                  /\ link'[u].out[Len(link'[u].out)].room = r
               \/ link'[u].out = <<>> /\ h'[u].pc # "insert" /\ u \notin members'[r]
    <3>1. /\ link[u].out # <<>> /\ link'[u].out = Tail(link[u].out)
          /\ Frame(u) = link[u].out[1] /\ Frame(u).type = type
      BY <1>1, <2>3, TakesStep
    <3>2. \/ link'[u].out = <<>> /\ link[u].out[Len(link[u].out)] = link[u].out[1]
          \/ /\ link'[u].out # <<>>
             /\ link'[u].out[Len(link'[u].out)] = link[u].out[Len(link[u].out)]
      BY <1>1, <3>1, LastOfTail
    <3>3. CASE link'[u].out = <<>> /\ link[u].out[Len(link[u].out)] = link[u].out[1]
      <4>1. Frame(u).type = "leave" /\ Frame(u).room = r
        BY <2>1, <3>1, <3>3
      <4>2. ServeLeave(u)
        BY <1>2, <2>3, <3>1, <4>1, LeaveServed
      <4>3. members' = [members EXCEPT ![Frame(u).room] = @ \ {u}]
        BY <4>2 DEF ServeLeave
      <4>4. u \notin members'[r]
        BY <1>1, <1>3, <4>1, <4>3 DEF Records
      <4>5. h'[u].pc = "answer"
        BY <1>1, <4>2 DEF ServeLeave, Answers, Records
      <4> QED  BY <3>3, <4>4, <4>5
    <3>4. CASE /\ link'[u].out # <<>>
               /\ link'[u].out[Len(link'[u].out)] = link[u].out[Len(link[u].out)]
      BY <2>1, <3>1, <3>4
    <3>5. (\/ link'[u].out = <<>> /\ link[u].out[Len(link[u].out)] = link[u].out[1]
           \/ /\ link'[u].out # <<>>
              /\ link'[u].out[Len(link'[u].out)] = link[u].out[Len(link[u].out)])
      BY <3>2
    <3> QED  BY <3>3, <3>4, <3>5
  <2>4. ASSUME NEW p \in Request, link'[u].out = Append(link[u].out, p), Written(u, p)
        PROVE  /\ link'[u].out # <<>> /\ link'[u].out[Len(link'[u].out)].type = "leave"
               /\ link'[u].out[Len(link'[u].out)].room = r
    <3>1. p.type = "leave" /\ p.room = r
      BY <2>4 DEF Written
    <3> QED  BY <1>4, <2>4, <3>1
  <2> QED  BY <1>1, <1>2, <2>2, <2>3, <2>4, Moves DEF OutMoves
<1> QED  BY <1>5, <1>6, TurnMoves

LEMMA CreatedStep ==
  ASSUME Typed, Newest, [RmNext]_rmVars, NEW u \in User, CreatedOf(u)
  PROVE  CreatedOf(u)'
<1>1. Records /\ commands[u] \in Nat /\ Typed' /\ OutMoves(u)
  BY Fields, TypedStep, Moves DEF Typed
<1>2. ASSUME ui'[u].pc = "wait", ui'[u].kind = "create", NEW p \in Known(u)', IsAnswer(p),
             p.req = commands'[u]
      PROVE  u \in members'[p.room]
  <2>1. p \in Known(u) \/ Made(u, p)
    BY <1>2, AnswersMove
  <2>2. p \in Known(u) => p.req <= commands[u]
    BY <1>2 DEF Newest, NewestOf, Known, Answering
  <2>3. Made(u, p) => Serve(u)
    BY DEF Made, Serve
  <2>4. Serve(u) => UNCHANGED commands
    BY DEF Serve, FlushRead, FlushSend, FlushClear, ServeCreate, ServeJoin, Insert, ServeLeave,
       ServeMembers, ServePost, Route, FanOut, Enqueue, Delivered, Answer, End, cliVars
  <2>5. commands'[u] # commands[u] + 1
    BY <1>1, <1>2, <2>1, <2>2, <2>3, <2>4
  <2>6. ui[u].pc = "wait" /\ ui[u].kind = "create" /\ commands'[u] = commands[u]
    BY <1>2, <2>5, Moves DEF CommandMoves
  <2>7. CASE p \in Known(u)
    <3>1. link[u].out = <<>> /\ (p.type # "list")
      BY <1>2, <2>6, <2>7 DEF Newest, NewestOf, Known, Answering
    <3>2. ~ServeLeave(u)
      BY <3>1 DEF ServeLeave, Takes
    <3>3. p.room \in Room
      <4>1. p \in Sent
        BY <1>1, <2>7, Fields, RangeType DEF Known, Answering, Answered
      <4> QED  BY <1>2, <3>1, <4>1, SentFields DEF IsAnswer
    <3> QED  BY <1>2, <2>6, <2>7, <3>2, <3>3, MemberStays DEF CreatedOf
  <2>8. CASE Made(u, p)
    <3>1. commands[u] > 0
      BY <2>6 DEF Typed, CommandOK
    <3>2. ASSUME NEW type, Takes(u, type), p.req = Frame(u).req PROVE type = "create"
      <4>1. Frame(u) = link[u].out[1] /\ 1 \in DOMAIN link[u].out /\ Frame(u).type = type
        BY <1>1, <3>2, TakesStep
      <4> QED  BY <1>2, <2>6, <3>2, <4>1 DEF Newest, NewestOf, Wanted
    <3>3. CASE ServeCreate(u) /\ u \in members'[p.room]
      BY <3>3
    <3>4. CASE Insert(u) /\ p \in h[u].out
      <4>1. PICK q \in h[u].out : members' = [members EXCEPT ![q.room] = @ \cup {u}]
        BY <3>4 DEF Insert
      <4>2. q = p /\ p.room \in Room
        BY <3>4, <4>1 DEF Typed, HandlerOK, Insert, Records
      <4> QED  BY <1>1, <4>1, <4>2 DEF Records
    <3>5. ~(ServeJoin(u) /\ p.req = Frame(u).req)
      BY <3>2 DEF ServeJoin
    <3>6. ~(ServeMembers(u) /\ p.req = Frame(u).req)
      BY <3>2 DEF ServeMembers
    <3>7. p.req # 0
      BY <1>1, <1>2, <2>6, <3>1
    <3> QED  BY <2>8, <3>3, <3>4, <3>5, <3>6, <3>7 DEF Made
  <2> QED  BY <2>1, <2>7, <2>8
<1>3. ASSUME ui'[u].pc = "save", NEW r, r = ui'[u].room
      PROVE  u \in members'[r] /\ link'[u].out = <<>>
  <2>1. r \in Room
    <3>1. CommandOK(u)'
      BY <1>1 DEF Typed
    <3> QED  BY <1>3, <3>1 DEF CommandOK
  <2>2. CASE ui[u].pc = "save" /\ r = ui[u].room
    <3>1. u \in members[r] /\ link[u].out = <<>>
      BY <2>2 DEF CreatedOf
    <3>2. \A type : ~Takes(u, type)
      BY <3>1 DEF Takes
    <3>3. u \in members'[r]
      BY <2>1, <3>1, <3>2, MemberStays DEF ServeLeave
    <3>4. \A p : ~Written(u, p)
      BY <1>3 DEF Written
    <3>5. \A o \in 0..Len(link[u].out) : SubSeq(link[u].out, 1, o) = <<>>
      <4>1. ASSUME NEW o \in 0..Len(link[u].out) PROVE SubSeq(link[u].out, 1, o) = <<>>
        <5>1. o = 0
          BY <3>1, <4>1
        <5>2. link[u].out \in Seq(Request)
          BY <1>1, Fields
        <5> QED  BY <5>1, <5>2
      <4> QED  BY <4>1
    <3> QED  BY <1>1, <3>1, <3>2, <3>3, <3>4, <3>5 DEF OutMoves
  <2>3. ASSUME UNCHANGED <<link, members>>, ui[u].pc = "wait", ui[u].kind = "create",
               NEW p \in ui[u].result, IsAnswer(p), p.req = commands[u], r = p.room,
               link[u].out = <<>>
        PROVE  u \in members'[r] /\ link'[u].out = <<>>
    <3>1. p \in Known(u)
      BY <2>3 DEF Known, Answered
    <3> QED  BY <2>3, <3>1 DEF CreatedOf
  <2> QED  BY <1>3, <2>2, <2>3, TurnMoves
<1> QED  BY <1>2, <1>3 DEF CreatedOf

LEMMA PipelineStep ==
  ASSUME Typed, Newest, Pipeline, [RmNext]_rmVars
  PROVE  Pipeline'
<1>1. Records
  BY DEF Typed
<1>2. ASSUME NEW u \in User, Steady(u)' PROVE PipelineFor(u)'
  <2>1. Steady(u) /\ ~Start(u) /\ ~Break(u) /\ ~Crash /\ link[u].up /\ link'[u].up
    BY <1>2, SteadyStep DEF Steady
  <2>2. /\ PipelineFor(u) /\ CreatedOf(u) /\ OwnChange(u)
        /\ h[u].pc \notin {"read", "flush", "clear", "end", "ended"}
    BY <2>1 DEF Pipeline, PipelineFor
  <2>3. OwnChange(u)'
    BY <1>2, <2>1, <2>2, OwnChangeStep
  <2>4. h'[u].pc \notin {"read", "flush", "clear", "end", "ended"}
    <3>1. ~FlushRead(u) /\ ~FlushSend(u) /\ ~End(u)
      BY <2>1, <2>2 DEF FlushRead, FlushSend, End
    <3>2. Delivered(u) \/ Answer(u) => h'[u].pc = "recv"
      BY <2>1, DeliveredStep, AnswerStep
    <3>3. CASE Serve(u)
      BY <3>1, <3>2, <3>3, ServeComesTo
    <3>4. CASE h'[u] = h[u]
      BY <2>2, <3>4
    <3> QED  BY <2>1, <3>3, <3>4, HandlerMoves
  <2>5. ASSUME NEW r \in Room PROVE PipelineOf(u, r)'
    <3>1. PipelineOf(u, r)
      BY <2>1, <2>2 DEF PipelineFor
    <3>2. CASE UNCHANGED rmVars
      BY <3>1, <3>2, PipelineKept DEF rmVars, srvVars, cliVars, Answering, LeaveOnWire
    <3>3. ASSUME NEW v \in User, v # u,
                 Start(v) \/ Break(v) \/ Command(v) \/ Serve(v) \/ Resume(v) \/ Read(v)
          PROVE  PipelineOf(u, r)'
      BY <3>1, <3>3, OthersPipeline
    <3>4. Command(u) \/ Serve(u) \/ Resume(u) \/ Read(u) => PipelineOf(u, r)'
      BY <2>1, <2>2, <3>1, CommandPipeline, ServePipeline, ResumePipeline, ReadPipeline
    <3> QED  BY <2>1, <3>2, <3>3, <3>4 DEF RmNext
  <2> QED  BY <2>3, <2>4, <2>5 DEF PipelineFor
<1>3. ASSUME NEW u \in User PROVE PipelineFor(u)'
  BY <1>2 DEF PipelineFor
<1>4. ASSUME NEW u \in User PROVE CreatedOf(u)'
  BY CreatedStep DEF Pipeline
<1> QED  BY <1>3, <1>4 DEF Pipeline

\* When nothing is under way, a client whose connection was never lost lists the rooms
\* its user is a member of (RoomHandler's rows and room_members): also when a join was
\* given up before its answer came, since on_room_info saves a room for any answer, and
\* whatever was commanded meanwhile.
THEOREM RowsAreMemberships == RmSpec => []RowsFollow
<1>1. RmInit => Pipeline
  <2> SUFFICES ASSUME RmInit, NEW u \in User PROVE PipelineFor(u) /\ CreatedOf(u)
    BY DEF Pipeline
  <2>1. /\ h[u].pc = "recv" /\ h[u].out = {} /\ ui[u].pc = "idle" /\ ui[u].result = {}
        /\ link[u].in = <<>> /\ link[u].out = <<>> /\ net[u].do = "none"
    BY Constants DEF RmInit, Recv, Idle, Quiet
  <2>2. ASSUME NEW r \in Room PROVE PipelineOf(u, r)
    <3>1. Answering(u) = {} /\ ~HandlerTouches(u, r) /\ DOMAIN link[u].in = {}
      BY <2>1 DEF Answering, HandlerTouches
    <3>2. r \in rows[u] <=> u \in members[r]
      BY DEF RmInit
    <3> QED  BY <2>1, <3>1, <3>2 DEF PipelineOf
  <2> QED  BY <2>1, <2>2 DEF PipelineFor, OwnChange, CreatedOf
<1>2. (Typed /\ Newest) /\ Pipeline /\ [RmNext]_rmVars => Pipeline'
  BY PipelineStep
<1>3. (Typed /\ Newest) /\ Pipeline => RowsFollow
  <2> SUFFICES ASSUME Typed, Pipeline, NEW u \in User, Still(u), runs[u] = 1, crashes = 0
               PROVE  rows[u] = {r \in Room : u \in members[r]}
    BY DEF RowsFollow
  <2>1. Steady(u) /\ h[u].pc = "recv" /\ net[u].do = "none" /\ link[u].in = <<>> /\ link[u].out = <<>>
    BY DEF Still, Steady, Quiet
  <2>2. ASSUME NEW r \in Room PROVE r \in rows[u] <=> u \in members[r]
    <3>1. PipelineOf(u, r)
      BY <2>1 DEF Pipeline, PipelineFor
    <3>2. ~HandlerTouches(u, r) /\ ~InTouches(u, r) /\ ~LeaveOnWire(u, r)
      BY <2>1, RangeOfNone DEF HandlerTouches, Answering, InTouches, LeaveOnWire
    <3> QED  BY <2>1, <3>1, <3>2 DEF PipelineOf
  <2>3. rows[u] \subseteq Room
    BY DEF Typed, Records
  <2> QED  BY <2>2, <2>3
<1> QED  BY <1>1, <1>2, <1>3, TypedHolds, PTL DEF RmSpec
=============================================================================
