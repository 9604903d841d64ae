------------------------ MODULE ServerDeliveryProofs ------------------------
(***************************************************************************)
(* Theorems about ServerDelivery, for any users, connections and packets:  *)
(* the type invariant, that packets reach only connections their recipient *)
(* logged in on, that nothing a flush has read is deleted unwritten, that  *)
(* no finished handler stays routed under its last user, that a packet     *)
(* told of as delivered was written once, that a SYNC_RESPONSE keeps the   *)
(* order of a sender, and that the server implements Mailbox.              *)
(***************************************************************************)
EXTENDS ServerDelivery, SequenceTheorems, TLAPS

\* What a handler's locals hold at each step: TypeOK is not inductive without it.
LocalsOK(r) ==
  /\ r.pc \in {"flush", "sync", "clear"} => r.who \in User \/ r.user \in User
  /\ r.pc \in {"announce", "online"} => r.who \in User
  /\ r.pc \in {"sending", "enqueue", "ack"} => r.cur \in Pkt
  /\ r.pc = "sending" => r.tgt \in Conn

TypeInv == TypeOK /\ \A c \in Conn : LocalsOK(h[c])

USE NullAssumption

\* Fresh locals are locals.
LEMMA AtType ==
  ASSUME NEW s \in Step, NEW u \in User \cup {NoUser}
  PROVE  /\ At(s, u) \in Locals
         /\ At(s, u).pc = s /\ At(s, u).user = u /\ At(s, u).who = NoUser
         /\ At(s, u).snap = <<>> /\ At(s, u).cur = NoPkt
BY DEF At, Locals, Status

\* The elements of a sequence of packets, of an extension and of a suffix.
LEMMA RangeFacts ==
  ASSUME NEW s \in Seq(Pkt), NEW t \in Seq(Pkt)
  PROVE  /\ Range(s) \subseteq Pkt
         /\ Range(s \o t) = Range(s) \cup Range(t)
         /\ \A p \in Pkt : Range(Append(s, p)) = Range(s) \cup {p}
         /\ \A i \in 1..(Len(s) + 1) : /\ SubSeq(s, i, Len(s)) \in Seq(Pkt)
                                       /\ Range(SubSeq(s, i, Len(s))) \subseteq Range(s)
<1>1. Range(s) \subseteq Pkt
  BY DEF Range
<1>2. Range(s \o t) = Range(s) \cup Range(t)
  BY RangeConcatenation
<1>3. ASSUME NEW p \in Pkt PROVE Range(Append(s, p)) = Range(s) \cup {p}
  <2>1. Append(s, p) = s \o <<p>> /\ <<p>> \in Seq(Pkt)
    BY AppendIsConcat
  <2>2. Range(<<p>>) = {p}
    BY DEF Range
  <2>3. Range(s \o <<p>>) = Range(s) \cup Range(<<p>>)
    BY ZenonT(30), <2>1, RangeConcatenation
  <2> QED BY <2>1, <2>2, <2>3
<1>4. ASSUME NEW i \in 1..(Len(s) + 1)
      PROVE  /\ SubSeq(s, i, Len(s)) \in Seq(Pkt)
             /\ Range(SubSeq(s, i, Len(s))) \subseteq Range(s)
  BY SubSeqProperties DEF Range
<1> QED BY <1>1, <1>2, <1>3, <1>4

\* Presence is told to users and their connections.
LEMMA OthersType ==
  ASSUME TypeOK, NEW u
  PROVE  Others(u) \in SUBSET (User \X Conn)
BY DEF Others, TypeOK

\* A handler that replaces its locals by well-formed ones keeps all well-formed.
LEMMA UpdateLocals ==
  ASSUME TypeInv, NEW c \in Conn, NEW r \in Locals, LocalsOK(r),
         h' = [h EXCEPT ![c] = r]
  PROVE  h' \in [Conn -> Locals] /\ \A d \in Conn : LocalsOK(h[d])'
BY DEF TypeInv, TypeOK, LocalsOK

\* The end of a handler keeps the type invariant.
LEMMA FinishType ==
  ASSUME TypeInv, NEW c \in Conn, Finish(c)
  PROVE  TypeInv'
<1>1. h[c].user \in User \cup {NoUser}
  BY DEF TypeInv, TypeOK, Locals
<1>2. CASE h[c].user = NoUser
  <2> DEFINE r == At("done", NoUser)
  <2>1. r \in Locals /\ LocalsOK(r)
    BY AtType DEF Step, LocalsOK
  <2>2. h' = [h EXCEPT ![c] = r] /\ sock' = [sock EXCEPT ![c] = "closed"]
    BY <1>2 DEF Finish
  <2> HIDE DEF r
  <2>3. h' \in [Conn -> Locals] /\ \A d \in Conn : LocalsOK(h[d])'
    BY <2>1, <2>2, UpdateLocals
  <2> QED BY <1>2, <2>2, <2>3 DEF TypeInv, TypeOK, Finish, history
<1>3. CASE h[c].user # NoUser
  <2> DEFINE r == [At("offline", h[c].user) EXCEPT !.todo = Others(h[c].user)]
  <2>1. r \in Locals /\ LocalsOK(r)
    BY <1>1, AtType, OthersType DEF Step, Locals, LocalsOK, TypeInv
  <2>2. h' = [h EXCEPT ![c] = r]
    BY <1>3 DEF Finish
  <2> HIDE DEF r
  <2>3. h' \in [Conn -> Locals] /\ \A d \in Conn : LocalsOK(h[d])'
    BY <2>1, <2>2, UpdateLocals
  <2> QED BY <1>3, <2>3 DEF TypeInv, TypeOK, Finish, history
<1> QED BY <1>2, <1>3

\* Clients, network and restarts keep the type invariant.
LEMMA EnvironmentType ==
  ASSUME TypeInv, NEW c \in Conn, Connect(c) \/ Drop(c) \/ Crash
  PROVE  TypeInv'
<1>1. CASE Connect(c)
  BY <1>1 DEF TypeInv, TypeOK, Connect, history
<1>2. CASE Drop(c)
  BY <1>2 DEF TypeInv, TypeOK, Drop, history
<1>3. CASE Crash
  <2> DEFINE r == At("done", NoUser)
  <2>1. r \in Locals /\ LocalsOK(r)
    BY AtType DEF Step, LocalsOK
  <2>2. h' = [d \in Conn |-> IF sock[d] = "unused" THEN h[d] ELSE r]
    BY <1>3 DEF Crash
  <2> HIDE DEF r
  <2>3. h' \in [Conn -> Locals] /\ \A d \in Conn : LocalsOK(h[d])'
    BY <2>1, <2>2 DEF TypeInv, TypeOK, LocalsOK
  <2>4. crashes' \in 0..MaxCrash
    BY <1>3, BoundAssumption DEF Crash, TypeInv, TypeOK
  <2> QED BY <1>3, <2>3, <2>4 DEF TypeInv, TypeOK, Crash, Open, history
<1> QED BY <1>1, <1>2, <1>3

\* The presence broadcast keeps the type invariant.
LEMMA PresenceType ==
  ASSUME TypeInv, NEW c \in Conn,
         SendStatus(c) \/ LoggedIn(c) \/ Done(c) \/ Announce(c)
  PROVE  TypeInv'
<1>0. h[c] \in Locals /\ LocalsOK(h[c])
  BY DEF TypeInv, TypeOK
<1>1. CASE SendStatus(c)
  <2>1. PICK t \in h[c].todo :
          /\ h' = [h EXCEPT ![c].todo = @ \ {t}]
          /\ router' = IF Open(t[2]) THEN router ELSE [router EXCEPT ![t[1]] = NoConn]
    BY <1>1 DEF SendStatus
  <2> DEFINE r == [h[c] EXCEPT !.todo = @ \ {t}]
  <2>2. r \in Locals /\ LocalsOK(r)
    BY <1>0 DEF Locals, LocalsOK
  <2>3. h' = [h EXCEPT ![c] = r]
    BY <2>1
  <2> HIDE DEF r
  <2>4. h' \in [Conn -> Locals] /\ \A d \in Conn : LocalsOK(h[d])'
    BY <2>2, <2>3, UpdateLocals
  <2> QED BY <1>1, <2>1, <2>4 DEF TypeInv, TypeOK, SendStatus, history
<1>2. CASE LoggedIn(c)
  <2> DEFINE r == At("recv", h[c].who)
  <2>1. r \in Locals /\ LocalsOK(r)
    BY <1>0, AtType DEF Step, LocalsOK, Locals
  <2>2. h' = [h EXCEPT ![c] = r]
    BY <1>2 DEF LoggedIn
  <2> HIDE DEF r
  <2>3. h' \in [Conn -> Locals] /\ \A d \in Conn : LocalsOK(h[d])'
    BY <2>1, <2>2, UpdateLocals
  <2> QED BY <1>2, <2>3 DEF TypeInv, TypeOK, LoggedIn, history
<1>3. CASE Done(c)
  <2> DEFINE r == At("done", h[c].user)
  <2>1. r \in Locals /\ LocalsOK(r)
    BY <1>0, AtType DEF Step, LocalsOK, Locals
  <2>2. h' = [h EXCEPT ![c] = r]
    BY <1>3 DEF Done
  <2> HIDE DEF r
  <2>3. h' \in [Conn -> Locals] /\ \A d \in Conn : LocalsOK(h[d])'
    BY <2>1, <2>2, UpdateLocals
  <2> QED BY <1>3, <2>3 DEF TypeInv, TypeOK, Done, history
<1>4. CASE Announce(c)
  <2> DEFINE r == [h[c] EXCEPT !.pc = "online", !.todo = Others(h[c].who)]
  <2>1. r \in Locals /\ LocalsOK(r)
    BY <1>0, <1>4, OthersType DEF Announce, Pc, Locals, LocalsOK, Step, TypeInv
  <2>2. h' = [h EXCEPT ![c] = r]
    BY <1>4 DEF Announce
  <2> HIDE DEF r
  <2>3. h' \in [Conn -> Locals] /\ \A d \in Conn : LocalsOK(h[d])'
    BY <2>1, <2>2, UpdateLocals
  <2> QED BY <1>4, <2>3 DEF TypeInv, TypeOK, Announce, history
<1> QED BY <1>1, <1>2, <1>3, <1>4

\* Synchronisation keeps the type invariant.
LEMMA SyncType ==
  ASSUME TypeInv, NEW c \in Conn,
         RecvSyncRequest(c) \/ Flush(c) \/ Sync(c) \/ Clear(c)
  PROVE  TypeInv'
<1>0. h[c] \in Locals /\ LocalsOK(h[c])
  BY DEF TypeInv, TypeOK
<1>1. CASE RecvSyncRequest(c)
  <2> DEFINE r == At("flush", h[c].user)
  <2>1. r \in Locals /\ LocalsOK(r)
    BY <1>0, <1>1, AtType DEF RecvSyncRequest, Step, LocalsOK, Locals
  <2>2. h' = [h EXCEPT ![c] = r]
    BY <1>1 DEF RecvSyncRequest
  <2> HIDE DEF r
  <2>3. h' \in [Conn -> Locals] /\ \A d \in Conn : LocalsOK(h[d])'
    BY <2>1, <2>2, UpdateLocals
  <2> QED BY <1>1, <2>3 DEF TypeInv, TypeOK, RecvSyncRequest, history
<1>2. CASE Flush(c)
  <2>1. Box(c) \in User /\ queue[Box(c)] \in Seq(Pkt)
    BY <1>0, <1>2 DEF Flush, Pc, LocalsOK, Locals, Box, TypeInv, TypeOK
  <2> DEFINE rows == queue[Box(c)]
  <2>2. PICK first \in 1..(Len(rows) + 1) :
          h' = [h EXCEPT ![c].snap = SubSeq(rows, first, Len(rows)),
                         ![c].pc = IF h[c].who # NoUser /\ SubSeq(rows, first, Len(rows)) = <<>>
                                     THEN "clear" ELSE "sync"]
    BY <1>2 DEF Flush
  <2> DEFINE read == SubSeq(rows, first, Len(rows))
  <2>3. read \in Seq(Pkt)
    BY <2>1, <2>2, SubSeqProperties
  <2> HIDE DEF read
  <2> DEFINE r == [h[c] EXCEPT !.snap = read,
                     !.pc = IF h[c].who # NoUser /\ read = <<>> THEN "clear" ELSE "sync"]
  <2>4. r \in Locals /\ LocalsOK(r)
    BY <1>0, <1>2, <2>3 DEF Flush, Pc, Locals, LocalsOK, Step
  <2>5. h' = [h EXCEPT ![c] = r]
    BY <2>2 DEF read
  <2> HIDE DEF r
  <2>6. h' \in [Conn -> Locals] /\ \A d \in Conn : LocalsOK(h[d])'
    BY <2>4, <2>5, UpdateLocals
  <2> QED BY <1>2, <2>6 DEF TypeInv, TypeOK, Flush, history
<1>3. CASE Sync(c)
  <2> DEFINE r == [h[c] EXCEPT !.pc = IF Open(c) THEN "clear" ELSE "raise"]
  <2>1. r \in Locals /\ LocalsOK(r)
    BY <1>0, <1>3 DEF Sync, Pc, Step, LocalsOK, Locals
  <2>2. h' = [h EXCEPT ![c] = r]
    BY <1>3 DEF Sync
  <2> HIDE DEF r
  <2>3. h' \in [Conn -> Locals] /\ \A d \in Conn : LocalsOK(h[d])'
    BY <2>1, <2>2, UpdateLocals
  <2>4. wire' \in [Conn -> Seq(Pkt)]
    BY <1>0, <1>3, ConcatProperties DEF Sync, TypeInv, TypeOK, Locals
  <2> QED BY <1>3, <2>3, <2>4 DEF TypeInv, TypeOK, Sync, history
<1>4. CASE Clear(c)
  <2>0. Box(c) \in User /\ queue[Box(c)] \in Seq(Pkt)
    BY <1>0, <1>4 DEF Clear, Pc, LocalsOK, Locals, Box, TypeInv, TypeOK
  <2> DEFINE u == Box(c)
             back == At("recv", u)
             next == [At("announce", h[c].user) EXCEPT !.who = u]
             r == IF h[c].who = NoUser THEN back ELSE next
  <2>a. back \in Locals /\ LocalsOK(back)
    BY <2>0, AtType DEF Step, LocalsOK, Locals
  <2>b. next \in Locals /\ LocalsOK(next)
    BY <1>0, <2>0, AtType DEF Step, LocalsOK, Locals
  <2> HIDE DEF back, next
  <2>1. r \in Locals /\ LocalsOK(r)
    BY <2>a, <2>b
  <2>2. h' = [h EXCEPT ![c] = r]
    BY <1>4 DEF Clear, back, next
  <2> HIDE DEF r
  <2>3. h' \in [Conn -> Locals] /\ \A d \in Conn : LocalsOK(h[d])'
    BY <2>1, <2>2, UpdateLocals
  <2>4. queue' \in [User -> Seq(Pkt)]
    BY <1>4, EmptySeq DEF Clear, TypeInv, TypeOK
  <2>5. overrun' \subseteq Pkt
    <3>1. Range(queue[u]) \subseteq Pkt
      BY <2>0, RangeFacts
    <3> QED BY <1>4, <3>1 DEF Clear, TypeInv, TypeOK
  <2> QED BY <1>4, <2>3, <2>4, <2>5 DEF TypeInv, TypeOK, Clear, history
<1> QED BY <1>1, <1>2, <1>3, <1>4

\* Logging in and relaying keep the type invariant.
LEMMA RelayType ==
  ASSUME TypeInv, NEW c \in Conn,
         \/ \E u \in User : RecvAuth(c, u)
         \/ \E p \in Pkt : RecvPacket(c, p)
         \/ SendReturns(c) \/ SendRaises(c) \/ Enqueue(c) \/ Ack(c)
  PROVE  TypeInv'
<1>0. h[c] \in Locals /\ LocalsOK(h[c])
  BY DEF TypeInv, TypeOK
<1>a. ASSUME NEW s \in Status, Answer(c, s), h[c].cur \in Pkt
      PROVE  h' \in [Conn -> Locals] /\ \A d \in Conn : LocalsOK(h[d])'
  <2> DEFINE r == CASE Kind[h[c].cur] = "message" -> [h[c] EXCEPT !.pc = "ack", !.stat = s]
                    [] Kind[h[c].cur] = "edit" -> [h[c] EXCEPT !.pc = "ack", !.stat = "edited"]
                    [] OTHER -> At("recv", h[c].user)
  <2>1. r \in Locals /\ LocalsOK(r)
    <3>1. CASE Kind[h[c].cur] = "message"
      <4>1. r = [h[c] EXCEPT !.pc = "ack", !.stat = s]
        BY <3>1
      <4> QED BY ZenonT(60), <1>0, <1>a, <4>1 DEF Step, Locals, Status, LocalsOK
    <3>2. CASE Kind[h[c].cur] = "edit"
      <4>1. r = [h[c] EXCEPT !.pc = "ack", !.stat = "edited"]
        BY <3>2
      <4> QED BY ZenonT(60), <1>0, <1>a, <4>1 DEF Step, Locals, Status, LocalsOK
    <3>3. CASE Kind[h[c].cur] \notin {"message", "edit"}
      <4>1. r = At("recv", h[c].user)
        BY <3>3
      <4> HIDE DEF r
      <4> QED BY <1>0, <4>1, AtType DEF Step, LocalsOK, Locals
    <3> QED BY <3>1, <3>2, <3>3
  <2>2. h' = [h EXCEPT ![c] = r]
    BY <1>a DEF Answer
  <2> HIDE DEF r
  <2> QED BY <2>1, <2>2, UpdateLocals
<1>1. ASSUME NEW u \in User, RecvAuth(c, u) PROVE TypeInv'
  <2> DEFINE r == [At(IF Open(c) THEN "flush" ELSE "raise", h[c].user) EXCEPT !.who = u]
  <2>1. r \in Locals /\ LocalsOK(r)
    <3>1. ASSUME NEW s \in Step
          PROVE  [At(s, h[c].user) EXCEPT !.who = u] \in Locals
      BY <1>0, AtType DEF Locals
    <3>2. ASSUME NEW s \in {"flush", "raise"}
          PROVE  LocalsOK([At(s, h[c].user) EXCEPT !.who = u])
      BY DEF LocalsOK, At
    <3> QED BY <3>1, <3>2 DEF Step
  <2>2. h' = [h EXCEPT ![c] = r]
    BY <1>1 DEF RecvAuth
  <2> HIDE DEF r
  <2>3. h' \in [Conn -> Locals] /\ \A d \in Conn : LocalsOK(h[d])'
    BY <2>1, <2>2, UpdateLocals
  <2> QED BY <1>1, <2>3 DEF TypeInv, TypeOK, RecvAuth
<1>2. ASSUME NEW p \in Pkt, RecvPacket(c, p) PROVE TypeInv'
  <2>1. To[p] \in User /\ router[To[p]] \in Conn \cup {NoConn}
    BY PktAssumption DEF TypeInv, TypeOK
  <2> DEFINE t == router[To[p]]
             to(s) == [h[c] EXCEPT !.pc = s, !.cur = p, !.tgt = t]
             r == CASE t # NoConn -> to("sending")
                    [] t = NoConn /\ Kind[p] = "hint" -> h[c]
                    [] OTHER -> to("enqueue")
  <2>2. r \in Locals /\ LocalsOK(r)
    BY <1>0, <2>1 DEF Step, LocalsOK, Locals
  <2>3. h' = [h EXCEPT ![c] = r]
    BY <1>2 DEF RecvPacket
  <2> HIDE DEF r
  <2>4. h' \in [Conn -> Locals] /\ \A d \in Conn : LocalsOK(h[d])'
    BY <2>2, <2>3, UpdateLocals
  <2>5. wire' \in [Conn -> Seq(Pkt)] /\ recvd' \in [Conn -> Seq(Pkt)]
    BY ZenonT(60), <1>2, <2>1, AppendProperties DEF RecvPacket, TypeInv, TypeOK
  <2> QED BY <1>2, <2>4, <2>5 DEF TypeInv, TypeOK, RecvPacket
<1>3. CASE SendReturns(c)
  <2>1. h' \in [Conn -> Locals] /\ \A d \in Conn : LocalsOK(h[d])'
    BY <1>0, <1>3, <1>a DEF SendReturns, Status, Pc, LocalsOK
  <2> QED BY <1>3, <2>1 DEF TypeInv, TypeOK, SendReturns, history
<1>4. CASE SendRaises(c)
  <2> DEFINE r == CASE Kind[h[c].cur] = "edit" -> [h[c] EXCEPT !.pc = "raise"]
                    [] Kind[h[c].cur] = "hint" -> At("recv", h[c].user)
                    [] OTHER -> [h[c] EXCEPT !.pc = "enqueue"]
  <2>1. At("recv", h[c].user) \in Locals /\ LocalsOK(At("recv", h[c].user))
    BY <1>0, AtType DEF Step, LocalsOK, Locals
  <2>2. /\ [h[c] EXCEPT !.pc = "raise"] \in Locals
        /\ LocalsOK([h[c] EXCEPT !.pc = "raise"])
        /\ [h[c] EXCEPT !.pc = "enqueue"] \in Locals
        /\ LocalsOK([h[c] EXCEPT !.pc = "enqueue"])
    BY <1>0, <1>4 DEF SendRaises, Pc, Step, Locals, LocalsOK
  <2>3. r \in Locals /\ LocalsOK(r)
    BY <2>1, <2>2
  <2>4. h' = [h EXCEPT ![c] = r]
    BY <1>4 DEF SendRaises
  <2> HIDE DEF r
  <2>5. h' \in [Conn -> Locals] /\ \A d \in Conn : LocalsOK(h[d])'
    BY <2>3, <2>4, UpdateLocals
  <2> QED BY <1>4, <2>5 DEF TypeInv, TypeOK, SendRaises, history
<1>5. CASE Enqueue(c)
  <2>1. h[c].cur \in Pkt /\ To[h[c].cur] \in User
    BY <1>0, <1>5, PktAssumption DEF Enqueue, Pc, LocalsOK
  <2>2. h' \in [Conn -> Locals] /\ \A d \in Conn : LocalsOK(h[d])'
    BY <1>5, <1>a, <2>1 DEF Enqueue, Status
  <2>3. queue' \in [User -> Seq(Pkt)] /\ shadowed' \subseteq Pkt
    BY <1>5, <2>1, AppendProperties DEF Enqueue, TypeInv, TypeOK
  <2> QED BY <1>5, <2>2, <2>3 DEF TypeInv, TypeOK, Enqueue
<1>6. CASE Ack(c)
  <2> DEFINE r == IF Open(c) THEN At("recv", h[c].user) ELSE At("raise", h[c].user)
  <2>1. r \in Locals /\ LocalsOK(r)
    BY <1>0, AtType DEF Step, LocalsOK, Locals
  <2>2. h' = [h EXCEPT ![c] = r]
    BY <1>6 DEF Ack
  <2> HIDE DEF r
  <2>3. h' \in [Conn -> Locals] /\ \A d \in Conn : LocalsOK(h[d])'
    BY <2>1, <2>2, UpdateLocals
  <2>4. told' \in [Pkt -> Status]
    BY <1>0, <1>6 DEF Ack, TypeInv, TypeOK, Locals
  <2> QED BY <1>6, <2>3, <2>4 DEF TypeInv, TypeOK, Ack
<1> QED BY <1>1, <1>2, <1>3, <1>4, <1>5, <1>6

\* TypeInv is inductive.
LEMMA TypeStep == TypeInv /\ [Next]_vars => TypeInv'
<1> SUFFICES ASSUME TypeInv, [Next]_vars PROVE TypeInv'
  OBVIOUS
<1>1. CASE Crash
  <2>1. CASE Conn = {}
    <3>1. h' = h /\ sock' = sock
      BY <1>1, <2>1 DEF Crash, TypeInv, TypeOK
    <3> QED BY <1>1, <2>1, <3>1, BoundAssumption DEF Crash, TypeInv, TypeOK, history
  <2>2. CASE Conn # {}
    BY <1>1, <2>2, EnvironmentType
  <2> QED BY <2>1, <2>2
<1>2. ASSUME NEW c \in Conn, Resume(c) PROVE TypeInv'
  BY <1>2, FinishType, PresenceType, SyncType, RelayType
     DEF Resume, Raise, RaiseLate, Closed
<1>3. ASSUME NEW c \in Conn, Input(c) PROVE TypeInv'
  BY <1>3, FinishType, EnvironmentType, SyncType, RelayType DEF Input, Logout
<1>4. CASE UNCHANGED vars
  BY <1>4 DEF vars, TypeInv, TypeOK
<1> QED BY <1>1, <1>2, <1>3, <1>4 DEF Next

\* Init establishes it.
LEMMA TypeInit == Init => TypeInv
<1> SUFFICES ASSUME Init PROVE TypeInv
  OBVIOUS
<1>1. At("recv", NoUser) \in Locals /\ LocalsOK(At("recv", NoUser))
  BY AtType DEF Step, LocalsOK
<1>2. h \in [Conn -> Locals] /\ \A c \in Conn : LocalsOK(h[c])
  BY <1>1 DEF Init
<1> QED BY <1>2, EmptySeq, BoundAssumption DEF Init, TypeInv, TypeOK, Status

\* Every variable keeps its type: the handlers never act on a missing user, row
\* or connection, whatever connections close or are replaced between their steps.
THEOREM TypeCorrect == Spec => []TypeOK
<1>1. TypeInv => TypeOK
  BY DEF TypeInv
<1> QED BY <1>1, TypeInit, TypeStep, PTL DEF Spec

-----------------------------------------------------------------------------
\* Where packets may be: the strengthening that makes WrittenToOwner and
\* ReadRowsWritten inductive.

\* The router, a handler's user and the user being logged in on a connection are
\* all users that were registered with that connection.
OwnersOK ==
  /\ \A u \in User : router[u] # NoConn => u \in owners[router[u]]
  /\ \A c \in Conn : /\ h[c].who # NoUser => h[c].who \in owners[c]
                     /\ h[c].user # NoUser => h[c].user \in owners[c]

\* The queue and what a handler has read of it hold rows of the right user.
RowsOK ==
  /\ \A u \in User : \A p \in Range(queue[u]) : To[p] = u
  /\ \A c \in Conn : h[c].pc \in {"sync", "clear"} =>
       \A p \in Range(h[c].snap) : To[p] = Box(c)

\* ReadRowsWritten, whether or not the connection was ever used.
ReadWritten ==
  \A c \in Conn : h[c].pc = "clear" => Range(h[c].snap) \subseteq Range(wire[c])

\* A handler that is ending or has ended is not where its user is routed.
Unrouted ==
  \A c \in Conn : h[c].pc \in {"offline", "done"} /\ h[c].user # NoUser
                    => router[h[c].user] # c

SafeInv == TypeInv /\ OwnersOK /\ RowsOK /\ WrittenToOwner /\ ReadWritten /\ Unrouted

\* OwnersOK survives every step: only a login registers a connection, and it
\* registers it with the user it records.
LEMMA OwnersStep == TypeInv /\ OwnersOK /\ [Next]_vars => OwnersOK'
<1> SUFFICES ASSUME TypeInv, OwnersOK, [Next]_vars PROVE OwnersOK'
  OBVIOUS
<1>t. /\ h \in [Conn -> Locals] /\ router \in [User -> Conn \cup {NoConn}]
      /\ owners \in [Conn -> SUBSET User]
  BY DEF TypeInv, TypeOK
<1>f. ASSUME NEW c \in Conn, Finish(c) PROVE OwnersOK'
  <2>1. /\ \A d \in Conn : /\ h'[d].who \in {NoUser, h[d].who}
                           /\ h'[d].user \in {NoUser, h[d].user}
        /\ \A u \in User : router'[u] \in {NoConn, router[u]}
    <3>1. CASE h[c].user = NoUser
      <4>1. h' = [h EXCEPT ![c] = At("done", NoUser)] /\ router' = router
        BY <1>f, <3>1 DEF Finish
      <4> QED BY <1>t, <4>1 DEF At, Locals
    <3>2. CASE h[c].user # NoUser
      BY <1>f, <1>t, <3>2 DEF Finish, At, Locals
    <3> QED BY <3>1, <3>2
  <2> QED BY <1>f, <2>1 DEF Finish, OwnersOK, history
<1>1. CASE Crash
  BY <1>1, <1>t DEF Crash, OwnersOK, At, history
<1>2. ASSUME NEW c \in Conn, Connect(c) \/ Drop(c) PROVE OwnersOK'
  BY <1>2, <1>t DEF Connect, Drop, OwnersOK, history
<1>3. ASSUME NEW c \in Conn, SendStatus(c) PROVE OwnersOK'
  BY <1>3, <1>t DEF SendStatus, OwnersOK, history, Locals
<1>4. ASSUME NEW c \in Conn, LoggedIn(c) \/ Done(c) \/ Announce(c) PROVE OwnersOK'
  BY <1>4, <1>t DEF LoggedIn, Done, Announce, OwnersOK, At, history, Locals
<1>5. ASSUME NEW c \in Conn, NEW u \in User, RecvAuth(c, u) PROVE OwnersOK'
  BY <1>5, <1>t DEF RecvAuth, OwnersOK, At, Locals
<1>6. ASSUME NEW c \in Conn, RecvSyncRequest(c) \/ Flush(c) \/ Sync(c) PROVE OwnersOK'
  <2>1. \A d \in Conn : /\ h'[d].who \in {NoUser, h[d].who}
                        /\ h'[d].user = h[d].user
    <3>1. CASE RecvSyncRequest(c)
      BY <1>t, <3>1 DEF RecvSyncRequest, At, Locals
    <3>2. CASE Flush(c)
      <4>1. PICK read, pc : h' = [h EXCEPT ![c].snap = read, ![c].pc = pc]
        BY <3>2, Zenon DEF Flush
      <4> QED BY <1>t, <4>1 DEF Locals
    <3>3. CASE Sync(c)
      BY <1>t, <3>3 DEF Sync, Locals
    <3> QED BY <1>6, <3>1, <3>2, <3>3
  <2> QED BY <1>6, <2>1 DEF RecvSyncRequest, Flush, Sync, OwnersOK, history
<1>7. ASSUME NEW c \in Conn, Clear(c) PROVE OwnersOK'
  <2>1. h[c] \in Locals /\ LocalsOK(h[c]) /\ h[c].pc = "clear"
    BY <1>7, <1>t DEF TypeInv, Clear, Pc
  <2>2. Box(c) \in owners[c] /\ Box(c) # NoUser
    BY <2>1 DEF Box, LocalsOK, OwnersOK, Locals
  <2>3. \A d \in Conn : /\ h'[d].who \in {NoUser, h[d].who}
                        /\ h'[d].user \in {NoUser, h[d].user}
    BY <1>7, <1>t, <2>1 DEF Clear, At, Box, Locals
  <2> QED BY <1>7, <2>3 DEF Clear, OwnersOK
<1>8. ASSUME NEW c \in Conn, NEW p \in Pkt, RecvPacket(c, p) PROVE OwnersOK'
  BY <1>8, <1>t DEF RecvPacket, OwnersOK, Locals
<1>9. ASSUME NEW c \in Conn, NEW s, Answer(c, s), UNCHANGED <<router, owners>>
      PROVE  OwnersOK'
  BY <1>9, <1>t DEF Answer, OwnersOK, At, Locals
<1>10. ASSUME NEW c \in Conn, SendRaises(c) PROVE OwnersOK'
  BY <1>10, <1>t DEF SendRaises, OwnersOK, At, history, Locals
<1>11. ASSUME NEW c \in Conn, Ack(c) PROVE OwnersOK'
  <2>1. \A d \in Conn : /\ h'[d].who \in {NoUser, h[d].who}
                        /\ h'[d].user = h[d].user
    BY <1>11, <1>t DEF Ack, At, Locals
  <2> QED BY <1>11, <2>1 DEF Ack, OwnersOK
<1>12. ASSUME NEW c \in Conn, SendReturns(c) \/ Enqueue(c) PROVE OwnersOK'
  BY <1>12, <1>9 DEF SendReturns, Enqueue, history
<1>13. CASE UNCHANGED vars
  BY <1>13 DEF vars, OwnersOK
<1> QED
  BY <1>f, <1>1, <1>2, <1>3, <1>4, <1>5, <1>6, <1>7, <1>8, <1>10, <1>11, <1>12, <1>13
     DEF Next, Resume, Input, Raise, RaiseLate, Closed, Logout

\* No handler comes to hold freshly read rows, or rows it is about to delete.
Calm == \A d \in Conn : h'[d].pc \in {"sync", "clear"} => h'[d] = h[d]

\* Every step but a flush and a SYNC_RESPONSE is calm.
LEMMA CalmSteps ==
  ASSUME TypeInv, NEW c \in Conn
  PROVE  /\ Crash \/ Finish(c) \/ SendStatus(c) \/ LoggedIn(c) \/ Done(c) => Calm
         /\ RecvSyncRequest(c) \/ Clear(c) \/ Announce(c) => Calm
         /\ \A u \in User : RecvAuth(c, u) => Calm
         /\ \A p \in Pkt : RecvPacket(c, p) => Calm
         /\ SendReturns(c) \/ SendRaises(c) \/ Enqueue(c) \/ Ack(c) => Calm
<1>t. h \in [Conn -> Locals]
  BY DEF TypeInv, TypeOK
<1>u. ASSUME NEW r, h' = [h EXCEPT ![c] = r], r.pc \notin {"sync", "clear"}
      PROVE  Calm
  BY <1>t, <1>u DEF Calm
<1>1. ASSUME Crash PROVE Calm
  BY <1>t, <1>1 DEF Crash, Calm, At
<1>2. ASSUME Finish(c) PROVE Calm
  <2>1. CASE h[c].user = NoUser
    <3>1. h' = [h EXCEPT ![c] = At("done", NoUser)]
      BY <1>2, <2>1 DEF Finish
    <3> QED BY <3>1, <1>u DEF At
  <2>2. CASE h[c].user # NoUser
    <3>1. h' = [h EXCEPT ![c] = [At("offline", h[c].user) EXCEPT !.todo = Others(h[c].user)]]
      BY <1>2, <2>2 DEF Finish
    <3> QED BY <3>1, <1>u DEF At
  <2> QED BY <2>1, <2>2
<1>3. ASSUME SendStatus(c) PROVE Calm
  BY <1>t, <1>3 DEF SendStatus, Pc, Calm, Locals
<1>4. ASSUME LoggedIn(c) PROVE Calm
  BY <1>t, <1>4 DEF LoggedIn, Calm, At
<1>5. ASSUME Done(c) PROVE Calm
  BY <1>t, <1>5 DEF Done, Calm, At
<1>6. ASSUME RecvSyncRequest(c) PROVE Calm
  BY <1>t, <1>6 DEF RecvSyncRequest, Calm, At
<1>7. ASSUME Clear(c) PROVE Calm
  BY <1>t, <1>7 DEF Clear, Calm, At
<1>8. ASSUME Announce(c) PROVE Calm
  BY <1>t, <1>8 DEF Announce, Calm, Locals
<1>9. ASSUME NEW u \in User, RecvAuth(c, u) PROVE Calm
  BY <1>t, <1>9 DEF RecvAuth, Calm, At
<1>10. ASSUME NEW p \in Pkt, RecvPacket(c, p) PROVE Calm
  BY <1>t, <1>10 DEF RecvPacket, Pc, Calm, Locals
<1>11. ASSUME NEW s, Answer(c, s) PROVE Calm
  BY <1>t, <1>11 DEF Answer, Calm, At, Locals
<1>12. ASSUME SendRaises(c) PROVE Calm
  BY <1>t, <1>12 DEF SendRaises, Pc, Calm, At, Locals
<1>13. ASSUME Ack(c) PROVE Calm
  BY <1>t, <1>13 DEF Ack, Calm, At, Locals
<1>14. ASSUME SendReturns(c) \/ Enqueue(c) PROVE Calm
  BY <1>11, <1>14 DEF SendReturns, Enqueue
<1> QED BY <1>1, <1>2, <1>3, <1>4, <1>5, <1>6, <1>7, <1>8, <1>9, <1>10, <1>12, <1>13, <1>14

\* Rows stay with the user they are for.
LEMMA RowsStep == TypeInv /\ RowsOK /\ [Next]_vars => RowsOK'
<1> SUFFICES ASSUME TypeInv, RowsOK, [Next]_vars PROVE RowsOK'
  OBVIOUS
<1>t. h \in [Conn -> Locals] /\ queue \in [User -> Seq(Pkt)]
  BY DEF TypeInv, TypeOK
<1>k. ASSUME Calm, UNCHANGED queue PROVE RowsOK'
  BY <1>k DEF RowsOK, Calm, Box
<1>1. CASE Crash
  <2>1. CASE Conn = {}
    BY <1>1, <2>1 DEF Crash, RowsOK
  <2>2. CASE Conn # {}
    BY <1>1, <1>k, <2>2, CalmSteps DEF Crash
  <2> QED BY <2>1, <2>2
<1>2. ASSUME NEW c \in Conn, Finish(c) PROVE RowsOK'
  BY <1>2, <1>k, CalmSteps DEF Finish
<1>3. ASSUME NEW c \in Conn, Connect(c) \/ Drop(c) PROVE RowsOK'
  BY <1>3 DEF Connect, Drop, RowsOK, Box
<1>4. ASSUME NEW c \in Conn,
             SendStatus(c) \/ LoggedIn(c) \/ Done(c) \/ RecvSyncRequest(c) \/ Announce(c)
      PROVE  RowsOK'
  BY <1>4, <1>k, CalmSteps DEF SendStatus, LoggedIn, Done, RecvSyncRequest, Announce
<1>5. ASSUME NEW c \in Conn, NEW u \in User, RecvAuth(c, u) PROVE RowsOK'
  BY <1>5, <1>k, CalmSteps DEF RecvAuth
<1>6. ASSUME NEW c \in Conn, NEW p \in Pkt, RecvPacket(c, p) PROVE RowsOK'
  BY <1>6, <1>k, CalmSteps DEF RecvPacket
<1>7. ASSUME NEW c \in Conn, SendReturns(c) \/ SendRaises(c) \/ Ack(c) PROVE RowsOK'
  BY <1>7, <1>k, CalmSteps DEF SendReturns, SendRaises, Ack
<1>8. ASSUME NEW c \in Conn, Flush(c) PROVE RowsOK'
  <2>1. Box(c) \in User /\ queue[Box(c)] \in Seq(Pkt)
    BY <1>8, <1>t DEF Flush, Pc, LocalsOK, Locals, Box, TypeInv
  <2> DEFINE rows == queue[Box(c)]
  <2>2. PICK first, pc :
          /\ first \in 1..(Len(rows) + 1)
          /\ h' = [h EXCEPT ![c].snap = SubSeq(rows, first, Len(rows)), ![c].pc = pc]
    BY <1>8 DEF Flush
  <2> DEFINE read == SubSeq(rows, first, Len(rows))
  <2>3. Range(read) \subseteq Range(rows)
    BY <2>1, <2>2, RangeFacts
  <2> HIDE DEF read
  <2>4. h' = [h EXCEPT ![c].snap = read, ![c].pc = pc]
    BY <2>2 DEF read
  <2>5. h'[c].snap = read /\ h'[c].who = h[c].who /\ h'[c].user = h[c].user
    BY <1>t, <2>4 DEF Locals
  <2>6. \A d \in Conn \ {c} : h'[d] = h[d]
    BY <1>t, <2>4
  <2>7. \A p \in Range(read) : To[p] = Box(c)
    BY <2>1, <2>3 DEF RowsOK
  <2>8. queue' = queue
    BY <1>8 DEF Flush
  <2>9. \A d \in Conn : h'[d].pc \in {"sync", "clear"} =>
           \A p \in Range(h'[d].snap) : To[p] = Box(d)'
    BY <2>5, <2>6, <2>7 DEF RowsOK, Box
  <2> QED BY <2>8, <2>9 DEF RowsOK
<1>9. ASSUME NEW c \in Conn, Sync(c) PROVE RowsOK'
  <2>1. PICK pc : h' = [h EXCEPT ![c].pc = pc]
    BY <1>9 DEF Sync
  <2>2. \A d \in Conn : /\ h'[d].snap = h[d].snap /\ h'[d].who = h[d].who
                        /\ h'[d].user = h[d].user /\ (d # c => h'[d].pc = h[d].pc)
    BY <1>t, <2>1 DEF Locals
  <2>3. h[c].pc = "sync" /\ queue' = queue
    BY <1>9 DEF Sync, Pc
  <2> QED BY <2>2, <2>3 DEF RowsOK, Box
<1>10. ASSUME NEW c \in Conn, Clear(c) PROVE RowsOK'
  <2>1. Calm
    BY <1>10, CalmSteps
  <2>2. \A u \in User : Range(queue'[u]) \subseteq Range(queue[u])
    BY <1>10, <1>t DEF Clear, Range
  <2> QED BY <2>1, <2>2 DEF RowsOK, Calm, Box
<1>11. ASSUME NEW c \in Conn, Enqueue(c) PROVE RowsOK'
  <2>1. Calm
    BY <1>11, CalmSteps
  <2> DEFINE p == h[c].cur
  <2>2. p \in Pkt /\ To[p] \in User
    BY <1>11, PktAssumption DEF Enqueue, Pc, TypeInv, LocalsOK
  <2>3. queue' = queue \/ queue' = [queue EXCEPT ![To[p]] = Append(@, p)]
    BY <1>11 DEF Enqueue
  <2>4. ASSUME NEW u \in User, NEW q \in Range(queue'[u]) PROVE To[q] = u
    <3>1. queue[To[p]] \in Seq(Pkt)
      BY <1>t, <2>2
    <3>2. Range(Append(queue[To[p]], p)) = Range(queue[To[p]]) \cup {p}
      BY <2>2, <3>1, RangeFacts
    <3>3. CASE queue'[u] = queue[u]
      BY <2>4, <3>3 DEF RowsOK
    <3>4. CASE u = To[p] /\ queue'[u] = Append(queue[u], p)
      BY <2>4, <3>2, <3>4 DEF RowsOK
    <3> QED BY <1>t, <2>2, <2>3, <3>3, <3>4
  <2> HIDE DEF p
  <2>5. \A d \in Conn : h'[d].pc \in {"sync", "clear"} =>
          \A q \in Range(h'[d].snap) : To[q] = Box(d)'
    BY <2>1 DEF RowsOK, Calm, Box
  <2> QED BY <2>4, <2>5 DEF RowsOK
<1>12. CASE UNCHANGED vars
  BY <1>12 DEF vars, RowsOK, Box
<1> QED
  BY <1>1, <1>2, <1>3, <1>4, <1>5, <1>6, <1>7, <1>8, <1>9, <1>10, <1>11, <1>12
     DEF Next, Resume, Input, Raise, RaiseLate, Closed, Logout

\* What is written goes to the connection of the recipient, and a handler that is
\* about to delete has written what it read.
LEMMA WrittenStep ==
  TypeInv /\ OwnersOK /\ RowsOK /\ WrittenToOwner /\ ReadWritten /\ [Next]_vars
    => WrittenToOwner' /\ ReadWritten'
<1> SUFFICES ASSUME TypeInv, OwnersOK, RowsOK, WrittenToOwner, ReadWritten, [Next]_vars
             PROVE  WrittenToOwner' /\ ReadWritten'
  OBVIOUS
<1>t. /\ h \in [Conn -> Locals] /\ wire \in [Conn -> Seq(Pkt)]
      /\ queue \in [User -> Seq(Pkt)] /\ router \in [User -> Conn \cup {NoConn}]
      /\ owners \in [Conn -> SUBSET User]
  BY DEF TypeInv, TypeOK
\* Most steps write nothing and read nothing.
<1>k. ASSUME Calm, UNCHANGED <<wire, owners>>
      PROVE  WrittenToOwner' /\ ReadWritten'
  BY <1>k DEF Calm, WrittenToOwner, ReadWritten
<1>1. CASE Crash
  <2>1. CASE Conn = {}
    BY <2>1 DEF WrittenToOwner, ReadWritten
  <2>2. CASE Conn # {}
    BY <1>1, <1>k, <2>2, CalmSteps DEF Crash, history
  <2> QED BY <2>1, <2>2
<1>2. ASSUME NEW c \in Conn, Finish(c) PROVE WrittenToOwner' /\ ReadWritten'
  BY <1>2, <1>k, CalmSteps DEF Finish, history
<1>3. ASSUME NEW c \in Conn, Connect(c) \/ Drop(c) PROVE WrittenToOwner' /\ ReadWritten'
  BY <1>3 DEF Connect, Drop, history, WrittenToOwner, ReadWritten
<1>4. ASSUME NEW c \in Conn,
             SendStatus(c) \/ LoggedIn(c) \/ Done(c) \/ RecvSyncRequest(c) \/ Announce(c)
      PROVE  WrittenToOwner' /\ ReadWritten'
  BY <1>4, <1>k, CalmSteps
     DEF SendStatus, LoggedIn, Done, RecvSyncRequest, Announce, history
<1>5. ASSUME NEW c \in Conn, NEW u \in User, RecvAuth(c, u)
      PROVE  WrittenToOwner' /\ ReadWritten'
  <2>1. Calm /\ wire' = wire
    BY <1>5, CalmSteps DEF RecvAuth
  <2>2. \A d \in Conn : owners[d] \subseteq owners'[d]
    BY <1>5, <1>t DEF RecvAuth
  <2> QED BY <2>1, <2>2 DEF Calm, WrittenToOwner, ReadWritten
<1>6. ASSUME NEW c \in Conn, NEW p \in Pkt, RecvPacket(c, p)
      PROVE  WrittenToOwner' /\ ReadWritten'
  <2> DEFINE t == router[To[p]]
  <2>1. Calm /\ owners' = owners
    BY <1>6, CalmSteps DEF RecvPacket
  <2>2. CASE wire' = wire
    BY <1>k, <2>1, <2>2
  <2>3. CASE t # NoConn /\ wire' = [wire EXCEPT ![t] = Append(@, p)]
    <3>1. To[p] \in User /\ t \in Conn /\ To[p] \in owners[t]
      BY <1>t, <2>3, PktAssumption DEF OwnersOK
    <3>2. wire[t] \in Seq(Pkt)
      BY <1>t, <3>1
    <3>3. Range(Append(wire[t], p)) = Range(wire[t]) \cup {p}
      BY <3>2, RangeFacts
    <3> HIDE DEF t
    <3>4. /\ Range(wire'[t]) = Range(wire[t]) \cup {p}
          /\ \A d \in Conn \ {t} : wire'[d] = wire[d]
      BY <1>t, <2>3, <3>1, <3>3
    <3>5. WrittenToOwner'
      BY <2>1, <3>1, <3>4 DEF WrittenToOwner
    <3>6. ReadWritten'
      BY <2>1, <3>4 DEF Calm, ReadWritten
    <3> QED BY <3>5, <3>6
  <2> QED BY <1>6, <2>2, <2>3 DEF RecvPacket
<1>7. ASSUME NEW c \in Conn, SendReturns(c) \/ SendRaises(c) \/ Enqueue(c) \/ Ack(c) \/ Clear(c)
      PROVE  WrittenToOwner' /\ ReadWritten'
  BY <1>7, <1>k, CalmSteps DEF SendReturns, SendRaises, Enqueue, Ack, Clear, history
<1>8. ASSUME NEW c \in Conn, Flush(c) PROVE WrittenToOwner' /\ ReadWritten'
  <2>1. UNCHANGED <<wire, owners>>
    BY <1>8 DEF Flush, history
  <2>2. PICK read : \/ h' = [h EXCEPT ![c].snap = read, ![c].pc = "sync"]
                    \/ read = <<>> /\ h' = [h EXCEPT ![c].snap = read, ![c].pc = "clear"]
    BY <1>8 DEF Flush
  <2>3. \A d \in Conn : h'[d].pc = "clear" => h'[d] = h[d] \/ h'[d].snap = <<>>
    BY <1>t, <2>2 DEF Locals
  <2>4. Range(<<>>) = {}
    BY DEF Range
  <2> QED BY <2>1, <2>3, <2>4 DEF WrittenToOwner, ReadWritten
<1>9. ASSUME NEW c \in Conn, Sync(c) PROVE WrittenToOwner' /\ ReadWritten'
  <2>1. h[c].pc = "sync" /\ Box(c) \in owners[c] /\ owners' = owners
    BY <1>9, <1>t DEF Sync, Pc, TypeInv, LocalsOK, Box, OwnersOK, Locals, history
  <2>2. \A p \in Range(h[c].snap) : To[p] \in owners[c]
    BY <2>1 DEF RowsOK
  <2>3. CASE ~Open(c)
    <3>1. h' = [h EXCEPT ![c].pc = "raise"] /\ wire' = wire
      BY <1>9, <2>3 DEF Sync
    <3> QED BY <1>t, <2>1, <3>1 DEF WrittenToOwner, ReadWritten, Locals
  <2>4. CASE Open(c)
    <3>1. h' = [h EXCEPT ![c].pc = "clear"] /\ wire' = [wire EXCEPT ![c] = @ \o h[c].snap]
      BY <1>9, <2>4 DEF Sync
    <3>2. /\ h'[c].snap = h[c].snap
          /\ \A d \in Conn \ {c} : h'[d] = h[d] /\ wire'[d] = wire[d]
          /\ wire'[c] = wire[c] \o h[c].snap
      BY <1>t, <3>1 DEF Locals
    <3>3. wire[c] \in Seq(Pkt) /\ h[c].snap \in Seq(Pkt)
      BY <1>t DEF Locals
    <3>4. Range(wire'[c]) = Range(wire[c]) \cup Range(h[c].snap)
      BY <3>2, <3>3, RangeFacts
    <3>5. WrittenToOwner'
      BY <2>1, <2>2, <3>2, <3>4 DEF WrittenToOwner
    <3>6. ReadWritten'
      BY <3>2, <3>4 DEF ReadWritten
    <3> QED BY <3>5, <3>6
  <2> QED BY <2>3, <2>4
<1>10. CASE UNCHANGED vars
  BY <1>10 DEF vars, WrittenToOwner, ReadWritten
<1> QED
  BY <1>1, <1>2, <1>3, <1>4, <1>5, <1>6, <1>7, <1>8, <1>9, <1>10
     DEF Next, Resume, Input, Raise, RaiseLate, Closed, Logout

\* A handler that is ending has unregistered its user, and only its own login
\* could register its connection again.
LEMMA UnroutedStep == TypeInv /\ Unrouted /\ [Next]_vars => Unrouted'
<1> SUFFICES ASSUME TypeInv, Unrouted, [Next]_vars PROVE Unrouted'
  OBVIOUS
<1>t. h \in [Conn -> Locals] /\ router \in [User -> Conn \cup {NoConn}]
  BY DEF TypeInv, TypeOK
\* Most steps end no handler and only remove routes.
<1>k. ASSUME NEW c \in Conn, NEW r,
             h' = [h EXCEPT ![c] = r],
             \/ r.pc \notin {"offline", "done"}
             \/ r.pc = "done" /\ r.user = NoUser
             \/ h[c].pc \in {"offline", "done"} /\ r.user = h[c].user,
             \A u \in User : router'[u] \in {NoConn, router[u]}
      PROVE  Unrouted'
  <2>1. h'[c] = r /\ \A d \in Conn \ {c} : h'[d] = h[d]
    BY <1>t, <1>k
  <2>2. \A d \in Conn : h[d].user \in User \cup {NoUser}
    BY <1>t DEF Locals
  <2> QED BY <1>k, <2>1, <2>2 DEF Unrouted
<1>1. CASE Crash
  BY <1>1, <1>t DEF Crash, Unrouted, At, Locals
<1>2. ASSUME NEW c \in Conn, Finish(c) PROVE Unrouted'
  <2>1. CASE h[c].user = NoUser
    <3> DEFINE r == At("done", NoUser)
    <3>1. h' = [h EXCEPT ![c] = r] /\ router' = router
      BY <1>2, <2>1 DEF Finish
    <3>2. r.pc = "done" /\ r.user = NoUser
      BY DEF At
    <3> HIDE DEF r
    <3> QED BY <1>k, <3>1, <3>2
  <2>2. CASE h[c].user # NoUser
    <3> DEFINE r == [At("offline", h[c].user) EXCEPT !.todo = Others(h[c].user)]
    <3>1. h' = [h EXCEPT ![c] = r] /\ router' = [router EXCEPT ![h[c].user] = NoConn]
      BY <1>2, <2>2 DEF Finish
    <3>2. r.user = h[c].user /\ h[c].user \in User
      BY <1>t, <2>2 DEF At, Locals
    <3> HIDE DEF r
    <3>3. /\ h'[c].user = h[c].user
          /\ \A d \in Conn \ {c} : h'[d] = h[d]
          /\ router'[h[c].user] = NoConn
          /\ \A u \in User : router'[u] \in {NoConn, router[u]}
      BY <1>t, <3>1, <3>2
    <3>4. \A d \in Conn : h[d].user \in User \cup {NoUser}
      BY <1>t DEF Locals
    <3> QED BY <3>3, <3>4 DEF Unrouted
  <2> QED BY <2>1, <2>2
<1>3. ASSUME NEW c \in Conn, Connect(c) \/ Drop(c) PROVE Unrouted'
  BY <1>3 DEF Connect, Drop, Unrouted
<1>4. ASSUME NEW c \in Conn, SendStatus(c) PROVE Unrouted'
  <2>1. PICK t \in h[c].todo :
          /\ h' = [h EXCEPT ![c].todo = @ \ {t}]
          /\ router' = IF Open(t[2]) THEN router ELSE [router EXCEPT ![t[1]] = NoConn]
    BY <1>4 DEF SendStatus
  <2>2. \A d \in Conn : /\ h'[d].pc = h[d].pc /\ h'[d].user = h[d].user
                        /\ h[d].user \in User \cup {NoUser}
    BY <1>t, <2>1 DEF Locals
  <2>3. \A u \in User : router'[u] \in {NoConn, router[u]}
    BY <1>t, <2>1
  <2> QED BY <2>2, <2>3 DEF Unrouted
<1>5. ASSUME NEW c \in Conn, LoggedIn(c) PROVE Unrouted'
  <2> DEFINE r == At("recv", h[c].who)
  <2>1. h' = [h EXCEPT ![c] = r] /\ \A u \in User : router'[u] \in {NoConn, router[u]}
    BY <1>5 DEF LoggedIn
  <2>2. r.pc = "recv"
    BY <1>5 DEF At
  <2> HIDE DEF r
  <2> QED BY <1>k, <2>1, <2>2
<1>6. ASSUME NEW c \in Conn, Done(c) PROVE Unrouted'
  <2> DEFINE r == At("done", h[c].user)
  <2>1. h' = [h EXCEPT ![c] = r] /\ \A u \in User : router'[u] \in {NoConn, router[u]}
    BY <1>6 DEF Done
  <2>2. h[c].pc = "offline" /\ r.user = h[c].user
    BY <1>6 DEF At, Done, Pc
  <2> HIDE DEF r
  <2> QED BY <1>k, <2>1, <2>2
<1>7. ASSUME NEW c \in Conn, NEW u \in User, RecvAuth(c, u) PROVE Unrouted'
  <2>1. /\ \A d \in Conn \ {c} : h'[d] = h[d]
        /\ h'[c].pc \in {"flush", "raise"}
        /\ \A v \in User : router'[v] \in {c, router[v]}
        /\ \A d \in Conn : h[d].user \in User \cup {NoUser}
    BY <1>t, <1>7 DEF RecvAuth, At, Locals
  <2> QED BY <2>1 DEF Unrouted
<1>8. ASSUME NEW c \in Conn, RecvSyncRequest(c) PROVE Unrouted'
  <2> DEFINE r == At("flush", h[c].user)
  <2>1. h' = [h EXCEPT ![c] = r] /\ \A u \in User : router'[u] \in {NoConn, router[u]}
    BY <1>8 DEF RecvSyncRequest
  <2>2. r.pc = "flush"
    BY <1>8 DEF At
  <2> HIDE DEF r
  <2> QED BY <1>k, <2>1, <2>2
<1>9. ASSUME NEW c \in Conn,
             Flush(c) \/ Sync(c) \/ Announce(c) \/ SendReturns(c) \/ SendRaises(c)
               \/ Clear(c) \/ Enqueue(c) \/ Ack(c) \/ \E p \in Pkt : RecvPacket(c, p)
      PROVE  Unrouted'
  <2>1. router' = router
    BY <1>9 DEF Flush, Sync, Announce, SendReturns, SendRaises, Clear, Enqueue, Ack, RecvPacket
  <2>2. \A d \in Conn \ {c} : h'[d] = h[d]
    BY <1>9, <1>t
       DEF Flush, Sync, Announce, SendReturns, SendRaises, Clear, Enqueue, Ack, RecvPacket, Answer
  <2>3. h'[c].pc \notin {"offline", "done"}
    <3>0. ASSUME NEW s, Answer(c, s) PROVE h'[c].pc \in {"ack", "recv"}
      BY <1>t, <3>0 DEF Answer, At, Locals
    <3>1. CASE Flush(c)
      <4>1. PICK read, pc : /\ h' = [h EXCEPT ![c].snap = read, ![c].pc = pc]
                            /\ pc \in {"clear", "sync"}
        BY <3>1 DEF Flush
      <4> QED BY <1>t, <4>1 DEF Locals
    <3>2. CASE Sync(c)
      BY <1>t, <3>2 DEF Sync, Locals
    <3>8. CASE Announce(c)
      BY <1>t, <3>8 DEF Announce, Locals
    <3>3. CASE SendReturns(c) \/ Enqueue(c)
      BY <3>0, <3>3 DEF SendReturns, Enqueue
    <3>4. CASE SendRaises(c)
      BY <1>t, <3>4 DEF SendRaises, At, Locals
    <3>5. CASE Clear(c)
      BY <1>t, <3>5 DEF Clear, At, Locals
    <3>6. CASE Ack(c)
      BY <1>t, <3>6 DEF Ack, At, Locals
    <3>7. ASSUME NEW p \in Pkt, RecvPacket(c, p) PROVE h'[c].pc \notin {"offline", "done"}
      BY <1>t, <3>7 DEF RecvPacket, Pc, Locals
    <3> QED BY <1>9, <3>1, <3>2, <3>3, <3>4, <3>5, <3>6, <3>7, <3>8
  <2> QED BY <2>1, <2>2, <2>3 DEF Unrouted
<1>10. CASE UNCHANGED vars
  BY <1>10 DEF vars, Unrouted
<1> QED
  BY <1>1, <1>2, <1>3, <1>4, <1>5, <1>6, <1>7, <1>8, <1>9, <1>10
     DEF Next, Resume, Input, Raise, RaiseLate, Closed, Logout

\* The inductive invariant.
LEMMA SafeInit == Init => SafeInv
<1>1. Range(<<>>) = {}
  BY DEF Range
<1> QED BY <1>1, TypeInit
           DEF Init, SafeInv, OwnersOK, RowsOK, WrittenToOwner, ReadWritten, Unrouted, At

LEMMA SafeStep == SafeInv /\ [Next]_vars => SafeInv'
BY TypeStep, OwnersStep, RowsStep, WrittenStep, UnroutedStep DEF SafeInv

LEMMA Safety == Spec => []SafeInv
BY SafeInit, SafeStep, PTL DEF Spec

\* No interleaving of logins, relays, flushes and closes puts a packet on a
\* connection that its recipient did not log in on.
THEOREM PacketsReachTheirOwner == Spec => []WrittenToOwner
<1>1. SafeInv => WrittenToOwner
  BY DEF SafeInv
<1> QED BY <1>1, Safety, PTL

\* offline.clear never deletes a row that its flush read and that was not written:
\* a SYNC_RESPONSE that fails, or a crash before it, leaves the rows in the queue.
THEOREM NothingReadIsDeletedUnwritten == Spec => []ReadRowsWritten
<1>1. SafeInv => ReadRowsWritten
  BY DEF SafeInv, ReadWritten, ReadRowsWritten, Pc
<1> QED BY <1>1, Safety, PTL

\* The `finally` of a handler removes the route it leaves for its last user, and
\* no other handler's broadcast, login or end brings it back.
THEOREM EndedHandlersAreUnrouted == Spec => []NoRouteToEndedHandler
<1>1. SafeInv => NoRouteToEndedHandler
  BY DEF SafeInv, Unrouted, NoRouteToEndedHandler, Pc
<1> QED BY <1>1, Safety, PTL

-----------------------------------------------------------------------------
\* Where each packet is: the strengthening that makes DeliveredOnce and SyncedInOrder
\* inductive, and what the simulation of Mailbox rests on.

\* A handler has a packet in hand, as `pkt`, from its look-up to its DELIVERY.
Busy(c) == h[c].pc \in {"sending", "enqueue", "ack"}
\* A handler has taken the packet from its connection.
Seen(p) == \E c \in Conn : p \in Range(recvd[c])
\* A SYNC_RESPONSE may still be made of it.
Kept(p) == \/ \E u \in User : p \in Range(queue[u])
           \/ \E c \in Conn : p \in Range(h[c].snap)
\* It is written, a row, or known to be lost: it is not "new".
Placed(p) == Written(p) \/ p \in Range(queue[To[p]]) \/ p \in overrun \cup shadowed
\* It is written at one place at most.
Once(p) ==
  \A c, d \in Conn : \A i \in DOMAIN wire[c], j \in DOMAIN wire[d] :
    wire[c][i] = p /\ wire[d][j] = p => c = d /\ i = j
\* It is written, once, and will not be again.
Final(p) == Written(p) /\ Once(p) /\ ~Kept(p)

\* No packet is taken twice.
TakenOnce ==
  \A c, d \in Conn : \A m \in DOMAIN recvd[c], n \in DOMAIN recvd[d] :
    recvd[c][m] = recvd[d][n] => c = d /\ m = n

\* What is said of a packet, and of one that nobody has taken there is no trace.
PacketOK(p) ==
  /\ ~Seen(p) => told[p] = "none" /\ ~Kept(p) /\ ~Placed(p)
  /\ told[p] = "delivered" => Final(p)
  /\ Kept(p) => Placed(p)

\* The packet in hand is the one its connection sent last, and not yet told of.
InHand(c) ==
  LET p == h[c].cur IN
  /\ recvd[c] # <<>> /\ recvd[c][Len(recvd[c])] = p /\ told[p] = "none"
  /\ h[c].pc # "ack" => ~Kept(p) /\ p \notin overrun \cup shadowed
  /\ h[c].pc = "sending" => Once(p)
  /\ h[c].pc = "ack" => /\ h[c].stat # "none"
                        /\ h[c].stat = "delivered" => Final(p)
                        /\ h[c].stat = "queued" => Placed(p)

\* No two packets of one connection are in s in another order than they were sent.
Ordered(s) ==
  \A c \in Conn : \A i, j \in DOMAIN s : \A m, n \in DOMAIN recvd[c] :
    i < j /\ s[i] = recvd[c][m] /\ s[j] = recvd[c][n] => m < n

PlacesInv == /\ TakenOnce /\ \A p \in Pkt : PacketOK(p)
             /\ \A c \in Conn : /\ Busy(c) => InHand(c)
                                /\ sock[c] = "unused" => h[c].pc = "recv"
OrderInv == /\ \A u \in User : Ordered(queue[u])
            /\ \A c \in Conn : Ordered(h[c].snap)

-----------------------------------------------------------------------------
\* The places of the elements of sequences of packets.
LEMMA AppendPlaces ==
  ASSUME NEW s \in Seq(Pkt), NEW p \in Pkt
  PROVE  /\ Append(s, p) \in Seq(Pkt) /\ Append(s, p) # <<>>
         /\ DOMAIN s = 1..Len(s) /\ Len(s) \in Nat /\ Len(Append(s, p)) = Len(s) + 1
         /\ Len(s) + 1 \in DOMAIN Append(s, p) /\ Append(s, p)[Len(s) + 1] = p
         /\ \A i \in DOMAIN s : i \in DOMAIN Append(s, p) /\ Append(s, p)[i] = s[i]
         /\ \A i \in DOMAIN Append(s, p) : i \in DOMAIN s \/ i = Len(s) + 1
<1>1. /\ Append(s, p) \in Seq(Pkt) /\ DOMAIN s = 1..Len(s) /\ Len(s) \in Nat
      /\ Len(Append(s, p)) = Len(s) + 1 /\ Append(s, p)[Len(s) + 1] = p
      /\ \A i \in 1..Len(s) : Append(s, p)[i] = s[i]
  BY AppendProperties
<1>2. DOMAIN Append(s, p) = 1..(Len(s) + 1)
  BY <1>1
<1>3. Append(s, p) # <<>>
  BY <1>1, EmptySeq
<1> QED  BY <1>1, <1>2, <1>3

LEMMA ConcatPlaces ==
  ASSUME NEW s \in Seq(Pkt), NEW t \in Seq(Pkt)
  PROVE  /\ \A i \in DOMAIN s : i \in DOMAIN (s \o t) /\ (s \o t)[i] = s[i]
         /\ \A i \in DOMAIN (s \o t) : i \in DOMAIN s \/ (s \o t)[i] \in Range(t)
<1>1. /\ s \o t \in Seq(Pkt) /\ Len(s \o t) = Len(s) + Len(t) /\ Len(s) \in Nat /\ Len(t) \in Nat
      /\ \A i \in 1..Len(s) : (s \o t)[i] = s[i]
      /\ \A i \in 1..Len(t) : (s \o t)[Len(s) + i] = t[i]
  BY ConcatProperties
<1>2. DOMAIN (s \o t) = 1..(Len(s) + Len(t)) /\ DOMAIN s = 1..Len(s) /\ DOMAIN t = 1..Len(t)
  BY <1>1
<1>3. ASSUME NEW i \in DOMAIN (s \o t), i \notin DOMAIN s
      PROVE  (s \o t)[i] \in Range(t)
  <2>1. i - Len(s) \in 1..Len(t) /\ Len(s) + (i - Len(s)) = i
    BY <1>1, <1>2, <1>3
  <2>2. (s \o t)[i] = t[i - Len(s)]
    BY <1>1, <2>1
  <2> QED  BY <1>2, <2>1, <2>2 DEF Range
<1> QED  BY <1>1, <1>2, <1>3

\* Where an element of a sequence is.
LEMMA PlaceIn ==
  ASSUME NEW s \in Seq(Pkt), NEW p
  PROVE  /\ p \in Range(s) <=> \E i \in DOMAIN s : s[i] = p
         /\ Range(<<>>) = {} /\ <<>> \in Seq(Pkt)
BY DEF Range

\* What the packet histories and the locals are.
LEMMA PlaceTypes ==
  ASSUME TypeInv
  PROVE  /\ h \in [Conn -> Locals] /\ queue \in [User -> Seq(Pkt)]
         /\ wire \in [Conn -> Seq(Pkt)] /\ recvd \in [Conn -> Seq(Pkt)]
         /\ told \in [Pkt -> Status] /\ overrun \subseteq Pkt /\ shadowed \subseteq Pkt
         /\ \A c \in Conn : /\ h[c] \in Locals /\ h[c].snap \in Seq(Pkt) /\ LocalsOK(h[c])
                            /\ h[c].cur \in Pkt \cup {NoPkt} /\ (Busy(c) => h[c].cur \in Pkt)
BY DEF TypeInv, TypeOK, Locals, LocalsOK, Busy

\* No two handlers have one packet in hand, and a packet in hand was taken.
LEMMA InHandOnce ==
  ASSUME TypeInv, PlacesInv, NEW c \in Conn, Busy(c)
  PROVE  /\ Seen(h[c].cur) /\ \A d \in Conn : Busy(d) /\ h[d].cur = h[c].cur => d = c
         /\ Len(recvd[c]) \in DOMAIN recvd[c] /\ recvd[c][Len(recvd[c])] = h[c].cur
<1>1. ASSUME NEW d \in Conn, Busy(d)
      PROVE  Len(recvd[d]) \in DOMAIN recvd[d] /\ recvd[d][Len(recvd[d])] = h[d].cur
  <2>1. recvd[d] # <<>> /\ recvd[d] \in Seq(Pkt) /\ recvd[d][Len(recvd[d])] = h[d].cur
    BY <1>1, PlaceTypes DEF PlacesInv, InHand
  <2>2. Len(recvd[d]) \in Nat \ {0}
    BY <2>1, EmptySeq
  <2> QED  BY <2>1, <2>2
<1>2. Seen(h[c].cur)
  BY <1>1, PlaceTypes, PlaceIn DEF Seen
<1> QED  BY <1>1, <1>2 DEF PlacesInv, TakenOnce

-----------------------------------------------------------------------------
\* What the steps do to packets.

\* Nothing happens to packets, and no handler takes one in hand.
Quiet == /\ UNCHANGED <<queue, wire, recvd, told, overrun, shadowed>>
         /\ \A d \in Conn : \/ h'[d] = h[d]
                            \/ ~Busy(d)' /\ h'[d].snap \in {<<>>, h[d].snap}

\* Closing, logging in, asking for a sync and presence are quiet.
LEMMA QuietSteps ==
  ASSUME TypeInv, NEW c \in Conn
  PROVE  /\ Finish(c) \/ Connect(c) \/ Drop(c) \/ Crash => Quiet
         /\ SendStatus(c) \/ LoggedIn(c) \/ Done(c) \/ Announce(c) \/ RecvSyncRequest(c) => Quiet
         /\ \A u \in User : RecvAuth(c, u) => Quiet
         /\ UNCHANGED vars => Quiet
<1>t. h \in [Conn -> Locals]
  BY PlaceTypes
<1>u. ASSUME NEW r, h' = [h EXCEPT ![c] = r], r.pc \notin {"sending", "enqueue", "ack"},
             r.snap \in {<<>>, h[c].snap},
             UNCHANGED <<queue, wire, recvd, told, overrun, shadowed>>
      PROVE  Quiet
  BY <1>t, <1>u DEF Quiet, Busy
<1>1. ASSUME Finish(c) PROVE Quiet
  <2>0. UNCHANGED <<queue, wire, recvd, told, overrun, shadowed>>
    BY <1>1 DEF Finish, history
  <2>1. CASE h[c].user = NoUser
    <3>1. h' = [h EXCEPT ![c] = At("done", NoUser)]
      BY <1>1, <2>1 DEF Finish
    <3> QED BY <3>1, <1>u, <2>0 DEF At
  <2>2. CASE h[c].user # NoUser
    <3>1. h' = [h EXCEPT ![c] = [At("offline", h[c].user) EXCEPT !.todo = Others(h[c].user)]]
      BY <1>1, <2>2 DEF Finish
    <3> QED BY <3>1, <1>u, <2>0 DEF At
  <2> QED BY <2>1, <2>2
<1>2. ASSUME Connect(c) \/ Drop(c) PROVE Quiet
  BY <1>2 DEF Connect, Drop, Quiet, history
<1>3. ASSUME Crash PROVE Quiet
  BY <1>t, <1>3 DEF Crash, Quiet, Busy, At, history
<1>4. ASSUME SendStatus(c) PROVE Quiet
  <2>1. PICK t \in h[c].todo : h' = [h EXCEPT ![c].todo = @ \ {t}]
    BY <1>4 DEF SendStatus
  <2>2. h'[c].pc = h[c].pc /\ h'[c].snap = h[c].snap /\ \A d \in Conn \ {c} : h'[d] = h[d]
    BY <1>t, <2>1 DEF Locals
  <2> QED  BY <1>4, <2>2 DEF SendStatus, Pc, Quiet, Busy, history
<1>5. ASSUME LoggedIn(c) PROVE Quiet
  BY <1>5, <1>u DEF LoggedIn, At, history
<1>6. ASSUME Done(c) PROVE Quiet
  BY <1>6, <1>u DEF Done, At, history
<1>7. ASSUME Announce(c) PROVE Quiet
  <2>1. h'[c].pc = "online" /\ h'[c].snap = h[c].snap /\ \A d \in Conn \ {c} : h'[d] = h[d]
    BY <1>t, <1>7 DEF Announce, Locals
  <2> QED  BY <1>7, <2>1 DEF Announce, Quiet, Busy, history
<1>8. ASSUME RecvSyncRequest(c) PROVE Quiet
  BY <1>8, <1>u DEF RecvSyncRequest, At, history
<1>9. ASSUME NEW u \in User, RecvAuth(c, u) PROVE Quiet
  <2> DEFINE r == [At(IF Open(c) THEN "flush" ELSE "raise", h[c].user) EXCEPT !.who = u]
  <2>1. r.pc \notin {"sending", "enqueue", "ack"} /\ r.snap = <<>>
    BY DEF At
  <2>2. h' = [h EXCEPT ![c] = r] /\ UNCHANGED <<queue, wire, recvd, told, overrun, shadowed>>
    BY <1>9 DEF RecvAuth
  <2> HIDE DEF r
  <2> QED  BY <1>u, <2>1, <2>2
<1>10. ASSUME UNCHANGED vars PROVE Quiet
  BY <1>10 DEF vars, Quiet
<1> QED  BY <1>1, <1>2, <1>3, <1>4, <1>5, <1>6, <1>7, <1>8, <1>9, <1>10

\* What the handler of c does to its locals when it relays a packet.
LEMMA RelayMoves ==
  ASSUME TypeInv, NEW c \in Conn
  PROVE  /\ \A s : Answer(c, s) =>
              /\ \A d \in Conn \ {c} : h'[d] = h[d]
              /\ h'[c].snap \in {<<>>, h[c].snap}
              /\ \/ ~Busy(c)'
                 \/ /\ h'[c].pc = "ack" /\ h'[c].cur = h[c].cur
                    /\ \/ Kind[h[c].cur] = "message" /\ h'[c].stat = s
                       \/ h'[c].stat = "edited"
         /\ SendRaises(c) =>
              /\ \A d \in Conn \ {c} : h'[d] = h[d]
              /\ h'[c].snap \in {<<>>, h[c].snap}
              /\ ~Busy(c)' \/ (h'[c].pc = "enqueue" /\ h'[c].cur = h[c].cur)
         /\ Ack(c) =>
              /\ \A d \in Conn \ {c} : h'[d] = h[d]
              /\ h'[c].snap = <<>> /\ ~Busy(c)'
         /\ \A p \in Pkt : RecvPacket(c, p) =>
              /\ \A d \in Conn \ {c} : h'[d] = h[d]
              /\ h'[c].snap = h[c].snap
              /\ \/ ~Busy(c)'
                 \/ h'[c].pc \in {"sending", "enqueue"} /\ h'[c].cur = p
<1>t. h \in [Conn -> Locals] /\ h[c] \in Locals
  BY PlaceTypes
<1>1. ASSUME NEW s, Answer(c, s)
      PROVE  /\ \A d \in Conn \ {c} : h'[d] = h[d]
             /\ h'[c].snap \in {<<>>, h[c].snap}
             /\ \/ ~Busy(c)'
                \/ /\ h'[c].pc = "ack" /\ h'[c].cur = h[c].cur
                   /\ \/ Kind[h[c].cur] = "message" /\ h'[c].stat = s
                      \/ h'[c].stat = "edited"
  <2>1. \A d \in Conn \ {c} : h'[d] = h[d]
    BY <1>t, <1>1 DEF Answer
  <2>2. CASE Kind[h[c].cur] = "message"
    <3>1. h'[c] = [h[c] EXCEPT !.pc = "ack", !.stat = s]
      BY <1>t, <1>1, <2>2 DEF Answer
    <3> QED  BY <1>t, <2>1, <2>2, <3>1 DEF Locals
  <2>3. CASE Kind[h[c].cur] = "edit"
    <3>1. h'[c] = [h[c] EXCEPT !.pc = "ack", !.stat = "edited"]
      BY <1>t, <1>1, <2>3 DEF Answer
    <3> QED  BY <1>t, <2>1, <3>1 DEF Locals
  <2>4. CASE Kind[h[c].cur] \notin {"message", "edit"}
    <3>1. h'[c] = At("recv", h[c].user)
      BY <1>t, <1>1, <2>4 DEF Answer
    <3> QED  BY <2>1, <3>1 DEF At, Busy
  <2> QED  BY <2>2, <2>3, <2>4
<1>2. ASSUME SendRaises(c)
      PROVE  /\ \A d \in Conn \ {c} : h'[d] = h[d]
             /\ h'[c].snap \in {<<>>, h[c].snap}
             /\ ~Busy(c)' \/ (h'[c].pc = "enqueue" /\ h'[c].cur = h[c].cur)
  <2>1. \A d \in Conn \ {c} : h'[d] = h[d]
    BY <1>t, <1>2 DEF SendRaises
  <2>2. \/ h'[c] = [h[c] EXCEPT !.pc = "raise"] \/ h'[c] = At("recv", h[c].user)
        \/ h'[c] = [h[c] EXCEPT !.pc = "enqueue"]
    BY <1>t, <1>2 DEF SendRaises
  <2> QED  BY <1>t, <2>1, <2>2 DEF At, Busy, Locals
<1>3. ASSUME Ack(c)
      PROVE  /\ \A d \in Conn \ {c} : h'[d] = h[d]
             /\ h'[c].snap = <<>> /\ ~Busy(c)'
  BY <1>t, <1>3 DEF Ack, At, Busy
<1>4. ASSUME NEW p \in Pkt, RecvPacket(c, p)
      PROVE  /\ \A d \in Conn \ {c} : h'[d] = h[d]
             /\ h'[c].snap = h[c].snap
             /\ \/ ~Busy(c)'
                \/ h'[c].pc \in {"sending", "enqueue"} /\ h'[c].cur = p
  <2>1. \A d \in Conn \ {c} : h'[d] = h[d]
    BY <1>t, <1>4 DEF RecvPacket
  <2>2. \/ h'[c] = h[c] /\ h[c].pc = "recv"
        \/ h'[c] = [h[c] EXCEPT !.pc = "sending", !.cur = p, !.tgt = router[To[p]]]
        \/ h'[c] = [h[c] EXCEPT !.pc = "enqueue", !.cur = p, !.tgt = router[To[p]]]
    BY <1>t, <1>4 DEF RecvPacket, Pc
  <2> QED  BY <1>t, <2>1, <2>2 DEF Busy, Locals
<1> QED  BY <1>1, <1>2, <1>3, <1>4

-----------------------------------------------------------------------------
\* The places survive every step.

\* A step that moves no packet and lets go of what was read leaves the places alone.
LEMMA PlacesStay ==
  ASSUME TypeInv, UNCHANGED <<queue, wire, recvd, overrun, shadowed>>,
         \A d \in Conn : h'[d].snap \in {<<>>, h[d].snap}
  PROVE  \A p \in Pkt : /\ Kept(p)' => Kept(p)
                        /\ Seen(p)' <=> Seen(p)
                        /\ Placed(p)' <=> Placed(p)
                        /\ Once(p)' <=> Once(p)
                        /\ Final(p) => Final(p)'
<1>1. ASSUME NEW p \in Pkt, Kept(p)' PROVE Kept(p)
  <2>1. \A d \in Conn : p \in Range(h'[d].snap) => p \in Range(h[d].snap)
    BY DEF Range
  <2> QED  BY <1>1, <2>1 DEF Kept
<1>2. ASSUME NEW p \in Pkt
      PROVE  /\ Seen(p)' <=> Seen(p)
             /\ Written(p)' <=> Written(p)
             /\ Placed(p)' <=> Placed(p)
             /\ Once(p)' <=> Once(p)
  BY DEF Seen, Placed, Written, Once
<1> QED  BY <1>1, <1>2 DEF Final

\* ... and so it keeps PacketOK, as long as nothing is told.
LEMMA PacketsStay ==
  ASSUME TypeInv, PlacesInv, UNCHANGED <<queue, wire, recvd, overrun, shadowed, told>>,
         \A d \in Conn : h'[d].snap \in {<<>>, h[d].snap}
  PROVE  TakenOnce' /\ \A p \in Pkt : PacketOK(p)'
<1>1. TakenOnce'
  BY DEF PlacesInv, TakenOnce
<1>2. ASSUME NEW p \in Pkt PROVE PacketOK(p)'
  <2>1. PacketOK(p)
    BY DEF PlacesInv
  <2>2. /\ Kept(p)' => Kept(p)
        /\ Seen(p)' <=> Seen(p)
        /\ Placed(p)' <=> Placed(p)
        /\ Final(p) => Final(p)'
    BY PlacesStay
  <2> QED  BY <2>1, <2>2 DEF PacketOK
<1> QED  BY <1>1, <1>2

\* A handler that keeps its locals keeps InHand, if its packet stays where it was.
LEMMA InHandStays ==
  ASSUME PlacesInv, NEW c \in Conn, h'[c] = h[c], Busy(c)', recvd'[c] = recvd[c],
         LET p == h[c].cur IN
         /\ told'[p] = told[p]
         /\ Kept(p)' => Kept(p)
         /\ p \in (overrun \cup shadowed)' => p \in overrun \cup shadowed \/ h[c].pc = "ack"
         /\ Once(p) /\ ~Kept(p) => Once(p)'
         /\ Final(p) => Final(p)'
         /\ Placed(p) => Placed(p)'
  PROVE  InHand(c)'
<1>1. InHand(c)
  BY DEF PlacesInv, Busy
<1> QED  BY <1>1 DEF InHand

\* A handler that is not yet in use has nothing to resume.
LEMMA UnusedStays ==
  ASSUME TypeInv, PlacesInv, [Next]_vars, NEW d \in Conn, sock'[d] = "unused"
  PROVE  h'[d].pc = "recv"
<1>t. h \in [Conn -> Locals] /\ sock \in [Conn -> {"unused", "open", "closed"}]
  BY DEF TypeInv, TypeOK
<1>1. sock[d] = "unused" => h[d].pc = "recv"
  BY DEF PlacesInv
<1>2. CASE Crash
  <2>1. sock[d] = "unused" /\ h'[d] = h[d]
    BY <1>t, <1>2 DEF Crash, Open
  <2> QED  BY <1>1, <2>1
<1>3. CASE UNCHANGED vars
  BY <1>1, <1>3 DEF vars
<1>4. ASSUME NEW c \in Conn, Finish(c), sock[c] # "unused" PROVE h'[d].pc = "recv"
  <2>1. sock[d] = "unused"
    BY <1>t, <1>4 DEF Finish
  <2>2. h'[d] = h[d]
    BY <1>t, <1>4, <2>1 DEF Finish
  <2> QED  BY <1>1, <2>1, <2>2
<1>5. ASSUME NEW c \in Conn, Connect(c) \/ Drop(c) PROVE h'[d].pc = "recv"
  <2>1. sock[d] = "unused" /\ h' = h
    BY <1>t, <1>5 DEF Connect, Drop, Open
  <2> QED  BY <1>1, <2>1
<1>6. ASSUME NEW c \in Conn, NEW r, sock[c] # "unused", h' = [h EXCEPT ![c] = r],
             sock' = sock \/ sock' = [sock EXCEPT ![c] = "closed"]
      PROVE  h'[d].pc = "recv"
  <2>1. sock[d] = "unused"
    BY <1>t, <1>6
  <2> QED  BY <1>1, <1>6, <1>t, <2>1
<1>7. ASSUME NEW c \in Conn,
             SendStatus(c) \/ LoggedIn(c) \/ Done(c) \/ Announce(c) \/ RecvSyncRequest(c)
             \/ Flush(c) \/ Sync(c) \/ Clear(c)
      PROVE  /\ sock[c] # "unused" /\ (\E r : h' = [h EXCEPT ![c] = r])
             /\ sock' = sock \/ sock' = [sock EXCEPT ![c] = "closed"]
  BY <1>7, Zenon DEF SendStatus, LoggedIn, Done, Announce, RecvSyncRequest, Flush, Sync, Clear, Pc
<1>8. ASSUME NEW c \in Conn,
             \/ \E u \in User : RecvAuth(c, u)
             \/ \E p \in Pkt : RecvPacket(c, p)
             \/ SendReturns(c) \/ SendRaises(c) \/ Enqueue(c) \/ Ack(c)
      PROVE  /\ sock[c] # "unused" /\ (\E r : h' = [h EXCEPT ![c] = r])
             /\ sock' = sock
  BY <1>8, Zenon DEF RecvAuth, RecvPacket, SendReturns, SendRaises, Enqueue, Ack, Pc, Answer
<1>9. ASSUME NEW c \in Conn, Raise(c) \/ RaiseLate(c) \/ Closed(c) \/ Logout(c)
      PROVE  Finish(c) /\ sock[c] # "unused"
  BY <1>9 DEF Raise, RaiseLate, Closed, Logout, Pc
<1>10. ASSUME NEW c \in Conn, Resume(c) \/ Input(c) PROVE h'[d].pc = "recv"
  BY <1>4, <1>5, <1>6, <1>7, <1>8, <1>9, <1>10 DEF Resume, Input
<1> QED  BY <1>2, <1>3, <1>10 DEF Next

\* Steps that let go of packets and rows, or do nothing to them, keep the places.
LEMMA QuietPlaces ==
  ASSUME TypeInv, PlacesInv, [Next]_vars, Quiet
  PROVE  PlacesInv'
<1>1. \A d \in Conn : h'[d].snap \in {<<>>, h[d].snap}
  BY DEF Quiet
<1>2. TakenOnce' /\ \A p \in Pkt : PacketOK(p)'
  BY <1>1, PacketsStay DEF Quiet
<1>3. ASSUME NEW d \in Conn, Busy(d)' PROVE InHand(d)'
  <2>1. h'[d] = h[d] /\ Busy(d) /\ h[d].cur \in Pkt
    BY <1>3, PlaceTypes DEF Quiet, Busy
  <2> QED  BY <1>1, <1>3, <2>1, InHandStays, PlacesStay DEF Quiet
<1> QED  BY <1>2, <1>3, UnusedStays DEF PlacesInv

\* The send to the recipient ended, one way or the other.
LEMMA SendEndPlaces ==
  ASSUME TypeInv, PlacesInv, [Next]_vars, NEW c \in Conn, SendReturns(c) \/ SendRaises(c)
  PROVE  PlacesInv'
<1>p. PICK p \in Pkt : p = h[c].cur
  BY PlaceTypes DEF SendReturns, SendRaises, Pc, Busy
<1>0. /\ h[c].pc = "sending" /\ UNCHANGED <<queue, wire, recvd, told, overrun, shadowed>>
      /\ Busy(c)
  BY DEF SendReturns, SendRaises, Pc, history, Busy
<1>1. /\ \A d \in Conn \ {c} : h'[d] = h[d]
      /\ h'[c].snap \in {<<>>, h[c].snap}
      /\ \/ ~Busy(c)'
         \/ SendRaises(c) /\ h'[c].pc = "enqueue" /\ h'[c].cur = p
         \/ /\ SendReturns(c) /\ h'[c].pc = "ack" /\ h'[c].cur = p
            /\ h'[c].stat \in {"delivered", "edited"}
  BY <1>p, RelayMoves DEF SendReturns
<1>2. \A d \in Conn : h'[d].snap \in {<<>>, h[d].snap}
  BY <1>1
<1>3. TakenOnce' /\ \A q \in Pkt : PacketOK(q)'
  BY <1>0, <1>2, PacketsStay
<1>4. ASSUME NEW d \in Conn, Busy(d)' PROVE InHand(d)'
  <2>1. CASE d # c
    <3>1. h'[d] = h[d] /\ h[d].cur \in Pkt
      BY <1>1, <1>4, <2>1, PlaceTypes DEF Busy
    <3> QED  BY <1>0, <1>2, <1>4, <3>1, InHandStays, PlacesStay
  <2>2. CASE d = c
    <3>1. InHand(c) /\ ~Kept(p) /\ Once(p) /\ p \notin overrun \cup shadowed
      BY <1>p, <1>0 DEF PlacesInv, InHand
    <3>2. SendReturns(c) => Written(p)
      BY <1>p, <1>0, PlaceTypes DEF SendReturns, Written, LocalsOK
    <3>3. ~Kept(p)' /\ Once(p)' /\ (Final(p) => Final(p)')
      BY <1>0, <1>2, <3>1, PlacesStay
    <3>4. SendReturns(c) => Final(p)'
      BY <3>1, <3>2, <3>3 DEF Final
    <3>5. recvd[c] # <<>> /\ recvd[c][Len(recvd[c])] = p /\ told[p] = "none"
      BY <1>p, <3>1 DEF InHand
    <3> QED  BY <1>0, <1>1, <1>4, <2>2, <3>1, <3>3, <3>4, <3>5 DEF InHand
  <2> QED  BY <2>1, <2>2
<1> QED  BY <1>3, <1>4, UnusedStays DEF PlacesInv

\* The DELIVERY is written, or its connection is gone.
LEMMA AckPlaces ==
  ASSUME TypeInv, PlacesInv, [Next]_vars, NEW c \in Conn, Ack(c)
  PROVE  PlacesInv'
<1>p. PICK p \in Pkt : p = h[c].cur
  BY PlaceTypes DEF Ack, Pc, Busy
<1>0. /\ h[c].pc = "ack" /\ UNCHANGED <<queue, wire, recvd, overrun, shadowed>>
      /\ Busy(c) /\ told \in [Pkt -> Status]
      /\ told' = told \/ told' = [told EXCEPT ![p] = h[c].stat]
  BY <1>p, PlaceTypes DEF Ack, Pc, Busy
<1>1. /\ \A d \in Conn \ {c} : h'[d] = h[d]
      /\ h'[c].snap = <<>> /\ ~Busy(c)'
  BY RelayMoves
<1>2. \A d \in Conn : h'[d].snap \in {<<>>, h[d].snap}
  BY <1>1
<1>3. TakenOnce'
  BY <1>0 DEF PlacesInv, TakenOnce
<1>4. ASSUME NEW q \in Pkt PROVE PacketOK(q)'
  <2>1. PacketOK(q)
    BY DEF PlacesInv
  <2>2. /\ Kept(q)' => Kept(q)
        /\ Seen(q)' <=> Seen(q)
        /\ Placed(q)' <=> Placed(q)
        /\ Final(q) => Final(q)'
    BY <1>0, <1>2, PlacesStay
  <2>3. CASE told'[q] = told[q]
    BY <2>1, <2>2, <2>3 DEF PacketOK
  <2>4. CASE q = p /\ told'[q] = h[c].stat
    <3>1. Seen(p)
      BY <1>p, <1>0, InHandOnce
    <3>2. h[c].stat = "delivered" => Final(p)
      BY <1>p, <1>0 DEF PlacesInv, InHand
    <3> QED  BY <2>1, <2>2, <2>4, <3>1, <3>2 DEF PacketOK
  <2> QED  BY <1>0, <2>3, <2>4
<1>5. ASSUME NEW d \in Conn, Busy(d)' PROVE InHand(d)'
  <2>1. d # c /\ h'[d] = h[d] /\ h[d].cur \in Pkt /\ Busy(d)
    BY <1>1, <1>5, PlaceTypes DEF Busy
  <2>2. h[d].cur # p
    BY <1>p, <1>0, <2>1, InHandOnce
  <2>3. told'[h[d].cur] = told[h[d].cur]
    BY <1>0, <2>1, <2>2
  <2> QED  BY <1>0, <1>2, <1>5, <2>1, <2>3, InHandStays, PlacesStay
<1> QED  BY <1>3, <1>4, <1>5, UnusedStays DEF PlacesInv

\* The rows are read.
LEMMA FlushMoves ==
  ASSUME TypeInv, NEW c \in Conn, Flush(c)
  PROVE  /\ Box(c) \in User /\ queue[Box(c)] \in Seq(Pkt) /\ h[c].pc = "flush"
         /\ \A d \in Conn \ {c} : h'[d] = h[d]
         /\ h'[c].pc \in {"sync", "clear"} /\ h'[c].who = h[c].who /\ h'[c].user = h[c].user
         /\ \E k \in 1..(Len(queue[Box(c)]) + 1) :
              h'[c].snap = SubSeq(queue[Box(c)], k, Len(queue[Box(c)]))
         /\ Range(h'[c].snap) \subseteq Range(queue[Box(c)])
<1>t. h \in [Conn -> Locals] /\ h[c] \in Locals /\ LocalsOK(h[c]) /\ queue \in [User -> Seq(Pkt)]
  BY PlaceTypes
<1>1. Box(c) \in User /\ queue[Box(c)] \in Seq(Pkt) /\ h[c].pc = "flush"
  BY <1>t DEF Flush, Pc, LocalsOK, Locals, Box
<1> DEFINE rows == queue[Box(c)]
<1>2. PICK k \in 1..(Len(rows) + 1) :
        h' = [h EXCEPT ![c].snap = SubSeq(rows, k, Len(rows)),
                       ![c].pc = IF h[c].who # NoUser /\ SubSeq(rows, k, Len(rows)) = <<>>
                                   THEN "clear" ELSE "sync"]
  BY DEF Flush
<1> DEFINE read == SubSeq(rows, k, Len(rows))
<1>3. PICK pc \in {"sync", "clear"} : h' = [h EXCEPT ![c].snap = read, ![c].pc = pc]
  <2>1. CASE h[c].who # NoUser /\ read = <<>>
    BY <1>2, <2>1
  <2>2. CASE ~(h[c].who # NoUser /\ read = <<>>)
    BY <1>2, <2>2
  <2> QED  BY <2>1, <2>2
<1>4. Range(read) \subseteq Range(rows)
  BY <1>1, RangeFacts
<1> HIDE DEF read
<1>5. /\ h'[c].snap = read /\ h'[c].pc = pc /\ h'[c].who = h[c].who /\ h'[c].user = h[c].user
      /\ \A d \in Conn \ {c} : h'[d] = h[d]
  BY <1>t, <1>3 DEF Locals
<1>6. \E i \in 1..(Len(rows) + 1) : h'[c].snap = SubSeq(rows, i, Len(rows))
  BY <1>2, <1>5 DEF read
<1> QED  BY <1>1, <1>4, <1>5, <1>6

LEMMA FlushPlaces ==
  ASSUME TypeInv, PlacesInv, [Next]_vars, NEW c \in Conn, Flush(c)
  PROVE  PlacesInv'
<1>0. UNCHANGED <<queue, wire, recvd, told, overrun, shadowed>>
  BY DEF Flush, history
<1>1. /\ Box(c) \in User /\ \A d \in Conn \ {c} : h'[d] = h[d]
      /\ h'[c].pc \in {"sync", "clear"} /\ Range(h'[c].snap) \subseteq Range(queue[Box(c)])
  BY FlushMoves
<1>2. ASSUME NEW q \in Pkt
      PROVE  /\ Kept(q)' => Kept(q)
             /\ Seen(q)' <=> Seen(q)
             /\ Written(q)' <=> Written(q)
             /\ Placed(q)' <=> Placed(q)
             /\ Once(q)' <=> Once(q)
             /\ told'[q] = told[q]
  <2>1. \A d \in Conn \ {c} : q \in Range(h'[d].snap) => q \in Range(h[d].snap)
    BY <1>1
  <2>2. q \in Range(h'[c].snap) => q \in Range(queue[Box(c)])
    BY <1>1
  <2>3. Kept(q)' => Kept(q)
    BY <1>0, <1>1, <2>1, <2>2 DEF Kept
  <2> QED  BY <1>0, <2>3 DEF Seen, Written, Placed, Once
<1>3. TakenOnce'
  BY <1>0 DEF PlacesInv, TakenOnce
<1>4. ASSUME NEW q \in Pkt PROVE PacketOK(q)'
  <2>1. PacketOK(q)
    BY DEF PlacesInv
  <2> QED  BY <2>1, <1>2 DEF PacketOK, Final
<1>5. ASSUME NEW d \in Conn, Busy(d)' PROVE InHand(d)'
  <2>1. h'[d] = h[d] /\ h[d].cur \in Pkt
    BY <1>1, <1>5, PlaceTypes DEF Busy
  <2>2. PICK q \in Pkt : q = h[d].cur
    BY <2>1
  <2>3. /\ Kept(q)' => Kept(q)
        /\ Once(q) => Once(q)'
        /\ Final(q) => Final(q)'
        /\ Placed(q) => Placed(q)'
    BY <1>2 DEF Final
  <2> QED  BY <1>0, <1>5, <2>1, <2>2, <2>3, InHandStays
<1> QED  BY <1>3, <1>4, <1>5, UnusedStays DEF PlacesInv

\* The SYNC_RESPONSE writes rows that were read, which are not final.
LEMMA SyncMoves ==
  ASSUME TypeInv, NEW c \in Conn, Sync(c)
  PROVE  /\ h[c].pc = "sync" /\ \A d \in Conn \ {c} : h'[d] = h[d] /\ wire'[d] = wire[d]
         /\ h'[c].snap = h[c].snap /\ h'[c].pc \in {"clear", "raise"}
         /\ UNCHANGED <<queue, recvd, told, overrun, shadowed>>
         /\ \/ ~Open(c) /\ wire' = wire /\ h'[c].pc = "raise"
            \/ Open(c) /\ wire'[c] = wire[c] \o h[c].snap
<1>1. h \in [Conn -> Locals] /\ h[c] \in Locals /\ wire \in [Conn -> Seq(Pkt)]
  BY PlaceTypes
<1>2. CASE Open(c)
  BY <1>1, <1>2 DEF Sync, Pc, history, Locals
<1>3. CASE ~Open(c)
  BY <1>1, <1>3 DEF Sync, Pc, history, Locals
<1> QED  BY <1>2, <1>3

LEMMA SyncPlaces ==
  ASSUME TypeInv, PlacesInv, [Next]_vars, NEW c \in Conn, Sync(c)
  PROVE  PlacesInv'
<1>0. /\ \A d \in Conn \ {c} : h'[d] = h[d] /\ wire'[d] = wire[d]
      /\ h'[c].snap = h[c].snap /\ h'[c].pc \in {"clear", "raise"}
      /\ UNCHANGED <<queue, recvd, told, overrun, shadowed>>
      /\ wire' = wire \/ wire'[c] = wire[c] \o h[c].snap
      /\ \A d \in Conn : wire[d] \in Seq(Pkt) /\ h[d].snap \in Seq(Pkt)
  BY SyncMoves, PlaceTypes
\* Frames stay where they are, and a new one is of a row that was read.
<1>1. ASSUME NEW d \in Conn
      PROVE  /\ \A i \in DOMAIN wire[d] : i \in DOMAIN wire'[d] /\ wire'[d][i] = wire[d][i]
             /\ \A i \in DOMAIN wire'[d] : i \in DOMAIN wire[d] \/ Kept(wire'[d][i])
  <2>1. CASE wire'[d] = wire[d]
    BY <2>1
  <2>2. CASE d = c /\ wire'[c] = wire[c] \o h[c].snap
    <3>0. wire[c] \in Seq(Pkt) /\ h[c].snap \in Seq(Pkt)
      BY <1>0
    <3>a. PICK w : w = wire[c] \o h[c].snap
      OBVIOUS
    <3>b. /\ \A i \in DOMAIN wire[c] : i \in DOMAIN w /\ w[i] = wire[c][i]
          /\ \A i \in DOMAIN w : i \in DOMAIN wire[c] \/ w[i] \in Range(h[c].snap)
      BY <3>0, <3>a, ConcatPlaces
    <3>1. /\ \A i \in DOMAIN wire[c] : i \in DOMAIN wire'[c] /\ wire'[c][i] = wire[c][i]
          /\ \A i \in DOMAIN wire'[c] : i \in DOMAIN wire[c] \/ wire'[c][i] \in Range(h[c].snap)
      BY <2>2, <3>a, <3>b
    <3> QED  BY <2>2, <3>1 DEF Kept
  <2> QED  BY <1>0, <2>1, <2>2
<1>2. ASSUME NEW q \in Pkt
      PROVE  /\ Kept(q)' <=> Kept(q)
             /\ Seen(q)' <=> Seen(q)
             /\ Written(q) => Written(q)'
             /\ ~Kept(q) => (Written(q)' => Written(q))
             /\ ~Kept(q) => (Once(q) => Once(q)')
             /\ told'[q] = told[q]
  <2>1. Kept(q)' <=> Kept(q)
    <3>1. \A d \in Conn : h'[d].snap = h[d].snap
      BY <1>0
    <3> QED  BY <1>0, <3>1 DEF Kept
  <2>2. \A d \in Conn : /\ q \in Range(wire[d]) <=> \E i \in DOMAIN wire[d] : wire[d][i] = q
                        /\ q \in Range(wire'[d]) <=> \E i \in DOMAIN wire'[d] : wire'[d][i] = q
    BY DEF Range
  <2>3. Written(q) => Written(q)'
    BY <1>1, <2>2 DEF Written
  <2>4. ~Kept(q) => (Written(q)' => Written(q))
    BY <1>1, <2>2 DEF Written
  <2>5. ASSUME ~Kept(q), Once(q) PROVE Once(q)'
    <3>1. \A d \in Conn : \A i \in DOMAIN wire'[d] :
            wire'[d][i] = q => i \in DOMAIN wire[d] /\ wire[d][i] = q
      BY <1>1, <2>5
    <3> QED  BY <2>5, <3>1 DEF Once
  <2> QED  BY <1>0, <2>1, <2>3, <2>4, <2>5 DEF Seen
<1>3. TakenOnce'
  BY <1>0 DEF PlacesInv, TakenOnce
<1>4. ASSUME NEW q \in Pkt
      PROVE  /\ Placed(q) => Placed(q)'
             /\ ~Kept(q) => (Placed(q)' => Placed(q))
             /\ Final(q) => Final(q)'
  BY <1>0, <1>2 DEF Placed, Final
<1>5. ASSUME NEW q \in Pkt PROVE PacketOK(q)'
  <2>1. PacketOK(q)
    BY DEF PlacesInv
  <2> QED  BY <2>1, <1>2, <1>4 DEF PacketOK
<1>6. ASSUME NEW d \in Conn, Busy(d)' PROVE InHand(d)'
  <2>1. h'[d] = h[d] /\ h[d].cur \in Pkt
    BY <1>0, <1>6, PlaceTypes DEF Busy
  <2>2. PICK q \in Pkt : q = h[d].cur
    BY <2>1
  <2>3. /\ Kept(q)' => Kept(q)
        /\ Once(q) /\ ~Kept(q) => Once(q)'
        /\ Final(q) => Final(q)'
        /\ Placed(q) => Placed(q)'
    BY <1>2, <1>4
  <2> QED  BY <1>0, <1>6, <2>1, <2>2, <2>3, InHandStays
<1> QED  BY <1>3, <1>5, <1>6, UnusedStays DEF PlacesInv

\* The rows are deleted: those that were read have been written.
LEMMA ClearMoves ==
  ASSUME TypeInv, RowsOK, ReadWritten, NEW c \in Conn, Clear(c)
  PROVE  /\ h[c].pc = "clear" /\ Box(c) \in User
         /\ \A d \in Conn \ {c} : h'[d] = h[d]
         /\ h'[c].snap = <<>> /\ h'[c].pc \in {"recv", "announce"}
         /\ UNCHANGED <<wire, recvd, told, shadowed>>
         /\ overrun' = overrun \cup (Range(queue[Box(c)]) \ Range(h[c].snap))
         /\ queue'[Box(c)] = <<>> /\ \A u \in User \ {Box(c)} : queue'[u] = queue[u]
         /\ Range(h[c].snap) \subseteq Range(wire[c])
         /\ \A q \in Range(queue[Box(c)]) : q \in overrun' \/ Written(q)
<1>1. h \in [Conn -> Locals] /\ h[c] \in Locals /\ LocalsOK(h[c]) /\ queue \in [User -> Seq(Pkt)]
  BY PlaceTypes
<1>2. h[c].pc = "clear" /\ Box(c) \in User
  BY <1>1 DEF Clear, Pc, LocalsOK, Locals, Box
<1>3. /\ \A d \in Conn \ {c} : h'[d] = h[d]
      /\ h'[c].snap = <<>> /\ h'[c].pc \in {"recv", "announce"}
  BY <1>1 DEF Clear, At
<1>4. queue'[Box(c)] = <<>> /\ \A u \in User \ {Box(c)} : queue'[u] = queue[u]
  BY <1>1, <1>2 DEF Clear
<1>5. Range(h[c].snap) \subseteq Range(wire[c])
  BY <1>2 DEF ReadWritten
<1>6. overrun' = overrun \cup (Range(queue[Box(c)]) \ Range(h[c].snap))
  BY DEF Clear
<1>7. \A q \in Range(queue[Box(c)]) : q \in overrun' \/ Written(q)
  BY <1>5, <1>6 DEF Written
<1> QED  BY <1>2, <1>3, <1>4, <1>5, <1>6, <1>7 DEF Clear

LEMMA ClearPlaces ==
  ASSUME TypeInv, RowsOK, ReadWritten, PlacesInv, [Next]_vars, NEW c \in Conn, Clear(c)
  PROVE  PlacesInv'
<1>0. /\ Box(c) \in User
      /\ \A d \in Conn \ {c} : h'[d] = h[d]
      /\ h'[c].snap = <<>> /\ h'[c].pc \in {"recv", "announce"}
      /\ UNCHANGED <<wire, recvd, told, shadowed>>
      /\ overrun' = overrun \cup (Range(queue[Box(c)]) \ Range(h[c].snap))
      /\ queue'[Box(c)] = <<>> /\ \A u \in User \ {Box(c)} : queue'[u] = queue[u]
      /\ \A q \in Range(queue[Box(c)]) : q \in overrun' \/ Written(q)
  BY ClearMoves
<1>1. Range(<<>>) = {}
  BY DEF Range
<1>2. ASSUME NEW q \in Pkt
      PROVE  /\ Kept(q)' => Kept(q)
             /\ q \in overrun' => q \in overrun \/ Kept(q)
             /\ Seen(q)' <=> Seen(q)
             /\ Written(q)' <=> Written(q)
             /\ Placed(q) => Placed(q)'
             /\ Once(q)' <=> Once(q)
             /\ told'[q] = told[q]
  <2>1. \A d \in Conn : q \in Range(h'[d].snap) => q \in Range(h[d].snap)
    BY <1>0, <1>1
  <2>2. \A u \in User : q \in Range(queue'[u]) => q \in Range(queue[u])
    BY <1>0, <1>1
  <2>3. Kept(q)' => Kept(q)
    BY <2>1, <2>2 DEF Kept
  <2>4. q \in overrun' => q \in overrun \/ Kept(q)
    BY <1>0 DEF Kept
  <2>5. Written(q)' <=> Written(q)
    BY <1>0 DEF Written
  <2>6. To[q] \in User
    BY PktAssumption
  <2>7. q \in Range(queue[To[q]]) => q \in Range(queue'[To[q]]) \/ q \in overrun' \/ Written(q)
    BY <1>0, <2>6
  <2>8. Placed(q) => Placed(q)'
    BY <1>0, <2>5, <2>7 DEF Placed
  <2> QED  BY <1>0, <2>3, <2>4, <2>5, <2>8 DEF Seen, Once
<1>3. TakenOnce'
  BY <1>0 DEF PlacesInv, TakenOnce
<1>4. ASSUME NEW q \in Pkt PROVE PacketOK(q)'
  <2>1. PacketOK(q)
    BY DEF PlacesInv
  <2>2. ~Placed(q) /\ ~Kept(q) => ~Placed(q)'
    <3>1. q \in Range(queue'[To[q]]) => Kept(q)
      <4>1. To[q] \in User
        BY PktAssumption
      <4>2. q \in Range(queue'[To[q]]) => q \in Range(queue[To[q]])
        BY <1>0, <1>1, <4>1
      <4> QED  BY <4>1, <4>2 DEF Kept
    <3> QED  BY <1>0, <1>2, <3>1 DEF Placed
  <2> QED  BY <2>1, <2>2, <1>2 DEF PacketOK, Final
<1>5. ASSUME NEW d \in Conn, Busy(d)' PROVE InHand(d)'
  <2>1. h'[d] = h[d] /\ h[d].cur \in Pkt /\ Busy(d)
    BY <1>0, <1>5, PlaceTypes DEF Busy
  <2>2. PICK q \in Pkt : q = h[d].cur
    BY <2>1
  <2>3. h[d].pc # "ack" => ~Kept(q)
    BY <2>1, <2>2 DEF PlacesInv, InHand
  <2>4. /\ Kept(q)' => Kept(q)
        /\ q \in (overrun \cup shadowed)' => q \in overrun \cup shadowed \/ h[d].pc = "ack"
        /\ Once(q) /\ ~Kept(q) => Once(q)'
        /\ Final(q) => Final(q)'
        /\ Placed(q) => Placed(q)'
        /\ told'[q] = told[q]
    BY <1>0, <1>2, <2>3 DEF Final
  <2> QED  BY <1>0, <1>5, <2>1, <2>2, <2>4, InHandStays
<1> QED  BY <1>3, <1>4, <1>5, UnusedStays DEF PlacesInv

\* The packet in hand becomes a row, or is ignored as a row with its key is there.
LEMMA EnqueueMoves ==
  ASSUME TypeInv, NEW c \in Conn, Enqueue(c)
  PROVE  LET p == h[c].cur IN
         /\ h[c].pc = "enqueue" /\ Busy(c) /\ p \in Pkt /\ To[p] \in User
         /\ \A d \in Conn \ {c} : h'[d] = h[d]
         /\ \A d \in Conn : h'[d].snap \in {<<>>, h[d].snap}
         /\ \/ ~Busy(c)'
            \/ h'[c].pc = "ack" /\ h'[c].cur = p /\ h'[c].stat \in {"queued", "edited"}
         /\ UNCHANGED <<wire, recvd, told, overrun>>
         /\ \/ /\ queue' = queue /\ shadowed' = shadowed \cup {p}
               /\ \E r \in Range(queue[To[p]]) : Key[r] = Key[p]
            \/ /\ p \notin Range(queue[To[p]]) /\ shadowed' = shadowed
               /\ queue'[To[p]] = Append(queue[To[p]], p) /\ queue[To[p]] \in Seq(Pkt)
               /\ Range(queue'[To[p]]) = Range(queue[To[p]]) \cup {p}
               /\ \A u \in User \ {To[p]} : queue'[u] = queue[u]
<1>p. PICK p \in Pkt : p = h[c].cur
  BY PlaceTypes DEF Enqueue, Pc, Busy
<1>1. h[c].pc = "enqueue" /\ Busy(c) /\ To[p] \in User
  BY PktAssumption DEF Enqueue, Pc, Busy
<1>2. Answer(c, "queued") /\ UNCHANGED <<wire, recvd, told, overrun>>
  BY DEF Enqueue
<1>3. /\ \A d \in Conn \ {c} : h'[d] = h[d]
      /\ \A d \in Conn : h'[d].snap \in {<<>>, h[d].snap}
      /\ \/ ~Busy(c)'
         \/ h'[c].pc = "ack" /\ h'[c].cur = p /\ h'[c].stat \in {"queued", "edited"}
  BY <1>p, <1>2, RelayMoves
<1>4. \/ /\ queue' = queue /\ shadowed' = shadowed \cup {p}
         /\ \E r \in Range(queue[To[p]]) : Key[r] = Key[p]
      \/ /\ p \notin Range(queue[To[p]]) /\ shadowed' = shadowed
         /\ queue'[To[p]] = Append(queue[To[p]], p) /\ queue[To[p]] \in Seq(Pkt)
         /\ Range(queue'[To[p]]) = Range(queue[To[p]]) \cup {p}
         /\ \A u \in User \ {To[p]} : queue'[u] = queue[u]
  <2>1. CASE \E r \in Range(queue[To[p]]) : Key[r] = Key[p]
    BY <1>p, <2>1 DEF Enqueue
  <2>2. CASE ~\E r \in Range(queue[To[p]]) : Key[r] = Key[p]
    <3>1. queue' = [queue EXCEPT ![To[p]] = Append(@, p)] /\ shadowed' = shadowed
      BY <1>p, <2>2 DEF Enqueue
    <3>2. queue \in [User -> Seq(Pkt)] /\ queue[To[p]] \in Seq(Pkt)
      BY <1>1, PlaceTypes
    <3>3. queue'[To[p]] = Append(queue[To[p]], p) /\ \A u \in User \ {To[p]} : queue'[u] = queue[u]
      BY <1>1, <3>1, <3>2
    <3>4. Range(Append(queue[To[p]], p)) = Range(queue[To[p]]) \cup {p}
      BY <3>2, RangeFacts
    <3> QED  BY <2>2, <3>1, <3>2, <3>3, <3>4
  <2> QED  BY <2>1, <2>2
<1> QED  BY <1>p, <1>1, <1>2, <1>3, <1>4

LEMMA EnqueuePlaces ==
  ASSUME TypeInv, PlacesInv, [Next]_vars, NEW c \in Conn, Enqueue(c)
  PROVE  PlacesInv'
<1>p. PICK p \in Pkt : p = h[c].cur
  BY PlaceTypes DEF Enqueue, Pc, Busy
<1>0. /\ h[c].pc = "enqueue" /\ Busy(c) /\ To[p] \in User
      /\ \A d \in Conn \ {c} : h'[d] = h[d]
      /\ \A d \in Conn : h'[d].snap \in {<<>>, h[d].snap}
      /\ \/ ~Busy(c)'
         \/ h'[c].pc = "ack" /\ h'[c].cur = p /\ h'[c].stat \in {"queued", "edited"}
      /\ UNCHANGED <<wire, recvd, told, overrun>>
      /\ shadowed \subseteq shadowed' /\ shadowed' \subseteq shadowed \cup {p}
  BY <1>p, EnqueueMoves
<1>1. /\ \A u \in User : Range(queue[u]) \subseteq Range(queue'[u])
      /\ \A u \in User : Range(queue'[u]) \subseteq Range(queue[u]) \cup {p}
      /\ p \in shadowed' \/ p \in Range(queue'[To[p]])
  <2>1. CASE queue' = queue /\ shadowed' = shadowed \cup {p}
    BY <2>1
  <2>2. CASE /\ Range(queue'[To[p]]) = Range(queue[To[p]]) \cup {p}
             /\ \A u \in User \ {To[p]} : queue'[u] = queue[u]
    BY <1>0, <2>2
  <2> QED  BY <1>p, <2>1, <2>2, EnqueueMoves
<1>2. ASSUME NEW q \in Pkt
      PROVE  /\ q # p => (Kept(q)' => Kept(q))
             /\ q # p => (Placed(q)' <=> Placed(q))
             /\ Placed(q) => Placed(q)'
             /\ Seen(q)' <=> Seen(q)
             /\ Written(q)' <=> Written(q)
             /\ Once(q)' <=> Once(q)
             /\ told'[q] = told[q]
  <2>1. \A d \in Conn : q \in Range(h'[d].snap) => q \in Range(h[d].snap)
    BY <1>0 DEF Range
  <2>2. q # p => (Kept(q)' => Kept(q))
    BY <1>1, <2>1 DEF Kept
  <2>3. To[q] \in User
    BY PktAssumption
  <2>4. Written(q)' <=> Written(q)
    BY <1>0 DEF Written
  <2>5. Placed(q) => Placed(q)'
    BY <1>0, <1>1, <2>3, <2>4 DEF Placed
  <2>6. q # p => (Placed(q)' => Placed(q))
    BY <1>0, <1>1, <2>3, <2>4 DEF Placed
  <2> QED  BY <1>0, <2>2, <2>4, <2>5, <2>6 DEF Seen, Once
<1>3. TakenOnce'
  BY <1>0 DEF PlacesInv, TakenOnce
<1>4. Seen(p) /\ told[p] = "none" /\ Placed(p)'
  <2>1. Seen(p)
    BY <1>p, <1>0, InHandOnce
  <2>2. told[p] = "none"
    BY <1>p, <1>0 DEF PlacesInv, InHand
  <2>3. Placed(p)'
    BY <1>1 DEF Placed
  <2> QED  BY <2>1, <2>2, <2>3
<1>5. ASSUME NEW q \in Pkt PROVE PacketOK(q)'
  <2>1. PacketOK(q)
    BY DEF PlacesInv
  <2>2. CASE q = p
    BY <1>2, <1>4, <2>2 DEF PacketOK
  <2>3. CASE q # p
    BY <2>1, <2>3, <1>2 DEF PacketOK, Final
  <2> QED  BY <2>2, <2>3
<1>6. ASSUME NEW d \in Conn, Busy(d)' PROVE InHand(d)'
  <2>1. CASE d # c
    <3>1. h'[d] = h[d] /\ h[d].cur \in Pkt /\ Busy(d)
      BY <1>0, <1>6, <2>1, PlaceTypes DEF Busy
    <3>2. PICK q \in Pkt : q = h[d].cur
      BY <3>1
    <3>3. q # p
      BY <1>p, <1>0, <2>1, <3>1, <3>2, InHandOnce
    <3>4. /\ Kept(q)' => Kept(q)
          /\ q \in (overrun \cup shadowed)' => q \in overrun \cup shadowed
          /\ Once(q) /\ ~Kept(q) => Once(q)'
          /\ Final(q) => Final(q)'
          /\ Placed(q) => Placed(q)'
          /\ told'[q] = told[q]
      BY <1>0, <1>2, <3>3 DEF Final
    <3> QED  BY <1>0, <1>6, <3>1, <3>2, <3>4, InHandStays
  <2>2. CASE d = c
    <3>1. recvd[c] # <<>> /\ recvd[c][Len(recvd[c])] = p /\ told[p] = "none"
      BY <1>p, <1>0 DEF PlacesInv, InHand
    <3> QED  BY <1>0, <1>4, <1>6, <2>2, <3>1 DEF InHand
  <2> QED  BY <2>1, <2>2
<1> QED  BY <1>3, <1>5, <1>6, UnusedStays DEF PlacesInv

\* A packet that nobody has taken yet is taken, and may be written at once.
LEMMA RecvPacketMoves ==
  ASSUME TypeInv, NEW c \in Conn, NEW p \in Pkt, RecvPacket(c, p)
  PROVE  /\ h[c].pc = "recv" /\ ~Seen(p)
         /\ UNCHANGED <<sock, queue, told, overrun, shadowed>>
         /\ \A d \in Conn \ {c} : h'[d] = h[d] /\ recvd'[d] = recvd[d]
         /\ h'[c].snap = h[c].snap
         /\ ~Busy(c)' \/ (h'[c].pc \in {"sending", "enqueue"} /\ h'[c].cur = p)
         /\ recvd'[c] = Append(recvd[c], p)
         /\ \A d \in Conn : recvd[d] \in Seq(Pkt) /\ recvd'[d] \in Seq(Pkt)
         /\ \/ wire' = wire
            \/ \E t \in Conn : /\ wire'[t] = Append(wire[t], p) /\ wire[t] \in Seq(Pkt)
                               /\ \A d \in Conn \ {t} : wire'[d] = wire[d]
<1>1. /\ recvd \in [Conn -> Seq(Pkt)] /\ wire \in [Conn -> Seq(Pkt)]
      /\ router \in [User -> Conn \cup {NoConn}] /\ To[p] \in User
  BY PlaceTypes, PktAssumption DEF TypeInv, TypeOK
<1>2. /\ h[c].pc = "recv" /\ ~Seen(p)
      /\ UNCHANGED <<sock, queue, told, overrun, shadowed>>
      /\ recvd' = [recvd EXCEPT ![c] = Append(@, p)]
  BY DEF RecvPacket, Pc, Seen
<1>3. /\ recvd'[c] = Append(recvd[c], p) /\ \A d \in Conn \ {c} : recvd'[d] = recvd[d]
      /\ Append(recvd[c], p) \in Seq(Pkt)
  BY <1>1, <1>2, AppendPlaces
<1>4. \/ wire' = wire
      \/ \E t \in Conn : /\ wire'[t] = Append(wire[t], p) /\ wire[t] \in Seq(Pkt)
                         /\ \A d \in Conn \ {t} : wire'[d] = wire[d]
  <2>1. PICK t \in Conn \cup {NoConn} : t = router[To[p]]
    BY <1>1
  <2>2. CASE t # NoConn /\ Open(t)
    <3>1. wire' = [wire EXCEPT ![t] = Append(@, p)] /\ t \in Conn
      BY <2>1, <2>2 DEF RecvPacket
    <3> QED  BY <1>1, <3>1
  <2>3. CASE ~(t # NoConn /\ Open(t))
    BY <2>1, <2>3 DEF RecvPacket
  <2> QED  BY <2>2, <2>3
<1>5. /\ \A d \in Conn \ {c} : h'[d] = h[d]
      /\ h'[c].snap = h[c].snap
      /\ ~Busy(c)' \/ (h'[c].pc \in {"sending", "enqueue"} /\ h'[c].cur = p)
  BY RelayMoves
<1>6. \A d \in Conn : recvd[d] \in Seq(Pkt) /\ recvd'[d] \in Seq(Pkt)
  BY <1>1, <1>3
<1> QED  BY <1>2, <1>3, <1>4, <1>5, <1>6

LEMMA RecvPacketPlaces ==
  ASSUME TypeInv, PlacesInv, [Next]_vars, NEW c \in Conn, NEW p \in Pkt, RecvPacket(c, p)
  PROVE  PlacesInv'
<1>0. /\ h[c].pc = "recv" /\ ~Seen(p)
      /\ UNCHANGED <<sock, queue, told, overrun, shadowed>>
      /\ \A d \in Conn \ {c} : h'[d] = h[d] /\ recvd'[d] = recvd[d]
      /\ h'[c].snap = h[c].snap
      /\ ~Busy(c)' \/ (h'[c].pc \in {"sending", "enqueue"} /\ h'[c].cur = p)
      /\ recvd'[c] = Append(recvd[c], p)
      /\ \A d \in Conn : recvd[d] \in Seq(Pkt) /\ recvd'[d] \in Seq(Pkt)
  BY RecvPacketMoves
<1>1. told[p] = "none" /\ ~Kept(p) /\ ~Placed(p) /\ ~Written(p)
  BY <1>0 DEF PlacesInv, PacketOK, Placed
<1>2. ASSUME NEW d \in Conn
      PROVE  /\ \A m \in DOMAIN recvd[d] : m \in DOMAIN recvd'[d] /\ recvd'[d][m] = recvd[d][m]
             /\ \A m \in DOMAIN recvd'[d] : \/ m \in DOMAIN recvd[d] /\ recvd[d][m] # p
                                            \/ /\ d = c /\ m = Len(recvd[c]) + 1
                                               /\ recvd'[d][m] = p
  <2>0. \A m \in DOMAIN recvd[d] : recvd[d][m] # p
    BY <1>0 DEF Seen, Range
  <2>1. CASE d # c
    BY <1>0, <2>0, <2>1
  <2>2. CASE d = c
    <3>1. PICK s \in Seq(Pkt) : s = recvd[c]
      BY <1>0
    <3>2. /\ \A m \in DOMAIN s : m \in DOMAIN Append(s, p) /\ Append(s, p)[m] = s[m]
          /\ \A m \in DOMAIN Append(s, p) : m \in DOMAIN s \/ m = Len(s) + 1
          /\ Append(s, p)[Len(s) + 1] = p
      BY AppendPlaces
    <3> QED  BY <1>0, <2>0, <2>2, <3>1, <3>2
  <2> QED  BY <2>1, <2>2
<1>3. TakenOnce'
  <2> SUFFICES ASSUME NEW d \in Conn, NEW e \in Conn,
                      NEW m \in DOMAIN recvd'[d], NEW n \in DOMAIN recvd'[e],
                      recvd'[d][m] = recvd'[e][n]
               PROVE  d = e /\ m = n
    BY DEF TakenOnce
  <2>1. /\ \/ m \in DOMAIN recvd[d] /\ recvd[d][m] # p /\ recvd'[d][m] = recvd[d][m]
           \/ d = c /\ m = Len(recvd[c]) + 1 /\ recvd'[d][m] = p
        /\ \/ n \in DOMAIN recvd[e] /\ recvd[e][n] # p /\ recvd'[e][n] = recvd[e][n]
           \/ e = c /\ n = Len(recvd[c]) + 1 /\ recvd'[e][n] = p
    BY <1>2
  <2> QED  BY <2>1 DEF PlacesInv, TakenOnce
\* Where frames are: only the new one is the packet's.
<1>4. \E t \in Conn : \A d \in Conn :
        /\ \A i \in DOMAIN wire[d] : i \in DOMAIN wire'[d] /\ wire'[d][i] = wire[d][i]
        /\ \A i \in DOMAIN wire'[d] : \/ i \in DOMAIN wire[d] /\ wire[d][i] # p
                                      \/ d = t /\ i = Len(wire[t]) + 1 /\ wire'[d][i] = p
  <2>0. \A d \in Conn : \A i \in DOMAIN wire[d] : wire[d][i] # p
    BY <1>1 DEF Written, Range
  <2>1. CASE wire' = wire
    BY <2>0, <2>1
  <2>2. ASSUME NEW t \in Conn, wire'[t] = Append(wire[t], p), wire[t] \in Seq(Pkt),
               \A d \in Conn \ {t} : wire'[d] = wire[d]
        PROVE  \A d \in Conn :
                 /\ \A i \in DOMAIN wire[d] : i \in DOMAIN wire'[d] /\ wire'[d][i] = wire[d][i]
                 /\ \A i \in DOMAIN wire'[d] : \/ i \in DOMAIN wire[d] /\ wire[d][i] # p
                                               \/ /\ d = t /\ i = Len(wire[t]) + 1
                                                  /\ wire'[d][i] = p
    <3>1. PICK s \in Seq(Pkt) : s = wire[t]
      BY <2>2
    <3>2. /\ \A m \in DOMAIN s : m \in DOMAIN Append(s, p) /\ Append(s, p)[m] = s[m]
          /\ \A m \in DOMAIN Append(s, p) : m \in DOMAIN s \/ m = Len(s) + 1
          /\ Append(s, p)[Len(s) + 1] = p
      BY AppendPlaces
    <3> QED  BY <2>0, <2>2, <3>1, <3>2
  <2> QED  BY <2>1, <2>2, RecvPacketMoves
<1>5. ASSUME NEW q \in Pkt
      PROVE  /\ Kept(q)' <=> Kept(q)
             /\ q # p => (Seen(q)' <=> Seen(q))
             /\ Written(q) => Written(q)'
             /\ q # p => (Written(q)' => Written(q))
             /\ q # p => (Once(q) => Once(q)')
             /\ told'[q] = told[q]
  <2>1. Kept(q)' <=> Kept(q)
    <3>1. \A d \in Conn : h'[d].snap = h[d].snap
      BY <1>0
    <3> QED  BY <1>0, <3>1 DEF Kept
  <2>2. \A d \in Conn : /\ q \in Range(wire[d]) <=> \E i \in DOMAIN wire[d] : wire[d][i] = q
                        /\ q \in Range(wire'[d]) <=> \E i \in DOMAIN wire'[d] : wire'[d][i] = q
                        /\ q \in Range(recvd[d]) <=> \E i \in DOMAIN recvd[d] : recvd[d][i] = q
                        /\ q \in Range(recvd'[d]) <=> \E i \in DOMAIN recvd'[d] : recvd'[d][i] = q
    BY DEF Range
  <2>3. Written(q) => Written(q)'
    BY <1>4, <2>2 DEF Written
  <2>4. q # p => (Written(q)' => Written(q))
    BY <1>4, <2>2 DEF Written
  <2>5. q # p => (Seen(q)' <=> Seen(q))
    BY <1>2, <2>2 DEF Seen
  <2>6. ASSUME q # p, Once(q) PROVE Once(q)'
    <3>1. \A d \in Conn : \A i \in DOMAIN wire'[d] :
            wire'[d][i] = q => i \in DOMAIN wire[d] /\ wire[d][i] = q
      BY <1>4, <2>6
    <3> QED  BY <2>6, <3>1 DEF Once
  <2> QED  BY <1>0, <2>1, <2>3, <2>4, <2>5, <2>6
<1>6. ASSUME NEW q \in Pkt, q # p
      PROVE  /\ Placed(q)' <=> Placed(q)
             /\ Final(q) => Final(q)'
  BY <1>0, <1>5, <1>6 DEF Placed, Final
<1>7. Seen(p)' /\ Once(p)'
  <2>1. Seen(p)'
    <3>1. PICK s \in Seq(Pkt) : s = recvd[c]
      BY <1>0
    <3>2. Len(s) + 1 \in DOMAIN Append(s, p) /\ Append(s, p)[Len(s) + 1] = p
      BY AppendPlaces
    <3>3. p \in Range(recvd'[c])
      BY <1>0, <3>1, <3>2 DEF Range
    <3> QED  BY <3>3 DEF Seen
  <2>2. Once(p)'
    BY <1>4 DEF Once
  <2> QED  BY <2>1, <2>2
<1>8. ASSUME NEW q \in Pkt PROVE PacketOK(q)'
  <2>1. PacketOK(q)
    BY DEF PlacesInv
  <2>2. CASE q = p
    BY <1>1, <1>5, <1>7, <2>2 DEF PacketOK
  <2>3. CASE q # p
    BY <2>1, <2>3, <1>5, <1>6 DEF PacketOK
  <2> QED  BY <2>2, <2>3
<1>9. ASSUME NEW d \in Conn, Busy(d)' PROVE InHand(d)'
  <2>1. CASE d # c
    <3>1. h'[d] = h[d] /\ h[d].cur \in Pkt /\ Busy(d) /\ recvd'[d] = recvd[d]
      BY <1>0, <1>9, <2>1, PlaceTypes DEF Busy
    <3>2. PICK q \in Pkt : q = h[d].cur
      BY <3>1
    <3>3. q # p
      BY <1>0, <3>1, <3>2, InHandOnce
    <3>4. /\ Kept(q)' => Kept(q)
          /\ q \in (overrun \cup shadowed)' => q \in overrun \cup shadowed
          /\ Once(q) /\ ~Kept(q) => Once(q)'
          /\ Final(q) => Final(q)'
          /\ Placed(q) => Placed(q)'
          /\ told'[q] = told[q]
      BY <1>0, <1>5, <1>6, <3>3
    <3> QED  BY <1>9, <3>1, <3>2, <3>4, InHandStays
  <2>2. CASE d = c
    <3>1. recvd'[c] # <<>> /\ recvd'[c][Len(recvd'[c])] = p
      <4>1. PICK s \in Seq(Pkt) : s = recvd[c]
        BY <1>0
      <4>2. /\ Append(s, p) # <<>> /\ Len(Append(s, p)) = Len(s) + 1
            /\ Append(s, p)[Len(s) + 1] = p
        BY AppendPlaces
      <4> QED  BY <1>0, <4>1, <4>2
    <3>2. h'[c].pc # "ack" /\ h'[c].cur = p
      BY <1>0, <1>9, <2>2
    <3>3. told'[p] = "none" /\ ~Kept(p)' /\ p \notin (overrun \cup shadowed)' /\ Once(p)'
      BY <1>0, <1>1, <1>5, <1>7 DEF Placed
    <3> QED  BY <2>2, <3>1, <3>2, <3>3 DEF InHand
  <2> QED  BY <2>1, <2>2
<1> QED  BY <1>3, <1>8, <1>9, UnusedStays DEF PlacesInv

LEMMA PlacesStep ==
  TypeInv /\ RowsOK /\ ReadWritten /\ PlacesInv /\ [Next]_vars => PlacesInv'
<1> SUFFICES ASSUME TypeInv, RowsOK, ReadWritten, PlacesInv, [Next]_vars PROVE PlacesInv'
  OBVIOUS
<1>1. CASE UNCHANGED vars \/ Crash
  <2>1. CASE Conn = {}
    <3>1. UNCHANGED <<queue, wire, recvd, overrun, shadowed, told>>
      BY <1>1 DEF vars, Crash, history
    <3>2. TakenOnce' /\ \A p \in Pkt : PacketOK(p)'
      BY <2>1, <3>1, PacketsStay
    <3> QED  BY <2>1, <3>2 DEF PlacesInv
  <2>2. CASE Conn # {}
    BY <1>1, <2>2, QuietSteps, QuietPlaces
  <2> QED  BY <2>1, <2>2
<1>2. ASSUME NEW c \in Conn, Resume(c) PROVE PlacesInv'
  <2>1. \/ Finish(c) \/ SendStatus(c) \/ LoggedIn(c) \/ Done(c) \/ Announce(c)
        \/ Flush(c) \/ Sync(c) \/ Clear(c) \/ SendReturns(c) \/ SendRaises(c)
        \/ Enqueue(c) \/ Ack(c)
    BY <1>2 DEF Resume, Raise, RaiseLate, Closed
  <2>2. CASE Finish(c) \/ SendStatus(c) \/ LoggedIn(c) \/ Done(c) \/ Announce(c)
    BY <2>2, QuietSteps, QuietPlaces
  <2>3. CASE Flush(c) \/ Sync(c) \/ Clear(c)
    BY <2>3, FlushPlaces, SyncPlaces, ClearPlaces
  <2>4. CASE SendReturns(c) \/ SendRaises(c) \/ Enqueue(c) \/ Ack(c)
    BY <2>4, SendEndPlaces, EnqueuePlaces, AckPlaces
  <2> QED  BY <2>1, <2>2, <2>3, <2>4
<1>3. ASSUME NEW c \in Conn, Input(c) PROVE PlacesInv'
  <2>1. CASE Connect(c) \/ Drop(c) \/ Finish(c) \/ RecvSyncRequest(c)
    BY <2>1, QuietSteps, QuietPlaces
  <2>2. ASSUME NEW u \in User, RecvAuth(c, u) PROVE PlacesInv'
    BY <2>2, QuietSteps, QuietPlaces
  <2>3. ASSUME NEW p \in Pkt, RecvPacket(c, p) PROVE PlacesInv'
    BY <2>3, RecvPacketPlaces
  <2> QED  BY <1>3, <2>1, <2>2, <2>3 DEF Input, Logout
<1> QED  BY <1>1, <1>2, <1>3 DEF Next

LEMMA PlacesInit == Init => PlacesInv
<1> SUFFICES ASSUME Init PROVE PlacesInv
  OBVIOUS
<1>1. /\ \A c \in Conn : /\ recvd[c] = <<>> /\ wire[c] = <<>> /\ h[c].pc = "recv"
                         /\ h[c].snap = <<>>
      /\ \A u \in User : queue[u] = <<>>
      /\ \A p \in Pkt : told[p] = "none"
      /\ overrun = {} /\ shadowed = {}
  BY DEF Init, At
<1>2. Range(<<>>) = {} /\ DOMAIN <<>> = {}
  BY DEF Range
<1>3. ASSUME NEW p \in Pkt PROVE PacketOK(p)
  <2>1. To[p] \in User
    BY PktAssumption
  <2> QED  BY <1>1, <1>2, <2>1 DEF PacketOK, Kept, Placed, Written
<1> QED  BY <1>1, <1>2, <1>3 DEF PlacesInv, TakenOnce, Busy

-----------------------------------------------------------------------------
\* The rows of a user, and what a handler has read of them, stay in order.

LEMMA OrderedParts ==
  ASSUME NEW s \in Seq(Pkt), Ordered(s), NEW k \in 1..(Len(s) + 1)
  PROVE  Ordered(SubSeq(s, k, Len(s)))
<1>1. PICK t : t = SubSeq(s, k, Len(s))
  OBVIOUS
<1>2. /\ DOMAIN t = 1..(Len(s) - k + 1) /\ DOMAIN s = 1..Len(s) /\ Len(s) \in Nat /\ k \in Nat
      /\ \A i \in 1..(Len(s) - k + 1) : t[i] = s[k + i - 1]
  <2>1. /\ Len(s) \in Nat /\ DOMAIN s = 1..Len(s) /\ k \in Nat /\ k >= 1 /\ k <= Len(s) + 1
    BY LenProperties
  <2>2. /\ Len(t) = (IF k <= Len(s) THEN Len(s) - k + 1 ELSE 0) /\ t \in Seq(Pkt)
        /\ \A i \in 1..(Len(s) - k + 1) : t[i] = s[k + i - 1]
    BY <1>1, <2>1, SubSeqProperties
  <2>3. Len(t) = Len(s) - k + 1
    BY <2>1, <2>2
  <2> QED  BY <2>1, <2>2, <2>3
<1>3. ASSUME NEW c \in Conn, NEW i \in DOMAIN t, NEW j \in DOMAIN t,
             NEW m \in DOMAIN recvd[c], NEW n \in DOMAIN recvd[c],
             i < j, t[i] = recvd[c][m], t[j] = recvd[c][n]
      PROVE  m < n
  <2>1. PICK l \in Nat : l = Len(s)
    BY <1>2
  <2>2. k \in 1..(l + 1) /\ i \in 1..(l - k + 1) /\ j \in 1..(l - k + 1)
    BY <1>2, <2>1
  <2>3. k + i - 1 \in 1..l /\ k + j - 1 \in 1..l /\ k + i - 1 < k + j - 1
    BY <1>3, <2>1, <2>2
  <2>4. s[k + i - 1] = recvd[c][m] /\ s[k + j - 1] = recvd[c][n]
    BY <1>2, <1>3, <2>1, <2>2
  <2>5. k + i - 1 \in DOMAIN s /\ k + j - 1 \in DOMAIN s
    BY <1>2, <2>1, <2>3
  <2> QED  BY <2>3, <2>4, <2>5 DEF Ordered
<1> QED  BY <1>1, <1>3 DEF Ordered

\* A packet that is taken later is behind the rows that are there.
LEMMA OrderStep ==
  TypeInv /\ RowsOK /\ ReadWritten /\ PlacesInv /\ OrderInv /\ [Next]_vars => OrderInv'
<1> SUFFICES ASSUME TypeInv, RowsOK, ReadWritten, PlacesInv, OrderInv, [Next]_vars
             PROVE  OrderInv'
  OBVIOUS
<1>e. Ordered(<<>>)
  BY DEF Ordered
\* As long as nothing is taken, what was in order is in order.
<1>o. ASSUME recvd' = recvd,
             \A u \in User : queue'[u] = queue[u] \/ Ordered(queue'[u]),
             \A d \in Conn : h'[d].snap = h[d].snap \/ Ordered(h'[d].snap)
      PROVE  OrderInv'
  <2>1. ASSUME NEW s, Ordered(s) PROVE Ordered(s)'
    BY <1>o, <2>1 DEF Ordered
  <2>2. ASSUME NEW u \in User PROVE Ordered(queue[u])'
    <3>1. PICK s : s = queue'[u]
      OBVIOUS
    <3>2. Ordered(s)
      BY <1>o, <3>1 DEF OrderInv
    <3>3. Ordered(s)'
      BY <2>1, <3>2
    <3> QED  BY <3>1, <3>3 DEF Ordered
  <2>3. ASSUME NEW d \in Conn PROVE Ordered(h[d].snap)'
    <3>1. PICK s : s = h'[d].snap
      OBVIOUS
    <3>2. Ordered(s)
      BY <1>o, <3>1 DEF OrderInv
    <3>3. Ordered(s)'
      BY <2>1, <3>2
    <3> QED  BY <3>1, <3>3 DEF Ordered
  <2> QED  BY <2>2, <2>3 DEF OrderInv
<1>q. ASSUME UNCHANGED <<recvd, queue>>, \A d \in Conn : h'[d].snap \in {<<>>, h[d].snap}
      PROVE  OrderInv'
  BY <1>e, <1>o, <1>q
<1>1. CASE Quiet
  BY <1>1, <1>q DEF Quiet
<1>2. ASSUME NEW c \in Conn, SendReturns(c) \/ SendRaises(c) \/ Ack(c) PROVE OrderInv'
  <2>1. UNCHANGED <<recvd, queue>>
    BY <1>2 DEF SendReturns, SendRaises, Ack, history
  <2>2. \A d \in Conn : h'[d].snap \in {<<>>, h[d].snap}
    BY <1>2, RelayMoves DEF SendReturns
  <2> QED  BY <1>q, <2>1, <2>2
<1>3. ASSUME NEW c \in Conn, Flush(c) PROVE OrderInv'
  <2>1. UNCHANGED <<recvd, queue>>
    BY <1>3 DEF Flush, history
  <2>2. /\ Box(c) \in User /\ queue[Box(c)] \in Seq(Pkt) /\ \A d \in Conn \ {c} : h'[d] = h[d]
        /\ \E k \in 1..(Len(queue[Box(c)]) + 1) :
             h'[c].snap = SubSeq(queue[Box(c)], k, Len(queue[Box(c)]))
    BY <1>3, FlushMoves
  <2>3. Ordered(h'[c].snap)
    BY <2>2, OrderedParts DEF OrderInv
  <2> QED  BY <1>o, <2>1, <2>2, <2>3
<1>4. ASSUME NEW c \in Conn, Sync(c) PROVE OrderInv'
  <2>1. /\ UNCHANGED <<recvd, queue>> /\ h'[c].snap = h[c].snap
        /\ \A d \in Conn \ {c} : h'[d] = h[d]
    BY <1>4, SyncMoves
  <2> QED  BY <1>q, <2>1
<1>5. ASSUME NEW c \in Conn, Clear(c) PROVE OrderInv'
  <2>1. /\ recvd' = recvd /\ h'[c].snap = <<>> /\ \A d \in Conn \ {c} : h'[d] = h[d]
        /\ queue'[Box(c)] = <<>> /\ \A u \in User \ {Box(c)} : queue'[u] = queue[u]
    BY <1>5, ClearMoves
  <2> QED  BY <1>e, <1>o, <2>1
<1>6. ASSUME NEW c \in Conn, Enqueue(c) PROVE OrderInv'
  <2>p. PICK p \in Pkt : p = h[c].cur
    BY <1>6, PlaceTypes DEF Enqueue, Pc, Busy
  <2>1. /\ h[c].pc = "enqueue" /\ Busy(c) /\ To[p] \in User /\ recvd' = recvd
        /\ \A d \in Conn : h'[d].snap \in {<<>>, h[d].snap}
        /\ \/ queue' = queue
           \/ /\ p \notin Range(queue[To[p]]) /\ queue[To[p]] \in Seq(Pkt)
              /\ queue'[To[p]] = Append(queue[To[p]], p)
              /\ \A u \in User \ {To[p]} : queue'[u] = queue[u]
    BY <1>6, <2>p, EnqueueMoves
  <2>2. CASE queue' = queue
    BY <1>q, <2>1, <2>2
  <2>3. CASE /\ p \notin Range(queue[To[p]]) /\ queue[To[p]] \in Seq(Pkt)
             /\ queue'[To[p]] = Append(queue[To[p]], p)
             /\ \A u \in User \ {To[p]} : queue'[u] = queue[u]
    <3>1. PICK s \in Seq(Pkt) : s = queue[To[p]]
      BY <2>3
    <3>2. PICK w : w = Append(s, p)
      OBVIOUS
    <3>3. /\ DOMAIN s = 1..Len(s) /\ Len(s) \in Nat /\ w[Len(s) + 1] = p
          /\ \A i \in DOMAIN s : i \in DOMAIN w /\ w[i] = s[i]
          /\ \A i \in DOMAIN w : i \in DOMAIN s \/ i = Len(s) + 1
      BY <3>2, AppendPlaces
    <3>4. /\ Len(recvd[c]) \in DOMAIN recvd[c] /\ recvd[c][Len(recvd[c])] = p
          /\ recvd[c] \in Seq(Pkt)
      BY <2>p, <2>1, InHandOnce, PlaceTypes
    <3>5. ASSUME NEW d \in Conn, NEW i \in DOMAIN w, NEW j \in DOMAIN w,
                 NEW m \in DOMAIN recvd[d], NEW n \in DOMAIN recvd[d],
                 i < j, w[i] = recvd[d][m], w[j] = recvd[d][n]
          PROVE  m < n
      <4>1. i \in DOMAIN s /\ w[i] = s[i]
        <5>1. PICK l \in Nat : l = Len(s)
          BY <3>3
        <5>2. j \in 1..l \/ j = l + 1
          BY <3>3, <5>1
        <5>3. i # l + 1
          BY <3>5, <5>2
        <5> QED  BY <3>3, <5>1, <5>3
      <4>2. CASE j \in DOMAIN s
        BY <2>1, <3>1, <3>3, <3>5, <4>1, <4>2 DEF OrderInv, Ordered
      <4>3. CASE j = Len(s) + 1
        <5>1. d = c /\ n = Len(recvd[c])
          BY <3>3, <3>4, <3>5, <4>3 DEF PlacesInv, TakenOnce
        <5>2. w[i] # p
          BY <2>3, <3>1, <4>1 DEF Range
        <5>3. m # n /\ m \in 1..Len(recvd[c]) /\ Len(recvd[c]) \in Nat
          BY <3>4, <3>5, <5>1, <5>2
        <5> QED  BY <5>1, <5>3
      <4> QED  BY <3>3, <4>2, <4>3
    <3>6. Ordered(w)
      BY <3>5 DEF Ordered
    <3> QED  BY <1>e, <1>o, <2>1, <2>3, <3>1, <3>2, <3>6
  <2> QED  BY <2>1, <2>2, <2>3
<1>7. ASSUME NEW c \in Conn, NEW p \in Pkt, RecvPacket(c, p) PROVE OrderInv'
  <2>1. /\ ~Seen(p) /\ queue' = queue /\ \A d \in Conn : h'[d].snap = h[d].snap
        /\ \A d \in Conn \ {c} : recvd'[d] = recvd[d]
        /\ recvd'[c] = Append(recvd[c], p) /\ recvd[c] \in Seq(Pkt)
    BY <1>7, RecvPacketMoves
  <2>2. ~Kept(p)
    BY <2>1 DEF PlacesInv, PacketOK
  <2>3. ASSUME NEW d \in Conn, NEW m \in DOMAIN recvd'[d], recvd'[d][m] # p
        PROVE  m \in DOMAIN recvd[d] /\ recvd'[d][m] = recvd[d][m]
    <3>1. PICK s \in Seq(Pkt) : s = recvd[c]
      BY <2>1
    <3>2. /\ \A i \in DOMAIN s : Append(s, p)[i] = s[i]
          /\ \A i \in DOMAIN Append(s, p) : i \in DOMAIN s \/ i = Len(s) + 1
          /\ Append(s, p)[Len(s) + 1] = p
      BY AppendPlaces
    <3> QED  BY <2>1, <2>3, <3>1, <3>2
  <2>4. ASSUME NEW s, Ordered(s), p \notin Range(s) PROVE Ordered(s)'
    <3> SUFFICES ASSUME NEW d \in Conn, NEW i \in DOMAIN s, NEW j \in DOMAIN s,
                        NEW m \in DOMAIN recvd'[d], NEW n \in DOMAIN recvd'[d],
                        i < j, s[i] = recvd'[d][m], s[j] = recvd'[d][n]
                 PROVE  m < n
      BY DEF Ordered
    <3>1. s[i] # p /\ s[j] # p
      BY <2>4 DEF Range
    <3>2. /\ m \in DOMAIN recvd[d] /\ s[i] = recvd[d][m]
          /\ n \in DOMAIN recvd[d] /\ s[j] = recvd[d][n]
      BY <2>3, <3>1
    <3> QED  BY <2>4, <3>2 DEF Ordered
  <2>5. ASSUME NEW u \in User PROVE Ordered(queue[u])'
    <3>1. PICK s : s = queue[u]
      OBVIOUS
    <3>2. Ordered(s) /\ p \notin Range(s)
      BY <2>2, <3>1 DEF OrderInv, Kept
    <3>3. Ordered(s)'
      BY <2>4, <3>2
    <3> QED  BY <2>1, <3>1, <3>3 DEF Ordered
  <2>6. ASSUME NEW d \in Conn PROVE Ordered(h[d].snap)'
    <3>1. PICK s : s = h[d].snap
      OBVIOUS
    <3>2. Ordered(s) /\ p \notin Range(s)
      BY <2>2, <3>1 DEF OrderInv, Kept
    <3>3. Ordered(s)'
      BY <2>4, <3>2
    <3> QED  BY <2>1, <3>1, <3>3 DEF Ordered
  <2> QED  BY <2>5, <2>6 DEF OrderInv
<1>8. CASE UNCHANGED vars \/ Crash
  <2>1. CASE Conn = {}
    <3>1. UNCHANGED <<recvd, queue>>
      BY <1>8 DEF vars, Crash, history
    <3> QED  BY <1>q, <2>1, <3>1
  <2>2. CASE Conn # {}
    BY <1>1, <1>8, <2>2, QuietSteps
  <2> QED  BY <2>1, <2>2
<1>9. ASSUME NEW c \in Conn, Resume(c) PROVE OrderInv'
  <2>1. \/ Finish(c) \/ SendStatus(c) \/ LoggedIn(c) \/ Done(c) \/ Announce(c)
        \/ Flush(c) \/ Sync(c) \/ Clear(c) \/ SendReturns(c) \/ SendRaises(c)
        \/ Enqueue(c) \/ Ack(c)
    BY <1>9 DEF Resume, Raise, RaiseLate, Closed
  <2>2. CASE Finish(c) \/ SendStatus(c) \/ LoggedIn(c) \/ Done(c) \/ Announce(c)
    BY <1>1, <2>2, QuietSteps
  <2> QED  BY <1>2, <1>3, <1>4, <1>5, <1>6, <2>1, <2>2
<1>10. ASSUME NEW c \in Conn, Input(c) PROVE OrderInv'
  <2>1. CASE Connect(c) \/ Drop(c) \/ Finish(c) \/ RecvSyncRequest(c)
    BY <1>1, <2>1, QuietSteps
  <2>2. ASSUME NEW u \in User, RecvAuth(c, u) PROVE OrderInv'
    BY <1>1, <2>2, QuietSteps
  <2> QED  BY <1>7, <1>10, <2>1, <2>2 DEF Input, Logout
<1> QED  BY <1>8, <1>9, <1>10 DEF Next

LEMMA Places == Spec => [](SafeInv /\ PlacesInv /\ OrderInv)
<1>1. Init => OrderInv
  BY DEF Init, OrderInv, Ordered, At
<1>2. SafeInv => TypeInv /\ RowsOK /\ ReadWritten
  BY DEF SafeInv
<1> QED  BY <1>1, <1>2, SafeInit, SafeStep, PlacesInit, PlacesStep, OrderStep, PTL DEF Spec

\* A sender that reads "delivered" for a message can rely on it: it was written to one
\* connection, once, and no row, and no flush under way, will repeat it, whatever logs
\* in, drops and is restarted meanwhile.
THEOREM DeliveredMeansOnce == Spec => []DeliveredOnce
<1>1. SafeInv /\ PlacesInv => DeliveredOnce
  <2> SUFFICES ASSUME SafeInv, PlacesInv, NEW p \in Pkt, told[p] = "delivered"
               PROVE  /\ p \notin Range(queue[To[p]])
                      /\ \E c \in Conn : \E i \in DOMAIN wire[c] :
                           /\ wire[c][i] = p
                           /\ \A d \in Conn : \A j \in DOMAIN wire[d] :
                                wire[d][j] = p => d = c /\ j = i
    BY DEF DeliveredOnce
  <2>1. Written(p) /\ Once(p) /\ ~Kept(p)
    BY DEF PlacesInv, PacketOK, Final
  <2>2. p \notin Range(queue[To[p]])
    BY <2>1, PktAssumption DEF Kept
  <2>3. PICK c \in Conn : \E i \in DOMAIN wire[c] : wire[c][i] = p
    BY <2>1 DEF Written, Range
  <2> QED  BY <2>1, <2>2, <2>3 DEF Once
<1> QED  BY <1>1, Places, PTL

\* No SYNC_RESPONSE reverses two packets that one connection sent: rows are added behind
\* the others by the handler of that connection alone, and read in that order.
THEOREM SyncKeepsOrder == Spec => []SyncedInOrder
<1>1. OrderInv => SyncedInOrder
  BY DEF OrderInv, Ordered, SyncedInOrder
<1> QED  BY <1>1, Places, PTL

-----------------------------------------------------------------------------
\* The server implements Mailbox, step by step.

\* The place of a packet, before and after a step.
LEMMA PlaceIs ==
  ASSUME NEW p \in Pkt
  PROVE  /\ Written(p) => PlaceOf(p) = "written"
         /\ ~Written(p) /\ Stored(p) => PlaceOf(p) = "stored"
         /\ ~Written(p) /\ ~Stored(p) /\ p \in overrun \cup shadowed => PlaceOf(p) = "lost"
         /\ ~Written(p) /\ ~Stored(p) /\ p \notin overrun \cup shadowed => PlaceOf(p) = "new"
         /\ Written(p)' => PlaceOf(p)' = "written"
         /\ ~Written(p)' /\ Stored(p)' => PlaceOf(p)' = "stored"
         /\ ~Written(p)' /\ ~Stored(p)' /\ p \in (overrun \cup shadowed)' => PlaceOf(p)' = "lost"
         /\ ~Written(p)' /\ ~Stored(p)' /\ p \notin (overrun \cup shadowed)' => PlaceOf(p)' = "new"
BY DEF PlaceOf

\* Some packets change place, the others stay.
LEMMA MoveIs ==
  ASSUME NEW S \in SUBSET Pkt, NEW from, NEW to, told' = told,
         \A p \in S : PlaceOf(p) = from /\ PlaceOf(p)' = to,
         \A p \in Pkt \ S : PlaceOf(p)' = PlaceOf(p)
  PROVE  Box_!Move(S, from, to)
<1> DEFINE place == [p \in Pkt |-> PlaceOf(p)]
<1>1. \A p \in S : place[p] = from
  OBVIOUS
<1>2. place' = [p \in Pkt |-> IF p \in S THEN to ELSE place[p]]
  OBVIOUS
<1> QED  BY <1>1, <1>2 DEF Box_!Move

\* No packet is written or comes to be stored; some that were stored may be lost.
LEMMA LoseIs ==
  ASSUME told' = told,
         \A p \in Pkt : Written(p)' <=> Written(p),
         \A p \in Pkt : ~Written(p) =>
           /\ Stored(p)' => Stored(p)
           /\ p \in overrun \cup shadowed => p \in (overrun \cup shadowed)'
           /\ p \in (overrun \cup shadowed)' => p \in overrun \cup shadowed \/ Stored(p)
           /\ Stored(p) /\ ~Stored(p)' => p \in (overrun \cup shadowed)'
  PROVE  Box_!MailboxNext
<1> DEFINE S == {p \in Pkt : ~Written(p) /\ Stored(p) /\ ~Stored(p)'}
<1>1. \A p \in S : PlaceOf(p) = "stored" /\ PlaceOf(p)' = "lost"
  BY PlaceIs
<1>2. \A p \in Pkt \ S : PlaceOf(p)' = PlaceOf(p)
  <2> SUFFICES ASSUME NEW p \in Pkt, p \notin S PROVE PlaceOf(p)' = PlaceOf(p)
    OBVIOUS
  <2>1. CASE Written(p)
    BY <2>1, PlaceIs
  <2>2. CASE ~Written(p) /\ Stored(p)
    BY <2>2, PlaceIs
  <2>3. CASE ~Written(p) /\ ~Stored(p)
    BY <2>3, PlaceIs
  <2> QED  BY <2>1, <2>2, <2>3
<1>3. S \in SUBSET Pkt
  OBVIOUS
<1> HIDE DEF S
<1>4. Box_!Lose(S)
  BY <1>1, <1>2, <1>3, MoveIs DEF Box_!Lose
<1> QED  BY <1>3, <1>4 DEF Box_!MailboxNext

\* What is stored is kept, and what a handler reads for nothing is a row or lost.
LEMMA StoredIs ==
  ASSUME TypeInv, PlacesInv, NEW p \in Pkt
  PROVE  /\ Stored(p) => Kept(p) /\ Placed(p)
         /\ Placed(p) => Written(p) \/ Stored(p) \/ p \in overrun \cup shadowed
         /\ To[p] \in User
<1>1. To[p] \in User
  BY PktAssumption
<1>2. Stored(p) => Kept(p)
  BY <1>1 DEF Stored, Kept
<1> QED  BY <1>1, <1>2 DEF PlacesInv, PacketOK, Placed, Stored

\* A step that leaves the packets and rows and starts no SYNC_RESPONSE loses, at most,
\* what a handler had read that will not send it any more.
LEMMA LetGo ==
  ASSUME TypeInv, PlacesInv, UNCHANGED <<queue, wire, told, overrun, shadowed>>,
         \A d \in Conn : h'[d].pc = "sync" => h'[d] = h[d]
  PROVE  Box_!MailboxNext
<1>1. ASSUME NEW d \in Conn, Pc(d, "sync")' PROVE Pc(d, "sync") /\ h'[d] = h[d]
  BY <1>1 DEF Pc, PlacesInv
<1>2. ASSUME NEW p \in Pkt
      PROVE  /\ Written(p)' <=> Written(p)
             /\ Stored(p)' => Stored(p)
             /\ ~Written(p) /\ Stored(p) /\ ~Stored(p)' => p \in overrun \cup shadowed
  <2>1. Stored(p)' => Stored(p)
    BY <1>1 DEF Stored
  <2>2. p \in Range(queue[To[p]]) => Stored(p)'
    BY DEF Stored
  <2>3. Stored(p) => Placed(p)
    BY StoredIs
  <2> QED  BY <2>1, <2>2, <2>3 DEF Placed, Written
<1> QED  BY <1>2, LoseIs

\* Reading the rows makes no packet stored that was not.
LEMMA FlushBox ==
  ASSUME TypeInv, RowsOK, PlacesInv, NEW c \in Conn, Flush(c)
  PROVE  Box_!MailboxNext
<1>0. UNCHANGED <<sock, queue, wire, told, overrun, shadowed>>
  BY DEF Flush, history
<1>1. /\ Box(c) \in User /\ \A d \in Conn \ {c} : h'[d] = h[d]
      /\ Range(h'[c].snap) \subseteq Range(queue[Box(c)])
  BY FlushMoves
<1>2. ASSUME NEW p \in Pkt
      PROVE  /\ Written(p)' <=> Written(p)
             /\ Stored(p)' => Stored(p)
             /\ ~Written(p) /\ Stored(p) /\ ~Stored(p)' => p \in overrun \cup shadowed
  <2>1. p \in Range(h'[c].snap) => p \in Range(queue[To[p]])
    BY <1>1 DEF RowsOK
  <2>2. \A d \in Conn \ {c} : Pc(d, "sync")' <=> Pc(d, "sync")
    BY <1>0, <1>1 DEF Pc
  <2>3. Stored(p)' => Stored(p)
    BY <1>0, <1>1, <2>1, <2>2 DEF Stored
  <2>4. p \in Range(queue[To[p]]) => Stored(p)'
    BY <1>0 DEF Stored
  <2>5. Stored(p) => Placed(p)
    BY StoredIs
  <2> QED  BY <1>0, <2>3, <2>4, <2>5 DEF Placed, Written
<1> QED  BY <1>0, <1>2, LoseIs

\* A SYNC_RESPONSE writes what was stored.
LEMMA SyncBox ==
  ASSUME TypeInv, PlacesInv, NEW c \in Conn, Sync(c)
  PROVE  Box_!MailboxNext
<1>0. /\ h[c].pc = "sync" /\ \A d \in Conn \ {c} : h'[d] = h[d] /\ wire'[d] = wire[d]
      /\ h'[c].snap = h[c].snap /\ h'[c].pc \in {"clear", "raise"}
      /\ UNCHANGED <<queue, recvd, told, overrun, shadowed>>
      /\ \/ wire' = wire
         \/ wire'[c] = wire[c] \o h[c].snap
  BY SyncMoves
<1>1. sock' = sock /\ Pc(c, "sync")
  BY DEF Sync
<1>2. CASE wire' = wire
  BY <1>0, <1>2, LetGo
<1>3. CASE wire'[c] = wire[c] \o h[c].snap
  <2> DEFINE S == {p \in Pkt : p \in Range(h[c].snap) /\ ~Written(p)}
  <2>1. Range(wire'[c]) = Range(wire[c]) \cup Range(h[c].snap)
    <3>1. wire[c] \in Seq(Pkt) /\ h[c].snap \in Seq(Pkt)
      BY PlaceTypes
    <3> QED  BY <1>3, <3>1, RangeFacts
  <2>2. ASSUME NEW p \in Pkt
        PROVE  Written(p)' <=> Written(p) \/ p \in Range(h[c].snap)
    BY <1>0, <2>1 DEF Written
  <2>3. ASSUME NEW p \in Pkt, p \notin Range(h[c].snap)
        PROVE  Stored(p)' <=> Stored(p)
    <3>1. \A d \in Conn \ {c} : Pc(d, "sync")' <=> Pc(d, "sync")
      BY <1>0, <1>1 DEF Pc
    <3>2. \A d \in Conn : p \in Range(h'[d].snap) <=> p \in Range(h[d].snap)
      BY <1>0
    <3> QED  BY <1>0, <2>3, <3>1, <3>2 DEF Stored
  <2>4. \A p \in S : PlaceOf(p) = "stored" /\ PlaceOf(p)' = "written"
    <3> SUFFICES ASSUME NEW p \in S PROVE PlaceOf(p) = "stored" /\ PlaceOf(p)' = "written"
      OBVIOUS
    <3>1. Stored(p)
      BY <1>1 DEF Stored
    <3> QED  BY <2>2, <3>1, PlaceIs
  <2>5. \A p \in Pkt \ S : PlaceOf(p)' = PlaceOf(p)
    <3> SUFFICES ASSUME NEW p \in Pkt, p \notin S PROVE PlaceOf(p)' = PlaceOf(p)
      OBVIOUS
    <3>1. CASE Written(p)
      BY <2>2, <3>1, PlaceIs
    <3>2. CASE ~Written(p)
      <4>1. p \notin Range(h[c].snap)
        BY <3>2
      <4>2. ~Written(p)' /\ (Stored(p)' <=> Stored(p))
        BY <2>2, <2>3, <3>2, <4>1
      <4> QED  BY <1>0, <3>2, <4>2, PlaceIs
    <3> QED  BY <3>1, <3>2
  <2>6. S \in SUBSET Pkt
    OBVIOUS
  <2> HIDE DEF S
  <2>7. Box_!Sync(S)
    BY <1>0, <2>4, <2>5, <2>6, MoveIs DEF Box_!Sync
  <2> QED  BY <2>6, <2>7 DEF Box_!MailboxNext
<1> QED  BY <1>0, <1>2, <1>3

\* A clear loses the rows that its flush did not read, unless another handler is about
\* to write them.
LEMMA ClearBox ==
  ASSUME TypeInv, RowsOK, ReadWritten, PlacesInv, NEW c \in Conn, Clear(c)
  PROVE  Box_!MailboxNext
<1>0. /\ h[c].pc = "clear" /\ Box(c) \in User
      /\ \A d \in Conn \ {c} : h'[d] = h[d]
      /\ h'[c].pc \in {"recv", "announce"}
      /\ UNCHANGED <<wire, recvd, told, shadowed>>
      /\ overrun' = overrun \cup (Range(queue[Box(c)]) \ Range(h[c].snap))
      /\ queue'[Box(c)] = <<>> /\ \A u \in User \ {Box(c)} : queue'[u] = queue[u]
      /\ \A q \in Range(queue[Box(c)]) : q \in overrun' \/ Written(q)
  BY ClearMoves
<1>1. sock' = sock /\ Range(<<>>) = {}
  BY DEF Clear, Range
<1>2. \A d \in Conn : Pc(d, "sync")' <=> Pc(d, "sync")
  BY <1>0, <1>1 DEF Pc
<1>3. \A d \in Conn : Pc(d, "sync") => h'[d] = h[d]
  BY <1>0 DEF Pc
<1>4. ASSUME NEW p \in Pkt
      PROVE  /\ Written(p)' <=> Written(p)
             /\ Stored(p)' => Stored(p)
             /\ p \in overrun' => p \in overrun \/ Stored(p)
             /\ ~Written(p) /\ Stored(p) /\ ~Stored(p)' => p \in overrun'
  <2>1. To[p] \in User
    BY PktAssumption
  <2>2. p \in Range(queue'[To[p]]) => p \in Range(queue[To[p]])
    BY <1>0, <1>1, <2>1
  <2>3. Stored(p)' => Stored(p)
    BY <1>2, <1>3, <2>2 DEF Stored
  <2>4. p \in overrun' => p \in overrun \/ Stored(p)
    BY <1>0 DEF Stored, RowsOK
  <2>5. Stored(p) /\ ~Stored(p)' => To[p] = Box(c) /\ p \in Range(queue[To[p]])
    BY <1>0, <1>2, <1>3, <2>1 DEF Stored
  <2> QED  BY <1>0, <2>3, <2>4, <2>5 DEF Written
<1> QED  BY <1>0, <1>4, LoseIs

\* The look-up writes a new packet, or leaves it in hand.
LEMMA RecvPacketBox ==
  ASSUME TypeInv, PlacesInv, NEW c \in Conn, NEW p \in Pkt, RecvPacket(c, p)
  PROVE  Box_!MailboxNext
<1>0. /\ h[c].pc = "recv" /\ ~Seen(p)
      /\ UNCHANGED <<sock, queue, told, overrun, shadowed>>
      /\ \A d \in Conn \ {c} : h'[d] = h[d]
      /\ h'[c].snap = h[c].snap
      /\ h'[c].pc # "sync"
      /\ \/ wire' = wire
         \/ \E t \in Conn : /\ wire'[t] = Append(wire[t], p) /\ wire[t] \in Seq(Pkt)
                            /\ \A d \in Conn \ {t} : wire'[d] = wire[d]
  <2>1. h'[c].pc # "sync"
    BY CalmSteps DEF Calm, RecvPacket, Pc
  <2> QED  BY <2>1, RecvPacketMoves
<1>1. CASE wire' = wire
  BY <1>0, <1>1, LetGo
<1>2. ASSUME NEW t \in Conn, wire'[t] = Append(wire[t], p), wire[t] \in Seq(Pkt),
             \A d \in Conn \ {t} : wire'[d] = wire[d]
      PROVE  Box_!MailboxNext
  <2>1. Range(wire'[t]) = Range(wire[t]) \cup {p}
    BY <1>2, RangeFacts
  <2>2. ASSUME NEW q \in Pkt
        PROVE  /\ Written(q)' <=> Written(q) \/ q = p
               /\ Stored(q)' <=> Stored(q)
    <3>1. Written(q)' <=> Written(q) \/ q = p
      BY <1>2, <2>1 DEF Written
    <3>2. \A d \in Conn : Pc(d, "sync")' <=> Pc(d, "sync")
      BY <1>0 DEF Pc
    <3>3. \A d \in Conn : Pc(d, "sync") => h'[d] = h[d]
      BY <1>0 DEF Pc
    <3> QED  BY <1>0, <3>1, <3>2, <3>3 DEF Stored
  <2>3. ~Written(p) /\ ~Stored(p) /\ p \notin overrun \cup shadowed
    BY <1>0, StoredIs DEF PlacesInv, PacketOK, Placed
  <2>4. PlaceOf(p) = "new" /\ PlaceOf(p)' = "written"
    BY <2>2, <2>3, PlaceIs
  <2>5. \A q \in Pkt \ {p} : PlaceOf(q)' = PlaceOf(q)
    BY <1>0, <2>2, PlaceIs
  <2>6. Box_!Deliver(p)
    BY <1>0, <2>4, <2>5, MoveIs DEF Box_!Deliver
  <2> QED  BY <2>6 DEF Box_!MailboxNext
<1> QED  BY <1>0, <1>1, <1>2

\* An enqueue stores a new packet, or the key of another row shadows it.
LEMMA EnqueueBox ==
  ASSUME TypeInv, PlacesInv, NEW c \in Conn, Enqueue(c)
  PROVE  Box_!MailboxNext
<1>p. PICK p \in Pkt : p = h[c].cur
  BY PlaceTypes DEF Enqueue, Pc, Busy
<1>0. /\ h[c].pc = "enqueue" /\ Busy(c) /\ To[p] \in User
      /\ \A d \in Conn \ {c} : h'[d] = h[d]
      /\ h'[c].pc # "sync"
      /\ UNCHANGED <<sock, wire, recvd, told, overrun>>
      /\ \/ queue' = queue /\ shadowed' = shadowed \cup {p}
         \/ /\ shadowed' = shadowed
            /\ Range(queue'[To[p]]) = Range(queue[To[p]]) \cup {p}
            /\ \A u \in User \ {To[p]} : queue'[u] = queue[u]
  <2>1. h'[c].pc # "sync"
    BY CalmSteps DEF Calm, Enqueue, Pc
  <2>2. sock' = sock
    BY DEF Enqueue
  <2> QED  BY <1>p, <2>1, <2>2, EnqueueMoves
<1>1. /\ \A d \in Conn : Pc(d, "sync")' <=> Pc(d, "sync")
      /\ \A d \in Conn : Pc(d, "sync") => h'[d] = h[d]
  BY <1>0 DEF Pc
<1>2. ~Kept(p) /\ p \notin overrun \cup shadowed
  BY <1>p, <1>0 DEF PlacesInv, InHand
<1>3. ~Stored(p)
  BY <1>2, StoredIs
<1>4. ASSUME NEW q \in Pkt
      PROVE  /\ Written(q)' <=> Written(q)
             /\ q # p => (Stored(q)' <=> Stored(q))
             /\ q # p => (q \in (overrun \cup shadowed)' <=> q \in overrun \cup shadowed)
  <2>1. To[q] \in User
    BY PktAssumption
  <2>2. q # p => (q \in Range(queue'[To[q]]) <=> q \in Range(queue[To[q]]))
    BY <1>0, <2>1
  <2>3. Written(q)' <=> Written(q)
    BY <1>0 DEF Written
  <2>4. q # p => (Stored(q)' <=> Stored(q))
    BY <1>1, <2>2 DEF Stored
  <2> QED  BY <1>0, <2>3, <2>4
<1>5. \A q \in Pkt \ {p} : PlaceOf(q)' = PlaceOf(q)
  BY <1>4, PlaceIs
<1>6. CASE Written(p)
  <2>1. PlaceOf(p) = "written" /\ PlaceOf(p)' = "written"
    BY <1>4, <1>6, PlaceIs
  <2>2. \A q \in Pkt : PlaceOf(q)' = PlaceOf(q)
    BY <1>5, <2>1
  <2>3. Box_!Lose({})
    BY <1>0, <2>2, MoveIs DEF Box_!Lose
  <2> QED  BY <2>3 DEF Box_!MailboxNext
<1>7. CASE ~Written(p)
  <2>1. PlaceOf(p) = "new"
    BY <1>2, <1>3, <1>7, PlaceIs
  <2>2. ~Written(p)'
    BY <1>4, <1>7
  <2>3. CASE queue' = queue /\ shadowed' = shadowed \cup {p}
    <3>1. ~Stored(p)'
      BY <1>1, <1>3, <2>3 DEF Stored
    <3>2. PlaceOf(p)' = "lost"
      BY <2>2, <2>3, <3>1, PlaceIs
    <3>3. Box_!Shadow(p)
      BY <1>0, <1>5, <2>1, <3>2, MoveIs DEF Box_!Shadow
    <3> QED  BY <3>3 DEF Box_!MailboxNext
  <2>4. CASE Range(queue'[To[p]]) = Range(queue[To[p]]) \cup {p}
    <3>1. Stored(p)'
      BY <2>4 DEF Stored
    <3>2. PlaceOf(p)' = "stored"
      BY <2>2, <3>1, PlaceIs
    <3>3. Box_!Store(p)
      BY <1>0, <1>5, <2>1, <3>2, MoveIs DEF Box_!Store
    <3> QED  BY <3>3 DEF Box_!MailboxNext
  <2> QED  BY <1>0, <2>3, <2>4
<1> QED  BY <1>6, <1>7

\* The DELIVERY tells where the packet is.
LEMMA AckBox ==
  ASSUME TypeInv, PlacesInv, NEW c \in Conn, Ack(c)
  PROVE  Box_!MailboxNext
<1>p. PICK p \in Pkt : p = h[c].cur
  BY PlaceTypes DEF Ack, Pc, Busy
<1>0. /\ h[c].pc = "ack" /\ Busy(c) /\ h[c].stat \in Status
      /\ \A d \in Conn \ {c} : h'[d] = h[d]
      /\ h'[c].pc # "sync"
      /\ UNCHANGED <<sock, queue, wire, overrun, shadowed>>
      /\ told' = told \/ told' = [told EXCEPT ![p] = h[c].stat]
  <2>1. h'[c].pc # "sync"
    BY CalmSteps DEF Calm, Ack, Pc
  <2>2. h[c].stat \in Status
    BY PlaceTypes DEF Locals
  <2> QED  BY <1>p, <2>1, <2>2, RelayMoves DEF Ack, Pc, Busy
<1>1. CASE told' = told
  BY <1>0, <1>1, LetGo
<1>2. CASE told' = [told EXCEPT ![p] = h[c].stat]
  <2>1. /\ \A d \in Conn : Pc(d, "sync")' <=> Pc(d, "sync")
        /\ \A d \in Conn : Pc(d, "sync") => h'[d] = h[d]
    BY <1>0 DEF Pc
  <2>2. \A q \in Pkt : PlaceOf(q)' = PlaceOf(q)
    <3> SUFFICES ASSUME NEW q \in Pkt PROVE PlaceOf(q)' = PlaceOf(q)
      OBVIOUS
    <3>1. Written(q)' <=> Written(q)
      BY <1>0 DEF Written
    <3>2. Stored(q)' <=> Stored(q)
      BY <1>0, <2>1 DEF Stored
    <3> QED  BY <1>0, <3>1, <3>2, PlaceIs
  <2>3. /\ told[p] = "none" /\ h[c].stat # "none"
        /\ h[c].stat = "delivered" => Written(p)
        /\ h[c].stat = "queued" => Placed(p)
    BY <1>p, <1>0 DEF PlacesInv, InHand, Final
  <2>4. h[c].stat = "delivered" => PlaceOf(p) = "written"
    BY <2>3, PlaceIs
  <2>5. h[c].stat = "queued" => PlaceOf(p) # "new"
    BY <2>3, StoredIs, PlaceIs
  <2>6. PICK s \in Status \ {"none"} : s = h[c].stat
    BY <1>0, <2>3
  <2>7. Box_!Tell(p, s)
    BY <1>2, <2>2, <2>3, <2>4, <2>5, <2>6 DEF Box_!Tell
  <2> QED  BY <2>7 DEF Box_!MailboxNext
<1> QED  BY <1>0, <1>1, <1>2

LEMMA BoxStep ==
  ASSUME SafeInv, PlacesInv, [Next]_vars
  PROVE  Box_!MailboxNext
<1>t. TypeInv /\ RowsOK /\ ReadWritten
  BY DEF SafeInv
<1>q. ASSUME Quiet, Calm PROVE Box_!MailboxNext
  BY <1>t, <1>q, LetGo DEF Quiet, Calm
<1>1. CASE UNCHANGED vars \/ Crash
  <2>1. CASE Conn = {}
    <3>1. Quiet /\ Calm
      BY <1>1, <2>1 DEF vars, Crash, history, Quiet, Calm
    <3> QED  BY <1>q, <3>1
  <2>2. CASE UNCHANGED vars
    <3>1. Quiet /\ Calm
      BY <2>2 DEF vars, Quiet, Calm
    <3> QED  BY <1>q, <3>1
  <2>3. CASE Crash /\ Conn # {}
    BY <1>t, <1>q, <2>3, QuietSteps, CalmSteps
  <2> QED  BY <1>1, <2>1, <2>2, <2>3
<1>2. ASSUME NEW c \in Conn, Resume(c) PROVE Box_!MailboxNext
  <2>1. \/ Finish(c) \/ SendStatus(c) \/ LoggedIn(c) \/ Done(c) \/ Announce(c)
        \/ Flush(c) \/ Sync(c) \/ Clear(c) \/ SendReturns(c) \/ SendRaises(c)
        \/ Enqueue(c) \/ Ack(c)
    BY <1>2 DEF Resume, Raise, RaiseLate, Closed
  <2>2. CASE Finish(c) \/ SendStatus(c) \/ LoggedIn(c) \/ Done(c) \/ Announce(c)
    BY <1>t, <1>q, <2>2, QuietSteps, CalmSteps
  <2>3. CASE Flush(c) \/ Sync(c) \/ Clear(c)
    BY <1>t, <2>3, FlushBox, SyncBox, ClearBox
  <2>4. CASE SendReturns(c) \/ SendRaises(c)
    <3>1. UNCHANGED <<queue, wire, told, overrun, shadowed>>
      BY <2>4 DEF SendReturns, SendRaises, history
    <3>2. \A d \in Conn : h'[d].pc = "sync" => h'[d] = h[d]
      BY <1>t, <2>4, CalmSteps DEF Calm
    <3> QED  BY <1>t, <3>1, <3>2, LetGo
  <2>5. CASE Enqueue(c) \/ Ack(c)
    BY <1>t, <2>5, EnqueueBox, AckBox
  <2> QED  BY <2>1, <2>2, <2>3, <2>4, <2>5
<1>3. ASSUME NEW c \in Conn, Input(c) PROVE Box_!MailboxNext
  <2>1. CASE Connect(c) \/ Drop(c)
    <3>1. Quiet /\ Calm
      BY <1>t, <2>1, QuietSteps DEF Connect, Drop, Calm
    <3> QED  BY <1>q, <3>1
  <2>2. CASE Finish(c) \/ RecvSyncRequest(c)
    BY <1>t, <1>q, <2>2, QuietSteps, CalmSteps
  <2>3. ASSUME NEW u \in User, RecvAuth(c, u) PROVE Box_!MailboxNext
    BY <1>t, <1>q, <2>3, QuietSteps, CalmSteps
  <2>4. ASSUME NEW p \in Pkt, RecvPacket(c, p) PROVE Box_!MailboxNext
    BY <1>t, <2>4, RecvPacketBox
  <2> QED  BY <1>3, <2>1, <2>2, <2>3, <2>4 DEF Input, Logout
<1> QED  BY <1>1, <1>2, <1>3 DEF Next

\* The server keeps what Mailbox promises, whatever connects, logs in, drops and is
\* restarted, and however the awaits of the handlers interleave: an accepted packet is
\* written, or stored until it is, or refused by the key of another row, or lost by a
\* clear that overran its flush; and a DELIVERY is written once and says where it is.
THEOREM ServerKeepsMailbox == Spec => ImplementsMailbox
<1>1. Init => Box_!MailboxInit
  <2> SUFFICES ASSUME Init PROVE Box_!MailboxInit
    OBVIOUS
  <2>1. ASSUME NEW p \in Pkt PROVE PlaceOf(p) = "new"
    <3>1. TypeInv /\ PlacesInv
      BY TypeInit, PlacesInit
    <3>2. ~Seen(p)
      BY DEF Init, Seen, Range
    <3>3. ~Written(p) /\ ~Stored(p) /\ p \notin overrun \cup shadowed
      BY <3>1, <3>2, StoredIs DEF PlacesInv, PacketOK, Placed
    <3> QED  BY <3>3, PlaceIs
  <2>2. [p \in Pkt |-> PlaceOf(p)] = [p \in Pkt |-> "new"]
    BY <2>1
  <2> QED  BY <2>2 DEF Init, Box_!MailboxInit
<1>2. SafeInv /\ PlacesInv /\ [Next]_vars => Box_!MailboxNext
  BY BoxStep
<1> QED  BY <1>1, <1>2, Places, PTL DEF Spec, ImplementsMailbox, Box_!MailboxSpec
=============================================================================
