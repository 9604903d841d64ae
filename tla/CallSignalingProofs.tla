------------------------ MODULE CallSignalingProofs ------------------------
(***************************************************************************)
(* For every set of users and sessions, calls that cross included: a call  *)
(* has one farewell and nothing follows it, a session that has left memory *)
(* has an end in its row, two parties in a call use one key, and while     *)
(* connections live no client stays in a call the server has not got.      *)
(*                                                                         *)
(* The first two rest on who can speak of a session (Roles), on an         *)
(* invitation being made once (InviteOnce), on what the handlers and the   *)
(* clients can have of a session at each of its stages (Stages, SaidOnce), *)
(* and on the callee not knowing of it before its row is there (RowFirst). *)
(* The key rests on KeyInv, the active call on ListInv; both are proved    *)
(* from the invariant of the first two.                                    *)
(***************************************************************************)
EXTENDS CallSignaling, FiniteSetTheorems, SequenceTheorems, TLAPS

ClientRecord == [active : Session \cup {NoSession}, eph : Ephemerals \cup {<<>>}, key : Keys,
                 handle : Session \cup {NoSession}, pending : SUBSET Session]
StreamRecord == [phase : {"none", "starting", "running", "stopped"}, key : Keys]
Local == [pc : {"idle", "save", "start", "stop", "close", "declined"},
          s : Session \cup {NoSession}, was : Session \cup {NoSession}]
Records == /\ client \in [User -> ClientRecord]
           /\ stream \in [User -> [Session -> StreamRecord]]
           /\ co \in [User -> [Routine -> Local]]
           /\ read \in [User -> Nat]

\* Packets of s with a type in T that u has sent, that the server is working on for
\* u, and that were written to u.
Mentions(q, s, T) == \E i \in DOMAIN q : q[i].s = s /\ q[i].type \in T
Asked(u, s, T) == Mentions(up[u], s, T)
Works(u, s, T) == srv[u].pc # "idle" /\ srv[u].m.s = s /\ srv[u].m.type \in T
Told(u, s, T) == Mentions(said[u], s, T)

Party(s) == {Caller[s], Callee[s]}
\* A user with s among the incoming calls, being offered it, in it or hanging it up.
Offered(u, s) == s \in client[u].pending \/ (co[u]["rx"].pc = "save" /\ co[u]["rx"].s = s)
Engaged(u, s) == client[u].active = s \/ (co[u]["ui"].pc = "stop" /\ co[u]["ui"].s = s)

\* Who can say what of a session.
Roles ==
  \A u \in User, s \in Session :
    /\ Asked(u, s, {"INVITE"}) \/ Works(u, s, {"INVITE"}) => u = Caller[s]
    /\ Asked(u, s, {"ACCEPT", "DECLINE"}) \/ Works(u, s, {"ACCEPT", "DECLINE"}) => u = Callee[s]
    /\ Asked(u, s, {"END"}) \/ Works(u, s, {"END"}) => u \in Party(s)
    /\ Told(u, s, {"INVITE"}) => u = Callee[s]
    /\ Offered(u, s) => u = Callee[s]
    /\ Engaged(u, s) => u \in Party(s)

\* At most one invitation to s.
Single(q, s) ==
  \A i, j \in DOMAIN q :
    q[i].s = s /\ q[i].type = "INVITE" /\ q[j].s = s /\ q[j].type = "INVITE" => i = j

\* The invitation is on its way once at most, and then nothing else is known of s.
InviteOnce ==
  \A s \in Session :
    /\ s \notin begun => ~Asked(Caller[s], s, {"INVITE"})
    /\ s \notin begun \/ Asked(Caller[s], s, {"INVITE"}) =>
         session[s] = "none" /\ \A u \in User : ~Told(u, s, Type)
    /\ Single(up[Caller[s]], s)

\* What there can be of a session at each of its stages.
Stages ==
  \A u \in User, s \in Session :
    /\ session[s] = "none" => ~Works(u, s, Type) /\ ~Told(u, s, {"INVITE", "ACCEPT", "END"})
    /\ session[s] = "pending" => ~Works(u, s, Type \ {"INVITE"}) /\ ~Told(u, s, Type \ {"INVITE"})
    /\ session[s] = "active" => ~Works(u, s, Farewell) /\ ~Told(u, s, Farewell)

\* What the server is about to write was not written before, and follows no farewell.
SaidOnce ==
  \A u \in User, s \in Session :
    /\ Works(u, s, Type) => ~Told(Recipient(u, srv[u].m), s, {srv[u].m.type} \cup Farewell)
    /\ Works(u, s, Farewell) => \A v \in User : /\ ~Told(v, s, Farewell)
                                                /\ Works(v, s, Farewell) => v = u

\* One farewell, whoever it is written to, and it is the last word.
FarewellOnce ==
  \A s \in Session, u, v \in User : \A i \in Farewells(u, s), j \in Farewells(v, s) :
    u = v /\ i = j
LastWord ==
  \A u \in User, s \in Session : \A i, j \in Places(u, s) :
    i < j => said[u][i].type \notin Farewell /\ said[u][i].type # said[u][j].type

\* The row is written before the callee hears of the session.
RowFirst ==
  \A s \in Session :
    /\ session[s] # "none" /\ row[s].status = "none" =>
         srv[Caller[s]].pc = "write" /\ Works(Caller[s], s, {"INVITE"})
    /\ \/ Asked(Callee[s], s, Type) \/ Works(Callee[s], s, Type) \/ Told(Callee[s], s, Type)
       \/ Offered(Callee[s], s) \/ Engaged(Callee[s], s)
       => session[s] # "none" /\ row[s].status # "none"

\* Whoever ended the session has written its end, or is about to.
EndIsWritten ==
  \A s \in Session : session[s] = "gone" =>
    row[s].ended \/ \E u \in User : srv[u].pc = "write" /\ Works(u, s, Farewell)

CallInv == /\ CallTypeOK /\ Records /\ Roles /\ InviteOnce /\ Stages /\ SaidOnce
           /\ FarewellOnce /\ LastWord /\ RowFirst /\ EndIsWritten

-----------------------------------------------------------------------------
\* Lines of packets.

LEMMA MentionsAppend ==
  ASSUME NEW q \in Seq(Packet), NEW m \in Packet
  PROVE  /\ Append(q, m) \in Seq(Packet) /\ Len(Append(q, m)) = Len(q) + 1
         /\ DOMAIN Append(q, m) = DOMAIN q \cup {Len(q) + 1}
         /\ \A i \in DOMAIN q : i < Len(q) + 1 /\ Append(q, m)[i] = q[i]
         /\ Append(q, m)[Len(q) + 1] = m
         /\ \A s, T : Mentions(Append(q, m), s, T) <=> Mentions(q, s, T) \/ (m.s = s /\ m.type \in T)
<1>1. /\ Append(q, m) \in Seq(Packet) /\ Len(Append(q, m)) = Len(q) + 1
      /\ DOMAIN Append(q, m) = DOMAIN q \cup {Len(q) + 1}
      /\ \A i \in DOMAIN q : i < Len(q) + 1 /\ Append(q, m)[i] = q[i]
      /\ Append(q, m)[Len(q) + 1] = m
  BY AppendProperties, LenProperties
<1> QED  BY <1>1 DEF Mentions

LEMMA MentionsTail ==
  ASSUME NEW q \in Seq(Packet), q # <<>>
  PROVE  /\ Tail(q) \in Seq(Packet) /\ Head(q) \in Packet
         /\ \A s, T : Mentions(Tail(q), s, T) => Mentions(q, s, T)
         /\ \A T : Head(q).type \in T => Mentions(q, Head(q).s, T)
         /\ \A s : Single(q, s) => Single(Tail(q), s)
         /\ \A s : /\ Single(q, s) /\ Head(q).s = s /\ Head(q).type = "INVITE"
                   => ~Mentions(Tail(q), s, {"INVITE"})
<1>1. /\ Head(q) \in Packet /\ Tail(q) \in Seq(Packet) /\ Len(Tail(q)) = Len(q) - 1
      /\ \A i \in 1..Len(Tail(q)) : Tail(q)[i] = q[i + 1]
  BY HeadTailProperties
<1>2. /\ Len(q) \in Nat \ {0} /\ DOMAIN q = 1..Len(q) /\ DOMAIN Tail(q) = 1..(Len(q) - 1)
      /\ Head(q) = q[1]
  BY <1>1, LenProperties, EmptySeq
<1>3. \A i \in DOMAIN Tail(q) : i + 1 \in DOMAIN q /\ i + 1 # 1 /\ Tail(q)[i] = q[i + 1]
  BY <1>1, <1>2
<1>4. 1 \in DOMAIN q /\ DOMAIN Tail(q) \subseteq Nat
  BY <1>2
<1>5. \A s, T : Mentions(Tail(q), s, T) => Mentions(q, s, T)
  BY <1>3 DEF Mentions
<1>6. \A T : Head(q).type \in T => Mentions(q, Head(q).s, T)
  BY <1>2, <1>4 DEF Mentions
<1>7. \A s : Single(q, s) => Single(Tail(q), s)
  BY <1>3, <1>4 DEF Single
<1>8. ASSUME NEW s, Single(q, s), Head(q).s = s, Head(q).type = "INVITE",
             Mentions(Tail(q), s, {"INVITE"})
      PROVE  FALSE
  <2>1. PICK i \in DOMAIN Tail(q) : Tail(q)[i].s = s /\ Tail(q)[i].type = "INVITE"
    BY <1>8 DEF Mentions
  <2> QED  BY <1>2, <1>3, <1>4, <1>8, <2>1 DEF Single
<1> QED  BY <1>1, <1>5, <1>6, <1>7, <1>8

LEMMA MentionsMore ==
  ASSUME NEW q, NEW s, NEW T, NEW S, T \subseteq S, Mentions(q, s, T)
  PROVE  Mentions(q, s, S)
BY DEF Mentions

LEMMA MentionsEmpty == \A s, T : ~Mentions(<<>>, s, T) /\ Single(<<>>, s)
BY EmptySeq, LenProperties DEF Mentions, Single

\* Whoever is worked for writes to the other party.
LEMMA RecipientIsOther ==
  ASSUME Roles, NEW u \in User, NEW s \in Session, Works(u, s, Type)
  PROVE  /\ u \in Party(s) /\ Recipient(u, srv[u].m) \in Party(s) \ {u}
         /\ Recipient(u, srv[u].m) \in User
         /\ \A v \in User : Works(v, s, Type) /\ Recipient(v, srv[v].m) = Recipient(u, srv[u].m) => v = u
<1>1. Caller[s] \in User /\ Callee[s] \in User /\ Caller[s] # Callee[s]
  BY CallAssumption
<1>2. ASSUME NEW w \in User, Works(w, s, Type)
      PROVE  w \in Party(s) /\ Recipient(w, srv[w].m) = Other(w, s)
  <2>1. CASE srv[w].m.type = "INVITE"
    BY <1>1, <1>2, <2>1 DEF Works, Roles, Recipient, Other, Party
  <2>2. CASE srv[w].m.type \in {"ACCEPT", "DECLINE"}
    BY <1>1, <1>2, <2>2 DEF Works, Roles, Recipient, Other, Party
  <2>3. CASE srv[w].m.type = "END"
    BY <1>1, <1>2, <2>3 DEF Works, Roles, Recipient, Other, Party
  <2> QED  BY <1>2, <2>1, <2>2, <2>3 DEF Works, Type
<1> QED  BY <1>1, <1>2 DEF Other, Party

-----------------------------------------------------------------------------
LEMMA CallInitInv == CallInit => CallInv
<1> SUFFICES ASSUME CallInit PROVE CallInv
  OBVIOUS
<1>1. \A u \in User, s \in Session : \A T :
        ~Asked(u, s, T) /\ ~Works(u, s, T) /\ ~Told(u, s, T) /\ ~Offered(u, s) /\ ~Engaged(u, s)
  <2> SUFFICES ASSUME NEW u \in User, NEW s \in Session, NEW T
               PROVE  ~Asked(u, s, T) /\ ~Works(u, s, T) /\ ~Told(u, s, T)
                      /\ ~Offered(u, s) /\ ~Engaged(u, s)
    OBVIOUS
  <2>1. up[u] = <<>> /\ said[u] = <<>> /\ srv[u].pc = "idle"
    BY DEF CallInit
  <2>2. client[u] = Fresh /\ \A k \in Routine : co[u][k] = Idle
    BY DEF CallInit
  <2>3. co[u]["rx"].pc = "idle" /\ co[u]["ui"].pc = "idle"
    BY <2>2 DEF Idle, Routine
  <2>4. client[u].active # s /\ client[u].pending = {}
    BY <2>2, CallAssumption DEF Fresh
  <2> QED  BY <2>1, <2>3, <2>4, MentionsEmpty DEF Asked, Works, Told, Offered, Engaged
<1>2. Caller \in [Session -> User] /\ Callee \in [Session -> User]
  BY CallAssumption
<1>3. Records
  <2>1. Fresh \in ClientRecord
    BY DEF Fresh, ClientRecord, Keys
  <2>2. Idle \in Local
    BY DEF Idle, Local
  <2>3. [phase |-> "none", key |-> NoKey] \in StreamRecord
    BY DEF StreamRecord, Keys
  <2> QED  BY <2>1, <2>2, <2>3 DEF CallInit, Records
<1>4. CallTypeOK
  <2>1. <<>> \in Seq(Packet) /\ Len(<<>>) = 0
    BY EmptySeq
  <2>2. /\ session \in [Session -> {"none", "pending", "active", "gone"}]
        /\ row \in [Session -> [status : {"none", "pending", "active", "ended"}, ended : BOOLEAN]]
        /\ srv \in [User -> [pc : {"idle"}, m : {<<>>}] \cup [pc : {"write", "forward"}, m : Packet]]
    BY DEF CallInit
  <2>3. /\ up \in [User -> Seq(Packet)] /\ said \in [User -> Seq(Packet)]
        /\ online \in [User -> BOOLEAN] /\ routed \in [User -> BOOLEAN]
        /\ \A u \in User : read[u] \in 0..Len(said[u])
    BY <2>1 DEF CallInit
  <2>4. \A u \in User :
          /\ client[u].active \in Session \cup {NoSession}
          /\ client[u].handle \in Session \cup {NoSession}
          /\ client[u].eph \in Ephemerals \cup {<<>>}
          /\ client[u].key \in Keys /\ client[u].pending \subseteq Session
          /\ \A s \in Session : /\ stream[u][s].phase \in {"none", "starting", "running", "stopped"}
                                /\ stream[u][s].key \in Keys
    BY <1>3 DEF Records, ClientRecord, StreamRecord
  <2>5. \A u \in User, k \in Routine : /\ (co[u][k].pc = "idle") = (co[u][k].s = NoSession)
                                       /\ (co[u][k].pc = "stop") = (co[u][k].was # NoSession)
    BY DEF CallInit, Idle
  <2>6. log \in [User -> [Session -> {"none", "ringing", "declined", "completed"}]]
        /\ begun \subseteq Session /\ hungup \subseteq User \X Session
    BY DEF CallInit
  <2> QED  BY <2>2, <2>3, <2>4, <2>5, <2>6 DEF CallTypeOK
<1>5. Roles /\ SaidOnce
  BY <1>1 DEF Roles, SaidOnce
<1>6. InviteOnce
  <2>1. \A s \in Session : up[Caller[s]] = <<>> /\ session[s] = "none"
    BY <1>2 DEF CallInit
  <2> QED  BY <1>1, <1>2, <2>1, MentionsEmpty DEF InviteOnce
<1>7. Stages
  BY <1>1 DEF Stages
<1>8. RowFirst /\ EndIsWritten
  <2>1. \A s \in Session : session[s] = "none"
    BY DEF CallInit
  <2> QED  BY <1>1, <1>2, <2>1 DEF RowFirst, EndIsWritten
<1>9. FarewellOnce /\ LastWord
  <2>1. \A u \in User, s \in Session : Places(u, s) = {} /\ Farewells(u, s) = {}
    BY EmptySeq, LenProperties DEF CallInit, Places, Farewells
  <2> QED  BY <2>1 DEF FarewellOnce, LastWord
<1> QED  BY <1>3, <1>4, <1>5, <1>6, <1>7, <1>8, <1>9 DEF CallInv

-----------------------------------------------------------------------------
\* The clients.  A step of u's client sends at most one packet, and what it sends
\* and holds of a session comes from what it held and was told of it before.

MaySend(u, t, s) ==
  /\ t = "INVITE" => u = Caller[s] /\ s \notin begun /\ s \in begun'
  /\ t \in {"ACCEPT", "DECLINE"} => Offered(u, s)
  /\ t = "END" => Engaged(u, s)

LEMMA ClientStep ==
  ASSUME CallInv, NEW u \in User, CallTypeOK', Records',
         UNCHANGED <<session, row, srv, said>>, begun \subseteq begun',
         \A v \in User \ {u} : client'[v] = client[v] /\ co'[v] = co[v] /\ up'[v] = up[v],
         \A s \in Session : Offered(u, s)' => Offered(u, s) \/ Told(u, s, {"INVITE"}),
         \A s \in Session : Engaged(u, s)' => Engaged(u, s) \/ Offered(u, s) \/ u = Caller[s],
         up'[u] = up[u] \/ up'[u] = <<>>
           \/ \E m \in Packet : MaySend(u, m.type, m.s) /\ up'[u] = Append(up[u], m)
  PROVE  CallInv'
<1> USE DEF CallInv
<1>1. Caller \in [Session -> User] /\ Callee \in [Session -> User]
      /\ \A s \in Session : Caller[s] # Callee[s]
  BY CallAssumption
<1>2. up[u] \in Seq(Packet)
  BY DEF CallTypeOK
<1>3. \A v \in User, s \in Session : \A T :
        (Works(v, s, T)' <=> Works(v, s, T)) /\ (Told(v, s, T)' <=> Told(v, s, T))
  BY DEF Works, Told
<1>4. ASSUME NEW v \in User, NEW s \in Session, NEW T, Asked(v, s, T)'
      PROVE  \/ Asked(v, s, T)
             \/ v = u /\ \E t \in T : MaySend(u, t, s)
  <2>1. CASE v # u
    <3>1. up'[v] = up[v]
      BY <2>1
    <3> QED  BY <1>4, <3>1 DEF Asked
  <2>2. CASE v = u /\ up'[u] = up[u]
    BY <1>4, <2>2 DEF Asked
  <2>3. CASE v = u /\ up'[u] = <<>>
    BY <1>4, <2>3, MentionsEmpty DEF Asked
  <2>4. ASSUME v = u, NEW m \in Packet, MaySend(u, m.type, m.s), up'[u] = Append(up[u], m)
        PROVE  Asked(v, s, T) \/ \E t \in T : MaySend(u, t, s)
    <3>1. Asked(v, s, T) \/ (m.s = s /\ m.type \in T)
      BY <1>2, <1>4, <2>4, MentionsAppend DEF Asked
    <3>2. CASE m.s = s /\ m.type \in T
      <4>1. MaySend(u, m.type, s)
        BY <2>4, <3>2
      <4> QED  BY <3>2, <4>1
    <3> QED  BY <3>1, <3>2
  <2> QED  BY <2>1, <2>2, <2>3, <2>4
<1>5. ASSUME NEW v \in User, NEW s \in Session
      PROVE  /\ Offered(v, s)' => Offered(v, s) \/ Told(v, s, {"INVITE"})
             /\ Engaged(v, s)' => Engaged(v, s) \/ Offered(v, s) \/ v = Caller[s]
  BY <1>5 DEF Offered, Engaged
<1>6. Roles'
  <2> SUFFICES ASSUME NEW v \in User, NEW s \in Session
               PROVE  (/\ Asked(v, s, {"INVITE"}) \/ Works(v, s, {"INVITE"}) => v = Caller[s]
                       /\ Asked(v, s, {"ACCEPT", "DECLINE"}) \/ Works(v, s, {"ACCEPT", "DECLINE"})
                            => v = Callee[s]
                       /\ Asked(v, s, {"END"}) \/ Works(v, s, {"END"}) => v \in Party(s)
                       /\ Told(v, s, {"INVITE"}) => v = Callee[s]
                       /\ Offered(v, s) => v = Callee[s]
                       /\ Engaged(v, s) => v \in Party(s))'
    BY DEF Roles
  <2>1. Offered(v, s)' => v = Callee[s]
    BY <1>5 DEF Roles
  <2>2. Engaged(v, s)' => v \in Party(s)
    BY <1>5 DEF Roles, Party
  <2>3. Asked(v, s, {"INVITE"})' => v = Caller[s]
    BY <1>4 DEF Roles, MaySend
  <2>4. Asked(v, s, {"ACCEPT", "DECLINE"})' => v = Callee[s]
    <3>1. ASSUME NEW t \in {"ACCEPT", "DECLINE"}, MaySend(u, t, s)
          PROVE  u = Callee[s]
      BY <3>1 DEF Roles, MaySend
    <3>2. Asked(v, s, {"ACCEPT", "DECLINE"})' =>
            \/ Asked(v, s, {"ACCEPT", "DECLINE"})
            \/ v = u /\ \E t \in {"ACCEPT", "DECLINE"} : MaySend(u, t, s)
      BY <1>4
    <3> QED  BY <3>1, <3>2 DEF Roles
  <2>5. Asked(v, s, {"END"})' => v \in Party(s)
    <3>1. ASSUME MaySend(u, "END", s)
          PROVE  u \in Party(s)
      BY <3>1 DEF Roles, MaySend
    <3>2. Asked(v, s, {"END"})' =>
            \/ Asked(v, s, {"END"})
            \/ v = u /\ \E t \in {"END"} : MaySend(u, t, s)
      BY <1>4
    <3> QED  BY <3>1, <3>2 DEF Roles
  <2>6. /\ Works(v, s, {"INVITE"})' => v = Caller[s]
        /\ Works(v, s, {"ACCEPT", "DECLINE"})' => v = Callee[s]
        /\ Works(v, s, {"END"})' => v \in Party(s)
        /\ Told(v, s, {"INVITE"})' => v = Callee[s]
    BY <1>3 DEF Roles
  <2> QED  BY <2>1, <2>2, <2>3, <2>4, <2>5, <2>6 DEF Party
<1>7. InviteOnce'
  <2> SUFFICES ASSUME NEW s \in Session
               PROVE  (/\ s \notin begun => ~Asked(Caller[s], s, {"INVITE"})
                       /\ s \notin begun \/ Asked(Caller[s], s, {"INVITE"}) =>
                            session[s] = "none" /\ \A v \in User : ~Told(v, s, Type)
                       /\ Single(up[Caller[s]], s))'
    BY DEF InviteOnce
  <2> DEFINE p == Caller[s]
  <2>1. Asked(p, s, {"INVITE"})' => Asked(p, s, {"INVITE"}) \/ (s \notin begun /\ s \in begun')
    BY <1>1, <1>4 DEF MaySend
  <2>2. s \notin begun' => s \notin begun
    OBVIOUS
  <2>3. Single(up'[p], s)
    <3>1. CASE p # u \/ up'[u] = up[u]
      <4>1. up'[p] = up[p]
        BY <1>1, <3>1
      <4> QED  BY <4>1 DEF InviteOnce
    <3>2. CASE p = u /\ up'[u] = <<>>
      BY <3>2, MentionsEmpty
    <3>3. ASSUME p = u, NEW m \in Packet, MaySend(u, m.type, m.s), up'[u] = Append(up[u], m)
          PROVE  Single(up'[p], s)
      <4>1. CASE m.type = "INVITE" /\ m.s = s
        <5>1. ~Mentions(up[u], s, {"INVITE"})
          BY <3>3, <4>1 DEF MaySend, InviteOnce, Asked
        <5> QED  BY <1>2, <3>3, <5>1, MentionsAppend DEF Single, Mentions
      <4>2. CASE ~(m.type = "INVITE" /\ m.s = s)
        <5>1. Single(up[u], s)
          BY <3>3 DEF InviteOnce
        <5> QED  BY <1>2, <3>3, <4>2, <5>1, MentionsAppend DEF Single
      <4> QED  BY <4>1, <4>2
    <3> QED  BY <1>1, <3>1, <3>2, <3>3
  <2> QED  BY <1>3, <2>1, <2>2, <2>3 DEF InviteOnce
<1>8. Stages' /\ EndIsWritten'
  BY <1>3 DEF Stages, EndIsWritten
<1>9. SaidOnce'
  BY DEF SaidOnce, Works, Told, Recipient, Other
<1>10. FarewellOnce' /\ LastWord'
  BY DEF FarewellOnce, LastWord, Farewells, Places
<1>11. RowFirst'
  <2> SUFFICES ASSUME NEW s \in Session
               PROVE  (/\ session[s] # "none" /\ row[s].status = "none" =>
                            srv[Caller[s]].pc = "write" /\ Works(Caller[s], s, {"INVITE"})
                       /\ \/ Asked(Callee[s], s, Type) \/ Works(Callee[s], s, Type)
                          \/ Told(Callee[s], s, Type) \/ Offered(Callee[s], s)
                          \/ Engaged(Callee[s], s)
                          => session[s] # "none" /\ row[s].status # "none")'
    BY DEF RowFirst
  <2> DEFINE q == Callee[s]
  <2>1. Told(q, s, {"INVITE"}) => Told(q, s, Type)
    BY MentionsMore DEF Told, Type
  <2>2. Offered(q, s)' => Offered(q, s) \/ Told(q, s, Type)
    BY <1>1, <1>5, <2>1
  <2>3. Engaged(q, s)' => Engaged(q, s) \/ Offered(q, s)
    BY <1>1, <1>5
  <2>4. Asked(q, s, Type)' => Asked(q, s, Type) \/ Offered(q, s) \/ Engaged(q, s)
    <3>1. ASSUME NEW t \in Type, q = u, MaySend(u, t, s)
          PROVE  Offered(q, s) \/ Engaged(q, s)
      BY <1>1, <3>1 DEF MaySend, Type
    <3> QED  BY <1>1, <1>4, <3>1
  <2> QED  BY <1>1, <1>3, <2>2, <2>3, <2>4 DEF RowFirst
<1> QED  BY <1>6, <1>7, <1>8, <1>9, <1>10, <1>11

\* The locals of a coroutine, as CallTypeOK has them.
LocalOK(r) == /\ r \in Local
              /\ (r.pc = "idle") = (r.s = NoSession) /\ (r.pc = "stop") = (r.was # NoSession)

LEMMA LocalsAreOK ==
  /\ LocalOK(Idle) /\ Idle.pc = "idle"
  /\ \A s \in Session : \A pc \in {"save", "start", "close", "declined"} :
       LocalOK(At(pc, s)) /\ At(pc, s).pc = pc /\ At(pc, s).s = s
  /\ \A s, was \in Session :
       LocalOK(Stopping(s, was)) /\ Stopping(s, was).pc = "stop" /\ Stopping(s, was).s = s
BY CallAssumption DEF LocalOK, Local, Idle, At, Stopping

LEMMA GoTypes ==
  ASSUME CallInv, NEW u \in User, NEW k \in Routine, NEW r, LocalOK(r), Go(u, k, r)
  PROVE  /\ co' \in [User -> [Routine -> Local]]
         /\ \A v \in User, j \in Routine : LocalOK(co'[v][j])
         /\ \A v \in User : v # u => co'[v] = co[v]
         /\ co'[u][k] = r /\ \A j \in Routine : j # k => co'[u][j] = co[u][j]
<1>1. co' = [co EXCEPT ![u][k] = r]
  BY DEF Go
<1>2. co \in [User -> [Routine -> Local]] /\ \A v \in User, j \in Routine : LocalOK(co[v][j])
  BY DEF CallInv, Records, CallTypeOK, LocalOK
<1> QED  BY <1>1, <1>2 DEF LocalOK

LEMMA SendTypes ==
  ASSUME CallInv, NEW u \in User, NEW t \in Type, NEW s \in Session, Send(u, t, s)
  PROVE  /\ up' \in [User -> Seq(Packet)] /\ \A v \in User : v # u => up'[v] = up[v]
         /\ UNCHANGED <<online, routed, said, read>>
         /\ \/ up'[u] = up[u]
            \/ \E m \in Packet : m.type = t /\ m.s = s /\ up'[u] = Append(up[u], m)
<1>1. up \in [User -> Seq(Packet)] /\ Msg(t, s) \in Packet /\ Msg(t, s).type = t /\ Msg(t, s).s = s
  BY DEF CallInv, CallTypeOK, Msg, Packet
<1>2. Append(up[u], Msg(t, s)) \in Seq(Packet)
  BY <1>1, MentionsAppend
<1>3. UNCHANGED <<online, routed, said, read>>
  BY DEF Send
<1>4. up' = IF online[u] THEN [up EXCEPT ![u] = Append(up[u], Msg(t, s))] ELSE up
  BY <1>1 DEF Send
<1> QED  BY <1>1, <1>2, <1>3, <1>4

LEMMA ClientTypes ==
  ASSUME CallInv, Records', UNCHANGED <<session, row, srv, said, routed>>,
         online' \in [User -> BOOLEAN], up' \in [User -> Seq(Packet)],
         \A u \in User : read'[u] \in 0..Len(said[u]),
         \A u \in User, k \in Routine : LocalOK(co'[u][k]),
         log' \in [User -> [Session -> {"none", "ringing", "declined", "completed"}]],
         begun' \subseteq Session, hungup' \subseteq User \X Session
  PROVE  CallTypeOK'
<1>1. \A u \in User :
        /\ client'[u].active \in Session \cup {NoSession}
        /\ client'[u].handle \in Session \cup {NoSession}
        /\ client'[u].eph \in Ephemerals \cup {<<>>}
        /\ client'[u].key \in Keys /\ client'[u].pending \subseteq Session
        /\ \A s \in Session : /\ stream'[u][s].phase \in {"none", "starting", "running", "stopped"}
                              /\ stream'[u][s].key \in Keys
  BY DEF Records, ClientRecord, StreamRecord
<1>2. \A u \in User, k \in Routine : /\ (co'[u][k].pc = "idle") = (co'[u][k].s = NoSession)
                                     /\ (co'[u][k].pc = "stop") = (co'[u][k].was # NoSession)
  BY DEF LocalOK
<1>3. /\ session' \in [Session -> {"none", "pending", "active", "gone"}]
      /\ row' \in [Session -> [status : {"none", "pending", "active", "ended"}, ended : BOOLEAN]]
      /\ srv' \in [User -> [pc : {"idle"}, m : {<<>>}] \cup [pc : {"write", "forward"}, m : Packet]]
      /\ said' \in [User -> Seq(Packet)] /\ routed' \in [User -> BOOLEAN]
      /\ \A u \in User : read'[u] \in 0..Len(said'[u])
  BY DEF CallInv, CallTypeOK
<1> QED  BY <1>1, <1>2, <1>3 DEF CallTypeOK

\* The parts of the client's types that a step leaves alone.
LEMMA OldTypes ==
  ASSUME CallInv
  PROVE  /\ client \in [User -> ClientRecord] /\ stream \in [User -> [Session -> StreamRecord]]
         /\ co \in [User -> [Routine -> Local]] /\ read \in [User -> Nat]
         /\ \A u \in User, k \in Routine : LocalOK(co[u][k])
         /\ up \in [User -> Seq(Packet)] /\ said \in [User -> Seq(Packet)]
         /\ online \in [User -> BOOLEAN] /\ \A u \in User : read[u] \in 0..Len(said[u])
         /\ log \in [User -> [Session -> {"none", "ringing", "declined", "completed"}]]
         /\ begun \subseteq Session /\ hungup \subseteq User \X Session
BY DEF CallInv, Records, CallTypeOK, LocalOK

LEMMA InviteInv ==
  ASSUME CallInv, NEW u \in User, NEW s \in Session, Invite(u, s)
  PROVE  CallInv'
<1>1. /\ Caller[s] = u /\ s \notin begun /\ begun' = begun \cup {s}
      /\ client' = [client EXCEPT ![u].eph = <<u, s>>, ![u].active = s]
      /\ Send(u, "INVITE", s) /\ Go(u, "ui", At("save", s))
      /\ UNCHANGED <<session, row, srv, stream, log, hungup>>
  BY DEF Invite, server
<1>2. /\ co' \in [User -> [Routine -> Local]] /\ \A v \in User, j \in Routine : LocalOK(co'[v][j])
      /\ \A v \in User : v # u => co'[v] = co[v]
      /\ co'[u]["ui"].pc = "save" /\ co'[u]["rx"] = co[u]["rx"]
  BY <1>1, LocalsAreOK, GoTypes DEF Routine
<1>3. /\ up' \in [User -> Seq(Packet)] /\ \A v \in User : v # u => up'[v] = up[v]
      /\ UNCHANGED <<online, routed, said, read>>
      /\ \/ up'[u] = up[u]
         \/ \E m \in Packet : m.type = "INVITE" /\ m.s = s /\ up'[u] = Append(up[u], m)
  BY <1>1, SendTypes DEF Type
<1>4. /\ client' \in [User -> ClientRecord] /\ \A v \in User : v # u => client'[v] = client[v]
      /\ client'[u].active = s /\ client'[u].pending = client[u].pending
  <2> DEFINE n == [client[u] EXCEPT !.eph = <<u, s>>, !.active = s]
  <2>1. <<u, s>> \in Ephemerals /\ client \in [User -> ClientRecord]
    BY OldTypes DEF Ephemerals
  <2>2. n \in ClientRecord /\ n.active = s /\ n.pending = client[u].pending
    BY <2>1 DEF ClientRecord
  <2>3. client' = [client EXCEPT ![u] = n]
    BY <1>1, <2>1
  <2> QED  BY <2>1, <2>2, <2>3
<1>5. Records' /\ CallTypeOK'
  <2>1. Records'
    BY <1>1, <1>2, <1>3, <1>4, OldTypes DEF Records
  <2> QED  BY <1>1, <1>2, <1>3, <2>1, OldTypes, ClientTypes
<1>6. \A z \in Session : Offered(u, z)' => Offered(u, z)
  BY <1>2, <1>4 DEF Offered
<1>7. \A z \in Session : Engaged(u, z)' => u = Caller[z]
  BY <1>1, <1>2, <1>4 DEF Engaged
<1>8. \/ up'[u] = up[u]
      \/ \E m \in Packet : MaySend(u, m.type, m.s) /\ up'[u] = Append(up[u], m)
  BY <1>1, <1>3 DEF MaySend
<1> QED  BY <1>1, <1>2, <1>3, <1>4, <1>5, <1>6, <1>7, <1>8, ClientStep

LEMMA KeyTypes ==
  ASSUME NEW mine \in Ephemerals, NEW theirs \in Ephemerals, NEW s \in Session
  PROVE  Key(mine, theirs, s) \in Keys
<1>1. {mine, theirs} \in SUBSET Ephemerals
  OBVIOUS
<1> QED  BY <1>1 DEF Key, Keys

LEMMA StartStreamTypes ==
  ASSUME CallInv, NEW u \in User, NEW s \in Session, NEW key \in Keys, StartStream(u, s, key)
  PROVE  stream' \in [User -> [Session -> StreamRecord]]
<1>1. [phase |-> "starting", key |-> key] \in StreamRecord
  BY DEF StreamRecord
<1> QED  BY <1>1, OldTypes DEF StartStream

LEMMA AcceptInv ==
  ASSUME CallInv, NEW u \in User, NEW s \in Session, Accept(u, s)
  PROVE  CallInv'
<1> DEFINE key == Key(<<u, s>>, <<Caller[s], s>>, s)
<1>1. /\ s \in client[u].pending
      /\ client' = [client EXCEPT ![u].key = key, ![u].eph = <<u, s>>,
                                  ![u].active = s, ![u].handle = s]
      /\ StartStream(u, s, key)
      /\ Send(u, "ACCEPT", s) /\ Go(u, "ui", At("start", s))
      /\ UNCHANGED <<session, row, srv, log, begun, hungup>>
  BY DEF Accept, server
<1>2. /\ co' \in [User -> [Routine -> Local]] /\ \A v \in User, j \in Routine : LocalOK(co'[v][j])
      /\ \A v \in User : v # u => co'[v] = co[v]
      /\ co'[u]["ui"].pc = "start" /\ co'[u]["rx"] = co[u]["rx"]
  BY <1>1, LocalsAreOK, GoTypes DEF Routine
<1>3. /\ up' \in [User -> Seq(Packet)] /\ \A v \in User : v # u => up'[v] = up[v]
      /\ UNCHANGED <<online, routed, said, read>>
      /\ \/ up'[u] = up[u]
         \/ \E m \in Packet : m.type = "ACCEPT" /\ m.s = s /\ up'[u] = Append(up[u], m)
  BY <1>1, SendTypes DEF Type
<1>4. <<u, s>> \in Ephemerals /\ <<Caller[s], s>> \in Ephemerals /\ key \in Keys
  <2>1. <<u, s>> \in Ephemerals /\ <<Caller[s], s>> \in Ephemerals
    BY CallAssumption DEF Ephemerals
  <2> QED  BY <2>1, KeyTypes
<1>5. /\ client' \in [User -> ClientRecord] /\ \A v \in User : v # u => client'[v] = client[v]
      /\ client'[u].active = s /\ client'[u].pending = client[u].pending
  <2> DEFINE n == [client[u] EXCEPT !.key = key, !.eph = <<u, s>>, !.active = s, !.handle = s]
  <2>1. client \in [User -> ClientRecord]
    BY OldTypes
  <2>2. n \in ClientRecord /\ n.active = s /\ n.pending = client[u].pending
    BY <1>4, <2>1 DEF ClientRecord
  <2>3. client' = [client EXCEPT ![u] = n]
    BY <1>1, <2>1
  <2> QED  BY <2>1, <2>2, <2>3
<1>6. Records' /\ CallTypeOK'
  <2>1. Records'
    BY <1>1, <1>2, <1>3, <1>4, <1>5, OldTypes, StartStreamTypes DEF Records
  <2> QED  BY <1>1, <1>2, <1>3, <2>1, OldTypes, ClientTypes
<1>7. \A z \in Session : Offered(u, z)' => Offered(u, z)
  BY <1>2, <1>5 DEF Offered
<1>8. \A z \in Session : Engaged(u, z)' => Offered(u, z)
  BY <1>1, <1>2, <1>5 DEF Engaged, Offered
<1>9. \/ up'[u] = up[u]
      \/ \E m \in Packet : MaySend(u, m.type, m.s) /\ up'[u] = Append(up[u], m)
  BY <1>1, <1>3 DEF MaySend, Offered
<1> QED  BY <1>1, <1>2, <1>3, <1>5, <1>6, <1>7, <1>8, <1>9, ClientStep

LEMMA DeclineInv ==
  ASSUME CallInv, NEW u \in User, NEW s \in Session, Decline(u, s)
  PROVE  CallInv'
<1>1. /\ s \in client[u].pending
      /\ client' = [client EXCEPT ![u].pending = @ \ {s}]
      /\ Send(u, "DECLINE", s)
      /\ UNCHANGED <<session, row, srv, stream, co, log, begun, hungup>>
  BY DEF Decline, server
<1>2. /\ up' \in [User -> Seq(Packet)] /\ \A v \in User : v # u => up'[v] = up[v]
      /\ UNCHANGED <<online, routed, said, read>>
      /\ \/ up'[u] = up[u]
         \/ \E m \in Packet : m.type = "DECLINE" /\ m.s = s /\ up'[u] = Append(up[u], m)
  BY <1>1, SendTypes DEF Type
<1>3. /\ client' \in [User -> ClientRecord] /\ \A v \in User : v # u => client'[v] = client[v]
      /\ client'[u].active = client[u].active /\ client'[u].pending \subseteq client[u].pending
  <2> DEFINE n == [client[u] EXCEPT !.pending = client[u].pending \ {s}]
  <2>1. client \in [User -> ClientRecord]
    BY OldTypes
  <2>2. n \in ClientRecord /\ n.active = client[u].active /\ n.pending \subseteq client[u].pending
    BY <2>1 DEF ClientRecord
  <2>3. client' = [client EXCEPT ![u] = n]
    BY <1>1, <2>1
  <2> QED  BY <2>1, <2>2, <2>3
<1>4. Records' /\ CallTypeOK'
  <2>1. Records'
    BY <1>1, <1>2, <1>3, OldTypes DEF Records
  <2> QED  BY <1>1, <1>2, <2>1, OldTypes, ClientTypes
<1>5. \A z \in Session : (Offered(u, z)' => Offered(u, z)) /\ (Engaged(u, z)' => Engaged(u, z))
  BY <1>1, <1>3 DEF Offered, Engaged
<1>6. \/ up'[u] = up[u]
      \/ \E m \in Packet : MaySend(u, m.type, m.s) /\ up'[u] = Append(up[u], m)
  BY <1>1, <1>2 DEF MaySend, Offered
<1> QED  BY <1>1, <1>2, <1>3, <1>4, <1>5, <1>6, ClientStep

\* _stop_audio_stream, as far as its await.
LEMMA HangTypes ==
  ASSUME CallInv, NEW u \in User, NEW k \in Routine, NEW s \in Session, Hang(u, k, s)
  PROVE  /\ co' \in [User -> [Routine -> Local]]
         /\ \A v \in User, j \in Routine : LocalOK(co'[v][j])
         /\ \A v \in User : v # u => co'[v] = co[v]
         /\ co'[u][k].pc \in {"stop", "close"} /\ co'[u][k].s = s
         /\ \A j \in Routine : j # k => co'[u][j] = co[u][j]
         /\ client' \in [User -> ClientRecord] /\ \A v \in User : v # u => client'[v] = client[v]
         /\ client'[u].active = client[u].active /\ client'[u].pending = client[u].pending
         /\ UNCHANGED <<session, row, srv, stream, log, begun, hungup>>
<1>1. UNCHANGED <<session, row, srv, stream, log, begun, hungup>>
  BY DEF Hang, server
<1>2. client \in [User -> ClientRecord]
  BY OldTypes
<1>3. CASE Suspends(u)
  <2>1. client[u].handle \in Session
    BY <1>2, <1>3 DEF Suspends, ClientRecord
  <2>2. client' = client /\ Go(u, k, Stopping(s, client[u].handle))
    BY <1>3 DEF Hang
  <2> QED  BY <1>1, <1>2, <2>1, <2>2, LocalsAreOK, GoTypes
<1>4. CASE ~Suspends(u)
  <2> DEFINE n == [client[u] EXCEPT !.handle = NoSession]
  <2>1. client' = [client EXCEPT ![u].handle = NoSession] /\ Go(u, k, At("close", s))
    BY <1>4 DEF Hang
  <2>2. n \in ClientRecord /\ n.active = client[u].active /\ n.pending = client[u].pending
    BY <1>2 DEF ClientRecord
  <2>3. client' = [client EXCEPT ![u] = n]
    BY <1>2, <2>1
  <2>4. /\ client' \in [User -> ClientRecord] /\ \A v \in User : v # u => client'[v] = client[v]
        /\ client'[u].active = client[u].active /\ client'[u].pending = client[u].pending
    BY <1>2, <2>2, <2>3
  <2> QED  BY <1>1, <2>1, <2>4, LocalsAreOK, GoTypes
<1> QED  BY <1>3, <1>4

LEMMA EndInv ==
  ASSUME CallInv, NEW u \in User, End(u)
  PROVE  CallInv'
<1> DEFINE s == client[u].active
<1>1. s \in Session /\ Hang(u, "ui", s)
      /\ IF Suspends(u) THEN UNCHANGED network ELSE Send(u, "END", s)
  BY OldTypes DEF End, ClientRecord
<1>2. /\ co' \in [User -> [Routine -> Local]]
      /\ \A v \in User, j \in Routine : LocalOK(co'[v][j])
      /\ \A v \in User : v # u => co'[v] = co[v]
      /\ co'[u]["ui"].s = s /\ co'[u]["rx"] = co[u]["rx"]
      /\ client' \in [User -> ClientRecord] /\ \A v \in User : v # u => client'[v] = client[v]
      /\ client'[u].active = client[u].active /\ client'[u].pending = client[u].pending
      /\ UNCHANGED <<session, row, srv, stream, log, begun, hungup>>
  BY <1>1, HangTypes DEF Routine
<1>3. /\ up' \in [User -> Seq(Packet)] /\ \A v \in User : v # u => up'[v] = up[v]
      /\ UNCHANGED <<online, routed, said, read>>
      /\ \/ up'[u] = up[u]
         \/ \E m \in Packet : m.type = "END" /\ m.s = s /\ up'[u] = Append(up[u], m)
  <2>1. CASE Suspends(u)
    BY <1>1, <2>1, OldTypes DEF network
  <2>2. CASE ~Suspends(u)
    BY <1>1, <2>2, SendTypes DEF Type
  <2> QED  BY <2>1, <2>2
<1>4. Records' /\ CallTypeOK'
  <2>1. Records'
    BY <1>2, <1>3, OldTypes DEF Records
  <2> QED  BY <1>2, <1>3, <2>1, OldTypes, ClientTypes
<1>5. \A z \in Session : (Offered(u, z)' => Offered(u, z)) /\ (Engaged(u, z)' => Engaged(u, z))
  BY <1>2 DEF Offered, Engaged
<1>6. \/ up'[u] = up[u]
      \/ \E m \in Packet : MaySend(u, m.type, m.s) /\ up'[u] = Append(up[u], m)
  BY <1>1, <1>3 DEF MaySend, Engaged
<1> QED  BY <1>2, <1>3, <1>4, <1>5, <1>6, ClientStep

\* What a coroutine is at, when it is at something.
LEMMA LocalSession ==
  ASSUME CallInv, NEW u \in User, NEW k \in Routine, co[u][k].pc # "idle"
  PROVE  /\ co[u][k].s \in Session
         /\ co[u][k].pc = "stop" => co[u][k].was \in Session
BY OldTypes DEF LocalOK, Local

LEMMA SaveInv ==
  ASSUME CallInv, NEW u \in User, NEW k \in Routine, Save(u, k)
  PROVE  CallInv'
<1> DEFINE s == co[u][k].s
<1>1. /\ co[u][k].pc = "save"
      /\ log' = [log EXCEPT ![u][s] = IF @ = "none" THEN "ringing" ELSE @]
      /\ client' = IF k = "ui" THEN client ELSE [client EXCEPT ![u].pending = @ \cup {s}]
      /\ Go(u, k, Idle)
      /\ UNCHANGED <<session, row, srv, up, online, routed, said, read, stream, begun, hungup>>
  BY DEF Save, server, network
<1>2. s \in Session /\ client \in [User -> ClientRecord]
  BY <1>1, LocalSession, OldTypes
<1>3. /\ co' \in [User -> [Routine -> Local]] /\ \A v \in User, j \in Routine : LocalOK(co'[v][j])
      /\ \A v \in User : v # u => co'[v] = co[v]
      /\ co'[u][k].pc = "idle" /\ \A j \in Routine : j # k => co'[u][j] = co[u][j]
  BY <1>1, LocalsAreOK, GoTypes
<1>4. /\ client' \in [User -> ClientRecord] /\ \A v \in User : v # u => client'[v] = client[v]
      /\ client'[u].active = client[u].active
      /\ \/ client'[u].pending = client[u].pending
         \/ k = "rx" /\ client'[u].pending = client[u].pending \cup {s}
  <2> DEFINE n == [client[u] EXCEPT !.pending = client[u].pending \cup {s}]
  <2>1. /\ n \in ClientRecord /\ n.active = client[u].active
        /\ n.pending = client[u].pending \cup {s}
    BY <1>2 DEF ClientRecord
  <2>2. client' = client \/ (k = "rx" /\ client' = [client EXCEPT ![u] = n])
    BY <1>1, <1>2 DEF Routine
  <2> QED  BY <1>2, <2>1, <2>2
<1>5. log' \in [User -> [Session -> {"none", "ringing", "declined", "completed"}]]
  <2>1. log \in [User -> [Session -> {"none", "ringing", "declined", "completed"}]]
    BY OldTypes
  <2> QED  BY <1>1, <1>2, <2>1
<1>6. Records' /\ CallTypeOK'
  <2>1. Records'
    BY <1>1, <1>3, <1>4, OldTypes DEF Records
  <2> QED  BY <1>1, <1>3, <1>5, <2>1, OldTypes, ClientTypes
<1>7. "ui" \in Routine /\ "rx" \in Routine
  BY DEF Routine
<1>8. \A z \in Session : (Offered(u, z)' => Offered(u, z)) /\ (Engaged(u, z)' => Engaged(u, z))
  BY <1>1, <1>3, <1>4, <1>7 DEF Offered, Engaged
<1> QED  BY <1>1, <1>3, <1>4, <1>6, <1>8, ClientStep

LEMMA StartedInv ==
  ASSUME CallInv, NEW u \in User, NEW k \in Routine, Started(u, k)
  PROVE  CallInv'
<1> DEFINE s == co[u][k].s
<1>1. PICK ok \in BOOLEAN :
        /\ stream' = [stream EXCEPT ![u][s].phase = IF ok THEN "running" ELSE "none"]
        /\ client' = [client EXCEPT ![u].handle = IF ok THEN @ ELSE NoSession,
                                    ![u].pending = IF k = "ui" THEN @ \ {s} ELSE @]
  BY DEF Started
<1>2. /\ co[u][k].pc = "start" /\ Go(u, k, Idle)
      /\ UNCHANGED <<session, row, srv, up, online, routed, said, read, log, begun, hungup>>
  BY DEF Started, server, network
<1>3. /\ s \in Session /\ client \in [User -> ClientRecord]
      /\ stream \in [User -> [Session -> StreamRecord]]
  BY <1>2, LocalSession, OldTypes
<1>4. /\ co' \in [User -> [Routine -> Local]] /\ \A v \in User, j \in Routine : LocalOK(co'[v][j])
      /\ \A v \in User : v # u => co'[v] = co[v]
      /\ co'[u][k].pc = "idle" /\ \A j \in Routine : j # k => co'[u][j] = co[u][j]
  BY <1>2, LocalsAreOK, GoTypes
<1>5. /\ client' \in [User -> ClientRecord] /\ \A v \in User : v # u => client'[v] = client[v]
      /\ client'[u].active = client[u].active /\ client'[u].pending \subseteq client[u].pending
  <2> DEFINE n == [client[u] EXCEPT !.handle = IF ok THEN client[u].handle ELSE NoSession,
                                    !.pending = IF k = "ui" THEN client[u].pending \ {s}
                                                ELSE client[u].pending]
  <2>1. n \in ClientRecord /\ n.active = client[u].active /\ n.pending \subseteq client[u].pending
    BY <1>3 DEF ClientRecord
  <2>2. client' = [client EXCEPT ![u] = n]
    BY <1>1, <1>3
  <2> QED  BY <1>3, <2>1, <2>2
<1>6. stream' \in [User -> [Session -> StreamRecord]]
  <2> DEFINE n == [stream[u][s] EXCEPT !.phase = IF ok THEN "running" ELSE "none"]
  <2>1. n \in StreamRecord
    BY <1>3 DEF StreamRecord
  <2>2. stream' = [stream EXCEPT ![u][s] = n]
    BY <1>1, <1>3
  <2> QED  BY <1>3, <2>1, <2>2
<1>7. Records' /\ CallTypeOK'
  <2>1. Records'
    BY <1>2, <1>4, <1>5, <1>6, OldTypes DEF Records
  <2> QED  BY <1>2, <1>4, <2>1, OldTypes, ClientTypes
<1>8. "ui" \in Routine /\ "rx" \in Routine
  BY DEF Routine
<1>9. \A z \in Session : (Offered(u, z)' => Offered(u, z)) /\ (Engaged(u, z)' => Engaged(u, z))
  BY <1>4, <1>5, <1>8 DEF Offered, Engaged
<1> QED  BY <1>2, <1>4, <1>5, <1>7, <1>9, ClientStep

LEMMA StoppedInv ==
  ASSUME CallInv, NEW u \in User, NEW k \in Routine, Stopped(u, k)
  PROVE  CallInv'
<1> DEFINE s == co[u][k].s
           was == co[u][k].was
<1>1. /\ co[u][k].pc = "stop"
      /\ stream' = [stream EXCEPT ![u][was].phase = IF @ = "running" THEN "stopped" ELSE @]
      /\ client' = [client EXCEPT ![u].handle = NoSession]
      /\ Go(u, k, At("close", s))
      /\ IF k = "ui" THEN Send(u, "END", s) ELSE UNCHANGED network
      /\ UNCHANGED <<session, row, srv, log, begun, hungup>>
  BY DEF Stopped, server
<1>2. /\ s \in Session /\ was \in Session /\ client \in [User -> ClientRecord]
      /\ stream \in [User -> [Session -> StreamRecord]]
  BY <1>1, LocalSession, OldTypes
<1>3. /\ co' \in [User -> [Routine -> Local]] /\ \A v \in User, j \in Routine : LocalOK(co'[v][j])
      /\ \A v \in User : v # u => co'[v] = co[v]
      /\ co'[u][k].pc = "close" /\ \A j \in Routine : j # k => co'[u][j] = co[u][j]
  BY <1>1, <1>2, LocalsAreOK, GoTypes
<1>4. /\ client' \in [User -> ClientRecord] /\ \A v \in User : v # u => client'[v] = client[v]
      /\ client'[u].active = client[u].active /\ client'[u].pending = client[u].pending
  <2> DEFINE n == [client[u] EXCEPT !.handle = NoSession]
  <2>1. n \in ClientRecord /\ n.active = client[u].active /\ n.pending = client[u].pending
    BY <1>2 DEF ClientRecord
  <2>2. client' = [client EXCEPT ![u] = n]
    BY <1>1, <1>2
  <2> QED  BY <1>2, <2>1, <2>2
<1>5. stream' \in [User -> [Session -> StreamRecord]]
  <2> DEFINE old == stream[u][was]
             n == [old EXCEPT !.phase = IF old.phase = "running" THEN "stopped" ELSE old.phase]
  <2>1. old \in StreamRecord
    BY <1>2
  <2>2. n \in StreamRecord
    <3>1. CASE old.phase = "running"
      BY <2>1, <3>1 DEF StreamRecord
    <3>2. CASE old.phase # "running"
      BY <2>1, <3>2 DEF StreamRecord
    <3> QED  BY <3>1, <3>2
  <2>3. stream' = [stream EXCEPT ![u][was] = n]
    BY <1>1, <1>2
  <2> QED  BY <1>2, <2>2, <2>3
<1>6. /\ up' \in [User -> Seq(Packet)] /\ \A v \in User : v # u => up'[v] = up[v]
      /\ UNCHANGED <<online, routed, said, read>>
      /\ \/ up'[u] = up[u]
         \/ k = "ui" /\ \E m \in Packet : m.type = "END" /\ m.s = s /\ up'[u] = Append(up[u], m)
  <2>1. CASE k # "ui"
    BY <1>1, <2>1, OldTypes DEF network
  <2>2. CASE k = "ui"
    <3>1. Send(u, "END", s) /\ "END" \in Type
      BY <1>1, <2>2 DEF Type
    <3>2. /\ up' \in [User -> Seq(Packet)] /\ \A v \in User : v # u => up'[v] = up[v]
          /\ UNCHANGED <<online, routed, said, read>>
          /\ \/ up'[u] = up[u]
             \/ \E m \in Packet : m.type = "END" /\ m.s = s /\ up'[u] = Append(up[u], m)
      BY <1>2, <3>1, SendTypes
    <3> QED  BY <2>2, <3>2
  <2> QED  BY <2>1, <2>2
<1>7. Records' /\ CallTypeOK'
  <2>1. Records'
    BY <1>1, <1>3, <1>4, <1>5, <1>6, OldTypes DEF Records
  <2> QED  BY <1>1, <1>3, <1>6, <2>1, OldTypes, ClientTypes
<1>8. "ui" \in Routine /\ "rx" \in Routine
  BY DEF Routine
<1>9. \A z \in Session : (Offered(u, z)' => Offered(u, z)) /\ (Engaged(u, z)' => Engaged(u, z))
  BY <1>3, <1>4, <1>8 DEF Offered, Engaged
<1>10. \/ up'[u] = up[u]
       \/ \E m \in Packet : MaySend(u, m.type, m.s) /\ up'[u] = Append(up[u], m)
  BY <1>1, <1>6 DEF MaySend, Engaged
<1> QED  BY <1>1, <1>3, <1>4, <1>6, <1>7, <1>9, <1>10, ClientStep

LEMMA CloseInv ==
  ASSUME CallInv, NEW u \in User, NEW k \in Routine, Close(u, k)
  PROVE  CallInv'
<1> DEFINE s == co[u][k].s
           old == client[u]
           left == IF old.active = s THEN Forget(old) ELSE old
           kept == [left EXCEPT !.pending = @ \ {s}]
           n == IF k = "ui" THEN Forget(old) ELSE kept
           status == CASE log[u][s] = "none" -> log[u][s]
                       [] log[u][s] # "none" /\ co[u][k].pc = "declined" -> "declined"
                       [] OTHER -> "completed"
<1>1. /\ co[u][k].pc \in {"close", "declined"} /\ Go(u, k, Idle)
      /\ UNCHANGED <<session, row, srv, up, online, routed, said, read, stream, begun>>
      /\ hungup' = IF k = "ui" THEN hungup \cup {<<u, s>>} ELSE hungup
  BY DEF Close, server, network
<1>2. s \in Session /\ client \in [User -> ClientRecord] /\ old \in ClientRecord
  BY <1>1, LocalSession, OldTypes
<1>3. client' = [client EXCEPT ![u] = n]
  BY DEF Close
<1>4. log' \in [User -> [Session -> {"none", "ringing", "declined", "completed"}]]
  <2>1. log \in [User -> [Session -> {"none", "ringing", "declined", "completed"}]]
    BY OldTypes
  <2>2. status \in {"none", "ringing", "declined", "completed"}
    BY <1>2, <2>1
  <2>3. log' = [log EXCEPT ![u][s] = status]
    BY DEF Close
  <2> QED  BY <1>2, <2>1, <2>2, <2>3
<1>5. n \in ClientRecord /\ n.active \in {old.active, NoSession} /\ n.pending \subseteq old.pending
  <2>1. /\ Forget(old) \in ClientRecord /\ Forget(old).active = NoSession
        /\ Forget(old).pending = old.pending
    BY <1>2 DEF Forget, ClientRecord, Keys
  <2>2. ASSUME NEW r \in ClientRecord
        PROVE  LET x == [r EXCEPT !.pending = @ \ {s}]
               IN x \in ClientRecord /\ x.active = r.active /\ x.pending \subseteq r.pending
    BY DEF ClientRecord
  <2>3. CASE old.active = s
    BY <2>1, <2>2, <2>3
  <2>4. CASE old.active # s
    BY <1>2, <2>1, <2>2, <2>4
  <2> QED  BY <2>3, <2>4
<1>6. /\ co' \in [User -> [Routine -> Local]] /\ \A v \in User, j \in Routine : LocalOK(co'[v][j])
      /\ \A v \in User : v # u => co'[v] = co[v]
      /\ co'[u][k].pc = "idle" /\ \A j \in Routine : j # k => co'[u][j] = co[u][j]
  BY <1>1, LocalsAreOK, GoTypes
<1>7. /\ client' \in [User -> ClientRecord] /\ \A v \in User : v # u => client'[v] = client[v]
      /\ client'[u] = n
  BY <1>2, <1>3, <1>5
<1>8. Records' /\ CallTypeOK'
  <2>1. Records'
    BY <1>1, <1>6, <1>7, OldTypes DEF Records
  <2>2. hungup' \subseteq User \X Session
    BY <1>1, <1>2, OldTypes
  <2> QED  BY <1>1, <1>4, <1>6, <2>1, <2>2, OldTypes, ClientTypes
<1>9. "ui" \in Routine /\ "rx" \in Routine /\ NoSession \notin Session
  BY CallAssumption DEF Routine
<1>10. \A z \in Session : (Offered(u, z)' => Offered(u, z)) /\ (Engaged(u, z)' => Engaged(u, z))
  BY <1>5, <1>6, <1>7, <1>9 DEF Offered, Engaged
<1> QED  BY <1>1, <1>6, <1>7, <1>8, <1>10, ClientStep

\* An incoming packet is taken: it was written to u, and not read before.
LEMMA TakeTypes ==
  ASSUME CallInv, NEW u \in User, Take(u)
  PROVE  /\ Arriving(u).s \in Session /\ Arriving(u).type \in Type
         /\ \A T : Arriving(u).type \in T => Told(u, Arriving(u).s, T)
         /\ co[u]["rx"].pc = "idle"
         /\ UNCHANGED <<up, online, routed, said>>
         /\ read' \in [User -> Nat] /\ \A v \in User : read'[v] \in 0..Len(said[v])
<1>1. /\ co[u]["rx"].pc = "idle" /\ read[u] < Len(said[u]) /\ read' = [read EXCEPT ![u] = read[u] + 1]
      /\ UNCHANGED <<up, online, routed, said>>
  BY OldTypes DEF Take, Free
<1>2. read \in [User -> Nat] /\ \A v \in User : said[v] \in Seq(Packet) /\ read[v] \in 0..Len(said[v])
  BY OldTypes
<1>3. Len(said[u]) \in Nat /\ DOMAIN said[u] = 1..Len(said[u])
  BY <1>2, LenProperties
<1>4. read[u] + 1 \in DOMAIN said[u]
  BY <1>1, <1>2, <1>3
<1>5. Arriving(u) \in Packet
  BY <1>2, <1>4, ElementOfSeq, <1>3 DEF Arriving
<1>6. \A T : Arriving(u).type \in T => Told(u, Arriving(u).s, T)
  BY <1>4 DEF Told, Mentions, Arriving
<1>7. read' \in [User -> Nat] /\ \A v \in User : read'[v] \in 0..Len(said[v])
  BY <1>1, <1>2, <1>3
<1> QED  BY <1>1, <1>5, <1>6, <1>7 DEF Packet

\* _handle_invite and _handle_decline, as far as their await.
LEMMA TakenInv ==
  ASSUME CallInv, NEW u \in User, Take(u), NEW pc \in {"save", "declined"},
         pc = "save" => Arriving(u).type = "INVITE",
         Go(u, "rx", At(pc, Arriving(u).s)),
         UNCHANGED <<session, row, srv, client, stream, log, begun, hungup>>
  PROVE  CallInv'
<1> DEFINE s == Arriving(u).s
<1>1. /\ s \in Session /\ (pc = "save" => Told(u, s, {"INVITE"}))
      /\ UNCHANGED <<up, online, routed, said>>
      /\ read' \in [User -> Nat] /\ \A v \in User : read'[v] \in 0..Len(said[v])
  BY TakeTypes
<1>2. /\ co' \in [User -> [Routine -> Local]] /\ \A v \in User, j \in Routine : LocalOK(co'[v][j])
      /\ \A v \in User : v # u => co'[v] = co[v]
      /\ co'[u]["rx"].pc = pc /\ co'[u]["rx"].s = s /\ co'[u]["ui"] = co[u]["ui"]
  <2>1. LocalOK(At(pc, s)) /\ At(pc, s).pc = pc /\ At(pc, s).s = s
    BY <1>1, LocalsAreOK
  <2> QED  BY <2>1, GoTypes DEF Routine
<1>3. Records' /\ CallTypeOK'
  <2>1. Records'
    BY <1>1, <1>2, OldTypes DEF Records
  <2> QED  BY <1>1, <1>2, <2>1, OldTypes, ClientTypes
<1>4. \A z \in Session : Offered(u, z)' => Offered(u, z) \/ Told(u, z, {"INVITE"})
  BY <1>1, <1>2 DEF Offered
<1>5. \A z \in Session : Engaged(u, z)' => Engaged(u, z)
  BY <1>2 DEF Engaged
<1> QED  BY <1>1, <1>2, <1>3, <1>4, <1>5, ClientStep

LEMMA HandleInviteInv ==
  ASSUME CallInv, NEW u \in User, HandleInvite(u)
  PROVE  CallInv'
BY TakenInv DEF HandleInvite, server

LEMMA HandleDeclineInv ==
  ASSUME CallInv, NEW u \in User, HandleDecline(u)
  PROVE  CallInv'
BY TakenInv DEF HandleDecline, server

LEMMA HandleAcceptInv ==
  ASSUME CallInv, NEW u \in User, HandleAccept(u)
  PROVE  CallInv'
<1> DEFINE s == Arriving(u).s
           c == client[u]
           key == CASE c.eph # <<>> -> Key(c.eph, <<Callee[s], s>>, s)
                    [] c.eph = <<>> /\ c.key # NoKey -> c.key
                    [] OTHER -> RandomKey(u, s)
<1>1. /\ Take(u)
      /\ client' = [client EXCEPT ![u].key = key, ![u].handle = s]
      /\ StartStream(u, s, key) /\ Go(u, "rx", At("start", s))
      /\ UNCHANGED <<session, row, srv, log, begun, hungup>>
  BY DEF HandleAccept, server
<1>2. /\ s \in Session /\ co[u]["rx"].pc = "idle" /\ UNCHANGED <<up, online, routed, said>>
      /\ read' \in [User -> Nat] /\ \A v \in User : read'[v] \in 0..Len(said[v])
  BY <1>1, TakeTypes
<1>3. key \in Keys
  <2>1. /\ c.eph \in Ephemerals \cup {<<>>} /\ c.key \in Keys
        /\ <<Callee[s], s>> \in Ephemerals /\ <<u, s>> \in Ephemerals
    BY <1>2, OldTypes, CallAssumption DEF ClientRecord, Ephemerals
  <2>2. CASE c.eph # <<>>
    BY <1>2, <2>1, <2>2, KeyTypes
  <2>3. CASE c.eph = <<>> /\ c.key # NoKey
    BY <2>1, <2>3
  <2>4. CASE c.eph = <<>> /\ c.key = NoKey
    <3>1. RandomKey(u, s) \in Keys
      BY <1>2, <2>1 DEF RandomKey, Keys
    <3> QED  BY <2>4, <3>1
  <2> QED  BY <2>2, <2>3, <2>4
<1>4. /\ co' \in [User -> [Routine -> Local]] /\ \A v \in User, j \in Routine : LocalOK(co'[v][j])
      /\ \A v \in User : v # u => co'[v] = co[v]
      /\ co'[u]["rx"].pc = "start" /\ co'[u]["ui"] = co[u]["ui"]
  BY <1>1, <1>2, LocalsAreOK, GoTypes DEF Routine
<1>5. /\ client' \in [User -> ClientRecord] /\ \A v \in User : v # u => client'[v] = client[v]
      /\ client'[u].active = c.active /\ client'[u].pending = c.pending
  <2> HIDE DEF key
  <2> DEFINE n == [c EXCEPT !.key = key, !.handle = s]
  <2>1. client \in [User -> ClientRecord]
    BY OldTypes
  <2>2. n \in ClientRecord /\ n.active = c.active /\ n.pending = c.pending
    BY <1>2, <1>3, <2>1 DEF ClientRecord
  <2>3. client' = [client EXCEPT ![u] = n]
    BY <1>1, <2>1
  <2> QED  BY <2>1, <2>2, <2>3
<1>6. Records' /\ CallTypeOK'
  <2>1. stream' \in [User -> [Session -> StreamRecord]]
    <3> HIDE DEF key
    <3> QED  BY <1>1, <1>2, <1>3, StartStreamTypes
  <2>2. Records'
    BY <1>2, <1>4, <1>5, <2>1 DEF Records
  <2> QED  BY <1>1, <1>2, <1>4, <2>2, OldTypes, ClientTypes
<1>7. \A z \in Session : (Offered(u, z)' => Offered(u, z)) /\ (Engaged(u, z)' => Engaged(u, z))
  BY <1>4, <1>5 DEF Offered, Engaged
<1> QED  BY <1>1, <1>2, <1>4, <1>5, <1>6, <1>7, ClientStep

LEMMA HandleEndInv ==
  ASSUME CallInv, NEW u \in User, HandleEnd(u)
  PROVE  CallInv'
<1> DEFINE s == Arriving(u).s
<1>1. Take(u) /\ Hang(u, "rx", s)
  BY DEF HandleEnd
<1>2. /\ s \in Session /\ UNCHANGED <<up, online, routed, said>>
      /\ read' \in [User -> Nat] /\ \A v \in User : read'[v] \in 0..Len(said[v])
  BY <1>1, TakeTypes
<1>3. /\ co' \in [User -> [Routine -> Local]]
      /\ \A v \in User, j \in Routine : LocalOK(co'[v][j])
      /\ \A v \in User : v # u => co'[v] = co[v]
      /\ co'[u]["rx"].pc \in {"stop", "close"} /\ co'[u]["ui"] = co[u]["ui"]
      /\ client' \in [User -> ClientRecord] /\ \A v \in User : v # u => client'[v] = client[v]
      /\ client'[u].active = client[u].active /\ client'[u].pending = client[u].pending
      /\ UNCHANGED <<session, row, srv, stream, log, begun, hungup>>
  BY <1>1, <1>2, HangTypes DEF Routine
<1>4. Records' /\ CallTypeOK'
  <2>1. Records'
    BY <1>2, <1>3, OldTypes DEF Records
  <2> QED  BY <1>2, <1>3, <2>1, OldTypes, ClientTypes
<1>5. \A z \in Session : (Offered(u, z)' => Offered(u, z)) /\ (Engaged(u, z)' => Engaged(u, z))
  BY <1>3 DEF Offered, Engaged
<1> QED  BY <1>2, <1>3, <1>4, <1>5, ClientStep

\* A lost connection, and the server noticing.
LEMMA LeaveInv ==
  ASSUME CallInv, NEW u \in User, Leave(u)
  PROVE  CallInv'
<1>1. /\ online' = [online EXCEPT ![u] = FALSE] /\ up' = [up EXCEPT ![u] = <<>>]
      /\ read' = [read EXCEPT ![u] = Len(said[u])]
      /\ UNCHANGED <<routed, said, session, row, srv, client, stream, co, log, begun, hungup>>
  BY DEF Leave, server, clients
<1>2. \A v \in User : said[v] \in Seq(Packet) /\ Len(said[v]) \in Nat
  BY OldTypes, LenProperties
<1>3. /\ online' \in [User -> BOOLEAN]
      /\ read' \in [User -> Nat] /\ \A v \in User : read'[v] \in 0..Len(said[v])
  BY <1>1, <1>2, OldTypes
<1>4. /\ up' \in [User -> Seq(Packet)] /\ up'[u] = <<>> /\ \A v \in User : v # u => up'[v] = up[v]
  <2>1. <<>> \in Seq(Packet) /\ up \in [User -> Seq(Packet)]
    BY EmptySeq, OldTypes
  <2> QED  BY <1>1, <2>1
<1>5. Records' /\ CallTypeOK'
  <2>1. Records'
    BY <1>1, <1>3, OldTypes DEF Records
  <2> QED  BY <1>1, <1>3, <1>4, <2>1, OldTypes, ClientTypes
<1>6. \A z \in Session : (Offered(u, z)' => Offered(u, z)) /\ (Engaged(u, z)' => Engaged(u, z))
  BY <1>1 DEF Offered, Engaged
<1> QED  BY <1>1, <1>4, <1>5, <1>6, ClientStep

LEMMA UnrouteInv ==
  ASSUME CallInv, NEW u \in User, Unroute(u)
  PROVE  CallInv'
<1>1. /\ routed' = [routed EXCEPT ![u] = FALSE]
      /\ UNCHANGED <<up, online, said, read, session, row, srv, client, stream, co, log, begun,
                     hungup>>
  BY DEF Unroute, server, clients
<1>2. Records'
  BY <1>1 DEF CallInv, Records
<1>3. CallTypeOK'
  BY <1>1 DEF CallInv, CallTypeOK
<1>4. \A z \in Session : (Offered(u, z)' => Offered(u, z)) /\ (Engaged(u, z)' => Engaged(u, z))
  BY <1>1 DEF Offered, Engaged
<1> QED  BY <1>1, <1>2, <1>3, <1>4, ClientStep

-----------------------------------------------------------------------------
\* The server.  Its steps leave the clients alone.

\* The next packet of u is taken.
LEMMA BeginTypes ==
  ASSUME CallInv, NEW u \in User, Begin(u)
  PROVE  /\ srv[u].pc = "idle" /\ Head(up[u]) \in Packet
         /\ up' \in [User -> Seq(Packet)]
         /\ \A T : Head(up[u]).type \in T => Asked(u, Head(up[u]).s, T)
         /\ \A v \in User, s \in Session : \A T : Asked(v, s, T)' => Asked(v, s, T)
         /\ \A s \in Session : Single(up[Caller[s]], s)'
         /\ \A s \in Session : Head(up[u]) = Msg("INVITE", s)
                               => u = Caller[s] /\ ~Asked(Caller[s], s, {"INVITE"})'
         /\ UNCHANGED <<online, routed, read, client, stream, co, log, begun, hungup>>
<1>1. /\ srv[u].pc = "idle" /\ up[u] # <<>> /\ up' = [up EXCEPT ![u] = Tail(up[u])]
      /\ UNCHANGED <<online, routed, read, client, stream, co, log, begun, hungup>>
  BY OldTypes DEF Begin, clients
<1>2. up \in [User -> Seq(Packet)] /\ up[u] \in Seq(Packet)
  BY OldTypes
<1>3. /\ Tail(up[u]) \in Seq(Packet) /\ Head(up[u]) \in Packet
      /\ \A s, T : Mentions(Tail(up[u]), s, T) => Mentions(up[u], s, T)
      /\ \A T : Head(up[u]).type \in T => Mentions(up[u], Head(up[u]).s, T)
      /\ \A s : Single(up[u], s) => Single(Tail(up[u]), s)
      /\ \A s : /\ Single(up[u], s) /\ Head(up[u]).s = s /\ Head(up[u]).type = "INVITE"
                => ~Mentions(Tail(up[u]), s, {"INVITE"})
  BY <1>1, <1>2, MentionsTail
<1>4. up' \in [User -> Seq(Packet)] /\ up'[u] = Tail(up[u]) /\ \A v \in User : v # u => up'[v] = up[v]
  BY <1>1, <1>2, <1>3
<1>5. \A T : Head(up[u]).type \in T => Asked(u, Head(up[u]).s, T)
  BY <1>3 DEF Asked
<1>6. \A v \in User, s \in Session : \A T : Asked(v, s, T)' => Asked(v, s, T)
  BY <1>3, <1>4 DEF Asked
<1>7. ASSUME NEW s \in Session
      PROVE  Single(up'[Caller[s]], s)
  <2>1. Caller[s] \in User /\ Single(up[Caller[s]], s)
    BY CallAssumption DEF CallInv, InviteOnce
  <2> QED  BY <1>3, <1>4, <2>1
<1>8. ASSUME NEW s \in Session, Head(up[u]) = Msg("INVITE", s)
      PROVE  u = Caller[s] /\ ~Asked(Caller[s], s, {"INVITE"})'
  <2>1. Head(up[u]).s = s /\ Head(up[u]).type = "INVITE"
    BY <1>8 DEF Msg
  <2>2. u = Caller[s]
    BY <1>5, <2>1 DEF CallInv, Roles
  <2>3. Single(up[u], s)
    BY <2>2 DEF CallInv, InviteOnce
  <2> QED  BY <1>3, <1>4, <2>1, <2>2, <2>3 DEF Asked
<1> QED  BY <1>1, <1>3, <1>4, <1>5, <1>6, <1>7, <1>8

\* What the clients hold is as it was.
LEMMA HeldAsBefore ==
  ASSUME UNCHANGED <<client, co, begun>>
  PROVE  \A u \in User, s \in Session : (Offered(u, s)' <=> Offered(u, s))
                                        /\ (Engaged(u, s)' <=> Engaged(u, s))
BY DEF Offered, Engaged

\* A packet that comes to nothing: ACCEPT, DECLINE or END for a session that is not there.
LEMMA DroppedInv ==
  ASSUME CallInv, NEW u \in User, Begin(u), UNCHANGED <<session, row, srv, said>>
  PROVE  CallInv'
<1> USE DEF CallInv
<1>1. /\ up' \in [User -> Seq(Packet)]
      /\ \A v \in User, s \in Session : \A T : Asked(v, s, T)' => Asked(v, s, T)
      /\ \A s \in Session : Single(up[Caller[s]], s)'
      /\ UNCHANGED <<online, routed, read, client, stream, co, log, begun, hungup>>
  BY BeginTypes
<1>2. \A v \in User, s \in Session : \A T :
        (Works(v, s, T)' <=> Works(v, s, T)) /\ (Told(v, s, T)' <=> Told(v, s, T))
  BY DEF Works, Told
<1>3. \A v \in User, s \in Session : (Offered(v, s)' <=> Offered(v, s)) /\ (Engaged(v, s)' <=> Engaged(v, s))
  BY <1>1, HeldAsBefore
<1>4. Caller \in [Session -> User] /\ Callee \in [Session -> User]
  BY CallAssumption
<1>5. Records' /\ CallTypeOK'
  <2>1. Records'
    BY <1>1, OldTypes DEF Records
  <2> QED  BY <1>1, <2>1, OldTypes, ClientTypes
<1>6. Roles'
  BY <1>1, <1>2, <1>3 DEF Roles, Party
<1>7. InviteOnce'
  BY <1>1, <1>2, <1>4 DEF InviteOnce
<1>8. Stages' /\ EndIsWritten'
  BY <1>2 DEF Stages, EndIsWritten
<1>9. SaidOnce'
  BY DEF SaidOnce, Works, Told, Recipient, Other
<1>10. FarewellOnce' /\ LastWord'
  BY DEF FarewellOnce, LastWord, Farewells, Places
<1>11. RowFirst'
  BY <1>1, <1>2, <1>3, <1>4 DEF RowFirst
<1> QED  BY <1>5, <1>6, <1>7, <1>8, <1>9, <1>10, <1>11

\* The session is entered, accepted or popped, and the handler goes on to the row.
Admits(t, old, new) ==
  \/ t = "INVITE" /\ old = "none" /\ new = "pending"
  \/ t = "ACCEPT" /\ old = "pending" /\ new = "active"
  \/ t \in Farewell /\ old \in {"pending", "active"} /\ new = "gone"

LEMMA AdmittedInv ==
  ASSUME CallInv, NEW u \in User, NEW s \in Session, NEW t \in Type, NEW new,
         Begin(u), Head(up[u]) = Msg(t, s), Admits(t, session[s], new),
         session' = [session EXCEPT ![s] = new], Work(u, "write", Msg(t, s)),
         UNCHANGED <<said, row>>
  PROVE  CallInv'
<1> USE DEF CallInv
<1>1. /\ srv[u].pc = "idle" /\ up' \in [User -> Seq(Packet)]
      /\ \A T : t \in T => Asked(u, s, T)
      /\ \A v \in User, z \in Session : \A T : Asked(v, z, T)' => Asked(v, z, T)
      /\ \A z \in Session : Single(up[Caller[z]], z)'
      /\ t = "INVITE" => u = Caller[s] /\ ~Asked(Caller[s], s, {"INVITE"})'
      /\ UNCHANGED <<online, routed, read, client, stream, co, log, begun, hungup>>
  <2>1. Head(up[u]).s = s /\ Head(up[u]).type = t
    BY DEF Msg
  <2> QED  BY <2>1, BeginTypes
<1>2. /\ Caller \in [Session -> User] /\ Callee \in [Session -> User]
      /\ \A z \in Session : Caller[z] # Callee[z]
  BY CallAssumption
<1>3. /\ session \in [Session -> {"none", "pending", "active", "gone"}]
      /\ srv \in [User -> [pc : {"idle"}, m : {<<>>}] \cup [pc : {"write", "forward"}, m : Packet]]
  BY DEF CallTypeOK
<1>4. /\ session'[s] = new /\ \A z \in Session : z # s => session'[z] = session[z]
      /\ session' \in [Session -> {"none", "pending", "active", "gone"}]
  BY <1>3 DEF Admits
<1>5. /\ srv'[u].pc = "write" /\ srv'[u].m = Msg(t, s)
      /\ srv'[u].m.s = s /\ srv'[u].m.type = t
      /\ \A v \in User : v # u => srv'[v] = srv[v]
      /\ srv' \in [User -> [pc : {"idle"}, m : {<<>>}] \cup [pc : {"write", "forward"}, m : Packet]]
  <2>1. Msg(t, s) \in Packet /\ Msg(t, s).s = s /\ Msg(t, s).type = t
    BY DEF Msg, Packet
  <2> HIDE DEF CallInv
  <2>2. srv' = [srv EXCEPT ![u] = [pc |-> "write", m |-> Msg(t, s)]]
    BY DEF Work
  <2>3. [pc |-> "write", m |-> Msg(t, s)] \in [pc : {"write", "forward"}, m : Packet]
    BY <2>1
  <2> QED  BY <1>3, <2>1, <2>2, <2>3
<1>6. \A v \in User, z \in Session : \A T :
        /\ Works(v, z, T)' <=> Works(v, z, T) \/ (v = u /\ z = s /\ t \in T)
        /\ v = u => ~Works(v, z, T)
        /\ Told(v, z, T)' <=> Told(v, z, T)
  BY <1>1, <1>5 DEF Works, Told
<1>7. \A v \in User, z \in Session : (Offered(v, z)' <=> Offered(v, z)) /\ (Engaged(v, z)' <=> Engaged(v, z))
  BY <1>1, HeldAsBefore
<1>8. /\ t = "INVITE" => u = Caller[s]
      /\ t \in {"ACCEPT", "DECLINE"} => u = Callee[s]
      /\ t = "END" => u \in Party(s)
  BY <1>1 DEF Roles
<1>9. Records' /\ CallTypeOK'
  <2>1. Records'
    BY <1>1, OldTypes DEF Records
  <2>2. \A v \in User :
        /\ client'[v].active \in Session \cup {NoSession}
        /\ client'[v].handle \in Session \cup {NoSession}
        /\ client'[v].eph \in Ephemerals \cup {<<>>}
        /\ client'[v].key \in Keys /\ client'[v].pending \subseteq Session
        /\ \A z \in Session : /\ stream'[v][z].phase \in {"none", "starting", "running", "stopped"}
                              /\ stream'[v][z].key \in Keys
        /\ \A k \in Routine : /\ (co'[v][k].pc = "idle") = (co'[v][k].s = NoSession)
                              /\ (co'[v][k].pc = "stop") = (co'[v][k].was # NoSession)
    BY <1>1 DEF CallTypeOK
  <2>3. /\ row' \in [Session -> [status : {"none", "pending", "active", "ended"}, ended : BOOLEAN]]
        /\ said' \in [User -> Seq(Packet)]
        /\ online' \in [User -> BOOLEAN] /\ routed' \in [User -> BOOLEAN]
        /\ \A v \in User : read'[v] \in 0..Len(said'[v])
        /\ log' \in [User -> [Session -> {"none", "ringing", "declined", "completed"}]]
        /\ begun' \subseteq Session /\ hungup' \subseteq User \X Session
    BY <1>1 DEF CallTypeOK
  <2> QED  BY <1>1, <1>4, <1>5, <2>1, <2>2, <2>3 DEF CallTypeOK
<1>10. Roles'
  <2> SUFFICES ASSUME NEW v \in User, NEW z \in Session
               PROVE  (/\ Asked(v, z, {"INVITE"}) \/ Works(v, z, {"INVITE"}) => v = Caller[z]
                       /\ Asked(v, z, {"ACCEPT", "DECLINE"}) \/ Works(v, z, {"ACCEPT", "DECLINE"})
                            => v = Callee[z]
                       /\ Asked(v, z, {"END"}) \/ Works(v, z, {"END"}) => v \in Party(z)
                       /\ Told(v, z, {"INVITE"}) => v = Callee[z]
                       /\ Offered(v, z) => v = Callee[z]
                       /\ Engaged(v, z) => v \in Party(z))'
    BY DEF Roles
  <2> QED  BY <1>1, <1>6, <1>7, <1>8 DEF Roles, Party
<1>11. InviteOnce'
  <2> SUFFICES ASSUME NEW z \in Session
               PROVE  (/\ z \notin begun => ~Asked(Caller[z], z, {"INVITE"})
                       /\ z \notin begun \/ Asked(Caller[z], z, {"INVITE"}) =>
                            session[z] = "none" /\ \A v \in User : ~Told(v, z, Type)
                       /\ Single(up[Caller[z]], z))'
    BY DEF InviteOnce
  <2>1. z = s => z \in begun /\ ~Asked(Caller[z], z, {"INVITE"})'
    <3>1. CASE t = "INVITE"
      BY <1>1, <3>1 DEF InviteOnce
    <3>2. CASE t # "INVITE"
      BY <1>1, <1>2, <3>2 DEF Admits, InviteOnce
    <3> QED  BY <3>1, <3>2
  <2> QED  BY <1>1, <1>2, <1>4, <1>6, <2>1 DEF InviteOnce
<1>12. Stages'
  <2> SUFFICES ASSUME NEW v \in User, NEW z \in Session
               PROVE  (/\ session[z] = "none" =>
                            ~Works(v, z, Type) /\ ~Told(v, z, {"INVITE", "ACCEPT", "END"})
                       /\ session[z] = "pending" =>
                            ~Works(v, z, Type \ {"INVITE"}) /\ ~Told(v, z, Type \ {"INVITE"})
                       /\ session[z] = "active" => ~Works(v, z, Farewell) /\ ~Told(v, z, Farewell))'
    BY DEF Stages
  <2>1. CASE z # s
    BY <1>4, <1>6, <2>1 DEF Stages
  <2>2. CASE z = s /\ t = "INVITE"
    <3>1. session[s] = "none" /\ new = "pending"
      BY <2>2 DEF Admits, Farewell
    <3>2. ~Works(v, s, Type) /\ ~Told(v, s, Type)
      BY <1>1, <2>2, <3>1 DEF Stages, InviteOnce
    <3>3. ~Works(v, s, Type \ {"INVITE"}) /\ ~Told(v, s, Type \ {"INVITE"})
      BY <3>2 DEF Works, Told, Mentions
    <3> QED  BY <1>4, <1>6, <2>2, <3>1, <3>3
  <2>3. CASE z = s /\ t = "ACCEPT"
    <3>1. session[s] = "pending" /\ new = "active"
      BY <2>3 DEF Admits, Farewell
    <3>2. ~Works(v, s, Type \ {"INVITE"}) /\ ~Told(v, s, Type \ {"INVITE"})
      BY <3>1 DEF Stages
    <3>3. ~Works(v, s, Farewell) /\ ~Told(v, s, Farewell)
      BY <3>2 DEF Works, Told, Mentions, Farewell, Type
    <3> QED  BY <1>4, <1>6, <2>3, <3>1, <3>3 DEF Farewell
  <2>4. CASE z = s /\ t \in Farewell
    BY <1>4, <2>4 DEF Admits, Farewell
  <2> QED  BY <2>1, <2>2, <2>3, <2>4 DEF Farewell, Type
<1>13. t # "INVITE" => \A v \in User : ~Works(v, s, Farewell) /\ ~Told(v, s, Farewell)
  <2> SUFFICES ASSUME t # "INVITE", NEW v \in User
               PROVE  ~Works(v, s, Farewell) /\ ~Told(v, s, Farewell)
    OBVIOUS
  <2>1. CASE session[s] = "pending"
    <3>1. ~Works(v, s, Type \ {"INVITE"}) /\ ~Told(v, s, Type \ {"INVITE"})
      BY <2>1 DEF Stages
    <3> QED  BY <3>1 DEF Works, Told, Mentions, Farewell, Type
  <2>2. CASE session[s] = "active"
    BY <2>2 DEF Stages
  <2> QED  BY <2>1, <2>2 DEF Admits
<1>14. SaidOnce'
  <2> SUFFICES ASSUME NEW v \in User, NEW z \in Session
               PROVE  /\ Works(v, z, Type)' =>
                            ~Mentions(said[Recipient(v, srv'[v].m)], z, {srv'[v].m.type} \cup Farewell)
                      /\ Works(v, z, Farewell)' => \A w \in User : /\ ~Told(w, z, Farewell)'
                                                                   /\ Works(w, z, Farewell)' => w = v
    BY DEF SaidOnce, Told
  <2>1. CASE v # u
    <3>1. srv'[v] = srv[v]
      BY <1>5, <2>1
    <3>2. Works(v, z, Type)' =>
            ~Mentions(said[Recipient(v, srv'[v].m)], z, {srv'[v].m.type} \cup Farewell)
      BY <1>6, <2>1, <3>1 DEF SaidOnce, Told
    <3>3. ASSUME Works(v, z, Farewell)', NEW w \in User
          PROVE  ~Told(w, z, Farewell)' /\ (Works(w, z, Farewell)' => w = v)
      <4>1. Works(v, z, Farewell)
        BY <1>6, <2>1, <3>3
      <4>2. ~(z = s /\ t \in Farewell)
        BY <1>13, <4>1 DEF Farewell
      <4>3. ~Told(w, z, Farewell) /\ (Works(w, z, Farewell) => w = v)
        BY <4>1 DEF SaidOnce
      <4> QED  BY <1>6, <4>2, <4>3
    <3> QED  BY <3>2, <3>3
  <2>2. CASE v = u /\ z # s
    BY <1>6, <2>2
  <2>3. CASE v = u /\ z = s
    <3> DEFINE to == Recipient(u, Msg(t, s))
    <3>1. Msg(t, s).s = s /\ Msg(t, s).type = t /\ srv'[u].m = Msg(t, s)
      BY <1>5 DEF Msg
    <3>2. to \in User
      <4>1. CASE t = "INVITE"
        BY <1>2, <3>1, <4>1 DEF Recipient
      <4>2. CASE t \in {"ACCEPT", "DECLINE"}
        BY <1>2, <3>1, <4>2 DEF Recipient
      <4>3. CASE t = "END"
        BY <1>2, <3>1, <4>3 DEF Recipient, Other
      <4> QED  BY <4>1, <4>2, <4>3 DEF Type
    <3> HIDE DEF to
    <3>3. ~Mentions(said[to], s, {t} \cup Farewell)
      <4>1. CASE t = "INVITE"
        <5>1. ~Told(to, s, Type)
          BY <1>1, <3>2, <4>1 DEF InviteOnce
        <5> QED  BY <4>1, <5>1 DEF Told, Mentions, Farewell, Type
      <4>2. CASE t = "ACCEPT"
        <5>1. ~Told(to, s, Type \ {"INVITE"})
          BY <3>2, <4>2 DEF Admits, Stages, Farewell
        <5> QED  BY <4>2, <5>1 DEF Told, Mentions, Farewell, Type
      <4>3. CASE t \in Farewell
        <5>1. ~Told(to, s, Farewell)
          BY <1>13, <3>2, <4>3 DEF Farewell
        <5> QED  BY <4>3, <5>1 DEF Told, Mentions
      <4> QED  BY <4>1, <4>2, <4>3 DEF Type, Farewell
    <3>4. ASSUME t \in Farewell, NEW w \in User
          PROVE  ~Told(w, s, Farewell)' /\ (Works(w, s, Farewell)' => w = u)
      BY <1>6, <1>13, <3>4 DEF Farewell
    <3> QED  BY <1>6, <2>3, <3>1, <3>3, <3>4 DEF to
  <2> QED  BY <2>1, <2>2, <2>3
<1>15. FarewellOnce' /\ LastWord'
  BY DEF FarewellOnce, LastWord, Farewells, Places
<1>16. RowFirst'
  <2> SUFFICES ASSUME NEW z \in Session
               PROVE  (/\ session[z] # "none" /\ row[z].status = "none" =>
                            srv[Caller[z]].pc = "write" /\ Works(Caller[z], z, {"INVITE"})
                       /\ \/ Asked(Callee[z], z, Type) \/ Works(Callee[z], z, Type)
                          \/ Told(Callee[z], z, Type) \/ Offered(Callee[z], z)
                          \/ Engaged(Callee[z], z)
                          => session[z] # "none" /\ row[z].status # "none")'
    BY DEF RowFirst
  <2>1. session'[z] # "none" /\ row[z].status = "none" =>
          srv'[Caller[z]].pc = "write" /\ Works(Caller[z], z, {"INVITE"})'
    <3>1. CASE session[z] # "none"
      <4>1. Caller[z] \in User
        BY <1>2
      <4> SUFFICES ASSUME row[z].status = "none"
                   PROVE  srv'[Caller[z]].pc = "write" /\ Works(Caller[z], z, {"INVITE"})'
        OBVIOUS
      <4>2. srv[Caller[z]].pc = "write" /\ Works(Caller[z], z, {"INVITE"})
        BY <3>1 DEF RowFirst
      <4>3. srv'[Caller[z]] = srv[Caller[z]]
        BY <1>1, <1>5, <4>1, <4>2
      <4> QED  BY <4>2, <4>3 DEF Works
    <3>2. CASE session[z] = "none" /\ z = s
      BY <1>5, <1>6, <1>8, <3>2 DEF Admits
    <3>3. CASE session[z] = "none" /\ z # s
      BY <1>4, <3>3
    <3> QED  BY <3>1, <3>2, <3>3
  <2>2. session[z] # "none" => session'[z] # "none"
    BY <1>4 DEF Admits
  <2>3. Works(Callee[z], z, Type)' => Works(Callee[z], z, Type) \/ Asked(Callee[z], z, Type)
    BY <1>1, <1>2, <1>6
  <2> QED  BY <1>1, <1>2, <1>6, <1>7, <2>1, <2>2, <2>3 DEF RowFirst
<1>17. EndIsWritten'
  <2> SUFFICES ASSUME NEW z \in Session, session'[z] = "gone"
               PROVE  row'[z].ended \/ \E v \in User : srv'[v].pc = "write" /\ Works(v, z, Farewell)'
    BY DEF EndIsWritten
  <2>1. CASE z = s
    BY <1>4, <1>5, <1>6, <2>1 DEF Admits
  <2>2. CASE z # s
    <3>1. row[z].ended \/ \E v \in User : srv[v].pc = "write" /\ Works(v, z, Farewell)
      BY <1>4, <2>2 DEF EndIsWritten
    <3> QED  BY <1>1, <1>5, <1>6, <3>1
  <2> QED  BY <2>1, <2>2
<1> QED  BY <1>9, <1>10, <1>11, <1>12, <1>14, <1>15, <1>16, <1>17

LEMMA ServerTypes ==
  ASSUME CallInv,
         UNCHANGED <<online, routed, read, client, stream, co, log, begun, hungup>>,
         session' \in [Session -> {"none", "pending", "active", "gone"}],
         row' \in [Session -> [status : {"none", "pending", "active", "ended"}, ended : BOOLEAN]],
         srv' \in [User -> [pc : {"idle"}, m : {<<>>}] \cup [pc : {"write", "forward"}, m : Packet]],
         up' \in [User -> Seq(Packet)], said' \in [User -> Seq(Packet)],
         \A u \in User : Len(said'[u]) >= Len(said[u])
  PROVE  Records' /\ CallTypeOK'
<1>1. Records'
  BY OldTypes DEF Records
<1>2. \A u \in User :
        /\ client'[u].active \in Session \cup {NoSession}
        /\ client'[u].handle \in Session \cup {NoSession}
        /\ client'[u].eph \in Ephemerals \cup {<<>>}
        /\ client'[u].key \in Keys /\ client'[u].pending \subseteq Session
        /\ \A s \in Session : /\ stream'[u][s].phase \in {"none", "starting", "running", "stopped"}
                              /\ stream'[u][s].key \in Keys
        /\ \A k \in Routine : /\ (co'[u][k].pc = "idle") = (co'[u][k].s = NoSession)
                              /\ (co'[u][k].pc = "stop") = (co'[u][k].was # NoSession)
  BY DEF CallInv, CallTypeOK
<1>3. \A u \in User : read'[u] \in 0..Len(said'[u])
  <2> SUFFICES ASSUME NEW u \in User PROVE read'[u] \in 0..Len(said'[u])
    OBVIOUS
  <2>1. read'[u] \in 0..Len(said[u]) /\ Len(said[u]) \in Nat /\ Len(said'[u]) \in Nat
    BY OldTypes, LenProperties
  <2> QED  BY <2>1
<1>4. /\ online' \in [User -> BOOLEAN] /\ routed' \in [User -> BOOLEAN]
      /\ log' \in [User -> [Session -> {"none", "ringing", "declined", "completed"}]]
      /\ begun' \subseteq Session /\ hungup' \subseteq User \X Session
  BY DEF CallInv, CallTypeOK
<1> QED  BY <1>1, <1>2, <1>3, <1>4 DEF CallTypeOK

\* A packet is written to a user, if its connection lives.
Tell(to, m) == said' = IF online[to] THEN [said EXCEPT ![to] = Append(@, m)] ELSE said

LEMMA TellTypes ==
  ASSUME CallInv, NEW to \in User, NEW m \in Packet, Tell(to, m)
  PROVE  /\ said' \in [User -> Seq(Packet)]
         /\ \A v \in User : v # to => said'[v] = said[v]
         /\ said'[to] = said[to] \/ said'[to] = Append(said[to], m)
         /\ \A v \in User : Len(said'[v]) >= Len(said[v])
         /\ \A v \in User, s \in Session : \A T :
              /\ Told(v, s, T) => Told(v, s, T)'
              /\ Told(v, s, T)' => Told(v, s, T) \/ (v = to /\ s = m.s /\ m.type \in T)
<1>1. said \in [User -> Seq(Packet)] /\ \A v \in User : Len(said[v]) \in Nat
  BY OldTypes, LenProperties
<1>2. said' = IF online[to] THEN [said EXCEPT ![to] = Append(said[to], m)] ELSE said
  BY <1>1 DEF Tell
<1>3. /\ Append(said[to], m) \in Seq(Packet) /\ Len(Append(said[to], m)) = Len(said[to]) + 1
      /\ \A s, T : Mentions(Append(said[to], m), s, T) <=>
                     Mentions(said[to], s, T) \/ (m.s = s /\ m.type \in T)
  BY <1>1, MentionsAppend
<1>4. /\ said' \in [User -> Seq(Packet)]
      /\ \A v \in User : v # to => said'[v] = said[v]
      /\ said'[to] = said[to] \/ said'[to] = Append(said[to], m)
  <2>1. CASE online[to]
    <3>1. said' = [said EXCEPT ![to] = Append(said[to], m)]
      BY <1>2, <2>1
    <3>2. said' \in [User -> Seq(Packet)]
      BY <1>1, <1>3, <3>1
    <3>3. said'[to] = Append(said[to], m) /\ \A v \in User : v # to => said'[v] = said[v]
      BY <1>1, <3>1
    <3> QED  BY <3>2, <3>3
  <2>2. CASE ~online[to]
    BY <1>1, <1>2, <2>2
  <2> QED  BY <2>1, <2>2
<1>5. \A v \in User : Len(said'[v]) >= Len(said[v])
  <2> SUFFICES ASSUME NEW v \in User
               PROVE  Len(said'[v]) >= Len(said[v])
    OBVIOUS
  <2>1. CASE said'[v] = said[v]
    BY <1>1, <2>1
  <2>2. CASE v = to /\ said'[to] = Append(said[to], m)
    BY <1>1, <1>3, <2>2
  <2> QED  BY <1>4, <2>1, <2>2
<1>6. \A v \in User, s \in Session : \A T :
        /\ Told(v, s, T) => Told(v, s, T)'
        /\ Told(v, s, T)' => Told(v, s, T) \/ (v = to /\ s = m.s /\ m.type \in T)
  BY <1>3, <1>4 DEF Told
<1> QED  BY <1>4, <1>5, <1>6

\* What is new and follows no farewell can be said.
LEMMA TellOnce ==
  ASSUME CallInv, NEW to \in User, NEW m \in Packet, Tell(to, m),
         ~Told(to, m.s, {m.type} \cup Farewell),
         m.type \in Farewell => \A v \in User : ~Told(v, m.s, Farewell)
  PROVE  FarewellOnce' /\ LastWord'
<1>1. /\ said[to] \in Seq(Packet) /\ \A v \in User : v # to => said'[v] = said[v]
      /\ said'[to] = said[to] \/ said'[to] = Append(said[to], m)
  BY TellTypes, OldTypes
<1> DEFINE n == Len(said[to]) + 1
<1>2. /\ DOMAIN Append(said[to], m) = DOMAIN said[to] \cup {n}
      /\ \A i \in DOMAIN said[to] : i < n /\ Append(said[to], m)[i] = said[to][i]
      /\ Append(said[to], m)[n] = m
      /\ n \in Nat /\ DOMAIN said[to] \subseteq Nat
  BY <1>1, MentionsAppend, LenProperties
<1> HIDE DEF n
<1>3. \A i \in DOMAIN said[to] : said[to][i].s = m.s =>
        said[to][i].type \notin Farewell /\ said[to][i].type # m.type
  BY DEF Told, Mentions
<1>4. ASSUME NEW v \in User, NEW s \in Session, NEW i \in Places(v, s)'
      PROVE  \/ i \in Places(v, s) /\ said'[v][i] = said[v][i] /\ (v = to => i < n)
             \/ v = to /\ s = m.s /\ i = n /\ said'[v][i] = m
  <2>1. i \in DOMAIN said'[v] /\ said'[v][i].s = s
    BY <1>4 DEF Places
  <2>2. CASE v # to
    BY <1>1, <2>1, <2>2 DEF Places
  <2>3. CASE v = to /\ said'[to] = said[to]
    BY <1>2, <2>1, <2>3 DEF Places
  <2>4. CASE v = to /\ said'[to] = Append(said[to], m)
    <3>1. CASE i = n
      BY <1>2, <2>1, <2>4, <3>1
    <3>2. CASE i # n
      BY <1>2, <2>1, <2>4, <3>2 DEF Places
    <3> QED  BY <3>1, <3>2
  <2> QED  BY <1>1, <2>2, <2>3, <2>4
<1>5. FarewellOnce'
  <2> SUFFICES ASSUME NEW s \in Session, NEW v \in User, NEW w \in User,
                      NEW i \in Farewells(v, s)', NEW j \in Farewells(w, s)'
               PROVE  v = w /\ i = j
    BY DEF FarewellOnce
  <2>1. /\ i \in Places(v, s)' /\ said'[v][i].type \in Farewell
        /\ j \in Places(w, s)' /\ said'[w][j].type \in Farewell
    BY DEF Farewells
  <2>2. /\ i \in Farewells(v, s) \/ (v = to /\ s = m.s /\ i = n /\ m.type \in Farewell)
        /\ j \in Farewells(w, s) \/ (w = to /\ s = m.s /\ j = n /\ m.type \in Farewell)
    BY <1>4, <2>1 DEF Farewells
  <2>3. m.type \in Farewell /\ s = m.s => Farewells(v, s) = {} /\ Farewells(w, s) = {}
    BY DEF Farewells, Places, Told, Mentions
  <2> QED  BY <2>2, <2>3 DEF CallInv, FarewellOnce
<1>6. LastWord'
  <2> SUFFICES ASSUME NEW v \in User, NEW s \in Session, NEW i \in Places(v, s)',
                      NEW j \in Places(v, s)', i < j
               PROVE  said'[v][i].type \notin Farewell /\ said'[v][i].type # said'[v][j].type
    BY DEF LastWord
  <2>1. CASE i \in Places(v, s) /\ said'[v][i] = said[v][i] /\ j \in Places(v, s) /\ said'[v][j] = said[v][j]
    BY <2>1 DEF CallInv, LastWord
  <2>2. CASE i \in Places(v, s) /\ said'[v][i] = said[v][i] /\ v = to /\ s = m.s /\ j = n /\ said'[v][j] = m
    BY <1>3, <2>2 DEF Places
  <2>3. CASE v = to /\ i = n
    <3>1. j \in Nat /\ (j = n \/ j < n)
      BY <1>2, <1>4, <2>3 DEF Places
    <3> QED  BY <1>2, <2>3, <3>1
  <2> QED  BY <1>4, <2>1, <2>2, <2>3
<1> QED  BY <1>5, <1>6

\* The callee is not there: the caller is told that the call is declined.
LEMMA UnreachableInv ==
  ASSUME CallInv, NEW u \in User, NEW s \in Session, Begin(u), Head(up[u]) = Msg("INVITE", s),
         Tell(u, Msg("DECLINE", s)), UNCHANGED <<session, row, srv>>
  PROVE  CallInv'
<1> USE DEF CallInv
<1> DEFINE m == Msg("DECLINE", s)
<1>1. m \in Packet /\ m.s = s /\ m.type = "DECLINE"
  BY DEF Msg, Packet, Type
<1> HIDE DEF m
<1>2. /\ up' \in [User -> Seq(Packet)]
      /\ Asked(Caller[s], s, {"INVITE"}) /\ u = Caller[s]
      /\ \A v \in User, z \in Session : \A T : Asked(v, z, T)' => Asked(v, z, T)
      /\ \A z \in Session : Single(up[Caller[z]], z)'
      /\ ~Asked(Caller[s], s, {"INVITE"})'
      /\ UNCHANGED <<online, routed, read, client, stream, co, log, begun, hungup>>
  <2>1. Head(up[u]).s = s /\ Head(up[u]).type = "INVITE"
    BY DEF Msg
  <2>2. \A T : Head(up[u]).type \in T => Asked(u, Head(up[u]).s, T)
    BY BeginTypes, Zenon
  <2>3. u = Caller[s] /\ ~Asked(Caller[s], s, {"INVITE"})'
    BY BeginTypes, Zenon
  <2>4. Asked(Caller[s], s, {"INVITE"})
    BY <2>1, <2>2, <2>3
  <2>5. /\ up' \in [User -> Seq(Packet)]
        /\ \A v \in User, z \in Session : \A T : Asked(v, z, T)' => Asked(v, z, T)
        /\ \A z \in Session : Single(up[Caller[z]], z)'
        /\ UNCHANGED <<online, routed, read, client, stream, co, log, begun, hungup>>
    BY BeginTypes, Zenon
  <2> QED  BY <2>3, <2>4, <2>5
<1>3. /\ Caller \in [Session -> User] /\ Callee \in [Session -> User]
      /\ \A z \in Session : Caller[z] # Callee[z]
  BY CallAssumption
<1>4. s \in begun /\ session[s] = "none" /\ \A v \in User : ~Told(v, s, Type)
  BY <1>2 DEF InviteOnce
<1>5. Tell(u, m)
  BY DEF m
<1>6. /\ said' \in [User -> Seq(Packet)] /\ \A v \in User : Len(said'[v]) >= Len(said[v])
      /\ \A v \in User, z \in Session : \A T :
           Told(v, z, T)' => Told(v, z, T) \/ (v = u /\ z = s /\ "DECLINE" \in T)
      /\ \A v \in User, z \in Session : \A T : z # s \/ v # u => (Told(v, z, T)' <=> Told(v, z, T))
  BY <1>1, <1>5, TellTypes
<1>7. \A v \in User, z \in Session : \A T : Works(v, z, T)' <=> Works(v, z, T)
  BY DEF Works
<1>8. \A v \in User, z \in Session : (Offered(v, z)' <=> Offered(v, z)) /\ (Engaged(v, z)' <=> Engaged(v, z))
  BY <1>2, HeldAsBefore
<1>9. Records' /\ CallTypeOK'
  <2>1. /\ session' \in [Session -> {"none", "pending", "active", "gone"}]
        /\ row' \in [Session -> [status : {"none", "pending", "active", "ended"}, ended : BOOLEAN]]
        /\ srv' \in [User -> [pc : {"idle"}, m : {<<>>}] \cup [pc : {"write", "forward"}, m : Packet]]
    BY DEF CallTypeOK
  <2> HIDE DEF CallInv
  <2> QED  BY <1>2, <1>6, <2>1, ServerTypes
<1>10. Roles'
  <2> SUFFICES ASSUME NEW v \in User, NEW z \in Session
               PROVE  (/\ Asked(v, z, {"INVITE"}) \/ Works(v, z, {"INVITE"}) => v = Caller[z]
                       /\ Asked(v, z, {"ACCEPT", "DECLINE"}) \/ Works(v, z, {"ACCEPT", "DECLINE"})
                            => v = Callee[z]
                       /\ Asked(v, z, {"END"}) \/ Works(v, z, {"END"}) => v \in Party(z)
                       /\ Told(v, z, {"INVITE"}) => v = Callee[z]
                       /\ Offered(v, z) => v = Callee[z]
                       /\ Engaged(v, z) => v \in Party(z))'
    BY DEF Roles
  <2> QED  BY <1>2, <1>6, <1>7, <1>8 DEF Roles, Party
<1>11. InviteOnce'
  <2> SUFFICES ASSUME NEW z \in Session
               PROVE  (/\ z \notin begun => ~Asked(Caller[z], z, {"INVITE"})
                       /\ z \notin begun \/ Asked(Caller[z], z, {"INVITE"}) =>
                            session[z] = "none" /\ \A v \in User : ~Told(v, z, Type)
                       /\ Single(up[Caller[z]], z))'
    BY DEF InviteOnce
  <2> QED  BY <1>2, <1>3, <1>4, <1>6 DEF InviteOnce
<1>12. Stages'
  <2> SUFFICES ASSUME NEW v \in User, NEW z \in Session
               PROVE  (/\ session[z] = "none" =>
                            ~Works(v, z, Type) /\ ~Told(v, z, {"INVITE", "ACCEPT", "END"})
                       /\ session[z] = "pending" =>
                            ~Works(v, z, Type \ {"INVITE"}) /\ ~Told(v, z, Type \ {"INVITE"})
                       /\ session[z] = "active" => ~Works(v, z, Farewell) /\ ~Told(v, z, Farewell))'
    BY DEF Stages
  <2>1. CASE z # s
    BY <1>6, <1>7, <2>1 DEF Stages
  <2>2. CASE z = s
    BY <1>4, <1>6, <1>7, <2>2 DEF Stages
  <2> QED  BY <2>1, <2>2
<1>13. SaidOnce'
  <2>1. \A v \in User : ~Works(v, s, Type) /\ ~Works(v, s, Farewell)
    BY <1>4 DEF Stages, Works, Farewell, Type
  <2> SUFFICES ASSUME NEW v \in User, NEW z \in Session, z # s
               PROVE  /\ Works(v, z, Type) =>
                            ~Mentions(said'[Recipient(v, srv[v].m)], z, {srv[v].m.type} \cup Farewell)
                      /\ Works(v, z, Farewell) => \A w \in User : /\ ~Told(w, z, Farewell)'
                                                                  /\ Works(w, z, Farewell) => w = v
    BY <1>7, <2>1 DEF SaidOnce, Told
  <2>2. Works(v, z, Type) =>
          /\ Recipient(v, srv[v].m) \in User
          /\ ~Told(Recipient(v, srv[v].m), z, {srv[v].m.type} \cup Farewell)
    BY RecipientIsOther DEF SaidOnce
  <2>3. Works(v, z, Farewell) => \A w \in User : ~Told(w, z, Farewell) /\ (Works(w, z, Farewell) => w = v)
    BY DEF SaidOnce
  <2>4. \A w \in User : \A T : Mentions(said'[w], z, T) => Mentions(said[w], z, T)
    BY <1>6 DEF Told
  <2> QED  BY <2>2, <2>3, <2>4 DEF Told
<1>14. FarewellOnce' /\ LastWord'
  <2>1. ~Told(u, s, {"DECLINE"} \cup Farewell) /\ \A v \in User : ~Told(v, s, Farewell)
    BY <1>4 DEF Told, Mentions, Farewell, Type
  <2> HIDE DEF CallInv
  <2> QED  BY <1>1, <1>5, <2>1, TellOnce
<1>15. RowFirst'
  <2>1. \A z \in Session : Told(Callee[z], z, Type)' => Told(Callee[z], z, Type)
    BY <1>2, <1>3, <1>6
  <2> QED  BY <1>2, <1>3, <1>7, <1>8, <2>1 DEF RowFirst
<1>16. EndIsWritten'
  BY <1>7 DEF EndIsWritten
<1> QED  BY <1>9, <1>10, <1>11, <1>12, <1>13, <1>14, <1>15, <1>16

LEMMA ManagerInviteInv ==
  ASSUME CallInv, NEW u \in User, NEW s \in Session, ManagerInvite(u, s)
  PROVE  CallInv'
<1>1. Begin(u) /\ Head(up[u]) = Msg("INVITE", s)
  BY DEF ManagerInvite
<1>2. CASE routed[Callee[s]]
  <2>1. /\ session' = [session EXCEPT ![s] = "pending"] /\ Work(u, "write", Msg("INVITE", s))
        /\ UNCHANGED <<said, row>>
    BY <1>1, <1>2 DEF ManagerInvite
  <2>2. session[s] = "none"
    <3>1. Head(up[u]).s = s /\ Head(up[u]).type = "INVITE"
      BY <1>1 DEF Msg
    <3>2. Asked(u, s, {"INVITE"}) /\ u = Caller[s]
      BY <1>1, <3>1, BeginTypes
    <3> QED  BY <3>2 DEF CallInv, InviteOnce
  <2> QED  BY <1>1, <2>1, <2>2, AdmittedInv DEF Admits, Type
<1>3. CASE ~routed[Callee[s]]
  <2>1. Tell(u, Msg("DECLINE", s)) /\ UNCHANGED <<session, row, srv>>
    BY <1>3 DEF ManagerInvite, Tell, server
  <2> QED  BY <1>1, <2>1, UnreachableInv
<1> QED  BY <1>2, <1>3

LEMMA ManagerAcceptInv ==
  ASSUME CallInv, NEW u \in User, NEW s \in Session, ManagerAccept(u, s)
  PROVE  CallInv'
<1>1. Begin(u) /\ Head(up[u]) = Msg("ACCEPT", s) /\ UNCHANGED <<said, row>>
  BY DEF ManagerAccept
<1>2. CASE session[s] = "pending"
  <2>1. session' = [session EXCEPT ![s] = "active"] /\ Work(u, "write", Msg("ACCEPT", s))
    BY <1>1, <1>2 DEF ManagerAccept
  <2> QED  BY <1>1, <1>2, <2>1, AdmittedInv DEF Admits, Type
<1>3. CASE session[s] # "pending"
  BY <1>1, <1>3, DroppedInv DEF ManagerAccept
<1> QED  BY <1>2, <1>3

LEMMA ManagerEndInv ==
  ASSUME CallInv, NEW u \in User, NEW s \in Session, ManagerEnd(u, s)
  PROVE  CallInv'
<1>1. Begin(u) /\ UNCHANGED <<said, row>>
  BY DEF ManagerEnd
<1>2. PICK t \in Farewell : Head(up[u]) = Msg(t, s)
  BY DEF ManagerEnd, Farewell
<1>3. CASE Listed(s)
  <2>1. session' = [session EXCEPT ![s] = "gone"] /\ Work(u, "write", Msg(t, s))
    BY <1>2, <1>3 DEF ManagerEnd
  <2>2. t \in Type /\ Admits(t, session[s], "gone")
    BY <1>3 DEF Admits, Listed, Farewell, Type
  <2> QED  BY <1>1, <1>2, <2>1, <2>2, AdmittedInv
<1>4. CASE ~Listed(s)
  BY <1>1, <1>4, DroppedInv DEF ManagerEnd
<1> QED  BY <1>3, <1>4

\* What the server is at for u, when it is at something.
LEMMA WorkTypes ==
  ASSUME CallInv, NEW u \in User, srv[u].pc # "idle"
  PROVE  /\ srv[u].pc \in {"write", "forward"} /\ srv[u].m \in Packet
         /\ srv[u].m.s \in Session /\ srv[u].m.type \in Type
         /\ \A s, T : Works(u, s, T) <=> s = srv[u].m.s /\ srv[u].m.type \in T
<1>1. srv[u] \in [pc : {"idle"}, m : {<<>>}] \cup [pc : {"write", "forward"}, m : Packet]
  BY DEF CallInv, CallTypeOK
<1>2. srv[u].pc \in {"write", "forward"} /\ srv[u].m \in Packet
  BY <1>1
<1> QED  BY <1>2 DEF Works, Packet

RowRecord == [status : {"none", "pending", "active", "ended"}, ended : BOOLEAN]

LEMMA WriteRowInv ==
  ASSUME CallInv, NEW u \in User, WriteRow(u)
  PROVE  CallInv'
<1> USE DEF CallInv
<1> DEFINE m == srv[u].m
           s == m.s
           old == row[s]
<1>1. /\ srv[u].pc = "write"
      /\ UNCHANGED <<session, up, online, routed, said, read, client, stream, co, log, begun, hungup>>
      /\ srv' = [srv EXCEPT ![u] = [pc |-> "forward", m |-> m]]
  BY DEF WriteRow, Work, network, clients
<1>2. /\ m \in Packet /\ s \in Session /\ m.type \in Type
      /\ \A z, T : Works(u, z, T) <=> z = s /\ m.type \in T
  BY <1>1, WorkTypes
<1>3. /\ srv \in [User -> [pc : {"idle"}, m : {<<>>}] \cup [pc : {"write", "forward"}, m : Packet]]
      /\ row \in [Session -> [status : {"none", "pending", "active", "ended"}, ended : BOOLEAN]]
      /\ session \in [Session -> {"none", "pending", "active", "gone"}]
      /\ up \in [User -> Seq(Packet)] /\ said \in [User -> Seq(Packet)]
      /\ \A v \in User : Len(said[v]) \in Nat
  BY LenProperties DEF CallTypeOK
<1>4. /\ srv' \in [User -> [pc : {"idle"}, m : {<<>>}] \cup [pc : {"write", "forward"}, m : Packet]]
      /\ srv'[u].pc = "forward" /\ srv'[u].m = m /\ \A v \in User : v # u => srv'[v] = srv[v]
  <2>1. [pc |-> "forward", m |-> m] \in [pc : {"write", "forward"}, m : Packet]
    BY <1>2
  <2> QED  BY <1>1, <1>3, <2>1
<1>5. /\ row' \in [Session -> RowRecord]
      /\ \A z \in Session : z # s => row'[z] = row[z]
      /\ \A z \in Session : row[z].status # "none" => row'[z].status # "none"
      /\ \A z \in Session : row[z].ended => row'[z].ended
      /\ m.type \in {"INVITE", "ACCEPT"} => row'[s].status # "none"
      /\ m.type \in Farewell /\ row[s].status # "none" => row'[s].ended
  <2>1. old \in RowRecord
    BY <1>2, <1>3 DEF RowRecord
  <2>2. ASSUME NEW new \in RowRecord, row' = [row EXCEPT ![s] = new],
               old.status # "none" => new.status # "none", old.ended => new.ended,
               m.type \in {"INVITE", "ACCEPT"} => new.status # "none",
               m.type \in Farewell /\ old.status # "none" => new.ended
        PROVE  /\ row' \in [Session -> RowRecord]
               /\ \A z \in Session : z # s => row'[z] = row[z]
               /\ \A z \in Session : row[z].status # "none" => row'[z].status # "none"
               /\ \A z \in Session : row[z].ended => row'[z].ended
               /\ m.type \in {"INVITE", "ACCEPT"} => row'[s].status # "none"
               /\ m.type \in Farewell /\ row[s].status # "none" => row'[s].ended
    <3>1. row \in [Session -> RowRecord] /\ s \in Session
      BY <1>2, <1>3 DEF RowRecord
    <3>2. row'[s] = new /\ \A z \in Session : z # s => row'[z] = row[z]
      BY <2>2, <3>1
    <3>3. row' \in [Session -> RowRecord]
      BY <2>2, <3>1
    <3> QED  BY <2>2, <3>1, <3>2, <3>3
  <2>3. CASE m.type = "INVITE"
    <3> DEFINE new == [old EXCEPT !.status = "pending"]
    <3>1. new \in RowRecord /\ new.status = "pending" /\ (old.ended => new.ended)
      BY <2>1 DEF RowRecord
    <3>2. row' = [row EXCEPT ![s] = new]
      BY <2>3 DEF WriteRow
    <3> HIDE DEF new
    <3> QED  BY <2>2, <2>3, <3>1, <3>2 DEF Farewell
  <2>4. CASE m.type = "ACCEPT"
    <3> DEFINE new == [old EXCEPT !.status = "active"]
    <3>1. new \in RowRecord /\ new.status = "active" /\ (old.ended => new.ended)
      BY <2>1 DEF RowRecord
    <3>2. row' = [row EXCEPT ![s] = new]
      BY <2>4 DEF WriteRow
    <3> HIDE DEF new
    <3> QED  BY <2>2, <2>4, <3>1, <3>2 DEF Farewell
  <2>5. CASE m.type \in Farewell
    <3> DEFINE new == IF old.status = "none" THEN old ELSE [status |-> "ended", ended |-> TRUE]
    <3>1. new \in RowRecord /\ (old.status # "none" => new.status = "ended" /\ new.ended)
          /\ (old.ended => new.ended)
      BY <2>1 DEF RowRecord
    <3>2. row' = [row EXCEPT ![s] = new]
      BY <2>5 DEF WriteRow, Farewell
    <3>3. m.type \notin {"INVITE", "ACCEPT"}
      BY <2>5 DEF Farewell
    <3> HIDE DEF new
    <3> QED  BY <2>2, <2>5, <3>1, <3>2, <3>3
  <2> QED  BY <1>2, <2>3, <2>4, <2>5 DEF Type, Farewell
<1>6. \A v \in User, z \in Session : \A T :
        /\ Works(v, z, T)' <=> Works(v, z, T)
        /\ Told(v, z, T)' <=> Told(v, z, T)
        /\ Asked(v, z, T)' <=> Asked(v, z, T)
  BY <1>1, <1>4 DEF Works, Told, Asked
<1>7. \A v \in User, z \in Session : (Offered(v, z)' <=> Offered(v, z)) /\ (Engaged(v, z)' <=> Engaged(v, z))
  BY <1>1, HeldAsBefore
<1>8. /\ Caller \in [Session -> User] /\ Callee \in [Session -> User]
      /\ \A z \in Session : Caller[z] # Callee[z]
  BY CallAssumption
<1>9. Records' /\ CallTypeOK'
  <2>1. \A v \in User : Len(said'[v]) >= Len(said[v])
    BY <1>1, <1>3
  <2> HIDE DEF CallInv
  <2> QED  BY <1>1, <1>3, <1>4, <1>5, <2>1, ServerTypes DEF RowRecord
<1>10. Roles'
  BY <1>6, <1>7 DEF Roles, Party
<1>11. InviteOnce'
  BY <1>1, <1>6, <1>8 DEF InviteOnce
<1>12. Stages'
  BY <1>1, <1>6 DEF Stages
<1>13. SaidOnce'
  <2>1. \A v \in User : srv'[v].m = srv[v].m
    BY <1>4
  <2> SUFFICES ASSUME NEW v \in User, NEW z \in Session
               PROVE  /\ Works(v, z, Type) =>
                            ~Mentions(said[Recipient(v, srv[v].m)], z, {srv[v].m.type} \cup Farewell)
                      /\ Works(v, z, Farewell) => \A w \in User : /\ ~Told(w, z, Farewell)
                                                                  /\ Works(w, z, Farewell) => w = v
    BY <1>1, <1>6, <2>1 DEF SaidOnce, Told
  <2> QED  BY DEF SaidOnce, Told
<1>14. FarewellOnce' /\ LastWord'
  BY <1>1 DEF FarewellOnce, LastWord, Farewells, Places
\* A farewell is only written when there is a row: the callee spoke of the session, or
\* the caller, whose invitation was written before.
<1>15. m.type \in Farewell /\ session[s] # "none" => row[s].status # "none"
  <2>1. u \in Party(s)
    BY <1>2, RecipientIsOther
  <2>2. u = Callee[s] => row[s].status # "none"
    BY <1>2 DEF RowFirst
  <2>3. u = Caller[s] /\ m.type \in Farewell => ~Works(Caller[s], s, {"INVITE"})
    BY <1>2 DEF Farewell
  <2> QED  BY <1>2, <2>1, <2>2, <2>3 DEF RowFirst, Party
<1>16. RowFirst'
  <2> SUFFICES ASSUME NEW z \in Session
               PROVE  (/\ session[z] # "none" /\ row[z].status = "none" =>
                            srv[Caller[z]].pc = "write" /\ Works(Caller[z], z, {"INVITE"})
                       /\ \/ Asked(Callee[z], z, Type) \/ Works(Callee[z], z, Type)
                          \/ Told(Callee[z], z, Type) \/ Offered(Callee[z], z)
                          \/ Engaged(Callee[z], z)
                          => session[z] # "none" /\ row[z].status # "none")'
    BY DEF RowFirst
  <2>1. session'[z] # "none" /\ row'[z].status = "none" =>
          srv'[Caller[z]].pc = "write" /\ Works(Caller[z], z, {"INVITE"})'
    <3>1. CASE Caller[z] # u
      BY <1>1, <1>4, <1>5, <1>6, <1>8, <3>1 DEF RowFirst
    <3>2. CASE Caller[z] = u /\ z = s
      <4>1. session[s] # "none" /\ row'[s].status = "none" => m.type \in Farewell /\ row[s].status = "none"
        BY <1>2, <1>5 DEF Type, Farewell
      <4> QED  BY <1>1, <1>15, <3>2, <4>1
    <3>3. CASE Caller[z] = u /\ z # s
      BY <1>1, <1>2, <1>5, <3>3 DEF RowFirst
    <3> QED  BY <3>1, <3>2, <3>3
  <2> QED  BY <1>1, <1>5, <1>6, <1>7, <1>8, <2>1 DEF RowFirst
<1>17. EndIsWritten'
  <2> SUFFICES ASSUME NEW z \in Session, session[z] = "gone"
               PROVE  row'[z].ended \/ \E v \in User : srv'[v].pc = "write" /\ Works(v, z, Farewell)'
    BY <1>1 DEF EndIsWritten
  <2>1. CASE row[z].ended
    BY <1>5, <2>1
  <2>2. ASSUME NEW v \in User, srv[v].pc = "write", Works(v, z, Farewell)
        PROVE  row'[z].ended \/ \E w \in User : srv'[w].pc = "write" /\ Works(w, z, Farewell)'
    <3>1. CASE v # u
      BY <1>4, <1>6, <2>2, <3>1
    <3>2. CASE v = u
      BY <1>2, <1>5, <1>15, <2>2, <3>2
    <3> QED  BY <3>1, <3>2
  <2> QED  BY <2>1, <2>2 DEF EndIsWritten
<1> QED  BY <1>9, <1>10, <1>11, <1>12, <1>13, <1>14, <1>16, <1>17

LEMMA ForwardInv ==
  ASSUME CallInv, NEW u \in User, Forward(u)
  PROVE  CallInv'
<1> USE DEF CallInv
<1> DEFINE m == srv[u].m
           s == m.s
           to == Recipient(u, m)
<1>1. /\ srv[u].pc = "forward" /\ Tell(to, m)
      /\ srv' = [srv EXCEPT ![u] = [pc |-> "idle", m |-> <<>>]]
      /\ UNCHANGED <<session, row, up, online, routed, read, client, stream, co, log, begun, hungup>>
  BY DEF Forward, Tell, clients
<1>2. /\ m \in Packet /\ s \in Session /\ m.type \in Type
      /\ \A z, T : Works(u, z, T) <=> z = s /\ m.type \in T
  BY <1>1, WorkTypes
<1>3. /\ u \in Party(s) /\ to \in Party(s) \ {u} /\ to \in User
      /\ \A v \in User : Works(v, s, Type) /\ Recipient(v, srv[v].m) = to => v = u
  BY <1>2, RecipientIsOther
<1> HIDE DEF to
<1>4. /\ said' \in [User -> Seq(Packet)]
      /\ \A v \in User : Len(said'[v]) >= Len(said[v])
      /\ \A v \in User : v # to => said'[v] = said[v]
      /\ \A v \in User, z \in Session : \A T :
           Told(v, z, T)' => Told(v, z, T) \/ (v = to /\ z = s /\ m.type \in T)
  BY <1>1, <1>2, <1>3, TellTypes
<1>5. /\ srv' \in [User -> [pc : {"idle"}, m : {<<>>}] \cup [pc : {"write", "forward"}, m : Packet]]
      /\ srv'[u].pc = "idle" /\ \A v \in User : v # u => srv'[v] = srv[v]
  <2>1. srv \in [User -> [pc : {"idle"}, m : {<<>>}] \cup [pc : {"write", "forward"}, m : Packet]]
    BY DEF CallTypeOK
  <2> QED  BY <1>1, <2>1
<1>6. \A v \in User, z \in Session : \A T :
        /\ Works(v, z, T)' <=> v # u /\ Works(v, z, T)
        /\ Asked(v, z, T)' <=> Asked(v, z, T)
  BY <1>1, <1>5 DEF Works, Asked
<1>7. \A v \in User, z \in Session : (Offered(v, z)' <=> Offered(v, z)) /\ (Engaged(v, z)' <=> Engaged(v, z))
  BY <1>1, HeldAsBefore
<1>8. /\ Caller \in [Session -> User] /\ Callee \in [Session -> User]
      /\ \A z \in Session : Caller[z] # Callee[z]
  BY CallAssumption
<1>9. /\ ~Told(to, s, {m.type} \cup Farewell)
      /\ m.type \in Farewell => \A v \in User : /\ ~Told(v, s, Farewell)
                                                /\ Works(v, s, Farewell) => v = u
  BY <1>2 DEF SaidOnce, to
<1>10. /\ session[s] # "none"
       /\ session[s] = "pending" => m.type = "INVITE"
       /\ session[s] = "active" => m.type \notin Farewell
  BY <1>2 DEF Stages
<1>11. Records' /\ CallTypeOK'
  <2>1. /\ session' \in [Session -> {"none", "pending", "active", "gone"}]
        /\ row' \in [Session -> [status : {"none", "pending", "active", "ended"}, ended : BOOLEAN]]
        /\ up' \in [User -> Seq(Packet)]
    BY <1>1 DEF CallTypeOK
  <2> HIDE DEF CallInv
  <2> QED  BY <1>1, <1>4, <1>5, <2>1, ServerTypes
<1>12. Roles'
  <2> SUFFICES ASSUME NEW v \in User, NEW z \in Session
               PROVE  (/\ Asked(v, z, {"INVITE"}) \/ Works(v, z, {"INVITE"}) => v = Caller[z]
                       /\ Asked(v, z, {"ACCEPT", "DECLINE"}) \/ Works(v, z, {"ACCEPT", "DECLINE"})
                            => v = Callee[z]
                       /\ Asked(v, z, {"END"}) \/ Works(v, z, {"END"}) => v \in Party(z)
                       /\ Told(v, z, {"INVITE"}) => v = Callee[z]
                       /\ Offered(v, z) => v = Callee[z]
                       /\ Engaged(v, z) => v \in Party(z))'
    BY DEF Roles
  <2>1. m.type = "INVITE" => to = Callee[s]
    BY <1>2, <1>3 DEF Roles, Party
  <2> QED  BY <1>4, <1>6, <1>7, <2>1 DEF Roles, Party
<1>13. InviteOnce'
  <2> SUFFICES ASSUME NEW z \in Session
               PROVE  (/\ z \notin begun => ~Asked(Caller[z], z, {"INVITE"})
                       /\ z \notin begun \/ Asked(Caller[z], z, {"INVITE"}) =>
                            session[z] = "none" /\ \A v \in User : ~Told(v, z, Type)
                       /\ Single(up[Caller[z]], z))'
    BY DEF InviteOnce
  <2> QED  BY <1>1, <1>4, <1>6, <1>8, <1>10 DEF InviteOnce
<1>14. Stages'
  <2> SUFFICES ASSUME NEW v \in User, NEW z \in Session
               PROVE  (/\ session[z] = "none" =>
                            ~Works(v, z, Type) /\ ~Told(v, z, {"INVITE", "ACCEPT", "END"})
                       /\ session[z] = "pending" =>
                            ~Works(v, z, Type \ {"INVITE"}) /\ ~Told(v, z, Type \ {"INVITE"})
                       /\ session[z] = "active" => ~Works(v, z, Farewell) /\ ~Told(v, z, Farewell))'
    BY DEF Stages
  <2> QED  BY <1>1, <1>4, <1>6, <1>10 DEF Stages
<1>15. SaidOnce'
  <2> SUFFICES ASSUME NEW v \in User, v # u, NEW z \in Session
               PROVE  /\ Works(v, z, Type) =>
                            ~Mentions(said'[Recipient(v, srv[v].m)], z, {srv[v].m.type} \cup Farewell)
                      /\ Works(v, z, Farewell) => \A w \in User : /\ ~Told(w, z, Farewell)'
                                                                  /\ Works(w, z, Farewell) => w = v
    BY <1>5, <1>6 DEF SaidOnce, Told
  <2>1. Works(v, z, Type) =>
          /\ Recipient(v, srv[v].m) \in User
          /\ ~Told(Recipient(v, srv[v].m), z, {srv[v].m.type} \cup Farewell)
    BY RecipientIsOther DEF SaidOnce
  <2>2. Works(v, z, Type) =>
          ~Mentions(said'[Recipient(v, srv[v].m)], z, {srv[v].m.type} \cup Farewell)
    <3>1. CASE z = s
      BY <1>3, <1>4, <2>1, <3>1 DEF Told
    <3>2. CASE z # s
      BY <1>4, <2>1, <3>2 DEF Told
    <3> QED  BY <3>1, <3>2
  <2>3. ASSUME Works(v, z, Farewell), NEW w \in User
        PROVE  ~Told(w, z, Farewell)' /\ (Works(w, z, Farewell) => w = v)
    <3>1. ~Told(w, z, Farewell) /\ (Works(w, z, Farewell) => w = v)
      BY <2>3 DEF SaidOnce
    <3>2. ~(z = s /\ m.type \in Farewell)
      BY <1>9, <2>3
    <3> QED  BY <1>4, <3>1, <3>2
  <2> QED  BY <2>2, <2>3
<1>16. FarewellOnce' /\ LastWord'
  <2> HIDE DEF CallInv
  <2> QED  BY <1>1, <1>2, <1>3, <1>9, TellOnce
<1>17. RowFirst'
  <2> SUFFICES ASSUME NEW z \in Session
               PROVE  (/\ session[z] # "none" /\ row[z].status = "none" =>
                            srv[Caller[z]].pc = "write" /\ Works(Caller[z], z, {"INVITE"})
                       /\ \/ Asked(Callee[z], z, Type) \/ Works(Callee[z], z, Type)
                          \/ Told(Callee[z], z, Type) \/ Offered(Callee[z], z)
                          \/ Engaged(Callee[z], z)
                          => session[z] # "none" /\ row[z].status # "none")'
    BY DEF RowFirst
  <2>1. session[z] # "none" /\ row[z].status = "none" =>
          srv'[Caller[z]].pc = "write" /\ Works(Caller[z], z, {"INVITE"})'
    BY <1>1, <1>5, <1>6, <1>8 DEF RowFirst
  <2>2. Told(Callee[z], z, Type)' => session[z] # "none" /\ row[z].status # "none"
    <3>1. CASE Told(Callee[z], z, Type)
      BY <3>1 DEF RowFirst
    <3>2. CASE Callee[z] = to /\ z = s
      <4>1. u = Caller[s]
        BY <1>3, <3>2 DEF Party
      <4> QED  BY <1>1, <1>2, <1>10, <3>2, <4>1 DEF RowFirst
    <3> QED  BY <1>4, <1>8, <3>1, <3>2
  <2> QED  BY <1>1, <1>6, <1>7, <1>8, <2>1, <2>2 DEF RowFirst
<1>18. EndIsWritten'
  BY <1>1, <1>5, <1>6 DEF EndIsWritten
<1> QED  BY <1>11, <1>12, <1>13, <1>14, <1>15, <1>16, <1>17, <1>18

-----------------------------------------------------------------------------
LEMMA CallStutterInv == CallInv /\ UNCHANGED callVars => CallInv'
<1> SUFFICES ASSUME CallInv, UNCHANGED callVars PROVE CallInv'
  OBVIOUS
<1> USE DEF CallInv
<1>1. /\ UNCHANGED <<session, row, srv, up, online, routed, said, read>>
      /\ UNCHANGED <<client, stream, co, log, begun, hungup>>
  BY DEF callVars, server, network, clients
<1>2. \A v \in User, z \in Session : \A T :
        /\ Works(v, z, T)' <=> Works(v, z, T)
        /\ Told(v, z, T)' <=> Told(v, z, T)
        /\ Asked(v, z, T)' <=> Asked(v, z, T)
  BY <1>1 DEF Works, Told, Asked
<1>3. \A v \in User, z \in Session : (Offered(v, z)' <=> Offered(v, z)) /\ (Engaged(v, z)' <=> Engaged(v, z))
  BY <1>1, HeldAsBefore
<1>4. Caller \in [Session -> User] /\ Callee \in [Session -> User]
  BY CallAssumption
<1>5. CallTypeOK' /\ Records'
  BY <1>1 DEF CallTypeOK, Records
<1>6. Roles'
  BY <1>2, <1>3 DEF Roles, Party
<1>7. InviteOnce'
  BY <1>1, <1>2, <1>4 DEF InviteOnce
<1>8. Stages' /\ EndIsWritten'
  BY <1>1, <1>2 DEF Stages, EndIsWritten
<1>9. SaidOnce'
  BY <1>1 DEF SaidOnce, Works, Told, Recipient, Other
<1>10. FarewellOnce' /\ LastWord'
  BY <1>1 DEF FarewellOnce, LastWord, Farewells, Places
<1>11. RowFirst'
  BY <1>1, <1>2, <1>3, <1>4 DEF RowFirst
<1> QED  BY <1>5, <1>6, <1>7, <1>8, <1>9, <1>10, <1>11

LEMMA CallNextInv == CallInv /\ [CallNext]_callVars => CallInv'
<1> SUFFICES ASSUME CallInv, [CallNext]_callVars PROVE CallInv'
  OBVIOUS
<1>1. ASSUME NEW u \in User, ServerStep(u)
      PROVE  CallInv'
  <2>1. CASE WriteRow(u)
    BY <2>1, WriteRowInv
  <2>2. CASE Forward(u)
    BY <2>2, ForwardInv
  <2>3. CASE Unroute(u)
    BY <2>3, UnrouteInv
  <2>4. ASSUME NEW s \in Session, ManagerInvite(u, s) PROVE CallInv'
    BY <2>4, ManagerInviteInv
  <2>5. ASSUME NEW s \in Session, ManagerAccept(u, s) PROVE CallInv'
    BY <2>5, ManagerAcceptInv
  <2>6. ASSUME NEW s \in Session, ManagerEnd(u, s) PROVE CallInv'
    BY <2>6, ManagerEndInv
  <2> QED  BY <1>1, <2>1, <2>2, <2>3, <2>4, <2>5, <2>6 DEF ServerStep
<1>2. ASSUME NEW u \in User, Incoming(u)
      PROVE  CallInv'
  BY <1>2, HandleInviteInv, HandleAcceptInv, HandleDeclineInv, HandleEndInv DEF Incoming
<1>3. ASSUME NEW u \in User, Command(u)
      PROVE  CallInv'
  <2>1. CASE End(u)
    BY <2>1, EndInv
  <2>2. ASSUME NEW s \in Session, Invite(u, s) PROVE CallInv'
    BY <2>2, InviteInv
  <2>3. ASSUME NEW s \in Session, Accept(u, s) PROVE CallInv'
    BY <2>3, AcceptInv
  <2>4. ASSUME NEW s \in Session, Decline(u, s) PROVE CallInv'
    BY <2>4, DeclineInv
  <2> QED  BY <1>3, <2>1, <2>2, <2>3, <2>4 DEF Command
<1>4. ASSUME NEW u \in User, Leave(u)
      PROVE  CallInv'
  BY <1>4, LeaveInv
<1>5. ASSUME NEW u \in User, NEW k \in Routine, Continue(u, k)
      PROVE  CallInv'
  <2>1. CASE Save(u, k)
    BY <2>1, SaveInv
  <2>2. CASE Started(u, k)
    BY <2>2, StartedInv
  <2>3. CASE Stopped(u, k)
    BY <2>3, StoppedInv
  <2>4. CASE Close(u, k)
    BY <2>4, CloseInv
  <2> QED  BY <1>5, <2>1, <2>2, <2>3, <2>4 DEF Continue
<1>6. CASE UNCHANGED callVars
  BY <1>6, CallStutterInv
<1> QED  BY <1>1, <1>2, <1>3, <1>4, <1>5, <1>6 DEF CallNext

LEMMA CallInvHolds == CallSpec => []CallInv
<1>1. CallInit => CallInv
  BY CallInitInv
<1>2. CallInv /\ [CallNext]_callVars => CallInv'
  BY CallNextInv
<1> QED  BY <1>1, <1>2, PTL DEF CallSpec

-----------------------------------------------------------------------------
\* Sessions, rows, packets on their way, streams and coroutines stay well formed
\* through every interleaving of the server's handlers and the clients' two coroutines,
\* with connections that are lost (call_manager.py, handlers/call.py).
THEOREM CallTypeCorrect == CallSpec => []CallTypeOK
<1>1. CallInv => CallTypeOK
  BY DEF CallInv
<1> QED  BY <1>1, CallInvHolds, PTL

LEMMA AtMostOne ==
  ASSUME NEW S, \A x, y \in S : x = y
  PROVE  (Cardinality(S) = 0 /\ S = {}) \/ Cardinality(S) = 1
<1>1. CASE S = {}
  BY <1>1, FS_EmptySet
<1>2. ASSUME NEW x \in S
      PROVE  Cardinality(S) = 1
  <2>1. S = {x}
    BY <1>2
  <2> QED  BY <2>1, FS_Singleton
<1> QED  BY <1>1, <1>2

\* The server says at most one DECLINE or END of a call, to one of its parties, and
\* nothing of the call after it: decline and end_call pop the session before their
\* first await (call_manager.py), so that of two parties hanging up one goes on.
THEOREM CallsEndOnce == CallSpec => []FarewellIsLast
<1>1. CallInv => FarewellIsLast
  <2> SUFFICES ASSUME FarewellOnce, LastWord
               PROVE  FarewellIsLast
    BY DEF CallInv
  <2>1. ASSUME NEW s \in Session
        PROVE  Cardinality(Farewells(Caller[s], s)) + Cardinality(Farewells(Callee[s], s)) <= 1
    <3> DEFINE A == Farewells(Caller[s], s)
               B == Farewells(Callee[s], s)
    <3>1. Caller[s] \in User /\ Callee[s] \in User /\ Caller[s] # Callee[s]
      BY CallAssumption
    <3>2. /\ \A x, y \in A : x = y
          /\ \A x, y \in B : x = y
          /\ A = {} \/ B = {}
      BY <3>1 DEF FarewellOnce
    <3>3. /\ (Cardinality(A) = 0 /\ A = {}) \/ Cardinality(A) = 1
          /\ (Cardinality(B) = 0 /\ B = {}) \/ Cardinality(B) = 1
      BY <3>2, AtMostOne
    <3>4. Cardinality({}) = 0
      BY FS_EmptySet
    <3> HIDE DEF A, B
    <3>5. Cardinality(A) + Cardinality(B) <= 1
      BY <3>2, <3>3, <3>4
    <3> QED  BY <3>5 DEF A, B
  <2> QED  BY <2>1 DEF LastWord, FarewellIsLast
<1> QED  BY <1>1, CallInvHolds, PTL

\* A session that has left CallManager._sessions, and that no handler is busy with,
\* has an end in its row: the row is written before the callee hears of the call, so
\* that end_call on the row, which changes nothing where there is none, finds it.
THEOREM EndedCallsAreRecorded == CallSpec => []EndIsRecorded
<1>1. CallInv => EndIsRecorded
  BY DEF CallInv, EndIsWritten, EndIsRecorded, Works
<1> QED  BY <1>1, CallInvHolds, PTL

-----------------------------------------------------------------------------
\* What a step of u's client does to the fields the following invariants are about,
\* the other clients being left alone.

Aside(u) == \A v \in User \ {u} : /\ client'[v] = client[v] /\ co'[v] = co[v]
                                  /\ stream'[v] = stream[v]
                                  /\ up'[v] = up[v] /\ read'[v] = read[v]
\* Coroutine k of u is done, the other one being where it was.
Idles(u, k) == co'[u][k].pc = "idle" /\ \A j \in Routine : j # k => co'[u][j] = co[u][j]

LEMMA SendEffect ==
  ASSUME CallInv, NEW u \in User, NEW t \in Type, NEW s \in Session, Send(u, t, s)
  PROVE  /\ \A v \in User \ {u} : up'[v] = up[v]
         /\ UNCHANGED <<online, routed, said, read>>
         /\ online[u] => \A z, T : Asked(u, z, T)' <=> Asked(u, z, T) \/ (z = s /\ t \in T)
<1>1. /\ \A v \in User \ {u} : up'[v] = up[v]
      /\ UNCHANGED <<online, routed, said, read>>
  BY SendTypes
<1>2. Msg(t, s) \in Packet /\ Msg(t, s).type = t /\ Msg(t, s).s = s /\ up \in [User -> Seq(Packet)]
  BY OldTypes DEF Msg, Packet
<1>3. ASSUME online[u]
      PROVE  \A z, T : Asked(u, z, T)' <=> Asked(u, z, T) \/ (z = s /\ t \in T)
  <2>1. up'[u] = Append(up[u], Msg(t, s))
    BY <1>2, <1>3 DEF Send
  <2> QED  BY <1>2, <2>1, MentionsAppend DEF Asked
<1> QED  BY <1>1, <1>3

LEMMA GoEffect ==
  ASSUME CallInv, NEW u \in User, NEW k \in Routine, NEW r, Go(u, k, r)
  PROVE  /\ \A v \in User \ {u} : co'[v] = co[v]
         /\ co'[u][k] = r /\ \A j \in Routine : j # k => co'[u][j] = co[u][j]
<1>1. co \in [User -> [Routine -> Local]]
  BY OldTypes
<1> QED  BY <1>1 DEF Go

LEMMA InviteEffect ==
  ASSUME CallInv, NEW u \in User, NEW s \in Session, Invite(u, s)
  PROVE  /\ Caller[s] = u /\ s \notin begun /\ begun' = begun \cup {s}
         /\ Aside(u) /\ Send(u, "INVITE", s)
         /\ client'[u].active = s /\ client'[u].eph = <<u, s>>
         /\ client'[u].pending = client[u].pending
         /\ co[u]["ui"].pc = "idle" /\ co'[u]["ui"] = At("save", s) /\ co'[u]["rx"] = co[u]["rx"]
         /\ UNCHANGED <<session, srv, stream>>
<1>1. /\ Caller[s] = u /\ s \notin begun /\ begun' = begun \cup {s}
      /\ client' = [client EXCEPT ![u].eph = <<u, s>>, ![u].active = s]
      /\ Send(u, "INVITE", s) /\ Go(u, "ui", At("save", s)) /\ co[u]["ui"].pc = "idle"
      /\ UNCHANGED <<session, srv, stream>>
  BY DEF Invite, server, Free
<1>2. client \in [User -> ClientRecord]
  BY OldTypes
<1>3. /\ \A v \in User \ {u} : client'[v] = client[v]
      /\ client'[u].active = s /\ client'[u].eph = <<u, s>>
      /\ client'[u].pending = client[u].pending
  BY <1>1, <1>2 DEF ClientRecord
<1>4. /\ \A v \in User \ {u} : co'[v] = co[v]
      /\ co'[u]["ui"] = At("save", s) /\ co'[u]["rx"] = co[u]["rx"]
  BY <1>1, GoEffect DEF Routine
<1>5. (\A v \in User \ {u} : up'[v] = up[v]) /\ read' = read
  BY <1>1, SendEffect DEF Type
<1> QED  BY <1>1, <1>3, <1>4, <1>5 DEF Aside

\* The key that both sides derive from the two key pairs made for s.
CallKey(s) == Key(<<Caller[s], s>>, <<Callee[s], s>>, s)

LEMMA StartStreamEffect ==
  ASSUME CallInv, NEW u \in User, NEW s \in Session, NEW key, StartStream(u, s, key)
  PROVE  /\ \A v \in User \ {u} : stream'[v] = stream[v]
         /\ stream'[u][s].phase = "starting" /\ stream'[u][s].key = key
         /\ \A z \in Session \ {s} : stream'[u][z] = stream[u][z]
<1>1. stream \in [User -> [Session -> StreamRecord]]
  BY OldTypes
<1>2. stream' = [stream EXCEPT ![u][s] = [phase |-> "starting", key |-> key]]
  BY DEF StartStream
<1>3. stream'[u][s] = [phase |-> "starting", key |-> key]
  BY <1>1, <1>2
<1>4. (\A v \in User \ {u} : stream'[v] = stream[v])
      /\ \A z \in Session \ {s} : stream'[u][z] = stream[u][z]
  BY <1>1, <1>2
<1> QED  BY <1>3, <1>4

LEMMA AcceptEffect ==
  ASSUME CallInv, NEW u \in User, NEW s \in Session, Accept(u, s)
  PROVE  /\ s \in client[u].pending /\ u = Callee[s]
         /\ Aside(u) /\ Send(u, "ACCEPT", s)
         /\ client'[u].active = s /\ client'[u].eph = <<u, s>>
         /\ client'[u].pending = client[u].pending
         /\ stream'[u][s].phase = "starting" /\ stream'[u][s].key = CallKey(s)
         /\ \A z \in Session \ {s} : stream'[u][z] = stream[u][z]
         /\ co[u]["ui"].pc = "idle" /\ co'[u]["ui"] = At("start", s) /\ co'[u]["rx"] = co[u]["rx"]
         /\ UNCHANGED <<session, srv, begun>>
<1> DEFINE key == Key(<<u, s>>, <<Caller[s], s>>, s)
<1>1. /\ s \in client[u].pending /\ StartStream(u, s, key)
      /\ client' = [client EXCEPT ![u].key = key, ![u].eph = <<u, s>>,
                                  ![u].active = s, ![u].handle = s]
      /\ Send(u, "ACCEPT", s) /\ Go(u, "ui", At("start", s)) /\ co[u]["ui"].pc = "idle"
      /\ UNCHANGED <<session, srv, begun>>
  BY DEF Accept, server, Free
<1>2. u = Callee[s]
  BY <1>1 DEF CallInv, Roles, Offered
<1>3. key = CallKey(s)
  BY <1>2 DEF Key, CallKey
<1>4. client \in [User -> ClientRecord]
  BY OldTypes
<1>5. /\ \A v \in User \ {u} : client'[v] = client[v]
      /\ client'[u].active = s /\ client'[u].eph = <<u, s>>
      /\ client'[u].pending = client[u].pending
  <2> HIDE DEF key
  <2> QED  BY <1>1, <1>4 DEF ClientRecord
<1>6. /\ \A v \in User \ {u} : co'[v] = co[v]
      /\ co'[u]["ui"] = At("start", s) /\ co'[u]["rx"] = co[u]["rx"]
  BY <1>1, GoEffect DEF Routine
<1>7. (\A v \in User \ {u} : up'[v] = up[v]) /\ read' = read
  BY <1>1, SendEffect DEF Type
<1>8. /\ \A v \in User \ {u} : stream'[v] = stream[v]
      /\ stream'[u][s].phase = "starting" /\ stream'[u][s].key = CallKey(s)
      /\ \A z \in Session \ {s} : stream'[u][z] = stream[u][z]
  <2>1. StartStream(u, s, CallKey(s))
    BY <1>1, <1>3
  <2> HIDE DEF key
  <2> QED  BY <2>1, StartStreamEffect
<1> QED  BY <1>1, <1>2, <1>5, <1>6, <1>7, <1>8 DEF Aside

LEMMA DeclineEffect ==
  ASSUME CallInv, NEW u \in User, NEW s \in Session, Decline(u, s)
  PROVE  /\ s \in client[u].pending
         /\ Aside(u) /\ Send(u, "DECLINE", s)
         /\ client'[u].active = client[u].active /\ client'[u].eph = client[u].eph
         /\ client'[u].pending = client[u].pending \ {s}
         /\ co[u]["ui"].pc = "idle"
         /\ UNCHANGED <<session, srv, stream, co, begun>>
<1>1. /\ s \in client[u].pending
      /\ client' = [client EXCEPT ![u].pending = @ \ {s}]
      /\ Send(u, "DECLINE", s) /\ co[u]["ui"].pc = "idle"
      /\ UNCHANGED <<session, srv, stream, co, begun>>
  BY DEF Decline, server, Free
<1>2. client \in [User -> ClientRecord]
  BY OldTypes
<1>3. /\ \A v \in User \ {u} : client'[v] = client[v]
      /\ client'[u].active = client[u].active /\ client'[u].eph = client[u].eph
      /\ client'[u].pending = client[u].pending \ {s}
  BY <1>1, <1>2 DEF ClientRecord
<1>4. (\A v \in User \ {u} : up'[v] = up[v]) /\ read' = read
  BY <1>1, SendEffect DEF Type
<1> QED  BY <1>1, <1>3, <1>4 DEF Aside

\* What _stop_audio_stream does before its await.
LEMMA HangEffect ==
  ASSUME CallInv, NEW u \in User, NEW k \in Routine, NEW s \in Session, Hang(u, k, s)
  PROVE  /\ \A v \in User \ {u} : client'[v] = client[v] /\ co'[v] = co[v]
         /\ client'[u].active = client[u].active /\ client'[u].eph = client[u].eph
         /\ client'[u].pending = client[u].pending
         /\ co'[u][k].pc = (IF Suspends(u) THEN "stop" ELSE "close") /\ co'[u][k].s = s
         /\ \A j \in Routine : j # k => co'[u][j] = co[u][j]
         /\ UNCHANGED <<session, srv, stream, begun>>
<1>1. UNCHANGED <<session, srv, stream, begun>> /\ client \in [User -> ClientRecord]
  BY OldTypes DEF Hang, server
<1>2. CASE Suspends(u)
  <2>1. client' = client /\ Go(u, k, Stopping(s, client[u].handle))
    BY <1>2 DEF Hang
  <2> QED  BY <1>1, <1>2, <2>1, GoEffect DEF Stopping
<1>3. CASE ~Suspends(u)
  <2>1. client' = [client EXCEPT ![u].handle = NoSession] /\ Go(u, k, At("close", s))
    BY <1>3 DEF Hang
  <2>2. /\ \A v \in User \ {u} : client'[v] = client[v]
        /\ client'[u].active = client[u].active /\ client'[u].eph = client[u].eph
        /\ client'[u].pending = client[u].pending
    BY <1>1, <2>1 DEF ClientRecord
  <2> QED  BY <1>1, <1>3, <2>1, <2>2, GoEffect DEF At
<1> QED  BY <1>2, <1>3

LEMMA EndEffect ==
  ASSUME CallInv, NEW u \in User, End(u)
  PROVE  \E s \in Session :
           /\ client[u].active = s /\ Aside(u)
           /\ client'[u].active = client[u].active /\ client'[u].eph = client[u].eph
           /\ client'[u].pending = client[u].pending
           /\ co[u]["ui"].pc = "idle" /\ co'[u]["ui"].s = s /\ co'[u]["rx"] = co[u]["rx"]
           /\ \/ co'[u]["ui"].pc = "stop" /\ UNCHANGED network
              \/ co'[u]["ui"].pc = "close" /\ Send(u, "END", s)
           /\ UNCHANGED <<session, srv, stream, begun>>
<1>1. PICK s \in Session : s = client[u].active
  BY OldTypes DEF End, ClientRecord
<1>2. /\ Hang(u, "ui", s) /\ co[u]["ui"].pc = "idle"
      /\ IF Suspends(u) THEN UNCHANGED network ELSE Send(u, "END", s)
  BY <1>1 DEF End, Free
<1>3. /\ \A v \in User \ {u} : client'[v] = client[v] /\ co'[v] = co[v]
      /\ client'[u].active = client[u].active /\ client'[u].eph = client[u].eph
      /\ client'[u].pending = client[u].pending
      /\ co'[u]["ui"].pc = (IF Suspends(u) THEN "stop" ELSE "close") /\ co'[u]["ui"].s = s
      /\ co'[u]["rx"] = co[u]["rx"]
      /\ UNCHANGED <<session, srv, stream, begun>>
  BY <1>2, HangEffect DEF Routine
<1>4. CASE Suspends(u)
  BY <1>1, <1>2, <1>3, <1>4 DEF Aside, network
<1>5. CASE ~Suspends(u)
  <2>1. Send(u, "END", s) /\ "END" \in Type
    BY <1>2, <1>5 DEF Type
  <2>2. (\A v \in User \ {u} : up'[v] = up[v]) /\ read' = read
    BY <2>1, SendEffect
  <2> QED  BY <1>1, <1>2, <1>3, <1>5, <2>1, <2>2 DEF Aside
<1> QED  BY <1>4, <1>5

LEMMA SaveEffect ==
  ASSUME CallInv, NEW u \in User, NEW k \in Routine, Save(u, k)
  PROVE  /\ co[u][k].pc = "save" /\ co[u][k].s \in Session /\ Aside(u)
         /\ client'[u].active = client[u].active /\ client'[u].eph = client[u].eph
         /\ client'[u].pending = IF k = "ui" THEN client[u].pending
                                 ELSE client[u].pending \cup {co[u][k].s}
         /\ Idles(u, k)
         /\ UNCHANGED <<session, srv, network, stream, begun>>
<1> DEFINE s == co[u][k].s
<1>1. /\ co[u][k].pc = "save" /\ Go(u, k, Idle)
      /\ client' = IF k = "ui" THEN client ELSE [client EXCEPT ![u].pending = @ \cup {s}]
      /\ UNCHANGED <<session, srv, network, stream, begun>>
  BY DEF Save, server
<1>2. s \in Session /\ client \in [User -> ClientRecord]
  BY <1>1, LocalSession, OldTypes
<1>3. /\ \A v \in User \ {u} : client'[v] = client[v]
      /\ client'[u].active = client[u].active /\ client'[u].eph = client[u].eph
      /\ client'[u].pending = IF k = "ui" THEN client[u].pending ELSE client[u].pending \cup {s}
  <2>1. CASE k = "ui"
    BY <1>1, <2>1
  <2>2. CASE k # "ui"
    <3> DEFINE n == [client[u] EXCEPT !.pending = client[u].pending \cup {s}]
    <3>1. /\ n.active = client[u].active /\ n.eph = client[u].eph
          /\ n.pending = client[u].pending \cup {s}
      BY <1>2 DEF ClientRecord
    <3>2. client' = [client EXCEPT ![u] = n]
      BY <1>1, <1>2, <2>2
    <3> QED  BY <1>2, <2>2, <3>1, <3>2
  <2> QED  BY <2>1, <2>2
<1>4. /\ \A v \in User \ {u} : co'[v] = co[v]
      /\ co'[u][k].pc = "idle" /\ \A j \in Routine : j # k => co'[u][j] = co[u][j]
  BY <1>1, GoEffect DEF Idle
<1> QED  BY <1>1, <1>2, <1>3, <1>4 DEF Aside, Idles, network

LEMMA StartedEffect ==
  ASSUME CallInv, NEW u \in User, NEW k \in Routine, Started(u, k)
  PROVE  /\ co[u][k].pc = "start" /\ co[u][k].s \in Session /\ Aside(u)
         /\ client'[u].active = client[u].active /\ client'[u].eph = client[u].eph
         /\ client'[u].pending = IF k = "ui" THEN client[u].pending \ {co[u][k].s}
                                 ELSE client[u].pending
         /\ Idles(u, k)
         /\ \A z \in Session : /\ stream'[u][z].key = stream[u][z].key
                               /\ z # co[u][k].s => stream'[u][z] = stream[u][z]
         /\ UNCHANGED <<session, srv, network, begun>>
<1> DEFINE s == co[u][k].s
<1>1. PICK ok \in BOOLEAN :
        /\ stream' = [stream EXCEPT ![u][s].phase = IF ok THEN "running" ELSE "none"]
        /\ client' = [client EXCEPT ![u].handle = IF ok THEN @ ELSE NoSession,
                                    ![u].pending = IF k = "ui" THEN @ \ {s} ELSE @]
  BY DEF Started
<1>2. co[u][k].pc = "start" /\ Go(u, k, Idle) /\ UNCHANGED <<session, srv, network, begun>>
  BY DEF Started, server
<1>3. /\ s \in Session /\ client \in [User -> ClientRecord]
      /\ stream \in [User -> [Session -> StreamRecord]]
  BY <1>2, LocalSession, OldTypes
<1>4. /\ \A v \in User \ {u} : client'[v] = client[v]
      /\ client'[u].active = client[u].active /\ client'[u].eph = client[u].eph
      /\ client'[u].pending = IF k = "ui" THEN client[u].pending \ {s} ELSE client[u].pending
  <2> DEFINE n == [client[u] EXCEPT !.handle = IF ok THEN client[u].handle ELSE NoSession,
                                    !.pending = IF k = "ui" THEN client[u].pending \ {s}
                                                ELSE client[u].pending]
  <2>1. /\ n.active = client[u].active /\ n.eph = client[u].eph
        /\ n.pending = IF k = "ui" THEN client[u].pending \ {s} ELSE client[u].pending
    BY <1>3 DEF ClientRecord
  <2>2. client' = [client EXCEPT ![u] = n]
    BY <1>1, <1>3
  <2> QED  BY <1>3, <2>1, <2>2
<1>5. /\ \A v \in User \ {u} : stream'[v] = stream[v]
      /\ \A z \in Session : /\ stream'[u][z].key = stream[u][z].key
                            /\ z # s => stream'[u][z] = stream[u][z]
  <2> DEFINE n == [stream[u][s] EXCEPT !.phase = IF ok THEN "running" ELSE "none"]
  <2>1. stream[u][s] \in StreamRecord
    BY <1>3
  <2>2. n.key = stream[u][s].key
    BY <2>1 DEF StreamRecord
  <2>3. stream' = [stream EXCEPT ![u][s] = n]
    BY <1>1, <1>3
  <2> QED  BY <1>3, <2>2, <2>3
<1>6. /\ \A v \in User \ {u} : co'[v] = co[v]
      /\ co'[u][k].pc = "idle" /\ \A j \in Routine : j # k => co'[u][j] = co[u][j]
  BY <1>2, GoEffect DEF Idle
<1> QED  BY <1>2, <1>3, <1>4, <1>5, <1>6 DEF Aside, Idles, network

LEMMA StoppedEffect ==
  ASSUME CallInv, NEW u \in User, NEW k \in Routine, Stopped(u, k)
  PROVE  /\ co[u][k].pc = "stop" /\ co[u][k].s \in Session /\ Aside(u)
         /\ client'[u].active = client[u].active /\ client'[u].eph = client[u].eph
         /\ client'[u].pending = client[u].pending
         /\ co'[u][k].pc = "close" /\ co'[u][k].s = co[u][k].s
         /\ \A j \in Routine : j # k => co'[u][j] = co[u][j]
         /\ \A z \in Session : /\ stream'[u][z].key = stream[u][z].key
                               /\ stream'[u][z].phase = "running" => stream[u][z].phase = "running"
         /\ IF k = "ui" THEN Send(u, "END", co[u][k].s) ELSE UNCHANGED network
         /\ UNCHANGED <<session, srv, begun>>
<1> DEFINE s == co[u][k].s
           was == co[u][k].was
<1>1. /\ co[u][k].pc = "stop" /\ Go(u, k, At("close", s))
      /\ stream' = [stream EXCEPT ![u][was].phase = IF @ = "running" THEN "stopped" ELSE @]
      /\ client' = [client EXCEPT ![u].handle = NoSession]
      /\ IF k = "ui" THEN Send(u, "END", s) ELSE UNCHANGED network
      /\ UNCHANGED <<session, srv, begun>>
  BY DEF Stopped, server
<1>2. /\ s \in Session /\ was \in Session /\ client \in [User -> ClientRecord]
      /\ stream \in [User -> [Session -> StreamRecord]]
  BY <1>1, LocalSession, OldTypes
<1>3. /\ \A v \in User \ {u} : client'[v] = client[v]
      /\ client'[u].active = client[u].active /\ client'[u].eph = client[u].eph
      /\ client'[u].pending = client[u].pending
  BY <1>1, <1>2 DEF ClientRecord
<1>4. /\ \A v \in User \ {u} : stream'[v] = stream[v]
      /\ \A z \in Session : /\ stream'[u][z].key = stream[u][z].key
                            /\ stream'[u][z].phase = "running" => stream[u][z].phase = "running"
  <2> DEFINE old == stream[u][was]
             n == [old EXCEPT !.phase = IF old.phase = "running" THEN "stopped" ELSE old.phase]
  <2>1. old \in StreamRecord
    BY <1>2
  <2>2. n.key = old.key /\ (n.phase = "running" => old.phase = "running")
    BY <2>1 DEF StreamRecord
  <2>3. stream' = [stream EXCEPT ![u][was] = n]
    BY <1>1, <1>2
  <2> QED  BY <1>2, <2>2, <2>3
<1>5. /\ \A v \in User \ {u} : co'[v] = co[v]
      /\ co'[u][k].pc = "close" /\ co'[u][k].s = s
      /\ \A j \in Routine : j # k => co'[u][j] = co[u][j]
  BY <1>1, GoEffect DEF At
<1>6. (\A v \in User \ {u} : up'[v] = up[v]) /\ read' = read
  <2>1. CASE k = "ui"
    BY <1>1, <1>2, <2>1, SendEffect DEF Type
  <2>2. CASE k # "ui"
    BY <1>1, <2>2 DEF network
  <2> QED  BY <2>1, <2>2
<1> QED  BY <1>1, <1>2, <1>3, <1>4, <1>5, <1>6 DEF Aside

LEMMA CloseEffect ==
  ASSUME CallInv, NEW u \in User, NEW k \in Routine, Close(u, k)
  PROVE  /\ co[u][k].pc \in {"close", "declined"} /\ co[u][k].s \in Session /\ Aside(u)
         /\ \/ k = "ui" /\ client'[u].active = NoSession /\ client'[u].eph = <<>>
               /\ client'[u].pending = client[u].pending
            \/ /\ k # "ui" /\ client[u].active = co[u][k].s
               /\ client'[u].active = NoSession /\ client'[u].eph = <<>>
               /\ client'[u].pending = client[u].pending \ {co[u][k].s}
            \/ /\ k # "ui" /\ client[u].active # co[u][k].s
               /\ client'[u].active = client[u].active /\ client'[u].eph = client[u].eph
               /\ client'[u].pending = client[u].pending \ {co[u][k].s}
         /\ co'[u][k].pc = "idle" /\ \A j \in Routine : j # k => co'[u][j] = co[u][j]
         /\ UNCHANGED <<session, srv, network, stream, begun>>
<1> DEFINE s == co[u][k].s
           old == client[u]
           left == IF old.active = s THEN Forget(old) ELSE old
           kept == [left EXCEPT !.pending = @ \ {s}]
           n == IF k = "ui" THEN Forget(old) ELSE kept
<1>1. /\ co[u][k].pc \in {"close", "declined"} /\ Go(u, k, Idle)
      /\ client' = [client EXCEPT ![u] = n]
      /\ UNCHANGED <<session, srv, network, stream, begun>>
  BY DEF Close, server
<1>2. s \in Session /\ client \in [User -> ClientRecord] /\ old \in ClientRecord
  BY <1>1, LocalSession, OldTypes
<1>3. /\ Forget(old) \in ClientRecord /\ Forget(old).active = NoSession
      /\ Forget(old).eph = <<>> /\ Forget(old).pending = old.pending
  BY <1>2 DEF Forget, ClientRecord, Keys
<1>4. ASSUME NEW r \in ClientRecord
      PROVE  LET x == [r EXCEPT !.pending = @ \ {s}]
             IN x.active = r.active /\ x.eph = r.eph /\ x.pending = r.pending \ {s}
  BY DEF ClientRecord
<1>5. \/ k = "ui" /\ n.active = NoSession /\ n.eph = <<>> /\ n.pending = old.pending
      \/ /\ k # "ui" /\ old.active = s
         /\ n.active = NoSession /\ n.eph = <<>> /\ n.pending = old.pending \ {s}
      \/ /\ k # "ui" /\ old.active # s
         /\ n.active = old.active /\ n.eph = old.eph /\ n.pending = old.pending \ {s}
  <2>1. CASE k = "ui"
    BY <1>3, <2>1
  <2>2. CASE k # "ui" /\ old.active = s
    BY <1>3, <1>4, <2>2
  <2>3. CASE k # "ui" /\ old.active # s
    BY <1>2, <1>4, <2>3
  <2> QED  BY <2>1, <2>2, <2>3
<1>6. (\A v \in User \ {u} : client'[v] = client[v]) /\ client'[u] = n
  <2> HIDE DEF n
  <2> QED  BY <1>1, <1>2
<1>7. /\ \A v \in User \ {u} : co'[v] = co[v]
      /\ co'[u][k].pc = "idle" /\ \A j \in Routine : j # k => co'[u][j] = co[u][j]
  BY <1>1, GoEffect DEF Idle
<1> HIDE DEF n
<1> QED  BY <1>1, <1>2, <1>5, <1>6, <1>7 DEF Aside, network

\* A packet is taken and its handler goes as far as its first await.
LEMMA IncomingEffect ==
  ASSUME CallInv, NEW u \in User, Incoming(u)
  PROVE  /\ Take(u) /\ Aside(u) /\ Arriving(u).s \in Session
         /\ client'[u].active = client[u].active /\ client'[u].eph = client[u].eph
         /\ client'[u].pending = client[u].pending
         /\ co[u]["rx"].pc = "idle" /\ co'[u]["ui"] = co[u]["ui"]
         /\ co'[u]["rx"].s = Arriving(u).s
         /\ \/ Arriving(u).type = "INVITE" /\ co'[u]["rx"].pc = "save" /\ stream' = stream
            \/ /\ Arriving(u).type = "ACCEPT" /\ co'[u]["rx"].pc = "start"
               /\ stream'[u][Arriving(u).s].key \notin {NoKey}
               /\ client[u].eph # <<>> =>
                    stream'[u][Arriving(u).s].key =
                      Key(client[u].eph, <<Callee[Arriving(u).s], Arriving(u).s>>, Arriving(u).s)
               /\ \A z \in Session \ {Arriving(u).s} : stream'[u][z] = stream[u][z]
            \/ Arriving(u).type = "DECLINE" /\ co'[u]["rx"].pc = "declined" /\ stream' = stream
            \/ Arriving(u).type = "END" /\ co'[u]["rx"].pc \in {"stop", "close"} /\ stream' = stream
         /\ UNCHANGED <<session, srv, begun>>
<1> DEFINE s == Arriving(u).s
           t == Arriving(u).type
           c == client[u]
           key == CASE c.eph # <<>> -> Key(c.eph, <<Callee[s], s>>, s)
                    [] c.eph = <<>> /\ c.key # NoKey -> c.key
                    [] OTHER -> RandomKey(u, s)
<1>1. Take(u)
  BY DEF Incoming, HandleInvite, HandleAccept, HandleDecline, HandleEnd
<1>2. /\ s \in Session /\ co[u]["rx"].pc = "idle" /\ UNCHANGED <<up, said>>
      /\ client \in [User -> ClientRecord] /\ read \in [User -> Nat]
  BY <1>1, TakeTypes, OldTypes
<1>3. \A v \in User \ {u} : read'[v] = read[v] /\ up'[v] = up[v]
  BY <1>1, <1>2 DEF Take
<1>4. ASSUME NEW pc \in {"save", "declined"}, Go(u, "rx", At(pc, s)),
             UNCHANGED <<server, client, stream, log, begun, hungup>>
      PROVE  /\ Aside(u) /\ co'[u]["ui"] = co[u]["ui"] /\ client' = client /\ stream' = stream
             /\ co'[u]["rx"].s = s /\ co'[u]["rx"].pc = pc
             /\ UNCHANGED <<session, srv, begun>>
  <2>1. /\ \A v \in User \ {u} : co'[v] = co[v]
        /\ co'[u]["rx"] = At(pc, s) /\ co'[u]["ui"] = co[u]["ui"]
    BY <1>4, GoEffect DEF Routine
  <2> QED  BY <1>3, <1>4, <2>1 DEF Aside, At, server
<1>5. CASE HandleInvite(u)
  BY <1>1, <1>2, <1>4, <1>5 DEF HandleInvite
<1>6. CASE HandleDecline(u)
  BY <1>1, <1>2, <1>4, <1>6 DEF HandleDecline
<1>7. CASE HandleEnd(u)
  <2>1. Hang(u, "rx", s) /\ t = "END"
    BY <1>7 DEF HandleEnd
  <2>2. /\ \A v \in User \ {u} : client'[v] = client[v] /\ co'[v] = co[v]
        /\ client'[u].active = client[u].active /\ client'[u].eph = client[u].eph
        /\ client'[u].pending = client[u].pending
        /\ co'[u]["rx"].pc \in {"stop", "close"} /\ co'[u]["rx"].s = s
        /\ co'[u]["ui"] = co[u]["ui"]
        /\ UNCHANGED <<session, srv, stream, begun>>
    BY <1>2, <2>1, HangEffect DEF Routine
  <2> QED  BY <1>1, <1>2, <1>3, <2>1, <2>2 DEF Aside
<1>8. CASE HandleAccept(u)
  <2>1. /\ t = "ACCEPT" /\ client' = [client EXCEPT ![u].key = key, ![u].handle = s]
        /\ StartStream(u, s, key) /\ Go(u, "rx", At("start", s))
        /\ UNCHANGED <<session, srv, begun>>
    BY <1>8 DEF HandleAccept, server
  <2>2. key # NoKey /\ (c.eph # <<>> => key = Key(c.eph, <<Callee[s], s>>, s))
    BY DEF NoKey, Key, RandomKey
  <2> HIDE DEF key
  <2>3. /\ \A v \in User \ {u} : stream'[v] = stream[v]
        /\ stream'[u][s].key = key
        /\ \A z \in Session \ {s} : stream'[u][z] = stream[u][z]
    BY <1>2, <2>1, StartStreamEffect
  <2>4. /\ \A v \in User \ {u} : client'[v] = client[v]
        /\ client'[u].active = client[u].active /\ client'[u].eph = client[u].eph
        /\ client'[u].pending = client[u].pending
    BY <1>2, <2>1 DEF ClientRecord
  <2>5. /\ \A v \in User \ {u} : co'[v] = co[v]
        /\ co'[u]["rx"] = At("start", s) /\ co'[u]["ui"] = co[u]["ui"]
    BY <2>1, GoEffect DEF Routine
  <2> QED  BY <1>1, <1>2, <1>3, <2>1, <2>2, <2>3, <2>4, <2>5 DEF Aside, At
<1> QED  BY <1>5, <1>6, <1>7, <1>8 DEF Incoming

-----------------------------------------------------------------------------
\* Keys.  The key pair a client holds is the one of its active call, a stream has a key
\* from the moment it is started, and the key is the call's: at the callee because
\* it is derived for the call accepted, at the caller because the call it is
\* derived for is the active one, unless another was made active before the answer came.

StartingCall(u, s) == \E k \in Routine : co[u][k].pc = "start" /\ co[u][k].s = s

KeyOK(u, s) ==
  /\ client[u].eph = IF client[u].active = NoSession THEN <<>> ELSE <<u, client[u].active>>
  /\ Told(u, s, {"ACCEPT"}) => u = Caller[s]
  /\ Running(u, s) \/ StartingCall(u, s) => stream[u][s].key # NoKey
  /\ u = Callee[s] => stream[u][s].key \in {NoKey, CallKey(s)}
  /\ u = Caller[s] /\ client[u].active = s => stream[u][s].key \in {NoKey, CallKey(s)}
  /\ u = Caller[s] /\ s \notin begun => stream[u][s].key = NoKey
KeyInv == \A u \in User, s \in Session : KeyOK(u, s)

LEMMA KeyInitInv == CallInit => KeyInv
<1> SUFFICES ASSUME CallInit, NEW u \in User, NEW s \in Session PROVE KeyOK(u, s)
  BY DEF KeyInv
<1>1. client[u].active = NoSession /\ client[u].eph = <<>>
  BY DEF CallInit, Fresh
<1>2. ~Told(u, s, {"ACCEPT"})
  BY MentionsEmpty DEF CallInit, Told
<1>3. stream[u][s].key = NoKey /\ stream[u][s].phase = "none"
  BY DEF CallInit
<1>4. ~StartingCall(u, s)
  BY DEF CallInit, Idle, StartingCall
<1>5. NoSession \notin Session
  BY CallAssumption
<1> QED  BY <1>1, <1>2, <1>3, <1>4, <1>5 DEF KeyOK, Running

\* A step of u's client: what u has of each call is to be looked at.
LEMMA KeyStep ==
  ASSUME KeyInv, NEW u \in User, Aside(u), said' = said, begun \subseteq begun',
         \A s \in Session : KeyOK(u, s)'
  PROVE  KeyInv'
<1> SUFFICES ASSUME NEW v \in User, NEW s \in Session, v # u PROVE KeyOK(v, s)'
  BY DEF KeyInv
<1>1. KeyOK(v, s)
  BY DEF KeyInv
<1>2. client'[v] = client[v] /\ co'[v] = co[v] /\ stream'[v] = stream[v] /\ said'[v] = said[v]
  BY DEF Aside
<1>3. /\ Told(v, s, {"ACCEPT"})' <=> Told(v, s, {"ACCEPT"})
      /\ Running(v, s)' <=> Running(v, s)
      /\ StartingCall(v, s)' <=> StartingCall(v, s)
  BY <1>2 DEF Told, Running, StartingCall
<1> QED  BY <1>1, <1>2, <1>3 DEF KeyOK, CallKey

\* One that leaves the active call and the streams alone, and starts none.
LEMMA KeyKept ==
  ASSUME KeyInv, NEW u \in User, Aside(u), said' = said, begun' = begun,
         \A s \in Session : /\ stream'[u][s].key = stream[u][s].key
                            /\ Running(u, s)' => Running(u, s) \/ StartingCall(u, s)
                            /\ StartingCall(u, s)' => StartingCall(u, s),
         \/ client'[u].active = client[u].active /\ client'[u].eph = client[u].eph
         \/ client'[u].active = NoSession /\ client'[u].eph = <<>>
  PROVE  KeyInv'
<1> SUFFICES ASSUME NEW s \in Session PROVE KeyOK(u, s)'
  BY KeyStep
<1>1. KeyOK(u, s)
  BY DEF KeyInv
<1>2. NoSession \notin Session /\ (Told(u, s, {"ACCEPT"})' <=> Told(u, s, {"ACCEPT"}))
  BY CallAssumption DEF Told
<1> QED  BY <1>1, <1>2 DEF KeyOK, CallKey

LEMMA KeyInvite ==
  ASSUME CallInv, KeyInv, NEW u \in User, NEW s \in Session, Invite(u, s)
  PROVE  KeyInv'
<1>1. /\ Caller[s] = u /\ s \notin begun /\ begun' = begun \cup {s}
      /\ Aside(u) /\ Send(u, "INVITE", s)
      /\ client'[u].active = s /\ client'[u].eph = <<u, s>>
      /\ co'[u]["ui"] = At("save", s) /\ co'[u]["rx"] = co[u]["rx"] /\ stream' = stream
  BY InviteEffect
<1>2. said' = said
  BY <1>1, SendEffect DEF Type
<1>3. ASSUME NEW z \in Session
      PROVE  KeyOK(u, z)'
  <2>1. KeyOK(u, z) /\ KeyOK(u, s)
    BY DEF KeyInv
  <2>2. NoSession \notin Session /\ (Told(u, z, {"ACCEPT"})' <=> Told(u, z, {"ACCEPT"}))
    BY <1>2, CallAssumption DEF Told
  <2>3. (Running(u, z)' <=> Running(u, z)) /\ (StartingCall(u, z)' => StartingCall(u, z))
    BY <1>1 DEF Running, StartingCall, Routine, At
  <2> QED  BY <1>1, <2>1, <2>2, <2>3 DEF KeyOK, CallKey
<1> QED  BY <1>1, <1>2, <1>3, KeyStep

LEMMA KeyAccept ==
  ASSUME CallInv, KeyInv, NEW u \in User, NEW s \in Session, Accept(u, s)
  PROVE  KeyInv'
<1>1. /\ u = Callee[s] /\ Aside(u) /\ Send(u, "ACCEPT", s) /\ begun' = begun
      /\ client'[u].active = s /\ client'[u].eph = <<u, s>>
      /\ stream'[u][s].phase = "starting" /\ stream'[u][s].key = CallKey(s)
      /\ \A z \in Session \ {s} : stream'[u][z] = stream[u][z]
      /\ co'[u]["ui"] = At("start", s) /\ co'[u]["rx"] = co[u]["rx"]
  BY AcceptEffect
<1>2. said' = said
  BY <1>1, SendEffect DEF Type
<1>3. Caller[s] # Callee[s] /\ NoSession \notin Session
  BY CallAssumption
<1>4. ASSUME NEW z \in Session
      PROVE  KeyOK(u, z)'
  <2>1. KeyOK(u, z) /\ (Told(u, z, {"ACCEPT"})' <=> Told(u, z, {"ACCEPT"}))
    BY <1>2 DEF KeyInv, Told
  <2>2. CASE z = s
    <3>1. CallKey(s) # NoKey
      BY DEF CallKey, Key, NoKey
    <3> QED  BY <1>1, <1>3, <2>1, <2>2, <3>1 DEF KeyOK, CallKey
  <2>3. CASE z # s
    <3>1. (Running(u, z)' <=> Running(u, z)) /\ (StartingCall(u, z)' => StartingCall(u, z))
      BY <1>1, <2>3 DEF Running, StartingCall, Routine, At
    <3> QED  BY <1>1, <1>3, <2>1, <2>3, <3>1 DEF KeyOK, CallKey
  <2> QED  BY <2>2, <2>3
<1> QED  BY <1>1, <1>2, <1>4, KeyStep

LEMMA KeyIncoming ==
  ASSUME CallInv, KeyInv, NEW u \in User, Incoming(u)
  PROVE  KeyInv'
<1> DEFINE s == Arriving(u).s
           t == Arriving(u).type
<1>1. /\ Take(u) /\ Aside(u) /\ s \in Session
      /\ client'[u].active = client[u].active /\ client'[u].eph = client[u].eph
      /\ co'[u]["ui"] = co[u]["ui"] /\ co'[u]["rx"].s = s
      /\ \/ t # "ACCEPT" /\ co'[u]["rx"].pc # "start" /\ stream' = stream
         \/ /\ t = "ACCEPT" /\ co'[u]["rx"].pc = "start"
            /\ stream'[u][s].key # NoKey
            /\ client[u].eph # <<>> =>
                 stream'[u][s].key = Key(client[u].eph, <<Callee[s], s>>, s)
            /\ \A z \in Session \ {s} : stream'[u][z] = stream[u][z]
      /\ begun' = begun
  BY IncomingEffect
<1>2. said' = said /\ \A T : t \in T => Told(u, s, T)
  BY <1>1, TakeTypes
<1>3. CASE t # "ACCEPT"
  <2>1. \A z \in Session : /\ stream'[u][z].key = stream[u][z].key
                           /\ Running(u, z)' => Running(u, z)
                           /\ StartingCall(u, z)' => StartingCall(u, z)
    BY <1>1, <1>3 DEF Running, StartingCall, Routine
  <2> QED  BY <1>1, <1>2, <2>1, KeyKept
<1>4. CASE t = "ACCEPT"
  <2>1. u = Caller[s] /\ Told(u, s, Type)
    <3>1. KeyOK(u, s)
      BY <1>1 DEF KeyInv
    <3> QED  BY <1>2, <1>4, <3>1 DEF KeyOK, Type
  <2>2. s \in begun /\ Caller[s] # Callee[s] /\ NoSession \notin Session
    BY <1>1, <2>1, CallAssumption DEF CallInv, InviteOnce
  <2>3. ASSUME NEW z \in Session
        PROVE  KeyOK(u, z)'
    <3>1. KeyOK(u, z) /\ (Told(u, z, {"ACCEPT"})' <=> Told(u, z, {"ACCEPT"}))
      BY <1>2 DEF KeyInv, Told
    <3>2. CASE z = s
      <4>1. client[u].active = s => stream'[u][s].key = CallKey(s)
        BY <1>1, <1>4, <2>1, <2>2, <3>1 DEF KeyOK, CallKey
      <4> QED  BY <1>1, <1>4, <2>1, <2>2, <3>1, <3>2, <4>1 DEF KeyOK, CallKey
    <3>3. CASE z # s
      <4>1. (Running(u, z)' <=> Running(u, z)) /\ (StartingCall(u, z)' => StartingCall(u, z))
        BY <1>1, <1>4, <3>3 DEF Running, StartingCall, Routine
      <4> QED  BY <1>1, <1>4, <3>1, <3>3, <4>1 DEF KeyOK, CallKey
    <3> QED  BY <3>2, <3>3
  <2> QED  BY <1>1, <1>2, <2>3, KeyStep
<1> QED  BY <1>3, <1>4

LEMMA KeyContinue ==
  ASSUME CallInv, KeyInv, NEW u \in User, NEW k \in Routine, Continue(u, k)
  PROVE  KeyInv'
<1>1. CASE Save(u, k)
  <2>1. /\ Aside(u) /\ client'[u].active = client[u].active /\ client'[u].eph = client[u].eph
        /\ co'[u][k].pc = "idle" /\ \A j \in Routine : j # k => co'[u][j] = co[u][j]
        /\ said' = said /\ stream' = stream /\ begun' = begun
    <3>1. Aside(u) /\ client'[u].active = client[u].active /\ client'[u].eph = client[u].eph
      BY <1>1, SaveEffect, Zenon
    <3>2. Idles(u, k)
      BY <1>1, SaveEffect, Zenon
    <3>3. UNCHANGED <<session, srv, network, stream, begun>>
      BY <1>1, SaveEffect, Zenon
    <3> QED  BY <3>1, <3>2, <3>3 DEF network, Idles
  <2>2. \A z \in Session : /\ Running(u, z)' => Running(u, z)
                           /\ StartingCall(u, z)' => StartingCall(u, z)
    BY <2>1 DEF Running, StartingCall
  <2> QED  BY <2>1, <2>2, KeyKept
<1>2. CASE Started(u, k)
  <2>1. /\ co[u][k].pc = "start"
        /\ Aside(u) /\ client'[u].active = client[u].active /\ client'[u].eph = client[u].eph
        /\ co'[u][k].pc = "idle" /\ \A j \in Routine : j # k => co'[u][j] = co[u][j]
        /\ \A z \in Session : /\ stream'[u][z].key = stream[u][z].key
                              /\ z # co[u][k].s => stream'[u][z] = stream[u][z]
        /\ said' = said /\ begun' = begun
    <3>1. co[u][k].pc = "start" /\ Aside(u)
      BY <1>2, StartedEffect, Zenon
    <3>2. client'[u].active = client[u].active /\ client'[u].eph = client[u].eph
      BY <1>2, StartedEffect, Zenon
    <3>3. Idles(u, k)
      BY <1>2, StartedEffect, Zenon
    <3>4. \A z \in Session : /\ stream'[u][z].key = stream[u][z].key
                             /\ z # co[u][k].s => stream'[u][z] = stream[u][z]
      BY <1>2, StartedEffect, Zenon
    <3>5. UNCHANGED <<session, srv, network, begun>>
      BY <1>2, StartedEffect, Zenon
    <3> QED  BY <3>1, <3>2, <3>3, <3>4, <3>5 DEF network, Idles
  <2>2. \A z \in Session : /\ Running(u, z)' => Running(u, z) \/ StartingCall(u, z)
                           /\ StartingCall(u, z)' => StartingCall(u, z)
    BY <2>1 DEF Running, StartingCall
  <2> QED  BY <2>1, <2>2, KeyKept
<1>3. CASE Stopped(u, k)
  <2>1. /\ Aside(u) /\ client'[u].active = client[u].active /\ client'[u].eph = client[u].eph
        /\ co'[u][k].pc = "close" /\ \A j \in Routine : j # k => co'[u][j] = co[u][j]
        /\ \A z \in Session : /\ stream'[u][z].key = stream[u][z].key
                              /\ stream'[u][z].phase = "running" => stream[u][z].phase = "running"
        /\ IF k = "ui" THEN Send(u, "END", co[u][k].s) ELSE UNCHANGED network
        /\ co[u][k].s \in Session /\ begun' = begun
    BY <1>3, StoppedEffect
  <2>2. said' = said
    <3>1. CASE k = "ui"
      BY <2>1, <3>1, SendEffect DEF Type
    <3>2. CASE k # "ui"
      BY <2>1, <3>2 DEF network
    <3> QED  BY <3>1, <3>2
  <2>3. \A z \in Session : /\ Running(u, z)' => Running(u, z)
                           /\ StartingCall(u, z)' => StartingCall(u, z)
    BY <2>1 DEF Running, StartingCall
  <2> QED  BY <2>1, <2>2, <2>3, KeyKept
<1>4. CASE Close(u, k)
  <2>1. /\ Aside(u)
        /\ \/ client'[u].active = client[u].active /\ client'[u].eph = client[u].eph
           \/ client'[u].active = NoSession /\ client'[u].eph = <<>>
        /\ co'[u][k].pc = "idle" /\ \A j \in Routine : j # k => co'[u][j] = co[u][j]
        /\ said' = said /\ stream' = stream /\ begun' = begun
    BY <1>4, CloseEffect DEF network
  <2>2. \A z \in Session : /\ Running(u, z)' => Running(u, z)
                           /\ StartingCall(u, z)' => StartingCall(u, z)
    BY <2>1 DEF Running, StartingCall
  <2> QED  BY <2>1, <2>2, KeyKept
<1> QED  BY <1>1, <1>2, <1>3, <1>4 DEF Continue

LEMMA KeyCommand ==
  ASSUME CallInv, KeyInv, NEW u \in User, Command(u)
  PROVE  KeyInv'
<1>1. CASE End(u)
  <2>1. PICK s \in Session :
          /\ Aside(u) /\ client'[u].active = client[u].active /\ client'[u].eph = client[u].eph
          /\ co'[u]["rx"] = co[u]["rx"] /\ co'[u]["ui"].pc \in {"stop", "close"}
          /\ UNCHANGED network \/ Send(u, "END", s)
          /\ stream' = stream /\ begun' = begun
    BY <1>1, EndEffect
  <2>2. said' = said
    <3>1. CASE Send(u, "END", s)
      BY <3>1, SendEffect DEF Type
    <3>2. CASE UNCHANGED network
      BY <3>2 DEF network
    <3> QED  BY <2>1, <3>1, <3>2
  <2>3. \A z \in Session : /\ Running(u, z)' => Running(u, z)
                           /\ StartingCall(u, z)' => StartingCall(u, z)
    BY <2>1 DEF Running, StartingCall, Routine
  <2> QED  BY <2>1, <2>2, <2>3, KeyKept
<1>2. ASSUME NEW s \in Session, Decline(u, s)
      PROVE  KeyInv'
  <2>1. /\ Aside(u) /\ client'[u].active = client[u].active /\ client'[u].eph = client[u].eph
        /\ Send(u, "DECLINE", s) /\ stream' = stream /\ co' = co /\ begun' = begun
    BY <1>2, DeclineEffect
  <2>2. said' = said
    BY <2>1, SendEffect DEF Type
  <2>3. \A z \in Session : /\ Running(u, z)' => Running(u, z)
                           /\ StartingCall(u, z)' => StartingCall(u, z)
    BY <2>1 DEF Running, StartingCall
  <2> QED  BY <2>1, <2>2, <2>3, KeyKept
<1> QED  BY <1>1, <1>2, KeyInvite, KeyAccept DEF Command

\* The server and the network leave the clients alone, and only the caller is told of
\* an acceptance.
LEMMA KeyAlone ==
  ASSUME KeyInv, UNCHANGED <<client, co, stream, begun>>,
         \A v \in User, s \in Session :
           Told(v, s, {"ACCEPT"})' => Told(v, s, {"ACCEPT"}) \/ v = Caller[s]
  PROVE  KeyInv'
<1> SUFFICES ASSUME NEW v \in User, NEW s \in Session PROVE KeyOK(v, s)'
  BY DEF KeyInv
<1>1. KeyOK(v, s)
  BY DEF KeyInv
<1>2. (Running(v, s)' <=> Running(v, s)) /\ (StartingCall(v, s)' <=> StartingCall(v, s))
  BY DEF Running, StartingCall
<1> QED  BY <1>1, <1>2 DEF KeyOK, CallKey

LEMMA KeyServer ==
  ASSUME CallInv, KeyInv, NEW u \in User, ServerStep(u) \/ Leave(u)
  PROVE  KeyInv'
<1>1. ASSUME UNCHANGED <<client, co, stream, begun, said>>
      PROVE  KeyInv'
  BY <1>1, KeyAlone DEF Told
<1>2. CASE WriteRow(u) \/ Unroute(u) \/ Leave(u)
  BY <1>1, <1>2 DEF WriteRow, Unroute, Leave, clients, network
<1>3. CASE Forward(u)
  <2> DEFINE m == srv[u].m
             to == Recipient(u, m)
  <2>1. /\ srv[u].pc = "forward" /\ Tell(to, m) /\ UNCHANGED <<client, co, stream, begun>>
    BY <1>3 DEF Forward, Tell, clients
  <2>2. m \in Packet /\ m.s \in Session /\ m.type \in Type /\ Works(u, m.s, Type)
    BY <2>1, WorkTypes
  <2>3. to \in User
    BY <2>2, RecipientIsOther DEF CallInv
  <2>4. m.type = "ACCEPT" => to = Caller[m.s]
    BY DEF Recipient
  <2> HIDE DEF to, m
  <2>5. \A v \in User, s \in Session :
          Told(v, s, {"ACCEPT"})' => Told(v, s, {"ACCEPT"}) \/ v = Caller[s]
    BY <2>1, <2>2, <2>3, <2>4, TellTypes
  <2> QED  BY <2>1, <2>5, KeyAlone
<1>4. ASSUME NEW s \in Session, ManagerInvite(u, s)
      PROVE  KeyInv'
  <2>1. UNCHANGED <<client, co, stream, begun>>
    BY <1>4 DEF ManagerInvite, Begin, clients
  <2>2. said' = said \/ Tell(u, Msg("DECLINE", s))
    BY <1>4 DEF ManagerInvite, Tell
  <2>3. CASE Tell(u, Msg("DECLINE", s))
    <3>1. Msg("DECLINE", s) \in Packet /\ Msg("DECLINE", s).type # "ACCEPT"
      BY DEF Msg, Packet, Type
    <3>2. \A v \in User, z \in Session : Told(v, z, {"ACCEPT"})' => Told(v, z, {"ACCEPT"})
      BY <2>3, <3>1, TellTypes
    <3> QED  BY <2>1, <3>2, KeyAlone
  <2> QED  BY <1>1, <2>1, <2>2, <2>3
<1>5. ASSUME NEW s \in Session, ManagerAccept(u, s) \/ ManagerEnd(u, s)
      PROVE  KeyInv'
  BY <1>1, <1>5 DEF ManagerAccept, ManagerEnd, Begin, clients
<1> QED  BY <1>2, <1>3, <1>4, <1>5 DEF ServerStep

\* Two parties that both hear each other in a call use one key, also when calls cross
\* and the key is derived from whatever ephemeral key the client has by then: the
\* caller's is of its active call, and X25519 gives both sides the same
\* (handlers/call.py, accept and _handle_accept).
THEOREM CallPartiesShareKey == CallSpec => []KeysAgree
<1>1. CallInit => KeyInv
  BY KeyInitInv
<1>2. CallInv /\ KeyInv /\ [CallNext]_callVars => KeyInv'
  <2>1. CallInv /\ KeyInv /\ UNCHANGED callVars => KeyInv'
    BY KeyAlone DEF callVars, network, clients, Told
  <2> QED  BY <2>1, KeyIncoming, KeyCommand, KeyContinue, KeyServer DEF CallNext
<1>3. KeyInv => KeysAgree
  <2> SUFFICES ASSUME KeyInv, NEW s \in Session,
                      \A u \in {Caller[s], Callee[s]} : Running(u, s) /\ client[u].active = s
               PROVE  stream[Caller[s]][s].key = stream[Callee[s]][s].key
    BY DEF KeysAgree
  <2>1. KeyOK(Caller[s], s) /\ KeyOK(Callee[s], s)
    BY CallAssumption DEF KeyInv
  <2> QED  BY <2>1 DEF KeyOK
<1> QED  BY <1>1, <1>2, <1>3, CallInvHolds, PTL DEF CallSpec

-----------------------------------------------------------------------------
\* The active call.  While all connections live, a client whose active call has left
\* the server's memory is about to hear of it, or is itself hanging up.

Unread(u, s, T) ==
  \E i \in DOMAIN said[u] : i > read[u] /\ said[u][i].s = s /\ said[u][i].type \in T
Active(u, s) == client[u].active = s
Pending(u, s) == s \in client[u].pending
Saving(u, s) == co[u]["rx"].pc = "save" /\ co[u]["rx"].s = s
Answering(u, s) == co[u]["ui"].pc = "start" /\ co[u]["ui"].s = s
Hanging(u, k, s) == co[u][k].pc \in {"stop", "close", "declined"} /\ co[u][k].s = s

\* The user was called and has not answered, as far as the client knows.
Invited(u, s) == Pending(u, s) \/ Saving(u, s) \/ Unread(u, s, {"INVITE"})
\* The user's decline or hang-up is on its way, or being handled.
Spoken(u, s) == Asked(u, s, Farewell) \/ Works(u, s, Farewell)
\* The other's is, or has been taken.
Written(u, s) == \E v \in User : Works(v, s, Farewell) /\ Recipient(v, srv[v].m) = u
Coming(u, s) == Written(u, s) \/ Unread(u, s, Farewell) \/ Hanging(u, "rx", s)

\* An invitation is at one place; accepting it makes the call active, and takes it out
\* of the incoming calls when the stream has started.
InvitedOnce(u, s) ==
  /\ Unread(u, s, {"INVITE"}) => ~Pending(u, s) /\ ~Saving(u, s)
  /\ Saving(u, s) => ~Pending(u, s)
ActiveWhileAnswering(u, s) == Active(u, s) /\ Invited(u, s) => Pending(u, s) /\ Answering(u, s)

\* Who has declined or hangs up is not invited any more, and has no active call when
\* done with it.
LeftForGood(u, s) == Hanging(u, "ui", s) \/ Spoken(u, s) => ~Invited(u, s)
LeavesAtOnce(u, s) == Active(u, s) /\ Spoken(u, s) => Hanging(u, "ui", s)

\* What is over is heard of, and what was not begun at the server will be.
EndIsComing(u, s) ==
  session[s] = "gone" /\ (Active(u, s) \/ Invited(u, s)) => Coming(u, s) \/ Hanging(u, "ui", s)
BeginIsComing(u, s) == Active(u, s) /\ session[s] = "none" => Asked(u, s, {"INVITE"})

\* Until the callee is told there is nobody who could end the call or answer it.
PendingTillTold(u, s) == Works(u, s, {"INVITE"}) => session[s] = "pending"
KnownByCaller(u, s) ==
  u = Caller[s] /\ (Active(u, s) \/ Hanging(u, "ui", s) \/ Asked(u, s, Type)) => s \in begun
KnownByCallee(u, s) ==
  /\ u = Callee[s]
  /\ \/ Active(u, s) \/ Pending(u, s) \/ Saving(u, s) \/ Hanging(u, "ui", s)
     \/ Asked(u, s, Type) \/ Works(u, s, Type)
  => Told(u, s, {"INVITE"})

\* Nothing follows a farewell that was taken.
NothingFollows(u, s) == Hanging(u, "rx", s) => Told(u, s, Farewell) /\ ~Unread(u, s, Type)

ListOK(u, s) ==
  /\ InvitedOnce(u, s) /\ ActiveWhileAnswering(u, s)
  /\ LeftForGood(u, s) /\ LeavesAtOnce(u, s)
  /\ EndIsComing(u, s) /\ BeginIsComing(u, s)
  /\ PendingTillTold(u, s) /\ KnownByCaller(u, s) /\ KnownByCallee(u, s)
  /\ NothingFollows(u, s)
AllOnline == \A u \in User : online[u]
ListInv == AllOnline => \A u \in User : routed[u] /\ \A s \in Session : ListOK(u, s)

LEMMA ListInitInv == CallInit => ListInv
<1> SUFFICES ASSUME CallInit, NEW u \in User, NEW s \in Session PROVE ListOK(u, s)
  BY DEF CallInit, ListInv
<1>1. client[u].active = NoSession /\ client[u].pending = {} /\ NoSession \notin Session
  BY CallAssumption DEF CallInit, Fresh
<1>2. \A k \in Routine : co[u][k].pc = "idle"
  BY DEF CallInit, Idle
<1>3. \A T : ~Asked(u, s, T) /\ ~Told(u, s, T) /\ ~Works(u, s, T)
  BY MentionsEmpty DEF CallInit, Asked, Told, Works
<1>4. \A T : ~Unread(u, s, T)
  BY <1>3 DEF Unread, Told, Mentions
<1>5. /\ ~Active(u, s) /\ ~Pending(u, s) /\ ~Saving(u, s)
      /\ ~Hanging(u, "ui", s) /\ ~Hanging(u, "rx", s)
  BY <1>1, <1>2 DEF Active, Pending, Saving, Hanging, Routine
<1> QED
  BY <1>3, <1>4, <1>5 DEF ListOK, InvitedOnce, ActiveWhileAnswering, LeftForGood, LeavesAtOnce,
       EndIsComing, BeginIsComing, PendingTillTold, KnownByCaller, KnownByCallee, NothingFollows,
       Invited, Spoken

\* What is unread was told, and taking a packet makes it read.
LEMMA UnreadIsTold == \A u, s, T : Unread(u, s, T) => Told(u, s, T)
BY DEF Unread, Told, Mentions

LEMMA UnreadMore ==
  ASSUME NEW u, NEW s, NEW T, NEW S, T \subseteq S, Unread(u, s, T)
  PROVE  Unread(u, s, S)
BY DEF Unread

LEMMA TakeEffect ==
  ASSUME CallInv, NEW u \in User, Take(u),
         NEW s \in Session, s = Arriving(u).s, NEW t \in Type, t = Arriving(u).type
  PROVE  /\ \A z, T : /\ Unread(u, z, T)' => Unread(u, z, T)
                      /\ Unread(u, z, T) => Unread(u, z, T)' \/ (z = s /\ t \in T)
         /\ \A T : t \in T => Unread(u, s, T)
         /\ ~Unread(u, s, {t})' /\ (t \in Farewell => ~Unread(u, s, Type)')
<1>1. /\ read[u] < Len(said[u]) /\ read'[u] = read[u] + 1 /\ said' = said
      /\ read[u] \in Nat /\ said[u] \in Seq(Packet)
  BY OldTypes DEF Take
<1>2. PICK i \in DOMAIN said[u] : i = read[u] + 1
  BY <1>1, LenProperties
<1>3. said[u][i].s = s /\ said[u][i].type = t
  BY <1>2 DEF Arriving
<1>4. /\ \A j \in DOMAIN said[u] : j > read[u] <=> j > i \/ j = i
      /\ DOMAIN said[u] \subseteq Int
  BY <1>1, <1>2, LenProperties
<1>5. \A z, T : /\ Unread(u, z, T)' => Unread(u, z, T)
                /\ Unread(u, z, T) => Unread(u, z, T)' \/ (z = s /\ t \in T)
  BY <1>1, <1>2, <1>3, <1>4 DEF Unread
<1>6. \A T : t \in T => Unread(u, s, T)
  BY <1>2, <1>3, <1>4 DEF Unread
<1>7. ASSUME NEW j \in DOMAIN said[u], j > i, said[u][j].s = s
      PROVE  t \notin Farewell /\ t # said[u][j].type
  <2>1. i \in Places(u, s) /\ j \in Places(u, s) /\ i < j
    BY <1>3, <1>4, <1>7 DEF Places
  <2> QED  BY <1>3, <2>1 DEF CallInv, LastWord
<1>8. ~Unread(u, s, {t})' /\ (t \in Farewell => ~Unread(u, s, Type)')
  BY <1>1, <1>2, <1>7 DEF Unread
<1> QED  BY <1>5, <1>6, <1>8

\* A step of u's client: what u has of each call is to be looked at.
LEMMA ListStep ==
  ASSUME ListInv, AllOnline, NEW u \in User, Aside(u), begun \subseteq begun',
         UNCHANGED <<session, srv, said, routed>>,
         \A s \in Session : ListOK(u, s)'
  PROVE  ListInv'
<1> SUFFICES ASSUME NEW v \in User, NEW s \in Session, v # u PROVE ListOK(v, s)'
  BY DEF ListInv
<1>1. ListOK(v, s)
  BY DEF ListInv
<1>2. client'[v] = client[v] /\ co'[v] = co[v] /\ up'[v] = up[v] /\ read'[v] = read[v]
  BY DEF Aside
<1>3. \A T : /\ Unread(v, s, T)' <=> Unread(v, s, T)
             /\ Asked(v, s, T)' <=> Asked(v, s, T)
             /\ Told(v, s, T)' <=> Told(v, s, T)
             /\ Works(v, s, T)' <=> Works(v, s, T)
  BY <1>2 DEF Unread, Asked, Told, Works
<1>4. /\ Active(v, s)' <=> Active(v, s)
      /\ Pending(v, s)' <=> Pending(v, s)
      /\ Saving(v, s)' <=> Saving(v, s)
      /\ Answering(v, s)' <=> Answering(v, s)
      /\ \A k : Hanging(v, k, s)' <=> Hanging(v, k, s)
  BY <1>2 DEF Active, Pending, Saving, Answering, Hanging
<1>5. Written(v, s)' <=> Written(v, s)
  BY DEF Written, Works, Recipient, Other
<1> QED  BY <1>1, <1>3, <1>4, <1>5 DEF ListOK, InvitedOnce, ActiveWhileAnswering, LeftForGood,
       LeavesAtOnce, EndIsComing, BeginIsComing, PendingTillTold, KnownByCaller, KnownByCallee,
       NothingFollows, Invited, Spoken, Coming

\* What a step of u's client leaves as it was, for whatever u has of z.
LEMMA SameServer ==
  ASSUME UNCHANGED <<session, srv, said>>
  PROVE  \A v, z : /\ \A T : (Told(v, z, T)' <=> Told(v, z, T)) /\ (Works(v, z, T)' <=> Works(v, z, T))
                   /\ Written(v, z)' <=> Written(v, z)
                   /\ session'[z] = session[z]
<1>1. \A v, z, T : (Told(v, z, T)' <=> Told(v, z, T)) /\ (Works(v, z, T)' <=> Works(v, z, T))
  BY DEF Told, Works
<1>2. \A v, z : Written(v, z)' <=> Written(v, z)
  BY DEF Written, Works, Recipient, Other
<1> QED  BY <1>1, <1>2

LEMMA SameUnread ==
  ASSUME NEW u, read'[u] = read[u], said' = said
  PROVE  \A z, T : Unread(u, z, T)' <=> Unread(u, z, T)
BY DEF Unread

LEMMA ListInvite ==
  ASSUME CallInv, ListInv, AllOnline, NEW u \in User, NEW s \in Session, Invite(u, s)
  PROVE  ListInv'
<1>1. /\ Caller[s] = u /\ s \notin begun /\ begun' = begun \cup {s}
      /\ Aside(u) /\ Send(u, "INVITE", s)
      /\ client'[u].active = s /\ client'[u].pending = client[u].pending
      /\ co[u]["ui"].pc = "idle" /\ co'[u]["ui"] = At("save", s) /\ co'[u]["rx"] = co[u]["rx"]
      /\ UNCHANGED <<session, srv>>
  BY InviteEffect
<1>2. /\ UNCHANGED <<routed, said, read>>
      /\ \A z, T : Asked(u, z, T)' <=> Asked(u, z, T) \/ (z = s /\ "INVITE" \in T)
  BY <1>1, SendEffect DEF Type, AllOnline
<1>3. ASSUME NEW z \in Session
      PROVE  ListOK(u, z)'
  <2>1. /\ \A T : (Told(u, z, T)' <=> Told(u, z, T)) /\ (Works(u, z, T)' <=> Works(u, z, T))
        /\ Written(u, z)' <=> Written(u, z)
        /\ \A T : Unread(u, z, T)' <=> Unread(u, z, T)
        /\ session'[z] = session[z]
    BY <1>1, <1>2, SameServer, SameUnread
  <2>2. /\ Active(u, z)' <=> z = s
        /\ Pending(u, z)' <=> Pending(u, z)
        /\ Saving(u, z)' <=> Saving(u, z)
        /\ Hanging(u, "rx", z)' <=> Hanging(u, "rx", z)
        /\ ~Hanging(u, "ui", z) /\ ~Hanging(u, "ui", z)'
        /\ ~Answering(u, z)
    BY <1>1 DEF Active, Pending, Saving, Answering, Hanging, At
  <2>3. ListOK(u, z)
    BY DEF ListInv
  <2>4. \A T : Asked(u, z, T)' <=> Asked(u, z, T) \/ (z = s /\ "INVITE" \in T)
    BY <1>2
  <2>5. "INVITE" \notin Farewell
    BY DEF Farewell
  <2>6. CASE z = s
    <3>1. ~Invited(u, s)
      <4>1. ~Told(u, s, {"INVITE"}) /\ ~Offered(u, s)
        BY <1>1, CallAssumption DEF CallInv, Roles
      <4> QED  BY <4>1, UnreadIsTold DEF Invited, Offered, Pending, Saving
    <3>2. session[s] = "none" /\ ~Works(u, s, Type) /\ ~Asked(u, s, Type)
      BY <1>1, <2>3, <2>6 DEF CallInv, InviteOnce, Stages, ListOK, KnownByCaller
    <3>3. ~Works(u, s, Farewell) /\ ~Asked(u, s, Farewell) /\ ~Works(u, s, {"INVITE"})
      BY <3>2, MentionsMore DEF Works, Asked, Farewell, Type
    <3>4. u # Callee[s]
      BY <1>1, CallAssumption
    <3> QED  BY <1>1, <2>1, <2>2, <2>3, <2>4, <2>5, <2>6, <3>1, <3>2, <3>3, <3>4
         DEF ListOK, InvitedOnce, ActiveWhileAnswering,
         LeftForGood, LeavesAtOnce, EndIsComing, BeginIsComing, PendingTillTold, KnownByCaller,
         KnownByCallee, NothingFollows, Invited, Spoken, Coming
  <2>7. CASE z # s
    BY <1>1, <2>1, <2>2, <2>3, <2>4, <2>7
       DEF ListOK, InvitedOnce, ActiveWhileAnswering,
         LeftForGood, LeavesAtOnce, EndIsComing, BeginIsComing, PendingTillTold, KnownByCaller,
         KnownByCallee, NothingFollows, Invited, Spoken, Coming
  <2> QED  BY <2>6, <2>7
<1> QED  BY <1>1, <1>2, <1>3, ListStep

LEMMA ListAccept ==
  ASSUME CallInv, ListInv, AllOnline, NEW u \in User, NEW s \in Session, Accept(u, s)
  PROVE  ListInv'
<1>1. /\ Pending(u, s) /\ u = Callee[s] /\ begun' = begun
      /\ Aside(u) /\ Send(u, "ACCEPT", s)
      /\ client'[u].active = s /\ client'[u].pending = client[u].pending
      /\ co[u]["ui"].pc = "idle" /\ co'[u]["ui"] = At("start", s) /\ co'[u]["rx"] = co[u]["rx"]
      /\ UNCHANGED <<session, srv>>
  BY AcceptEffect DEF Pending
<1>2. /\ UNCHANGED <<routed, said, read>>
      /\ \A z, T : Asked(u, z, T)' <=> Asked(u, z, T) \/ (z = s /\ "ACCEPT" \in T)
  BY <1>1, SendEffect DEF Type, AllOnline
<1>3. ASSUME NEW z \in Session
      PROVE  ListOK(u, z)'
  <2>1. /\ \A T : (Told(u, z, T)' <=> Told(u, z, T)) /\ (Works(u, z, T)' <=> Works(u, z, T))
        /\ Written(u, z)' <=> Written(u, z)
        /\ \A T : Unread(u, z, T)' <=> Unread(u, z, T)
        /\ session'[z] = session[z]
    BY <1>1, <1>2, SameServer, SameUnread
  <2>2. /\ Active(u, z)' <=> z = s
        /\ Pending(u, z)' <=> Pending(u, z)
        /\ Saving(u, z)' <=> Saving(u, z)
        /\ Hanging(u, "rx", z)' <=> Hanging(u, "rx", z)
        /\ ~Hanging(u, "ui", z) /\ ~Hanging(u, "ui", z)'
        /\ ~Answering(u, z) /\ (Answering(u, z)' <=> z = s)
    BY <1>1 DEF Active, Pending, Saving, Answering, Hanging, At
  <2>3. ListOK(u, z)
    BY DEF ListInv
  <2>4. \A T : Asked(u, z, T)' <=> Asked(u, z, T) \/ (z = s /\ "ACCEPT" \in T)
    BY <1>2
  <2>5. "ACCEPT" \notin Farewell
    BY DEF Farewell
  <2>6. CASE z = s
    <3>1. session[s] # "none"
      BY <1>1 DEF CallInv, RowFirst, Offered, Pending
    <3>2. u # Caller[s]
      BY <1>1, CallAssumption
    <3> QED  BY <1>1, <2>1, <2>2, <2>3, <2>4, <2>5, <2>6, <3>1, <3>2
         DEF ListOK, InvitedOnce, ActiveWhileAnswering,
         LeftForGood, LeavesAtOnce, EndIsComing, BeginIsComing, PendingTillTold, KnownByCaller,
         KnownByCallee, NothingFollows, Invited, Spoken, Coming
  <2>7. CASE z # s
    BY <1>1, <2>1, <2>2, <2>3, <2>4, <2>7
       DEF ListOK, InvitedOnce, ActiveWhileAnswering,
         LeftForGood, LeavesAtOnce, EndIsComing, BeginIsComing, PendingTillTold, KnownByCaller,
         KnownByCallee, NothingFollows, Invited, Spoken, Coming
  <2> QED  BY <2>6, <2>7
<1> QED  BY <1>1, <1>2, <1>3, ListStep

LEMMA ListDecline ==
  ASSUME CallInv, ListInv, AllOnline, NEW u \in User, NEW s \in Session, Decline(u, s)
  PROVE  ListInv'
<1>1. /\ Pending(u, s) /\ begun' = begun
      /\ Aside(u) /\ Send(u, "DECLINE", s)
      /\ client'[u].active = client[u].active /\ client'[u].pending = client[u].pending \ {s}
      /\ co[u]["ui"].pc = "idle" /\ co' = co
      /\ UNCHANGED <<session, srv>>
  BY DeclineEffect DEF Pending
<1>2. /\ UNCHANGED <<routed, said, read>>
      /\ \A z, T : Asked(u, z, T)' <=> Asked(u, z, T) \/ (z = s /\ "DECLINE" \in T)
  BY <1>1, SendEffect DEF Type, AllOnline
<1>3. ASSUME NEW z \in Session
      PROVE  ListOK(u, z)'
  <2>1. /\ \A T : (Told(u, z, T)' <=> Told(u, z, T)) /\ (Works(u, z, T)' <=> Works(u, z, T))
        /\ Written(u, z)' <=> Written(u, z)
        /\ \A T : Unread(u, z, T)' <=> Unread(u, z, T)
        /\ session'[z] = session[z]
    BY <1>1, <1>2, SameServer, SameUnread
  <2>2. /\ Active(u, z)' <=> Active(u, z)
        /\ Pending(u, z)' <=> Pending(u, z) /\ z # s
        /\ Saving(u, z)' <=> Saving(u, z)
        /\ Hanging(u, "rx", z)' <=> Hanging(u, "rx", z)
        /\ ~Hanging(u, "ui", z) /\ ~Hanging(u, "ui", z)'
        /\ ~Answering(u, z)
    BY <1>1 DEF Active, Pending, Saving, Answering, Hanging
  <2>3. ListOK(u, z)
    BY DEF ListInv
  <2>4. \A T : Asked(u, z, T)' <=> Asked(u, z, T) \/ (z = s /\ "DECLINE" \in T)
    BY <1>2
  <2>5. "DECLINE" \notin {"INVITE"}
    OBVIOUS
  <2>6. CASE z = s
    <3>1. u = Callee[s] /\ u # Caller[s]
      BY <1>1, CallAssumption DEF CallInv, Roles, Offered, Pending
    <3> QED  BY <1>1, <2>1, <2>2, <2>3, <2>4, <2>5, <2>6, <3>1
         DEF ListOK, InvitedOnce, ActiveWhileAnswering,
         LeftForGood, LeavesAtOnce, EndIsComing, BeginIsComing, PendingTillTold, KnownByCaller,
         KnownByCallee, NothingFollows, Invited, Spoken, Coming
  <2>7. CASE z # s
    BY <1>1, <2>1, <2>2, <2>3, <2>4, <2>7
       DEF ListOK, InvitedOnce, ActiveWhileAnswering,
         LeftForGood, LeavesAtOnce, EndIsComing, BeginIsComing, PendingTillTold, KnownByCaller,
         KnownByCallee, NothingFollows, Invited, Spoken, Coming
  <2> QED  BY <2>6, <2>7
<1> QED  BY <1>1, <1>2, <1>3, ListStep

LEMMA ListEnd ==
  ASSUME CallInv, ListInv, AllOnline, NEW u \in User, End(u)
  PROVE  ListInv'
<1>1. PICK s \in Session :
        /\ Active(u, s) /\ Aside(u) /\ begun' = begun
        /\ client'[u].active = client[u].active /\ client'[u].pending = client[u].pending
        /\ co[u]["ui"].pc = "idle" /\ co'[u]["ui"].s = s /\ co'[u]["rx"] = co[u]["rx"]
        /\ co'[u]["ui"].pc \in {"stop", "close"}
        /\ UNCHANGED network \/ Send(u, "END", s)
        /\ UNCHANGED <<session, srv>>
  BY EndEffect DEF Active
<1>2. /\ UNCHANGED <<routed, said, read>>
      /\ \A z, T : /\ Asked(u, z, T) => Asked(u, z, T)'
                   /\ Asked(u, z, T)' => Asked(u, z, T) \/ z = s
  <2>1. CASE UNCHANGED network
    BY <2>1 DEF network, Asked
  <2>2. CASE Send(u, "END", s)
    BY <2>2, SendEffect DEF Type, AllOnline
  <2> QED  BY <1>1, <2>1, <2>2
<1>3. ASSUME NEW z \in Session
      PROVE  ListOK(u, z)'
  <2>1. /\ \A T : (Told(u, z, T)' <=> Told(u, z, T)) /\ (Works(u, z, T)' <=> Works(u, z, T))
        /\ Written(u, z)' <=> Written(u, z)
        /\ \A T : Unread(u, z, T)' <=> Unread(u, z, T)
        /\ session'[z] = session[z]
    BY <1>1, <1>2, SameServer, SameUnread
  <2>2. /\ Active(u, z)' <=> Active(u, z)
        /\ Active(u, z) <=> z = s
        /\ Pending(u, z)' <=> Pending(u, z)
        /\ Saving(u, z)' <=> Saving(u, z)
        /\ Hanging(u, "rx", z)' <=> Hanging(u, "rx", z)
        /\ ~Hanging(u, "ui", z) /\ (Hanging(u, "ui", z)' <=> z = s)
        /\ ~Answering(u, z)
    BY <1>1 DEF Active, Pending, Saving, Answering, Hanging
  <2>3. ListOK(u, z)
    BY DEF ListInv
  <2>4. \A T : /\ Asked(u, z, T) => Asked(u, z, T)'
               /\ Asked(u, z, T)' => Asked(u, z, T) \/ z = s
    BY <1>2
  <2> QED  BY <1>1, <2>1, <2>2, <2>3, <2>4
       DEF ListOK, InvitedOnce, ActiveWhileAnswering,
         LeftForGood, LeavesAtOnce, EndIsComing, BeginIsComing, PendingTillTold, KnownByCaller,
         KnownByCallee, NothingFollows, Invited, Spoken, Coming
<1> QED  BY <1>1, <1>2, <1>3, ListStep

LEMMA ListSave ==
  ASSUME CallInv, ListInv, AllOnline, NEW u \in User, NEW k \in Routine, Save(u, k)
  PROVE  ListInv'
<1>0. PICK s \in Session : s = co[u][k].s
  BY SaveEffect
<1>1. /\ s = co[u][k].s /\ co[u][k].pc = "save" /\ Aside(u) /\ begun' = begun
      /\ client'[u].active = client[u].active
      /\ client'[u].pending = IF k = "ui" THEN client[u].pending ELSE client[u].pending \cup {s}
      /\ co'[u][k].pc = "idle" /\ \A j \in Routine : j # k => co'[u][j] = co[u][j]
      /\ UNCHANGED <<session, srv, network>>
  <2>1. co[u][k].pc = "save" /\ Aside(u) /\ client'[u].active = client[u].active
    BY SaveEffect, Zenon
  <2>2. Idles(u, k)
    BY SaveEffect, Zenon
  <2>3. UNCHANGED <<session, srv, network, stream, begun>>
    BY SaveEffect, Zenon
  <2>4. client'[u].pending = IF k = "ui" THEN client[u].pending
                             ELSE client[u].pending \cup {co[u][k].s}
    BY SaveEffect, Zenon
  <2> QED  BY <1>0, <2>1, <2>2, <2>3, <2>4 DEF Idles
<1>2. /\ UNCHANGED <<routed, said, read>>
      /\ \A z, T : Asked(u, z, T)' <=> Asked(u, z, T)
  BY <1>1 DEF network, Asked
<1>3. ASSUME NEW z \in Session
      PROVE  ListOK(u, z)'
  <2>1. /\ \A T : (Told(u, z, T)' <=> Told(u, z, T)) /\ (Works(u, z, T)' <=> Works(u, z, T))
        /\ Written(u, z)' <=> Written(u, z)
        /\ \A T : Unread(u, z, T)' <=> Unread(u, z, T)
        /\ session'[z] = session[z]
    BY <1>1, <1>2, SameServer, SameUnread
  <2>2. /\ Active(u, z)' <=> Active(u, z)
        /\ \/ /\ Pending(u, z)' <=> Pending(u, z)
              /\ Saving(u, z)' <=> Saving(u, z)
           \/ /\ Pending(u, z)' <=> Pending(u, z) \/ z = s
              /\ ~Saving(u, z)' /\ (Saving(u, z) <=> z = s)
        /\ Hanging(u, "rx", z)' <=> Hanging(u, "rx", z)
        /\ Hanging(u, "ui", z)' <=> Hanging(u, "ui", z)
        /\ Answering(u, z)' <=> Answering(u, z)
    BY <1>1 DEF Active, Pending, Saving, Answering, Hanging, Routine
  <2>3. ListOK(u, z)
    BY DEF ListInv
  <2>4. \A T : Asked(u, z, T)' <=> Asked(u, z, T)
    BY <1>2
  <2> QED  BY <1>1, <2>1, <2>2, <2>3, <2>4
       DEF ListOK, InvitedOnce, ActiveWhileAnswering,
         LeftForGood, LeavesAtOnce, EndIsComing, BeginIsComing, PendingTillTold, KnownByCaller,
         KnownByCallee, NothingFollows, Invited, Spoken, Coming
<1> QED  BY <1>1, <1>2, <1>3, ListStep

LEMMA ListStarted ==
  ASSUME CallInv, ListInv, AllOnline, NEW u \in User, NEW k \in Routine, Started(u, k)
  PROVE  ListInv'
<1>0. PICK s \in Session : s = co[u][k].s
  BY StartedEffect
<1>1. /\ s = co[u][k].s /\ co[u][k].pc = "start" /\ Aside(u) /\ begun' = begun
      /\ client'[u].active = client[u].active
      /\ client'[u].pending = IF k = "ui" THEN client[u].pending \ {s} ELSE client[u].pending
      /\ co'[u][k].pc = "idle" /\ \A j \in Routine : j # k => co'[u][j] = co[u][j]
      /\ UNCHANGED <<session, srv, network>>
  <2>1. co[u][k].pc = "start" /\ Aside(u) /\ client'[u].active = client[u].active
    BY StartedEffect, Zenon
  <2>2. Idles(u, k)
    BY StartedEffect, Zenon
  <2>3. UNCHANGED <<session, srv, network, begun>>
    BY StartedEffect, Zenon
  <2>4. client'[u].pending = IF k = "ui" THEN client[u].pending \ {co[u][k].s}
                             ELSE client[u].pending
    BY StartedEffect, Zenon
  <2> QED  BY <1>0, <2>1, <2>2, <2>3, <2>4 DEF Idles
<1>2. /\ UNCHANGED <<routed, said, read>>
      /\ \A z, T : Asked(u, z, T)' <=> Asked(u, z, T)
  BY <1>1 DEF network, Asked
<1>3. ASSUME NEW z \in Session
      PROVE  ListOK(u, z)'
  <2>1. /\ \A T : (Told(u, z, T)' <=> Told(u, z, T)) /\ (Works(u, z, T)' <=> Works(u, z, T))
        /\ Written(u, z)' <=> Written(u, z)
        /\ \A T : Unread(u, z, T)' <=> Unread(u, z, T)
        /\ session'[z] = session[z]
    BY <1>1, <1>2, SameServer, SameUnread
  <2>2. /\ Active(u, z)' <=> Active(u, z)
        /\ \/ /\ Pending(u, z)' <=> Pending(u, z)
              /\ Answering(u, z)' <=> Answering(u, z)
           \/ /\ Pending(u, z)' <=> Pending(u, z) /\ z # s
              /\ ~Answering(u, z)' /\ (Answering(u, z) <=> z = s)
        /\ Saving(u, z)' <=> Saving(u, z)
        /\ Hanging(u, "rx", z)' <=> Hanging(u, "rx", z)
        /\ Hanging(u, "ui", z)' <=> Hanging(u, "ui", z)
    BY <1>1 DEF Active, Pending, Saving, Answering, Hanging, Routine
  <2>3. ListOK(u, z)
    BY DEF ListInv
  <2>4. \A T : Asked(u, z, T)' <=> Asked(u, z, T)
    BY <1>2
  <2> QED  BY <1>1, <2>1, <2>2, <2>3, <2>4
       DEF ListOK, InvitedOnce, ActiveWhileAnswering,
         LeftForGood, LeavesAtOnce, EndIsComing, BeginIsComing, PendingTillTold, KnownByCaller,
         KnownByCallee, NothingFollows, Invited, Spoken, Coming
<1> QED  BY <1>1, <1>2, <1>3, ListStep

LEMMA ListStopped ==
  ASSUME CallInv, ListInv, AllOnline, NEW u \in User, NEW k \in Routine, Stopped(u, k)
  PROVE  ListInv'
<1>1. PICK s \in Session :
        /\ s = co[u][k].s /\ co[u][k].pc = "stop" /\ Aside(u) /\ begun' = begun
        /\ client'[u].active = client[u].active /\ client'[u].pending = client[u].pending
        /\ co'[u][k].pc = "close" /\ co'[u][k].s = s
        /\ \A j \in Routine : j # k => co'[u][j] = co[u][j]
        /\ IF k = "ui" THEN Send(u, "END", s) ELSE UNCHANGED network
        /\ UNCHANGED <<session, srv>>
  BY StoppedEffect
<1>2. /\ UNCHANGED <<routed, said, read>>
      /\ \A z, T : /\ Asked(u, z, T) => Asked(u, z, T)'
                   /\ Asked(u, z, T)' => Asked(u, z, T) \/ (k = "ui" /\ z = s)
  <2>1. CASE k # "ui"
    BY <1>1, <2>1 DEF network, Asked
  <2>2. CASE k = "ui"
    BY <1>1, <2>2, SendEffect DEF Type, AllOnline
  <2> QED  BY <2>1, <2>2
<1>3. ASSUME NEW z \in Session
      PROVE  ListOK(u, z)'
  <2>1. /\ \A T : (Told(u, z, T)' <=> Told(u, z, T)) /\ (Works(u, z, T)' <=> Works(u, z, T))
        /\ Written(u, z)' <=> Written(u, z)
        /\ \A T : Unread(u, z, T)' <=> Unread(u, z, T)
        /\ session'[z] = session[z]
    BY <1>1, <1>2, SameServer, SameUnread
  <2>2. /\ Active(u, z)' <=> Active(u, z)
        /\ Pending(u, z)' <=> Pending(u, z)
        /\ Saving(u, z)' <=> Saving(u, z)
        /\ Answering(u, z)' <=> Answering(u, z)
        /\ Hanging(u, "rx", z)' <=> Hanging(u, "rx", z)
        /\ Hanging(u, "ui", z)' <=> Hanging(u, "ui", z)
        /\ k = "ui" /\ z = s => Hanging(u, "ui", z)
    BY <1>1 DEF Active, Pending, Saving, Answering, Hanging, Routine
  <2>3. ListOK(u, z)
    BY DEF ListInv
  <2>4. \A T : /\ Asked(u, z, T) => Asked(u, z, T)'
               /\ Asked(u, z, T)' => Asked(u, z, T) \/ (k = "ui" /\ z = s)
    BY <1>2
  <2> QED  BY <1>1, <2>1, <2>2, <2>3, <2>4
       DEF ListOK, InvitedOnce, ActiveWhileAnswering,
         LeftForGood, LeavesAtOnce, EndIsComing, BeginIsComing, PendingTillTold, KnownByCaller,
         KnownByCallee, NothingFollows, Invited, Spoken, Coming
<1> QED  BY <1>1, <1>2, <1>3, ListStep

LEMMA ListClose ==
  ASSUME CallInv, ListInv, AllOnline, NEW u \in User, NEW k \in Routine, Close(u, k)
  PROVE  ListInv'
<1>1. PICK s \in Session :
        /\ s = co[u][k].s /\ co[u][k].pc \in {"close", "declined"} /\ Aside(u) /\ begun' = begun
        /\ \/ k = "ui" /\ client'[u].active = NoSession /\ client'[u].pending = client[u].pending
           \/ /\ k # "ui" /\ client[u].active = s
              /\ client'[u].active = NoSession /\ client'[u].pending = client[u].pending \ {s}
           \/ /\ k # "ui" /\ client[u].active # s
              /\ client'[u].active = client[u].active
              /\ client'[u].pending = client[u].pending \ {s}
        /\ co'[u][k].pc = "idle" /\ \A j \in Routine : j # k => co'[u][j] = co[u][j]
        /\ UNCHANGED <<session, srv, network>>
  BY CloseEffect
<1>2. /\ UNCHANGED <<routed, said, read>>
      /\ \A z, T : Asked(u, z, T)' <=> Asked(u, z, T)
  BY <1>1 DEF network, Asked
<1>3. ASSUME NEW z \in Session
      PROVE  ListOK(u, z)'
  <2>1. /\ \A T : (Told(u, z, T)' <=> Told(u, z, T)) /\ (Works(u, z, T)' <=> Works(u, z, T))
        /\ Written(u, z)' <=> Written(u, z)
        /\ \A T : Unread(u, z, T)' <=> Unread(u, z, T)
        /\ session'[z] = session[z]
    BY <1>1, <1>2, SameServer, SameUnread
  <2>2. NoSession # z
    BY CallAssumption
  <2>3. /\ \/ /\ ~Active(u, z)' /\ (Pending(u, z)' <=> Pending(u, z))
              /\ ~Hanging(u, "ui", z)' /\ (Hanging(u, "ui", z) <=> z = s)
              /\ ~Answering(u, z)'
              /\ Hanging(u, "rx", z)' <=> Hanging(u, "rx", z)
           \/ /\ Active(u, z)' <=> Active(u, z) /\ z # s
              /\ Pending(u, z)' <=> Pending(u, z) /\ z # s
              /\ Hanging(u, "ui", z)' <=> Hanging(u, "ui", z)
              /\ Answering(u, z)' <=> Answering(u, z)
              /\ ~Hanging(u, "rx", z)' /\ (Hanging(u, "rx", z) <=> z = s)
              /\ ~Saving(u, z)
        /\ Saving(u, z)' <=> Saving(u, z)
    BY <1>1, <2>2 DEF Active, Pending, Saving, Answering, Hanging, Routine
  <2>4. ListOK(u, z)
    BY DEF ListInv
  <2>5. \A T : Asked(u, z, T)' <=> Asked(u, z, T)
    BY <1>2
  <2>6. Unread(u, z, {"INVITE"}) => Unread(u, z, Type)
    BY UnreadMore DEF Type
  <2> QED  BY <1>1, <2>1, <2>3, <2>4, <2>5, <2>6
       DEF ListOK, InvitedOnce, ActiveWhileAnswering,
         LeftForGood, LeavesAtOnce, EndIsComing, BeginIsComing, PendingTillTold, KnownByCaller,
         KnownByCallee, NothingFollows, Invited, Spoken, Coming
<1> QED  BY <1>1, <1>2, <1>3, ListStep

LEMMA ListIncoming ==
  ASSUME CallInv, ListInv, AllOnline, NEW u \in User, Incoming(u)
  PROVE  ListInv'
<1>1. PICK s \in Session, t \in Type :
        /\ s = Arriving(u).s /\ t = Arriving(u).type
        /\ Take(u) /\ Aside(u) /\ begun' = begun
        /\ client'[u].active = client[u].active /\ client'[u].pending = client[u].pending
        /\ co[u]["rx"].pc = "idle" /\ co'[u]["ui"] = co[u]["ui"] /\ co'[u]["rx"].s = s
        /\ \/ t = "INVITE" /\ co'[u]["rx"].pc = "save"
           \/ t = "ACCEPT" /\ co'[u]["rx"].pc = "start"
           \/ t \in Farewell /\ co'[u]["rx"].pc \in {"stop", "close", "declined"}
        /\ UNCHANGED <<session, srv>>
  BY IncomingEffect, TakeTypes DEF Farewell
<1>2. /\ UNCHANGED <<routed, said, up>>
      /\ \A T : t \in T => Told(u, s, T)
      /\ \A z, T : Asked(u, z, T)' <=> Asked(u, z, T)
  BY <1>1, TakeTypes DEF Asked
<1>3. /\ \A z, T : /\ Unread(u, z, T)' => Unread(u, z, T)
                   /\ Unread(u, z, T) => Unread(u, z, T)' \/ (z = s /\ t \in T)
      /\ \A T : t \in T => Unread(u, s, T)
      /\ ~Unread(u, s, {t})' /\ (t \in Farewell => ~Unread(u, s, Type)')
  BY <1>1, TakeEffect
<1>4. ASSUME NEW z \in Session
      PROVE  ListOK(u, z)'
  <2>1. /\ \A T : (Told(u, z, T)' <=> Told(u, z, T)) /\ (Works(u, z, T)' <=> Works(u, z, T))
        /\ Written(u, z)' <=> Written(u, z)
        /\ session'[z] = session[z]
    BY <1>1, <1>2, SameServer
  <2>2. /\ Active(u, z)' <=> Active(u, z)
        /\ Pending(u, z)' <=> Pending(u, z)
        /\ Answering(u, z)' <=> Answering(u, z)
        /\ Hanging(u, "ui", z)' <=> Hanging(u, "ui", z)
        /\ ~Saving(u, z) /\ ~Hanging(u, "rx", z)
        /\ \/ /\ t = "INVITE"
              /\ (Saving(u, z)' <=> z = s) /\ ~Hanging(u, "rx", z)'
           \/ /\ t = "ACCEPT"
              /\ ~Saving(u, z)' /\ ~Hanging(u, "rx", z)'
           \/ /\ t \in Farewell
              /\ ~Saving(u, z)' /\ (Hanging(u, "rx", z)' <=> z = s)
    BY <1>1 DEF Active, Pending, Saving, Answering, Hanging
  <2>3. ListOK(u, z)
    BY DEF ListInv
  <2>4. begun' = begun /\ \A T : Asked(u, z, T)' <=> Asked(u, z, T)
    BY <1>1, <1>2
  <2>5. \A T : /\ Unread(u, z, T)' => Unread(u, z, T)
               /\ Unread(u, z, T) => Unread(u, z, T)' \/ (z = s /\ t \in T)
    BY <1>3
  <2>6. "INVITE" \notin Farewell /\ "ACCEPT" \notin Farewell
    BY DEF Farewell
  <2>7. CASE t = "INVITE"
    <3>1. z = s => Unread(u, z, {"INVITE"}) /\ ~Unread(u, z, {"INVITE"})' /\ Told(u, z, {"INVITE"})
      BY <1>2, <1>3, <2>7
    <3>2. Saving(u, z)' <=> z = s
      BY <2>2, <2>6, <2>7
    <3>3. ~Hanging(u, "rx", z)'
      BY <2>2, <2>6, <2>7
    <3> QED  BY <2>1, <2>2, <2>3, <2>4, <2>5, <2>6, <2>7, <3>1, <3>2, <3>3
         DEF ListOK, InvitedOnce, ActiveWhileAnswering,
         LeftForGood, LeavesAtOnce, EndIsComing, BeginIsComing, PendingTillTold, KnownByCaller,
         KnownByCallee, NothingFollows, Invited, Spoken, Coming
  <2>8. CASE t = "ACCEPT"
    <3>1. ~Saving(u, z)' /\ ~Hanging(u, "rx", z)'
      BY <2>2, <2>6, <2>8
    <3> QED  BY <2>1, <2>2, <2>3, <2>4, <2>5, <2>6, <2>8, <3>1
         DEF ListOK, InvitedOnce, ActiveWhileAnswering,
         LeftForGood, LeavesAtOnce, EndIsComing, BeginIsComing, PendingTillTold, KnownByCaller,
         KnownByCallee, NothingFollows, Invited, Spoken, Coming
  <2>9. CASE t \in Farewell
    <3>1. z = s => Told(u, z, Farewell) /\ ~Unread(u, z, Type)'
      BY <1>2, <1>3, <2>9
    <3>2. ~Saving(u, z)' /\ (Hanging(u, "rx", z)' <=> z = s)
      BY <2>2, <2>6, <2>9
    <3> QED  BY <2>1, <2>2, <2>3, <2>4, <2>5, <2>6, <2>9, <3>1, <3>2
         DEF ListOK, InvitedOnce, ActiveWhileAnswering,
         LeftForGood, LeavesAtOnce, EndIsComing, BeginIsComing, PendingTillTold, KnownByCaller,
         KnownByCallee, NothingFollows, Invited, Spoken, Coming
  <2> QED  BY <2>2, <2>7, <2>8, <2>9
<1> QED  BY <1>1, <1>2, <1>4, ListStep

\* The server takes a packet or has done with one; the clients are left alone.
LEMMA HeldAlone ==
  ASSUME UNCHANGED <<client, co>>
  PROVE  \A v, z : /\ Active(v, z)' <=> Active(v, z)
                   /\ Pending(v, z)' <=> Pending(v, z)
                   /\ Saving(v, z)' <=> Saving(v, z)
                   /\ Answering(v, z)' <=> Answering(v, z)
                   /\ Hanging(v, "ui", z)' <=> Hanging(v, "ui", z)
                   /\ Hanging(v, "rx", z)' <=> Hanging(v, "rx", z)
BY DEF Active, Pending, Saving, Answering, Hanging

\* The packet taken is of s, and the others are still there.
LEMMA TakenEffect ==
  ASSUME CallInv, NEW u \in User, Begin(u), NEW t \in Type, NEW s \in Session,
         Head(up[u]) = Msg(t, s)
  PROVE  /\ srv[u].pc = "idle" /\ \A T : t \in T => Asked(u, s, T)
         /\ \A v \in User, z \in Session : \A T :
              /\ Asked(v, z, T)' => Asked(v, z, T)
              /\ Asked(v, z, T) => Asked(v, z, T)' \/ (v = u /\ z = s /\ t \in T)
         /\ UNCHANGED <<online, routed, read, client, co, begun>>
<1>1. Head(up[u]).s = s /\ Head(up[u]).type = t
  BY DEF Msg
<1>2. /\ srv[u].pc = "idle" /\ \A T : t \in T => Asked(u, s, T)
      /\ \A v \in User, z \in Session : \A T : Asked(v, z, T)' => Asked(v, z, T)
      /\ UNCHANGED <<online, routed, read, client, co, begun>>
  BY <1>1, BeginTypes
<1>3. /\ up[u] # <<>> /\ up' = [up EXCEPT ![u] = Tail(up[u])]
      /\ up \in [User -> Seq(Packet)] /\ up[u] \in Seq(Packet)
  BY OldTypes DEF Begin
<1>4. \A z, T : Mentions(up[u], z, T) => Mentions(Tail(up[u]), z, T) \/ (z = s /\ t \in T)
  <2> SUFFICES ASSUME NEW z, NEW T, NEW i \in DOMAIN up[u], up[u][i].s = z, up[u][i].type \in T
               PROVE  Mentions(Tail(up[u]), z, T) \/ (z = s /\ t \in T)
    BY DEF Mentions
  <2>1. /\ Tail(up[u]) \in Seq(Packet) /\ Len(Tail(up[u])) = Len(up[u]) - 1
        /\ \A j \in 1..Len(Tail(up[u])) : Tail(up[u])[j] = up[u][j + 1]
    BY <1>3, HeadTailProperties
  <2>2. /\ Len(up[u]) \in Nat /\ DOMAIN up[u] = 1..Len(up[u])
        /\ DOMAIN Tail(up[u]) = 1..Len(Tail(up[u])) /\ Head(up[u]) = up[u][1]
    BY <1>3, <2>1, LenProperties
  <2>3. CASE i = 1
    BY <1>1, <2>2, <2>3
  <2>4. CASE i # 1
    <3>1. i - 1 \in DOMAIN Tail(up[u]) /\ (i - 1) + 1 = i
      BY <2>1, <2>2, <2>4
    <3>2. Tail(up[u])[i - 1] = up[u][i]
      BY <2>1, <2>2, <3>1
    <3> QED  BY <3>1, <3>2 DEF Mentions
  <2> QED  BY <2>3, <2>4
<1>5. \A v \in User, z \in Session : \A T :
        Asked(v, z, T) => Asked(v, z, T)' \/ (v = u /\ z = s /\ t \in T)
  BY <1>3, <1>4 DEF Asked
<1> QED  BY <1>2, <1>5

\* A packet that comes to nothing.
LEMMA ListDropped ==
  ASSUME CallInv, ListInv, AllOnline, NEW u \in User, Begin(u),
         NEW t \in Type \ {"INVITE"}, NEW s \in Session, Head(up[u]) = Msg(t, s),
         UNCHANGED <<session, srv, said>>
  PROVE  ListInv'
<1>1. /\ \A v \in User, z \in Session : \A T :
           /\ Asked(v, z, T)' => Asked(v, z, T)
           /\ Asked(v, z, T) => Asked(v, z, T)' \/ (v = u /\ z = s /\ t \in T)
      /\ UNCHANGED <<online, routed, read, client, co, begun>>
  BY TakenEffect
<1> SUFFICES ASSUME NEW v \in User, NEW z \in Session PROVE ListOK(v, z)'
  BY <1>1 DEF ListInv, AllOnline
<1>2. /\ \A T : (Told(v, z, T)' <=> Told(v, z, T)) /\ (Works(v, z, T)' <=> Works(v, z, T))
      /\ Written(v, z)' <=> Written(v, z)
      /\ session'[z] = session[z]
      /\ \A T : Unread(v, z, T)' <=> Unread(v, z, T)
  BY <1>1, SameServer, SameUnread
<1>3. /\ Active(v, z)' <=> Active(v, z)
      /\ Pending(v, z)' <=> Pending(v, z)
      /\ Saving(v, z)' <=> Saving(v, z)
      /\ Answering(v, z)' <=> Answering(v, z)
      /\ Hanging(v, "ui", z)' <=> Hanging(v, "ui", z)
      /\ Hanging(v, "rx", z)' <=> Hanging(v, "rx", z)
  BY <1>1, HeldAlone
<1>4. ListOK(v, z) /\ begun' = begun
  BY <1>1 DEF ListInv
<1>5. /\ \A T : Asked(v, z, T)' => Asked(v, z, T)
      /\ Asked(v, z, {"INVITE"}) => Asked(v, z, {"INVITE"})'
  BY <1>1
<1> QED  BY <1>2, <1>3, <1>4, <1>5
     DEF ListOK, InvitedOnce, ActiveWhileAnswering,
         LeftForGood, LeavesAtOnce, EndIsComing, BeginIsComing, PendingTillTold, KnownByCaller,
         KnownByCallee, NothingFollows, Invited, Spoken, Coming

\* A packet that the manager goes on with.
LEMMA ListAdmitted ==
  ASSUME CallInv, ListInv, AllOnline, NEW u \in User, Begin(u),
         NEW t \in Type, NEW s \in Session, Head(up[u]) = Msg(t, s),
         NEW new, session' = [session EXCEPT ![s] = new], session[s] # "gone",
         \/ t = "INVITE" /\ new = "pending"
         \/ t = "ACCEPT" /\ new = "active"
         \/ t \in Farewell /\ new = "gone",
         Work(u, "write", Msg(t, s)), said' = said
  PROVE  ListInv'
<1>1. /\ srv[u].pc = "idle" /\ \A T : t \in T => Asked(u, s, T)
      /\ \A v \in User, z \in Session : \A T :
           /\ Asked(v, z, T)' => Asked(v, z, T)
           /\ Asked(v, z, T) => Asked(v, z, T)' \/ (v = u /\ z = s /\ t \in T)
      /\ UNCHANGED <<online, routed, read, client, co, begun>>
  BY TakenEffect
<1>2. /\ session \in [Session -> {"none", "pending", "active", "gone"}]
      /\ srv \in [User -> [pc : {"idle"}, m : {<<>>}] \cup [pc : {"write", "forward"}, m : Packet]]
  BY DEF CallInv, CallTypeOK
<1>3. session'[s] = new /\ \A z \in Session \ {s} : session'[z] = session[z]
  BY <1>2
<1>4. /\ srv'[u] = [pc |-> "write", m |-> Msg(t, s)]
      /\ \A v \in User \ {u} : srv'[v] = srv[v]
  BY <1>2 DEF Work
<1>5. \A z, T : ~Works(u, z, T)
  BY <1>1 DEF Works
<1>6. \A v \in User, z \in Session : \A T :
        Works(v, z, T)' <=> Works(v, z, T) \/ (v = u /\ z = s /\ t \in T)
  BY <1>4, <1>5 DEF Works, Msg
<1>7. /\ t = "INVITE" => u = Caller[s]
      /\ t # "INVITE" => u \in Party(s) /\ (u = Caller[s] => t = "END")
      /\ Caller[s] # Callee[s] /\ Caller[s] \in User /\ Callee[s] \in User
  <2>1. \A T : t \in T => Asked(u, s, T)
    BY <1>1
  <2>2. Caller[s] # Callee[s] /\ Caller[s] \in User /\ Callee[s] \in User
    BY CallAssumption
  <2>3. CASE t = "INVITE"
    BY <2>1, <2>2, <2>3 DEF CallInv, Roles
  <2>4. CASE t \in {"ACCEPT", "DECLINE"}
    BY <2>1, <2>2, <2>4 DEF CallInv, Roles, Party
  <2>5. CASE t = "END"
    BY <2>1, <2>2, <2>5 DEF CallInv, Roles, Party
  <2> QED  BY <2>2, <2>3, <2>4, <2>5 DEF Type
<1>8. \A v \in User : t # "INVITE" => ~Works(v, s, {"INVITE"})
  <2> SUFFICES ASSUME NEW v \in User, t # "INVITE", Works(v, s, {"INVITE"}) PROVE FALSE
    OBVIOUS
  <2>1. v = Caller[s] /\ v # u /\ srv[v].m.type = "INVITE" /\ srv[v].m.s = s /\ Works(v, s, Type)
    BY <1>5 DEF CallInv, Roles, Works, Type
  <2>2. u = Callee[s] /\ Recipient(v, srv[v].m) = u
    BY <1>7, <2>1 DEF Party, Recipient
  <2>3. Asked(u, s, Type)
    BY <1>1
  <2>4. Told(u, s, {"INVITE"})
    BY <2>2, <2>3 DEF ListInv, ListOK, KnownByCallee
  <2>5. ~Told(u, s, {"INVITE"} \cup Farewell)
    BY <2>1, <2>2 DEF CallInv, SaidOnce
  <2> QED  BY <2>4, <2>5, MentionsMore DEF Told
<1>9. \A v \in User, z \in Session : Written(v, z) => Written(v, z)'
  <2> SUFFICES ASSUME NEW v \in User, NEW z \in Session, NEW w \in User,
                      Works(w, z, Farewell), Recipient(w, srv[w].m) = v
               PROVE  Written(v, z)'
    BY DEF Written
  <2>1. w # u /\ srv'[w] = srv[w]
    BY <1>4, <1>5
  <2> QED  BY <2>1 DEF Written, Works, Recipient, Other
<1>10. \A v \in Party(s) \ {u} : t \in Farewell => Written(v, s)'
  <2> SUFFICES ASSUME NEW v \in Party(s) \ {u}, t \in Farewell PROVE Written(v, s)'
    OBVIOUS
  <2>1. Works(u, s, Farewell)'
    BY <1>6
  <2>2. Recipient(u, Msg(t, s)) = v
    <3>1. Msg(t, s).type = t /\ Msg(t, s).s = s
      BY DEF Msg
    <3>2. CASE t = "DECLINE"
      BY <1>7, <3>1, <3>2 DEF Recipient, Party
    <3>3. CASE t = "END"
      BY <1>7, <3>1, <3>3 DEF Recipient, Party, Other
    <3> QED  BY <3>2, <3>3 DEF Farewell
  <2>3. srv'[u].m = Msg(t, s)
    BY <1>4
  <2>4. Recipient(u, srv'[u].m) = v
    BY <2>2, <2>3
  <2>5. Recipient(u, srv[u].m)' = Recipient(u, srv'[u].m)
    BY DEF Recipient, Other
  <2> QED  BY <2>1, <2>4, <2>5 DEF Written
<1> SUFFICES ASSUME NEW v \in User, NEW z \in Session PROVE ListOK(v, z)'
  BY <1>1 DEF ListInv, AllOnline
<1>11. /\ \A T : Told(v, z, T)' <=> Told(v, z, T)
       /\ \A T : Unread(v, z, T)' <=> Unread(v, z, T)
  BY <1>1, SameUnread DEF Told
<1>12. /\ Active(v, z)' <=> Active(v, z)
       /\ Pending(v, z)' <=> Pending(v, z)
       /\ Saving(v, z)' <=> Saving(v, z)
       /\ Answering(v, z)' <=> Answering(v, z)
       /\ Hanging(v, "ui", z)' <=> Hanging(v, "ui", z)
       /\ Hanging(v, "rx", z)' <=> Hanging(v, "rx", z)
  BY <1>1, HeldAlone
<1>13. ListOK(v, z) /\ begun' = begun
  BY <1>1 DEF ListInv
<1>14. /\ \A T : Asked(v, z, T)' => Asked(v, z, T)
       /\ \A T : Works(v, z, T)' => Works(v, z, T) \/ (v = u /\ z = s /\ t \in T)
       /\ \A T : v = u /\ z = s /\ t \in T => Asked(v, z, T)
       /\ Written(v, z) => Written(v, z)'
  BY <1>1, <1>6, <1>9
<1>15. CASE z = s
  <2>1. t \in Farewell /\ v # u /\ (Active(v, z) \/ Invited(v, z)) => Written(v, z)'
    <3>1. Active(v, z) \/ Invited(v, z) => v \in Party(z)
      <4>1. Active(v, z) => Engaged(v, z)
        BY DEF Active, Engaged
      <4>2. Invited(v, z) => Offered(v, z) \/ Told(v, z, {"INVITE"})
        BY UnreadIsTold DEF Invited, Offered, Pending, Saving
      <4> QED  BY <4>1, <4>2 DEF CallInv, Roles, Party
    <3> QED  BY <1>10, <1>15, <3>1
  <2>2. /\ "INVITE" \notin Farewell /\ "ACCEPT" \notin Farewell /\ t \in Type
        /\ session'[z] = new
    BY <1>3, <1>15 DEF Farewell
  <2>3. Works(v, z, {"INVITE"})' => new = "pending"
    BY <1>6, <1>8, <1>15, <2>2
  <2>4. InvitedOnce(v, z)' /\ ActiveWhileAnswering(v, z)' /\ NothingFollows(v, z)'
        /\ KnownByCaller(v, z)' /\ KnownByCallee(v, z)' /\ PendingTillTold(v, z)'
    BY <1>11, <1>12, <1>13, <1>14, <2>2, <2>3
       DEF ListOK, InvitedOnce, ActiveWhileAnswering,
         LeftForGood, LeavesAtOnce, EndIsComing, BeginIsComing, PendingTillTold, KnownByCaller,
         KnownByCallee, NothingFollows, Invited, Spoken, Coming
  <2>5. LeftForGood(v, z)' /\ LeavesAtOnce(v, z)' /\ BeginIsComing(v, z)'
    BY <1>11, <1>12, <1>13, <1>14, <2>2
       DEF ListOK, InvitedOnce, ActiveWhileAnswering,
         LeftForGood, LeavesAtOnce, EndIsComing, BeginIsComing, PendingTillTold, KnownByCaller,
         KnownByCallee, NothingFollows, Invited, Spoken, Coming
  <2>6. EndIsComing(v, z)'
    <3>1. CASE t \in Farewell /\ v = u
      <4>1. Spoken(v, z)
        BY <1>14, <1>15, <3>1 DEF Spoken
      <4> QED  BY <1>11, <1>12, <1>13, <4>1
           DEF ListOK, InvitedOnce, ActiveWhileAnswering,
         LeftForGood, LeavesAtOnce, EndIsComing, BeginIsComing, PendingTillTold, KnownByCaller,
         KnownByCallee, NothingFollows, Invited, Spoken, Coming
    <3>2. CASE t \in Farewell /\ v # u
      BY <1>11, <1>12, <2>1, <3>2 DEF EndIsComing, Invited, Coming
    <3>3. CASE t \notin Farewell
      BY <2>2, <3>3 DEF EndIsComing
    <3> QED  BY <3>1, <3>2, <3>3
  <2> QED  BY <2>4, <2>5, <2>6 DEF ListOK
<1>16. CASE z # s
  <2>1. session'[z] = session[z] /\ (\A T : Works(v, z, T)' <=> Works(v, z, T))
        /\ \A T : Asked(v, z, T)' <=> Asked(v, z, T)
    BY <1>1, <1>3, <1>6, <1>16
  <2> QED  BY <1>11, <1>12, <1>13, <1>14, <2>1
       DEF ListOK, InvitedOnce, ActiveWhileAnswering,
         LeftForGood, LeavesAtOnce, EndIsComing, BeginIsComing, PendingTillTold, KnownByCaller,
         KnownByCallee, NothingFollows, Invited, Spoken, Coming
<1> QED  BY <1>15, <1>16

LEMMA ListManager ==
  ASSUME CallInv, ListInv, AllOnline, NEW u \in User, NEW s \in Session,
         ManagerInvite(u, s) \/ ManagerAccept(u, s) \/ ManagerEnd(u, s)
  PROVE  ListInv'
<1>1. CASE ManagerInvite(u, s)
  <2>1. Begin(u) /\ Head(up[u]) = Msg("INVITE", s) /\ routed[Callee[s]]
    BY <1>1, CallAssumption DEF ManagerInvite, ListInv
  <2>2. /\ session' = [session EXCEPT ![s] = "pending"] /\ Work(u, "write", Msg("INVITE", s))
        /\ said' = said
    BY <1>1, <2>1 DEF ManagerInvite
  <2>3. session[s] = "none"
    <3>1. Head(up[u]).s = s /\ Head(up[u]).type = "INVITE"
      BY <2>1 DEF Msg
    <3>2. Asked(u, s, {"INVITE"}) /\ u = Caller[s]
      BY <2>1, <3>1, BeginTypes
    <3> QED  BY <3>2 DEF CallInv, InviteOnce
  <2> QED  BY <2>1, <2>2, <2>3, ListAdmitted DEF Type
<1>2. CASE ManagerAccept(u, s)
  <2>1. Begin(u) /\ Head(up[u]) = Msg("ACCEPT", s) /\ said' = said
    BY <1>2 DEF ManagerAccept
  <2>2. CASE session[s] = "pending"
    <3>1. session' = [session EXCEPT ![s] = "active"] /\ Work(u, "write", Msg("ACCEPT", s))
      BY <1>2, <2>1, <2>2 DEF ManagerAccept
    <3> QED  BY <2>1, <2>2, <3>1, ListAdmitted DEF Type
  <2>3. CASE session[s] # "pending"
    BY <1>2, <2>1, <2>3, ListDropped DEF ManagerAccept, Type
  <2> QED  BY <2>2, <2>3
<1>3. CASE ManagerEnd(u, s)
  <2>1. PICK t \in Farewell : Begin(u) /\ Head(up[u]) = Msg(t, s) /\ said' = said
    BY <1>3 DEF ManagerEnd, Farewell
  <2>2. t \in Type \ {"INVITE"}
    BY DEF Farewell, Type
  <2>3. CASE Listed(s)
    <3>1. session' = [session EXCEPT ![s] = "gone"] /\ Work(u, "write", Msg(t, s))
      BY <1>3, <2>1, <2>3 DEF ManagerEnd
    <3> QED  BY <2>1, <2>2, <2>3, <3>1, ListAdmitted DEF Listed
  <2>4. CASE ~Listed(s)
    BY <1>3, <2>1, <2>2, <2>4, ListDropped DEF ManagerEnd
  <2> QED  BY <2>3, <2>4
<1> QED  BY <1>1, <1>2, <1>3

\* The row is written: nothing this is about changes.
LEMMA ListWriteRow ==
  ASSUME CallInv, ListInv, AllOnline, NEW u \in User, WriteRow(u)
  PROVE  ListInv'
<1>1. /\ srv[u].pc = "write" /\ srv' = [srv EXCEPT ![u] = [pc |-> "forward", m |-> srv[u].m]]
      /\ UNCHANGED <<session, up, online, routed, said, read, client, co, begun>>
      /\ srv \in [User -> [pc : {"idle"}, m : {<<>>}] \cup [pc : {"write", "forward"}, m : Packet]]
  BY DEF WriteRow, Work, network, clients, CallInv, CallTypeOK
<1>2. \A v \in User : srv'[v].m = srv[v].m /\ (srv'[v].pc = "idle" <=> srv[v].pc = "idle")
  BY <1>1
<1> SUFFICES ASSUME NEW v \in User, NEW z \in Session PROVE ListOK(v, z)'
  BY <1>1 DEF ListInv, AllOnline
<1>3. \A w \in User : \A T : Works(w, z, T)' <=> Works(w, z, T)
  BY <1>2 DEF Works
<1>4. Written(v, z)' <=> Written(v, z)
  BY <1>2, <1>3 DEF Written, Recipient, Other
<1>5. /\ \A T : (Told(v, z, T)' <=> Told(v, z, T)) /\ (Asked(v, z, T)' <=> Asked(v, z, T))
      /\ \A T : Unread(v, z, T)' <=> Unread(v, z, T)
      /\ session'[z] = session[z] /\ begun' = begun
  BY <1>1, SameUnread DEF Told, Asked
<1>6. /\ Active(v, z)' <=> Active(v, z)
      /\ Pending(v, z)' <=> Pending(v, z)
      /\ Saving(v, z)' <=> Saving(v, z)
      /\ Answering(v, z)' <=> Answering(v, z)
      /\ Hanging(v, "ui", z)' <=> Hanging(v, "ui", z)
      /\ Hanging(v, "rx", z)' <=> Hanging(v, "rx", z)
  BY <1>1, HeldAlone
<1>7. ListOK(v, z)
  BY DEF ListInv
<1> QED  BY <1>3, <1>4, <1>5, <1>6, <1>7
     DEF ListOK, InvitedOnce, ActiveWhileAnswering,
         LeftForGood, LeavesAtOnce, EndIsComing, BeginIsComing, PendingTillTold, KnownByCaller,
         KnownByCallee, NothingFollows, Invited, Spoken, Coming

LEMMA ListForward ==
  ASSUME CallInv, ListInv, AllOnline, NEW u \in User, Forward(u)
  PROVE  ListInv'
<1>1. PICK m \in Packet, s \in Session, to \in User :
        /\ m = srv[u].m /\ s = m.s /\ to = Recipient(u, srv[u].m) /\ m.type \in Type
        /\ \A z, T : Works(u, z, T) <=> z = s /\ m.type \in T
  <2>1. srv[u].pc # "idle"
    BY DEF Forward
  <2>2. /\ srv[u].m \in Packet /\ srv[u].m.s \in Session /\ srv[u].m.type \in Type
        /\ \A z, T : Works(u, z, T) <=> z = srv[u].m.s /\ srv[u].m.type \in T
    BY <2>1, WorkTypes
  <2>3. Recipient(u, srv[u].m) \in User
    BY <2>2, RecipientIsOther DEF CallInv
  <2> QED  BY <2>2, <2>3
<1>2. /\ Tell(to, m) /\ srv' = [srv EXCEPT ![u] = [pc |-> "idle", m |-> <<>>]]
      /\ UNCHANGED <<session, up, online, routed, read, client, co, begun>>
  BY <1>1 DEF Forward, Tell, clients
<1>3. /\ srv'[u].pc = "idle" /\ \A v \in User \ {u} : srv'[v] = srv[v]
  <2>1. srv \in [User -> [pc : {"idle"}, m : {<<>>}] \cup [pc : {"write", "forward"}, m : Packet]]
    BY DEF CallInv, CallTypeOK
  <2> QED  BY <1>2, <2>1
<1>4. \A v \in User, z \in Session : \A T : Works(v, z, T)' <=> v # u /\ Works(v, z, T)
  BY <1>3 DEF Works
<1>5. \A v \in User, z \in Session : \A T :
        /\ Told(v, z, T) => Told(v, z, T)'
        /\ Told(v, z, T)' => Told(v, z, T) \/ (v = to /\ z = s /\ m.type \in T)
  BY <1>1, <1>2, TellTypes
<1>6. \A v \in User, z \in Session : \A T :
        Unread(v, z, T)' <=> Unread(v, z, T) \/ (v = to /\ z = s /\ m.type \in T)
  <2>1. /\ said \in [User -> Seq(Packet)] /\ \A v \in User : read[v] \in 0..Len(said[v])
        /\ said' = [said EXCEPT ![to] = Append(said[to], m)] /\ read' = read
    BY <1>2, OldTypes DEF Tell, AllOnline
  <2>2. /\ DOMAIN Append(said[to], m) = DOMAIN said[to] \cup {Len(said[to]) + 1}
        /\ \A i \in DOMAIN said[to] : i < Len(said[to]) + 1 /\ Append(said[to], m)[i] = said[to][i]
        /\ Append(said[to], m)[Len(said[to]) + 1] = m
    BY <2>1, MentionsAppend
  <2>3. Len(said[to]) \in Nat /\ Len(said[to]) + 1 > read[to]
    BY <2>1, LenProperties
  <2>4. said'[to] = Append(said[to], m) /\ \A v \in User \ {to} : said'[v] = said[v]
    BY <2>1
  <2>5. ASSUME NEW z \in Session, NEW T
        PROVE  Unread(to, z, T)' <=> Unread(to, z, T) \/ (z = s /\ m.type \in T)
    <3>1. Unread(to, z, T)' <=> \E i \in DOMAIN Append(said[to], m) :
                                  /\ i > read[to]
                                  /\ Append(said[to], m)[i].s = z
                                  /\ Append(said[to], m)[i].type \in T
      BY <2>1, <2>4 DEF Unread
    <3>2. ASSUME Unread(to, z, T)
          PROVE  Unread(to, z, T)'
      <4>1. PICK i \in DOMAIN said[to] :
              i > read[to] /\ said[to][i].s = z /\ said[to][i].type \in T
        BY <3>2, Zenon DEF Unread
      <4>2. i \in DOMAIN Append(said[to], m) /\ Append(said[to], m)[i] = said[to][i]
        BY <2>2, Zenon
      <4> QED  BY <3>1, <4>1, <4>2, Zenon
    <3>3. ASSUME z = s, m.type \in T
          PROVE  Unread(to, z, T)'
      <4>1. Len(said[to]) + 1 \in DOMAIN Append(said[to], m)
        BY <2>2, Zenon
      <4> QED  BY <1>1, <2>2, <2>3, <3>1, <3>3, <4>1, Zenon
    <3>4. ASSUME Unread(to, z, T)'
          PROVE  Unread(to, z, T) \/ (z = s /\ m.type \in T)
      <4>1. PICK i \in DOMAIN Append(said[to], m) :
              /\ i > read[to] /\ Append(said[to], m)[i].s = z
              /\ Append(said[to], m)[i].type \in T
        BY <3>1, <3>4, Zenon
      <4>2. CASE i \in DOMAIN said[to]
        BY <2>2, <4>1, <4>2, Zenon DEF Unread
      <4>3. CASE i = Len(said[to]) + 1
        BY <1>1, <2>2, <4>1, <4>3, Zenon
      <4> QED  BY <2>2, <4>2, <4>3, Zenon
    <3> QED  BY <3>2, <3>3, <3>4
  <2>6. \A v \in User \ {to}, z \in Session : \A T : Unread(v, z, T)' <=> Unread(v, z, T)
    BY <2>1, <2>4 DEF Unread
  <2> QED  BY <2>5, <2>6
<1>7. /\ ~Told(to, s, {m.type} \cup Farewell) /\ ~Told(to, s, Farewell)
      /\ m.type = "INVITE" => /\ to = Callee[s] /\ ~Told(to, s, {"INVITE"})
                              /\ session[s] = "pending"
  <2>1. Works(u, s, Type)
    BY <1>1
  <2>2. ~Told(to, s, {m.type} \cup Farewell)
    BY <1>1, <2>1 DEF CallInv, SaidOnce
  <2>3. ~Told(to, s, Farewell) /\ (m.type = "INVITE" => ~Told(to, s, {"INVITE"}))
    BY <2>2, MentionsMore DEF Told
  <2>4. m.type = "INVITE" => to = Callee[s] /\ session[s] = "pending"
    BY <1>1 DEF Recipient, ListInv, ListOK, PendingTillTold
  <2> QED  BY <2>2, <2>3, <2>4
<1>8. \A v \in User, z \in Session :
        Written(v, z) => Written(v, z)' \/ (v = to /\ z = s /\ m.type \in Farewell)
  <2> SUFFICES ASSUME NEW v \in User, NEW z \in Session, NEW w \in User,
                      Works(w, z, Farewell), Recipient(w, srv[w].m) = v
               PROVE  Written(v, z)' \/ (v = to /\ z = s /\ m.type \in Farewell)
    BY DEF Written
  <2>1. CASE w = u
    BY <1>1, <2>1
  <2>2. CASE w # u
    <3>1. srv'[w] = srv[w]
      BY <1>3, <2>2
    <3> QED  BY <3>1 DEF Written, Works, Recipient, Other
  <2> QED  BY <2>1, <2>2
<1> SUFFICES ASSUME NEW v \in User, NEW z \in Session PROVE ListOK(v, z)'
  BY <1>2 DEF ListInv, AllOnline
<1>9. /\ Active(v, z)' <=> Active(v, z)
      /\ Pending(v, z)' <=> Pending(v, z)
      /\ Saving(v, z)' <=> Saving(v, z)
      /\ Answering(v, z)' <=> Answering(v, z)
      /\ Hanging(v, "ui", z)' <=> Hanging(v, "ui", z)
      /\ Hanging(v, "rx", z)' <=> Hanging(v, "rx", z)
  BY <1>2, HeldAlone
<1>10. /\ ListOK(v, z) /\ session'[z] = session[z] /\ begun' = begun
       /\ \A T : Asked(v, z, T)' <=> Asked(v, z, T)
  BY <1>2 DEF ListInv, Asked
<1>11. /\ \A T : Works(v, z, T)' => Works(v, z, T)
       /\ \A T : Told(v, z, T) => Told(v, z, T)'
       /\ "INVITE" \notin Farewell
  BY <1>4, <1>5 DEF Farewell
<1>12. CASE v = to /\ z = s
  <2>1. ~Hanging(v, "rx", z)
    BY <1>7, <1>10, <1>12 DEF ListOK, NothingFollows
  <2>2. Written(v, z) => Written(v, z)' \/ Unread(v, z, Farewell)'
    BY <1>6, <1>8, <1>12
  <2>3. \A T : Unread(v, z, T) => Unread(v, z, T)'
    BY <1>6
  <2>4. CASE m.type = "INVITE"
    <3>1. /\ ~Active(v, z) /\ ~Pending(v, z) /\ ~Saving(v, z) /\ ~Hanging(v, "ui", z)
          /\ ~Asked(v, z, Type) /\ ~Works(v, z, Type)
      BY <1>7, <1>10, <1>12, <2>4 DEF ListOK, KnownByCallee
    <3>2. ~Spoken(v, z)' /\ ~Works(v, z, {"INVITE"})'
      <4>1. ~Asked(v, z, Farewell) /\ ~Works(v, z, Farewell) /\ ~Works(v, z, {"INVITE"})
        BY <3>1, MentionsMore DEF Asked, Works, Farewell, Type
      <4> QED  BY <1>10, <1>11, <4>1 DEF Spoken
    <3>3. session'[z] # "gone"
      BY <1>7, <1>10, <1>12, <2>4
    <3>4. ~Asked(v, z, Type)' /\ ~Works(v, z, Type)'
      BY <1>10, <1>11, <3>1
    <3> QED  BY <1>9, <2>1, <3>1, <3>2, <3>3, <3>4
         DEF ListOK, InvitedOnce, ActiveWhileAnswering, LeftForGood, LeavesAtOnce, EndIsComing,
             BeginIsComing, PendingTillTold, KnownByCaller, KnownByCallee, NothingFollows
  <2>5. CASE m.type # "INVITE"
    <3>1. Unread(v, z, {"INVITE"})' <=> Unread(v, z, {"INVITE"})
      BY <1>6, <2>5
    <3> QED  BY <1>9, <1>10, <1>11, <2>1, <2>2, <2>3, <3>1
         DEF ListOK, InvitedOnce, ActiveWhileAnswering,
         LeftForGood, LeavesAtOnce, EndIsComing, BeginIsComing, PendingTillTold, KnownByCaller,
         KnownByCallee, NothingFollows, Invited, Spoken, Coming
  <2> QED  BY <2>4, <2>5
<1>13. CASE ~(v = to /\ z = s)
  <2>1. /\ \A T : Unread(v, z, T)' <=> Unread(v, z, T)
        /\ Written(v, z) => Written(v, z)'
    BY <1>6, <1>8, <1>13
  <2> QED  BY <1>9, <1>10, <1>11, <2>1
       DEF ListOK, InvitedOnce, ActiveWhileAnswering,
         LeftForGood, LeavesAtOnce, EndIsComing, BeginIsComing, PendingTillTold, KnownByCaller,
         KnownByCallee, NothingFollows, Invited, Spoken, Coming
<1> QED  BY <1>12, <1>13

\* No connection comes back.
LEMMA OnlineKept ==
  ASSUME CallInv, NEW u \in User,
         \/ ServerStep(u) \/ Incoming(u) \/ Command(u) \/ Leave(u)
         \/ \E k \in Routine : Continue(u, k)
  PROVE  \A v \in User : online'[v] => online[v]
<1>1. CASE ServerStep(u)
  BY <1>1 DEF ServerStep, WriteRow, Forward, Unroute, ManagerInvite, ManagerAccept, ManagerEnd,
       Begin, network
<1>2. CASE Incoming(u)
  <2>1. Take(u)
    BY <1>2, IncomingEffect
  <2> QED  BY <2>1, TakeTypes
<1>3. CASE Command(u)
  <2>1. ASSUME NEW s \in Session, Invite(u, s) \/ Accept(u, s) \/ Decline(u, s)
        PROVE  online' = online
    BY <2>1 DEF Invite, Accept, Decline, Send
  <2>2. ASSUME End(u)
        PROVE  online' = online
    BY <2>2 DEF End, Send, network
  <2> QED  BY <1>3, <2>1, <2>2 DEF Command
<1>4. CASE Leave(u)
  <2>1. online \in [User -> BOOLEAN] /\ online' = [online EXCEPT ![u] = FALSE]
    BY <1>4, OldTypes DEF Leave
  <2> QED  BY <2>1
<1>5. ASSUME NEW k \in Routine, Continue(u, k)
      PROVE  online' = online
  BY <1>5 DEF Continue, Save, Started, Stopped, Close, Send, network
<1> QED  BY <1>1, <1>2, <1>3, <1>4, <1>5

LEMMA ListNextInv == CallInv /\ ListInv /\ [CallNext]_callVars => ListInv'
<1> SUFFICES ASSUME CallInv, ListInv, [CallNext]_callVars, AllOnline' PROVE ListInv'
  BY DEF ListInv
<1>1. CASE UNCHANGED callVars
  <2>1. UNCHANGED <<session, srv, up, online, routed, said, read, client, co, begun>>
    BY <1>1 DEF callVars, server, network, clients
  <2>2. AllOnline
    BY <2>1 DEF AllOnline
  <2> SUFFICES ASSUME NEW v \in User, NEW z \in Session PROVE ListOK(v, z)'
    BY <2>1, <2>2 DEF ListInv
  <2>3. /\ \A T : (Told(v, z, T)' <=> Told(v, z, T)) /\ (Works(v, z, T)' <=> Works(v, z, T))
        /\ Written(v, z)' <=> Written(v, z)
        /\ \A T : Unread(v, z, T)' <=> Unread(v, z, T)
        /\ \A T : Asked(v, z, T)' <=> Asked(v, z, T)
    BY <2>1, SameServer, SameUnread DEF Asked
  <2>4. /\ Active(v, z)' <=> Active(v, z)
        /\ Pending(v, z)' <=> Pending(v, z)
        /\ Saving(v, z)' <=> Saving(v, z)
        /\ Answering(v, z)' <=> Answering(v, z)
        /\ Hanging(v, "ui", z)' <=> Hanging(v, "ui", z)
        /\ Hanging(v, "rx", z)' <=> Hanging(v, "rx", z)
    BY <2>1, HeldAlone
  <2>5. ListOK(v, z) /\ begun' = begun /\ session'[z] = session[z]
    BY <2>1, <2>2 DEF ListInv
  <2> QED  BY <2>3, <2>4, <2>5
       DEF ListOK, InvitedOnce, ActiveWhileAnswering,
         LeftForGood, LeavesAtOnce, EndIsComing, BeginIsComing, PendingTillTold, KnownByCaller,
         KnownByCallee, NothingFollows, Invited, Spoken, Coming
<1>2. ASSUME NEW u \in User, \/ ServerStep(u) \/ Incoming(u) \/ Command(u) \/ Leave(u)
                             \/ \E k \in Routine : Continue(u, k)
      PROVE  ListInv'
  <2>1. ~Leave(u) /\ AllOnline
    <3>1. online \in [User -> BOOLEAN]
      BY OldTypes
    <3>2. Leave(u) => ~online'[u]
      BY <3>1 DEF Leave
    <3>3. ~Leave(u)
      BY <3>2 DEF AllOnline
    <3>4. \A v \in User : online'[v] => online[v]
      BY <1>2, <3>3, OnlineKept
    <3> QED  BY <3>3, <3>4 DEF AllOnline
  <2>2. ~Unroute(u)
    BY <2>1 DEF Unroute, AllOnline
  <2>3. CASE ServerStep(u)
    BY <2>1, <2>2, <2>3, ListWriteRow, ListForward, ListManager DEF ServerStep
  <2>4. CASE Incoming(u)
    BY <2>1, <2>4, ListIncoming
  <2>5. CASE Command(u)
    BY <2>1, <2>5, ListEnd, ListInvite, ListAccept, ListDecline DEF Command
  <2>6. ASSUME NEW k \in Routine, Continue(u, k)
        PROVE  ListInv'
    BY <2>1, <2>6, ListSave, ListStarted, ListStopped, ListClose DEF Continue
  <2> QED  BY <1>2, <2>1, <2>3, <2>4, <2>5, <2>6
<1> QED  BY <1>1, <1>2 DEF CallNext

\* When things have settled and all are connected, no client is in a call that the
\* server has no session for: decline, end and the handlers of both leave nothing
\* behind in App.active_session (handlers/call.py), whatever order accept, decline
\* and hang-up come in, crossed calls included.
THEOREM ActiveCallsAreListed == CallSpec => []ActiveIsListed
<1>1. CallInit => ListInv
  BY ListInitInv
<1>2. CallInv /\ ListInv /\ [CallNext]_callVars => ListInv'
  BY ListNextInv
<1>3. CallInv /\ ListInv => ActiveIsListed
  <2> SUFFICES ASSUME CallInv, ListInv, Quiet, AllOnline,
                      NEW u \in User, client[u].active # NoSession
               PROVE  Listed(client[u].active)
    BY DEF ActiveIsListed, AllOnline
  <2>1. PICK s \in Session : s = client[u].active
    BY OldTypes DEF ClientRecord
  <2>2. ListOK(u, s) /\ Active(u, s)
    BY <2>1 DEF ListInv, Active
  <2>3. ~Asked(u, s, {"INVITE"})
    BY MentionsEmpty DEF Quiet, Asked
  <2>4. ~Unread(u, s, Farewell)
    <3>1. said[u] \in Seq(Packet) /\ read[u] = Len(said[u])
      BY OldTypes DEF Quiet
    <3>2. \A i \in DOMAIN said[u] : ~(i > read[u])
      BY <3>1, LenProperties
    <3> QED  BY <3>2 DEF Unread
  <2>5. ~Hanging(u, "ui", s) /\ ~Hanging(u, "rx", s) /\ ~Written(u, s)
    BY DEF Quiet, Free, Hanging, Written, Works, Routine
  <2>6. session[s] \in {"none", "pending", "active", "gone"}
    BY DEF CallInv, CallTypeOK
  <2> QED  BY <2>1, <2>2, <2>3, <2>4, <2>5, <2>6
       DEF ListOK, EndIsComing, BeginIsComing, Coming, Listed
<1> QED  BY <1>1, <1>2, <1>3, CallInvHolds, PTL DEF CallSpec
=============================================================================
