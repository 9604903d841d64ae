---------------------------- MODULE CallSignaling ----------------------------
(***************************************************************************)
(* Voice calls: the sessions of server/call_manager.py and its rows in     *)
(* call_sessions, and at each client client/handlers/call.py with the      *)
(* commands and callbacks of client/app.py.                                *)
(*                                                                         *)
(* The server handles the packets of one connection one at a time and      *)
(* those of different connections interleaved.  A client has two           *)
(* coroutines, "ui" for commands and "rx" for incoming packets, which      *)
(* interleave at each database statement and while an audio stream starts  *)
(* or stops.  Putting a packet into WSClient's send queue does not suspend.*)
(* Audio frames themselves (CALL_RELAY) and ports are left out.            *)
(***************************************************************************)
EXTENDS Integers, Sequences, FiniteSets, Functions

CONSTANTS User, Session, NoSession,
          Caller, Callee,  \* Caller[s] invites Callee[s]
          Leaving          \* bound: the users that may lose their connection

ASSUME CallAssumption == /\ NoSession \notin Session
                         /\ Caller \in [Session -> User] /\ Callee \in [Session -> User]
                         /\ \A s \in Session : Caller[s] # Callee[s]
                         /\ Leaving \subseteq User

VARIABLES
  session,  \* status in CallManager._sessions; "gone" once popped
  row,      \* the call_sessions rows
  srv,      \* what the server is doing with the last packet of u
  up,       \* packets on their way from u to the server
  online,   \* whether the connection of u is alive
  routed,   \* whether the router knows u
  said,     \* all packets written to u, in order
  read,     \* how many of them u has taken
  client,   \* the fields of CallHandler, and App.pending_calls
  stream,   \* the AudioStream objects, one per user and session at most
  co,       \* the locals of the two coroutines of each client
  log,      \* the status column of the client's own calls table
  begun,    \* the sessions that were started
  hungup    \* history: <<u, s>> such that end(s) has returned at u

server == <<session, row, srv>>
network == <<up, online, routed, said, read>>
clients == <<client, stream, co, log, begun, hungup>>
callVars == <<server, network, clients>>

Type == {"INVITE", "ACCEPT", "DECLINE", "END"}
Packet == [type : Type, s : Session]
Msg(t, s) == [type |-> t, s |-> s]

NoKey == <<>>
Ephemerals == User \X Session          \* the key pair u made for s
\* _derive_call_key: X25519 of two key pairs, salted with the session.
Key(mine, theirs, s) == <<{mine, theirs}, s>>
\* os.urandom, when no key was derived: shared with nobody.
RandomKey(u, s) == <<{<<u, s>>}, s>>
Keys == {NoKey} \cup ((SUBSET Ephemerals) \X Session)

Routine == {"ui", "rx"}
Idle == [pc |-> "idle", s |-> NoSession, was |-> NoSession]
At(pc, s) == [pc |-> pc, s |-> s, was |-> NoSession]
Stopping(s, was) == [pc |-> "stop", s |-> s, was |-> was]
Fresh == [active |-> NoSession, eph |-> <<>>, key |-> NoKey, handle |-> NoSession,
          pending |-> {}]
Forget(c) == [c EXCEPT !.active = NoSession, !.key = NoKey, !.eph = <<>>]

CallInit ==
  /\ session = [s \in Session |-> "none"]
  /\ row = [s \in Session |-> [status |-> "none", ended |-> FALSE]]
  /\ srv = [u \in User |-> [pc |-> "idle", m |-> <<>>]]
  /\ up = [u \in User |-> <<>>]
  /\ online = [u \in User |-> TRUE] /\ routed = [u \in User |-> TRUE]
  /\ said = [u \in User |-> <<>>] /\ read = [u \in User |-> 0]
  /\ client = [u \in User |-> Fresh]
  /\ stream = [u \in User |-> [s \in Session |-> [phase |-> "none", key |-> NoKey]]]
  /\ co = [u \in User |-> [k \in Routine |-> Idle]]
  /\ log = [u \in User |-> [s \in Session |-> "none"]]
  /\ begun = {} /\ hungup = {}

-----------------------------------------------------------------------------
\* The server: CallManager, called by the handler of each connection.

\* Mutant of Other: the comparison is with the callee.
OtherSwapped(u, s) == IF u = Callee[s] THEN Callee[s] ELSE Caller[s]
Other(u, s) == IF u = Caller[s] THEN Callee[s] ELSE Caller[s]
Work(u, pc, m) == srv' = [srv EXCEPT ![u] = [pc |-> pc, m |-> m]]
Recipient(u, m) == CASE m.type = "INVITE" -> Callee[m.s]
                     [] m.type \in {"ACCEPT", "DECLINE"} -> Caller[m.s]
                     [] m.type = "END" -> Other(u, m.s)
Listed(s) == session[s] \in {"pending", "active"}

Begin(u) == /\ srv[u].pc = "idle" /\ up[u] # <<>>
            /\ up' = [up EXCEPT ![u] = Tail(@)]
            /\ UNCHANGED <<online, routed, read, clients>>

ManagerInvite(u, s) ==
  /\ Begin(u) /\ Head(up[u]) = Msg("INVITE", s)
  /\ IF routed[Callee[s]]
       THEN /\ session' = [session EXCEPT ![s] = "pending"]
            /\ Work(u, "write", Head(up[u]))
            /\ UNCHANGED <<said, row>>
       ELSE /\ said' = IF online[u] THEN [said EXCEPT ![u] = Append(@, Msg("DECLINE", s))]
                                    ELSE said
            /\ UNCHANGED server

ManagerAccept(u, s) ==
  /\ Begin(u) /\ Head(up[u]) = Msg("ACCEPT", s)
  /\ IF session[s] = "pending"
       THEN session' = [session EXCEPT ![s] = "active"] /\ Work(u, "write", Head(up[u]))
       ELSE UNCHANGED <<session, srv>>
  /\ UNCHANGED <<said, row>>

\* decline and end_call: whoever pops the session goes on with it.
ManagerEnd(u, s) ==
  /\ Begin(u) /\ Head(up[u]) \in {Msg("DECLINE", s), Msg("END", s)}
  /\ IF Listed(s)
       THEN session' = [session EXCEPT ![s] = "gone"] /\ Work(u, "write", Head(up[u]))
       ELSE UNCHANGED <<session, srv>>
  /\ UNCHANGED <<said, row>>

\* Mutant of WriteRow: accepting replaces the whole row.
WriteRowReplaces(u) ==
  /\ srv[u].pc = "write"
  /\ row' = [row EXCEPT ![srv[u].m.s] =
               CASE srv[u].m.type = "INVITE" -> [@ EXCEPT !.status = "pending"]
                 [] srv[u].m.type = "ACCEPT" -> [status |-> "active", ended |-> FALSE]
                 [] OTHER -> [status |-> "ended", ended |-> TRUE]]
  /\ Work(u, "forward", srv[u].m)
  /\ UNCHANGED <<session, network, clients>>

\* create_call, update_call or end_call on the row.
WriteRow(u) ==
  /\ srv[u].pc = "write"
  /\ row' = [row EXCEPT ![srv[u].m.s] =
               CASE srv[u].m.type = "INVITE" -> [@ EXCEPT !.status = "pending"]
                 [] srv[u].m.type = "ACCEPT" -> [@ EXCEPT !.status = "active"]
                 [] OTHER -> IF @.status = "none" THEN @
                             ELSE [status |-> "ended", ended |-> TRUE]]
  /\ Work(u, "forward", srv[u].m)
  /\ UNCHANGED <<session, network, clients>>

\* CallManager._send to the other party, if it can be reached.
Forward(u) ==
  LET m == srv[u].m
      to == Recipient(u, m)
  IN /\ srv[u].pc = "forward"
     /\ said' = IF online[to] THEN [said EXCEPT ![to] = Append(@, m)] ELSE said
     /\ srv' = [srv EXCEPT ![u] = [pc |-> "idle", m |-> <<>>]]
     /\ UNCHANGED <<session, row, up, online, routed, read, clients>>

\* A connection is lost with what is on its way, and later noticed by the server.
Leave(u) == /\ u \in Leaving /\ online[u]
            /\ online' = [online EXCEPT ![u] = FALSE]
            /\ up' = [up EXCEPT ![u] = <<>>]
            /\ read' = [read EXCEPT ![u] = Len(said[u])]
            /\ UNCHANGED <<routed, said, server, clients>>

Unroute(u) == /\ ~online[u] /\ routed[u] /\ srv[u].pc = "idle"
              /\ routed' = [routed EXCEPT ![u] = FALSE]
              /\ UNCHANGED <<up, online, said, read, server, clients>>

-----------------------------------------------------------------------------
\* The client: commands, given with the session the app picks when none is named.

Free(u, k) == co[u][k].pc = "idle"
Go(u, k, r) == co' = [co EXCEPT ![u][k] = r]
Send(u, t, s) == /\ up' = IF online[u] THEN [up EXCEPT ![u] = Append(@, Msg(t, s))] ELSE up
                 /\ UNCHANGED <<online, routed, said, read>>

Invite(u, s) ==
  /\ Free(u, "ui") /\ Caller[s] = u /\ s \notin begun
  /\ client' = [client EXCEPT ![u].eph = <<u, s>>, ![u].active = s]
  /\ Send(u, "INVITE", s) /\ Go(u, "ui", At("save", s))
  /\ begun' = begun \cup {s}
  /\ UNCHANGED <<server, stream, log, hungup>>

\* _start_audio_stream up to its await; an earlier stream is overwritten, not stopped.
StartStream(u, s, key) ==
  stream' = [stream EXCEPT ![u][s] = [phase |-> "starting", key |-> key]]

Accept(u, s) ==
  LET key == Key(<<u, s>>, <<Caller[s], s>>, s)
  IN /\ Free(u, "ui") /\ s \in client[u].pending
     /\ client' = [client EXCEPT ![u].key = key, ![u].eph = <<u, s>>,
                                 ![u].active = s, ![u].handle = s]
     /\ StartStream(u, s, key)
     /\ Send(u, "ACCEPT", s) /\ Go(u, "ui", At("start", s))
     /\ UNCHANGED <<server, log, begun, hungup>>

Decline(u, s) ==
  /\ Free(u, "ui") /\ s \in client[u].pending
  /\ client' = [client EXCEPT ![u].pending = @ \ {s}]
  /\ Send(u, "DECLINE", s)
  /\ UNCHANGED <<server, stream, co, log, begun, hungup>>

\* _stop_audio_stream: stopping a running stream waits for its receive task; one
\* that is still starting has nothing to stop yet and goes on to start.
\* Mutant of Suspends: no test whether there is a stream.
SuspendsAlways(u) == TRUE
Suspends(u) == client[u].handle # NoSession /\ stream[u][client[u].handle].phase = "running"
Hang(u, k, s) ==
  /\ IF Suspends(u)
       THEN Go(u, k, Stopping(s, client[u].handle)) /\ UNCHANGED client
       ELSE Go(u, k, At("close", s)) /\ client' = [client EXCEPT ![u].handle = NoSession]
  /\ UNCHANGED <<server, stream, log, begun, hungup>>

End(u) ==
  LET s == client[u].active
  IN /\ Free(u, "ui") /\ s # NoSession
     /\ Hang(u, "ui", s)
     /\ IF Suspends(u) THEN UNCHANGED network ELSE Send(u, "END", s)

-----------------------------------------------------------------------------
\* The client: the rest of its coroutines, and incoming packets.

\* save_call (INSERT OR IGNORE); an incoming call is then offered to the user.
Save(u, k) ==
  LET s == co[u][k].s
  IN /\ co[u][k].pc = "save"
     /\ log' = [log EXCEPT ![u][s] = IF @ = "none" THEN "ringing" ELSE @]
     /\ client' = IF k = "ui" THEN client ELSE [client EXCEPT ![u].pending = @ \cup {s}]
     /\ Go(u, k, Idle)
     /\ UNCHANGED <<server, network, stream, begun, hungup>>

\* AudioStream.start returns, or raises and the call goes on without audio.
Started(u, k) ==
  LET s == co[u][k].s
  IN /\ co[u][k].pc = "start"
     /\ \E ok \in BOOLEAN :
          /\ stream' = [stream EXCEPT ![u][s].phase = IF ok THEN "running" ELSE "none"]
          /\ client' = [client EXCEPT ![u].handle = IF ok THEN @ ELSE NoSession,
                                      ![u].pending = IF k = "ui" THEN @ \ {s} ELSE @]
     /\ Go(u, k, Idle)
     /\ UNCHANGED <<server, network, log, begun, hungup>>

\* Mutant of Stopped: stopping the stream raises out of end before CALL_END is sent.
StoppedSilently(u, k) ==
  LET r == co[u][k]
  IN /\ r.pc = "stop"
     /\ stream' = [stream EXCEPT ![u][r.was].phase = IF @ = "running" THEN "stopped" ELSE @]
     /\ client' = [client EXCEPT ![u].handle = NoSession]
     /\ Go(u, k, At("close", r.s))
     /\ UNCHANGED <<server, network, log, begun, hungup>>

\* The stop returns: whatever stream is held by now is let go of.
Stopped(u, k) ==
  LET r == co[u][k]
  IN /\ r.pc = "stop"
     /\ stream' = [stream EXCEPT ![u][r.was].phase = IF @ = "running" THEN "stopped" ELSE @]
     /\ client' = [client EXCEPT ![u].handle = NoSession]
     /\ Go(u, k, At("close", r.s))
     /\ IF k = "ui" THEN Send(u, "END", r.s) ELSE UNCHANGED network
     /\ UNCHANGED <<server, log, begun, hungup>>

\* Mutant of Close: the peer's hang-up clears the key but not the active call.
CloseKeepsActive(u, k) ==
  LET s == co[u][k].s
  IN /\ co[u][k].pc \in {"close", "declined"}
     /\ client' = [client EXCEPT ![u] =
                     IF k = "ui" THEN Forget(@)
                     ELSE [@ EXCEPT !.key = NoKey, !.eph = <<>>, !.pending = @ \ {s}]]
     /\ hungup' = IF k = "ui" THEN hungup \cup {<<u, s>>} ELSE hungup
     /\ Go(u, k, Idle)
     /\ UNCHANGED <<server, network, stream, log, begun>>

\* end_call on the client's row, and the fields of the call are cleared: by end
\* in any case, by _handle_end and _handle_decline if the call is still the active one.
Close(u, k) ==
  LET s == co[u][k].s
      declined == co[u][k].pc = "declined"
      left == IF client[u].active = s THEN Forget(client[u]) ELSE client[u]
  IN /\ co[u][k].pc \in {"close", "declined"}
     /\ log' = [log EXCEPT ![u][s] = CASE @ = "none" -> @
                                       [] @ # "none" /\ declined -> "declined"
                                       [] OTHER -> "completed"]
     /\ client' = [client EXCEPT ![u] = IF k = "ui" THEN Forget(@)
                                        ELSE [left EXCEPT !.pending = @ \ {s}]]
     /\ hungup' = IF k = "ui" THEN hungup \cup {<<u, s>>} ELSE hungup
     /\ Go(u, k, Idle)
     /\ UNCHANGED <<server, network, stream, begun>>

Arriving(u) == said[u][read[u] + 1]
Take(u) == /\ Free(u, "rx") /\ read[u] < Len(said[u])
           /\ read' = [read EXCEPT ![u] = @ + 1]
           /\ UNCHANGED <<up, online, routed, said>>

HandleInvite(u) ==
  /\ Take(u) /\ Arriving(u).type = "INVITE"
  /\ Go(u, "rx", At("save", Arriving(u).s))
  /\ UNCHANGED <<server, client, stream, log, begun, hungup>>

\* Mutant of HandleAccept: a key that is there is used again.
HandleAcceptCached(u) ==
  LET s == Arriving(u).s
      c == client[u]
      key == IF c.key = NoKey THEN Key(c.eph, <<Callee[s], s>>, s) ELSE c.key
  IN /\ Take(u) /\ Arriving(u).type = "ACCEPT"
     /\ client' = [client EXCEPT ![u].key = key, ![u].handle = s]
     /\ StartStream(u, s, key)
     /\ Go(u, "rx", At("start", s))
     /\ UNCHANGED <<server, log, begun, hungup>>

\* The key is derived from the current ephemeral key, whatever call that is of.
HandleAccept(u) ==
  LET s == Arriving(u).s
      c == client[u]
      key == CASE c.eph # <<>> -> Key(c.eph, <<Callee[s], s>>, s)
               [] c.eph = <<>> /\ c.key # NoKey -> c.key
               [] OTHER -> RandomKey(u, s)
  IN /\ Take(u) /\ Arriving(u).type = "ACCEPT"
     /\ client' = [client EXCEPT ![u].key = key, ![u].handle = s]
     /\ StartStream(u, s, key)
     /\ Go(u, "rx", At("start", s))
     /\ UNCHANGED <<server, log, begun, hungup>>

HandleDecline(u) ==
  /\ Take(u) /\ Arriving(u).type = "DECLINE"
  /\ Go(u, "rx", At("declined", Arriving(u).s))
  /\ UNCHANGED <<server, client, stream, log, begun, hungup>>

HandleEnd(u) == Take(u) /\ Arriving(u).type = "END" /\ Hang(u, "rx", Arriving(u).s)

-----------------------------------------------------------------------------
ServerStep(u) == \/ WriteRow(u) \/ Forward(u) \/ Unroute(u)
                 \/ \E s \in Session : \/ ManagerInvite(u, s)
                                       \/ ManagerAccept(u, s)
                                       \/ ManagerEnd(u, s)
Incoming(u) == HandleInvite(u) \/ HandleAccept(u) \/ HandleDecline(u) \/ HandleEnd(u)
Continue(u, k) == Save(u, k) \/ Started(u, k) \/ Stopped(u, k) \/ Close(u, k)
Command(u) == End(u) \/ \E s \in Session : Invite(u, s) \/ Accept(u, s) \/ Decline(u, s)

CallNext == \E u \in User : \/ ServerStep(u) \/ Incoming(u) \/ Command(u) \/ Leave(u)
                            \/ \E k \in Routine : Continue(u, k)

\* Both event loops get round to every coroutine that can run; a user need not act.
CallFairness == \A u \in User : /\ WF_callVars(ServerStep(u)) /\ WF_callVars(Incoming(u))
                                /\ \A k \in Routine : WF_callVars(Continue(u, k))

CallSpec == CallInit /\ [][CallNext]_callVars /\ CallFairness

-----------------------------------------------------------------------------
\* Properties.

CallTypeOK ==
  /\ session \in [Session -> {"none", "pending", "active", "gone"}]
  /\ row \in [Session -> [status : {"none", "pending", "active", "ended"}, ended : BOOLEAN]]
  /\ srv \in [User -> [pc : {"idle"}, m : {<<>>}] \cup [pc : {"write", "forward"}, m : Packet]]
  /\ up \in [User -> Seq(Packet)] /\ said \in [User -> Seq(Packet)]
  /\ online \in [User -> BOOLEAN] /\ routed \in [User -> BOOLEAN]
  /\ \A u \in User : read[u] \in 0..Len(said[u])
  /\ \A u \in User :
       /\ client[u].active \in Session \cup {NoSession}
       /\ client[u].handle \in Session \cup {NoSession}
       /\ client[u].eph \in Ephemerals \cup {<<>>}
       /\ client[u].key \in Keys /\ client[u].pending \subseteq Session
       /\ \A s \in Session : /\ stream[u][s].phase \in {"none", "starting", "running", "stopped"}
                             /\ stream[u][s].key \in Keys
       /\ \A k \in Routine : /\ (co[u][k].pc = "idle") = (co[u][k].s = NoSession)
                             /\ (co[u][k].pc = "stop") = (co[u][k].was # NoSession)
  /\ log \in [User -> [Session -> {"none", "ringing", "declined", "completed"}]]
  /\ begun \subseteq Session /\ hungup \subseteq User \X Session

Farewell == {"DECLINE", "END"}
Places(u, s) == {i \in DOMAIN said[u] : said[u][i].s = s}
Farewells(u, s) == {i \in Places(u, s) : said[u][i].type \in Farewell}

\* A call is ended once: if both hang up, or one hangs up while the other declines,
\* one of them and only one hears of it from the server, because the session is
\* popped before the first await of decline and end_call.
\* Nothing about the call follows its farewell, and nothing is said twice: a caller
\* that was told the call is over is not told afterwards that it was accepted.
FarewellIsLast ==
  /\ \A s \in Session :
       Cardinality(Farewells(Caller[s], s)) + Cardinality(Farewells(Callee[s], s)) <= 1
  /\ \A u \in User, s \in Session : \A i, j \in Places(u, s) :
       i < j => /\ said[u][i].type \notin Farewell
                /\ said[u][i].type # said[u][j].type

\* Once a session has left memory and its handlers are done, its row has an end.
EndIsRecorded ==
  \A s \in Session :
    session[s] = "gone" /\ (\A u \in User : srv[u].pc # "idle" => srv[u].m.s # s)
    => row[s].ended

\* Nothing is being done and nothing is on its way.
Quiet == \A u \in User : /\ srv[u].pc = "idle" /\ up[u] = <<>> /\ read[u] = Len(said[u])
                         /\ \A k \in Routine : Free(u, k)

\* When things have settled, a connected client is in a call only if the server has
\* a session for it: no order of accept, decline and hang-up leaves active_session
\* pointing to a call that is over.
ActiveIsListed ==
  Quiet /\ (\A u \in User : online[u]) =>
    \A u \in User : client[u].active # NoSession => Listed(client[u].active)

\* If both parties are in the call and both hear audio, they use the same key.
Running(u, s) == stream[u][s].phase = "running"
KeysAgree ==
  \A s \in Session :
    LET from == Caller[s]
        to == Callee[s]
    IN (\A u \in {from, to} : Running(u, s) /\ client[u].active = s)
       => stream[from][s].key = stream[to][s].key

\* A hang-up takes effect: the session goes away and, if its connection lives, the
\* other party has been told or has itself ended the call.
HangupReachesPeer ==
  \A u \in User, s \in Session :
    (<<u, s>> \in hungup /\ Listed(s)) ~>
      \/ session[s] = "gone" /\ (Farewells(Caller[s], s) \cup Farewells(Callee[s], s) # {})
      \/ \E v \in {Caller[s], Callee[s]} : ~online[v]

\* call.py, end: "Stops the audio stream, sends CALL_END to the server": a client that
\* has hung up has no audio running for the call.  (Violated.)
NoAudioAfterEnd == \A u \in User, s \in Session : <<u, s>> \in hungup => ~Running(u, s)
=============================================================================
