------------------------------- MODULE Access -------------------------------
(***************************************************************************)
(* Who may use the server, and how often: the loop and the AUTH_ branches  *)
(* of handle (server/ws_server.py), server/auth.py and the users and       *)
(* sessions tables (server/db/users.py), behind the rate limiter that      *)
(* every frame passes.  One coroutine per connection; it is suspended at   *)
(* every statement, and the others run meanwhile.                          *)
(*                                                                         *)
(* A person is known by his password: a row of users holds the person who  *)
(* registered the name.  What follows a login on the connection is the     *)
(* subject of ServerDelivery and is one step here.                         *)
(***************************************************************************)
EXTENDS RateLimiter, FiniteSets

CONSTANTS Conn,      \* connections, each opened once
          Person,    \* those at the other end, each with a password of his own
          Who,       \* whose connection it is
          Peer,      \* the address it comes from
          Name,      \* user names
          Nobody,    \* no name, no person
          Ttl,       \* SESSION_TTL, in ticks
          Sends,     \* bound: the kinds of frames the client of a connection sends
          MaxToken,  \* bound: tokens issued
          MaxCrash   \* bound: kills and restarts of the process

ASSUME AccessAssumption ==
  /\ Who \in [Conn -> Person] /\ Peer \in [Conn -> Key]
  /\ Name \subseteq Key /\ Nobody \notin Person \cup Key
  /\ Sends \in [Conn -> SUBSET {"register", "login", "token", "logout", "other"}]
  /\ Ttl \in Nat /\ MaxToken \in Nat /\ MaxCrash \in Nat

VARIABLES
  users,    \* users[u]: the person whose password the row of u has, or Nobody
  sessions, \* the rows of sessions in the order of their creation, deleted ones too
  h,        \* the handler of each connection: where it is, its username, its locals
  open,     \* the connections their client has open
  crashes   \* kills so far

acVars == <<users, sessions, h, open, crashes>>
tables == <<users, sessions>>

Row == [name : Name, by : Person, expires : Nat, live : BOOLEAN, told : BOOLEAN]
Handler == [pc : {"new", "recv", "lookup", "insert", "session", "answer", "validate",
                  "delete", "finally", "ended"},
            username : Name \cup {Nobody},  \* who the connection is logged in as
            name : Name \cup {Nobody},      \* locals: the name of the request,
            token : Nat,                    \*   the token, zero without one,
            register : BOOLEAN]             \*   and whether it is a registration
Idle(u) == [pc |-> "recv", username |-> u, name |-> Nobody, token |-> 0, register |-> FALSE]

AcInit == /\ RlInit
          /\ users = [u \in Name |-> Nobody] /\ sessions = <<>>
          /\ h = [c \in Conn |-> [Idle(Nobody) EXCEPT !.pc = "new"]]
          /\ open = {} /\ crashes = 0

-----------------------------------------------------------------------------
\* The loop: a frame arrives, is counted, and the handler starts on it.

Connect(c) == /\ h[c].pc = "new"
              /\ h' = [h EXCEPT ![c].pc = "recv"] /\ open' = open \cup {c}
              /\ UNCHANGED <<tables, crashes, rlVars>>

Close(c) == /\ c \in open /\ open' = open \ {c}
            /\ UNCHANGED <<tables, h, crashes, rlVars>>

\* rate_key: the name once there is one, until then the address.
RateKey(c) == IF h[c].username = Nobody THEN Peer[c] ELSE h[c].username

\* A frame of a kind for which the handler goes on to `next`; refused, it has no other
\* effect.
Frame(c, kind, next) ==
  /\ c \in open /\ h[c].pc = "recv" /\ kind \in Sends[c]
  /\ Allow(RateKey(c))
  /\ h' = IF Admits(RateKey(c)) THEN [h EXCEPT ![c] = next] ELSE h
  /\ UNCHANGED <<tables, open, crashes>>

MayIssue == Len(sessions) + Cardinality({c \in Conn : h[c].pc \in {"lookup", "insert", "session"}})
              < MaxToken

Register(c, u) ==
  /\ MayIssue
  /\ Frame(c, "register", [h[c] EXCEPT !.pc = "lookup", !.name = u, !.register = TRUE])
Login(c, u) == MayIssue /\ Frame(c, "login", [h[c] EXCEPT !.pc = "lookup", !.name = u])

\* The tokens a person can present are those he was told.
Tokens(c) == {i \in DOMAIN sessions : sessions[i].told /\ sessions[i].by = Who[c]}
Reauth(c, i) ==
  i \in Tokens(c) /\ Frame(c, "token", [h[c] EXCEPT !.pc = "validate", !.token = i])
Logout(c, i) ==
  i \in Tokens(c) /\ Frame(c, "logout", [h[c] EXCEPT !.pc = "delete", !.token = i])

\* Any other frame leaves what is modelled here alone.
Other(c) == Frame(c, "other", h[c])

-----------------------------------------------------------------------------
\* auth.register, auth.login, auth.validate_token, and what handle does with them.

Statement(c, pc) == h[c].pc = pc /\ UNCHANGED <<open, crashes, rlVars>>

\* The answer of a request that failed; the handler goes back to its loop, or ends if
\* the send raises.
Refused(c) == [Idle(h[c].username) EXCEPT !.pc = IF c \in open THEN "recv" ELSE "finally"]

\* Mutant of Lookup: a login is let in by the name alone.
LookupName(c) ==
  /\ Statement(c, "lookup")
  /\ LET goes == IF h[c].register THEN users[h[c].name] = Nobody
                                  ELSE users[h[c].name] # Nobody
         to == IF h[c].register THEN "insert" ELSE "session"
     IN h' = [h EXCEPT ![c] = IF goes THEN [h[c] EXCEPT !.pc = to] ELSE Refused(c)]
  /\ UNCHANGED tables

\* get_by_username: a registration needs a free name, a login the right password.
Lookup(c) ==
  /\ Statement(c, "lookup")
  /\ LET goes == IF h[c].register THEN users[h[c].name] = Nobody
                                  ELSE users[h[c].name] = Who[c]
         to == IF h[c].register THEN "insert" ELSE "session"
     IN h' = [h EXCEPT ![c] = IF goes THEN [h[c] EXCEPT !.pc = to] ELSE Refused(c)]
  /\ UNCHANGED tables

\* Mutant of CreateUser: the row is replaced if there is one by now.
CreateUserReplaces(c) ==
  /\ Statement(c, "insert")
  /\ users' = [users EXCEPT ![h[c].name] = Who[c]]
  /\ h' = [h EXCEPT ![c].pc = "session"]
  /\ UNCHANGED sessions

\* create_user: the name is UNIQUE.  Taken meanwhile, the statement raises, nobody is
\* answered and the finally block runs.
CreateUser(c) ==
  /\ Statement(c, "insert")
  /\ IF users[h[c].name] = Nobody
       THEN /\ users' = [users EXCEPT ![h[c].name] = Who[c]]
            /\ h' = [h EXCEPT ![c].pc = "session"]
       ELSE /\ h' = [h EXCEPT ![c] = [Idle(@.username) EXCEPT !.pc = "finally"]]
            /\ UNCHANGED users
  /\ UNCHANGED sessions

\* create_session, with a token that was never used before.
CreateSession(c) ==
  /\ Statement(c, "session")
  /\ sessions' = Append(sessions, [name |-> h[c].name, by |-> Who[c], live |-> TRUE,
                                   expires |-> clock + Ttl, told |-> FALSE])
  /\ h' = [h EXCEPT ![c].pc = "answer", ![c].token = Len(sessions')]
  /\ UNCHANGED users

\* validate_token: the row, unless it was deleted or has expired.
Validate(c) ==
  /\ Statement(c, "validate")
  /\ LET s == sessions[h[c].token]
     IN h' = [h EXCEPT ![c] = IF s.live /\ s.expires > clock
                                THEN [@ EXCEPT !.pc = "answer", !.name = s.name]
                                ELSE Refused(c)]
  /\ UNCHANGED tables

\* update_last_seen and _on_auth_success: the answer with the token is written, then
\* the name set; a send that raises leaves the name as it was.
Answer(c) ==
  /\ Statement(c, "answer")
  /\ IF c \in open
       THEN /\ sessions' = [sessions EXCEPT ![h[c].token].told = TRUE]
            /\ h' = [h EXCEPT ![c] = Idle(h[c].name)]
       ELSE h' = [h EXCEPT ![c] = Refused(c)] /\ UNCHANGED sessions
  /\ UNCHANGED users

\* AUTH_LOGOUT: delete_session, then out of the loop.
Delete(c) ==
  /\ Statement(c, "delete")
  /\ sessions' = [sessions EXCEPT ![h[c].token].live = FALSE]
  /\ h' = [h EXCEPT ![c] = [Idle(@.username) EXCEPT !.pc = "finally"]]
  /\ UNCHANGED users

\* The loop ends when the connection is closed; the finally block resets the bucket
\* of the user, whoever else is logged in under the name, and that of the address.
Finish(c) ==
  /\ h[c].pc = "finally" \/ (h[c].pc = "recv" /\ c \notin open)
  /\ h' = [h EXCEPT ![c] = [Idle(Nobody) EXCEPT !.pc = "ended"]]
  /\ open' = open \ {c}
  /\ Drop({h[c].username, Peer[c]} \cap Key)
  /\ UNCHANGED <<tables, crashes>>

\* The process is killed and started again: the rows stay, the buckets are gone.
Crash ==
  /\ crashes < MaxCrash /\ crashes' = crashes + 1
  /\ h' = [c \in Conn |-> IF h[c].pc = "new" THEN h[c] ELSE [Idle(Nobody) EXCEPT !.pc = "ended"]]
  /\ open' = {} /\ Drop(Key)
  /\ UNCHANGED tables

Time == Tick /\ UNCHANGED acVars

Input(c) == \/ Connect(c) \/ Close(c) \/ Other(c)
            \/ \E u \in Name : Register(c, u) \/ Login(c, u)
            \/ \E i \in 1..MaxToken : Reauth(c, i) \/ Logout(c, i)

Resume(c) == \/ Lookup(c) \/ CreateUser(c) \/ CreateSession(c) \/ Validate(c)
             \/ Answer(c) \/ Delete(c) \/ Finish(c)

AcNext == Time \/ Crash \/ \E c \in Conn : Input(c) \/ Resume(c)

AcSpec == AcInit /\ [][AcNext]_<<acVars, rlVars>>

-----------------------------------------------------------------------------
\* Properties.

\* The rows and the locals of the handlers; a handler has a request only while it
\* works on one.
AcTypeOK ==
  /\ users \in [Name -> Person \cup {Nobody}] /\ sessions \in Seq(Row)
  /\ h \in [Conn -> Handler] /\ open \subseteq Conn /\ crashes \in 0..MaxCrash
  /\ \A c \in Conn : /\ h[c].token \in 0..Len(sessions)
                     /\ h[c].pc \in {"new", "recv", "finally", "ended"} =>
                          h[c].name = Nobody /\ h[c].token = 0

\* Who is served under a name is who registered it, although two may register it at
\* the same time, log in under several names on one connection, present tokens told
\* to earlier connections, and the server may be killed between the statements.
ServedIsOwner == \A c \in Conn :
  h[c].username # Nobody => users[h[c].username] = Who[c]

\* Every token, told or not, belongs to the owner of the account it opens: the account
\* is there before its first session and stays, through a clash of registrations and a
\* kill between the two statements.
SessionsHaveOwner == \A i \in DOMAIN sessions : users[sessions[i].name] = sessions[i].by
=============================================================================
