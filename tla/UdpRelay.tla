------------------------------ MODULE UdpRelay ------------------------------
(***************************************************************************)
(* server/udp_relay.py: the raw UDP relay.  Every datagram carries its     *)
(* session; the first two unknown addresses of a session become its        *)
(* parties, and a datagram of a known address goes to the other party.     *)
(* Datagrams are handled one at a time, in whatever order the network      *)
(* delivers them.  Restarting the server forgets everything.               *)
(***************************************************************************)
EXTENDS Naturals

CONSTANTS Addr, Session, NoAddr, NoSession

ASSUME UdpAssumption == NoAddr \notin Addr /\ NoSession \notin Session

VARIABLES
  first,   \* first[s]: _endpoints[s]["a"]
  second,  \* second[s]: _endpoints[s]["b"]
  home,    \* home[x]: _addr_to_session[x]
  sent     \* the datagram the last step forwarded, or its absence

udpVars == <<first, second, home, sent>>

Datagram == [from : Addr, to : Addr, session : Session]
Nothing == [from |-> NoAddr, to |-> NoAddr, session |-> NoSession]

UdpInit == /\ first = [s \in Session |-> NoAddr]
           /\ second = [s \in Session |-> NoAddr]
           /\ home = [x \in Addr |-> NoSession]
           /\ sent = Nothing

\* Mutant of Known: an address is known to a session when it has its first place.
KnownHere(x) == \E s \in Session : first[s] = x

Known(x) == home[x] # NoSession

\* The first unknown address of the session.
RegisterFirst(x, s) ==
  /\ ~Known(x) /\ first[s] = NoAddr
  /\ first' = [first EXCEPT ![s] = x]
  /\ home' = [home EXCEPT ![x] = s]
  /\ sent' = Nothing /\ UNCHANGED second

\* Mutant of RegisterSecond: the newest unknown address takes the second place.
RegisterLatest(x, s) ==
  /\ ~Known(x) /\ first[s] # NoAddr
  /\ second' = [second EXCEPT ![s] = x]
  /\ home' = [home EXCEPT ![x] = s]
  /\ sent' = Nothing /\ UNCHANGED first

\* The second one.
RegisterSecond(x, s) ==
  /\ ~Known(x) /\ first[s] # NoAddr /\ second[s] = NoAddr
  /\ second' = [second EXCEPT ![s] = x]
  /\ home' = [home EXCEPT ![x] = s]
  /\ sent' = Nothing /\ UNCHANGED first

\* A third unknown address, a datagram too short to have a session, or one whose
\* session has no second party yet.
Discard(x, s) ==
  /\ \/ ~Known(x) /\ second[s] # NoAddr
     \/ Known(x) /\ (first[s] = NoAddr \/ second[s] = NoAddr)
  /\ sent' = Nothing
  /\ UNCHANGED <<first, second, home>>

Other(x, s) == IF x = first[s] THEN second[s] ELSE first[s]

\* An address that is known from any session counts as a party of this one.
Forward(x, s) ==
  /\ Known(x) /\ first[s] # NoAddr /\ second[s] # NoAddr
  /\ sent' = [from |-> x, to |-> Other(x, s), session |-> s]
  /\ UNCHANGED <<first, second, home>>

Restart == /\ first' = [s \in Session |-> NoAddr]
           /\ second' = [s \in Session |-> NoAddr]
           /\ home' = [x \in Addr |-> NoSession]
           /\ sent' = Nothing

Receive(x, s) == \/ RegisterFirst(x, s) \/ RegisterSecond(x, s)
                 \/ Discard(x, s) \/ Forward(x, s)

UdpNext == Restart \/ \E x \in Addr, s \in Session : Receive(x, s)

UdpSpec == UdpInit /\ [][UdpNext]_udpVars

-----------------------------------------------------------------------------
UdpTypeOK == /\ first \in [Session -> Addr \cup {NoAddr}]
             /\ second \in [Session -> Addr \cup {NoAddr}]
             /\ home \in [Addr -> Session \cup {NoSession}]
             /\ sent \in Datagram \cup {Nothing}

\* The two tables agree: an address is a party of a session exactly when it is
\* bound to it, of one session only, and in one place only.
TablesAgree ==
  /\ \A s \in Session : \A x \in Addr :
       home[x] = s <=> first[s] = x \/ second[s] = x
  /\ \A s \in Session : first[s] # NoAddr => first[s] # second[s]
  /\ \A s \in Session : second[s] # NoAddr => first[s] # NoAddr

\* A forwarded datagram goes to a party of its session and never back to the
\* address it came from: neither party hears itself.
NoEcho == sent # Nothing => /\ sent.to # sent.from
                            /\ home[sent.to] = sent.session

\* Once a call has both its parties they stay the same until a restart.
PartiesStay ==
  [][\A s \in Session : first[s] # NoAddr /\ second[s] # NoAddr =>
       \/ first'[s] = first[s] /\ second'[s] = second[s]
       \/ first'[s] = NoAddr /\ second'[s] = NoAddr]_udpVars
=============================================================================
