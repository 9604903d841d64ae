--------------------------- MODULE UdpRelayProofs ---------------------------
(***************************************************************************)
(* For every set of addresses and sessions: the two tables of the relay    *)
(* agree, nobody is sent their own datagram, and the parties of a call do  *)
(* not change.  TablesAgree is inductive together with the types; NoEcho   *)
(* is re-established from them by every forward and kept vacuously else.   *)
(***************************************************************************)
EXTENDS UdpRelay, TLAPS

UdpInv == UdpTypeOK /\ TablesAgree

LEMMA UdpInitInv == UdpInit => UdpInv /\ NoEcho
BY UdpAssumption DEF UdpInit, UdpInv, UdpTypeOK, TablesAgree, NoEcho

LEMMA RegisterFirstInv ==
  ASSUME UdpInv, NEW x \in Addr, NEW s \in Session, RegisterFirst(x, s)
  PROVE  UdpInv'
<1>1. UdpTypeOK'
  BY DEF RegisterFirst, UdpInv, UdpTypeOK
<1>2. TablesAgree'
  BY UdpAssumption DEF RegisterFirst, Known, UdpInv, UdpTypeOK, TablesAgree
<1> QED  BY <1>1, <1>2 DEF UdpInv

LEMMA RegisterSecondInv ==
  ASSUME UdpInv, NEW x \in Addr, NEW s \in Session, RegisterSecond(x, s)
  PROVE  UdpInv'
<1>1. UdpTypeOK'
  BY DEF RegisterSecond, UdpInv, UdpTypeOK
<1>2. TablesAgree'
  BY UdpAssumption DEF RegisterSecond, Known, UdpInv, UdpTypeOK, TablesAgree
<1> QED  BY <1>1, <1>2 DEF UdpInv

LEMMA ForwardInv ==
  ASSUME UdpInv, NEW x \in Addr, NEW s \in Session, Forward(x, s)
  PROVE  UdpInv' /\ NoEcho'
<1>1. /\ first[s] \in Addr /\ second[s] \in Addr /\ first[s] # second[s]
      /\ Other(x, s) \in Addr /\ Other(x, s) # x
  BY DEF Forward, Other, UdpInv, UdpTypeOK, TablesAgree
<1>2. home[Other(x, s)] = s
  BY <1>1 DEF Other, UdpInv, UdpTypeOK, TablesAgree
<1>3. UNCHANGED <<first, second, home>>
  BY DEF Forward
<1>4. sent' = [from |-> x, to |-> Other(x, s), session |-> s] /\ sent' \in Datagram
  BY <1>1 DEF Forward, Datagram
<1>5. UdpInv'
  BY <1>3, <1>4 DEF UdpInv, UdpTypeOK, TablesAgree
<1>6. sent'.from = x /\ sent'.to = Other(x, s) /\ sent'.session = s
  BY <1>4
<1>7. NoEcho'
  BY <1>1, <1>2, <1>3, <1>6 DEF NoEcho
<1> QED  BY <1>5, <1>7

LEMMA UdpNextInv == UdpInv /\ NoEcho /\ [UdpNext]_udpVars => UdpInv' /\ NoEcho'
<1> SUFFICES ASSUME UdpInv, NoEcho, [UdpNext]_udpVars PROVE UdpInv' /\ NoEcho'
  OBVIOUS
<1>1. ASSUME sent' = Nothing PROVE NoEcho'
  BY <1>1 DEF NoEcho, Nothing
<1>2. CASE Restart
  <2>1. UdpInv'
    BY <1>2, UdpAssumption DEF Restart, UdpInv, UdpTypeOK, TablesAgree
  <2> QED  BY <1>1, <1>2, <2>1 DEF Restart
<1>3. ASSUME NEW x \in Addr, NEW s \in Session, Receive(x, s) PROVE UdpInv' /\ NoEcho'
  <2>1. CASE RegisterFirst(x, s)
    BY <1>1, <2>1, RegisterFirstInv DEF RegisterFirst
  <2>2. CASE RegisterSecond(x, s)
    BY <1>1, <2>2, RegisterSecondInv DEF RegisterSecond
  <2>3. CASE Discard(x, s)
    <3>1. UdpInv'
      BY <2>3 DEF Discard, UdpInv, UdpTypeOK, TablesAgree
    <3> QED  BY <1>1, <2>3, <3>1 DEF Discard
  <2>4. CASE Forward(x, s)
    BY <2>4, ForwardInv
  <2> QED  BY <1>3, <2>1, <2>2, <2>3, <2>4 DEF Receive
<1>4. CASE UNCHANGED udpVars
  BY <1>4 DEF udpVars, UdpInv, UdpTypeOK, TablesAgree, NoEcho, Nothing
<1> QED  BY <1>2, <1>3, <1>4 DEF UdpNext

LEMMA UdpInvariant == UdpSpec => [](UdpInv /\ NoEcho)
BY UdpInitInv, UdpNextInv, PTL DEF UdpSpec

\* The tables of _UDPRelayProtocol keep their types.
THEOREM UdpTypeCorrect == UdpSpec => []UdpTypeOK
<1>1. UdpInv => UdpTypeOK
  BY DEF UdpInv
<1> QED  BY <1>1, UdpInvariant, PTL

\* _endpoints and _addr_to_session describe the same registrations.
THEOREM RelayTablesAgree == UdpSpec => []TablesAgree
<1>1. UdpInv => TablesAgree
  BY DEF UdpInv
<1> QED  BY <1>1, UdpInvariant, PTL

\* sendto is never called with the sender's own address or a stranger's.
THEOREM NobodyHearsThemselves == UdpSpec => []NoEcho
BY UdpInvariant, PTL

\* A datagram of a third address never replaces a party of a call.
THEOREM CallPartiesStay == UdpSpec => PartiesStay
<1> DEFINE Stay == \A s \in Session : first[s] # NoAddr /\ second[s] # NoAddr =>
                     \/ first'[s] = first[s] /\ second'[s] = second[s]
                     \/ first'[s] = NoAddr /\ second'[s] = NoAddr
<1>1. ASSUME UdpInv, UdpNext PROVE Stay
  <2>1. CASE Restart
    BY <2>1 DEF Restart
  <2>2. ASSUME NEW x \in Addr, NEW s \in Session, Receive(x, s) PROVE Stay
    BY <1>1, <2>2 DEF Receive, RegisterFirst, RegisterSecond, Discard, Forward,
                      UdpInv, UdpTypeOK
  <2> QED  BY <1>1, <2>1, <2>2 DEF UdpNext
<1>2. UdpInv /\ [UdpNext]_udpVars => [Stay]_udpVars
  BY <1>1
<1> QED  BY <1>2, UdpInvariant, PTL DEF UdpSpec, PartiesStay
=============================================================================
