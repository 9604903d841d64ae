-------------------------- MODULE MCServerDelivery --------------------------
(***************************************************************************)
(* Instances of ServerDelivery: two users, three connections, up to three  *)
(* packets.  Alice is "a", Bob is "b".                                     *)
(***************************************************************************)
EXTENDS ServerDelivery, TLC

CONSTANTS a, b, c1, c2, c3, p1, p2, p3

Users == {a, b}
Pkts2 == {p1, p2}
Pkts3 == {p1, p2, p3}
Conns2 == {c1, c2}
Conns3 == {c1, c2, c3}

\* Two messages to Bob.
ToBob == [p \in Pkt |-> b]
AllMessages == [p \in Pkt |-> "message"]
OwnKey == [p \in Pkt |-> p]

\* Two edits of one message, which share their queue key, and a read receipt.
Correction == [p \in Pkt |-> IF p = p3 THEN "hint" ELSE "edit"]
EditKey == [p \in Pkt |-> IF p = p3 THEN p3 ELSE p1]
CorrectionTo == [p \in Pkt |-> IF p = p3 THEN a ELSE b]

\* Alice on one connection, Bob on the others (one after the other, or both).
AliceAndBob == [c \in Conn |-> IF c = c1 THEN {a} ELSE {b}]
\* Any user on any connection, also one after the other.
Anybody == [c \in Conn |-> Users]

None == {}
Second == {c2}

\* Bob's connections are interchangeable, and so are two messages to Bob.
Symmetry == Permutations({c2, c3}) \cup Permutations(Pkts2)
=============================================================================
