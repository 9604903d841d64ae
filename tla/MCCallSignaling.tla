--------------------------- MODULE MCCallSignaling ---------------------------
(***************************************************************************)
(* Two users and one or two calls: a single call, or calls that cross.     *)
(***************************************************************************)
EXTENDS CallSignaling
CONSTANTS a, b, s1, s2
Users == {a, b}
OneCall == {s1}
TwoCalls == {s1, s2}
AliceCalls == [s \in Session |-> a]
BobIsCalled == [s \in Session |-> b]
\* Alice calls Bob while Bob calls Alice.
CrossedCallers == [s \in Session |-> IF s = s1 THEN a ELSE b]
CrossedCallees == [s \in Session |-> IF s = s1 THEN b ELSE a]
Nobody == {}
=============================================================================
