------------------------------ MODULE MCAccess ------------------------------
(***************************************************************************)
(* Two people behind one address, one of them on two connections, and two  *)
(* names that both want: one connection sends everything, one comes back   *)
(* with a token, the other person registers or logs in.                    *)
(***************************************************************************)
EXTENDS Access
CONSTANTS c1, c2, c3, p1, p2, u1, u2, home
Keys == {u1, u2, home}
OwnerOf == [c \in Conn |-> IF c = c3 THEN p2 ELSE p1]
OneAddress == [c \in Conn |-> home]
SendsWhat == [c \in Conn |->
  CASE c = c1 -> {"register", "login", "token", "logout", "other"}
    [] c = c2 -> {"token", "other"}
    [] c = c3 -> {"register", "login"}]
=============================================================================
