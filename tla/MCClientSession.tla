-------------------------- MODULE MCClientSession --------------------------
(***************************************************************************)
(* A user and a peer who write one message each, and each correct it, over *)
(* up to two connections.                                                  *)
(***************************************************************************)
EXTENDS ClientSession
CONSTANTS m1, t1
OneMine == {m1}
OneTheirs == {t1}
EditMine == {<<"edit", m1>>}
EditTheirs == {<<"edit", t1>>}
=============================================================================
