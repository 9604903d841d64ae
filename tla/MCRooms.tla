------------------------------- MODULE MCRooms -------------------------------
(***************************************************************************)
(* An author writes to a room; a second user, whose answers may come late, *)
(* creates a room, and joins and leaves the first; a third is a member of  *)
(* it, over a connection that breaks, and runs his client again.           *)
(***************************************************************************)
EXTENDS Rooms, TLC
CONSTANTS a, b, c, r1, r2, m1

AuthorOf == m1 :> a
KnowsWhom == a :> {b, c} @@ b :> {} @@ c :> {}
FoundedBy == r1 :> {a, c} @@ r2 :> {}
DoesWhat == a :> {<<"post", r1>>} @@ b :> {<<"create", NoRoom>>, <<"join", r1>>, <<"leave", r1>>} @@ c :> {}
HowMany == a :> 1 @@ b :> 2 @@ c :> 0
RunsOf == a :> 1 @@ b :> 1 @@ c :> 2
=============================================================================
