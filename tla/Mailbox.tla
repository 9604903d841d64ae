------------------------------- MODULE Mailbox -------------------------------
(***************************************************************************)
(* What the server promises about the packets it accepts, without          *)
(* connections, handlers, the router or the database.                      *)
(*                                                                         *)
(* A packet starts "new".  It is "written" once it has been written to a   *)
(* connection, "stored" while only the offline queue holds it, and "lost"  *)
(* once nothing holds it although the queue had been asked to.  told is    *)
(* the status of the DELIVERY packet the sender was sent.                  *)
(***************************************************************************)
CONSTANTS Pkt,     \* the packets clients submit
          Status   \* what a DELIVERY says of a packet that went well or was kept

VARIABLES place, told

Place == {"new", "stored", "written", "lost"}
MailboxInit == place = [p \in Pkt |-> "new"] /\ told = [p \in Pkt |-> "none"]

\* Some of the packets move from one place to another in one step; none moves
\* back, none leaves "written", and only a new or a stored one is ever lost.
Move(S, from, to) == /\ \A p \in S : place[p] = from
                     /\ place' = [p \in Pkt |-> IF p \in S THEN to ELSE place[p]]
                     /\ UNCHANGED told

Store(p) == Move({p}, "new", "stored")
Shadow(p) == Move({p}, "new", "lost")
Deliver(p) == Move({p}, "new", "written")
Sync(S) == Move(S, "stored", "written")
Lose(S) == Move(S, "stored", "lost")

\* The sender hears of a packet at most once, "delivered" only of a packet that
\* is written and "queued" only of one that the queue has already been given.
Tell(p, s) == /\ told[p] = "none" /\ s \in Status
              /\ s = "delivered" => place[p] = "written"
              /\ s = "queued" => place[p] # "new"
              /\ told' = [told EXCEPT ![p] = s]
              /\ UNCHANGED place

MailboxNext == \/ \E p \in Pkt : Store(p) \/ Shadow(p) \/ Deliver(p)
               \/ \E S \in SUBSET Pkt : Sync(S) \/ Lose(S)
               \/ \E p \in Pkt, s \in Status : Tell(p, s)

MailboxSpec == MailboxInit /\ [][MailboxNext]_<<place, told>>
==============================================================================
