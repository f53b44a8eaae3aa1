------------------------------ MODULE Channel ------------------------------
(***************************************************************************)
(* What embenet_brt.h promises of the link to the border router: packets   *)
(* are delivered whole, in the order in which they were sent, none of them *)
(* twice.  Nothing is promised to arrive, and raw data is no packet.       *)
(***************************************************************************)
EXTENDS Naturals, Sequences

CONSTANT Data  \* what can be sent

VARIABLES
    sent,      \* what has been sent, in order
    delivered  \* what has been delivered, each with its place in `sent`

vars == <<sent, delivered>>

Init == sent = <<>> /\ delivered = <<>>

Send(data) ==
    /\ \E kind \in {"packet", "raw"} : sent' = Append(sent, [data |-> data, kind |-> kind])
    /\ UNCHANGED delivered

LastDelivered == IF delivered = <<>> THEN 0 ELSE delivered[Len(delivered)].no

\* A packet later than all that were delivered; those in between are lost.
Deliver(no) ==
    /\ no \in DOMAIN sent /\ sent[no].kind = "packet" /\ no > LastDelivered
    /\ delivered' = Append(delivered, [packet |-> sent[no].data, no |-> no])
    /\ UNCHANGED sent

Next == (\E data \in Data : Send(data)) \/ (\E no \in DOMAIN sent : Deliver(no))

Spec == Init /\ [][Next]_vars

=============================================================================
