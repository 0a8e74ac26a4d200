--------------------------- MODULE EventDelivery ----------------------------
(***************************************************************************)
(* What the message broker promises its publishers: events are handed to   *)
(* the subscribers one after the other in the order they were accepted,    *)
(* none twice and none left out, until the event that ends the run; what   *)
(* is accepted after that one is never handed over.                        *)
(***************************************************************************)
EXTENDS Naturals, Sequences

CONSTANT Message   \* records with a field last

VARIABLES
  accepted,    \* events in the order they were accepted
  delivered    \* events handed to the subscribers

vars == <<accepted, delivered>>

Init == accepted = <<>> /\ delivered = <<>>

Accept(m) ==
  /\ accepted' = Append(accepted, m)
  /\ UNCHANGED delivered

Ended == \E i \in DOMAIN delivered : delivered[i].last

Deliver ==
  /\ ~Ended
  /\ Len(delivered) < Len(accepted)
  /\ delivered' = Append(delivered, accepted[Len(delivered) + 1])
  /\ UNCHANGED accepted

Next == Deliver \/ \E m \in Message : Accept(m)

Spec == Init /\ [][Next]_vars
=============================================================================
