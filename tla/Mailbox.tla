------------------------------- MODULE Mailbox -------------------------------
(***************************************************************************)
(* What an interrupt endpoint promises: a slot for one message, from which *)
(* whole messages are delivered in the order they were put there, each at  *)
(* most once.  A message may be lost, by being replaced or on the way.     *)
(***************************************************************************)
EXTENDS Naturals, Sequences

VARIABLES
  put,       \* number of messages put into the slot so far
  slot,      \* the message in the slot, if any
  delivered  \* the messages delivered

mailbox == <<put, slot, delivered>>

(* Message number n, none of its bytes from another one. *)
Whole(n) == [head |-> n, tail |-> n]

Init == put = 0 /\ slot = {} /\ delivered = <<>>

Put ==
  /\ slot = {} /\ put' = put + 1 /\ slot' = {Whole(put + 1)}
  /\ UNCHANGED delivered

Deliver ==
  \E m \in slot :
    /\ delivered' = Append(delivered, m) /\ slot' = {}
    /\ UNCHANGED put

Lose == slot # {} /\ slot' = {} /\ UNCHANGED <<put, delivered>>

Next == Put \/ Deliver \/ Lose

Spec == Init /\ [][Next]_mailbox
=============================================================================
