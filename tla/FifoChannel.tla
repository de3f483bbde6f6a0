----------------------------- MODULE FifoChannel -----------------------------
(***************************************************************************)
(* What a reliable channel promises the two users of it ("Delivery of all  *)
(* RELIABLE packets shall be forced by ACKs, and they shall be delivered   *)
(* in the same order as sent"): everything sent comes out once, in order.  *)
(***************************************************************************)
EXTENDS Naturals, Sequences

CONSTANT Item           \* what may be sent

VARIABLES
    sent,       \* everything sent so far
    received    \* everything handed to the receiving user so far

fifoVars == <<sent, received>>

FifoInit == sent = <<>> /\ received = <<>>

(* The sender sends one or more items with one call. *)
Put ==
    /\ \E n \in 1 .. Len(sent') :
          /\ sent = SubSeq(sent', 1, Len(sent') - n)
          /\ \A i \in 1 .. Len(sent') : sent'[i] \in Item
    /\ UNCHANGED received

(* The receiver is given the oldest item it has not had yet. *)
Get ==
    /\ Len(received) < Len(sent)
    /\ received' = Append(received, sent[Len(received) + 1])
    /\ UNCHANGED sent

FifoNext == Put \/ Get

FifoSpec == FifoInit /\ [][FifoNext]_fifoVars
=============================================================================
