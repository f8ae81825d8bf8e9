---------------------------- MODULE ByteChannel ----------------------------
(***************************************************************************)
(* What every data path of the firmware promises: a first-in first-out     *)
(* channel of bytes.  Bytes are delivered in the order they were put in,   *)
(* each at most once; a byte may disappear only in the step in which the   *)
(* link goes down, and then the bytes that disappear are the oldest ones.  *)
(*                                                                         *)
(* UartToUsb and HidReceive are shown to implement this module.            *)
(***************************************************************************)
EXTENDS Naturals, Sequences

CONSTANT Byte          \* the bytes that travel over the channel

VARIABLES queue,       \* bytes accepted and not yet delivered, oldest first
          delivered,   \* bytes handed over at the far end, in order
          up           \* the link is up

vars == <<queue, delivered, up>>

Init == queue = <<>> /\ delivered = <<>> /\ up \in BOOLEAN

\* The sender puts one or more bytes into the channel.
Put == /\ queue' \in Seq(Byte)
       /\ Len(queue') > Len(queue)
       /\ SubSeq(queue', 1, Len(queue)) = queue
       /\ UNCHANGED <<delivered, up>>

\* The oldest n bytes reach the far end.
Deliver == \E n \in 1..Len(queue) :
             /\ delivered' = delivered \o SubSeq(queue, 1, n)
             /\ queue' = SubSeq(queue, n + 1, Len(queue))
             /\ UNCHANGED up

\* The link goes down and takes the oldest n bytes with it.
LinkDown == /\ up /\ up' = FALSE
            /\ \E n \in 0..Len(queue) : queue' = SubSeq(queue, n + 1, Len(queue))
            /\ UNCHANGED delivered

LinkUp == ~up /\ up' = TRUE /\ UNCHANGED <<queue, delivered>>

Next == Put \/ Deliver \/ LinkDown \/ LinkUp

Spec == Init /\ [][Next]_vars
============================================================================
