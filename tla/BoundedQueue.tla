---------------------------- MODULE BoundedQueue ----------------------------
(***************************************************************************)
(* What the packet buffers promise: a first-in first-out queue of at most  *)
(* Capacity packets.  The reader takes the oldest packet, every packet     *)
(* once, in the order they were accepted; nothing but Put adds a packet    *)
(* and nothing but Take removes one.  A packet offered to a full queue     *)
(* leaves it as it is.                                                     *)
(***************************************************************************)
EXTENDS Naturals, Sequences

CONSTANTS Packet, NoPacket, Capacity

VARIABLES
  queue,  \* the packets accepted and not yet taken, oldest first
  taken   \* the packet the reader took last

vars == <<queue, taken>>

Init == queue = <<>> /\ taken = NoPacket

Put(p) == /\ Len(queue) < Capacity
          /\ queue' = Append(queue, p)
          /\ UNCHANGED taken

Take == /\ queue # <<>>
        /\ taken' = Head(queue)
        /\ queue' = Tail(queue)

Next == Take \/ \E p \in Packet : Put(p)

Spec == Init /\ [][Next]_vars
=============================================================================
