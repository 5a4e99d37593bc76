----------------------------- MODULE PacketRing -----------------------------
(***************************************************************************)
(* The two circular packet buffers of a teensy_t (memory.cpp): the input   *)
(* buffer, filled by the input thread and emptied by the main thread, and  *)
(* the output buffer, filled by the main thread and emptied by the output  *)
(* thread.  Both use the same arithmetic: head is the slot last written,   *)
(* tail the slot last read, and one slot is kept free so that head = tail  *)
(* means "empty".  BufSize is INPUT_BUFSIZE or OUTPUT_BUFSIZE.             *)
(*                                                                         *)
(* This module has no variables: a ring is a record, an operation a        *)
(* function of it.  The modules of the threads add the mutex around it.    *)
(***************************************************************************)
EXTENDS Naturals, Sequences

CONSTANTS
  Packet,    \* the 64-byte reports, abstracted to their identity
  NoPacket,  \* contents of a slot that was never written (memset to 0)
  BufSize    \* number of slots

ASSUME BufSizeAssumption == BufSize \in Nat \ {0}
ASSUME NoPacketAssumption == NoPacket \notin Packet

Index == 0 .. BufSize - 1

Ring == [head : Index, tail : Index, slot : [Index -> Packet \cup {NoPacket}]]

\* memset(n, 0, sizeof(teensy_t)) in TeensyControls_new_teensy.
EmptyRing == [head |-> 0, tail |-> 0, slot |-> [i \in Index |-> NoPacket]]

\* Wrong on purpose: "if (++i > BUFSIZE) i = 0".
AdvanceOffByOne(i) == IF i + 1 > BufSize THEN 0 ELSE i + 1

\* "if (++i >= BUFSIZE) i = 0"
Advance(i) == IF i + 1 >= BufSize THEN 0 ELSE i + 1

IsEmpty(r) == r.tail = r.head
IsFull(r)  == Advance(r.head) = r.tail

\* Wrong on purpose: stores without the "head != tail" test.
StoreOverrun(r, p) ==
  [r EXCEPT !.head = Advance(r.head),
            !.slot = [r.slot EXCEPT ![Advance(r.head)] = p]]

\* Wrong on purpose: keeps two slots free, so it refuses one packet early.
StoreEarlyFull(r, p) ==
  IF Advance(Advance(r.head)) = r.tail \/ IsFull(r) THEN r
  ELSE [r EXCEPT !.head = Advance(r.head),
                 !.slot = [r.slot EXCEPT ![Advance(r.head)] = p]]

\* A packet that does not fit is dropped and nobody is told.
StoreRing(r, p) ==
  IF IsFull(r) THEN r
  ELSE [r EXCEPT !.head = Advance(r.head),
                 !.slot = [r.slot EXCEPT ![Advance(r.head)] = p]]

\* The packet a fetch copies out of a ring that is not empty, and the ring
\* it leaves behind.
Fetched(r)   == r.slot[Advance(r.tail)]
FetchRing(r) == [r EXCEPT !.tail = Advance(r.tail)]

-----------------------------------------------------------------------------
(***************************************************************************)
(* What a ring stands for: the sequence of packets stored and not fetched. *)
(***************************************************************************)

Occupied(r) == IF r.head >= r.tail THEN r.head - r.tail
               ELSE r.head + BufSize - r.tail

\* The slot of the k-th oldest packet.
SlotOf(r, k) == IF r.tail + k >= BufSize THEN r.tail + k - BufSize
                ELSE r.tail + k

Contents(r) == [k \in 1 .. Occupied(r) |-> r.slot[SlotOf(r, k)]]

Capacity == BufSize - 1
=============================================================================
