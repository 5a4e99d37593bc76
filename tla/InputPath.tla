------------------------------ MODULE InputPath ------------------------------
(***************************************************************************)
(* From the reports of a Teensy to commands (input_packet of io.cpp).  A   *)
(* report of PacketBytes bytes holds commands one after the other, each    *)
(* with its length in its first byte.  A command that is longer than what  *)
(* is left of a report begins there and goes on in fragments, numbered     *)
(* from 1, at the head of the reports that follow.                         *)
(*                                                                         *)
(* The Teensy is external: the module takes from input_packet how it packs *)
(* commands.  It may begin a command in any room of two bytes or more, or  *)
(* leave the room unused (zeros).  A report is lost when the input buffer  *)
(* is full (TeensyControls_input_store), or before it gets there.  The     *)
(* buffer is a queue here (PacketRing shows that it is).                   *)
(***************************************************************************)
EXTENDS Integers, Sequences, FiniteSets

CONSTANTS
  NumCommands,  \* commands the Teensy sends
  Length,       \* Length[c]: bytes of the c-th one
  PacketBytes,  \* 64
  InputCap,     \* reports the input buffer holds
  MaxLost,      \* bound: reports lost on the way to the buffer
  NoTail        \* no command is cut in two at the moment

Command == 1 .. NumCommands

\* A command has a length and a code; a fragment has a number besides.
ASSUME InputAssumption ==
  /\ NumCommands \in Nat /\ InputCap \in Nat /\ MaxLost \in Nat
  /\ PacketBytes \in Nat /\ PacketBytes > 3
  /\ Length \in [Command -> Nat] /\ \A c \in Command : Length[c] >= 2
  /\ NoTail \notin [cmd : Command, from : Nat, id : Nat]

VARIABLES
  next,      \* the next command of the Teensy (external)
  filling,   \* the report it is filling (external)
  room,      \* bytes left in it (external)
  tail,      \* what is left of a command cut in two (external)
  ring,      \* input_buffer
  report,    \* the part of a report input_packet has not looked at yet
  expect,    \* expect_fragment_id
  missing,   \* input_packet_bytes_missing
  buffer,    \* input_packet up to input_packet_ptr
  decoded,   \* what decode_packet has been called with (history)
  shipped,   \* the reports sent, and whether they were lost (history)
  lost       \* counted for the bound only

teensy == <<next, filling, room, tail>>
assembly == <<expect, missing, buffer>>
vars == <<teensy, ring, report, assembly, decoded, shipped, lost>>

\* A byte is the command it belongs to and its place in it.
Byte == Command \X Nat
Bytes(c, from, n) == [k \in 1 .. n |-> <<c, from + k - 1>>]
Whole(c) == Bytes(c, 1, Length[c])

\* What a report is made of.
Chunk == [kind : {"whole"}, cmd : Command]
         \cup [kind : {"start"}, cmd : Command, n : Nat]
         \cup [kind : {"fragment"}, cmd : Command, id : Nat, from : Nat, n : Nat]

TypeOK ==
  /\ next \in 1 .. NumCommands + 1
  /\ filling \in Seq(Chunk) /\ room \in 0 .. PacketBytes
  /\ tail \in [cmd : Command, from : Nat, id : Nat] \cup {NoTail}
  /\ ring \in Seq(Seq(Chunk)) /\ Len(ring) <= InputCap
  /\ report \in Seq(Chunk)
  /\ expect \in Nat /\ missing \in Int /\ buffer \in Seq(Byte)
  /\ decoded \in Seq(Seq(Byte))
  /\ shipped \in Seq([chunks : Seq(Chunk), lost : BOOLEAN])
  /\ lost \in 0 .. MaxLost

\* TeensyControls_new_teensy clears the structure.
Init ==
  /\ next = 1 /\ filling = <<>> /\ room = PacketBytes /\ tail = NoTail
  /\ ring = <<>> /\ report = <<>>
  /\ expect = 0 /\ missing = 0 /\ buffer = <<>>
  /\ decoded = <<>> /\ shipped = <<>> /\ lost = 0

-----------------------------------------------------------------------------
(***************************************************************************)
(* The Teensy (external).                                                  *)
(***************************************************************************)
PutWhole ==
  /\ tail = NoTail /\ next <= NumCommands /\ Length[next] <= room
  /\ filling' = Append(filling, [kind |-> "whole", cmd |-> next])
  /\ room' = room - Length[next]
  /\ next' = next + 1
  /\ UNCHANGED <<tail, ring, report, assembly, decoded, shipped, lost>>

PutStart ==
  /\ tail = NoTail /\ next <= NumCommands /\ Length[next] > room /\ room >= 2
  /\ filling' = Append(filling, [kind |-> "start", cmd |-> next, n |-> room])
  /\ tail' = [cmd |-> next, from |-> room + 1, id |-> 1]
  /\ room' = 0
  /\ next' = next + 1
  /\ UNCHANGED <<ring, report, assembly, decoded, shipped, lost>>

PutFragment ==
  /\ tail # NoTail /\ filling = <<>>
  /\ LET left == Length[tail.cmd] - tail.from + 1
         n == IF left < PacketBytes - 3 THEN left ELSE PacketBytes - 3
     IN  /\ filling' = <<[kind |-> "fragment", cmd |-> tail.cmd, id |-> tail.id,
                          from |-> tail.from, n |-> n]>>
         /\ room' = PacketBytes - 3 - n
         /\ tail' = IF n = left THEN NoTail
                    ELSE [tail EXCEPT !.from = @ + n, !.id = @ + 1]
  /\ UNCHANGED <<next, ring, report, assembly, decoded, shipped, lost>>

\* Wrong on purpose: one report more than the buffer holds.
HasRoomOffByOne == Len(ring) <= InputCap

\* "if (head != t->input_tail)" in TeensyControls_input_store.
HasRoom == Len(ring) < InputCap

\* The report goes out: into the input buffer, or it is lost.
Ship ==
  /\ filling # <<>> /\ (tail # NoTail => room = 0)
  /\ \/ /\ HasRoom
        /\ ring' = Append(ring, filling)
        /\ shipped' = Append(shipped, [chunks |-> filling, lost |-> FALSE])
        /\ UNCHANGED lost
     \/ /\ ~HasRoom \/ lost < MaxLost
        /\ lost' = IF HasRoom THEN lost + 1 ELSE lost
        /\ shipped' = Append(shipped, [chunks |-> filling, lost |-> TRUE])
        /\ UNCHANGED ring
  /\ filling' = <<>> /\ room' = PacketBytes
  /\ UNCHANGED <<next, tail, report, assembly, decoded>>

-----------------------------------------------------------------------------
(***************************************************************************)
(* Main thread: TeensyControls_input and input_packet.                     *)
(***************************************************************************)
FetchReport ==
  /\ report = <<>> /\ ring # <<>>
  /\ report' = Head(ring) /\ ring' = Tail(ring)
  /\ UNCHANGED <<teensy, assembly, decoded, shipped, lost>>

NextIs(kind) == report # <<>> /\ Head(report).kind = kind

\* Wrong on purpose: a command that interrupts a long one is taken for an
\* error and the report is left.
TakeWholeUnlessExpecting ==
  /\ NextIs("whole")
  /\ decoded' = IF expect = 0 THEN Append(decoded, Whole(Head(report).cmd))
                ELSE decoded
  /\ expect' = 0
  /\ report' = Tail(report)
  /\ UNCHANGED <<teensy, ring, missing, buffer, shipped, lost>>

\* A whole command; the long one that was expected to go on is given up.
TakeWhole ==
  /\ NextIs("whole")
  /\ decoded' = Append(decoded, Whole(Head(report).cmd))
  /\ expect' = 0
  /\ report' = Tail(report)
  /\ UNCHANGED <<teensy, ring, missing, buffer, shipped, lost>>

\* Wrong on purpose: the pointer into input_packet is not reset.
TakeStartAppending ==
  /\ NextIs("start")
  /\ LET c == Head(report)
     IN  /\ buffer' = buffer \o Bytes(c.cmd, 1, c.n)
         /\ missing' = Length[c.cmd] - c.n
  /\ expect' = 1
  /\ report' = <<>>
  /\ UNCHANGED <<teensy, ring, decoded, shipped, lost>>

\* The start of a long command, also if another one was expected to go on.
TakeStart ==
  /\ NextIs("start")
  /\ LET c == Head(report)
     IN  /\ buffer' = Bytes(c.cmd, 1, c.n)
         /\ missing' = Length[c.cmd] - c.n
  /\ expect' = 1
  /\ report' = <<>>
  /\ UNCHANGED <<teensy, ring, decoded, shipped, lost>>

\* Wrong on purpose: the number of a fragment is not looked at.
IsExpectedAny(c) == expect # 0

\* "fragment_id != t->expect_fragment_id" (0 when none is expected)
IsExpected(c) == c.id = expect

\* Its bytes are copied before their number is compared with what is missing.
TakeBytes ==
  /\ NextIs("fragment") /\ IsExpected(Head(report))
  /\ buffer' = buffer \o Bytes(Head(report).cmd, Head(report).from,
                               Head(report).n)
  /\ missing' = missing - Head(report).n
  /\ UNCHANGED <<teensy, ring, shipped, lost>>

\* Wrong on purpose: expect_fragment_id is not cleared.
CompleteStillExpecting ==
  /\ TakeBytes
  /\ missing' = 0
  /\ decoded' = Append(decoded, buffer')
  /\ expect' = expect
  /\ report' = Tail(report)

CompleteCommand ==
  /\ TakeBytes
  /\ missing' = 0
  /\ decoded' = Append(decoded, buffer')
  /\ expect' = 0
  /\ report' = Tail(report)

ExpectMore ==
  /\ TakeBytes
  /\ missing' > 0
  /\ expect' = expect + 1
  /\ report' = Tail(report)
  /\ UNCHANGED decoded

\* Too many bytes: the rest of the report is ignored.
RefuseLength ==
  /\ TakeBytes
  /\ missing' < 0
  /\ expect' = 0
  /\ report' = <<>>
  /\ UNCHANGED decoded

\* The wrong number: the rest of the report is ignored.
RefuseFragment ==
  /\ NextIs("fragment") /\ ~IsExpected(Head(report))
  /\ expect' = 0
  /\ report' = <<>>
  /\ UNCHANGED <<teensy, ring, missing, buffer, decoded, shipped, lost>>

Main == FetchReport \/ TakeWhole \/ TakeStart \/ CompleteCommand \/ ExpectMore
        \/ RefuseLength \/ RefuseFragment

Next == PutWhole \/ PutStart \/ PutFragment \/ Ship \/ Main

Spec == Init /\ [][Next]_vars

-----------------------------------------------------------------------------
(***************************************************************************)
(* Properties.                                                             *)
(***************************************************************************)
Lost(kind, c) ==
  \E i \in 1 .. Len(shipped) :
    /\ shipped[i].lost
    /\ \E k \in 1 .. Len(shipped[i].chunks) :
         /\ shipped[i].chunks[k].kind = kind
         /\ shipped[i].chunks[k].cmd = c

\* The bytes of d are those of one command from its first to its last, or go
\* over to a later command in between.
JoinedAt(d, k) == d[k] = <<d[k - 1][1], d[k - 1][2] + 1>>
SplicedAt(d, k) ==
  /\ d[k - 1][1] < d[k][1]
  /\ Lost("fragment", d[1][1]) /\ Lost("start", d[k][1])

\* What is decoded has the length of the command it begins with and is that
\* command, but for one case that the numbers of the fragments cannot tell: a
\* fragment of it and the start of a later one are lost, and the rest of the
\* later one, or of several, completes it.
SplicedOnlyByLoss ==
  \A i \in 1 .. Len(decoded) :
    LET d == decoded[i] IN
      /\ d[1][2] = 1 /\ Len(d) = Length[d[1][1]]
      /\ \A k \in 2 .. Len(d) : JoinedAt(d, k) \/ SplicedAt(d, k)

\* Commands are decoded in the order they were sent and none twice, whatever
\* is lost.
InOrderOnce ==
  \A i, j \in 1 .. Len(decoded) :
    i < j => decoded[i][1][1] < decoded[j][1][1]

\* While a fragment is expected, the bytes collected and the bytes missing
\* make up the length the command has announced: decode_packet is called with
\* no byte of an earlier command and none that was not written.
AccountsForBytes ==
  expect # 0 =>
    /\ missing > 0 /\ buffer # <<>>
    /\ Len(buffer) + missing = Length[buffer[1][1]]

\* A command is hurt if a part of it was lost, or if a fragment of a hurt
\* command is before it in a report: input_packet leaves a report at the
\* first fragment it does not expect.  Hurt is the least set closed under both.
ClosedUnderHurt(H) ==
  /\ \A c \in Command :
       (\E kind \in {"whole", "start", "fragment"} : Lost(kind, c)) => c \in H
  /\ \A i \in 1 .. Len(shipped) :
       LET chunks == shipped[i].chunks IN
         chunks[1].kind = "fragment" /\ chunks[1].cmd \in H
           => \A k \in 2 .. Len(chunks) : chunks[k].cmd \in H
Hurt(c) == \A H \in SUBSET Command : ClosedUnderHurt(H) => c \in H

\* When everything sent has been looked at, every command that was not hurt
\* has been decoded: after a loss the assembly finds its way back at the next
\* command.
UnhurtIsDecoded ==
  ring = <<>> /\ report = <<>> /\ filling = <<>> /\ tail = NoTail =>
    \A c \in 1 .. next - 1 :
      ~Hurt(c) => \E i \in 1 .. Len(decoded) : decoded[i] = Whole(c)
=============================================================================
