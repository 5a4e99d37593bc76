-------------------------- MODULE InputPathProofs --------------------------
(***************************************************************************)
(* Proofs about InputPath: its types, the bytes it collects, the order of  *)
(* the commands and what they are made of, for any commands, lengths and   *)
(* losses.                                                                 *)
(***************************************************************************)
EXTENDS InputPath, DataLemmas

\* The chunks a Teensy sends: a start has two bytes of a longer command, and
\* fragments are numbered from 1, so none is taken while expect is 0.
Sent ==
  {c \in Chunk : /\ c.kind = "start" => c.n >= 2 /\ c.n < Length[c.cmd]
                 /\ c.kind = "fragment" => c.id >= 1}

TailOK ==
  tail # NoTail => tail.id >= 1 /\ tail.from <= Length[tail.cmd]

TeensyType ==
  /\ next \in 1 .. NumCommands + 1
  /\ filling \in Seq(Sent) /\ room \in 0 .. PacketBytes
  /\ tail \in [cmd : Command, from : Nat, id : Nat] \cup {NoTail}
  /\ TailOK

BufferType ==
  /\ ring \in Seq(Seq(Sent)) /\ Len(ring) <= InputCap
  /\ shipped \in Seq([chunks : Seq(Chunk), lost : BOOLEAN])
  /\ lost \in 0 .. MaxLost

InputType ==
  /\ report \in Seq(Sent)
  /\ expect \in Nat /\ missing \in Int /\ buffer \in Seq(Byte)
  /\ decoded \in Seq(Seq(Byte))

IInv == TeensyType /\ BufferType /\ InputType /\ AccountsForBytes

LEMMA InitInv == Init => IInv
<1> SUFFICES ASSUME Init
             PROVE  IInv
  OBVIOUS
<1> USE InputAssumption DEF InputAssumption, Init
<1>1. TeensyType
  BY DEF TeensyType, TailOK
<1>2. BufferType /\ InputType
  BY DEF BufferType, InputType
<1> QED
  BY <1>1, <1>2 DEF IInv, AccountsForBytes

-----------------------------------------------------------------------------
(***************************************************************************)
(* The Teensy, and the reports on their way.                               *)
(***************************************************************************)

\* Consecutive bytes of a command.
LEMMA BytesType ==
  ASSUME NEW c \in Command, NEW from \in Nat, from >= 1, NEW n \in Nat
  PROVE  Bytes(c, from, n) \in Seq(Byte) /\ Len(Bytes(c, from, n)) = n
<1>1. \A k \in 1 .. n : <<c, from + k - 1>> \in Byte
  BY DEF Byte
<1>2. Bytes(c, from, n) \in [1 .. n -> Byte]
  BY <1>1 DEF Bytes
<1> QED
  BY <1>2

LEMMA PutWholeInv == IInv /\ PutWhole => IInv'
<1> SUFFICES ASSUME IInv, PutWhole
             PROVE  IInv'
  OBVIOUS
<1> USE InputAssumption DEF InputAssumption, IInv, PutWhole
<1>1. next \in Command /\ [kind |-> "whole", cmd |-> next] \in Sent
  BY DEF TeensyType, Command, Sent, Chunk
<1>2. room - Length[next] \in 0 .. PacketBytes
  BY <1>1 DEF TeensyType
<1>3. TeensyType'
  BY <1>1, <1>2 DEF TeensyType, TailOK, Command
<1>4. BufferType' /\ InputType' /\ AccountsForBytes'
  BY DEF BufferType, InputType, AccountsForBytes, assembly
<1> QED
  BY <1>3, <1>4

LEMMA PutStartInv == IInv /\ PutStart => IInv'
<1> SUFFICES ASSUME IInv, PutStart
             PROVE  IInv'
  OBVIOUS
<1> USE InputAssumption DEF InputAssumption, IInv, PutStart
<1>1. next \in Command /\ Length[next] \in Nat /\ room \in Nat
  BY DEF TeensyType, Command
<1>2. [kind |-> "start", cmd |-> next, n |-> room] \in Sent
  BY <1>1 DEF Sent, Chunk
<1>3. filling' \in Seq(Sent) /\ room' \in 0 .. PacketBytes
      /\ next' \in 1 .. NumCommands + 1
  BY <1>1, <1>2 DEF TeensyType, Command
<1>4. /\ tail' \in [cmd : Command, from : Nat, id : Nat]
      /\ tail'.id >= 1 /\ tail'.from <= Length[tail'.cmd]
  BY <1>1
<1>5. TeensyType'
  BY <1>3, <1>4 DEF TeensyType, TailOK
<1>6. BufferType' /\ InputType' /\ AccountsForBytes'
  BY DEF BufferType, InputType, AccountsForBytes, assembly
<1> QED
  BY <1>5, <1>6

LEMMA PutFragmentInv == IInv /\ PutFragment => IInv'
<1> SUFFICES ASSUME IInv, PutFragment
             PROVE  IInv'
  OBVIOUS
<1> USE InputAssumption DEF InputAssumption, IInv
<1> DEFINE left == Length[tail.cmd] - tail.from + 1
           n == IF left < PacketBytes - 3 THEN left ELSE PacketBytes - 3
           sent == [kind |-> "fragment", cmd |-> tail.cmd, id |-> tail.id,
                    from |-> tail.from, n |-> n]
<1>1. /\ tail.cmd \in Command /\ tail.from \in Nat /\ tail.id \in Nat
      /\ tail \in [cmd : Command, from : Nat, id : Nat]
      /\ tail.id >= 1 /\ tail.from <= Length[tail.cmd]
  BY DEF PutFragment, TeensyType, TailOK
<1>2. Length[tail.cmd] \in Nat
  BY <1>1
<1>3. n \in Nat /\ n >= 1 /\ n <= left /\ PacketBytes - 3 - n \in 0 .. PacketBytes
  BY <1>1, <1>2
<1>4. sent \in Sent
  BY <1>1, <1>3 DEF Sent, Chunk
<1>5. filling' = <<sent>> /\ room' = PacketBytes - 3 - n
      /\ tail' = IF n = left THEN NoTail
                 ELSE [tail EXCEPT !.from = @ + n, !.id = @ + 1]
  BY DEF PutFragment
<1>6. TailOK' /\ tail' \in [cmd : Command, from : Nat, id : Nat] \cup {NoTail}
  <2>1. CASE n = left
    BY <1>5, <2>1 DEF TailOK
  <2>2. CASE n # left
    <3>1. tail.from + n <= Length[tail.cmd] /\ tail.from + n \in Nat
      BY <1>1, <1>2, <1>3, <2>2
    <3>2. tail' = [tail EXCEPT !.from = @ + n, !.id = @ + 1]
      BY <1>5, <2>2
    <3> HIDE DEF n, left
    <3>3. tail' = [cmd |-> tail.cmd, from |-> tail.from + n, id |-> tail.id + 1]
      BY <1>1, <3>2
    <3> QED
      BY <1>1, <3>1, <3>3 DEF TailOK
  <2> QED
    BY <2>1, <2>2
<1> HIDE DEF sent, n, left
<1>7. TeensyType'
  <2>1. filling' \in Seq(Sent)
    BY <1>4, <1>5
  <2>2. room' \in 0 .. PacketBytes /\ next' \in 1 .. NumCommands + 1
    BY <1>3, <1>5 DEF TeensyType, PutFragment
  <2> QED
    BY <1>6, <2>1, <2>2 DEF TeensyType
<1>8. BufferType' /\ InputType' /\ AccountsForBytes'
  BY DEF PutFragment, BufferType, InputType, AccountsForBytes, assembly
<1> QED
  BY <1>7, <1>8

LEMMA ShipInv == IInv /\ Ship => IInv'
<1> SUFFICES ASSUME IInv, Ship
             PROVE  IInv'
  OBVIOUS
<1> USE InputAssumption DEF InputAssumption, IInv, Ship
<1>1. Sent \subseteq Chunk
  BY DEF Sent
<1>2. filling \in Seq(Sent) /\ filling \in Seq(Chunk)
  BY <1>1 DEF TeensyType
<1>3. \A l \in BOOLEAN : [chunks |-> filling, lost |-> l]
                           \in [chunks : Seq(Chunk), lost : BOOLEAN]
  BY <1>2
<1>4. TeensyType'
  BY DEF TeensyType, TailOK
<1>5. BufferType'
  <2>1. ring' \in Seq(Seq(Sent)) /\ Len(ring') <= InputCap
    <3>1. CASE HasRoom /\ ring' = Append(ring, filling)
      BY <1>2, <3>1 DEF BufferType, HasRoom
    <3>2. CASE UNCHANGED ring
      BY <3>2 DEF BufferType
    <3> QED
      BY <3>1, <3>2
  <2>2. shipped' \in Seq([chunks : Seq(Chunk), lost : BOOLEAN])
    <3>1. PICK l \in BOOLEAN :
            shipped' = Append(shipped, [chunks |-> filling, lost |-> l])
      OBVIOUS
    <3> QED
      BY <1>3, <3>1 DEF BufferType
  <2>3. lost' \in 0 .. MaxLost
    BY DEF BufferType
  <2> QED
    BY <2>1, <2>2, <2>3 DEF BufferType
<1>6. InputType' /\ AccountsForBytes'
  BY DEF InputType, AccountsForBytes, assembly
<1> QED
  BY <1>4, <1>5, <1>6

-----------------------------------------------------------------------------
(***************************************************************************)
(* input_packet.                                                           *)
(***************************************************************************)
LEMMA FetchInv == IInv /\ FetchReport => IInv'
<1> SUFFICES ASSUME IInv, FetchReport
             PROVE  IInv'
  OBVIOUS
<1> USE DEF IInv, FetchReport
<1>1. TeensyType' /\ AccountsForBytes'
  BY DEF TeensyType, TailOK, AccountsForBytes, teensy, assembly
<1>2. BufferType' /\ InputType'
  BY InputAssumption DEF InputAssumption, BufferType, InputType, assembly
<1> QED
  BY <1>1, <1>2

\* What the steps below share: the report shrinks, the rest is theirs.
LEMMA TakeInv ==
  ASSUME IInv, UNCHANGED <<teensy, ring, shipped, lost>>,
         report' = <<>> \/ (report # <<>> /\ report' = Tail(report)),
         expect' \in Nat, missing' \in Int, buffer' \in Seq(Byte),
         decoded' \in Seq(Seq(Byte)), AccountsForBytes'
  PROVE  IInv'
<1>1. TeensyType' /\ BufferType'
  BY DEF IInv, TeensyType, TailOK, BufferType, teensy
<1>2. report' \in Seq(Sent)
  <2>1. report \in Seq(Sent)
    BY DEF IInv, InputType
  <2>2. CASE report' = <<>>
    BY <2>2
  <2>3. CASE report # <<>> /\ report' = Tail(report)
    <3> HIDE DEF Sent
    <3> QED
      BY <2>1, <2>3
  <2> QED
    BY <2>2, <2>3
<1> QED
  BY <1>1, <1>2 DEF IInv, InputType

LEMMA TakeWholeInv == IInv /\ TakeWhole => IInv'
<1> SUFFICES ASSUME IInv, TakeWhole
             PROVE  IInv'
  OBVIOUS
<1>1. Head(report) \in Sent /\ report # <<>> /\ Head(report).kind = "whole"
  BY DEF IInv, InputType, TakeWhole, NextIs
<1>2. Head(report).cmd \in Command
  BY <1>1 DEF Sent, Chunk
<1>3. Whole(Head(report).cmd) \in Seq(Byte)
  BY <1>2, BytesType, InputAssumption DEF InputAssumption, Whole
<1>4. decoded' \in Seq(Seq(Byte))
  BY <1>3 DEF IInv, InputType, TakeWhole
<1> QED
  BY <1>1, <1>4, TakeInv DEF IInv, InputType, TakeWhole, AccountsForBytes

LEMMA TakeStartInv == IInv /\ TakeStart => IInv'
<1> SUFFICES ASSUME IInv, TakeStart
             PROVE  IInv'
  OBVIOUS
<1> DEFINE c == Head(report)
<1>1. c \in Sent /\ c.kind = "start"
  BY DEF IInv, InputType, TakeStart, NextIs
<1>2. c.cmd \in Command /\ c.n \in Nat /\ c.n >= 2 /\ c.n < Length[c.cmd]
      /\ Length[c.cmd] \in Nat
  BY <1>1, InputAssumption DEF InputAssumption, Sent, Chunk
<1>3. /\ buffer' = Bytes(c.cmd, 1, c.n) /\ missing' = Length[c.cmd] - c.n
      /\ expect' = 1 /\ report' = <<>>
      /\ UNCHANGED <<teensy, ring, decoded, shipped, lost>>
  BY DEF TakeStart
<1> HIDE DEF c
<1>4. buffer' \in Seq(Byte) /\ Len(buffer') = c.n
  BY <1>2, <1>3, BytesType
<1>5. buffer'[1][1] = c.cmd
  BY <1>2, <1>3 DEF Bytes
<1>6. AccountsForBytes'
  BY <1>2, <1>3, <1>4, <1>5 DEF AccountsForBytes
<1> QED
  BY <1>2, <1>3, <1>4, <1>6, TakeInv DEF IInv, InputType

\* A fragment that is expected finds the account in order and leaves it so,
\* before it is compared with what is missing.
LEMMA TakeBytesAccount ==
  ASSUME IInv, TakeBytes
  PROVE  /\ report # <<>> /\ expect >= 1
         /\ buffer' \in Seq(Byte) /\ missing' \in Int /\ buffer' # <<>>
         /\ Len(buffer') + missing' = Length[buffer'[1][1]]
<1> DEFINE c == Head(report)
<1>1. c \in Sent /\ c.kind = "fragment" /\ c.id = expect /\ report # <<>>
  BY DEF IInv, InputType, TakeBytes, NextIs, IsExpected
<1>2. /\ c.cmd \in Command /\ c.n \in Nat /\ c.from \in Nat /\ c.id \in Nat
      /\ c.id >= 1
  BY <1>1 DEF Sent, Chunk
<1>3. /\ buffer' = buffer \o Bytes(c.cmd, c.from, c.n)
      /\ missing' = missing - c.n
  BY DEF TakeBytes
<1> HIDE DEF c
<1>4. /\ missing > 0 /\ buffer # <<>> /\ missing \in Int
      /\ buffer \in Seq(Byte)
      /\ Len(buffer) + missing = Length[buffer[1][1]]
  BY <1>1, <1>2 DEF IInv, InputType, AccountsForBytes
<1>5. Bytes(c.cmd, c.from, c.n) \in Seq(Byte)
      /\ Len(Bytes(c.cmd, c.from, c.n)) = c.n
  <2>1. \A k \in 1 .. c.n : <<c.cmd, c.from + k - 1>> \in Byte
    BY <1>2 DEF Byte
  <2>2. Bytes(c.cmd, c.from, c.n) \in [1 .. c.n -> Byte]
    BY <2>1 DEF Bytes
  <2> QED
    BY <1>2, <2>2
<1> DEFINE more == Bytes(c.cmd, c.from, c.n)
<1> HIDE DEF more
<1>6. buffer' = buffer \o more /\ more \in Seq(Byte) /\ Len(more) = c.n
  BY <1>3, <1>5 DEF more
<1>7. buffer' \in Seq(Byte) /\ Len(buffer') = Len(buffer) + c.n
  BY <1>4, <1>6
<1>8. Len(buffer) >= 1 /\ buffer' # <<>> /\ buffer'[1] = buffer[1]
  BY <1>2, <1>4, <1>6, <1>7
<1> QED
  BY <1>1, <1>2, <1>3, <1>4, <1>7, <1>8

LEMMA FragmentInv ==
  IInv /\ (CompleteCommand \/ ExpectMore \/ RefuseLength) => IInv'
<1> SUFFICES ASSUME IInv, CompleteCommand \/ ExpectMore \/ RefuseLength
             PROVE  IInv'
  OBVIOUS
<1>1. TakeBytes /\ UNCHANGED <<teensy, ring, shipped, lost>>
  BY DEF CompleteCommand, ExpectMore, RefuseLength, TakeBytes
<1>2. /\ report # <<>> /\ expect >= 1
      /\ buffer' \in Seq(Byte) /\ missing' \in Int /\ buffer' # <<>>
      /\ Len(buffer') + missing' = Length[buffer'[1][1]]
  BY <1>1, TakeBytesAccount
<1>3. expect \in Nat /\ decoded \in Seq(Seq(Byte))
  BY DEF IInv, InputType
<1>4. CASE CompleteCommand
  BY <1>1, <1>2, <1>3, <1>4, TakeInv DEF CompleteCommand, AccountsForBytes
<1>5. CASE ExpectMore
  BY <1>1, <1>2, <1>3, <1>5, TakeInv DEF ExpectMore, AccountsForBytes
<1>6. CASE RefuseLength
  BY <1>1, <1>2, <1>3, <1>6, TakeInv DEF RefuseLength, AccountsForBytes
<1> QED
  BY <1>4, <1>5, <1>6

LEMMA RefuseFragmentInv == IInv /\ RefuseFragment => IInv'
  BY TakeInv DEF RefuseFragment, IInv, InputType, AccountsForBytes

LEMMA StutterInv == IInv /\ UNCHANGED vars => IInv'
  BY DEF IInv, TeensyType, TailOK, BufferType, InputType, AccountsForBytes,
         vars, teensy, assembly

LEMMA Invariant == Spec => []IInv
<1>1. IInv /\ [Next]_vars => IInv'
  BY PutWholeInv, PutStartInv, PutFragmentInv, ShipInv, FetchInv, TakeWholeInv,
     TakeStartInv, FragmentInv, RefuseFragmentInv, StutterInv DEF Next, Main
<1> QED
  BY InitInv, <1>1, PTL DEF Spec

-----------------------------------------------------------------------------
(***************************************************************************)
(* The order of the commands.  Whole commands and starts are on their way  *)
(* in the order they were sent, and what was decoded or is being put       *)
(* together is ahead of them all.                                          *)
(***************************************************************************)
Begins(c) == c.kind # "fragment"

Above(m, s) == \A i \in 1 .. Len(s) : Begins(s[i]) => m < s[i].cmd
Below(s, m) == \A i \in 1 .. Len(s) : Begins(s[i]) => s[i].cmd < m
Precedes(s, t) == \A i \in 1 .. Len(s) : Begins(s[i]) => Above(s[i].cmd, t)
Sorted(s) ==
  \A i, j \in 1 .. Len(s) :
    i < j /\ Begins(s[i]) /\ Begins(s[j]) => s[i].cmd < s[j].cmd

SentInOrder ==
  /\ Sorted(report) /\ Below(report, next) /\ Precedes(report, filling)
  /\ Sorted(filling) /\ Below(filling, next)
  /\ \A k \in 1 .. Len(ring) :
       /\ Sorted(ring[k]) /\ Below(ring[k], next)
       /\ Precedes(report, ring[k]) /\ Precedes(ring[k], filling)
       /\ \A l \in 1 .. Len(ring) : k < l => Precedes(ring[k], ring[l])

Ahead(m) ==
  /\ m < next /\ Above(m, report) /\ Above(m, filling)
  /\ \A k \in 1 .. Len(ring) : Above(m, ring[k])

DecodedAhead ==
  /\ \A i \in 1 .. Len(decoded) :
       /\ decoded[i] # <<>> /\ Ahead(decoded[i][1][1])
       /\ expect # 0 => decoded[i][1][1] < buffer[1][1]
  /\ expect # 0 => Ahead(buffer[1][1])

OrderInv == SentInOrder /\ DecodedAhead /\ InOrderOnce

LEMMA InitOrder == Init => OrderInv
  BY InputAssumption
     DEF InputAssumption, Init, OrderInv, SentInOrder, Sorted, Below, Precedes,
         Above, DecodedAhead, InOrderOnce

\* The numbers of commands are numbers.
LEMMA CommandNumbers ==
  /\ Command \subseteq Int
  /\ \A c \in Sent : c.cmd \in Int
  /\ \A b \in Byte : b[1] \in Int
  BY InputAssumption DEF InputAssumption, Command, Sent, Chunk, Byte

\* A step that decodes nothing keeps the order if it keeps it on the way.
LEMMA NothingDecoded ==
  ASSUME IInv, OrderInv, UNCHANGED <<assembly, decoded>>, SentInOrder',
         \A m \in Int : Ahead(m) => Ahead(m)'
  PROVE  OrderInv'
<1>1. \A i \in 1 .. Len(decoded) : decoded[i] # <<>> => decoded[i][1][1] \in Int
  <2>1. ASSUME NEW i \in 1 .. Len(decoded), decoded[i] # <<>>
        PROVE  decoded[i][1] \in Byte
    BY <2>1 DEF IInv, InputType
  <2> QED
    BY <2>1, CommandNumbers
<1>2. expect # 0 => buffer[1][1] \in Int
  <2>1. expect # 0 => buffer[1] \in Byte
    BY DEF IInv, InputType, AccountsForBytes
  <2> QED
    BY <2>1, CommandNumbers
<1>3. DecodedAhead'
  BY <1>1, <1>2 DEF OrderInv, DecodedAhead, assembly
<1>4. InOrderOnce'
  BY DEF OrderInv, InOrderOnce
<1> QED
  BY <1>3, <1>4 DEF OrderInv

LEMMA PutOrder == IInv /\ OrderInv /\ (PutWhole \/ PutStart) => OrderInv'
<1> SUFFICES ASSUME IInv, OrderInv, PutWhole \/ PutStart
             PROVE  OrderInv'
  OBVIOUS
<1>1. PICK c \in Sent : /\ c.cmd = next /\ filling' = Append(filling, c)
                        /\ next' = next + 1
                        /\ UNCHANGED <<ring, report, assembly, decoded>>
  <2>1. CASE PutWhole
    <3>1. [kind |-> "whole", cmd |-> next] \in Sent
      BY <2>1, InputAssumption
         DEF InputAssumption, IInv, TeensyType, PutWhole, Command, Sent, Chunk
    <3> QED
      BY <2>1, <3>1 DEF PutWhole
  <2>2. CASE PutStart
    <3>1. [kind |-> "start", cmd |-> next, n |-> room] \in Sent
      BY <2>2, InputAssumption
         DEF InputAssumption, IInv, TeensyType, PutStart, Command, Sent, Chunk
    <3> QED
      BY <2>2, <3>1 DEF PutStart
  <2> QED
    BY <2>1, <2>2
<1>2. /\ filling \in Seq(Sent) /\ report \in Seq(Sent) /\ next \in Int
      /\ ring \in Seq(Seq(Sent))
  BY DEF IInv, TeensyType, BufferType, InputType
<1>7. ASSUME NEW i \in 1 .. Len(filling')
      PROVE  \/ i \in 1 .. Len(filling) /\ filling'[i] = filling[i]
             \/ i = Len(filling) + 1 /\ filling'[i] = c
  BY <1>1, <1>2, AppendElement
<1>8. ASSUME NEW m \in Int, m < next, Above(m, filling)
      PROVE  m < next' /\ Above(m, filling')
  BY <1>1, <1>2, <1>7, <1>8, CommandNumbers DEF Above
<1>3. ASSUME NEW s \in Seq(Sent), Below(s, next)
      PROVE  /\ Below(s, next')
             /\ Precedes(s, filling) => Precedes(s, filling')
  <2>1. \A i \in 1 .. Len(s) : s[i].cmd \in Int
    BY CommandNumbers
  <2> QED
    BY <1>1, <1>2, <1>3, <1>8, <2>1 DEF Below, Precedes
<1>4. Sorted(filling') /\ Below(filling', next')
  <2>1. \A i \in 1 .. Len(filling) : filling[i].cmd \in Int
    BY <1>2, CommandNumbers
  <2>2. Sorted(filling) /\ Below(filling, next)
    BY DEF OrderInv, SentInOrder
  <2>3. Below(filling', next')
    BY <1>1, <1>2, <1>7, <2>1, <2>2 DEF Below
  <2>4. ASSUME NEW i \in 1 .. Len(filling'), NEW j \in 1 .. Len(filling'), i < j,
               Begins(filling'[i]), Begins(filling'[j])
        PROVE  filling'[i].cmd < filling'[j].cmd
    <3>1. i \in 1 .. Len(filling) /\ filling'[i] = filling[i]
      BY <1>1, <1>2, <1>7, <2>4
    <3> QED
      BY <1>1, <1>7, <2>2, <2>4, <3>1 DEF Sorted, Below
  <2> QED
    BY <2>3, <2>4 DEF Sorted
<1>5. SentInOrder'
  <2>1. \A k \in 1 .. Len(ring) : ring[k] \in Seq(Sent)
    BY <1>2
  <2> QED
    BY <1>1, <1>2, <1>3, <1>4, <2>1 DEF OrderInv, SentInOrder
<1>6. ASSUME NEW m \in Int, Ahead(m)
      PROVE  Ahead(m)'
  BY <1>1, <1>6, <1>8 DEF Ahead
<1> QED
  BY <1>1, <1>5, <1>6, NothingDecoded

LEMMA PutFragmentOrder == IInv /\ OrderInv /\ PutFragment => OrderInv'
<1> SUFFICES ASSUME IInv, OrderInv, PutFragment
             PROVE  OrderInv'
  OBVIOUS
<1>1. /\ \A i \in 1 .. Len(filling') : ~Begins(filling'[i])
      /\ UNCHANGED <<next, ring, report, assembly, decoded>>
  BY DEF PutFragment, Begins
<1>2. SentInOrder'
  <2>1. Sorted(filling') /\ Below(filling', next)
    BY <1>1 DEF Sorted, Below
  <2>2. \A s : Precedes(s, filling')
    BY <1>1 DEF Precedes, Above
  <2> QED
    BY <1>1, <2>1, <2>2 DEF OrderInv, SentInOrder
<1>3. \A m \in Int : Ahead(m) => Ahead(m)'
  BY <1>1 DEF Ahead, Above
<1> QED
  BY <1>1, <1>2, <1>3, NothingDecoded

LEMMA ShipOrder == IInv /\ OrderInv /\ Ship => OrderInv'
<1> SUFFICES ASSUME IInv, OrderInv, Ship
             PROVE  OrderInv'
  OBVIOUS
<1>1. /\ filling' = <<>> /\ UNCHANGED <<next, report, assembly, decoded>>
      /\ ring' = ring \/ ring' = Append(ring, filling)
  BY DEF Ship
<1>2. ring \in Seq(Seq(Sent)) /\ filling \in Seq(Sent)
  BY DEF IInv, TeensyType, BufferType
<1>3. ASSUME NEW k \in 1 .. Len(ring')
      PROVE  \/ k \in 1 .. Len(ring) /\ ring'[k] = ring[k]
             \/ k = Len(ring) + 1 /\ ring'[k] = filling
  <2>1. CASE ring' = ring
    BY <2>1
  <2>2. CASE ring' = Append(ring, filling)
    <3>1. filling \in Seq(Sent) /\ ring \in Seq(Seq(Sent))
      BY <1>2
    <3> HIDE DEF Sent
    <3>2. \A i \in 1 .. Len(Append(ring, filling)) :
            \/ i \in 1 .. Len(ring) /\ Append(ring, filling)[i] = ring[i]
            \/ i = Len(ring) + 1 /\ Append(ring, filling)[i] = filling
      BY <3>1, AppendElement
    <3> QED
      BY <2>2, <3>2
  <2> QED
    BY <1>1, <2>1, <2>2
<1>4. \A s : Precedes(s, <<>>)
  BY DEF Precedes, Above
<1>5. Len(ring) \in Nat /\ Len(ring') \in Nat
  BY <1>1, <1>2
<1>6. SentInOrder'
  <2>1. Sorted(filling') /\ Below(filling', next')
    BY <1>1 DEF Sorted, Below
  <2>2. ASSUME NEW k \in 1 .. Len(ring'), NEW l \in 1 .. Len(ring'), k < l
        PROVE  Precedes(ring'[k], ring'[l])
    <3>1. k \in 1 .. Len(ring) /\ ring'[k] = ring[k]
      BY <1>1, <1>2, <1>3, <1>5, <2>2
    <3> QED
      BY <1>3, <2>2, <3>1 DEF OrderInv, SentInOrder
  <2>3. ASSUME NEW k \in 1 .. Len(ring')
        PROVE  /\ Sorted(ring'[k]) /\ Below(ring'[k], next)
               /\ Precedes(report, ring'[k])
    BY <1>3 DEF OrderInv, SentInOrder
  <2> QED
    BY <1>1, <1>4, <2>1, <2>2, <2>3 DEF OrderInv, SentInOrder
<1>7. ASSUME NEW m \in Int, Ahead(m)
      PROVE  Ahead(m)'
  <2>1. Above(m, filling')
    BY <1>1 DEF Above
  <2>2. \A k \in 1 .. Len(ring') : Above(m, ring'[k])
    BY <1>3, <1>7 DEF Ahead
  <2> QED
    BY <1>1, <1>7, <2>1, <2>2 DEF Ahead
<1> QED
  BY <1>1, <1>6, <1>7, NothingDecoded

LEMMA FetchOrder == IInv /\ OrderInv /\ FetchReport => OrderInv'
<1> SUFFICES ASSUME IInv, OrderInv, FetchReport
             PROVE  OrderInv'
  OBVIOUS
<1>1. ring \in Seq(Seq(Sent)) /\ ring # <<>>
  BY DEF IInv, BufferType, FetchReport
<1>2. /\ report' = ring[1] /\ 1 \in 1 .. Len(ring)
      /\ Len(ring') = Len(ring) - 1
      /\ \A k \in 1 .. Len(ring') : ring'[k] = ring[k + 1]
                                    /\ k + 1 \in 1 .. Len(ring)
      /\ UNCHANGED <<next, filling, assembly, decoded>>
  BY <1>1 DEF FetchReport, teensy
<1>3. \A k, l \in 1 .. Len(ring') : k < l => k + 1 < l + 1
  BY <1>1, <1>2
<1>4. \A k \in 1 .. Len(ring') : 1 < k + 1
  BY <1>1, <1>2
<1>5. SentInOrder'
  BY <1>2, <1>3, <1>4 DEF OrderInv, SentInOrder
<1>6. \A m \in Int : Ahead(m) => Ahead(m)'
  BY <1>2 DEF Ahead
<1> QED
  BY <1>2, <1>5, <1>6, NothingDecoded

\* What input_packet takes from a report leaves the rest in order, and if it
\* begins a command this command is ahead of the rest.
LEMMA TakeKeepsOrder ==
  ASSUME IInv, OrderInv, report # <<>>, UNCHANGED <<next, filling, ring>>,
         report' = Tail(report) \/ report' = <<>>
  PROVE  /\ SentInOrder'
         /\ \A m \in Int : Ahead(m) => Ahead(m)'
         /\ \A m \in Int : Begins(Head(report)) /\ m = Head(report).cmd
                            => Ahead(m)'
<1>1. report \in Seq(Sent) /\ Head(report) = report[1] /\ Len(report) \in Nat
      /\ 1 \in 1 .. Len(report)
  BY DEF IInv, InputType
<1>2. \A i \in 1 .. Len(report') : /\ report'[i] = report[i + 1]
                                   /\ i + 1 \in 1 .. Len(report) /\ 1 < i + 1
  <2>1. CASE report' = Tail(report)
    BY <1>1, <2>1
  <2>2. CASE report' = <<>>
    BY <2>2
  <2> QED
    BY <2>1, <2>2
<1>3. \A i, j \in 1 .. Len(report') : i < j => i + 1 < j + 1
  <2>1. Len(report') \in Nat
    BY <1>1
  <2> QED
    BY <2>1
<1>4. Sorted(report') /\ Below(report', next) /\ Precedes(report', filling)
  <2>1. Sorted(report')
    BY <1>2, <1>3 DEF OrderInv, SentInOrder, Sorted
  <2>2. Below(report', next)
    BY <1>2 DEF OrderInv, SentInOrder, Below
  <2>3. Precedes(report', filling)
    BY <1>2 DEF OrderInv, SentInOrder, Precedes
  <2> QED
    BY <2>1, <2>2, <2>3
<1>5. \A k \in 1 .. Len(ring) : Precedes(report', ring[k])
  BY <1>2 DEF OrderInv, SentInOrder, Precedes
<1>6. SentInOrder'
  BY <1>4, <1>5 DEF OrderInv, SentInOrder
<1>7. \A m \in Int : Ahead(m) => Ahead(m)'
  BY <1>2 DEF Ahead, Above
<1>8. ASSUME NEW m \in Int, Begins(Head(report)), m = Head(report).cmd
      PROVE  Ahead(m)'
  <2>1. Above(m, report')
    BY <1>1, <1>2, <1>8 DEF OrderInv, SentInOrder, Sorted, Above
  <2>2. /\ m < next /\ Above(m, filling)
        /\ \A k \in 1 .. Len(ring) : Above(m, ring[k])
    BY <1>1, <1>8 DEF OrderInv, SentInOrder, Below, Precedes
  <2> QED
    BY <1>1, <2>1, <2>2 DEF Ahead
<1> QED
  BY <1>6, <1>7, <1>8

\* The first number of what was decoded, and of what is put together.
LEMMA FirstNumbers ==
  ASSUME IInv, OrderInv
  PROVE  /\ \A i \in 1 .. Len(decoded) : decoded[i][1][1] \in Int
         /\ expect # 0 => buffer # <<>> /\ buffer[1][1] \in Int
<1>1. ASSUME NEW i \in 1 .. Len(decoded)
      PROVE  decoded[i][1] \in Byte
  BY DEF IInv, InputType, OrderInv, DecodedAhead
<1>2. expect # 0 => buffer # <<>> /\ buffer[1] \in Byte
  BY DEF IInv, InputType, AccountsForBytes
<1> QED
  BY <1>1, <1>2, CommandNumbers

\* A command that is decoded is behind the ones decoded before.
LEMMA DecodeOrder ==
  ASSUME IInv, OrderInv, SentInOrder',
         \A m \in Int : Ahead(m) => Ahead(m)',
         NEW d \in Seq(Byte), d # <<>>, decoded' = Append(decoded, d),
         expect' = 0, Ahead(d[1][1])',
         \A i \in 1 .. Len(decoded) : decoded[i][1][1] < d[1][1]
  PROVE  OrderInv'
<1>1. decoded \in Seq(Seq(Byte))
  BY DEF IInv, InputType
<1>2. ASSUME NEW i \in 1 .. Len(decoded')
      PROVE  \/ i \in 1 .. Len(decoded) /\ decoded'[i] = decoded[i]
             \/ i = Len(decoded) + 1 /\ decoded'[i] = d
  BY <1>1
<1>3. DecodedAhead'
  BY <1>2, FirstNumbers DEF OrderInv, DecodedAhead
<1>4. InOrderOnce'
  <2>1. ASSUME NEW i \in 1 .. Len(decoded'), NEW j \in 1 .. Len(decoded'), i < j
        PROVE  decoded'[i][1][1] < decoded'[j][1][1]
    <3>1. i \in 1 .. Len(decoded) /\ decoded'[i] = decoded[i]
      BY <1>1, <1>2, <2>1
    <3> QED
      BY <1>2, <2>1, <3>1 DEF OrderInv, InOrderOnce
  <2> QED
    BY <2>1 DEF InOrderOnce
<1> QED
  BY <1>3, <1>4 DEF OrderInv

LEMMA TakeWholeOrder == IInv /\ OrderInv /\ TakeWhole => OrderInv'
<1> SUFFICES ASSUME IInv, OrderInv, TakeWhole
             PROVE  OrderInv'
  OBVIOUS
<1>1. /\ Head(report) \in Sent /\ Begins(Head(report)) /\ report # <<>>
      /\ Head(report) = report[1] /\ 1 \in 1 .. Len(report)
  BY DEF IInv, InputType, TakeWhole, NextIs, Begins
<1>7. PICK c \in Command : c = Head(report).cmd
  BY <1>1 DEF Sent, Chunk
<1>2. c \in Int /\ Length[c] \in Nat /\ Length[c] >= 2
  BY InputAssumption, CommandNumbers DEF InputAssumption
<1>3. /\ Whole(c) \in Seq(Byte) /\ Whole(c) # <<>> /\ Whole(c)[1][1] = c
  <2>1. Bytes(c, 1, Length[c]) \in Seq(Byte)
        /\ Len(Bytes(c, 1, Length[c])) = Length[c]
    <3>1. \A k \in 1 .. Length[c] : <<c, 1 + k - 1>> \in Byte
      BY <1>2, <1>7 DEF Byte
    <3>2. Bytes(c, 1, Length[c]) = [k \in 1 .. Length[c] |-> <<c, 1 + k - 1>>]
      BY DEF Bytes
    <3>3. Bytes(c, 1, Length[c]) \in [1 .. Length[c] -> Byte]
      BY <3>1, <3>2, Zenon
    <3>4. Length[c] \in Nat
      BY <1>2
    <3> QED
      BY <3>2, <3>3, <3>4, SeqOfFunction
  <2>2. Bytes(c, 1, Length[c])[1] = <<c, 1>>
    BY <1>2 DEF Bytes
  <2> QED
    BY <1>2, <2>1, <2>2 DEF Whole
<1>4. /\ decoded' = Append(decoded, Whole(c)) /\ expect' = 0
      /\ report' = Tail(report) /\ UNCHANGED <<next, filling, ring>>
  BY <1>7 DEF TakeWhole, teensy
<1>5. /\ SentInOrder' /\ Ahead(c)'
      /\ \A m \in Int : Ahead(m) => Ahead(m)'
  BY <1>1, <1>2, <1>4, <1>7, TakeKeepsOrder
<1>6. \A i \in 1 .. Len(decoded) : decoded[i][1][1] < c
  BY <1>1, <1>7 DEF OrderInv, DecodedAhead, Ahead, Above
<1>8. Ahead(Whole(c)[1][1])'
  BY <1>3, <1>5
<1> QED
  BY <1>3, <1>4, <1>5, <1>6, <1>8, DecodeOrder

LEMMA TakeStartOrder == IInv /\ OrderInv /\ TakeStart => OrderInv'
<1> SUFFICES ASSUME IInv, OrderInv, TakeStart
             PROVE  OrderInv'
  OBVIOUS
<1> DEFINE c == Head(report)
<1>1. /\ c \in Sent /\ Begins(c) /\ report # <<>> /\ c.kind = "start"
      /\ c = report[1] /\ 1 \in 1 .. Len(report)
  BY DEF IInv, InputType, TakeStart, NextIs, Begins
<1>2. c.n \in Nat /\ c.n >= 2
  BY <1>1 DEF Sent, Chunk
<1>9. PICK m \in Int : m = c.cmd
  BY <1>1, CommandNumbers
<1>3. /\ buffer' = Bytes(m, 1, c.n) /\ report' = <<>>
      /\ UNCHANGED <<next, filling, ring, decoded>>
  BY <1>9 DEF TakeStart, teensy
<1>4. /\ SentInOrder' /\ Ahead(m)'
      /\ \A k \in Int : Ahead(k) => Ahead(k)'
  BY <1>1, <1>3, <1>9, TakeKeepsOrder
<1>5. \A i \in 1 .. Len(decoded) : decoded[i][1][1] < m
  BY <1>1, <1>9 DEF OrderInv, DecodedAhead, Ahead, Above
<1> HIDE DEF c
<1>6. buffer'[1][1] = m
  <2>1. 1 \in 1 .. c.n
    BY <1>2
  <2> QED
    BY <1>3, <2>1 DEF Bytes
<1>7. DecodedAhead'
  BY <1>3, <1>4, <1>5, <1>6, FirstNumbers DEF OrderInv, DecodedAhead
<1>8. InOrderOnce'
  BY <1>3 DEF OrderInv, InOrderOnce
<1> QED
  BY <1>4, <1>7, <1>8 DEF OrderInv

LEMMA FragmentOrder ==
  IInv /\ OrderInv /\ (CompleteCommand \/ ExpectMore \/ RefuseLength)
    => OrderInv'
<1> SUFFICES ASSUME IInv, OrderInv, CompleteCommand \/ ExpectMore \/ RefuseLength
             PROVE  OrderInv'
  OBVIOUS
<1>1. TakeBytes /\ UNCHANGED <<next, filling, ring>>
      /\ (report' = Tail(report) \/ report' = <<>>)
  BY DEF CompleteCommand, ExpectMore, RefuseLength, TakeBytes, teensy
<1>2. report # <<>> /\ expect >= 1 /\ buffer' \in Seq(Byte) /\ buffer' # <<>>
  BY <1>1, TakeBytesAccount
<1>3. expect \in Nat /\ expect # 0
  BY <1>2 DEF IInv, InputType
<1>4. buffer'[1] = buffer[1]
  <2>1. Head(report) \in Sent /\ Head(report).kind = "fragment"
    BY <1>1 DEF IInv, InputType, TakeBytes, NextIs
  <2>2. Bytes(Head(report).cmd, Head(report).from, Head(report).n) \in Seq(Byte)
    <3> DEFINE c == Head(report)
    <3>1. c.cmd \in Command /\ c.n \in Nat /\ c.from \in Nat
      BY <2>1 DEF Sent, Chunk
    <3> HIDE DEF c
    <3>2. \A k \in 1 .. c.n : <<c.cmd, c.from + k - 1>> \in Byte
      BY <3>1 DEF Byte
    <3>3. Bytes(c.cmd, c.from, c.n) \in [1 .. c.n -> Byte]
      BY <3>2 DEF Bytes
    <3>4. Bytes(c.cmd, c.from, c.n) \in Seq(Byte)
      BY <3>1, <3>3
    <3> QED
      BY <3>4 DEF c
  <2>3. buffer \in Seq(Byte) /\ buffer # <<>>
    BY <1>3 DEF IInv, InputType, AccountsForBytes
  <2> QED
    BY <1>1, <2>2, <2>3 DEF TakeBytes
<1>5. SentInOrder' /\ \A m \in Int : Ahead(m) => Ahead(m)'
  BY <1>1, <1>2, TakeKeepsOrder
<1>6. /\ buffer[1][1] \in Int /\ Ahead(buffer[1][1])
      /\ \A i \in 1 .. Len(decoded) : decoded[i][1][1] < buffer[1][1]
  BY <1>3, FirstNumbers DEF OrderInv, DecodedAhead
<1>7. CASE CompleteCommand
  <2>1. decoded' = Append(decoded, buffer') /\ expect' = 0
    BY <1>7 DEF CompleteCommand
  <2> QED
    BY <1>2, <1>4, <1>5, <1>6, <2>1, DecodeOrder
<1>8. CASE ExpectMore \/ RefuseLength
  <2>1. UNCHANGED decoded
    BY <1>8 DEF ExpectMore, RefuseLength
  <2>2. DecodedAhead'
    BY <1>4, <1>5, <1>6, <2>1, FirstNumbers DEF OrderInv, DecodedAhead
  <2>3. InOrderOnce'
    BY <2>1 DEF OrderInv, InOrderOnce
  <2> QED
    BY <1>5, <2>2, <2>3 DEF OrderInv
<1> QED
  BY <1>7, <1>8

LEMMA RefuseFragmentOrder == IInv /\ OrderInv /\ RefuseFragment => OrderInv'
<1> SUFFICES ASSUME IInv, OrderInv, RefuseFragment
             PROVE  OrderInv'
  OBVIOUS
<1>1. /\ report # <<>> /\ report' = <<>> /\ expect' = 0
      /\ UNCHANGED <<next, filling, ring, decoded>>
  BY DEF RefuseFragment, NextIs, teensy
<1>2. SentInOrder' /\ \A m \in Int : Ahead(m) => Ahead(m)'
  BY <1>1, TakeKeepsOrder
<1>3. DecodedAhead' /\ InOrderOnce'
  BY <1>1, <1>2, FirstNumbers DEF OrderInv, DecodedAhead, InOrderOnce
<1> QED
  BY <1>2, <1>3 DEF OrderInv

LEMMA StutterOrder == OrderInv /\ UNCHANGED vars => OrderInv'
  BY DEF OrderInv, SentInOrder, DecodedAhead, InOrderOnce, Ahead, vars, teensy,
         assembly

-----------------------------------------------------------------------------
(***************************************************************************)
(* What a decoded command is made of.  The parts of commands on their way  *)
(* are in the order of their commands and numbers, and each has the part   *)
(* after it behind it, or this was lost.                                   *)
(***************************************************************************)
Num(x) == IF x.kind = "fragment" THEN x.id ELSE 0

\* Part x comes after part n of command c.
Later(c, n, x) == c < x.cmd \/ (c = x.cmd /\ n < Num(x))

Rising(s) ==
  \A i, j \in 1 .. Len(s) : i < j => Later(s[i].cmd, Num(s[i]), s[j])
Leads(s, t) ==
  \A i \in 1 .. Len(s) : \A j \in 1 .. Len(t) :
    Later(s[i].cmd, Num(s[i]), t[j])
StartLast(s) == \A i \in 1 .. Len(s) : s[i].kind = "start" => i = Len(s)
InLine(s) == Rising(s) /\ StartLast(s)

Line ==
  /\ InLine(report) /\ InLine(filling) /\ Leads(report, filling)
  /\ \A i \in 1 .. Len(filling) : filling[i].kind = "start" => tail # NoTail
  /\ \A k \in 1 .. Len(ring) :
       /\ InLine(ring[k]) /\ Leads(report, ring[k]) /\ Leads(ring[k], filling)
       /\ \A l \in 1 .. Len(ring) : k < l => Leads(ring[k], ring[l])

Way == Elements(report) \cup Elements(filling)
       \cup UNION {Elements(ring[k]) : k \in 1 .. Len(ring)}

\* What is left of a command, or all that comes, is behind part n of command c.
BeforeTail(c, n) ==
  tail # NoTail => c < tail.cmd \/ (c = tail.cmd /\ n < tail.id)
Behind(c, n) == BeforeTail(c, n) /\ \A x \in Way : Later(c, n, x)

\* Fragment i of command c, from byte b on, comes; so does its start.
Comes(c, i, b) ==
  \/ \E x \in Way : /\ x.kind = "fragment" /\ x.cmd = c /\ x.id = i
                    /\ x.from = b
  \/ tail # NoTail /\ tail.cmd = c /\ tail.id = i /\ tail.from = b
StartComes(c) == \E x \in Way : x.kind = "start" /\ x.cmd = c

\* Part n of command c ends with byte e: the next part goes on behind it.
GoesOn(c, n, e) ==
  /\ \A b \in Nat : Comes(c, n + 1, b) => b = e + 1
  /\ e < Length[c] => Lost("fragment", c) \/ Comes(c, n + 1, e + 1)

End(x) == IF x.kind = "fragment" THEN x.from + x.n - 1 ELSE x.n

\* The start of a command that comes was not lost, or does not come before it:
\* then the ones that begin are later commands.
HasStart(c) == Lost("start", c) \/ StartComes(c)
Gone(c) == \A x \in Way : x.kind # "fragment" => c < x.cmd

WayInv ==
  /\ tail # NoTail => tail.cmd < next
  /\ \A x \in Way :
       /\ x.cmd < next /\ (x.kind = "fragment" => x.n >= 1)
       /\ BeforeTail(x.cmd, Num(x))
       /\ x.kind # "whole" => GoesOn(x.cmd, Num(x), End(x))
  /\ \A c \in Command : \A i, b \in Nat :
       Comes(c, i, b) => HasStart(c) \/ Gone(c)

\* The bytes of d are in order but for splices.
Made(d) ==
  /\ d # <<>> /\ d[1][2] = 1
  /\ \A k \in 2 .. Len(d) : JoinedAt(d, k) \/ SplicedAt(d, k)

\* What was collected begins with command f and ends with byte p of command l.
Collected(f, l, p) ==
  /\ f <= l /\ l < next /\ Behind(l, expect - 1)
  /\ GoesOn(l, expect - 1, p)
  /\ \A c \in Command : \A i, b \in Nat :
       l < c /\ Comes(c, i, b) => HasStart(c)
  /\ f = l => p = Len(buffer)
  /\ f # l => Lost("fragment", f)

BufferInv ==
  expect # 0 =>
    /\ Made(buffer)
    /\ Collected(buffer[1][1], buffer[Len(buffer)][1],
                 buffer[Len(buffer)][2])

DecodedInv ==
  \A i \in 1 .. Len(decoded) :
    /\ Made(decoded[i]) /\ Len(decoded[i]) = Length[decoded[i][1][1]]

SpliceInv == Line /\ WayInv /\ BufferInv /\ DecodedInv

LEMMA WayMembers ==
  /\ \A i \in 1 .. Len(report) : report[i] \in Way
  /\ \A i \in 1 .. Len(filling) : filling[i] \in Way
  /\ \A k \in 1 .. Len(ring) : \A i \in 1 .. Len(ring[k]) : ring[k][i] \in Way
  /\ \A x \in Way :
       \/ \E i \in 1 .. Len(report) : x = report[i]
       \/ \E i \in 1 .. Len(filling) : x = filling[i]
       \/ \E k \in 1 .. Len(ring) : \E i \in 1 .. Len(ring[k]) : x = ring[k][i]
  BY DEF Way, Elements

LEMMA WayTypes ==
  ASSUME IInv
  PROVE  \A x \in Way :
           /\ x \in Sent /\ x.cmd \in Command /\ x.cmd \in Int /\ Num(x) \in Nat
           /\ x.kind \in {"whole", "start", "fragment"}
           /\ x.kind = "fragment" => /\ x.id \in Nat /\ x.id >= 1
                                     /\ x.from \in Nat /\ x.n \in Nat
           /\ x.kind = "start" => /\ x.n \in Nat /\ x.n >= 2
                                  /\ x.n < Length[x.cmd]
<1>1. \A x \in Way : x \in Sent
  <2>1. /\ report \in Seq(Sent) /\ filling \in Seq(Sent)
        /\ ring \in Seq(Seq(Sent))
    BY DEF IInv, TeensyType, BufferType, InputType
  <2> HIDE DEF Sent
  <2>2. /\ \A i \in 1 .. Len(report) : report[i] \in Sent
        /\ \A i \in 1 .. Len(filling) : filling[i] \in Sent
    BY <2>1
  <2>3. ASSUME NEW k \in 1 .. Len(ring), NEW i \in 1 .. Len(ring[k])
        PROVE  ring[k][i] \in Sent
    <3>1. ring[k] \in Seq(Sent)
      BY <2>1
    <3> QED
      BY <3>1
  <2> QED
    BY <2>2, <2>3, WayMembers
<1>2. ASSUME NEW x \in Sent
      PROVE  /\ x.cmd \in Command /\ x.cmd \in Int /\ Num(x) \in Nat
             /\ x.kind \in {"whole", "start", "fragment"}
             /\ x.kind = "fragment" => /\ x.id \in Nat /\ x.id >= 1
                                       /\ x.from \in Nat /\ x.n \in Nat
             /\ x.kind = "start" => /\ x.n \in Nat /\ x.n >= 2
                                    /\ x.n < Length[x.cmd]
  BY CommandNumbers DEF Sent, Chunk, Num
<1> QED
  BY <1>1, <1>2

\* The head of a report is the first of all that comes.
LEMMA HeadFirst ==
  ASSUME IInv, Line, report # <<>>, NEW h, h = Head(report)
  PROVE  h \in Way /\ \A y \in Way : y = h \/ Later(h.cmd, Num(h), y)
<1>1. report \in Seq(Sent)
  BY DEF IInv, InputType
<1>2. h = report[1] /\ 1 \in 1 .. Len(report)
  BY <1>1
<1>3. \A i \in 1 .. Len(report) : i = 1 \/ 1 < i
  BY <1>1
<1>4. \A i \in 1 .. Len(report) : report[i] = h
                                  \/ Later(h.cmd, Num(h), report[i])
  BY <1>2, <1>3 DEF Line, InLine, Rising
<1>5. /\ \A i \in 1 .. Len(filling) : Later(h.cmd, Num(h), filling[i])
      /\ \A k \in 1 .. Len(ring) : \A i \in 1 .. Len(ring[k]) :
           Later(h.cmd, Num(h), ring[k][i])
  BY <1>2 DEF Line, Leads
<1> QED
  BY <1>2, <1>4, <1>5, WayMembers

\* A chunk that is put behind all that is on its way.
LEMMA PutLine ==
  ASSUME IInv, Line, NEW x \in Sent, filling' = Append(filling, x),
         \A y \in Way : Later(y.cmd, Num(y), x),
         \A i \in 1 .. Len(filling) : filling[i].kind # "start",
         x.kind = "start" => tail' # NoTail, UNCHANGED <<ring, report>>
  PROVE  Line' /\ Way' = Way \cup {x}
<1>1. filling \in Seq(Sent) /\ Len(filling) \in Nat
  BY DEF IInv, TeensyType
<1>2. /\ Len(filling') = Len(filling) + 1
      /\ \A i \in 1 .. Len(filling) : filling'[i] = filling[i]
      /\ filling'[Len(filling) + 1] = x
      /\ \A i \in 1 .. Len(filling') :
           i \in 1 .. Len(filling) \/ i = Len(filling) + 1
  <2> HIDE DEF Sent
  <2>1. Append(filling, x) = filling'
    OBVIOUS
  <2>2. /\ Len(Append(filling, x)) = Len(filling) + 1
        /\ \A i \in 1 .. Len(filling) : Append(filling, x)[i] = filling[i]
        /\ Append(filling, x)[Len(filling) + 1] = x
    BY <1>1, AppendFacts
  <2> QED
    BY <1>1, <2>1, <2>2
<1>3. \A i \in 1 .. Len(filling) : Later(filling[i].cmd, Num(filling[i]), x)
  BY WayMembers
<1>4. InLine(filling')
  <2>1. ASSUME NEW i \in 1 .. Len(filling'), NEW j \in 1 .. Len(filling'), i < j
        PROVE  Later(filling'[i].cmd, Num(filling'[i]), filling'[j])
    <3>1. i \in 1 .. Len(filling)
      BY <1>1, <1>2, <2>1
    <3> QED
      BY <1>2, <1>3, <2>1, <3>1 DEF Line, InLine, Rising
  <2>2. ASSUME NEW i \in 1 .. Len(filling'), filling'[i].kind = "start"
        PROVE  i = Len(filling')
    BY <1>2, <2>2
  <2> QED
    BY <2>1, <2>2 DEF InLine, Rising, StartLast
<1>5. ASSUME NEW s, Leads(s, filling),
             \A i \in 1 .. Len(s) : Later(s[i].cmd, Num(s[i]), x)
      PROVE  Leads(s, filling')
  BY <1>2, <1>5 DEF Leads
<1>6. Leads(report, filling')
  BY <1>5, WayMembers DEF Line
<1>7. ASSUME NEW k \in 1 .. Len(ring)
      PROVE  Leads(ring[k], filling')
  BY <1>5, WayMembers DEF Line
<1>8. \A i \in 1 .. Len(filling') : filling'[i].kind = "start" => tail' # NoTail
  BY <1>2
<1>9. Line'
  BY <1>4, <1>6, <1>7, <1>8 DEF Line
<1>10. Elements(filling') = Elements(filling) \cup {x}
  <2>1. \A i \in 1 .. Len(filling) : i \in 1 .. Len(filling')
    BY <1>1, <1>2
  <2>2. Len(filling) + 1 \in 1 .. Len(filling')
    BY <1>1, <1>2
  <2> QED
    BY <1>2, <2>1, <2>2 DEF Elements
<1> QED
  BY <1>9, <1>10 DEF Way

LEMMA ShipLine ==
  ASSUME IInv, Line, Ship
  PROVE  /\ Line'
         /\ \/ Way' = Way
            \/ /\ Way' \subseteq Way
               /\ \A x \in Way : x \in Way' \/ Lost(x.kind, x.cmd)'
<1>1. /\ filling' = <<>> /\ UNCHANGED report
      /\ ring' = ring \/ ring' = Append(ring, filling)
  BY DEF Ship
<1>2. ring \in Seq(Seq(Sent)) /\ filling \in Seq(Sent) /\ Len(ring) \in Nat
  BY DEF IInv, TeensyType, BufferType
<1>3. \/ /\ ring' = ring
      \/ /\ Len(ring') = Len(ring) + 1
         /\ \A k \in 1 .. Len(ring) : ring'[k] = ring[k]
         /\ ring'[Len(ring) + 1] = filling
  <2>1. CASE ring' = Append(ring, filling)
    <3> HIDE DEF Sent
    <3>1. /\ Len(Append(ring, filling)) = Len(ring) + 1
          /\ \A i \in 1 .. Len(ring) : Append(ring, filling)[i] = ring[i]
          /\ Append(ring, filling)[Len(ring) + 1] = filling
      BY <1>2, AppendFacts
    <3> QED
      BY <2>1, <3>1
  <2> QED
    BY <1>1, <2>1
<1>4. ASSUME NEW k \in 1 .. Len(ring')
      PROVE  \/ k \in 1 .. Len(ring) /\ ring'[k] = ring[k]
             \/ k = Len(ring) + 1 /\ ring'[k] = filling
  <2>1. CASE ring' = ring
    BY <2>1
  <2>2. CASE ring' # ring
    <3>1. k \in 1 .. Len(ring) \/ k = Len(ring) + 1
      BY <1>2, <1>3, <2>2
    <3> QED
      BY <1>3, <2>2, <3>1
  <2> QED
    BY <2>1, <2>2
<1>5. \A s : Leads(s, <<>>)
  BY DEF Leads
<1>6. Line'
  <2>1. InLine(filling')
    BY <1>1 DEF InLine, Rising, StartLast
  <2>2. ASSUME NEW k \in 1 .. Len(ring'), NEW l \in 1 .. Len(ring'), k < l
        PROVE  Leads(ring'[k], ring'[l])
    <3>1. k \in 1 .. Len(ring) /\ ring'[k] = ring[k]
      BY <1>2, <1>3, <1>4, <2>2
    <3> QED
      BY <1>4, <2>2, <3>1 DEF Line
  <2>3. ASSUME NEW k \in 1 .. Len(ring')
        PROVE  InLine(ring'[k]) /\ Leads(report, ring'[k])
    BY <1>4 DEF Line
  <2>4. \A i \in 1 .. Len(filling') : filling'[i].kind = "start" => tail' # NoTail
    BY <1>1
  <2>5. InLine(report') /\ Leads(report', filling')
    BY <1>1, <1>5 DEF Line
  <2> QED
    BY <1>1, <1>5, <2>1, <2>2, <2>3, <2>4, <2>5 DEF Line
<1>7. CASE ring' # ring
  <2>1. \A k \in 1 .. Len(ring) : k \in 1 .. Len(ring')
    BY <1>2, <1>3, <1>7
  <2>2. Len(ring) + 1 \in 1 .. Len(ring')
    BY <1>2, <1>3, <1>7
  <2>3. Elements(filling') = {}
    BY <1>1 DEF Elements
  <2>4. ASSUME NEW x
        PROVE  x \in Way' <=> x \in Way
    <3>1. (\E k \in 1 .. Len(ring') : x \in Elements(ring'[k]))
            <=> \/ \E k \in 1 .. Len(ring) : x \in Elements(ring[k])
                \/ x \in Elements(filling)
      <4>1. ASSUME NEW k \in 1 .. Len(ring'), x \in Elements(ring'[k])
            PROVE  \/ \E l \in 1 .. Len(ring) : x \in Elements(ring[l])
                   \/ x \in Elements(filling)
        BY <1>4, <4>1
      <4>2. ASSUME NEW k \in 1 .. Len(ring), x \in Elements(ring[k])
            PROVE  \E l \in 1 .. Len(ring') : x \in Elements(ring'[l])
        BY <1>3, <1>7, <2>1, <4>2
      <4>3. ASSUME x \in Elements(filling)
            PROVE  \E l \in 1 .. Len(ring') : x \in Elements(ring'[l])
        BY <1>3, <1>7, <2>2, <4>3
      <4> QED
        BY <4>1, <4>2, <4>3
    <3>2. x \in Way <=> \/ x \in Elements(report) \/ x \in Elements(filling)
                        \/ \E k \in 1 .. Len(ring) : x \in Elements(ring[k])
      BY DEF Way
    <3>3. x \in Way' <=> \/ x \in Elements(report')
                         \/ x \in Elements(filling')
                         \/ \E k \in 1 .. Len(ring') :
                              x \in Elements(ring'[k])
      BY DEF Way
    <3> QED
      BY <1>1, <2>3, <3>1, <3>2, <3>3
  <2>5. Way' = Way
    BY <2>4
  <2> QED
    BY <1>6, <2>5
<1>8. CASE ring' = ring
  <2>1. Elements(filling') = {}
    BY <1>1 DEF Elements
  <2>2. Way = Way' \cup Elements(filling)
    BY <1>1, <1>8, <2>1 DEF Way
  <2>3. shipped' = Append(shipped, [chunks |-> filling, lost |-> TRUE])
    BY <1>2, <1>8, <1>3 DEF Ship
  <2>4. ASSUME NEW x \in Elements(filling)
        PROVE  Lost(x.kind, x.cmd)'
    <3>1. PICK j \in 1 .. Len(filling) : x = filling[j]
      BY DEF Elements
    <3> DEFINE item == [chunks |-> filling, lost |-> TRUE]
               Item == [chunks : Seq(Chunk), lost : BOOLEAN]
    <3>2. filling \in Seq(Chunk)
      BY <1>2 DEF Sent
    <3>3. shipped \in Seq(Item) /\ item \in Item
      BY <3>2 DEF IInv, BufferType
    <3>4. shipped' = Append(shipped, item)
      BY <2>3
    <3>5. item.lost /\ item.chunks = filling
      OBVIOUS
    <3> HIDE DEF item, Item
    <3>6. /\ Len(shipped') = Len(shipped) + 1
          /\ shipped'[Len(shipped) + 1] = item /\ Len(shipped) \in Nat
      BY <3>3, <3>4
    <3>7. Len(shipped) + 1 \in 1 .. Len(shipped')
      BY <3>6
    <3> QED
      BY <3>1, <3>5, <3>6, <3>7 DEF Lost
  <2> QED
    BY <1>6, <2>2, <2>4
<1> QED
  BY <1>7, <1>8

LEMMA FetchLine ==
  ASSUME IInv, Line, FetchReport
  PROVE  Line' /\ Way' = Way
<1>1. ring \in Seq(Seq(Sent)) /\ ring # <<>>
  BY DEF IInv, BufferType, FetchReport
<1>2. /\ report = <<>> /\ report' = ring[1] /\ 1 \in 1 .. Len(ring)
      /\ Len(ring') = Len(ring) - 1
      /\ \A k \in 1 .. Len(ring') : /\ ring'[k] = ring[k + 1]
                                    /\ k + 1 \in 1 .. Len(ring) /\ 1 < k + 1
      /\ \A k \in 1 .. Len(ring) : k = 1 \/ k - 1 \in 1 .. Len(ring')
      /\ UNCHANGED <<filling, tail>>
  BY <1>1 DEF FetchReport, teensy
<1>3. \A k, l \in 1 .. Len(ring') : k < l => k + 1 < l + 1
  BY <1>1, <1>2
<1>4. Line'
  BY <1>2, <1>3 DEF Line
<1>5. Elements(report) = {}
  BY <1>2 DEF Elements
<1>6. UNION {Elements(ring[k]) : k \in 1 .. Len(ring)}
        = Elements(report')
          \cup UNION {Elements(ring'[k]) : k \in 1 .. Len(ring')}
  <2>1. \A k \in 1 .. Len(ring) :
          k = 1 \/ (k - 1 \in 1 .. Len(ring') /\ ring'[k - 1] = ring[k])
    BY <1>1, <1>2
  <2> QED
    BY <1>2, <2>1
<1> QED
  BY <1>2, <1>4, <1>5, <1>6 DEF Way

\* What input_packet takes from a report comes before the rest, and so does
\* what it leaves.
LEMMA TakeLine ==
  ASSUME IInv, Line, report # <<>>, UNCHANGED <<filling, ring, tail>>,
         report' = Tail(report) \/ report' = <<>>, NEW h, h = Head(report)
  PROVE  /\ Line' /\ Way' \subseteq Way /\ h \in Way
         /\ \A y \in Way : y = h \/ Later(h.cmd, Num(h), y)
         /\ \A y \in Way' : Later(h.cmd, Num(h), y)
         /\ \A x \in Way : x \in Way'
                           \/ \A y \in Way' : Later(x.cmd, Num(x), y)
         /\ report' = Tail(report) \/ h.kind = "start" => Way = Way' \cup {h}
<1>1. report \in Seq(Sent) /\ h = report[1] /\ Len(report) \in Nat
      /\ 1 \in 1 .. Len(report)
  BY DEF IInv, InputType
<1>2. \A i \in 1 .. Len(report') : /\ report'[i] = report[i + 1]
                                   /\ i + 1 \in 1 .. Len(report) /\ 1 < i + 1
  <2>1. CASE report' = Tail(report)
    BY <1>1, <2>1
  <2>2. CASE report' = <<>>
    BY <2>2
  <2> QED
    BY <2>1, <2>2
<1>3. /\ \A i, j \in 1 .. Len(report') : i < j => i + 1 < j + 1
      /\ \A i \in 1 .. Len(report') : i + 1 = Len(report) => i = Len(report')
  <2>1. CASE report' = Tail(report)
    BY <1>1, <2>1
  <2>2. CASE report' = <<>>
    BY <2>2
  <2> QED
    BY <2>1, <2>2
<1>4. Line'
  <2>1. InLine(report')
    BY <1>2, <1>3 DEF Line, InLine, Rising, StartLast
  <2>2. Leads(report', filling) /\ \A k \in 1 .. Len(ring) : Leads(report', ring[k])
    BY <1>2 DEF Line, Leads
  <2> QED
    BY <2>1, <2>2 DEF Line
<1>5. Way' \subseteq Way /\ h \in Way
  <2>1. Elements(report') \subseteq Elements(report)
    BY <1>2 DEF Elements
  <2> QED
    BY <1>1, <2>1, WayMembers DEF Way
<1>6. \A y \in Way : y = h \/ Later(h.cmd, Num(h), y)
  BY HeadFirst
<1>7. ASSUME NEW i \in 1 .. Len(report), NEW y \in Way',
             \A j \in 1 .. Len(report') : i < j + 1
      PROVE  Later(report[i].cmd, Num(report[i]), y)
  <2>1. CASE \E k \in 1 .. Len(filling) : y = filling[k]
    BY <2>1 DEF Line, Leads
  <2>2. CASE \E k \in 1 .. Len(ring) : \E m \in 1 .. Len(ring[k]) :
               y = ring[k][m]
    BY <2>2 DEF Line, Leads
  <2>3. CASE \E j \in 1 .. Len(report') : y = report'[j]
    <3>1. PICK j \in 1 .. Len(report') : y = report'[j]
      BY <2>3
    <3>2. y = report[j + 1] /\ j + 1 \in 1 .. Len(report) /\ i < j + 1
      BY <1>2, <1>7, <3>1
    <3> QED
      BY <3>2 DEF Line, InLine, Rising
  <2> QED
    BY <2>1, <2>2, <2>3 DEF Way, Elements
<1>9. \A y \in Way' : Later(h.cmd, Num(h), y)
  <2>1. \A j \in 1 .. Len(report') : 1 < j + 1
    BY <1>2
  <2> QED
    BY <1>1, <1>7, <2>1
<1>10. ASSUME NEW x \in Way
       PROVE  x \in Way' \/ \A y \in Way' : Later(x.cmd, Num(x), y)
  <2>1. CASE \E i \in 1 .. Len(report) : x = report[i]
    <3>1. PICK i \in 1 .. Len(report) : x = report[i]
      BY <2>1
    <3>2. CASE report' = <<>>
      <4>1. \A j \in 1 .. Len(report') : i < j + 1
        BY <3>2
      <4> QED
        BY <1>7, <3>1, <4>1
    <3>3. CASE report' = Tail(report)
      <4>1. CASE i = 1
        BY <1>1, <1>9, <3>1, <4>1
      <4>2. CASE i # 1
        <5>1. i - 1 \in 1 .. Len(report') /\ report'[i - 1] = report[i]
          BY <1>1, <3>3, <4>2
        <5> QED
          BY <3>1, <5>1 DEF Way, Elements
      <4> QED
        BY <4>1, <4>2
    <3> QED
      BY <3>2, <3>3
  <2>2. CASE ~ \E i \in 1 .. Len(report) : x = report[i]
    BY <2>2 DEF Way, Elements
  <2> QED
    BY <2>1, <2>2
<1>11. ASSUME report' = Tail(report) \/ h.kind = "start"
       PROVE  Way = Way' \cup {h}
  <2>1. Elements(report) = Elements(report') \cup {h}
    <3>1. ASSUME NEW i \in 1 .. Len(report)
          PROVE  report[i] = h \/ \E j \in 1 .. Len(report') :
                                    report'[j] = report[i]
      <4>1. CASE report' = Tail(report)
        <5>1. i = 1 \/ (i - 1 \in 1 .. Len(report')
                        /\ report'[i - 1] = report[i])
          BY <1>1, <4>1
        <5> QED
          BY <1>1, <5>1
      <4>2. CASE h.kind = "start"
        BY <1>1, <4>2 DEF Line, InLine, StartLast
      <4> QED
        BY <1>11, <4>1, <4>2
    <3>2. \A j \in 1 .. Len(report') : \E i \in 1 .. Len(report) :
            report'[j] = report[i]
      BY <1>2
    <3> QED
      BY <1>1, <3>1, <3>2 DEF Elements
  <2> QED
    BY <2>1 DEF Way
<1> QED
  BY <1>4, <1>5, <1>6, <1>9, <1>10, <1>11

\* What was shipped stays as it was.
LEMMA ShippedGrows ==
  ASSUME IInv, Ship \/ UNCHANGED shipped, NEW i \in 1 .. Len(shipped)
  PROVE  i \in 1 .. Len(shipped') /\ shipped'[i] = shipped[i]
<1>1. CASE UNCHANGED shipped
  BY <1>1
<1>2. CASE Ship
  <2> DEFINE Item == [chunks : Seq(Chunk), lost : BOOLEAN]
  <2>1. filling \in Seq(Chunk)
    BY DEF IInv, TeensyType, Sent
  <2>2. PICK l \in BOOLEAN :
          shipped' = Append(shipped, [chunks |-> filling, lost |-> l])
    BY <1>2 DEF Ship
  <2>3. [chunks |-> filling, lost |-> l] \in Item /\ shipped \in Seq(Item)
    BY <2>1 DEF IInv, BufferType
  <2> HIDE DEF Item
  <2>4. /\ \A j \in 1 .. Len(shipped) : shipped'[j] = shipped[j]
        /\ Len(shipped') = Len(shipped) + 1 /\ Len(shipped) \in Nat
    BY <2>2, <2>3
  <2> QED
    BY <2>4
<1> QED
  BY <1>1, <1>2

-----------------------------------------------------------------------------
\* What was lost stays lost.
LEMMA LostStays ==
  ASSUME IInv, Ship \/ UNCHANGED shipped, NEW kind, NEW c, Lost(kind, c)
  PROVE  Lost(kind, c)'
  BY ShippedGrows DEF Lost

\* What a step of the Teensy or of a report on its way leaves as it was for
\* every command it had begun.
Keeps ==
  /\ next <= next'
  /\ Ship \/ UNCHANGED shipped
  /\ \A c \in Command : HasStart(c) => HasStart(c)'
  /\ \A c \in Command :
       c < next =>
         /\ Gone(c) => Gone(c)'
         /\ \A n \in Nat :
              /\ BeforeTail(c, n) => BeforeTail(c, n)'
              /\ Behind(c, n) => Behind(c, n)'
              /\ \A e \in Nat :
                   BeforeTail(c, n) /\ GoesOn(c, n, e) => GoesOn(c, n, e)'
  /\ \A c \in Command : \A i, b \in Nat :
       Comes(c, i, b)' => HasStart(c)' \/ \E j, a \in Nat : Comes(c, j, a)

\* The Teensy adds a chunk, and what comes now came before or comes behind it.
Adds ==
  \E x \in Sent :
    /\ filling' = Append(filling, x) /\ Way' = Way \cup {x}
    /\ x.kind = "fragment" => filling = <<>> /\ End(x) <= Length[x.cmd]
    /\ \/ next' = next
       \/ next' = next + 1 /\ x.kind # "fragment" /\ x.cmd = next
    /\ \A c \in Command : \A i, b \in Nat :
         Comes(c, i, b)' =>
           \/ Comes(c, i, b)
           \/ x.kind # "whole" /\ x.cmd = c /\ Num(x) = i - 1

LEMMA CommandsComing ==
  ASSUME IInv, WayInv, NEW c \in Command, NEW i \in Nat, NEW b \in Nat,
         Comes(c, i, b)
  PROVE  c < next
  BY DEF WayInv, Comes

LEMMA EndType ==
  ASSUME IInv, WayInv, NEW x \in Way, x.kind # "whole"
  PROVE  End(x) \in Nat
<1>1. x.kind = "fragment" => x.n >= 1 /\ x.from \in Nat /\ x.n \in Nat
  BY WayTypes DEF WayInv
<1>2. x.kind # "fragment" => x.n \in Nat
  BY WayTypes
<1> QED
  BY <1>1, <1>2 DEF End

LEMMA KeepWay ==
  ASSUME IInv, IInv', WayInv, Keeps, tail' # NoTail => tail'.cmd < next',
         \A x \in Way' :
           \/ x \in Way
           \/ /\ x.cmd < next' /\ (x.kind = "fragment" => x.n >= 1)
              /\ BeforeTail(x.cmd, Num(x))'
              /\ x.kind # "whole" => GoesOn(x.cmd, Num(x), End(x))'
  PROVE  WayInv'
<1>0. next \in Int /\ next' \in Int
  BY InputAssumption DEF IInv, TeensyType, InputAssumption
<1>1. ASSUME NEW x \in Way
      PROVE  /\ x.cmd < next' /\ (x.kind = "fragment" => x.n >= 1)
             /\ BeforeTail(x.cmd, Num(x))'
             /\ x.kind # "whole" => GoesOn(x.cmd, Num(x), End(x))'
  <2>1. /\ x.cmd \in Command /\ x.cmd \in Int /\ Num(x) \in Nat
        /\ x.kind # "whole" => End(x) \in Nat
    BY WayTypes, EndType
  <2>2. /\ x.cmd < next /\ (x.kind = "fragment" => x.n >= 1)
        /\ BeforeTail(x.cmd, Num(x))
        /\ x.kind # "whole" => GoesOn(x.cmd, Num(x), End(x))
    BY DEF WayInv
  <2>3. x.cmd < next'
    BY <1>0, <2>1, <2>2 DEF Keeps
  <2>4. BeforeTail(x.cmd, Num(x))'
        /\ (x.kind # "whole" => GoesOn(x.cmd, Num(x), End(x))')
    <3> DEFINE c == x.cmd  n == Num(x)  e == End(x)
    <3>1. c \in Command /\ n \in Nat /\ c < next /\ BeforeTail(c, n)
          /\ (x.kind # "whole" => e \in Nat /\ GoesOn(c, n, e))
      BY <2>1, <2>2
    <3> HIDE DEF c, n, e
    <3>2. BeforeTail(c, n)' /\ (x.kind # "whole" => GoesOn(c, n, e)')
      BY <3>1 DEF Keeps
    <3> QED
      BY <3>2 DEF c, n, e
  <2> QED
    BY <2>2, <2>3, <2>4
<1>2. ASSUME NEW c \in Command, NEW i \in Nat, NEW b \in Nat, Comes(c, i, b)'
      PROVE  HasStart(c)' \/ Gone(c)'
  <2>1. CASE \E j, a \in Nat : Comes(c, j, a)
    <3>1. c < next /\ (HasStart(c) \/ Gone(c))
      BY <2>1, CommandsComing DEF WayInv
    <3> QED
      BY <3>1 DEF Keeps
  <2> QED
    BY <1>2, <2>1 DEF Keeps
<1> QED
  BY <1>1, <1>2 DEF WayInv

LEMMA MadeStays ==
  ASSUME IInv, Ship \/ UNCHANGED shipped, NEW d, Made(d)
  PROVE  Made(d)'
  BY LostStays DEF Made, JoinedAt, SplicedAt

\* The last byte collected.
LEMMA LastByte ==
  ASSUME IInv, expect # 0
  PROVE  /\ buffer # <<>> /\ Len(buffer) \in Nat /\ Len(buffer) >= 1
         /\ buffer[Len(buffer)] \in Byte /\ buffer[1] \in Byte
         /\ expect - 1 \in Nat
  BY DEF IInv, InputType, AccountsForBytes

LEMMA KeepBuffer ==
  ASSUME IInv, IInv', WayInv, BufferInv, DecodedInv, Keeps,
         UNCHANGED <<assembly, decoded>>
  PROVE  BufferInv' /\ DecodedInv'
<1>1. DecodedInv'
  BY MadeStays DEF DecodedInv, Keeps
<1>2. ASSUME expect # 0
      PROVE  Made(buffer)' /\ Collected(buffer[1][1], buffer[Len(buffer)][1],
                                        buffer[Len(buffer)][2])'
  <2>1. PICK f \in Int, l \in Command, p \in Nat :
          /\ f = buffer[1][1] /\ l = buffer[Len(buffer)][1]
          /\ p = buffer[Len(buffer)][2] /\ l \in Int /\ expect - 1 \in Nat
    BY <1>2, LastByte, CommandNumbers DEF Byte
  <2>2. Made(buffer) /\ Collected(f, l, p)
    BY <1>2, <2>1 DEF BufferInv
  <2>3. UNCHANGED <<buffer, expect>>
    BY DEF assembly
  <2>4. Made(buffer)'
    BY <2>2, <2>3, MadeStays DEF Keeps, Made, JoinedAt, SplicedAt
  <2>5. Collected(f, l, p)'
    <3>1. next \in Int /\ next' \in Int
      BY InputAssumption DEF IInv, TeensyType, InputAssumption
    <3>2. l < next' /\ f <= l /\ l < next
      BY <2>1, <2>2, <3>1 DEF Keeps, Collected
    <3>3. PICK n \in Nat : n = expect - 1
      BY <2>1
    <3>4. Behind(l, n) /\ GoesOn(l, n, p) /\ BeforeTail(l, n)
      BY <2>2, <3>3 DEF Collected, Behind
    <3>5. Behind(l, n)' /\ GoesOn(l, n, p)'
      BY <2>1, <3>2, <3>4 DEF Keeps
    <3>6. ASSUME NEW c \in Command, NEW i \in Nat, NEW b \in Nat,
                 l < c, Comes(c, i, b)'
          PROVE  HasStart(c)'
      BY <2>2, <3>6 DEF Keeps, Collected
    <3>7. f # l => Lost("fragment", f)'
      BY <2>2, LostStays DEF Keeps, Collected
    <3> QED
      BY <2>2, <2>3, <3>2, <3>3, <3>5, <3>6, <3>7 DEF Collected
  <2> QED
    BY <2>1, <2>3, <2>4, <2>5
<1> QED
  BY <1>1, <1>2 DEF BufferInv, assembly

-----------------------------------------------------------------------------
\* A command begins: behind all that comes, and with its rest in the tail.
LEMMA PutBegin ==
  ASSUME IInv, IInv', Line, WayInv, tail = NoTail, next \in Command,
         next' = next + 1, NEW x \in Sent, filling' = Append(filling, x),
         UNCHANGED <<ring, report, shipped>>, x.cmd = next,
         \/ x.kind = "whole" /\ tail' = NoTail
         \/ /\ x.kind = "start" /\ tail' # NoTail
            /\ tail'.cmd = next /\ tail'.id = 1 /\ tail'.from = x.n + 1
  PROVE  Line' /\ Keeps /\ WayInv' /\ Adds
<1>1. next \in Int /\ Num(x) = 0 /\ x.kind # "fragment"
  BY CommandNumbers DEF Num
<1>2. \A y \in Way : y.cmd < next /\ y.cmd \in Int
  BY WayTypes DEF WayInv
<1>3. Line' /\ Way' = Way \cup {x}
  <2>1. \A y \in Way : Later(y.cmd, Num(y), x)
    BY <1>2 DEF Later
  <2>2. \A i \in 1 .. Len(filling) : filling[i].kind # "start"
    BY DEF Line
  <2> QED
    BY <2>1, <2>2, PutLine
<1>4. \A c \in Command : \A i, b \in Nat :
        c # next => (Comes(c, i, b)' <=> Comes(c, i, b))
  BY <1>1, <1>3 DEF Comes
<1>5. \A c \in Command : c < next => c # next /\ c \in Int
  BY <1>1, CommandNumbers
<1>6. \A kind, c : Lost(kind, c) => Lost(kind, c)'
  BY DEF Lost
<1>7. \A kind, c : Lost(kind, c)' => Lost(kind, c)
  BY DEF Lost
<1>8. Keeps
  <2>1. ASSUME NEW c \in Command, HasStart(c)
        PROVE  HasStart(c)'
    BY <1>3, <1>6, <2>1 DEF HasStart, StartComes
  <2>2. ASSUME NEW c \in Command, c < next
        PROVE  /\ Gone(c) => Gone(c)'
               /\ \A n \in Nat : /\ BeforeTail(c, n)'
                                 /\ Behind(c, n) => Behind(c, n)'
    <3>1. \A n \in Nat : BeforeTail(c, n)'
      BY <2>2 DEF BeforeTail
    <3>2. \A n \in Nat : Later(c, n, x)
      BY <2>2 DEF Later
    <3> QED
      BY <1>3, <2>2, <3>1, <3>2 DEF Gone, Behind
  <2>3. ASSUME NEW c \in Command, c < next, NEW n \in Nat, NEW e \in Nat,
               GoesOn(c, n, e)
        PROVE  GoesOn(c, n, e)'
    <3>1. \A b \in Nat : Comes(c, n + 1, b)' <=> Comes(c, n + 1, b)
      BY <1>4, <1>5, <2>3
    <3> QED
      BY <1>6, <2>3, <3>1 DEF GoesOn
  <2>4. ASSUME NEW c \in Command, NEW i \in Nat, NEW b \in Nat, Comes(c, i, b)'
        PROVE  HasStart(c)' \/ \E j, a \in Nat : Comes(c, j, a)
    <3>1. CASE c = next /\ x.kind = "start"
      BY <1>3, <3>1 DEF HasStart, StartComes
    <3>2. CASE c = next /\ x.kind = "whole"
      BY <1>1, <1>2, <1>3, <2>4, <3>2 DEF Comes
    <3>3. CASE c # next
      BY <1>4, <2>4, <3>3
    <3> QED
      BY <3>1, <3>2, <3>3
  <2>5. next <= next'
    BY <1>1
  <2> QED
    BY <2>1, <2>2, <2>3, <2>4, <2>5 DEF Keeps
<1>9. /\ x.cmd < next' /\ BeforeTail(x.cmd, Num(x))'
      /\ x.kind # "whole" => GoesOn(x.cmd, Num(x), End(x))'
  <2>1. x.cmd < next'
    BY <1>1
  <2>2. BeforeTail(x.cmd, Num(x))'
    BY <1>1 DEF BeforeTail
  <2>3. ASSUME x.kind = "start"
        PROVE  GoesOn(x.cmd, 0, x.n)'
    <3>1. x.n \in Nat
      BY <2>3 DEF Sent, Chunk
    <3>2. ASSUME NEW b \in Nat, Comes(x.cmd, 0 + 1, b)'
          PROVE  b = x.n + 1
      BY <1>1, <1>2, <1>3, <3>2 DEF Comes
    <3>3. Comes(x.cmd, 0 + 1, x.n + 1)'
      BY <2>3 DEF Comes
    <3> QED
      BY <3>2, <3>3 DEF GoesOn
  <2> QED
    BY <1>1, <2>1, <2>2, <2>3 DEF End
<1>10. tail' # NoTail => tail'.cmd < next'
  BY <1>1
<1>11. WayInv'
  BY <1>1, <1>3, <1>8, <1>9, <1>10, KeepWay
<1>12. Adds
  <2>1. ASSUME NEW c \in Command, NEW i \in Nat, NEW b \in Nat, Comes(c, i, b)'
        PROVE  \/ Comes(c, i, b)
               \/ x.kind # "whole" /\ x.cmd = c /\ Num(x) = i - 1
    <3>1. CASE c # next
      BY <1>4, <2>1, <3>1
    <3>2. CASE c = next
      <4>1. tail' # NoTail /\ tail'.id = i
        BY <1>1, <1>2, <1>3, <2>1, <3>2 DEF Comes
      <4>2. i - 1 = 0
        BY <4>1
      <4> QED
        BY <1>1, <3>2, <4>1, <4>2
    <3> QED
      BY <3>1, <3>2
  <2> QED
    BY <1>1, <1>3, <2>1 DEF Adds
<1> QED
  BY <1>3, <1>8, <1>11, <1>12

LEMMA PutWholeWay ==
  ASSUME IInv, IInv', Line, WayInv, PutWhole
  PROVE  Line' /\ Keeps /\ WayInv' /\ Adds
<1> DEFINE x == [kind |-> "whole", cmd |-> next]
<1>1. next \in Command
  BY InputAssumption
     DEF InputAssumption, IInv, TeensyType, PutWhole, Command
<1>2. x \in Sent /\ x.kind = "whole" /\ x.cmd = next
  BY <1>1 DEF Sent, Chunk
<1>3. /\ filling' = Append(filling, x) /\ tail = NoTail /\ tail' = NoTail
      /\ next' = next + 1 /\ UNCHANGED <<ring, report, shipped>>
  BY DEF PutWhole
<1> HIDE DEF x
<1> QED
  BY <1>1, <1>2, <1>3, PutBegin

LEMMA PutStartWay ==
  ASSUME IInv, IInv', Line, WayInv, PutStart
  PROVE  Line' /\ Keeps /\ WayInv' /\ Adds
<1> DEFINE x == [kind |-> "start", cmd |-> next, n |-> room]
<1>1. next \in Command /\ Length[next] \in Nat /\ room \in Nat
      /\ room >= 2 /\ room < Length[next]
  BY InputAssumption
     DEF InputAssumption, IInv, TeensyType, PutStart, Command
<1>2. x \in Sent /\ x.kind = "start" /\ x.cmd = next /\ x.n = room
  BY <1>1 DEF Sent, Chunk
<1>3. /\ filling' = Append(filling, x) /\ tail = NoTail
      /\ tail' = [cmd |-> next, from |-> room + 1, id |-> 1]
      /\ next' = next + 1 /\ UNCHANGED <<ring, report, shipped>>
  BY DEF PutStart
<1>4. tail'.cmd = next /\ tail'.id = 1 /\ tail'.from = x.n + 1
  BY <1>2, <1>3
<1>5. tail' # NoTail
  BY <1>1, <1>3, InputAssumption DEF InputAssumption
<1> HIDE DEF x
<1> QED
  BY <1>1, <1>2, <1>3, <1>4, <1>5, PutBegin

\* A fragment goes on where the part before it ends, and leaves the rest.
LEMMA PutFragmentWay ==
  ASSUME IInv, IInv', Line, WayInv, PutFragment
  PROVE  Line' /\ Keeps /\ WayInv' /\ Adds
<1> DEFINE left == Length[tail.cmd] - tail.from + 1
           m == IF left < PacketBytes - 3 THEN left ELSE PacketBytes - 3
           new == [kind |-> "fragment", cmd |-> tail.cmd, id |-> tail.id,
                   from |-> tail.from, n |-> m]
<1>1. /\ tail \in [cmd : Command, from : Nat, id : Nat] /\ tail # NoTail
      /\ tail.cmd \in Command /\ tail.cmd \in Int
      /\ tail.from \in Nat /\ tail.id \in Nat
      /\ tail.id >= 1 /\ tail.from <= Length[tail.cmd]
      /\ Length[tail.cmd] \in Nat
  BY InputAssumption, CommandNumbers
     DEF InputAssumption, PutFragment, IInv, TeensyType, TailOK
<1>2. m \in Nat /\ m >= 1 /\ (m = left \/ tail.from + m - 1 < Length[tail.cmd])
  BY <1>1, InputAssumption DEF InputAssumption
<1>2a. m = left => tail.from + m - 1 = Length[tail.cmd]
  BY <1>1
<1> HIDE DEF m, left
<1>3. PICK x \in Sent :
        /\ x = new /\ x.kind = "fragment" /\ x.cmd = tail.cmd /\ x.id = tail.id
        /\ x.from = tail.from /\ x.n = m
  <2>1. /\ new.kind = "fragment" /\ new.cmd = tail.cmd /\ new.id = tail.id
        /\ new.from = tail.from /\ new.n = m
    OBVIOUS
  <2>2. new \in Chunk
    BY <1>1, <1>2 DEF Chunk
  <2>3. new \in Sent
    BY <1>1, <2>1, <2>2 DEF Sent
  <2> HIDE DEF new
  <2> QED
    BY <2>1, <2>3
<1> HIDE DEF new
<1>4. /\ filling = <<>> /\ filling' = <<x>>
      /\ UNCHANGED <<next, ring, report, shipped>>
      /\ tail' = IF m = left THEN NoTail
                 ELSE [tail EXCEPT !.from = @ + m, !.id = @ + 1]
  BY <1>3 DEF PutFragment, m, left, new
<1>5. \/ m = left /\ tail' = NoTail
      \/ /\ m # left /\ tail' # NoTail /\ tail'.cmd = x.cmd
         /\ tail'.id = x.id + 1 /\ tail'.from = x.from + m
  <2>1. CASE m = left
    BY <1>4, <2>1
  <2>2. CASE m # left
    <3>1. tail' = [tail EXCEPT !.from = @ + m, !.id = @ + 1]
      BY <1>4, <2>2
    <3>2. tail' = [cmd |-> tail.cmd, from |-> tail.from + m, id |-> tail.id + 1]
      BY <1>1, <3>1
    <3>3. tail' # NoTail
      BY <1>1, <1>2, <3>2, InputAssumption DEF InputAssumption
    <3> QED
      BY <1>3, <2>2, <3>2, <3>3
  <2> QED
    BY <2>1, <2>2
<1>6. tail' # NoTail \/ x.from + x.n - 1 = Length[x.cmd]
  BY <1>3, <1>5, <1>2a
<1>8. /\ x.cmd \in Command /\ x.cmd \in Int /\ x.id \in Nat /\ x.id >= 1
      /\ x.from \in Nat /\ Length[x.cmd] \in Nat /\ Num(x) = x.id
      /\ x.n \in Nat /\ x.n >= 1 /\ End(x) = x.from + x.n - 1
  BY <1>1, <1>2, <1>3 DEF Num, End
<1>9. ASSUME NEW y \in Way
      PROVE  /\ y.cmd < next /\ y.cmd \in Int /\ Num(y) \in Nat
             /\ y.kind = "fragment" => Num(y) = y.id
             /\ y.cmd < x.cmd \/ (y.cmd = x.cmd /\ Num(y) < x.id)
  <2>1. y.kind = "fragment" => Num(y) = y.id
    BY DEF Num
  <2> QED
    BY <1>1, <1>3, <2>1, WayTypes DEF WayInv, BeforeTail
<1>10. Line' /\ Way' = Way \cup {x}
  <2>1. \A y \in Way : Later(y.cmd, Num(y), x)
    BY <1>8, <1>9 DEF Later
  <2>2. \A i \in 1 .. Len(filling) : filling[i].kind # "start"
    BY <1>4
  <2>3. filling' = Append(filling, x) /\ x.kind # "start"
    BY <1>3, <1>4
  <2> QED
    BY <1>4, <2>1, <2>2, <2>3, PutLine
<1>11. x.cmd < next
  BY <1>1, <1>3 DEF WayInv
<1>12. ASSUME NEW c \in Command, NEW n \in Nat, BeforeTail(c, n)
       PROVE  /\ Later(c, n, x) /\ BeforeTail(c, n)'
              /\ c # x.cmd \/ n + 1 # x.id + 1
  <2>1. c < x.cmd \/ (c = x.cmd /\ n < x.id)
    BY <1>1, <1>3, <1>12 DEF BeforeTail
  <2>2. n < x.id => n < x.id + 1 /\ n + 1 # x.id + 1
    BY <1>8
  <2>3. c \in Int
    BY CommandNumbers
  <2> QED
    BY <1>5, <1>8, <2>1, <2>2, <2>3 DEF Later, BeforeTail
<1>13. \A kind, c : Lost(kind, c) <=> Lost(kind, c)'
  BY <1>4 DEF Lost
<1>14. ASSUME NEW c \in Command, NEW i \in Nat, NEW b \in Nat, Comes(c, i, b)
       PROVE  Comes(c, i, b)'
  <2>1. CASE \E y \in Way : /\ y.kind = "fragment" /\ y.cmd = c /\ y.id = i
                            /\ y.from = b
    BY <1>10, <2>1 DEF Comes
  <2>2. CASE tail.cmd = c /\ tail.id = i /\ tail.from = b
    BY <1>3, <1>10, <2>2 DEF Comes
  <2> QED
    BY <1>14, <2>1, <2>2 DEF Comes
<1>15. ASSUME NEW c \in Command, NEW i \in Nat, NEW b \in Nat, Comes(c, i, b)'
       PROVE  \/ Comes(c, i, b)
              \/ /\ c = x.cmd /\ i = x.id + 1 /\ b = x.from + x.n
                 /\ tail' # NoTail
  <2>1. CASE \E y \in Way' : /\ y.kind = "fragment" /\ y.cmd = c /\ y.id = i
                             /\ y.from = b
    BY <1>1, <1>3, <1>10, <2>1 DEF Comes
  <2>2. CASE tail' # NoTail /\ tail'.cmd = c /\ tail'.id = i /\ tail'.from = b
    BY <1>3, <1>5, <2>2
  <2> QED
    BY <1>15, <2>1, <2>2 DEF Comes
<1>16. Keeps
  <2>1. ASSUME NEW c \in Command, HasStart(c)
        PROVE  HasStart(c)'
    BY <1>10, <1>13, <2>1 DEF HasStart, StartComes
  <2>2. ASSUME NEW c \in Command, c < next
        PROVE  /\ Gone(c) => Gone(c)'
               /\ \A n \in Nat : /\ BeforeTail(c, n) => BeforeTail(c, n)'
                                 /\ Behind(c, n) => Behind(c, n)'
    BY <1>3, <1>10, <1>12 DEF Gone, Behind
  <2>3. ASSUME NEW c \in Command, NEW n \in Nat, NEW e \in Nat,
               BeforeTail(c, n), GoesOn(c, n, e)
        PROVE  GoesOn(c, n, e)'
    <3>1. \A b \in Nat : Comes(c, n + 1, b)' => b = e + 1
      BY <1>12, <1>15, <2>3 DEF GoesOn
    <3>2. e < Length[c] => Lost("fragment", c)' \/ Comes(c, n + 1, e + 1)'
      BY <1>13, <1>14, <2>3 DEF GoesOn
    <3> QED
      BY <3>1, <3>2 DEF GoesOn
  <2>4. ASSUME NEW c \in Command, NEW i \in Nat, NEW b \in Nat, Comes(c, i, b)'
        PROVE  \E j, a \in Nat : Comes(c, j, a)
    <3>1. Comes(x.cmd, x.id, x.from)
      BY <1>1, <1>3 DEF Comes
    <3> QED
      BY <1>8, <1>15, <2>4, <3>1
  <2>5. next <= next'
    BY <1>4, InputAssumption DEF IInv, TeensyType, InputAssumption
  <2> QED
    BY <1>4, <2>1, <2>2, <2>3, <2>4, <2>5 DEF Keeps
<1>17. GoesOn(x.cmd, Num(x), End(x))'
  <2>1. ASSUME NEW b \in Nat, Comes(x.cmd, x.id + 1, b)'
        PROVE  b = x.from + x.n
    <3>1. ~Comes(x.cmd, x.id + 1, b)
      <4>1. ASSUME NEW y \in Way, y.kind = "fragment", y.cmd = x.cmd,
                   y.id = x.id + 1
            PROVE  FALSE
        BY <1>8, <1>9, <4>1
      <4> QED
        BY <1>3, <1>8, <4>1 DEF Comes
    <3> QED
      BY <1>8, <1>15, <2>1, <3>1
  <2>2. ASSUME x.from + x.n - 1 < Length[x.cmd]
        PROVE  Comes(x.cmd, x.id + 1, x.from + x.n)'
    <3>1. tail' # NoTail /\ tail'.cmd = x.cmd
          /\ tail'.id = x.id + 1 /\ tail'.from = x.from + x.n
      BY <1>3, <1>5, <1>6, <1>8, <2>2
    <3> QED
      BY <3>1 DEF Comes
  <2>3. (x.from + x.n - 1) + 1 = x.from + x.n
    BY <1>8
  <2>4. GoesOn(x.cmd, x.id, x.from + x.n - 1)'
    BY <2>1, <2>2, <2>3 DEF GoesOn
  <2> QED
    BY <1>8, <2>4
<1>18. BeforeTail(x.cmd, Num(x))'
  BY <1>5, <1>8 DEF BeforeTail
<1>19. tail' # NoTail => tail'.cmd < next'
  BY <1>4, <1>5, <1>11
<1>20. WayInv'
  BY <1>8, <1>3, <1>4, <1>10, <1>11, <1>16, <1>17, <1>18, <1>19, KeepWay
<1>21. Adds
  <2>1. End(x) <= Length[x.cmd]
    BY <1>2, <1>3, <1>8, <1>2a
  <2>2. ASSUME NEW c \in Command, NEW i \in Nat, NEW b \in Nat, Comes(c, i, b)'
        PROVE  \/ Comes(c, i, b)
               \/ x.kind # "whole" /\ x.cmd = c /\ Num(x) = i - 1
    <3>1. i = x.id + 1 => i - 1 = x.id
      BY <1>8
    <3>2. Comes(c, i, b) \/ (c = x.cmd /\ i = x.id + 1)
      BY <1>15, <2>2
    <3> QED
      BY <1>3, <1>8, <3>1, <3>2
  <2>3. filling' = Append(filling, x)
    BY <1>4
  <2> QED
    BY <1>3, <1>4, <1>10, <2>1, <2>2, <2>3 DEF Adds
<1> QED
  BY <1>10, <1>16, <1>20, <1>21

\* A report is put in the buffer or lost.
LEMMA ShipWay ==
  ASSUME IInv, IInv', Line, WayInv, Ship
  PROVE  Line' /\ Keeps /\ WayInv'
<1>1. /\ Line' /\ Way' \subseteq Way
      /\ \A x \in Way : x \in Way' \/ Lost(x.kind, x.cmd)'
  BY ShipLine
<1>2. UNCHANGED <<next, tail>>
  BY DEF Ship
<1>3. \A kind, c : Lost(kind, c) => Lost(kind, c)'
  BY LostStays
<1>4. \A c \in Command : \A i, b \in Nat :
        /\ Comes(c, i, b)' => Comes(c, i, b)
        /\ Comes(c, i, b) => Comes(c, i, b)' \/ Lost("fragment", c)'
  BY <1>1, <1>2 DEF Comes
<1>5. Keeps
  <2>1. ASSUME NEW c \in Command, HasStart(c)
        PROVE  HasStart(c)'
    BY <1>1, <1>3, <2>1 DEF HasStart, StartComes
  <2>2. ASSUME NEW c \in Command
        PROVE  /\ Gone(c) => Gone(c)'
               /\ \A n \in Nat : /\ BeforeTail(c, n) => BeforeTail(c, n)'
                                 /\ Behind(c, n) => Behind(c, n)'
    BY <1>1, <1>2 DEF Gone, Behind, BeforeTail
  <2>3. ASSUME NEW c \in Command, NEW n \in Nat, NEW e \in Nat, GoesOn(c, n, e)
        PROVE  GoesOn(c, n, e)'
    <3>1. \A b \in Nat : Comes(c, n + 1, b)' => b = e + 1
      BY <1>4, <2>3 DEF GoesOn
    <3>2. e < Length[c] => Lost("fragment", c)' \/ Comes(c, n + 1, e + 1)'
      BY <1>3, <1>4, <2>3 DEF GoesOn
    <3> QED
      BY <3>1, <3>2 DEF GoesOn
  <2>4. next <= next'
    BY <1>2, InputAssumption DEF IInv, TeensyType, InputAssumption
  <2> QED
    BY <1>4, <2>1, <2>2, <2>3, <2>4 DEF Keeps
<1>6. WayInv'
  <2>1. tail' # NoTail => tail'.cmd < next'
    BY <1>2 DEF WayInv
  <2> QED
    BY <1>1, <1>5, <2>1, KeepWay
<1> QED
  BY <1>1, <1>5, <1>6

LEMMA FetchWay ==
  ASSUME IInv, IInv', Line, WayInv, FetchReport
  PROVE  Line' /\ Keeps /\ WayInv'
<1>1. Line' /\ Way' = Way
  BY FetchLine
<1>2. UNCHANGED <<next, tail, shipped>>
  BY DEF FetchReport, teensy
<1>3. \A kind, c : Lost(kind, c)' <=> Lost(kind, c)
  BY <1>2 DEF Lost
<1>4. \A c, i, b : Comes(c, i, b)' <=> Comes(c, i, b)
  BY <1>1, <1>2 DEF Comes
<1>5. Keeps
  <2>1. \A c \in Command : HasStart(c) => HasStart(c)'
    BY <1>1, <1>3 DEF HasStart, StartComes
  <2>2. \A c \in Command : \A n \in Nat :
          /\ Gone(c) => Gone(c)'
          /\ BeforeTail(c, n) => BeforeTail(c, n)'
          /\ Behind(c, n) => Behind(c, n)'
    BY <1>1, <1>2 DEF Gone, BeforeTail, Behind
  <2>3. \A c \in Command : \A n, e \in Nat : GoesOn(c, n, e) => GoesOn(c, n, e)'
    BY <1>3, <1>4 DEF GoesOn
  <2>4. next <= next'
    BY <1>2, InputAssumption DEF IInv, TeensyType, InputAssumption
  <2> QED
    BY <1>2, <1>4, <2>1, <2>2, <2>3, <2>4 DEF Keeps
<1>6. WayInv'
  <2>1. tail' # NoTail => tail'.cmd < next'
    BY <1>2 DEF WayInv
  <2> QED
    BY <1>1, <1>5, <2>1, KeepWay
<1> QED
  BY <1>1, <1>5, <1>6

-----------------------------------------------------------------------------
\* What is taken from a report comes before the rest, and leaves the rest as
\* it was.
LEMMA TakeWay ==
  ASSUME IInv, Line, WayInv, report # <<>>, NEW h, h = Head(report),
         UNCHANGED <<teensy, ring, shipped>>,
         report' = Tail(report) \/ report' = <<>>
  PROVE  Line' /\ WayInv'
<1>1. UNCHANGED <<filling, ring, tail, next, shipped>>
  BY DEF teensy
<1>2. /\ Line' /\ Way' \subseteq Way
      /\ \A x \in Way : x \in Way' \/ \A y \in Way' : Later(x.cmd, Num(x), y)
  BY <1>1, TakeLine
<1>3. \A kind, c : Lost(kind, c)' <=> Lost(kind, c)
  BY <1>1 DEF Lost
<1>4. \A c, i, b : Comes(c, i, b)' => Comes(c, i, b)
  BY <1>1, <1>2 DEF Comes
<1>5. ASSUME NEW x \in Way', x.kind # "whole"
      PROVE  GoesOn(x.cmd, Num(x), End(x))'
  <2>1. x \in Way /\ GoesOn(x.cmd, Num(x), End(x))
    BY <1>2, <1>5 DEF WayInv
  <2>2. x.cmd \in Int /\ Num(x) \in Nat
    BY <2>1, WayTypes
  <2>3. ASSUME NEW b, Comes(x.cmd, Num(x) + 1, b)
        PROVE  Comes(x.cmd, Num(x) + 1, b)'
    <3>1. ASSUME NEW y \in Way, y.kind = "fragment", y.cmd = x.cmd,
                 y.id = Num(x) + 1
          PROVE  y \in Way'
      <4>1. Num(y) = Num(x) + 1
        BY <3>1 DEF Num
      <4>2. ~Later(y.cmd, Num(y), x)
        BY <2>2, <3>1, <4>1 DEF Later
      <4> QED
        BY <1>2, <4>2
    <3> QED
      BY <1>1, <2>3, <3>1 DEF Comes
  <2>4. \A b \in Nat : Comes(x.cmd, Num(x) + 1, b)' => b = End(x) + 1
    BY <1>4, <2>1 DEF GoesOn
  <2>5. End(x) < Length[x.cmd] =>
          Lost("fragment", x.cmd)' \/ Comes(x.cmd, Num(x) + 1, End(x) + 1)'
    BY <1>3, <2>1, <2>3 DEF GoesOn
  <2> QED
    BY <2>4, <2>5 DEF GoesOn
<1>6. ASSUME NEW c \in Command, NEW i \in Nat, NEW b \in Nat, Comes(c, i, b)'
      PROVE  HasStart(c)' \/ Gone(c)'
  <2>1. HasStart(c) \/ Gone(c)
    BY <1>4, <1>6 DEF WayInv
  <2>2. CASE Gone(c)
    BY <1>2, <2>2 DEF Gone
  <2>3. CASE Lost("start", c)
    BY <1>3, <2>3 DEF HasStart
  <2>4. CASE StartComes(c)
    <3>1. PICK y \in Way : y.kind = "start" /\ y.cmd = c
      BY <2>4 DEF StartComes
    <3>2. CASE y \in Way'
      BY <3>1, <3>2 DEF HasStart, StartComes
    <3>3. CASE \A x \in Way' : Later(c, 0, x)
      <4>1. ASSUME NEW x \in Way', x.kind # "fragment"
            PROVE  c < x.cmd
        BY <3>3, <4>1 DEF Later, Num
      <4> QED
        BY <4>1 DEF Gone
    <3> QED
      BY <1>2, <3>1, <3>2, <3>3 DEF Num
  <2> QED
    BY <2>1, <2>2, <2>3, <2>4 DEF HasStart
<1>7. \A x \in Way' : /\ x.cmd < next' /\ (x.kind = "fragment" => x.n >= 1)
                      /\ BeforeTail(x.cmd, Num(x))'
  BY <1>1, <1>2 DEF WayInv, BeforeTail
<1>8. tail' # NoTail => tail'.cmd < next'
  BY <1>1 DEF WayInv
<1>9. WayInv'
  BY <1>5, <1>6, <1>7, <1>8 DEF WayInv
<1> QED
  BY <1>2, <1>9

\* A step of input_packet loses nothing.
LEMMA LostSame ==
  ASSUME UNCHANGED shipped
  PROVE  \A kind, c : Lost(kind, c)' <=> Lost(kind, c)
  BY DEF Lost

LEMMA MadeSame ==
  ASSUME UNCHANGED shipped
  PROVE  \A d : Made(d)' <=> Made(d)
  BY LostSame DEF Made, JoinedAt, SplicedAt

LEMMA NothingMade ==
  ASSUME DecodedInv, UNCHANGED <<decoded, shipped>>
  PROVE  DecodedInv'
  BY MadeSame DEF DecodedInv

LEMMA CommandMade ==
  ASSUME IInv, DecodedInv, UNCHANGED shipped, NEW d \in Seq(Byte), Made(d),
         Len(d) = Length[d[1][1]], decoded' = Append(decoded, d)
  PROVE  DecodedInv'
<1>1. decoded \in Seq(Seq(Byte))
  BY DEF IInv, InputType
<1>2. ASSUME NEW i \in 1 .. Len(decoded')
      PROVE  \/ i \in 1 .. Len(decoded) /\ decoded'[i] = decoded[i]
             \/ decoded'[i] = d
  BY <1>1
<1>3. ASSUME NEW i \in 1 .. Len(decoded')
      PROVE  Made(decoded'[i]) /\ Len(decoded'[i]) = Length[decoded'[i][1][1]]
  BY <1>2 DEF DecodedInv
<1>4. \A i \in 1 .. Len(decoded') : Made(decoded[i])'
  <2>1. ASSUME NEW i \in 1 .. Len(decoded')
        PROVE  Made(decoded[i])'
    <3>1. PICK e : e = decoded'[i]
      OBVIOUS
    <3>2. Made(e)'
      BY <1>3, <3>1, MadeSame
    <3> QED
      BY <3>1, <3>2 DEF Made, JoinedAt, SplicedAt
  <2> QED
    BY <2>1
<1> QED
  BY <1>3, <1>4 DEF DecodedInv

\* The first bytes of a command.
LEMMA FirstBytes ==
  ASSUME NEW c \in Command, NEW n \in Nat, n >= 1
  PROVE  /\ Bytes(c, 1, n) \in Seq(Byte) /\ Len(Bytes(c, 1, n)) = n
         /\ Bytes(c, 1, n)[1] = <<c, 1>> /\ Bytes(c, 1, n)[n] = <<c, n>>
         /\ Made(Bytes(c, 1, n))
<1>1. Bytes(c, 1, n) \in Seq(Byte) /\ Len(Bytes(c, 1, n)) = n
  BY BytesType
<1>2. \A k \in 1 .. n : Bytes(c, 1, n)[k] = <<c, k>>
  BY DEF Bytes
<1> DEFINE d == Bytes(c, 1, n)
<1> HIDE DEF d
<1>3. d \in Seq(Byte) /\ Len(d) = n /\ \A k \in 1 .. n : d[k] = <<c, k>>
  BY <1>1, <1>2 DEF d
<1>4. 1 \in 1 .. n /\ n \in 1 .. n
  OBVIOUS
<1>5. d # <<>> /\ d[1][2] = 1
  BY <1>3, <1>4
<1>6. ASSUME NEW k \in 2 .. Len(d)
      PROVE  JoinedAt(d, k)
  <2>1. k \in 1 .. n /\ k - 1 \in 1 .. n /\ (k - 1) + 1 = k
    BY <1>3
  <2>2. d[k] = <<c, k>> /\ d[k - 1] = <<c, k - 1>>
    BY <1>3, <2>1
  <2> QED
    BY <2>1, <2>2 DEF JoinedAt
<1>7. Made(d)
  BY <1>5, <1>6 DEF Made
<1> QED
  BY <1>3, <1>4, <1>7 DEF d

LEMMA TakeWholeMade ==
  ASSUME IInv, DecodedInv, TakeWhole
  PROVE  BufferInv' /\ DecodedInv'
<1>1. PICK c \in Command : c = Head(report).cmd
  <2>1. Head(report) \in Sent
    BY DEF IInv, InputType, TakeWhole, NextIs
  <2> QED
    BY <2>1 DEF Sent, Chunk
<1>2. Length[c] \in Nat /\ Length[c] >= 1
  BY InputAssumption DEF InputAssumption
<1>3. /\ Whole(c) \in Seq(Byte) /\ Made(Whole(c))
      /\ Len(Whole(c)) = Length[Whole(c)[1][1]]
  BY <1>2, FirstBytes DEF Whole
<1>4. /\ decoded' = Append(decoded, Whole(c)) /\ UNCHANGED shipped
      /\ expect' = 0
  BY <1>1 DEF TakeWhole
<1>5. DecodedInv'
  BY <1>3, <1>4, CommandMade
<1> QED
  BY <1>4, <1>5 DEF BufferInv

LEMMA TakeStartMade ==
  ASSUME IInv, Line, WayInv, DecodedInv, TakeStart
  PROVE  BufferInv' /\ DecodedInv'
<1>1. PICK h : h = Head(report)
  OBVIOUS
<1>2. /\ report # <<>> /\ h.kind = "start" /\ report' = <<>>
      /\ buffer' = Bytes(h.cmd, 1, h.n) /\ expect' = 1
      /\ UNCHANGED <<filling, ring, tail, next, shipped, decoded>>
  BY <1>1 DEF TakeStart, NextIs, teensy
<1>3. /\ Way = Way' \cup {h} /\ \A y \in Way' : Later(h.cmd, Num(h), y)
  BY <1>1, <1>2, TakeLine
<1>4. /\ h.cmd \in Command /\ h.cmd \in Int /\ Num(h) = 0 /\ End(h) = h.n
      /\ h.n \in Nat /\ h.n >= 1
  BY <1>2, <1>3, WayTypes DEF Num, End
<1>5. /\ h.cmd < next /\ BeforeTail(h.cmd, 0) /\ GoesOn(h.cmd, 0, h.n)
  BY <1>2, <1>3, <1>4 DEF WayInv
<1>6. \A c, i, b : Comes(c, i, b)' <=> Comes(c, i, b)
  BY <1>2, <1>3 DEF Comes
<1>7. \A kind, c : Lost(kind, c)' <=> Lost(kind, c)
  BY <1>2, LostSame
<1>8. PICK d \in Seq(Byte) :
        /\ d = buffer' /\ Len(d) = h.n /\ d[1] = <<h.cmd, 1>>
        /\ d[h.n] = <<h.cmd, h.n>> /\ Made(d)
  BY <1>2, <1>4, FirstBytes
<1>9. Made(buffer)'
  <2>1. Made(d)'
    BY <1>2, <1>8, MadeSame
  <2> QED
    BY <1>8, <2>1 DEF Made, JoinedAt, SplicedAt
<1>10. Collected(h.cmd, h.cmd, h.n)'
  <2>1. Behind(h.cmd, 0)'
    BY <1>2, <1>3, <1>4, <1>5 DEF Behind, BeforeTail
  <2>2. GoesOn(h.cmd, 0, h.n)'
    BY <1>5, <1>6, <1>7 DEF GoesOn
  <2>3. ASSUME NEW c \in Command, NEW i \in Nat, NEW b \in Nat,
               h.cmd < c, Comes(c, i, b)'
        PROVE  HasStart(c)'
    <3>1. HasStart(c) \/ Gone(c)
      BY <1>6, <2>3 DEF WayInv
    <3>2. ~Gone(c)
      <4>1. ~(c < h.cmd)
        BY <1>4, <2>3, CommandNumbers
      <4> QED
        BY <1>2, <1>3, <4>1 DEF Gone
    <3>3. c # h.cmd
      BY <1>4, <2>3
    <3> QED
      BY <1>3, <1>7, <3>1, <3>2, <3>3 DEF HasStart, StartComes
  <2>4. expect' - 1 = 0 /\ h.cmd <= h.cmd /\ h.cmd < next' /\ h.n = Len(buffer')
    BY <1>2, <1>4, <1>5, <1>8
  <2> QED
    BY <2>1, <2>2, <2>3, <2>4 DEF Collected
<1>11. /\ buffer'[1][1] = h.cmd /\ buffer'[Len(buffer')][1] = h.cmd
       /\ buffer'[Len(buffer')][2] = h.n
  BY <1>8
<1>12. DecodedInv'
  BY <1>2, NothingMade
<1> QED
  BY <1>9, <1>10, <1>11, <1>12 DEF BufferInv

\* A fragment that is expected goes on where the last byte ends, or it is of a
\* later command and closes the gap that a loss left.
LEMMA FragmentMade ==
  ASSUME IInv, Line, WayInv, BufferInv, TakeBytes, NEW h, h = Head(report),
         NEW f, f = buffer[1][1], NEW d, d = buffer'
  PROVE  /\ Made(d) /\ d[1][1] = f /\ Len(d) \in Nat
         /\ d[Len(d)] = <<h.cmd, End(h)>>
         /\ f <= h.cmd
         /\ f = h.cmd => End(h) = Len(d)
         /\ f # h.cmd => Lost("fragment", f)
         /\ buffer[Len(buffer)][1] <= h.cmd
<1>1. /\ report # <<>> /\ h.kind = "fragment" /\ h.id = expect
      /\ d = buffer \o Bytes(h.cmd, h.from, h.n)
  BY DEF TakeBytes, NextIs, IsExpected
<1>2. h \in Way /\ \A y \in Way : y = h \/ Later(h.cmd, Num(h), y)
  BY <1>1, HeadFirst
<1>3. /\ h.cmd \in Command /\ h.cmd \in Int /\ h.id \in Nat /\ h.id >= 1
      /\ h.from \in Nat /\ h.n \in Nat /\ h.n >= 1 /\ Num(h) = h.id
      /\ BeforeTail(h.cmd, h.id) /\ End(h) = h.from + h.n - 1
  BY <1>1, <1>2, WayTypes DEF WayInv, Num, End
<1>4. expect # 0 /\ expect \in Nat
  BY <1>1, <1>3
<1>5. PICK l \in Command, p \in Nat :
        /\ l = buffer[Len(buffer)][1] /\ p = buffer[Len(buffer)][2]
        /\ buffer[Len(buffer)] = <<l, p>> /\ l \in Int /\ f \in Command
        /\ f \in Int
  BY <1>4, LastByte, CommandNumbers DEF Byte
<1>6. Made(buffer) /\ Collected(f, l, p)
  BY <1>4, <1>5 DEF BufferInv
<1>7. Comes(h.cmd, h.id, h.from) /\ expect - 1 + 1 = h.id /\ expect - 1 \in Nat
  <2>1. Comes(h.cmd, h.id, h.from)
    BY <1>1, <1>2 DEF Comes
  <2>2. expect \in Nat /\ expect >= 1
    BY <1>1, <1>3
  <2>3. expect - 1 + 1 = expect /\ expect - 1 \in Nat
    BY <2>2
  <2> QED
    BY <1>1, <2>1, <2>3
<1>8. l <= h.cmd
  <2>1. Later(l, expect - 1, h)
    BY <1>2, <1>6 DEF Collected, Behind
  <2> QED
    BY <1>3, <1>5, <2>1 DEF Later
<1>9. h.cmd = l => h.from = p + 1
  BY <1>3, <1>6, <1>7 DEF Collected, GoesOn
<1>10. f # h.cmd => Lost("fragment", f)
  <2>1. CASE f # l
    BY <1>6, <2>1 DEF Collected
  <2>2. CASE f = l /\ l # h.cmd
    <3>1. p < Length[l]
      <4>1. /\ p = Len(buffer) /\ missing > 0 /\ missing \in Int
            /\ Len(buffer) + missing = Length[f] /\ Length[f] \in Nat
        BY <1>4, <1>5, <1>6, <2>2, InputAssumption
           DEF InputAssumption, Collected, IInv, InputType, AccountsForBytes
      <4> QED
        BY <1>5, <2>2, <4>1
    <3>2. ~Comes(l, h.id, p + 1)
      <4>1. l < h.cmd
        BY <1>3, <1>5, <1>8, <2>2
      <4>2. ASSUME NEW y \in Way, y.cmd = l
            PROVE  FALSE
        BY <1>2, <1>3, <1>5, <4>1, <4>2 DEF Later
      <4>3. ~(tail # NoTail /\ tail.cmd = l)
        BY <1>3, <1>5, <4>1 DEF BeforeTail
      <4> QED
        BY <4>2, <4>3 DEF Comes
    <3> QED
      BY <1>6, <1>7, <2>2, <3>1, <3>2 DEF Collected, GoesOn
  <2> QED
    BY <2>1, <2>2
<1>11. l # h.cmd => Lost("start", h.cmd)
  <2> SUFFICES ASSUME l # h.cmd
               PROVE  Lost("start", h.cmd)
    OBVIOUS
  <2>1. l < h.cmd
    BY <1>3, <1>5, <1>8
  <2>2. HasStart(h.cmd)
    BY <1>3, <1>6, <1>7, <2>1 DEF Collected
  <2>3. ~StartComes(h.cmd)
    <3>1. ASSUME NEW y \in Way, y.kind = "start", y.cmd = h.cmd
          PROVE  FALSE
      <4>1. Num(y) = 0 /\ y # h
        BY <1>1, <3>1 DEF Num
      <4> QED
        BY <1>2, <1>3, <3>1, <4>1 DEF Later
    <3> QED
      BY <3>1 DEF StartComes
  <2> QED
    BY <2>2, <2>3 DEF HasStart
<1> DEFINE more == Bytes(h.cmd, h.from, h.n)
<1>12. /\ more \in Seq(Byte) /\ Len(more) = h.n
       /\ \A k \in 1 .. h.n : more[k] = <<h.cmd, h.from + k - 1>>
  <2>1. \A k \in 1 .. h.n : <<h.cmd, h.from + k - 1>> \in Byte
    BY <1>3 DEF Byte
  <2>2. more \in [1 .. h.n -> Byte]
    BY <2>1 DEF Bytes
  <2>3. \A k \in 1 .. h.n : more[k] = <<h.cmd, h.from + k - 1>>
    BY DEF Bytes
  <2> HIDE DEF more
  <2>4. more \in Seq(Byte) /\ Len(more) = h.n
    BY <1>3, <2>2, SeqOfFunction
  <2> QED
    BY <2>3, <2>4
<1>13. d = buffer \o more
  BY <1>1
<1> HIDE DEF more
<1> DEFINE b == Len(buffer)
<1>14. /\ b \in Nat /\ b >= 1 /\ buffer \in Seq(Byte) /\ buffer[b] = <<l, p>>
       /\ buffer[1][2] = 1 /\ buffer[1] \in Byte
  BY <1>4, <1>5, <1>6, LastByte DEF Made, IInv, InputType
<1>15. /\ Len(d) = b + h.n /\ \A k \in 1 .. b : d[k] = buffer[k]
       /\ \A k \in 1 .. h.n : d[b + k] = more[k]
  <2>1. buffer \in Seq(Byte) /\ more \in Seq(Byte)
    BY <1>12, <1>14
  <2>2. /\ Len(buffer \o more) = Len(buffer) + Len(more)
        /\ \A k \in 1 .. Len(buffer) : (buffer \o more)[k] = buffer[k]
        /\ \A k \in 1 .. Len(more) : (buffer \o more)[Len(buffer) + k] = more[k]
    BY <2>1, ConcatFacts
  <2> QED
    BY <1>12, <1>13, <2>2
<1> HIDE DEF b
<1>16. Len(d) \in Nat /\ d # <<>> /\ d[1] = buffer[1]
  <2>1. Len(d) >= 1 /\ Len(d) \in Nat /\ 1 \in 1 .. b
    BY <1>3, <1>14, <1>15
  <2> QED
    BY <1>15, <2>1
<1>17. ASSUME NEW k \in 2 .. Len(d)
       PROVE  JoinedAt(d, k) \/ SplicedAt(d, k)
  <2>1. CASE k <= b
    <3>1. k \in 2 .. b /\ k \in 1 .. b /\ k - 1 \in 1 .. b
      BY <1>14, <1>16, <2>1
    <3>2. d[k] = buffer[k] /\ d[k - 1] = buffer[k - 1]
      BY <1>15, <3>1
    <3>3. JoinedAt(buffer, k) \/ SplicedAt(buffer, k)
      BY <1>6, <3>1 DEF Made, b
    <3> QED
      BY <1>16, <3>2, <3>3 DEF JoinedAt, SplicedAt
  <2>2. CASE k = b + 1
    <3>1. d[k] = <<h.cmd, h.from>>
      <4>1. 1 \in 1 .. h.n /\ h.from + 1 - 1 = h.from
        BY <1>3
      <4> QED
        BY <1>12, <1>15, <2>2, <4>1
    <3>2. d[k - 1] = <<l, p>>
      <4>1. k - 1 = b /\ b \in 1 .. b
        BY <1>14, <2>2
      <4> QED
        BY <1>14, <1>15, <4>1
    <3>3. CASE h.cmd = l
      BY <1>9, <3>1, <3>2, <3>3 DEF JoinedAt
    <3>4. CASE h.cmd # l
      <4>1. l < h.cmd /\ Lost("start", h.cmd)
        BY <1>3, <1>5, <1>8, <1>11, <3>4
      <4>2. Lost("fragment", f)
        <5>1. f <= l
          BY <1>6 DEF Collected
        <5>2. f # h.cmd
          BY <1>3, <1>5, <4>1, <5>1
        <5> QED
          BY <1>10, <5>2
      <4>3. d[1][1] = f
        BY <1>16
      <4> QED
        BY <3>1, <3>2, <4>1, <4>2, <4>3 DEF SplicedAt
    <3> QED
      BY <3>3, <3>4
  <2>3. CASE k > b + 1
    <3>1. PICK j \in 2 .. h.n : k = b + j
      <4>1. k - b \in 2 .. h.n /\ k = b + (k - b)
        <5>1. PICK m \in Nat : m = h.n
          BY <1>3
        <5>2. k \in 2 .. b + m
          BY <1>15, <5>1
        <5>3. k - b \in 2 .. m /\ k = b + (k - b)
          BY <1>14, <2>3, <5>2
        <5> QED
          BY <5>1, <5>3
      <4> QED
        BY <4>1
    <3>2. j \in 1 .. h.n /\ j - 1 \in 1 .. h.n /\ k - 1 = b + (j - 1)
          /\ h.from + j - 1 = (h.from + (j - 1) - 1) + 1
      <4>1. PICK m \in Nat, e \in Nat : m = h.n /\ e = h.from
        BY <1>3
      <4>2. j \in 2 .. m
        BY <3>1, <4>1
      <4>3. j \in 1 .. m /\ j - 1 \in 1 .. m
        BY <4>2
      <4>4. k - 1 = b + (j - 1) /\ e + j - 1 = (e + (j - 1) - 1) + 1
        BY <1>14, <3>1, <4>2
      <4> QED
        BY <4>1, <4>3, <4>4
    <3>3. d[k] = <<h.cmd, h.from + j - 1>>
      BY <1>12, <1>15, <3>1, <3>2
    <3>4. d[k - 1] = <<h.cmd, h.from + (j - 1) - 1>>
      BY <1>12, <1>15, <3>2
    <3> QED
      BY <3>2, <3>3, <3>4 DEF JoinedAt
  <2> QED
    BY <1>14, <1>15, <1>3, <2>1, <2>2, <2>3
<1>18. Made(d)
  BY <1>14, <1>16, <1>17 DEF Made
<1>19. d[Len(d)] = <<h.cmd, End(h)>>
  <2>1. h.n \in 1 .. h.n
    BY <1>3
  <2> QED
    BY <1>3, <1>12, <1>15, <2>1
<1>20. f = h.cmd => End(h) = Len(d)
  <2> SUFFICES ASSUME f = h.cmd
               PROVE  End(h) = Len(d)
    OBVIOUS
  <2>1. f <= l
    BY <1>6 DEF Collected
  <2>2. f = l
    BY <1>3, <1>5, <1>8, <2>1
  <2>3. p = b
    BY <1>6, <2>2 DEF Collected, b
  <2> QED
    <3>1. PICK m \in Nat, e \in Nat : m = h.n /\ e = h.from
      BY <1>3
    <3>2. e = b + 1 /\ End(h) = e + m - 1 /\ Len(d) = b + m
      BY <1>3, <1>9, <1>15, <2>2, <2>3, <3>1
    <3>3. b \in Nat
      BY <1>14
    <3>4. e + m - 1 = b + m
      BY <3>2, <3>3
    <3> QED
      BY <3>2, <3>4
<1>21. f <= h.cmd
  <2>1. f <= l
    BY <1>6 DEF Collected
  <2> QED
    BY <1>3, <1>5, <1>8, <2>1
<1> QED
  BY <1>5, <1>8, <1>10, <1>16, <1>18, <1>19, <1>20, <1>21

LEMMA CompleteMade ==
  ASSUME IInv, Line, WayInv, BufferInv, DecodedInv, CompleteCommand
  PROVE  BufferInv' /\ DecodedInv'
<1>1. TakeBytes /\ UNCHANGED shipped
  BY DEF CompleteCommand, TakeBytes
<1>2. /\ buffer' \in Seq(Byte) /\ Len(buffer') + missing' = Length[buffer'[1][1]]
      /\ missing' = 0
  BY <1>1, TakeBytesAccount DEF CompleteCommand
<1>3. PICK d \in Seq(Byte) : d = buffer' /\ Len(d) = Length[d[1][1]]
  BY <1>2
<1>4. Made(d)
  BY <1>1, <1>3, FragmentMade
<1>5. decoded' = Append(decoded, d) /\ expect' = 0
  BY <1>3 DEF CompleteCommand
<1> QED
  BY <1>1, <1>3, <1>4, <1>5, CommandMade DEF BufferInv

LEMMA ExpectMoreMade ==
  ASSUME IInv, Line, WayInv, BufferInv, DecodedInv, ExpectMore
  PROVE  BufferInv' /\ DecodedInv'
<1>1. PICK h : h = Head(report)
  OBVIOUS
<1>2. /\ TakeBytes /\ report # <<>> /\ h.kind = "fragment" /\ h.id = expect
      /\ report' = Tail(report) /\ expect' = expect + 1
      /\ UNCHANGED <<filling, ring, tail, next, shipped, decoded>>
  BY <1>1 DEF ExpectMore, TakeBytes, NextIs, IsExpected, teensy
<1>3. /\ Way = Way' \cup {h} /\ \A y \in Way' : Later(h.cmd, Num(h), y)
  BY <1>1, <1>2, TakeLine
<1>4. /\ h.cmd \in Command /\ h.cmd \in Int /\ Num(h) = h.id
      /\ h.id \in Nat /\ h.id >= 1
  BY <1>2, <1>3, WayTypes DEF Num
<1>5. /\ h.cmd < next /\ BeforeTail(h.cmd, h.id) /\ GoesOn(h.cmd, h.id, End(h))
  BY <1>2, <1>3, <1>4 DEF WayInv
<1>6. PICK f \in Int, d \in {buffer'} : f = buffer[1][1] /\ d = buffer'
  <2>1. buffer[1][1] \in Int
    BY <1>2, <1>4, LastByte, CommandNumbers
  <2> QED
    BY <2>1
<1>7. /\ Made(d) /\ d[1][1] = f /\ Len(d) \in Nat
      /\ d[Len(d)] = <<h.cmd, End(h)>>
      /\ f <= h.cmd
      /\ f = h.cmd => End(h) = Len(d)
      /\ f # h.cmd => Lost("fragment", f)
      /\ buffer[Len(buffer)][1] <= h.cmd
  BY <1>1, <1>2, <1>6, FragmentMade
<1>8. \A kind, c : Lost(kind, c)' <=> Lost(kind, c)
  BY <1>2, LostSame
<1>9. Made(buffer)'
  <2>1. Made(d)'
    BY <1>2, <1>7, MadeSame
  <2> QED
    BY <1>6, <2>1 DEF Made, JoinedAt, SplicedAt
<1>10. PICK e : e = End(h)
  OBVIOUS
<1>11. Collected(f, h.cmd, e)'
  <2>1. expect' - 1 = h.id
    BY <1>2, <1>4
  <2>2. Behind(h.cmd, h.id)'
    BY <1>2, <1>3, <1>4, <1>5 DEF Behind, BeforeTail
  <2>3. GoesOn(h.cmd, h.id, e)'
    <3>1. \A b : Comes(h.cmd, h.id + 1, b)' <=> Comes(h.cmd, h.id + 1, b)
      <4>1. h.id # h.id + 1
        BY <1>4
      <4> QED
        BY <1>2, <1>3, <4>1 DEF Comes
    <3> QED
      BY <1>5, <1>8, <1>10, <3>1 DEF GoesOn
  <2>4. ASSUME NEW c \in Command, NEW i \in Nat, NEW b \in Nat,
               h.cmd < c, Comes(c, i, b)'
        PROVE  HasStart(c)'
    <3>1. Comes(c, i, b)
      BY <1>2, <1>3, <2>4 DEF Comes
    <3>2. PICK l \in Int : l = buffer[Len(buffer)][1]
      BY <1>2, <1>4, LastByte, CommandNumbers
    <3>3. l < c
      BY <1>4, <1>7, <2>4, <3>2, CommandNumbers
    <3>4. HasStart(c)
      BY <1>2, <1>4, <3>1, <3>2, <3>3 DEF BufferInv, Collected
    <3> QED
      BY <1>2, <1>3, <1>8, <3>4 DEF HasStart, StartComes
  <2>5. f # h.cmd => Lost("fragment", f)'
    BY <1>7, <1>8
  <2>6. f = h.cmd => e = Len(buffer')
    BY <1>6, <1>7, <1>10
  <2>7. f <= h.cmd /\ h.cmd < next'
    BY <1>2, <1>5, <1>7
  <2> QED
    BY <2>1, <2>2, <2>3, <2>4, <2>5, <2>6, <2>7 DEF Collected
<1>12. /\ buffer'[1][1] = f /\ buffer'[Len(buffer')][1] = h.cmd
       /\ buffer'[Len(buffer')][2] = e
  BY <1>6, <1>7, <1>10
<1>13. DecodedInv'
  BY <1>2, NothingMade
<1> QED
  BY <1>9, <1>11, <1>12, <1>13 DEF BufferInv

LEMMA RefuseMade ==
  ASSUME DecodedInv, RefuseLength \/ RefuseFragment
  PROVE  BufferInv' /\ DecodedInv'
<1>1. expect' = 0 /\ UNCHANGED <<decoded, shipped>>
  BY DEF RefuseLength, RefuseFragment, TakeBytes
<1> QED
  BY <1>1, NothingMade DEF BufferInv

-----------------------------------------------------------------------------
LEMMA InitSplice == Init => SpliceInv
<1> SUFFICES ASSUME Init
             PROVE  SpliceInv
  OBVIOUS
<1>1. Line
  BY DEF Init, Line, InLine, Rising, StartLast, Leads
<1>2. Way = {}
  BY DEF Init, Way, Elements
<1>3. WayInv
  BY <1>2 DEF Init, WayInv, Comes, Gone
<1>4. BufferInv /\ DecodedInv
  BY DEF Init, BufferInv, DecodedInv
<1> QED
  BY <1>1, <1>3, <1>4 DEF SpliceInv

LEMMA KeepSplice ==
  ASSUME IInv, IInv', SpliceInv,
         PutWhole \/ PutStart \/ PutFragment \/ Ship \/ FetchReport
  PROVE  SpliceInv'
<1>1. UNCHANGED <<assembly, decoded>>
  BY DEF PutWhole, PutStart, PutFragment, Ship, FetchReport
<1>2. Line' /\ Keeps /\ WayInv'
  BY PutWholeWay, PutStartWay, PutFragmentWay, ShipWay, FetchWay DEF SpliceInv
<1> QED
  BY <1>1, <1>2, KeepBuffer DEF SpliceInv

LEMMA TakeSplice ==
  ASSUME IInv, SpliceInv,
         \/ TakeWhole \/ TakeStart \/ CompleteCommand \/ ExpectMore
         \/ RefuseLength \/ RefuseFragment
  PROVE  SpliceInv'
<1>1. /\ report # <<>> /\ UNCHANGED <<teensy, ring, shipped>>
      /\ report' = Tail(report) \/ report' = <<>>
  BY DEF TakeWhole, TakeStart, CompleteCommand, ExpectMore, RefuseLength,
         RefuseFragment, TakeBytes, NextIs
<1>2. Line' /\ WayInv'
  BY <1>1, TakeWay DEF SpliceInv
<1>3. BufferInv' /\ DecodedInv'
  BY TakeWholeMade, TakeStartMade, CompleteMade, ExpectMoreMade, RefuseMade
     DEF SpliceInv
<1> QED
  BY <1>2, <1>3 DEF SpliceInv

LEMMA StutterSplice ==
  ASSUME SpliceInv, UNCHANGED vars
  PROVE  SpliceInv'
<1>1. UNCHANGED <<next, filling, tail, ring, report, expect, buffer, decoded,
                  shipped>>
  BY DEF vars, teensy, assembly
<1>2. Line' /\ Way' = Way
  BY <1>1 DEF SpliceInv, Line, Way
<1>3. \A kind, c : Lost(kind, c)' <=> Lost(kind, c)
  BY <1>1, LostSame
<1>4. \A c, i, b : Comes(c, i, b)' <=> Comes(c, i, b)
  BY <1>1, <1>2 DEF Comes
<1>5. /\ \A c : HasStart(c)' <=> HasStart(c)
      /\ \A c : Gone(c)' <=> Gone(c)
      /\ \A c, n : BeforeTail(c, n)' <=> BeforeTail(c, n)
      /\ \A c, n : Behind(c, n)' <=> Behind(c, n)
      /\ \A c, n, e : GoesOn(c, n, e)' <=> GoesOn(c, n, e)
  BY <1>1, <1>2, <1>3, <1>4
     DEF HasStart, StartComes, Gone, BeforeTail, Behind, GoesOn
<1>6. WayInv'
  BY <1>1, <1>2, <1>4, <1>5 DEF SpliceInv, WayInv
<1>7. \A d : Made(d)' <=> Made(d)
  BY <1>1, MadeSame
<1>8. BufferInv' /\ DecodedInv'
  <2>1. DecodedInv'
    BY <1>1, NothingMade DEF SpliceInv
  <2>2. \A f, l, p : Collected(f, l, p)' <=> Collected(f, l, p)
    BY <1>1, <1>3, <1>4, <1>5 DEF Collected
  <2>3. Made(buffer)' <=> Made(buffer)
    BY <1>1, <1>3 DEF Made, JoinedAt, SplicedAt
  <2>4. BufferInv'
    BY <1>1, <2>2, <2>3 DEF SpliceInv, BufferInv
  <2> QED
    BY <2>1, <2>4
<1> QED
  BY <1>2, <1>6, <1>8 DEF SpliceInv

LEMMA Spliced == Spec => []SpliceInv
<1>1. IInv /\ IInv' /\ SpliceInv /\ [Next]_vars => SpliceInv'
  BY KeepSplice, TakeSplice, StutterSplice DEF Next, Main
<1> QED
  BY InitSplice, Invariant, <1>1, PTL DEF Spec

-----------------------------------------------------------------------------
(***************************************************************************)
(* What is not hurt is decoded.  A command the Teensy has sent was decoded *)
(* or is being put together, or its beginning comes, or it is hurt; and    *)
(* the part before a fragment that comes, comes too or was the last one    *)
(* input_packet took.                                                      *)
(***************************************************************************)
FragmentFirst(s) == \A i \in 2 .. Len(s) : s[i].kind # "fragment"
SentOut(s) == \E i \in 1 .. Len(shipped) : shipped[i].chunks = s

ReportInv ==
  /\ FragmentFirst(report) /\ FragmentFirst(filling)
  /\ report # <<>> /\ report[1].kind = "fragment" => SentOut(report)
  /\ \A k \in 1 .. Len(ring) : FragmentFirst(ring[k]) /\ SentOut(ring[k])
  /\ \A x \in Way : x.kind = "fragment" => End(x) <= Length[x.cmd]

BeginComes(c) == \E x \in Way : x.kind # "fragment" /\ x.cmd = c
PartComes(c, n) == \E x \in Way : x.kind # "whole" /\ x.cmd = c /\ Num(x) = n
IsDecoded(c) == \E i \in 1 .. Len(decoded) : decoded[i] = Whole(c)
Joining(c) == expect # 0 /\ buffer[1][1] = c

UnhurtInv ==
  /\ \A c \in 1 .. next - 1 :
       Hurt(c) \/ IsDecoded(c) \/ BeginComes(c) \/ Joining(c)
  /\ \A c \in Command : \A i, b \in Nat :
       Comes(c, i, b) =>
         Hurt(c) \/ PartComes(c, i - 1) \/ (Joining(c) /\ expect = i)

LEMMA HurtByLoss ==
  ASSUME NEW c \in Command, NEW kind \in {"whole", "start", "fragment"},
         Lost(kind, c)
  PROVE  Hurt(c)
  BY DEF Hurt, ClosedUnderHurt

\* A command behind a fragment of a hurt command in a report.
LEMMA HurtBehind ==
  ASSUME NEW s, SentOut(s), s[1].kind = "fragment", Hurt(s[1].cmd),
         NEW k \in 2 .. Len(s)
  PROVE  Hurt(s[k].cmd)
<1>1. PICK i \in 1 .. Len(shipped) : shipped[i].chunks = s
  BY DEF SentOut
<1>2. ASSUME NEW H \in SUBSET Command, ClosedUnderHurt(H)
      PROVE  s[k].cmd \in H
  <2>1. s[1].cmd \in H
    BY <1>2 DEF Hurt
  <2> QED
    BY <1>1, <1>2, <2>1 DEF ClosedUnderHurt
<1> QED
  BY <1>2 DEF Hurt

LEMMA HurtStays ==
  ASSUME IInv, Ship \/ UNCHANGED shipped
  PROVE  /\ \A c : Hurt(c) => Hurt(c)'
         /\ \A s : SentOut(s) => SentOut(s)'
<1>1. ASSUME NEW H \in SUBSET Command, ClosedUnderHurt(H)'
      PROVE  ClosedUnderHurt(H)
  <2>1. ASSUME NEW c \in Command, NEW kind \in {"whole", "start", "fragment"},
               Lost(kind, c)
        PROVE  c \in H
    BY <1>1, <2>1, LostStays DEF ClosedUnderHurt
  <2>2. ASSUME NEW i \in 1 .. Len(shipped),
               shipped[i].chunks[1].kind = "fragment",
               shipped[i].chunks[1].cmd \in H,
               NEW k \in 2 .. Len(shipped[i].chunks)
        PROVE  shipped[i].chunks[k].cmd \in H
    <3>1. i \in 1 .. Len(shipped') /\ shipped'[i] = shipped[i]
      BY ShippedGrows
    <3> QED
      BY <1>1, <2>2, <3>1 DEF ClosedUnderHurt
  <2> QED
    BY <2>1, <2>2 DEF ClosedUnderHurt
<1>2. ASSUME NEW s, SentOut(s)
      PROVE  SentOut(s)'
  BY <1>2, ShippedGrows DEF SentOut
<1> QED
  BY <1>1, <1>2 DEF Hurt

\* While the command that is put together is not hurt, the next thing
\* input_packet looks at is its next fragment.
LEMMA UnhurtNext ==
  ASSUME IInv, WayInv, BufferInv, expect # 0, NEW f, f = buffer[1][1], ~Hurt(f)
  PROVE  /\ Len(buffer) \in Nat /\ Len(buffer) < Length[f]
         /\ f = buffer[Len(buffer)][1]
         /\ Comes(f, expect, Len(buffer) + 1)
         /\ \A h \in Way :
              (\A y \in Way : y = h \/ Later(h.cmd, Num(h), y))
                => /\ h.kind = "fragment" /\ h.cmd = f /\ h.id = expect
                   /\ h.from = Len(buffer) + 1
<1>1. PICK l \in Command, p \in Nat :
        /\ l = buffer[Len(buffer)][1] /\ p = buffer[Len(buffer)][2]
        /\ l \in Int /\ f \in Command /\ f \in Int /\ expect - 1 \in Nat
        /\ Len(buffer) \in Nat
  BY LastByte, CommandNumbers DEF Byte
<1>2. Made(buffer) /\ Collected(f, l, p)
  BY <1>1 DEF BufferInv
<1>3. ~Lost("fragment", f)
  BY <1>1, HurtByLoss
<1>4. f = l /\ p = Len(buffer)
  BY <1>2, <1>3 DEF Collected
<1>5. Len(buffer) < Length[f]
  <2>1. /\ missing > 0 /\ missing \in Int
        /\ Len(buffer) + missing = Length[f] /\ Length[f] \in Nat
    BY <1>1, InputAssumption
       DEF InputAssumption, IInv, InputType, AccountsForBytes
  <2> QED
    BY <1>1, <2>1
<1>6. Comes(f, expect, Len(buffer) + 1)
  <2>1. expect - 1 + 1 = expect
    BY DEF IInv, InputType
  <2>2. GoesOn(f, expect - 1, p)
    BY <1>2, <1>4 DEF Collected
  <2> QED
    BY <1>3, <1>4, <1>5, <2>1, <2>2 DEF GoesOn
<1>7. ASSUME NEW h \in Way, \A y \in Way : y = h \/ Later(h.cmd, Num(h), y)
      PROVE  /\ h.kind = "fragment" /\ h.cmd = f /\ h.id = expect
             /\ h.from = Len(buffer) + 1
  <2>1. h.cmd \in Int /\ Num(h) \in Nat /\ BeforeTail(h.cmd, Num(h))
    BY WayTypes DEF WayInv
  <2>2. f < h.cmd \/ (f = h.cmd /\ expect - 1 < Num(h))
    BY <1>2, <1>4 DEF Collected, Behind, Later
  <2>3. f < h.cmd \/ (f = h.cmd /\ expect <= Num(h))
    BY <1>1, <2>1, <2>2 DEF IInv, InputType
  <2>4. ~(h.cmd < f) /\ ~(h.cmd = f /\ Num(h) < expect)
    BY <1>1, <2>1, <2>3 DEF IInv, InputType
  <2>5. CASE \E x \in Way : /\ x.kind = "fragment" /\ x.cmd = f
                            /\ x.id = expect /\ x.from = Len(buffer) + 1
    BY <1>7, <2>4, <2>5 DEF Later, Num
  <2>6. CASE tail # NoTail /\ tail.cmd = f /\ tail.id = expect
    BY <2>1, <2>4, <2>6 DEF BeforeTail
  <2> QED
    BY <1>6, <2>5, <2>6 DEF Comes
<1> QED
  BY <1>1, <1>4, <1>5, <1>6, <1>7

\* Bytes joined without a splice are those of one command.
LEMMA JoinedBytes ==
  ASSUME NEW d \in Seq(Byte), Made(d), ~Lost("fragment", d[1][1])
  PROVE  d = Bytes(d[1][1], 1, Len(d))
<1>1. PICK f : f = d[1][1]
  OBVIOUS
<1>2. d # <<>> /\ Len(d) \in Nat /\ Len(d) >= 1 /\ d[1] = <<f, 1>>
  <2>1. d # <<>> /\ d[1][2] = 1 /\ Len(d) \in Nat
    BY DEF Made
  <2>2. d[1] \in Byte /\ Len(d) >= 1
    BY <2>1
  <2> QED
    BY <1>1, <2>1, <2>2 DEF Byte
<1>3. \A k \in 2 .. Len(d) : JoinedAt(d, k)
  BY DEF Made, SplicedAt
<1> DEFINE S == {n \in 0 .. Len(d) : n = 0 \/ d[n] = <<f, n>>}
<1>4. \A n \in 1 .. Len(d) : n - 1 \in S => n \in S
  <2>1. ASSUME NEW n \in 1 .. Len(d), n - 1 \in S
        PROVE  n \in S
    <3>1. CASE n = 1
      BY <1>2, <3>1
    <3>2. CASE n # 1
      <4>1. n \in 2 .. Len(d) /\ n - 1 # 0 /\ (n - 1) + 1 = n
        BY <1>2, <3>2
      <4>2. d[n - 1] = <<f, n - 1>>
        BY <2>1, <4>1
      <4>3. d[n] = <<d[n - 1][1], d[n - 1][2] + 1>>
        BY <1>3, <4>1 DEF JoinedAt
      <4>4. d[n] = <<f, n>>
        BY <4>1, <4>2, <4>3
      <4> QED
        BY <4>4
    <3> QED
      BY <3>1, <3>2
  <2> QED
    BY <2>1
<1>5. 0 \in S
  BY <1>2
<1> HIDE DEF S
<1>6. \A n \in 0 .. Len(d) : n \in S
  BY <1>2, <1>4, <1>5, UpTo
<1>7. \A n \in 1 .. Len(d) : d[n] = <<f, n>>
  <2>1. ASSUME NEW n \in 1 .. Len(d)
        PROVE  d[n] = <<f, n>>
    <3>1. n \in 0 .. Len(d) /\ n # 0
      BY <1>2
    <3> QED
      BY <1>6, <3>1 DEF S
  <2> QED
    BY <2>1
<1>8. Bytes(f, 1, Len(d)) = [n \in 1 .. Len(d) |-> <<f, n>>]
  BY DEF Bytes
<1>9. d = [n \in 1 .. Len(d) |-> d[n]]
  OBVIOUS
<1> QED
  BY <1>1, <1>7, <1>8, <1>9

\* The Teensy puts a chunk behind the rest.
LEMMA AddsUnhurt ==
  ASSUME IInv, ReportInv, UnhurtInv, Adds,
         UNCHANGED <<ring, report, shipped, assembly, decoded>>
  PROVE  ReportInv' /\ UnhurtInv'
<1>1. PICK x \in Sent :
        /\ filling' = Append(filling, x) /\ Way' = Way \cup {x}
        /\ x.kind = "fragment" => filling = <<>> /\ End(x) <= Length[x.cmd]
        /\ \/ next' = next
           \/ next' = next + 1 /\ x.kind # "fragment" /\ x.cmd = next
        /\ \A c \in Command : \A i, b \in Nat :
             Comes(c, i, b)' =>
               \/ Comes(c, i, b)
               \/ x.kind # "whole" /\ x.cmd = c /\ Num(x) = i - 1
  BY DEF Adds
<1>2. UNCHANGED <<expect, buffer>>
  BY DEF assembly
<1>3. FragmentFirst(filling')
  <2>1. filling \in Seq(Sent)
    BY DEF IInv, TeensyType
  <2> HIDE DEF Sent
  <2>2. /\ Len(Append(filling, x)) = Len(filling) + 1
        /\ \A i \in 1 .. Len(filling) : Append(filling, x)[i] = filling[i]
        /\ Append(filling, x)[Len(filling) + 1] = x
    BY <1>1, <2>1, AppendFacts
  <2>3. ASSUME NEW i \in 2 .. Len(filling')
        PROVE  filling'[i].kind # "fragment"
    <3>1. Len(filling) \in Nat /\ (i \in 2 .. Len(filling) \/ i = Len(filling) + 1)
      BY <1>1, <2>1, <2>2
    <3>2. CASE i \in 2 .. Len(filling)
      <4>1. i \in 1 .. Len(filling)
        BY <3>1, <3>2
      <4> QED
        BY <1>1, <2>2, <3>2, <4>1 DEF ReportInv, FragmentFirst
    <3>3. CASE i = Len(filling) + 1
      <4>1. filling # <<>>
        BY <3>1, <3>3
      <4> QED
        BY <1>1, <2>2, <3>3, <4>1
    <3> QED
      BY <3>1, <3>2, <3>3
  <2> QED
    BY <2>3 DEF FragmentFirst
<1>4. ReportInv'
  <2>1. \A s : SentOut(s) => SentOut(s)'
    BY HurtStays
  <2>2. (report # <<>> /\ report[1].kind = "fragment" => SentOut(report))'
    BY DEF ReportInv, SentOut
  <2>3. (\A k \in 1 .. Len(ring) : FragmentFirst(ring[k]) /\ SentOut(ring[k]))'
    BY DEF ReportInv, SentOut
  <2>4. \A y \in Way' : y.kind = "fragment" => End(y) <= Length[y.cmd]
    BY <1>1 DEF ReportInv
  <2> QED
    BY <1>3, <2>2, <2>3, <2>4 DEF ReportInv
<1>5. ASSUME NEW c \in 1 .. next' - 1
      PROVE  (Hurt(c) \/ IsDecoded(c) \/ BeginComes(c) \/ Joining(c))'
  <2>1. CASE c = next /\ x.kind # "fragment" /\ x.cmd = next
    BY <1>1, <2>1 DEF BeginComes
  <2>2. CASE c \in 1 .. next - 1
    <3>1. Hurt(c) \/ IsDecoded(c) \/ BeginComes(c) \/ Joining(c)
      BY <2>2 DEF UnhurtInv
    <3>2. Hurt(c) => Hurt(c)'
      BY HurtStays
    <3>3. /\ BeginComes(c) => BeginComes(c)'
          /\ IsDecoded(c) => IsDecoded(c)'
          /\ Joining(c) => Joining(c)'
      BY <1>1, <1>2 DEF BeginComes, IsDecoded, Joining
    <3> QED
      BY <3>1, <3>2, <3>3
  <2> QED
    <3>1. next \in Int
      BY InputAssumption DEF IInv, TeensyType, InputAssumption
    <3> QED
      BY <1>1, <2>1, <2>2, <3>1
<1>6. ASSUME NEW c \in Command, NEW i \in Nat, NEW b \in Nat, Comes(c, i, b)'
      PROVE  (Hurt(c) \/ PartComes(c, i - 1) \/ (Joining(c) /\ expect = i))'
  <2>1. CASE x.kind # "whole" /\ x.cmd = c /\ Num(x) = i - 1
    BY <1>1, <2>1 DEF PartComes
  <2>2. CASE Comes(c, i, b)
    <3>1. Hurt(c) \/ PartComes(c, i - 1) \/ (Joining(c) /\ expect = i)
      BY <2>2 DEF UnhurtInv
    <3>2. Hurt(c) => Hurt(c)'
      BY HurtStays
    <3>3. /\ PartComes(c, i - 1) => PartComes(c, i - 1)'
          /\ Joining(c) /\ expect = i => Joining(c)' /\ expect' = i
      BY <1>1, <1>2 DEF PartComes, Joining
    <3> QED
      BY <3>1, <3>2, <3>3
  <2> QED
    BY <1>1, <1>6, <2>1, <2>2
<1>7. UnhurtInv'
  BY <1>5, <1>6 DEF UnhurtInv
<1> QED
  BY <1>4, <1>7

\* A report goes out; what is lost of it hurts its commands.
LEMMA ShipUnhurt ==
  ASSUME IInv, Line, ReportInv, UnhurtInv, Ship
  PROVE  ReportInv' /\ UnhurtInv'
<1>1. /\ Way' \subseteq Way
      /\ \A x \in Way : x \in Way' \/ Lost(x.kind, x.cmd)'
  BY ShipLine
<1>2. /\ filling' = <<>>
      /\ UNCHANGED <<next, tail, report, expect, buffer, decoded>>
      /\ \/ ring' = ring
         \/ /\ ring' = Append(ring, filling)
            /\ shipped' = Append(shipped, [chunks |-> filling, lost |-> FALSE])
  BY DEF Ship, assembly
<1>3. \A c : Hurt(c) => Hurt(c)'
  BY HurtStays
<1>4. \A s : SentOut(s) => SentOut(s)'
  BY HurtStays
<1>5. \A x \in Way : x \in Way' \/ Hurt(x.cmd)'
  <2>1. ASSUME NEW x \in Way, Lost(x.kind, x.cmd)'
        PROVE  Hurt(x.cmd)'
    <3>1. x.cmd \in Command /\ x.kind \in {"whole", "start", "fragment"}
      BY WayTypes
    <3> QED
      BY <2>1, <3>1 DEF Hurt, ClosedUnderHurt
  <2> QED
    BY <1>1, <2>1
<1>6. ReportInv'
  <2>1. ASSUME NEW k \in 1 .. Len(ring')
        PROVE  FragmentFirst(ring'[k]) /\ SentOut(ring[k])'
    <3>1. CASE ring' = ring
      <4>1. PICK s : s = ring[k]
        OBVIOUS
      <4>2. FragmentFirst(s) /\ SentOut(s)
        BY <3>1, <4>1 DEF ReportInv, SentOut
      <4>3. SentOut(s)'
        BY <1>4, <4>2
      <4> QED
        BY <3>1, <4>1, <4>2, <4>3 DEF SentOut
    <3>2. CASE /\ ring' = Append(ring, filling)
               /\ shipped' = Append(shipped,
                                    [chunks |-> filling, lost |-> FALSE])
      <4>1. ring \in Seq(Seq(Sent)) /\ filling \in Seq(Sent)
        BY DEF IInv, TeensyType, BufferType
      <4>2. \/ k \in 1 .. Len(ring) /\ ring'[k] = ring[k]
            \/ ring'[k] = filling
        <5> HIDE DEF Sent
        <5>1. \A i \in 1 .. Len(Append(ring, filling)) :
                \/ i \in 1 .. Len(ring) /\ Append(ring, filling)[i] = ring[i]
                \/ i = Len(ring) + 1 /\ Append(ring, filling)[i] = filling
          BY <4>1, AppendElement
        <5> QED
          BY <3>2, <5>1
      <4>3. PICK s : s = filling
        OBVIOUS
      <4>4. SentOut(s)'
        <5> DEFINE item == [chunks |-> filling, lost |-> FALSE]
                   Item == [chunks : Seq(Chunk), lost : BOOLEAN]
        <5>1. filling \in Seq(Chunk)
          BY <4>1 DEF Sent
        <5>2. shipped \in Seq(Item) /\ item \in Item
          BY <5>1 DEF IInv, BufferType
        <5>3. shipped' = Append(shipped, item) /\ item.chunks = filling
          BY <3>2
        <5> HIDE DEF item, Item
        <5>4. /\ Len(shipped') = Len(shipped) + 1 /\ Len(shipped) \in Nat
              /\ shipped'[Len(shipped) + 1] = item
          BY <5>2, <5>3
        <5>5. Len(shipped) + 1 \in 1 .. Len(shipped')
          BY <5>4
        <5> QED
          BY <4>3, <5>3, <5>4, <5>5 DEF SentOut
      <4>5. CASE ring'[k] = filling
        BY <4>3, <4>4, <4>5 DEF ReportInv, SentOut
      <4>6. CASE k \in 1 .. Len(ring) /\ ring'[k] = ring[k]
        <5>1. PICK t : t = ring[k]
          OBVIOUS
        <5>2. FragmentFirst(t) /\ SentOut(t)
          BY <4>6, <5>1 DEF ReportInv, SentOut
        <5>3. SentOut(t)'
          BY <1>4, <5>2
        <5> QED
          BY <4>6, <5>1, <5>2, <5>3 DEF SentOut
      <4> QED
        BY <4>2, <4>5, <4>6
    <3> QED
      BY <1>2, <3>1, <3>2
  <2>2. FragmentFirst(filling')
    BY <1>2 DEF FragmentFirst
  <2>3. ASSUME report # <<>>, report[1].kind = "fragment"
        PROVE  SentOut(report)'
    <3>1. PICK s : s = report
      OBVIOUS
    <3>2. SentOut(s)
      BY <2>3, <3>1 DEF ReportInv, SentOut
    <3>3. SentOut(s)'
      BY <1>4, <3>2
    <3> QED
      BY <1>2, <3>1, <3>3 DEF SentOut
  <2>4. \A y \in Way' : y.kind = "fragment" => End(y) <= Length[y.cmd]
    BY <1>1 DEF ReportInv
  <2> QED
    BY <1>2, <2>1, <2>2, <2>3, <2>4 DEF ReportInv
<1>7. ASSUME NEW c \in 1 .. next' - 1
      PROVE  (Hurt(c) \/ IsDecoded(c) \/ BeginComes(c) \/ Joining(c))'
  <2>1. Hurt(c) \/ IsDecoded(c) \/ BeginComes(c) \/ Joining(c)
    BY <1>2 DEF UnhurtInv
  <2>2. BeginComes(c) => BeginComes(c)' \/ Hurt(c)'
    BY <1>5 DEF BeginComes
  <2> QED
    BY <1>2, <1>3, <2>1, <2>2 DEF IsDecoded, Joining
<1>8. ASSUME NEW c \in Command, NEW i \in Nat, NEW b \in Nat, Comes(c, i, b)'
      PROVE  (Hurt(c) \/ PartComes(c, i - 1) \/ (Joining(c) /\ expect = i))'
  <2>1. Comes(c, i, b)
    BY <1>1, <1>2, <1>8 DEF Comes
  <2>2. Hurt(c) \/ PartComes(c, i - 1) \/ (Joining(c) /\ expect = i)
    BY <2>1 DEF UnhurtInv
  <2>3. PartComes(c, i - 1) => PartComes(c, i - 1)' \/ Hurt(c)'
    BY <1>5 DEF PartComes
  <2> QED
    BY <1>2, <1>3, <2>2, <2>3 DEF Joining
<1>9. UnhurtInv'
  BY <1>7, <1>8 DEF UnhurtInv
<1> QED
  BY <1>6, <1>9

LEMMA FetchUnhurt ==
  ASSUME IInv, Line, ReportInv, UnhurtInv, FetchReport
  PROVE  ReportInv' /\ UnhurtInv'
<1>1. Way' = Way
  BY FetchLine
<1>2. UNCHANGED <<next, filling, tail, expect, buffer, decoded, shipped>>
  BY DEF FetchReport, teensy, assembly
<1>3. \A s : SentOut(s) => SentOut(s)'
  BY <1>2, HurtStays
<1>4. \A c : Hurt(c) => Hurt(c)'
  BY <1>2, HurtStays
<1>5. ReportInv'
  <2>1. ring \in Seq(Seq(Sent)) /\ ring # <<>>
    BY DEF IInv, BufferType, FetchReport
  <2>2. /\ report' = ring[1] /\ 1 \in 1 .. Len(ring)
        /\ \A k \in 1 .. Len(ring') : /\ ring'[k] = ring[k + 1]
                                      /\ k + 1 \in 1 .. Len(ring)
    BY <2>1 DEF FetchReport
  <2>3. FragmentFirst(report') /\ SentOut(report)'
    BY <1>2, <2>2 DEF ReportInv, SentOut
  <2>4. \A k \in 1 .. Len(ring') : FragmentFirst(ring'[k]) /\ SentOut(ring[k])'
    BY <1>2, <2>2 DEF ReportInv, SentOut
  <2>5. \A y \in Way' : y.kind = "fragment" => End(y) <= Length[y.cmd]
    BY <1>1 DEF ReportInv
  <2>6. FragmentFirst(filling')
    BY <1>2 DEF ReportInv
  <2> QED
    BY <2>3, <2>4, <2>5, <2>6 DEF ReportInv
<1>6. \A c, i, b : Comes(c, i, b)' <=> Comes(c, i, b)
  BY <1>1, <1>2 DEF Comes
<1>7. UnhurtInv'
  BY <1>1, <1>2, <1>4, <1>6
     DEF UnhurtInv, IsDecoded, BeginComes, Joining, PartComes
<1> QED
  BY <1>5, <1>7

\* What input_packet leaves of a report is hurt if the fragment at its head is.
LEMMA TakeReport ==
  ASSUME IInv, Line, ReportInv, report # <<>>, NEW h, h = Head(report),
         UNCHANGED <<teensy, ring, shipped>>,
         report' = Tail(report) \/ report' = <<>>,
         \/ report' = Tail(report) \/ h.kind = "start"
         \/ h.kind = "fragment" /\ Hurt(h.cmd)
  PROVE  /\ ReportInv'
         /\ \A x \in Way : x = h \/ x \in Way' \/ Hurt(x.cmd)
<1>1. UNCHANGED <<filling, tail, shipped>>
  BY DEF teensy
<1>2. /\ Way' \subseteq Way
      /\ report' = Tail(report) \/ h.kind = "start" => Way = Way' \cup {h}
  BY <1>1, TakeLine
<1>3. report \in Seq(Sent) /\ Len(report) \in Nat /\ h = report[1]
  BY DEF IInv, InputType
<1>4. ReportInv'
  <2>1. ASSUME NEW i \in 1 .. Len(report')
        PROVE  report'[i].kind # "fragment"
    <3>1. report' = Tail(report)
      BY <2>1
    <3>2. i + 1 \in 2 .. Len(report) /\ report'[i] = report[i + 1]
      BY <1>3, <3>1
    <3> QED
      BY <3>2 DEF ReportInv, FragmentFirst
  <2>2. FragmentFirst(report')
    <3>1. ASSUME NEW i \in 2 .. Len(report')
          PROVE  i \in 1 .. Len(report')
      OBVIOUS
    <3> QED
      BY <2>1, <3>1 DEF FragmentFirst
  <2>3. ASSUME report' # <<>>, report'[1].kind = "fragment"
        PROVE  FALSE
    <3>1. 1 \in 1 .. Len(report')
      BY <1>3, <2>3
    <3> QED
      BY <2>1, <2>3, <3>1
  <2>4. (\A k \in 1 .. Len(ring) : FragmentFirst(ring[k]) /\ SentOut(ring[k]))'
    BY <1>1 DEF ReportInv, SentOut
  <2>5. \A y \in Way' : y.kind = "fragment" => End(y) <= Length[y.cmd]
    BY <1>2 DEF ReportInv
  <2>6. FragmentFirst(filling')
    BY <1>1 DEF ReportInv
  <2> QED
    BY <2>2, <2>3, <2>4, <2>5, <2>6 DEF ReportInv
<1>5. CASE report' = Tail(report) \/ h.kind = "start"
  BY <1>2, <1>4, <1>5
<1>6. CASE h.kind = "fragment" /\ Hurt(h.cmd)
  <2>1. SentOut(report)
    BY <1>3, <1>6 DEF ReportInv
  <2>2. \A k \in 2 .. Len(report) : Hurt(report[k].cmd)
    BY <1>3, <1>6, <2>1, HurtBehind
  <2>3. ASSUME NEW x \in Way, \E i \in 1 .. Len(report) : x = report[i]
        PROVE  x = h \/ Hurt(x.cmd)
    <3>1. PICK i \in 1 .. Len(report) : x = report[i]
      BY <2>3
    <3>2. i = 1 \/ i \in 2 .. Len(report)
      BY <1>3
    <3> QED
      BY <1>3, <2>2, <3>1, <3>2
  <2>4. ASSUME NEW x \in Way, ~ \E i \in 1 .. Len(report) : x = report[i]
        PROVE  x \in Way'
    BY <1>1, <2>4 DEF Way, Elements
  <2> QED
    BY <1>4, <2>3, <2>4
<1> QED
  BY <1>5, <1>6

\* A fragment at the head of a report is of a hurt command, or it is the next
\* one of the command that is put together.
LEMMA HeadFragment ==
  ASSUME IInv, WayInv, UnhurtInv, NEW h \in Way, h.kind = "fragment",
         \A y \in Way : y = h \/ Later(h.cmd, Num(h), y)
  PROVE  Hurt(h.cmd) \/ (Joining(h.cmd) /\ expect = h.id)
<1>1. /\ h.cmd \in Command /\ h.cmd \in Int /\ h.id \in Nat /\ h.from \in Nat
      /\ Num(h) = h.id
  BY WayTypes DEF Num
<1>2. Comes(h.cmd, h.id, h.from)
  BY DEF Comes
<1>3. ~PartComes(h.cmd, h.id - 1)
  <2>1. ASSUME NEW x \in Way, x.cmd = h.cmd, Num(x) = h.id - 1
        PROVE  FALSE
    <3>1. Num(x) # h.id /\ Num(x) < h.id
      BY <1>1, <2>1
    <3>2. x # h
      BY <1>1, <3>1
    <3>3. Later(h.cmd, h.id, x)
      BY <1>1, <3>2
    <3> QED
      BY <1>1, <2>1, <3>1, <3>3, WayTypes DEF Later
  <2> QED
    BY <2>1 DEF PartComes
<1> QED
  BY <1>1, <1>2, <1>3 DEF UnhurtInv

\* A step of input_packet that takes h.
LEMMA TakeUnhurt ==
  ASSUME IInv, Line, WayInv, BufferInv, ReportInv, UnhurtInv,
         report # <<>>, NEW h, h = Head(report),
         UNCHANGED <<teensy, ring, shipped>>,
         report' = Tail(report) \/ report' = <<>>,
         \/ report' = Tail(report) \/ h.kind = "start"
         \/ h.kind = "fragment" /\ Hurt(h.cmd),
         \A c : IsDecoded(c) => IsDecoded(c)',
         h.kind # "fragment" =>
           Hurt(h.cmd) \/ IsDecoded(h.cmd)' \/ Joining(h.cmd)',
         h.kind # "whole" =>
           \/ Hurt(h.cmd)
           \/ Joining(h.cmd)' /\ expect' = Num(h) + 1
           \/ \A b \in Nat : ~Comes(h.cmd, Num(h) + 1, b)',
         \A f : Joining(f) => Hurt(f) \/ IsDecoded(f)' \/ Joining(f)'
  PROVE  ReportInv' /\ UnhurtInv'
<1>1. UNCHANGED <<filling, ring, tail, next, shipped>>
  BY DEF teensy
<1>2. /\ Way' \subseteq Way /\ h \in Way
      /\ \A y \in Way : y = h \/ Later(h.cmd, Num(h), y)
      /\ \A y \in Way' : Later(h.cmd, Num(h), y)
  BY <1>1, TakeLine
<1>3. ReportInv' /\ \A x \in Way : x = h \/ x \in Way' \/ Hurt(x.cmd)
  BY <1>1, TakeReport
<1>4. \A c : Hurt(c) => Hurt(c)'
  BY <1>1, HurtStays
<1>5. ASSUME NEW c \in 1 .. next' - 1
      PROVE  (Hurt(c) \/ IsDecoded(c) \/ BeginComes(c) \/ Joining(c))'
  <2>1. Hurt(c) \/ IsDecoded(c) \/ BeginComes(c) \/ Joining(c)
    BY <1>1 DEF UnhurtInv
  <2>2. CASE Hurt(c) \/ IsDecoded(c)
    BY <1>4, <2>2
  <2>3. CASE BeginComes(c)
    <3>1. PICK x \in Way : x.kind # "fragment" /\ x.cmd = c
      BY <2>3 DEF BeginComes
    <3>2. CASE x = h
      BY <1>4, <3>1, <3>2 DEF Joining, IsDecoded
    <3>3. CASE x \in Way'
      BY <3>1, <3>3 DEF BeginComes
    <3> QED
      BY <1>3, <1>4, <3>1, <3>2, <3>3
  <2>4. CASE Joining(c)
    BY <1>4, <2>4
  <2> QED
    BY <2>1, <2>2, <2>3, <2>4
<1>6. ASSUME NEW c \in Command, NEW i \in Nat, NEW b \in Nat, Comes(c, i, b)'
      PROVE  (Hurt(c) \/ PartComes(c, i - 1) \/ (Joining(c) /\ expect = i))'
  <2>1. Comes(c, i, b)
    BY <1>1, <1>2, <1>6 DEF Comes
  <2>2. CASE Hurt(c)
    BY <1>4, <2>2
  <2>3. CASE PartComes(c, i - 1)
    <3>1. PICK x \in Way : x.kind # "whole" /\ x.cmd = c /\ Num(x) = i - 1
      BY <2>3 DEF PartComes
    <3>2. CASE x = h
      <4>1. Num(h) + 1 = i
        BY <3>1, <3>2
      <4> QED
        BY <1>4, <1>6, <3>1, <3>2, <4>1 DEF Joining
    <3>3. CASE x \in Way'
      BY <3>1, <3>3 DEF PartComes
    <3> QED
      BY <1>3, <1>4, <3>1, <3>2, <3>3
  <2>4. CASE Joining(c) /\ expect = i /\ ~Hurt(c)
    <3>1. h.kind = "fragment" /\ h.cmd = c /\ h.id = i
      BY <1>2, <2>4, UnhurtNext DEF Joining
    <3>2. h.cmd \in Int /\ h.id \in Nat /\ Num(h) = h.id
      BY <1>2, <3>1, WayTypes DEF Num
    <3>3. ~Comes(c, i, b)'
      <4>1. ASSUME NEW x \in Way', x.kind = "fragment", x.cmd = c, x.id = i
            PROVE  FALSE
        BY <1>2, <3>1, <3>2, <4>1 DEF Later, Num
      <4>2. ~(tail # NoTail /\ tail.cmd = c /\ tail.id = i)
        BY <1>2, <3>1, <3>2 DEF WayInv, BeforeTail
      <4> QED
        BY <1>1, <4>1, <4>2 DEF Comes
    <3> QED
      BY <1>6, <3>3
  <2> QED
    BY <2>1, <2>2, <2>3, <2>4 DEF UnhurtInv
<1>7. UnhurtInv'
  BY <1>5, <1>6 DEF UnhurtInv
<1> QED
  BY <1>3, <1>7

\* The command put together is hurt if anything but its next fragment is at
\* the head of the report.
LEMMA GivenUp ==
  ASSUME IInv, Line, WayInv, BufferInv, report # <<>>, NEW h, h = Head(report),
         h \in Way, \A y \in Way : y = h \/ Later(h.cmd, Num(h), y),
         h.kind # "fragment" \/ h.id # expect
  PROVE  \A f : Joining(f) => Hurt(f)
  BY UnhurtNext DEF Joining

\* A command more is decoded.
LEMMA DecodedMore ==
  ASSUME IInv, NEW d \in Seq(Byte), decoded' = Append(decoded, d)
  PROVE  /\ \A c : IsDecoded(c) => IsDecoded(c)'
         /\ \A c : d = Whole(c) => IsDecoded(c)'
<1>1. decoded \in Seq(Seq(Byte))
  BY DEF IInv, InputType
<1>2. /\ Len(decoded') = Len(decoded) + 1 /\ Len(decoded) \in Nat
      /\ \A i \in 1 .. Len(decoded) : decoded'[i] = decoded[i]
      /\ decoded'[Len(decoded) + 1] = d
  BY <1>1
<1>3. /\ \A i \in 1 .. Len(decoded) : i \in 1 .. Len(decoded')
      /\ Len(decoded) + 1 \in 1 .. Len(decoded')
  BY <1>2
<1> QED
  BY <1>2, <1>3 DEF IsDecoded

LEMMA TakeWholeUnhurt ==
  ASSUME IInv, Line, WayInv, BufferInv, ReportInv, UnhurtInv, TakeWhole
  PROVE  ReportInv' /\ UnhurtInv'
<1>1. PICK h : h = Head(report)
  OBVIOUS
<1>2. /\ report # <<>> /\ h.kind = "whole" /\ report' = Tail(report)
      /\ UNCHANGED <<teensy, ring, shipped>>
      /\ decoded' = Append(decoded, Whole(h.cmd))
  BY <1>1 DEF TakeWhole, NextIs
<1>3. h \in Way /\ \A y \in Way : y = h \/ Later(h.cmd, Num(h), y)
  BY <1>1, <1>2, HeadFirst
<1>4. h.cmd \in Command
  BY <1>3, WayTypes
<1>5. Whole(h.cmd) \in Seq(Byte)
  <2>1. Length[h.cmd] \in Nat /\ Length[h.cmd] >= 1
    BY <1>4, InputAssumption DEF InputAssumption
  <2> QED
    BY <1>4, <2>1, FirstBytes DEF Whole
<1>6. (\A c : IsDecoded(c) => IsDecoded(c)') /\ IsDecoded(h.cmd)'
  BY <1>2, <1>5, DecodedMore
<1>7. \A f : Joining(f) => Hurt(f)
  BY <1>1, <1>2, <1>3, GivenUp
<1> QED
  BY <1>1, <1>2, <1>6, <1>7, TakeUnhurt

LEMMA TakeStartUnhurt ==
  ASSUME IInv, Line, WayInv, BufferInv, ReportInv, UnhurtInv, TakeStart
  PROVE  ReportInv' /\ UnhurtInv'
<1>1. PICK h : h = Head(report)
  OBVIOUS
<1>2. /\ report # <<>> /\ h.kind = "start" /\ report' = <<>>
      /\ UNCHANGED <<teensy, ring, shipped, decoded>>
      /\ buffer' = Bytes(h.cmd, 1, h.n) /\ expect' = 1
  BY <1>1 DEF TakeStart, NextIs
<1>3. h \in Way /\ \A y \in Way : y = h \/ Later(h.cmd, Num(h), y)
  BY <1>1, <1>2, HeadFirst
<1>4. h.cmd \in Command /\ h.n \in Nat /\ h.n >= 1 /\ Num(h) = 0
  BY <1>2, <1>3, WayTypes DEF Num
<1>5. Joining(h.cmd)' /\ expect' = Num(h) + 1
  BY <1>2, <1>4, FirstBytes DEF Joining
<1>6. \A f : Joining(f) => Hurt(f)
  BY <1>1, <1>2, <1>3, GivenUp
<1>7. \A c : IsDecoded(c) => IsDecoded(c)'
  BY <1>2 DEF IsDecoded
<1> QED
  BY <1>1, <1>2, <1>5, <1>6, <1>7, TakeUnhurt

\* The expected fragment of a command that is not hurt goes on where its bytes
\* end and is not longer than what is missing.
LEMMA FragmentFits ==
  ASSUME IInv, Line, WayInv, BufferInv, ReportInv, TakeBytes,
         NEW h, h = Head(report), NEW f, Joining(f), ~Hurt(f)
  PROVE  /\ h.cmd = f /\ f \in Command /\ missing' = Length[f] - End(h)
         /\ missing' >= 0 /\ missing' \in Int
         /\ buffer'[1][1] = f /\ buffer' # <<>>
         /\ Len(buffer') = End(h) /\ End(h) \in Nat
         /\ buffer' = Bytes(f, 1, Len(buffer'))
<1>1. /\ report # <<>> /\ h.kind = "fragment" /\ h.id = expect
      /\ missing' = missing - h.n /\ UNCHANGED shipped
  BY DEF TakeBytes, NextIs, IsExpected
<1>2. h \in Way /\ \A y \in Way : y = h \/ Later(h.cmd, Num(h), y)
  BY <1>1, HeadFirst
<1>3. /\ h.cmd = f /\ h.from = Len(buffer) + 1 /\ Len(buffer) \in Nat
      /\ expect # 0 /\ f = buffer[1][1]
  BY <1>1, <1>2, UnhurtNext DEF Joining
<1>4. /\ f \in Command /\ h.n \in Nat /\ End(h) <= Length[f]
      /\ h.n >= 1 /\ End(h) = h.from + h.n - 1 /\ Length[f] \in Nat
  BY <1>1, <1>2, <1>3, WayTypes, InputAssumption
     DEF InputAssumption, WayInv, ReportInv, End
<1>5. missing = Length[f] - Len(buffer) /\ missing \in Int
  <2>1. /\ Len(buffer) + missing = Length[f] /\ missing \in Int
    BY <1>3 DEF IInv, InputType, AccountsForBytes
  <2> QED
    BY <1>3, <1>4, <2>1
<1>6. missing' = Length[f] - End(h) /\ missing' >= 0 /\ missing' \in Int
      /\ End(h) \in Nat
  <2>1. PICK n \in Nat, b \in Nat : n = h.n /\ b = Len(buffer)
    BY <1>3, <1>4
  <2>2. PICK L \in Nat, e \in Nat : L = Length[f] /\ e = End(h) /\ e = b + n
    <3>1. b + 1 + n - 1 = b + n /\ b + n \in Nat
      BY <2>1
    <3>2. End(h) = b + n
      BY <1>3, <1>4, <2>1, <3>1
    <3> QED
      BY <1>4, <3>1, <3>2
  <2>3. missing = L - b /\ missing' = missing - n /\ e <= L
    BY <1>1, <1>4, <1>5, <2>1, <2>2
  <2>4. missing' = L - e
    <3>1. missing' = (L - b) - n
      BY <2>3
    <3>2. (L - b) - n = L - e
      BY <2>1, <2>2
    <3> QED
      BY <3>1, <3>2
  <2>5. L - e >= 0 /\ L - e \in Int
    BY <2>2, <2>3
  <2> QED
    BY <2>2, <2>4, <2>5
<1>7. PICK d \in Seq(Byte) : d = buffer'
  BY TakeBytesAccount
<1>8. Made(d) /\ d[1][1] = f /\ (f = h.cmd => End(h) = Len(d))
  BY <1>3, <1>7, FragmentMade
<1>9. ~Lost("fragment", f)
  BY <1>4, HurtByLoss
<1>10. d = Bytes(f, 1, Len(d))
  BY <1>8, <1>9, JoinedBytes
<1>11. d # <<>>
  BY <1>8 DEF Made
<1> QED
  BY <1>3, <1>4, <1>6, <1>7, <1>8, <1>10, <1>11

LEMMA CompleteUnhurt ==
  ASSUME IInv, Line, WayInv, BufferInv, ReportInv, UnhurtInv, CompleteCommand
  PROVE  ReportInv' /\ UnhurtInv'
<1>1. PICK h : h = Head(report)
  OBVIOUS
<1>2. /\ TakeBytes /\ report # <<>> /\ h.kind = "fragment" /\ h.id = expect
      /\ report' = Tail(report) /\ UNCHANGED <<teensy, ring, shipped>>
      /\ missing' = 0 /\ decoded' = Append(decoded, buffer')
  BY <1>1 DEF CompleteCommand, TakeBytes, NextIs, IsExpected
<1>3. h \in Way /\ \A y \in Way : y = h \/ Later(h.cmd, Num(h), y)
  BY <1>1, <1>2, HeadFirst
<1>4. PICK d \in Seq(Byte) : d = buffer'
  BY <1>2, TakeBytesAccount
<1>5. /\ \A c : IsDecoded(c) => IsDecoded(c)'
      /\ \A c : d = Whole(c) => IsDecoded(c)'
  BY <1>2, <1>4, DecodedMore
<1>6. ASSUME NEW f, Joining(f), ~Hurt(f)
      PROVE  IsDecoded(f)' /\ End(h) = Length[f] /\ f = h.cmd
  <2>1. /\ h.cmd = f /\ f \in Command /\ missing' = Length[f] - End(h)
        /\ Len(d) = End(h) /\ End(h) \in Nat /\ d = Bytes(f, 1, Len(d))
    BY <1>1, <1>2, <1>4, <1>6, FragmentFits
  <2>2. Length[f] \in Nat
    BY <2>1, InputAssumption DEF InputAssumption
  <2>3. End(h) = Length[f]
    BY <1>2, <2>1, <2>2
  <2>4. d = Whole(f)
    BY <2>1, <2>3 DEF Whole
  <2> QED
    BY <1>5, <2>1, <2>3, <2>4
<1>7. Hurt(h.cmd) \/ Joining(h.cmd)
  BY <1>2, <1>3, HeadFragment
<1>8. ASSUME ~Hurt(h.cmd), NEW b \in Nat, Comes(h.cmd, Num(h) + 1, b)'
      PROVE  FALSE
  <2>1. End(h) = Length[h.cmd]
    BY <1>6, <1>7, <1>8
  <2>2. /\ h.cmd \in Command /\ Num(h) \in Nat /\ Length[h.cmd] \in Nat
        /\ GoesOn(h.cmd, Num(h), End(h))
    BY <1>2, <1>3, WayTypes, InputAssumption DEF InputAssumption, WayInv
  <2>3. Way' \subseteq Way /\ UNCHANGED tail
    BY <1>1, <1>2, TakeLine DEF teensy
  <2>4. Comes(h.cmd, Num(h) + 1, b)
    BY <1>8, <2>3 DEF Comes
  <2>5. b = Length[h.cmd] + 1
    BY <2>1, <2>2, <2>4 DEF GoesOn
  <2>6. CASE \E x \in Way : x.kind = "fragment" /\ x.cmd = h.cmd /\ x.from = b
    <3>1. PICK x \in Way : x.kind = "fragment" /\ x.cmd = h.cmd /\ x.from = b
      BY <2>6
    <3>2. x.n \in Nat /\ x.n >= 1 /\ End(x) = b + x.n - 1
          /\ End(x) <= Length[h.cmd]
      BY <3>1, WayTypes DEF WayInv, ReportInv, End
    <3> QED
      BY <2>2, <2>5, <3>2
  <2>7. CASE tail # NoTail /\ tail.cmd = h.cmd /\ tail.from = b
    <3>1. tail.from <= Length[tail.cmd]
      BY <2>7 DEF IInv, TeensyType, TailOK
    <3> QED
      BY <2>2, <2>5, <2>7, <3>1
  <2> QED
    BY <2>4, <2>6, <2>7 DEF Comes
<1>9. \A f : Joining(f) => Hurt(f) \/ IsDecoded(f)' \/ Joining(f)'
  BY <1>6
<1>10. h.kind # "whole" => \/ Hurt(h.cmd)
                           \/ Joining(h.cmd)' /\ expect' = Num(h) + 1
                           \/ \A b \in Nat : ~Comes(h.cmd, Num(h) + 1, b)'
  BY <1>8
<1> QED
  BY <1>1, <1>2, <1>5, <1>9, <1>10, TakeUnhurt

LEMMA ExpectMoreUnhurt ==
  ASSUME IInv, Line, WayInv, BufferInv, ReportInv, UnhurtInv, ExpectMore
  PROVE  ReportInv' /\ UnhurtInv'
<1>1. PICK h : h = Head(report)
  OBVIOUS
<1>2. /\ TakeBytes /\ report # <<>> /\ h.kind = "fragment" /\ h.id = expect
      /\ report' = Tail(report) /\ UNCHANGED <<teensy, ring, shipped, decoded>>
      /\ expect' = expect + 1
  BY <1>1 DEF ExpectMore, TakeBytes, NextIs, IsExpected
<1>3. h \in Way /\ \A y \in Way : y = h \/ Later(h.cmd, Num(h), y)
  BY <1>1, <1>2, HeadFirst
<1>4. expect' # 0 /\ Num(h) = expect
  BY <1>2 DEF IInv, InputType, Num
<1>5. ASSUME NEW f, Joining(f), ~Hurt(f)
      PROVE  Joining(f)'
  BY <1>1, <1>2, <1>4, <1>5, FragmentFits DEF Joining
<1>6. Hurt(h.cmd) \/ Joining(h.cmd)
  BY <1>2, <1>3, HeadFragment
<1>7. \A c : IsDecoded(c) => IsDecoded(c)'
  BY <1>2 DEF IsDecoded
<1>8. Hurt(h.cmd) \/ (Joining(h.cmd)' /\ expect' = Num(h) + 1)
  BY <1>2, <1>4, <1>5, <1>6
<1> QED
  BY <1>1, <1>2, <1>5, <1>7, <1>8, TakeUnhurt

LEMMA RefuseUnhurt ==
  ASSUME IInv, Line, WayInv, BufferInv, ReportInv, UnhurtInv,
         RefuseLength \/ RefuseFragment
  PROVE  ReportInv' /\ UnhurtInv'
<1>1. PICK h : h = Head(report)
  OBVIOUS
<1>2. /\ report # <<>> /\ h.kind = "fragment" /\ report' = <<>>
      /\ UNCHANGED <<teensy, ring, shipped, decoded>>
      /\ (TakeBytes /\ missing' < 0) \/ h.id # expect
  BY <1>1 DEF RefuseLength, RefuseFragment, TakeBytes, NextIs, IsExpected
<1>3. h \in Way /\ \A y \in Way : y = h \/ Later(h.cmd, Num(h), y)
  BY <1>1, <1>2, HeadFirst
<1>4. \A f : Joining(f) => Hurt(f)
  <2>1. CASE h.id # expect
    BY <1>1, <1>2, <1>3, <2>1, GivenUp
  <2>2. CASE TakeBytes /\ missing' < 0
    BY <1>1, <2>2, FragmentFits
  <2> QED
    BY <1>2, <2>1, <2>2
<1>5. Hurt(h.cmd)
  BY <1>2, <1>3, <1>4, HeadFragment
<1>6. \A c : IsDecoded(c) => IsDecoded(c)'
  BY <1>2 DEF IsDecoded
<1> QED
  BY <1>1, <1>2, <1>4, <1>5, <1>6, TakeUnhurt

LEMMA InitUnhurt == Init => ReportInv /\ UnhurtInv
<1> SUFFICES ASSUME Init
             PROVE  ReportInv /\ UnhurtInv
  OBVIOUS
<1>1. Way = {}
  BY DEF Init, Way, Elements
<1>2. ReportInv
  BY <1>1 DEF Init, ReportInv, FragmentFirst
<1>3. UnhurtInv
  BY <1>1 DEF Init, UnhurtInv, Comes
<1> QED
  BY <1>2, <1>3

LEMMA StutterUnhurt ==
  ASSUME ReportInv, UnhurtInv, UNCHANGED vars
  PROVE  ReportInv' /\ UnhurtInv'
<1>1. UNCHANGED <<next, filling, tail, ring, report, expect, buffer, decoded,
                  shipped>>
  BY DEF vars, teensy, assembly
<1>2. Way' = Way
  BY <1>1 DEF Way
<1>3. \A c : Hurt(c)' <=> Hurt(c)
  BY <1>1, LostSame DEF Hurt, ClosedUnderHurt
<1>4. \A c, i, b : Comes(c, i, b)' <=> Comes(c, i, b)
  BY <1>1, <1>2 DEF Comes
<1>5. ReportInv'
  BY <1>1, <1>2 DEF ReportInv, SentOut
<1>6. UnhurtInv'
  BY <1>1, <1>2, <1>3, <1>4
     DEF UnhurtInv, IsDecoded, BeginComes, PartComes, Joining
<1> QED
  BY <1>5, <1>6

LEMMA UnhurtStep ==
  ASSUME IInv, IInv', SpliceInv, ReportInv, UnhurtInv, [Next]_vars
  PROVE  ReportInv' /\ UnhurtInv'
<1>1. Line /\ WayInv /\ BufferInv
  BY DEF SpliceInv
<1>2. CASE PutWhole \/ PutStart \/ PutFragment
  <2>1. UNCHANGED <<ring, report, shipped, assembly, decoded>>
    BY <1>2 DEF PutWhole, PutStart, PutFragment
  <2>2. Adds
    BY <1>1, <1>2, PutWholeWay, PutStartWay, PutFragmentWay
  <2> QED
    BY <2>1, <2>2, AddsUnhurt
<1>3. CASE Ship \/ FetchReport
  BY <1>1, <1>3, ShipUnhurt, FetchUnhurt
<1>4. CASE TakeWhole \/ TakeStart \/ CompleteCommand \/ ExpectMore
           \/ RefuseLength \/ RefuseFragment
  BY <1>1, <1>4, TakeWholeUnhurt, TakeStartUnhurt, CompleteUnhurt,
     ExpectMoreUnhurt, RefuseUnhurt
<1>5. CASE UNCHANGED vars
  BY <1>5, StutterUnhurt
<1> QED
  BY <1>2, <1>3, <1>4, <1>5 DEF Next, Main

\* When nothing comes any more, a command that is still put together is hurt.
LEMMA UnhurtAtRest ==
  ASSUME IInv, SpliceInv, UnhurtInv
  PROVE  UnhurtIsDecoded
<1> SUFFICES ASSUME ring = <<>>, report = <<>>, filling = <<>>, tail = NoTail,
                    NEW c \in 1 .. next - 1, ~Hurt(c)
             PROVE  IsDecoded(c)
  BY DEF UnhurtIsDecoded, IsDecoded
<1>1. Way = {}
  BY DEF Way, Elements
<1>2. \A f, i, b : ~Comes(f, i, b)
  BY <1>1 DEF Comes
<1>3. WayInv /\ BufferInv
  BY DEF SpliceInv
<1>4. ~Joining(c)
  BY <1>2, <1>3, UnhurtNext DEF Joining
<1> QED
  BY <1>1, <1>4 DEF UnhurtInv, BeginComes

-----------------------------------------------------------------------------
(***************************************************************************)
(* The theorems.                                                           *)
(***************************************************************************)

\* Every variable keeps its type; the input buffer never holds more than it
\* has room for (TeensyControls_input_store).
THEOREM TypeCorrect == Spec => []TypeOK
<1>1. Sent \subseteq Chunk
  BY DEF Sent
<1>2. IInv => TypeOK
  BY <1>1 DEF IInv, TeensyType, BufferType, InputType, TypeOK
<1> QED
  BY <1>2, Invariant, PTL

\* While a fragment is expected, what was collected and what is missing make
\* up the announced length, whatever is lost (input_packet).
THEOREM BytesAccounted == Spec => []AccountsForBytes
<1>1. IInv => AccountsForBytes
  BY DEF IInv
<1> QED
  BY <1>1, Invariant, PTL

\* Commands are decoded in the order the Teensy sent them and none twice, for
\* every loss of reports (input_packet).
THEOREM DecodedInOrder == Spec => []InOrderOnce
<1>1. IInv /\ OrderInv /\ [Next]_vars => OrderInv'
  BY PutOrder, PutFragmentOrder, ShipOrder, FetchOrder, TakeWholeOrder,
     TakeStartOrder, FragmentOrder, RefuseFragmentOrder, StutterOrder
     DEF Next, Main
<1>2. OrderInv => InOrderOnce
  BY DEF OrderInv
<1> QED
  BY InitOrder, Invariant, <1>1, <1>2, PTL DEF Spec

\* A decoded command has the length it announced, and its bytes are in order
\* but where a fragment of it and the start of a later command were lost
\* (input_packet).
THEOREM OnlyLossSplices == Spec => []SplicedOnlyByLoss
<1>1. SpliceInv => SplicedOnlyByLoss
  BY DEF SpliceInv, DecodedInv, Made, SplicedOnlyByLoss
<1> QED
  BY Spliced, <1>1, PTL

\* After every loss the assembly finds its way back: once all that was sent
\* has been looked at, each command was decoded as it was sent or is hurt
\* (input_packet).
THEOREM FindsItsWayBack == Spec => []UnhurtIsDecoded
<1>1. /\ IInv /\ IInv' /\ SpliceInv
      /\ ReportInv /\ UnhurtInv /\ [Next]_vars
      => ReportInv' /\ UnhurtInv'
  BY UnhurtStep
<1>2. IInv /\ SpliceInv /\ UnhurtInv => UnhurtIsDecoded
  BY UnhurtAtRest
<1> QED
  BY InitUnhurt, Invariant, Spliced, <1>1, <1>2, PTL DEF Spec
=============================================================================
