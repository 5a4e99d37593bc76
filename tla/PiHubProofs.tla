---------------------------- MODULE PiHubProofs ----------------------------
(***************************************************************************)
(* Proofs about PiHub, for any number of Teensys, any ids, values, buffers *)
(* and mapping file.  In this order:                                       *)
(*   ListsInStep    the item lists, each on its own                        *)
(*   HubTypeCorrect values and packets: what the loops of Items and PiHub  *)
(*                  compute stays within its type                          *)
(*   RemoteFollows  what an item holds as remote is what its Teensy shows  *)
(***************************************************************************)
EXTENDS PiHub, DataLemmas, FiniteSetTheorems

IsItem(x) ==
  x = [id |-> x.id, type |-> x.type, val |-> x.val, remote |-> x.remote,
       changed |-> x.changed]

\* A list of items of Teensy t while main is in phase ph.
GoodItem(t, x, ph) ==
  /\ IsItem(x) /\ IsMapped(t, x.id)
  /\ x.changed => ph \in {"input", "update"} /\ x.val = x.remote

NoIdTwice(s) ==
  \A i, j \in 1 .. Len(s) : s[j].id = s[i].id => j = i

GoodList(t, s, ph) ==
  /\ IsSequence(s) /\ NoIdTwice(s)
  /\ \A i \in 1 .. Len(s) : GoodItem(t, s[i], ph)

MainOK == turn \in Nat /\ turn >= 1

Reports == inRing \in [Teensy -> Seq(Report)]

IInv ==
  /\ MainOK /\ Reports
  /\ items = [t \in Teensy |-> items[t]]
  /\ \A t \in Teensy : GoodList(t, items[t], phase)

-----------------------------------------------------------------------------
(***************************************************************************)
(* The operations on a list.                                               *)
(***************************************************************************)

\* A list whose items keep their id is a list without an id twice.
LEMMA SameIds ==
  ASSUME NEW t, NEW s, NEW ph, NEW r, NEW rph, GoodList(t, s, ph),
         IsSequence(r), Len(r) = Len(s),
         \A i \in 1 .. Len(s) : r[i].id = s[i].id /\ GoodItem(t, r[i], rph)
  PROVE  GoodList(t, r, rph)
  BY DEF GoodList, NoIdTwice

\* new_item: an item in front, if the list has none with the id.
LEMMA RegisterGood ==
  ASSUME NEW t, NEW s, NEW ph, NEW id, NEW type, GoodList(t, s, ph)
  PROVE  GoodList(t, RegisterItem(s, id, type, IsMapped(t, id)), ph)
<1> DEFINE e == [id |-> id, type |-> type, val |-> NoValue,
                 remote |-> NoValue, changed |-> FALSE]
<1>1. CASE ~IsMapped(t, id) \/ HasItem(s, id)
  BY <1>1 DEF RegisterItem
<1>2. CASE IsMapped(t, id) /\ ~HasItem(s, id)
  <2>1. RegisterItem(s, id, type, IsMapped(t, id)) = <<e>> \o s
    BY <1>2 DEF RegisterItem
  <2>2. GoodItem(t, e, ph) /\ e.id = id
    BY <1>2 DEF GoodItem, IsItem
  <2> DEFINE long == <<e>> \o s
  <2> HIDE DEF e
  <2>3. /\ IsSequence(long)
        /\ \A i \in 1 .. Len(long) :
             \/ i = 1 /\ long[i] = e
             \/ i - 1 \in 1 .. Len(s) /\ long[i] = s[i - 1]
    BY InFront DEF GoodList
  <2> HIDE DEF long
  <2>4. \A i \in 1 .. Len(long) : GoodItem(t, long[i], ph)
    BY <2>2, <2>3 DEF GoodList
  <2>5. \A i \in 1 .. Len(s) : s[i].id # id
    BY <1>2 DEF HasItem
  <2>6. NoIdTwice(long)
    <3> SUFFICES ASSUME NEW i \in 1 .. Len(long), NEW j \in 1 .. Len(long),
                        long[j].id = long[i].id
                 PROVE  j = i
      BY DEF NoIdTwice
    <3>1. CASE i = 1
      BY <2>2, <2>3, <2>5, <3>1
    <3>2. CASE j = 1
      BY <2>2, <2>3, <2>5, <3>2
    <3>3. CASE i # 1 /\ j # 1
      <4>1. /\ i - 1 \in 1 .. Len(s) /\ long[i] = s[i - 1]
            /\ j - 1 \in 1 .. Len(s) /\ long[j] = s[j - 1]
        BY <2>3, <3>3
      <4>2. j - 1 = i - 1
        BY <4>1 DEF GoodList, NoIdTwice
      <4> QED
        BY <4>2
    <3> QED
      BY <3>1, <3>2, <3>3
  <2>7. long = RegisterItem(s, id, type, IsMapped(t, id))
    BY <2>1 DEF long
  <2> QED
    BY <2>3, <2>4, <2>6, <2>7 DEF GoodList
<1> QED
  BY <1>1, <1>2

\* decode_packet marks an item whose value and remote value are the same.
LEMMA WriteGood ==
  ASSUME NEW t, NEW s, NEW id, NEW v, GoodList(t, s, "input")
  PROVE  GoodList(t, WriteItem(s, id, v), "input")
<1> DEFINE r == WriteItem(s, id, v)
<1>1. IsSequence(r) /\ Len(r) = Len(s)
  BY DEF GoodList, IsSequence, WriteItem
<1>2. ASSUME NEW i \in 1 .. Len(s)
      PROVE  r[i].id = s[i].id /\ GoodItem(t, r[i], "input")
  <2>1. GoodItem(t, s[i], "input")
    BY DEF GoodList
  <2>2. \/ r[i] = s[i]
        \/ \E w : r[i] = [s[i] EXCEPT !.val = w, !.remote = w,
                                      !.changed = TRUE]
    BY DEF WriteItem
  <2> HIDE DEF r
  <2>3. CASE r[i] = s[i]
    BY <2>1, <2>3
  <2>4. ASSUME NEW w, r[i] = [s[i] EXCEPT !.val = w, !.remote = w,
                                          !.changed = TRUE]
        PROVE  r[i].id = s[i].id /\ GoodItem(t, r[i], "input")
    <3>1. r[i] = [id |-> s[i].id, type |-> s[i].type, val |-> w, remote |-> w,
                  changed |-> TRUE]
      BY <2>1, <2>4 DEF GoodItem, IsItem
    <3> QED
      BY <2>1, <3>1 DEF GoodItem, IsItem
  <2> QED
    BY <2>2, <2>3, <2>4
<1> HIDE DEF r
<1>3. GoodList(t, r, "input")
  BY <1>1, <1>2, SameIds
<1> QED
  BY <1>3 DEF r

LEMMA SetChanged ==
  ASSUME NEW x, NEW b, IsItem(x)
  PROVE  [x EXCEPT !.changed = b]
           = [id |-> x.id, type |-> x.type, val |-> x.val,
              remote |-> x.remote, changed |-> b]
  BY DEF IsItem

\* Steps 2 and 3 of update leave no item marked.
LEMMA ReadGood ==
  ASSUME NEW t, NEW x, NEW v, GoodItem(t, x, "update"), NEW ph
  PROVE  LET y == [ReadItem(x, v) EXCEPT !.changed = FALSE]
         IN  y.id = x.id /\ GoodItem(t, y, ph)
<1> DEFINE q == ReadItem(x, v)
           y == [q EXCEPT !.changed = FALSE]
<1>1. q.id = x.id /\ IsItem(q)
  <2>1. x = [id |-> x.id, type |-> x.type, val |-> x.val,
             remote |-> x.remote, changed |-> x.changed]
    BY DEF GoodItem, IsItem
  <2>2. \E w, z : q = [id |-> x.id, type |-> x.type, val |-> w,
                       remote |-> z, changed |-> x.changed]
    BY <2>1 DEF ReadItem
  <2> HIDE DEF q
  <2> QED
    BY <2>2 DEF IsItem
<1> HIDE DEF q
<1>3. y = [id |-> q.id, type |-> q.type, val |-> q.val,
           remote |-> q.remote, changed |-> FALSE]
  BY <1>1, SetChanged
<1> HIDE DEF y
<1>4. y.id = x.id /\ GoodItem(t, y, ph)
  BY <1>1, <1>3 DEF GoodItem, IsItem
<1> QED
  BY <1>4 DEF y, q

\* output takes what was sent for what the Teensy has.
LEMMA MarkGood ==
  ASSUME NEW t, NEW s, GoodList(t, s, "output")
  PROVE  GoodList(t, MarkSent(s), "output")
<1> DEFINE r == MarkSent(s)
<1>1. IsSequence(r) /\ Len(r) = Len(s)
  BY DEF GoodList, IsSequence, MarkSent
<1>2. ASSUME NEW i \in 1 .. Len(s)
      PROVE  r[i].id = s[i].id /\ GoodItem(t, r[i], "output")
  <2>1. GoodItem(t, s[i], "output")
    BY DEF GoodList
  <2>2. r[i] = [s[i] EXCEPT !.remote = s[i].val]
    BY DEF MarkSent
  <2>3. r[i] = [id |-> s[i].id, type |-> s[i].type, val |-> s[i].val,
                remote |-> s[i].val, changed |-> s[i].changed]
    BY <2>1, <2>2 DEF GoodItem, IsItem
  <2> HIDE DEF r
  <2> QED
    BY <2>1, <2>3 DEF GoodItem, IsItem
<1> HIDE DEF r
<1>3. GoodList(t, r, "output")
  BY <1>1, <1>2, SameIds
<1> QED
  BY <1>3 DEF r

\* Lists in a phase in which items may be marked.
LEMMA LaterGood ==
  ASSUME NEW t, NEW s, NEW ph, NEW later, GoodList(t, s, ph),
         later = ph \/ later \in {"input", "update"}
         \/ ph \notin {"input", "update"}
  PROVE  GoodList(t, s, later)
  BY DEF GoodList, GoodItem

-----------------------------------------------------------------------------
(***************************************************************************)
(* The steps.                                                              *)
(***************************************************************************)
LEMMA InitInv == Init => IInv
<1> SUFFICES ASSUME Init
             PROVE  IInv
  OBVIOUS
<1>5. MainOK /\ Reports
  BY DEF Init, MainOK, Reports
<1>1. \A t \in Teensy : items[t] = <<>>
  BY DEF Init
<1>2. items = [t \in Teensy |-> items[t]]
  BY DEF Init
<1>3. ASSUME NEW s, s = <<>>
      PROVE  IsSequence(s) /\ Len(s) = 0
  BY <1>3 DEF IsSequence
<1>4. ASSUME NEW t \in Teensy
      PROVE  GoodList(t, items[t], phase)
  BY <1>1, <1>3 DEF GoodList, NoIdTwice
<1> QED
  BY <1>2, <1>4, <1>5 DEF IInv

\* Steps that leave all items alone.
LEMMA SameItemsInv ==
  ASSUME IInv, MainOK', Reports', UNCHANGED items,
         \/ phase' = phase \/ phase' \in {"input", "update"}
         \/ phase \notin {"input", "update"}
  PROVE  IInv'
<1>1. ASSUME NEW t \in Teensy
      PROVE  GoodList(t, items[t], phase')
  BY LaterGood DEF IInv
<1> QED
  BY <1>1 DEF IInv

\* Steps that change the list of one Teensy, in the same phase.
LEMMA OneListInv ==
  ASSUME IInv, MainOK', Reports', NEW s, items' = [items EXCEPT ![turn] = s], phase' = phase,
         turn \in Teensy => GoodList(turn, s, phase)
  PROVE  IInv'
<1>1. \A t \in Teensy : items'[t] = IF t = turn THEN s ELSE items[t]
  BY DEF IInv
<1>2. items' = [t \in Teensy |-> items'[t]]
  BY DEF IInv
<1>3. ASSUME NEW t \in Teensy
      PROVE  GoodList(t, items'[t], phase')
  BY <1>1 DEF IInv
<1> QED
  BY <1>2, <1>3 DEF IInv

\* The reports in the input buffers.
LEMMA SendReports ==
  ASSUME Reports, NEW t \in Teensy, NEW more \in Seq(Report), Send(t, more)
  PROVE  Reports'
<1> DEFINE s == inRing[t] \o more
           n == Min({Len(inRing[t]) + Len(more), InputCap})
<1>1. inRing[t] \in Seq(Report)
  BY DEF Reports
<1> HIDE DEF Report
<1>2. s \in Seq(Report) /\ Len(s) = Len(inRing[t]) + Len(more)
  BY <1>1
<1>3. n \in Nat /\ n <= Len(s)
  <2> DEFINE both == Len(inRing[t]) + Len(more)
  <2>1. both \in Nat /\ InputCap \in Nat /\ both = Len(s)
    BY <1>1, <1>2, HubAssumption DEF HubAssumption
  <2>2. n = Min({both, InputCap})
    OBVIOUS
  <2> HIDE DEF both, s, n
  <2>3. /\ Min({both, InputCap}) \in {both, InputCap}
        /\ Min({both, InputCap}) <= both
    BY <2>1, MinOfTwo
  <2> QED
    BY <2>1, <2>2, <2>3
<1>4. inRing' = [inRing EXCEPT ![t] = SubSeq(s, 1, n)]
  BY DEF Send
<1> HIDE DEF s, n
<1>5. SubSeq(s, 1, n) \in Seq(Report)
  BY <1>2, <1>3, SubSeqType
<1> QED
  BY <1>4, <1>5 DEF Reports

\* What a Teensy sends when it is asked for its ids.
LEMMA IdsType ==
  SetToSeq(Id) \in [1 .. Cardinality(Id) -> Id] /\ Cardinality(Id) \in Nat
<1>1. Cardinality(Id) \in Nat /\ ExistsBijection(1 .. Cardinality(Id), Id)
  BY HubAssumption, FS_CardinalityType DEF HubAssumption
<1>2. \E f \in [1 .. Cardinality(Id) -> Id] : IsInjective(f)
  BY <1>1 DEF ExistsBijection, Bijection, Injection, IsInjective
<1> QED
  BY <1>1, <1>2 DEF SetToSeq

LEMMA RegistersType ==
  [i \in 1 .. Cardinality(Id) |-> [op |-> "register", id |-> SetToSeq(Id)[i]]]
    \in Seq(Report)
<1>1. \A i \in 1 .. Cardinality(Id) :
        [op |-> "register", id |-> SetToSeq(Id)[i]] \in Report
  BY IdsType DEF Report
<1> HIDE DEF Report
<1> QED
  BY <1>1, IdsType, SeqOfFunction

LEMMA InputPacketInv == IInv /\ InputPacket => IInv'
<1> SUFFICES ASSUME IInv, InputPacket
             PROVE  IInv'
  OBVIOUS
<1> DEFINE r == Head(inRing[turn])
           s == items[turn]
<1>1. Decode(turn, r) /\ phase = "input" /\ phase' = "input"
  BY DEF InputPacket
<1>2. turn \in Teensy /\ GoodList(turn, s, "input")
  BY <1>1, HubAssumption DEF IInv, MainOK, InputPacket, HubAssumption, Teensy
<1>6. MainOK' /\ Reports' /\ r.op \in {"register", "write", "command"}
  <2>1. inRing[turn] \in Seq(Report) /\ inRing[turn] # <<>>
    BY <1>2 DEF IInv, Reports, InputPacket
  <2>2. r \in Report /\ Tail(inRing[turn]) \in Seq(Report)
    <3> HIDE DEF Report
    <3> QED
      BY <2>1
  <2>3. r.op \in {"register", "write", "command"}
    BY <2>2 DEF Report
  <2>4. Reports'
    BY <2>2 DEF IInv, Reports, InputPacket
  <2>5. MainOK'
    BY DEF IInv, MainOK, InputPacket
  <2> QED
    BY <2>3, <2>4, <2>5
<1> HIDE DEF r
<1>3. CASE r.op = "register"
  <2>1. items' = [items EXCEPT ![turn] =
                    RegisterItem(s, r.id, TypeOf[turn][r.id],
                                 IsMapped(turn, r.id))]
    BY <1>1, <1>3 DEF Decode
  <2>2. GoodList(turn, RegisterItem(s, r.id, TypeOf[turn][r.id],
                                      IsMapped(turn, r.id)), "input")
    BY <1>2, RegisterGood
  <2> QED
    BY <1>1, <1>6, <2>1, <2>2, OneListInv
<1>4. CASE r.op = "write"
  <2>1. items' = [items EXCEPT ![turn] = WriteItem(s, r.id, r.val)]
    BY <1>1, <1>4 DEF Decode
  <2>2. GoodList(turn, WriteItem(s, r.id, r.val), "input")
    BY <1>2, WriteGood
  <2> QED
    BY <1>1, <1>6, <2>1, <2>2, OneListInv
<1>5. CASE r.op = "command"
  <2>1. UNCHANGED items
    BY <1>1, <1>5 DEF Decode
  <2> QED
    BY <1>1, <1>6, <2>1, SameItemsInv
<1> QED
  BY <1>3, <1>4, <1>5, <1>6

LEMMA UpdateInv == IInv /\ Update => IInv'
<1> SUFFICES ASSUME IInv, Update
             PROVE  IInv'
  OBVIOUS
<1>1. items' = [t \in Teensy |-> [i \in 1 .. Len(items[t]) |->
        [ReadItem(items[t][i], WrittenValues[RefOf[t][items[t][i].id]])
           EXCEPT !.changed = FALSE]]]
  BY DEF Update
<1>4. phase = "update" /\ phase' = "output" /\ MainOK' /\ Reports'
  BY DEF IInv, MainOK, Reports, Update, rings
<1>2. ASSUME NEW t \in Teensy
      PROVE  GoodList(t, items'[t], "output")
  <2> DEFINE s == items[t]
             New(i) == [ReadItem(s[i], WrittenValues[RefOf[t][s[i].id]])
                          EXCEPT !.changed = FALSE]
  <2>1. GoodList(t, s, "update")
    BY <1>4 DEF IInv
  <2>2. items'[t] = [i \in 1 .. Len(s) |-> New(i)]
    BY <1>1
  <2>3. ASSUME NEW i \in 1 .. Len(s)
        PROVE  New(i).id = s[i].id /\ GoodItem(t, New(i), "output")
    <3>1. GoodItem(t, s[i], "update")
      BY <2>1 DEF GoodList
    <3> QED
      BY <3>1, ReadGood
  <2> HIDE DEF New, s
  <2>4. IsSequence(items'[t]) /\ Len(items'[t]) = Len(s)
    BY <2>1, <2>2 DEF GoodList, IsSequence
  <2> QED
    BY <2>1, <2>2, <2>3, <2>4, SameIds
<1>3. items' = [t \in Teensy |-> items'[t]]
  BY <1>1
<1> QED
  BY <1>2, <1>3, <1>4 DEF IInv

LEMMA OutputDifferingInv == IInv /\ OutputDiffering => IInv'
<1> SUFFICES ASSUME IInv, OutputDiffering
             PROVE  IInv'
  OBVIOUS
<1>1. /\ phase = "output" /\ phase' = phase /\ MainOK' /\ Reports'
      /\ items' = [items EXCEPT ![turn] = MarkSent(items[turn])]
  BY DEF IInv, MainOK, Reports, OutputDiffering
<1>2. turn \in Teensy => GoodList(turn, MarkSent(items[turn]), phase)
  BY <1>1, MarkGood DEF IInv
<1> QED
  BY <1>1, <1>2, OneListInv

LEMMA PlainMainInv ==
  IInv /\ (InputNext \/ InputDone \/ OutputTooEarly \/ OutputDone \/ Buttons)
    => IInv'
<1> SUFFICES ASSUME IInv,
                    \/ InputNext \/ InputDone \/ OutputTooEarly \/ OutputDone
                    \/ Buttons
             PROVE  IInv'
  OBVIOUS
<1>1. CASE InputNext
  BY <1>1, SameItemsInv DEF InputNext, IInv, MainOK, Reports, hub, rings
<1>2. CASE InputDone
  BY <1>2, SameItemsInv DEF InputDone, IInv, MainOK, Reports, hub, rings
<1>3. CASE OutputTooEarly
  BY <1>3, SameItemsInv DEF OutputTooEarly, IInv, MainOK, Reports
<1>4. CASE OutputDone
  BY <1>4, SameItemsInv DEF OutputDone, IInv, MainOK, Reports, hub, rings
<1>5. CASE Buttons
  BY <1>5, SameItemsInv DEF Buttons, IInv, MainOK, Reports, rings
<1> QED
  BY <1>1, <1>2, <1>3, <1>4, <1>5

\* The Teensys and their users.
LEMMA TeensyInv ==
  ASSUME IInv, NEW t \in Teensy,
         \/ Receive(t) \/ PressCommand(t)
         \/ \E id \in Id, v \in KnobValue : TurnKnob(t, id, v)
  PROVE  IInv'
<1>1. UNCHANGED <<items, phase, turn>>
  BY DEF Receive, PressCommand, TurnKnob, hub
<1>2. Reports
  BY DEF IInv
<1>3. CASE Receive(t)
  <2>1. UNCHANGED inRing \/
        Send(t, [i \in 1 .. Cardinality(Id) |->
                   [op |-> "register", id |-> SetToSeq(Id)[i]]])
    BY <1>3 DEF Receive
  <2>2. Reports'
    BY <1>2, <2>1, RegistersType, SendReports DEF Reports
  <2> QED
    BY <1>1, <2>2, SameItemsInv DEF IInv, MainOK
<1>4. CASE PressCommand(t)
  <2>1. <<[op |-> "command"]>> \in Seq(Report)
    BY DEF Report
  <2>2. Reports'
    BY <1>2, <1>4, <2>1, SendReports DEF PressCommand
  <2> QED
    BY <1>1, <2>2, SameItemsInv DEF IInv, MainOK
<1>5. ASSUME NEW id \in Id, NEW v \in KnobValue, TurnKnob(t, id, v)
      PROVE  IInv'
  <2>1. <<[op |-> "write", id |-> id, val |-> v]>> \in Seq(Report)
    BY HubAssumption DEF HubAssumption, Report
  <2>2. Reports'
    BY <1>2, <1>5, <2>1, SendReports DEF TurnKnob
  <2> QED
    BY <1>1, <2>2, SameItemsInv DEF IInv, MainOK
<1> QED
  BY <1>3, <1>4, <1>5

LEMMA StepInv == IInv /\ [Next]_vars => IInv'
<1>1. IInv /\ UNCHANGED vars => IInv'
  BY SameItemsInv DEF vars, hub, rings, IInv, MainOK, Reports
<1>2. IInv /\ Main => IInv'
  BY InputPacketInv, UpdateInv, OutputDifferingInv, PlainMainInv DEF Main
<1> QED
  BY <1>1, <1>2, TeensyInv DEF Next

-----------------------------------------------------------------------------
(***************************************************************************)
(* The theorems.                                                           *)
(***************************************************************************)
LEMMA Invariant == Spec => []IInv
  BY InitInv, StepInv, PTL DEF Spec

\* TeensyControls_new_item and update_xplane keep the lists in step: one item
\* for an id, only mapped ids, and no change left marked after update.
THEOREM ListsInStep == Spec => []ItemsInStep
<1>1. IInv => ItemsInStep
  BY DEF IInv, GoodList, GoodItem, NoIdTwice, ItemsInStep, Differs
<1> QED
  BY <1>1, Invariant, PTL

-----------------------------------------------------------------------------
(***************************************************************************)
(* Conversions.                                                            *)
(***************************************************************************)
Half == Thousandth \div 2

LEMMA Units ==
  /\ Thousandth \in Nat \ {0} /\ One \in Nat \ {0} /\ One % Thousandth = 0
  /\ Half \in Nat /\ Half < Thousandth
  /\ MaxValue \in Nat /\ MaxValue % Thousandth = 0
  BY HubAssumption DEF HubAssumption, Half

LEMMA ValueFacts ==
  /\ NoValue \notin Value
  /\ \A v : v \in Value <=> v \in Nat /\ v <= MaxValue
  BY HubAssumption DEF HubAssumption

LEMMA NarrowFacts ==
  Narrow[NoValue] = NoValue /\ \A v \in Value : Narrow[v] \in Value
  BY HubAssumption DEF HubAssumption

LEMMA TruncatedFacts ==
  ASSUME NEW v \in Nat
  PROVE  /\ Truncated(v) \in Nat /\ Truncated(v) % Thousandth = 0
         /\ Truncated(v) <= v /\ v < Truncated(v) + Thousandth
<1>1. Thousandth \in Nat \ {0}
  BY Units
<1> QED
  BY <1>1, CutOff DEF Truncated

\* Of two multiples of a thousandth the larger one is a thousandth larger.
LEMMA NextThousandth ==
  ASSUME NEW a \in Nat, NEW b \in Nat, a % Thousandth = 0, b % Thousandth = 0,
         a < b
  PROVE  a + Thousandth <= b
<1> DEFINE p == a \div Thousandth
           q == b \div Thousandth
           T == Thousandth
<1>1. T \in Nat \ {0}
  BY Units
<1>2. p \in Nat /\ q \in Nat /\ a = T * p /\ b = T * q
  BY <1>1, Division
<1> HIDE DEF p, q, T
<1>3. p < q
  <2>1. CASE q < p
    <3>1. T * q + T <= T * p
      BY <1>1, <1>2, <2>1, Multiples
    <3> QED
      BY <1>1, <1>2, <3>1
  <2>2. CASE q = p
    BY <1>2, <2>2
  <2> QED
    BY <1>2, <2>1, <2>2
<1>4. T * p + T <= T * q
  BY <1>1, <1>2, <1>3, Multiples
<1> QED
  BY <1>2, <1>4 DEF T

LEMMA RoundedFacts ==
  ASSUME NEW v \in Value
  PROVE  Rounded(v) \in Value /\ Rounded(v) % Thousandth = 0
<1> DEFINE w == Truncated(v + Half)
<1>1. v \in Nat /\ v <= MaxValue /\ v + Half \in Nat
  BY Units, ValueFacts
<1>2. w \in Nat /\ w % Thousandth = 0 /\ w <= v + Half
  BY <1>1, TruncatedFacts
<1>3. Rounded(v) = w
  BY DEF Rounded, Half
<1> HIDE DEF w
<1>4. w <= MaxValue
  <2> SUFFICES ASSUME MaxValue < w PROVE FALSE
    BY <1>2, Units
  <2>1. MaxValue + Thousandth <= w
    BY <1>2, Units, NextThousandth
  <2> QED
    BY <1>1, <1>2, <2>1, Units
<1> QED
  BY <1>2, <1>3, <1>4, ValueFacts

\* What is read for an item, and what comes from a Teensy.
LEMMA OfTypeFacts ==
  ASSUME NEW type, NEW v \in Value
  PROVE  OfType(type, v) \in Value /\ Heard(type, v) \in Value
<1>1. v \in Nat /\ v <= MaxValue
  BY ValueFacts
<1>2. Truncated(v) \in Value /\ Narrow[Truncated(v)] \in Value
  <2>1. Truncated(v) \in Value
    BY <1>1, TruncatedFacts, Units, ValueFacts
  <2> QED
    BY <2>1, NarrowFacts
<1>3. Whole(v) \in Nat /\ Whole(v) <= v
  <2>1. One \in Nat \ {0}
    BY Units
  <2> QED
    BY <1>1, <2>1, CutOff DEF Whole
<1>4. Whole(v) \in Value
  BY <1>1, <1>3, Units, ValueFacts
<1> QED
  BY <1>2, <1>4 DEF OfType, Heard

LEMMA AsSentFacts ==
  ASSUME NEW type, NEW v \in AnyValue
  PROVE  AsSent(type, v) \in AnyValue
  BY NarrowFacts DEF AsSent, AnyValue

-----------------------------------------------------------------------------
(***************************************************************************)
(* The length of a packet.                                                 *)
(***************************************************************************)
LEMMA BytesFacts ==
  ASSUME NEW cmd \in Command
  PROVE  Bytes(cmd) \in Nat /\ Bytes(cmd) >= 4 /\ Bytes(cmd) <= PacketBytes
<1>1. Bytes(cmd) \in {4, 10}
  BY DEF Bytes
<1>2. PacketBytes \in Nat /\ PacketBytes >= 10
  BY HubAssumption DEF HubAssumption
<1> QED
  BY <1>1, <1>2

\* Lengths(f, p, n): f has the lengths of the first n commands of p.
Lengths(f, p, n) ==
  /\ f \in [0 .. n -> Nat] /\ f[0] = 0
  /\ \A k \in 1 .. n : f[k] = f[k - 1] + Bytes(p[k])

LEMMA PacketLenSteps ==
  ASSUME NEW p \in Seq(Command)
  PROVE  \E f : Lengths(f, p, Len(p)) /\ PacketLen(p) = f[Len(p)]
<1> DEFINE N == Len(p)
           step == [n \in 1 .. N |-> [x \in Nat |-> x + Bytes(p[n])]]
           f[n \in 0 .. N] == IF n = 0 THEN 0 ELSE f[n - 1] + Bytes(p[n])
<1>1. PacketLen(p) = f[N]
  BY DEF PacketLen
<1>2. f = CHOOSE g : g = [n \in 0 .. N |->
                            IF n = 0 THEN 0 ELSE g[n - 1] + Bytes(p[n])]
  OBVIOUS
<1> HIDE DEF f
<1>3. N \in Nat
  OBVIOUS
<1>4. \A n \in 1 .. N : Bytes(p[n]) \in Nat
  <2>1. \A n \in 1 .. N : p[n] \in Command
    <3> HIDE DEF Command
    <3> QED
      OBVIOUS
  <2> QED
    BY <2>1, BytesFacts
<1>5. step \in [1 .. N -> [Nat -> Nat]]
  BY <1>4
<1>6. \A n \in 1 .. N, x \in Nat : step[n][x] = x + Bytes(p[n])
  OBVIOUS
<1> HIDE DEF N, step
<1>7. PICK g \in [0 .. N -> Nat] : Follows(g, N, 0, step)
  BY <1>3, <1>5, Recursion
<1>8. \A n \in 0 .. N : g[n] = IF n = 0 THEN 0 ELSE g[n - 1] + Bytes(p[n])
  <2> TAKE n \in 0 .. N
  <2>1. n # 0 => n \in 1 .. N /\ n - 1 \in 0 .. N
    BY <1>3
  <2> QED
    BY <2>1, <1>6, <1>7 DEF Follows
<1>9. g = [n \in 0 .. N |-> IF n = 0 THEN 0 ELSE g[n - 1] + Bytes(p[n])]
  BY <1>7, <1>8
<1>10. f = [n \in 0 .. N |-> IF n = 0 THEN 0 ELSE f[n - 1] + Bytes(p[n])]
  BY <1>2, <1>9
<1>11. \A n \in 0 .. N : f[n] = IF n = 0 THEN 0 ELSE f[n - 1] + Bytes(p[n])
  BY <1>10
<1>12. \A n \in 0 .. N : f[n] \in Nat
  <2> DEFINE S == {n \in 0 .. N : f[n] \in Nat}
  <2>1. 0 \in S
    BY <1>3, <1>11
  <2>2. ASSUME NEW n \in 1 .. N, n - 1 \in S
        PROVE  n \in S
    <3>1. /\ n \in 0 .. N /\ n # 0 /\ f[n - 1] \in Nat
          /\ f[n] = f[n - 1] + Bytes(p[n])
      BY <2>2, <1>3, <1>11
    <3> QED
      BY <3>1, <1>4
  <2> HIDE DEF S
  <2>3. \A n \in 0 .. N : n \in S
    BY <1>3, <2>1, <2>2, UpTo
  <2> QED
    BY <2>3 DEF S
<1>13. f \in [0 .. N -> Nat]
  BY <1>10, <1>12
<1>14. Lengths(f, p, N)
  <2>1. 0 \in 0 .. N /\ \A k \in 1 .. N : k \in 0 .. N /\ k # 0
    BY <1>3
  <2>2. f[0] = 0
    BY <1>11, <2>1
  <2>3. \A k \in 1 .. N : f[k] = f[k - 1] + Bytes(p[k])
    BY <1>11, <2>1
  <2> QED
    BY <1>13, <2>2, <2>3 DEF Lengths
<1> QED
  BY <1>1, <1>14 DEF N

\* Two such functions agree where their packets do.
LEMMA LengthsUnique ==
  ASSUME NEW n \in Nat, NEW f, NEW g, NEW p, NEW q, NEW m \in Nat, n <= m,
         Lengths(f, p, n), Lengths(g, q, m),
         \A k \in 1 .. n : q[k] = p[k]
  PROVE  g[n] = f[n]
<1> DEFINE S == {k \in 0 .. n : g[k] = f[k]}
<1>1. 0 \in S
  BY DEF Lengths
<1>2. ASSUME NEW k \in 1 .. n, k - 1 \in S
      PROVE  k \in S
  BY <1>2 DEF Lengths
<1> HIDE DEF S
<1>3. \A k \in 0 .. n : k \in S
  BY <1>1, <1>2, UpTo
<1> QED
  BY <1>3 DEF S

LEMMA PacketLenFacts ==
  ASSUME NEW p \in Seq(Command)
  PROVE  /\ PacketLen(p) \in Nat
         /\ p = <<>> => PacketLen(p) = 0
         /\ p # <<>> => PacketLen(p) >= 4
<1>1. PICK f : Lengths(f, p, Len(p)) /\ PacketLen(p) = f[Len(p)]
  BY PacketLenSteps
<1>2. Len(p) \in Nat /\ (p # <<>> => Len(p) \in 1 .. Len(p) /\ p[Len(p)] \in Command)
  <2> HIDE DEF Command
  <2> QED
    OBVIOUS
<1>3. CASE p = <<>>
  BY <1>1, <1>3 DEF Lengths
<1>4. CASE p # <<>>
  <2>1. f[Len(p)] = f[Len(p) - 1] + Bytes(p[Len(p)])
    BY <1>1, <1>2, <1>4 DEF Lengths
  <2>2. f[Len(p) - 1] \in Nat
    BY <1>1, <1>2, <1>4 DEF Lengths
  <2>3. Bytes(p[Len(p)]) \in Nat /\ Bytes(p[Len(p)]) >= 4
    BY <1>2, <1>4, BytesFacts
  <2> QED
    BY <1>1, <1>4, <2>1, <2>2, <2>3
<1> QED
  BY <1>3, <1>4

LEMMA PacketLenAppend ==
  ASSUME NEW p \in Seq(Command), NEW cmd \in Command
  PROVE  PacketLen(Append(p, cmd)) = PacketLen(p) + Bytes(cmd)
<1> DEFINE q == Append(p, cmd)
           n == Len(p)
<1>1. /\ q \in Seq(Command) /\ Len(q) = n + 1 /\ q[n + 1] = cmd
      /\ \A k \in 1 .. n : q[k] = p[k]
  <2> HIDE DEF Command
  <2> QED
    BY AppendFacts
<1>2. n \in Nat
  OBVIOUS
<1> HIDE DEF q, n
<1>3. PICK f : Lengths(f, p, n) /\ PacketLen(p) = f[n]
  BY PacketLenSteps DEF n
<1>4. PICK g : Lengths(g, q, n + 1) /\ PacketLen(q) = g[n + 1]
  BY <1>1, PacketLenSteps
<1>5. g[n] = f[n]
  BY <1>1, <1>2, <1>3, <1>4, LengthsUnique
<1>6. g[n + 1] = g[n] + Bytes(cmd)
  <2>1. n + 1 \in 1 .. n + 1 /\ (n + 1) - 1 = n
    BY <1>2
  <2> QED
    BY <1>1, <1>4, <2>1 DEF Lengths
<1> QED
  BY <1>3, <1>4, <1>5, <1>6 DEF q

-----------------------------------------------------------------------------
(***************************************************************************)
(* Output: the packet being filled and the output buffer behind it.        *)
(***************************************************************************)
Packets == Seq(Seq(Command))
Output == [packet : Seq(Command), ring : Packets]

\* No packet is longer than a report, and none in the buffer is empty.
GoodOut(out) ==
  /\ out \in Output /\ Len(out.ring) <= OutputCap
  /\ PacketLen(out.packet) <= PacketBytes
  /\ \A k \in 1 .. Len(out.ring) : PacketLen(out.ring[k]) \in 1 .. PacketBytes

LEMMA CommandTypes ==
  /\ \A b \in BOOLEAN : Enable(b) \in Command
  /\ \A id \in Id, v \in AnyValue : Data(id, v) \in Command
  BY DEF Enable, Data, Command

LEMMA OutputPacketIs ==
  ASSUME NEW out \in Output
  PROVE  /\ OutputPacket(out, OutputCap) \in Output
         /\ OutputPacket(out, OutputCap).packet = <<>>
         /\ IF Len(out.ring) < OutputCap
            THEN OutputPacket(out, OutputCap).ring
                   = Append(out.ring, out.packet)
            ELSE OutputPacket(out, OutputCap).ring = out.ring
<1> DEFINE C == Seq(Command)
<1>1. out.packet \in C /\ out.ring \in Seq(C) /\ <<>> \in C
  BY DEF Output, Packets
<1> HIDE DEF C
<1>2. Append(out.ring, out.packet) \in Seq(C)
  BY <1>1
<1> DEFINE r == IF Len(out.ring) < OutputCap THEN Append(out.ring, out.packet)
                ELSE out.ring
<1>3. r \in Seq(C)
  BY <1>1, <1>2
<1>4. OutputPacket(out, OutputCap) = [packet |-> <<>>, ring |-> r]
  BY DEF OutputPacket
<1>5. r = IF Len(out.ring) < OutputCap THEN Append(out.ring, out.packet)
          ELSE out.ring
  OBVIOUS
<1> HIDE DEF r
<1>6. OutputPacket(out, OutputCap) \in Output
  BY <1>1, <1>3, <1>4 DEF Output, Packets, C
<1> QED
  BY <1>4, <1>5, <1>6

LEMMA OutputPacketGood ==
  ASSUME NEW out, GoodOut(out), out.packet # <<>>
  PROVE  GoodOut(OutputPacket(out, OutputCap))
<1> DEFINE o == OutputPacket(out, OutputCap)
           C == Seq(Command)
<1>1. /\ out \in Output /\ out.packet \in C /\ out.ring \in Seq(C)
      /\ OutputCap \in Nat /\ PacketBytes \in Nat
  BY HubAssumption DEF GoodOut, Output, Packets, HubAssumption
<1>2. /\ o \in Output /\ o.packet = <<>>
      /\ IF Len(out.ring) < OutputCap THEN o.ring = Append(out.ring, out.packet)
         ELSE o.ring = out.ring
  BY <1>1, OutputPacketIs
<1>3. PacketLen(out.packet) \in 1 .. PacketBytes
  <2>1. PacketLen(out.packet) \in Nat /\ PacketLen(out.packet) >= 4
    BY <1>1, PacketLenFacts
  <2> QED
    BY <1>1, <2>1 DEF GoodOut
<1>4. PacketLen(o.packet) <= PacketBytes
  <2>1. o.packet \in C
    BY <1>2 DEF Output
  <2>2. PacketLen(o.packet) = 0
    BY <1>2, <2>1, PacketLenFacts
  <2> QED
    BY <1>1, <2>2
<1> HIDE DEF o
<1>5. CASE Len(out.ring) < OutputCap
  <2> HIDE DEF C
  <2>1. Len(out.ring) \in Nat
    BY <1>1
  <2>2. /\ Len(o.ring) = Len(out.ring) + 1
        /\ \A k \in 1 .. Len(o.ring) :
             \/ k \in 1 .. Len(out.ring) /\ o.ring[k] = out.ring[k]
             \/ k = Len(out.ring) + 1 /\ o.ring[k] = out.packet
    <3> DEFINE r == out.ring
               p == out.packet
    <3>1. r \in Seq(C) /\ p \in C /\ o.ring = Append(r, p)
      BY <1>1, <1>2, <1>5
    <3> HIDE DEF r, p
    <3>2. /\ Len(o.ring) = Len(r) + 1
          /\ \A k \in 1 .. Len(r) : o.ring[k] = r[k]
          /\ o.ring[Len(r) + 1] = p
      BY <3>1, AppendFacts
    <3>3. \A k \in 1 .. Len(r) + 1 : k \in 1 .. Len(r) \/ k = Len(r) + 1
      BY <2>1 DEF r
    <3> QED
      BY <3>2, <3>3 DEF r, p
  <2>3. Len(o.ring) <= OutputCap
    BY <1>1, <1>5, <2>1, <2>2
  <2>4. \A k \in 1 .. Len(o.ring) : PacketLen(o.ring[k]) \in 1 .. PacketBytes
    BY <1>3, <2>2 DEF GoodOut
  <2> QED
    BY <1>2, <1>4, <2>3, <2>4 DEF GoodOut, o
<1>6. CASE ~(Len(out.ring) < OutputCap)
  BY <1>2, <1>4, <1>6 DEF GoodOut, o
<1> QED
  BY <1>5, <1>6

LEMMA OutputDataIs ==
  ASSUME NEW room \in Output, NEW cmd \in Command
  PROVE  /\ [room EXCEPT !.packet = Append(@, cmd)] \in Output
         /\ [room EXCEPT !.packet = Append(@, cmd)].packet
              = Append(room.packet, cmd)
         /\ [room EXCEPT !.packet = Append(@, cmd)].ring = room.ring
<1> DEFINE C == Seq(Command)
<1>1. room.packet \in C /\ room.ring \in Packets
  BY DEF Output
<1>2. Append(room.packet, cmd) \in C
  <2> HIDE DEF Command
  <2> QED
    BY <1>1
<1> HIDE DEF C
<1>3. room = [packet |-> room.packet, ring |-> room.ring]
  BY DEF Output
<1>4. [room EXCEPT !.packet = Append(@, cmd)]
        = [packet |-> Append(room.packet, cmd), ring |-> room.ring]
  <2> DEFINE p == room.packet
             w == room.ring
             more == Append(room.packet, cmd)
  <2>1. room = [packet |-> p, ring |-> w]
    BY <1>3
  <2>2. [room EXCEPT !.packet = Append(@, cmd)] = [room EXCEPT !.packet = more]
    OBVIOUS
  <2> HIDE DEF p, w, more
  <2>3. [room EXCEPT !.packet = more] = [packet |-> more, ring |-> w]
    BY <2>1
  <2> QED
    BY <2>2, <2>3 DEF more, w
<1> QED
  BY <1>1, <1>2, <1>4 DEF Output, C

\* What output_data appends the command to.
RoomFor(out, cmd) ==
  IF PacketLen(out.packet) + Bytes(cmd) > PacketBytes
  THEN OutputPacket(out, OutputCap) ELSE out

LEMMA RoomForGood ==
  ASSUME NEW out, GoodOut(out), NEW cmd \in Command
  PROVE  /\ GoodOut(RoomFor(out, cmd))
         /\ PacketLen(RoomFor(out, cmd).packet) + Bytes(cmd) <= PacketBytes
<1>1. /\ out \in Output /\ out.packet \in Seq(Command)
      /\ PacketBytes \in Nat
  BY HubAssumption DEF GoodOut, Output, HubAssumption
<1>2. Bytes(cmd) \in Nat /\ Bytes(cmd) <= PacketBytes
  BY BytesFacts
<1>3. PacketLen(out.packet) \in Nat
  BY <1>1, PacketLenFacts
<1>4. CASE PacketLen(out.packet) + Bytes(cmd) > PacketBytes
  <2>1. RoomFor(out, cmd) = OutputPacket(out, OutputCap)
    BY <1>4 DEF RoomFor
  <2>2. out.packet # <<>>
    BY <1>1, <1>2, <1>4, PacketLenFacts
  <2>3. <<>> \in Seq(Command)
    OBVIOUS
  <2>4. PacketLen(RoomFor(out, cmd).packet) = 0
    BY <1>1, <2>1, <2>3, OutputPacketIs, PacketLenFacts
  <2> QED
    BY <1>2, <2>1, <2>2, <2>4, OutputPacketGood
<1>5. CASE ~(PacketLen(out.packet) + Bytes(cmd) > PacketBytes)
  <2>1. RoomFor(out, cmd) = out
    BY <1>5 DEF RoomFor
  <2> QED
    BY <1>1, <1>2, <1>3, <1>5, <2>1
<1> QED
  BY <1>4, <1>5

LEMMA OutputDataGood ==
  ASSUME NEW out, GoodOut(out), NEW cmd \in Command
  PROVE  GoodOut(OutputData(out, cmd, OutputCap))
<1> DEFINE room == RoomFor(out, cmd)
           o == [room EXCEPT !.packet = Append(@, cmd)]
<1>1. OutputData(out, cmd, OutputCap) = o
  BY DEF OutputData, RoomFor
<1>2. GoodOut(room) /\ PacketLen(room.packet) + Bytes(cmd) <= PacketBytes
  BY RoomForGood
<1> HIDE DEF room
<1>3. room \in Output /\ room.packet \in Seq(Command)
  BY <1>2 DEF GoodOut, Output
<1>4. o \in Output /\ o.packet = Append(room.packet, cmd) /\ o.ring = room.ring
  BY <1>3, OutputDataIs
<1> HIDE DEF o
<1>5. PacketLen(o.packet) <= PacketBytes
  BY <1>2, <1>3, <1>4, PacketLenAppend
<1>6. GoodOut(o)
  BY <1>2, <1>4, <1>5 DEF GoodOut
<1> QED
  BY <1>1, <1>6

LEMMA OutputFlushGood ==
  ASSUME NEW out, GoodOut(out)
  PROVE  GoodOut(OutputFlush(out, OutputCap))
  BY OutputPacketGood DEF OutputFlush

\* The loop over the items of one Teensy, one step at a time.
DataOf(item) == Data(item.id, AsSent(item.type, item.val))
OutputItemStep(o, item) ==
  IF Differs(item) THEN OutputData(o, DataOf(item), OutputCap) ELSE o

GoodOuts == {o \in Output : GoodOut(o)}

LEMMA OutputItemGood ==
  ASSUME NEW o \in GoodOuts, NEW item \in Item
  PROVE  OutputItemStep(o, item) \in GoodOuts
<1>1. DataOf(item) \in Command
  <2>1. item.id \in Id /\ item.val \in AnyValue
    BY DEF Item
  <2>2. AsSent(item.type, item.val) \in AnyValue
    BY <2>1, AsSentFacts
  <2> QED
    BY <2>1, <2>2, CommandTypes DEF DataOf
<1>2. GoodOut(o)
  BY DEF GoodOuts
<1>3. GoodOut(OutputData(o, DataOf(item), OutputCap))
  BY <1>1, <1>2, OutputDataGood
<1>4. GoodOut(OutputItemStep(o, item))
  BY <1>2, <1>3 DEF OutputItemStep
<1> QED
  BY <1>4 DEF GoodOuts, GoodOut

LEMMA OutputItemsSteps ==
  ASSUME NEW out, GoodOut(out), NEW s \in Seq(Item)
  PROVE  \E f \in [0 .. Len(s) -> GoodOuts] :
           /\ f[0] = out
           /\ \A n \in 1 .. Len(s) : f[n] = OutputItemStep(f[n - 1], s[n])
           /\ OutputItems(out, s, OutputCap) = f[Len(s)]
<1> DEFINE N == Len(s)
           step == [n \in 1 .. N |-> [x \in GoodOuts |-> OutputItemStep(x, s[n])]]
           f[n \in 0 .. N] ==
             IF n = 0 THEN out
             ELSE IF Differs(s[n])
             THEN OutputData(f[n - 1],
                             Data(s[n].id, AsSent(s[n].type, s[n].val)),
                             OutputCap)
             ELSE f[n - 1]
<1>1. OutputItems(out, s, OutputCap) = f[N]
  BY DEF OutputItems
<1>2. f = CHOOSE g : g = [n \in 0 .. N |->
                            IF n = 0 THEN out ELSE OutputItemStep(g[n - 1], s[n])]
  BY DEF OutputItemStep, DataOf
<1> HIDE DEF f
<1>3. N \in Nat /\ \A n \in 1 .. N : s[n] \in Item
  <2> HIDE DEF Item
  <2> QED
    OBVIOUS
<1>4. out \in GoodOuts
  BY DEF GoodOuts, GoodOut
<1>5. \A n \in 1 .. N, x \in GoodOuts : OutputItemStep(x, s[n]) \in GoodOuts
  BY <1>3, OutputItemGood
<1>6. step \in [1 .. N -> [GoodOuts -> GoodOuts]]
  <2> HIDE DEF GoodOuts
  <2> QED
    BY <1>5
<1>7. \A n \in 1 .. N, x \in GoodOuts : step[n][x] = OutputItemStep(x, s[n])
  OBVIOUS
<1> DEFINE A == GoodOuts
<1> HIDE DEF N, A, step
<1>8. PICK g \in [0 .. N -> A] : Follows(g, N, out, step)
  BY <1>3, <1>4, <1>6, Recursion DEF A
<1>9. \A n \in 0 .. N :
        g[n] = IF n = 0 THEN out ELSE OutputItemStep(g[n - 1], s[n])
  <2> TAKE n \in 0 .. N
  <2>1. n # 0 => n \in 1 .. N /\ n - 1 \in 0 .. N
    BY <1>3
  <2>2. n # 0 => g[n - 1] \in GoodOuts
    BY <1>8, <2>1 DEF A
  <2> QED
    BY <2>1, <2>2, <1>7, <1>8 DEF Follows
<1>10. g = [n \in 0 .. N |->
              IF n = 0 THEN out ELSE OutputItemStep(g[n - 1], s[n])]
  BY <1>8, <1>9
<1>11. f = [n \in 0 .. N |->
              IF n = 0 THEN out ELSE OutputItemStep(f[n - 1], s[n])]
  BY <1>2, <1>10
<1>12. \A n \in 0 .. N :
         f[n] = IF n = 0 THEN out ELSE OutputItemStep(f[n - 1], s[n])
  BY <1>11
<1>13. \A n \in 0 .. N : f[n] \in A
  <2> DEFINE S == {n \in 0 .. N : f[n] \in A}
  <2>1. 0 \in S
    BY <1>3, <1>4, <1>12 DEF A
  <2>2. ASSUME NEW n \in 1 .. N, n - 1 \in S
        PROVE  n \in S
    <3>1. n \in 0 .. N /\ n # 0 /\ f[n - 1] \in GoodOuts
      BY <2>2, <1>3 DEF A
    <3> QED
      BY <3>1, <1>5, <1>12 DEF A
  <2> HIDE DEF S
  <2>3. \A n \in 0 .. N : n \in S
    BY <1>3, <2>1, <2>2, UpTo
  <2> QED
    BY <2>3 DEF S
<1>14. /\ f \in [0 .. N -> GoodOuts]
       /\ f[0] = out
       /\ \A n \in 1 .. N : f[n] = OutputItemStep(f[n - 1], s[n])
  <2>1. 0 \in 0 .. N /\ \A n \in 1 .. N : n \in 0 .. N /\ n # 0
    BY <1>3
  <2> QED
    BY <1>11, <1>12, <1>13, <2>1 DEF A
<1> QED
  BY <1>1, <1>14 DEF N

LEMMA OutputItemsGood ==
  ASSUME NEW out, GoodOut(out), NEW s \in Seq(Item)
  PROVE  GoodOut(OutputItems(out, s, OutputCap))
<1>1. Len(s) \in 0 .. Len(s)
  OBVIOUS
<1>2. OutputItems(out, s, OutputCap) \in GoodOuts
  BY <1>1, OutputItemsSteps
<1> QED
  BY <1>2 DEF GoodOuts

-----------------------------------------------------------------------------
(***************************************************************************)
(* The operations on items, with types.                                    *)
(***************************************************************************)
LEMMA ItemFields ==
  ASSUME NEW x \in Item
  PROVE  /\ x = [id |-> x.id, type |-> x.type, val |-> x.val,
                 remote |-> x.remote, changed |-> x.changed]
         /\ x.id \in Id /\ x.type \in {"int", "float"} /\ x.val \in AnyValue
         /\ x.remote \in AnyValue /\ x.changed \in BOOLEAN
  BY DEF Item

LEMMA ItemOf ==
  ASSUME NEW id \in Id, NEW type \in {"int", "float"}, NEW v \in AnyValue,
         NEW w \in AnyValue, NEW b \in BOOLEAN
  PROVE  [id |-> id, type |-> type, val |-> v, remote |-> w, changed |-> b]
           \in Item
  BY DEF Item

LEMMA SetFields ==
  ASSUME NEW x, IsItem(x), NEW v, NEW w, NEW y
  PROVE  /\ y = [x EXCEPT !.val = v] =>
              y = [id |-> x.id, type |-> x.type, val |-> v,
                   remote |-> x.remote, changed |-> x.changed]
         /\ y = [x EXCEPT !.remote = w] =>
              y = [id |-> x.id, type |-> x.type, val |-> x.val,
                   remote |-> w, changed |-> x.changed]
  BY DEF IsItem

LEMMA SetBoth ==
  ASSUME NEW x, IsItem(x), NEW v, NEW y,
         y = [x EXCEPT !.val = v, !.remote = v]
  PROVE  y = [id |-> x.id, type |-> x.type, val |-> v, remote |-> v,
              changed |-> x.changed]
  BY DEF IsItem

LEMMA SetMarked ==
  ASSUME NEW x, IsItem(x), NEW v, NEW y,
         y = [x EXCEPT !.val = v, !.remote = v, !.changed = TRUE]
  PROVE  y = [id |-> x.id, type |-> x.type, val |-> v, remote |-> v,
              changed |-> TRUE]
  BY DEF IsItem

\* new_item: the list is kept or has a new item in front.
LEMMA RegisterIs ==
  ASSUME NEW s \in Seq(Item), NEW id \in Id, NEW type \in {"int", "float"},
         NEW mapped
  PROVE  LET q == RegisterItem(s, id, type, mapped)
             e == [id |-> id, type |-> type, val |-> NoValue,
                   remote |-> NoValue, changed |-> FALSE]
         IN  /\ q \in Seq(Item)
             /\ \/ q = s
                \/ q = <<e>> \o s /\ e \in Item
<1> DEFINE e == [id |-> id, type |-> type, val |-> NoValue,
                 remote |-> NoValue, changed |-> FALSE]
<1>1. e \in Item
  BY ItemOf DEF AnyValue
<1>2. <<e>> \o s \in Seq(Item)
  <2> HIDE DEF e, Item
  <2> QED
    BY <1>1
<1> HIDE DEF e
<1>3. RegisterItem(s, id, type, mapped)
        = IF ~mapped \/ HasItem(s, id) THEN s ELSE <<e>> \o s
  BY DEF RegisterItem, e
<1> QED
  BY <1>1, <1>2, <1>3 DEF e

\* decode_packet, write data.
HeardItem(x, id, v) ==
  IF x.id # id THEN x
  ELSE [id |-> id, type |-> x.type, val |-> Heard(x.type, v),
        remote |-> Heard(x.type, v), changed |-> TRUE]

LEMMA WriteIs ==
  ASSUME NEW s \in Seq(Item), NEW id \in Id, NEW v \in Value
  PROVE  /\ WriteItem(s, id, v) \in Seq(Item)
         /\ Len(WriteItem(s, id, v)) = Len(s)
         /\ \A i \in 1 .. Len(s) :
              WriteItem(s, id, v)[i] = HeardItem(s[i], id, v)
<1> DEFINE W(i) == IF s[i].id # id THEN s[i]
                   ELSE [id |-> id, type |-> s[i].type,
                         val |-> Heard(s[i].type, v),
                         remote |-> Heard(s[i].type, v), changed |-> TRUE]
           q == [i \in 1 .. Len(s) |-> W(i)]
<1>1. \A i \in 1 .. Len(s) : s[i] \in Item
  <2> HIDE DEF Item
  <2> QED
    OBVIOUS
<1>2. ASSUME NEW i \in 1 .. Len(s), s[i].id = id
      PROVE  [s[i] EXCEPT !.val = Heard(s[i].type, v),
                          !.remote = Heard(s[i].type, v), !.changed = TRUE]
               = W(i)
  <2> DEFINE h == Heard(s[i].type, v)
             x == s[i]
  <2>1. IsItem(x)
    BY <1>1, <1>2, ItemFields DEF IsItem
  <2> HIDE DEF x, h
  <2> DEFINE y == [x EXCEPT !.val = h, !.remote = h, !.changed = TRUE]
  <2>2. y = [x EXCEPT !.val = h, !.remote = h, !.changed = TRUE]
    OBVIOUS
  <2> HIDE DEF y
  <2>3. y = [id |-> x.id, type |-> x.type, val |-> h, remote |-> h,
             changed |-> TRUE]
    BY <2>1, <2>2, SetMarked
  <2> QED
    BY <1>2, <2>3 DEF x, h, y
<1>3. WriteItem(s, id, v) = q
  BY <1>2 DEF WriteItem
<1>4. \A i \in 1 .. Len(s) : W(i) \in Item
  <2> TAKE i \in 1 .. Len(s)
  <2>1. s[i] \in Item /\ s[i].type \in {"int", "float"}
    BY <1>1, ItemFields
  <2>2. Heard(s[i].type, v) \in AnyValue
    BY OfTypeFacts DEF AnyValue
  <2>3. [id |-> id, type |-> s[i].type, val |-> Heard(s[i].type, v),
         remote |-> Heard(s[i].type, v), changed |-> TRUE] \in Item
    BY <2>1, <2>2, ItemOf
  <2> QED
    BY <2>1, <2>3
<1>5. \A i \in 1 .. Len(s) : q[i] = W(i)
  OBVIOUS
<1>6. q \in Seq(Item) /\ Len(q) = Len(s)
  <2>1. Len(s) \in Nat
    OBVIOUS
  <2> HIDE DEF W, Item
  <2> QED
    BY <1>4, <2>1, SeqOfFunction
<1> HIDE DEF q
<1> QED
  BY <1>3, <1>5, <1>6 DEF HeardItem

\* update: step 3 for one item, and the mark that step 2 takes away.
ReadNow(x, v) == [ReadItem(x, v) EXCEPT !.changed = FALSE]

LEMMA ReadIs ==
  ASSUME NEW x \in Item, NEW v \in AnyValue
  PROVE  /\ ReadNow(x, v) \in Item
         /\ ReadNow(x, v).id = x.id /\ ReadNow(x, v).type = x.type
         /\ ~ReadNow(x, v).changed
         /\ v # NoValue => /\ ReadNow(x, v).val = OfType(x.type, v)
                           /\ ReadNow(x, v).remote = x.remote
         /\ v = NoValue => /\ ReadNow(x, v).val
                                = IF x.type = "int" THEN NoValue ELSE x.val
                           /\ ReadNow(x, v).remote = NoValue
<1> DEFINE val == IF v # NoValue THEN OfType(x.type, v)
                  ELSE IF x.type = "int" THEN NoValue ELSE x.val
           remote == IF v # NoValue THEN x.remote ELSE NoValue
           y == [id |-> x.id, type |-> x.type, val |-> val, remote |-> remote,
                 changed |-> FALSE]
<1>1. /\ x = [id |-> x.id, type |-> x.type, val |-> x.val,
              remote |-> x.remote, changed |-> x.changed]
      /\ x.id \in Id /\ x.type \in {"int", "float"} /\ x.val \in AnyValue
      /\ x.remote \in AnyValue
  BY ItemFields
<1>2. val \in AnyValue /\ remote \in AnyValue
  BY <1>1, OfTypeFacts DEF AnyValue
<1>3. ReadItem(x, v) = [id |-> x.id, type |-> x.type, val |-> val,
                        remote |-> remote, changed |-> x.changed]
  <2> DEFINE w == OfType(x.type, v)
             y0 == ReadItem(x, v)
  <2>1. IF v # NoValue THEN y0 = [x EXCEPT !.val = w]
        ELSE IF x.type = "int" THEN y0 = [x EXCEPT !.val = v, !.remote = v]
        ELSE y0 = [x EXCEPT !.remote = v]
    BY DEF ReadItem
  <2>2. IsItem(x)
    BY <1>1 DEF IsItem
  <2> HIDE DEF w, y0
  <2>3. CASE v # NoValue
    <3>1. y0 = [x EXCEPT !.val = w]
      BY <2>1, <2>3
    <3>2. y0 = [id |-> x.id, type |-> x.type, val |-> w,
                remote |-> x.remote, changed |-> x.changed]
      BY <2>2, <3>1, SetFields
    <3> QED
      BY <2>3, <3>2 DEF w, y0
  <2>4. CASE v = NoValue /\ x.type = "int"
    <3>1. y0 = [x EXCEPT !.val = v, !.remote = v]
      BY <2>1, <2>4
    <3>2. y0 = [id |-> x.id, type |-> x.type, val |-> v,
                remote |-> v, changed |-> x.changed]
      BY <2>2, <3>1, SetBoth
    <3> QED
      BY <2>4, <3>2 DEF y0
  <2>5. CASE v = NoValue /\ x.type # "int"
    <3>1. y0 = [x EXCEPT !.remote = v]
      BY <2>1, <2>5
    <3>2. y0 = [id |-> x.id, type |-> x.type, val |-> x.val,
                remote |-> v, changed |-> x.changed]
      BY <2>2, <3>1, SetFields
    <3> QED
      BY <2>5, <3>2 DEF y0
  <2> QED
    BY <2>3, <2>4, <2>5
<1>4. IsItem(ReadItem(x, v))
  BY <1>3 DEF IsItem
<1> HIDE DEF val, remote
<1>5. ReadNow(x, v) = y
  <2> DEFINE q == ReadItem(x, v)
  <2>1. q.id = x.id /\ q.type = x.type /\ q.val = val /\ q.remote = remote
    BY <1>3
  <2>2. IsItem(q) /\ ReadNow(x, v) = [q EXCEPT !.changed = FALSE]
    BY <1>4 DEF ReadNow
  <2> HIDE DEF q
  <2>3. ReadNow(x, v) = [id |-> q.id, type |-> q.type, val |-> q.val,
                         remote |-> q.remote, changed |-> FALSE]
    BY <2>2, SetChanged
  <2> QED
    BY <2>1, <2>3
<1>6. y \in Item
  BY <1>1, <1>2, ItemOf
<1>7. /\ y.id = x.id /\ y.type = x.type /\ ~y.changed /\ y.val = val
      /\ y.remote = remote
  OBVIOUS
<1> HIDE DEF y
<1> QED
  BY <1>5, <1>6, <1>7 DEF val, remote

\* output: what was sent is what the Teensy has.
SentItem(x) ==
  [id |-> x.id, type |-> x.type, val |-> x.val, remote |-> x.val,
   changed |-> x.changed]

LEMMA MarkIs ==
  ASSUME NEW s \in Seq(Item)
  PROVE  /\ MarkSent(s) \in Seq(Item)
         /\ Len(MarkSent(s)) = Len(s)
         /\ \A i \in 1 .. Len(s) :
              MarkSent(s)[i] = SentItem(s[i])
<1> DEFINE M(i) == [id |-> s[i].id, type |-> s[i].type,
                    val |-> s[i].val, remote |-> s[i].val,
                    changed |-> s[i].changed]
           q == [i \in 1 .. Len(s) |-> M(i)]
<1>1. \A i \in 1 .. Len(s) : s[i] \in Item
  <2> HIDE DEF Item
  <2> QED
    OBVIOUS
<1>2. \A i \in 1 .. Len(s) : [s[i] EXCEPT !.remote = s[i].val] = M(i)
  <2> TAKE i \in 1 .. Len(s)
  <2> DEFINE x == s[i]
  <2>1. x = [id |-> x.id, type |-> x.type, val |-> x.val,
             remote |-> x.remote, changed |-> x.changed]
    BY <1>1, ItemFields
  <2> HIDE DEF x
  <2>2. [x EXCEPT !.remote = x.val]
          = [id |-> x.id, type |-> x.type, val |-> x.val,
             remote |-> x.val, changed |-> x.changed]
    BY <2>1
  <2> QED
    BY <2>2 DEF x
<1>3. MarkSent(s) = q
  BY <1>2 DEF MarkSent
<1>4. \A i \in 1 .. Len(s) : M(i) \in Item
  BY <1>1, ItemFields, ItemOf
<1>5. \A i \in 1 .. Len(s) : q[i] = M(i)
  OBVIOUS
<1>6. q \in Seq(Item) /\ Len(q) = Len(s)
  <2>1. Len(s) \in Nat
    OBVIOUS
  <2> HIDE DEF M, Item
  <2> QED
    BY <1>4, <2>1, SeqOfFunction
<1> HIDE DEF q
<1> QED
  BY <1>3, <1>5, <1>6 DEF SentItem

-----------------------------------------------------------------------------
(***************************************************************************)
(* The Teensy's side: what it shows after a packet, and what it sends.     *)
(***************************************************************************)
LEMMA LastData ==
  ASSUME NEW p \in Seq(Command), NEW id \in Id, DataFor(p, id) # {}
  PROVE  /\ Max(DataFor(p, id)) \in DataFor(p, id)
         /\ \A k \in DataFor(p, id) : k <= Max(DataFor(p, id))
         /\ p[Max(DataFor(p, id))].val \in AnyValue
<1> DEFINE D == DataFor(p, id)
<1>1. Len(p) \in Nat
  OBVIOUS
<1>2. D \subseteq 0 .. Len(p) /\ D \subseteq 1 .. Len(p)
  BY DEF DataFor
<1> HIDE DEF D
<1>3. Max(D) \in D /\ \A k \in D : k <= Max(D)
  BY <1>1, <1>2, GreatestOf DEF D
<1>4. p[Max(D)] \in Command
  <2>1. Max(D) \in 1 .. Len(p)
    BY <1>2, <1>3
  <2>2. \A k \in 1 .. Len(p) : p[k] \in Command
    <3> HIDE DEF Command
    <3> QED
      OBVIOUS
  <2> QED
    BY <2>1, <2>2
<1>5. p[Max(D)].op = "data"
  BY <1>3 DEF D, DataFor
<1>6. p[Max(D)].val \in AnyValue
  BY <1>4, <1>5 DEF Command
<1> QED
  BY <1>3, <1>6 DEF D

LEMMA ShownAfterType ==
  ASSUME NEW s \in [Id -> AnyValue], NEW p \in Seq(Command)
  PROVE  ShownAfter(s, p) \in [Id -> AnyValue]
  BY LastData DEF ShownAfter

\* What Send leaves in a buffer that had s.
Sent(s, more) ==
  SubSeq(s \o more, 1, Min({Len(s) + Len(more), InputCap}))

LEMMA SubSeqFacts ==
  ASSUME NEW S, NEW s \in Seq(S), NEW n \in Nat, n <= Len(s)
  PROVE  /\ SubSeq(s, 1, n) \in Seq(S) /\ Len(SubSeq(s, 1, n)) = n
         /\ \A k \in 1 .. n : SubSeq(s, 1, n)[k] = s[k]
  OBVIOUS

LEMMA SentIs ==
  ASSUME NEW s \in Seq(Report), NEW more \in Seq(Report), Len(s) <= InputCap
  PROVE  /\ Sent(s, more) \in Seq(Report)
         /\ Len(Sent(s, more)) <= InputCap /\ Len(s) <= Len(Sent(s, more))
         /\ \A k \in 1 .. Len(s) : Sent(s, more)[k] = s[k]
         /\ \A k \in 1 .. Len(Sent(s, more)) :
              k > Len(s) => /\ k - Len(s) \in 1 .. Len(more)
                            /\ Sent(s, more)[k] = more[k - Len(s)]
         /\ Len(s) + Len(more) <= InputCap =>
              Len(Sent(s, more)) = Len(s) + Len(more)
<1> DEFINE both == s \o more
           sum == Len(s) + Len(more)
           n == Min({sum, InputCap})
<1> HIDE DEF Report
<1>1. /\ both \in Seq(Report) /\ Len(both) = sum
      /\ Len(s) \in Nat /\ Len(more) \in Nat
      /\ \A k \in 1 .. Len(s) : both[k] = s[k]
      /\ \A k \in 1 .. Len(more) : both[Len(s) + k] = more[k]
  BY ConcatFacts
<1>2. sum \in Nat /\ InputCap \in Nat /\ sum = Len(s) + Len(more)
  BY <1>1, HubAssumption DEF HubAssumption
<1>3. Sent(s, more) = SubSeq(both, 1, n)
  BY DEF Sent
<1> HIDE DEF both, sum
<1>4. n \in {sum, InputCap} /\ n <= sum /\ n <= InputCap
  <2>1. /\ Min({sum, InputCap}) \in {sum, InputCap}
        /\ Min({sum, InputCap}) <= sum /\ Min({sum, InputCap}) <= InputCap
    <3>1. sum \in Int /\ InputCap \in Int
      BY <1>2
    <3> QED
      BY <3>1, MinOfTwo
  <2> QED
    BY <2>1
<1> HIDE DEF n
<1>5. n \in Nat /\ n <= Len(both) /\ Len(s) <= n
  BY <1>1, <1>2, <1>4
<1>6. /\ SubSeq(both, 1, n) \in Seq(Report) /\ Len(SubSeq(both, 1, n)) = n
      /\ \A k \in 1 .. n : SubSeq(both, 1, n)[k] = both[k]
  BY <1>1, <1>5, SubSeqFacts
<1>7. \A k \in 1 .. Len(s) : k \in 1 .. n
  BY <1>1, <1>5
<1>8. ASSUME NEW k \in 1 .. n, k > Len(s)
      PROVE  k - Len(s) \in 1 .. Len(more) /\ both[k] = more[k - Len(s)]
  <2>1. k - Len(s) \in 1 .. Len(more) /\ Len(s) + (k - Len(s)) = k
    BY <1>1, <1>2, <1>4, <1>5, <1>8
  <2> QED
    BY <1>1, <2>1
<1>9. sum <= InputCap => n = sum
  BY <1>2, <1>4
<1> QED
  BY <1>1, <1>2, <1>3, <1>4, <1>5, <1>6, <1>7, <1>8, <1>9

-----------------------------------------------------------------------------
(***************************************************************************)
(* Step 2 of update: the loop over one list and the loop over all.         *)
(***************************************************************************)
Values == [Ref -> AnyValue]

\* What a Teensy changed is a value; it has data references of the file only.
Marked(t) ==
  /\ items[t] \in Seq(Item)
  /\ \A i \in 1 .. Len(items[t]) :
       /\ IsMapped(t, items[t][i].id)
       /\ items[t][i].changed => items[t][i].val \in Value

WriteStep(t, v, n) ==
  IF items[t][n].changed
  THEN [v EXCEPT ![RefOf[t][items[t][n].id]] = Rounded(items[t][n].val)]
  ELSE v

LEMMA RefFacts ==
  ASSUME NEW t \in Teensy, NEW id \in Id, IsMapped(t, id)
  PROVE  RefOf[t][id] \in Ref
  BY HubAssumption DEF HubAssumption, IsMapped

LEMMA WriteStepType ==
  ASSUME NEW t \in Teensy, Marked(t), NEW v \in Values,
         NEW n \in 1 .. Len(items[t])
  PROVE  WriteStep(t, v, n) \in Values
<1>1. items[t][n] \in Item
  <2> HIDE DEF Item
  <2> QED
    BY DEF Marked
<1>2. items[t][n].id \in Id /\ IsMapped(t, items[t][n].id)
  BY <1>1, ItemFields DEF Marked
<1>3. items[t][n].changed => Rounded(items[t][n].val) \in AnyValue
  BY RoundedFacts DEF Marked, AnyValue
<1> QED
  BY <1>2, <1>3, RefFacts DEF WriteStep, Values

LEMMA WrittenBySteps ==
  ASSUME NEW t \in Teensy, Marked(t), NEW v \in Values
  PROVE  \E f \in [0 .. Len(items[t]) -> Values] :
           /\ f[0] = v
           /\ \A n \in 1 .. Len(items[t]) : f[n] = WriteStep(t, f[n - 1], n)
           /\ WrittenBy(t, v) = f[Len(items[t])]
<1> DEFINE N == Len(items[t])
           A == Values
           step == [n \in 1 .. N |-> [x \in A |-> WriteStep(t, x, n)]]
           f[n \in 0 .. N] ==
             IF n = 0 THEN v
             ELSE IF items[t][n].changed
             THEN [f[n - 1] EXCEPT ![RefOf[t][items[t][n].id]] =
                                       Rounded(items[t][n].val)]
             ELSE f[n - 1]
<1>1. WrittenBy(t, v) = f[N]
  BY DEF WrittenBy
<1>2. f = CHOOSE g : g = [n \in 0 .. N |->
                            IF n = 0 THEN v ELSE WriteStep(t, g[n - 1], n)]
  BY DEF WriteStep
<1> HIDE DEF f
<1>3. N \in Nat
  BY DEF Marked
<1>5. \A n \in 1 .. N, x \in A : WriteStep(t, x, n) \in A
  BY WriteStepType
<1> HIDE DEF A
<1>6. step \in [1 .. N -> [A -> A]]
  BY <1>5
<1>7. \A n \in 1 .. N, x \in A : step[n][x] = WriteStep(t, x, n)
  OBVIOUS
<1>4. v \in A
  BY DEF A
<1> HIDE DEF N, step
<1>8. PICK g \in [0 .. N -> A] : Follows(g, N, v, step)
  BY <1>3, <1>4, <1>6, Recursion
<1>9. \A n \in 0 .. N :
        g[n] = IF n = 0 THEN v ELSE WriteStep(t, g[n - 1], n)
  <2> TAKE n \in 0 .. N
  <2>1. n # 0 => n \in 1 .. N /\ n - 1 \in 0 .. N
    BY <1>3
  <2>2. n # 0 => g[n - 1] \in A
    BY <1>8, <2>1
  <2> QED
    BY <2>1, <2>2, <1>7, <1>8 DEF Follows
<1>10. g = [n \in 0 .. N |-> IF n = 0 THEN v ELSE WriteStep(t, g[n - 1], n)]
  BY <1>8, <1>9
<1>11. f = [n \in 0 .. N |-> IF n = 0 THEN v ELSE WriteStep(t, f[n - 1], n)]
  BY <1>2, <1>10
<1>12. \A n \in 0 .. N :
         f[n] = IF n = 0 THEN v ELSE WriteStep(t, f[n - 1], n)
  BY <1>11
<1>13. \A n \in 0 .. N : f[n] \in A
  <2> DEFINE S == {n \in 0 .. N : f[n] \in A}
  <2>1. 0 \in S
    BY <1>3, <1>4, <1>12
  <2>2. ASSUME NEW n \in 1 .. N, n - 1 \in S
        PROVE  n \in S
    <3>1. n \in 0 .. N /\ n # 0 /\ f[n - 1] \in A
      BY <2>2, <1>3
    <3> QED
      BY <3>1, <1>5, <1>12
  <2> HIDE DEF S
  <2>3. \A n \in 0 .. N : n \in S
    BY <1>3, <2>1, <2>2, UpTo
  <2> QED
    BY <2>3 DEF S
<1>14. /\ f \in [0 .. N -> A]
       /\ f[0] = v
       /\ \A n \in 1 .. N : f[n] = WriteStep(t, f[n - 1], n)
  <2>1. 0 \in 0 .. N /\ \A n \in 1 .. N : n \in 0 .. N /\ n # 0
    BY <1>3
  <2> QED
    BY <1>11, <1>12, <1>13, <2>1
<1> QED
  BY <1>1, <1>14 DEF N, A

LEMMA WrittenByType ==
  ASSUME NEW t \in Teensy, Marked(t), NEW v \in Values
  PROVE  WrittenBy(t, v) \in Values
<1>1. Len(items[t]) \in 0 .. Len(items[t])
  BY DEF Marked
<1> HIDE DEF Values
<1> QED
  BY <1>1, WrittenBySteps

LEMMA WrittenSteps ==
  ASSUME \A t \in Teensy : Marked(t), value \in Values
  PROVE  \E f \in [0 .. NumTeensy -> Values] :
           /\ f[0] = value
           /\ \A t \in 1 .. NumTeensy : f[t] = WrittenBy(t, f[t - 1])
           /\ WrittenValues = f[NumTeensy]
<1> DEFINE N == NumTeensy
           A == Values
           step == [t \in 1 .. N |-> [x \in A |-> WrittenBy(t, x)]]
           f[t \in 0 .. N] == IF t = 0 THEN value ELSE WrittenBy(t, f[t - 1])
<1>1. WrittenValues = f[N]
  BY DEF WrittenValues
<1>2. f = CHOOSE g : g = [t \in 0 .. N |->
                            IF t = 0 THEN value ELSE WrittenBy(t, g[t - 1])]
  OBVIOUS
<1> HIDE DEF f
<1>3. N \in Nat /\ \A t \in 1 .. N : t \in Teensy
  BY HubAssumption DEF HubAssumption, Teensy
<1>5. \A t \in 1 .. N, x \in A : WrittenBy(t, x) \in A
  BY <1>3, WrittenByType
<1> HIDE DEF A
<1>6. step \in [1 .. N -> [A -> A]]
  BY <1>5
<1>7. \A t \in 1 .. N, x \in A : step[t][x] = WrittenBy(t, x)
  OBVIOUS
<1>4. value \in A
  BY DEF A
<1> HIDE DEF N, step
<1>8. PICK g \in [0 .. N -> A] : Follows(g, N, value, step)
  BY <1>3, <1>4, <1>6, Recursion
<1>9. \A t \in 0 .. N :
        g[t] = IF t = 0 THEN value ELSE WrittenBy(t, g[t - 1])
  <2> TAKE t \in 0 .. N
  <2>1. t # 0 => t \in 1 .. N /\ t - 1 \in 0 .. N
    BY <1>3
  <2>2. t # 0 => g[t - 1] \in A
    BY <1>8, <2>1
  <2> QED
    BY <2>1, <2>2, <1>7, <1>8 DEF Follows
<1>10. g = [t \in 0 .. N |-> IF t = 0 THEN value ELSE WrittenBy(t, g[t - 1])]
  BY <1>8, <1>9
<1>11. f = [t \in 0 .. N |-> IF t = 0 THEN value ELSE WrittenBy(t, f[t - 1])]
  BY <1>2, <1>10
<1>12. \A t \in 0 .. N :
         f[t] = IF t = 0 THEN value ELSE WrittenBy(t, f[t - 1])
  BY <1>11
<1>13. \A t \in 0 .. N : f[t] \in A
  <2> DEFINE S == {t \in 0 .. N : f[t] \in A}
  <2>1. 0 \in S
    BY <1>3, <1>4, <1>12
  <2>2. ASSUME NEW t \in 1 .. N, t - 1 \in S
        PROVE  t \in S
    <3>1. t \in 0 .. N /\ t # 0 /\ f[t - 1] \in A
      BY <2>2, <1>3
    <3> QED
      BY <3>1, <1>5, <1>12
  <2> HIDE DEF S
  <2>3. \A t \in 0 .. N : t \in S
    BY <1>3, <2>1, <2>2, UpTo
  <2> QED
    BY <2>3 DEF S
<1>14. /\ f \in [0 .. N -> A]
       /\ f[0] = value
       /\ \A t \in 1 .. N : f[t] = WrittenBy(t, f[t - 1])
  <2>1. 0 \in 0 .. N /\ \A t \in 1 .. N : t \in 0 .. N /\ t # 0
    BY <1>3
  <2> QED
    BY <1>11, <1>12, <1>13, <2>1
<1> QED
  BY <1>1, <1>14 DEF N, A

LEMMA WrittenType ==
  ASSUME \A t \in Teensy : Marked(t), value \in Values
  PROVE  WrittenValues \in Values
<1>1. NumTeensy \in 0 .. NumTeensy
  BY HubAssumption DEF HubAssumption
<1> HIDE DEF Values
<1> QED
  BY <1>1, WrittenSteps

-----------------------------------------------------------------------------
(***************************************************************************)
(* Type correctness.  A change marked is a value the Teensy sent.          *)
(***************************************************************************)
OutOK ==
  /\ packet \in [Teensy -> Seq(Command)] /\ outRing \in [Teensy -> Packets]
  /\ \A t \in Teensy : GoodOut([packet |-> packet[t], ring |-> outRing[t]])

InOK ==
  /\ inRing \in [Teensy -> Seq(Report)]
  /\ \A t \in Teensy : Len(inRing[t]) <= InputCap

Filled(s) == \A i \in 1 .. Len(s) : s[i].changed => s[i].val \in Value

ItemsOK ==
  /\ items \in [Teensy -> Seq(Item)]
  /\ \A t \in Teensy : Filled(items[t])

MainType ==
  /\ value \in Values
  /\ quiet \in [Teensy -> 0 .. IdFrameTimeout + 1]
  /\ askIds \in [Teensy -> BOOLEAN]
  /\ phase \in {"input", "update", "output", "buttons"}
  /\ turn \in 1 .. NumTeensy + 1 /\ firstTime \in BOOLEAN

UserType ==
  /\ shown \in [Teensy -> [Id -> AnyValue]]
  /\ knob \in [Ref -> AnyValue]
  /\ turns \in 0 .. MaxTurns /\ commands \in 0 .. MaxCommands
  /\ presses \in 0 .. MaxPresses
  /\ crossed \subseteq Teensy \X Id

TInv == IInv /\ OutOK /\ InOK /\ ItemsOK /\ MainType /\ UserType

LEMMA Bounds ==
  /\ NumTeensy \in Nat /\ InputCap \in Nat /\ OutputCap \in Nat
  /\ IdFrameTimeout \in Nat /\ MaxTurns \in Nat /\ MaxCommands \in Nat
  /\ MaxPresses \in Nat /\ PacketBytes \in Nat
  BY HubAssumption DEF HubAssumption

LEMMA AllMarked ==
  ASSUME IInv, ItemsOK
  PROVE  \A t \in Teensy : Marked(t)
<1> TAKE t \in Teensy
<1>1. GoodList(t, items[t], phase)
  BY DEF IInv
<1>2. \A i \in 1 .. Len(items[t]) : IsMapped(t, items[t][i].id)
  BY <1>1 DEF GoodList, GoodItem
<1> HIDE DEF Item
<1> QED
  BY <1>2 DEF ItemsOK, Filled, Marked

LEMMA EmptyFacts ==
  /\ <<>> \in Seq(Command) /\ <<>> \in Packets /\ Len(<<>>) = 0
  /\ GoodOut([packet |-> <<>>, ring |-> <<>>])
<1>1. <<>> \in Seq(Command) /\ <<>> \in Packets /\ Len(<<>>) = 0
  BY DEF Packets
<1>2. PacketLen(<<>>) = 0
  BY <1>1, PacketLenFacts
<1>3. [packet |-> <<>>, ring |-> <<>>] \in Output
  BY <1>1 DEF Output
<1> QED
  BY <1>1, <1>2, <1>3, Bounds DEF GoodOut

LEMMA TInit == Init => TInv
<1> SUFFICES ASSUME Init PROVE TInv
  OBVIOUS
<1>1. \A t \in Teensy : packet[t] = <<>> /\ outRing[t] = <<>>
  BY DEF Init
<1>2. OutOK
  BY <1>1, EmptyFacts DEF Init, OutOK
<1>3. InOK
  BY Bounds DEF Init, InOK
<1>4. ItemsOK
  <2>1. <<>> \in Seq(Item) /\ Filled(<<>>)
    BY DEF Filled
  <2> QED
    BY <2>1 DEF Init, ItemsOK
<1>5. MainType
  <2>1. value \in Values
    BY HubAssumption DEF Init, HubAssumption, Values, AnyValue
  <2> QED
    BY <2>1, Bounds DEF Init, MainType
<1>6. UserType
  BY Bounds DEF Init, UserType, AnyValue
<1> QED
  BY InitInv, <1>2, <1>3, <1>4, <1>5, <1>6 DEF TInv

\* What the two output actions start with.
LEMMA EnableGood ==
  ASSUME TInv, NEW t \in Teensy
  PROVE  GoodOut(OutputEnable(t)) /\ GoodOut(OutputAll(t))
<1>1. GoodOut([packet |-> packet[t], ring |-> outRing[t]])
  BY DEF TInv, OutOK
<1>2. Enable(askIds[t]) \in Command
  BY CommandTypes DEF TInv, MainType
<1>3. GoodOut(OutputEnable(t))
  BY <1>1, <1>2, OutputDataGood DEF OutputEnable
<1>4. items[t] \in Seq(Item)
  BY DEF TInv, ItemsOK
<1>5. GoodOut(OutputAll(t))
  BY <1>3, <1>4, OutputItemsGood, OutputFlushGood DEF OutputAll
<1> QED
  BY <1>3, <1>5

LEMMA QueueGood ==
  ASSUME OutOK, NEW t \in Teensy, NEW out, GoodOut(out), Queue(t, out)
  PROVE  OutOK'
<1>1. out.packet \in Seq(Command) /\ out.ring \in Packets
      /\ out = [packet |-> out.packet, ring |-> out.ring]
  BY DEF GoodOut, Output
<1> DEFINE C == Seq(Command)
<1> HIDE DEF C
<1>2. /\ packet' = [packet EXCEPT ![t] = out.packet]
      /\ outRing' = [outRing EXCEPT ![t] = out.ring]
      /\ packet \in [Teensy -> C] /\ outRing \in [Teensy -> Packets]
      /\ out.packet \in C /\ out.ring \in Packets
  BY <1>1 DEF Queue, OutOK, C
<1>3. packet' \in [Teensy -> C] /\ outRing' \in [Teensy -> Packets]
  BY <1>2
<1>4. ASSUME NEW u \in Teensy
      PROVE  GoodOut([packet |-> packet'[u], ring |-> outRing'[u]])
  <2>1. CASE u = t
    BY <1>1, <1>2, <2>1
  <2>2. CASE u # t
    BY <1>2, <2>2 DEF OutOK
  <2> QED
    BY <2>1, <2>2
<1> QED
  BY <1>3, <1>4 DEF OutOK, C

\* A packet leaves the output buffer.
LEMMA TailGood ==
  ASSUME OutOK, NEW t \in Teensy, outRing[t] # <<>>, UNCHANGED packet,
         outRing' = [outRing EXCEPT ![t] = Tail(@)]
  PROVE  OutOK'
<1> DEFINE r == outRing[t]
           C == Seq(Command)
<1>1. /\ r \in Seq(C) /\ outRing \in [Teensy -> Seq(C)]
      /\ packet \in [Teensy -> C]
      /\ GoodOut([packet |-> packet[t], ring |-> r])
  BY DEF OutOK, Packets
<1> HIDE DEF C
<1>2. /\ Tail(r) \in Seq(C) /\ Len(Tail(r)) = Len(r) - 1 /\ Len(r) \in Nat
      /\ \A i \in 1 .. Len(Tail(r)) : Tail(r)[i] = r[i + 1]
  BY <1>1, TailFacts
<1>3. outRing' = [outRing EXCEPT ![t] = Tail(r)]
  OBVIOUS
<1>4. [packet |-> packet[t], ring |-> Tail(r)] \in Output
  BY <1>1, <1>2 DEF Output, Packets, C
<1> HIDE DEF r
<1>5. \A i \in 1 .. Len(Tail(r)) : i + 1 \in 1 .. Len(r)
  BY <1>2
<1>6. Len(r) <= OutputCap /\ PacketLen(packet[t]) <= PacketBytes
      /\ \A k \in 1 .. Len(r) : PacketLen(r[k]) \in 1 .. PacketBytes
  BY <1>1 DEF GoodOut
<1>7. Len(Tail(r)) <= OutputCap
  BY <1>2, <1>6, Bounds
<1>8. GoodOut([packet |-> packet[t], ring |-> Tail(r)])
  BY <1>2, <1>4, <1>5, <1>6, <1>7 DEF GoodOut
<1>9. outRing' \in [Teensy -> Packets] /\ packet' \in [Teensy -> Seq(Command)]
  BY <1>1, <1>2, <1>3 DEF Packets, C
<1>10. ASSUME NEW u \in Teensy
       PROVE  GoodOut([packet |-> packet'[u], ring |-> outRing'[u]])
  <2>1. CASE u = t
    BY <1>1, <1>3, <1>8, <2>1
  <2>2. CASE u # t
    BY <1>1, <1>3, <2>2 DEF OutOK
  <2> QED
    BY <2>1, <2>2
<1> QED
  BY <1>9, <1>10 DEF OutOK

LEMMA OutStep == TInv /\ [Next]_vars => OutOK'
<1> SUFFICES ASSUME TInv, [Next]_vars PROVE OutOK'
  OBVIOUS
<1>0. OutOK
  BY DEF TInv
<1>1. CASE OutputTooEarly \/ OutputDiffering
  <2>1. turn \in Teensy
    BY <1>1, Bounds DEF OutputTooEarly, OutputDiffering, TInv, MainType, Teensy
  <2>2. Queue(turn, OutputEnable(turn)) \/ Queue(turn, OutputAll(turn))
    BY <1>1 DEF OutputTooEarly, OutputDiffering
  <2> QED
    BY <1>0, <2>1, <2>2, EnableGood, QueueGood
<1>2. ASSUME NEW t \in Teensy, Receive(t)
      PROVE  OutOK'
  BY <1>0, <1>2, TailGood DEF Receive, hub
<1>3. CASE \/ InputPacket \/ InputNext \/ InputDone \/ Update \/ OutputDone
           \/ Buttons \/ UNCHANGED vars
           \/ \E t \in Teensy : PressCommand(t)
           \/ \E t \in Teensy, id \in Id, v \in KnobValue : TurnKnob(t, id, v)
  <2>1. UNCHANGED <<packet, outRing>>
    BY <1>3 DEF InputPacket, InputNext, InputDone, Update, OutputDone, Buttons,
                vars, hub, rings, PressCommand, TurnKnob
  <2> QED
    BY <1>0, <2>1 DEF OutOK
<1> QED
  BY <1>1, <1>2, <1>3 DEF Next, Main

LEMMA SendGood ==
  ASSUME InOK, NEW t \in Teensy, NEW more \in Seq(Report), Send(t, more)
  PROVE  InOK'
<1> DEFINE R == Seq(Report)
           q == Sent(inRing[t], more)
<1>1. inRing \in [Teensy -> R] /\ inRing' = [inRing EXCEPT ![t] = q]
  BY DEF InOK, Send, Sent
<1>2. q \in R /\ Len(q) <= InputCap
  BY SentIs DEF InOK
<1> HIDE DEF R, q
<1>3. inRing' \in [Teensy -> R]
  BY <1>1, <1>2
<1>4. \A u \in Teensy : Len(inRing'[u]) <= InputCap
  BY <1>1, <1>2 DEF InOK
<1> QED
  BY <1>3, <1>4 DEF InOK, R

LEMMA InStep == TInv /\ [Next]_vars => InOK'
<1> SUFFICES ASSUME TInv, [Next]_vars PROVE InOK'
  OBVIOUS
<1>0. InOK
  BY DEF TInv
<1>1. CASE InputPacket
  <2> DEFINE r == inRing[turn]
             R == Seq(Report)
  <2>1. turn \in Teensy
    BY <1>1, Bounds DEF InputPacket, TInv, MainType, Teensy
  <2>2. inRing \in [Teensy -> R] /\ r \in R /\ r # <<>> /\ Len(r) <= InputCap
    BY <1>0, <1>1, <2>1 DEF InOK, InputPacket
  <2>3. inRing' = [inRing EXCEPT ![turn] = Tail(r)]
    BY <1>1 DEF InputPacket
  <2>4. Tail(r) \in R /\ Len(Tail(r)) = Len(r) - 1 /\ Len(r) \in Nat
    <3> HIDE DEF Report
    <3> QED
      BY <2>2, TailFacts
  <2> HIDE DEF r, R
  <2>5. Len(Tail(r)) <= InputCap
    BY <2>2, <2>4, Bounds
  <2>6. inRing' \in [Teensy -> R]
    BY <2>2, <2>3, <2>4
  <2>7. \A u \in Teensy : Len(inRing'[u]) <= InputCap
    BY <1>0, <2>2, <2>3, <2>5 DEF InOK
  <2> QED
    BY <2>6, <2>7 DEF InOK, R
<1>2. ASSUME NEW t \in Teensy, Receive(t)
      PROVE  InOK'
  <2>1. UNCHANGED inRing \/
        Send(t, [i \in 1 .. Cardinality(Id) |->
                   [op |-> "register", id |-> SetToSeq(Id)[i]]])
    BY <1>2 DEF Receive
  <2> QED
    BY <1>0, <2>1, RegistersType, SendGood DEF InOK
<1>3. ASSUME NEW t \in Teensy, PressCommand(t)
      PROVE  InOK'
  <2>1. <<[op |-> "command"]>> \in Seq(Report)
    BY DEF Report
  <2> QED
    BY <1>0, <1>3, <2>1, SendGood DEF PressCommand
<1>4. ASSUME NEW t \in Teensy, NEW id \in Id, NEW v \in KnobValue,
             TurnKnob(t, id, v)
      PROVE  InOK'
  <2>1. <<[op |-> "write", id |-> id, val |-> v]>> \in Seq(Report)
    BY HubAssumption DEF HubAssumption, Report
  <2> QED
    BY <1>0, <1>4, <2>1, SendGood DEF TurnKnob
<1>5. CASE \/ InputNext \/ InputDone \/ Update \/ OutputTooEarly
           \/ OutputDiffering \/ OutputDone \/ Buttons \/ UNCHANGED vars
  <2>1. UNCHANGED inRing
    BY <1>5 DEF InputNext, InputDone, Update, OutputTooEarly, OutputDiffering,
                OutputDone, Buttons, vars, rings
  <2> QED
    BY <1>0, <2>1 DEF InOK
<1> QED
  BY <1>1, <1>2, <1>3, <1>4, <1>5 DEF Next, Main

\* Steps that change the list of one Teensy.
LEMMA OneListOK ==
  ASSUME ItemsOK, NEW t, NEW s, items' = [items EXCEPT ![t] = s],
         t \in Teensy => s \in Seq(Item) /\ Filled(s)
  PROVE  ItemsOK'
<1> DEFINE L == Seq(Item)
<1>1. items \in [Teensy -> L] /\ (t \in Teensy => s \in L)
  BY DEF ItemsOK
<1> HIDE DEF L
<1>2. items' \in [Teensy -> L]
  BY <1>1
<1>3. \A u \in Teensy : Filled(items'[u])
  BY <1>1 DEF ItemsOK
<1> QED
  BY <1>2, <1>3 DEF ItemsOK, L

LEMMA ItemsStep == TInv /\ [Next]_vars => ItemsOK'
<1> SUFFICES ASSUME TInv, [Next]_vars PROVE ItemsOK'
  OBVIOUS
<1>0. ItemsOK /\ \A t \in Teensy : items[t] \in Seq(Item) /\ Filled(items[t])
  BY DEF TInv, ItemsOK
<1>1. CASE InputPacket
  <2> DEFINE r == Head(inRing[turn])
             s == items[turn]
  <2>1. turn \in Teensy
    BY <1>1, Bounds DEF InputPacket, TInv, MainType, Teensy
  <2>2. r \in Report
    <3>1. inRing[turn] \in Seq(Report) /\ inRing[turn] # <<>>
      BY <1>1, <2>1 DEF TInv, InOK, InputPacket
    <3> HIDE DEF Report
    <3> QED
      BY <3>1
  <2>3. s \in Seq(Item) /\ Filled(s) /\ Decode(turn, r)
    BY <1>0, <1>1, <2>1 DEF InputPacket
  <2> HIDE DEF r, s
  <2>4. CASE r.op = "register"
    <3> DEFINE type == TypeOf[turn][r.id]
               mapped == IsMapped(turn, r.id)
               q == RegisterItem(s, r.id, type, mapped)
    <3>1. items' = [items EXCEPT ![turn] = q]
      BY <2>3, <2>4 DEF Decode, s
    <3>2. r.id \in Id /\ type \in {"int", "float"}
      BY <2>1, <2>2, <2>4, HubAssumption DEF Report, HubAssumption
    <3> HIDE DEF type, mapped
    <3> DEFINE e == [id |-> r.id, type |-> type, val |-> NoValue,
                     remote |-> NoValue, changed |-> FALSE]
    <3>3. q \in Seq(Item) /\ (q = s \/ q = <<e>> \o s)
      <4> HIDE DEF Item
      <4> QED
        BY <2>3, <3>2, RegisterIs
    <3>4. Filled(q)
      <4>1. CASE q = s
        BY <2>3, <4>1
      <4>2. CASE q = <<e>> \o s
        <5>1. IsSequence(s)
          <6> HIDE DEF Item
          <6> QED
            BY <2>3, IsSequenceOf
        <5>2. ~e.changed
          OBVIOUS
        <5> HIDE DEF e, q
        <5>3. \A i \in 1 .. Len(q) :
                \/ q[i] = e
                \/ i - 1 \in 1 .. Len(s) /\ q[i] = s[i - 1]
          BY <4>2, <5>1, InFront
        <5> QED
          BY <2>3, <5>2, <5>3 DEF Filled
      <4> QED
        BY <3>3, <4>1, <4>2
    <3> QED
      BY <1>0, <3>1, <3>3, <3>4, OneListOK
  <2>5. CASE r.op = "write"
    <3> DEFINE q == WriteItem(s, r.id, r.val)
    <3>1. items' = [items EXCEPT ![turn] = q]
      BY <2>3, <2>5 DEF Decode, s
    <3>2. r.id \in Id /\ r.val \in Value
      BY <2>2, <2>5 DEF Report
    <3> DEFINE h(i) == Heard(s[i].type, r.val)
    <3>7. /\ q \in Seq(Item) /\ Len(q) = Len(s)
          /\ \A i \in 1 .. Len(s) : q[i] = HeardItem(s[i], r.id, r.val)
      <4> HIDE DEF Item
      <4> QED
        BY <2>3, <3>2, WriteIs
    <3>6. /\ q \in Seq(Item) /\ Len(q) = Len(s)
          /\ \A i \in 1 .. Len(s) :
               q[i] = IF s[i].id # r.id THEN s[i]
                      ELSE [id |-> r.id, type |-> s[i].type, val |-> h(i),
                            remote |-> h(i), changed |-> TRUE]
      BY <3>7 DEF HeardItem
    <3> HIDE DEF q
    <3>3. /\ q \in Seq(Item) /\ Len(q) = Len(s)
          /\ \A i \in 1 .. Len(s) : q[i] = s[i] \/ q[i].val = h(i)
      <4> SUFFICES ASSUME NEW i \in 1 .. Len(s)
                   PROVE  q[i] = s[i] \/ q[i].val = h(i)
        BY <3>6
      <4> DEFINE w == h(i)
                 e == [id |-> r.id, type |-> s[i].type, val |-> w,
                       remote |-> w, changed |-> TRUE]
      <4>1. q[i] = IF s[i].id # r.id THEN s[i] ELSE e
        BY <3>6
      <4>2. e.val = w
        OBVIOUS
      <4> HIDE DEF e, w
      <4>3. q[i] = s[i] \/ q[i].val = w
        BY <4>1, <4>2
      <4> QED
        BY <4>3 DEF w
    <3>4. \A type : Heard(type, r.val) \in Value
      BY <3>2, OfTypeFacts
    <3>5. Filled(q)
      BY <2>3, <3>3, <3>4 DEF Filled
    <3> QED
      BY <1>0, <3>1, <3>3, <3>5, OneListOK
  <2>6. CASE r.op = "command"
    <3>1. UNCHANGED items
      BY <2>3, <2>6 DEF Decode
    <3> QED
      BY <1>0, <3>1 DEF ItemsOK
  <2>7. r.op \in {"register", "write", "command"}
    BY <2>2 DEF Report
  <2> QED
    BY <2>4, <2>5, <2>6, <2>7
<1>2. CASE Update
  <2> DEFINE New(t, i) == ReadNow(items[t][i],
                                  WrittenValues[RefOf[t][items[t][i].id]])
  <2>1. items' = [t \in Teensy |-> [i \in 1 .. Len(items[t]) |-> New(t, i)]]
    BY <1>2 DEF Update, ReadNow
  <2>2. \A t \in Teensy : Marked(t)
    BY AllMarked DEF TInv
  <2>3. WrittenValues \in Values
    BY <2>2, WrittenType DEF TInv, MainType
  <2>4. ASSUME NEW t \in Teensy, NEW i \in 1 .. Len(items[t])
        PROVE  New(t, i) \in Item /\ ~New(t, i).changed
    <3>1. items[t][i] \in Item
      <4> HIDE DEF Item
      <4> QED
        BY <1>0
    <3>2. RefOf[t][items[t][i].id] \in Ref
      BY <2>2, <3>1, ItemFields, RefFacts DEF Marked
    <3>3. WrittenValues[RefOf[t][items[t][i].id]] \in AnyValue
      BY <2>3, <3>2 DEF Values
    <3> QED
      BY <3>1, <3>3, ReadIs
  <2> HIDE DEF New
  <2>5. ASSUME NEW t \in Teensy
        PROVE  items'[t] \in Seq(Item) /\ Filled(items'[t])
    <3> DEFINE q == [i \in 1 .. Len(items[t]) |-> New(t, i)]
    <3>1. items'[t] = q /\ Len(items[t]) \in Nat
      BY <1>0, <2>1
    <3>2. q \in Seq(Item) /\ Len(q) = Len(items[t])
      <4> HIDE DEF Item
      <4> QED
        BY <2>4, <3>1, SeqOfFunction
    <3>3. \A i \in 1 .. Len(items[t]) : ~q[i].changed
      BY <2>4
    <3> HIDE DEF q
    <3>4. Filled(q)
      BY <3>2, <3>3 DEF Filled
    <3> QED
      BY <3>1, <3>2, <3>4
  <2> DEFINE L == Seq(Item)
  <2>6. \A t \in Teensy : items'[t] \in L
    BY <2>5
  <2>7. items' = [t \in Teensy |-> items'[t]]
    BY <2>1
  <2> HIDE DEF L
  <2>8. items' \in [Teensy -> L]
    BY <2>6, <2>7
  <2> QED
    BY <2>5, <2>8 DEF ItemsOK, L
<1>3. CASE OutputDiffering
  <2> DEFINE s == items[turn]
  <2>1. turn \in Teensy
    BY <1>3, Bounds DEF OutputDiffering, TInv, MainType, Teensy
  <2>2. items' = [items EXCEPT ![turn] = MarkSent(s)]
    BY <1>3 DEF OutputDiffering
  <2>3. s \in Seq(Item) /\ Filled(s)
    BY <1>0, <2>1
  <2> HIDE DEF s
  <2>6. /\ MarkSent(s) \in Seq(Item) /\ Len(MarkSent(s)) = Len(s)
        /\ \A i \in 1 .. Len(s) :
             MarkSent(s)[i] = SentItem(s[i])
    <3> HIDE DEF Item
    <3> QED
      BY <2>3, MarkIs
  <2>4. /\ MarkSent(s) \in Seq(Item) /\ Len(MarkSent(s)) = Len(s)
        /\ \A i \in 1 .. Len(s) : /\ MarkSent(s)[i].val = s[i].val
                                  /\ MarkSent(s)[i].changed = s[i].changed
    <3>1. ASSUME NEW i \in 1 .. Len(s)
          PROVE  /\ MarkSent(s)[i].val = s[i].val
                 /\ MarkSent(s)[i].changed = s[i].changed
      <4> DEFINE x == s[i]
                 y == MarkSent(s)[i]
      <4>1. y = [id |-> x.id, type |-> x.type, val |-> x.val,
                 remote |-> x.val, changed |-> x.changed]
        BY <2>6 DEF SentItem
      <4> HIDE DEF x, y
      <4>2. y.val = x.val /\ y.changed = x.changed
        BY <4>1
      <4> QED
        BY <4>2 DEF x, y
    <3> QED
      BY <2>6, <3>1
  <2>5. Filled(MarkSent(s))
    BY <2>3, <2>4 DEF Filled
  <2> QED
    BY <1>0, <2>2, <2>4, <2>5, OneListOK
<1>4. CASE \/ InputNext \/ InputDone \/ OutputTooEarly \/ OutputDone \/ Buttons
           \/ UNCHANGED vars
           \/ \E t \in Teensy : Receive(t) \/ PressCommand(t)
           \/ \E t \in Teensy, id \in Id, v \in KnobValue : TurnKnob(t, id, v)
  <2>1. UNCHANGED items
    BY <1>4 DEF InputNext, InputDone, OutputTooEarly, OutputDone, Buttons,
                vars, hub, Receive, PressCommand, TurnKnob
  <2> QED
    BY <1>0, <2>1 DEF ItemsOK
<1> QED
  BY <1>1, <1>2, <1>3, <1>4 DEF Next, Main

-----------------------------------------------------------------------------
\* An adjust by a button, after hardwareInit.
LEMMA ButtonsType ==
  ASSUME MainType, Buttons
  PROVE  value' \in Values
<1> DEFINE start == [r \in Ref |->
                      IF firstTime /\ r \in ButtonRef /\ InitValue[r] # NoValue
                      THEN Rounded(InitValue[r]) ELSE value[r]]
<1>1. PICK step \in [ButtonRef -> UNION {Adjust[r] : r \in ButtonRef}] :
        /\ \A r \in ButtonRef :
             step[r] \in Adjust[r] /\ Adjustable(start[r], step[r])
        /\ value' = [r \in Ref |->
                       IF r \in ButtonRef THEN Adjusted(start[r], step[r])
                       ELSE start[r]]
  BY DEF Buttons
<1>2. \A r \in Ref : start[r] \in AnyValue
  <2> TAKE r \in Ref
  <2>1. value[r] \in AnyValue
    BY DEF MainType, Values
  <2>2. InitValue[r] # NoValue => InitValue[r] \in Value
    BY HubAssumption DEF HubAssumption
  <2>3. InitValue[r] # NoValue => Rounded(InitValue[r]) \in AnyValue
    BY <2>2, RoundedFacts DEF AnyValue
  <2> QED
    BY <2>1, <2>3
<1> HIDE DEF start
<1>3. ASSUME NEW r \in ButtonRef
      PROVE  Adjusted(start[r], step[r]) \in AnyValue
  <2>1. start[r] \in AnyValue /\ Adjustable(start[r], step[r])
    BY <1>1, <1>2, HubAssumption DEF HubAssumption
  <2>2. BelowNoValue \in Value
    BY HubAssumption DEF HubAssumption
  <2> QED
    BY <2>1, <2>2 DEF Adjusted, Adjustable, AnyValue
<1> QED
  BY <1>1, <1>2, <1>3 DEF Values

LEMMA MainStep == TInv /\ [Next]_vars => MainType'
<1> SUFFICES ASSUME TInv, [Next]_vars PROVE MainType'
  OBVIOUS
<1>0. MainType /\ NumTeensy \in Nat /\ IdFrameTimeout \in Nat
  BY Bounds DEF TInv
<1>1. CASE InputPacket
  <2> DEFINE r == Head(inRing[turn])
  <2>1. Decode(turn, r)
    BY <1>1 DEF InputPacket
  <2>2. \/ UNCHANGED <<quiet, askIds>>
        \/ quiet' = [quiet EXCEPT ![turn] = 0] /\ UNCHANGED askIds
        \/ askIds' = [askIds EXCEPT ![turn] = TRUE] /\ UNCHANGED quiet
    <3>1. inRing[turn] \in Seq(Report) /\ inRing[turn] # <<>>
      BY <1>0, <1>1 DEF InputPacket, TInv, MainType, InOK, Teensy
    <3>2. r \in Report
      <4> HIDE DEF Report
      <4> QED
        BY <3>1
    <3> HIDE DEF r
    <3>3. r.op \in {"register", "write", "command"}
      BY <3>2 DEF Report
    <3> QED
      BY <2>1, <3>3 DEF Decode
  <2>3. UNCHANGED <<value, phase, turn, firstTime>>
    BY <1>1 DEF InputPacket
  <2>4. quiet' \in [Teensy -> 0 .. IdFrameTimeout + 1]
    BY <1>0, <2>2 DEF MainType
  <2>5. askIds' \in [Teensy -> BOOLEAN]
    BY <1>0, <2>2 DEF MainType
  <2> QED
    BY <1>0, <2>3, <2>4, <2>5 DEF MainType
<1>2. CASE Update
  <2>1. \A t \in Teensy : Marked(t)
    BY AllMarked DEF TInv
  <2>2. value' \in Values
    BY <1>0, <1>2, <2>1, WrittenType DEF Update, MainType
  <2> QED
    BY <1>0, <1>2, <2>2 DEF Update, MainType
<1>3. CASE OutputTooEarly
  <2>1. turn \in Teensy
    BY <1>0, <1>3 DEF OutputTooEarly, MainType, Teensy
  <2>2. quiet[turn] + 1 \in 0 .. IdFrameTimeout + 1
    BY <1>0, <1>3, <2>1 DEF OutputTooEarly, MainType
  <2>3. quiet' \in [Teensy -> 0 .. IdFrameTimeout + 1]
    BY <1>0, <1>3, <2>2 DEF OutputTooEarly, MainType
  <2>4. askIds' \in [Teensy -> BOOLEAN]
    BY <1>0, <1>3 DEF OutputTooEarly, MainType
  <2> QED
    BY <1>0, <1>3, <2>3, <2>4 DEF OutputTooEarly, MainType
<1>4. CASE OutputDiffering
  <2>1. askIds' \in [Teensy -> BOOLEAN]
    BY <1>0, <1>4 DEF OutputDiffering, MainType
  <2> QED
    BY <1>0, <1>4, <2>1 DEF OutputDiffering, MainType
<1>5. CASE Buttons
  <2>1. value' \in Values
    BY <1>0, <1>5, ButtonsType
  <2>2. /\ firstTime' \in BOOLEAN /\ phase' = "input" /\ turn' = 1
        /\ UNCHANGED <<quiet, askIds>>
    BY <1>5 DEF Buttons
  <2> QED
    BY <1>0, <2>1, <2>2 DEF MainType
<1>6. CASE InputNext \/ InputDone \/ OutputDone
  <2>1. UNCHANGED <<value, quiet, askIds, firstTime>>
    BY <1>6 DEF InputNext, InputDone, OutputDone, hub
  <2>2. turn' \in 1 .. NumTeensy + 1
    BY <1>0, <1>6 DEF InputNext, InputDone, OutputDone, MainType
  <2>3. phase' \in {"input", "update", "output", "buttons"}
    BY <1>0, <1>6 DEF InputNext, InputDone, OutputDone, MainType
  <2> QED
    BY <1>0, <2>1, <2>2, <2>3 DEF MainType
<1>7. CASE \/ UNCHANGED vars
           \/ \E t \in Teensy : Receive(t) \/ PressCommand(t)
           \/ \E t \in Teensy, id \in Id, v \in KnobValue : TurnKnob(t, id, v)
  <2>1. UNCHANGED <<value, quiet, askIds, phase, turn, firstTime>>
    BY <1>7 DEF vars, hub, Receive, PressCommand, TurnKnob
  <2> QED
    BY <1>0, <2>1 DEF MainType
<1> QED
  BY <1>1, <1>2, <1>3, <1>4, <1>5, <1>6, <1>7 DEF Next, Main

LEMMA UserStep == TInv /\ [Next]_vars => UserType'
<1> SUFFICES ASSUME TInv, [Next]_vars PROVE UserType'
  OBVIOUS
<1>0. UserType /\ MaxTurns \in Nat /\ MaxCommands \in Nat /\ MaxPresses \in Nat
  BY Bounds DEF TInv
<1>1. ASSUME NEW t \in Teensy, Receive(t)
      PROVE  UserType'
  <2> DEFINE p == Head(outRing[t])
  <2>1. outRing[t] \in Packets /\ outRing[t] # <<>>
    BY <1>1 DEF Receive, TInv, OutOK
  <2>2. p \in Seq(Command)
    <3> DEFINE C == Seq(Command)
    <3>1. outRing[t] \in Seq(C) /\ outRing[t] # <<>>
      BY <2>1 DEF Packets
    <3> HIDE DEF C
    <3>2. p \in C
      BY <3>1
    <3> QED
      BY <3>2 DEF C
  <2>3. shown[t] \in [Id -> AnyValue]
    BY <1>0 DEF UserType
  <2>4. ShownAfter(shown[t], p) \in [Id -> AnyValue]
    BY <2>2, <2>3, ShownAfterType
  <2>5. shown' = [shown EXCEPT ![t] = ShownAfter(shown[t], p)]
    BY <1>1 DEF Receive
  <2>6. UNCHANGED <<knob, turns, commands, presses, crossed>>
    BY <1>1 DEF Receive
  <2> HIDE DEF p
  <2>7. shown' \in [Teensy -> [Id -> AnyValue]]
    BY <1>0, <2>4, <2>5 DEF UserType
  <2> QED
    BY <1>0, <2>6, <2>7 DEF UserType
<1>2. ASSUME NEW t \in Teensy, NEW id \in Id, NEW v \in KnobValue,
             TurnKnob(t, id, v)
      PROVE  UserType'
  <2>1. v \in AnyValue
    BY HubAssumption DEF HubAssumption, AnyValue
  <2>2. shown' \in [Teensy -> [Id -> AnyValue]]
    BY <1>0, <1>2, <2>1 DEF UserType, TurnKnob
  <2>3. knob' \in [Ref -> AnyValue]
    BY <1>0, <1>2, <2>1 DEF UserType, TurnKnob
  <2>4. turns' \in 0 .. MaxTurns
    BY <1>0, <1>2 DEF UserType, TurnKnob
  <2>5. crossed' \subseteq Teensy \X Id
    <3>1. crossed' = crossed \cup {<<t, id>>} \/ crossed' = crossed \ {<<t, id>>}
      BY <1>2 DEF TurnKnob
    <3> QED
      BY <1>0, <3>1 DEF UserType
  <2> QED
    BY <1>0, <1>2, <2>2, <2>3, <2>4, <2>5 DEF UserType, TurnKnob
<1>3. ASSUME NEW t \in Teensy, PressCommand(t)
      PROVE  UserType'
  <2>1. commands' \in 0 .. MaxCommands
    BY <1>0, <1>3 DEF UserType, PressCommand
  <2> QED
    BY <1>0, <1>3, <2>1 DEF UserType, PressCommand
<1>4. CASE Buttons
  <2>1. presses' = presses \/ (presses < MaxPresses /\ presses' = presses + 1)
    BY <1>4 DEF Buttons
  <2>2. presses' \in 0 .. MaxPresses
    BY <1>0, <2>1 DEF UserType
  <2> QED
    BY <1>0, <1>4, <2>2 DEF UserType, Buttons
<1>5. CASE \/ InputPacket \/ InputNext \/ InputDone \/ Update \/ OutputTooEarly
           \/ OutputDone \/ UNCHANGED vars
  <2>1. UNCHANGED user
    BY <1>5 DEF InputPacket, InputNext, InputDone, Update, OutputTooEarly,
                OutputDone, vars
  <2> QED
    BY <1>0, <2>1 DEF UserType, user
<1>6. CASE OutputDiffering
  <2>1. UNCHANGED <<shown, knob, turns, commands, presses>>
    BY <1>6 DEF OutputDiffering
  <2>2. turn \in Teensy
    BY <1>6, Bounds DEF OutputDiffering, TInv, MainType, Teensy
  <2>3. PICK A \in SUBSET Id, B \in SUBSET Id :
          crossed' = (crossed \ {<<turn, id>> : id \in A})
                       \cup {<<turn, id>> : id \in B}
    <3> DEFINE A == Differing(turn)
               B == {i \in A : \/ Reported(turn, i)
                               \/ ~DataFrom(outRing'[turn],
                                            Len(outRing[turn]) + 1, i)}
    <3>1. A \in SUBSET Id /\ B \in SUBSET Id
      BY DEF Differing
    <3>2. crossed' = (crossed \ {<<turn, id>> : id \in A})
                       \cup {<<turn, id>> : id \in B}
      BY <1>6 DEF OutputDiffering
    <3> HIDE DEF A, B
    <3> QED
      BY <3>1, <3>2
  <2>4. crossed' \subseteq Teensy \X Id
    BY <1>0, <2>2, <2>3 DEF UserType
  <2> QED
    BY <1>0, <2>1, <2>4 DEF UserType
<1> QED
  BY <1>1, <1>2, <1>3, <1>4, <1>5, <1>6 DEF Next, Main

LEMMA TypeStep == TInv /\ [Next]_vars => TInv'
<1> SUFFICES ASSUME TInv, [Next]_vars PROVE TInv'
  OBVIOUS
<1>1. IInv'
  BY StepInv DEF TInv
<1> QED
  BY <1>1, OutStep, InStep, ItemsStep, MainStep, UserStep DEF TInv

LEMMA TypeInvariant == Spec => []TInv
  BY TInit, TypeStep, PTL DEF Spec

LEMMA TypeFollows == TInv => TypeOK
<1> SUFFICES ASSUME TInv PROVE TypeOK
  OBVIOUS
<1>1. ASSUME NEW t \in Teensy
      PROVE  /\ Len(inRing[t]) <= InputCap /\ Len(outRing[t]) <= OutputCap
             /\ PacketLen(packet[t]) <= PacketBytes
             /\ \A p \in ToSet(outRing[t]) : PacketLen(p) \in 1 .. PacketBytes
  <2>1. GoodOut([packet |-> packet[t], ring |-> outRing[t]])
    BY DEF TInv, OutOK
  <2>2. \A k \in 1 .. Len(outRing[t]) :
          PacketLen(outRing[t][k]) \in 1 .. PacketBytes
    BY <2>1 DEF GoodOut
  <2>3. \A p \in ToSet(outRing[t]) :
          \E k \in 1 .. Len(outRing[t]) : p = outRing[t][k]
    <3>1. outRing[t] \in Packets
      BY DEF TInv, OutOK
    <3> QED
      BY <3>1 DEF ToSet, Packets
  <2>4. PacketLen(packet[t]) <= PacketBytes /\ Len(outRing[t]) <= OutputCap
    BY <2>1 DEF GoodOut
  <2>5. Len(inRing[t]) <= InputCap
    BY DEF TInv, InOK
  <2> QED
    BY <2>2, <2>3, <2>4, <2>5
<1>2. value \in [Ref -> AnyValue] /\ outRing \in [Teensy -> Seq(Seq(Command))]
  BY DEF TInv, MainType, Values, OutOK, Packets
<1> QED
  BY <1>1, <1>2 DEF TypeOK, TInv, OutOK, InOK, ItemsOK, MainType, UserType

\* Everything keeps its type: the values of the data references and of the
\* items stay in range through rounding, truncation and buttons, no buffer
\* holds more than it has room for, and no packet, neither the one being
\* filled nor one in the output buffer, is longer than 64 bytes or empty.
THEOREM HubTypeCorrect == Spec => []TypeOK
  BY TypeInvariant, TypeFollows, PTL

-----------------------------------------------------------------------------
(***************************************************************************)
(* What is on its way to a Teensy.                                         *)
(***************************************************************************)
IsFor(c, id) == c.op = "data" /\ c.id = id
Free(p, id) == \A k \in 1 .. Len(p) : ~IsFor(p[k], id)

\* The last value for id in packet p is v.
LastIs(p, id, v) ==
  \E k \in 1 .. Len(p) :
    /\ IsFor(p[k], id) /\ p[k].val = v
    /\ \A j \in 1 .. Len(p) : j > k => ~IsFor(p[j], id)

NoneFor(w, id) == \A k \in 1 .. Len(w) : Free(w[k], id)

\* When all of the packets w have arrived at a Teensy that shows s, it shows v.
Ends(s, w, id, v) ==
  \/ NoneFor(w, id) /\ s[id] = v
  \/ \E k \in 1 .. Len(w) :
       /\ LastIs(w[k], id, v)
       /\ \A j \in 1 .. Len(w) : j > k => Free(w[j], id)

LEMMA ShownLast ==
  ASSUME NEW p \in Seq(Command), NEW id \in Id, NEW s
  PROVE  /\ Free(p, id) => ShownAfter(s, p)[id] = s[id]
         /\ \A v : LastIs(p, id, v) => ShownAfter(s, p)[id] = v
<1> DEFINE D == DataFor(p, id)
<1>1. ShownAfter(s, p)[id] = IF D = {} THEN s[id] ELSE p[Max(D)].val
  BY DEF ShownAfter
<1>2. Free(p, id) => D = {}
  BY DEF Free, DataFor, IsFor
<1>3. ASSUME NEW v, LastIs(p, id, v)
      PROVE  D # {} /\ p[Max(D)].val = v
  <2>1. PICK k \in 1 .. Len(p) :
          /\ IsFor(p[k], id) /\ p[k].val = v
          /\ \A j \in 1 .. Len(p) : j > k => ~IsFor(p[j], id)
    BY <1>3 DEF LastIs
  <2>2. k \in D
    BY <2>1 DEF IsFor, DataFor
  <2>3. Max(D) \in D /\ k <= Max(D)
    BY <2>2, LastData
  <2>4. Max(D) \in 1 .. Len(p) /\ IsFor(p[Max(D)], id)
    BY <2>3 DEF DataFor, IsFor
  <2> HIDE DEF D
  <2>5. Len(p) \in Nat
    OBVIOUS
  <2>6. Max(D) = k
    BY <2>1, <2>3, <2>4, <2>5
  <2> QED
    BY <2>1, <2>2, <2>6
<1> QED
  BY <1>1, <1>2, <1>3

\* The first packet arrives.
LEMMA EndsTail ==
  ASSUME NEW w \in Seq(Seq(Command)), w # <<>>, NEW id \in Id, NEW s
  PROVE  /\ \A v : Ends(s, w, id, v) =>
                     Ends(ShownAfter(s, Head(w)), Tail(w), id, v)
         /\ NoneFor(w, id) => /\ NoneFor(Tail(w), id)
                              /\ ShownAfter(s, Head(w))[id] = s[id]
<1> DEFINE q == Tail(w)
           C == Seq(Command)
           p == Head(w)
           shows == ShownAfter(s, p)
<1>1. w \in Seq(C)
  OBVIOUS
<1> HIDE DEF C
<1>2. /\ p = w[1] /\ w[1] \in C /\ Len(w) >= 1 /\ Len(w) \in Nat
      /\ Len(q) = Len(w) - 1 /\ \A i \in 1 .. Len(q) : q[i] = w[i + 1]
  BY <1>1, TailFacts
<1>3. /\ Free(p, id) => shows[id] = s[id]
      /\ \A v : LastIs(p, id, v) => shows[id] = v
  <2>1. p \in Seq(Command)
    BY <1>2 DEF C
  <2> HIDE DEF p
  <2> QED
    BY <2>1, ShownLast
<1> HIDE DEF q, p, shows
<1>4. /\ \A i \in 1 .. Len(q) : i + 1 \in 1 .. Len(w) /\ i + 1 > 1
      /\ 1 \in 1 .. Len(w)
      /\ \A i \in 1 .. Len(w) : i # 1 => i - 1 \in 1 .. Len(q)
      /\ \A i \in 1 .. Len(w) : i # 1 => q[i - 1] = w[i]
  BY <1>2
<1>5. NoneFor(w, id) => NoneFor(q, id) /\ shows[id] = s[id]
  BY <1>2, <1>3, <1>4 DEF NoneFor
<1>6. ASSUME NEW v, NEW k \in 1 .. Len(w), LastIs(w[k], id, v),
             \A j \in 1 .. Len(w) : j > k => Free(w[j], id)
      PROVE  Ends(shows, q, id, v)
  <2>1. CASE k = 1
    <3>1. NoneFor(q, id)
      BY <1>2, <1>4, <1>6, <2>1 DEF NoneFor
    <3>2. shows[id] = v
      BY <1>2, <1>3, <1>6, <2>1
    <3> QED
      BY <3>1, <3>2 DEF Ends
  <2>2. CASE k # 1
    <3>1. k - 1 \in 1 .. Len(q) /\ q[k - 1] = w[k]
      BY <1>4, <2>2
    <3>2. \A j \in 1 .. Len(q) : j > k - 1 => j + 1 > k
      BY <1>2
    <3>3. \A j \in 1 .. Len(q) : j > k - 1 => Free(q[j], id)
      BY <1>2, <1>4, <1>6, <3>2
    <3> QED
      BY <1>6, <3>1, <3>3 DEF Ends
  <2> QED
    BY <2>1, <2>2
<1>7. \A v : Ends(s, w, id, v) => Ends(shows, q, id, v)
  BY <1>5, <1>6 DEF Ends
<1> QED
  BY <1>5, <1>7 DEF q, shows, p

\* All values for id in packet p are in V.
AllIn(p, id, V) == \A k \in 1 .. Len(p) : IsFor(p[k], id) => p[k].val \in V

\* out is what was in the buffer w and more, with values for id in V only.
Grown(w, out, id, V) ==
  /\ AllIn(out.packet, id, V)
  /\ Len(w) <= Len(out.ring)
  /\ \A k \in 1 .. Len(w) : out.ring[k] = w[k]
  /\ \A k \in 1 .. Len(out.ring) : k > Len(w) => AllIn(out.ring[k], id, V)

LEMMA GrownPacket ==
  ASSUME NEW w \in Packets, NEW out \in Output, NEW id, NEW V,
         Grown(w, out, id, V)
  PROVE  Grown(w, OutputPacket(out, OutputCap), id, V)
<1> DEFINE o == OutputPacket(out, OutputCap)
           C == Seq(Command)
           r == out.ring
           p == out.packet
<1>1. w \in Seq(C) /\ r \in Seq(C) /\ p \in C
  BY DEF Output, Packets
<1>2. o.packet = <<>> /\ o.ring = IF Len(r) < OutputCap THEN Append(r, p) ELSE r
  BY OutputPacketIs
<1>3. AllIn(o.packet, id, V)
  BY <1>2 DEF AllIn
<1>4. /\ AllIn(p, id, V) /\ Len(w) <= Len(r)
      /\ \A k \in 1 .. Len(w) : r[k] = w[k]
      /\ \A k \in 1 .. Len(r) : k > Len(w) => AllIn(r[k], id, V)
  BY DEF Grown
<1> HIDE DEF o, C, r, p
<1>5. Len(w) \in Nat /\ Len(r) \in Nat
  BY <1>1
<1>6. CASE o.ring = r
  BY <1>3, <1>4, <1>6 DEF Grown, o
<1>7. CASE o.ring = Append(r, p)
  <2> DEFINE q == Append(r, p)
  <2>1. /\ Len(q) = Len(r) + 1 /\ \A k \in 1 .. Len(r) : q[k] = r[k]
        /\ q[Len(r) + 1] = p
    BY <1>1, AppendFacts
  <2> HIDE DEF q
  <2>2. Len(w) <= Len(q) /\ \A k \in 1 .. Len(w) : q[k] = w[k]
    BY <1>4, <1>5, <2>1
  <2>3. \A k \in 1 .. Len(q) : k \in 1 .. Len(r) \/ q[k] = p
    BY <1>5, <2>1
  <2>4. \A k \in 1 .. Len(q) : k > Len(w) => AllIn(q[k], id, V)
    BY <1>4, <2>1, <2>3
  <2> QED
    BY <1>3, <1>7, <2>2, <2>4 DEF Grown, o, q
<1> QED
  BY <1>2, <1>6, <1>7

LEMMA GrownData ==
  ASSUME NEW w \in Packets, NEW out \in Output, NEW cmd \in Command, NEW id,
         NEW V, Grown(w, out, id, V), IsFor(cmd, id) => cmd.val \in V
  PROVE  Grown(w, OutputData(out, cmd, OutputCap), id, V)
<1> DEFINE o == OutputData(out, cmd, OutputCap)
           room == RoomFor(out, cmd)
           C == Command
<1>1. room = out \/ room = OutputPacket(out, OutputCap)
  BY DEF RoomFor
<1>2. room \in Output /\ Grown(w, room, id, V)
  <2>1. OutputPacket(out, OutputCap) \in Output
    BY OutputPacketIs
  <2> HIDE DEF room
  <2> QED
    BY <1>1, <2>1, GrownPacket
<1>3. o.packet = Append(room.packet, cmd) /\ o.ring = room.ring
  <2>1. o = [room EXCEPT !.packet = Append(@, cmd)]
    BY DEF OutputData, RoomFor
  <2> HIDE DEF room
  <2> QED
    BY <1>2, <2>1, OutputDataIs
<1> DEFINE p == room.packet
           q == Append(p, cmd)
<1>4. p \in Seq(C) /\ cmd \in C
  BY <1>2 DEF Output
<1> HIDE DEF C, room, o
<1>5. /\ Len(q) = Len(p) + 1 /\ Len(p) \in Nat
      /\ \A k \in 1 .. Len(p) : q[k] = p[k]
      /\ q[Len(p) + 1] = cmd
  BY <1>4, AppendFacts
<1>6. AllIn(p, id, V)
  BY <1>2 DEF Grown
<1> HIDE DEF q, p
<1>7. \A k \in 1 .. Len(q) : k \in 1 .. Len(p) \/ q[k] = cmd
  BY <1>5
<1>8. AllIn(q, id, V)
  BY <1>5, <1>6, <1>7 DEF AllIn
<1> QED
  BY <1>2, <1>3, <1>8 DEF Grown, o, p, q

\* The loop of TeensyControls_output.
LEMMA GrownItems ==
  ASSUME NEW w \in Packets, NEW out, GoodOut(out), NEW list \in Seq(Item),
         NEW id, NEW V, Grown(w, out, id, V),
         \A i \in 1 .. Len(list) :
           list[i].id = id /\ Differs(list[i]) =>
             AsSent(list[i].type, list[i].val) \in V
  PROVE  Grown(w, OutputItems(out, list, OutputCap), id, V)
<1> DEFINE N == Len(list)
<1>1. PICK f \in [0 .. N -> GoodOuts] :
        /\ f[0] = out
        /\ \A n \in 1 .. N : f[n] = OutputItemStep(f[n - 1], list[n])
        /\ OutputItems(out, list, OutputCap) = f[N]
  BY OutputItemsSteps
<1>2. N \in Nat /\ \A n \in 1 .. N : list[n] \in Item
  <2> HIDE DEF Item
  <2> QED
    OBVIOUS
<1> DEFINE S == {n \in 0 .. N : Grown(w, f[n], id, V)}
<1> HIDE DEF N
<1>3. 0 \in S
  BY <1>1, <1>2
<1>4. ASSUME NEW n \in 1 .. N, n - 1 \in S
      PROVE  n \in S
  <2> DEFINE x == list[n]
             o == f[n - 1]
  <2>1. n - 1 \in 0 .. N /\ n \in 0 .. N
    BY <1>2
  <2>2. o \in Output /\ Grown(w, o, id, V) /\ f[n] = OutputItemStep(o, x)
    BY <1>1, <1>4, <2>1 DEF GoodOuts
  <2>3. x \in Item
    BY <1>2
  <2> HIDE DEF o
  <2>4. CASE Differs(x)
    <3> DEFINE cmd == DataOf(x)
               a == AsSent(x.type, x.val)
    <3>1. cmd = [op |-> "data", id |-> x.id, val |-> a]
      BY DEF DataOf, Data
    <3>2. cmd \in Command
      <4>1. x.id \in Id /\ x.val \in AnyValue
        BY <2>3, ItemFields
      <4>2. a \in AnyValue
        BY <4>1, AsSentFacts
      <4> QED
        BY <4>1, <4>2, CommandTypes DEF DataOf
    <3>3. IsFor(cmd, id) => x.id = id
      BY <3>1 DEF IsFor
    <3>4. x.id = id => a \in V
      BY <1>4, <2>4 DEF N
    <3>5. cmd.val = a
      BY <3>1
    <3> HIDE DEF cmd, a
    <3>6. IsFor(cmd, id) => cmd.val \in V
      BY <3>3, <3>4, <3>5
    <3>7. Grown(w, OutputData(o, cmd, OutputCap), id, V)
      BY <2>2, <3>2, <3>6, GrownData
    <3>8. f[n] = OutputData(o, cmd, OutputCap)
      BY <2>2, <2>4 DEF OutputItemStep, cmd
    <3> QED
      BY <2>1, <3>7, <3>8
  <2>5. CASE ~Differs(x)
    BY <2>1, <2>2, <2>5 DEF OutputItemStep
  <2> QED
    BY <2>4, <2>5
<1> HIDE DEF S
<1>5. \A n \in 0 .. N : n \in S
  BY <1>2, <1>3, <1>4, UpTo
<1>6. N \in S
  BY <1>2, <1>5
<1> QED
  BY <1>1, <1>6 DEF S

\* What has grown by no value for id ends as it did.
LEMMA GrownEnds ==
  ASSUME NEW w \in Packets, NEW out \in Output, NEW id, Grown(w, out, id, {})
  PROVE  /\ NoneFor(w, id) => NoneFor(out.ring, id)
         /\ \A s, v : Ends(s, w, id, v) => Ends(s, out.ring, id, v)
         /\ Free(out.packet, id)
<1> DEFINE r == out.ring
           C == Seq(Command)
<1>1. w \in Seq(C) /\ r \in Seq(C)
  BY DEF Output, Packets
<1>2. /\ Len(w) <= Len(r) /\ \A k \in 1 .. Len(w) : r[k] = w[k]
      /\ \A k \in 1 .. Len(r) : k > Len(w) => Free(r[k], id)
      /\ Free(out.packet, id)
  BY DEF Grown, AllIn, Free
<1> HIDE DEF r, C
<1>3. Len(w) \in Nat /\ Len(r) \in Nat
  BY <1>1
<1>4. /\ \A k \in 1 .. Len(r) : k \in 1 .. Len(w) \/ Free(r[k], id)
      /\ \A k \in 1 .. Len(w) : k \in 1 .. Len(r)
  BY <1>2, <1>3
<1>5. NoneFor(w, id) => NoneFor(r, id)
  BY <1>2, <1>4 DEF NoneFor
<1>6. ASSUME NEW s, NEW v, NEW k \in 1 .. Len(w), LastIs(w[k], id, v),
             \A j \in 1 .. Len(w) : j > k => Free(w[j], id)
      PROVE  Ends(s, r, id, v)
  <2>1. k \in 1 .. Len(r) /\ LastIs(r[k], id, v)
    BY <1>2, <1>4, <1>6
  <2>2. \A j \in 1 .. Len(r) : j > k => Free(r[j], id)
    BY <1>2, <1>4, <1>6
  <2> QED
    BY <2>1, <2>2 DEF Ends
<1>7. \A s, v : Ends(s, w, id, v) => Ends(s, r, id, v)
  BY <1>5, <1>6 DEF Ends
<1> QED
  BY <1>2, <1>5, <1>7 DEF r

\* If it has grown by values for id, it ends with one of them.
LEMMA GrownWith ==
  ASSUME NEW w \in Packets, NEW out \in Output, NEW id, NEW v,
         Grown(w, out, id, {v}), DataFrom(out.ring, Len(w) + 1, id), NEW s
  PROVE  Ends(s, out.ring, id, v)
<1> DEFINE r == out.ring
           C == Seq(Command)
           K == {k \in Len(w) + 1 .. Len(r) : DataFor(r[k], id) # {}}
           k == Max(K)
           D == DataFor(r[k], id)
           j == Max(D)
<1>1. w \in Seq(C) /\ r \in Seq(C)
  BY DEF Output, Packets
<1>2. \A n \in 1 .. Len(r) : n > Len(w) => AllIn(r[n], id, {v})
  BY DEF Grown
<1>3. Len(w) \in Nat /\ Len(r) \in Nat /\ \A n \in 1 .. Len(r) : r[n] \in C
  <2> HIDE DEF C, r
  <2> QED
    BY <1>1
<1>4. K # {}
  BY DEF DataFrom
<1>5. K \subseteq 0 .. Len(r)
  <2> HIDE DEF C, r
  <2> QED
    BY <1>3
<1>6. k \in K /\ \A n \in K : n <= k
  <2> HIDE DEF K, r
  <2> QED
    BY <1>3, <1>4, <1>5, GreatestOf
<1> HIDE DEF k, r
<1>7. k \in 1 .. Len(r) /\ k > Len(w) /\ D # {}
  BY <1>3, <1>6
<1>8. \A n \in 1 .. Len(r) : n > k => Free(r[n], id)
  <2> SUFFICES ASSUME NEW n \in 1 .. Len(r), n > k PROVE Free(r[n], id)
    OBVIOUS
  <2>1. n \notin K
    <3> HIDE DEF K
    <3>1. k \in Nat
      BY <1>7
    <3> QED
      BY <1>3, <1>6, <3>1
  <2>2. n \in Len(w) + 1 .. Len(r)
    BY <1>3, <1>7
  <2>3. DataFor(r[n], id) = {}
    BY <2>1, <2>2
  <2> QED
    BY <2>3 DEF DataFor, Free, IsFor
<1>9. r[k] \in Seq(Command) /\ AllIn(r[k], id, {v})
  BY <1>2, <1>3, <1>7
<1> DEFINE p == r[k]
<1>10. Len(p) \in Nat
  BY <1>9
<1>11. D \subseteq 0 .. Len(p) /\ D # {}
  BY <1>7 DEF DataFor
<1>12. j \in D /\ \A n \in D : n <= j
  <2> HIDE DEF D, p
  <2> QED
    BY <1>10, <1>11, GreatestOf
<1> HIDE DEF j
<1>13. j \in 1 .. Len(p) /\ IsFor(p[j], id)
  BY <1>12 DEF DataFor, IsFor
<1>14. \A n \in 1 .. Len(p) : n > j => ~IsFor(p[n], id)
  <2> SUFFICES ASSUME NEW n \in 1 .. Len(p), n > j, IsFor(p[n], id)
               PROVE  FALSE
    OBVIOUS
  <2>1. n \in D
    BY DEF DataFor, IsFor
  <2>2. n <= j
    BY <1>12, <2>1
  <2> QED
    BY <1>10, <1>13, <2>2
<1>15. p[j].val = v
  BY <1>9, <1>13 DEF AllIn
<1>16. LastIs(p, id, v)
  BY <1>13, <1>14, <1>15 DEF LastIs
<1> QED
  BY <1>7, <1>8, <1>16 DEF Ends, r

-----------------------------------------------------------------------------
(***************************************************************************)
(* What is on its way from a Teensy.                                       *)
(***************************************************************************)
IsWrite(c, id) == c.op = "write" /\ c.id = id
NoWrite(q, id) == \A k \in 1 .. Len(q) : ~IsWrite(q[k], id)

\* The last value for id in the buffer, if there is one, is v.
LastWrite(q, id, v) ==
  \A k \in 1 .. Len(q) :
    IsWrite(q[k], id) /\ (\A j \in 1 .. Len(q) : j > k => ~IsWrite(q[j], id))
      => q[k].val = v

LEMMA SentPlain ==
  ASSUME NEW q \in Seq(Report), NEW more \in Seq(Report), Len(q) <= InputCap,
         NEW id, NoWrite(more, id), NEW v
  PROVE  /\ NoWrite(q, id) <=> NoWrite(Sent(q, more), id)
         /\ LastWrite(q, id, v) => LastWrite(Sent(q, more), id, v)
<1> DEFINE w == Sent(q, more)
<1>1. /\ w \in Seq(Report) /\ Len(q) <= Len(w)
      /\ \A k \in 1 .. Len(q) : w[k] = q[k]
      /\ \A k \in 1 .. Len(w) :
           k > Len(q) => /\ k - Len(q) \in 1 .. Len(more)
                         /\ w[k] = more[k - Len(q)]
  BY SentIs
<1>2. Len(q) \in Nat /\ Len(w) \in Nat
  BY <1>1
<1> HIDE DEF w
<1>3. \A k \in 1 .. Len(w) : ~IsWrite(w[k], id) \/ k \in 1 .. Len(q)
  BY <1>1, <1>2 DEF NoWrite
<1>4. \A k \in 1 .. Len(q) : k \in 1 .. Len(w) /\ w[k] = q[k]
  BY <1>1, <1>2
<1>5. NoWrite(q, id) <=> NoWrite(w, id)
  BY <1>3, <1>4 DEF NoWrite
<1>7. LastWrite(q, id, v) => LastWrite(w, id, v)
  <2> SUFFICES ASSUME LastWrite(q, id, v), NEW k \in 1 .. Len(w),
                      IsWrite(w[k], id),
                      \A j \in 1 .. Len(w) : j > k => ~IsWrite(w[j], id)
               PROVE  w[k].val = v
    BY DEF LastWrite
  <2>1. k \in 1 .. Len(q) /\ w[k] = q[k]
    BY <1>3, <1>4
  <2>2. \A j \in 1 .. Len(q) : j > k => ~IsWrite(q[j], id)
    BY <1>4
  <2> QED
    BY <2>1, <2>2 DEF LastWrite
<1> QED
  BY <1>5, <1>7 DEF w

LEMMA SentWrite ==
  ASSUME NEW q \in Seq(Report), Len(q) < InputCap, NEW id \in Id,
         NEW v \in Value
  PROVE  LET w == Sent(q, <<[op |-> "write", id |-> id, val |-> v]>>) IN
         ~NoWrite(w, id) /\ LastWrite(w, id, v)
<1> DEFINE e == [op |-> "write", id |-> id, val |-> v]
           more == <<e>>
           w == Sent(q, more)
<1>1. e \in Report /\ IsWrite(e, id) /\ e.val = v
  BY DEF Report, IsWrite
<1>2. Len(q) \in Nat /\ InputCap \in Nat
  BY Bounds
<1> HIDE DEF e, Report
<1>3. more \in Seq(Report) /\ Len(more) = 1 /\ more[1] = e
  BY <1>1
<1> HIDE DEF more
<1>4. Len(q) <= InputCap /\ Len(q) + Len(more) <= InputCap
  BY <1>2, <1>3
<1>5. /\ w \in Seq(Report) /\ Len(w) = Len(q) + Len(more)
      /\ \A k \in 1 .. Len(q) : w[k] = q[k]
      /\ \A k \in 1 .. Len(w) :
           k > Len(q) => /\ k - Len(q) \in 1 .. Len(more)
                         /\ w[k] = more[k - Len(q)]
  BY <1>3, <1>4, SentIs
<1> HIDE DEF w
<1>6. /\ Len(w) \in 1 .. Len(w) /\ w[Len(w)] = e
      /\ \A k \in 1 .. Len(w) : k # Len(w) => /\ k \in 1 .. Len(q)
                                              /\ w[k] = q[k] /\ Len(w) > k
  <2>1. Len(w) = Len(q) + 1 /\ Len(w) - Len(q) = 1 /\ Len(w) > Len(q)
        /\ Len(w) \in 1 .. Len(w)
    BY <1>2, <1>3, <1>5
  <2>2. w[Len(w)] = e
    BY <1>3, <1>5, <2>1
  <2> QED
    BY <1>2, <1>5, <2>1, <2>2
<1>7. ~NoWrite(w, id)
  BY <1>1, <1>6 DEF NoWrite
<1>8. LastWrite(w, id, v)
  BY <1>1, <1>6 DEF LastWrite
<1> QED
  BY <1>7, <1>8 DEF w, more, e

LEMMA TailWrites ==
  ASSUME NEW q \in Seq(Report), q # <<>>, NEW id, NEW v
  PROVE  LET r == Head(q) IN
         /\ r \in Report
         /\ NoWrite(q, id) <=> ~IsWrite(r, id) /\ NoWrite(Tail(q), id)
         /\ LastWrite(q, id, v) =>
              /\ LastWrite(Tail(q), id, v)
              /\ IsWrite(r, id) /\ NoWrite(Tail(q), id) => r.val = v
<1> DEFINE r == Head(q)
           w == Tail(q)
<1> HIDE DEF Report
<1>1. /\ r = q[1] /\ r \in Report /\ Len(q) >= 1 /\ Len(q) \in Nat
      /\ Len(w) = Len(q) - 1 /\ \A i \in 1 .. Len(w) : w[i] = q[i + 1]
  BY TailFacts
<1> HIDE DEF r, w
<1>2. /\ \A i \in 1 .. Len(w) : i + 1 \in 1 .. Len(q) /\ w[i] = q[i + 1]
      /\ 1 \in 1 .. Len(q)
      /\ \A i \in 1 .. Len(q) : i # 1 => i - 1 \in 1 .. Len(w)
                                         /\ w[i - 1] = q[i]
  BY <1>1
<1>3. NoWrite(q, id) <=> ~IsWrite(r, id) /\ NoWrite(w, id)
  BY <1>1, <1>2 DEF NoWrite
<1>5. ASSUME LastWrite(q, id, v), NEW k \in 1 .. Len(w), IsWrite(w[k], id),
             \A j \in 1 .. Len(w) : j > k => ~IsWrite(w[j], id)
      PROVE  w[k].val = v
  <2>1. k + 1 \in 1 .. Len(q) /\ w[k] = q[k + 1] /\ k \in Nat
    BY <1>2
  <2>2. ASSUME NEW j \in 1 .. Len(q), j > k + 1
        PROVE  ~IsWrite(q[j], id)
    <3>1. j # 1 /\ j - 1 > k
      BY <2>1, <2>2
    <3> QED
      BY <1>2, <1>5, <3>1
  <2> QED
    BY <1>5, <2>1, <2>2 DEF LastWrite
<1>6. ASSUME LastWrite(q, id, v), IsWrite(r, id), NoWrite(w, id)
      PROVE  r.val = v
  <2>1. \A j \in 1 .. Len(q) : j > 1 => ~IsWrite(q[j], id)
    BY <1>2, <1>6 DEF NoWrite
  <2> QED
    BY <1>1, <1>2, <1>6, <2>1 DEF LastWrite
<1>7. LastWrite(q, id, v) => LastWrite(w, id, v)
  BY <1>5 DEF LastWrite
<1> QED
  BY <1>1, <1>3, <1>6, <1>7 DEF r, w

-----------------------------------------------------------------------------
(***************************************************************************)
(* An id that has not crossed.  q is the input buffer, list are the items, *)
(* s is what the Teensy shows and w is what is on its way to it.           *)
(***************************************************************************)

\* A value the user has set meets none, and he has set no other since.
Unmet(q, s, w, id) == NoneFor(w, id) /\ LastWrite(q, id, s[id])

\* The Teensy shows, or will show, what was sent to it, or it was heard.
Agrees(x, s, w) ==
  \/ x.remote = NoValue
  \/ Ends(s, w, x.id, AsSent(x.type, x.remote))
  \/ NoneFor(w, x.id) /\ x.remote = Heard(x.type, s[x.id])

Linked(q, list, s, w, id) ==
  /\ ~NoWrite(q, id) => Unmet(q, s, w, id)
  /\ NoWrite(q, id) =>
       \A i \in 1 .. Len(list) : list[i].id = id => Agrees(list[i], s, w)

LEMMA LinkedRegisters ==
  ASSUME NEW q, NEW list \in Seq(Item), NEW s, NEW w, NEW new \in Id, NEW id,
         NEW type \in {"int", "float"}, NEW mapped, Linked(q, list, s, w, id)
  PROVE  Linked(q, RegisterItem(list, new, type, mapped), s, w, id)
<1> DEFINE e == [id |-> new, type |-> type, val |-> NoValue,
                 remote |-> NoValue, changed |-> FALSE]
           l == RegisterItem(list, new, type, mapped)
<1>1. l = list \/ l = <<e>> \o list
  <2> HIDE DEF Item
  <2> QED
    BY RegisterIs
<1>2. e.remote = NoValue
  OBVIOUS
<1>3. IsSequence(list)
  <2> HIDE DEF Item
  <2> QED
    BY IsSequenceOf
<1> HIDE DEF e, l
<1>4. CASE l = list
  BY <1>4 DEF l
<1>5. CASE l = <<e>> \o list
  <2>1. \A i \in 1 .. Len(l) :
          \/ l[i] = e
          \/ i - 1 \in 1 .. Len(list) /\ l[i] = list[i - 1]
    BY <1>3, <1>5, InFront
  <2>2. Agrees(e, s, w)
    BY <1>2 DEF Agrees
  <2> QED
    BY <2>1, <2>2 DEF Linked, l
<1> QED
  BY <1>1, <1>4, <1>5

\* A report is taken from the buffer that has no value for id.
LEMMA LinkedPasses ==
  ASSUME NEW q \in Seq(Report), q # <<>>, NEW list, NEW s, NEW w, NEW id,
         Linked(q, list, s, w, id), ~IsWrite(Head(q), id)
  PROVE  Linked(Tail(q), list, s, w, id)
<1>1. NoWrite(q, id) <=> NoWrite(Tail(q), id)
  BY TailWrites
<1>2. LastWrite(q, id, s[id]) => LastWrite(Tail(q), id, s[id])
  BY TailWrites
<1> QED
  BY <1>1, <1>2 DEF Linked, Unmet

\* One is taken that has a value, and the item takes it.
LEMMA LinkedWrites ==
  ASSUME NEW q \in Seq(Report), q # <<>>, NEW list \in Seq(Item), NEW s, NEW w,
         NEW id, Linked(q, list, s, w, id), Head(q).op = "write"
  PROVE  Linked(Tail(q), WriteItem(list, Head(q).id, Head(q).val), s, w, id)
<1> DEFINE r == Head(q)
           l == WriteItem(list, r.id, r.val)
<1>1. r \in Report
  BY TailWrites
<1>2. r.id \in Id /\ r.val \in Value
  BY <1>1 DEF Report
<1>3. /\ NoWrite(q, id) <=> ~IsWrite(r, id) /\ NoWrite(Tail(q), id)
      /\ LastWrite(q, id, s[id]) =>
           /\ LastWrite(Tail(q), id, s[id])
           /\ IsWrite(r, id) /\ NoWrite(Tail(q), id) => r.val = s[id]
  BY TailWrites
<1>4. IsWrite(r, id) <=> r.id = id
  BY DEF IsWrite
<1> HIDE DEF r
<1>5. /\ Len(l) = Len(list)
      /\ \A i \in 1 .. Len(list) : l[i] = HeardItem(list[i], r.id, r.val)
  <2> HIDE DEF Item
  <2> QED
    BY <1>2, WriteIs
<1> HIDE DEF l
<1>6. CASE r.id # id
  <2>1. \A i \in 1 .. Len(list) : l[i].id = id => l[i] = list[i]
    <3> TAKE i \in 1 .. Len(list)
    <3> DEFINE x == list[i]
               y == l[i]
    <3>1. y = IF x.id # r.id THEN x
              ELSE [id |-> r.id, type |-> x.type,
                    val |-> Heard(x.type, r.val),
                    remote |-> Heard(x.type, r.val), changed |-> TRUE]
      BY <1>5 DEF HeardItem
    <3> HIDE DEF x, y
    <3>2. y.id = id => y = x
      BY <1>6, <3>1
    <3> QED
      BY <3>2 DEF x, y
  <2> QED
    BY <1>3, <1>4, <1>5, <1>6, <2>1 DEF Linked, Unmet, l, r
<1>7. CASE r.id = id
  <2>1. Unmet(q, s, w, id)
    BY <1>3, <1>4, <1>7 DEF Linked
  <2>2. ASSUME NEW i \in 1 .. Len(list), l[i].id = id, NoWrite(Tail(q), id)
        PROVE  Agrees(l[i], s, w)
    <3> DEFINE x == list[i]
               y == l[i]
               h == Heard(x.type, r.val)
    <3>1. r.val = s[id]
      BY <1>3, <1>4, <1>7, <2>1, <2>2 DEF Unmet
    <3>2. y = IF x.id # r.id THEN x
              ELSE [id |-> r.id, type |-> x.type, val |-> h, remote |-> h,
                    changed |-> TRUE]
      BY <1>5 DEF HeardItem
    <3>3. y.id = id
      BY <2>2
    <3> DEFINE g == Heard(x.type, s[id])
    <3>4. h = g
      BY <3>1
    <3> HIDE DEF x, y, h
    <3>5. x.id = r.id
      BY <1>7, <3>2, <3>3
    <3>6. y.type = x.type /\ y.remote = h
      BY <3>2, <3>5
    <3>7. y.remote = Heard(y.type, s[y.id])
      BY <3>3, <3>4, <3>6
    <3>8. NoneFor(w, y.id)
      BY <2>1, <3>3 DEF Unmet
    <3> QED
      BY <3>7, <3>8 DEF Agrees, y
  <2> QED
    BY <1>3, <1>5, <2>1, <2>2 DEF Linked, Unmet, l, r
<1> QED
  BY <1>6, <1>7

\* The items are read anew: what they hold as remote they keep or forget.
LEMMA LinkedReads ==
  ASSUME NEW q, NEW list, NEW l, NEW s, NEW w, NEW id,
         Linked(q, list, s, w, id), Len(l) = Len(list),
         \A i \in 1 .. Len(list) :
           /\ l[i].id = list[i].id /\ l[i].type = list[i].type
           /\ list[i].id = id => l[i].remote \in {NoValue, list[i].remote}
  PROVE  Linked(q, l, s, w, id)
<1>1. ASSUME NEW i \in 1 .. Len(list), list[i].id = id, Agrees(list[i], s, w)
      PROVE  Agrees(l[i], s, w)
  BY <1>1 DEF Agrees
<1> QED
  BY <1>1 DEF Linked

\* What is on its way becomes more or less, but ends the same.
LEMMA LinkedEnds ==
  ASSUME NEW q, NEW p, NEW list, NEW s, NEW new, NEW w, NEW v, NEW id,
         Linked(q, list, s, w, id), NoWrite(q, id) <=> NoWrite(p, id),
         \A a : LastWrite(q, id, a) => LastWrite(p, id, a),
         NoneFor(w, id) => NoneFor(v, id) /\ new[id] = s[id],
         \A a : Ends(s, w, id, a) => Ends(new, v, id, a)
  PROVE  Linked(p, list, new, v, id)
<1>1. Unmet(q, s, w, id) => Unmet(p, new, v, id)
  BY DEF Unmet
<1>2. ASSUME NEW i \in 1 .. Len(list), list[i].id = id, Agrees(list[i], s, w)
      PROVE  Agrees(list[i], new, v)
  BY <1>2 DEF Agrees
<1> QED
  BY <1>1, <1>2 DEF Linked

-----------------------------------------------------------------------------
Out(t) == [packet |-> packet[t], ring |-> outRing[t]]

Held(t, id) ==
  /\ Free(packet[t], id)
  /\ \/ <<t, id>> \in crossed
     \/ Linked(inRing[t], items[t], shown[t], outRing[t], id)

RInv == \A t \in Teensy, id \in Id : Held(t, id)

LEMMA TeensyFacts ==
  ASSUME TInv, NEW t \in Teensy
  PROVE  /\ items[t] \in Seq(Item) /\ NoIdTwice(items[t])
         /\ inRing[t] \in Seq(Report) /\ Len(inRing[t]) <= InputCap
         /\ Out(t) \in Output /\ GoodOut(Out(t))
         /\ shown[t] \in [Id -> AnyValue] /\ Marked(t)
<1>1. items[t] \in Seq(Item) /\ Marked(t)
  BY AllMarked DEF TInv, ItemsOK
<1>2. NoIdTwice(items[t])
  BY DEF TInv, IInv, GoodList
<1>3. inRing[t] \in Seq(Report) /\ Len(inRing[t]) <= InputCap
  BY DEF TInv, InOK
<1>4. GoodOut(Out(t))
  BY DEF TInv, OutOK, Out
<1>5. Out(t) \in Output
  BY <1>4 DEF GoodOut
<1>6. shown[t] \in [Id -> AnyValue]
  BY DEF TInv, UserType
<1> QED
  BY <1>1, <1>2, <1>3, <1>4, <1>5, <1>6

LEMMA ItemIds ==
  ASSUME TInv, NEW t \in Teensy, NEW i \in 1 .. Len(items[t])
  PROVE  /\ items[t][i] \in Item /\ items[t][i].id \in Id
         /\ IsMapped(t, items[t][i].id)
<1>1. items[t][i] \in Item
  <2>1. items[t] \in Seq(Item)
    BY TeensyFacts
  <2> HIDE DEF Item
  <2> QED
    BY <2>1
<1>2. items[t][i].id \in Id
  BY <1>1, ItemFields
<1>3. IsMapped(t, items[t][i].id)
  BY TeensyFacts DEF Marked
<1> QED
  BY <1>1, <1>2, <1>3

\* A step that leaves what is known of t alone.
Same(t) ==
  /\ inRing'[t] = inRing[t] /\ items'[t] = items[t] /\ shown'[t] = shown[t]
  /\ packet'[t] = packet[t] /\ outRing'[t] = outRing[t]
  /\ \A id \in Id : <<t, id>> \in crossed => <<t, id>> \in crossed'

LEMMA SameHeld ==
  ASSUME NEW t \in Teensy, NEW id \in Id, Held(t, id), Same(t)
  PROVE  Held(t, id)'
  BY DEF Held, Same

\* Only one Teensy takes part in the step.
LEMMA OthersHeld ==
  ASSUME RInv, NEW u \in Teensy, \A t \in Teensy : t # u => Same(t),
         \A id \in Id : Held(u, id)'
  PROVE  RInv'
<1>1. ASSUME NEW t \in Teensy, NEW id \in Id
      PROVE  Held(t, id)'
  <2>1. CASE t # u
    BY <2>1, SameHeld DEF RInv
  <2> QED
    BY <2>1
<1> QED
  BY <1>1 DEF RInv

LEMMA InitR == Init => RInv
<1> SUFFICES ASSUME Init, NEW t \in Teensy, NEW id \in Id PROVE Held(t, id)
  BY DEF RInv
<1>1. /\ items[t] = <<>> /\ inRing[t] = <<>>
      /\ packet[t] = <<>> /\ outRing[t] = <<>>
  BY DEF Init
<1>2. Len(<<>>) = 0
  OBVIOUS
<1>3. NoWrite(<<>>, id) /\ Free(<<>>, id)
  BY <1>2 DEF NoWrite, Free
<1> QED
  BY <1>1, <1>2, <1>3 DEF Held, Linked

LEMMA InputR ==
  ASSUME TInv, RInv, InputPacket, NEW u \in Teensy, turn = u
  PROVE  RInv'
<1> DEFINE q == inRing[u]
           r == Head(q)
           list == items[u]
           new == items'[u]
           type == TypeOf[u][r.id]
           mapped == IsMapped(u, r.id)
<1>1. /\ q # <<>> /\ Decode(u, r)
      /\ inRing' = [inRing EXCEPT ![u] = Tail(q)]
      /\ UNCHANGED <<packet, outRing, shown, crossed>>
  BY DEF InputPacket, user
<1>2. q \in Seq(Report) /\ list \in Seq(Item)
  BY TeensyFacts
<1>3. r \in Report
  <2> HIDE DEF Report
  <2> QED
    BY <1>1, <1>2
<1>4. /\ r.op = "register" =>
           items' = [items EXCEPT ![u] =
                       RegisterItem(list, r.id, type, mapped)]
      /\ r.op = "write" =>
           items' = [items EXCEPT ![u] = WriteItem(list, r.id, r.val)]
      /\ r.op = "command" => items' = items
  BY <1>1, <1>3 DEF Decode
<1>5. /\ r.op \in {"register", "write", "command"}
      /\ items = [t \in Teensy |-> items[t]]
  BY <1>3 DEF Report, TInv, IInv
<1>6. /\ r.op = "register" => new = RegisterItem(list, r.id, type, mapped)
      /\ r.op = "write" => new = WriteItem(list, r.id, r.val)
      /\ r.op = "command" => new = list
      /\ \A t \in Teensy : t # u => items'[t] = items[t]
  <2> HIDE DEF type, mapped, r
  <2> QED
    BY <1>4, <1>5
<1>7. /\ inRing'[u] = Tail(q)
      /\ \A t \in Teensy : t # u => inRing'[t] = inRing[t]
  BY <1>1 DEF TInv, InOK
<1>8. r.op = "register" => r.id \in Id /\ type \in {"int", "float"}
  BY <1>3, HubAssumption DEF Report, HubAssumption
<1>9. \A t \in Teensy : t # u => Same(t)
  BY <1>1, <1>6, <1>7 DEF Same
<1> HIDE DEF type, mapped, list, new
<1>10. ASSUME NEW id \in Id
       PROVE  Held(u, id)'
  <2> DEFINE s == shown[u]
             w == outRing[u]
  <2>1. Free(packet[u], id) /\ (<<u, id>> \in crossed \/ Linked(q, list, s, w, id))
    BY DEF RInv, Held, list
  <2> HIDE DEF s, w
  <2>2. ASSUME Linked(q, list, s, w, id)
        PROVE  Linked(Tail(q), new, s, w, id)
    <3>1. CASE r.op = "write"
      BY <1>1, <1>2, <1>6, <2>2, <3>1, LinkedWrites
    <3>2. CASE r.op # "write"
      <4>1. Linked(Tail(q), list, s, w, id)
        BY <1>1, <1>2, <2>2, <3>2, LinkedPasses DEF IsWrite
      <4>2. CASE r.op = "register"
        <5> DEFINE p == Tail(q)
                   i == r.id
        <5>1. Linked(p, list, s, w, id)
          BY <4>1
        <5>2. new = RegisterItem(list, i, type, mapped)
          BY <1>6, <4>2
        <5>3. i \in Id /\ type \in {"int", "float"}
          BY <1>8, <4>2
        <5> HIDE DEF p, i
        <5>4. Linked(p, new, s, w, id)
          BY <1>2, <5>1, <5>2, <5>3, LinkedRegisters
        <5> QED
          BY <5>4 DEF p
      <4>3. CASE r.op = "command"
        BY <1>6, <4>1, <4>3
      <4> QED
        BY <1>5, <3>2, <4>2, <4>3
    <3> QED
      BY <3>1, <3>2
  <2> QED
    BY <1>1, <1>7, <2>1, <2>2 DEF Held, s, w, new
<1> QED
  BY <1>9, <1>10, OthersHeld

LEMMA TurnIsTeensy ==
  ASSUME TInv, turn <= NumTeensy
  PROVE  turn \in Teensy
  BY Bounds DEF TInv, MainType, Teensy

LEMMA UpdateItems ==
  ASSUME TInv, Update, NEW t \in Teensy
  PROVE  /\ Len(items'[t]) = Len(items[t])
         /\ \A i \in 1 .. Len(items[t]) :
              LET x == items[t][i]
                  y == items'[t][i]
              IN  /\ y = ReadNow(x, WrittenValues[RefOf[t][x.id]])
                  /\ y.id = x.id /\ y.type = x.type /\ ~y.changed
                  /\ y.remote \in {NoValue, x.remote}
<1> DEFINE v == WrittenValues
<1>1. v \in Values
  <2>1. \A u \in Teensy : Marked(u)
    BY TeensyFacts
  <2>2. value \in Values
    BY DEF TInv, MainType
  <2> QED
    BY <2>1, <2>2, WrittenType
<1>2. Len(items[t]) \in Nat
  <2>1. items[t] \in Seq(Item)
    BY TeensyFacts
  <2> HIDE DEF Item
  <2> QED
    BY <2>1
<1>3. items'[t] = [i \in 1 .. Len(items[t]) |->
                    ReadNow(items[t][i], v[RefOf[t][items[t][i].id]])]
  BY DEF Update, ReadNow
<1> HIDE DEF v
<1>4. Len(items'[t]) = Len(items[t])
  BY <1>2, <1>3
<1>5. ASSUME NEW i \in 1 .. Len(items[t])
      PROVE  LET x == items[t][i]
                 y == items'[t][i]
             IN  /\ y = ReadNow(x, v[RefOf[t][x.id]])
                 /\ y.id = x.id /\ y.type = x.type /\ ~y.changed
                 /\ y.remote \in {NoValue, x.remote}
  <2> DEFINE x == items[t][i]
             y == items'[t][i]
             a == v[RefOf[t][x.id]]
  <2>1. x \in Item /\ RefOf[t][x.id] \in Ref
    BY ItemIds, RefFacts
  <2>2. a \in AnyValue
    BY <1>1, <2>1 DEF Values
  <2>3. y = ReadNow(x, a)
    BY <1>3
  <2> HIDE DEF x, a
  <2>4. /\ y.id = x.id /\ y.type = x.type /\ ~y.changed
        /\ y.remote \in {NoValue, x.remote}
    BY <2>1, <2>2, <2>3, ReadIs
  <2> QED
    BY <2>3, <2>4 DEF x, a
<1> QED
  BY <1>4, <1>5 DEF v

LEMMA UpdateR ==
  ASSUME TInv, RInv, Update
  PROVE  RInv'
<1> SUFFICES ASSUME NEW t \in Teensy, NEW id \in Id PROVE Held(t, id)'
  BY DEF RInv
<1>1. UNCHANGED <<inRing, packet, outRing, shown, crossed>>
  BY DEF Update, rings, user
<1> DEFINE list == items[t]
           new == items'[t]
<1>2. /\ Len(new) = Len(list)
      /\ \A i \in 1 .. Len(list) :
           /\ new[i].id = list[i].id /\ new[i].type = list[i].type
           /\ new[i].remote \in {NoValue, list[i].remote}
  BY UpdateItems
<1>3. /\ Free(packet[t], id)
      /\ \/ <<t, id>> \in crossed
         \/ Linked(inRing[t], list, shown[t], outRing[t], id)
  BY DEF RInv, Held
<1> HIDE DEF list, new
<1>4. Linked(inRing[t], list, shown[t], outRing[t], id) =>
        Linked(inRing[t], new, shown[t], outRing[t], id)
  BY <1>2, LinkedReads
<1> QED
  BY <1>1, <1>3, <1>4 DEF Held, new

-----------------------------------------------------------------------------
LEMMA EnableGrown ==
  ASSUME TInv, NEW u \in Teensy, NEW id, Free(packet[u], id), NEW V
  PROVE  /\ OutputEnable(u) \in Output /\ outRing[u] \in Packets
         /\ Grown(outRing[u], OutputEnable(u), id, V)
<1> DEFINE e == Enable(askIds[u])
           o == OutputEnable(u)
           w == outRing[u]
<1>1. o \in Output
  BY EnableGood DEF GoodOut
<1>2. Out(u) \in Output
  BY TeensyFacts
<1>3. e \in Command /\ ~IsFor(e, id)
  <2>1. askIds[u] \in BOOLEAN
    BY DEF TInv, MainType
  <2>2. e.op = "enable"
    BY DEF Enable
  <2> QED
    BY <2>1, <2>2, CommandTypes DEF IsFor
<1>4. o = OutputData(Out(u), e, OutputCap)
  BY DEF OutputEnable, Out
<1>5. Out(u).packet = packet[u] /\ Out(u).ring = w
  BY DEF Out
<1> HIDE DEF e, o, w, Out
<1>6. w \in Packets
  BY <1>2, <1>5 DEF Output
<1>7. Len(w) \in Nat
  BY <1>6 DEF Packets
<1>8. Grown(w, Out(u), id, V)
  BY <1>5, <1>7 DEF Grown, AllIn, Free
<1>9. Grown(w, o, id, V)
  BY <1>2, <1>3, <1>4, <1>6, <1>8, GrownData
<1> QED
  BY <1>1, <1>6, <1>9 DEF o, w

LEMMA AllGrown ==
  ASSUME TInv, NEW u \in Teensy, NEW id, Free(packet[u], id), NEW V,
         \A i \in 1 .. Len(items[u]) :
           items[u][i].id = id /\ Differs(items[u][i]) =>
             AsSent(items[u][i].type, items[u][i].val) \in V
  PROVE  /\ OutputAll(u) \in Output /\ outRing[u] \in Packets
         /\ OutputAll(u).packet = <<>>
         /\ Grown(outRing[u], OutputAll(u), id, V)
<1> DEFINE e == OutputEnable(u)
           list == items[u]
           d == OutputItems(e, list, OutputCap)
           o == OutputAll(u)
           w == outRing[u]
<1>1. GoodOut(e) /\ GoodOut(o)
  BY EnableGood
<1>2. w \in Packets /\ Grown(w, e, id, V)
  BY EnableGrown
<1>3. list \in Seq(Item)
  BY TeensyFacts
<1>4. \A i \in 1 .. Len(list) :
        list[i].id = id /\ Differs(list[i]) =>
          AsSent(list[i].type, list[i].val) \in V
  OBVIOUS
<1>5. o = IF d.packet # <<>> THEN OutputPacket(d, OutputCap) ELSE d
  BY DEF OutputAll, OutputFlush
<1> HIDE DEF e, list, o, w
<1>6. GoodOut(d) /\ Grown(w, d, id, V)
  BY <1>1, <1>2, <1>3, <1>4, OutputItemsGood, GrownItems
<1> HIDE DEF d
<1>7. d \in Output /\ o \in Output
  BY <1>1, <1>6 DEF GoodOut
<1>8. Grown(w, o, id, V) /\ o.packet = <<>>
  BY <1>2, <1>5, <1>6, <1>7, GrownPacket, OutputPacketIs
<1> QED
  BY <1>2, <1>7, <1>8 DEF o, w

LEMMA QueueOthers ==
  ASSUME TInv, NEW u \in Teensy, NEW o \in Output, Queue(u, o)
  PROVE  /\ Out(u)' = o
         /\ \A t \in Teensy :
              t # u => packet'[t] = packet[t] /\ outRing'[t] = outRing[t]
<1>1. packet = [t \in Teensy |-> packet[t]] /\ outRing = [t \in Teensy |-> outRing[t]]
  BY DEF TInv, OutOK
<1>2. /\ packet' = [packet EXCEPT ![u] = o.packet]
      /\ outRing' = [outRing EXCEPT ![u] = o.ring]
  BY DEF Queue
<1>3. /\ packet'[u] = o.packet /\ outRing'[u] = o.ring
      /\ \A t \in Teensy :
           t # u => packet'[t] = packet[t] /\ outRing'[t] = outRing[t]
  BY <1>1, <1>2
<1>4. o = [packet |-> o.packet, ring |-> o.ring]
  BY DEF Output
<1> QED
  BY <1>3, <1>4 DEF Out

LEMMA OutputTooEarlyR ==
  ASSUME TInv, RInv, OutputTooEarly, NEW u \in Teensy, turn = u
  PROVE  RInv'
<1> DEFINE o == OutputEnable(u)
<1>1. Queue(u, o) /\ UNCHANGED <<items, inRing, shown, crossed>>
  BY DEF OutputTooEarly, user
<1>2. o \in Output
  BY EnableGood DEF GoodOut
<1> HIDE DEF o
<1>3. /\ Out(u)' = o
      /\ \A t \in Teensy : t # u => Same(t)
  BY <1>1, <1>2, QueueOthers DEF Same
<1>4. packet'[u] = o.packet /\ outRing'[u] = o.ring
  <2>1. [packet |-> packet'[u], ring |-> outRing'[u]] = o
    BY <1>3 DEF Out
  <2> QED
    BY <2>1
<1>5. ASSUME NEW id \in Id
      PROVE  Held(u, id)'
  <2> DEFINE q == inRing[u]
             list == items[u]
             s == shown[u]
             w == outRing[u]
             v == o.ring
  <2>1. Free(packet[u], id) /\ (<<u, id>> \in crossed \/ Linked(q, list, s, w, id))
    BY DEF RInv, Held
  <2>2. w \in Packets /\ Grown(w, o, id, {})
    BY <2>1, EnableGrown DEF o
  <2>3. /\ NoneFor(w, id) => NoneFor(v, id)
        /\ \A a : Ends(s, w, id, a) => Ends(s, v, id, a)
        /\ Free(o.packet, id)
    <3> HIDE DEF w
    <3> QED
      BY <1>2, <2>2, GrownEnds
  <2> HIDE DEF q, list, s, w, v
  <2>4. Linked(q, list, s, w, id) => Linked(q, list, s, v, id)
    BY <2>3, LinkedEnds
  <2> QED
    BY <1>1, <1>4, <2>1, <2>3, <2>4 DEF Held, q, list, s, v
<1> QED
  BY <1>3, <1>5, OthersHeld

LEMMA OutputDifferingR ==
  ASSUME TInv, RInv, OutputDiffering, NEW u \in Teensy, turn = u
  PROVE  RInv'
<1> DEFINE o == OutputAll(u)
           q == inRing[u]
           list == items[u]
           s == shown[u]
           w == outRing[u]
           v == o.ring
           new == MarkSent(list)
           D == Differing(u)
<1>1. /\ Queue(u, o) /\ items' = [items EXCEPT ![u] = new]
      /\ UNCHANGED <<inRing, shown>>
      /\ crossed' = (crossed \ {<<u, id>> : id \in D})
           \cup {<<u, id>> : id \in
                   {i \in D :
                      \/ Reported(u, i)
                      \/ ~DataFrom(outRing'[u], Len(w) + 1, i)}}
  BY DEF OutputDiffering
<1>2. o \in Output
  BY EnableGood DEF GoodOut
<1>3. list \in Seq(Item) /\ NoIdTwice(list)
  BY TeensyFacts
<1>4. items = [t \in Teensy |-> items[t]]
  BY DEF TInv, IInv
<1> HIDE DEF o
<1>5. /\ Out(u)' = o
      /\ \A t \in Teensy :
           t # u => packet'[t] = packet[t] /\ outRing'[t] = outRing[t]
  BY <1>1, <1>2, QueueOthers
<1>6. items'[u] = new /\ \A t \in Teensy : t # u => items'[t] = items[t]
  <2> HIDE DEF new
  <2> QED
    BY <1>1, <1>4
<1>7. packet'[u] = o.packet /\ outRing'[u] = v
  <2>1. [packet |-> packet'[u], ring |-> outRing'[u]] = o
    BY <1>5 DEF Out
  <2> QED
    BY <2>1
<1>8. \A t \in Teensy : t # u =>
        \A id \in Id : <<t, id>> \in crossed => <<t, id>> \in crossed'
  <2> HIDE DEF D
  <2> QED
    BY <1>1
<1>9. \A t \in Teensy : t # u => Same(t)
  BY <1>1, <1>5, <1>6, <1>8 DEF Same
<1>10. \A id \in Id : <<u, id>> \notin crossed' =>
         /\ id \notin D => <<u, id>> \notin crossed
         /\ id \in D => ~Reported(u, id) /\ DataFrom(v, Len(w) + 1, id)
  <2> HIDE DEF D, v, w
  <2> QED
    BY <1>1, <1>7
<1>11. /\ Len(new) = Len(list)
       /\ \A i \in 1 .. Len(list) :
            /\ new[i].id = list[i].id /\ new[i].type = list[i].type
            /\ new[i].remote = list[i].val
  <2>1. /\ Len(new) = Len(list)
        /\ \A i \in 1 .. Len(list) : new[i] = SentItem(list[i])
    <3> HIDE DEF Item
    <3> QED
      BY <1>3, MarkIs
  <2> HIDE DEF new, list
  <2>2. ASSUME NEW i \in 1 .. Len(list)
        PROVE  /\ new[i].id = list[i].id /\ new[i].type = list[i].type
               /\ new[i].remote = list[i].val
    <3> DEFINE x == list[i]
               y == new[i]
    <3>1. y = [id |-> x.id, type |-> x.type, val |-> x.val, remote |-> x.val,
               changed |-> x.changed]
      BY <2>1 DEF SentItem
    <3> HIDE DEF x, y
    <3>2. y.id = x.id /\ y.type = x.type /\ y.remote = x.val
      BY <3>1
    <3> QED
      BY <3>2 DEF x, y
  <2> QED
    BY <2>1, <2>2
<1>12. ASSUME NEW id \in Id
       PROVE  Held(u, id)'
  <2>1. Free(packet[u], id) /\ (<<u, id>> \in crossed \/ Linked(q, list, s, w, id))
    BY DEF RInv, Held
  <2>2. w \in Packets /\ o.packet = <<>>
    <3>1. \A i \in 1 .. Len(list) :
            list[i].id = id /\ Differs(list[i]) =>
              AsSent(list[i].type, list[i].val) \in
                {AsSent(x.type, x.val) : x \in {list[j] : j \in 1 .. Len(list)}}
      OBVIOUS
    <3> QED
      BY <2>1, <3>1, AllGrown DEF o
  <2>3. Free(packet'[u], id)
    <3>1. Len(<<>>) = 0
      OBVIOUS
    <3> QED
      BY <1>7, <2>2, <3>1 DEF Free
  <2>4. ASSUME <<u, id>> \notin crossed', id \notin D
        PROVE  Linked(q, new, s, v, id)
    <3>1. \A i \in 1 .. Len(list) : list[i].id = id => ~Differs(list[i])
      BY <2>4 DEF Differing
    <3>2. Grown(w, o, id, {})
      BY <2>1, <3>1, AllGrown DEF o
    <3>3. /\ NoneFor(w, id) => NoneFor(v, id)
          /\ \A a : Ends(s, w, id, a) => Ends(s, v, id, a)
      <4> HIDE DEF w
      <4> QED
        BY <1>2, <2>2, <3>2, GrownEnds
    <3>4. Linked(q, list, s, w, id)
      BY <1>10, <2>1, <2>4
    <3> HIDE DEF q, list, s, w, v, new
    <3>5. Linked(q, list, s, v, id)
      BY <3>3, <3>4, LinkedEnds
    <3>6. \A i \in 1 .. Len(list) :
            list[i].id = id => new[i].remote \in {NoValue, list[i].remote}
      BY <1>11, <3>1 DEF Differs
    <3> QED
      BY <1>11, <3>5, <3>6, LinkedReads
  <2>5. ASSUME <<u, id>> \notin crossed', id \in D
        PROVE  Linked(q, new, s, v, id)
    <3>1. PICK i \in 1 .. Len(list) : list[i].id = id /\ Differs(list[i])
      BY <2>5 DEF Differing
    <3>2. \A j \in 1 .. Len(list) : list[j].id = id => j = i
      BY <1>3, <3>1 DEF NoIdTwice
    <3> DEFINE a == AsSent(list[i].type, list[i].val)
    <3>3. \A j \in 1 .. Len(list) :
            list[j].id = id /\ Differs(list[j]) =>
              AsSent(list[j].type, list[j].val) \in {a}
      BY <3>2
    <3>4. Grown(w, o, id, {a})
      <4> HIDE DEF a
      <4> QED
        BY <2>1, <3>3, AllGrown DEF o
    <3>5. DataFrom(v, Len(w) + 1, id) /\ ~Reported(u, id)
      BY <1>10, <2>5
    <3>6. Ends(s, v, id, a)
      <4> HIDE DEF a, w, s
      <4> QED
        BY <1>2, <2>2, <3>4, <3>5, GrownWith
    <3>7. NoWrite(q, id)
      BY <3>5 DEF Reported, NoWrite, IsWrite
    <3>8. Agrees(new[i], s, v)
      <4> DEFINE y == new[i]
                 x == list[i]
      <4>1. y.id = id /\ y.type = x.type /\ y.remote = x.val
        BY <1>11, <3>1
      <4>2. Ends(s, v, id, AsSent(x.type, x.val))
        BY <3>6
      <4> HIDE DEF x, y, s, v
      <4>3. Ends(s, v, y.id, AsSent(y.type, y.remote))
        BY <4>1, <4>2
      <4> QED
        BY <4>3 DEF Agrees, y
    <3> HIDE DEF q, list, s, w, v, new
    <3>9. \A j \in 1 .. Len(new) : new[j].id = id => Agrees(new[j], s, v)
      BY <1>11, <3>2, <3>8
    <3> QED
      BY <3>7, <3>9 DEF Linked
  <2>6. <<u, id>> \in crossed' \/ Linked(q, new, s, v, id)
    BY <2>4, <2>5
  <2> HIDE DEF new, v
  <2>7. Linked(q, new, s, v, id) =>
          Linked(inRing'[u], items'[u], shown'[u], outRing'[u], id)
    BY <1>1, <1>6, <1>7
  <2> QED
    BY <2>3, <2>6, <2>7 DEF Held
<1> QED
  BY <1>9, <1>12, OthersHeld

-----------------------------------------------------------------------------
\* Steps that touch none of this.
LEMMA QuietR ==
  ASSUME RInv, UNCHANGED <<items, packet, rings, shown, crossed>>
  PROVE  RInv'
<1>1. \A t \in Teensy : Same(t)
  BY DEF Same, rings
<1>2. \A t \in Teensy, id \in Id : Held(t, id)'
  BY <1>1, SameHeld DEF RInv
<1> QED
  BY <1>2 DEF RInv

LEMMA SendIs ==
  ASSUME TInv, NEW u \in Teensy, NEW more, Send(u, more)
  PROVE  /\ inRing'[u] = Sent(inRing[u], more)
         /\ \A t \in Teensy : t # u => inRing'[t] = inRing[t]
<1>1. inRing = [t \in Teensy |-> inRing[t]]
  BY DEF TInv, InOK
<1>2. inRing' = [inRing EXCEPT ![u] = Sent(inRing[u], more)]
  BY DEF Send, Sent
<1> DEFINE w == Sent(inRing[u], more)
<1> HIDE DEF w
<1>3. inRing' = [inRing EXCEPT ![u] = w]
  BY <1>2 DEF w
<1>4. inRing'[u] = w /\ \A t \in Teensy : t # u => inRing'[t] = inRing[t]
  BY <1>1, <1>3
<1> QED
  BY <1>4 DEF w

\* Reports that set no value for id are sent.
LEMMA LinkedSent ==
  ASSUME NEW q \in Seq(Report), NEW more \in Seq(Report), Len(q) <= InputCap,
         NEW id, NoWrite(more, id), NEW list, NEW s, NEW w,
         Linked(q, list, s, w, id)
  PROVE  Linked(Sent(q, more), list, s, w, id)
<1>1. /\ NoWrite(q, id) <=> NoWrite(Sent(q, more), id)
      /\ \A v : LastWrite(q, id, v) => LastWrite(Sent(q, more), id, v)
  BY SentPlain
<1> QED
  BY <1>1, LinkedEnds

LEMMA PressCommandR ==
  ASSUME TInv, RInv, NEW u \in Teensy, PressCommand(u)
  PROVE  RInv'
<1> DEFINE more == <<[op |-> "command"]>>
<1>1. more \in Seq(Report) /\ \A id \in Id : NoWrite(more, id)
  <2>1. [op |-> "command"] \in Report /\ more[1] = [op |-> "command"]
    BY DEF Report
  <2>2. more \in Seq(Report)
    <3> HIDE DEF Report
    <3> QED
      BY <2>1
  <2> QED
    BY <2>1, <2>2 DEF NoWrite, IsWrite
<1>2. Send(u, more) /\ UNCHANGED <<items, packet, outRing, shown, crossed>>
  BY DEF PressCommand, hub
<1>3. inRing[u] \in Seq(Report) /\ Len(inRing[u]) <= InputCap
  BY TeensyFacts
<1> HIDE DEF more
<1>4. /\ inRing'[u] = Sent(inRing[u], more)
      /\ \A t \in Teensy : t # u => inRing'[t] = inRing[t]
  BY <1>2, SendIs
<1>5. \A t \in Teensy : t # u => Same(t)
  BY <1>2, <1>4 DEF Same
<1>6. ASSUME NEW id \in Id
      PROVE  Held(u, id)'
  <2> DEFINE q == inRing[u]
             p == Sent(q, more)
             list == items[u]
             s == shown[u]
             w == outRing[u]
  <2>1. Free(packet[u], id) /\ (<<u, id>> \in crossed \/ Linked(q, list, s, w, id))
    BY DEF RInv, Held
  <2>2. Linked(q, list, s, w, id) => Linked(p, list, s, w, id)
    <3> HIDE DEF list, s, w
    <3> QED
      BY <1>1, <1>3, LinkedSent
  <2> QED
    BY <1>2, <1>4, <2>1, <2>2 DEF Held
<1> QED
  BY <1>5, <1>6, OthersHeld

\* A packet that has arrived is shown.
LEMMA ReceiveR ==
  ASSUME TInv, RInv, NEW u \in Teensy, Receive(u)
  PROVE  RInv'
<1> DEFINE C == Seq(Command)
           w == outRing[u]
           v == Tail(w)
           s == shown[u]
           new == ShownAfter(s, Head(w))
           q == inRing[u]
           more == [i \in 1 .. Cardinality(Id) |->
                      [op |-> "register", id |-> SetToSeq(Id)[i]]]
<1>1. /\ w # <<>> /\ outRing' = [outRing EXCEPT ![u] = v]
      /\ shown' = [shown EXCEPT ![u] = new]
      /\ Send(u, more) \/ UNCHANGED inRing
      /\ UNCHANGED <<items, packet, crossed>>
  BY DEF Receive, hub
<1>2. w \in Seq(C)
  <2>1. Out(u) \in Output
    BY TeensyFacts
  <2> QED
    BY <2>1 DEF Output, Packets, Out
<1>3. /\ outRing = [t \in Teensy |-> outRing[t]]
      /\ shown = [t \in Teensy |-> shown[t]]
  BY DEF TInv, OutOK, UserType
<1>4. q \in Seq(Report) /\ Len(q) <= InputCap
  BY TeensyFacts
<1>5. more \in Seq(Report)
  BY RegistersType
<1>6. \A id \in Id : NoWrite(more, id)
  <2>1. Len(more) = Cardinality(Id)
        /\ \A i \in 1 .. Cardinality(Id) : more[i].op = "register"
    BY IdsType
  <2> QED
    BY <2>1 DEF NoWrite, IsWrite
<1> HIDE DEF v, new, more
<1>7. /\ outRing'[u] = v /\ shown'[u] = new
      /\ \A t \in Teensy : t # u => outRing'[t] = outRing[t] /\ shown'[t] = shown[t]
  BY <1>1, <1>3
<1>8. /\ inRing'[u] \in {q, Sent(q, more)}
      /\ \A t \in Teensy : t # u => inRing'[t] = inRing[t]
  <2>1. CASE Send(u, more)
    BY <2>1, SendIs
  <2> QED
    BY <1>1, <2>1
<1>9. \A t \in Teensy : t # u => Same(t)
  BY <1>1, <1>7, <1>8 DEF Same
<1>10. ASSUME NEW id \in Id
       PROVE  Held(u, id)'
  <2> DEFINE list == items[u]
  <2>1. Free(packet[u], id) /\ (<<u, id>> \in crossed \/ Linked(q, list, s, w, id))
    BY DEF RInv, Held
  <2>2. /\ \A a : Ends(s, w, id, a) => Ends(new, v, id, a)
        /\ NoneFor(w, id) => NoneFor(v, id) /\ new[id] = s[id]
    <3> HIDE DEF s, w
    <3> QED
      BY <1>1, <1>2, EndsTail DEF v, new
  <2> HIDE DEF list
  <2>3. Linked(q, list, s, w, id) => Linked(q, list, new, v, id)
    <3> HIDE DEF q, s, w
    <3> QED
      BY <2>2, LinkedEnds
  <2>4. Linked(q, list, new, v, id) => Linked(Sent(q, more), list, new, v, id)
    <3> HIDE DEF q
    <3> QED
      BY <1>4, <1>5, <1>6, LinkedSent
  <2> DEFINE p == inRing'[u]
  <2>5. Linked(q, list, s, w, id) => Linked(p, list, new, v, id)
    BY <1>8, <2>3, <2>4
  <2> QED
    BY <1>1, <1>7, <2>1, <2>5 DEF Held, list
<1> QED
  BY <1>9, <1>10, OthersHeld

\* The user sets a value, which meets none unless it is marked so.
LEMMA TurnKnobR ==
  ASSUME TInv, RInv, NEW u \in Teensy, NEW k \in Id, NEW a \in KnobValue,
         TurnKnob(u, k, a)
  PROVE  RInv'
<1> DEFINE e == [op |-> "write", id |-> k, val |-> a]
           more == <<e>>
           q == inRing[u]
           p == Sent(q, more)
           w == outRing[u]
           list == items[u]
<1>1. /\ Send(u, more) /\ shown' = [shown EXCEPT ![u][k] = a]
      /\ crossed' = IF DataFrom(w, 1, k) \/ Len(q) >= InputCap
                    THEN crossed \cup {<<u, k>>} ELSE crossed \ {<<u, k>>}
      /\ UNCHANGED <<items, packet, outRing>>
  BY DEF TurnKnob, hub
<1>2. a \in Value
  BY HubAssumption DEF HubAssumption
<1>3. more \in Seq(Report) /\ \A id \in Id : id # k => NoWrite(more, id)
  <2>1. e \in Report /\ more[1] = e
    BY <1>2 DEF Report
  <2>2. more \in Seq(Report)
    <3> HIDE DEF Report, e
    <3> QED
      BY <2>1
  <2> QED
    BY <2>2 DEF NoWrite, IsWrite
<1>4. q \in Seq(Report) /\ Len(q) <= InputCap /\ Len(q) \in Nat
  <2> HIDE DEF Report
  <2> QED
    BY TeensyFacts
<1>5. /\ \A id \in Id : id # k => shown'[u][id] = shown[u][id]
      /\ shown'[u][k] = a
      /\ \A t \in Teensy : t # u => shown'[t] = shown[t]
  <2>1. shown \in [Teensy -> [Id -> AnyValue]]
    BY DEF TInv, UserType
  <2> QED
    BY <1>1, <2>1
<1>6. inRing'[u] = p /\ \A t \in Teensy : t # u => inRing'[t] = inRing[t]
  BY <1>1, SendIs
<1>7. /\ \A t \in Teensy, id \in Id :
           t # u \/ id # k => (<<t, id>> \in crossed <=> <<t, id>> \in crossed')
      /\ <<u, k>> \notin crossed' => ~DataFrom(w, 1, k) /\ ~(Len(q) >= InputCap)
  <2> HIDE DEF w, q
  <2> QED
    BY <1>1
<1>8. \A t \in Teensy : t # u => Same(t)
  BY <1>1, <1>5, <1>6, <1>7 DEF Same
<1> DEFINE new == shown'[u]
<1>9. ASSUME NEW id \in Id, id # k
      PROVE  Held(u, id)'
  <2> DEFINE s == shown[u]
  <2>1. Free(packet[u], id) /\ (<<u, id>> \in crossed \/ Linked(q, list, s, w, id))
    BY DEF RInv, Held
  <2>2. new[id] = s[id]
    BY <1>5, <1>9
  <2>3. NoWrite(more, id)
    BY <1>3, <1>9
  <2> HIDE DEF list, s, w, new, more, p
  <2>4. Linked(q, list, s, w, id) => Linked(p, list, s, w, id)
    <3> HIDE DEF q
    <3> QED
      BY <1>3, <1>4, <2>3, LinkedSent DEF p
  <2>5. Linked(p, list, s, w, id) => Linked(p, list, new, w, id)
    <3>1. \A b : Ends(s, w, id, b) => Ends(new, w, id, b)
      BY <2>2 DEF Ends
    <3> QED
      BY <2>2, <3>1, LinkedEnds
  <2> QED
    BY <1>1, <1>6, <1>7, <1>9, <2>1, <2>4, <2>5 DEF Held, list, w, new
<1>10. Held(u, k)'
  <2>1. Free(packet[u], k)
    BY DEF RInv, Held
  <2>2. ASSUME <<u, k>> \notin crossed'
        PROVE  Linked(p, list, new, w, k)
    <3>1. ~DataFrom(w, 1, k) /\ ~(Len(q) >= InputCap)
      BY <1>7, <2>2
    <3>2. NoneFor(w, k)
      BY <3>1 DEF DataFrom, DataFor, NoneFor, Free, IsFor
    <3>3. Len(q) < InputCap
      BY <1>4, <3>1, Bounds
    <3>4. ~NoWrite(p, k) /\ LastWrite(p, k, a)
      <4> HIDE DEF q
      <4> QED
        BY <1>2, <1>4, <3>3, SentWrite
    <3>5. new[k] = a
      BY <1>5
    <3> HIDE DEF p, list, new, w
    <3> QED
      BY <3>2, <3>4, <3>5 DEF Linked, Unmet
  <2> QED
    BY <1>1, <1>6, <2>1, <2>2 DEF Held
<1>11. \A id \in Id : Held(u, id)'
  BY <1>9, <1>10
<1> QED
  BY <1>8, <1>11, OthersHeld

LEMMA RStep == TInv /\ RInv /\ [Next]_vars => RInv'
<1> SUFFICES ASSUME TInv, RInv, [Next]_vars PROVE RInv'
  OBVIOUS
<1>1. CASE InputPacket
  <2>1. PICK u \in Teensy : turn = u
    BY <1>1, TurnIsTeensy DEF InputPacket
  <2> QED
    BY <1>1, <2>1, InputR
<1>2. CASE Update
  BY <1>2, UpdateR
<1>3. CASE OutputTooEarly
  <2>1. PICK u \in Teensy : turn = u
    BY <1>3, TurnIsTeensy DEF OutputTooEarly
  <2> QED
    BY <1>3, <2>1, OutputTooEarlyR
<1>4. CASE OutputDiffering
  <2>1. PICK u \in Teensy : turn = u
    BY <1>4, TurnIsTeensy DEF OutputDiffering
  <2> QED
    BY <1>4, <2>1, OutputDifferingR
<1>5. CASE InputNext \/ InputDone \/ OutputDone \/ Buttons \/ UNCHANGED vars
  <2>1. UNCHANGED <<items, packet, rings, shown, crossed>>
    BY <1>5 DEF InputNext, InputDone, OutputDone, Buttons, vars, hub, user
  <2> QED
    BY <2>1, QuietR
<1>6. ASSUME NEW t \in Teensy, Receive(t)
      PROVE  RInv'
  BY <1>6, ReceiveR
<1>7. ASSUME NEW t \in Teensy, PressCommand(t)
      PROVE  RInv'
  BY <1>7, PressCommandR
<1>8. ASSUME NEW t \in Teensy, NEW id \in Id, NEW v \in KnobValue,
             TurnKnob(t, id, v)
      PROVE  RInv'
  BY <1>8, TurnKnobR
<1> QED
  BY <1>1, <1>2, <1>3, <1>4, <1>5, <1>6, <1>7, <1>8 DEF Next, Main

LEMMA RemoteIsShown == TInv /\ RInv => RemoteAsOnTeensy
<1> SUFFICES ASSUME TInv, RInv, NEW t \in Teensy,
                    NEW i \in 1 .. Len(items[t]),
                    <<t, items[t][i].id>> \notin crossed,
                    items[t][i].remote # NoValue,
                    ~Reported(t, items[t][i].id),
                    ~DataFrom(outRing[t], 1, items[t][i].id)
             PROVE  \/ shown[t][items[t][i].id]
                         = AsSent(items[t][i].type, items[t][i].remote)
                    \/ items[t][i].remote
                         = Heard(items[t][i].type, shown[t][items[t][i].id])
  BY DEF RemoteAsOnTeensy
<1> DEFINE x == items[t][i]
           s == shown[t]
           w == outRing[t]
<1>1. x.id \in Id
  BY ItemIds
<1>2. Linked(inRing[t], items[t], s, w, x.id)
  BY <1>1 DEF RInv, Held
<1>3. NoWrite(inRing[t], x.id)
  BY DEF Reported, NoWrite, IsWrite
<1>4. NoneFor(w, x.id)
  BY DEF DataFrom, DataFor, NoneFor, Free, IsFor
<1>5. Agrees(x, s, w)
  BY <1>2, <1>3 DEF Linked
<1> HIDE DEF x, s, w
<1>6. ASSUME NEW v, Ends(s, w, x.id, v)
      PROVE  s[x.id] = v
  <2>1. \A k \in 1 .. Len(w) : ~LastIs(w[k], x.id, v)
    BY <1>4 DEF NoneFor, Free, LastIs
  <2> QED
    BY <1>6, <2>1 DEF Ends
<1> QED
  BY <1>5, <1>6 DEF Agrees, x, s

(***************************************************************************)
(* intval_remote and floatval_remote are the value "as exists on Teensy"   *)
(* (RemoteAsOnTeensy) for every id with nothing on its way, unless its     *)
(* last value and a report have crossed or a full buffer dropped one of    *)
(* them: nothing else in the loop, and no other id, makes the two differ.  *)
(***************************************************************************)
THEOREM RemoteFollows == Spec => []RemoteAsOnTeensy
<1>1. Init => RInv
  BY InitR
<1>2. TInv /\ RInv /\ [Next]_vars => RInv'
  BY RStep
<1>3. TInv /\ RInv => RemoteAsOnTeensy
  BY RemoteIsShown
<1>4. Spec => []TInv
  BY TypeInvariant
<1> QED
  BY <1>1, <1>2, <1>3, <1>4, PTL DEF Spec
=============================================================================
