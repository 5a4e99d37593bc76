------------------------------- MODULE PiHub -------------------------------
(***************************************************************************)
(* The Pi plugin as a hub between Teensys: pi.cpp holds the value of every *)
(* data reference, io.cpp keeps each Teensy's items in step with it, and   *)
(* hardware buttons adjust values.  One turn of the main loop is: input,   *)
(* update, output, buttons.                                                *)
(*                                                                         *)
(* The input and output buffers are queues here: PacketRing and OutputPath *)
(* show that they are.  The Teensy is external: it registers its ids when  *)
(* asked, sends a value when its user changes it and shows what it is      *)
(* sent.  Each input packet holds one command.                             *)
(***************************************************************************)
EXTENDS Items, Integers, FiniteSetsExt

CONSTANTS
  NumTeensy,     \* boards, in the order of the list
  Id,            \* ids a Teensy gives its data references
  Ref,           \* data references of the mapping file
  RefOf,         \* RefOf[t][id]: its data reference, Unmapped if not in it
  TypeOf,        \* TypeOf[t][id]: "int" or "float"
  Unmapped,
  TestValue,     \* TestValue[r]: value in the mapping file, or NoValue
  ButtonRef,     \* data references that have hardware buttons
  Adjust,        \* Adjust[r]: what those that are down can add up to
  BelowNoValue,  \* what an adjustment down makes of MAXINT
  InitValue,     \* InitValue[r]: the button's initial value, or NoValue
  Writers,       \* Teensys whose user turns a knob
  KnobValue,     \* the values he can set
  Commanders,    \* Teensys with a button bound to a simulator command
  IdFrameTimeout,  \* ID_FRAME_TIMEOUT
  InputCap, OutputCap,  \* packets the buffers hold
  KeepsUp,       \* the output buffer is empty again before the next frame
  MaxTurns,      \* bound: knob turns in all
  MaxCommands,   \* bound: commands in all
  MaxPresses,    \* bound: frames in which a button is down
  MaxValue       \* bound of the values

Teensy == 1 .. NumTeensy

ASSUME HubAssumption ==
  /\ NumTeensy \in Nat /\ IsFiniteSet(Id)
  /\ InputCap \in Nat /\ OutputCap \in Nat /\ PacketBytes \in Nat
  /\ PacketBytes >= 10 /\ IdFrameTimeout \in Nat
  /\ MaxTurns \in Nat /\ MaxCommands \in Nat /\ MaxPresses \in Nat
  /\ MaxValue \in Nat /\ MaxValue % Thousandth = 0
  /\ Value = 0 .. MaxValue /\ NoValue \notin Value
  /\ DOMAIN Narrow = Value \cup {NoValue} /\ Narrow[NoValue] = NoValue
  /\ \A v \in Value : Narrow[v] \in Value
  /\ Thousandth \in Nat \ {0} /\ One \in Nat \ {0} /\ One % Thousandth = 0
  /\ KnobValue \subseteq Value
  /\ RefOf \in [Teensy -> [Id -> Ref \cup {Unmapped}]] /\ Unmapped \notin Ref
  /\ TypeOf \in [Teensy -> [Id -> {"int", "float"}]]
  /\ TestValue \in [Ref -> Value \cup {NoValue}]
  /\ InitValue \in [Ref -> Value \cup {NoValue}]
  /\ ButtonRef \subseteq Ref /\ BelowNoValue \in Value
  /\ \A r \in ButtonRef : Adjust[r] \subseteq Int

VARIABLES
  value,     \* dataMapping[].testValue
  items,     \* items of each teensy_t
  quiet,     \* frames_without_id, counted up to IdFrameTimeout + 1
  askIds,    \* unknown_id_heard
  packet,    \* output_packet
  inRing,    \* input_buffer
  outRing,   \* output_buffer
  phase,     \* what main is doing in this turn of its loop
  turn,      \* the Teensy it is doing it for
  firstTime,
  shown,     \* what each Teensy shows (external)
  knob,      \* the last value a user has set (external)
  turns, commands, presses, \* counted for the bounds only
  crossed    \* <<t, id>>: a value for id and a report of it have crossed on
             \* their way, or the last of them was dropped (history)

hub == <<value, items, quiet, askIds, packet>>
rings == <<inRing, outRing>>
user == <<shown, knob, turns, commands, presses, crossed>>
vars == <<hub, rings, phase, turn, firstTime, user>>

AnyValue == Value \cup {NoValue}
Item == [id : Id, type : {"int", "float"}, val : AnyValue, remote : AnyValue,
         changed : BOOLEAN]
Command == [op : {"enable"}, ids : BOOLEAN]
           \cup [op : {"data"}, id : Id, val : AnyValue]
Report == [op : {"register"}, id : Id]
          \cup [op : {"write"}, id : Id, val : Value]
          \cup [op : {"command"}]

TypeOK ==
  /\ value \in [Ref -> AnyValue]
  /\ items \in [Teensy -> Seq(Item)]
  /\ quiet \in [Teensy -> 0 .. IdFrameTimeout + 1]
  /\ askIds \in [Teensy -> BOOLEAN]
  /\ packet \in [Teensy -> Seq(Command)]
  /\ inRing \in [Teensy -> Seq(Report)]
  /\ outRing \in [Teensy -> Seq(Seq(Command))]
  /\ \A t \in Teensy : Len(inRing[t]) <= InputCap
                       /\ Len(outRing[t]) <= OutputCap
                       /\ PacketLen(packet[t]) <= PacketBytes
                       /\ \A p \in ToSet(outRing[t]) : PacketLen(p) \in
                                                         1 .. PacketBytes
  /\ phase \in {"input", "update", "output", "buttons"}
  /\ turn \in 1 .. NumTeensy + 1
  /\ firstTime \in BOOLEAN
  /\ shown \in [Teensy -> [Id -> AnyValue]]
  /\ knob \in [Ref -> AnyValue]
  /\ turns \in 0 .. MaxTurns /\ commands \in 0 .. MaxCommands
  /\ presses \in 0 .. MaxPresses
  /\ crossed \subseteq Teensy \X Id

\* The mapping file is loaded and the Teensys have just been found.
Init ==
  /\ value = TestValue
  /\ items = [t \in Teensy |-> <<>>]
  /\ quiet = [t \in Teensy |-> 0]
  /\ askIds = [t \in Teensy |-> TRUE]
  /\ packet = [t \in Teensy |-> <<>>]
  /\ inRing = [t \in Teensy |-> <<>>]
  /\ outRing = [t \in Teensy |-> <<>>]
  /\ phase = "input" /\ turn = 1 /\ firstTime = TRUE
  /\ shown = [t \in Teensy |-> [id \in Id |-> NoValue]]
  /\ knob = [r \in Ref |-> NoValue]
  /\ turns = 0 /\ commands = 0 /\ presses = 0 /\ crossed = {}

-----------------------------------------------------------------------------
(***************************************************************************)
(* What is on its way to and from a Teensy.                                *)
(***************************************************************************)

\* The places in packet p with a value for id.
DataFor(p, id) == {k \in 1 .. Len(p) : p[k].op = "data" /\ p[k].id = id}

\* A report of a value for id waits in the input buffer of t.
Reported(t, id) ==
  \E k \in 1 .. Len(inRing[t]) : inRing[t][k].op = "write" /\ inRing[t][k].id = id

\* A value for id is in one of the packets, from the n-th on.
DataFrom(ring, n, id) == \E k \in n .. Len(ring) : DataFor(ring[k], id) # {}

-----------------------------------------------------------------------------
(***************************************************************************)
(* Main thread.                                                            *)
(***************************************************************************)
IsMapped(t, id) == RefOf[t][id] # Unmapped

\* decode_packet.  new_item clears frames_without_id before it looks at the
\* name.  The id of a command is in no list, because new_item refuses
\* commands: the Teensy is asked for all its ids again.
Decode(t, r) ==
  CASE r.op = "register" ->
         /\ items' = [items EXCEPT ![t] =
              RegisterItem(@, r.id, TypeOf[t][r.id], IsMapped(t, r.id))]
         /\ quiet' = [quiet EXCEPT ![t] = 0]
         /\ UNCHANGED askIds
    [] r.op = "write" ->
         /\ items' = [items EXCEPT ![t] = WriteItem(@, r.id, r.val)]
         /\ UNCHANGED <<quiet, askIds>>
    [] r.op = "command" ->
         /\ askIds' = [askIds EXCEPT ![t] = TRUE]
         /\ UNCHANGED <<items, quiet>>

\* TeensyControls_input: one packet of the Teensy whose turn it is.
InputPacket ==
  /\ phase = "input" /\ turn <= NumTeensy /\ inRing[turn] # <<>>
  /\ Decode(turn, Head(inRing[turn]))
  /\ inRing' = [inRing EXCEPT ![turn] = Tail(@)]
  /\ UNCHANGED <<value, packet, outRing, phase, turn, firstTime, user>>

\* Its buffer is empty: the next Teensy's turn.
InputNext ==
  /\ phase = "input" /\ turn <= NumTeensy /\ inRing[turn] = <<>>
  /\ turn' = turn + 1
  /\ UNCHANGED <<hub, rings, phase, firstTime, user>>

InputDone ==
  /\ phase = "input" /\ turn > NumTeensy
  /\ phase' = "update"
  /\ UNCHANGED <<hub, rings, turn, firstTime, user>>

\* dataRefWrite without adjust, for the items t has changed, in the order of
\* its list; v is what the values were before.
WrittenBy(t, v) ==
  LET after[n \in 0 .. Len(items[t])] ==
        IF n = 0 THEN v
        ELSE LET item == items[t][n]
             IN  IF item.changed
                 THEN [after[n - 1] EXCEPT ![RefOf[t][item.id]] =
                                             Rounded(item.val)]
                 ELSE after[n - 1]
  IN  after[Len(items[t])]

\* Step 2 goes through the Teensys in turn: the last writer wins.
WrittenValues ==
  LET after[t \in 0 .. NumTeensy] ==
        IF t = 0 THEN value ELSE WrittenBy(t, after[t - 1])
  IN  after[NumTeensy]

\* TeensyControls_update_xplane: step 2 writes what the Teensys changed, step
\* 3 reads everything (dataRefWritten is always false here).
Update ==
  /\ phase = "update"
  /\ value' = WrittenValues
  /\ items' = [t \in Teensy |-> [i \in 1 .. Len(items[t]) |->
       [ReadItem(items[t][i], WrittenValues[RefOf[t][items[t][i].id]])
          EXCEPT !.changed = FALSE]]]
  /\ phase' = "output" /\ turn' = 1
  /\ UNCHANGED <<quiet, askIds, packet, rings, firstTime, user>>

\* An assumption about time, not a test in the code: with KeepsUp, the 30 ms
\* between two frames are enough to send what the last frame queued.
SentLastFrame(t) == KeepsUp => outRing[t] = <<>>

\* What TeensyControls_output has queued for t when it has sent the enable
\* command, and when it has sent the data too.
OutputEnable(t) ==
  OutputData([packet |-> packet[t], ring |-> outRing[t]], Enable(askIds[t]),
             OutputCap)
OutputAll(t) ==
  OutputFlush(OutputItems(OutputEnable(t), items[t], OutputCap), OutputCap)

Queue(t, out) ==
  /\ packet' = [packet EXCEPT ![t] = out.packet]
  /\ outRing' = [outRing EXCEPT ![t] = out.ring]

\* Wrong on purpose: frames_without_id is not incremented.
OutputTooEarlyUncounted ==
  /\ phase = "output" /\ turn <= NumTeensy /\ quiet[turn] <= IdFrameTimeout
  /\ SentLastFrame(turn)
  /\ Queue(turn, OutputEnable(turn))
  /\ askIds' = [askIds EXCEPT ![turn] = FALSE]
  /\ phase' = "buttons"
  /\ UNCHANGED <<value, items, quiet, inRing, turn, firstTime, user>>

\* Not yet IdFrameTimeout frames without an id: the enable command is queued
\* but not flushed, and "break" leaves the loop over the Teensys.
OutputTooEarly ==
  /\ phase = "output" /\ turn <= NumTeensy /\ quiet[turn] <= IdFrameTimeout
  /\ SentLastFrame(turn)
  /\ Queue(turn, OutputEnable(turn))
  /\ askIds' = [askIds EXCEPT ![turn] = FALSE]
  /\ quiet' = [quiet EXCEPT ![turn] = @ + 1]
  /\ phase' = "buttons"
  /\ UNCHANGED <<value, items, inRing, turn, firstTime, user>>

\* The ids of t that are sent a value.
Differing(t) ==
  {id \in Id : \E i \in 1 .. Len(items[t]) :
                 items[t][i].id = id /\ Differs(items[t][i])}

\* The enable command and every item that differs.
OutputDiffering ==
  /\ phase = "output" /\ turn <= NumTeensy /\ quiet[turn] > IdFrameTimeout
  /\ SentLastFrame(turn)
  /\ Queue(turn, OutputAll(turn))
  /\ askIds' = [askIds EXCEPT ![turn] = FALSE]
  /\ items' = [items EXCEPT ![turn] = MarkSent(@)]
  /\ turn' = turn + 1
  /\ crossed' = (crossed \ {<<turn, id>> : id \in Differing(turn)})
       \cup {<<turn, id>> : id \in
               {i \in Differing(turn) :
                  \/ Reported(turn, i)
                  \/ ~DataFrom(outRing'[turn], Len(outRing[turn]) + 1, i)}}
  /\ UNCHANGED <<value, quiet, inRing, phase, firstTime, shown, knob, turns,
                 commands, presses>>

OutputDone ==
  /\ phase = "output" /\ turn > NumTeensy
  /\ phase' = "buttons"
  /\ UNCHANGED <<hub, rings, turn, firstTime, user>>

\* dataRefWrite with adjust, which does not ask whether there is a value.
Adjusted(v, step) ==
  CASE step = 0 -> v
    [] step # 0 /\ v = NoValue -> BelowNoValue
    [] step # 0 /\ v # NoValue -> v + step

\* MAXINT and more has no defined conversion to an int: not adjusted so here.
Adjustable(v, step) ==
  IF v = NoValue THEN step <= 0 ELSE Adjusted(v, step) \in Value

\* hardwareInit, the first time, then dataRefWrite with adjust for the buttons
\* that are down; a button acts in every frame in which it is down.
Buttons ==
  /\ phase = "buttons"
  /\ LET start == [r \in Ref |->
                     IF firstTime /\ r \in ButtonRef /\ InitValue[r] # NoValue
                     THEN Rounded(InitValue[r]) ELSE value[r]]
     IN  \E step \in [ButtonRef -> UNION {Adjust[r] : r \in ButtonRef}] :
           /\ \A r \in ButtonRef :
                step[r] \in Adjust[r] /\ Adjustable(start[r], step[r])
           /\ value' = [r \in Ref |->
                          IF r \in ButtonRef THEN Adjusted(start[r], step[r])
                          ELSE start[r]]
           /\ IF \E r \in ButtonRef : step[r] # 0
              THEN presses < MaxPresses /\ presses' = presses + 1
              ELSE UNCHANGED presses
  /\ firstTime' = FALSE
  /\ phase' = "input" /\ turn' = 1
  /\ UNCHANGED <<items, quiet, askIds, packet, rings, shown, knob, turns,
                 commands, crossed>>

Main == InputPacket \/ InputNext \/ InputDone \/ Update
        \/ OutputTooEarly \/ OutputDiffering \/ OutputDone \/ Buttons

-----------------------------------------------------------------------------
(***************************************************************************)
(* The Teensys (external) and the threads in between.                      *)
(***************************************************************************)

\* A report that finds the input buffer full is dropped.
Send(t, reports) ==
  inRing' = [inRing EXCEPT ![t] = SubSeq(@ \o reports, 1,
                                     Min({Len(@) + Len(reports), InputCap}))]

\* What a Teensy shows after packet p.
ShownAfter(s, p) ==
  [id \in Id |-> IF DataFor(p, id) = {} THEN s[id]
                 ELSE p[Max(DataFor(p, id))].val]

\* A packet of the output buffer reaches the Teensy: it shows the data and,
\* if asked, registers its ids.
Receive(t) ==
  /\ outRing[t] # <<>>
  /\ outRing' = [outRing EXCEPT ![t] = Tail(@)]
  /\ LET p == Head(outRing[t])
     IN  /\ shown' = [shown EXCEPT ![t] = ShownAfter(@, p)]
         /\ IF \E k \in 1 .. Len(p) : p[k].op = "enable" /\ p[k].ids
            THEN Send(t, [i \in 1 .. Cardinality(Id) |->
                            [op |-> "register", id |-> SetToSeq(Id)[i]]])
            ELSE UNCHANGED inRing
  /\ UNCHANGED <<hub, phase, turn, firstTime, knob, turns,
                 commands, presses, crossed>>

\* The user of t sets a value, a whole one if it is an int.
TurnKnob(t, id, v) ==
  /\ t \in Writers /\ turns < MaxTurns /\ HasItem(items[t], id)
  /\ TypeOf[t][id] = "int" => v = Whole(v)
  /\ turns' = turns + 1
  /\ shown' = [shown EXCEPT ![t][id] = v]
  /\ knob' = [knob EXCEPT ![RefOf[t][id]] = v]
  /\ Send(t, <<[op |-> "write", id |-> id, val |-> v]>>)
  /\ crossed' = IF DataFrom(outRing[t], 1, id) \/ Len(inRing[t]) >= InputCap
                THEN crossed \cup {<<t, id>>} ELSE crossed \ {<<t, id>>}
  /\ UNCHANGED <<hub, outRing, phase, turn, firstTime, commands, presses>>

\* The user of t triggers a command.
PressCommand(t) ==
  /\ t \in Commanders /\ commands < MaxCommands
  /\ commands' = commands + 1
  /\ Send(t, <<[op |-> "command"]>>)
  /\ UNCHANGED <<hub, outRing, phase, turn, firstTime, shown, knob, turns,
                 presses, crossed>>

Next ==
  \/ Main
  \/ \E t \in Teensy : Receive(t) \/ PressCommand(t)
  \/ \E t \in Teensy, id \in Id, v \in KnobValue : TurnKnob(t, id, v)

Spec == Init /\ [][Next]_vars

(***************************************************************************)
(* Fairness: main loops for ever and a packet in the output buffer reaches *)
(* the Teensy (OutputPath: StoredIsFetched).  Users owe nothing.           *)
(***************************************************************************)
FairSpec == Spec /\ WF_vars(Main) /\ \A t \in Teensy : WF_vars(Receive(t))

-----------------------------------------------------------------------------
(***************************************************************************)
(* Properties.                                                             *)
(***************************************************************************)
Mapped == {m \in Teensy \X Id : IsMapped(m[1], m[2])}

\* Every id of every Teensy that the mapping file knows becomes an item.
EveryIdRegistered == \A m \in Mapped : <>[]HasItem(items[m[1]], m[2])

\* In the end every Teensy shows the value of the hub, or its whole part if
\* it registered an int and the nearest float if a float: input, update and
\* output leave no item behind, whatever the order of their steps.
ShowsHubValue ==
  \A m \in Mapped : LET t == m[1]  id == m[2]  r == RefOf[t][id] IN
    <>[](value[r] # NoValue =>
           shown[t][id] = IF TypeOf[t][id] = "int" THEN Whole(value[r])
                          ELSE Narrow[value[r]])

\* b is a with what is below a thousandth cut off.
SameThousandth(a, b) ==
  NoValue \notin {a, b} /\ a - b \in 0 .. Thousandth - 1

\* What a user set last is what the hub settles on, to the thousandth: the
\* read of step 3 and the data sent back to this Teensy and to the others
\* never undo a change of the only one who makes them.
KnobWins ==
  \A r \in Ref : <>[](knob[r] # NoValue => SameThousandth(knob[r], value[r]))

\* TeensyControls.h says that intval_remote is the "int value, as exists on
\* Teensy".  Where nothing tells the hub better this can go wrong: a value
\* sent and a report can cross, an echo of an earlier report included, and a
\* full buffer drops either.  Nothing else makes it go wrong: for an id that
\* did not have this since its last value or report, and has none on its
\* way, the Teensy shows what the hub sent or what the hub has heard.
RemoteAsOnTeensy ==
  \A t \in Teensy : \A i \in 1 .. Len(items[t]) :
    LET item == items[t][i]
        seen == shown[t][item.id]
    IN  \/ <<t, item.id>> \in crossed \/ item.remote = NoValue
        \/ Reported(t, item.id) \/ DataFrom(outRing[t], 1, item.id)
        \/ seen = AsSent(item.type, item.remote)
        \/ item.remote = Heard(item.type, seen)

\* An id has one item, however often its Teensy registers it, and only if
\* the mapping file knows it.  What a Teensy changed is written in the same
\* turn of the loop: no change is left marked while values are sent, and
\* until then the item holds what the Teensy sent.
ItemsInStep ==
  \A t \in Teensy : \A i \in 1 .. Len(items[t]) :
    LET item == items[t][i] IN
      /\ IsMapped(t, item.id)
      /\ \A j \in 1 .. Len(items[t]) : items[t][j].id = item.id => j = i
      /\ item.changed => phase \in {"input", "update"} /\ ~Differs(item)

\* io.cpp says that TeensyControls_output will "output any items where our
\* copy is different than Teensy's remote copy": when it returns, no item of
\* a Teensy that has been without a new id for long enough differs.
NothingLeftToOutput ==
  phase = "buttons" =>
    \A t \in Teensy : quiet[t] > IdFrameTimeout =>
      \A i \in 1 .. Len(items[t]) : ~Differs(items[t][i])
=============================================================================
