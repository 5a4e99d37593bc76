------------------------------- MODULE SimHub -------------------------------
(***************************************************************************)
(* The FS2020 program as a hub between the simulator and a Teensy          *)
(* (fs2020.cpp with step 2 and 3 of io.cpp): the SimConnect link, the      *)
(* snapshot of variables it delivers, the writes sent through Jetbridge    *)
(* and the "delayed read after write" that hides old snapshots meanwhile.  *)
(* One turn of the main loop is: link, input, update, output.              *)
(*                                                                         *)
(* The simulator is external.  It applies a write some time after it was   *)
(* requested, and a snapshot holds what its variables are when it is       *)
(* taken; snapshots under way are not modelled, because the hub cannot     *)
(* tell one that is late from a write that is applied late.  All ids of    *)
(* the Teensy are registered; what differs reaches it (PiHub).  No two     *)
(* mappings share a variable, and testAdjust is 0.                         *)
(***************************************************************************)
EXTENDS Items, Integers

CONSTANTS
  NumMappings,      \* dataMappings as loaded: the lines of the mapping file
  ReadMapping,      \* the mappings that have a read variable
  TestValue,        \* TestValue[r]: a value in place of it, or NoValue
  ReadScale,        \* ReadScale[r]: 10 for the units "10khz", else 1
  WriteScale,       \* the same for the units of the write variable
  WritesRead,       \* the mappings that write what they read: the same
                    \* variable in the same units
  TypeOf,           \* TypeOf[r]: "int" or "float", the Teensy's choice
  SimStart,         \* SimStart[r]: the variable's first value
  SimValue,         \* SimValue[r]: what the simulator itself changes it to
  KnobValue,        \* KnobValue[r]: what the Teensy's user sets it to
  Noise,            \* what the simulator may add to a value written to it
  NoData,           \* dataPtr = NULL
  RetryDelay,       \* 200 turns between two attempts to connect
  WrittenInTime,    \* time: at most two snapshots miss a requested write
  MaxTurns,         \* bound: knob turns
  MaxChanges,       \* bound: changes by the simulator itself
  MaxFaults,        \* bound: broken links, refused variables
  MaxSnapshots      \* bound: snapshots in one turn of the loop

Mapping == 1 .. NumMappings

\* "if (dataMapping[i].setDelay > 0)" after a write: the snapshots hidden.
SetDelay == 3

\* dataStart: the read definition holds the read variables in file order; a
\* mapping without one keeps the offset 0 of a static variable.
ReadOffset(r) ==
  IF r \in ReadMapping THEN Cardinality({q \in ReadMapping : q < r}) ELSE 0
Offsets == 0 .. Cardinality(ReadMapping) - 1

ASSUME SimHubAssumption ==
  /\ NumMappings \in Nat /\ RetryDelay \in Nat /\ MaxTurns \in Nat
  /\ MaxChanges \in Nat /\ MaxFaults \in Nat /\ MaxSnapshots \in Nat
  /\ Thousandth \in Nat \ {0} /\ One \in Nat \ {0} /\ One % Thousandth = 0
  /\ Value \subseteq Nat /\ NoValue \notin Nat
  /\ ReadMapping \subseteq Mapping /\ ReadMapping # {}
  /\ NoData \notin [Offsets -> Nat]
  /\ ReadScale \in [Mapping -> Nat \ {0}]
  /\ WriteScale \in [Mapping -> Nat \ {0}]
  /\ WritesRead \subseteq ReadMapping
  /\ \A r \in WritesRead : ReadScale[r] = WriteScale[r]
  /\ TypeOf \in [Mapping -> {"int", "float"}]
  /\ TestValue \in [Mapping -> Value \cup {NoValue}]
  /\ \A r \in ReadMapping : TestValue[r] = NoValue
  /\ SimStart \in [Mapping -> Value]
  /\ SimValue \in [Mapping -> SUBSET Value]
  /\ KnobValue \in [Mapping -> SUBSET Value]
  /\ \A r \in Mapping : TypeOf[r] = "int" =>
       \A v \in KnobValue[r] : v = Whole(v)
  /\ \A r \in Mapping : TypeOf[r] = "float" =>
       \A v \in KnobValue[r] : Narrow[Truncated(v)] \in Nat
  /\ Noise \subseteq Nat
  /\ WrittenInTime \in BOOLEAN

VARIABLES
  phase,      \* what main is doing in this turn of its loop
  connected, quit, retryDelay, dataMappings,
  data,       \* what dataPtr points to
  setValue, setDelay,   \* of dataMapping[]
  items,      \* the item of mapping r is items[r]
  snapshots,  \* data messages handled in this turn
  up,         \* the simulator runs (external)
  alive,      \* the session of hSimConnect works (external)
  sim,        \* the simulator's variables (external)
  requests,   \* writes requested and not applied yet (external)
  fresh,      \* variables that had no write under way at their last snapshot
              \* that was not hidden, and since then neither the link has
              \* broken nor the simulator changed them itself (history)
  set,        \* the last value the user has set (history)
  own,        \* it was handled when its variable was fresh and not taken
              \* for unchanged, and neither link nor variable has changed
              \* since (history)
  alone,      \* no earlier write of the variable was under way then (history)
  turns, changes, faults   \* counted for the bounds only

link == <<connected, quit, retryDelay, dataMappings>>
delayed == <<setValue, setDelay>>
world == <<up, alive, sim, requests>>
user == <<set, own, alone, turns>>
vars == <<phase, link, data, delayed, items, snapshots, world, fresh, user,
          changes, faults>>

-----------------------------------------------------------------------------
(***************************************************************************)
(* The operations of fs2020.cpp.                                           *)
(***************************************************************************)

\* What a data message holds, in the order of the read definition.
Snapshot == [k \in Offsets |->
               sim[CHOOSE r \in ReadMapping : ReadOffset(r) = k]]

\* dataRefRead
DataRefRead(r) ==
  CASE TestValue[r] # NoValue -> TestValue[r]
    [] TestValue[r] = NoValue /\ data = NoData -> NoValue
    [] OTHER -> Rounded(data[ReadOffset(r)] \div ReadScale[r])

\* dataRefWrite sends the value in the units of the write variable ...
Scaled(r, v) == Rounded(v * WriteScale[r])

\* Wrong on purpose: compares before it converts the units.
WriteNeededUnscaled(r, v) ==
  /\ connected /\ data # NoData
  /\ Rounded(data[ReadOffset(r)]) # v

\* ... unless there is no link, or the last snapshot has it already, in the
\* units of the read variable.
WriteNeeded(r, v) ==
  /\ connected /\ data # NoData
  /\ Rounded(data[ReadOffset(r)]) # Scaled(r, v)

\* Wrong on purpose: a value just written is read back at once.
DataRefWrittenNever(delay, r) == FALSE

\* dataRefWritten
DataRefWritten(delay, r) == delay[r] > 0

\* Wrong on purpose: the index of the mapping taken for its offset.
HideAtIndex(d, r) == [d EXCEPT ![r - 1] = setValue[r]]

\* "*(dataPtr + dataMapping[i].readOffset) = dataMapping[i].setValue"
Hide(d, r) == [d EXCEPT ![ReadOffset(r)] = setValue[r]]

\* Wrong on purpose: a snapshot without the value is hidden for ever.
CountDownNever(d, r) == IF d[ReadOffset(r)] = setValue[r] THEN 0 ELSE setDelay[r]

\* One mapping of the delayed read: its setDelay after snapshot d.
CountDown(d, r) ==
  IF d[ReadOffset(r)] = setValue[r] THEN 0 ELSE setDelay[r] - 1

\* The loop of the delayed read over all mappings, in order: an earlier one
\* may change what a later one with the same offset sees.
DelayedRead(d) ==
  LET after[n \in 0 .. dataMappings] ==
        IF n = 0 THEN [data |-> d, delay |-> setDelay]
        ELSE LET before == after[n - 1]
                 left == CountDown(before.data, n)
             IN  IF setDelay[n] = 0 THEN before
                 ELSE [data |-> IF left > 0 THEN Hide(before.data, n)
                                ELSE before.data,
                       delay |-> [before.delay EXCEPT ![n] = left]]
  IN  after[dataMappings]

-----------------------------------------------------------------------------
Item == [id : Mapping, type : {"int", "float"}, val : Nat \cup {NoValue},
         remote : Nat \cup {NoValue}, changed : BOOLEAN]

TypeOK ==
  /\ phase \in {"link", "redispatch", "dispatch", "input", "update",
                "output", "stopped"}
  /\ connected \in BOOLEAN /\ quit \in BOOLEAN
  /\ retryDelay \in 0 .. RetryDelay
  /\ dataMappings \in {0, NumMappings}
  /\ data \in [Offsets -> Nat] \cup {NoData}
  /\ setValue \in [Mapping -> Nat]
  /\ setDelay \in [Mapping -> 0 .. SetDelay]
  /\ items \in [Mapping -> Item]
  /\ snapshots \in 0 .. MaxSnapshots
  /\ up \in BOOLEAN /\ alive \in BOOLEAN /\ (alive => up)
  /\ sim \in [Mapping -> Nat]
  /\ requests \in Seq([ref : Mapping, val : Nat])
  /\ fresh \subseteq WritesRead
  /\ set \in [Mapping -> Nat \cup {NoValue}]
  /\ own \in [Mapping -> BOOLEAN] /\ alone \subseteq Mapping
  /\ turns \in 0 .. MaxTurns /\ changes \in 0 .. MaxChanges
  /\ faults \in 0 .. MaxFaults

\* The mapping file is loaded, the simulator runs, the ids are registered.
Init ==
  /\ phase = "link"
  /\ connected = FALSE /\ quit = FALSE /\ retryDelay = 0
  /\ dataMappings = NumMappings
  /\ data = NoData
  /\ setValue = [r \in Mapping |-> 0] /\ setDelay = [r \in Mapping |-> 0]
  /\ items = [r \in Mapping |->
                [id |-> r, type |-> TypeOf[r], val |-> NoValue,
                 remote |-> NoValue, changed |-> FALSE]]
  /\ snapshots = 0
  /\ up = TRUE /\ alive = FALSE
  /\ sim = SimStart /\ requests = <<>>
  /\ fresh = {}
  /\ set = [r \in Mapping |-> NoValue] /\ own = [r \in Mapping |-> FALSE]
  /\ alone = {}
  /\ turns = 0 /\ changes = 0 /\ faults = 0

-----------------------------------------------------------------------------
(***************************************************************************)
(* Main thread: the link.                                                  *)
(***************************************************************************)

\* simOpen with a simulator that accepts: dataStart succeeds, or it fails on
\* a variable the simulator refuses and the program is to end.
SimOpen ==
  /\ connected' = TRUE /\ alive' = TRUE /\ fresh' = {}
  /\ \/ UNCHANGED <<dataMappings, quit, faults>>
     \/ /\ faults < MaxFaults
        /\ faults' = faults + 1
        /\ dataMappings' = 0 /\ quit' = TRUE

\* CallDispatch works: the messages that have come are handled.
Dispatch ==
  /\ phase \in {"link", "redispatch"} /\ (phase = "link" => connected /\ ~quit)
  /\ alive
  /\ phase' = "dispatch" /\ snapshots' = 0
  /\ UNCHANGED <<link, data, delayed, items, world, fresh, user, changes,
                 faults>>

\* CallDispatch fails, and simOpen is tried at once.
Reconnect ==
  /\ phase = "link" /\ ~quit /\ connected /\ ~alive /\ up
  /\ SimOpen
  /\ phase' = "redispatch"
  /\ UNCHANGED <<retryDelay, data, delayed, items, snapshots, up, sim,
                 requests, user, changes>>

\* That fails too, or the second CallDispatch does.
Disconnect ==
  /\ phase \in {"link", "redispatch"} /\ (phase = "link" => connected /\ ~quit)
  /\ ~alive /\ (phase = "link" => ~up)
  /\ phase' = "input"
  /\ connected' = FALSE
  /\ UNCHANGED <<retryDelay, quit, dataMappings, data, delayed, items,
                 snapshots, world, fresh, user, changes, faults>>

\* Wrong on purpose: "else if (retryDelay-- > 0)", which also counts at 0.
RetryWaitBelowZero ==
  /\ phase = "link" /\ ~quit /\ ~connected
  /\ retryDelay' = retryDelay - 1
  /\ phase' = "input"
  /\ UNCHANGED <<connected, quit, dataMappings, data, delayed, items,
                 snapshots, world, fresh, user, changes, faults>>

RetryWait ==
  /\ phase = "link" /\ ~quit /\ ~connected /\ retryDelay > 0
  /\ retryDelay' = retryDelay - 1
  /\ phase' = "input"
  /\ UNCHANGED <<connected, quit, dataMappings, data, delayed, items,
                 snapshots, world, fresh, user, changes, faults>>

Open ==
  /\ phase = "link" /\ ~quit /\ ~connected /\ retryDelay = 0 /\ up
  /\ SimOpen
  /\ phase' = "input"
  /\ UNCHANGED <<retryDelay, data, delayed, items, snapshots, up, sim,
                 requests, user, changes>>

OpenFails ==
  /\ phase = "link" /\ ~quit /\ ~connected /\ retryDelay = 0 /\ ~up
  /\ retryDelay' = RetryDelay
  /\ phase' = "input"
  /\ UNCHANGED <<connected, quit, dataMappings, data, delayed, items,
                 snapshots, world, fresh, user, changes, faults>>

\* The end of main: dataStop and SimConnect_Close.
Stop ==
  /\ phase = "link" /\ quit
  /\ phase' = "stopped"
  /\ alive' = (alive /\ ~connected)
  /\ UNCHANGED <<link, data, delayed, items, snapshots, up, sim, requests,
                 fresh, user, changes, faults>>

(***************************************************************************)
(* Main thread: MyDispatchProc.  Only data messages change anything.       *)
(***************************************************************************)
UnderWay(r) == \E k \in 1 .. Len(requests) : requests[k].ref = r

DispatchData ==
  /\ phase = "dispatch" /\ alive /\ dataMappings > 0
  /\ snapshots < MaxSnapshots
  /\ WrittenInTime => \A r \in Mapping : UnderWay(r) => setDelay[r] # 1
  /\ LET read == DelayedRead(Snapshot)
     IN  /\ data' = read.data /\ setDelay' = read.delay
         /\ fresh' = {r \in WritesRead : IF read.delay[r] = 0
                                         THEN ~UnderWay(r) ELSE r \in fresh}
  /\ snapshots' = snapshots + 1
  /\ UNCHANGED <<phase, link, setValue, items, world, user, changes, faults>>

\* The simulator has left out a variable it does not know.
DispatchWrongSize ==
  /\ phase = "dispatch" /\ alive /\ dataMappings > 0 /\ faults < MaxFaults
  /\ faults' = faults + 1
  /\ quit' = TRUE
  /\ UNCHANGED <<phase, connected, retryDelay, dataMappings, data, delayed,
                 items, snapshots, world, fresh, user, changes>>

\* The loop does not wait for a snapshot.
DispatchEnd ==
  /\ phase = "dispatch"
  /\ phase' = "input"
  /\ UNCHANGED <<link, data, delayed, items, snapshots, world, fresh, user,
                 changes, faults>>

(***************************************************************************)
(* Main thread: io.cpp.                                                    *)
(***************************************************************************)

\* TeensyControls_input: the user has set r.
Input(r, v) ==
  /\ phase = "input" /\ turns < MaxTurns
  /\ turns' = turns + 1
  /\ items' = WriteItem(items, r, v)
  /\ set' = [set EXCEPT ![r] = items'[r].val]
  /\ own' = [own EXCEPT ![r] = FALSE]
  /\ UNCHANGED <<phase, link, data, delayed, snapshots, world, fresh, alone,
                 changes, faults>>

InputDone ==
  /\ phase = "input"
  /\ phase' = "update"
  /\ UNCHANGED <<link, data, delayed, items, snapshots, world, fresh, user,
                 changes, faults>>

\* The items step 2 requests a write for ...
Written ==
  {r \in Mapping : items[r].changed /\ WriteNeeded(r, items[r].val)}

\* ... and the requests, in the order of the list.
Requested ==
  LET after[n \in 0 .. NumMappings] ==
        IF n = 0 THEN requests
        ELSE IF n \in Written
        THEN Append(after[n - 1], [ref |-> n, val |-> Scaled(n, items[n].val)])
        ELSE after[n - 1]
  IN  after[NumMappings]

\* The last snapshot has the value, but is older than a write that has been
\* requested since: the value is lost.
TakenForUnchanged(r) == r \notin Written /\ setDelay[r] = SetDelay

\* TeensyControls_update_xplane: step 2 writes what the Teensy changed, step
\* 3 reads what is not waiting for its write.  A write into a broken session
\* is lost.
Update ==
  /\ phase = "update"
  /\ requests' = IF alive THEN Requested ELSE requests
  /\ setValue' = [r \in Mapping |->
                    IF r \in Written THEN Scaled(r, items[r].val)
                    ELSE setValue[r]]
  /\ setDelay' = [r \in Mapping |->
                    IF r \in Written THEN SetDelay ELSE setDelay[r]]
  /\ items' = [r \in Mapping |->
       [(IF DataRefWritten(setDelay', r) THEN items[r]
         ELSE ReadItem(items[r], DataRefRead(r))) EXCEPT !.changed = FALSE]]
  /\ own' = [r \in Mapping |->
               IF items[r].changed THEN r \in fresh /\ ~TakenForUnchanged(r)
               ELSE own[r]]
  /\ alone' = {r \in Mapping : IF items[r].changed
                               THEN setDelay[r] = 0 /\ ~UnderWay(r)
                               ELSE r \in alone}
  /\ phase' = "output"
  /\ UNCHANGED <<link, data, snapshots, up, alive, sim, fresh, set, turns,
                 changes, faults>>

\* TeensyControls_output
Output ==
  /\ phase = "output"
  /\ items' = MarkSent(items)
  /\ phase' = "link"
  /\ UNCHANGED <<link, data, delayed, snapshots, world, fresh, user, changes,
                 faults>>

Main == Dispatch \/ Reconnect \/ Disconnect \/ RetryWait \/ Open \/ OpenFails
        \/ Stop \/ DispatchData \/ DispatchEnd \/ InputDone \/ Update
        \/ Output

-----------------------------------------------------------------------------
(***************************************************************************)
(* The simulator (external).                                               *)
(***************************************************************************)

\* Jetbridge executes the oldest write; the variable may hold it with less
\* precision.  What the write of another variable, or one in other units,
\* makes of the one that is read is up to the simulator.
ApplyWrite ==
  /\ requests # <<>>
  /\ LET r == Head(requests).ref
     IN  \/ /\ r \in WritesRead
            /\ \E n \in {0} \cup Noise :
                 sim' = [sim EXCEPT ![r] = Head(requests).val + n]
         \/ /\ r \notin WritesRead
            /\ \E v \in {sim[r]} \cup SimValue[r] : sim' = [sim EXCEPT ![r] = v]
  /\ requests' = Tail(requests)
  /\ UNCHANGED <<phase, link, data, delayed, items, snapshots, up, alive,
                 fresh, user, changes, faults>>

\* The pilot or the flight changes r.
SimChanges(r, v) ==
  /\ up /\ changes < MaxChanges /\ v # sim[r]
  /\ changes' = changes + 1
  /\ sim' = [sim EXCEPT ![r] = v]
  /\ fresh' = fresh \ {r}
  /\ own' = [own EXCEPT ![r] = FALSE]
  /\ UNCHANGED <<phase, link, data, delayed, items, snapshots, up, alive,
                 requests, set, alone, turns, faults>>

\* The session breaks, because the simulator has stopped or only so.
LinkBreaks ==
  /\ alive /\ faults < MaxFaults
  /\ faults' = faults + 1
  /\ alive' = FALSE /\ up' \in BOOLEAN
  /\ requests' = <<>> /\ fresh' = {}
  /\ own' = [r \in Mapping |-> FALSE]
  /\ UNCHANGED <<phase, link, data, delayed, items, snapshots, sim, set,
                 alone, turns, changes>>

SimStarts ==
  /\ ~up
  /\ up' = TRUE
  /\ UNCHANGED <<phase, link, data, delayed, items, snapshots, alive, sim,
                 requests, fresh, user, changes, faults>>

Next ==
  \/ Main \/ DispatchWrongSize
  \/ \E r \in Mapping : \E v \in KnobValue[r] : Input(r, v)
  \/ ApplyWrite \/ LinkBreaks \/ SimStarts
  \/ \E r \in Mapping : \E v \in SimValue[r] : SimChanges(r, v)

Spec == Init /\ [][Next]_vars

(***************************************************************************)
(* Fairness: main loops until it ends, a live session delivers snapshots   *)
(* (one per visual frame) and Jetbridge executes writes.  The user, the    *)
(* pilot and faults owe nothing, nor does a simulator that has stopped.    *)
(***************************************************************************)
FairSpec ==
  /\ Spec
  /\ WF_vars(Main) /\ SF_vars(DispatchData) /\ WF_vars(ApplyWrite)

-----------------------------------------------------------------------------
(***************************************************************************)
(* Properties.                                                             *)
(***************************************************************************)

\* What the hub makes of a value of r's variable.
Shown(r, v) == OfType(TypeOf[r], Rounded(v \div ReadScale[r]))

\* What r's variable will be when all requested writes are applied.
Upcoming(r) ==
  LET mine == {k \in 1 .. Len(requests) : requests[k].ref = r}
  IN  IF mine = {} THEN sim[r] ELSE requests[Max(mine)].val

\* What dataRefWrite can send for r, and what r's variable can be.
Sendable(r) == {Scaled(r, Heard(TypeOf[r], k)) : k \in KnobValue[r]}
CanBe(r) == {SimStart[r]} \cup SimValue[r]
            \cup IF r \in WritesRead
                 THEN {v + n : v \in Sendable(r), n \in {0} \cup Noise} ELSE {}

\* "step 2: write any data Teensy changed": a value the user has set in a
\* mapping that writes what it reads is what the variable has or is about to
\* get, although dataRefWrite sends nothing that the last snapshot, which the
\* delayed read doctors, seems to have already.  The exceptions are a value
\* that is set back before the first snapshot after a write
\* (TakenForUnchanged), and a variable that is not fresh.
UserValueReachesSim ==
  phase = "output" => \A r \in Mapping :
    own[r] => Rounded(Upcoming(r)) = Scaled(r, set[r])

\* What is sent to the Teensy is never an older value than the one its user
\* has set last, to the thousandth: neither the snapshot of this frame nor
\* one that was taken before the write was applied reaches the item.
NoStaleEcho ==
  phase = "output" => \A r \in alone :
    own[r] => Rounded(items[r].val) = Rounded(set[r])

\* "step 3: read all data from simulator": an item never shows a value of
\* another mapping's variable, not even while the delayed read overwrites
\* the snapshot in place or after a new session.
ShowsOwnVariable ==
  \A r \in Mapping : items[r].val # NoValue =>
    \/ \E k \in KnobValue[r] : items[r].val = Heard(TypeOf[r], k)
    \/ /\ TestValue[r] # NoValue
       /\ items[r].val = OfType(TypeOf[r], TestValue[r])
    \/ \E v \in CanBe(r) : items[r].val = Shown(r, v)

\* If the link stays up, every item settles on what the simulator has: no
\* setDelay suppresses snapshots for ever, and a broken session, also one
\* that breaks while it is being reopened, does not stop the snapshots.
HubFollowsSim ==
  \A r \in ReadMapping :
    <>[](up /\ ~quit) => <>[](items[r].val = Shown(r, sim[r]))
=============================================================================
