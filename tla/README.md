# A TLA+ model of the Teensy FS2020 plugin

`src/teensy-fs2020-plugin` is a bridge between Teensy boards on USB (cockpit
panels with displays, knobs and switches) and a set of *data references*. It is
built as two programs from mostly the same files:

* the **FS2020 program** (Windows, `fs2020.cpp`): the data references are
  variables of Microsoft Flight Simulator, read through SimConnect and written
  through Jetbridge;
* the **Pi program** (Linux, `pi.cpp`): there is no simulator; the program itself
  holds the values and is a hub between several Teensys and some hardware
  buttons.

This directory holds TLA+ modules of the program, TLC configurations that check
them on small instances and TLAPS proofs about the core for every instance.

Contents: [inventory](#inventory) - [modules](#modules) - [runs](#runs) -
[proofs](#proofs) - [findings](#findings) - [not modelled](#not-modelled) -
[plan](#plan).

## Inventory

### Threads

One main thread runs the loop
`delete_offline_teensy; find_new_usb_devices; input; update_xplane; output;`
(then, on the Pi, the buttons) and sleeps 30 ms. Every board has two threads of
its own: an *input thread* (USB to `input_buffer`) and an *output thread*
(`output_buffer` to USB). They share a `teensy_t` with the main thread.

### Components

| Component | State | Operations | Meets the others through | What makes it correct |
|---|---|---|---|---|
| Packet rings (`memory.cpp` 87-146) | head, tail, slots | store, fetch | called under a mutex by main and one board thread | a bounded FIFO queue; drops only when full |
| Output path (`memory.cpp`, `usb.cpp` output_thread) | ring, `output_mutex`, `output_event`, `output_thread_waiting`, `online` | store, fetch, wait, signal, close | main stores, output thread fetches and writes | no lost wakeup; what is stored is sent; the thread quits when offline |
| Condition variable for Windows (`thread.cpp`) | waiter count, auto-reset event | wait with time-out, signal | used by the output path | behaves as a POSIX condition variable |
| Board life cycle (`usb.cpp`, `memory.cpp`) | list of `teensy_t`, `online`, quit flags, `error_count`, udev monitor; on Windows events and overlapped requests | find, open, start threads, take offline, close, delete | threads set flags, main reads them; udev events | no use after free; every gone board is reaped; every board is found; no two requests on one OVERLAPPED; the threads end |
| Items (`memory.cpp` 171-244, `io.cpp`) | per Teensy a list of items with a value, the Teensy's copy and a changed flag; `frames_without_id`, `unknown_id_heard`; the packet being filled | register, write, update, output | packets to and from the board; `dataRefRead/Write` | both sides end with the same value, unless two values cross or a buffer drops one; the user's change wins; every id gets registered |
| Pi value store and buttons (`pi.cpp`) | `testValue` of each data reference | `dataRefRead`, `dataRefWrite`, `hardwareInit`, buttons | called by update and by main | see Items |
| Input packet assembly (`io.cpp` 148-230) | fragment buffer, missing bytes, expected fragment | split, join | input ring in, `decode_packet` out | never splices two commands; order; recovers after a loss |
| SimConnect link (`fs2020.cpp`) | `connected`, `retryDelay`, `dataPtr`, `setDelay`/`setValue` of each mapping | connect, retry, dispatch, delayed read, `dataRefRead/Write` | callback; update of `io.cpp`; requests to Jetbridge | the user's value reaches the simulator, unless it is taken for unchanged; no old snapshot undoes it; items show their own variable; the hub follows the simulator in the end |
| Mapping and button files (`pi.cpp`, `fs2020.cpp`) | `dataMapping`, `dataMap`, `buttonData` | load | constants for the rest | names find their mappings; nothing cut off or copied moves between fields; every button has a pin and a mapping |
| GPIO, Jetbridge, plugin enable/disable | - | I/O | - | - |

Hard behaviours: two threads and a condition variable per board; an emulated
condition variable whose wait is not atomic; boards unplugged at any point;
unlocked flags and counters; values crossing on the wire; packets dropped
silently; re-registration of ids in the middle of everything. `PROJECT.json`
lists each hazard at its line with the properties that watch it.

## Modules

```
BoundedQueue        abstract: FIFO queue with a capacity
   ^ QueueSpec
OutputPath          main thread x output thread, POSIX condition variable
   |  EXTENDS PacketRing   (index arithmetic of both rings, no variables)
   ^ ImplementsPosix
WinOutputPath       the same over the Windows emulation

UsbLinux            boards, udev, creation and deletion of teensy_t
UsbWindows          the same of the Windows build, overlapped I/O, usb_close

InputPath           reports of a Teensy -> input buffer -> commands

Loader              mapping file and button file -> tables

Items               items of one Teensy, packing of output packets, no variables
   ^ EXTENDS                          ^ EXTENDS
PiHub               main loop of      SimHub   main loop of the FS2020
the Pi program x several Teensys      program x simulator
```

How they fit together: `InputPath` ends in the commands with which `PiHub` and
`SimHub` begin (`Decode`, `Input`); `PiHub`'s output ends in the queue that
`OutputPath` shows the output ring to be; `Loader` gives what the two hubs have as
constants, and `ReadOrTest` is what `SimHubAssumption` says of them.

`MC*.tla` give TLC its instances, `*Proofs.tla` hold the theorems.

### PacketRing, OutputPath, BoundedQueue

A ring is a record `head, tail, slot`; `StoreRing` and `FetchRing` are
`TeensyControls_*_store` and `_fetch` without their locks. `OutputPath` puts the
locks back: `output_store` is `StoreLock, StorePacket, StoreSignal, StoreUnlock`;
the output thread is `LoopTop, FetchLock, FetchPacket, CheckOnline, WriteReturns |
WriteOffline, WaitLock, WaitSleep | WaitNotNeeded, WaitTimeout, Relock, WakeDone`;
`usb_close` is `CloseOffline, CloseSignal`. The program counters `mainPc` and
`outPc` stand between the steps that another thread can observe. A sleep is
`outPc = "blocked"`; a signal moves it to `"relock"`; spurious wakeups are
allowed, as POSIX allows them. `CheckOnline` shows that a packet fetched just
before the device went offline is thrown away. A packet is an opaque value.

`BoundedQueue` has two actions, `Put` and `Take`. The refinement maps `queue` to
the contents of the ring from tail to head and `taken` to the output thread's
buffer, so it says that no packet is overwritten, skipped, repeated or reordered
by the wrap-around.

### WinOutputPath

`pthread_cond_wait_timeout` of `thread.cpp` is `AnnounceWait` (the caller sets
`output_thread_waiting`), `EnrollWaiter`, `ReleaseMutex`, `ConsumeEvent |
ObjectTimeout`, `UnenrollWaiter`, then `Relock` as before. `pthread_cond_signal`
is `TestSignal` and `SetEvent`. The refinement mapping counts the thread as
asleep from `ReleaseMutex` until the event is set or the wait times out; a stale
event becomes a spurious wakeup.

### UsbLinux

Main runs `delete`, (once) `setup`, `scan`, `open`, then `poll` and `transfer`.
`new_usb_device` is one action: only the bus can change while it runs, and what
the bus does during it is what it does before it or after it. `open`, an `ioctl`
or `malloc` may fail for a board that is there: nothing tries such a board again, and
`refused` remembers it, because `BoardFound` can promise it nothing. Each thread is a
small machine: test `online`, transfer, then success, `ENODEV`, or an error.
`++error_count` is a load (`Fail`) and a store (`AddError`, `RetryWrite`) because
two threads do it without a lock. `faults` counts the errors since the last success,
but a success while an increment is under way (`Counting`) clears nothing, because
that increment may store the old count again. `thread_start` may fail for either thread.
A board is identified by the node and by which plugging-in it is, so that a
descriptor of a board that went and came again is not a descriptor of the new
one. Structures are numbered and never reused: `heap` records what was freed.
libudev is assumed to accept the NULL context it is given (nothing calls
`TeensyControls_usb_init`).

### Items, PiHub

`Items` has the operators of one Teensy: `RegisterItem`, `WriteItem`, `ReadItem`,
and the packing of commands of 4 and 10 bytes into packets. `PiHub` is the turn
of the main loop: `InputPacket` (one packet), `InputNext`, `InputDone`, `Update`,
`OutputTooEarly | OutputDiffering` per Teensy, `OutputDone`, `Buttons`. The main
thread is the only one that touches items, so `Update` and the output of one
Teensy are one step each; the rings are read and written by other threads
between any two of them. Numbers are natural numbers of a unit finer than a
thousandth, so `Truncated` (`io.cpp` 93), `Rounded` (`pi.cpp` 58) and `Whole`
(double to int, `io.cpp` 296) do what the code does. Items hold doubles, but a float
is decoded into a `float` and sent as one: `Narrow` gives the nearest float,
`Heard` is what an item holds after a report (truncated, then narrowed) and `AsSent`
what the Teensy gets. So a value that is no multiple of a thousandth as a float
comes back from `dataRefRead` as a different double, and the hub echoes it to the
Teensy that sent it, as the code does. The rings are queues here, which `OutputPath`
justifies.

`crossed` is a history: the ids for which, since their last value or report, a
value and a report have crossed on their way or the last of them was dropped by a
full buffer. In these cases the code itself goes wrong (`floatval_remote` is set when
a value is queued); `RemoteAsOnTeensy` says that nothing else makes it go wrong.

A button acts in every frame in which it is down, alone or with the others of its
data reference: `Adjust` has what they can add up to. On a data reference without a
value `dataRefWrite` adds to `MAXINT`; downwards that gives a number
(`BelowNoValue`), upwards it has no defined conversion to an int, and is left out
(`Adjustable`).

The board's firmware is not in the repository. `Receive`, `TurnKnob`,
`PressCommand` and `Send` model it from what `io.cpp` sends and expects: it
registers its ids when asked, sends a value its user sets and shows a value it is
sent.

`KeepsUp` is an assumption about time, not about the code: with it the output
buffer of a Teensy is empty when `output` comes round again, as 30 ms allow.

### InputPath

`input_packet` reads a report command by command: `FetchReport`, then `TakeWhole`,
`TakeStart` (the command goes on in the next report), and for a fragment
`CompleteCommand | ExpectMore | RefuseLength | RefuseFragment`, all of which but
the last copy its bytes first (`TakeBytes`). A byte is a pair of a command and a
place in it, so splicing, repeating or dropping bytes shows. The firmware
(`PutWhole`, `PutStart`, `PutFragment`, `Ship`) is external and packs commands in
every way `input_packet` understands. `shipped` records which reports were lost.

### UsbWindows

`TeensyControls_find_new_usb_devices` scans once (`Scan`). Each thread is `TestOnline`, then
`StartIo | StartGone | StartFails | StartClosed`, then `GetOverlappedResult`;
`usb_close` is `CloseOffline, SetEvents` per board, `WaitEnds`, `CloseHandles`,
`WaitEnds`, and the last `delete_offline_teensy` follows. Main may come between any
two steps of the threads, in particular between their test of `online` and their
request, and may set an event under a request that goes on; that request then
stays "in flight" although `GetOverlappedResult` has returned. What Windows does
with requests, events and handles is external and named in the module's head.

### Loader

A line is a sequence of tokens. `LineOK`, `Parse`, `ButtonOK` and `Button` are what
the loops do with one line; `LoadMapping`, `Refuse`, `SkipLine`, `LoadButton` and
`IgnoreButton` are their effects on the tables. `loadDataMappings` is in both
programs, the same but for the path of the file; the map names lines of either. Name
and units are trimmed, but a variable is what is before the first comma of a field
that was trimmed as a whole: a blank before the comma stays in it, and a second comma
stays in the units. `FieldsCut` says exactly this.

### SimHub

A turn of main is `link`: `Dispatch` (then `DispatchData`, once per snapshot,
`DispatchWrongSize`, `DispatchEnd`), `Reconnect`, `Disconnect`, `RetryWait`,
`Open | OpenFails`; then `Input`, `Update`, `Output`. `DelayedRead` is the loop over
the mappings that overwrites the snapshot in place. `Update` is step 2 (each
`dataRefWrite`, whose requests go to Jetbridge) and step 3 of
`TeensyControls_update_xplane`. The simulator applies requests in order
(`ApplyWrite`), changes variables of its own (`SimChanges`), and the session may
break at any point (`LinkBreaks`), also between `simOpen` and the second
`SimConnect_CallDispatch`. A mapping may write another variable than it reads, or the
same in other units (`ReadScale`, `WriteScale`); the comparison of `dataRefWrite` is
of a read value with a converted one all the same. `WritesRead` are the mappings that
write what they read: only of them can anything be said about the user's value. What
other writes make of the variable that is read is up to the simulator.

A turn of main need not see a snapshot: it takes 30 ms and a snapshot comes per visual
frame. `fresh`, `own` and `alone` only record when the
properties may ask for the user's value: the link was up, the simulator has not
changed the variable itself since, the last snapshot that was not hidden was
taken when no write of the variable was under way, and the value was not
`TakenForUnchanged`: set back before the first snapshot after a write, it is equal to
the old snapshot, is not sent and is lost (see the findings). `Shown`, `Sendable` and
`CanBe` say what the hub makes of a variable's value, what it can write to it and what it can hold,
for any values: `ShowsOwnVariable` does not depend on the values of two
variables being disjoint, which only the run needs.

One constant is an assumption about time, not about the code: `WrittenInTime` (a
request is applied before the third snapshot, which is what `setDelay = 3` is made
for).

## Runs

| Run | Question | Result |
|---|---|---|
| `OutputPath` | `TypeOK`, `NoLostWakeup`, `DropsOnlyAtCapacity`, `QueueSpec`, `StoredIsFetched`; does the output thread quit (`QuitsWhenOffline`) | hold, the last one if the time-out expires |
| `WinOutputPath` | `WinTypeOK`, `WinNoLostWakeup`, `ImplementsPosix`, `WinStoredIsFetched` | hold |
| `UsbLinux` | `TypeOK`, `NoUseAfterFree`, `Reaped` | hold |
| `UsbOneBoard` | with transfer errors and boards that cannot be opened: is every other board found (`BoardFound`) and taken offline only with a cause (`OfflineHasCause`) | hold |
| `PiHub` | `RemoteAsOnTeensy`, `ItemsInStep`, `EveryIdRegistered`, `KnobWins` with two Teensys, narrowed floats, crossing and dropped values | hold |
| `PiButtons` | `TypeOK`, `ShowsHubValue` with buttons up and down, unmapped ids, small packets | hold |
| `InputPath` | `TypeOK`, `SplicedOnlyByLoss`, `InOrderOnce`, `AccountsForBytes`, `UnhurtIsDecoded` with lost reports | hold |
| `UsbWindows` | `TypeOK`, `OneIoAtATime`, `NoIoAfterFree`; do the threads end (`ThreadsQuit`); is a gone board deleted (`GoneIsDeleted`) | hold |
| `Loader` | `NamesFindMappings`, `ReadOrTest`, `LoadsAsWritten`, `ButtonsUsable` for all files of two lines | hold |
| `SimHub` | `TypeOK`, `UserValueReachesSim`, `NoStaleEcho`, `ShowsOwnVariable`; does the hub follow (`HubFollowsSim`), with turns without a snapshot | hold |
| `PiSilenced` | does `output` leave nothing behind (`NothingLeftToOutput`) | violated |
| `SimUnread` | `ShowsOwnVariable` with a mapping that is neither read nor a test value | violated |

### Bounds

* Rings have 3 or 4 slots instead of 50 and 160: enough to fill, to refuse, to
  wrap and to run empty with two different packets. The proofs lift the bound.
* `UsbLinux`: one node, two structures, two pluggings: a board is pulled, its
  structure is deleted, or not yet, when the next board comes to the same node.
  `UsbOneBoard`: one structure, two pluggings, so that a board that cannot be opened
  is followed by one that can. `MaxFaults` is above `ErrorLimit` there (3 and 2
  instead of 8), so the board is taken offline and the counter can also be lost and
  reset on the way; `RetryLimit` 3 stands for 20 and is above `ErrorLimit` as in the
  code. `FrameInterval` 2 stands for 8.
* `PiHub`: `IdFrameTimeout` 1 instead of 5, input buffer 4 instead of 159. A packet
  holds 14 bytes (one command of each size) instead of 64, so in `PiButtons` a frame
  overflows into a second packet. The output buffer holds one packet in `PiHub`
  (instead of 49), so that it drops, and three in `PiButtons`. Values are 0 to 6;
  a thousandth has three units (two in `PiButtons`) and is half of One; narrowing
  takes a unit from a thousandth that is no whole number. The user of `PiHub` sets 5
  (below a thousandth of 1, which is 6: truncation shows) or 6.
  `MaxTurns`, `MaxCommands`, `MaxPresses` bound what the users do; liveness is
  about what happens after they stop, which is when the values must agree.
* `InputPath`: reports of 8 bytes instead of 64, five commands of 3 to 18 bytes:
  a long command takes two to four reports, a short one fits behind its end, and a
  start finds two bytes of room. Three lost reports, besides those that find the
  buffer of two reports full, are enough for a command joined of the parts of
  three.
* `UsbWindows`: one board, one error besides its removal. Boards share nothing but
  main; the proofs are for any number of them.
* `Loader`: files of two lines, the least for a duplicate or a half filled entry;
  every combination of the shapes each part of a line can have.
* `SimHub`: four mappings: one not read, so that index and offset of the others
  differ; an int in the units "10khz" (factor 2 instead of 10); a float, whose value
  narrowing changes; and an int that writes another variable in other units. Their
  values are disjoint, so a value shown in the wrong place is seen. Two turns of the
  knob overlap within one delay, or lie in turns without a snapshot, one change by
  the simulator, two broken links or refused variables: one break during the
  reconnect after another. `RetryDelay` is 1 instead of 200.

### Fairness, and why the code justifies it

* A thread inside a function keeps running (weak fairness); a wait for
  `output_mutex` succeeds although main takes the mutex again and again, because
  main sleeps 30 ms in each turn (strong fairness of the lock steps).
* `FairSpec` of `OutputPath` owes the thread *no* time-out: delivery rests on the
  signal alone. `QuitsWhenOffline` has the time-out as its hypothesis and needs
  it: `InputOffline` signals nobody.
* `UsbLinux`: main loops for ever; threads run; a transfer on a board that is gone
  fails. A board that is there need not send, and nothing makes a board come, go
  or fail. The output thread of a live `teensy_t` gets something to write again
  and again, because `output` queues an enable command in every frame (strong
  fairness of entering `transfer`). A Teensy before it in the list that is
  still registering delays this but not for ever.
* `PiHub`: main loops and a packet in the output buffer reaches the board
  (`StoredIsFetched` of `OutputPath`). Users owe nothing.
* `UsbWindows`: main and threads run, a request on a board that is gone fails, and
  the output thread gets something to write again and again, as above. A request
  on a board that is there need never end, which is why `usb_close` has to work
  without that.
* `SimHub`: main loops until it ends, a live session delivers snapshots again and
  again (it asks for one per visual frame; not every turn has one) and Jetbridge
  executes requests. Nothing makes the user, the pilot or a stopped simulator act.

## Proofs

The theorems about the output paths hold for every `BufSize > 0` and every set of
packets, those about `UsbLinux` for every set of nodes and all bounds and limits.
Those about `UsbWindows` hold for every number of boards, those about `InputPath`
for all commands, report sizes, buffer sizes and losses, those about `Loader` for
all files, those about `PiHub` for any boards, ids, values, buffer sizes and
mapping file, those about `SimHub` for all of its constants under the hypotheses
named below. Besides these, the only assumptions are the ASSUMEs of the modules
(`BufSizeAssumption` and `NoPacketAssumption` of `PacketRing`, `LimitAssumption` of
`UsbLinux`, `WindowsAssumption`, `InputAssumption`, `LoaderAssumption`,
`HubAssumption`, `SimHubAssumption`), which TLC
evaluates in the runs.

* `DataLemmas`: what the other proofs keep needing about numbers and sequences.
  The library states induction with an operator as parameter, which the installed
  provers cannot instantiate; `UpTo` states it with a set instead (from the least
  element of a set of numbers, `LeastOf`), `Recursion` gives the function a
  recursive definition stands for, and `GreatestOf` the value of `Max`. With them
  what a loop computes can be proved after all.
* `OutputPathProofs`, three parts. *The ring*: `StoreAppends`: a store that
  is not refused appends to `Contents`; `FetchTakesHead`: a fetch returns its
  head and leaves its tail; `OccupiedBounds`: never more than `BufSize - 1`.
  The step from records with indices to sequences is `SlotOfIndex`. *The POSIX
  build*: `TypeCorrect`; `NeverSleepsOverPacket`; `NoEarlyDrop`;
  `RingIsQueue` (initial states map to the empty queue; `StorePacket` maps to
  `Put` or a stutter, `FetchPacket` to `Take` or a stutter, the rest to stutters).
  `NoLostWakeup` is not inductive: a state in which the thread sleeps and the flag
  `waiting` is not set, or in which main is between store and signal without the
  mutex, has a bad successor. `IInv` adds that the mutex is held exactly in the
  critical sections of its holder, and that a blocked thread has `waiting` set.
  *The Windows build*: `WinTypeCorrect` (in particular the waiter count is 1
  exactly between `EnrollWaiter` and `UnenrollWaiter`), `WinNeverSleepsOverPacket`,
  and `WinRefinesPosix`: every step of the Windows build is a step of `OutputPath`
  or a stutter under the mapping above, so everything proved of `OutputPath` as a
  safety property holds of the Windows build.
* `UsbLinuxProofs`: `UsbTypeCorrect`, `NoThreadOutlivesTeensy`,
  `OfflineOnlyWithCause`. The invariant `UsbInv` adds to the types and to
  `NoUseAfterFree`: `QuitIsOver` (a thread whose quit flag is set does nothing
  more, so both flags mean nobody is left), `NoRepetition` (a structure is in the
  list once, so taking it out leaves no second link to it) and `ErrorsHappened`
  (`error_count`, and every value a thread loaded and will store, is at most the
  number of errors since the last reset that no increment under way can undo: the
  unlocked increment can lose errors, or undo a reset, but never invent one).
  `ThreadMove` says what all steps of a thread have in common.

* `UsbWindowsProofs`: `TypeCorrect`, `OneRequest`, `FreedIsUnused`. The invariant
  adds why a request may outlive its call: an event is set under a request in
  flight only after `usb_close` has cleared `online` (or when the request is over),
  so the thread it wakes can only quit; and a thread that has quit with a request
  in flight holds up nothing once it has ended, since Windows then cancels it.
* `InputPathProofs`: `TypeCorrect`, `BytesAccounted`, `DecodedInOrder`,
  `OnlyLossSplices`, `FindsItsWayBack`. `IInv` ties
  `buffer` and `missing` to the length the first byte announces. `OrderInv` adds
  for the order that the commands under way (report, buffer, report being filled)
  begin in the order they were sent and behind everything decoded, and that the
  long command being joined is behind what is decoded: a fragment of another
  command cannot change that, because what counts is the command's first byte.
  `SpliceInv` says what can be joined: the parts under way stand in line by command
  and number (`Line`); each has the part after it behind it, in the firmware or
  lost (`GoesOn`), and a part whose start is not under way has lost it or is past
  it (`WayInv`); so a fragment with the expected number is the one that goes on
  where the last byte ends, or its command's start was lost and so was a fragment
  of the command being joined (`BufferInv`). An earlier form of
  `SplicedOnlyByLoss` said that two commands at most are joined. The proof does not
  go through and TLC shows why once three long commands follow each other: after
  three losses the parts of three add up to the length of the first. The property
  and the run were corrected.
  `FindsItsWayBack` rests on `SpliceInv` and on two invariants of its own.
  `ReportInv`: a fragment is the first in its report, and a report on its way is one
  that was sent. `UnhurtInv`: a command that was sent is hurt, or decoded, or being
  joined, or its beginning comes; and before a fragment that comes, comes the part
  before it, or that part was the last one taken, or the command is hurt. So a
  fragment at the head of a report that is not expected is of a hurt command, and
  everything in the report behind it is hurt as well; and while the command being
  joined is not hurt, the next thing `input_packet` sees is its next fragment, and
  it fits. When nothing comes any more, nothing unhurt is left to be joined.
  `Hurt` is the least set closed under two rules, written as an intersection.
* `LoaderProofs`: `NamesAndMappingsAgree`, `VariableOrTestValue`,
  `MappingsAreAsWritten`, `ButtonsHaveMappings`. The invariant is that `dataMap` is
  the table turned round and that no two names are equal. `MappingsAreAsWritten` is
  about the text operators: what can be in the fields (`FieldsCut`) and that the
  mapping, written out in full, loads as the same one (`LoadsSame`). `Parts` and
  `Truncated` say what cutting at a separator and cutting off blanks leave (a part has
  no separator, the rest neither begins nor ends with a blank, and no token is new);
  `Split` and `NothingToTruncate` that joining undoes them. `ReadAgain` and
  `WriteAgain` say of one field that its text gives the same field again, with the
  defaults `WritePart` copies, also if a variable ends with a blank or the units hold
  a comma; `CutIs` and `LineAgain` put the line together, and `EntryLoadsAgain` says it
  of an entry of the table. It needs `LoaderAssumption` to say that a number is none
  of the separators. The strings " ", "," and ";" have names in this module because
  the SMT translation fails on them.
* `PiHubProofs`: `ListsInStep`, `HubTypeCorrect`, `RemoteFollows`. `IInv` describes each list on its own (no id
  twice, only mapped ids, an item marked only between input and update and then
  equal to what the Teensy sent); each operation of `Items` has a lemma that it
  keeps this, and `Reports` says that only the three kinds of reports arrive.
  `HubTypeCorrect` is about the values and the packets: `TInv` adds to `IInv` that
  a marked item has a value (`Filled`: otherwise step 2 of update would round
  `NoValue`), that the packet being filled has at most 64 bytes and that no packet
  in the buffer is longer or empty (`GoodOut`). The loops are unrolled by
  `PacketLenSteps`, `OutputItemsSteps`, `WrittenBySteps` and `WrittenSteps`: each
  gives the function from steps to results that the loop computes, and `UpTo`
  carries a fact from one step to the next. That rounding stays in range needs
  `MaxValue` to be a whole number of thousandths; `MaxValue` is a bound of the
  model, not of the code.
  `RemoteFollows` is about what crosses the wire, for any number of users, buttons and
  buffer sizes and without hypotheses. `RInv` says of each Teensy and id (`Held`) that
  the packet being filled holds no value for it, and that it has `crossed` or is
  `Linked`: if a report of it waits, nothing is on its way to the Teensy, and the last
  report is what the Teensy shows (`Unmet`); otherwise the item `Agrees`, that is, it
  has no remote value, or the last value on its way, or else what is shown, is what
  was sent (`Ends`), or nothing is on its way and the remote value is what was heard
  of what is shown. The first of these tells why a report must not meet a value:
  what it says is already overtaken. `Grown` says what the loop over the items adds to
  the buffer behind what is there, for each id, although packets of it may be dropped:
  either the value is among it, or nothing is and the id has `crossed`.
* `SimHubProofs`: `TypeCorrect`, `OwnVariableShown`, `ValueReachesSim`,
  `NoOlderValueShown`: all the safety properties of `SimHub`, for any mapping file,
  any values and units, any number of turns, of writes and snapshots under way and
  of broken links. Each has an inductive invariant of its own on top of the one
  before:
  - `TypeInv`: the types, and item `r` is the item of mapping `r` for ever.
  - `OwnInv`: what is under way, in the snapshot (where no write hides it), in
    `setValue` (while `setDelay` runs) and in the item of a mapping is something its
    own variable can be; a value that hides a snapshot is in the units of the write
    variable, and is not read before the delay is over. The
    heart is `DelayedReadSteps`: the loop overwrites the snapshot in place, but only
    at the offset of a mapping that waits for its write; `OffsetIsOwn` says that
    such an offset belongs to no other mapping, if only variables that are read are
    written (`ReadIfWritten`). Without that it is false, which is what the run
    `SimUnread` shows.
  - `UserInv` (`LinkInv`, `FreshInv`, `SetInv`): if `r` is fresh, a `setDelay` of 0
    means that nothing is under way for it, and a running one that the last write
    under way, or else the variable, is `setValue`. Unless `setDelay` is still 3, so
    that no snapshot has come since the last write, the hub's copy agrees with what
    the variable is about to be: if `dataRefWrite` then sends nothing, nothing needs
    to be sent. If it is still 3 and nothing is sent, the value is `TakenForUnchanged`.
  - `EchoInv` (`Kept`): from the write until it shows in a snapshot, the request is
    the only one of its variable, the delay has not run out and hides what is older.
  `ReadBack` is the arithmetic: a value in thousandths that is multiplied by the
  unit's scale, changed by less than half a thousandth, rounded and divided again
  is the same value.

  Their hypotheses: `ReadIfWritten` (of the mapping file: see `SimUnread` for what
  happens otherwise) and `SimulatorIsPrecise` (the simulator keeps a value to better
  than half a thousandth); for `NoOlderValueShown` also `WrittenInTime` and
  `FloatsUnscaled` (no float is in the units "10khz": multiplied by ten, what narrowing
  took from it may be more than half a thousandth). `SimHub.cfg` satisfies all of them.
  `ValueReachesSim` assumes nothing about time.

Only model-checked: everything about liveness (`StoredIsFetched`,
`WinStoredIsFetched`, `QuitsWhenOffline`, `Reaped`, `BoardFound`,
`EveryIdRegistered`, `ShowsHubValue`, `KnobWins`, `ThreadsQuit`, `GoneIsDeleted`,
`HubFollowsSim`), which is out of the prover's reach. Every invariant and every
action property of a passing run is stated by a theorem.

## Findings

Two runs show where the code does something else than it says; `PROJECT.json`
quotes the lines.

* `PiSilenced`: `break` in the output loop starves all Teensys behind one that is
  registering; a command is enough to make it register again.
* `SimUnread`: a mapping without a read variable and without a test value (the
  code calls it "Not mapped yet!") has offset 0, so its item shows, and its Teensy
  gets, the first variable that is read.

Met while modelling, without a run of their own:

* A board that appears between the start of the udev monitor and the scan is opened
  twice. If neither thread of a board can be started its `teensy_t` stays, online,
  for ever. A board on which `open` or an `ioctl` fails is not looked at again until it
  is pulled and plugged in.
* A value set on a Teensy that crosses one on its way to it, or a packet refused by a
  full output buffer, leaves the two sides different until the next value or report
  (`floatval_remote` is set when a value is queued, not when it arrives).
  `RemoteAsOnTeensy` names these cases (`crossed`) and says that there are no others.
* The hub sends a float back to the Teensy that sent it (`io.cpp` 395), because the
  decoded value is a `float` and the one read back from `pi.cpp` 58 the nearest double
  to a thousandth. If the user has turned the knob on meanwhile, the echo crosses that
  report, with a single Teensy and a single user.
* A value set back before the first snapshot after a write is lost: set 3, 6 and 3
  again in turns without a snapshot, and `dataRefWrite` (`fs2020.cpp` 221) compares the
  last 3 with the snapshot of the first, sends nothing, and the 6 is applied. Turns
  without a snapshot are routine below some 33 frames a second. `TakenForUnchanged`
  names the case; TLC finds it when `own` does not exclude it.
* A second write of a variable while the first is not yet applied may let the first
  one's value show once.
* A blank before a comma stays in the variable, and is sent to the simulator with it;
  a second comma stays in the units (`fs2020.cpp` 326-332, 360-366).

Met while proving `ValueReachesSim`, with three turns of one knob, one more than the
run has: the user sets a value, sets it back before the first write is applied, and
the next snapshot, which still has the old value, ends the delay (`fs2020.cpp` 65)
with both writes under way. If he then sets the first value again while a snapshot
shows it, `dataRefWrite` sends nothing (`fs2020.cpp` 221), and the second write undoes
it. `fresh` therefore excludes a variable whose last snapshot was taken with
a write under way; TLC finds the case with three turns when it does not.

## Not modelled

* An adjust upwards of a data reference without a value (`pi.cpp` 61): `MAXINT` and more
  has no defined conversion to an int.
* Two mappings of one variable in the FS2020 program: what one writes the other reads,
  and neither knows of the other's delay.
* Strings and commands of items: a string item is registered but no code reads or
  sends its value; an item of type 0 is never created, so the command queue is
  unreachable.
* `PluginEnable`, `PluginDisable`: called by nobody; `flags` is always 0.
* GPIO: calls of gpiod or WiringPi. If `gpioInit` fails every button reads as
  pressed; that is a hazard without a property.
* The text of a Jetbridge request and the registration with SimConnect; the
  requests themselves are a queue in `SimHub`.
* Messages and exceptions of SimConnect that are only printed, and the map of
  packet ids kept for them.
* `testAdjust` of the FS2020 program (a test value that counts up when read).
* What is never released: file descriptors (Linux), the old SimConnect handle and
  the packets of Jetbridge; and table limits nobody tests. A count would restate
  that there is no such code.
* The tests on vendor, product and report descriptor: they decide which devices
  are boards at all; `Node` and `Board` are the set of those.
* `usb_close` of the Linux build at the end of main: `quit` of the Pi program is
  never set, and what a `select` on a closed descriptor does is not the code's.

## Plan

1. Done: `PacketRing`, `BoundedQueue`, `OutputPath`, `WinOutputPath`, `UsbLinux`,
   `Items`, `PiHub`, `InputPath`, `UsbWindows`, `Loader`, `SimHub`, and the proofs
   listed above.
2. Open: a composition of `InputPath` with `PiHub` (fragments of registrations);
   several boards in one run of `UsbWindows`.
