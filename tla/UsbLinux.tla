------------------------------ MODULE UsbLinux ------------------------------
(***************************************************************************)
(* The life of a teensy_t on Linux: boards come and go on the USB bus, the *)
(* main thread finds them through udev and creates a teensy_t with an      *)
(* input and an output thread each, the threads take it offline when the   *)
(* board is gone or makes too many errors, and the main thread deletes it  *)
(* once both threads have quit (usb.cpp, memory.cpp, pi.cpp main loop).    *)
(*                                                                         *)
(* What the threads transfer is left to OutputPath; here a transfer has an *)
(* outcome only.  error_count has no lock: the two threads increment it    *)
(* with a load and a later store, and reset it.                            *)
(*                                                                         *)
(* main never leaves its loop on Linux (nothing sets quit), so             *)
(* TeensyControls_usb_close is not part of these behaviours.               *)
(***************************************************************************)
EXTENDS Naturals, Sequences, SequencesExt

CONSTANTS
  Node,          \* device nodes, /dev/hidraw0 and so on
  MaxTeensy,     \* bound: how many teensy_t structures malloc gives
  MaxPlugs,      \* bound: how often boards are plugged in
  MaxFaults,     \* bound: transfer errors between two resets
  ErrorLimit,    \* 8: one error more takes the board offline
  RetryLimit,    \* 20: interrupted writes are repeated below this count
  FrameInterval  \* 8: udev is polled every so many frames

ASSUME LimitAssumption ==
  /\ Node # {}
  /\ MaxTeensy \in Nat /\ MaxPlugs \in Nat \ {0} /\ MaxFaults \in Nat
  /\ ErrorLimit \in Nat /\ RetryLimit \in Nat
  /\ FrameInterval \in Nat \ {0}

VARIABLES
  board,       \* board[n]: which plugging-in the board at n is, 0 if none
  plugs,       \* how many boards were plugged in so far
  monitoring,  \* the udev monitor receives events
  events,      \* events the monitor holds, oldest first
  mainPc,      \* where the main thread is in its loop
  toOpen,      \* devices the enumeration listed and did not yet look at
  frames,      \* count of find_new_usb_devices
  list,        \* TeensyControls_first_teensy and the next links
  heap,        \* "unused", "live" or "freed"
  refused,     \* boards new_usb_device has failed on (history)
  teensy,      \* the fields of each teensy_t
  thread       \* the two threads of each teensy_t

bus == <<board, plugs, monitoring, events>>
main == <<mainPc, toOpen, frames, list, heap, refused>>
vars == <<bus, main, teensy, thread>>

\* The structures, in the order malloc gives them; none is given twice.
Teensy == 1 .. MaxTeensy

Sides == {"input", "output"}

Fields == [node : Node, plug : 0 .. MaxPlugs, online : BOOLEAN,
           quit : [Sides -> BOOLEAN],      \* input_, output_thread_quit
           errorCount : 0 .. MaxFaults,
           faults : 0 .. MaxFaults]        \* errors since the last reset that
                                           \* no increment can undo (history)

\* "add": error_count was loaded and is to be stored incremented by one.
Threads == [pc : {"none", "test", "transfer", "wait", "add", "retry", "done"},
            loaded : 0 .. MaxFaults]

TypeOK ==
  /\ board \in [Node -> 0 .. MaxPlugs]
  /\ plugs \in 0 .. MaxPlugs
  /\ monitoring \in BOOLEAN
  /\ events \in Seq([action : {"add", "remove"}, node : Node])
  /\ mainPc \in {"delete", "setup", "scan", "open", "poll", "transfer"}
  /\ toOpen \subseteq Node
  /\ frames \in 0 .. FrameInterval - 1
  /\ list \in Seq(Teensy)
  /\ heap \in [Teensy -> {"unused", "live", "freed"}]
  /\ refused \subseteq 1 .. MaxPlugs
  /\ teensy \in [Teensy -> Fields]
  /\ thread \in [Teensy -> [Sides -> Threads]]

\* The loop's first turn, some boards plugged in; the first
\* delete_offline_teensy has found an empty list.
Init ==
  /\ \E P \in SUBSET Node :
       /\ board = [n \in Node |-> IF n \in P THEN 1 ELSE 0]
       /\ plugs = IF P = {} THEN 0 ELSE 1
  /\ monitoring = FALSE
  /\ events = <<>>
  /\ mainPc = "setup"
  /\ toOpen = {}
  /\ frames = 0
  /\ list = <<>>
  /\ heap = [t \in Teensy |-> "unused"]
  /\ refused = {}
  /\ teensy = [t \in Teensy |->
       [node |-> CHOOSE n \in Node : TRUE, plug |-> 0, online |-> FALSE,
        quit |-> [s \in Sides |-> FALSE], errorCount |-> 0, faults |-> 0]]
  /\ thread = [t \in Teensy |->
       [s \in Sides |-> [pc |-> "none", loaded |-> 0]]]

-----------------------------------------------------------------------------
(***************************************************************************)
(* The USB bus.  udev queues an event per change once the monitor runs.    *)
(***************************************************************************)
Notify(action, n) ==
  events' = IF monitoring
            THEN Append(events, [action |-> action, node |-> n])
            ELSE events

PlugIn(n) ==
  /\ board[n] = 0 /\ plugs < MaxPlugs
  /\ plugs' = plugs + 1
  /\ board' = [board EXCEPT ![n] = plugs + 1]
  /\ Notify("add", n)
  /\ UNCHANGED <<monitoring, main, teensy, thread>>

Unplug(n) ==
  /\ board[n] # 0
  /\ board' = [board EXCEPT ![n] = 0]
  /\ Notify("remove", n)
  /\ UNCHANGED <<plugs, monitoring, main, teensy, thread>>

\* The board behind the file descriptor of t is there.
Connected(t) == board[teensy[t].node] = teensy[t].plug

-----------------------------------------------------------------------------
(***************************************************************************)
(* Main thread, one turn of the loop of main: delete, find, then input,    *)
(* update and output, which do not change what is modelled here.           *)
(***************************************************************************)

\* Wrong on purpose: does not wait for the output thread.
DeletableTooEarly(t) == ~teensy[t].online /\ teensy[t].quit["input"]

Deletable(t) == ~teensy[t].online /\ \A s \in Sides : teensy[t].quit[s]

\* TeensyControls_delete_offline_teensy frees the first one it finds and
\* looks again; the list keeps its order.
DeleteTeensy ==
  /\ mainPc = "delete"
  /\ \E i \in 1 .. Len(list) :
       /\ Deletable(list[i])
       /\ \A j \in 1 .. i - 1 : ~Deletable(list[j])
       /\ list' = RemoveAt(list, i)
       /\ heap' = [heap EXCEPT ![list[i]] = "freed"]
  /\ UNCHANGED <<mainPc, toOpen, frames, refused, bus, teensy, thread>>

DeleteDone ==
  /\ mainPc = "delete"
  /\ \A i \in 1 .. Len(list) : ~Deletable(list[i])
  /\ mainPc' = "poll"
  /\ UNCHANGED <<toOpen, frames, list, heap, refused, bus, teensy, thread>>

\* Wrong on purpose: the monitor is not enabled.
SetupWithoutMonitor ==
  /\ mainPc = "setup"
  /\ mainPc' = "scan"
  /\ UNCHANGED <<bus, toOpen, frames, list, heap, refused, teensy, thread>>

\* udev_monitor_enable_receiving, the first time only.
SetupMonitor ==
  /\ mainPc = "setup"
  /\ monitoring' = TRUE
  /\ mainPc' = "scan"
  /\ UNCHANGED <<board, plugs, events, toOpen, frames, list, heap, refused,
                 teensy, thread>>

\* udev_enumerate_scan_devices
ScanDevices ==
  /\ mainPc = "scan"
  /\ toOpen' = {n \in Node : board[n] # 0}
  /\ mainPc' = "open"
  /\ UNCHANGED <<frames, list, heap, refused, bus, teensy, thread>>

\* TeensyControls_new_teensy and the two thread_starts, each of which may
\* fail; the teensy_t is appended to the list.
NewTeensy(t, n) ==
  /\ heap' = [heap EXCEPT ![t] = "live"]
  /\ list' = Append(list, t)
  /\ \E started \in SUBSET Sides :
       /\ teensy' = [teensy EXCEPT ![t] =
            [node |-> n, plug |-> board[n], online |-> TRUE,
             quit |-> [s \in Sides |-> s \notin started],
             errorCount |-> 0, faults |-> 0]]
       /\ thread' = [thread EXCEPT ![t] =
            [s \in Sides |-> [pc |-> IF s \in started THEN "test" ELSE "none",
                              loaded |-> 0]]]

\* malloc gives the structures in order.
NextUnused(t) ==
  heap[t] = "unused" /\ \A u \in 1 .. t - 1 : heap[u] # "unused"

\* new_usb_device: opens whatever board is at the node now, and does not ask
\* whether it is open already.  open, each ioctl and malloc may fail; then
\* the descriptor is closed, and nothing tries again.
NewUsbDevice(n) ==
  \/ /\ refused' = refused \cup ({board[n]} \ {0})
     /\ UNCHANGED <<heap, list, teensy, thread>>
  \/ /\ board[n] # 0
     /\ \E t \in Teensy : NextUnused(t) /\ NewTeensy(t, n)
     /\ UNCHANGED refused

OpenEnumerated ==
  /\ mainPc = "open"
  /\ \E n \in toOpen : NewUsbDevice(n) /\ toOpen' = toOpen \ {n}
  /\ UNCHANGED <<mainPc, frames, bus>>

OpenDone ==
  /\ mainPc = "open" /\ toOpen = {}
  /\ mainPc' = "poll"
  /\ UNCHANGED <<toOpen, frames, list, heap, refused, bus, teensy, thread>>

\* Wrong on purpose: "if (count++ < 8) return".
SkipPollOffByOne ==
  /\ mainPc = "poll" /\ frames < FrameInterval
  /\ frames' = frames + 1
  /\ mainPc' = "transfer"
  /\ UNCHANGED <<toOpen, list, heap, refused, bus, teensy, thread>>

\* "if (++count < 8) return"
SkipPoll ==
  /\ mainPc = "poll" /\ frames + 1 < FrameInterval
  /\ frames' = frames + 1
  /\ mainPc' = "transfer"
  /\ UNCHANGED <<toOpen, list, heap, refused, bus, teensy, thread>>

\* At most one event is taken; anything but "add" is only printed.
PollMonitor ==
  /\ mainPc = "poll" /\ frames + 1 >= FrameInterval
  /\ frames' = 0
  /\ mainPc' = "transfer"
  /\ IF events = <<>>
     THEN UNCHANGED <<events, list, heap, refused, teensy, thread>>
     ELSE /\ events' = Tail(events)
          /\ IF Head(events).action = "add"
             THEN NewUsbDevice(Head(events).node)
             ELSE UNCHANGED <<list, heap, refused, teensy, thread>>
  /\ UNCHANGED <<toOpen, board, plugs, monitoring>>

\* TeensyControls_input, _update_xplane and _output go through the list.
Transfer ==
  /\ mainPc = "transfer"
  /\ mainPc' = "delete"
  /\ UNCHANGED <<toOpen, frames, list, heap, refused, bus, teensy, thread>>

Main == DeleteTeensy \/ DeleteDone \/ SetupMonitor \/ ScanDevices
        \/ OpenEnumerated \/ OpenDone \/ SkipPoll \/ PollMonitor \/ Transfer

-----------------------------------------------------------------------------
(***************************************************************************)
(* The threads of t.                                                       *)
(***************************************************************************)
At(t, s, pc) == thread[t][s].pc = pc
Goto(t, s, pc) == thread' = [thread EXCEPT ![t][s].pc = pc]

\* "while (t->online)"; setting the quit flag is the thread's last access.
\* The output thread waits when it has nothing to send.
TestOnline(t, s) ==
  /\ At(t, s, "test")
  /\ IF teensy[t].online
     THEN /\ \/ Goto(t, s, "transfer")
             \/ s = "output" /\ Goto(t, s, "wait")
          /\ UNCHANGED teensy
     ELSE /\ Goto(t, s, "done")
          /\ teensy' = [teensy EXCEPT ![t].quit[s] = TRUE]
  /\ UNCHANGED <<bus, main>>

\* An increment of error_count is under way: it was loaded and not stored.
Counting(t) == \E s \in Sides : thread[t][s].pc \in {"add", "retry"}

\* Wrong on purpose: error_count is not reset.
SucceedUncleared(t, s) ==
  /\ At(t, s, "transfer") /\ Connected(t)
  /\ teensy' = [teensy EXCEPT ![t].faults = IF Counting(t) THEN @ ELSE 0]
  /\ Goto(t, s, "test")
  /\ UNCHANGED <<bus, main>>

\* A report was read, or written: error_count = 0.
Succeed(t, s) ==
  /\ At(t, s, "transfer") /\ Connected(t)
  /\ teensy' = [teensy EXCEPT ![t].errorCount = 0,
                              ![t].faults = IF Counting(t) THEN @ ELSE 0]
  /\ Goto(t, s, "test")
  /\ UNCHANGED <<bus, main>>

\* Wrong on purpose: ENODEV does not clear online.
DeviceGoneIgnored(t, s) ==
  /\ At(t, s, "transfer") /\ ~Connected(t)
  /\ Goto(t, s, "test")
  /\ UNCHANGED <<bus, main, teensy>>

\* ENODEV
DeviceGone(t, s) ==
  /\ At(t, s, "transfer") /\ ~Connected(t)
  /\ teensy' = [teensy EXCEPT ![t].online = FALSE]
  /\ Goto(t, s, "test")
  /\ UNCHANGED <<bus, main>>

\* Another error, or for the output thread EINTR: error_count is loaded.
Fail(t, s) ==
  /\ At(t, s, "transfer") /\ teensy[t].faults < MaxFaults
  /\ teensy' = [teensy EXCEPT ![t].faults = @ + 1]
  /\ \E pc \in {"add", "retry"} :
       /\ pc = "retry" => s = "output"
       /\ thread' = [thread EXCEPT ![t][s] =
                       [pc |-> pc, loaded |-> teensy[t].errorCount]]
  /\ UNCHANGED <<bus, main>>

TooManyErrors(c) == c > ErrorLimit

\* "if (++t->usb.error_count > 8) t->online = 0"
AddError(t, s) ==
  /\ At(t, s, "add")
  /\ LET c == thread[t][s].loaded + 1
     IN  teensy' = [teensy EXCEPT ![t].errorCount = c,
                                  ![t].online = @ /\ ~TooManyErrors(c)]
  /\ Goto(t, s, "test")
  /\ UNCHANGED <<bus, main>>

\* EINTR: "if (++t->usb.error_count < 20) goto tryagain", never offline.
RetryWrite(t) ==
  /\ At(t, "output", "retry")
  /\ LET c == thread[t]["output"].loaded + 1
     IN  /\ teensy' = [teensy EXCEPT ![t].errorCount = c]
         /\ Goto(t, "output", IF c < RetryLimit THEN "transfer" ELSE "test")
  /\ UNCHANGED <<bus, main>>

\* The wait ends, by a signal or after a second.
WaitOver(t) ==
  /\ At(t, "output", "wait")
  /\ Goto(t, "output", "test")
  /\ UNCHANGED <<bus, main, teensy>>

\* Steps a thread takes without the board's help.
ThreadStep(t, s) ==
  TestOnline(t, s) \/ DeviceGone(t, s) \/ AddError(t, s)
  \/ (s = "output" /\ (RetryWrite(t) \/ WaitOver(t)))

Next ==
  \/ \E n \in Node : PlugIn(n) \/ Unplug(n)
  \/ Main
  \/ \E t \in Teensy, s \in Sides :
       ThreadStep(t, s) \/ Succeed(t, s) \/ Fail(t, s)

Spec == Init /\ [][Next]_vars

(***************************************************************************)
(* Fairness: main loops for ever, threads run, a transfer on a board that  *)
(* is gone fails at once, and the output thread is given something to send *)
(* again and again (TeensyControls_output queues a packet every frame).    *)
(* Nothing makes a board send, come, go or fail.                           *)
(***************************************************************************)
FairSpec ==
  /\ Spec
  /\ WF_vars(Main)
  /\ \A t \in Teensy, s \in Sides :
       /\ WF_vars(ThreadStep(t, s))
       /\ SF_vars(TestOnline(t, s) /\ thread'[t][s].pc = "transfer")

-----------------------------------------------------------------------------
(***************************************************************************)
(* Properties.                                                             *)
(***************************************************************************)

\* A teensy_t is freed only when neither thread can touch it again, and main
\* finds no freed one in the list (delete_offline_teensy tests the quit
\* flags, which each thread sets last).
NoUseAfterFree ==
  /\ \A t \in Teensy, s \in Sides :
       thread[t][s].pc \notin {"none", "done"} => heap[t] = "live"
  /\ \A i \in 1 .. Len(list) : heap[list[i]] = "live"

\* A board that is plugged in is taken offline only after more than
\* ErrorLimit errors, EINTR counted, since the last transfer that succeeded:
\* both threads update error_count without a lock, and a reset may only be
\* undone by an increment of the other thread that was under way then.
OfflineHasCause ==
  [][\A t \in Teensy : teensy[t].online /\ ~teensy'[t].online
       => ~Connected(t) \/ teensy[t].faults > ErrorLimit]_vars

Started(t) == \E s \in Sides : thread[t][s].pc # "none"

\* The teensy_t of a board that was pulled out is deleted in the end, if at
\* least one of its threads was started.
Reaped ==
  \A t \in Teensy :
    heap[t] = "live" /\ Started(t) /\ ~Connected(t) ~> heap[t] = "freed"

\* A board that stays plugged in gets a teensy_t, whether it was there
\* before the start, came during the enumeration or came later, and whatever
\* happened to a board before it at its node; but for one new_usb_device has
\* failed on, which is never tried again.
BoardFound ==
  \A n \in Node, i \in 1 .. MaxPlugs :
    board[n] = i ~> \/ board[n] # i \/ i \in refused
                    \/ \E t \in Teensy : heap[t] # "unused"
                         /\ teensy[t].node = n /\ teensy[t].plug = i
=============================================================================
