----------------------------- MODULE UsbWindows -----------------------------
(***************************************************************************)
(* The life of a teensy_t in the Windows build (usb.cpp, memory.cpp, the   *)
(* loop and the end of main in fs2020.cpp): one scan for boards, an input  *)
(* and an output thread per board with overlapped I/O, and the close of    *)
(* all boards, which cannot cancel I/O of another thread and instead sets  *)
(* the events its threads wait for.                                        *)
(*                                                                         *)
(* Only the first scan looks for boards, so a board that comes later does  *)
(* not exist here.  error_count is left out: an error other than "not      *)
(* connected" may take the board offline or not.  The two waits for        *)
(* num_thread_alive() end after 40 and 90 ms whatever the threads do, so   *)
(* they may end at any time.  Windows is external: a request sets its      *)
(* event when it is over, starting one resets the event, CloseHandle on    *)
(* the board and the end of a thread cancel what is in flight.  (The       *)
(* ResetEvent calls of usb.cpp pass the address of the handle and do       *)
(* nothing.)                                                               *)
(***************************************************************************)
EXTENDS Naturals

CONSTANTS
  NumBoards,  \* boards that may be there at the scan
  MaxFaults   \* bound: I/O errors per board while it is connected

ASSUME WindowsAssumption == NumBoards \in Nat /\ MaxFaults \in Nat

\* The boards, and the teensy_t of each, in the order of the scan.
Board == 1 .. NumBoards
Sides == {"input", "output"}

VARIABLES
  plugged,  \* plugged[b]: the board is connected
  mainPc,   \* where the main thread is
  at,       \* the board usb_close is at
  heap,     \* heap[b]: "none", "live" (and in the list) or "freed"
  online,   \* online[b]
  quit,     \* quit[b][s]: input_thread_quit, output_thread_quit
  open,     \* open[b]: usb.handle and the events are not closed
  event,    \* event[b][s]: rx_event, tx_event
  io,       \* io[b][s]: the request of rx_ov, tx_ov: "none", "flight", "over"
  pc,       \* pc[b][s]: where the thread is
  faults    \* errors so far

main == <<mainPc, at, heap>>
vars == <<plugged, main, online, quit, open, event, io, pc, faults>>

TypeOK ==
  /\ plugged \in [Board -> BOOLEAN]
  /\ mainPc \in {"delete", "scan", "frame", "close", "setEvents", "wait",
                 "handles", "waitAgain", "last", "ended"}
  /\ at \in 1 .. NumBoards + 1
  /\ (mainPc = "setEvents" => at \in Board)
  /\ heap \in [Board -> {"none", "live", "freed"}]
  /\ online \in [Board -> BOOLEAN]
  /\ quit \in [Board -> [Sides -> BOOLEAN]]
  /\ open \in [Board -> BOOLEAN]
  /\ event \in [Board -> [Sides -> BOOLEAN]]
  /\ io \in [Board -> [Sides -> {"none", "flight", "over"}]]
  /\ pc \in [Board -> [Sides -> {"none", "test", "start", "pending", "wait",
                                 "returned", "ended"}]]
  /\ faults \in [Board -> 0 .. MaxFaults]

\* The first delete_offline_teensy has found an empty list.
Init ==
  /\ plugged \in [Board -> BOOLEAN]
  /\ mainPc = "scan" /\ at = 1
  /\ heap = [b \in Board |-> "none"]
  /\ online = [b \in Board |-> FALSE]
  /\ quit = [b \in Board |-> [s \in Sides |-> FALSE]]
  /\ open = [b \in Board |-> FALSE]
  /\ event = [b \in Board |-> [s \in Sides |-> FALSE]]
  /\ io = [b \in Board |-> [s \in Sides |-> "none"]]
  /\ pc = [b \in Board |-> [s \in Sides |-> "none"]]
  /\ faults = [b \in Board |-> 0]

-----------------------------------------------------------------------------
(***************************************************************************)
(* Main thread: the loop.                                                  *)
(***************************************************************************)

\* Wrong on purpose: does not wait for the input thread.
DeletableTooEarly(b) == heap[b] = "live" /\ ~online[b] /\ quit[b]["output"]

Deletable(b) == heap[b] = "live" /\ ~online[b] /\ \A s \in Sides : quit[b][s]

\* TeensyControls_delete_offline_teensy, in the loop and at the end of main.
DeleteTeensy(b) ==
  /\ mainPc \in {"delete", "last"} /\ Deletable(b)
  /\ heap' = [heap EXCEPT ![b] = "freed"]
  /\ UNCHANGED <<plugged, mainPc, at, online, quit, open, event, io, pc,
                 faults>>

\* device_scan_needed is 0 after the first turn.
DeleteDone ==
  /\ mainPc \in {"delete", "last"} /\ \A b \in Board : ~Deletable(b)
  /\ mainPc' = IF mainPc = "delete" THEN "frame" ELSE "ended"
  /\ UNCHANGED <<plugged, at, heap, online, quit, open, event, io, pc,
                 faults>>

\* TeensyControls_find_new_usb_devices: opens what is there; CreateFile,
\* malloc and each thread_start may fail.
Scan ==
  /\ mainPc = "scan"
  /\ \E found \in SUBSET {b \in Board : plugged[b]} :
     \E started \in SUBSET (found \X Sides) :
       /\ heap' = [b \in Board |-> IF b \in found THEN "live" ELSE "none"]
       /\ online' = [b \in Board |-> b \in found]
       /\ open' = [b \in Board |-> b \in found]
       /\ quit' = [b \in Board |->
                     [s \in Sides |-> b \in found /\ <<b, s>> \notin started]]
       /\ pc' = [b \in Board |->
                   [s \in Sides |-> IF <<b, s>> \in started THEN "test"
                                    ELSE "none"]]
  /\ mainPc' = "frame"
  /\ UNCHANGED <<plugged, at, event, io, faults>>

\* The rest of the loop works on what the threads have received and queues
\* what they are to send.
Frame ==
  /\ mainPc = "frame"
  /\ mainPc' = "delete"
  /\ UNCHANGED <<plugged, at, heap, online, quit, open, event, io, pc,
                 faults>>

\* quit was set: the loop ends.
LeaveLoop ==
  /\ mainPc = "frame"
  /\ mainPc' = "close"
  /\ UNCHANGED <<plugged, at, heap, online, quit, open, event, io, pc,
                 faults>>

(***************************************************************************)
(* Main thread: TeensyControls_usb_close.                                  *)
(***************************************************************************)

\* Wrong on purpose: "t->online = 0" is missing.
CloseOfflineForgotten ==
  /\ mainPc = "close" /\ at \in Board /\ heap[at] = "live" /\ online[at]
  /\ mainPc' = "setEvents"
  /\ UNCHANGED <<plugged, at, heap, online, quit, open, event, io, pc,
                 faults>>

CloseOffline ==
  /\ mainPc = "close" /\ at \in Board /\ heap[at] = "live" /\ online[at]
  /\ online' = [online EXCEPT ![at] = FALSE]
  /\ mainPc' = "setEvents"
  /\ UNCHANGED <<plugged, at, heap, quit, open, event, io, pc, faults>>

\* The events may be set while a thread is between its test of online and
\* its request, which then resets them.
SetEvents ==
  /\ mainPc = "setEvents"
  /\ event' = [event EXCEPT ![at] = [s \in Sides |-> TRUE]]
  /\ at' = at + 1
  /\ mainPc' = "close"
  /\ UNCHANGED <<plugged, heap, online, quit, open, io, pc, faults>>

\* Wrong on purpose: looks at the "next" of the last teensy_t.
SkipOfflinePastEnd ==
  /\ mainPc = "close" /\ (at \in Board => ~(heap[at] = "live" /\ online[at]))
  /\ at' = at + 1
  /\ UNCHANGED <<plugged, mainPc, heap, online, quit, open, event, io, pc,
                 faults>>

SkipOffline ==
  /\ mainPc = "close" /\ at \in Board /\ ~(heap[at] = "live" /\ online[at])
  /\ at' = at + 1
  /\ UNCHANGED <<plugged, mainPc, heap, online, quit, open, event, io, pc,
                 faults>>

CloseDone ==
  /\ mainPc = "close" /\ at \notin Board
  /\ mainPc' = "wait"
  /\ UNCHANGED <<plugged, at, heap, online, quit, open, event, io, pc,
                 faults>>

\* A wait ends when no thread is alive or after some time.
WaitEnds ==
  /\ mainPc \in {"wait", "waitAgain"}
  /\ mainPc' = IF mainPc = "wait" THEN "handles" ELSE "last"
  /\ UNCHANGED <<plugged, at, heap, online, quit, open, event, io, pc,
                 faults>>

\* Wrong on purpose: the events are closed but not the board.
CloseEventsOnly ==
  /\ mainPc = "handles"
  /\ mainPc' = "waitAgain"
  /\ UNCHANGED <<plugged, at, heap, online, quit, open, event, io, pc,
                 faults>>

\* "forcibly close everything": Windows cancels what is in flight.
CloseHandles ==
  /\ mainPc = "handles"
  /\ open' = [b \in Board |-> open[b] /\ heap[b] # "live"]
  /\ LET Cancelled(b, s) == heap[b] = "live" /\ io[b][s] = "flight"
     IN  /\ io' = [b \in Board |-> [s \in Sides |->
                     IF Cancelled(b, s) THEN "over" ELSE io[b][s]]]
         /\ event' = [b \in Board |-> [s \in Sides |->
                        event[b][s] \/ Cancelled(b, s)]]
  /\ mainPc' = "waitAgain"
  /\ UNCHANGED <<plugged, at, heap, online, quit, pc, faults>>

Main ==
  \/ DeleteDone \/ Scan \/ Frame
  \/ CloseOffline \/ SetEvents \/ SkipOffline \/ CloseDone \/ WaitEnds
  \/ CloseHandles
  \/ \E b \in Board : DeleteTeensy(b)

-----------------------------------------------------------------------------
(***************************************************************************)
(* input_thread and output_thread of board b.                              *)
(***************************************************************************)
Goto(b, s, l) == pc' = [pc EXCEPT ![b][s] = l]

\* The input thread reads at once; the output thread first fetches a packet
\* and waits when there is none.
TestOnline(b, s) ==
  /\ pc[b][s] = "test" /\ online[b]
  /\ \/ Goto(b, s, "start")
     \/ s = "output" /\ Goto(b, s, "wait")
  /\ UNCHANGED <<plugged, main, online, quit, open, event, io, faults>>

\* Not online: the quit flag is set, and then the thread returns.
Quit(b, s) ==
  /\ pc[b][s] = "test" /\ ~online[b]
  /\ quit' = [quit EXCEPT ![b][s] = TRUE]
  /\ Goto(b, s, "returned")
  /\ UNCHANGED <<plugged, main, online, open, event, io, faults>>

\* pthread_cond_wait_timeout: a signal, or a second.
WaitOver(b) ==
  /\ pc[b]["output"] = "wait"
  /\ Goto(b, "output", "test")
  /\ UNCHANGED <<plugged, main, online, quit, open, event, io, faults>>

\* ReadFile, WriteFile on a connected board: done at once, or pending.
StartIo(b, s) ==
  /\ pc[b][s] = "start" /\ open[b] /\ plugged[b]
  /\ \/ /\ Goto(b, s, "test")
        /\ event' = [event EXCEPT ![b][s] = TRUE]
        /\ io' = [io EXCEPT ![b][s] = "none"]
     \/ /\ Goto(b, s, "pending")
        /\ event' = [event EXCEPT ![b][s] = FALSE]
        /\ io' = [io EXCEPT ![b][s] = "flight"]
  /\ UNCHANGED <<plugged, main, online, quit, open, faults>>

\* Wrong on purpose: the error of a lost board is not looked at.
StartGoneIgnored(b, s) ==
  /\ pc[b][s] = "start" /\ open[b] /\ ~plugged[b]
  /\ Goto(b, s, "test")
  /\ UNCHANGED <<plugged, main, online, quit, open, event, io, faults>>

\* ERROR_DEVICE_NOT_CONNECTED
StartGone(b, s) ==
  /\ pc[b][s] = "start" /\ open[b] /\ ~plugged[b]
  /\ online' = [online EXCEPT ![b] = FALSE]
  /\ Goto(b, s, "test")
  /\ UNCHANGED <<plugged, main, quit, open, event, io, faults>>

\* Any other error: "if (++t->usb.error_count > 8) t->online = 0".
StartFails(b, s) ==
  /\ pc[b][s] = "start" /\ open[b] /\ faults[b] < MaxFaults
  /\ faults' = [faults EXCEPT ![b] = @ + 1]
  /\ \E still \in BOOLEAN : online' = [online EXCEPT ![b] = @ /\ still]
  /\ Goto(b, s, "test")
  /\ UNCHANGED <<plugged, main, quit, open, event, io>>

\* The handle was closed: an error as well, of a board taken offline before.
StartClosed(b, s) ==
  /\ pc[b][s] = "start" /\ ~open[b]
  /\ Goto(b, s, "test")
  /\ UNCHANGED <<plugged, main, online, quit, open, event, io, faults>>

\* GetOverlappedResult returns, because the request is over or because the
\* event was set all the same.  After a failure n is no error code, so the
\* board stays online.
GetOverlappedResult(b, s) ==
  /\ pc[b][s] = "pending" /\ (io[b][s] # "flight" \/ event[b][s])
  /\ io' = [io EXCEPT ![b][s] = IF @ = "over" THEN "none" ELSE @]
  /\ Goto(b, s, "test")
  /\ UNCHANGED <<plugged, main, online, quit, open, event, faults>>

\* The thread ends, and with it what it has in flight.
ThreadEnds(b, s) ==
  /\ pc[b][s] = "returned"
  /\ Goto(b, s, "ended")
  /\ io' = [io EXCEPT ![b][s] = IF @ = "flight" THEN "none" ELSE @]
  /\ UNCHANGED <<plugged, main, online, quit, open, event, faults>>

\* The steps a thread takes as soon as it can.
ThreadStep(b, s) ==
  \/ TestOnline(b, s) \/ Quit(b, s)
  \/ StartIo(b, s) \/ StartGone(b, s) \/ StartClosed(b, s)
  \/ GetOverlappedResult(b, s) \/ ThreadEnds(b, s)
  \/ s = "output" /\ WaitOver(b)

(***************************************************************************)
(* The boards (external).                                                  *)
(***************************************************************************)
Over(b, s) ==
  /\ io[b][s] = "flight"
  /\ io' = [io EXCEPT ![b][s] = "over"]
  /\ event' = [event EXCEPT ![b][s] = TRUE]
  /\ UNCHANGED <<plugged, main, online, quit, open, pc, faults>>

\* A report was transferred, or the request fails as the board is gone.
Transferred(b, s) == plugged[b] /\ Over(b, s)
TransferFails(b, s) == ~plugged[b] /\ Over(b, s)

Unplug(b) ==
  /\ plugged[b]
  /\ plugged' = [plugged EXCEPT ![b] = FALSE]
  /\ UNCHANGED <<main, online, quit, open, event, io, pc, faults>>

Next ==
  \/ Main \/ LeaveLoop
  \/ \E b \in Board :
       \/ Unplug(b)
       \/ \E s \in Sides : \/ ThreadStep(b, s) \/ StartFails(b, s)
                           \/ Transferred(b, s) \/ TransferFails(b, s)

Spec == Init /\ [][Next]_vars

(***************************************************************************)
(* Fairness: main and the threads run, a request of a board that is gone   *)
(* fails, and the output thread is given something to send again and again *)
(* (TeensyControls_output).  Nothing makes a board that is there send,     *)
(* take a report or go away, and nothing ends the loop of main.            *)
(***************************************************************************)
FairSpec ==
  /\ Spec
  /\ WF_vars(Main)
  /\ \A b \in Board, s \in Sides :
       /\ WF_vars(ThreadStep(b, s))
       /\ WF_vars(TransferFails(b, s))
       /\ SF_vars(TestOnline(b, s) /\ pc'[b][s] = "start")

-----------------------------------------------------------------------------
(***************************************************************************)
(* Properties.                                                             *)
(***************************************************************************)

\* A thread never starts a request while its last one is in flight with the
\* same OVERLAPPED and buffer: usb_close sets the events under requests that
\* go on, and only its online = 0 before keeps the threads from a next one.
OneIoAtATime ==
  \A b \in Board, s \in Sides :
    io[b][s] = "flight" => pc[b][s] # "start"

\* When delete_teensy frees a teensy_t, no thread of it runs on and no
\* request writes to its OVERLAPPED any more.  A thread that was woken by
\* usb_close sets its quit flag with its request still in flight.
NoIoAfterFree ==
  \A b \in Board : heap[b] = "freed" =>
    \A s \in Sides : /\ pc[b][s] \in {"none", "returned", "ended"}
                     /\ io[b][s] # "flight"

\* usb_close ends the threads of every board, "incredibly ugly" as it is:
\* also one that has just reset the event usb_close has set and waits for a
\* board that sends nothing.
ThreadsQuit ==
  mainPc = "close" ~>
    \A b \in Board, s \in Sides : pc[b][s] \in {"none", "ended"}

\* The teensy_t of a board that was pulled out is deleted, although a failed
\* GetOverlappedResult does not take it offline, if one of its threads was
\* started and main does not end before.
GoneIsDeleted ==
  \A b \in Board :
    /\ heap[b] = "live" /\ ~plugged[b]
    /\ \E s \in Sides : pc[b][s] # "none"
    ~> heap[b] = "freed" \/ mainPc \notin {"delete", "scan", "frame"}
=============================================================================
