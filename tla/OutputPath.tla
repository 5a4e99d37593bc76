----------------------------- MODULE OutputPath -----------------------------
(***************************************************************************)
(* The way out: the main thread stores 64-byte packets in the output ring  *)
(* of a teensy_t (TeensyControls_output_store) and the output thread of    *)
(* that teensy_t fetches and writes them to the device.  The two share the *)
(* ring and output_thread_waiting under output_mutex, the condition        *)
(* variable output_event, and the unprotected flag online.                 *)
(*                                                                         *)
(* This is the Linux build: output_event is a POSIX condition variable.    *)
(* WinOutputPath refines it with the emulation the Windows build uses.     *)
(*                                                                         *)
(* error_count is abstracted: a failed write is either tolerated or takes  *)
(* the device offline, whatever the count is (the input thread changes the *)
(* count too, without a lock).                                             *)
(***************************************************************************)
EXTENDS PacketRing

VARIABLES
  ring,     \* output_head, output_tail, output_buffer
  mutex,    \* holder of output_mutex
  waiting,  \* output_thread_waiting
  online,   \* teensy_t.online
  mainPc,   \* where the main thread is in output_store or usb_close
  mainPkt,  \* the packet output_store was called with
  outPc,    \* where the output thread is
  outPkt    \* buf of the output thread: the packet fetched last

vars == <<ring, mutex, waiting, online, mainPc, mainPkt, outPc, outPkt>>

MainPcs == {"idle", "store", "signal", "unlock", "closing", "closed"}
OutPcs  == {"top", "fetch", "fetching", "check", "write",
            "wait", "testing", "blocked", "relock", "woken", "quit"}

TypeOK ==
  /\ ring \in Ring
  /\ mutex \in {"free", "main", "out"}
  /\ waiting \in BOOLEAN
  /\ online \in BOOLEAN
  /\ mainPc \in MainPcs
  /\ mainPkt \in Packet \cup {NoPacket}
  /\ outPc \in OutPcs
  /\ outPkt \in Packet \cup {NoPacket}

\* A teensy_t just created, its output thread just started.
Init ==
  /\ ring = EmptyRing
  /\ mutex = "free"
  /\ waiting = FALSE
  /\ online = TRUE
  /\ mainPc = "idle"
  /\ mainPkt = NoPacket
  /\ outPc = "top"
  /\ outPkt = NoPacket

-----------------------------------------------------------------------------
(***************************************************************************)
(* Main thread: TeensyControls_output_store.                               *)
(***************************************************************************)

StoreLock(p) ==
  /\ mainPc = "idle" /\ mutex = "free"
  /\ mutex' = "main"
  /\ mainPkt' = p
  /\ mainPc' = "store"
  /\ UNCHANGED <<ring, waiting, online, outPc, outPkt>>

StorePacket ==
  /\ mainPc = "store"
  /\ ring' = StoreRing(ring, mainPkt)
  /\ mainPc' = "signal"
  /\ UNCHANGED <<mutex, waiting, online, mainPkt, outPc, outPkt>>

\* pthread_cond_signal: wakes the output thread if it sleeps on the event,
\* is forgotten otherwise.
WakeOutput == outPc' = IF outPc = "blocked" THEN "relock" ELSE outPc

StoreSignal ==
  /\ mainPc = "signal"
  /\ IF waiting THEN WakeOutput ELSE outPc' = outPc
  /\ mainPc' = "unlock"
  /\ UNCHANGED <<ring, mutex, waiting, online, mainPkt, outPkt>>

StoreUnlock ==
  /\ mainPc = "unlock"
  /\ mutex' = "free"
  /\ mainPc' = "idle"
  /\ UNCHANGED <<ring, waiting, online, mainPkt, outPc, outPkt>>

(***************************************************************************)
(* Main thread: TeensyControls_usb_close, after which it stores no more.   *)
(* The signal is sent without the mutex.  Only fs2020.cpp sets quit, so    *)
(* the Pi program has this function and never reaches it.                  *)
(***************************************************************************)

CloseOffline ==
  /\ mainPc = "idle" /\ online
  /\ online' = FALSE
  /\ mainPc' = "closing"
  /\ UNCHANGED <<ring, mutex, waiting, mainPkt, outPc, outPkt>>

CloseSignal ==
  /\ mainPc = "closing"
  /\ WakeOutput
  /\ mainPc' = "closed"
  /\ UNCHANGED <<ring, mutex, waiting, online, mainPkt, outPkt>>

\* A device that is already offline is left alone.
CloseAlreadyOffline ==
  /\ mainPc = "idle" /\ ~online
  /\ mainPc' = "closed"
  /\ UNCHANGED <<ring, mutex, waiting, online, mainPkt, outPc, outPkt>>

\* The input thread finds the device gone and clears online; it signals
\* nobody.
InputOffline ==
  /\ online
  /\ online' = FALSE
  /\ UNCHANGED <<ring, mutex, waiting, mainPc, mainPkt, outPc, outPkt>>

-----------------------------------------------------------------------------
(***************************************************************************)
(* Output thread.                                                          *)
(***************************************************************************)

\* Wrong on purpose: "while (1)" without the test of online.
LoopTopForever ==
  /\ outPc = "top"
  /\ outPc' = "fetch"
  /\ UNCHANGED <<ring, mutex, waiting, online, mainPc, mainPkt, outPkt>>

LoopTop ==
  /\ outPc = "top"
  /\ outPc' = IF online THEN "fetch" ELSE "quit"
  /\ UNCHANGED <<ring, mutex, waiting, online, mainPc, mainPkt, outPkt>>

FetchLock ==
  /\ outPc = "fetch" /\ mutex = "free"
  /\ mutex' = "out"
  /\ outPc' = "fetching"
  /\ UNCHANGED <<ring, waiting, online, mainPc, mainPkt, outPkt>>

\* TeensyControls_output_fetch with the mutex held, and its unlock.
FetchPacket ==
  /\ outPc = "fetching"
  /\ IF IsEmpty(ring)
     THEN /\ outPc' = "wait"
          /\ UNCHANGED <<ring, outPkt>>
     ELSE /\ outPc' = "check"
          /\ outPkt' = Fetched(ring)
          /\ ring' = FetchRing(ring)
  /\ mutex' = "free"
  /\ UNCHANGED <<waiting, online, mainPc, mainPkt>>

\* "&& t->online": a packet fetched after the device went offline is
\* thrown away and the thread goes on to the waiting branch.
CheckOnline ==
  /\ outPc = "check"
  /\ outPc' = IF online THEN "write" ELSE "wait"
  /\ UNCHANGED <<ring, mutex, waiting, online, mainPc, mainPkt, outPkt>>

\* Written, or failed in a way that is tolerated (the packet is then lost).
WriteReturns ==
  /\ outPc = "write"
  /\ outPc' = "top"
  /\ UNCHANGED <<ring, mutex, waiting, online, mainPc, mainPkt, outPkt>>

\* ENODEV, or one error too many.
WriteOffline ==
  /\ outPc = "write"
  /\ online' = FALSE
  /\ outPc' = "top"
  /\ UNCHANGED <<ring, mutex, waiting, mainPc, mainPkt, outPkt>>

WaitLock ==
  /\ outPc = "wait" /\ mutex = "free"
  /\ mutex' = "out"
  /\ outPc' = "testing"
  /\ UNCHANGED <<ring, waiting, online, mainPc, mainPkt, outPkt>>

\* Wrong on purpose: sleeps without looking at the ring again.
WaitSleepUntested ==
  /\ outPc = "testing"
  /\ waiting' = TRUE
  /\ mutex' = "free"
  /\ outPc' \in {"blocked", "relock"}
  /\ UNCHANGED <<ring, online, mainPc, mainPkt, outPkt>>

\* Wrong on purpose: sleeps without announcing it.
WaitSleepUnannounced ==
  /\ outPc = "testing" /\ IsEmpty(ring)
  /\ mutex' = "free"
  /\ outPc' \in {"blocked", "relock"}
  /\ UNCHANGED <<ring, waiting, online, mainPc, mainPkt, outPkt>>

\* Nothing to send: output_thread_waiting is set and pthread_cond_timedwait
\* releases the mutex and sleeps, or wakes at once (POSIX allows spurious
\* wakeups).
WaitSleep ==
  /\ outPc = "testing" /\ IsEmpty(ring)
  /\ waiting' = TRUE
  /\ mutex' = "free"
  /\ outPc' \in {"blocked", "relock"}
  /\ UNCHANGED <<ring, online, mainPc, mainPkt, outPkt>>

\* A packet came in between the fetch and the lock.
WaitNotNeeded ==
  /\ outPc = "testing" /\ ~IsEmpty(ring)
  /\ mutex' = "free"
  /\ outPc' = "top"
  /\ UNCHANGED <<ring, waiting, online, mainPc, mainPkt, outPkt>>

\* One second has passed, or a spurious wakeup.
WaitTimeout ==
  /\ outPc = "blocked"
  /\ outPc' = "relock"
  /\ UNCHANGED <<ring, mutex, waiting, online, mainPc, mainPkt, outPkt>>

\* pthread_cond_timedwait takes the mutex again before it returns.
Relock ==
  /\ outPc = "relock" /\ mutex = "free"
  /\ mutex' = "out"
  /\ outPc' = "woken"
  /\ UNCHANGED <<ring, waiting, online, mainPc, mainPkt, outPkt>>

WakeDone ==
  /\ outPc = "woken"
  /\ waiting' = FALSE
  /\ mutex' = "free"
  /\ outPc' = "top"
  /\ UNCHANGED <<ring, online, mainPc, mainPkt, outPkt>>

\* usb_close is over and the output thread has quit: nothing more to do.
Finished ==
  /\ mainPc = "closed" /\ outPc = "quit"
  /\ UNCHANGED vars

-----------------------------------------------------------------------------
Main ==
  \/ \E p \in Packet : StoreLock(p)
  \/ StorePacket \/ StoreSignal \/ StoreUnlock
  \/ CloseOffline \/ CloseSignal \/ CloseAlreadyOffline

\* What the output thread does by itself, without the time-out.
OutputStep ==
  \/ LoopTop
  \/ FetchLock \/ FetchPacket \/ CheckOnline
  \/ WriteReturns \/ WriteOffline
  \/ WaitLock \/ WaitSleep \/ WaitNotNeeded
  \/ Relock \/ WakeDone

Next == Main \/ OutputStep \/ WaitTimeout \/ InputOffline \/ Finished

Spec == Init /\ [][Next]_vars

(***************************************************************************)
(* Fairness.  A thread that is inside a function keeps running and write   *)
(* returns.  Locks need strong fairness: the main thread takes the mutex   *)
(* again and again, but sleeps 30 ms between two frames, so a thread that  *)
(* waits for the mutex gets it.  Nothing makes the main thread store, and  *)
(* nothing makes the device fail.                                          *)
(***************************************************************************)
Fairness ==
  /\ WF_vars(StorePacket \/ StoreSignal \/ StoreUnlock \/ CloseSignal)
  /\ WF_vars(OutputStep)
  /\ SF_vars(FetchLock)
  /\ SF_vars(WaitLock)
  /\ SF_vars(Relock)

\* No progress is owed to the one-second time-out.
FairSpec == Spec /\ Fairness

-----------------------------------------------------------------------------
(***************************************************************************)
(* Properties.                                                             *)
(***************************************************************************)

\* The output thread never sleeps over a packet: while it is blocked on
\* output_event a packet can be in the ring only because output_store has
\* just put it there and is about to signal (usb.cpp output_thread tests the
\* ring and starts to wait under the mutex that output_store holds from the
\* store to the signal).
NoLostWakeup ==
  outPc = "blocked" /\ ~IsEmpty(ring) => mainPc = "signal"

\* output_store loses a packet silently; it may do so only when Capacity
\* packets are waiting, never one packet early.
DropsOnlyAtCapacity ==
  [][mainPc = "store" /\ mainPc' = "signal" /\ ring' = ring
       => Len(Contents(ring)) = Capacity]_vars

\* The ring between the two threads is a first-in first-out queue of
\* BufSize - 1 packets: none is overwritten, skipped, fetched twice or
\* reordered by the wrap-around.
Queue == INSTANCE BoundedQueue
           WITH queue <- Contents(ring), taken <- outPkt
QueueSpec == Queue!Spec

\* A packet in the ring is fetched although no time-out helps the output
\* thread: the signal alone is enough, unless the device goes offline.
StoredIsFetched ==
  ~IsEmpty(ring) /\ online ~> outPc = "check" \/ ~online

\* When the device goes offline the output thread quits (so the teensy_t can
\* be deleted), whoever cleared online and whether or not he signalled: for
\* this it needs the time-out to expire.
QuitsWhenOffline ==
  WF_vars(WaitTimeout) => (~online ~> outPc = "quit")
=============================================================================
