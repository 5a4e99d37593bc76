--------------------------- MODULE WinOutputPath ---------------------------
(***************************************************************************)
(* OutputPath as the Windows build runs it.  Windows (before Vista) has no *)
(* condition variable; thread.cpp makes one from a counter of waiters,     *)
(* which has a lock of its own, and an auto-reset event.  The wait is no   *)
(* longer atomic: the output thread announces itself, counts itself,       *)
(* releases output_mutex and only then waits for the event, and a signal   *)
(* first looks at the counter and sets the event later.  An event set too  *)
(* late stays set and ends the next wait at once.                          *)
(*                                                                         *)
(* A critical section on cv->lock is one access to count and is one step.  *)
(***************************************************************************)
EXTENDS OutputPath

VARIABLES
  count,  \* cv->count, the number of waiters
  event   \* cv->event, an auto-reset event

cv == <<count, event>>
winVars == <<vars, cv>>

WinTypeOK ==
  /\ ring \in Ring
  /\ mutex \in {"free", "main", "out"}
  /\ waiting \in BOOLEAN
  /\ online \in BOOLEAN
  /\ mainPc \in MainPcs \cup {"setEvent", "closeSet"}
  /\ mainPkt \in Packet \cup {NoPacket}
  /\ outPc \in (OutPcs \ {"blocked"})
               \cup {"enroll", "release", "object", "unenroll"}
  /\ outPkt \in Packet \cup {NoPacket}
  /\ count \in {0, 1}
  /\ event \in BOOLEAN

\* pthread_cond_init: no waiters, the event not signalled.
WinInit == Init /\ count = 0 /\ event = FALSE

-----------------------------------------------------------------------------
(***************************************************************************)
(* pthread_cond_signal, called by output_store and by usb_close.           *)
(***************************************************************************)

\* Wrong on purpose: "cv->count > 1".
SignalSeesWaiterOffByOne == count > 1

\* have_waiters
SignalSeesWaiter == count > 0

TestSignal ==
  /\ mainPc = "signal"
  /\ mainPc' = IF waiting /\ SignalSeesWaiter THEN "setEvent" ELSE "unlock"
  /\ UNCHANGED <<ring, mutex, waiting, online, mainPkt, outPc, outPkt, cv>>

TestCloseSignal ==
  /\ mainPc = "closing"
  /\ mainPc' = IF SignalSeesWaiter THEN "closeSet" ELSE "closed"
  /\ UNCHANGED <<ring, mutex, waiting, online, mainPkt, outPc, outPkt, cv>>

SetEvent ==
  /\ mainPc \in {"setEvent", "closeSet"}
  /\ event' = TRUE
  /\ mainPc' = IF mainPc = "setEvent" THEN "unlock" ELSE "closed"
  /\ UNCHANGED <<ring, mutex, waiting, online, mainPkt, outPc, outPkt, count>>

-----------------------------------------------------------------------------
(***************************************************************************)
(* pthread_cond_wait_timeout, called by output_thread.                     *)
(***************************************************************************)

\* Wrong on purpose: releases output_mutex before the waiter is counted.
AnnounceWaitUnlocked ==
  /\ outPc = "testing" /\ IsEmpty(ring)
  /\ waiting' = TRUE
  /\ mutex' = "free"
  /\ outPc' = "enroll"
  /\ UNCHANGED <<ring, online, mainPc, mainPkt, outPkt, cv>>

\* output_thread_waiting = 1, before the call.
AnnounceWait ==
  /\ outPc = "testing" /\ IsEmpty(ring)
  /\ waiting' = TRUE
  /\ outPc' = "enroll"
  /\ UNCHANGED <<ring, mutex, online, mainPc, mainPkt, outPkt, cv>>

EnrollWaiter ==
  /\ outPc = "enroll"
  /\ count' = count + 1
  /\ outPc' = "release"
  /\ UNCHANGED <<ring, mutex, waiting, online, mainPc, mainPkt, outPkt, event>>

ReleaseMutex ==
  /\ outPc = "release"
  /\ mutex' = "free"
  /\ outPc' = "object"
  /\ UNCHANGED <<ring, waiting, online, mainPc, mainPkt, outPkt, cv>>

\* WaitForSingleObject finds the event set and resets it.
ConsumeEvent ==
  /\ outPc = "object" /\ event
  /\ event' = FALSE
  /\ outPc' = "unenroll"
  /\ UNCHANGED <<ring, mutex, waiting, online, mainPc, mainPkt, outPkt, count>>

\* WaitForSingleObject returns WAIT_TIMEOUT.
ObjectTimeout ==
  /\ outPc = "object" /\ ~event
  /\ outPc' = "unenroll"
  /\ UNCHANGED <<ring, mutex, waiting, online, mainPc, mainPkt, outPkt, cv>>

\* Wrong on purpose: "cv->count--" forgotten.
UnenrollForgotten ==
  /\ outPc = "unenroll"
  /\ outPc' = "relock"
  /\ UNCHANGED <<ring, mutex, waiting, online, mainPc, mainPkt, outPkt, cv>>

UnenrollWaiter ==
  /\ outPc = "unenroll"
  /\ count' = count - 1
  /\ outPc' = "relock"
  /\ UNCHANGED <<ring, mutex, waiting, online, mainPc, mainPkt, outPkt, event>>

-----------------------------------------------------------------------------
\* What the emulation does not touch is as in OutputPath.
SameMain ==
  /\ \/ \E p \in Packet : StoreLock(p)
     \/ StorePacket \/ StoreUnlock \/ CloseOffline \/ CloseAlreadyOffline
  /\ UNCHANGED cv

SameOutput ==
  /\ \/ LoopTop \/ FetchLock \/ FetchPacket \/ CheckOnline
     \/ WriteReturns \/ WriteOffline \/ WaitLock \/ WaitNotNeeded
     \/ Relock \/ WakeDone
  /\ UNCHANGED cv

WinOutputStep ==
  \/ SameOutput
  \/ AnnounceWait \/ EnrollWaiter \/ ReleaseMutex
  \/ ConsumeEvent \/ UnenrollWaiter

WinMainSteps ==
  \/ (StorePacket \/ StoreUnlock) /\ UNCHANGED cv
  \/ TestSignal \/ TestCloseSignal \/ SetEvent

WinNext ==
  \/ SameMain \/ TestSignal \/ TestCloseSignal \/ SetEvent
  \/ WinOutputStep \/ ObjectTimeout
  \/ (InputOffline \/ Finished) /\ UNCHANGED cv

WinSpec == WinInit /\ [][WinNext]_winVars

\* As in OutputPath; SetEvent and the event are part of the threads' steps.
WinFairSpec ==
  /\ WinSpec
  /\ WF_winVars(WinMainSteps)
  /\ WF_winVars(WinOutputStep)
  /\ SF_winVars(FetchLock /\ UNCHANGED cv)
  /\ SF_winVars(WaitLock /\ UNCHANGED cv)
  /\ SF_winVars(Relock /\ UNCHANGED cv)

-----------------------------------------------------------------------------
(***************************************************************************)
(* The emulation implements the POSIX condition variable: the output       *)
(* thread counts as asleep from the release of output_mutex until the      *)
(* event is set or the time-out expires, and a signal counts as sent when  *)
(* the event is set.  A stale event is a spurious wakeup.                  *)
(***************************************************************************)
PosixOutPc ==
  CASE outPc \in {"enroll", "release"} -> "testing"
    [] outPc = "object"   -> IF event THEN "relock" ELSE "blocked"
    [] outPc = "unenroll" -> "relock"
    [] OTHER -> outPc

PosixMainPc ==
  CASE mainPc = "setEvent" -> "signal"
    [] mainPc = "closeSet" -> "closing"
    [] OTHER -> mainPc

Posix == INSTANCE OutputPath
           WITH waiting <- waiting /\ outPc \notin {"enroll", "release"},
                outPc <- PosixOutPc,
                mainPc <- PosixMainPc

\* Every behaviour of the emulated condition variable is one the POSIX
\* condition variable allows, so what holds of OutputPath holds of the
\* Windows build (thread.cpp: pthread_cond_wait_timeout and _signal).
ImplementsPosix == Posix!Spec

\* Between the release of output_mutex and WaitForSingleObject a signal is
\* not lost: a stored packet is fetched without the help of a time-out.
WinStoredIsFetched ==
  ~IsEmpty(ring) /\ online ~> outPc = "check" \/ ~online

\* cv->count says who can be woken: a signal that skips SetEvent because it
\* saw no waiter never leaves the output thread asleep over a packet.
WinNoLostWakeup ==
  outPc = "object" /\ ~event /\ ~IsEmpty(ring)
    => mainPc \in {"signal", "setEvent"}
=============================================================================
