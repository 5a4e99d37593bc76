-------------------------- MODULE UsbWindowsProofs --------------------------
(***************************************************************************)
(* Proofs about UsbWindows: types, OneIoAtATime and NoIoAfterFree, for any *)
(* number of boards and errors.                                            *)
(***************************************************************************)
EXTENDS UsbWindows, TLAPS

Looping == mainPc \in {"delete", "scan", "frame"}
Closed == mainPc \in {"waitAgain", "last", "ended"}
Out == {"none", "returned", "ended"}

\* Before the scan there is nothing.
BeforeScan ==
  mainPc = "scan" =>
    \A b \in Board, s \in Sides :
      heap[b] = "none" /\ pc[b][s] = "none" /\ io[b][s] = "none"

\* usb_close sets the events of a board it has taken offline.
OfflineFirst == mainPc = "setEvents" => ~online[at]

\* A thread that left its request in flight finds its board offline.
FlightIsWatched ==
  \A b \in Board, s \in Sides :
    io[b][s] = "flight" =>
      /\ pc[b][s] \in {"pending", "test", "returned"}
      /\ pc[b][s] = "test" \/ event[b][s] => ~online[b]

\* While main loops, a thread waits for each request that is in flight.
LoopWaits ==
  Looping => \A b \in Board, s \in Sides :
    io[b][s] = "flight" => pc[b][s] = "pending" /\ ~event[b][s]

\* CloseHandles leaves nothing in flight and nothing to start.
NothingAfterClose ==
  Closed => \A b \in Board : heap[b] = "live" =>
    ~open[b] /\ \A s \in Sides : io[b][s] # "flight"

\* The quit flag is the last a thread touches of its teensy_t.
QuitIsOut == \A b \in Board, s \in Sides : quit[b][s] => pc[b][s] \in Out

\* Threads and requests belong to a teensy_t that is there.
RunsOnLive ==
  \A b \in Board, s \in Sides :
    heap[b] # "live" => pc[b][s] \in Out /\ io[b][s] # "flight"

IInv ==
  /\ TypeOK /\ BeforeScan /\ OfflineFirst /\ FlightIsWatched /\ LoopWaits
  /\ NothingAfterClose /\ QuitIsOut /\ RunsOnLive

LEMMA InitInv == Init => IInv
  BY WindowsAssumption
     DEF WindowsAssumption, Init, IInv, TypeOK, BeforeScan, OfflineFirst,
         FlightIsWatched, LoopWaits, NothingAfterClose, QuitIsOut, RunsOnLive,
         Looping, Closed, Out, Board, Sides

-----------------------------------------------------------------------------
(***************************************************************************)
(* No step breaks the invariant.  The steps that need more than one look   *)
(* come first: those that offer a choice, and those that change the        *)
(* requests of all boards.                                                 *)
(***************************************************************************)
LEMMA ScanInv == IInv /\ Scan => IInv'
<1> SUFFICES ASSUME IInv, Scan
             PROVE  IInv'
  OBVIOUS
<1> USE DEF IInv, Scan
<1>1. PICK found \in SUBSET {b \in Board : plugged[b]} :
      \E started \in SUBSET (found \X Sides) :
        /\ heap' = [b \in Board |-> IF b \in found THEN "live" ELSE "none"]
        /\ online' = [b \in Board |-> b \in found]
        /\ open' = [b \in Board |-> b \in found]
        /\ quit' = [b \in Board |->
                      [s \in Sides |-> b \in found /\ <<b, s>> \notin started]]
        /\ pc' = [b \in Board |->
                    [s \in Sides |-> IF <<b, s>> \in started THEN "test"
                                     ELSE "none"]]
  OBVIOUS
<1>2. PICK started \in SUBSET (found \X Sides) :
        /\ quit' = [b \in Board |->
                      [s \in Sides |-> b \in found /\ <<b, s>> \notin started]]
        /\ pc' = [b \in Board |->
                    [s \in Sides |-> IF <<b, s>> \in started THEN "test"
                                     ELSE "none"]]
  BY <1>1
<1>3. ASSUME NEW b \in Board, NEW s \in Sides
      PROVE  /\ heap[b] = "none" /\ io'[b][s] = "none"
             /\ quit'[b][s] => pc'[b][s] = "none"
             /\ heap'[b] # "live" => pc'[b][s] = "none"
  BY <1>1, <1>2 DEF BeforeScan
<1>4. TypeOK'
  BY <1>1, <1>2 DEF TypeOK
<1>5. BeforeScan' /\ OfflineFirst' /\ NothingAfterClose'
  BY DEF BeforeScan, OfflineFirst, NothingAfterClose, Closed
<1>6. FlightIsWatched' /\ LoopWaits'
  BY <1>3 DEF FlightIsWatched, LoopWaits
<1>7. QuitIsOut' /\ RunsOnLive'
  BY <1>3 DEF QuitIsOut, RunsOnLive, Out
<1> QED
  BY <1>4, <1>5, <1>6, <1>7

LEMMA DeleteTeensyInv ==
  ASSUME NEW b \in Board, IInv, DeleteTeensy(b)
  PROVE  IInv'
<1> USE DEF IInv, DeleteTeensy
<1>1. TypeOK'
  BY DEF TypeOK, main
<1>2. BeforeScan' /\ OfflineFirst' /\ FlightIsWatched' /\ QuitIsOut'
  BY DEF BeforeScan, OfflineFirst, FlightIsWatched, QuitIsOut, TypeOK
<1>3. LoopWaits' /\ NothingAfterClose'
  BY DEF LoopWaits, NothingAfterClose, Looping, Closed, TypeOK
<1>4. ASSUME NEW s \in Sides
      PROVE  pc[b][s] \in Out /\ io[b][s] # "flight"
  <2>1. pc[b][s] \in Out
    BY DEF Deletable, QuitIsOut
  <2>2. CASE mainPc = "delete"
    BY <2>1, <2>2 DEF LoopWaits, Looping, Out
  <2>3. CASE mainPc = "last"
    BY <2>1, <2>3 DEF NothingAfterClose, Closed, Deletable
  <2> QED
    BY <2>2, <2>3
<1>5. RunsOnLive'
  BY <1>4 DEF RunsOnLive, TypeOK
<1> QED
  BY <1>1, <1>2, <1>3, <1>5

LEMMA CloseHandlesInv == IInv /\ CloseHandles => IInv'
<1> SUFFICES ASSUME IInv, CloseHandles
             PROVE  IInv'
  OBVIOUS
<1> USE DEF IInv, CloseHandles
<1>1. ASSUME NEW b \in Board, NEW s \in Sides
      PROVE  /\ io'[b][s] = IF heap[b] = "live" /\ io[b][s] = "flight"
                            THEN "over" ELSE io[b][s]
             /\ io'[b][s] # "flight" \/ event'[b][s] = event[b][s]
  BY DEF TypeOK
<1>2. TypeOK'
  <2>1. /\ io' \in [Board -> [Sides -> {"none", "flight", "over"}]]
        /\ event' \in [Board -> [Sides -> BOOLEAN]]
        /\ open' \in [Board -> BOOLEAN]
    BY DEF TypeOK
  <2> QED
    BY <2>1 DEF TypeOK
<1>3. BeforeScan' /\ OfflineFirst' /\ LoopWaits' /\ QuitIsOut'
  BY DEF BeforeScan, OfflineFirst, LoopWaits, Looping, QuitIsOut
<1>4. FlightIsWatched'
  BY <1>1 DEF FlightIsWatched
<1>5. NothingAfterClose'
  BY <1>1 DEF NothingAfterClose
<1>6. RunsOnLive'
  BY <1>1 DEF RunsOnLive
<1> QED
  BY <1>2, <1>3, <1>4, <1>5, <1>6

LEMMA TestOnlineInv ==
  ASSUME NEW b \in Board, NEW s \in Sides, IInv, TestOnline(b, s)
  PROVE  IInv'
<1> USE DEF IInv, TestOnline, Goto
<1>1. PICK l \in {"start", "wait"} : pc' = [pc EXCEPT ![b][s] = l]
  OBVIOUS
<1>2. io[b][s] # "flight"
  BY DEF FlightIsWatched
<1>3. ~quit[b][s] /\ heap[b] = "live"
  BY DEF QuitIsOut, RunsOnLive, Out
<1>4. TypeOK'
  BY <1>1 DEF TypeOK, main
<1>5. BeforeScan' /\ OfflineFirst' /\ NothingAfterClose'
  BY <1>3 DEF BeforeScan, OfflineFirst, NothingAfterClose, Closed, main
<1>6. FlightIsWatched' /\ LoopWaits' /\ QuitIsOut' /\ RunsOnLive'
  BY <1>1, <1>2, <1>3
     DEF FlightIsWatched, LoopWaits, Looping, QuitIsOut, RunsOnLive, main,
         TypeOK
<1> QED
  BY <1>4, <1>5, <1>6

LEMMA StartIoInv ==
  ASSUME NEW b \in Board, NEW s \in Sides, IInv, StartIo(b, s)
  PROVE  IInv'
<1> USE DEF IInv, StartIo, Goto
<1>1. PICK l \in {"test", "pending"} :
        /\ pc' = [pc EXCEPT ![b][s] = l]
        /\ event' = [event EXCEPT ![b][s] = (l = "test")]
        /\ io' = [io EXCEPT ![b][s] = IF l = "test" THEN "none" ELSE "flight"]
  OBVIOUS
<1>2. ~quit[b][s] /\ heap[b] = "live" /\ mainPc # "scan"
  BY DEF QuitIsOut, RunsOnLive, Out, BeforeScan
<1>3. ~Closed
  BY <1>2 DEF NothingAfterClose
<1>4. TypeOK'
  BY <1>1 DEF TypeOK, main
<1>5. BeforeScan' /\ OfflineFirst' /\ NothingAfterClose'
  BY <1>2, <1>3 DEF BeforeScan, OfflineFirst, NothingAfterClose, Closed, main
<1>6. FlightIsWatched' /\ LoopWaits' /\ QuitIsOut' /\ RunsOnLive'
  BY <1>1, <1>2
     DEF FlightIsWatched, LoopWaits, Looping, QuitIsOut, RunsOnLive, main,
         TypeOK
<1> QED
  BY <1>4, <1>5, <1>6


\* The other steps, and the stutter.
PlainMain ==
  DeleteDone \/ Frame \/ LeaveLoop \/ CloseOffline \/ SetEvents
  \/ SkipOffline \/ CloseDone \/ WaitEnds
PlainThread(b, s) ==
  Quit(b, s) \/ StartGone(b, s) \/ StartFails(b, s) \/ StartClosed(b, s)
  \/ GetOverlappedResult(b, s) \/ ThreadEnds(b, s) \/ Over(b, s)

LEMMA PlainInv ==
  ASSUME IInv,
         \/ PlainMain \/ UNCHANGED vars
         \/ \E b \in Board : \/ Unplug(b) \/ WaitOver(b)
                            \/ \E s \in Sides : PlainThread(b, s)
  PROVE  IInv'
<1> USE WindowsAssumption
    DEF WindowsAssumption, IInv, TypeOK, BeforeScan, OfflineFirst,
        FlightIsWatched, LoopWaits, NothingAfterClose, QuitIsOut, RunsOnLive,
        Looping, Closed, Out, Board, Sides, main, Goto
<1>1. CASE DeleteDone
  <2>1. TypeOK'
    BY <1>1 DEF DeleteDone
  <2>2. BeforeScan' /\ OfflineFirst' /\ QuitIsOut' /\ RunsOnLive'
    BY <1>1 DEF DeleteDone
  <2>3. FlightIsWatched' /\ LoopWaits' /\ NothingAfterClose'
    BY <1>1 DEF DeleteDone
  <2> QED
    BY <2>1, <2>2, <2>3
<1>2. CASE Frame
  BY <1>2 DEF Frame
<1>3. CASE LeaveLoop
  BY <1>3 DEF LeaveLoop
<1>4. CASE CloseOffline
  BY <1>4 DEF CloseOffline
<1>5. CASE SetEvents
  BY <1>5 DEF SetEvents
<1>6. CASE SkipOffline
  BY <1>6 DEF SkipOffline
<1>7. CASE CloseDone
  BY <1>7 DEF CloseDone
<1>8. CASE WaitEnds
  BY <1>8 DEF WaitEnds
<1>9. ASSUME NEW b \in Board, Unplug(b)
      PROVE  IInv'
  <2>1. TypeOK'
    BY <1>9 DEF Unplug
  <2>2. BeforeScan' /\ OfflineFirst' /\ QuitIsOut' /\ RunsOnLive'
    BY <1>9 DEF Unplug
  <2>3. FlightIsWatched' /\ LoopWaits' /\ NothingAfterClose'
    BY <1>9 DEF Unplug
  <2> QED
    BY <2>1, <2>2, <2>3
<1>10. ASSUME NEW b \in Board, WaitOver(b)
      PROVE  IInv'
  <2>1. TypeOK'
    BY <1>10 DEF WaitOver
  <2>2. BeforeScan' /\ OfflineFirst' /\ QuitIsOut' /\ RunsOnLive'
    BY <1>10 DEF WaitOver
  <2>3. FlightIsWatched' /\ LoopWaits' /\ NothingAfterClose'
    BY <1>10 DEF WaitOver
  <2> QED
    BY <2>1, <2>2, <2>3
<1>11. ASSUME NEW b \in Board, NEW s \in Sides, Quit(b, s)
      PROVE  IInv'
  <2>1. TypeOK'
    BY <1>11 DEF Quit
  <2>2. BeforeScan' /\ OfflineFirst' /\ QuitIsOut' /\ RunsOnLive'
    BY <1>11 DEF Quit
  <2>3. FlightIsWatched' /\ LoopWaits' /\ NothingAfterClose'
    BY <1>11 DEF Quit
  <2> QED
    BY <2>1, <2>2, <2>3
<1>12. ASSUME NEW b \in Board, NEW s \in Sides, StartGone(b, s)
      PROVE  IInv'
  <2>1. TypeOK'
    BY <1>12 DEF StartGone
  <2>2. BeforeScan' /\ OfflineFirst' /\ QuitIsOut' /\ RunsOnLive'
    BY <1>12 DEF StartGone
  <2>3. FlightIsWatched' /\ LoopWaits' /\ NothingAfterClose'
    BY <1>12 DEF StartGone
  <2> QED
    BY <2>1, <2>2, <2>3
<1>13. ASSUME NEW b \in Board, NEW s \in Sides, StartFails(b, s)
      PROVE  IInv'
  <2>1. TypeOK'
    BY <1>13 DEF StartFails
  <2>2. BeforeScan' /\ OfflineFirst' /\ QuitIsOut' /\ RunsOnLive'
    BY <1>13 DEF StartFails
  <2>3. FlightIsWatched' /\ LoopWaits' /\ NothingAfterClose'
    BY <1>13 DEF StartFails
  <2> QED
    BY <2>1, <2>2, <2>3
<1>14. ASSUME NEW b \in Board, NEW s \in Sides, StartClosed(b, s)
      PROVE  IInv'
  <2>1. TypeOK'
    BY <1>14 DEF StartClosed
  <2>2. BeforeScan' /\ OfflineFirst' /\ QuitIsOut' /\ RunsOnLive'
    BY <1>14 DEF StartClosed
  <2>3. FlightIsWatched' /\ LoopWaits' /\ NothingAfterClose'
    BY <1>14 DEF StartClosed
  <2> QED
    BY <2>1, <2>2, <2>3
<1>15. ASSUME NEW b \in Board, NEW s \in Sides, GetOverlappedResult(b, s)
      PROVE  IInv'
  <2>1. TypeOK'
    BY <1>15 DEF GetOverlappedResult
  <2>2. BeforeScan' /\ OfflineFirst' /\ QuitIsOut' /\ RunsOnLive'
    BY <1>15 DEF GetOverlappedResult
  <2>3. FlightIsWatched' /\ LoopWaits' /\ NothingAfterClose'
    BY <1>15 DEF GetOverlappedResult
  <2> QED
    BY <2>1, <2>2, <2>3
<1>16. ASSUME NEW b \in Board, NEW s \in Sides, ThreadEnds(b, s)
      PROVE  IInv'
  <2>1. TypeOK'
    BY <1>16 DEF ThreadEnds
  <2>2. BeforeScan' /\ OfflineFirst' /\ QuitIsOut' /\ RunsOnLive'
    BY <1>16 DEF ThreadEnds
  <2>3. FlightIsWatched' /\ LoopWaits' /\ NothingAfterClose'
    BY <1>16 DEF ThreadEnds
  <2> QED
    BY <2>1, <2>2, <2>3
<1>17. ASSUME NEW b \in Board, NEW s \in Sides, Over(b, s)
      PROVE  IInv'
  <2>1. TypeOK'
    BY <1>17 DEF Over
  <2>2. BeforeScan' /\ OfflineFirst' /\ QuitIsOut' /\ RunsOnLive'
    BY <1>17 DEF Over
  <2>3. FlightIsWatched' /\ LoopWaits' /\ NothingAfterClose'
    BY <1>17 DEF Over
  <2> QED
    BY <2>1, <2>2, <2>3
<1>18. CASE UNCHANGED vars
  BY <1>18 DEF vars
<1> HIDE DEF IInv
<1> QED
  BY <1>1, <1>2, <1>3, <1>4, <1>5, <1>6, <1>7, <1>8, <1>9, <1>10,
     <1>11, <1>12, <1>13, <1>14, <1>15, <1>16, <1>17, <1>18
     DEF PlainMain, PlainThread

LEMMA StepInv == IInv /\ [Next]_vars => IInv'
  BY PlainInv, ScanInv, DeleteTeensyInv, CloseHandlesInv, TestOnlineInv,
     StartIoInv
     DEF Next, Main, PlainMain, ThreadStep, PlainThread, Transferred,
         TransferFails

-----------------------------------------------------------------------------
(***************************************************************************)
(* The theorems.                                                           *)
(***************************************************************************)
LEMMA Invariant == Spec => []IInv
  BY InitInv, StepInv, PTL DEF Spec

\* Every variable keeps its type, for any number of boards: usb_close never
\* walks past the end of the list.
THEOREM TypeCorrect == Spec => []TypeOK
<1>1. IInv => TypeOK
  BY DEF IInv
<1> QED
  BY <1>1, Invariant, PTL

\* No request is started while the last one of the thread is in flight, also
\* when usb_close has set the events under it (usb.cpp, input_thread and
\* output_thread).
THEOREM OneRequest == Spec => []OneIoAtATime
<1>1. IInv => OneIoAtATime
  BY DEF IInv, OneIoAtATime, FlightIsWatched
<1> QED
  BY <1>1, Invariant, PTL

\* delete_teensy frees nothing a thread or a request of Windows still uses.
THEOREM FreedIsUnused == Spec => []NoIoAfterFree
<1>1. IInv => NoIoAfterFree
  BY DEF IInv, NoIoAfterFree, RunsOnLive, Out
<1> QED
  BY <1>1, Invariant, PTL
=============================================================================
