-------------------------- MODULE OutputPathProofs --------------------------
(***************************************************************************)
(* Proofs about PacketRing, OutputPath and WinOutputPath, for every set of *)
(* packets and every buffer size: the ring is a first-in first-out queue,  *)
(* and in both builds its types hold and no wakeup is lost; the condition  *)
(* variable the Windows build emulates implements the POSIX one.           *)
(***************************************************************************)
EXTENDS WinOutputPath, SequenceTheorems, TLAPS

-----------------------------------------------------------------------------
(***************************************************************************)
(* The operators of PacketRing: a store appends to the contents of the     *)
(* ring, a fetch takes their head.                                         *)
(***************************************************************************)

Slots == Packet \cup {NoPacket}

\* The next index is an index, and a different one unless there is only one.
LEMMA AdvanceIndex ==
  ASSUME NEW i \in Index
  PROVE  /\ Advance(i) \in Index
         /\ BufSize > 1 => Advance(i) # i
BY BufSizeAssumption DEF Index, Advance

\* The initial ring is a ring (TeensyControls_new_teensy).
LEMMA EmptyRingType == EmptyRing \in Ring /\ IsEmpty(EmptyRing)
BY BufSizeAssumption DEF EmptyRing, Ring, Index, IsEmpty

\* Storing keeps the indices in range (TeensyControls_output_store).
LEMMA StoreRingType ==
  ASSUME NEW r \in Ring, NEW p \in Slots
  PROVE  StoreRing(r, p) \in Ring
BY AdvanceIndex DEF StoreRing, Ring, Slots

\* So does fetching (TeensyControls_output_fetch).
LEMMA FetchRingType ==
  ASSUME NEW r \in Ring
  PROVE  FetchRing(r) \in Ring /\ Fetched(r) \in Slots
BY AdvanceIndex DEF FetchRing, Fetched, Ring, Slots

\* A ring holds at most Capacity packets; "empty" and "full" are the tests
\* on head and tail that the code makes.
LEMMA OccupiedBounds ==
  ASSUME NEW r \in Ring
  PROVE  /\ Occupied(r) \in 0 .. Capacity
         /\ IsEmpty(r) <=> Occupied(r) = 0
         /\ IsFull(r) <=> Occupied(r) = Capacity
<1>1. r.head \in Index /\ r.tail \in Index
  BY DEF Ring
<1> QED
  BY <1>1, BufSizeAssumption
  DEF Index, Advance, IsEmpty, IsFull, Occupied, Capacity

\* The slots of the contents are slots of the buffer.
LEMMA SlotOfIndex ==
  ASSUME NEW r \in Ring, NEW k \in 1 .. Occupied(r)
  PROVE  SlotOf(r, k) \in Index
<1>1. r.head \in Index /\ r.tail \in Index
  BY DEF Ring
<1> QED
  BY <1>1, OccupiedBounds, BufSizeAssumption
  DEF Index, SlotOf, Capacity

\* What a ring holds is a sequence of as many packets as are Occupied.
LEMMA ContentsType ==
  ASSUME NEW r \in Ring
  PROVE  /\ Contents(r) \in Seq(Slots)
         /\ Len(Contents(r)) = Occupied(r)
         /\ \A k \in 1 .. Occupied(r) : Contents(r)[k] = r.slot[SlotOf(r, k)]
<1>1. Occupied(r) \in Nat
  BY OccupiedBounds, BufSizeAssumption DEF Capacity
<1>2. \A k \in 1 .. Occupied(r) : r.slot[SlotOf(r, k)] \in Slots
  BY SlotOfIndex DEF Ring, Slots
<1>3. Contents(r) \in [1 .. Occupied(r) -> Slots]
  BY <1>2 DEF Contents
<1>4. Contents(r) \in Seq(Slots)
  BY <1>1, <1>3, SeqDef
<1>5. Len(Contents(r)) = Occupied(r)
  BY <1>1, <1>3, <1>4, LenProperties
<1> QED
  BY <1>4, <1>5 DEF Contents

\* A store into a ring that is not full appends the packet: nothing stored
\* before is overwritten or moved.
LEMMA StoreAppends ==
  ASSUME NEW r \in Ring, NEW p \in Slots, ~IsFull(r)
  PROVE  Contents(StoreRing(r, p)) = Append(Contents(r), p)
<1> DEFINE s == StoreRing(r, p)
           n == Occupied(r)
<1>1. s \in Ring
  BY StoreRingType
<1>2. /\ s.head = Advance(r.head) /\ s.tail = r.tail
      /\ s.slot = [r.slot EXCEPT ![Advance(r.head)] = p]
  BY DEF StoreRing, Ring
<1>3. r.head \in Index /\ r.tail \in Index /\ Advance(r.head) \in Index
  BY AdvanceIndex DEF Ring
<1>4. n \in Nat /\ Occupied(s) = n + 1
  BY <1>2, <1>3, OccupiedBounds, BufSizeAssumption
  DEF Index, Advance, IsFull, Occupied, Capacity
<1>5. /\ SlotOf(s, n + 1) = Advance(r.head)
      /\ \A k \in 1 .. n : SlotOf(s, k) = SlotOf(r, k)
                           /\ SlotOf(r, k) # Advance(r.head)
  <2>1. SlotOf(s, n + 1) = Advance(r.head)
    BY <1>2, <1>3, BufSizeAssumption
    DEF Index, Advance, IsFull, Occupied, SlotOf
  <2>2. ASSUME NEW k \in 1 .. n
        PROVE  SlotOf(s, k) = SlotOf(r, k) /\ SlotOf(r, k) # Advance(r.head)
    BY <1>2, <1>3, BufSizeAssumption
    DEF Index, Advance, IsFull, Occupied, SlotOf
  <2> QED
    BY <2>1, <2>2
<1>6. /\ Contents(s) \in Seq(Slots) /\ Len(Contents(s)) = n + 1
      /\ \A k \in 1 .. n + 1 : Contents(s)[k] = s.slot[SlotOf(s, k)]
  BY <1>1, <1>4, ContentsType
<1>7. /\ Contents(r) \in Seq(Slots) /\ Len(Contents(r)) = n
      /\ \A k \in 1 .. n : Contents(r)[k] = r.slot[SlotOf(r, k)]
  BY ContentsType
<1>8. /\ Append(Contents(r), p) \in Seq(Slots)
      /\ Len(Append(Contents(r), p)) = n + 1
      /\ \A k \in 1 .. n : Append(Contents(r), p)[k] = Contents(r)[k]
      /\ Append(Contents(r), p)[n + 1] = p
  BY <1>4, <1>7
<1>9. s.slot[SlotOf(s, n + 1)] = p
  BY <1>2, <1>3, <1>5 DEF Ring
<1>10. ASSUME NEW k \in 1 .. n
       PROVE  s.slot[SlotOf(s, k)] = r.slot[SlotOf(r, k)]
  BY <1>2, <1>5, SlotOfIndex DEF Ring
<1>11. ASSUME NEW k \in 1 .. n + 1
       PROVE  Contents(s)[k] = Append(Contents(r), p)[k]
  <2>1. CASE k = n + 1
    BY <2>1, <1>4, <1>6, <1>8, <1>9
  <2>2. CASE k \in 1 .. n
    BY <2>2, <1>4, <1>6, <1>7, <1>8, <1>10
  <2>3. k = n + 1 \/ k \in 1 .. n
    BY <1>4
  <2> QED
    BY <2>1, <2>2, <2>3
<1> QED
  BY <1>6, <1>8, <1>11, SeqEqual

\* A fetch from a ring that is not empty takes the oldest packet and leaves
\* the others in their order.
LEMMA FetchTakesHead ==
  ASSUME NEW r \in Ring, ~IsEmpty(r)
  PROVE  /\ Contents(r) # <<>>
         /\ Fetched(r) = Head(Contents(r))
         /\ Contents(FetchRing(r)) = Tail(Contents(r))
<1> DEFINE s == FetchRing(r)
           n == Occupied(r)
<1>1. s \in Ring
  BY FetchRingType
<1>2. s.head = r.head /\ s.tail = Advance(r.tail) /\ s.slot = r.slot
  BY DEF FetchRing, Ring
<1>3. r.head \in Index /\ r.tail \in Index /\ Advance(r.tail) \in Index
  BY AdvanceIndex DEF Ring
<1>4. n \in Nat /\ n > 0 /\ Occupied(s) = n - 1
  BY <1>2, <1>3, OccupiedBounds, BufSizeAssumption
  DEF Index, Advance, IsEmpty, Occupied, Capacity
<1>5. SlotOf(r, 1) = Advance(r.tail)
  BY <1>3, BufSizeAssumption DEF Index, Advance, SlotOf
<1>6. ASSUME NEW k \in 1 .. n - 1
      PROVE  SlotOf(s, k) = SlotOf(r, k + 1)
  BY <1>2, <1>3, <1>4, OccupiedBounds, BufSizeAssumption
  DEF Index, Advance, SlotOf, Capacity
<1>7. /\ Contents(s) \in Seq(Slots) /\ Len(Contents(s)) = n - 1
      /\ \A k \in 1 .. n - 1 : Contents(s)[k] = s.slot[SlotOf(s, k)]
  BY <1>1, <1>4, ContentsType
<1>8. /\ Contents(r) \in Seq(Slots) /\ Len(Contents(r)) = n
      /\ \A k \in 1 .. n : Contents(r)[k] = r.slot[SlotOf(r, k)]
  BY ContentsType
<1>9. Contents(r) # <<>>
  BY <1>4, <1>8
<1>10. Fetched(r) = Head(Contents(r))
  BY <1>4, <1>5, <1>8, <1>9 DEF Fetched
<1>11. /\ Tail(Contents(r)) \in Seq(Slots)
       /\ Len(Tail(Contents(r))) = n - 1
       /\ \A k \in 1 .. n - 1 : Tail(Contents(r))[k] = Contents(r)[k + 1]
  BY <1>8, <1>9, HeadTailProperties
<1>12. \A k \in 1 .. n - 1 : Contents(s)[k] = Tail(Contents(r))[k]
  <2> TAKE k \in 1 .. n - 1
  <2>1. k + 1 \in 1 .. n
    BY <1>4
  <2> QED
    BY <2>1, <1>2, <1>6, <1>7, <1>8, <1>11
<1> QED
  BY <1>7, <1>9, <1>10, <1>11, <1>12, SeqEqual

\* The ring of a new teensy_t holds nothing.
LEMMA EmptyContents == Contents(EmptyRing) = <<>>
<1>1. Len(Contents(EmptyRing)) = 0 /\ Contents(EmptyRing) \in Seq(Slots)
  BY EmptyRingType, ContentsType, OccupiedBounds
<1> QED
  BY <1>1

-----------------------------------------------------------------------------
(***************************************************************************)
(* OutputPath: the Linux build.                                            *)
(***************************************************************************)

(***************************************************************************)
(* NoLostWakeup is not inductive.  It needs to know who holds output_mutex *)
(* at each place, that the sleeping thread has announced itself, and that  *)
(* what output_store is about to store is a packet.                        *)
(***************************************************************************)
MainHoldsMutex == mutex = "main" <=> mainPc \in {"store", "signal", "unlock"}
OutHoldsMutex  == mutex = "out" <=> outPc \in {"fetching", "testing", "woken"}
SleeperAnnounced == outPc = "blocked" => waiting
StoresPacket == mainPc = "store" => mainPkt \in Packet

IInv ==
  /\ TypeOK
  /\ MainHoldsMutex
  /\ OutHoldsMutex
  /\ SleeperAnnounced
  /\ StoresPacket
  /\ NoLostWakeup

-----------------------------------------------------------------------------
\* The types hold at first and every step keeps them.
LEMMA TypeInit == Init => TypeOK
BY EmptyRingType DEF Init, TypeOK, MainPcs, OutPcs

LEMMA TypeStep == TypeOK /\ [Next]_vars => TypeOK'
<1> SUFFICES ASSUME TypeOK, [Next]_vars
             PROVE  TypeOK'
  OBVIOUS
<1> USE DEF TypeOK, MainPcs, OutPcs
<1>1. ASSUME NEW p \in Packet, StoreLock(p)
      PROVE  TypeOK'
  BY <1>1 DEF StoreLock
<1>2. CASE StorePacket
  <2>1. StoreRing(ring, mainPkt) \in Ring
    BY StoreRingType DEF Slots
  <2> QED
    BY <1>2, <2>1 DEF StorePacket
<1>3. CASE StoreSignal
  BY <1>3 DEF StoreSignal, WakeOutput
<1>4. CASE StoreUnlock
  BY <1>4 DEF StoreUnlock
<1>5. CASE CloseOffline \/ CloseAlreadyOffline \/ InputOffline
  BY <1>5 DEF CloseOffline, CloseAlreadyOffline, InputOffline
<1>6. CASE CloseSignal
  BY <1>6 DEF CloseSignal, WakeOutput
<1>7. CASE LoopTop \/ FetchLock \/ CheckOnline
  BY <1>7 DEF LoopTop, FetchLock, CheckOnline
<1>8. CASE FetchPacket
  <2>1. FetchRing(ring) \in Ring /\ Fetched(ring) \in Packet \cup {NoPacket}
    BY FetchRingType DEF Slots
  <2> QED
    BY <1>8, <2>1 DEF FetchPacket
<1>9. CASE WriteReturns \/ WriteOffline
  BY <1>9 DEF WriteReturns, WriteOffline
<1>10. CASE WaitLock \/ WaitSleep \/ WaitNotNeeded \/ WaitTimeout
  BY <1>10 DEF WaitLock, WaitSleep, WaitNotNeeded, WaitTimeout
<1>11. CASE Relock \/ WakeDone
  BY <1>11 DEF Relock, WakeDone
<1>12. CASE Finished \/ UNCHANGED vars
  BY <1>12 DEF Finished, vars
<1> QED
  BY <1>1, <1>2, <1>3, <1>4, <1>5, <1>6, <1>7, <1>8, <1>9, <1>10, <1>11,
     <1>12 DEF Next, Main, OutputStep

\* The state of the output path stays within its types: the ring indices
\* never leave the buffer, whatever its size (memory.cpp output_store/fetch).
THEOREM TypeCorrect == Spec => []TypeOK
<1> QED
  BY TypeInit, TypeStep, PTL DEF Spec

-----------------------------------------------------------------------------
LEMMA IInvInit == Init => IInv
BY TypeInit
DEF Init, IInv, MainHoldsMutex, OutHoldsMutex, SleeperAnnounced, StoresPacket,
    NoLostWakeup

\* One step per action; each keeps the holder of the mutex in line with the
\* places of the threads, and the sleeper awake or announced.
LEMMA IInvStep == IInv /\ [Next]_vars => IInv'
<1> SUFFICES ASSUME IInv, [Next]_vars
             PROVE  IInv'
  OBVIOUS
<1>0. TypeOK'
  BY TypeStep DEF IInv
<1> USE <1>0 DEF IInv, MainHoldsMutex, OutHoldsMutex, SleeperAnnounced,
                 StoresPacket, NoLostWakeup
<1>1. ASSUME NEW p \in Packet, StoreLock(p)
      PROVE  IInv'
  BY <1>1 DEF StoreLock
<1>2. CASE StorePacket
  BY <1>2 DEF StorePacket
<1>3. CASE StoreSignal
  BY <1>3 DEF StoreSignal, WakeOutput, TypeOK
<1>4. CASE StoreUnlock
  BY <1>4 DEF StoreUnlock
<1>5. CASE CloseOffline \/ CloseAlreadyOffline \/ InputOffline
  BY <1>5 DEF CloseOffline, CloseAlreadyOffline, InputOffline
<1>6. CASE CloseSignal
  BY <1>6 DEF CloseSignal, WakeOutput, TypeOK
<1>7. CASE LoopTop \/ FetchLock \/ CheckOnline
  BY <1>7 DEF LoopTop, FetchLock, CheckOnline
<1>8. CASE FetchPacket
  BY <1>8 DEF FetchPacket
<1>9. CASE WriteReturns \/ WriteOffline
  BY <1>9 DEF WriteReturns, WriteOffline
<1>10. CASE WaitLock \/ WaitSleep \/ WaitNotNeeded \/ WaitTimeout
  BY <1>10 DEF WaitLock, WaitSleep, WaitNotNeeded, WaitTimeout
<1>11. CASE Relock \/ WakeDone
  BY <1>11 DEF Relock, WakeDone
<1>12. CASE Finished \/ UNCHANGED vars
  BY <1>12 DEF Finished, vars, IsEmpty
<1> QED
  BY <1>1, <1>2, <1>3, <1>4, <1>5, <1>6, <1>7, <1>8, <1>9, <1>10, <1>11,
     <1>12 DEF Next, Main, OutputStep

\* The strengthened invariant holds in every reachable state.
LEMMA Invariance == Spec => []IInv
<1> QED
  BY IInvInit, IInvStep, PTL DEF Spec

\* The output thread never sleeps over a packet that nobody is about to
\* signal (usb.cpp output_thread against memory.cpp output_store).
THEOREM NeverSleepsOverPacket == Spec => []NoLostWakeup
<1>1. IInv => NoLostWakeup
  BY DEF IInv
<1> QED
  BY <1>1, Invariance, PTL

-----------------------------------------------------------------------------
\* A packet is dropped only when Capacity packets wait in the ring, for
\* every BufSize (the "head != tail" test of output_store).
LEMMA DropStep ==
  ASSUME TypeOK, [Next]_vars,
         mainPc = "store", mainPc' = "signal", ring' = ring
  PROVE  Len(Contents(ring)) = Capacity
<1>1. StorePacket
  BY DEF Next, Main, OutputStep, StoreLock, StorePacket, StoreSignal,
         StoreUnlock, CloseOffline, CloseSignal, CloseAlreadyOffline,
         LoopTop, FetchLock, FetchPacket, CheckOnline, WriteReturns,
         WriteOffline, WaitLock, WaitSleep, WaitNotNeeded, Relock, WakeDone,
         WaitTimeout, InputOffline, Finished, vars
<1>2. ring \in Ring /\ ring.head \in Index
  BY DEF TypeOK, Ring
<1>3. IsFull(ring)
  <2>1. CASE BufSize = 1
    BY <2>1, <1>2 DEF TypeOK, Ring, Index, IsFull, Advance
  <2>2. CASE BufSize > 1
    <3>1. Advance(ring.head) # ring.head
      BY <2>2, <1>2, AdvanceIndex
    <3>2. ASSUME ~IsFull(ring)
          PROVE  ring'.head = Advance(ring.head)
      BY <1>1, <1>2, <3>2 DEF StorePacket, StoreRing, Ring
    <3> QED
      BY <3>1, <3>2
  <2> QED
    BY <2>1, <2>2, BufSizeAssumption
<1> QED
  BY <1>2, <1>3, ContentsType, OccupiedBounds

\* output_store never refuses a packet for which there is room.
THEOREM NoEarlyDrop == Spec => DropsOnlyAtCapacity
<1>1. TypeOK /\ [Next]_vars
        => [mainPc = "store" /\ mainPc' = "signal" /\ ring' = ring
              => Len(Contents(ring)) = Capacity]_vars
  BY DropStep
<1> QED
  BY <1>1, TypeCorrect, PTL DEF Spec, DropsOnlyAtCapacity

-----------------------------------------------------------------------------
\* Steps of the two threads are steps of a bounded queue, or leave it alone.
LEMMA QueueStep == IInv /\ [Next]_vars => [Queue!Next]_(Queue!vars)
<1> SUFFICES ASSUME IInv, [Next]_vars
             PROVE  [Queue!Next]_(Queue!vars)
  OBVIOUS
<1> USE DEF IInv
<1>0. ring \in Ring /\ mainPkt \in Slots
  BY DEF TypeOK, Slots
<1>1. CASE StorePacket
  <2>1. mainPkt \in Packet /\ UNCHANGED outPkt
        /\ ring' = StoreRing(ring, mainPkt)
    BY <1>1 DEF StorePacket, StoresPacket
  <2>2. CASE IsFull(ring)
    <3>1. ring' = ring
      BY <2>1, <2>2 DEF StoreRing
    <3> QED
      BY <2>1, <3>1 DEF Queue!vars, Contents, Occupied, SlotOf
  <2>3. CASE ~IsFull(ring)
    <3>1. Contents(ring)' = Append(Contents(ring), mainPkt)
      <4>1. Contents(ring)' = Contents(StoreRing(ring, mainPkt))
        BY <2>1 DEF Contents, Occupied, SlotOf
      <4> QED
        BY <4>1, <1>0, <2>3, StoreAppends
    <3>2. Len(Contents(ring)) < Capacity
      BY <1>0, <2>3, ContentsType, OccupiedBounds, BufSizeAssumption
      DEF Capacity
    <3> QED
      BY <2>1, <3>1, <3>2 DEF Queue!Next, Queue!Put
  <2> QED
    BY <2>2, <2>3
<1>2. CASE FetchPacket
  <2>1. CASE IsEmpty(ring)
    BY <1>2, <2>1 DEF FetchPacket, Queue!vars, Contents, Occupied, SlotOf
  <2>2. CASE ~IsEmpty(ring)
    <3>1. ring' = FetchRing(ring) /\ outPkt' = Fetched(ring)
      BY <1>2, <2>2 DEF FetchPacket
    <3>2. Contents(ring)' = Contents(FetchRing(ring))
      BY <3>1 DEF Contents, Occupied, SlotOf
    <3> QED
      BY <1>0, <2>2, <3>1, <3>2, FetchTakesHead
      DEF Queue!Next, Queue!Take
  <2> QED
    BY <2>1, <2>2
<1>3. CASE UNCHANGED <<ring, outPkt>>
  BY <1>3 DEF Queue!vars, Contents, Occupied, SlotOf
<1>4. StorePacket \/ FetchPacket \/ UNCHANGED <<ring, outPkt>>
  BY DEF Next, Main, OutputStep, StoreLock, StoreSignal,
         StoreUnlock, CloseOffline, CloseSignal, CloseAlreadyOffline,
         LoopTop, FetchLock, CheckOnline, WriteReturns,
         WriteOffline, WaitLock, WaitSleep, WaitNotNeeded, Relock, WakeDone,
         WaitTimeout, InputOffline, Finished, vars
<1> QED
  BY <1>1, <1>2, <1>3, <1>4

\* The ring between main thread and output thread implements a first-in
\* first-out queue of BufSize - 1 packets: no packet is overwritten, skipped,
\* fetched twice or reordered, whatever the size of the buffer.
THEOREM RingIsQueue == Spec => QueueSpec
<1>1. Init => Queue!Init
  BY EmptyContents DEF Init, Queue!Init, Contents, Occupied, SlotOf
<1> QED
  BY <1>1, QueueStep, Invariance, PTL DEF Spec, QueueSpec, Queue!Spec

-----------------------------------------------------------------------------
(***************************************************************************)
(* WinOutputPath: the Windows build.                                       *)
(***************************************************************************)

(***************************************************************************)
(* The inductive invariant: who holds output_mutex, that the counter is    *)
(* exactly the output thread's stay between count++ and count--, that it   *)
(* is announced from before count++ until it has the mutex again, and that *)
(* the ring is empty until the mutex is released.                          *)
(***************************************************************************)
WinMainHoldsMutex ==
  mutex = "main" <=> mainPc \in {"store", "signal", "setEvent", "unlock"}
WinOutHoldsMutex ==
  mutex = "out" <=>
    outPc \in {"fetching", "testing", "enroll", "release", "woken"}
CountsWaiter ==
  count = IF outPc \in {"release", "object", "unenroll"} THEN 1 ELSE 0
WaiterAnnounced ==
  waiting <=> outPc \in {"enroll", "release", "object", "unenroll", "relock",
                         "woken"}
WaitsOnEmptyRing == outPc \in {"enroll", "release"} => IsEmpty(ring)
SetsEventForWaiter == mainPc = "setEvent" => waiting

WinInv ==
  /\ WinTypeOK
  /\ WinMainHoldsMutex
  /\ WinOutHoldsMutex
  /\ CountsWaiter
  /\ WaiterAnnounced
  /\ WaitsOnEmptyRing
  /\ SetsEventForWaiter
  /\ WinNoLostWakeup

-----------------------------------------------------------------------------
LEMMA WinInitInv == WinInit => WinInv
BY EmptyRingType
DEF WinInit, Init, WinInv, WinTypeOK, MainPcs, OutPcs, WinMainHoldsMutex,
    WinOutHoldsMutex, CountsWaiter, WaiterAnnounced, WaitsOnEmptyRing,
    SetsEventForWaiter, WinNoLostWakeup

\* Steps that are as in OutputPath and leave the condition variable alone.
LEMMA SameMainInv == WinInv /\ SameMain => WinInv'
<1> SUFFICES ASSUME WinInv, SameMain
             PROVE  WinInv'
  OBVIOUS
<1> USE DEF WinInv, WinTypeOK, MainPcs, OutPcs, WinMainHoldsMutex,
           WinOutHoldsMutex, CountsWaiter, WaiterAnnounced,
           WaitsOnEmptyRing, SetsEventForWaiter, WinNoLostWakeup, SameMain, cv
<1>1. ASSUME NEW p \in Packet, StoreLock(p)
      PROVE  WinInv'
  BY <1>1 DEF StoreLock
<1>2. CASE StorePacket
  <2>1. StoreRing(ring, mainPkt) \in Ring
    BY StoreRingType DEF Slots
  <2> QED
    BY <1>2, <2>1 DEF StorePacket
<1>3. CASE StoreUnlock
  BY <1>3 DEF StoreUnlock
<1>4. CASE CloseOffline
  BY <1>4 DEF CloseOffline
<1>5. CASE CloseAlreadyOffline
  BY <1>5 DEF CloseAlreadyOffline
<1> QED
  BY <1>1, <1>2, <1>3, <1>4, <1>5

LEMMA SameOutputInv == WinInv /\ SameOutput => WinInv'
<1> SUFFICES ASSUME WinInv, SameOutput
             PROVE  WinInv'
  OBVIOUS
<1> USE DEF WinInv, WinTypeOK, MainPcs, OutPcs, WinMainHoldsMutex,
           WinOutHoldsMutex, CountsWaiter, WaiterAnnounced,
           WaitsOnEmptyRing, SetsEventForWaiter, WinNoLostWakeup, SameOutput,
           cv
<1>1. CASE FetchPacket
  <2>1. FetchRing(ring) \in Ring /\ Fetched(ring) \in Packet \cup {NoPacket}
    BY FetchRingType DEF Slots
  <2> QED
    BY <1>1, <2>1 DEF FetchPacket
<1>2. CASE LoopTop
  BY <1>2 DEF LoopTop
<1>3. CASE FetchLock
  BY <1>3 DEF FetchLock
<1>4. CASE CheckOnline
  BY <1>4 DEF CheckOnline
<1>5. CASE WriteReturns
  BY <1>5 DEF WriteReturns
<1>6. CASE WriteOffline
  BY <1>6 DEF WriteOffline
<1>7. CASE WaitLock
  BY <1>7 DEF WaitLock
<1>8. CASE WaitNotNeeded
  BY <1>8 DEF WaitNotNeeded
<1>9. CASE Relock
  BY <1>9 DEF Relock
<1>10. CASE WakeDone
  BY <1>10 DEF WakeDone
<1> QED
  BY <1>1, <1>2, <1>3, <1>4, <1>5, <1>6, <1>7, <1>8, <1>9, <1>10

\* pthread_cond_signal and pthread_cond_wait_timeout.
LEMMA SignalInv ==
  WinInv /\ (TestSignal \/ TestCloseSignal \/ SetEvent) => WinInv'
<1> SUFFICES ASSUME WinInv, TestSignal \/ TestCloseSignal \/ SetEvent
             PROVE  WinInv'
  OBVIOUS
<1> USE DEF WinInv, WinTypeOK, MainPcs, OutPcs, WinMainHoldsMutex,
           WinOutHoldsMutex, CountsWaiter, WaiterAnnounced,
           WaitsOnEmptyRing, SetsEventForWaiter, WinNoLostWakeup, cv, IsEmpty
<1>1. CASE TestSignal
  BY <1>1 DEF TestSignal, SignalSeesWaiter
<1>2. CASE TestCloseSignal
  BY <1>2 DEF TestCloseSignal
<1>3. CASE SetEvent
  BY <1>3 DEF SetEvent
<1> QED
  BY <1>1, <1>2, <1>3

LEMMA WaitInv ==
  WinInv /\ (AnnounceWait \/ EnrollWaiter \/ ReleaseMutex \/ ConsumeEvent
             \/ ObjectTimeout \/ UnenrollWaiter) => WinInv'
<1> SUFFICES ASSUME WinInv,
                    AnnounceWait \/ EnrollWaiter \/ ReleaseMutex
                    \/ ConsumeEvent \/ ObjectTimeout \/ UnenrollWaiter
             PROVE  WinInv'
  OBVIOUS
<1> USE DEF WinInv, WinTypeOK, MainPcs, OutPcs, WinMainHoldsMutex,
           WinOutHoldsMutex, CountsWaiter, WaiterAnnounced,
           WaitsOnEmptyRing, SetsEventForWaiter, WinNoLostWakeup, cv, IsEmpty
<1>1. CASE AnnounceWait
  BY <1>1 DEF AnnounceWait
<1>2. CASE EnrollWaiter
  BY <1>2 DEF EnrollWaiter
<1>3. CASE ReleaseMutex
  BY <1>3 DEF ReleaseMutex
<1>4. CASE ConsumeEvent
  BY <1>4 DEF ConsumeEvent
<1>5. CASE ObjectTimeout
  BY <1>5 DEF ObjectTimeout
<1>6. CASE UnenrollWaiter
  BY <1>6 DEF UnenrollWaiter
<1> QED
  BY <1>1, <1>2, <1>3, <1>4, <1>5, <1>6

LEMMA WinStepInv == WinInv /\ [WinNext]_winVars => WinInv'
<1> SUFFICES ASSUME WinInv, [WinNext]_winVars
             PROVE  WinInv'
  OBVIOUS
<1>1. CASE InputOffline /\ UNCHANGED cv
  <2>1. WinTypeOK'
    BY <1>1 DEF InputOffline, cv, WinInv, WinTypeOK
  <2>2. UNCHANGED <<ring, mutex, waiting, mainPc, outPc, count, event>>
    BY <1>1 DEF InputOffline, cv
  <2> QED
    BY <2>1, <2>2
    DEF WinInv, WinMainHoldsMutex, WinOutHoldsMutex, CountsWaiter,
      WaiterAnnounced, WaitsOnEmptyRing, SetsEventForWaiter,
      WinNoLostWakeup, IsEmpty
<1>2. CASE UNCHANGED winVars
  <2>1. WinTypeOK'
    BY <1>2 DEF winVars, vars, cv, WinInv, WinTypeOK
  <2>2. UNCHANGED <<ring, mutex, waiting, mainPc, outPc, count, event>>
    BY <1>2 DEF winVars, vars, cv
  <2> QED
    BY <2>1, <2>2
    DEF WinInv, WinMainHoldsMutex, WinOutHoldsMutex, CountsWaiter,
      WaiterAnnounced, WaitsOnEmptyRing, SetsEventForWaiter,
      WinNoLostWakeup, IsEmpty
<1>3. CASE Finished /\ UNCHANGED cv
  BY <1>2, <1>3 DEF Finished, winVars
<1> QED
  BY <1>1, <1>2, <1>3, SameMainInv, SameOutputInv, SignalInv, WaitInv
  DEF WinNext, WinOutputStep

\* The strengthened invariant holds in every reachable state.
LEMMA WinInvariance == WinSpec => []WinInv
<1> QED
  BY WinInitInv, WinStepInv, PTL DEF WinSpec

\* The counter never leaves {0, 1} and the indices never leave the buffer.
THEOREM WinTypeCorrect == WinSpec => []WinTypeOK
<1>1. WinInv => WinTypeOK
  BY DEF WinInv
<1> QED
  BY <1>1, WinInvariance, PTL

\* A signal that skips SetEvent because it saw no waiter never leaves the
\* output thread asleep over a packet (thread.cpp pthread_cond_signal).
THEOREM WinNeverSleepsOverPacket == WinSpec => []WinNoLostWakeup
<1>1. WinInv => WinNoLostWakeup
  BY DEF WinInv
<1> QED
  BY <1>1, WinInvariance, PTL

-----------------------------------------------------------------------------
\* The ring operators of the two levels are the same.
LEMMA PosixRing ==
  /\ Posix!EmptyRing = EmptyRing
  /\ \A r : /\ Posix!IsEmpty(r) <=> IsEmpty(r)
            /\ Posix!Fetched(r) = Fetched(r)
            /\ Posix!FetchRing(r) = FetchRing(r)
            /\ \A p : Posix!StoreRing(r, p) = StoreRing(r, p)
<1>1. \A i : Posix!Advance(i) = Advance(i)
  BY DEF Posix!Advance, Advance
<1>2. \A r : Posix!IsFull(r) <=> IsFull(r)
  BY <1>1 DEF Posix!IsFull, IsFull
<1>3. Posix!EmptyRing = EmptyRing
  BY DEF Posix!EmptyRing, EmptyRing, Posix!Index, Index
<1>4. \A r : Posix!IsEmpty(r) <=> IsEmpty(r)
  BY DEF Posix!IsEmpty, IsEmpty
<1>5. \A r : Posix!Fetched(r) = Fetched(r)
  BY <1>1 DEF Posix!Fetched, Fetched
<1>6. \A r : Posix!FetchRing(r) = FetchRing(r)
  BY <1>1 DEF Posix!FetchRing, FetchRing
<1>7. \A r, p : Posix!StoreRing(r, p) = StoreRing(r, p)
  BY <1>1, <1>2 DEF Posix!StoreRing, StoreRing
<1> QED
  BY <1>3, <1>4, <1>5, <1>6, <1>7

\* Every step of the emulation is a step of the POSIX condition variable or
\* is invisible to it.
LEMMA PosixStep == WinInv /\ [WinNext]_winVars => [Posix!Next]_(Posix!vars)
<1> SUFFICES ASSUME WinInv, [WinNext]_winVars
             PROVE  [Posix!Next]_(Posix!vars)
  OBVIOUS
<1> USE DEF WinInv, WinTypeOK, MainPcs, OutPcs, WinMainHoldsMutex,
           WinOutHoldsMutex, CountsWaiter, WaiterAnnounced,
           WaitsOnEmptyRing, SetsEventForWaiter, cv, PosixOutPc, PosixMainPc
<1>1. CASE SameMain
  <2>1. ASSUME NEW p \in Packet, StoreLock(p)
        PROVE  Posix!StoreLock(p)
    BY <1>1, <2>1 DEF SameMain, StoreLock, Posix!StoreLock
  <2>2. StorePacket => Posix!StorePacket
    BY <1>1, PosixRing DEF SameMain, StorePacket, Posix!StorePacket
  <2>3. StoreUnlock => Posix!StoreUnlock
    BY <1>1 DEF SameMain, StoreUnlock, Posix!StoreUnlock
  <2>4. CloseOffline => Posix!CloseOffline
    BY <1>1 DEF SameMain, CloseOffline, Posix!CloseOffline
  <2>5. CloseAlreadyOffline => Posix!CloseAlreadyOffline
    BY <1>1 DEF SameMain, CloseAlreadyOffline, Posix!CloseAlreadyOffline
  <2> QED
    BY <1>1, <2>1, <2>2, <2>3, <2>4, <2>5
    DEF SameMain, Posix!Next, Posix!Main
<1>2. CASE SameOutput
  <2>1. LoopTop => Posix!LoopTop
    BY <1>2 DEF SameOutput, LoopTop, Posix!LoopTop
  <2>2. FetchLock => Posix!FetchLock
    BY <1>2 DEF SameOutput, FetchLock, Posix!FetchLock
  <2>3. FetchPacket => Posix!FetchPacket
    BY <1>2, PosixRing DEF SameOutput, FetchPacket, Posix!FetchPacket
  <2>4. CheckOnline => Posix!CheckOnline
    BY <1>2 DEF SameOutput, CheckOnline, Posix!CheckOnline
  <2>5. WriteReturns => Posix!WriteReturns
    BY <1>2 DEF SameOutput, WriteReturns, Posix!WriteReturns
  <2>6. WriteOffline => Posix!WriteOffline
    BY <1>2 DEF SameOutput, WriteOffline, Posix!WriteOffline
  <2>7. WaitLock => Posix!WaitLock
    BY <1>2 DEF SameOutput, WaitLock, Posix!WaitLock
  <2>8. WaitNotNeeded => Posix!WaitNotNeeded
    BY <1>2, PosixRing DEF SameOutput, WaitNotNeeded, Posix!WaitNotNeeded
  <2>9. Relock => Posix!Relock
    BY <1>2 DEF SameOutput, Relock, Posix!Relock
  <2>10. WakeDone => Posix!WakeDone
    BY <1>2 DEF SameOutput, WakeDone, Posix!WakeDone
  <2> QED
    BY <1>2, <2>1, <2>2, <2>3, <2>4, <2>5, <2>6, <2>7, <2>8, <2>9, <2>10
    DEF SameOutput, Posix!Next, Posix!OutputStep
<1>3. CASE TestSignal
  <2>1. CASE waiting /\ SignalSeesWaiter
    BY <1>3, <2>1 DEF TestSignal, Posix!vars
  <2>2. CASE ~(waiting /\ SignalSeesWaiter)
    <3>1. Posix!StoreSignal
      BY <1>3, <2>2
      DEF TestSignal, SignalSeesWaiter, Posix!StoreSignal, Posix!WakeOutput
    <3> QED
      BY <3>1 DEF Posix!Next, Posix!Main
  <2> QED
    BY <2>1, <2>2
<1>4. CASE TestCloseSignal
  <2>1. CASE SignalSeesWaiter
    BY <1>4, <2>1 DEF TestCloseSignal, Posix!vars
  <2>2. CASE ~SignalSeesWaiter
    <3>1. Posix!CloseSignal
      BY <1>4, <2>2
      DEF TestCloseSignal, SignalSeesWaiter, Posix!CloseSignal,
          Posix!WakeOutput
    <3> QED
      BY <3>1 DEF Posix!Next, Posix!Main
  <2> QED
    BY <2>1, <2>2
<1>5. CASE SetEvent
  <2>1. CASE mainPc = "setEvent"
    <3>1. Posix!StoreSignal
      BY <1>5, <2>1 DEF SetEvent, Posix!StoreSignal, Posix!WakeOutput
    <3> QED
      BY <3>1 DEF Posix!Next, Posix!Main
  <2>2. CASE mainPc = "closeSet"
    <3>1. Posix!CloseSignal
      BY <1>5, <2>2 DEF SetEvent, Posix!CloseSignal, Posix!WakeOutput
    <3> QED
      BY <3>1 DEF Posix!Next, Posix!Main
  <2> QED
    BY <1>5, <2>1, <2>2 DEF SetEvent
<1>6. CASE AnnounceWait \/ EnrollWaiter
  <2>1. CASE AnnounceWait
    BY <1>6, <2>1 DEF AnnounceWait, Posix!vars
  <2>2. CASE EnrollWaiter
    BY <1>6, <2>2 DEF EnrollWaiter, Posix!vars
  <2> QED
    BY <1>6, <2>1, <2>2
<1>7. CASE ReleaseMutex
  <2>1. Posix!WaitSleep
    BY <1>7, PosixRing DEF ReleaseMutex, Posix!WaitSleep
  <2> QED
    BY <2>1 DEF Posix!Next, Posix!OutputStep
<1>8. CASE ConsumeEvent \/ UnenrollWaiter
  BY <1>8 DEF ConsumeEvent, UnenrollWaiter, Posix!vars
<1>9. CASE ObjectTimeout
  <2>1. Posix!WaitTimeout
    BY <1>9 DEF ObjectTimeout, Posix!WaitTimeout
  <2> QED
    BY <2>1 DEF Posix!Next
<1>10. CASE InputOffline /\ UNCHANGED cv
  <2>1. Posix!InputOffline
    BY <1>10 DEF InputOffline, Posix!InputOffline
  <2> QED
    BY <2>1 DEF Posix!Next
<1>11. CASE (Finished /\ UNCHANGED cv) \/ UNCHANGED winVars
  BY <1>11 DEF Finished, vars, winVars, Posix!vars
<1> QED
  BY <1>1, <1>2, <1>3, <1>4, <1>5, <1>6, <1>7, <1>8, <1>9, <1>10, <1>11
  DEF WinNext, WinOutputStep

\* The Windows build's condition variable (thread.cpp) implements the POSIX
\* one: every safety property of OutputPath is one of the Windows build.
THEOREM WinRefinesPosix == WinSpec => ImplementsPosix
<1>1. WinInit => Posix!Init
  BY PosixRing DEF WinInit, Init, Posix!Init, PosixOutPc, PosixMainPc
<1> QED
  BY <1>1, PosixStep, WinInvariance, PTL
  DEF WinSpec, ImplementsPosix, Posix!Spec
=============================================================================
