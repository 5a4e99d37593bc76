--------------------------- MODULE UsbLinuxProofs ---------------------------
(***************************************************************************)
(* Theorems about UsbLinux, for every number of boards, structures, faults *)
(* and every limit.  UsbInv is the inductive invariant.                    *)
(***************************************************************************)
EXTENDS UsbLinux, TLAPS

\* Taking one element out of a sequence moves the later ones down by one.
LEMMA RemoveAtElements ==
  ASSUME NEW S, NEW s \in Seq(S), NEW i \in 1 .. Len(s)
  PROVE  /\ RemoveAt(s, i) \in Seq(S)
         /\ Len(RemoveAt(s, i)) = Len(s) - 1
         /\ \A k \in 1 .. Len(s) - 1 :
              RemoveAt(s, i)[k] = s[IF k < i THEN k ELSE k + 1]
<1> DEFINE left == SubSeq(s, 1, i - 1)
           right == SubSeq(s, i + 1, Len(s))
<1>1. /\ left \in Seq(S) /\ Len(left) = i - 1
      /\ \A k \in 1 .. i - 1 : left[k] = s[k]
  OBVIOUS
<1>2. /\ right \in Seq(S) /\ Len(right) = Len(s) - i
      /\ \A k \in 1 .. Len(s) - i : right[k] = s[k + i]
  OBVIOUS
<1>3. RemoveAt(s, i) = left \o right
  BY DEF RemoveAt
<1> HIDE DEF left, right
<1>4. RemoveAt(s, i) \in Seq(S) /\ Len(RemoveAt(s, i)) = Len(s) - 1
  BY <1>1, <1>2, <1>3
<1>5. ASSUME NEW k \in 1 .. Len(s) - 1
      PROVE  RemoveAt(s, i)[k] = s[IF k < i THEN k ELSE k + 1]
  <2>1. CASE k < i
    BY <1>1, <1>2, <1>3, <2>1
  <2>2. CASE k >= i
    <3>1. (left \o right)[k] = right[k - (i - 1)]
      BY <1>1, <1>2, <2>2
    <3>2. k - (i - 1) \in 1 .. Len(s) - i /\ k - (i - 1) + i = k + 1
      BY <2>2
    <3> QED
      BY <1>2, <1>3, <2>2, <3>1, <3>2
  <2> QED
    BY <2>1, <2>2
<1> QED
  BY <1>4, <1>5

-----------------------------------------------------------------------------
(***************************************************************************)
(* The inductive invariant: the types in three parts, the last one with    *)
(* what is needed of the structures and their threads.                     *)
(***************************************************************************)
Event == [action : {"add", "remove"}, node : Node]

BusType ==
  /\ board \in [Node -> 0 .. MaxPlugs]
  /\ plugs \in 0 .. MaxPlugs
  /\ monitoring \in BOOLEAN
  /\ events \in Seq(Event)

LoopType ==
  /\ mainPc \in {"delete", "setup", "scan", "open", "poll", "transfer"}
  /\ toOpen \subseteq Node
  /\ frames \in 0 .. FrameInterval - 1
  /\ refused \subseteq 1 .. MaxPlugs

CoreType ==
  /\ list \in Seq(Teensy)
  /\ heap \in [Teensy -> {"unused", "live", "freed"}]
  /\ teensy \in [Teensy -> Fields]
  /\ thread \in [Teensy -> [Sides -> Threads]]

Over(t, s) == thread[t][s].pc \in {"none", "done"}

\* A thread that said it has quit does nothing more.
QuitIsOver ==
  \A t \in Teensy, s \in Sides :
    heap[t] = "live" /\ teensy[t].quit[s] => Over(t, s)

\* Each structure is in the list once, so that removing it removes it.
NoRepetition ==
  \A i, j \in 1 .. Len(list) : list[i] = list[j] => i = j

\* error_count never exceeds the errors there were, although a thread may
\* store a count it loaded long ago.
ErrorsHappened ==
  \A t \in Teensy :
    /\ teensy[t].errorCount <= teensy[t].faults
    /\ \A s \in Sides : thread[t][s].pc \in {"add", "retry"}
                          => thread[t][s].loaded + 1 <= teensy[t].faults

CoreInv ==
  CoreType /\ QuitIsOver /\ NoRepetition /\ ErrorsHappened /\ NoUseAfterFree

UsbInv == BusType /\ LoopType /\ CoreInv

LEMMA InitInv == Init => UsbInv
<1> SUFFICES ASSUME Init
             PROVE  UsbInv
  OBVIOUS
<1> USE DEF LimitAssumption
<1> USE LimitAssumption
<1>1. BusType
  <2>1. PICK P \in SUBSET Node :
          /\ board = [n \in Node |-> IF n \in P THEN 1 ELSE 0]
          /\ plugs = IF P = {} THEN 0 ELSE 1
    BY DEF Init
  <2>2. board \in [Node -> 0 .. MaxPlugs] /\ plugs \in 0 .. MaxPlugs
    BY <2>1
  <2>3. monitoring \in BOOLEAN /\ events = <<>>
    BY DEF Init
  <2> QED
    BY <2>2, <2>3 DEF BusType
<1>2. LoopType
  BY DEF Init, LoopType
<1>3. CoreType
  <2> DEFINE anyNode == CHOOSE n \in Node : TRUE
             blank == [node |-> anyNode, plug |-> 0, online |-> FALSE,
                       quit |-> [s \in Sides |-> FALSE],
                       errorCount |-> 0, faults |-> 0]
  <2>4. anyNode \in Node
    OBVIOUS
  <2>5. teensy = [t \in Teensy |-> blank]
    BY DEF Init
  <2> HIDE DEF anyNode
  <2>6. blank \in Fields
    BY <2>4 DEF Fields
  <2> HIDE DEF blank
  <2>2. teensy \in [Teensy -> Fields]
    BY <2>5, <2>6
  <2>3. thread \in [Teensy -> [Sides -> Threads]]
    BY DEF Init, Threads
  <2>7. list \in Seq(Teensy) /\ heap \in [Teensy -> {"unused", "live", "freed"}]
    BY DEF Init
  <2> QED
    BY <2>2, <2>3, <2>7 DEF CoreType
<1>4. QuitIsOver /\ NoRepetition
  BY DEF Init, QuitIsOver, NoRepetition, Teensy
<1>5. ErrorsHappened
  BY DEF Init, ErrorsHappened
<1>6. NoUseAfterFree
  BY DEF Init, NoUseAfterFree
<1> QED
  BY <1>1, <1>2, <1>3, <1>4, <1>5, <1>6 DEF UsbInv, CoreInv

\* Actions that touch neither the structures nor the threads.
LEMMA SameCore ==
  CoreInv /\ UNCHANGED <<list, heap, teensy, thread>> => CoreInv'
BY DEF CoreInv, CoreType, QuitIsOver, NoRepetition, ErrorsHappened,
       NoUseAfterFree, Over

LEMMA SameLoop == LoopType /\ UNCHANGED main => LoopType'
BY DEF LoopType, main

LEMMA SameBus == BusType /\ UNCHANGED bus => BusType'
BY DEF BusType, bus

-----------------------------------------------------------------------------
(***************************************************************************)
(* The structures and their threads.                                       *)
(***************************************************************************)

\* What every step of a running thread has in common: it moves itself only,
\* changes the fields of its own structure only, keeps the quit flags unless
\* it is done, and forgets no error the other thread still has to count.
LEMMA ThreadMove ==
  ASSUME CoreInv, UNCHANGED <<list, heap>>,
         NEW t \in Teensy, NEW s \in Sides, ~Over(t, s),
         NEW f \in Fields, teensy' = [teensy EXCEPT ![t] = f],
         NEW th \in Threads, thread' = [thread EXCEPT ![t][s] = th],
         \/ f.quit = teensy[t].quit
         \/ th.pc = "done" /\ f.quit = [teensy[t].quit EXCEPT ![s] = TRUE],
         \A r \in Sides : r # s /\ thread[t][r].pc \in {"add", "retry"}
                           => teensy[t].faults <= f.faults,
         f.errorCount <= f.faults,
         th.pc \in {"add", "retry"} => th.loaded + 1 <= f.faults
  PROVE  CoreInv'
<1>1. heap[t] = "live" /\ ~teensy[t].quit[s]
  BY DEF CoreInv, NoUseAfterFree, QuitIsOver, Over
<1>2. CoreType'
  BY DEF CoreInv, CoreType
<1>3. \A u \in Teensy, r \in Sides :
        thread'[u][r] = IF u = t /\ r = s THEN th ELSE thread[u][r]
  BY DEF CoreInv, CoreType
<1>4. \A u \in Teensy : teensy'[u] = IF u = t THEN f ELSE teensy[u]
  BY DEF CoreInv, CoreType
<1>5. QuitIsOver'
  <2> SUFFICES ASSUME NEW u \in Teensy, NEW r \in Sides,
                      heap'[u] = "live", teensy'[u].quit[r]
               PROVE  thread'[u][r].pc \in {"none", "done"}
    BY DEF QuitIsOver, Over
  <2>1. heap[u] = "live"
    OBVIOUS
  <2>2. CASE u # t
    BY <1>3, <1>4, <2>1, <2>2 DEF CoreInv, QuitIsOver, Over
  <2>3. CASE u = t /\ r # s
    <3>1. teensy[t].quit[r]
      BY <1>4, <2>3 DEF CoreInv, CoreType, Fields
    <3> QED
      BY <1>3, <2>1, <2>3, <3>1 DEF CoreInv, QuitIsOver, Over
  <2>4. CASE u = t /\ r = s
    BY <1>1, <1>3, <1>4, <2>4
  <2> QED
    BY <2>2, <2>3, <2>4
<1>6. NoRepetition'
  BY DEF CoreInv, NoRepetition
<1>7. ErrorsHappened'
  <2>1. ASSUME NEW u \in Teensy
        PROVE  teensy'[u].errorCount <= teensy'[u].faults
    BY <1>4 DEF CoreInv, ErrorsHappened
  <2>2. ASSUME NEW u \in Teensy, NEW r \in Sides,
               thread'[u][r].pc \in {"add", "retry"}
        PROVE  thread'[u][r].loaded + 1 <= teensy'[u].faults
    <3>1. CASE u # t
      BY <1>3, <1>4, <2>2, <3>1 DEF CoreInv, ErrorsHappened
    <3>2. CASE u = t /\ r # s
      <4>1. thread[t][r].loaded + 1 <= teensy[t].faults
        BY <1>3, <2>2, <3>2 DEF CoreInv, ErrorsHappened
      <4>3. teensy[t].faults <= f.faults
        BY <1>3, <2>2, <3>2
      <4>2. /\ thread[t][r].loaded \in Nat
            /\ teensy[t].faults \in Nat /\ f.faults \in Nat
        BY DEF CoreInv, CoreType, Fields, Threads
      <4> QED
        BY <1>3, <1>4, <3>2, <4>1, <4>2, <4>3
    <3>3. CASE u = t /\ r = s
      BY <1>3, <1>4, <2>2, <3>3
    <3> QED
      BY <3>1, <3>2, <3>3
  <2> QED
    BY <2>1, <2>2 DEF ErrorsHappened
<1>8. NoUseAfterFree'
  <2>1. ASSUME NEW u \in Teensy, NEW r \in Sides,
               thread'[u][r].pc \notin {"none", "done"}
        PROVE  heap'[u] = "live"
    BY <1>1, <1>3, <2>1 DEF CoreInv, NoUseAfterFree
  <2>2. \A i \in 1 .. Len(list') : heap'[list'[i]] = "live"
    BY DEF CoreInv, NoUseAfterFree
  <2> QED
    BY <2>1, <2>2 DEF NoUseAfterFree
<1> QED
  BY <1>2, <1>5, <1>6, <1>7, <1>8 DEF CoreInv

\* Freeing a structure whose threads have both quit.
LEMMA DeleteCore == CoreInv /\ DeleteTeensy => CoreInv'
<1> SUFFICES ASSUME CoreInv, DeleteTeensy
             PROVE  CoreInv'
  OBVIOUS
<1>1. PICK i \in 1 .. Len(list) :
        /\ Deletable(list[i])
        /\ list' = RemoveAt(list, i)
        /\ heap' = [heap EXCEPT ![list[i]] = "freed"]
  BY DEF DeleteTeensy
<1>2. UNCHANGED <<teensy, thread>>
  BY DEF DeleteTeensy
<1>3. list \in Seq(Teensy) /\ list[i] \in Teensy
  BY DEF CoreInv, CoreType
<1>4. /\ list' \in Seq(Teensy)
      /\ Len(list') = Len(list) - 1
      /\ \A k \in 1 .. Len(list) - 1 :
           list'[k] = list[IF k < i THEN k ELSE k + 1]
  BY <1>1, <1>3, RemoveAtElements
<1>5. \A u \in Teensy : heap'[u] = IF u = list[i] THEN "freed" ELSE heap[u]
  BY <1>1 DEF CoreInv, CoreType
<1>6. \A s \in Sides : Over(list[i], s)
  BY <1>1, <1>3 DEF CoreInv, NoUseAfterFree, QuitIsOver, Deletable
<1>7. CoreType'
  BY <1>1, <1>2, <1>4 DEF CoreInv, CoreType
<1>8. QuitIsOver'
  BY <1>2, <1>5 DEF CoreInv, QuitIsOver, Over
<1>9. \A k \in 1 .. Len(list') :
        \E j \in 1 .. Len(list) :
          j # i /\ list'[k] = list[j] /\ j = IF k < i THEN k ELSE k + 1
  BY <1>3, <1>4
<1>10. NoRepetition'
  <2> SUFFICES ASSUME NEW k \in 1 .. Len(list'), NEW m \in 1 .. Len(list'),
                      list'[k] = list'[m]
               PROVE  k = m
    BY DEF NoRepetition
  <2> DEFINE Was(x) == IF x < i THEN x ELSE x + 1
  <2>1. /\ Was(k) \in 1 .. Len(list) /\ list'[k] = list[Was(k)]
        /\ Was(m) \in 1 .. Len(list) /\ list'[m] = list[Was(m)]
    BY <1>9
  <2>2. Was(k) = Was(m)
    <3> HIDE DEF Was
    <3> QED
      BY <2>1 DEF CoreInv, NoRepetition
  <2>3. Len(list') \in Nat /\ i \in Nat
    BY <1>3, <1>4
  <2> QED
    BY <2>2, <2>3
<1>11. ErrorsHappened'
  BY <1>2 DEF CoreInv, ErrorsHappened
<1>12. NoUseAfterFree'
  <2>1. ASSUME NEW u \in Teensy, NEW r \in Sides,
               thread'[u][r].pc \notin {"none", "done"}
        PROVE  heap'[u] = "live"
    BY <1>2, <1>5, <1>6, <2>1 DEF CoreInv, NoUseAfterFree, Over
  <2>2. ASSUME NEW k \in 1 .. Len(list')
        PROVE  heap'[list'[k]] = "live"
    <3>1. PICK j \in 1 .. Len(list) : j # i /\ list'[k] = list[j]
      BY <1>9
    <3>2. list[j] \in Teensy /\ list[j] # list[i]
      BY <1>3, <3>1 DEF CoreInv, NoRepetition
    <3> QED
      BY <1>5, <3>1, <3>2 DEF CoreInv, NoUseAfterFree
  <2> QED
    BY <2>1, <2>2 DEF NoUseAfterFree
<1> QED
  BY <1>7, <1>8, <1>10, <1>11, <1>12 DEF CoreInv

\* A structure malloc has not given yet is in no list and has no thread.
LEMMA NewCore ==
  ASSUME CoreInv, BusType, NEW n \in Node, NewUsbDevice(n)
  PROVE  CoreInv'
<1>1. CASE UNCHANGED <<heap, list, teensy, thread>>
  BY <1>1, SameCore
<1>2. ASSUME NEW t \in Teensy, heap[t] = "unused", NewTeensy(t, n)
      PROVE  CoreInv'
  <2>1. PICK started \in SUBSET Sides :
          /\ teensy' = [teensy EXCEPT ![t] =
               [node |-> n, plug |-> board[n], online |-> TRUE,
                quit |-> [s \in Sides |-> s \notin started],
                errorCount |-> 0, faults |-> 0]]
          /\ thread' = [thread EXCEPT ![t] =
               [s \in Sides |->
                  [pc |-> IF s \in started THEN "test" ELSE "none",
                   loaded |-> 0]]]
    BY <1>2 DEF NewTeensy
  <2> DEFINE f == [node |-> n, plug |-> board[n], online |-> TRUE,
                   quit |-> [s \in Sides |-> s \notin started],
                   errorCount |-> 0, faults |-> 0]
             th == [s \in Sides |->
                      [pc |-> IF s \in started THEN "test" ELSE "none",
                       loaded |-> 0]]
  <2>2. list' = Append(list, t) /\ heap' = [heap EXCEPT ![t] = "live"]
    BY <1>2 DEF NewTeensy
  <2>3. f \in Fields
    <3>1. board[n] \in 0 .. MaxPlugs
      BY DEF BusType
    <3>2. 0 \in 0 .. MaxFaults
      BY LimitAssumption DEF LimitAssumption
    <3> QED
      BY <3>1, <3>2 DEF Fields
  <2>4. th \in [Sides -> Threads]
    <3>1. 0 \in 0 .. MaxFaults
      BY LimitAssumption DEF LimitAssumption
    <3> QED
      BY <3>1 DEF Threads
  <2>5. /\ f.errorCount <= f.faults
        /\ \A s \in Sides : /\ th[s].pc \notin {"add", "retry"}
                            /\ f.quit[s] => th[s].pc = "none"
    <3>1. f.errorCount <= f.faults
      OBVIOUS
    <3>2. ASSUME NEW s \in Sides
          PROVE  /\ th[s].pc = IF s \in started THEN "test" ELSE "none"
                 /\ f.quit[s] <=> s \notin started
      OBVIOUS
    <3> HIDE DEF f, th
    <3> QED
      BY <3>1, <3>2
  <2>6. teensy' = [teensy EXCEPT ![t] = f] /\ thread' = [thread EXCEPT ![t] = th]
    BY <2>1
  <2> HIDE DEF f, th
  <2>7. CoreType'
    BY <2>2, <2>3, <2>4, <2>6 DEF CoreInv, CoreType
  <2>8. \A u \in Teensy :
          /\ teensy'[u] = IF u = t THEN f ELSE teensy[u]
          /\ thread'[u] = IF u = t THEN th ELSE thread[u]
          /\ heap'[u] = IF u = t THEN "live" ELSE heap[u]
    BY <2>2, <2>6 DEF CoreInv, CoreType
  <2>9. QuitIsOver'
    BY <2>5, <2>8 DEF CoreInv, QuitIsOver, Over
  <2>10. ErrorsHappened'
    BY <2>5, <2>8 DEF CoreInv, ErrorsHappened
  <2>11. /\ list \in Seq(Teensy) /\ Len(list') = Len(list) + 1
         /\ list'[Len(list) + 1] = t
         /\ \A k \in 1 .. Len(list) : list'[k] = list[k]
    BY <2>2 DEF CoreInv, CoreType
  <2>12. \A k \in 1 .. Len(list) : list[k] \in Teensy /\ list[k] # t
    BY <1>2, <2>11 DEF CoreInv, NoUseAfterFree
  <2>13. NoRepetition'
    BY <2>11, <2>12 DEF CoreInv, NoRepetition
  <2>14. NoUseAfterFree'
    <3>1. \A u \in Teensy, s \in Sides :
            thread'[u][s].pc \notin {"none", "done"} => heap'[u] = "live"
      BY <2>8 DEF CoreInv, NoUseAfterFree
    <3>2. ASSUME NEW k \in 1 .. Len(list')
          PROVE  heap'[list'[k]] = "live"
      <4>1. CASE k = Len(list) + 1
        BY <2>8, <2>11, <4>1
      <4>2. CASE k \in 1 .. Len(list)
        BY <2>8, <2>11, <2>12, <4>2 DEF CoreInv, NoUseAfterFree
      <4> QED
        BY <2>11, <4>1, <4>2
    <3> QED
      BY <3>1, <3>2 DEF NoUseAfterFree
  <2> QED
    BY <2>7, <2>9, <2>10, <2>13, <2>14 DEF CoreInv
<1> QED
  BY <1>1, <1>2 DEF NewUsbDevice, NextUnused

-----------------------------------------------------------------------------
(***************************************************************************)
(* The actions of a thread.                                                *)
(***************************************************************************)

\* What the moves below need of the thread that moves.
LEMMA RunningThread ==
  ASSUME CoreInv, NEW t \in Teensy, NEW s \in Sides
  PROVE  /\ teensy[t] \in Fields
         /\ thread[t][s] \in Threads
         /\ thread[t] \in [Sides -> Threads]
         /\ teensy \in [Teensy -> Fields]
         /\ thread \in [Teensy -> [Sides -> Threads]]
         /\ teensy[t].errorCount <= teensy[t].faults
         /\ thread[t][s].pc \in {"add", "retry"}
              => thread[t][s].loaded + 1 <= teensy[t].faults
BY DEF CoreInv, CoreType, ErrorsHappened

\* The thread goes elsewhere and no field changes: between two transfers.
LEMMA GotoCore ==
  ASSUME CoreInv, NEW t \in Teensy, NEW s \in Sides, ~Over(t, s),
         NEW pc \in {"test", "transfer", "wait"}, Goto(t, s, pc),
         UNCHANGED <<list, heap, teensy>>
  PROVE  CoreInv'
<1> DEFINE f == teensy[t]
           th == [thread[t][s] EXCEPT !.pc = pc]
<1>1. f \in Fields /\ th \in Threads /\ th.pc = pc
  BY RunningThread DEF Threads
<1>2. teensy' = [teensy EXCEPT ![t] = f]
  BY RunningThread
<1>3. thread' = [thread EXCEPT ![t][s] = th]
  BY DEF Goto
<1>4. f.errorCount <= f.faults /\ f.faults <= f.faults
  BY RunningThread DEF Fields
<1> HIDE DEF th
<1> QED
  BY <1>1, <1>2, <1>3, <1>4, ThreadMove

\* The thread stores an error count that the errors so far justify.
LEMMA StoreCore ==
  ASSUME CoreInv, NEW t \in Teensy, NEW s \in Sides, ~Over(t, s),
         NEW pc \in {"test", "transfer"}, Goto(t, s, pc),
         NEW c \in Nat, c <= teensy[t].faults, NEW on \in BOOLEAN,
         teensy' = [teensy EXCEPT ![t].errorCount = c, ![t].online = on],
         UNCHANGED <<list, heap>>
  PROVE  CoreInv'
<1> DEFINE f == [teensy[t] EXCEPT !.errorCount = c, !.online = on]
           th == [thread[t][s] EXCEPT !.pc = pc]
<1>1. th \in Threads /\ th.pc = pc
  BY RunningThread DEF Threads
<1>2. /\ f \in Fields /\ f.quit = teensy[t].quit
      /\ teensy[t].faults <= f.faults /\ f.errorCount <= f.faults
  <2>1. teensy[t] \in Fields
    BY RunningThread
  <2>2. c \in 0 .. MaxFaults
    BY <2>1, LimitAssumption DEF Fields, LimitAssumption
  <2>3. f \in Fields /\ f.quit = teensy[t].quit
    BY <2>1, <2>2 DEF Fields
  <2>4. f.faults = teensy[t].faults /\ f.errorCount = c /\ f.faults \in Nat
    BY <2>1 DEF Fields
  <2> HIDE DEF f
  <2> QED
    BY <2>3, <2>4
<1>3. teensy' = [teensy EXCEPT ![t] = f]
  BY RunningThread
<1>4. thread' = [thread EXCEPT ![t][s] = th]
  BY DEF Goto
<1> HIDE DEF f, th
<1> QED
  BY <1>1, <1>2, <1>3, <1>4, ThreadMove

LEMMA ThreadCore ==
  ASSUME CoreInv, NEW t \in Teensy, NEW s \in Sides,
         ThreadStep(t, s) \/ Succeed(t, s) \/ Fail(t, s)
  PROVE  CoreInv'
<1>1. CASE TestOnline(t, s)
  <2>1. ~Over(t, s) /\ UNCHANGED <<list, heap>>
    BY <1>1 DEF TestOnline, At, Over, main
  <2>2. CASE teensy[t].online
    BY <1>1, <2>1, <2>2, GotoCore DEF TestOnline
  <2>3. CASE ~teensy[t].online
    <3> DEFINE f == [teensy[t] EXCEPT !.quit[s] = TRUE]
               th == [thread[t][s] EXCEPT !.pc = "done"]
    <3>1. th \in Threads /\ th.pc = "done"
      BY RunningThread DEF Threads
    <3>2. /\ f \in Fields
          /\ f.quit = [teensy[t].quit EXCEPT ![s] = TRUE]
          /\ teensy[t].faults <= f.faults /\ f.errorCount <= f.faults
      <4>1. teensy[t] \in Fields /\ teensy[t].errorCount <= teensy[t].faults
        BY RunningThread
      <4>2. f \in Fields /\ f.quit = [teensy[t].quit EXCEPT ![s] = TRUE]
        BY <4>1 DEF Fields
      <4>3. /\ f.faults = teensy[t].faults /\ f.faults \in Nat
            /\ f.errorCount = teensy[t].errorCount
        BY <4>1 DEF Fields
      <4> HIDE DEF f
      <4> QED
        BY <4>1, <4>2, <4>3
    <3>3. teensy' = [teensy EXCEPT ![t] = f]
      BY <1>1, <2>3, RunningThread DEF TestOnline
    <3>4. thread' = [thread EXCEPT ![t][s] = th]
      BY <1>1, <2>3 DEF TestOnline, Goto
    <3> HIDE DEF f, th
    <3> QED
      BY <2>1, <3>1, <3>2, <3>3, <3>4, ThreadMove
  <2> QED
    BY <2>2, <2>3
<1>2. CASE Succeed(t, s)
  <2> DEFINE left == IF Counting(t) THEN teensy[t].faults ELSE 0
             f == [teensy[t] EXCEPT !.errorCount = 0, !.faults = left]
             th == [thread[t][s] EXCEPT !.pc = "test"]
  <2>1. /\ ~Over(t, s) /\ UNCHANGED <<list, heap>> /\ Goto(t, s, "test")
        /\ teensy' = [teensy EXCEPT ![t].errorCount = 0,
                                   ![t].faults = left]
    BY <1>2, RunningThread DEF Succeed, At, Over, main
  <2>2. teensy[t] \in Fields /\ left \in 0 .. MaxFaults /\ left \in Nat
    BY RunningThread, LimitAssumption DEF Fields, LimitAssumption
  <2>3. ASSUME NEW r \in Sides, thread[t][r].pc \in {"add", "retry"}
        PROVE  left = teensy[t].faults
    BY <2>3 DEF Counting
  <2> HIDE DEF left
  <2>4. f \in Fields /\ f.quit = teensy[t].quit
    <3>1. 0 \in 0 .. MaxFaults
      BY LimitAssumption DEF LimitAssumption
    <3> QED
      BY <2>2, <3>1 DEF Fields
  <2>5. f.errorCount = 0 /\ f.faults = left
    BY <2>2 DEF Fields
  <2>6. th \in Threads /\ th.pc = "test"
    BY RunningThread DEF Threads
  <2>7. teensy' = [teensy EXCEPT ![t] = f]
    BY <2>1, RunningThread
  <2>8. thread' = [thread EXCEPT ![t][s] = th]
    BY <2>1 DEF Goto
  <2> HIDE DEF f, th
  <2>9. ASSUME NEW r \in Sides, thread[t][r].pc \in {"add", "retry"}
        PROVE  teensy[t].faults <= f.faults
    <3>1. left = teensy[t].faults
      BY <2>3, <2>9
    <3> QED
      BY <2>2, <2>5, <3>1
  <2>10. f.errorCount <= f.faults
    BY <2>2, <2>5
  <2> QED
    BY <2>1, <2>4, <2>6, <2>7, <2>8, <2>9, <2>10, ThreadMove
<1>3. CASE DeviceGone(t, s)
  <2>1. /\ ~Over(t, s) /\ UNCHANGED <<list, heap>> /\ Goto(t, s, "test")
        /\ teensy' = [teensy EXCEPT ![t].online = FALSE]
    BY <1>3 DEF DeviceGone, At, Over, main
  <2>2. teensy' = [teensy EXCEPT ![t].errorCount = teensy[t].errorCount,
                                 ![t].online = FALSE]
    BY <2>1, RunningThread DEF Fields
  <2>3. /\ teensy[t].errorCount \in Nat
        /\ teensy[t].errorCount <= teensy[t].faults
    BY RunningThread DEF Fields
  <2> QED
    BY <2>1, <2>2, <2>3, StoreCore
<1>4. CASE Fail(t, s)
  <2>1. /\ ~Over(t, s) /\ UNCHANGED <<list, heap>>
        /\ teensy[t].faults < MaxFaults
        /\ teensy' = [teensy EXCEPT ![t].faults = @ + 1]
    BY <1>4 DEF Fail, At, Over, main
  <2>2. PICK pc \in {"add", "retry"} :
          thread' = [thread EXCEPT ![t][s] =
                       [pc |-> pc, loaded |-> teensy[t].errorCount]]
    BY <1>4 DEF Fail
  <2> DEFINE f == [teensy[t] EXCEPT !.faults = @ + 1]
             th == [pc |-> pc, loaded |-> teensy[t].errorCount]
  <2>3. /\ th \in Threads /\ th.loaded = teensy[t].errorCount
        /\ th.pc # "done"
    BY RunningThread DEF Threads, Fields
  <2>4. /\ f \in Fields /\ f.quit = teensy[t].quit
        /\ f.errorCount = teensy[t].errorCount
        /\ f.faults = teensy[t].faults + 1
        /\ teensy[t].faults \in Nat /\ teensy[t].errorCount \in Nat
    <3>1. teensy[t] \in Fields
      BY RunningThread
    <3>2. teensy[t].faults + 1 \in 0 .. MaxFaults
      BY <2>1, <3>1, LimitAssumption DEF Fields, LimitAssumption
    <3>3. f \in Fields /\ f.quit = teensy[t].quit
      BY <3>1, <3>2 DEF Fields
    <3> QED
      BY <3>1, <3>3 DEF Fields
  <2>5. teensy' = [teensy EXCEPT ![t] = f]
    BY <2>1, RunningThread
  <2>6. thread' = [thread EXCEPT ![t][s] = th]
    BY <2>2
  <2> HIDE DEF f, th
  <2>7. /\ teensy[t].faults <= f.faults /\ f.errorCount <= f.faults
        /\ th.loaded + 1 <= f.faults
    BY <2>3, <2>4, RunningThread
  <2> QED
    BY <2>1, <2>3, <2>4, <2>5, <2>6, <2>7, ThreadMove
<1>5. CASE AddError(t, s)
  <2> DEFINE c == thread[t][s].loaded + 1
             on == teensy[t].online /\ ~TooManyErrors(c)
  <2>1. /\ ~Over(t, s) /\ UNCHANGED <<list, heap>> /\ Goto(t, s, "test")
        /\ thread[t][s].pc = "add"
    BY <1>5 DEF AddError, At, Over, main
  <2>2. c \in Nat /\ c <= teensy[t].faults /\ on \in BOOLEAN
    BY <2>1, RunningThread DEF Threads
  <2>3. teensy' = [teensy EXCEPT ![t].errorCount = c, ![t].online = on]
    BY <1>5 DEF AddError
  <2> HIDE DEF c, on
  <2> QED
    BY <2>1, <2>2, <2>3, StoreCore
<1>6. CASE s = "output" /\ RetryWrite(t)
  <2> DEFINE c == thread[t][s].loaded + 1
  <2>1. /\ ~Over(t, s) /\ UNCHANGED <<list, heap>>
        /\ thread[t][s].pc = "retry"
        /\ Goto(t, s, IF c < RetryLimit THEN "transfer" ELSE "test")
        /\ teensy' = [teensy EXCEPT ![t].errorCount = c]
    BY <1>6 DEF RetryWrite, At, Over, main
  <2>2. c \in Nat /\ c <= teensy[t].faults
    BY <2>1, RunningThread DEF Threads
  <2>3. PICK pc \in {"test", "transfer"} : Goto(t, s, pc)
    BY <2>1
  <2> HIDE DEF c
  <2>4. teensy' = [teensy EXCEPT ![t].errorCount = c,
                                 ![t].online = teensy[t].online]
    BY <2>1, RunningThread DEF Fields
  <2>5. teensy[t].online \in BOOLEAN
    BY RunningThread DEF Fields
  <2> QED
    BY <2>1, <2>2, <2>3, <2>4, <2>5, StoreCore
<1>7. CASE s = "output" /\ WaitOver(t)
  <2>1. /\ ~Over(t, s) /\ UNCHANGED <<list, heap, teensy>>
        /\ Goto(t, s, "test")
    BY <1>7 DEF WaitOver, At, Over, main
  <2> QED
    BY <2>1, GotoCore
<1> QED
  BY <1>1, <1>2, <1>3, <1>4, <1>5, <1>6, <1>7 DEF ThreadStep

-----------------------------------------------------------------------------
(***************************************************************************)
(* The bus and the main thread, and all steps together.                    *)
(***************************************************************************)

LEMMA BusStep ==
  ASSUME UsbInv, NEW n \in Node, PlugIn(n) \/ Unplug(n)
  PROVE  UsbInv'
<1>1. UNCHANGED main /\ UNCHANGED <<list, heap, teensy, thread>>
  BY DEF PlugIn, Unplug, main
<1>2. LoopType' /\ CoreInv'
  BY <1>1, SameLoop, SameCore DEF UsbInv
<1>3. events' \in Seq(Event)
  <2>1. ASSUME NEW action \in {"add", "remove"}, Notify(action, n)
        PROVE  events' \in Seq(Event)
    <3>1. [action |-> action, node |-> n] \in Event
      BY DEF Event
    <3> QED
      BY <2>1, <3>1 DEF UsbInv, BusType, Notify
  <2> QED
    BY <2>1 DEF PlugIn, Unplug
<1>4. plugs' \in 0 .. MaxPlugs /\ board' \in [Node -> 0 .. MaxPlugs]
  <2>1. CASE PlugIn(n)
    <3>1. plugs + 1 \in 0 .. MaxPlugs
      BY <2>1, LimitAssumption DEF PlugIn, UsbInv, BusType, LimitAssumption
    <3> QED
      BY <2>1, <3>1 DEF PlugIn, UsbInv, BusType
  <2>2. CASE Unplug(n)
    <3>1. 0 \in 0 .. MaxPlugs
      BY LimitAssumption DEF LimitAssumption
    <3> QED
      BY <2>2, <3>1 DEF Unplug, UsbInv, BusType
  <2> QED
    BY <2>1, <2>2
<1>5. monitoring' \in BOOLEAN
  BY DEF PlugIn, Unplug, UsbInv, BusType
<1> QED
  BY <1>2, <1>3, <1>4, <1>5 DEF UsbInv, BusType

\* new_usb_device notes a board that is plugged in, if any.
LEMMA RefusedType ==
  ASSUME UsbInv, NEW n \in Node, NewUsbDevice(n)
  PROVE  refused' \subseteq 1 .. MaxPlugs
<1>1. board[n] \in 0 .. MaxPlugs /\ refused \subseteq 1 .. MaxPlugs
  BY DEF UsbInv, BusType, LoopType
<1>2. board[n] # 0 => board[n] \in 1 .. MaxPlugs
  BY <1>1, LimitAssumption DEF LimitAssumption
<1>3. CASE refused' = refused \cup ({board[n]} \ {0})
  BY <1>1, <1>2, <1>3
<1> QED
  BY <1>1, <1>3 DEF NewUsbDevice

LEMMA MainStep ==
  ASSUME UsbInv, Main
  PROVE  UsbInv'
<1>1. CASE DeleteTeensy
  BY <1>1, DeleteCore, SameBus DEF UsbInv, DeleteTeensy, LoopType
<1>2. CASE OpenEnumerated
  <2>1. PICK n \in toOpen : NewUsbDevice(n) /\ toOpen' = toOpen \ {n}
    BY <1>2 DEF OpenEnumerated
  <2>2. n \in Node
    BY DEF UsbInv, LoopType
  <2>3. CoreInv'
    BY <2>1, <2>2, NewCore DEF UsbInv
  <2>4. LoopType'
    BY <1>2, <2>1, <2>2, RefusedType DEF UsbInv, LoopType, OpenEnumerated
  <2>5. BusType'
    BY <1>2, SameBus DEF UsbInv, OpenEnumerated
  <2> QED
    BY <2>3, <2>4, <2>5 DEF UsbInv
<1>3. CASE PollMonitor
  <2>1. CoreInv' /\ events' \in Seq(Event) /\ refused' \subseteq 1 .. MaxPlugs
    <3>1. CASE events = <<>>
      BY <1>3, <3>1, SameCore DEF PollMonitor, UsbInv, BusType, LoopType
    <3>2. CASE events # <<>>
      <4>1. /\ Head(events) \in Event
            /\ Tail(events) \in Seq(Event)
        BY <3>2 DEF UsbInv, BusType
      <4>2. Head(events).node \in Node /\ events' = Tail(events)
        BY <1>3, <3>2, <4>1 DEF PollMonitor, Event
      <4>3. CoreInv'
        BY <1>3, <3>2, <4>2, SameCore, NewCore DEF PollMonitor, UsbInv
      <4>4. refused' \subseteq 1 .. MaxPlugs
        BY <1>3, <3>2, <4>2, RefusedType DEF PollMonitor, UsbInv, LoopType
      <4> QED
        BY <4>1, <4>2, <4>3, <4>4
    <3> QED
      BY <3>1, <3>2
  <2>2. LoopType'
    BY <1>3, <2>1, LimitAssumption DEF PollMonitor, UsbInv, LoopType, LimitAssumption
  <2>3. BusType'
    BY <1>3, <2>1 DEF PollMonitor, UsbInv, BusType
  <2> QED
    BY <2>1, <2>2, <2>3 DEF UsbInv
<1>4. CASE SetupMonitor
  <2>1. UNCHANGED <<list, heap, teensy, thread>>
    BY <1>4 DEF SetupMonitor
  <2>2. BusType' /\ LoopType'
    BY <1>4 DEF SetupMonitor, UsbInv, BusType, LoopType
  <2> QED
    BY <2>1, <2>2, SameCore DEF UsbInv
<1>5. CASE DeleteDone \/ ScanDevices \/ OpenDone \/ SkipPoll \/ Transfer
  <2>1. UNCHANGED <<list, heap, teensy, thread>> /\ UNCHANGED bus
    BY <1>5 DEF DeleteDone, ScanDevices, OpenDone, SkipPoll, Transfer
  <2>2. mainPc' \in {"delete", "setup", "scan", "open", "poll", "transfer"}
    BY <1>5 DEF DeleteDone, ScanDevices, OpenDone, SkipPoll, Transfer
  <2>3. toOpen' \subseteq Node
    BY <1>5 DEF DeleteDone, ScanDevices, OpenDone, SkipPoll, Transfer,
                UsbInv, LoopType
  <2>4. frames' \in 0 .. FrameInterval - 1
    BY <1>5, LimitAssumption
       DEF DeleteDone, ScanDevices, OpenDone, SkipPoll, Transfer,
           UsbInv, LoopType, LimitAssumption
  <2>5. refused' \subseteq 1 .. MaxPlugs
    BY <1>5 DEF DeleteDone, ScanDevices, OpenDone, SkipPoll, Transfer,
                UsbInv, LoopType
  <2> QED
    BY <2>1, <2>2, <2>3, <2>4, <2>5, SameCore, SameBus DEF UsbInv, LoopType
<1> QED
  BY <1>1, <1>2, <1>3, <1>4, <1>5 DEF Main

LEMMA StepInv == UsbInv /\ [Next]_vars => UsbInv'
<1> SUFFICES ASSUME UsbInv, [Next]_vars
             PROVE  UsbInv'
  OBVIOUS
<1>1. ASSUME NEW n \in Node, PlugIn(n) \/ Unplug(n)
      PROVE  UsbInv'
  BY <1>1, BusStep
<1>2. CASE Main
  BY <1>2, MainStep
<1>3. ASSUME NEW t \in Teensy, NEW s \in Sides,
             ThreadStep(t, s) \/ Succeed(t, s) \/ Fail(t, s)
      PROVE  UsbInv'
  <2>1. UNCHANGED bus /\ UNCHANGED main
    BY <1>3 DEF ThreadStep, TestOnline, DeviceGone, AddError, RetryWrite,
                WaitOver, Succeed, Fail
  <2> QED
    BY <1>3, <2>1, ThreadCore, SameBus, SameLoop DEF UsbInv
<1>4. CASE UNCHANGED vars
  BY <1>4, SameBus, SameLoop, SameCore DEF UsbInv, vars, main
<1> QED
  BY <1>1, <1>2, <1>3, <1>4 DEF Next

LEMMA UsbSafe == Spec => []UsbInv
BY InitInv, StepInv, PTL DEF Spec

-----------------------------------------------------------------------------
(***************************************************************************)
(* The theorems.                                                           *)
(***************************************************************************)

\* Every variable keeps its type: error_count in particular never passes the
\* number of errors since a reset no increment could undo, although both
\* threads write it unlocked.
THEOREM UsbTypeCorrect == Spec => []TypeOK
<1>1. UsbInv => TypeOK
  BY DEF UsbInv, CoreInv, BusType, Event, LoopType, CoreType,
         TypeOK
<1> QED
  BY <1>1, UsbSafe, PTL

\* delete_offline_teensy never frees a teensy_t that a thread will touch
\* again, and the list it walks holds no freed one.
THEOREM NoThreadOutlivesTeensy == Spec => []NoUseAfterFree
<1>1. UsbInv => NoUseAfterFree
  BY DEF UsbInv, CoreInv
<1> QED
  BY <1>1, UsbSafe, PTL

\* What a step may do to online: clear it only if the board is gone or more
\* than ErrorLimit errors happened since a reset that still counts.
LEMMA OfflineStep ==
  ASSUME UsbInv, [Next]_vars, NEW t \in Teensy,
         teensy[t].online, ~teensy'[t].online
  PROVE  ~Connected(t) \/ teensy[t].faults > ErrorLimit
<1> USE DEF UsbInv, CoreInv
<1>1. teensy \in [Teensy -> Fields] /\ thread \in [Teensy -> [Sides -> Threads]]
  BY DEF CoreType
<1>2. ASSUME NEW n \in Node, NewUsbDevice(n)
      PROVE  FALSE
  <2>1. teensy' # teensy
    OBVIOUS
  <2>2. PICK u \in Teensy : heap[u] = "unused" /\ NewTeensy(u, n)
    BY <1>2, <2>1 DEF NewUsbDevice, NextUnused
  <2>3. PICK started \in SUBSET Sides :
          teensy' = [teensy EXCEPT ![u] =
            [node |-> n, plug |-> board[n], online |-> TRUE,
             quit |-> [s \in Sides |-> s \notin started],
             errorCount |-> 0, faults |-> 0]]
    BY <2>2 DEF NewTeensy
  <2> QED
    BY <1>1, <2>3
<1>3. ASSUME Main
      PROVE  FALSE
  <2>1. PICK n \in Node : NewUsbDevice(n)
    <3>1. teensy' # teensy
      OBVIOUS
    <3>2. CASE OpenEnumerated
      BY <3>2 DEF OpenEnumerated, LoopType
    <3>3. CASE PollMonitor
      <4>1. events # <<>> /\ NewUsbDevice(Head(events).node)
        BY <3>1, <3>3 DEF PollMonitor
      <4>2. Head(events) \in Event
        BY <4>1 DEF BusType
      <4> QED
        BY <4>1, <4>2 DEF Event
    <3> QED
      BY <1>3, <3>1, <3>2, <3>3
         DEF Main, DeleteTeensy, DeleteDone, SetupMonitor, ScanDevices,
             OpenDone, SkipPoll, Transfer
  <2> QED
    BY <1>2, <2>1
<1>4. ASSUME NEW u \in Teensy, NEW s \in Sides,
             ThreadStep(u, s) \/ Succeed(u, s) \/ Fail(u, s)
      PROVE  ~Connected(t) \/ teensy[t].faults > ErrorLimit
  <2>1. CASE DeviceGone(u, s)
    BY <1>1, <2>1 DEF DeviceGone
  <2>2. CASE AddError(u, s)
    <3> DEFINE c == thread[u][s].loaded + 1
    <3>1. /\ thread[u][s].pc = "add"
          /\ teensy' = [teensy EXCEPT
               ![u].errorCount = c,
               ![u].online = teensy[u].online /\ ~TooManyErrors(c)]
      BY <2>2 DEF AddError, At
    <3>2. c \in Nat /\ c <= teensy[u].faults /\ teensy[u].faults \in Nat
      BY <1>1, <3>1 DEF ErrorsHappened, Threads, Fields
    <3> HIDE DEF c
    <3>3. u = t
      BY <1>1, <3>1
    <3>4. teensy'[t].online = (teensy[t].online /\ ~(c > ErrorLimit))
      BY <1>1, <3>1, <3>3 DEF TooManyErrors, Fields
    <3>5. c > ErrorLimit
      BY <3>4
    <3> QED
      BY <3>2, <3>3, <3>5, LimitAssumption DEF LimitAssumption
  <2>3. CASE TestOnline(u, s) \/ Succeed(u, s) \/ Fail(u, s)
             \/ (s = "output" /\ (RetryWrite(u) \/ WaitOver(u)))
    <3>1. teensy'[t].online = teensy[t].online
      <4>1. CASE TestOnline(u, s)
        BY <1>1, <4>1 DEF TestOnline, Fields
      <4>2. CASE Succeed(u, s)
        BY <1>1, <4>2 DEF Succeed, Fields
      <4>3. CASE Fail(u, s)
        BY <1>1, <4>3 DEF Fail, Fields
      <4>4. CASE RetryWrite(u)
        BY <1>1, <4>4 DEF RetryWrite, Fields
      <4>5. CASE WaitOver(u)
        BY <4>5 DEF WaitOver
      <4> QED
        BY <2>3, <4>1, <4>2, <4>3, <4>4, <4>5
    <3> QED
      BY <3>1
  <2> QED
    BY <1>4, <2>1, <2>2, <2>3 DEF ThreadStep
<1>5. teensy' # teensy
  OBVIOUS
<1> QED
  BY <1>3, <1>4, <1>5 DEF Next, PlugIn, Unplug, vars

\* A board is taken offline only because it is gone or after more than
\* ErrorLimit errors since the last transfer that succeeded while no
\* increment of the other thread was under way.
THEOREM OfflineOnlyWithCause == Spec => OfflineHasCause
<1>1. UsbInv /\ [Next]_vars =>
        [\A t \in Teensy : teensy[t].online /\ ~teensy'[t].online
           => ~Connected(t) \/ teensy[t].faults > ErrorLimit]_vars
  BY OfflineStep
<1> QED
  BY <1>1, UsbSafe, PTL DEF Spec, OfflineHasCause
=============================================================================
