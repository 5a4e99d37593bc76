---------------------------- MODULE SimHubProofs ----------------------------
(***************************************************************************)
(* Proofs about SimHub, for any mapping file, units, values and bounds.    *)
(***************************************************************************)
EXTENDS SimHub, DataLemmas, FiniteSetTheorems

-----------------------------------------------------------------------------
(***************************************************************************)
(* Conversions.                                                            *)
(***************************************************************************)
Half == Thousandth \div 2
InThousandths(v) == v \in Nat /\ v % Thousandth = 0

LEMMA Units ==
  /\ Thousandth \in Nat \ {0} /\ One \in Nat \ {0} /\ One % Thousandth = 0
  /\ Half \in Nat /\ Half < Thousandth
BY SimHubAssumption DEF SimHubAssumption, Half

LEMMA TruncatedFacts ==
  ASSUME NEW v \in Nat
  PROVE  /\ InThousandths(Truncated(v))
         /\ Truncated(v) <= v /\ v < Truncated(v) + Thousandth
<1>1. Thousandth \in Nat \ {0}
  BY Units
<1> QED
  BY <1>1, CutOff DEF Truncated, InThousandths

\* There is one multiple of a thousandth just below v.
LEMMA TruncatedIs ==
  ASSUME NEW v \in Nat, NEW w, InThousandths(w),
         w <= v, v < w + Thousandth
  PROVE  Truncated(v) = w
<1>1. Thousandth \in Nat \ {0}
  BY Units
<1> QED
  BY <1>1, CutOffIs DEF Truncated, InThousandths

LEMMA RoundedFacts ==
  ASSUME NEW v \in Nat
  PROVE  /\ InThousandths(Rounded(v)) /\ Rounded(v) \in Nat
         /\ Rounded(v) <= v + Half /\ v + Half < Rounded(v) + Thousandth
<1>1. v + Half \in Nat
  BY Units
<1> QED
  BY <1>1, TruncatedFacts DEF Rounded, Half, InThousandths

LEMMA RoundedIs ==
  ASSUME NEW v \in Nat, NEW w, InThousandths(w),
         w <= v + Half, v + Half < w + Thousandth
  PROVE  Rounded(v) = w
<1>1. v + Half \in Nat
  BY Units
<1> QED
  BY <1>1, TruncatedIs DEF Rounded, Half

\* Less than half a thousandth more makes no difference.
LEMMA RoundedNear ==
  ASSUME NEW w, InThousandths(w), NEW n \in Nat, n + Half < Thousandth
  PROVE  Rounded(w + n) = w
<1>1. w \in Nat /\ w + n \in Nat
  BY DEF InThousandths
<1> QED
  BY <1>1, RoundedIs, Units

LEMMA RoundedSame ==
  ASSUME NEW w, InThousandths(w)
  PROVE  Rounded(w) = w
<1>1. w \in Nat /\ w + 0 = w
  BY DEF InThousandths
<1> QED
  BY <1>1, RoundedIs, Units

\* What is sent is a multiple of a thousandth.
LEMMA SentFacts ==
  ASSUME NEW r \in Mapping, NEW v \in Nat
  PROVE  Scaled(r, v) \in Nat /\ InThousandths(Scaled(r, v))
<1>1. WriteScale[r] \in Nat
  BY SimHubAssumption DEF SimHubAssumption
<1>2. v * WriteScale[r] \in Nat
  BY <1>1
<1> QED
  BY <1>2, RoundedFacts DEF Scaled

\* A multiple of a thousandth is one in the simulator's units, too.
LEMMA ScaledFacts ==
  ASSUME NEW r \in Mapping, NEW v, InThousandths(v)
  PROVE  Scaled(r, v) = v * WriteScale[r]
<1> DEFINE q == v \div Thousandth
           s == WriteScale[r]
<1>1. v \in Nat /\ q \in Nat /\ v = Thousandth * q
  BY Division, Units DEF InThousandths
<1>2. s \in Nat
  BY SimHubAssumption DEF SimHubAssumption
<1> HIDE DEF q, s
<1>3. q * s \in Nat /\ v * s = Thousandth * (q * s) /\ v * s \in Nat
  <2>1. q * s \in Nat /\ v * s \in Nat
    BY <1>1, <1>2
  <2>2. (Thousandth * q) * s = Thousandth * (q * s)
    BY <1>1, <1>2, Units
  <2> QED
    BY <1>1, <2>1, <2>2, Units
<1>4. (Thousandth * (q * s)) % Thousandth = 0
  BY <1>3, Units, Multiple
<1>5. InThousandths(v * s)
  BY <1>3, <1>4 DEF InThousandths
<1>6. Rounded(v * s) = v * s
  BY <1>5, RoundedSame
<1> QED
  BY <1>3, <1>5, <1>6 DEF Scaled, s

\* A variable that is v in the simulator's units is read back as v.
LEMMA ReadBack ==
  ASSUME NEW s \in Nat \ {0}, NEW v, InThousandths(v), NEW d \in Nat,
         Rounded(d) = v * s
  PROVE  Rounded(d \div s) = v
<1> DEFINE q == d \div s
           rest == d % s
<1>1. q \in Nat /\ rest \in 0 .. s - 1 /\ d = s * q + rest
  BY Division
<1>2. v \in Nat /\ v * s \in Nat /\ v * s = s * v
  BY DEF InThousandths
<1>3. s * v <= d + Half /\ d + Half < s * v + Thousandth
  BY <1>2, RoundedFacts
<1> HIDE DEF q, rest
<1>4. v <= q + Half
  <2> SUFFICES ASSUME q + Half < v PROVE FALSE
    BY <1>1, <1>2, Units
  <2>1. s * (q + Half) + s <= s * v
    BY <1>1, <1>2, Units, Multiples
  <2>2. s * (q + Half) = s * q + s * Half
    BY <1>1, Units
  <2>3. Half <= s * Half
    BY Units
  <2> QED
    BY <1>1, <1>2, <1>3, <2>1, <2>2, <2>3, Units
<1>5. q + Half < v + Thousandth
  <2> SUFFICES ASSUME v + (Thousandth - Half) <= q PROVE FALSE
    BY <1>1, <1>2, Units
  <2> DEFINE m == Thousandth - Half
  <2>1. m \in Nat /\ v + m <= q
    BY Units
  <2> HIDE DEF m
  <2>2. s * (v + m) <= s * q
    BY <1>1, <1>2, <2>1
  <2>3. s * (v + m) = s * v + s * m /\ m <= s * m
    BY <1>2, <2>1
  <2> QED
    BY <1>1, <1>2, <1>3, <2>1, <2>2, <2>3, Units DEF m
<1> QED
  BY <1>1, <1>2, <1>4, <1>5, RoundedIs DEF q

\* What a Teensy sends: an int is whole.
LEMMA HeardFacts ==
  ASSUME NEW r \in Mapping, NEW k \in KnobValue[r]
  PROVE  LET v == Heard(TypeOf[r], k)
         IN  /\ v \in Nat /\ OfType(TypeOf[r], v) = v
             /\ TypeOf[r] = "int" => InThousandths(v)
<1>1. k \in Nat /\ TypeOf[r] \in {"int", "float"}
  BY SimHubAssumption DEF SimHubAssumption
<1>2. CASE TypeOf[r] = "int"
  <2>1. k = Whole(k)
    BY <1>2, SimHubAssumption DEF SimHubAssumption
  <2>2. PICK a \in Nat, m \in 0 .. One - 1 : k = One * a + m /\ k % One = m
    BY <1>1, Units, Division
  <2>3. PICK b \in Nat, l \in 0 .. Thousandth - 1 :
          One = Thousandth * b + l /\ One % Thousandth = l
    BY Units, Division
  <2>4. k = One * a
    BY <1>1, <2>1, <2>2, Units DEF Whole
  <2>5. One = Thousandth * b
    BY <2>3, Units
  <2>6. /\ (Thousandth * b) * a = Thousandth * (b * a)
        /\ (Thousandth * (b * a)) % Thousandth = 0
    BY Units, Multiple
  <2>7. InThousandths(k)
    BY <1>1, <2>4, <2>5, <2>6 DEF InThousandths
  <2>8. Heard(TypeOf[r], k) = k /\ OfType(TypeOf[r], k) = k
    BY <1>2, <2>1 DEF Heard, OfType
  <2> QED
    BY <1>1, <2>7, <2>8
<1>3. CASE TypeOf[r] = "float"
  <2>1. Heard(TypeOf[r], k) = Narrow[Truncated(k)]
    BY <1>3 DEF Heard
  <2>2. Narrow[Truncated(k)] \in Nat
    BY <1>3, SimHubAssumption DEF SimHubAssumption
  <2> QED
    BY <1>3, <2>1, <2>2 DEF OfType
<1> QED
  BY <1>1, <1>2, <1>3

-----------------------------------------------------------------------------
(***************************************************************************)
(* Each variable that is read has an offset of its own, and each offset a  *)
(* variable.                                                               *)
(***************************************************************************)
LEMMA ReadMappings ==
  /\ IsFiniteSet(ReadMapping) /\ Cardinality(ReadMapping) \in Nat
  /\ ReadMapping \subseteq Nat
<1>1. IsFiniteSet(Mapping)
  BY SimHubAssumption, FS_Interval DEF SimHubAssumption, Mapping
<1>2. ReadMapping \in SUBSET Mapping
  BY SimHubAssumption DEF SimHubAssumption
<1>3. IsFiniteSet(ReadMapping)
  BY <1>1, <1>2, FS_Subset
<1>4. Mapping \subseteq Nat
  BY SimHubAssumption DEF SimHubAssumption, Mapping
<1> QED
  BY <1>2, <1>3, <1>4, FS_CardinalityType

LEMMA OffsetRange ==
  ASSUME NEW r \in ReadMapping
  PROVE  ReadOffset(r) \in Offsets
<1> DEFINE before == {q \in ReadMapping : q < r}
           others == ReadMapping \ {r}
<1>1. before \in SUBSET others
  BY ReadMappings
<1>2. /\ IsFiniteSet(others)
      /\ Cardinality(others) = Cardinality(ReadMapping) - 1
  BY ReadMappings, FS_RemoveElement
<1> HIDE DEF before, others
<1>3. IsFiniteSet(before) /\ Cardinality(before) <= Cardinality(ReadMapping) - 1
  BY <1>1, <1>2, FS_Subset
<1>4. Cardinality(before) \in Nat
  BY <1>3, FS_CardinalityType
<1>5. ReadOffset(r) = Cardinality(before)
  BY DEF ReadOffset, before
<1> QED
  BY <1>3, <1>4, <1>5, ReadMappings DEF Offsets

LEMMA OffsetsDiffer ==
  ASSUME NEW r \in ReadMapping, NEW q \in ReadMapping, q < r
  PROVE  ReadOffset(q) < ReadOffset(r)
<1> DEFINE low == {p \in ReadMapping : p < q}
           high == {p \in ReadMapping : p < r}
<1>1. high \in SUBSET ReadMapping /\ low \in SUBSET high
  <2>1. \A p \in ReadMapping : p < q => p < r
    BY ReadMappings
  <2> QED
    BY <2>1
<1>2. q \in high /\ q \notin low
  BY ReadMappings
<1> HIDE DEF low, high
<1>3. IsFiniteSet(high) /\ IsFiniteSet(low)
  BY <1>1, ReadMappings, FS_Subset
<1>4. /\ Cardinality(low) <= Cardinality(high)
      /\ Cardinality(high) = Cardinality(low) => high = low
  BY <1>1, <1>3, FS_Subset
<1>5. Cardinality(low) \in Nat /\ Cardinality(high) \in Nat
  BY <1>3, FS_CardinalityType
<1>6. ReadOffset(q) = Cardinality(low) /\ ReadOffset(r) = Cardinality(high)
  BY DEF ReadOffset, low, high
<1> QED
  BY <1>2, <1>4, <1>5, <1>6

LEMMA OffsetIsOwn ==
  ASSUME NEW r \in ReadMapping, NEW q \in ReadMapping,
         ReadOffset(q) = ReadOffset(r)
  PROVE  q = r
<1>1. q \in Nat /\ r \in Nat
  BY ReadMappings
<1>2. ReadOffset(q) \in Int /\ ReadOffset(r) \in Int
  BY OffsetRange DEF Offsets
<1> QED
  BY <1>1, <1>2, OffsetsDiffer

LEMMA OffsetIsUsed ==
  ASSUME NEW k \in Offsets
  PROVE  \E r \in ReadMapping : ReadOffset(r) = k
<1> DEFINE f == [r \in ReadMapping |-> ReadOffset(r)]
<1>1. f \in Injection(ReadMapping, Offsets)
  BY OffsetRange, OffsetIsOwn DEF Injection, IsInjective
<1>2. IsFiniteSet(Offsets) /\ Cardinality(Offsets) = Cardinality(ReadMapping)
  BY ReadMappings, FS_Interval DEF Offsets
<1>3. f \in Surjection(ReadMapping, Offsets)
  BY <1>1, <1>2, FS_Injection
<1> QED
  BY <1>3 DEF Surjection

\* A data message holds the variable of each mapping at its offset.
LEMMA SnapshotHolds ==
  /\ \A r \in ReadMapping : Snapshot[ReadOffset(r)] = sim[r]
  /\ \A k \in Offsets : \E r \in ReadMapping : Snapshot[k] = sim[r]
<1>1. ASSUME NEW k \in Offsets
      PROVE  LET r == CHOOSE r \in ReadMapping : ReadOffset(r) = k
             IN  r \in ReadMapping /\ ReadOffset(r) = k /\ Snapshot[k] = sim[r]
  BY OffsetIsUsed DEF Snapshot
<1>2. ASSUME NEW r \in ReadMapping
      PROVE  Snapshot[ReadOffset(r)] = sim[r]
  BY <1>1, OffsetRange, OffsetIsOwn
<1> QED
  BY <1>1, <1>2

-----------------------------------------------------------------------------
(***************************************************************************)
(* The loops of the delayed read and of step 2, turn by turn.              *)
(***************************************************************************)
Request == [ref : Mapping, val : Nat]
Reading == [data : [Offsets -> Nat], delay : [Mapping -> 0 .. SetDelay]]

\* Item r is the one of mapping r, and what the Teensy changed has a value.
ItemsOwn ==
  \A r \in Mapping :
    /\ items[r].id = r /\ items[r].type = TypeOf[r]
    /\ items[r].changed => items[r].val \in Nat

\* The body of the loop over the mappings.
ReadStep(before, n) ==
  IF setDelay[n] = 0 THEN before
  ELSE [data |-> IF CountDown(before.data, n) > 0 THEN Hide(before.data, n)
                 ELSE before.data,
        delay |-> [before.delay EXCEPT ![n] = CountDown(before.data, n)]]

LEMMA ReadStepType ==
  ASSUME TypeOK, NEW n \in Mapping, NEW before \in Reading
  PROVE  ReadStep(before, n) \in Reading
<1>1. CASE setDelay[n] = 0
  BY <1>1 DEF ReadStep
<1>2. CASE setDelay[n] # 0
  <2> DEFINE left == CountDown(before.data, n)
  <2>1. left \in 0 .. SetDelay
    <3>1. setDelay[n] \in 0 .. 3
      BY DEF TypeOK, SetDelay
    <3> QED
      BY <1>2, <3>1 DEF CountDown, SetDelay
  <2>2. /\ before.data \in [Offsets -> Nat]
        /\ before.delay \in [Mapping -> 0 .. SetDelay]
    BY DEF Reading
  <2>3. Hide(before.data, n) \in [Offsets -> Nat]
    BY <2>2 DEF TypeOK, Hide
  <2> HIDE DEF left
  <2>4. [before.delay EXCEPT ![n] = left] \in [Mapping -> 0 .. SetDelay]
    BY <2>1, <2>2
  <2> QED
    BY <1>2, <2>2, <2>3, <2>4 DEF ReadStep, Reading, left
<1> QED
  BY <1>1, <1>2

LEMMA DelayedReadSteps ==
  ASSUME TypeOK, NEW d \in [Offsets -> Nat]
  PROVE  \E f \in [0 .. dataMappings -> Reading] :
           /\ f[0] = [data |-> d, delay |-> setDelay]
           /\ \A n \in 1 .. dataMappings : f[n] = ReadStep(f[n - 1], n)
           /\ DelayedRead(d) = f[dataMappings]
<1> DEFINE N == dataMappings
           base == [data |-> d, delay |-> setDelay]
           step == [n \in 1 .. N |-> [x \in Reading |-> ReadStep(x, n)]]
           f[n \in 0 .. N] ==
             IF n = 0 THEN base
             ELSE LET before == f[n - 1]
                      left == CountDown(before.data, n)
                  IN  IF setDelay[n] = 0 THEN before
                      ELSE [data |-> IF left > 0 THEN Hide(before.data, n)
                                     ELSE before.data,
                            delay |-> [before.delay EXCEPT ![n] = left]]
<1>1. DelayedRead(d) = f[N]
  BY DEF DelayedRead
<1>2. f = CHOOSE g : g = [n \in 0 .. N |->
                            IF n = 0 THEN base ELSE ReadStep(g[n - 1], n)]
  BY DEF ReadStep
<1> HIDE DEF f
<1>3. N \in Nat
  BY SimHubAssumption DEF SimHubAssumption, TypeOK
<1>4. base \in Reading
  BY DEF Reading, TypeOK
<1>5. \A n \in 1 .. N : n \in Mapping
  BY SimHubAssumption DEF SimHubAssumption, TypeOK, Mapping
<1>6. step \in [1 .. N -> [Reading -> Reading]]
  BY <1>5, ReadStepType
<1>7. \A n \in 1 .. N, x \in Reading : step[n][x] = ReadStep(x, n)
  OBVIOUS
<1> HIDE DEF N, base, step, Reading
<1>8. PICK g \in [0 .. N -> Reading] : Follows(g, N, base, step)
  BY <1>3, <1>4, <1>6, Recursion
<1>9. \A n \in 0 .. N : g[n] = IF n = 0 THEN base ELSE ReadStep(g[n - 1], n)
  <2> TAKE n \in 0 .. N
  <2>1. n # 0 => n \in 1 .. N /\ n - 1 \in 0 .. N
    BY <1>3
  <2> QED
    BY <2>1, <1>7, <1>8 DEF Follows
<1>10. g = [n \in 0 .. N |-> IF n = 0 THEN base ELSE ReadStep(g[n - 1], n)]
  BY <1>8, <1>9
<1>11. f = [n \in 0 .. N |-> IF n = 0 THEN base ELSE ReadStep(f[n - 1], n)]
  BY <1>2, <1>10
<1>12. \A n \in 0 .. N : f[n] = IF n = 0 THEN base ELSE ReadStep(f[n - 1], n)
  BY <1>11
<1>13. \A n \in 0 .. N : f[n] \in Reading
  <2> DEFINE S == {n \in 0 .. N : f[n] \in Reading}
  <2>1. 0 \in S
    BY <1>3, <1>4, <1>12
  <2>2. ASSUME NEW n \in 1 .. N, n - 1 \in S
        PROVE  n \in S
    <3>1. n \in 0 .. N /\ n # 0 /\ f[n - 1] \in Reading
      BY <2>2, <1>3
    <3>2. f[n] = step[n][f[n - 1]]
      BY <3>1, <1>7, <1>12
    <3> QED
      BY <3>1, <3>2, <1>6
  <2> HIDE DEF S
  <2>3. \A n \in 0 .. N : n \in S
    BY <1>3, <2>1, <2>2, UpTo
  <2> QED
    BY <2>3 DEF S
<1>14. f \in [0 .. N -> Reading]
  BY <1>11, <1>13
<1>15. f[0] = base /\ \A n \in 1 .. N : f[n] = ReadStep(f[n - 1], n)
  BY <1>3, <1>12
<1> QED
  BY <1>1, <1>14, <1>15 DEF N, base

\* The body of the loop over the items.
RequestStep(before, n) ==
  IF n \in Written
  THEN Append(before, [ref |-> n, val |-> Scaled(n, items[n].val)])
  ELSE before

LEMMA RequestType ==
  ASSUME ItemsOwn, NEW n \in Written
  PROVE  [ref |-> n, val |-> Scaled(n, items[n].val)] \in Request
<1>1. n \in Mapping /\ items[n].val \in Nat
  BY DEF ItemsOwn, Written
<1>2. Scaled(n, items[n].val) \in Nat
  BY <1>1, SentFacts
<1> QED
  BY <1>1, <1>2 DEF Request

LEMMA RequestedSteps ==
  ASSUME TypeOK, ItemsOwn
  PROVE  \E f \in [0 .. NumMappings -> Seq(Request)] :
           /\ f[0] = requests
           /\ \A n \in 1 .. NumMappings : f[n] = RequestStep(f[n - 1], n)
           /\ Requested = f[NumMappings]
<1> DEFINE N == NumMappings
           A == Seq(Request)
           step == [n \in 1 .. N |-> [x \in A |-> RequestStep(x, n)]]
           f[n \in 0 .. N] ==
             IF n = 0 THEN requests
             ELSE IF n \in Written
             THEN Append(f[n - 1], [ref |-> n, val |-> Scaled(n, items[n].val)])
             ELSE f[n - 1]
<1>1. Requested = f[N]
  BY DEF Requested
<1>2. f = CHOOSE g : g = [n \in 0 .. N |->
                            IF n = 0 THEN requests ELSE RequestStep(g[n - 1], n)]
  BY DEF RequestStep
<1> HIDE DEF f
<1>3. N \in Nat
  BY SimHubAssumption DEF SimHubAssumption
<1>4. requests \in A
  BY DEF TypeOK, Request
<1>5. \A n \in 1 .. N : n \in Mapping
  BY DEF Mapping
<1>6. step \in [1 .. N -> [A -> A]]
  <2>1. ASSUME NEW n \in 1 .. N, NEW x \in A
        PROVE  RequestStep(x, n) \in A
    <3> HIDE DEF A
    <3>1. CASE n \in Written
      <4>1. Append(x, [ref |-> n, val |-> Scaled(n, items[n].val)]) \in A
        BY <3>1, RequestType, AppendFacts DEF A
      <4> QED
        BY <3>1, <4>1 DEF RequestStep
    <3>2. CASE n \notin Written
      BY <3>2 DEF RequestStep
    <3> QED
      BY <3>1, <3>2
  <2> HIDE DEF A
  <2> QED
    BY <2>1
<1>7. \A n \in 1 .. N, x \in A : step[n][x] = RequestStep(x, n)
  OBVIOUS
<1> HIDE DEF N, A, step
<1>8. PICK g \in [0 .. N -> A] : Follows(g, N, requests, step)
  BY <1>3, <1>4, <1>6, Recursion
<1>9. \A n \in 0 .. N :
        g[n] = IF n = 0 THEN requests ELSE RequestStep(g[n - 1], n)
  <2> TAKE n \in 0 .. N
  <2>1. n # 0 => n \in 1 .. N /\ n - 1 \in 0 .. N
    BY <1>3
  <2> QED
    BY <2>1, <1>7, <1>8 DEF Follows
<1>10. g = [n \in 0 .. N |-> IF n = 0 THEN requests ELSE RequestStep(g[n - 1], n)]
  BY <1>8, <1>9
<1>11. f = [n \in 0 .. N |-> IF n = 0 THEN requests ELSE RequestStep(f[n - 1], n)]
  BY <1>2, <1>10
<1>12. \A n \in 0 .. N :
         f[n] = IF n = 0 THEN requests ELSE RequestStep(f[n - 1], n)
  BY <1>11
<1>13. \A n \in 0 .. N : f[n] \in A
  <2> DEFINE S == {n \in 0 .. N : f[n] \in A}
  <2>1. 0 \in S
    BY <1>3, <1>4, <1>12
  <2>2. ASSUME NEW n \in 1 .. N, n - 1 \in S
        PROVE  n \in S
    <3>1. n \in 0 .. N /\ n # 0 /\ f[n - 1] \in A
      BY <2>2, <1>3
    <3>2. f[n] = step[n][f[n - 1]]
      BY <3>1, <1>7, <1>12
    <3> QED
      BY <3>1, <3>2, <1>6
  <2> HIDE DEF S
  <2>3. \A n \in 0 .. N : n \in S
    BY <1>3, <2>1, <2>2, UpTo
  <2> QED
    BY <2>3 DEF S
<1>14. f \in [0 .. N -> A]
  BY <1>11, <1>13
<1>15. f[0] = requests /\ \A n \in 1 .. N : f[n] = RequestStep(f[n - 1], n)
  BY <1>3, <1>12
<1> QED
  BY <1>1, <1>14, <1>15 DEF N, A

-----------------------------------------------------------------------------
(***************************************************************************)
(* Types.                                                                  *)
(***************************************************************************)
TypeInv == TypeOK /\ ItemsOwn

LEMMA ItemFacts ==
  ASSUME NEW item \in Item, NEW v \in Nat \cup {NoValue}, NEW b \in BOOLEAN
  PROVE  /\ [item EXCEPT !.val = v] \in Item
         /\ [item EXCEPT !.remote = v] \in Item
         /\ [item EXCEPT !.changed = b] \in Item
         /\ [item EXCEPT !.changed = b].id = item.id
         /\ [item EXCEPT !.changed = b].type = item.type
         /\ [item EXCEPT !.changed = b].val = item.val
         /\ [item EXCEPT !.changed = b].changed = b
  BY DEF Item

LEMMA ReadItemFacts ==
  ASSUME NEW item \in Item, NEW v \in Nat \cup {NoValue}
  PROVE  LET read == ReadItem(item, v)
         IN  /\ read \in Item /\ read.id = item.id /\ read.type = item.type
             /\ v # NoValue => read.val = OfType(item.type, v)
             /\ v = NoValue => read.val \in {NoValue, item.val}
<1>1. OfType(item.type, v) \in Nat \/ v = NoValue
  <2>1. ASSUME v \in Nat
        PROVE  Whole(v) \in Nat
    BY <2>1, Division, Units DEF Whole
  <2> QED
    BY <2>1 DEF OfType
<1> DEFINE t == OfType(item.type, v)
<1>2. CASE v # NoValue
  <2>1. ReadItem(item, v) = [item EXCEPT !.val = t]
    BY <1>2 DEF ReadItem
  <2>2. t \in Nat
    BY <1>1, <1>2
  <2> HIDE DEF t
  <2>3. /\ [item EXCEPT !.val = t] \in Item
        /\ [item EXCEPT !.val = t].val = t
        /\ [item EXCEPT !.val = t].id = item.id
        /\ [item EXCEPT !.val = t].type = item.type
    BY <2>2 DEF Item
  <2> QED
    BY <1>2, <2>1, <2>3 DEF t
<1>3. CASE v = NoValue
  BY <1>3 DEF ReadItem, Item
<1> QED
  BY <1>2, <1>3

\* What the Teensy's message does to the items.
LEMMA WriteItemFacts ==
  ASSUME TypeInv, NEW r \in Mapping, NEW v \in KnobValue[r]
  PROVE  LET written == WriteItem(items, r, v)
         IN  /\ written \in [Mapping -> Item]
             /\ \A i \in Mapping :
                  /\ i # r => written[i] = items[i]
                  /\ i = r => /\ written[i].id = r
                              /\ written[i].type = TypeOf[r]
                              /\ written[i].changed
                              /\ written[i].val = Heard(TypeOf[r], v)
<1>1. NumMappings \in Nat /\ Mapping = 1 .. NumMappings
  BY SimHubAssumption DEF SimHubAssumption, Mapping
<1>2. items \in [1 .. NumMappings -> Item]
  BY <1>1 DEF TypeInv, TypeOK
<1> HIDE DEF Item
<1>3. 1 .. Len(items) = Mapping
  BY <1>1, <1>2, SeqOfFunction
<1> DEFINE w == Heard(TypeOf[r], v)
           new == [items[r] EXCEPT !.val = w, !.remote = w, !.changed = TRUE]
<1>4. WriteItem(items, r, v) = [i \in Mapping |-> IF i # r THEN items[i] ELSE new]
  BY <1>3 DEF WriteItem, TypeInv, ItemsOwn
<1>5. w \in Nat /\ items[r] \in Item
  BY HeardFacts DEF TypeInv, TypeOK
<1> HIDE DEF w
<1>6. /\ new \in Item /\ new.id = items[r].id /\ new.type = items[r].type
      /\ new.changed = TRUE /\ new.val = w
  <2>1. ASSUME NEW b \in BOOLEAN
        PROVE  LET n == [items[r] EXCEPT !.val = w, !.remote = w, !.changed = b]
               IN  /\ n \in Item /\ n.id = items[r].id
                   /\ n.type = items[r].type /\ n.changed = b /\ n.val = w
    BY <1>5 DEF Item
  <2> QED
    BY <2>1
<1> HIDE DEF new
<1>7. [i \in Mapping |-> IF i # r THEN items[i] ELSE new] \in [Mapping -> Item]
  BY <1>6 DEF TypeInv, TypeOK
<1> QED
  BY <1>4, <1>6, <1>7 DEF TypeInv, ItemsOwn, w

LEMMA DataRefReadType ==
  ASSUME TypeOK, NEW r \in Mapping
  PROVE  DataRefRead(r) \in Nat \cup {NoValue}
<1>1. CASE TestValue[r] # NoValue
  BY <1>1, SimHubAssumption DEF SimHubAssumption, DataRefRead
<1>2. CASE TestValue[r] = NoValue /\ data = NoData
  BY <1>2 DEF DataRefRead
<1>3. CASE TestValue[r] = NoValue /\ data # NoData
  <2>1. data[ReadOffset(r)] \in Nat
    <3>1. ReadOffset(r) \in Offsets
      <4>1. 0 \in Offsets
        <5>1. Cardinality(ReadMapping) # 0
          BY ReadMappings, FS_EmptySet, SimHubAssumption DEF SimHubAssumption
        <5> QED
          BY <5>1, ReadMappings DEF Offsets
      <4> QED
        BY <4>1, OffsetRange DEF ReadOffset
    <3> QED
      BY <1>3, <3>1 DEF TypeOK
  <2>2. ReadScale[r] \in Nat \ {0}
    BY SimHubAssumption DEF SimHubAssumption
  <2>3. data[ReadOffset(r)] \div ReadScale[r] \in Nat
    BY <2>1, <2>2, Division
  <2>4. DataRefRead(r) = Rounded(data[ReadOffset(r)] \div ReadScale[r])
    BY <1>3 DEF DataRefRead
  <2> QED
    BY <2>3, <2>4, RoundedFacts
<1> QED
  BY <1>1, <1>2, <1>3

LEMMA SnapshotType ==
  ASSUME TypeOK
  PROVE  Snapshot \in [Offsets -> Nat]
<1>1. \A r \in ReadMapping : sim[r] \in Nat
  BY SimHubAssumption DEF SimHubAssumption, TypeOK
<1>2. \A k \in Offsets : Snapshot[k] \in Nat
  BY <1>1, SnapshotHolds
<1>3. Snapshot = [k \in Offsets |-> Snapshot[k]]
  BY DEF Snapshot
<1> QED
  BY <1>2, <1>3

LEMMA DelayedReadType ==
  ASSUME TypeOK, NEW d \in [Offsets -> Nat]
  PROVE  DelayedRead(d) \in Reading
<1>1. dataMappings \in 0 .. dataMappings
  BY SimHubAssumption DEF SimHubAssumption, TypeOK
<1>2. \E f \in [0 .. dataMappings -> Reading] :
        DelayedRead(d) = f[dataMappings]
  BY DelayedReadSteps
<1> HIDE DEF Reading
<1> QED
  BY <1>1, <1>2

LEMMA RequestedType ==
  ASSUME TypeInv
  PROVE  Requested \in Seq(Request)
<1>1. NumMappings \in 0 .. NumMappings
  BY SimHubAssumption DEF SimHubAssumption
<1> DEFINE A == Seq(Request)
<1>2. \E f \in [0 .. NumMappings -> A] : Requested = f[NumMappings]
  BY RequestedSteps DEF TypeInv
<1> HIDE DEF A
<1>3. Requested \in A
  BY <1>1, <1>2
<1> QED
  BY <1>3 DEF A

\* Step 3 for one item.
Read(r) ==
  [(IF DataRefWritten(setDelay', r) THEN items[r]
    ELSE ReadItem(items[r], DataRefRead(r))) EXCEPT !.changed = FALSE]

LEMMA ReadFacts ==
  ASSUME TypeInv, NEW r \in Mapping
  PROVE  /\ Read(r) \in Item /\ Read(r).id = r /\ Read(r).type = TypeOf[r]
         /\ Read(r).changed = FALSE
         /\ setDelay'[r] > 0 => Read(r).val = items[r].val
         /\ ~(setDelay'[r] > 0) /\ DataRefRead(r) = NoValue =>
              Read(r).val \in {NoValue, items[r].val}
         /\ ~(setDelay'[r] > 0) /\ DataRefRead(r) # NoValue =>
              Read(r).val = OfType(TypeOf[r], DataRefRead(r))
<1> DEFINE v == DataRefRead(r)
           item == items[r]
           read == ReadItem(item, v)
           kept == IF DataRefWritten(setDelay', r) THEN item ELSE read
<1>1. v \in Nat \cup {NoValue}
  BY DataRefReadType DEF TypeInv
<1>2. item \in Item /\ item.id = r /\ item.type = TypeOf[r]
  BY DEF TypeInv, TypeOK, ItemsOwn
<1> HIDE DEF v, item, Item
<1>3. /\ read \in Item /\ read.id = r /\ read.type = TypeOf[r]
      /\ v # NoValue => read.val = OfType(TypeOf[r], v)
      /\ v = NoValue => read.val \in {NoValue, item.val}
  BY <1>1, <1>2, ReadItemFacts
<1> HIDE DEF read
<1>4. /\ kept \in Item /\ kept.id = r /\ kept.type = TypeOf[r]
      /\ setDelay'[r] > 0 => kept = item
      /\ ~(setDelay'[r] > 0) => kept = read
  BY <1>2, <1>3 DEF DataRefWritten
<1>5. Read(r) = [kept EXCEPT !.changed = FALSE]
  BY DEF Read, read, v, item
<1> HIDE DEF kept
<1>6. /\ Read(r) \in Item /\ Read(r).id = kept.id /\ Read(r).type = kept.type
      /\ Read(r).val = kept.val /\ Read(r).changed = FALSE
  BY <1>4, <1>5, ItemFacts
<1> QED
  BY <1>3, <1>4, <1>6 DEF item, v

LEMMA NoFlags ==
  /\ [r \in Mapping |-> FALSE] \in [Mapping -> BOOLEAN]
  /\ [r \in Mapping |-> NoValue] \in [Mapping -> Nat \cup {NoValue}]
<1>1. ASSUME NEW b \in BOOLEAN
      PROVE  [r \in Mapping |-> b] \in [Mapping -> BOOLEAN]
  OBVIOUS
<1>2. FALSE \in BOOLEAN
  OBVIOUS
<1> QED
  BY <1>1, <1>2

\* Whether the variables are accepted or not.
LEMMA TypeSimOpen ==
  ASSUME TypeOK, SimOpen, up, phase' \in {"redispatch", "input"},
         UNCHANGED <<retryDelay, data, delayed, items, snapshots, up, sim,
                     requests, user, changes>>
  PROVE  TypeOK'
<1>1. connected' \in BOOLEAN /\ alive' \in BOOLEAN /\ up' /\ fresh' = {}
  BY DEF SimOpen, TypeOK
<1>2. quit' \in BOOLEAN /\ dataMappings' \in {0, NumMappings}
  BY DEF SimOpen, TypeOK
<1>3. faults' \in 0 .. MaxFaults
  BY SimHubAssumption DEF SimHubAssumption, SimOpen, TypeOK
<1> QED
  BY <1>1, <1>2, <1>3 DEF TypeOK, delayed, user

LEMMA TypeInit == Init => TypeInv
<1> SUFFICES ASSUME Init PROVE TypeInv
  OBVIOUS
<1>1. Value \subseteq Nat /\ SimStart \in [Mapping -> Value]
  BY SimHubAssumption DEF SimHubAssumption
<1>2. requests \in Seq([ref : Mapping, val : Nat])
  BY DEF Init
<1>3. items \in [Mapping -> Item]
  BY SimHubAssumption DEF SimHubAssumption, Init, Item
<1>4. TypeOK
  <2>1. own \in [Mapping -> BOOLEAN] /\ set \in [Mapping -> Nat \cup {NoValue}]
    BY NoFlags DEF Init
  <2>2. /\ setValue \in [Mapping -> Nat]
        /\ setDelay \in [Mapping -> 0 .. SetDelay]
        /\ sim \in [Mapping -> Nat]
    <3>1. 0 \in Nat /\ 0 \in 0 .. SetDelay
      BY DEF SetDelay
    <3>2. \A r \in Mapping : SimStart[r] \in Nat
      BY <1>1
    <3> QED
      BY <1>1, <3>1, <3>2 DEF Init
  <2>3. /\ retryDelay \in 0 .. RetryDelay /\ snapshots \in 0 .. MaxSnapshots
        /\ turns \in 0 .. MaxTurns /\ changes \in 0 .. MaxChanges
        /\ faults \in 0 .. MaxFaults
    BY SimHubAssumption DEF SimHubAssumption, Init
  <2> QED
    BY <1>2, <1>3, <2>1, <2>2, <2>3 DEF Init, TypeOK
<1>5. ItemsOwn
  BY DEF Init, ItemsOwn
<1> QED
  BY <1>4, <1>5 DEF TypeInv

LEMMA TypeDispatchData ==
  ASSUME TypeInv, DispatchData
  PROVE  TypeInv'
<1> DEFINE read == DelayedRead(Snapshot)
<1>1. read \in Reading
  BY SnapshotType, DelayedReadType DEF TypeInv
<1>2. data' = read.data /\ setDelay' = read.delay
  BY DEF DispatchData
<1>3. data' \in [Offsets -> Nat] /\ setDelay' \in [Mapping -> 0 .. SetDelay]
  BY <1>1, <1>2 DEF Reading
<1>4. snapshots' \in 0 .. MaxSnapshots
  BY SimHubAssumption DEF SimHubAssumption, TypeInv, TypeOK, DispatchData
<1>5. fresh' \subseteq WritesRead
  BY DEF DispatchData
<1>6. TypeOK'
  BY <1>3, <1>4, <1>5 DEF DispatchData, TypeInv, TypeOK, link, world, user
<1>7. ItemsOwn'
  BY DEF DispatchData, TypeInv, ItemsOwn
<1> QED
  BY <1>6, <1>7 DEF TypeInv

LEMMA TypeInput ==
  ASSUME TypeInv, NEW r \in Mapping, NEW v \in KnobValue[r], Input(r, v)
  PROVE  TypeInv'
<1>1. /\ items' \in [Mapping -> Item]
      /\ \A i \in Mapping :
           /\ i # r => items'[i] = items[i]
           /\ i = r => /\ items'[i].id = r /\ items'[i].type = TypeOf[r]
                       /\ items'[i].changed
                       /\ items'[i].val = Heard(TypeOf[r], v)
  BY WriteItemFacts DEF Input
<1>2. Heard(TypeOf[r], v) \in Nat
  BY HeardFacts
<1>3. set' \in [Mapping -> Nat \cup {NoValue}]
  BY <1>1, <1>2 DEF Input, TypeInv, TypeOK
<1>4. own' \in [Mapping -> BOOLEAN]
  BY DEF Input, TypeInv, TypeOK
<1>5. turns' \in 0 .. MaxTurns
  BY SimHubAssumption DEF SimHubAssumption, Input, TypeInv, TypeOK
<1> HIDE DEF Item
<1>6. TypeOK'
  BY <1>1, <1>3, <1>4, <1>5 DEF Input, TypeInv, TypeOK, link, delayed, world
<1>7. ItemsOwn'
  BY <1>1, <1>2 DEF TypeInv, ItemsOwn
<1> QED
  BY <1>6, <1>7 DEF TypeInv

LEMMA TypeUpdate ==
  ASSUME TypeInv, Update
  PROVE  TypeInv'
<1>1. items' = [r \in Mapping |-> Read(r)]
  BY DEF Update, Read
<1>2. items' \in [Mapping -> Item] /\ ItemsOwn'
  <2>1. \A r \in Mapping :
          Read(r) \in Item /\ Read(r).id = r /\ Read(r).type = TypeOf[r]
          /\ Read(r).changed = FALSE
    BY ReadFacts
  <2> HIDE DEF Item
  <2> QED
    BY <1>1, <2>1 DEF ItemsOwn
<1>3. requests' \in Seq(Request)
  BY RequestedType DEF Update, TypeInv, TypeOK, Request
<1>4. setValue' \in [Mapping -> Nat]
  <2>1. \A r \in Written : Scaled(r, items[r].val) \in Nat
    BY RequestType DEF TypeInv, Request
  <2> QED
    BY <2>1 DEF Update, TypeInv, TypeOK
<1>5. setDelay' \in [Mapping -> 0 .. SetDelay]
  BY DEF Update, TypeInv, TypeOK, SetDelay
<1>6. own' \in [Mapping -> BOOLEAN]
  BY DEF Update, TypeInv, TypeOK
<1>7. alone' \subseteq Mapping
  BY DEF Update
<1> HIDE DEF Item
<1>8. TypeOK'
  BY <1>2, <1>3, <1>4, <1>5, <1>6, <1>7
  DEF Update, TypeInv, TypeOK, link, Request
<1> QED
  BY <1>2, <1>8 DEF TypeInv

LEMMA OutputFacts ==
  ASSUME TypeInv, Output
  PROVE  /\ items' \in [Mapping -> Item]
         /\ \A i \in Mapping :
              /\ items'[i].id = items[i].id /\ items'[i].type = items[i].type
              /\ items'[i].val = items[i].val
              /\ items'[i].changed = items[i].changed
<1>1. NumMappings \in Nat /\ Mapping = 1 .. NumMappings
  BY SimHubAssumption DEF SimHubAssumption, Mapping
<1>2. items \in [1 .. NumMappings -> Item]
  BY <1>1 DEF TypeInv, TypeOK
<1>3. Len(items) = NumMappings
  <2> HIDE DEF Item
  <2> QED
    BY <1>1, <1>2, SeqOfFunction
<1>4. items' = [i \in Mapping |-> [items[i] EXCEPT !.remote = items[i].val]]
  BY <1>1, <1>3 DEF Output, MarkSent
<1>5. \A i \in Mapping :
        LET sent == [items[i] EXCEPT !.remote = items[i].val]
        IN  /\ sent \in Item /\ sent.id = items[i].id
            /\ sent.type = items[i].type /\ sent.val = items[i].val
            /\ sent.changed = items[i].changed
  <2> TAKE i \in Mapping
  <2>1. items[i] \in Item
    BY DEF TypeInv, TypeOK
  <2> QED
    BY <2>1 DEF Item
<1> HIDE DEF Item
<1> QED
  BY <1>4, <1>5

LEMMA TypeOutput ==
  ASSUME TypeInv, Output
  PROVE  TypeInv'
<1> HIDE DEF Item
<1>1. items' \in [Mapping -> Item] /\ ItemsOwn'
  BY OutputFacts DEF TypeInv, ItemsOwn
<1>2. TypeOK'
  BY <1>1 DEF Output, TypeInv, TypeOK, link, delayed, world, user
<1> QED
  BY <1>1, <1>2 DEF TypeInv

LEMMA TypeApplyWrite ==
  ASSUME TypeInv, ApplyWrite
  PROVE  TypeInv'
<1>1. requests \in Seq(Request) /\ requests # <<>>
  BY DEF TypeInv, TypeOK, Request, ApplyWrite
<1>2. requests' \in Seq(Request) /\ Head(requests) \in Request
  <2> DEFINE A == Request
  <2>1. requests \in Seq(A) /\ requests # <<>>
    BY <1>1
  <2> HIDE DEF A
  <2>2. Tail(requests) \in Seq(A) /\ Head(requests) \in A
    BY <2>1, TailFacts
  <2> QED
    BY <2>2 DEF A, ApplyWrite
<1>3. \E v \in Nat : sim' = [sim EXCEPT ![Head(requests).ref] = v]
  <2> DEFINE q == Head(requests).ref
             w == Head(requests).val
  <2>1. q \in Mapping /\ w \in Nat
    BY <1>2 DEF Request
  <2>2. \A n \in {0} \cup Noise : w + n \in Nat
    BY <2>1, SimHubAssumption DEF SimHubAssumption
  <2>3. \A v \in {sim[q]} \cup SimValue[q] : v \in Nat
    BY <2>1, SimHubAssumption DEF SimHubAssumption, TypeInv, TypeOK
  <2> HIDE DEF q, w
  <2>4. \/ \E n \in {0} \cup Noise : sim' = [sim EXCEPT ![q] = w + n]
        \/ \E v \in {sim[q]} \cup SimValue[q] : sim' = [sim EXCEPT ![q] = v]
    BY DEF ApplyWrite, q, w
  <2> QED
    BY <2>2, <2>3, <2>4 DEF q
<1>4. sim' \in [Mapping -> Nat]
  BY <1>2, <1>3 DEF TypeInv, TypeOK, Request
<1>5. TypeOK'
  BY <1>2, <1>4 DEF ApplyWrite, TypeInv, TypeOK, link, delayed, user, Request
<1>6. ItemsOwn'
  BY DEF ApplyWrite, TypeInv, ItemsOwn
<1> QED
  BY <1>5, <1>6 DEF TypeInv

LEMMA TypeStep == TypeInv /\ [Next]_vars => TypeInv'
<1> SUFFICES ASSUME TypeInv, [Next]_vars PROVE TypeInv'
  OBVIOUS
<1> USE DEF TypeInv
<1>0. /\ RetryDelay \in Nat /\ MaxFaults \in Nat /\ MaxChanges \in Nat
      /\ MaxSnapshots \in Nat /\ NumMappings \in Nat
  BY SimHubAssumption DEF SimHubAssumption
<1> USE DEF link, delayed, world, user, vars
<1>1. CASE Dispatch
  BY <1>0, <1>1 DEF Dispatch, TypeOK, ItemsOwn
<1>2. CASE Reconnect
  BY <1>2, TypeSimOpen DEF Reconnect, ItemsOwn
<1>3. CASE Disconnect
  BY <1>3 DEF Disconnect, TypeOK, ItemsOwn
<1>4. CASE RetryWait
  BY <1>0, <1>4 DEF RetryWait, TypeOK, ItemsOwn
<1>5. CASE Open
  BY <1>5, TypeSimOpen DEF Open, ItemsOwn
<1>6. CASE OpenFails
  BY <1>0, <1>6 DEF OpenFails, TypeOK, ItemsOwn
<1>7. CASE Stop
  BY <1>7 DEF Stop, TypeOK, ItemsOwn
<1>8. CASE DispatchData
  BY <1>8, TypeDispatchData
<1>9. CASE DispatchEnd
  BY <1>9 DEF DispatchEnd, TypeOK, ItemsOwn
<1>10. CASE InputDone
  BY <1>10 DEF InputDone, TypeOK, ItemsOwn
<1>11. CASE Update
  BY <1>11, TypeUpdate
<1>12. CASE Output
  BY <1>12, TypeOutput
<1>13. CASE DispatchWrongSize
  BY <1>0, <1>13 DEF DispatchWrongSize, TypeOK, ItemsOwn
<1>14. ASSUME NEW r \in Mapping, NEW v \in KnobValue[r], Input(r, v)
       PROVE  TypeInv'
  BY <1>14, TypeInput
<1>15. CASE ApplyWrite
  BY <1>15, TypeApplyWrite
<1>16. CASE LinkBreaks
  <2>1. own' \in [Mapping -> BOOLEAN]
    BY <1>16, NoFlags DEF LinkBreaks
  <2>2. requests' \in Seq([ref : Mapping, val : Nat]) /\ fresh' \subseteq WritesRead
    BY <1>16 DEF LinkBreaks
  <2>3. faults' \in 0 .. MaxFaults /\ up' \in BOOLEAN /\ alive' = FALSE
    BY <1>0, <1>16 DEF LinkBreaks, TypeOK
  <2> QED
    BY <1>16, <2>1, <2>2, <2>3 DEF LinkBreaks, TypeOK, ItemsOwn
<1>17. CASE SimStarts
  BY <1>17 DEF SimStarts, TypeOK, ItemsOwn
<1>18. ASSUME NEW r \in Mapping, NEW v \in SimValue[r], SimChanges(r, v)
       PROVE  TypeInv'
  <2>1. v \in Nat
    BY SimHubAssumption DEF SimHubAssumption
  <2> QED
    BY <1>0, <1>18, <2>1 DEF SimChanges, TypeOK, ItemsOwn
<1>19. CASE UNCHANGED vars
  BY <1>19 DEF TypeOK, ItemsOwn
<1> QED
  BY <1>1, <1>2, <1>3, <1>4, <1>5, <1>6, <1>7, <1>8, <1>9, <1>10, <1>11,
     <1>12, <1>13, <1>14, <1>15, <1>16, <1>17, <1>18, <1>19 DEF Next, Main

\* The hub's state stays what the code's types and bounds allow.
THEOREM TypeCorrect == Spec => []TypeOK
<1>1. Spec => []TypeInv
  BY TypeInit, TypeStep, PTL DEF Spec
<1> QED
  BY <1>1, PTL DEF TypeInv

-----------------------------------------------------------------------------
(***************************************************************************)
(* What the delayed read does to one mapping, if no mapping that waits for *)
(* its write shares the offset of another.                                 *)
(***************************************************************************)
HiddenAreRead == \A r \in Mapping : setDelay[r] > 0 => r \in ReadMapping

LEMMA ReadStepOther ==
  ASSUME TypeOK, HiddenAreRead, NEW n \in Mapping, NEW before \in Reading,
         NEW r \in Mapping, n # r
  PROVE  /\ ReadStep(before, n).delay[r] = before.delay[r]
         /\ r \in ReadMapping =>
              ReadStep(before, n).data[ReadOffset(r)] = before.data[ReadOffset(r)]
<1>1. CASE setDelay[n] = 0
  BY <1>1 DEF ReadStep
<1>2. CASE setDelay[n] # 0
  <2>1. n \in ReadMapping
    <3>1. setDelay[n] \in 0 .. 3
      BY DEF TypeOK, SetDelay
    <3> QED
      BY <1>2, <3>1 DEF HiddenAreRead
  <2>2. r \in ReadMapping => ReadOffset(n) # ReadOffset(r)
    BY <2>1, OffsetIsOwn
  <2>3. /\ before.data \in [Offsets -> Nat]
        /\ before.delay \in [Mapping -> 0 .. SetDelay]
    BY DEF Reading
  <2> DEFINE left == CountDown(before.data, n)
  <2>4. /\ ReadStep(before, n).delay = [before.delay EXCEPT ![n] = left]
        /\ ReadStep(before, n).data \in {Hide(before.data, n), before.data}
    BY <1>2 DEF ReadStep
  <2>5. r \in ReadMapping =>
          Hide(before.data, n)[ReadOffset(r)] = before.data[ReadOffset(r)]
    BY <2>2, <2>3, OffsetRange DEF Hide
  <2> QED
    BY <2>3, <2>4, <2>5
<1> QED
  BY <1>1, <1>2

LEMMA ReadStepOwn ==
  ASSUME TypeOK, NEW r \in ReadMapping, NEW before \in Reading,
         before.delay[r] = setDelay[r]
  PROVE  LET after == ReadStep(before, r)
             now == before.data[ReadOffset(r)]
         IN  /\ after.delay[r] = IF setDelay[r] = 0 \/ now = setValue[r] THEN 0
                                 ELSE setDelay[r] - 1
             /\ after.data[ReadOffset(r)] =
                  IF after.delay[r] > 0 THEN setValue[r] ELSE now
<1>1. r \in Mapping
  BY SimHubAssumption DEF SimHubAssumption
<1>2. setDelay[r] \in 0 .. 3
  BY <1>1 DEF TypeOK, SetDelay
<1>3. CASE setDelay[r] = 0
  BY <1>3 DEF ReadStep
<1>4. CASE setDelay[r] # 0
  <2>1. /\ before.data \in [Offsets -> Nat]
        /\ before.delay \in [Mapping -> 0 .. SetDelay]
    BY DEF Reading
  <2> DEFINE left == CountDown(before.data, r)
             after == ReadStep(before, r)
  <2>2. left = IF before.data[ReadOffset(r)] = setValue[r] THEN 0
               ELSE setDelay[r] - 1
    BY DEF CountDown
  <2>3. after.delay[r] = left
    BY <1>1, <1>4, <2>1 DEF ReadStep
  <2>4. after.data = IF left > 0 THEN Hide(before.data, r) ELSE before.data
    BY <1>4 DEF ReadStep
  <2>5. Hide(before.data, r)[ReadOffset(r)] = setValue[r]
    BY <2>1, OffsetRange DEF Hide
  <2> HIDE DEF left, after
  <2> QED
    BY <1>4, <2>2, <2>3, <2>4, <2>5 DEF after
<1> QED
  BY <1>3, <1>4

LEMMA DelayedReadIs ==
  ASSUME TypeOK, HiddenAreRead, dataMappings = NumMappings,
         NEW d \in [Offsets -> Nat], NEW r \in ReadMapping
  PROVE  LET after == DelayedRead(d)
             now == d[ReadOffset(r)]
         IN  /\ after.delay[r] = IF setDelay[r] = 0 \/ now = setValue[r] THEN 0
                                 ELSE setDelay[r] - 1
             /\ after.data[ReadOffset(r)] =
                  IF after.delay[r] > 0 THEN setValue[r] ELSE now
<1>1. NumMappings \in Nat /\ r \in 1 .. NumMappings /\ r \in Mapping
  BY SimHubAssumption DEF SimHubAssumption, Mapping
<1> HIDE DEF Reading
<1>2. PICK f \in [0 .. NumMappings -> Reading] :
        /\ f[0] = [data |-> d, delay |-> setDelay]
        /\ \A n \in 1 .. NumMappings : f[n] = ReadStep(f[n - 1], n)
        /\ DelayedRead(d) = f[NumMappings]
  BY DelayedReadSteps
<1> DEFINE now == d[ReadOffset(r)]
           Before(x) == x.delay[r] = setDelay[r] /\ x.data[ReadOffset(r)] = now
           After(x) ==
             /\ x.delay[r] = IF setDelay[r] = 0 \/ now = setValue[r] THEN 0
                             ELSE setDelay[r] - 1
             /\ x.data[ReadOffset(r)] =
                  IF x.delay[r] > 0 THEN setValue[r] ELSE now
           S == {n \in 0 .. NumMappings :
                   IF n < r THEN Before(f[n]) ELSE After(f[n])}
<1>3. 0 \in S
  BY <1>1, <1>2
<1>4. ASSUME NEW n \in 1 .. NumMappings, n - 1 \in S
      PROVE  n \in S
  <2>1. /\ n \in 0 .. NumMappings /\ n - 1 \in 0 .. NumMappings
        /\ f[n] = ReadStep(f[n - 1], n) /\ f[n - 1] \in Reading /\ n \in Mapping
    BY <1>1, <1>2 DEF Mapping
  <2> DEFINE x == f[n - 1]
             y == f[n]
  <2>2. IF n - 1 < r THEN Before(x) ELSE After(x)
    BY <1>4
  <2>3. y = ReadStep(x, n) /\ x \in Reading
    BY <2>1
  <2> HIDE DEF x, y
  <2>4. CASE n = r
    <3>1. Before(x)
      BY <1>1, <2>2, <2>4
    <3>2. After(y)
      BY <2>3, <2>4, <3>1, ReadStepOwn
    <3> QED
      BY <1>1, <2>1, <2>4, <3>2 DEF y
  <2>5. CASE n # r
    <3>1. y.delay[r] = x.delay[r] /\ y.data[ReadOffset(r)] = x.data[ReadOffset(r)]
      BY <1>1, <2>1, <2>3, <2>5, ReadStepOther
    <3>2. n - 1 < r <=> n < r
      BY <1>1, <2>1, <2>5
    <3>3. IF n < r THEN Before(y) ELSE After(y)
      BY <2>2, <3>1, <3>2
    <3> QED
      BY <2>1, <3>3 DEF y
  <2> QED
    BY <2>4, <2>5
<1> HIDE DEF S
<1>5. \A n \in 0 .. NumMappings : n \in S
  BY <1>1, <1>3, <1>4, UpTo
<1>6. After(f[NumMappings])
  BY <1>1, <1>5 DEF S
<1> QED
  BY <1>2, <1>6

\* A mapping that waits for nothing does not start to.
LEMMA IdleStays ==
  ASSUME TypeOK, HiddenAreRead, NEW d \in [Offsets -> Nat],
         NEW r \in Mapping, setDelay[r] = 0
  PROVE  DelayedRead(d).delay[r] = 0
<1>1. dataMappings \in Nat /\ \A n \in 1 .. dataMappings : n \in Mapping
  BY SimHubAssumption DEF SimHubAssumption, TypeOK, Mapping
<1> HIDE DEF Reading
<1>2. PICK f \in [0 .. dataMappings -> Reading] :
        /\ f[0] = [data |-> d, delay |-> setDelay]
        /\ \A n \in 1 .. dataMappings : f[n] = ReadStep(f[n - 1], n)
        /\ DelayedRead(d) = f[dataMappings]
  BY DelayedReadSteps
<1> DEFINE S == {n \in 0 .. dataMappings : f[n].delay[r] = 0}
<1>3. 0 \in S
  BY <1>1, <1>2
<1>4. ASSUME NEW n \in 1 .. dataMappings, n - 1 \in S
      PROVE  n \in S
  <2>1. /\ n \in 0 .. dataMappings /\ f[n] = ReadStep(f[n - 1], n)
        /\ f[n - 1] \in Reading /\ f[n - 1].delay[r] = 0
    BY <1>1, <1>2, <1>4
  <2>2. CASE n = r
    BY <2>1, <2>2 DEF ReadStep
  <2>3. CASE n # r
    BY <1>1, <2>1, <2>3, ReadStepOther
  <2> QED
    BY <2>1, <2>2, <2>3
<1> HIDE DEF S
<1>5. \A n \in 0 .. dataMappings : n \in S
  BY <1>1, <1>3, <1>4, UpTo
<1> QED
  BY <1>1, <1>2, <1>5 DEF S

-----------------------------------------------------------------------------
(***************************************************************************)
(* What step 2 adds to the requests: one for each item that is written.    *)
(***************************************************************************)

\* new holds what old holds and one request for each of the first n items
\* that is to be written.
Adds(new, old, n) ==
  /\ Len(new) >= Len(old)
  /\ \A k \in 1 .. Len(old) : new[k] = old[k]
  /\ \A k \in Len(old) + 1 .. Len(new) :
       /\ new[k].ref \in Written /\ new[k].ref <= n
       /\ new[k].val = Scaled(new[k].ref, items[new[k].ref].val)
  /\ \A r \in Written : r <= n =>
       \E k \in Len(old) + 1 .. Len(new) : new[k].ref = r
  /\ \A j, k \in Len(old) + 1 .. Len(new) : new[j].ref = new[k].ref => j = k

LEMMA AddsOne ==
  ASSUME TypeInv, NEW old \in Seq(Request), NEW x \in Seq(Request),
         NEW n \in Mapping, Adds(x, old, n - 1)
  PROVE  Adds(RequestStep(x, n), old, n)
<1>0. n \in Nat /\ Written \subseteq Nat
  BY DEF Mapping, Written
<1>1. CASE n \notin Written
  <2>1. RequestStep(x, n) = x
    BY <1>1 DEF RequestStep
  <2>2. \A r \in Written : r <= n => r <= n - 1
    BY <1>0, <1>1
  <2>3. \A k \in Len(old) + 1 .. Len(x) : x[k].ref <= n
    <3>1. \A k \in Len(old) + 1 .. Len(x) : x[k].ref \in Nat /\ x[k].ref <= n - 1
      BY <1>0 DEF Adds
    <3> QED
      BY <1>0, <3>1
  <2> QED
    BY <2>1, <2>2, <2>3 DEF Adds
<1>2. CASE n \in Written
  <2> DEFINE e == [ref |-> n, val |-> Scaled(n, items[n].val)]
             y == Append(x, e)
             A == Request
  <2>1. e \in Request /\ e.ref = n /\ e.val = Scaled(n, items[n].val)
    BY <1>2, RequestType DEF TypeInv
  <2>2. RequestStep(x, n) = y
    BY <1>2 DEF RequestStep
  <2>3. x \in Seq(A) /\ e \in A /\ old \in Seq(A)
    BY <2>1
  <2> HIDE DEF A, e
  <2>4. /\ y \in Seq(A) /\ Len(y) = Len(x) + 1 /\ y[Len(x) + 1] = e
        /\ \A i \in 1 .. Len(x) : y[i] = x[i]
    BY <2>3, AppendFacts
  <2>5. Len(x) \in Nat /\ Len(old) \in Nat
    BY <2>3
  <2> HIDE DEF y
  <2>6. /\ Len(x) >= Len(old)
        /\ \A k \in 1 .. Len(old) : x[k] = old[k]
        /\ \A k \in Len(old) + 1 .. Len(x) :
             /\ x[k].ref \in Written /\ x[k].ref <= n - 1
             /\ x[k].val = Scaled(x[k].ref, items[x[k].ref].val)
        /\ \A r \in Written : r <= n - 1 =>
             \E k \in Len(old) + 1 .. Len(x) : x[k].ref = r
        /\ \A j, k \in Len(old) + 1 .. Len(x) : x[j].ref = x[k].ref => j = k
    BY DEF Adds
  <2>7. \A k \in Len(old) + 1 .. Len(y) :
          \/ k \in Len(old) + 1 .. Len(x) /\ k \in 1 .. Len(x) /\ y[k] = x[k]
          \/ k = Len(x) + 1 /\ y[k] = e
    BY <2>4, <2>5
  <2>8. Len(y) >= Len(old) /\ \A k \in 1 .. Len(old) : y[k] = old[k]
    BY <2>4, <2>5, <2>6
  <2>9. \A k \in Len(old) + 1 .. Len(y) :
          /\ y[k].ref \in Written /\ y[k].ref <= n
          /\ y[k].val = Scaled(y[k].ref, items[y[k].ref].val)
    <3> TAKE k \in Len(old) + 1 .. Len(y)
    <3>1. CASE k = Len(x) + 1 /\ y[k] = e
      BY <1>0, <1>2, <2>1, <3>1
    <3>2. CASE k \in Len(old) + 1 .. Len(x) /\ y[k] = x[k]
      <4>1. x[k].ref \in Nat /\ x[k].ref <= n - 1
        BY <1>0, <2>6, <3>2
      <4> QED
        BY <1>0, <2>6, <3>2, <4>1
    <3> QED
      BY <2>7, <3>1, <3>2
  <2>10. ASSUME NEW r \in Written, r <= n
         PROVE  \E k \in Len(old) + 1 .. Len(y) : y[k].ref = r
    <3>1. CASE r = n
      <4>1. Len(x) + 1 \in Len(old) + 1 .. Len(y)
        BY <2>4, <2>5, <2>6
      <4> QED
        BY <2>1, <2>4, <3>1, <4>1
    <3>2. CASE r <= n - 1
      <4>1. PICK k \in Len(old) + 1 .. Len(x) : x[k].ref = r
        BY <2>6, <3>2
      <4>2. k \in 1 .. Len(x) /\ k \in Len(old) + 1 .. Len(y)
        BY <2>4, <2>5
      <4> QED
        BY <2>4, <4>1, <4>2
    <3> QED
      BY <1>0, <2>10, <3>1, <3>2
  <2>11. ASSUME NEW j \in Len(old) + 1 .. Len(y),
                NEW k \in Len(old) + 1 .. Len(y), y[j].ref = y[k].ref
         PROVE  j = k
    <3>1. ASSUME NEW i \in Len(old) + 1 .. Len(x)
          PROVE  x[i].ref # n
      BY <1>0, <2>6
    <3> QED
      BY <2>1, <2>6, <2>7, <2>11, <3>1
  <2> QED
    BY <2>2, <2>8, <2>9, <2>10, <2>11 DEF Adds
<1> QED
  BY <1>1, <1>2

LEMMA RequestedFacts ==
  ASSUME TypeInv
  PROVE  Adds(Requested, requests, NumMappings)
<1>1. NumMappings \in Nat /\ \A n \in 1 .. NumMappings : n \in Mapping
  BY SimHubAssumption DEF SimHubAssumption, Mapping
<1> DEFINE A == Seq(Request)
<1>2. requests \in A
  BY DEF TypeInv, TypeOK, Request
<1>3. PICK f \in [0 .. NumMappings -> A] :
        /\ f[0] = requests
        /\ \A n \in 1 .. NumMappings : f[n] = RequestStep(f[n - 1], n)
        /\ Requested = f[NumMappings]
  BY RequestedSteps DEF TypeInv
<1> DEFINE S == {n \in 0 .. NumMappings : Adds(f[n], requests, n)}
<1>4. 0 \in S
  <2>1. Adds(requests, requests, 0)
    <3>1. Len(requests) \in Nat
      BY <1>2
    <3>2. \A k \in Len(requests) + 1 .. Len(requests) : FALSE
      BY <3>1
    <3>3. \A r \in Written : ~(r <= 0)
      BY DEF Written, Mapping
    <3> QED
      BY <3>1, <3>2, <3>3 DEF Adds
  <2> QED
    BY <1>1, <1>3, <2>1
<1>5. ASSUME NEW n \in 1 .. NumMappings, n - 1 \in S
      PROVE  n \in S
  <2>1. /\ n \in 0 .. NumMappings /\ n \in Mapping
        /\ f[n] = RequestStep(f[n - 1], n)
        /\ n - 1 \in 0 .. NumMappings /\ Adds(f[n - 1], requests, n - 1)
    BY <1>1, <1>3, <1>5
  <2>2. f[n - 1] \in A
    BY <2>1
  <2>3. Adds(f[n], requests, n)
    BY <1>2, <2>1, <2>2, AddsOne
  <2> QED
    BY <2>1, <2>3
<1> HIDE DEF S
<1>6. \A n \in 0 .. NumMappings : n \in S
  BY <1>1, <1>4, <1>5, UpTo
<1> QED
  BY <1>1, <1>3, <1>6 DEF S

-----------------------------------------------------------------------------
(***************************************************************************)
(* Every value is the mapping's own: what the simulator holds, what is     *)
(* requested, hidden, read and shown.                                      *)
(***************************************************************************)

\* Of the mapping file and the Teensy's program: only what is read from the
\* simulator is written to it; any other mapping shows its test value.
ReadIfWritten ==
  \A r \in Mapping \ ReadMapping : TestValue[r] # NoValue /\ KnobValue[r] = {}

OwnValues ==
  /\ \A r \in Mapping : sim[r] \in CanBe(r)
  /\ \A k \in 1 .. Len(requests) : requests[k].val \in Sendable(requests[k].ref)
  /\ \A r \in Mapping : setDelay[r] > 0 =>
       setValue[r] \in Sendable(r) /\ r \in ReadMapping
  /\ data # NoData => \A r \in ReadMapping :
       setDelay[r] = 0 => data[ReadOffset(r)] \in CanBe(r)
  /\ \A r \in Mapping : items[r].changed =>
       \E k \in KnobValue[r] : items[r].val = Heard(TypeOf[r], k)

OwnInv == OwnValues /\ ShowsOwnVariable

LEMMA SendableFacts ==
  ASSUME NEW r \in Mapping, NEW v \in Sendable(r)
  PROVE  /\ InThousandths(v) /\ v \in Nat
         /\ r \in WritesRead =>
              \A n \in {0} \cup Noise : v + n \in CanBe(r)
<1>1. PICK k \in KnobValue[r] : v = Scaled(r, Heard(TypeOf[r], k))
  BY DEF Sendable
<1>2. InThousandths(v) /\ v \in Nat
  BY <1>1, HeardFacts, SentFacts
<1>3. r \in WritesRead => \A n \in {0} \cup Noise : v + n \in CanBe(r)
  BY DEF CanBe
<1> QED
  BY <1>2, <1>3

\* What is written has come from the Teensy and can be read.
LEMMA WrittenFacts ==
  ASSUME ReadIfWritten, OwnValues, NEW r \in Mapping, items[r].changed
  PROVE  /\ r \in ReadMapping
         /\ Scaled(r, items[r].val) \in Sendable(r)
         /\ InThousandths(Scaled(r, items[r].val))
<1>1. PICK k \in KnobValue[r] : items[r].val = Heard(TypeOf[r], k)
  BY DEF OwnValues
<1>2. r \in ReadMapping
  BY <1>1 DEF ReadIfWritten
<1>3. Scaled(r, items[r].val) \in Sendable(r)
  BY <1>1 DEF Sendable
<1> QED
  BY <1>2, <1>3, SendableFacts

LEMMA OwnInit == Init => OwnInv
<1> SUFFICES ASSUME Init PROVE OwnInv
  OBVIOUS
<1>1. \A r \in Mapping : sim[r] \in CanBe(r)
  BY DEF Init, CanBe
<1>2. Len(requests) = 0
  BY DEF Init
<1> QED
  BY <1>1, <1>2 DEF Init, OwnInv, OwnValues, ShowsOwnVariable

LEMMA OwnDispatchData ==
  ASSUME TypeInv, OwnInv, DispatchData
  PROVE  OwnInv'
<1>1. HiddenAreRead /\ TypeOK
  BY DEF HiddenAreRead, OwnInv, OwnValues, TypeInv
<1>2. dataMappings = NumMappings
  BY DEF DispatchData, TypeInv, TypeOK
<1> DEFINE d == Snapshot
           after == DelayedRead(d)
<1>3. d \in [Offsets -> Nat]
  BY SnapshotType DEF TypeInv
<1>4. data' = after.data /\ setDelay' = after.delay
  BY DEF DispatchData
<1>5. ASSUME NEW r \in ReadMapping, setDelay'[r] = 0
      PROVE  data'[ReadOffset(r)] \in CanBe(r)
  <2>1. d[ReadOffset(r)] = sim[r] /\ r \in Mapping
    BY SnapshotHolds, SimHubAssumption DEF SimHubAssumption
  <2> HIDE DEF d
  <2>2. /\ after.delay[r] = IF setDelay[r] = 0 \/ d[ReadOffset(r)] = setValue[r]
                            THEN 0 ELSE setDelay[r] - 1
        /\ after.data[ReadOffset(r)] =
             IF after.delay[r] > 0 THEN setValue[r] ELSE d[ReadOffset(r)]
    BY <1>1, <1>2, <1>3, DelayedReadIs
  <2> QED
    BY <1>4, <1>5, <2>1, <2>2 DEF OwnInv, OwnValues
<1>6. ASSUME NEW r \in Mapping, setDelay'[r] > 0
      PROVE  setValue[r] \in Sendable(r) /\ r \in ReadMapping
  <2>1. setDelay[r] \in 0 .. 3
    BY DEF TypeInv, TypeOK, SetDelay
  <2>2. setDelay[r] = 0 => setDelay'[r] = 0
    BY <1>1, <1>3, <1>4, IdleStays
  <2>3. setDelay[r] > 0
    BY <1>6, <2>1, <2>2
  <2> QED
    BY <2>3 DEF OwnInv, OwnValues
<1>7. UNCHANGED <<sim, requests, setValue, items>>
  BY DEF DispatchData, world
<1>8. OwnValues'
  <2>1. \A r \in Mapping : items'[r].changed =>
          \E k \in KnobValue[r] : items'[r].val = Heard(TypeOf[r], k)
    BY <1>7 DEF OwnInv, OwnValues
  <2> QED
    BY <1>5, <1>6, <1>7, <2>1 DEF OwnInv, OwnValues
<1>9. ShowsOwnVariable'
  BY <1>7 DEF OwnInv, ShowsOwnVariable
<1> QED
  BY <1>8, <1>9 DEF OwnInv

LEMMA OwnInput ==
  ASSUME TypeInv, OwnInv, NEW r \in Mapping, NEW v \in KnobValue[r],
         Input(r, v)
  PROVE  OwnInv'
<1>1. \A i \in Mapping :
        /\ i # r => items'[i] = items[i]
        /\ i = r => items'[i].changed /\ items'[i].val = Heard(TypeOf[r], v)
  BY WriteItemFacts DEF Input
<1>2. UNCHANGED <<sim, requests, setValue, setDelay, data>>
  BY DEF Input, world, delayed
<1>3. OwnValues'
  BY <1>1, <1>2 DEF OwnInv, OwnValues
<1>4. ShowsOwnVariable'
  <2>1. ASSUME NEW i \in Mapping, items'[i].val # NoValue, i = r
        PROVE  \E k \in KnobValue[i] : items'[i].val = Heard(TypeOf[i], k)
    BY <1>1, <2>1
  <2>2. ASSUME NEW i \in Mapping, i # r
        PROVE  items'[i] = items[i]
    BY <1>1, <2>2
  <2> QED
    BY <2>1, <2>2 DEF OwnInv, ShowsOwnVariable
<1> QED
  BY <1>3, <1>4 DEF OwnInv

LEMMA OwnUpdate ==
  ASSUME ReadIfWritten, TypeInv, OwnInv, Update
  PROVE  OwnInv'
<1>1. items' = [r \in Mapping |-> Read(r)]
  BY DEF Update, Read
<1>2. UNCHANGED <<sim, data>>
  BY DEF Update
<1>3. ASSUME NEW k \in 1 .. Len(requests')
      PROVE  requests'[k].val \in Sendable(requests'[k].ref)
  <2>1. CASE requests' = requests
    BY <2>1 DEF OwnInv, OwnValues
  <2>2. CASE requests' = Requested
    <3> DEFINE new == Requested
    <3>1. Adds(new, requests, NumMappings)
      BY RequestedFacts
    <3>2. Len(requests) \in Nat /\ k \in 1 .. Len(new)
      BY <2>2 DEF TypeInv, TypeOK
    <3> HIDE DEF new
    <3>3. k \in 1 .. Len(requests) \/ k \in Len(requests) + 1 .. Len(new)
      BY <3>2
    <3>4. CASE k \in 1 .. Len(requests)
      <4>1. new[k] = requests[k]
        BY <3>1, <3>4 DEF Adds
      <4> QED
        BY <2>2, <3>4, <4>1 DEF OwnInv, OwnValues, new
    <3>5. CASE k \in Len(requests) + 1 .. Len(new)
      <4>1. /\ new[k].ref \in Written
            /\ new[k].val = Scaled(new[k].ref, items[new[k].ref].val)
        BY <3>1, <3>5 DEF Adds
      <4>2. new[k].val \in Sendable(new[k].ref)
        BY <4>1, WrittenFacts DEF OwnInv, Written
      <4> QED
        BY <2>2, <4>2 DEF new
    <3> QED
      BY <3>3, <3>4, <3>5
  <2> QED
    BY <2>1, <2>2 DEF Update
<1>4. ASSUME NEW r \in Mapping, setDelay'[r] > 0
      PROVE  setValue'[r] \in Sendable(r) /\ r \in ReadMapping
  <2>1. CASE r \in Written
    BY <2>1, WrittenFacts DEF OwnInv, Written, Update
  <2>2. CASE r \notin Written
    BY <1>4, <2>2 DEF OwnInv, OwnValues, Update
  <2> QED
    BY <2>1, <2>2
<1>5. \A r \in Mapping : items'[r].changed = FALSE
  BY <1>1, ReadFacts
<1>6. \A r \in ReadMapping : setDelay'[r] = 0 => setDelay[r] = 0
  BY SimHubAssumption DEF SimHubAssumption, Update, SetDelay
<1>7. OwnValues'
  <2>1. \A r \in Mapping : sim'[r] \in CanBe(r)
    BY <1>2 DEF OwnInv, OwnValues
  <2>2. data' # NoData => \A r \in ReadMapping :
          setDelay'[r] = 0 => data'[ReadOffset(r)] \in CanBe(r)
    <3> SUFFICES ASSUME data' # NoData, NEW r \in ReadMapping, setDelay'[r] = 0
                 PROVE  data[ReadOffset(r)] \in CanBe(r)
      BY <1>2
    <3>1. setDelay[r] = 0
      BY <1>6
    <3> QED
      BY <1>2, <3>1 DEF OwnInv, OwnValues
  <2> QED
    BY <1>3, <1>4, <1>5, <2>1, <2>2 DEF OwnValues
<1>8. ShowsOwnVariable'
  <2> SUFFICES ASSUME NEW r \in Mapping, items'[r].val # NoValue
               PROVE  \/ \E k \in KnobValue[r] :
                           items'[r].val = Heard(TypeOf[r], k)
                      \/ /\ TestValue[r] # NoValue
                         /\ items'[r].val = OfType(TypeOf[r], TestValue[r])
                      \/ \E v \in CanBe(r) : items'[r].val = Shown(r, v)
    BY DEF ShowsOwnVariable
  <2>1. CASE items'[r].val = items[r].val
    BY <2>1 DEF OwnInv, ShowsOwnVariable
  <2>2. CASE /\ DataRefRead(r) # NoValue /\ ~(setDelay'[r] > 0)
             /\ items'[r].val = OfType(TypeOf[r], DataRefRead(r))
    <3>1. CASE TestValue[r] # NoValue
      BY <2>2, <3>1 DEF DataRefRead
    <3>2. CASE TestValue[r] = NoValue
      <4>1. r \in ReadMapping
        BY <3>2 DEF ReadIfWritten
      <4>2. data # NoData
        BY <2>2, <3>2 DEF DataRefRead
      <4>3. setDelay'[r] \in 0 .. 3
        BY DEF Update, SetDelay, TypeInv, TypeOK
      <4>4. setDelay[r] = 0
        BY <1>6, <2>2, <4>1, <4>3
      <4>5. data[ReadOffset(r)] \in CanBe(r)
        BY <4>1, <4>2, <4>4 DEF OwnInv, OwnValues
      <4>6. items'[r].val = Shown(r, data[ReadOffset(r)])
        BY <2>2, <3>2, <4>2 DEF DataRefRead, Shown
      <4> QED
        BY <4>5, <4>6
    <3> QED
      BY <3>1, <3>2
  <2>3. items'[r] = Read(r)
    BY <1>1
  <2> QED
    BY <2>1, <2>2, <2>3, ReadFacts
<1> QED
  BY <1>7, <1>8 DEF OwnInv

LEMMA OwnOutput ==
  ASSUME TypeInv, OwnInv, Output
  PROVE  OwnInv'
<1>1. \A r \in Mapping : /\ items'[r].val = items[r].val
                         /\ items'[r].changed = items[r].changed
  BY OutputFacts
<1>2. UNCHANGED <<sim, requests, setValue, setDelay, data>>
  BY DEF Output, world, delayed
<1> QED
  BY <1>1, <1>2 DEF OwnInv, OwnValues, ShowsOwnVariable

LEMMA OwnApplyWrite ==
  ASSUME TypeInv, OwnInv, ApplyWrite
  PROVE  OwnInv'
<1> DEFINE first == requests[1]
           A == Request
<1>1. requests \in Seq(A) /\ requests # <<>>
  BY DEF TypeInv, TypeOK, Request, ApplyWrite
<1> HIDE DEF A
<1>2. /\ first \in A /\ Head(requests) = first /\ 1 \in 1 .. Len(requests)
      /\ requests' \in Seq(A) /\ Len(requests') = Len(requests) - 1
      /\ \A k \in 1 .. Len(requests') : requests'[k] = requests[k + 1]
  BY <1>1, TailFacts DEF ApplyWrite
<1>3. first.ref \in Mapping /\ first.val \in Sendable(first.ref)
  BY <1>2 DEF A, Request, OwnInv, OwnValues
<1>4. PICK v \in CanBe(first.ref) : sim' = [sim EXCEPT ![first.ref] = v]
  <2>1. CASE first.ref \in WritesRead
    BY <1>2, <1>3, <2>1, SendableFacts DEF ApplyWrite
  <2>2. CASE first.ref \notin WritesRead
    <3>1. PICK v \in {sim[first.ref]} \cup SimValue[first.ref] :
            sim' = [sim EXCEPT ![first.ref] = v]
      BY <1>2, <2>2 DEF ApplyWrite
    <3>2. v \in CanBe(first.ref)
      BY <1>3 DEF CanBe, OwnInv, OwnValues
    <3> QED
      BY <3>1, <3>2
  <2> QED
    BY <2>1, <2>2
<1>5. \A r \in Mapping : sim'[r] \in CanBe(r)
  <2> TAKE r \in Mapping
  <2>1. CASE r = first.ref
    BY <1>3, <1>4, <2>1 DEF TypeInv, TypeOK
  <2>2. CASE r # first.ref
    BY <1>4, <2>2 DEF TypeInv, TypeOK, OwnInv, OwnValues
  <2> QED
    BY <2>1, <2>2
<1>6. \A k \in 1 .. Len(requests') :
        requests'[k].val \in Sendable(requests'[k].ref)
  <2> TAKE k \in 1 .. Len(requests')
  <2>1. k + 1 \in 1 .. Len(requests) /\ requests'[k] = requests[k + 1]
    BY <1>1, <1>2
  <2> QED
    BY <2>1 DEF OwnInv, OwnValues
<1>7. UNCHANGED <<setValue, setDelay, data, items>>
  BY DEF ApplyWrite, delayed
<1> QED
  BY <1>5, <1>6, <1>7 DEF OwnInv, OwnValues, ShowsOwnVariable

LEMMA OwnSimChanges ==
  ASSUME TypeInv, OwnInv, NEW r \in Mapping, NEW v \in SimValue[r],
         SimChanges(r, v)
  PROVE  OwnInv'
<1>1. \A q \in Mapping : sim'[q] \in CanBe(q)
  <2>1. v \in CanBe(r)
    BY DEF CanBe
  <2> QED
    BY <2>1 DEF SimChanges, TypeInv, TypeOK, OwnInv, OwnValues
<1>2. UNCHANGED <<requests, setValue, setDelay, data, items>>
  BY DEF SimChanges, delayed
<1> QED
  BY <1>1, <1>2 DEF OwnInv, OwnValues, ShowsOwnVariable

LEMMA OwnStep ==
  ASSUME ReadIfWritten, TypeInv, OwnInv, [Next]_vars
  PROVE  OwnInv'
<1> DEFINE Same == UNCHANGED <<sim, setValue, setDelay, data, items>>
<1>1. ASSUME Same, Len(requests') = 0 \/ UNCHANGED requests
      PROVE  OwnInv'
  BY <1>1 DEF OwnInv, OwnValues, ShowsOwnVariable
<1>2. CASE \/ Dispatch \/ Reconnect \/ Disconnect \/ RetryWait \/ Open
           \/ OpenFails \/ Stop \/ DispatchEnd \/ InputDone
           \/ DispatchWrongSize \/ SimStarts \/ UNCHANGED vars
  <2>1. Same /\ UNCHANGED requests
    BY <1>2 DEF Dispatch, Reconnect, Disconnect, RetryWait, Open, OpenFails,
       Stop, DispatchEnd, InputDone, DispatchWrongSize, SimStarts, vars,
       delayed, world
  <2> QED
    BY <1>1, <2>1
<1>3. CASE LinkBreaks
  <2>1. Same /\ Len(requests') = 0
    BY <1>3 DEF LinkBreaks, delayed
  <2> QED
    BY <1>1, <2>1
<1> QED
  BY <1>2, <1>3, OwnDispatchData, OwnInput, OwnUpdate, OwnOutput,
     OwnApplyWrite, OwnSimChanges DEF Next, Main

\* An item never shows a value of another mapping's variable: neither the
\* delayed read, which overwrites the snapshot in place, nor a new session
\* mixes them up.
THEOREM OwnVariableShown ==
  ASSUME ReadIfWritten
  PROVE  Spec => []ShowsOwnVariable
<1>1. TypeInv /\ OwnInv /\ [Next]_vars => TypeInv' /\ OwnInv'
  BY TypeStep, OwnStep
<1>2. Spec => [](TypeInv /\ OwnInv)
  BY <1>1, TypeInit, OwnInit, PTL DEF Spec
<1> QED
  BY <1>2, PTL DEF OwnInv

-----------------------------------------------------------------------------
(***************************************************************************)
(* What the last request for a variable makes of it.                       *)
(***************************************************************************)
IsLast(reqs, r, k) ==
  /\ k \in 1 .. Len(reqs) /\ reqs[k].ref = r
  /\ \A j \in 1 .. Len(reqs) : reqs[j].ref = r => j <= k

\* Upcoming, for any requests and any value of the variable.
LastOf(reqs, r, now) ==
  LET mine == {k \in 1 .. Len(reqs) : reqs[k].ref = r}
  IN  IF mine = {} THEN now ELSE reqs[Max(mine)].val

LEMMA LastOfIs ==
  ASSUME NEW reqs \in Seq(Request), NEW r, NEW now
  PROVE  /\ (\A k \in 1 .. Len(reqs) : reqs[k].ref # r) =>
              LastOf(reqs, r, now) = now
         /\ \A k : IsLast(reqs, r, k) => LastOf(reqs, r, now) = reqs[k].val
         /\ (\E k \in 1 .. Len(reqs) : reqs[k].ref = r) =>
              \E k \in 1 .. Len(reqs) : IsLast(reqs, r, k)
<1> DEFINE mine == {k \in 1 .. Len(reqs) : reqs[k].ref = r}
           N == Len(reqs)
           top == Max(mine)
<1>1. N \in Nat /\ mine \subseteq 0 .. N
  OBVIOUS
<1>2. mine = {} => LastOf(reqs, r, now) = now
  BY DEF LastOf
<1>3. mine # {} => LastOf(reqs, r, now) = reqs[top].val
  BY DEF LastOf
<1>4. \A k : k \in mine <=> k \in 1 .. N /\ reqs[k].ref = r
  OBVIOUS
<1> HIDE DEF mine, N
<1>5. mine # {} => top \in mine /\ \A j \in mine : j <= top
  BY <1>1, GreatestOf
<1> HIDE DEF top
<1>6. ASSUME NEW k, IsLast(reqs, r, k)
      PROVE  LastOf(reqs, r, now) = reqs[k].val
  <2>1. k \in mine /\ \A j \in mine : j <= k
    BY <1>4, <1>6 DEF IsLast, N
  <2>2. top \in mine /\ top <= k /\ k <= top
    BY <1>5, <2>1
  <2>3. top = k
    BY <1>1, <2>1, <2>2
  <2> QED
    BY <1>3, <2>1, <2>3
<1>7. ASSUME NEW k \in 1 .. N, reqs[k].ref = r
      PROVE  \E l \in 1 .. N : IsLast(reqs, r, l)
  <2>1. mine # {}
    BY <1>4, <1>7
  <2>2. top \in 1 .. N /\ reqs[top].ref = r
    BY <1>4, <1>5, <2>1
  <2>3. \A j \in 1 .. N : reqs[j].ref = r => j <= top
    BY <1>4, <1>5, <2>1
  <2>4. IsLast(reqs, r, top)
    BY <2>2, <2>3 DEF IsLast, N
  <2> QED
    BY <2>2, <2>4
<1>8. (\A k \in 1 .. N : reqs[k].ref # r) => mine = {}
  BY <1>4
<1> QED
  BY <1>2, <1>6, <1>7, <1>8 DEF N

LEMMA UpcomingIs ==
  ASSUME NEW r \in Mapping
  PROVE  /\ Upcoming(r) = LastOf(requests, r, sim[r])
         /\ Upcoming(r)' = LastOf(requests', r, sim'[r])
  BY DEF Upcoming, LastOf

LEMMA UpcomingIdle ==
  ASSUME TypeOK, NEW r \in Mapping, ~UnderWay(r)
  PROVE  Upcoming(r) = sim[r]
<1>1. requests \in Seq(Request)
  BY DEF TypeOK, Request
<1> QED
  BY <1>1, UpcomingIs, LastOfIs DEF UnderWay

\* Of what is added to the requests, the variable's own counts.
LEMMA UpcomingAdds ==
  ASSUME NEW old \in Seq(Request), NEW new \in Seq(Request),
         Adds(new, old, NumMappings), NEW r \in Mapping, NEW now
  PROVE  /\ r \in Written => LastOf(new, r, now) = Scaled(r, items[r].val)
         /\ r \notin Written => LastOf(new, r, now) = LastOf(old, r, now)
<1>1. /\ Len(old) \in Nat /\ Len(new) \in Nat /\ Len(new) >= Len(old)
      /\ \A k \in 1 .. Len(old) : new[k] = old[k]
      /\ \A k \in Len(old) + 1 .. Len(new) :
           /\ new[k].ref \in Written
           /\ new[k].val = Scaled(new[k].ref, items[new[k].ref].val)
      /\ \A q \in Written : q <= NumMappings =>
           \E k \in Len(old) + 1 .. Len(new) : new[k].ref = q
      /\ \A j, k \in Len(old) + 1 .. Len(new) : new[j].ref = new[k].ref => j = k
  BY DEF Adds
<1>2. \A k \in 1 .. Len(new) :
        k \in 1 .. Len(old) \/ k \in Len(old) + 1 .. Len(new)
  BY <1>1
<1>3. ASSUME r \in Written
      PROVE  LastOf(new, r, now) = Scaled(r, items[r].val)
  <2>1. r <= NumMappings
    BY DEF Mapping
  <2>2. PICK k \in Len(old) + 1 .. Len(new) : new[k].ref = r
    BY <1>1, <1>3, <2>1
  <2>3. IsLast(new, r, k)
    <3>1. k \in 1 .. Len(new)
      BY <1>1
    <3>2. ASSUME NEW j \in 1 .. Len(new), new[j].ref = r
          PROVE  j <= k
      <4>1. CASE j \in 1 .. Len(old)
        BY <1>1, <4>1
      <4>2. CASE j \in Len(old) + 1 .. Len(new)
        <5>1. j = k
          BY <1>1, <2>2, <3>2, <4>2
        <5> QED
          BY <1>1, <5>1
      <4> QED
        BY <1>2, <4>1, <4>2
    <3> QED
      BY <2>2, <3>1, <3>2 DEF IsLast
  <2>4. new[k].val = Scaled(r, items[r].val)
    BY <1>1, <2>2
  <2> QED
    BY <2>3, <2>4, LastOfIs
<1>4. ASSUME r \notin Written
      PROVE  LastOf(new, r, now) = LastOf(old, r, now)
  <2>1. \A k \in 1 .. Len(new) : new[k].ref = r => k \in 1 .. Len(old)
    BY <1>1, <1>2, <1>4
  <2>2. CASE \A k \in 1 .. Len(old) : old[k].ref # r
    <3>1. \A k \in 1 .. Len(new) : new[k].ref # r
      BY <1>1, <2>1, <2>2
    <3> QED
      BY <2>2, <3>1, LastOfIs
  <2>3. CASE \E k \in 1 .. Len(old) : old[k].ref = r
    <3>1. PICK k \in 1 .. Len(old) : IsLast(old, r, k)
      BY <2>3, LastOfIs
    <3>2. k \in 1 .. Len(new) /\ new[k] = old[k]
      BY <1>1
    <3>3. \A j \in 1 .. Len(new) : new[j].ref = r => j <= k
      BY <1>1, <2>1, <3>1 DEF IsLast
    <3>4. IsLast(new, r, k)
      BY <3>1, <3>2, <3>3 DEF IsLast
    <3> QED
      BY <3>1, <3>2, <3>4, LastOfIs
  <2> QED
    BY <2>2, <2>3
<1> QED
  BY <1>3, <1>4

\* Jetbridge executes the oldest request: only the last one of a variable
\* changes what it will be, by what the simulator adds.
LEMMA UpcomingApply ==
  ASSUME TypeInv, OwnInv, ApplyWrite, NEW r \in WritesRead
  PROVE  \/ Upcoming(r)' = Upcoming(r)
         \/ \E n \in {0} \cup Noise :
              /\ Upcoming(r) \in Sendable(r)
              /\ Upcoming(r)' = Upcoming(r) + n
<1> DEFINE A == Request
           old == requests
           new == requests'
<1>1. old \in Seq(A) /\ old # <<>> /\ new = Tail(old)
  BY DEF TypeInv, TypeOK, Request, ApplyWrite
<1> HIDE DEF A
<1>2. /\ old[1] \in A /\ Head(old) = old[1] /\ Len(old) >= 1
      /\ new \in Seq(A) /\ Len(new) = Len(old) - 1
      /\ \A k \in 1 .. Len(new) : new[k] = old[k + 1]
  BY <1>1, TailFacts
<1>3. Len(old) \in Nat /\ Len(new) \in Nat
  BY <1>1, <1>2
<1>4. \E v : sim' = [sim EXCEPT ![old[1].ref] = v]
  BY <1>2 DEF ApplyWrite
<1>5. r \in Mapping
  BY SimHubAssumption DEF SimHubAssumption
<1>6. old[1].ref = r =>
         \E n \in {0} \cup Noise : sim' = [sim EXCEPT ![r] = old[1].val + n]
  BY <1>2 DEF ApplyWrite
<1>7. \A k \in 2 .. Len(old) :
        k - 1 \in 1 .. Len(new) /\ new[k - 1] = old[k] /\ (k - 1) + 1 = k
  BY <1>2, <1>3
<1>8. \A k \in 1 .. Len(old) : k = 1 \/ k \in 2 .. Len(old)
  BY <1>3
<1> DEFINE before == LastOf(old, r, sim[r])
           after == LastOf(new, r, sim'[r])
<1>9. Upcoming(r) = before /\ Upcoming(r)' = after
  BY <1>5, UpcomingIs
<1>10. old[1].val \in Sendable(old[1].ref)
  BY <1>2, <1>3 DEF OwnInv, OwnValues
<1>11. old \in Seq(Request) /\ new \in Seq(Request)
  BY <1>1, <1>2 DEF A
<1>12. sim \in [Mapping -> Nat]
  BY DEF TypeInv, TypeOK
<1> HIDE DEF old, new
<1>13. CASE \E k \in 2 .. Len(old) : old[k].ref = r
  <2>0. \E k \in 1 .. Len(old) : old[k].ref = r
    BY <1>3, <1>13
  <2>1. PICK k \in 1 .. Len(old) : IsLast(old, r, k)
    BY <1>11, <2>0, LastOfIs
  <2>2. k # 1
    BY <1>3, <1>13, <2>1 DEF IsLast
  <2>3. k - 1 \in 1 .. Len(new) /\ new[k - 1] = old[k]
    BY <1>7, <1>8, <2>2
  <2>4. ASSUME NEW j \in 1 .. Len(new), new[j].ref = r
        PROVE  j <= k - 1
    <3>1. j + 1 \in 1 .. Len(old) /\ old[j + 1].ref = r
      BY <1>2, <1>3, <2>4
    <3> QED
      BY <2>1, <3>1 DEF IsLast
  <2>5. IsLast(new, r, k - 1)
    BY <2>1, <2>3, <2>4 DEF IsLast
  <2>6. before = old[k].val /\ after = new[k - 1].val
    BY <1>11, <2>1, <2>5, LastOfIs
  <2> QED
    BY <1>9, <2>3, <2>6
<1>14. CASE \A k \in 2 .. Len(old) : old[k].ref # r
  <2>1. \A k \in 1 .. Len(new) : new[k].ref # r
    <3> TAKE k \in 1 .. Len(new)
    <3>1. k + 1 \in 2 .. Len(old) /\ new[k] = old[k + 1]
      BY <1>2, <1>3
    <3> QED
      BY <1>14, <3>1
  <2>2. after = sim'[r]
    BY <1>11, <2>1, LastOfIs
  <2>3. CASE old[1].ref = r
    <3>1. IsLast(old, r, 1)
      BY <1>2, <1>3, <1>8, <1>14, <2>3 DEF IsLast
    <3>2. before = old[1].val
      BY <1>11, <3>1, LastOfIs
    <3>3. PICK n \in {0} \cup Noise : sim'[r] = old[1].val + n
      BY <1>6, <1>5, <1>12, <2>3
    <3> QED
      BY <1>9, <1>10, <2>2, <2>3, <3>2, <3>3
  <2>4. CASE old[1].ref # r
    <3>1. \A k \in 1 .. Len(old) : old[k].ref # r
      BY <1>8, <1>14, <2>4
    <3>2. before = sim[r]
      BY <1>11, <3>1, LastOfIs
    <3>3. sim'[r] = sim[r]
      BY <1>4, <1>5, <1>12, <2>4
    <3> QED
      BY <1>9, <2>2, <3>2, <3>3
  <2> QED
    BY <2>3, <2>4
<1> QED
  BY <1>13, <1>14

-----------------------------------------------------------------------------
(***************************************************************************)
(* A value the user has set reaches the simulator: where the variable is   *)
(* fresh, the snapshot tells what it is or is about to be.                 *)
(***************************************************************************)

\* Of the simulator: what it adds to a value written to it is not seen at
\* the precision the hub compares with.
SimulatorIsPrecise == \A n \in Noise : n + Half < Thousandth

LinkInv ==
  /\ alive => connected
  /\ phase # "stopped" /\ ~alive => fresh = {}

\* A setDelay of SetDelay tells that there has been no snapshot since the
\* last write.
FreshInv ==
  \A r \in fresh :
    /\ setDelay[r] = 0 => ~UnderWay(r)
    /\ setDelay[r] > 0 => Rounded(Upcoming(r)) = setValue[r]
    /\ setDelay[r] # SetDelay =>
         /\ data # NoData
         /\ Rounded(data[ReadOffset(r)]) = Rounded(Upcoming(r))

SetInv ==
  \A r \in Mapping :
    /\ items[r].changed => items[r].val = set[r]
    /\ own[r] => /\ r \in WritesRead
                 /\ \E k \in KnobValue[r] : set[r] = Heard(TypeOf[r], k)
                 /\ Rounded(Upcoming(r)) = Scaled(r, set[r])

UserInv == LinkInv /\ FreshInv /\ SetInv

LEMMA UserInit == Init => UserInv
<1> SUFFICES ASSUME Init PROVE UserInv
  OBVIOUS
<1>1. LinkInv /\ FreshInv
  BY DEF Init, LinkInv, FreshInv
<1>2. \A r \in Mapping : ~items[r].changed /\ ~own[r]
  BY DEF Init
<1>3. SetInv
  BY <1>2 DEF SetInv
<1> QED
  BY <1>1, <1>3 DEF UserInv

\* A step that does not touch values, requests or items.
LEMMA UserCalm ==
  ASSUME TypeInv, UserInv,
         UNCHANGED <<data, setValue, setDelay, items, sim, requests, set>>,
         own' = own \/ own' = [r \in Mapping |-> FALSE],
         fresh' = {} \/ fresh' = fresh,
         LinkInv'
  PROVE  UserInv'
<1>1. \A r \in Mapping : own'[r] => own[r]
  <2>1. CASE own' = own
    BY <2>1
  <2>2. CASE own' = [r \in Mapping |-> FALSE]
    BY <2>2
  <2> QED
    BY <2>1, <2>2
<1>2. \A r \in Mapping : Upcoming(r)' = Upcoming(r) /\ UnderWay(r)' = UnderWay(r)
  BY DEF Upcoming, UnderWay
<1>3. fresh \subseteq Mapping
  BY SimHubAssumption DEF SimHubAssumption, TypeInv, TypeOK
<1>4. SetInv'
  BY <1>1, <1>2 DEF UserInv, SetInv
<1>5. FreshInv'
  BY <1>2, <1>3 DEF UserInv, FreshInv
<1> QED
  BY <1>4, <1>5 DEF UserInv

LEMMA UserDispatchData ==
  ASSUME TypeInv, OwnInv, UserInv, DispatchData
  PROVE  UserInv'
<1>1. HiddenAreRead /\ TypeOK
  BY DEF HiddenAreRead, OwnInv, OwnValues, TypeInv
<1>2. dataMappings = NumMappings
  BY DEF DispatchData, TypeInv, TypeOK
<1> DEFINE d == Snapshot
           after == DelayedRead(d)
<1>3. d \in [Offsets -> Nat] /\ \A r \in ReadMapping : d[ReadOffset(r)] = sim[r]
  BY SnapshotType, SnapshotHolds DEF TypeInv
<1>4. /\ data' = after.data /\ setDelay' = after.delay
      /\ fresh' = {r \in WritesRead : IF after.delay[r] = 0
                                      THEN ~UnderWay(r) ELSE r \in fresh}
  BY DEF DispatchData
<1>5. UNCHANGED <<phase, link, setValue, items, world, user>>
  BY DEF DispatchData
<1>6. \A r \in Mapping : Upcoming(r)' = Upcoming(r) /\ UnderWay(r)' = UnderWay(r)
  BY <1>5 DEF Upcoming, UnderWay, world
<1>7. LinkInv'
  BY <1>5 DEF DispatchData, UserInv, LinkInv, link, world
<1>8. SetInv'
  BY <1>5, <1>6 DEF UserInv, SetInv, user
<1>9. data' # NoData
  <2>1. after \in Reading
    BY <1>1, <1>3, DelayedReadType
  <2>2. data' \in [Offsets -> Nat]
    BY <1>4, <2>1 DEF Reading
  <2> QED
    BY <2>2, SimHubAssumption DEF SimHubAssumption
<1>10. ASSUME NEW r \in fresh'
       PROVE  /\ setDelay'[r] = 0 => ~UnderWay(r)'
              /\ setDelay'[r] > 0 => Rounded(Upcoming(r)') = setValue'[r]
              /\ Rounded(data'[ReadOffset(r)]) = Rounded(Upcoming(r)')
  <2>1. r \in ReadMapping /\ r \in Mapping
    BY <1>4, SimHubAssumption DEF SimHubAssumption
  <2> HIDE DEF d
  <2>2. /\ after.delay[r] = IF setDelay[r] = 0 \/ sim[r] = setValue[r]
                            THEN 0 ELSE setDelay[r] - 1
        /\ after.data[ReadOffset(r)] =
             IF after.delay[r] > 0 THEN setValue[r] ELSE sim[r]
    BY <1>1, <1>2, <1>3, <2>1, DelayedReadIs
  <2>3. setDelay[r] \in 0 .. 3
    BY <2>1 DEF TypeInv, TypeOK, SetDelay
  <2> HIDE DEF after
  <2>4. CASE setDelay'[r] = 0
    <3>1. ~UnderWay(r)
      BY <1>4, <2>4
    <3>2. Upcoming(r) = sim[r]
      BY <1>1, <2>1, <3>1, UpcomingIdle
    <3>3. data'[ReadOffset(r)] = sim[r]
      BY <1>4, <2>2, <2>4
    <3> QED
      BY <1>6, <2>1, <2>4, <3>1, <3>2, <3>3
  <2>5. CASE setDelay'[r] # 0
    <3>1. setDelay'[r] > 0 /\ setDelay[r] > 0
      BY <1>4, <2>2, <2>3, <2>5
    <3>2. r \in fresh
      BY <1>4, <2>5
    <3>3. Rounded(Upcoming(r)) = setValue[r]
      BY <3>1, <3>2 DEF UserInv, FreshInv
    <3>4. data'[ReadOffset(r)] = setValue[r]
      BY <1>4, <2>2, <3>1
    <3>5. Rounded(setValue[r]) = setValue[r]
      BY <2>1, <3>1, SendableFacts, RoundedSame DEF OwnInv, OwnValues
    <3> QED
      BY <1>5, <1>6, <2>1, <3>1, <3>3, <3>4, <3>5
  <2> QED
    BY <2>4, <2>5
<1>11. FreshInv'
  BY <1>9, <1>10 DEF FreshInv
<1> QED
  BY <1>7, <1>8, <1>11 DEF UserInv

LEMMA UserInput ==
  ASSUME TypeInv, UserInv, NEW r \in Mapping, NEW v \in KnobValue[r],
         Input(r, v)
  PROVE  UserInv'
<1>1. \A i \in Mapping : i # r => items'[i] = items[i]
  BY WriteItemFacts DEF Input
<1>2. \A i \in Mapping :
        /\ i # r => set'[i] = set[i] /\ own'[i] = own[i]
        /\ i = r => set'[i] = items'[i].val /\ ~own'[i]
  BY DEF Input, TypeInv, TypeOK
<1>3. UNCHANGED <<phase, link, data, delayed, snapshots, world, fresh>>
  BY DEF Input
<1>4. \A i \in Mapping : Upcoming(i)' = Upcoming(i) /\ UnderWay(i)' = UnderWay(i)
  BY <1>3 DEF Upcoming, UnderWay, world
<1>5. fresh \subseteq Mapping
  BY SimHubAssumption DEF SimHubAssumption, TypeInv, TypeOK
<1>6. LinkInv'
  BY <1>3 DEF UserInv, LinkInv, link, world
<1>7. FreshInv'
  BY <1>3, <1>4, <1>5 DEF UserInv, FreshInv, link, delayed, world
<1>8. SetInv'
  BY <1>1, <1>2, <1>4 DEF UserInv, SetInv
<1> QED
  BY <1>6, <1>7, <1>8 DEF UserInv

\* What a variable will be after step 2.
LEMMA UpcomingUpdate ==
  ASSUME TypeInv, Update, alive, NEW r \in Mapping
  PROVE  /\ r \in Written => Upcoming(r)' = Scaled(r, items[r].val)
         /\ r \notin Written => Upcoming(r)' = Upcoming(r)
<1>1. requests \in Seq(Request) /\ Requested \in Seq(Request)
  BY RequestedType DEF TypeInv, TypeOK, Request
<1>2. Adds(Requested, requests, NumMappings)
  BY RequestedFacts
<1>3. requests' = Requested /\ sim' = sim
  BY DEF Update
<1> QED
  BY <1>1, <1>2, <1>3, UpcomingIs, UpcomingAdds

\* A variable step 2 does not write has the requests it had before.
LEMMA MineUpdate ==
  ASSUME TypeInv, Update, NEW r \in Mapping, r \notin Written
  PROVE  /\ \A k \in 1 .. Len(requests') : requests'[k].ref = r =>
              k \in 1 .. Len(requests) /\ requests[k].ref = r
         /\ \A k \in 1 .. Len(requests) :
              k \in 1 .. Len(requests') /\ requests'[k] = requests[k]
<1>1. CASE requests' = requests
  BY <1>1
<1>2. CASE requests' = Requested
  <2> DEFINE new == Requested
  <2>1. /\ Len(new) >= Len(requests)
        /\ \A k \in 1 .. Len(requests) : new[k] = requests[k]
        /\ \A k \in Len(requests) + 1 .. Len(new) : new[k].ref # r
    BY RequestedFacts DEF Adds
  <2>2. Len(requests) \in Nat /\ Len(new) \in Nat
    <3> HIDE DEF Request
    <3> QED
      BY RequestedType DEF TypeInv, TypeOK
  <2> HIDE DEF new
  <2>3. \A k \in 1 .. Len(requests) : k \in 1 .. Len(new)
    BY <2>1, <2>2
  <2>4. \A k \in 1 .. Len(new) :
          k \in 1 .. Len(requests) \/ k \in Len(requests) + 1 .. Len(new)
    BY <2>1, <2>2
  <2>5. \A k \in 1 .. Len(new) : new[k].ref = r =>
          k \in 1 .. Len(requests) /\ requests[k].ref = r
    BY <2>1, <2>4
  <2> QED
    BY <1>2, <2>1, <2>3, <2>5 DEF new
<1> QED
  BY <1>1, <1>2 DEF Update

LEMMA UnderWayUpdate ==
  ASSUME TypeInv, Update, NEW r \in Mapping, r \notin Written
  PROVE  UnderWay(r)' = UnderWay(r)
  BY MineUpdate DEF UnderWay

LEMMA UserUpdate ==
  ASSUME ReadIfWritten, TypeInv, OwnInv, UserInv, Update
  PROVE  UserInv'
<1>1. UNCHANGED <<link, data, up, alive, sim, fresh, set>> /\ phase' = "output"
  BY DEF Update
<1>2. LinkInv'
  BY <1>1 DEF UserInv, LinkInv, link, Update
<1>3. \A r \in Mapping :
        /\ setValue'[r] = IF r \in Written THEN Scaled(r, items[r].val)
                          ELSE setValue[r]
        /\ setDelay'[r] = IF r \in Written THEN 3 ELSE setDelay[r]
        /\ own'[r] = IF items[r].changed
                     THEN r \in fresh /\ (r \notin Written => setDelay[r] # 3)
                     ELSE own[r]
  BY DEF Update, SetDelay, TakenForUnchanged
<1>4. fresh \subseteq Mapping
  BY SimHubAssumption DEF SimHubAssumption, TypeInv, TypeOK
<1>5. fresh # {} => alive
  BY DEF UserInv, LinkInv, Update
<1>6. FreshInv'
  <2> SUFFICES ASSUME NEW r \in fresh'
               PROVE  /\ setDelay'[r] = 0 => ~UnderWay(r)'
                      /\ setDelay'[r] > 0 => Rounded(Upcoming(r)') = setValue'[r]
                      /\ setDelay'[r] # 3 =>
                           /\ data # NoData
                           /\ Rounded(data[ReadOffset(r)]) = Rounded(Upcoming(r)')
    BY <1>1 DEF FreshInv, SetDelay
  <2>1. r \in fresh /\ r \in Mapping /\ alive
    BY <1>1, <1>4, <1>5
  <2>2. CASE r \in Written
    <3>1. InThousandths(Scaled(r, items[r].val))
      BY <2>2, WrittenFacts DEF OwnInv, Written
    <3>2. Upcoming(r)' = Scaled(r, items[r].val)
      BY <2>1, <2>2, UpcomingUpdate
    <3>3. Rounded(Upcoming(r)') = setValue'[r] /\ setDelay'[r] = 3
      BY <1>3, <2>1, <2>2, <3>1, <3>2, RoundedSame
    <3> QED
      BY <2>1, <3>3
  <2>3. CASE r \notin Written
    <3>1. Upcoming(r)' = Upcoming(r) /\ UnderWay(r)' = UnderWay(r)
      BY <2>1, <2>3, UpcomingUpdate, UnderWayUpdate
    <3> QED
      BY <1>3, <2>1, <2>3, <3>1 DEF UserInv, FreshInv, SetDelay
  <2> QED
    BY <2>2, <2>3
<1>7. SetInv'
  <2> SUFFICES ASSUME NEW r \in Mapping
               PROVE  /\ ~items'[r].changed
                      /\ own'[r] =>
                           /\ r \in WritesRead
                           /\ \E k \in KnobValue[r] : set[r] = Heard(TypeOf[r], k)
                           /\ Rounded(Upcoming(r)') = Scaled(r, set[r])
    BY <1>1 DEF SetInv
  <2>1. ~items'[r].changed
    BY ReadFacts DEF Update, Read
  <2>2. ASSUME items[r].changed, own'[r]
        PROVE  /\ r \in WritesRead
               /\ \E k \in KnobValue[r] : set[r] = Heard(TypeOf[r], k)
               /\ Rounded(Upcoming(r)') = Scaled(r, set[r])
    <3>1. /\ alive /\ r \in fresh /\ items[r].val = set[r]
          /\ r \notin Written => setDelay[r] # 3
      BY <1>3, <1>5, <2>2 DEF UserInv, SetInv
    <3>2. r \in WritesRead /\ InThousandths(Scaled(r, items[r].val))
      BY <2>2, <3>1, WrittenFacts DEF OwnInv, TypeInv, TypeOK
    <3>3. \E k \in KnobValue[r] : items[r].val = Heard(TypeOf[r], k)
      BY <2>2 DEF OwnInv, OwnValues
    <3>4. CASE r \in Written
      <4>1. Upcoming(r)' = Scaled(r, items[r].val)
        BY <3>1, <3>4, UpcomingUpdate
      <4> QED
        BY <3>1, <3>2, <3>3, <4>1, RoundedSame
    <3>5. CASE r \notin Written
      <4>1. Upcoming(r)' = Upcoming(r)
        BY <3>1, <3>5, UpcomingUpdate
      <4>2. /\ data # NoData
            /\ Rounded(data[ReadOffset(r)]) = Rounded(Upcoming(r))
        BY <3>1, <3>5 DEF UserInv, FreshInv, SetDelay
      <4>3. connected
        BY <3>1 DEF UserInv, LinkInv
      <4>4. Rounded(data[ReadOffset(r)]) = Scaled(r, items[r].val)
        BY <2>2, <3>5, <4>2, <4>3 DEF Written, WriteNeeded
      <4> QED
        BY <3>1, <3>2, <3>3, <4>1, <4>2, <4>4
    <3> QED
      BY <3>4, <3>5
  <2>3. ASSUME ~items[r].changed, own'[r]
        PROVE  /\ r \in WritesRead
               /\ \E k \in KnobValue[r] : set[r] = Heard(TypeOf[r], k)
               /\ Rounded(Upcoming(r)') = Scaled(r, set[r])
    <3>1. own[r] /\ r \notin Written
      BY <1>3, <2>3 DEF Written
    <3>2. Upcoming(r)' = Upcoming(r)
      <4>1. CASE alive
        BY <3>1, <4>1, UpcomingUpdate
      <4>2. CASE ~alive
        <5>1. requests' = requests /\ sim' = sim
          BY <4>2 DEF Update
        <5> QED
          BY <5>1 DEF Upcoming
      <4> QED
        BY <4>1, <4>2
    <3> QED
      BY <3>1, <3>2 DEF UserInv, SetInv
  <2> QED
    BY <2>1, <2>2, <2>3
<1> QED
  BY <1>2, <1>6, <1>7 DEF UserInv

\* Applying a write changes nothing the hub can tell apart.
LEMMA UserApplyWrite ==
  ASSUME SimulatorIsPrecise, TypeInv, OwnInv, UserInv, ApplyWrite
  PROVE  UserInv'
<1>1. UNCHANGED <<phase, link, data, delayed, items, snapshots, up, alive,
                  fresh, set, own>>
  BY DEF ApplyWrite, user
<1>2. \A r \in WritesRead : Rounded(Upcoming(r)') = Rounded(Upcoming(r))
  <2> TAKE r \in WritesRead
  <2>2. r \in Mapping
    BY SimHubAssumption DEF SimHubAssumption
  <2>1. ASSUME NEW n \in {0} \cup Noise, Upcoming(r) \in Sendable(r),
               Upcoming(r)' = Upcoming(r) + n
        PROVE  Rounded(Upcoming(r)') = Rounded(Upcoming(r))
    <3>1. InThousandths(Upcoming(r))
      BY <2>1, <2>2, SendableFacts
    <3>2. n \in Nat /\ n + Half < Thousandth
      BY Units, SimHubAssumption DEF SimHubAssumption, SimulatorIsPrecise
    <3> DEFINE w == Upcoming(r)
    <3>3. Rounded(w + n) = w /\ Rounded(w) = w
      <4>1. InThousandths(w)
        BY <3>1
      <4> HIDE DEF w
      <4> QED
        BY <3>2, <4>1, RoundedNear, RoundedSame
    <3> QED
      BY <2>1, <3>3
  <2> QED
    BY <2>1, UpcomingApply
<1>3. \A r \in Mapping : ~UnderWay(r) => ~UnderWay(r)'
  <2> DEFINE A == Request
  <2>1. requests \in Seq(A) /\ requests # <<>> /\ requests' = Tail(requests)
    BY DEF TypeInv, TypeOK, Request, ApplyWrite
  <2> HIDE DEF A
  <2>2. /\ Len(requests') = Len(requests) - 1 /\ Len(requests) \in Nat
        /\ \A k \in 1 .. Len(requests') : requests'[k] = requests[k + 1]
    BY <2>1, TailFacts
  <2>3. \A k \in 1 .. Len(requests') : k + 1 \in 1 .. Len(requests)
    BY <2>2
  <2> QED
    BY <2>2, <2>3 DEF UnderWay
<1>4. fresh \subseteq Mapping /\ fresh \subseteq WritesRead
  BY SimHubAssumption DEF SimHubAssumption, TypeInv, TypeOK
<1>5. LinkInv'
  BY <1>1 DEF UserInv, LinkInv, link
<1>6. FreshInv'
  BY <1>1, <1>2, <1>3, <1>4 DEF UserInv, FreshInv, link, delayed
<1>7. SetInv'
  BY <1>1, <1>2 DEF UserInv, SetInv
<1> QED
  BY <1>5, <1>6, <1>7 DEF UserInv

LEMMA UserSimChanges ==
  ASSUME TypeInv, UserInv, NEW r \in Mapping, NEW v \in SimValue[r],
         SimChanges(r, v)
  PROVE  UserInv'
<1>1. UNCHANGED <<phase, link, data, delayed, items, snapshots, up, alive,
                  requests, set>>
  BY DEF SimChanges
<1>2. /\ fresh' = fresh \ {r}
      /\ \A i \in Mapping :
           /\ own'[i] => own[i] /\ i # r
           /\ i # r => Upcoming(i)' = Upcoming(i)
           /\ UnderWay(i)' = UnderWay(i)
  BY DEF SimChanges, TypeInv, TypeOK, Upcoming, UnderWay
<1>3. fresh \subseteq Mapping
  BY SimHubAssumption DEF SimHubAssumption, TypeInv, TypeOK
<1>4. LinkInv'
  BY <1>1, <1>2 DEF UserInv, LinkInv, link
<1>5. FreshInv'
  BY <1>1, <1>2, <1>3 DEF UserInv, FreshInv, link, delayed
<1>6. SetInv'
  BY <1>1, <1>2 DEF UserInv, SetInv
<1> QED
  BY <1>4, <1>5, <1>6 DEF UserInv

LEMMA UserStop ==
  ASSUME TypeInv, UserInv, Stop
  PROVE  UserInv'
<1>1. LinkInv'
  BY DEF Stop, UserInv, LinkInv, link
<1> QED
  BY <1>1, UserCalm DEF Stop, delayed, user

LEMMA UserLinkBreaks ==
  ASSUME TypeInv, UserInv, LinkBreaks
  PROVE  UserInv'
<1>1. UNCHANGED <<phase, link, data, delayed, items, snapshots, sim, set>>
  BY DEF LinkBreaks
<1>2. ~alive' /\ fresh' = {} /\ \A r \in Mapping : ~own'[r]
  BY DEF LinkBreaks
<1>3. LinkInv' /\ FreshInv'
  BY <1>2 DEF LinkInv, FreshInv
<1>4. SetInv'
  BY <1>1, <1>2 DEF UserInv, SetInv
<1> QED
  BY <1>3, <1>4 DEF UserInv

LEMMA UserOutput ==
  ASSUME TypeInv, UserInv, Output
  PROVE  UserInv'
<1>1. \A r \in Mapping : /\ items'[r].val = items[r].val
                         /\ items'[r].changed = items[r].changed
  BY OutputFacts
<1>2. UNCHANGED <<link, data, delayed, snapshots, world, fresh, user>>
  BY DEF Output
<1>3. phase' = "link" /\ phase # "stopped"
  BY DEF Output
<1>4. LinkInv'
  BY <1>2, <1>3 DEF UserInv, LinkInv, link, world
<1>5. \A r \in Mapping : Upcoming(r)' = Upcoming(r) /\ UnderWay(r)' = UnderWay(r)
  BY <1>2 DEF Upcoming, UnderWay, world
<1>6. fresh \subseteq Mapping
  BY SimHubAssumption DEF SimHubAssumption, TypeInv, TypeOK
<1>7. FreshInv'
  BY <1>2, <1>3, <1>5, <1>6 DEF UserInv, FreshInv, delayed
<1>8. SetInv'
  BY <1>1, <1>2, <1>5 DEF UserInv, SetInv, user
<1> QED
  BY <1>4, <1>7, <1>8 DEF UserInv

LEMMA UserStep ==
  ASSUME ReadIfWritten, SimulatorIsPrecise, TypeInv, OwnInv, UserInv,
         [Next]_vars
  PROVE  UserInv'
<1> DEFINE Same ==
      UNCHANGED <<data, setValue, setDelay, items, sim, requests, set, own>>
<1>1. CASE Dispatch
  BY <1>1, UserCalm
  DEF Dispatch, UserInv, LinkInv, link, delayed, world, user
<1>2. CASE Reconnect \/ Open
  <2>1. Same /\ fresh' = {} /\ LinkInv'
    BY <1>2 DEF Reconnect, Open, SimOpen, LinkInv, delayed, user
  <2> QED
    BY <2>1, UserCalm
<1>3. CASE Disconnect
  <2>1. Same /\ fresh' = fresh /\ LinkInv' /\ ~alive'
    BY <1>3 DEF Disconnect, UserInv, LinkInv, delayed, world, user
  <2> QED
    BY <2>1, UserCalm
<1>4. CASE RetryWait \/ OpenFails
  <2>1. Same /\ fresh' = fresh /\ LinkInv' /\ ~alive'
    BY <1>4 DEF RetryWait, OpenFails, UserInv, LinkInv, delayed, world, user
  <2> QED
    BY <2>1, UserCalm
<1>5. CASE \/ DispatchEnd \/ InputDone \/ SimStarts \/ DispatchWrongSize
           \/ UNCHANGED vars
  <2>1. Same /\ fresh' = fresh /\ LinkInv'
    BY <1>5 DEF DispatchEnd, InputDone, SimStarts, DispatchWrongSize, vars,
       UserInv, LinkInv, link, delayed, world, user
  <2> QED
    BY <2>1, UserCalm
<1> QED
  BY <1>1, <1>2, <1>3, <1>4, <1>5, UserStop, UserDispatchData,
     UserInput, UserUpdate, UserOutput, UserApplyWrite, UserSimChanges,
     UserLinkBreaks DEF Next, Main

AllInv == TypeInv /\ OwnInv /\ UserInv

LEMMA AllStep ==
  ASSUME ReadIfWritten, SimulatorIsPrecise
  PROVE  Spec => []AllInv
<1>1. Init => AllInv
  BY TypeInit, OwnInit, UserInit DEF AllInv
<1>2. AllInv /\ [Next]_vars => AllInv'
  BY TypeStep, OwnStep, UserStep DEF AllInv
<1> QED
  BY <1>1, <1>2, PTL DEF Spec

\* What the user has set is what the variable has or is about to get, with
\* the exceptions that own tells, although dataRefWrite sends nothing that
\* the snapshot, which the delayed read doctors, seems to have already.
THEOREM ValueReachesSim ==
  ASSUME ReadIfWritten, SimulatorIsPrecise
  PROVE  Spec => []UserValueReachesSim
<1>1. AllInv => UserValueReachesSim
  BY DEF AllInv, UserInv, SetInv, UserValueReachesSim
<1> QED
  BY <1>1, AllStep, PTL

-----------------------------------------------------------------------------
(***************************************************************************)
(* No stale echo: as long as the variable can still have an older value,   *)
(* the delayed read hides it.                                              *)
(***************************************************************************)

\* What r's variable, its snapshot and its item have to do with the value
\* the user has set, if nothing else was under way when it was handled.
Kept(r) ==
  /\ \A k \in 1 .. Len(requests) : requests[k].ref = r =>
       /\ requests[k].val = Scaled(r, set[r])
       /\ \A j \in 1 .. Len(requests) : requests[j].ref = r => j = k
  /\ UnderWay(r) => Rounded(sim[r]) # Scaled(r, set[r]) /\ setDelay[r] > 0
  /\ setDelay[r] > 0 => setValue[r] = Scaled(r, set[r])
  /\ setDelay[r] = 0 =>
       data # NoData /\ Rounded(data[ReadOffset(r)]) = Scaled(r, set[r])
  /\ Rounded(items[r].val) = Rounded(set[r])

EchoInv == \A r \in alone : own[r] => Kept(r)

LEMMA EchoInit == Init => EchoInv
  BY DEF Init, EchoInv

\* Of the mapping file and the Teensy's program: what is in the units "10khz"
\* is an int.  A float that is multiplied by 10 may lose its thousandths.
FloatsUnscaled == \A r \in ReadMapping : TypeOf[r] = "float" => ReadScale[r] = 1

LEMMA KnobFacts ==
  ASSUME FloatsUnscaled, NEW r \in WritesRead, NEW k \in KnobValue[r]
  PROVE  LET v == Heard(TypeOf[r], k)
         IN  /\ v \in Nat /\ OfType(TypeOf[r], v) = v
             /\ InThousandths(v) \/ (ReadScale[r] = 1 /\ TypeOf[r] = "float")
<1>1. r \in Mapping /\ r \in ReadMapping /\ TypeOf[r] \in {"int", "float"}
  BY SimHubAssumption DEF SimHubAssumption
<1> QED
  BY <1>1, HeardFacts DEF FloatsUnscaled

\* What is set is a value the Teensy sends.
LEMMA SetFacts ==
  ASSUME FloatsUnscaled, SetInv, NEW r \in Mapping, own[r]
  PROVE  /\ r \in WritesRead /\ r \in ReadMapping
         /\ set[r] \in Nat /\ OfType(TypeOf[r], set[r]) = set[r]
         /\ \/ InThousandths(set[r])
            \/ ReadScale[r] = 1 /\ TypeOf[r] = "float"
         /\ InThousandths(Scaled(r, set[r]))
<1>1. PICK k \in KnobValue[r] : set[r] = Heard(TypeOf[r], k)
  BY DEF SetInv
<1>2. r \in WritesRead /\ r \in ReadMapping
  BY SimHubAssumption DEF SetInv, SimHubAssumption
<1> QED
  BY <1>1, <1>2, KnobFacts, SentFacts

\* Step 3 reads back what the snapshot shows to be set.
LEMMA ReadsBack ==
  ASSUME TypeInv, NEW r \in WritesRead, NEW v \in Nat,
         OfType(TypeOf[r], v) = v,
         InThousandths(v) \/ (ReadScale[r] = 1 /\ TypeOf[r] = "float"),
         ~(setDelay'[r] > 0), data # NoData,
         Rounded(data[ReadOffset(r)]) = Scaled(r, v)
  PROVE  Rounded(Read(r).val) = Rounded(v)
<1>1. /\ r \in Mapping /\ r \in ReadMapping /\ TestValue[r] = NoValue
      /\ ReadScale[r] \in Nat \ {0} /\ WriteScale[r] = ReadScale[r]
      /\ NoValue \notin Nat
  BY SimHubAssumption DEF SimHubAssumption
<1> DEFINE d == data[ReadOffset(r)]
           s == ReadScale[r]
<1>2. d \in Nat
  BY <1>1, OffsetRange DEF TypeInv, TypeOK
<1>3. s \in Nat \ {0}
  BY <1>1
<1>4. DataRefRead(r) = Rounded(d \div s)
  BY <1>1 DEF DataRefRead
<1>5. CASE InThousandths(v)
  <2>1. Rounded(d) = v * s
    BY <1>1, <1>5, ScaledFacts
  <2> HIDE DEF d, s
  <2>2. DataRefRead(r) = v
    BY <1>2, <1>3, <1>4, <1>5, <2>1, ReadBack
  <2> QED
    BY <1>1, <2>2, ReadFacts
<1>6. CASE s = 1 /\ TypeOf[r] = "float"
  <2>1. Rounded(d) = Rounded(v)
    BY <1>1, <1>6 DEF Scaled
  <2>2. d \div s = d
    BY <1>2, <1>6
  <2> DEFINE w == Rounded(v)
  <2>3. DataRefRead(r) = w
    BY <1>4, <2>1, <2>2
  <2>4. InThousandths(w) /\ w \in Nat
    BY RoundedFacts
  <2>5. Rounded(w) = w
    BY <2>4, RoundedSame
  <2>6. OfType(TypeOf[r], w) = w
    BY <1>6 DEF OfType
  <2> HIDE DEF w
  <2>7. Read(r).val = w
    BY <1>1, <2>3, <2>4, <2>6, ReadFacts
  <2> QED
    BY <2>5, <2>7 DEF w
<1> QED
  BY <1>5, <1>6

LEMMA EchoDispatchData ==
  ASSUME FloatsUnscaled, WrittenInTime, AllInv, EchoInv, DispatchData
  PROVE  EchoInv'
<1>1. HiddenAreRead /\ TypeOK
  BY DEF HiddenAreRead, OwnInv, OwnValues, TypeInv, AllInv
<1>2. dataMappings = NumMappings
  BY DEF DispatchData, AllInv, TypeInv, TypeOK
<1> DEFINE d == Snapshot
           after == DelayedRead(d)
<1>3. d \in [Offsets -> Nat] /\ \A r \in ReadMapping : d[ReadOffset(r)] = sim[r]
  BY <1>1, SnapshotType, SnapshotHolds
<1>4. data' = after.data /\ setDelay' = after.delay
  BY DEF DispatchData
<1>5. UNCHANGED <<setValue, items, sim, requests, set, own, alone>>
  BY DEF DispatchData, world, user
<1>6. data' # NoData
  <2>1. after \in Reading
    BY <1>1, <1>3, DelayedReadType
  <2>2. data' \in [Offsets -> Nat]
    BY <1>4, <2>1 DEF Reading
  <2> QED
    BY <2>2, SimHubAssumption DEF SimHubAssumption
<1>7. ASSUME NEW r \in alone, own[r]
      PROVE  Kept(r)'
  <2>1. r \in Mapping
    BY <1>1 DEF TypeOK
  <2>2. Kept(r) /\ r \in ReadMapping /\ InThousandths(Scaled(r, set[r]))
    BY <1>7, <2>1, SetFacts DEF EchoInv, AllInv, UserInv
  <2> HIDE DEF d
  <2>3. /\ after.delay[r] = IF setDelay[r] = 0 \/ sim[r] = setValue[r]
                            THEN 0 ELSE setDelay[r] - 1
        /\ after.data[ReadOffset(r)] =
             IF after.delay[r] > 0 THEN setValue[r] ELSE sim[r]
    BY <1>1, <1>2, <1>3, <2>2, DelayedReadIs
  <2>4. setDelay[r] \in 0 .. 3
    BY <1>1, <2>1 DEF TypeOK, SetDelay
  <2> HIDE DEF after
  <2>5. setDelay'[r] > 0 => setValue'[r] = Scaled(r, set'[r])
    BY <1>4, <1>5, <2>2, <2>3, <2>4 DEF Kept
  <2>6. UnderWay(r)' = UnderWay(r)
    BY <1>5 DEF UnderWay
  <2>7. UnderWay(r) => setDelay'[r] > 0
    <3> SUFFICES ASSUME UnderWay(r) PROVE setDelay'[r] > 0
      OBVIOUS
    <3>1. setDelay[r] # 1
      BY <2>1 DEF DispatchData
    <3>2. sim[r] # setValue[r]
      BY <2>2, <2>4, RoundedSame DEF Kept
    <3>3. setDelay[r] > 0
      BY <2>2 DEF Kept
    <3> QED
      BY <1>4, <2>3, <2>4, <3>1, <3>2, <3>3
  <2>8. setDelay'[r] = 0 => Rounded(data'[ReadOffset(r)]) = Scaled(r, set'[r])
    <3> SUFFICES ASSUME setDelay'[r] = 0
                 PROVE  Rounded(data'[ReadOffset(r)]) = Scaled(r, set[r])
      BY <1>5
    <3>1. ~UnderWay(r)
      BY <2>7
    <3>2. Upcoming(r) = sim[r]
      BY <1>1, <2>1, <3>1, UpcomingIdle
    <3>3. Rounded(sim[r]) = Scaled(r, set[r])
      BY <1>7, <2>1, <3>2 DEF AllInv, UserInv, SetInv
    <3> QED
      BY <1>4, <2>3, <3>3
  <2> QED
    BY <1>5, <1>6, <2>2, <2>5, <2>6, <2>7, <2>8 DEF Kept
<1> QED
  BY <1>5, <1>7 DEF EchoInv

LEMMA EchoUpdate ==
  ASSUME ReadIfWritten, FloatsUnscaled, AllInv, EchoInv, Update
  PROVE  EchoInv'
<1> SUFFICES ASSUME NEW r \in alone', own'[r] PROVE Kept(r)'
  BY DEF EchoInv
<1>1. r \in Mapping /\ TypeInv /\ OwnInv /\ UserInv
  BY DEF Update, AllInv
<1>2. UNCHANGED <<data, sim, set>> /\ items'[r] = Read(r)
  BY <1>1 DEF Update, Read
<1>3. /\ setValue'[r] = IF r \in Written THEN Scaled(r, items[r].val)
                        ELSE setValue[r]
      /\ setDelay'[r] = IF r \in Written THEN 3 ELSE setDelay[r]
      /\ own'[r] = IF items[r].changed
                   THEN r \in fresh /\ (r \notin Written => setDelay[r] # 3)
                   ELSE own[r]
      /\ IF items[r].changed THEN setDelay[r] = 0 /\ ~UnderWay(r)
         ELSE r \in alone
  BY <1>1 DEF Update, SetDelay, TakenForUnchanged
<1>4. setDelay[r] \in 0 .. 3
  BY <1>1 DEF TypeInv, TypeOK, SetDelay
<1>5. ASSUME r \notin Written
      PROVE  UnderWay(r)' = UnderWay(r)
  BY <1>1, <1>5, UnderWayUpdate
<1>6. CASE items[r].changed
  <2>1. /\ alive /\ r \in fresh /\ items[r].val = set[r]
        /\ setDelay[r] = 0 /\ ~UnderWay(r)
    BY <1>1, <1>3, <1>6 DEF UserInv, SetInv, LinkInv, Update
  <2>2. connected /\ data # NoData
        /\ Rounded(data[ReadOffset(r)]) = Rounded(Upcoming(r))
    BY <1>1, <2>1 DEF UserInv, LinkInv, FreshInv, SetDelay
  <2>3. Upcoming(r) = sim[r]
    BY <1>1, <2>1, UpcomingIdle DEF TypeInv
  <2>4. CASE r \in Written
    <3>1. Rounded(sim[r]) # Scaled(r, set[r])
      BY <2>1, <2>2, <2>3, <2>4 DEF Written, WriteNeeded
    <3>2. Rounded(items'[r].val) = Rounded(set[r])
      <4>1. setDelay'[r] = 3
        BY <1>3, <2>4
      <4>2. setDelay'[r] > 0
        BY <4>1
      <4>3. Read(r).val = items[r].val
        BY <1>1, <4>2, ReadFacts
      <4> QED
        BY <1>2, <2>1, <4>3
    <3> DEFINE new == Requested
    <3>3. /\ \A k \in 1 .. Len(requests) : new[k] = requests[k]
          /\ \A k \in Len(requests) + 1 .. Len(new) :
               new[k].val = Scaled(new[k].ref, items[new[k].ref].val)
          /\ \A j, k \in Len(requests) + 1 .. Len(new) :
               new[j].ref = new[k].ref => j = k
      BY <1>1, RequestedFacts DEF Adds
    <3>4. Len(requests) \in Nat /\ Len(new) \in Nat /\ requests' = new
      <4> HIDE DEF Request
      <4> QED
        BY <1>1, <2>1, RequestedType DEF TypeInv, TypeOK, Update
    <3> HIDE DEF new
    <3>5. \A k \in 1 .. Len(new) : new[k].ref = r =>
            k \in Len(requests) + 1 .. Len(new)
      <4> TAKE k \in 1 .. Len(new)
      <4>1. k \in 1 .. Len(requests) \/ k \in Len(requests) + 1 .. Len(new)
        BY <3>4
      <4> QED
        BY <2>1, <3>3, <4>1 DEF UnderWay
    <3>6. \A k \in 1 .. Len(new) : new[k].ref = r =>
            /\ new[k].val = Scaled(r, set[r])
            /\ \A j \in 1 .. Len(new) : new[j].ref = r => j = k
      BY <2>1, <3>3, <3>5
    <3> QED
      BY <1>2, <1>3, <2>1, <2>4, <3>1, <3>2, <3>4, <3>6 DEF Kept
  <2>5. CASE r \notin Written
    <3>1. Rounded(data[ReadOffset(r)]) = Scaled(r, set[r])
      BY <1>1, <1>6, <2>1, <2>2, <2>5 DEF Written, WriteNeeded
    <3>2. ~UnderWay(r)' /\ setDelay'[r] = 0
      BY <1>3, <1>5, <2>1, <2>5
    <3>3. r \in WritesRead
      BY <1>1, <2>1 DEF TypeInv, TypeOK
    <3>4. /\ set[r] \in Nat /\ OfType(TypeOf[r], set[r]) = set[r]
          /\ \/ InThousandths(set[r])
             \/ ReadScale[r] = 1 /\ TypeOf[r] = "float"
      <4>1. PICK k \in KnobValue[r] : set[r] = Heard(TypeOf[r], k)
        BY <1>1, <1>6, <2>1 DEF OwnInv, OwnValues
      <4> QED
        BY <3>3, <4>1, KnobFacts
    <3>5. Rounded(items'[r].val) = Rounded(set[r])
      BY <1>1, <1>2, <2>2, <3>1, <3>2, <3>3, <3>4, ReadsBack
    <3> QED
      BY <1>2, <2>2, <3>1, <3>2, <3>5 DEF Kept, UnderWay
  <2> QED
    BY <2>4, <2>5
<1>7. CASE ~items[r].changed
  <2>1. own[r] /\ r \in alone /\ r \notin Written
    BY <1>3, <1>7 DEF Written
  <2>2. Kept(r) /\ r \in WritesRead
    BY <1>1, <2>1, SetFacts DEF EchoInv, UserInv
  <2>3. UnderWay(r)' = UnderWay(r) /\ setDelay'[r] = setDelay[r]
        /\ setValue'[r] = setValue[r]
    BY <1>3, <1>5, <2>1
  <2>4. \A k \in 1 .. Len(requests') : requests'[k].ref = r =>
          /\ requests'[k].val = Scaled(r, set[r])
          /\ \A j \in 1 .. Len(requests') : requests'[j].ref = r => j = k
    BY <1>1, <2>1, <2>2, MineUpdate DEF Kept
  <2>5. Rounded(items'[r].val) = Rounded(set[r])
    <3>1. CASE setDelay[r] > 0
      BY <1>1, <1>2, <2>2, <2>3, <3>1, ReadFacts DEF Kept
    <3>2. CASE setDelay[r] = 0
      <4>1. /\ set[r] \in Nat /\ OfType(TypeOf[r], set[r]) = set[r]
            /\ \/ InThousandths(set[r])
               \/ ReadScale[r] = 1 /\ TypeOf[r] = "float"
        BY <1>1, <2>1, SetFacts DEF UserInv
      <4>2. data # NoData /\ Rounded(data[ReadOffset(r)]) = Scaled(r, set[r])
        BY <2>2, <3>2 DEF Kept
      <4> QED
        BY <1>1, <1>2, <2>2, <2>3, <3>2, <4>1, <4>2, ReadsBack
    <3> QED
      BY <1>4, <3>1, <3>2
  <2> QED
    BY <1>2, <2>2, <2>3, <2>4, <2>5 DEF Kept
<1> QED
  BY <1>6, <1>7

LEMMA EchoApplyWrite ==
  ASSUME AllInv, EchoInv, ApplyWrite
  PROVE  EchoInv'
<1> DEFINE A == Request
<1>1. requests \in Seq(A) /\ requests # <<>> /\ requests' = Tail(requests)
  BY DEF AllInv, TypeInv, TypeOK, Request, ApplyWrite
<1> HIDE DEF A
<1>2. /\ Head(requests) = requests[1] /\ Len(requests) >= 1
      /\ Len(requests) \in Nat /\ Len(requests') = Len(requests) - 1
      /\ \A k \in 1 .. Len(requests') : requests'[k] = requests[k + 1]
  BY <1>1, TailFacts
<1>3. 1 \in 1 .. Len(requests) /\
      \A k \in 1 .. Len(requests') :
        k + 1 \in 1 .. Len(requests) /\ k + 1 # 1 /\ k \in Nat
  BY <1>2
<1>4. UNCHANGED <<data, setDelay, setValue, items, set, own, alone>>
  BY DEF ApplyWrite, delayed, user
<1>5. ASSUME NEW r \in alone, own[r]
      PROVE  Kept(r)'
  <2>1. r \in Mapping /\ Kept(r)
    BY <1>5 DEF AllInv, TypeInv, TypeOK, EchoInv
  <2>2. \A k \in 1 .. Len(requests') : requests'[k].ref = r =>
          /\ requests'[k].val = Scaled(r, set[r])
          /\ \A j \in 1 .. Len(requests') : requests'[j].ref = r => j = k
    <3>1. ASSUME NEW k \in 1 .. Len(requests'), requests'[k].ref = r,
                 NEW j \in 1 .. Len(requests'), requests'[j].ref = r
          PROVE  requests'[k].val = Scaled(r, set[r]) /\ j = k
      <4>1. j + 1 = k + 1 /\ requests[k + 1].val = Scaled(r, set[r])
        BY <1>2, <1>3, <2>1, <3>1 DEF Kept
      <4> QED
        BY <1>2, <1>3, <4>1
    <3> QED
      BY <3>1
  <2>3. CASE requests[1].ref = r
    <3>1. ~UnderWay(r)'
      BY <1>2, <1>3, <2>1, <2>3 DEF Kept, UnderWay
    <3> QED
      BY <1>4, <2>1, <2>2, <3>1 DEF Kept
  <2>4. CASE requests[1].ref # r
    <3>1. UnderWay(r)' => UnderWay(r)
      BY <1>2, <1>3 DEF UnderWay
    <3>2. sim'[r] = sim[r]
      BY <1>2, <2>1, <2>4 DEF ApplyWrite, AllInv, TypeInv, TypeOK
    <3> QED
      BY <1>4, <2>1, <2>2, <3>1, <3>2 DEF Kept
  <2> QED
    BY <2>3, <2>4
<1> QED
  BY <1>4, <1>5 DEF EchoInv

\* A step that leaves r alone.
LEMMA KeptStays ==
  ASSUME NEW r \in Mapping, Kept(r),
         UNCHANGED <<requests, setDelay, setValue, data>>,
         sim'[r] = sim[r], set'[r] = set[r], items'[r].val = items[r].val
  PROVE  Kept(r)'
  BY DEF Kept, UnderWay

LEMMA EchoStep ==
  ASSUME ReadIfWritten, FloatsUnscaled, WrittenInTime, AllInv, EchoInv,
         [Next]_vars
  PROVE  EchoInv'
<1>1. alone \subseteq Mapping /\ TypeInv
  BY DEF AllInv, TypeInv, TypeOK
<1>2. CASE \/ Dispatch \/ Reconnect \/ Disconnect \/ RetryWait \/ Open
           \/ OpenFails \/ Stop \/ DispatchEnd \/ InputDone
           \/ DispatchWrongSize \/ SimStarts \/ UNCHANGED vars
  <2>1. UNCHANGED <<requests, setDelay, setValue, data, sim, set, items, own,
                    alone>>
    BY <1>2 DEF Dispatch, Reconnect, Disconnect, RetryWait, Open, OpenFails,
       Stop, DispatchEnd, InputDone, DispatchWrongSize, SimStarts, vars,
       delayed, world, user
  <2> QED
    BY <1>1, <2>1, KeptStays DEF EchoInv
<1>3. CASE LinkBreaks
  <2>1. \A r \in Mapping : ~own'[r]
    BY <1>3 DEF LinkBreaks
  <2>2. alone' = alone
    BY <1>3 DEF LinkBreaks
  <2> QED
    BY <1>1, <2>1, <2>2 DEF EchoInv
<1>4. CASE Output
  <2>1. UNCHANGED <<requests, setDelay, setValue, data, sim, set, own, alone>>
    BY <1>4 DEF Output, delayed, world, user
  <2>2. \A r \in Mapping : items'[r].val = items[r].val
    BY <1>1, <1>4, OutputFacts
  <2> QED
    BY <1>1, <2>1, <2>2, KeptStays DEF EchoInv
<1>5. ASSUME NEW q \in Mapping, NEW v \in KnobValue[q], Input(q, v)
      PROVE  EchoInv'
  <2>1. UNCHANGED <<requests, setDelay, setValue, data, sim, alone>>
    BY <1>5 DEF Input, delayed, world
  <2>2. \A r \in Mapping : own'[r] =>
          own[r] /\ set'[r] = set[r] /\ items'[r] = items[r]
    <3>1. \A r \in Mapping : r # q => items'[r] = items[r]
      BY <1>1, <1>5, WriteItemFacts DEF Input
    <3> QED
      BY <1>1, <1>5, <3>1 DEF Input, TypeInv, TypeOK
  <2> QED
    BY <1>1, <2>1, <2>2, KeptStays DEF EchoInv
<1>6. ASSUME NEW q \in Mapping, NEW v \in SimValue[q], SimChanges(q, v)
      PROVE  EchoInv'
  <2>1. UNCHANGED <<requests, setDelay, setValue, data, items, set, alone>>
    BY <1>6 DEF SimChanges, delayed
  <2>2. \A r \in Mapping : own'[r] => own[r] /\ sim'[r] = sim[r]
    BY <1>1, <1>6 DEF SimChanges, TypeInv, TypeOK
  <2> QED
    BY <1>1, <2>1, <2>2, KeptStays DEF EchoInv
<1> QED
  BY <1>2, <1>3, <1>4, <1>5, <1>6, EchoDispatchData, EchoUpdate,
     EchoApplyWrite DEF Next, Main

\* Neither the snapshot of this turn nor one that was taken before the write
\* was applied brings an older value back to the Teensy, if a write is not
\* missed by three snapshots.
THEOREM NoOlderValueShown ==
  ASSUME ReadIfWritten, SimulatorIsPrecise, FloatsUnscaled, WrittenInTime
  PROVE  Spec => []NoStaleEcho
<1>1. Spec => []AllInv
  BY AllStep
<1>2. AllInv /\ EchoInv /\ [Next]_vars => EchoInv'
  BY EchoStep
<1>3. AllInv /\ EchoInv => NoStaleEcho
  BY DEF EchoInv, Kept, NoStaleEcho
<1> QED
  BY <1>1, <1>2, <1>3, EchoInit, PTL DEF Spec
=============================================================================
