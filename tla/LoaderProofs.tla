---------------------------- MODULE LoaderProofs ----------------------------
(***************************************************************************)
(* What the loaders leave in the tables, for every mapping file and every  *)
(* button file.  How a line is taken to pieces matters for two theorems    *)
(* (VariableOrTestValue and MappingsAreAsWritten); the others rest on the  *)
(* order in which entries are tested, filled and counted.                  *)
(***************************************************************************)
EXTENDS Loader, DataLemmas

\* The entries the lines of a mapping file can give.
Entry == {Parse(Significant(l)) :
            l \in {m \in MappingLine : LineOK(Significant(m))}}

\* The entries the lines of a button file can give, whatever the mapping.
ButtonEntry ==
  {[button |-> ButtonNumber(s), gpioPin |-> Pins[ButtonNumber(s)],
    refNum |-> r,
    initValue |-> IF IsTest(ButtonText(s)) THEN Head(ButtonText(s)) ELSE NoValue,
    adjust |-> Adjust(ButtonText(s))] :
     s \in {Significant(l) : l \in ButtonLine}, r \in Nat}

Tables == dataMapping \in Seq(Entry) /\ buttonData \in Seq(ButtonEntry)

\* dataMap is the table of names turned round.
MapIsTable == dataMap = {<<dataMapping[i].dataRef, i>> : i \in Loaded}

NamesDiffer ==
  \A i, j \in Loaded : dataMapping[i].dataRef = dataMapping[j].dataRef => i = j

ButtonsInTable ==
  \A k \in 1 .. Len(buttonData) : buttonData[k].refNum \in Loaded

\* The inductive invariant: NamesFindMappings says what the look-up gives,
\* MapIsTable and NamesDiffer why it keeps giving that when a line is added.
LoaderInv == Tables /\ MapIsTable /\ NamesDiffer /\ ButtonsInTable

-----------------------------------------------------------------------------
LEMMA LoaderInit == Init => LoaderInv
BY DEF Init, LoaderInv, Tables, MapIsTable, NamesDiffer, ButtonsInTable, Loaded

\* A new mapping: its name was not in the map, so not in the table.
LEMMA LoadMappingInv ==
  ASSUME LoaderInv, NEW line \in MappingLine, LoadMapping(line)
  PROVE  LoaderInv'
<1> DEFINE e == Parse(Significant(line))
<1> DEFINE n == Len(dataMapping)
<1>1. /\ LineOK(Significant(line)) /\ ~IsMapped(e.dataRef)
      /\ dataMap' = dataMap \cup {<<e.dataRef, n + 1>>}
      /\ dataMapping' = Append(dataMapping, e)
      /\ buttonData' = buttonData
  BY DEF LoadMapping
<1>2. e \in Entry
  BY <1>1 DEF Entry
<1>3. dataMapping \in Seq(Entry) /\ n \in Nat
  BY DEF LoaderInv, Tables
<1> HIDE DEF e
<1>4. /\ dataMapping' \in Seq(Entry) /\ Len(dataMapping') = n + 1
      /\ \A i \in 1 .. n : dataMapping'[i] = dataMapping[i]
      /\ dataMapping'[n + 1] = e
  BY <1>1, <1>2, <1>3, AppendFacts
<1> HIDE DEF n
<1>5. Loaded = 1 .. n /\ Loaded' = 1 .. n \cup {n + 1}
  BY <1>3, <1>4 DEF Loaded, n
<1>6. \A i \in 1 .. n : dataMapping[i].dataRef # e.dataRef
  <2> SUFFICES ASSUME NEW i \in 1 .. n, dataMapping[i].dataRef = e.dataRef
               PROVE  FALSE
    OBVIOUS
  <2>1. <<e.dataRef, i>> \in dataMap
    BY <1>5 DEF LoaderInv, MapIsTable
  <2>2. <<e.dataRef, i>>[1] = e.dataRef
    OBVIOUS
  <2> QED
    BY <1>1, <2>1, <2>2, Zenon DEF IsMapped
<1>7. Tables'
  BY <1>1, <1>4 DEF LoaderInv, Tables
<1>8. MapIsTable'
  <2>1. {<<dataMapping'[i].dataRef, i>> : i \in Loaded'}
          = {<<dataMapping[i].dataRef, i>> : i \in Loaded}
              \cup {<<e.dataRef, n + 1>>}
    BY <1>4, <1>5
  <2> QED
    BY <1>1, <2>1 DEF LoaderInv, MapIsTable
<1>9. NamesDiffer'
  BY <1>4, <1>5, <1>6 DEF LoaderInv, NamesDiffer
<1>10. ButtonsInTable'
  BY <1>1, <1>5 DEF LoaderInv, ButtonsInTable
<1> QED
  BY <1>7, <1>8, <1>9, <1>10 DEF LoaderInv

\* What the map gives for a name in it is a place in the table.
LEMMA LookUp ==
  ASSUME LoaderInv, NEW ref, IsMapped(ref)
  PROVE  /\ DataRefNum(ref) \in Loaded
         /\ dataMapping[DataRefNum(ref)].dataRef = ref
<1> DEFINE found == CHOOSE d \in dataMap : d[1] = ref
<1>1. found \in dataMap /\ found[1] = ref
  BY DEF IsMapped
<1> HIDE DEF found
<1>2. PICK i \in Loaded : found = <<dataMapping[i].dataRef, i>>
  BY <1>1 DEF LoaderInv, MapIsTable
<1>3. found[2] = i /\ dataMapping[i].dataRef = ref
  BY <1>1, <1>2
<1>4. DataRefNum(ref) = found[2]
  BY DEF DataRefNum, found
<1> QED
  BY <1>3, <1>4

LEMMA LoadButtonInv ==
  ASSUME LoaderInv, NEW line \in ButtonLine, LoadButton(line)
  PROVE  LoaderInv'
<1> DEFINE s == Significant(line)
<1> DEFINE b == Button(s)
<1>1. /\ ButtonOK(s) /\ buttonData' = Append(buttonData, b)
      /\ UNCHANGED <<dataMapping, dataMap>>
  BY DEF LoadButton
<1>2. IsMapped(ButtonRef(s)) /\ b.refNum = DataRefNum(ButtonRef(s))
  BY <1>1 DEF ButtonOK, Button
<1>3. b.refNum \in Loaded
  BY <1>2, LookUp
<1>4. b \in ButtonEntry
  BY <1>2, <1>3 DEF ButtonEntry, Button, Loaded
<1> HIDE DEF b
<1>5. /\ buttonData' \in Seq(ButtonEntry)
      /\ Len(buttonData') = Len(buttonData) + 1
      /\ \A i \in 1 .. Len(buttonData) : buttonData'[i] = buttonData[i]
      /\ buttonData'[Len(buttonData) + 1] = b
  BY <1>1, <1>4, AppendFacts DEF LoaderInv, Tables
<1>6. ButtonsInTable'
  BY <1>1, <1>3, <1>5 DEF LoaderInv, Tables, ButtonsInTable, Loaded
<1> QED
  BY <1>1, <1>5, <1>6
     DEF LoaderInv, Tables, MapIsTable, NamesDiffer, Loaded

LEMMA LoaderStep == LoaderInv /\ [Next]_vars => LoaderInv'
<1> SUFFICES ASSUME LoaderInv, [Next]_vars
             PROVE  LoaderInv'
  OBVIOUS
<1>1. ASSUME UNCHANGED <<dataMapping, dataMap, buttonData>>
      PROVE  LoaderInv'
  BY <1>1 DEF LoaderInv, Tables, MapIsTable, NamesDiffer, ButtonsInTable, Loaded
<1>2. CASE \E line \in MappingLine : LoadMapping(line)
  BY <1>2, LoadMappingInv
<1>3. CASE \E line \in ButtonLine : LoadButton(line)
  BY <1>3, LoadButtonInv
<1>4. CASE \E line \in MappingLine : SkipLine(line) \/ Refuse(line)
  BY <1>1, <1>4 DEF SkipLine, Refuse
<1>5. CASE \E line \in ButtonLine : IgnoreButton(line)
  BY <1>1, <1>5 DEF IgnoreButton
<1>6. CASE MappingsLoaded \/ ButtonsLoaded \/ UNCHANGED vars
  BY <1>1, <1>6 DEF MappingsLoaded, ButtonsLoaded, vars
<1> QED
  BY <1>2, <1>3, <1>4, <1>5, <1>6 DEF Next

LEMMA LoaderInvariant == Spec => []LoaderInv
BY LoaderInit, LoaderStep, PTL DEF Spec

-----------------------------------------------------------------------------
(***************************************************************************)
(* Taking sequences of tokens to pieces.                                   *)
(***************************************************************************)
LEMMA Piece ==
  ASSUME NEW T, NEW s \in Seq(T), NEW a \in 1 .. Len(s) + 1,
         NEW b \in 0 .. Len(s)
  PROVE  /\ SubSeq(s, a, b) \in Seq(T)
         /\ Len(SubSeq(s, a, b)) = IF a <= b THEN b - a + 1 ELSE 0
         /\ \A i \in 1 .. Len(SubSeq(s, a, b)) :
              /\ SubSeq(s, a, b)[i] = s[a + i - 1]
              /\ a + i - 1 \in 1 .. Len(s) /\ a + i - 1 <= b
  OBVIOUS

\* A piece that is all of s.
LEMMA AllOf ==
  ASSUME NEW T, NEW s \in Seq(T)
  PROVE  SubSeq(s, 1, Len(s)) = s
  OBVIOUS

LEMMA LenIs ==
  ASSUME NEW T, NEW s \in Seq(T)
  PROVE  Len(s) \in Nat /\ (s # <<>> => Len(s) >= 1)
  OBVIOUS

LEMMA HasIs ==
  ASSUME NEW T, NEW s \in Seq(T), NEW x
  PROVE  Has(s, x) <=> \E i \in 1 .. Len(s) : s[i] = x
  BY DEF Has, ToSet

LEMMA HasPiece ==
  ASSUME NEW T, NEW s \in Seq(T), NEW a \in 1 .. Len(s) + 1,
         NEW b \in 0 .. Len(s), NEW x, Has(SubSeq(s, a, b), x)
  PROVE  Has(s, x)
<1>1. PICK p : p = SubSeq(s, a, b)
  OBVIOUS
<1>2. /\ p \in Seq(T)
      /\ \A i \in 1 .. Len(p) : p[i] = s[a + i - 1] /\ a + i - 1 \in 1 .. Len(s)
  BY <1>1, Piece
<1>3. p \in Seq(T) /\ Has(p, x)
  BY <1>1, <1>2, Zenon
<1>4. PICK i \in 1 .. Len(p) : p[i] = x
  BY <1>3, HasIs
<1> QED
  BY <1>2, <1>4, HasIs

\* The first x of s.
LEMMA FindIs ==
  ASSUME NEW T, NEW s \in Seq(T), NEW x, NEW i \in 1 .. Len(s), s[i] = x,
         \A j \in 1 .. i - 1 : s[j] # x
  PROVE  Has(s, x) /\ Find(s, x) = i
<1> DEFINE I == {j \in 1 .. Len(s) : s[j] = x}
<1>1. Has(s, x)
  BY DEF Has, ToSet
<1>2. Find(s, x) = IF I # {} THEN Min(I) ELSE 0
  BY DEF Find, SelectInSeq
<1>3. i \in I /\ \A j \in I : i <= j
  OBVIOUS
<1>4. I \subseteq Int
  OBVIOUS
<1> HIDE DEF I
<1>5. Min(I) \in I /\ \A j \in I : Min(I) <= j
  BY <1>3 DEF Min
<1>6. Min(I) = i
  <2>1. PICK k \in I : k = Min(I) /\ \A j \in I : k <= j
    BY <1>5
  <2>2. k \in Int /\ i \in Int /\ k <= i /\ i <= k
    BY <1>3, <1>4, <2>1
  <2> QED
    BY <2>1, <2>2
<1> QED
  BY <1>1, <1>2, <1>3, <1>6

LEMMA HasFirst ==
  ASSUME NEW T, NEW s \in Seq(T), NEW x, Has(s, x)
  PROVE  \E i \in 1 .. Len(s) : s[i] = x /\ \A j \in 1 .. i - 1 : s[j] # x
<1> DEFINE I == {j \in 1 .. Len(s) : s[j] = x}
<1>1. I \subseteq Nat /\ I # {}
  BY HasIs
<1> HIDE DEF I
<1>2. PICK i \in I : \A j \in I : i <= j
  BY <1>1, LeastOf
<1>3. i \in 1 .. Len(s) /\ s[i] = x
  BY <1>2 DEF I
<1>4. ASSUME NEW j \in 1 .. i - 1, s[j] = x
      PROVE  FALSE
  <2>1. j \in 1 .. Len(s) /\ ~(i <= j)
    BY <1>3
  <2> QED
    BY <1>2, <1>4, <2>1 DEF I
<1> QED
  BY <1>3, <1>4

\* What is before and what is after the first x.
LEMMA Parts ==
  ASSUME NEW T, NEW s \in Seq(T), NEW x
  PROVE  /\ Before(s, x) \in Seq(T) /\ After(s, x) \in Seq(T)
         /\ ~Has(Before(s, x), x)
         /\ \A y : Has(Before(s, x), y) => Has(s, y)
         /\ \A y : Has(After(s, x), y) => Has(s, y)
         /\ Before(s, x) # <<>> => s # <<>> /\ Before(s, x)[1] = s[1]
<1>1. CASE ~Has(s, x)
  <2>1. Before(s, x) = s /\ After(s, x) = <<>>
    BY <1>1 DEF Before, After
  <2>2. \A y : ~Has(<<>>, y)
    BY DEF Has, ToSet
  <2> QED
    BY <1>1, <2>1, <2>2
<1>2. CASE Has(s, x)
  <2>1. PICK i \in 1 .. Len(s) : s[i] = x /\ \A j \in 1 .. i - 1 : s[j] # x
    BY <1>2, HasFirst
  <2>2. PICK p, q : p = SubSeq(s, 1, i - 1) /\ q = SubSeq(s, i + 1, Len(s))
    OBVIOUS
  <2>3. Before(s, x) = p /\ After(s, x) = q
    BY <1>2, <2>1, <2>2, FindIs DEF Before, After
  <2>4. /\ 1 \in 1 .. Len(s) + 1 /\ i - 1 \in 0 .. Len(s)
        /\ i + 1 \in 1 .. Len(s) + 1 /\ Len(s) \in 0 .. Len(s)
    BY <2>1
  <2>5. /\ p \in Seq(T) /\ q \in Seq(T)
        /\ \A j \in 1 .. Len(p) : p[j] = s[1 + j - 1] /\ 1 + j - 1 <= i - 1
    BY <2>2, <2>4, Piece
  <2>6. \A j \in 1 .. Len(p) : j \in 1 .. i - 1 /\ p[j] = s[j]
    BY <2>5
  <2>7. ~Has(p, x)
    BY <2>1, <2>5, <2>6, HasIs
  <2>8. p # <<>> => p[1] = s[1]
    BY <2>5, <2>6
  <2>9. \A y : (Has(p, y) => Has(s, y)) /\ (Has(q, y) => Has(s, y))
    BY <2>2, <2>4, HasPiece
  <2> QED
    BY <2>1, <2>3, <2>5, <2>7, <2>8, <2>9
<1> QED
  BY <1>1, <1>2

LEMMA NothingInFrontOrBehind ==
  ASSUME NEW T, NEW s \in Seq(T), NEW x, ~Has(s, x)
  PROVE  Before(s, x) = s /\ After(s, x) = <<>>
  BY DEF Before, After

\* Two sequences with x between them.
LEMMA Joined ==
  ASSUME NEW T, NEW p \in Seq(T), NEW q \in Seq(T), NEW x \in T
  PROVE  /\ p \o <<x>> \o q \in Seq(T)
         /\ Len(p) \in Nat /\ Len(q) \in Nat
         /\ Len(p \o <<x>> \o q) = Len(p) + 1 + Len(q)
         /\ \A i \in 1 .. Len(p) : (p \o <<x>> \o q)[i] = p[i]
         /\ (p \o <<x>> \o q)[Len(p) + 1] = x
         /\ \A i \in 1 .. Len(q) : (p \o <<x>> \o q)[Len(p) + 1 + i] = q[i]
<1>1. PICK r \in Seq(T) : r = p \o <<x>>
  <2>1. p \o <<x>> \in Seq(T)
    OBVIOUS
  <2> QED
    BY <2>1
<1>2. /\ r \in Seq(T) /\ Len(r) = Len(p) + 1 /\ Len(p) \in Nat
      /\ \A i \in 1 .. Len(p) : r[i] = p[i] /\ i \in 1 .. Len(r)
      /\ r[Len(p) + 1] = x
  BY <1>1
<1>3. /\ r \o q \in Seq(T) /\ Len(r \o q) = Len(r) + Len(q) /\ Len(q) \in Nat
      /\ \A k \in 1 .. Len(r) : (r \o q)[k] = r[k]
      /\ \A k \in 1 .. Len(q) : (r \o q)[Len(r) + k] = q[k]
  BY ConcatFacts
<1>4. Len(p) + 1 \in 1 .. Len(r)
  BY <1>2
<1> QED
  BY <1>1, <1>2, <1>3, <1>4

LEMMA Split ==
  ASSUME NEW T, NEW p \in Seq(T), NEW q \in Seq(T), NEW x \in T, ~Has(p, x)
  PROVE  /\ Has(p \o <<x>> \o q, x)
         /\ Before(p \o <<x>> \o q, x) = p /\ After(p \o <<x>> \o q, x) = q
<1>1. PICK r : r = p \o <<x>> \o q
  OBVIOUS
<1>2. PICK n \in Nat, m \in Nat : n = Len(p) /\ m = Len(q)
  OBVIOUS
<1>3. /\ r \in Seq(T) /\ Len(r) = n + 1 + m
      /\ \A i \in 1 .. n : r[i] = p[i]
      /\ r[n + 1] = x
      /\ \A i \in 1 .. m : r[n + 1 + i] = q[i]
  BY <1>1, <1>2, Joined
<1>4. \A i \in 1 .. n : r[i] # x
  BY <1>2, <1>3, HasIs
<1>5. n + 1 \in 1 .. Len(r) /\ (n + 1) - 1 = n /\ (n + 1) + 1 \in 1 .. Len(r) + 1
      /\ n \in 0 .. Len(r) /\ 1 \in 1 .. Len(r) + 1 /\ Len(r) \in 0 .. Len(r)
  BY <1>2, <1>3
<1>6. Has(r, x) /\ Find(r, x) = n + 1
  <2>1. PICK k \in 1 .. Len(r) : k = n + 1
    BY <1>5
  <2>2. r \in Seq(T) /\ r[k] = x /\ \A j \in 1 .. k - 1 : r[j] # x
    BY <1>3, <1>4, <1>5, <2>1
  <2>3. Has(r, x) /\ Find(r, x) = k
    BY <2>2, FindIs
  <2> QED
    BY <2>1, <2>3
<1>7. Before(r, x) = SubSeq(r, 1, n) /\ After(r, x) = SubSeq(r, n + 1 + 1, Len(r))
  BY <1>5, <1>6 DEF Before, After
<1>8. SubSeq(r, 1, n) = p
  <2>1. PICK a : a = SubSeq(r, 1, n)
    OBVIOUS
  <2>2. /\ a \in Seq(T) /\ Len(a) = IF 1 <= n THEN n - 1 + 1 ELSE 0
        /\ \A i \in 1 .. Len(a) : a[i] = r[1 + i - 1]
    BY <1>3, <1>5, <2>1, Piece
  <2>3. Len(a) = Len(p) /\ \A i \in 1 .. Len(a) : a[i] = p[i]
    BY <1>2, <1>3, <2>2
  <2>4. a = p
    BY <2>2, <2>3
  <2> QED
    BY <2>1, <2>4
<1>9. SubSeq(r, n + 1 + 1, Len(r)) = q
  <2> DEFINE a == SubSeq(r, n + 1 + 1, Len(r))
  <2>1. PICK l \in Nat : l = n + 1 + 1 /\ a = SubSeq(r, l, Len(r))
    OBVIOUS
  <2> HIDE DEF a
  <2>2. /\ a \in Seq(T) /\ Len(a) = IF l <= Len(r) THEN Len(r) - l + 1 ELSE 0
        /\ \A i \in 1 .. Len(a) : a[i] = r[l + i - 1]
    BY <1>3, <1>5, <2>1, Piece
  <2>3. Len(a) = m
    BY <1>2, <1>3, <2>1, <2>2
  <2>4. \A i \in 1 .. m : l + i - 1 = n + 1 + i
    BY <1>2, <2>1
  <2>5. \A i \in 1 .. Len(a) : a[i] = q[i]
    BY <1>3, <2>2, <2>3, <2>4
  <2>6. a = q
    BY <1>2, <2>2, <2>3, <2>5
  <2> QED
    BY <2>6 DEF a
<1> QED
  BY <1>1, <1>6, <1>7, <1>8, <1>9

LEMMA HasJoined ==
  ASSUME NEW T, NEW p \in Seq(T), NEW q \in Seq(T), NEW x \in T, NEW y,
         Has(p \o <<x>> \o q, y)
  PROVE  Has(p, y) \/ x = y \/ Has(q, y)
<1>1. PICK r : r = p \o <<x>> \o q
  OBVIOUS
<1>2. PICK n \in Nat, m \in Nat : n = Len(p) /\ m = Len(q)
  OBVIOUS
<1>3. /\ r \in Seq(T) /\ Len(r) = n + 1 + m
      /\ \A i \in 1 .. n : r[i] = p[i]
      /\ r[n + 1] = x
      /\ \A i \in 1 .. m : r[n + 1 + i] = q[i]
  BY <1>1, <1>2, Joined
<1>4. PICK i \in 1 .. n + 1 + m : r[i] = y
  <2>1. Has(r, y)
    BY <1>1
  <2> QED
    BY <1>3, <2>1, HasIs
<1>5. i \in 1 .. n \/ i = n + 1 \/ \E j \in 1 .. m : i = n + 1 + j
  <2>1. CASE i <= n + 1
    BY <1>2, <1>3, <2>1
  <2>2. CASE i > n + 1
    <3>1. PICK k \in Int : k = i
      BY <1>2, <1>3
    <3> DEFINE j == k - (n + 1)
    <3>2. j \in Int /\ k = n + 1 + j
      OBVIOUS
    <3>3. j \in 1 .. m /\ i = n + 1 + j
      BY <2>2, <3>1, <3>2
    <3> QED
      BY <3>3
  <2> QED
    BY <1>2, <1>3, <2>1, <2>2
<1> QED
  BY <1>2, <1>3, <1>4, <1>5, HasIs

Regrouped(p, q, r) == (p \o q) \o r = p \o (q \o r)

LEMMA Regroup ==
  ASSUME NEW T, NEW p \in Seq(T), NEW q \in Seq(T), NEW r \in Seq(T)
  PROVE  Regrouped(p, q, r)
  BY DEF Regrouped

\* The blank and what separates the parts of a line, named: the provers get
\* lost in these strings.
Blank == " "
Semicolon == ";"
Comma == ","

\* Neither the first nor the last token is a blank.
Trimmed(s) == Len(s) # 0 => s[1] # Blank /\ s[Len(s)] # Blank

LEMMA LastNotBlank ==
  ASSUME NEW s
  PROVE  TrimRight(s) = SubSeq(s, 1, SelectLastInSeq(s, LAMBDA c : c # Blank))
  BY Zenon DEF TrimRight, Blank

LEMMA FirstNotBlank ==
  ASSUME NEW s
  PROVE  StrTrunc(s) =
           IF TrimRight(s) = <<>> THEN <<>>
           ELSE SubSeq(s, SelectInSeq(s, LAMBDA c : c # Blank), Len(TrimRight(s)))
  BY Zenon DEF StrTrunc, Blank

LEMMA LastIs ==
  ASSUME NEW T, NEW s \in Seq(T)
  PROVE  \E n \in 0 .. Len(s) :
           /\ TrimRight(s) = SubSeq(s, 1, n)
           /\ n # 0 => s[n] # Blank
           /\ \A i \in 1 .. Len(s) : s[i] # Blank => i <= n
<1>0. Len(s) \in Nat
  BY LenIs
<1> DEFINE I == {j \in 1 .. Len(s) : s[j] # Blank}
           n == IF I # {} THEN Max(I) ELSE 0
<1>1. TrimRight(s) = SubSeq(s, 1, n)
  BY LastNotBlank DEF SelectLastInSeq
<1>2. CASE I = {}
  <2>1. n = 0
    BY <1>2
  <2>2. \A i \in 1 .. Len(s) : s[i] = Blank
    BY <1>2
  <2> HIDE DEF n, I
  <2>3. 0 \in 0 .. Len(s)
    BY <1>0
  <2> QED
    BY <1>1, <2>1, <2>2, <2>3
<1>3. CASE I # {}
  <2>1. n = Max(I)
    BY <1>3
  <2>2. I \subseteq 0 .. Len(s)
    <3>1. 1 .. Len(s) \subseteq 0 .. Len(s)
      BY <1>0
    <3> QED
      BY <3>1
  <2>3. \A i \in 1 .. Len(s) : s[i] # Blank <=> i \in I
    OBVIOUS
  <2> HIDE DEF n, I
  <2>4. n \in I /\ \A y \in I : y <= n
    BY <1>0, <1>3, <2>1, <2>2, GreatestOf
  <2>5. n \in 1 .. Len(s) /\ n \in 0 .. Len(s) /\ s[n] # Blank
    BY <1>0, <2>2, <2>4 DEF I
  <2> QED
    BY <1>1, <2>3, <2>4, <2>5
<1> QED
  BY <1>2, <1>3

\* Blanks at the end are cut off, whatever is in front of them.
LEMMA TrimmedRight ==
  ASSUME NEW T, NEW s \in Seq(T)
  PROVE  /\ TrimRight(s) \in Seq(T)
         /\ \A y : Has(TrimRight(s), y) => Has(s, y)
<1>1. PICK n \in 0 .. Len(s) : TrimRight(s) = SubSeq(s, 1, n)
  BY LastIs
<1>2. 1 \in 1 .. Len(s) + 1
  OBVIOUS
<1> QED
  BY <1>1, <1>2, Piece, HasPiece

LEMMA NothingToTrim ==
  ASSUME NEW T, NEW s \in Seq(T), NEW l \in Nat, l = Len(s),
         l # 0 => s[l] # Blank
  PROVE  TrimRight(s) = s
<1>1. PICK n \in 0 .. Len(s) :
        /\ TrimRight(s) = SubSeq(s, 1, n)
        /\ \A i \in 1 .. Len(s) : s[i] # Blank => i <= n
  BY LastIs
<1>2. n \in 0 .. l
  OBVIOUS
<1>3. l # 0 => l \in 1 .. l
  OBVIOUS
<1>4. l # 0 => l <= n
  BY <1>1, <1>3
<1>5. n = l
  BY <1>2, <1>4
<1> QED
  BY <1>1, <1>5, AllOf

\* What strTrunc makes of s ...
LEMMA Truncated ==
  ASSUME NEW T, NEW s \in Seq(T)
  PROVE  /\ StrTrunc(s) \in Seq(T) /\ Trimmed(StrTrunc(s))
         /\ \A y : Has(StrTrunc(s), y) => Has(s, y)
<1>1. PICK n \in 0 .. Len(s) :
        /\ TrimRight(s) = SubSeq(s, 1, n)
        /\ n # 0 => s[n] # Blank
  BY LastIs
<1>2. PICK t : t = TrimRight(s)
  OBVIOUS
<1>3. t \in Seq(T) /\ Len(t) = n /\ n \in Nat
  <2>1. 1 \in 1 .. Len(s) + 1
    OBVIOUS
  <2>2. n \in Nat
    OBVIOUS
  <2>3. SubSeq(s, 1, n) \in Seq(T)
        /\ Len(SubSeq(s, 1, n)) = IF 1 <= n THEN n - 1 + 1 ELSE 0
    BY <2>1, Piece
  <2>4. (IF 1 <= n THEN n - 1 + 1 ELSE 0) = n
    BY <2>2
  <2> QED
    BY <1>1, <1>2, <2>2, <2>3, <2>4
<1>4. CASE t = <<>>
  <2>1. StrTrunc(s) = <<>>
    BY <1>2, <1>4, FirstNotBlank
  <2> QED
    BY <2>1 DEF Trimmed, Has, ToSet
<1>5. CASE t # <<>>
  <2> DEFINE I == {j \in 1 .. Len(s) : s[j] # Blank}
  <2>1. n # 0 /\ n \in I
    <3>1. n # 0
      BY <1>3, <1>5
    <3>2. n \in 1 .. Len(s)
      BY <3>1
    <3> QED
      BY <1>1, <3>1, <3>2
  <2>2. StrTrunc(s) = SubSeq(s, IF I # {} THEN Min(I) ELSE 0, n)
    BY <1>2, <1>3, <1>5, FirstNotBlank DEF SelectInSeq
  <2>3. I \subseteq Nat
    <3>1. 1 .. Len(s) \subseteq Nat
      OBVIOUS
    <3> QED
      BY <3>1
  <2> HIDE DEF I
  <2>4. PICK f \in I : f = Min(I) /\ f <= n
    <3>1. PICK f \in I : \A y \in I : f <= y
      BY <2>1, <2>3, LeastOf
    <3>2. Min(I) \in I /\ \A y \in I : Min(I) <= y
      BY <3>1 DEF Min
    <3> QED
      BY <2>1, <3>2
  <2>5. f \in 1 .. Len(s) /\ s[f] # Blank
    BY <2>4 DEF I
  <2>6. PICK p : p = SubSeq(s, f, n)
    OBVIOUS
  <2>7. StrTrunc(s) = p
    BY <2>2, <2>4, <2>6
  <2>8. f \in 1 .. Len(s) + 1 /\ f \in Nat /\ f >= 1
    <3>1. PICK l \in Nat : l = Len(s)
      BY LenIs
    <3>2. f \in 1 .. l
      BY <2>5, <3>1
    <3>3. f \in 1 .. l + 1 /\ f \in Nat /\ f >= 1
      BY <3>2
    <3> QED
      BY <3>1, <3>3
  <2>9. /\ p \in Seq(T) /\ Len(p) = n - f + 1
        /\ \A i \in 1 .. Len(p) : p[i] = s[f + i - 1]
    BY <1>3, <2>4, <2>6, <2>8, Piece
  <2>10. /\ 1 \in 1 .. Len(p) /\ f + 1 - 1 = f
         /\ Len(p) \in 1 .. Len(p) /\ f + Len(p) - 1 = n
    <3>1. PICK l \in Int : l = n - f + 1
      BY <1>3, <2>8
    <3>2. 1 \in 1 .. l /\ l \in 1 .. l /\ f + 1 - 1 = f /\ f + l - 1 = n
      BY <1>3, <2>4, <2>8, <3>1
    <3> QED
      BY <2>9, <3>1, <3>2
  <2>11. p[1] # Blank /\ p[Len(p)] # Blank
    BY <1>1, <2>1, <2>5, <2>9, <2>10
  <2>12. \A y : Has(p, y) => Has(s, y)
    BY <2>6, <2>8, HasPiece
  <2> QED
    BY <2>7, <2>9, <2>11, <2>12 DEF Trimmed
<1> QED
  BY <1>4, <1>5

\* ... and when there is nothing to do.
LEMMA NothingToTruncate ==
  ASSUME NEW T, NEW s \in Seq(T), Trimmed(s)
  PROVE  StrTrunc(s) = s /\ TrimRight(s) = s
<1>1. TrimRight(s) = s
  <2>1. Len(s) \in Nat
    BY LenIs
  <2> QED
    BY <2>1, NothingToTrim DEF Trimmed
<1>2. CASE s = <<>>
  BY <1>1, <1>2, FirstNotBlank
<1>3. CASE s # <<>>
  <2> DEFINE I == {j \in 1 .. Len(s) : s[j] # Blank}
  <2>1. StrTrunc(s) = SubSeq(s, IF I # {} THEN Min(I) ELSE 0, Len(s))
    BY <1>1, <1>3, FirstNotBlank DEF SelectInSeq
  <2>2. 1 \in I /\ \A y \in I : 1 <= y /\ y \in Int
    <3>1. 1 \in 1 .. Len(s) /\ \A y \in 1 .. Len(s) : 1 <= y /\ y \in Int
      BY <1>3
    <3> QED
      BY <1>3, <3>1 DEF Trimmed
  <2> HIDE DEF I
  <2>3. PICK f \in I : f = Min(I) /\ f <= 1
    <3>1. Min(I) \in I /\ \A y \in I : Min(I) <= y
      BY <2>2 DEF Min
    <3> QED
      BY <2>2, <3>1
  <2>4. Min(I) = 1
    BY <2>2, <2>3
  <2> QED
    BY <1>1, <2>1, <2>2, <2>4, AllOf
<1> QED
  BY <1>2, <1>3

LEMMA NothingElse == \A y : ~Has(<<>>, y)
BY DEF Has, ToSet

-----------------------------------------------------------------------------
(***************************************************************************)
(* A mapping, written out and loaded again.                                *)
(***************************************************************************)
LEMMA Separators ==
  /\ Blank # Semicolon /\ Blank # Comma /\ Semicolon # Comma
  /\ Blank \notin Digit /\ Semicolon \notin Digit /\ Comma \notin Digit
  /\ "#" \notin Digit /\ "+" \notin Digit /\ "-" \notin Digit
  /\ NoValue \notin Digit
  /\ Blank # "#" /\ Semicolon # "#" /\ Comma # "#"
  BY LoaderAssumption, Zenon DEF LoaderAssumption, Blank, Semicolon, Comma

\* The operators of Loader with the separators named.
LEMMA ReadPartIs ==
  ASSUME NEW field
  PROVE  ReadPart(field) =
    IF IsTest(field)
    THEN [var |-> <<>>, units |-> <<>>, value |-> Head(field),
          adjust |-> Adjust(field)]
    ELSE [var |-> Before(field, Comma),
          units |-> StrTrunc(After(field, Comma)),
          value |-> NoValue, adjust |-> <<>>]
  BY Zenon DEF ReadPart, Comma

LEMMA ReadPartOKIs ==
  ASSUME NEW field
  PROVE  ReadPartOK(field) <=>
           \/ field = <<>> \/ IsTest(field)
           \/ Has(field, Comma) /\ StrTrunc(After(field, Comma)) # <<>>
  BY Zenon DEF ReadPartOK, Comma

LEMMA WritePartOKIs ==
  ASSUME NEW field
  PROVE  WritePartOK(field) <=>
           field = <<>> \/ (~Has(field, Semicolon) /\ Has(field, Comma))
  BY Zenon DEF WritePartOK, Comma, Semicolon

LEMMA WritePartIs ==
  ASSUME NEW field, NEW read
  PROVE  WritePart(field, read) =
    [var |-> IF Before(field, Comma) = <<>> THEN read.var
             ELSE Before(field, Comma),
     units |-> IF StrTrunc(After(field, Comma)) = <<>> THEN read.units
               ELSE StrTrunc(After(field, Comma))]
  BY Zenon DEF WritePart, Comma

\* The two fields as AsLine writes them.
ReadText(read) ==
  IF read.value # NoValue THEN <<read.value>> \o read.adjust
  ELSE IF read.var = <<>> /\ read.units = <<>> THEN <<>>
  ELSE read.var \o <<Comma>> \o read.units
WriteText(write) ==
  IF write.var = <<>> /\ write.units = <<>> THEN <<>>
  ELSE write.var \o <<Comma>> \o write.units

\* T has every token that AsLine may add.
Vocabulary(T) == Digit \subseteq T /\ {Semicolon, Comma, "+", "-"} \subseteq T

\* The variable and the units of a field, joined by a comma.
Field(T, v, u) ==
  /\ v \in Seq(T) /\ u \in Seq(T) /\ ~Has(v, Comma) /\ Trimmed(u)
  /\ v # <<>> => v[1] # Blank
SplitsTo(T, t, v, u) ==
  /\ t \in Seq(T) /\ Trimmed(t) /\ t # <<>>
  /\ t[1] = IF v = <<>> THEN Comma ELSE v[1]
  /\ Has(t, Comma) /\ Before(t, Comma) = v /\ StrTrunc(After(t, Comma)) = u
  /\ \A y : Has(t, y) => Has(v, y) \/ y = Comma \/ Has(u, y)

LEMMA JoinedField ==
  ASSUME NEW T, Vocabulary(T), NEW v, NEW u, Field(T, v, u)
  PROVE  SplitsTo(T, v \o <<Comma>> \o u, v, u)
<1> DEFINE t == v \o <<Comma>> \o u
<1>1. /\ v \in Seq(T) /\ u \in Seq(T) /\ ~Has(v, Comma) /\ Trimmed(u)
      /\ v # <<>> => v[1] # Blank
  BY DEF Field
<1>2. Comma \in T /\ Comma # Blank
  BY Separators DEF Vocabulary
<1>3. PICK n \in Nat, m \in Nat : n = Len(v) /\ m = Len(u)
  BY <1>1, LenIs
<1>4. /\ t \in Seq(T) /\ Len(t) = n + 1 + m
      /\ \A i \in 1 .. n : t[i] = v[i]
      /\ t[n + 1] = Comma
      /\ \A i \in 1 .. m : t[n + 1 + i] = u[i]
  BY <1>1, <1>2, <1>3, Joined
<1>5. Has(t, Comma) /\ Before(t, Comma) = v /\ After(t, Comma) = u
  BY <1>1, <1>2, Split
<1>6. \A y : Has(t, y) => Has(v, y) \/ y = Comma \/ Has(u, y)
  BY <1>1, <1>2, HasJoined
<1> HIDE DEF t
<1>7. t # <<>>
  BY <1>3, <1>4
<1>8. t[1] = IF v = <<>> THEN Comma ELSE v[1]
  <2>1. CASE v = <<>>
    BY <1>3, <1>4, <2>1
  <2>2. CASE v # <<>>
    BY <1>1, <1>3, <1>4, <2>2, LenIs
  <2> QED
    BY <2>1, <2>2
<1>9. t[Len(t)] # Blank
  <2>1. CASE m = 0
    BY <1>2, <1>3, <1>4, <2>1
  <2>2. CASE m # 0
    <3>1. m \in 1 .. m /\ n + 1 + m = Len(t)
      BY <1>3, <1>4, <2>2
    <3>2. u[m] # Blank
      BY <1>1, <1>3, <2>2 DEF Trimmed
    <3> QED
      BY <1>4, <3>1, <3>2
  <2> QED
    BY <2>1, <2>2
<1>10. Trimmed(t)
  BY <1>1, <1>2, <1>8, <1>9 DEF Trimmed
<1>11. StrTrunc(After(t, Comma)) = u
  BY <1>1, <1>5, NothingToTruncate
<1> QED
  BY <1>4, <1>7, <1>8, <1>10, <1>5, <1>11, <1>6 DEF SplitsTo, t

\* The variable of a field that is trimmed.
LEMMA FieldParts ==
  ASSUME NEW T, NEW s \in Seq(T), Trimmed(s)
  PROVE  /\ Before(s, Comma) \in Seq(T) /\ StrTrunc(After(s, Comma)) \in Seq(T)
         /\ Trimmed(StrTrunc(After(s, Comma))) /\ ~Has(Before(s, Comma), Comma)
         /\ \A y : Has(Before(s, Comma), y) => Has(s, y)
         /\ \A y : Has(StrTrunc(After(s, Comma)), y) => Has(s, y)
         /\ Before(s, Comma) # <<>> =>
              s # <<>> /\ Before(s, Comma)[1] = s[1] /\ s[1] # Blank
<1>1. /\ Before(s, Comma) \in Seq(T) /\ After(s, Comma) \in Seq(T)
      /\ ~Has(Before(s, Comma), Comma)
      /\ \A y : Has(Before(s, Comma), y) => Has(s, y)
      /\ \A y : Has(After(s, Comma), y) => Has(s, y)
      /\ Before(s, Comma) # <<>> => s # <<>> /\ Before(s, Comma)[1] = s[1]
  BY Parts
<1>2. s # <<>> => s[1] # Blank
  BY LenIs DEF Trimmed
<1>3. PICK a \in Seq(T) : a = After(s, Comma)
  BY <1>1
<1>4. /\ StrTrunc(a) \in Seq(T) /\ Trimmed(StrTrunc(a))
      /\ \A y : Has(StrTrunc(a), y) => Has(a, y)
  BY Truncated
<1> QED
  BY <1>1, <1>2, <1>3, <1>4

LEMMA AdjustIs ==
  ASSUME NEW s
  PROVE  \/ Adjust(s) = <<>>
         \/ \E e \in Digit : Adjust(s) = <<"+", e>> \/ Adjust(s) = <<"-", e>>
<1> DEFINE sign == IF Has(s, "+") THEN "+" ELSE "-"
           number == After(s, sign)
<1>1. Adjust(s) = IF number # <<>> /\ Head(number) \in Digit
                  THEN <<sign, Head(number)>> ELSE <<>>
  BY DEF Adjust
<1>2. sign = "+" \/ sign = "-"
  OBVIOUS
<1> HIDE DEF sign, number
<1> QED
  BY <1>1, <1>2

\* The adjustment behind a number.
LEMMA AdjustAgain ==
  ASSUME NEW T, Vocabulary(T), NEW d \in Digit, NEW s, NEW t,
         t = <<d>> \o Adjust(s)
  PROVE  /\ t \in Seq(T) /\ Len(t) \in {1, 3} /\ t[1] = d /\ t[Len(t)] \in Digit
         /\ \A y : Has(t, y) => y \in Digit \cup {"+", "-"}
         /\ Adjust(t) = Adjust(s)
<1>1. d \in T /\ "+" \in T /\ "-" \in T /\ "+" # "-" /\ \A e \in Digit : e \in T
  BY DEF Vocabulary
<1>2. <<d>> \in Seq(T) /\ \A y : Has(<<d>>, y) => y = d
  BY <1>1 DEF Has, ToSet
<1>3. d # "+" /\ d # "-"
  BY Separators
<1>4. CASE Adjust(s) = <<>>
  <2>1. t = <<d>>
    BY <1>4
  <2>2. ~Has(<<d>>, "+") /\ ~Has(<<d>>, "-")
    BY <1>2, <1>3
  <2>3. After(<<d>>, "-") = <<>>
    BY <2>2 DEF After
  <2>4. Adjust(<<d>>) = <<>>
    BY <2>2, <2>3 DEF Adjust
  <2> QED
    BY <1>2, <1>4, <2>1, <2>4
<1>5. ASSUME NEW x \in {"+", "-"}, NEW e \in Digit, Adjust(s) = <<x, e>>
      PROVE  /\ t \in Seq(T) /\ Len(t) \in {1, 3} /\ t[1] = d
             /\ t[Len(t)] \in Digit
             /\ \A y : Has(t, y) => y \in Digit \cup {"+", "-"}
             /\ Adjust(t) = Adjust(s)
  <2>1. PICK p \in Seq(T), q \in Seq(T) : p = <<d>> /\ q = <<e>>
    <3>1. <<d>> \in Seq(T) /\ <<e>> \in Seq(T)
      BY <1>1
    <3> QED
      BY <3>1
  <2>2. /\ Len(p) = 1 /\ p[1] = d /\ Len(q) = 1 /\ q[1] = e
        /\ x \in T /\ q # <<>> /\ Head(q) = e
        /\ \A y : (Has(p, y) => y = d) /\ (Has(q, y) => y = e)
    BY <1>1, <2>1 DEF Has, ToSet
  <2>3. <<x, e>> = <<x>> \o q
    <3>1. PICK r : r = <<x>> \o q
      OBVIOUS
    <3>2. r \in Seq(T) /\ Len(r) = 2 /\ r[1] = x /\ r[2] = e
      BY <2>2, <3>1, FrontOf
    <3>3. r = <<x, e>>
      BY <3>2
    <3> QED
      BY <3>1, <3>3
  <2>4. PICK r : r = p \o <<x>> \o q
    OBVIOUS
  <2>5. e # "+" /\ e # "-"
    BY Separators
  <2>6. \A y : Has(r, y) => y = d \/ y = x \/ y = e
    <3>1. \A y : Has(r, y) => Has(p, y) \/ y = x \/ Has(q, y)
      BY <2>2, <2>4, HasJoined
    <3> QED
      BY <2>2, <3>1
  <2>7. Has(r, x) /\ After(r, x) = q
    <3>1. ~Has(p, x)
      BY <1>3, <2>2
    <3> QED
      BY <2>2, <2>4, <3>1, Split
  <2>8. x = IF Has(r, "+") THEN "+" ELSE "-"
    BY <1>3, <2>5, <2>6, <2>7
  <2>9. Adjust(r) = <<x, e>>
    BY <2>2, <2>7, <2>8 DEF Adjust
  <2>10. r \in Seq(T) /\ Len(r) = 3 /\ r[1] = d /\ r[3] = e
    <3>1. /\ r \in Seq(T) /\ Len(r) = Len(p) + 1 + Len(q)
          /\ \A i \in 1 .. Len(p) : r[i] = p[i]
          /\ \A i \in 1 .. Len(q) : r[Len(p) + 1 + i] = q[i]
      BY <2>2, <2>4, Joined
    <3> QED
      BY <2>2, <3>1
  <2>11. t = r
    <3>1. <<x>> \in Seq(T)
      BY <2>2
    <3>2. t = p \o (<<x>> \o q)
      BY <1>5, <2>1, <2>3
    <3>3. Regrouped(p, <<x>>, q)
      BY <3>1, Regroup
    <3> QED
      BY <2>4, <3>2, <3>3 DEF Regrouped
  <2> QED
    BY <1>5, <2>6, <2>9, <2>10, <2>11
<1> QED
  BY <1>4, <1>5, AdjustIs

\* A read field: what it says, and what its text says.
ReadsSame(T, field, read, t) ==
  /\ t \in Seq(T) /\ Trimmed(t) /\ ReadPartOK(t) /\ ReadPart(t) = read
  /\ \A y : Has(t, y) => y \in Digit \cup {"+", "-"} \/ y = Comma
                         \/ Has(field, y)
  /\ Field(T, read.var, read.units)
  /\ \A y : Has(read.var, y) \/ Has(read.units, y) => Has(field, y)

LEMMA ReadAgain ==
  ASSUME NEW T, Vocabulary(T), NEW field \in Seq(T), Trimmed(field),
         ReadPartOK(field), NEW read, read = ReadPart(field),
         NEW t, t = ReadText(read)
  PROVE  ReadsSame(T, field, read, t)
<1>1. CASE IsTest(field)
  <2>1. PICK d \in Digit : d = Head(field)
    BY <1>1 DEF IsTest
  <2>2. read = [var |-> <<>>, units |-> <<>>, value |-> d,
                adjust |-> Adjust(field)]
    BY <1>1, <2>1, ReadPartIs
  <2>3. t = <<d>> \o Adjust(field)
    BY <2>1, <2>2, Separators DEF ReadText
  <2>4. /\ t \in Seq(T) /\ Len(t) \in {1, 3} /\ t[1] = d /\ t[Len(t)] \in Digit
        /\ \A y : Has(t, y) => y \in Digit \cup {"+", "-"}
        /\ Adjust(t) = Adjust(field)
    BY <2>3, AdjustAgain
  <2>5. t # <<>> /\ Head(t) = d
    BY <2>4
  <2>6. IsTest(t)
    BY <2>5 DEF IsTest
  <2>7. ReadPart(t) = read
    BY <2>2, <2>4, <2>5, <2>6, ReadPartIs
  <2>8. Trimmed(t)
    BY <2>4, Separators DEF Trimmed
  <2>9. ReadPartOK(t)
    BY <2>6, ReadPartOKIs
  <2>10. read.var = <<>> /\ read.units = <<>>
    BY <2>2
  <2>11. <<>> \in Seq(T) /\ Trimmed(<<>>)
    BY DEF Trimmed
  <2> QED
    BY <2>4, <2>7, <2>8, <2>9, <2>10, <2>11, NothingElse DEF ReadsSame, Field
<1>2. CASE ~IsTest(field)
  <2>1. PICK v \in Seq(T), u \in Seq(T) :
          v = Before(field, Comma) /\ u = StrTrunc(After(field, Comma))
    BY FieldParts
  <2>2. read = [var |-> v, units |-> u, value |-> NoValue, adjust |-> <<>>]
    BY <1>2, <2>1, ReadPartIs
  <2>3. /\ Trimmed(u) /\ ~Has(v, Comma)
        /\ \A y : Has(v, y) \/ Has(u, y) => Has(field, y)
        /\ v # <<>> => field # <<>> /\ v[1] = field[1] /\ v[1] # Blank
    BY <2>1, FieldParts
  <2>4. read.var = v /\ read.units = u /\ read.value = NoValue
    BY <2>2
  <2>5. CASE v = <<>> /\ u = <<>>
    <3>1. field = <<>>
      BY <1>2, <2>1, <2>5, ReadPartOKIs
    <3>2. t = field
      BY <2>4, <2>5, <3>1 DEF ReadText
    <3>3. read.var \in Seq(T) /\ read.units \in Seq(T)
      BY <2>4
    <3>4. ReadPart(t) = read /\ ReadPartOK(t) /\ t \in Seq(T) /\ Trimmed(t)
      BY <3>2
    <3> QED
      BY <2>3, <2>4, <3>2, <3>3, <3>4 DEF ReadsSame, Field
  <2>6. CASE v # <<>> \/ u # <<>>
    <3>1. t = v \o <<Comma>> \o u
      BY <2>4, <2>6 DEF ReadText
    <3>9. SplitsTo(T, t, v, u)
      <4>1. Field(T, v, u)
        BY <2>3 DEF Field
      <4> QED
        BY <3>1, <4>1, JoinedField
    <3>2. /\ t \in Seq(T) /\ Trimmed(t) /\ t # <<>>
          /\ t[1] = IF v = <<>> THEN Comma ELSE v[1]
          /\ Has(t, Comma) /\ Before(t, Comma) = v
          /\ StrTrunc(After(t, Comma)) = u
          /\ \A y : Has(t, y) => Has(v, y) \/ y = Comma \/ Has(u, y)
      BY <3>9 DEF SplitsTo
    <3>3. field # <<>>
      <4>1. SUFFICES ASSUME field = <<>>
                     PROVE  v = <<>> /\ u = <<>>
        BY <2>6
      <4>2. ~Has(field, Comma)
        BY <4>1, NothingElse
      <4>3. v = <<>> /\ After(field, Comma) = <<>>
        BY <2>1, <4>1, <4>2 DEF Before, After
      <4>4. <<>> \in Seq(T) /\ Trimmed(<<>>)
        BY DEF Trimmed
      <4>5. StrTrunc(<<>>) = <<>>
        BY <4>4, NothingToTruncate
      <4> QED
        BY <2>1, <4>3, <4>5
    <3>4. u # <<>>
      BY <1>2, <2>1, <3>3, ReadPartOKIs
    <3>5. field[1] \notin Digit
      BY <1>2, <3>3 DEF IsTest
    <3>6. ~IsTest(t)
      <4>1. t[1] \notin Digit
        BY <2>3, <3>2, <3>5, Separators
      <4> QED
        BY <3>2, <4>1 DEF IsTest
    <3>7. ReadPart(t) = read
      BY <2>2, <3>2, <3>6, ReadPartIs
    <3>8. ReadPartOK(t)
      BY <3>2, <3>4, ReadPartOKIs
    <3> QED
      BY <2>3, <2>4, <3>2, <3>7, <3>8 DEF ReadsSame, Field
  <2> QED
    BY <2>5, <2>6
<1> QED
  BY <1>1, <1>2

\* A write field, given what was read.
WritesSame(T, field, read, write, t) ==
  /\ t \in Seq(T) /\ Trimmed(t) /\ WritePartOK(t)
  /\ WritePart(t, read) = write
  /\ write.var \in Seq(T) /\ write.units \in Seq(T)
  /\ \A y : Has(t, y) => \/ y = Comma \/ Has(field, y)
                         \/ Has(read.var, y) \/ Has(read.units, y)

LEMMA WriteAgain ==
  ASSUME NEW T, Vocabulary(T), NEW field \in Seq(T), Trimmed(field),
         WritePartOK(field), NEW read, Field(T, read.var, read.units),
         ~Has(read.var, Semicolon), ~Has(read.units, Semicolon),
         NEW write, write = WritePart(field, read),
         NEW t, t = WriteText(write)
  PROVE  WritesSame(T, field, read, write, t)
<1>1. /\ read.var \in Seq(T) /\ read.units \in Seq(T)
      /\ ~Has(read.var, Comma) /\ Trimmed(read.units)
      /\ read.var # <<>> => read.var[1] # Blank
  BY DEF Field
<1>2. PICK v \in Seq(T), u \in Seq(T) :
        v = Before(field, Comma) /\ u = StrTrunc(After(field, Comma))
  BY FieldParts
<1>3. /\ Trimmed(u) /\ ~Has(v, Comma)
      /\ \A y : Has(v, y) \/ Has(u, y) => Has(field, y)
      /\ v # <<>> => v[1] # Blank
  BY <1>2, FieldParts
<1>4. PICK a \in Seq(T), b \in Seq(T) :
        /\ a = IF v = <<>> THEN read.var ELSE v
        /\ b = IF u = <<>> THEN read.units ELSE u
  BY <1>1
<1>5. write = [var |-> a, units |-> b]
  BY <1>2, <1>4, WritePartIs
<1>6. write.var = a /\ write.units = b
  BY <1>5
<1>7. /\ ~Has(a, Comma) /\ Trimmed(b)
      /\ a # <<>> => a[1] # Blank
      /\ ~Has(field, Semicolon) => ~Has(a, Semicolon) /\ ~Has(b, Semicolon)
      /\ \A y : Has(a, y) \/ Has(b, y) =>
           Has(field, y) \/ Has(read.var, y) \/ Has(read.units, y)
  BY <1>1, <1>3, <1>4
<1>8. ~Has(field, Semicolon)
  BY WritePartOKIs, NothingElse
<1>9. /\ IF a = <<>> THEN read.var = a ELSE TRUE
      /\ IF b = <<>> THEN read.units = b ELSE TRUE
  BY <1>4
<1>10. CASE a = <<>> /\ b = <<>>
  <2>1. t = <<>>
    BY <1>6, <1>10 DEF WriteText
  <2>2. <<>> \in Seq(T) /\ Trimmed(<<>>)
    BY DEF Trimmed
  <2>3. Before(<<>>, Comma) = <<>> /\ After(<<>>, Comma) = <<>>
    BY NothingElse DEF Before, After
  <2>4. StrTrunc(<<>>) = <<>>
    BY <2>2, NothingToTruncate
  <2>5. WritePart(t, read) = [var |-> read.var, units |-> read.units]
    BY <2>1, <2>3, <2>4, WritePartIs
  <2>6. WritePartOK(t)
    BY <2>1, WritePartOKIs
  <2> QED
    BY <1>5, <1>6, <1>9, <1>10, <2>1, <2>2, <2>5, <2>6, NothingElse
       DEF WritesSame
<1>11. CASE a # <<>> \/ b # <<>>
  <2>1. t = a \o <<Comma>> \o b
    BY <1>6, <1>11 DEF WriteText
  <2>9. SplitsTo(T, t, a, b)
    <3>1. Field(T, a, b)
      BY <1>7 DEF Field
    <3> QED
      BY <2>1, <3>1, JoinedField
  <2>2. /\ t \in Seq(T) /\ Trimmed(t) /\ Has(t, Comma) /\ Before(t, Comma) = a
        /\ StrTrunc(After(t, Comma)) = b
        /\ \A y : Has(t, y) => Has(a, y) \/ y = Comma \/ Has(b, y)
    BY <2>9 DEF SplitsTo
  <2>3. WritePart(t, read) = write
    BY <1>5, <1>9, <2>2, WritePartIs
  <2>4. ~Has(t, Semicolon)
    BY <1>7, <1>8, <2>2, Separators
  <2>5. WritePartOK(t)
    BY <2>2, <2>4, WritePartOKIs
  <2> QED
    BY <1>6, <1>7, <2>2, <2>3, <2>5 DEF WritesSame
<1> QED
  BY <1>10, <1>11

\* The operators on a whole line with the separators named.
LEMMA LineIs ==
  ASSUME NEW s
  PROVE  /\ ReadField(s) = StrTrunc(Before(After(s, Semicolon), Semicolon))
         /\ WriteField(s) = StrTrunc(After(After(s, Semicolon), Semicolon))
         /\ LineOK(s) <=> /\ Has(s, Semicolon)
                          /\ StrTrunc(Before(s, Semicolon)) # <<>>
                          /\ WritePartOK(WriteField(s))
                          /\ ReadPartOK(ReadField(s))
         /\ Parse(s) =
              Mapping(StrTrunc(Before(s, Semicolon)), ReadPart(ReadField(s)),
                      WritePart(WriteField(s), ReadPart(ReadField(s))))
<1>1. ReadField(s) = StrTrunc(Before(After(s, Semicolon), Semicolon))
  BY Zenon DEF ReadField, Semicolon
<1>2. WriteField(s) = StrTrunc(After(After(s, Semicolon), Semicolon))
  BY Zenon DEF WriteField, Semicolon
<1>3. LineOK(s) <=> /\ Has(s, Semicolon)
                    /\ StrTrunc(Before(s, Semicolon)) # <<>>
                    /\ WritePartOK(WriteField(s))
                    /\ ReadPartOK(ReadField(s))
  BY Zenon DEF LineOK, Semicolon
<1>4. Parse(s) =
        Mapping(StrTrunc(Before(s, Semicolon)), ReadPart(ReadField(s)),
                WritePart(WriteField(s), ReadPart(ReadField(s))))
  BY Zenon DEF Parse, Semicolon
<1> QED
  BY <1>1, <1>2, <1>3, <1>4

LEMMA AsLineIs ==
  ASSUME NEW ref, NEW read, NEW write
  PROVE  AsLine(Mapping(ref, read, write)) =
           ref \o <<Semicolon>> \o ReadText(read)
           \o (IF write.var = <<>> /\ write.units = <<>> THEN <<>>
               ELSE <<Semicolon>> \o write.var \o <<Comma>> \o write.units)
<1> DEFINE m == Mapping(ref, read, write)
<1>1. /\ m.dataRef = ref
      /\ m.readVar = read.var /\ m.readVarUnits = read.units
      /\ m.testValue = read.value /\ m.testAdjust = read.adjust
      /\ m.writeVar = write.var /\ m.writeVarUnits = write.units
  BY DEF Mapping
<1> HIDE DEF m
<1>2. AsLine(m) =
        ref \o <<Semicolon>>
        \o (IF read.value # NoValue THEN <<read.value>> \o read.adjust
            ELSE IF read.var = <<>> /\ read.units = <<>> THEN <<>>
            ELSE read.var \o <<Comma>> \o read.units)
        \o (IF write.var = <<>> /\ write.units = <<>> THEN <<>>
            ELSE <<Semicolon>> \o write.var \o <<Comma>> \o write.units)
  BY <1>1, Zenon DEF AsLine, Semicolon, Comma
<1> QED
  BY <1>2, Zenon DEF ReadText, m

\* A sequence whose last token is no blank.
EndsWell(s) == Len(s) # 0 => s[Len(s)] # Blank

LEMMA JoinedEndsWell ==
  ASSUME NEW T, NEW p \in Seq(T), NEW q \in Seq(T), NEW x \in T, x # Blank,
         EndsWell(q)
  PROVE  EndsWell(p \o <<x>> \o q)
<1> DEFINE t == p \o <<x>> \o q
<1>1. PICK n \in Nat, m \in Nat : n = Len(p) /\ m = Len(q)
  BY LenIs
<1>2. /\ Len(t) = n + 1 + m /\ t[n + 1] = x
      /\ \A i \in 1 .. m : t[n + 1 + i] = q[i]
  BY <1>1, Joined
<1> HIDE DEF t
<1>3. CASE m = 0
  <2>1. Len(t) = n + 1
    BY <1>2, <1>3
  <2> QED
    BY <1>2, <2>1 DEF EndsWell, t
<1>4. CASE m # 0
  <2>1. m \in 1 .. m
    BY <1>4
  <2>2. t[Len(t)] = q[m] /\ q[m] # Blank
    BY <1>1, <1>2, <1>4, <2>1 DEF EndsWell
  <2> QED
    BY <2>2 DEF EndsWell, t
<1> QED
  BY <1>3, <1>4

\* What is left of a line without comment.
Clean(T, s) == s \in Seq(T) /\ Trimmed(s) /\ ~Has(s, "#")
Fields(t, n, a, c) ==
  /\ Has(t, Semicolon) /\ StrTrunc(Before(t, Semicolon)) = n
  /\ ReadField(t) = a /\ WriteField(t) = c /\ Significant(t) = t

\* A line that is put together from a name and two fields.
LEMMA ThreeFields ==
  ASSUME NEW T, Vocabulary(T), NEW n, NEW a, NEW c,
         Clean(T, n), Clean(T, a), Clean(T, c),
         ~Has(n, Semicolon), ~Has(a, Semicolon),
         NEW rest, (rest = a /\ c = <<>>) \/ rest = a \o <<Semicolon>> \o c
  PROVE  Fields(n \o <<Semicolon>> \o rest, n, a, c)
<1> USE DEF Clean
<1> DEFINE t == n \o <<Semicolon>> \o rest
<1>1. Semicolon \in T /\ Semicolon # Blank /\ Semicolon # "#"
  BY Separators DEF Vocabulary
<1>2. EndsWell(a) /\ EndsWell(c)
  BY DEF Trimmed, EndsWell
<1>3. StrTrunc(n) = n /\ StrTrunc(a) = a /\ StrTrunc(c) = c
  BY NothingToTruncate
<1>4. /\ rest \in Seq(T) /\ EndsWell(rest) /\ ~Has(rest, "#")
      /\ Before(rest, Semicolon) = a /\ After(rest, Semicolon) = c
  <2>1. CASE rest = a /\ c = <<>>
    BY <1>2, <2>1 DEF Before, After
  <2>2. CASE rest = a \o <<Semicolon>> \o c
    <3> DEFINE r == a \o <<Semicolon>> \o c
    <3>1. r \in Seq(T)
      BY <1>1, Joined
    <3>2. EndsWell(r)
      BY <1>1, <1>2, JoinedEndsWell
    <3>3. ~Has(r, "#")
      BY <1>1, HasJoined
    <3>4. Before(r, Semicolon) = a /\ After(r, Semicolon) = c
      BY <1>1, Split
    <3> HIDE DEF r
    <3>5. rest = r
      BY <2>2 DEF r
    <3> QED
      BY <3>1, <3>2, <3>3, <3>4, <3>5
  <2> QED
    BY <2>1, <2>2
<1>5. t \in Seq(T)
  BY <1>1, <1>4, Joined
<1>6. EndsWell(t)
  BY <1>1, <1>4, JoinedEndsWell
<1>7. ~Has(t, "#")
  BY <1>1, <1>4, HasJoined
<1>8. Has(t, Semicolon) /\ Before(t, Semicolon) = n /\ After(t, Semicolon) = rest
  BY <1>1, <1>4, Split
<1> HIDE DEF t
<1>9. ReadField(t) = a /\ WriteField(t) = c
  BY <1>3, <1>4, <1>8, LineIs
<1>10. Significant(t) = t
  <2>1. Before(t, "#") = t
    BY <1>7 DEF Before
  <2>2. TrimRight(t) = t
    <3>1. PICK l \in Nat : l = Len(t)
      BY <1>5, LenIs
    <3> QED
      BY <1>5, <1>6, <3>1, NothingToTrim DEF EndsWell
  <2> QED
    BY <2>1, <2>2 DEF Significant
<1> QED
  BY <1>3, <1>8, <1>9, <1>10 DEF t, Fields

\* A field and a semi-colon, whichever is put in front of the rest first.
LineGroups(n, x, a, v, z, u) ==
  n \o x \o a \o (x \o v \o z \o u) = n \o x \o (a \o x \o (v \o z \o u))

LEMMA RegroupLine ==
  ASSUME NEW T, NEW n \in Seq(T), NEW x \in Seq(T), NEW a \in Seq(T),
         NEW v \in Seq(T), NEW z \in Seq(T), NEW u \in Seq(T)
  PROVE  LineGroups(n, x, a, v, z, u)
<1>1. PICK vz \in Seq(T) : vz = v \o z
  BY ConcatFacts
<1>2. PICK c \in Seq(T) : c = vz \o u
  BY ConcatFacts
<1>3. PICK xc \in Seq(T) : xc = x \o c
  BY ConcatFacts
<1>4. PICK nx \in Seq(T) : nx = n \o x
  BY ConcatFacts
<1>5. /\ Regrouped(x, v, z) /\ Regrouped(x, vz, u)
      /\ Regrouped(nx, a, xc) /\ Regrouped(a, x, c)
  BY Regroup
<1>6. x \o v \o z \o u = xc
  BY <1>1, <1>2, <1>3, <1>5, Zenon DEF Regrouped
<1>7. (n \o x) \o a \o xc = (n \o x) \o ((a \o x) \o c)
  BY <1>3, <1>4, <1>5, Zenon DEF Regrouped
<1> QED
  BY <1>1, <1>2, <1>6, <1>7, Zenon DEF LineGroups

\* What FieldsCut says, with the separators named.
Spaceless(T, text) ==
  /\ text \in Seq(T) /\ Trimmed(text) /\ ~Has(text, Semicolon) /\ ~Has(text, "#")
Variable(var) ==
  /\ ~Has(var, Comma) /\ ~Has(var, Semicolon) /\ ~Has(var, "#")
  /\ var # <<>> => var[1] # Blank

LEMMA CutIs ==
  ASSUME NEW T, NEW m,
         Spaceless(T, m.dataRef), Spaceless(T, m.readVarUnits),
         Spaceless(T, m.writeVarUnits), Variable(m.readVar), Variable(m.writeVar)
  PROVE  FieldsCut(m)
<1>1. ASSUME NEW text, Spaceless(T, text)
      PROVE  StrTrunc(text) = text /\ ~Has(text, ";") /\ ~Has(text, "#")
  BY <1>1, NothingToTruncate, Zenon DEF Spaceless, Semicolon
<1>2. ASSUME NEW var, Variable(var)
      PROVE  /\ ~Has(var, ",") /\ ~Has(var, ";") /\ ~Has(var, "#")
             /\ var # <<>> => Head(var) # " "
  <2>1. Head(var) = var[1]
    OBVIOUS
  <2> QED
    BY <1>2, <2>1, Zenon DEF Variable, Comma, Semicolon, Blank
<1> QED
  BY <1>1, <1>2, Zenon DEF FieldsCut

\* A mapping, written out, loads as the same mapping.
LEMMA LineAgain ==
  ASSUME NEW T, Vocabulary(T), NEW s \in Seq(T), LineOK(s), ~Has(s, "#"),
         NEW m, m = Parse(s), NEW t, t = AsLine(m)
  PROVE  Significant(t) = t /\ LineOK(t) /\ Parse(t) = m /\ FieldsCut(m)
<1>1. PICK b \in Seq(T), r \in Seq(T) :
        /\ b = Before(s, Semicolon) /\ r = After(s, Semicolon)
        /\ ~Has(b, Semicolon) /\ ~Has(b, "#") /\ ~Has(r, "#")
  BY Parts
<1>2. PICK n \in Seq(T) :
        /\ n = StrTrunc(b) /\ Trimmed(n) /\ ~Has(n, Semicolon) /\ ~Has(n, "#")
  BY <1>1, Truncated
<1>3. PICK rb \in Seq(T), ra \in Seq(T) :
        /\ rb = Before(r, Semicolon) /\ ra = After(r, Semicolon)
        /\ ~Has(rb, Semicolon) /\ ~Has(rb, "#") /\ ~Has(ra, "#")
  BY <1>1, Parts
<1>4. PICK R \in Seq(T) :
        /\ R = StrTrunc(rb) /\ Trimmed(R) /\ ~Has(R, Semicolon) /\ ~Has(R, "#")
  BY <1>3, Truncated
<1>5. PICK W \in Seq(T) : W = StrTrunc(ra) /\ Trimmed(W) /\ ~Has(W, "#")
  BY <1>3, Truncated
<1>6. /\ R = ReadField(s) /\ W = WriteField(s) /\ n # <<>>
      /\ WritePartOK(W) /\ ReadPartOK(R)
  BY <1>1, <1>2, <1>3, <1>4, <1>5, LineIs
<1>7. PICK read, write : read = ReadPart(R) /\ write = WritePart(W, read)
  OBVIOUS
<1>8. m = Mapping(n, read, write)
  BY <1>1, <1>2, <1>6, <1>7, LineIs
<1>9. PICK a, c : a = ReadText(read) /\ c = WriteText(write)
  OBVIOUS
<1>10. ReadsSame(T, R, read, a)
  BY <1>4, <1>6, <1>7, <1>9, ReadAgain
<1>11. ~Has(a, Semicolon) /\ ~Has(a, "#")
  <2>1. Semicolon \notin {"+", "-"} /\ "#" \notin {"+", "-"}
    BY Zenon DEF Semicolon
  <2> QED
    BY <1>4, <1>10, <2>1, Separators DEF ReadsSame
<1>12. WritesSame(T, W, read, write, c)
  <2>1. /\ Field(T, read.var, read.units)
        /\ ~Has(read.var, Semicolon) /\ ~Has(read.units, Semicolon)
    BY <1>4, <1>10 DEF ReadsSame
  <2> QED
    BY <1>5, <1>6, <1>7, <1>9, <2>1, WriteAgain
<1>13. ~Has(c, "#")
  BY <1>4, <1>5, <1>10, <1>12, Separators DEF ReadsSame, WritesSame
<1>14. PICK rest : /\ t = n \o <<Semicolon>> \o rest
                   /\ (rest = a /\ c = <<>>) \/ rest = a \o <<Semicolon>> \o c
  <2>1. Semicolon \in T /\ Comma \in T /\ a \in Seq(T)
    BY <1>10 DEF Vocabulary, ReadsSame
  <2>2. t = n \o <<Semicolon>> \o a
            \o (IF write.var = <<>> /\ write.units = <<>> THEN <<>>
                ELSE <<Semicolon>> \o write.var \o <<Comma>> \o write.units)
    BY <1>8, <1>9, AsLineIs
  <2>3. CASE write.var = <<>> /\ write.units = <<>>
    <3>1. c = <<>>
      BY <1>9, <2>3 DEF WriteText
    <3>2. PICK p \in Seq(T) : p = n \o <<Semicolon>> \o a
      BY <2>1, Joined
    <3>3. t = p \o <<>> /\ p \o <<>> = p
      BY <2>2, <2>3, <3>2
    <3> QED
      BY <3>1, <3>2, <3>3
  <2>4. CASE ~(write.var = <<>> /\ write.units = <<>>)
    <3>1. PICK v \in Seq(T), u \in Seq(T) : v = write.var /\ u = write.units
      BY <1>12 DEF WritesSame
    <3>2. c = v \o <<Comma>> \o u
      BY <1>9, <2>4, <3>1 DEF WriteText
    <3>3. t = n \o <<Semicolon>> \o a
              \o (<<Semicolon>> \o v \o <<Comma>> \o u)
      BY <2>2, <2>4, <3>1
    <3>4. LineGroups(n, <<Semicolon>>, a, v, <<Comma>>, u)
      <4>1. <<Semicolon>> \in Seq(T) /\ <<Comma>> \in Seq(T)
        BY <2>1
      <4> QED
        BY <2>1, <4>1, RegroupLine
    <3>5. t = n \o <<Semicolon>>
                \o (a \o <<Semicolon>> \o (v \o <<Comma>> \o u))
      BY <3>3, <3>4, Zenon DEF LineGroups
    <3> QED
      BY <3>2, <3>5
  <2> QED
    BY <2>3, <2>4
<1>15. PICK w : w = n \o <<Semicolon>> \o rest
  OBVIOUS
<1>16. Fields(w, n, a, c)
  <2>1. Clean(T, n) /\ Clean(T, a) /\ Clean(T, c)
    BY <1>2, <1>10, <1>11, <1>12, <1>13 DEF Clean, ReadsSame, WritesSame
  <2> QED
    BY <1>2, <1>11, <1>14, <1>15, <2>1, ThreeFields
<1>17. LineOK(w)
  BY <1>6, <1>10, <1>12, <1>16, LineIs DEF Fields, ReadsSame, WritesSame
<1>18. Parse(w) = m
  BY <1>8, <1>10, <1>12, <1>16, LineIs DEF Fields, ReadsSame, WritesSame
<1>19. FieldsCut(m)
  <2>1. /\ Field(T, read.var, read.units)
        /\ ~Has(read.var, Semicolon) /\ ~Has(read.units, Semicolon)
        /\ ~Has(read.var, "#") /\ ~Has(read.units, "#")
    BY <1>4, <1>10 DEF ReadsSame
  <2>2. Spaceless(T, read.units) /\ Variable(read.var)
    BY <2>1 DEF Field, Spaceless, Variable
  <2>3. ~Has(W, Semicolon)
    BY <1>6, WritePartOKIs, NothingElse
  <2>4. PICK v \in Seq(T), u \in Seq(T) :
          v = Before(W, Comma) /\ u = StrTrunc(After(W, Comma))
    BY <1>5, FieldParts
  <2>5. /\ Trimmed(u) /\ ~Has(v, Comma)
        /\ \A y : Has(v, y) \/ Has(u, y) => Has(W, y)
        /\ v # <<>> => v[1] # Blank
    BY <1>5, <2>4, FieldParts
  <2>6. Spaceless(T, u) /\ Variable(v)
    BY <1>5, <2>3, <2>5 DEF Spaceless, Variable
  <2>7. /\ write.var = IF v = <<>> THEN read.var ELSE v
        /\ write.units = IF u = <<>> THEN read.units ELSE u
    BY <1>7, <2>4, WritePartIs
  <2>8. Spaceless(T, write.units) /\ Variable(write.var)
    BY <2>2, <2>6, <2>7
  <2>9. Spaceless(T, n)
    BY <1>2 DEF Spaceless
  <2>10. /\ m.dataRef = n
         /\ m.readVar = read.var /\ m.readVarUnits = read.units
         /\ m.writeVar = write.var /\ m.writeVarUnits = write.units
    BY <1>8 DEF Mapping
  <2> QED
    BY <2>2, <2>8, <2>9, <2>10, CutIs
<1> QED
  BY <1>14, <1>15, <1>16, <1>17, <1>18, <1>19 DEF Fields

\* The fields of an entry are cut, and written out it loads as the same.
LEMMA EntryLoadsAgain ==
  ASSUME NEW l \in MappingLine, LineOK(Significant(l)),
         NEW m, m = Parse(Significant(l))
  PROVE  FieldsCut(m) /\ LoadsSame(m)
<1> DEFINE T == ToSet(l) \cup Digit \cup {Semicolon, Comma, "+", "-"}
<1>1. l \in Seq(T) /\ Vocabulary(T)
  <2>1. l \in Seq(ToSet(l))
    BY LoaderAssumption, Zenon DEF LoaderAssumption
  <2>2. \A A, B : A \subseteq B => Seq(A) \subseteq Seq(B)
    OBVIOUS
  <2>3. ToSet(l) \subseteq T /\ Vocabulary(T)
    BY Zenon DEF Vocabulary
  <2> QED
    BY <2>1, <2>2, <2>3, Zenon
<1> HIDE DEF T
<1>2. PICK b \in Seq(T) : b = Before(l, "#") /\ ~Has(b, "#")
  BY <1>1, Parts
<1>3. PICK s \in Seq(T) : s = Significant(l) /\ ~Has(s, "#")
  BY <1>2, TrimmedRight DEF Significant
<1>4. PICK t : t = AsLine(m)
  OBVIOUS
<1>5. Significant(t) = t /\ LineOK(t) /\ Parse(t) = m /\ FieldsCut(m)
  BY <1>1, <1>3, <1>4, LineAgain
<1> QED
  BY <1>4, <1>5 DEF LoadsSame

-----------------------------------------------------------------------------
(***************************************************************************)
(* Theorems.                                                               *)
(***************************************************************************)

\* The name of every mapping finds this mapping, and the map holds nothing
\* else, for every mapping file (dataMap and dataMapping of
\* loadDataMappings, dataRefNum).
THEOREM NamesAndMappingsAgree == Spec => []NamesFindMappings
<1>1. LoaderInv => NamesFindMappings
  <2> SUFFICES ASSUME LoaderInv
               PROVE  NamesFindMappings
    OBVIOUS
  <2>1. ASSUME NEW i \in Loaded
        PROVE  DataRefNum(dataMapping[i].dataRef) = i
    <3>1. IsMapped(dataMapping[i].dataRef)
      <4>1. <<dataMapping[i].dataRef, i>> \in dataMap
        BY DEF LoaderInv, MapIsTable
      <4> QED
        BY <4>1 DEF IsMapped
    <3> QED
      BY <3>1, LookUp DEF LoaderInv, NamesDiffer
  <2>2. \A e \in dataMap : e[2] \in Loaded
    BY DEF LoaderInv, MapIsTable
  <2> QED
    BY <2>1, <2>2 DEF NamesFindMappings
<1> QED
  BY <1>1, LoaderInvariant, PTL

\* A mapping that is read from the simulator has no test value, and its
\* variables have units, for every mapping file (loadDataMappings).
THEOREM VariableOrTestValue == Spec => []ReadOrTest
<1>1. LoaderInv => ReadOrTest
  <2> SUFFICES ASSUME LoaderInv, NEW i \in Loaded, dataMapping[i].readVar # <<>>
               PROVE  /\ dataMapping[i].testValue = NoValue
                      /\ dataMapping[i].readVarUnits # <<>>
                      /\ dataMapping[i].writeVarUnits # <<>>
    BY DEF ReadOrTest
  <2>1. dataMapping[i] \in Entry
    BY DEF LoaderInv, Tables, Loaded
  <2>2. PICK s : LineOK(s) /\ dataMapping[i] = Parse(s)
    BY <2>1 DEF Entry
  <2> DEFINE field == ReadField(s)
  <2> DEFINE read == ReadPart(field)
  <2> DEFINE write == WritePart(WriteField(s), read)
  <2>3. /\ dataMapping[i].readVar = read.var
        /\ dataMapping[i].testValue = read.value
        /\ dataMapping[i].readVarUnits = read.units
        /\ dataMapping[i].writeVarUnits = write.units
    <3>1. Parse(s) = Mapping(StrTrunc(Before(s, ";")), read, write)
      BY DEF Parse
    <3> DEFINE name == StrTrunc(Before(s, ";"))
    <3> DEFINE m == dataMapping[i]
    <3>2. m = Mapping(name, read, write)
      BY <2>2, <3>1
    <3> HIDE DEF read, write, name, m
    <3>3. /\ m.readVar = read.var /\ m.testValue = read.value
          /\ m.readVarUnits = read.units /\ m.writeVarUnits = write.units
      BY <3>2 DEF Mapping
    <3> QED
      BY <3>3 DEF m
  <2>4. ReadPartOK(field)
    BY <2>2 DEF LineOK
  <2> HIDE DEF field
  <2>5. ~IsTest(field) /\ read.var = Before(field, ",")
        /\ read.value = NoValue /\ read.units = StrTrunc(After(field, ","))
    BY <2>3 DEF ReadPart
  <2>6. field # <<>>
    <3> SUFFICES ASSUME field = <<>>
                 PROVE  FALSE
      OBVIOUS
    <3>1. ToSet(<<>>) = {}
      BY DEF ToSet
    <3>2. Before(field, ",") = <<>>
      BY <3>1, Zenon DEF Before, Has
    <3> QED
      BY <2>3, <2>5, <3>2
  <2>7. read.units # <<>>
    BY <2>4, <2>5, <2>6 DEF ReadPartOK
  <2> HIDE DEF read
  <2>8. write.units # <<>>
    BY <2>7 DEF WritePart
  <2> QED
    BY <2>3, <2>5, <2>7, <2>8
<1> QED
  BY <1>1, LoaderInvariant, PTL

\* Every button that was not ignored has the pin of its number and a mapping
\* of the table, for every mapping file and button file (loadButtons).
THEOREM ButtonsHaveMappings == Spec => []ButtonsUsable
<1>1. LoaderInv => ButtonsUsable
  <2> SUFFICES ASSUME LoaderInv, NEW k \in 1 .. Len(buttonData)
               PROVE  /\ buttonData[k].gpioPin = Pins[buttonData[k].button]
                      /\ buttonData[k].refNum \in Loaded
    BY DEF ButtonsUsable, ToSet, LoaderInv, Tables
  <2>1. buttonData[k] \in ButtonEntry
    BY DEF LoaderInv, Tables
  <2> QED
    BY <2>1 DEF ButtonEntry, LoaderInv, ButtonsInTable
<1> QED
  BY <1>1, LoaderInvariant, PTL

\* For every mapping file: names and units are loaded without blanks around
\* them, variables up to the first comma, and a mapping that is written out
\* in full loads as the same mapping (loadDataMappings).
THEOREM MappingsAreAsWritten == Spec => []LoadsAsWritten
<1>1. LoaderInv => LoadsAsWritten
  <2> SUFFICES ASSUME LoaderInv, NEW i \in Loaded
               PROVE  FieldsCut(dataMapping[i]) /\ LoadsSame(dataMapping[i])
    BY Zenon DEF LoadsAsWritten
  <2>1. dataMapping[i] \in Entry
    BY DEF LoaderInv, Tables, Loaded
  <2>2. PICK l \in MappingLine : /\ LineOK(Significant(l))
                                 /\ dataMapping[i] = Parse(Significant(l))
    BY <2>1 DEF Entry
  <2> QED
    BY <2>2, EntryLoadsAgain, Zenon
<1> QED
  BY <1>1, LoaderInvariant, PTL
=============================================================================
