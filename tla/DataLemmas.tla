----------------------------- MODULE DataLemmas -----------------------------
(***************************************************************************)
(* Facts about numbers and sequences that the proofs share.  The library   *)
(* states induction with an operator as parameter, which no prover here    *)
(* can instantiate; here it is stated with a set.                          *)
(***************************************************************************)
EXTENDS Integers, Sequences, FiniteSetsExt, WellFoundedInduction, TLAPS

-----------------------------------------------------------------------------
(***************************************************************************)
(* Induction and recursion over the natural numbers.                       *)
(***************************************************************************)

\* A set of natural numbers has a least element.
LEMMA LeastOf ==
  ASSUME NEW T, T \subseteq Nat, T # {}
  PROVE  \E x \in T : \A y \in T : x <= y
<1> DEFINE R == OpToRel(<, Nat)
<1>1. IsWellFoundedOn(R, Nat)
  BY NatLessThanWellFounded
<1>2. \A y, x \in Nat : y < x => <<y, x>> \in R
  BY DEF OpToRel
<1> HIDE DEF R
<1>3. PICK x \in T : \A y \in T : ~ (<<y, x>> \in R)
  BY <1>1, WFMin
<1>4. ASSUME NEW y \in T
      PROVE  x <= y
  <2>1. x \in Nat /\ y \in Nat /\ ~ (y < x)
    BY <1>2, <1>3
  <2> QED
    BY <2>1
<1> QED
  BY <1>4

\* Induction up to N: S holds the numbers with the property.
LEMMA UpTo ==
  ASSUME NEW N \in Nat, NEW S, 0 \in S,
         \A n \in 1 .. N : n - 1 \in S => n \in S
  PROVE  \A n \in 0 .. N : n \in S
<1> DEFINE T == {n \in 0 .. N : n \notin S}
<1>1. SUFFICES ASSUME T # {} PROVE FALSE
  OBVIOUS
<1>2. T \subseteq Nat
  OBVIOUS
<1> HIDE DEF T
<1>3. PICK x \in T : \A y \in T : x <= y
  BY <1>1, <1>2, LeastOf
<1>4. x \in 1 .. N /\ x - 1 \in 0 .. N /\ x \notin S
  BY <1>3 DEF T
<1>5. x - 1 \notin T
  BY <1>3, <1>4
<1> QED
  BY <1>4, <1>5 DEF T

\* A set of natural numbers with an upper bound has a greatest element.
LEMMA GreatestOf ==
  ASSUME NEW N \in Nat, NEW T, T \subseteq 0 .. N, T # {}
  PROVE  Max(T) \in T /\ \A y \in T : y <= Max(T)
<1> DEFINE U == {N - y : y \in T}
<1>1. U \subseteq Nat /\ U # {}
  <2>1. \A y \in T : N - y \in Nat
    OBVIOUS
  <2> QED
    BY <2>1
<1> HIDE DEF U
<1>2. PICK u \in U : \A z \in U : u <= z
  BY <1>1, LeastOf
<1>3. PICK x \in T : u = N - x
  BY <1>2 DEF U
<1>4. ASSUME NEW y \in T
      PROVE  y <= x
  <2>1. N - y \in U
    BY DEF U
  <2> QED
    BY <2>1, <1>2, <1>3
<1>5. \A y \in T : x >= y
  BY <1>4
<1>6. Max(T) \in T /\ \A y \in T : Max(T) >= y
  BY <1>5 DEF Max
<1> QED
  BY <1>6

\* What f is at n comes from what it is at n - 1.
Follows(f, N, base, step) ==
  \A n \in 0 .. N : f[n] = IF n = 0 THEN base ELSE step[n][f[n - 1]]

\* A function can be defined by what it is at 0 and by a step.
LEMMA Recursion ==
  ASSUME NEW A, NEW N \in Nat, NEW base \in A,
         NEW step \in [1 .. N -> [A -> A]]
  PROVE  \E f \in [0 .. N -> A] : Follows(f, N, base, step)
<1> DEFINE Good(n) == {f \in [0 .. n -> A] : Follows(f, n, base, step)}
           S == {n \in 0 .. N : Good(n) # {}}
<1>1. 0 \in S
  <2>1. [i \in 0 .. 0 |-> base] \in Good(0)
    BY DEF Follows
  <2> QED
    BY <2>1
<1>2. ASSUME NEW n \in 1 .. N, n - 1 \in S
      PROVE  n \in S
  <2>1. PICK f \in Good(n - 1) : TRUE
    BY <1>2
  <2> DEFINE g == [i \in 0 .. n |->
                     IF i = n THEN step[n][f[n - 1]] ELSE f[i]]
  <2>2. f[n - 1] \in A
    BY <2>1
  <2>3. g \in [0 .. n -> A]
    BY <2>1, <2>2
  <2>4. ASSUME NEW m \in 0 .. n
        PROVE  g[m] = IF m = 0 THEN base ELSE step[m][g[m - 1]]
    BY <2>1 DEF Follows
  <2>5. g \in Good(n)
    BY <2>3, <2>4 DEF Follows
  <2> HIDE DEF Good
  <2> QED
    BY <2>5
<1>3. N \in 0 .. N
  OBVIOUS
<1> HIDE DEF S
<1>4. \A n \in 0 .. N : n \in S
  BY <1>1, <1>2, UpTo
<1> HIDE DEF Good
<1> QED
  BY <1>3, <1>4 DEF S, Good

-----------------------------------------------------------------------------
(***************************************************************************)
(* Division.                                                               *)
(***************************************************************************)
LEMMA Division ==
  ASSUME NEW a \in Nat, NEW b \in Nat \ {0}
  PROVE  /\ a \div b \in Nat /\ a % b \in 0 .. b - 1
         /\ a = b * (a \div b) + (a % b)
  OBVIOUS

LEMMA Remainder ==
  ASSUME NEW b \in Nat \ {0}, NEW q \in Nat, NEW m \in 0 .. b - 1
  PROVE  (b * q + m) % b = m
  OBVIOUS

LEMMA Multiple ==
  ASSUME NEW b \in Nat \ {0}, NEW q \in Nat
  PROVE  b * q \in Nat /\ (b * q) % b = 0
  OBVIOUS

\* A larger multiple is larger by b at least.
LEMMA Multiples ==
  ASSUME NEW b \in Nat \ {0}, NEW q \in Nat, NEW p \in Nat, q < p
  PROVE  b * q + b <= b * p
  OBVIOUS

\* v without what is above a multiple of b is a multiple of b ...
LEMMA CutOff ==
  ASSUME NEW b \in Nat \ {0}, NEW v \in Nat
  PROVE  /\ v - (v % b) \in Nat /\ (v - (v % b)) % b = 0
         /\ v - (v % b) <= v /\ v < v - (v % b) + b
<1>1. PICK q \in Nat, m \in 0 .. b - 1 : v = b * q + m /\ v % b = m
  BY Division
<1> DEFINE w == b * q
<1>2. w \in Nat /\ w % b = 0
  BY Multiple
<1>3. v = w + m
  BY <1>1
<1> HIDE DEF w
<1>4. v - m = w
  BY <1>2, <1>3
<1> QED
  BY <1>1, <1>2, <1>3, <1>4

\* ... and the only one just below v.
LEMMA CutOffIs ==
  ASSUME NEW b \in Nat \ {0}, NEW v \in Nat, NEW w \in Nat, w % b = 0,
         w <= v, v < w + b
  PROVE  v - (v % b) = w
<1> DEFINE q == w \div b
           m == v - w
<1>1. q \in Nat /\ w = b * q
  BY Division
<1>2. m \in 0 .. b - 1 /\ v = b * q + m
  BY <1>1
<1> HIDE DEF q, m
<1>3. v % b = m
  BY <1>1, <1>2, Remainder
<1> QED
  BY <1>1, <1>2, <1>3

-----------------------------------------------------------------------------
(***************************************************************************)
(* Sequences.                                                              *)
(***************************************************************************)

\* A sequence whose elements have no type.
IsSequence(s) == s = [i \in 1 .. Len(s) |-> s[i]] /\ Len(s) \in Nat
Elements(s) == {s[i] : i \in 1 .. Len(s)}

LEMMA SeqOfFunction ==
  ASSUME NEW S, NEW n \in Nat, NEW f \in [1 .. n -> S]
  PROVE  f \in Seq(S) /\ Len(f) = n
  OBVIOUS

LEMMA SeqOfElements ==
  ASSUME NEW s, IsSequence(s)
  PROVE  s \in Seq(Elements(s))
<1>1. s \in [1 .. Len(s) -> Elements(s)]
  BY DEF IsSequence, Elements
<1>2. Len(s) \in Nat
  BY DEF IsSequence
<1> QED
  BY <1>1, <1>2, SeqOfFunction

LEMMA IsSequenceOf ==
  ASSUME NEW S, NEW s \in Seq(S)
  PROVE  IsSequence(s)
  BY DEF IsSequence

\* A sequence with an element in front.
LEMMA FrontOf ==
  ASSUME NEW S, NEW s \in Seq(S), NEW e \in S
  PROVE  /\ <<e>> \o s \in Seq(S)
         /\ Len(<<e>> \o s) = Len(s) + 1
         /\ (<<e>> \o s)[1] = e
         /\ \A i \in 1 .. Len(s) : (<<e>> \o s)[i + 1] = s[i]
<1>1. <<e>> \o s \in Seq(S)
  OBVIOUS
<1>2. Len(<<e>> \o s) = Len(s) + 1
  OBVIOUS
<1>3. (<<e>> \o s)[1] = e
  OBVIOUS
<1>4. \A i \in 1 .. Len(s) : (<<e>> \o s)[i + 1] = s[i]
  OBVIOUS
<1> QED
  BY <1>1, <1>2, <1>3, <1>4

LEMMA Widen ==
  ASSUME NEW S, NEW s \in Seq(S), NEW e
  PROVE  s \in Seq(S \cup {e})
  OBVIOUS

LEMMA InFront ==
  ASSUME NEW s, IsSequence(s), NEW e
  PROVE  /\ IsSequence(<<e>> \o s)
         /\ \A i \in 1 .. Len(<<e>> \o s) :
              \/ i = 1 /\ (<<e>> \o s)[i] = e
              \/ i - 1 \in 1 .. Len(s) /\ (<<e>> \o s)[i] = s[i - 1]
         /\ \A i \in 1 .. Len(s) :
              /\ i + 1 \in 1 .. Len(<<e>> \o s)
              /\ (<<e>> \o s)[i + 1] = s[i]
<1> DEFINE S == Elements(s) \cup {e}
           long == <<e>> \o s
<1>1. s \in Seq(S) /\ e \in S
  BY SeqOfElements, Widen
<1> HIDE DEF S
<1>2. /\ long \in Seq(S) /\ Len(long) = Len(s) + 1 /\ long[1] = e
      /\ \A i \in 1 .. Len(s) : long[i + 1] = s[i]
  BY <1>1, FrontOf
<1>3. IsSequence(long)
  BY <1>2, IsSequenceOf
<1> HIDE DEF long
<1>4. Len(s) \in Nat
  BY DEF IsSequence
<1>5. ASSUME NEW i \in 1 .. Len(long)
      PROVE  i = 1 \/ (i - 1 \in 1 .. Len(s) /\ long[i] = s[i - 1])
  <2>1. i # 1 => i - 1 \in 1 .. Len(s) /\ (i - 1) + 1 = i
    BY <1>2, <1>4
  <2> QED
    BY <1>2, <2>1
<1>6. ASSUME NEW i \in 1 .. Len(s)
      PROVE  i + 1 \in 1 .. Len(long)
  BY <1>2, <1>4
<1> QED
  BY <1>2, <1>3, <1>5, <1>6 DEF long

LEMMA AppendFacts ==
  ASSUME NEW S, NEW s \in Seq(S), NEW e \in S
  PROVE  /\ Append(s, e) \in Seq(S)
         /\ Len(Append(s, e)) = Len(s) + 1
         /\ \A i \in 1 .. Len(s) : Append(s, e)[i] = s[i]
         /\ Append(s, e)[Len(s) + 1] = e
  OBVIOUS

\* An element of a longer sequence is one of the sequence or the one added.
LEMMA AppendElement ==
  ASSUME NEW S, NEW s \in Seq(S), NEW e \in S
  PROVE  /\ Len(Append(s, e)) = Len(s) + 1
         /\ \A k \in 1 .. Len(Append(s, e)) :
              \/ k \in 1 .. Len(s) /\ Append(s, e)[k] = s[k]
              \/ k = Len(s) + 1 /\ Append(s, e)[k] = e
<1>1. Len(Append(s, e)) = Len(s) + 1 /\ Len(s) \in Nat
  OBVIOUS
<1>2. \A k \in 1 .. Len(s) : Append(s, e)[k] = s[k]
  OBVIOUS
<1>3. Append(s, e)[Len(s) + 1] = e
  OBVIOUS
<1>4. \A k \in 1 .. Len(s) + 1 : k \in 1 .. Len(s) \/ k = Len(s) + 1
  BY <1>1
<1> QED
  BY <1>1, <1>2, <1>3, <1>4

LEMMA TailFacts ==
  ASSUME NEW S, NEW s \in Seq(S), s # <<>>
  PROVE  /\ Tail(s) \in Seq(S) /\ Head(s) = s[1] /\ s[1] \in S
         /\ Len(s) >= 1 /\ Len(Tail(s)) = Len(s) - 1
         /\ \A i \in 1 .. Len(Tail(s)) : Tail(s)[i] = s[i + 1]
  OBVIOUS

LEMMA ConcatFacts ==
  ASSUME NEW S, NEW s \in Seq(S), NEW q \in Seq(S)
  PROVE  /\ s \o q \in Seq(S) /\ Len(s \o q) = Len(s) + Len(q)
         /\ Len(s) \in Nat /\ Len(q) \in Nat
         /\ \A k \in 1 .. Len(s) : (s \o q)[k] = s[k]
         /\ \A k \in 1 .. Len(q) : (s \o q)[Len(s) + k] = q[k]
  OBVIOUS

LEMMA MinOfTwo ==
  ASSUME NEW a \in Int, NEW b \in Int
  PROVE  Min({a, b}) \in {a, b} /\ Min({a, b}) <= a /\ Min({a, b}) <= b
<1>1. \E x \in {a, b} : \A y \in {a, b} : x <= y
  <2>1. CASE a <= b
    BY <2>1
  <2>2. CASE b <= a
    BY <2>2
  <2> QED
    BY <2>1, <2>2
<1> QED
  BY <1>1 DEF Min

LEMMA SubSeqType ==
  ASSUME NEW S, NEW s \in Seq(S), NEW n \in Nat, n <= Len(s)
  PROVE  SubSeq(s, 1, n) \in Seq(S)
  OBVIOUS
=============================================================================
