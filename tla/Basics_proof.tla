---------------------------- MODULE Basics_proof ----------------------------
(***************************************************************************)
(* Lemmas the other proofs stand on: the counting of handlers in an        *)
(* io_context's queue, induction over the natural numbers, the folds of    *)
(* the community modules, remainders, and bytes: their bits, checksums and *)
(* the words they make.                                                    *)
(***************************************************************************)
EXTENDS HandlerQueue, Bytes, FiniteSetsExt, SequenceTheorems, WellFoundedInduction, TLAPS

(* A queue that grows at its end and shrinks at its head keeps its type.     *)
LEMMA QueueOps ==
  ASSUME NEW S, NEW q \in Seq(S), NEW x \in S
  PROVE  /\ Append(q, x) \in Seq(S)
         /\ q # <<>> => /\ Tail(q) \in Seq(S)
                        /\ Append(Tail(q), x) \in Seq(S)
                        /\ Head(q) \in S
BY AppendProperties, HeadTailProperties

(* A handler appended is counted once.                                       *)
LEMMA NoneAppend ==
  ASSUME NEW S, NEW q \in Seq(S), NEW x \in S, NEW K
  PROVE  NoneOf(Append(q, x), K) <=> NoneOf(q, K) /\ x \notin K
<1>1. /\ Len(Append(q, x)) = Len(q) + 1
      /\ Len(q) \in Nat
      /\ Append(q, x)[Len(q) + 1] = x
      /\ \A i \in 1..Len(q) : Append(q, x)[i] = q[i]
  BY AppendProperties, LenProperties
<1>2. 1..(Len(q) + 1) = (1..Len(q)) \cup {Len(q) + 1}
  BY <1>1
<1> QED BY <1>1, <1>2 DEF NoneOf

LEMMA OneAppend ==
  ASSUME NEW S, NEW q \in Seq(S), NEW x \in S, NEW K
  PROVE  /\ NoneOf(q, K) /\ x \in K => OneOf(Append(q, x), K)
         /\ OneOf(q, K) /\ x \notin K => OneOf(Append(q, x), K)
<1>1. /\ Len(Append(q, x)) = Len(q) + 1
      /\ Len(q) \in Nat
      /\ Append(q, x)[Len(q) + 1] = x
      /\ \A i \in 1..Len(q) : Append(q, x)[i] = q[i]
  BY AppendProperties, LenProperties
<1>2. 1..(Len(q) + 1) = (1..Len(q)) \cup {Len(q) + 1}
  BY <1>1
<1> QED BY <1>1, <1>2 DEF NoneOf, OneOf

(* What running the head of the queue leaves.                                *)
LEMMA TailElements ==
  ASSUME NEW S, NEW q \in Seq(S), q # <<>>
  PROVE  /\ Len(Tail(q)) = Len(q) - 1
         /\ Len(q) \in Nat \ {0}
         /\ q[1] = Head(q)
         /\ \A i \in 1..Len(Tail(q)) : Tail(q)[i] = q[i + 1]
         /\ Tail(q) \in Seq(S)
BY HeadTailProperties, LenProperties, EmptySeq

(* Running the head uncounts it.                                             *)
LEMMA NoneTail ==
  ASSUME NEW S, NEW q \in Seq(S), q # <<>>, NEW K
  PROVE  NoneOf(q, K) <=> Head(q) \notin K /\ NoneOf(Tail(q), K)
<1>1. ASSUME NoneOf(q, K) PROVE Head(q) \notin K /\ NoneOf(Tail(q), K)
  BY <1>1, TailElements DEF NoneOf
<1>2. ASSUME Head(q) \notin K, NoneOf(Tail(q), K), NEW i \in 1..Len(q) PROVE q[i] \notin K
  <2>1. CASE i = 1 BY <1>2, <2>1, TailElements
  <2>2. CASE i # 1
    <3>1. i - 1 \in 1..Len(Tail(q)) BY <2>2, TailElements
    <3>2. Tail(q)[i - 1] = q[(i - 1) + 1] BY <3>1, TailElements
    <3>3. (i - 1) + 1 = i OBVIOUS
    <3> QED BY <1>2, <3>1, <3>2, <3>3 DEF NoneOf
  <2> QED BY <2>1, <2>2
<1> QED BY <1>1, <1>2 DEF NoneOf

LEMMA OneTail ==
  ASSUME NEW S, NEW q \in Seq(S), q # <<>>, NEW K, OneOf(q, K)
  PROVE  /\ Head(q) \in K => NoneOf(Tail(q), K)
         /\ Head(q) \notin K => OneOf(Tail(q), K)
<1> PICK i \in 1..Len(q) : q[i] \in K /\ \A j \in 1..Len(q) : q[j] \in K => j = i
  BY DEF OneOf
<1>1. ASSUME Head(q) \in K, NEW j \in 1..Len(Tail(q)) PROVE Tail(q)[j] \notin K
  <2>1. j + 1 \in 1..Len(q) /\ 1 \in 1..Len(q) /\ j + 1 # 1 BY TailElements
  <2> QED BY <1>1, <2>1, TailElements
<1>2. ASSUME Head(q) \notin K PROVE OneOf(Tail(q), K)
  <2>1. i # 1 BY <1>2, TailElements
  <2>2. i - 1 \in 1..Len(Tail(q)) /\ (i - 1) + 1 = i BY <2>1, TailElements
  <2>3. Tail(q)[i - 1] = q[i] BY <2>2, TailElements
  <2>4. ASSUME NEW j \in 1..Len(Tail(q)), Tail(q)[j] \in K PROVE j = i - 1
    <3>1. j + 1 \in 1..Len(q) /\ q[j + 1] \in K BY <2>4, TailElements
    <3> QED BY <3>1
  <2> QED BY <2>2, <2>3, <2>4 DEF OneOf
<1> QED BY <1>1, <1>2 DEF NoneOf

-----------------------------------------------------------------------------
(* Induction.  The library's theorems take a predicate; these take the set of
   the numbers it holds for.                                                 *)

LEMMA Least ==
  ASSUME NEW T, T \subseteq Nat, T # {}
  PROVE  \E x \in T : \A y \in T : x <= y
<1> DEFINE R == {ss \in Nat \X Nat : ss[1] < ss[2]}
<1>1. IsWellFoundedOn(R, Nat)
  BY NatLessThanWellFounded DEF OpToRel
<1>2. PICK x \in T : \A y \in T : ~ (<<y, x>> \in R)
  <2> HIDE DEF R
  <2> QED BY <1>1, WFMin
<1>3. \A y \in T : y < x => <<y, x>> \in R
  OBVIOUS
<1>4. \A y \in T : ~(y < x)
  BY <1>2, <1>3
<1> QED BY <1>4

LEMMA Induct ==
  ASSUME NEW T, T \subseteq Nat, 0 \in T, \A n \in Nat : n \in T => n + 1 \in T
  PROVE  T = Nat
<1> SUFFICES ASSUME Nat \ T # {} PROVE FALSE
  OBVIOUS
<1>1. PICK x \in Nat \ T : \A y \in Nat \ T : x <= y
  BY Least
<1>2. x # 0 /\ x - 1 \in Nat
  BY <1>1
<1>3. x - 1 \in T
  BY <1>1, <1>2
<1> QED BY <1>1, <1>2, <1>3

-----------------------------------------------------------------------------
(* Folds over the positions of a sequence.                                   *)

LEMMA MaxIs ==
  ASSUME NEW k \in Nat, NEW s \in SUBSET (1..k), s # {}
  PROVE  Max(s) \in s /\ \A y \in s : Max(s) >= y
<1> DEFINE T == {j \in 0..k : k - j \in s}
<1>1. T \subseteq Nat
  OBVIOUS
<1>2. T # {}
  <2>1. PICK x \in s : x \in 1..k
    OBVIOUS
  <2>2. k - x \in 0..k /\ k - (k - x) = x
    BY <2>1
  <2> QED BY <2>1, <2>2
<1>3. PICK j \in T : \A y \in T : j <= y
  BY <1>1, <1>2, Least
<1>4. ASSUME NEW y \in s PROVE k - j >= y
  <2>1. y \in 1..k /\ k - y \in 0..k /\ k - (k - y) = y
    OBVIOUS
  <2>2. k - y \in T
    BY <2>1
  <2>3. j <= k - y /\ j \in 0..k
    BY <2>2, <1>3
  <2> QED BY <2>1, <2>3
<1>5. k - j \in s
  BY <1>3
<1> QED BY <1>4, <1>5 DEF Max

LEMMA MaxOf ==
  ASSUME NEW k \in Nat, NEW s \in SUBSET (1..(k + 1)), k + 1 \in s
  PROVE  Max(s) = k + 1
<1>1. Max(s) \in s /\ Max(s) >= k + 1
  BY MaxIs, k + 1 \in Nat
<1>2. Max(s) \in 1..(k + 1)
  BY <1>1
<1> QED BY <1>1, <1>2

(* A fold over the positions 1..n of a sequence is a function of the sets of
   positions, as the community module Folds defines it.                      *)
FoldsTo(g, S, base, step, n) ==
  /\ g \in [SUBSET (1..n) -> S]
  /\ \A s \in SUBSET (1..n) :
       g[s] = IF s = {} THEN base ELSE step[<<g[s \ {Max(s)}], Max(s)>>]

LEMMA FoldMore ==
  ASSUME NEW S, NEW base \in S, NEW n \in Nat, NEW step \in [S \X (1..n) -> S],
         NEW k \in Nat, k < n, NEW g, FoldsTo(g, S, base, step, k)
  PROVE  \E f : FoldsTo(f, S, base, step, k + 1)
<1> DEFINE f == [s \in SUBSET (1..(k + 1)) |->
                   IF k + 1 \in s THEN step[<<g[s \ {k + 1}], k + 1>>] ELSE g[s]]
<1>1. ASSUME NEW s \in SUBSET (1..(k + 1))
      PROVE  k + 1 \notin s => s \in SUBSET (1..k)
  OBVIOUS
<1>2. ASSUME NEW s \in SUBSET (1..(k + 1))
      PROVE  s \ {k + 1} \in SUBSET (1..k) /\ k + 1 \notin (s \ {k + 1})
  OBVIOUS
<1>3. g \in [SUBSET (1..k) -> S]
  BY DEF FoldsTo
<1>4. k + 1 \in 1..n
  OBVIOUS
<1>5. f \in [SUBSET (1..(k + 1)) -> S]
  <2>1. ASSUME NEW s \in SUBSET (1..(k + 1)), k + 1 \in s
        PROVE  step[<<g[s \ {k + 1}], k + 1>>] \in S
    <3>1. g[s \ {k + 1}] \in S
      BY <1>2, <1>3
    <3> QED BY <3>1, <1>4
  <2>2. ASSUME NEW s \in SUBSET (1..(k + 1)), k + 1 \notin s
        PROVE  g[s] \in S
    BY <1>1, <1>3, <2>2
  <2> QED BY <2>1, <2>2
<1>6. ASSUME NEW s \in SUBSET (1..(k + 1))
      PROVE  f[s] = IF s = {} THEN base ELSE step[<<f[s \ {Max(s)}], Max(s)>>]
  <2>1. CASE k + 1 \in s
    <3>1. Max(s) = k + 1
      BY <2>1, MaxOf
    <3>2. s \ {k + 1} \in SUBSET (1..(k + 1))
      OBVIOUS
    <3>3. f[s \ {k + 1}] = g[s \ {k + 1}]
      BY <1>2, <3>2
    <3>4. f[s] = step[<<g[s \ {k + 1}], k + 1>>]
      BY <2>1
    <3> QED BY <2>1, <3>1, <3>3, <3>4
  <2>2. CASE k + 1 \notin s
    <3>1. s \in SUBSET (1..k) /\ f[s] = g[s]
      BY <1>1, <2>2
    <3>2. g[s] = IF s = {} THEN base ELSE step[<<g[s \ {Max(s)}], Max(s)>>]
      BY <3>1 DEF FoldsTo
    <3>3. ASSUME s # {} PROVE f[s \ {Max(s)}] = g[s \ {Max(s)}]
      <4>1. s \ {Max(s)} \in SUBSET (1..(k + 1)) /\ k + 1 \notin s \ {Max(s)}
        BY <2>2
      <4> QED BY <4>1
    <3> QED BY <3>1, <3>2, <3>3
  <2> QED BY <2>1, <2>2
<1> HIDE DEF f
<1> QED BY <1>5, <1>6 DEF FoldsTo

LEMMA FoldExists ==
  ASSUME NEW S, NEW base \in S, NEW n \in Nat, NEW step \in [S \X (1..n) -> S]
  PROVE  \E g : FoldsTo(g, S, base, step, n)
<1> DEFINE T == {k \in Nat : k <= n => \E g : FoldsTo(g, S, base, step, k)}
<1>1. 0 \in T
  <2> DEFINE g == [s \in SUBSET (1..0) |-> base]
  <2>1. \A s \in SUBSET (1..0) : s = {}
    OBVIOUS
  <2>2. FoldsTo(g, S, base, step, 0)
    BY <2>1 DEF FoldsTo
  <2> QED BY <2>2
<1>2. \A k \in Nat : k \in T => k + 1 \in T
  <2> TAKE k \in Nat
  <2> HAVE k \in T
  <2>1. CASE k < n
    <3>1. PICK g : FoldsTo(g, S, base, step, k)
      BY <2>1
    <3>2. \E f : FoldsTo(f, S, base, step, k + 1)
      BY <2>1, <3>1, FoldMore
    <3> QED BY <3>2
  <2>2. CASE ~(k < n)
    BY <2>2
  <2> QED BY <2>1, <2>2
<1>3. T = Nat
  <2> HIDE DEF T
  <2>1. T \subseteq Nat
    BY DEF T
  <2> QED BY <1>1, <1>2, <2>1, Induct
<1> QED BY <1>3

LEMMA MaxUpTo ==
  ASSUME NEW k \in Nat \ {0}
  PROVE  Max(1..k) = k /\ (1..k) \ {k} = 1..(k - 1) /\ 1..k # {}
<1>1. k - 1 \in Nat /\ k = (k - 1) + 1 /\ k \in 1..k
  OBVIOUS
<1>2. 1..k \in SUBSET (1..((k - 1) + 1)) /\ (k - 1) + 1 \in 1..k
  BY <1>1
<1>3. Max(1..k) = k
  BY <1>1, <1>2, MaxOf
<1>4. (1..k) \ {k} = 1..(k - 1) /\ 1..k # {}
  OBVIOUS
<1> QED BY <1>3, <1>4

(* Such a fold, taken one position after the other.                          *)
Folding(f, S, base, step, n) ==
  /\ f[{}] = base
  /\ \A s \in SUBSET (1..n) : s # {} /\ f[s \ {Max(s)}] \in S =>
                                f[s] = step[<<f[s \ {Max(s)}], Max(s)>>]
FoldTurns(h, f, S, base, step, n) ==
  /\ h \in [0..n -> S]
  /\ h[0] = base
  /\ f[1..n] = h[n]
  /\ \A k \in 1..n : h[k] = step[<<h[k - 1], k>>]

LEMMA FoldSteps ==
  ASSUME NEW S, NEW base \in S, NEW n \in Nat, NEW step \in [S \X (1..n) -> S],
         NEW f, Folding(f, S, base, step, n)
  PROVE  \E h : FoldTurns(h, f, S, base, step, n)
<1> DEFINE h == [k \in 0..n |-> f[1..k]]
<1>1. 1..0 = {} /\ f[{}] = base
  BY DEF Folding
<1>2. ASSUME NEW k \in 1..n, f[1..(k - 1)] \in S
      PROVE  f[1..k] = step[<<f[1..(k - 1)], k>>]
  <2>1. 1..k \in SUBSET (1..n) /\ k \in Nat \ {0}
    OBVIOUS
  <2>2. Max(1..k) = k /\ (1..k) \ {k} = 1..(k - 1) /\ 1..k # {}
    BY <2>1, MaxUpTo
  <2> QED BY <1>2, <2>1, <2>2 DEF Folding
<1>3. \A k \in 0..n : f[1..k] \in S
  <2> DEFINE T == {k \in Nat : k <= n => f[1..k] \in S}
  <2>1. 0 \in T
    BY <1>1
  <2>2. ASSUME NEW k \in Nat, k \in T PROVE k + 1 \in T
    <3>1. CASE k + 1 <= n
      <4>1. k + 1 \in 1..n /\ (k + 1) - 1 = k /\ f[1..k] \in S
        BY <2>2, <3>1
      <4>2. f[1..(k + 1)] = step[<<f[1..k], k + 1>>]
        BY <4>1, <1>2
      <4> QED BY <4>1, <4>2
    <3>2. CASE ~(k + 1 <= n)
      BY <3>2
    <3> QED BY <3>1, <3>2
  <2>3. T = Nat
    <3>1. T \subseteq Nat
      OBVIOUS
    <3> HIDE DEF T
    <3> QED BY <2>1, <2>2, <3>1, Induct
  <2> QED BY <2>3
<1>4. h \in [0..n -> S] /\ h[0] = base /\ h[n] = f[1..n]
  BY <1>1, <1>3
<1>5. \A k \in 1..n : h[k] = step[<<h[k - 1], k>>]
  <2> TAKE k \in 1..n
  <2>1. k - 1 \in 0..n /\ k \in 0..n
    OBVIOUS
  <2> QED BY <1>2, <1>3, <2>1
<1> HIDE DEF h
<1> QED BY <1>4, <1>5 DEF FoldTurns

-----------------------------------------------------------------------------
(* Remainders.  The backend knows them for numerals only, so what the ring's
   indices need is proved from quotient and remainder.                       *)

LEMMA ModDiv ==
  ASSUME NEW x \in Int, NEW n \in Nat \ {0}
  PROVE  /\ x % n \in 0..(n - 1)
         /\ x \div n \in Int
         /\ x = n * (x \div n) + (x % n)
OBVIOUS

LEMMA Multiple ==
  ASSUME NEW n \in Nat \ {0}, NEW a \in Int, NEW b \in Int, a > b
  PROVE  n * a >= n * b + n
<1>1. PICK k \in Nat : a = b + 1 + k
  <2>1. a - b - 1 \in Nat /\ a = b + 1 + (a - b - 1)
    OBVIOUS
  <2> QED BY <2>1
<1>2. n * k \in Nat
  OBVIOUS
<1>3. n * a = n * b + n + n * k
  BY <1>1
<1> QED BY <1>2, <1>3

LEMMA ModUnique ==
  ASSUME NEW n \in Nat \ {0}, NEW q \in Int, NEW m \in 0..(n - 1)
  PROVE  (n * q + m) % n = m
<1> DEFINE x == n * q + m
<1>1. x \in Int /\ n * q \in Int
  OBVIOUS
<1>2. /\ x % n \in 0..(n - 1) /\ x \div n \in Int
      /\ x = n * (x \div n) + (x % n)
  BY <1>1, ModDiv
<1>3. n * (x \div n) \in Int
  BY <1>2
<1> HIDE DEF x
<1>4. ~(x \div n > q)
  <2> SUFFICES ASSUME x \div n > q PROVE FALSE
    OBVIOUS
  <2>1. n * (x \div n) >= n * q + n
    BY <1>2, Multiple
  <2> QED BY <2>1, <1>1, <1>2, <1>3 DEF x
<1>5. ~(q > x \div n)
  <2> SUFFICES ASSUME q > x \div n PROVE FALSE
    OBVIOUS
  <2>1. n * q >= n * (x \div n) + n
    BY <1>2, Multiple
  <2> QED BY <2>1, <1>1, <1>2, <1>3 DEF x
<1>6. x \div n = q
  <2>1. PICK d \in Int : d = x \div n
    BY <1>2
  <2> QED BY <2>1, <1>4, <1>5
<1> QED BY <1>1, <1>2, <1>6 DEF x

(* Whole turns do not change a remainder; less than one turn changes it by as
   much, or by as much less n.                                               *)
LEMMA ModShift ==
  ASSUME NEW x \in Int, NEW n \in Nat \ {0}, NEW k \in Int
  PROVE  (x + n * k) % n = x % n
<1> DEFINE q == x \div n
           m == x % n
<1>1. m \in 0..(n - 1) /\ q \in Int /\ x = n * q + m
  BY ModDiv
<1> HIDE DEF q, m
<1>2. x + n * k = n * (q + k) + m
  BY <1>1
<1>3. (n * (q + k) + m) % n = m
  BY <1>1, ModUnique
<1> QED BY <1>2, <1>3 DEF m

LEMMA ModStep ==
  ASSUME NEW x \in Int, NEW n \in Nat \ {0}, NEW j \in 0..n
  PROVE  (x + j) % n = IF (x % n) + j < n THEN (x % n) + j ELSE (x % n) + j - n
<1> DEFINE q == x \div n
           m == x % n
<1>1. m \in 0..(n - 1) /\ q \in Int /\ x = n * q + m
  BY ModDiv
<1> HIDE DEF q, m
<1>2. CASE m + j < n
  <2>1. x + j = n * q + (m + j) /\ m + j \in 0..(n - 1)
    BY <1>1, <1>2
  <2> QED BY <1>1, <1>2, <2>1, ModUnique DEF m
<1>3. CASE ~(m + j < n)
  <2>1. x + j = n * (q + 1) + (m + j - n) /\ m + j - n \in 0..(n - 1) /\ q + 1 \in Int
    BY <1>1, <1>3
  <2>2. (n * (q + 1) + (m + j - n)) % n = m + j - n
    BY <2>1, ModUnique
  <2> QED BY <1>3, <2>1, <2>2 DEF m
<1> QED BY <1>2, <1>3

LEMMA ModSum ==
  ASSUME NEW x \in Int, NEW y \in Int, NEW n \in Nat \ {0}
  PROVE  ((x % n) + y) % n = (x + y) % n
<1>1. /\ x % n \in 0..(n - 1) /\ x \div n \in Int
      /\ x = n * (x \div n) + (x % n)
  BY ModDiv
<1>2. PICK m \in Int, q \in Int : m = x % n /\ q = x \div n
  BY <1>1
<1>3. x + y = (m + y) + n * q /\ m + y \in Int
  BY <1>1, <1>2
<1>4. ((m + y) + n * q) % n = (m + y) % n
  BY <1>3, ModShift
<1> QED BY <1>2, <1>3, <1>4
-----------------------------------------------------------------------------
(* Bytes and the sets of their bits.                                         *)

Weight(s, i, w) == IF i \in s THEN w ELSE 0
Weights(s) ==
  Weight(s, 0, 1) + Weight(s, 1, 2) + Weight(s, 2, 4) + Weight(s, 3, 8)
  + Weight(s, 4, 16) + Weight(s, 5, 32) + Weight(s, 6, 64) + Weight(s, 7, 128)

LEMMA WeightsTyped ==
  ASSUME NEW s \in SUBSET Byte
  PROVE  Weights(s) \in 0..255 /\ (Weights(s) = 0 <=> s = {})
BY DEF Weights, Weight, Byte

LEMMA WeightsLess ==
  ASSUME NEW s \in SUBSET Byte, NEW x \in s
  PROVE  Weights(s) = 2^x + Weights(s \ {x}) /\ Weights(s \ {x}) < Weights(s)
<1>1. x \in 0..7
  BY DEF Byte
<1>2. CASE x = 0
  BY <1>2 DEF Weights, Weight
<1>3. CASE x = 1
  BY <1>3 DEF Weights, Weight
<1>4. CASE x = 2
  BY <1>4 DEF Weights, Weight
<1>5. CASE x = 3
  BY <1>5 DEF Weights, Weight
<1>6. CASE x = 4
  BY <1>6 DEF Weights, Weight
<1>7. CASE x = 5
  BY <1>7 DEF Weights, Weight
<1>8. CASE x = 6
  BY <1>8 DEF Weights, Weight
<1>9. CASE x = 7
  BY <1>9 DEF Weights, Weight
<1> QED BY <1>1, <1>2, <1>3, <1>4, <1>5, <1>6, <1>7, <1>8, <1>9

(* SumFunction adds up the bits in an order that only CHOOSE knows.          *)
LEMMA NumberIs ==
  ASSUME NEW bits \in SUBSET Byte
  PROVE  Number(bits) = Weights(bits)
<1> DEFINE f == [i \in bits |-> 2^i]
           It(g) == g = [s \in SUBSET bits |->
                          IF s = {} THEN 0
                          ELSE f[CHOOSE x \in s : TRUE] + g[s \ {CHOOSE x \in s : TRUE}]]
           iter == CHOOSE g : It(g)
           w == [s \in SUBSET bits |-> Weights(s)]
<1>1. DOMAIN f = bits
  OBVIOUS
<1>2. Number(bits) = iter[bits]
  BY <1>1 DEF Number, SumFunction, SumFunctionOnSet, FoldFunctionOnSet, MapThenFoldSet
<1>3. It(w)
  <2>1. ASSUME NEW s \in SUBSET bits
        PROVE  w[s] = IF s = {} THEN 0
                      ELSE f[CHOOSE x \in s : TRUE] + w[s \ {CHOOSE x \in s : TRUE}]
    <3>1. CASE s = {}
      BY <3>1, WeightsTyped
    <3>2. CASE s # {}
      <4>1. PICK x \in s : x = CHOOSE y \in s : TRUE
        BY <3>2
      <4>2. f[x] = 2^x /\ w[s \ {x}] = Weights(s \ {x}) /\ w[s] = Weights(s)
        BY <4>1
      <4>3. Weights(s) = 2^x + Weights(s \ {x})
        BY <4>1, WeightsLess
      <4> QED BY <3>2, <4>1, <4>2, <4>3
    <3> QED BY <3>1, <3>2
  <2> QED BY <2>1
<1>4. It(iter)
  <2> HIDE DEF It
  <2> QED BY <1>3
<1> HIDE DEF iter
<1>5. ASSUME NEW s \in SUBSET bits, s # {}
      PROVE  \E x \in s : iter[s] = 2^x + iter[s \ {x}]
  <2>1. PICK x \in s : x = CHOOSE y \in s : TRUE
    BY <1>5
  <2>2. iter[s] = f[x] + iter[s \ {x}] /\ f[x] = 2^x
    BY <1>4, <1>5, <2>1
  <2> QED BY <2>2
<1>6. iter[{}] = 0
  BY <1>4
<1> HIDE DEF It
<1> DEFINE T == {k \in Nat : \A s \in SUBSET bits : Weights(s) <= k => iter[s] = Weights(s)}
<1>7. 0 \in T
  <2>1. \A s \in SUBSET bits : Weights(s) <= 0 => s = {} /\ Weights(s) = 0
    BY WeightsTyped
  <2> QED BY <1>6, <2>1
<1>8. ASSUME NEW k \in Nat, k \in T PROVE k + 1 \in T
  <2> SUFFICES ASSUME NEW s \in SUBSET bits, Weights(s) <= k + 1
               PROVE  iter[s] = Weights(s)
    OBVIOUS
  <2>1. CASE s = {}
    BY <1>6, <2>1, WeightsTyped
  <2>2. CASE s # {}
    <3>1. PICK x \in s : iter[s] = 2^x + iter[s \ {x}]
      BY <1>5, <2>2
    <3>2. Weights(s) = 2^x + Weights(s \ {x}) /\ Weights(s \ {x}) < Weights(s)
      BY WeightsLess
    <3>3. Weights(s \ {x}) \in Int /\ Weights(s) \in Int
      BY WeightsTyped
    <3>4. iter[s \ {x}] = Weights(s \ {x})
      BY <1>8, <3>2, <3>3
    <3> QED BY <3>1, <3>2, <3>4
  <2> QED BY <2>1, <2>2
<1>9. T = Nat
  <2>1. T \subseteq Nat
    OBVIOUS
  <2> HIDE DEF T
  <2> QED BY <1>7, <1>8, <2>1, Induct
<1>10. 255 \in T /\ Weights(bits) <= 255
  BY <1>9, WeightsTyped
<1>11. iter[bits] = Weights(bits)
  BY <1>10
<1> QED BY <1>2, <1>11

(* A byte is its bits.                                                       *)
LEMMA BitsOfNumber ==
  ASSUME NEW s \in SUBSET Byte
  PROVE  Number(s) \in 0..255 /\ Bits(Number(s)) = s
<1>1. Number(s) = Weights(s) /\ Weights(s) \in 0..255
  BY NumberIs, WeightsTyped
<1>2. PICK n \in 0..255 : n = Weights(s)
  BY <1>1
<1>3. ASSUME NEW i \in Byte PROVE (n \div 2^i) % 2 = 1 <=> i \in s
  <2>1. i \in 0..7
    BY DEF Byte
  <2>2. CASE i = 0
    BY <1>2, <2>2 DEF Weights, Weight
  <2>3. CASE i = 1
    BY <1>2, <2>3 DEF Weights, Weight
  <2>4. CASE i = 2
    BY <1>2, <2>4 DEF Weights, Weight
  <2>5. CASE i = 3
    BY <1>2, <2>5 DEF Weights, Weight
  <2>6. CASE i = 4
    BY <1>2, <2>6 DEF Weights, Weight
  <2>7. CASE i = 5
    BY <1>2, <2>7 DEF Weights, Weight
  <2>8. CASE i = 6
    BY <1>2, <2>8 DEF Weights, Weight
  <2>9. CASE i = 7
    BY <1>2, <2>9 DEF Weights, Weight
  <2> QED BY <2>1, <2>2, <2>3, <2>4, <2>5, <2>6, <2>7, <2>8, <2>9
<1> QED BY <1>1, <1>2, <1>3 DEF Bits

LEMMA NumberOfBits ==
  ASSUME NEW b \in 0..255
  PROVE  Bits(b) \in SUBSET Byte /\ Number(Bits(b)) = b
<1>1. Bits(b) \in SUBSET Byte
  BY DEF Bits
<1>2. /\ 0 \in Bits(b) <=> b % 2 = 1
      /\ 1 \in Bits(b) <=> (b \div 2) % 2 = 1
      /\ 2 \in Bits(b) <=> (b \div 4) % 2 = 1
      /\ 3 \in Bits(b) <=> (b \div 8) % 2 = 1
      /\ 4 \in Bits(b) <=> (b \div 16) % 2 = 1
      /\ 5 \in Bits(b) <=> (b \div 32) % 2 = 1
      /\ 6 \in Bits(b) <=> (b \div 64) % 2 = 1
      /\ 7 \in Bits(b) <=> (b \div 128) % 2 = 1
  BY DEF Bits, Byte
<1>3. b = 128 * ((b \div 128) % 2) + 64 * ((b \div 64) % 2) + 32 * ((b \div 32) % 2)
          + 16 * ((b \div 16) % 2) + 8 * ((b \div 8) % 2) + 4 * ((b \div 4) % 2)
          + 2 * ((b \div 2) % 2) + (b % 2)
  BY SMTT(40)
<1>4. Weights(Bits(b)) = b
  BY <1>2, <1>3 DEF Weights, Weight
<1> QED BY <1>1, <1>4, NumberIs

LEMMA XorIs ==
  ASSUME NEW a \in SUBSET Byte, NEW b \in SUBSET Byte
  PROVE  /\ Xor(a, b) \in SUBSET Byte
         /\ \A c \in SUBSET Byte : Xor(a, c) = Xor(b, c) => a = b
         /\ \A c \in SUBSET Byte : Xor(c, a) = Xor(c, b) => a = b
         /\ Xor(a, b) = a => b = {}
BY DEF Xor

-----------------------------------------------------------------------------
(* Checksums: a table of what a byte makes of the checksum so far.           *)

Injective(t) ==
  /\ t \in [SUBSET Byte -> SUBSET Byte]
  /\ \A a, b \in SUBSET Byte : t[a] = t[b] => a = b

LEMMA EightInjective ==
  ASSUME NEW step, Injective(step)
  PROVE  Injective(Eight(step))
<1>1. \A a \in SUBSET Byte : step[a] \in SUBSET Byte
  BY DEF Injective
<1>2. \A a \in SUBSET Byte :
        Eight(step)[a] = step[step[step[step[step[step[step[step[a]]]]]]]]
  BY ZenonT(60) DEF Eight
<1>3. Eight(step) \in [SUBSET Byte -> SUBSET Byte]
  BY <1>1 DEF Eight
<1>4. ASSUME NEW a \in SUBSET Byte, NEW b \in SUBSET Byte, Eight(step)[a] = Eight(step)[b]
      PROVE  a = b
  <2>1. /\ step[a] \in SUBSET Byte /\ step[b] \in SUBSET Byte
        /\ step[a] = step[b] => a = b
    BY DEF Injective
  <2>2. PICK a1 \in SUBSET Byte, b1 \in SUBSET Byte : a1 = step[a] /\ b1 = step[b]
    BY <2>1
  <2>3. PICK a2 \in SUBSET Byte, b2 \in SUBSET Byte : a2 = step[a1] /\ b2 = step[b1]
    BY DEF Injective
  <2>4. PICK a3 \in SUBSET Byte, b3 \in SUBSET Byte : a3 = step[a2] /\ b3 = step[b2]
    BY DEF Injective
  <2>5. PICK a4 \in SUBSET Byte, b4 \in SUBSET Byte : a4 = step[a3] /\ b4 = step[b3]
    BY DEF Injective
  <2>6. PICK a5 \in SUBSET Byte, b5 \in SUBSET Byte : a5 = step[a4] /\ b5 = step[b4]
    BY DEF Injective
  <2>7. PICK a6 \in SUBSET Byte, b6 \in SUBSET Byte : a6 = step[a5] /\ b6 = step[b5]
    BY DEF Injective
  <2>8. PICK a7 \in SUBSET Byte, b7 \in SUBSET Byte : a7 = step[a6] /\ b7 = step[b6]
    BY SMTT(40) DEF Injective
  <2>9. step[a7] = step[b7]
    BY <1>2, <1>4, <2>2, <2>3, <2>4, <2>5, <2>6, <2>7, <2>8
  <2>10. a7 = b7
    BY <2>9 DEF Injective
  <2>11. a6 = b6
    BY <2>10, <2>8 DEF Injective
  <2>12. a5 = b5
    BY <2>11, <2>7 DEF Injective
  <2>13. a4 = b4
    BY <2>12, <2>6 DEF Injective
  <2>14. a3 = b3
    BY <2>13, <2>5 DEF Injective
  <2>15. a2 = b2
    BY <2>14, <2>4 DEF Injective
  <2>16. a1 = b1
    BY <2>15, <2>3 DEF Injective
  <2> QED BY <2>16, <2>2, <2>1
<1> QED BY <1>3, <1>4 DEF Injective

LEMMA AutosarInjective == Injective(Autosar)
<1> DEFINE moved(crc) == {i + 1 : i \in crc \ {7}}
           up == [crc \in SUBSET Byte |-> IF 7 \in crc THEN Xor(moved(crc), {0, 1, 2, 3, 5})
                                          ELSE moved(crc)]
<1>1. Autosar = Eight(up)
  BY DEF Autosar
<1>2. ASSUME NEW a \in SUBSET Byte
      PROVE  /\ moved(a) \in SUBSET Byte
             /\ \A i \in 0..6 : i \in a <=> i + 1 \in moved(a)
             /\ 0 \notin moved(a)
  BY DEF Byte
<1>3. up \in [SUBSET Byte -> SUBSET Byte]
  <2>1. {0, 1, 2, 3, 5} \in SUBSET Byte
    BY DEF Byte
  <2> QED BY <1>2, <2>1, XorIs
<1>4. ASSUME NEW a \in SUBSET Byte, NEW b \in SUBSET Byte, up[a] = up[b]
      PROVE  a = b
  <2>1. \A c \in SUBSET Byte : 7 \in c <=> 0 \in up[c]
    BY <1>2 DEF Xor
  <2>2. 7 \in a <=> 7 \in b
    BY <1>4, <2>1
  <2>3. moved(a) = moved(b)
    <3>1. {0, 1, 2, 3, 5} \in SUBSET Byte /\ moved(a) \in SUBSET Byte /\ moved(b) \in SUBSET Byte
      BY <1>2 DEF Byte
    <3>2. /\ up[a] = IF 7 \in a THEN Xor(moved(a), {0, 1, 2, 3, 5}) ELSE moved(a)
          /\ up[b] = IF 7 \in b THEN Xor(moved(b), {0, 1, 2, 3, 5}) ELSE moved(b)
      OBVIOUS
    <3> HIDE DEF moved, up
    <3>3. PICK c \in SUBSET Byte, d \in SUBSET Byte, poly \in SUBSET Byte :
             c = moved(a) /\ d = moved(b) /\ poly = {0, 1, 2, 3, 5}
      BY <3>1
    <3>4. Xor(c, poly) = Xor(d, poly) => c = d
      BY XorIs
    <3>5. (IF 7 \in a THEN Xor(c, poly) ELSE c) = (IF 7 \in b THEN Xor(d, poly) ELSE d)
      BY <1>4, <3>2, <3>3
    <3> QED BY <2>2, <3>3, <3>4, <3>5
  <2>4. \A i \in 0..6 : i \in a <=> i \in b
    BY <1>2, <2>3
  <2>5. \A i \in 0..7 : i \in a <=> i \in b
    BY <2>2, <2>4
  <2> QED BY <2>5 DEF Byte
<1>5. Injective(up)
  BY <1>3, <1>4 DEF Injective
<1> QED BY <1>1, <1>5, EightInjective

(* The checksum, one byte after the other.                                   *)
CrcTurns(h, table, base, data, n) ==
  /\ h \in [0..n -> SUBSET Byte]
  /\ h[0] = base
  /\ \A k \in 1..n : h[k] = table[Xor(h[k - 1], Bits(data[k]))]
  /\ FoldLeft(LAMBDA crc, b : table[Xor(crc, Bits(b))], base, data) = h[n]

LEMMA CrcFold ==
  ASSUME NEW table \in [SUBSET Byte -> SUBSET Byte], NEW base \in SUBSET Byte,
         NEW data, NEW n \in Nat, DOMAIN data = 1..n
  PROVE  \E h : CrcTurns(h, table, base, data, n)
<1> DEFINE S == SUBSET Byte
           put(c, b) == table[Xor(c, Bits(b))]
           step == [p \in S \X (1..n) |-> put(p[1], data[p[2]])]
           It(f) == f = [s \in SUBSET (1..n) |->
                          IF s = {} THEN base ELSE put(f[s \ {Max(s)}], data[Max(s)])]
           iter == CHOOSE f : It(f)
<1>0. \A c \in S : \A b : put(c, b) \in S
  BY DEF Xor, Bits
<1>1. step \in [S \X (1..n) -> S] /\ base \in S
  <2> HIDE DEF put, S
  <2>1. base \in S
    BY DEF S
  <2> QED BY <1>0, <2>1
<1>2. PICK g : FoldsTo(g, S, base, step, n)
  <2> HIDE DEF step, S
  <2> QED BY <1>1, FoldExists
<1>3. It(g)
  <2> HIDE DEF put
  <2>1. ASSUME NEW s \in SUBSET (1..n)
        PROVE  g[s] = IF s = {} THEN base ELSE put(g[s \ {Max(s)}], data[Max(s)])
    <3>1. CASE s = {}
      BY <1>2, <3>1 DEF FoldsTo
    <3>2. CASE s # {}
      <4>1. Max(s) \in 1..n
        BY <3>2, MaxIs
      <4>2. g[s \ {Max(s)}] \in S
        BY <1>2 DEF FoldsTo
      <4>3. step[<<g[s \ {Max(s)}], Max(s)>>] = put(g[s \ {Max(s)}], data[Max(s)])
        BY <4>1, <4>2
      <4>4. g[s] = step[<<g[s \ {Max(s)}], Max(s)>>]
        BY <1>2, <3>2 DEF FoldsTo
      <4> QED BY <3>2, <4>3, <4>4
    <3> QED BY <3>1, <3>2
  <2>2. g = [s \in SUBSET (1..n) |-> g[s]]
    BY <1>2 DEF FoldsTo
  <2> QED BY <2>1, <2>2
<1>4. It(iter)
  <2> HIDE DEF It
  <2> QED BY <1>3
<1>5. FoldLeft(LAMBDA crc, b : table[Xor(crc, Bits(b))], base, data) = iter[1..n]
  BY DEF FoldLeft, MapThenFoldSet
<1> HIDE DEF iter, put
<1>6. iter[{}] = base
  BY <1>4
<1>7. \A s \in SUBSET (1..n) : s # {} /\ iter[s \ {Max(s)}] \in S =>
                               iter[s] = step[<<iter[s \ {Max(s)}], Max(s)>>]
  <2> SUFFICES ASSUME NEW s \in SUBSET (1..n), s # {}, iter[s \ {Max(s)}] \in S
               PROVE  iter[s] = step[<<iter[s \ {Max(s)}], Max(s)>>]
    OBVIOUS
  <2>1. Max(s) \in 1..n
    BY MaxIs
  <2>2. iter[s] = put(iter[s \ {Max(s)}], data[Max(s)])
    BY <1>4
  <2> QED BY <2>1, <2>2
<1> HIDE DEF It
<1>8. Folding(iter, S, base, step, n)
  BY <1>6, <1>7 DEF Folding
<1>9. PICK h : FoldTurns(h, iter, S, base, step, n)
  <2> HIDE DEF step, S
  <2> QED BY <1>1, <1>8, FoldSteps
<1>10. \A k \in 1..n : h[k] = put(h[k - 1], data[k])
  <2> TAKE k \in 1..n
  <2>1. k - 1 \in 0..n /\ h[k - 1] \in S
    BY <1>9 DEF FoldTurns
  <2>2. step[<<h[k - 1], k>>] = put(h[k - 1], data[k])
    BY <2>1
  <2> QED BY <1>9, <2>2 DEF FoldTurns
<1> QED BY <1>5, <1>9, <1>10 DEF FoldTurns, CrcTurns, put

(* One byte that comes out different changes the checksum, wherever it stands. *)
OneByteOff(data, other, n) ==
  /\ data \in [1..n -> 0..255] /\ other \in [1..n -> 0..255]
  /\ \E p \in 1..n : data[p] # other[p] /\ \A i \in 1..n : i # p => data[i] = other[i]

LEMMA CrcFinds ==
  ASSUME NEW table, Injective(table), NEW base \in SUBSET Byte, NEW n \in Nat,
         NEW data, NEW other, OneByteOff(data, other, n),
         NEW h, CrcTurns(h, table, base, data, n), NEW g, CrcTurns(g, table, base, other, n)
  PROVE  h[n] # g[n]
<1> DEFINE T == {k \in Nat : k <= n => (h[k] # g[k] <=> \E i \in 1..k : data[i] # other[i])}
<1>0. /\ h[0] = g[0] /\ h \in [0..n -> SUBSET Byte] /\ g \in [0..n -> SUBSET Byte]
      /\ \A k \in 1..n : h[k] = table[Xor(h[k - 1], Bits(data[k]))]
      /\ \A k \in 1..n : g[k] = table[Xor(g[k - 1], Bits(other[k]))]
  BY DEF CrcTurns
<1>5. /\ data \in [1..n -> 0..255] /\ other \in [1..n -> 0..255]
      /\ \E p \in 1..n : data[p] # other[p] /\ \A i \in 1..n : i # p => data[i] = other[i]
  BY DEF OneByteOff
<1>1. 0 \in T
  BY <1>0
<1>2. ASSUME NEW k \in Nat, k \in T PROVE k + 1 \in T
  <2> SUFFICES ASSUME k + 1 <= n
               PROVE  h[k + 1] # g[k + 1] <=> \E i \in 1..(k + 1) : data[i] # other[i]
    OBVIOUS
  <2>0. k \in 0..n /\ k + 1 \in 1..n /\ (k + 1) - 1 = k
    OBVIOUS
  <2>1. h[k] # g[k] <=> \E i \in 1..k : data[i] # other[i]
    BY <1>2
  <2>2. PICK c \in SUBSET Byte, d \in SUBSET Byte : c = h[k] /\ d = g[k]
    BY <1>0, <2>0, SMTT(40)
  <2>3. PICK x \in 0..255, y \in 0..255 : x = data[k + 1] /\ y = other[k + 1]
    BY <1>5, <2>0
  <2>4. h[k + 1] = table[Xor(c, Bits(x))] /\ g[k + 1] = table[Xor(d, Bits(y))]
    BY <1>0, <2>0, <2>2, <2>3
  <2>5. /\ Bits(x) \in SUBSET Byte /\ Bits(y) \in SUBSET Byte
        /\ x # y => Bits(x) # Bits(y)
    BY NumberOfBits
  <2>6. PICK a \in SUBSET Byte, b \in SUBSET Byte : a = Bits(x) /\ b = Bits(y)
    BY <2>5
  <2>7. /\ Xor(c, a) \in SUBSET Byte /\ Xor(d, b) \in SUBSET Byte
        /\ c = d /\ a # b => Xor(c, a) # Xor(d, b)
        /\ c # d /\ a = b => Xor(c, a) # Xor(d, b)
    BY XorIs
  <2>8. PICK u \in SUBSET Byte, w \in SUBSET Byte : u = Xor(c, a) /\ w = Xor(d, b)
    BY <2>7
  <2>9. table[u] = table[w] <=> u = w
    BY DEF Injective
  <2>10. /\ c = d /\ x # y => h[k + 1] # g[k + 1]
         /\ c # d /\ x = y => h[k + 1] # g[k + 1]
         /\ c = d /\ x = y => h[k + 1] = g[k + 1]
    BY <2>4, <2>5, <2>6, <2>7, <2>8, <2>9
  <2>11. ~(c # d /\ x # y)
    <3> SUFFICES ASSUME c # d, x # y PROVE FALSE
      OBVIOUS
    <3>1. PICK i \in 1..k : data[i] # other[i]
      BY <2>1, <2>2
    <3>2. i \in 1..n /\ i # k + 1
      BY <2>0
    <3>3. PICK p \in 1..n : \A m \in 1..n : m # p => data[m] = other[m]
      BY <1>5
    <3>4. i = p
      BY <3>1, <3>2, <3>3
    <3>5. k + 1 = p
      BY <2>0, <2>3, <3>3
    <3> QED BY <3>2, <3>4, <3>5
  <2>12. (\E i \in 1..(k + 1) : data[i] # other[i])
         <=> x # y \/ \E i \in 1..k : data[i] # other[i]
    <3>1. \A i : i \in 1..(k + 1) <=> i \in 1..k \/ i = k + 1
      OBVIOUS
    <3> QED BY <2>3, <3>1
  <2> QED BY <2>1, <2>2, <2>10, <2>11, <2>12
<1>3. T = Nat
  <2>1. T \subseteq Nat
    OBVIOUS
  <2> HIDE DEF T
  <2> QED BY <1>1, <1>2, <2>1, Induct
<1>4. n \in T
  BY <1>3
<1> QED BY <1>4, <1>5

LEMMA AutosarFinds ==
  ASSUME NEW n \in Nat, NEW data, NEW other, OneByteOff(data, other, n)
  PROVE  Crc8Autosar(data) # Crc8Autosar(other)
<1>1. Injective(Autosar) /\ Byte \in SUBSET Byte /\ Autosar \in [SUBSET Byte -> SUBSET Byte]
  BY AutosarInjective DEF Injective
<1>2. DOMAIN data = 1..n /\ DOMAIN other = 1..n
  BY DEF OneByteOff
<1>3. PICK h : CrcTurns(h, Autosar, Byte, data, n)
  BY <1>1, <1>2, CrcFold
<1>4. PICK g : CrcTurns(g, Autosar, Byte, other, n)
  BY <1>1, <1>2, CrcFold
<1>5. h[n] # g[n]
  BY <1>1, <1>3, <1>4, CrcFinds
<1>6. h[n] \in SUBSET Byte /\ g[n] \in SUBSET Byte
  <2>1. n \in 0..n
    OBVIOUS
  <2>2. h \in [0..n -> SUBSET Byte] /\ g \in [0..n -> SUBSET Byte]
    BY <1>3, <1>4 DEF CrcTurns
  <2> QED BY <2>1, <2>2
<1>7. PICK a \in SUBSET Byte, b \in SUBSET Byte : a = h[n] /\ b = g[n]
  BY <1>6
<1>8. Crc8Autosar(data) = Number(Byte \ a) /\ Crc8Autosar(other) = Number(Byte \ b)
  BY <1>3, <1>4, <1>7 DEF CrcTurns, Crc8Autosar
<1>9. Byte \ a \in SUBSET Byte /\ Byte \ b \in SUBSET Byte
  OBVIOUS
<1>10. Byte \ (Byte \ a) = a /\ Byte \ (Byte \ b) = b
  OBVIOUS
<1>11. Bits(Number(Byte \ a)) = Byte \ a /\ Bits(Number(Byte \ b)) = Byte \ b
  BY <1>9, BitsOfNumber
<1> QED BY <1>5, <1>7, <1>8, <1>10, <1>11

LEMMA AutosarTyped ==
  ASSUME NEW n \in Nat, NEW data, DOMAIN data = 1..n
  PROVE  Crc8Autosar(data) \in 0..255
<1>1. Byte \in SUBSET Byte /\ Autosar \in [SUBSET Byte -> SUBSET Byte]
  BY AutosarInjective DEF Injective
<1>2. PICK h : CrcTurns(h, Autosar, Byte, data, n)
  BY <1>1, CrcFold
<1>3. h[n] \in SUBSET Byte
  <2>1. n \in 0..n
    OBVIOUS
  <2>2. h \in [0..n -> SUBSET Byte]
    BY <1>2 DEF CrcTurns
  <2> QED BY <2>1, <2>2
<1>4. PICK a \in SUBSET Byte : a = h[n]
  BY <1>3
<1>5. Crc8Autosar(data) = Number(Byte \ a) /\ Byte \ a \in SUBSET Byte
  BY <1>2, <1>4 DEF CrcTurns, Crc8Autosar
<1> QED BY <1>5, BitsOfNumber

\* A damaged byte is another byte.
LEMMA DamagedIs ==
  ASSUME NEW flips, flips \subseteq (SUBSET Byte) \ {{}},
         NEW b \in 0..255, NEW c \in Damaged(b, flips)
  PROVE  c \in 0..255 /\ c # b
<1>1. PICK bits \in flips : c = Number(Xor(Bits(b), bits))
  BY DEF Damaged
<1>2. bits \in SUBSET Byte /\ bits # {}
  OBVIOUS
<1>3. PICK s \in SUBSET Byte : s = Bits(b) /\ Number(s) = b
  BY NumberOfBits
<1>4. PICK x \in SUBSET Byte : x = Xor(s, bits) /\ x # s
  BY <1>2, XorIs
<1>5. c = Number(x)
  BY <1>1, <1>3, <1>4
<1>6. Number(x) \in 0..255 /\ Bits(Number(x)) = x
  BY BitsOfNumber
<1> QED BY <1>3, <1>4, <1>5, <1>6

-----------------------------------------------------------------------------
(* Words: bytes, the high one first.                                         *)

\* The word so far, after each byte.
Joins(h, from, s, n) ==
  /\ h \in [0..n -> Int] /\ h[0] = from /\ h[n] = Joined256(from, s)
  /\ \A k \in 1..n : h[k] = 256 * h[k - 1] + s[k]

LEMMA JoinedFold ==
  ASSUME NEW n \in Nat, NEW s \in [1..n -> 0..255], NEW from \in Int
  PROVE  \E h : Joins(h, from, s, n)
<1> DEFINE put(w, b) == 256 * w + b
           step == [p \in Int \X (1..n) |-> put(p[1], s[p[2]])]
           It(f) == f = [u \in SUBSET (1..n) |->
                          IF u = {} THEN from ELSE put(f[u \ {Max(u)}], s[Max(u)])]
           iter == CHOOSE f : It(f)
<1>1. step \in [Int \X (1..n) -> Int]
  <2>1. ASSUME NEW p \in Int \X (1..n) PROVE put(p[1], s[p[2]]) \in Int
    <3>1. PICK w \in Int, k \in 1..n : p[1] = w /\ p[2] = k
      OBVIOUS
    <3>2. PICK c \in 0..255 : c = s[k]
      OBVIOUS
    <3>3. put(p[1], s[p[2]]) = 256 * w + c
      BY <3>1, <3>2
    <3>4. 256 * w + c \in Int
      OBVIOUS
    <3> QED BY <3>3, <3>4
  <2> HIDE DEF put
  <2> QED BY <2>1
<1>2. PICK g : FoldsTo(g, Int, from, step, n)
  <2> HIDE DEF step
  <2> QED BY <1>1, FoldExists
<1>3. It(g)
  <2> HIDE DEF put
  <2>1. ASSUME NEW u \in SUBSET (1..n)
        PROVE  g[u] = IF u = {} THEN from ELSE put(g[u \ {Max(u)}], s[Max(u)])
    <3>1. CASE u = {}
      BY <1>2, <3>1 DEF FoldsTo
    <3>2. CASE u # {}
      <4>1. Max(u) \in 1..n
        BY <3>2, MaxIs
      <4>2. g[u \ {Max(u)}] \in Int
        BY <1>2 DEF FoldsTo
      <4>3. step[<<g[u \ {Max(u)}], Max(u)>>] = put(g[u \ {Max(u)}], s[Max(u)])
        BY <4>1, <4>2
      <4>4. g[u] = step[<<g[u \ {Max(u)}], Max(u)>>]
        BY <1>2, <3>2 DEF FoldsTo
      <4> QED BY <3>2, <4>3, <4>4
    <3> QED BY <3>1, <3>2
  <2>2. g = [u \in SUBSET (1..n) |-> g[u]]
    BY <1>2 DEF FoldsTo
  <2> QED BY <2>1, <2>2
<1>4. It(iter)
  <2> HIDE DEF It
  <2> QED BY <1>3
<1>5. Joined256(from, s) = iter[1..n]
  <2>1. DOMAIN s = 1..n
    OBVIOUS
  <2> QED BY <2>1 DEF Joined256, FoldLeft, MapThenFoldSet
<1> HIDE DEF iter, put
<1>6. iter[{}] = from
  BY <1>4
<1>7. \A u \in SUBSET (1..n) : u # {} /\ iter[u \ {Max(u)}] \in Int =>
                               iter[u] = step[<<iter[u \ {Max(u)}], Max(u)>>]
  <2> SUFFICES ASSUME NEW u \in SUBSET (1..n), u # {}, iter[u \ {Max(u)}] \in Int
               PROVE  iter[u] = step[<<iter[u \ {Max(u)}], Max(u)>>]
    OBVIOUS
  <2>1. Max(u) \in 1..n
    BY MaxIs
  <2>2. iter[u] = put(iter[u \ {Max(u)}], s[Max(u)])
    BY <1>4
  <2> QED BY <2>1, <2>2
<1> HIDE DEF It
<1>8. Folding(iter, Int, from, step, n)
  BY <1>6, <1>7 DEF Folding
<1>9. PICK h : FoldTurns(h, iter, Int, from, step, n)
  <2> HIDE DEF step
  <2> QED BY <1>1, <1>8, FoldSteps
<1>10. \A k \in 1..n : h[k] = put(h[k - 1], s[k])
  <2> TAKE k \in 1..n
  <2>1. k - 1 \in 0..n /\ h[k - 1] \in Int
    BY <1>9 DEF FoldTurns
  <2>2. step[<<h[k - 1], k>>] = put(h[k - 1], s[k])
    BY <2>1
  <2> QED BY <1>9, <2>2 DEF FoldTurns
<1>11. h \in [0..n -> Int] /\ h[0] = from /\ h[n] = Joined256(from, s)
  BY <1>5, <1>9, Zenon DEF FoldTurns
<1>12. \A k \in 1..n : h[k] = 256 * h[k - 1] + s[k]
  BY <1>10, Zenon DEF put
<1> QED BY <1>11, <1>12, Zenon DEF Joins
-----------------------------------------------------------------------------
(* Strings of bytes, and what is joined to or cut out of them.               *)

Str(s, n) == s \in [1..n -> 0..255]

LEMMA StrIs ==
  ASSUME NEW n \in Nat, NEW s
  PROVE  /\ Str(s, n) <=> s \in Seq(0..255) /\ Len(s) = n
         /\ Str(s, n) => \A i \in 1..n : s[i] \in 0..255
         /\ Str(s, n) => DOMAIN s = 1..n
<1>1. ASSUME Str(s, n) PROVE s \in Seq(0..255) /\ Len(s) = n
  BY <1>1, LenProperties DEF Str
<1>2. ASSUME s \in Seq(0..255), Len(s) = n PROVE Str(s, n)
  BY <1>2, LenProperties DEF Str
<1> QED BY <1>1, <1>2 DEF Str

LEMMA StrAt ==
  ASSUME NEW s
  PROVE  /\ Str(s, 1) => s[1] \in 0..255
         /\ Str(s, 2) => s[1] \in 0..255 /\ s[2] \in 0..255
         /\ Str(s, 4) => s[1] \in 0..255 /\ s[2] \in 0..255 /\ s[3] \in 0..255 /\ s[4] \in 0..255
BY DEF Str

LEMMA StrSame ==
  ASSUME NEW n \in Nat, NEW s, NEW t, Str(s, n), Str(t, n), \A i \in 1..n : s[i] = t[i]
  PROVE  s = t
BY DEF Str

LEMMA StrFrom ==
  ASSUME NEW n \in Nat, NEW s, s = [i \in 1..n |-> s[i]], \A i \in 1..n : s[i] \in 0..255
  PROVE  Str(s, n)
BY DEF Str

\* t is p and q after it; s and c after it; the k bytes of s from the a-th on.
Spliced(t, p, m, q, n) ==
  Str(t, m + n) /\ \A i \in 1..(m + n) : t[i] = IF i <= m THEN p[i] ELSE q[i - m]
Longer(t, s, n, c) == Str(t, n + 1) /\ (\A i \in 1..n : t[i] = s[i]) /\ t[n + 1] = c
CutOut(t, s, a, k) == Str(t, k) /\ \A i \in 1..k : t[i] = s[a + i - 1]

LEMMA StrJoin ==
  ASSUME NEW m \in Nat, NEW n \in Nat, NEW p, NEW q, Str(p, m), Str(q, n)
  PROVE  Spliced(p \o q, p, m, q, n)
<1>1. p \in Seq(0..255) /\ q \in Seq(0..255) /\ Len(p) = m /\ Len(q) = n
  BY StrIs
<1>2. /\ p \o q \in Seq(0..255) /\ Len(p \o q) = Len(p) + Len(q)
      /\ \A i \in 1..(Len(p) + Len(q)) : (p \o q)[i] = IF i <= Len(p) THEN p[i] ELSE q[i - Len(p)]
  BY <1>1, ConcatProperties, ZenonT(60)
<1>3. /\ p \o q \in Seq(0..255) /\ Len(p \o q) = m + n
      /\ \A i \in 1..(m + n) : (p \o q)[i] = IF i <= m THEN p[i] ELSE q[i - m]
  BY <1>1, <1>2, Zenon
<1>4. m + n \in Nat
  OBVIOUS
<1>5. Str(p \o q, m + n)
  BY <1>3, <1>4, StrIs, Zenon
<1> QED BY <1>3, <1>5, Zenon DEF Spliced

LEMMA StrAppend ==
  ASSUME NEW n \in Nat, NEW s, Str(s, n), NEW c \in 0..255
  PROVE  Longer(Append(s, c), s, n, c)
<1>1. s \in Seq(0..255) /\ Len(s) = n
  BY StrIs
<1>2. /\ Append(s, c) \in Seq(0..255) /\ Len(Append(s, c)) = Len(s) + 1
      /\ \A i \in 1..Len(s) : Append(s, c)[i] = s[i]
      /\ Append(s, c)[Len(s) + 1] = c
  BY <1>1, AppendProperties
<1>3. /\ Append(s, c) \in Seq(0..255) /\ Len(Append(s, c)) = n + 1
      /\ \A i \in 1..n : Append(s, c)[i] = s[i]
      /\ Append(s, c)[n + 1] = c
  BY <1>1, <1>2, Zenon
<1>4. n + 1 \in Nat
  OBVIOUS
<1>5. Str(Append(s, c), n + 1)
  BY <1>3, <1>4, StrIs, Zenon
<1> QED BY <1>3, <1>5, Zenon DEF Longer

LEMMA StrCut ==
  ASSUME NEW n \in Nat, NEW s, Str(s, n), NEW a \in 1..n, NEW k \in 1..n, a + k - 1 <= n
  PROVE  CutOut(SubSeq(s, a, a + k - 1), s, a, k)
<1>1. s \in Seq(0..255) /\ Len(s) = n /\ \A i \in 1..n : s[i] \in 0..255
  BY StrIs
<1>2. PICK b \in a..n : b = a + k - 1 /\ b - a + 1 = k
  OBVIOUS
<1>3. \A i \in a..b : s[i] \in 0..255
  BY <1>1
<1>4. /\ SubSeq(s, a, b) \in Seq(0..255) /\ Len(SubSeq(s, a, b)) = b - a + 1
      /\ \A i \in 1..(b - a + 1) : SubSeq(s, a, b)[i] = s[a + i - 1]
  BY <1>1, <1>3, SubSeqProperties
<1>5. /\ SubSeq(s, a, b) \in Seq(0..255) /\ Len(SubSeq(s, a, b)) = k
      /\ \A i \in 1..k : SubSeq(s, a, b)[i] = s[a + i - 1]
  BY <1>2, <1>4, Zenon
<1>6. k \in Nat
  OBVIOUS
<1>7. Str(SubSeq(s, a, b), k)
  BY <1>5, <1>6, StrIs, Zenon
<1> QED BY <1>2, <1>5, <1>7, Zenon DEF CutOut

LEMMA StrOne ==
  ASSUME NEW a \in 0..255
  PROVE  \E p : p = <<a>> /\ Str(p, 1) /\ p[1] = a
<1>1. Str(<<a>>, 1)
  BY DEF Str
<1> QED BY <1>1

LEMMA StrTwo ==
  ASSUME NEW a \in 0..255, NEW b \in 0..255
  PROVE  \E p : p = <<a, b>> /\ Str(p, 2) /\ p[1] = a /\ p[2] = b
<1>1. Str(<<a, b>>, 2)
  BY DEF Str
<1> QED BY <1>1

LEMMA StrFour ==
  ASSUME NEW a \in 0..255, NEW b \in 0..255, NEW c \in 0..255, NEW d \in 0..255
  PROVE  Str(<<a, b, c, d>>, 4)
BY DEF Str

LEMMA StrFive ==
  ASSUME NEW a \in 0..255, NEW b \in 0..255, NEW c \in 0..255, NEW d \in 0..255, NEW e \in 0..255
  PROVE  Str(<<a, b, c, d, e>>, 5)
BY DEF Str

\* A name put before its values.
LEMMA OneAfter == \A a, b : <<a>> \o <<b>> = <<a, b>>
<1> TAKE a, b
<1>1. PICK S : S = {a, b}
  OBVIOUS
<1>2. PICK p, q : p = <<a>> /\ q = <<b>>
  OBVIOUS
<1>3. p \in Seq(S) /\ Len(p) = 1 /\ p[1] = a
  BY <1>1, <1>2
<1>4. q \in Seq(S) /\ Len(q) = 1 /\ q[1] = b
  BY <1>1, <1>2
<1>5. PICK s : s = p \o q
  OBVIOUS
<1>6. s \in Seq(S) /\ Len(s) = 2 /\ \A j \in 1..2 : s[j] = IF j <= 1 THEN p[j] ELSE q[j - 1]
  <2>1. /\ s \in Seq(S) /\ Len(s) = Len(p) + Len(q)
        /\ \A j \in 1..(Len(p) + Len(q)) : s[j] = IF j <= Len(p) THEN p[j] ELSE q[j - Len(p)]
    BY <1>3, <1>4, <1>5, ConcatProperties, Zenon
  <2>2. 1 + 1 = 2
    OBVIOUS
  <2> QED BY <1>3, <1>4, <2>1, <2>2, Zenon
<1>7. s[1] = a /\ s[2] = b
  BY <1>3, <1>4, <1>6
<1>8. s = <<a, b>>
  BY <1>6, <1>7
<1> QED BY <1>2, <1>5, <1>8

LEMMA TwoAfter == \A a, b, c : <<a>> \o <<b, c>> = <<a, b, c>>
<1> TAKE a, b, c
<1>1. PICK S : S = {a, b, c}
  OBVIOUS
<1>2. PICK p, q : p = <<a>> /\ q = <<b, c>>
  OBVIOUS
<1>3. p \in Seq(S) /\ Len(p) = 1 /\ p[1] = a
  BY <1>1, <1>2
<1>4. q \in Seq(S) /\ Len(q) = 2 /\ q[1] = b /\ q[2] = c
  BY <1>1, <1>2
<1>5. PICK s : s = p \o q
  OBVIOUS
<1>6. s \in Seq(S) /\ Len(s) = 3 /\ \A j \in 1..3 : s[j] = IF j <= 1 THEN p[j] ELSE q[j - 1]
  <2>1. /\ s \in Seq(S) /\ Len(s) = Len(p) + Len(q)
        /\ \A j \in 1..(Len(p) + Len(q)) : s[j] = IF j <= Len(p) THEN p[j] ELSE q[j - Len(p)]
    BY <1>3, <1>4, <1>5, ConcatProperties, Zenon
  <2>2. 1 + 2 = 3
    OBVIOUS
  <2> QED BY <1>3, <1>4, <2>1, <2>2, Zenon
<1>7. s[1] = a /\ s[2] = b /\ s[3] = c
  BY <1>3, <1>4, <1>6
<1>8. s = <<a, b, c>>
  BY <1>6, <1>7
<1> QED BY <1>2, <1>5, <1>8

LEMMA ThreeAfter == \A a, b, c, d : <<a>> \o <<b, c, d>> = <<a, b, c, d>>
<1> TAKE a, b, c, d
<1>1. PICK S : S = {a, b, c, d}
  OBVIOUS
<1>2. PICK p, q : p = <<a>> /\ q = <<b, c, d>>
  OBVIOUS
<1>3. p \in Seq(S) /\ Len(p) = 1 /\ p[1] = a
  BY <1>1, <1>2
<1>4. q \in Seq(S) /\ Len(q) = 3 /\ q[1] = b /\ q[2] = c /\ q[3] = d
  BY <1>1, <1>2
<1>5. PICK s : s = p \o q
  OBVIOUS
<1>6. s \in Seq(S) /\ Len(s) = 4 /\ \A j \in 1..4 : s[j] = IF j <= 1 THEN p[j] ELSE q[j - 1]
  <2>1. /\ s \in Seq(S) /\ Len(s) = Len(p) + Len(q)
        /\ \A j \in 1..(Len(p) + Len(q)) : s[j] = IF j <= Len(p) THEN p[j] ELSE q[j - Len(p)]
    BY <1>3, <1>4, <1>5, ConcatProperties, Zenon
  <2>2. 1 + 3 = 4
    OBVIOUS
  <2> QED BY <1>3, <1>4, <2>1, <2>2, Zenon
<1>7. s[1] = a /\ s[2] = b /\ s[3] = c /\ s[4] = d
  BY <1>3, <1>4, <1>6
<1>8. s = <<a, b, c, d>>
  BY <1>6, <1>7
<1> QED BY <1>2, <1>5, <1>8

LEMMA FourAfter == \A a, b, c, d, e : <<a>> \o <<b, c, d, e>> = <<a, b, c, d, e>>
<1> TAKE a, b, c, d, e
<1>1. PICK S : S = {a, b, c, d, e}
  OBVIOUS
<1>2. PICK p, q : p = <<a>> /\ q = <<b, c, d, e>>
  OBVIOUS
<1>3. p \in Seq(S) /\ Len(p) = 1 /\ p[1] = a
  BY <1>1, <1>2
<1>4. q \in Seq(S) /\ Len(q) = 4 /\ q[1] = b /\ q[2] = c /\ q[3] = d /\ q[4] = e
  BY <1>1, <1>2
<1>5. PICK s : s = p \o q
  OBVIOUS
<1>6. s \in Seq(S) /\ Len(s) = 5 /\ \A j \in 1..5 : s[j] = IF j <= 1 THEN p[j] ELSE q[j - 1]
  <2>1. /\ s \in Seq(S) /\ Len(s) = Len(p) + Len(q)
        /\ \A j \in 1..(Len(p) + Len(q)) : s[j] = IF j <= Len(p) THEN p[j] ELSE q[j - Len(p)]
    BY <1>3, <1>4, <1>5, ConcatProperties, Zenon
  <2>2. 1 + 4 = 5
    OBVIOUS
  <2> QED BY <1>3, <1>4, <2>1, <2>2, Zenon
<1>7. s[1] = a /\ s[2] = b /\ s[3] = c /\ s[4] = d /\ s[5] = e
  BY <1>3, <1>4, <1>6
<1>8. s = <<a, b, c, d, e>>
  BY <1>6, <1>7
<1> QED BY <1>2, <1>5, <1>8

-----------------------------------------------------------------------------
(* Numbers in two's complement.                                              *)

Within(w, n) ==
  /\ w \in Int
  /\ \/ n = 1 /\ -128 <= w /\ w < 128
     \/ n = 2 /\ -(128 * 256) <= w /\ w < 128 * 256
     \/ n = 4 /\ -(128 * 256 * 256 * 256) <= w /\ w < 128 * 256 * 256 * 256

LEMMA Powers == 256^0 = 1 /\ 256^1 = 256 /\ 256^2 = 256 * 256 /\ 256^3 = 256 * 256 * 256
OBVIOUS

\* A digit to the base 256.
Digit(w, k) == (w \div 256^k) % 256

LEMMA DigitIs ==
  ASSUME NEW w \in Int
  PROVE  /\ Digit(w, 0) = w % 256 /\ Digit(w, 1) = (w \div 256) % 256
         /\ Digit(w, 2) = (w \div (256 * 256)) % 256
         /\ Digit(w, 3) = (w \div (256 * 256 * 256)) % 256
BY Powers DEF Digit

LEMMA DigitTyped ==
  ASSUME NEW w \in Int
  PROVE  \A k \in 0..3 : Digit(w, k) \in 0..255
<1>1. /\ w % 256 \in 0..255 /\ (w \div 256) % 256 \in 0..255
      /\ (w \div (256 * 256)) % 256 \in 0..255 /\ (w \div (256 * 256 * 256)) % 256 \in 0..255
  OBVIOUS
<1>2. /\ Digit(w, 0) \in 0..255 /\ Digit(w, 1) \in 0..255
      /\ Digit(w, 2) \in 0..255 /\ Digit(w, 3) \in 0..255
  <2>1. PICK a \in 0..255 : a = w % 256
    BY <1>1
  <2>2. PICK b \in 0..255 : b = (w \div 256) % 256
    BY <1>1
  <2>3. PICK c \in 0..255 : c = (w \div (256 * 256)) % 256
    BY <1>1
  <2>4. PICK d \in 0..255 : d = (w \div (256 * 256 * 256)) % 256
    BY <1>1
  <2>5. /\ Digit(w, 0) = w % 256
        /\ Digit(w, 1) = (w \div 256) % 256
        /\ Digit(w, 2) = (w \div (256 * 256)) % 256
        /\ Digit(w, 3) = (w \div (256 * 256 * 256)) % 256
    BY Powers DEF Digit
  <2>6. Digit(w, 0) = a /\ Digit(w, 1) = b
    BY <2>1, <2>2, <2>5
  <2>7. Digit(w, 2) = c /\ Digit(w, 3) = d
    BY <2>3, <2>4, <2>5
  <2> QED BY <2>6, <2>7
<1>3. \A k \in 0..3 : k = 0 \/ k = 1 \/ k = 2 \/ k = 3
  OBVIOUS
<1> QED BY <1>2, <1>3

LEMMA BeAt ==
  ASSUME NEW w \in Int, NEW n \in 1..4
  PROVE  Str(Be(w, n), n) /\ \A i \in 1..n : Be(w, n)[i] = Digit(w, n - i)
<1>1. Be(w, n) = [i \in 1..n |-> Digit(w, n - i)]
  BY DEF Be, Digit
<1>2. \A i \in 1..n : n - i \in 0..3
  OBVIOUS
<1>3. \A i \in 1..n : Digit(w, n - i) \in 0..255
  BY <1>2, DigitTyped, Zenon
<1> QED BY <1>1, <1>3 DEF Str

LEMMA BeOne ==
  ASSUME NEW w \in Int
  PROVE  Str(Be(w, 1), 1) /\ Be(w, 1)[1] = Digit(w, 0)
<1>1. 1 \in 1..4 /\ 1 \in 1..1 /\ 1 - 1 = 0
  OBVIOUS
<1> QED BY <1>1, BeAt

LEMMA BeTwo ==
  ASSUME NEW w \in Int
  PROVE  Str(Be(w, 2), 2) /\ Be(w, 2)[1] = Digit(w, 1) /\ Be(w, 2)[2] = Digit(w, 0)
<1>1. 2 \in 1..4 /\ 1 \in 1..2 /\ 2 \in 1..2 /\ 2 - 1 = 1 /\ 2 - 2 = 0
  OBVIOUS
<1> QED BY <1>1, BeAt

LEMMA BeFour ==
  ASSUME NEW w \in Int
  PROVE  /\ Str(Be(w, 4), 4) /\ Be(w, 4)[1] = Digit(w, 3) /\ Be(w, 4)[2] = Digit(w, 2)
         /\ Be(w, 4)[3] = Digit(w, 1) /\ Be(w, 4)[4] = Digit(w, 0)
<1>1. /\ 4 \in 1..4 /\ 1 \in 1..4 /\ 2 \in 1..4 /\ 3 \in 1..4
      /\ 4 - 1 = 3 /\ 4 - 2 = 2 /\ 4 - 3 = 1 /\ 4 - 4 = 0
  OBVIOUS
<1> QED BY <1>1, BeAt

\* Numbers of two's complement come back.
Top(w) == IF w < 0 THEN -1 ELSE 0
Lead(a) == IF a > 127 THEN -1 ELSE 0

\* What the bytes of a word add up to.
Word1(f, a) == 256 * f + a
Word2(f, a, b) == 256 * (256 * f + a) + b
Word4(f, a, b, c, d) == 256 * (256 * (256 * (256 * f + a) + b) + c) + d

LEMMA OneByteBack ==
  ASSUME NEW w, Within(w, 1), NEW b \in 0..255, b = Digit(w, 0)
  PROVE  Top(w) = Lead(b) /\ w = Word1(Lead(b), b)
<1>1. w \in Int /\ -128 <= w /\ w < 128
  BY DEF Within
<1>2. b = w % 256
  BY <1>1, DigitIs, ZenonT(60)
<1> QED BY <1>1, <1>2 DEF Top, Lead, Word1

LEMMA WordTwo ==
  ASSUME NEW w, Within(w, 2)
  PROVE  w = Word2(Lead(Digit(w, 1)), Digit(w, 1), Digit(w, 0))
<1>1. w \in Int
  BY DEF Within
<1>2. Digit(w, 0) \in 0..255 /\ Digit(w, 1) \in 0..255
  BY <1>1, DigitTyped
<1>3. PICK a \in 0..255, b \in 0..255 : a = Digit(w, 1) /\ b = Digit(w, 0)
  BY <1>2
<1>4. w = Word2(Lead(a), a, b)
  <2>1. w \in Int /\ -(128 * 256) <= w /\ w < 128 * 256
    BY DEF Within
  <2>2. a = (w \div 256) % 256 /\ b = w % 256
    BY <2>1, <1>3, DigitIs
  <2> QED BY <2>1, <2>2 DEF Top, Lead, Word2
<1> QED BY <1>3, <1>4

LEMMA WordFour ==
  ASSUME NEW w, Within(w, 4)
  PROVE  w = Word4(Lead(Digit(w, 3)), Digit(w, 3), Digit(w, 2), Digit(w, 1), Digit(w, 0))
<1>1. w \in Int
  BY DEF Within
<1>2. /\ Digit(w, 0) \in 0..255 /\ Digit(w, 1) \in 0..255
      /\ Digit(w, 2) \in 0..255 /\ Digit(w, 3) \in 0..255
  BY <1>1, DigitTyped, SMTT(40)
<1>3. PICK a \in 0..255, b \in 0..255, c \in 0..255, d \in 0..255 :
        a = Digit(w, 3) /\ b = Digit(w, 2) /\ c = Digit(w, 1) /\ d = Digit(w, 0)
  BY <1>2
<1>4. w = Word4(Lead(a), a, b, c, d)
  <2>1. w \in Int /\ -(128 * 256 * 256 * 256) <= w /\ w < 128 * 256 * 256 * 256
    BY DEF Within
  <2>2. PICK p \in Int, q \in Int, r \in Int :
          p = w \div 256 /\ q = w \div (256 * 256) /\ r = w \div (256 * 256 * 256)
    BY <2>1
  <2>3. /\ d = w % 256 /\ c = p % 256 /\ b = q % 256 /\ a = r % 256
    BY <2>1, <2>2, <1>3, DigitIs
  <2>4. w = 256 * p + d /\ p = 256 * q + c /\ q = 256 * r + b
    BY <2>1, <2>2, <2>3
  <2>5. -128 <= r /\ r < 128 /\ (r < 0 <=> w < 0)
    BY <2>1, <2>2
  <2>6. r = 256 * Top(w) + a /\ Top(w) = IF a > 127 THEN -1 ELSE 0
    <3>1. Top(w) = IF r < 0 THEN -1 ELSE 0
      BY <2>5 DEF Top
    <3>2. CASE r < 0
      <4>1. a = r + 256
        BY <2>3, <2>5, <3>2
      <4> QED BY <2>5, <3>1, <3>2, <4>1
    <3>3. CASE ~(r < 0)
      <4>1. a = r
        BY <2>3, <2>5, <3>3
      <4> QED BY <2>5, <3>1, <3>3, <4>1
    <3> QED BY <3>2, <3>3
  <2>7. PICK f \in Int : f = Lead(a) /\ r = 256 * f + a
    BY <2>6 DEF Lead, Top
  <2>8. w = Word4(f, a, b, c, d)
    BY <2>4, <2>7 DEF Word4
  <2> QED BY <2>7, <2>8
<1> QED BY <1>3, <1>4

LEMMA JoinedIs ==
  ASSUME NEW from \in Int, NEW s
  PROVE  /\ Str(s, 1) => Joined256(from, s) = Word1(from, s[1])
         /\ Str(s, 2) => Joined256(from, s) = Word2(from, s[1], s[2])
         /\ Str(s, 4) => Joined256(from, s) = Word4(from, s[1], s[2], s[3], s[4])
<1>1. ASSUME Str(s, 1) PROVE Joined256(from, s) = Word1(from, s[1])
  <2>1. s \in [1..1 -> 0..255]
    BY <1>1 DEF Str
  <2>2. PICK h : Joins(h, from, s, 1)
    BY <2>1, JoinedFold
  <2>3. h[0] = from /\ h[1] = 256 * h[1 - 1] + s[1] /\ h[1] = Joined256(from, s)
    BY <2>2 DEF Joins
  <2> QED BY <2>3 DEF Word1
<1>2. ASSUME Str(s, 2) PROVE Joined256(from, s) = Word2(from, s[1], s[2])
  <2>1. s \in [1..2 -> 0..255]
    BY <1>2 DEF Str
  <2>2. PICK h : Joins(h, from, s, 2)
    BY <2>1, JoinedFold
  <2>3. /\ h[0] = from /\ h[1] = 256 * h[1 - 1] + s[1] /\ h[2] = 256 * h[2 - 1] + s[2]
        /\ h[2] = Joined256(from, s)
    BY <2>2 DEF Joins
  <2> QED BY <2>3 DEF Word2
<1>3. ASSUME Str(s, 4) PROVE Joined256(from, s) = Word4(from, s[1], s[2], s[3], s[4])
  <2>1. s \in [1..4 -> 0..255]
    BY <1>3 DEF Str
  <2>2. PICK h : Joins(h, from, s, 4)
    BY <2>1, JoinedFold
  <2>3. /\ h[0] = from /\ h[1] = 256 * h[1 - 1] + s[1] /\ h[2] = 256 * h[2 - 1] + s[2]
        /\ h[3] = 256 * h[3 - 1] + s[3] /\ h[4] = 256 * h[4 - 1] + s[4]
        /\ h[4] = Joined256(from, s)
    BY <2>2 DEF Joins
  <2> QED BY <2>3 DEF Word4
<1> QED BY <1>1, <1>2, <1>3, Zenon

LEMMA SignedBe ==
  ASSUME NEW w, NEW n \in {1, 2, 4}, Within(w, n)
  PROVE  Signed(Be(w, n)) = w
<1>0. w \in Int
  BY DEF Within
<1>1. PICK s : s = Be(w, n)
  OBVIOUS
<1>2. PICK from \in Int : from = Lead(s[1])
  BY DEF Lead
<1>3. Signed(s) = Joined256(from, s)
  BY <1>2 DEF Signed, Lead
<1>4. CASE n = 1
  <2>1. Str(s, 1) /\ s[1] = Digit(w, 0)
    BY <1>0, <1>1, <1>4, BeOne, Zenon
  <2>2. PICK a \in 0..255 : a = s[1]
    BY <2>1, StrAt, Zenon
  <2>3. Signed(s) = Word1(from, a)
    BY <1>3, <2>1, <2>2, JoinedIs, Zenon
  <2>4. a = Digit(w, 0) /\ Within(w, 1)
    BY <1>4, <2>1, <2>2, Zenon
  <2>5. w = Word1(Lead(a), a)
    BY <2>4, OneByteBack, Zenon
  <2> QED BY <1>1, <1>2, <2>2, <2>3, <2>5, Zenon
<1>5. CASE n = 2
  <2>1. Str(s, 2) /\ s[1] = Digit(w, 1) /\ s[2] = Digit(w, 0)
    BY <1>0, <1>1, <1>5, BeTwo, Zenon
  <2>2. PICK a \in 0..255, b \in 0..255 : a = s[1] /\ b = s[2]
    BY <2>1, StrAt, Zenon
  <2>3. Signed(s) = Word2(from, a, b)
    BY <1>3, <2>1, <2>2, JoinedIs, Zenon
  <2>4. a = Digit(w, 1) /\ b = Digit(w, 0) /\ Within(w, 2)
    BY <1>5, <2>1, <2>2, Zenon
  <2>5. w = Word2(Lead(a), a, b)
    <3>1. w = Word2(Lead(Digit(w, 1)), Digit(w, 1), Digit(w, 0))
      BY <2>4, WordTwo, Zenon
    <3> QED BY <2>4, <3>1, Zenon
  <2> QED BY <1>1, <1>2, <2>2, <2>3, <2>5, Zenon
<1>6. CASE n = 4
  <2>1. /\ Str(s, 4) /\ s[1] = Digit(w, 3)
        /\ s[2] = Digit(w, 2) /\ s[3] = Digit(w, 1) /\ s[4] = Digit(w, 0)
    BY <1>0, <1>1, <1>6, BeFour, Zenon
  <2>2. PICK a \in 0..255, b \in 0..255, c \in 0..255, d \in 0..255 :
          a = s[1] /\ b = s[2] /\ c = s[3] /\ d = s[4]
    BY <2>1, StrAt, ZenonT(60)
  <2>3. Signed(s) = Word4(from, a, b, c, d)
    BY <1>3, <2>1, <2>2, JoinedIs, Zenon
  <2>4. a = Digit(w, 3) /\ b = Digit(w, 2) /\ c = Digit(w, 1) /\ d = Digit(w, 0) /\ Within(w, 4)
    BY <1>6, <2>1, <2>2, Zenon
  <2>5. w = Word4(Lead(a), a, b, c, d)
    <3>1. w = Word4(Lead(Digit(w, 3)), Digit(w, 3), Digit(w, 2), Digit(w, 1), Digit(w, 0))
      BY <2>4, WordFour, Zenon
    <3> QED BY <2>4, <3>1, Zenon
  <2> QED BY <1>1, <1>2, <2>2, <2>3, <2>5, Zenon
<1> QED BY <1>4, <1>5, <1>6

LEMMA Halved ==
  ASSUME NEW w \in Nat, w < 256 * 256
  PROVE  Digit(w, 1) = w \div 256 /\ Digit(w, 0) = w % 256 /\ w = 256 * (w \div 256) + (w % 256)
<1>1. PICK q \in Int, m \in 0..255 : q = w \div 256 /\ m = w % 256 /\ w = 256 * q + m
  <2>1. w \div 256 \in Int /\ w % 256 \in 0..255 /\ w = 256 * (w \div 256) + (w % 256)
    OBVIOUS
  <2> QED BY <2>1
<1>2. q \in 0..255 /\ w = 256 * q + (w % 256)
  <2>1. q \in 0..255
    BY <1>1
  <2> QED BY <1>1, <2>1
<1>3. q % 256 = q
  BY <1>2
<1>4. Digit(w, 1) = q % 256 /\ Digit(w, 0) = w % 256
  BY <1>1, DigitIs
<1> QED BY <1>1, <1>2, <1>3, <1>4

LEMMA UnsignedBe ==
  ASSUME NEW w \in Nat, w < 256 * 256
  PROVE  Unsigned(Be(w, 2)) = w
<1>1. PICK s : s = Be(w, 2) /\ Str(s, 2) /\ s[1] = Digit(w, 1) /\ s[2] = Digit(w, 0)
  <2>1. w \in Int
    OBVIOUS
  <2> QED BY <2>1, BeTwo, Zenon
<1>2. Unsigned(s) = Word2(0, s[1], s[2])
  BY <1>1, JoinedIs DEF Unsigned
<1>3. Word2(0, Digit(w, 1), Digit(w, 0)) = w
  BY Halved DEF Word2
<1> QED BY <1>1, <1>2, <1>3, Zenon

\* The low byte first.
LEMMA LeIs ==
  ASSUME NEW w \in Nat, w < 256 * 256
  PROVE  /\ Str(Le(w, 2), 2)
         /\ Le(w, 2)[1] = w % 256 /\ Le(w, 2)[2] = w \div 256
         /\ Le(w, 2)[1] + 256 * Le(w, 2)[2] = w
<1>1. PICK s : s = Be(w, 2) /\ Str(s, 2) /\ s[1] = Digit(w, 1) /\ s[2] = Digit(w, 0)
  <2>1. w \in Int
    OBVIOUS
  <2> QED BY <2>1, BeTwo, Zenon
<1>2. Len(s) = 2
  BY <1>1, StrIs
<1>3. Le(w, 2) = [i \in 1..2 |-> s[(2 - i) + 1]]
  BY <1>1, <1>2 DEF Le, Reverse
<1>4. PICK t : t = Le(w, 2) /\ t = [i \in 1..2 |-> s[(2 - i) + 1]]
  BY <1>3
<1>5. t[1] = s[2] /\ t[2] = s[1]
  BY <1>4
<1>6. t = [i \in 1..2 |-> t[i]] /\ \A i \in 1..2 : t[i] \in 0..255
  <2>1. s[1] \in 0..255 /\ s[2] \in 0..255
    BY <1>1, StrIs
  <2>2. \A i \in 1..2 : i = 1 \/ i = 2
    OBVIOUS
  <2> QED BY <1>4, <1>5, <2>1, <2>2
<1>7. Str(t, 2)
  BY <1>6, StrFrom
<1>8. Digit(w, 1) = w \div 256 /\ Digit(w, 0) = w % 256 /\ (w % 256) + 256 * (w \div 256) = w
  BY Halved
<1> QED BY <1>1, <1>4, <1>5, <1>7, <1>8

-----------------------------------------------------------------------------
(* The checksum of the DDSM210.                                              *)

LEMMA MaximInjective == Injective(Maxim)
<1> DEFINE moved(crc) == {i - 1 : i \in crc \ {0}}
           down == [crc \in SUBSET Byte |-> IF 0 \in crc THEN Xor(moved(crc), {7, 3, 2})
                                            ELSE moved(crc)]
<1>1. Maxim = Eight(down)
  BY DEF Maxim
<1>2. ASSUME NEW a \in SUBSET Byte
      PROVE  /\ moved(a) \in SUBSET Byte
             /\ \A i \in 1..7 : i \in a <=> i - 1 \in moved(a)
             /\ 7 \notin moved(a)
  BY DEF Byte
<1>3. down \in [SUBSET Byte -> SUBSET Byte]
  <2>1. {7, 3, 2} \in SUBSET Byte
    BY DEF Byte
  <2> QED BY <1>2, <2>1, XorIs
<1>4. ASSUME NEW a \in SUBSET Byte, NEW b \in SUBSET Byte, down[a] = down[b]
      PROVE  a = b
  <2>1. \A c \in SUBSET Byte : 0 \in c <=> 7 \in down[c]
    BY <1>2 DEF Xor
  <2>2. 0 \in a <=> 0 \in b
    BY <1>4, <2>1
  <2>3. moved(a) = moved(b)
    <3>1. {7, 3, 2} \in SUBSET Byte /\ moved(a) \in SUBSET Byte /\ moved(b) \in SUBSET Byte
      BY <1>2 DEF Byte
    <3>2. /\ down[a] = IF 0 \in a THEN Xor(moved(a), {7, 3, 2}) ELSE moved(a)
          /\ down[b] = IF 0 \in b THEN Xor(moved(b), {7, 3, 2}) ELSE moved(b)
      OBVIOUS
    <3> HIDE DEF moved, down
    <3>3. PICK c \in SUBSET Byte, d \in SUBSET Byte, poly \in SUBSET Byte :
             c = moved(a) /\ d = moved(b) /\ poly = {7, 3, 2}
      BY <3>1
    <3>4. Xor(c, poly) = Xor(d, poly) => c = d
      BY XorIs
    <3>5. (IF 0 \in a THEN Xor(c, poly) ELSE c) = (IF 0 \in b THEN Xor(d, poly) ELSE d)
      BY <1>4, <3>2, <3>3
    <3> QED BY <2>2, <3>3, <3>4, <3>5
  <2>4. \A i \in 1..7 : i \in a <=> i \in b
    BY <1>2, <2>3
  <2>5. \A i \in 0..7 : i \in a <=> i \in b
    BY <2>2, <2>4
  <2> QED BY <2>5 DEF Byte
<1>5. Injective(down)
  BY <1>3, <1>4 DEF Injective
<1> QED BY <1>1, <1>5, EightInjective

LEMMA MaximTyped ==
  ASSUME NEW n \in Nat, NEW data, DOMAIN data = 1..n
  PROVE  Crc8Maxim(data) \in 0..255
<1>1. {} \in SUBSET Byte /\ Maxim \in [SUBSET Byte -> SUBSET Byte]
  BY MaximInjective DEF Injective
<1>2. PICK h : CrcTurns(h, Maxim, {}, data, n)
  BY <1>1, CrcFold
<1>3. h[n] \in SUBSET Byte
  <2>1. n \in 0..n
    OBVIOUS
  <2>2. h \in [0..n -> SUBSET Byte]
    BY <1>2 DEF CrcTurns
  <2> QED BY <2>1, <2>2
<1>4. PICK a \in SUBSET Byte : a = h[n]
  BY <1>3
<1>5. Crc8Maxim(data) = Number(a)
  BY <1>2, <1>4 DEF CrcTurns, Crc8Maxim
<1> QED BY <1>5, BitsOfNumber

LEMMA MaximFinds ==
  ASSUME NEW n \in Nat, NEW data, NEW other, OneByteOff(data, other, n)
  PROVE  Crc8Maxim(data) # Crc8Maxim(other)
<1>1. Injective(Maxim) /\ {} \in SUBSET Byte /\ Maxim \in [SUBSET Byte -> SUBSET Byte]
  BY MaximInjective DEF Injective
<1>2. DOMAIN data = 1..n /\ DOMAIN other = 1..n
  BY DEF OneByteOff
<1>3. PICK h : CrcTurns(h, Maxim, {}, data, n)
  BY <1>1, <1>2, CrcFold
<1>4. PICK g : CrcTurns(g, Maxim, {}, other, n)
  BY <1>1, <1>2, CrcFold
<1>5. h[n] # g[n]
  BY <1>1, <1>3, <1>4, CrcFinds
<1>6. h[n] \in SUBSET Byte /\ g[n] \in SUBSET Byte
  <2>1. n \in 0..n
    OBVIOUS
  <2>2. h \in [0..n -> SUBSET Byte] /\ g \in [0..n -> SUBSET Byte]
    BY <1>3, <1>4 DEF CrcTurns
  <2> QED BY <2>1, <2>2
<1>7. PICK a \in SUBSET Byte, b \in SUBSET Byte : a = h[n] /\ b = g[n]
  BY <1>6
<1>8. Crc8Maxim(data) = Number(a) /\ Crc8Maxim(other) = Number(b)
  BY <1>3, <1>4, <1>7 DEF CrcTurns, Crc8Maxim
<1>9. Bits(Number(a)) = a /\ Bits(Number(b)) = b
  BY BitsOfNumber
<1> QED BY <1>5, <1>7, <1>8, <1>9

-----------------------------------------------------------------------------
(* The sum of the SMS/STS servos.                                            *)

Totals(h, from, s, n) ==
  /\ h \in [0..n -> Int] /\ h[0] = from /\ h[n] = FoldLeft(+, from, s)
  /\ \A k \in 1..n : h[k] = h[k - 1] + s[k]

LEMMA TotalFold ==
  ASSUME NEW n \in Nat, NEW s \in [1..n -> 0..255], NEW from \in Int
  PROVE  \E h : Totals(h, from, s, n)
<1> DEFINE put(w, b) == w + b
           step == [p \in Int \X (1..n) |-> put(p[1], s[p[2]])]
           It(f) == f = [u \in SUBSET (1..n) |->
                          IF u = {} THEN from ELSE put(f[u \ {Max(u)}], s[Max(u)])]
           iter == CHOOSE f : It(f)
<1>1. step \in [Int \X (1..n) -> Int]
  <2>1. ASSUME NEW p \in Int \X (1..n) PROVE put(p[1], s[p[2]]) \in Int
    <3>1. PICK w \in Int, k \in 1..n : p[1] = w /\ p[2] = k
      OBVIOUS
    <3>2. PICK c \in 0..255 : c = s[k]
      OBVIOUS
    <3>3. put(p[1], s[p[2]]) = w + c
      BY <3>1, <3>2
    <3>4. w + c \in Int
      OBVIOUS
    <3> QED BY <3>3, <3>4
  <2> HIDE DEF put
  <2> QED BY <2>1
<1>2. PICK g : FoldsTo(g, Int, from, step, n)
  <2> HIDE DEF step
  <2> QED BY <1>1, FoldExists
<1>3. It(g)
  <2> HIDE DEF put
  <2>1. ASSUME NEW u \in SUBSET (1..n)
        PROVE  g[u] = IF u = {} THEN from ELSE put(g[u \ {Max(u)}], s[Max(u)])
    <3>1. CASE u = {}
      BY <1>2, <3>1 DEF FoldsTo
    <3>2. CASE u # {}
      <4>1. Max(u) \in 1..n
        BY <3>2, MaxIs
      <4>2. g[u \ {Max(u)}] \in Int
        BY <1>2 DEF FoldsTo
      <4>3. step[<<g[u \ {Max(u)}], Max(u)>>] = put(g[u \ {Max(u)}], s[Max(u)])
        BY <4>1, <4>2
      <4>4. g[u] = step[<<g[u \ {Max(u)}], Max(u)>>]
        BY <1>2, <3>2 DEF FoldsTo
      <4> QED BY <3>2, <4>3, <4>4
    <3> QED BY <3>1, <3>2
  <2>2. g = [u \in SUBSET (1..n) |-> g[u]]
    BY <1>2 DEF FoldsTo
  <2> QED BY <2>1, <2>2
<1>4. It(iter)
  <2> HIDE DEF It
  <2> QED BY <1>3
<1>5. FoldLeft(+, from, s) = iter[1..n]
  <2>1. DOMAIN s = 1..n
    OBVIOUS
  <2> QED BY <2>1 DEF FoldLeft, MapThenFoldSet
<1> HIDE DEF iter, put
<1>6. iter[{}] = from
  BY <1>4
<1>7. \A u \in SUBSET (1..n) : u # {} /\ iter[u \ {Max(u)}] \in Int =>
                               iter[u] = step[<<iter[u \ {Max(u)}], Max(u)>>]
  <2> SUFFICES ASSUME NEW u \in SUBSET (1..n), u # {}, iter[u \ {Max(u)}] \in Int
               PROVE  iter[u] = step[<<iter[u \ {Max(u)}], Max(u)>>]
    OBVIOUS
  <2>1. Max(u) \in 1..n
    BY MaxIs
  <2>2. iter[u] = put(iter[u \ {Max(u)}], s[Max(u)])
    BY <1>4
  <2> QED BY <2>1, <2>2
<1> HIDE DEF It
<1>8. Folding(iter, Int, from, step, n)
  BY <1>6, <1>7 DEF Folding
<1>9. PICK h : FoldTurns(h, iter, Int, from, step, n)
  <2> HIDE DEF step
  <2> QED BY <1>1, <1>8, FoldSteps
<1>10. \A k \in 1..n : h[k] = put(h[k - 1], s[k])
  <2> TAKE k \in 1..n
  <2>1. k - 1 \in 0..n /\ h[k - 1] \in Int
    BY <1>9 DEF FoldTurns
  <2>2. step[<<h[k - 1], k>>] = put(h[k - 1], s[k])
    BY <2>1
  <2> QED BY <1>9, <2>2 DEF FoldTurns
<1>11. h \in [0..n -> Int] /\ h[0] = from /\ h[n] = FoldLeft(+, from, s)
  BY <1>5, <1>9, Zenon DEF FoldTurns
<1>12. \A k \in 1..n : h[k] = h[k - 1] + s[k]
  BY <1>10, Zenon DEF put
<1> QED BY <1>11, <1>12, Zenon DEF Totals

LEMMA TotalTyped ==
  ASSUME NEW n \in Nat, NEW s, Str(s, n)
  PROVE  FoldLeft(+, 0, s) \in Int
<1>1. s \in [1..n -> 0..255]
  BY DEF Str
<1>2. 0 \in Int /\ n \in 0..n
  OBVIOUS
<1>3. PICK h : Totals(h, 0, s, n)
  BY <1>1, <1>2, TotalFold, Zenon
<1>4. h \in [0..n -> Int] /\ h[n] = FoldLeft(+, 0, s)
  BY <1>3, Zenon DEF Totals
<1> QED BY <1>2, <1>4, Zenon

\* One byte that comes out different changes the low byte of the sum.
LEMMA TotalFinds ==
  ASSUME NEW n \in Nat, NEW data, NEW other, OneByteOff(data, other, n)
  PROVE  FoldLeft(+, 0, data) % 256 # FoldLeft(+, 0, other) % 256
<1>0. /\ data \in [1..n -> 0..255] /\ other \in [1..n -> 0..255]
      /\ \E p \in 1..n : data[p] # other[p] /\ \A i \in 1..n : i # p => data[i] = other[i]
  BY DEF OneByteOff
<1>12. 0 \in Int
  OBVIOUS
<1>1. PICK h : Totals(h, 0, data, n)
  BY <1>0, <1>12, TotalFold, Zenon
<1>2. PICK g : Totals(g, 0, other, n)
  BY <1>0, <1>12, TotalFold, Zenon
<1>3. PICK p \in 1..n : data[p] # other[p] /\ \A i \in 1..n : i # p => data[i] = other[i]
  BY <1>0
<1>4. PICK x \in 0..255, y \in 0..255 : x = data[p] /\ y = other[p] /\ x # y
  BY <1>0, <1>3, ZenonT(60)
<1>5. /\ h \in [0..n -> Int] /\ g \in [0..n -> Int] /\ h[0] = 0 /\ g[0] = 0
      /\ \A k \in 1..n : h[k] = h[k - 1] + data[k] /\ g[k] = g[k - 1] + other[k]
  BY <1>1, <1>2 DEF Totals
<1> DEFINE T == {k \in Nat : k <= n => g[k] = IF p <= k THEN h[k] + (y - x) ELSE h[k]}
<1>6. 0 \in T
  BY <1>5
<1>7. ASSUME NEW k \in Nat, k \in T PROVE k + 1 \in T
  <2> SUFFICES ASSUME k + 1 <= n
               PROVE  g[k + 1] = IF p <= k + 1 THEN h[k + 1] + (y - x) ELSE h[k + 1]
    OBVIOUS
  <2>1. k \in 0..n /\ k + 1 \in 1..n /\ (k + 1) - 1 = k
    OBVIOUS
  <2>2. PICK u \in Int, v \in Int : u = h[k] /\ v = g[k]
    BY <1>5, <2>1
  <2>3. PICK a \in 0..255, b \in 0..255 : a = data[k + 1] /\ b = other[k + 1]
    BY <1>0, <2>1
  <2>4. h[k + 1] = u + a /\ g[k + 1] = v + b
    BY <1>5, <2>1, <2>2, <2>3
  <2>5. v = IF p <= k THEN u + (y - x) ELSE u
    BY <1>7, <2>2
  <2>6. IF k + 1 = p THEN a = x /\ b = y ELSE a = b
    BY <1>3, <1>4, <2>1, <2>3
  <2> QED BY <2>4, <2>5, <2>6
<1>8. T = Nat
  <2>1. T \subseteq Nat
    OBVIOUS
  <2> HIDE DEF T
  <2> QED BY <1>6, <1>7, <2>1, Induct
<1>9. g[n] = h[n] + (y - x)
  <2>1. n \in T
    BY <1>8
  <2> QED BY <2>1
<1>10. PICK u \in Int : u = h[n]
  BY <1>5
<1>11. (u + (y - x)) % 256 # u % 256
  <2> SUFFICES ASSUME (u + (y - x)) % 256 = u % 256 PROVE FALSE
    OBVIOUS
  <2>1. PICK q \in Int, m \in Int, d \in Int :
          d = y - x /\ u = 256 * q + (u % 256) /\ u + d = 256 * m + ((u + d) % 256)
    <3>1. PICK d \in Int : d = y - x
      OBVIOUS
    <3>2. PICK e \in Int : e = u + d
      OBVIOUS
    <3>3. u = 256 * (u \div 256) + (u % 256) /\ e = 256 * (e \div 256) + (e % 256)
      OBVIOUS
    <3> QED BY <3>1, <3>2, <3>3
  <2>2. d = 256 * (m - q) /\ d # 0 /\ -256 < d /\ d < 256
    BY <1>4, <2>1
  <2> QED BY <2>2
<1> QED BY <1>1, <1>2, <1>9, <1>10, <1>11, ZenonT(60) DEF Totals
=============================================================================
