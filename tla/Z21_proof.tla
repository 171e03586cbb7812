------------------------------ MODULE Z21_proof ------------------------------
(***************************************************************************)
(* The Z21 adapter for any throttles, locos, speeds and losses: its slots, *)
(* the station and the panel agree when all is quiet, and a loco keeps the *)
(* speed it was given within a step.                                       *)
(*                                                                         *)
(* First what encoding and decoding do to a speed, then what appending and *)
(* taking frames does to the two queues, then the invariant.               *)
(***************************************************************************)
EXTENDS Z21, TLAPS, FiniteSetTheorems, FunctionTheorems, WellFoundedInduction

Steps == {14, 28, 128}
Dirs == {"fwd", "rev"}

-----------------------------------------------------------------------------
(* The speed byte.                                                         *)

\* What comes back of a speed that was encoded once.
Once(steps, v) == SpeedOf(steps, EncodeDb3(v, "fwd", steps))

LEMMA SpeedInRange ==
  ASSUME NEW steps \in Steps, NEW db3 \in 0..255
  PROVE  SpeedOf(steps, db3) \in 0..126
<1>1. CASE steps = 14
  BY <1>1 DEF SpeedOf, Lesser
<1>2. CASE steps = 28
  BY <1>2 DEF SpeedOf, Lesser
<1>3. CASE steps = 128
  BY SMTT(60), <1>3 DEF SpeedOf, Lesser
<1> QED
  BY <1>1, <1>2, <1>3 DEF Steps

LEMMA Speeds128 ==
  \A v \in 0..126 : /\ EncodeDb3(v, "fwd", 128) \in 0..255 /\ EncodeDb3(v, "rev", 128) \in 0..255
                    /\ SpeedOf(128, EncodeDb3(v, "fwd", 128)) = v
                    /\ SpeedOf(128, EncodeDb3(v, "rev", 128)) = v
<1>1. \A v \in 0..126 : /\ EncodeDb3(v, "fwd", 128) \in 0..255
                        /\ SpeedOf(128, EncodeDb3(v, "fwd", 128)) = v
  BY DEF EncodeDb3, SpeedOf, Lesser
<1>2. \A v \in 0..126 : /\ EncodeDb3(v, "rev", 128) \in 0..255
                        /\ SpeedOf(128, EncodeDb3(v, "rev", 128)) = v
  BY DEF EncodeDb3, SpeedOf, Lesser
<1> QED
  BY ZenonT(90), <1>1, <1>2

LEMMA Speeds14 ==
  \A v \in 0..126 : /\ EncodeDb3(v, "fwd", 14) \in 0..255 /\ EncodeDb3(v, "rev", 14) \in 0..255
                    /\ SpeedOf(14, EncodeDb3(v, "fwd", 14)) = 9 * (v \div 9)
                    /\ SpeedOf(14, EncodeDb3(v, "rev", 14)) = 9 * (v \div 9)
<1>1. \A v \in 0..126 : /\ EncodeDb3(v, "fwd", 14) \in 0..255
                        /\ SpeedOf(14, EncodeDb3(v, "fwd", 14)) = 9 * (v \div 9)
  BY DEF EncodeDb3, SpeedOf, Lesser
<1>2. \A v \in 0..126 : /\ EncodeDb3(v, "rev", 14) \in 0..255
                        /\ SpeedOf(14, EncodeDb3(v, "rev", 14)) = 9 * (v \div 9)
  BY DEF EncodeDb3, SpeedOf, Lesser
<1> QED
  BY <1>1, <1>2

LEMMA StopBytes ==
  ASSUME NEW steps \in Steps
  PROVE  /\ EncodeDb3(0, "fwd", steps) = 128 /\ EncodeDb3(0, "rev", steps) = 0
         /\ \A b \in {0, 1, 128, 129} : SpeedOf(steps, b) = 0
<1>1. EncodeDb3(0, "fwd", steps) = 128 /\ EncodeDb3(0, "rev", steps) = 0
  BY DEF EncodeDb3
<1>2. \A b \in {0, 1, 128, 129} : SpeedOf(14, b) = 0
  BY DEF SpeedOf
<1>3. \A b \in {0, 1, 128, 129} : SpeedOf(28, b) = 0
  BY DEF SpeedOf
<1>4. \A b \in {0, 1, 128, 129} : SpeedOf(128, b) = 0
  BY DEF SpeedOf
<1> QED
  BY <1>1, <1>2, <1>3, <1>4 DEF Steps

Step28(v) == Lesser(Greater((v * 28) \div 126, 1), 28)
Byte28(s) == ((s + 3) % 2) * 16 + (((s + 3) \div 2) % 16)
Speed28(s) == (s * 126) \div 28

LEMMA Byte28Decodes ==
  ASSUME NEW s \in 1..28, NEW r \in {0, 128}
  PROVE  Byte28(s) \in 0..127 /\ SpeedOf(28, r + Byte28(s)) = Speed28(s)
<1>1. PICK b : b = Byte28(s)
  OBVIOUS
<1>2. b \in 0..127 /\ (b % 16) * 2 + ((b \div 16) % 2) = s + 3
  BY <1>1 DEF Byte28
<1>3. (r + b) % 128 = b
  BY <1>2
<1>4. Speed28(s) \in 4..126
  BY DEF Speed28
<1>5. SpeedOf(28, r + b) = IF s + 3 <= 3 THEN 0 ELSE Lesser(((s + 3 - 3) * 126) \div 28, 126)
  BY <1>2, <1>3 DEF SpeedOf
<1>6. s + 3 - 3 = s /\ ~(s + 3 <= 3)
  OBVIOUS
<1>7. Lesser(Speed28(s), 126) = Speed28(s)
  BY <1>4 DEF Lesser
<1> QED
  BY <1>1, <1>2, <1>5, <1>6, <1>7 DEF Speed28

LEMMA Encodes28 ==
  ASSUME NEW v \in 1..126, NEW dir \in Dirs
  PROVE  /\ Step28(v) \in 1..28
         /\ EncodeDb3(v, dir, 28) = (IF dir = "fwd" THEN 128 ELSE 0) + Byte28(Step28(v))
         /\ SpeedOf(28, EncodeDb3(v, dir, 28)) = Speed28(Step28(v))
<1>1. Step28(v) \in 1..28
  BY DEF Step28, Lesser, Greater
<1>2. EncodeDb3(v, dir, 28) = (IF dir = "fwd" THEN 128 ELSE 0) + Byte28(Step28(v))
  BY DEF EncodeDb3, Encode28, Byte28, Step28
<1> QED
  BY <1>1, <1>2, Byte28Decodes

\* Odd steps are rounded down to the next even one when they are sent again.
LEMMA Steps28Settle ==
  ASSUME NEW v \in 1..126
  PROVE  LET s == Step28(v)
             r == IF s = 1 THEN 1 ELSE IF s % 2 = 0 THEN s ELSE s - 1
         IN  /\ Speed28(s) \in 1..126 /\ Step28(Speed28(s)) = r
             /\ Speed28(r) \in 1..126 /\ Step28(Speed28(r)) = r
             /\ Speed28(s) \in v - 9 .. v + 9 /\ Speed28(r) \in v - 9 .. v + 9
<1>1. PICK s \in 1..28 : s = Step28(v)
  BY Encodes28 DEF Dirs
<1>2. PICK r \in 1..28 : r = IF s = 1 THEN 1 ELSE IF s % 2 = 0 THEN s ELSE s - 1
  OBVIOUS
<1>3. \A x \in 1..28 : Speed28(x) \in 1..126
  BY DEF Speed28
<1>4. \A x \in 1..28 : Step28(Speed28(x)) = IF x = 1 THEN 1 ELSE IF x % 2 = 0 THEN x ELSE x - 1
  BY DEF Speed28, Step28, Lesser, Greater
<1>5. Step28(Speed28(r)) = r
  BY <1>2, <1>4
<1>6. Speed28(s) \in v - 9 .. v + 9
  BY <1>1 DEF Speed28, Step28, Lesser, Greater
<1>7. Speed28(r) \in v - 9 .. v + 9
  BY <1>1, <1>2 DEF Speed28, Step28, Lesser, Greater
<1> QED
  BY <1>1, <1>2, <1>3, <1>4, <1>5, <1>6, <1>7

Settles(steps, v) ==
  LET w == Once(steps, v)
      x == Once(steps, w)
  IN  /\ w \in 0..126 /\ x \in 0..126
      /\ Once(steps, x) = x
      /\ v = 0 => w = 0 /\ x = 0
      /\ w \in v - StepWidth(steps) .. v + StepWidth(steps)
      /\ x \in v - StepWidth(steps) .. v + StepWidth(steps)

\* A speed that is encoded and decoded is settled after the second time, within the
\* width of the steps; a stop stays one.
LEMMA SpeedsSettle ==
  ASSUME NEW steps \in Steps, NEW v \in 0..126
  PROVE  Settles(steps, v)
<1>1. CASE steps = 128
  <2>1. \A u \in 0..126 : Once(128, u) = u
    BY Zenon, Speeds128 DEF Once
  <2>2. StepWidth(128) = 0
    BY DEF StepWidth
  <2> QED
    BY SMTT(60), <1>1, <2>1, <2>2 DEF Settles
<1>2. CASE steps = 14
  <2>1. \A u \in 0..126 : Once(14, u) = 9 * (u \div 9)
    BY Speeds14 DEF Once
  <2>2. StepWidth(14) = 9
    BY DEF StepWidth
  <2>3. PICK w \in 0..126 : w = 9 * (v \div 9) /\ 9 * (w \div 9) = w
    <3>1. 9 * (v \div 9) \in 0..126 /\ (9 * (v \div 9)) \div 9 = v \div 9
      OBVIOUS
    <3> QED
      BY <3>1
  <2>4. w \in v - 9 .. v + 9 /\ (v = 0 => w = 0)
    BY <2>3
  <2>5. Once(14, v) = w /\ Once(14, w) = w
    BY <2>1, <2>3
  <2> QED
    BY <1>2, <2>2, <2>4, <2>5 DEF Settles
<1>3. CASE steps = 28
  <2>1. StepWidth(28) = 9
    BY DEF StepWidth
  <2>2. CASE v = 0
    <3>1. Once(28, 0) = 0
      BY StopBytes DEF Once, Steps
    <3> QED
      BY <1>3, <2>1, <2>2, <3>1 DEF Settles
  <2>3. CASE v # 0
    <3>1. \A u \in 1..126 : Once(28, u) = Speed28(Step28(u))
      BY Encodes28 DEF Once, Dirs
    <3>2. v \in 1..126
      BY <2>3
    <3>3. PICK s, r : s = Step28(v) /\ r = IF s = 1 THEN 1 ELSE IF s % 2 = 0 THEN s ELSE s - 1
      OBVIOUS
    <3>4. PICK w, x : w = Speed28(s) /\ x = Speed28(r)
      BY SMTT(60)
    <3>5. /\ w \in 1..126 /\ Step28(w) = r /\ x \in 1..126 /\ Step28(x) = r
          /\ w \in v - 9 .. v + 9 /\ x \in v - 9 .. v + 9
      BY ZenonT(90), <3>2, <3>3, <3>4, Steps28Settle
    <3>6. Once(28, v) = w /\ Once(28, w) = x /\ Once(28, x) = x
      BY <3>1, <3>2, <3>3, <3>4, <3>5
    <3> QED
      BY <1>3, <2>1, <2>3, <3>5, <3>6 DEF Settles
  <2> QED
    BY <2>2, <2>3
<1> QED
  BY <1>1, <1>2, <1>3 DEF Steps

\* The direction is in a bit of its own.
LEMMA EncodesBoth ==
  ASSUME NEW steps \in Steps, NEW v \in 0..126, NEW dir \in Dirs
  PROVE  /\ EncodeDb3(v, dir, steps) \in 0..255
         /\ SpeedOf(steps, EncodeDb3(v, dir, steps)) = Once(steps, v)
<1>1. CASE steps = 14
  <2>1. dir = "fwd" \/ dir = "rev"
    BY DEF Dirs
  <2>2. /\ EncodeDb3(v, "fwd", 14) \in 0..255 /\ EncodeDb3(v, "rev", 14) \in 0..255
        /\ SpeedOf(14, EncodeDb3(v, "fwd", 14)) = SpeedOf(14, EncodeDb3(v, "rev", 14))
    BY Speeds14
  <2> QED
    BY <1>1, <2>1, <2>2 DEF Once
<1>2. CASE steps = 128
  <2>1. dir = "fwd" \/ dir = "rev"
    BY DEF Dirs
  <2>2. /\ EncodeDb3(v, "fwd", 128) \in 0..255 /\ EncodeDb3(v, "rev", 128) \in 0..255
        /\ SpeedOf(128, EncodeDb3(v, "fwd", 128)) = SpeedOf(128, EncodeDb3(v, "rev", 128))
    BY ZenonT(90), Speeds128
  <2> QED
    BY <1>2, <2>1, <2>2 DEF Once
<1>3. CASE steps = 28 /\ v = 0
  <2>1. EncodeDb3(v, dir, 28) \in {0, 128} /\ SpeedOf(28, 0) = 0 /\ SpeedOf(28, 128) = 0
    BY <1>3, StopBytes DEF Dirs, Steps
  <2>2. Once(28, v) = 0
    BY <1>3, StopBytes DEF Once, Steps
  <2> QED
    BY <1>3, <2>1, <2>2
<1>4. CASE steps = 28 /\ v # 0
  <2>1. v \in 1..126 /\ "fwd" \in Dirs
    BY <1>4 DEF Dirs
  <2>2. /\ SpeedOf(28, EncodeDb3(v, dir, 28)) = Speed28(Step28(v))
        /\ SpeedOf(28, EncodeDb3(v, "fwd", 28)) = Speed28(Step28(v))
    BY <2>1, Encodes28
  <2>3. Byte28(Step28(v)) \in 0..127
    BY <2>1, Encodes28, Byte28Decodes
  <2>4. EncodeDb3(v, dir, 28) \in 0..255
    BY SMTT(60), <2>1, <2>3, Encodes28
  <2> QED
    BY <1>4, <2>2, <2>4 DEF Once
<1> QED
  BY <1>1, <1>2, <1>3, <1>4 DEF Steps

\* A byte that may stand for speed v: it was encoded once or twice.
Good(v, steps, db3) == SpeedOf(steps, db3) \in {Once(steps, v), Once(steps, Once(steps, v))}

LEMMA GoodAtFirst ==
  ASSUME NEW steps \in Steps, NEW v \in 0..126, NEW dir \in Dirs
  PROVE  Good(v, steps, EncodeDb3(v, dir, steps))
BY SMTT(60), EncodesBoth DEF Good

LEMMA GoodAgain ==
  ASSUME NEW steps \in Steps, NEW v \in 0..126, NEW dir \in Dirs, NEW db3 \in 0..255,
         Good(v, steps, db3)
  PROVE  Good(v, steps, EncodeDb3(SpeedOf(steps, db3), dir, steps))
<1>1. SpeedOf(steps, db3) \in 0..126
  BY SpeedInRange
<1>2. SpeedOf(steps, EncodeDb3(SpeedOf(steps, db3), dir, steps)) = Once(steps, SpeedOf(steps, db3))
  BY <1>1, EncodesBoth
<1>3. Settles(steps, v)
  BY SpeedsSettle
<1> QED
  BY <1>2, <1>3 DEF Good, Settles

LEMMA GoodMeans ==
  ASSUME NEW steps \in Steps, NEW v \in 0..126, NEW db3, Good(v, steps, db3)
  PROVE  /\ SpeedOf(steps, db3) \in v - StepWidth(steps) .. v + StepWidth(steps)
         /\ v = 0 => SpeedOf(steps, db3) = 0
<1>1. Settles(steps, v)
  BY SpeedsSettle
<1> QED
  BY <1>1 DEF Good, Settles

\* The code of the emergency stop stands for a stop.
LEMMA GoodHalt ==
  ASSUME NEW steps \in Steps, NEW dir \in Dirs
  PROVE  /\ (IF dir = "fwd" THEN 128 ELSE 0) + 1 \in 0..255
         /\ Good(0, steps, (IF dir = "fwd" THEN 128 ELSE 0) + 1)
<1>1. Once(steps, 0) = 0 /\ SpeedOf(steps, 1) = 0 /\ SpeedOf(steps, 129) = 0
  BY StopBytes DEF Once
<1>2. SpeedOf(steps, (IF dir = "fwd" THEN 128 ELSE 0) + 1) = 0
  BY <1>1
<1> QED
  BY <1>1, <1>2 DEF Good

-----------------------------------------------------------------------------
(* Places of the list in order.                                            *)

LEMMA IntervalSize ==
  ASSUME NEW n \in Nat
  PROVE  IsFiniteSet(1..n) /\ Cardinality(1..n) = n
<1>1. 1 \in Int /\ n \in Int
  OBVIOUS
<1>2. IsFiniteSet(1..n) /\ Cardinality(1..n) = IF 1 > n THEN 0 ELSE n - 1 + 1
  BY <1>1, FS_Interval
<1>3. (IF 1 > n THEN 0 ELSE n - 1 + 1) = n
  OBVIOUS
<1> QED
  BY <1>2, <1>3

LEMMA NthTakesAll ==
  ASSUME NEW n \in Nat, NEW S \in SUBSET (1..n)
  PROVE  /\ Cardinality(S) \in 0..n
         /\ \A k \in 1..Cardinality(S) : Nth(S, k) \in S
         /\ \A i \in S : \E k \in 1..Cardinality(S) : Nth(S, k) = i
<1>1. IsFiniteSet(1..n) /\ Cardinality(1..n) = n
  BY IntervalSize
<1>2. IsFiniteSet(S) /\ Cardinality(S) <= n /\ Cardinality(S) \in Nat
  BY <1>1, FS_Subset, FS_CardinalityType
<1> DEFINE Upto(i) == {j \in S : j <= i}
           place == [i \in S |-> Cardinality(Upto(i))]
           c == Cardinality(S)
<1>3. \A i \in S : /\ IsFiniteSet(Upto(i)) /\ Cardinality(Upto(i)) \in Nat
                   /\ Cardinality(Upto(i)) <= c /\ Cardinality(Upto(i)) # 0
  <2> TAKE i \in S
  <2>1. Upto(i) \in SUBSET S /\ i \in Upto(i)
    OBVIOUS
  <2> HIDE DEF Upto
  <2> QED
    BY <1>2, <2>1, FS_Subset, FS_CardinalityType, FS_EmptySet
<1>4. place \in [S -> 1..c]
  BY <1>2, <1>3
<1>5. ASSUME NEW i \in S, NEW j \in S, i < j
      PROVE  place[i] # place[j]
  <2>1. Upto(i) \in SUBSET Upto(j) /\ Upto(i) # Upto(j)
    <3>1. j \in Upto(j) /\ j \notin Upto(i)
      BY <1>5
    <3>2. \A k \in S : k <= i => k <= j
      BY <1>5
    <3>3. Upto(i) \in SUBSET Upto(j)
      BY <3>2
    <3> QED
      BY <3>1, <3>3
  <2>2. IsFiniteSet(Upto(j))
    BY <1>3
  <2> HIDE DEF Upto
  <2>3. Cardinality(Upto(i)) # Cardinality(Upto(j))
    BY <2>1, <2>2, FS_Subset
  <2> QED
    BY <2>3
<1>6. \A i, j \in S : i # j => place[i] # place[j]
  <2> TAKE i, j \in S
  <2>1. i < j \/ j < i \/ i = j
    OBVIOUS
  <2> HIDE DEF place
  <2> QED
    BY <1>5, <2>1
<1>7. \A k \in 1..c : \E i \in S : place[i] = k
  <2>1. IsFiniteSet(1..c) /\ Cardinality(1..c) = c
    BY <1>2, IntervalSize
  <2>2. place \in Injection(S, 1..c)
    BY <1>4, <1>6 DEF Injection, IsInjective
  <2> HIDE DEF place
  <2>3. place \in Surjection(S, 1..c)
    BY <1>2, <2>1, <2>2, FS_Injection
  <2> QED
    BY <2>3 DEF Surjection
<1>8. \A k \in 1..c : Nth(S, k) \in S /\ place[Nth(S, k)] = k
  BY <1>7 DEF Nth
<1>9. \A i \in S : place[i] \in 1..c /\ Nth(S, place[i]) = i
  <2> TAKE i \in S
  <2>1. place[i] \in 1..c
    BY <1>4
  <2>2. Nth(S, place[i]) \in S /\ place[Nth(S, place[i])] = place[i]
    BY <1>8, <2>1
  <2> HIDE DEF place
  <2> QED
    BY <1>6, <2>1, <2>2
<1>10. c \in 0..n
  BY <1>2
<1> HIDE DEF place
<1> QED
  BY <1>8, <1>9, <1>10

-----------------------------------------------------------------------------
(* Queues: a frame of M is among them; the last one of M is in N.          *)

Has(q, M) == \E i \in DOMAIN q : q[i] \in M
LastIn(q, M, N) == \E i \in DOMAIN q : /\ q[i] \in M /\ q[i] \in N
                                       /\ \A j \in DOMAIN q : j > i => q[j] \notin M

LEMMA ListIs ==
  ASSUME NEW V, NEW n \in Nat, NEW q, q = [k \in 1..n |-> q[k]], \A k \in 1..n : q[k] \in V
  PROVE  q \in Seq(V) /\ Len(q) = n
<1>1. PICK p \in [1..n -> V] : p = q
  OBVIOUS
<1>2. p \in Seq(V) /\ Len(p) = n
  OBVIOUS
<1> QED
  BY <1>1, <1>2

LEMMA QueueShape ==
  ASSUME NEW V, NEW q \in Seq(V)
  PROVE  Len(q) \in Nat /\ DOMAIN q = 1..Len(q) /\ \A i \in 1..Len(q) : q[i] \in V
OBVIOUS

LEMMA ConcatShape ==
  ASSUME NEW V, NEW p \in Seq(V), NEW q \in Seq(V)
  PROVE  /\ p \o q \in Seq(V)
         /\ Len(p \o q) = Len(p) + Len(q)
         /\ \A i \in 1..Len(p) : (p \o q)[i] = p[i]
         /\ \A i \in 1..Len(q) : (p \o q)[Len(p) + i] = q[i]
OBVIOUS

LEMMA TailShape ==
  ASSUME NEW V, NEW q \in Seq(V), q # <<>>
  PROVE  /\ Tail(q) \in Seq(V) /\ Len(Tail(q)) = Len(q) - 1 /\ Len(q) > 0
         /\ \A i \in 1..(Len(q) - 1) : Tail(q)[i] = q[i + 1]
         /\ Head(q) = q[1] /\ Head(q) \in V
OBVIOUS

LEMMA EmptyHas ==
  ASSUME NEW M, NEW N
  PROVE  ~Has(<<>>, M) /\ ~LastIn(<<>>, M, N)
BY DEF Has, LastIn

LEMMA LastHas ==
  ASSUME NEW q, NEW M, NEW N, LastIn(q, M, N)
  PROVE  Has(q, M)
BY DEF Has, LastIn

LEMMA HasConcat ==
  ASSUME NEW V, NEW p \in Seq(V), NEW q \in Seq(V), NEW M
  PROVE  Has(p \o q, M) <=> Has(p, M) \/ Has(q, M)
<1>1. PICK r, m, n : r = p \o q /\ m = Len(p) /\ n = Len(q)
  OBVIOUS
<1>2. m \in Nat /\ n \in Nat /\ DOMAIN p = 1..m /\ DOMAIN q = 1..n
  BY <1>1, QueueShape
<1>3. /\ DOMAIN r = 1..(m + n)
      /\ \A i \in 1..m : r[i] = p[i]
      /\ \A i \in 1..n : r[m + i] = q[i]
  BY <1>1, ConcatShape, QueueShape
<1>4. \A i \in 1..m : i \in 1..(m + n)
  BY <1>2
<1>5. \A i \in 1..n : m + i \in 1..(m + n)
  BY <1>2
<1>6. \A i \in 1..(m + n) : i \in 1..m \/ (i - m \in 1..n /\ i = m + (i - m))
  BY <1>2
<1>7. Has(p, M) => Has(r, M)
  BY <1>2, <1>3, <1>4 DEF Has
<1>8. Has(q, M) => Has(r, M)
  BY <1>2, <1>3, <1>5 DEF Has
<1>9. ASSUME NEW i \in 1..(m + n), r[i] \in M
      PROVE  Has(p, M) \/ Has(q, M)
  <2>1. CASE i \in 1..m
    BY <1>2, <1>3, <1>9, <2>1 DEF Has
  <2>2. CASE i - m \in 1..n /\ i = m + (i - m)
    BY <1>2, <1>3, <1>9, <2>2 DEF Has
  <2> QED
    BY <1>6, <2>1, <2>2
<1>10. Has(r, M) => Has(p, M) \/ Has(q, M)
  BY <1>3, <1>9 DEF Has
<1> QED
  BY <1>1, <1>7, <1>8, <1>10

LEMMA HasTail ==
  ASSUME NEW V, NEW q \in Seq(V), q # <<>>, NEW M
  PROVE  Has(q, M) <=> Head(q) \in M \/ Has(Tail(q), M)
<1>1. PICK t, n : t = Tail(q) /\ n = Len(q)
  OBVIOUS
<1>2. n \in Nat /\ n > 0 /\ DOMAIN q = 1..n /\ DOMAIN t = 1..(n - 1)
  BY <1>1, TailShape, QueueShape
<1>3. Head(q) = q[1] /\ \A i \in 1..(n - 1) : t[i] = q[i + 1]
  BY <1>1, TailShape
<1>4. Head(q) \in M => Has(q, M)
  BY <1>2, <1>3 DEF Has
<1>5. \A i \in 1..(n - 1) : i + 1 \in 1..n
  BY <1>2
<1>6. Has(t, M) => Has(q, M)
  BY <1>2, <1>3, <1>5 DEF Has
<1>7. ASSUME NEW i \in 1..n, q[i] \in M, i # 1
      PROVE  Has(t, M)
  <2>1. i - 1 \in 1..(n - 1) /\ (i - 1) + 1 = i
    BY <1>2, <1>7
  <2>2. t[i - 1] = q[i]
    BY <1>3, <2>1
  <2> QED
    BY <1>2, <1>7, <2>1, <2>2 DEF Has
<1>8. Has(q, M) => Head(q) \in M \/ Has(t, M)
  BY <1>2, <1>3, <1>7 DEF Has
<1> QED
  BY <1>1, <1>4, <1>6, <1>8

LEMMA LastConcat ==
  ASSUME NEW V, NEW p \in Seq(V), NEW q \in Seq(V), NEW M, NEW N
  PROVE  /\ LastIn(q, M, N) => LastIn(p \o q, M, N)
         /\ ~Has(q, M) /\ LastIn(p, M, N) => LastIn(p \o q, M, N)
<1>1. PICK r, m, n : r = p \o q /\ m = Len(p) /\ n = Len(q)
  OBVIOUS
<1>2. m \in Nat /\ n \in Nat /\ DOMAIN p = 1..m /\ DOMAIN q = 1..n
  BY <1>1, QueueShape
<1>3. /\ DOMAIN r = 1..(m + n)
      /\ \A i \in 1..m : r[i] = p[i]
      /\ \A i \in 1..n : r[m + i] = q[i]
  BY <1>1, ConcatShape, QueueShape
<1>4. \A i \in 1..(m + n) : i \in 1..m \/ (i - m \in 1..n /\ i = m + (i - m))
  BY <1>2
<1>5. ASSUME NEW i \in 1..n, q[i] \in M, q[i] \in N, \A j \in 1..n : j > i => q[j] \notin M
      PROVE  LastIn(r, M, N)
  <2>1. m + i \in 1..(m + n) /\ r[m + i] = q[i]
    BY <1>2, <1>3
  <2>2. ASSUME NEW j \in 1..(m + n), j > m + i
        PROVE  r[j] \notin M
    <3>1. j - m \in 1..n /\ j = m + (j - m) /\ j - m > i
      BY <1>2, <2>2
    <3>2. r[j] = q[j - m]
      BY <1>3, <3>1
    <3> QED
      BY <1>5, <3>1, <3>2
  <2> QED
    BY <1>3, <1>5, <2>1, <2>2 DEF LastIn
<1>6. ASSUME NEW i \in 1..m, p[i] \in M, p[i] \in N, \A j \in 1..m : j > i => p[j] \notin M,
             ~Has(q, M)
      PROVE  LastIn(r, M, N)
  <2>1. i \in 1..(m + n) /\ r[i] = p[i]
    BY <1>2, <1>3
  <2>2. ASSUME NEW j \in 1..(m + n), j > i
        PROVE  r[j] \notin M
    <3>1. CASE j \in 1..m
      BY <1>3, <1>6, <2>2, <3>1
    <3>2. CASE j - m \in 1..n /\ j = m + (j - m)
      <4>1. r[j] = q[j - m]
        BY <1>3, <3>2
      <4> QED
        BY <1>2, <1>6, <3>2, <4>1 DEF Has
    <3> QED
      BY <1>4, <3>1, <3>2
  <2> QED
    BY <1>3, <1>6, <2>1, <2>2 DEF LastIn
<1>7. LastIn(q, M, N) => LastIn(r, M, N)
  BY <1>2, <1>5 DEF LastIn
<1>8. ~Has(q, M) /\ LastIn(p, M, N) => LastIn(r, M, N)
  BY <1>2, <1>6 DEF LastIn
<1> QED
  BY <1>1, <1>7, <1>8

LEMMA LastTail ==
  ASSUME NEW V, NEW q \in Seq(V), q # <<>>, NEW M, NEW N, LastIn(q, M, N)
  PROVE  \/ LastIn(Tail(q), M, N)
         \/ ~Has(Tail(q), M) /\ Head(q) \in M /\ Head(q) \in N
<1>1. PICK t, n : t = Tail(q) /\ n = Len(q)
  OBVIOUS
<1>2. n \in Nat /\ n > 0 /\ DOMAIN q = 1..n /\ DOMAIN t = 1..(n - 1)
  BY <1>1, TailShape, QueueShape
<1>3. Head(q) = q[1] /\ \A i \in 1..(n - 1) : t[i] = q[i + 1]
  BY <1>1, TailShape
<1>4. PICK i \in 1..n : q[i] \in M /\ q[i] \in N /\ \A j \in 1..n : j > i => q[j] \notin M
  BY <1>2 DEF LastIn
<1>5. \A j \in 1..(n - 1) : j + 1 \in 1..n /\ t[j] = q[j + 1]
  BY <1>2, <1>3
<1>6. CASE i = 1
  <2>1. \A j \in 1..(n - 1) : t[j] \notin M
    BY <1>2, <1>4, <1>5, <1>6
  <2> QED
    BY <1>1, <1>2, <1>3, <1>4, <1>6, <2>1 DEF Has
<1>7. CASE i # 1
  <2>1. i - 1 \in 1..(n - 1) /\ (i - 1) + 1 = i
    BY <1>2, <1>7
  <2>2. t[i - 1] = q[i]
    BY <1>3, <2>1
  <2>3. \A j \in 1..(n - 1) : j > i - 1 => t[j] \notin M
    BY <1>2, <1>4, <1>5
  <2> QED
    BY <1>1, <1>2, <1>4, <2>1, <2>2, <2>3 DEF LastIn
<1> QED
  BY <1>6, <1>7

LEMMA OneFrame ==
  ASSUME NEW V, NEW f \in V, NEW M, NEW N
  PROVE  /\ <<f>> \in Seq(V)
         /\ Has(<<f>>, M) <=> f \in M
         /\ f \in M /\ f \in N => LastIn(<<f>>, M, N)
<1>1. <<f>> \in Seq(V) /\ DOMAIN <<f>> = {1} /\ <<f>>[1] = f
  OBVIOUS
<1> QED
  BY <1>1 DEF Has, LastIn

LEMMA Appended ==
  ASSUME NEW V, NEW q \in Seq(V), NEW f \in V, NEW M, NEW N
  PROVE  /\ Append(q, f) \in Seq(V)
         /\ Has(Append(q, f), M) <=> Has(q, M) \/ f \in M
         /\ f \in M /\ f \in N => LastIn(Append(q, f), M, N)
         /\ f \notin M /\ LastIn(q, M, N) => LastIn(Append(q, f), M, N)
<1>1. PICK o, r : o = <<f>> /\ r = q \o o
  OBVIOUS
<1>2. Append(q, f) = r
  BY <1>1
<1>3. /\ o \in Seq(V)
      /\ Has(o, M) <=> f \in M
      /\ f \in M /\ f \in N => LastIn(o, M, N)
  BY <1>1, OneFrame
<1>4. r \in Seq(V)
  BY <1>1, <1>3
<1>5. Has(r, M) <=> Has(q, M) \/ Has(o, M)
  BY <1>1, <1>3, HasConcat
<1>6. /\ LastIn(o, M, N) => LastIn(r, M, N)
      /\ ~Has(o, M) /\ LastIn(q, M, N) => LastIn(r, M, N)
  BY <1>1, <1>3, LastConcat
<1> QED
  BY <1>2, <1>3, <1>4, <1>5, <1>6

-----------------------------------------------------------------------------
(* Frames.                                                                 *)

Infos(a) == {<<"info", a>>}
Drives(a) == {"drive"} \X {a} \X Steps \X (0..255)
Moves(a) == Drives(a) \cup {<<"halt", a>>}
Requests(a) == Moves(a) \cup Infos(a) \cup ({"func"} \X {a} \X BOOLEAN)
Subscriptions == {<<"flags">>, <<"status">>}
PowerAsks == {<<"status">>} \cup ({"power"} \X BOOLEAN)
OfLoco(a) == Requests(a) \cup {<<"purge", a>>}
UpFrame == Subscriptions \cup PowerAsks \cup UNION {OfLoco(a) : a \in Locos}

Reports(a) == {"info"} \X {a} \X Steps \X (0..255) \X BOOLEAN
Tracks == {"track"} \X BOOLEAN
DownFrame == Tracks \cup UNION {Reports(a) : a \in Locos}

\* Drives that keep the speed v of a loco.
Keeping(a, v) == {f \in Drives(a) : Good(v, f[3], f[4])}

LEMMA UpFrameIs ==
  ASSUME NEW f \in UpFrame
  PROVE  \/ f \in Subscriptions \cup PowerAsks
         \/ \E a \in Locos : f \in OfLoco(a)
BY DEF UpFrame

LEMMA OfLocoIs ==
  ASSUME NEW a, NEW f \in OfLoco(a)
  PROVE  /\ f[1] \in {"info", "drive", "halt", "func", "purge"} /\ f[2] = a /\ About(f) = a
         /\ f[1] = "info" <=> f \in Infos(a)
         /\ f[1] = "drive" <=> f \in Drives(a)
         /\ f[1] = "drive" => f[3] \in Steps /\ f[4] \in 0..255
         /\ f[1] \in {"drive", "halt"} <=> f \in Moves(a)
         /\ f[1] = "func" => f[3] \in BOOLEAN
         /\ f[1] # "purge" <=> f \in Requests(a)
<1>1. CASE f \in Drives(a)
  BY <1>1 DEF Drives, Moves, Requests, Infos, About
<1>2. CASE f = <<"halt", a>>
  BY <1>2 DEF Drives, Moves, Requests, Infos, About
<1>3. CASE f = <<"info", a>>
  BY <1>3 DEF Drives, Moves, Requests, Infos, About
<1>4. CASE f \in {"func"} \X {a} \X BOOLEAN
  BY <1>4 DEF Drives, Moves, Requests, Infos, About
<1>5. CASE f = <<"purge", a>>
  BY <1>5 DEF Drives, Moves, Requests, Infos, About
<1> QED
  BY <1>1, <1>2, <1>3, <1>4, <1>5 DEF OfLoco, Requests, Moves, Infos

LEMMA OtherIs ==
  ASSUME NEW f \in Subscriptions \cup PowerAsks
  PROVE  /\ f[1] \in {"flags", "status", "power"} /\ About(f) = None
         /\ f[1] = "flags" <=> f = <<"flags">>
         /\ f[1] = "status" <=> f = <<"status">>
         /\ f[1] = "power" => f[2] \in BOOLEAN
         /\ f \in PowerAsks <=> f[1] \in {"status", "power"}
         /\ f \in Subscriptions <=> f[1] \in {"status", "flags"}
<1>1. CASE f = <<"flags">>
  BY <1>1 DEF Subscriptions, PowerAsks, About
<1>2. CASE f = <<"status">>
  BY <1>2 DEF Subscriptions, PowerAsks, About
<1>3. CASE f \in {"power"} \X BOOLEAN
  BY <1>3 DEF Subscriptions, PowerAsks, About
<1> QED
  BY <1>1, <1>2, <1>3 DEF Subscriptions, PowerAsks

\* A frame is about one loco, or about none.
LEMMA FramesPart ==
  ASSUME NEW a, NEW b
  PROVE  /\ a # b => OfLoco(a) \cap OfLoco(b) = {}
         /\ OfLoco(a) \cap (Subscriptions \cup PowerAsks) = {}
         /\ Moves(a) \subseteq Requests(a) /\ Infos(a) \subseteq Requests(a)
         /\ Requests(a) \subseteq OfLoco(a)
<1>1. a # b => OfLoco(a) \cap OfLoco(b) = {}
  BY OfLocoIs
<1>2. ASSUME NEW f \in OfLoco(a), f \in Subscriptions \cup PowerAsks
      PROVE  FALSE
  BY <1>2, OfLocoIs, OtherIs
<1> QED
  BY <1>1, <1>2 DEF Requests, OfLoco

LEMMA ReportsPart ==
  ASSUME NEW a, NEW f \in Reports(a)
  PROVE  /\ f[1] = "info" /\ f[2] = a /\ f[3] \in Steps /\ f[4] \in 0..255 /\ f[5] \in BOOLEAN
         /\ f = <<"info", a, f[3], f[4], f[5]>>
         /\ About(f) = a /\ f \notin Tracks
         /\ \A b : f \in Reports(b) => b = a
BY DEF Reports, Tracks, About

LEMMA TracksPart ==
  ASSUME NEW f \in Tracks
  PROVE  /\ f[1] = "track" /\ f[2] \in BOOLEAN /\ f = <<"track", f[2]>> /\ About(f) = None
         /\ \A b : f \notin Reports(b)
BY DEF Reports, Tracks, About

LEMMA DownFrameIs ==
  ASSUME NEW f \in DownFrame
  PROVE  f \in Tracks \/ \E a \in Locos : f \in Reports(a)
BY DEF DownFrame

-----------------------------------------------------------------------------
(* What is quiet holds no frame about a loco, or none about the track.     *)

LEMMA QuietMeans ==
  ASSUME NEW a \in Locos, uplink \in Seq(UpFrame), downlink \in Seq(DownFrame), Quiet(a)
  PROVE  ~Has(uplink, OfLoco(a)) /\ ~Has(downlink, Reports(a))
<1>1. \A f \in OfLoco(a) : About(f) = a
  BY OfLocoIs
<1>2. \A f \in Reports(a) : About(f) = a
  BY ReportsPart
<1> QED
  BY <1>1, <1>2 DEF Quiet, Has

LEMMA QuietTrackMeans ==
  ASSUME uplink \in Seq(UpFrame), downlink \in Seq(DownFrame), Quiet(None)
  PROVE  ~Has(uplink, PowerAsks) /\ ~Has(uplink, Subscriptions) /\ ~Has(downlink, Tracks)
<1>1. \A f \in Subscriptions \cup PowerAsks : About(f) = None
  BY OtherIs
<1>2. \A f \in Tracks : About(f) = None
  BY TracksPart
<1> QED
  BY <1>1, <1>2 DEF Quiet, Has

-----------------------------------------------------------------------------
(* The last of some places; datagrams of one frame for each place.         *)

LEMMA LargestOf ==
  ASSUME NEW n \in Nat, NEW S \in SUBSET (1..n), S # {}
  PROVE  \E m \in S : \A j \in S : j <= m
<1> DEFINE R == OpToRel(<, Nat)
           T == {n - j : j \in S}
<1>1. IsWellFoundedOn(R, Nat)
  BY NatLessThanWellFounded
<1> HIDE DEF R
<1>2. T \subseteq Nat /\ T # {}
  <2>1. \A j \in S : n - j \in Nat
    OBVIOUS
  <2> QED
    BY <2>1
<1>3. PICK x \in T : \A y \in T : ~ (<<y, x>> \in R)
  <2> HIDE DEF T
  <2> QED
    BY <1>1, <1>2, WFMin
<1>4. \A y \in T : ~ (y < x)
  BY <1>2, <1>3 DEF R, OpToRel
<1>5. PICK m \in S : x = n - m
  BY <1>3
<1>6. ASSUME NEW j \in S
      PROVE  j <= m
  <2>1. ~ (n - j < n - m)
    BY <1>4, <1>5
  <2>2. j \in Int /\ m \in Int
    OBVIOUS
  <2> QED
    BY <2>1, <2>2
<1> HIDE DEF T
<1> QED
  BY <1>6

\* A frame of M outside N is followed by another of M.
LEMMA LastExists ==
  ASSUME NEW V, NEW q \in Seq(V), NEW M, NEW N, Has(q, M),
         \A i \in DOMAIN q : q[i] \in M /\ q[i] \notin N => \E j \in DOMAIN q : j > i /\ q[j] \in M
  PROVE  LastIn(q, M, N)
<1> DEFINE S == {i \in DOMAIN q : q[i] \in M}
<1>1. Len(q) \in Nat /\ DOMAIN q = 1..Len(q)
  BY QueueShape
<1>2. S \in SUBSET (1..Len(q)) /\ S # {}
  BY <1>1 DEF Has
<1>3. PICK m \in S : \A j \in S : j <= m
  <2> HIDE DEF S
  <2> QED
    BY <1>1, <1>2, LargestOf
<1>4. \A j \in DOMAIN q : j > m => q[j] \notin M
  BY <1>1, <1>3
<1> QED
  BY <1>3, <1>4 DEF LastIn

\* A list that has one element for each place of S, in order.
Picks(D, S, F) == /\ \A k \in DOMAIN D : \E i \in S : D[k] = F[i]
                  /\ \A i \in S : \E k \in DOMAIN D : D[k] = F[i]

LEMMA InOrderHas ==
  ASSUME NEW n \in Nat, NEW S \in SUBSET (1..n), NEW V, NEW F \in [1..n -> V], NEW D,
         D = InOrder(S, F)
  PROVE  /\ D \in Seq(V) /\ Len(D) = Cardinality(S) /\ Len(D) <= n
         /\ Picks(D, S, F)
         /\ \A M : Has(D, M) <=> \E i \in S : F[i] \in M
<1>1. PICK c : c = Cardinality(S)
  OBVIOUS
<1>2. /\ c \in 0..n
      /\ \A k \in 1..c : Nth(S, k) \in S
      /\ \A i \in S : \E k \in 1..c : Nth(S, k) = i
  BY <1>1, NthTakesAll
<1>3. D = [k \in 1..c |-> D[k]] /\ DOMAIN D = 1..c /\ \A k \in 1..c : D[k] = F[Nth(S, k)]
  BY <1>1 DEF InOrder
<1>4. \A k \in 1..c : F[Nth(S, k)] \in V
  BY <1>2
<1>5. D \in Seq(V) /\ Len(D) = c
  <2>1. \A k \in 1..c : D[k] \in V
    BY <1>3, <1>4
  <2> QED
    BY SMTT(60), <1>2, <1>3, <2>1, ListIs
<1>6. \A k \in DOMAIN D : \E i \in S : D[k] = F[i]
  BY <1>2, <1>3
<1>7. \A i \in S : \E k \in DOMAIN D : D[k] = F[i]
  BY <1>2, <1>3
<1>8. \A M : Has(D, M) <=> \E i \in S : F[i] \in M
  BY <1>6, <1>7 DEF Has
<1> QED
  BY <1>1, <1>2, <1>5, <1>6, <1>7, <1>8 DEF Picks

LEMMA InOrderLast ==
  ASSUME NEW n \in Nat, NEW S \in SUBSET (1..n), NEW V, NEW F \in [1..n -> V], NEW D,
         D = InOrder(S, F),
         NEW M, NEW N, \E i \in S : F[i] \in M, \A i \in S : F[i] \in M => F[i] \in N
  PROVE  LastIn(D, M, N)
<1>1. D \in Seq(V)
  BY InOrderHas
<1>2. Picks(D, S, F)
  BY InOrderHas
<1>3. Has(D, M)
  BY InOrderHas
<1>4. \A k \in DOMAIN D : D[k] \in M => D[k] \in N
  BY <1>2 DEF Picks
<1> QED
  BY <1>1, <1>3, <1>4, LastExists

-----------------------------------------------------------------------------
(* The invariant.                                                          *)

Slot == [throttle : Throttles, addr : Locos, steps : Steps, speed : 0..126,
         dir : Dirs, func : BOOLEAN]
Train == [steps : Steps, db3 : 0..255, func : BOOLEAN]
Panel == [locos : SUBSET Locos, speed : 0..126, dir : Dirs, func : BOOLEAN]

Types ==
  /\ locos \in Seq(Slot) /\ Len(locos) <= MaxLocos
  /\ shown \in [Throttles -> Panel]
  /\ trains \in [Locos -> Train]
  /\ uplink \in Seq(UpFrame) /\ downlink \in Seq(DownFrame)
  /\ power \in BOOLEAN
  /\ meant \in [Locos -> 0..126 \cup {None}]

\* A loco of some slot was asked for; a slot that differs from the station is about
\* to be told: by the report of a request under way, or by the last report, which
\* then tells how the loco runs now.
HasSlot(a) == \E i \in DOMAIN locos : locos[i].addr = a
Heard(a) == a \in watched \/ Has(uplink, Infos(a))
Exact(a) == <<"info", a, trains[a].steps, trains[a].db3, trains[a].func>>
Holds(s) == /\ s.steps = trains[s.addr].steps
            /\ s.speed = SpeedOf(trains[s.addr].steps, trains[s.addr].db3)
            /\ s.dir = DirectionOf(trains[s.addr].db3)
            /\ s.func = trains[s.addr].func
SlotsHold(a) == \A i \in DOMAIN locos : locos[i].addr = a => Holds(locos[i])
Known(a) == \/ Has(uplink, Requests(a))
            \/ LastIn(downlink, Reports(a), {Exact(a)})
            \/ ~Has(downlink, Reports(a)) /\ SlotsHold(a)
SlotInv == \A a \in Locos : a \notin astray /\ HasSlot(a) => Heard(a) /\ Known(a)

\* The same of the track power.
Subscribed == \/ listening
              \/ Has(uplink, {<<"flags">>}) /\ LastIn(uplink, Subscriptions, {<<"status">>})
PowerKnown == \/ Has(uplink, PowerAsks)
              \/ LastIn(downlink, Tracks, {<<"track", power>>})
              \/ ~Has(downlink, Tracks) /\ track = power
PowerInv == None \notin astray => Subscribed /\ PowerKnown

\* The panel shows the slot of a throttle that has one, now and always.
Shows(p, s) == p.speed = s.speed /\ p.dir = s.dir /\ p.func = s.func
ShownInv ==
  /\ \A t \in Throttles : shown[t].locos = {} => shown[t] = Empty
  /\ \A i \in DOMAIN locos :
      /\ locos[i].addr \in shown[locos[i].throttle].locos
      /\ shown[locos[i].throttle].locos = {locos[i].addr} => Shows(shown[locos[i].throttle], locos[i])
  /\ \A t \in Throttles : \A a \in shown[t].locos :
      <<t, a>> \in refused \/ \E i \in DOMAIN locos : locos[i].throttle = t /\ locos[i].addr = a

\* The speed a loco was given is the one it runs at, or the last one under way.
Kept(a) == \/ ~Has(uplink, Moves(a)) /\ Good(meant[a], trains[a].steps, trains[a].db3)
           \/ LastIn(uplink, Moves(a), Keeping(a, meant[a]))
MeantInv == \A a \in Locos : a \notin astray /\ meant[a] # None => Kept(a)

Inv == Types /\ SlotInv /\ PowerInv /\ ShownInv /\ MeantInv

-----------------------------------------------------------------------------
(* The invariant says what the properties say.                             *)

LEMMA InvTypes == Types /\ ShownInv => TypeOK
<1> SUFFICES ASSUME Types, ShownInv
             PROVE  TypeOK
  OBVIOUS
<1>1. ASSUME NEW i \in DOMAIN locos
      PROVE  /\ locos[i].throttle \in Throttles /\ locos[i].addr \in Locos
             /\ locos[i].steps \in {14, 28, 128} /\ locos[i].speed \in 0..126
             /\ locos[i].dir \in {"fwd", "rev"} /\ locos[i].func \in BOOLEAN
  <2>1. locos[i] \in Slot
    BY DEF Types
  <2> QED
    BY <2>1 DEF Slot, Steps, Dirs
<1>2. \A a \in Locos : trains[a].db3 \in 0..255
  BY DEF Types, Train
<1>3. \A t \in Throttles : Held(t) \subseteq shown[t].locos
  BY DEF ShownInv, Held, SlotsOf
<1> QED
  BY <1>1, <1>2, <1>3 DEF TypeOK, Types

LEMMA InvSlots == Inv => SlotsAgree
<1> SUFFICES ASSUME Inv
             PROVE  SlotsAgree
  OBVIOUS
<1> USE DEF Inv
<1>1. TypeOK
  BY InvTypes
<1>2. Quiet(None) /\ None \notin astray => track = power
  <2> HAVE Quiet(None) /\ None \notin astray
  <2>1. ~Has(uplink, PowerAsks) /\ ~Has(downlink, Tracks)
    BY QuietTrackMeans DEF Types
  <2>2. ~LastIn(downlink, Tracks, {<<"track", power>>})
    BY <2>1, LastHas
  <2> QED
    BY <2>1, <2>2 DEF PowerInv, PowerKnown
<1>3. ASSUME NEW t \in Throttles, NEW a \in shown[t].locos, Quiet(a), a \notin astray,
             <<t, a>> \notin refused
      PROVE  \E i \in SlotsOf(t) :
                /\ locos[i].addr = a
                /\ locos[i].steps = trains[a].steps
                /\ locos[i].speed = SpeedOf(trains[a].steps, trains[a].db3)
                /\ locos[i].dir = DirectionOf(trains[a].db3)
                /\ locos[i].func = trains[a].func
                /\ shown[t].locos = {a} =>
                    /\ shown[t].speed = locos[i].speed
                    /\ shown[t].dir = locos[i].dir
                    /\ shown[t].func = locos[i].func
  <2>1. a \in Locos
    BY DEF Types, Panel
  <2>2. PICK i \in DOMAIN locos : locos[i].throttle = t /\ locos[i].addr = a
    BY <1>3 DEF ShownInv
  <2>3. Known(a)
    BY <1>3, <2>1, <2>2 DEF SlotInv, HasSlot
  <2>4. ~Has(uplink, OfLoco(a)) /\ ~Has(downlink, Reports(a))
    BY <1>3, <2>1, QuietMeans DEF Types
  <2>5. ~Has(uplink, Requests(a)) /\ ~LastIn(downlink, Reports(a), {Exact(a)})
    BY <2>4, LastHas DEF OfLoco, Has
  <2>6. Holds(locos[i])
    BY <2>2, <2>3, <2>5 DEF Known, SlotsHold
  <2>7. shown[t].locos = {a} => Shows(shown[t], locos[i])
    BY <2>2 DEF ShownInv
  <2> QED
    BY <2>2, <2>6, <2>7 DEF Holds, Shows, SlotsOf
<1> QED
  BY <1>1, <1>2, <1>3 DEF SlotsAgree

LEMMA InvSpeed == Inv => SpeedIsKept
<1> SUFFICES ASSUME Inv, NEW a \in Locos, Quiet(a), a \notin astray, meant[a] # None
             PROVE  /\ SpeedOf(trains[a].steps, trains[a].db3)
                          \in (meant[a] - StepWidth(trains[a].steps))
                                ..(meant[a] + StepWidth(trains[a].steps))
                    /\ meant[a] = 0 => SpeedOf(trains[a].steps, trains[a].db3) = 0
  BY DEF SpeedIsKept
<1> USE DEF Inv
<1>1. ~Has(uplink, OfLoco(a))
  BY QuietMeans DEF Types
<1>2. ~LastIn(uplink, Moves(a), Keeping(a, meant[a]))
  BY <1>1, LastHas DEF OfLoco, Requests, Has
<1>3. Good(meant[a], trains[a].steps, trains[a].db3)
  BY <1>2 DEF MeantInv, Kept
<1>4. meant[a] \in 0..126 /\ trains[a].steps \in Steps
  BY DEF Types, Train
<1> QED
  BY <1>3, <1>4, GoodMeans

-----------------------------------------------------------------------------
LEMMA InitInv == Init => Inv
<1> SUFFICES ASSUME Init
             PROVE  Inv
  OBVIOUS
<1> USE DEF Init
<1>1. Types
  <2>1. uplink \in Seq(UpFrame)
    BY DEF UpFrame, Subscriptions
  <2>2. shown \in [Throttles -> Panel]
    BY DEF Panel, Empty, Dirs
  <2>3. trains \in [Locos -> Train]
    BY DEF Train, Steps
  <2>4. locos \in Seq(Slot) /\ Len(locos) <= MaxLocos
    BY Z21Assumption
  <2>5. downlink \in Seq(DownFrame)
    OBVIOUS
  <2> QED
    BY <2>1, <2>2, <2>3, <2>4, <2>5 DEF Types
<1>2. ~(\E i \in DOMAIN locos : TRUE)
  OBVIOUS
<1>3. SlotInv
  BY <1>2 DEF SlotInv, HasSlot
<1>4. PowerInv
  <2>1. DOMAIN uplink = 1..2 /\ uplink[1] = <<"flags">> /\ uplink[2] = <<"status">>
    OBVIOUS
  <2>2. Has(uplink, {<<"flags">>}) /\ Has(uplink, PowerAsks)
    BY <2>1 DEF Has, PowerAsks
  <2>3. LastIn(uplink, Subscriptions, {<<"status">>})
    BY <2>1 DEF LastIn, Subscriptions
  <2> QED
    BY <2>2, <2>3 DEF PowerInv, Subscribed, PowerKnown
<1>5. ShownInv
  BY <1>2 DEF ShownInv, Empty
<1>6. MeantInv
  BY DEF MeantInv
<1> QED
  BY <1>1, <1>3, <1>4, <1>5, <1>6 DEF Inv

-----------------------------------------------------------------------------
(* What a command does, whether its datagram arrives or not.               *)

LEMMA LostMeans ==
  ASSUME NEW D \in Seq(UpFrame), NEW a \in Locos,
         a \notin astray \cup {About(D[k]) : k \in DOMAIN D}
  PROVE  a \notin astray /\ ~Has(D, OfLoco(a))
<1>1. \A f \in OfLoco(a) : About(f) = a
  BY OfLocoIs
<1> QED
  BY <1>1 DEF Has

LEMMA InOfLoco ==
  ASSUME NEW q, NEW a, ~Has(q, OfLoco(a))
  PROVE  ~Has(q, Requests(a)) /\ ~Has(q, Infos(a)) /\ ~Has(q, Moves(a))
BY DEF Has, OfLoco, Requests

LEMMA SentHas ==
  ASSUME uplink \in Seq(UpFrame), NEW D \in Seq(UpFrame), uplink' = uplink \o D, NEW M
  PROVE  /\ Has(uplink', M) <=> Has(uplink, M) \/ Has(D, M)
         /\ uplink' \in Seq(UpFrame)
BY HasConcat, ConcatShape

LEMMA SentLast ==
  ASSUME uplink \in Seq(UpFrame), NEW D \in Seq(UpFrame), uplink' = uplink \o D, NEW M, NEW N
  PROVE  /\ LastIn(D, M, N) => LastIn(uplink', M, N)
         /\ ~Has(D, M) /\ LastIn(uplink, M, N) => LastIn(uplink', M, N)
<1>1. PICK r : r = uplink \o D
  OBVIOUS
<1>2. /\ LastIn(D, M, N) => LastIn(r, M, N)
      /\ ~Has(D, M) /\ LastIn(uplink, M, N) => LastIn(r, M, N)
  BY <1>1, LastConcat
<1> QED
  BY <1>1, <1>2

LEMMA SendTypes ==
  ASSUME uplink \in Seq(UpFrame), NEW D \in Seq(UpFrame), NEW A, Send(D, A)
  PROVE  uplink' \in Seq(UpFrame)
<1>1. CASE uplink' = uplink \o D
  BY <1>1, SentHas
<1>2. CASE uplink' = uplink
  BY <1>2
<1> QED
  BY <1>1, <1>2 DEF Send

\* The slots a command changes belong to locos it drives or asks for.
LEMMA CommandSlots ==
  ASSUME Types, SlotInv, NEW D \in Seq(UpFrame), NEW A, Send(D, A),
         UNCHANGED <<downlink, trains, watched>>,
         \A a \in Locos : HasSlot(a)' =>
            \/ Has(D, Infos(a))
            \/ /\ a \notin A /\ HasSlot(a)
               /\ Has(D, Requests(a)) \/ (SlotsHold(a) => SlotsHold(a)')
  PROVE  SlotInv'
<1> SUFFICES ASSUME NEW a \in Locos, a \notin astray', HasSlot(a)'
             PROVE  Heard(a)' /\ Known(a)'
  BY DEF SlotInv
<1>1. \/ Has(D, Infos(a))
      \/ a \notin A /\ HasSlot(a) /\ (Has(D, Requests(a)) \/ (SlotsHold(a) => SlotsHold(a)'))
  OBVIOUS
<1>2. uplink \in Seq(UpFrame) /\ Exact(a)' = Exact(a)
  BY DEF Types, Exact
<1>3. Infos(a) \subseteq Requests(a)
  BY FramesPart
<1>4. CASE uplink' = uplink \o D /\ astray' = astray \ A
  <2>1. \A M : Has(uplink', M) <=> Has(uplink, M) \/ Has(D, M)
    BY <1>2, <1>4, SentHas
  <2>2. CASE Has(D, Infos(a))
    <3>1. Has(uplink', Infos(a)) /\ Has(D, Requests(a))
      BY <1>3, <2>1, <2>2 DEF Has
    <3> QED
      BY <2>1, <3>1 DEF Heard, Known
  <2>3. CASE a \notin A /\ HasSlot(a) /\ (Has(D, Requests(a)) \/ (SlotsHold(a) => SlotsHold(a)'))
    <3>1. Heard(a) /\ Known(a)
      BY <1>4, <2>3 DEF SlotInv
    <3>2. Heard(a)'
      BY <2>1, <3>1 DEF Heard
    <3>3. Known(a)'
      BY <1>2, <2>1, <2>3, <3>1 DEF Known
    <3> QED
      BY <3>2, <3>3
  <2> QED
    BY <1>1, <2>2, <2>3
<1>5. CASE uplink' = uplink /\ astray' = astray \cup {About(D[k]) : k \in DOMAIN D}
  <2>1. a \notin astray /\ ~Has(D, OfLoco(a))
    BY <1>5, LostMeans
  <2>2. ~Has(D, Requests(a)) /\ ~Has(D, Infos(a))
    BY <2>1, InOfLoco
  <2>3. Heard(a) /\ Known(a) /\ (SlotsHold(a) => SlotsHold(a)')
    BY <1>1, <2>1, <2>2 DEF SlotInv
  <2>4. Heard(a)'
    BY <1>5, <2>3 DEF Heard
  <2>5. Known(a)'
    BY <1>2, <1>5, <2>3 DEF Known
  <2> QED
    BY <2>4, <2>5
<1> QED
  BY <1>4, <1>5 DEF Send

\* It gives a loco a speed with the last frame that drives it, or leaves it alone.
LEMMA CommandMeant ==
  ASSUME Types, MeantInv, NEW D \in Seq(UpFrame), NEW A, Send(D, A), UNCHANGED trains,
         \A a \in Locos : meant'[a] # None /\ (a \notin astray \/ a \in A) =>
            \/ LastIn(D, Moves(a), Keeping(a, meant'[a]))
            \/ meant'[a] = meant[a] /\ ~Has(D, Moves(a)) /\ a \notin astray
  PROVE  MeantInv'
<1> SUFFICES ASSUME NEW a \in Locos, a \notin astray', meant'[a] # None
             PROVE  Kept(a)'
  BY DEF MeantInv
<1>1. PICK M, N : M = Moves(a) /\ N = Keeping(a, meant'[a])
  OBVIOUS
<1>2. uplink \in Seq(UpFrame)
  BY DEF Types
<1>3. ASSUME meant'[a] = meant[a], a \notin astray, ~Has(D, M), uplink' = uplink \o D \/ uplink' = uplink
      PROVE  Kept(a)'
  <2>1. Kept(a)
    BY <1>3 DEF MeantInv
  <2>2. CASE ~Has(uplink, M) /\ Good(meant[a], trains[a].steps, trains[a].db3)
    <3>1. ~Has(uplink', M)
      BY <1>2, <1>3, <2>2, SentHas
    <3>2. Good(meant'[a], trains'[a].steps, trains'[a].db3)
      BY <1>3, <2>2
    <3> QED
      BY <1>1, <3>1, <3>2 DEF Kept
  <2>3. CASE LastIn(uplink, M, N)
    <3>1. LastIn(uplink', M, N)
      BY <1>2, <1>3, <2>3, SentLast
    <3> QED
      BY <1>1, <3>1 DEF Kept
  <2> QED
    BY <1>1, <1>3, <2>1, <2>2, <2>3 DEF Kept
<1>4. CASE uplink' = uplink \o D /\ astray' = astray \ A
  <2>1. LastIn(D, M, N) \/ (meant'[a] = meant[a] /\ ~Has(D, M) /\ a \notin astray)
    BY <1>1, <1>4
  <2>2. CASE LastIn(D, M, N)
    <3>1. LastIn(uplink', M, N)
      BY <1>2, <1>4, <2>2, SentLast
    <3> QED
      BY <1>1, <3>1 DEF Kept
  <2> QED
    BY <1>3, <1>4, <2>1, <2>2
<1>5. CASE uplink' = uplink /\ astray' = astray \cup {About(D[k]) : k \in DOMAIN D}
  <2>1. a \notin astray /\ ~Has(D, M)
    BY <1>1, <1>5, LostMeans, InOfLoco
  <2>2. ~LastIn(D, M, N)
    BY <2>1, LastHas
  <2>3. meant'[a] = meant[a]
    BY <1>1, <2>1, <2>2
  <2> QED
    BY <1>3, <1>5, <2>1, <2>3
<1> QED
  BY <1>4, <1>5 DEF Send

LEMMA CommandPower ==
  ASSUME Types, PowerInv, NEW D \in Seq(UpFrame), NEW A, None \notin A, Send(D, A),
         UNCHANGED <<downlink, listening, power, track>>, ~Has(D, Subscriptions)
  PROVE  PowerInv'
<1> SUFFICES ASSUME None \notin astray'
             PROVE  Subscribed' /\ PowerKnown'
  BY DEF PowerInv
<1>1. None \notin astray
  BY DEF Send
<1>2. Subscribed /\ PowerKnown /\ uplink \in Seq(UpFrame)
  BY <1>1 DEF PowerInv, Types
<1>3. CASE uplink' = uplink \o D
  <2>1. \A M : Has(uplink, M) => Has(uplink', M)
    BY <1>2, <1>3, SentHas
  <2>2. \A N : LastIn(uplink, Subscriptions, N) => LastIn(uplink', Subscriptions, N)
    BY <1>2, <1>3, SentLast
  <2>3. Subscribed'
    BY <1>2, <2>1, <2>2 DEF Subscribed
  <2>4. PowerKnown'
    BY <1>2, <2>1 DEF PowerKnown
  <2> QED
    BY <2>3, <2>4
<1>4. CASE uplink' = uplink
  BY <1>2, <1>4 DEF Subscribed, PowerKnown
<1> QED
  BY <1>3, <1>4 DEF Send

-----------------------------------------------------------------------------
(* Commands that change slots of a throttle where they are.                *)

LEMMA SlotsShape ==
  ASSUME Types
  PROVE  /\ Len(locos) \in Nat /\ DOMAIN locos = 1..Len(locos)
         /\ \A i \in DOMAIN locos : locos[i] \in Slot /\ locos[i].addr \in Locos
                                    /\ locos[i].throttle \in Throttles
<1>1. locos \in Seq(Slot)
  BY DEF Types
<1>2. Len(locos) \in Nat /\ DOMAIN locos = 1..Len(locos) /\ \A i \in DOMAIN locos : locos[i] \in Slot
  BY <1>1, QueueShape
<1> QED
  BY <1>2 DEF Slot

\* Only slots of S change, and none of them its throttle or loco.
Changed(L, S) ==
  /\ L = [i \in DOMAIN locos |-> L[i]]
  /\ \A i \in DOMAIN locos : /\ L[i] \in Slot
                             /\ L[i].throttle = locos[i].throttle /\ L[i].addr = locos[i].addr
                             /\ i \notin S => L[i] = locos[i]

LEMMA ChangedTypes ==
  ASSUME Types, NEW S, NEW L, Changed(L, S)
  PROVE  L \in Seq(Slot) /\ Len(L) = Len(locos) /\ DOMAIN L = DOMAIN locos
<1>1. Len(locos) \in Nat /\ DOMAIN locos = 1..Len(locos)
  BY SlotsShape
<1>2. L = [i \in 1..Len(locos) |-> L[i]] /\ \A i \in 1..Len(locos) : L[i] \in Slot
  BY <1>1 DEF Changed
<1> QED
  BY <1>1, <1>2

LEMMA FramesSent ==
  ASSUME Types, NEW S \in SUBSET (DOMAIN locos), NEW F, NEW D, D = InOrder(S, F),
         \A i \in DOMAIN locos : F[i] \in UpFrame, F = [i \in DOMAIN locos |-> F[i]],
         \A i \in S : F[i] \in OfLoco(locos[i].addr)
  PROVE  /\ D \in Seq(UpFrame) /\ ~Has(D, Subscriptions)
         /\ \A M : Has(D, M) <=> \E i \in S : F[i] \in M
<1>1. Len(locos) \in Nat /\ DOMAIN locos = 1..Len(locos)
  BY SlotsShape
<1>2. F \in [1..Len(locos) -> UpFrame] /\ S \in SUBSET (1..Len(locos))
  BY <1>1
<1>3. D \in Seq(UpFrame)
  BY <1>1, <1>2, InOrderHas
<1>4. \A M : Has(D, M) <=> \E i \in S : F[i] \in M
  <2>1. Picks(D, S, F)
    BY <1>1, <1>2, InOrderHas
  <2> QED
    BY <2>1 DEF Picks, Has
<1>5. \A i \in S : F[i] \notin Subscriptions
  BY FramesPart
<1> QED
  BY <1>3, <1>4, <1>5

LEMMA ChangedSlots ==
  ASSUME Types, SlotInv, PowerInv, NEW S \in SUBSET (DOMAIN locos), Changed(locos', S),
         NEW D \in Seq(UpFrame), ~Has(D, Subscriptions),
         \A i \in S : Has(D, Requests(locos[i].addr)), Send(D, {}),
         UNCHANGED <<track, downlink, stationVars>>
  PROVE  SlotInv' /\ PowerInv'
<1>1. PowerInv'
  <2>1. UNCHANGED <<downlink, listening, power, track>> /\ None \notin {}
    BY DEF stationVars
  <2> QED
    BY <2>1, CommandPower
<1>2. DOMAIN locos' = DOMAIN locos
  BY ChangedTypes
<1>3. ASSUME NEW a \in Locos, HasSlot(a)'
      PROVE  HasSlot(a) /\ (Has(D, Requests(a)) \/ (SlotsHold(a) => SlotsHold(a)'))
  <2>1. HasSlot(a)
    BY <1>2, <1>3 DEF HasSlot, Changed
  <2>2. CASE \E i \in S : locos[i].addr = a
    BY <2>1, <2>2
  <2>3. CASE ~ \E i \in S : locos[i].addr = a
    <3>1. \A i \in DOMAIN locos : locos'[i].addr = a => locos'[i] = locos[i] /\ locos[i].addr = a
      BY <2>3 DEF Changed
    <3>2. trains' = trains
      BY DEF stationVars
    <3>3. SlotsHold(a) => SlotsHold(a)'
      BY <1>2, <3>1, <3>2 DEF SlotsHold, Holds
    <3> QED
      BY <2>1, <3>3
  <2> QED
    BY <2>2, <2>3
<1>4. UNCHANGED <<downlink, trains, watched>>
  BY DEF stationVars
<1>5. SlotInv'
  BY <1>3, <1>4, CommandSlots
<1> QED
  BY <1>1, <1>5

\* The panel of the throttle takes what its slots take.
LEMMA ChangedShown ==
  ASSUME Types, ShownInv, NEW S, Changed(locos', S), UNCHANGED refused,
         \A t \in Throttles : /\ shown'[t].locos = shown[t].locos
                              /\ shown[t].locos = {} => shown'[t] = shown[t],
         \A i \in DOMAIN locos : shown[locos[i].throttle].locos = {locos[i].addr} =>
            Shows(shown'[locos[i].throttle], locos'[i])
  PROVE  ShownInv'
<1>1. DOMAIN locos' = DOMAIN locos /\ Empty' = Empty
  BY ChangedTypes DEF Empty
<1>2. \A i \in DOMAIN locos : locos[i].throttle \in Throttles
  BY SlotsShape
<1>3. (\A t \in Throttles : shown[t].locos = {} => shown[t] = Empty)'
  BY <1>1 DEF ShownInv
<1>4. ASSUME NEW i \in DOMAIN locos
      PROVE  /\ locos'[i].addr \in shown'[locos'[i].throttle].locos
             /\ shown'[locos'[i].throttle].locos = {locos'[i].addr} =>
                  Shows(shown'[locos'[i].throttle], locos'[i])
  <2>1. locos'[i].throttle = locos[i].throttle /\ locos'[i].addr = locos[i].addr
    BY DEF Changed
  <2>2. shown'[locos[i].throttle].locos = shown[locos[i].throttle].locos
    BY <1>2
  <2> QED
    BY <2>1, <2>2 DEF ShownInv
<1>5. ASSUME NEW t \in Throttles, NEW a \in shown'[t].locos
      PROVE  <<t, a>> \in refused' \/ \E i \in DOMAIN locos : locos'[i].throttle = t /\ locos'[i].addr = a
  BY <1>5 DEF ShownInv, Changed
<1> QED
  BY <1>1, <1>3, <1>4, <1>5 DEF ShownInv

\* All of it, for a command that changes slots S of throttle t and makes p its panel.
LEMMA ChangedStep ==
  ASSUME Inv, NEW t \in Throttles, shown[t].locos # {},
         NEW S \in SUBSET SlotsOf(t), Changed(locos', S),
         NEW D \in Seq(UpFrame), ~Has(D, Subscriptions),
         \A i \in S : Has(D, Requests(locos[i].addr)), Send(D, {}),
         UNCHANGED <<track, downlink, stationVars, refused>>,
         NEW p \in Panel, shown' = [shown EXCEPT ![t] = p], p.locos = shown[t].locos,
         \A i \in SlotsOf(t) : shown[t].locos = {locos[i].addr} /\ Shows(shown[t], locos[i]) =>
            Shows(p, locos'[i]),
         meant' \in [Locos -> 0..126 \cup {None}],
         \A a \in Locos : meant'[a] # None /\ a \notin astray =>
            \/ LastIn(D, Moves(a), Keeping(a, meant'[a]))
            \/ meant'[a] = meant[a] /\ ~Has(D, Moves(a))
  PROVE  Inv'
<1> USE DEF Inv
<1>1. S \in SUBSET (DOMAIN locos)
  BY DEF SlotsOf
<1>2. SlotInv' /\ PowerInv'
  BY <1>1, ChangedSlots
<1>3. ShownInv'
  <2>1. shown'[t] = p /\ \A u \in Throttles : u # t => shown'[u] = shown[u]
    BY DEF Types
  <2>2. \A u \in Throttles : /\ shown'[u].locos = shown[u].locos
                             /\ shown[u].locos = {} => shown'[u] = shown[u]
    BY <2>1
  <2>3. ASSUME NEW i \in DOMAIN locos, shown[locos[i].throttle].locos = {locos[i].addr}
        PROVE  Shows(shown'[locos[i].throttle], locos'[i])
    <3>1. Shows(shown[locos[i].throttle], locos[i])
      BY <2>3 DEF ShownInv
    <3>2. locos[i].throttle \in Throttles
      BY SlotsShape
    <3>3. CASE locos[i].throttle = t
      <4>1. i \in SlotsOf(t)
        BY <3>3 DEF SlotsOf
      <4> QED
        BY <2>1, <2>3, <3>1, <3>3, <4>1
    <3>4. CASE locos[i].throttle # t
      <4>1. i \notin S
        BY <3>4 DEF SlotsOf
      <4> QED
        BY <2>1, <3>1, <3>2, <3>4, <4>1 DEF Changed
    <3> QED
      BY <3>3, <3>4
  <2> QED
    BY <2>2, <2>3, ChangedShown
<1>4. MeantInv'
  <2>1. trains' = trains
    BY DEF stationVars
  <2>2. \A a \in Locos : meant'[a] # None /\ (a \notin astray \/ a \in {}) =>
            \/ LastIn(D, Moves(a), Keeping(a, meant'[a]))
            \/ meant'[a] = meant[a] /\ ~Has(D, Moves(a)) /\ a \notin astray
    OBVIOUS
  <2> QED
    BY <2>1, <2>2, CommandMeant
<1>5. Types'
  <2>1. uplink' \in Seq(UpFrame)
    BY SendTypes DEF Types
  <2>2. locos' \in Seq(Slot) /\ Len(locos') <= MaxLocos
    BY ChangedTypes DEF Types
  <2>3. shown' \in [Throttles -> Panel]
    BY DEF Types
  <2> QED
    BY <2>1, <2>2, <2>3 DEF Types, stationVars
<1> QED
  BY <1>2, <1>3, <1>4, <1>5

LEMMA MovesOf ==
  ASSUME NEW a, NEW b, NEW f \in OfLoco(b), f \in Moves(a)
  PROVE  b = a
BY FramesPart DEF OfLoco, Requests

\* A slot that is sent with a speed and a direction.
LEMMA SlotDrives ==
  ASSUME NEW s \in Slot, NEW v \in 0..126, NEW d \in Dirs,
         NEW f, f = <<"drive", s.addr, s.steps, EncodeDb3(v, d, s.steps)>>
  PROVE  /\ f \in Moves(s.addr) /\ f \in Requests(s.addr) /\ f \in OfLoco(s.addr)
         /\ f \in UpFrame /\ f \in Keeping(s.addr, v)
<1>1. s.addr \in Locos /\ s.steps \in Steps
  BY DEF Slot
<1>2. PICK b : b = EncodeDb3(v, d, s.steps)
  BY Zenon
<1>3. b \in 0..255 /\ Good(v, s.steps, b)
  BY Zenon, <1>1, <1>2, EncodesBoth, GoodAtFirst
<1>4. f \in Drives(s.addr) /\ f \in Moves(s.addr) /\ f \in Requests(s.addr) /\ f \in OfLoco(s.addr)
      /\ f \in UpFrame /\ f[3] = s.steps /\ f[4] = b
  BY <1>1, <1>2, <1>3 DEF Drives, Moves, Requests, OfLoco, UpFrame
<1> QED
  BY <1>3, <1>4 DEF Keeping

LEMMA SpeedStep ==
  ASSUME Inv, NEW t \in Throttles, NEW v \in Speeds, SetSpeed(t, v)
  PROVE  Inv'
<1> USE DEF Inv
<1>1. v \in 0..126
  BY Z21Assumption
<1> DEFINE S == SlotsOf(t)
           F == [i \in DOMAIN locos |-> Frame([locos[i] EXCEPT !.speed = v])]
           D == InOrder(S, F)
           p == [shown[t] EXCEPT !.speed = v]
<1>2. Len(locos) \in Nat /\ DOMAIN locos = 1..Len(locos) /\ S \in SUBSET (DOMAIN locos)
  BY SlotsShape DEF SlotsOf
<1>3. ASSUME NEW i \in DOMAIN locos
      PROVE  /\ F[i] \in Moves(locos[i].addr) /\ F[i] \in Requests(locos[i].addr)
             /\ F[i] \in OfLoco(locos[i].addr) /\ F[i] \in UpFrame /\ F[i] \in Keeping(locos[i].addr, v)
  <2>1. locos[i] \in Slot /\ locos[i].dir \in Dirs
    BY SlotsShape DEF Slot
  <2>2. F[i] = <<"drive", locos[i].addr, locos[i].steps, EncodeDb3(v, locos[i].dir, locos[i].steps)>>
    BY <2>1 DEF Frame, Slot
  <2> QED
    BY <1>1, <2>1, <2>2, SlotDrives
<1>4. D = InOrder(S, F)
  OBVIOUS
<1>5. F = [i \in DOMAIN locos |-> F[i]] /\ F \in [1..Len(locos) -> UpFrame]
  BY <1>2, <1>3
<1>6. PICK d : d = D
  OBVIOUS
<1> HIDE DEF F, D
<1>7. /\ d \in Seq(UpFrame) /\ ~Has(d, Subscriptions)
      /\ \A M : Has(d, M) <=> \E i \in S : F[i] \in M
  BY <1>2, <1>3, <1>4, <1>5, <1>6, FramesSent
<1>8. Send(d, {}) /\ UNCHANGED <<track, downlink, stationVars, refused>> /\ shown[t].locos # {}
  BY <1>6 DEF SetSpeed, D, F
<1>9. /\ locos' = [i \in DOMAIN locos |-> IF i \in S THEN [locos[i] EXCEPT !.speed = v] ELSE locos[i]]
      /\ shown' = [shown EXCEPT ![t] = p]
      /\ meant' = [a \in Locos |-> IF a \in Held(t) THEN v ELSE meant[a]]
  BY DEF SetSpeed
<1>10. \A i \in DOMAIN locos : locos[i] \in Slot
  BY SlotsShape
<1>11. Changed(locos', S)
  <2> HIDE DEF S, p
  <2> QED
    BY <1>1, <1>9, <1>10 DEF Changed, Slot
<1>12. shown[t] \in Panel
  BY DEF Types
<1>13. p \in Panel /\ p.locos = shown[t].locos
  BY <1>1, <1>12 DEF Panel
<1>14. ASSUME NEW i \in S, Shows(shown[t], locos[i])
       PROVE  Shows(p, locos'[i])
  <2>1. locos'[i] = [locos[i] EXCEPT !.speed = v] /\ locos[i] \in Slot
    BY <1>2, <1>9, <1>10
  <2> QED
    BY <1>12, <1>14, <2>1 DEF Shows, Panel, Slot
<1>15. meant' \in [Locos -> 0..126 \cup {None}]
  BY <1>1, <1>9 DEF Types
<1>16. ASSUME NEW a \in Locos
       PROVE  \/ LastIn(d, Moves(a), Keeping(a, meant'[a]))
              \/ meant'[a] = meant[a] /\ ~Has(d, Moves(a))
  <2>1. \A i \in S : F[i] \in Moves(a) => locos[i].addr = a
    BY <1>2, <1>3, MovesOf
  <2>2. CASE a \in Held(t)
    <3>1. meant'[a] = v
      BY <1>9, <2>2
    <3>2. \E i \in S : F[i] \in Moves(a)
      BY <1>2, <1>3, <2>2 DEF Held
    <3>3. \A i \in S : F[i] \in Moves(a) => F[i] \in Keeping(a, v)
      BY <1>2, <1>3, <2>1
    <3> QED
      BY <1>2, <1>4, <1>5, <1>6, <3>1, <3>2, <3>3, InOrderLast
  <2>3. CASE a \notin Held(t)
    BY <1>7, <1>9, <2>1, <2>3 DEF Held
  <2> QED
    BY <2>2, <2>3
<1>17. \A i \in S : Has(d, Requests(locos[i].addr))
  BY <1>2, <1>3, <1>7
<1> HIDE DEF p, Inv
<1> QED
  BY <1>7, <1>8, <1>9, <1>11, <1>13, <1>14, <1>15, <1>16, <1>17, ChangedStep

LEMMA FunctionStep ==
  ASSUME Inv, NEW t \in Throttles, NEW on \in BOOLEAN, SetFunction(t, on)
  PROVE  Inv'
<1> USE DEF Inv
<1> DEFINE S == SlotsOf(t)
           F == [i \in DOMAIN locos |-> <<"func", locos[i].addr, on>>]
           D == InOrder(S, F)
           p == [shown[t] EXCEPT !.func = on]
<1>1. Len(locos) \in Nat /\ DOMAIN locos = 1..Len(locos) /\ S \in SUBSET (DOMAIN locos)
  BY SlotsShape DEF SlotsOf
<1>2. ASSUME NEW i \in DOMAIN locos
      PROVE  /\ F[i] \in Requests(locos[i].addr)
             /\ F[i] \in OfLoco(locos[i].addr) /\ F[i] \in UpFrame /\ \A a : F[i] \notin Moves(a)
  <2>1. locos[i].addr \in Locos
    BY SlotsShape
  <2> QED
    BY <2>1 DEF Requests, OfLoco, UpFrame, Moves, Drives
<1>3. D = InOrder(S, F)
  OBVIOUS
<1>4. F = [i \in DOMAIN locos |-> F[i]]
  BY <1>1, <1>2
<1>5. PICK d : d = D
  OBVIOUS
<1> HIDE DEF F, D
<1>6. /\ d \in Seq(UpFrame) /\ ~Has(d, Subscriptions)
      /\ \A M : Has(d, M) <=> \E i \in S : F[i] \in M
  BY <1>1, <1>2, <1>3, <1>4, <1>5, FramesSent
<1>7. Send(d, {}) /\ UNCHANGED <<track, downlink, stationVars, refused, meant>> /\ shown[t].locos # {}
  BY <1>5 DEF SetFunction, D, F
<1>8. /\ locos' = [i \in DOMAIN locos |-> IF i \in S THEN [locos[i] EXCEPT !.func = on] ELSE locos[i]]
      /\ shown' = [shown EXCEPT ![t] = p]
  BY DEF SetFunction
<1>9. \A i \in DOMAIN locos : locos[i] \in Slot
  BY SlotsShape
<1>10. Changed(locos', S)
  <2> HIDE DEF S, p
  <2> QED
    BY <1>8, <1>9 DEF Changed, Slot
<1>11. shown[t] \in Panel
  BY DEF Types
<1>12. p \in Panel /\ p.locos = shown[t].locos
  BY <1>11 DEF Panel
<1>13. ASSUME NEW i \in S, Shows(shown[t], locos[i])
       PROVE  Shows(p, locos'[i])
  <2>1. locos'[i] = [locos[i] EXCEPT !.func = on] /\ locos[i] \in Slot
    BY <1>1, <1>8, <1>9
  <2> QED
    BY <1>11, <1>13, <2>1 DEF Shows, Panel, Slot
<1>14. meant' \in [Locos -> 0..126 \cup {None}]
  BY <1>7 DEF Types
<1>15. \A a \in Locos : meant'[a] = meant[a] /\ ~Has(d, Moves(a))
  BY <1>1, <1>2, <1>6, <1>7
<1>16. \A i \in S : Has(d, Requests(locos[i].addr))
  BY <1>1, <1>2, <1>6
<1> HIDE DEF p, Inv
<1> QED
  BY <1>6, <1>7, <1>8, <1>10, <1>12, <1>13, <1>14, <1>15, <1>16, ChangedStep

\* Turning a loco about while nothing of it is under way sends the speed its slot
\* holds, which is how the station runs it.
LEMMA DirectionStep ==
  ASSUME Inv, NEW t \in Throttles, NEW only \in Locos \cup {None}, NEW dir \in Dirs,
         SetDirection(t, only, dir)
  PROVE  Inv'
<1> USE DEF Inv
<1> DEFINE S == {i \in SlotsOf(t) : only = None \/ locos[i].addr = only}
           F == [i \in DOMAIN locos |-> Frame([locos[i] EXCEPT !.dir = dir])]
           D == InOrder(S, F)
           p == [shown[t] EXCEPT !.dir = dir]
<1>1. /\ Len(locos) \in Nat /\ DOMAIN locos = 1..Len(locos)
      /\ S \in SUBSET (DOMAIN locos) /\ S \in SUBSET SlotsOf(t)
  BY SlotsShape DEF SlotsOf
<1>2. ASSUME NEW i \in DOMAIN locos
      PROVE  /\ F[i] \in Moves(locos[i].addr) /\ F[i] \in Requests(locos[i].addr)
             /\ F[i] \in OfLoco(locos[i].addr) /\ F[i] \in UpFrame
             /\ F[i] = <<"drive", locos[i].addr, locos[i].steps,
                         EncodeDb3(locos[i].speed, dir, locos[i].steps)>>
  <2>1. locos[i] \in Slot /\ locos[i].speed \in 0..126
    BY SlotsShape DEF Slot
  <2>2. F[i] = <<"drive", locos[i].addr, locos[i].steps,
                 EncodeDb3(locos[i].speed, dir, locos[i].steps)>>
    BY <2>1 DEF Frame, Slot
  <2> QED
    BY <2>1, <2>2, SlotDrives
<1>3. D = InOrder(S, F)
  OBVIOUS
<1>4. F = [i \in DOMAIN locos |-> F[i]] /\ F \in [1..Len(locos) -> UpFrame]
  BY <1>1, <1>2
<1>5. PICK d : d = D
  OBVIOUS
<1>6. /\ locos' = [i \in DOMAIN locos |-> IF i \in S THEN [locos[i] EXCEPT !.dir = dir] ELSE locos[i]]
      /\ shown' = [shown EXCEPT ![t] = p]
      /\ meant' = [a \in Locos |-> IF (\E i \in S : locos[i].addr = a) /\ ~Quiet(a) THEN None
                                   ELSE meant[a]]
      /\ only \in shown[t].locos \cup {None}
  BY DEF SetDirection
<1> HIDE DEF F, D
<1>7. Send(d, {}) /\ UNCHANGED <<track, downlink, stationVars, refused>> /\ shown[t].locos # {}
  BY <1>5 DEF SetDirection, D, F
<1>8. /\ \A i \in S : i \in SlotsOf(t)
      /\ \A i \in SlotsOf(t) : only = None \/ locos[i].addr = only => i \in S
  OBVIOUS
<1> HIDE DEF S
<1>9. /\ d \in Seq(UpFrame) /\ ~Has(d, Subscriptions)
      /\ \A M : Has(d, M) <=> \E i \in S : F[i] \in M
  BY <1>1, <1>2, <1>3, <1>4, <1>5, FramesSent
<1>10. \A i \in DOMAIN locos : locos[i] \in Slot
  BY SlotsShape
<1>11. Changed(locos', S)
  <2> HIDE DEF p
  <2> QED
    BY <1>6, <1>10 DEF Changed, Slot
<1>12. shown[t] \in Panel
  BY DEF Types
<1>13. p \in Panel /\ p.locos = shown[t].locos
  BY <1>12 DEF Panel
<1>14. ASSUME NEW i \in SlotsOf(t), shown[t].locos = {locos[i].addr}, Shows(shown[t], locos[i])
       PROVE  Shows(p, locos'[i])
  <2>1. i \in S /\ i \in DOMAIN locos
    <3>1. only = None \/ only = locos[i].addr
      BY <1>6, <1>14
    <3>2. i \in S
      BY <1>8, <3>1
    <3> QED
      BY <3>2 DEF SlotsOf
  <2>2. locos'[i] = [locos[i] EXCEPT !.dir = dir] /\ locos[i] \in Slot
    BY <1>6, <1>10, <2>1
  <2> QED
    BY <1>12, <1>14, <2>2 DEF Shows, Panel, Slot
<1>15. meant' \in [Locos -> 0..126 \cup {None}]
  BY <1>6 DEF Types
<1>16. ASSUME NEW a \in Locos, meant'[a] # None, a \notin astray
       PROVE  \/ LastIn(d, Moves(a), Keeping(a, meant'[a]))
              \/ meant'[a] = meant[a] /\ ~Has(d, Moves(a))
  <2>1. \A i \in S : F[i] \in Moves(a) => locos[i].addr = a
    BY <1>1, <1>2, MovesOf
  <2>2. CASE \E i \in S : locos[i].addr = a
    <3>1. meant'[a] = meant[a] /\ Quiet(a)
      BY <1>6, <1>16, <2>2
    <3>2. ~Has(uplink, OfLoco(a)) /\ ~Has(downlink, Reports(a))
      BY <3>1, QuietMeans DEF Types
    <3>3. /\ ~Has(uplink, Requests(a)) /\ ~Has(uplink, Moves(a))
          /\ ~LastIn(downlink, Reports(a), {Exact(a)})
          /\ ~LastIn(uplink, Moves(a), Keeping(a, meant[a]))
      BY <3>2, InOfLoco, LastHas
    <3>4. HasSlot(a)
      BY <1>1, <2>2 DEF HasSlot
    <3>5. SlotsHold(a)
      BY <1>16, <3>3, <3>4 DEF SlotInv, Known
    <3>6. Good(meant[a], trains[a].steps, trains[a].db3)
      BY <1>16, <3>1, <3>3 DEF MeantInv, Kept
    <3>7. meant[a] \in 0..126 /\ trains[a].steps \in Steps /\ trains[a].db3 \in 0..255
      BY <1>16, <3>1 DEF Types, Train
    <3>8. \E i \in S : F[i] \in Moves(a)
      BY <1>1, <1>2, <2>2
    <3>9. ASSUME NEW i \in S, F[i] \in Moves(a)
          PROVE  F[i] \in Keeping(a, meant'[a])
      <4>1. i \in DOMAIN locos /\ locos[i].addr = a
        BY <1>1, <2>1, <3>9
      <4>2. locos[i].steps = trains[a].steps /\ locos[i].speed = SpeedOf(trains[a].steps, trains[a].db3)
        BY <3>5, <4>1 DEF SlotsHold, Holds
      <4>3. PICK b : b = EncodeDb3(locos[i].speed, dir, locos[i].steps)
        BY SMTT(60)
      <4>4. Good(meant[a], trains[a].steps, b)
        BY ZenonT(90), <3>6, <3>7, <4>2, <4>3, GoodAgain
      <4>5. locos[i].speed \in 0..126 /\ locos[i].steps \in Steps
        BY <1>10, <4>1 DEF Slot
      <4>6. b \in 0..255
        BY <4>3, <4>5, EncodesBoth
      <4>7. F[i] = <<"drive", a, trains[a].steps, b>>
        BY <1>2, <4>1, <4>2, <4>3
      <4> QED
        BY <3>1, <3>7, <4>4, <4>6, <4>7 DEF Keeping, Drives
    <3> QED
      BY <1>1, <1>3, <1>4, <1>5, <3>8, <3>9, InOrderLast
  <2>3. CASE ~ \E i \in S : locos[i].addr = a
    BY <1>9, <1>6, <2>1, <2>3
  <2> QED
    BY <2>2, <2>3
<1>17. \A i \in S : Has(d, Requests(locos[i].addr))
  BY <1>1, <1>2, <1>9
<1>18. S \in SUBSET SlotsOf(t)
  BY <1>1
<1> HIDE DEF p, Inv
<1> QED
  BY <1>9, <1>7, <1>6, <1>11, <1>13, <1>14, <1>15, <1>16, <1>17, <1>18, ChangedStep

\* The last frame about each of the slots is the drive that stops it.
LEMMA HaltsStop ==
  ASSUME NEW q \in Seq(Slot), NEW D, D = Halts(q)
  PROVE  /\ D \in Seq(UpFrame) /\ ~Has(D, Subscriptions)
         /\ \A j \in DOMAIN q : Has(D, Requests(q[j].addr))
         /\ \A a : Has(D, Moves(a)) => \E j \in DOMAIN q : q[j].addr = a
         /\ \A j \in DOMAIN q : LastIn(D, Moves(q[j].addr), Keeping(q[j].addr, 0))
<1>1. PICK n \in Nat : n = Len(q)
  BY QueueShape
<1>2. DOMAIN q = 1..n /\ \A j \in 1..n : q[j] \in Slot
  BY <1>1, QueueShape
<1> DEFINE byte(j) == (IF q[j].dir = "fwd" THEN 128 ELSE 0) + 1
<1>3. /\ D = [k \in 1..(2 * n) |-> D[k]] /\ DOMAIN D = 1..(2 * n)
      /\ \A k \in 1..(2 * n) :
          D[k] = IF k % 2 = 1 THEN <<"halt", q[(k + 1) \div 2].addr>>
                 ELSE <<"drive", q[(k + 1) \div 2].addr, q[(k + 1) \div 2].steps, byte((k + 1) \div 2)>>
  BY <1>1 DEF Halts
<1>4. ASSUME NEW j \in 1..n
      PROVE  /\ q[j].addr \in Locos
             /\ <<"halt", q[j].addr>> \in Moves(q[j].addr)
             /\ <<"drive", q[j].addr, q[j].steps, byte(j)>> \in Moves(q[j].addr)
             /\ <<"drive", q[j].addr, q[j].steps, byte(j)>> \in Keeping(q[j].addr, 0)
  <2>1. q[j].addr \in Locos /\ q[j].steps \in Steps /\ q[j].dir \in Dirs
    BY <1>2 DEF Slot
  <2>2. byte(j) \in 0..255 /\ Good(0, q[j].steps, byte(j))
    BY <2>1, GoodHalt
  <2> HIDE DEF byte
  <2> QED
    BY <2>1, <2>2 DEF Moves, Drives, Keeping
<1> HIDE DEF byte
<1>5. ASSUME NEW k \in 1..(2 * n)
      PROVE  /\ (k + 1) \div 2 \in 1..n
             /\ D[k] \in Moves(q[(k + 1) \div 2].addr)
             /\ q[(k + 1) \div 2].addr \in Locos
             /\ k % 2 # 1 => D[k] \in Keeping(q[(k + 1) \div 2].addr, 0)
             /\ k % 2 = 1 => k + 1 \in 1..(2 * n) /\ D[k + 1] \in Moves(q[(k + 1) \div 2].addr)
  <2>1. (k + 1) \div 2 \in 1..n
    OBVIOUS
  <2>2. k % 2 = 1 => k + 1 \in 1..(2 * n) /\ (k + 1) % 2 # 1 /\ (k + 1 + 1) \div 2 = (k + 1) \div 2
    OBVIOUS
  <2>3. PICK j \in 1..n : j = (k + 1) \div 2
    BY <2>1
  <2>4. D[k] = IF k % 2 = 1 THEN <<"halt", q[j].addr>> ELSE <<"drive", q[j].addr, q[j].steps, byte(j)>>
    BY <1>3, <2>3
  <2>5. k % 2 = 1 => D[k + 1] = <<"drive", q[j].addr, q[j].steps, byte(j)>>
    BY <1>3, <2>2, <2>3
  <2> QED
    BY <1>4, <2>2, <2>3, <2>4, <2>5
<1>6. \A a, b : \A f \in Moves(b) : f \in Moves(a) => b = a
  BY MovesOf DEF OfLoco, Requests
<1>7. \A b \in Locos : \A f \in Moves(b) : f \in UpFrame /\ f \notin Subscriptions
  BY FramesPart DEF OfLoco, Requests, UpFrame
<1>8. D \in Seq(UpFrame)
  <2>1. \A k \in 1..(2 * n) : D[k] \in UpFrame
    BY <1>5, <1>7
  <2>2. 2 * n \in Nat
    OBVIOUS
  <2> QED
    BY <1>3, <2>1, <2>2, ListIs
<1>9. ~Has(D, Subscriptions)
  BY <1>3, <1>5, <1>7 DEF Has
<1>10. ASSUME NEW a, Has(D, Moves(a))
       PROVE  \E j \in 1..n : q[j].addr = a
  <2>1. PICK k \in 1..(2 * n) : D[k] \in Moves(a)
    BY <1>3, <1>10 DEF Has
  <2>2. (k + 1) \div 2 \in 1..n /\ D[k] \in Moves(q[(k + 1) \div 2].addr)
    BY <1>5
  <2>3. q[(k + 1) \div 2].addr = a
    BY <1>6, <2>1, <2>2
  <2> QED
    BY <2>2, <2>3
<1>11. ASSUME NEW j \in 1..n
       PROVE  Has(D, Moves(q[j].addr))
  <2>1. 2 * j \in 1..(2 * n) /\ (2 * j + 1) \div 2 = j
    OBVIOUS
  <2>2. D[2 * j] \in Moves(q[j].addr)
    BY <1>5, <2>1
  <2> QED
    BY <1>3, <2>1, <2>2 DEF Has
<1>12. \A j \in 1..n : Has(D, Requests(q[j].addr))
  BY <1>11 DEF Has, Requests
<1>13. ASSUME NEW j \in 1..n
       PROVE  LastIn(D, Moves(q[j].addr), Keeping(q[j].addr, 0))
  <2>1. ASSUME NEW k \in DOMAIN D, D[k] \in Moves(q[j].addr), D[k] \notin Keeping(q[j].addr, 0)
        PROVE  \E l \in DOMAIN D : l > k /\ D[l] \in Moves(q[j].addr)
    <3>1. q[(k + 1) \div 2].addr = q[j].addr
      BY <1>3, <1>5, <1>6, <2>1
    <3>2. k + 1 \in DOMAIN D /\ D[k + 1] \in Moves(q[j].addr)
      BY <1>3, <1>5, <2>1, <3>1
    <3>3. k \in Nat /\ k + 1 > k
      BY <1>3
    <3> QED
      BY <3>2, <3>3
  <2> QED
    BY <1>8, <1>11, <2>1, LastExists
<1> QED
  BY <1>2, <1>8, <1>9, <1>10, <1>12, <1>13

LEMMA EStopStep ==
  ASSUME Inv, NEW t \in Throttles, EStop(t)
  PROVE  Inv'
<1> USE DEF Inv
<1> DEFINE S == SlotsOf(t)
           Q == InOrder(S, locos)
           p == [shown[t] EXCEPT !.speed = 0]
<1>1. Len(locos) \in Nat /\ DOMAIN locos = 1..Len(locos) /\ S \in SUBSET (DOMAIN locos)
  BY SlotsShape DEF SlotsOf
<1>2. \A i \in DOMAIN locos : locos[i] \in Slot
  BY SlotsShape
<1>3. locos \in [1..Len(locos) -> Slot]
  BY <1>1, <1>2 DEF Types
<1>4. Q = InOrder(S, locos)
  OBVIOUS
<1>5. PICK q : q = Q
  OBVIOUS
<1>6. /\ locos' = [i \in DOMAIN locos |-> IF i \in S THEN [locos[i] EXCEPT !.speed = 0] ELSE locos[i]]
      /\ shown' = [shown EXCEPT ![t] = p]
      /\ meant' = [a \in Locos |-> IF a \in Held(t) THEN 0 ELSE meant[a]]
  BY DEF EStop
<1>7. Send(Halts(q), {}) /\ UNCHANGED <<track, downlink, stationVars, refused>> /\ shown[t].locos # {}
  BY <1>5 DEF EStop
<1> HIDE DEF Q
<1>8. q \in Seq(Slot) /\ Picks(q, S, locos)
  BY <1>1, <1>3, <1>4, <1>5, InOrderHas
<1>9. PICK d : d = Halts(q)
  OBVIOUS
<1>10. d \in Seq(UpFrame) /\ ~Has(d, Subscriptions)
  BY <1>8, <1>9, HaltsStop
<1>11. \A i \in S : Has(d, Requests(locos[i].addr))
  <2>1. \A j \in DOMAIN q : Has(d, Requests(q[j].addr))
    BY <1>8, <1>9, HaltsStop
  <2> QED
    BY <1>8, <2>1 DEF Picks
<1>12. Changed(locos', S)
  <2> HIDE DEF S, p
  <2> QED
    BY <1>2, <1>6 DEF Changed, Slot
<1>13. shown[t] \in Panel
  BY DEF Types
<1>14. p \in Panel /\ p.locos = shown[t].locos
  BY <1>13 DEF Panel
<1>15. ASSUME NEW i \in S, Shows(shown[t], locos[i])
       PROVE  Shows(p, locos'[i])
  <2>1. locos'[i] = [locos[i] EXCEPT !.speed = 0] /\ locos[i] \in Slot
    BY <1>1, <1>2, <1>6
  <2> QED
    BY <1>13, <1>15, <2>1 DEF Shows, Panel, Slot
<1>16. meant' \in [Locos -> 0..126 \cup {None}]
  BY <1>6 DEF Types
<1>17. ASSUME NEW a \in Locos
       PROVE  \/ LastIn(d, Moves(a), Keeping(a, meant'[a]))
              \/ meant'[a] = meant[a] /\ ~Has(d, Moves(a))
  <2>1. CASE a \in Held(t)
    <3>1. meant'[a] = 0 /\ \E i \in S : locos[i].addr = a
      BY <1>6, <2>1 DEF Held
    <3>2. PICK j \in DOMAIN q : q[j].addr = a
      BY <1>8, <3>1 DEF Picks
    <3>3. LastIn(d, Moves(q[j].addr), Keeping(q[j].addr, 0))
      BY <1>8, <1>9, HaltsStop
    <3> QED
      BY <3>1, <3>2, <3>3
  <2>2. CASE a \notin Held(t)
    <3>1. Has(d, Moves(a)) => \E j \in DOMAIN q : q[j].addr = a
      BY <1>8, <1>9, HaltsStop
    <3>2. ~Has(d, Moves(a))
      BY <1>8, <2>2, <3>1 DEF Picks, Held
    <3> QED
      BY <1>6, <2>2, <3>2
  <2> QED
    BY <2>1, <2>2
<1>18. Send(d, {})
  BY <1>7, <1>9
<1> HIDE DEF p, Inv
<1> QED
  BY <1>6, <1>7, <1>10, <1>11, <1>12, <1>14, <1>15, <1>16, <1>17, <1>18, ChangedStep

-----------------------------------------------------------------------------
(* The other commands.                                                     *)

LEMMA AddStep ==
  ASSUME Inv, NEW t \in Throttles, NEW a \in Locos, AddLoco(t, a)
  PROVE  Inv'
<1> USE DEF Inv
<1>1. PICK n \in Nat : n = Len(locos) /\ DOMAIN locos = 1..n
  BY SlotsShape
<1>2. \A i \in 1..n : locos[i] \in Slot /\ locos[i].addr \in Locos /\ locos[i].throttle \in Throttles
  BY <1>1, SlotsShape
<1>3. PICK s : s = [throttle |-> t, addr |-> a, steps |-> 128, speed |-> 0, dir |-> "fwd", func |-> FALSE]
  OBVIOUS
<1>4. s \in Slot /\ s.throttle = t /\ s.addr = a
  BY <1>3 DEF Slot, Steps, Dirs
<1>5. a \notin shown[t].locos /\ UNCHANGED <<track, downlink, stationVars>>
  BY DEF AddLoco
<1>6. ~ \E i \in SlotsOf(t) : locos[i].addr = a
  BY <1>5 DEF ShownInv, SlotsOf
<1>7. \/ n = MaxLocos /\ locos' = locos /\ refused' = refused \cup {<<t, a>>}
      \/ n < MaxLocos /\ locos' = Append(locos, s) /\ refused' = refused
  <2>1. locos' = IF n = MaxLocos THEN locos ELSE Append(locos, s)
    BY <1>1, <1>3, <1>6 DEF AddLoco
  <2>2. refused' = IF n < MaxLocos THEN refused ELSE refused \cup {<<t, a>>}
    BY <1>1, <1>6 DEF AddLoco
  <2>3. n <= MaxLocos
    BY <1>1 DEF Types
  <2>4. (n = MaxLocos /\ ~(n < MaxLocos)) \/ (n < MaxLocos /\ n # MaxLocos)
    BY <2>3, Z21Assumption
  <2> QED
    BY <2>1, <2>2, <2>4
<1>8. PICK m \in {n, n + 1} :
        /\ DOMAIN locos' = 1..m /\ locos' \in Seq(Slot) /\ Len(locos') <= MaxLocos
        /\ \A i \in 1..n : locos'[i] = locos[i]
        /\ m = n + 1 => locos'[m] = s /\ refused' = refused
        /\ m = n => refused' = refused \cup {<<t, a>>}
  <2>1. CASE n = MaxLocos /\ locos' = locos /\ refused' = refused \cup {<<t, a>>}
    BY <1>1, <2>1 DEF Types
  <2>2. CASE n < MaxLocos /\ locos' = Append(locos, s) /\ refused' = refused
    <3>1. locos \in Seq(Slot)
      BY DEF Types
    <3>2. locos' \in Seq(Slot) /\ DOMAIN locos' = 1..(n + 1) /\ Len(locos') = n + 1
          /\ (\A i \in 1..n : locos'[i] = locos[i]) /\ locos'[n + 1] = s
      BY <1>1, <1>4, <2>2, <3>1
    <3>3. n + 1 <= MaxLocos
      BY <2>2, Z21Assumption
    <3> QED
      BY <2>2, <3>2, <3>3
  <2> QED
    BY <1>7, <2>1, <2>2
<1>9. PICK d : d = <<<<"info", a>>>>
  OBVIOUS
<1>10. <<"info", a>> \in UpFrame /\ <<"info", a>> \in Infos(a) /\ <<"info", a>> \notin Subscriptions
       /\ \A b : <<"info", a>> \notin Moves(b)
  BY DEF UpFrame, OfLoco, Requests, Infos, Subscriptions, Moves, Drives
<1>11. /\ d \in Seq(UpFrame) /\ ~Has(d, Subscriptions) /\ Has(d, Infos(a))
       /\ \A b : ~Has(d, Moves(b))
  <2>1. \A M : Has(d, M) <=> <<"info", a>> \in M
    BY <1>9, <1>10, OneFrame
  <2> QED
    BY <1>9, <1>10, <2>1, OneFrame
<1>12. Send(d, {a})
  BY <1>9 DEF AddLoco
<1>13. PowerInv'
  <2>1. None \notin {a} /\ UNCHANGED <<downlink, listening, power, track>>
    BY <1>5, Z21Assumption DEF stationVars
  <2> QED
    BY <1>11, <1>12, <2>1, CommandPower
<1>14. SlotInv'
  <2>1. UNCHANGED <<downlink, trains, watched>>
    BY <1>5 DEF stationVars
  <2>2. ASSUME NEW b \in Locos, HasSlot(b)', b # a
        PROVE  HasSlot(b) /\ (SlotsHold(b) => SlotsHold(b)')
    <3>1. \A i \in 1..m : locos'[i].addr = b => i \in 1..n /\ locos'[i] = locos[i]
      BY <1>4, <1>8, <2>2
    <3>2. HasSlot(b)
      BY <1>1, <1>8, <2>2, <3>1 DEF HasSlot
    <3>3. SlotsHold(b) => SlotsHold(b)'
      BY <1>1, <1>8, <2>1, <3>1 DEF SlotsHold, Holds
    <3> QED
      BY <3>2, <3>3
  <2>3. \A b \in Locos : HasSlot(b)' =>
            \/ Has(d, Infos(b))
            \/ /\ b \notin {a} /\ HasSlot(b)
               /\ Has(d, Requests(b)) \/ (SlotsHold(b) => SlotsHold(b)')
    BY <1>11, <2>2
  <2> QED
    BY <1>11, <1>12, <2>1, <2>3, CommandSlots
<1>15. MeantInv'
  <2>1. meant' = [meant EXCEPT ![a] = IF a \in astray THEN None ELSE meant[a]]
    BY DEF AddLoco
  <2>2. ASSUME NEW b \in Locos, meant'[b] # None, b \notin astray \/ b \in {a}
        PROVE  meant'[b] = meant[b] /\ b \notin astray
    BY <2>1, <2>2 DEF Types
  <2>3. trains' = trains
    BY <1>5 DEF stationVars
  <2> QED
    BY <1>11, <1>12, <2>2, <2>3, CommandMeant
<1>16. shown' = [shown EXCEPT ![t].locos = shown[t].locos \cup {a}]
  BY DEF AddLoco
<1>17. shown \in [Throttles -> Panel]
  BY DEF Types
<1>18. PICK p : p = shown[t]
  OBVIOUS
<1>19. /\ shown'[t].locos = p.locos \cup {a} /\ shown'[t].speed = p.speed
       /\ shown'[t].dir = p.dir /\ shown'[t].func = p.func
       /\ \A u \in Throttles : u # t => shown'[u] = shown[u]
       /\ shown' \in [Throttles -> Panel]
  BY <1>16, <1>17, <1>18 DEF Panel
<1>20. ShownInv'
  <2>1. \A u \in Throttles : shown'[u].locos = {} => shown'[u] = Empty
    BY <1>19 DEF ShownInv
  <2>2. ASSUME NEW i \in 1..m
        PROVE  /\ locos'[i].addr \in shown'[locos'[i].throttle].locos
               /\ shown'[locos'[i].throttle].locos = {locos'[i].addr} =>
                    Shows(shown'[locos'[i].throttle], locos'[i])
    <3>1. CASE i \in 1..n
      <4>1. locos'[i] = locos[i] /\ locos[i].addr \in shown[locos[i].throttle].locos
        BY <1>1, <1>8, <3>1 DEF ShownInv
      <4>2. CASE locos[i].throttle = t
        <5>1. shown'[t].locos # {locos[i].addr}
          BY <1>5, <1>18, <1>19, <4>1, <4>2
        <5> QED
          BY <1>18, <1>19, <4>1, <4>2, <5>1
      <4>3. CASE locos[i].throttle # t
        <5>1. shown'[locos[i].throttle] = shown[locos[i].throttle]
          BY <1>2, <1>19, <3>1, <4>3
        <5> QED
          BY <1>1, <3>1, <4>1, <5>1 DEF ShownInv
      <4> QED
        BY <4>2, <4>3
    <3>2. CASE i \notin 1..n
      <4>1. locos'[i] = s
        BY <1>8, <3>2
      <4>2. a \in shown'[t].locos
        BY <1>19
      <4>3. ASSUME shown'[t].locos = {a}
            PROVE  Shows(shown'[t], s)
        <5>1. p.locos = {}
          BY <1>5, <1>18, <1>19, <4>3
        <5>2. p = Empty
          BY <1>18, <5>1 DEF ShownInv
        <5> QED
          BY <1>3, <1>19, <5>2 DEF Shows, Empty
      <4> QED
        BY <1>4, <4>1, <4>2, <4>3
    <3> QED
      BY <3>1, <3>2
  <2>3. ASSUME NEW u \in Throttles, NEW b \in shown'[u].locos
        PROVE  <<u, b>> \in refused' \/ \E i \in 1..m : locos'[i].throttle = u /\ locos'[i].addr = b
    <3>1. CASE u = t /\ b = a
      BY <1>4, <1>8, <3>1
    <3>2. CASE ~(u = t /\ b = a)
      <4>1. b \in shown[u].locos
        BY <1>18, <1>19, <2>3, <3>2
      <4>2. <<u, b>> \in refused \/ \E i \in 1..n : locos[i].throttle = u /\ locos[i].addr = b
        BY <1>1, <4>1 DEF ShownInv
      <4>3. \A i \in 1..n : i \in 1..m /\ locos'[i] = locos[i]
        BY <1>8
      <4>4. refused \subseteq refused'
        BY <1>8
      <4> QED
        BY <4>2, <4>3, <4>4
    <3> QED
      BY <3>1, <3>2
  <2>4. Empty' = Empty
    BY DEF Empty
  <2> QED
    BY <1>8, <2>1, <2>2, <2>3, <2>4 DEF ShownInv
<1>21. Types'
  <2>1. uplink' \in Seq(UpFrame)
    BY <1>11, <1>12, SendTypes DEF Types
  <2>2. meant' \in [Locos -> 0..126 \cup {None}]
    BY DEF AddLoco, Types
  <2> QED
    BY <1>5, <1>8, <1>19, <2>1, <2>2 DEF Types, stationVars
<1> QED
  BY SMTT(60), <1>13, <1>14, <1>15, <1>20, <1>21

LEMMA PowerStep ==
  ASSUME Inv, NEW on \in BOOLEAN, SetTrackPower(on)
  PROVE  Inv'
<1> USE DEF Inv
<1>1. PICK d : d = <<<<"power", on>>>>
  OBVIOUS
<1>2. <<"power", on>> \in UpFrame /\ <<"power", on>> \notin Subscriptions
      /\ \A b : <<"power", on>> \notin Moves(b)
  BY DEF UpFrame, PowerAsks, Subscriptions, Moves, Drives
<1>3. d \in Seq(UpFrame) /\ ~Has(d, Subscriptions) /\ \A b : ~Has(d, Moves(b))
  <2>1. \A M : Has(d, M) <=> <<"power", on>> \in M
    BY <1>1, <1>2, OneFrame
  <2> QED
    BY <1>1, <1>2, <2>1, OneFrame
<1>4. Send(d, {}) /\ UNCHANGED <<locos, shown, track, downlink, trains, watched, listening, power, refused, meant>>
  BY <1>1 DEF SetTrackPower, adapterVars, stationVars
<1>5. PowerInv'
  BY <1>3, <1>4, CommandPower
<1>6. SlotInv'
  <2>1. \A a \in Locos : HasSlot(a)' => HasSlot(a) /\ (SlotsHold(a) => SlotsHold(a)')
    BY <1>4 DEF HasSlot, SlotsHold, Holds
  <2> QED
    BY <1>3, <1>4, <2>1, CommandSlots
<1>7. MeantInv'
  BY <1>3, <1>4, CommandMeant
<1>8. ShownInv'
  BY <1>4 DEF ShownInv, Shows, Empty
<1>9. Types'
  <2>1. uplink' \in Seq(UpFrame)
    BY <1>3, <1>4, SendTypes DEF Types
  <2> QED
    BY <1>4, <2>1 DEF Types
<1> QED
  BY <1>5, <1>6, <1>7, <1>8, <1>9

LEMMA ReleaseStep ==
  ASSUME Inv, NEW t \in Throttles, ReleaseThrottle(t)
  PROVE  Inv'
<1> USE DEF Inv
<1> DEFINE S == SlotsOf(t)
           R == DOMAIN locos \ SlotsOf(t)
           F == [i \in DOMAIN locos |-> <<"purge", locos[i].addr>>]
           D == InOrder(S, F)
<1>1. /\ Len(locos) \in Nat /\ DOMAIN locos = 1..Len(locos)
      /\ S \in SUBSET (DOMAIN locos) /\ R \in SUBSET (DOMAIN locos)
  BY SlotsShape DEF SlotsOf
<1>2. ASSUME NEW i \in DOMAIN locos
      PROVE  /\ locos[i] \in Slot /\ locos[i].throttle \in Throttles /\ locos[i].addr \in Locos
             /\ F[i] \in OfLoco(locos[i].addr) /\ F[i] \in UpFrame /\ \A a : F[i] \notin Moves(a)
  <2>1. locos[i] \in Slot /\ locos[i].throttle \in Throttles /\ locos[i].addr \in Locos
    BY SlotsShape
  <2> QED
    BY <2>1 DEF OfLoco, UpFrame, Moves, Drives
<1>3. D = InOrder(S, F)
  OBVIOUS
<1>4. F = [i \in DOMAIN locos |-> F[i]]
  OBVIOUS
<1>5. PICK d : d = D
  OBVIOUS
<1>6. locos' = InOrder(R, locos)
  BY DEF ReleaseThrottle
<1> HIDE DEF F, D
<1>7. Send(d, {}) /\ UNCHANGED <<track, downlink, stationVars, meant>>
  BY <1>5 DEF ReleaseThrottle, D, F
<1>8. /\ d \in Seq(UpFrame) /\ ~Has(d, Subscriptions)
      /\ \A M : Has(d, M) <=> \E i \in S : F[i] \in M
  BY <1>1, <1>2, <1>3, <1>4, <1>5, FramesSent
<1>9. locos' \in Seq(Slot) /\ Len(locos') <= Len(locos) /\ Picks(locos', R, locos)
  <2>1. locos \in [1..Len(locos) -> Slot]
    BY <1>1, <1>2 DEF Types
  <2>2. R \in SUBSET (1..Len(locos))
    BY <1>1
  <2> HIDE DEF R
  <2> QED
    BY <1>1, <1>6, <2>1, <2>2, InOrderHas
<1>10. /\ \A k \in DOMAIN locos' : \E i \in DOMAIN locos : locos'[k] = locos[i] /\ locos[i].throttle # t
       /\ \A i \in DOMAIN locos : locos[i].throttle # t => \E k \in DOMAIN locos' : locos'[k] = locos[i]
  BY <1>9 DEF Picks, SlotsOf
<1>11. UNCHANGED <<downlink, trains, watched, listening, power, track>>
  BY <1>7 DEF stationVars
<1>12. PowerInv'
  BY <1>7, <1>8, <1>11, CommandPower
<1>13. SlotInv'
  <2>1. \A a \in Locos : HasSlot(a)' => HasSlot(a) /\ (SlotsHold(a) => SlotsHold(a)')
    BY <1>10, <1>11 DEF HasSlot, SlotsHold, Holds
  <2> QED
    BY <1>7, <1>8, <1>11, <2>1, CommandSlots
<1>14. MeantInv'
  <2>1. \A a : ~Has(d, Moves(a))
    BY <1>1, <1>2, <1>8
  <2> QED
    BY <1>7, <1>8, <1>11, <2>1, CommandMeant
<1>15. /\ shown' = [shown EXCEPT ![t] = Empty]
       /\ refused' = {r \in refused : r[1] # t}
  BY DEF ReleaseThrottle
<1>16. /\ shown'[t] = Empty /\ \A u \in Throttles : u # t => shown'[u] = shown[u]
       /\ Empty' = Empty /\ Empty.locos = {} /\ Empty \in Panel
  BY <1>15 DEF Types, Empty, Panel, Dirs
<1>17. ShownInv'
  <2>1. \A u \in Throttles : shown'[u].locos = {} => shown'[u] = Empty
    BY <1>16 DEF ShownInv
  <2>2. ASSUME NEW k \in DOMAIN locos'
        PROVE  /\ locos'[k].addr \in shown'[locos'[k].throttle].locos
               /\ shown'[locos'[k].throttle].locos = {locos'[k].addr} =>
                    Shows(shown'[locos'[k].throttle], locos'[k])
    <3>1. PICK i \in DOMAIN locos : locos'[k] = locos[i] /\ locos[i].throttle # t
      BY <1>10
    <3>2. shown'[locos[i].throttle] = shown[locos[i].throttle]
      BY <1>2, <1>16, <3>1
    <3> QED
      BY <3>1, <3>2 DEF ShownInv
  <2>3. ASSUME NEW u \in Throttles, NEW a \in shown'[u].locos
        PROVE  \/ <<u, a>> \in refused'
               \/ \E k \in DOMAIN locos' : locos'[k].throttle = u /\ locos'[k].addr = a
    <3>1. u # t /\ a \in shown[u].locos
      BY <1>16, <2>3
    <3>2. CASE <<u, a>> \in refused
      <4>1. <<u, a>>[1] # t
        BY <3>1
      <4> QED
        BY <1>15, <3>2, <4>1
    <3>3. CASE \E i \in DOMAIN locos : locos[i].throttle = u /\ locos[i].addr = a
      BY <1>10, <3>1, <3>3
    <3> QED
      BY <3>1, <3>2, <3>3 DEF ShownInv
  <2> QED
    BY <1>16, <2>1, <2>2, <2>3 DEF ShownInv
<1>18. Types'
  <2>1. uplink' \in Seq(UpFrame)
    BY <1>7, <1>8, SendTypes DEF Types
  <2>2. Len(locos') <= MaxLocos
    <3>1. Len(locos') \in Nat
      BY <1>9, QueueShape
    <3> QED
      BY <1>1, <1>9, <3>1, Z21Assumption DEF Types
  <2>3. shown' \in [Throttles -> Panel]
    BY <1>15, <1>16 DEF Types
  <2> QED
    BY <1>7, <1>9, <1>11, <2>1, <2>2, <2>3 DEF Types
<1> QED
  BY <1>12, <1>13, <1>14, <1>17, <1>18

\* A new session asks for everything again.
LEMMA ConnectStep ==
  ASSUME Inv, Connect
  PROVE  Inv'
<1> USE DEF Inv
<1>1. PICK d : d = <<<<"flags">>, <<"status">>>>
  OBVIOUS
<1>2. DOMAIN d = 1..2 /\ d[1] = <<"flags">> /\ d[2] = <<"status">> /\ d \in Seq(UpFrame)
  BY <1>1 DEF UpFrame, Subscriptions
<1>3. /\ Send(d, {None}) /\ locos' = <<>> /\ shown' = [t \in Throttles |-> Empty]
      /\ downlink' = <<>> /\ UNCHANGED <<track, trains, watched, listening, power, meant>>
  BY <1>1 DEF Connect, stationVars
<1>4. ~(\E i \in DOMAIN locos' : TRUE)
  BY <1>3
<1>5. SlotInv'
  BY <1>4 DEF SlotInv, HasSlot
<1>6. ShownInv'
  BY <1>3, <1>4 DEF ShownInv, Empty
<1>7. MeantInv'
  <2>1. \A a : ~Has(d, Moves(a))
    BY <1>2 DEF Has, Moves, Drives
  <2>2. \A a \in Locos : a # None
    BY Z21Assumption
  <2>3. \A a \in Locos : meant'[a] # None /\ (a \notin astray \/ a \in {None}) =>
            \/ LastIn(d, Moves(a), Keeping(a, meant'[a]))
            \/ meant'[a] = meant[a] /\ ~Has(d, Moves(a)) /\ a \notin astray
    BY <1>3, <2>1, <2>2
  <2> QED
    BY <1>2, <1>3, <2>3, CommandMeant
<1>8. PowerInv'
  <2> SUFFICES ASSUME None \notin astray'
               PROVE  Subscribed' /\ PowerKnown'
    BY DEF PowerInv
  <2>1. About(d[1]) = None
    BY <1>2 DEF About
  <2>2. uplink' = uplink \o d
    BY <1>2, <1>3, <2>1 DEF Send
  <2>3. Has(d, {<<"flags">>}) /\ Has(d, PowerAsks)
    <3>1. 1 \in DOMAIN d /\ 2 \in DOMAIN d /\ d[1] = <<"flags">> /\ d[2] = <<"status">>
      BY <1>2
    <3> QED
      BY <3>1 DEF Has, PowerAsks
  <2>4. LastIn(d, Subscriptions, {<<"status">>})
    <3>1. 2 \in DOMAIN d /\ d[2] = <<"status">> /\ \A j \in DOMAIN d : ~(j > 2)
      BY <1>2
    <3> QED
      BY <3>1 DEF LastIn, Subscriptions
  <2>5. uplink \in Seq(UpFrame)
    BY DEF Types
  <2>6. Has(uplink', {<<"flags">>}) /\ Has(uplink', PowerAsks)
    BY <1>2, <2>2, <2>3, <2>5, SentHas
  <2>7. LastIn(uplink', Subscriptions, {<<"status">>})
    BY <1>2, <2>2, <2>4, <2>5, SentLast
  <2> QED
    BY <2>6, <2>7 DEF Subscribed, PowerKnown
<1>9. Types'
  <2>1. uplink' \in Seq(UpFrame)
    BY <1>2, <1>3, SendTypes DEF Types
  <2>2. locos' \in Seq(Slot) /\ Len(locos') <= MaxLocos /\ downlink' \in Seq(DownFrame)
    BY <1>3, Z21Assumption
  <2>3. shown' \in [Throttles -> Panel]
    BY <1>3 DEF Panel, Empty, Dirs
  <2> QED
    BY <1>3, <2>1, <2>2, <2>3 DEF Types
<1> QED
  BY <1>5, <1>6, <1>7, <1>8, <1>9

-----------------------------------------------------------------------------
(* The station: a request is gone, and its loco is reported to who watches *)
(* it.                                                                     *)

\* What was known of loco b, which the step is not about, still is.
LEMMA StillKnown ==
  ASSUME Types, SlotInv, NEW b \in Locos, b \notin astray, HasSlot(b),
         Has(uplink, Infos(b)) => Has(uplink', Infos(b)),
         Has(uplink, Requests(b)) => Has(uplink', Requests(b)),
         watched \subseteq watched', trains'[b] = trains[b], SlotsHold(b) => SlotsHold(b)',
         LastIn(downlink, Reports(b), {Exact(b)}) => LastIn(downlink', Reports(b), {Exact(b)}),
         ~Has(downlink, Reports(b)) => ~Has(downlink', Reports(b))
  PROVE  Heard(b)' /\ Known(b)'
<1>1. Heard(b) /\ Known(b)
  BY DEF SlotInv
<1>2. Exact(b)' = Exact(b)
  BY DEF Exact
<1>3. Heard(b)'
  BY <1>1 DEF Heard
<1>4. Known(b)'
  BY <1>1, <1>2 DEF Known
<1> QED
  BY <1>3, <1>4

LEMMA ReportTypes ==
  ASSUME Types, NEW a \in Locos, trains' \in [Locos -> Train], Report(a)
  PROVE  /\ downlink' \in Seq(DownFrame)
         /\ a \in watched' => LastIn(downlink', Reports(a), {Exact(a)'})
         /\ \/ downlink' = downlink
            \/ \E r \in Reports(a) : r \in DownFrame /\ downlink' = Append(downlink, r)
<1>1. PICK r : r = <<"info", a, trains'[a].steps, trains'[a].db3, trains'[a].func>>
  OBVIOUS
<1>2. r \in Reports(a) /\ r \in DownFrame /\ r = Exact(a)'
  <2>1. trains'[a] \in Train
    OBVIOUS
  <2> QED
    BY <1>1, <2>1 DEF Train, Reports, DownFrame, Exact
<1>3. downlink \in Seq(DownFrame)
  BY DEF Types
<1>4. downlink' = IF a \notin watched' THEN downlink ELSE Append(downlink, r)
  BY <1>1 DEF Report
<1>5. PICK q : q = Append(downlink, r)
  OBVIOUS
<1>6. q \in Seq(DownFrame) /\ LastIn(q, Reports(a), {Exact(a)'})
  BY <1>2, <1>3, <1>5, Appended
<1> QED
  BY <1>2, <1>3, <1>4, <1>5, <1>6

\* A frame that is not in M adds nothing to it.
LEMMA AppendOther ==
  ASSUME downlink \in Seq(DownFrame), NEW r \in DownFrame,
         downlink' = downlink \/ downlink' = Append(downlink, r), NEW M, r \notin M, NEW N
  PROVE  /\ LastIn(downlink, M, N) => LastIn(downlink', M, N)
         /\ Has(downlink', M) <=> Has(downlink, M)
<1>1. CASE downlink' = downlink
  BY <1>1
<1>2. CASE downlink' = Append(downlink, r)
  <2>1. PICK q : q = Append(downlink, r)
    OBVIOUS
  <2>2. /\ LastIn(downlink, M, N) => LastIn(q, M, N)
        /\ Has(q, M) <=> Has(downlink, M) \/ r \in M
    BY <2>1, Appended
  <2> QED
    BY <1>2, <2>1, <2>2
<1> QED
  BY <1>1, <1>2

\* How loco a runs may change, if who watches it is told.
LEMMA ReportSlots ==
  ASSUME Types, SlotInv, NEW a \in Locos, Report(a), UNCHANGED <<locos, astray>>,
         trains' \in [Locos -> Train], \A b \in Locos : b # a => trains'[b] = trains[b],
         watched \subseteq watched',
         Has(uplink, Infos(a)) => Has(uplink', Infos(a)) \/ a \in watched',
         \A b \in Locos : b # a => /\ Has(uplink, Infos(b)) => Has(uplink', Infos(b))
                                   /\ Has(uplink, Requests(b)) => Has(uplink', Requests(b))
  PROVE  SlotInv'
<1> SUFFICES ASSUME NEW b \in Locos, b \notin astray, HasSlot(b)
             PROVE  Heard(b)' /\ Known(b)'
  BY DEF SlotInv, HasSlot
<1>1. /\ a \in watched' => LastIn(downlink', Reports(a), {Exact(a)'})
      /\ \/ downlink' = downlink
         \/ \E r \in Reports(a) : r \in DownFrame /\ downlink' = Append(downlink, r)
  BY ReportTypes
<1>2. CASE b = a
  <2>1. Heard(a)
    BY <1>2 DEF SlotInv
  <2>2. a \in watched' \/ Has(uplink', Infos(a))
    BY <2>1 DEF Heard
  <2>3. Has(uplink', Infos(a)) => Has(uplink', Requests(a))
    BY DEF Has, Requests
  <2> QED
    BY <1>1, <1>2, <2>2, <2>3 DEF Heard, Known
<1>3. CASE b # a
  <2>1. downlink \in Seq(DownFrame)
    BY DEF Types
  <2>2. /\ LastIn(downlink, Reports(b), {Exact(b)}) => LastIn(downlink', Reports(b), {Exact(b)})
        /\ Has(downlink', Reports(b)) <=> Has(downlink, Reports(b))
    <3>1. CASE downlink' = downlink
      BY <3>1
    <3>2. CASE \E r \in Reports(a) : r \in DownFrame /\ downlink' = Append(downlink, r)
      <4>1. PICK r \in Reports(a) : r \in DownFrame /\ downlink' = Append(downlink, r)
        BY <3>2
      <4>2. r \notin Reports(b)
        BY <1>3, ReportsPart
      <4> QED
        BY <2>1, <4>1, <4>2, AppendOther
    <3> QED
      BY <1>1, <3>1, <3>2
  <2>3. SlotsHold(b) => SlotsHold(b)'
    BY <1>3 DEF SlotsHold, Holds
  <2> QED
    BY <1>3, <2>2, <2>3, StillKnown
<1> QED
  BY <1>2, <1>3

LEMMA TakenHas ==
  ASSUME uplink \in Seq(UpFrame), uplink # <<>>, uplink' = Tail(uplink), NEW M, Head(uplink) \notin M, NEW N
  PROVE  /\ Has(uplink', M) <=> Has(uplink, M)
         /\ LastIn(uplink, M, N) => LastIn(uplink', M, N)
<1>1. PICK q : q = Tail(uplink)
  OBVIOUS
<1>2. Has(uplink, M) <=> Head(uplink) \in M \/ Has(q, M)
  BY <1>1, HasTail
<1>3. LastIn(uplink, M, N) => LastIn(q, M, N)
  BY <1>1, LastTail
<1> QED
  BY <1>1, <1>2, <1>3

\* A frame that is not about the track power changes nothing that is known of it.
LEMMA TakenPower ==
  ASSUME Types, PowerInv,
         \A M \in {{<<"flags">>}, Subscriptions, PowerAsks} : Has(uplink, M) => Has(uplink', M),
         \A N : LastIn(uplink, Subscriptions, N) => LastIn(uplink', Subscriptions, N),
         UNCHANGED <<astray, listening, power, track>>,
         Has(downlink', Tracks) => Has(downlink, Tracks),
         LastIn(downlink, Tracks, {<<"track", power>>}) => LastIn(downlink', Tracks, {<<"track", power>>})
  PROVE  PowerInv'
BY DEF PowerInv, Subscribed, PowerKnown

LEMMA ReportPower ==
  ASSUME Types, NEW a \in Locos, trains' \in [Locos -> Train], Report(a)
  PROVE  /\ Has(downlink', Tracks) => Has(downlink, Tracks)
         /\ \A N : LastIn(downlink, Tracks, N) => LastIn(downlink', Tracks, N)
<1>1. CASE downlink' = downlink
  BY <1>1
<1>2. CASE \E r \in Reports(a) : r \in DownFrame /\ downlink' = Append(downlink, r)
  <2>1. PICK r \in Reports(a) : r \in DownFrame /\ downlink' = Append(downlink, r)
    BY <1>2
  <2>2. r \notin Tracks
    BY ReportsPart
  <2>3. downlink \in Seq(DownFrame)
    BY DEF Types
  <2> QED
    BY <2>1, <2>2, <2>3, AppendOther
<1> QED
  BY <1>1, <1>2, ReportTypes

\* A loco that a frame drives runs as that frame says; the last one keeps its speed.
LEMMA TakenMeant ==
  ASSUME Types, MeantInv, uplink # <<>>, uplink' = Tail(uplink), UNCHANGED <<meant, astray>>,
         \A a \in Locos :
            /\ Head(uplink) \notin Moves(a) =>
                 trains'[a].steps = trains[a].steps /\ trains'[a].db3 = trains[a].db3
            /\ \A v : Head(uplink) \in Keeping(a, v) => Good(v, trains'[a].steps, trains'[a].db3)
  PROVE  MeantInv'
<1> SUFFICES ASSUME NEW a \in Locos, a \notin astray, meant[a] # None
             PROVE  Kept(a)'
  BY DEF MeantInv
<1>1. PICK q, M, N, v : q = Tail(uplink) /\ v = meant[a] /\ M = Moves(a) /\ N = Keeping(a, v)
  OBVIOUS
<1>2. (~Has(uplink, M) /\ Good(v, trains[a].steps, trains[a].db3)) \/ LastIn(uplink, M, N)
  BY <1>1 DEF MeantInv, Kept
<1>3. uplink \in Seq(UpFrame)
  BY DEF Types
<1>4. Has(uplink, M) <=> Head(uplink) \in M \/ Has(q, M)
  BY <1>1, <1>3, HasTail
<1>5. LastIn(uplink, M, N) => \/ LastIn(q, M, N)
                              \/ ~Has(q, M) /\ Head(uplink) \in M /\ Head(uplink) \in N
  BY <1>1, <1>3, LastTail
<1>6. (~Has(q, M) /\ Good(v, trains'[a].steps, trains'[a].db3)) \/ LastIn(q, M, N)
  BY <1>1, <1>2, <1>4, <1>5
<1> QED
  BY <1>1, <1>6 DEF Kept

\* What the station does with a frame of one loco.
ForLoco(f, a) ==
  \/ /\ f[1] = "info" /\ watched' = watched \cup {a} /\ UNCHANGED <<trains, listening, power>>
  \/ /\ f[1] = "drive" /\ trains' = [trains EXCEPT ![a].steps = f[3], ![a].db3 = f[4]]
     /\ UNCHANGED <<watched, listening, power>>
  \/ /\ f[1] = "halt" /\ UNCHANGED <<watched, listening, power>>
     /\ trains' = [trains EXCEPT ![a].steps = trains[a].steps, ![a].db3 = 128 * (trains[a].db3 \div 128)]
  \/ /\ f[1] = "func" /\ trains' = [trains EXCEPT ![a].func = f[3]]
     /\ UNCHANGED <<watched, listening, power>>

LEMMA LocoRuns ==
  ASSUME Types, NEW a \in Locos, NEW f \in Requests(a), ForLoco(f, a)
  PROVE  /\ trains' \in [Locos -> Train]
         /\ \A b \in Locos : b # a => trains'[b] = trains[b]
         /\ f \notin Moves(a) => trains'[a].steps = trains[a].steps /\ trains'[a].db3 = trains[a].db3
         /\ f \in Drives(a) => trains'[a].steps = f[3] /\ trains'[a].db3 = f[4]
         /\ watched \subseteq watched' /\ UNCHANGED <<listening, power>>
         /\ f \in Infos(a) => a \in watched'
<1>1. trains[a] \in Train /\ trains \in [Locos -> Train]
  BY DEF Types
<1>2. f \in OfLoco(a)
  BY DEF OfLoco
<1>3. /\ f[1] = "drive" <=> f \in Drives(a)
      /\ f[1] = "drive" => f[3] \in Steps /\ f[4] \in 0..255
      /\ f[1] \in {"drive", "halt"} <=> f \in Moves(a)
      /\ f[1] = "func" => f[3] \in BOOLEAN
      /\ f[1] = "info" <=> f \in Infos(a)
  BY <1>2, OfLocoIs
<1>4. CASE f[1] = "info"
  <2>1. UNCHANGED <<trains, listening, power>> /\ watched' = watched \cup {a}
    BY <1>4 DEF ForLoco
  <2> QED
    BY <1>1, <1>3, <1>4, <2>1
<1>5. CASE f[1] = "drive"
  <2>1. trains' = [trains EXCEPT ![a].steps = f[3], ![a].db3 = f[4]] /\ UNCHANGED <<watched, listening, power>>
    BY <1>5 DEF ForLoco
  <2>2. /\ \A b \in Locos : b # a => trains'[b] = trains[b]
        /\ trains' = [trains EXCEPT ![a] = [trains[a] EXCEPT !.steps = f[3], !.db3 = f[4]]]
    BY <1>1, <2>1
  <2>3. PICK x : x = [trains[a] EXCEPT !.steps = f[3], !.db3 = f[4]]
    OBVIOUS
  <2>4. x \in Train /\ x.steps = f[3] /\ x.db3 = f[4]
    BY <1>1, <1>3, <1>5, <2>3 DEF Train
  <2>5. trains' \in [Locos -> Train] /\ trains'[a] = x
    BY <1>1, <2>2, <2>3, <2>4
  <2> QED
    BY <1>3, <1>5, <2>1, <2>2, <2>4, <2>5
<1>6. CASE f[1] = "halt"
  <2>1. /\ trains' = [trains EXCEPT ![a].steps = trains[a].steps, ![a].db3 = 128 * (trains[a].db3 \div 128)]
        /\ UNCHANGED <<watched, listening, power>>
    BY <1>6 DEF ForLoco
  <2>2. PICK h : h = 128 * (trains[a].db3 \div 128)
    OBVIOUS
  <2>3. h \in 0..255
    BY <1>1, <2>2 DEF Train
  <2>4. /\ \A b \in Locos : b # a => trains'[b] = trains[b]
        /\ trains' = [trains EXCEPT ![a] = [trains[a] EXCEPT !.steps = trains[a].steps, !.db3 = h]]
    BY <1>1, <2>1, <2>2
  <2>5. PICK x : x = [trains[a] EXCEPT !.steps = trains[a].steps, !.db3 = h]
    OBVIOUS
  <2>6. x \in Train
    BY <1>1, <2>3, <2>5 DEF Train
  <2>7. trains' \in [Locos -> Train]
    BY <1>1, <2>4, <2>5, <2>6
  <2> QED
    BY <1>3, <1>6, <2>1, <2>4, <2>7
<1>7. CASE f[1] = "func"
  <2>1. trains' = [trains EXCEPT ![a].func = f[3]] /\ UNCHANGED <<watched, listening, power>>
    BY <1>7 DEF ForLoco
  <2>2. PICK x : x = [trains[a] EXCEPT !.func = f[3]]
    OBVIOUS
  <2>3. x \in Train /\ x.steps = trains[a].steps /\ x.db3 = trains[a].db3
    BY <1>1, <1>3, <1>7, <2>2 DEF Train
  <2>4. trains' = [trains EXCEPT ![a] = x]
    BY <1>1, <2>1, <2>2
  <2> QED
    BY <1>1, <1>3, <1>7, <2>1, <2>3, <2>4
<1> QED
  BY <1>4, <1>5, <1>6, <1>7 DEF ForLoco

LEMMA LocoStep ==
  ASSUME Inv, NEW a \in Locos, uplink # <<>>, uplink' = Tail(uplink), NEW f \in Requests(a),
         f = Head(uplink), ForLoco(f, a), Report(a), UNCHANGED <<adapterVars, ghostVars>>
  PROVE  Inv'
<1> USE DEF Inv
<1>1. UNCHANGED <<locos, shown, track, refused, meant, astray>> /\ uplink \in Seq(UpFrame)
  BY DEF adapterVars, ghostVars, Types
<1>2. /\ trains' \in [Locos -> Train]
      /\ \A b \in Locos : b # a => trains'[b] = trains[b]
      /\ f \notin Moves(a) => trains'[a].steps = trains[a].steps /\ trains'[a].db3 = trains[a].db3
      /\ f \in Drives(a) => trains'[a].steps = f[3] /\ trains'[a].db3 = f[4]
      /\ watched \subseteq watched' /\ UNCHANGED <<listening, power>>
      /\ f \in Infos(a) => a \in watched'
  BY LocoRuns
<1>3. /\ f \notin Subscriptions /\ f \notin PowerAsks
      /\ \A b : b # a => f \notin Requests(b) /\ f \notin Infos(b) /\ f \notin Moves(b)
  BY FramesPart DEF OfLoco, Requests
<1>4. SlotInv'
  <2>1. Has(uplink, Infos(a)) => Has(uplink', Infos(a)) \/ a \in watched'
    BY <1>1, <1>2, TakenHas
  <2>2. ASSUME NEW b \in Locos, b # a
        PROVE  /\ Has(uplink, Infos(b)) => Has(uplink', Infos(b))
               /\ Has(uplink, Requests(b)) => Has(uplink', Requests(b))
    BY <1>1, <1>3, <2>2, TakenHas
  <2> QED
    BY <1>1, <1>2, <2>1, <2>2, ReportSlots
<1>5. PowerInv'
  <2>1. \A M \in {{<<"flags">>}, Subscriptions, PowerAsks} : Has(uplink, M) => Has(uplink', M)
    BY <1>1, <1>3, TakenHas DEF Subscriptions
  <2>2. \A N : LastIn(uplink, Subscriptions, N) => LastIn(uplink', Subscriptions, N)
    BY <1>1, <1>3, TakenHas
  <2>3. /\ Has(downlink', Tracks) => Has(downlink, Tracks)
        /\ \A N : LastIn(downlink, Tracks, N) => LastIn(downlink', Tracks, N)
    BY <1>2, ReportPower
  <2> QED
    BY <1>1, <1>2, <2>1, <2>2, <2>3, TakenPower
<1>6. MeantInv'
  <2>1. ASSUME NEW b \in Locos
        PROVE  /\ f \notin Moves(b) =>
                    trains'[b].steps = trains[b].steps /\ trains'[b].db3 = trains[b].db3
               /\ \A v : f \in Keeping(b, v) => Good(v, trains'[b].steps, trains'[b].db3)
    BY <1>2, <1>3 DEF Keeping, Moves
  <2> QED
    BY <1>1, <2>1, TakenMeant
<1>7. ShownInv'
  BY <1>1 DEF ShownInv, Shows, Empty
<1>8. Types'
  <2>1. downlink' \in Seq(DownFrame)
    BY <1>2, ReportTypes
  <2>2. uplink' \in Seq(UpFrame)
    BY <1>1, TailShape
  <2> QED
    BY <1>1, <1>2, <2>1, <2>2 DEF Types
<1> QED
  BY <1>4, <1>5, <1>6, <1>7, <1>8

\* A frame that is about no loco, or forgets one, leaves the locos alone.
LEMMA OtherFrame ==
  ASSUME Inv, uplink # <<>>, uplink' = Tail(uplink), \A a \in Locos : Head(uplink) \notin Requests(a),
         UNCHANGED <<adapterVars, ghostVars, trains, watched>>,
         NEW r \in Tracks, downlink' = downlink \/ downlink' = Append(downlink, r), power' \in BOOLEAN
  PROVE  SlotInv' /\ MeantInv' /\ ShownInv' /\ Types'
<1> USE DEF Inv
<1>1. /\ UNCHANGED <<locos, shown, track, refused, meant, astray>>
      /\ uplink \in Seq(UpFrame) /\ downlink \in Seq(DownFrame) /\ r \in DownFrame
  BY DEF adapterVars, ghostVars, Types, DownFrame
<1>2. \A a \in Locos : Head(uplink) \notin Infos(a) /\ Head(uplink) \notin Moves(a)
  BY FramesPart
<1>3. SlotInv'
  <2> SUFFICES ASSUME NEW a \in Locos, a \notin astray, HasSlot(a)
               PROVE  Heard(a)' /\ Known(a)'
    BY <1>1 DEF SlotInv, HasSlot
  <2>1. /\ Has(uplink, Infos(a)) => Has(uplink', Infos(a))
        /\ Has(uplink, Requests(a)) => Has(uplink', Requests(a))
    BY <1>1, <1>2, TakenHas
  <2>2. r \notin Reports(a)
    BY TracksPart
  <2>3. /\ LastIn(downlink, Reports(a), {Exact(a)}) => LastIn(downlink', Reports(a), {Exact(a)})
        /\ Has(downlink', Reports(a)) <=> Has(downlink, Reports(a))
    BY <1>1, <2>2, AppendOther
  <2>4. SlotsHold(a) => SlotsHold(a)'
    BY <1>1 DEF SlotsHold, Holds
  <2> QED
    BY <2>1, <2>3, <2>4, StillKnown
<1>4. MeantInv'
  <2>1. \A a \in Locos : \A v : Head(uplink) \notin Keeping(a, v)
    BY <1>2 DEF Keeping, Moves
  <2> QED
    BY <1>1, <2>1, TakenMeant
<1>5. ShownInv'
  BY <1>1 DEF ShownInv, Shows, Empty
<1>6. Types'
  <2>1. Append(downlink, r) \in Seq(DownFrame)
    BY <1>1
  <2>2. uplink' \in Seq(UpFrame)
    BY <1>1, TailShape
  <2> QED
    BY <1>1, <2>1, <2>2 DEF Types
<1> QED
  BY <1>3, <1>4, <1>5, <1>6

LEMMA StationStep ==
  ASSUME Inv, StationReceives
  PROVE  Inv'
<1> USE DEF Inv
<1>1. PICK f : f = Head(uplink)
  OBVIOUS
<1>2. /\ uplink # <<>> /\ uplink' = Tail(uplink) /\ Obey(f) /\ UNCHANGED <<adapterVars, ghostVars>>
      /\ uplink \in Seq(UpFrame) /\ downlink \in Seq(DownFrame) /\ power \in BOOLEAN
  BY <1>1 DEF StationReceives, Types
<1>3. f \in UpFrame
  BY <1>1, <1>2, TailShape
<1>4. ASSUME NEW a \in Locos, f \in OfLoco(a)
      PROVE  Inv'
  <2>1. /\ f[1] \in {"info", "drive", "halt", "func", "purge"} /\ f[2] = a
        /\ f[1] # "purge" <=> f \in Requests(a)
    BY <1>4, OfLocoIs
  <2>2. CASE f[1] = "purge"
    <3>1. UNCHANGED <<trains, watched, listening, power, downlink>>
      BY <1>2, <2>2 DEF Obey, stationVars
    <3>2. \A b \in Locos : f \notin Requests(b)
      BY <2>2, OfLocoIs DEF OfLoco
    <3>3. <<"track", TRUE>> \in Tracks
      BY DEF Tracks
    <3>4. SlotInv' /\ MeantInv' /\ ShownInv' /\ Types'
      BY <1>1, <1>2, <3>1, <3>2, <3>3, OtherFrame
    <3>5. f \notin Subscriptions /\ f \notin PowerAsks
      BY <1>4, FramesPart
    <3>6. \A M \in {{<<"flags">>}, Subscriptions, PowerAsks} : Has(uplink, M) => Has(uplink', M)
      BY <1>1, <1>2, <3>5, TakenHas DEF Subscriptions
    <3>7. \A N : LastIn(uplink, Subscriptions, N) => LastIn(uplink', Subscriptions, N)
      BY <1>1, <1>2, <3>5, TakenHas
    <3>8. UNCHANGED <<astray, track>>
      BY <1>2 DEF adapterVars, ghostVars
    <3>9. PowerInv'
      BY <3>1, <3>6, <3>7, <3>8, TakenPower
    <3> QED
      BY <3>4, <3>9
  <2>3. CASE f[1] # "purge"
    <3>1. ForLoco(f, a) /\ Report(a)
      BY <1>2, <2>1, <2>3 DEF Obey, ForLoco, Drive
    <3> HIDE DEF Inv
    <3> QED
      BY <1>1, <1>2, <2>1, <2>3, <3>1, LocoStep
  <2> QED
    BY <2>2, <2>3
<1>5. CASE f \in Subscriptions \cup PowerAsks
  <2>1. /\ f[1] \in {"flags", "status", "power"}
        /\ f[1] = "flags" <=> f = <<"flags">>
        /\ f[1] = "status" <=> f = <<"status">>
        /\ f[1] = "power" => f[2] \in BOOLEAN
        /\ f \in PowerAsks <=> f[1] \in {"status", "power"}
        /\ f \in Subscriptions <=> f[1] \in {"status", "flags"}
    BY <1>5, OtherIs
  <2>2. \A a \in Locos : f \notin Requests(a)
    BY <1>5, FramesPart
  <2>3. /\ \/ f[1] = "flags" /\ listening' = TRUE /\ UNCHANGED <<power, downlink>>
           \/ f[1] = "status" /\ UNCHANGED <<listening, power>> /\ downlink' = Append(downlink, <<"track", power>>)
           \/ /\ f[1] = "power" /\ power' = f[2] /\ UNCHANGED listening
              /\ downlink' = IF listening THEN Append(downlink, <<"track", f[2]>>) ELSE downlink
        /\ UNCHANGED <<trains, watched>>
    BY <1>2, <2>1 DEF Obey, stationVars
  <2>4. PICK r : r = <<"track", power'>>
    OBVIOUS
  <2>5. power' \in BOOLEAN /\ r \in Tracks
    BY <1>2, <2>1, <2>3, <2>4 DEF Tracks
  <2>6. /\ downlink' = downlink \/ downlink' = Append(downlink, r)
        /\ f[1] = "status" \/ (f[1] = "power" /\ listening) => downlink' = Append(downlink, r)
    BY <2>1, <2>3, <2>4
  <2>7. SlotInv' /\ MeantInv' /\ ShownInv' /\ Types'
    BY <1>1, <1>2, <2>2, <2>3, <2>5, <2>6, OtherFrame
  <2>8. PowerInv'
    <3> SUFFICES ASSUME None \notin astray'
                 PROVE  Subscribed' /\ PowerKnown'
      BY DEF PowerInv
    <3>1. Subscribed /\ PowerKnown /\ track' = track
      BY <1>2 DEF PowerInv, adapterVars, ghostVars
    <3>2. r \in DownFrame
      BY <2>5 DEF DownFrame
    <3>3. downlink' = Append(downlink, r) => LastIn(downlink', Tracks, {r})
      <4>1. PICK q : q = Append(downlink, r)
        OBVIOUS
      <4>2. LastIn(q, Tracks, {r})
        BY <1>2, <2>5, <3>2, <4>1, Appended
      <4> QED
        BY <4>1, <4>2
    <3>4. CASE f[1] = "flags"
      <4>1. Has(uplink, PowerAsks) => Has(uplink', PowerAsks)
        BY <1>1, <1>2, <2>1, <3>4, TakenHas
      <4> QED
        BY <2>3, <3>1, <3>4, <4>1 DEF Subscribed, PowerKnown
    <3>5. CASE f[1] = "status"
      <4>1. PowerKnown'
        BY <2>4, <2>6, <3>3, <3>5 DEF PowerKnown
      <4>2. CASE listening
        BY <2>3, <3>5, <4>1, <4>2 DEF Subscribed
      <4>3. CASE ~listening
        <5>1. Has(uplink, {<<"flags">>}) /\ LastIn(uplink, Subscriptions, {<<"status">>})
          BY <3>1, <4>3 DEF Subscribed
        <5>2. f \notin {<<"flags">>}
          BY <2>1, <3>5
        <5>3. Has(uplink', {<<"flags">>})
          BY <1>1, <1>2, <5>1, <5>2, TakenHas
        <5>4. Has(uplink', Subscriptions)
          BY <5>3 DEF Has, Subscriptions
        <5>5. LastIn(uplink', Subscriptions, {<<"status">>})
          <6>1. PICK q : q = Tail(uplink)
            OBVIOUS
          <6>2. LastIn(q, Subscriptions, {<<"status">>}) \/ ~Has(q, Subscriptions)
            BY <1>2, <5>1, <6>1, LastTail
          <6> QED
            BY <1>2, <5>4, <6>1, <6>2
        <5> QED
          BY <4>1, <5>3, <5>5 DEF Subscribed
      <4> QED
        BY <4>2, <4>3
    <3>6. CASE f[1] = "power"
      <4>1. f \notin Subscriptions /\ f \notin {<<"flags">>}
        BY <2>1, <3>6
      <4>2. CASE listening
        BY <2>3, <2>4, <2>6, <3>3, <3>6, <4>2 DEF Subscribed, PowerKnown
      <4>3. CASE ~listening
        <5>1. Has(uplink, {<<"flags">>}) /\ LastIn(uplink, Subscriptions, {<<"status">>})
          BY <3>1, <4>3 DEF Subscribed
        <5>2. Has(uplink', {<<"flags">>}) /\ LastIn(uplink', Subscriptions, {<<"status">>})
          BY SMTT(60), <1>1, <1>2, <4>1, <5>1, TakenHas
        <5>3. Has(uplink', PowerAsks)
          BY <5>2 DEF LastIn, Has, PowerAsks
        <5> QED
          BY <5>2, <5>3 DEF Subscribed, PowerKnown
      <4> QED
        BY <4>2, <4>3
    <3> QED
      BY <2>1, <3>4, <3>5, <3>6
  <2> QED
    BY <2>7, <2>8
<1> HIDE DEF Inv
<1> QED
  BY <1>3, <1>4, <1>5, UpFrameIs

\* Another throttle drives the loco: it keeps no speed of ours, and is reported.
LEMMA ForeignStep ==
  ASSUME Inv, NEW a \in Locos, NEW steps \in ForeignSteps, NEW v \in Speeds, NEW d \in Dirs,
         ForeignDrive(a, steps, v, d)
  PROVE  Inv'
<1> USE DEF Inv
<1>1. PICK b : b = EncodeDb3(v, d, steps)
  OBVIOUS
<1>2. steps \in Steps /\ v \in 0..126
  BY Z21Assumption DEF Steps
<1>3. b \in 0..255
  BY <1>1, <1>2, EncodesBoth
<1>4. /\ trains' = [trains EXCEPT ![a].steps = steps, ![a].db3 = b]
      /\ UNCHANGED <<watched, listening, power>> /\ Report(a)
      /\ meant' = [meant EXCEPT ![a] = None]
      /\ UNCHANGED <<locos, shown, track, uplink, refused, astray>>
  BY <1>1 DEF ForeignDrive, Drive, adapterVars
<1>5. trains \in [Locos -> Train] /\ trains[a] \in Train /\ meant \in [Locos -> 0..126 \cup {None}]
  BY DEF Types
<1>6. PICK x : x = [trains[a] EXCEPT !.steps = steps, !.db3 = b]
  OBVIOUS
<1>7. x \in Train
  BY <1>2, <1>3, <1>5, <1>6 DEF Train
<1>8. trains' \in [Locos -> Train] /\ \A c \in Locos : c # a => trains'[c] = trains[c]
  <2>1. trains' = [trains EXCEPT ![a] = x]
    BY <1>4, <1>5, <1>6
  <2> QED
    BY <1>5, <1>7, <2>1
<1>9. SlotInv'
  BY <1>4, <1>8, ReportSlots
<1>10. PowerInv'
  <2>1. /\ Has(downlink', Tracks) => Has(downlink, Tracks)
        /\ \A N : LastIn(downlink, Tracks, N) => LastIn(downlink', Tracks, N)
    BY <1>4, <1>8, ReportPower
  <2> QED
    BY <1>4, <2>1, TakenPower
<1>11. MeantInv'
  <2>1. ASSUME NEW c \in Locos, c \notin astray, meant'[c] # None
        PROVE  Kept(c)'
    <3>1. c # a /\ meant'[c] = meant[c]
      BY <1>4, <1>5, <2>1
    <3>2. Kept(c) /\ trains'[c] = trains[c]
      BY <1>8, <2>1, <3>1 DEF MeantInv
    <3> QED
      BY <1>4, <3>1, <3>2 DEF Kept
  <2> QED
    BY <1>4, <2>1 DEF MeantInv
<1>12. ShownInv'
  BY <1>4 DEF ShownInv, Shows, Empty
<1>13. Types'
  <2>1. downlink' \in Seq(DownFrame)
    BY <1>4, <1>8, ReportTypes
  <2>2. meant' \in [Locos -> 0..126 \cup {None}]
    BY <1>4, <1>5
  <2> QED
    BY <1>4, <1>8, <2>1, <2>2 DEF Types
<1> QED
  BY <1>9, <1>10, <1>11, <1>12, <1>13

-----------------------------------------------------------------------------
(* The handset takes a frame, or loses it.                                 *)

LEMMA ReceivedHas ==
  ASSUME downlink \in Seq(DownFrame), downlink # <<>>, downlink' = Tail(downlink), NEW M, NEW N
  PROVE  /\ Has(downlink', M) => Has(downlink, M)
         /\ LastIn(downlink, M, N) => \/ LastIn(downlink', M, N)
                                      \/ ~Has(downlink', M) /\ Head(downlink) \in M /\ Head(downlink) \in N
         /\ downlink' \in Seq(DownFrame) /\ Head(downlink) \in DownFrame
         /\ Head(downlink) \in M => Has(downlink, M)
<1>1. PICK q : q = Tail(downlink)
  OBVIOUS
<1>2. Has(downlink, M) <=> Head(downlink) \in M \/ Has(q, M)
  BY <1>1, HasTail
<1>3. LastIn(downlink, M, N) => \/ LastIn(q, M, N)
                                \/ ~Has(q, M) /\ Head(downlink) \in M /\ Head(downlink) \in N
  BY <1>1, LastTail
<1>4. q \in Seq(DownFrame) /\ Head(downlink) \in DownFrame
  BY <1>1, TailShape
<1> QED
  BY <1>1, <1>2, <1>3, <1>4

\* What was known of a loco still is, if the frame is not a report of it.
LEMMA OtherReport ==
  ASSUME Types, SlotInv, downlink # <<>>, downlink' = Tail(downlink),
         UNCHANGED <<uplink, trains, watched>>,
         NEW b \in Locos, b \notin astray, Head(downlink) \notin Reports(b),
         HasSlot(b), SlotsHold(b) => SlotsHold(b)'
  PROVE  Heard(b)' /\ Known(b)'
<1>1. downlink \in Seq(DownFrame)
  BY DEF Types
<1>2. /\ LastIn(downlink, Reports(b), {Exact(b)}) => LastIn(downlink', Reports(b), {Exact(b)})
      /\ ~Has(downlink, Reports(b)) => ~Has(downlink', Reports(b))
  BY <1>1, ReceivedHas
<1> QED
  BY <1>2, StillKnown

\* And of the track power, if it is not about that.
LEMMA OtherTrack ==
  ASSUME Types, PowerInv, downlink # <<>>, downlink' = Tail(downlink),
         UNCHANGED <<uplink, listening, power, track>>,
         None \notin astray' => None \notin astray /\ Head(downlink) \notin Tracks
  PROVE  PowerInv'
<1> SUFFICES ASSUME None \notin astray'
             PROVE  Subscribed' /\ PowerKnown'
  BY DEF PowerInv
<1>1. Subscribed /\ PowerKnown /\ downlink \in Seq(DownFrame)
  BY DEF PowerInv, Types
<1>2. /\ LastIn(downlink, Tracks, {<<"track", power>>}) => LastIn(downlink', Tracks, {<<"track", power>>})
      /\ ~Has(downlink, Tracks) => ~Has(downlink', Tracks)
  BY <1>1, ReceivedHas
<1> QED
  BY <1>1, <1>2 DEF Subscribed, PowerKnown

\* A report overwrites the slots of its loco, and the panels that show it.
LEMMA InfoStep ==
  ASSUME Inv, downlink # <<>>, downlink' = Tail(downlink), NEW a \in Locos,
         NEW steps \in Steps, NEW b \in 0..255, NEW on \in BOOLEAN,
         Head(downlink) = <<"info", a, steps, b, on>>, OnLocoInfo(a, steps, b, on),
         UNCHANGED <<track, astray, uplink, trains, watched, listening, power, refused, meant>>
  PROVE  Inv'
<1> USE DEF Inv
<1>1. PICK v, d : v = SpeedOf(steps, b) /\ d = DirectionOf(b)
  BY SMTT(60)
<1>2. v \in 0..126 /\ d \in Dirs
  BY <1>1, SpeedInRange DEF DirectionOf, Dirs
<1> DEFINE S == {i \in DOMAIN locos : locos[i].addr = a}
           known(t) == \E i \in SlotsOf(t) : locos[i].addr = a /\ locos[i].func # on
<1>3. \A i \in DOMAIN locos : locos[i] \in Slot /\ locos[i].throttle \in Throttles
  BY SlotsShape
<1>4. /\ locos' = [i \in DOMAIN locos |->
                    IF locos[i].addr # a THEN locos[i]
                    ELSE [locos[i] EXCEPT !.steps = steps, !.speed = v, !.dir = d, !.func = on]]
      /\ shown' = [t \in Throttles |->
                    IF a \notin Held(t) THEN shown[t]
                    ELSE [shown[t] EXCEPT !.speed = v, !.dir = d,
                                          !.func = IF known(t) THEN on ELSE shown[t].func]]
  BY <1>1 DEF OnLocoInfo
<1>5. Changed(locos', S)
  <2>1. ASSUME NEW i \in DOMAIN locos, locos[i].addr = a
        PROVE  /\ locos'[i] \in Slot
               /\ locos'[i].throttle = locos[i].throttle /\ locos'[i].addr = locos[i].addr
    <3>1. locos'[i] = [locos[i] EXCEPT !.steps = steps, !.speed = v, !.dir = d, !.func = on]
      BY <1>4, <2>1
    <3>2. locos[i] \in Slot
      BY <1>3
    <3> QED
      BY <1>2, <3>1, <3>2 DEF Slot
  <2>2. \A i \in DOMAIN locos : locos[i].addr # a => locos'[i] = locos[i]
    BY <1>4
  <2>3. locos' = [i \in DOMAIN locos |-> locos'[i]]
    BY <1>4
  <2> QED
    BY <1>3, <2>1, <2>2, <2>3 DEF Changed
<1>6. shown \in [Throttles -> Panel] /\ downlink \in Seq(DownFrame)
  BY DEF Types
<1>7. ASSUME NEW t \in Throttles, a \in Held(t)
      PROVE  /\ shown'[t] \in Panel /\ shown'[t].locos = shown[t].locos
             /\ shown'[t].speed = v /\ shown'[t].dir = d
             /\ shown'[t].func = IF known(t) THEN on ELSE shown[t].func
  <2>1. shown[t] \in Panel
    BY <1>6
  <2>2. PICK x \in BOOLEAN : x = IF known(t) THEN on ELSE shown[t].func
    BY <2>1 DEF Panel
  <2>3. shown'[t] = [shown[t] EXCEPT !.speed = v, !.dir = d, !.func = x]
    BY <1>4, <1>7, <2>2
  <2> HIDE DEF known
  <2> QED
    BY <1>2, <2>1, <2>2, <2>3 DEF Panel
<1>8. \A t \in Throttles : a \notin Held(t) => shown'[t] = shown[t]
  BY <1>4
<1>9. ShownInv'
  <2>1. ASSUME NEW t \in Throttles
        PROVE  /\ shown'[t].locos = shown[t].locos
               /\ shown[t].locos = {} => shown'[t] = shown[t]
    <3>1. a \in Held(t) => shown[t].locos # {}
      BY DEF Held, SlotsOf, ShownInv
    <3> QED
      BY <1>7, <1>8, <3>1
  <2>2. ASSUME NEW i \in DOMAIN locos, shown[locos[i].throttle].locos = {locos[i].addr}
        PROVE  Shows(shown'[locos[i].throttle], locos'[i])
    <3>1. PICK t \in Throttles : t = locos[i].throttle
      BY <1>3
    <3>2. Shows(shown[t], locos[i]) /\ i \in SlotsOf(t)
      BY <2>2, <3>1 DEF ShownInv, SlotsOf
    <3>3. \A j \in SlotsOf(t) : locos[j].addr = locos[i].addr
      BY <2>2, <3>1 DEF ShownInv, SlotsOf
    <3>4. CASE locos[i].addr = a
      <4>1. a \in Held(t)
        BY <3>2, <3>4 DEF Held
      <4>2. locos'[i] = [locos[i] EXCEPT !.steps = steps, !.speed = v, !.dir = d, !.func = on]
        BY <1>4, <3>4
      <4>3. locos'[i].speed = v /\ locos'[i].dir = d /\ locos'[i].func = on
        BY <1>3, <4>2 DEF Slot
      <4>4. ~known(t) => shown[t].func = on
        BY <3>2, <3>4 DEF Shows
      <4>5. shown'[t].func = on
        <5> HIDE DEF known
        <5> QED
          BY <1>7, <4>1, <4>4
      <4> QED
        BY <1>7, <3>1, <4>1, <4>3, <4>5 DEF Shows
    <3>5. CASE locos[i].addr # a
      <4>1. a \notin Held(t)
        BY <3>3, <3>5 DEF Held
      <4>2. locos'[i] = locos[i]
        BY <1>4, <3>5
      <4> QED
        BY <1>8, <3>1, <3>2, <4>1, <4>2
    <3> QED
      BY <3>4, <3>5
  <2> HIDE DEF S
  <2> QED
    BY <1>5, <2>1, <2>2, ChangedShown
<1>10. SlotInv'
  <2>1. DOMAIN locos' = DOMAIN locos
    BY <1>4
  <2>2. \A i \in DOMAIN locos : locos'[i].addr = locos[i].addr
    BY <1>5 DEF Changed
  <2> SUFFICES ASSUME NEW c \in Locos, c \notin astray, HasSlot(c)
               PROVE  Heard(c)' /\ Known(c)'
    BY <2>1, <2>2 DEF SlotInv, HasSlot
  <2>3. CASE c # a
    <3>1. Head(downlink) \notin Reports(c)
      BY <2>3 DEF Reports
    <3>2. \A i \in DOMAIN locos : locos[i].addr = c => locos'[i] = locos[i]
      BY <1>4, <2>3
    <3>3. SlotsHold(c) => SlotsHold(c)'
      BY <2>1, <2>2, <3>2 DEF SlotsHold, Holds
    <3> QED
      BY <3>1, <3>3, OtherReport
  <2>4. CASE c = a
    <3>1. Heard(a) /\ Known(a)
      BY <2>4 DEF SlotInv
    <3>2. Heard(a)'
      BY <3>1 DEF Heard
    <3>3. Head(downlink) \in Reports(a)
      <4>1. PICK r : r = <<"info", a, steps, b, on>>
        OBVIOUS
      <4>2. r \in Reports(a)
        BY <4>1 DEF Reports
      <4> QED
        BY <4>1, <4>2
    <3>4. Has(downlink, Reports(a))
      BY <1>6, <3>3, ReceivedHas
    <3>5. CASE Has(uplink, Requests(a))
      BY <2>4, <3>2, <3>5 DEF Known
    <3>6. CASE LastIn(downlink, Reports(a), {Exact(a)})
      <4>1. \/ LastIn(downlink', Reports(a), {Exact(a)})
            \/ ~Has(downlink', Reports(a)) /\ Head(downlink) = Exact(a)
        BY <1>6, <3>6, ReceivedHas
      <4>2. Exact(a)' = Exact(a)
        BY DEF Exact
      <4>3. ASSUME Head(downlink) = Exact(a)
            PROVE  SlotsHold(a)'
        <5>1. steps = trains[a].steps /\ b = trains[a].db3 /\ on = trains[a].func
          BY <4>3 DEF Exact
        <5>2. ASSUME NEW i \in DOMAIN locos, locos[i].addr = a
              PROVE  /\ locos'[i].addr = a /\ locos'[i].steps = steps /\ locos'[i].speed = v
                     /\ locos'[i].dir = d /\ locos'[i].func = on
          <6>1. locos'[i] = [locos[i] EXCEPT !.steps = steps, !.speed = v, !.dir = d, !.func = on]
            BY <1>4, <5>2
          <6> QED
            BY <1>3, <5>2, <6>1 DEF Slot
        <5> QED
          BY <1>1, <2>1, <2>2, <5>1, <5>2 DEF SlotsHold, Holds
      <4> QED
        BY <4>1, <4>2, <4>3 , <3>2, <2>4 DEF Known
    <3> QED
      BY <2>4, <3>1, <3>2, <3>4, <3>5, <3>6 DEF Known
  <2> QED
    BY <2>3, <2>4
<1>11. PowerInv'
  <2>1. Head(downlink) \notin Tracks
    BY DEF Tracks
  <2> QED
    BY <2>1, OtherTrack
<1>12. MeantInv'
  BY DEF MeantInv, Kept
<1>13. Types'
  <2>1. locos' \in Seq(Slot) /\ Len(locos') <= MaxLocos
    BY <1>5, ChangedTypes DEF Types
  <2>2. shown' \in [Throttles -> Panel]
    <3>1. \A t \in Throttles : shown'[t] \in Panel
      BY <1>6, <1>7, <1>8
    <3>2. shown' = [t \in Throttles |-> shown'[t]]
      BY <1>4
    <3> QED
      BY <3>1, <3>2
  <2>3. downlink' \in Seq(DownFrame)
    BY <1>6, ReceivedHas
  <2> QED
    BY <2>1, <2>2, <2>3 DEF Types
<1> QED
  BY <1>9, <1>10, <1>11, <1>12, <1>13

LEMMA ReceiveStep ==
  ASSUME Inv, Receive
  PROVE  Inv'
<1> USE DEF Inv
<1>1. PICK f : f = Head(downlink)
  OBVIOUS
<1>2. /\ downlink # <<>> /\ downlink' = Tail(downlink) /\ downlink \in Seq(DownFrame)
      /\ UNCHANGED <<uplink, trains, watched, listening, power, refused, meant>>
  BY DEF Receive, Types, stationVars
<1>3. f \in DownFrame /\ downlink' \in Seq(DownFrame)
  BY <1>1, <1>2, ReceivedHas
<1>4. \/ /\ f[1] = "info" /\ OnLocoInfo(f[2], f[3], f[4], f[5]) /\ UNCHANGED <<track, astray>>
      \/ f[1] # "info" /\ track' = f[2] /\ UNCHANGED <<locos, shown, astray>>
      \/ astray' = astray \cup {About(f)} /\ UNCHANGED <<locos, shown, track>>
  BY <1>1 DEF Receive, adapterVars
<1>5. f \in Tracks \/ \E a \in Locos : f \in Reports(a)
  BY SMTT(60), <1>3, DownFrameIs
<1>6. CASE f[1] = "info" /\ OnLocoInfo(f[2], f[3], f[4], f[5]) /\ UNCHANGED <<track, astray>>
  <2>1. PICK a \in Locos : f \in Reports(a)
    BY <1>5, <1>6, TracksPart
  <2>2. f[2] = a /\ f[3] \in Steps /\ f[4] \in 0..255 /\ f[5] \in BOOLEAN
        /\ f = <<"info", a, f[3], f[4], f[5]>>
    BY <2>1, ReportsPart
  <2>3. PICK steps \in Steps, b \in 0..255, on \in BOOLEAN : steps = f[3] /\ b = f[4] /\ on = f[5]
    BY <2>2
  <2>4. f = <<"info", a, steps, b, on>> /\ OnLocoInfo(a, steps, b, on)
    BY <1>6, <2>2, <2>3
  <2> HIDE DEF Inv
  <2> QED
    BY <1>1, <1>2, <1>6, <2>4, InfoStep
<1>7. CASE f[1] # "info" /\ track' = f[2] /\ UNCHANGED <<locos, shown, astray>>
  <2>1. f \in Tracks
    BY <1>5, <1>7, ReportsPart
  <2>2. f = <<"track", f[2]>> /\ \A a : f \notin Reports(a)
    BY <2>1, TracksPart
  <2>3. SlotInv'
    <3>1. \A b \in Locos : b \notin astray /\ HasSlot(b) => Heard(b)' /\ Known(b)'
      <4>1. \A b \in Locos : SlotsHold(b) => SlotsHold(b)'
        BY <1>2, <1>7 DEF SlotsHold, Holds
      <4> QED
        BY <1>1, <1>2, <2>2, <4>1, OtherReport
    <3> QED
      BY <1>7, <3>1 DEF SlotInv, HasSlot
  <2>4. PowerInv'
    <3> SUFFICES ASSUME None \notin astray
                 PROVE  Subscribed' /\ PowerKnown'
      BY <1>7 DEF PowerInv
    <3>1. Subscribed /\ PowerKnown
      BY DEF PowerInv
    <3>2. Has(downlink, Tracks)
      BY <1>1, <1>2, <2>1, ReceivedHas
    <3>3. LastIn(downlink, Tracks, {<<"track", power>>}) =>
            \/ LastIn(downlink', Tracks, {<<"track", power>>})
            \/ ~Has(downlink', Tracks) /\ f = <<"track", power>>
      BY <1>1, <1>2, ReceivedHas
    <3>4. f = <<"track", power>> => track' = power
      BY <1>7
    <3> QED
      BY <1>2, <3>1, <3>2, <3>3, <3>4 DEF Subscribed, PowerKnown
  <2>5. MeantInv'
    BY <1>2, <1>7 DEF MeantInv, Kept
  <2>6. ShownInv'
    BY <1>2, <1>7 DEF ShownInv, Shows, Empty
  <2>7. Types'
    BY <1>2, <1>3, <1>7 DEF Types
  <2> QED
    BY <2>3, <2>4, <2>5, <2>6, <2>7
<1>8. CASE astray' = astray \cup {About(f)} /\ UNCHANGED <<locos, shown, track>>
  <2>1. \A b : f \in Reports(b) => About(f) = b
    BY ReportsPart
  <2>2. f \in Tracks => About(f) = None
    BY TracksPart
  <2>3. SlotInv'
    <3>1. ASSUME NEW b \in Locos, b \notin astray', HasSlot(b)
          PROVE  Heard(b)' /\ Known(b)'
      <4>1. SlotsHold(b) => SlotsHold(b)'
        BY <1>2, <1>8 DEF SlotsHold, Holds
      <4>2. b \notin astray /\ f \notin Reports(b)
        BY <1>8, <2>1, <3>1
      <4> QED
        BY <1>1, <1>2, <3>1, <4>1, <4>2, OtherReport
    <3> QED
      BY <1>8, <3>1 DEF SlotInv, HasSlot
  <2>4. PowerInv'
    BY <1>1, <1>2, <1>8, <2>2, OtherTrack
  <2>5. MeantInv'
    BY <1>2, <1>8 DEF MeantInv, Kept
  <2>6. ShownInv'
    BY <1>2, <1>8 DEF ShownInv, Shows, Empty
  <2>7. Types'
    BY <1>2, <1>3, <1>8 DEF Types
  <2> QED
    BY <2>3, <2>4, <2>5, <2>6, <2>7
<1> QED
  BY <1>4, <1>6, <1>7, <1>8

-----------------------------------------------------------------------------
LEMMA NextInv == Inv /\ [Next]_vars => Inv'
<1> SUFFICES ASSUME Inv, [Next]_vars
             PROVE  Inv'
  OBVIOUS
<1>1. CASE Connect
  BY <1>1, ConnectStep
<1>2. CASE Receive
  BY <1>2, ReceiveStep
<1>3. CASE StationReceives
  BY <1>3, StationStep
<1>4. ASSUME NEW t \in Throttles, NEW a \in Locos, AddLoco(t, a)
      PROVE  Inv'
  BY <1>4, AddStep
<1>5. ASSUME NEW t \in Throttles, ReleaseThrottle(t)
      PROVE  Inv'
  BY <1>5, ReleaseStep
<1>6. ASSUME NEW t \in Throttles, EStop(t)
      PROVE  Inv'
  BY <1>6, EStopStep
<1>7. ASSUME NEW t \in Throttles, NEW v \in Speeds, SetSpeed(t, v)
      PROVE  Inv'
  BY <1>7, SpeedStep
<1>8. ASSUME NEW t \in Throttles, NEW only \in Locos \cup {None}, NEW d \in Dirs,
             SetDirection(t, only, d)
      PROVE  Inv'
  BY <1>8, DirectionStep
<1>9. ASSUME NEW t \in Throttles, NEW on \in BOOLEAN, SetFunction(t, on)
      PROVE  Inv'
  BY <1>9, FunctionStep
<1>10. ASSUME NEW on \in BOOLEAN, SetTrackPower(on)
       PROVE  Inv'
  BY <1>10, PowerStep
<1>11. ASSUME NEW a \in Locos, NEW steps \in ForeignSteps, NEW v \in Speeds, NEW d \in Dirs,
              ForeignDrive(a, steps, v, d)
       PROVE  Inv'
  BY <1>11, ForeignStep
<1>12. CASE UNCHANGED vars
  <2>1. UNCHANGED <<locos, shown, track, uplink, downlink, trains, watched, listening, power,
                    refused, meant, astray>>
    BY <1>12 DEF vars, adapterVars, stationVars, ghostVars
  <2>2. Types'
    BY <2>1 DEF Inv, Types
  <2>3. SlotInv'
    BY <2>1 DEF Inv, SlotInv, HasSlot, Heard, Known, Exact, SlotsHold, Holds
  <2>4. PowerInv'
    BY <2>1 DEF Inv, PowerInv, Subscribed, PowerKnown
  <2>5. ShownInv'
    BY <2>1 DEF Inv, ShownInv, Shows, Empty
  <2>6. MeantInv'
    BY <2>1 DEF Inv, MeantInv, Kept
  <2> QED
    BY <2>2, <2>3, <2>4, <2>5, <2>6 DEF Inv
<1> QED
  BY <1>1, <1>2, <1>3, <1>4, <1>5, <1>6, <1>7, <1>8, <1>9, <1>10, <1>11, <1>12 DEF Next, Dirs

LEMMA Invariant == Spec => []Inv
<1>1. Init => Inv
  BY InitInv
<1>2. Inv /\ [Next]_vars => Inv'
  BY NextInv
<1> QED
  BY <1>1, <1>2, PTL DEF Spec

\* Whatever other throttles do, once nothing about a loco is under way and none of its
\* datagrams was lost since it was added, its slots, the panel and the station agree
\* (adapter.rs, on_loco_info and the commands), and so it is with the track power: for
\* any throttles, locos, speeds and number of slots.
THEOREM SlotsAlwaysAgree == Spec => []SlotsAgree
<1>1. Inv => SlotsAgree
  BY InvSlots
<1> QED
  BY <1>1, Invariant, PTL

\* A loco keeps the speed it was given within the width of its steps, and stands if
\* that was a stop, through encoding, reports and changes of direction.
THEOREM SpeedsAreKept == Spec => []SpeedIsKept
<1>1. Inv => SpeedIsKept
  BY InvSpeed
<1> QED
  BY <1>1, Invariant, PTL

=============================================================================
