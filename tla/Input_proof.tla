---------------------------- MODULE Input_proof ----------------------------
(***************************************************************************)
(* What Input promises, for all channel depths and hold times: the encoder *)
(* loses no step, the direction switch is obeyed, and the programming      *)
(* chord takes an unbroken hold.                                           *)
(*                                                                         *)
(* Count says where every Gray step of the shaft is; each action moves     *)
(* detents between the shares of the sum.  Voice follows the last word of  *)
(* the switch: it is in a channel, behind every contrary word, or the      *)
(* domain has it.  Held does the same for the two chord keys between the   *)
(* expander and the surface, and bounds the bridge's clock by the units    *)
(* the keys were held.                                                     *)
(***************************************************************************)
EXTENDS Input, FiniteSetTheorems, SequenceTheorems, TLAPS

Dir == {"fwd", "rev"}

\* The contacts that are reported as buttons.
Buttons == {"shift1", "stop", "joy", "knob"}

RawEvent ==
    {<<"Encoder", 1>>, <<"Encoder", -1>>} \cup {<<"Switch", d>> : d \in Dir}
        \cup {<<"Button", k, b>> : k \in Buttons, b \in BOOLEAN}

InputEvent ==
    {<<"Encoder", 1>>, <<"Encoder", -1>>} \cup {<<"DirectionSet", d>> : d \in Dir}
        \cup {<<"CaseToggle">>, <<"Stop">>, <<"Nav">>, <<"EncoderButton">>,
              <<"EnterProgrammingMode">>}

Said == [by : {None}] \cup [by : {"switch", "knob"}, dir : Dir]

Types ==
    /\ pins \in SUBSET Keys
    /\ chip \in [Ports -> [stable : SUBSET Keys, ticks : 0..(DEBOUNCE_TICKS - 1)]]
    /\ \A p \in Ports : chip[p].stable \subseteq Port[p]
    /\ spoke = chip["mcp1a"].stable
    /\ told \in BOOLEAN
    /\ knob \in [pos : Int, seen : Int, old : 0..3,
                 accum : (1 - DETENT_STEPS)..(DETENT_STEPS - 1), delta : {-1, 0, 1}, skips : Nat]
    /\ raw \in Seq(RawEvent) /\ Len(raw) <= RAW_CHANNEL_DEPTH
    /\ input \in Seq(InputEvent) /\ Len(input) <= INPUT_CHANNEL_DEPTH
    /\ surface \in [shift : BOOLEAN, stop : BOOLEAN, since : {NotHeld} \cup 0..HOLD,
                    fired : BOOLEAN]
    /\ dom \in [phase : {"splash", "awake", "blank", "programming"}, spdt : Dir,
                loco : BOOLEAN, dir : Dir, detents : Int]
    /\ asked \in Said
    /\ missed \in Int
    /\ lost \in BOOLEAN
    /\ grip \in [units : 0..HOLD, slipped : BOOLEAN]

Count ==
    /\ knob.old = Pack(knob.seen)
    /\ knob.pos - knob.seen \in -2..2
    /\ LET heard == dom.detents + missed + Detents(raw) + Detents(input)
       IN  (knob.seen - (DETENT_STEPS * heard + knob.accum)) \in (-2 * knob.skips)..(2 * knob.skips)

Has(q, y) == \E i \in DOMAIN q : q[i] = y

\* Behind every z in q comes a y; without a y in q, base holds.
Will(q, y, z, base) ==
    /\ \A i \in DOMAIN q : q[i] = z => \E j \in DOMAIN q : j > i /\ q[j] = y
    /\ Has(q, y) \/ base

DomainSays(w) == dom.spdt = w /\ (dom.loco => dom.dir = w)

Told(w) ==
    Will(raw, <<"Switch", w>>, <<"Switch", Other(w)>>,
         Will(input, <<"DirectionSet", w>>, <<"DirectionSet", Other(w)>>, DomainSays(w)))

Voice ==
    asked.by = "switch" =>
        /\ asked.dir = Fwd(pins)
        /\ Fwd(spoke) = Fwd(pins) => Told(Fwd(pins))

ChordKeys == {"shift1", "stop"}

Down(k) == IF k = "shift1" THEN surface.shift ELSE surface.stop

Traced(k) ==
    LET v == k \in chip["mcp0b"].stable
    IN  Will(raw, <<"Button", k, v>>, <<"Button", k, ~v>>, Down(k) = v)

Released == \E k \in ChordKeys : Has(raw, <<"Button", k, FALSE>>)

Held ==
    /\ surface.since # NotHeld => surface.shift /\ surface.stop
    /\ ~Chorded(chip["mcp0b"].stable) => grip.slipped
    /\ ~lost =>
         /\ \A k \in ChordKeys : Traced(k)
         /\ surface.since <= grip.units
         /\ grip.slipped /\ ~Released => surface.since <= 0

-----------------------------------------------------------------------------
(* Sequences.                                                              *)

LEMMA Joined ==
  ASSUME NEW V, NEW q \in Seq(V), NEW r \in Seq(V)
  PROVE  /\ q \o r \in Seq(V) /\ Len(q \o r) = Len(q) + Len(r)
         /\ DOMAIN q = 1..Len(q) /\ DOMAIN r = 1..Len(r)
         /\ DOMAIN (q \o r) = 1..(Len(q) + Len(r))
         /\ Len(q) \in Nat /\ Len(r) \in Nat
         /\ \A i \in 1..Len(q) : (q \o r)[i] = q[i]
         /\ \A i \in 1..Len(r) : (q \o r)[Len(q) + i] = r[i]
<1>1. /\ q \o r \in Seq(V) /\ Len(q \o r) = Len(q) + Len(r)
      /\ \A i \in 1..(Len(q) + Len(r)) :
           (q \o r)[i] = IF i <= Len(q) THEN q[i] ELSE r[i - Len(q)]
  BY ConcatProperties
<1>2. Len(q) \in Nat /\ Len(r) \in Nat /\ DOMAIN q = 1..Len(q) /\ DOMAIN r = 1..Len(r)
  OBVIOUS
<1>3. DOMAIN (q \o r) = 1..(Len(q) + Len(r))
  BY <1>1
<1>4. ASSUME NEW i \in 1..Len(q) PROVE (q \o r)[i] = q[i]
  BY <1>1, <1>2
<1>5. ASSUME NEW i \in 1..Len(r) PROVE (q \o r)[Len(q) + i] = r[i]
  <2>1. Len(q) + i \in 1..(Len(q) + Len(r)) /\ ~(Len(q) + i <= Len(q))
        /\ (Len(q) + i) - Len(q) = i
    BY <1>2
  <2> QED BY <1>1, <2>1
<1> QED BY <1>1, <1>2, <1>3, <1>4, <1>5

\* Where an element of a concatenation comes from.
LEMMA JoinedFrom ==
  ASSUME NEW V, NEW q \in Seq(V), NEW r \in Seq(V), NEW i \in DOMAIN (q \o r)
  PROVE  \/ i \in DOMAIN q /\ (q \o r)[i] = q[i]
         \/ \E k \in DOMAIN r : i = Len(q) + k /\ (q \o r)[i] = r[k]
<1>1. i \in 1..(Len(q) + Len(r)) /\ Len(q) \in Nat /\ Len(r) \in Nat
  BY Joined
<1>2. CASE i <= Len(q)
  <2>1. i \in 1..Len(q)
    BY <1>1, <1>2
  <2> QED BY <2>1, Joined
<1>3. CASE i > Len(q)
  <2>1. i - Len(q) \in 1..Len(r) /\ i = Len(q) + (i - Len(q))
    BY <1>1, <1>3
  <2>2. (q \o r)[Len(q) + (i - Len(q))] = r[i - Len(q)]
    BY <2>1, Joined
  <2>3. i - Len(q) \in DOMAIN r
    BY <2>1, Joined
  <2> QED BY <2>1, <2>2, <2>3
<1> QED BY <1>1, <1>2, <1>3

LEMMA SameSeq ==
  ASSUME NEW V, NEW q \in Seq(V), NEW r \in Seq(V), Len(q) = Len(r),
         \A i \in 1..Len(q) : q[i] = r[i]
  PROVE  q = r
<1>1. DOMAIN q = 1..Len(q) /\ DOMAIN r = 1..Len(r)
  OBVIOUS
<1>2. q = [i \in 1..Len(q) |-> q[i]] /\ r = [i \in 1..Len(r) |-> r[i]]
  BY <1>1
<1> QED BY <1>2

\* A channel q with room for n takes s of r, and u is lost.
Splits(q, r, n, s, u) ==
    /\ r = s \o u
    /\ Fit(q \o r, n) = q \o s /\ Unfit(q \o r, n) = u
    /\ Len(q \o s) <= n
    /\ Len(q \o r) <= n => u = <<>>

LEMMA Cut ==
  ASSUME NEW V, NEW q \in Seq(V), NEW r \in Seq(V), NEW n \in Nat, Len(q) <= n
  PROVE  \E s, u \in Seq(V) : Splits(q, r, n, s, u)
<1> DEFINE m == IF Len(q) + Len(r) <= n THEN Len(r) ELSE n - Len(q)
           s == SubSeq(r, 1, m)
           u == SubSeq(r, m + 1, Len(r))
           w == q \o r
<1>1. /\ w \in Seq(V) /\ Len(w) = Len(q) + Len(r) /\ Len(q) \in Nat /\ Len(r) \in Nat
      /\ \A i \in 1..Len(q) : w[i] = q[i]
      /\ \A i \in 1..Len(r) : w[Len(q) + i] = r[i]
  BY Joined
<1>2. m \in 0..Len(r)
  BY <1>1
<1>3. /\ (IF Len(w) <= n THEN Len(w) ELSE n) = Len(q) + m
      /\ Len(q) + m <= n /\ (Len(w) <= n => m = Len(r))
  BY <1>1
<1> HIDE DEF m, w
<1>4. /\ s \in Seq(V) /\ Len(s) = m /\ \A i \in 1..m : s[i] = r[i]
      /\ u \in Seq(V) /\ Len(u) = Len(r) - m /\ \A i \in 1..(Len(r) - m) : u[i] = r[m + i]
  <2>1. /\ SubSeq(r, 1, m) \in Seq(V) /\ Len(SubSeq(r, 1, m)) = m
        /\ \A i \in 1..m : SubSeq(r, 1, m)[i] = r[i]
    BY <1>1, <1>2
  <2>2. /\ SubSeq(r, m + 1, Len(r)) \in Seq(V) /\ Len(SubSeq(r, m + 1, Len(r))) = Len(r) - m
        /\ \A i \in 1..(Len(r) - m) : SubSeq(r, m + 1, Len(r))[i] = r[m + i]
    BY <1>1, <1>2
  <2> QED BY <2>1, <2>2
<1> HIDE DEF s, u
<1>5. r = s \o u
  <2>1. /\ s \o u \in Seq(V) /\ Len(s \o u) = Len(r)
        /\ \A i \in 1..Len(s) : (s \o u)[i] = s[i]
        /\ \A i \in 1..Len(u) : (s \o u)[Len(s) + i] = u[i]
    BY <1>1, <1>2, <1>4, Joined, SMTT(60)
  <2>2. ASSUME NEW i \in 1..Len(r) PROVE r[i] = (s \o u)[i]
    <3>1. CASE i <= m
      BY <1>2, <1>4, <2>1, <2>2, <3>1
    <3>2. CASE i > m
      <4>1. i - m \in 1..(Len(r) - m) /\ m + (i - m) = i
        BY <1>1, <1>2, <2>2, <3>2
      <4>2. (s \o u)[Len(s) + (i - m)] = u[i - m] /\ u[i - m] = r[m + (i - m)]
        BY <1>4, <2>1, <4>1
      <4>3. Len(s) + (i - m) = i
        BY <1>4, <4>1
      <4>4. (s \o u)[i] = u[i - m]
        BY <4>2, <4>3
      <4>5. u[i - m] = r[i]
        BY <4>1, <4>2
      <4> QED BY <4>4, <4>5
    <3>3. i <= m \/ i > m
      BY <1>1, <1>2
    <3> QED BY <3>1, <3>2, <3>3
  <2> QED BY <2>1, <2>2, SameSeq
<1>6. Fit(w, n) = q \o s
  <2> DEFINE k == Len(q) + m
  <2>1. Fit(w, n) = SubSeq(w, 1, k)
    BY <1>3 DEF Fit
  <2>2. k \in 0..Len(w)
    BY <1>1, <1>2
  <2>3. /\ SubSeq(w, 1, k) \in Seq(V) /\ Len(SubSeq(w, 1, k)) = k
        /\ \A i \in 1..k : SubSeq(w, 1, k)[i] = w[i]
    <3> HIDE DEF k
    <3> QED BY <1>1, <2>2
  <2>4. /\ q \o s \in Seq(V) /\ Len(q \o s) = k
        /\ \A i \in 1..Len(q) : (q \o s)[i] = q[i]
        /\ \A i \in 1..Len(s) : (q \o s)[Len(q) + i] = s[i]
    <3>1. /\ q \o s \in Seq(V) /\ Len(q \o s) = Len(q) + Len(s)
          /\ \A i \in 1..Len(q) : (q \o s)[i] = q[i]
          /\ \A i \in 1..Len(s) : (q \o s)[Len(q) + i] = s[i]
      <4>1. s \in Seq(V)
        BY <1>4
      <4> QED BY <4>1, Joined
    <3> QED BY <1>4, <3>1
  <2>5. ASSUME NEW i \in 1..k PROVE SubSeq(w, 1, k)[i] = (q \o s)[i]
    <3>1. CASE i <= Len(q)
      BY <1>1, <1>2, <2>3, <2>4, <3>1
    <3>2. CASE i > Len(q)
      <4>1. i - Len(q) \in 1..m /\ Len(q) + (i - Len(q)) = i /\ i - Len(q) \in 1..Len(r)
        BY <1>1, <1>2, <3>2
      <4>2. (q \o s)[Len(q) + (i - Len(q))] = s[i - Len(q)] /\ s[i - Len(q)] = r[i - Len(q)]
            /\ w[Len(q) + (i - Len(q))] = r[i - Len(q)]
        BY <1>1, <1>4, <2>4, <4>1
      <4>3. (q \o s)[i] = w[i]
        BY <4>1, <4>2
      <4> QED BY <2>3, <2>5, <4>3
    <3>3. i <= Len(q) \/ i > Len(q)
      BY <1>1, <1>2
    <3> QED BY <3>1, <3>2, <3>3
  <2> HIDE DEF k
  <2> QED BY <2>1, <2>3, <2>4, <2>5, SameSeq
<1>7. Unfit(w, n) = u
  <2>1. CASE Len(w) <= n
    <3>1. u = <<>>
      BY <1>1, <1>3, <1>4, <2>1
    <3>2. SubSeq(w, n + 1, Len(w)) = <<>>
      BY <1>1, <2>1, SubSeqEmpty
    <3> QED BY <3>1, <3>2 DEF Unfit
  <2>2. CASE Len(w) > n
    <3>1. Len(q) + m = n
      BY <1>1, <1>3, <2>2
    <3>2. /\ SubSeq(w, n + 1, Len(w)) \in Seq(V) /\ Len(SubSeq(w, n + 1, Len(w))) = Len(w) - n
          /\ \A i \in 1..(Len(w) - n) : SubSeq(w, n + 1, Len(w))[i] = w[n + i]
      <4>1. \A i \in (n + 1)..Len(w) : w[i] \in V
        BY <1>1, ElementOfSeq
      <4>2. /\ n + 1 \in Int /\ Len(w) \in Int /\ n + 1 <= Len(w)
            /\ Len(w) - (n + 1) + 1 = Len(w) - n
            /\ \A i \in Nat : (n + 1) + i - 1 = n + i
        BY <1>1, <2>2
      <4>3. /\ SubSeq(w, n + 1, Len(w)) \in Seq(V)
            /\ Len(SubSeq(w, n + 1, Len(w))) = Len(w) - (n + 1) + 1
            /\ \A i \in 1..(Len(w) - (n + 1) + 1) : SubSeq(w, n + 1, Len(w))[i] = w[(n + 1) + i - 1]
        BY <4>1, <4>2, SubSeqProperties
      <4> QED BY <4>2, <4>3
    <3>5. /\ Len(w) = Len(q) + Len(r) /\ Len(q) \in Nat /\ Len(r) \in Nat
          /\ m \in Nat /\ m <= Len(r)
      <4>1. m \in Nat /\ m <= Len(r)
        BY <1>1, <1>2
      <4> QED BY <1>1, <4>1
    <3>6. Len(w) - n = Len(r) - m /\ n = Len(q) + m
      BY <3>1, <3>5
    <3>3. ASSUME NEW i \in 1..(Len(w) - n) PROVE w[n + i] = u[i]
      <4>1. i \in 1..(Len(r) - m) /\ m + i \in 1..Len(r) /\ Len(q) + (m + i) = n + i
        BY <3>5, <3>6
      <4>2. w[Len(q) + (m + i)] = r[m + i]
        BY <1>1, <4>1
      <4> QED BY <1>4, <4>1, <4>2
    <3>4. Len(u) = Len(w) - n
      BY <1>4, <3>6
    <3> QED BY <1>4, <3>2, <3>3, <3>4, SameSeq DEF Unfit
  <2> QED BY <1>1, <2>1, <2>2
<1>8. Len(q \o s) <= n
  BY <1>3, <1>4, Joined
<1>9. Len(w) <= n => u = <<>>
  BY <1>1, <1>3, <1>4
<1> QED BY <1>4, <1>5, <1>6, <1>7, <1>8, <1>9 DEF w, Splits

\* Events are counted piece by piece.
LEMMA PlacesJoined ==
  ASSUME NEW V, NEW q \in Seq(V), NEW r \in Seq(V), NEW ev
  PROVE  /\ Cardinality(Places(q, ev)) \in Nat /\ Cardinality(Places(r, ev)) \in Nat
         /\ Cardinality(Places(q \o r, ev)) = Cardinality(Places(q, ev)) + Cardinality(Places(r, ev))
<1> DEFINE n == Len(q)
           A == Places(q, ev)
           B == Places(r, ev)
           C == {n + i : i \in B}
<1>1. /\ n \in Nat /\ DOMAIN q = 1..n /\ Len(r) \in Nat /\ DOMAIN r = 1..Len(r)
      /\ DOMAIN (q \o r) = 1..(n + Len(r))
      /\ \A i \in 1..n : (q \o r)[i] = q[i]
      /\ \A i \in 1..Len(r) : (q \o r)[n + i] = r[i]
  BY Joined
<1>2. \A i \in DOMAIN (q \o r) : \/ i \in DOMAIN q /\ (q \o r)[i] = q[i]
                                \/ \E k \in DOMAIN r : i = n + k /\ (q \o r)[i] = r[k]
  BY JoinedFrom
<1>3. A \in SUBSET (1..n) /\ B \in SUBSET (1..Len(r)) /\ B \subseteq Nat
  BY <1>1 DEF Places
<1> HIDE DEF n
<1>4. Places(q \o r, ev) = A \cup C
  <2>1. ASSUME NEW i \in Places(q \o r, ev) PROVE i \in A \cup C
    BY <1>2, <2>1 DEF Places
  <2>2. ASSUME NEW i \in A PROVE i \in Places(q \o r, ev)
    BY <1>1, <2>2 DEF Places
  <2>3. ASSUME NEW i \in B PROVE n + i \in Places(q \o r, ev)
    BY <1>1, <2>3 DEF Places
  <2> QED BY <2>1, <2>2, <2>3
<1>5. A \cap C = {}
  BY <1>1, <1>3
<1>6. IsFiniteSet(A) /\ IsFiniteSet(B)
  <2> HIDE DEF A, B
  <2>1. 1 \in Int /\ n \in Int /\ Len(r) \in Int
    BY <1>1
  <2>2. IsFiniteSet(1..n) /\ IsFiniteSet(1..Len(r))
    BY <2>1, FS_Interval
  <2> QED BY <1>3, <2>2, FS_Subset
<1>7. IsFiniteSet(C) /\ Cardinality(C) = Cardinality(B)
  <2> DEFINE f == [i \in B |-> n + i]
  <2>1. f \in Bijection(B, C)
    <3> HIDE DEF B
    <3>1. \A i, j \in B : n + i = n + j => i = j
      BY <1>1, <1>3
    <3>2. f \in [B -> C] /\ \A i \in B : f[i] = n + i
      OBVIOUS
    <3>3. \A x \in C : \E i \in B : f[i] = x
      BY <3>2
    <3> QED BY <3>1, <3>2, <3>3 DEF Bijection, Injection, IsInjective, Surjection
  <2>2. ExistsBijection(B, C)
    BY <2>1 DEF ExistsBijection
  <2> QED BY <1>6, <2>2, FS_Bijection
<1>8. Cardinality(A \cap C) = 0
  BY <1>5, FS_EmptySet
<1>9. Cardinality(A) \in Nat /\ Cardinality(B) \in Nat
  BY <1>6, FS_CardinalityType
<1>10. Cardinality(A \cup C) = Cardinality(A) + Cardinality(B)
  <2> HIDE DEF A, B, C
  <2>1. Cardinality(A \cup C) = Cardinality(A) + Cardinality(C) - Cardinality(A \cap C)
    BY <1>6, <1>7, FS_Union
  <2> QED BY <1>7, <1>8, <1>9, <2>1
<1> QED BY <1>4, <1>9, <1>10

LEMMA DetentsJoined ==
  ASSUME NEW V, NEW q \in Seq(V), NEW r \in Seq(V)
  PROVE  /\ Detents(q) \in Int /\ Detents(r) \in Int
         /\ Detents(q \o r) = Detents(q) + Detents(r)
BY SMTT(60), PlacesJoined DEF Detents

LEMMA DetentsFew ==
  /\ Detents(<<>>) = 0
  /\ \A x : Detents(<<x>>) = IF x = <<"Encoder", 1>> THEN 1 ELSE IF x = <<"Encoder", -1>> THEN -1 ELSE 0
<1>1. \A ev : Places(<<>>, ev) = {}
  BY DEF Places
<1>2. \A x, ev : Places(<<x>>, ev) = IF x = ev THEN {1} ELSE {}
  <2>1. ASSUME NEW x, NEW ev PROVE Places(<<x>>, ev) = IF x = ev THEN {1} ELSE {}
    <3>1. DOMAIN <<x>> = {1} /\ <<x>>[1] = x
      OBVIOUS
    <3> QED BY <3>1 DEF Places
  <2> QED BY <2>1
<1>3. Cardinality({}) = 0 /\ Cardinality({1}) = 1
  BY FS_EmptySet, FS_Singleton
<1>4. <<"Encoder", 1>> # <<"Encoder", -1>>
  <2>1. <<"Encoder", 1>>[2] = 1 /\ <<"Encoder", -1>>[2] = -1
    OBVIOUS
  <2> QED BY <2>1
<1>5. Detents(<<>>) = 0
  <2>1. Detents(<<>>) = Cardinality(Places(<<>>, <<"Encoder", 1>>))
                          - Cardinality(Places(<<>>, <<"Encoder", -1>>))
    BY DEF Detents
  <2>2. /\ Cardinality(Places(<<>>, <<"Encoder", 1>>)) = 0
        /\ Cardinality(Places(<<>>, <<"Encoder", -1>>)) = 0
    BY <1>1, <1>3
  <2> QED BY <2>1, <2>2
<1>6. ASSUME NEW x
      PROVE  Detents(<<x>>) = IF x = <<"Encoder", 1>> THEN 1
                              ELSE IF x = <<"Encoder", -1>> THEN -1 ELSE 0
  <2> DEFINE cw == <<"Encoder", 1>>
             ccw == <<"Encoder", -1>>
  <2>1. Places(<<x>>, cw) = (IF x = cw THEN {1} ELSE {}) /\ Places(<<x>>, ccw) = (IF x = ccw THEN {1} ELSE {})
    BY <1>2
  <2>2. cw # ccw /\ Detents(<<x>>) = Cardinality(Places(<<x>>, cw)) - Cardinality(Places(<<x>>, ccw))
    BY <1>4 DEF Detents
  <2> HIDE DEF cw, ccw
  <2>3. Detents(<<x>>) = IF x = cw THEN 1 ELSE IF x = ccw THEN -1 ELSE 0
    BY <1>3, <2>1, <2>2
  <2> QED BY <2>3 DEF cw, ccw
<1> QED BY <1>5, <1>6

\* The head of a channel and the rest of it.
LEMMA HeadTail ==
  ASSUME NEW V, NEW q \in Seq(V), q # <<>>
  PROVE  /\ Head(q) \in V /\ Tail(q) \in Seq(V) /\ Len(Tail(q)) <= Len(q)
         /\ q = <<Head(q)>> \o Tail(q)
         /\ <<Head(q)>> \in Seq(V)
         /\ 1 \in DOMAIN q /\ q[1] = Head(q)
<1>1. /\ Head(q) \in V /\ Tail(q) \in Seq(V) /\ Len(q) \in Nat \ {0} /\ Len(Tail(q)) = Len(q) - 1
      /\ \A i \in 1..(Len(q) - 1) : Tail(q)[i] = q[i + 1]
      /\ DOMAIN q = 1..Len(q) /\ q[1] = Head(q)
  BY HeadTailProperties
<1> DEFINE h == <<Head(q)>>
<1>2. h \in Seq(V) /\ Len(h) = 1 /\ h[1] = Head(q)
  BY <1>1
<1> HIDE DEF h
<1> DEFINE t == Tail(q)
<1>3. /\ h \o t \in Seq(V) /\ Len(h \o t) = Len(q)
      /\ \A i \in 1..Len(h) : (h \o t)[i] = h[i]
      /\ \A i \in 1..Len(t) : (h \o t)[Len(h) + i] = t[i]
  <2>1. /\ h \o t \in Seq(V) /\ Len(h \o t) = Len(h) + Len(t)
        /\ \A i \in 1..Len(h) : (h \o t)[i] = h[i]
        /\ \A i \in 1..Len(t) : (h \o t)[Len(h) + i] = t[i]
    BY <1>1, <1>2, Joined
  <2> QED BY <1>1, <1>2, <2>1
<1>4. ASSUME NEW i \in 1..Len(q) PROVE q[i] = (h \o t)[i]
  <2>1. CASE i = 1
    BY <1>1, <1>2, <1>3, <2>1
  <2>2. CASE i # 1
    <3>1. i - 1 \in 1..(Len(q) - 1) /\ 1 + (i - 1) = i /\ (i - 1) + 1 = i
      BY <1>1, <2>2
    <3>2. (h \o t)[1 + (i - 1)] = t[i - 1] /\ t[i - 1] = q[(i - 1) + 1]
      BY <1>1, <1>2, <1>3, <3>1
    <3> QED BY <3>1, <3>2
  <2> QED BY <2>1, <2>2
<1>5. q = h \o t
  <2> HIDE DEF t
  <2> QED BY <1>3, <1>4, SameSeq
<1> QED BY <1>1, <1>2, <1>5 DEF h

\* What comes behind q leaves what q says alone, or says it anew.
LEMMA WillJoined ==
  ASSUME NEW V, NEW q \in Seq(V), NEW r \in Seq(V), NEW y, NEW z, ~Has(r, z)
  PROVE  /\ \A base : Will(q, y, z, base) => Will(q \o r, y, z, base)
         /\ Has(r, y) => \A base : Will(q \o r, y, z, base)
<1> DEFINE s == q \o r
           n == Len(q)
<1>1. /\ n \in Nat /\ DOMAIN q = 1..n /\ Len(r) \in Nat /\ DOMAIN r = 1..Len(r)
      /\ DOMAIN s = 1..(n + Len(r))
      /\ \A i \in 1..n : s[i] = q[i]
      /\ \A i \in 1..Len(r) : s[n + i] = r[i]
  BY Joined
<1>2. \A i \in DOMAIN s : \/ i \in DOMAIN q /\ s[i] = q[i]
                          \/ \E k \in DOMAIN r : i = n + k /\ s[i] = r[k]
  BY JoinedFrom
<1>3. \A i \in DOMAIN q : i \in DOMAIN s /\ s[i] = q[i] /\ i \in Nat /\ i <= n
  BY <1>1
<1>4. \A i \in DOMAIN r : n + i \in DOMAIN s /\ s[n + i] = r[i] /\ n + i > n
  BY <1>1
<1> HIDE DEF s, n
<1>5. ASSUME NEW i \in DOMAIN s, s[i] = z PROVE i \in DOMAIN q /\ q[i] = z /\ i <= n /\ i \in Nat
  BY <1>2, <1>3, <1>5 DEF Has
<1>6. ASSUME NEW base, Will(q, y, z, base) PROVE Will(s, y, z, base)
  <2>1. \A i \in DOMAIN s : s[i] = z => \E j \in DOMAIN s : j > i /\ s[j] = y
    BY <1>3, <1>5, <1>6 DEF Will
  <2>2. Has(q, y) => Has(s, y)
    BY <1>3 DEF Has
  <2> QED BY <1>6, <2>1, <2>2 DEF Will
<1>7. ASSUME Has(r, y), NEW base PROVE Will(s, y, z, base)
  <2>1. PICK k \in DOMAIN r : r[k] = y
    BY <1>7 DEF Has
  <2>2. n + k \in DOMAIN s /\ s[n + k] = y /\ n + k > n /\ n + k \in Nat /\ n \in Nat
    BY <1>1, <1>4, <2>1
  <2>3. \A i \in DOMAIN s : s[i] = z => n + k > i
    <3>1. ASSUME NEW i \in DOMAIN s, s[i] = z PROVE n + k > i
      <4>1. i <= n /\ i \in Nat
        BY <1>5, <3>1
      <4> QED BY <2>2, <4>1
    <3> QED BY <3>1
  <2> QED BY <2>2, <2>3 DEF Will, Has
<1> QED BY <1>6, <1>7 DEF s

\* What is taken from q says what it says, or leaves it to the rest.
LEMMA WillTail ==
  ASSUME NEW V, NEW q \in Seq(V), q # <<>>, NEW y, NEW z, y # z, NEW base, NEW next,
         Will(q, y, z, base),
         Head(q) = y => next,
         Head(q) \notin {y, z} /\ base => next
  PROVE  Will(Tail(q), y, z, next)
<1> DEFINE t == Tail(q)
<1>1. /\ t \in Seq(V) /\ Len(q) \in Nat \ {0} /\ Len(t) = Len(q) - 1
      /\ \A i \in 1..Len(t) : t[i] = q[i + 1]
      /\ DOMAIN q = 1..Len(q) /\ DOMAIN t = 1..Len(t) /\ q[1] = Head(q)
  BY HeadTailProperties
<1>2. \A i \in DOMAIN t : i \in Nat /\ i + 1 \in DOMAIN q /\ q[i + 1] = t[i]
  BY <1>1
<1>3. \A j \in DOMAIN q : j \in Nat /\ (j # 1 => j - 1 \in DOMAIN t /\ t[j - 1] = q[j])
  <2>1. ASSUME NEW j \in DOMAIN q, j # 1 PROVE j - 1 \in DOMAIN t /\ t[j - 1] = q[j]
    <3>1. j - 1 \in 1..Len(t) /\ (j - 1) + 1 = j
      BY <1>1, <2>1
    <3> QED BY <1>1, <3>1
  <2> QED BY <1>1, <2>1
<1> HIDE DEF t
<1>4. ASSUME NEW i \in DOMAIN t, t[i] = z PROVE \E j \in DOMAIN t : j > i /\ t[j] = y
  <2>1. PICK j \in DOMAIN q : j > i + 1 /\ q[j] = y
    BY <1>2, <1>4 DEF Will
  <2>2. i \in Nat /\ j \in Nat /\ j # 1 /\ j - 1 > i
    BY <1>2, <1>3, <2>1
  <2> QED BY <1>3, <2>1, <2>2
<1>5. Has(t, y) \/ next
  <2>1. CASE Head(q) = y
    BY <2>1
  <2>2. CASE Head(q) = z
    <3>1. 1 \in DOMAIN q /\ q[1] = z
      BY <1>1, <2>2
    <3>2. PICK j \in DOMAIN q : j > 1 /\ q[j] = y
      BY <3>1 DEF Will
    <3>3. j # 1
      BY <1>3, <3>2
    <3> QED BY <1>3, <3>2, <3>3 DEF Has
  <2>3. CASE Head(q) \notin {y, z}
    <3>1. ASSUME NEW j \in DOMAIN q, q[j] = y PROVE Has(t, y)
      <4>1. j # 1
        BY <1>1, <2>3, <3>1
      <4> QED BY <1>3, <3>1, <4>1 DEF Has
    <3> QED BY <2>3, <3>1 DEF Will, Has
  <2> QED BY <2>1, <2>2, <2>3
<1> QED BY <1>4, <1>5 DEF Will, t

LEMMA HasJoined ==
  ASSUME NEW V, NEW q \in Seq(V), NEW r \in Seq(V), NEW y
  PROVE  Has(q \o r, y) <=> Has(q, y) \/ Has(r, y)
<1>1. /\ Len(q) \in Nat /\ DOMAIN q = 1..Len(q) /\ Len(r) \in Nat /\ DOMAIN r = 1..Len(r)
      /\ DOMAIN (q \o r) = 1..(Len(q) + Len(r))
      /\ \A i \in 1..Len(q) : (q \o r)[i] = q[i]
      /\ \A i \in 1..Len(r) : (q \o r)[Len(q) + i] = r[i]
  BY Joined
<1>2. \A i \in DOMAIN (q \o r) : \/ i \in DOMAIN q /\ (q \o r)[i] = q[i]
                                \/ \E k \in DOMAIN r : i = Len(q) + k /\ (q \o r)[i] = r[k]
  BY JoinedFrom
<1>3. \A i \in DOMAIN q : i \in DOMAIN (q \o r)
  BY <1>1
<1>4. \A i \in DOMAIN r : Len(q) + i \in DOMAIN (q \o r)
  BY <1>1
<1> QED BY <1>1, <1>2, <1>3, <1>4 DEF Has

LEMMA HasFew ==
  ASSUME NEW y
  PROVE  ~Has(<<>>, y) /\ \A x : Has(<<x>>, y) <=> x = y
<1>1. DOMAIN <<>> = {}
  OBVIOUS
<1>2. \A x : DOMAIN <<x>> = {1} /\ <<x>>[1] = x
  OBVIOUS
<1> QED BY <1>1, <1>2 DEF Has

-----------------------------------------------------------------------------
(* The channels.                                                           *)

\* The words on the direction that are lost with gone.
Muted(gone) == \E i \in DOMAIN gone : gone[i][1] \in {"Switch", "DirectionSet"}

\* What becomes of events that are sent: s goes through, u is lost.
Passed(evs, s, u) ==
    /\ evs = s \o u
    /\ missed' = missed + Detents(u)
    /\ asked' = IF Muted(u) THEN [by |-> None] ELSE asked
    /\ lost' \in BOOLEAN /\ (~lost' => ~lost /\ u = <<>>)

LEMMA Reported ==
  ASSUME Types, NEW evs \in Seq(RawEvent), Report(evs)
  PROVE  \E s, u \in Seq(RawEvent) :
           Passed(evs, s, u) /\ raw' = raw \o s /\ Len(raw') <= RAW_CHANNEL_DEPTH
<1>1. raw \in Seq(RawEvent) /\ Len(raw) <= RAW_CHANNEL_DEPTH /\ RAW_CHANNEL_DEPTH \in Nat
  BY InputAssumption DEF Types
<1>2. PICK s, u \in Seq(RawEvent) : Splits(raw, evs, RAW_CHANNEL_DEPTH, s, u)
  BY <1>1, Cut
<1>3. Len(raw \o evs) \in Nat
  <2>1. raw \o evs \in Seq(RawEvent)
    BY <1>1, Joined
  <2> QED BY <2>1
<1>4. /\ raw' = raw \o s /\ lost' = (lost \/ Len(raw \o evs) > RAW_CHANNEL_DEPTH)
      /\ missed' = missed + Detents(u) /\ asked' = IF Muted(u) THEN [by |-> None] ELSE asked
  BY <1>2 DEF Report, Forget, Muted, Splits
<1>5. lost' \in BOOLEAN /\ (~lost' => ~lost /\ u = <<>>)
  <2>1. RAW_CHANNEL_DEPTH \in Nat /\ lost \in BOOLEAN
    BY InputAssumption DEF Types
  <2>2. ~lost' => Len(raw \o evs) <= RAW_CHANNEL_DEPTH /\ ~lost
    <3>1. Len(raw \o evs) > RAW_CHANNEL_DEPTH \/ Len(raw \o evs) <= RAW_CHANNEL_DEPTH
      BY <1>3, <2>1
    <3>2. lost' = (lost \/ Len(raw \o evs) > RAW_CHANNEL_DEPTH)
      BY <1>4
    <3> QED BY <3>1, <3>2, Zenon
  <2>3. lost' \in BOOLEAN
    BY <1>4, <2>1
  <2> QED BY <1>2, <2>2, <2>3 DEF Splits
<1> QED BY <1>2, <1>4, <1>5 DEF Passed, Splits

LEMMA Emitted ==
  ASSUME Types, NEW evs \in Seq(InputEvent), Emit(evs)
  PROVE  \E s, u \in Seq(InputEvent) :
           Passed(evs, s, u) /\ input' = input \o s /\ Len(input') <= INPUT_CHANNEL_DEPTH
<1>1. input \in Seq(InputEvent) /\ Len(input) <= INPUT_CHANNEL_DEPTH /\ INPUT_CHANNEL_DEPTH \in Nat
  BY InputAssumption DEF Types
<1>2. PICK s, u \in Seq(InputEvent) : Splits(input, evs, INPUT_CHANNEL_DEPTH, s, u)
  BY <1>1, Cut
<1>3. Len(input \o evs) \in Nat
  <2>1. input \o evs \in Seq(InputEvent)
    BY <1>1, Joined
  <2> QED BY <2>1
<1>4. /\ input' = input \o s /\ lost' = (lost \/ Len(input \o evs) > INPUT_CHANNEL_DEPTH)
      /\ missed' = missed + Detents(u) /\ asked' = IF Muted(u) THEN [by |-> None] ELSE asked
  BY <1>2 DEF Emit, Forget, Muted, Splits
<1>5. lost' \in BOOLEAN /\ (~lost' => ~lost /\ u = <<>>)
  <2>1. INPUT_CHANNEL_DEPTH \in Nat /\ lost \in BOOLEAN
    BY InputAssumption DEF Types
  <2>2. ~lost' => Len(input \o evs) <= INPUT_CHANNEL_DEPTH /\ ~lost
    <3>1. Len(input \o evs) > INPUT_CHANNEL_DEPTH \/ Len(input \o evs) <= INPUT_CHANNEL_DEPTH
      BY <1>3, <2>1
    <3>2. lost' = (lost \/ Len(input \o evs) > INPUT_CHANNEL_DEPTH)
      BY <1>4
    <3> QED BY <3>1, <3>2, Zenon
  <2>3. lost' \in BOOLEAN
    BY <1>4, <2>1
  <2> QED BY <1>2, <2>2, <2>3 DEF Splits
<1> QED BY <1>2, <1>4, <1>5 DEF Passed, Splits

-----------------------------------------------------------------------------
(* Types.                                                                  *)

LEMMA PortsAre ==
  /\ Ports = {"mcp0b", "mcp1a"}
  /\ Port["mcp0b"] = {"shift1", "stop"} /\ Port["mcp1a"] = {"joy", "direction"}
  /\ Keys = {"shift1", "stop", "joy", "direction", "knob"}
<1>1. Ports = {"mcp0b", "mcp1a"}
  BY DEF Ports, Port
<1>2. Port["mcp0b"] = {"shift1", "stop"} /\ Port["mcp1a"] = {"joy", "direction"}
  BY DEF Port
<1>3. UNION {Port[p] : p \in Ports} = Port["mcp0b"] \cup Port["mcp1a"]
  BY <1>1
<1> QED BY <1>1, <1>2, <1>3 DEF Keys

LEMMA PassedTypes ==
  ASSUME Types, NEW V, NEW s \in Seq(V), NEW u \in Seq(V), NEW evs, Passed(evs, s, u)
  PROVE  /\ missed' \in Int /\ asked' \in Said /\ lost' \in BOOLEAN
         /\ Detents(s) \in Int /\ missed' + Detents(s) = missed + Detents(evs)
         /\ Detents(evs) \in Int
<1>1. /\ Detents(s) \in Int /\ Detents(u) \in Int /\ Detents(evs) = Detents(s) + Detents(u)
  BY DetentsJoined DEF Passed
<1>2. missed \in Int /\ asked \in Said /\ [by |-> None] \in Said
  BY DEF Types, Said
<1> QED BY <1>1, <1>2 DEF Passed

LEMMA FewEvents ==
  ASSUME NEW V
  PROVE  <<>> \in Seq(V) /\ \A x \in V : <<x>> \in Seq(V)
OBVIOUS

LEMMA EdgeEvents ==
  ASSUME NEW k \in {"shift1", "stop", "joy"}, NEW was, NEW now
  PROVE  /\ Edge(k, was, now) \in Seq(RawEvent)
         /\ Edge(k, was, now) \in {<<>>, <<<<"Button", k, k \in now>>>>}
         /\ ((k \in was) # (k \in now)) => Edge(k, was, now) = <<<<"Button", k, k \in now>>>>
<1>1. <<"Button", k, k \in now>> \in RawEvent
  <2> DEFINE down == k \in now
  <2>1. k \in Buttons /\ down \in BOOLEAN
    BY DEF Buttons
  <2> HIDE DEF down
  <2>2. <<"Button", k, down>> \in {<<"Button", kk, b>> : kk \in Buttons, b \in BOOLEAN}
    BY <2>1
  <2>3. <<"Button", k, down>> \in RawEvent
    BY <2>2 DEF RawEvent
  <2> QED BY <2>3 DEF down
<1> QED BY <1>1, FewEvents DEF Edge

LEMMA EdgesEvents ==
  ASSUME NEW was, NEW now
  PROVE  /\ Edges(was, now) \in Seq(RawEvent)
         /\ Edge("shift1", was, now) \o Edge("stop", was, now) \in Seq(RawEvent)
         /\ \A y : Has(Edges(was, now), y) <=>
                     Has(Edge("shift1", was, now), y) \/ Has(Edge("stop", was, now), y)
                       \/ Has(Edge("joy", was, now), y)
<1> DEFINE p == Edge("shift1", was, now)
           q == Edge("stop", was, now)
           r == Edge("joy", was, now)
<1>1. p \in Seq(RawEvent) /\ q \in Seq(RawEvent) /\ r \in Seq(RawEvent)
  BY EdgeEvents
<1> HIDE DEF p, q, r
<1>2. p \o q \in Seq(RawEvent) /\ (p \o q) \o r \in Seq(RawEvent)
  BY <1>1, Joined
<1>3. \A y : Has((p \o q) \o r, y) <=> Has(p, y) \/ Has(q, y) \/ Has(r, y)
  <2>1. ASSUME NEW y PROVE Has((p \o q) \o r, y) <=> Has(p, y) \/ Has(q, y) \/ Has(r, y)
    <3>1. Has((p \o q) \o r, y) <=> Has(p \o q, y) \/ Has(r, y)
      BY <1>1, <1>2, HasJoined
    <3>2. Has(p \o q, y) <=> Has(p, y) \/ Has(q, y)
      BY <1>1, HasJoined
    <3> QED BY <3>1, <3>2
  <2> QED BY <2>1
<1> QED BY <1>2, <1>3 DEF Edges, p, q, r

LEMMA SwitchEvents ==
  ASSUME NEW now
  PROVE  /\ SwitchReport(now) \in Seq(RawEvent)
         /\ SwitchReport(now) \in {<<>>, <<<<"Switch", Fwd(now)>>>>}
         /\ now # spoke => SwitchReport(now) = <<<<"Switch", Fwd(now)>>>>
         /\ Fwd(now) \in Dir
<1>1. Fwd(now) \in Dir
  BY DEF Fwd, Dir
<1>2. <<"Switch", Fwd(now)>> \in RawEvent
  BY <1>1 DEF RawEvent
<1> QED BY <1>1, <1>2, FewEvents DEF SwitchReport

\* What one poll of the expander says.
Polled(b, a) ==
    Edges(chip["mcp0b"].stable, b) \o Edges(chip["mcp1a"].stable, a) \o SwitchReport(a)

LEMMA PolledEvents ==
  ASSUME NEW b, NEW a
  PROVE  /\ Polled(b, a) \in Seq(RawEvent)
         /\ \A y : Has(Polled(b, a), y) <=>
              \/ \E k \in {"shift1", "stop", "joy"} :
                   Has(Edge(k, chip["mcp0b"].stable, b), y) \/ Has(Edge(k, chip["mcp1a"].stable, a), y)
              \/ Has(SwitchReport(a), y)
<1> DEFINE p == Edges(chip["mcp0b"].stable, b)
           q == Edges(chip["mcp1a"].stable, a)
           r == SwitchReport(a)
<1>1. p \in Seq(RawEvent) /\ q \in Seq(RawEvent) /\ r \in Seq(RawEvent)
  BY EdgesEvents, SwitchEvents
<1>2. \A y : /\ Has(p, y) <=> \E k \in {"shift1", "stop", "joy"} : Has(Edge(k, chip["mcp0b"].stable, b), y)
             /\ Has(q, y) <=> \E k \in {"shift1", "stop", "joy"} : Has(Edge(k, chip["mcp1a"].stable, a), y)
  BY EdgesEvents
<1> HIDE DEF p, q, r
<1>3. p \o q \in Seq(RawEvent) /\ (p \o q) \o r \in Seq(RawEvent)
  BY <1>1, Joined
<1>4. ASSUME NEW y PROVE Has((p \o q) \o r, y) <=> Has(p, y) \/ Has(q, y) \/ Has(r, y)
  <2>1. Has((p \o q) \o r, y) <=> Has(p \o q, y) \/ Has(r, y)
    BY <1>1, <1>3, HasJoined
  <2>2. Has(p \o q, y) <=> Has(p, y) \/ Has(q, y)
    BY <1>1, HasJoined
  <2> QED BY <2>1, <2>2
<1>5. Polled(b, a) = (p \o q) \o r
  BY DEF Polled, p, q, r
<1>6. \A y : Has(r, y) <=> Has(SwitchReport(a), y)
  BY DEF r
<1> QED BY <1>2, <1>3, <1>4, <1>5, <1>6

LEMMA PollStep ==
  ASSUME Types, Poll
  PROVE  \E b \in SUBSET Port["mcp0b"] : \E a \in SUBSET Port["mcp1a"] :
           /\ chip' \in [Ports -> [stable : SUBSET Keys, ticks : 0..(DEBOUNCE_TICKS - 1)]]
           /\ \A p \in Ports : chip'[p].stable \subseteq Port[p]
           /\ chip'["mcp0b"].stable = b /\ chip'["mcp1a"].stable = a /\ spoke' = a
           /\ Report(Polled(b, a))
           /\ grip' = [grip EXCEPT !.slipped = @ \/ ~Chorded(b)]
           /\ UNCHANGED <<pins, told, knob, input, surface, dom, budget, blanks>>
<1>1. PICK answers \in SUBSET Ports, bounce \in SUBSET ((pins \cup Stable) \ (pins \cap Stable)) :
        LET read(p) == {k \in Port[p] : (k \in pins) # (k \in bounce)}
            next == [p \in Ports |-> IF p \in answers THEN Debounced(chip[p], read(p)) ELSE chip[p]]
            b == next["mcp0b"].stable
            a == next["mcp1a"].stable
        IN  /\ chip' = next
            /\ spoke' = a
            /\ Report(Edges(chip["mcp0b"].stable, b) \o Edges(chip["mcp1a"].stable, a)
                        \o SwitchReport(a))
            /\ grip' = [grip EXCEPT !.slipped = @ \/ ~Chorded(b)]
            /\ UNCHANGED <<pins, told, knob, input, surface, dom, budget, blanks>>
  BY DEF Poll
<1> DEFINE Chip == [stable : SUBSET Keys, ticks : 0..(DEBOUNCE_TICKS - 1)]
           read(p) == {k \in Port[p] : (k \in pins) # (k \in bounce)}
           new(p) == IF p \in answers THEN Debounced(chip[p], read(p)) ELSE chip[p]
           next == [p \in Ports |-> new(p)]
<1>2. ASSUME NEW p \in Ports PROVE new(p) \in Chip /\ new(p).stable \subseteq Port[p]
  <2>1. chip[p] \in Chip /\ chip[p].stable \subseteq Port[p]
    BY DEF Types
  <2>2. read(p) \subseteq Port[p] /\ read(p) \subseteq Keys
    BY PortsAre
  <2>3. ASSUME NEW c \in Chip, NEW r \in SUBSET Keys
        PROVE  Debounced(c, r) \in Chip /\ Debounced(c, r).stable \in {c.stable, r}
    BY DEF Debounced, DEBOUNCE_TICKS
  <2> HIDE DEF Chip, read
  <2> QED BY <2>1, <2>2, <2>3
<1> HIDE DEF new
<1>3. next \in [Ports -> Chip] /\ \A p \in Ports : next[p] = new(p)
  BY <1>2
<1>4. chip' = next
  BY <1>1 DEF new
<1>5. /\ next["mcp0b"].stable \in SUBSET Port["mcp0b"] /\ next["mcp1a"].stable \in SUBSET Port["mcp1a"]
      /\ \A p \in Ports : next[p].stable \subseteq Port[p]
  BY <1>2, <1>3, PortsAre
<1> HIDE DEF next
<1>6. /\ spoke' = chip'["mcp1a"].stable
      /\ Report(Polled(chip'["mcp0b"].stable, chip'["mcp1a"].stable))
      /\ grip' = [grip EXCEPT !.slipped = @ \/ ~Chorded(chip'["mcp0b"].stable)]
      /\ UNCHANGED <<pins, told, knob, input, surface, dom, budget, blanks>>
  BY <1>1 DEF Polled
<1> QED BY <1>3, <1>4, <1>5, <1>6

-----------------------------------------------------------------------------
(* The decoder.                                                            *)

LEMMA PackIs ==
  ASSUME NEW n \in Int
  PROVE  /\ Pack(n) \in 0..3 /\ n % 4 \in 0..3
         /\ n % 4 = 0 => Pack(n) = 3
         /\ n % 4 = 1 => Pack(n) = 1
         /\ n % 4 = 2 => Pack(n) = 0
         /\ n % 4 = 3 => Pack(n) = 2
<1>1. n % 4 \in 0..3
  OBVIOUS
<1> DEFINE m == n % 4
           W == <<3, 1, 0, 2>>
<1>2. W[1] = 3 /\ W[2] = 1 /\ W[3] = 0 /\ W[4] = 2
  OBVIOUS
<1>3. Pack(n) = W[m + 1]
  BY DEF Pack
<1> HIDE DEF m, W
<1>4. m \in {0, 1, 2, 3}
  BY <1>1 DEF m
<1>5. /\ m = 0 => Pack(n) = 3
      /\ m = 1 => Pack(n) = 1
      /\ m = 2 => Pack(n) = 0
      /\ m = 3 => Pack(n) = 2
  BY <1>2, <1>3
<1>6. Pack(n) \in 0..3
  BY <1>4, <1>5
<1> QED BY <1>1, <1>5, <1>6 DEF m

LEMMA TableIs ==
  /\ TABLE[1] = 0 /\ TABLE[2] = -1 /\ TABLE[3] = 1 /\ TABLE[4] = 0
  /\ TABLE[5] = 1 /\ TABLE[6] = 0 /\ TABLE[7] = 0 /\ TABLE[8] = -1
  /\ TABLE[9] = -1 /\ TABLE[10] = 0 /\ TABLE[11] = 0 /\ TABLE[12] = 1
  /\ TABLE[13] = 0 /\ TABLE[14] = 1 /\ TABLE[15] = -1 /\ TABLE[16] = 0
BY DEF TABLE

\* The table tells a step from a jump: one step counts as it was, a jump of two as none.
LEMMA Looked ==
  ASSUME NEW s \in Int, NEW p \in Int, p - s \in -2..2
  PROVE  /\ TABLE[Pack(s) * 4 + Pack(p) + 1] \in {-1, 0, 1}
         /\ TABLE[Pack(s) * 4 + Pack(p) + 1] = IF p - s \in {-2, 2} THEN 0 ELSE p - s
<1> DEFINE m == s % 4
           n == p % 4
           a == Pack(s)
           b == Pack(p)
<1>1. /\ m \in 0..3
      /\ m = 0 => a = 3
      /\ m = 1 => a = 1
      /\ m = 2 => a = 0
      /\ m = 3 => a = 2
  BY PackIs
<1>2. /\ n \in 0..3
      /\ n = 0 => b = 3
      /\ n = 1 => b = 1
      /\ n = 2 => b = 0
      /\ n = 3 => b = 2
  BY PackIs
<1>3. /\ p = s => n = m
      /\ p = s + 1 => n = IF m = 3 THEN 0 ELSE m + 1
      /\ p = s - 1 => n = IF m = 0 THEN 3 ELSE m - 1
      /\ p = s + 2 => n = IF m = 3 THEN 1 ELSE IF m = 2 THEN 0 ELSE m + 2
      /\ p = s - 2 => n = IF m = 0 THEN 2 ELSE IF m = 1 THEN 3 ELSE m - 2
  OBVIOUS
<1>4. p = s \/ p = s + 1 \/ p = s - 1 \/ p = s + 2 \/ p = s - 2
  OBVIOUS
<1> HIDE DEF m, n, a, b
<1> DEFINE x == TABLE[a * 4 + b + 1]
<1>5. CASE m = 0
  BY <1>1, <1>2, <1>3, <1>4, <1>5, TableIs DEF a, b
<1>6. CASE m = 1
  BY <1>1, <1>2, <1>3, <1>4, <1>6, TableIs DEF a, b
<1>7. CASE m = 2
  BY <1>1, <1>2, <1>3, <1>4, <1>7, TableIs DEF a, b
<1>8. CASE m = 3
  BY <1>1, <1>2, <1>3, <1>4, <1>8, TableIs DEF a, b
<1> QED BY <1>1, <1>5, <1>6, <1>7, <1>8

KnobType == [pos : Int, seen : Int, old : 0..3,
             accum : (1 - DETENT_STEPS)..(DETENT_STEPS - 1), delta : {-1, 0, 1}, skips : Nat]

LEMMA Decoded ==
  ASSUME Types, Count
  PROVE  LET k == Update(knob)
         IN  /\ k \in KnobType
             /\ k.seen = knob.pos /\ k.pos = knob.pos /\ k.old = Pack(knob.pos)
             /\ \/ /\ k.skips = knob.skips
                   /\ DETENT_STEPS * k.delta + k.accum = knob.accum + (knob.pos - knob.seen)
                \/ /\ k.skips = knob.skips + 1 /\ knob.pos - knob.seen \in {-2, 2}
                   /\ DETENT_STEPS * k.delta + k.accum = knob.accum
<1> DEFINE k == Update(knob)
           step == TABLE[knob.old * 4 + Pack(knob.pos) + 1]
           sum == knob.accum + step
           d == IF sum >= DETENT_STEPS THEN 1 ELSE IF sum <= -DETENT_STEPS THEN -1 ELSE 0
           skip == knob.pos - knob.seen \in {-2, 2}
<1>1. knob \in KnobType /\ knob.pos \in Int /\ knob.seen \in Int /\ knob.accum \in -3..3
        /\ knob.skips \in Nat
  BY DEF Types, KnobType, DETENT_STEPS
<1>2. step \in {-1, 0, 1} /\ step = IF skip THEN 0 ELSE knob.pos - knob.seen
  <2>1. knob.pos - knob.seen \in -2..2 /\ knob.old = Pack(knob.seen)
    BY DEF Count
  <2> QED BY <1>1, <2>1, Looked
<1>3. Pack(knob.pos) \in 0..3
  BY <1>1, PackIs
<1> HIDE DEF step
<1> DEFINE acc == IF d = 0 THEN sum ELSE 0
           sk == IF skip THEN knob.skips + 1 ELSE knob.skips
<1>4. d \in {-1, 0, 1} /\ acc \in -3..3 /\ DETENT_STEPS * d + acc = sum
  BY <1>1, <1>2 DEF DETENT_STEPS
<1>5. k = [pos |-> knob.pos, seen |-> knob.pos, old |-> Pack(knob.pos), accum |-> acc,
           delta |-> d, skips |-> sk]
  BY DEF Update, step
<1>10. sk \in Nat
  BY <1>1
<1> HIDE DEF d, sum, acc, sk
<1>11. acc \in (1 - DETENT_STEPS)..(DETENT_STEPS - 1)
  BY <1>4 DEF DETENT_STEPS
<1>6. /\ k \in KnobType /\ k.old = Pack(knob.pos) /\ k.seen = knob.pos /\ k.pos = knob.pos
      /\ k.accum = acc /\ k.delta = d /\ k.skips = sk
  BY <1>1, <1>3, <1>4, <1>5, <1>10, <1>11 DEF KnobType
<1> HIDE DEF k, skip
<1>7. /\ DETENT_STEPS * k.delta + k.accum = sum
      /\ sum = knob.accum + (IF skip THEN 0 ELSE knob.pos - knob.seen)
  BY <1>2, <1>4, <1>6 DEF sum
<1>12. k.skips = IF skip THEN knob.skips + 1 ELSE knob.skips
  BY <1>6 DEF sk
<1>8. CASE skip
  BY <1>1, <1>6, <1>7, <1>8, <1>12 DEF k, skip
<1>9. CASE ~skip
  BY <1>1, <1>6, <1>7, <1>9, <1>12 DEF k
<1> QED BY <1>8, <1>9

-----------------------------------------------------------------------------
(* The bridge.                                                             *)

SurfaceType == [shift : BOOLEAN, stop : BOOLEAN, since : {NotHeld} \cup 0..HOLD, fired : BOOLEAN]

LEMMA RawIs ==
  ASSUME NEW h \in RawEvent
  PROVE  \/ h = <<"Encoder", 1>> \/ h = <<"Encoder", -1>>
         \/ h = <<"Switch", "fwd">> \/ h = <<"Switch", "rev">>
         \/ \E k \in Buttons, b \in BOOLEAN : h = <<"Button", k, b>>
BY DEF RawEvent, Dir

LEMMA ChordIs ==
  ASSUME NEW s \in SurfaceType
  PROVE  /\ Chord(s) \in SurfaceType
         /\ Chord(s).shift = s.shift /\ Chord(s).stop = s.stop
         /\ ~(s.shift /\ s.stop) => Chord(s).since = NotHeld /\ ~Chord(s).fired
         /\ s.shift /\ s.stop =>
              /\ Chord(s).since = IF s.since = NotHeld THEN 0 ELSE s.since
              /\ Chord(s).fired /\ ~s.fired => s.since >= HOLD
<1>1. /\ s.shift \in BOOLEAN /\ s.stop \in BOOLEAN /\ s.since \in {NotHeld} \cup 0..HOLD
      /\ s.fired \in BOOLEAN /\ HOLD \in Nat \ {0}
      /\ s = [shift |-> s.shift, stop |-> s.stop, since |-> s.since, fired |-> s.fired]
  BY InputAssumption DEF SurfaceType
<1>2. CASE ~(s.shift /\ s.stop)
  <2>1. Chord(s) = [s EXCEPT !.since = NotHeld, !.fired = FALSE]
    BY <1>2 DEF Chord
  <2> QED BY <1>1, <1>2, <2>1 DEF SurfaceType
<1>3. CASE s.shift /\ s.stop /\ s.since = NotHeld
  <2>1. Chord(s) = [s EXCEPT !.since = 0]
    BY <1>3 DEF Chord
  <2>2. 0 # NotHeld /\ ~(NotHeld >= HOLD) /\ 0 \in 0..HOLD
    BY <1>1 DEF NotHeld
  <2> QED BY <1>1, <1>3, <2>1, <2>2 DEF SurfaceType
<1>4. CASE s.shift /\ s.stop /\ s.since # NotHeld
  <2> DEFINE f == s.fired \/ s.since >= HOLD
  <2>1. Chord(s) = [s EXCEPT !.fired = f]
    BY <1>4 DEF Chord
  <2>2. f \in BOOLEAN /\ (f /\ ~s.fired => s.since >= HOLD)
    BY <1>1
  <2> HIDE DEF f
  <2> QED BY <1>1, <1>4, <2>1, <2>2 DEF SurfaceType
<1>6. (s.shift /\ s.stop) \/ ~(s.shift /\ s.stop)
  BY <1>1
<1> QED BY <1>2, <1>3, <1>4, <1>6

LEMMA KeepIs ==
  ASSUME NEW s \in SurfaceType, NEW h \in RawEvent
  PROVE  /\ Keep(s, h) \in SurfaceType
         /\ Keep(s, h).since = s.since /\ Keep(s, h).fired = s.fired
         /\ Keep(s, h).shift = IF h[1] = "Button" /\ h[2] = "shift1" THEN h[3] ELSE s.shift
         /\ Keep(s, h).stop = IF h[1] = "Button" /\ h[2] = "stop" THEN h[3] ELSE s.stop
<1>1. /\ s.shift \in BOOLEAN /\ s.stop \in BOOLEAN /\ s.since \in {NotHeld} \cup 0..HOLD
      /\ s.fired \in BOOLEAN
      /\ s = [shift |-> s.shift, stop |-> s.stop, since |-> s.since, fired |-> s.fired]
  BY DEF SurfaceType
<1>2. h[1] = "Button" => h[3] \in BOOLEAN
  BY RawIs
<1>3. CASE h[1] = "Button" /\ h[2] = "shift1"
  <2>1. Keep(s, h) = [s EXCEPT !.shift = h[3]]
    BY <1>3 DEF Keep
  <2> QED BY <1>1, <1>2, <1>3, <2>1 DEF SurfaceType
<1>4. CASE h[1] = "Button" /\ h[2] = "stop"
  <2>1. Keep(s, h) = [s EXCEPT !.stop = h[3]]
    BY <1>4 DEF Keep
  <2> QED BY <1>1, <1>2, <1>4, <2>1 DEF SurfaceType
<1>5. CASE ~(h[1] = "Button" /\ h[2] = "shift1") /\ ~(h[1] = "Button" /\ h[2] = "stop")
  <2>1. Keep(s, h) = s
    BY <1>5 DEF Keep
  <2> QED BY <1>5, <2>1
<1> QED BY <1>3, <1>4, <1>5

LEMMA InputEvents ==
  /\ <<"Encoder", 1>> \in InputEvent /\ <<"Encoder", -1>> \in InputEvent
  /\ <<"DirectionSet", "fwd">> \in InputEvent /\ <<"DirectionSet", "rev">> \in InputEvent
  /\ <<"CaseToggle">> \in InputEvent /\ <<"Stop">> \in InputEvent /\ <<"Nav">> \in InputEvent
  /\ <<"EncoderButton">> \in InputEvent /\ <<"EnterProgrammingMode">> \in InputEvent
BY DEF InputEvent, Dir

\* What the bridge makes of an event.
LEMMA MappedIs ==
  ASSUME NEW s, NEW h \in RawEvent
  PROVE  /\ h[1] = "Encoder" => Mapped(s, h) = <<h>>
         /\ h[1] = "Switch" => Mapped(s, h) = <<<<"DirectionSet", h[2]>>>>
         /\ h[1] = "Button" =>
              Mapped(s, h) \in {<<>>, <<<<"CaseToggle">>>>, <<<<"Stop">>>>, <<<<"Nav">>>>,
                                <<<<"EncoderButton">>>>}
<1>1. ASSUME NEW k \in Buttons, NEW b \in BOOLEAN, h = <<"Button", k, b>>
      PROVE  Mapped(s, h) \in {<<>>, <<<<"CaseToggle">>>>, <<<<"Stop">>>>, <<<<"Nav">>>>,
                                <<<<"EncoderButton">>>>}
  <2>1. h[1] = "Button" /\ h[2] = k /\ h[3] = b
    BY <1>1
  <2>2. k \in {"shift1", "stop", "joy", "knob"}
    BY DEF Buttons
  <2>3. CASE ~b
    BY <2>1, <2>3 DEF Mapped
  <2>4. CASE b /\ k = "shift1"
    BY <2>1, <2>4 DEF Mapped
  <2>5. CASE b /\ k = "stop"
    BY <2>1, <2>5 DEF Mapped
  <2>6. CASE b /\ k = "joy"
    BY <2>1, <2>6 DEF Mapped
  <2>7. CASE b /\ k = "knob"
    BY <2>1, <2>7 DEF Mapped
  <2> QED BY <2>2, <2>3, <2>4, <2>5, <2>6, <2>7
<1>2. CASE h[1] = "Encoder"
  BY <1>2 DEF Mapped
<1>3. CASE h[1] = "Switch"
  BY <1>3 DEF Mapped
<1>4. h[1] = "Button" => \E k \in Buttons, b \in BOOLEAN : h = <<"Button", k, b>>
  BY RawIs
<1> QED BY <1>1, <1>2, <1>3, <1>4

LEMMA BridgeEvents ==
  ASSUME NEW s, NEW c, NEW h \in RawEvent
  PROVE  /\ Mapped(s, h) \in Seq(InputEvent) /\ Fires(c) \in Seq(InputEvent)
         /\ Mapped(s, h) \o Fires(c) \in Seq(InputEvent)
         /\ Detents(Mapped(s, h)) = Detents(<<h>>) /\ Detents(Fires(c)) = 0
         /\ Detents(Mapped(s, h) \o Fires(c)) = Detents(<<h>>)
         /\ \A d : ~Has(Fires(c), <<"DirectionSet", d>>)
         /\ \A d : Has(Mapped(s, h) \o Fires(c), <<"DirectionSet", d>>) <=> h = <<"Switch", d>>
<1>1. /\ Fires(c) \in Seq(InputEvent) /\ Detents(Fires(c)) = 0
      /\ \A d : ~Has(Fires(c), <<"DirectionSet", d>>)
  <2>1. Fires(c) \in {<<>>, <<<<"EnterProgrammingMode">>>>}
    BY DEF Fires
  <2>2. \A d : <<"EnterProgrammingMode">> # <<"DirectionSet", d>>
    OBVIOUS
  <2>3. CASE Fires(c) = <<>>
    BY <2>3, FewEvents, DetentsFew, HasFew
  <2>4. CASE Fires(c) = <<<<"EnterProgrammingMode">>>>
    <3>1. Detents(Fires(c)) = 0
      BY <2>4, DetentsFew
    <3>2. Fires(c) \in Seq(InputEvent)
      BY <2>4, FewEvents, InputEvents
    <3>3. \A d : ~Has(Fires(c), <<"DirectionSet", d>>)
      <4>1. ASSUME NEW d PROVE ~Has(Fires(c), <<"DirectionSet", d>>)
        <5> DEFINE x == <<"EnterProgrammingMode">>
                   y == <<"DirectionSet", d>>
        <5>1. x # y
          OBVIOUS
        <5> HIDE DEF x, y
        <5>2. ~Has(<<x>>, y)
          BY <5>1, HasFew
        <5> QED BY <2>4, <5>2 DEF x, y
      <4> QED BY <4>1
    <3> QED BY <3>1, <3>2, <3>3
  <2> QED BY <2>1, <2>3, <2>4
<1>2. /\ Mapped(s, h) \in Seq(InputEvent) /\ Detents(Mapped(s, h)) = Detents(<<h>>)
      /\ \A d : Has(Mapped(s, h), <<"DirectionSet", d>>) <=> h = <<"Switch", d>>
  <2>1. CASE h[1] = "Encoder" /\ h \in {<<"Encoder", 1>>, <<"Encoder", -1>>}
    <3>1. Mapped(s, h) = <<h>>
      BY <2>1, MappedIs
    <3>2. h \in InputEvent
      BY <2>1, InputEvents
    <3>3. \A d : h # <<"Switch", d>> /\ h # <<"DirectionSet", d>>
      BY <2>1
    <3> QED BY <3>1, <3>2, <3>3, FewEvents, HasFew
  <2>2. CASE h[1] = "Switch" /\ h \in {<<"Switch", "fwd">>, <<"Switch", "rev">>}
    <3> DEFINE x == <<"DirectionSet", h[2]>>
    <3>1. Mapped(s, h) = <<x>>
      BY <2>2, MappedIs
    <3>2. x \in InputEvent
      BY <2>2, InputEvents
    <3>3. \A d : x = <<"DirectionSet", d>> <=> h = <<"Switch", d>>
      BY <2>2
    <3>4. /\ x # <<"Encoder", 1>> /\ x # <<"Encoder", -1>> /\ h # <<"Encoder", 1>>
          /\ h # <<"Encoder", -1>>
      BY <2>2
    <3> HIDE DEF x
    <3>5. Detents(<<x>>) = 0 /\ Detents(<<h>>) = 0
      BY <3>4, DetentsFew
    <3>6. <<x>> \in Seq(InputEvent)
      BY <3>2, FewEvents
    <3>7. \A d : Has(<<x>>, <<"DirectionSet", d>>) <=> h = <<"Switch", d>>
      BY <3>3, HasFew
    <3> QED BY <3>1, <3>5, <3>6, <3>7
  <2>3. CASE h[1] = "Button"
    <3>1. Mapped(s, h) \in {<<>>, <<<<"CaseToggle">>>>, <<<<"Stop">>>>, <<<<"Nav">>>>,
                                <<<<"EncoderButton">>>>}
      BY <2>3, MappedIs
    <3>2. \A d : h # <<"Switch", d>>
      BY <2>3
    <3>3. h # <<"Encoder", 1>> /\ h # <<"Encoder", -1>>
      BY <2>3
    <3>4. Detents(<<h>>) = 0
      BY <3>3, DetentsFew
    <3>5. CASE Mapped(s, h) = <<>>
      BY <3>2, <3>4, <3>5, FewEvents, DetentsFew, HasFew
    <3>6. ASSUME NEW x \in {<<"CaseToggle">>, <<"Stop">>, <<"Nav">>, <<"EncoderButton">>},
                 Mapped(s, h) = <<x>>
          PROVE  /\ Mapped(s, h) \in Seq(InputEvent) /\ Detents(Mapped(s, h)) = 0
                 /\ \A d : ~Has(Mapped(s, h), <<"DirectionSet", d>>)
      <4>1. x \in InputEvent
        BY InputEvents
      <4>2. x # <<"Encoder", 1>> /\ x # <<"Encoder", -1>>
        OBVIOUS
      <4>3. \A d : x # <<"DirectionSet", d>>
        OBVIOUS
      <4>4. Detents(<<x>>) = 0
        BY <4>2, DetentsFew
      <4>5. <<x>> \in Seq(InputEvent)
        BY <4>1, FewEvents
      <4>6. \A d : ~Has(<<x>>, <<"DirectionSet", d>>)
        BY <4>3, HasFew
      <4> QED BY <3>6, <4>4, <4>5, <4>6
    <3>7. Mapped(s, h) # <<>> =>
            \E x \in {<<"CaseToggle">>, <<"Stop">>, <<"Nav">>, <<"EncoderButton">>} :
              Mapped(s, h) = <<x>>
      BY <3>1
    <3> QED BY <3>2, <3>4, <3>5, <3>6, <3>7
  <2>4. \/ h[1] = "Encoder" /\ h \in {<<"Encoder", 1>>, <<"Encoder", -1>>}
        \/ h[1] = "Switch" /\ h \in {<<"Switch", "fwd">>, <<"Switch", "rev">>}
        \/ h[1] = "Button"
    BY RawIs
  <2> QED BY <2>1, <2>2, <2>3, <2>4
<1> DEFINE m == Mapped(s, h)
           f == Fires(c)
<1> HIDE DEF m, f
<1>3. /\ m \in Seq(InputEvent) /\ f \in Seq(InputEvent) /\ Detents(m) = Detents(<<h>>)
      /\ Detents(f) = 0
      /\ \A d : ~Has(f, <<"DirectionSet", d>>)
      /\ \A d : Has(m, <<"DirectionSet", d>>) <=> h = <<"Switch", d>>
  BY <1>1, <1>2 DEF m, f
<1>4. m \o f \in Seq(InputEvent)
  BY <1>3, Joined
<1>5. Detents(m \o f) = Detents(<<h>>)
  <2>1. Detents(m \o f) = Detents(m) + Detents(f) /\ Detents(m) \in Int
    BY <1>3, DetentsJoined
  <2> QED BY <1>3, <2>1
<1>6. ASSUME NEW d PROVE Has(m \o f, <<"DirectionSet", d>>) <=> h = <<"Switch", d>>
  <2>1. Has(m \o f, <<"DirectionSet", d>>) <=> Has(m, <<"DirectionSet", d>>) \/ Has(f, <<"DirectionSet", d>>)
    BY <1>3, HasJoined
  <2> QED BY <1>3, <2>1
<1> QED BY <1>3, <1>4, <1>5, <1>6 DEF m, f

-----------------------------------------------------------------------------
(* Types and the count.                                                    *)

Heard == dom.detents + missed + Detents(raw) + Detents(input)

DomType == [phase : {"splash", "awake", "blank", "programming"}, spdt : Dir,
            loco : BOOLEAN, dir : Dir, detents : Int]

LEMMA Sums ==
  ASSUME Types
  PROVE  /\ Detents(raw) \in Int /\ Detents(input) \in Int /\ missed \in Int
         /\ dom \in DomType /\ dom.detents \in Int /\ Heard \in Int
<1>1. raw \in Seq(RawEvent) /\ input \in Seq(InputEvent)
  BY DEF Types
<1>2. Detents(raw) \in Int /\ Detents(input) \in Int
  BY <1>1, DetentsJoined
<1>3. missed \in Int /\ dom \in DomType
  BY DEF Types, DomType
<1>4. dom.detents \in Int
  BY <1>3 DEF DomType
<1> QED BY <1>2, <1>3, <1>4 DEF Heard

LEMMA DetentsNext ==
  Detents(raw)' = Detents(raw') /\ Detents(input)' = Detents(input')
BY DEF Detents, Places

LEMMA Counted ==
  ASSUME Count, Heard' = Heard, UNCHANGED knob
  PROVE  Count'
BY DEF Count, Heard

\* What comes into raw is on its way, or missed.
LEMMA ReportCounts ==
  ASSUME Types, NEW evs \in Seq(RawEvent), Report(evs)
  PROVE  /\ raw' \in Seq(RawEvent) /\ Len(raw') <= RAW_CHANNEL_DEPTH
         /\ missed' \in Int /\ asked' \in Said /\ lost' \in BOOLEAN
         /\ Detents(raw') \in Int /\ Detents(evs) \in Int
         /\ missed' + Detents(raw') = missed + Detents(raw) + Detents(evs)
<1>1. PICK s \in Seq(RawEvent), u \in Seq(RawEvent) :
        Passed(evs, s, u) /\ raw' = raw \o s /\ Len(raw') <= RAW_CHANNEL_DEPTH
  BY Reported
<1>2. raw \in Seq(RawEvent) /\ missed \in Int
  BY DEF Types
<1>3. raw \o s \in Seq(RawEvent)
  BY <1>2, Joined
<1>4. Detents(raw \o s) = Detents(raw) + Detents(s) /\ Detents(raw) \in Int /\ Detents(s) \in Int
  BY <1>2, DetentsJoined
<1>5. /\ missed' \in Int /\ asked' \in Said /\ lost' \in BOOLEAN
      /\ missed' + Detents(s) = missed + Detents(evs) /\ Detents(evs) \in Int
  BY <1>1, PassedTypes
<1>6. raw' \in Seq(RawEvent) /\ Detents(raw') = Detents(raw) + Detents(s)
  BY <1>1, <1>3, <1>4
<1>7. missed' + Detents(raw') = missed + Detents(raw) + Detents(evs)
  <2>1. /\ missed \in Int /\ missed' \in Int /\ Detents(evs) \in Int
        /\ Detents(s) \in Int /\ Detents(raw) \in Int
        /\ missed' + Detents(s) = missed + Detents(evs)
        /\ Detents(raw') = Detents(raw) + Detents(s)
    BY <1>2, <1>4, <1>5, <1>6
  <2> QED BY ONLY SMTT(60), <2>1
<1> QED BY <1>1, <1>4, <1>5, <1>6, <1>7

LEMMA EmitCounts ==
  ASSUME Types, NEW evs \in Seq(InputEvent), Emit(evs)
  PROVE  /\ input' \in Seq(InputEvent) /\ Len(input') <= INPUT_CHANNEL_DEPTH
         /\ missed' \in Int /\ asked' \in Said /\ lost' \in BOOLEAN
         /\ Detents(input') \in Int /\ Detents(evs) \in Int
         /\ missed' + Detents(input') = missed + Detents(input) + Detents(evs)
<1>1. PICK s \in Seq(InputEvent), u \in Seq(InputEvent) :
        Passed(evs, s, u) /\ input' = input \o s /\ Len(input') <= INPUT_CHANNEL_DEPTH
  BY Emitted
<1>2. input \in Seq(InputEvent) /\ missed \in Int
  BY DEF Types
<1>3. input \o s \in Seq(InputEvent)
  BY <1>2, Joined
<1>4. Detents(input \o s) = Detents(input) + Detents(s) /\ Detents(input) \in Int /\ Detents(s) \in Int
  BY <1>2, DetentsJoined
<1>5. /\ missed' \in Int /\ asked' \in Said /\ lost' \in BOOLEAN
      /\ missed' + Detents(s) = missed + Detents(evs) /\ Detents(evs) \in Int
  BY <1>1, PassedTypes
<1>6. input' \in Seq(InputEvent) /\ Detents(input') = Detents(input) + Detents(s)
  BY <1>1, <1>3, <1>4
<1>7. missed' + Detents(input') = missed + Detents(input) + Detents(evs)
  <2>1. /\ missed \in Int /\ missed' \in Int /\ Detents(evs) \in Int
        /\ Detents(s) \in Int /\ Detents(input) \in Int
        /\ missed' + Detents(s) = missed + Detents(evs)
        /\ Detents(input') = Detents(input) + Detents(s)
    BY <1>2, <1>4, <1>5, <1>6
  <2> QED BY ONLY SMTT(60), <2>1
<1> QED BY <1>1, <1>4, <1>5, <1>6, <1>7

\* A poll says nothing of the encoder.
LEMMA EdgeDetents ==
  ASSUME NEW k \in {"shift1", "stop", "joy"}, NEW was, NEW now
  PROVE  Detents(Edge(k, was, now)) = 0
<1> DEFINE down == k \in now
<1>1. Edge(k, was, now) \in {<<>>, <<<<"Button", k, down>>>>}
  BY EdgeEvents
<1>2. \A b : Detents(<<<<"Button", k, b>>>>) = 0
  BY DetentsFew
<1> HIDE DEF down
<1> QED BY <1>1, <1>2, DetentsFew

LEMMA PolledDetents ==
  ASSUME NEW b, NEW a
  PROVE  Detents(Polled(b, a)) = 0
<1>1. ASSUME NEW was, NEW now
      PROVE  Edges(was, now) \in Seq(RawEvent) /\ Detents(Edges(was, now)) = 0
  <2> DEFINE p == Edge("shift1", was, now)
             q == Edge("stop", was, now)
             r == Edge("joy", was, now)
  <2>1. /\ p \in Seq(RawEvent) /\ q \in Seq(RawEvent) /\ r \in Seq(RawEvent)
        /\ Detents(p) = 0 /\ Detents(q) = 0 /\ Detents(r) = 0
    BY EdgeEvents, EdgeDetents
  <2> HIDE DEF p, q, r
  <2>2. p \o q \in Seq(RawEvent) /\ Detents(p \o q) = 0
    BY <2>1, Joined, DetentsJoined
  <2>3. Detents((p \o q) \o r) = 0
    BY ZenonT(90), <2>1, <2>2, DetentsJoined
  <2> QED BY <2>3, EdgesEvents DEF Edges, p, q, r
<1> DEFINE p == Edges(chip["mcp0b"].stable, b)
           q == Edges(chip["mcp1a"].stable, a)
           r == SwitchReport(a)
<1>2. p \in Seq(RawEvent) /\ q \in Seq(RawEvent) /\ Detents(p) = 0 /\ Detents(q) = 0
  BY <1>1
<1>3. r \in Seq(RawEvent) /\ Detents(r) = 0
  <2>1. \A d : Detents(<<<<"Switch", d>>>>) = 0
    BY DetentsFew
  <2> QED BY <2>1, SwitchEvents, DetentsFew
<1> HIDE DEF p, q, r
<1>4. p \o q \in Seq(RawEvent) /\ Detents(p \o q) = 0
  BY <1>2, Joined, DetentsJoined
<1> DEFINE pq == p \o q
<1>6. pq \in Seq(RawEvent) /\ Detents(pq) = 0
  BY <1>4
<1> HIDE DEF pq
<1>5. Detents(pq \o r) = Detents(pq) + Detents(r)
  BY <1>3, <1>6, DetentsJoined
<1> QED BY <1>3, <1>5, <1>6 DEF Polled, p, q, r, pq

LEMMA PollKeeps ==
  ASSUME Types, Count, Poll
  PROVE  Types' /\ Count'
<1>1. PICK b \in SUBSET Port["mcp0b"], a \in SUBSET Port["mcp1a"] :
           /\ chip' \in [Ports -> [stable : SUBSET Keys, ticks : 0..(DEBOUNCE_TICKS - 1)]]
           /\ \A p \in Ports : chip'[p].stable \subseteq Port[p]
           /\ chip'["mcp0b"].stable = b /\ chip'["mcp1a"].stable = a /\ spoke' = a
           /\ Report(Polled(b, a))
           /\ grip' = [grip EXCEPT !.slipped = @ \/ ~Chorded(b)]
           /\ UNCHANGED <<pins, told, knob, input, surface, dom, budget, blanks>>
  BY PollStep
<1>2. Polled(b, a) \in Seq(RawEvent) /\ Detents(Polled(b, a)) = 0
  BY PolledEvents, PolledDetents
<1>3. /\ raw' \in Seq(RawEvent) /\ Len(raw') <= RAW_CHANNEL_DEPTH
      /\ missed' \in Int /\ asked' \in Said /\ lost' \in BOOLEAN
      /\ Detents(raw') \in Int /\ missed' + Detents(raw') = missed + Detents(raw)
  BY <1>1, <1>2, ReportCounts, Sums
<1>4. grip' \in [units : 0..HOLD, slipped : BOOLEAN]
  <2> DEFINE sl == grip.slipped \/ ~Chorded(b)
  <2>1. grip' = [grip EXCEPT !.slipped = sl]
    BY <1>1
  <2>2. grip \in [units : 0..HOLD, slipped : BOOLEAN] /\ sl \in BOOLEAN
    BY DEF Types
  <2> HIDE DEF sl
  <2> QED BY <2>1, <2>2
<1>5. Types'
  BY ZenonT(90), <1>1, <1>3, <1>4 DEF Types
<1>6. Heard' = Heard
  <2>1. Heard' = dom'.detents + missed' + Detents(raw') + Detents(input')
    BY DetentsNext DEF Heard
  <2>2. Heard = dom.detents + missed + Detents(raw) + Detents(input)
    BY DEF Heard
  <2>3. /\ dom.detents \in Int /\ missed \in Int /\ Detents(raw) \in Int /\ Detents(input) \in Int
        /\ missed' \in Int /\ Detents(raw') \in Int
        /\ dom' = dom /\ input' = input
        /\ missed' + Detents(raw') = missed + Detents(raw)
    BY <1>1, <1>3, Sums
  <2> QED BY ONLY <2>1, <2>2, <2>3
<1> QED BY <1>1, <1>5, <1>6, Counted

LEMMA SampleKeeps ==
  ASSUME Types, Count, Sample
  PROVE  Types' /\ Count'
<1> DEFINE k == Update(knob)
           evs == IF k.delta = 0 THEN <<>> ELSE <<<<"Encoder", k.delta>>>>
<1>1. /\ knob' = k /\ Report(evs)
      /\ UNCHANGED <<pins, chip, spoke, told, input, surface, dom, grip, budget, blanks>>
  BY DEF Sample
<1>2. /\ k \in KnobType
      /\ k.seen = knob.pos /\ k.pos = knob.pos /\ k.old = Pack(knob.pos)
      /\ \/ /\ k.skips = knob.skips
            /\ DETENT_STEPS * k.delta + k.accum = knob.accum + (knob.pos - knob.seen)
         \/ /\ k.skips = knob.skips + 1 /\ knob.pos - knob.seen \in {-2, 2}
            /\ DETENT_STEPS * k.delta + k.accum = knob.accum
  BY Decoded
<1> HIDE DEF k
<1>3. k.delta \in {-1, 0, 1}
  BY <1>2 DEF KnobType
<1>4. evs \in Seq(RawEvent) /\ Detents(evs) = k.delta
  <2>1. CASE k.delta = 0
    BY <2>1, FewEvents, DetentsFew
  <2>2. CASE k.delta = 1
    <3>1. evs = <<<<"Encoder", 1>>>>
      BY <2>2
    <3>2. Detents(<<<<"Encoder", 1>>>>) = 1 /\ <<"Encoder", 1>> \in RawEvent
      BY DetentsFew DEF RawEvent
    <3> QED BY <2>2, <3>1, <3>2, FewEvents
  <2>3. CASE k.delta = -1
    <3>1. evs = <<<<"Encoder", -1>>>>
      BY <2>3
    <3>2. Detents(<<<<"Encoder", -1>>>>) = -1 /\ <<"Encoder", -1>> \in RawEvent
      <4>1. <<"Encoder", -1>> # <<"Encoder", 1>>
        OBVIOUS
      <4> QED BY <4>1, DetentsFew DEF RawEvent
    <3> QED BY <2>3, <3>1, <3>2, FewEvents
  <2> QED BY <1>3, <2>1, <2>2, <2>3
<1> HIDE DEF evs
<1>5. /\ raw' \in Seq(RawEvent) /\ Len(raw') <= RAW_CHANNEL_DEPTH
      /\ missed' \in Int /\ asked' \in Said /\ lost' \in BOOLEAN
      /\ Detents(raw') \in Int /\ missed' + Detents(raw') = missed + Detents(raw) + k.delta
  BY <1>1, <1>4, ReportCounts
<1>6. Types'
  BY ZenonT(90), <1>1, <1>2, <1>5 DEF Types, KnobType
<1>7. Heard' = Heard + k.delta
  <2>1. Heard' = dom'.detents + missed' + Detents(raw') + Detents(input')
    BY DetentsNext DEF Heard
  <2>2. Heard = dom.detents + missed + Detents(raw) + Detents(input)
    BY DEF Heard
  <2>3. /\ dom.detents \in Int /\ missed \in Int /\ Detents(raw) \in Int /\ Detents(input) \in Int
        /\ missed' \in Int /\ Detents(raw') \in Int /\ k.delta \in Int
        /\ dom' = dom /\ input' = input
        /\ missed' + Detents(raw') = missed + Detents(raw) + k.delta
    BY <1>1, <1>3, <1>5, Sums
  <2> QED BY ONLY <2>1, <2>2, <2>3
<1>8. /\ knob.pos \in Int /\ knob.seen \in Int /\ knob.accum \in -3..3 /\ knob.skips \in Nat
      /\ k.accum \in -3..3 /\ k.skips \in Nat
  BY <1>2 DEF Types, KnobType, DETENT_STEPS
<1>9. (knob.seen - (DETENT_STEPS * Heard + knob.accum)) \in (-2 * knob.skips)..(2 * knob.skips)
  BY DEF Count, Heard
<1>10. (k.seen - (DETENT_STEPS * (Heard + k.delta) + k.accum)) \in (-2 * k.skips)..(2 * k.skips)
  <2>1. Heard \in Int
    BY Sums
  <2> QED BY <1>2, <1>3, <1>8, <1>9, <2>1 DEF DETENT_STEPS
<1>11. (knob'.seen - (DETENT_STEPS * Heard' + knob'.accum)) \in (-2 * knob'.skips)..(2 * knob'.skips)
  BY <1>1, <1>7, <1>10
<1>12. knob'.old = Pack(knob'.seen) /\ knob'.pos - knob'.seen \in -2..2
  BY <1>1, <1>2, <1>8
<1> QED BY <1>6, <1>11, <1>12 DEF Count, Heard

LEMMA ButtonTaskKeeps ==
  ASSUME Types, Count, ButtonTask
  PROVE  Types' /\ Count'
<1> DEFINE down == "knob" \in pins
           x == <<"Button", "knob", down>>
<1>1. /\ told' = down /\ Report(<<x>>)
      /\ UNCHANGED <<pins, chip, spoke, knob, input, surface, dom, grip, budget, blanks>>
  BY DEF ButtonTask
<1>2. down \in BOOLEAN
  OBVIOUS
<1> HIDE DEF down
<1>3. <<x>> \in Seq(RawEvent)
  <2>1. x \in RawEvent
    BY <1>2 DEF RawEvent, Buttons
  <2> QED BY <2>1, FewEvents
<1>4. Detents(<<x>>) = 0
  <2>1. x # <<"Encoder", 1>> /\ x # <<"Encoder", -1>>
    OBVIOUS
  <2> QED BY <2>1, DetentsFew
<1> HIDE DEF x
<1>5. /\ raw' \in Seq(RawEvent) /\ Len(raw') <= RAW_CHANNEL_DEPTH
      /\ missed' \in Int /\ asked' \in Said /\ lost' \in BOOLEAN
      /\ Detents(raw') \in Int /\ missed' + Detents(raw') = missed + Detents(raw)
  <2> DEFINE evs == <<x>>
  <2>1. evs \in Seq(RawEvent) /\ Report(evs) /\ Detents(evs) = 0
    BY <1>1, <1>3, <1>4
  <2> HIDE DEF evs
  <2>2. /\ raw' \in Seq(RawEvent) /\ Len(raw') <= RAW_CHANNEL_DEPTH
        /\ missed' \in Int /\ asked' \in Said /\ lost' \in BOOLEAN
        /\ Detents(raw') \in Int /\ missed' + Detents(raw') = missed + Detents(raw) + Detents(evs)
    BY <2>1, ReportCounts
  <2> QED BY <2>1, <2>2, Sums
<1>6. Types'
  BY SMTT(60), <1>1, <1>2, <1>5 DEF Types
<1>7. Heard' = Heard
  <2>1. Heard' = dom'.detents + missed' + Detents(raw') + Detents(input')
    BY DetentsNext DEF Heard
  <2>2. Heard = dom.detents + missed + Detents(raw) + Detents(input)
    BY DEF Heard
  <2>3. /\ dom.detents \in Int /\ missed \in Int /\ Detents(raw) \in Int /\ Detents(input) \in Int
        /\ missed' \in Int /\ Detents(raw') \in Int
        /\ dom' = dom /\ input' = input
        /\ missed' + Detents(raw') = missed + Detents(raw)
    BY <1>1, <1>5, Sums
  <2> QED BY ONLY <2>1, <2>2, <2>3
<1> QED BY <1>1, <1>6, <1>7, Counted

LEMMA OnRawKeeps ==
  ASSUME Types, Count, OnRaw
  PROVE  Types' /\ Count'
<1> DEFINE h == Head(raw)
           s == Keep(surface, h)
           evs == Mapped(surface, h) \o Fires(s)
<1>1. /\ raw # <<>> /\ surface' = Chord(s) /\ Emit(evs) /\ raw' = Tail(raw)
      /\ UNCHANGED <<pins, chip, spoke, told, knob, dom, grip, budget, blanks>>
  BY DEF OnRaw
<1>2. /\ raw \in Seq(RawEvent) /\ Len(raw) <= RAW_CHANNEL_DEPTH /\ RAW_CHANNEL_DEPTH \in Nat
      /\ Len(raw) \in Nat
  BY InputAssumption DEF Types
<1>3. /\ h \in RawEvent /\ raw' \in Seq(RawEvent) /\ Len(raw') <= RAW_CHANNEL_DEPTH
      /\ raw = <<h>> \o raw' /\ <<h>> \in Seq(RawEvent)
  <2>1. /\ h \in RawEvent /\ raw' \in Seq(RawEvent) /\ Len(raw') <= Len(raw)
        /\ raw = <<h>> \o raw' /\ <<h>> \in Seq(RawEvent)
    BY <1>1, <1>2, HeadTail
  <2>2. Len(raw') \in Nat
    BY <2>1
  <2> QED BY <1>2, <2>1, <2>2
<1> HIDE DEF h
<1>4. /\ Detents(<<h>>) \in Int /\ Detents(raw') \in Int
      /\ Detents(raw) = Detents(<<h>>) + Detents(raw')
  BY <1>3, DetentsJoined
<1>5. surface' \in SurfaceType
  <2>1. surface \in SurfaceType
    BY DEF Types, SurfaceType
  <2> QED BY <1>1, <1>3, <2>1, KeepIs, ChordIs
<1>6. evs \in Seq(InputEvent) /\ Detents(evs) = Detents(<<h>>)
  BY <1>3, BridgeEvents
<1> HIDE DEF evs, s
<1>7. /\ input' \in Seq(InputEvent) /\ Len(input') <= INPUT_CHANNEL_DEPTH
      /\ missed' \in Int /\ asked' \in Said /\ lost' \in BOOLEAN
      /\ Detents(input') \in Int
      /\ missed' + Detents(input') = missed + Detents(input) + Detents(<<h>>)
  BY <1>1, <1>6, EmitCounts
<1>8. Types'
  BY <1>1, <1>3, <1>5, <1>7 DEF Types, SurfaceType
<1>9. Heard' = Heard
  <2>1. Heard' = dom'.detents + missed' + Detents(raw') + Detents(input')
    BY DetentsNext DEF Heard
  <2>2. Heard = dom.detents + missed + Detents(raw) + Detents(input)
    BY DEF Heard
  <2>3. /\ dom.detents \in Int /\ missed \in Int /\ Detents(raw) \in Int /\ Detents(input) \in Int
        /\ missed' \in Int /\ Detents(raw') \in Int /\ Detents(input') \in Int
        /\ Detents(<<h>>) \in Int /\ dom' = dom
        /\ missed' + Detents(input') = missed + Detents(input) + Detents(<<h>>)
        /\ Detents(raw) = Detents(<<h>>) + Detents(raw')
    BY <1>1, <1>4, <1>7, Sums
  <2> QED BY ONLY <2>1, <2>2, <2>3
<1> QED BY <1>1, <1>8, <1>9, Counted

LEMMA FiresIs ==
  ASSUME NEW c
  PROVE  /\ Fires(c) \in Seq(InputEvent) /\ Detents(Fires(c)) = 0
         /\ \A d : ~Has(Fires(c), <<"DirectionSet", d>>)
<1>1. <<"Encoder", 1>> \in RawEvent
  BY DEF RawEvent
<1> QED BY <1>1, BridgeEvents

LEMMA BridgeTickKeeps ==
  ASSUME Types, Count, BridgeTick
  PROVE  Types' /\ Count'
<1>1. /\ surface' = Chord(surface) /\ Emit(Fires(surface))
      /\ UNCHANGED <<pins, chip, spoke, told, knob, raw, dom, grip, budget, blanks>>
  BY DEF BridgeTick
<1>2. surface' \in SurfaceType
  <2>1. surface \in SurfaceType
    BY DEF Types, SurfaceType
  <2> QED BY <1>1, <2>1, ChordIs
<1>3. Fires(surface) \in Seq(InputEvent) /\ Detents(Fires(surface)) = 0
  BY FiresIs
<1>4. /\ input' \in Seq(InputEvent) /\ Len(input') <= INPUT_CHANNEL_DEPTH
      /\ missed' \in Int /\ asked' \in Said /\ lost' \in BOOLEAN
      /\ Detents(input') \in Int /\ missed' + Detents(input') = missed + Detents(input)
  BY <1>1, <1>3, EmitCounts, Sums
<1>5. Types'
  BY <1>1, <1>2, <1>4 DEF Types, SurfaceType
<1>6. Heard' = Heard
  <2>1. Heard' = dom'.detents + missed' + Detents(raw') + Detents(input')
    BY DetentsNext DEF Heard
  <2>2. Heard = dom.detents + missed + Detents(raw) + Detents(input)
    BY DEF Heard
  <2>3. /\ dom.detents \in Int /\ missed \in Int /\ Detents(raw) \in Int /\ Detents(input) \in Int
        /\ missed' \in Int /\ Detents(input') \in Int
        /\ dom' = dom /\ raw' = raw
        /\ missed' + Detents(input') = missed + Detents(input)
    BY <1>1, <1>4, Sums
  <2> QED BY ONLY <2>1, <2>2, <2>3
<1> QED BY <1>1, <1>5, <1>6, Counted

\* What the domain task takes from its channel.
LEMMA Taken ==
  ASSUME Types, Take
  PROVE  LET ev == Head(input)
         IN  /\ input # <<>> /\ ev \in InputEvent /\ <<ev>> \in Seq(InputEvent)
             /\ input' = Tail(input) /\ input = <<ev>> \o input'
             /\ input' \in Seq(InputEvent) /\ Len(input') <= INPUT_CHANNEL_DEPTH
             /\ Detents(<<ev>>) \in Int /\ Detents(input') \in Int
             /\ Detents(input) = Detents(<<ev>>) + Detents(input')
             /\ UNCHANGED <<pins, chip, spoke, told, knob, raw, surface, lost, grip, budget, blanks>>
<1> DEFINE ev == Head(input)
<1>1. /\ input # <<>> /\ input' = Tail(input)
      /\ UNCHANGED <<pins, chip, spoke, told, knob, raw, surface, lost, grip, budget, blanks>>
  BY DEF Take
<1>2. /\ input \in Seq(InputEvent) /\ Len(input) <= INPUT_CHANNEL_DEPTH /\ INPUT_CHANNEL_DEPTH \in Nat
      /\ Len(input) \in Nat
  BY InputAssumption DEF Types
<1>3. /\ ev \in InputEvent /\ input' \in Seq(InputEvent) /\ Len(input') <= Len(input)
      /\ input = <<ev>> \o input' /\ <<ev>> \in Seq(InputEvent)
  BY <1>1, <1>2, HeadTail
<1>4. Len(input') <= INPUT_CHANNEL_DEPTH
  <2>1. Len(input') \in Nat
    BY <1>3
  <2> QED BY <1>2, <1>3, <2>1
<1> HIDE DEF ev
<1>5. /\ Detents(<<ev>>) \in Int /\ Detents(input') \in Int
      /\ Detents(input) = Detents(<<ev>>) + Detents(input')
  BY <1>3, DetentsJoined
<1> QED BY <1>1, <1>3, <1>4, <1>5 DEF ev

LEMMA InputIs ==
  ASSUME NEW ev \in InputEvent
  PROVE  /\ \/ ev = <<"Encoder", 1>> \/ ev = <<"Encoder", -1>>
            \/ ev = <<"DirectionSet", "fwd">> \/ ev = <<"DirectionSet", "rev">>
            \/ ev \in {<<"CaseToggle">>, <<"Stop">>, <<"Nav">>, <<"EncoderButton">>,
                       <<"EnterProgrammingMode">>}
         /\ ev[1] = "Encoder" => ev[2] \in {-1, 1} /\ Detents(<<ev>>) = ev[2]
         /\ ev[1] # "Encoder" => Detents(<<ev>>) = 0
         /\ ev[1] = "DirectionSet" => ev[2] \in Dir /\ ev = <<"DirectionSet", ev[2]>>
         /\ \A d : ev = <<"DirectionSet", d>> => ev[1] = "DirectionSet" /\ ev[2] = d
<1>1. \/ ev = <<"Encoder", 1>> \/ ev = <<"Encoder", -1>>
      \/ ev = <<"DirectionSet", "fwd">> \/ ev = <<"DirectionSet", "rev">>
      \/ ev \in {<<"CaseToggle">>, <<"Stop">>, <<"Nav">>, <<"EncoderButton">>,
                 <<"EnterProgrammingMode">>}
  BY DEF InputEvent, Dir
<1>2. ev[1] = "Encoder" => ev[2] \in {-1, 1} /\ Detents(<<ev>>) = ev[2]
  <2>1. ev[1] = "Encoder" => ev = <<"Encoder", 1>> \/ ev = <<"Encoder", -1>>
    BY <1>1
  <2>2. <<"Encoder", 1>> # <<"Encoder", -1>>
    OBVIOUS
  <2>3. /\ ev = <<"Encoder", 1>> => ev[2] = 1
        /\ ev = <<"Encoder", -1>> => ev[2] = -1
    OBVIOUS
  <2>4. Detents(<<ev>>) = IF ev = <<"Encoder", 1>> THEN 1 ELSE IF ev = <<"Encoder", -1>> THEN -1 ELSE 0
    BY DetentsFew
  <2> QED BY <2>1, <2>2, <2>3, <2>4
<1>3. ev[1] # "Encoder" => Detents(<<ev>>) = 0
  <2>1. ev[1] # "Encoder" => ev # <<"Encoder", 1>> /\ ev # <<"Encoder", -1>>
    OBVIOUS
  <2> QED BY <2>1, DetentsFew
<1>4. ev[1] = "DirectionSet" => ev[2] \in Dir /\ ev = <<"DirectionSet", ev[2]>>
  BY <1>1 DEF Dir
<1>5. \A d : ev = <<"DirectionSet", d>> => ev[1] = "DirectionSet" /\ ev[2] = d
  OBVIOUS
<1> QED BY <1>1, <1>2, <1>3, <1>4, <1>5

LEMMA Applied ==
  ASSUME NEW d \in DomType, NEW ev \in InputEvent, NEW moving \in BOOLEAN, NEW saved \in BOOLEAN
  PROVE  LET e == Apply(d, ev, moving, saved)
         IN  /\ e \in DomType
             /\ e.detents = IF ev[1] = "Encoder" /\ d.loco THEN d.detents + ev[2] ELSE d.detents
             /\ ev[1] # "DirectionSet" => e.spdt = d.spdt
             /\ ev[1] = "DirectionSet" => e.spdt = ev[2] /\ (d.loco => e.dir = ev[2])
             /\ ev[1] = "EncoderButton" /\ d.loco /\ ~moving => e.dir = Other(d.dir)
             /\ ev[1] # "DirectionSet" /\ ~(ev[1] = "EncoderButton" /\ d.loco /\ ~moving) => e.dir = d.dir
             /\ e.loco = d.loco
<1> DEFINE e == Apply(d, ev, moving, saved)
<1>1. /\ d.phase \in {"splash", "awake", "blank", "programming"} /\ d.spdt \in Dir
      /\ d.loco \in BOOLEAN /\ d.dir \in Dir /\ d.detents \in Int
      /\ d = [phase |-> d.phase, spdt |-> d.spdt, loco |-> d.loco, dir |-> d.dir,
              detents |-> d.detents]
  BY DEF DomType
<1>2. CASE ev[1] = "DirectionSet"
  <2> DEFINE v == IF d.loco THEN ev[2] ELSE d.dir
  <2>1. e = [d EXCEPT !.spdt = ev[2], !.dir = v]
    BY <1>2 DEF Apply
  <2>2. ev[2] \in Dir /\ v \in Dir /\ (d.loco => v = ev[2])
    BY <1>1, <1>2, InputIs
  <2> HIDE DEF v
  <2> QED BY <1>1, <1>2, <2>1, <2>2 DEF DomType
<1>3. CASE ev[1] = "EncoderButton" /\ d.loco /\ ~moving
  <2>1. e = [d EXCEPT !.dir = Other(d.dir)]
    BY <1>3 DEF Apply
  <2>2. Other(d.dir) \in Dir
    BY DEF Other, Dir
  <2> QED BY <1>1, <1>3, <2>1, <2>2 DEF DomType
<1>4. CASE ev[1] = "Encoder" /\ d.loco
  <2> DEFINE n == d.detents + ev[2]
  <2>1. e = [d EXCEPT !.detents = n]
    BY <1>4 DEF Apply
  <2>2. n \in Int
    <3>1. ev[2] = 1 \/ ev[2] = -1
      BY <1>4, InputIs
    <3> QED BY <1>1, <3>1
  <2>3. e \in DomType /\ e.detents = n /\ e.spdt = d.spdt /\ e.dir = d.dir /\ e.loco = d.loco
    <3> HIDE DEF n
    <3> QED BY <1>1, <2>1, <2>2 DEF DomType
  <2> HIDE DEF e
  <2> QED BY <1>4, <2>3 DEF e
<1>5. CASE /\ ev[1] # "DirectionSet" /\ ~(ev[1] = "EncoderButton" /\ d.loco /\ ~moving)
           /\ ~(ev[1] = "Encoder" /\ d.loco)
  <2>1. e = d \/ e = [d EXCEPT !.phase = "programming"]
    BY <1>5 DEF Apply
  <2>2. e \in DomType /\ e.detents = d.detents /\ e.spdt = d.spdt /\ e.dir = d.dir /\ e.loco = d.loco
    <3> HIDE DEF e
    <3> QED BY <1>1, <2>1 DEF DomType
  <2> HIDE DEF e
  <2> QED BY <1>5, <2>2 DEF e
<1> QED BY <1>2, <1>3, <1>4, <1>5

\* An event taken from input is counted once more, by the domain or as missed.
LEMMA TakeCounts ==
  ASSUME Types, Take, dom' \in DomType, missed' \in Int,
         dom'.detents + missed' = dom.detents + missed + Detents(<<Head(input)>>)
  PROVE  Heard' = Heard
<1> DEFINE x == <<Head(input)>>
<1>1. /\ Detents(x) \in Int /\ Detents(input') \in Int
      /\ Detents(input) = Detents(x) + Detents(input') /\ raw' = raw
  BY Taken
<1> HIDE DEF x
<1>2. Heard' = dom'.detents + missed' + Detents(raw') + Detents(input')
  BY DetentsNext DEF Heard
<1>3. Heard = dom.detents + missed + Detents(raw) + Detents(input)
  BY DEF Heard
<1>4. /\ dom.detents \in Int /\ missed \in Int /\ Detents(raw) \in Int /\ Detents(input) \in Int
      /\ missed' \in Int /\ dom'.detents \in Int /\ Detents(raw') = Detents(raw)
      /\ dom'.detents + missed' = dom.detents + missed + Detents(x)
  BY <1>1, Sums DEF DomType, x
<1> QED BY ONLY <1>1, <1>2, <1>3, <1>4

LEMMA Forgotten ==
  ASSUME Types, Take, Forget(<<Head(input)>>)
  PROVE  /\ missed' \in Int /\ asked' \in Said
         /\ missed' = missed + Detents(<<Head(input)>>)
         /\ asked' = IF Muted(<<Head(input)>>) THEN [by |-> None] ELSE asked
<1>1. Detents(<<Head(input)>>) \in Int
  BY Taken
<1>2. missed \in Int /\ asked \in Said /\ [by |-> None] \in Said
  BY DEF Types, Said
<1> QED BY <1>1, <1>2 DEF Forget, Muted

LEMMA TakeTypes ==
  ASSUME Types, Take, dom' \in DomType, missed' \in Int, asked' \in Said
  PROVE  Types'
<1>1. /\ input' \in Seq(InputEvent) /\ Len(input') <= INPUT_CHANNEL_DEPTH
      /\ UNCHANGED <<pins, chip, spoke, told, knob, raw, surface, lost, grip, budget, blanks>>
  BY Taken
<1> QED BY <1>1 DEF Types, DomType

LEMMA HandleAwakeKeeps ==
  ASSUME Types, Count, HandleAwake
  PROVE  Types' /\ Count'
<1> DEFINE ev == Head(input)
<1>1. Take
  BY DEF HandleAwake
<1>2. ev \in InputEvent /\ Detents(<<ev>>) \in Int /\ knob' = knob
  BY <1>1, Taken
<1>3. PICK moving \in BOOLEAN, saved \in BOOLEAN :
        /\ dom' = Apply(dom, ev, moving, saved)
        /\ missed' = missed + IF dom.loco THEN 0 ELSE Detents(<<ev>>)
        /\ asked' = IF ev[1] = "EncoderButton" /\ dom.loco /\ ~moving
                    THEN [by |-> "knob", dir |-> Other(dom.dir)] ELSE asked
  BY Zenon DEF HandleAwake
<1> HIDE DEF ev
<1>4. /\ dom \in DomType /\ dom.loco \in BOOLEAN /\ dom.detents \in Int /\ missed \in Int
      /\ asked \in Said
  BY Sums DEF DomType, Types
<1>5. /\ dom' \in DomType
      /\ dom'.detents = IF ev[1] = "Encoder" /\ dom.loco THEN dom.detents + ev[2] ELSE dom.detents
  BY ZenonT(90), <1>2, <1>3, <1>4, Applied
<1>6. missed' \in Int /\ dom'.detents + missed' = dom.detents + missed + Detents(<<ev>>)
  <2> DEFINE n == Detents(<<ev>>)
  <2>1. ev[1] # "Encoder" => n = 0
    BY <1>2, InputIs
  <2>2. ev[1] = "Encoder" => n = ev[2]
    BY <1>2, InputIs
  <2>3. missed' = missed + IF dom.loco THEN 0 ELSE n
    BY <1>3
  <2>4. n \in Int
    BY <1>2
  <2> HIDE DEF n
  <2>5. CASE dom.loco
    <3>1. missed' = missed
      BY <1>4, <2>3, <2>5
    <3>2. dom'.detents = dom.detents + n
      BY <1>4, <1>5, <2>1, <2>2, <2>5
    <3> QED BY <1>4, <2>4, <3>1, <3>2 DEF n
  <2>6. CASE ~dom.loco
    <3>1. missed' = missed + n
      BY <2>3, <2>6
    <3>2. dom'.detents = dom.detents
      BY <1>5, <2>6
    <3> QED BY <1>4, <2>4, <3>1, <3>2 DEF n
  <2> QED BY <2>5, <2>6
<1>7. asked' \in Said
  <2>1. Other(dom.dir) \in Dir
    BY DEF Other, Dir
  <2>2. [by |-> "knob", dir |-> Other(dom.dir)] \in Said
    BY <2>1 DEF Said
  <2> QED BY <1>3, <1>4, <2>2
<1>8. Types'
  BY <1>1, <1>5, <1>6, <1>7, TakeTypes
<1>9. Heard' = Heard
  BY <1>1, <1>5, <1>6, TakeCounts DEF ev
<1> QED BY <1>2, <1>8, <1>9, Counted

LEMMA DomainKeeps ==
  ASSUME Types, Count, HandleBlank \/ HandleSplash
  PROVE  Types' /\ Count'
<1>1. Take /\ Forget(<<Head(input)>>)
  BY DEF HandleBlank, HandleSplash
<1>2. \/ dom' = dom \/ dom' = [dom EXCEPT !.phase = "awake"]
      \/ dom' = [dom EXCEPT !.phase = "programming"]
  BY DEF HandleBlank, HandleSplash
<1>3. dom' \in DomType /\ dom'.detents = dom.detents
  BY <1>2, Sums DEF DomType
<1>4. missed' \in Int /\ asked' \in Said /\ missed' = missed + Detents(<<Head(input)>>)
  BY <1>1, Forgotten
<1>5. Types'
  BY <1>1, <1>3, <1>4, TakeTypes
<1>6. Heard' = Heard
  <2>1. Detents(<<Head(input)>>) \in Int
    BY <1>1, Taken
  <2>2. dom'.detents + missed' = dom.detents + missed + Detents(<<Head(input)>>)
    BY <1>3, <1>4, <2>1, Sums
  <2> QED BY <1>1, <1>3, <1>4, <2>2, TakeCounts
<1>7. knob' = knob
  BY <1>1, Taken
<1> QED BY <1>5, <1>6, <1>7, Counted

LEMMA ModeKeeps ==
  ASSUME Types, Count, SplashEnds \/ Blank \/ Acquire \/ Release
  PROVE  Types' /\ Count'
<1>1. UNCHANGED <<pins, chip, spoke, told, knob, raw, input, surface, missed, lost, grip>>
  BY DEF SplashEnds, Blank, Acquire, Release
<1>2. \/ dom' = [dom EXCEPT !.phase = "awake"] \/ dom' = [dom EXCEPT !.phase = "blank"]
      \/ dom' = [dom EXCEPT !.loco = TRUE, !.dir = dom.spdt] \/ dom' = [dom EXCEPT !.loco = FALSE]
  BY DEF SplashEnds, Blank, Acquire, Release
<1>3. asked' = asked \/ asked' = [by |-> None]
  BY DEF SplashEnds, Blank, Acquire, Release
<1>4. dom' \in DomType /\ dom'.detents = dom.detents
  <2>1. /\ dom.phase \in {"splash", "awake", "blank", "programming"} /\ dom.spdt \in Dir
        /\ dom.loco \in BOOLEAN /\ dom.dir \in Dir /\ dom.detents \in Int
        /\ dom = [phase |-> dom.phase, spdt |-> dom.spdt, loco |-> dom.loco, dir |-> dom.dir,
                  detents |-> dom.detents]
    BY Sums DEF DomType
  <2> QED BY <1>2, <2>1 DEF DomType
<1>5. asked' \in Said
  BY <1>3 DEF Types, Said
<1>6. Types'
  BY <1>1, <1>4, <1>5 DEF Types, DomType
<1>7. Heard' = Heard
  BY <1>1, <1>4, DetentsNext DEF Heard
<1> QED BY <1>1, <1>6, <1>7, Counted

LEMMA TouchKeeps ==
  ASSUME Types, Count, NEW k \in Keys, Touch(k)
  PROVE  Types' /\ Count'
<1>1. /\ pins' = IF k \in pins THEN pins \ {k} ELSE pins \cup {k}
      /\ asked' = IF k = "direction" THEN [by |-> "switch", dir |-> Fwd(pins')] ELSE asked
      /\ UNCHANGED <<chip, spoke, told, knob, raw, input, surface, dom, missed, lost, grip>>
  BY DEF Touch
<1>2. pins' \in SUBSET Keys
  BY <1>1 DEF Types
<1>3. asked' \in Said
  <2>1. Fwd(pins') \in Dir
    BY DEF Fwd, Dir
  <2>2. [by |-> "switch", dir |-> Fwd(pins')] \in Said
    BY <2>1 DEF Said
  <2> QED BY <1>1, <2>2 DEF Types
<1>4. Types'
  BY <1>1, <1>2, <1>3 DEF Types
<1>5. Heard' = Heard
  BY <1>1, DetentsNext DEF Heard
<1> QED BY <1>1, <1>4, <1>5, Counted

LEMMA TurnKeeps ==
  ASSUME Types, Count, Turn
  PROVE  Types' /\ Count'
<1>1. PICK pos \in {knob.pos - 1, knob.pos + 1} :
        pos - knob.seen \in -2..2 /\ knob' = [knob EXCEPT !.pos = pos]
  BY DEF Turn
<1>2. UNCHANGED <<pins, chip, spoke, told, raw, input, surface, dom, asked, missed, lost, grip>>
  BY DEF Turn
<1>3. knob \in KnobType /\ knob.pos \in Int
  BY DEF Types, KnobType
<1>4. /\ knob' \in KnobType /\ knob'.pos = pos /\ knob'.seen = knob.seen /\ knob'.old = knob.old
      /\ knob'.accum = knob.accum /\ knob'.skips = knob.skips
  BY <1>1, <1>3 DEF KnobType
<1>5. Types'
  BY <1>2, <1>4 DEF Types, KnobType
<1>6. Heard' = Heard
  BY <1>2, DetentsNext DEF Heard
<1>7. Count'
  <2>1. knob'.old = Pack(knob'.seen) /\ knob'.pos - knob'.seen \in -2..2
    BY <1>1, <1>4 DEF Count
  <2>2. (knob'.seen - (DETENT_STEPS * Heard' + knob'.accum)) \in (-2 * knob'.skips)..(2 * knob'.skips)
    BY <1>4, <1>6 DEF Count, Heard
  <2> QED BY <2>1, <2>2 DEF Count, Heard
<1> QED BY <1>5, <1>7

LEMMA SecondKeeps ==
  ASSUME Types, Count, Second
  PROVE  Types' /\ Count'
<1> DEFINE since == IF surface.since \in {NotHeld, HOLD} THEN surface.since ELSE surface.since + 1
           units == IF ~Chorded(pins) THEN 0 ELSE IF grip.slipped THEN 1
                    ELSE IF grip.units < HOLD THEN grip.units + 1 ELSE HOLD
           slipped == ~Chorded(pins)
<1>1. /\ surface' = [surface EXCEPT !.since = since]
      /\ grip' = [slipped |-> slipped, units |-> units]
      /\ UNCHANGED <<pins, chip, spoke, told, knob, raw, input, dom, asked, missed, lost>>
  BY DEF Second
<1>2. HOLD \in Nat \ {0} /\ surface \in SurfaceType /\ grip \in [units : 0..HOLD, slipped : BOOLEAN]
  BY InputAssumption DEF Types, SurfaceType
<1>3. surface.since \in {NotHeld} \cup 0..HOLD /\ grip.units \in 0..HOLD
  BY <1>2 DEF SurfaceType
<1>4. since \in {NotHeld} \cup 0..HOLD /\ units \in 0..HOLD
  BY <1>2, <1>3 DEF NotHeld
<1>5. slipped \in BOOLEAN
  OBVIOUS
<1> HIDE DEF since, units, slipped
<1>6. surface' \in SurfaceType /\ grip' \in [units : 0..HOLD, slipped : BOOLEAN]
  BY <1>1, <1>2, <1>4, <1>5 DEF SurfaceType
<1>7. Types'
  BY <1>1, <1>6 DEF Types, SurfaceType
<1>8. Heard' = Heard
  BY <1>1, DetentsNext DEF Heard
<1> QED BY <1>1, <1>7, <1>8, Counted

LEMMA Started ==
  ASSUME Init
  PROVE  Types /\ Count
<1> DEFINE x == <<"Switch", Fwd(pins)>>
<1>1. /\ pins \in {{}, {"direction"}}
      /\ chip = [p \in Ports |-> [stable |-> pins \cap Port[p], ticks |-> 0]]
      /\ spoke = pins /\ told = FALSE
      /\ knob = [pos |-> 0, seen |-> 0, old |-> Pack(0), accum |-> 0, delta |-> 0, skips |-> 0]
      /\ raw = <<x>> /\ input = <<>>
      /\ surface = [shift |-> FALSE, stop |-> FALSE, since |-> NotHeld, fired |-> FALSE]
      /\ dom = [phase |-> "splash", spdt |-> "fwd", loco |-> FALSE, dir |-> "fwd", detents |-> 0]
      /\ asked = [by |-> None] /\ missed = 0 /\ lost = FALSE
      /\ grip = [units |-> 0, slipped |-> TRUE]
  BY DEF Init
<1>2. pins \subseteq Keys /\ pins \subseteq Port["mcp1a"]
  BY <1>1, PortsAre
<1>3. /\ chip \in [Ports -> [stable : SUBSET Keys, ticks : 0..(DEBOUNCE_TICKS - 1)]]
      /\ \A p \in Ports : chip[p].stable \subseteq Port[p]
      /\ spoke = chip["mcp1a"].stable
  <2>1. 0 \in 0..(DEBOUNCE_TICKS - 1)
    BY DEF DEBOUNCE_TICKS
  <2>2. \A p \in Ports : pins \cap Port[p] \in SUBSET Keys
    BY <1>2
  <2>3. \A p \in Ports : chip[p].stable = pins \cap Port[p]
    BY <1>1
  <2>4. chip["mcp1a"].stable = pins
    BY <1>2, <2>3, PortsAre
  <2> QED BY <1>1, <2>1, <2>2, <2>3, <2>4
<1>4. raw \in Seq(RawEvent) /\ Len(raw) = 1 /\ Detents(raw) = 0
  <2>1. x \in RawEvent /\ x # <<"Encoder", 1>> /\ x # <<"Encoder", -1>>
    BY DEF RawEvent, Fwd, Dir
  <2> HIDE DEF x
  <2> QED BY <1>1, <2>1, DetentsFew
<1>5. input \in Seq(InputEvent) /\ Len(input) = 0 /\ Detents(input) = 0
  BY <1>1, DetentsFew
<1>6. /\ RAW_CHANNEL_DEPTH \in Nat \ {0} /\ INPUT_CHANNEL_DEPTH \in Nat \ {0} /\ HOLD \in Nat \ {0}
      /\ 0 \in 0..HOLD
  BY InputAssumption
<1>7. knob \in KnobType
  <2>1. Pack(0) \in 0..3
    BY PackIs
  <2>2. 0 \in (1 - DETENT_STEPS)..(DETENT_STEPS - 1)
    BY DEF DETENT_STEPS
  <2> QED BY <1>1, <2>1, <2>2 DEF KnobType
<1>8. /\ surface \in SurfaceType /\ dom \in DomType /\ asked \in Said /\ missed \in Int
      /\ lost \in BOOLEAN /\ told \in BOOLEAN /\ grip \in [units : 0..HOLD, slipped : BOOLEAN]
  <2>1. surface \in SurfaceType
    BY <1>1 DEF SurfaceType
  <2>2. dom \in DomType
    BY <1>1 DEF DomType, Dir
  <2>3. asked \in Said
    BY <1>1 DEF Said
  <2>4. grip \in [units : 0..HOLD, slipped : BOOLEAN]
    BY <1>1, <1>6
  <2>5. lost = FALSE /\ told = FALSE /\ missed = 0
    BY <1>1
  <2>6. lost \in BOOLEAN
    BY ONLY <2>5
  <2>7. told \in BOOLEAN
    BY ONLY <2>5
  <2>8. missed \in Int
    BY ONLY <2>5
  <2> QED BY ONLY <2>1, <2>2, <2>3, <2>4, <2>6, <2>7, <2>8
<1>9. Types
  <2>1. Len(raw) <= RAW_CHANNEL_DEPTH /\ Len(input) <= INPUT_CHANNEL_DEPTH
    BY <1>4, <1>5, <1>6
  <2> HIDE DEF x
  <2> QED BY <1>2, <1>3, <1>4, <1>5, <1>7, <1>8, <2>1 DEF Types, KnobType, SurfaceType, DomType
<1>10. Count
  <2>1. dom.detents = 0 /\ missed = 0 /\ Detents(raw) = 0 /\ Detents(input) = 0
    BY <1>1, <1>4, <1>5
  <2>2. /\ knob.pos = 0 /\ knob.seen = 0 /\ knob.old = Pack(0) /\ knob.accum = 0 /\ knob.skips = 0
    BY <1>1
  <2> QED BY <2>1, <2>2 DEF Count, DETENT_STEPS
<1> QED BY <1>9, <1>10

LEMMA Stands ==
  ASSUME Types, Count, UNCHANGED vars
  PROVE  Types' /\ Count'
<1>1. Heard' = Heard
  BY DetentsNext DEF vars, Heard
<1>2. Types'
  BY DEF vars, Types
<1> QED BY <1>1, <1>2, Counted DEF vars

LEMMA TypesCountStep ==
  ASSUME Types, Count, [Next]_vars
  PROVE  Types' /\ Count'
<1>1. CASE Poll
  BY <1>1, PollKeeps
<1>2. CASE Sample
  BY <1>2, SampleKeeps
<1>3. CASE ButtonTask
  BY <1>3, ButtonTaskKeeps
<1>4. CASE OnRaw
  BY <1>4, OnRawKeeps
<1>5. CASE BridgeTick
  BY <1>5, BridgeTickKeeps
<1>6. CASE HandleAwake
  BY <1>6, HandleAwakeKeeps
<1>7. CASE HandleBlank \/ HandleSplash
  BY <1>7, DomainKeeps
<1>8. CASE SplashEnds \/ Blank \/ Acquire \/ Release
  BY <1>8, ModeKeeps
<1>9. CASE \E k \in Keys : Touch(k)
  BY <1>9, TouchKeeps
<1>10. CASE Turn
  BY <1>10, TurnKeeps
<1>11. CASE Second
  BY <1>11, SecondKeeps
<1>12. CASE UNCHANGED vars
  BY <1>12, Stands
<1> QED BY <1>1, <1>2, <1>3, <1>4, <1>5, <1>6, <1>7, <1>8, <1>9, <1>10, <1>11, <1>12 DEF Next

LEMMA TypesMean ==
  ASSUME Types
  PROVE  TypeOK
BY DEF Types, TypeOK

\* The types of the state, and the count of the detents, hold throughout.
THEOREM TypesAlways == Spec => [](Types /\ Count)
<1>1. Init => Types /\ Count
  BY Started
<1>2. Types /\ Count /\ [Next]_vars => (Types /\ Count)'
  BY TypesCountStep
<1> QED BY <1>1, <1>2, PTL DEF Spec

\* However the shaft is turned, however full the channels are and whatever the
\* domain makes of it, no Gray step comes to the domain twice or goes astray: what
\* QuadratureDecoder::update has read is what the domain has heard, what is on its
\* way, what was dropped or swallowed as whole detents, and the count in the decoder,
\* but for two steps for each jump of two between two samples.
THEOREM EncoderAlwaysCounts == Spec => []EncoderCounts
<1>1. Types /\ Count => EncoderCounts
  <2>1. Types => TypeOK
    BY TypesMean
  <2> QED BY <2>1 DEF Count, EncoderCounts
<1> QED BY <1>1, TypesAlways, PTL

-----------------------------------------------------------------------------
(* The direction switch.                                                   *)

Sw(w) == <<"Switch", w>>
Ds(w) == <<"DirectionSet", w>>

LEMMA Dirs ==
  ASSUME NEW w \in Dir
  PROVE  /\ Other(w) \in Dir /\ Other(w) # w /\ \A d \in Dir : d = w \/ d = Other(w)
         /\ Sw(w) # Sw(Other(w)) /\ Ds(w) # Ds(Other(w))
<1>1. Other(w) \in Dir /\ Other(w) # w /\ \A d \in Dir : d = w \/ d = Other(w)
  BY DEF Other, Dir
<1> QED BY <1>1 DEF Sw, Ds

LEMMA ToldIs ==
  ASSUME NEW CONSTANT w
  PROVE  /\ Told(w) = Will(raw, Sw(w), Sw(Other(w)), Will(input, Ds(w), Ds(Other(w)), DomainSays(w)))
         /\ Told(w)' = Will(raw', Sw(w), Sw(Other(w)), Will(input', Ds(w), Ds(Other(w)), DomainSays(w)'))
BY DEF Told, Will, Has, Sw, Ds, Other

LEMMA WillMore ==
  ASSUME NEW q, NEW y, NEW z, NEW base, NEW next, Will(q, y, z, base), base => next
  PROVE  Will(q, y, z, next)
BY DEF Will

LEMMA WillNone ==
  ASSUME NEW y, NEW z, NEW base
  PROVE  Will(<<>>, y, z, base) => base
BY DEF Will, Has

\* Of what is not muted the words on the direction go through.
LEMMA Heeded ==
  ASSUME NEW V, NEW evs, NEW s \in Seq(V), NEW u \in Seq(V), Passed(evs, s, u),
         asked'.by = "switch"
  PROVE  /\ asked' = asked
         /\ \A w : /\ Has(evs, Sw(w)) <=> Has(s, Sw(w))
                   /\ Has(evs, Ds(w)) <=> Has(s, Ds(w))
<1>1. ~Muted(u) /\ asked' = asked
  BY DEF Passed, None
<1>2. ASSUME NEW w PROVE ~Has(u, Sw(w)) /\ ~Has(u, Ds(w))
  BY <1>1 DEF Muted, Has, Sw, Ds
<1>3. ASSUME NEW y PROVE Has(evs, y) <=> Has(s, y) \/ Has(u, y)
  BY HasJoined DEF Passed
<1> QED BY <1>1, <1>2, <1>3

LEMMA ReportTold ==
  ASSUME Types, NEW evs \in Seq(RawEvent), Report(evs), asked'.by = "switch",
         UNCHANGED <<input, dom>>, NEW CONSTANT w \in Dir, ~Has(evs, Sw(Other(w))),
         Told(w) \/ Has(evs, Sw(w))
  PROVE  asked' = asked /\ Told(w)'
<1>1. PICK s \in Seq(RawEvent), u \in Seq(RawEvent) :
        Passed(evs, s, u) /\ raw' = raw \o s /\ Len(raw') <= RAW_CHANNEL_DEPTH
  BY Reported
<1>2. asked' = asked /\ ~Has(s, Sw(Other(w))) /\ (Has(evs, Sw(w)) => Has(s, Sw(w)))
  BY <1>1, Heeded
<1>3. raw \in Seq(RawEvent)
  BY DEF Types
<1> DEFINE base == Will(input, Ds(w), Ds(Other(w)), DomainSays(w))
<1>4. Will(input', Ds(w), Ds(Other(w)), DomainSays(w)') = base
  BY DEF DomainSays
<1> DEFINE y == Sw(w)
           z == Sw(Other(w))
<1>5. Told(w) = Will(raw, y, z, base) /\ Told(w)' = Will(raw', y, z, base)
  BY <1>4, ToldIs
<1> HIDE DEF base, y, z
<1>6. /\ Will(raw, y, z, base) => Will(raw \o s, y, z, base)
      /\ Has(s, y) => Will(raw \o s, y, z, base)
  BY <1>2, <1>3, WillJoined DEF z
<1> QED BY <1>1, <1>2, <1>5, <1>6 DEF y

LEMMA EdgesSilent ==
  ASSUME NEW b, NEW a, NEW w
  PROVE  Has(Polled(b, a), Sw(w)) <=> Has(SwitchReport(a), Sw(w))
<1>1. ASSUME NEW k \in {"shift1", "stop", "joy"}, NEW was, NEW now
      PROVE  ~Has(Edge(k, was, now), Sw(w))
  <2> DEFINE x == <<"Button", k, k \in now>>
             y == Sw(w)
  <2>1. x # y
    BY DEF Sw
  <2>2. Edge(k, was, now) \in {<<>>, <<x>>}
    BY EdgeEvents
  <2> HIDE DEF x, y
  <2>3. ~Has(Edge(k, was, now), y)
    BY <2>1, <2>2, HasFew
  <2> QED BY <2>3 DEF y
<1> QED BY <1>1, PolledEvents

LEMMA PollTells ==
  ASSUME Types, Voice, Poll
  PROVE  Voice'
<1>1. PICK b \in SUBSET Port["mcp0b"], a \in SUBSET Port["mcp1a"] :
           /\ chip' \in [Ports -> [stable : SUBSET Keys, ticks : 0..(DEBOUNCE_TICKS - 1)]]
           /\ \A p \in Ports : chip'[p].stable \subseteq Port[p]
           /\ chip'["mcp0b"].stable = b /\ chip'["mcp1a"].stable = a /\ spoke' = a
           /\ Report(Polled(b, a))
           /\ grip' = [grip EXCEPT !.slipped = @ \/ ~Chorded(b)]
           /\ UNCHANGED <<pins, told, knob, input, surface, dom, budget, blanks>>
  BY PollStep
<1>2. PICK w : w = Fwd(pins)
  OBVIOUS
<1>3. w \in Dir /\ Fwd(pins') = w
  BY <1>1, <1>2, SwitchEvents DEF Fwd
<1>4. Polled(b, a) \in Seq(RawEvent)
  BY PolledEvents
<1>5. SUFFICES ASSUME asked'.by = "switch"
               PROVE  asked'.dir = w /\ (Fwd(spoke') = w => Told(w)')
  BY <1>2, <1>3 DEF Voice, Told, Fwd
<1>6. asked' = asked
  <2>1. PICK s \in Seq(RawEvent), u \in Seq(RawEvent) : Passed(Polled(b, a), s, u)
    BY <1>1, <1>4, Reported
  <2> QED BY <1>5, <2>1, Heeded
<1>7. asked.dir = w /\ (Fwd(spoke) = w => Told(w))
  BY <1>2, <1>5, <1>6 DEF Voice
<1>8. ASSUME Fwd(a) = w
      PROVE  Told(w)'
  <2>1. /\ SwitchReport(a) \in {<<>>, <<Sw(w)>>}
        /\ a # spoke => SwitchReport(a) = <<Sw(w)>>
    BY <1>8, SwitchEvents DEF Sw
  <2>2. ~Has(SwitchReport(a), Sw(Other(w)))
    <3>1. Sw(w) # Sw(Other(w))
      BY <1>3, Dirs
    <3>2. ~Has(<<>>, Sw(Other(w))) /\ ~Has(<<Sw(w)>>, Sw(Other(w)))
      BY <3>1, HasFew
    <3> QED BY <2>1, <3>2
  <2>3. a # spoke => Has(SwitchReport(a), Sw(w))
    BY <2>1, HasFew
  <2>4. ~Has(Polled(b, a), Sw(Other(w))) /\ (a # spoke => Has(Polled(b, a), Sw(w)))
    BY <2>2, <2>3, EdgesSilent
  <2>5. Told(w) \/ Has(Polled(b, a), Sw(w))
    BY <1>7, <1>8, <2>4
  <2> QED BY <1>1, <1>3, <1>4, <1>5, <2>4, <2>5, ReportTold
<1> QED BY <1>1, <1>6, <1>7, <1>8

LEMMA QuietTells ==
  ASSUME Types, Voice, UNCHANGED <<pins, spoke, raw, input, dom>>, asked' = asked \/ asked'.by # "switch"
  PROVE  Voice'
<1>1. PICK w : w = Fwd(pins)
  OBVIOUS
<1>2. Fwd(pins') = w /\ Fwd(spoke') = Fwd(spoke)
  BY <1>1
<1>3. DomainSays(w)' = DomainSays(w)
  BY DEF DomainSays
<1>4. Told(w)' = Told(w)
  BY <1>3, ToldIs
<1> QED BY <1>1, <1>2, <1>4 DEF Voice, Told, Fwd

LEMMA SampleTells ==
  ASSUME Types, Count, Voice, Sample
  PROVE  Voice'
<1> DEFINE k == Update(knob)
           evs == IF k.delta = 0 THEN <<>> ELSE <<<<"Encoder", k.delta>>>>
<1>1. /\ knob' = k /\ Report(evs)
      /\ UNCHANGED <<pins, spoke, input, dom>>
  BY DEF Sample
<1>2. k \in KnobType
  BY Decoded
<1> HIDE DEF k
<1>3. evs \in Seq(RawEvent)
  <2>1. k.delta \in {-1, 0, 1}
    BY <1>2 DEF KnobType
  <2>2. k.delta # 0 => <<"Encoder", k.delta>> \in RawEvent
    BY <2>1 DEF RawEvent
  <2> QED BY <2>2, FewEvents
<1>4. ASSUME NEW w PROVE ~Has(evs, Sw(w))
  <2>1. <<"Encoder", k.delta>> # Sw(w)
    BY DEF Sw
  <2> QED BY <2>1, HasFew
<1> HIDE DEF evs
<1>5. PICK w : w = Fwd(pins)
  OBVIOUS
<1>6. w \in Dir /\ Fwd(pins') = w /\ Fwd(spoke') = Fwd(spoke)
  BY <1>1, <1>5, SwitchEvents
<1>7. SUFFICES ASSUME asked'.by = "switch"
               PROVE  asked'.dir = w /\ (Fwd(spoke') = w => Told(w)')
  BY <1>6 DEF Voice, Told, Fwd
<1>8. asked' = asked
  <2>1. PICK s \in Seq(RawEvent), u \in Seq(RawEvent) : Passed(evs, s, u)
    BY <1>1, <1>3, Reported
  <2> QED BY <1>7, <2>1, Heeded
<1>9. asked.dir = w /\ (Fwd(spoke) = w => Told(w))
  BY <1>5, <1>7, <1>8 DEF Voice
<1>10. Told(w) => Told(w)'
  BY <1>1, <1>3, <1>4, <1>6, <1>7, ReportTold
<1> QED BY <1>6, <1>8, <1>9, <1>10

LEMMA ButtonTaskTells ==
  ASSUME Types, Voice, ButtonTask
  PROVE  Voice'
<1> DEFINE down == "knob" \in pins
           x == <<"Button", "knob", down>>
           evs == <<x>>
<1>1. /\ Report(evs)
      /\ UNCHANGED <<pins, spoke, input, dom>>
  BY DEF ButtonTask
<1>2. down \in BOOLEAN
  OBVIOUS
<1> HIDE DEF down
<1>3. evs \in Seq(RawEvent)
  <2>1. x \in RawEvent
    BY <1>2 DEF RawEvent, Buttons
  <2> QED BY <2>1, FewEvents
<1>4. ASSUME NEW w PROVE ~Has(evs, Sw(w))
  <2>1. x # Sw(w)
    BY DEF Sw
  <2> HIDE DEF x
  <2> QED BY <2>1, HasFew
<1> HIDE DEF evs
<1>5. PICK w : w = Fwd(pins)
  OBVIOUS
<1>6. w \in Dir /\ Fwd(pins') = w /\ Fwd(spoke') = Fwd(spoke)
  BY <1>1, <1>5, SwitchEvents
<1>7. SUFFICES ASSUME asked'.by = "switch"
               PROVE  asked'.dir = w /\ (Fwd(spoke') = w => Told(w)')
  BY <1>6 DEF Voice, Told, Fwd
<1>8. asked' = asked
  <2>1. PICK s \in Seq(RawEvent), u \in Seq(RawEvent) : Passed(evs, s, u)
    BY <1>1, <1>3, Reported
  <2> QED BY <1>7, <2>1, Heeded
<1>9. asked.dir = w /\ (Fwd(spoke) = w => Told(w))
  BY <1>5, <1>7, <1>8 DEF Voice
<1>10. Told(w) => Told(w)'
  BY <1>1, <1>3, <1>4, <1>6, <1>7, ReportTold
<1> QED BY <1>6, <1>8, <1>9, <1>10

\* Behind the bridge: events that say w, or nothing, on the direction.
LEMMA EmitTold ==
  ASSUME Types, NEW evs \in Seq(InputEvent), Emit(evs), asked'.by = "switch", dom' = dom,
         NEW CONSTANT w \in Dir, ~Has(evs, Ds(Other(w)))
  PROVE  LET was == Will(input, Ds(w), Ds(Other(w)), DomainSays(w))
             is == Will(input', Ds(w), Ds(Other(w)), DomainSays(w)')
         IN  asked' = asked /\ (was => is) /\ (Has(evs, Ds(w)) => is)
<1>1. PICK s \in Seq(InputEvent), u \in Seq(InputEvent) :
        Passed(evs, s, u) /\ input' = input \o s /\ Len(input') <= INPUT_CHANNEL_DEPTH
  BY Emitted
<1>2. asked' = asked /\ ~Has(s, Ds(Other(w))) /\ (Has(evs, Ds(w)) => Has(s, Ds(w)))
  BY <1>1, Heeded
<1>3. input \in Seq(InputEvent)
  BY DEF Types
<1> DEFINE y == Ds(w)
           z == Ds(Other(w))
           base == DomainSays(w)
<1>4. DomainSays(w)' = base
  BY DEF DomainSays
<1> HIDE DEF base, y, z
<1>5. /\ Will(input, y, z, base) => Will(input \o s, y, z, base)
      /\ Has(s, y) => Will(input \o s, y, z, base)
  BY <1>2, <1>3, WillJoined DEF z
<1> QED BY <1>1, <1>2, <1>4, <1>5 DEF y, z, base

LEMMA OnRawTells ==
  ASSUME Types, Voice, OnRaw
  PROVE  Voice'
<1> DEFINE h == Head(raw)
           evs == Mapped(surface, h) \o Fires(Keep(surface, h))
<1>1. /\ raw # <<>> /\ Emit(evs) /\ raw' = Tail(raw)
      /\ UNCHANGED <<pins, spoke, dom>>
  BY DEF OnRaw
<1>2. raw \in Seq(RawEvent) /\ h \in RawEvent
  BY <1>1, HeadTail DEF Types
<1> HIDE DEF h
<1>3. /\ evs \in Seq(InputEvent)
      /\ \A d : Has(evs, Ds(d)) <=> h = Sw(d)
  BY <1>2, BridgeEvents DEF Sw, Ds
<1> HIDE DEF evs
<1>4. PICK w : w = Fwd(pins)
  OBVIOUS
<1>5. w \in Dir /\ Fwd(pins') = w /\ Fwd(spoke') = Fwd(spoke)
  BY <1>1, <1>4, SwitchEvents
<1>6. SUFFICES ASSUME asked'.by = "switch"
               PROVE  asked'.dir = w /\ (Fwd(spoke') = w => Told(w)')
  BY <1>5 DEF Voice, Told, Fwd
<1>7. asked' = asked
  <2>1. PICK s \in Seq(InputEvent), u \in Seq(InputEvent) : Passed(evs, s, u)
    BY <1>1, <1>3, Emitted
  <2> QED BY <1>6, <2>1, Heeded
<1>8. asked.dir = w /\ (Fwd(spoke) = w => Told(w))
  BY <1>4, <1>6, <1>7 DEF Voice
<1>9. ASSUME Told(w) PROVE Told(w)'
  <2> DEFINE y == Sw(w)
             z == Sw(Other(w))
             base == Will(input, Ds(w), Ds(Other(w)), DomainSays(w))
             next == Will(input', Ds(w), Ds(Other(w)), DomainSays(w)')
  <2>1. Will(raw, y, z, base) /\ Told(w)' = Will(raw', y, z, next)
    BY <1>9, ToldIs
  <2>2. h # z => (base => next) /\ (h = y => next)
    BY <1>1, <1>3, <1>5, <1>6, EmitTold
  <2>3. y # z
    BY <1>5, Dirs
  <2> HIDE DEF y, z, base, next
  <2>4. Will(Tail(raw), y, z, next)
    BY <1>1, <1>2, <2>1, <2>2, <2>3, WillTail DEF h
  <2> QED BY <1>1, <2>1, <2>4
<1> QED BY <1>5, <1>7, <1>8, <1>9

LEMMA BridgeTickTells ==
  ASSUME Types, Voice, BridgeTick
  PROVE  Voice'
<1> DEFINE evs == Fires(surface)
<1>1. Emit(evs) /\ UNCHANGED <<pins, spoke, raw, dom>>
  BY DEF BridgeTick
<1>2. /\ evs \in Seq(InputEvent)
      /\ \A d : ~Has(evs, Ds(d))
  BY FiresIs DEF Ds
<1> HIDE DEF evs
<1>4. PICK w : w = Fwd(pins)
  OBVIOUS
<1>5. w \in Dir /\ Fwd(pins') = w /\ Fwd(spoke') = Fwd(spoke)
  BY <1>1, <1>4, SwitchEvents
<1>6. SUFFICES ASSUME asked'.by = "switch"
               PROVE  asked'.dir = w /\ (Fwd(spoke') = w => Told(w)')
  BY <1>5 DEF Voice, Told, Fwd
<1>7. asked' = asked
  <2>1. PICK s \in Seq(InputEvent), u \in Seq(InputEvent) : Passed(evs, s, u)
    BY <1>1, <1>2, Emitted
  <2> QED BY <1>6, <2>1, Heeded
<1>8. asked.dir = w /\ (Fwd(spoke) = w => Told(w))
  BY <1>4, <1>6, <1>7 DEF Voice
<1>9. ASSUME Told(w) PROVE Told(w)'
  <2> DEFINE y == Sw(w)
             z == Sw(Other(w))
             base == Will(input, Ds(w), Ds(Other(w)), DomainSays(w))
             next == Will(input', Ds(w), Ds(Other(w)), DomainSays(w)')
  <2>1. Will(raw, y, z, base) /\ Told(w)' = Will(raw', y, z, next)
    BY <1>9, ToldIs
  <2>2. base => next
    BY <1>1, <1>2, <1>5, <1>6, EmitTold
  <2> HIDE DEF y, z, base, next
  <2>3. Will(raw, y, z, next)
    BY <2>1, <2>2, WillMore
  <2> QED BY <1>1, <2>1, <2>3
<1> QED BY <1>5, <1>7, <1>8, <1>9

\* An event the domain takes, and what it then says of the direction.
LEMMA TakeTold ==
  ASSUME Types, Take, NEW CONSTANT w \in Dir, Told(w),
         Head(input) = Ds(w) => DomainSays(w)',
         Head(input)[1] # "DirectionSet" /\ DomainSays(w) => DomainSays(w)'
  PROVE  Told(w)'
<1> DEFINE ev == Head(input)
           y == Ds(w)
           z == Ds(Other(w))
           base == DomainSays(w)
           next == DomainSays(w)'
           was == Will(input, y, z, base)
           is == Will(input', y, z, next)
<1>1. /\ input \in Seq(InputEvent) /\ input # <<>> /\ ev \in InputEvent /\ input' = Tail(input)
      /\ raw' = raw
  BY Taken DEF Types
<1>2. ev \notin {y, z} => ev[1] # "DirectionSet"
  <2>1. ev[1] = "DirectionSet" => ev[2] \in Dir /\ ev = <<"DirectionSet", ev[2]>>
    BY <1>1, InputIs
  <2>2. \A d \in Dir : d = w \/ d = Other(w)
    BY Dirs
  <2> QED BY <2>1, <2>2 DEF Ds
<1>3. y # z
  BY Dirs
<1>4. ev = y => next
  OBVIOUS
<1>5. ev \notin {y, z} /\ base => next
  BY <1>2
<1>6. Told(w) = Will(raw, Sw(w), Sw(Other(w)), was) /\ Told(w)' = Will(raw', Sw(w), Sw(Other(w)), is)
  BY ToldIs
<1>7. was => is
  <2> HIDE DEF y, z, base, next
  <2> QED BY <1>1, <1>3, <1>4, <1>5, WillTail
<1> HIDE DEF was, is
<1> QED BY <1>1, <1>6, <1>7, WillMore

LEMMA HandleAwakeTells ==
  ASSUME Types, Voice, HandleAwake
  PROVE  Voice'
<1> DEFINE ev == Head(input)
<1>1. Take
  BY DEF HandleAwake
<1>2. ev \in InputEvent /\ UNCHANGED <<pins, spoke>>
  BY <1>1, Taken
<1>3. PICK moving \in BOOLEAN, saved \in BOOLEAN :
        /\ dom' = Apply(dom, ev, moving, saved)
        /\ missed' = missed + IF dom.loco THEN 0 ELSE Detents(<<ev>>)
        /\ asked' = IF ev[1] = "EncoderButton" /\ dom.loco /\ ~moving
                    THEN [by |-> "knob", dir |-> Other(dom.dir)] ELSE asked
  BY Zenon DEF HandleAwake
<1>4. PICK w : w = Fwd(pins)
  OBVIOUS
<1>5. w \in Dir /\ Fwd(pins') = w /\ Fwd(spoke') = Fwd(spoke)
  BY <1>2, <1>4, SwitchEvents
<1>6. SUFFICES ASSUME asked'.by = "switch"
               PROVE  asked'.dir = w /\ (Fwd(spoke') = w => Told(w)')
  BY <1>5 DEF Voice, Told, Fwd
<1>7. asked' = asked /\ ~(ev[1] = "EncoderButton" /\ dom.loco /\ ~moving)
  BY <1>3, <1>6
<1>8. asked.dir = w /\ (Fwd(spoke) = w => Told(w))
  BY <1>4, <1>6, <1>7 DEF Voice
<1>9. ASSUME Told(w) PROVE Told(w)'
  <2>1. dom \in DomType
    BY Sums
  <2> HIDE DEF ev
  <2>2. /\ ev[1] # "DirectionSet" => dom'.spdt = dom.spdt /\ dom'.dir = dom.dir
        /\ ev[1] = "DirectionSet" => dom'.spdt = ev[2] /\ (dom.loco => dom'.dir = ev[2])
        /\ dom'.loco = dom.loco
    BY <1>2, <1>3, <1>7, <2>1, Applied
  <2>3. ev = Ds(w) => ev[1] = "DirectionSet" /\ ev[2] = w
    BY DEF Ds
  <2>4. ev = Ds(w) => DomainSays(w)'
    BY <2>2, <2>3 DEF DomainSays
  <2>5. ev[1] # "DirectionSet" /\ DomainSays(w) => DomainSays(w)'
    BY <2>2 DEF DomainSays
  <2> QED BY <1>1, <1>5, <1>9, <2>4, <2>5, TakeTold DEF ev
<1> QED BY <1>5, <1>7, <1>8, <1>9

LEMMA SwallowTells ==
  ASSUME Types, Voice, HandleBlank \/ HandleSplash
  PROVE  Voice'
<1> DEFINE ev == Head(input)
<1>1. Take /\ Forget(<<ev>>)
  BY DEF HandleBlank, HandleSplash
<1>2. dom'.spdt = dom.spdt /\ dom'.loco = dom.loco /\ dom'.dir = dom.dir
  <2>1. \/ dom' = dom \/ dom' = [dom EXCEPT !.phase = "awake"]
        \/ dom' = [dom EXCEPT !.phase = "programming"]
    BY DEF HandleBlank, HandleSplash
  <2> QED BY <2>1, Sums DEF DomType
<1>3. ev \in InputEvent /\ UNCHANGED <<pins, spoke>>
  BY <1>1, Taken
<1>4. PICK w : w = Fwd(pins)
  OBVIOUS
<1>5. w \in Dir /\ Fwd(pins') = w /\ Fwd(spoke') = Fwd(spoke)
  BY <1>3, <1>4, SwitchEvents
<1>6. SUFFICES ASSUME asked'.by = "switch"
               PROVE  asked'.dir = w /\ (Fwd(spoke') = w => Told(w)')
  BY <1>5 DEF Voice, Told, Fwd
<1>7. asked' = asked /\ ev[1] # "DirectionSet"
  <2>1. asked' = IF Muted(<<ev>>) THEN [by |-> None] ELSE asked
    BY <1>1, Forgotten
  <2>2. asked' = asked /\ ~Muted(<<ev>>)
    BY <1>6, <2>1 DEF None
  <2> QED BY <2>2 DEF Muted
<1>8. asked.dir = w /\ (Fwd(spoke) = w => Told(w))
  BY <1>4, <1>6, <1>7 DEF Voice
<1>9. ASSUME Told(w) PROVE Told(w)'
  <2>1. ev # Ds(w)
    BY <1>7 DEF Ds
  <2>2. DomainSays(w)' = DomainSays(w)
    BY <1>2 DEF DomainSays
  <2> QED BY <1>1, <1>5, <1>9, <2>1, <2>2, TakeTold
<1> QED BY <1>5, <1>7, <1>8, <1>9

LEMMA ModeTells ==
  ASSUME Types, Voice, SplashEnds \/ Blank \/ Acquire \/ Release
  PROVE  Voice'
<1>1. UNCHANGED <<pins, spoke, raw, input>>
  BY DEF SplashEnds, Blank, Acquire, Release
<1>2. \/ dom'.spdt = dom.spdt /\ dom'.loco = dom.loco /\ dom'.dir = dom.dir
      \/ dom'.spdt = dom.spdt /\ dom'.dir = dom.spdt
      \/ dom'.spdt = dom.spdt /\ ~dom'.loco
  <2>1. \/ dom' = [dom EXCEPT !.phase = "awake"] \/ dom' = [dom EXCEPT !.phase = "blank"]
        \/ dom' = [dom EXCEPT !.loco = TRUE, !.dir = dom.spdt] \/ dom' = [dom EXCEPT !.loco = FALSE]
    BY DEF SplashEnds, Blank, Acquire, Release
  <2> QED BY <2>1, Sums DEF DomType
<1>3. asked' = asked \/ asked' = [by |-> None]
  BY DEF SplashEnds, Blank, Acquire, Release
<1>4. PICK w : w = Fwd(pins)
  OBVIOUS
<1>5. w \in Dir /\ Fwd(pins') = w /\ Fwd(spoke') = Fwd(spoke)
  BY <1>1, <1>4, SwitchEvents
<1>6. SUFFICES ASSUME asked'.by = "switch"
               PROVE  asked'.dir = w /\ (Fwd(spoke') = w => Told(w)')
  BY <1>5 DEF Voice, Told, Fwd
<1>7. asked' = asked
  BY <1>3, <1>6 DEF None
<1>8. asked.dir = w /\ (Fwd(spoke) = w => Told(w))
  BY <1>4, <1>6, <1>7 DEF Voice
<1>9. ASSUME Told(w) PROVE Told(w)'
  <2> DEFINE y == Sw(w)
             z == Sw(Other(w))
             was == Will(input, Ds(w), Ds(Other(w)), DomainSays(w))
             is == Will(input', Ds(w), Ds(Other(w)), DomainSays(w)')
  <2>1. Will(raw, y, z, was) /\ Told(w)' = Will(raw', y, z, is)
    BY <1>9, ToldIs
  <2>2. DomainSays(w) => DomainSays(w)'
    BY <1>2 DEF DomainSays
  <2>3. was => is
    <3> DEFINE base == DomainSays(w)
               next == DomainSays(w)'
    <3>1. base => next
      BY <2>2
    <3> HIDE DEF base, next
    <3> QED BY <1>1, <3>1, WillMore DEF base, next
  <2> HIDE DEF was, is, y, z
  <2>4. Will(raw, y, z, is)
    BY <2>1, <2>3, WillMore
  <2> QED BY <1>1, <2>1, <2>4
<1> QED BY <1>5, <1>7, <1>8, <1>9

LEMMA TouchTells ==
  ASSUME Types, Voice, NEW k \in Keys, Touch(k)
  PROVE  Voice'
<1>1. /\ k = "direction" => Quiet
      /\ pins' = IF k \in pins THEN pins \ {k} ELSE pins \cup {k}
      /\ asked' = IF k = "direction" THEN [by |-> "switch", dir |-> Fwd(pins')] ELSE asked
      /\ UNCHANGED <<chip, spoke, raw, input, dom>>
  BY DEF Touch
<1>2. CASE k = "direction"
  <2>1. spoke = pins \cap Port["mcp1a"]
    BY <1>1, <1>2, PortsAre DEF Quiet, Settled, Types
  <2>2. "direction" \in spoke <=> "direction" \in pins
    BY <2>1, PortsAre
  <2>3. Fwd(spoke') # Fwd(pins')
    BY <1>1, <1>2, <2>2 DEF Fwd
  <2>4. asked'.dir = Fwd(pins')
    BY <1>1, <1>2
  <2> QED BY <2>3, <2>4 DEF Voice, Fwd
<1>3. CASE k # "direction"
  <2>1. Fwd(pins') = Fwd(pins) /\ asked' = asked /\ Fwd(spoke') = Fwd(spoke)
    BY <1>1, <1>3 DEF Fwd
  <2>2. PICK w : w = Fwd(pins)
    OBVIOUS
  <2>3. DomainSays(w)' = DomainSays(w)
    BY <1>1 DEF DomainSays
  <2>4. Told(w)' = Told(w)
    BY <1>1, <2>3, ToldIs
  <2> QED BY <2>1, <2>2, <2>4 DEF Voice, Told, Fwd
<1> QED BY <1>2, <1>3

LEMMA VoiceStarts ==
  ASSUME Init
  PROVE  Voice
BY DEF Init, Voice, None

LEMMA VoiceStep ==
  ASSUME Types, Count, Voice, [Next]_vars
  PROVE  Voice'
<1>1. CASE Poll
  BY <1>1, PollTells
<1>2. CASE Sample
  BY <1>2, SampleTells
<1>3. CASE ButtonTask
  BY <1>3, ButtonTaskTells
<1>4. CASE OnRaw
  BY <1>4, OnRawTells
<1>5. CASE BridgeTick
  BY <1>5, BridgeTickTells
<1>6. CASE HandleAwake
  BY <1>6, HandleAwakeTells
<1>7. CASE HandleBlank \/ HandleSplash
  BY <1>7, SwallowTells
<1>8. CASE SplashEnds \/ Blank \/ Acquire \/ Release
  BY <1>8, ModeTells
<1>9. CASE \E k \in Keys : Touch(k)
  BY <1>9, TouchTells
<1>10. CASE Turn \/ Second
  BY <1>10, QuietTells DEF Turn, Second
<1>11. CASE UNCHANGED vars
  BY <1>11, QuietTells DEF vars
<1> QED BY <1>1, <1>2, <1>3, <1>4, <1>5, <1>6, <1>7, <1>8, <1>9, <1>10, <1>11 DEF Next

\* When the operator turned the direction switch last, and nothing is still on its
\* way, the domain goes by the switch, and so does the loco it drives, however the
\* contacts bounced, whatever else was pressed on their port and whichever locos were
\* acquired meanwhile; the word that a full channel or a dark display took is excepted.
THEOREM SwitchIsAlwaysObeyed == Spec => []SwitchIsObeyed
<1>1. Init => Voice
  BY VoiceStarts
<1>2. Types /\ Count /\ Voice /\ [Next]_vars => Voice'
  BY VoiceStep
<1>3. Types /\ Voice => SwitchIsObeyed
  <2>1. SUFFICES ASSUME Types, Voice, Quiet, asked.by = "switch"
                 PROVE  dom.spdt = asked.dir /\ (dom.loco => dom.dir = asked.dir)
    BY DEF SwitchIsObeyed
  <2>2. raw = <<>> /\ input = <<>>
    BY <2>1 DEF Quiet
  <2>3. spoke = pins \cap Port["mcp1a"]
    BY <2>1, PortsAre DEF Quiet, Settled, Types
  <2>4. Fwd(spoke) = Fwd(pins)
    BY <2>3, PortsAre DEF Fwd
  <2>5. PICK w : w = Fwd(pins)
    OBVIOUS
  <2>6. asked.dir = w /\ Told(w)
    BY <2>1, <2>4, <2>5 DEF Voice
  <2> DEFINE was == Will(input, Ds(w), Ds(Other(w)), DomainSays(w))
  <2>7. Will(<<>>, Sw(w), Sw(Other(w)), was)
    BY <2>2, <2>6, ToldIs
  <2>8. was
    <3> HIDE DEF was
    <3> QED BY <2>7, WillNone
  <2>9. DomainSays(w)
    <3> DEFINE base == DomainSays(w)
    <3>1. Will(<<>>, Ds(w), Ds(Other(w)), base)
      BY <2>2, <2>8
    <3> HIDE DEF base
    <3>2. base
      BY <3>1, WillNone
    <3> QED BY <3>2 DEF base
  <2> QED BY <2>6, <2>9 DEF DomainSays
<1> QED BY <1>1, <1>2, <1>3, TypesAlways, PTL DEF Spec

-----------------------------------------------------------------------------
(* The chord.                                                              *)

Bt(k, v) == <<"Button", k, v>>

LEMMA TracedIs ==
  ASSUME NEW CONSTANT k
  PROVE  /\ Traced(k) = LET v == k \in chip["mcp0b"].stable
                        IN  Will(raw, Bt(k, v), Bt(k, ~v), Down(k) = v)
         /\ Traced(k)' = LET v == k \in chip'["mcp0b"].stable
                         IN  Will(raw', Bt(k, v), Bt(k, ~v), Down(k)' = v)
BY DEF Traced, Will, Has, Bt, Down

LEMMA ReleasedIs ==
  /\ Released = \E k \in ChordKeys : Has(raw, Bt(k, FALSE))
  /\ Released' = \E k \in ChordKeys : Has(raw', Bt(k, FALSE))
BY DEF Released, Has, Bt

LEMMA DownIs ==
  ASSUME Types, NEW k \in ChordKeys
  PROVE  Down(k) \in BOOLEAN
BY DEF Types, Down

LEMMA Bts ==
  ASSUME NEW k, NEW v \in BOOLEAN
  PROVE  Bt(k, v) # Bt(k, ~v)
BY DEF Bt

LEMMA PolledChord ==
  ASSUME Types, NEW b, NEW a \in SUBSET Port["mcp1a"], NEW k \in ChordKeys, NEW x
  PROVE  /\ Has(Polled(b, a), Bt(k, x)) =>
              /\ (k \in chip["mcp0b"].stable) # (k \in b)
              /\ x = (k \in b)
         /\ (k \in chip["mcp0b"].stable) # (k \in b) => Has(Polled(b, a), Bt(k, k \in b))
<1>1. k \in {"shift1", "stop", "joy"} /\ k \notin a /\ k \notin chip["mcp1a"].stable
  BY PortsAre DEF ChordKeys, Types
<1>2. ASSUME NEW y, y[1] = "Button" PROVE ~Has(SwitchReport(a), y)
  <2> DEFINE z == <<"Switch", Fwd(a)>>
  <2>1. y # z
    BY <1>2
  <2>2. SwitchReport(a) \in {<<>>, <<z>>}
    BY SwitchEvents
  <2> HIDE DEF z
  <2> QED BY <2>1, <2>2, HasFew
<1>3. ASSUME NEW kk \in {"shift1", "stop", "joy"}, NEW was, NEW now, NEW v,
             Has(Edge(kk, was, now), Bt(k, v))
      PROVE  k = kk /\ v = (k \in now) /\ (k \in was) # (k \in now)
  <2> DEFINE down == kk \in now
             y == <<"Button", kk, down>>
             z == Bt(k, v)
  <2>1. Edge(kk, was, now) = IF (kk \in was) # down THEN <<y>> ELSE <<>>
    BY DEF Edge
  <2> HIDE DEF y, z
  <2>2. (kk \in was) # down /\ y = z
    <3> DEFINE e == Edge(kk, was, now)
               diff == (kk \in was) # down
    <3>1. Has(e, z) /\ diff \in BOOLEAN /\ e = IF diff THEN <<y>> ELSE <<>>
      BY <1>3, <2>1 DEF z
    <3> HIDE DEF e, diff
    <3>2. CASE diff
      <4>1. Has(<<y>>, z)
        BY <3>1, <3>2
      <4> QED BY <3>2, <4>1, HasFew DEF diff
    <3>3. CASE ~diff
      <4>1. Has(<<>>, z)
        BY <3>1, <3>3
      <4> QED BY <4>1, HasFew
    <3> QED BY <3>2, <3>3
  <2>3. k = kk /\ v = down
    <3> HIDE DEF down
    <3> QED BY <2>2 DEF y, z, Bt
  <2> QED BY <2>2, <2>3
<1>4. ASSUME Has(Polled(b, a), Bt(k, x))
      PROVE  /\ (k \in chip["mcp0b"].stable) # (k \in b)
             /\ x = (k \in b)
  <2>1. ~Has(SwitchReport(a), Bt(k, x))
    BY <1>2 DEF Bt
  <2>2. \E kk \in {"shift1", "stop", "joy"} :
          \/ Has(Edge(kk, chip["mcp0b"].stable, b), Bt(k, x))
          \/ Has(Edge(kk, chip["mcp1a"].stable, a), Bt(k, x))
    BY <1>4, <2>1, PolledEvents
  <2> QED BY <1>1, <1>3, <2>2
<1>5. ASSUME (k \in chip["mcp0b"].stable) # (k \in b)
      PROVE  Has(Polled(b, a), Bt(k, k \in b))
  <2> DEFINE y == Bt(k, k \in b)
  <2>1. Edge(k, chip["mcp0b"].stable, b) = <<y>>
    BY <1>1, <1>5, EdgeEvents DEF Bt
  <2> HIDE DEF y
  <2>2. Has(Edge(k, chip["mcp0b"].stable, b), y)
    BY <2>1, HasFew
  <2>3. Has(Polled(b, a), y)
    BY <1>1, <2>2, PolledEvents
  <2> QED BY <2>3 DEF y
<1> QED BY <1>4, <1>5

\* While nothing is lost, all that is reported comes into raw.
LEMMA ReportWhole ==
  ASSUME Types, NEW evs \in Seq(RawEvent), Report(evs), ~lost'
  PROVE  ~lost /\ raw' = raw \o evs
<1>1. PICK s \in Seq(RawEvent), u \in Seq(RawEvent) :
        Passed(evs, s, u) /\ raw' = raw \o s /\ Len(raw') <= RAW_CHANNEL_DEPTH
  BY Reported
<1>2. ~lost /\ u = <<>> /\ evs = s \o <<>>
  BY <1>1 DEF Passed
<1>3. s \o <<>> = s
  OBVIOUS
<1> QED BY <1>1, <1>2, <1>3

LEMMA PollHolds ==
  ASSUME Types, Held, Poll
  PROVE  Held'
<1>1. PICK b \in SUBSET Port["mcp0b"], a \in SUBSET Port["mcp1a"] :
           /\ chip' \in [Ports -> [stable : SUBSET Keys, ticks : 0..(DEBOUNCE_TICKS - 1)]]
           /\ \A p \in Ports : chip'[p].stable \subseteq Port[p]
           /\ chip'["mcp0b"].stable = b /\ chip'["mcp1a"].stable = a /\ spoke' = a
           /\ Report(Polled(b, a))
           /\ grip' = [grip EXCEPT !.slipped = @ \/ ~Chorded(b)]
           /\ UNCHANGED <<pins, told, knob, input, surface, dom, budget, blanks>>
  BY PollStep
<1>2. Polled(b, a) \in Seq(RawEvent) /\ raw \in Seq(RawEvent)
  BY PolledEvents DEF Types
<1>3. grip'.units = grip.units /\ grip'.slipped = (grip.slipped \/ ~Chorded(b))
  BY <1>1 DEF Types
<1>4. /\ surface' = surface /\ chip'["mcp0b"].stable = b
      /\ \A k : Down(k)' = Down(k)
  BY <1>1 DEF Down
<1>5. ASSUME ~lost', NEW CONSTANT k \in ChordKeys PROVE Traced(k)'
  <2>1. PICK v : v = (k \in b)
    OBVIOUS
  <2> DEFINE y == Bt(k, v)
             z == Bt(k, ~v)
             base == Down(k) = v
             was == k \in chip["mcp0b"].stable
  <2>2. v \in BOOLEAN
    BY <2>1
  <2>3. ~lost /\ raw' = raw \o Polled(b, a)
    BY <1>1, <1>2, <1>5, ReportWhole
  <2>4. Traced(k)' = Will(raw', y, z, base)
    BY <1>4, <2>1, TracedIs
  <2>5. was = v => Will(raw, y, z, base)
    BY <2>3, TracedIs DEF Held
  <2>6. ~Has(Polled(b, a), z)
    <3>1. Has(Polled(b, a), Bt(k, ~v)) => (~v) = (k \in b)
      BY PolledChord
    <3>2. (~v) # (k \in b)
      BY <2>1, <2>2
    <3> QED BY <3>1, <3>2
  <2>7. was # v => Has(Polled(b, a), y)
    BY <2>1, PolledChord
  <2>8. was \in BOOLEAN
    OBVIOUS
  <2> HIDE DEF y, z, base, was
  <2>9. /\ Will(raw, y, z, base) => Will(raw \o Polled(b, a), y, z, base)
        /\ Has(Polled(b, a), y) => Will(raw \o Polled(b, a), y, z, base)
    BY <1>2, <2>6, WillJoined
  <2> QED BY <2>3, <2>4, <2>5, <2>7, <2>9
<1>6. ASSUME ~lost', grip'.slipped, ~Released' PROVE surface.since <= 0
  <2>1. ~lost /\ raw' = raw \o Polled(b, a)
    BY <1>1, <1>2, <1>6, ReportWhole
  <2>2. \A y : Has(raw', y) <=> Has(raw, y) \/ Has(Polled(b, a), y)
    BY <1>2, <2>1, HasJoined
  <2>3. ~Released
    BY <1>6, <2>2, ReleasedIs
  <2>4. CASE grip.slipped
    BY <2>1, <2>3, <2>4 DEF Held
  <2>5. CASE ~grip.slipped
    <3>1. Chorded(chip["mcp0b"].stable) /\ ~Chorded(b)
      BY <1>3, <1>6, <2>5 DEF Held
    <3>2. PICK k \in ChordKeys : k \in chip["mcp0b"].stable /\ k \notin b
      BY <3>1 DEF Chorded, ChordKeys
    <3>3. Has(Polled(b, a), Bt(k, k \in b))
      BY <3>2, PolledChord
    <3>4. (k \in b) = FALSE
      BY <3>2
    <3>5. Has(Polled(b, a), Bt(k, FALSE))
      BY <3>3, <3>4
    <3> QED BY <1>6, <2>2, <3>5, ReleasedIs
  <2> QED BY <2>4, <2>5
<1>7. ~lost' => surface.since <= grip.units
  <2>1. ~lost' => ~lost
    BY <1>1, <1>2, ReportWhole
  <2> QED BY <2>1 DEF Held
<1>8. ~Chorded(b) => grip'.slipped
  BY <1>3
<1>9. surface.since # NotHeld => surface.shift /\ surface.stop
  BY DEF Held
<1> QED BY <1>3, <1>4, <1>5, <1>6, <1>7, <1>8, <1>9 DEF Held, Chorded

\* Nothing that Held speaks of has changed, or more is slipped through.
LEMMA NothingHolds ==
  ASSUME Held, UNCHANGED <<chip, raw, surface, grip, lost>>
  PROVE  Held'
<1>1. ASSUME NEW CONSTANT k PROVE Traced(k)' = Traced(k)
  BY TracedIs DEF Down
<1>2. Released' = Released
  BY ReleasedIs
<1> QED BY <1>1, <1>2 DEF Held, Chorded

\* An event of another contact.
LEMMA OtherReport ==
  ASSUME Types, Held, NEW evs \in Seq(RawEvent), Report(evs), UNCHANGED <<chip, surface, grip>>,
         \A k \in ChordKeys : \A v : ~Has(evs, Bt(k, v))
  PROVE  Held'
<1>1. raw \in Seq(RawEvent)
  BY DEF Types
<1>2. ~lost' => ~lost /\ raw' = raw \o evs
  BY ReportWhole
<1>3. ASSUME ~lost', NEW CONSTANT k \in ChordKeys PROVE Traced(k)'
  <2>1. PICK v : v = (k \in chip["mcp0b"].stable)
    OBVIOUS
  <2> DEFINE y == Bt(k, v)
             z == Bt(k, ~v)
             base == Down(k) = v
  <2>2. Traced(k)' = Will(raw', y, z, base)
    <3>1. Down(k)' = Down(k)
      BY DEF Down
    <3> QED BY <2>1, <3>1, TracedIs
  <2>3. Will(raw, y, z, base)
    BY <1>2, <1>3, <2>1, TracedIs DEF Held
  <2>4. ~Has(evs, z)
    OBVIOUS
  <2> HIDE DEF y, z, base
  <2>5. Will(raw \o evs, y, z, base)
    BY <1>1, <2>3, <2>4, WillJoined
  <2> QED BY <1>2, <1>3, <2>2, <2>5
<1>4. ~lost' /\ ~Released' => ~Released
  <2>1. ASSUME ~lost', NEW y PROVE Has(raw', y) <=> Has(raw, y) \/ Has(evs, y)
    <3>1. raw' = raw \o evs
      BY <1>2, <2>1
    <3>2. Has(raw \o evs, y) <=> Has(raw, y) \/ Has(evs, y)
      BY <1>1, HasJoined
    <3> QED BY <3>1, <3>2
  <2> QED BY <2>1, ReleasedIs
<1> QED BY <1>2, <1>3, <1>4 DEF Held, Chorded

LEMMA SampleHolds ==
  ASSUME Types, Count, Held, Sample
  PROVE  Held'
<1> DEFINE k == Update(knob)
           evs == IF k.delta = 0 THEN <<>> ELSE <<<<"Encoder", k.delta>>>>
<1>1. Report(evs) /\ UNCHANGED <<chip, surface, grip>>
  BY DEF Sample
<1>2. k \in KnobType
  BY Decoded
<1> HIDE DEF k
<1>3. evs \in Seq(RawEvent)
  <2>1. k.delta \in {-1, 0, 1}
    BY <1>2 DEF KnobType
  <2>2. k.delta # 0 => <<"Encoder", k.delta>> \in RawEvent
    BY <2>1 DEF RawEvent
  <2> QED BY <2>2, FewEvents
<1>4. ASSUME NEW c \in ChordKeys, NEW v PROVE ~Has(evs, Bt(c, v))
  <2>1. <<"Encoder", k.delta>> # Bt(c, v)
    BY DEF Bt
  <2> QED BY <2>1, HasFew
<1> HIDE DEF evs
<1> QED BY <1>1, <1>3, <1>4, OtherReport

LEMMA ButtonTaskHolds ==
  ASSUME Types, Held, ButtonTask
  PROVE  Held'
<1> DEFINE down == "knob" \in pins
           x == <<"Button", "knob", down>>
           evs == <<x>>
<1>1. Report(evs) /\ UNCHANGED <<chip, surface, grip>>
  BY DEF ButtonTask
<1>2. down \in BOOLEAN
  OBVIOUS
<1> HIDE DEF down
<1>3. evs \in Seq(RawEvent)
  <2>1. x \in RawEvent
    BY <1>2 DEF RawEvent, Buttons
  <2> QED BY <2>1, FewEvents
<1>4. ASSUME NEW c \in ChordKeys, NEW v PROVE ~Has(evs, Bt(c, v))
  <2> DEFINE z == Bt(c, v)
  <2>1. x # z
    BY DEF Bt, ChordKeys
  <2> HIDE DEF x, z
  <2>2. ~Has(evs, z)
    BY <2>1, HasFew
  <2> QED BY <2>2 DEF z
<1> HIDE DEF evs
<1> QED BY <1>1, <1>3, <1>4, OtherReport

\* While nothing is lost before a step of the bridge, nothing was lost before it.
LEMMA EmitWhole ==
  ASSUME Types, NEW evs \in Seq(InputEvent), Emit(evs), ~lost'
  PROVE  ~lost
<1>1. PICK s \in Seq(InputEvent), u \in Seq(InputEvent) :
        Passed(evs, s, u) /\ input' = input \o s /\ Len(input') <= INPUT_CHANNEL_DEPTH
  BY Emitted
<1> QED BY <1>1 DEF Passed

LEMMA BridgeTickHolds ==
  ASSUME Types, Held, BridgeTick
  PROVE  Held'
<1>1. /\ surface' = Chord(surface) /\ Emit(Fires(surface))
      /\ UNCHANGED <<chip, raw, grip>>
  BY DEF BridgeTick
<1>2. surface \in SurfaceType /\ surface.since \in {NotHeld} \cup 0..HOLD /\ grip.units \in 0..HOLD
  BY DEF Types, SurfaceType
<1>3. /\ surface'.shift = surface.shift /\ surface'.stop = surface.stop
      /\ ~(surface.shift /\ surface.stop) => surface'.since = NotHeld
      /\ surface.shift /\ surface.stop =>
           surface'.since = IF surface.since = NotHeld THEN 0 ELSE surface.since
  BY <1>1, <1>2, ChordIs
<1>4. ~lost' => ~lost
  BY <1>1, EmitWhole, FiresIs
<1>5. ASSUME NEW CONSTANT k PROVE Traced(k)' = Traced(k)
  <2>1. Down(k)' = Down(k)
    BY <1>3 DEF Down
  <2> QED BY <1>1, <2>1, TracedIs
<1>6. Released' = Released
  BY <1>1, ReleasedIs
<1>7. surface'.since = NotHeld \/ surface'.since = 0 \/ surface'.since = surface.since
  BY <1>2, <1>3 DEF SurfaceType
<1>8. /\ surface.since <= grip.units => surface'.since <= grip.units
      /\ surface.since <= 0 => surface'.since <= 0
  <2>1. HOLD \in Nat
    BY InputAssumption
  <2> QED BY <1>2, <1>7, <2>1 DEF NotHeld
<1>9. surface'.since # NotHeld => surface'.shift /\ surface'.stop
  BY <1>2, <1>3 DEF SurfaceType
<1> QED BY <1>1, <1>4, <1>5, <1>6, <1>8, <1>9 DEF Held, Chorded

LEMMA OnRawHolds ==
  ASSUME Types, Held, OnRaw
  PROVE  Held'
<1> DEFINE h == Head(raw)
           s == Keep(surface, h)
           evs == Mapped(surface, h) \o Fires(s)
<1>1. /\ raw # <<>> /\ surface' = Chord(s) /\ Emit(evs) /\ raw' = Tail(raw)
      /\ UNCHANGED <<chip, grip>>
  BY DEF OnRaw
<1>2. raw \in Seq(RawEvent) /\ h \in RawEvent /\ raw = <<h>> \o Tail(raw) /\ <<h>> \in Seq(RawEvent)
      /\ Tail(raw) \in Seq(RawEvent)
  BY <1>1, HeadTail DEF Types
<1>3. evs \in Seq(InputEvent)
  BY <1>2, BridgeEvents
<1>4. ~lost' => ~lost
  BY <1>1, <1>3, EmitWhole
<1>5. surface \in SurfaceType /\ surface.since \in {NotHeld} \cup 0..HOLD /\ grip.units \in 0..HOLD
  BY DEF Types, SurfaceType
<1> HIDE DEF h
<1>6. /\ s \in SurfaceType /\ s.since = surface.since
      /\ s.shift = IF h[1] = "Button" /\ h[2] = "shift1" THEN h[3] ELSE surface.shift
      /\ s.stop = IF h[1] = "Button" /\ h[2] = "stop" THEN h[3] ELSE surface.stop
  BY <1>2, <1>5, KeepIs
<1> HIDE DEF s, evs
<1>7. /\ surface'.shift = s.shift /\ surface'.stop = s.stop
      /\ ~(s.shift /\ s.stop) => surface'.since = NotHeld
      /\ s.shift /\ s.stop =>
           surface'.since = IF surface.since = NotHeld THEN 0 ELSE surface.since
  BY <1>1, <1>6, ChordIs
<1>8. /\ s.shift \in BOOLEAN /\ s.stop \in BOOLEAN
      /\ surface'.since # NotHeld => surface'.shift /\ surface'.stop
      /\ surface'.since = NotHeld \/ surface'.since = 0 \/ surface'.since = surface.since
  <2>1. s.shift \in BOOLEAN /\ s.stop \in BOOLEAN
    BY <1>6 DEF SurfaceType
  <2> QED BY <1>7, <2>1
<1>9. ASSUME NEW CONSTANT k \in ChordKeys
      PROVE  /\ \A v : h = Bt(k, v) => Down(k)' = v
             /\ (\A v \in BOOLEAN : h # Bt(k, v)) => Down(k)' = Down(k)
  <2>1. Down(k)' = IF h[1] = "Button" /\ h[2] = k THEN h[3] ELSE Down(k)
    BY <1>6, <1>7 DEF Down, ChordKeys
  <2>2. h[1] = "Button" /\ h[2] = k => h[3] \in BOOLEAN /\ h = Bt(k, h[3])
    BY <1>2, RawIs DEF Bt
  <2>3. \A v : h = Bt(k, v) => h[1] = "Button" /\ h[2] = k /\ h[3] = v
    BY DEF Bt
  <2> QED BY <2>1, <2>2, <2>3
<1>10. ASSUME ~lost', NEW CONSTANT k \in ChordKeys PROVE Traced(k)'
  <2>1. PICK v : v = (k \in chip["mcp0b"].stable)
    OBVIOUS
  <2> DEFINE y == Bt(k, v)
             z == Bt(k, ~v)
             base == Down(k) = v
             next == Down(k)' = v
  <2>2. v \in BOOLEAN
    BY <2>1
  <2>3. Will(raw, y, z, base) /\ Traced(k)' = Will(raw', y, z, next)
    <3>1. Traced(k)
      BY <1>4, <1>10 DEF Held
    <3> QED BY <1>1, <2>1, <3>1, TracedIs
  <2>4. y # z
    BY <2>2, Bts
  <2>5. h = y => next
    BY <1>9
  <2>6. h \notin {y, z} /\ base => next
    <3>1. \A w \in BOOLEAN : w = v \/ w = ~v
      BY <2>2
    <3>2. h \notin {y, z} => \A w \in BOOLEAN : h # Bt(k, w)
      BY <3>1
    <3> QED BY <1>9, <3>2
  <2> HIDE DEF y, z, base, next
  <2>7. Will(Tail(raw), y, z, next)
    BY <1>1, <1>2, <2>3, <2>4, <2>5, <2>6, WillTail DEF h
  <2> QED BY <1>1, <2>3, <2>7
<1>11. ~lost' => surface'.since <= grip.units
  <2>1. HOLD \in Nat
    BY InputAssumption
  <2>2. ~lost' => surface.since <= grip.units
    BY <1>4 DEF Held
  <2> QED BY <1>5, <1>8, <2>1, <2>2 DEF NotHeld
<1>12. ASSUME ~lost', grip.slipped, ~Released' PROVE surface'.since <= 0
  <2>1. HOLD \in Nat
    BY InputAssumption
  <2>2. CASE ~Released
    <3>1. surface.since <= 0
      BY <1>4, <1>12, <2>2 DEF Held
    <3> QED BY <1>5, <1>8, <2>1, <3>1 DEF NotHeld
  <2>3. CASE Released
    <3>1. PICK k \in ChordKeys : Has(raw, Bt(k, FALSE)) /\ ~Has(raw', Bt(k, FALSE))
      BY <1>12, <2>3, ReleasedIs
    <3> DEFINE y == Bt(k, FALSE)
               t == Tail(raw)
    <3>2. Has(<<h>> \o t, y) /\ ~Has(t, y) /\ <<h>> \in Seq(RawEvent) /\ t \in Seq(RawEvent)
      BY <1>1, <1>2, <3>1
    <3>3. h = y
      <4> HIDE DEF y, t
      <4>1. Has(<<h>>, y)
        BY <3>2, HasJoined
      <4> QED BY <4>1, HasFew
    <3>4. Down(k)' = FALSE
      BY <1>9, <3>3
    <3>5. ~(s.shift /\ s.stop)
      BY <1>7, <3>4 DEF Down
    <3>6. surface'.since = NotHeld
      BY <1>7, <3>5
    <3> QED BY <3>6 DEF NotHeld
  <2> QED BY <2>2, <2>3
<1> QED BY <1>1, <1>8, <1>10, <1>11, <1>12 DEF Held, Chorded

LEMMA SecondHolds ==
  ASSUME Types, Held, Second
  PROVE  Held'
<1> DEFINE since == IF surface.since \in {NotHeld, HOLD} THEN surface.since ELSE surface.since + 1
           units == IF ~Chorded(pins) THEN 0 ELSE IF grip.slipped THEN 1
                    ELSE IF grip.units < HOLD THEN grip.units + 1 ELSE HOLD
           slipped == ~Chorded(pins)
<1>1. /\ surface' = [surface EXCEPT !.since = since]
      /\ grip' = [slipped |-> slipped, units |-> units]
      /\ Settled /\ raw = <<>>
      /\ UNCHANGED <<chip, raw, lost>>
  BY DEF Second
<1>2. HOLD \in Nat \ {0} /\ surface \in SurfaceType /\ grip \in [units : 0..HOLD, slipped : BOOLEAN]
  BY InputAssumption DEF Types, SurfaceType
<1>3. surface.since \in {NotHeld} \cup 0..HOLD /\ grip.units \in 0..HOLD
  BY <1>2 DEF SurfaceType
<1>4. /\ surface'.shift = surface.shift /\ surface'.stop = surface.stop /\ surface'.since = since
      /\ grip'.slipped = slipped /\ grip'.units = units
  <2> HIDE DEF since, units, slipped
  <2> QED BY <1>1, <1>2 DEF SurfaceType
<1>5. Chorded(chip["mcp0b"].stable) <=> Chorded(pins)
  BY <1>1, PortsAre DEF Settled, Chorded
<1>6. ASSUME NEW CONSTANT k PROVE Traced(k)' = Traced(k)
  <2>1. Down(k)' = Down(k)
    BY <1>4 DEF Down
  <2> QED BY <1>1, <2>1, TracedIs
<1>7. ~Released /\ ~Released'
  BY <1>1, HasFew, ReleasedIs
<1>8. ASSUME ~lost, surface.since # NotHeld PROVE Chorded(pins)
  <2>1. surface.shift /\ surface.stop
    BY <1>8 DEF Held
  <2>2. ASSUME NEW CONSTANT k \in ChordKeys PROVE k \in chip["mcp0b"].stable
    <3>1. PICK v : v = (k \in chip["mcp0b"].stable)
      OBVIOUS
    <3> DEFINE base == Down(k) = v
    <3>2. Traced(k)
      BY <1>8 DEF Held
    <3>3. Will(<<>>, Bt(k, v), Bt(k, ~v), base)
      BY <1>1, <3>1, <3>2, TracedIs
    <3>4. base
      <4> HIDE DEF base
      <4> QED BY <3>3, WillNone
    <3>5. Down(k) = TRUE
      BY <1>2, <2>1 DEF Down, SurfaceType
    <3> QED BY <3>1, <3>4, <3>5
  <2>3. Chorded(chip["mcp0b"].stable)
    BY <2>2 DEF Chorded, ChordKeys
  <2> QED BY <1>5, <2>3
<1>9. ASSUME ~lost PROVE surface.since <= grip.units /\ (grip.slipped => surface.since <= 0)
  BY <1>7, <1>9 DEF Held
<1>10. ASSUME ~lost PROVE since <= units
  <2>1. CASE surface.since = NotHeld
    <3>1. since = -1
      BY <2>1 DEF NotHeld
    <3>2. units \in 0..HOLD
      BY <1>2, <1>3
    <3> HIDE DEF since, units
    <3> QED BY <1>2, <3>1, <3>2
  <2>2. CASE surface.since # NotHeld /\ grip.slipped
    <3>1. Chorded(pins) /\ surface.since = 0
      BY <1>3, <1>8, <1>9, <1>10, <2>2 DEF NotHeld
    <3>2. since = 1 /\ units = 1
      BY <1>2, <2>2, <3>1 DEF NotHeld
    <3> QED BY <3>2
  <2>3. CASE surface.since # NotHeld /\ ~grip.slipped
    <3>1. Chorded(pins) /\ surface.since <= grip.units /\ surface.since \in 0..HOLD
      BY <1>3, <1>8, <1>9, <1>10, <2>3
    <3>2. units = IF grip.units < HOLD THEN grip.units + 1 ELSE HOLD
      BY <2>3, <3>1
    <3>3. since = IF surface.since = HOLD THEN HOLD ELSE surface.since + 1
      BY <2>3
    <3> HIDE DEF since, units
    <3> QED BY <1>2, <1>3, <3>1, <3>2, <3>3
  <2> QED BY <2>1, <2>2, <2>3
<1>11. ASSUME ~lost, slipped PROVE since <= 0
  <2>1. surface.since = NotHeld
    BY <1>8, <1>11
  <2> QED BY <2>1 DEF NotHeld
<1>12. since # NotHeld => surface.shift /\ surface.stop
  <2>1. surface.since = NotHeld => since = NotHeld
    OBVIOUS
  <2> QED BY <2>1 DEF Held
<1>13. ~Chorded(chip'["mcp0b"].stable) => grip'.slipped
  BY <1>1, <1>4, <1>5
<1> HIDE DEF since, units, slipped
<1> QED BY <1>1, <1>4, <1>6, <1>10, <1>11, <1>12, <1>13 DEF Held, Chorded

LEMMA HeldStarts ==
  ASSUME Init
  PROVE  Held
<1>1. /\ raw = <<<<"Switch", Fwd(pins)>>>> /\ pins \in {{}, {"direction"}}
      /\ chip["mcp0b"].stable = pins \cap Port["mcp0b"]
      /\ surface = [shift |-> FALSE, stop |-> FALSE, since |-> NotHeld, fired |-> FALSE]
      /\ grip = [units |-> 0, slipped |-> TRUE]
  BY PortsAre DEF Init
<1>2. ASSUME NEW CONSTANT k \in ChordKeys PROVE Traced(k)
  <2>1. k \notin chip["mcp0b"].stable
    BY <1>1 DEF ChordKeys
  <2>2. Down(k) = FALSE
    BY <1>1 DEF Down
  <2> DEFINE x == <<"Switch", Fwd(pins)>>
             z == Bt(k, TRUE)
             y == Bt(k, FALSE)
  <2>3. x # z
    BY DEF Bt
  <2> HIDE DEF x, z, y
  <2>4. raw = <<x>>
    BY <1>1 DEF x
  <2>5. Will(raw, y, z, TRUE)
    BY <2>3, <2>4 DEF Will
  <2>6. (k \in chip["mcp0b"].stable) = FALSE /\ (~FALSE) = TRUE
    BY <2>1
  <2> QED BY <2>2, <2>5, <2>6, TracedIs DEF y, z
<1> QED BY <1>1, <1>2 DEF Held, NotHeld

LEMMA HeldStep ==
  ASSUME Types, Count, Held, [Next]_vars
  PROVE  Held'
<1>1. CASE Poll
  BY <1>1, PollHolds
<1>2. CASE Sample
  BY <1>2, SampleHolds
<1>3. CASE ButtonTask
  BY <1>3, ButtonTaskHolds
<1>4. CASE OnRaw
  BY <1>4, OnRawHolds
<1>5. CASE BridgeTick
  BY <1>5, BridgeTickHolds
<1>6. CASE HandleAwake \/ HandleBlank \/ HandleSplash
  <2>1. UNCHANGED <<chip, raw, surface, grip, lost>>
    BY <1>6 DEF HandleAwake, HandleBlank, HandleSplash, Take
  <2> QED BY <2>1, NothingHolds
<1>7. CASE SplashEnds \/ Blank \/ Acquire \/ Release \/ Turn
  <2>1. UNCHANGED <<chip, raw, surface, grip, lost>>
    BY <1>7 DEF SplashEnds, Blank, Acquire, Release, Turn
  <2> QED BY <2>1, NothingHolds
<1>8. CASE \E k \in Keys : Touch(k)
  <2>1. UNCHANGED <<chip, raw, surface, grip, lost>>
    BY <1>8 DEF Touch
  <2> QED BY <2>1, NothingHolds
<1>9. CASE Second
  BY <1>9, SecondHolds
<1>10. CASE UNCHANGED vars
  BY <1>10, NothingHolds DEF vars
<1> QED BY <1>1, <1>2, <1>3, <1>4, <1>5, <1>6, <1>7, <1>8, <1>9, <1>10 DEF Next

LEMMA FiringIsHeld ==
  ASSUME Types, Held, [Next]_vars, surface'.fired, ~surface.fired, ~lost
  PROVE  /\ grip.units >= HOLD
         /\ grip.slipped =>
              \E k \in {"shift1", "stop"} : \E i \in DOMAIN raw : raw[i] = <<"Button", k, FALSE>>
<1>1. surface \in SurfaceType /\ surface.since \in {NotHeld} \cup 0..HOLD /\ grip.units \in 0..HOLD
      /\ HOLD \in Nat \ {0} /\ raw \in Seq(RawEvent)
  BY InputAssumption DEF Types, SurfaceType
<1>2. OnRaw \/ BridgeTick \/ surface'.fired = surface.fired
  <2>1. Second => surface'.fired = surface.fired
    BY <1>1 DEF Second, SurfaceType
  <2>2. UNCHANGED surface \/ OnRaw \/ BridgeTick \/ Second
    BY DEF Next, vars, Poll, Sample, ButtonTask, HandleAwake, HandleBlank, HandleSplash, Take,
           SplashEnds, Blank, Acquire, Release, Touch, Turn
  <2> QED BY <2>1, <2>2
<1>3. surface.since >= HOLD
  <2>1. CASE OnRaw
    <3>1. Head(raw) \in RawEvent /\ surface' = Chord(Keep(surface, Head(raw)))
      BY <1>1, <2>1, HeadTail DEF OnRaw
    <3> DEFINE s == Keep(surface, Head(raw))
    <3>2. s \in SurfaceType /\ s.since = surface.since /\ s.fired = surface.fired
      BY <1>1, <3>1, KeepIs
    <3> HIDE DEF s
    <3>3. s.shift /\ s.stop /\ (Chord(s).fired /\ ~s.fired => s.since >= HOLD)
      BY <3>1, <3>2, ChordIs DEF s
    <3> QED BY <3>1, <3>2, <3>3 DEF s
  <2>2. CASE BridgeTick
    BY <1>1, <2>2, ChordIs DEF BridgeTick
  <2> QED BY <1>2, <2>1, <2>2
<1>4. surface.since <= grip.units /\ (grip.slipped /\ ~Released => surface.since <= 0)
  BY DEF Held
<1>5. grip.units >= HOLD
  BY <1>1, <1>3, <1>4 DEF NotHeld
<1>6. grip.slipped => Released
  BY <1>1, <1>3, <1>4 DEF NotHeld
<1>7. Released => \E k \in {"shift1", "stop"} : \E i \in DOMAIN raw : raw[i] = <<"Button", k, FALSE>>
  BY DEF Released, Has, ChordKeys
<1> QED BY <1>5, <1>6, <1>7

\* While no event is lost, the bridge enters programming mode only when both chord keys
\* were down for the whole hold time, unit after unit, as the drivers saw them; a key
\* let go in between does not count as held, and its release can only still be on the
\* way: no interleaving of drivers and bridge fires the chord on a hold that was broken.
THEOREM ChordIsAlwaysHeld == Spec => ChordIsHeld
<1>1. Init => Held
  BY HeldStarts
<1>2. Types /\ Count /\ Held /\ [Next]_vars => Held'
  BY HeldStep
<1>3. Types /\ Held /\ [Next]_vars =>
        [surface'.fired /\ ~surface.fired /\ ~lost =>
           /\ grip.units >= HOLD
           /\ grip.slipped =>
                \E k \in {"shift1", "stop"} : \E i \in DOMAIN raw : raw[i] = <<"Button", k, FALSE>>]_vars
  BY FiringIsHeld
<1> QED BY <1>1, <1>2, <1>3, TypesAlways, PTL DEF Spec, ChordIsHeld
============================================================================
